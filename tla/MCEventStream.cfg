\* One run, one stream that breaks and comes back, a log that keeps two rows.
SPECIFICATION FairSpec
CONSTANTS
    Runs = {r1}
    Agents = {a1, a2}
    Streams = {s1}
    FirstAgent = a1
    None = None
    Retention = 2
    PageLimit = 2
    Window = 1
    MaxEvents = 5
    RestFailures = 0
INVARIANTS StreamTypeOK QuietMeansCurrent ShowsSelection
PROPERTIES EndIsShown
