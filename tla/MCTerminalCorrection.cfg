\* More rows than one page: a heartbeat frame overtakes them.
SPECIFICATION Spec
CONSTANTS
    Runs = {r1}
    Agents = {a1}
    Streams = {s1}
    FirstAgent = a1
    None = None
    Retention = 3
    PageLimit = 1
    Window = 2
    MaxEvents = 5
    RestFailures = 0
INVARIANTS TerminalIsCorrected
