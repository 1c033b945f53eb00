\* Two runs, agents and streams: selections, of another run or of the same one,
\* that overtake each other and the streams' events.
SPECIFICATION Spec
CONSTANTS
    Runs = {r1, r2}
    Agents = {a1, a2}
    Streams = {s1, s2}
    FirstAgent = a1
    None = None
    Retention = 1
    PageLimit = 1
    Window = 1
    MaxEvents = 3
    RestFailures = 1
SYMMETRY Symmetric
INVARIANTS StaysSubscribed
PROPERTIES ShownNeverRegresses
