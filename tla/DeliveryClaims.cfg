\* Claims that TLC refutes, each; it shows the first that it meets.
SPECIFICATION FairSpec
CONSTANTS
    c1 = c1
    c2 = c2
    s1 = s1
    a = a
    b = b
    cli = cli
    Tasks = {c1, c2, s1}
    Agents = {a, b}
    Cli = cli
    Sender <- MCSender
    Target <- MCTarget
    Late = {b}
    Permanent = {c2}
    Workers = 2
    Frail = {a}
    MaxUpsets = 1
INVARIANTS CompletedIsDelivered
PROPERTIES AllAreServed
CHECK_DEADLOCK FALSE
