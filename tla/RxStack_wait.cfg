SPECIFICATION Spec
CONSTANTS
    q1 = q1  a = a  b = b  u1 = u1
    NoArg = NoArg
    Garbled = Garbled
    Client = {c1, c2}
    Name = {SESSION, q1}
    Fresh = {}
    Session = SESSION
    Line = {a}
    Timeout = {1}
    WakeUp = 2
    Week = 2
    Request <- AllRequests
    Interrupting = {c1, c2}
    Asserting = FALSE
    MaxLines = 1
    MaxOut = 1
SYMMETRY Symmetry
INVARIANT TypeOK
INVARIANT DeadlineMeansListed
INVARIANT NoStarvedWaiter
PROPERTY IntactKept
PROPERTY NobodyForgotten
