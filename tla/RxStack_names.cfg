SPECIFICATION Spec
CONSTANTS
    q1 = q1  a = a  b = b  u1 = u1
    NoArg = NoArg
    Garbled = Garbled
    Client = {c1, c2, c3}
    Name = {SESSION}
    Fresh = {u1}
    Session = SESSION
    Line = {a}
    Timeout = {}
    WakeUp = 1
    Week = 1
    Request <- NameRequests
    Interrupting = {}
    Asserting = TRUE
    MaxLines = 1
    MaxOut = 1
SYMMETRY Symmetry
INVARIANT DefaultQueueValid
INVARIANT UsedQueueNotExpired
PROPERTY FairWaiters
