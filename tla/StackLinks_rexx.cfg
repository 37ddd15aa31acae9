SPECIFICATION Spec
CONSTANTS
    a = a  b = b
    Box = {l1, l2, l3}
    Buf = {b0, b1, b2}
    Temp = temp
    Null = null
    Line = {a, b}
    Number <- DropNumbers
    Ways <- CommandWays
PROPERTIES Implements BelowUntouched
INVARIANT Linked
