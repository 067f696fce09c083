\* Two calls that update the stored queue without the lock.
SPECIFICATION ClientSpec
CONSTANTS
    Item = {x, y}
    Caller = {c1, c2}
    Plane = {{x}}
    Locked = FALSE
    NoItem = NoItem
INVARIANTS
    SignedIsKept
CHECK_DEADLOCK FALSE
