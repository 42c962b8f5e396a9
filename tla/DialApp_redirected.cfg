SPECIFICATION DialSpec
CONSTANT Destinations = 2
INVARIANT RedirectedIsKept
CHECK_DEADLOCK FALSE
