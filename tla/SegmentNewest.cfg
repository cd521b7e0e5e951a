SPECIFICATION Spec
CONSTANTS
    Keys = {0, 1, 2}
    Updates = {{0}, {1}, {0, 2}, {1, 2}}
    Contents <- InitialContents
    Target = 2
    Trigger = 3
    Buffered = TRUE
    MaxName = 7
    MaxWrites = 3
    MaxRare = 1
INVARIANT ReadNewest
CHECK_DEADLOCK FALSE
