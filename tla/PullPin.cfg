SPECIFICATION Spec
CONSTANTS
    Duration = 9
    Ranges <- SomeRanges
    BufferSize = 4
    Align = 2
    BufferCounts = {1, 2}
INVARIANTS NothingOutstanding RangeIsCurrent
PROPERTIES PassedOnInOrder CallsReturn
