\* A pin downstream that keeps its samples for ever; calls should return all the same.
SPECIFICATION Spec
CONSTANTS
    Duration = 9
    Ranges <- SomeRanges
    BufferSize = 4
    Align = 2
    BufferCounts = {1}
PROPERTIES FlushUnblocks
