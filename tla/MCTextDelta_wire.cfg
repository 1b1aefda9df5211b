SPECIFICATION DeltaSpec
CONSTANTS
    Streams <- MixedStreams
    Banners <- SomeBanners
    Deltas <- SomeDeltas
    MaxNumber = 63
    MaxDepth = 3
    MaxGarbage = 10
    Chunk = 2
    MaxTimeouts = 1
    WindowMax = 8
    MaxUintLen = 2
    Wrap = 64
    ZlibMin = 2
INVARIANT ReadsBack
PROPERTY Arrives
INVARIANT WholeWindows
INVARIANT CutsDoNotMatter
CHECK_DEADLOCK FALSE
