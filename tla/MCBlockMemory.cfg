SPECIFICATION Spec
CONSTANTS
    WordBytes = 8
    IntBytes = 4
    Size = 2
    Lanes <- EightLanes
    Bytes = {0, 1, 2}
    ZeroByte = 0
    Images <- SomeImages
INVARIANT ReadsImage
