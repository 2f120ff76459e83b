\* Two references, two changes, windows of three, round trips that are no outliers.
CONSTANTS
    Reference = {1, 2}
    NoReference = 0
    Stub = 99
    Skew <- Skews
    Trips <- QuickAndSlow
    StubOffset = 1
    StubTimes = {0, 1}
    SampleCount = 3
    Multiplier = 3
    Threshold = 50
    MinInterval = 5
    MaxInterval = 6
    Corrupt <- CorruptSamples
    MaxChanges = 2
    MaxCorrupt = 1
SPECIFICATION FairSpec
INVARIANTS TypeOK OneLateSample MajorityAligns
PROPERTIES EventuallyAligned MisledOnce
