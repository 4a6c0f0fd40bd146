SPECIFICATION Spec
CONSTANTS
    RingSize = 2
    CountMod = 4
    MaxLines = 6
INVARIANTS DumpConsecutive RecentIsComplete ErrorsReachFile
