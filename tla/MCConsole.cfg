SPECIFICATION ConsoleFairSpec

CONSTANTS
    Slots = 2
    Proper = {"a"}
    Long = "long"
    Begin = "lon"
    Values = {"1", "2"}
    Nobody = "nobody"
    Telnet = {"telnet"}
    OutMax = 2
    MaxLines = 3

INVARIANTS
    CaptureComplete

PROPERTIES
    EnvImplementsStore
    OutputOwned
    CommandsEnd
