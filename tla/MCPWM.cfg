SPECIFICATION Spec
CONSTANTS
    MaxChannels = 3
    TimerMax = 2
    MaxDuty = 7
    Second = 10
    Freqs = {7, 20}
    Percents = {30, 150}
    Pulses = {0, 1}
INVARIANTS TimersAccounted ConfigIsReal DutyNotBelowReported
