-------------------------------- MODULE PWM --------------------------------
(***************************************************************************)
(* The PWM driver of os_pwm.c: a table of channels, each driven by one of  *)
(* the few LEDC hardware timers, which are handed out through a bitmap and *)
(* a reference count.  Every public function holds s_mutex around all its  *)
(* accesses, so it is one action; but os_pwm_deinit, which the shell       *)
(* command "test pwm" runs while other sessions work, gives the mutex      *)
(* before it deletes it and clears s_initialized last.  One deinit at a    *)
(* time is modelled.                                                       *)
(*                                                                         *)
(* The LEDC peripheral is external: it keeps the frequency of each timer,  *)
(* the timer and the duty register of each channel, and which channels     *)
(* produce a signal.  A driver call that fails may leave a timer it was    *)
(* configuring at any frequency.  The calls that leave everything as it    *)
(* was (bad arguments, inactive channel, failed ledc_set_duty or           *)
(* ledc_set_freq) are stuttering steps.  gpio_pin decides nothing and is   *)
(* left out; ledc_ch is always the channel itself.                         *)
(***************************************************************************)
EXTENDS Integers, FiniteSets

CONSTANTS
    MaxChannels,    \* OS_PWM_MAX_CHANNELS
    TimerMax,       \* LEDC_TIMER_MAX
    MaxDuty,        \* PWM_MAX_DUTY_VALUE, 8191 in the code
    Second,         \* microseconds in a second
    Freqs,          \* frequencies callers ask for, all of them valid
    Percents,       \* duty cycles callers ask for, in percent
    Pulses          \* duty cycles callers ask for, in microseconds

ASSUME PwmAssumption ==
    /\ MaxChannels \in Nat \ {0}
    /\ TimerMax \in Nat \ {0}
    /\ MaxDuty \in Nat \ {0}
    /\ Second \in Nat \ {0}
    /\ Freqs \subseteq Nat \ {0}
    /\ Percents \subseteq Nat
    /\ Pulses \subseteq Nat

Channels == 0 .. MaxChannels - 1

Timers == 0 .. TimerMax - 1

VARIABLES
    phase,          \* "off", "on", or "closing": inside os_pwm_deinit, when the
                    \* mutex has been given; s_initialized is set unless "off"
    channels,       \* s_channels
    usage,          \* s_timer_usage, as the set of the timers whose bit is set
    refcount,       \* s_timer_refcount
    ledcFreq,       \* LEDC: frequency of each timer, 0 if never configured
    ledcTimer,      \* LEDC: the timer each channel is bound to
    ledcDuty,       \* LEDC: duty register of each channel
    driven,         \* LEDC: the channels that produce a signal
    late            \* history: was a channel configured inside os_pwm_deinit

vars == <<phase, channels, usage, refcount, ledcFreq, ledcTimer, ledcDuty, driven, late>>
ledc == <<ledcFreq, ledcTimer, ledcDuty, driven>>

Channel == [active : BOOLEAN, timer : Timers, freq : Nat, duty : 0 .. 100]

TypeOK ==
    /\ phase \in {"off", "on", "closing"}
    /\ channels \in [Channels -> Channel]
    /\ usage \in SUBSET Timers
    /\ refcount \in [Timers -> 0 .. 255]
    /\ ledcFreq \in [Timers -> Nat]
    /\ ledcTimer \in [Channels -> Timers]
    /\ ledcDuty \in [Channels -> 0 .. MaxDuty]
    /\ driven \in SUBSET Channels
    /\ late \in BOOLEAN

Unused == [active |-> FALSE, timer |-> 0, freq |-> 0, duty |-> 0]

Init ==
    /\ phase = "off"
    /\ channels = [c \in Channels |-> Unused]
    /\ usage = {}
    /\ refcount = [t \in Timers |-> 0]
    /\ ledcFreq = [t \in Timers |-> 0]
    /\ ledcTimer = [c \in Channels |-> 0]
    /\ ledcDuty = [c \in Channels |-> 0]
    /\ driven = {}
    /\ late = FALSE

-----------------------------------------------------------------------------
(* The helpers work on a bitmap u and a table r of counts, so that several *)
(* of them can be applied in one call of the interface.                    *)

\* pwm_alloc_timer returns the first timer whose bit is clear; its count becomes 1.
IsAllocated(u, t) == t \notin u /\ \A v \in Timers : v < t => v \in u

\* pwm_free_timer: the count goes down, and at 0 the bit is cleared.
CountFreed(r, t) == IF r[t] > 0 THEN [r EXCEPT ![t] = @ - 1] ELSE r
UsageFreed(u, r, t) == IF CountFreed(r, t)[t] = 0 THEN u \ {t} ELSE u

DutyPercentToReg(p) == IF p >= 100 THEN MaxDuty ELSE (p * MaxDuty) \div 100

\* Mutant: the period is rounded up.
DutyUsToReg_RoundsUp(us, f) ==
    LET period == (Second + f - 1) \div f IN
    IF us >= period THEN MaxDuty ELSE (us * MaxDuty) \div period

DutyUsToReg(us, f) ==
    LET period == Second \div f IN
    IF us >= period THEN MaxDuty ELSE (us * MaxDuty) \div period

AtMost100(p) == IF p > 100 THEN 100 ELSE p

-----------------------------------------------------------------------------
\* os_pwm_init; the peripheral is not touched.
PwmInit ==
    /\ phase = "off"
    /\ phase' = "on"
    /\ channels' = [c \in Channels |-> Unused]
    /\ usage' = {}
    /\ refcount' = [t \in Timers |-> 0]
    /\ UNCHANGED <<ledc, late>>

Owners(t) == {c \in Channels : channels[c].active /\ channels[c].timer = t}

\* Mutant: the channels are forgotten without being stopped.
PwmDeinit_NoStop ==
    /\ phase = "on"
    /\ phase' = "closing"
    /\ channels' = [c \in Channels |-> [channels[c] EXCEPT !.active = FALSE]]
    /\ usage' = {}
    /\ refcount' = [t \in Timers |-> LET n == Cardinality(Owners(t)) IN
                                     IF refcount[t] > n THEN refcount[t] - n ELSE 0]
    /\ UNCHANGED <<ledc, late>>

\* os_pwm_deinit, under the mutex: every active channel is stopped and gives its timer
\* back.
PwmDeinit ==
    /\ phase = "on"
    /\ phase' = "closing"
    /\ channels' = [c \in Channels |-> [channels[c] EXCEPT !.active = FALSE]]
    /\ usage' = {}
    /\ refcount' = [t \in Timers |-> LET n == Cardinality(Owners(t)) IN
                                     IF refcount[t] > n THEN refcount[t] - n ELSE 0]
    /\ driven' = driven \ {c \in Channels : channels[c].active}
    /\ UNCHANGED <<ledcFreq, ledcTimer, ledcDuty, late>>

\* The mutex is deleted and s_initialized cleared.
DeinitEnds ==
    /\ phase = "closing"
    /\ phase' = "off"
    /\ UNCHANGED <<channels, usage, refcount, ledc, late>>

\* A call that has found s_initialized set, or os_pwm_get_config, which does not test it,
\* takes a mutex that was deleted or is NULL.  The system restarts, the peripheral too.
Panic ==
    /\ phase # "on"
    /\ phase' = "off"
    /\ channels' = [c \in Channels |-> Unused]
    /\ usage' = {}
    /\ refcount' = [t \in Timers |-> 0]
    /\ ledcFreq' = [t \in Timers |-> 0]
    /\ ledcTimer' = [c \in Channels |-> 0]
    /\ ledcDuty' = [c \in Channels |-> 0]
    /\ driven' = {}
    /\ late' = FALSE

\* A call that has found s_initialized set gets the mutex.  It may have done so before
\* os_pwm_deinit began, or while it runs.
Enters == phase # "off"

\* The bitmap, the counts and the driven channels once a channel that is still
\* active has been stopped, the first thing os_pwm_channel_init does.
UsageStopped(c) ==
    IF channels[c].active THEN UsageFreed(usage, refcount, channels[c].timer) ELSE usage
CountStopped(c) ==
    IF channels[c].active THEN CountFreed(refcount, channels[c].timer) ELSE refcount
DrivenStopped(c) == IF channels[c].active THEN driven \ {c} ELSE driven

\* os_pwm_channel_init, when no timer is left.
ChannelInitNoTimer(c) ==
    /\ Enters
    /\ \A t \in Timers : t \in UsageStopped(c)
    /\ channels' = [channels EXCEPT ![c].active = FALSE]
    /\ usage' = UsageStopped(c)
    /\ refcount' = CountStopped(c)
    /\ driven' = DrivenStopped(c)
    /\ UNCHANGED <<phase, ledcFreq, ledcTimer, ledcDuty, late>>

\* Mutant: the timer is not given back.
ChannelInitFails_Leaks(c, f) ==
    /\ Enters
    /\ \E t \in Timers :
         LET u == UsageStopped(c) \cup {t}
             r == [CountStopped(c) EXCEPT ![t] = 1] IN
         /\ IsAllocated(UsageStopped(c), t)
         /\ channels' = [channels EXCEPT ![c].active = FALSE, ![c].timer = t]
         /\ usage' = u
         /\ refcount' = r
         /\ ledcFreq' \in {ledcFreq, [ledcFreq EXCEPT ![t] = f]}
         /\ driven' = DrivenStopped(c)
         /\ UNCHANGED <<phase, ledcTimer, ledcDuty, late>>

\* os_pwm_channel_init, when ledc_timer_config or ledc_channel_config fails: the
\* timer is given back, but it may have been configured.
ChannelInitFails(c, f) ==
    /\ Enters
    /\ \E t \in Timers :
         LET u == UsageStopped(c) \cup {t}
             r == [CountStopped(c) EXCEPT ![t] = 1] IN
         /\ IsAllocated(UsageStopped(c), t)
         /\ channels' = [channels EXCEPT ![c].active = FALSE, ![c].timer = t]
         /\ usage' = UsageFreed(u, r, t)
         /\ refcount' = CountFreed(r, t)
         /\ ledcFreq' \in {ledcFreq, [ledcFreq EXCEPT ![t] = f]}
         /\ driven' = DrivenStopped(c)
         /\ UNCHANGED <<phase, ledcTimer, ledcDuty, late>>

\* os_pwm_channel_init, when everything succeeds.
ChannelInit(c, f) ==
    /\ Enters
    /\ \E t \in Timers :
         /\ IsAllocated(UsageStopped(c), t)
         /\ channels' = [channels EXCEPT ![c] =
                           [active |-> TRUE, timer |-> t, freq |-> f, duty |-> 0]]
         /\ usage' = UsageStopped(c) \cup {t}
         /\ refcount' = [CountStopped(c) EXCEPT ![t] = 1]
         /\ ledcFreq' = [ledcFreq EXCEPT ![t] = f]
         /\ ledcTimer' = [ledcTimer EXCEPT ![c] = t]
         /\ ledcDuty' = [ledcDuty EXCEPT ![c] = 0]
         /\ driven' = driven \cup {c}
    /\ late' = (late \/ phase = "closing")
    /\ UNCHANGED phase

\* os_pwm_channel_deinit of an active channel.
ChannelDeinit(c) ==
    /\ Enters
    /\ channels[c].active
    /\ channels' = [channels EXCEPT ![c].active = FALSE]
    /\ usage' = UsageFreed(usage, refcount, channels[c].timer)
    /\ refcount' = CountFreed(refcount, channels[c].timer)
    /\ driven' = driven \ {c}
    /\ UNCHANGED <<phase, ledcFreq, ledcTimer, ledcDuty, late>>

\* os_pwm_set_duty
SetDuty(c, p) ==
    /\ Enters
    /\ channels[c].active
    /\ ledcDuty' = [ledcDuty EXCEPT ![c] = DutyPercentToReg(AtMost100(p))]
    /\ channels' = [channels EXCEPT ![c].duty = AtMost100(p)]
    /\ UNCHANGED <<phase, usage, refcount, ledcFreq, ledcTimer, driven, late>>

\* os_pwm_set_duty_us: the percentage is computed apart, from the exact period.
SetDutyUs(c, us) ==
    /\ Enters
    /\ channels[c].active
    /\ ledcDuty' = [ledcDuty EXCEPT ![c] = DutyUsToReg(us, channels[c].freq)]
    /\ channels' = [channels EXCEPT ![c].duty =
                      AtMost100((us * 100 * channels[c].freq) \div Second)]
    /\ UNCHANGED <<phase, usage, refcount, ledcFreq, ledcTimer, driven, late>>

\* os_pwm_set_freq: the timer changes, the duty register stays.
SetFreq(c, f) ==
    /\ Enters
    /\ channels[c].active
    /\ ledcFreq' = [ledcFreq EXCEPT ![channels[c].timer] = f]
    /\ channels' = [channels EXCEPT ![c].freq = f]
    /\ UNCHANGED <<phase, usage, refcount, ledcTimer, ledcDuty, driven, late>>

\* The shell command pwm: init, duty, freq and deinit.
CmdPwm(c) ==
    \/ ChannelInitNoTimer(c)
    \/ \E f \in Freqs : ChannelInit(c, f) \/ ChannelInitFails(c, f) \/ SetFreq(c, f)
    \/ ChannelDeinit(c)
    \/ \E p \in Percents : SetDuty(c, p)

Next ==
    \/ PwmInit
    \/ PwmDeinit \/ DeinitEnds \/ Panic
    \/ \E c \in Channels :
         \/ CmdPwm(c)
         \/ \E us \in Pulses : SetDutyUs(c, us)

Spec == Init /\ [][Next]_vars
-----------------------------------------------------------------------------
(* Properties *)

\* Timer accounting: no two active channels share a timer, a bit of the bitmap is
\* set exactly for the timers of active channels, and the counts agree with the
\* bitmap.  So no failed, repeated or partial initialisation loses a timer or
\* gives one away twice.
TimersAccounted ==
    /\ \A c, d \in Channels :
         channels[c].active /\ channels[d].active /\ channels[c].timer = channels[d].timer
         => c = d
    /\ \A t \in Timers : t \in usage <=> \E c \in Channels : channels[c].active
                                                             /\ channels[c].timer = t
    /\ \A t \in Timers : refcount[t] = IF t \in usage THEN 1 ELSE 0

\* What os_pwm_get_config reports is what the peripheral does: an active channel
\* produces a signal, on its own timer, at the frequency the driver stored, whatever the
\* other channels were asked to do and whatever calls overlap a deinit.  And no other
\* channel produces one, unless a channel was configured inside os_pwm_deinit: the next
\* init forgets it without stopping it.
ConfigIsReal ==
    /\ \A c \in Channels : channels[c].active =>
         /\ c \in driven
         /\ ledcTimer[c] = channels[c].timer
         /\ ledcFreq[channels[c].timer] = channels[c].freq
    /\ ~late => \A c \in driven : channels[c].active

\* The duty cycle on the pin is never below the percentage os_pwm_get_config
\* reports, although os_pwm_set_duty_us rounds the register and the percentage
\* differently: the register through the truncated period, the percentage not.
DutyNotBelowReported ==
    \A c \in driven : ledcDuty[c] >= DutyPercentToReg(channels[c].duty)
=============================================================================
