----------------------------- MODULE PWMProofs -----------------------------
(***************************************************************************)
(* Proofs about the PWM driver, for any number of channels and timers and  *)
(* any resolution: type correctness, the accounting of the LEDC timers,    *)
(* and the agreement between the driver's table and the peripheral.        *)
(***************************************************************************)
EXTENDS PWM, FiniteSetTheorems, TLAPS

\* A pulse shorter than the period gives a register value below the maximum.
LEMMA DivBound ==
    ASSUME NEW a \in Nat, NEW b \in Nat \ {0}, NEW m \in Nat, a < b
    PROVE  (a * m) \div b \in 0 .. m
<1>1. a * m \in Nat /\ a * m <= b * m
  OBVIOUS
<1>2. (a * m) \div b \in Nat
  BY <1>1
<1>3. b * ((a * m) \div b) <= a * m
  BY <1>1
<1>4. (a * m) \div b <= m
  BY <1>1, <1>2, <1>3
<1> QED BY <1>2, <1>4

\* duty_percent_to_reg and duty_us_to_reg stay within the register.
LEMMA RegisterRange ==
    /\ \A p \in Nat : DutyPercentToReg(p) \in 0 .. MaxDuty
    /\ \A us \in Nat, f \in Nat \ {0} : DutyUsToReg(us, f) \in 0 .. MaxDuty
<1>1. \A p \in Nat : DutyPercentToReg(p) \in 0 .. MaxDuty
  BY DivBound, PwmAssumption DEF DutyPercentToReg
<1>2. ASSUME NEW us \in Nat, NEW f \in Nat \ {0}
      PROVE  DutyUsToReg(us, f) \in 0 .. MaxDuty
  <2>1. Second \div f \in Nat
    BY PwmAssumption
  <2>2. CASE us >= Second \div f
    BY <2>2, PwmAssumption DEF DutyUsToReg
  <2>3. CASE us < Second \div f
    BY <2>1, <2>3, DivBound, PwmAssumption DEF DutyUsToReg
  <2> QED BY <2>1, <2>2, <2>3
<1> QED BY <1>1, <1>2

\* The percentage the driver stores.
LEMMA PercentRange ==
    ASSUME NEW us \in Nat, NEW f \in Nat
    PROVE  AtMost100((us * 100 * f) \div Second) \in 0 .. 100
<1>1. us * 100 * f \in Nat
  OBVIOUS
<1>2. (us * 100 * f) \div Second \in Nat
  BY <1>1, PwmAssumption
<1> QED BY <1>2 DEF AtMost100

-----------------------------------------------------------------------------
\* An active channel was given a frequency, and every one the driver accepts is
\* positive: duty_us_to_reg never divides by zero.
FreqInv == \A c \in Channels : channels[c].active => channels[c].freq # 0

LEMMA InitTyped == Init => TypeOK /\ FreqInv
<1>1. 0 \in Timers
  BY PwmAssumption DEF Timers
<1>2. Unused \in Channel /\ ~Unused.active
  BY <1>1 DEF Unused, Channel
<1>3. Init => FreqInv
  BY <1>2 DEF Init, FreqInv
<1>4. Init => channels \in [Channels -> Channel]
  BY <1>2 DEF Init
<1>5. Init => /\ refcount \in [Timers -> 0 .. 255]
              /\ ledcDuty \in [Channels -> 0 .. MaxDuty]
              /\ ledcFreq \in [Timers -> Nat]
  BY PwmAssumption DEF Init
<1>6. Init => TypeOK
  BY <1>1, <1>4, <1>5 DEF Init, TypeOK
<1> QED BY <1>3, <1>6

\* A panic leaves the initial state.
LEMMA PanicTyped == Panic => TypeOK' /\ FreqInv'
<1>1. Panic => Init'
  BY DEF Panic, Init
<1> QED BY <1>1, InitTyped, PTL

\* Giving a timer back keeps the bitmap and the counts in range.
LEMMA FreedTyped ==
    ASSUME NEW u \in SUBSET Timers, NEW r \in [Timers -> 0 .. 255], NEW t \in Timers
    PROVE  /\ CountFreed(r, t) \in [Timers -> 0 .. 255]
           /\ UsageFreed(u, r, t) \in SUBSET Timers
BY DEF CountFreed, UsageFreed

LEMMA StoppedTyped ==
    ASSUME TypeOK, NEW c \in Channels
    PROVE  /\ CountStopped(c) \in [Timers -> 0 .. 255]
           /\ UsageStopped(c) \in SUBSET Timers
           /\ DrivenStopped(c) \in SUBSET Channels
<1>1. channels[c].timer \in Timers
  BY DEF TypeOK, Channel
<1> QED BY <1>1, FreedTyped DEF TypeOK, CountStopped, UsageStopped, DrivenStopped

\* Writing single fields of a channel leaves a channel.
LEMMA ChannelFields ==
    /\ \A x \in Channel : [x EXCEPT !.active = FALSE] \in Channel
    /\ \A x \in Channel, t \in Timers : [x EXCEPT !.active = FALSE, !.timer = t] \in Channel
    /\ \A x \in Channel, f \in Nat : [x EXCEPT !.freq = f] \in Channel
    /\ \A x \in Channel, d \in 0 .. 100 : [x EXCEPT !.duty = d] \in Channel
BY DEF Channel

LEMMA Difference ==
    ASSUME NEW a \in 0 .. 255, NEW b \in Nat
    PROVE  (IF a > b THEN a - b ELSE 0) \in 0 .. 255
OBVIOUS

LEMMA TypeInductive == TypeOK /\ FreqInv /\ [Next]_vars => TypeOK' /\ FreqInv'
<1> SUFFICES ASSUME TypeOK, FreqInv, [Next]_vars PROVE TypeOK' /\ FreqInv'
  OBVIOUS
<1> USE DEF TypeOK, FreqInv
<1>1. CASE PwmInit
  <2>1. 0 \in Timers
    BY PwmAssumption DEF Timers
  <2>2. Unused \in Channel /\ ~Unused.active
    BY <2>1 DEF Unused, Channel
  <2>3. channels' \in [Channels -> Channel] /\ FreqInv'
    BY <1>1, <2>2 DEF PwmInit
  <2>4. refcount' \in [Timers -> 0 .. 255]
    BY <1>1 DEF PwmInit
  <2> QED BY <1>1, <2>3, <2>4 DEF PwmInit, ledc
<1>2. CASE PwmDeinit
  <2>1. refcount' \in [Timers -> 0 .. 255]
    <3>1. ASSUME NEW t \in Timers PROVE Cardinality(Owners(t)) \in Nat
      <4>1. IsFiniteSet(Channels)
        BY FS_Interval, PwmAssumption DEF Channels
      <4> QED BY <4>1, FS_Subset, FS_CardinalityType DEF Owners
    <3>2. ASSUME NEW t \in Timers
          PROVE  (IF refcount[t] > Cardinality(Owners(t))
                  THEN refcount[t] - Cardinality(Owners(t)) ELSE 0) \in 0 .. 255
      <4>1. refcount[t] \in 0 .. 255
        BY DEF TypeOK
      <4> QED BY <3>1, <4>1, Difference
    <3> QED BY <1>2, <3>2 DEF PwmDeinit
  <2>2. channels' \in [Channels -> Channel]
    BY <1>2, ChannelFields DEF PwmDeinit
  <2>3. FreqInv'
    BY <1>2 DEF PwmDeinit, Channel
  <2> QED BY <1>2, <2>1, <2>2, <2>3 DEF PwmDeinit
<1>3. ASSUME NEW c \in Channels, ChannelInitNoTimer(c) PROVE TypeOK' /\ FreqInv'
  <2>1. /\ usage' \in SUBSET Timers /\ refcount' \in [Timers -> 0 .. 255]
        /\ driven' \in SUBSET Channels
    BY <1>3, StoppedTyped DEF ChannelInitNoTimer
  <2>2. channels' \in [Channels -> Channel]
    BY <1>3, ChannelFields DEF ChannelInitNoTimer
  <2>3. FreqInv'
    BY <1>3 DEF ChannelInitNoTimer, Channel
  <2> QED BY <1>3, <2>1, <2>2, <2>3 DEF ChannelInitNoTimer
<1>4. ASSUME NEW c \in Channels, NEW f \in Freqs, ChannelInit(c, f) PROVE TypeOK' /\ FreqInv'
  <2>1. PICK t \in Timers : ChannelInit(c, f)!2!(t)
    BY <1>4 DEF ChannelInit
  <2>2. f \in Nat \ {0}
    BY PwmAssumption
  <2>3. channels' \in [Channels -> Channel]
    BY <2>1, <2>2 DEF Channel
  <2>4. FreqInv'
    BY <2>1, <2>2 DEF Channel
  <2>5. usage' \in SUBSET Timers /\ refcount' \in [Timers -> 0 .. 255]
    BY <2>1, StoppedTyped
  <2>6. ledcDuty' \in [Channels -> 0 .. MaxDuty] /\ ledcFreq' \in [Timers -> Nat]
    BY <2>1, <2>2, PwmAssumption
  <2>7. late' \in BOOLEAN /\ phase' = phase
    BY <1>4 DEF ChannelInit
  <2> QED BY <2>1, <2>3, <2>4, <2>5, <2>6, <2>7
<1>5. ASSUME NEW c \in Channels, NEW f \in Freqs, ChannelInitFails(c, f)
      PROVE  TypeOK' /\ FreqInv'
  <2> PICK t \in Timers : ChannelInitFails(c, f)!2!(t)
    BY <1>5 DEF ChannelInitFails
  <2> DEFINE u == UsageStopped(c) \cup {t}
             r == [CountStopped(c) EXCEPT ![t] = 1]
  <2>1. u \in SUBSET Timers /\ r \in [Timers -> 0 .. 255]
    BY StoppedTyped
  <2>2. usage' = UsageFreed(u, r, t) /\ refcount' = CountFreed(r, t)
    OBVIOUS
  <2> HIDE DEF u, r
  <2>3. usage' \in SUBSET Timers /\ refcount' \in [Timers -> 0 .. 255]
    BY <2>1, <2>2 DEF UsageFreed, CountFreed
  <2>4. ledcFreq' \in [Timers -> Nat]
    BY PwmAssumption
  <2>5. driven' \in SUBSET Channels
    BY DEF DrivenStopped
  <2>6. channels' \in [Channels -> Channel]
    BY ChannelFields
  <2>7. FreqInv'
    BY DEF Channel
  <2> QED BY <2>3, <2>4, <2>5, <2>6, <2>7
<1>6. ASSUME NEW c \in Channels, ChannelDeinit(c) PROVE TypeOK' /\ FreqInv'
  <2>1. channels' \in [Channels -> Channel]
    BY <1>6, ChannelFields DEF ChannelDeinit
  <2>2. FreqInv'
    BY <1>6 DEF ChannelDeinit, Channel
  <2>3. channels[c].timer \in Timers
    BY DEF Channel
  <2>4. usage' \in SUBSET Timers /\ refcount' \in [Timers -> 0 .. 255]
    BY <1>6, <2>3 DEF ChannelDeinit, UsageFreed, CountFreed
  <2> QED BY <1>6, <2>1, <2>2, <2>4 DEF ChannelDeinit
<1>7. ASSUME NEW c \in Channels, NEW p \in Percents, SetDuty(c, p) PROVE TypeOK' /\ FreqInv'
  <2>1. AtMost100(p) \in 0 .. 100
    BY PwmAssumption DEF AtMost100
  <2>2. DutyPercentToReg(AtMost100(p)) \in 0 .. MaxDuty
    <3>1. AtMost100(p) \in Nat
      BY PwmAssumption DEF AtMost100
    <3> HIDE DEF TypeOK, FreqInv
    <3> QED BY <3>1, RegisterRange
  <2>3. channels' \in [Channels -> Channel]
    <3>1. [channels[c] EXCEPT !.duty = AtMost100(p)] \in Channel
      BY <2>1, ChannelFields
    <3> QED BY <1>7, <3>1 DEF SetDuty
  <2>4. FreqInv'
    BY <1>7 DEF SetDuty, Channel
  <2> QED BY <1>7, <2>2, <2>3, <2>4 DEF SetDuty
<1>8. ASSUME NEW c \in Channels, NEW us \in Pulses, SetDutyUs(c, us) PROVE TypeOK' /\ FreqInv'
  <2>1. us \in Nat /\ channels[c].freq \in Nat \ {0}
    BY <1>8, PwmAssumption DEF SetDutyUs, Channel
  <2>2. AtMost100((us * 100 * channels[c].freq) \div Second) \in 0 .. 100
    BY <2>1, PercentRange
  <2>3. DutyUsToReg(us, channels[c].freq) \in 0 .. MaxDuty
    BY <2>1, RegisterRange
  <2>4. channels' \in [Channels -> Channel]
    <3> DEFINE d == AtMost100((us * 100 * channels[c].freq) \div Second)
    <3>1. [channels[c] EXCEPT !.duty = d] \in Channel
      BY <2>2, ChannelFields
    <3> QED BY <1>8, <3>1 DEF SetDutyUs
  <2>5. FreqInv'
    BY <1>8 DEF SetDutyUs, Channel
  <2> QED BY <1>8, <2>3, <2>4, <2>5 DEF SetDutyUs
<1>9. ASSUME NEW c \in Channels, NEW f \in Freqs, SetFreq(c, f) PROVE TypeOK' /\ FreqInv'
  <2>1. f \in Nat \ {0}
    BY PwmAssumption
  <2>2. channels' \in [Channels -> Channel]
    BY <1>9, <2>1, ChannelFields DEF SetFreq
  <2>3. FreqInv'
    BY <1>9, <2>1 DEF SetFreq, Channel
  <2> QED BY <1>9, <2>1, <2>2, <2>3 DEF SetFreq
<1>10. CASE DeinitEnds
  BY <1>10 DEF DeinitEnds, ledc
<1>11. CASE Panic
  BY <1>11, PanicTyped
<1>12. CASE UNCHANGED vars
  BY <1>12 DEF vars
<1> QED
  BY <1>1, <1>2, <1>3, <1>4, <1>5, <1>6, <1>7, <1>8, <1>9, <1>10, <1>11, <1>12
  DEF Next, CmdPwm

\* The driver never leaves its types: the duty register, the percentage and the
\* counts stay in range for every number of channels and timers.
THEOREM TypeCorrect == Spec => []TypeOK
<1>1. Init => TypeOK /\ FreqInv
  BY InitTyped
<1>2. TypeOK /\ FreqInv /\ [Next]_vars => (TypeOK /\ FreqInv)'
  BY TypeInductive
<1> QED BY <1>1, <1>2, PTL DEF Spec

-----------------------------------------------------------------------------
\* With the timers accounted for, the timer of an active channel c is the only one
\* whose count and bit change when c is stopped, and it becomes free.
LEMMA FreedExact ==
    ASSUME TypeOK, TimersAccounted, NEW c \in Channels, channels[c].active
    PROVE  /\ CountFreed(refcount, channels[c].timer)
                = [refcount EXCEPT ![channels[c].timer] = 0]
           /\ UsageFreed(usage, refcount, channels[c].timer) = usage \ {channels[c].timer}
<1>1. channels[c].timer \in Timers
  BY DEF TypeOK, Channel
<1>2. channels[c].timer \in usage
  BY <1>1 DEF TimersAccounted
<1>3. refcount[channels[c].timer] = 1
  BY <1>1, <1>2 DEF TimersAccounted
<1> QED BY <1>1, <1>3 DEF CountFreed, UsageFreed, TypeOK

\* Stopping c leaves the bits and the counts of the timers of the other channels.
LEMMA StoppedExact ==
    ASSUME TypeOK, TimersAccounted, NEW c \in Channels
    PROVE  /\ \A t \in Timers : t \in UsageStopped(c) <=>
                \E d \in Channels \ {c} : channels[d].active /\ channels[d].timer = t
           /\ \A t \in Timers : CountStopped(c)[t] = IF t \in UsageStopped(c) THEN 1 ELSE 0
<1>1. CASE channels[c].active
  <2>1. /\ CountStopped(c) = [refcount EXCEPT ![channels[c].timer] = 0]
        /\ UsageStopped(c) = usage \ {channels[c].timer}
    BY <1>1, FreedExact DEF CountStopped, UsageStopped
  <2>2. \A t \in Timers : t \in UsageStopped(c) <=>
           \E d \in Channels \ {c} : channels[d].active /\ channels[d].timer = t
    BY <1>1, <2>1, Zenon DEF TimersAccounted
  <2>3. \A t \in Timers : CountStopped(c)[t] = IF t \in UsageStopped(c) THEN 1 ELSE 0
    BY <2>1 DEF TimersAccounted, TypeOK
  <2> QED BY <2>2, <2>3
<1>2. CASE ~channels[c].active
  <2>1. CountStopped(c) = refcount /\ UsageStopped(c) = usage
    BY <1>2 DEF CountStopped, UsageStopped
  <2> QED BY <1>2, <2>1, Zenon DEF TimersAccounted
<1> QED BY <1>1, <1>2

\* The accounting after a call that leaves c stopped and the others as they were.
LEMMA AccountedStopped ==
    ASSUME TypeOK, TimersAccounted, NEW c \in Channels,
           ~channels'[c].active,
           \A d \in Channels \ {c} : channels'[d] = channels[d],
           usage' = UsageStopped(c), refcount' = CountStopped(c)
    PROVE  TimersAccounted'
<1>1. \A t \in Timers : t \in usage' <=>
         \E d \in Channels : channels'[d].active /\ channels'[d].timer = t
  <2> SUFFICES ASSUME NEW t \in Timers
               PROVE  t \in usage' <=>
                        \E d \in Channels : channels'[d].active /\ channels'[d].timer = t
    OBVIOUS
  <2>1. t \in usage' <=>
          \E d \in Channels \ {c} : channels[d].active /\ channels[d].timer = t
    BY StoppedExact
  <2>2. ASSUME NEW d \in Channels, channels'[d].active, channels'[d].timer = t
        PROVE  d \in Channels \ {c} /\ channels[d].active /\ channels[d].timer = t
    BY <2>2
  <2> QED BY <2>1, <2>2
<1>2. \A t \in Timers : refcount'[t] = IF t \in usage' THEN 1 ELSE 0
  BY StoppedExact
<1>3. \A d, e \in Channels :
         channels'[d].active /\ channels'[e].active /\ channels'[d].timer = channels'[e].timer
         => d = e
  BY Zenon DEF TimersAccounted
<1> QED BY <1>1, <1>2, <1>3, Zenon DEF TimersAccounted

LEMMA InitAccounted == Init => TimersAccounted
BY DEF Init, TimersAccounted, Unused

LEMMA PanicAccounted == Panic => TimersAccounted'
<1>1. Panic => Init'
  BY DEF Panic, Init
<1> QED BY <1>1, InitAccounted, PTL

LEMMA AccountedInductive ==
    TypeOK /\ TimersAccounted /\ [Next]_vars => TimersAccounted'
<1> SUFFICES ASSUME TypeOK, TimersAccounted, [Next]_vars PROVE TimersAccounted'
  OBVIOUS
<1>a. ASSUME NEW c \in Channels
      PROVE  /\ \A d \in Channels \ {c} : [channels EXCEPT ![c].active = FALSE][d] = channels[d]
             /\ ~[channels EXCEPT ![c].active = FALSE][c].active
  BY DEF TypeOK, Channel
<1>1. CASE PwmInit
  BY <1>1 DEF PwmInit, TimersAccounted, Unused
<1>2. CASE PwmDeinit
  <2>1. ASSUME NEW t \in Timers PROVE refcount'[t] = 0
    <3>1. CASE t \in usage
      <4>1. PICK c \in Channels : channels[c].active /\ channels[c].timer = t
        BY <3>1 DEF TimersAccounted
      <4>2. Owners(t) = {c}
        BY <4>1 DEF Owners, TimersAccounted
      <4>3. Cardinality(Owners(t)) = 1
        BY <4>2, FS_Singleton
      <4>4. refcount[t] = 1
        BY <3>1 DEF TimersAccounted
      <4> QED BY <1>2, <4>3, <4>4 DEF PwmDeinit
    <3>2. CASE t \notin usage
      <4>1. refcount[t] = 0
        BY <3>2 DEF TimersAccounted
      <4>2. Owners(t) = {}
        BY <3>2 DEF Owners, TimersAccounted
      <4>3. Cardinality(Owners(t)) = 0
        BY <4>2, FS_EmptySet
      <4> QED BY <1>2, <4>1, <4>3 DEF PwmDeinit
    <3> QED BY <3>1, <3>2
  <2>2. usage' = {} /\ \A c \in Channels : ~channels'[c].active
    BY <1>2 DEF PwmDeinit, TypeOK, Channel
  <2> QED BY <2>1, <2>2 DEF TimersAccounted
<1>3. ASSUME NEW c \in Channels, ChannelInitNoTimer(c) PROVE TimersAccounted'
  BY <1>3, <1>a, AccountedStopped DEF ChannelInitNoTimer
<1>4. ASSUME NEW c \in Channels, NEW f \in Freqs, ChannelInit(c, f) PROVE TimersAccounted'
  <2>1. PICK t \in Timers : ChannelInit(c, f)!2!(t)
    BY <1>4 DEF ChannelInit
  <2>2. /\ channels'[c].active /\ channels'[c].timer = t
        /\ \A d \in Channels \ {c} : channels'[d] = channels[d]
    BY <2>1 DEF TypeOK
  <2>3. t \notin UsageStopped(c) /\ usage' = UsageStopped(c) \cup {t}
    BY <2>1 DEF IsAllocated
  <2>4. \A d \in Channels \ {c} : ~(channels[d].active /\ channels[d].timer = t)
    BY <2>3, StoppedExact
  <2>5. \A v \in Timers : v \in usage' <=>
           \E d \in Channels : channels'[d].active /\ channels'[d].timer = v
    <3> SUFFICES ASSUME NEW v \in Timers
                 PROVE  v \in usage' <=>
                          \E d \in Channels : channels'[d].active /\ channels'[d].timer = v
      OBVIOUS
    <3>1. CASE v = t
      BY <2>2, <2>3, <3>1
    <3>2. CASE v # t
      <4>1. v \in usage' <=>
              \E d \in Channels \ {c} : channels[d].active /\ channels[d].timer = v
        BY <2>3, <3>2, StoppedExact
      <4> QED BY <2>2, <3>2, <4>1
    <3> QED BY <3>1, <3>2
  <2>6. \A v \in Timers : refcount'[v] = IF v \in usage' THEN 1 ELSE 0
    BY <2>1, <2>3, StoppedExact, StoppedTyped
  <2>7. \A d, e \in Channels :
           channels'[d].active /\ channels'[e].active /\ channels'[d].timer = channels'[e].timer
           => d = e
    BY <2>2, <2>4, Zenon DEF TimersAccounted
  <2> QED BY <2>5, <2>6, <2>7, Zenon DEF TimersAccounted
<1>5. ASSUME NEW c \in Channels, NEW f \in Freqs, ChannelInitFails(c, f)
      PROVE  TimersAccounted'
  <2> PICK t \in Timers : ChannelInitFails(c, f)!2!(t)
    BY <1>5 DEF ChannelInitFails
  <2> DEFINE r == [CountStopped(c) EXCEPT ![t] = 1]
  <2>1. t \notin UsageStopped(c) /\ CountStopped(c)[t] = 0
    BY StoppedExact DEF IsAllocated
  <2>2. CountStopped(c) \in [Timers -> 0 .. 255]
    BY StoppedTyped
  <2>3. CountFreed(r, t) = CountStopped(c)
    BY <2>1, <2>2 DEF CountFreed
  <2>4. usage' = UsageStopped(c) /\ refcount' = CountStopped(c)
    BY <2>1, <2>3 DEF UsageFreed
  <2>5. /\ \A d \in Channels \ {c} : channels'[d] = channels[d]
        /\ ~channels'[c].active
    BY DEF TypeOK, Channel
  <2> QED BY <2>4, <2>5, AccountedStopped
<1>6. ASSUME NEW c \in Channels, ChannelDeinit(c) PROVE TimersAccounted'
  <2>1. usage' = UsageStopped(c) /\ refcount' = CountStopped(c)
    BY <1>6 DEF ChannelDeinit, UsageStopped, CountStopped
  <2> QED BY <1>6, <1>a, <2>1, AccountedStopped DEF ChannelDeinit
<1>7. ASSUME \A d \in Channels : /\ channels'[d].active = channels[d].active
                                 /\ channels'[d].timer = channels[d].timer,
             UNCHANGED <<usage, refcount>>
      PROVE  TimersAccounted'
  <2>1. usage' = usage /\ refcount' = refcount
    BY <1>7
  <2>2. \A t \in Timers : t \in usage' <=>
           \E d \in Channels : channels'[d].active /\ channels'[d].timer = t
    BY <1>7, <2>1 DEF TimersAccounted
  <2>3. \A d, e \in Channels :
           channels'[d].active /\ channels'[e].active /\ channels'[d].timer = channels'[e].timer
           => d = e
    BY <1>7 DEF TimersAccounted
  <2>4. \A t \in Timers : refcount'[t] = IF t \in usage' THEN 1 ELSE 0
    BY <2>1 DEF TimersAccounted
  <2> QED BY <2>2, <2>3, <2>4, Zenon DEF TimersAccounted
<1>8. ASSUME NEW c \in Channels, NEW p \in Percents, SetDuty(c, p) PROVE TimersAccounted'
  BY <1>7, <1>8 DEF SetDuty, TypeOK, Channel
<1>9. ASSUME NEW c \in Channels, NEW us \in Pulses, SetDutyUs(c, us) PROVE TimersAccounted'
  BY <1>7, <1>9 DEF SetDutyUs, TypeOK, Channel
<1>10. ASSUME NEW c \in Channels, NEW f \in Freqs, SetFreq(c, f) PROVE TimersAccounted'
  BY <1>7, <1>10 DEF SetFreq, TypeOK, Channel
<1>11. CASE DeinitEnds \/ UNCHANGED vars
  BY <1>7, <1>11 DEF vars, DeinitEnds
<1>12. CASE Panic
  BY <1>12, PanicAccounted
<1> QED
  BY <1>1, <1>2, <1>3, <1>4, <1>5, <1>6, <1>8, <1>9, <1>10, <1>11, <1>12 DEF Next, CmdPwm

\* No call of the driver, failed ones included, loses an LEDC timer or gives one to
\* two channels.
THEOREM TimersStayAccounted == Spec => []TimersAccounted
<1>1. Init => TimersAccounted
  BY InitAccounted
<1>2. TypeOK /\ TimersAccounted /\ [Next]_vars => TimersAccounted'
  BY AccountedInductive
<1> QED BY <1>1, <1>2, TypeCorrect, PTL DEF Spec

-----------------------------------------------------------------------------
\* A driver that is not initialised, or is being torn down, has no active channel, but
\* for the ones configured inside os_pwm_deinit.
IdleInv == ~late /\ phase # "on" => \A c \in Channels : ~channels[c].active

LEMMA InitReal == Init => IdleInv /\ ConfigIsReal
BY DEF Init, IdleInv, ConfigIsReal, Unused

LEMMA PanicReal == Panic => IdleInv' /\ ConfigIsReal'
<1>1. Panic => Init'
  BY DEF Panic, Init
<1> QED BY <1>1, InitReal, PTL

LEMMA IdleInductive == TypeOK /\ IdleInv /\ [Next]_vars => IdleInv'
<1> SUFFICES ASSUME TypeOK, IdleInv, [Next]_vars PROVE IdleInv'
  OBVIOUS
<1>1. CASE PwmDeinit
  BY <1>1 DEF PwmDeinit, IdleInv, TypeOK, Channel
<1>2. CASE PwmInit
  BY <1>2 DEF PwmInit, IdleInv
<1>3. ASSUME phase' = phase, late' = late,
             \A c \in Channels : channels'[c].active => channels[c].active
      PROVE  IdleInv'
  BY <1>3 DEF IdleInv
<1>4. ASSUME NEW c \in Channels, NEW f \in Freqs, ChannelInit(c, f) PROVE IdleInv'
  <2>1. phase' = phase /\ phase \in {"on", "closing"}
    BY <1>4 DEF ChannelInit, Enters, TypeOK
  <2>2. CASE phase = "on"
    BY <2>1, <2>2 DEF IdleInv
  <2>3. CASE phase = "closing"
    <3>1. late'
      BY <1>4, <2>3, Zenon DEF ChannelInit
    <3> QED BY <3>1, Zenon DEF IdleInv
  <2> QED BY <2>1, <2>2, <2>3
<1>5. ASSUME NEW c \in Channels,
             ChannelInitNoTimer(c) \/ ChannelDeinit(c)
      PROVE  IdleInv'
  BY <1>3, <1>5 DEF ChannelInitNoTimer, ChannelDeinit, TypeOK, Channel
<1>6. ASSUME NEW c \in Channels, NEW f \in Freqs, ChannelInitFails(c, f) PROVE IdleInv'
  BY <1>3, <1>6 DEF ChannelInitFails, TypeOK, Channel
<1>7. ASSUME NEW c \in Channels, NEW f \in Freqs, SetFreq(c, f) PROVE IdleInv'
  BY <1>3, <1>7 DEF SetFreq, TypeOK, Channel
<1>8. ASSUME NEW c \in Channels, NEW p \in Percents, SetDuty(c, p) PROVE IdleInv'
  BY <1>3, <1>8 DEF SetDuty, TypeOK, Channel
<1>9. ASSUME NEW c \in Channels, NEW us \in Pulses, SetDutyUs(c, us) PROVE IdleInv'
  BY <1>3, <1>9 DEF SetDutyUs, TypeOK, Channel
<1>10. CASE DeinitEnds
  BY <1>10 DEF DeinitEnds, IdleInv
<1>11. CASE Panic
  BY <1>11, PanicReal
<1>12. CASE UNCHANGED vars
  BY <1>12 DEF IdleInv, vars
<1> QED
  BY <1>1, <1>2, <1>4, <1>5, <1>6, <1>7, <1>8, <1>9, <1>10, <1>11, <1>12 DEF Next, CmdPwm

\* The frequency of a timer only matters to its owner: a call that configures a
\* timer no other active channel owns keeps the table and the peripheral together.
LEMMA ConfigInductive ==
    TypeOK /\ TimersAccounted /\ IdleInv /\ ConfigIsReal /\ [Next]_vars => ConfigIsReal'
<1> SUFFICES ASSUME TypeOK, TimersAccounted, IdleInv, ConfigIsReal, [Next]_vars
             PROVE  ConfigIsReal'
  OBVIOUS
<1>a. ASSUME NEW c \in Channels
      PROVE  /\ channels[c].active => /\ c \in driven
                                     /\ ledcTimer[c] = channels[c].timer
                                     /\ ledcFreq[channels[c].timer] = channels[c].freq
             /\ c \in driven => late \/ channels[c].active
             /\ channels[c].timer \in Timers
  BY DEF ConfigIsReal, TypeOK, Channel
<1>b. \A c, d \in Channels :
         c # d /\ channels[c].active /\ channels[d].active => channels[c].timer # channels[d].timer
  BY DEF TimersAccounted
<1>c. ASSUME NEW c \in Channels,
             ~channels'[c].active,
             \A d \in Channels \ {c} : channels'[d] = channels[d],
             driven' \ {c} = driven \ {c}, c \in driven' => late,
             ledcTimer' = ledcTimer, late' = late,
             \A t \in Timers : (\E d \in Channels \ {c} : channels[d].active /\ channels[d].timer = t)
                               => ledcFreq'[t] = ledcFreq[t]
      PROVE  ConfigIsReal'
  <2>1. ASSUME NEW d \in driven', ~late' PROVE channels'[d].active
    <3>1. d \in driven \ {c} /\ d \in Channels \ {c}
      BY <1>c, <2>1 DEF TypeOK
    <3> QED BY <1>a, <1>c, <2>1, <3>1
  <2>2. ASSUME NEW d \in Channels, channels'[d].active
        PROVE  /\ d \in driven'
               /\ ledcTimer'[d] = channels'[d].timer
               /\ ledcFreq'[channels'[d].timer] = channels'[d].freq
    <3>1. d \in Channels \ {c} /\ channels'[d] = channels[d]
      BY <1>c, <2>2
    <3>2. channels[d].active /\ channels[d].timer \in Timers
      BY <1>a, <2>2, <3>1
    <3>3. ledcFreq'[channels[d].timer] = ledcFreq[channels[d].timer]
      BY <1>c, <3>1, <3>2
    <3>4. d \in driven'
      BY <1>a, <1>c, <3>1, <3>2
    <3> QED BY <1>a, <1>c, <3>1, <3>2, <3>3, <3>4
  <2> QED BY <2>1, <2>2, Zenon DEF ConfigIsReal
<1>d. ASSUME NEW c \in Channels
      PROVE  /\ DrivenStopped(c) \ {c} = driven \ {c}
             /\ c \in DrivenStopped(c) => late
  BY <1>a DEF DrivenStopped
<1>e. ASSUME NEW c \in Channels
      PROVE  /\ \A d \in Channels \ {c} : [channels EXCEPT ![c].active = FALSE][d] = channels[d]
             /\ ~[channels EXCEPT ![c].active = FALSE][c].active
  BY DEF TypeOK, Channel
<1>1. CASE PwmInit
  <2>1. driven # {} => late
    BY <1>1, <1>a DEF PwmInit, IdleInv, TypeOK
  <2> QED BY <1>1, <2>1 DEF PwmInit, ConfigIsReal, Unused, ledc
<1>2. CASE PwmDeinit
  <2>1. \A c \in Channels : ~channels'[c].active
    BY <1>2 DEF PwmDeinit, TypeOK, Channel
  <2>2. late' = late /\ (driven' # {} => late)
    BY <1>2, <1>a DEF PwmDeinit, TypeOK
  <2> QED BY <2>1, <2>2 DEF ConfigIsReal
<1>3. ASSUME NEW c \in Channels, ChannelInitNoTimer(c) PROVE ConfigIsReal'
  BY <1>3, <1>c, <1>d, <1>e DEF ChannelInitNoTimer
<1>4. ASSUME NEW c \in Channels, NEW f \in Freqs, ChannelInit(c, f) PROVE ConfigIsReal'
  <2>1. PICK t \in Timers : ChannelInit(c, f)!2!(t)
    BY <1>4 DEF ChannelInit
  <2>2. /\ channels'[c].active /\ channels'[c].timer = t /\ channels'[c].freq = f
        /\ \A d \in Channels \ {c} : channels'[d] = channels[d]
    BY <2>1 DEF TypeOK
  <2>3. \A d \in Channels \ {c} : channels[d].active => channels[d].timer # t
    BY <2>1, StoppedExact DEF IsAllocated
  <2>4. ASSUME NEW d \in driven', ~late' PROVE channels'[d].active
    <3>1. ~late /\ d \in Channels
      BY <1>4, <2>1, <2>4 DEF ChannelInit, TypeOK
    <3> QED BY <1>a, <2>1, <2>2, <3>1
  <2>5. /\ ledcTimer'[c] = t /\ \A d \in Channels \ {c} : ledcTimer'[d] = ledcTimer[d]
        /\ ledcFreq'[t] = f /\ \A v \in Timers \ {t} : ledcFreq'[v] = ledcFreq[v]
    BY <2>1 DEF TypeOK
  <2>6. ASSUME NEW d \in Channels, channels'[d].active
        PROVE  /\ d \in driven'
               /\ ledcTimer'[d] = channels'[d].timer
               /\ ledcFreq'[channels'[d].timer] = channels'[d].freq
    <3>1. CASE d = c
      BY <2>1, <2>2, <2>5, <3>1
    <3>2. CASE d # c
      <4>1. d \in Channels \ {c} /\ channels[d].active /\ d \in driven'
        BY <1>a, <2>1, <2>2, <2>6, <3>2
      <4>2. channels[d].timer \in Timers \ {t}
        BY <1>a, <2>3, <4>1
      <4>3. ledcFreq'[channels[d].timer] = ledcFreq[channels[d].timer]
        BY <2>5, <4>2
      <4> QED BY <1>a, <2>2, <2>5, <4>1, <4>3
    <3> QED BY <3>1, <3>2
  <2> QED BY <2>4, <2>6, Zenon DEF ConfigIsReal
<1>5. ASSUME NEW c \in Channels, NEW f \in Freqs, ChannelInitFails(c, f) PROVE ConfigIsReal'
  <2>1. PICK t \in Timers : ChannelInitFails(c, f)!2!(t)
    BY <1>5 DEF ChannelInitFails
  <2>2. /\ ~channels'[c].active
        /\ \A d \in Channels \ {c} : channels'[d] = channels[d]
    BY <2>1 DEF TypeOK, Channel
  <2>3. t \notin UsageStopped(c)
    BY <2>1 DEF IsAllocated
  <2>4. \A v \in Timers : (\E d \in Channels \ {c} : channels[d].active /\ channels[d].timer = v)
                          => v # t
    BY <2>3, StoppedExact
  <2>5. \A v \in Timers \ {t} : ledcFreq'[v] = ledcFreq[v]
    BY <2>1 DEF TypeOK
  <2>6. /\ driven' \ {c} = driven \ {c} /\ (c \in driven' => late)
        /\ ledcTimer' = ledcTimer /\ late' = late
    BY <1>d, <2>1
  <2> QED BY <1>c, <2>2, <2>4, <2>5, <2>6
<1>6. ASSUME NEW c \in Channels, ChannelDeinit(c) PROVE ConfigIsReal'
  BY <1>6, <1>c, <1>e DEF ChannelDeinit
<1>7. ASSUME \A d \in Channels : /\ channels'[d].active = channels[d].active
                                 /\ channels'[d].timer = channels[d].timer
                                 /\ channels'[d].freq = channels[d].freq,
             ledcTimer' = ledcTimer, ledcFreq' = ledcFreq, driven' = driven, late' = late
      PROVE  ConfigIsReal'
  <2>1. ASSUME NEW d \in driven', ~late' PROVE channels'[d].active
    BY <1>7, <1>a, <2>1 DEF TypeOK
  <2>2. ASSUME NEW d \in Channels, channels'[d].active
        PROVE  /\ d \in driven'
               /\ ledcTimer'[d] = channels'[d].timer
               /\ ledcFreq'[channels'[d].timer] = channels'[d].freq
    BY <1>7, <1>a, <2>2
  <2> QED BY <2>1, <2>2, Zenon DEF ConfigIsReal
<1>8. ASSUME NEW c \in Channels, NEW p \in Percents, SetDuty(c, p) PROVE ConfigIsReal'
  BY <1>8, <1>7 DEF SetDuty, TypeOK, Channel
<1>9. ASSUME NEW c \in Channels, NEW us \in Pulses, SetDutyUs(c, us) PROVE ConfigIsReal'
  BY <1>9, <1>7 DEF SetDutyUs, TypeOK, Channel
<1>10. ASSUME NEW c \in Channels, NEW f \in Freqs, SetFreq(c, f) PROVE ConfigIsReal'
  <2> DEFINE t == channels[c].timer
  <2>1. channels[c].active /\ t \in Timers
    BY <1>10, <1>a DEF SetFreq
  <2>2. /\ channels'[c].freq = f
        /\ \A d \in Channels : /\ channels'[d].active = channels[d].active
                               /\ channels'[d].timer = channels[d].timer
                               /\ d # c => channels'[d].freq = channels[d].freq
    BY <1>10 DEF SetFreq, TypeOK, Channel
  <2>3. ledcFreq'[t] = f /\ \A v \in Timers \ {t} : ledcFreq'[v] = ledcFreq[v]
    BY <1>10, <2>1 DEF SetFreq, TypeOK
  <2>4. driven' = driven /\ ledcTimer' = ledcTimer /\ late' = late
    BY <1>10 DEF SetFreq
  <2>5. ASSUME NEW d \in Channels, channels'[d].active
        PROVE  /\ d \in driven'
               /\ ledcTimer'[d] = channels'[d].timer
               /\ ledcFreq'[channels'[d].timer] = channels'[d].freq
    <3>1. channels[d].active /\ d \in driven'
      BY <1>a, <2>2, <2>4, <2>5
    <3>2. ledcTimer'[d] = channels'[d].timer /\ channels[d].timer \in Timers
      BY <1>a, <2>2, <2>4, <3>1
    <3>3. CASE d = c
      BY <2>2, <2>3, <3>1, <3>2, <3>3
    <3>4. CASE d # c
      <4>1. channels[d].timer \in Timers \ {t}
        BY <1>b, <2>1, <3>1, <3>2, <3>4
      <4> QED BY <1>a, <2>2, <2>3, <3>1, <3>2, <3>4, <4>1
    <3> QED BY <3>3, <3>4
  <2>6. ASSUME NEW d \in driven', ~late' PROVE channels'[d].active
    BY <1>a, <2>2, <2>4, <2>6 DEF TypeOK
  <2> QED BY <2>5, <2>6, Zenon DEF ConfigIsReal
<1>11. CASE DeinitEnds \/ UNCHANGED vars
  BY <1>7, <1>11 DEF vars, DeinitEnds, ledc
<1>12. CASE Panic
  BY <1>12, PanicReal
<1> QED
  BY <1>1, <1>2, <1>3, <1>4, <1>5, <1>6, <1>8, <1>9, <1>10, <1>11, <1>12 DEF Next, CmdPwm

\* Whatever the other channels were asked to do, what os_pwm_get_config reports of
\* an active channel is what the peripheral does, a deinit that other calls overlap
\* included; and an inactive one is silent, unless a channel was configured inside
\* os_pwm_deinit.
THEOREM ConfigStaysReal == Spec => []ConfigIsReal
<1>1. Init => IdleInv /\ ConfigIsReal
  BY InitReal
<1>2. TypeOK /\ IdleInv /\ [Next]_vars => IdleInv'
  BY IdleInductive
<1>3. TypeOK /\ TimersAccounted /\ IdleInv /\ ConfigIsReal /\ [Next]_vars => ConfigIsReal'
  BY ConfigInductive
<1> QED BY <1>1, <1>2, <1>3, TypeCorrect, TimersStayAccounted, PTL DEF Spec

-----------------------------------------------------------------------------
\* What integer division promises.
LEMMA DivFacts ==
    ASSUME NEW a \in Nat, NEW b \in Nat \ {0}
    PROVE  /\ a \div b \in Nat
           /\ b * (a \div b) <= a
           /\ \A x \in Nat : x * b <= a => x <= a \div b
<1>1. a \div b \in Nat /\ b * (a \div b) <= a /\ a < b * (a \div b) + b
  OBVIOUS
<1>2. ASSUME NEW x \in Nat, x * b <= a PROVE x <= a \div b
  <2> DEFINE q == a \div b
  <2>1. q \in Nat /\ a < b * q + b
    BY <1>1
  <2> HIDE DEF q
  <2>2. SUFFICES ASSUME x >= q + 1 PROVE FALSE
    BY <2>1 DEF q
  <2>3. x * b >= (q + 1) * b
    BY <2>1, <2>2
  <2> QED BY <1>2, <2>1, <2>3
<1> QED BY <1>1, <1>2

\* A common positive factor can be cancelled.
LEMMA Cancel ==
    ASSUME NEW a \in Nat, NEW b \in Nat, NEW k \in Nat \ {0}, k * a <= k * b
    PROVE  a <= b
OBVIOUS

LEMMA Multiply ==
    ASSUME NEW a \in Nat, NEW b \in Nat, NEW k \in Nat, a <= b
    PROVE  k * a <= k * b
OBVIOUS

\* The two conversions of a pulse: the register, through the truncated period, is
\* never below the register value of the percentage, computed exactly.
LEMMA PulseConversions ==
    ASSUME NEW us \in Nat, NEW f \in Nat \ {0}
    PROVE  DutyUsToReg(us, f) >= DutyPercentToReg(AtMost100((us * 100 * f) \div Second))
<1> DEFINE P == Second \div f
           q == (us * 100 * f) \div Second
           x == (q * MaxDuty) \div 100
<1>1. Second \in Nat \ {0} /\ MaxDuty \in Nat
  BY PwmAssumption
<1>2. P \in Nat /\ f * P <= Second
  BY <1>1, DivFacts
<1>3. us * 100 * f \in Nat
  OBVIOUS
<1>4. q \in Nat /\ Second * q <= us * 100 * f
  BY <1>1, <1>3, DivFacts
<1>5. q * MaxDuty \in Nat
  BY <1>1, <1>4
<1>6. x \in Nat /\ 100 * x <= q * MaxDuty
  BY <1>5, DivFacts
<1>7. CASE us >= P
  <2>1. DutyUsToReg(us, f) = MaxDuty
    BY <1>7 DEF DutyUsToReg
  <2>2. AtMost100(q) \in Nat
    BY <1>4 DEF AtMost100
  <2>3. DutyPercentToReg(AtMost100(q)) \in 0 .. MaxDuty
    BY <2>2, RegisterRange
  <2> QED BY <1>1, <2>1, <2>3
<1>8. CASE us < P
  <2>1. DutyUsToReg(us, f) = (us * MaxDuty) \div P
    BY <1>2, <1>8 DEF DutyUsToReg
  <2> HIDE DEF P, q, x
  <2>2. us * f < Second
    <3>1. us * f < P * f
      BY <1>2, <1>8
    <3> QED BY <1>1, <1>2, <3>1
  <2>3. q < 100
    <3>1. us * 100 * f = 100 * (us * f)
      OBVIOUS
    <3>2. Second * q < Second * 100
      BY <1>1, <1>4, <2>2, <3>1
    <3> QED BY <1>1, <1>4, <3>2
  <2>4. DutyPercentToReg(AtMost100(q)) = x
    BY <1>4, <2>3 DEF DutyPercentToReg, AtMost100, x
  <2>5. Second * x <= us * f * MaxDuty
    <3>1. Second * (100 * x) <= Second * (q * MaxDuty)
      BY <1>1, <1>5, <1>6, Multiply
    <3>2. Second * (q * MaxDuty) = MaxDuty * (Second * q)
      BY <1>1, <1>4
    <3>3. MaxDuty * (Second * q) <= MaxDuty * (us * 100 * f)
      BY <1>1, <1>3, <1>4, Multiply
    <3>4. MaxDuty * (us * 100 * f) = 100 * (us * f * MaxDuty)
      BY <1>1
    <3>5. Second * (100 * x) = 100 * (Second * x)
      BY <1>1, <1>6
    <3>6. Second * x \in Nat /\ us * f * MaxDuty \in Nat
      BY <1>1, <1>6
    <3>7. 100 * (Second * x) <= 100 * (us * f * MaxDuty)
      <4> DEFINE a1 == Second * (100 * x)
                 a2 == Second * (q * MaxDuty)
                 a3 == MaxDuty * (us * 100 * f)
      <4>1. a1 \in Int /\ a2 \in Int /\ a3 \in Int
        BY <1>1, <1>4, <1>5, <1>6
      <4>2. a1 <= a2 /\ a2 <= a3
        BY <3>1, <3>2, <3>3
      <4>3. a1 = 100 * (Second * x) /\ a3 = 100 * (us * f * MaxDuty)
        BY <3>4, <3>5
      <4> HIDE DEF a1, a2, a3
      <4>4. a1 <= a3
        BY <4>1, <4>2
      <4> QED BY <4>3, <4>4
    <3> QED BY <3>6, <3>7, Cancel
  <2>6. x * P <= us * MaxDuty
    <3>1. x * (f * P) <= x * Second
      BY <1>1, <1>2, <1>6, Multiply
    <3>2. x * (f * P) = f * (x * P) /\ x * Second = Second * x
      BY <1>1, <1>2, <1>6
    <3>3. us * f * MaxDuty = f * (us * MaxDuty)
      BY <1>1
    <3>4. x * P \in Nat /\ us * MaxDuty \in Nat
      BY <1>1, <1>2, <1>6
    <3>5. f * (x * P) <= f * (us * MaxDuty)
      <4> DEFINE b1 == x * (f * P)
                 b2 == Second * x
                 b3 == us * f * MaxDuty
      <4>1. b1 \in Int /\ b2 \in Int /\ b3 \in Int
        BY <1>1, <1>2, <1>6
      <4>2. b1 <= b2 /\ b2 <= b3
        BY <2>5, <3>1, <3>2
      <4>3. b1 = f * (x * P) /\ b3 = f * (us * MaxDuty)
        BY <3>2, <3>3
      <4> HIDE DEF b1, b2, b3
      <4>4. b1 <= b3
        BY <4>1, <4>2
      <4> QED BY <4>3, <4>4
    <3> QED BY <3>4, <3>5, Cancel
  <2>7. x <= (us * MaxDuty) \div P
    <3>1. P \in Nat \ {0} /\ us * MaxDuty \in Nat
      BY <1>1, <1>2, <1>8
    <3> QED BY <1>6, <2>6, <3>1, DivFacts
  <2>8. DutyPercentToReg(AtMost100(q)) <= DutyUsToReg(us, f)
    BY <2>1, <2>4, <2>7
  <2>9. (us * MaxDuty) \div P \in Nat
    <3>1. P \in Nat \ {0} /\ us * MaxDuty \in Nat
      BY <1>1, <1>2, <1>8
    <3> QED BY <3>1, DivFacts
  <2> QED BY <1>6, <2>1, <2>4, <2>8, <2>9 DEF q
<1> QED BY <1>2, <1>7, <1>8

LEMMA InitNotBelow == Init => DutyNotBelowReported
BY DEF Init, DutyNotBelowReported

LEMMA PanicNotBelow == Panic => DutyNotBelowReported'
<1>1. Panic => Init'
  BY DEF Panic, Init
<1> QED BY <1>1, InitNotBelow, PTL

LEMMA DutyInductive ==
    ASSUME TypeOK, FreqInv, DutyNotBelowReported, [Next]_vars
    PROVE  DutyNotBelowReported'
<1>a. ASSUME driven' \subseteq driven, ledcDuty' = ledcDuty,
             \A c \in Channels : channels'[c].duty = channels[c].duty
      PROVE  DutyNotBelowReported'
  BY <1>a DEF DutyNotBelowReported, TypeOK
<1>b. ASSUME NEW c \in Channels, driven' \subseteq driven \cup {c},
             \A d \in Channels \ {c} : /\ channels'[d].duty = channels[d].duty
                                       /\ ledcDuty'[d] = ledcDuty[d],
             ledcDuty'[c] >= DutyPercentToReg(channels'[c].duty)
      PROVE  DutyNotBelowReported'
  BY <1>b DEF DutyNotBelowReported, TypeOK
<1>1. CASE PwmInit
  <2>1. DutyPercentToReg(0) = 0
    BY PwmAssumption DEF DutyPercentToReg
  <2>2. \A c \in driven' : channels'[c].duty = 0 /\ ledcDuty'[c] >= 0
    BY <1>1, PwmAssumption DEF PwmInit, Unused, ledc, TypeOK
  <2> QED BY <2>1, <2>2 DEF DutyNotBelowReported
<1>2. CASE PwmDeinit
  BY <1>2, <1>a DEF PwmDeinit, TypeOK, Channel
<1>3. ASSUME NEW c \in Channels, ChannelInitNoTimer(c) PROVE DutyNotBelowReported'
  BY <1>3, <1>a DEF ChannelInitNoTimer, DrivenStopped, TypeOK, Channel
<1>4. ASSUME NEW c \in Channels, NEW f \in Freqs, ChannelInit(c, f) PROVE DutyNotBelowReported'
  <2>1. PICK t \in Timers : ChannelInit(c, f)!2!(t)
    BY <1>4 DEF ChannelInit
  <2>2. channels'[c].duty = 0 /\ ledcDuty'[c] = 0
    BY <2>1 DEF TypeOK
  <2>3. DutyPercentToReg(0) = 0
    BY PwmAssumption DEF DutyPercentToReg
  <2> QED BY <1>b, <2>1, <2>2, <2>3 DEF TypeOK
<1>5. ASSUME NEW c \in Channels, NEW f \in Freqs, ChannelInitFails(c, f)
      PROVE  DutyNotBelowReported'
  <2>1. PICK t \in Timers : ChannelInitFails(c, f)!2!(t)
    BY <1>5 DEF ChannelInitFails
  <2> QED BY <1>a, <2>1 DEF DrivenStopped, TypeOK, Channel
<1>6. ASSUME NEW c \in Channels, ChannelDeinit(c) PROVE DutyNotBelowReported'
  BY <1>6, <1>a DEF ChannelDeinit, TypeOK, Channel
<1>7. ASSUME NEW c \in Channels, NEW p \in Percents, SetDuty(c, p) PROVE DutyNotBelowReported'
  <2>1. AtMost100(p) \in Nat
    BY PwmAssumption DEF AtMost100
  <2>2. DutyPercentToReg(AtMost100(p)) \in 0 .. MaxDuty
    BY <2>1, RegisterRange
  <2>3. /\ channels'[c].duty = AtMost100(p)
        /\ ledcDuty'[c] = DutyPercentToReg(AtMost100(p))
        /\ \A d \in Channels \ {c} : /\ channels'[d].duty = channels[d].duty
                                     /\ ledcDuty'[d] = ledcDuty[d]
        /\ driven' = driven
    BY <1>7 DEF SetDuty, TypeOK, Channel
  <2>4. ledcDuty'[c] >= DutyPercentToReg(channels'[c].duty)
    BY <2>2, <2>3
  <2> QED BY <1>b, <2>3, <2>4
<1>8. ASSUME NEW c \in Channels, NEW us \in Pulses, SetDutyUs(c, us)
      PROVE  DutyNotBelowReported'
  <2> DEFINE f == channels[c].freq
             q == AtMost100((us * 100 * f) \div Second)
  <2>1. us \in Nat /\ f \in Nat \ {0}
    BY <1>8, PwmAssumption DEF SetDutyUs, FreqInv, TypeOK, Channel
  <2>2. DutyUsToReg(us, f) >= DutyPercentToReg(q)
    BY <2>1, PulseConversions
  <2>3. /\ ledcDuty' = [ledcDuty EXCEPT ![c] = DutyUsToReg(us, f)]
        /\ channels' = [channels EXCEPT ![c].duty = q]
        /\ driven' = driven
    BY <1>8 DEF SetDutyUs
  <2> HIDE DEF f, q
  <2>4. /\ channels'[c].duty = q
        /\ ledcDuty'[c] = DutyUsToReg(us, f)
        /\ \A d \in Channels \ {c} : /\ channels'[d].duty = channels[d].duty
                                     /\ ledcDuty'[d] = ledcDuty[d]
    BY <2>3 DEF TypeOK, Channel
  <2> QED BY <1>b, <2>2, <2>3, <2>4
<1>9. ASSUME NEW c \in Channels, NEW f \in Freqs, SetFreq(c, f) PROVE DutyNotBelowReported'
  BY <1>9, <1>a DEF SetFreq, TypeOK, Channel
<1>10. CASE DeinitEnds \/ UNCHANGED vars
  BY <1>10, <1>a DEF vars, DeinitEnds, ledc
<1>11. CASE Panic
  BY <1>11, PanicNotBelow
<1> QED
  BY <1>1, <1>2, <1>3, <1>4, <1>5, <1>6, <1>7, <1>8, <1>9, <1>10, <1>11 DEF Next, CmdPwm

\* The duty cycle on the pin is never below the one os_pwm_get_config reports, for
\* every resolution of the register and every pulse and frequency.
THEOREM DutyStaysNotBelow == Spec => []DutyNotBelowReported
<1>1. Init => TypeOK /\ FreqInv /\ DutyNotBelowReported
  BY InitTyped, InitNotBelow
<1>2. TypeOK /\ FreqInv /\ [Next]_vars => TypeOK' /\ FreqInv'
  BY TypeInductive
<1>3. TypeOK /\ FreqInv /\ DutyNotBelowReported /\ [Next]_vars => DutyNotBelowReported'
  BY DutyInductive
<1> QED BY <1>1, <1>2, <1>3, PTL DEF Spec
=============================================================================
