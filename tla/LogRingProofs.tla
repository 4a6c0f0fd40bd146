--------------------------- MODULE LogRingProofs ---------------------------
(***************************************************************************)
(* Proofs about the logger of LogRing, for every ring size, every width of *)
(* the counters that is a multiple of it, and any number of lines.         *)
(*                                                                         *)
(* The ring is described by age: the line k before the latest one sits k   *)
(* places behind head, modulo the size of the ring.  What os_log_dump and  *)
(* os_log_get_recent read forwards from their start index is then shown to *)
(* be the latest lines in order, in each of the three ways the counters    *)
(* can stand: ring not full, ring full, counters wrapped.                  *)
(***************************************************************************)
EXTENDS LogRing, SequenceTheorems, TLAPS

\* The index of the entry written k + 1 writes ago in a ring of n entries of
\* which h is the one to be written next.
Place(n, h, k) == IF k < h THEN h - 1 - k ELSE h - 1 - k + n

\* The entries of r by age, when a is the latest line and s lines were written.
ByAge(n, h, r, a, s) == \A k \in 0 .. n - 1 : k < s => r[Place(n, h, k)] = a - k

\* The counters: head and count move together, and count is the number of lines
\* of this boot until it wraps.
CountersOK ==
    /\ head = count
    /\ count <= Since
    /\ Since < CountMod => count = Since

\* The ring holds the latest lines of this boot, by age.
RingOK == ByAge(RingSize, head % RingSize, ring, accepted, Since)

\* A dump that holds the lock has sent the first of the lines it started from.
DumpOK ==
    dump.held =>
        /\ initialised
        /\ dump.start = Start
        /\ dump.lines <= Total
        /\ Len(dump.out) <= dump.lines
        /\ \A i \in 1 .. Len(dump.out) : dump.out[i] = accepted - Total + i

\* When file output was asked for the file is open, and the lines accepted since then
\* are in its buffer or have been handed on.
FileOK ==
    /\ asked => fileOutput /\ logfile
    /\ promised \subseteq handed \cup buffered
    /\ ErrorsReachFile

IInv == TypeOK /\ CountersOK /\ RingOK /\ DumpOK /\ FileOK

-----------------------------------------------------------------------------
(* Arithmetic *)

\* The division with remainder by a positive number.
LEMMA Division ==
    ASSUME NEW n \in Nat \ {0}, NEW x \in Nat
    PROVE  x \div n \in Nat /\ x % n \in 0 .. n - 1 /\ x % n = x - n * (x \div n)
<1>1. x \div n \in Nat /\ x % n \in 0 .. n - 1
  OBVIOUS
<1>2. x % n = x - n * (x \div n)
  OBVIOUS
<1> QED BY <1>1, <1>2

\* The remainder is determined by the form n * q + r.
LEMMA Remainder ==
    ASSUME NEW n \in Nat \ {0}, NEW q \in Nat, NEW r \in 0 .. n - 1
    PROVE  (n * q + r) % n = r
OBVIOUS

\* A number below n is its own remainder.
LEMMA Small ==
    ASSUME NEW n \in Nat \ {0}, NEW x \in 0 .. n - 1
    PROVE  x % n = x
OBVIOUS

\* Adding at most n wraps the remainder at most once.
LEMMA WrapAdd ==
    ASSUME NEW n \in Nat \ {0}, NEW x \in Nat, NEW i \in 0 .. n
    PROVE  (x + i) % n = IF (x % n) + i >= n THEN (x % n) + i - n ELSE (x % n) + i
<1> DEFINE q == x \div n
           r == x % n
<1>0. q \in Nat /\ r \in 0 .. n - 1 /\ r = x - n * q
  BY Division
<1> HIDE DEF q, r
<1>1. q \in Nat /\ r \in 0 .. n - 1 /\ n * q \in Nat /\ x = n * q + r
  BY <1>0
<1>2. CASE r + i < n
  <2>1. (n * q + (r + i)) % n = r + i
    BY <1>1, <1>2, Remainder
  <2>2. x + i = n * q + (r + i)
    BY <1>1
  <2> QED BY <1>1, <1>2, <2>1, <2>2 DEF r
<1>3. CASE r + i >= n
  <2>1. (n * (q + 1) + (r + i - n)) % n = r + i - n
    <3>1. q + 1 \in Nat /\ r + i - n \in 0 .. n - 1
      BY <1>1, <1>3
    <3> QED BY <3>1, Remainder
  <2>2. n * (q + 1) = n * q + n
    BY <1>1
  <2>3. x + i = n * (q + 1) + (r + i - n)
    BY <1>1, <2>2
  <2> QED BY <1>1, <1>3, <2>1, <2>3 DEF r
<1> QED BY <1>1, <1>2, <1>3

\* Writing an entry and advancing head makes every entry one write older.
LEMMA AgeStep ==
    ASSUME NEW n \in Nat \ {0}, NEW h \in 0 .. n - 1, NEW r \in [0 .. n - 1 -> Nat],
           NEW a \in Nat, NEW s \in Nat, ByAge(n, h, r, a, s),
           NEW g, g = IF h + 1 >= n THEN 0 ELSE h + 1,
           NEW r2, r2 = [r EXCEPT ![h] = a + 1]
    PROVE  ByAge(n, g, r2, a + 1, s + 1)
<1> SUFFICES ASSUME NEW k \in 0 .. n - 1, k < s + 1
             PROVE  r2[Place(n, g, k)] = a + 1 - k
  BY DEF ByAge
<1>1. CASE k = 0
  <2>1. Place(n, g, k) = h
    BY <1>1 DEF Place
  <2> QED BY <1>1, <2>1
<1>2. CASE k # 0
  <2>1. k - 1 \in 0 .. n - 1 /\ k - 1 < s
    BY <1>2
  <2>2. Place(n, g, k) = Place(n, h, k - 1)
    BY <1>2 DEF Place
  <2>3. Place(n, h, k - 1) \in 0 .. n - 1 /\ Place(n, h, k - 1) # h
    BY <1>2 DEF Place
  <2>4. r[Place(n, h, k - 1)] = a - (k - 1)
    BY <2>1 DEF ByAge
  <2> HIDE DEF Place
  <2>5. r2[Place(n, h, k - 1)] = r[Place(n, h, k - 1)]
    BY <2>3
  <2> QED BY <2>2, <2>4, <2>5
<1> QED BY <1>1, <1>2

\* The number of entries and the first index, as functions of the counters.
TotalOf(n, c) == IF c < n THEN c ELSE n
StartOf(n, c) == IF c > n THEN c ELSE 0

\* Read forwards from the start index, the ring yields the latest lines in order.
LEMMA ReadInOrder ==
    ASSUME NEW n \in Nat \ {0}, NEW c \in Nat, NEW r \in [0 .. n - 1 -> Nat],
           NEW a \in Nat, NEW s \in Nat, ByAge(n, c % n, r, a, s), c <= s,
           NEW i \in 0 .. TotalOf(n, c) - 1
    PROVE  r[(StartOf(n, c) + i) % n] = a - TotalOf(n, c) + 1 + i
<1> DEFINE k == TotalOf(n, c) - 1 - i
<1>1. k \in 0 .. n - 1 /\ k < s /\ i \in 0 .. n - 1
  BY DEF TotalOf
<1>2. (StartOf(n, c) + i) % n = Place(n, c % n, k)
  <2>1. CASE c < n
    <3>0. c \in 0 .. n - 1 /\ 0 + i = i
      BY <1>1, <2>1
    <3>1. c % n = c /\ (0 + i) % n = i
      BY <1>1, <3>0, Small
    <3>2. StartOf(n, c) = 0 /\ TotalOf(n, c) = c
      BY <2>1 DEF StartOf, TotalOf
    <3> QED BY <1>1, <3>1, <3>2 DEF Place
  <2>2. CASE c = n
    <3>1. c % n = 0 /\ (0 + i) % n = i
      BY <1>1, <2>2
    <3>2. StartOf(n, c) = 0 /\ TotalOf(n, c) = n
      BY <2>2 DEF StartOf, TotalOf
    <3> QED BY <1>1, <3>1, <3>2 DEF Place
  <2>3. CASE c > n
    <3>1. StartOf(n, c) = c /\ TotalOf(n, c) = n
      BY <2>3 DEF StartOf, TotalOf
    <3> DEFINE h == c % n
    <3>2. h \in 0 .. n - 1
      BY Division
    <3>3. (c + i) % n = IF h + i >= n THEN h + i - n ELSE h + i
      BY <1>1, WrapAdd
    <3> HIDE DEF h
    <3>4. Place(n, h, k) = IF h + i >= n THEN h + i - n ELSE h + i
      BY <1>1, <3>1, <3>2 DEF Place
    <3> QED BY <3>1, <3>3, <3>4 DEF h
  <2> QED BY <2>1, <2>2, <2>3
<1>3. r[Place(n, c % n, k)] = a - k
  BY <1>1 DEF ByAge
<1>4. TotalOf(n, c) \in Nat
  BY DEF TotalOf
<1> HIDE DEF TotalOf
<1> QED BY <1>2, <1>3, <1>4

-----------------------------------------------------------------------------
(* The initial states *)

\* The invariant holds when the logger has never run.
LEMMA InitEstablishes == Init => IInv
<1> USE LogAssumption
<1> SUFFICES ASSUME Init PROVE IInv
  OBVIOUS
<1>1. TypeOK
  <2>1. <<>> \in Seq(0 .. MaxLines)
    OBVIOUS
  <2>2. dump \in Dump
    BY <2>1 DEF Init, Dump, NoDump
  <2>3. ring \in [0 .. RingSize - 1 -> 0 .. MaxLines]
    BY DEF Init
  <2>4. /\ head \in 0 .. CountMod - 1 /\ count \in 0 .. CountMod - 1 /\ level \in Levels
        /\ accepted \in 0 .. MaxLines /\ booted \in 0 .. MaxLines
    BY DEF Init, Levels
  <2>5. /\ initialised \in BOOLEAN /\ fileOutput \in BOOLEAN /\ logfile \in BOOLEAN
        /\ asked \in BOOLEAN
    BY DEF Init
  <2> QED BY <2>2, <2>3, <2>4, <2>5 DEF Init, TypeOK
<1>2. CountersOK
  BY DEF Init, CountersOK, Since
<1>3. RingOK
  <2>1. Since = 0
    BY DEF Init, Since
  <2> QED BY <2>1 DEF RingOK, ByAge
<1>4. DumpOK /\ FileOK
  BY DEF Init, DumpOK, FileOK, ErrorsReachFile, NoDump
<1> QED BY <1>1, <1>2, <1>3, <1>4 DEF IInv

-----------------------------------------------------------------------------
(* The lines of the log file *)

\* A write gives its line to the file: what it promises is buffered, and handed on when
\* the line is an ERROR.
LEMMA SinksKeep ==
    ASSUME TypeOK, FileOK, accepted < MaxLines, NEW l \in Levels,
           WriteToSinks(l), UNCHANGED <<fileOutput, logfile, asked>>,
           promised' = IF asked THEN promised \cup {accepted + 1} ELSE promised,
           due' = IF asked /\ l >= ERROR THEN due \cup promised' ELSE due
    PROVE  /\ buffered' \in SUBSET Lines /\ handed' \in SUBSET Lines
           /\ promised' \in SUBSET Lines /\ due' \in SUBSET Lines
           /\ FileOK'
<1> USE LogAssumption
<1>1. accepted + 1 \in Lines
  BY DEF TypeOK, Lines
<1>2. CASE ~(fileOutput /\ logfile)
  <2>1. ~asked
    BY <1>2 DEF FileOK
  <2>2. UNCHANGED <<buffered, handed, promised, due>>
    BY <1>2, <2>1 DEF WriteToSinks, file
  <2> QED BY <2>2 DEF TypeOK, FileOK, ErrorsReachFile
<1>3. CASE fileOutput /\ logfile
  <2> DEFINE all == buffered \cup {accepted + 1}
  <2>1. all \in SUBSET Lines
    BY <1>1 DEF TypeOK
  <2>2. promised' \subseteq handed \cup all /\ promised' \in SUBSET Lines
    BY <1>1 DEF FileOK, TypeOK
  <2>3. CASE l >= ERROR
    <3>1. buffered' = {} /\ handed' = handed \cup all
      BY <1>3, <2>3 DEF WriteToSinks, Flushed
    <3>2. due' = due \/ due' = due \cup promised'
      OBVIOUS
    <3> HIDE DEF all
    <3> QED BY <2>1, <2>2, <3>1, <3>2 DEF TypeOK, FileOK, ErrorsReachFile
  <2>4. CASE ~(l >= ERROR)
    <3>1. buffered' = all /\ handed' = handed /\ due' = due
      BY <1>3, <2>4 DEF WriteToSinks
    <3> HIDE DEF all
    <3> QED BY <2>1, <2>2, <3>1 DEF TypeOK, FileOK, ErrorsReachFile
  <2> QED BY <2>3, <2>4
<1> QED BY <1>2, <1>3

-----------------------------------------------------------------------------
(* Writing a line *)

\* os_log_write_v keeps the description of the ring and of the counters, also at
\* the step at which the 32-bit counters wrap.
LEMMA WriteKeeps ==
    ASSUME IInv, NEW l \in Levels, WriteV(l),
           UNCHANGED <<booted, fileOutput, logfile, asked>>
    PROVE  /\ ring' \in [0 .. RingSize - 1 -> 0 .. MaxLines]
           /\ head' \in 0 .. CountMod - 1 /\ count' \in 0 .. CountMod - 1
           /\ buffered' \in SUBSET Lines /\ handed' \in SUBSET Lines
           /\ accepted' \in 0 .. MaxLines
           /\ promised' \in SUBSET Lines /\ due' \in SUBSET Lines
           /\ CountersOK' /\ RingOK' /\ FileOK'
<1> USE LogAssumption
<1>0. TypeOK /\ CountersOK /\ RingOK /\ FileOK
  BY DEF IInv
<1>1. CASE l < level
  <2>1. UNCHANGED <<ring, head, count, buffered, handed, accepted, promised, due, booted>>
    BY <1>1 DEF WriteV, file
  <2> QED BY <1>0, <2>1 DEF TypeOK, CountersOK, RingOK, ByAge, Since, FileOK, ErrorsReachFile
<1>2. CASE ~(l < level)
  <2>1. /\ accepted < MaxLines
        /\ ring' = [ring EXCEPT ![head % RingSize] = accepted + 1]
        /\ head' = (head + 1) % CountMod
        /\ count' = (count + 1) % CountMod
        /\ accepted' = accepted + 1
        /\ WriteToSinks(l)
        /\ promised' = IF asked THEN promised \cup {accepted + 1} ELSE promised
        /\ due' = IF asked /\ l >= ERROR THEN due \cup promised' ELSE due
    BY <1>2 DEF WriteV
  <2> DEFINE h == head % RingSize
             g == head' % RingSize
  <2>2. /\ ring \in [0 .. RingSize - 1 -> 0 .. MaxLines] /\ head \in 0 .. CountMod - 1
        /\ count \in 0 .. CountMod - 1 /\ accepted \in 0 .. MaxLines
        /\ booted \in 0 .. MaxLines
    BY <1>0 DEF TypeOK
  <2>3. head = count /\ count <= accepted - booted
        /\ (accepted - booted < CountMod => count = accepted - booted)
    BY <1>0 DEF CountersOK, Since
  <2>4. h \in 0 .. RingSize - 1
    BY <2>2, Division
  <2>5. (head + 1) % CountMod = IF head + 1 = CountMod THEN 0 ELSE head + 1
    <3>1. CASE head + 1 = CountMod
      BY <3>1
    <3>2. CASE head + 1 # CountMod
      <4>1. head + 1 \in 0 .. CountMod - 1
        BY <2>2, <3>2
      <4> QED BY <3>2, <4>1, Small
    <3> QED BY <3>1, <3>2
  <2>6. g = IF h + 1 >= RingSize THEN 0 ELSE h + 1
    <3>0. RingSize \in Nat \ {0} /\ head \in Nat /\ 1 \in 0 .. RingSize
      BY <2>2
    <3>1. (head + 1) % RingSize = IF h + 1 >= RingSize THEN h + 1 - RingSize ELSE h + 1
      BY ONLY <3>0, WrapAdd
    <3>2. h + 1 >= RingSize => h + 1 - RingSize = 0
      BY <2>4
    <3>3. CASE head + 1 = CountMod
      <4>1. g = 0 /\ (head + 1) % RingSize = 0
        BY <2>1, <2>5, <3>3
      <4> HIDE DEF g, h
      <4> QED BY <2>4, <3>1, <4>1
    <3>4. CASE head + 1 # CountMod
      <4>1. g = (head + 1) % RingSize
        BY <2>1, <2>5, <3>4
      <4> HIDE DEF g, h
      <4> QED BY <2>4, <3>1, <3>2, <4>1
    <3> QED BY <3>3, <3>4
  <2>7. accepted + 1 \in 0 .. MaxLines /\ head' \in 0 .. CountMod - 1
        /\ count' = head'
    BY <2>1, <2>2, <2>3, <2>5
  <2>8. ring' \in [0 .. RingSize - 1 -> 0 .. MaxLines]
    BY <2>1, <2>2, <2>7
  <2>9. CountersOK'
    <3>1. Since' = (accepted - booted) + 1
      BY <2>1, <2>2 DEF Since
    <3>2. count' = IF count + 1 = CountMod THEN 0 ELSE count + 1
      BY <2>1, <2>3, <2>5
    <3> QED BY <2>2, <2>3, <2>7, <3>1, <3>2 DEF CountersOK
  <2>10. RingOK'
    <3> DEFINE s == accepted - booted
    <3>1. s \in Nat /\ Since = s /\ Since' = s + 1
      BY <2>1, <2>2, <2>3 DEF Since
    <3>2. ByAge(RingSize, h, ring, accepted, s)
      BY <1>0, <3>1 DEF RingOK
    <3>3. ring \in [0 .. RingSize - 1 -> Nat] /\ accepted \in Nat
      BY <2>2
    <3>4. ring' = [ring EXCEPT ![h] = accepted + 1]
      BY <2>1
    <3> HIDE DEF s, h, g
    <3>5. ByAge(RingSize, g, ring', accepted + 1, s + 1)
      BY <2>4, <2>6, <3>1, <3>2, <3>3, <3>4, AgeStep
    <3> QED BY <2>1, <3>1, <3>5 DEF RingOK, g
  <2>11. /\ buffered' \in SUBSET Lines /\ handed' \in SUBSET Lines
         /\ promised' \in SUBSET Lines /\ due' \in SUBSET Lines
         /\ FileOK'
    BY <1>0, <2>1, SinksKeep
  <2> QED BY <2>1, <2>7, <2>8, <2>9, <2>10, <2>11
<1> QED BY <1>1, <1>2

-----------------------------------------------------------------------------
(* Reading the ring *)

\* What os_log_dump and os_log_get_recent find at their i-th index.
LEMMA EntryIs ==
    ASSUME TypeOK, CountersOK, RingOK
    PROVE  /\ Total \in 0 .. RingSize /\ Total <= count /\ count <= accepted - booted
           /\ \A i \in 0 .. Total - 1 :
                ring[(Start + i) % RingSize] = accepted - Total + 1 + i
<1> USE LogAssumption
<1>1. /\ RingSize \in Nat \ {0} /\ count \in Nat /\ accepted \in Nat /\ booted \in Nat
      /\ ring \in [0 .. RingSize - 1 -> Nat]
  BY DEF TypeOK
<1>2. head = count /\ count <= accepted - booted
  BY DEF CountersOK, Since
<1> DEFINE s == accepted - booted
<1>3. s \in Nat /\ count <= s
  BY <1>1, <1>2
<1>4. ByAge(RingSize, count % RingSize, ring, accepted, s)
  BY <1>2 DEF RingOK, Since
<1>5. Total = TotalOf(RingSize, count) /\ Start = StartOf(RingSize, count)
  BY <1>2 DEF Total, TotalOf, Start, StartOf
<1>6. Total \in 0 .. RingSize /\ Total <= count
  BY <1>1 DEF Total
<1> HIDE DEF s
<1>7. ASSUME NEW i \in 0 .. TotalOf(RingSize, count) - 1
      PROVE  ring[(StartOf(RingSize, count) + i) % RingSize]
                = accepted - TotalOf(RingSize, count) + 1 + i
  BY ONLY <1>1, <1>3, <1>4, <1>7, ReadInOrder
<1> QED BY <1>2, <1>5, <1>6, <1>7

\* One round of the loop of os_log_dump sends the next line.
LEMMA DumpSendsNext ==
    ASSUME IInv, DumpSends
    PROVE  dump' \in Dump /\ DumpOK'
<1> USE LogAssumption
<1>1. TypeOK /\ CountersOK /\ RingOK /\ DumpOK
  BY DEF IInv
<1> DEFINE n == Len(dump.out)
           e == ring[(dump.start + n) % RingSize]
<1>2. /\ n < dump.lines
      /\ dump' = [dump EXCEPT !.out = Append(@, e)]
      /\ UNCHANGED <<initialised, ring, head, count, accepted, booted>>
  BY DEF DumpSends, history
<1>3. /\ dump.on \in BOOLEAN /\ dump.held \in BOOLEAN /\ dump.start \in 0 .. CountMod - 1
      /\ dump.lines \in 0 .. RingSize /\ dump.out \in Seq(0 .. MaxLines)
      /\ accepted \in 0 .. MaxLines /\ booted \in 0 .. MaxLines
  BY <1>1 DEF TypeOK, Dump
<1>4. n \in Nat
  BY <1>3
<1>5. e \in 0 .. MaxLines
  <2>1. (dump.start + n) % RingSize \in 0 .. RingSize - 1
    <3>1. dump.start + n \in Nat /\ RingSize \in Nat \ {0}
      BY <1>3, <1>4
    <3> QED BY ONLY <3>1, Division
  <2> QED BY <1>1, <2>1 DEF TypeOK
<1>6. /\ Total \in 0 .. RingSize /\ Total <= accepted - booted
      /\ \A i \in 0 .. Total - 1 :
           ring[(Start + i) % RingSize] = accepted - Total + 1 + i
  <2>1. Total <= count /\ count <= accepted - booted /\ count \in Nat
    BY <1>1, EntryIs DEF TypeOK
  <2>2. Total \in 0 .. RingSize
    BY <1>1, EntryIs
  <2> QED BY <1>1, <1>3, <2>1, <2>2, EntryIs
<1>7. ASSUME dump.held
      PROVE  /\ initialised /\ dump.start = Start /\ dump.lines <= Total /\ n <= dump.lines
             /\ \A i \in 1 .. n : dump.out[i] = accepted - Total + i
             /\ n \in 0 .. Total - 1 /\ e = accepted - Total + 1 + n
  <2>1. /\ initialised /\ dump.start = Start /\ dump.lines <= Total /\ n <= dump.lines
        /\ \A i \in 1 .. n : dump.out[i] = accepted - Total + i
    BY <1>1, <1>7 DEF DumpOK
  <2>2. n \in 0 .. Total - 1
    BY <1>2, <1>3, <1>4, <1>6, <2>1
  <2> QED BY <1>6, <2>1, <2>2
<1> HIDE DEF e
<1>9. /\ dump' = [on |-> dump.on, held |-> dump.held, start |-> dump.start,
                  lines |-> dump.lines, out |-> Append(dump.out, e)]
  BY <1>1, <1>2 DEF TypeOK, Dump
<1>10. /\ dump'.held = dump.held /\ dump'.start = dump.start /\ dump'.lines = dump.lines
       /\ dump'.out = Append(dump.out, e)
  BY <1>9
<1>11. Append(dump.out, e) \in Seq(0 .. MaxLines) /\ Len(Append(dump.out, e)) = n + 1
       /\ \A i \in 1 .. n + 1 :
            Append(dump.out, e)[i] = IF i = n + 1 THEN e ELSE dump.out[i]
  BY <1>3, <1>5
<1>12. dump' \in Dump
  BY <1>3, <1>9, <1>11 DEF Dump
<1>13. Total' = Total /\ Start' = Start
  BY <1>2 DEF Total, Start
<1>14. ASSUME dump.held PROVE DumpOK'
  <2>1. initialised' /\ dump'.start = Start' /\ dump'.lines <= Total'
    BY <1>2, <1>7, <1>10, <1>13, <1>14
  <2>2. Len(dump'.out) = n + 1 /\ n + 1 <= dump'.lines
    BY <1>2, <1>3, <1>4, <1>10, <1>11
  <2>3. ASSUME NEW i \in 1 .. n + 1
        PROVE  dump'.out[i] = accepted' - Total' + i
    <3> HIDE DEF n
    <3>1. accepted' - Total' + i = accepted - Total + i
      BY <1>2, <1>13
    <3>2. CASE i = n + 1
      <4>1. accepted - Total + i = e
        BY <1>3, <1>4, <1>6, <1>7, <1>14, <3>2
      <4> QED BY <1>10, <1>11, <3>1, <3>2, <4>1
    <3>3. CASE i # n + 1
      <4>1. i \in 1 .. n
        BY <1>4, <2>3, <3>3
      <4> QED BY <1>7, <1>14, <1>10, <1>11, <3>1, <3>3, <4>1
    <3> QED BY <3>2, <3>3
  <2>4. \A i \in 1 .. Len(dump'.out) : dump'.out[i] = accepted' - Total' + i
    BY <2>2, <2>3
  <2>5. Len(dump'.out) <= dump'.lines
    BY <2>2
  <2> QED BY <2>1, <2>4, <2>5 DEF DumpOK
<1>15. ASSUME ~dump.held PROVE DumpOK'
  BY <1>10, <1>15 DEF DumpOK
<1> QED BY <1>12, <1>14, <1>15

-----------------------------------------------------------------------------
(* The steps *)

\* The part of the invariant about dumps, when nothing it reads changes.
LEMMA DumpUnmoved ==
    ASSUME DumpOK, UNCHANGED <<dump, initialised, head, count, accepted>>
    PROVE  DumpOK'
<1>1. Total' = Total /\ Start' = Start
  BY DEF Total, Start
<1> QED BY <1>1 DEF DumpOK

\* The part about the ring and the counters, when nothing it reads changes.
LEMMA RingUnmoved ==
    ASSUME CountersOK, RingOK, UNCHANGED <<ring, head, count, accepted, booted>>
    PROVE  CountersOK' /\ RingOK'
<1>1. Since' = Since
  BY DEF Since
<1> QED BY <1>1 DEF CountersOK, RingOK, ByAge

\* The part about the file, when nothing it reads changes.
LEMMA FileUnmoved ==
    ASSUME FileOK, UNCHANGED <<asked, fileOutput, logfile, buffered, handed, promised, due>>
    PROVE  FileOK'
BY DEF FileOK, ErrorsReachFile

\* When the lock is free, or the logger is not initialised, no dump holds it.
LEMMA NobodyDumps ==
    ASSUME DumpOK, LockFree \/ ~initialised
    PROVE  ~dump.held
BY DEF DumpOK, LockFree

\* Without a dump that holds the lock there is nothing to show about dumps.
LEMMA NoDumpOK ==
    ASSUME ~dump'.held
    PROVE  DumpOK'
BY DEF DumpOK

\* Every step of the logger keeps the invariant.
LEMMA StepKeeps == IInv /\ [Next]_vars => IInv'
<1> USE LogAssumption
<1> SUFFICES ASSUME IInv, [Next]_vars PROVE IInv'
  OBVIOUS
<1>0. TypeOK /\ CountersOK /\ RingOK /\ DumpOK /\ FileOK
  BY DEF IInv
<1>a. 1 \in Levels /\ 2 \in Levels /\ INFO = 1 /\ WARN = 2 /\ 3 \in Levels
  BY DEF Levels, INFO, WARN
<1>1. CASE LogInit
  <2>1. ~initialised /\ initialised' = TRUE /\ WriteV(INFO)
        /\ UNCHANGED <<level, fileOutput, logfile, dump, booted, asked>>
    BY <1>1 DEF LogInit
  <2>2. /\ ring' \in [0 .. RingSize - 1 -> 0 .. MaxLines]
        /\ head' \in 0 .. CountMod - 1 /\ count' \in 0 .. CountMod - 1
        /\ buffered' \in SUBSET Lines /\ handed' \in SUBSET Lines
        /\ accepted' \in 0 .. MaxLines
        /\ promised' \in SUBSET Lines /\ due' \in SUBSET Lines
        /\ CountersOK' /\ RingOK' /\ FileOK'
    BY <1>a, <2>1, WriteKeeps
  <2>3. TypeOK'
    BY <1>0, <2>1, <2>2 DEF TypeOK
  <2>4. DumpOK'
    BY <1>0, <2>1, NobodyDumps, NoDumpOK
  <2> QED BY <2>2, <2>3, <2>4 DEF IInv
<1>2. CASE LogDeinit
  <2>1. /\ initialised' = FALSE /\ logfile' = FALSE /\ asked' = FALSE
        /\ \/ handed' = handed \cup buffered /\ buffered' = {}
           \/ handed' = handed /\ buffered' = buffered
        /\ dump' = [dump EXCEPT !.held = FALSE]
        /\ UNCHANGED <<ring, head, count, level, fileOutput, accepted, booted, promised, due>>
    BY <1>2 DEF LogDeinit, Flushed, file
  <2>2. dump' \in Dump /\ ~dump'.held
    BY <1>0, <2>1 DEF TypeOK, Dump
  <2>3. TypeOK'
    BY <1>0, <2>1, <2>2 DEF TypeOK
  <2>4. FileOK'
    BY <1>0, <2>1 DEF FileOK, ErrorsReachFile
  <2>5. CountersOK' /\ RingOK'
    BY <1>0, <2>1, RingUnmoved
  <2> QED BY <2>2, <2>3, <2>4, <2>5, NoDumpOK DEF IInv
<1>3. ASSUME NEW l \in Levels, Write(l) PROVE IInv'
  <2>1. LockFree /\ WriteV(l)
        /\ UNCHANGED <<initialised, level, fileOutput, logfile, dump, booted, asked>>
    BY <1>3 DEF Write
  <2>2. /\ ring' \in [0 .. RingSize - 1 -> 0 .. MaxLines]
        /\ head' \in 0 .. CountMod - 1 /\ count' \in 0 .. CountMod - 1
        /\ buffered' \in SUBSET Lines /\ handed' \in SUBSET Lines
        /\ accepted' \in 0 .. MaxLines
        /\ promised' \in SUBSET Lines /\ due' \in SUBSET Lines
        /\ CountersOK' /\ RingOK' /\ FileOK'
    BY <2>1, WriteKeeps
  <2>3. TypeOK'
    BY <1>0, <2>1, <2>2 DEF TypeOK
  <2>4. DumpOK'
    BY <1>0, <2>1, NobodyDumps, NoDumpOK
  <2> QED BY <2>2, <2>3, <2>4 DEF IInv
<1>4. CASE CmdDmesg
  <2>0. PICK n \in 0 .. RingSize + 1 : DumpBegins(n)
    BY <1>4 DEF CmdDmesg
  <2> DEFINE m == IF n = 0 \/ n > Total THEN Total ELSE n
  <2>1. /\ LockFree
        /\ dump' = [on |-> TRUE, held |-> TRUE, start |-> Start, out |-> <<>>, lines |-> m]
        /\ UNCHANGED <<initialised, ring, head, count, level, fileOutput, logfile, buffered,
                       handed, accepted, booted, asked, promised, due>>
    BY <2>0 DEF DumpBegins, file, history
  <2>2. Total \in 0 .. RingSize /\ Start \in 0 .. CountMod - 1
    BY <1>0 DEF TypeOK, Total, Start
  <2>3. m \in 0 .. RingSize /\ m <= Total
    BY <2>2
  <2> HIDE DEF m
  <2>4. TypeOK'
    <3>1. <<>> \in Seq(0 .. MaxLines)
      OBVIOUS
    <3>2. dump' \in Dump
      BY <2>1, <2>2, <2>3, <3>1 DEF Dump
    <3> QED BY <1>0, <2>1, <3>2 DEF TypeOK
  <2>5. CountersOK' /\ RingOK' /\ FileOK'
    BY <1>0, <2>1, RingUnmoved, FileUnmoved
  <2>6. Total' = Total /\ Start' = Start
    BY <2>1 DEF Total, Start
  <2>7. dump'.held /\ dump'.start = Start /\ dump'.lines = m /\ dump'.out = <<>>
        /\ Len(dump'.out) = 0
    BY <2>1
  <2>8. DumpOK'
    BY <2>1, <2>3, <2>6, <2>7 DEF DumpOK, LockFree
  <2> QED BY <2>4, <2>5, <2>8 DEF IInv
<1>5. CASE CmdLoglevel
  <2>1. /\ level' \in Levels \cup {NONE}
        /\ UNCHANGED <<initialised, ring, head, count, fileOutput, logfile, dump, buffered,
                       handed, accepted, booted, asked, promised, due>>
    BY <1>5 DEF CmdLoglevel, SetLevel, file, history
  <2>2. TypeOK'
    BY <1>0, <2>1 DEF TypeOK
  <2> QED BY <1>0, <2>1, <2>2, RingUnmoved, DumpUnmoved, FileUnmoved DEF IInv
<1>6. CASE SetFileOutputFails
  <2>1. LockFree /\ WriteV(WARN)
        /\ UNCHANGED <<initialised, level, fileOutput, logfile, dump, booted, asked>>
    BY <1>6 DEF SetFileOutputFails
  <2>2. /\ ring' \in [0 .. RingSize - 1 -> 0 .. MaxLines]
        /\ head' \in 0 .. CountMod - 1 /\ count' \in 0 .. CountMod - 1
        /\ buffered' \in SUBSET Lines /\ handed' \in SUBSET Lines
        /\ accepted' \in 0 .. MaxLines
        /\ promised' \in SUBSET Lines /\ due' \in SUBSET Lines
        /\ CountersOK' /\ RingOK' /\ FileOK'
    BY <1>a, <2>1, WriteKeeps
  <2>3. TypeOK'
    BY <1>0, <2>1, <2>2 DEF TypeOK
  <2>4. DumpOK'
    BY <1>0, <2>1, NobodyDumps, NoDumpOK
  <2> QED BY <2>2, <2>3, <2>4 DEF IInv
<1>7. ASSUME NEW enable \in BOOLEAN, SetFileOutput(enable) PROVE IInv'
  <2>1. /\ logfile' = enable /\ fileOutput' = enable /\ asked' = enable
        /\ \/ handed' = handed /\ buffered' = buffered
           \/ handed' = handed \cup buffered /\ buffered' = {}
        /\ UNCHANGED <<initialised, ring, head, count, level, dump, accepted, booted,
                       promised, due>>
    BY <1>7 DEF SetFileOutput, Flushed, file
  <2>2. TypeOK'
    BY <1>0, <2>1 DEF TypeOK
  <2>3. FileOK'
    BY <1>0, <2>1 DEF FileOK, ErrorsReachFile
  <2> QED BY <1>0, <2>1, <2>2, <2>3, RingUnmoved, DumpUnmoved DEF IInv
<1>8. CASE Flush
  <2>1. /\ handed' = handed \cup buffered /\ buffered' = {}
        /\ UNCHANGED <<initialised, ring, head, count, level, fileOutput, logfile, dump,
                       accepted, booted, asked, promised, due>>
    BY <1>8 DEF Flush, Flushed, history
  <2>2. TypeOK'
    BY <1>0, <2>1 DEF TypeOK
  <2>3. FileOK'
    BY <1>0, <2>1 DEF FileOK, ErrorsReachFile
  <2> QED BY <1>0, <2>1, <2>2, <2>3, RingUnmoved, DumpUnmoved DEF IInv
<1>9. CASE DumpSends
  <2>1. UNCHANGED <<initialised, ring, head, count, level, fileOutput, logfile, buffered,
                    handed, accepted, booted, asked, promised, due>>
    BY <1>9 DEF DumpSends, file, history
  <2>2. dump' \in Dump /\ DumpOK'
    BY <1>9, DumpSendsNext
  <2>3. TypeOK'
    BY <1>0, <2>1, <2>2 DEF TypeOK
  <2> QED BY <1>0, <2>1, <2>2, <2>3, RingUnmoved, FileUnmoved DEF IInv
<1>10. CASE DumpEnds
  <2>1. /\ dump' = NoDump
        /\ UNCHANGED <<initialised, ring, head, count, level, fileOutput, logfile, buffered,
                       handed, accepted, booted, asked, promised, due>>
    BY <1>10 DEF DumpEnds, file, history
  <2>2. dump' \in Dump /\ ~dump'.held
    BY <2>1 DEF NoDump, Dump
  <2>3. TypeOK'
    BY <1>0, <2>1, <2>2 DEF TypeOK
  <2> QED BY <1>0, <2>1, <2>2, <2>3, RingUnmoved, FileUnmoved, NoDumpOK DEF IInv
<1>11. CASE Restart
  <2>1. /\ initialised' = FALSE /\ ring' = [k \in 0 .. RingSize - 1 |-> 0]
        /\ head' = 0 /\ count' = 0 /\ level' = 0 /\ fileOutput' = FALSE
        /\ logfile' = FALSE /\ dump' = NoDump /\ buffered' = {} /\ booted' = accepted
        /\ asked' = FALSE /\ promised' = {}
        /\ UNCHANGED <<handed, accepted, due>>
    BY <1>11 DEF Restart
  <2>2. dump' \in Dump /\ ~dump'.held /\ 0 \in Levels
    BY <2>1 DEF NoDump, Dump, Levels
  <2>3. /\ ring' \in [0 .. RingSize - 1 -> 0 .. MaxLines]
        /\ head' \in 0 .. CountMod - 1 /\ count' \in 0 .. CountMod - 1
    BY <2>1
  <2>4. TypeOK'
    BY <1>0, <2>1, <2>2, <2>3 DEF TypeOK
  <2>5. FileOK'
    BY <1>0, <2>1 DEF FileOK, ErrorsReachFile
  <2>6. Since' = 0
    BY <1>0, <2>1 DEF Since, TypeOK
  <2>7. CountersOK' /\ RingOK'
    BY <2>1, <2>6 DEF CountersOK, RingOK, ByAge
  <2> QED BY <2>2, <2>4, <2>5, <2>7, NoDumpOK DEF IInv
<1>12. CASE UNCHANGED vars
  <2>1. UNCHANGED <<initialised, ring, head, count, level, fileOutput, logfile, dump,
                    buffered, handed, accepted, booted, asked, promised, due>>
    BY <1>12 DEF vars
  <2>2. TypeOK'
    BY <1>0, <2>1 DEF TypeOK
  <2> QED BY <1>0, <2>1, <2>2, RingUnmoved, DumpUnmoved, FileUnmoved DEF IInv
<1> QED BY <1>1, <1>2, <1>3, <1>4, <1>5, <1>6, <1>7, <1>8, <1>9, <1>10, <1>11, <1>12
        DEF Next, CmdLogfile

-----------------------------------------------------------------------------
(* What follows from the invariant *)

\* A sequence of the lines from the one after b is a run of lines of this boot.
LEMMA RunIsConsecutive ==
    ASSUME NEW s, NEW m \in Nat, NEW b \in Nat, Len(s) = m,
           booted \in Nat, accepted \in Nat, booted <= b, b + m <= accepted,
           \A i \in 1 .. m : s[i] = b + i
    PROVE  Consecutive(s)
<1>1. \A i \in 1 .. m : s[i] \in booted + 1 .. accepted
  OBVIOUS
<1>2. \A i \in 1 .. m - 1 : s[i + 1] = s[i] + 1
  OBVIOUS
<1> QED BY <1>1, <1>2 DEF Consecutive

\* The lines a dump has sent are consecutive.
LEMMA DumpFollows == IInv => DumpConsecutive
<1> USE LogAssumption
<1> SUFFICES ASSUME IInv PROVE DumpConsecutive
  OBVIOUS
<1>0. TypeOK /\ CountersOK /\ RingOK /\ DumpOK
  BY DEF IInv
<1>1. CASE ~dump.held
  BY <1>0, <1>1 DEF DumpConsecutive
<1>2. CASE dump.held
  <2> DEFINE m == Len(dump.out)
             b == accepted - Total
  <2>1. /\ dump.lines <= Total /\ m <= dump.lines
        /\ \A i \in 1 .. m : dump.out[i] = b + i
    BY <1>0, <1>2 DEF DumpOK
  <2>2. m \in Nat /\ dump.lines \in Nat /\ accepted \in Nat /\ booted \in Nat
        /\ count \in Nat
    BY <1>0 DEF TypeOK, Dump
  <2>3. Total \in Nat /\ Total <= count /\ count <= accepted - booted
    BY <1>0, EntryIs
  <2>4. m <= Total
    BY <2>1, <2>2, <2>3
  <2>5. b \in Nat /\ booted <= b /\ b + m <= accepted
    BY <2>2, <2>3, <2>4
  <2> HIDE DEF b
  <2>6. Consecutive(dump.out)
    BY <2>1, <2>2, <2>5, RunIsConsecutive
  <2> QED BY <1>0, <2>6 DEF DumpConsecutive
<1> QED BY <1>1, <1>2

\* os_log_get_recent finds every line the ring can hold.
LEMMA RecentFollows == IInv => RecentIsComplete
<1> USE LogAssumption
<1> SUFFICES ASSUME IInv, Since < CountMod
             PROVE  LET s == GetRecent(RingSize) IN
                    /\ Consecutive(s)
                    /\ Len(s) = IF Since < RingSize THEN Since ELSE RingSize
                    /\ s # <<>> => s[Len(s)] = accepted
  BY DEF RecentIsComplete
<1>0. TypeOK /\ CountersOK /\ RingOK
  BY DEF IInv
<1> DEFINE s == GetRecent(RingSize)
           b == accepted - Total
<1>1. /\ accepted \in Nat /\ booted \in Nat /\ count \in Nat
      /\ Since = accepted - booted /\ count = Since
  BY <1>0 DEF TypeOK, CountersOK, Since
<1>2. Total \in 0 .. RingSize /\ Total <= count /\ count <= accepted - booted
  BY <1>0, EntryIs
<1>3. s = [i \in 1 .. Total |-> ring[(Start + i - 1) % RingSize]]
  <2>1. (IF RingSize < Total THEN RingSize ELSE Total) = Total
    BY <1>2
  <2> QED BY <2>1 DEF GetRecent
<1>4. ASSUME NEW i \in 1 .. Total PROVE s[i] = b + i
  <2>1. i - 1 \in 0 .. Total - 1
    BY <1>2
  <2>2. Start \in Int /\ Start + i - 1 = Start + (i - 1)
    BY <1>0, <1>2 DEF Start, TypeOK
  <2>3. ring[(Start + (i - 1)) % RingSize] = accepted - Total + 1 + (i - 1)
    BY <1>0, <2>1, EntryIs
  <2>4. s[i] = ring[(Start + (i - 1)) % RingSize]
    BY <1>3, <2>2
  <2> QED BY <1>1, <1>2, <2>3, <2>4
<1>5. DOMAIN s = 1 .. Total /\ Len(s) = Total
  <2>1. ASSUME NEW i \in 1 .. Total PROVE s[i] \in Int
    BY <1>1, <1>2, <1>4
  <2>2. s \in [1 .. Total -> Int]
    <3>1. DOMAIN s = 1 .. Total /\ s = [i \in DOMAIN s |-> s[i]]
      BY <1>3
    <3> HIDE DEF s
    <3> QED BY <2>1, <3>1
  <2> HIDE DEF s
  <2>3. s \in Seq(Int)
    BY <1>2, <2>2, SeqDef
  <2> QED BY <1>2, <2>2, <2>3, LenProperties
<1> HIDE DEF s
<1>6. b \in Nat /\ booted <= b /\ b + Total <= accepted /\ Total \in Nat
  BY <1>1, <1>2
<1>7. Consecutive(s)
  <2> HIDE DEF b
  <2> QED BY <1>1, <1>4, <1>5, <1>6, RunIsConsecutive
<1>8. Len(s) = IF Since < RingSize THEN Since ELSE RingSize
  BY <1>1, <1>5 DEF Total
<1>9. ASSUME s # <<>> PROVE s[Len(s)] = accepted
  <2>1. Total # 0
    <3> SUFFICES ASSUME Total = 0 PROVE FALSE
      OBVIOUS
    <3>1. s = [i \in 1 .. 0 |-> ring[(Start + i - 1) % RingSize]]
      BY <1>3 DEF s
    <3>2. s = <<>>
      BY <3>1
    <3> QED BY <1>9, <3>2
  <2>2. Total \in 1 .. Total
    BY <1>2, <2>1
  <2>3. s[Total] = b + Total
    BY <1>4, <2>2
  <2> QED BY <1>1, <1>2, <1>5, <2>3
<1> QED BY <1>7, <1>8, <1>9 DEF s

-----------------------------------------------------------------------------
(* Theorems *)

\* The invariant holds in every state of every behaviour.
LEMMA Invariance == Spec => []IInv
<1>1. Init => IInv
  BY InitEstablishes
<1>2. IInv /\ [Next]_vars => IInv'
  BY StepKeeps
<1> QED BY <1>1, <1>2, PTL DEF Spec

\* For every ring size and counter width: whatever a dmesg has sent at any moment
\* is a run of consecutive lines of this boot, however writers, level changes,
\* wraps of the ring and of the 32-bit counters and restarts interleave with it, as
\* long as os_log_deinit does not delete the lock the dump holds.
THEOREM DumpsStayConsecutive == Spec => []DumpConsecutive
BY Invariance, DumpFollows, PTL

\* For every ring size and counter width: until the counters wrap, reading the
\* recent lines loses none that the ring can hold, up to the latest.
THEOREM RecentStaysComplete == Spec => []RecentIsComplete
BY Invariance, RecentFollows, PTL

\* With file output turned on, an ERROR line and the lines before it have been handed
\* to the flash file system when the write returns, and stay handed, however restarts,
\* switches of the file, failed ones and flushes interleave.
THEOREM ErrorsAlwaysReachFile == Spec => []ErrorsReachFile
<1>1. IInv => ErrorsReachFile
  BY DEF IInv, FileOK
<1> QED BY <1>1, Invariance, PTL

=============================================================================
