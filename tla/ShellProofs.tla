---------------------------- MODULE ShellProofs ----------------------------
(***************************************************************************)
(* Proofs about the shell.                                                 *)
(*                                                                         *)
(* First shell_readline and its history (LineEditor), for arrays of any    *)
(* size, histories of any depth and any characters: the array and the ring *)
(* are never left, and they implement the editor of TextLine.              *)
(*                                                                         *)
(* Then the commands and the environment (Console, Env), for any number of *)
(* sessions, slots, names and values: the answer of the web portal is      *)
(* complete and nobody writes to it late, and the table with its copy in   *)
(* flash implements the store of EnvStore.                                 *)
(***************************************************************************)
EXTENDS LineEditor, Console, SequenceTheorems, FiniteSetTheorems, WellFoundedInduction, TLAPS

-----------------------------------------------------------------------------
(* Numbers and sequences *)

\* An index modulo the depth of the ring, when it is an index already.
LEMMA WrapsNot ==
    ASSUME NEW n \in Nat \ {0}, NEW x \in 0 .. n - 1
    PROVE  x % n = x
OBVIOUS

\* Once over the end.
LEMMA WrapsOnce ==
    ASSUME NEW n \in Nat \ {0}, NEW x \in n .. 2 * n - 1
    PROVE  x % n = x - n
OBVIOUS

\* Twice over the end.
LEMMA WrapsTwice ==
    ASSUME NEW n \in Nat \ {0}, NEW x \in 2 * n .. 3 * n - 1
    PROVE  x % n = x - 2 * n
OBVIOUS

\* The elements of a sequence into which e is inserted.
LEMMA Inserts ==
    ASSUME NEW S, NEW s \in Seq(S), NEW i \in 1 .. Len(s) + 1, NEW e \in S
    PROVE  /\ T!InsertAt(s, i, e) \in Seq(S) /\ Len(T!InsertAt(s, i, e)) = Len(s) + 1
           /\ \A k \in 1 .. Len(s) + 1 :
                T!InsertAt(s, i, e)[k] = IF k < i THEN s[k] ELSE IF k = i THEN e ELSE s[k - 1]
<1>1. SubSeq(s, 1, i - 1) \in Seq(S) /\ Len(SubSeq(s, 1, i - 1)) = i - 1
      /\ \A k \in 1 .. i - 1 : SubSeq(s, 1, i - 1)[k] = s[k]
  OBVIOUS
<1>2. SubSeq(s, i, Len(s)) \in Seq(S) /\ Len(SubSeq(s, i, Len(s))) = Len(s) - i + 1
      /\ \A k \in 1 .. Len(s) - i + 1 : SubSeq(s, i, Len(s))[k] = s[i + k - 1]
  OBVIOUS
<1> DEFINE a == SubSeq(s, 1, i - 1)
           b == SubSeq(s, i, Len(s))
<1>4. T!InsertAt(s, i, e) = (a \o <<e>>) \o b
  BY DEF T!InsertAt
<1> HIDE DEF a, b
<1>5. a \o <<e>> \in Seq(S) /\ Len(a \o <<e>>) = i /\ (a \o <<e>>)[i] = e
      /\ \A k \in 1 .. i - 1 : (a \o <<e>>)[k] = s[k]
  BY <1>1 DEF a
<1> DEFINE l == a \o <<e>>
<1>6. b \in Seq(S) /\ Len(b) = Len(s) - i + 1 /\ \A k \in 1 .. Len(s) - i + 1 : b[k] = s[i + k - 1]
  BY <1>2 DEF b
<1> HIDE DEF l
<1>7. l \in Seq(S) /\ Len(l) = i /\ l[i] = e /\ \A k \in 1 .. i - 1 : l[k] = s[k]
  BY <1>5 DEF l
<1>8. /\ l \o b \in Seq(S) /\ Len(l \o b) = Len(l) + Len(b)
      /\ \A k \in 1 .. Len(l) + Len(b) : (l \o b)[k] = IF k <= Len(l) THEN l[k] ELSE b[k - Len(l)]
  BY <1>6, <1>7, ConcatProperties
<1>9. T!InsertAt(s, i, e) = l \o b
  BY <1>4 DEF l
<1>10. Len(l) + Len(b) = Len(s) + 1
  BY <1>6, <1>7
<1>11. \A k \in 1 .. Len(s) + 1 :
         (l \o b)[k] = IF k < i THEN s[k] ELSE IF k = i THEN e ELSE s[k - 1]
  <2> SUFFICES ASSUME NEW k \in 1 .. Len(s) + 1
               PROVE  (l \o b)[k] = IF k < i THEN s[k] ELSE IF k = i THEN e ELSE s[k - 1]
    OBVIOUS
  <2>1. CASE k <= i
    BY <1>7, <1>8, <1>10, <2>1
  <2>2. CASE k > i
    <3>1. k - i \in 1 .. Len(s) - i + 1 /\ i + (k - i) - 1 = k - 1
      BY <2>2
    <3>2. b[k - i] = s[k - 1]
      BY <1>6, <3>1
    <3> QED BY <1>7, <1>8, <1>10, <2>2, <3>2
  <2>3. k <= i \/ k > i
    OBVIOUS
  <2> QED BY <2>1, <2>2, <2>3, Zenon
<1> QED BY <1>8, <1>9, <1>10, <1>11

\* The elements of a sequence from which one is removed.
LEMMA Removes ==
    ASSUME NEW S, NEW s \in Seq(S), NEW i \in 1 .. Len(s)
    PROVE  /\ T!RemoveAt(s, i) \in Seq(S) /\ Len(T!RemoveAt(s, i)) = Len(s) - 1
           /\ \A k \in 1 .. Len(s) - 1 : T!RemoveAt(s, i)[k] = IF k < i THEN s[k] ELSE s[k + 1]
<1> DEFINE a == SubSeq(s, 1, i - 1)
           b == SubSeq(s, i + 1, Len(s))
<1>1. a \in Seq(S) /\ Len(a) = i - 1 /\ \A k \in 1 .. i - 1 : a[k] = s[k]
  OBVIOUS
<1>2. b \in Seq(S) /\ Len(b) = Len(s) - i /\ \A k \in 1 .. Len(s) - i : b[k] = s[i + k]
  OBVIOUS
<1>3. T!RemoveAt(s, i) = a \o b
  BY DEF T!RemoveAt
<1> HIDE DEF a, b
<1>4. /\ a \o b \in Seq(S) /\ Len(a \o b) = Len(a) + Len(b)
      /\ \A k \in 1 .. Len(a) + Len(b) : (a \o b)[k] = IF k <= Len(a) THEN a[k] ELSE b[k - Len(a)]
  BY <1>1, <1>2, ConcatProperties
<1>5. Len(a) + Len(b) = Len(s) - 1
  BY <1>1, <1>2
<1>6. ASSUME NEW k \in 1 .. Len(s) - 1
      PROVE  (a \o b)[k] = IF k < i THEN s[k] ELSE s[k + 1]
  <2>1. CASE k < i
    BY <1>1, <1>4, <1>5, <2>1
  <2>2. CASE k >= i
    <3>1. k - (i - 1) \in 1 .. Len(s) - i /\ i + (k - (i - 1)) = k + 1
      BY <2>2
    <3>2. b[k - (i - 1)] = s[k + 1]
      BY <1>2, <3>1
    <3> QED BY <1>1, <1>4, <1>5, <2>2, <3>2
  <2>3. k < i \/ k >= i
    OBVIOUS
  <2> QED BY <2>1, <2>2, <2>3, Zenon
<1> QED BY <1>3, <1>4, <1>5, <1>6

-----------------------------------------------------------------------------
(* The inductive invariant *)

\* The array: what is left of len are characters of the text.
BufferOK ==
    /\ buf \in [Cells -> Text \cup {"NUL"}] /\ buf[Size - 1] = "NUL"
    /\ len \in 0 .. Size - 1 /\ cursor \in 0 .. len
    /\ \A i \in 0 .. len - 1 : buf[i] \in Text

\* The ring.
RingOK ==
    /\ lines \in [0 .. Depth - 1 -> Lines]
    /\ head \in 0 .. Depth - 1 /\ count \in 0 .. Depth /\ nav \in -1 .. count - 1

IInv ==
    /\ socket \in BOOLEAN /\ es \in {"NONE", "ESC", "BRACKET"}
    /\ ret \in Lines \cup {None, Eof}
    /\ BufferOK /\ RingOK

\* The first n bytes of array b as a sequence.
Str(b, n) == [i \in 1 .. n |-> b[i - 1]]

\* Lines are the texts that fit.
LEMMA LinesFit ==
    /\ \A l \in Lines : l \in Seq(Text) /\ Len(l) \in 0 .. Size - 1
    /\ \A l \in Seq(Text) : Len(l) <= Size - 1 => l \in Lines
<1>1. ASSUME NEW l \in Lines PROVE l \in Seq(Text) /\ Len(l) \in 0 .. Size - 1
  <2>1. PICK n \in 0 .. Size - 1 : l \in [1 .. n -> Text]
    BY DEF Lines
  <2>2. n \in Nat
    OBVIOUS
  <2> QED BY <2>1, <2>2
<1>2. ASSUME NEW l \in Seq(Text), Len(l) <= Size - 1 PROVE l \in Lines
  <2>1. Len(l) \in 0 .. Size - 1 /\ l \in [1 .. Len(l) -> Text]
    BY <1>2, LenProperties, EditorAssumption
  <2> QED BY <2>1 DEF Lines
<1> QED BY <1>1, <1>2

\* A prefix of an array is the sequence of its bytes.
LEMMA StrIs ==
    ASSUME NEW b, NEW n \in Nat, \A i \in 0 .. n - 1 : b[i] \in Text
    PROVE  Str(b, n) \in Seq(Text) /\ Len(Str(b, n)) = n /\ \A i \in 1 .. n : Str(b, n)[i] = b[i - 1]
<1>1. \A i \in 1 .. n : b[i - 1] \in Text
  OBVIOUS
<1>2. Str(b, n) \in [1 .. n -> Text]
  BY <1>1 DEF Str
<1>3. Str(b, n) \in Seq(Text) /\ Len(Str(b, n)) = n
  BY <1>2
<1> QED BY <1>3 DEF Str

\* ... and the only one.
LEMMA StrEqual ==
    ASSUME NEW b, NEW t \in Seq(Text), \A i \in 1 .. Len(t) : b[i - 1] = t[i]
    PROVE  Str(b, Len(t)) = t
<1>1. Len(t) \in Nat /\ \A i \in 1 .. Len(t) : t[i] \in Text
  OBVIOUS
<1>2. \A i \in 0 .. Len(t) - 1 : b[i] \in Text
  <2> SUFFICES ASSUME NEW i \in 0 .. Len(t) - 1 PROVE b[i] \in Text
    OBVIOUS
  <2>1. i + 1 \in 1 .. Len(t) /\ (i + 1) - 1 = i
    BY <1>1
  <2> QED BY <1>1, <2>1
<1>3. Str(b, Len(t)) \in Seq(Text) /\ Len(Str(b, Len(t))) = Len(t)
      /\ \A i \in 1 .. Len(t) : Str(b, Len(t))[i] = b[i - 1]
  BY <1>1, <1>2, StrIs
<1> QED BY <1>1, <1>3, SeqEqual

\* The text that is being edited.
LEMMA TextIs ==
    ASSUME BufferOK
    PROVE  /\ Terminated = Str(buf, len) /\ Terminated \in Seq(Text) /\ Len(Terminated) = len
           /\ \A i \in 1 .. len : Terminated[i] = buf[i - 1]
           /\ Terminated \in Lines /\ len \in Nat /\ cursor \in Nat
<1>1. len \in Nat /\ len <= Size - 1 /\ cursor \in Nat
  BY EditorAssumption DEF BufferOK
<1>2. Terminated = Str(buf, len)
  BY DEF Terminated, Str
<1>3. Str(buf, len) \in Seq(Text) /\ Len(Str(buf, len)) = len
      /\ \A i \in 1 .. len : Str(buf, len)[i] = buf[i - 1]
  BY <1>1, StrIs DEF BufferOK
<1> QED BY <1>1, <1>2, <1>3, LinesFit

-----------------------------------------------------------------------------
(* The keys that edit the text *)

\* A character is inserted at the cursor: the text behind it moves, and the last cell
\* is not touched.
LEMMA InsertedStep ==
    ASSUME BufferOK, NEW c \in Text, len < Size - 1, Inserted(c)
    PROVE  BufferOK' /\ Terminated' = T!InsertAt(Terminated, cursor + 1, c)
<1>1. /\ buf \in [Cells -> Text \cup {"NUL"}] /\ buf[Size - 1] = "NUL"
      /\ len \in 0 .. Size - 1 /\ cursor \in 0 .. len
      /\ \A i \in 0 .. len - 1 : buf[i] \in Text
      /\ len' = len + 1 /\ cursor' = cursor + 1 /\ Size \in Nat
  BY EditorAssumption DEF BufferOK, Inserted
<1>2. cursor \in Cells
  BY <1>1 DEF Cells
<1>3. \A i \in Cells : buf'[i] = IF i = cursor THEN c ELSE
                                 IF i \in cursor + 1 .. len THEN buf[i - 1] ELSE buf[i]
  <2>1. buf' = [Memmove(cursor + 1, cursor, len - cursor) EXCEPT ![cursor] = c]
    BY DEF Inserted
  <2>2. \A i \in Cells : Memmove(cursor + 1, cursor, len - cursor)[i] =
                           IF i \in cursor + 1 .. len THEN buf[i - 1] ELSE buf[i]
    <3> SUFFICES ASSUME NEW i \in Cells
                 PROVE  Memmove(cursor + 1, cursor, len - cursor)[i] =
                           IF i \in cursor + 1 .. len THEN buf[i - 1] ELSE buf[i]
      OBVIOUS
    <3>1. (cursor + 1) + (len - cursor) - 1 = len /\ i - (cursor + 1) + cursor = i - 1
      BY <1>1 DEF Cells
    <3> QED BY <3>1 DEF Memmove
  <2>3. DOMAIN Memmove(cursor + 1, cursor, len - cursor) = Cells
    BY DEF Memmove
  <2> HIDE DEF Memmove
  <2> QED BY <1>2, <2>1, <2>2, <2>3
<1>4. DOMAIN buf' = Cells /\ buf' = [i \in Cells |-> buf'[i]]
  BY DEF Inserted, Memmove
<1>5. \A i \in Cells : i \in cursor + 1 .. len => i - 1 \in Cells /\ buf[i - 1] \in Text
  BY <1>1 DEF Cells
<1>6. buf' \in [Cells -> Text \cup {"NUL"}]
  <2>1. \A i \in Cells : buf'[i] \in Text \cup {"NUL"}
    BY <1>1, <1>3, <1>5
  <2> QED BY <1>4, <2>1
<1>7. \A i \in 0 .. len : buf'[i] \in Text
  <2> SUFFICES ASSUME NEW i \in 0 .. len PROVE buf'[i] \in Text
    OBVIOUS
  <2>1. i \in Cells
    BY <1>1 DEF Cells
  <2> QED BY <1>1, <1>3, <1>5, <2>1
<1>8. buf'[Size - 1] = "NUL"
  <2>1. Size - 1 \in Cells /\ Size - 1 # cursor /\ Size - 1 \notin cursor + 1 .. len
    BY <1>1 DEF Cells
  <2> QED BY <1>1, <1>3, <2>1
<1>9. BufferOK'
  BY <1>1, <1>6, <1>7, <1>8 DEF BufferOK
<1> DEFINE t == T!InsertAt(Terminated, cursor + 1, c)
<1>10. /\ t \in Seq(Text) /\ Len(t) = len + 1
       /\ \A k \in 1 .. len + 1 : t[k] = IF k < cursor + 1 THEN Terminated[k] ELSE
                                         IF k = cursor + 1 THEN c ELSE Terminated[k - 1]
  <2>1. cursor + 1 \in 1 .. Len(Terminated) + 1
    BY <1>1, TextIs
  <2>2. Terminated \in Seq(Text) /\ Len(Terminated) = len
    BY TextIs
  <2>3. /\ t \in Seq(Text) /\ Len(t) = Len(Terminated) + 1
        /\ \A k \in 1 .. Len(Terminated) + 1 :
             t[k] = IF k < cursor + 1 THEN Terminated[k] ELSE
                    IF k = cursor + 1 THEN c ELSE Terminated[k - 1]
    <3>1. c \in Text
      OBVIOUS
    <3>2. t \in Seq(Text)
      BY <2>1, <2>2, <3>1, Inserts
    <3>3. Len(t) = Len(Terminated) + 1
      BY <2>1, <2>2, <3>1, Inserts
    <3>4. \A k \in 1 .. Len(Terminated) + 1 :
             T!InsertAt(Terminated, cursor + 1, c)[k] = IF k < cursor + 1 THEN Terminated[k] ELSE
                    IF k = cursor + 1 THEN c ELSE Terminated[k - 1]
      BY <2>1, <2>2, <3>1, Inserts
    <3> QED BY <3>2, <3>3, <3>4
  <2> QED BY <2>2, <2>3
<1> HIDE DEF t
<1>11. ASSUME NEW k \in 1 .. Len(t) PROVE buf'[k - 1] = t[k]
  <2>1. k \in 1 .. len + 1 /\ k - 1 \in Cells
    BY <1>1, <1>10 DEF Cells
  <2>2. CASE k < cursor + 1
    <3>1. k \in 1 .. len /\ k - 1 # cursor /\ k - 1 \notin cursor + 1 .. len
      BY <1>1, <2>1, <2>2
    <3> QED BY <1>3, <1>10, <2>1, <2>2, <3>1, TextIs
  <2>3. CASE k = cursor + 1
    BY <1>1, <1>3, <1>10, <2>1, <2>3
  <2>4. CASE k > cursor + 1
    <3>1. k - 1 \in 1 .. len /\ k - 1 # cursor /\ k - 1 \in cursor + 1 .. len
      BY <1>1, <2>1, <2>4
    <3>2. Terminated[k - 1] = buf[(k - 1) - 1]
      BY <3>1, TextIs
    <3>3. t[k] = Terminated[k - 1]
      BY <1>1, <1>10, <2>1, <2>4
    <3> QED BY <1>3, <2>1, <3>1, <3>2, <3>3
  <2>5. k < cursor + 1 \/ k = cursor + 1 \/ k > cursor + 1
    BY <1>1, <2>1
  <2> QED BY <2>2, <2>3, <2>4, <2>5, Zenon
<1>12. Str(buf', Len(t)) = t
  BY <1>10, <1>11, StrEqual
<1> QED BY <1>1, <1>9, <1>10, <1>12 DEF t, Terminated, Str

\* The delete key and backspace close the gap that character d leaves.
LEMMA ClosesStep ==
    ASSUME BufferOK, NEW d \in 0 .. len - 1, Closes(d, len - d - 1), cursor' \in 0 .. len - 1
    PROVE  BufferOK' /\ Terminated' = T!RemoveAt(Terminated, d + 1)
<1>1. /\ buf \in [Cells -> Text \cup {"NUL"}] /\ buf[Size - 1] = "NUL"
      /\ len \in 0 .. Size - 1 /\ cursor \in 0 .. len
      /\ \A i \in 0 .. len - 1 : buf[i] \in Text
      /\ len' = len - 1 /\ Size \in Nat /\ d \in Nat /\ d < len
  BY EditorAssumption DEF BufferOK, Closes
<1>2. len - 1 \in Cells
  BY <1>1 DEF Cells
<1>3. \A i \in Cells : buf'[i] = IF i = len - 1 THEN "NUL" ELSE
                                 IF i \in d .. len - 2 THEN buf[i + 1] ELSE buf[i]
  <2>1. buf' = [Memmove(d, d + 1, len - d - 1) EXCEPT ![len - 1] = "NUL"]
    BY DEF Closes
  <2>2. ASSUME NEW i \in Cells
        PROVE  Memmove(d, d + 1, len - d - 1)[i] = IF i \in d .. len - 2 THEN buf[i + 1] ELSE buf[i]
    <3>1. d + (len - d - 1) - 1 = len - 2 /\ i - d + (d + 1) = i + 1
      BY <1>1 DEF Cells
    <3> QED BY <3>1 DEF Memmove
  <2>3. DOMAIN Memmove(d, d + 1, len - d - 1) = Cells
    BY DEF Memmove
  <2> QED BY <1>2, <2>1, <2>2, <2>3
<1>4. DOMAIN buf' = Cells /\ buf' = [i \in Cells |-> buf'[i]]
  BY DEF Closes, Memmove
<1>5. \A i \in Cells : i \in d .. len - 2 => i + 1 \in Cells /\ buf[i + 1] \in Text
  BY <1>1 DEF Cells
<1>6. buf' \in [Cells -> Text \cup {"NUL"}]
  <2>1. \A i \in Cells : buf'[i] \in Text \cup {"NUL"}
    BY <1>1, <1>3, <1>5
  <2> QED BY <1>4, <2>1
<1>7. \A i \in 0 .. len - 2 : buf'[i] \in Text
  <2> SUFFICES ASSUME NEW i \in 0 .. len - 2 PROVE buf'[i] \in Text
    OBVIOUS
  <2>1. i \in Cells /\ i # len - 1 /\ i \in 0 .. len - 1
    BY <1>1 DEF Cells
  <2> QED BY <1>1, <1>3, <1>5, <2>1
<1>8. buf'[Size - 1] = "NUL"
  <2>1. Size - 1 \in Cells /\ Size - 1 \notin d .. len - 2
    BY <1>1 DEF Cells
  <2> QED BY <1>1, <1>3, <2>1
<1>9. BufferOK'
  <2>1. len' \in 0 .. Size - 1 /\ cursor' \in 0 .. len' /\ \A i \in 0 .. len' - 1 : buf'[i] \in Text
    BY <1>1, <1>7
  <2> QED BY <1>6, <1>8, <2>1 DEF BufferOK
<1> DEFINE t == T!RemoveAt(Terminated, d + 1)
<1>10. /\ t \in Seq(Text) /\ Len(t) = len - 1
       /\ \A k \in 1 .. len - 1 : t[k] = IF k < d + 1 THEN Terminated[k] ELSE Terminated[k + 1]
  <2>1. d + 1 \in 1 .. Len(Terminated)
    BY <1>1, TextIs
  <2>2. Terminated \in Seq(Text) /\ Len(Terminated) = len
    BY TextIs
  <2>3. t \in Seq(Text)
    BY <2>1, <2>2, Removes
  <2>4. Len(t) = Len(Terminated) - 1
    BY <2>1, <2>2, Removes
  <2>5. \A k \in 1 .. Len(Terminated) - 1 :
          T!RemoveAt(Terminated, d + 1)[k] = IF k < d + 1 THEN Terminated[k] ELSE Terminated[k + 1]
    BY <2>1, <2>2, Removes
  <2> QED BY <2>2, <2>3, <2>4, <2>5
<1> HIDE DEF t
<1>11. ASSUME NEW k \in 1 .. Len(t) PROVE buf'[k - 1] = t[k]
  <2>1. k \in 1 .. len - 1 /\ k - 1 \in Cells /\ k - 1 # len - 1 /\ k \in 1 .. len
    BY <1>1, <1>10 DEF Cells
  <2>2. CASE k < d + 1
    <3>1. k - 1 \notin d .. len - 2
      BY <1>1, <2>1, <2>2
    <3> QED BY <1>3, <1>10, <2>1, <2>2, <3>1, TextIs
  <2>3. CASE k >= d + 1
    <3>1. k + 1 \in 1 .. len /\ k - 1 \in d .. len - 2 /\ (k - 1) + 1 = k /\ (k + 1) - 1 = k
      BY <1>1, <2>1, <2>3
    <3>2. Terminated[k + 1] = buf[k]
      BY <3>1, TextIs
    <3>3. t[k] = Terminated[k + 1]
      BY <1>1, <1>10, <2>1, <2>3
    <3> QED BY <1>3, <2>1, <3>1, <3>2, <3>3
  <2>4. k < d + 1 \/ k >= d + 1
    BY <1>1, <2>1
  <2> QED BY <2>2, <2>3, <2>4, Zenon
<1>12. Str(buf', Len(t)) = t
  BY <1>10, <1>11, StrEqual
<1> QED BY <1>1, <1>9, <1>10, <1>12 DEF t, Terminated, Str

\* An array whose text is empty.
LEMMA EmptyStep ==
    ASSUME buf' \in [Cells -> Text \cup {"NUL"}], buf'[Size - 1] = "NUL", len' = 0, cursor' = 0
    PROVE  BufferOK' /\ Terminated' = <<>>
<1>1. BufferOK'
  BY EditorAssumption DEF BufferOK
<1>2. Str(buf', 0) = <<>>
  <2>1. <<>> \in Seq(Text) /\ Len(<<>>) = 0 /\ \A i \in 1 .. 0 : buf'[i - 1] = <<>>[i]
    OBVIOUS
  <2> QED BY <2>1, StrEqual
<1>3. Terminated' = Str(buf', len')
  BY DEF Terminated, Str
<1> QED BY <1>1, <1>2, <1>3

\* strncpy of a line of the history, or of the empty string, and strlen of the result.
LEMMA RecalledStep ==
    ASSUME BufferOK, NEW l \in Lines, Recalled(l)
    PROVE  BufferOK' /\ Terminated' = l /\ cursor' = Len(l)
<1>1. /\ buf \in [Cells -> Text \cup {"NUL"}] /\ buf[Size - 1] = "NUL" /\ Size \in Nat \ {0, 1}
      /\ buf' = Strncpy(l) /\ len' = Strlen(buf') /\ cursor' = len' /\ "NUL" \notin Text
  BY EditorAssumption DEF BufferOK, Recalled
<1>2. l \in Seq(Text) /\ Len(l) \in 0 .. Size - 1
  BY LinesFit
<1>3. \A i \in Cells : buf'[i] = IF i < Len(l) THEN l[i + 1] ELSE
                                 IF i < Size - 1 THEN "NUL" ELSE buf[i]
  BY <1>1 DEF Strncpy
<1>4. \A i \in Cells : i < Len(l) => buf'[i] \in Text /\ buf'[i] = l[i + 1]
  <2> SUFFICES ASSUME NEW i \in Cells, i < Len(l) PROVE buf'[i] \in Text /\ buf'[i] = l[i + 1]
    OBVIOUS
  <2>1. i + 1 \in 1 .. Len(l)
    BY <1>1, <1>2 DEF Cells
  <2> QED BY <1>2, <1>3, <2>1
<1>5. \A i \in Cells : i >= Len(l) => buf'[i] = "NUL"
  <2> SUFFICES ASSUME NEW i \in Cells, i >= Len(l) PROVE buf'[i] = "NUL"
    OBVIOUS
  <2>1. i < Size - 1 \/ i = Size - 1
    BY <1>1 DEF Cells
  <2> QED BY <1>1, <1>2, <1>3, <2>1 DEF Cells
<1>6. buf' \in [Cells -> Text \cup {"NUL"}]
  <2>1. \A i \in Cells : buf'[i] \in Text \cup {"NUL"}
    BY <1>2, <1>4, <1>5 DEF Cells
  <2> QED BY <1>1, <2>1 DEF Strncpy
<1>7. Len(l) \in Cells /\ buf'[Len(l)] = "NUL" /\ \A i \in 0 .. Len(l) - 1 : buf'[i] # "NUL"
  <2>1. Len(l) \in Cells /\ \A i \in 0 .. Len(l) - 1 : i \in Cells /\ i < Len(l)
    BY <1>1, <1>2 DEF Cells
  <2> QED BY <1>1, <1>2, <1>4, <1>5, <2>1
<1>8. \A n \in Cells : buf'[n] = "NUL" /\ (\A i \in 0 .. n - 1 : buf'[i] # "NUL") => n = Len(l)
  <2> SUFFICES ASSUME NEW n \in Cells, buf'[n] = "NUL", \A i \in 0 .. n - 1 : buf'[i] # "NUL"
               PROVE  n = Len(l)
    OBVIOUS
  <2>1. ~(n < Len(l))
    BY <1>1, <1>4
  <2>2. ~(n > Len(l))
    BY <1>1, <1>2, <1>7 DEF Cells
  <2> QED BY <1>1, <1>2, <2>1, <2>2 DEF Cells
<1>9. len' = Len(l)
  BY <1>1, <1>7, <1>8 DEF Strlen
<1>10. BufferOK'
  <2>1. Size - 1 \in Cells /\ Size - 1 >= Len(l)
    BY <1>1, <1>2 DEF Cells
  <2>2. \A i \in 0 .. Len(l) - 1 : buf'[i] \in Text
    BY <1>1, <1>2, <1>4 DEF Cells
  <2> QED BY <1>1, <1>2, <1>5, <1>6, <1>9, <2>1, <2>2 DEF BufferOK
<1>11. Str(buf', Len(l)) = l
  <2>1. ASSUME NEW i \in 1 .. Len(l) PROVE buf'[i - 1] = l[i]
    <3>1. i - 1 \in Cells /\ i - 1 < Len(l) /\ (i - 1) + 1 = i
      BY <1>1, <1>2 DEF Cells
    <3> QED BY <1>4, <3>1
  <2> QED BY <1>2, <2>1, StrEqual
<1>12. Terminated' = Str(buf', len')
  BY DEF Terminated, Str
<1> QED BY <1>1, <1>9, <1>10, <1>11, <1>12

-----------------------------------------------------------------------------
(* The history *)

\* The slot of the line that is the i-th before the latest when the next one goes to h.
Place(h, i) == IF i < h THEN h - 1 - i ELSE h - 1 - i + Depth

\* The two ways in which the code and the refinement mapping compute it.
LEMMA Places ==
    ASSUME NEW h \in 0 .. Depth - 1, NEW i \in 0 .. Depth - 1
    PROVE  /\ Place(h, i) \in 0 .. Depth - 1
           /\ (h - 1 - i + 2 * Depth) % Depth = Place(h, i)
           /\ (h - 1 - i + Depth) % Depth = Place(h, i)
<1>1. Depth \in Nat \ {0}
  BY EditorAssumption
<1>2. Place(h, i) \in 0 .. Depth - 1
  BY <1>1 DEF Place
<1> DEFINE x == h - 1 - i + 2 * Depth
           y == h - 1 - i + Depth
<1>3. CASE i < h
  <2>1. x \in 2 * Depth .. 3 * Depth - 1 /\ y \in Depth .. 2 * Depth - 1
    BY <1>1, <1>3
  <2>2. Place(h, i) = x - 2 * Depth /\ Place(h, i) = y - Depth
    BY <1>1, <1>3 DEF Place
  <2> HIDE DEF x, y
  <2>3. x % Depth = x - 2 * Depth
    BY <1>1, <2>1, WrapsTwice
  <2>4. y % Depth = y - Depth
    BY <1>1, <2>1, WrapsOnce
  <2> QED BY <1>2, <2>2, <2>3, <2>4 DEF x, y
<1>4. CASE i >= h
  <2>1. x \in Depth .. 2 * Depth - 1 /\ y \in 0 .. Depth - 1
    BY <1>1, <1>4
  <2>2. Place(h, i) = x - Depth /\ Place(h, i) = y
    BY <1>1, <1>4 DEF Place
  <2> HIDE DEF x, y
  <2>3. x % Depth = x - Depth
    BY <1>1, <2>1, WrapsOnce
  <2>4. y % Depth = y
    BY <1>1, <2>1, WrapsNot
  <2> QED BY <1>2, <2>2, <2>3, <2>4 DEF x, y
<1>5. i < h \/ i >= h
  BY <1>1
<1> QED BY <1>3, <1>4, <1>5, Zenon

\* The c latest lines of ring ls, oldest first.
Ring(ls, h, c) == [j \in 1 .. c |-> ls[(h - c + j - 1 + Depth) % Depth]]

\* They are a sequence, the latest line last.
LEMMA RingIs ==
    ASSUME NEW ls \in [0 .. Depth - 1 -> Lines], NEW h \in 0 .. Depth - 1, NEW c \in 0 .. Depth
    PROVE  /\ Ring(ls, h, c) \in Seq(Lines) /\ Len(Ring(ls, h, c)) = c
           /\ \A j \in 1 .. c : Ring(ls, h, c)[j] = ls[Place(h, c - j)]
<1>1. Depth \in Nat \ {0} /\ c \in Nat
  BY EditorAssumption
<1>2. ASSUME NEW j \in 1 .. c
      PROVE  Place(h, c - j) \in 0 .. Depth - 1 /\ (h - c + j - 1 + Depth) % Depth = Place(h, c - j)
  <2>1. c - j \in 0 .. Depth - 1 /\ h - c + j - 1 + Depth = h - 1 - (c - j) + Depth
    BY <1>1
  <2>2. Place(h, c - j) \in 0 .. Depth - 1 /\ (h - 1 - (c - j) + Depth) % Depth = Place(h, c - j)
    BY <2>1, Places
  <2> QED BY <2>1, <2>2
<1>3. \A j \in 1 .. c : ls[(h - c + j - 1 + Depth) % Depth] \in Lines
  BY <1>2
<1>4. Ring(ls, h, c) \in [1 .. c -> Lines]
  BY <1>3 DEF Ring
<1>5. Ring(ls, h, c) \in Seq(Lines) /\ Len(Ring(ls, h, c)) = c
  BY <1>1, <1>4
<1> QED BY <1>2, <1>5 DEF Ring

\* The last Depth lines.
Kept(q) == IF Len(q) > Depth THEN Tail(q) ELSE q

\* What nav = i shows is the i-th line before the latest.
LEMMA SlotIs ==
    ASSUME RingOK, NEW i \in 0 .. count - 1
    PROVE  /\ Slot(i) \in 0 .. Depth - 1 /\ lines[Slot(i)] \in Lines
           /\ Recorded[count - i] = lines[Slot(i)]
<1>1. /\ lines \in [0 .. Depth - 1 -> Lines] /\ head \in 0 .. Depth - 1 /\ count \in 0 .. Depth
      /\ Depth \in Nat \ {0}
  BY EditorAssumption DEF RingOK
<1>2. i \in 0 .. Depth - 1 /\ count - i \in 1 .. count /\ count - (count - i) = i
  BY <1>1
<1>3. Slot(i) = Place(head, i) /\ Place(head, i) \in 0 .. Depth - 1
  BY <1>1, <1>2, Places DEF Slot
<1>4. Recorded = Ring(lines, head, count)
  BY DEF Recorded, Ring
<1>5. Ring(lines, head, count)[count - i] = lines[Place(head, i)]
  <2>1. \A j \in 1 .. count : Ring(lines, head, count)[j] = lines[Place(head, count - j)]
    BY <1>1, RingIs
  <2> QED BY <1>2, <2>1
<1> QED BY <1>1, <1>3, <1>4, <1>5

\* A line is put into the ring; when it is full the oldest one is forgotten.
LEMMA RingAdds ==
    ASSUME NEW ls \in [0 .. Depth - 1 -> Lines], NEW h \in 0 .. Depth - 1, NEW c \in 0 .. Depth,
           NEW l \in Lines
    PROVE  /\ (h + 1) % Depth \in 0 .. Depth - 1
           /\ Ring([ls EXCEPT ![h] = l], (h + 1) % Depth, IF c < Depth THEN c + 1 ELSE c)
              = Kept(Append(Ring(ls, h, c), l))
<1> DEFINE ls2 == [ls EXCEPT ![h] = l]
           h2 == (h + 1) % Depth
           c2 == IF c < Depth THEN c + 1 ELSE c
<1>1. /\ ls \in [0 .. Depth - 1 -> Lines] /\ h \in 0 .. Depth - 1 /\ c \in 0 .. Depth
      /\ Depth \in Nat \ {0}
      /\ ls2 = [ls EXCEPT ![h] = l] /\ h2 = (h + 1) % Depth /\ c2 = IF c < Depth THEN c + 1 ELSE c
  BY EditorAssumption
<1> HIDE DEF ls2, h2, c2
<1>2. h2 = IF h = Depth - 1 THEN 0 ELSE h + 1
  <2> DEFINE x == h + 1
  <2>1. h2 = x % Depth
    BY <1>1
  <2>2. CASE h = Depth - 1
    <3>1. x \in Depth .. 2 * Depth - 1 /\ x - Depth = 0
      BY <1>1, <2>2
    <3> HIDE DEF x
    <3>2. x % Depth = x - Depth
      BY <1>1, <3>1, WrapsOnce
    <3> QED BY <2>1, <2>2, <3>1, <3>2
  <2>3. CASE h # Depth - 1
    <3>1. x \in 0 .. Depth - 1
      BY <1>1, <2>3
    <3> HIDE DEF x
    <3>2. x % Depth = x
      BY <1>1, <3>1, WrapsNot
    <3> QED BY <2>1, <2>3, <3>2 DEF x
  <2> QED BY <2>2, <2>3
<1>3. h2 \in 0 .. Depth - 1 /\ c2 \in 1 .. Depth /\ ls2 \in [0 .. Depth - 1 -> Lines]
  BY <1>1, <1>2
<1>4. Place(h2, 0) = h
  BY <1>1, <1>2 DEF Place
<1>5. \A i \in 1 .. Depth - 1 : Place(h2, i) = Place(h, i - 1) /\ Place(h2, i) # h
  BY <1>1, <1>2 DEF Place
<1>6. ls2[h] = l /\ \A k \in 0 .. Depth - 1 : k # h => ls2[k] = ls[k]
  BY <1>1
<1> DEFINE new == Ring(ls2, h2, c2)
           old == Ring(ls, h, c)
<1>7. new \in Seq(Lines) /\ Len(new) = c2 /\ \A j \in 1 .. c2 : new[j] = ls2[Place(h2, c2 - j)]
  <2>1. c2 \in 0 .. Depth
    BY <1>1, <1>3
  <2>2. new \in Seq(Lines)
    BY <1>3, <2>1, RingIs
  <2>3. Len(new) = c2
    BY <1>3, <2>1, RingIs
  <2>4. \A j \in 1 .. c2 : Ring(ls2, h2, c2)[j] = ls2[Place(h2, c2 - j)]
    BY ONLY <1>3, <2>1, RingIs
  <2> QED BY <2>2, <2>3, <2>4
<1>8. old \in Seq(Lines) /\ Len(old) = c /\ \A j \in 1 .. c : old[j] = ls[Place(h, c - j)]
  BY <1>1, RingIs
<1> HIDE DEF new, old
<1>10. new[c2] = l
  <2>1. c2 \in 1 .. c2 /\ c2 - c2 = 0
    BY <1>3
  <2> QED BY <1>4, <1>6, <1>7, <2>1
<1>11. ASSUME NEW j \in 1 .. c2 - 1
       PROVE  new[j] = old[j + c + 1 - c2]
  <2>1. j \in 1 .. c2 /\ c2 - j \in 1 .. Depth - 1
    BY <1>1, <1>3
  <2>2. j + c + 1 - c2 \in 1 .. c /\ c - (j + c + 1 - c2) = c2 - j - 1
    BY <1>1, <1>3
  <2>3. new[j] = ls2[Place(h2, c2 - j)]
    BY <1>7, <2>1
  <2>4. Place(h2, c2 - j) = Place(h, c2 - j - 1) /\ Place(h2, c2 - j) # h
        /\ Place(h2, c2 - j) \in 0 .. Depth - 1
    <3>1. c2 - j \in 0 .. Depth - 1
      BY <1>1, <2>1
    <3> QED BY <1>3, <1>5, <2>1, <3>1, Places
  <2>5. new[j] = ls[Place(h, c2 - j - 1)]
    BY <1>6, <2>3, <2>4
  <2>6. old[j + c + 1 - c2] = ls[Place(h, c2 - j - 1)]
    BY <1>8, <2>2
  <2> QED BY <2>5, <2>6
<1> DEFINE app == Append(old, l)
<1>12. app \in Seq(Lines) /\ Len(app) = c + 1 /\ app[c + 1] = l
       /\ \A j \in 1 .. c : app[j] = old[j]
  BY <1>8
<1> HIDE DEF app
<1>13. new = Kept(app)
  <2>1. CASE c < Depth
    <3>1. c2 = c + 1 /\ Kept(app) = app
      BY <1>1, <1>12, <2>1 DEF Kept
    <3>2. ASSUME NEW j \in 1 .. Len(new) PROVE new[j] = app[j]
      <4>1. CASE j = c + 1
        BY <1>10, <1>12, <3>1, <4>1
      <4>2. CASE j # c + 1
        <5>1. j \in 1 .. c /\ j \in 1 .. c2 - 1 /\ j + c + 1 - c2 = j
          BY <1>1, <1>7, <3>1, <4>2
        <5> QED BY <1>11, <1>12, <5>1
      <4> QED BY <4>1, <4>2
    <3>3. Len(new) = Len(app)
      BY <1>7, <1>12, <3>1
    <3> QED BY <1>7, <1>12, <3>1, <3>2, <3>3, SeqEqual
  <2>2. CASE ~(c < Depth)
    <3> DEFINE r == Tail(app)
    <3>1. c2 = c /\ c = Depth /\ Kept(app) = r
      BY <1>1, <1>12, <2>2 DEF Kept
    <3>2. r \in Seq(Lines) /\ Len(r) = c /\ \A j \in 1 .. c : r[j] = app[j + 1]
      BY <1>1, <1>12
    <3> HIDE DEF r
    <3>3. ASSUME NEW j \in 1 .. Len(new) PROVE new[j] = r[j]
      <4>1. CASE j = c
        BY <1>1, <1>10, <1>12, <3>1, <3>2, <4>1
      <4>2. CASE j # c
        <5>1. j \in 1 .. c /\ j + 1 \in 1 .. c /\ j \in 1 .. c2 - 1 /\ j + c + 1 - c2 = j + 1
          BY <1>1, <1>7, <3>1, <4>2
        <5>2. new[j] = old[j + 1]
          BY <1>11, <5>1
        <5> QED BY <1>12, <3>2, <5>1, <5>2
      <4> QED BY <4>1, <4>2
    <3>4. Len(new) = Len(r)
      BY <1>7, <3>1, <3>2
    <3> QED BY <1>7, <3>1, <3>2, <3>3, <3>4, SeqEqual
  <2> QED BY <2>1, <2>2
<1> QED BY <1>3, <1>13 DEF app, new, old, ls2, h2, c2

-----------------------------------------------------------------------------
(* Every byte edits the text or leaves it alone *)

\* The line of the history on display.
Shown == IF nav < 0 THEN 0 ELSE count - nav

\* What the abstract editor sees does not change.
Same == UNCHANGED <<Terminated, cursor, Recorded, Shown, ret>>

\* Then all variables of the abstract editor stay as they are.
LEMMA SameIs == Same => UNCHANGED T!textVars
  BY DEF Same, Shown, T!textVars

\* A key that changes nothing.
LEMMA UneditedStep ==
    ASSUME BufferOK, RingOK, Unedited, UNCHANGED ret
    PROVE  BufferOK' /\ RingOK' /\ Same
<1>1. UNCHANGED <<buf, len, cursor, lines, head, count, nav, ret>>
  BY DEF Unedited, history
<1>2. BufferOK' /\ RingOK'
  BY <1>1 DEF BufferOK, RingOK
<1> QED BY <1>1, <1>2 DEF Same, Terminated, Recorded, Shown

\* A key that leaves the history alone.
LEMMA HistoryKept ==
    ASSUME RingOK, UNCHANGED history
    PROVE  RingOK' /\ Recorded' = Recorded /\ Shown' = Shown
<1>1. UNCHANGED <<lines, head, count, nav>>
  BY DEF history
<1> QED BY <1>1 DEF RingOK, Recorded, Shown

\* Keys that move the cursor.
LEMMA GoesToStep ==
    ASSUME BufferOK, RingOK, ret = None, NEW c \in {0, len, cursor - 1, cursor + 1}, c \in 0 .. len,
           GoesTo(c), UNCHANGED ret
    PROVE  BufferOK' /\ RingOK' /\ T!Move
<1>1. buf' = buf /\ len' = len /\ cursor' = c /\ Terminated' = Terminated
  BY DEF GoesTo, Terminated
<1>2. RingOK' /\ Recorded' = Recorded /\ Shown' = Shown
  BY HistoryKept DEF GoesTo
<1>3. BufferOK'
  BY <1>1 DEF BufferOK
<1>4. Len(Terminated) = len
  BY TextIs
<1>5. T!Becomes(Terminated, c)
  BY <1>1, <1>2 DEF T!Becomes, Shown
<1> QED BY <1>2, <1>3, <1>4, <1>5 DEF T!Move, T!Editing, T!None, None

\* Keys that erase the text.
LEMMA ClearStep ==
    ASSUME BufferOK, RingOK, ret = None, CtrlC \/ (CtrlU /\ len > 0), UNCHANGED ret
    PROVE  BufferOK' /\ RingOK' /\ T!Clear
<1>1. Size \in Nat \ {0, 1} /\ 0 \in Cells /\ Size - 1 \in Cells /\ Size - 1 # 0
  BY EditorAssumption DEF Cells
<1>2. buf' \in [Cells -> Text \cup {"NUL"}] /\ buf'[Size - 1] = "NUL" /\ len' = 0 /\ cursor' = 0
  BY <1>1 DEF CtrlC, CtrlU, Zeroed, BufferOK
<1>3. BufferOK' /\ Terminated' = <<>>
  BY <1>2, EmptyStep
<1>4. RingOK' /\ Recorded' = Recorded /\ Shown' = Shown
  BY HistoryKept DEF CtrlC, CtrlU
<1>5. T!Becomes(<<>>, 0)
  BY <1>2, <1>3, <1>4 DEF T!Becomes, Shown
<1> QED BY <1>3, <1>4, <1>5 DEF T!Clear, T!Editing, T!None, None

\* A character.
LEMMA InsertStep ==
    ASSUME BufferOK, RingOK, ret = None, NEW c \in Text, Insert(c), UNCHANGED ret
    PROVE  BufferOK' /\ RingOK' /\ (T!Type(c) \/ Same)
<1>1. CASE len < Size - 1
  <2>1. Inserted(c)
    BY <1>1 DEF Insert
  <2>2. BufferOK' /\ Terminated' = T!InsertAt(Terminated, cursor + 1, c)
    BY <1>1, <2>1, InsertedStep
  <2>3. RingOK' /\ Recorded' = Recorded /\ Shown' = Shown
    BY <2>1, HistoryKept DEF Inserted
  <2>4. cursor' = cursor + 1 /\ Len(Terminated) < Size - 1
    BY <1>1, <2>1, TextIs DEF Inserted
  <2>5. T!Becomes(T!InsertAt(Terminated, cursor + 1, c), cursor + 1)
    BY <2>2, <2>3, <2>4 DEF T!Becomes, Shown
  <2> QED BY <2>2, <2>3, <2>4, <2>5 DEF T!Type, T!Editing, T!None, None
<1>2. CASE ~(len < Size - 1)
  BY <1>2, UneditedStep DEF Insert
<1> QED BY <1>1, <1>2

\* The delete key.
LEMMA DeleteStep ==
    ASSUME BufferOK, RingOK, ret = None, Delete, UNCHANGED ret
    PROVE  BufferOK' /\ RingOK' /\ (T!EraseRight \/ Same)
<1>1. CASE cursor < len
  <2>1. Closes(cursor, len - cursor - 1) /\ cursor' = cursor
    BY <1>1 DEF Delete
  <2>2. cursor \in 0 .. len - 1
    BY <1>1 DEF BufferOK
  <2>3. BufferOK' /\ Terminated' = T!RemoveAt(Terminated, cursor + 1)
    BY <2>1, <2>2, ClosesStep
  <2>4. RingOK' /\ Recorded' = Recorded /\ Shown' = Shown
    BY <2>1, HistoryKept DEF Closes
  <2>5. cursor < Len(Terminated)
    BY <1>1, TextIs
  <2>6. T!Becomes(T!RemoveAt(Terminated, cursor + 1), cursor)
    BY <2>1, <2>3, <2>4 DEF T!Becomes, Shown
  <2> QED BY <2>3, <2>4, <2>5, <2>6 DEF T!EraseRight, T!Editing, T!None, None
<1>2. CASE ~(cursor < len)
  BY <1>2, UneditedStep DEF Delete
<1> QED BY <1>1, <1>2

\* Backspace.
LEMMA BackspaceStep ==
    ASSUME BufferOK, RingOK, ret = None, Backspace, UNCHANGED ret
    PROVE  BufferOK' /\ RingOK' /\ (T!EraseLeft \/ Same)
<1>1. CASE cursor > 0
  <2> DEFINE d == cursor - 1
  <2>1. Closes(cursor - 1, len - cursor) /\ cursor' = cursor - 1
    BY <1>1 DEF Backspace
  <2>2. cursor \in Nat /\ len \in Nat /\ cursor <= len
    BY EditorAssumption DEF BufferOK
  <2>3. d \in 0 .. len - 1 /\ len - d - 1 = len - cursor /\ d + 1 = cursor
    BY <1>1, <2>2
  <2>4. Closes(d, len - d - 1) /\ cursor' \in 0 .. len - 1
    BY <2>1, <2>3
  <2>5. BufferOK' /\ Terminated' = T!RemoveAt(Terminated, d + 1)
    BY <2>3, <2>4, ClosesStep
  <2>6. RingOK' /\ Recorded' = Recorded /\ Shown' = Shown
    BY <2>1, HistoryKept DEF Closes
  <2>7. T!Becomes(T!RemoveAt(Terminated, cursor), cursor - 1)
    BY <2>1, <2>3, <2>5, <2>6 DEF T!Becomes, Shown
  <2> QED BY <1>1, <2>5, <2>6, <2>7 DEF T!EraseLeft, T!Editing, T!None, None
<1>2. CASE ~(cursor > 0)
  BY <1>2, UneditedStep DEF Backspace
<1> QED BY <1>1, <1>2

\* A line of the history is shown.
LEMMA ShowStep ==
    ASSUME BufferOK, RingOK, NEW n \in 0 .. count - 1, nav' = n, Recalled(lines[Slot(n)]),
           UNCHANGED <<lines, head, count, ret>>
    PROVE  BufferOK' /\ RingOK' /\ T!Shows(count - n)
<1>1. lines[Slot(n)] \in Lines /\ Recorded[count - n] = lines[Slot(n)]
  BY SlotIs
<1>2. BufferOK' /\ Terminated' = lines[Slot(n)] /\ cursor' = Len(lines[Slot(n)])
  BY <1>1, RecalledStep
<1>3. RingOK'
  BY DEF RingOK
<1>4. Recorded' = Recorded
  BY DEF Recorded
<1>5. count - n # 0 /\ Shown' = count - n
  <2>1. count \in Nat /\ count' = count /\ ~(n < 0) /\ count - n # 0
    BY EditorAssumption DEF RingOK
  <2>2. Shown' = IF n < 0 THEN 0 ELSE count' - n
    BY DEF Shown
  <2> QED BY <2>1, <2>2
<1>6. T!Shows(count - n)
  BY <1>1, <1>2, <1>4, <1>5 DEF T!Shows, Shown
<1> QED BY <1>2, <1>3, <1>6

\* history_prev
LEMMA PrevStep ==
    ASSUME BufferOK, RingOK, ret = None, HistoryPrev, UNCHANGED ret
    PROVE  BufferOK' /\ RingOK' /\ (T!Up \/ Same)
<1>1. CASE count = 0
  BY <1>1, UneditedStep DEF HistoryPrev
<1>2. CASE count # 0
  <2> DEFINE n == IF nav < 0 THEN count - 1 ELSE IF nav > 0 THEN nav - 1 ELSE nav
  <2>1. nav' = n /\ Recalled(lines[Slot(n)]) /\ UNCHANGED <<lines, head, count>>
    BY <1>2 DEF HistoryPrev
  <2>2. nav \in -1 .. count - 1 /\ count \in Nat /\ count # 0
    BY <1>2, EditorAssumption DEF RingOK
  <2>3. n \in 0 .. count - 1
    BY <2>2
  <2>4. BufferOK' /\ RingOK' /\ T!Shows(count - n)
    BY <2>1, <2>3, ShowStep
  <2>5. Recorded = Ring(lines, head, count) /\ Len(Ring(lines, head, count)) = count
    BY RingIs DEF RingOK, Recorded, Ring
  <2>6. Recorded # <<>> /\ Len(Recorded) = count
    BY <2>2, <2>5
  <2>7. count - n \in 1 .. Len(Recorded)
    BY <2>2, <2>3, <2>6
  <2> HIDE DEF n
  <2> QED BY <2>4, <2>7 DEF T!Up, T!Editing, T!None, None, Shown
<1> QED BY <1>1, <1>2

\* history_next
LEMMA NextStep ==
    ASSUME BufferOK, RingOK, ret = None, HistoryNext, UNCHANGED ret
    PROVE  BufferOK' /\ RingOK' /\ (T!Down \/ Same)
<1>1. CASE nav < 0
  BY <1>1, UneditedStep DEF HistoryNext
<1>2. CASE ~(nav < 0)
  <2>1. /\ nav' = nav - 1 /\ UNCHANGED <<lines, head, count>>
        /\ Recalled(IF nav = 0 THEN <<>> ELSE lines[Slot(nav')])
    BY <1>2 DEF HistoryNext
  <2>2. nav \in 0 .. count - 1 /\ count \in Nat
    BY <1>2, EditorAssumption DEF RingOK
  <2>3. Recorded = Ring(lines, head, count) /\ Len(Ring(lines, head, count)) = count
    BY RingIs DEF RingOK, Recorded, Ring
  <2>4. Shown # 0 /\ Shown = count - nav
    BY <2>2 DEF Shown
  <2>5. CASE nav = 0
    <3>1. <<>> \in Lines /\ Len(<<>>) = 0
      <4>1. <<>> \in Seq(Text) /\ Len(<<>>) = 0 /\ 0 <= Size - 1
        BY EditorAssumption
      <4> QED BY <4>1, LinesFit
    <3>2. BufferOK' /\ Terminated' = <<>> /\ cursor' = 0
      BY <2>1, <2>5, <3>1, RecalledStep
    <3>3. RingOK' /\ Recorded' = Recorded /\ Shown' = 0
      BY <2>1, <2>2, <2>5 DEF RingOK, Recorded, Shown
    <3>4. T!Shows(0)
      BY <3>1, <3>2, <3>3 DEF T!Shows, Shown
    <3>5. ~(Shown < Len(Recorded))
      BY <2>2, <2>3, <2>4, <2>5
    <3> QED BY <2>4, <3>2, <3>3, <3>4, <3>5 DEF T!Down, T!Editing, T!None, None, Shown
  <2>6. CASE nav # 0
    <3>1. nav - 1 \in 0 .. count - 1 /\ Recalled(lines[Slot(nav - 1)])
      BY <2>1, <2>2, <2>6
    <3>2. BufferOK' /\ RingOK' /\ T!Shows(count - (nav - 1))
      BY <2>1, <3>1, ShowStep
    <3>3. Shown < Len(Recorded) /\ count - (nav - 1) = Shown + 1
      BY <2>2, <2>3, <2>4, <2>6
    <3> QED BY <2>4, <3>2, <3>3 DEF T!Down, T!Editing, T!None, None, Shown
  <2> QED BY <2>5, <2>6
<1> QED BY <1>1, <1>2

\* history_add
LEMMA AddStep ==
    ASSUME RingOK, NEW l \in Lines, HistoryAdd(l)
    PROVE  /\ RingOK' /\ Shown' = IF l = <<>> THEN Shown ELSE 0
           /\ Recorded' = IF l = <<>> \/ (Recorded # <<>> /\ Recorded[Len(Recorded)] = l)
                          THEN Recorded ELSE Kept(Append(Recorded, l))
<1>1. /\ lines \in [0 .. Depth - 1 -> Lines] /\ head \in 0 .. Depth - 1 /\ count \in 0 .. Depth
      /\ Depth \in Nat \ {0} /\ count \in Nat /\ nav \in -1 .. count - 1
  BY EditorAssumption DEF RingOK
<1>2. CASE l = <<>>
  BY <1>2, HistoryKept DEF HistoryAdd
<1>3. CASE l # <<>>
  <2>1. nav' = -1 /\ Shown' = 0
    BY <1>3 DEF HistoryAdd, Shown
  <2>2. Recorded = Ring(lines, head, count) /\ Ring(lines, head, count) \in Seq(Lines)
        /\ Len(Ring(lines, head, count)) = count
    BY <1>1, RingIs DEF Recorded, Ring
  <2>3. count > 0 <=> Recorded # <<>>
    BY <1>1, <2>2
  <2>4. count > 0 => Recorded[Len(Recorded)] = lines[Slot(0)]
    <3> SUFFICES ASSUME count > 0 PROVE Recorded[Len(Recorded)] = lines[Slot(0)]
      OBVIOUS
    <3>1. 0 \in 0 .. count - 1 /\ count - 0 = count
      BY <1>1
    <3>2. Recorded[count - 0] = lines[Slot(0)]
      BY <3>1, SlotIs
    <3> QED BY <2>2, <3>1, <3>2
  <2>5. CASE count > 0 /\ lines[Slot(0)] = l
    <3>1. UNCHANGED <<lines, head, count>>
      BY <1>3, <2>5 DEF HistoryAdd
    <3>2. RingOK' /\ Recorded' = Recorded
      BY <1>1, <2>1, <3>1 DEF RingOK, Recorded
    <3> QED BY <1>3, <2>1, <2>3, <2>4, <2>5, <3>2
  <2>6. CASE ~(count > 0 /\ lines[Slot(0)] = l)
    <3>1. /\ lines' = [lines EXCEPT ![head] = l] /\ head' = (head + 1) % Depth
          /\ count' = IF count < Depth THEN count + 1 ELSE count
      BY <1>3, <2>6 DEF HistoryAdd
    <3>2. /\ head' \in 0 .. Depth - 1 /\ count' \in 0 .. Depth /\ lines' \in [0 .. Depth - 1 -> Lines]
          /\ Ring(lines', head', count') = Kept(Append(Ring(lines, head, count), l))
      <4>1. l \in Lines
        OBVIOUS
      <4>2. (head + 1) % Depth \in 0 .. Depth - 1
        BY <1>1, <4>1, RingAdds
      <4>3. Ring([lines EXCEPT ![head] = l], (head + 1) % Depth,
                 IF count < Depth THEN count + 1 ELSE count) = Kept(Append(Ring(lines, head, count), l))
        BY <1>1, <4>1, RingAdds, Zenon
      <4>4. count' \in 0 .. Depth
        BY <1>1, <3>1
      <4>5. lines' \in [0 .. Depth - 1 -> Lines]
        BY <1>1, <3>1, <4>1
      <4> QED BY <3>1, <4>2, <4>3, <4>4, <4>5, Zenon
    <3>3. Recorded' = Ring(lines', head', count')
      BY DEF Recorded, Ring
    <3>4. RingOK'
      <4>1. -1 \in -1 .. count' - 1
        BY ONLY <1>1, <3>1
      <4> QED BY <2>1, <3>2, <4>1 DEF RingOK
    <3> QED BY <1>3, <2>1, <2>2, <2>3, <2>4, <2>6, <3>2, <3>3, <3>4
  <2> QED BY <2>5, <2>6
<1> QED BY <1>2, <1>3

\* The end of a call.
LEMMA ReturnStep ==
    ASSUME NEW r, Returns(r)
    PROVE  BufferOK' /\ Terminated' = <<>> /\ cursor' = 0 /\ ret' = r /\ es' = "NONE" /\ socket' = socket
<1>1. Size - 1 \in Cells
  BY EditorAssumption DEF Cells
<1>2. buf' \in [Cells -> Text \cup {"NUL"}] /\ buf'[Size - 1] = "NUL" /\ len' = 0 /\ cursor' = 0
  BY <1>1 DEF Returns, Zeroed
<1>3. BufferOK' /\ Terminated' = <<>>
  BY <1>2, EmptyStep
<1> QED BY <1>2, <1>3 DEF Returns

\* A step of the abstract editor, or none.
Edits == T!Edit \/ Same

\* A byte outside of an escape sequence.
LEMMA KeyStep ==
    ASSUME IInv, NEW c \in Text \cup Controls, Key(c)
    PROVE  IInv' /\ Edits
<1>1. /\ ret = None /\ ret' = ret /\ socket' = socket /\ es' \in {"NONE", "ESC", "BRACKET"}
      /\ BufferOK /\ RingOK /\ socket \in BOOLEAN /\ ret \in Lines \cup {None, Eof}
  BY DEF Key, IInv
<1>2. \/ c \in Text /\ Insert(c)
      \/ Backspace \/ CtrlC \/ CtrlU \/ GoesTo(0) \/ GoesTo(len) \/ Unedited
  BY DEF Key
<1>3. 0 \in 0 .. len /\ len \in 0 .. len /\ len \in Nat
  BY EditorAssumption DEF BufferOK, IInv
<1>4. BufferOK' /\ RingOK' /\ Edits
  <2>1. CASE c \in Text /\ Insert(c)
    BY <1>1, <2>1, InsertStep DEF Edits, T!Edit
  <2>2. CASE Backspace
    BY <1>1, <2>2, BackspaceStep DEF Edits, T!Edit
  <2>3. CASE CtrlC
    BY <1>1, <2>3, ClearStep DEF Edits, T!Edit
  <2>4. CASE CtrlU
    <3>1. CASE len > 0
      BY <1>1, <2>4, <3>1, ClearStep DEF Edits, T!Edit
    <3>2. CASE ~(len > 0)
      <4>1. Unedited
        BY <2>4, <3>2 DEF CtrlU
      <4> QED BY <1>1, <4>1, UneditedStep DEF Edits
    <3> QED BY <3>1, <3>2
  <2>5. CASE GoesTo(0) \/ GoesTo(len)
    BY <1>1, <1>3, <2>5, GoesToStep DEF Edits, T!Edit
  <2>6. CASE Unedited
    BY <1>1, <2>6, UneditedStep DEF Edits
  <2> QED BY <1>2, <2>1, <2>2, <2>3, <2>4, <2>5, <2>6
<1> QED BY <1>1, <1>4 DEF IInv

\* The last byte of an escape sequence.
LEMMA SequenceStep ==
    ASSUME IInv, NEW c \in Text \cup Finals, Sequence(c)
    PROVE  IInv' /\ Edits
<1>1. /\ ret = None /\ ret' = ret /\ socket' = socket /\ es' = "NONE"
      /\ BufferOK /\ RingOK /\ socket \in BOOLEAN /\ ret \in Lines \cup {None, Eof}
  BY DEF Sequence, IInv
<1>2. \/ HistoryPrev \/ HistoryNext \/ Delete \/ Unedited \/ GoesTo(0) \/ GoesTo(len)
      \/ (cursor < len /\ GoesTo(cursor + 1)) \/ (cursor > 0 /\ GoesTo(cursor - 1))
  BY DEF Sequence
<1>3. /\ 0 \in 0 .. len /\ len \in 0 .. len /\ len \in Nat
      /\ cursor < len => cursor + 1 \in 0 .. len
      /\ cursor > 0 => cursor - 1 \in 0 .. len
  BY EditorAssumption DEF BufferOK, IInv
<1>4. BufferOK' /\ RingOK' /\ Edits
  <2>1. CASE HistoryPrev
    BY <1>1, <2>1, PrevStep DEF Edits, T!Edit
  <2>2. CASE HistoryNext
    BY <1>1, <2>2, NextStep DEF Edits, T!Edit
  <2>3. CASE Delete
    BY <1>1, <2>3, DeleteStep DEF Edits, T!Edit
  <2>4. CASE Unedited
    BY <1>1, <2>4, UneditedStep DEF Edits
  <2>5. CASE GoesTo(0) \/ GoesTo(len)
    BY <1>1, <1>3, <2>5, GoesToStep DEF Edits, T!Edit
  <2>6. CASE cursor < len /\ GoesTo(cursor + 1)
    BY <1>1, <1>3, <2>6, GoesToStep DEF Edits, T!Edit
  <2>7. CASE cursor > 0 /\ GoesTo(cursor - 1)
    BY <1>1, <1>3, <2>7, GoesToStep DEF Edits, T!Edit
  <2> QED BY <1>2, <2>1, <2>2, <2>3, <2>4, <2>5, <2>6, <2>7
<1> QED BY <1>1, <1>4 DEF IInv

\* The call returns a line.
LEMMA EnterStep ==
    ASSUME IInv, Enter
    PROVE  IInv' /\ Edits
<1>1. ret = None /\ HistoryAdd(Terminated) /\ Returns(Terminated)
  BY DEF Enter
<1>2. Terminated \in Lines
  BY TextIs DEF IInv
<1>3. /\ BufferOK' /\ Terminated' = <<>> /\ cursor' = 0 /\ ret' = Terminated /\ es' = "NONE"
      /\ socket' = socket
  BY <1>1, ReturnStep
<1>4. /\ RingOK' /\ Shown' = IF Terminated = <<>> THEN Shown ELSE 0
      /\ Recorded' = IF Terminated = <<>> \/ (Recorded # <<>> /\ Recorded[Len(Recorded)] = Terminated)
                     THEN Recorded ELSE Kept(Append(Recorded, Terminated))
  BY <1>1, <1>2, AddStep DEF IInv
<1>5. T!Enter
  BY <1>1, <1>3, <1>4 DEF T!Enter, T!Editing, T!None, None, T!Last, T!Kept, Kept, Shown
<1> QED BY <1>2, <1>3, <1>4, <1>5 DEF IInv, Edits, T!Edit

\* The call returns without one.
LEMMA EofStep ==
    ASSUME IInv, EndOfFile
    PROVE  IInv' /\ Edits
<1>1. ret = None /\ Returns(Eof) /\ UNCHANGED history
  BY DEF EndOfFile
<1>2. /\ BufferOK' /\ Terminated' = <<>> /\ cursor' = 0 /\ ret' = Eof /\ es' = "NONE"
      /\ socket' = socket
  BY <1>1, ReturnStep
<1>3. RingOK' /\ Recorded' = Recorded /\ Shown' = Shown
  BY <1>1, HistoryKept DEF IInv
<1>4. T!GiveUp
  BY <1>1, <1>2, <1>3 DEF T!GiveUp, T!Editing, T!None, None, T!Eof, Eof, Shown
<1> QED BY <1>2, <1>3, <1>4 DEF IInv, Edits, T!Edit

\* The caller calls again.
LEMMA AgainStep ==
    ASSUME IInv, Again
    PROVE  IInv' /\ Edits
<1>1. ret # None /\ ret' = None /\ UNCHANGED <<socket, buf, len, cursor, es, history>>
  BY DEF Again
<1>2. RingOK' /\ Recorded' = Recorded /\ Shown' = Shown
  BY <1>1, HistoryKept DEF IInv
<1>3. BufferOK' /\ Terminated' = Terminated
  BY <1>1 DEF IInv, BufferOK, Terminated
<1>4. T!Again
  BY <1>1, <1>2, <1>3 DEF T!Again, T!Editing, T!None, None, Shown
<1> QED BY <1>1, <1>2, <1>3, <1>4 DEF IInv, Edits, T!Edit

-----------------------------------------------------------------------------
(* Theorems *)

\* A fresh editor is the empty text with no history.
LEMMA InitStep == Init => IInv /\ T!Start
<1> SUFFICES ASSUME Init PROVE IInv /\ T!Start
  OBVIOUS
<1>1. Size \in Nat \ {0, 1} /\ Depth \in Nat \ {0} /\ Size - 1 \in Cells
  BY EditorAssumption DEF Cells
<1>2. buf \in [Cells -> Text \cup {"NUL"}] /\ buf[Size - 1] = "NUL" /\ len = 0 /\ cursor = 0
  BY <1>1 DEF Init, Zeroed
<1>3. BufferOK
  BY <1>1, <1>2 DEF BufferOK
<1>4. RingOK
  <2>1. <<>> \in Lines
    <3>1. <<>> \in Seq(Text) /\ Len(<<>>) = 0 /\ 0 <= Size - 1
      BY <1>1
    <3> QED BY <3>1, LinesFit
  <2> QED BY <1>1, <2>1 DEF Init, RingOK
<1>5. IInv
  BY <1>3, <1>4 DEF Init, IInv
<1>6. Terminated = <<>>
  BY <1>2, <1>3, TextIs
<1>7. Recorded = <<>> /\ nav < 0
  <2>1. Recorded = Ring(lines, head, count) /\ Ring(lines, head, count) \in Seq(Lines)
        /\ Len(Ring(lines, head, count)) = 0
    BY <1>4, RingIs DEF RingOK, Recorded, Ring, Init
  <2> QED BY <2>1 DEF Init
<1> QED BY <1>2, <1>5, <1>6, <1>7 DEF Init, T!Start, T!None, None

\* Every step keeps the invariant, and is an edit of the text or nothing.
LEMMA StepEdits ==
    ASSUME IInv, [Next]_vars
    PROVE  IInv' /\ [T!Edit]_(T!textVars)
<1>1. IInv' /\ Edits
  <2>1. CASE \E c \in Text \cup Controls : Key(c)
    BY <2>1, KeyStep
  <2>2. CASE Bracket
    <3>1. Unedited /\ ret' = ret /\ socket' = socket /\ es' = "BRACKET"
      BY <2>2 DEF Bracket
    <3> QED BY <3>1, UneditedStep DEF IInv, Edits
  <2>3. CASE \E c \in Text \cup Finals : Sequence(c)
    BY <2>3, SequenceStep
  <2>4. CASE Enter
    BY <2>4, EnterStep
  <2>5. CASE EndOfFile
    BY <2>5, EofStep
  <2>6. CASE Again
    BY <2>6, AgainStep
  <2>7. CASE UNCHANGED vars
    <3>1. UNCHANGED <<socket, buf, len, cursor, es, lines, head, count, nav, ret>>
      BY <2>7 DEF vars
    <3>2. Unedited
      BY <3>1 DEF Unedited, history
    <3> QED BY <3>1, <3>2, UneditedStep DEF IInv, Edits
  <2> QED BY <2>1, <2>2, <2>3, <2>4, <2>5, <2>6, <2>7 DEF Next
<1> QED BY <1>1, SameIs DEF Edits

\* For every size of the array and depth of the history, and for every sequence of bytes,
\* shell_readline stays within its array and its ring.
THEOREM EditorStaysSafe == Spec => []EditorSafe
<1>1. IInv => EditorSafe
  BY DEF IInv, BufferOK, RingOK, EditorSafe
<1>2. IInv /\ [Next]_vars => IInv'
  BY StepEdits
<1> QED BY <1>1, <1>2, InitStep, PTL DEF Spec

\* ... and it implements the abstract editor: the bytes of buf left of len, the cursor,
\* the ring read from its oldest line and the values returned are at all times those of
\* an editor that works on sequences.
THEOREM ReadlineImplementsText == Spec => LineIsText
<1>1. IInv /\ [Next]_vars => IInv' /\ [T!Edit]_(T!textVars)
  BY StepEdits
<1> QED BY <1>1, InitStep, PTL DEF Spec, LineIsText, T!TextSpec

-----------------------------------------------------------------------------
(* The environment: tables and blobs *)

\* No proper name is in a table twice.
Unique(table) ==
    \A n \in Proper, i, j \in DOMAIN table : table[i].name = n /\ table[j].name = n => i = j

BlobOK(b) == b \in Seq(Entries) /\ Len(b) <= Slots /\ Unique(b)

\* What is known of flash: a draft exists only between the two calls of save_locked,
\* and then it holds the values of the table.
NvsOK ==
    /\ envLock \in [by : Sessions \cup {Nobody}, for : {"none", "write", "commit", "list"}]
    /\ attached \in BOOLEAN
    /\ BlobOK(flash)
    /\ \A b \in draft : BlobOK(b) /\ \A n \in Proper : ValueIn(b, n) = ValueIn(entries, n)
    /\ draft # {} <=> attached /\ envLock.for = "commit"

EnvInv == EnvOK /\ NvsOK

\* A name that one index has.
LEMMA ValueIs ==
    ASSUME NEW table, NEW n, NEW i \in DOMAIN table, i \in Int, table[i].name = n,
           \A j \in DOMAIN table : table[j].name = n => j = i
    PROVE  ValueIn(table, n) = table[i].value
<1> DEFINE at == {j \in DOMAIN table : table[j].name = n}
<1>1. at = {i}
  OBVIOUS
<1>2. (CHOOSE k \in at : \A j \in at : k <= j) = i
  BY <1>1
<1> QED BY <1>1, <1>2 DEF ValueIn

\* A name that no index has.
LEMMA ValueNone ==
    ASSUME NEW table, NEW n, \A j \in DOMAIN table : table[j].name # n
    PROVE  ValueIn(table, n) = Unset
BY DEF ValueIn

\* Tables without repetition that have the same entries in use have the same values.
LEMMA ValuesAgree ==
    ASSUME NEW t, NEW u, DOMAIN t \subseteq Int, DOMAIN u \subseteq Int, Unique(t), Unique(u),
           \A i \in DOMAIN t : t[i].name \in Proper => \E j \in DOMAIN u : u[j] = t[i],
           \A j \in DOMAIN u : u[j].name \in Proper => \E i \in DOMAIN t : t[i] = u[j]
    PROVE  \A n \in Proper : ValueIn(t, n) = ValueIn(u, n)
<1> SUFFICES ASSUME NEW n \in Proper PROVE ValueIn(t, n) = ValueIn(u, n)
  OBVIOUS
<1>1. CASE \E i \in DOMAIN t : t[i].name = n
  <2>1. PICK i \in DOMAIN t : t[i].name = n
    BY <1>1
  <2>2. PICK j \in DOMAIN u : u[j] = t[i]
    BY <2>1
  <2>3. ValueIn(t, n) = t[i].value
    BY <2>1, ValueIs DEF Unique
  <2>4. ValueIn(u, n) = u[j].value
    <3>1. u[j].name = n
      BY <2>1, <2>2
    <3> QED BY <3>1, ValueIs DEF Unique
  <2> QED BY <2>2, <2>3, <2>4
<1>2. CASE \A i \in DOMAIN t : t[i].name # n
  <2>1. \A j \in DOMAIN u : u[j].name # n
    BY <1>2
  <2> QED BY <1>2, <2>1, ValueNone
<1> QED BY <1>1, <1>2

-----------------------------------------------------------------------------
(* The loop of save_locked *)

\* A set of natural numbers that is not empty has a first one.
LEMMA First ==
    ASSUME NEW S \in SUBSET Nat, S # {}
    PROVE  \E m \in S : \A n \in S : m <= n
<1>1. PICK m \in S : \A n \in S : ~(<<n, m>> \in OpToRel(<, Nat))
  BY NatLessThanWellFounded, WFMin, Zenon
<1>2. \A n \in S : <<n, m>> \in OpToRel(<, Nat) <=> n < m
  BY DEF OpToRel
<1>3. \A n \in S : ~(n < m)
  BY <1>1, <1>2, Zenon
<1> QED BY <1>3

\* One more round of the loop, after which the blob is b.
Round(b, n) == IF entries[n] = Unused THEN b ELSE Append(b, entries[n])

\* A function that has the blob after each of the first n rounds.
IsRun(g, n) == g = [k \in 0 .. n |-> IF k = 0 THEN <<>> ELSE Round(g[k - 1], k)]

\* There is one for every n.
LEMMA RunExists ==
    ASSUME NEW n \in Nat PROVE \E g : IsRun(g, n)
<1> DEFINE S == {k \in Nat : ~ \E g : IsRun(g, k)}
<1>1. SUFFICES ASSUME S # {} PROVE FALSE
  BY <1>1
<1>2. PICK m \in S : \A k \in S : m <= k
  BY <1>1, First
<1>3. CASE m = 0
  <2> DEFINE g == [k \in 0 .. 0 |-> <<>>]
  <2>1. IsRun(g, 0)
    BY DEF IsRun
  <2> QED BY <1>2, <1>3, <2>1
<1>4. CASE m # 0
  <2>1. m \in Nat /\ m - 1 \in Nat /\ m - 1 \notin S
    BY <1>2, <1>4
  <2>2. PICK g : IsRun(g, m - 1)
    BY <2>1
  <2> DEFINE h == [k \in 0 .. m |-> IF k = 0 THEN <<>> ELSE Round(g[k - 1], k)]
  <2>3. ASSUME NEW k \in 0 .. m - 1 PROVE h[k] = g[k]
    <3>1. g[k] = IF k = 0 THEN <<>> ELSE Round(g[k - 1], k)
      BY <2>1, <2>2, <2>3 DEF IsRun
    <3> QED BY <2>1, <2>3, <3>1
  <2>4. \A k \in 0 .. m : k # 0 => h[k - 1] = g[k - 1]
    <3> HIDE DEF h
    <3>1. \A k \in 0 .. m : k # 0 => k - 1 \in 0 .. m - 1
      BY <2>1
    <3> QED BY <2>3, <3>1
  <2>5. h = [k \in 0 .. m |-> IF k = 0 THEN <<>> ELSE Round(h[k - 1], k)]
    <3> HIDE DEF h
    <3>1. \A k \in 0 .. m : (IF k = 0 THEN <<>> ELSE Round(g[k - 1], k))
                             = (IF k = 0 THEN <<>> ELSE Round(h[k - 1], k))
      BY <2>4
    <3>2. h = [k \in 0 .. m |-> IF k = 0 THEN <<>> ELSE Round(g[k - 1], k)]
      BY DEF h
    <3> QED BY <3>1, <3>2
  <2> QED BY <1>2, <2>5 DEF IsRun
<1> QED BY <1>3, <1>4

\* So the definition of Packed is what it says.
LEMMA PackedIs ==
    ASSUME Slots \in Nat
    PROVE  /\ Packed[0] = <<>>
           /\ \A n \in 1 .. Slots : Packed[n] = Round(Packed[n - 1], n)
<1>1. IsRun(Packed, Slots)
  <2>1. \E g : g = [n \in 0 .. Slots |-> IF n = 0 THEN <<>> ELSE
                     IF entries[n] = Unused THEN g[n - 1] ELSE Append(g[n - 1], entries[n])]
    BY RunExists DEF IsRun, Round
  <2> QED BY <2>1 DEF Packed, IsRun, Round
<1> QED BY <1>1 DEF IsRun

\* The blob after round n has the entries in use of the first n slots, and no others.
PackedOK(n) ==
    /\ Packed[n] \in Seq(Entries) /\ Len(Packed[n]) <= n
    /\ \A k \in 1 .. Len(Packed[n]) : \E i \in 1 .. n : entries[i] = Packed[n][k]
    /\ \A i \in 1 .. n : entries[i] # Unused =>
         \E k \in 1 .. Len(Packed[n]) : Packed[n][k] = entries[i]
    /\ Unique(Packed[n])

\* An unused slot is not an entry, and its name is not a name.
LEMMA UnusedIsNone == EnvAssumption => Unused \notin Entries /\ Unused.name \notin Proper
BY DEF EnvAssumption, Unused, Entries, Unset

\* A round keeps that.
LEMMA PackedStep ==
    ASSUME EnvOK, NEW n \in 1 .. Slots, PackedOK(n - 1)
    PROVE  PackedOK(n)
<1> DEFINE P == Packed[n - 1]
           Q == Packed[n]
           e == entries[n]
<1>1. n \in Nat /\ n - 1 \in Nat /\ n \in 1 .. Slots /\ Q = Round(P, n)
  BY PackedIs, EnvAssumption DEF EnvAssumption
<1>2. /\ P \in Seq(Entries) /\ Len(P) <= n - 1 /\ Len(P) \in Nat
      /\ \A k \in 1 .. Len(P) : \E i \in 1 .. n - 1 : entries[i] = P[k]
      /\ \A i \in 1 .. n - 1 : entries[i] # Unused => \E k \in 1 .. Len(P) : P[k] = entries[i]
      /\ Unique(P)
  BY DEF PackedOK
<1> HIDE DEF P, Q
<1>3. CASE e = Unused
  <2>1. Q = P
    BY <1>1, <1>3 DEF Round
  <2>2. Q \in Seq(Entries) /\ Len(Q) <= n /\ Unique(Q)
    BY <1>1, <1>2, <2>1
  <2>3. \A k \in 1 .. Len(Q) : \E i \in 1 .. n : entries[i] = Q[k]
    BY <1>1, <1>2, <2>1
  <2>4. \A i \in 1 .. n : entries[i] # Unused => \E k \in 1 .. Len(Q) : Q[k] = entries[i]
    <3>1. \A i \in 1 .. n : i \in 1 .. n - 1 \/ i = n
      BY <1>1
    <3> QED BY <1>2, <1>3, <2>1, <3>1
  <2> QED BY <2>2, <2>3, <2>4 DEF PackedOK, Q
<1>4. CASE e # Unused
  <2>1. Q = Append(P, e) /\ e \in Entries
    BY <1>1, <1>4 DEF Round, EnvOK
  <2>2. /\ Q \in Seq(Entries) /\ Len(Q) = Len(P) + 1 /\ Q[Len(P) + 1] = e
        /\ \A k \in 1 .. Len(P) : Q[k] = P[k]
    <3> HIDE DEF e
    <3> QED BY <1>2, <2>1
  <2>3. Len(Q) <= n
    BY <1>1, <1>2, <2>2
  <2>4. \A k \in 1 .. Len(Q) : k \in 1 .. Len(P) \/ k = Len(P) + 1
    BY <1>2, <2>2
  <2>5. \A k \in 1 .. Len(Q) : \E i \in 1 .. n : entries[i] = Q[k]
    <3>1. \A i \in 1 .. n - 1 : i \in 1 .. n
      BY <1>1
    <3>2. n \in 1 .. n
      BY <1>1
    <3> QED BY <1>2, <2>2, <2>4, <3>1, <3>2
  <2>6. \A i \in 1 .. n : entries[i] # Unused => \E k \in 1 .. Len(Q) : Q[k] = entries[i]
    <3>1. \A i \in 1 .. n : i \in 1 .. n - 1 \/ i = n
      BY <1>1
    <3>2. Len(P) + 1 \in 1 .. Len(Q) /\ \A k \in 1 .. Len(P) : k \in 1 .. Len(Q)
      BY <1>2, <2>2
    <3> QED BY <1>2, <2>2, <3>1, <3>2
  <2>7. Unique(Q)
    <3> SUFFICES ASSUME NEW m \in Proper, NEW i \in 1 .. Len(Q), NEW j \in 1 .. Len(Q),
                        Q[i].name = m, Q[j].name = m
                 PROVE  i = j
      BY <2>2 DEF Unique
    <3>1. \A k \in 1 .. Len(P) : P[k].name = m => e.name # m
      <4> SUFFICES ASSUME NEW k \in 1 .. Len(P), P[k].name = m, e.name = m PROVE FALSE
        OBVIOUS
      <4>1. PICK h \in 1 .. n - 1 : entries[h] = P[k]
        BY <1>2
      <4>2. h \in 1 .. Slots /\ h # n
        BY <1>1, EnvAssumption DEF EnvAssumption
      <4>3. h \in Holds(m) /\ n \in Holds(m)
        BY <4>1, <4>2 DEF Holds
      <4> QED BY <4>2, <4>3 DEF EnvOK
    <3>2. CASE i \in 1 .. Len(P) /\ j \in 1 .. Len(P)
      <4>1. DOMAIN P = 1 .. Len(P)
        BY <1>2
      <4> QED BY <1>2, <2>2, <3>2, <4>1 DEF Unique
    <3> QED BY <2>2, <2>4, <3>1, <3>2
  <2> QED BY <2>2, <2>3, <2>5, <2>6, <2>7 DEF PackedOK, Q
<1> QED BY <1>3, <1>4

\* The blob that is saved has the values of the table.
LEMMA BlobIs ==
    ASSUME EnvOK
    PROVE  BlobOK(Blob) /\ \A n \in Proper : ValueIn(Blob, n) = ValueIn(entries, n)
<1>1. \A n \in 0 .. Slots : PackedOK(n)
  <2> DEFINE S == {n \in 0 .. Slots : ~PackedOK(n)}
  <2>1. SUFFICES ASSUME S # {} PROVE FALSE
    BY <2>1
  <2>2. PICK m \in S : \A k \in S : m <= k
    <3>1. S \in SUBSET Nat
      BY EnvAssumption DEF EnvAssumption
    <3> HIDE DEF S
    <3> QED BY <2>1, <3>1, First
  <2>3. CASE m = 0
    <3>1. Packed[0] = <<>>
      BY PackedIs, EnvAssumption DEF EnvAssumption
    <3>2. PackedOK(0)
      BY <3>1 DEF PackedOK, Unique
    <3> QED BY <2>2, <2>3, <3>2
  <2>4. CASE m # 0
    <3>1. m \in 1 .. Slots /\ m - 1 \in 0 .. Slots /\ ~(m <= m - 1)
      BY <2>2, <2>4, EnvAssumption DEF EnvAssumption
    <3>2. PackedOK(m - 1)
      BY <2>2, <3>1
    <3> QED BY <2>2, <3>1, <3>2, PackedStep
  <2> QED BY <2>3, <2>4
<1>2. PackedOK(Slots)
  BY <1>1, EnvAssumption DEF EnvAssumption
<1>3. DOMAIN entries = 1 .. Slots /\ DOMAIN Blob = 1 .. Len(Blob) /\ Unique(entries) /\ Unique(Blob)
  BY <1>2 DEF EnvOK, PackedOK, Blob, Unique, Holds
<1>4. /\ \A i \in DOMAIN entries : entries[i].name \in Proper => \E k \in DOMAIN Blob : Blob[k] = entries[i]
      /\ \A k \in DOMAIN Blob : \E i \in DOMAIN entries : entries[i] = Blob[k]
  BY <1>2, <1>3, EnvAssumption, UnusedIsNone DEF PackedOK, Blob
<1>5. DOMAIN entries \subseteq Int /\ DOMAIN Blob \subseteq Int
  BY <1>3
<1> QED BY <1>2, <1>3, <1>4, <1>5, ValuesAgree DEF PackedOK, BlobOK, Blob

-----------------------------------------------------------------------------
(* The environment: steps *)

Mem     == [n \in Proper |-> ValueIn(entries, n)]
Saved   == [n \in Proper |-> ValueIn(flash, n)]
Pending == envLock.for \in {"write", "commit"}

\* What the store of EnvStore may do.
StoreMoves == Store!Change \/ Store!Save \/ Store!Reset \/ Store!Erase \/ UNCHANGED Store!storeVars

\* What a session or a reset may do to the environment.
EnvMoves ==
    \/ UNCHANGED envVars
    \/ \E s \in Sessions :
         \/ \E n \in Proper \cup {Long}, v \in Values : EnvSet(s, n, v)
         \/ \E n \in Names : EnvUnset(s, n)
         \/ SaveWrites(s) \/ SaveCommits(s) \/ ListBegins(s) \/ ListEnds(s)
    \/ NvsErase \/ EnvRestarts

\* The indices of a table that has its names.
LEMMA HoldsIs == EnvOK => \A n : \A i \in Holds(n) : i \in 1 .. Slots /\ entries[i].name = n
BY DEF Holds

\* A step that puts entry e into slot i of the table, where the name m was, and begins
\* to save it: the value of m becomes that of e, if any value of a proper name changes.
LEMMA TableStep ==
    ASSUME EnvInv, NEW s \in Sessions, NEW i \in 1 .. Slots, NEW e \in Entries \cup {Unused},
           Changes(s, [entries EXCEPT ![i] = e]),
           entries[i].name \notin Proper \/ e.name = entries[i].name \/ e = Unused,
           e.name \in Proper => Holds(e.name) \subseteq {i}
    PROVE  EnvInv' /\ StoreMoves
<1> USE DEF EnvInv
<1>1. /\ entries' = [entries EXCEPT ![i] = e] /\ entries'[i] = e
      /\ \A j \in 1 .. Slots : j # i => entries'[j] = entries[j]
      /\ envLock = Free /\ envLock' = [by |-> s, for |-> "write"]
      /\ flash' = flash /\ draft' = draft /\ attached' = attached
      /\ DOMAIN entries = 1 .. Slots /\ DOMAIN entries' = 1 .. Slots
  BY DEF Changes, nvs, EnvOK
<1>2. Unused.name = Unset /\ Unset \notin Proper /\ Free.for = "none" /\ draft = {}
  BY <1>1, EnvAssumption DEF Unused, EnvAssumption, Free, NvsOK
<1>3. EnvOK'
  <2>1. entries' \in [1 .. Slots -> Entries \cup {Unused}]
    BY <1>1 DEF EnvOK
  <2>2. ASSUME NEW n \in Proper, NEW j \in 1 .. Slots, NEW k \in 1 .. Slots,
               entries'[j].name = n, entries'[k].name = n
        PROVE  j = k
    <3>1. \A h \in 1 .. Slots : h # i /\ entries'[h].name = n => h \in Holds(n)
      BY <1>1 DEF Holds
    <3>2. CASE e.name = n
      BY <1>1, <2>2, <3>1, <3>2
    <3>3. CASE e.name # n
      BY <1>1, <2>2, <3>1, <3>3 DEF EnvOK
    <3> QED BY <3>2, <3>3
  <2> QED BY <2>1, <2>2 DEF EnvOK, Holds
<1>4. NvsOK'
  <2>1. envLock' \in [by : Sessions \cup {Nobody}, for : {"none", "write", "commit", "list"}]
    BY <1>1
  <2> QED BY <1>1, <1>2, <2>1 DEF NvsOK, BlobOK, Unique
<1>5. ASSUME NEW n \in Proper, n # e.name, n # entries[i].name
      PROVE  ValueIn(entries', n) = ValueIn(entries, n)
  <2>1. CASE \E j \in 1 .. Slots : entries[j].name = n
    <3>1. PICK j \in 1 .. Slots : entries[j].name = n
      BY <2>1
    <3>2. ValueIn(entries, n) = entries[j].value
      <4>1. \A k \in DOMAIN entries : entries[k].name = n => k = j
        BY <1>1, <3>1 DEF EnvOK, Holds
      <4>2. j \in DOMAIN entries /\ j \in Int
        BY <1>1
      <4> QED BY <3>1, <4>1, <4>2, ValueIs
    <3>3. ValueIn(entries', n) = entries'[j].value
      <4>1. \A k \in DOMAIN entries' : entries'[k].name = n => k = j
        BY <1>1, <1>3, <1>5, <3>1 DEF EnvOK, Holds
      <4>2. entries'[j].name = n
        BY <1>1, <1>5, <3>1
      <4>3. j \in DOMAIN entries' /\ j \in Int
        BY <1>1
      <4> QED BY <4>1, <4>2, <4>3, ValueIs
    <3> QED BY <1>1, <1>5, <3>1, <3>2, <3>3
  <2>2. CASE \A j \in 1 .. Slots : entries[j].name # n
    <3>1. \A j \in DOMAIN entries' : entries'[j].name # n
      BY <1>1, <1>5, <2>2
    <3> QED BY <1>1, <2>2, <3>1, ValueNone
  <2> QED BY <2>1, <2>2
<1>6. Store!Change \/ ~(\/ Mem' = Mem
                        \/ \E n \in Proper, v \in Values \cup {Unset} : Mem' = [Mem EXCEPT ![n] = v])
  <2>1. Saved' = Saved
    BY <1>1 DEF Saved
  <2>2. ~Pending /\ Pending' = TRUE
    BY <1>1, <1>2 DEF Pending
  <2> QED BY <1>1, <2>1, <2>2 DEF Store!Change, Mem, Saved, Pending
<1>7. CASE e.name \notin Proper /\ entries[i].name \notin Proper
  <2>1. Mem' = Mem
    BY <1>5, <1>7 DEF Mem
  <2> QED BY <1>3, <1>4, <1>6, <2>1 DEF StoreMoves
<1>8. CASE e.name \in Proper \/ entries[i].name \in Proper
  <2> DEFINE n == IF e.name \in Proper THEN e.name ELSE entries[i].name
  <2>1. n \in Proper /\ \A m \in Proper : m # n => m # e.name /\ m # entries[i].name
    BY <1>8, <1>2
  <2>2. ValueIn(entries', n) = e.value /\ e.value \in Values \cup {Unset}
    <3>1. CASE e = Unused
      <4>1. n = entries[i].name
        BY <1>2, <3>1
      <4>2. \A j \in 1 .. Slots : j # i => entries[j].name # n
        BY <2>1, <4>1 DEF EnvOK, Holds
      <4>3. \A j \in DOMAIN entries' : entries'[j].name # n
        BY <1>1, <1>2, <2>1, <3>1, <4>2
      <4>4. ValueIn(entries', n) = Unset
        BY <4>3, ValueNone
      <4> QED BY <3>1, <4>4 DEF Unused
    <3>2. CASE e # Unused
      <4>1. e \in Entries
        BY <3>2
      <4>2. n = e.name
        BY <3>2, <1>8
      <4>3. i \in DOMAIN entries' /\ i \in Int /\ entries'[i].name = n
        BY <1>1, <4>2
      <4>4. \A j \in DOMAIN entries' : entries'[j].name = n => j = i
        BY <1>1, <1>3, <2>1, <4>3 DEF EnvOK, Holds
      <4>5. ValueIn(entries', n) = entries'[i].value
        BY <4>3, <4>4, ValueIs
      <4> QED BY <1>1, <4>1, <4>5 DEF Entries
    <3> QED BY <3>1, <3>2
  <2> HIDE DEF n
  <2>3. Mem' = [Mem EXCEPT ![n] = e.value]
    BY <1>5, <2>1, <2>2 DEF Mem
  <2> QED BY <1>3, <1>4, <1>6, <2>1, <2>2, <2>3 DEF StoreMoves
<1> QED BY <1>7, <1>8

\* os_env_set: a proper name keeps its one slot or gets a free one; a name that is too
\* long is in no slot and gets a free one under its beginning.
LEMMA EnvSetStep ==
    ASSUME EnvInv, NEW s \in Sessions, NEW n \in Proper \cup {Long}, NEW v \in Values,
           EnvSet(s, n, v)
    PROVE  EnvInv' /\ StoreMoves
<1> DEFINE e == [name |-> Stored(n), value |-> v]
<1>1. PICK i \in 1 .. Slots : IsSlotFor(i, n) /\ Changes(s, [entries EXCEPT ![i] = e])
  BY DEF EnvSet
<1>2. e \in Entries /\ e.name = Stored(n)
  BY DEF Stored, Entries
<1> HIDE DEF e
<1>3. Long \notin Proper /\ Begin \notin Proper /\ Unset \notin Proper
  BY EnvAssumption DEF EnvAssumption
<1>4. entries[i].name = n \/ (Holds(n) = {} /\ entries[i].name = Unset)
  BY <1>1 DEF IsSlotFor, IsFreeSlot, IsFindSlot, Holds
<1>5. entries[i].name \notin Proper \/ e.name = entries[i].name
  BY <1>2, <1>3, <1>4 DEF Stored
<1>6. e.name \in Proper => Holds(e.name) \subseteq {i}
  <2>1. e.name \in Proper => e.name = n
    BY <1>2, <1>3 DEF Stored
  <2>2. n \in Proper => \A j, k \in Holds(n) : j = k
    BY DEF EnvInv, EnvOK
  <2>3. Holds(n) = {} \/ i \in Holds(n)
    BY <1>4 DEF Holds
  <2> QED BY <2>1, <2>2, <2>3
<1> QED BY <1>1, <1>2, <1>5, <1>6, TableStep

\* os_env_unset: the one slot of the name becomes free.
LEMMA EnvUnsetStep ==
    ASSUME EnvInv, NEW s \in Sessions, NEW n, EnvUnset(s, n)
    PROVE  EnvInv' /\ StoreMoves
<1>1. PICK i \in 1 .. Slots : Changes(s, [entries EXCEPT ![i] = Unused])
  BY DEF EnvUnset
<1>2. Unused.name \notin Proper
  BY EnvAssumption, UnusedIsNone
<1> QED BY <1>1, <1>2, TableStep

\* Steps of the mutex and of flash that leave the table alone: the values in memory,
\* and those of a blob that does not change, stay.
LEMMA SaveStep ==
    ASSUME EnvInv, NEW s \in Sessions,
           SaveWrites(s) \/ SaveCommits(s) \/ ListBegins(s) \/ ListEnds(s)
    PROVE  EnvInv' /\ StoreMoves
<1> USE DEF EnvInv
<1>1. entries' = entries /\ attached' = attached /\ Free.for = "none" /\ Free.by = Nobody
  BY DEF SaveWrites, SaveCommits, ListBegins, ListEnds, nvs, Free
<1>2. EnvOK' /\ Mem' = Mem
  BY <1>1 DEF EnvOK, Holds, Mem
<1>3. CASE SaveWrites(s)
  <2>1. /\ envLock.for = "write" /\ envLock' = [by |-> s, for |-> "commit"] /\ flash' = flash
        /\ draft' = IF attached THEN {Blob} ELSE draft
    BY <1>3 DEF SaveWrites
  <2>2. draft = {} /\ attached \in BOOLEAN
    BY <2>1 DEF NvsOK
  <2>3. \A b \in draft' : BlobOK(b) /\ \A n \in Proper : ValueIn(b, n) = ValueIn(entries', n)
    BY <1>1, <2>1, <2>2, BlobIs
  <2>4. envLock' \in [by : Sessions \cup {Nobody}, for : {"none", "write", "commit", "list"}]
    BY <2>1
  <2>5. NvsOK'
    <3>1. draft' # {} <=> attached' /\ envLock'.for = "commit"
      BY <1>1, <2>1, <2>2
    <3> QED BY <1>1, <2>1, <2>3, <2>4, <3>1 DEF NvsOK, BlobOK, Unique
  <2>6. UNCHANGED Store!storeVars
    <3>1. Saved' = Saved
      BY <2>1 DEF Saved
    <3>2. Pending /\ Pending'
      BY <2>1 DEF Pending
    <3> QED BY <1>1, <1>2, <3>1, <3>2 DEF Store!storeVars, Mem, Saved, Pending
  <2> QED BY <1>2, <2>5, <2>6 DEF StoreMoves
<1>4. CASE SaveCommits(s)
  <2>1. /\ envLock.for = "commit" /\ envLock' = Free /\ draft' = {}
        /\ flash' \in IF draft # {} THEN draft ELSE {flash}
    BY <1>4 DEF SaveCommits
  <2>2. BlobOK(flash')
    BY <2>1 DEF NvsOK
  <2>3. NvsOK'
    <3>1. envLock' \in [by : Sessions \cup {Nobody}, for : {"none", "write", "commit", "list"}]
      BY <2>1 DEF Free
    <3> QED BY <1>1, <2>1, <2>2, <3>1 DEF NvsOK, BlobOK, Unique
  <2>4. Saved' = IF attached THEN Mem ELSE Saved
    <3>1. CASE draft # {}
      <4>1. attached /\ \A n \in Proper : ValueIn(flash', n) = ValueIn(entries, n)
        BY <2>1, <3>1 DEF NvsOK
      <4> QED BY <4>1 DEF Saved, Mem
    <3>2. CASE draft = {}
      <4>1. ~attached /\ flash' = flash
        BY <2>1, <3>2 DEF NvsOK
      <4> QED BY <4>1 DEF Saved
    <3> QED BY <3>1, <3>2
  <2>5. Pending /\ Pending' = FALSE
    BY <1>1, <2>1 DEF Pending
  <2>6. Store!Save
    BY <1>1, <1>2, <2>4, <2>5 DEF Store!Save, Mem, Saved, Pending
  <2> QED BY <1>2, <2>3, <2>6 DEF StoreMoves
<1>5. CASE ListBegins(s) \/ ListEnds(s)
  <2>1. /\ flash' = flash /\ draft' = draft /\ envLock.for \in {"none", "list"}
        /\ envLock' \in {Free, [by |-> s, for |-> "list"]}
    BY <1>1, <1>5 DEF ListBegins, ListEnds, nvs
  <2>2. /\ envLock' \in [by : Sessions \cup {Nobody}, for : {"none", "write", "commit", "list"}]
        /\ envLock'.for \in {"none", "list"}
    BY <2>1 DEF Free
  <2>3. NvsOK'
    <3>1. draft = {}
      BY <2>1 DEF NvsOK
    <3> QED BY <1>1, <2>1, <2>2, <3>1 DEF NvsOK, BlobOK, Unique
  <2>4. UNCHANGED Store!storeVars
    <3>1. Saved' = Saved
      BY <2>1 DEF Saved
    <3>2. ~Pending /\ ~Pending'
      BY <2>1, <2>2 DEF Pending
    <3> QED BY <1>1, <1>2, <3>1, <3>2 DEF Store!storeVars, Mem, Saved, Pending
  <2> QED BY <1>2, <2>3, <2>4 DEF StoreMoves
<1> QED BY <1>3, <1>4, <1>5

\* The empty blob.
LEMMA EmptyBlob == BlobOK(<<>>) /\ \A n \in Proper : ValueIn(<<>>, n) = Unset
<1>1. BlobOK(<<>>)
  BY EnvAssumption DEF BlobOK, Unique, EnvAssumption
<1>2. \A n \in Proper : ValueIn(<<>>, n) = Unset
  BY ValueNone
<1> QED BY <1>1, <1>2

\* nvs_flash_erase
LEMMA EraseStep ==
    ASSUME EnvInv, NvsErase
    PROVE  EnvInv' /\ StoreMoves
<1> USE DEF EnvInv
<1>1. /\ flash' = <<>> /\ draft' = {} /\ attached' = FALSE
      /\ entries' = entries /\ envLock' = envLock
  BY DEF NvsErase
<1>2. EnvOK' /\ Mem' = Mem
  BY <1>1 DEF EnvOK, Holds, Mem
<1>3. BlobOK(flash')
  BY <1>1, EmptyBlob
<1>4. NvsOK'
  BY <1>1, <1>3 DEF NvsOK, BlobOK, Unique
<1>5. Saved' = Store!Empty
  BY <1>1, EmptyBlob DEF Saved, Store!Empty
<1>6. Store!Erase
  BY <1>1, <1>2, <1>5 DEF Store!Erase, Mem, Saved, Pending
<1> QED BY <1>2, <1>4, <1>6 DEF StoreMoves

\* What load_locked makes of a blob.
LEMMA LoadedIs ==
    ASSUME NEW b, BlobOK(b)
    PROVE  /\ Loaded(b) \in [1 .. Slots -> Entries \cup {Unused}] /\ Unique(Loaded(b))
           /\ \A n \in Proper : ValueIn(Loaded(b), n) = ValueIn(b, n)
<1> DEFINE t == Loaded(b)
<1>0. Slots \in Nat /\ b \in Seq(Entries) /\ Len(b) \in Nat /\ Len(b) <= Slots /\ Unique(b)
      /\ DOMAIN b = 1 .. Len(b)
  BY EnvAssumption DEF EnvAssumption, BlobOK
<1>1. t \in [1 .. Slots -> Entries \cup {Unused}]
  BY <1>0 DEF Loaded
<1>2. DOMAIN t = 1 .. Slots /\ DOMAIN b = 1 .. Len(b) /\ DOMAIN b \subseteq DOMAIN t
  BY <1>0, <1>1
<1>3. \A i \in DOMAIN b : t[i] = b[i]
  BY <1>0, <1>2 DEF Loaded
<1>4. \A i \in DOMAIN t : t[i].name \in Proper => i \in DOMAIN b
  BY <1>0, <1>2, EnvAssumption, UnusedIsNone DEF Loaded
<1> HIDE DEF t
<1>5. Unique(t)
  BY <1>0, <1>2, <1>3, <1>4 DEF Unique
<1>6. \A n \in Proper : ValueIn(t, n) = ValueIn(b, n)
  <2>1. DOMAIN t \subseteq Int /\ DOMAIN b \subseteq Int
    BY <1>2
  <2>2. \A i \in DOMAIN t : t[i].name \in Proper => \E j \in DOMAIN b : b[j] = t[i]
    BY <1>3, <1>4
  <2>3. \A j \in DOMAIN b : b[j].name \in Proper => \E i \in DOMAIN t : t[i] = b[j]
    BY <1>2, <1>3
  <2> QED BY <1>0, <1>5, <2>1, <2>2, <2>3, ValuesAgree
<1> QED BY <1>1, <1>5, <1>6 DEF t

\* A reset: what is loaded is what was saved, or the change that was under way.
LEMMA RestartStep ==
    ASSUME EnvInv, EnvRestarts
    PROVE  EnvInv' /\ StoreMoves
<1> USE DEF EnvInv
<1>1. /\ flash' \in {flash} \cup draft /\ draft' = {} /\ attached' = TRUE
      /\ entries' = Loaded(flash') /\ envLock' = Free /\ Free.for = "none"
  BY DEF EnvRestarts, Free
<1>2. BlobOK(flash')
  BY <1>1 DEF NvsOK
<1>3. EnvOK'
  <2>1. entries' \in [1 .. Slots -> Entries \cup {Unused}] /\ Unique(entries')
    BY <1>1, <1>2, LoadedIs
  <2> QED BY <2>1 DEF EnvOK, Holds, Unique
<1>4. NvsOK'
  <2>1. envLock' \in [by : Sessions \cup {Nobody}, for : {"none", "write", "commit", "list"}]
    BY <1>1 DEF Free
  <2> QED BY <1>1, <1>2, <2>1 DEF NvsOK, BlobOK, Unique
<1>5. Mem' = Saved'
  BY <1>1, <1>2, LoadedIs DEF Mem, Saved
<1>6. Saved' = Saved \/ (Saved' = Mem /\ Pending /\ attached)
  <2>1. CASE flash' = flash
    BY <2>1 DEF Saved
  <2>2. CASE flash' \in draft
    BY <2>2 DEF NvsOK, Saved, Mem, Pending
  <2> QED BY <1>1, <2>1, <2>2
<1>7. Store!Reset
  <2>1. Pending' = FALSE
    BY <1>1 DEF Pending
  <2>2. Mem' \in {Saved} \cup {m \in {Mem} : Pending /\ attached}
    BY <1>5, <1>6
  <2> QED BY <1>1, <1>5, <2>1, <2>2 DEF Store!Reset, Mem, Saved, Pending
<1> QED BY <1>3, <1>4, <1>7 DEF StoreMoves

\* Whatever is done to the environment, it stays in order and does what its store may do.
LEMMA EnvStep == EnvInv /\ EnvMoves => EnvInv' /\ StoreMoves
<1> SUFFICES ASSUME EnvInv, EnvMoves PROVE EnvInv' /\ StoreMoves
  OBVIOUS
<1>1. CASE UNCHANGED envVars
  <2>1. EnvInv'
    BY <1>1 DEF envVars, EnvInv, EnvOK, Holds, NvsOK, BlobOK, Unique
  <2>2. UNCHANGED Store!storeVars
    BY <1>1 DEF envVars, Store!storeVars
  <2> QED BY <2>1, <2>2 DEF StoreMoves
<1> QED BY <1>1, EnvSetStep, EnvUnsetStep, SaveStep, EraseStep, RestartStep DEF EnvMoves

\* os_env_init on empty flash
LEMMA EnvStarts == EnvInit => EnvInv /\ Store!Start
<1> SUFFICES ASSUME EnvInit PROVE EnvInv /\ Store!Start
  OBVIOUS
<1>1. /\ entries = Loaded(<<>>) /\ flash = <<>> /\ draft = {} /\ attached = TRUE
      /\ envLock = Free /\ Free.for = "none"
  BY DEF EnvInit, Free
<1>2. EnvOK
  <2>1. entries \in [1 .. Slots -> Entries \cup {Unused}] /\ Unique(entries)
    BY <1>1, EmptyBlob, LoadedIs
  <2> QED BY <2>1 DEF EnvOK, Holds, Unique
<1>3. NvsOK
  <2>1. envLock \in [by : Sessions \cup {Nobody}, for : {"none", "write", "commit", "list"}]
    BY <1>1 DEF Free
  <2> QED BY <1>1, <2>1, EmptyBlob DEF NvsOK
<1>4. Mem = Store!Empty /\ Saved = Store!Empty
  BY <1>1, EmptyBlob, LoadedIs DEF Mem, Saved, Store!Empty
<1>5. Pending = FALSE
  BY <1>1 DEF Pending
<1> QED BY <1>1, <1>2, <1>3, <1>4, <1>5 DEF EnvInv, Store!Start, Mem, Saved, Pending

-----------------------------------------------------------------------------
(* The sessions *)

Running  == Busy \ {"answer"}
SesState == [at : Busy \cup {"ready", "closed", "leaked", "login"},
             line : CommandLines \cup {Blank}, texts : 0 .. 2]

\* The texts of the captured command.
Own(out) == {i \in 1 .. Len(out) : out[i] = "web"}

SesTypes ==
    /\ ses \in [Sessions -> SesState]
    /\ active \in BOOLEAN /\ wrote \in Nat /\ entered \in 0 .. MaxLines
    /\ output \in Seq(Sessions) /\ Len(output) <= OutMax

\* A session that is about to write has something to write.
TextsLeft == \A s \in Sessions : ses[s].at \in {"append", "send"} => ses[s].texts > 0

\* The capture is on exactly while the command of the HTTP task runs, so that this task
\* never takes the way to the UART; between two requests there is no buffer.
CaptureOn ==
    /\ active <=> ses["web"].at \in Running
    /\ ses["web"].at # "send"
    /\ ses["web"].at = "ready" => output = <<>> /\ wrote = 0

Captured == Cardinality(Own(output)) = wrote \/ Len(output) = OutMax

SesInv == SesTypes /\ TextsLeft /\ CaptureOn /\ Captured

\* A step of session s that leaves the capture alone.
Local(s) ==
    /\ UNCHANGED capture /\ entered' \in 0 .. MaxLines
    /\ \E r \in SesState :
         /\ ses' = [ses EXCEPT ![s] = r]
         /\ r.at \in {"append", "send"} => r.texts > 0
         /\ s = "web" => ses[s].at \in Running /\ r.at \in Running \ {"send"}

\* It keeps the invariant.
LEMMA LocalStep ==
    ASSUME SesInv, NEW s \in Sessions, Local(s)
    PROVE  SesInv'
<1> USE DEF SesInv
<1>1. PICK r \in SesState :
         /\ ses' = [ses EXCEPT ![s] = r]
         /\ r.at \in {"append", "send"} => r.texts > 0
         /\ s = "web" => ses[s].at \in Running /\ r.at \in Running \ {"send"}
  BY DEF Local
<1>2. active' = active /\ output' = output /\ wrote' = wrote /\ entered' \in 0 .. MaxLines
  BY DEF Local, capture
<1>3. ses'[s] = r /\ \A d \in Sessions : d # s => ses'[d] = ses[d]
  BY <1>1 DEF SesTypes
<1>4. SesTypes'
  BY <1>1, <1>2 DEF SesTypes
<1>5. TextsLeft'
  BY <1>1, <1>3 DEF TextsLeft
<1>6. CaptureOn'
  <2>1. "web" \in Sessions /\ "ready" \notin Running
    BY DEF Sessions, Running, Busy
  <2>2. CASE s = "web"
    BY <1>1, <1>2, <1>3, <2>1, <2>2 DEF CaptureOn
  <2>3. CASE s # "web"
    BY <1>2, <1>3, <2>1, <2>3 DEF CaptureOn
  <2> QED BY <2>2, <2>3
<1>7. Captured'
  BY <1>2 DEF Captured, Own
<1> QED BY <1>4, <1>5, <1>6, <1>7

\* Steps of telnet sessions and lines that are entered there or at the UART.
LEMMA TerminalActs ==
    ASSUME SesInv, NEW s \in Sessions \ {"web"},
           \/ s \in Telnet /\ (Accept(s) \/ Login(s) \/ HangsUp(s))
           \/ \E l \in CommandLines : ReadLine(s, l)
    PROVE  Local(s) /\ EnvMoves
<1> USE DEF SesInv
<1>0. ses[s] \in SesState /\ ses \in [Sessions -> SesState]
  BY DEF SesTypes
<1>1. CASE s \in Telnet /\ (Accept(s) \/ Login(s) \/ HangsUp(s))
  <2>1. PICK where \in {"login", "leaked", "ready", "closed"} : Goes(s, where)
    BY <1>1 DEF Accept, Login, HangsUp
  <2> DEFINE r == [ses[s] EXCEPT !.at = where]
  <2>2. ses' = [ses EXCEPT ![s] = r] /\ r.at = where /\ r \in SesState
    BY <1>0, <2>1 DEF Goes, SesState
  <2>3. UNCHANGED <<capture, entered, envVars>>
    BY <1>1 DEF Accept, Login, HangsUp
  <2> HIDE DEF r
  <2> QED BY <2>2, <2>3 DEF Local, EnvMoves, SesTypes
<1>2. ASSUME NEW l \in CommandLines, ReadLine(s, l) PROVE Local(s) /\ EnvMoves
  <2>1. PICK where \in {"expand", "exec"} :
          ses' = [ses EXCEPT ![s] = [at |-> where, line |-> l, texts |-> 0]]
    BY <1>2 DEF ReadLine, Enters
  <2> DEFINE r == [at |-> where, line |-> l, texts |-> 0]
  <2>2. r \in SesState /\ r.at = where
    BY DEF SesState, Busy
  <2>3. UNCHANGED <<capture, envVars>> /\ entered' \in 0 .. MaxLines
    BY <1>2, ConsoleAssumption DEF ReadLine, Enters, ConsoleAssumption, SesTypes
  <2> HIDE DEF r
  <2> QED BY <2>1, <2>2, <2>3 DEF Local, EnvMoves, r
<1> QED BY <1>1, <1>2

\* A command goes on to another place, or has done its work.
LEMMA Proceeds ==
    ASSUME SesInv, NEW s \in Sessions, ses[s].at \in Running,
           UNCHANGED <<capture, entered>>,
           \/ \E where \in {"exec", "save", "list", "write"} : Goes(s, where)
           \/ \E n \in 0 .. 2 : Finishes(s, n)
           \/ ses' = ses /\ ses[s].at \notin {"append", "send"}
    PROVE  Local(s)
<1> USE DEF SesInv
<1>0. /\ ses[s] \in SesState /\ ses \in [Sessions -> SesState] /\ Running \subseteq Busy
      /\ entered' \in 0 .. MaxLines /\ UNCHANGED capture
      /\ {"exec", "save", "list", "write"} \subseteq Running \ {"append", "send"}
  BY DEF SesTypes, Running, Busy
<1>1. ASSUME NEW where \in {"exec", "save", "list", "write"}, Goes(s, where) PROVE Local(s)
  <2> DEFINE r == [ses[s] EXCEPT !.at = where]
  <2>1. ses' = [ses EXCEPT ![s] = r] /\ r.at = where /\ r \in SesState
    BY <1>0, <1>1 DEF Goes, SesState
  <2> HIDE DEF r
  <2> QED BY <1>0, <1>1, <2>1 DEF Local
<1>2. ASSUME NEW n \in 0 .. 2, Finishes(s, n) PROVE Local(s)
  <2> DEFINE r == [at |-> "write", texts |-> n,
                   line |-> IF ses[s].line.cmd \in {"exit", "reboot"} THEN ses[s].line ELSE Blank]
  <2>1. ses' = [ses EXCEPT ![s] = r]
    BY <1>2 DEF Finishes
  <2>2. r.at = "write" /\ r \in SesState
    BY <1>0 DEF SesState, Busy
  <2> HIDE DEF r
  <2> QED BY <1>0, <2>1, <2>2 DEF Local
<1>3. CASE ses' = ses /\ ses[s].at \notin {"append", "send"}
  <2>1. ses' = [ses EXCEPT ![s] = ses[s]]
    BY <1>0, <1>3
  <2> QED BY <1>0, <1>3, <2>1 DEF Local
<1> QED BY <1>1, <1>2, <1>3

\* A line that is executed has the name and the value that its command needs.
LEMMA LineIs ==
    ASSUME SesInv, NEW s \in Sessions
    PROVE  /\ Runs(s, "export") => ses[s].line.name \in Proper \cup {Long} /\ ses[s].line.value \in Values
           /\ Runs(s, "unset") => ses[s].line.name \in Names
<1>1. ses[s].line \in CommandLines \cup {Blank}
  BY DEF SesInv, SesTypes, SesState
<1> DEFINE l == ses[s].line
<1>2. CASE l \in [cmd : {"export"}, name : Proper \cup {Long}, value : Values]
  BY <1>2 DEF Runs
<1>3. CASE l \in [cmd : {"unset", "printenv"}, name : Names]
  BY <1>3 DEF Runs
<1>4. CASE l \in [cmd : {"env", "help", "nvs erase", "exit", "reboot"}] \/ l = Blank
  <2>1. l.cmd \in {"env", "help", "nvs erase", "exit", "reboot", "none"}
    <3>1. Blank.cmd = "none"
      BY DEF Blank
    <3>2. l \in [cmd : {"env", "help", "nvs erase", "exit", "reboot"}] =>
            l.cmd \in {"env", "help", "nvs erase", "exit", "reboot"}
      OBVIOUS
    <3> QED BY <1>4, <3>1, <3>2
  <2> QED BY <2>1 DEF Runs
<1> QED BY <1>1, <1>2, <1>3, <1>4 DEF CommandLines

\* Commands at work: what they do to the environment, and that they leave the capture alone.
LEMMA CommandActs ==
    ASSUME SesInv, NEW s \in Sessions,
           \/ Expand(s) \/ Saves(s) \/ Lists(s)
           \/ CmdExport(s) \/ CmdUnset(s) \/ CmdPrintenv(s) \/ CmdEnv(s)
           \/ CmdNvsErase(s) \/ CmdHelp(s) \/ CmdExit(s) \/ CmdReboot(s)
    PROVE  Local(s) /\ EnvMoves
<1>1. CASE Expand(s)
  <2>1. ses[s].at \in Running /\ Goes(s, "exec") /\ UNCHANGED <<capture, entered>>
    BY <1>1 DEF Expand, At, Running, Busy
  <2>2. EnvMoves
    BY <1>1 DEF Expand, EnvLooks, EnvMoves
  <2> QED BY <2>1, <2>2, Proceeds
<1>2. CASE Saves(s)
  <2>1. ses[s].at \in Running /\ ses[s].at \notin {"append", "send"}
    BY <1>2 DEF Saves, At, Running, Busy
  <2>2. EnvMoves
    BY <1>2 DEF Saves, EnvMoves
  <2>3. CASE SaveWrites(s) /\ UNCHANGED <<sessionVars>>
    <3>1. ses' = ses /\ UNCHANGED <<capture, entered>>
      BY <2>3 DEF sessionVars, capture
    <3> QED BY <2>1, <2>2, <3>1, Proceeds
  <2>4. ASSUME NEW n \in 0 .. 2, Finishes(s, n) PROVE Local(s) /\ EnvMoves
    <3>1. UNCHANGED <<capture, entered>>
      BY <2>4 DEF Finishes
    <3> QED BY <2>1, <2>2, <2>4, <3>1, Proceeds
  <2> QED BY <1>2, <2>3, <2>4 DEF Saves
<1>3. CASE Lists(s)
  <2>1. ses[s].at \in Running /\ Finishes(s, 0) /\ UNCHANGED <<capture, entered>>
    BY <1>3 DEF Lists, At, Running, Busy, Finishes
  <2>2. EnvMoves
    BY <1>3 DEF Lists, EnvMoves
  <2> QED BY <2>1, <2>2, Proceeds
<1>4. CASE CmdExport(s) \/ CmdUnset(s)
  <2>1. ses[s].at \in Running
    BY <1>4 DEF CmdExport, CmdUnset, Runs, At, Running, Busy
  <2>2. EnvMoves
    BY <1>4, LineIs DEF CmdExport, CmdUnset, EnvMoves, SetFails, NotFound, EnvLooks
  <2>3. CASE Goes(s, "save") /\ UNCHANGED <<capture, entered>>
    BY <2>1, <2>2, <2>3, Proceeds
  <2>4. CASE Finishes(s, 1)
    <3>1. UNCHANGED <<capture, entered>>
      BY <2>4 DEF Finishes
    <3> QED BY <2>1, <2>2, <2>4, <3>1, Proceeds
  <2> QED BY <1>4, <2>3, <2>4 DEF CmdExport, CmdUnset
<1>5. CASE CmdPrintenv(s)
  <2>1. ses[s].at \in Running /\ (Finishes(s, 1) \/ Finishes(s, 2))
    BY <1>5 DEF CmdPrintenv, Runs, At, Running, Busy
  <2>2. UNCHANGED <<capture, entered>>
    BY <2>1 DEF Finishes
  <2>3. EnvMoves
    BY <1>5 DEF CmdPrintenv, EnvMoves, EnvGet, NotFound, EnvLooks
  <2> QED BY <2>1, <2>2, <2>3, Proceeds
<1>6. CASE CmdEnv(s)
  <2>1. ses[s].at \in Running /\ Goes(s, "list") /\ UNCHANGED <<capture, entered>>
    BY <1>6 DEF CmdEnv, Runs, At, Running, Busy
  <2>2. EnvMoves
    BY <1>6 DEF CmdEnv, EnvMoves
  <2> QED BY <2>1, <2>2, Proceeds
<1>7. CASE CmdNvsErase(s) \/ CmdHelp(s) \/ CmdExit(s) \/ CmdReboot(s)
  <2>1. ses[s].at \in Running /\ (Finishes(s, 1) \/ Finishes(s, 2))
    BY <1>7 DEF CmdNvsErase, CmdHelp, CmdExit, CmdReboot, Runs, At, Running, Busy
  <2>2. UNCHANGED <<capture, entered>>
    BY <2>1 DEF Finishes
  <2>3. EnvMoves
    BY <1>7 DEF CmdNvsErase, CmdHelp, CmdExit, CmdReboot, EnvMoves
  <2> QED BY <2>1, <2>2, <2>3, Proceeds
<1> QED BY <1>1, <1>2, <1>3, <1>4, <1>5, <1>6, <1>7

\* A text goes its way: to the buffer if the capture is on, which it is for the captured
\* command.
LEMMA WriteActs ==
    ASSUME SesInv, NEW s \in Sessions, ShellWrite(s) \/ Send(s)
    PROVE  SesInv' /\ EnvMoves
<1> USE DEF SesInv
<1>0. ses[s] \in SesState /\ ses \in [Sessions -> SesState] /\ ses[s].texts \in 0 .. 2
  BY DEF SesTypes, SesState
<1>1. CASE ShellWrite(s)
  <2>1. /\ ses[s].at = "write" /\ ses[s].texts > 0
        /\ Goes(s, IF active THEN "append" ELSE "send")
        /\ UNCHANGED <<capture, entered, envVars>>
    BY <1>1 DEF ShellWrite, At
  <2> DEFINE r == [ses[s] EXCEPT !.at = IF active THEN "append" ELSE "send"]
  <2>2. /\ ses' = [ses EXCEPT ![s] = r] /\ r.at = IF active THEN "append" ELSE "send"
        /\ r.texts = ses[s].texts
    BY <1>0, <2>1 DEF Goes, SesState
  <2>3. r \in SesState
    BY <1>0 DEF SesState, Busy
  <2>4. s = "web" => ses[s].at \in Running /\ r.at \in Running \ {"send"}
    BY <2>1, <2>2 DEF CaptureOn, Running, Busy
  <2>5. entered' \in 0 .. MaxLines /\ UNCHANGED capture
    BY <2>1 DEF SesTypes
  <2> HIDE DEF r
  <2>6. Local(s)
    BY <2>1, <2>2, <2>3, <2>4, <2>5 DEF Local
  <2> QED BY <2>1, <2>6, LocalStep DEF EnvMoves
<1>2. CASE Send(s)
  <2>1. ses[s].at = "send" /\ Wrote(s) /\ output' = output
    BY <1>2 DEF Send, At
  <2>2. s # "web"
    BY <2>1 DEF CaptureOn
  <2> DEFINE r == [at |-> "write", line |-> ses[s].line, texts |-> ses[s].texts - 1]
  <2>3. /\ ses' = [ses EXCEPT ![s] = r] /\ UNCHANGED <<active, entered, envVars>> /\ wrote' = wrote
    BY <1>0, <2>1, <2>2 DEF Wrote, SesState
  <2>4. ses[s].texts > 0
    BY <2>1 DEF TextsLeft
  <2>5. r \in SesState /\ r.at = "write"
    BY <1>0, <2>4 DEF SesState, Busy
  <2>6. entered' \in 0 .. MaxLines /\ UNCHANGED capture
    BY <2>1, <2>3 DEF SesTypes, capture
  <2> HIDE DEF r
  <2>7. Local(s)
    BY <2>2, <2>3, <2>5, <2>6 DEF Local
  <2> QED BY <2>3, <2>7, LocalStep DEF EnvMoves
<1> QED BY <1>1, <1>2

\* What one more text does to the texts of the captured command.
LEMMA OwnAppend ==
    ASSUME NEW out \in Seq(Sessions), NEW s \in Sessions
    PROVE  /\ IsFiniteSet(Own(out))
           /\ Cardinality(Own(Append(out, s))) =
                IF s = "web" THEN Cardinality(Own(out)) + 1 ELSE Cardinality(Own(out))
<1> DEFINE new == Append(out, s)
<1>1. /\ Len(out) \in Nat /\ Len(new) = Len(out) + 1 /\ new[Len(out) + 1] = s
      /\ \A i \in 1 .. Len(out) : new[i] = out[i]
  OBVIOUS
<1>2. IsFiniteSet(Own(out))
  <2>1. IsFiniteSet(1 .. Len(out))
    BY <1>1, FS_Interval
  <2> QED BY <2>1, FS_Subset DEF Own
<1> HIDE DEF new
<1>3. \A i : i \in 1 .. Len(new) <=> i \in 1 .. Len(out) \/ i = Len(out) + 1
  BY <1>1
<1>4. Len(out) + 1 \notin Own(out)
  BY <1>1 DEF Own
<1>5. CASE s = "web"
  <2>1. Own(new) = Own(out) \cup {Len(out) + 1}
    BY <1>1, <1>3, <1>5 DEF Own
  <2>2. Cardinality(Own(out) \cup {Len(out) + 1}) = Cardinality(Own(out)) + 1
    BY <1>2, <1>4, FS_AddElement
  <2> QED BY <1>2, <1>5, <2>1, <2>2 DEF new
<1>6. CASE s # "web"
  <2>1. Own(new) = Own(out)
    BY <1>1, <1>3, <1>6 DEF Own
  <2> QED BY <1>2, <1>6, <2>1 DEF new
<1> QED BY <1>5, <1>6

\* shell_capture_append: a text of the captured command is counted in the buffer, unless
\* that is full; the text of another session takes room but is not counted.
LEMMA AppendActs ==
    ASSUME SesInv, NEW s \in Sessions, CaptureAppend(s)
    PROVE  SesInv' /\ EnvMoves
<1> USE DEF SesInv
<1>0. /\ ses[s] \in SesState /\ ses \in [Sessions -> SesState] /\ ses[s].texts \in 0 .. 2
      /\ "web" \in Sessions /\ OutMax \in Nat
  BY ConsoleAssumption DEF SesTypes, SesState, Sessions, ConsoleAssumption
<1> DEFINE r == [at |-> "write", line |-> ses[s].line, texts |-> ses[s].texts - 1]
<1>1. /\ ses[s].at = "append" /\ ses' = [ses EXCEPT ![s] = r]
      /\ wrote' = IF s = "web" THEN wrote + 1 ELSE wrote
      /\ UNCHANGED <<active, entered, envVars>>
      /\ output' = IF active /\ Len(output) < OutMax THEN Append(output, s) ELSE output
  BY <1>0 DEF CaptureAppend, At, Wrote, SesState
<1>2. r \in SesState /\ r.at = "write"
  <2>1. ses[s].texts > 0
    BY <1>1 DEF TextsLeft
  <2> QED BY <1>0, <2>1 DEF SesState, Busy
<1> HIDE DEF r
<1>3. ses'[s] = r /\ \A d \in Sessions : d # s => ses'[d] = ses[d]
  BY <1>0, <1>1
<1>4. "append" \in Running /\ "write" \in Running /\ "ready" \notin Running
  BY DEF Running, Busy
<1>5. /\ output' \in Seq(Sessions) /\ Len(output') <= OutMax
      /\ output' = output \/ (output' = Append(output, s) /\ active /\ Len(output) < OutMax)
  BY <1>0, <1>1 DEF SesTypes
<1>6. SesTypes'
  BY <1>0, <1>1, <1>2, <1>5 DEF SesTypes
<1>7. TextsLeft'
  BY <1>2, <1>3 DEF TextsLeft
<1>8. CaptureOn'
  <2>1. CASE s = "web"
    BY <1>0, <1>1, <1>2, <1>3, <1>4, <2>1 DEF CaptureOn
  <2>2. CASE s # "web"
    <3>1. ses'["web"] = ses["web"]
      BY <1>0, <1>3, <2>2
    <3>2. ses["web"].at = "ready" => ~active
      BY <1>4 DEF CaptureOn
    <3> QED BY <1>1, <1>5, <2>2, <3>1, <3>2 DEF CaptureOn
  <2> QED BY <2>1, <2>2
<1>9. Captured'
  <2>1. CASE output' = output
    <3>1. CASE s = "web"
      <4>1. active
        BY <1>1, <1>4, <3>1 DEF CaptureOn
      <4>2. Len(output) = OutMax \/ output' = Append(output, s)
        BY <1>0, <1>1, <4>1 DEF SesTypes
      <4>3. output # Append(output, s)
        <5>1. Len(Append(output, s)) # Len(output)
          BY DEF SesTypes
        <5> QED BY <5>1
      <4> QED BY <2>1, <4>2, <4>3 DEF Captured
    <3>2. CASE s # "web"
      BY <1>1, <2>1, <3>2 DEF Captured
    <3> QED BY <3>1, <3>2
  <2>2. CASE output' = Append(output, s) /\ Len(output) < OutMax
    <3>1. Cardinality(Own(output)) = wrote
      BY <1>0, <2>2 DEF Captured, SesTypes
    <3>2. Cardinality(Own(output')) = IF s = "web" THEN wrote + 1 ELSE wrote
      BY <2>2, <3>1, OwnAppend DEF SesTypes
    <3> QED BY <1>1, <3>2 DEF Captured
  <2> QED BY <1>5, <2>1, <2>2
<1> QED BY <1>1, <1>6, <1>7, <1>8, <1>9 DEF EnvMoves

\* The texts of an empty buffer.
LEMMA OwnEmpty == Cardinality(Own(<<>>)) = 0
<1>1. Own(<<>>) = {}
  BY DEF Own
<1> QED BY <1>1, FS_EmptySet

\* handle_command begins and ends: it brings its buffer, and takes it away again.
LEMMA HandlerActs ==
    ASSUME SesInv, Answers \/ \E l \in CommandLines : HandleCommand(l)
    PROVE  SesInv' /\ EnvMoves
<1> USE DEF SesInv
<1>0. /\ "web" \in Sessions /\ ses \in [Sessions -> SesState] /\ ses["web"] \in SesState
      /\ OutMax \in Nat
  BY ConsoleAssumption DEF Sessions, SesTypes, ConsoleAssumption
<1>1. /\ output' = <<>> /\ wrote' = 0 /\ UNCHANGED envVars /\ entered' \in 0 .. MaxLines
      /\ \E r \in SesState : /\ ses' = [ses EXCEPT !["web"] = r]
                             /\ \/ r.at = "ready" /\ active' = FALSE
                                \/ r.at \in {"expand", "exec"} /\ active' = TRUE
  <2>1. CASE Answers
    <3> DEFINE r == [ses["web"] EXCEPT !.at = "ready"]
    <3>1. ses' = [ses EXCEPT !["web"] = r] /\ r \in SesState /\ r.at = "ready"
      BY <1>0, <2>1 DEF Answers, Goes, SesState
    <3>2. ses["web"].at = "answer" /\ UNCHANGED <<active, entered, envVars>>
          /\ output' = <<>> /\ wrote' = 0
      BY <2>1 DEF Answers, At
    <3>3. active = FALSE /\ entered' \in 0 .. MaxLines
      BY <3>2 DEF CaptureOn, Running, SesTypes
    <3> HIDE DEF r
    <3> QED BY <3>1, <3>2, <3>3
  <2>2. ASSUME NEW l \in CommandLines, HandleCommand(l)
        PROVE  /\ output' = <<>> /\ wrote' = 0 /\ UNCHANGED envVars /\ entered' \in 0 .. MaxLines
               /\ \E r \in SesState : /\ ses' = [ses EXCEPT !["web"] = r]
                                      /\ r.at \in {"expand", "exec"} /\ active' = TRUE
    <3>1. PICK where \in {"expand", "exec"} :
            ses' = [ses EXCEPT !["web"] = [at |-> where, line |-> l, texts |-> 0]]
      BY <2>2 DEF HandleCommand, Enters
    <3> DEFINE r == [at |-> where, line |-> l, texts |-> 0]
    <3>2. r \in SesState /\ r.at = where
      BY DEF SesState, Busy
    <3>3. output' = <<>> /\ wrote' = 0 /\ active' = TRUE /\ UNCHANGED envVars
      BY <2>2 DEF HandleCommand
    <3>4. entered' \in 0 .. MaxLines
      BY <2>2, ConsoleAssumption DEF HandleCommand, Enters, SesTypes, ConsoleAssumption
    <3> QED BY <3>1, <3>2, <3>3, <3>4
  <2> QED BY <2>1, <2>2
<1>2. PICK r \in SesState : /\ ses' = [ses EXCEPT !["web"] = r]
                            /\ \/ r.at = "ready" /\ active' = FALSE
                               \/ r.at \in {"expand", "exec"} /\ active' = TRUE
  BY <1>1
<1>3. ses'["web"] = r /\ \A d \in Sessions : d # "web" => ses'[d] = ses[d]
  BY <1>0, <1>2
<1>4. SesTypes'
  <2>1. ses' \in [Sessions -> SesState]
    BY <1>0, <1>2
  <2>2. active' \in BOOLEAN
    BY <1>2
  <2>3. wrote' \in Nat /\ entered' \in 0 .. MaxLines
    BY <1>1
  <2>4. output' \in Seq(Sessions) /\ Len(output') <= OutMax
    <3>1. <<>> \in Seq(Sessions) /\ Len(<<>>) = 0 /\ OutMax \in Nat
      BY ConsoleAssumption DEF ConsoleAssumption
    <3> QED BY <1>1, <3>1
  <2> QED BY <2>1, <2>2, <2>3, <2>4 DEF SesTypes
<1>5. TextsLeft'
  BY <1>2, <1>3 DEF TextsLeft
<1>6. CaptureOn'
  BY <1>1, <1>2, <1>3 DEF CaptureOn, Running, Busy
<1>7. Captured'
  BY <1>1, OwnEmpty DEF Captured
<1> QED BY <1>1, <1>4, <1>5, <1>6, <1>7 DEF EnvMoves

\* shell_execute returns; with the captured command the capture ends.
LEMMA ReturnActs ==
    ASSUME SesInv, NEW s \in Sessions, ExecReturns(s)
    PROVE  SesInv' /\ EnvMoves
<1> USE DEF SesInv
<1>0. /\ "web" \in Sessions /\ ses \in [Sessions -> SesState]
      /\ \A where \in {"answer", "closed", "ready"} :
           Session(where) \in SesState /\ Session(where).at = where
  BY DEF Sessions, SesTypes, Session, SesState, Busy
<1>1. PICK where \in {"answer", "closed", "ready"} :
         /\ ses' = [ses EXCEPT ![s] = Session(where)] /\ (s = "web" => where = "answer")
  BY DEF ExecReturns
<1>2. /\ active' = (IF s = "web" THEN FALSE ELSE active)
      /\ output' = output /\ wrote' = wrote /\ entered' = entered /\ UNCHANGED envVars
  BY DEF ExecReturns
<1>3. ses'[s] = Session(where) /\ \A d \in Sessions : d # s => ses'[d] = ses[d]
  BY <1>0, <1>1
<1>4. SesTypes'
  <2>1. ses' \in [Sessions -> SesState]
    BY <1>0, <1>1
  <2>2. active' \in BOOLEAN
    BY <1>2 DEF SesTypes
  <2> QED BY <1>2, <2>1, <2>2 DEF SesTypes
<1>5. TextsLeft'
  BY <1>0, <1>3 DEF TextsLeft
<1>6. CaptureOn'
  <2>1. CASE s = "web"
    BY <1>0, <1>1, <1>2, <1>3, <2>1 DEF CaptureOn, Running
  <2>2. CASE s # "web"
    BY <1>0, <1>2, <1>3, <2>2 DEF CaptureOn
  <2> QED BY <2>1, <2>2
<1>7. Captured'
  BY <1>2 DEF Captured
<1> QED BY <1>2, <1>4, <1>5, <1>6, <1>7 DEF EnvMoves

\* A system that has just started.
LEMMA Booted ==
    /\ Boot \in [Sessions -> SesState] /\ Boot["web"] = Session("ready")
    /\ \A s \in Sessions : Boot[s].at \in {"ready", "closed"}
<1>1. \A where \in {"closed", "ready"} : Session(where) \in SesState /\ Session(where).at = where
  BY DEF Session, SesState, Busy
<1> QED BY <1>1, ConsoleAssumption DEF Boot, Sessions, ConsoleAssumption

\* A reset ends every session and the capture; of the environment the flash remains.
LEMMA RestartActs ==
    ASSUME SesInv, Restarts
    PROVE  SesInv' /\ EnvMoves
<1>1. /\ ses' = Boot /\ active' = FALSE /\ output' = <<>> /\ wrote' = 0 /\ entered' = entered
      /\ EnvMoves
  BY DEF Restarts, EnvMoves
<1>2. Session("ready").at = "ready" /\ OutMax \in Nat
  BY ConsoleAssumption DEF Session, ConsoleAssumption
<1>3. SesTypes'
  <2>1. output' \in Seq(Sessions) /\ Len(output') <= OutMax
    BY <1>1, <1>2
  <2> QED BY <1>1, <1>2, <2>1, Booted DEF SesInv, SesTypes
<1>4. TextsLeft'
  BY <1>1, Booted DEF TextsLeft
<1>5. CaptureOn'
  BY <1>1, <1>2, Booted DEF CaptureOn, Running, Busy
<1>6. Captured'
  BY <1>1, OwnEmpty DEF Captured
<1> QED BY <1>1, <1>3, <1>4, <1>5, <1>6 DEF SesInv

\* Every step of the console keeps the sessions in order and does to the environment what
\* one of its functions does.
LEMMA ConsoleStep == SesInv /\ [ConsoleNext]_consoleVars => SesInv' /\ EnvMoves
<1> SUFFICES ASSUME SesInv, [ConsoleNext]_consoleVars PROVE SesInv' /\ EnvMoves
  OBVIOUS
<1>1. ASSUME NEW s \in Telnet, Accept(s) \/ Login(s) \/ HangsUp(s) PROVE SesInv' /\ EnvMoves
  <2>1. s \in Sessions \ {"web"}
    BY ConsoleAssumption DEF Sessions, ConsoleAssumption
  <2> QED BY <1>1, <2>1, TerminalActs, LocalStep
<1>2. ASSUME NEW s \in Sessions \ {"web"}, NEW l \in CommandLines, ReadLine(s, l)
      PROVE  SesInv' /\ EnvMoves
  BY <1>2, TerminalActs, LocalStep
<1>3. ASSUME NEW s \in Sessions, Executes(s) PROVE SesInv' /\ EnvMoves
  <2>1. CASE \/ Expand(s) \/ Saves(s) \/ Lists(s)
             \/ CmdExport(s) \/ CmdUnset(s) \/ CmdPrintenv(s) \/ CmdEnv(s)
             \/ CmdNvsErase(s) \/ CmdHelp(s) \/ CmdExit(s) \/ CmdReboot(s)
    BY <2>1, CommandActs, LocalStep
  <2>2. CASE ShellWrite(s) \/ CaptureAppend(s) \/ Send(s) \/ ExecReturns(s)
    BY <2>2, WriteActs, AppendActs, ReturnActs
  <2>3. CASE Reboots(s)
    BY <2>3, RestartActs DEF Reboots
  <2> QED BY <1>3, <2>1, <2>2, <2>3 DEF Executes
<1>4. CASE Crash
  BY <1>4, RestartActs DEF Crash
<1>5. CASE UNCHANGED consoleVars
  BY <1>5 DEF consoleVars, SesInv, SesTypes, TextsLeft, CaptureOn, Captured, Own, EnvMoves
<1> QED BY <1>1, <1>2, <1>3, <1>4, <1>5, HandlerActs DEF ConsoleNext

\* The state after boot.
LEMMA ConsoleStarts == ConsoleInit => SesInv /\ EnvInv /\ Store!Start
<1> SUFFICES ASSUME ConsoleInit PROVE SesInv
  BY EnvStarts DEF ConsoleInit
<1>1. ses = Boot /\ active = FALSE /\ output = <<>> /\ wrote = 0 /\ entered = 0
  BY DEF ConsoleInit
<1>2. Session("ready").at = "ready" /\ OutMax \in Nat /\ MaxLines \in Nat
  BY ConsoleAssumption DEF Session, ConsoleAssumption
<1>3. SesTypes
  <2>1. output \in Seq(Sessions) /\ Len(output) <= OutMax
    BY <1>1, <1>2
  <2>2. ses \in [Sessions -> SesState]
    BY <1>1, Booted
  <2>3. active \in BOOLEAN
    BY <1>1
  <2>4. wrote \in Nat /\ entered \in 0 .. MaxLines
    BY <1>1, <1>2
  <2> QED BY <2>1, <2>2, <2>3, <2>4 DEF SesTypes
<1>4. TextsLeft
  BY <1>1, Booted DEF TextsLeft
<1>5. CaptureOn
  BY <1>1, <1>2, Booted DEF CaptureOn, Running, Busy
<1>6. Captured
  BY <1>1, OwnEmpty DEF Captured
<1> QED BY <1>3, <1>4, <1>5, <1>6 DEF SesInv

\* The two invariants hold in every state.
LEMMA ConsoleInductive == ConsoleSpec => [](SesInv /\ EnvInv)
<1>1. SesInv /\ EnvInv /\ [ConsoleNext]_consoleVars => SesInv' /\ EnvInv'
  BY ConsoleStep, EnvStep
<1> QED BY <1>1, ConsoleStarts, PTL DEF ConsoleSpec

\* For any number of sessions, lines, slots and any size of the buffer: the answer of the
\* web portal has every text that its command wrote, unless the buffer is full.
THEOREM CapturesStayComplete == ConsoleSpec => []CaptureComplete
<1>1. SesInv /\ EnvInv => CaptureComplete
  BY DEF SesInv, EnvInv, CaptureComplete, TypeOK, SesTypes, SesState, Captured, Own
<1> QED BY <1>1, ConsoleInductive, PTL

\* For any number of sessions: no session writes to the buffer of handle_command unless
\* the captured command is running, because the capture is on exactly from the start of
\* that command to its return.
THEOREM OutputStaysOwned == ConsoleSpec => OutputOwned
<1> DEFINE Owned == output' # output /\ ses'["web"] = ses["web"] => ses["web"].at \in Busy \ {"answer"}
<1>1. SesInv /\ [ConsoleNext]_consoleVars => [Owned]_consoleVars
  <2> SUFFICES ASSUME SesInv, ConsoleNext, output' # output, ses'["web"] = ses["web"],
                      ses["web"].at \notin Busy \ {"answer"}
               PROVE  FALSE
    OBVIOUS
  <2>a. ~active
    BY DEF SesInv, CaptureOn, Running
  <2>0. /\ "web" \in Sessions /\ ses \in [Sessions -> SesState]
        /\ \A s \in Telnet : s \in Sessions
    BY DEF SesInv, SesTypes, Sessions
  <2>1. \A s \in Sessions : ~CaptureAppend(s)
    BY <2>a DEF CaptureAppend
  <2>2. ~Restarts
    <3>1. ASSUME Restarts PROVE FALSE
      <4>1. ses'["web"] = Session("ready") /\ output' = <<>>
        BY <3>1, Booted DEF Restarts
      <4>2. output = <<>>
        BY <4>1 DEF SesInv, CaptureOn, Session
      <4> QED BY <4>1, <4>2
    <3> QED BY <3>1
  <2>3. ~Answers
    BY <2>0 DEF Answers, At, Goes, SesState
  <2>4. \A l \in CommandLines : ~HandleCommand(l)
    BY <2>0 DEF HandleCommand, Enters, At
  <2>5. \A s \in Telnet : ~(Accept(s) \/ Login(s) \/ HangsUp(s))
    BY DEF Accept, Login, HangsUp, capture
  <2>6. \A s \in Sessions, l \in CommandLines : ~ReadLine(s, l)
    BY DEF ReadLine, capture
  <2>7. \A s \in Sessions : ~Executes(s)
    <3> SUFFICES ASSUME NEW s \in Sessions, Executes(s) PROVE FALSE
      OBVIOUS
    <3>1. ~(ShellWrite(s) \/ Send(s) \/ ExecReturns(s))
      BY DEF ShellWrite, Send, ExecReturns, capture
    <3>2. ~Reboots(s)
      BY <2>2 DEF Reboots
    <3>3. \/ Expand(s) \/ Saves(s) \/ Lists(s)
          \/ CmdExport(s) \/ CmdUnset(s) \/ CmdPrintenv(s) \/ CmdEnv(s)
          \/ CmdNvsErase(s) \/ CmdHelp(s) \/ CmdExit(s) \/ CmdReboot(s)
      BY <2>1, <3>1, <3>2 DEF Executes
    <3> QED BY <3>3, CommandActs DEF Local, capture
  <2> QED BY <2>2, <2>3, <2>4, <2>5, <2>6, <2>7 DEF ConsoleNext, Crash
<1> QED BY <1>1, ConsoleInductive, PTL DEF ConsoleSpec, OutputOwned

\* For any number of sessions, slots, names and values: the table, the blob that is packed
\* from it, and the two calls that save it, implement the store of EnvStore, resets and
\* the erasure of flash at any moment included.
THEOREM EnvironmentIsStore == ConsoleSpec => EnvImplementsStore
<1>1. SesInv /\ EnvInv /\ [ConsoleNext]_consoleVars =>
        [Store!Change \/ Store!Save \/ Store!Reset \/ Store!Erase]_(Store!storeVars)
  BY ConsoleStep, EnvStep DEF StoreMoves
<1> QED BY <1>1, ConsoleStarts, ConsoleInductive, PTL DEF ConsoleSpec, EnvImplementsStore, Store!StoreSpec
=============================================================================
