----------------------------- MODULE LineEditor -----------------------------
(***************************************************************************)
(* shell_readline and the history ring of os_shell.c, byte by byte: the    *)
(* array buf with len and cursor, the escape sequence state, the history   *)
(* with head, count and nav, and what each call returns.                   *)
(*                                                                         *)
(* Lines of the history are sequences; buf is an array, because what       *)
(* memmove, strncpy and strlen do to its tail is the point.  Of the        *)
(* printable characters only Text is told apart; "[", "A", ... outside of  *)
(* an escape sequence are such characters.  The echo is left out.          *)
(***************************************************************************)
EXTENDS Integers, Sequences, FiniteSets

CONSTANTS
    Text,       \* printable characters, "~" among them
    Size,       \* buf_sz and the size of buf
    Depth       \* SHELL_HISTORY_DEPTH

ASSUME EditorAssumption ==
    /\ Size \in Nat \ {0, 1} /\ Depth \in Nat \ {0}
    /\ {"NUL", "ESC", "["} \cap Text = {}

Cells == 0 .. Size - 1
Lines == UNION {[1 .. n -> Text] : n \in 0 .. Size - 1}

\* Last bytes of escape sequences: 'H' and '1' are the same key, 'F' and '4' too.
Finals == {"A", "B", "C", "D", "H", "F", "3"}

\* Control characters that do not end the call; ^L and ^D in a line only redraw it.
Controls == {"ESC", "BS", "^C", "^U", "^A", "^E", "^L"}

None == <<"none">>
Eof  == <<"eof">>

VARIABLES
    socket,     \* fd >= 0: a telnet session, else the UART
    buf, len, cursor, es,       \* locals of shell_readline
    lines, head, count, nav,    \* history_t
    ret         \* what shell_readline returned; None while it runs

vars == <<socket, buf, len, cursor, es, lines, head, count, nav, ret>>
history == <<lines, head, count, nav>>

Zeroed == [i \in Cells |-> "NUL"]

\* The call and its locals end; the caller may call again.
Returns(r) ==
    /\ ret' = r
    /\ buf' = Zeroed /\ len' = 0 /\ cursor' = 0 /\ es' = "NONE"
    /\ UNCHANGED socket

Init ==
    /\ socket \in BOOLEAN
    /\ buf = Zeroed /\ len = 0 /\ cursor = 0 /\ es = "NONE"
    /\ lines = [i \in 0 .. Depth - 1 |-> <<>>] /\ head = 0 /\ count = 0 /\ nav = -1
    /\ ret = None

-----------------------------------------------------------------------------
(* The C library on buf *)

\* memmove(buf + dst, buf + src, n)
Memmove(dst, src, n) ==
    [i \in Cells |-> IF i \in dst .. dst + n - 1 THEN buf[i - dst + src] ELSE buf[i]]

\* Mutant: memcpy of the characters, without the padding of strncpy.
Strncpy_NoPadding(l) == [i \in Cells |-> IF i < Len(l) THEN l[i + 1] ELSE buf[i]]

\* strncpy(buf, l, buf_sz - 1), which fills up with zeros
Strncpy(l) ==
    [i \in Cells |-> IF i < Len(l) THEN l[i + 1] ELSE IF i < Size - 1 THEN "NUL" ELSE buf[i]]

\* strlen(b)
Strlen(b) == CHOOSE n \in Cells : b[n] = "NUL" /\ \A i \in 0 .. n - 1 : b[i] # "NUL"

\* The string that starts at buf when buf[len] is set to 0.
Terminated == [i \in 1 .. len |-> buf[i - 1]]

-----------------------------------------------------------------------------
(* The history *)

\* The slot that nav = i means.
Slot(i) == (head - 1 - i + 2 * Depth) % Depth

HistoryAdd(l) ==
    IF l = <<>> THEN UNCHANGED history
    ELSE /\ nav' = -1
         /\ IF count > 0 /\ lines[Slot(0)] = l THEN UNCHANGED <<lines, head, count>>
            ELSE /\ lines' = [lines EXCEPT ![head] = l]
                 /\ head' = (head + 1) % Depth
                 /\ count' = IF count < Depth THEN count + 1 ELSE count

\* A line that is put into buf.
Recalled(l) ==
    /\ buf' = Strncpy(l)
    /\ len' = Strlen(buf')
    /\ cursor' = len'

Unedited == UNCHANGED <<buf, len, cursor, history>>

HistoryPrev ==
    IF count = 0 THEN Unedited
    ELSE /\ nav' = IF nav < 0 THEN count - 1 ELSE IF nav > 0 THEN nav - 1 ELSE nav
         /\ Recalled(lines[Slot(nav')])
         /\ UNCHANGED <<lines, head, count>>

HistoryNext ==
    IF nav < 0 THEN Unedited
    ELSE /\ nav' = nav - 1
         /\ Recalled(IF nav = 0 THEN <<>> ELSE lines[Slot(nav')])
         /\ UNCHANGED <<lines, head, count>>

-----------------------------------------------------------------------------
(* shell_readline *)

\* Effects of a key on buf, len and cursor.
GoesTo(c) == cursor' = c /\ UNCHANGED <<buf, len, history>>

\* memmove, then buf[len - 1] = 0, for the delete key and for backspace
Closes(dst, n) ==
    /\ buf' = [Memmove(dst, dst + 1, n) EXCEPT ![len - 1] = "NUL"]
    /\ len' = len - 1
    /\ UNCHANGED history

Delete ==
    IF cursor < len THEN Closes(cursor, len - cursor - 1) /\ UNCHANGED cursor ELSE Unedited

Backspace ==
    IF cursor > 0 THEN Closes(cursor - 1, len - cursor) /\ cursor' = cursor - 1 ELSE Unedited

\* A character at the cursor
Inserted(c) ==
    /\ buf' = [Memmove(cursor + 1, cursor, len - cursor) EXCEPT ![cursor] = c]
    /\ len' = len + 1 /\ cursor' = cursor + 1
    /\ UNCHANGED history

\* Mutant: no room is left for the terminating zero.
Insert_FillsBuffer(c) == IF len < Size THEN Inserted(c) ELSE Unedited

Insert(c) == IF len < Size - 1 THEN Inserted(c) ELSE Unedited

CtrlC == buf' = [buf EXCEPT ![0] = "NUL"] /\ len' = 0 /\ cursor' = 0 /\ UNCHANGED history

CtrlU ==
    IF len > 0 THEN buf' = Zeroed /\ len' = 0 /\ cursor' = 0 /\ UNCHANGED history
    ELSE Unedited

\* A byte in state ES_BRACKET; everything but the last bytes of a known sequence is
\* ignored.
Sequence(c) ==
    /\ ret = None /\ es = "BRACKET" /\ es' = "NONE"
    /\ CASE c = "A" -> HistoryPrev
         [] c = "B" -> HistoryNext
         [] c = "C" -> IF cursor < len THEN GoesTo(cursor + 1) ELSE Unedited
         [] c = "D" -> IF cursor > 0 THEN GoesTo(cursor - 1) ELSE Unedited
         [] c = "H" -> GoesTo(0)
         [] c = "F" -> GoesTo(len)
         [] c = "3" -> Delete
         [] OTHER   -> Unedited
    /\ UNCHANGED <<socket, ret>>

Bracket ==
    /\ ret = None /\ es = "ESC" /\ es' = "BRACKET"
    /\ Unedited /\ UNCHANGED <<socket, ret>>

\* A byte in state ES_NONE, or one that is no "[" in state ES_ESC, that does not end
\* the call; ^D in a line with text, ^L and unknown bytes change nothing.
Key(c) ==
    /\ ret = None /\ es # "BRACKET"
    /\ es' = IF c = "ESC" THEN "ESC" ELSE "NONE"
    /\ CASE c \in Text -> Insert(c)
         [] c = "BS" -> Backspace
         [] c = "^C" -> CtrlC
         [] c = "^U" -> CtrlU
         [] c = "^A" -> GoesTo(0)
         [] c = "^E" -> GoesTo(len)
         [] OTHER    -> Unedited
    /\ UNCHANGED <<socket, ret>>

Enter ==
    /\ ret = None /\ es # "BRACKET"
    /\ HistoryAdd(Terminated)
    /\ Returns(Terminated)

\* ^D in an empty line; on a socket also 100 ms without a byte, for shell_getchar
\* returns 0 then as it does for a closed connection.
EndOfFile ==
    /\ ret = None
    /\ socket \/ (es # "BRACKET" /\ len = 0)
    /\ Returns(Eof) /\ UNCHANGED history

\* The caller is done with the line and calls again with the same history.
Again == ret # None /\ ret' = None /\ UNCHANGED <<socket, buf, len, cursor, es, history>>

Next ==
    \/ \E c \in Text \cup Controls : Key(c)
    \/ Bracket
    \/ \E c \in Text \cup Finals : Sequence(c)
    \/ Enter \/ EndOfFile \/ Again

Spec == Init /\ [][Next]_vars

-----------------------------------------------------------------------------
(* Properties *)

\* Between two bytes the cursor is in the text, the text leaves a byte of buf for its
\* terminating zero, what a recall copies is terminated too, and nav is the index of
\* a stored line: no key, in any state of the escape sequence and of the history ring,
\* makes shell_readline leave its array.
EditorSafe ==
    /\ socket \in BOOLEAN /\ es \in {"NONE", "ESC", "BRACKET"}
    /\ ret \in Lines \cup {None, Eof}
    /\ buf \in [Cells -> Text \cup {"NUL"}] /\ buf[Size - 1] = "NUL"
    /\ len \in 0 .. Size - 1 /\ cursor \in 0 .. len
    /\ lines \in [0 .. Depth - 1 -> Lines]
    /\ head \in 0 .. Depth - 1 /\ count \in 0 .. Depth /\ nav \in -1 .. count - 1

\* The ring as a sequence, oldest line first.
Recorded == [i \in 1 .. count |-> lines[(head - count + i - 1 + Depth) % Depth]]

T == INSTANCE TextLine WITH
        MaxLen <- Size - 1, text <- Terminated, cur <- cursor, past <- Recorded,
        at <- IF nav < 0 THEN 0 ELSE count - nav, answer <- ret

\* Array, escape states and ring implement the editor of TextLine: every byte edits
\* the text at the cursor, moves in it, shows a line the history keeps, whole and at its
\* place in the order of entry, enters the line that is on display, or does nothing; what
\* a call returns and what is recorded is the text, whatever the bytes of buf behind it
\* are.  Down goes to the next newer line.  Where Up goes is not claimed: history_prev
\* begins at the oldest line and goes to newer ones, as Down does, while the comments at
\* the keys and ARCHITECTURE.md speak of the previous line.
LineIsText == T!TextSpec
=============================================================================
