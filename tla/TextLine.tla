------------------------------ MODULE TextLine ------------------------------
(***************************************************************************)
(* What a line editor with a history promises: a text with a cursor in it, *)
(* the lines entered so far, of which the last Depth are kept, and a place *)
(* in them while the user walks through the history.                       *)
(*                                                                         *)
(* LineEditor shows that shell_readline and the history ring of os_shell.c *)
(* implement this with a byte array, memmove and modular indices.          *)
(***************************************************************************)
EXTENDS Integers, Sequences, SequencesExt

CONSTANTS
    Text,       \* printable characters
    MaxLen,     \* characters a line can have
    Depth       \* lines the history keeps

VARIABLES
    text,       \* the line being edited
    cur,        \* characters left of the cursor
    past,       \* the history, oldest line first
    at,         \* the line of the history on display, 0 for none
    answer      \* what the last call returned: a line, or None while editing

textVars == <<text, cur, past, at, answer>>

None == <<"none">>
Eof  == <<"eof">>

Start ==
    /\ text = <<>> /\ cur = 0
    /\ past = <<>> /\ at = 0
    /\ answer = None

Editing == answer = None

Becomes(t, c) == text' = t /\ cur' = c /\ UNCHANGED <<past, at, answer>>

Type(c) ==
    /\ Editing /\ Len(text) < MaxLen
    /\ Becomes(InsertAt(text, cur + 1, c), cur + 1)

EraseLeft  == Editing /\ cur > 0 /\ Becomes(RemoveAt(text, cur), cur - 1)
EraseRight == Editing /\ cur < Len(text) /\ Becomes(RemoveAt(text, cur + 1), cur)

Move  == Editing /\ \E c \in {0, Len(text), cur - 1, cur + 1} :
                        c \in 0 .. Len(text) /\ Becomes(text, c)
Clear == Editing /\ Becomes(<<>>, 0)

Shows(i) ==
    /\ at' = i
    /\ text' = IF i = 0 THEN <<>> ELSE past[i]
    /\ cur' = Len(text')
    /\ UNCHANGED <<past, answer>>

\* Up shows a line of the history.  Which one is left open: os_shell.c and its comments
\* disagree about it.  Down shows the next newer line, and nothing after the newest.
Up   == Editing /\ \E i \in 1 .. Len(past) : Shows(i)
Down == Editing /\ at # 0 /\ Shows(IF at < Len(past) THEN at + 1 ELSE 0)

\* The last Depth lines.
Kept(s) == IF Len(s) > Depth THEN Tail(s) ELSE s

\* A line is entered; it joins the history unless it is empty or repeats the last one.
Enter ==
    /\ Editing
    /\ answer' = text
    /\ past' = IF text = <<>> \/ (past # <<>> /\ Last(past) = text)
               THEN past ELSE Kept(Append(past, text))
    /\ at' = IF text = <<>> THEN at ELSE 0
    /\ text' = <<>> /\ cur' = 0

\* The call ends without a line.
GiveUp ==
    /\ Editing
    /\ answer' = Eof
    /\ text' = <<>> /\ cur' = 0
    /\ UNCHANGED <<past, at>>

\* The next call.
Again == ~Editing /\ answer' = None /\ UNCHANGED <<text, cur, past, at>>

Edit ==
    \/ \E c \in Text : Type(c)
    \/ EraseLeft \/ EraseRight \/ Move \/ Clear \/ Up \/ Down
    \/ Enter \/ GiveUp \/ Again

TextSpec == Start /\ [][Edit]_textVars
=============================================================================
