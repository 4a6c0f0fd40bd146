------------------------------ MODULE JobBoard ------------------------------
(***************************************************************************)
(* What the command scheduler promises to a shell session: a board of jobs *)
(* with names, a line of the jobs that are due, in the order in which they *)
(* became due, and one command at a time.  A job that does not repeat gets *)
(* into the line once, and no job leaves it but to be run.                 *)
(*                                                                         *)
(* The promise is for jobs that are taken off the board while they neither *)
(* wait in the line nor run, and whose clocks have stopped before they go  *)
(* off once more, and for a board that nobody uses while it is shut; it    *)
(* ends (Overtaken) when that is not so.  A restart begins anew.           *)
(***************************************************************************)
EXTENDS Naturals, Sequences, FiniteSets

CONSTANTS
    Ids,        \* one for each call that puts a job on the board
    Names,
    Size        \* places on the board, and in the line

VARIABLES
    open,       \* jobs are accepted
    listed,     \* the board: id, name and repeat of each job
    used,       \* ids that were given
    waiting,    \* jobs whose clock will go off
    stopped,    \* jobs off the board whose clock has not stopped yet
    due,        \* the line
    running,    \* the job whose command runs, or 0
    done,       \* jobs on the board that have been run and do not repeat
    broken      \* the promise has ended

boardVars == <<open, listed, used, waiting, stopped, due, running, done, broken>>

Start ==
    /\ open = FALSE /\ listed = {} /\ used = {} /\ waiting = {} /\ stopped = {}
    /\ due = <<>> /\ running = 0 /\ done = {} /\ broken = FALSE

InLine(i) == \E k \in 1 .. Len(due) : due[k] = i

Open ==
    /\ ~open /\ open' = TRUE
    /\ UNCHANGED <<listed, used, waiting, stopped, due, running, done, broken>>

Schedule(i, n, rep) ==
    /\ open /\ i \notin used /\ Cardinality(listed) < Size /\ \A j \in listed : j.name # n
    /\ listed' = listed \cup {[id |-> i, name |-> n, repeat |-> rep]}
    /\ used' = used \cup {i}
    /\ waiting' = waiting \cup {i}
    /\ UNCHANGED <<open, stopped, due, running, done, broken>>

\* The clock of job j goes off.  That is lost only if the line is full, which takes a
\* job that repeats.
Expire(j) ==
    /\ j.id \in waiting
    /\ waiting' = IF j.repeat THEN waiting ELSE waiting \ {j.id}
    /\ \/ Len(due) < Size /\ due' = Append(due, j.id)
       \/ Len(due) = Size /\ due' = due /\ \E r \in listed : r.repeat
    /\ UNCHANGED <<open, listed, used, stopped, running, done, broken>>

Run ==
    /\ running = 0 /\ due # <<>>
    /\ running' = Head(due) /\ due' = Tail(due)
    /\ UNCHANGED <<open, listed, used, waiting, stopped, done, broken>>

Finish(j) ==
    /\ j.id = running /\ running' = 0
    /\ done' = IF j.repeat THEN done ELSE done \cup {j.id}
    /\ UNCHANGED <<open, listed, used, waiting, stopped, due, broken>>

\* Jobs gone are taken off the board.
Leave(gone) ==
    LET ids == {j.id : j \in gone} IN
    /\ \A i \in ids : i # running /\ ~InLine(i)
    /\ listed' = listed \ gone
    /\ waiting' = waiting \ ids /\ done' = done \ ids
    /\ stopped' = stopped \cup (waiting \cap ids)
    /\ UNCHANGED <<used, due, running, broken>>

Cancel(n) == UNCHANGED open /\ \E j \in listed : j.name = n /\ Leave({j})
Shutdown  == open' = FALSE /\ Leave(listed)

ClockStops(i) ==
    /\ stopped' = stopped \ {i}
    /\ UNCHANGED <<open, listed, used, waiting, due, running, done, broken>>

\* The promise can end only while jobs are due or running, which may be taken off the
\* board, while a clock of a job that is off the board can still go off, or while the
\* board is shut.
Overtaken ==
    /\ broken' = TRUE
    /\ broken \/ due # <<>> \/ running # 0 \/ stopped # {} \/ ~open

\* Only a board that is shut can lose what it knows.
Restart ==
    /\ ~open
    /\ open' = FALSE /\ listed' = {} /\ used' = {} /\ waiting' = {} /\ stopped' = {}
    /\ due' = <<>> /\ running' = 0 /\ done' = {} /\ broken' = FALSE

Moves ==
    \/ Overtaken
    \/ Open \/ Run
    \/ \E j \in listed : Expire(j) \/ Finish(j)
    \/ \E i \in stopped : ClockStops(i)
    \/ \E i \in Ids, n \in Names, rep \in BOOLEAN : Schedule(i, n, rep)
    \/ \E n \in Names : Cancel(n)
    \/ Shutdown
    \/ Restart

BoardSpec == Start /\ [][Moves]_boardVars
=============================================================================
