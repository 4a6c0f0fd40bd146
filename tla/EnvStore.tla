------------------------------ MODULE EnvStore ------------------------------
(***************************************************************************)
(* What the environment promises to its users: variables in memory, a copy *)
(* of all of them in flash that is replaced as a whole, and one change at  *)
(* a time.  A reset brings back the copy; only a change that is still      *)
(* under way when it strikes may be lost or kept, and never in part.       *)
(*                                                                         *)
(* The command nvs erase ends the promise: the copy is gone, and nothing   *)
(* is saved any more until the next start.                                 *)
(***************************************************************************)
CONSTANTS
    Proper,     \* names the store tells apart
    Values,
    Unset       \* what an unset variable has for a value

VARIABLES
    mem, saved, \* variables in memory and in flash
    pending,    \* a change is not saved yet
    attached    \* changes can be saved

storeVars == <<mem, saved, pending, attached>>

Empty == [n \in Proper |-> Unset]

Start == mem = Empty /\ saved = Empty /\ pending = FALSE /\ attached = TRUE

\* A change of one variable, or of none when the name is no proper one.
Change ==
    /\ ~pending /\ pending' = TRUE
    /\ \/ mem' = mem
       \/ \E n \in Proper, v \in Values \cup {Unset} : mem' = [mem EXCEPT ![n] = v]
    /\ UNCHANGED <<saved, attached>>

Save ==
    /\ pending /\ pending' = FALSE
    /\ saved' = IF attached THEN mem ELSE saved
    /\ UNCHANGED <<mem, attached>>

Reset ==
    /\ mem' \in {saved} \cup {m \in {mem} : pending /\ attached}
    /\ saved' = mem'
    /\ pending' = FALSE /\ attached' = TRUE

Erase == saved' = Empty /\ attached' = FALSE /\ UNCHANGED <<mem, pending>>

StoreSpec == Start /\ [][Change \/ Save \/ Reset \/ Erase]_storeVars
=============================================================================
