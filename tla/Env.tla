-------------------------------- MODULE Env --------------------------------
(***************************************************************************)
(* os_env.c: the table of environment variables, its mutex and its copy in *)
(* flash.  The actions are those of a caller s; module Console says when a *)
(* shell session takes them.                                               *)
(*                                                                         *)
(* Nobody looks at the table without the mutex, so that what a call does   *)
(* to it between taking and giving the mutex is one step; the two calls of *)
(* save_locked are steps of their own, since a reset can come between.     *)
(* A call of the NVS library with a handle that is open succeeds.          *)
(***************************************************************************)
EXTENDS Integers, Sequences, FiniteSets

CONSTANTS
    Slots,          \* OS_ENV_MAX_VARS
    Proper,         \* names of less than OS_ENV_NAME_LEN characters
    Long, Begin,    \* a longer name, and its first OS_ENV_NAME_LEN - 1 characters
    Values,
    Nobody          \* no caller

Unset == "unset"

ASSUME EnvAssumption ==
    /\ Slots \in Nat \ {0}
    /\ Long \notin Proper \cup {Begin} /\ Begin \notin Proper
    /\ Unset \notin Proper \cup Values \cup {Begin}

Names == Proper \cup {Long, Begin}

Unused == [name |-> Unset, value |-> Unset]     \* an entry with used = false

VARIABLES
    entries,    \* s_env.entries
    envLock,    \* s_env.lock: who has it, and for what
    flash,      \* the committed blob
    draft,      \* at most one blob: what is written and not committed
    attached    \* s_env.nvs is an open handle

envVars == <<entries, envLock, flash, draft, attached>>
nvs     == <<flash, draft, attached>>

Free    == [by |-> Nobody, for |-> "none"]

\* load_locked
Loaded(blob) == [i \in 1 .. Slots |-> IF i <= Len(blob) THEN blob[i] ELSE Unused]

\* os_env_init on a device whose flash is empty
EnvInit ==
    /\ entries = Loaded(<<>>) /\ envLock = Free
    /\ flash = <<>> /\ draft = {} /\ attached = TRUE

\* Names are stored cut off, and compared in full.
Stored(n) == IF n = Long THEN Begin ELSE n

\* find_slot_locked and find_free_slot_locked
Holds(n) == {i \in 1 .. Slots : entries[i].name = n}
IsFindSlot(i, n) == i \in Holds(n) /\ \A j \in Holds(n) : i <= j
IsFreeSlot(i)    == IsFindSlot(i, Unset)

IsSlotFor(i, n) == IsFindSlot(i, n) \/ (Holds(n) = {} /\ IsFreeSlot(i))

\* The mutex is taken and the table changed; what follows is save_locked.
Changes(s, table) ==
    /\ envLock = Free /\ envLock' = [by |-> s, for |-> "write"]
    /\ entries' = table
    /\ UNCHANGED nvs

EnvSet(s, n, v) ==
    \E i \in 1 .. Slots :
        /\ IsSlotFor(i, n)
        /\ Changes(s, [entries EXCEPT ![i] = [name |-> Stored(n), value |-> v]])

EnvUnset(s, n) ==
    \E i \in 1 .. Slots : IsFindSlot(i, n) /\ Changes(s, [entries EXCEPT ![i] = Unused])

\* Calls that only look, or find nothing to change.
EnvLooks    == envLock = Free /\ UNCHANGED envVars
SetFails(n) == Holds(n) = {} /\ Holds(Unset) = {} /\ EnvLooks

\* Mutant: the early return forgets the mutex.
NotFound_KeepsLock(n) ==
    /\ Holds(n) = {} /\ envLock = Free
    /\ envLock' = [envLock EXCEPT !.for = "list"] /\ UNCHANGED <<entries, nvs>>

NotFound(n) == Holds(n) = {} /\ EnvLooks
EnvGet(n)   == Holds(n) # {} /\ EnvLooks

\* Mutant: the table is copied as it is, and the loops that read the copy end early.
Blob_WithHoles == SubSeq(entries, 1, Cardinality({i \in 1 .. Slots : entries[i] # Unused}))

\* The loop of save_locked: of the first n entries those in use, one after the other.
Packed[n \in 0 .. Slots] ==
    IF n = 0 THEN <<>>
    ELSE IF entries[n] = Unused THEN Packed[n - 1] ELSE Append(Packed[n - 1], entries[n])

Blob == Packed[Slots]

SaveWrites(s) ==
    /\ envLock = [by |-> s, for |-> "write"]
    /\ envLock' = [envLock EXCEPT !.for = "commit"]
    /\ draft' = IF attached THEN {Blob} ELSE draft
    /\ UNCHANGED <<entries, flash, attached>>

SaveCommits(s) ==
    /\ envLock = [by |-> s, for |-> "commit"] /\ envLock' = Free
    /\ flash' \in IF draft # {} THEN draft ELSE {flash}
    /\ draft' = {}
    /\ UNCHANGED <<entries, attached>>

\* os_env_list sends every entry with the mutex in its hand.
ListBegins(s) ==
    /\ envLock = Free /\ envLock' = [by |-> s, for |-> "list"]
    /\ UNCHANGED <<entries, nvs>>

ListEnds(s) ==
    /\ envLock = [by |-> s, for |-> "list"] /\ envLock' = Free
    /\ UNCHANGED <<entries, nvs>>

\* nvs_flash_erase closes the handles of all users of the partition.
NvsErase ==
    /\ flash' = <<>> /\ draft' = {} /\ attached' = FALSE
    /\ UNCHANGED <<entries, envLock>>

\* A reset, in which a blob that is written may be found or not, and os_env_init.
EnvRestarts ==
    /\ flash' \in {flash} \cup draft
    /\ draft' = {} /\ attached' = TRUE
    /\ entries' = Loaded(flash') /\ envLock' = Free

\* An entry in use
Entries == [name : Proper \cup {Begin}, value : Values]

\* Every slot in use has a name and a value, and no proper name has two.
EnvOK ==
    /\ entries \in [1 .. Slots -> Entries \cup {Unused}]
    /\ \A n \in Proper : \A i, j \in Holds(n) : i = j

-----------------------------------------------------------------------------
(* The promise *)

ValueIn(table, n) ==
    LET at == {i \in DOMAIN table : table[i].name = n}
    IN  IF at = {} THEN Unset ELSE table[CHOOSE i \in at : \A j \in at : i <= j].value

Store == INSTANCE EnvStore WITH
    mem     <- [n \in Proper |-> ValueIn(entries, n)],
    saved   <- [n \in Proper |-> ValueIn(flash, n)],
    pending <- envLock.for \in {"write", "commit"}

\* The slots, the compacted blob and the two steps of a save implement the store of
\* EnvStore: whatever sessions set, unset, list and erase at the same time, and
\* wherever a reset strikes, a variable has the value it was last given or, after a
\* reset, the last one saved.
EnvImplementsStore == Store!StoreSpec
=============================================================================
