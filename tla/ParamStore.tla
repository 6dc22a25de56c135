------------------------------ MODULE ParamStore ------------------------------
(***************************************************************************)
(* The parameter table (src/main/storage.c up to storage_init): its values *)
(* in RAM, the partition they are committed to, and the tasks that set and *)
(* commit them.  The web server and the UART console both do, and no lock  *)
(* is taken: their sorts, erases and writes may interleave, and the power  *)
(* may fail or the chip reset between and within any of them.              *)
(*                                                                         *)
(* A parameter is a number with bounds; the first NumSlots of them are the *)
(* MOVE_TIME_* slots, in which -1 stands for "disabled".  A stored value   *)
(* is one cell with a CRC that notices whatever else stands in the cell.   *)
(***************************************************************************)
EXTENDS Integers

CONSTANTS
  NumParams, NumSlots,  \* NUM_PARAMS, NUM_MOVE_TIMES
  Lo, Hi, Default,      \* bounds and default of a parameter
  Top,                  \* INT32_MAX, the largest value that can be sent
  Inputs,               \* values that are sent, some of them out of bounds
  Tasks,                \* the tasks that set and commit
  MaxSets, MaxCommits,  \* bounds: how many values are set, how many commits
  FlashFails            \* whether flash operations may return an error

ASSUME ParamsAssumption ==
  /\ NumParams \in Nat \ {0} /\ NumSlots \in 0..NumParams
  /\ Lo \in Int /\ Hi \in Int /\ Default \in Lo..Hi
  /\ Top \in Nat /\ Hi <= Top /\ Inputs \subseteq {v \in Int : v <= Top}
  /\ MaxSets \in Nat /\ MaxCommits \in Nat /\ FlashFails \in BOOLEAN

VARIABLES
  ram,     \* parameter_table
  flash,   \* the params partition
  pc,      \* where each task is in comms_handle_post and commit_params
  index,   \* its loop variable in commit_params
  held,    \* what it has read from the table and not yet written
  sets, commits,  \* how much has been done
  known,   \* history: every value a parameter was given, with its default
  alone,   \* history: the task's commit has met no other task so far
  saved    \* history: a commit ended well, met nobody, nothing was set since

tasks   == <<pc, index, held>>
history == <<known, alone, saved>>
vars    == <<ram, flash, tasks, sets, commits, history>>

Params == 1..NumParams
Slots  == 1..NumSlots
Values == (Lo..Hi) \union Inputs
Table  == [Params -> Values]

Erased == [kind |-> "erased", value |-> Default]
Torn   == [kind |-> "torn", value |-> Default]
Stored(v) == [kind |-> "stored", value |-> v]
Cells  == {Erased, Torn} \union {Stored(v) : v \in Values}

-----------------------------------------------------------------------------
\* validate_param.
Clamped(v) == IF v < Lo THEN Lo ELSE IF v > Hi THEN Hi ELSE v

Rank(v) == IF v < 0 THEN Top ELSE v

\* Slip: the slots are written in the order they were typed.
Unsorted(table) == table

\* sort_move_schedule: the table with the slots in order, disabled ones last.
Sorted(table) ==
  LET Orders == {f \in [Slots -> Slots] : \A a, b \in Slots : a # b => f[a] # f[b]}
      order  == CHOOSE f \in Orders :
                  \A a, b \in Slots : a < b => Rank(table[f[a]]) <= Rank(table[f[b]])
  IN  [p \in Params |-> IF p \in Slots THEN table[order[p]] ELSE table[p]]

\* Slip: what is loaded is not validated.
LoadedRaw(cell) == IF cell.kind = "stored" THEN cell.value ELSE Default

\* storage_init for one parameter.
Loaded(cell) == IF cell.kind = "stored" THEN Clamped(cell.value) ELSE Default

Restored == [p \in Params |-> Loaded(flash[p])]

\* Programming flash only clears bits: a value stays itself when it is written
\* twice, and is spoilt when another one is written over it.
Programmed(cell, v) ==
  IF cell \in {Erased, Stored(v)} THEN Stored(v) ELSE Torn

Goto(t, place) == pc' = [pc EXCEPT ![t] = place]

\* A task holds a table (or a value, in the place of its parameter), or nothing.
Nothing == [p \in Params |-> Default]
Hold(t, table) == held' = [held EXCEPT ![t] = table]

\* Nobody else is between its first set and the end of its commit.
Undisturbed(t) == \A u \in Tasks \ {t} : pc[u] = "idle"

\* A task begins: whoever is under way has met somebody now.
Meets(t) ==
  alone' = [u \in Tasks |-> IF u = t THEN Undisturbed(t) ELSE alone[u] /\ pc[u] = "idle"]

\* What a slot may hold, any slot may hold: sorting moves it there.
Learn(p, v) ==
  known' = [q \in Params |->
              IF q = p \/ (p \in Slots /\ q \in Slots) THEN known[q] \union {v}
                                                       ELSE known[q]]

-----------------------------------------------------------------------------
\* set_param_value_t for one key of a request: the value as it comes ...
Set(t, p, v) ==
  /\ pc[t] \in {"idle", "set"} /\ sets < MaxSets
  /\ ram' = [ram EXCEPT ![p] = v]
  /\ index' = [index EXCEPT ![t] = p]
  /\ sets' = sets + 1
  /\ Goto(t, "raw")
  /\ IF pc[t] = "idle" THEN Meets(t) ELSE UNCHANGED alone
  /\ Learn(p, Clamped(v))
  /\ saved' = FALSE
  /\ UNCHANGED <<flash, held, commits>>

\* ... and the validate_param that follows; the same call in commit_params
\* precedes pack_param.
Validate(t) ==
  /\ pc[t] \in {"raw", "validate"}
  /\ ram' = [ram EXCEPT ![index[t]] = Clamped(@)]
  /\ IF pc[t] = "raw"
       THEN Goto(t, "set") /\ index' = [index EXCEPT ![t] = 1]
       ELSE Goto(t, "pack") /\ UNCHANGED index
  /\ UNCHANGED <<flash, held, sets, commits, history>>

\* The first part of factory_reset.
FactoryReset(t) ==
  /\ pc[t] = "idle" /\ commits < MaxCommits
  /\ ram' = [p \in Params |-> Default]
  /\ Goto(t, "set")
  /\ Meets(t)
  /\ saved' = FALSE
  /\ UNCHANGED <<flash, index, held, sets, commits, known>>

\* commit_params.  Its sort copies the slots, then writes them back.
SortCopy(t) ==
  /\ pc[t] = "set" /\ commits < MaxCommits
  /\ commits' = commits + 1
  /\ Hold(t, Sorted(ram))
  /\ Goto(t, "sort")
  /\ UNCHANGED <<ram, flash, index, sets, history>>

SortBack(t) ==
  /\ pc[t] = "sort"
  /\ ram' = [p \in Params |-> IF p \in Slots THEN held[t][p] ELSE ram[p]]
  /\ Goto(t, "erase")
  /\ Hold(t, Nothing)
  /\ UNCHANGED <<flash, index, sets, commits, history>>

ErasePartition(t) ==
  /\ pc[t] = "erase"
  /\ flash' = [p \in Params |-> Erased]
  /\ Goto(t, "validate")
  /\ index' = [index EXCEPT ![t] = 1]
  /\ UNCHANGED <<ram, held, sets, commits, history>>

\* pack_param: the value to be written next is read ...
Pack(t) ==
  /\ pc[t] = "pack"
  /\ Hold(t, [Nothing EXCEPT ![index[t]] = ram[index[t]]])
  /\ Goto(t, "write")
  /\ UNCHANGED <<ram, flash, index, sets, commits, history>>

\* Slip: the last parameter is never written.
IsLastOff(p) == p + 1 >= NumParams

\* Slip: one more is written than there are.
IsLastLate(p) == p > NumParams

IsLast(p) == p >= NumParams

\* ... and written to its place.
WriteParam(t) ==
  /\ pc[t] = "write"
  /\ LET p == index[t]
     IN  /\ flash' = [flash EXCEPT ![p] = Programmed(flash[p], held[t][p])]
         /\ IF IsLast(p)
              THEN /\ Goto(t, "idle")
                   /\ saved' = (alone[t] /\ Undisturbed(t))
                   /\ index' = [index EXCEPT ![t] = 1]
              ELSE /\ Goto(t, "validate")
                   /\ index' = [index EXCEPT ![t] = p + 1]
                   /\ UNCHANGED saved
  /\ Hold(t, Nothing)
  /\ UNCHANGED <<ram, sets, commits, known, alone>>

\* An error of the erase or of a write ends the commit; the request goes on.
FlashError(t) ==
  /\ FlashFails /\ pc[t] \in {"erase", "write"}
  /\ Goto(t, "idle")
  /\ Hold(t, Nothing)
  /\ index' = [index EXCEPT ![t] = 1]
  /\ UNCHANGED <<ram, flash, sets, commits, history>>

\* What a power loss leaves of the cells an erase or a write is working on.
Interrupted ==
  {f \in [Params -> Cells] :
     \A p \in Params :
       \/ f[p] = flash[p]
       \/ (\E t \in Tasks : pc[t] = "erase") /\ f[p] \in {Erased, Torn}
       \/ \E t \in Tasks :
            /\ pc[t] = "write" /\ index[t] = p
            /\ f[p] \in {Torn, Programmed(flash[p], held[t][p])}}

\* A power loss, a panic or a reset, and the storage_init that follows.
Restart ==
  /\ flash' \in Interrupted
  /\ ram' = [p \in Params |-> Loaded(flash'[p])]
  /\ pc' = [t \in Tasks |-> "idle"]
  /\ index' = [t \in Tasks |-> 1] /\ held' = [t \in Tasks |-> Nothing]
  /\ alone' = [t \in Tasks |-> TRUE]
  /\ UNCHANGED <<sets, commits, known, saved>>

-----------------------------------------------------------------------------
\* A new device: nothing stored, every default in place.
Init ==
  /\ flash = [p \in Params |-> Erased]
  /\ ram = [p \in Params |-> Default]
  /\ pc = [t \in Tasks |-> "idle"] /\ index = [t \in Tasks |-> 1]
  /\ held = [t \in Tasks |-> Nothing]
  /\ sets = 0 /\ commits = 0
  /\ known = [p \in Params |-> {Default}]
  /\ alone = [t \in Tasks |-> TRUE] /\ saved = TRUE

Task(t) ==
  \/ \E p \in Params, v \in Inputs : Set(t, p, v)
  \/ Validate(t)
  \/ FactoryReset(t)
  \/ SortCopy(t) \/ SortBack(t)
  \/ ErasePartition(t) \/ Pack(t) \/ WriteParam(t)
  \/ FlashError(t)

Next == (\E t \in Tasks : Task(t)) \/ Restart

Spec == Init /\ [][Next]_vars

-----------------------------------------------------------------------------
TypeOK ==
  /\ ram \in Table /\ flash \in [Params -> Cells]
  /\ pc \in [Tasks -> {"idle", "raw", "set", "sort", "erase", "validate", "pack", "write"}]
  /\ index \in [Tasks -> Params] /\ held \in [Tasks -> Table]
  /\ sets \in 0..MaxSets /\ commits \in 0..MaxCommits
  /\ known \in [Params -> SUBSET (Lo..Hi)]
  /\ alone \in [Tasks -> BOOLEAN] /\ saved \in BOOLEAN

(***************************************************************************)
(* No restart invents a value: whatever tasks commit at the same time and  *)
(* wherever the power fails, a parameter comes back with a value it was    *)
(* once given (or one of the other slots was), or with its default.        *)
(***************************************************************************)
NothingInvented == \A p \in Params : Restored[p] \in known[p]

(***************************************************************************)
(* A commit that ran to its end and met no other task is durable: until    *)
(* somebody sets a parameter, a restart brings back the table as it is.    *)
(***************************************************************************)
CommitIsDurable == saved => Restored = ram

(***************************************************************************)
(* "on-disk layout is always sorted" (the comments on sort_move_schedule   *)
(* and commit_params): what such a commit left is in order.                *)
(***************************************************************************)
CommittedInOrder ==
  saved => \A a, b \in Slots : a < b => Rank(Restored[a]) <= Rank(Restored[b])
=============================================================================
