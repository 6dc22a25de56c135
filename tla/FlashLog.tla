------------------------------ MODULE FlashLog ------------------------------
(***************************************************************************)
(* The event log in flash (src/main/storage.c, from log_write on): the     *)
(* queue of log_write, the writer task that appends entries to a ring of   *)
(* sectors, and the scan of log_init that finds head and tail again after  *)
(* a restart, which may come between any two flash operations.             *)
(*                                                                         *)
(* Flash is an array of cells.  An entry is a length cell, data cells and  *)
(* a type cell; its payload is its number.  The writer keeps a cell free   *)
(* at the end of a sector and zeroes what is left there.  A single flash   *)
(* operation is one step, and fails only outside the partition.            *)
(***************************************************************************)
EXTENDS Integers, Sequences, FiniteSets

CONSTANTS
  NumSectors, SectorCells,  \* the partition, FLASH_SECTOR_SIZE
  Sizes,                    \* cells an entry can take, length and type included
  QueueLen,                 \* LOG_QUEUE_SIZE
  MaxSent                   \* bound: how many events are logged

ASSUME GeometryAssumption ==
  /\ NumSectors \in Nat \ {0} /\ SectorCells \in Nat \ {0}
  /\ Sizes \subseteq 2..(SectorCells - 1)
  /\ QueueLen \in Nat /\ MaxSent \in Nat

VARIABLES
  flash,   \* the log partition
  head,    \* log_head_offset
  tail,    \* log_tail_offset
  queue,   \* log_queue
  pc,      \* where the writer task is in log_write_blocking
  entry,   \* the entry it is writing
  sent,    \* how many events have been logged
  filled,  \* history: the last sector has been closed once
  astray   \* history: a scan has not found where the writer was

vars == <<flash, head, tail, queue, pc, entry, sent, filled, astray>>

Size  == NumSectors * SectorCells
Cells == 0..(Size - 1)

Cell(kind, id, size) == [kind |-> kind, id |-> id, size |-> size]
Erased == Cell("erased", 0, 0)
Zero   == Cell("zero", 0, 0)
Data   == Cell("data", 0, 1)
Type   == Cell("type", 0, 1)
Length(e) == Cell("length", e.id, e.size)

NoEntry == [id |-> 0, size |-> 2]

-----------------------------------------------------------------------------
SectorEnd(x) == (x \div SectorCells + 1) * SectorCells

\* Slip: the end of the partition is not noticed.
NoWrap(x) == x

Wrap(x) == IF x >= Size THEN 0 ELSE x

IsSectorFull(s) == flash[(s + 1) * SectorCells - 1] # Erased

Programmed(from, to, cell) ==
  [c \in Cells |-> IF c \in from..(to - 1) THEN cell ELSE flash[c]]

ErasedSector(at) ==
  [c \in Cells |-> IF c \in at..(at + SectorCells - 1) THEN Erased ELSE flash[c]]

-----------------------------------------------------------------------------
\* log_write: a full queue drops the event.
LogWrite(size) ==
  /\ sent < MaxSent
  /\ sent' = sent + 1
  /\ \/ /\ Len(queue) < QueueLen
        /\ queue' = Append(queue, [id |-> sent + 1, size |-> size])
     \/ Len(queue) = QueueLen /\ UNCHANGED queue
  /\ UNCHANGED <<flash, head, tail, pc, entry, filled, astray>>

\* Slip: an entry may take the last cell of its sector.
OverrunsLate(size) == head + size > SectorEnd(head)

Overruns(size) == head + size >= SectorEnd(head)

\* log_writer_task takes an entry to log_write_blocking.
Take ==
  /\ pc = "idle" /\ queue # <<>>
  /\ entry' = Head(queue)
  /\ queue' = Tail(queue)
  /\ pc' = IF Overruns(Head(queue).size) THEN "pad" ELSE "length"
  /\ UNCHANGED <<flash, head, tail, sent, filled, astray>>

\* The rest of the sector is zeroed, and the head goes on to the next one.
PadSector ==
  /\ pc = "pad" /\ pc' = "turn"
  /\ flash' = Programmed(head, SectorEnd(head), Zero)
  /\ head' = Wrap(SectorEnd(head))
  /\ filled' = (filled \/ SectorEnd(head) >= Size)
  /\ UNCHANGED <<tail, queue, entry, sent, astray>>

\* The new sector is erased unless it looks erased, and the tail follows.
NewTail == IF tail >= head + SectorCells THEN head + SectorCells ELSE tail

\* Slips: the new sector is not erased; the one after it is.
TurnUnerased ==
  /\ pc = "turn" /\ pc' = "length"
  /\ tail' = Wrap(NewTail)
  /\ UNCHANGED <<flash, head, queue, entry, sent, filled, astray>>

TurnAhead ==
  /\ pc = "turn" /\ pc' = "length"
  /\ flash' = ErasedSector(Wrap(head + SectorCells))
  /\ tail' = Wrap(NewTail)
  /\ UNCHANGED <<head, queue, entry, sent, filled, astray>>

TurnSector ==
  /\ pc = "turn" /\ pc' = "length"
  /\ flash' = IF flash[head] = Erased THEN flash ELSE ErasedSector(head)
  /\ tail' = Wrap(NewTail)
  /\ UNCHANGED <<head, queue, entry, sent, filled, astray>>

\* One of the three writes of an entry.  A write outside the partition fails,
\* which gives the entry up and goes on in the next sector.
WritePart(here, from, to, cell, next, newHead) ==
  /\ pc = here
  /\ IF to <= Size
     THEN flash' = Programmed(from, to, cell) /\ pc' = next /\ head' = newHead
     ELSE pc' = "idle" /\ head' = Wrap(SectorEnd(head)) /\ UNCHANGED flash
  /\ UNCHANGED <<tail, queue, entry, sent, filled, astray>>

WriteLength == WritePart("length", head, head + 1, Length(entry), "data", head)
WriteData   == WritePart("data", head + 1, head + entry.size - 1, Data, "type", head)
WriteType   == WritePart("type", head + entry.size - 1, head + entry.size, Type,
                         "idle", head + entry.size)

-----------------------------------------------------------------------------
(***************************************************************************)
(* log_init.  The head's sector is found by bisection for a sector that is *)
(* not full, the tail's for the first full one behind it, and the head by  *)
(* walking along the entries from the sector before it.                    *)
(***************************************************************************)
HeadSector ==
  LET search[i \in (0..NumSectors) \X (0..NumSectors)] ==
        LET m == (i[1] + i[2]) \div 2
        IN  IF i[1] >= i[2] THEN i[1]
            ELSE IF IsSectorFull(m) THEN search[<<m + 1, i[2]>>] ELSE search[<<i[1], m>>]
  IN  search[<<0, NumSectors - 1>>]

TailSector ==
  LET head0 == HeadSector
      search[i \in (1..NumSectors) \X (0..(NumSectors - 1)) \X Nat] ==
        LET m == (i[1] + i[2]) \div 2
            s == (head0 + m) % NumSectors
        IN  IF i[1] > i[2] THEN i[3]
            ELSE IF IsSectorFull(s) THEN search[<<i[1], m - 1, s>>]
                                    ELSE search[<<m + 1, i[2], i[3]>>]
  IN  search[<<1, NumSectors - 1, 0>>]

\* Slip: the head is put where its sector begins.
HeadAtSector == HeadSector * SectorCells

HeadOffset ==
  LET last == (HeadSector + 1) * SectorCells
      walk[c \in 0..Size] ==
        IF c >= last \/ flash[c] = Erased THEN c
        ELSE walk[IF flash[c] = Zero THEN SectorEnd(c) ELSE c + flash[c].size]
  IN  walk[IF HeadSector > 0 THEN (HeadSector - 1) * SectorCells ELSE 0]

\* The length of the writer's entry is in flash and the head in front of it.
Begun == pc \in {"data", "type"}

\* Where the writer is done with what it has begun.
Limit == IF Begun THEN head + entry.size ELSE head

\* The scan stops there, in front of an erased cell.
ScanFinds == HeadOffset = Limit /\ Limit \in Cells /\ flash[Limit] = Erased

\* A power loss, a panic or a reset, and the log_init that follows it.
Restart ==
  /\ astray' = (astray \/ ~ScanFinds)
  /\ head' = HeadOffset
  /\ tail' = TailSector * SectorCells
  /\ queue' = <<>> /\ pc' = "idle" /\ entry' = NoEntry
  /\ UNCHANGED <<flash, sent, filled>>

-----------------------------------------------------------------------------
Init ==
  /\ flash = [c \in Cells |-> Erased]
  /\ head = 0 /\ tail = 0
  /\ queue = <<>> /\ pc = "idle" /\ entry = NoEntry
  /\ sent = 0 /\ filled = FALSE /\ astray = FALSE

Writer ==
  \/ Take \/ PadSector \/ TurnSector
  \/ WriteLength \/ WriteData \/ WriteType

Next ==
  \/ \E size \in Sizes : LogWrite(size)
  \/ Writer
  \/ Restart

Spec == Init /\ [][Next]_vars

-----------------------------------------------------------------------------
Entry == [id : 0..MaxSent, size : Sizes \union {2}]

(***************************************************************************)
(* Cells hold what the writer puts there, and the head is in the partition *)
(* but where a scan gone astray has put it at its end.                     *)
(***************************************************************************)
TypeOK ==
  /\ \A c \in Cells :
       flash[c] \in {Erased, Zero, Data, Type} \union {Length(e) : e \in Entry}
  /\ head \in 0..Size /\ (head = Size => astray)
  /\ tail \in Cells
  /\ queue \in Seq(Entry) /\ Len(queue) <= QueueLen
  /\ pc \in {"idle", "pad", "turn", "length", "data", "type"}
  /\ entry \in Entry
  /\ sent \in 0..MaxSent /\ filled \in BOOLEAN /\ astray \in BOOLEAN

\* The cell of a whole entry's length.
IsWhole(c) ==
  flash[c].kind = "length" /\ flash[c + flash[c].size - 1] = Type

\* The k-th smallest number of a set.
Rank(S, i) == Cardinality({j \in S : j <= i})
Nth(S, k)  == CHOOSE i \in S : Rank(S, i) = k

\* The numbers of the whole entries in the n cells from `from` on, round the ring.
Around(x) == IF x >= Size THEN x - Size ELSE x

Starts(from, n) == {i \in 1..n : IsWhole(Around(from + i - 1))}

Numbers(from, n) ==
  LET listed[S \in SUBSET (1..n)] ==
        [k \in 1..Cardinality(S) |-> flash[Around(from + Nth(S, k) - 1)].id]
  IN  listed[Starts(from, n)]

\* All entries in flash, oldest sector first: that is the one behind the head's,
\* or the head's own while it is still to be erased.
Oldest == IF pc = "turn" THEN head ELSE SectorEnd(head)
Ring   == Numbers(Oldest, Size)

\* What a download from tail to head returns (log_handler in webserver.c).
Download == Numbers(tail, IF tail <= head THEN head - tail ELSE Size - tail + head)

(***************************************************************************)
(* The scan of log_init goes astray only in a ring that has been full: its *)
(* bisection wants the sectors that are full to come before the others.    *)
(***************************************************************************)
RecoversUntilFull == astray => filled

(***************************************************************************)
(* The log never programs a cell that is not erased (flash would keep the  *)
(* bits of both), round the ring and over every restart whose scan finds   *)
(* the head: the head only ever stands in front of erased cells.           *)
(***************************************************************************)
ProgramsErased ==
  [][astray \/ \A c \in Cells : flash'[c] \in {flash[c], Erased} \/ flash[c] = Erased]_vars

(***************************************************************************)
(* The ring in flash is an event log that forgets its oldest sector at a   *)
(* time, even if restarts cut entries in two, until a scan goes astray.  A *)
(* sector holds at most (SectorCells - 1) \div 2 of the smallest entries.  *)
(***************************************************************************)
Abstract == INSTANCE EventLog WITH
  Events <- 1..MaxSent, Most <- (SectorCells - 1) \div 2,
  log <- IF astray THEN <<>> ELSE Ring, lost <- astray

ImplementsEventLog == Abstract!Spec

(***************************************************************************)
(* Until the ring is full for the first time a download is complete and    *)
(* starts at the oldest entry, after any restart.                          *)
(***************************************************************************)
DownloadsAll == (pc = "idle" /\ ~filled) => Download = Ring

(***************************************************************************)
(* "will start reading from the tail (oldest valid entry)": the comment on *)
(* log_read_reset (storage.c:1243).                                        *)
(***************************************************************************)
TailIsOldest == (pc = "idle" /\ ~astray) => Download = Ring

(***************************************************************************)
(* "log_init() always recovers these from a flash scan": the comment on    *)
(* the head and the tail (storage.c:183).                                  *)
(***************************************************************************)
AlwaysRecovers == ~astray
=============================================================================
