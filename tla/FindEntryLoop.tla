--------------------------- MODULE FindEntryLoop ----------------------------
(***************************************************************************)
(* The search loop of aesd_circular_buffer_find_entry_offset_for_fpos as   *)
(* the C code runs it, one iteration a step, on every buffer that adding   *)
(* commands can produce.  FindEntry of AesdCircularBuffer is what the      *)
(* driver's model uses in its place.                                       *)
(***************************************************************************)
EXTENDS RingLog

CONSTANT CharOffset  \* the positions searched for

ASSUME LoopAssumption == CharOffset \subseteq Nat

VARIABLES
  state,            \* "idle", "search" at the head of the loop, or "done"
  char_offset,      \* the parameter of the search
  i,                \* the loop's variables ...
  total_size_seen,
  offset,
  wrap_around,
  result,           \* the entry returned and *entry_offset_byte_rtn
  visited           \* history: the slots looked at

vars == <<buffer, state, char_offset, i, total_size_seen, offset, wrap_around,
          result, visited>>

LoopInit ==
  /\ Init
  /\ state = "idle"
  /\ char_offset = 0 /\ i = 0 /\ total_size_seen = 0 /\ offset = 0
  /\ wrap_around = FALSE
  /\ result = NoSlot
  /\ visited = {}

(* Between searches the buffer is added to. *)
Between(c) ==
  /\ state = "idle"
  /\ Add(c)
  /\ UNCHANGED <<state, char_offset, i, total_size_seen, offset, wrap_around,
                 result, visited>>

(* The loop starts at out_offs. *)
Start(off) ==
  /\ state = "idle"
  /\ state' = "search"
  /\ char_offset' = off
  /\ i' = buffer.out_offs
  /\ UNCHANGED <<buffer, total_size_seen, offset, wrap_around, result, visited>>

(* The slot an iteration looks at: at the end of the table, the first. *)
Here == IF i = MaxOps THEN 0 ELSE i

(* Whether the index has ever been set back to the start of the table. *)
Wrapped == wrap_around \/ i = MaxOps

(* Variations of Stops. *)
StopsAtEnd == i = MaxOps
StopsNever == i > MaxOps

(* The loop is left when the index is back at out_offs, or by its condition. *)
Stops == i > MaxOps \/ (Wrapped /\ Here = buffer.out_offs)

Seen == total_size_seen + Len(buffer.entry[Here])

(* The whole table was searched: NULL. *)
Fail ==
  /\ state = "search"
  /\ Stops
  /\ state' = "done"
  /\ result' = NoSlot
  /\ UNCHANGED <<buffer, char_offset, i, total_size_seen, offset, wrap_around, visited>>

(* Variation of Offset. *)
OffsetInclusive == offset + 1

Offset == offset

(* The entry that char_offset falls on. *)
Hit ==
  /\ state = "search"
  /\ ~Stops
  /\ char_offset < Seen
  /\ state' = "done"
  /\ result' = [slot |-> Here, offset |-> char_offset - Offset]
  /\ visited' = visited \cup {Here}
  /\ UNCHANGED <<buffer, char_offset, i, total_size_seen, offset, wrap_around>>

(* Any other entry is passed over. *)
Miss ==
  /\ state = "search"
  /\ ~Stops
  /\ char_offset >= Seen
  /\ total_size_seen' = Seen
  /\ offset' = offset + Len(buffer.entry[Here])
  /\ wrap_around' = Wrapped
  /\ i' = Here + 1
  /\ visited' = visited \cup {Here}
  /\ UNCHANGED <<buffer, state, char_offset, result>>

(* The caller has its result; the locals are gone. *)
Leave ==
  /\ state = "done"
  /\ state' = "idle"
  /\ char_offset' = 0 /\ i' = 0 /\ total_size_seen' = 0 /\ offset' = 0
  /\ wrap_around' = FALSE
  /\ result' = NoSlot
  /\ visited' = {}
  /\ UNCHANGED buffer

LoopNext ==
  \/ \E c \in Command : Between(c)
  \/ \E off \in CharOffset : Start(off)
  \/ Fail \/ Hit \/ Miss
  \/ Leave

LoopSpec == LoopInit /\ [][LoopNext]_vars /\ WF_vars(Fail \/ Hit \/ Miss)

-----------------------------------------------------------------------------
LoopTypeOK ==
  /\ TypeOK
  /\ state \in {"idle", "search", "done"}
  /\ char_offset \in Nat
  /\ i \in 0 .. MaxOps
  /\ total_size_seen \in Nat
  /\ offset \in Nat
  /\ wrap_around \in BOOLEAN
  /\ result \in [slot : Slots, offset : Nat] \cup {NoSlot}
  /\ visited \subseteq Slots

(***************************************************************************)
(* The search looks at no slot twice: the index, which is reset inside the *)
(* loop, passes out_offs a second time only to end it                      *)
(* (aesd-circular-buffer.c:36-47), wherever out_offs is.                   *)
(***************************************************************************)
NoSlotTwice == state = "search" /\ ~Stops => Here \notin visited

(***************************************************************************)
(* The loop returns the entry and the byte the walk from out_offs falls    *)
(* on, or NULL after having looked at the whole table.                     *)
(***************************************************************************)
LoopFindsEntry ==
  state = "done" => /\ result = FindEntry(buffer, char_offset)
                    /\ result = NoSlot => visited = Slots

(***************************************************************************)
(* The search ends, also when the index starts in the middle of the table. *)
(***************************************************************************)
SearchEnds == state = "search" ~> state = "done"
=============================================================================
