------------------------- MODULE AesdCircularBuffer -------------------------
(***************************************************************************)
(* struct aesd_circular_buffer and the operations on it                    *)
(* (aesd-char-driver/aesd-circular-buffer.c and .h), as operators on a     *)
(* record with the same fields.  A struct aesd_buffer_entry is the         *)
(* sequence of bytes it points to: its size is the length, and NoEntry     *)
(* stands for a slot that was never written (buffptr NULL, size 0).        *)
(***************************************************************************)
EXTENDS Integers, Sequences, FiniteSetsExt

CONSTANTS
  MaxOps,   \* AESDCHAR_MAX_WRITE_OPERATIONS_SUPPORTED, 10 in the code
  SizeMod,  \* total_size is kept modulo this: 2^8, a uint8_t
  Byte      \* the bytes commands are made of

ASSUME MaxOpsAssumption  == MaxOps \in Nat \ {0}
ASSUME SizeModAssumption == SizeMod \in Nat \ {0}

Slots   == 0 .. MaxOps - 1
NoEntry == << >>
NoSlot  == [slot |-> -1, offset |-> -1]   \* a NULL struct aesd_buffer_entry *

Buffer ==
  [entry      : [Slots -> Seq(Byte)],
   in_offs    : Slots,
   out_offs   : Slots,
   full       : BOOLEAN,
   total_size : 0 .. SizeMod - 1]

(* aesd_circular_buffer_init *)
EmptyBuffer ==
  [entry      |-> [i \in Slots |-> NoEntry],
   in_offs    |-> 0,
   out_offs   |-> 0,
   full       |-> FALSE,
   total_size |-> 0]

(* An index one step ahead of the table's end is back at its start. *)
Wrap(i) == IF i >= MaxOps THEN i - MaxOps ELSE i

(* Variations of NextOutOffs. *)
NextOutOffsUnwrapped(b) == IF b.full THEN b.out_offs + 1 ELSE b.out_offs
NextOutOffsStays(b)     == b.out_offs
NextOutOffsEarly(b)     == IF b.full \/ b.in_offs + 1 = MaxOps
                           THEN Wrap(b.out_offs + 1) ELSE b.out_offs

(* A full buffer gives up its oldest entry by moving out_offs. *)
NextOutOffs(b) == IF b.full THEN Wrap(b.out_offs + 1) ELSE b.out_offs

(***************************************************************************)
(* aesd_circular_buffer_add_entry.  in_offs is not reduced modulo the      *)
(* table size: at the end of the table it is set to the (new) out_offs.    *)
(* total_size grows by the new entry and never shrinks.                    *)
(***************************************************************************)
AddEntry(b, e) ==
  LET out     == NextOutOffs(b)
      reaches == b.in_offs + 1 = MaxOps
  IN  [entry      |-> [b.entry EXCEPT ![b.in_offs] = e],
       in_offs    |-> IF reaches THEN out ELSE b.in_offs + 1,
       out_offs   |-> out,
       full       |-> b.full \/ reaches,
       total_size |-> (b.total_size + Len(e)) % SizeMod]

-----------------------------------------------------------------------------
(* The slot visited k-th (k from 1) when the table is walked from out_offs. *)
SlotOf(b, k) == Wrap(b.out_offs + k - 1)

(* Bytes seen after the walk has visited its first k slots. *)
SizeSeen(b) ==
  LET seen[k \in 0 .. MaxOps] ==
        IF k = 0 THEN 0 ELSE seen[k - 1] + Len(b.entry[SlotOf(b, k)])
  IN  seen

(* Variation of Reaching. *)
ReachingExactly(b, char_offset) ==
  {k \in 1 .. MaxOps : char_offset <= SizeSeen(b)[k]}

(* The steps of the walk at which the bytes seen exceed char_offset. *)
Reaching(b, char_offset) == {k \in 1 .. MaxOps : char_offset < SizeSeen(b)[k]}

(***************************************************************************)
(* aesd_circular_buffer_find_entry_offset_for_fpos: the first slot of the  *)
(* walk at which the bytes seen exceed char_offset, and the byte of that   *)
(* entry char_offset falls on.  Module FindEntryLoop is the C loop itself. *)
(***************************************************************************)
FindEntry(b, char_offset) ==
  LET hits == Reaching(b, char_offset)
  IN  IF hits = {}
      THEN NoSlot
      ELSE LET k == Min(hits)
           IN  [slot   |-> SlotOf(b, k),
                offset |-> char_offset - SizeSeen(b)[k - 1]]

(* Bytes held in table slots 0 .. i - 1, in table order (not walk order). *)
SizeBefore(b) ==
  LET size[i \in 0 .. MaxOps] ==
        IF i = 0 THEN 0 ELSE size[i - 1] + Len(b.entry[i - 1])
  IN  size

-----------------------------------------------------------------------------
(* What the buffer stands for: the commands it holds, the oldest first. *)
Held(b)   == IF b.full THEN MaxOps ELSE b.in_offs
Window(b) == [k \in 1 .. Held(b) |-> b.entry[SlotOf(b, k)]]

(***************************************************************************)
(* What the wrap-around code relies on: a full table is written where it   *)
(* is read and has no empty slot; one that is not yet full is read from    *)
(* slot 0 and is empty exactly from in_offs on.                            *)
(***************************************************************************)
OffsetsAgree(b) ==
  /\ b.full => /\ b.in_offs = b.out_offs
               /\ \A i \in Slots : b.entry[i] # NoEntry
  /\ ~b.full => /\ b.out_offs = 0
                /\ \A i \in Slots : b.entry[i] = NoEntry <=> i >= b.in_offs
=============================================================================
