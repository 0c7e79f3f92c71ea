------------------------------ MODULE RingLog -------------------------------
(***************************************************************************)
(* The circular buffer in use: initialised once, then given one command    *)
(* after another by aesd_write, which owns it under the device's mutex.    *)
(* Nothing else modifies it, so this is every state the buffer can reach.  *)
(***************************************************************************)
EXTENDS AesdCircularBuffer, SequencesExt

CONSTANT Command   \* the commands added: byte sequences, never empty

ASSUME CommandAssumption == Command \subseteq Seq(Byte) \ {NoEntry}

VARIABLE buffer    \* the struct aesd_circular_buffer

Init == buffer = EmptyBuffer

Add(c) == buffer' = AddEntry(buffer, c)

Next == \E c \in Command : Add(c)

Spec == Init /\ [][Next]_buffer

-----------------------------------------------------------------------------
TypeOK == buffer \in Buffer

(***************************************************************************)
(* in_offs, out_offs, full and the slots in use stay consistent through    *)
(* every wrap-around of aesd_circular_buffer_add_entry.                    *)
(***************************************************************************)
OffsetsOK == OffsetsAgree(buffer)

(***************************************************************************)
(* aesd_circular_buffer_find_entry_offset_for_fpos, whose doc              *)
(* (aesd-circular-buffer.c:21-27) makes char_offset an index into the      *)
(* commands concatenated end to end: the entry and byte it finds hold      *)
(* exactly that byte, and it finds none only beyond the last one written.  *)
(***************************************************************************)
FindMatchesConcatenation ==
  LET content == FlattenSeq(Window(buffer))
  IN  \A off \in 0 .. Len(content) + 1 :
        LET found == FindEntry(buffer, off)
        IN  IF off < Len(content)
            THEN /\ found.slot \in Slots
                 /\ found.offset + 1 \in DOMAIN buffer.entry[found.slot]
                 /\ buffer.entry[found.slot][found.offset + 1] = content[off + 1]
            ELSE found = NoSlot

(***************************************************************************)
(* The table implements the bounded command log: walked from out_offs it   *)
(* always lists the MaxOps newest commands in the order they were added,   *)
(* however often in_offs and out_offs have wrapped.                        *)
(***************************************************************************)
Log == INSTANCE CommandLog WITH window <- Window(buffer)
ImplementsCommandLog == Log!Spec

(***************************************************************************)
(* aesd-circular-buffer.h:52-54 says of total_size: "Total size of all     *)
(* entries in the buffer".                                                 *)
(***************************************************************************)
TotalSizeIsContent == buffer.total_size = Len(FlattenSeq(Window(buffer)))
=============================================================================
