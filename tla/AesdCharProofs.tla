--------------------------- MODULE AesdCharProofs ---------------------------
(***************************************************************************)
(* Proofs about the driver, for any number of processes and files, any     *)
(* sizes and any calls.                                                    *)
(*                                                                         *)
(* The invariant IInv adds to WriteFits and CommandsComplete what they     *)
(* rest on: the types of the device's fields and that a handler's body     *)
(* runs under the mutex.  Each section that follows adds what its property *)
(* needs: NewestInv that the table holds the end of history; CallTypes     *)
(* what a handler has in its local variables at each of its steps;         *)
(* ForwardInv that a read or its position is never behind the last read's  *)
(* end.  The last two map the driver to CharDevice step by step, and show  *)
(* that it uses its ring as module RingLog has it.                         *)
(***************************************************************************)
EXTENDS AesdChar, AesdCircularBufferProofs, FiniteSetTheorems

InBody(p) == pc[p] \in {"enter", "copy", "exit"}

(* Exactly the holder of the mutex is in the body of a handler. *)
Exclusive == \A p \in Proc : InBody(p) <=> lock = p

DeviceTypes ==
  /\ buffer \in Buffer
  /\ entry \in Seq(Byte)
  /\ room \in Nat
  /\ lock \in Proc \cup {NoOne}
  /\ pc \in [Proc -> {"idle", "lock", "enter", "copy", "exit", "return"}]
  /\ call \in [Proc -> Calls \cup {NoCall}]

(* A call goes through an open file, which keeps the module loaded. *)
InUse == /\ opened # {} => loaded
         /\ \A p \in Proc : pc[p] # "idle" => FileOf[p] \in opened

IInv == DeviceTypes /\ Exclusive /\ InUse /\ WriteFits /\ CommandsComplete

(* A process that makes a write has the bytes of one of the chunks. *)
LEMMA WriteData ==
  ASSUME NEW p \in Proc, DeviceTypes, call[p].op = "write"
  PROVE  call[p].data \in Seq(Byte)
<1>1. call[p] \in Calls \cup {NoCall}
  BY DEF DeviceTypes
<1>2. call[p] \in [op : {"write"}, data : Chunk]
  BY <1>1 DEF Calls, SeekToCalls, NoCall
<1>. QED
  BY <1>2, CharAssumption

(* What is pending after a copy of n bytes is a sequence of bytes. *)
LEMMA PendingType ==
  ASSUME NEW p \in Proc, DeviceTypes, call[p].op = "write",
         NEW n \in 0 .. Len(call[p].data)
  PROVE  /\ Pending(p, n) \in Seq(Byte)
         /\ Len(Pending(p, n)) = Len(entry) + n
<1>. DEFINE d == call[p].data
<1>1. d \in Seq(Byte)
  BY WriteData
<1>2. n \in Nat /\ Len(d) \in Nat /\ n <= Len(d)
  BY <1>1, LenProperties
<1>3. \A i \in 1 .. n : d[i] \in Byte
  BY <1>1, <1>2, LenProperties
<1>4. SubSeq(d, 1, n) \in Seq(Byte) /\ Len(SubSeq(d, 1, n)) = n
  BY <1>2, <1>3, SubSeqProperties
<1>. QED
  BY <1>4, ConcatProperties DEF Pending, DeviceTypes

(* A complete command is not an empty one. *)
LEMMA CompleteNotEmpty ==
  ASSUME NEW s \in Seq(Byte), Contains(s, NewLine)
  PROVE  s # NoEntry
BY DEF Contains, NoEntry

-----------------------------------------------------------------------------
(* Before the module is loaded. *)
LEMMA InitInv == Init => IInv
<1>. SUFFICES ASSUME Init PROVE IInv
  OBVIOUS
<1>1. DeviceTypes
  BY EmptyBufferFacts DEF Init, DeviceTypes, NoEntry
<1>2. Exclusive /\ InUse
  BY CharAssumption DEF Init, Exclusive, InBody, InUse
<1>3. WriteFits
  BY DEF Init, WriteFits, At
<1>4. CommandsComplete
  BY EmptyBufferFacts DEF Init, CommandsComplete, EmptyBuffer, Contains, NoEntry
<1>. QED
  BY <1>1, <1>2, <1>3, <1>4 DEF IInv

(* Steps that leave the device, the mutex and the calls alone. *)
LEMMA QuietStep ==
  ASSUME IInv, UNCHANGED <<buffer, entry, room, lock, pc, call>>, InUse'
  PROVE  IInv'
BY DEF IInv, DeviceTypes, Exclusive, InBody, WriteFits, At, CommandsComplete,
   OffsetsAgree

(* The module is loaded and unloaded only while no process is in a call. *)
LEMMA ModuleStep ==
  ASSUME IInv, Load \/ Unload \/ \E f \in File : Open(f) \/ Release(f)
  PROVE  IInv'
<1>1. CASE Load
  <2>1. \A p \in Proc : pc[p] = "idle"
    BY <1>1 DEF IInv, InUse, Load
  <2>2. DeviceTypes'
    BY <1>1, EmptyBufferFacts DEF IInv, DeviceTypes, Load, SetupCdev, NoEntry
  <2>3. Exclusive' /\ InUse' /\ WriteFits'
    BY <1>1, <2>1 DEF IInv, Exclusive, InBody, InUse, WriteFits, At, Load
  <2>4. OffsetsAgree(buffer')
    BY <1>1, EmptyBufferFacts DEF Load
  <2>5. CommandsComplete'
    BY <1>1, <2>4
    DEF CommandsComplete, OffsetsAgree, EmptyBuffer, Contains, NoEntry, Load
  <2>. QED
    BY <2>2, <2>3, <2>5 DEF IInv
<1>2. CASE Unload
  BY <1>2, QuietStep DEF IInv, InUse, Unload
<1>3. ASSUME NEW f \in File, Open(f)
      PROVE  IInv'
  BY <1>3, QuietStep DEF IInv, InUse, Open, device
<1>4. ASSUME NEW f \in File, Release(f)
      PROVE  IInv'
  BY <1>4, QuietStep DEF IInv, InUse, Release, InCall, device
<1>. QED
  BY <1>1, <1>2, <1>3, <1>4

(* A process enters a call and waits for the mutex. *)
LEMMA CallStep ==
  ASSUME IInv, NEW p \in Proc, NEW c \in Calls, Call(p, c)
  PROVE  IInv'
<1>1. DeviceTypes'
  BY DEF IInv, DeviceTypes, Call, Goto, device
<1>2. Exclusive' /\ InUse'
  BY DEF IInv, DeviceTypes, Exclusive, InBody, InUse, Call, Goto, kernel
<1>3. WriteFits'
  BY DEF IInv, DeviceTypes, WriteFits, At, Call, Goto, device
<1>4. CommandsComplete'
  BY DEF IInv, CommandsComplete, OffsetsAgree, Call, device
<1>. QED
  BY <1>1, <1>2, <1>3, <1>4 DEF IInv

(* Taking the mutex, giving up on it, leaving the kernel. *)
LEMMA MutexStep ==
  ASSUME IInv, NEW p \in Proc, Lock(p) \/ Interrupted(p) \/ Unlock(p) \/ Return(p)
  PROVE  IInv'
<1>1. UNCHANGED device /\ UNCHANGED kernel
  BY DEF Lock, Interrupted, Unlock, Return
<1>2. DeviceTypes'
  BY <1>1 DEF IInv, DeviceTypes, Lock, Interrupted, Unlock, Return, Goto, device
<1>3. Exclusive'
  BY CharAssumption
  DEF IInv, DeviceTypes, Exclusive, InBody, Lock, Interrupted, Unlock, Return, Goto
<1>4. InUse'
  BY <1>1 DEF IInv, DeviceTypes, InUse, Lock, Interrupted, Unlock, Return, Goto, kernel
<1>5. WriteFits'
  BY <1>1
  DEF IInv, DeviceTypes, WriteFits, At, Lock, Interrupted, Unlock, Return, Goto, device
<1>6. CommandsComplete'
  BY <1>1 DEF IInv, CommandsComplete, OffsetsAgree, device
<1>. QED
  BY <1>2, <1>3, <1>4, <1>5, <1>6 DEF IInv

(* A step of a handler that moves on and does not touch the device. *)
LEMMA HandlerStep ==
  ASSUME IInv, NEW p \in Proc, InBody(p),
         UNCHANGED <<device, kernel, lock, call>>,
         Goto(p, "exit") \/ (Goto(p, "copy") /\ call[p].op # "write")
  PROVE  IInv'
<1>1. DeviceTypes'
  BY DEF IInv, DeviceTypes, Goto, device
<1>2. Exclusive' /\ InUse'
  BY DEF IInv, DeviceTypes, Exclusive, InBody, InUse, Goto, kernel
<1>3. WriteFits'
  BY DEF IInv, DeviceTypes, WriteFits, At, Goto, device
<1>4. CommandsComplete'
  BY DEF IInv, CommandsComplete, OffsetsAgree, device
<1>. QED
  BY <1>1, <1>2, <1>3, <1>4 DEF IInv

(* krealloc makes room for the bytes of the one process in a body. *)
LEMMA WriteReallocStep ==
  ASSUME IInv, NEW p \in Proc, WriteRealloc(p)
  PROVE  IInv'
<1>1. call[p].data \in Seq(Byte)
  BY WriteData DEF IInv, WriteRealloc, At
<1>2. room' = Len(entry) + Len(call[p].data) /\ room' \in Nat
  BY <1>1, LenProperties DEF IInv, DeviceTypes, WriteRealloc, NewRoom
<1>3. DeviceTypes'
  BY <1>2 DEF IInv, DeviceTypes, WriteRealloc, Goto
<1>4. Exclusive' /\ InUse'
  BY DEF IInv, DeviceTypes, Exclusive, InBody, InUse, WriteRealloc, At, Goto, kernel
<1>5. \A q \in Proc : q # p => pc'[q] # "copy"
  BY DEF IInv, DeviceTypes, Exclusive, InBody, WriteRealloc, At, Goto
<1>6. WriteFits'
  BY <1>1, <1>2, <1>5, LenProperties DEF IInv, DeviceTypes, WriteFits, At, WriteRealloc
<1>7. CommandsComplete'
  BY DEF IInv, CommandsComplete, OffsetsAgree, WriteRealloc
<1>. QED
  BY <1>3, <1>4, <1>6, <1>7 DEF IInv

(* The copy appends to the pending entry or hands it to the ring. *)
LEMMA WriteCopyStep ==
  ASSUME IInv, NEW p \in Proc, WriteCopy(p)
  PROVE  IInv'
<1>1. PICK n \in 0 .. Len(call[p].data) :
        \/ Completes(Pending(p, n)) /\ HandOver(Pending(p, n))
        \/ /\ ~Completes(Pending(p, n))
           /\ entry' = Pending(p, n)
           /\ UNCHANGED <<buffer, room>>
  BY DEF WriteCopy
<1>2. Pending(p, n) \in Seq(Byte)
  BY PendingType DEF IInv, WriteCopy, At
<1>3. \A q \in Proc : pc'[q] # "copy"
  BY DEF IInv, DeviceTypes, Exclusive, InBody, WriteCopy, At, Goto
<1>4. Exclusive' /\ InUse' /\ WriteFits'
  BY <1>3
  DEF IInv, DeviceTypes, Exclusive, InBody, InUse, WriteFits, WriteCopy, At, Goto,
  kernel
<1>5. CASE Completes(Pending(p, n)) /\ HandOver(Pending(p, n))
  <2>1. Pending(p, n) \in Seq(Byte) \ {NoEntry}
    BY <1>2, <1>5, CompleteNotEmpty DEF Completes
  <2>2. buffer' \in Buffer /\ OffsetsAgree(buffer')
    BY <1>5, <2>1, AddEntryType, AddEntryOffsets
    DEF HandOver, IInv, DeviceTypes, CommandsComplete
  <2>3. DeviceTypes'
    BY <1>5, <2>2 DEF IInv, DeviceTypes, WriteCopy, HandOver, NoEntry, Goto
  <2>4. \A i \in Slots : buffer'.entry[i] # NoEntry => Contains(buffer'.entry[i], NewLine)
    BY <1>5, <2>1, AddEntrySlots
    DEF HandOver, Completes, IInv, DeviceTypes, CommandsComplete
  <2>5. ~Contains(entry', NewLine)
    BY <1>5 DEF HandOver, NoEntry, Contains
  <2>. QED
    BY <1>4, <2>2, <2>3, <2>4, <2>5 DEF IInv, CommandsComplete, OffsetsAgree
<1>6. CASE /\ ~Completes(Pending(p, n))
           /\ entry' = Pending(p, n)
           /\ UNCHANGED <<buffer, room>>
  <2>1. DeviceTypes'
    BY <1>2, <1>6 DEF IInv, DeviceTypes, WriteCopy, Goto
  <2>2. CommandsComplete'
    BY <1>6 DEF IInv, CommandsComplete, OffsetsAgree, Completes
  <2>. QED
    BY <1>4, <2>1, <2>2 DEF IInv
<1>. QED
  BY <1>1, <1>5, <1>6

(* Every handler's body preserves the invariant. *)
LEMMA BodyStep ==
  ASSUME IInv, NEW p \in Proc, Body(p)
  PROVE  IInv'
<1>1. CASE WriteRealloc(p)
  BY <1>1, WriteReallocStep
<1>2. CASE WriteCopy(p)
  BY <1>2, WriteCopyStep
<1>3. CASE ReadFind(p) \/ ReadEnd(p) \/ ReadCopy(p)
  BY <1>3, HandlerStep DEF ReadFind, ReadEnd, ReadCopy, At, InBody
<1>4. CASE Llseek(p) \/ IoctlSeek(p) \/ IoctlFail(p)
  BY <1>4, HandlerStep DEF Llseek, IoctlSeek, IoctlFail, At, InBody
<1>. QED
  BY <1>1, <1>2, <1>3, <1>4 DEF Body

(* No step of any process breaks the invariant. *)
LEMMA NextInv == IInv /\ [Next]_vars => IInv'
<1>. SUFFICES ASSUME IInv, [Next]_vars PROVE IInv'
  OBVIOUS
<1>1. CASE Load \/ Unload \/ \E f \in File : Open(f) \/ Release(f)
  BY <1>1, ModuleStep
<1>2. CASE \E p \in Proc : \E c \in Calls : Call(p, c)
  BY <1>2, CallStep
<1>3. CASE \E p \in Proc : Lock(p) \/ Interrupted(p) \/ Unlock(p) \/ Return(p)
  BY <1>3, MutexStep
<1>4. CASE \E p \in Proc : Body(p)
  BY <1>4, BodyStep
<1>5. CASE UNCHANGED vars
  BY <1>5, QuietStep DEF vars, device, kernel, IInv, InUse
<1>. QED
  BY <1>1, <1>2, <1>3, <1>4, <1>5 DEF Next

(* The invariant holds in every reachable state of the driver. *)
THEOREM Invariant == Spec => []IInv
BY InitInv, NextInv, PTL DEF Spec

(* Handlers exclude each other over every call in them that may sleep, and  *)
(* none returns with the mutex (main.c:119-126, 262-291, 330-361, 376-405). *)
THEOREM HandlersExclude == Spec => []Exclusive
<1>1. IInv => Exclusive
  BY DEF IInv
<1>. QED
  BY <1>1, Invariant, PTL

(* Every copy_from_user of aesd_write stays inside the block krealloc gave  *)
(* it, whatever other writers do: they cannot be between the two calls.     *)
THEOREM CopiesFit == Spec => []WriteFits
<1>1. IInv => WriteFits
  BY DEF IInv
<1>. QED
  BY <1>1, Invariant, PTL

(* The ring only ever holds complete commands and dev->entry an incomplete  *)
(* one, and the ring's offsets agree with the slots in use, for any mix of  *)
(* writers, chunks and partial copies.                                      *)
THEOREM CommandsAreComplete == Spec => []CommandsComplete
<1>1. IInv => CommandsComplete
  BY DEF IInv
<1>. QED
  BY <1>1, Invariant, PTL

-----------------------------------------------------------------------------
(* The call variables are functions; a process in the copy of a read still  *)
(* has the entry its position falls on.                                     *)
FoundInv == /\ found = [p \in Proc |-> found[p]]
            /\ pos = [p \in Proc |-> pos[p]]
            /\ FoundStays

(* Only steps that do not touch the table come between the search and its   *)
(* use.                                                                     *)
LEMMA FoundNext == IInv /\ FoundInv /\ [Next]_vars => FoundInv'
<1>. SUFFICES ASSUME IInv, FoundInv, [Next]_vars PROVE FoundInv'
  OBVIOUS
<1>. USE DEF FoundInv, FoundStays, At, Goto, IInv, DeviceTypes
<1>1. CASE Load
  BY <1>1 DEF Load, InUse
<1>2. CASE Unload \/ \E f \in File : Open(f) \/ Release(f)
  BY <1>2 DEF Unload, Open, Release, device
<1>3. ASSUME NEW p \in Proc, NEW c \in Calls, Call(p, c)
      PROVE  FoundInv'
  BY <1>3 DEF Call, device
<1>4. ASSUME NEW p \in Proc, Lock(p) \/ Interrupted(p) \/ Unlock(p) \/ Return(p)
      PROVE  FoundInv'
  BY <1>4 DEF Lock, Interrupted, Unlock, Return, device
<1>5. ASSUME NEW p \in Proc, WriteRealloc(p)
      PROVE  FoundInv'
  BY <1>5 DEF WriteRealloc
<1>6. ASSUME NEW p \in Proc, WriteCopy(p)
      PROVE  FoundInv'
  <2>1. \A q \in Proc : pc'[q] # "copy"
    BY <1>6 DEF Exclusive, InBody, WriteCopy
  <2>. QED
    BY <1>6, <2>1 DEF WriteCopy
<1>7. ASSUME NEW p \in Proc, ReadFind(p)
      PROVE  FoundInv'
  BY <1>7 DEF ReadFind, device
<1>8. ASSUME NEW p \in Proc, ReadEnd(p)
      PROVE  FoundInv'
  BY <1>8 DEF ReadEnd, device
<1>9. ASSUME NEW p \in Proc, ReadCopy(p)
      PROVE  FoundInv'
  <2>1. \A q \in Proc : pc'[q] # "copy"
    BY <1>9 DEF Exclusive, InBody, ReadCopy
  <2>. QED
    BY <1>9, <2>1 DEF ReadCopy, Advance
<1>10. ASSUME NEW p \in Proc, Llseek(p) \/ IoctlSeek(p) \/ IoctlFail(p)
       PROVE  FoundInv'
  BY <1>10 DEF Llseek, IoctlSeek, IoctlFail, device
<1>11. CASE UNCHANGED vars
  BY <1>11 DEF vars, device
<1>. QED
  BY <1>1, <1>2, <1>3, <1>4, <1>5, <1>6, <1>7, <1>8, <1>9, <1>10, <1>11 DEF Next, Body

(* The entry a read found stays in place and unfreed until the read is done *)
(* with it: no writer runs while copy_to_user sleeps.                       *)
THEOREM FoundEntryStays == Spec => []FoundStays
<1>1. Init => FoundInv
  BY DEF Init, FoundInv, FoundStays, At
<1>2. FoundInv => FoundStays
  BY DEF FoundInv
<1>. QED
  BY <1>1, <1>2, FoundNext, Invariant, PTL DEF Spec

-----------------------------------------------------------------------------
(* The ring has a finite number of blocks, and at most one more with one    *)
(* more command.                                                            *)
LEMMA RingBlocksType ==
  ASSUME NEW b
  PROVE  RingBlocks(b) \in Nat /\ IsFiniteSet({i \in Slots : b.entry[i] # NoEntry})
<1>1. IsFiniteSet(Slots)
  BY FS_Interval, MaxOpsAssumption DEF Slots
<1>2. IsFiniteSet({i \in Slots : b.entry[i] # NoEntry})
  BY <1>1, FS_Subset
<1>. QED
  BY <1>2, FS_CardinalityType DEF RingBlocks

(* Adding a command takes at most one more block. *)
LEMMA RingBlocksAdd ==
  ASSUME NEW b \in Buffer, OffsetsAgree(b), NEW e \in Seq(Byte) \ {NoEntry}
  PROVE  RingBlocks(AddEntry(b, e)) <= RingBlocks(b) + 1
<1>. DEFINE used == {i \in Slots : b.entry[i] # NoEntry}
            usedAfter == {i \in Slots : AddEntry(b, e).entry[i] # NoEntry}
<1>1. usedAfter \subseteq used \cup {b.in_offs}
  BY AddEntrySlots
<1>2. IsFiniteSet(used) /\ Cardinality(used) \in Nat
  BY RingBlocksType DEF RingBlocks
<1>3. /\ IsFiniteSet(used \cup {b.in_offs})
      /\ Cardinality(used \cup {b.in_offs}) <= Cardinality(used) + 1
  <2>. HIDE DEF used
  <2>1. Cardinality(used \cup {b.in_offs}) =
          IF b.in_offs \in used THEN Cardinality(used) ELSE Cardinality(used) + 1
    BY <1>2, FS_AddElement
  <2>2. IsFiniteSet(used \cup {b.in_offs})
    BY <1>2, FS_AddElement
  <2>. QED
    BY <1>2, <2>1, <2>2
<1>4. Cardinality(usedAfter) <= Cardinality(used \cup {b.in_offs})
  BY <1>1, <1>3, FS_Subset
<1>5. Cardinality(usedAfter) \in Nat /\ Cardinality(used \cup {b.in_offs}) \in Nat
  BY <1>3, RingBlocksType, FS_CardinalityType DEF RingBlocks
<1>. HIDE DEF used, usedAfter
<1>6. Cardinality(usedAfter) <= Cardinality(used) + 1
  BY <1>2, <1>3, <1>4, <1>5
<1>. QED
  BY <1>6 DEF RingBlocks, used, usedAfter

(* An empty ring takes none. *)
LEMMA RingBlocksEmpty == RingBlocks(EmptyBuffer) = 0
<1>1. {i \in Slots : EmptyBuffer.entry[i] # NoEntry} = {}
  BY DEF EmptyBuffer
<1>. QED
  BY <1>1, FS_EmptySet DEF RingBlocks

(* PointersLive, and what is left of it while the module is not loaded. *)
PointersInv == /\ live \in Int
               /\ live >= 0
               /\ PointersLive

(* A step takes a pointer away with the block it frees, never later. *)
LEMMA PointersNext == IInv /\ PointersInv /\ [Next]_vars => PointersInv'
<1>. SUFFICES ASSUME IInv, PointersInv, [Next]_vars PROVE PointersInv'
  OBVIOUS
<1>1. RingBlocks(buffer) \in Nat /\ RingBlocks(buffer') \in Nat
  BY RingBlocksType
<1>2. room \in Nat /\ live \in Int /\ live >= 0
  BY DEF IInv, DeviceTypes, PointersInv
<1>3. CASE Load
  BY <1>2, <1>3, RingBlocksEmpty DEF Load, PointersInv, PointersLive, Blocks
<1>4. CASE Unload
  BY <1>1, <1>2, <1>4 DEF Unload, PointersInv, PointersLive, Blocks
<1>5. ASSUME NEW p \in Proc, WriteRealloc(p)
      PROVE  PointersInv'
  <2>1. call[p].data \in Seq(Byte)
    BY <1>5, WriteData DEF IInv, WriteRealloc, At
  <2>2. room' \in Nat
    BY <1>5, <2>1, LenProperties DEF IInv, DeviceTypes, WriteRealloc, NewRoom
  <2>3. loaded
    BY <1>5 DEF IInv, InUse, WriteRealloc, At
  <2>. QED
    BY <1>1, <1>2, <1>5, <2>2, <2>3
    DEF WriteRealloc, PointersInv, PointersLive, Blocks, kernel, RingBlocks
<1>6. ASSUME NEW p \in Proc, WriteCopy(p)
      PROVE  PointersInv'
  <2>1. PICK n \in 0 .. Len(call[p].data) :
          \/ Completes(Pending(p, n)) /\ HandOver(Pending(p, n))
          \/ UNCHANGED <<buffer, room>>
    BY <1>6 DEF WriteCopy
  <2>2. CASE Completes(Pending(p, n)) /\ HandOver(Pending(p, n))
    <3>1. call[p].data \in Seq(Byte) /\ Len(call[p].data) \in Nat /\ Len(entry) \in Nat
      BY <1>6, WriteData, LenProperties DEF IInv, DeviceTypes, WriteCopy, At
    <3>2. Pending(p, n) \in Seq(Byte) /\ Len(Pending(p, n)) = Len(entry) + n
      BY <1>6, PendingType DEF IInv, WriteCopy, At
    <3>3. Pending(p, n) \in Seq(Byte) \ {NoEntry} /\ Len(Pending(p, n)) > 0
      BY <2>2, <3>2, CompleteNotEmpty, LenProperties DEF Completes, Contains
    <3>4. Blocks(room) = 1
      BY <1>2, <1>6, <3>1, <3>2, <3>3 DEF IInv, WriteFits, WriteCopy, Blocks, At
    <3>5. RingBlocks(buffer') <= RingBlocks(buffer) + 1
      BY <2>2, <3>3, RingBlocksAdd DEF HandOver, IInv, DeviceTypes, CommandsComplete
    <3>6. Blocks(room') = 0
      BY <2>2 DEF HandOver, Blocks
    <3>7. live' = live /\ (loaded' <=> loaded)
      BY <1>6 DEF WriteCopy, kernel
    <3>. QED
      BY <1>1, <1>2, <3>4, <3>5, <3>6, <3>7 DEF PointersInv, PointersLive
  <2>3. CASE UNCHANGED <<buffer, room>>
    BY <1>6, <2>3 DEF WriteCopy, PointersInv, PointersLive, RingBlocks, Blocks, kernel
  <2>. QED
    BY <2>1, <2>2, <2>3
<1>7. CASE UNCHANGED <<loaded, device>>
  BY <1>7 DEF device, PointersInv, PointersLive, RingBlocks, Blocks
<1>8. \/ Load \/ Unload \/ UNCHANGED <<loaded, device>>
      \/ \E p \in Proc : WriteRealloc(p) \/ WriteCopy(p)
  BY DEF Next, Body, Open, Release, Call, Lock, Interrupted, ReadFind, ReadEnd,
     ReadCopy,
         Llseek, IoctlSeek, IoctlFail, Unlock, Return, vars, kernel
<1>. QED
  BY <1>3, <1>4, <1>5, <1>6, <1>7, <1>8

(* No block is pointed to twice and none is freed while it is pointed to:   *)
(* there are never more pointers in the ring and in dev->entry than blocks. *)
THEOREM PointersAreLive == Spec => []PointersLive
<1>1. Init => PointersInv
  BY RingBlocksEmpty DEF Init, PointersInv, PointersLive, Blocks
<1>2. PointersInv => PointersLive
  BY DEF PointersInv
<1>. QED
  BY <1>1, <1>2, PointersNext, Invariant, PTL DEF Spec

-----------------------------------------------------------------------------

(* The device holds the newest of what was accepted; the rest is evicted. *)
NewestInv ==
  /\ accepted \in Seq(Byte)
  /\ \E r \in Seq(Byte) : Tiles(r, FlattenSeq(Window(buffer)), entry, accepted)

(* What a step with the invariant leaves alone. *)
LEMMA NewestQuiet ==
  ASSUME NewestInv, UNCHANGED <<buffer, entry, accepted>>
  PROVE  NewestInv'
BY DEF NewestInv

(* Loading the module starts with nothing held and everything evicted. *)
LEMMA NewestLoad ==
  ASSUME NewestInv, Load
  PROVE  NewestInv'
<1>1. FlattenSeq(Window(buffer')) \o entry' = << >>
  BY EmptyBufferFacts, FlattenEmpty, EmptySeq, ConcatEmptySeq DEF Load, NoEntry
<1>2. accepted' = accepted \o (FlattenSeq(Window(buffer')) \o entry')
  BY <1>1, ConcatEmptySeq DEF Load, NewestInv
<1>. QED
  BY <1>2 DEF Load, NewestInv, Tiles

(* A write adds its bytes at the end; what it evicts is the oldest. *)
LEMMA NewestWrite ==
  ASSUME IInv, NewestInv, NEW p \in Proc, WriteCopy(p)
  PROVE  NewestInv'
<1>. DEFINE c == FlattenSeq(Window(buffer))
<1>1. PICK n \in 0 .. Len(call[p].data) :
        /\ accepted' = accepted \o SubSeq(call[p].data, 1, n)
        /\ \/ Completes(Pending(p, n)) /\ HandOver(Pending(p, n))
           \/ entry' = Pending(p, n) /\ UNCHANGED buffer
  BY DEF WriteCopy
<1>. DEFINE d == SubSeq(call[p].data, 1, n)
<1>2. d \in Seq(Byte)
  <2>1. call[p].data \in Seq(Byte) /\ Len(call[p].data) \in Nat
    BY WriteData, LenProperties DEF IInv, WriteCopy, At
  <2>2. \A i \in 1 .. n : call[p].data[i] \in Byte
    BY <2>1
  <2>. QED
    BY <2>1, <2>2, SubSeqProperties
<1>3. /\ buffer \in Buffer /\ OffsetsAgree(buffer) /\ entry \in Seq(Byte)
      /\ Pending(p, n) = entry \o d /\ Pending(p, n) \in Seq(Byte)
  BY PendingType DEF IInv, DeviceTypes, CommandsComplete, WriteCopy, At, Pending
<1>4. c \in Seq(Byte)
  BY <1>3, ContentBytes
<1>5. PICK r \in Seq(Byte) : Tiles(r, c, entry, accepted)
  BY DEF NewestInv
<1>. HIDE DEF c, d
<1>6. Tiles(r, c, Pending(p, n), accepted')
  <2>1. Tiles(r, c, entry \o d, accepted \o d)
    BY <1>2, <1>3, <1>4, <1>5, AddedBytes
  <2>. QED
    BY <1>1, <1>3, <2>1, Zenon DEF d
<1>7. accepted' \in Seq(Byte)
  BY <1>1, <1>2, ConcatProperties DEF NewestInv, d
<1>8. CASE Completes(Pending(p, n)) /\ HandOver(Pending(p, n))
  <2>. DEFINE cc == FlattenSeq(Window(buffer'))
  <2>1. Pending(p, n) \in Seq(Byte) \ {NoEntry}
    BY <1>3, <1>8, CompleteNotEmpty DEF Completes
  <2>2. PICK gone \in Seq(Byte) : c \o Pending(p, n) = gone \o cc
    BY <1>3, <1>8, <2>1, AddEntryContent DEF HandOver, c
  <2>3. buffer' \in Buffer
    BY <1>3, <1>8, AddEntryType DEF HandOver
  <2>4. cc \in Seq(Byte)
    BY <2>3, ContentBytes
  <2>. HIDE DEF cc
  <2>5. r \o gone \in Seq(Byte) /\ Tiles(r \o gone, cc, << >>, accepted')
    BY <1>6, <2>2, <2>4, EvictedBytes
  <2>6. entry' = << >>
    BY <1>8 DEF HandOver, NoEntry
  <2>. QED
    BY <1>7, <2>5, <2>6 DEF NewestInv, cc
<1>9. CASE entry' = Pending(p, n) /\ UNCHANGED buffer
  BY <1>6, <1>7, <1>9 DEF NewestInv, c
<1>. QED
  BY <1>1, <1>8, <1>9

(* Only loads and the copies of writes change what is held. *)
LEMMA NewestNext == IInv /\ NewestInv /\ [Next]_vars => NewestInv'
<1>. SUFFICES ASSUME IInv, NewestInv, [Next]_vars PROVE NewestInv'
  OBVIOUS
<1>1. \/ Load
      \/ \E p \in Proc : WriteCopy(p)
      \/ UNCHANGED <<buffer, entry, accepted>>
  BY DEF Next, Body, Unload, Open, Release, Call, Lock, Interrupted, WriteRealloc,
         ReadFind, ReadEnd, ReadCopy, Llseek, IoctlSeek, IoctlFail, Unlock, Return,
         vars, device
<1>. QED
  BY <1>1, NewestLoad, NewestWrite, NewestQuiet

(* Nothing was accepted before the first load. *)
LEMMA NewestInit == Init => NewestInv
<1>. SUFFICES ASSUME Init PROVE NewestInv
  OBVIOUS
<1>1. << >> \o (FlattenSeq(Window(buffer)) \o entry) = << >>
  BY EmptyBufferFacts, FlattenEmpty, EmptySeq, ConcatEmptySeq DEF Init, NoEntry
<1>. QED
  BY <1>1, EmptySeq DEF Init, NewestInv, Tiles

(* What the ring and dev->entry hold is the tail of all that the writers    *)
(* gave, for any sequence of writes, partial copies and evictions.          *)
THEOREM NewestAreHeld == Spec => []HoldsNewest
<1>1. IInv /\ NewestInv => HoldsNewest
  <2>. SUFFICES ASSUME IInv, NewestInv PROVE HoldsNewest
    OBVIOUS
  <2>. DEFINE held == FlattenSeq(Window(buffer)) \o entry
  <2>1. held \in Seq(Byte)
    BY ContentBytes, ConcatProperties DEF IInv, DeviceTypes
  <2>2. PICK r \in Seq(Byte) : accepted = r \o held
    BY Zenon DEF NewestInv, Tiles
  <2>. HIDE DEF held
  <2>3. IsSuffix(held, r \o held)
    BY <2>1, ConcatSuffix
  <2>. QED
    BY <2>2, <2>3, Zenon DEF HoldsNewest, held
<1>. QED
  BY <1>1, NewestInit, NewestNext, Invariant, PTL DEF Spec

-----------------------------------------------------------------------------

(* The arguments of the other calls. *)
LEMMA CallArguments ==
  ASSUME NEW p \in Proc, DeviceTypes
  PROVE  /\ call[p].op = "read" => call[p].count \in Nat
         /\ call[p].op = "llseek" => /\ call[p].offset \in Int
                                     /\ call[p].whence \in {"SEEK_SET", "SEEK_CUR", "SEEK_END"}
         /\ call[p].op = "ioctl" /\ call[p].cmd = "AESDCHAR_IOCSEEKTO"
              => /\ call[p].arg.write_cmd \in Nat
                 /\ call[p].arg.write_cmd_offset \in Nat
<1>1. call[p] \in Calls \cup {NoCall}
  BY DEF DeviceTypes
<1>2. CASE call[p] \in [op : {"read"}, count : Count]
  BY <1>2, CharAssumption
<1>3. CASE call[p] \in [op : {"llseek"}, whence : {"SEEK_SET", "SEEK_CUR", "SEEK_END"},
                        offset : Offset]
  BY <1>3, CharAssumption
<1>4. CASE call[p] \in SeekToCalls
  <2>1. call[p].op = "ioctl" /\ call[p].arg \in SeekTo
    BY <1>4 DEF SeekToCalls
  <2>. QED
    BY <2>1, CharAssumption
<1>. QED
  BY <1>1, <1>2, <1>3, <1>4 DEF Calls, NoCall

(* A position is that of the file, not negative for a read or write, until  *)
(* the handler moves it; a read copies from a slot.                         *)
PositionsGiven ==
  \A p \in Proc : call[p].op \in {"read", "write"} /\ pc[p] \in {"lock", "enter", "copy"}
                    => pos[p] >= 0

SlotsFound ==
  \A p \in Proc : At(p, "copy", "read") => found[p] # NoSlot /\ found[p].slot \in Slots

CallTypes ==
  /\ loaded \in BOOLEAN
  /\ opened \subseteq File
  /\ fpos \in [File -> Int]
  /\ pos \in [Proc -> Int]
  /\ found \in [Proc -> [slot : Int, offset : Int]]
  /\ ret \in [Proc -> Int]
  /\ PositionsGiven
  /\ SlotsFound

(* No call is made before the first step. *)
LEMMA CallTypesInit == Init => CallTypes
<1>. SUFFICES ASSUME Init PROVE CallTypes
  OBVIOUS
<1>1. NoSlot \in [slot : Int, offset : Int]
  BY DEF NoSlot
<1>2. found \in [Proc -> [slot : Int, offset : Int]]
  BY <1>1 DEF Init
<1>3. PositionsGiven /\ SlotsFound
  BY DEF Init, PositionsGiven, SlotsFound, At
<1>4. fpos \in [File -> Int] /\ pos \in [Proc -> Int] /\ ret \in [Proc -> Int]
  BY DEF Init
<1>. QED
  BY <1>2, <1>3, <1>4 DEF Init, CallTypes

(* How many bytes a read may copy. *)
LEMMA NumOfWritesType ==
  ASSUME IInv, CallTypes, NEW p \in Proc, At(p, "copy", "read")
  PROVE  /\ NumOfWrites(p) \in Int
         /\ NumOfWrites(p) <= Len(buffer.entry[found[p].slot]) - found[p].offset
<1>1. call[p].count \in Int
  BY CallArguments DEF IInv, At
<1>2. found[p].slot \in Slots /\ found[p].offset \in Int
  BY DEF CallTypes, SlotsFound
<1>3. buffer.entry[found[p].slot] \in Seq(Byte)
  BY <1>2 DEF IInv, DeviceTypes, Buffer
<1>4. Len(buffer.entry[found[p].slot]) - found[p].offset \in Int
  <2>. DEFINE l == Len(buffer.entry[found[p].slot])
              o == found[p].offset
  <2>1. l \in Nat /\ o \in Int
    BY <1>2, <1>3, LenProperties
  <2>. HIDE DEF l, o
  <2>2. l - o \in Int
    BY <2>1
  <2>. QED
    BY <2>2 DEF l, o
<1>. DEFINE a == call[p].count
            b == Len(buffer.entry[found[p].slot]) - found[p].offset
<1>5. NumOfWrites(p) = Min({a, b})
  BY Zenon DEF NumOfWrites
<1>. HIDE DEF a, b
<1>6. Min({a, b}) \in Int /\ Min({a, b}) <= b
  BY <1>1, <1>4, MinOfTwo DEF a, b
<1>. QED
  BY <1>5, <1>6, Zenon DEF b

(* The positions the repositioning calls store are numbers. *)
LEMMA LlseekType ==
  ASSUME IInv, CallTypes, NEW p \in Proc, Llseek(p)
  PROVE  \E to \in Int : fpos' = [fpos EXCEPT ![FileOf[p]] = to] /\ Result(p, to)
<1>. DEFINE to == FixedSizeLlseek(fpos[FileOf[p]], call[p], buffer.total_size)
<1>1. call[p].op = "llseek"
  BY DEF Llseek, At
<1>2. call[p].offset \in Int /\ call[p].whence \in {"SEEK_SET", "SEEK_CUR", "SEEK_END"}
  BY <1>1, CallArguments DEF IInv
<1>3. fpos[FileOf[p]] \in Int
  BY CharAssumption DEF CallTypes
<1>4. buffer.total_size \in Int
  BY SizeModAssumption DEF IInv, DeviceTypes, Buffer
<1>5. to \in Int
  BY <1>2, <1>3, <1>4 DEF FixedSizeLlseek, EINVAL
<1>6. fpos' = [fpos EXCEPT ![FileOf[p]] = to] /\ Result(p, to)
  BY DEF Llseek
<1>. QED
  BY <1>5, <1>6

(* The position AESDCHAR_IOCSEEKTO computes is a number. *)
LEMMA SeekPosType ==
  ASSUME IInv, NEW p \in Proc, IoctlSeek(p)
  PROVE  SeekPos(call[p].arg) \in Int
<1>1. call[p].arg.write_cmd_offset \in Int
  BY CallArguments DEF IInv, IoctlSeek, At
<1>2. call[p].arg.write_cmd \in 0 .. MaxOps
  BY MaxOpsAssumption DEF IoctlSeek, Seekable, Slots
<1>3. SizeBefore(buffer) \in [0 .. MaxOps -> Nat]
  BY SizeBeforeType DEF IInv, DeviceTypes
<1>. QED
  BY <1>1, <1>2, <1>3 DEF SeekPos

(* A handler that repositions the file and returns. *)
LEMMA RepositionStep ==
  ASSUME IInv, CallTypes, NEW p \in Proc, NEW to \in Int, NEW r \in Int,
         fpos' = [fpos EXCEPT ![FileOf[p]] = to], Result(p, r), Goto(p, "exit"),
         UNCHANGED <<kernel, call, pos, found>>
  PROVE  CallTypes'
<1>1. fpos' \in [File -> Int] /\ ret' \in [Proc -> Int]
  BY DEF CallTypes, Result
<1>2. PositionsGiven' /\ SlotsFound'
  BY DEF IInv, DeviceTypes, CallTypes, PositionsGiven, SlotsFound, At, Goto
<1>. QED
  BY <1>1, <1>2 DEF CallTypes, kernel

(* Every handler stores a number, and copies from a slot it has found. *)
LEMMA CallTypesNext == IInv /\ CallTypes /\ [Next]_vars => CallTypes'
<1>. SUFFICES ASSUME IInv, CallTypes, [Next]_vars PROVE CallTypes'
  OBVIOUS
<1>. USE DEF CallTypes, PositionsGiven, SlotsFound, At, Goto, IInv, DeviceTypes
<1>1. CASE Load
  BY <1>1 DEF Load, SetupCdev
<1>2. CASE Unload
  BY <1>2 DEF Unload
<1>3. ASSUME NEW f \in File, Open(f) \/ Release(f)
      PROVE  CallTypes'
  BY <1>3 DEF Open, Release
<1>4. ASSUME NEW p \in Proc, NEW c \in Calls, Call(p, c)
      PROVE  CallTypes'
  BY <1>4, CharAssumption DEF Call, kernel
<1>5. ASSUME NEW p \in Proc, Lock(p) \/ Interrupted(p) \/ Unlock(p)
      PROVE  CallTypes'
  BY <1>5 DEF Lock, Interrupted, Unlock, Result, ERESTARTSYS, kernel
<1>6. ASSUME NEW p \in Proc, Return(p)
      PROVE  CallTypes'
  <2>1. NoSlot \in [slot : Int, offset : Int]
    BY DEF NoSlot
  <2>2. found' \in [Proc -> [slot : Int, offset : Int]]
    BY <1>6, <2>1 DEF Return
  <2>3. fpos' \in [File -> Int]
    BY <1>6, CharAssumption DEF Return
  <2>. QED
    BY <1>6, <2>2, <2>3 DEF Return, kernel
<1>7. ASSUME NEW p \in Proc, WriteRealloc(p)
      PROVE  CallTypes'
  BY <1>7 DEF WriteRealloc, kernel
<1>8. ASSUME NEW p \in Proc, WriteCopy(p)
      PROVE  CallTypes'
  <2>1. PICK n \in 0 .. Len(call[p].data) : Result(p, n)
    BY <1>8 DEF WriteCopy
  <2>2. n \in Int
    BY <1>8, WriteData, LenProperties DEF WriteCopy
  <2>. QED
    BY <1>8, <2>1, <2>2 DEF WriteCopy, Result, kernel
<1>9. ASSUME NEW p \in Proc, ReadFind(p)
      PROVE  CallTypes'
  <2>1. FindEntry(buffer, pos[p]) \in [slot : Slots, offset : Int] \cup {NoSlot}
    BY FindEntryType
  <2>2. Slots \subseteq Int
    BY DEF Slots
  <2>. QED
    BY <1>9, <2>1, <2>2 DEF ReadFind, kernel
<1>10. ASSUME NEW p \in Proc, ReadEnd(p)
       PROVE  CallTypes'
  BY <1>10 DEF ReadEnd, Result, kernel
<1>11. ASSUME NEW p \in Proc, ReadCopy(p)
       PROVE  CallTypes'
  <2>1. PICK n \in 0 .. NumOfWrites(p) : Advance(p, n) /\ Result(p, n)
    BY <1>11 DEF ReadCopy
  <2>2. n \in Int
    BY <1>11, NumOfWritesType DEF ReadCopy
  <2>. QED
    BY <1>11, <2>1, <2>2 DEF ReadCopy, Advance, Result, kernel
<1>12. ASSUME NEW p \in Proc, Llseek(p)
       PROVE  CallTypes'
  <2>1. PICK to \in Int : fpos' = [fpos EXCEPT ![FileOf[p]] = to] /\ Result(p, to)
    BY <1>12, LlseekType
  <2>. QED
    BY <1>12, <2>1, RepositionStep DEF Llseek
<1>13. ASSUME NEW p \in Proc, IoctlSeek(p)
       PROVE  CallTypes'
  <2>1. SeekPos(call[p].arg) \in Int
    BY <1>13, SeekPosType
  <2>2. PICK to \in Int : fpos' = [fpos EXCEPT ![FileOf[p]] = to]
    BY <1>13, <2>1 DEF IoctlSeek
  <2>3. 0 \in Int /\ Result(p, 0) /\ Goto(p, "exit") /\ UNCHANGED <<kernel, call, pos, found>>
    BY <1>13 DEF IoctlSeek
  <2>. QED
    BY <2>2, <2>3, RepositionStep
<1>14. ASSUME NEW p \in Proc, IoctlFail(p)
       PROVE  CallTypes'
  BY <1>14 DEF IoctlFail, Result, ENOTTY, EFAULT, EINVAL, kernel
<1>15. CASE UNCHANGED vars
  BY <1>15 DEF vars, kernel
<1>. QED
  BY <1>1, <1>2, <1>3, <1>4, <1>5, <1>6, <1>7, <1>8, <1>9, <1>10, <1>11, <1>12, <1>13,
     <1>14, <1>15 DEF Next, Body

(* No step of any process ever leaves a variable outside its type: slots,   *)
(* positions and results stay numbers, the device a buffer and its bytes.   *)
THEOREM TypeCorrect == Spec => []TypeOK
<1>1. Init => PointersInv
  BY RingBlocksEmpty DEF Init, PointersInv, PointersLive, Blocks
<1>2. IInv /\ CallTypes /\ NewestInv /\ PointersInv => TypeOK
  BY DEF IInv, DeviceTypes, CallTypes, NewestInv, PointersInv, TypeOK
<1>. QED
  BY <1>1, <1>2, CallTypesInit, CallTypesNext, NewestInit, NewestNext, PointersNext,
     Invariant, PTL DEF Spec

-----------------------------------------------------------------------------

(* A call that AESDCHAR_IOCSEEKTO serves is the only one that ends in 0.    *)
LEMMA SeekSucceedsStep ==
  ASSUME IInv, Next, NEW p \in Proc, SeekSucceeds(p), ret \in [Proc -> Int]
  PROVE  IoctlSeek(p)
<1>. USE DEF SeekSucceeds, At, Goto, IInv, DeviceTypes
<1>1. ~(Load \/ Unload \/ \E f \in File : Open(f) \/ Release(f))
  BY DEF Load, Unload, Open, Release
<1>2. \A q \in Proc, c \in Calls : ~Call(q, c)
  BY DEF Call
<1>3. \A q \in Proc : ~(Lock(q) \/ Interrupted(q) \/ Unlock(q) \/ Return(q))
  BY DEF Lock, Interrupted, Unlock, Return
<1>4. \A q \in Proc : ~(WriteRealloc(q) \/ WriteCopy(q) \/ ReadFind(q) \/ ReadEnd(q)
                        \/ ReadCopy(q) \/ Llseek(q))
  BY DEF WriteRealloc, WriteCopy, ReadFind, ReadEnd, ReadCopy, Llseek
<1>5. \A q \in Proc : ~IoctlFail(q)
  BY DEF IoctlFail, Result, ENOTTY, EFAULT, EINVAL
<1>6. \A q \in Proc : IoctlSeek(q) => q = p
  BY DEF IoctlSeek
<1>. QED
  BY <1>1, <1>2, <1>3, <1>4, <1>5, <1>6 DEF Next, Body

(* AESDCHAR_IOCSEEKTO never leaves the file where nothing can be read, and  *)
(* reaches the byte asked for until the first command is evicted.           *)
THEOREM SeekLandsOnByte == Spec => SeekLands
<1>1. IInv /\ CallTypes /\ [Next]_vars =>
        [\A p \in Proc :
           SeekSucceeds(p) => /\ SeekTarget(p) # NoSlot
                              /\ buffer.out_offs = 0 => SeekTarget(p) = SeekRequest(p)]_vars
  <2>. SUFFICES ASSUME IInv, CallTypes, Next, NEW p \in Proc, SeekSucceeds(p)
                PROVE  /\ SeekTarget(p) # NoSlot
                       /\ buffer.out_offs = 0 => SeekTarget(p) = SeekRequest(p)
    OBVIOUS
  <2>. DEFINE arg == call[p].arg
  <2>1. IoctlSeek(p)
    BY SeekSucceedsStep DEF CallTypes
  <2>2. arg.write_cmd \in Slots /\ arg.write_cmd_offset < Len(buffer.entry[arg.write_cmd])
    BY <2>1 DEF IoctlSeek, Seekable
  <2>3. arg.write_cmd_offset \in Nat
    BY <2>1, CallArguments DEF IInv, IoctlSeek, At
  <2>4. buffer \in Buffer /\ OffsetsAgree(buffer)
    BY DEF IInv, DeviceTypes, CommandsComplete
  <2>5. fpos'[FileOf[p]] = SizeBefore(buffer)[arg.write_cmd] + arg.write_cmd_offset
    BY <2>1, CharAssumption DEF CallTypes, IoctlSeek, SeekPos
  <2>. HIDE DEF arg
  <2>. QED
    BY <2>2, <2>3, <2>4, <2>5, TablePosition DEF SeekTarget, SeekRequest, arg
<1>. QED
  BY <1>1, CallTypesInit, CallTypesNext, Invariant, PTL DEF Spec, SeekLands

-----------------------------------------------------------------------------

(* When a read copies, its position is in a command held and it copies from *)
(* there.                                                                   *)
LEMMA FoundCommand ==
  ASSUME IInv, CallTypes, FoundStays, NEW p \in Proc, At(p, "copy", "read")
  PROVE  /\ pos[p] \in Nat
         /\ \E k \in 1 .. Held(buffer) :
              /\ ReadsFrom(buffer, k, pos[p])
              /\ found[p] = [slot   |-> SlotOf(buffer, k),
                             offset |-> pos[p] - SizeSeen(buffer)[k - 1]]
<1>1. buffer \in Buffer /\ OffsetsAgree(buffer)
  BY DEF IInv, DeviceTypes, CommandsComplete
<1>2. pos[p] \in Nat
  BY DEF CallTypes, PositionsGiven, At
<1>3. found[p] = FindEntry(buffer, pos[p]) /\ found[p] # NoSlot
  BY DEF FoundStays, CallTypes, SlotsFound
<1>4. Len(FlattenSeq(Window(buffer))) \in Nat
  BY <1>1, ContentBytes, LenProperties
<1>5. pos[p] < Len(FlattenSeq(Window(buffer)))
  BY <1>1, <1>2, <1>3, <1>4, FindEntryNone
<1>. QED
  BY <1>1, <1>2, <1>3, <1>5, FindEntryStep DEF ReadsFrom

(* Where in the history of all bytes position 0 is: it only ever grows.     *)
LEMMA EvictedGrows ==
  ASSUME IInv, NewestInv, [Next]_vars, IInv', NewestInv'
  PROVE  Evicted \in Int /\ Evicted' \in Int /\ Evicted <= Evicted'
<1>. DEFINE c == FlattenSeq(Window(buffer))
            cc == FlattenSeq(Window(buffer'))
<1>1. c \in Seq(Byte) /\ cc \in Seq(Byte)
  BY ContentBytes DEF IInv, DeviceTypes
<1>2. /\ entry \in Seq(Byte) /\ entry' \in Seq(Byte)
      /\ accepted \in Seq(Byte) /\ accepted' \in Seq(Byte)
  BY DEF IInv, DeviceTypes, NewestInv
<1>3. /\ Len(c) \in Nat /\ Len(cc) \in Nat /\ Len(entry) \in Nat /\ Len(entry') \in Nat
      /\ Len(accepted) \in Nat /\ Len(accepted') \in Nat
  BY <1>1, <1>2, LenProperties
<1>4. /\ Evicted = Len(accepted) - Len(entry) - Len(c)
      /\ Evicted' = Len(accepted') - Len(entry') - Len(cc)
  BY DEF Evicted
<1>. HIDE DEF c, cc
<1>5. CASE Load
  <2>1. cc = << >> /\ entry' = << >>
    BY <1>5, EmptyBufferFacts, FlattenEmpty DEF Load, NoEntry, cc
  <2>2. Len(cc) = 0 /\ Len(entry') = 0 /\ accepted' = accepted
    BY <1>5, <2>1 DEF Load
  <2>. QED
    BY <1>3, <1>4, <2>2
<1>6. ASSUME NEW p \in Proc, WriteCopy(p)
      PROVE  Evicted <= Evicted'
  <2>1. PICK n \in 0 .. Len(call[p].data) :
          /\ accepted' = accepted \o SubSeq(call[p].data, 1, n)
          /\ \/ Completes(Pending(p, n)) /\ HandOver(Pending(p, n))
             \/ entry' = Pending(p, n) /\ UNCHANGED buffer
    BY <1>6 DEF WriteCopy
  <2>2. call[p].data \in Seq(Byte) /\ Len(call[p].data) \in Nat
    BY <1>6, WriteData, LenProperties DEF IInv, WriteCopy, At
  <2>3. SubSeq(call[p].data, 1, n) \in Seq(Byte) /\ Len(SubSeq(call[p].data, 1, n)) = n
    <3>1. \A i \in 1 .. n : call[p].data[i] \in Byte
      BY <2>2
    <3>. QED
      BY <2>2, <3>1, SubSeqProperties
  <2>4. n \in Nat /\ Len(accepted') = Len(accepted) + n
    BY <1>2, <2>1, <2>2, <2>3, ConcatProperties
  <2>5. Pending(p, n) \in Seq(Byte) /\ Len(Pending(p, n)) = Len(entry) + n
    BY <1>6, PendingType DEF IInv, WriteCopy, At
  <2>6. CASE Completes(Pending(p, n)) /\ HandOver(Pending(p, n))
    <3>1. Pending(p, n) \in Seq(Byte) \ {NoEntry}
      BY <2>5, <2>6, CompleteNotEmpty DEF Completes
    <3>2. PICK gone \in Seq(Byte) : c \o Pending(p, n) = gone \o cc
      BY <2>6, <3>1, AddEntryContent
      DEF HandOver, IInv, DeviceTypes, CommandsComplete, c, cc
    <3>3. Len(c \o Pending(p, n)) = Len(c) + Len(Pending(p, n))
      BY <1>1, <2>5, ConcatProperties
    <3>4. Len(gone \o cc) = Len(gone) + Len(cc) /\ Len(gone) \in Nat
      BY <1>1, <3>2, ConcatProperties, LenProperties
    <3>5. Len(c) + Len(entry) + n = Len(gone) + Len(cc)
      BY <1>3, <2>4, <2>5, <3>2, <3>3, <3>4
    <3>6. Len(entry') = 0
      BY <2>6 DEF HandOver, NoEntry
    <3>. QED
      BY <1>3, <1>4, <2>4, <3>4, <3>5, <3>6
  <2>7. CASE entry' = Pending(p, n) /\ UNCHANGED buffer
    <3>1. cc = c
      BY <2>7 DEF c, cc
    <3>. QED
      BY <1>3, <1>4, <2>4, <2>5, <2>7, <3>1
  <2>. QED
    BY <2>1, <2>6, <2>7
<1>7. CASE UNCHANGED <<buffer, entry, accepted>>
  <2>1. cc = c /\ entry' = entry /\ accepted' = accepted
    BY <1>7 DEF c, cc
  <2>. QED
    BY <1>3, <1>4, <2>1
<1>8. \/ Load
      \/ \E p \in Proc : WriteCopy(p)
      \/ UNCHANGED <<buffer, entry, accepted>>
  BY DEF Next, Body, Unload, Open, Release, Call, Lock, Interrupted, WriteRealloc,
         ReadFind, ReadEnd, ReadCopy, Llseek, IoctlSeek, IoctlFail, Unlock, Return,
         vars, device
<1>9. Evicted \in Int /\ Evicted' \in Int
  BY <1>3, <1>4
<1>. QED
  BY <1>5, <1>6, <1>7, <1>8, <1>9

-----------------------------------------------------------------------------
(* Every file belongs to one process. *)
FilesNotShared == \A p, q \in Proc : FileOf[p] = FileOf[q] => p = q

ReadEvents == [base : Int, from : Int, bytes : Seq(Byte)]

(* Where the last read through a file ended. *)
EndOf(f) == last[f].base + last[f].from + Len(last[f].bytes)

(* p has a position that the kernel is going to store in the file. *)
Moved(p) ==
  call[p].op \in {"read", "write"} /\ pc[p] \in {"exit", "return"} /\ ret[p] >= 0

(* p works with a copy of the file's position, or with what it made of it. *)
Moving(p) ==
  call[p].op \in {"read", "write"} /\ (pc[p] \in {"lock", "enter", "copy"} \/ Moved(p))

(* The position a file has, and the one a call through it works with, are   *)
(* not before the end of the last read.                                     *)
ForwardAt(f) ==
  last[f] # NoRead =>
    /\ last[f] \in ReadEvents
    /\ (\A p \in Proc : FileOf[p] = f => ~Moved(p)) => EndOf(f) <= Evicted + fpos[f]
    /\ \A p \in Proc : FileOf[p] = f /\ Moving(p) => EndOf(f) <= Evicted + pos[p]

ForwardInv == /\ last = [f \in File |-> last[f]]
              /\ \A f \in File : ForwardAt(f)

(* No file has a last read. *)
LEMMA ForwardInit == Init => ForwardInv
BY CharAssumption DEF Init, ForwardInv, ForwardAt

(* A last read ends at a number. *)
LEMMA EndType ==
  ASSUME NEW f, last[f] \in ReadEvents
  PROVE  EndOf(f) \in Int
<1>1. last[f].base \in Int /\ last[f].from \in Int /\ Len(last[f].bytes) \in Nat
  BY LenProperties DEF ReadEvents
<1>. QED
  BY <1>1 DEF EndOf

(* The file f and the calls through it are as they were, but for the mutex. *)
Kept(f) ==
  /\ last'[f] = last[f] /\ fpos'[f] = fpos[f]
  /\ \A p \in Proc : FileOf[p] = f => /\ pos'[p] = pos[p]
                                      /\ Moved(p) => Moved(p)'
                                      /\ Moving(p)' => Moving(p)

(* A file that a step leaves alone stays ahead of its last read: evictions  *)
(* only move positions forward in the history of all bytes.                 *)
LEMMA ForwardKept ==
  ASSUME NEW f \in File, ForwardAt(f), CallTypes, Kept(f),
         Evicted \in Int, Evicted' \in Int, Evicted <= Evicted'
  PROVE  ForwardAt(f)'
<1>. SUFFICES ASSUME last[f] # NoRead PROVE ForwardAt(f)'
  BY DEF Kept, ForwardAt
<1>1. last'[f] \in ReadEvents /\ EndOf(f)' = EndOf(f) /\ EndOf(f) \in Int
  BY EndType DEF Kept, ForwardAt, EndOf
<1>2. ASSUME \A p \in Proc : FileOf[p] = f => ~Moved(p)'
      PROVE  EndOf(f)' <= Evicted' + fpos'[f]
  <2>1. EndOf(f) <= Evicted + fpos[f]
    BY <1>2 DEF Kept, ForwardAt
  <2>2. fpos[f] \in Int /\ fpos'[f] = fpos[f]
    BY DEF CallTypes, Kept
  <2>. QED
    BY <1>1, <2>1, <2>2
<1>3. ASSUME NEW p \in Proc, FileOf[p] = f, Moving(p)'
      PROVE  EndOf(f)' <= Evicted' + pos'[p]
  <2>1. EndOf(f) <= Evicted + pos[p]
    BY <1>3 DEF Kept, ForwardAt
  <2>2. pos[p] \in Int /\ pos'[p] = pos[p]
    BY <1>3 DEF CallTypes, Kept
  <2>. QED
    BY <1>1, <2>1, <2>2
<1>. QED
  BY <1>1, <1>2, <1>3 DEF ForwardAt

(* A file that is repositioned, or given back, has no last read.            *)
LEMMA ForwardForgotten ==
  ASSUME NEW f \in File, last' = [last EXCEPT ![f] = NoRead], ForwardInv, CallTypes,
         Evicted \in Int, Evicted' \in Int, Evicted <= Evicted',
         \A g \in File : g # f => Kept(g)
  PROVE  ForwardInv'
<1>1. ASSUME NEW g \in File PROVE ForwardAt(g)'
  <2>1. CASE g = f
    BY <2>1 DEF ForwardInv, ForwardAt
  <2>2. CASE g # f
    BY <2>2, ForwardKept DEF ForwardInv
  <2>. QED
    BY <2>1, <2>2
<1>2. last' = [g \in File |-> last'[g]]
  BY DEF ForwardInv
<1>. QED
  BY <1>1, <1>2 DEF ForwardInv

(* A process's step disturbs its own file only. *)
LEMMA ForwardOwn ==
  ASSUME NEW p \in Proc, ForwardInv, CallTypes, UNCHANGED last,
         Evicted \in Int, Evicted' \in Int, Evicted <= Evicted',
         \A g \in File : g # FileOf[p] => Kept(g), ForwardAt(FileOf[p])'
  PROVE  ForwardInv'
<1>1. ASSUME NEW g \in File PROVE ForwardAt(g)'
  <2>1. CASE g = FileOf[p]
    BY <2>1, Zenon
  <2>2. CASE g # FileOf[p]
    BY <2>2, ForwardKept DEF ForwardInv
  <2>. QED
    BY <2>1, <2>2
<1>. QED
  BY <1>1 DEF ForwardInv

(* What another process than p works with. *)
LEMMA OthersKept ==
  ASSUME IInv, CallTypes, NEW p \in Proc, NEW f \in File, f # FileOf[p],
         pc' = [pc EXCEPT ![p] = pc'[p]], call' = [call EXCEPT ![p] = call'[p]],
         pos' = [pos EXCEPT ![p] = pos'[p]], ret' = [ret EXCEPT ![p] = ret'[p]],
         last'[f] = last[f], fpos'[f] = fpos[f]
  PROVE  Kept(f)
<1>1. ASSUME NEW q \in Proc, FileOf[q] = f
      PROVE  /\ pc'[q] = pc[q] /\ call'[q] = call[q]
             /\ pos'[q] = pos[q] /\ ret'[q] = ret[q]
  BY <1>1 DEF IInv, DeviceTypes, CallTypes
<1>. QED
  BY <1>1 DEF Kept, Moved, Moving

(* The steps of p that leave the file's last read and its position.         *)
LEMMA CallKept ==
  ASSUME IInv, CallTypes, NEW p \in Proc, NEW f \in File,
         \/ Lock(p) \/ Interrupted(p) \/ Unlock(p)
         \/ WriteRealloc(p) \/ WriteCopy(p) \/ ReadFind(p) \/ IoctlFail(p)
  PROVE  Kept(f)
<1>. USE DEF IInv, DeviceTypes, CallTypes, Kept, Moved, Moving, At, Goto, Result
<1>1. CASE Lock(p)
  BY <1>1 DEF Lock
<1>2. CASE Interrupted(p)
  BY <1>2 DEF Interrupted, ERESTARTSYS
<1>3. CASE Unlock(p)
  BY <1>3 DEF Unlock
<1>4. CASE WriteRealloc(p)
  BY <1>4 DEF WriteRealloc
<1>5. CASE WriteCopy(p)
  BY <1>5 DEF WriteCopy
<1>6. CASE ReadFind(p)
  BY <1>6 DEF ReadFind
<1>7. CASE IoctlFail(p)
  BY <1>7 DEF IoctlFail
<1>. QED
  BY <1>1, <1>2, <1>3, <1>4, <1>5, <1>6, <1>7

(* A read's copy starts where its position is and moves it to its end.      *)
LEMMA ForwardCopy ==
  ASSUME IInv, CallTypes, FoundStays, FilesNotShared, ForwardInv, NEW p \in Proc, ReadCopy(p),
         Evicted \in Int, Evicted' = Evicted
  PROVE  ForwardInv'
<1>. DEFINE f == FileOf[p]
            e == buffer.entry[found[p].slot]
            off == found[p].offset
<1>1. PICK n \in 0 .. NumOfWrites(p) :
        /\ last' = [last EXCEPT ![f] = [base  |-> Evicted,
                                        from  |-> pos[p],
                                        bytes |-> SubSeq(e, off + 1, off + n)]]
        /\ pos' = [pos EXCEPT ![p] = @ + n]
        /\ ret' = [ret EXCEPT ![p] = n]
  BY DEF ReadCopy, Advance, Result
<1>2. At(p, "copy", "read") /\ pc' = [pc EXCEPT ![p] = "exit"] /\ UNCHANGED <<call, fpos>>
  BY DEF ReadCopy, Goto
<1>3. pos[p] \in Nat
  BY <1>2, FoundCommand
<1>4. PICK k \in 1 .. Held(buffer) :
        /\ ReadsFrom(buffer, k, pos[p])
        /\ found[p] = [slot   |-> SlotOf(buffer, k),
                       offset |-> pos[p] - SizeSeen(buffer)[k - 1]]
  BY <1>2, FoundCommand
<1>5. n \in Nat /\ n <= Len(e) - off
  <2>1. NumOfWrites(p) \in Int /\ NumOfWrites(p) <= Len(e) - off
    BY <1>2, NumOfWritesType
  <2>2. Len(e) - off \in Int
    <3>1. off \in Int /\ found[p].slot \in Slots
      BY <1>2 DEF CallTypes, SlotsFound
    <3>2. e \in Seq(Byte)
      BY <3>1 DEF IInv, DeviceTypes, Buffer
    <3>. QED
      BY <3>1, <3>2, LenProperties
  <2>. QED
    BY <2>1, <2>2
<1>6. SubSeq(e, off + 1, off + n) \in Seq(Byte) /\ Len(SubSeq(e, off + 1, off + n)) = n
  <2>1. e = buffer.entry[SlotOf(buffer, k)] /\ off = pos[p] - SizeSeen(buffer)[k - 1]
    BY <1>4
  <2>2. buffer \in Buffer
    BY DEF IInv, DeviceTypes
  <2>. HIDE DEF e, off
  <2>3. Stretch(e, off, n) \in Seq(Byte) /\ Len(Stretch(e, off, n)) = n
    BY <1>3, <1>4, <1>5, <2>1, <2>2, CopiedBytes
  <2>. QED
    BY <2>3 DEF Stretch
<1>7. f \in File /\ \A q \in Proc : FileOf[q] = f => q = p
  BY CharAssumption DEF FilesNotShared
<1>. DEFINE r == [base |-> Evicted, from |-> pos[p], bytes |-> SubSeq(e, off + 1, off + n)]
<1>8. r \in ReadEvents /\ last'[f] = r /\ EndOf(f)' = Evicted + pos[p] + n
  <2>1. last'[f] = r
    BY <1>1, <1>7 DEF ForwardInv
  <2>2. r \in ReadEvents
    BY <1>3, <1>6 DEF ReadEvents
  <2>3. EndOf(f)' = r.base + r.from + Len(r.bytes)
    BY <2>1, Zenon DEF EndOf
  <2>. QED
    BY <1>6, <2>1, <2>2, <2>3
<1>9. pos'[p] = pos[p] + n /\ Moved(p)'
  BY <1>1, <1>2, <1>5 DEF CallTypes, IInv, DeviceTypes, Moved, At
<1>10. ForwardAt(f)'
  <2>1. EndOf(f)' <= Evicted' + pos'[p]
    BY <1>3, <1>5, <1>8, <1>9
  <2>2. last'[f] \in ReadEvents
    BY <1>8
  <2>. HIDE DEF f, r
  <2>3. \A q \in Proc : FileOf[q] = f => EndOf(f)' <= Evicted' + pos'[q]
    BY <1>7, <2>1
  <2>4. ~(\A q \in Proc : FileOf[q] = f => ~Moved(q)')
    BY <1>9 DEF f
  <2>. QED
    BY <2>2, <2>3, <2>4 DEF ForwardAt
<1>11. ASSUME NEW g \in File, g # f PROVE ForwardAt(g)'
  <2>1. last'[g] = last[g] /\ fpos'[g] = fpos[g]
    BY <1>1, <1>2, <1>11 DEF ForwardInv
  <2>2. Kept(g)
    BY <1>1, <1>2, <1>11, <2>1, OthersKept
    DEF CallTypes, IInv, DeviceTypes
  <2>. QED
    BY <2>2, ForwardKept DEF ForwardInv
<1>12. last' = [g \in File |-> last'[g]]
  BY <1>1 DEF ForwardInv
<1>. QED
  BY <1>10, <1>11, <1>12 DEF ForwardInv

(* The calls that end a file's last read.                                   *)
LEMMA ForwardEnd ==
  ASSUME IInv, CallTypes, ForwardInv, NEW p \in Proc,
         ReadEnd(p) \/ Llseek(p) \/ IoctlSeek(p),
         Evicted \in Int, Evicted' \in Int, Evicted <= Evicted'
  PROVE  ForwardInv'
<1>. DEFINE f == FileOf[p]
<1>1. last' = [last EXCEPT ![f] = NoRead] /\ f \in File
  BY CharAssumption DEF ReadEnd, Llseek, IoctlSeek
<1>2. /\ pc' = [pc EXCEPT ![p] = pc'[p]] /\ call' = [call EXCEPT ![p] = call'[p]]
      /\ pos' = [pos EXCEPT ![p] = pos'[p]] /\ ret' = [ret EXCEPT ![p] = ret'[p]]
  <2>1. CASE ReadEnd(p)
    BY <2>1 DEF ReadEnd, Goto, Result, IInv, DeviceTypes, CallTypes
  <2>2. CASE Llseek(p)
    BY <2>2, LlseekType DEF Llseek, Goto, Result, IInv, DeviceTypes, CallTypes
  <2>3. CASE IoctlSeek(p)
    BY <2>3 DEF IoctlSeek, Goto, Result, IInv, DeviceTypes, CallTypes
  <2>. QED
    BY <2>1, <2>2, <2>3
<1>3. ASSUME NEW g \in File, g # f PROVE Kept(g)
  <2>1. last'[g] = last[g]
    BY <1>1, <1>3 DEF ForwardInv
  <2>2. fpos'[g] = fpos[g]
    BY <1>1, <1>3 DEF ReadEnd, Llseek, IoctlSeek, CallTypes
  <2>. QED
    BY <1>2, <1>3, <2>1, <2>2, OthersKept
<1>. QED
  BY <1>1, <1>3, ForwardForgotten

(* A call starts from the file's position, and returns one to it.           *)
LEMMA ForwardCall ==
  ASSUME IInv, CallTypes, FilesNotShared, ForwardInv, NEW p \in Proc, NEW c \in Calls, Call(p, c),
         Evicted \in Int, Evicted' = Evicted
  PROVE  ForwardInv'
<1>. DEFINE f == FileOf[p]
<1>1. f \in File /\ \A q \in Proc : FileOf[q] = f => q = p
  BY CharAssumption DEF FilesNotShared
<1>2. /\ pc[p] = "idle" /\ pc' = [pc EXCEPT ![p] = "lock"] /\ call' = [call EXCEPT ![p] = c]
      /\ pos' = [pos EXCEPT ![p] = fpos[f]] /\ UNCHANGED <<fpos, last, ret>>
  BY DEF Call, Goto
<1>3. ASSUME NEW g \in File, g # f PROVE Kept(g)
  BY <1>2, <1>3, OthersKept DEF IInv, DeviceTypes, CallTypes
<1>4. ~Moved(p)
  BY <1>2 DEF Moved
<1>5. pos'[p] = fpos[f]
  BY <1>2 DEF CallTypes
<1>6. ForwardAt(f)'
  <2>. SUFFICES ASSUME last[f] # NoRead PROVE ForwardAt(f)'
    BY <1>2 DEF ForwardAt
  <2>1. EndOf(f) <= Evicted + fpos[f] /\ last[f] \in ReadEvents
    BY <1>1, <1>4 DEF ForwardInv, ForwardAt
  <2>2. EndOf(f)' = EndOf(f) /\ fpos'[f] = fpos[f] /\ last'[f] = last[f]
    BY <1>2 DEF EndOf
  <2>. QED
    BY <1>1, <1>5, <2>1, <2>2 DEF ForwardAt
<1>7. \A g \in File : g # FileOf[p] => Kept(g)
  BY <1>3
<1>8. Evicted <= Evicted' /\ Evicted' \in Int /\ UNCHANGED last
  BY <1>2
<1>. QED
  BY <1>6, <1>7, <1>8, ForwardOwn

(* The kernel stores the position the call moved to. *)
LEMMA ForwardReturn ==
  ASSUME IInv, CallTypes, FilesNotShared, ForwardInv, NEW p \in Proc, Return(p),
         Evicted \in Int, Evicted' = Evicted
  PROVE  ForwardInv'
<1>. DEFINE f == FileOf[p]
<1>1. f \in File /\ \A q \in Proc : FileOf[q] = f => q = p
  BY CharAssumption DEF FilesNotShared
<1>2. /\ pc[p] = "return" /\ pc' = [pc EXCEPT ![p] = "idle"]
      /\ call' = [call EXCEPT ![p] = NoCall] /\ pos' = [pos EXCEPT ![p] = 0]
      /\ ret' = [ret EXCEPT ![p] = 0] /\ UNCHANGED last
      /\ fpos' = IF Moved(p) THEN [fpos EXCEPT ![f] = pos[p]] ELSE fpos
  <2>1. pc[p] = "return"
    BY DEF Return
  <2>2. Moved(p) <=> call[p].op \in {"read", "write"} /\ ret[p] >= 0
    BY <2>1 DEF Moved
  <2>. QED
    BY <2>1, <2>2 DEF Return, Goto
<1>3. ASSUME NEW g \in File, g # f PROVE Kept(g)
  <2>1. fpos'[g] = fpos[g]
    BY <1>1, <1>2, <1>3 DEF CallTypes
  <2>. QED
    BY <1>2, <1>3, <2>1, OthersKept DEF IInv, DeviceTypes, CallTypes
<1>4. ~Moving(p)'
  BY <1>2 DEF Moving, Moved, IInv, DeviceTypes
<1>5. ForwardAt(f)'
  <2>. SUFFICES ASSUME last[f] # NoRead PROVE ForwardAt(f)'
    BY <1>2 DEF ForwardAt
  <2>1. last[f] \in ReadEvents /\ EndOf(f)' = EndOf(f) /\ last'[f] = last[f]
    BY <1>1, <1>2 DEF ForwardInv, ForwardAt, EndOf
  <2>2. EndOf(f) <= Evicted + fpos'[f]
    <3>1. CASE Moved(p)
      <4>1. fpos'[f] = pos[p]
        BY <1>1, <1>2, <3>1 DEF CallTypes
      <4>2. Moving(p)
        BY <3>1 DEF Moving, Moved
      <4>. QED
        BY <1>1, <4>1, <4>2 DEF ForwardInv, ForwardAt
    <3>2. CASE ~Moved(p)
      <4>1. fpos'[f] = fpos[f]
        BY <1>2, <3>2
      <4>. QED
        BY <1>1, <3>2, <4>1 DEF ForwardInv, ForwardAt
    <3>. QED
      BY <3>1, <3>2
  <2>. QED
    BY <1>1, <1>4, <2>1, <2>2 DEF ForwardAt
<1>6. \A g \in File : g # FileOf[p] => Kept(g)
  BY <1>3
<1>7. Evicted <= Evicted' /\ Evicted' \in Int /\ UNCHANGED last
  BY <1>2
<1>. QED
  BY <1>5, <1>6, <1>7, ForwardOwn

(* No step lets a file fall behind its last read. *)
LEMMA ForwardNext ==
  ASSUME FilesNotShared
  PROVE  IInv /\ CallTypes /\ NewestInv /\ FoundInv /\ ForwardInv /\ [Next]_vars
           /\ IInv' /\ NewestInv' => ForwardInv'
<1>. SUFFICES ASSUME IInv, CallTypes, NewestInv, FoundStays, ForwardInv, [Next]_vars,
                     IInv', NewestInv'
              PROVE  ForwardInv'
  BY DEF FoundInv
<1>1. Evicted \in Int /\ Evicted' \in Int /\ Evicted <= Evicted'
  BY EvictedGrows
<1>2. ASSUME UNCHANGED <<buffer, entry, accepted>>
      PROVE  Evicted' = Evicted
  BY <1>2 DEF Evicted
<1>3. ASSUME UNCHANGED last, \A f \in File : Kept(f)
      PROVE  ForwardInv'
  BY <1>1, <1>3, ForwardKept DEF ForwardInv
<1>4. CASE Load \/ Unload \/ \E f \in File : Open(f)
  <2>1. UNCHANGED <<last, fpos, pos, pc, call, ret>>
    BY <1>4 DEF Load, Unload, Open
  <2>. QED
    BY <1>3, <2>1 DEF Kept, Moved, Moving
<1>5. ASSUME NEW f \in File, Release(f)
      PROVE  ForwardInv'
  <2>1. /\ last' = [last EXCEPT ![f] = NoRead] /\ fpos' = [fpos EXCEPT ![f] = 0]
        /\ UNCHANGED <<pos, pc, call, ret>>
    BY <1>5 DEF Release
  <2>2. ASSUME NEW g \in File, g # f PROVE Kept(g)
    BY <2>1, <2>2 DEF Kept, Moved, Moving, CallTypes, ForwardInv
  <2>. QED
    BY <1>1, <2>1, <2>2, ForwardForgotten
<1>6. ASSUME NEW p \in Proc, NEW c \in Calls, Call(p, c)
      PROVE  ForwardInv'
  <2>1. Evicted' = Evicted
    BY <1>2, <1>6 DEF Call, device
  <2>. QED
    BY <1>1, <1>6, <2>1, ForwardCall
<1>7. ASSUME NEW p \in Proc, \/ Lock(p) \/ Interrupted(p) \/ Unlock(p)
                             \/ WriteRealloc(p) \/ WriteCopy(p) \/ ReadFind(p) \/ IoctlFail(p)
      PROVE  ForwardInv'
  <2>1. UNCHANGED last
    BY <1>7 DEF Lock, Interrupted, Unlock, WriteRealloc, WriteCopy, ReadFind, IoctlFail
  <2>. QED
    BY <1>3, <1>7, <2>1, CallKept
<1>8. ASSUME NEW p \in Proc, Return(p)
      PROVE  ForwardInv'
  <2>1. Evicted' = Evicted
    BY <1>2, <1>8 DEF Return, device
  <2>. QED
    BY <1>1, <1>8, <2>1, ForwardReturn
<1>9. ASSUME NEW p \in Proc, ReadEnd(p) \/ Llseek(p) \/ IoctlSeek(p)
      PROVE  ForwardInv'
  BY <1>1, <1>9, ForwardEnd
<1>10. ASSUME NEW p \in Proc, ReadCopy(p)
       PROVE  ForwardInv'
  <2>1. Evicted' = Evicted
    BY <1>2, <1>10 DEF ReadCopy, device
  <2>. QED
    BY <1>1, <1>10, <2>1, ForwardCopy
<1>11. CASE UNCHANGED vars
  BY <1>3, <1>11 DEF vars, Kept, Moved, Moving
<1>. QED
  BY <1>4, <1>5, <1>6, <1>7, <1>8, <1>9, <1>10, <1>11 DEF Next, Body

(* The copy of a read is the only step that ends there.                     *)
LEMMA ReadCopyStep ==
  ASSUME IInv, Next, NEW p \in Proc, At(p, "copy", "read"), pc'[p] = "exit"
  PROVE  ReadCopy(p)
<1>. USE DEF At, Goto, IInv, DeviceTypes
<1>1. ~(Load \/ Unload \/ \E f \in File : Open(f) \/ Release(f))
  BY DEF Load, Unload, Open, Release
<1>2. \A q \in Proc, c \in Calls : ~Call(q, c)
  BY DEF Call
<1>3. \A q \in Proc : ~(Lock(q) \/ Interrupted(q) \/ Unlock(q) \/ Return(q))
  BY DEF Lock, Interrupted, Unlock, Return
<1>4. \A q \in Proc : ~(WriteRealloc(q) \/ WriteCopy(q) \/ ReadFind(q) \/ ReadEnd(q)
                        \/ Llseek(q) \/ IoctlSeek(q) \/ IoctlFail(q))
  BY DEF WriteRealloc, WriteCopy, ReadFind, ReadEnd, Llseek, IoctlSeek, IoctlFail
<1>5. \A q \in Proc : ReadCopy(q) => q = p
  BY DEF ReadCopy
<1>. QED
  BY <1>1, <1>2, <1>3, <1>4, <1>5 DEF Next, Body

(* A file that one process uses never gives a byte twice between two        *)
(* repositionings, whatever the writers evict in the meantime.              *)
THEOREM ReadsGoForward ==
  ASSUME FilesNotShared
  PROVE  Spec => ReadsMoveForward
<1>1. IInv /\ CallTypes /\ NewestInv /\ ForwardInv /\ [Next]_vars
        => [\A p \in Proc :
              LET before == last[FileOf[p]]
                  now    == last'[FileOf[p]]
              IN  At(p, "copy", "read") /\ pc'[p] = "exit" /\ before # NoRead
                    => before.base + before.from + Len(before.bytes)
                         <= now.base + now.from]_vars
  <2>. SUFFICES ASSUME IInv, CallTypes, NewestInv, ForwardInv, Next, NEW p \in Proc,
                       At(p, "copy", "read"), pc'[p] = "exit", last[FileOf[p]] # NoRead
                PROVE  EndOf(FileOf[p]) <= last'[FileOf[p]].base + last'[FileOf[p]].from
    BY DEF EndOf
  <2>1. ReadCopy(p) /\ FileOf[p] \in File
    BY ReadCopyStep, CharAssumption
  <2>2. last'[FileOf[p]].base = Evicted /\ last'[FileOf[p]].from = pos[p]
    BY <2>1 DEF ReadCopy, ForwardInv
  <2>3. Moving(p)
    BY DEF Moving, At
  <2>4. EndOf(FileOf[p]) <= Evicted + pos[p]
    BY <2>1, <2>3 DEF ForwardInv, ForwardAt
  <2>. QED
    BY <2>2, <2>4
<1>2. Init => FoundInv
  BY DEF Init, FoundInv, FoundStays, At
<1>. QED
  BY <1>1, <1>2, CallTypesInit, CallTypesNext, NewestInit, NewestNext, FoundNext,
     ForwardInit,
     ForwardNext, Invariant, PTL DEF Spec, ReadsMoveForward

-----------------------------------------------------------------------------

LastInv == last = [f \in File |-> last[f]]

(* What the abstract device's last becomes when the driver's does.          *)
SeenAs(e) == IF e = NoRead THEN NoRead ELSE [from |-> e.from, bytes |-> e.bytes]

(* The last read of one file changes alone on both sides. *)
LEMMA SeenExcept ==
  ASSUME LastInv, NEW f \in File, NEW e, last' = [last EXCEPT ![f] = e]
  PROVE  [g \in File |-> Seen(g)]' = [[g \in File |-> Seen(g)] EXCEPT ![f] = SeenAs(e)]
<1>1. \A g \in File : last'[g] = IF g = f THEN e ELSE last[g]
  BY DEF LastInv
<1>2. \A g \in File : Seen(g)' = IF g = f THEN SeenAs(e) ELSE Seen(g)
  BY <1>1 DEF Seen, SeenAs
<1>. QED
  BY <1>2

(* last stays a function of the files. *)
LEMMA LastNext == LastInv /\ [Next]_vars => LastInv'
<1>. SUFFICES ASSUME LastInv, [Next]_vars PROVE LastInv'
  OBVIOUS
<1>1. UNCHANGED last \/ \E f \in File : \E e : last' = [last EXCEPT ![f] = e]
  <2>1. \A p \in Proc : FileOf[p] \in File
    BY CharAssumption
  <2>. QED
    BY <2>1 DEF Next, Body, Load, Unload, Open, Release, Call, Lock, Interrupted,
       WriteRealloc,
       WriteCopy, ReadFind, ReadEnd, ReadCopy, Llseek, IoctlSeek, IoctlFail, Unlock,
       Return, vars
<1>. QED
  BY <1>1 DEF LastInv

(* The abstract device is made of the same operators.                       *)
LEMMA DeviceOperators ==
  /\ \A s : Device!FlattenSeq(s) = FlattenSeq(s)
  /\ \A s, e : Device!Contains(s, e) <=> Contains(s, e)
  /\ \A S : Device!Min(S) = Min(S)
  /\ \A s : Device!Newest(s) = Newest(s)
<1>1. \A s : Device!FlattenSeq(s) = FlattenSeq(s)
  BY DEF Device!FlattenSeq, FlattenSeq
<1>2. \A s, e : Device!Contains(s, e) <=> Contains(s, e)
  BY Zenon DEF Device!Contains, Contains
<1>3. \A S : Device!Min(S) = Min(S)
  BY Zenon DEF Device!Min, Min
<1>4. \A s : Device!Newest(s) = Newest(s)
  BY Zenon DEF Device!Newest, Newest
<1>. QED
  BY <1>1, <1>2, <1>3, <1>4

(* The copy of a write is the abstract device's write.                      *)
LEMMA DeviceWrite ==
  ASSUME IInv, NEW p \in Proc, WriteCopy(p)
  PROVE  Device!Next
<1>. DEFINE d(n) == SubSeq(call[p].data, 1, n)
<1>1. PICK n \in 0 .. Len(call[p].data) :
        \/ Completes(Pending(p, n)) /\ HandOver(Pending(p, n))
        \/ /\ ~Completes(Pending(p, n))
           /\ entry' = Pending(p, n)
           /\ UNCHANGED <<buffer, room>>
  BY DEF WriteCopy
<1>2. d(n) \in UNION {Prefixes(c) : c \in Chunk}
  <2>1. call[p] \in Calls \cup {NoCall} /\ call[p].op = "write"
    BY DEF IInv, DeviceTypes, WriteCopy, At
  <2>2. call[p].data \in Chunk
    BY <2>1 DEF Calls, SeekToCalls, NoCall
  <2>. QED
    BY <1>1, <2>2 DEF Prefixes
<1>3. /\ buffer \in Buffer /\ OffsetsAgree(buffer)
      /\ Pending(p, n) \in Seq(Byte) /\ Pending(p, n) = entry \o d(n)
  BY PendingType DEF IInv, DeviceTypes, CommandsComplete, WriteCopy, At, Pending
<1>4. [f \in File |-> Seen(f)]' = [f \in File |-> Seen(f)]
  BY DEF WriteCopy, Seen
<1>. DEFINE command == entry \o d(n)
<1>5. CASE Completes(Pending(p, n)) /\ HandOver(Pending(p, n))
  <2>1. Pending(p, n) \in Seq(Byte) \ {NoEntry}
    BY <1>3, <1>5, CompleteNotEmpty DEF Completes
  <2>2. Window(buffer)' = Device!Newest(Append(Window(buffer), command))
    BY <1>3, <1>5, <2>1, AddEntryStores, DeviceOperators DEF HandOver
  <2>3. entry' = << >> /\ Device!Contains(command, NewLine)
    BY <1>3, <1>5, DeviceOperators DEF HandOver, NoEntry, Completes
  <2>4. Device!Write(d(n))
    BY <1>4, <2>2, <2>3, Zenon DEF Device!Write
  <2>. QED
    BY <1>2, <2>4, Zenon DEF Device!Next
<1>6. CASE /\ ~Completes(Pending(p, n))
           /\ entry' = Pending(p, n)
           /\ UNCHANGED <<buffer, room>>
  <2>1. Window(buffer)' = Window(buffer) /\ entry' = command
    BY <1>3, <1>6
  <2>2. ~Device!Contains(command, NewLine)
    BY <1>3, <1>6, DeviceOperators DEF Completes
  <2>3. Device!Write(d(n))
    BY <1>4, <2>1, <2>2, Zenon DEF Device!Write
  <2>. QED
    BY <1>2, <2>3, Zenon DEF Device!Next
<1>. QED
  BY <1>1, <1>5, <1>6

(* The steps that forget a file's last read are seeks of the device.        *)
LEMMA DeviceSeek ==
  ASSUME LastInv, NEW f \in File, NEW e, SeenAs(e) = NoRead, last' = [last EXCEPT ![f] = e],
         UNCHANGED <<buffer, entry>>
  PROVE  Device!Next
<1>1. [g \in File |-> Seen(g)]' = [[g \in File |-> Seen(g)] EXCEPT ![f] = NoRead]
  BY SeenExcept
<1>2. Window(buffer)' = Window(buffer)
  OBVIOUS
<1>3. Device!Seek(f)
  BY <1>1, <1>2, Zenon DEF Device!Seek
<1>. QED
  BY <1>3, Zenon DEF Device!Next

(* The copy of a read is the abstract device's read.                        *)
LEMMA DeviceRead ==
  ASSUME IInv, CallTypes, FoundStays, LastInv, NEW p \in Proc, ReadCopy(p)
  PROVE  Device!Next
<1>. DEFINE f == FileOf[p]
            x == pos[p]
            e == buffer.entry[found[p].slot]
            off == found[p].offset
            c == FlattenSeq(Window(buffer))
<1>1. PICK n \in 0 .. NumOfWrites(p) :
        last' = [last EXCEPT ![f] = [base  |-> Evicted,
                                     from  |-> x,
                                     bytes |-> SubSeq(e, off + 1, off + n)]]
  BY DEF ReadCopy
<1>. DEFINE r == [base |-> Evicted, from |-> x, bytes |-> SubSeq(e, off + 1, off + n)]
<1>2. f \in File /\ At(p, "copy", "read") /\ UNCHANGED <<buffer, entry>>
  BY CharAssumption DEF ReadCopy, device
<1>3. PICK k \in 1 .. Held(buffer) :
        /\ ReadsFrom(buffer, k, x)
        /\ found[p] = [slot   |-> SlotOf(buffer, k),
                       offset |-> x - SizeSeen(buffer)[k - 1]]
  BY <1>2, FoundCommand
<1>4. x \in Nat
  BY <1>2, FoundCommand
<1>5. n \in Nat /\ n <= Len(e) - off
  <2>1. NumOfWrites(p) \in Int /\ NumOfWrites(p) <= Len(e) - off
    BY <1>2, NumOfWritesType
  <2>2. off \in Int /\ found[p].slot \in Slots
    BY <1>2 DEF CallTypes, SlotsFound
  <2>3. e \in Seq(Byte)
    BY <2>2 DEF IInv, DeviceTypes, Buffer
  <2>4. Len(e) - off \in Int
    BY <2>2, <2>3, LenProperties
  <2>. QED
    BY <2>1, <2>4
<1>6. buffer \in Buffer
  BY DEF IInv, DeviceTypes
<1>7. x + n <= SizeSeen(buffer)[k] /\ SubSeq(e, off + 1, off + n) = SubSeq(c, x + 1, x + n)
  <2>1. e = buffer.entry[SlotOf(buffer, k)] /\ off = x - SizeSeen(buffer)[k - 1]
    BY <1>3
  <2>. HIDE DEF e, off, c, x
  <2>2. /\ x + n <= SizeSeen(buffer)[k]
        /\ Stretch(e, off, n) = Stretch(FlattenSeq(Window(buffer)), x, n)
    BY <1>3, <1>4, <1>5, <1>6, <2>1, CopiedBytes
  <2>. QED
    BY <2>2, Zenon DEF Stretch, c
<1>8. x \in 0 .. Len(c) - 1
  <2>1. /\ Len(c) = SizeSeen(buffer)[Held(buffer)] /\ MaxOps \in Nat
        /\ Held(buffer) \in 0 .. MaxOps /\ SizeSeen(buffer) \in [0 .. MaxOps -> Nat]
    BY <1>6, ContentBytes, WindowType, MaxOpsAssumption, SizeSeenType
  <2>2. k \in 0 .. MaxOps /\ Held(buffer) \in k .. MaxOps
    BY <2>1
  <2>3. SizeSeen(buffer)[k] <= SizeSeen(buffer)[Held(buffer)]
    BY <1>6, <2>2, WalkGrows
  <2>4. x < SizeSeen(buffer)[k] /\ SizeSeen(buffer)[k] \in Nat /\ Len(c) \in Nat
    BY <1>3, <2>1, <2>2 DEF ReadsFrom
  <2>. QED
    BY <1>4, <2>1, <2>3, <2>4
<1>9. x + n \in x .. Device!Min({end \in Device!Ends : end > x})
  <2>1. Device!Ends = {Len(FlattenSeq(SubSeq(Window(buffer), 1, j))) : j \in 1 .. Held(buffer)}
    <3>1. Len(Window(buffer)) = Held(buffer)
      BY <1>6, WindowType
    <3>. QED
      BY <3>1, DeviceOperators DEF Device!Ends
  <2>. DEFINE later == {end \in Device!Ends : end > x}
  <2>2. Min(later) \in Nat /\ SizeSeen(buffer)[k] <= Min(later)
    BY <1>3, <1>4, <1>6, <2>1, NextEnd
  <2>3. SizeSeen(buffer)[k] \in Nat
    <3>1. k \in 0 .. MaxOps
      BY <1>6, WindowType, MaxOpsAssumption
    <3>. QED
      BY <1>6, <3>1, SizeSeenType
  <2>4. Device!Min(later) = Min(later)
    BY DeviceOperators
  <2>. HIDE DEF later
  <2>5. x + n \in x .. Device!Min(later)
    BY <1>4, <1>5, <1>7, <2>2, <2>3, <2>4
  <2>. QED
    BY <2>5 DEF later
<1>10. CASE r = NoRead
  <2>1. SeenAs(r) = NoRead
    BY <1>10 DEF SeenAs
  <2>. QED
    BY <1>1, <1>2, <2>1, DeviceSeek
<1>11. CASE r # NoRead
  <2>1. SeenAs(r) = [from |-> x, bytes |-> SubSeq(c, x + 1, x + n)]
    BY <1>7, <1>11 DEF SeenAs
  <2>2. [g \in File |-> Seen(g)]' =
          [[g \in File |-> Seen(g)] EXCEPT ![f] = [from  |-> x,
                                                   bytes |-> SubSeq(c, x + 1, x + n)]]
    BY <1>1, <1>2, <2>1, SeenExcept
  <2>3. Window(buffer)' = Window(buffer) /\ entry' = entry
    BY <1>2
  <2>4. Device!FlattenSeq(Window(buffer)) = c
    BY DeviceOperators
  <2>5. Device!Read(f)
    BY <1>8, <1>9, <2>2, <2>3, <2>4, Zenon DEF Device!Read
  <2>. QED
    BY <1>2, <2>5, Zenon DEF Device!Next
<1>. QED
  BY <1>10, <1>11

(* Every step of the driver is one of the device or leaves it as it is.     *)
LEMMA DeviceNext ==
  IInv /\ CallTypes /\ FoundInv /\ LastInv /\ [Next]_vars => [Device!Next]_(Device!vars)
<1>. SUFFICES ASSUME IInv, CallTypes, FoundStays, LastInv, [Next]_vars
              PROVE  [Device!Next]_(Device!vars)
  BY DEF FoundInv
<1>1. CASE Load
  <2>1. Window(buffer)' = << >> /\ entry' = << >>
    BY <1>1, EmptyBufferFacts DEF Load, NoEntry
  <2>2. [f \in File |-> Seen(f)]' = [f \in File |-> Seen(f)]
    BY <1>1 DEF Load, Seen
  <2>. QED
    BY <2>1, <2>2, Zenon DEF Device!Reset, Device!Next
<1>2. ASSUME UNCHANGED <<buffer, entry, last>>
      PROVE  UNCHANGED Device!vars
  <2>1. Window(buffer)' = Window(buffer) /\ entry' = entry
    BY <1>2
  <2>2. [f \in File |-> Seen(f)]' = [f \in File |-> Seen(f)]
    BY <1>2 DEF Seen
  <2>. QED
    BY <2>1, <2>2, Zenon DEF Device!vars
<1>3. ASSUME NEW f \in File, Release(f)
      PROVE  Device!Next
  <2>1. /\ last' = [last EXCEPT ![f] = NoRead]
        /\ UNCHANGED <<buffer, entry>>
        /\ SeenAs(NoRead) = NoRead
    BY <1>3 DEF Release, device, SeenAs
  <2>. QED
    BY <2>1, DeviceSeek
<1>4. ASSUME NEW p \in Proc, ReadEnd(p) \/ Llseek(p) \/ IoctlSeek(p)
      PROVE  Device!Next
  <2>1. /\ last' = [last EXCEPT ![FileOf[p]] = NoRead]
        /\ UNCHANGED <<buffer, entry>> /\ SeenAs(NoRead) = NoRead
    BY <1>4 DEF ReadEnd, Llseek, IoctlSeek, device, SeenAs
  <2>2. FileOf[p] \in File
    BY CharAssumption
  <2>. QED
    BY <2>1, <2>2, DeviceSeek
<1>5. \/ UNCHANGED <<buffer, entry, last>>
      \/ Load
      \/ \E f \in File : Release(f)
      \/ \E p \in Proc : WriteCopy(p) \/ ReadCopy(p) \/ ReadEnd(p) \/ Llseek(p) \/ IoctlSeek(p)
  BY DEF Next, Body, Unload, Open, Call, Lock, Interrupted, WriteRealloc, ReadFind,
     IoctlFail,
         Unlock, Return, vars, device
<1>. QED
  BY <1>1, <1>2, <1>3, <1>4, <1>5, DeviceWrite, DeviceRead

(* However the calls of the processes interleave, users see a device whose  *)
(* writes and reads are atomic: a read returns bytes of one command, in     *)
(* their order, and an eviction takes a whole command away.                 *)
THEOREM DriverImplementsDevice == Spec => ImplementsCharDevice
<1>1. Init => Device!Init
  <2>. SUFFICES ASSUME Init PROVE Device!Init
    OBVIOUS
  <2>1. Window(buffer) = << >> /\ entry = << >>
    BY EmptyBufferFacts DEF Init, NoEntry
  <2>2. [f \in File |-> Seen(f)] = [f \in File |-> NoRead]
    BY DEF Init, Seen
  <2>. QED
    BY <2>1, <2>2, Zenon DEF Device!Init
<1>2. Init => FoundInv
  BY DEF Init, FoundInv, FoundStays, At
<1>3. Init => LastInv
  BY DEF Init, LastInv
<1>. QED
  BY <1>1, <1>2, <1>3, CallTypesInit, CallTypesNext, FoundNext, LastNext, DeviceNext,
     Invariant,
     PTL DEF Spec, ImplementsCharDevice, Device!Spec

-----------------------------------------------------------------------------
(* The ring as the driver uses it: complete commands are added, nothing    *)
(* else.                                                                   *)
Complete == {s \in Seq(Byte) : Contains(s, NewLine)}

Ring == INSTANCE RingLog WITH Command <- Complete

(* The ring of the driver and that of RingLog are one. *)
LEMMA RingOperators ==
  /\ Ring!EmptyBuffer = EmptyBuffer
  /\ \A b, e : Ring!AddEntry(b, e) = AddEntry(b, e)
<1>1. Ring!EmptyBuffer = EmptyBuffer
  BY DEF Ring!EmptyBuffer, EmptyBuffer, Ring!Slots, Slots, Ring!NoEntry, NoEntry
<1>2. \A b : Ring!NextOutOffs(b) = NextOutOffs(b)
  BY DEF Ring!NextOutOffs, NextOutOffs, Ring!Wrap, Wrap
<1>3. \A b, e : Ring!AddEntry(b, e) = AddEntry(b, e)
  BY <1>2, Zenon DEF Ring!AddEntry, AddEntry
<1>. QED
  BY <1>1, <1>3

(***************************************************************************)
(* The driver keeps to what module RingLog assumes of its user: the buffer *)
(* is initialised when the module is loaded and from then on only given    *)
(* commands that are not empty (main.c:396-403, 450-453).  What is proved  *)
(* of the ring and of its search there holds in the driver.                *)
(***************************************************************************)
THEOREM DriverUsesRing ==
  Spec => Ring!Init /\ [][Ring!Next \/ (Load /\ Ring!Init')]_buffer
<1>1. Init => Ring!Init
  BY RingOperators DEF Init, Ring!Init
<1>2. IInv /\ [Next]_vars => [Ring!Next \/ (Load /\ Ring!Init')]_buffer
  <2>. SUFFICES ASSUME IInv, [Next]_vars, buffer' # buffer
                PROVE  Ring!Next \/ (Load /\ Ring!Init')
    OBVIOUS
  <2>1. Load \/ \E p \in Proc : WriteCopy(p)
    BY DEF Next, Body, Unload, Open, Release, Call, Lock, Interrupted, WriteRealloc,
       ReadFind, ReadEnd, ReadCopy, Llseek, IoctlSeek, IoctlFail, Unlock, Return, vars, device
  <2>2. CASE Load
    BY <2>2, RingOperators DEF Load, Ring!Init
  <2>3. ASSUME NEW p \in Proc, WriteCopy(p) PROVE Ring!Next
    <3>1. PICK n \in 0 .. Len(call[p].data) :
            Completes(Pending(p, n)) /\ buffer' = AddEntry(buffer, Pending(p, n))
      BY <2>3 DEF WriteCopy, HandOver
    <3>2. Pending(p, n) \in Complete
      BY <2>3, <3>1, PendingType DEF IInv, WriteCopy, At, Completes, Complete
    <3>3. Ring!Add(Pending(p, n))
      BY <3>1, RingOperators DEF Ring!Add
    <3>. QED
      BY <3>2, <3>3, Zenon DEF Ring!Next
  <2>. QED
    BY <2>1, <2>2, <2>3
<1>. QED
  BY <1>1, <1>2, Invariant, PTL DEF Spec
=============================================================================
