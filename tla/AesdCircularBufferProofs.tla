---------------------- MODULE AesdCircularBufferProofs ----------------------
(***************************************************************************)
(* Lemmas about the operators of AesdCircularBuffer, for every table size, *)
(* entry size and byte set.  They speak of a buffer b that satisfies       *)
(* Buffer and OffsetsAgree, and serve the proofs of RingLog and of the     *)
(* driver, which embeds the same buffer.                                   *)
(***************************************************************************)
EXTENDS AesdCircularBuffer, DataInduction

(* The walk from out_offs visits slots of the table only, for every k. *)
LEMMA SlotOfType ==
  ASSUME NEW b \in Buffer, NEW k \in 1 .. MaxOps
  PROVE  SlotOf(b, k) \in Slots
<1>1. b.out_offs \in 0 .. MaxOps - 1
  BY DEF Buffer, Slots
<1>. QED
  BY <1>1, MaxOpsAssumption DEF SlotOf, Wrap, Slots

(* Adding an entry keeps the record well formed, with every index in range. *)
LEMMA AddEntryType ==
  ASSUME NEW b \in Buffer, NEW e \in Seq(Byte)
  PROVE  AddEntry(b, e) \in Buffer
<1>1. Wrap(b.out_offs + 1) \in Slots
  <2>1. b.out_offs \in 0 .. MaxOps - 1
    BY DEF Buffer, Slots
  <2>. QED
    BY <2>1, MaxOpsAssumption DEF Wrap, Slots
<1>2. (b.total_size + Len(e)) % SizeMod \in 0 .. SizeMod - 1
  <2>1. Len(e) \in Nat
    BY LenProperties
  <2>2. b.total_size \in Nat
    BY SizeModAssumption DEF Buffer
  <2>. QED
    BY <2>1, <2>2, SizeModAssumption
<1>3. b.in_offs + 1 # MaxOps => b.in_offs + 1 \in Slots
  BY MaxOpsAssumption DEF Slots, Buffer
<1>4. [b.entry EXCEPT ![b.in_offs] = e] \in [Slots -> Seq(Byte)]
  BY DEF Buffer
<1>. QED
  BY <1>1, <1>2, <1>3, <1>4 DEF AddEntry, NextOutOffs, Buffer

(* The fields of the buffer after an addition, one by one. *)
LEMMA AddEntryFields ==
  ASSUME NEW b \in Buffer, OffsetsAgree(b), NEW e \in Seq(Byte) \ {NoEntry}
  PROVE  /\ AddEntry(b, e).entry = [b.entry EXCEPT ![b.in_offs] = e]
         /\ AddEntry(b, e).in_offs = Wrap(b.in_offs + 1)
         /\ AddEntry(b, e).out_offs = IF b.full THEN Wrap(b.in_offs + 1) ELSE 0
         /\ AddEntry(b, e).full <=> b.full \/ b.in_offs + 1 = MaxOps
<1>1. b.in_offs \in 0 .. MaxOps - 1 /\ b.out_offs \in 0 .. MaxOps - 1
  BY DEF Buffer, Slots
<1>2. b.full => b.in_offs = b.out_offs
  BY DEF OffsetsAgree
<1>3. ~b.full => b.out_offs = 0
  BY DEF OffsetsAgree
<1>4. AddEntry(b, e).out_offs = IF b.full THEN Wrap(b.in_offs + 1) ELSE 0
  BY <1>2, <1>3 DEF AddEntry, NextOutOffs
<1>5. AddEntry(b, e).in_offs =
        IF b.in_offs + 1 = MaxOps THEN AddEntry(b, e).out_offs ELSE b.in_offs + 1
  BY DEF AddEntry
<1>6. AddEntry(b, e).in_offs = Wrap(b.in_offs + 1)
  BY <1>1, <1>4, <1>5, MaxOpsAssumption DEF Wrap
<1>7. AddEntry(b, e).full <=> b.full \/ b.in_offs + 1 = MaxOps
  BY DEF AddEntry
<1>8. AddEntry(b, e).entry = [b.entry EXCEPT ![b.in_offs] = e]
  BY DEF AddEntry
<1>. QED
  BY <1>4, <1>6, <1>7, <1>8

(* What each slot holds after an addition. *)
LEMMA AddEntrySlots ==
  ASSUME NEW b \in Buffer, OffsetsAgree(b), NEW e \in Seq(Byte) \ {NoEntry},
         NEW i \in Slots
  PROVE  AddEntry(b, e).entry[i] = IF i = b.in_offs THEN e ELSE b.entry[i]
<1>1. AddEntry(b, e).entry = [b.entry EXCEPT ![b.in_offs] = e]
  BY AddEntryFields
<1>2. b.entry \in [Slots -> Seq(Byte)]
  BY DEF Buffer
<1>. QED
  BY <1>1, <1>2

(* Adding a command keeps offsets, full flag and slots in agreement. *)
LEMMA AddEntryOffsets ==
  ASSUME NEW b \in Buffer, OffsetsAgree(b), NEW e \in Seq(Byte) \ {NoEntry}
  PROVE  OffsetsAgree(AddEntry(b, e))
<1>. DEFINE c == AddEntry(b, e)
<1>2. /\ b.in_offs \in 0 .. MaxOps - 1
      /\ b.full \in BOOLEAN
      /\ b.entry \in [Slots -> Seq(Byte)]
  BY DEF Buffer, Slots
<1>3. \A i \in Slots : c.entry[i] = IF i = b.in_offs THEN e ELSE b.entry[i]
  BY AddEntrySlots
<1>4. CASE b.full
  <2>1. c.full <=> b.full \/ b.in_offs + 1 = MaxOps
    BY AddEntryFields
  <2>2. c.in_offs = Wrap(b.in_offs + 1) /\ c.out_offs = Wrap(b.in_offs + 1)
    BY <1>4, AddEntryFields
  <2>3. \A i \in Slots : c.entry[i] # NoEntry
    BY <1>3, <1>4 DEF OffsetsAgree
  <2>. HIDE DEF c
  <2>4. OffsetsAgree(c)
    BY <1>4, <2>1, <2>2, <2>3 DEF OffsetsAgree
  <2>. QED
    BY <2>4 DEF c
<1>5. CASE ~b.full
  <2>1. /\ c.out_offs = 0
        /\ (c.full <=> b.in_offs + 1 = MaxOps)
        /\ c.in_offs = Wrap(b.in_offs + 1)
    BY <1>5, AddEntryFields
  <2>2. ASSUME NEW i \in Slots
        PROVE  c.entry[i] = NoEntry <=> i >= b.in_offs + 1
    <3>1. b.entry[i] = NoEntry <=> i >= b.in_offs
      BY <1>5 DEF OffsetsAgree
    <3>2. c.entry[i] = IF i = b.in_offs THEN e ELSE b.entry[i]
      BY <1>3
    <3>. HIDE DEF c
    <3>3. e # NoEntry /\ i \in Int
      BY DEF Slots
    <3>. QED
      BY <1>2, <3>1, <3>2, <3>3
  <2>3. c.full => c.in_offs = 0 /\ \A i \in Slots : c.entry[i] # NoEntry
    <3>. HIDE DEF c
    <3>. QED
      BY <1>2, <2>1, <2>2, MaxOpsAssumption DEF Wrap, Slots
  <2>4. ~c.full => c.in_offs = b.in_offs + 1
    BY <1>2, <2>1, MaxOpsAssumption DEF Wrap
  <2>5. OffsetsAgree(c)
    BY <2>1, <2>2, <2>3, <2>4 DEF OffsetsAgree
  <2>. QED
    BY <2>5
<1>. QED
  BY <1>2, <1>4, <1>5

(* The commands a table of MaxOps keeps when one more is added. *)
Newest(s) == IF Len(s) <= MaxOps THEN s ELSE Tail(s)

(* Adding a command keeps the newest commands, in order. *)
LEMMA AddEntryStores ==
  ASSUME NEW b \in Buffer, OffsetsAgree(b), NEW e \in Seq(Byte) \ {NoEntry}
  PROVE  Window(AddEntry(b, e)) = Newest(Append(Window(b), e))
<1>. DEFINE c == AddEntry(b, e)
            w == Window(b)
<1>2. /\ b.in_offs \in 0 .. MaxOps - 1
      /\ b.out_offs \in 0 .. MaxOps - 1
      /\ b.full \in BOOLEAN
      /\ b.entry \in [Slots -> Seq(Byte)]
  BY DEF Buffer, Slots
<1>3. \A i \in Slots : c.entry[i] = IF i = b.in_offs THEN e ELSE b.entry[i]
  BY AddEntrySlots
<1>4. Held(b) \in 0 .. MaxOps
  BY <1>2, MaxOpsAssumption DEF Held
<1>5. w \in Seq(Seq(Byte)) /\ Len(w) = Held(b)
  <2>1. \A k \in 1 .. Held(b) : b.entry[SlotOf(b, k)] \in Seq(Byte)
    BY <1>2, <1>4, SlotOfType, MaxOpsAssumption
  <2>. QED
    BY <1>4, <2>1 DEF Window
<1>6. CASE b.full
  <2>1. /\ b.in_offs = b.out_offs
        /\ c.full
        /\ c.out_offs = Wrap(b.in_offs + 1)
    BY <1>6, AddEntryFields DEF OffsetsAgree
  <2>2. Len(w) = MaxOps /\ Held(c) = MaxOps
    BY <1>5, <1>6, <2>1 DEF Held
  <2>3. Newest(Append(w, e)) = Tail(Append(w, e))
    BY <1>5, <2>2, MaxOpsAssumption DEF Newest
  <2>4. Tail(Append(w, e)) =
          [k \in 1 .. MaxOps |-> IF k = MaxOps THEN e ELSE w[k + 1]]
    <3>. HIDE DEF w
    <3>1. /\ Append(w, e) \in Seq(Seq(Byte))
          /\ Len(Append(w, e)) = MaxOps + 1
          /\ \A k \in 1 .. MaxOps + 1 :
               Append(w, e)[k] = IF k = MaxOps + 1 THEN e ELSE w[k]
      BY <1>5, <2>2, AppendProperties, MaxOpsAssumption
    <3>2. Append(w, e) # << >>
      BY <3>1, MaxOpsAssumption
    <3>3. /\ Tail(Append(w, e)) \in Seq(Seq(Byte))
          /\ Len(Tail(Append(w, e))) = MaxOps
          /\ \A k \in 1 .. MaxOps : Tail(Append(w, e))[k] = Append(w, e)[k + 1]
      BY <3>1, <3>2, HeadTailProperties, MaxOpsAssumption
    <3>4. Tail(Append(w, e)) = [k \in 1 .. MaxOps |-> Tail(Append(w, e))[k]]
      BY <3>3, LenProperties
    <3>. QED
      BY <3>1, <3>3, <3>4, MaxOpsAssumption
  <2>5. ASSUME NEW k \in 1 .. MaxOps
        PROVE  c.entry[SlotOf(c, k)] = IF k = MaxOps THEN e ELSE w[k + 1]
    <3>1. CASE k = MaxOps
      <4>1. SlotOf(c, k) = b.in_offs
        BY <1>2, <2>1, <3>1, MaxOpsAssumption DEF SlotOf, Wrap
      <4>. QED
        BY <1>2, <1>3, <3>1, <4>1 DEF Slots
    <3>2. CASE k # MaxOps
      <4>1. SlotOf(c, k) = SlotOf(b, k + 1) /\ SlotOf(c, k) # b.in_offs
        BY <1>2, <2>1, <3>2, MaxOpsAssumption DEF SlotOf, Wrap
      <4>2. SlotOf(b, k + 1) \in Slots
        BY <3>2, SlotOfType, MaxOpsAssumption
      <4>3. w[k + 1] = b.entry[SlotOf(b, k + 1)]
        BY <2>2, <3>2, <1>5, MaxOpsAssumption, <1>6 DEF Window, Held
      <4>. QED
        BY <1>3, <3>2, <4>1, <4>2, <4>3
    <3>. QED
      BY <3>1, <3>2
  <2>6. Window(c) = [k \in 1 .. MaxOps |-> IF k = MaxOps THEN e ELSE w[k + 1]]
    BY <2>2, <2>5 DEF Window
  <2>. QED
    BY <2>3, <2>4, <2>6
<1>7. CASE ~b.full
  <2>1. /\ b.out_offs = 0
        /\ c.out_offs = 0
        /\ (c.full <=> b.in_offs + 1 = MaxOps)
        /\ c.in_offs = Wrap(b.in_offs + 1)
    BY <1>7, AddEntryFields DEF OffsetsAgree
  <2>2. Held(b) = b.in_offs /\ Held(c) = b.in_offs + 1
    BY <1>2, <1>7, <2>1, MaxOpsAssumption DEF Held, Wrap
  <2>3. Newest(Append(w, e)) = Append(w, e)
    BY <1>2, <1>5, <2>2, MaxOpsAssumption DEF Newest
  <2>4. Append(w, e) =
          [k \in 1 .. b.in_offs + 1 |-> IF k = b.in_offs + 1 THEN e ELSE w[k]]
    <3>. HIDE DEF w
    <3>1. /\ Append(w, e) \in Seq(Seq(Byte))
          /\ Len(Append(w, e)) = b.in_offs + 1
          /\ \A k \in 1 .. b.in_offs + 1 :
               Append(w, e)[k] = IF k = b.in_offs + 1 THEN e ELSE w[k]
      BY <1>2, <1>5, <2>2, AppendProperties
    <3>2. Append(w, e) = [k \in 1 .. b.in_offs + 1 |-> Append(w, e)[k]]
      BY <3>1, LenProperties
    <3>. QED
      BY <3>1, <3>2
  <2>5. ASSUME NEW k \in 1 .. b.in_offs + 1
        PROVE  c.entry[SlotOf(c, k)] = IF k = b.in_offs + 1 THEN e ELSE w[k]
    <3>1. SlotOf(c, k) = k - 1 /\ SlotOf(b, k) = k - 1 /\ k - 1 \in Slots
      BY <1>2, <2>1, MaxOpsAssumption DEF SlotOf, Wrap, Slots
    <3>2. k # b.in_offs + 1 => w[k] = b.entry[k - 1]
      BY <1>2, <2>2, <3>1 DEF Window
    <3>3. c.entry[k - 1] = IF k - 1 = b.in_offs THEN e ELSE b.entry[k - 1]
      BY <1>3, <3>1
    <3>. HIDE DEF c, w
    <3>. QED
      BY <1>2, <3>1, <3>2, <3>3
  <2>6. Window(c) = [k \in 1 .. b.in_offs + 1 |-> IF k = b.in_offs + 1 THEN e ELSE w[k]]
    BY <2>2, <2>5 DEF Window
  <2>. QED
    BY <2>3, <2>4, <2>6
<1>. QED
  BY <1>2, <1>6, <1>7

(* The empty table satisfies the invariant and stands for the empty log. *)
LEMMA EmptyBufferFacts ==
  /\ EmptyBuffer \in Buffer
  /\ OffsetsAgree(EmptyBuffer)
  /\ Window(EmptyBuffer) = << >>
<1>1. NoEntry \in Seq(Byte)
  BY DEF NoEntry
<1>2. EmptyBuffer \in Buffer
  BY <1>1, MaxOpsAssumption, SizeModAssumption DEF EmptyBuffer, Buffer, Slots
<1>3. OffsetsAgree(EmptyBuffer)
  BY DEF EmptyBuffer, OffsetsAgree, Slots
<1>4. Window(EmptyBuffer) = << >>
  BY DEF EmptyBuffer, Window, Held
<1>. QED
  BY <1>2, <1>3, <1>4

-----------------------------------------------------------------------------
(* The commands held are sequences of bytes, one for each slot in use. *)
LEMMA WindowType ==
  ASSUME NEW b \in Buffer
  PROVE  /\ Held(b) \in 0 .. MaxOps
         /\ Window(b) \in Seq(Seq(Byte))
         /\ Len(Window(b)) = Held(b)
         /\ \A k \in 1 .. Held(b) : Window(b)[k] = b.entry[SlotOf(b, k)]
<1>1. Held(b) \in 0 .. MaxOps
  BY MaxOpsAssumption DEF Held, Buffer, Slots
<1>2. \A k \in 1 .. Held(b) : b.entry[SlotOf(b, k)] \in Seq(Byte)
  <2>1. \A k \in 1 .. Held(b) : SlotOf(b, k) \in Slots
    BY <1>1, MaxOpsAssumption, SlotOfType
  <2>. QED
    BY <2>1 DEF Buffer
<1>. QED
  BY <1>1, <1>2 DEF Window

(* What the walk has seen is a running sum of the sizes of the slots. *)
Sizes(b) == [k \in 1 .. MaxOps |-> Len(b.entry[SlotOf(b, k)])]

(* Every slot that the walk meets has a size. *)
LEMMA SizesType ==
  ASSUME NEW b \in Buffer
  PROVE  \A k \in 1 .. MaxOps : Sizes(b)[k] \in Nat
<1>1. \A k \in 1 .. MaxOps : b.entry[SlotOf(b, k)] \in Seq(Byte)
  BY SlotOfType DEF Buffer
<1>. QED
  BY <1>1, LenProperties DEF Sizes

(* SizeSeen is the running sum of the sizes in the order of the walk. *)
LEMMA SizeSeenType ==
  ASSUME NEW b \in Buffer
  PROVE  /\ SizeSeen(b) \in [0 .. MaxOps -> Nat]
         /\ IsRunningSum(SizeSeen(b), Sizes(b), MaxOps)
<1>. DEFINE Sums(f) == [k \in 0 .. MaxOps |->
                         IF k = 0 THEN 0 ELSE f[k - 1] + Len(b.entry[SlotOf(b, k)])]
<1>1. MaxOps \in Nat
  BY MaxOpsAssumption
<1>2. ASSUME NEW f
      PROVE  IsRunningSum(f, Sizes(b), MaxOps) <=> f = Sums(f)
  <2>1. \A k \in 0 .. MaxOps : k # 0 => Sizes(b)[k] = Len(b.entry[SlotOf(b, k)])
    BY <1>1 DEF Sizes
  <2>2. Sums(f) = [k \in 0 .. MaxOps |-> IF k = 0 THEN 0 ELSE f[k - 1] + Sizes(b)[k]]
    BY <2>1
  <2>. QED
    BY <2>2, Zenon DEF IsRunningSum
<1>3. \E f : f = Sums(f)
  BY <1>1, <1>2, SizesType, RunningSumExists
<1>4. SizeSeen(b) = Sums(SizeSeen(b))
  BY <1>3, Zenon DEF SizeSeen
<1>5. IsRunningSum(SizeSeen(b), Sizes(b), MaxOps)
  BY <1>2, <1>4
<1>. QED
  BY <1>1, <1>5, SizesType, RunningSumType

(* The walk's sums are where the commands held end when laid end to end.   *)
LEMMA WalkEnds ==
  ASSUME NEW b \in Buffer
  PROVE  /\ SizeSeen(b)[0] = 0
         /\ \A k \in 1 .. MaxOps :
              SizeSeen(b)[k] = SizeSeen(b)[k - 1] + Len(b.entry[SlotOf(b, k)])
         /\ EndsAt(SizeSeen(b), Window(b))
<1>1. MaxOps \in Nat
  BY MaxOpsAssumption
<1>2. SizeSeen(b)[0] = 0
  BY <1>1, SizeSeenType, RunningSumValues
<1>3. ASSUME NEW k \in 1 .. MaxOps
      PROVE  SizeSeen(b)[k] = SizeSeen(b)[k - 1] + Len(b.entry[SlotOf(b, k)])
  <2>1. SizeSeen(b)[k] = SizeSeen(b)[k - 1] + Sizes(b)[k]
    BY <1>1, SizeSeenType, RunningSumValues
  <2>. QED
    BY <2>1 DEF Sizes
<1>4. ASSUME NEW k \in 0 .. Len(Window(b)) - 1
      PROVE  /\ SizeSeen(b)[k] \in Nat
             /\ SizeSeen(b)[k + 1] = SizeSeen(b)[k] + Len(Window(b)[k + 1])
  <2>1. k + 1 \in 1 .. MaxOps /\ k \in 0 .. MaxOps /\ k + 1 \in 1 .. Held(b)
    BY WindowType, MaxOpsAssumption
  <2>2. SizeSeen(b)[k + 1] = SizeSeen(b)[k] + Len(b.entry[SlotOf(b, k + 1)])
    BY <1>3, <2>1
  <2>. QED
    BY <2>1, <2>2, SizeSeenType, WindowType
<1>. QED
  BY <1>2, <1>3, <1>4 DEF EndsAt

(* The sums never decrease, and beyond the commands held they stay. *)
LEMMA WalkGrows ==
  ASSUME NEW b \in Buffer, NEW j \in 0 .. MaxOps, NEW k \in j .. MaxOps
  PROVE  SizeSeen(b)[j] <= SizeSeen(b)[k]
<1>1. MaxOps \in Nat
  BY MaxOpsAssumption
<1>. QED
  BY <1>1, SizesType, SizeSeenType, RunningSumGrows

(* The slots after the last one held are empty and add nothing. *)
LEMMA WalkRests ==
  ASSUME NEW b \in Buffer, OffsetsAgree(b), NEW k \in Held(b) .. MaxOps
  PROVE  SizeSeen(b)[k] = SizeSeen(b)[Held(b)]
<1>1. MaxOps \in Nat /\ Held(b) \in 0 .. MaxOps
  BY MaxOpsAssumption, WindowType
<1>2. CASE b.full
  BY <1>1, <1>2 DEF Held
<1>3. CASE ~b.full
  <2>1. ASSUME NEW i \in Held(b) + 1 .. MaxOps
        PROVE  Sizes(b)[i] = 0
    <3>1. i \in 1 .. MaxOps /\ i - 1 \in Slots /\ i - 1 >= b.in_offs /\ ~(i - 1 >= MaxOps)
      BY <1>1, <1>3 DEF Held, Slots, Buffer
    <3>2. b.out_offs = 0 /\ b.entry[i - 1] = NoEntry
      BY <1>3, <3>1 DEF OffsetsAgree
    <3>3. SlotOf(b, i) = i - 1
      BY <3>1, <3>2 DEF SlotOf, Wrap
    <3>. QED
      BY <3>1, <3>2, <3>3 DEF Sizes, NoEntry
  <2>. DEFINE f == SizeSeen(b)
              w == Sizes(b)
              h == Held(b)
  <2>2. f \in [0 .. MaxOps -> Nat] /\ IsRunningSum(f, w, MaxOps)
    BY SizeSeenType
  <2>3. h \in 0 .. MaxOps /\ \A i \in h + 1 .. MaxOps : w[i] = 0
    BY <1>1, <2>1
  <2>. HIDE DEF f, w, h
  <2>4. SumsWithRest(f, w, MaxOps, h)
    BY <1>1, <2>2, <2>3, Zenon DEF SumsWithRest
  <2>5. Rests(f, h, MaxOps)
    BY <2>4, RunningSumRests, Zenon
  <2>. QED
    BY <2>5, Zenon DEF Rests, f, h
<1>. QED
  BY <1>2, <1>3 DEF Buffer

(* The commands held, end to end: how long they are and which byte of them *)
(* the j-th of the k-th slot visited is.                                   *)
LEMMA ContentBytes ==
  ASSUME NEW b \in Buffer
  PROVE  /\ FlattenSeq(Window(b)) \in Seq(Byte)
         /\ Len(FlattenSeq(Window(b))) = SizeSeen(b)[Held(b)]
         /\ \A k \in 1 .. Held(b) : \A j \in 1 .. Len(b.entry[SlotOf(b, k)]) :
              /\ SizeSeen(b)[k - 1] + j \in 1 .. Len(FlattenSeq(Window(b)))
              /\ FlattenSeq(Window(b))[SizeSeen(b)[k - 1] + j] = b.entry[SlotOf(b, k)][j]
<1>1. LaidOut(FlattenSeq(Window(b)), SizeSeen(b), Window(b))
  BY WindowType, WalkEnds, FlattenLaidOut
<1>2. ASSUME NEW k \in 1 .. Held(b), NEW j \in 1 .. Len(b.entry[SlotOf(b, k)])
      PROVE  /\ SizeSeen(b)[k - 1] + j \in 1 .. Len(FlattenSeq(Window(b)))
             /\ FlattenSeq(Window(b))[SizeSeen(b)[k - 1] + j] = b.entry[SlotOf(b, k)][j]
  <2>1. k - 1 \in 0 .. Len(Window(b)) - 1 /\ k - 1 + 1 = k
    BY WindowType
  <2>2. Window(b)[k - 1 + 1] = b.entry[SlotOf(b, k)]
    BY <2>1, WindowType
  <2>. QED
    BY <1>1, <2>1, <2>2 DEF LaidOut
<1>. QED
  BY <1>1, <1>2, WindowType, FlattenType DEF LaidOut

(* A position inside the content is found at the step of the walk that     *)
(* passes it; any other position is not found.                             *)
LEMMA FindEntryStep ==
  ASSUME NEW b \in Buffer, NEW off \in Nat, off < Len(FlattenSeq(Window(b)))
  PROVE  \E k \in 1 .. Held(b) :
           /\ SizeSeen(b)[k - 1] <= off /\ off < SizeSeen(b)[k]
           /\ FindEntry(b, off) = [slot   |-> SlotOf(b, k),
                                   offset |-> off - SizeSeen(b)[k - 1]]
<1>. DEFINE hits == Reaching(b, off)
            k    == Min(hits)
<1>1. MaxOps \in Nat /\ Held(b) \in 0 .. MaxOps
  BY MaxOpsAssumption, WindowType
<1>2. SizeSeen(b) \in [0 .. MaxOps -> Nat] /\ SizeSeen(b)[0] = 0
  BY SizeSeenType, WalkEnds
<1>3. Held(b) # 0 /\ Held(b) \in hits
  BY <1>1, <1>2, ContentBytes DEF Reaching
<1>4. k \in hits /\ \A j \in hits : k <= j
  <2>1. hits \subseteq Nat /\ hits # {}
    BY <1>3 DEF Reaching
  <2>. HIDE DEF hits
  <2>. QED
    BY <2>1, MinOfNumbers
<1>5. k \in 1 .. Held(b) /\ off < SizeSeen(b)[k]
  BY <1>1, <1>3, <1>4 DEF Reaching
<1>6. SizeSeen(b)[k - 1] <= off
  <2>1. CASE k = 1
    BY <1>2, <2>1
  <2>2. CASE k # 1
    <3>1. k - 1 \in 1 .. MaxOps /\ k - 1 \notin hits
      BY <1>1, <1>4, <1>5, <2>2
    <3>2. ~(off < SizeSeen(b)[k - 1])
      BY <3>1 DEF Reaching
    <3>. QED
      BY <1>2, <3>1, <3>2
  <2>. QED
    BY <2>1, <2>2
<1>7. FindEntry(b, off) = [slot |-> SlotOf(b, k), offset |-> off - SizeSeen(b)[k - 1]]
  BY <1>3 DEF FindEntry
<1>. QED
  BY <1>5, <1>6, <1>7

(* A position past the last byte is in no slot. *)
LEMMA FindEntryNone ==
  ASSUME NEW b \in Buffer, OffsetsAgree(b), NEW off \in Nat,
         off >= Len(FlattenSeq(Window(b)))
  PROVE  FindEntry(b, off) = NoSlot
<1>1. MaxOps \in Nat /\ Held(b) \in 0 .. MaxOps
  BY MaxOpsAssumption, WindowType
<1>2. ASSUME NEW k \in 1 .. MaxOps
      PROVE  ~(off < SizeSeen(b)[k])
  <2>1. SizeSeen(b)[k] <= SizeSeen(b)[Held(b)]
    <3>1. CASE k <= Held(b)
      BY <1>1, <3>1, WalkGrows
    <3>2. CASE k > Held(b)
      BY <1>1, <3>2, WalkRests, WalkGrows
    <3>. QED
      BY <1>1, <3>1, <3>2
  <2>. QED
    BY <1>1, <2>1, SizeSeenType, ContentBytes
<1>3. Reaching(b, off) = {}
  BY <1>2 DEF Reaching
<1>. QED
  BY <1>3 DEF FindEntry

(* The step of the walk that passes a position is the one found. *)
LEMMA FindEntryAt ==
  ASSUME NEW b \in Buffer, NEW off \in Nat, NEW k \in 1 .. MaxOps,
         SizeSeen(b)[k - 1] <= off, off < SizeSeen(b)[k]
  PROVE  FindEntry(b, off) = [slot   |-> SlotOf(b, k),
                              offset |-> off - SizeSeen(b)[k - 1]]
<1>. DEFINE hits == Reaching(b, off)
<1>1. k \in hits
  BY DEF Reaching
<1>2. ASSUME NEW j \in hits
      PROVE  k <= j
  <2>1. j \in 1 .. MaxOps /\ off < SizeSeen(b)[j]
    BY DEF Reaching
  <2>2. SUFFICES ASSUME j <= k - 1 PROVE FALSE
    BY <2>1
  <2>3. SizeSeen(b)[j] <= SizeSeen(b)[k - 1]
    BY <2>1, <2>2, MaxOpsAssumption, WalkGrows
  <2>. QED
    BY <2>1, <2>3, SizeSeenType, MaxOpsAssumption
<1>3. hits \subseteq Nat /\ hits # {}
  BY <1>1 DEF Reaching
<1>4. Min(hits) = k
  <2>. HIDE DEF hits
  <2>1. Min(hits) \in hits /\ Min(hits) <= k
    BY <1>1, <1>3, MinOfNumbers
  <2>2. k <= Min(hits)
    BY <1>2, <2>1
  <2>3. Min(hits) \in Nat /\ k \in Nat
    BY <1>1, <1>3, <2>1
  <2>. QED
    BY <2>1, <2>2, <2>3, SMT
<1>. QED
  BY <1>3, <1>4 DEF FindEntry

(* The walk that passes no position up to its end finds nothing. *)
LEMMA FindEntryPassed ==
  ASSUME NEW b \in Buffer, NEW off \in Nat, SizeSeen(b)[MaxOps] <= off
  PROVE  FindEntry(b, off) = NoSlot
<1>1. \A k \in 1 .. MaxOps : ~(off < SizeSeen(b)[k])
  BY WalkGrows, SizeSeenType, MaxOpsAssumption
<1>. QED
  BY <1>1 DEF FindEntry, Reaching

(* Whatever the position, what is found is a slot and an offset, or NULL. *)
LEMMA FindEntryType ==
  ASSUME NEW b \in Buffer, NEW off \in Int
  PROVE  FindEntry(b, off) \in [slot : Slots, offset : Int] \cup {NoSlot}
<1>. DEFINE hits == Reaching(b, off)
<1>1. CASE hits = {}
  BY <1>1 DEF FindEntry
<1>2. CASE hits # {}
  <2>1. hits \subseteq Nat /\ hits \subseteq 1 .. MaxOps
    BY DEF Reaching
  <2>2. Min(hits) \in 1 .. MaxOps
    <3>. HIDE DEF hits
    <3>. QED
      BY <1>2, <2>1, MinOfNumbers
  <2>3. SlotOf(b, Min(hits)) \in Slots
    BY <2>2, SlotOfType
  <2>4. off - SizeSeen(b)[Min(hits) - 1] \in Int
    <3>1. Min(hits) - 1 \in 0 .. MaxOps
      BY <2>2, MaxOpsAssumption
    <3>2. SizeSeen(b)[Min(hits) - 1] \in Nat
      BY <3>1, SizeSeenType
    <3>. QED
      BY <3>2
  <2>. QED
    BY <1>2, <2>3, <2>4 DEF FindEntry
<1>. QED
  BY <1>1, <1>2

-----------------------------------------------------------------------------
(* Dropping the oldest command drops the first bytes of the content. *)
LEMMA NewestContent ==
  ASSUME NEW w \in Seq(Seq(Byte))
  PROVE  /\ Newest(w) \in Seq(Seq(Byte))
         /\ FlattenSeq(Newest(w)) \in Seq(Byte)
         /\ \E gone \in Seq(Byte) : FlattenSeq(w) = gone \o FlattenSeq(Newest(w))
<1>1. CASE Len(w) <= MaxOps
  <2>1. << >> \in Seq(Byte) /\ << >> \o FlattenSeq(w) = FlattenSeq(w)
    BY EmptySeq, FlattenType, ConcatEmptySeq
  <2>. QED
    BY <1>1, <2>1, FlattenType DEF Newest
<1>2. CASE ~(Len(w) <= MaxOps)
  <2>1. w # << >>
    BY <1>2, EmptySeq, MaxOpsAssumption
  <2>2. Head(w) \in Seq(Byte) /\ Tail(w) \in Seq(Seq(Byte))
    BY <2>1, HeadTailProperties
  <2>3. FlattenSeq(w) = Head(w) \o FlattenSeq(Tail(w))
    BY <2>1, FlattenHead
  <2>. QED
    BY <1>2, <2>2, <2>3, FlattenType DEF Newest
<1>. QED
  BY <1>1, <1>2

(* Adding an entry appends it to the content, the oldest bytes of which    *)
(* may go.                                                                 *)
LEMMA AddEntryContent ==
  ASSUME NEW b \in Buffer, OffsetsAgree(b), NEW e \in Seq(Byte) \ {NoEntry}
  PROVE  \E gone \in Seq(Byte) :
           FlattenSeq(Window(b)) \o e = gone \o FlattenSeq(Window(AddEntry(b, e)))
<1>1. Window(b) \in Seq(Seq(Byte)) /\ Append(Window(b), e) \in Seq(Seq(Byte))
  BY WindowType, AppendProperties
<1>2. FlattenSeq(Append(Window(b), e)) = FlattenSeq(Window(b)) \o e
  BY <1>1, FlattenAppend
<1>. QED
  BY <1>1, <1>2, AddEntryStores, NewestContent

-----------------------------------------------------------------------------
(* Table order: the sums of the slots before each one. *)
TableSizes(b) == [i \in 1 .. MaxOps |-> Len(b.entry[i - 1])]

(* SizeBefore is the running sum of the sizes in the order of the table. *)
LEMMA SizeBeforeType ==
  ASSUME NEW b \in Buffer
  PROVE  /\ SizeBefore(b) \in [0 .. MaxOps -> Nat]
         /\ IsRunningSum(SizeBefore(b), TableSizes(b), MaxOps)
         /\ \A i \in 1 .. MaxOps : TableSizes(b)[i] \in Nat
<1>. DEFINE Sums(f) == [i \in 0 .. MaxOps |->
                         IF i = 0 THEN 0 ELSE f[i - 1] + Len(b.entry[i - 1])]
<1>1. MaxOps \in Nat
  BY MaxOpsAssumption
<1>2. ASSUME NEW f
      PROVE  IsRunningSum(f, TableSizes(b), MaxOps) <=> f = Sums(f)
  <2>1. \A i \in 0 .. MaxOps : i # 0 => TableSizes(b)[i] = Len(b.entry[i - 1])
    BY <1>1 DEF TableSizes
  <2>2. Sums(f) = [i \in 0 .. MaxOps |-> IF i = 0 THEN 0 ELSE f[i - 1] + TableSizes(b)[i]]
    BY <2>1
  <2>. QED
    BY <2>2, Zenon DEF IsRunningSum
<1>3. \A i \in 1 .. MaxOps : TableSizes(b)[i] \in Nat
  <2>1. \A i \in 1 .. MaxOps : b.entry[i - 1] \in Seq(Byte)
    BY <1>1 DEF Buffer, Slots
  <2>. QED
    BY <2>1, LenProperties DEF TableSizes
<1>4. \E f : f = Sums(f)
  BY <1>1, <1>2, <1>3, RunningSumExists
<1>5. SizeBefore(b) = Sums(SizeBefore(b))
  BY <1>4, Zenon DEF SizeBefore
<1>6. IsRunningSum(SizeBefore(b), TableSizes(b), MaxOps)
  BY <1>2, <1>5
<1>. QED
  BY <1>1, <1>3, <1>6, RunningSumType

(* The walk goes from out_offs to the end of the table and on from its      *)
(* start: it adds up the same sizes as the table order does.                *)
LEMMA TableOrder ==
  ASSUME NEW b \in Buffer
  PROVE  /\ \A j \in 0 .. MaxOps - b.out_offs, i \in 0 .. MaxOps :
              i = b.out_offs + j
                => SizeBefore(b)[i] = SizeBefore(b)[b.out_offs] + SizeSeen(b)[j]
         /\ SizeSeen(b)[MaxOps] = SizeBefore(b)[MaxOps]
<1>. DEFINE out == b.out_offs
            l   == MaxOps - out
            w   == SizeSeen(b)
            t   == SizeBefore(b)
<1>1. MaxOps \in Nat /\ out \in 0 .. MaxOps - 1 /\ l \in 1 .. MaxOps /\ out + l = MaxOps
  BY MaxOpsAssumption DEF Buffer, Slots
<1>2. SameFrom(Sizes(b), TableSizes(b), out, l)
  <2>1. ASSUME NEW i \in 1 .. l, NEW k \in Nat, k = out + i
        PROVE  Sizes(b)[i] = TableSizes(b)[k]
    <3>1. i \in 1 .. MaxOps /\ k \in 1 .. MaxOps /\ SlotOf(b, i) = k - 1
      BY <1>1, <2>1 DEF SlotOf, Wrap
    <3>. QED
      BY <3>1, Zenon DEF Sizes, TableSizes
  <2>. QED
    BY <2>1 DEF SameFrom
<1>3. SameFrom(TableSizes(b), Sizes(b), l, out)
  <2>1. ASSUME NEW i \in 1 .. out, NEW k \in Nat, k = l + i
        PROVE  TableSizes(b)[i] = Sizes(b)[k]
    <3>1. i \in 1 .. MaxOps /\ k \in 1 .. MaxOps /\ SlotOf(b, k) = i - 1
      BY <1>1, <2>1 DEF SlotOf, Wrap
    <3>. QED
      BY <3>1, Zenon DEF Sizes, TableSizes
  <2>. QED
    BY <2>1 DEF SameFrom
<1>4. w \in [0 .. MaxOps -> Nat] /\ AreRunningSums(w, Sizes(b), MaxOps)
  BY SizesType, SizeSeenType DEF AreRunningSums
<1>5. t \in [0 .. MaxOps -> Nat] /\ AreRunningSums(t, TableSizes(b), MaxOps)
  BY SizeBeforeType DEF AreRunningSums
<1>. HIDE DEF w, t, out, l
<1>6. Continues(t, w, out, l)
  <2>1. MaxOps \in Nat /\ out \in 0 .. MaxOps /\ l \in 0 .. MaxOps /\ out + l <= MaxOps
    BY <1>1
  <2>. QED
    BY <1>2, <1>4, <1>5, <2>1, RunningSumPart
<1>7. Continues(w, t, l, out)
  <2>1. MaxOps \in Nat /\ l \in 0 .. MaxOps /\ out \in 0 .. MaxOps /\ l + out <= MaxOps
    BY <1>1
  <2>. QED
    BY <1>3, <1>4, <1>5, <2>1, RunningSumPart
<1>8. w[MaxOps] = t[MaxOps]
  <2>1. MaxOps = out + l /\ MaxOps = l + out /\ MaxOps \in 0 .. MaxOps
        /\ l \in 0 .. l /\ out \in 0 .. out
    BY <1>1
  <2>2. t[MaxOps] = t[out] + w[l] /\ w[MaxOps] = w[l] + t[out]
    BY <1>1, <1>6, <1>7, <2>1 DEF Continues
  <2>3. t[out] \in Nat /\ w[l] \in Nat
    BY <1>1, <1>4, <1>5
  <2>. QED
    BY <2>2, <2>3
<1>. QED
  BY <1>1, <1>6, <1>8 DEF Continues, w, t, out, l

(* A slot lies between its own start in table order and the next one. *)
LEMMA TableGrows ==
  ASSUME NEW b \in Buffer, NEW i \in Slots
  PROVE  /\ SizeBefore(b)[i + 1] = SizeBefore(b)[i] + Len(b.entry[i])
         /\ SizeBefore(b)[i + 1] <= SizeBefore(b)[MaxOps]
<1>1. MaxOps \in Nat /\ i + 1 \in 1 .. MaxOps /\ (i + 1) - 1 = i
  BY MaxOpsAssumption DEF Slots
<1>2. TableSizes(b)[i + 1] = Len(b.entry[i])
  BY <1>1 DEF TableSizes
<1>3. SizeBefore(b)[i + 1] = SizeBefore(b)[i] + TableSizes(b)[i + 1]
  BY <1>1, SizeBeforeType, RunningSumValues
<1>4. SizeBefore(b)[i + 1] <= SizeBefore(b)[MaxOps]
  <2>1. i + 1 \in 0 .. MaxOps /\ MaxOps \in i + 1 .. MaxOps
    BY <1>1
  <2>. QED
    BY <1>1, <2>1, SizeBeforeType, RunningSumGrows
<1>. QED
  BY <1>2, <1>3, <1>4

(* A byte of a table slot is one of the bytes held, and the one asked for   *)
(* if the walk starts where the table does.                                 *)
LEMMA TablePosition ==
  ASSUME NEW b \in Buffer, OffsetsAgree(b), NEW i \in Slots, NEW o \in Nat,
         o < Len(b.entry[i])
  PROVE  /\ SizeBefore(b)[i] + o \in Nat
         /\ FindEntry(b, SizeBefore(b)[i] + o) # NoSlot
         /\ b.out_offs = 0 => FindEntry(b, SizeBefore(b)[i] + o) = [slot |-> i, offset |-> o]
<1>. DEFINE x == SizeBefore(b)[i] + o
<1>1. MaxOps \in Nat /\ i \in 0 .. MaxOps /\ i + 1 \in 1 .. MaxOps
  BY MaxOpsAssumption DEF Slots
<1>2. SizeBefore(b) \in [0 .. MaxOps -> Nat] /\ SizeSeen(b) \in [0 .. MaxOps -> Nat]
  BY SizeBeforeType, SizeSeenType
<1>3. b.entry[i] \in Seq(Byte) /\ Len(b.entry[i]) \in Nat
  BY LenProperties DEF Buffer
<1>4. /\ x \in Nat
      /\ SizeBefore(b)[i] <= x /\ x < SizeBefore(b)[i + 1] /\ x < SizeBefore(b)[MaxOps]
  <2>1. /\ SizeBefore(b)[i] \in Nat /\ SizeBefore(b)[i + 1] \in Nat
        /\ SizeBefore(b)[MaxOps] \in Nat
    BY <1>1, <1>2
  <2>2. /\ SizeBefore(b)[i + 1] = SizeBefore(b)[i] + Len(b.entry[i])
        /\ SizeBefore(b)[i + 1] <= SizeBefore(b)[MaxOps]
    BY TableGrows
  <2>. DEFINE before == SizeBefore(b)[i]
              after  == SizeBefore(b)[i + 1]
              all    == SizeBefore(b)[MaxOps]
              l      == Len(b.entry[i])
  <2>3. /\ before \in Nat /\ after \in Nat /\ all \in Nat /\ l \in Nat
        /\ after = before + l /\ after <= all /\ o < l /\ x = before + o
    BY <1>3, <2>1, <2>2, Zenon
  <2>. HIDE DEF before, after, all, l, x
  <2>4. x \in Nat /\ before <= x /\ x < after /\ x < all
    BY <2>3
  <2>. QED
    BY <2>4, Zenon DEF before, after, all, x
<1>5. FindEntry(b, x) # NoSlot
  <2>1. x < Len(FlattenSeq(Window(b)))
    <3>1. Held(b) \in 0 .. MaxOps /\ MaxOps \in Held(b) .. MaxOps
      BY <1>1, WindowType
    <3>2. SizeSeen(b)[MaxOps] = SizeSeen(b)[Held(b)]
      BY <3>1, WalkRests
    <3>. QED
      BY <1>4, <3>2, ContentBytes, TableOrder
  <2>2. PICK k \in 1 .. Held(b) : FindEntry(b, x) = [slot   |-> SlotOf(b, k),
                                                     offset |-> x - SizeSeen(b)[k - 1]]
    BY <1>4, <2>1, FindEntryStep
  <2>3. SlotOf(b, k) \in Slots
    BY <1>1, WindowType, SlotOfType
  <2>. QED
    BY <2>2, <2>3 DEF NoSlot, Slots
<1>6. ASSUME b.out_offs = 0
      PROVE  FindEntry(b, x) = [slot |-> i, offset |-> o]
  <2>1. SizeBefore(b)[0] = 0
    BY <1>1, SizeBeforeType, RunningSumValues
  <2>2. \A j \in 0 .. MaxOps : SizeBefore(b)[j] = SizeSeen(b)[j]
    <3>1. \A j \in 0 .. MaxOps : SizeBefore(b)[j] = SizeBefore(b)[0] + SizeSeen(b)[j]
      BY <1>1, <1>6, TableOrder
    <3>. QED
      BY <1>2, <2>1, <3>1
  <2>3. PICK k \in 1 .. MaxOps : k = i + 1 /\ k - 1 = i
    BY <1>1
  <2>4. SizeSeen(b)[k - 1] = SizeBefore(b)[i] /\ SizeSeen(b)[k] = SizeBefore(b)[i + 1]
    BY <1>1, <2>2, <2>3
  <2>5. FindEntry(b, x) = [slot |-> SlotOf(b, k), offset |-> x - SizeSeen(b)[k - 1]]
    BY <1>4, <2>4, FindEntryAt
  <2>6. SlotOf(b, k) = i
    BY <1>1, <1>6, <2>3 DEF SlotOf, Wrap, Slots
  <2>7. x - SizeSeen(b)[k - 1] = o
    BY <1>1, <1>2, <2>4
  <2>. QED
    BY <2>5, <2>6, <2>7, Zenon
<1>. QED
  BY <1>4, <1>5, <1>6

(* A read copies bytes of one command, and they are those of the content    *)
(* its position stands for.                                                 *)
ReadsFrom(b, k, x) == SizeSeen(b)[k - 1] <= x /\ x < SizeSeen(b)[k]

(* A stretch of the command that holds position x is the stretch of the     *)
(* content at x.                                                            *)
LEMMA CopiedBytes ==
  ASSUME NEW b \in Buffer, NEW k \in 1 .. Held(b), NEW x \in Nat, ReadsFrom(b, k, x),
         NEW n \in Nat, NEW off, off = x - SizeSeen(b)[k - 1],
         n <= Len(b.entry[SlotOf(b, k)]) - off
  PROVE  /\ x + n <= SizeSeen(b)[k]
         /\ Stretch(b.entry[SlotOf(b, k)], off, n) \in Seq(Byte)
         /\ Len(Stretch(b.entry[SlotOf(b, k)], off, n)) = n
         /\ Stretch(b.entry[SlotOf(b, k)], off, n) = Stretch(FlattenSeq(Window(b)), x, n)
<1>. DEFINE s == b.entry[SlotOf(b, k)]
            c == FlattenSeq(Window(b))
            y == SizeSeen(b)[k - 1]
<1>1. /\ MaxOps \in Nat /\ Held(b) \in 0 .. MaxOps
      /\ k \in 1 .. MaxOps /\ k - 1 \in 0 .. MaxOps /\ k \in 0 .. MaxOps
  BY WindowType, MaxOpsAssumption
<1>2. s \in Seq(Byte) /\ Len(s) \in Nat
  BY <1>1, SlotOfType, LenProperties DEF Buffer
<1>3. y \in Nat /\ SizeSeen(b)[k] \in Nat /\ SizeSeen(b)[k] = y + Len(s)
  BY <1>1, SizeSeenType, WalkEnds
<1>4. off \in Nat /\ off + n <= Len(s) /\ x = y + off /\ x + n <= SizeSeen(b)[k]
  <2>1. off = x - y /\ n <= Len(s) - off /\ y <= x
    BY DEF ReadsFrom
  <2>2. Len(s) \in Nat
    BY <1>2
  <2>. HIDE DEF s, y
  <2>. QED
    BY <1>3, <2>1, <2>2
<1>5. c \in Seq(Byte) /\ Len(c) \in Nat /\ SizeSeen(b)[k] <= Len(c)
  <2>1. c \in Seq(Byte) /\ Len(c) = SizeSeen(b)[Held(b)]
    BY ContentBytes
  <2>2. k \in 0 .. MaxOps /\ Held(b) \in k .. MaxOps
    BY <1>1
  <2>3. SizeSeen(b)[k] <= SizeSeen(b)[Held(b)]
    BY <2>2, WalkGrows
  <2>. QED
    BY <2>1, <2>3, LenProperties
<1>6. \A j \in 1 .. Len(s) : c[y + j] = s[j]
  BY ContentBytes
<1>. DEFINE z == SizeSeen(b)[k]
<1>. HIDE DEF s, c, y, z
<1>7. SameStretch(Byte, s, off, c, x, n)
  <2>1. ASSUME NEW j \in Nat, NEW l \in Nat, off < j, j <= off + n, j - off = l - x
        PROVE  s[j] = c[l]
    <3>1. off \in Nat /\ y \in Nat /\ x = y + off /\ off + n <= Len(s) /\ Len(s) \in Nat
      BY <1>2, <1>3, <1>4, Zenon
    <3>2. l = y + j
      <4>1. j - off = l - (y + off)
        BY <2>1, <3>1, Zenon
      <4>. QED
        BY <3>1, <4>1
    <3>3. j \in 1 .. Len(s)
      <4>1. off < j /\ j <= off + n
        BY <2>1, Zenon
      <4>. QED
        BY <3>1, <4>1
    <3>4. c[y + j] = s[j]
      BY <1>6, <3>3
    <3>. QED
      BY <3>2, <3>4, Zenon
  <2>2. x + n <= Len(c)
    <3>1. x + n <= z /\ z <= Len(c) /\ z \in Nat /\ Len(c) \in Nat
      BY <1>3, <1>4, <1>5, Zenon DEF z
    <3>. QED
      BY <3>1
  <2>3. off + n <= Len(s) /\ off \in Nat /\ s \in Seq(Byte) /\ c \in Seq(Byte)
    BY <1>2, <1>4, <1>5, Zenon
  <2>. QED
    BY <2>1, <2>2, <2>3, Zenon DEF SameStretch
<1>8. Stretch(s, off, n) = Stretch(c, x, n)
  BY <1>7, SameBytes
<1>9. Stretch(s, off, n) \in Seq(Byte) /\ Len(Stretch(s, off, n)) = n
  <2>1. Reaches(Byte, s, off, n)
    BY <1>2, <1>4, Zenon DEF Reaches
  <2>2. IsStretch(Byte, Stretch(s, off, n), s, off, n)
    BY <2>1, StretchType, Zenon
  <2>. QED
    BY <2>2, Zenon DEF IsStretch
<1>. QED
  BY <1>4, <1>8, <1>9, Zenon DEF s, c

(* Where the k-th command held ends in the content. *)
LEMMA CommandEnd ==
  ASSUME NEW b \in Buffer, NEW k \in 1 .. Held(b)
  PROVE  Len(FlattenSeq(SubSeq(Window(b), 1, k))) = SizeSeen(b)[k]
<1>. DEFINE w == Window(b)
            t == SubSeq(w, 1, k)
            f == SizeSeen(b)
<1>1. w \in Seq(Seq(Byte)) /\ Len(w) = Held(b) /\ Held(b) \in Nat /\ k \in Nat /\ k <= Len(w)
  BY WindowType
<1>2. EndsAt(f, w)
  BY WalkEnds
<1>. HIDE DEF w, f
<1>3. t \in Seq(Seq(Byte)) /\ Len(t) = k /\ \A j \in 1 .. k : t[j] = w[j]
  <2>1. \A j \in 1 .. k : w[j] \in Seq(Byte)
    BY <1>1
  <2>2. /\ t \in Seq(Seq(Byte)) /\ Len(t) = IF 1 <= k THEN k - 1 + 1 ELSE 0
        /\ \A j \in 1 .. k - 1 + 1 : t[j] = w[1 + j - 1]
    BY <2>1, SubSeqProperties
  <2>3. k - 1 + 1 = k /\ 1 <= k /\ \A j \in 1 .. k : 1 + j - 1 = j
    OBVIOUS
  <2>. QED
    BY <2>2, <2>3
<1>. HIDE DEF t
<1>4. EndsAt(f, t)
  <2>1. ASSUME NEW j \in 0 .. k - 1
        PROVE  f[j] \in Nat /\ f[j + 1] = f[j] + Len(t[j + 1])
    <3>1. j \in 0 .. Len(w) - 1 /\ j + 1 \in 1 .. k
      BY <1>1
    <3>2. f[j] \in Nat /\ f[j + 1] = f[j] + Len(w[j + 1])
      BY <1>2, <3>1 DEF EndsAt
    <3>3. t[j + 1] = w[j + 1]
      BY <1>3, <3>1
    <3>. QED
      BY <3>2, <3>3, Zenon
  <2>. QED
    BY <1>2, <1>3, <2>1 DEF EndsAt
<1>5. LaidOut(FlattenSeq(t), f, t)
  BY <1>3, <1>4, FlattenLaidOut
<1>. QED
  BY <1>3, <1>5 DEF LaidOut, f, t, w

(* The next end of a command after a position inside the k-th one.          *)
LEMMA NextEnd ==
  ASSUME NEW b \in Buffer, NEW k \in 1 .. Held(b), NEW x \in Nat, ReadsFrom(b, k, x),
         NEW ends, ends = {Len(FlattenSeq(SubSeq(Window(b), 1, j))) : j \in 1 .. Held(b)}
  PROVE  /\ Min({end \in ends : end > x}) \in Nat
         /\ SizeSeen(b)[k] <= Min({end \in ends : end > x})
<1>. DEFINE later == {end \in ends : end > x}
<1>1. /\ MaxOps \in Nat /\ Held(b) \in 0 .. MaxOps /\ SizeSeen(b) \in [0 .. MaxOps -> Nat]
      /\ k - 1 \in 0 .. MaxOps
  BY MaxOpsAssumption, WindowType, SizeSeenType
<1>2. ends = {SizeSeen(b)[j] : j \in 1 .. Held(b)}
  BY CommandEnd
<1>3. later \subseteq Nat
  BY <1>1, <1>2
<1>4. SizeSeen(b)[k] \in later
  BY <1>2 DEF ReadsFrom
<1>5. \A end \in later : SizeSeen(b)[k] <= end
  <2>. SUFFICES ASSUME NEW j \in 1 .. Held(b), SizeSeen(b)[j] > x
                PROVE  SizeSeen(b)[k] <= SizeSeen(b)[j]
    BY <1>2
  <2>1. CASE k <= j
    <3>1. k \in 0 .. MaxOps /\ j \in k .. MaxOps
      BY <1>1, <2>1
    <3>. QED
      BY <3>1, WalkGrows
  <2>2. CASE j < k
    <3>1. j \in 0 .. MaxOps /\ k - 1 \in j .. MaxOps
      BY <1>1, <2>2
    <3>2. SizeSeen(b)[j] <= SizeSeen(b)[k - 1]
      BY <3>1, WalkGrows
    <3>3. SizeSeen(b)[k - 1] <= x /\ SizeSeen(b)[j] \in Nat /\ SizeSeen(b)[k - 1] \in Nat
      BY <1>1, <3>1 DEF ReadsFrom
    <3>. QED
      BY <3>2, <3>3
  <2>. QED
    BY <2>1, <2>2
<1>. HIDE DEF later
<1>6. Min(later) \in later
  BY <1>3, <1>4, MinOfNumbers
<1>. QED
  BY <1>3, <1>5, <1>6 DEF later
=============================================================================
