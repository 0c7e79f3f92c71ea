------------------------- MODULE FindEntryLoopProofs ------------------------
(***************************************************************************)
(* Proofs about the circular buffer in use (RingLog) and about its search  *)
(* loop, for every table size, every set of commands and every position.   *)
(***************************************************************************)
EXTENDS FindEntryLoop, AesdCircularBufferProofs

(* Every index the buffer code computes stays inside the table, whatever    *)
(* the table size (aesd_circular_buffer_add_entry's two wrap-arounds).      *)
THEOREM TypeCorrect == Spec => []TypeOK
<1>1. Init => TypeOK
  BY EmptyBufferFacts DEF Init, TypeOK
<1>2. TypeOK /\ [Next]_buffer => TypeOK'
  BY CommandAssumption, AddEntryType DEF TypeOK, Next, Add
<1>. QED
  BY <1>1, <1>2, PTL DEF Spec

(* Offsets, full flag and occupied slots agree in every reachable state.    *)
THEOREM OffsetsCorrect == Spec => []OffsetsOK
<1>1. Init => OffsetsOK
  BY EmptyBufferFacts DEF Init, OffsetsOK
<1>2. TypeOK /\ OffsetsOK /\ [Next]_buffer => OffsetsOK'
  BY CommandAssumption, AddEntryOffsets DEF TypeOK, OffsetsOK, Next, Add
<1>. QED
  BY <1>1, <1>2, TypeCorrect, PTL DEF Spec

(* The circular buffer implements the bounded command log: reading the      *)
(* table from out_offs always gives the MaxOps newest commands in order.    *)
THEOREM RingImplementsLog == Spec => ImplementsCommandLog
<1>1. Init => Log!Init
  BY EmptyBufferFacts DEF Init, Log!Init
<1>2. TypeOK /\ OffsetsOK /\ [Next]_buffer => [Log!Next]_(Window(buffer))
  <2>. SUFFICES ASSUME TypeOK, OffsetsOK, [Next]_buffer
                PROVE  [Log!Next]_(Window(buffer))
    OBVIOUS
  <2>1. CASE Next
    <3>1. PICK c \in Command : buffer' = AddEntry(buffer, c)
      BY <2>1 DEF Next, Add
    <3>2. Window(buffer') = Log!Keep(Append(Window(buffer), c))
      BY <3>1, CommandAssumption, AddEntryStores
      DEF TypeOK, OffsetsOK, Newest, Log!Keep
    <3>3. Window(buffer)' = Window(buffer')
      BY DEF Window, Held, SlotOf
    <3>. QED
      BY <3>2, <3>3 DEF Log!Next, Log!Store
  <2>2. CASE UNCHANGED buffer
    BY <2>2 DEF Window, Held, SlotOf
  <2>. QED
    BY <2>1, <2>2
<1>. QED
  BY <1>1, <1>2, TypeCorrect, OffsetsCorrect, PTL
     DEF Spec, ImplementsCommandLog, Log!Spec

(* Every position inside the commands held is found, at the byte it falls  *)
(* on when they are laid end to end, and no other position is found.       *)
LEMMA FindEntryMatches ==
  ASSUME NEW b \in Buffer, OffsetsAgree(b), NEW off \in Nat
  PROVE  LET content == FlattenSeq(Window(b))
             f       == FindEntry(b, off)
         IN  IF off < Len(content)
             THEN /\ f.slot \in Slots
                  /\ f.offset + 1 \in DOMAIN b.entry[f.slot]
                  /\ b.entry[f.slot][f.offset + 1] = content[off + 1]
             ELSE f = NoSlot
<1>. DEFINE content == FlattenSeq(Window(b))
            f       == FindEntry(b, off)
<1>1. CASE off < Len(content)
  <2>1. PICK k \in 1 .. Held(b) :
               /\ SizeSeen(b)[k - 1] <= off /\ off < SizeSeen(b)[k]
               /\ f = [slot   |-> SlotOf(b, k),
                       offset |-> off - SizeSeen(b)[k - 1]]
    BY <1>1, FindEntryStep
  <2>2. k \in 1 .. MaxOps /\ k - 1 \in 0 .. MaxOps
    BY WindowType, MaxOpsAssumption
  <2>3. SlotOf(b, k) \in Slots /\ b.entry[SlotOf(b, k)] \in Seq(Byte)
    BY <2>2, SlotOfType DEF Buffer
  <2>. DEFINE j == off - SizeSeen(b)[k - 1] + 1
  <2>4. /\ SizeSeen(b)[k - 1] \in Nat /\ Len(b.entry[SlotOf(b, k)]) \in Nat
        /\ SizeSeen(b)[k] = SizeSeen(b)[k - 1] + Len(b.entry[SlotOf(b, k)])
    BY <2>2, <2>3, SizeSeenType, WalkEnds, LenProperties
  <2>5. j \in 1 .. Len(b.entry[SlotOf(b, k)]) /\ SizeSeen(b)[k - 1] + j = off + 1
    <3>. DEFINE x == SizeSeen(b)[k - 1]
                l == Len(b.entry[SlotOf(b, k)])
    <3>1. x \in Nat /\ l \in Nat /\ x <= off /\ off < x + l
      BY <2>1, <2>4
    <3>. HIDE DEF x, l
    <3>2. off - x + 1 \in 1 .. l /\ x + (off - x + 1) = off + 1
      BY <3>1
    <3>. QED
      BY <3>2 DEF x, l
  <2>. HIDE DEF j
  <2>6. content[off + 1] = b.entry[SlotOf(b, k)][j]
    BY <2>5, ContentBytes
  <2>7. f.slot = SlotOf(b, k) /\ f.offset + 1 = j
    BY <2>1 DEF j
  <2>. QED
    BY <1>1, <2>3, <2>5, <2>6, <2>7, LenProperties
<1>2. CASE ~(off < Len(content))
  <2>1. Len(content) \in Nat
    BY ContentBytes, LenProperties
  <2>2. f = NoSlot
    BY <1>2, <2>1, FindEntryNone
  <2>. QED
    BY <1>2, <2>2
<1>. QED
  BY <1>1, <1>2

(* aesd_circular_buffer_find_entry_offset_for_fpos indexes the commands    *)
(* concatenated end to end, for every table size, wherever the table's     *)
(* oldest entry is and whatever the commands' sizes.                       *)
THEOREM FindIsConcatenation == Spec => []FindMatchesConcatenation
<1>1. TypeOK /\ OffsetsOK => FindMatchesConcatenation
  <2>. SUFFICES ASSUME TypeOK, OffsetsOK,
                       NEW off \in 0 .. Len(FlattenSeq(Window(buffer))) + 1
                PROVE  LET content == FlattenSeq(Window(buffer))
                           f       == FindEntry(buffer, off)
                       IN  IF off < Len(content)
                           THEN /\ f.slot \in Slots
                                /\ f.offset + 1 \in DOMAIN buffer.entry[f.slot]
                                /\ buffer.entry[f.slot][f.offset + 1] = content[off + 1]
                           ELSE f = NoSlot
    BY Zenon DEF FindMatchesConcatenation
  <2>. QED
    BY FindEntryMatches DEF TypeOK, OffsetsOK
<1>. QED
  BY <1>1, TypeCorrect, OffsetsCorrect, PTL

-----------------------------------------------------------------------------
(* The slots looked at are those from out_offs up to the index, going      *)
(* around the end of the table at most once; and the two running sums of   *)
(* the loop are the same and have not passed char_offset.                  *)
Progress ==
  state = "search" =>
    /\ offset = total_size_seen
    /\ offset <= char_offset
    /\ IF wrap_around
       THEN /\ i \in 1 .. buffer.out_offs
            /\ visited = (buffer.out_offs .. MaxOps - 1) \cup (0 .. i - 1)
       ELSE /\ i \in buffer.out_offs .. MaxOps
            /\ visited = buffer.out_offs .. i - 1

(* Between searches the locals have their initial values. *)
AtRest ==
  state = "idle" => /\ total_size_seen = 0 /\ offset = 0
                    /\ ~wrap_around
                    /\ visited = {}

IInv == LoopTypeOK /\ Progress /\ AtRest

(* The slot an iteration looks at is in the table, and was not looked at.  *)
LEMMA HereFacts ==
  ASSUME IInv, state = "search", ~Stops
  PROVE  Here \in Slots /\ Here \notin visited
<1>1. /\ buffer.out_offs \in 0 .. MaxOps - 1
      /\ i \in 0 .. MaxOps
      /\ wrap_around \in BOOLEAN
  BY DEF IInv, LoopTypeOK, TypeOK, Buffer, Slots
<1>2. CASE wrap_around
  BY <1>1, <1>2, MaxOpsAssumption DEF IInv, Progress, Stops, Wrapped, Here, Slots
<1>3. CASE ~wrap_around
  BY <1>1, <1>3, MaxOpsAssumption DEF IInv, Progress, Stops, Wrapped, Here, Slots
<1>. QED
  BY <1>1, <1>2, <1>3

LEMMA SeenType ==
  ASSUME IInv, state = "search", ~Stops
  PROVE  /\ Len(buffer.entry[Here]) \in Nat
         /\ Seen = total_size_seen + Len(buffer.entry[Here])
<1>1. buffer.entry[Here] \in Seq(Byte)
  BY HereFacts DEF IInv, LoopTypeOK, TypeOK, Buffer
<1>. QED
  BY <1>1, LenProperties DEF Seen

LEMMA LoopInitInv == LoopInit => IInv
<1>. SUFFICES ASSUME LoopInit PROVE IInv
  OBVIOUS
<1>1. LoopTypeOK
  <2>1. buffer \in Buffer /\ visited \subseteq Slots /\ wrap_around \in BOOLEAN
    BY EmptyBufferFacts DEF LoopInit, Init
  <2>2. i \in 0 .. MaxOps /\ char_offset \in Nat /\ total_size_seen \in Nat /\ offset \in Nat
    BY MaxOpsAssumption DEF LoopInit, Init
  <2>3. result \in [slot : Slots, offset : Nat] \cup {NoSlot}
    BY DEF LoopInit, Init
  <2>. QED
    BY <2>1, <2>2, <2>3 DEF LoopInit, Init, LoopTypeOK, TypeOK
<1>. QED
  BY <1>1 DEF LoopInit, Init, IInv, Progress, AtRest

LEMMA MissStep == IInv /\ Miss => IInv'
<1>. SUFFICES ASSUME IInv, Miss PROVE IInv'
  OBVIOUS
<1>1. Here \in Slots /\ Len(buffer.entry[Here]) \in Nat
      /\ Seen = total_size_seen + Len(buffer.entry[Here])
  BY HereFacts, SeenType DEF Miss
<1>2. /\ buffer.out_offs \in 0 .. MaxOps - 1
      /\ i \in 0 .. MaxOps
      /\ wrap_around \in BOOLEAN
      /\ total_size_seen \in Nat /\ offset \in Nat /\ char_offset \in Nat
  BY DEF IInv, LoopTypeOK, TypeOK, Buffer, Slots
<1>3. Here \in 0 .. MaxOps - 1 /\ i' = Here + 1 /\ i' \in 1 .. MaxOps
  BY <1>1, <1>2, MaxOpsAssumption DEF Miss, Slots
<1>4. LoopTypeOK'
  <2>1. wrap_around' \in BOOLEAN
    BY <1>2 DEF Miss, Wrapped
  <2>2. total_size_seen' \in Nat /\ offset' \in Nat
    BY <1>1, <1>2 DEF Miss
  <2>3. visited' \subseteq Slots
    BY <1>1 DEF IInv, LoopTypeOK, Miss
  <2>. QED
    BY <1>3, <2>1, <2>2, <2>3 DEF IInv, LoopTypeOK, TypeOK, Miss
<1>5. state' = "search" /\ offset' = total_size_seen' /\ offset' <= char_offset'
  BY <1>1, <1>2 DEF IInv, Progress, Miss
<1>6. wrap_around' <=> wrap_around \/ i = MaxOps
  BY Zenon DEF Miss, Wrapped
<1>7. CASE wrap_around
  <2>1. i \in 1 .. buffer.out_offs /\ i # buffer.out_offs /\ Here = i
    BY <1>2, <1>7 DEF IInv, Progress, Miss, Stops, Wrapped, Here
  <2>2. visited' = (buffer.out_offs .. MaxOps - 1) \cup (0 .. i' - 1)
    BY <1>2, <1>3, <1>7, <2>1 DEF IInv, Progress, Miss
  <2>3. wrap_around' /\ buffer' = buffer /\ i' \in 1 .. buffer.out_offs
    BY <1>2, <1>7, <1>6, <2>1 DEF Miss
  <2>. QED
    BY <1>4, <1>5, <2>2, <2>3 DEF IInv, Progress, AtRest
<1>8. CASE ~wrap_around /\ i = MaxOps
  <2>1. Here = 0 /\ buffer.out_offs # 0 /\ i' = 1 /\ wrap_around'
    BY <1>2, <1>3, <1>8, <1>6 DEF Miss, Stops, Wrapped, Here
  <2>2. visited = buffer.out_offs .. MaxOps - 1
    BY <1>8 DEF IInv, Progress, Miss
  <2>3. visited' = (buffer.out_offs .. MaxOps - 1) \cup (0 .. i' - 1)
    BY <2>1, <2>2 DEF Miss
  <2>. QED
    BY <1>2, <1>4, <1>5, <2>1, <2>3 DEF IInv, Progress, AtRest, Miss
<1>9. CASE ~wrap_around /\ i # MaxOps
  <2>1. Here = i /\ i' = i + 1 /\ ~wrap_around'
    BY <1>2, <1>3, <1>9, <1>6 DEF Here
  <2>2. visited = buffer.out_offs .. i - 1 /\ i \in buffer.out_offs .. MaxOps
    BY <1>9 DEF IInv, Progress, Miss
  <2>3. visited' = buffer.out_offs .. i' - 1
    BY <1>2, <2>1, <2>2 DEF Miss
  <2>. QED
    BY <1>2, <1>3, <1>4, <1>5, <2>1, <2>2, <2>3 DEF IInv, Progress, AtRest, Miss
<1>. QED
  BY <1>2, <1>7, <1>8, <1>9

LEMMA LoopNextInv == IInv /\ [LoopNext]_vars => IInv'
<1>. SUFFICES ASSUME IInv, [LoopNext]_vars PROVE IInv'
  OBVIOUS
<1>1. ASSUME NEW c \in Command, Between(c)
      PROVE  IInv'
  <2>1. buffer' \in Buffer
    BY <1>1, AddEntryType, CommandAssumption DEF IInv, LoopTypeOK, TypeOK, Between, Add
  <2>. QED
    BY <1>1, <2>1 DEF IInv, LoopTypeOK, TypeOK, Progress, AtRest, Between, Add
<1>2. ASSUME NEW off \in CharOffset, Start(off)
      PROVE  IInv'
  <2>1. off \in Nat /\ buffer.out_offs \in 0 .. MaxOps - 1
    BY LoopAssumption DEF IInv, LoopTypeOK, TypeOK, Buffer, Slots
  <2>2. buffer.out_offs .. buffer.out_offs - 1 = {}
    BY <2>1
  <2>3. LoopTypeOK'
    BY <1>2, <2>1, MaxOpsAssumption DEF IInv, LoopTypeOK, TypeOK, Start
  <2>4. Progress'
    BY <1>2, <2>1, <2>2, MaxOpsAssumption DEF IInv, Progress, AtRest, Start
  <2>. QED
    BY <1>2, <2>3, <2>4 DEF IInv, AtRest, Start
<1>3. CASE Fail
  BY <1>3 DEF IInv, LoopTypeOK, TypeOK, Progress, AtRest, Fail
<1>4. CASE Hit
  <2>1. Here \in Slots
    BY <1>4, HereFacts DEF Hit
  <2>2. char_offset - offset \in Nat
    BY <1>4 DEF IInv, LoopTypeOK, TypeOK, Progress, Hit
  <2>3. result' \in [slot : Slots, offset : Nat]
    BY <1>4, <2>1, <2>2 DEF Hit, Offset
  <2>4. LoopTypeOK'
    BY <1>4, <2>1, <2>3 DEF IInv, LoopTypeOK, TypeOK, Hit
  <2>. QED
    BY <1>4, <2>4 DEF IInv, Progress, AtRest, Hit
<1>5. CASE Miss
  BY <1>5, MissStep
<1>6. CASE Leave
  <2>1. ~wrap_around' /\ wrap_around' \in BOOLEAN
    BY <1>6, Zenon DEF Leave
  <2>2. 0 \in 0 .. MaxOps
    BY MaxOpsAssumption
  <2>3. LoopTypeOK'
    BY <1>6, <2>1, <2>2 DEF IInv, LoopTypeOK, TypeOK, Leave
  <2>. QED
    BY <1>6, <2>1, <2>3 DEF IInv, Progress, AtRest, Leave
<1>7. CASE UNCHANGED vars
  BY <1>7 DEF vars, IInv, LoopTypeOK, TypeOK, Progress, AtRest
<1>. QED
  BY <1>1, <1>2, <1>3, <1>4, <1>5, <1>6, <1>7 DEF LoopNext

(* The index never leaves the table and the byte offset of a hit is never   *)
(* negative, whatever the position searched for (uint8_t i and the         *)
(* subtraction of unsigned sizes at aesd-circular-buffer.c:51).             *)
THEOREM LoopTypes == LoopSpec => []LoopTypeOK
<1>1. IInv => LoopTypeOK
  BY DEF IInv
<1>. QED
  BY <1>1, LoopInitInv, LoopNextInv, PTL DEF LoopSpec

(* No slot is looked at twice, so the loop runs at most MaxOps iterations   *)
(* for every table size and every out_offs.                                 *)
THEOREM LoopVisitsOnce == LoopSpec => []NoSlotTwice
<1>1. IInv => NoSlotTwice
  BY HereFacts DEF NoSlotTwice
<1>. QED
  BY <1>1, LoopInitInv, LoopNextInv, PTL DEF LoopSpec

(* Searching leaves the buffer alone, so that what is proved of the buffer  *)
(* above holds while it is searched.                                        *)
THEOREM LoopKeepsRing == LoopSpec => Spec
<1>1. LoopInit => Init
  BY DEF LoopInit
<1>2. [LoopNext]_vars => [Next]_buffer
  BY DEF LoopNext, Between, Start, Fail, Hit, Miss, Leave, vars, Next
<1>. QED
  BY <1>1, <1>2, PTL DEF LoopSpec, Spec

-----------------------------------------------------------------------------
(* How many steps of the walk from out_offs the loop has taken. *)
Steps == IF wrap_around THEN MaxOps - buffer.out_offs + i ELSE i - buffer.out_offs

(* The loop's running sum is the walk's, and has not passed char_offset.   *)
Walked ==
  state = "search" => /\ Steps \in 0 .. MaxOps
                      /\ total_size_seen = SizeSeen(buffer)[Steps]
                      /\ total_size_seen <= char_offset

FInv == IInv /\ Walked /\ LoopFindsEntry

LEMMA LoopVariables ==
  ASSUME IInv
  PROVE  /\ buffer \in Buffer
         /\ buffer.out_offs \in 0 .. MaxOps - 1
         /\ i \in 0 .. MaxOps
         /\ wrap_around \in BOOLEAN
         /\ total_size_seen \in Nat /\ offset \in Nat /\ char_offset \in Nat
BY DEF IInv, LoopTypeOK, TypeOK, Buffer, Slots

(* An iteration looks at the slot of the walk's next step. *)
LEMMA HereIsNext ==
  ASSUME IInv, Walked, state = "search", ~Stops
  PROVE  /\ Steps + 1 \in 1 .. MaxOps
         /\ Here = SlotOf(buffer, Steps + 1)
         /\ SizeSeen(buffer)[Steps + 1] = Seen
<1>1. Steps + 1 \in 1 .. MaxOps /\ Here = SlotOf(buffer, Steps + 1)
  <2>1. CASE wrap_around
    BY <2>1, LoopVariables, MaxOpsAssumption
    DEF IInv, Progress, Steps, Stops, Wrapped, Here, SlotOf, Wrap
  <2>2. CASE ~wrap_around
    BY <2>2, LoopVariables, MaxOpsAssumption
    DEF IInv, Progress, Steps, Stops, Wrapped, Here, SlotOf, Wrap
  <2>. QED
    BY <2>1, <2>2, LoopVariables
<1>2. Steps + 1 - 1 = Steps /\ Steps \in 0 .. MaxOps
  BY <1>1 DEF Walked
<1>3. SizeSeen(buffer)[Steps + 1] = SizeSeen(buffer)[Steps] + Len(buffer.entry[Here])
  BY <1>1, <1>2, LoopVariables, WalkEnds
<1>. QED
  BY <1>1, <1>3 DEF Walked, Seen

(* The loop is left by its end when the whole table was walked. *)
LEMMA StopsAfterAll ==
  ASSUME IInv, Walked, state = "search", Stops
  PROVE  Steps = MaxOps /\ visited = Slots
<1>1. CASE wrap_around
  <2>1. i = buffer.out_offs /\ visited = (i .. MaxOps - 1) \cup (0 .. i - 1)
    BY <1>1, LoopVariables, MaxOpsAssumption
    DEF IInv, Progress, Stops, Wrapped, Here
  <2>. QED
    BY <1>1, <2>1, LoopVariables, MaxOpsAssumption DEF Steps, Slots
<1>2. CASE ~wrap_around
  <2>1. i = MaxOps /\ buffer.out_offs = 0
    BY <1>2, LoopVariables, MaxOpsAssumption DEF Stops, Wrapped, Here
  <2>2. visited = 0 .. MaxOps - 1
    BY <1>2, <2>1 DEF IInv, Progress
  <2>. QED
    BY <1>2, <2>1, <2>2, MaxOpsAssumption DEF Steps, Slots
<1>. QED
  BY <1>1, <1>2, LoopVariables

(* An iteration that misses is one step of the walk. *)
LEMMA MissSteps ==
  ASSUME IInv, Miss
  PROVE  Steps' = Steps + 1
<1>1. /\ buffer' = buffer /\ i' = Here + 1
      /\ wrap_around' <=> wrap_around \/ i = MaxOps
  BY Zenon DEF Miss, Wrapped
<1>2. CASE wrap_around
  <2>1. i \in 1 .. buffer.out_offs
    BY <1>2 DEF IInv, Progress, Miss
  <2>2. Here = i
    BY <2>1, LoopVariables DEF Here
  <2>3. wrap_around' /\ i' = i + 1 /\ buffer' = buffer
    BY <1>1, <1>2, <2>2
  <2>4. Steps = MaxOps - buffer.out_offs + i
    BY <1>2, Zenon DEF Steps
  <2>5. Steps' = MaxOps - buffer.out_offs + (i + 1)
    BY <2>3, Zenon DEF Steps
  <2>. QED
    BY <2>4, <2>5, LoopVariables, MaxOpsAssumption
<1>3. CASE ~wrap_around
  BY <1>1, <1>3, LoopVariables DEF Steps, Here
<1>. QED
  BY <1>2, <1>3

LEMMA FoundNext == FInv /\ [LoopNext]_vars => FInv'
<1>. SUFFICES ASSUME FInv, [LoopNext]_vars PROVE Walked' /\ LoopFindsEntry'
  BY LoopNextInv DEF FInv
<1>0. IInv /\ Walked /\ LoopFindsEntry /\ IInv'
  BY LoopNextInv DEF FInv
<1>1. CASE (\E c \in Command : Between(c)) \/ Leave
  <2>1. state' = "idle"
    BY <1>1 DEF Between, Leave
  <2>. QED
    BY <2>1 DEF Walked, LoopFindsEntry
<1>2. ASSUME NEW off \in CharOffset, Start(off)
      PROVE  Walked' /\ LoopFindsEntry'
  <2>1. /\ state' = "search" /\ buffer' = buffer /\ char_offset' = off
        /\ i' = buffer.out_offs /\ wrap_around' = wrap_around
        /\ ~wrap_around /\ total_size_seen = 0 /\ total_size_seen' = total_size_seen
    BY <1>0, <1>2 DEF IInv, AtRest, Start
  <2>2. Steps' = 0 /\ off \in Nat
    BY <1>0, <2>1, LoopVariables, LoopAssumption DEF Steps
  <2>3. total_size_seen' = SizeSeen(buffer)[0]
    BY <1>0, <2>1, LoopVariables, WalkEnds
  <2>4. SizeSeen(buffer)' = SizeSeen(buffer)
    BY <2>1 DEF SizeSeen, SlotOf
  <2>. QED
    BY <2>1, <2>2, <2>3, <2>4, MaxOpsAssumption DEF Walked, LoopFindsEntry
<1>3. CASE Fail
  <2>1. Steps = MaxOps /\ visited = Slots
    BY <1>0, <1>3, StopsAfterAll DEF Fail
  <2>2. SizeSeen(buffer)[MaxOps] <= char_offset
    BY <1>0, <1>3, <2>1 DEF Walked, Fail
  <2>3. FindEntry(buffer, char_offset) = NoSlot
    BY <1>0, <2>2, LoopVariables, FindEntryPassed
  <2>. QED
    BY <1>3, <2>1, <2>3 DEF Fail, Walked, LoopFindsEntry
<1>4. CASE Hit
  <2>1. PICK k \in 1 .. MaxOps : /\ k - 1 = Steps
                                 /\ Here = SlotOf(buffer, k)
                                 /\ char_offset < SizeSeen(buffer)[k]
    <3>1. Steps + 1 \in 1 .. MaxOps /\ Steps \in 0 .. MaxOps
      BY <1>0, <1>4, HereIsNext DEF Hit, Walked
    <3>2. /\ Here = SlotOf(buffer, Steps + 1)
          /\ char_offset < SizeSeen(buffer)[Steps + 1]
      BY <1>0, <1>4, HereIsNext DEF Hit
    <3>3. Steps + 1 - 1 = Steps
      BY <3>1
    <3>. QED
      BY <3>1, <3>2, <3>3
  <2>2. SizeSeen(buffer)[Steps] <= char_offset /\ offset = SizeSeen(buffer)[Steps]
    BY <1>0, <1>4 DEF Hit, Walked, IInv, Progress
  <2>3. FindEntry(buffer, char_offset) = [slot |-> Here, offset |-> char_offset - offset]
    <3>1. FindEntry(buffer, char_offset) =
            [slot |-> SlotOf(buffer, k), offset |-> char_offset - SizeSeen(buffer)[k - 1]]
      BY <1>0, <2>1, <2>2, LoopVariables, FindEntryAt
    <3>. QED
      BY <2>1, <2>2, <3>1
  <2>4. result' = FindEntry(buffer, char_offset) /\ result' # NoSlot
    BY <1>0, <1>4, <2>3, HereFacts DEF Hit, Offset, Slots, NoSlot
  <2>5. state' = "done" /\ buffer' = buffer /\ char_offset' = char_offset
    BY <1>4 DEF Hit
  <2>. QED
    BY <2>4, <2>5 DEF Walked, LoopFindsEntry
<1>5. CASE Miss
  <2>1. /\ Steps + 1 \in 1 .. MaxOps
        /\ SizeSeen(buffer)[Steps + 1] = Seen /\ Seen <= char_offset
    <3>1. Steps + 1 \in 1 .. MaxOps /\ SizeSeen(buffer)[Steps + 1] = Seen
      BY <1>0, <1>5, HereIsNext DEF Miss
    <3>2. state = "search" /\ ~Stops /\ char_offset >= Seen
      BY <1>5 DEF Miss
    <3>3. Seen \in Nat
      <4>1. /\ Len(buffer.entry[Here]) \in Nat
            /\ Seen = total_size_seen + Len(buffer.entry[Here])
        BY <1>0, <3>2, SeenType, Zenon
      <4>2. total_size_seen \in Nat
        BY <1>0, LoopVariables
      <4>. QED
        BY <4>1, <4>2
    <3>4. char_offset \in Nat
      BY <1>0, LoopVariables
    <3>5. Seen <= char_offset
      BY <3>2, <3>3, <3>4
    <3>. QED
      BY <3>1, <3>5, Zenon
  <2>2. /\ state' = "search" /\ buffer' = buffer /\ char_offset' = char_offset
        /\ total_size_seen' = Seen /\ i' = Here + 1
    BY <1>5 DEF Miss
  <2>3. wrap_around' <=> wrap_around \/ i = MaxOps
    BY <1>5, Zenon DEF Miss, Wrapped
  <2>4. Steps' = Steps + 1
    BY <1>0, <1>5, MissSteps
  <2>. QED
    BY <1>0, <2>1, <2>2, <2>4 DEF Walked, LoopFindsEntry
<1>6. CASE UNCHANGED vars
  BY <1>0, <1>6 DEF vars, Walked, Steps, LoopFindsEntry
<1>. QED
  BY <1>1, <1>2, <1>3, <1>4, <1>5, <1>6 DEF LoopNext

(* The C loop, with its index reset inside the loop and its two running    *)
(* sums, returns what FindEntry says for every buffer and position, and    *)
(* NULL only after it has looked at every slot.                            *)
THEOREM LoopIsFindEntry == LoopSpec => []LoopFindsEntry
<1>1. LoopInit => FInv
  BY LoopInitInv DEF FInv, Walked, LoopFindsEntry, LoopInit
<1>2. FInv => LoopFindsEntry
  BY DEF FInv
<1>. QED
  BY <1>1, <1>2, FoundNext, PTL DEF LoopSpec

-----------------------------------------------------------------------------
(* The slots the search has not passed yet. *)
Left == MaxOps - Steps

(***************************************************************************)
(* Every iteration of the search passes a slot or ends it, although the    *)
(* index is set back inside the loop (aesd-circular-buffer.c:36-47): it    *)
(* runs at most as often as the table has slots.                           *)
(***************************************************************************)
SearchShrinks ==
  [][state = "search" => \/ state' = "done"
                         \/ state' = "search" /\ Left' \in Nat /\ Left' < Left]_vars

(***************************************************************************)
(* The search is finite wherever it starts: the part of SearchEnds that    *)
(* needs no fairness.                                                      *)
(***************************************************************************)
THEOREM SearchIsFinite == LoopSpec => SearchShrinks
<1>1. FInv /\ FInv' /\ [LoopNext]_vars
        => [state = "search" => \/ state' = "done"
                                \/ state' = "search" /\ Left' \in Nat /\ Left' < Left]_vars
  <2>. SUFFICES ASSUME FInv, FInv', [LoopNext]_vars, state = "search", vars' # vars
                PROVE  \/ state' = "done"
                       \/ state' = "search" /\ Left' \in Nat /\ Left' < Left
    OBVIOUS
  <2>1. Fail \/ Hit \/ Miss
    BY DEF LoopNext, Between, Start, Leave
  <2>2. Fail \/ Hit => state' = "done"
    BY DEF Fail, Hit
  <2>3. CASE Miss
    <3>1. state' = "search" /\ Steps' = Steps + 1
      BY <2>3, MissSteps DEF Miss, FInv
    <3>2. Steps \in 0 .. MaxOps /\ Steps' \in 0 .. MaxOps
      BY <3>1 DEF FInv, Walked
    <3>. QED
      BY <3>1, <3>2, MaxOpsAssumption DEF Left
  <2>. QED
    BY <2>1, <2>2, <2>3
<1>2. LoopInit => FInv
  BY LoopInitInv DEF FInv, Walked, LoopFindsEntry, LoopInit
<1>. QED
  BY <1>1, <1>2, FoundNext, PTL DEF LoopSpec, SearchShrinks
=============================================================================
