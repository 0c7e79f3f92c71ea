---------------------------- MODULE SListProofs ----------------------------
(***************************************************************************)
(* Proofs about SList, for any finite set of nodes: the pointers spell the *)
(* list at every step, no pointer is followed into freed memory, and what  *)
(* they lead to changes as NodeList promises.                              *)
(*                                                                         *)
(* The inductive invariant IInv says, beside the properties themselves,    *)
(* that no node is listed twice and where main's and the handler's         *)
(* pointers stand in the list at each place of their loops.                *)
(***************************************************************************)
EXTENDS SList, DataInduction, FiniteSetTheorems

(* The node after position i. *)
After(i) == IF i < Len(list) THEN list[i + 1] ELSE Null

Distinct == \A i, j \in 1 .. Len(list) : list[i] = list[j] => i = j

(* Main is at position i of its loop. *)
LoopAt(i) == list[i] = datap /\ np_temp = After(i)

MainPointers ==
  /\ mpc \in {"insert", "insert_first", "free"} => datap \in live /\ datap \notin Listed
  /\ mpc = "insert_first" => next[datap] = first
  /\ mpc = "create" => datap \in Listed
  /\ mpc = "test" => \E i \in 1 .. Len(list) : LoopAt(i)
  /\ mpc = "walk" => /\ thread[datap] = "complete"
                     /\ \E i, j \in 1 .. Len(list) :
                          j < i /\ LoopAt(i) /\ list[j] = curelm
  /\ mpc = "free" => np_temp \in Listed \cup {Null}

HandlerPointers ==
  /\ hpc = "remove_head" =>
       list # << >> /\ hdatap = list[1] /\ thread[hdatap] # "running"
  /\ hpc = "free" => hdatap \in live /\ hdatap \notin Listed

Threads == \A n \in Node : thread[n] = "running" => n \in Listed

IInv ==
  /\ TypeOK /\ Distinct /\ Linked
  /\ Listed \subseteq live
  /\ hpc = "none" => MainPointers
  /\ HandlerPointers
  /\ Threads
  /\ NothingLost

-----------------------------------------------------------------------------
(* What is left of a list of distinct nodes without one of them. *)
LEMMA WithoutFacts ==
  ASSUME NEW s \in Seq(Node), NEW i \in 1 .. Len(s),
         \A k, l \in 1 .. Len(s) : s[k] = s[l] => k = l
  PROVE  /\ Without(s, i) \in Seq(Node)
         /\ Len(Without(s, i)) = Len(s) - 1
         /\ \A k \in 1 .. Len(s) - 1 :
              Without(s, i)[k] = IF k < i THEN s[k] ELSE s[k + 1]
         /\ \A k, l \in 1 .. Len(s) - 1 :
              Without(s, i)[k] = Without(s, i)[l] => k = l
         /\ {Without(s, i)[k] : k \in 1 .. Len(Without(s, i))}
              = {s[k] : k \in 1 .. Len(s)} \ {s[i]}
<1>. DEFINE w == Without(s, i)
<1>1. \A k \in 1 .. Len(s) - 1 : w[k] = IF k < i THEN s[k] ELSE s[k + 1]
  BY DEF Without
<1>2. \A k \in 1 .. Len(s) - 1 : w[k] \in Node
  BY <1>1
<1>3. w \in Seq(Node) /\ Len(w) = Len(s) - 1
  <2>1. w = [k \in 1 .. Len(s) - 1 |-> w[k]]
    BY DEF Without
  <2>2. Len(s) - 1 \in Nat
    OBVIOUS
  <2>. QED
    BY <2>1, <2>2, <1>2
<1>4. \A k, l \in 1 .. Len(s) - 1 : w[k] = w[l] => k = l
  BY <1>1
<1>5. {w[k] : k \in 1 .. Len(w)} = {s[k] : k \in 1 .. Len(s)} \ {s[i]}
  <2>1. ASSUME NEW k \in 1 .. Len(w)
        PROVE  w[k] \in {s[m] : m \in 1 .. Len(s)} \ {s[i]}
    BY <1>1, <1>3
  <2>2. ASSUME NEW k \in 1 .. Len(s), s[k] # s[i]
        PROVE  \E m \in 1 .. Len(w) : w[m] = s[k]
    <3>1. CASE k < i
      BY <3>1, <1>1, <1>3
    <3>2. CASE k > i
      <4>1. k - 1 \in 1 .. Len(w) /\ w[k - 1] = s[k]
        BY <3>2, <1>1, <1>3
      <4>. QED
        BY <4>1
    <3>3. k < i \/ k > i
      BY <2>2
    <3>. QED
      BY <3>1, <3>2, <3>3
  <2>. QED
    BY <2>1, <2>2
<1>. QED
  BY <1>1, <1>3, <1>4, <1>5

-----------------------------------------------------------------------------
LEMMA InitInv == Init => IInv
BY DEF IInv, TypeOK, Link, Distinct, Linked, Listed, MainPointers, HandlerPointers,
   Threads, NothingLost, Init, ListInit

LEMMA InsertNextInv == ASSUME IInv, InsertNext PROVE IInv'
<1>1. TypeOK'
  BY DEF IInv, TypeOK, InsertNext, hand
<1>2. Distinct' /\ Linked' /\ (Listed \subseteq live)'
  BY DEF IInv, Distinct, Linked, Listed, MainPointers, MainAt, InsertNext
<1>3. (hpc = "none" => MainPointers)'
  BY DEF IInv, TypeOK, Listed, MainPointers, MainAt, InsertNext
<1>4. HandlerPointers' /\ Threads'
  BY DEF IInv, Listed, HandlerPointers, Threads, hand, InsertNext
<1>5. NothingLost'
  BY DEF IInv, Listed, NothingLost, InHand, hand, InsertNext
<1>. QED
  BY <1>1, <1>2, <1>3, <1>4, <1>5 DEF IInv

LEMMA CreateInv == ASSUME IInv, Create PROVE IInv'
<1>1. TypeOK'
  BY DEF IInv, TypeOK, Create, mem, hand
<1>2. Distinct' /\ Linked' /\ (Listed \subseteq live)'
  BY DEF IInv, Distinct, Linked, Listed, Create, mem
<1>3. (hpc = "none" => MainPointers)'
  BY DEF MainPointers, Create
<1>4. HandlerPointers' /\ Threads'
  BY DEF IInv, TypeOK, Listed, MainPointers, HandlerPointers, Threads, MainAt, mem,
     hand, Create
<1>5. NothingLost'
  BY DEF IInv, Listed, NothingLost, InHand, MainAt, mem, Create
<1>. QED
  BY <1>1, <1>2, <1>3, <1>4, <1>5 DEF IInv

LEMMA EachInv == ASSUME IInv, Each PROVE IInv'
<1>1. TypeOK'
  BY DEF IInv, TypeOK, Linked, Visit, mem, hand, Each
<1>2. Distinct' /\ Linked' /\ (Listed \subseteq live)'
  BY DEF IInv, Distinct, Linked, Listed, mem, Each
<1>3. (hpc = "none" => MainPointers)'
  BY DEF IInv, Linked, MainPointers, LoopAt, After, Visit, mem, Each
<1>4. HandlerPointers' /\ Threads'
  BY DEF IInv, Listed, HandlerPointers, Threads, mem, hand, Each
<1>5. NothingLost'
  BY DEF IInv, Listed, NothingLost, InHand, MainAt, mem, Each
<1>. QED
  BY <1>1, <1>2, <1>3, <1>4, <1>5 DEF IInv

LEMMA SkipInv == ASSUME IInv, Skip PROVE IInv'
<1>1. TypeOK'
  BY DEF IInv, TypeOK, MainPointers, LoopAt, After, MainAt, Visit, mem, hand, Skip
<1>2. Distinct' /\ Linked' /\ (Listed \subseteq live)'
  BY DEF IInv, Distinct, Linked, Listed, mem, Skip
<1>3. (hpc = "none" => MainPointers)'
  BY DEF IInv, Linked, MainPointers, LoopAt, After, MainAt, Visit, mem, Skip
<1>4. HandlerPointers' /\ Threads'
  BY DEF IInv, Listed, HandlerPointers, Threads, mem, hand, Skip
<1>5. NothingLost'
  BY DEF IInv, Listed, NothingLost, InHand, MainAt, mem, Skip
<1>. QED
  BY <1>1, <1>2, <1>3, <1>4, <1>5 DEF IInv

LEMMA RemoveStartInv == ASSUME IInv, RemoveStart PROVE IInv'
<1>1. TypeOK'
  BY DEF IInv, TypeOK, RemoveStart, mem, hand
<1>2. Distinct' /\ Linked' /\ (Listed \subseteq live)'
  BY DEF IInv, Distinct, Linked, Listed, RemoveStart, mem
<1>3. (hpc = "none" => MainPointers)'
  BY DEF IInv, Linked, MainPointers, LoopAt, After, MainAt, mem, RemoveStart
<1>4. HandlerPointers' /\ Threads'
  BY DEF IInv, Listed, HandlerPointers, Threads, mem, hand, RemoveStart
<1>5. NothingLost'
  BY DEF IInv, Listed, NothingLost, InHand, MainAt, mem, RemoveStart
<1>. QED
  BY <1>1, <1>2, <1>3, <1>4, <1>5 DEF IInv

(* curelm is before datap and not just before it: its next is, too. *)
LEMMA RemoveWalkInv == IInv /\ RemoveWalk => IInv'
<1>. SUFFICES ASSUME IInv, RemoveWalk
              PROVE  IInv'
  OBVIOUS
<1>1. PICK i, j \in 1 .. Len(list) : j < i /\ LoopAt(i) /\ list[j] = curelm
  BY DEF IInv, MainPointers, RemoveWalk, MainAt
<1>2. Len(list) \in Nat /\ i \in Nat /\ j \in Nat /\ j < i /\ i <= Len(list)
  BY <1>1 DEF IInv, TypeOK
<1>3. next[curelm] = list[j + 1]
  BY <1>1, <1>2 DEF IInv, Linked
<1>4. j + 1 # i
  BY <1>1, <1>3 DEF RemoveWalk, LoopAt
<1>5. j + 1 \in 1 .. Len(list) /\ j + 1 < i
  BY <1>2, <1>4
<1>6. curelm' = list[j + 1]
  BY <1>3 DEF RemoveWalk
<1>7. MainPointers'
  BY <1>1, <1>5, <1>6
  DEF IInv, MainPointers, LoopAt, After, Listed, RemoveWalk, MainAt, mem, hand
<1>8. TypeOK'
  BY <1>2, <1>5, <1>6 DEF IInv, TypeOK, Link, RemoveWalk, mem, hand
<1>. QED
  BY <1>7, <1>8 DEF IInv, Distinct, Linked, Listed, HandlerPointers, Threads,
     NothingLost,
                    InHand, RemoveWalk, MainAt, mem, hand

LEMMA FreeInv == ASSUME IInv, Free PROVE IInv'
<1>1. TypeOK'
  BY DEF IInv, TypeOK, MainPointers, MainAt, Visit, hand, Free
<1>2. Distinct' /\ Linked' /\ (Listed \subseteq live)'
  BY DEF IInv, Distinct, Linked, Listed, MainPointers, MainAt, Free
<1>3. (hpc = "none" => MainPointers)'
  BY DEF IInv, Linked, Listed, MainPointers, LoopAt, After, MainAt, Visit, Free
<1>4. HandlerPointers' /\ Threads'
  BY DEF IInv, Listed, HandlerPointers, Threads, MainAt, hand, Free
<1>5. NothingLost'
  BY DEF IInv, Listed, NothingLost, InHand, hand, Free
<1>. QED
  BY <1>1, <1>2, <1>3, <1>4, <1>5 DEF IInv

LEMMA SignalInv == ASSUME IInv, Signal PROVE IInv'
<1>1. TypeOK'
  BY DEF IInv, TypeOK, Signal, mem, main
<1>2. Distinct' /\ Linked' /\ (Listed \subseteq live)'
  BY DEF IInv, Distinct, Linked, Listed, Signal, mem
<1>3. (hpc = "none" => MainPointers)'
  BY DEF Signal
<1>4. HandlerPointers' /\ Threads'
  BY DEF IInv, Listed, HandlerPointers, Threads, mem, Signal
<1>5. NothingLost'
  BY DEF IInv, Listed, NothingLost, InHand, mem, main, Signal
<1>. QED
  BY <1>1, <1>2, <1>3, <1>4, <1>5 DEF IInv

LEMMA HandlerFirstInv == ASSUME IInv, HandlerFirst PROVE IInv'
<1>1. TypeOK'
  BY DEF IInv, TypeOK, HandlerFirst, mem, main
<1>2. Distinct' /\ Linked' /\ (Listed \subseteq live)'
  BY DEF IInv, Distinct, Linked, Listed, HandlerFirst, mem
<1>3. (hpc = "none" => MainPointers)'
  BY DEF HandlerFirst
<1>4. HandlerPointers' /\ Threads'
  BY DEF IInv, Linked, Listed, HandlerPointers, Threads, mem, HandlerFirst
<1>5. NothingLost'
  BY DEF IInv, Listed, NothingLost, InHand, mem, main, HandlerFirst
<1>. QED
  BY <1>1, <1>2, <1>3, <1>4, <1>5 DEF IInv

LEMMA HandlerFreeInv == ASSUME IInv, HandlerFree PROVE IInv'
<1>1. TypeOK'
  BY DEF IInv, TypeOK, HandlerFree, main
<1>2. Distinct' /\ Linked' /\ (Listed \subseteq live)'
  BY DEF IInv, Distinct, Linked, Listed, HandlerPointers, HandlerFree
<1>3. (hpc = "none" => MainPointers)'
  BY DEF HandlerFree
<1>4. HandlerPointers' /\ Threads'
  BY DEF IInv, Listed, HandlerPointers, Threads, HandlerFree
<1>5. NothingLost'
  BY DEF IInv, Listed, NothingLost, InHand, main, HandlerFree
<1>. QED
  BY <1>1, <1>2, <1>3, <1>4, <1>5 DEF IInv

LEMMA ExitInv == ASSUME IInv, Exit PROVE IInv'
<1>1. TypeOK'
  BY DEF IInv, TypeOK, Exit, mem, main
<1>2. Distinct' /\ Linked' /\ (Listed \subseteq live)'
  BY DEF IInv, Distinct, Linked, Listed, Exit, mem
<1>3. (hpc = "none" => MainPointers)'
  BY DEF Exit
<1>4. HandlerPointers' /\ Threads'
  BY DEF IInv, Listed, HandlerPointers, Threads, mem, Exit
<1>5. NothingLost'
  BY DEF IInv, Listed, NothingLost, InHand, mem, main, Exit
<1>. QED
  BY <1>1, <1>2, <1>3, <1>4, <1>5 DEF IInv

LEMMA AllocInv == ASSUME IInv, NEW n \in Node, Alloc(n) PROVE IInv'
<1>1. TypeOK'
  BY DEF IInv, TypeOK, Link, hand, Alloc
<1>2. Distinct' /\ Linked' /\ (Listed \subseteq live)'
  BY DEF IInv, Distinct, Linked, Listed, Alloc
<1>3. (hpc = "none" => MainPointers)'
  BY DEF IInv, Listed, MainPointers, Alloc
<1>4. HandlerPointers' /\ Threads'
  BY DEF IInv, Listed, HandlerPointers, Threads, hand, Alloc
<1>5. NothingLost'
  BY DEF IInv, Listed, NothingLost, InHand, MainAt, Alloc
<1>. QED
  BY <1>1, <1>2, <1>3, <1>4, <1>5 DEF IInv

LEMMA CompleteInv == ASSUME IInv, NEW n \in Node, Complete(n) PROVE IInv'
<1>1. TypeOK'
  BY DEF IInv, TypeOK, Complete, mem, main, hand
<1>2. Distinct' /\ Linked' /\ (Listed \subseteq live)'
  BY DEF IInv, Distinct, Linked, Listed, Complete, mem
<1>3. (hpc = "none" => MainPointers)'
  BY DEF IInv, Listed, MainPointers, LoopAt, After, mem, main, hand, Complete
<1>4. HandlerPointers' /\ Threads'
  BY DEF IInv, Listed, HandlerPointers, Threads, mem, hand, Complete
<1>5. NothingLost'
  BY DEF IInv, Listed, NothingLost, InHand, mem, main, hand, Complete
<1>. QED
  BY <1>1, <1>2, <1>3, <1>4, <1>5 DEF IInv

-----------------------------------------------------------------------------
(* The new node becomes the first; the others move up by one place. *)
LEMMA InsertFirstInv == IInv /\ InsertFirst => IInv'
<1>. SUFFICES ASSUME IInv, InsertFirst
              PROVE  IInv'
  OBVIOUS
<1>1. /\ datap \in Node /\ datap \in live /\ datap \notin Listed
      /\ next[datap] = first
  BY NullAssumption DEF IInv, TypeOK, MainPointers, InsertFirst, MainAt
<1>2. /\ list \in Seq(Node) /\ list' \in Seq(Node)
      /\ Len(list') = Len(list) + 1
      /\ list'[1] = datap
      /\ \A k \in 1 .. Len(list) : list'[k + 1] = list[k]
      /\ \A k \in 2 .. Len(list) + 1 : list'[k] = list[k - 1]
  BY <1>1 DEF IInv, TypeOK, InsertFirst
<1>3. Listed' = Listed \cup {datap}
  <2>1. ASSUME NEW k \in 1 .. Len(list')
        PROVE  list'[k] \in Listed \cup {datap}
    <3>1. CASE k = 1
      BY <3>1, <1>2
    <3>2. CASE k # 1
      <4>1. k - 1 \in 1 .. Len(list) /\ list'[k] = list[k - 1]
        BY <3>2, <1>2
      <4>. QED
        BY <4>1 DEF Listed
    <3>. QED
      BY <3>1, <3>2
  <2>2. ASSUME NEW k \in 1 .. Len(list)
        PROVE  list[k] \in Listed'
    <3>1. k + 1 \in 1 .. Len(list') /\ list'[k + 1] = list[k]
      BY <1>2
    <3>. QED
      BY <3>1 DEF Listed
  <2>3. datap \in Listed'
    <3>1. 1 \in 1 .. Len(list') /\ list'[1] = datap
      BY <1>2
    <3>. QED
      BY <3>1 DEF Listed
  <2>. QED
    BY <2>1, <2>2, <2>3 DEF Listed
<1>4. Distinct'
  <2>1. \A k \in 1 .. Len(list) : list[k] # datap
    BY <1>1 DEF Listed
  <2>2. ASSUME NEW k \in 1 .. Len(list) + 1, NEW l \in 1 .. Len(list) + 1,
               list'[k] = list'[l]
        PROVE  k = l
    <3>1. CASE k = 1
      BY <2>1, <2>2, <3>1, <1>2
    <3>2. CASE l = 1
      BY <2>1, <2>2, <3>2, <1>2
    <3>3. CASE k # 1 /\ l # 1
      <4>1. k - 1 \in 1 .. Len(list) /\ l - 1 \in 1 .. Len(list)
        BY <3>3, <1>2
      <4>2. k \in 2 .. Len(list) + 1 /\ l \in 2 .. Len(list) + 1
        BY <3>3, <1>2
      <4>3. list'[k] = list[k - 1] /\ list'[l] = list[l - 1]
        BY <4>2, <1>2
      <4>4. k - 1 = l - 1
        BY <2>2, <4>1, <4>3 DEF IInv, Distinct
      <4>. QED
        BY <4>2, <4>4
    <3>. QED
      BY <3>1, <3>2, <3>3
  <2>. QED
    BY <2>2, <1>2 DEF Distinct
<1>5. Linked'
  <2>1. first' = list'[1] /\ list' # << >> /\ next' = next
    BY <1>2 DEF InsertFirst
  <2>2. ASSUME NEW k \in 1 .. Len(list) + 1
        PROVE  next[list'[k]] = IF k < Len(list) + 1 THEN list'[k + 1] ELSE Null
    <3>1. CASE k = 1
      <4>1. next[list'[k]] = IF list = << >> THEN Null ELSE list[1]
        BY <3>1, <1>1, <1>2 DEF IInv, Linked
      <4>. QED
        BY <3>1, <4>1, <1>2
    <3>2. CASE k # 1
      <4>1. k - 1 \in 1 .. Len(list) /\ list'[k] = list[k - 1]
        BY <3>2, <1>2
      <4>2. next[list[k - 1]] = IF k - 1 < Len(list) THEN list[k] ELSE Null
        BY <4>1 DEF IInv, Linked
      <4>. QED
        BY <3>2, <4>1, <4>2, <1>2
    <3>. QED
      BY <3>1, <3>2
  <2>. QED
    BY <2>1, <2>2, <1>2 DEF Linked
<1>6. TypeOK'
  BY <1>1, <1>2 DEF IInv, TypeOK, Link, InsertFirst, hand
<1>. QED
  BY <1>1, <1>3, <1>4, <1>5, <1>6
  DEF IInv, MainPointers, HandlerPointers, Threads, NothingLost, InHand, InsertFirst,
  MainAt, hand

(* What taking the node at position i out leaves of the invariant. *)
LEMMA TakeFacts ==
  ASSUME IInv, NEW i \in 1 .. Len(list), Take(i)
  PROVE  /\ list' \in Seq(Node)
         /\ Len(list') = Len(list) - 1
         /\ \A k \in 1 .. Len(list) - 1 :
              list'[k] = IF k < i THEN list[k] ELSE list[k + 1]
         /\ Listed' = Listed \ {list[i]}
         /\ Distinct'
<1>1. list \in Seq(Node) /\ \A k, l \in 1 .. Len(list) : list[k] = list[l] => k = l
  BY DEF IInv, TypeOK, Distinct
<1>2. list' = Without(list, i)
  BY DEF Take
<1>. DEFINE w == Without(list, i)
<1>3. /\ w \in Seq(Node) /\ Len(w) = Len(list) - 1
      /\ \A k \in 1 .. Len(list) - 1 : w[k] = IF k < i THEN list[k] ELSE list[k + 1]
      /\ \A k, l \in 1 .. Len(list) - 1 : w[k] = w[l] => k = l
      /\ {w[k] : k \in 1 .. Len(w)} = {list[k] : k \in 1 .. Len(list)} \ {list[i]}
  BY <1>1, WithoutFacts
<1>. HIDE DEF w
<1>4. list' = w
  BY <1>2 DEF w
<1>. QED
  BY <1>3, <1>4 DEF Distinct, Listed

(* The first node goes: the second is what next of the first said. *)
LEMMA FirstTaken ==
  ASSUME IInv, list # << >>, Take(1), first' = next[first], next' = next
  PROVE  Linked' /\ first' \in Link
<1>1. 1 \in 1 .. Len(list) /\ list \in Seq(Node)
  BY DEF IInv, TypeOK
<1>2. /\ list' \in Seq(Node) /\ Len(list') = Len(list) - 1
      /\ \A k \in 1 .. Len(list) - 1 : list'[k] = list[k + 1]
  BY <1>1, TakeFacts
<1>3. next[first] = IF 1 < Len(list) THEN list[2] ELSE Null
  BY <1>1 DEF IInv, Linked
<1>. QED
  BY <1>1, <1>2, <1>3 DEF IInv, Linked, Link

LEMMA RemoveHeadInv == IInv /\ RemoveHead => IInv'
<1>. SUFFICES ASSUME IInv, RemoveHead
              PROVE  IInv'
  OBVIOUS
<1>1. list # << >> /\ hdatap = list[1] /\ thread[hdatap] # "running"
  BY DEF IInv, HandlerPointers, RemoveHead
<1>2. 1 \in 1 .. Len(list) /\ list \in Seq(Node)
  BY <1>1 DEF IInv, TypeOK
<1>3. list' \in Seq(Node) /\ Listed' = Listed \ {hdatap} /\ Distinct' /\ hdatap \in Listed
  BY <1>1, <1>2, TakeFacts DEF RemoveHead, Listed
<1>4. Linked' /\ first' \in Link
  BY <1>1, FirstTaken DEF RemoveHead
<1>5. TypeOK'
  BY <1>3, <1>4 DEF IInv, TypeOK, RemoveHead, main
<1>. QED
  BY <1>1, <1>3, <1>4, <1>5
  DEF IInv, TypeOK, HandlerPointers, Threads, NothingLost, InHand, RemoveHead, main

LEMMA RemoveAsHeadInv == IInv /\ RemoveAsHead => IInv'
<1>. SUFFICES ASSUME IInv, RemoveAsHead
              PROVE  IInv'
  OBVIOUS
<1>1. PICK i \in 1 .. Len(list) : LoopAt(i)
  BY DEF IInv, MainPointers, RemoveAsHead, MainAt
<1>2. list # << >> /\ 1 \in 1 .. Len(list) /\ list \in Seq(Node)
  BY <1>1 DEF IInv, TypeOK
<1>3. i = 1 /\ datap = list[1]
  BY <1>1, <1>2 DEF IInv, Linked, Distinct, LoopAt, RemoveAsHead
<1>4. /\ list' \in Seq(Node) /\ Listed' = Listed \ {datap} /\ Distinct'
      /\ datap \in Listed /\ np_temp \in Listed' \cup {Null}
  <2>1. Len(list') = Len(list) - 1 /\ \A k \in 1 .. Len(list) - 1 : list'[k] = list[k + 1]
    BY <1>2, TakeFacts DEF RemoveAsHead
  <2>2. np_temp = IF 1 < Len(list) THEN list'[1] ELSE Null
    BY <1>1, <1>2, <1>3, <2>1 DEF LoopAt, After
  <2>3. np_temp \in Listed' \cup {Null}
    BY <1>2, <2>1, <2>2 DEF Listed
  <2>4. datap \in Listed
    BY <1>2, <1>3 DEF Listed
  <2>. QED
    BY <1>2, <1>3, <2>3, <2>4, TakeFacts DEF RemoveAsHead
<1>5. Linked' /\ first' \in Link
  BY <1>2, FirstTaken DEF RemoveAsHead
<1>6. TypeOK'
  BY <1>4, <1>5 DEF IInv, TypeOK, RemoveAsHead, hand
<1>. QED
  BY <1>4, <1>5, <1>6
  DEF IInv, TypeOK, MainPointers, HandlerPointers, Threads, NothingLost, InHand,
      RemoveAsHead, MainAt, hand

(* curelm stands just before datap: its next skips datap. *)
LEMMA RemoveLinkInv == IInv /\ RemoveLink => IInv'
<1>. SUFFICES ASSUME IInv, RemoveLink
              PROVE  IInv'
  OBVIOUS
<1>1. PICK i, j \in 1 .. Len(list) :
        j < i /\ LoopAt(i) /\ list[j] = curelm /\ thread[datap] = "complete"
  BY DEF IInv, MainPointers, RemoveLink, MainAt
<1>2. /\ list \in Seq(Node) /\ Len(list) \in Nat
      /\ i \in Nat /\ j \in Nat /\ 1 <= j /\ j < i /\ i <= Len(list)
  BY <1>1 DEF IInv, TypeOK
<1>3. next[curelm] = list[j + 1]
  BY <1>1, <1>2 DEF IInv, Linked
<1>4. i = j + 1
  BY <1>1, <1>2, <1>3 DEF IInv, Distinct, LoopAt, RemoveLink
<1>5. next' = [next EXCEPT ![curelm] = After(i)]
  <2>1. next[next[curelm]] = After(i)
    BY <1>2, <1>3, <1>4 DEF IInv, Linked, After
  <2>. QED
    BY <2>1 DEF RemoveLink, RemoveAfter
<1>6. Take(i)
  BY <1>1, <1>2 DEF IInv, Distinct, LoopAt, RemoveLink
<1>7. /\ list' \in Seq(Node) /\ Len(list') = Len(list) - 1
      /\ \A k \in 1 .. Len(list) - 1 : list'[k] = IF k < i THEN list[k] ELSE list[k + 1]
      /\ Listed' = Listed \ {datap} /\ Distinct'
  BY <1>1, <1>6, TakeFacts DEF LoopAt
<1>8. datap \in Listed /\ np_temp \in Listed' \cup {Null}
  <2>1. CASE i < Len(list)
    BY <2>1, <1>1, <1>2, <1>7 DEF LoopAt, After, Listed
  <2>2. CASE i = Len(list)
    BY <2>2, <1>1, <1>2 DEF LoopAt, After, Listed
  <2>. QED
    BY <1>2, <2>1, <2>2
<1>9. Linked'
  <2>1. first' = IF list' = << >> THEN Null ELSE list'[1]
    BY <1>2, <1>4, <1>7 DEF IInv, Linked, RemoveLink
  <2>2. ASSUME NEW k \in 1 .. Len(list')
        PROVE  next'[list'[k]] = IF k < Len(list') THEN list'[k + 1] ELSE Null
    <3>1. CASE k = j
      BY <3>1, <1>1, <1>2, <1>4, <1>5, <1>7 DEF IInv, TypeOK, After
    <3>2. CASE k < j
      <4>1. list'[k] = list[k] /\ list'[k + 1] = list[k + 1]
        BY <3>2, <1>2, <1>4, <1>7
      <4>2. list[k] # curelm
        BY <3>2, <1>1, <1>2, <1>7 DEF IInv, Distinct
      <4>3. next'[list'[k]] = list[k + 1]
        BY <4>1, <4>2, <3>2, <1>1, <1>2, <1>5 DEF IInv, TypeOK, Linked
      <4>. QED
        BY <4>1, <4>3, <3>2, <1>2, <1>4, <1>7
    <3>3. CASE k > j
      <4>1. k + 1 \in 1 .. Len(list) /\ k \in 1 .. Len(list) - 1 /\ ~(k < i) /\ j # k + 1
        BY <3>3, <1>2, <1>4, <1>7
      <4>2. list'[k] = list[k + 1] /\ (k < Len(list') => list'[k + 1] = list[k + 2])
        <5>1. list'[k] = list[k + 1]
          BY <4>1, <1>7
        <5>2. ASSUME k < Len(list')
              PROVE  list'[k + 1] = list[k + 2]
          <6>1. k + 1 \in 1 .. Len(list) - 1 /\ ~(k + 1 < i) /\ k + 1 + 1 = k + 2
            BY <4>1, <5>2, <1>2, <1>7
          <6>. QED
            BY <6>1, <1>7
        <5>. QED
          BY <5>1, <5>2
      <4>3. list[k + 1] # curelm
        BY <4>1, <1>1 DEF IInv, Distinct
      <4>4. next'[list'[k]] = next[list[k + 1]]
        BY <4>2, <4>3, <1>5 DEF IInv, TypeOK
      <4>5. next[list[k + 1]] = IF k + 1 < Len(list) THEN list[k + 2] ELSE Null
        BY <4>1 DEF IInv, Linked
      <4>. QED
        BY <4>1, <4>2, <4>4, <4>5, <1>2, <1>7
    <3>. QED
      BY <1>2, <1>7, <3>1, <3>2, <3>3
  <2>. QED
    BY <2>1, <2>2 DEF Linked
<1>10. TypeOK'
  BY <1>1, <1>2, <1>5, <1>7 DEF IInv, TypeOK, Link, After, RemoveLink, hand
<1>. QED
  BY <1>1, <1>7, <1>8, <1>9, <1>10
  DEF IInv, TypeOK, MainPointers, HandlerPointers, Threads, NothingLost, InHand,
      RemoveLink, MainAt, hand

-----------------------------------------------------------------------------
LEMMA Inductive == IInv /\ [Next]_vars => IInv'
<1>. SUFFICES ASSUME IInv, [Next]_vars
              PROVE  IInv'
  OBVIOUS
<1>1. CASE Main
  BY <1>1, AllocInv, InsertNextInv, InsertFirstInv, CreateInv, EachInv, SkipInv,
     RemoveAsHeadInv,
     RemoveStartInv, RemoveWalkInv, RemoveLinkInv, FreeInv DEF Main
<1>2. CASE Handler
  BY <1>2, SignalInv, HandlerFirstInv, RemoveHeadInv, HandlerFreeInv,
     ExitInv DEF Handler
<1>3. CASE \E n \in Node : Complete(n)
  BY <1>3, CompleteInv
<1>4. CASE UNCHANGED vars
  BY <1>4 DEF IInv, TypeOK, Distinct, Linked, Listed, MainPointers, LoopAt, After,
              HandlerPointers, Threads, NothingLost, InHand, vars, mem, main, hand
<1>. QED
  BY <1>1, <1>2, <1>3, <1>4 DEF Next

LEMMA Invariant == Spec => []IInv
BY InitInv, Inductive, PTL DEF Spec

(* Variables keep their types and the pointers spell the list, whatever    *)
(* the number of connections and wherever the signal interrupts main.      *)
THEOREM PointersSpellList == Spec => [](TypeOK /\ Linked)
<1>1. IInv => TypeOK /\ Linked
  BY DEF IInv
<1>. QED
  BY <1>1, Invariant, PTL

(* The server's list code never follows or frees a pointer to memory it    *)
(* has freed, and never a NULL (SLIST_FOREACH_SAFE, SLIST_REMOVE, free).   *)
THEOREM PointersAreLive == Spec => []NoUseAfterFree
<1>1. IInv => NoUseAfterFree
  <2>. SUFFICES ASSUME IInv
                PROVE  NoUseAfterFree
    OBVIOUS
  <2>1. ASSUME NEW i \in 1 .. Len(list), LoopAt(i)
        PROVE  datap \in Listed /\ np_temp \in Listed \cup {Null}
    BY <2>1 DEF IInv, TypeOK, LoopAt, After, Listed
  <2>2. ASSUME NEW i \in 1 .. Len(list), NEW j \in 1 .. Len(list), j < i, list[j] = curelm
        PROVE  curelm \in Listed /\ next[curelm] # Null
    BY <2>2, NullAssumption DEF IInv, TypeOK, Linked, Listed
  <2>3. hpc = "remove_head" => hdatap \in Listed
    BY DEF IInv, TypeOK, HandlerPointers, Listed
  <2>. QED
    BY <2>1, <2>2, <2>3 DEF IInv, MainPointers, HandlerPointers, Threads, NoUseAfterFree
<1>. QED
  BY <1>1, Invariant, PTL

(* No node is lost: each is on the list, in hand or freed.                 *)
THEOREM NodesKept == Spec => []NothingLost
<1>1. IInv => NothingLost
  BY DEF IInv
<1>. QED
  BY <1>1, Invariant, PTL

(* The history of the list is as NodeList promises.  That the pointers     *)
(* spell it makes the same true of them (PointersImplementList).           *)
LEMMA ListPromised == Spec => ListSpec
<1>1. Init => ListInit
  BY DEF Init
<1>2. IInv /\ [Next]_vars => [ListNext]_list
  <2>. SUFFICES ASSUME IInv, Next, list' # list
                PROVE  ListNext
    BY DEF vars, mem
  <2>1. InsertFirst \/ RemoveAsHead \/ RemoveLink \/ RemoveHead
    BY DEF Next, Main, Handler, Alloc, InsertNext, Create, Each, Skip, RemoveStart,
       RemoveWalk,
           Free, Signal, HandlerFirst, HandlerFree, Exit, Complete, mem
  <2>2. CASE InsertFirst
    <3>1. datap \in Node /\ datap \notin Listed
      BY <2>2, NullAssumption DEF IInv, TypeOK, MainPointers, InsertFirst, MainAt
    <3>. QED
      BY <2>2, <3>1 DEF InsertFirst, ListNext, Prepend
  <2>3. CASE RemoveAsHead
    <3>1. 1 \in 1 .. Len(list)
      BY <2>3 DEF IInv, TypeOK, MainPointers, RemoveAsHead, MainAt
    <3>. QED
      BY <2>3, <3>1 DEF RemoveAsHead, ListNext
  <2>4. CASE RemoveLink
    BY <2>4 DEF RemoveLink, ListNext
  <2>5. CASE RemoveHead
    <3>1. 1 \in 1 .. Len(list)
      BY <2>5 DEF IInv, TypeOK, HandlerPointers, RemoveHead
    <3>. QED
      BY <2>5, <3>1 DEF RemoveHead, ListNext
  <2>. QED
    BY <2>1, <2>2, <2>3, <2>4, <2>5
<1>. QED
  BY <1>1, <1>2, Invariant, PTL DEF Spec, ListSpec

-----------------------------------------------------------------------------
(* Met[k] from Met[k - 1], and what that defines. *)
MetStep(f, k) == IF k = 1 THEN first ELSE Follow(f[k - 1])

IsMet(f, n) == f = [k \in 1 .. n |-> MetStep(f, k)]

(* The recursion in Met defines a function. *)
LEMMA MetExists ==
  ASSUME NEW n \in Nat
  PROVE  \E f : IsMet(f, n)
<1>. DEFINE T == {m \in Nat : \E f : IsMet(f, m)}
<1>1. 0 \in T
  <2>. DEFINE g == [k \in 1 .. 0 |-> Null]
  <2>1. IsMet(g, 0)
    BY DEF IsMet
  <2>. QED
    BY <2>1
<1>2. ASSUME NEW m \in Nat, m \in T
      PROVE  m + 1 \in T
  <2>1. PICK f : IsMet(f, m)
    BY <1>2
  <2>. DEFINE c == MetStep(f, m + 1)
              g == [k \in 1 .. m + 1 |-> IF k = m + 1 THEN c ELSE f[k]]
  <2>2. /\ \A k \in 1 .. m + 1 : k = m + 1 \/ k \in 1 .. m
        /\ \A k \in 1 .. m + 1 : k # 1 => k - 1 \in 1 .. m
        /\ \A k \in 1 .. m : k \in 1 .. m + 1 /\ k # m + 1
        /\ m + 1 \in 1 .. m + 1
    OBVIOUS
  <2>3. \A k \in 1 .. m : g[k] = f[k]
    BY <2>2, Zenon
  <2>4. g[m + 1] = c
    BY <2>2, Zenon
  <2>5. g = [k \in 1 .. m + 1 |-> g[k]]
    OBVIOUS
  <2>. HIDE DEF g
  <2>6. ASSUME NEW k \in 1 .. m + 1
        PROVE  g[k] = MetStep(g, k)
    <3>1. MetStep(g, k) = MetStep(f, k)
      BY <2>2, <2>3, Zenon DEF MetStep
    <3>2. k \in 1 .. m => f[k] = MetStep(f, k)
      BY <2>1 DEF IsMet
    <3>. QED
      BY <2>2, <2>3, <2>4, <3>1, <3>2, Zenon
  <2>7. IsMet(g, m + 1)
    BY <2>5, <2>6, Zenon DEF IsMet
  <2>. QED
    BY <2>7
<1>3. n \in T
  <2>. HIDE DEF T
  <2>. QED
    BY <1>1, <1>2, SetInduction
<1>. QED
  BY <1>3

(* Its values: Node is finite. *)
LEMMA MetValues ==
  /\ Cardinality(Node) \in Nat
  /\ DOMAIN Met = 1 .. Cardinality(Node)
  /\ \A k \in 1 .. Cardinality(Node) : Met[k] = MetStep(Met, k)
<1>1. Cardinality(Node) \in Nat
  BY MemoryAssumption, FS_CardinalityType
<1>2. IsMet(Met, Cardinality(Node))
  <2>1. \E f : IsMet(f, Cardinality(Node))
    BY <1>1, MetExists
  <2>2. Met = CHOOSE f : IsMet(f, Cardinality(Node))
    BY Zenon DEF Met, IsMet, MetStep
  <2>. QED
    BY <2>1, <2>2, Zenon
<1>. QED
  BY <1>1, <1>2 DEF IsMet

(* A list without repetitions is not longer than there are nodes. *)
LEMMA ListFits ==
  ASSUME list \in Seq(Node), Distinct
  PROVE  Len(list) \in Nat /\ Len(list) <= Cardinality(Node)
<1>. DEFINE n == Len(list)
<1>1. n \in Nat
  BY LenProperties
<1>2. list \in Injection(1 .. n, Node)
  <2>1. list \in [1 .. n -> Node]
    BY LenProperties
  <2>. QED
    BY <2>1 DEF Injection, IsInjective, Distinct
<1>3. Cardinality(1 .. n) <= Cardinality(Node)
  BY <1>2, MemoryAssumption, FS_Injection
<1>4. Cardinality(1 .. n) = n
  <2>1. Cardinality(1 .. n) = IF 1 > n THEN 0 ELSE n - 1 + 1
    <3>. HIDE DEF n
    <3>. QED
      BY <1>1, FS_Interval
  <2>. QED
    BY <1>1, <2>1
<1>. QED
  BY <1>1, <1>3, <1>4

(* Whoever follows the pointers meets the nodes of the list in order. *)
LEMMA ReachedIsList ==
  ASSUME IInv
  PROVE  Reached = list
<1>. DEFINE n == Len(list)
            c == Cardinality(Node)
<1>1. list \in Seq(Node) /\ Distinct /\ Linked
  BY DEF IInv, TypeOK
<1>2. n \in Nat /\ c \in Nat /\ n <= c
  BY <1>1, ListFits, MetValues
<1>3. \A i \in 1 .. n : list[i] \in Node /\ list[i] # Null
  BY <1>1, ElementOfSeq, NullAssumption
<1>4. /\ n = 0 => first = Null
      /\ n # 0 => first = list[1]
      /\ \A i \in 1 .. n : i < n => next[list[i]] = list[i + 1]
      /\ n # 0 => next[list[n]] = Null
  BY <1>1, <1>2, EmptySeq DEF Linked
<1>5. \A k \in 1 .. c : Met[k] = MetStep(Met, k)
  BY MetValues
<1>. DEFINE At(k) == IF k <= n THEN list[k] ELSE Null
            T == {k \in Nat : k + 1 <= c => Met[k + 1] = At(k + 1)}
<1>6. 0 \in T
  <2>1. c >= 1 => Met[1] = first
    BY <1>2, <1>5 DEF MetStep
  <2>. QED
    BY <1>2, <1>4, <2>1
<1>7. ASSUME NEW k \in Nat, k \in T PROVE k + 1 \in T
  <2>. SUFFICES ASSUME k + 2 <= c PROVE Met[k + 2] = At(k + 2)
    BY <1>2
  <2>1. Met[k + 1] = At(k + 1)
    BY <1>2, <1>7
  <2>2. Met[k + 2] = Follow(Met[k + 1])
    <3>. DEFINE j == k + 2
    <3>1. j \in 1 .. c /\ j # 1 /\ j - 1 = k + 1
      BY <1>2
    <3>. HIDE DEF j
    <3>2. Met[j] = Follow(Met[j - 1])
      BY <1>5, <3>1, Zenon DEF MetStep
    <3>. QED
      BY <3>1, <3>2, Zenon DEF j
  <2>3. CASE k + 1 > n
    BY <1>2, <2>1, <2>2, <2>3 DEF Follow
  <2>4. CASE k + 1 <= n
    <3>1. k + 1 \in 1 .. n /\ At(k + 1) = list[k + 1]
      BY <1>2, <2>4
    <3>2. Met[k + 2] = next[list[k + 1]]
      <4>1. Met[k + 1] = list[k + 1] /\ list[k + 1] # Null
        BY <1>3, <2>1, <3>1, Zenon
      <4>. QED
        BY <2>2, <4>1, Zenon DEF Follow
    <3>3. CASE k + 1 = n
      <4>1. At(k + 2) = Null /\ n # 0
        BY <1>2, <3>3
      <4>2. next[list[n]] = Null
        BY <1>4, <4>1, Zenon
      <4>. QED
        BY <3>2, <3>3, <4>1, <4>2, Zenon
    <3>4. CASE k + 1 < n
      <4>1. k + 1 \in 1 .. n /\ k + 2 \in 1 .. n /\ k + 2 = k + 1 + 1
        BY <1>2, <3>1, <3>4
      <4>2. next[list[k + 1]] = list[k + 2]
        BY <1>4, <3>4, <4>1
      <4>3. At(k + 2) = list[k + 2]
        BY <4>1
      <4>. QED
        BY <3>2, <4>2, <4>3, Zenon
    <3>. QED
      BY <1>2, <2>4, <3>3, <3>4
  <2>. QED
    BY <1>2, <2>3, <2>4
<1>8. \A k \in 1 .. c : Met[k] = At(k)
  <2>1. \A k \in Nat : k \in T
    <3>. HIDE DEF T
    <3>. QED
      BY <1>6, <1>7, SetInduction
  <2>2. ASSUME NEW k \in 1 .. c PROVE Met[k] = At(k)
    <3>1. k - 1 \in T /\ k - 1 + 1 = k
      BY <1>2, <2>1
    <3>. QED
      BY <3>1
  <2>. QED
    BY <2>2
<1>9. {i \in DOMAIN Met : Met[i] # Null} = 1 .. n
  BY <1>2, <1>3, <1>8, MetValues
<1>10. \A i \in 1 .. n : Met[i] = list[i]
  BY <1>2, <1>8
<1>11. Reached = [k \in 1 .. n |-> list[k]]
  BY <1>9, <1>10, Zenon DEF Reached
<1>12. list = [k \in 1 .. n |-> list[k]]
  BY <1>1
<1>. QED
  BY <1>11, <1>12, Zenon

(* Whoever follows sle_next from the head at any time, as main's and the   *)
(* handler's loops do, meets a list that changes by whole insertions and   *)
(* removals (queue.h:241-269).                                             *)
THEOREM PointersImplementList == Spec => ImplementsNodeList
<1>1. IInv => Reached = list
  BY ReachedIsList
<1>2. Reached = list /\ ListInit => ByPointers!ListInit
  BY DEF ListInit, ByPointers!ListInit
<1>3. Reached = list /\ (Reached = list)' /\ [ListNext]_list => [ByPointers!ListNext]_Reached
  <2>. SUFFICES ASSUME Reached = list, Reached' = list', [ListNext]_list
                PROVE  [ByPointers!ListNext]_Reached
    OBVIOUS
  <2>1. CASE list' = list
    BY <2>1
  <2>2. ASSUME NEW n \in Node, Prepend(n) PROVE ByPointers!ListNext
    BY <2>2 DEF Prepend, ByPointers!Prepend, ByPointers!ListNext, Listed,
       ByPointers!Listed
  <2>3. ASSUME NEW i \in 1 .. Len(list), Take(i) PROVE ByPointers!ListNext
    BY <2>3 DEF Take, ByPointers!Take, ByPointers!ListNext, Without, ByPointers!Without
  <2>. QED
    BY <2>1, <2>2, <2>3 DEF ListNext
<1>. QED
  BY <1>1, <1>2, <1>3, ListPromised, Invariant, PTL
  DEF ListSpec, ImplementsNodeList, ByPointers!ListSpec
=============================================================================
