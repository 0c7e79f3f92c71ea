-------------------------- MODULE AesdSocketProofs --------------------------
(***************************************************************************)
(* Proofs about the socket server, for any number of clients and whatever  *)
(* they send, in three parts.                                              *)
(*                                                                         *)
(* The threads (module ReceiveData): what a thread has put together is the *)
(* text of what it received; what it has written of its command so far is  *)
(* the last thing there, unless another wrote in between; and what it has  *)
(* sent back is the content from its start to its position.  The content   *)
(* only grows behind what is there, until the device evicts.  In file mode *)
(* the mutex is given back on every path and keeps commands in one piece.  *)
(*                                                                         *)
(* The list of connections (module AesdSocket): which threads are joined,  *)
(* which sockets are closed, and who is left when the process exits.  The  *)
(* invariant says which nodes are on the list: every running thread, and   *)
(* nothing that was joined but the one node being taken out, by main or by *)
(* the handler that interrupted it.                                        *)
(*                                                                         *)
(* Both together: main and the handler leave the threads' data alone, the  *)
(* list and the device are used as their abstract modules have it, no half *)
(* command is left in the driver, and the handler's loop is finite.        *)
(***************************************************************************)
EXTENDS AesdSocket, DataInduction

(* The bytes of a stream, each as a string, one after the other. *)
Strings(bytes) == [i \in DOMAIN bytes |-> AsString(bytes[i])]

(* Each byte of the stream is one string. *)
LEMMA StringsType ==
  ASSUME NEW s \in Seq(Byte)
  PROVE  /\ Strings(s) \in Seq(Seq(Byte))
         /\ Len(Strings(s)) = Len(s)
         /\ \A i \in 1 .. Len(s) : Strings(s)[i] = AsString(s[i])
<1>1. /\ Len(s) \in Nat /\ DOMAIN s = 1 .. Len(s)
      /\ \A i \in 1 .. Len(s) : s[i] \in Byte
  BY LenProperties
<1>2. \A b \in Byte : AsString(b) \in Seq(Byte)
  BY DEF AsString
<1>3. Strings(s) = [i \in 1 .. Len(s) |-> AsString(s[i])]
  BY <1>1 DEF Strings
<1>4. \A i \in 1 .. Len(s) : AsString(s[i]) \in Seq(Byte)
  BY <1>1, <1>2
<1>5. Strings(s) \in [1 .. Len(s) -> Seq(Byte)]
  BY <1>3, <1>4
<1>6. Strings(s) \in Seq(Seq(Byte))
  BY <1>1, <1>5, SeqDef
<1>. QED
  BY <1>1, <1>3, <1>6, LenProperties

(* The text of what arrives in two parts is that of the parts in order. *)
LEMMA TextFacts ==
  ASSUME NEW s \in Seq(Byte), NEW t \in Seq(Byte)
  PROVE  /\ Text(s) \in Seq(Byte)
         /\ Text(s \o t) = Text(s) \o Text(t)
<1>1. /\ Strings(s) \in Seq(Seq(Byte)) /\ Len(Strings(s)) = Len(s) /\ Len(s) \in Nat
      /\ Strings(t) \in Seq(Seq(Byte)) /\ Len(Strings(t)) = Len(t) /\ Len(t) \in Nat
  BY StringsType, LenProperties
<1>2. /\ s \o t \in Seq(Byte) /\ Len(s \o t) = Len(s) + Len(t)
      /\ \A i \in 1 .. Len(s) + Len(t) :
           (s \o t)[i] = IF i <= Len(s) THEN s[i] ELSE t[i - Len(s)]
  BY ConcatProperties
<1>3. Strings(s \o t) = Strings(s) \o Strings(t)
  <2>. DEFINE u == Strings(s \o t)
              v == Strings(s) \o Strings(t)
              a == Len(s)
              b == Len(t)
              p == Strings(s)
              q == Strings(t)
              x == s \o t
  <2>1. u \in Seq(Seq(Byte)) /\ Len(u) = a + b
        /\ \A i \in 1 .. a + b : u[i] = AsString(x[i])
    <3>1. x \in Seq(Byte) /\ Len(x) = a + b
      BY <1>2
    <3>. HIDE DEF x
    <3>2. /\ Strings(x) \in Seq(Seq(Byte)) /\ Len(Strings(x)) = Len(x)
          /\ \A i \in 1 .. Len(x) : Strings(x)[i] = AsString(x[i])
      BY <3>1, StringsType
    <3>. QED
      BY <3>1, <3>2, Zenon DEF x
  <2>2. v \in Seq(Seq(Byte)) /\ Len(v) = a + b
        /\ \A i \in 1 .. a + b : v[i] = IF i <= a THEN p[i] ELSE q[i - a]
    <3>1. /\ p \in Seq(Seq(Byte)) /\ q \in Seq(Seq(Byte))
          /\ Len(p) = a /\ Len(q) = b
      BY <1>1
    <3>. HIDE DEF p, q, a, b
    <3>2. /\ p \o q \in Seq(Seq(Byte)) /\ Len(p \o q) = Len(p) + Len(q)
          /\ \A i \in 1 .. Len(p) + Len(q) :
               (p \o q)[i] = IF i <= Len(p) THEN p[i] ELSE q[i - Len(p)]
      BY <3>1, ConcatProperties
    <3>. QED
      BY <3>1, <3>2, Zenon DEF p, q
  <2>3. \A i \in 1 .. a : p[i] = AsString(s[i])
    BY StringsType
  <2>4. \A i \in 1 .. b : q[i] = AsString(t[i])
    BY StringsType
  <2>5. \A i \in 1 .. a + b : x[i] = IF i <= a THEN s[i] ELSE t[i - a]
    BY <1>2
  <2>6. a \in Nat /\ b \in Nat
    BY <1>1
  <2>. HIDE DEF u, v, a, b, p, q, x
  <2>7. ASSUME NEW i \in 1 .. a + b PROVE u[i] = v[i]
    <3>1. CASE i <= a
      <4>1. i \in 1 .. a
        BY <2>6, <3>1
      <4>. QED
        BY <2>1, <2>2, <2>3, <2>5, <3>1, <4>1
    <3>2. CASE ~(i <= a)
      <4>1. i - a \in 1 .. b
        BY <2>6, <3>2
      <4>. QED
        BY <2>1, <2>2, <2>4, <2>5, <3>2, <4>1
    <3>. QED
      BY <3>1, <3>2
  <2>8. u = v
    BY <2>1, <2>2, <2>7, SeqEqual
  <2>. QED
    BY <2>8 DEF u, v, p, q, x
<1>4. Text(s) = FlattenSeq(Strings(s)) /\ Text(t) = FlattenSeq(Strings(t))
      /\ Text(s \o t) = FlattenSeq(Strings(s \o t))
  BY Zenon DEF Text, Strings
<1>5. FlattenSeq(Strings(s) \o Strings(t)) = FlattenSeq(Strings(s)) \o FlattenSeq(Strings(t))
  BY <1>1, FlattenConcat
<1>6. FlattenSeq(Strings(s)) \in Seq(Byte)
  BY <1>1, FlattenType
<1>. QED
  BY <1>3, <1>4, <1>5, <1>6, Zenon

(* The first newline of s. *)
FirstNewLine(s, k) ==
  k \in 1 .. Len(s) /\ s[k] = NewLine /\ \A i \in 1 .. Len(s) : i < k => s[i] # NewLine

(* What is kept ends with the first newline. *)
LEMMA UpToFirst ==
  ASSUME NEW s \in Seq(Byte), Contains(s, NewLine)
  PROVE  \E k : FirstNewLine(s, k) /\ UpToNewLine(s) = SubSeq(s, 1, k)
<1>. DEFINE I == {i \in 1 .. Len(s) : s[i] = NewLine}
<1>1. Len(s) \in Nat
  BY LenProperties
<1>2. I # {} /\ I \subseteq Nat
  BY <1>1 DEF Contains
<1>3. Min(I) \in I /\ \A i \in I : Min(I) <= i
  <2>. HIDE DEF I
  <2>. QED
    BY <1>2, MinOfNumbers
<1>4. SelectInSeq(s, LAMBDA b : b = NewLine) = Min(I)
  BY <1>2 DEF SelectInSeq
<1>5. UpToNewLine(s) = SubSeq(s, 1, Min(I))
  BY <1>4 DEF UpToNewLine
<1>6. FirstNewLine(s, Min(I))
  <2>. DEFINE k == Min(I)
  <2>1. k \in I /\ \A i \in I : k <= i
    BY <1>3
  <2>. HIDE DEF k
  <2>2. FirstNewLine(s, k)
    BY <1>1, <2>1 DEF FirstNewLine
  <2>. QED
    BY <2>2 DEF k
<1>. QED
  BY <1>5, <1>6

(* There is one first newline. *)
LEMMA FirstIsOne ==
  ASSUME NEW s \in Seq(Byte), NEW k, NEW l, FirstNewLine(s, k), FirstNewLine(s, l)
  PROVE  k = l
BY LenProperties DEF FirstNewLine

(* Cutting behind the first newline keeps whether there is one. *)
LEMMA UpToNewLineFacts ==
  ASSUME NEW s \in Seq(Byte)
  PROVE  /\ UpToNewLine(s) \in Seq(Byte)
         /\ Contains(UpToNewLine(s), NewLine) <=> Contains(s, NewLine)
         /\ ~Contains(s, NewLine) => UpToNewLine(s) = s
<1>1. CASE ~Contains(s, NewLine)
  BY <1>1 DEF UpToNewLine
<1>2. CASE Contains(s, NewLine)
  <2>1. PICK k : FirstNewLine(s, k) /\ UpToNewLine(s) = SubSeq(s, 1, k)
    BY <1>2, UpToFirst
  <2>2. Len(s) \in Nat /\ k \in 1 .. Len(s) /\ k - 1 + 1 = k
    BY <2>1, LenProperties DEF FirstNewLine
  <2>. DEFINE u == SubSeq(s, 1, k)
  <2>3. u \in Seq(Byte) /\ Len(u) = k /\ u[k] = NewLine
    <3>1. \A i \in 1 .. k : s[i] \in Byte
      BY <2>2
    <3>2. u \in Seq(Byte) /\ Len(u) = k /\ \A i \in 1 .. k : u[i] = s[1 + i - 1]
      BY <2>2, <3>1, SubSeqProperties
    <3>. QED
      BY <2>1, <2>2, <3>2 DEF FirstNewLine
  <2>. HIDE DEF u
  <2>4. Contains(u, NewLine)
    BY <2>2, <2>3 DEF Contains
  <2>. QED
    BY <1>2, <2>1, <2>3, <2>4, Zenon DEF u
<1>. QED
  BY <1>1, <1>2

(* What comes behind the first newline makes no difference. *)
LEMMA UpToNewLineConcat ==
  ASSUME NEW s \in Seq(Byte), NEW t \in Seq(Byte), Contains(s, NewLine)
  PROVE  /\ Contains(s \o t, NewLine)
         /\ UpToNewLine(s \o t) = UpToNewLine(s)
<1>. DEFINE u == s \o t
<1>1. /\ u \in Seq(Byte) /\ Len(u) = Len(s) + Len(t) /\ Len(s) \in Nat /\ Len(t) \in Nat
      /\ \A i \in 1 .. Len(s) : u[i] = s[i]
  BY ConcatProperties, LenProperties
<1>2. PICK k : FirstNewLine(s, k) /\ UpToNewLine(s) = SubSeq(s, 1, k)
  BY UpToFirst
<1>3. k \in 1 .. Len(s)
  BY <1>2 DEF FirstNewLine
<1>4. SubSeq(u, 1, k) = SubSeq(s, 1, k)
  BY <1>1, <1>3, SubSeqOfConcat1
<1>. HIDE DEF u
<1>5. FirstNewLine(u, k)
  BY <1>1, <1>2 DEF FirstNewLine
<1>6. Contains(u, NewLine)
  BY <1>5 DEF FirstNewLine, Contains
<1>7. PICK l : FirstNewLine(u, l) /\ UpToNewLine(u) = SubSeq(u, 1, l)
  BY <1>1, <1>6, UpToFirst
<1>8. l = k
  BY <1>1, <1>5, <1>7, FirstIsOne
<1>. QED
  BY <1>2, <1>4, <1>6, <1>7, <1>8, Zenon DEF u

(* What a file or the device holds after an append. *)
LEMMA KeptFacts ==
  ASSUME NEW s \in Seq(Seq(Byte)), NEW d \in Seq(Byte)
  PROVE  /\ Kept(Append(s, d)) \in Seq(Seq(Byte))
         /\ FlattenSeq(s) \in Seq(Byte)
         /\ ~(UseDevice /\ Len(s) >= MaxOps)
              => FlattenSeq(Kept(Append(s, d))) = FlattenSeq(s) \o d
         /\ UseDevice /\ Len(s) >= MaxOps
              => \E r \in Seq(Byte) : FlattenSeq(Kept(Append(s, d))) = r \o d
         /\ UseDevice /\ Len(s) <= MaxOps => Len(Kept(Append(s, d))) <= MaxOps
<1>. DEFINE t == Append(s, d)
<1>1. MaxOps \in Nat \ {0}
  BY ReceiveAssumption
<1>2. t \in Seq(Seq(Byte)) /\ t # << >> /\ Len(t) = Len(s) + 1 /\ Len(s) \in Nat
  BY AppendProperties, LenProperties
<1>3. FlattenSeq(t) = FlattenSeq(s) \o d /\ FlattenSeq(s) \in Seq(Byte)
  BY FlattenAppend, FlattenType
<1>4. Kept(t) = IF UseDevice /\ Len(t) > MaxOps THEN Tail(t) ELSE t
  BY <1>1, <1>2 DEF Kept, Device!Newest
<1>5. Tail(t) \in Seq(Seq(Byte)) /\ Len(Tail(t)) = Len(t) - 1
  BY <1>2, HeadTailProperties
<1>6. ASSUME Len(s) >= MaxOps
      PROVE  \E r \in Seq(Byte) : FlattenSeq(Tail(t)) = r \o d
  <2>1. s # << >>
    BY <1>1, <1>6, EmptySeq
  <2>2. Tail(t) = Append(Tail(s), d) /\ Tail(s) \in Seq(Seq(Byte))
    BY <2>1, HeadTailAppend, HeadTailProperties
  <2>. QED
    BY <2>2, FlattenAppend, FlattenType
<1>. HIDE DEF t
<1>7. ASSUME UseDevice, Len(s) >= MaxOps PROVE Kept(t) = Tail(t)
  BY <1>1, <1>2, <1>4, <1>7
<1>8. ASSUME ~(UseDevice /\ Len(s) >= MaxOps) PROVE Kept(t) = t
  BY <1>1, <1>2, <1>4, <1>8
<1>9. ASSUME UseDevice, Len(s) <= MaxOps PROVE Len(Kept(t)) <= MaxOps
  BY <1>1, <1>2, <1>4, <1>5, <1>9
<1>. QED
  BY <1>2, <1>3, <1>4, <1>5, <1>6, <1>7, <1>8, <1>9 DEF t

(* What is written is bytes. *)
LEMMA EntryType == ASSUME TypeOK, NEW c \in Conn PROVE Entry(c) \in Seq(Byte)
<1>1. pending \in Seq(Byte) /\ unwritten[c] \in Seq(Byte)
  BY DEF TypeOK
<1>. QED
  BY <1>1, ConcatProperties DEF Entry

(* Of a longer command a piece is written, and a shorter rest is left. *)
LEMMA PieceFacts ==
  ASSUME TypeOK, NEW c \in Conn, WritePiece(c)
  PROVE  \E piece \in Seq(Byte), rest \in Seq(Byte) :
           /\ unwritten[c] = piece \o rest
           /\ Len(piece) < Len(unwritten[c]) /\ Len(rest) < Len(unwritten[c])
           /\ unwritten' = [unwritten EXCEPT ![c] = rest]
           /\ UseDevice => pending' = pending \o piece /\ stores' = stores
           /\ ~UseDevice => /\ stores' = [stores EXCEPT ![inode[c]] =
                                            Append(stores[inode[c]], piece)]
                            /\ pending' = pending
<1>. DEFINE u == unwritten[c]
<1>1. PICK n \in 1 .. Len(u) - 1 :
        /\ unwritten' = [unwritten EXCEPT ![c] = SubSeq(u, n + 1, Len(u))]
        /\ IF UseDevice
           THEN pending' = pending \o SubSeq(u, 1, n) /\ UNCHANGED stores
           ELSE stores' = [stores EXCEPT ![inode[c]] = Append(@, SubSeq(u, 1, n))]
                /\ UNCHANGED pending
  BY DEF WritePiece
<1>. DEFINE piece == SubSeq(u, 1, n)
            rest  == SubSeq(u, n + 1, Len(u))
<1>2. u \in Seq(Byte) /\ Len(u) \in Nat /\ \A i \in 1 .. Len(u) : u[i] \in Byte
  BY LenProperties DEF TypeOK
<1>. HIDE DEF u
<1>3. /\ n \in Nat /\ n + 1 \in 1 .. Len(u) /\ n < Len(u) /\ 1 <= n
      /\ \A i \in 1 .. n : u[i] \in Byte
      /\ \A i \in n + 1 .. Len(u) : u[i] \in Byte
  BY <1>2
<1>4. piece \in Seq(Byte) /\ rest \in Seq(Byte)
  BY <1>2, <1>3, SubSeqProperties
<1>5. Len(piece) < Len(u) /\ Len(rest) < Len(u)
  <2>1. Len(piece) = n /\ Len(rest) = Len(u) - (n + 1) + 1
    BY <1>2, <1>3, SubSeqProperties
  <2>. QED
    BY <1>2, <1>3, <2>1
<1>6. u = piece \o rest
  <2>1. 1 \in 1 .. Len(u) + 1 /\ n \in 1 - 1 .. Len(u) /\ Len(u) \in n .. Len(u)
    BY <1>2, <1>3
  <2>2. SubSeq(u, 1, n) \o SubSeq(u, n + 1, Len(u)) = SubSeq(u, 1, Len(u))
    BY <1>2, <2>1, ConcatAdjacentSubSeq
  <2>. QED
    BY <1>2, <2>2, SubSeqFull
<1>. HIDE DEF piece, rest
<1>7. /\ unwritten' = [unwritten EXCEPT ![c] = rest]
      /\ UseDevice => pending' = pending \o piece /\ stores' = stores
      /\ ~UseDevice => /\ stores' = [stores EXCEPT ![inode[c]] =
                                       Append(stores[inode[c]], piece)]
                       /\ pending' = pending
  BY <1>1 DEF piece, rest
<1>. QED
  BY <1>4, <1>5, <1>6, <1>7 DEF u

(* The content of a file is bytes. *)
LEMMA ContentType ==
  ASSUME TypeOK, NEW c \in Conn
  PROVE  Content(c) \in Seq(Byte) /\ Len(Content(c)) \in Nat
<1>1. stores[inode[c]] \in Seq(Seq(Byte))
  BY DEF TypeOK
<1>. QED
  BY <1>1, FlattenType, LenProperties DEF Content

(* getline goes on, and not beyond the end of the file. *)
LEMMA LineEndFacts ==
  ASSUME TypeOK, NEW c \in Conn, pos[c] < Len(Content(c))
  PROVE  /\ LineEnd(c) \in Nat /\ pos[c] < LineEnd(c) /\ LineEnd(c) <= Len(Content(c))
         /\ Content(c)[LineEnd(c)] = NewLine \/ LineEnd(c) = Len(Content(c))
<1>. DEFINE later == {end \in Ends(c) : end > pos[c]}
            l     == Len(Content(c))
<1>1. l \in Nat /\ pos[c] \in Nat
  BY ContentType DEF TypeOK
<1>2. l \in later /\ later \subseteq Nat
  BY <1>1 DEF Ends
<1>. HIDE DEF later
<1>3. Min(later) \in later
  BY <1>2, MinOfNumbers
<1>4. LineEnd(c) \in later
  BY <1>3 DEF LineEnd, later
<1>. QED
  BY <1>1, <1>4 DEF later, Ends

-----------------------------------------------------------------------------
SentInStream == \A c \in Conn : sent[c] <= Len(Stream[c])

(* A thread that has not come to its newline has received what it has put  *)
(* together.                                                               *)
Framed ==
  /\ CommandsFramed
  /\ \A c \in Conn : wpc[c] \in {"none", "recv"} => ~Received(c)

(* Only the device keeps what no newline has completed. *)
PendingInDevice == ~UseDevice => pending = << >>

(* In device mode every file is the device, and the timer is not there.    *)
OneStore ==
  UseDevice => /\ named = 0 /\ tpc = "none" /\ Len(stores[0]) <= MaxOps
               /\ \A c \in Conn : inode[c] = 0

(* recv returns a part of the stream that was sent. *)
LEMMA RecvFacts ==
  ASSUME TypeOK, SentInStream, Framed, NEW c \in Conn, At(c, "recv"),
         NEW n \in 1 .. Available(c)
  PROVE  LET next == UpToNewLine(data[c] \o Text(SubSeq(Stream[c], recvd[c] + 1, recvd[c] + n)))
         IN  /\ recvd[c] + n \in Nat /\ recvd[c] + n <= sent[c]
             /\ next \in Seq(Byte)
             /\ Contains(next, NewLine) => next = UpToNewLine(Text(Stream[c]))
             /\ ~Contains(next, NewLine) => next = Text(SubSeq(Stream[c], 1, recvd[c] + n))
<1>. DEFINE s == Stream[c]
            k == recvd[c]
            m == recvd[c] + n
            a == SubSeq(s, 1, k)
            b == SubSeq(s, k + 1, m)
            p == SubSeq(s, 1, m)
            q == SubSeq(s, m + 1, Len(s))
<1>1. s \in Seq(Byte) /\ Len(s) \in Nat
  BY ReceiveAssumption, LenProperties
<1>2. /\ k \in Nat /\ m \in Nat /\ n \in Nat /\ m <= sent[c] /\ m <= Len(s) /\ n >= 1
      /\ m = k + n
  <2>1. recvd[c] \in Nat /\ sent[c] \in Nat /\ BufSize \in Nat
    BY ReceiveAssumption DEF TypeOK
  <2>2. Available(c) \in Int /\ Available(c) <= sent[c] - recvd[c]
    <3>. DEFINE r == sent[c] - recvd[c]
    <3>1. BufSize \in Int /\ r \in Int
      BY <2>1
    <3>. HIDE DEF r
    <3>2. Min({BufSize, r}) \in Int /\ Min({BufSize, r}) <= r
      BY <3>1, MinOfTwo
    <3>. QED
      BY <3>2 DEF Available, r
  <2>3. sent[c] <= Len(s)
    BY DEF SentInStream
  <2>. QED
    BY <1>1, <2>1, <2>2, <2>3
<1>3. a \o b = p /\ p \o q = s
  <2>1. 1 \in 1 .. Len(s) + 1 /\ k \in 1 - 1 .. Len(s) /\ m \in k .. Len(s)
        /\ m \in 1 - 1 .. Len(s) /\ Len(s) \in m .. Len(s)
    BY <1>1, <1>2
  <2>2. SubSeq(s, 1, Len(s)) = s
    BY <1>1, SubSeqFull
  <2>. HIDE DEF s, k, m
  <2>3. a \o b = p
    BY <1>1, <2>1, ConcatAdjacentSubSeq
  <2>4. p \o q = SubSeq(s, 1, Len(s))
    BY <1>1, <2>1, ConcatAdjacentSubSeq
  <2>. QED
    BY <2>2, <2>3, <2>4
<1>4. a \in Seq(Byte) /\ b \in Seq(Byte) /\ p \in Seq(Byte) /\ q \in Seq(Byte)
  <2>1. /\ \A i \in 1 .. k : s[i] \in Byte
        /\ \A i \in k + 1 .. m : s[i] \in Byte
        /\ \A i \in 1 .. m : s[i] \in Byte
        /\ \A i \in m + 1 .. Len(s) : s[i] \in Byte
    BY <1>1, <1>2
  <2>. HIDE DEF s, k, m
  <2>. QED
    BY <1>1, <1>2, <2>1, SubSeqProperties
<1>5. data[c] = Text(a)
  BY DEF Framed, CommandsFramed, At
<1>. HIDE DEF a, b, p, q
<1>6. Text(a) \o Text(b) = Text(p) /\ Text(p) \o Text(q) = Text(s)
      /\ Text(p) \in Seq(Byte) /\ Text(q) \in Seq(Byte)
  <2>1. Text(a \o b) = Text(a) \o Text(b)
    BY <1>4, TextFacts
  <2>2. Text(p \o q) = Text(p) \o Text(q)
    BY <1>4, TextFacts
  <2>3. Text(p) \in Seq(Byte) /\ Text(q) \in Seq(Byte)
    BY <1>4, TextFacts
  <2>. QED
    BY <1>3, <2>1, <2>2, <2>3
<1>7. data[c] \o Text(b) = Text(p)
  BY <1>5, <1>6
<1>8. /\ UpToNewLine(Text(p)) \in Seq(Byte)
      /\ Contains(UpToNewLine(Text(p)), NewLine) <=> Contains(Text(p), NewLine)
      /\ ~Contains(Text(p), NewLine) => UpToNewLine(Text(p)) = Text(p)
  BY <1>6, UpToNewLineFacts
<1>9. Contains(Text(p), NewLine) => UpToNewLine(Text(s)) = UpToNewLine(Text(p))
  BY <1>6, UpToNewLineConcat
<1>. QED
  BY <1>2, <1>7, <1>8, <1>9, Zenon DEF b, p

(* Where the thread of a connection may go next, its uses of data apart.   *)
Moves == {<<"none", "recv">>, <<"recv", "finish">>, <<"lock", "open">>,
          <<"reply", "finish">>, <<"finish", "ending">>, <<"ending", "ended">>}

PlaceStep ==
  \/ UNCHANGED wpc
  \/ \E c \in Conn : \E move \in Moves : wpc[c] = move[1] /\ Goto(c, move[2])

(* The steps main and the handler take in the state of the threads.        *)
StatusOnly ==
  /\ status' \in {"up", "failed", "killed", "exited", "crashed"}
  /\ UNCHANGED <<client, wpc, locals, complete, shifted, mixed, stores, pending, named,
                 mutex, timer>>

Renamed ==
  /\ named' = IF UseDevice THEN 0 ELSE 1
  /\ UNCHANGED <<status, client, wpc, locals, complete, shifted, mixed, stores, pending,
                 mutex, timer>>

DataStep == Next \/ StatusOnly \/ Renamed \/ UNCHANGED vars

QuietData == UNCHANGED <<locals, shifted, mixed, stores, pending>> /\ PlaceStep

(* These steps bring no thread to its append. *)
LEMMA AppendKept ==
  ASSUME TypeOK, QuietData \/ (\E e \in Conn : SeekDevice(e) \/ ReadLine(e)), NEW c \in Conn
  PROVE  wpc'[c] = "append" => wpc[c] = "append"
<1>. DEFINE Moved(e, place) == place # "append" /\ wpc' = [wpc EXCEPT ![e] = place]
<1>1. wpc \in [Conn -> Places]
  BY DEF TypeOK
<1>2. wpc' = wpc \/ \E e \in Conn : \E place \in Places : Moved(e, place)
  <2>1. CASE QuietData
    <3>1. ASSUME NEW e \in Conn, NEW move \in Moves, Goto(e, move[2])
          PROVE  move[2] \in Places /\ Moved(e, move[2])
      BY <3>1 DEF Goto, Moves, Places
    <3>. QED
      BY <2>1, <3>1 DEF QuietData, PlaceStep
  <2>2. ASSUME NEW e \in Conn, SeekDevice(e) PROVE Moved(e, "reply")
    BY <2>2 DEF SeekDevice, Goto
  <2>3. ASSUME NEW e \in Conn, ReadLine(e) PROVE wpc' = wpc \/ Moved(e, "finish")
    BY <2>3 DEF ReadLine, Goto
  <2>4. "reply" \in Places /\ "finish" \in Places
    BY DEF Places
  <2>. QED
    BY <2>1, <2>2, <2>3, <2>4
<1>. QED
  BY <1>1, <1>2

(* Seven actions change data; the other steps only move threads on. *)
LEMMA StepKinds ==
  ASSUME DataStep
  PROVE  /\ UseDevice /\ named = 0 /\ tpc = "none" => named' = 0 /\ tpc' = "none"
         /\ \/ \E c \in Conn : \/ Recv(c) \/ Open(c) \/ WritePiece(c)
                               \/ AppendLine(c) \/ SeekDevice(c) \/ ReadLine(c)
            \/ TimerAppend
            \/ QuietData
<1>1. ASSUME NEW c \in Conn,
             \/ Recv(c) \/ Open(c) \/ WritePiece(c)
             \/ AppendLine(c) \/ SeekDevice(c) \/ ReadLine(c)
      PROVE  UNCHANGED <<named, tpc>>
  BY <1>1 DEF Recv, Open, WritePiece, LineAppended, AppendLine, SeekDevice, ReadLine, timer
<1>2. CASE TimerStep \/ StartTimer
  BY <1>2 DEF TimerStep, TimerLock, TimerOpen, TimerAppend, TimerFails, StartTimer, timer,
     QuietData, PlaceStep
<1>3. CASE StatusOnly \/ Renamed \/ UNCHANGED vars
  BY <1>3 DEF StatusOnly, Renamed, vars, timer, QuietData, PlaceStep
<1>4. ASSUME NEW c \in Conn, Client(c)
      PROVE  QuietData /\ UNCHANGED <<named, tpc>>
  BY <1>4 DEF Client, ClientSend, ClientClose, QuietData, PlaceStep, timer
<1>5. ASSUME NEW c \in Conn,
             OutOfMemory(c) \/ OpenFails(c) \/ AppendFails(c)
               \/ SeekWithoutArguments(c) \/ BrokenPipe(c)
      PROVE  QuietData /\ UNCHANGED <<named, tpc>>
  BY <1>5 DEF OutOfMemory, OpenFails, AppendFails, SeekWithoutArguments, BrokenPipe,
     QuietData, PlaceStep, timer
<1>6. ASSUME NEW c \in Conn,
             Start(c) \/ RecvFails(c) \/ Lock(c) \/ ReadEnd(c) \/ Finish(c) \/ End(c)
      PROVE  QuietData /\ UNCHANGED <<named, tpc>>
  <2>1. UNCHANGED <<locals, shifted, mixed, stores, pending, named, tpc>>
    BY <1>6 DEF Start, RecvFails, Lock, ReadEnd, Finish, End, timer
  <2>2. \E move \in Moves : wpc[c] = move[1] /\ Goto(c, move[2])
    BY <1>6 DEF Start, RecvFails, Lock, ReadEnd, Finish, End, At, Moves
  <2>. QED
    BY <2>1, <2>2 DEF QuietData, PlaceStep
<1>. QED
  BY <1>1, <1>2, <1>3, <1>4, <1>5, <1>6 DEF DataStep, Next, Worker

-----------------------------------------------------------------------------
DataInv == TypeOK /\ SentInStream /\ Framed /\ OneStore /\ PendingInDevice

LEMMA DataInit == Init => DataInv
<1>. SUFFICES ASSUME Init PROVE DataInv
  OBVIOUS
<1>1. << >> \in Seq(Byte) /\ << >> \in Seq(Seq(Byte))
  BY EmptySeq
<1>2. TypeOK
  BY <1>1, ReceiveAssumption DEF Init, TypeOK, Places
<1>3. SentInStream
  BY ReceiveAssumption, LenProperties DEF Init, SentInStream
<1>4. Framed
  <2>1. \A c \in Conn : ~Received(c)
    BY DEF Init, Received, Contains
  <2>2. \A c \in Conn : Text(SubSeq(Stream[c], 1, 0)) = << >>
    <3>1. ASSUME NEW s PROVE Text(SubSeq(s, 1, 0)) = << >>
      <4>1. SubSeq(s, 1, 0) = << >>
        BY SubSeqEmpty
      <4>2. Text(<< >>) = << >>
        <5>1. Strings(<< >>) = << >>
          BY DEF Strings
        <5>. QED
          BY <5>1, FlattenEmpty DEF Text, Strings
      <4>. QED
        BY <4>1, <4>2
    <3>. QED
      BY <3>1
  <2>. QED
    BY <2>1, <2>2 DEF Init, Framed, CommandsFramed
<1>5. OneStore /\ PendingInDevice
  BY ReceiveAssumption DEF Init, OneStore, PendingInDevice
<1>. QED
  BY <1>2, <1>3, <1>4, <1>5 DEF DataInv

(* Every variable of the threads keeps its type.                           *)
LEMMA TypesStep ==
  ASSUME DataInv, DataStep
  PROVE  TypeOK'
<1>. USE DEF DataInv
<1>1. ASSUME NEW c \in Conn, Recv(c) PROVE TypeOK'
  <2>1. PICK n \in 1 .. Available(c) :
          /\ recvd' = [recvd EXCEPT ![c] = @ + n]
          /\ data' = [data EXCEPT ![c] =
               UpToNewLine(@ \o Text(SubSeq(Stream[c], recvd[c] + 1, recvd[c] + n)))]
    BY <1>1 DEF Recv
  <2>2. recvd[c] + n \in Nat /\ recvd[c] + n <= sent[c]
        /\ UpToNewLine(data[c] \o Text(SubSeq(Stream[c], recvd[c] + 1, recvd[c] + n))) \in Seq(Byte)
    BY <1>1, RecvFacts DEF Recv
  <2>3. recvd' \in [Conn -> Nat] /\ (\A d \in Conn : recvd'[d] <= sent'[d]) /\ sent' = sent
    BY <1>1, <2>1, <2>2 DEF TypeOK, Recv, client
  <2>4. data' \in [Conn -> Seq(Byte)]
    BY <2>1, <2>2 DEF TypeOK
  <2>5. wpc' \in [Conn -> Places]
    BY <1>1 DEF Recv, Goto, TypeOK, Places
  <2>. QED
    BY <1>1, <2>3, <2>4, <2>5 DEF TypeOK, Recv, client, timer
<1>2. ASSUME NEW c \in Conn, AppendLine(c) PROVE TypeOK'
  <2>1. Kept(Append(stores[inode[c]], Entry(c))) \in Seq(Seq(Byte))
    <3>1. stores[inode[c]] \in Seq(Seq(Byte)) /\ Entry(c) \in Seq(Byte)
      BY EntryType DEF TypeOK
    <3>. QED
      BY <3>1, KeptFacts
  <2>2. stores' \in [{0, 1} -> Seq(Seq(Byte))]
    BY <1>2, <2>1 DEF LineAppended, AppendLine, TypeOK
  <2>3. /\ pos' \in [Conn -> Nat] /\ start' \in [Conn -> Nat] /\ wpc' \in [Conn -> Places]
        /\ shifted' \in [Conn -> BOOLEAN] /\ mutex' \in Conn \cup {Timer, NoOne}
    BY <1>2 DEF LineAppended, AppendLine, Unlocked, Goto, TypeOK, Places
  <2>4. /\ pending' \in Seq(Byte) /\ unwritten' \in [Conn -> Seq(Byte)]
        /\ mixed' \in [Conn -> BOOLEAN]
    BY <1>2, EmptySeq DEF LineAppended, AppendLine, Mixed, TypeOK
  <2>. QED
    BY <1>2, <2>2, <2>3, <2>4 DEF LineAppended, AppendLine, TypeOK, client, timer
<1>3. ASSUME NEW c \in Conn, SeekDevice(c) PROVE TypeOK'
  <2>1. PICK to \in {0} \cup (IF UseDevice THEN 0 .. Len(Content(c)) - 1 ELSE {}) :
          pos' = [pos EXCEPT ![c] = to] /\ start' = [start EXCEPT ![c] = to]
    BY <1>3 DEF SeekDevice
  <2>2. to \in Nat
    BY ContentType
  <2>3. /\ pos' \in [Conn -> Nat] /\ start' \in [Conn -> Nat] /\ wpc' \in [Conn -> Places]
        /\ mutex' \in Conn \cup {Timer, NoOne}
    BY <1>3, <2>1, <2>2 DEF SeekDevice, Unlocked, Goto, TypeOK, Places
  <2>. QED
    BY <1>3, <2>3 DEF SeekDevice, TypeOK, client, timer
<1>4. ASSUME NEW c \in Conn, ReadLine(c) PROVE TypeOK'
  <2>. DEFINE line == SubSeq(Content(c), pos[c] + 1, LineEnd(c))
  <2>1. LineEnd(c) \in Nat /\ LineEnd(c) <= Len(Content(c)) /\ pos[c] \in Nat
    BY <1>4, LineEndFacts DEF ReadLine, TypeOK
  <2>2. line \in Seq(Byte)
    <3>1. Content(c) \in Seq(Byte) /\ Len(Content(c)) \in Nat
      BY ContentType
    <3>2. \A i \in pos[c] + 1 .. LineEnd(c) : Content(c)[i] \in Byte
      BY <2>1, <3>1
    <3>. QED
      BY <2>1, <3>2, SubSeqProperties
  <2>3. reply' = [reply EXCEPT ![c] = @ \o line]
    BY <1>4 DEF ReadLine
  <2>. HIDE DEF line
  <2>4. reply' \in [Conn -> Seq(Byte)]
    BY <2>2, <2>3, ConcatProperties DEF TypeOK
  <2>5. pos' \in [Conn -> Nat]
    BY <1>4, <2>1 DEF ReadLine, TypeOK
  <2>6. wpc' \in [Conn -> Places]
    BY <1>4 DEF ReadLine, Goto, TypeOK, Places
  <2>. QED
    BY <1>4, <2>4, <2>5, <2>6 DEF ReadLine, TypeOK, client, timer
<1>5. ASSUME TimerAppend PROVE TypeOK'
  <2>1. Append(stores[tfile], Stamp) \in Seq(Seq(Byte))
    BY ReceiveAssumption, AppendProperties DEF TypeOK
  <2>2. stores' \in [{0, 1} -> Seq(Seq(Byte))]
    BY <1>5, <2>1 DEF TimerAppend, TypeOK
  <2>3. mixed' \in [Conn -> BOOLEAN]
    BY <1>5 DEF TimerAppend, Mixed, TypeOK
  <2>. QED
    BY <1>5, <2>2, <2>3 DEF TimerAppend, TypeOK, client, locals
<1>6. ASSUME NEW c \in Conn, WritePiece(c) PROVE TypeOK'
  <2>1. PICK piece \in Seq(Byte), rest \in Seq(Byte) :
          /\ unwritten' = [unwritten EXCEPT ![c] = rest]
          /\ UseDevice => pending' = pending \o piece /\ stores' = stores
          /\ ~UseDevice => /\ stores' = [stores EXCEPT ![inode[c]] =
                                           Append(stores[inode[c]], piece)]
                           /\ pending' = pending
    BY <1>6, PieceFacts
  <2>2. Append(stores[inode[c]], piece) \in Seq(Seq(Byte))
    <3>1. stores[inode[c]] \in Seq(Seq(Byte))
      BY DEF TypeOK
    <3>. QED
      BY <3>1, AppendProperties
  <2>3. pending \o piece \in Seq(Byte)
    <3>1. pending \in Seq(Byte)
      BY DEF TypeOK
    <3>. QED
      BY <3>1, ConcatProperties
  <2>4. /\ unwritten' \in [Conn -> Seq(Byte)] /\ pending' \in Seq(Byte)
        /\ stores' \in [{0, 1} -> Seq(Seq(Byte))]
    <3>1. /\ unwritten \in [Conn -> Seq(Byte)] /\ pending \in Seq(Byte)
          /\ stores \in [{0, 1} -> Seq(Seq(Byte))]
      BY DEF TypeOK
    <3>. DEFINE more == Append(stores[inode[c]], piece)
                held == pending \o piece
    <3>2. more \in Seq(Seq(Byte)) /\ held \in Seq(Byte)
      BY <2>2, <2>3
    <3>3. /\ UseDevice => pending' = held /\ stores' = stores
          /\ ~UseDevice => /\ stores' = [stores EXCEPT ![inode[c]] = more]
                           /\ pending' = pending
      BY <2>1
    <3>. HIDE DEF more, held
    <3>4. unwritten' \in [Conn -> Seq(Byte)]
      BY <2>1, <3>1
    <3>. QED
      BY <3>1, <3>2, <3>3, <3>4, Zenon
  <2>5. mixed' \in [Conn -> BOOLEAN]
    BY <1>6 DEF WritePiece, Mixed, TypeOK
  <2>. QED
    BY <1>6, <2>4, <2>5 DEF WritePiece, TypeOK, client, timer
<1>7. ASSUME NEW c \in Conn, Client(c) PROVE TypeOK'
  <2>1. CASE ClientSend(c)
    <3>. sent \in [Conn -> Nat]
      BY DEF TypeOK
    <3>0. sent' = [sent EXCEPT ![c] = sent[c] + 1] /\ sent[c] + 1 \in Nat
      BY <2>1 DEF ClientSend
    <3>1. sent' \in [Conn -> Nat]
      BY <3>0
    <3>2. recvd' = recvd /\ \A d \in Conn : recvd'[d] <= sent'[d]
      <4>1. recvd' = recvd
        BY <2>1 DEF ClientSend, locals
      <4>2. ASSUME NEW d \in Conn PROVE recvd[d] <= sent'[d]
        <5>1. sent'[d] = IF d = c THEN sent[c] + 1 ELSE sent[d]
          BY <3>0 DEF TypeOK
        <5>2. recvd[d] <= sent[d] /\ recvd[d] \in Nat /\ sent[d] \in Nat
          BY DEF TypeOK
        <5>. QED
          BY <5>1, <5>2
      <4>. QED
        BY <4>1, <4>2
    <3>. QED
      BY <2>1, <3>1, <3>2 DEF ClientSend, TypeOK, locals, timer
  <2>2. CASE ClientClose(c)
    BY <2>2 DEF ClientClose, TypeOK, locals, timer
  <2>. QED
    BY <1>7, <2>1, <2>2 DEF Client
<1>8. ASSUME NEW c \in Conn,
             OutOfMemory(c) \/ OpenFails(c) \/ AppendFails(c)
               \/ SeekWithoutArguments(c) \/ BrokenPipe(c)
      PROVE  TypeOK'
  BY <1>8 DEF OutOfMemory, OpenFails, AppendFails, SeekWithoutArguments, BrokenPipe,
     TypeOK, client, locals, timer
<1>9. ASSUME NEW c \in Conn, Start(c) \/ RecvFails(c) \/ ReadEnd(c) \/ End(c)
      PROVE  TypeOK'
  BY <1>9 DEF Start, RecvFails, ReadEnd, End, Goto, Places, TypeOK, client, locals,
     timer
<1>10. ASSUME NEW c \in Conn, Lock(c) \/ Open(c) \/ Finish(c)
      PROVE  TypeOK'
  BY <1>10 DEF Lock, Open, Finish, Goto, Places, TypeOK, client, locals, timer
<1>11. CASE StartTimer \/ TimerLock \/ TimerOpen \/ TimerFails
  <2>1. CASE StartTimer \/ TimerLock
    BY <2>1 DEF StartTimer, TimerLock, TypeOK, client, locals
  <2>2. CASE TimerOpen
    <3>1. tfile' \in {0, 1} /\ stamps' \in Nat /\ tpc' = "append"
      BY <2>2 DEF TimerOpen, TypeOK
    <3>. QED
      BY <2>2, <3>1 DEF TimerOpen, TypeOK, client, locals
  <2>3. CASE TimerFails
    BY <2>3 DEF TimerFails, TypeOK, client, locals, timer
  <2>. QED
    BY <1>11, <2>1, <2>2, <2>3
<1>12. CASE StatusOnly \/ Renamed \/ UNCHANGED vars
  BY <1>12 DEF StatusOnly, Renamed, TypeOK, vars, client, locals, timer
<1>. QED
  BY <1>1, <1>2, <1>3, <1>4, <1>5, <1>6, <1>7, <1>8, <1>9, <1>10, <1>11, <1>12
  DEF DataStep, Next, Worker, TimerStep

(* A client sends no more than its stream. *)
LEMMA SentStep ==
  ASSUME DataInv, DataStep
  PROVE  SentInStream'
<1>1. CASE \E c \in Conn : ClientSend(c)
  <2>. PICK c \in Conn : ClientSend(c)
    BY <1>1
  <2>1. \A d \in Conn : sent'[d] = IF d = c THEN sent[c] + 1 ELSE sent[d]
    BY DEF ClientSend, DataInv, TypeOK
  <2>2. sent[c] \in Nat /\ sent[c] < Len(Stream[c]) /\ Len(Stream[c]) \in Nat
    BY ReceiveAssumption, LenProperties DEF ClientSend, DataInv, TypeOK
  <2>. QED
    BY <2>1, <2>2 DEF SentInStream, DataInv
<1>2. CASE UNCHANGED sent
  BY <1>2 DEF DataInv, SentInStream
<1>. QED
  BY <1>1, <1>2
  DEF DataStep, Next, Client, ClientClose, Start, Worker, Recv, OutOfMemory, RecvFails,
  Lock, Open,
      OpenFails, WritePiece, LineAppended, AppendLine, AppendFails, SeekDevice,
      SeekWithoutArguments, ReadLine, BrokenPipe,
      ReadEnd, Finish, End, StartTimer, TimerStep, TimerLock, TimerOpen, TimerAppend,
      TimerFails,
      StatusOnly,
      Renamed, vars, client

(* A thread gets to use its command only with the newline; it does not     *)
(* receive after that.                                                     *)
LEMMA FramedQuiet ==
  ASSUME Framed, UNCHANGED <<data, recvd>>, wpc \in [Conn -> Places],
         \/ PlaceStep
         \/ \E c \in Conn : \/ wpc[c] = "open" /\ Goto(c, "append")
                            \/ wpc[c] = "append" /\ Goto(c, "reply")
  PROVE  Framed'
<1>1. \A c \in Conn : Received(c)' <=> Received(c)
  BY DEF Received
<1>2. \A c \in Conn :
        /\ wpc'[c] \in {"none", "recv"} => wpc[c] \in {"none", "recv"}
        /\ wpc'[c] \in {"lock", "open", "append", "reply"}
             => wpc[c] \in {"lock", "open", "append", "reply"}
  BY DEF PlaceStep, Moves, Goto
<1>. QED
  BY <1>1, <1>2 DEF Framed, CommandsFramed

(* A recv goes on in the stream where the last one ended. *)
LEMMA FramedRecv ==
  ASSUME DataInv, NEW c \in Conn, Recv(c)
  PROVE  Framed'
<1>. USE DEF DataInv
<1>1. PICK n \in 1 .. Available(c) :
        /\ recvd' = [recvd EXCEPT ![c] = @ + n]
        /\ data' = [data EXCEPT ![c] =
             UpToNewLine(@ \o Text(SubSeq(Stream[c], recvd[c] + 1, recvd[c] + n)))]
  BY DEF Recv
<1>. DEFINE next == UpToNewLine(data[c] \o Text(SubSeq(Stream[c], recvd[c] + 1, recvd[c] + n)))
<1>2. /\ recvd[c] + n \in Nat
      /\ Contains(next, NewLine) => next = UpToNewLine(Text(Stream[c]))
      /\ ~Contains(next, NewLine) => next = Text(SubSeq(Stream[c], 1, recvd[c] + n))
  BY RecvFacts DEF Recv
<1>3. \A d \in Conn : /\ data'[d] = IF d = c THEN next ELSE data[d]
                      /\ recvd'[d] = IF d = c THEN recvd[c] + n ELSE recvd[d]
  BY <1>1 DEF TypeOK
<1>. HIDE DEF next
<1>4. wpc[c] = "recv" /\ \/ ~Contains(data'[c], NewLine) /\ wpc' = wpc
                         \/ /\ Contains(data'[c], NewLine)
                            /\ \E to \in {"open", "lock"} : wpc' = [wpc EXCEPT ![c] = to]
  BY DEF Recv, At, Goto
<1>5. ASSUME NEW d \in Conn
      PROVE  /\ Received(d)' => data'[d] = UpToNewLine(Text(Stream[d]))
             /\ ~Received(d)' => data'[d] = Text(SubSeq(Stream[d], 1, recvd'[d]))
             /\ wpc'[d] \in {"lock", "open", "append", "reply"} => Received(d)'
             /\ wpc'[d] \in {"none", "recv"} => ~Received(d)'
  <2>1. CASE d = c
    BY <1>2, <1>3, <1>4, <2>1 DEF Received, TypeOK
  <2>2. CASE d # c
    <3>1. wpc'[d] = wpc[d] /\ data'[d] = data[d] /\ recvd'[d] = recvd[d]
      BY <1>3, <1>4, <2>2 DEF TypeOK
    <3>. QED
      BY <3>1, Zenon DEF Received, Framed, CommandsFramed
  <2>. QED
    BY <2>1, <2>2
<1>. QED
  BY <1>5 DEF Framed, CommandsFramed

(* Commands stay framed in every step. *)
LEMMA FramedStep ==
  ASSUME DataInv, DataStep
  PROVE  Framed'
<1>1. wpc \in [Conn -> Places]
  BY DEF DataInv, TypeOK
<1>2. ASSUME NEW c \in Conn, Open(c) PROVE Framed'
  BY <1>1, <1>2, FramedQuiet DEF DataInv, Open, At
<1>3. ASSUME NEW c \in Conn, AppendLine(c) \/ SeekDevice(c) PROVE Framed'
  BY <1>1, <1>3, FramedQuiet DEF DataInv, LineAppended, AppendLine, SeekDevice, At
<1>4. ASSUME NEW c \in Conn, ReadLine(c) PROVE Framed'
  <2>1. PlaceStep
    BY <1>4 DEF ReadLine, At, PlaceStep, Moves
  <2>. QED
    BY <1>1, <1>4, <2>1, FramedQuiet DEF DataInv, ReadLine
<1>5. ASSUME NEW c \in Conn, WritePiece(c) PROVE Framed'
  BY <1>1, <1>5, FramedQuiet DEF DataInv, WritePiece, PlaceStep
<1>6. CASE TimerAppend
  BY <1>1, <1>6, FramedQuiet DEF DataInv, TimerAppend, PlaceStep, locals
<1>7. CASE QuietData
  BY <1>1, <1>7, FramedQuiet DEF DataInv, QuietData, locals
<1>. QED
  BY <1>2, <1>3, <1>4, <1>5, <1>6, <1>7, FramedRecv, StepKinds

(* The device stays the only file, and within its size. *)
LEMMA OneStoreStep ==
  ASSUME DataInv, DataStep
  PROVE  OneStore'
<1>. SUFFICES ASSUME UseDevice
              PROVE  /\ named' = 0 /\ tpc' = "none" /\ Len(stores'[0]) <= MaxOps
                     /\ \A c \in Conn : inode'[c] = 0
  BY DEF OneStore
<1>. USE DEF DataInv
<1>1. /\ named = 0 /\ tpc = "none" /\ Len(stores[0]) <= MaxOps
      /\ \A c \in Conn : inode[c] = 0
  BY DEF OneStore
<1>2. named' = 0 /\ tpc' = "none"
  BY <1>1, StepKinds
<1>3. ASSUME NEW c \in Conn, AppendLine(c)
      PROVE  Len(stores'[0]) <= MaxOps /\ \A d \in Conn : inode'[d] = 0
  <2>1. stores[0] \in Seq(Seq(Byte)) /\ Entry(c) \in Seq(Byte)
    BY EntryType DEF TypeOK
  <2>2. Len(Kept(Append(stores[0], Entry(c)))) <= MaxOps
    BY <1>1, <2>1, KeptFacts
  <2>3. stores'[0] = Kept(Append(stores[0], Entry(c)))
    BY <1>1, <1>3 DEF LineAppended, AppendLine, TypeOK
  <2>. QED
    BY <1>1, <1>3, <2>2, <2>3 DEF AppendLine
<1>4. ASSUME NEW c \in Conn, Open(c)
      PROVE  Len(stores'[0]) <= MaxOps /\ \A d \in Conn : inode'[d] = 0
  <2>1. inode' = [inode EXCEPT ![c] = 0] /\ stores' = stores
    BY <1>1, <1>4 DEF Open
  <2>2. inode \in [Conn -> {0, 1}]
    BY DEF TypeOK
  <2>. QED
    BY <1>1, <2>1, <2>2
<1>5. ASSUME NEW c \in Conn, Recv(c) \/ WritePiece(c) \/ SeekDevice(c) \/ ReadLine(c)
      PROVE  Len(stores'[0]) <= MaxOps /\ \A d \in Conn : inode'[d] = 0
  BY <1>1, <1>5 DEF Recv, WritePiece, SeekDevice, ReadLine
<1>6. ~TimerAppend
  BY <1>1 DEF TimerAppend
<1>7. ASSUME QuietData
      PROVE  Len(stores'[0]) <= MaxOps /\ \A d \in Conn : inode'[d] = 0
  <2>1. inode' = inode /\ stores' = stores
    BY <1>7 DEF QuietData, locals
  <2>. QED
    BY <1>1, <2>1
<1>8. Len(stores'[0]) <= MaxOps /\ \A d \in Conn : inode'[d] = 0
  BY <1>3, <1>4, <1>5, <1>6, <1>7, StepKinds
<1>. QED
  BY <1>2, <1>8

(* A file gets every byte at once. *)
LEMMA PendingStep ==
  ASSUME DataInv, DataStep
  PROVE  PendingInDevice'
<1>. SUFFICES ASSUME ~UseDevice PROVE pending' = << >>
  BY DEF PendingInDevice
<1>1. pending = << >>
  BY DEF DataInv, PendingInDevice
<1>2. ASSUME NEW c \in Conn,
             \/ Recv(c) \/ Open(c) \/ WritePiece(c)
             \/ AppendLine(c) \/ SeekDevice(c) \/ ReadLine(c)
      PROVE  pending' = << >>
  BY <1>1, <1>2 DEF Recv, Open, WritePiece, LineAppended, AppendLine, SeekDevice, ReadLine
<1>3. CASE TimerAppend \/ QuietData
  BY <1>1, <1>3 DEF TimerAppend, QuietData
<1>. QED
  BY <1>2, <1>3, StepKinds

(* The invariant of the data is inductive. *)
LEMMA DataNext == DataInv /\ DataStep => DataInv'
<1>. SUFFICES ASSUME DataInv, DataStep PROVE DataInv'
  OBVIOUS
<1>. QED
  BY TypesStep, SentStep, FramedStep, OneStoreStep, PendingStep DEF DataInv

(* What v holds is u and more bytes behind it. *)
Prolongs(u, v) == \E d \in Seq(Byte) : v = u \o d

(* command is a part of content. *)
Holds(content, command) ==
  \E i \in 0 .. Len(content) - Len(command) :
    SubSeq(content, i + 1, i + Len(command)) = command

(* What was there before the end is still there. *)
LEMMA ProlongsFacts ==
  ASSUME NEW u \in Seq(Byte), NEW v, Prolongs(u, v)
  PROVE  /\ v \in Seq(Byte) /\ Len(u) \in Nat /\ Len(v) \in Nat /\ Len(u) <= Len(v)
         /\ \A m \in 1 .. Len(u) + 1 : \A n \in m - 1 .. Len(u) :
              SubSeq(v, m, n) = SubSeq(u, m, n)
<1>1. PICK d \in Seq(Byte) : v = u \o d
  BY DEF Prolongs
<1>2. v \in Seq(Byte) /\ Len(v) = Len(u) + Len(d)
  BY <1>1, ConcatProperties
<1>3. Len(u) \in Nat /\ Len(d) \in Nat
  BY LenProperties
<1>4. ASSUME NEW m \in 1 .. Len(u) + 1, NEW n \in m - 1 .. Len(u)
      PROVE  SubSeq(u \o d, m, n) = SubSeq(u, m, n)
  BY SubSeqOfConcat1
<1>. QED
  BY <1>1, <1>2, <1>3, <1>4

(* A command stays where it is when the content grows. *)
LEMMA HoldsFacts ==
  ASSUME NEW u \in Seq(Byte), NEW v, Prolongs(u, v), NEW d \in Seq(Byte), Holds(u, d)
  PROVE  Holds(v, d)
<1>1. PICK i \in 0 .. Len(u) - Len(d) : SubSeq(u, i + 1, i + Len(d)) = d
  BY DEF Holds
<1>2. /\ Len(u) \in Nat /\ Len(v) \in Nat /\ Len(u) <= Len(v) /\ Len(d) \in Nat
      /\ \A m \in 1 .. Len(u) + 1 : \A n \in m - 1 .. Len(u) :
           SubSeq(v, m, n) = SubSeq(u, m, n)
  BY ProlongsFacts, LenProperties
<1>3. i + 1 \in 1 .. Len(u) + 1 /\ i + Len(d) \in (i + 1) - 1 .. Len(u)
      /\ i \in 0 .. Len(v) - Len(d)
  BY <1>2
<1>. DEFINE m == i + 1
            n == i + Len(d)
<1>. HIDE DEF m, n
<1>4. SubSeq(v, m, n) = SubSeq(u, m, n)
  BY <1>2, <1>3 DEF m, n
<1>. QED
  BY <1>1, <1>3, <1>4 DEF Holds, m, n

(* A command just appended is there. *)
LEMMA HoldsLast ==
  ASSUME NEW r \in Seq(Byte), NEW d \in Seq(Byte)
  PROVE  Holds(r \o d, d)
<1>1. Len(r) \in Nat /\ Len(d) \in Nat /\ Len(r \o d) = Len(r) + Len(d)
  BY LenProperties, ConcatProperties
<1>. DEFINE m == Len(r) + 1
            n == Len(r) + Len(d)
<1>2. m \in Len(r) + 1 .. Len(r) + Len(d) + 1 /\ n \in m - 1 .. Len(r) + Len(d)
      /\ m - Len(r) = 1 /\ n - Len(r) = Len(d)
  BY <1>1
<1>. HIDE DEF m, n
<1>3. SubSeq(r \o d, m, n) = SubSeq(d, m - Len(r), n - Len(r))
  BY <1>2, SubSeqOfConcat2
<1>4. SubSeq(d, 1, Len(d)) = d
  BY SubSeqFull
<1>5. SubSeq(r \o d, m, n) = d
  BY <1>2, <1>3, <1>4
<1>6. SubSeq(r \o d, Len(r) + 1, Len(r) + Len(d)) = d
  BY <1>5, Zenon DEF m, n
<1>7. Len(r) \in 0 .. Len(r \o d) - Len(d)
  BY <1>1
<1>. QED
  BY <1>6, <1>7, Zenon DEF Holds

-----------------------------------------------------------------------------
(* Of a command all but rest has been written, and it is the last thing in *)
(* held, unless others wrote between its pieces.                           *)
Part(held, mix, command, rest) ==
  \E w \in Seq(Byte) :
    command = w \o rest /\ (mix \/ \E r \in Seq(Byte) : held = r \o w)

(* Nothing has been written of it. *)
LEMMA PartAnew ==
  ASSUME NEW held \in Seq(Byte), NEW mix, NEW command \in Seq(Byte)
  PROVE  Part(held, mix, command, command)
<1>1. /\ << >> \in Seq(Byte) /\ command = << >> \o command /\ held = held \o << >>
  BY EmptySeq, ConcatEmptySeq
<1>. QED
  BY <1>1, Zenon DEF Part

(* Another piece is. *)
LEMMA PartMore ==
  ASSUME NEW held \in Seq(Byte), NEW mix, NEW command,
         NEW piece \in Seq(Byte), NEW rest \in Seq(Byte),
         Part(held, mix, command, piece \o rest)
  PROVE  Part(held \o piece, mix, command, rest)
<1>1. PICK w \in Seq(Byte) :
        command = w \o (piece \o rest) /\ (mix \/ \E r \in Seq(Byte) : held = r \o w)
  BY Zenon DEF Part
<1>2. w \o piece \in Seq(Byte) /\ command = (w \o piece) \o rest
  <2>1. (w \o piece) \o rest = w \o (piece \o rest)
    BY ConcatAssociative
  <2>. QED
    BY <1>1, <2>1, ConcatProperties
<1>3. ASSUME NEW r \in Seq(Byte), held = r \o w
      PROVE  held \o piece = r \o (w \o piece)
  <2>1. (r \o w) \o piece = r \o (w \o piece)
    BY ConcatAssociative
  <2>. QED
    BY <1>3, <2>1
<1>4. mix \/ \E r \in Seq(Byte) : held \o piece = r \o (w \o piece)
  BY <1>1, <1>3, Zenon
<1>. QED
  BY <1>2, <1>4, Zenon DEF Part

(* Another has written. *)
LEMMA PartMixed ==
  ASSUME NEW held, NEW mix, NEW other, NEW command, NEW rest, Part(held, mix, command, rest)
  PROVE  Part(other, TRUE, command, rest)
BY Zenon DEF Part

(* With the rest the whole command is there. *)
LEMMA PartWhole ==
  ASSUME NEW held, NEW command, NEW rest \in Seq(Byte), Part(held, FALSE, command, rest)
  PROVE  \E r \in Seq(Byte) : held \o rest = r \o command
<1>1. PICK w \in Seq(Byte), r \in Seq(Byte) : command = w \o rest /\ held = r \o w
  BY Zenon DEF Part
<1>2. (r \o w) \o rest = r \o (w \o rest)
  BY ConcatAssociative
<1>. QED
  BY <1>1, <1>2, Zenon

(* What is left is no longer than the command. *)
LEMMA PartLength ==
  ASSUME NEW held, NEW mix, NEW command, NEW rest \in Seq(Byte), Part(held, mix, command, rest)
  PROVE  Len(rest) <= Len(command)
<1>1. PICK w \in Seq(Byte) : command = w \o rest
  BY Zenon DEF Part
<1>2. Len(command) = Len(w) + Len(rest) /\ Len(w) \in Nat /\ Len(rest) \in Nat
  BY <1>1, ConcatProperties, LenProperties
<1>. QED
  BY <1>2

(* Where the pieces of a command go. *)
Base(c) == IF UseDevice THEN pending ELSE Content(c)

Begun(c) ==
  wpc[c] = "append" => /\ IsSeek(data[c]) => unwritten[c] = data[c]
                       /\ Part(Base(c), mixed[c], data[c], unwritten[c])

BegunInv == \A c \in Conn : Begun(c)

(* What a file holds, here and in the next state. *)
LEMMA FileType ==
  ASSUME NEW files \in [{0, 1} -> Seq(Seq(Byte))], NEW i \in {0, 1}
  PROVE  FlattenSeq(files[i]) \in Seq(Byte)
<1>1. files[i] \in Seq(Seq(Byte))
  OBVIOUS
<1>. DEFINE file == files[i]
<1>2. file \in Seq(Seq(Byte))
  BY <1>1
<1>. HIDE DEF file
<1>3. FlattenSeq(file) \in Seq(Byte)
  BY <1>2, FlattenType
<1>. QED
  BY <1>3 DEF file

LEMMA BaseType ==
  ASSUME NEW c \in Conn
  PROVE  /\ TypeOK => Base(c) \in Seq(Byte)
         /\ TypeOK' => Base(c)' \in Seq(Byte)
<1>1. ASSUME TypeOK PROVE Base(c) \in Seq(Byte)
  <2>1. /\ pending \in Seq(Byte) /\ inode[c] \in {0, 1}
        /\ stores \in [{0, 1} -> Seq(Seq(Byte))]
    BY <1>1 DEF TypeOK
  <2>2. Content(c) \in Seq(Byte)
    BY <2>1, FileType, Zenon DEF Content
  <2>. QED
    BY <2>1, <2>2 DEF Base
<1>2. ASSUME TypeOK' PROVE Base(c)' \in Seq(Byte)
  <2>1. /\ pending' \in Seq(Byte) /\ inode'[c] \in {0, 1}
        /\ stores' \in [{0, 1} -> Seq(Seq(Byte))]
    BY <1>2 DEF TypeOK
  <2>2. Content(c)' \in Seq(Byte)
    BY <2>1, FileType, Zenon DEF Content
  <2>. QED
    BY <2>1, <2>2 DEF Base
<1>. QED
  BY <1>1, <1>2

(* The thread of c goes on with its command, if it had one. *)
SameCommand(c) ==
  wpc'[c] = "append" => /\ wpc[c] = "append"
                        /\ data'[c] = data[c] /\ unwritten'[c] = unwritten[c]

(* Nothing is written. *)
LEMMA BegunKept ==
  ASSUME NEW c \in Conn, Begun(c), SameCommand(c),
         wpc[c] = "append" => Base(c)' = Base(c) /\ mixed'[c] = mixed[c]
  PROVE  Begun(c)'
<1>. SUFFICES ASSUME wpc'[c] = "append"
              PROVE  /\ IsSeek(data[c])' => unwritten'[c] = data'[c]
                     /\ Part(Base(c)', mixed'[c], data'[c], unwritten'[c])
  BY Zenon DEF Begun, Part
<1>1. /\ wpc[c] = "append" /\ data'[c] = data[c] /\ unwritten'[c] = unwritten[c]
      /\ Base(c)' = Base(c) /\ mixed'[c] = mixed[c]
  BY DEF SameCommand
<1>2. IsSeek(data[c])' <=> IsSeek(data[c])
  BY <1>1 DEF IsSeek, Contains
<1>. QED
  BY <1>1, <1>2, Zenon DEF Begun

(* Another thread writes. *)
LEMMA BegunOther ==
  ASSUME TypeOK, TypeOK', NEW c \in Conn, Begun(c), SameCommand(c),
         NEW writer, writer # c, mixed' = Mixed(writer)
  PROVE  Begun(c)'
<1>. SUFFICES ASSUME wpc'[c] = "append"
              PROVE  /\ IsSeek(data[c])' => unwritten'[c] = data'[c]
                     /\ Part(Base(c)', mixed'[c], data'[c], unwritten'[c])
  BY Zenon DEF Begun, Part
<1>1. wpc[c] = "append" /\ data'[c] = data[c] /\ unwritten'[c] = unwritten[c]
  BY DEF SameCommand
<1>2. IsSeek(data[c])' => unwritten'[c] = data'[c]
  <2>1. IsSeek(data[c])' <=> IsSeek(data[c])
    BY <1>1 DEF IsSeek, Contains
  <2>. QED
    BY <1>1, <2>1 DEF Begun
<1>3. CASE unwritten[c] = data[c]
  <2>1. Base(c)' \in Seq(Byte) /\ data'[c] \in Seq(Byte)
    BY BaseType DEF TypeOK
  <2>2. Part(Base(c)', mixed'[c], data'[c], data'[c])
    BY <2>1, PartAnew
  <2>. QED
    BY <1>1, <1>2, <1>3, <2>2
<1>4. CASE unwritten[c] # data[c]
  <2>1. mixed'[c] = TRUE
    BY <1>1, <1>4 DEF Mixed
  <2>2. Part(Base(c), mixed[c], data[c], unwritten[c])
    BY <1>1 DEF Begun
  <2>3. Part(Base(c)', TRUE, data[c], unwritten[c])
    BY <2>2, PartMixed
  <2>. QED
    BY <1>1, <1>2, <2>1, <2>3
<1>. QED
  BY <1>3, <1>4

(* The thread itself writes a piece. *)
LEMMA BegunPiece ==
  ASSUME TypeOK, NEW c \in Conn, Begun(c), WritePiece(c)
  PROVE  Begun(c)'
<1>1. PICK piece \in Seq(Byte), rest \in Seq(Byte) :
        /\ unwritten[c] = piece \o rest
        /\ unwritten' = [unwritten EXCEPT ![c] = rest]
        /\ UseDevice => pending' = pending \o piece /\ stores' = stores
        /\ ~UseDevice => /\ stores' = [stores EXCEPT ![inode[c]] =
                                         Append(stores[inode[c]], piece)]
                         /\ pending' = pending
  BY PieceFacts
<1>2. /\ wpc[c] = "append" /\ data' = data /\ inode' = inode /\ ~IsSeek(data[c])
      /\ mixed'[c] = mixed[c] /\ unwritten'[c] = rest
  BY <1>1 DEF WritePiece, At, Mixed, TypeOK
<1>3. Base(c)' = Base(c) \o piece
  <2>1. CASE UseDevice
    BY <1>1, <2>1 DEF Base
  <2>2. CASE ~UseDevice
    <3>. DEFINE st == stores[inode[c]]
    <3>1. inode[c] \in {0, 1} /\ stores \in [{0, 1} -> Seq(Seq(Byte))]
      BY DEF TypeOK
    <3>2. stores'[inode'[c]] = Append(st, piece) /\ st \in Seq(Seq(Byte))
      BY <1>1, <1>2, <2>2, <3>1
    <3>3. Content(c)' = FlattenSeq(Append(st, piece)) /\ Content(c) = FlattenSeq(st)
      BY <3>2, Zenon DEF Content
    <3>. HIDE DEF st
    <3>4. FlattenSeq(Append(st, piece)) = FlattenSeq(st) \o piece
      BY <3>2, FlattenAppend
    <3>. QED
      BY <2>2, <3>3, <3>4, Zenon DEF Base
  <2>. QED
    BY <2>1, <2>2
<1>4. Part(Base(c), mixed[c], data[c], piece \o rest) /\ Base(c) \in Seq(Byte)
  BY <1>1, <1>2, BaseType DEF Begun
<1>5. Part(Base(c) \o piece, mixed[c], data[c], rest)
  BY <1>4, PartMore
<1>6. ~(IsSeek(data[c])')
  BY <1>2 DEF IsSeek, Contains
<1>. QED
  BY <1>2, <1>3, <1>5, <1>6, Zenon DEF Begun

LEMMA BegunInit == Init => BegunInv
BY DEF Init, BegunInv, Begun

(* What is written of a command stays the last thing there. *)
LEMMA BegunStep ==
  ASSUME DataInv, DataStep, BegunInv
  PROVE  BegunInv'
<1>. USE DEF DataInv
<1>0. TypeOK'
  BY TypesStep
<1>1. ASSUME NEW e \in Conn, Recv(e), NEW c \in Conn PROVE Begun(c)'
  <2>1. wpc[e] = "recv" /\ UNCHANGED <<inode, unwritten, stores, pending, mixed>>
    BY <1>1 DEF Recv, At
  <2>2. c # e => data'[c] = data[c]
    <3>1. \E text : data' = [data EXCEPT ![e] = text]
      BY <1>1, Zenon DEF Recv
    <3>. QED
      BY <3>1 DEF TypeOK
  <2>3. /\ c = e => wpc'[c] # "append"
        /\ c # e => wpc'[c] = wpc[c]
    <3>1. wpc' = wpc \/ Goto(e, "open") \/ Goto(e, "lock")
      BY <1>1 DEF Recv
    <3>. QED
      BY <2>1, <3>1 DEF Goto, TypeOK
  <2>4. SameCommand(c) /\ Base(c)' = Base(c)
    BY <2>1, <2>2, <2>3 DEF SameCommand, Base, Content
  <2>. QED
    BY <2>1, <2>4, BegunKept DEF BegunInv
<1>2. ASSUME NEW e \in Conn, Open(e), NEW c \in Conn PROVE Begun(c)'
  <2>1. /\ UNCHANGED <<data, pending, stores, mixed>>
        /\ inode' = [inode EXCEPT ![e] = named] /\ unwritten' = [unwritten EXCEPT ![e] = data[e]]
        /\ wpc' = [wpc EXCEPT ![e] = "append"]
    BY <1>2 DEF Open, Goto
  <2>2. CASE c # e
    <3>1. SameCommand(c) /\ Base(c)' = Base(c)
      BY <2>1, <2>2 DEF SameCommand, Base, Content, TypeOK
    <3>. QED
      BY <2>1, <3>1, BegunKept DEF BegunInv
  <2>3. CASE c = e
    <3>1. unwritten'[c] = data'[c] /\ data'[c] \in Seq(Byte)
      BY <1>0, <2>1, <2>3 DEF TypeOK
    <3>2. Part(Base(c)', mixed'[c], data'[c], data'[c])
      BY <1>0, <3>1, BaseType, PartAnew
    <3>. QED
      BY <3>1, <3>2, Zenon DEF Begun
  <2>. QED
    BY <2>2, <2>3
<1>3. ASSUME NEW e \in Conn, WritePiece(e), NEW c \in Conn PROVE Begun(c)'
  <2>1. CASE c # e
    <3>1. SameCommand(c) /\ mixed' = Mixed(e)
      BY <1>3, <2>1 DEF WritePiece, SameCommand, TypeOK
    <3>. QED
      BY <1>0, <2>1, <3>1, BegunOther DEF BegunInv
  <2>2. CASE c = e
    BY <1>3, <2>2, BegunPiece DEF BegunInv
  <2>. QED
    BY <2>1, <2>2
<1>4. ASSUME NEW e \in Conn, AppendLine(e), NEW c \in Conn PROVE Begun(c)'
  <2>1. CASE c # e
    <3>1. SameCommand(c) /\ mixed' = Mixed(e)
      BY <1>4, <2>1 DEF LineAppended, AppendLine, SameCommand, Goto, TypeOK
    <3>. QED
      BY <1>0, <2>1, <3>1, BegunOther DEF BegunInv
  <2>2. CASE c = e
    <3>1. wpc'[c] # "append"
      BY <1>4, <2>2 DEF LineAppended, AppendLine, Goto, TypeOK
    <3>. QED
      BY <3>1 DEF Begun
  <2>. QED
    BY <2>1, <2>2
<1>5. ASSUME NEW e \in Conn, SeekDevice(e) \/ ReadLine(e), NEW c \in Conn PROVE Begun(c)'
  <2>1. UNCHANGED <<data, unwritten, inode, stores, pending, mixed>>
    BY <1>5 DEF SeekDevice, ReadLine
  <2>2. wpc'[c] = "append" => wpc[c] = "append"
    BY <1>5, AppendKept
  <2>3. SameCommand(c) /\ Base(c)' = Base(c)
    BY <2>1, <2>2 DEF SameCommand, Base, Content
  <2>. QED
    BY <2>1, <2>3, BegunKept DEF BegunInv
<1>6. ASSUME TimerAppend, NEW c \in Conn PROVE Begun(c)'
  <2>1. SameCommand(c) /\ mixed' = Mixed(Timer) /\ Timer # c
    BY <1>6, ReceiveAssumption DEF TimerAppend, SameCommand, locals
  <2>. QED
    BY <1>0, <2>1, BegunOther DEF BegunInv
<1>7. ASSUME QuietData, NEW c \in Conn PROVE Begun(c)'
  <2>1. UNCHANGED <<data, unwritten, inode, stores, pending, mixed>>
    BY <1>7 DEF QuietData, locals
  <2>2. wpc'[c] = "append" => wpc[c] = "append"
    BY <1>7, AppendKept
  <2>3. SameCommand(c) /\ Base(c)' = Base(c)
    BY <2>1, <2>2 DEF SameCommand, Base, Content
  <2>. QED
    BY <2>1, <2>3, BegunKept DEF BegunInv
<1>. QED
  BY <1>1, <1>2, <1>3, <1>4, <1>5, <1>6, <1>7, StepKinds DEF BegunInv

-----------------------------------------------------------------------------
(* What a thread has sent back so far. *)
Early == {"none", "recv", "lock", "open", "append"}

SentBack(c) ==
  /\ start[c] <= pos[c] /\ pos[c] <= Len(Content(c))
  /\ reply[c] = SubSeq(Content(c), start[c] + 1, pos[c])

OwnThere(c) ==
  IsSeek(data[c]) \/ (start[c] = 0 /\ (mixed[c] \/ Holds(Content(c), data[c])))

ReplyOf(c) ==
  /\ wpc[c] \in Early => reply[c] = << >>
  /\ wpc[c] = "reply" /\ ~shifted[c] => SentBack(c) /\ OwnThere(c)

ReplyInv == \A c \in Conn : ReplyOf(c)

(* Content only grows behind what is there, unless a command is evicted.   *)
LEMMA StoreGrows ==
  ASSUME TypeOK, OneStore, NEW c \in Conn, inode'[c] = inode[c],
         \/ \E e \in Conn : AppendLine(e) /\ ~Evicts
         \/ \E e \in Conn : WritePiece(e)
         \/ TimerAppend
         \/ stores' = stores
  PROVE  Prolongs(Content(c), Content(c)')
<1>. DEFINE st  == stores[inode[c]]
            stp == stores'[inode[c]]
<1>1. st \in Seq(Seq(Byte)) /\ Content(c) = FlattenSeq(st) /\ Content(c)' = FlattenSeq(stp)
      /\ FlattenSeq(st) \in Seq(Byte) /\ inode[c] \in {0, 1}
  <2>1. st \in Seq(Seq(Byte)) /\ inode[c] \in {0, 1}
    BY DEF TypeOK
  <2>2. FlattenSeq(st) \in Seq(Byte)
    <3>. HIDE DEF st
    <3>. QED
      BY <2>1, FlattenType
  <2>. QED
    BY <2>1, <2>2, Zenon DEF Content
<1>2. CASE stp = st
  <2>1. FlattenSeq(st) \o << >> = FlattenSeq(st) /\ << >> \in Seq(Byte)
    BY <1>1, ConcatEmptySeq, EmptySeq
  <2>. QED
    BY <1>1, <1>2, <2>1, Zenon DEF Prolongs
<1>3. ASSUME NEW d \in Seq(Byte), FlattenSeq(stp) = FlattenSeq(st) \o d
      PROVE  Prolongs(Content(c), Content(c)')
  BY <1>1, <1>3, Zenon DEF Prolongs
<1>4. ASSUME NEW e \in Conn, AppendLine(e), ~Evicts
      PROVE  Prolongs(Content(c), Content(c)')
  <2>. DEFINE d == Entry(e)
  <2>1. stores' = [stores EXCEPT ![inode[e]] = Kept(Append(stores[inode[e]], d))]
        /\ d \in Seq(Byte)
    BY <1>4, EntryType DEF LineAppended, AppendLine
  <2>. HIDE DEF d
  <2>2. CASE inode[e] # inode[c]
    <3>1. stp = st
      BY <1>1, <2>1, <2>2 DEF TypeOK
    <3>. QED
      BY <1>2, <3>1
  <2>3. CASE inode[e] = inode[c]
    <3>1. stp = Kept(Append(st, d))
      BY <1>1, <2>1, <2>3 DEF TypeOK
    <3>2. ~(UseDevice /\ Len(st) >= MaxOps)
      <4>. SUFFICES ASSUME UseDevice PROVE ~(Len(st) >= MaxOps)
        OBVIOUS
      <4>1. inode[c] = 0 /\ Len(stores[0]) <= MaxOps /\ Len(stores[0]) # MaxOps
        BY <1>4 DEF OneStore, Evicts
      <4>2. Len(stores[0]) \in Nat /\ MaxOps \in Nat
        BY ReceiveAssumption, LenProperties DEF TypeOK
      <4>. QED
        BY <4>1, <4>2
    <3>. HIDE DEF st, stp
    <3>3. FlattenSeq(Kept(Append(st, d))) = FlattenSeq(st) \o d
      BY <1>1, <2>1, <3>1, <3>2, KeptFacts
    <3>4. FlattenSeq(stp) = FlattenSeq(st) \o d
      BY <3>1, <3>3, Zenon
    <3>. QED
      BY <1>3, <2>1, <3>4
  <2>. QED
    BY <2>2, <2>3
<1>5. ASSUME NEW i, NEW t \in Seq(Byte), stores' = [stores EXCEPT ![i] = Append(stores[i], t)]
      PROVE  Prolongs(Content(c), Content(c)')
  <2>2. CASE i # inode[c]
    <3>1. stp = st
      BY <1>1, <1>5, <2>2 DEF TypeOK
    <3>. QED
      BY <1>2, <3>1
  <2>3. CASE i = inode[c]
    <3>1. stp = Append(st, t)
      BY <1>1, <1>5, <2>3 DEF TypeOK
    <3>. HIDE DEF st, stp
    <3>2. FlattenSeq(Append(st, t)) = FlattenSeq(st) \o t
      BY <1>1, <1>5, FlattenAppend
    <3>3. FlattenSeq(stp) = FlattenSeq(st) \o t
      BY <3>1, <3>2, Zenon
    <3>. QED
      BY <1>3, <1>5, <3>3
  <2>. QED
    BY <2>2, <2>3
<1>6. CASE TimerAppend
  BY <1>5, <1>6, ReceiveAssumption DEF TimerAppend
<1>7. ASSUME NEW e \in Conn, WritePiece(e) PROVE Prolongs(Content(c), Content(c)')
  <2>1. PICK piece \in Seq(Byte) :
          \/ stores' = stores
          \/ stores' = [stores EXCEPT ![inode[e]] = Append(stores[inode[e]], piece)]
    BY <1>7, PieceFacts
  <2>. QED
    BY <1>2, <1>5, <2>1
<1>. QED
  BY <1>2, <1>4, <1>6, <1>7

(* The thread of c does nothing, or nothing that matters to its reply.     *)
SameReply(c) ==
  /\ start'[c] = start[c] /\ pos'[c] = pos[c] /\ reply'[c] = reply[c]
  /\ data'[c] = data[c] \/ wpc[c] # "reply"
  /\ mixed[c] => mixed'[c]
  /\ wpc'[c] \in Early => wpc[c] \in Early
  /\ wpc'[c] = "reply" => wpc[c] = "reply"

(* The reply stays right when the content grows behind it. *)
LEMMA ReplyKept ==
  ASSUME TypeOK, NEW c \in Conn, ReplyOf(c), SameReply(c),
         wpc[c] = "reply" /\ ~shifted'[c] => ~shifted[c] /\ Prolongs(Content(c), Content(c)')
  PROVE  ReplyOf(c)'
<1>1. wpc'[c] \in Early => reply'[c] = << >>
  BY DEF ReplyOf, SameReply
<1>2. ASSUME wpc'[c] = "reply", ~shifted'[c] PROVE SentBack(c)' /\ OwnThere(c)'
  <2>. DEFINE u == Content(c)
              v == Content(c)'
              m == start[c] + 1
              n == pos[c]
  <2>1. u \in Seq(Byte) /\ Prolongs(u, v) /\ SentBack(c) /\ OwnThere(c)
    BY <1>2, ContentType DEF ReplyOf, SameReply
  <2>2. m \in 1 .. Len(u) + 1 /\ n \in m - 1 .. Len(u)
    <3>1. start[c] \in Nat /\ pos[c] \in Nat /\ Len(u) \in Nat
      BY ContentType DEF TypeOK
    <3>2. start[c] <= pos[c] /\ pos[c] <= Len(u)
      BY <2>1 DEF SentBack
    <3>. HIDE DEF u
    <3>. QED
      BY <3>1, <3>2
  <2>3. data[c] \in Seq(Byte) /\ start[c] <= n /\ n <= Len(u) /\ reply[c] = SubSeq(u, m, n)
    BY <2>1 DEF SentBack, TypeOK
  <2>4. UNCHANGED <<start[c], pos[c], reply[c], data[c]>>
    BY <1>2 DEF SameReply
  <2>. HIDE DEF u, v
  <2>5. Len(u) \in Nat /\ Len(v) \in Nat /\ Len(u) <= Len(v)
    BY <2>1, ProlongsFacts
  <2>6. SubSeq(v, m, n) = SubSeq(u, m, n)
    <3>. HIDE DEF m, n
    <3>. QED
      BY <2>1, <2>2, ProlongsFacts
  <2>7. reply[c] = SubSeq(v, start[c] + 1, pos[c])
    BY <2>3, <2>6, Zenon DEF m, n
  <2>8. pos[c] <= Len(v)
    BY <2>3, <2>5, ContentType DEF TypeOK
  <2>9. SentBack(c)'
    BY <2>3, <2>4, <2>7, <2>8, Zenon DEF SentBack, v, n
  <2>10. Holds(u, data[c]) => Holds(v, data[c])
    BY <2>1, <2>3, HoldsFacts
  <2>11. OwnThere(c)'
    <3>1. IsSeek(data[c])' <=> IsSeek(data[c])
      BY <2>4 DEF IsSeek, Contains
    <3>2. mixed[c] => mixed'[c]
      BY DEF SameReply
    <3>. QED
      BY <2>1, <2>4, <2>10, <3>1, <3>2, Zenon DEF OwnThere, u, v, IsSeek
  <2>. QED
    BY <2>9, <2>11
<1>. QED
  BY <1>1, <1>2 DEF ReplyOf

(* A reply starts where the append or the ioctl left the position.         *)
LEMMA ReplyStarts ==
  ASSUME TypeOK, NEW c \in Conn, ReplyOf(c), At(c, "append"),
         wpc'[c] = "reply", reply'[c] = reply[c], data'[c] = data[c],
         start'[c] = pos'[c], pos'[c] \in Nat,
         Content(c)' \in Seq(Byte), pos'[c] <= Len(Content(c)'), OwnThere(c)'
  PROVE  ReplyOf(c)'
<1>1. reply'[c] = << >>
  BY DEF ReplyOf, At, Early
<1>. DEFINE v == Content(c)'
            m == start'[c] + 1
            n == pos'[c]
<1>2. SubSeq(v, m, n) = << >>
  <2>1. m \in Int /\ n \in Int /\ m > n
    OBVIOUS
  <2>. HIDE DEF v, m, n
  <2>. QED
    BY <2>1, SubSeqEmpty
<1>3. start'[c] <= pos'[c]
  OBVIOUS
<1>4. SentBack(c)'
  BY <1>1, <1>2, <1>3, Zenon DEF SentBack, v, m, n
<1>. QED
  BY <1>4 DEF ReplyOf, Early

(* A round of the reply adds the bytes behind the position. *)
LEMMA RoundFacts ==
  ASSUME TypeOK, NEW c \in Conn, SentBack(c), ReadLine(c)
  PROVE  /\ start[c] <= LineEnd(c) /\ LineEnd(c) <= Len(Content(c))
         /\ reply'[c] = SubSeq(Content(c), start[c] + 1, LineEnd(c))
<1>. DEFINE u == Content(c)
            s == start[c]
            p == pos[c]
            e == LineEnd(c)
<1>1. reply' = [reply EXCEPT ![c] = reply[c] \o SubSeq(u, p + 1, e)] /\ p < Len(u)
  BY DEF ReadLine
<1>2. /\ u \in Seq(Byte) /\ Len(u) \in Nat /\ e \in Nat /\ p < e /\ e <= Len(u)
      /\ s \in Nat /\ p \in Nat
  <2>1. u \in Seq(Byte) /\ Len(u) \in Nat
    BY ContentType
  <2>2. e \in Nat /\ p < e /\ e <= Len(u)
    BY <1>1, LineEndFacts
  <2>. QED
    BY <2>1, <2>2 DEF TypeOK
<1>3. reply'[c] = reply[c] \o SubSeq(u, p + 1, e)
  BY <1>1 DEF TypeOK
<1>4. s <= p /\ reply[c] = SubSeq(u, s + 1, p)
  BY DEF SentBack
<1>. DEFINE m == s + 1
<1>5. m \in 1 .. Len(u) + 1 /\ p \in m - 1 .. Len(u) /\ e \in p .. Len(u) /\ s <= e
  BY <1>2, <1>4
<1>6. SubSeq(u, m, p) \o SubSeq(u, p + 1, e) = SubSeq(u, m, e)
  <2>. HIDE DEF u, m, p, e
  <2>. QED
    BY <1>2, <1>5, ConcatAdjacentSubSeq
<1>7. reply'[c] = SubSeq(u, s + 1, e)
  BY <1>3, <1>4, <1>6, Zenon DEF m
<1>. QED
  BY <1>2, <1>5, <1>7

LEMMA ReplyReadLine ==
  ASSUME TypeOK, NEW c \in Conn, ReplyOf(c), ReadLine(c)
  PROVE  ReplyOf(c)'
<1>1. /\ wpc[c] = "reply" /\ wpc'[c] \in {"reply", "finish"}
      /\ UNCHANGED <<shifted, mixed, data, start, stores, inode>>
      /\ pos'[c] = LineEnd(c)
  BY DEF ReadLine, At, Goto, TypeOK
<1>2. Content(c)' = Content(c) /\ OwnThere(c)' = OwnThere(c)
  BY <1>1 DEF Content, OwnThere, IsSeek, Contains, Holds
<1>3. ASSUME ~shifted[c] PROVE SentBack(c)' /\ OwnThere(c)'
  <2>1. SentBack(c) /\ OwnThere(c)
    BY <1>1, <1>3 DEF ReplyOf
  <2>2. /\ start[c] <= LineEnd(c) /\ LineEnd(c) <= Len(Content(c))
        /\ reply'[c] = SubSeq(Content(c), start[c] + 1, LineEnd(c))
    BY <2>1, RoundFacts
  <2>3. start'[c] = start[c]
    BY <1>1
  <2>. QED
    BY <1>1, <1>2, <2>1, <2>2, <2>3, Zenon DEF SentBack
<1>4. wpc'[c] \notin Early
  BY <1>1 DEF Early
<1>. QED
  BY <1>1, <1>3, <1>4 DEF ReplyOf

(* Only an append to a device that is full moves what others read. *)
LEMMA StoreKept ==
  ASSUME DataInv, NEW c \in Conn, wpc[c] = "reply", ~shifted'[c], inode'[c] = inode[c],
         \/ \E e \in Conn : AppendLine(e)
         \/ (TimerAppend \/ \E e \in Conn : WritePiece(e)) /\ shifted' = shifted
         \/ stores' = stores /\ shifted' = shifted
  PROVE  ~shifted[c] /\ Prolongs(Content(c), Content(c)')
<1>1. ASSUME NEW e \in Conn, AppendLine(e)
      PROVE  ~shifted[c] /\ ~Evicts
  <2>1. shifted'[c] = (shifted[c] \/ (Evicts /\ wpc[c] = "reply"))
    BY <1>1 DEF LineAppended, AppendLine
  <2>. QED
    BY <2>1
<1>. QED
  BY <1>1, StoreGrows DEF DataInv

(* The thread's own append puts its command there, unless others mixed in. *)
LEMMA ReplyAppends ==
  ASSUME DataInv, NEW c \in Conn, ReplyOf(c), Begun(c), AppendLine(c)
  PROVE  ReplyOf(c)'
<1>. USE DEF DataInv
<1>. DEFINE st == stores[inode[c]]
<1>1. /\ At(c, "append") /\ wpc'[c] = "reply" /\ reply'[c] = reply[c] /\ data'[c] = data[c]
      /\ start'[c] = 0 /\ pos'[c] = 0 /\ mixed'[c] = mixed[c]
  BY DEF LineAppended, AppendLine, Mixed, Goto, TypeOK
<1>2. /\ st \in Seq(Seq(Byte)) /\ Entry(c) \in Seq(Byte)
      /\ pending \in Seq(Byte) /\ unwritten[c] \in Seq(Byte) /\ data[c] \in Seq(Byte)
  BY EntryType DEF TypeOK
<1>3. Content(c)' = FlattenSeq(Kept(Append(st, Entry(c)))) /\ Content(c) = FlattenSeq(st)
  <2>1. inode[c] \in {0, 1} /\ inode' = inode
        /\ stores' = [stores EXCEPT ![inode[c]] = Kept(Append(st, Entry(c)))]
    BY DEF LineAppended, AppendLine, TypeOK
  <2>2. stores'[inode'[c]] = Kept(Append(st, Entry(c)))
    BY <2>1 DEF TypeOK
  <2>. QED
    BY <2>2, Zenon DEF Content
<1>4. /\ FlattenSeq(st) \in Seq(Byte)
      /\ \E r \in Seq(Byte) : Content(c)' = r \o Entry(c)
      /\ ~UseDevice => Content(c)' = Content(c) \o Entry(c)
  <2>. HIDE DEF st
  <2>1. FlattenSeq(st) \in Seq(Byte)
    BY <1>2, KeptFacts
  <2>2. /\ \E r \in Seq(Byte) : FlattenSeq(Kept(Append(st, Entry(c)))) = r \o Entry(c)
        /\ ~UseDevice => FlattenSeq(Kept(Append(st, Entry(c)))) = FlattenSeq(st) \o Entry(c)
    BY <1>2, <2>1, KeptFacts
  <2>. QED
    BY <1>3, <2>1, <2>2, Zenon
<1>5. Content(c)' \in Seq(Byte)
  BY <1>2, <1>4, ConcatProperties
<1>6. ASSUME ~mixed[c] PROVE \E r \in Seq(Byte) : Content(c)' = r \o data[c]
  <2>1. PICK r \in Seq(Byte) : Base(c) \o unwritten[c] = r \o data[c]
    <3>1. Base(c) \in Seq(Byte) /\ Part(Base(c), mixed[c], data[c], unwritten[c])
      BY <1>1, BaseType DEF Begun, At
    <3>. DEFINE b == Base(c)
                d == data[c]
                u == unwritten[c]
    <3>2. u \in Seq(Byte) /\ Part(b, FALSE, d, u)
      <4>1. mixed[c] = FALSE
        BY <1>6 DEF TypeOK
      <4>. QED
        BY <1>2, <3>1, <4>1
    <3>. HIDE DEF b, d, u
    <3>3. \E r \in Seq(Byte) : b \o u = r \o d
      BY <3>2, PartWhole, ZenonT(30)
    <3>. QED
      BY <3>3 DEF b, d, u
  <2>2. CASE UseDevice
    <3>1. Entry(c) = r \o data[c]
      BY <2>1, <2>2 DEF Base, Entry
    <3>2. PICK q \in Seq(Byte) : Content(c)' = q \o Entry(c)
      BY <1>4
    <3>. DEFINE d == data[c]
    <3>3. (q \o r) \o d = q \o (r \o d) /\ q \o r \in Seq(Byte)
      <4>1. d \in Seq(Byte)
        BY <1>2
      <4>. HIDE DEF d
      <4>2. q \o r \in Seq(Byte)
        BY ConcatProperties
      <4>3. (q \o r) \o d = q \o (r \o d)
        BY <4>1, ConcatAssociative
      <4>. QED
        BY <4>2, <4>3
    <3>. QED
      BY <3>1, <3>2, <3>3, Zenon
  <2>3. CASE ~UseDevice
    <3>1. Entry(c) = unwritten[c]
      BY <1>2, <2>3, ConcatEmptySeq DEF PendingInDevice, Entry
    <3>2. Content(c)' = r \o data[c]
      BY <1>4, <2>1, <2>3, <3>1, Zenon DEF Base
    <3>. QED
      BY <3>2
  <2>. QED
    BY <2>2, <2>3
<1>7. mixed[c] \/ Holds(Content(c)', data[c])
  <2>1. ASSUME NEW r \in Seq(Byte), Content(c)' = r \o data[c]
        PROVE  Holds(Content(c)', data[c])
    BY <1>2, <2>1, HoldsLast, Zenon
  <2>. QED
    BY <1>6, <2>1, Zenon
<1>8. OwnThere(c)'
  BY <1>1, <1>7, Zenon DEF OwnThere
<1>9. 0 <= Len(Content(c)')
  BY <1>5, LenProperties
<1>. QED
  BY <1>1, <1>5, <1>8, <1>9, ReplyStarts

(* Replies stay right in every step. *)
LEMMA ReplyStep ==
  ASSUME DataInv, DataStep, BegunInv, ReplyInv
  PROVE  ReplyInv'
<1>. USE DEF DataInv
<1>1. ASSUME NEW c \in Conn, SameReply(c), inode'[c] = inode[c] \/ wpc[c] # "reply",
             \/ \E e \in Conn : AppendLine(e)
             \/ (TimerAppend \/ \E e \in Conn : WritePiece(e)) /\ shifted' = shifted
             \/ stores' = stores /\ shifted' = shifted
      PROVE  ReplyOf(c)'
  BY <1>1, StoreKept, ReplyKept DEF ReplyInv
<1>2. ASSUME NEW e \in Conn, Recv(e), NEW c \in Conn PROVE ReplyOf(c)'
  <2>1. SameReply(c)
    <3>1. wpc[e] = "recv" /\ UNCHANGED <<start, pos, reply, mixed>>
      BY <1>2 DEF Recv, At
    <3>2. \E to \in {"recv", "open", "lock"} : wpc' = [wpc EXCEPT ![e] = to]
      <4>1. wpc' = wpc \/ Goto(e, "open") \/ Goto(e, "lock")
        BY <1>2 DEF Recv
      <4>2. wpc' = wpc => wpc' = [wpc EXCEPT ![e] = "recv"]
        BY <3>1 DEF TypeOK
      <4>. QED
        BY <4>1, <4>2 DEF Goto
    <3>3. c # e => data'[c] = data[c]
      <4>1. \E text : data' = [data EXCEPT ![e] = text]
        BY <1>2, Zenon DEF Recv
      <4>. QED
        BY <4>1 DEF TypeOK
    <3>4. wpc'[c] \in Early => wpc[c] \in Early
      BY <3>1, <3>2 DEF TypeOK, Early
    <3>5. wpc'[c] = "reply" => wpc[c] = "reply"
      BY <3>2 DEF TypeOK
    <3>. QED
      BY <3>1, <3>3, <3>4, <3>5 DEF SameReply
  <2>. QED
    BY <1>1, <1>2, <2>1 DEF Recv
<1>3. ASSUME NEW e \in Conn, Open(e), NEW c \in Conn PROVE ReplyOf(c)'
  <2>1. SameReply(c)
    BY <1>3 DEF Open, SameReply, At, Goto, Early, TypeOK
  <2>2. inode'[c] = inode[c] \/ wpc[c] # "reply"
    BY <1>3 DEF Open, At, TypeOK
  <2>. QED
    BY <1>1, <1>3, <2>1, <2>2 DEF Open
<1>4. ASSUME NEW e \in Conn, AppendLine(e), NEW c \in Conn PROVE ReplyOf(c)'
  <2>1. CASE c # e
    <3>1. SameReply(c) /\ inode'[c] = inode[c]
      BY <1>4, <2>1 DEF LineAppended, AppendLine, Mixed, SameReply, Goto, Early, TypeOK
    <3>. QED
      BY <1>1, <1>4, <3>1
  <2>2. CASE c = e
    BY <1>4, <2>2, ReplyAppends DEF ReplyInv, BegunInv
  <2>. QED
    BY <2>1, <2>2
<1>5. ASSUME NEW e \in Conn, WritePiece(e), NEW c \in Conn PROVE ReplyOf(c)'
  <2>1. SameReply(c) /\ inode'[c] = inode[c] /\ shifted' = shifted
    BY <1>5 DEF WritePiece, Mixed, SameReply, TypeOK
  <2>. QED
    BY <1>1, <1>5, <2>1
<1>6. ASSUME NEW e \in Conn, SeekDevice(e), NEW c \in Conn PROVE ReplyOf(c)'
  <2>1. PICK to \in {0} \cup (IF UseDevice THEN 0 .. Len(Content(e)) - 1 ELSE {}) :
          pos' = [pos EXCEPT ![e] = to] /\ start' = [start EXCEPT ![e] = to]
    BY <1>6 DEF SeekDevice
  <2>2. CASE c # e
    <3>1. SameReply(c)
      BY <1>6, <2>1, <2>2 DEF SeekDevice, SameReply, Goto, Early, TypeOK
    <3>. QED
      BY <1>1, <1>6, <3>1 DEF SeekDevice
  <2>3. CASE c = e
    <3>1. /\ At(c, "append") /\ wpc'[c] = "reply" /\ reply'[c] = reply[c] /\ data'[c] = data[c]
          /\ IsSeek(data[c]) /\ data' = data
          /\ start'[c] = to /\ pos'[c] = to /\ Content(c)' = Content(c)
      BY <1>6, <2>1, <2>3 DEF SeekDevice, Goto, TypeOK, Content
    <3>2. Content(c) \in Seq(Byte) /\ to \in Nat /\ to <= Len(Content(c))
      BY <2>3, ContentType
    <3>3. OwnThere(c)'
      BY <3>1 DEF OwnThere, IsSeek
    <3>. QED
      BY <3>1, <3>2, <3>3, ReplyStarts DEF ReplyInv
  <2>. QED
    BY <2>2, <2>3
<1>7. ASSUME NEW e \in Conn, ReadLine(e), NEW c \in Conn PROVE ReplyOf(c)'
  <2>1. CASE c # e
    <3>1. SameReply(c)
      BY <1>7, <2>1 DEF ReadLine, SameReply, Goto, Early, TypeOK
    <3>. QED
      BY <1>1, <1>7, <3>1 DEF ReadLine
  <2>2. CASE c = e
    BY <1>7, <2>2, ReplyReadLine DEF ReplyInv
  <2>. QED
    BY <2>1, <2>2
<1>8. ASSUME TimerAppend, NEW c \in Conn PROVE ReplyOf(c)'
  <2>1. SameReply(c) /\ inode'[c] = inode[c] /\ shifted' = shifted
    BY <1>8 DEF TimerAppend, Mixed, SameReply, locals
  <2>. QED
    BY <1>1, <1>8, <2>1
<1>9. ASSUME QuietData, NEW c \in Conn PROVE ReplyOf(c)'
  <2>1. UNCHANGED <<start, pos, reply, data, inode, stores, shifted, mixed>>
    BY <1>9 DEF QuietData, locals
  <2>2. /\ wpc'[c] \in Early => wpc[c] \in Early
        /\ wpc'[c] = "reply" => wpc[c] = "reply"
    <3>1. wpc \in [Conn -> Places]
      BY DEF TypeOK
    <3>2. CASE UNCHANGED wpc
      BY <3>2
    <3>3. ASSUME NEW e \in Conn, NEW move \in Moves, wpc[e] = move[1], Goto(e, move[2])
          PROVE  /\ wpc'[c] \in Early => wpc[c] \in Early
                 /\ wpc'[c] = "reply" => wpc[c] = "reply"
      <4>1. /\ move[2] # "reply"
            /\ move[2] \in Early => move[1] \in Early
        BY DEF Moves, Early
      <4>. QED
        BY <3>1, <3>3, <4>1 DEF Goto
    <3>. QED
      BY <1>9, <3>2, <3>3 DEF QuietData, PlaceStep
  <2>. QED
    BY <1>1, <2>1, <2>2 DEF SameReply
<1>. QED
  BY <1>2, <1>3, <1>4, <1>5, <1>6, <1>7, <1>8, <1>9, StepKinds DEF ReplyInv

LEMMA ReplyInit == Init => ReplyInv
BY DEF Init, ReplyInv, ReplyOf, Early

(* A reply ends at the end of what there is. *)
LEMMA EndsAtEnd ==
  ASSUME DataInv, DataStep, NEW c \in Conn, ReplyEnds(c)
  PROVE  \/ AtEnd(c) /\ reply' = reply
         \/ ReadLine(c) /\ LineEnd(c) = Len(Content(c))
<1>. USE DEF DataInv
<1>1. wpc[c] = "reply" /\ wpc'[c] = "finish"
  BY DEF ReplyEnds
<1>2. ASSUME NEW e \in Conn, NEW place \in Places, wpc[e] # "reply",
             wpc' = [wpc EXCEPT ![e] = place]
      PROVE  FALSE
  BY <1>1, <1>2 DEF TypeOK
<1>3. ASSUME NEW e \in Conn, ReadEnd(e) PROVE AtEnd(c) /\ reply' = reply
  <2>1. e = c
    BY <1>1, <1>3 DEF ReadEnd, Goto, TypeOK
  <2>. QED
    BY <1>3, <2>1 DEF ReadEnd, locals
<1>4. ASSUME NEW e \in Conn, Recv(e) PROVE FALSE
  BY <1>1, <1>2, <1>4 DEF Recv, At, Goto, Places
<1>5. ASSUME NEW e \in Conn,
             Start(e) \/ RecvFails(e) \/ Lock(e) \/ Open(e) \/ AppendLine(e) \/ SeekDevice(e)
               \/ Finish(e) \/ End(e)
      PROVE  FALSE
  BY <1>2, <1>5 DEF Start, RecvFails, Lock, Open, LineAppended, AppendLine, SeekDevice,
     Finish, End, At, Goto, Places
<1>6. ASSUME NEW e \in Conn, ReadLine(e)
      PROVE  ReadLine(c) /\ LineEnd(c) = Len(Content(c))
  <2>1. wpc' # wpc /\ pos[e] < Len(Content(e))
    BY <1>1, <1>6 DEF ReadLine
  <2>2. Goto(e, "finish") /\ Content(e)[LineEnd(e)] # NewLine
    BY <1>6, <2>1 DEF ReadLine
  <2>3. e = c
    BY <1>1, <2>2 DEF Goto, TypeOK
  <2>. QED
    BY <1>6, <2>1, <2>2, <2>3, LineEndFacts
<1>7. ASSUME NEW e \in Conn,
             \/ Client(e) \/ WritePiece(e)
             \/ OutOfMemory(e) \/ OpenFails(e) \/ AppendFails(e)
             \/ SeekWithoutArguments(e) \/ BrokenPipe(e)
      PROVE  FALSE
  BY <1>1, <1>7 DEF Client, ClientSend, ClientClose, WritePiece, OutOfMemory, OpenFails,
     AppendFails, SeekWithoutArguments, BrokenPipe
<1>8. CASE StartTimer \/ TimerStep
  BY <1>1, <1>8 DEF StartTimer, TimerStep, TimerLock, TimerOpen, TimerAppend, TimerFails
<1>9. CASE StatusOnly \/ Renamed \/ UNCHANGED vars
  BY <1>1, <1>9 DEF StatusOnly, Renamed, vars
<1>. QED
  BY <1>3, <1>4, <1>5, <1>6, <1>7, <1>8, <1>9 DEF DataStep, Next, Worker

(* What has been sent back by then. *)
LEMMA WholeReply ==
  ASSUME DataInv, ReplyInv, DataStep, NEW c \in Conn, ReplyEnds(c)
  PROVE  /\ reply'[c] = SubSeq(Content(c), start[c] + 1, Len(Content(c)))
         /\ ~IsSeek(data[c]) /\ ~mixed[c] => Holds(reply'[c], data[c])
<1>1. wpc[c] = "reply" /\ ~shifted[c]
  BY DEF ReplyEnds
<1>2. SentBack(c) /\ OwnThere(c)
  BY <1>1 DEF ReplyInv, ReplyOf
<1>3. Content(c) \in Seq(Byte) /\ Len(Content(c)) \in Nat /\ pos[c] \in Nat
  BY ContentType DEF DataInv, TypeOK
<1>4. reply'[c] = SubSeq(Content(c), start[c] + 1, Len(Content(c)))
  <2>1. CASE AtEnd(c) /\ reply' = reply
    <3>1. pos[c] = Len(Content(c))
      BY <1>2, <1>3, <2>1 DEF AtEnd, SentBack
    <3>. QED
      BY <1>2, <2>1, <3>1 DEF SentBack
  <2>2. CASE ReadLine(c) /\ LineEnd(c) = Len(Content(c))
    <3>1. reply'[c] = SubSeq(Content(c), start[c] + 1, LineEnd(c))
      BY <1>2, <2>2, RoundFacts DEF DataInv
    <3>. QED
      BY <2>2, <3>1
  <2>. QED
    BY <2>1, <2>2, EndsAtEnd
<1>5. ASSUME ~IsSeek(data[c]), ~mixed[c]
      PROVE  Holds(reply'[c], data[c])
  <2>1. start[c] = 0 /\ Holds(Content(c), data[c])
    BY <1>2, <1>5 DEF OwnThere
  <2>2. SubSeq(Content(c), 1, Len(Content(c))) = Content(c)
    BY <1>3, SubSeqFull
  <2>3. reply'[c] = Content(c)
    BY <1>4, <2>1, <2>2
  <2>. QED
    BY <2>1, <2>3
<1>. QED
  BY <1>4, <1>5

(* The data file's mutex is with the thread that opens the file and        *)
(* appends to it, or with the timer: nobody writes between the pieces of a *)
(* command.                                                                *)
FileMutex ==
  /\ \A c \in Conn : mutex = c <=> ~UseDevice /\ wpc[c] \in {"open", "append"}
  /\ mutex = Timer <=> tpc \in {"open", "append"}
  /\ UseDevice => \A c \in Conn : wpc[c] # "lock"
  /\ ~UseDevice => \A c \in Conn : ~mixed[c]

(* A write to the file is the only one under way. *)
LEMMA MutexMixed ==
  ASSUME TypeOK, FileMutex, NEW writer, writer = Timer \/ writer \in Conn,
         writer = mutex \/ UseDevice, mixed' = Mixed(writer) \/ mixed' = mixed
  PROVE  ~UseDevice => \A c \in Conn : ~mixed'[c]
<1>. SUFFICES ASSUME ~UseDevice, NEW c \in Conn PROVE ~mixed'[c]
  OBVIOUS
<1>1. ~mixed[c] /\ (wpc[c] = "append" => mutex = c) /\ writer = mutex
  BY DEF FileMutex
<1>. QED
  BY <1>1 DEF Mixed

(* Every step keeps it so. *)
LEMMA MutexStep ==
  ASSUME DataInv, DataStep, FileMutex
  PROVE  FileMutex'
<1>. USE ReceiveAssumption DEF DataInv
<1>1. wpc \in [Conn -> Places] /\ (UseDevice => tpc = "none") /\ UseDevice \in BOOLEAN
  BY DEF TypeOK, OneStore
<1>2. ASSUME NEW c \in Conn, NEW from \in Places, NEW to \in Places,
             wpc[c] = from, wpc' = [wpc EXCEPT ![c] = to], UNCHANGED <<mutex, mixed, tpc>>,
             UseDevice \/ (from \in {"open", "append"} <=> to \in {"open", "append"}),
             UseDevice => to # "lock"
      PROVE  FileMutex'
  BY <1>1, <1>2 DEF FileMutex
<1>3. ASSUME UNCHANGED <<wpc, mutex, mixed, tpc>> PROVE FileMutex'
  BY <1>3 DEF FileMutex
<1>4. ASSUME NEW c \in Conn, Recv(c) PROVE FileMutex'
  <2>1. CASE wpc' = wpc
    BY <1>3, <1>4, <2>1 DEF Recv, timer
  <2>2. CASE UseDevice /\ Goto(c, "open")
    BY <1>2, <1>4, <2>2 DEF Recv, At, Goto, timer, Places
  <2>3. CASE ~UseDevice /\ Goto(c, "lock")
    BY <1>2, <1>4, <2>3 DEF Recv, At, Goto, timer, Places
  <2>. QED
    BY <1>4, <2>1, <2>2, <2>3 DEF Recv
<1>5. ASSUME NEW c \in Conn, Lock(c) PROVE FileMutex'
  <2>1. ~UseDevice
    BY <1>5 DEF Lock, At, FileMutex
  <2>. QED
    BY <1>1, <1>5, <2>1 DEF Lock, At, Goto, timer, FileMutex
<1>6. ASSUME NEW c \in Conn, AppendLine(c) \/ SeekDevice(c) PROVE FileMutex'
  <2>1. /\ wpc[c] = "append" /\ wpc' = [wpc EXCEPT ![c] = "reply"]
        /\ mutex' = (IF mutex = c THEN NoOne ELSE mutex) /\ tpc' = tpc
        /\ mixed' = Mixed(c) \/ mixed' = mixed
    BY <1>6 DEF LineAppended, AppendLine, SeekDevice, At, Goto, Unlocked, timer
  <2>2. ~UseDevice => \A d \in Conn : ~mixed'[d]
    <3>1. c = mutex \/ UseDevice
      BY <2>1 DEF FileMutex
    <3>. QED
      BY <2>1, <3>1, MutexMixed
  <2>. QED
    BY <1>1, <2>1, <2>2 DEF FileMutex
<1>7. ASSUME NEW c \in Conn, WritePiece(c) PROVE FileMutex'
  <2>1. wpc[c] = "append" /\ UNCHANGED <<wpc, mutex, tpc>> /\ mixed' = Mixed(c)
    BY <1>7 DEF WritePiece, At, timer
  <2>2. ~UseDevice => \A d \in Conn : ~mixed'[d]
    <3>1. c = mutex \/ UseDevice
      BY <2>1 DEF FileMutex
    <3>. QED
      BY <2>1, <3>1, MutexMixed
  <2>. QED
    BY <2>1, <2>2 DEF FileMutex
<1>8. ASSUME NEW c \in Conn, Open(c) PROVE FileMutex'
  BY <1>2, <1>8 DEF Open, At, Goto, timer, Places
<1>9. ASSUME NEW c \in Conn, Start(c) \/ RecvFails(c) \/ ReadEnd(c) \/ Finish(c) \/ End(c)
      PROVE  FileMutex'
  <2>1. UNCHANGED <<mutex, mixed, tpc>>
    BY <1>9 DEF Start, RecvFails, ReadEnd, Finish, End, timer
  <2>. QED
    BY <1>2, <1>9, <2>1 DEF Start, RecvFails, ReadEnd, Finish, End, At, Goto, Places
<1>10. ASSUME NEW c \in Conn,
             \/ Client(c) \/ BrokenPipe(c) \/ OutOfMemory(c)
             \/ OpenFails(c) \/ AppendFails(c) \/ SeekWithoutArguments(c)
      PROVE  FileMutex'
  BY <1>3, <1>10 DEF Client, ClientSend, ClientClose, BrokenPipe, OutOfMemory,
     OpenFails, AppendFails, SeekWithoutArguments, timer
<1>11. ASSUME NEW c \in Conn, ReadLine(c) PROVE FileMutex'
  <2>1. UNCHANGED <<mutex, mixed, tpc>> /\ wpc[c] = "reply"
    BY <1>11 DEF ReadLine, At, timer
  <2>2. wpc' = wpc \/ wpc' = [wpc EXCEPT ![c] = "finish"]
    BY <1>11 DEF ReadLine, Goto
  <2>. QED
    BY <1>2, <1>3, <2>1, <2>2 DEF Places
<1>12. CASE StartTimer \/ TimerFails
  BY <1>12 DEF StartTimer, TimerFails, FileMutex, timer
<1>13. CASE TimerLock \/ TimerOpen
  BY <1>1, <1>13 DEF TimerLock, TimerOpen, FileMutex
<1>14. CASE TimerAppend
  <2>1. /\ tpc = "append" /\ tpc' = "sleep" /\ mutex' = NoOne /\ wpc' = wpc
        /\ mixed' = Mixed(Timer)
    BY <1>14 DEF TimerAppend
  <2>2. mutex = Timer
    BY <2>1 DEF FileMutex
  <2>3. ~UseDevice => \A d \in Conn : ~mixed'[d]
    BY <2>1, <2>2, MutexMixed
  <2>. QED
    BY <1>1, <2>1, <2>2, <2>3 DEF FileMutex
<1>15. CASE StatusOnly \/ Renamed \/ UNCHANGED vars
  BY <1>3, <1>15 DEF StatusOnly, Renamed, vars, timer
<1>. QED
  BY <1>4, <1>5, <1>6, <1>7, <1>8, <1>9, <1>10, <1>11, <1>12, <1>13, <1>14, <1>15
  DEF DataStep, Next, Worker, TimerStep

LEMMA MutexInit == Init => FileMutex
BY ReceiveAssumption DEF Init, FileMutex

(* All of these hold of the threads. *)
ThreadInv == DataInv /\ BegunInv /\ ReplyInv /\ FileMutex

LEMMA ThreadInit == Init => ThreadInv
BY DataInit, BegunInit, ReplyInit, MutexInit DEF ThreadInv

LEMMA ThreadNext == ThreadInv /\ DataStep => ThreadInv'
BY DataNext, BegunStep, ReplyStep, MutexStep DEF ThreadInv

LEMMA SpecInv == Spec => []ThreadInv
<1>1. ThreadInv /\ [Next]_vars => ThreadInv'
  <2>1. [Next]_vars => DataStep
    BY DEF DataStep
  <2>. QED
    BY <2>1, ThreadNext
<1>. QED
  BY <1>1, ThreadInit, PTL DEF Spec

(* What is so when a reply ends. *)
LEMMA ReplyFacts ==
  ASSUME ThreadInv, DataStep
  PROVE  \A c \in Conn :
           ReplyEnds(c) =>
             /\ reply'[c] = SubSeq(Content(c), start[c] + 1, Len(Content(c)))
             /\ ~IsSeek(data[c]) /\ (UseDevice => ~mixed[c])
                  => \E i \in 0 .. Len(reply'[c]) - Len(data[c]) :
                       SubSeq(reply'[c], i + 1, i + Len(data[c])) = data[c]
<1>. SUFFICES ASSUME NEW c \in Conn, ReplyEnds(c)
              PROVE  /\ reply'[c] = SubSeq(Content(c), start[c] + 1, Len(Content(c)))
                     /\ ~IsSeek(data[c]) /\ (UseDevice => ~mixed[c])
                          => Holds(reply'[c], data[c])
  BY Zenon DEF Holds
<1>1. /\ reply'[c] = SubSeq(Content(c), start[c] + 1, Len(Content(c)))
      /\ ~IsSeek(data[c]) /\ ~mixed[c] => Holds(reply'[c], data[c])
  BY WholeReply DEF ThreadInv
<1>2. ~UseDevice => ~mixed[c]
  BY DEF ThreadInv, FileMutex
<1>. QED
  BY <1>1, <1>2, Zenon

(***************************************************************************)
(* However recv cuts the client's bytes up, what a thread uses is the      *)
(* client's first line (aesdsocket.c:165-191): DataInv says what each      *)
(* partial command is of the bytes received.                               *)
(***************************************************************************)
THEOREM CommandsAreFramed == Spec => []CommandsFramed
<1>1. ThreadInv => CommandsFramed
  BY DEF ThreadInv, DataInv, Framed
<1>. QED
  BY <1>1, SpecInv, PTL

(***************************************************************************)
(* A reply has no gap and nothing twice, although others append while it   *)
(* is read (aesdsocket.c:220-231): ReplyInv says what each partial reply   *)
(* is of the content.                                                      *)
(***************************************************************************)
THEOREM RepliesAreComplete == Spec => ReplyComplete
<1>1. ThreadInv /\ [Next]_vars
        => [\A c \in Conn :
              ReplyEnds(c) => reply'[c] = SubSeq(Content(c), start[c] + 1, Len(Content(c)))]_vars
  BY ReplyFacts, Zenon DEF DataStep
<1>. QED
  BY <1>1, SpecInv, PTL DEF Spec, ReplyComplete

(***************************************************************************)
(* The client's own command is in its reply (aesdsocket.c:199-232),        *)
(* whoever appends behind it and however stdio cuts it into pieces: in the *)
(* data file always, in the device unless another wrote in between.        *)
(***************************************************************************)
THEOREM OwnCommandIsReplied == Spec => OwnCommandReplied
<1>1. ThreadInv /\ [Next]_vars
        => [\A c \in Conn :
              ReplyEnds(c) /\ ~IsSeek(data[c]) /\ (UseDevice => ~mixed[c])
                => \E i \in 0 .. Len(reply'[c]) - Len(data[c]) :
                     SubSeq(reply'[c], i + 1, i + Len(data[c])) = data[c]]_vars
  BY ReplyFacts, Zenon DEF DataStep
<1>. QED
  BY <1>1, SpecInv, PTL DEF Spec, OwnCommandReplied

(***************************************************************************)
(* No two threads append to the data file at once, the timer included, so  *)
(* no command is torn, and no path of receive_data or append_timestamp     *)
(* keeps the mutex (aesdsocket.c:126-129, 205-208).                        *)
(***************************************************************************)
THEOREM FileMutexHeld == Spec => []FileMutex
<1>1. ThreadInv => FileMutex
  BY DEF ThreadInv
<1>. QED
  BY <1>1, SpecInv, PTL

-----------------------------------------------------------------------------
(* The nodes on a list, and that none is on it twice. *)
NodesOf(list) == {list[i] : i \in 1 .. Len(list)}
Once(list)    == \A i, j \in 1 .. Len(list) : list[i] = list[j] => i = j

Listed    == NodesOf(head)
NodesOnce == Once(head)

(* SLIST_INSERT_HEAD adds the node, at the front. *)
LEMMA InsertFacts ==
  ASSUME head \in Seq(Conn), NodesOnce,
         NEW n \in Conn, n \notin Listed, head' = <<n>> \o head
  PROVE  /\ head' \in Seq(Conn) /\ NodesOnce'
         /\ Listed' = Listed \cup {n}
<1>. DEFINE l == Len(head)
<1>1. l \in Nat
  BY LenProperties
<1>2. <<n>> \in Seq(Conn) /\ Len(<<n>>) = 1 /\ <<n>>[1] = n
  OBVIOUS
<1>3. /\ head' \in Seq(Conn)
      /\ Len(head') = 1 + l
      /\ \A i \in 1 .. 1 + l : head'[i] = IF i <= 1 THEN <<n>>[i] ELSE head[i - 1]
  BY <1>2, ConcatProperties
<1>4. head'[1] = n /\ \A i \in 2 .. 1 + l : head'[i] = head[i - 1]
  BY <1>1, <1>2, <1>3
<1>5. NodesOnce'
  BY <1>1, <1>3, <1>4 DEF NodesOnce, Once, Listed, NodesOf
<1>6. Listed' \subseteq Listed \cup {n}
  <2>. SUFFICES ASSUME NEW i \in 2 .. 1 + l PROVE head'[i] \in Listed
    BY <1>1, <1>3, <1>4 DEF Listed, NodesOf
  <2>1. i - 1 \in 1 .. l /\ head'[i] = head[i - 1]
    BY <1>1, <1>4
  <2>. QED
    BY <2>1 DEF Listed, NodesOf
<1>7. n \in Listed'
  BY <1>1, <1>3, <1>4 DEF Listed, NodesOf
<1>8. \A i \in 1 .. l : head[i] \in Listed'
  <2>. SUFFICES ASSUME NEW i \in 1 .. l PROVE head[i] \in Listed'
    OBVIOUS
  <2>1. i + 1 \in 2 .. 1 + l /\ head'[i + 1] = head[i]
    BY <1>1, <1>4
  <2>. QED
    BY <1>1, <1>3, <2>1 DEF Listed, NodesOf
<1>. QED
  BY <1>3, <1>5, <1>6, <1>7, <1>8 DEF Listed, NodesOf

(* SLIST_REMOVE_HEAD takes out the first node only. *)
LEMMA RemoveHeadFacts ==
  ASSUME head \in Seq(Conn), NodesOnce, head # << >>, head' = Tail(head)
  PROVE  /\ head' \in Seq(Conn) /\ NodesOnce'
         /\ Listed' = Listed \ {head[1]}
<1>. DEFINE l == Len(head)
<1>1. l \in Nat \ {0}
  BY EmptySeq
<1>2. /\ head' \in Seq(Conn)
      /\ Len(head') = l - 1
      /\ \A i \in 1 .. l - 1 : head'[i] = head[i + 1]
  BY HeadTailProperties
<1>3. NodesOnce'
  BY <1>1, <1>2 DEF NodesOnce, Once
<1>4. Listed' \subseteq Listed \ {head[1]}
  <2>. SUFFICES ASSUME NEW i \in 1 .. l - 1
                PROVE  head'[i] \in Listed /\ head'[i] # head[1]
    BY <1>2 DEF Listed, NodesOf
  <2>1. i + 1 \in 1 .. l /\ i + 1 # 1 /\ 1 \in 1 .. l /\ head'[i] = head[i + 1]
    BY <1>1, <1>2
  <2>. QED
    BY <2>1 DEF Listed, NodesOf, NodesOnce, Once
<1>5. \A i \in 2 .. l : head[i] \in Listed'
  <2>. SUFFICES ASSUME NEW i \in 2 .. l PROVE head[i] \in Listed'
    OBVIOUS
  <2>1. i - 1 \in 1 .. l - 1 /\ head'[i - 1] = head[i]
    BY <1>1, <1>2
  <2>. QED
    BY <1>1, <1>2, <2>1 DEF Listed, NodesOf
<1>6. Listed \subseteq {head[1]} \cup {head[i] : i \in 2 .. l}
  BY <1>1 DEF Listed, NodesOf
<1>. QED
  BY <1>2, <1>3, <1>4, <1>5, <1>6

(* The place of a node on the list is the only one it has. *)
LEMMA PlaceOf ==
  ASSUME NEW list \in Seq(Conn), Once(list), NEW k \in 1 .. Len(list)
  PROVE  /\ {i \in 1 .. Len(list) : list[i] = list[k]} = {k}
         /\ Min({k}) = k
<1>1. {i \in 1 .. Len(list) : list[i] = list[k]} = {k}
  BY DEF Once
<1>2. k \in Nat
  BY LenProperties
<1>. QED
  BY <1>1, <1>2 DEF Min

(* SLIST_NEXT of a node on the list is another one on it, or NULL. *)
LEMMA NextFacts ==
  ASSUME NEW list \in Seq(Conn), Once(list), NEW n \in NodesOf(list)
  PROVE  NextOf(list, n) # n /\ NextOf(list, n) \in NodesOf(list) \cup {NoNode}
<1>1. PICK k \in 1 .. Len(list) : n = list[k]
  BY DEF NodesOf
<1>2. Len(list) \in Nat
  BY LenProperties
<1>3. SelectInSeq(list, LAMBDA m : m = n) = k
  <2>1. {i \in 1 .. Len(list) : list[i] = n} = {k} /\ Min({k}) = k
    BY <1>1, PlaceOf
  <2>. QED
    BY <2>1 DEF SelectInSeq
<1>4. NextOf(list, n) = IF k < Len(list) THEN list[k + 1] ELSE NoNode
  BY <1>3 DEF NextOf
<1>5. CASE k < Len(list)
  <2>1. k + 1 \in 1 .. Len(list) /\ k + 1 # k
    BY <1>2, <1>5
  <2>. QED
    BY <1>1, <1>4, <1>5, <2>1 DEF NodesOf, Once
<1>6. CASE ~(k < Len(list))
  <2>1. n \in Conn
    BY <1>1, ElementOfSeq
  <2>. QED
    BY <1>4, <1>6, <2>1, NodeAssumption
<1>. QED
  BY <1>5, <1>6

(* The nodes of the list are connections. *)
LEMMA ListedFacts ==
  ASSUME head \in Seq(Conn)
  PROVE  /\ Listed \subseteq Conn
         /\ Listed # {} => head # << >>
         /\ head # << >> => head[1] \in Listed
<1>1. Len(head) \in Nat /\ (head # << >> => Len(head) \in Nat \ {0})
  BY EmptySeq, LenProperties
<1>2. \A i \in 1 .. Len(head) : head[i] \in Conn
  BY ElementOfSeq
<1>. QED
  BY <1>1, <1>2 DEF Listed, NodesOf

(* SLIST_REMOVE closes the gap the node leaves. *)
LEMMA UnlinkedFacts ==
  ASSUME head \in Seq(Conn), NodesOnce, NEW n \in Listed, head' = Unlinked(n)
  PROVE  \E k \in 1 .. Len(head) :
           /\ n = head[k]
           /\ head' \in Seq(Conn)
           /\ Len(head') = Len(head) - 1
           /\ \A i \in 1 .. Len(head) - 1 :
                head'[i] = IF i <= k - 1 THEN head[i] ELSE head[i + 1]
<1>. DEFINE l == Len(head)
<1>1. PICK k \in 1 .. l : n = head[k]
  BY DEF Listed, NodesOf
<1>2. l \in Nat
  BY LenProperties
<1>3. SelectInSeq(head, LAMBDA m : m = n) = k
  <2>1. {i \in 1 .. Len(head) : head[i] = n} = {k} /\ Min({k}) = k
    BY <1>1, PlaceOf DEF NodesOnce
  <2>. QED
    BY <2>1 DEF SelectInSeq
<1>4. head' = SubSeq(head, 1, k - 1) \o SubSeq(head, k + 1, l)
  BY <1>1, <1>3 DEF Unlinked, RemoveFirst, RemoveAt
<1>5. \A i \in 1 .. l : head[i] \in Conn
  BY ElementOfSeq
<1>. DEFINE a == SubSeq(head, 1, k - 1)
            b == SubSeq(head, k + 1, l)
<1>6. a \in Seq(Conn) /\ Len(a) = k - 1 /\ \A i \in 1 .. k - 1 : a[i] = head[i]
  <2>1. \A i \in 1 .. k - 1 : head[i] \in Conn
    BY <1>2, <1>5
  <2>2. /\ a \in Seq(Conn)
        /\ Len(a) = IF 1 <= k - 1 THEN k - 1 - 1 + 1 ELSE 0
        /\ \A i \in 1 .. k - 1 - 1 + 1 : a[i] = head[1 + i - 1]
    BY <1>2, <2>1, SubSeqProperties
  <2>. HIDE DEF a
  <2>. QED
    BY <1>2, <2>2
<1>7. b \in Seq(Conn) /\ Len(b) = l - k /\ \A i \in 1 .. l - k : b[i] = head[k + i]
  <2>1. \A i \in k + 1 .. l : head[i] \in Conn
    BY <1>2, <1>5
  <2>2. /\ b \in Seq(Conn)
        /\ Len(b) = IF k + 1 <= l THEN l - (k + 1) + 1 ELSE 0
        /\ \A i \in 1 .. l - (k + 1) + 1 : b[i] = head[k + 1 + i - 1]
    BY <1>2, <2>1, SubSeqProperties
  <2>. HIDE DEF b
  <2>. QED
    BY <1>2, <2>2
<1>8. /\ head' \in Seq(Conn)
      /\ Len(head') = l - 1
      /\ \A i \in 1 .. l - 1 : head'[i] = IF i <= k - 1 THEN head[i] ELSE head[i + 1]
  <2>1. /\ a \o b \in Seq(Conn)
        /\ Len(a \o b) = Len(a) + Len(b)
        /\ \A i \in 1 .. Len(a) + Len(b) :
             (a \o b)[i] = IF i <= Len(a) THEN a[i] ELSE b[i - Len(a)]
    BY <1>6, <1>7, ConcatProperties
  <2>. HIDE DEF a, b
  <2>2. (k - 1) + (l - k) = l - 1
    BY <1>2
  <2>3. ASSUME NEW i \in 1 .. l - 1
        PROVE  (a \o b)[i] = IF i <= k - 1 THEN head[i] ELSE head[i + 1]
    <3>1. (a \o b)[i] = IF i <= k - 1 THEN a[i] ELSE b[i - (k - 1)]
      BY <1>6, <1>7, <2>1, <2>2
    <3>2. CASE i <= k - 1
      BY <1>6, <3>1, <3>2
    <3>3. CASE ~(i <= k - 1)
      <4>1. i - (k - 1) \in 1 .. l - k /\ k + (i - (k - 1)) = i + 1
        BY <1>2, <3>3
      <4>. QED
        BY <1>7, <3>1, <3>3, <4>1
    <3>. QED
      BY <3>2, <3>3
  <2>. USE DEF a, b
  <2>. QED
    BY <1>4, <1>6, <1>7, <2>1, <2>2, <2>3
<1>. HIDE DEF a, b
<1>. QED
  BY <1>1, <1>8

(* It takes out the node it is given, wherever it is. *)
LEMMA RemoveFacts ==
  ASSUME head \in Seq(Conn), NodesOnce, NEW n \in Listed, head' = Unlinked(n)
  PROVE  /\ head' \in Seq(Conn) /\ NodesOnce'
         /\ Listed' = Listed \ {n}
<1>. DEFINE l == Len(head)
<1>1. l \in Nat
  BY LenProperties
<1>2. PICK k \in 1 .. l :
        /\ n = head[k]
        /\ head' \in Seq(Conn)
        /\ Len(head') = l - 1
        /\ \A i \in 1 .. l - 1 : head'[i] = IF i <= k - 1 THEN head[i] ELSE head[i + 1]
  BY UnlinkedFacts
<1>3. n = head[k]
  BY <1>2
<1>4. NodesOnce'
  BY <1>1, <1>2 DEF NodesOnce, Once
<1>5. Listed' \subseteq Listed \ {n}
  <2>. SUFFICES ASSUME NEW i \in 1 .. l - 1 PROVE head'[i] \in Listed /\ head'[i] # n
    BY <1>2 DEF Listed, NodesOf
  <2>1. CASE i <= k - 1
    <3>1. i \in 1 .. l /\ i # k /\ head'[i] = head[i]
      BY <1>1, <1>2, <2>1
    <3>. QED
      BY <1>3, <3>1 DEF Listed, NodesOf, NodesOnce, Once
  <2>2. CASE ~(i <= k - 1)
    <3>1. i + 1 \in 1 .. l /\ i + 1 # k /\ head'[i] = head[i + 1]
      BY <1>1, <1>2, <2>2
    <3>. QED
      BY <1>3, <3>1 DEF Listed, NodesOf, NodesOnce, Once
  <2>. QED
    BY <2>1, <2>2
<1>6. \A i \in 1 .. l : i # k => head[i] \in Listed'
  <2>. SUFFICES ASSUME NEW i \in 1 .. l, i # k PROVE head[i] \in Listed'
    OBVIOUS
  <2>1. CASE i < k
    <3>1. i \in 1 .. l - 1 /\ head'[i] = head[i]
      BY <1>1, <1>2, <2>1
    <3>. QED
      BY <1>2, <3>1 DEF Listed, NodesOf
  <2>2. CASE i > k
    <3>1. i - 1 \in 1 .. l - 1 /\ head'[i - 1] = head[i]
      BY <1>1, <1>2, <2>2
    <3>. QED
      BY <1>2, <3>1 DEF Listed, NodesOf
  <2>. QED
    BY <1>1, <2>1, <2>2
<1>7. Listed \ {n} \subseteq Listed'
  BY <1>3, <1>6 DEF Listed, NodesOf
<1>. QED
  BY <1>2, <1>4, <1>5, <1>7
-----------------------------------------------------------------------------
ListTypes ==
  /\ wpc \in [Conn -> Places]
  /\ complete \in [Conn -> BOOLEAN]
  /\ head \in Seq(Conn) /\ NodesOnce
  /\ sock \in [Conn -> {"none", "open", "closed"}]
  /\ joins \in [Conn -> Nat]

(* A thread is complete when it has left its last use of the connection. *)
ThreadFlags == \A c \in Conn : complete[c] <=> wpc[c] \in {"ending", "ended"}

(* A connection that was not accepted is in no use; only the socket of a   *)
(* complete one is closed.                                                 *)
SocketUse ==
  \A c \in Conn :
    /\ sock[c] = "none" => wpc[c] = "none" /\ c \notin Listed /\ joins[c] = 0
    /\ sock[c] = "closed" => complete[c]

(* What main knows of its node at each place, interrupted or not. *)
MainPlace ==
  /\ mpc \in StartPlaces => head = << >>
  /\ mpc \in {"accepted", "insert", "create"} =>
       datap \in Conn /\ sock[datap] = "open" /\ wpc[datap] = "none"
  /\ mpc \in {"accepted", "insert"} => datap \notin Listed /\ joins[datap] = 0
  /\ mpc \in {"test", "close", "closed", "join", "joining", "remove"} => datap \in Conn
  /\ mpc \in {"close", "closed", "join", "joining", "remove"} => complete[datap]
  /\ mpc = "remove" => wpc[datap] = "ended"

(* While main runs, its nodes are on the list. *)
MainList ==
  hpc = "none" =>
    /\ mpc = "first" => head # << >>
    /\ mpc = "create" => datap \in Listed
    /\ mpc \in {"test", "close", "closed", "join", "joining", "remove"} =>
         datap \in Listed /\ np_temp # datap /\ np_temp \in Listed \cup {NoNode}

(* A node on the list was not joined, but for the one being taken out. *)
ListUnjoined ==
  \A c \in Listed :
    joins[c] > 0 => \/ mpc \in {"joining", "remove"} /\ datap = c
                    \/ hpc = "remove_head" /\ c = head[1]
                    \/ status = "crashed"

(* A node on the list has a thread, if it could be created. *)
ListStarted ==
  \A c \in Listed :
    wpc[c] = "none" => c \in orphans \/ (mpc = "create" /\ datap = c)

Returned(c) == \/ wpc[c] \in {"none", "ended"}
               \/ wpc[c] = "ending" /\ InterruptedAt("joining", c)

(* A running thread is on the list, where the handler waits for it. *)
RunningListed ==
  /\ \A c \in Conn : c \in Listed \/ Returned(c)
  /\ hpc = "remove_head" => head # << >> /\ Returned(head[1])
  /\ status = "exited" => head = << >>

IInv == /\ ListTypes /\ ThreadFlags /\ SocketUse
        /\ MainPlace /\ MainList
        /\ ListUnjoined /\ ListStarted /\ JoinsDefined
        /\ RunningListed
(* The initial state. *)
LEMMA InitInv == ServerInit => IInv
<1>. SUFFICES ASSUME ServerInit PROVE IInv
  OBVIOUS
<1>1. head = << >> /\ Listed = {} /\ NodesOnce
  BY DEF ServerInit, Listed, NodesOf, NodesOnce, Once
<1>. QED
  BY <1>1 DEF ServerInit, Init, Places, IInv, ListTypes, ThreadFlags, SocketUse,
     MainPlace, StartPlaces,
              MainList, ListUnjoined, ListStarted, JoinsDefined, RunningListed, Returned

(* accept returns a new connection. *)
LEMMA AcceptStep ==
  ASSUME IInv, NEW c \in Conn, Accept(c)
  PROVE  IInv'
<1>1. head' = head /\ Listed' = Listed /\ (NodesOnce <=> NodesOnce')
  BY DEF Accept, Listed, NodesOnce
<1>2. ListTypes' /\ ThreadFlags' /\ SocketUse' /\ MainList'
  BY <1>1 DEF IInv, ListTypes, Accept, vars, ThreadFlags, SocketUse, MainList
<1>3. ListUnjoined' /\ ListStarted' /\ JoinsDefined' /\ RunningListed'
  BY <1>1 DEF IInv, ListUnjoined, Accept, MainAt, ListStarted, vars, JoinsDefined,
              InterruptedAt, RunningListed, Returned
<1>4. MainPlace'
  BY <1>1 DEF IInv, ListTypes, SocketUse, MainPlace, StartPlaces, Accept, vars
<1>. QED
  BY <1>2, <1>3, <1>4 DEF IInv

(* A step of main's start. *)
LEMMA SetUpStep ==
  ASSUME IInv, SetUp
  PROVE  IInv'
<1>1. /\ mpc \in StartPlaces /\ mpc' \in StartPlaces \cup {"accept"}
      /\ wpc' = wpc /\ complete' = complete /\ status' = status
      /\ hpc' = hpc /\ datap' = datap /\ np_temp' = np_temp
      /\ sock' = sock /\ joins' = joins /\ orphans' = orphans
  BY DEF SetUp, Resolve, Socket, Bind, CreateTimer, Listen, StartUp, StartTimer, MainAt,
         StartPlaces, vars
<1>2. head = << >> /\ head' = head
  BY <1>1 DEF SetUp, Resolve, Socket, Bind, CreateTimer, Listen, IInv, MainPlace
<1>3. Listed' = Listed /\ (NodesOnce <=> NodesOnce')
  BY <1>2 DEF Listed, NodesOnce
<1>4. ListTypes' /\ ThreadFlags' /\ SocketUse' /\ MainPlace'
  BY <1>1, <1>2, <1>3 DEF IInv, ListTypes, ThreadFlags, SocketUse, MainPlace,
     StartPlaces
<1>5. MainList' /\ ListUnjoined' /\ ListStarted' /\ JoinsDefined'
  BY <1>1, <1>2, <1>3 DEF IInv, MainList, ListUnjoined, ListStarted, JoinsDefined,
                          InterruptedAt, StartPlaces
<1>6. RunningListed'
  BY <1>1, <1>2, <1>3 DEF IInv, RunningListed, Returned, InterruptedAt, StartPlaces
<1>. QED
  BY <1>4, <1>5, <1>6 DEF IInv

(* main fails, at its start or in accept. *)
LEMMA FailsStep ==
  ASSUME IInv, Fails \/ ResolveFails
  PROVE  IInv'
<1>1. head' = head /\ Listed' = Listed /\ (NodesOnce <=> NodesOnce')
  BY DEF Fails, ResolveFails, Listed, NodesOnce
<1>2. ListTypes' /\ ThreadFlags' /\ SocketUse' /\ MainPlace'
  BY <1>1 DEF IInv, ListTypes, Fails, ResolveFails, ThreadFlags, SocketUse, MainPlace,
     main
<1>3. MainList' /\ ListUnjoined' /\ ListStarted' /\ JoinsDefined'
  BY <1>1 DEF IInv, MainList, Fails, ResolveFails, MainAt, main, ListUnjoined,
     ListStarted,
              JoinsDefined, InterruptedAt
<1>4. RunningListed'
  BY <1>1 DEF IInv, RunningListed, Returned, InterruptedAt, Fails, ResolveFails, main
<1>. QED
  BY <1>2, <1>3, <1>4 DEF IInv

(* main has logged a connection. *)
LEMMA LoggedStep ==
  ASSUME IInv, Logged
  PROVE  IInv'
<1>1. head' = head /\ Listed' = Listed /\ (NodesOnce <=> NodesOnce')
  BY DEF Logged, Listed, NodesOnce
<1>2. ListTypes' /\ ThreadFlags' /\ SocketUse' /\ MainPlace'
  BY <1>1 DEF IInv, ListTypes, Logged, Logging, vars, ThreadFlags, SocketUse, MainPlace,
              StartPlaces
<1>3. MainList' /\ ListUnjoined' /\ ListStarted' /\ JoinsDefined'
  BY <1>1 DEF IInv, MainList, Logged, Logging, vars, ListUnjoined, ListStarted,
              JoinsDefined, InterruptedAt
<1>4. RunningListed'
  BY <1>1 DEF IInv, RunningListed, Returned, InterruptedAt, Logged, Logging, vars
<1>. QED
  BY <1>2, <1>3, <1>4 DEF IInv

(* main closes a socket. *)
LEMMA CloseStep ==
  ASSUME IInv, Close
  PROVE  IInv'
<1>1. head' = head /\ Listed' = Listed /\ (NodesOnce <=> NodesOnce')
  BY DEF Close, Listed, NodesOnce
<1>2. ListTypes' /\ ThreadFlags' /\ MainPlace' /\ MainList'
  BY <1>1 DEF IInv, ListTypes, Close, vars, ThreadFlags, MainPlace, StartPlaces, MainAt,
     MainList
<1>3. ListUnjoined' /\ ListStarted' /\ JoinsDefined' /\ RunningListed'
  BY <1>1 DEF IInv, ListUnjoined, Close, MainAt, ListStarted, vars, JoinsDefined,
              InterruptedAt, RunningListed, Returned
<1>4. SocketUse'
  BY <1>1 DEF IInv, SocketUse, MainPlace, Close, MainAt, vars
<1>. QED
  BY <1>2, <1>3, <1>4 DEF IInv

(* main calls pthread_join. *)
LEMMA JoinStep ==
  ASSUME IInv, Join
  PROVE  IInv'
<1>1. head' = head /\ Listed' = Listed /\ (NodesOnce <=> NodesOnce')
  BY DEF Join, Listed, NodesOnce
<1>2. ThreadFlags' /\ MainPlace' /\ MainList' /\ ListUnjoined'
  BY <1>1 DEF IInv, ThreadFlags, Join, vars, MainPlace, StartPlaces, MainAt, MainList,
     ListUnjoined
<1>3. ListStarted' /\ RunningListed'
  BY <1>1 DEF IInv, ListStarted, Join, MainAt, vars, RunningListed, Returned,
              InterruptedAt
<1>4. ListTypes'
  BY <1>1 DEF IInv, ListTypes, MainPlace, Join, MainAt, vars
<1>5. SocketUse'
  BY <1>1 DEF IInv, ThreadFlags, SocketUse, MainPlace, Join, MainAt, vars
<1>6. JoinsDefined'
  BY DEF IInv, ListTypes, ThreadFlags, MainPlace, MainList, ListUnjoined, JoinsDefined,
         InterruptedAt, Join, MainAt, vars
<1>. QED
  BY <1>2, <1>3, <1>4, <1>5, <1>6 DEF IInv

(* main's pthread_join returns. *)
LEMMA JoinedStep ==
  ASSUME IInv, Joined
  PROVE  IInv'
<1>1. head' = head /\ Listed' = Listed /\ (NodesOnce <=> NodesOnce')
  BY DEF Joined, Listed, NodesOnce
<1>2. ListTypes' /\ ThreadFlags' /\ SocketUse' /\ MainPlace'
  BY <1>1 DEF IInv, ListTypes, Joined, vars, ThreadFlags, SocketUse, MainPlace,
     StartPlaces, MainAt
<1>3. MainList' /\ ListUnjoined' /\ ListStarted' /\ JoinsDefined'
  BY <1>1 DEF IInv, MainList, Joined, MainAt, ListUnjoined, vars, ListStarted,
              JoinsDefined, InterruptedAt
<1>4. RunningListed'
  BY <1>1 DEF IInv, RunningListed, Returned, InterruptedAt, Joined, vars
<1>. QED
  BY <1>2, <1>3, <1>4 DEF IInv

(* A signal arrives. *)
LEMMA SignalStep ==
  ASSUME IInv, Signal
  PROVE  IInv'
<1>1. head' = head /\ Listed' = Listed /\ (NodesOnce <=> NodesOnce')
  BY DEF Signal, Listed, NodesOnce
<1>2. ListTypes' /\ ThreadFlags' /\ SocketUse' /\ MainPlace'
  BY <1>1 DEF IInv, ListTypes, Signal, vars, ThreadFlags, SocketUse, MainPlace, main
<1>3. MainList' /\ ListUnjoined' /\ ListStarted' /\ JoinsDefined'
  BY <1>1 DEF IInv, MainList, Signal, ListUnjoined, main, ListStarted, vars,
              JoinsDefined, InterruptedAt
<1>4. RunningListed'
  BY <1>1 DEF IInv, RunningListed, Returned, InterruptedAt, Signal, vars
<1>. QED
  BY <1>2, <1>3, <1>4 DEF IInv

(* The handler removes the data file. *)
LEMMA RemoveFileStep ==
  ASSUME IInv, RemoveFile
  PROVE  IInv'
<1>1. head' = head /\ Listed' = Listed /\ (NodesOnce <=> NodesOnce')
  BY DEF RemoveFile, Listed, NodesOnce
<1>2. ListTypes' /\ ThreadFlags' /\ SocketUse' /\ MainPlace'
  BY <1>1 DEF IInv, ListTypes, RemoveFile, ThreadFlags, SocketUse, MainPlace, main
<1>3. MainList' /\ ListUnjoined' /\ ListStarted' /\ JoinsDefined'
  BY <1>1 DEF IInv, MainList, RemoveFile, ListUnjoined, main, ListStarted, JoinsDefined,
              InterruptedAt
<1>4. RunningListed'
  BY <1>1 DEF IInv, RunningListed, Returned, InterruptedAt, RemoveFile, main
<1>. QED
  BY <1>2, <1>3, <1>4 DEF IInv

(* The handler ends the process. *)
LEMMA ExitStep ==
  ASSUME IInv, Exit
  PROVE  IInv'
<1>1. head' = head /\ Listed' = Listed /\ (NodesOnce <=> NodesOnce')
  BY DEF Exit, Listed, NodesOnce
<1>2. ListTypes' /\ ThreadFlags' /\ SocketUse' /\ MainPlace'
  BY <1>1 DEF IInv, ListTypes, Exit, ThreadFlags, SocketUse, MainPlace, main
<1>3. MainList' /\ ListUnjoined' /\ ListStarted' /\ JoinsDefined'
  BY <1>1 DEF IInv, MainList, Exit, ListUnjoined, main, ListStarted, JoinsDefined,
              InterruptedAt
<1>4. RunningListed'
  BY <1>1 DEF IInv, RunningListed, Returned, InterruptedAt, Exit, main
<1>. QED
  BY <1>2, <1>3, <1>4 DEF IInv

(* pthread_create starts the thread of the new node, or fails. *)
LEMMA CreateStep ==
  ASSUME IInv, Create
  PROVE  IInv'
<1>1. head' = head /\ Listed' = Listed /\ (NodesOnce <=> NodesOnce')
  BY DEF Create, Start, Listed, NodesOnce
<1>2. Listed \subseteq Conn /\ (datap \in Listed => head # << >>)
  BY ListedFacts DEF IInv, ListTypes
<1>3. MainPlace' /\ ListUnjoined'
  BY <1>1 DEF IInv, MainPlace, StartPlaces, Create, ListUnjoined, MainAt
<1>4. ListTypes'
  BY <1>1 DEF IInv, ListTypes, Create, Start, Goto, Places, vars
<1>5. ThreadFlags'
  BY DEF IInv, ListTypes, ThreadFlags, Create, Start, At, Goto, vars
<1>6. SocketUse'
  BY <1>1 DEF IInv, ListTypes, SocketUse, MainPlace, Create, MainAt, Start, Goto, vars
<1>7. MainList'
  BY <1>2 DEF IInv, MainList, Create, MainAt
<1>8. ListStarted'
  BY <1>1, <1>2 DEF IInv, ListTypes, ListStarted, Create, Start, Goto, vars
<1>9. JoinsDefined'
  BY DEF IInv, ListTypes, JoinsDefined, InterruptedAt, Create, MainAt, Start, Goto, vars
<1>10. RunningListed'
  BY <1>1 DEF IInv, ListTypes, MainList, RunningListed, Returned, InterruptedAt, Create,
              MainAt, Start, Goto, vars
<1>. QED
  BY <1>3, <1>4, <1>5, <1>6, <1>7, <1>8, <1>9, <1>10 DEF IInv

(* The handler joins the first node's thread. *)
LEMMA HandlerJoinStep ==
  ASSUME IInv, HandlerJoin
  PROVE  IInv'
<1>1. head' = head /\ Listed' = Listed /\ (NodesOnce <=> NodesOnce')
  BY DEF HandlerJoin, Listed, NodesOnce
<1>2. ListTypes' /\ ThreadFlags' /\ MainList' /\ ListUnjoined'
  BY <1>1 DEF IInv, ListTypes, HandlerJoin, vars, ThreadFlags, MainList, ListUnjoined,
              main
<1>3. ListStarted'
  BY <1>1 DEF IInv, ListStarted, HandlerJoin, vars, main
<1>4. SocketUse'
  BY <1>1 DEF IInv, SocketUse, HandlerJoin, Joinable, vars
<1>5. MainPlace'
  BY <1>1 DEF IInv, MainPlace, HandlerJoin, Joinable, vars, main
<1>6. JoinsDefined'
  BY DEF IInv, ListTypes, JoinsDefined, InterruptedAt, HandlerJoin, Undefined, vars,
         main
<1>7. RunningListed'
  BY <1>1 DEF IInv, RunningListed, Returned, InterruptedAt, HandlerJoin, Joinable, vars,
              main
<1>. QED
  BY <1>2, <1>3, <1>4, <1>5, <1>6, <1>7 DEF IInv

(* The handler's join is not defined. *)
LEMMA HandlerJoinUndefinedStep ==
  ASSUME IInv, HandlerJoinUndefined
  PROVE  IInv'
<1>1. head' = head /\ Listed' = Listed /\ (NodesOnce <=> NodesOnce')
  BY DEF HandlerJoinUndefined, Listed, NodesOnce
<1>2. head[1] \in Conn /\ head[1] \in Listed
  BY ListedFacts DEF IInv, ListTypes, HandlerJoinUndefined
<1>3. ListTypes' /\ ThreadFlags' /\ MainList' /\ ListUnjoined'
  BY <1>1 DEF IInv, ListTypes, HandlerJoinUndefined, ThreadFlags, MainList,
              ListUnjoined, main
<1>4. ListStarted'
  BY <1>1 DEF IInv, ListStarted, HandlerJoinUndefined, main
<1>5. SocketUse'
  BY <1>1, <1>2 DEF IInv, SocketUse, HandlerJoinUndefined
<1>6. MainPlace'
  BY <1>1, <1>2 DEF IInv, MainPlace, HandlerJoinUndefined, main
<1>7. JoinsDefined'
  BY <1>2 DEF IInv, ListTypes, ListUnjoined, ListStarted, JoinsDefined, InterruptedAt,
              HandlerJoinUndefined, main
<1>8. RunningListed'
  BY <1>1 DEF IInv, ListTypes, ThreadFlags, MainPlace, ListUnjoined, RunningListed,
              Returned, InterruptedAt, HandlerJoinUndefined, Undefined, main
<1>. QED
  BY <1>3, <1>4, <1>5, <1>6, <1>7, <1>8 DEF IInv

(* The loop starts with the first node. *)
LEMMA FirstStep ==
  ASSUME IInv, First
  PROVE  IInv'
<1>1. head' = head /\ Listed' = Listed /\ (NodesOnce <=> NodesOnce')
  BY DEF First, Listed, NodesOnce
<1>2. /\ head[1] \in Listed /\ head[1] \in Conn
      /\ NextOf(head, head[1]) # head[1]
      /\ NextOf(head, head[1]) \in Listed \cup {NoNode}
  <2>1. head[1] \in Listed /\ head[1] \in Conn
    BY ListedFacts DEF First, MainAt, IInv, ListTypes, MainList
  <2>. QED
    BY <2>1, NextFacts DEF IInv, ListTypes, Listed, NodesOnce
<1>3. ListTypes' /\ ThreadFlags' /\ SocketUse' /\ ListUnjoined'
  BY <1>1 DEF IInv, ListTypes, First, vars, ThreadFlags, SocketUse, ListUnjoined, MainAt
<1>4. ListStarted' /\ JoinsDefined' /\ RunningListed'
  BY <1>1 DEF IInv, ListStarted, First, MainAt, vars, JoinsDefined, InterruptedAt,
              RunningListed, Returned
<1>5. MainPlace'
  BY DEF IInv, ListTypes, MainPlace, StartPlaces, MainList, First, MainAt, Visit
<1>6. MainList'
  BY <1>1, <1>2 DEF IInv, MainList, First, Visit
<1>. QED
  BY <1>3, <1>4, <1>5, <1>6 DEF IInv

(* The loop looks at thread_complete. *)
LEMMA TestStep ==
  ASSUME IInv, Test
  PROVE  IInv'
<1>1. head' = head /\ Listed' = Listed /\ (NodesOnce <=> NodesOnce')
  BY DEF Test, Listed, NodesOnce
<1>2. np_temp # NoNode =>
        /\ np_temp \in Listed /\ np_temp \in Conn
        /\ NextOf(head, np_temp) # np_temp
        /\ NextOf(head, np_temp) \in Listed \cup {NoNode}
  <2>1. np_temp # NoNode => np_temp \in Listed /\ np_temp \in Conn
    BY ListedFacts DEF Test, MainAt, IInv, ListTypes, MainList
  <2>. QED
    BY <2>1, NextFacts DEF IInv, ListTypes, Listed, NodesOnce
<1>3. ListTypes' /\ ThreadFlags' /\ SocketUse' /\ ListUnjoined'
  BY <1>1 DEF IInv, ListTypes, Test, vars, ThreadFlags, SocketUse, ListUnjoined, MainAt
<1>4. ListStarted' /\ JoinsDefined' /\ RunningListed'
  BY <1>1 DEF IInv, ListStarted, Test, MainAt, vars, JoinsDefined, InterruptedAt,
              RunningListed, Returned
<1>5. MainPlace'
  BY <1>2 DEF IInv, MainPlace, StartPlaces, Test, MainAt, Reapable, Visit, vars
<1>6. MainList'
  BY <1>1, <1>2 DEF IInv, MainList, Test, MainAt, Visit
<1>. QED
  BY <1>3, <1>4, <1>5, <1>6 DEF IInv

(* SLIST_INSERT_HEAD. *)
LEMMA InsertStep ==
  ASSUME IInv, Insert
  PROVE  IInv'
<1>1. /\ head' \in Seq(Conn) /\ NodesOnce'
      /\ Listed' = Listed \cup {datap}
  BY InsertFacts DEF Insert, MainAt, IInv, ListTypes, MainPlace
<1>2. ListTypes' /\ ThreadFlags' /\ MainPlace' /\ MainList'
  BY <1>1 DEF IInv, ListTypes, Insert, vars, ThreadFlags, MainPlace, StartPlaces,
     MainAt, MainList
<1>3. ListStarted' /\ JoinsDefined' /\ RunningListed'
  BY <1>1 DEF IInv, ListStarted, Insert, vars, JoinsDefined, InterruptedAt, MainAt,
              RunningListed, Returned
<1>4. SocketUse'
  BY <1>1 DEF IInv, SocketUse, MainPlace, Insert, MainAt, vars
<1>5. ListUnjoined'
  BY <1>1 DEF IInv, MainPlace, ListUnjoined, Insert, MainAt
<1>. QED
  BY <1>2, <1>3, <1>4, <1>5 DEF IInv

(* SLIST_REMOVE_HEAD, in the handler. *)
LEMMA RemoveHeadStep ==
  ASSUME IInv, RemoveHead
  PROVE  IInv'
<1>1. /\ head' \in Seq(Conn) /\ NodesOnce'
      /\ Listed' = Listed \ {head[1]}
  BY RemoveHeadFacts DEF RemoveHead, IInv, ListTypes, RunningListed
<1>2. ListTypes' /\ ThreadFlags' /\ SocketUse' /\ MainPlace'
  BY <1>1 DEF IInv, ListTypes, RemoveHead, vars, ThreadFlags, SocketUse, MainPlace, main
<1>3. MainList' /\ ListUnjoined' /\ ListStarted' /\ JoinsDefined'
  BY <1>1 DEF IInv, MainList, RemoveHead, ListUnjoined, main, ListStarted, vars,
              JoinsDefined, InterruptedAt
<1>4. RunningListed'
  BY <1>1 DEF IInv, RunningListed, Returned, InterruptedAt, RemoveHead, vars, main
<1>. QED
  BY <1>2, <1>3, <1>4 DEF IInv

(* SLIST_REMOVE, and main's next node. *)
LEMMA ReapStep ==
  ASSUME IInv, Reap
  PROVE  IInv'
<1>1. /\ head' \in Seq(Conn) /\ NodesOnce'
      /\ Listed' = Listed \ {datap}
  BY RemoveFacts DEF Reap, MainAt, IInv, ListTypes, MainList
<1>2. np_temp # NoNode =>
        /\ np_temp \in Listed' /\ np_temp \in Conn
        /\ NextOf(head', np_temp) # np_temp
        /\ NextOf(head', np_temp) \in Listed' \cup {NoNode}
  <2>. SUFFICES ASSUME np_temp # NoNode
                PROVE  /\ np_temp \in Listed' /\ np_temp \in Conn
                       /\ NextOf(head', np_temp) # np_temp
                       /\ NextOf(head', np_temp) \in Listed' \cup {NoNode}
    OBVIOUS
  <2>1. np_temp \in NodesOf(head')
    BY <1>1 DEF Reap, MainAt, IInv, MainList, Listed
  <2>2. np_temp \in Conn
    BY <1>1, <2>1, ElementOfSeq DEF NodesOf
  <2>. QED
    BY <1>1, <2>1, <2>2, NextFacts DEF Listed, NodesOnce
<1>3. ListTypes' /\ ThreadFlags' /\ SocketUse' /\ ListUnjoined'
  BY <1>1 DEF IInv, ListTypes, Reap, vars, ThreadFlags, SocketUse, ListUnjoined, MainAt
<1>4. ListStarted' /\ JoinsDefined'
  BY <1>1 DEF IInv, ListStarted, Reap, vars, JoinsDefined, InterruptedAt, MainAt
<1>5. MainPlace'
  BY <1>2 DEF IInv, MainPlace, StartPlaces, Reap, Visit
<1>6. MainList'
  BY <1>2 DEF IInv, MainList, Reap, Visit
<1>7. RunningListed'
  BY <1>1 DEF IInv, MainPlace, RunningListed, Returned, InterruptedAt, Reap, MainAt,
              vars
<1>. QED
  BY <1>3, <1>4, <1>5, <1>6, <1>7 DEF IInv

-----------------------------------------------------------------------------
(* How a step of a thread's own changes what main and the handler look at. *)
LEMMA WorkerFacts ==
  ASSUME ListTypes, ThreadFlags, NEW c \in Conn, Worker(c)
  PROVE  /\ status = "up" /\ status' \in {"up", "failed", "killed", "crashed"}
         /\ wpc[c] \notin {"none", "ended"}
         /\ \/ wpc' = wpc /\ complete' = complete
            \/ \E place \in Places \ {"none", "ending", "ended"} :
                 /\ wpc[c] \notin {"ending", "ended"}
                 /\ wpc' = [wpc EXCEPT ![c] = place] /\ complete' = complete
            \/ /\ wpc[c] = "finish"
               /\ wpc' = [wpc EXCEPT ![c] = "ending"]
               /\ complete' = [complete EXCEPT ![c] = TRUE]
            \/ /\ wpc[c] = "ending"
               /\ wpc' = [wpc EXCEPT ![c] = "ended"] /\ complete' = complete
<1>1. CASE Recv(c) \/ OutOfMemory(c) \/ RecvFails(c)
  BY <1>1 DEF Recv, OutOfMemory, RecvFails, At, Goto, Places
<1>2. CASE Lock(c) \/ Open(c) \/ OpenFails(c)
  BY <1>2 DEF Lock, Open, OpenFails, At, Goto, Places
<1>3. CASE \/ WritePiece(c) \/ AppendLine(c) \/ AppendFails(c)
           \/ SeekDevice(c) \/ SeekWithoutArguments(c)
  BY <1>3 DEF WritePiece, LineAppended, AppendLine, AppendFails, SeekDevice,
     SeekWithoutArguments, At, Goto, Places
<1>4. CASE ReadLine(c) \/ BrokenPipe(c) \/ ReadEnd(c)
  BY <1>4 DEF ReadLine, BrokenPipe, ReadEnd, At, Goto, Places
<1>5. CASE Finish(c)
  BY <1>5 DEF Finish, At, Goto
<1>6. CASE End(c)
  BY <1>6 DEF End, At, Goto
<1>. QED
  BY <1>1, <1>2, <1>3, <1>4, <1>5, <1>6 DEF Worker

(* What a step of a thread leaves to the list. *)
LEMMA ThreadFacts ==
  ASSUME ListTypes, ThreadFlags, Threads
  PROVE  /\ wpc' \in [Conn -> Places] /\ complete' \in [Conn -> BOOLEAN]
         /\ ThreadFlags'
         /\ \A c \in Conn : /\ wpc[c] = "none" <=> wpc'[c] = "none"
                            /\ complete[c] => complete'[c]
                            /\ wpc[c] = "ended" => wpc'[c] = "ended"
         /\ status' = "exited" => status = "exited"
         /\ status = "crashed" => status' = "crashed"
<1>1. CASE TimerStep \/ \E c \in Conn : Client(c)
  <2>1. wpc' = wpc /\ complete' = complete
    BY <1>1 DEF TimerStep, TimerLock, TimerOpen, TimerAppend, TimerFails, Client, ClientSend,
       ClientClose
  <2>2. status' = status \/ (status = "up" /\ status' = "failed")
    BY <1>1 DEF TimerStep, TimerLock, TimerOpen, TimerAppend, TimerFails, Client, ClientSend,
       ClientClose
  <2>. QED
    BY <2>1, <2>2 DEF ListTypes, ThreadFlags
<1>2. CASE \E c \in Conn : Worker(c)
  <2>. PICK c \in Conn : Worker(c)
    BY <1>2
  <2>1. /\ status = "up" /\ status' \in {"up", "failed", "killed", "crashed"}
        /\ wpc[c] \notin {"none", "ended"}
    BY WorkerFacts
  <2>2. CASE wpc' = wpc /\ complete' = complete
    BY <2>1, <2>2 DEF ListTypes, ThreadFlags
  <2>3. CASE \E place \in Places \ {"none", "ending", "ended"} :
               /\ wpc[c] \notin {"ending", "ended"}
               /\ wpc' = [wpc EXCEPT ![c] = place] /\ complete' = complete
    BY <2>1, <2>3 DEF ListTypes, ThreadFlags
  <2>4. CASE /\ wpc[c] = "finish"
             /\ wpc' = [wpc EXCEPT ![c] = "ending"]
             /\ complete' = [complete EXCEPT ![c] = TRUE]
    BY <2>1, <2>4 DEF ListTypes, ThreadFlags, Places
  <2>5. CASE /\ wpc[c] = "ending"
             /\ wpc' = [wpc EXCEPT ![c] = "ended"] /\ complete' = complete
    BY <2>1, <2>5 DEF ListTypes, ThreadFlags, Places
  <2>. QED
    BY <2>2, <2>3, <2>4, <2>5, WorkerFacts
<1>. QED
  BY <1>1, <1>2 DEF Threads

(* A step of a client, a connection thread or the timer. *)
LEMMA ThreadsStep ==
  ASSUME IInv, Threads /\ UNCHANGED <<main, hpc, head, sock, joins, orphans>>
  PROVE  IInv'
<1>1. head' = head /\ Listed' = Listed /\ (NodesOnce <=> NodesOnce')
  BY DEF Listed, NodesOnce
<1>2. /\ wpc' \in [Conn -> Places] /\ complete' \in [Conn -> BOOLEAN]
      /\ ThreadFlags'
      /\ \A c \in Conn : /\ wpc[c] = "none" <=> wpc'[c] = "none"
                         /\ complete[c] => complete'[c]
                         /\ wpc[c] = "ended" => wpc'[c] = "ended"
      /\ status' = "exited" => status = "exited"
      /\ status = "crashed" => status' = "crashed"
      /\ Listed \subseteq Conn
      /\ head # << >> => head[1] \in Conn
  BY ThreadFacts, ListedFacts DEF IInv, ListTypes
<1>3. MainList'
  BY <1>1 DEF IInv, MainList, main
<1>4. ListTypes'
  BY <1>1, <1>2 DEF IInv, ListTypes
<1>5. ThreadFlags'
  BY <1>2 DEF IInv, ThreadFlags
<1>6. SocketUse'
  BY <1>1, <1>2 DEF IInv, SocketUse
<1>7. MainPlace'
  BY <1>1, <1>2 DEF IInv, MainPlace, main
<1>8. ListUnjoined'
  BY <1>1, <1>2 DEF IInv, ListUnjoined, main
<1>9. ListStarted'
  BY <1>1, <1>2 DEF IInv, ListStarted, main
<1>10. JoinsDefined'
  BY <1>2 DEF IInv, JoinsDefined, InterruptedAt, main
<1>11. RunningListed'
  BY <1>1, <1>2 DEF IInv, ThreadFlags, RunningListed, Returned, InterruptedAt, main
<1>. QED
  BY <1>3, <1>4, <1>5, <1>6, <1>7, <1>8, <1>9, <1>10, <1>11 DEF IInv

LEMMA QuietStep ==
  ASSUME IInv, UNCHANGED svars
  PROVE  IInv'
<1>1. Listed' = Listed /\ (NodesOnce <=> NodesOnce')
  BY DEF svars, Listed, NodesOnce
<1>. QED
  BY <1>1 DEF svars, vars, main, IInv, ListTypes, ThreadFlags, SocketUse, MainPlace,
     MainList,
              ListUnjoined, ListStarted, JoinsDefined, RunningListed, Returned,
              InterruptedAt

(* Every step of the server keeps the invariant. *)
LEMMA NextInv == IInv /\ [ServerNext]_svars => IInv'
<1>. SUFFICES ASSUME IInv, [ServerNext]_svars PROVE IInv'
  OBVIOUS
<1>1. CASE Main
  BY <1>1, SetUpStep, FailsStep, AcceptStep, LoggedStep, InsertStep, CreateStep,
     FirstStep, TestStep,
     CloseStep, JoinStep, JoinedStep, ReapStep DEF Main
<1>2. CASE Handler
  BY <1>2, SignalStep, RemoveFileStep, HandlerJoinStep, HandlerJoinUndefinedStep,
     RemoveHeadStep, ExitStep DEF Handler
<1>3. CASE Threads /\ UNCHANGED <<main, hpc, head, sock, joins, orphans>>
  BY <1>3, ThreadsStep
<1>4. CASE UNCHANGED svars
  BY <1>4, QuietStep
<1>. QED
  BY <1>1, <1>2, <1>3, <1>4 DEF ServerNext

(* What main, the handler and the threads rely on holds in every reachable *)
(* state of the server.                                                    *)
THEOREM ListInvariant == ServerSpec => []IInv
  BY InitInv, NextInv, PTL DEF ServerSpec

-----------------------------------------------------------------------------
(***************************************************************************)
(* No thread is joined twice, and none that does not exist, by main        *)
(* (aesdsocket.c:370) or the handler (aesdsocket.c:264), but for the       *)
(* interrupted and failed cases JoinsDefined names.                        *)
(***************************************************************************)
THEOREM JoinsAreDefined == ServerSpec => []JoinsDefined
<1>1. IInv => JoinsDefined
  BY DEF IInv
<1>. QED
  BY <1>1, ListInvariant, PTL

(***************************************************************************)
(* Main never closes a socket a thread still receives from or sends to     *)
(* (aesdsocket.c:367).                                                     *)
(***************************************************************************)
THEOREM SocketsStayOpen == ServerSpec => []SocketOutlivesThread
<1>1. IInv => SocketOutlivesThread
  BY DEF IInv, ListTypes, ThreadFlags, SocketUse, SocketOutlivesThread
<1>. QED
  BY <1>1, ListInvariant, PTL

(***************************************************************************)
(* The handler's exit cuts no thread off (aesdsocket.c:262-272): a running *)
(* thread is always on the list the handler empties.                       *)
(***************************************************************************)
THEOREM NoThreadCutOff == ServerSpec => []ExitsAfterThreads
<1>1. IInv => ExitsAfterThreads
  <2>. SUFFICES ASSUME IInv, status = "exited" PROVE \A c \in Conn : Returned(c)
    BY DEF ExitsAfterThreads, Returned
  <2>1. Listed = {}
    BY DEF IInv, RunningListed, Listed, NodesOf
  <2>. QED
    BY <2>1 DEF IInv, RunningListed
<1>. QED
  BY <1>1, ListInvariant, PTL

-----------------------------------------------------------------------------
(***************************************************************************)
(* Main's round over the list: what is still to be reaped of it is main's  *)
(* node or stands behind it, although nodes are taken out on the way.      *)
(***************************************************************************)
Behind(list, n, m) ==
  \E i, j \in 1 .. Len(list) : i < j /\ list[i] = n /\ list[j] = m

InRound == {"test", "close", "closed", "join", "joining", "remove"}

Round ==
  /\ \A c \in due : c \in Conn /\ complete[c]
  /\ hpc = "none" \/ mpc = "accept" => \A c \in due : c \in Listed \/ sock[c] = "closed"
  /\ mpc \in {"closed", "join", "joining", "remove"} => sock[datap] = "closed"
  /\ hpc = "none" /\ mpc \in InRound =>
       /\ np_temp = NextOf(head, datap)
       /\ \A c \in due \cap Listed : c = datap \/ Behind(head, datap, c)
  /\ mpc \in StartPlaces \cup {"accept"} => due \cap Listed = {}

(* Behind a node is the next one, and the ones behind that. *)
LEMMA BehindNext ==
  ASSUME NEW list \in Seq(Conn), Once(list),
         NEW n \in Conn, NEW m \in Conn, Behind(list, n, m)
  PROVE  /\ NextOf(list, n) # NoNode
         /\ m = NextOf(list, n) \/ Behind(list, NextOf(list, n), m)
<1>1. PICK i, j \in 1 .. Len(list) : i < j /\ list[i] = n /\ list[j] = m
  BY DEF Behind
<1>2. Len(list) \in Nat
  BY LenProperties
<1>3. SelectInSeq(list, LAMBDA e : e = n) = i
  <2>1. {k \in 1 .. Len(list) : list[k] = n} = {i} /\ Min({i}) = i
    BY <1>1, PlaceOf
  <2>. QED
    BY <2>1 DEF SelectInSeq
<1>4. NextOf(list, n) = list[i + 1] /\ i + 1 \in 1 .. Len(list)
  BY <1>1, <1>2, <1>3 DEF NextOf
<1>5. list[i + 1] \in Conn
  BY <1>4, ElementOfSeq
<1>6. CASE j = i + 1
  BY <1>1, <1>4, <1>5, <1>6, NodeAssumption
<1>7. CASE j # i + 1
  <2>1. i + 1 < j
    BY <1>1, <1>2, <1>7
  <2>. QED
    BY <1>1, <1>4, <1>5, <2>1, NodeAssumption DEF Behind
<1>. QED
  BY <1>6, <1>7

(* SLIST_REMOVE keeps the others in their order. *)
LEMMA UnlinkedOrder ==
  ASSUME head \in Seq(Conn), NodesOnce, NEW n \in Listed, head' = Unlinked(n),
         NEW p, NEW q, p # n, q # n, Behind(head, p, q)
  PROVE  Behind(head', p, q)
<1>1. PICK k \in 1 .. Len(head) :
        /\ n = head[k]
        /\ Len(head') = Len(head) - 1
        /\ \A i \in 1 .. Len(head) - 1 :
             head'[i] = IF i <= k - 1 THEN head[i] ELSE head[i + 1]
  BY UnlinkedFacts
<1>2. PICK i, j \in 1 .. Len(head) : i < j /\ head[i] = p /\ head[j] = q
  BY DEF Behind
<1>3. Len(head) \in Nat /\ i # k /\ j # k
  BY <1>1, <1>2, LenProperties
<1>. DEFINE Shift(x) == IF x < k THEN x ELSE x - 1
<1>4. ASSUME NEW x \in 1 .. Len(head), x # k
      PROVE  Shift(x) \in 1 .. Len(head') /\ head'[Shift(x)] = head[x]
  <2>1. CASE x < k
    BY <1>1, <1>3, <1>4, <2>1
  <2>2. CASE x > k
    <3>1. x - 1 \in 1 .. Len(head) - 1 /\ ~(x - 1 <= k - 1) /\ x - 1 + 1 = x
      BY <1>3, <2>2
    <3>. QED
      BY <1>1, <2>2, <3>1
  <2>. QED
    BY <1>3, <1>4, <2>1, <2>2
<1>5. Shift(i) < Shift(j)
  BY <1>2, <1>3
<1>. HIDE DEF Shift
<1>. QED
  BY <1>2, <1>3, <1>4, <1>5 DEF Behind

(* The first node has all others behind it. *)
LEMMA FirstOfAll ==
  ASSUME head \in Seq(Conn), NEW c \in Listed
  PROVE  c = head[1] \/ Behind(head, head[1], c)
<1>1. PICK j \in 1 .. Len(head) : head[j] = c
  BY DEF Listed, NodesOf
<1>2. Len(head) \in Nat
  BY LenProperties
<1>3. 1 \in 1 .. Len(head) /\ (j = 1 \/ 1 < j)
  BY <1>1, <1>2
<1>. QED
  BY <1>1, <1>3 DEF Behind

LEMMA InitRound == ServerInit => Round
BY DEF ServerInit, Round, InRound, StartPlaces

(* What is complete when a connection is accepted is due, and on the list. *)
LEMMA RoundAccept == ASSUME IInv, Round, NEW c \in Conn, Accept(c) PROVE Round'
<1>1. Listed' = Listed
  BY DEF Accept, Listed
<1>2. \A d \in Conn : Contains(head, d) => d \in Listed
  BY DEF Contains, Listed, NodesOf
<1>. QED
  BY <1>1, <1>2 DEF Round, InRound, StartPlaces, Accept, MainAt, vars

LEMMA RoundInsert == ASSUME IInv, Round, Insert PROVE Round'
<1>1. Listed' = Listed \cup {datap}
  BY InsertFacts DEF Insert, MainAt, IInv, ListTypes, MainPlace
<1>. QED
  BY <1>1 DEF Round, InRound, StartPlaces, Insert, MainAt, vars

LEMMA RoundFirst == ASSUME IInv, Round, First PROVE Round'
<1>1. head' = head /\ Listed' = Listed
  BY DEF First, Listed
<1>2. head[1] \in Listed /\ head[1] \in Conn
  BY ListedFacts DEF First, MainAt, IInv, ListTypes, MainList
<1>3. mpc' = "test" /\ datap' = head[1] /\ np_temp' = NextOf(head, head[1])
  BY <1>2, NodeAssumption DEF First, Visit
<1>4. \A c \in Listed : c = head[1] \/ Behind(head, head[1], c)
  BY FirstOfAll DEF IInv, ListTypes
<1>. QED
  BY <1>1, <1>3, <1>4 DEF Round, InRound, StartPlaces, First, MainAt, vars

(* A node that is passed is not due. *)
LEMMA RoundTest == ASSUME IInv, Round, Test PROVE Round'
<1>1. head' = head /\ Listed' = Listed
  BY DEF Test, Listed
<1>2. CASE Reapable(datap) /\ mpc' = "close" /\ UNCHANGED <<datap, np_temp>>
  BY <1>1, <1>2 DEF Round, InRound, StartPlaces, Test, MainAt, vars
<1>3. CASE ~Reapable(datap) /\ Visit(head, np_temp)
  <2>1. datap \notin due /\ np_temp = NextOf(head, datap) /\ datap \in Conn
    BY <1>3 DEF Round, InRound, Test, MainAt, Reapable, IInv, MainPlace
  <2>2. \A c \in due \cap Listed :
          np_temp # NoNode /\ (c = np_temp \/ Behind(head, np_temp, c))
    <3>. SUFFICES ASSUME NEW c \in due \cap Listed
                  PROVE  np_temp # NoNode /\ (c = np_temp \/ Behind(head, np_temp, c))
      OBVIOUS
    <3>1. c \in Conn /\ Behind(head, datap, c)
      BY <2>1 DEF Round, InRound, Test, MainAt
    <3>. QED
      BY <2>1, <3>1, BehindNext DEF IInv, ListTypes, NodesOnce
  <2>3. CASE np_temp = NoNode
    BY <1>1, <1>3, <2>2, <2>3 DEF Visit, Round, InRound, StartPlaces, Test, MainAt, vars
  <2>4. CASE np_temp # NoNode
    BY <1>1, <1>3, <2>2, <2>4 DEF Visit, Round, InRound, StartPlaces, Test, MainAt, vars
  <2>. QED
    BY <2>3, <2>4
<1>. QED
  BY <1>2, <1>3 DEF Test

LEMMA RoundReap == ASSUME IInv, Round, Reap PROVE Round'
<1>1. /\ head' \in Seq(Conn) /\ Listed' = Listed \ {datap}
      /\ datap \in Listed /\ datap \in Conn /\ np_temp # datap
  BY RemoveFacts DEF Reap, MainAt, IInv, ListTypes, MainList, MainPlace
<1>2. sock[datap] = "closed" /\ np_temp = NextOf(head, datap)
  BY DEF Round, InRound, Reap, MainAt
<1>3. \A c \in due \cap Listed' :
        np_temp # NoNode /\ (c = np_temp \/ Behind(head', np_temp, c))
  <2>. SUFFICES ASSUME NEW c \in due \cap Listed'
                PROVE  np_temp # NoNode /\ (c = np_temp \/ Behind(head', np_temp, c))
    OBVIOUS
  <2>1. c \in Conn /\ c # datap /\ Behind(head, datap, c)
    BY <1>1 DEF Round, InRound, Reap, MainAt
  <2>2. np_temp # NoNode /\ (c = np_temp \/ Behind(head, np_temp, c))
    BY <1>1, <1>2, <2>1, BehindNext DEF IInv, ListTypes, NodesOnce
  <2>. QED
    BY <1>1, <2>1, <2>2, UnlinkedOrder DEF IInv, ListTypes, Reap
<1>4. CASE np_temp = NoNode
  BY <1>1, <1>2, <1>3, <1>4 DEF Visit, Round, InRound, StartPlaces, Reap, MainAt, vars
<1>5. CASE np_temp # NoNode
  BY <1>1, <1>2, <1>3, <1>5 DEF Visit, Round, InRound, StartPlaces, Reap, MainAt, vars
<1>. QED
  BY <1>4, <1>5

(* The other steps of main. *)
LEMMA RoundMain ==
  ASSUME IInv, Round,
         SetUp \/ Fails \/ ResolveFails \/ Logged \/ Create \/ Close \/ Join \/ Joined
  PROVE  Round'
<1>1. CASE SetUp
  <2>1. head = << >>
    BY <1>1 DEF SetUp, Resolve, Socket, Bind, CreateTimer, Listen, StartUp, MainAt,
                StartPlaces, IInv, MainPlace
  <2>2. head' = << >>
    BY <1>1, <2>1 DEF SetUp, Resolve, Socket, Bind, CreateTimer, Listen
  <2>3. Listed = {} /\ Listed' = {}
    BY <2>1, <2>2 DEF Listed, NodesOf
  <2>4. /\ mpc \in StartPlaces /\ mpc' \in StartPlaces \cup {"accept"}
        /\ complete' = complete /\ due' = due /\ sock' = sock /\ hpc = "none"
    BY <1>1 DEF SetUp, Resolve, Socket, Bind, CreateTimer, Listen, StartUp, StartTimer,
                MainAt, StartPlaces, vars
  <2>. QED
    BY <2>3, <2>4 DEF Round, InRound, StartPlaces
<1>2. CASE Fails \/ ResolveFails
  BY <1>2 DEF Fails, ResolveFails, main, Round, Listed
<1>3. CASE Logged
  BY <1>3 DEF Logged, Logging, vars, Round, InRound, StartPlaces, Listed
<1>4. CASE Create
  BY <1>4 DEF Create, MainAt, Start, vars, Round, InRound, StartPlaces, Listed
<1>5. CASE Close
  BY <1>5 DEF Close, MainAt, vars, Round, InRound, StartPlaces, Listed, IInv, ListTypes,
              MainPlace
<1>6. CASE Join
  BY <1>6 DEF Join, MainAt, vars, Round, InRound, StartPlaces, Listed
<1>7. CASE Joined
  BY <1>7 DEF Joined, MainAt, vars, Round, InRound, StartPlaces, Listed
<1>. QED
  BY <1>1, <1>2, <1>3, <1>4, <1>5, <1>6, <1>7

(* The handler stops main, and only shortens the list. *)
LEMMA RoundHandler == ASSUME IInv, Round, Handler PROVE Round'
<1>1. CASE RemoveHead
  <2>1. Listed' = Listed \ {head[1]}
    BY <1>1, RemoveHeadFacts DEF RemoveHead, IInv, ListTypes, RunningListed
  <2>. QED
    BY <1>1, <2>1 DEF RemoveHead, main, vars, Round
<1>2. CASE Signal \/ RemoveFile \/ HandlerJoin \/ HandlerJoinUndefined \/ Exit
  BY <1>2 DEF Signal, RemoveFile, HandlerJoin, HandlerJoinUndefined, Exit, main, vars,
              Round, Listed
<1>. QED
  BY <1>1, <1>2 DEF Handler

LEMMA RoundThreads ==
  ASSUME IInv, Round, Threads /\ UNCHANGED <<main, hpc, head, sock, joins, orphans>>
  PROVE  Round'
<1>1. \A c \in Conn : complete[c] => complete'[c]
  BY ThreadFacts DEF IInv
<1>. QED
  BY <1>1 DEF main, Round, Listed

(* Every step keeps to the round. *)
LEMMA NextRound == IInv /\ Round /\ [ServerNext]_svars => Round'
<1>. SUFFICES ASSUME IInv, Round, [ServerNext]_svars PROVE Round'
  OBVIOUS
<1>1. CASE Main
  BY <1>1, RoundAccept, RoundInsert, RoundFirst, RoundTest, RoundReap, RoundMain
  DEF Main
<1>2. CASE Handler
  BY <1>2, RoundHandler
<1>3. CASE Threads /\ UNCHANGED <<main, hpc, head, sock, joins, orphans>>
  BY <1>3, RoundThreads
<1>4. CASE UNCHANGED svars
  BY <1>4 DEF svars, vars, main, Round, Listed
<1>. QED
  BY <1>1, <1>2, <1>3, <1>4 DEF ServerNext

(***************************************************************************)
(* A round of main's loop misses none of the connections that were         *)
(* complete when it began, however many it takes off the list on the way   *)
(* (aesdsocket.c:364-374).                                                 *)
(***************************************************************************)
THEOREM RoundsReapAll == ServerSpec => []ReapsAll
<1>1. IInv /\ Round => ReapsAll
  BY DEF IInv, ListTypes, Round, ReapsAll, Contains, Listed, NodesOf
<1>. QED
  BY <1>1, InitRound, NextRound, ListInvariant, PTL DEF ServerSpec

-----------------------------------------------------------------------------
(* To the threads, what main and the handler do is the start of a thread,  *)
(* the end of the process, or the removal of the data file.                *)
LEMMA ServerSteps ==
  ASSUME IInv, [ServerNext]_svars
  PROVE  DataStep
<1>1. CASE SetUp
  BY <1>1 DEF SetUp, Resolve, Socket, Bind, CreateTimer, Listen, DataStep, Next
<1>2. CASE ResolveFails \/ Fails \/ Exit \/ HandlerJoinUndefined
  BY <1>2 DEF ResolveFails, Fails, Exit, HandlerJoinUndefined, DataStep, StatusOnly
<1>3. CASE Create
  <2>1. datap \in Conn
    BY <1>3 DEF Create, MainAt, IInv, MainPlace
  <2>. QED
    BY <1>3, <2>1 DEF Create, DataStep, Next
<1>4. CASE \/ \E c \in Conn : Accept(c)
           \/ Logged \/ Insert \/ First \/ Test \/ Close \/ Join \/ Joined \/ Reap
  BY <1>4 DEF Accept, Logged, Insert, First, Test, Close, Join, Joined, Reap, DataStep
<1>5. CASE Signal \/ HandlerJoin \/ RemoveHead
  BY <1>5 DEF Signal, HandlerJoin, RemoveHead, DataStep
<1>6. CASE RemoveFile
  BY <1>6 DEF RemoveFile, DataStep, Renamed
<1>7. CASE Threads
  BY <1>7 DEF Threads, DataStep, Next
<1>8. CASE UNCHANGED svars
  BY <1>8 DEF svars, DataStep
<1>. QED
  BY <1>1, <1>2, <1>3, <1>4, <1>5, <1>6, <1>7, <1>8 DEF ServerNext, Main, Handler

(* The threads' invariants hold in the whole server. *)
LEMMA ServerThreadInv == ServerSpec => []ThreadInv
<1>1. ServerInit => ThreadInv
  BY ThreadInit DEF ServerInit
<1>2. IInv /\ ThreadInv /\ [ServerNext]_svars => ThreadInv'
  BY ServerSteps, ThreadNext
<1>. QED
  BY <1>1, <1>2, ListInvariant, PTL DEF ServerSpec

(***************************************************************************)
(* In the whole server, interrupted or not, a thread uses the client's     *)
(* first line only (aesdsocket.c:165-191).                                 *)
(***************************************************************************)
THEOREM ServerCommandsAreFramed == ServerSpec => []CommandsFramed
<1>1. ThreadInv => CommandsFramed
  BY DEF ThreadInv, DataInv, Framed
<1>. QED
  BY <1>1, ServerThreadInv, PTL

(***************************************************************************)
(* In the whole server a client is sent its own command back               *)
(* (aesdsocket.c:199-232), also while the handler removes the data file    *)
(* under its name: a thread reads the file it appended to.                 *)
(***************************************************************************)
THEOREM ServerRepliesOwnCommand == ServerSpec => OwnCommandReplied
<1>1. IInv /\ ThreadInv /\ [ServerNext]_svars
        => [\A c \in Conn :
              ReplyEnds(c) /\ ~IsSeek(data[c]) /\ (UseDevice => ~mixed[c])
                => \E i \in 0 .. Len(reply'[c]) - Len(data[c]) :
                     SubSeq(reply'[c], i + 1, i + Len(data[c])) = data[c]]_vars
  BY ServerSteps, ReplyFacts, Zenon
<1>. QED
  BY <1>1, ServerThreadInv, ListInvariant, PTL DEF ServerSpec, OwnCommandReplied

(***************************************************************************)
(* The same in the whole server: a thread the handler joins is not held up *)
(* by a mutex nobody will give back (aesdsocket.c:205-208, 264).           *)
(***************************************************************************)
THEOREM ServerFileMutexHeld == ServerSpec => []FileMutex
<1>1. ThreadInv => FileMutex
  BY DEF ThreadInv
<1>. QED
  BY <1>1, ServerThreadInv, PTL

(***************************************************************************)
(* In the whole server a reply has no gap and nothing twice, either        *)
(* (aesdsocket.c:220-231): the handler's removal of the data file's name   *)
(* leaves the open files as they are.                                      *)
(***************************************************************************)
THEOREM ServerRepliesAreComplete == ServerSpec => ReplyComplete
<1>1. IInv /\ ThreadInv /\ [ServerNext]_svars
        => [\A c \in Conn :
              ReplyEnds(c) => reply'[c] = SubSeq(Content(c), start[c] + 1, Len(Content(c)))]_vars
  BY ServerSteps, ReplyFacts, Zenon
<1>. QED
  BY <1>1, ServerThreadInv, ListInvariant, PTL DEF ServerSpec, ReplyComplete

-----------------------------------------------------------------------------
(* The variables of main and the handler. *)
NodeTypes ==
  /\ mpc \in StartPlaces \cup Logging \cup
       {"accept", "insert", "create", "first", "test", "close", "join", "joining", "remove"}
  /\ hpc \in {"none", "blocked", "remove_file", "empty", "remove_head"}
  /\ datap \in Conn \cup {NoNode} /\ np_temp \in Conn \cup {NoNode}
  /\ orphans \subseteq Conn /\ due \subseteq Conn

(* A visit of the loop goes to a node of the list. *)
LEMMA VisitTypes ==
  ASSUME NEW list \in Seq(Conn), Once(list), NEW n \in NodesOf(list) \cup {NoNode},
         Visit(list, n), np_temp \in Conn \cup {NoNode}
  PROVE  /\ mpc' \in {"accept", "test"}
         /\ datap' \in Conn \cup {NoNode} /\ np_temp' \in Conn \cup {NoNode}
<1>1. NodesOf(list) \subseteq Conn
  BY ElementOfSeq DEF NodesOf
<1>2. CASE n = NoNode
  BY <1>2 DEF Visit
<1>3. CASE n # NoNode
  <2>1. NextOf(list, n) \in NodesOf(list) \cup {NoNode}
    BY <1>3, NextFacts
  <2>. QED
    BY <1>1, <1>3, <2>1 DEF Visit
<1>. QED
  BY <1>2, <1>3

(* The loop only goes to nodes. *)
LEMMA NodeTypesStep ==
  ASSUME IInv, NodeTypes, [ServerNext]_svars
  PROVE  NodeTypes'
<1>. USE DEF NodeTypes, StartPlaces, Logging
<1>1. CASE SetUp
  BY <1>1 DEF SetUp, Resolve, Socket, Bind, CreateTimer, Listen, StartUp
<1>2. CASE ResolveFails \/ Fails
  BY <1>2 DEF ResolveFails, Fails, main
<1>3. ASSUME NEW c \in Conn, Accept(c) PROVE NodeTypes'
  BY <1>3 DEF Accept
<1>4. CASE Logged \/ Insert \/ Close \/ Join \/ Joined
  BY <1>4 DEF Logged, Insert, Close, Join, Joined
<1>5. CASE Create
  <2>1. datap \in Conn
    BY <1>5 DEF Create, MainAt, IInv, MainPlace
  <2>. QED
    BY <1>5, <2>1 DEF Create
<1>6. CASE First
  <2>1. head \in Seq(Conn) /\ Once(head) /\ head[1] \in NodesOf(head)
    BY <1>6, ListedFacts DEF First, MainAt, IInv, ListTypes, MainList, NodesOnce, Listed
  <2>2. /\ mpc' \in {"accept", "test"}
        /\ datap' \in Conn \cup {NoNode} /\ np_temp' \in Conn \cup {NoNode}
    BY <1>6, <2>1, VisitTypes DEF First
  <2>. QED
    BY <1>6, <2>2 DEF First
<1>7. CASE Test
  <2>1. CASE mpc' = "close" /\ UNCHANGED <<datap, np_temp>>
    BY <1>7, <2>1 DEF Test
  <2>2. CASE Visit(head, np_temp)
    <3>1. head \in Seq(Conn) /\ Once(head) /\ np_temp \in NodesOf(head) \cup {NoNode}
      BY <1>7 DEF Test, MainAt, IInv, ListTypes, MainList, NodesOnce, Listed
    <3>2. /\ mpc' \in {"accept", "test"}
          /\ datap' \in Conn \cup {NoNode} /\ np_temp' \in Conn \cup {NoNode}
      BY <2>2, <3>1, VisitTypes
    <3>. QED
      BY <1>7, <3>2 DEF Test
  <2>. QED
    BY <1>7, <2>1, <2>2 DEF Test
<1>8. CASE Reap
  <2>1. head' \in Seq(Conn) /\ Once(head') /\ np_temp \in NodesOf(head') \cup {NoNode}
    <3>1. /\ head' = Unlinked(datap) /\ datap \in Listed
          /\ np_temp # datap /\ np_temp \in Listed \cup {NoNode}
      BY <1>8 DEF Reap, MainAt, IInv, MainList
    <3>2. head' \in Seq(Conn) /\ NodesOnce' /\ Listed' = Listed \ {datap}
      BY <3>1, RemoveFacts DEF IInv, ListTypes
    <3>. QED
      BY <3>1, <3>2 DEF NodesOnce, Listed
  <2>2. Visit(head', np_temp)
    BY <1>8 DEF Reap
  <2>3. /\ mpc' \in {"accept", "test"}
        /\ datap' \in Conn \cup {NoNode} /\ np_temp' \in Conn \cup {NoNode}
    <3>. DEFINE l == head'
    <3>1. l \in Seq(Conn) /\ Once(l) /\ np_temp \in NodesOf(l) \cup {NoNode} /\ Visit(l, np_temp)
      BY <2>1, <2>2
    <3>. HIDE DEF l
    <3>. QED
      BY <3>1, VisitTypes
  <2>. QED
    BY <1>8, <2>3 DEF Reap
<1>9. CASE Handler
  BY <1>9 DEF Handler, Signal, RemoveFile, HandlerJoin, HandlerJoinUndefined,
     RemoveHead, Exit, main
<1>10. CASE Threads /\ UNCHANGED <<main, hpc, head, sock, joins, orphans>>
  BY <1>10 DEF main
<1>11. CASE UNCHANGED svars
  BY <1>11 DEF svars, main
<1>. QED
  BY <1>1, <1>2, <1>3, <1>4, <1>5, <1>6, <1>7, <1>8, <1>9, <1>10, <1>11 DEF ServerNext,
     Main

(***************************************************************************)
(* Every variable of the server has its type (aesdsocket.c:276-379).       *)
(***************************************************************************)
THEOREM ServerTypes == ServerSpec => []ServerTypeOK
<1>1. ServerInit => NodeTypes
  BY DEF ServerInit, NodeTypes, StartPlaces
<1>2. IInv /\ NodeTypes /\ [ServerNext]_svars => NodeTypes'
  BY NodeTypesStep
<1>3. IInv /\ NodeTypes /\ ThreadInv => ServerTypeOK
  BY DEF IInv, ListTypes, NodeTypes, ThreadInv, DataInv, ServerTypeOK
<1>. QED
  BY <1>1, <1>2, <1>3, ListInvariant, ServerThreadInv, PTL DEF ServerSpec

-----------------------------------------------------------------------------
(* The list the server relies on is the one module NodeList promises and   *)
(* module SList implements.                                                *)
Promised == INSTANCE NodeList WITH Node <- Conn, list <- head

(* SLIST_REMOVE takes out one element of the sequence. *)
LEMMA UnlinkedTakes ==
  ASSUME head \in Seq(Conn), NodesOnce, NEW n \in Listed, head' = Unlinked(n)
  PROVE  \E i \in 1 .. Len(head) : Promised!Take(i)
<1>1. PICK k \in 1 .. Len(head) :
        /\ head' \in Seq(Conn)
        /\ Len(head') = Len(head) - 1
        /\ \A i \in 1 .. Len(head) - 1 :
             head'[i] = IF i <= k - 1 THEN head[i] ELSE head[i + 1]
  BY UnlinkedFacts
<1>. DEFINE rest == Promised!Without(head, k)
<1>2. Len(head) \in Nat /\ head' = [i \in 1 .. Len(head) - 1 |-> head'[i]]
  BY <1>1, LenProperties
<1>3. ASSUME NEW i \in 1 .. Len(head) - 1
      PROVE  head'[i] = IF i < k THEN head[i] ELSE head[i + 1]
  <2>1. i <= k - 1 <=> i < k
    BY <1>2
  <2>. QED
    BY <1>1, <2>1
<1>4. head' = rest
  BY <1>2, <1>3 DEF Promised!Without
<1>. QED
  BY <1>4, Zenon DEF Promised!Take

(* SLIST_REMOVE_HEAD takes out the first one. *)
LEMMA TailTakes ==
  ASSUME head \in Seq(Conn), head # << >>, head' = Tail(head)
  PROVE  \E i \in 1 .. Len(head) : Promised!Take(i)
<1>1. Len(head) \in Nat \ {0}
  BY EmptySeq
<1>2. head' = [i \in 1 .. Len(head) - 1 |-> head[i + 1]]
  <2>1. /\ head' \in Seq(Conn) /\ Len(head') = Len(head) - 1
        /\ \A i \in 1 .. Len(head) - 1 : head'[i] = head[i + 1]
    BY <1>1, HeadTailProperties
  <2>2. head' = [i \in 1 .. Len(head) - 1 |-> head'[i]]
    BY <2>1, LenProperties
  <2>. QED
    BY <2>1, <2>2
<1>3. \A i \in 1 .. Len(head) - 1 : ~(i < 1)
  BY <1>1
<1>4. head' = Promised!Without(head, 1)
  BY <1>2, <1>3 DEF Promised!Without
<1>5. 1 \in 1 .. Len(head)
  BY <1>1
<1>. QED
  BY <1>4, <1>5, Zenon DEF Promised!Take

(* Whatever main, the handler and the threads do, the list changes by      *)
(* whole insertions and removals.                                          *)
LEMMA PromisedStep ==
  ASSUME IInv, [ServerNext]_svars
  PROVE  [Promised!ListNext]_head
<1>1. CASE Insert
  <2>1. datap \in Conn /\ datap \notin Listed /\ head' = <<datap>> \o head
    BY <1>1 DEF Insert, MainAt, IInv, MainPlace
  <2>2. Promised!Prepend(datap)
    BY <2>1 DEF Promised!Prepend, Promised!Listed, Listed, NodesOf
  <2>. QED
    BY <2>1, <2>2, Zenon DEF Promised!ListNext
<1>2. CASE Reap
  <2>1. head \in Seq(Conn) /\ NodesOnce /\ datap \in Listed /\ head' = Unlinked(datap)
    BY <1>2 DEF Reap, MainAt, IInv, ListTypes, MainList
  <2>. QED
    BY <2>1, UnlinkedTakes, Zenon DEF Promised!ListNext
<1>3. CASE RemoveHead
  <2>1. head \in Seq(Conn) /\ head # << >> /\ head' = Tail(head)
    BY <1>3 DEF RemoveHead, IInv, ListTypes, RunningListed
  <2>. QED
    BY <2>1, TailTakes, Zenon DEF Promised!ListNext
<1>4. CASE Listen
  BY <1>4 DEF Listen, StartUp, MainAt, IInv, MainPlace, StartPlaces
<1>5. CASE \/ Resolve \/ Socket \/ Bind \/ CreateTimer \/ ResolveFails \/ Fails
           \/ \E c \in Conn : Accept(c)
           \/ Logged \/ Create \/ First \/ Test \/ Close \/ Join \/ Joined
  BY <1>5 DEF Resolve, Socket, Bind, CreateTimer, ResolveFails, Fails, Accept, Logged,
     Create, First, Test, Close, Join, Joined
<1>6. CASE Signal \/ RemoveFile \/ HandlerJoin \/ HandlerJoinUndefined \/ Exit
  BY <1>6 DEF Signal, RemoveFile, HandlerJoin, HandlerJoinUndefined, Exit
<1>7. CASE UNCHANGED head
  BY <1>7
<1>. QED
  BY <1>1, <1>2, <1>3, <1>4, <1>5, <1>6, <1>7
  DEF ServerNext, Main, SetUp, Handler, svars

(***************************************************************************)
(* The server uses its list as NodeList has it: every insertion is of a    *)
(* node that is not on the list, and every removal takes one node out,     *)
(* that of SLIST_REMOVE in main (aesdsocket.c:371) and that of the handler *)
(* which may have interrupted it (aesdsocket.c:265).  SListProofs shows    *)
(* the macros to implement the same module.                                *)
(***************************************************************************)
THEOREM ServerListIsPromised == ServerSpec => Promised!ListSpec
<1>1. ServerInit => Promised!ListInit
  BY DEF ServerInit, Promised!ListInit
<1>. QED
  BY <1>1, PromisedStep, ListInvariant, PTL DEF ServerSpec, Promised!ListSpec

-----------------------------------------------------------------------------
(* A newline is the last of the bytes and the only one. *)
OneLine(bytes) == FirstNewLine(bytes, Len(bytes))

(* A command is such a line. *)
LEMMA CommandIsLine ==
  ASSUME NEW s \in Seq(Byte), Contains(s, NewLine)
  PROVE  OneLine(UpToNewLine(s))
<1>1. PICK k : FirstNewLine(s, k) /\ UpToNewLine(s) = SubSeq(s, 1, k)
  BY UpToFirst
<1>2. k \in 1 .. Len(s) /\ Len(s) \in Nat /\ \A i \in 1 .. Len(s) : s[i] \in Byte
  BY <1>1, LenProperties DEF FirstNewLine
<1>. DEFINE u == SubSeq(s, 1, k)
<1>3. Len(u) = k /\ \A i \in 1 .. k : u[i] = s[i]
  <2>1. \A i \in 1 .. k : s[i] \in Byte
    BY <1>2
  <2>2. Len(u) = k /\ \A i \in 1 .. k - 1 + 1 : u[i] = s[1 + i - 1]
    BY <1>2, <2>1, SubSeqProperties
  <2>. HIDE DEF u
  <2>. QED
    BY <1>2, <2>2
<1>. HIDE DEF u
<1>4. FirstNewLine(u, Len(u))
  BY <1>1, <1>2, <1>3 DEF FirstNewLine
<1>. QED
  BY <1>1, <1>4 DEF OneLine, u

(* A piece that leaves a rest has no newline; the rest is a line still. *)
LEMMA PieceOfLine ==
  ASSUME NEW piece \in Seq(Byte), NEW rest \in Seq(Byte),
         OneLine(piece \o rest), Len(piece) < Len(piece \o rest)
  PROVE  ~Contains(piece, NewLine) /\ OneLine(rest)
<1>. DEFINE u == piece \o rest
            a == Len(piece)
            b == Len(rest)
<1>1. a \in Nat /\ b \in Nat
  BY LenProperties
<1>2. Len(u) = a + b
      /\ \A i \in 1 .. a + b : u[i] = IF i <= a THEN piece[i] ELSE rest[i - a]
  BY ConcatProperties
<1>3. FirstNewLine(u, Len(u)) /\ a < Len(u)
  BY DEF OneLine
<1>. HIDE DEF u
<1>4. \A i \in 1 .. a : piece[i] # NewLine
  BY <1>1, <1>2, <1>3 DEF FirstNewLine
<1>5. rest[b] = NewLine /\ b >= 1
  BY <1>1, <1>2, <1>3 DEF FirstNewLine
<1>6. ASSUME NEW i \in 1 .. b, i < b PROVE rest[i] # NewLine
  <2>1. a + i \in 1 .. a + b /\ a + i < Len(u) /\ ~(a + i <= a) /\ a + i - a = i
    BY <1>1, <1>2, <1>6
  <2>. QED
    BY <1>2, <1>3, <2>1 DEF FirstNewLine
<1>7. OneLine(rest)
  BY <1>1, <1>5, <1>6 DEF OneLine, FirstNewLine
<1>. QED
  BY <1>4, <1>7 DEF Contains

(* What has a newline of its own completes a command, whatever is pending. *)
LEMMA LineCompletes ==
  ASSUME NEW held \in Seq(Byte), NEW line \in Seq(Byte)
  PROVE  Contains(held \o line, NewLine) <=> Contains(held, NewLine) \/ Contains(line, NewLine)
<1>. DEFINE u == held \o line
            a == Len(held)
            b == Len(line)
<1>1. a \in Nat /\ b \in Nat /\ Len(u) = a + b
      /\ \A i \in 1 .. a + b : u[i] = IF i <= a THEN held[i] ELSE line[i - a]
  BY LenProperties, ConcatProperties
<1>. HIDE DEF u
<1>2. ASSUME NEW i \in 1 .. a + b, u[i] = NewLine
      PROVE  (\E j \in 1 .. a : held[j] = NewLine) \/ (\E j \in 1 .. b : line[j] = NewLine)
  <2>1. CASE i <= a
    BY <1>1, <1>2, <2>1
  <2>2. CASE ~(i <= a)
    <3>1. i - a \in 1 .. b /\ line[i - a] = NewLine
      BY <1>1, <1>2, <2>2
    <3>. QED
      BY <3>1
  <2>. QED
    BY <2>1, <2>2
<1>3. ASSUME NEW j \in 1 .. a, held[j] = NewLine PROVE \E i \in 1 .. a + b : u[i] = NewLine
  BY <1>1, <1>3
<1>4. ASSUME NEW j \in 1 .. b, line[j] = NewLine PROVE \E i \in 1 .. a + b : u[i] = NewLine
  <2>1. a + j \in 1 .. a + b /\ ~(a + j <= a) /\ a + j - a = j
    BY <1>1
  <2>2. u[a + j] = NewLine
    BY <1>1, <1>4, <2>1
  <2>. QED
    BY <2>1, <2>2
<1>5. Contains(u, NewLine) <=> \E i \in 1 .. a + b : u[i] = NewLine
  BY <1>1 DEF Contains
<1>6. Contains(held, NewLine) <=> \E j \in 1 .. a : held[j] = NewLine
  BY DEF Contains
<1>7. Contains(line, NewLine) <=> \E j \in 1 .. b : line[j] = NewLine
  BY DEF Contains
<1>. QED
  BY <1>2, <1>3, <1>4, <1>5, <1>6, <1>7, Zenon DEF u

(* No command is complete in the pending bytes, and what a thread still    *)
(* has to write completes one.                                             *)
LinesLeft ==
  /\ ~Contains(pending, NewLine)
  /\ \A c \in Conn : wpc[c] = "append" => OneLine(unwritten[c])

LEMMA LinesLeftInit == Init => LinesLeft
BY DEF Init, LinesLeft, Contains

LEMMA LinesLeftStep ==
  ASSUME ThreadInv, DataStep, LinesLeft
  PROVE  LinesLeft'
<1>. USE DEF ThreadInv, DataInv
<1>0. ASSUME UNCHANGED <<pending, unwritten>>,
             \A c \in Conn : wpc'[c] = "append" => wpc[c] = "append"
      PROVE  LinesLeft'
  BY <1>0 DEF LinesLeft, Contains, OneLine, FirstNewLine
<1>1. ASSUME NEW e \in Conn, Recv(e) PROVE LinesLeft'
  <2>1. wpc' = wpc \/ Goto(e, "open") \/ Goto(e, "lock")
    BY <1>1 DEF Recv
  <2>2. \A c \in Conn : wpc'[c] = "append" => wpc[c] = "append"
    BY <2>1 DEF Goto, TypeOK
  <2>. QED
    BY <1>0, <1>1, <2>2 DEF Recv
<1>2. ASSUME NEW e \in Conn, Open(e) PROVE LinesLeft'
  <2>1. /\ wpc' = [wpc EXCEPT ![e] = "append"] /\ wpc[e] = "open" /\ pending' = pending
        /\ unwritten' = [unwritten EXCEPT ![e] = data[e]]
    BY <1>2 DEF Open, Goto, At
  <2>2. OneLine(data[e])
    <3>1. Contains(data[e], NewLine) /\ data[e] = UpToNewLine(Text(Stream[e]))
      BY <2>1 DEF Framed, CommandsFramed, Received
    <3>2. Text(Stream[e]) \in Seq(Byte)
      BY ReceiveAssumption, TextFacts
    <3>. DEFINE t == Text(Stream[e])
    <3>3. t \in Seq(Byte) /\ data[e] = UpToNewLine(t) /\ Contains(data[e], NewLine)
      BY <3>1, <3>2
    <3>. HIDE DEF t
    <3>4. Contains(UpToNewLine(t), NewLine) <=> Contains(t, NewLine)
      BY <3>3, UpToNewLineFacts
    <3>5. OneLine(UpToNewLine(t))
      BY <3>3, <3>4, CommandIsLine
    <3>. QED
      BY <3>3, <3>5
  <2>3. ASSUME NEW c \in Conn, wpc'[c] = "append" PROVE OneLine(unwritten'[c])
    <3>1. c = e => unwritten'[c] = data[e]
      BY <2>1 DEF TypeOK
    <3>2. c # e => unwritten'[c] = unwritten[c] /\ wpc[c] = "append"
      BY <2>1, <2>3 DEF TypeOK
    <3>. QED
      BY <2>2, <3>1, <3>2 DEF LinesLeft
  <2>. QED
    BY <2>1, <2>3 DEF LinesLeft, Contains, OneLine, FirstNewLine
<1>3. ASSUME NEW e \in Conn, WritePiece(e) PROVE LinesLeft'
  <2>1. PICK piece \in Seq(Byte), rest \in Seq(Byte) :
          /\ unwritten[e] = piece \o rest /\ Len(piece) < Len(unwritten[e])
          /\ unwritten' = [unwritten EXCEPT ![e] = rest]
          /\ pending' = pending \o piece \/ pending' = pending
    BY <1>3, PieceFacts
  <2>2. wpc' = wpc /\ wpc[e] = "append"
    BY <1>3 DEF WritePiece, At
  <2>3. ~Contains(piece, NewLine) /\ OneLine(rest)
    <3>1. OneLine(piece \o rest) /\ Len(piece) < Len(piece \o rest)
      BY <2>1, <2>2 DEF LinesLeft
    <3>. QED
      BY <3>1, PieceOfLine
  <2>4. ~Contains(pending', NewLine)
    <3>1. pending \in Seq(Byte) /\ ~Contains(pending, NewLine)
      BY DEF TypeOK, LinesLeft
    <3>2. ~Contains(pending \o piece, NewLine)
      BY <2>3, <3>1, LineCompletes
    <3>. QED
      BY <2>1, <3>1, <3>2, Zenon
  <2>5. ASSUME NEW c \in Conn, wpc'[c] = "append" PROVE OneLine(unwritten'[c])
    <3>1. c = e => unwritten'[c] = rest
      BY <2>1 DEF TypeOK
    <3>2. c # e => unwritten'[c] = unwritten[c] /\ wpc[c] = "append"
      BY <2>1, <2>2, <2>5 DEF TypeOK
    <3>. QED
      BY <2>3, <3>1, <3>2 DEF LinesLeft
  <2>. QED
    BY <2>4, <2>5 DEF LinesLeft, Contains, OneLine, FirstNewLine
<1>4. ASSUME NEW e \in Conn, AppendLine(e) PROVE LinesLeft'
  <2>1. /\ pending' = << >> /\ unwritten' = [unwritten EXCEPT ![e] = << >>]
        /\ wpc' = [wpc EXCEPT ![e] = "reply"]
    BY <1>4 DEF LineAppended, AppendLine, Goto
  <2>2. ASSUME NEW c \in Conn, wpc'[c] = "append"
        PROVE  unwritten'[c] = unwritten[c] /\ wpc[c] = "append"
    BY <2>1, <2>2 DEF TypeOK
  <2>. QED
    BY <2>1, <2>2 DEF LinesLeft, Contains, OneLine, FirstNewLine
<1>5. ASSUME NEW e \in Conn, SeekDevice(e) \/ ReadLine(e) PROVE LinesLeft'
  <2>1. \A c \in Conn : wpc'[c] = "append" => wpc[c] = "append"
    BY <1>5, AppendKept
  <2>. QED
    BY <1>0, <1>5, <2>1 DEF SeekDevice, ReadLine
<1>6. CASE TimerAppend
  BY <1>0, <1>6 DEF TimerAppend, locals
<1>7. CASE QuietData
  <2>1. \A c \in Conn : wpc'[c] = "append" => wpc[c] = "append"
    BY <1>7, AppendKept
  <2>. QED
    BY <1>0, <1>7, <2>1 DEF QuietData, locals
<1>. QED
  BY <1>1, <1>2, <1>3, <1>4, <1>5, <1>6, <1>7, StepKinds

(* The thread of c hands the device the next bytes of its command. *)
Hands(c) ==
  \E bytes \in Seq(Byte) : Device!Write(bytes) /\ unwritten[c] = bytes \o unwritten'[c]

(* The threads hand bytes to the device, or leave it alone. *)
LEMMA DeviceWritten ==
  ASSUME ThreadInv, LinesLeft, UseDevice, DataStep
  PROVE  [\E c \in Conn : Hands(c)]_(Device!vars)
<1>. USE DEF ThreadInv, DataInv
<1>1. ASSUME NEW c \in Conn, AppendLine(c) PROVE Hands(c)
  <2>1. /\ wpc[c] = "append" /\ inode[c] = 0 /\ pending' = << >>
        /\ stores'[0] = Kept(Append(stores[0], Entry(c)))
    BY <1>1 DEF LineAppended, AppendLine, At, OneStore, TypeOK
  <2>2. unwritten[c] \in Seq(Byte) /\ pending \in Seq(Byte)
    BY DEF TypeOK
  <2>3. Contains(pending \o unwritten[c], NewLine)
    <3>. DEFINE u == unwritten[c]
    <3>1. u \in Seq(Byte) /\ OneLine(u)
      BY <2>1, <2>2 DEF LinesLeft
    <3>. HIDE DEF u
    <3>2. Contains(u, NewLine)
      BY <3>1 DEF OneLine, FirstNewLine, Contains
    <3>3. Contains(pending \o u, NewLine)
      BY <2>2, <3>1, <3>2, LineCompletes
    <3>. QED
      BY <3>3 DEF u
  <2>4. /\ Device!Contains(pending \o unwritten[c], NewLine)
        /\ stores'[0] = Device!Newest(Append(stores[0], pending \o unwritten[c]))
    BY <2>1, <2>3 DEF Contains, Device!Contains, Kept, Entry
  <2>5. Device!Write(unwritten[c])
    BY <2>1, <2>4 DEF Device!Write
  <2>6. unwritten[c] = unwritten[c] \o unwritten'[c]
    <3>. DEFINE u == unwritten[c]
    <3>1. unwritten'[c] = << >>
      BY <1>1 DEF LineAppended, AppendLine, TypeOK
    <3>2. u \in Seq(Byte)
      BY <2>2
    <3>. HIDE DEF u
    <3>3. u = u \o << >>
      BY <3>2, ConcatEmptySeq
    <3>. QED
      BY <3>1, <3>3 DEF u
  <2>. QED
    BY <2>2, <2>5, <2>6, Zenon DEF Hands
<1>2. ASSUME NEW c \in Conn, WritePiece(c) PROVE Hands(c)
  <2>1. PICK piece \in Seq(Byte), rest \in Seq(Byte) :
          /\ unwritten[c] = piece \o rest /\ Len(piece) < Len(unwritten[c])
          /\ unwritten' = [unwritten EXCEPT ![c] = rest]
          /\ pending' = pending \o piece /\ stores' = stores
    BY <1>2, PieceFacts
  <2>2. ~Contains(pending \o piece, NewLine)
    <3>1. OneLine(piece \o rest) /\ Len(piece) < Len(piece \o rest)
      BY <1>2, <2>1 DEF WritePiece, At, LinesLeft
    <3>2. ~Contains(piece, NewLine)
      BY <3>1, PieceOfLine
    <3>3. pending \in Seq(Byte) /\ ~Contains(pending, NewLine)
      BY DEF TypeOK, LinesLeft
    <3>. QED
      BY <3>2, <3>3, LineCompletes
  <2>3. ~Device!Contains(pending \o piece, NewLine)
    BY <2>2 DEF Contains, Device!Contains
  <2>4. Device!Write(piece)
    BY <2>1, <2>3 DEF Device!Write
  <2>5. unwritten'[c] = rest
    BY <2>1 DEF TypeOK
  <2>. QED
    BY <2>1, <2>4, <2>5, Zenon DEF Hands
<1>3. ASSUME stores' = stores, pending' = pending PROVE UNCHANGED Device!vars
  BY <1>3 DEF Device!vars
<1>4. ASSUME NEW c \in Conn, Recv(c) \/ Open(c) \/ SeekDevice(c) \/ ReadLine(c)
      PROVE  stores' = stores /\ pending' = pending
  BY <1>4 DEF Recv, Open, SeekDevice, ReadLine
<1>5. ~TimerAppend
  BY DEF TimerAppend, OneStore
<1>6. \/ \E c \in Conn : \/ Recv(c) \/ Open(c) \/ WritePiece(c)
                         \/ AppendLine(c) \/ SeekDevice(c) \/ ReadLine(c)
      \/ TimerAppend
      \/ stores' = stores /\ pending' = pending
  BY StepKinds, Zenon DEF QuietData
<1>. QED
  BY <1>1, <1>2, <1>3, <1>4, <1>5, <1>6, Zenon

LEMMA ServerLinesLeft == ServerSpec => []LinesLeft
<1>1. ServerInit => LinesLeft
  BY LinesLeftInit DEF ServerInit
<1>2. IInv /\ ThreadInv /\ LinesLeft /\ [ServerNext]_svars => LinesLeft'
  BY ServerSteps, LinesLeftStep
<1>. QED
  BY <1>1, <1>2, ListInvariant, ServerThreadInv, PTL DEF ServerSpec

(***************************************************************************)
(* The device is used as CharDevice promises, and AesdChar implements: a   *)
(* change to it is a write of the next bytes of a client's command.  A     *)
(* piece completes nothing, and the last one completes what is pending,    *)
(* whoever wrote that (aesdsocket.c:50, main.c:380-403).                   *)
(***************************************************************************)
THEOREM ServerUsesDevice == ServerSpec => [][UseDevice => \E c \in Conn : Hands(c)]_(Device!vars)
<1>1. IInv /\ ThreadInv /\ LinesLeft /\ [ServerNext]_svars
        => [UseDevice => \E c \in Conn : Hands(c)]_(Device!vars)
  BY ServerSteps, DeviceWritten
<1>. QED
  BY <1>1, ServerLinesLeft, ServerThreadInv, ListInvariant, PTL DEF ServerSpec

(* Bytes are pending in the device only while a thread is between the      *)
(* pieces of its command.                                                  *)
PendingHeld ==
  pending # << >> => UseDevice /\ \E c \in Conn : wpc[c] = "append" /\ unwritten[c] # data[c]

LEMMA PendingHeldStep ==
  ASSUME ThreadInv, DataStep, PendingHeld
  PROVE  PendingHeld'
<1>. USE DEF ThreadInv, DataInv
<1>0. pending' # << >> => UseDevice
  BY PendingStep DEF PendingInDevice
<1>1. ASSUME pending' = pending,
             \A d \in Conn : wpc[d] = "append" /\ unwritten[d] # data[d]
                               => /\ wpc'[d] = "append" /\ unwritten'[d] = unwritten[d]
                                  /\ data'[d] = data[d]
      PROVE  PendingHeld'
  BY <1>0, <1>1 DEF PendingHeld
<1>2. ASSUME NEW e \in Conn, Recv(e) PROVE PendingHeld'
  <2>1. wpc[e] = "recv" /\ UNCHANGED <<unwritten, pending>>
    BY <1>2 DEF Recv, At
  <2>2. \A d \in Conn : d # e => data'[d] = data[d] /\ wpc'[d] = wpc[d]
    <3>1. \E text : data' = [data EXCEPT ![e] = text]
      BY <1>2, Zenon DEF Recv
    <3>2. wpc' = wpc \/ Goto(e, "open") \/ Goto(e, "lock")
      BY <1>2 DEF Recv
    <3>. QED
      BY <3>1, <3>2 DEF Goto, TypeOK
  <2>. QED
    BY <1>1, <2>1, <2>2
<1>3. ASSUME NEW e \in Conn, Open(e) PROVE PendingHeld'
  BY <1>1, <1>3 DEF Open, At, Goto, TypeOK
<1>4. ASSUME NEW e \in Conn, WritePiece(e) PROVE PendingHeld'
  <2>1. /\ wpc'[e] = "append" /\ data'[e] = data[e]
        /\ Len(unwritten'[e]) < Len(unwritten[e])
    <3>1. PICK rest \in Seq(Byte) :
            unwritten' = [unwritten EXCEPT ![e] = rest] /\ Len(rest) < Len(unwritten[e])
      BY <1>4, PieceFacts
    <3>. QED
      BY <1>4, <3>1 DEF WritePiece, At, TypeOK
  <2>2. Len(unwritten[e]) <= Len(data[e])
    <3>1. Part(Base(e), mixed[e], data[e], unwritten[e]) /\ unwritten[e] \in Seq(Byte)
      BY <1>4 DEF WritePiece, At, BegunInv, Begun, TypeOK
    <3>. QED
      BY <3>1, PartLength, Zenon
  <2>3. unwritten'[e] # data'[e]
    <3>1. Len(unwritten[e]) \in Nat /\ Len(data[e]) \in Nat
      BY LenProperties DEF TypeOK
    <3>. QED
      BY <2>1, <2>2, <3>1
  <2>. QED
    BY <1>0, <2>1, <2>3 DEF PendingHeld
<1>5. ASSUME NEW e \in Conn, AppendLine(e) PROVE PendingHeld'
  BY <1>5 DEF LineAppended, AppendLine, PendingHeld
<1>6. ASSUME NEW e \in Conn, SeekDevice(e) PROVE PendingHeld'
  <2>1. unwritten[e] = data[e]
    BY <1>6 DEF SeekDevice, At, BegunInv, Begun
  <2>2. UNCHANGED <<pending, unwritten, data>> /\ wpc' = [wpc EXCEPT ![e] = "reply"]
    BY <1>6 DEF SeekDevice, Goto
  <2>. QED
    BY <1>1, <2>1, <2>2 DEF TypeOK
<1>7. ASSUME NEW e \in Conn, ReadLine(e) PROVE PendingHeld'
  BY <1>1, <1>7 DEF ReadLine, At, Goto, TypeOK
<1>8. CASE TimerAppend
  BY <1>1, <1>8 DEF TimerAppend, locals
<1>9. CASE QuietData
  <2>1. \A d \in Conn : wpc[d] = "append" => wpc'[d] = "append"
    BY <1>9 DEF QuietData, PlaceStep, Moves, Goto, TypeOK
  <2>. QED
    BY <1>1, <1>9, <2>1 DEF QuietData, locals
<1>. QED
  BY <1>2, <1>3, <1>4, <1>5, <1>6, <1>7, <1>8, <1>9, StepKinds

(***************************************************************************)
(* No thread leaves a part of its command in the driver's entry for the    *)
(* next client to continue (aesdsocket.c:50-51, 201-203): what is pending  *)
(* belongs to a thread that is still writing, also while the handler runs. *)
(***************************************************************************)
THEOREM NothingLeftPending == ServerSpec => []PendingHeld
<1>1. ServerInit => PendingHeld
  BY DEF ServerInit, Init, PendingHeld
<1>2. IInv /\ ThreadInv /\ PendingHeld /\ [ServerNext]_svars => PendingHeld'
  BY ServerSteps, PendingHeldStep
<1>. QED
  BY <1>1, <1>2, ListInvariant, ServerThreadInv, PTL DEF ServerSpec

-----------------------------------------------------------------------------
(* How many steps the handler has before it: one for the file, then two    *)
(* for each node on the list.                                              *)
HandlerLeft == CASE hpc = "remove_file" -> 2 * Len(head) + 1
                 [] hpc = "empty"       -> 2 * Len(head)
                 [] hpc = "remove_head" -> 2 * Len(head) - 1
                 [] OTHER               -> 0

(* The handler is past its first line. *)
Handling == hpc \in {"remove_file", "empty", "remove_head"}

(***************************************************************************)
(* Once the handler is past its first line it stays in its loop, nothing   *)
(* else touches the list, and each step of it brings the end closer: main, *)
(* the threads and new clients add nothing to what it has to join          *)
(* (aesdsocket.c:262-267).  What it may wait for is a thread to return.    *)
(***************************************************************************)
ShutdownShrinks ==
  [][Handling => /\ Handling' /\ HandlerLeft' \in Nat
                 /\ UNCHANGED <<hpc, head>> \/ HandlerLeft' < HandlerLeft]_svars

(* The measure is a natural number, and zero only when the handler's loop  *)
(* ends.                                                                   *)
LEMMA HandlerLeftType ==
  ASSUME IInv, Handling
  PROVE  /\ HandlerLeft \in Nat
         /\ HandlerLeft = 0 => hpc = "empty" /\ head = << >>
<1>1. head \in Seq(Conn) /\ Len(head) \in Nat /\ (head = << >> <=> Len(head) = 0)
  BY EmptySeq DEF IInv, ListTypes
<1>2. hpc = "remove_head" => Len(head) > 0
  BY <1>1 DEF IInv, RunningListed
<1>. QED
  BY <1>1, <1>2 DEF HandlerLeft, Handling

(* Each step of the handler takes one off. *)
LEMMA HandlerShrinks ==
  ASSUME IInv, Handling, RemoveFile \/ HandlerJoin \/ HandlerJoinUndefined \/ RemoveHead
  PROVE  /\ Handling'
         /\ UNCHANGED <<hpc, head>> \/ HandlerLeft' < HandlerLeft
<1>1. head \in Seq(Conn) /\ Len(head) \in Nat /\ (head = << >> <=> Len(head) = 0)
  BY EmptySeq DEF IInv, ListTypes
<1>2. CASE RemoveFile
  <2>1. hpc = "remove_file" /\ hpc' = "empty" /\ head' = head
    BY <1>2 DEF RemoveFile
  <2>. QED
    BY <1>1, <2>1 DEF HandlerLeft, Handling
<1>3. CASE HandlerJoin \/ HandlerJoinUndefined
  <2>1. /\ hpc = "empty" /\ head' = head
        /\ hpc' = "remove_head" \/ hpc' = hpc
    BY <1>3 DEF HandlerJoin, HandlerJoinUndefined
  <2>. QED
    BY <1>1, <2>1 DEF HandlerLeft, Handling
<1>4. CASE RemoveHead
  <2>1. hpc = "remove_head" /\ hpc' = "empty" /\ head' = Tail(head) /\ head # << >>
    BY <1>4 DEF RemoveHead, IInv, RunningListed
  <2>2. Len(head') = Len(head) - 1
    BY <1>1, <2>1, HeadTailProperties
  <2>. QED
    BY <1>1, <2>1, <2>2 DEF HandlerLeft, Handling
<1>. QED
  BY <1>2, <1>3, <1>4

(* While it runs, nothing else moves it or the list. *)
LEMMA HandlerAlone ==
  ASSUME Handling, [ServerNext]_svars
  PROVE  \/ RemoveFile \/ HandlerJoin \/ HandlerJoinUndefined \/ RemoveHead
         \/ UNCHANGED <<hpc, head>>
<1>1. hpc # "none"
  BY DEF Handling
<1>2. ~Main
  BY <1>1 DEF Main, SetUp, Resolve, Socket, Bind, CreateTimer, Listen, StartUp, ResolveFails,
     Fails, Accept, Logged, Insert, Create, First, Test, Close, Join, Joined, Reap, MainAt
<1>3. Signal \/ Exit => UNCHANGED <<hpc, head>>
  BY <1>1 DEF Signal, Exit
<1>. QED
  BY <1>2, <1>3 DEF ServerNext, Handler, svars

(***************************************************************************)
(* The handler's loop is finite, however often main was in the middle of   *)
(* an insertion or a removal when the signal came (aesdsocket.c:262-267):  *)
(* the part of ShutdownEnds that needs no fairness.                        *)
(***************************************************************************)
THEOREM ShutdownIsFinite == ServerSpec => ShutdownShrinks
<1>1. IInv /\ IInv' /\ [ServerNext]_svars
        => [Handling => /\ Handling' /\ HandlerLeft' \in Nat
                        /\ UNCHANGED <<hpc, head>> \/ HandlerLeft' < HandlerLeft]_svars
  <2>. SUFFICES ASSUME IInv, IInv', [ServerNext]_svars, Handling
                PROVE  /\ Handling' /\ HandlerLeft' \in Nat
                       /\ UNCHANGED <<hpc, head>> \/ HandlerLeft' < HandlerLeft
    OBVIOUS
  <2>1. /\ Handling'
        /\ UNCHANGED <<hpc, head>> \/ HandlerLeft' < HandlerLeft
    <3>1. CASE UNCHANGED <<hpc, head>>
      BY <3>1 DEF Handling
    <3>. QED
      BY <3>1, HandlerAlone, HandlerShrinks, Zenon
  <2>2. (IInv /\ Handling => HandlerLeft \in Nat)'
    BY HandlerLeftType, PTL
  <2>. QED
    BY <2>1, <2>2, Zenon
<1>. QED
  BY <1>1, ListInvariant, PTL DEF ServerSpec, ShutdownShrinks
=============================================================================
