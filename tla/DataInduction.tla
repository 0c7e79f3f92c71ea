--------------------------- MODULE DataInduction ----------------------------
(***************************************************************************)
(* Facts about data that no step of a behaviour brings and that hold by    *)
(* induction: running sums (the sizes the driver adds up while it walks    *)
(* its table) and FlattenSeq (the commands of the driver end to end).      *)
(*                                                                         *)
(* An induction hypothesis is a set here.  That a set of numbers with 0    *)
(* and with n + 1 for each of its n holds every number follows from the    *)
(* well-foundedness of < on Nat, and what is to be shown of a number or of *)
(* a sequence is that it belongs to the set of those it is true of.        *)
(***************************************************************************)
EXTENDS Integers, SequencesExt, SequenceTheorems, WellFoundedInduction, TLAPS

(* A set of natural numbers that is not empty has a least one. *)
LEMMA LeastNumber ==
  ASSUME NEW T, T \subseteq Nat, T # {}
  PROVE  \E m \in T : \A n \in T : m <= n
<1>1. PICK m \in T : \A n \in T : ~(<<n, m>> \in OpToRel(<, Nat))
  BY NatLessThanWellFounded, WFMin, Zenon
<1>2. \A n \in T : ~(n < m)
  BY <1>1 DEF OpToRel
<1>. QED
  BY <1>2, SMT

(* Min of a set of natural numbers is its least one. *)
LEMMA MinOfNumbers ==
  ASSUME NEW T, T \subseteq Nat, T # {}
  PROVE  Min(T) \in T /\ \A n \in T : Min(T) <= n
BY LeastNumber DEF Min

(* The lesser of two numbers. *)
LEMMA MinOfTwo ==
  ASSUME NEW a \in Int, NEW b \in Int
  PROVE  Min({a, b}) \in Int /\ Min({a, b}) <= a /\ Min({a, b}) <= b
BY DEF Min

(* Induction over the natural numbers. *)
LEMMA SetInduction ==
  ASSUME NEW T, 0 \in T, \A n \in Nat : n \in T => n + 1 \in T
  PROVE  \A n \in Nat : n \in T
<1>. DEFINE U == Nat \ T
<1>1. SUFFICES ASSUME U # {} PROVE FALSE
  OBVIOUS
<1>2. U \subseteq Nat
  OBVIOUS
<1>3. PICK m \in U : \A n \in U : m <= n
  <2>. HIDE DEF U
  <2>. QED
    BY <1>1, <1>2, LeastNumber
<1>4. m # 0 /\ m - 1 \in Nat /\ m - 1 \in T
  BY <1>3
<1>. QED
  BY <1>3, <1>4

-----------------------------------------------------------------------------
(* f[k] is the sum of the first k of the n numbers w. *)
IsRunningSum(f, w, n) ==
  f = [k \in 0 .. n |-> IF k = 0 THEN 0 ELSE f[k - 1] + w[k]]

(* The values of running sums, one after the other. *)
LEMMA RunningSumValues ==
  ASSUME NEW w, NEW n \in Nat, NEW f, IsRunningSum(f, w, n)
  PROVE  f[0] = 0 /\ \A k \in 1 .. n : f[k] = f[k - 1] + w[k]
BY DEF IsRunningSum

(* The recursive definition of a running sum defines a function. *)
LEMMA RunningSumExists ==
  ASSUME NEW w, NEW n \in Nat, \A k \in 1 .. n : w[k] \in Nat
  PROVE  \E f \in [0 .. n -> Nat] : IsRunningSum(f, w, n)
<1>. DEFINE T == {m \in Nat : m <= n => \E f \in [0 .. m -> Nat] : IsRunningSum(f, w, m)}
<1>1. 0 \in T
  <2>. DEFINE g == [k \in 0 .. 0 |-> 0]
  <2>. g \in [0 .. 0 -> Nat] /\ IsRunningSum(g, w, 0)
    BY DEF IsRunningSum
  <2>. QED
    OBVIOUS
<1>2. ASSUME NEW m \in Nat, m \in T
      PROVE  m + 1 \in T
  <2>. SUFFICES ASSUME m + 1 <= n
                PROVE  \E f \in [0 .. m + 1 -> Nat] : IsRunningSum(f, w, m + 1)
    OBVIOUS
  <2>1. PICK f \in [0 .. m -> Nat] : IsRunningSum(f, w, m)
    BY <1>2
  <2>. DEFINE g == [k \in 0 .. m + 1 |-> IF k = m + 1 THEN f[m] + w[m + 1] ELSE f[k]]
  <2>2. f[m] \in Nat /\ w[m + 1] \in Nat
    OBVIOUS
  <2>3. g \in [0 .. m + 1 -> Nat]
    BY <2>2
  <2>4. ASSUME NEW k \in 0 .. m + 1
        PROVE  g[k] = IF k = 0 THEN 0 ELSE g[k - 1] + w[k]
    BY <2>1 DEF IsRunningSum
  <2>5. IsRunningSum(g, w, m + 1)
    BY <2>4 DEF IsRunningSum
  <2>. QED
    BY <2>3, <2>5
<1>3. n \in T
  <2>. HIDE DEF T
  <2>. QED
    BY <1>1, <1>2, SetInduction
<1>. QED
  BY <1>3

(* Whatever satisfies the recursive definition is a function to numbers. *)
LEMMA RunningSumType ==
  ASSUME NEW w, NEW n \in Nat, \A k \in 1 .. n : w[k] \in Nat,
         NEW f, IsRunningSum(f, w, n)
  PROVE  f \in [0 .. n -> Nat]
<1>. DEFINE T == {m \in Nat : m <= n => f[m] \in Nat}
<1>1. 0 \in T
  BY DEF IsRunningSum
<1>2. ASSUME NEW m \in Nat, m \in T
      PROVE  m + 1 \in T
  <2>1. m + 1 <= n => f[m + 1] = f[m] + w[m + 1]
    BY DEF IsRunningSum
  <2>. QED
    BY <1>2, <2>1
<1>3. \A m \in Nat : m \in T
  <2>. HIDE DEF T
  <2>. QED
    BY <1>1, <1>2, SetInduction
<1>4. \A m \in 0 .. n : f[m] \in Nat
  BY <1>3
<1>. QED
  BY <1>4 DEF IsRunningSum

(* The running sums of numbers never decrease ... *)
LEMMA RunningSumGrows ==
  ASSUME NEW w, NEW n \in Nat, \A k \in 1 .. n : w[k] \in Nat,
         NEW f \in [0 .. n -> Nat], IsRunningSum(f, w, n),
         NEW j \in 0 .. n, NEW k \in j .. n
  PROVE  f[j] <= f[k]
<1>. DEFINE T == {m \in Nat : j + m <= n => f[j] <= f[j + m]}
<1>1. 0 \in T
  OBVIOUS
<1>2. ASSUME NEW m \in Nat, m \in T
      PROVE  m + 1 \in T
  <2>1. j + m + 1 <= n => f[j + m + 1] = f[j + m] + w[j + m + 1]
    BY DEF IsRunningSum
  <2>. QED
    BY <1>2, <2>1
<1>3. k - j \in T
  <2>1. k - j \in Nat
    OBVIOUS
  <2>. HIDE DEF T
  <2>. QED
    BY <2>1, <1>1, <1>2, SetInduction
<1>. QED
  BY <1>3

(* f are the running sums of the n numbers w, and those behind the j-th are 0. *)
SumsWithRest(f, w, n, j) ==
  /\ n \in Nat /\ f \in [0 .. n -> Nat] /\ IsRunningSum(f, w, n)
  /\ j \in 0 .. n /\ \A k \in j + 1 .. n : w[k] = 0

Rests(f, j, n) == \A k \in j .. n : f[k] = f[j]

(* ... and stay where they are over zeros. *)
LEMMA RunningSumRests ==
  ASSUME NEW w, NEW n, NEW f, NEW j, SumsWithRest(f, w, n, j)
  PROVE  Rests(f, j, n)
<1>0. /\ n \in Nat /\ f \in [0 .. n -> Nat] /\ IsRunningSum(f, w, n)
      /\ j \in 0 .. n /\ \A k \in j + 1 .. n : w[k] = 0
  BY DEF SumsWithRest
<1>. DEFINE T == {m \in Nat : j + m <= n => f[j + m] = f[j]}
<1>1. 0 \in T
  BY <1>0
<1>2. ASSUME NEW m \in Nat, m \in T
      PROVE  m + 1 \in T
  <2>1. j + m + 1 <= n => f[j + m + 1] = f[j + m] + w[j + m + 1]
    BY <1>0 DEF IsRunningSum
  <2>2. j + m + 1 <= n => w[j + m + 1] = 0 /\ f[j + m] \in Nat
    BY <1>0
  <2>. QED
    BY <1>0, <1>2, <2>1, <2>2
<1>3. \A m \in Nat : m \in T
  <2>. HIDE DEF T
  <2>. QED
    BY <1>1, <1>2, SetInduction
<1>4. ASSUME NEW k \in j .. n
      PROVE  f[k] = f[j]
  <2>1. k - j \in Nat /\ j + (k - j) = k /\ k <= n
    BY <1>0
  <2>2. k - j \in T
    BY <1>3, <2>1
  <2>. QED
    BY <2>1, <2>2
<1>. QED
  BY <1>4, Zenon DEF Rests

-----------------------------------------------------------------------------
(* Induction over sequences. *)
LEMMA SequenceInduction ==
  ASSUME NEW S, NEW T, << >> \in T,
         \A s \in Seq(S), e \in S : s \in T => Append(s, e) \in T
  PROVE  \A s \in Seq(S) : s \in T
<1>. DEFINE L == {n \in Nat : \A s \in Seq(S) : Len(s) = n => s \in T}
<1>1. 0 \in L
  BY EmptySeq
<1>2. ASSUME NEW n \in Nat, n \in L
      PROVE  n + 1 \in L
  <2>. SUFFICES ASSUME NEW s \in Seq(S), Len(s) = n + 1
                PROVE  s \in T
    OBVIOUS
  <2>1. PICK r \in Seq(S), e \in S : s = Append(r, e)
    BY SequenceEmptyOrAppend, EmptySeq
  <2>2. Len(r) = n
    BY <2>1, AppendProperties
  <2>. QED
    BY <1>2, <2>1, <2>2
<1>3. \A n \in Nat : n \in L
  <2>. HIDE DEF L
  <2>. QED
    BY <1>1, <1>2, SetInduction
<1>. QED
  BY <1>3, LenProperties

-----------------------------------------------------------------------------
(* One level of the recursion in FlattenSeq, and what that defines. *)
FlattenStep(f, ss, i) == IF i = 1 THEN ss[i] ELSE f[i - 1] \o ss[i]

IsFlattening(f, ss, n) == f = [i \in 1 .. n |-> FlattenStep(f, ss, i)]

(* How far FlattenSeq has come after the first sequence, and after each     *)
(* other.                                                                   *)
LEMMA FlattenStepFirst ==
  ASSUME NEW f, NEW ss
  PROVE  FlattenStep(f, ss, 1) = ss[1]
BY DEF FlattenStep

LEMMA FlattenStepNext ==
  ASSUME NEW f, NEW ss, NEW i \in Nat, i # 0
  PROVE  FlattenStep(f, ss, i + 1) = f[i] \o ss[i + 1]
<1>. DEFINE k == i + 1
<1>1. k # 1 /\ k - 1 = i
  OBVIOUS
<1>. HIDE DEF k
<1>2. FlattenStep(f, ss, k) = f[i] \o ss[k]
  BY <1>1, Zenon DEF FlattenStep
<1>. QED
  BY <1>2 DEF k

(* The values of a flattening, one after the other. *)
LEMMA FlatteningValues ==
  ASSUME NEW f, NEW ss, NEW n, IsFlattening(f, ss, n)
  PROVE  \A i \in 1 .. n : f[i] = FlattenStep(f, ss, i)
BY DEF IsFlattening

(* The recursion in FlattenSeq defines a function ... *)
LEMMA FlatteningExists ==
  ASSUME NEW S, NEW ss \in Seq(Seq(S))
  PROVE  \E f \in [1 .. Len(ss) -> Seq(S)] : IsFlattening(f, ss, Len(ss))
<1>. DEFINE T == {m \in Nat : m <= Len(ss) =>
                    \E f \in [1 .. m -> Seq(S)] : IsFlattening(f, ss, m)}
<1>0. Len(ss) \in Nat /\ \A m \in 1 .. Len(ss) : ss[m] \in Seq(S)
  BY LenProperties, ElementOfSeq
<1>1. 0 \in T
  <2>. DEFINE g == [k \in 1 .. 0 |-> << >>]
  <2>1. g \in [1 .. 0 -> Seq(S)] /\ IsFlattening(g, ss, 0)
    BY DEF IsFlattening
  <2>. QED
    BY <2>1
<1>2. ASSUME NEW m \in Nat, m \in T
      PROVE  m + 1 \in T
  <2>. SUFFICES ASSUME m + 1 <= Len(ss)
                PROVE  \E f \in [1 .. m + 1 -> Seq(S)] : IsFlattening(f, ss, m + 1)
    OBVIOUS
  <2>1. PICK f \in [1 .. m -> Seq(S)] : IsFlattening(f, ss, m)
    BY <1>0, <1>2
  <2>. DEFINE c == FlattenStep(f, ss, m + 1)
              g == [k \in 1 .. m + 1 |-> IF k = m + 1 THEN c ELSE f[k]]
  <2>2. c \in Seq(S)
    <3>1. CASE m = 0
      <4>1. m + 1 = 1 /\ ss[1] \in Seq(S)
        BY <3>1, <1>0
      <4>. QED
        BY <4>1, FlattenStepFirst
    <3>2. CASE m # 0
      <4>1. f[m] \in Seq(S) /\ ss[m + 1] \in Seq(S)
        BY <3>2, <1>0
      <4>2. f[m] \o ss[m + 1] \in Seq(S)
        BY <4>1, ConcatProperties
      <4>. QED
        BY <3>2, <4>2, FlattenStepNext
    <3>. QED
      BY <3>1, <3>2
  <2>3. /\ \A k \in 1 .. m + 1 : (k = m + 1 \/ k \in 1 .. m) 
        /\ \A k \in 1 .. m + 1 : k # 1 => k - 1 \in 1 .. m
        /\ \A k \in 1 .. m : k \in 1 .. m + 1 /\ k # m + 1
    OBVIOUS
  <2>4. \A k \in 1 .. m : g[k] = f[k]
    BY <2>3, Zenon
  <2>5. g[m + 1] = c
    OBVIOUS
  <2>6. g \in [1 .. m + 1 -> Seq(S)] /\ g = [k \in 1 .. m + 1 |-> g[k]]
    BY <2>2
  <2>. HIDE DEF g
  <2>7. ASSUME NEW k \in 1 .. m + 1
        PROVE  g[k] = FlattenStep(g, ss, k)
    <3>1. FlattenStep(g, ss, k) = FlattenStep(f, ss, k)
      BY <2>3, <2>4, Zenon DEF FlattenStep
    <3>2. k \in 1 .. m => f[k] = FlattenStep(f, ss, k)
      BY <2>1, FlatteningValues
    <3>. QED
      BY <2>3, <2>4, <2>5, <3>1, <3>2, Zenon
  <2>8. IsFlattening(g, ss, m + 1)
    BY <2>6, <2>7, Zenon DEF IsFlattening
  <2>. QED
    BY <2>6, <2>8
<1>3. Len(ss) \in T
  <2>. HIDE DEF T
  <2>. QED
    BY <1>0, <1>1, <1>2, SetInduction
<1>. QED
  BY <1>0, <1>3

(* ... that depends on the sequences it has concatenated only. *)
SameUpTo(f, g, n) == \A i \in 1 .. n : f[i] = g[i]

(* There is only one flattening of a sequence of sequences. *)
LEMMA FlatteningsAgree ==
  ASSUME NEW ss, NEW tt, NEW n \in Nat, NEW m \in Nat, n <= m, SameUpTo(ss, tt, n),
         NEW f, IsFlattening(f, ss, n), NEW g, IsFlattening(g, tt, m)
  PROVE  SameUpTo(f, g, n)
<1>. DEFINE T == {k \in Nat : k \in 1 .. n => f[k] = g[k]}
<1>1. 0 \in T
  OBVIOUS
<1>2. ASSUME NEW k \in Nat, k \in T
      PROVE  k + 1 \in T
  <2>. SUFFICES ASSUME k + 1 <= n
                PROVE  f[k + 1] = g[k + 1]
    OBVIOUS
  <2>1. k + 1 \in 1 .. n /\ k + 1 \in 1 .. m
    OBVIOUS
  <2>2. f[k + 1] = FlattenStep(f, ss, k + 1) /\ g[k + 1] = FlattenStep(g, tt, k + 1)
    BY <2>1, FlatteningValues
  <2>3. CASE k = 0
    <3>1. k + 1 = 1
      BY <2>3
    <3>. QED
      BY <2>1, <2>2, <3>1, FlattenStepFirst DEF SameUpTo
  <2>4. CASE k # 0
    <3>1. /\ FlattenStep(f, ss, k + 1) = f[k] \o ss[k + 1]
          /\ FlattenStep(g, tt, k + 1) = g[k] \o tt[k + 1]
      BY <2>4, FlattenStepNext
    <3>2. f[k] = g[k] /\ ss[k + 1] = tt[k + 1]
      BY <1>2, <2>4 DEF SameUpTo
    <3>. QED
      BY <2>2, <3>1, <3>2, Zenon
  <2>. QED
    BY <2>3, <2>4
<1>3. \A k \in Nat : k \in T
  <2>. HIDE DEF T
  <2>. QED
    BY <1>1, <1>2, SetInduction
<1>. QED
  BY <1>3 DEF SameUpTo

(* FlattenSeq is the last value of such a flattening. *)
LEMMA FlattenDef ==
  ASSUME NEW S, NEW ss \in Seq(Seq(S)), ss # << >>
  PROVE  \E f \in [1 .. Len(ss) -> Seq(S)] :
           /\ IsFlattening(f, ss, Len(ss))
           /\ FlattenSeq(ss) = f[Len(ss)]
<1>1. Len(ss) \in 1 .. Len(ss)
  BY EmptySeq, LenProperties
<1>2. PICK h \in [1 .. Len(ss) -> Seq(S)] : IsFlattening(h, ss, Len(ss))
  BY <1>1, FlatteningExists
<1>. DEFINE g == CHOOSE f : IsFlattening(f, ss, Len(ss))
<1>3. IsFlattening(g, ss, Len(ss))
  BY <1>2
<1>4. FlattenSeq(ss) = g[Len(ss)]
  BY <1>1 DEF FlattenSeq, IsFlattening, FlattenStep
<1>5. SameUpTo(g, h, Len(ss))
  <2>1. SameUpTo(ss, ss, Len(ss))
    BY DEF SameUpTo
  <2>2. Len(ss) \in Nat /\ Len(ss) <= Len(ss)
    BY <1>1
  <2>. HIDE DEF g
  <2>. QED
    BY <2>1, <2>2, <1>2, <1>3, FlatteningsAgree
<1>6. FlattenSeq(ss) = h[Len(ss)]
  BY <1>1, <1>4, <1>5 DEF SameUpTo
<1>. QED
  BY <1>2, <1>6

(* No sequences give no elements. *)
LEMMA FlattenEmpty == FlattenSeq(<< >>) = << >>
BY DEF FlattenSeq

(* Sequences over S give a sequence over S. *)
LEMMA FlattenType ==
  ASSUME NEW S, NEW ss \in Seq(Seq(S))
  PROVE  FlattenSeq(ss) \in Seq(S)
<1>1. CASE ss = << >>
  BY <1>1, FlattenEmpty, EmptySeq
<1>2. CASE ss # << >>
  <2>1. PICK f \in [1 .. Len(ss) -> Seq(S)] : FlattenSeq(ss) = f[Len(ss)]
    BY <1>2, FlattenDef
  <2>2. Len(ss) \in 1 .. Len(ss)
    BY <1>2, EmptySeq, LenProperties
  <2>. QED
    BY <2>1, <2>2
<1>. QED
  BY <1>1, <1>2

(* FlattenSeq of a longer sequence of sequences. *)
LEMMA FlattenAppend ==
  ASSUME NEW S, NEW ss \in Seq(Seq(S)), NEW s \in Seq(S)
  PROVE  FlattenSeq(Append(ss, s)) = FlattenSeq(ss) \o s
<1>. DEFINE tt == Append(ss, s)
            n  == Len(ss)
<1>1. /\ tt \in Seq(Seq(S)) /\ tt # << >>
      /\ Len(tt) = n + 1 /\ tt[n + 1] = s
      /\ \A i \in 1 .. n : ss[i] = tt[i]
  BY AppendProperties
<1>2. n \in Nat
  BY LenProperties
<1>3. PICK g : IsFlattening(g, tt, n + 1) /\ FlattenSeq(tt) = g[n + 1]
  BY <1>1, FlattenDef
<1>. HIDE DEF tt, n
<1>4. n + 1 \in 1 .. n + 1
  BY <1>2
<1>5. g[n + 1] = FlattenStep(g, tt, n + 1)
  BY <1>3, <1>4, FlatteningValues
<1>6. CASE ss = << >>
  <2>1. n + 1 = 1
    BY <1>6, EmptySeq DEF n
  <2>2. FlattenSeq(ss) \o s = s
    BY <1>6, FlattenEmpty, ConcatEmptySeq
  <2>3. FlattenSeq(tt) = s
    <3>1. FlattenSeq(tt) = FlattenStep(g, tt, 1)
      BY <1>3, <1>5, <2>1
    <3>2. tt[1] = s
      BY <1>1, <2>1
    <3>. QED
      BY <3>1, <3>2, FlattenStepFirst
  <2>. QED
    BY <2>2, <2>3 DEF tt
<1>7. CASE ss # << >>
  <2>1. n # 0 /\ n \in 1 .. n /\ n + 1 \in Nat /\ n <= n + 1
    BY <1>2, <1>7, EmptySeq DEF n
  <2>2. PICK f : IsFlattening(f, ss, n) /\ FlattenSeq(ss) = f[n]
    BY <1>7, FlattenDef DEF n
  <2>3. SameUpTo(f, g, n)
    <3>1. SameUpTo(ss, tt, n)
      BY <1>1 DEF SameUpTo
    <3>2. IsFlattening(f, ss, n) /\ IsFlattening(g, tt, n + 1)
      BY <1>3, <2>2
    <3>. QED
      BY <1>2, <2>1, <3>1, <3>2, FlatteningsAgree
  <2>4. FlattenStep(g, tt, n + 1) = g[n] \o tt[n + 1]
    BY <1>2, <2>1, FlattenStepNext
  <2>5. FlattenSeq(tt) = FlattenSeq(ss) \o s
    BY <1>1, <1>3, <1>5, <2>1, <2>2, <2>3, <2>4, Zenon DEF SameUpTo
  <2>. QED
    BY <2>5 DEF tt
<1>. QED
  BY <1>6, <1>7

(* FlattenSeq distributes over concatenation. *)
LEMMA FlattenConcat ==
  ASSUME NEW S, NEW ss \in Seq(Seq(S)), NEW tt \in Seq(Seq(S))
  PROVE  FlattenSeq(ss \o tt) = FlattenSeq(ss) \o FlattenSeq(tt)
<1>. DEFINE T == {uu \in Seq(Seq(S)) : FlattenSeq(ss \o uu) = FlattenSeq(ss) \o FlattenSeq(uu)}
<1>1. << >> \in T
  <2>1. FlattenSeq(ss) \in Seq(S)
    BY FlattenType
  <2>. QED
    BY <2>1, FlattenEmpty, ConcatEmptySeq, EmptySeq
<1>2. ASSUME NEW uu \in Seq(Seq(S)), NEW s \in Seq(S), uu \in T
      PROVE  Append(uu, s) \in T
  <2>1. ss \o uu \in Seq(Seq(S)) /\ Append(uu, s) \in Seq(Seq(S))
    BY ConcatProperties, AppendProperties
  <2>2. ss \o Append(uu, s) = Append(ss \o uu, s)
    <3>1. <<s>> \in Seq(Seq(S))
      OBVIOUS
    <3>. QED
      BY <2>1, <3>1, AppendIsConcat, ConcatAssociative
  <2>3. FlattenSeq(ss \o Append(uu, s)) = (FlattenSeq(ss) \o FlattenSeq(uu)) \o s
    BY <1>2, <2>1, <2>2, FlattenAppend
  <2>4. FlattenSeq(Append(uu, s)) = FlattenSeq(uu) \o s
    BY FlattenAppend
  <2>5. FlattenSeq(ss) \in Seq(S) /\ FlattenSeq(uu) \in Seq(S)
    BY FlattenType
  <2>6. FlattenSeq(ss \o Append(uu, s)) = FlattenSeq(ss) \o FlattenSeq(Append(uu, s))
    <3>1. (FlattenSeq(ss) \o FlattenSeq(uu)) \o s = FlattenSeq(ss) \o (FlattenSeq(uu) \o s)
      BY <2>5, ConcatAssociative
    <3>. QED
      BY <2>3, <2>4, <3>1, Zenon
  <2>. QED
    BY <2>1, <2>6
<1>3. tt \in T
  <2>. HIDE DEF T
  <2>. QED
    BY <1>1, <1>2, SequenceInduction
<1>. QED
  BY <1>3

(* FlattenSeq from the other end. *)
LEMMA FlattenHead ==
  ASSUME NEW S, NEW ss \in Seq(Seq(S)), ss # << >>
  PROVE  FlattenSeq(ss) = Head(ss) \o FlattenSeq(Tail(ss))
<1>. DEFINE h == Head(ss)
            t == Tail(ss)
<1>1. h \in Seq(S) /\ t \in Seq(Seq(S)) /\ Len(t) = Len(ss) - 1
      /\ \A i \in 1 .. Len(t) : t[i] = ss[i + 1]
  BY HeadTailProperties
<1>2. ss[1] = h /\ Len(ss) \in Nat /\ Len(ss) # 0
  BY EmptySeq, LenProperties
<1>. HIDE DEF h, t
<1>3. << h >> \in Seq(Seq(S)) /\ Len(<< h >>) = 1 /\ << h >>[1] = h
  BY <1>1
<1>4. ss = << h >> \o t
  <2>. DEFINE u == << h >> \o t
  <2>1. /\ u \in Seq(Seq(S)) /\ Len(u) = 1 + Len(t)
        /\ \A i \in 1 .. 1 + Len(t) : u[i] = IF i <= 1 THEN << h >>[i] ELSE t[i - 1]
    BY <1>1, <1>3, ConcatProperties
  <2>. HIDE DEF u
  <2>2. Len(ss) = Len(u)
    BY <1>1, <1>2, <2>1
  <2>3. ASSUME NEW i \in 1 .. Len(ss)
        PROVE  ss[i] = u[i]
    <3>1. CASE i = 1
      BY <1>2, <1>3, <2>1, <2>2, <3>1
    <3>2. CASE i # 1
      <4>1. i - 1 \in 1 .. Len(t) /\ i - 1 + 1 = i /\ ~(i <= 1)
        BY <1>1, <1>2, <3>2
      <4>2. t[i - 1] = ss[i]
        BY <1>1, <4>1
      <4>. QED
        BY <2>1, <2>2, <4>1, <4>2
    <3>. QED
      BY <3>1, <3>2
  <2>4. ss = u
    BY <2>1, <2>2, <2>3, SeqEqual
  <2>. QED
    BY <2>4 DEF u
<1>5. FlattenSeq(<< h >>) = h
  <2>1. << h >> = Append(<< >>, h)
    BY <1>1
  <2>2. FlattenSeq(Append(<< >>, h)) = FlattenSeq(<< >>) \o h
    BY <1>1, EmptySeq, FlattenAppend
  <2>. QED
    BY <1>1, <2>1, <2>2, FlattenEmpty, ConcatEmptySeq
<1>6. FlattenSeq(<< h >> \o t) = FlattenSeq(<< h >>) \o FlattenSeq(t)
  BY <1>1, <1>3, FlattenConcat
<1>. QED
  BY <1>4, <1>5, <1>6, Zenon DEF h, t

(* What is left of a sequence after a first part is a suffix of it. *)
LEMMA ConcatSuffix ==
  ASSUME NEW S, NEW s \in Seq(S), NEW t \in Seq(S)
  PROVE  IsSuffix(t, s \o t)
<1>. DEFINE u == s \o t
            a == Reverse(t)
            b == Reverse(u)
<1>1. /\ u \in Seq(S) /\ Len(u) = Len(s) + Len(t)
      /\ \A i \in 1 .. Len(s) + Len(t) : u[i] = IF i <= Len(s) THEN s[i] ELSE t[i - Len(s)]
  BY ConcatProperties
<1>2. Len(s) \in Nat /\ Len(t) \in Nat
  BY LenProperties
<1>. HIDE DEF u
<1>3. ASSUME NEW v \in Seq(S)
      PROVE  /\ Reverse(v) \in Seq(S) /\ Len(Reverse(v)) = Len(v)
             /\ \A i \in 1 .. Len(v) : Reverse(v)[i] = v[(Len(v) - i) + 1]
  <2>1. Len(v) \in Nat /\ \A i \in 1 .. Len(v) : v[(Len(v) - i) + 1] \in S
    BY LenProperties
  <2>. QED
    BY <2>1 DEF Reverse
<1>4. /\ a \in Seq(S) /\ Len(a) = Len(t)
      /\ \A i \in 1 .. Len(t) : a[i] = t[(Len(t) - i) + 1]
  BY <1>3
<1>5. /\ b \in Seq(S) /\ Len(b) = Len(u)
      /\ \A i \in 1 .. Len(u) : b[i] = u[(Len(u) - i) + 1]
  BY <1>1, <1>3
<1>. HIDE DEF a, b
<1>6. ASSUME NEW i \in 1 .. Len(t)
      PROVE  a[i] = b[i]
  <2>. DEFINE j == (Len(u) - i) + 1
  <2>1. /\ j \in 1 .. Len(s) + Len(t) /\ ~(j <= Len(s)) /\ i \in 1 .. Len(u)
        /\ j - Len(s) = (Len(t) - i) + 1
    BY <1>1, <1>2
  <2>2. b[i] = u[j]
    BY <1>5, <2>1
  <2>. HIDE DEF j
  <2>3. u[j] = t[(Len(t) - i) + 1]
    BY <1>1, <2>1
  <2>. QED
    BY <1>4, <2>2, <2>3
<1>7. /\ SubSeq(a, 1, Len(t)) \in Seq(S) /\ SubSeq(b, 1, Len(t)) \in Seq(S)
      /\ Len(SubSeq(a, 1, Len(t))) = Len(t) /\ Len(SubSeq(b, 1, Len(t))) = Len(t)
      /\ \A i \in 1 .. Len(t) : SubSeq(a, 1, Len(t))[i] = a[i] /\ SubSeq(b, 1, Len(t))[i] = b[i]
  <2>1. (\A i \in 1 .. Len(t) : a[i] \in S) /\ (\A i \in 1 .. Len(t) : b[i] \in S)
    BY <1>1, <1>2, <1>4, <1>5, ElementOfSeq
  <2>. QED
    BY <1>2, <2>1, SubSeqProperties
<1>8. SubSeq(a, 1, Len(t)) = SubSeq(b, 1, Len(t))
  BY <1>6, <1>7, SeqEqual
<1>. QED
  BY <1>1, <1>2, <1>4, <1>5, <1>8 DEF IsSuffix, IsPrefix, a, b, u

-----------------------------------------------------------------------------
(* f[k] is where the k-th of the sequences ss ends when they are laid end  *)
(* to end, and s is that layout.                                           *)
EndsAt(f, ss) ==
  /\ f[0] = 0
  /\ \A k \in 0 .. Len(ss) - 1 : f[k] \in Nat /\ f[k + 1] = f[k] + Len(ss[k + 1])

LaidOut(s, f, ss) ==
  /\ Len(s) = f[Len(ss)]
  /\ \A k \in 0 .. Len(ss) - 1 : \A j \in 1 .. Len(ss[k + 1]) :
       f[k] + j \in 1 .. Len(s) /\ s[f[k] + j] = ss[k + 1][j]

(* FlattenSeq lays sequences end to end. *)
LEMMA FlattenLaidOut ==
  ASSUME NEW S, NEW ss \in Seq(Seq(S)), NEW f, EndsAt(f, ss)
  PROVE  LaidOut(FlattenSeq(ss), f, ss)
<1>. DEFINE T == {uu \in Seq(Seq(S)) : EndsAt(f, uu) => LaidOut(FlattenSeq(uu), f, uu)}
<1>1. << >> \in T
  <2>1. Len(<< >>) = 0 /\ << >> \in Seq(Seq(S))
    BY EmptySeq
  <2>. QED
    BY <2>1, FlattenEmpty DEF EndsAt, LaidOut
<1>2. ASSUME NEW uu \in Seq(Seq(S)), NEW s \in Seq(S), uu \in T
      PROVE  Append(uu, s) \in T
  <2>. DEFINE vv == Append(uu, s)
              n  == Len(uu)
              x  == FlattenSeq(uu)
              y  == x \o s
  <2>1. /\ vv \in Seq(Seq(S)) /\ Len(vv) = n + 1
        /\ vv[n + 1] = s /\ \A i \in 1 .. n : vv[i] = uu[i]
    BY AppendProperties
  <2>2. n \in Nat /\ Len(s) \in Nat
    BY LenProperties
  <2>3. x \in Seq(S) /\ FlattenSeq(vv) = y
    BY FlattenType, FlattenAppend
  <2>. SUFFICES ASSUME EndsAt(f, vv) PROVE LaidOut(y, f, vv)
    BY <2>1, <2>3
  <2>. HIDE DEF vv, n, x, y
  <2>4. Len(x) \in Nat
    BY <2>3, LenProperties
  <2>5. /\ Len(y) = Len(x) + Len(s)
        /\ \A i \in 1 .. Len(x) + Len(s) : y[i] = IF i <= Len(x) THEN x[i] ELSE s[i - Len(x)]
    BY <2>3, ConcatProperties DEF y
  <2>6. EndsAt(f, uu)
    <3>1. ASSUME NEW k \in 0 .. n - 1
          PROVE  f[k] \in Nat /\ f[k + 1] = f[k] + Len(uu[k + 1])
      <4>1. k \in 0 .. Len(vv) - 1 /\ k + 1 \in 1 .. n
        BY <2>1, <2>2
      <4>2. f[k] \in Nat /\ f[k + 1] = f[k] + Len(vv[k + 1])
        BY <4>1 DEF EndsAt
      <4>. QED
        BY <2>1, <4>1, <4>2
    <3>. QED
      BY <3>1 DEF EndsAt, n
  <2>7. LaidOut(x, f, uu)
    BY <1>2, <2>6 DEF x
  <2>8. f[n] = Len(x) /\ f[n + 1] = Len(x) + Len(s)
    <3>1. f[n] = Len(x)
      BY <2>7 DEF LaidOut, n
    <3>2. n \in 0 .. Len(vv) - 1
      BY <2>1, <2>2
    <3>. QED
      BY <2>1, <3>1, <3>2 DEF EndsAt
  <2>9. ASSUME NEW k \in 0 .. Len(vv) - 1, NEW j \in 1 .. Len(vv[k + 1])
        PROVE  f[k] + j \in 1 .. Len(y) /\ y[f[k] + j] = vv[k + 1][j]
    <3>1. CASE k = n
      <4>1. f[k] = Len(x) /\ vv[k + 1] = s /\ j \in 1 .. Len(s)
        BY <2>1, <2>8, <3>1
      <4>2. ASSUME NEW i \in 1 .. Len(x) + Len(s), i = Len(x) + j
            PROVE  y[i] = s[j]
        <5>1. ~(i <= Len(x)) /\ i - Len(x) = j
          BY <2>2, <2>4, <4>1, <4>2
        <5>. QED
          BY <2>5, <5>1
      <4>3. Len(x) + j \in 1 .. Len(x) + Len(s)
        BY <2>2, <2>4, <4>1
      <4>. QED
        BY <2>5, <4>1, <4>2, <4>3
    <3>2. CASE k \in 0 .. n - 1
      <4>1. vv[k + 1] = uu[k + 1] /\ j \in 1 .. Len(uu[k + 1])
        BY <2>1, <2>2, <3>2
      <4>2. f[k] + j \in 1 .. Len(x) /\ x[f[k] + j] = uu[k + 1][j]
        BY <2>7, <3>2, <4>1 DEF LaidOut, n
      <4>3. f[k] + j \in 1 .. Len(x) + Len(s) /\ f[k] + j <= Len(x)
        BY <2>2, <2>4, <4>2
      <4>. QED
        BY <2>5, <4>1, <4>2, <4>3
    <3>. QED
      BY <2>1, <2>2, <3>1, <3>2
  <2>. QED
    BY <2>1, <2>5, <2>8, <2>9 DEF LaidOut
<1>3. ss \in T
  <2>. HIDE DEF T
  <2>. QED
    BY <1>1, <1>2, SequenceInduction
<1>. QED
  BY <1>3

(* The n numbers v are those of w from the one after the a-th. *)
SameFrom(v, w, a, n) == \A i \in 1 .. n, k \in Nat : k = a + i => v[i] = w[k]

(* f are the running sums of the n numbers w, each of them a number. *)
AreRunningSums(f, w, n) ==
  /\ f \in [0 .. n -> Nat] /\ IsRunningSum(f, w, n)
  /\ \A k \in 1 .. n : w[k] \in Nat

(* g goes on from the a-th of the running sums f, for n more. *)
Continues(f, g, a, n) == \A i \in 0 .. n, k \in Nat : k = a + i => f[k] = f[a] + g[i]

(* The running sums of a part differ from those of the whole by what is     *)
(* before that part.                                                        *)
LEMMA RunningSumPart ==
  ASSUME NEW w, NEW f, NEW n \in Nat, AreRunningSums(f, w, n),
         NEW v, NEW g, NEW m \in Nat, AreRunningSums(g, v, m),
         NEW a \in 0 .. n, NEW l \in 0 .. m, a + l <= n, SameFrom(v, w, a, l)
  PROVE  Continues(f, g, a, l)
<1>. USE DEF AreRunningSums
<1>. DEFINE T == {i \in Nat : \A k \in 0 .. n : i <= l /\ k = a + i => f[k] = f[a] + g[i]}
<1>1. 0 \in T
  <2>1. g[0] = 0
    BY RunningSumValues
  <2>2. f[a] \in Nat
    OBVIOUS
  <2>. QED
    BY <2>1, <2>2
<1>2. ASSUME NEW i \in Nat, i \in T
      PROVE  i + 1 \in T
  <2>. SUFFICES ASSUME NEW k \in 0 .. n, i + 1 <= l, k = a + (i + 1)
                PROVE  f[k] = f[a] + g[i + 1]
    OBVIOUS
  <2>1. i + 1 \in 1 .. l /\ i + 1 \in 1 .. m /\ k \in 1 .. n /\ k - 1 \in 0 .. n
        /\ k - 1 = a + i
    OBVIOUS
  <2>2. f[k] = f[k - 1] + w[k]
    BY <2>1, RunningSumValues
  <2>3. g[i + 1] = g[i] + v[i + 1]
    BY <2>1 DEF IsRunningSum
  <2>4. v[i + 1] = w[k]
    BY <2>1 DEF SameFrom
  <2>5. f[k - 1] = f[a] + g[i]
    BY <1>2, <2>1
  <2>6. f[a] \in Nat /\ g[i] \in Nat /\ w[k] \in Nat
    BY <2>1
  <2>. HIDE DEF T, AreRunningSums
  <2>. QED
    BY <2>2, <2>3, <2>4, <2>5, <2>6
<1>3. \A i \in Nat : i \in T
  <2>. HIDE DEF T
  <2>. QED
    BY <1>1, <1>2, SetInduction
<1>4. ASSUME NEW i \in 0 .. l, NEW k \in Nat, k = a + i
      PROVE  f[k] = f[a] + g[i]
  <2>1. i \in Nat /\ i <= l /\ k \in 0 .. n
    BY <1>4
  <2>2. i \in T
    BY <1>3, <2>1
  <2>. QED
    BY <1>4, <2>1, <2>2
<1>. QED
  BY <1>4, Zenon DEF Continues

(* The bytes a are those of r, of the complete commands c and of e. *)
Tiles(r, c, e, a) == a = r \o (c \o e)

AreSequences(S, s, t, u) == s \in Seq(S) /\ t \in Seq(S) /\ u \in Seq(S)
Associate(s, t, u) == (s \o t) \o u = s \o (t \o u)

(* Three sequences can be put together in either order. *)
LEMMA SequencesAssociate ==
  ASSUME NEW S, NEW s, NEW t, NEW u, AreSequences(S, s, t, u)
  PROVE  Associate(s, t, u)
BY ConcatAssociative DEF AreSequences, Associate

(* Bytes are added at the end and given up at the front. *)
LEMMA AddedBytes ==
  ASSUME NEW S, NEW r \in Seq(S), NEW c \in Seq(S), NEW e \in Seq(S), NEW d \in Seq(S),
         NEW a, Tiles(r, c, e, a)
  PROVE  Tiles(r, c, e \o d, a \o d)
<1>1. c \o e \in Seq(S)
  BY ConcatProperties
<1>2. AreSequences(S, c, e, d) /\ AreSequences(S, r, c \o e, d)
  BY <1>1, Zenon DEF AreSequences
<1>3. Associate(c, e, d) /\ Associate(r, c \o e, d)
  BY <1>2, SequencesAssociate, Zenon
<1>. QED
  BY <1>3, Zenon DEF Tiles, Associate

(* What moves from the front of c and e to the end of r changes nothing of  *)
(* the whole.                                                               *)
LEMMA EvictedBytes ==
  ASSUME NEW S, NEW r \in Seq(S), NEW c, NEW e, NEW a, Tiles(r, c, e, a),
         NEW gone \in Seq(S), NEW n \in Seq(S), c \o e = gone \o n
  PROVE  r \o gone \in Seq(S) /\ Tiles(r \o gone, n, << >>, a)
<1>1. n \o << >> = n
  BY ConcatEmptySeq
<1>2. (r \o gone) \o n = r \o (gone \o n)
  <2>1. AreSequences(S, r, gone, n)
    BY Zenon DEF AreSequences
  <2>2. Associate(r, gone, n)
    BY <2>1, SequencesAssociate, Zenon
  <2>. QED
    BY <2>2, Zenon DEF Associate
<1>3. r \o gone \in Seq(S)
  BY ConcatProperties
<1>. QED
  BY <1>1, <1>2, <1>3, Zenon DEF Tiles

(* The n elements of s from the one after the o-th. *)
Stretch(s, o, n) == SubSeq(s, o + 1, o + n)

(* s has n elements behind the o-th. *)
Reaches(S, s, o, n) == s \in Seq(S) /\ o \in Nat /\ n \in Nat /\ o + n <= Len(s)

(* u are the n elements behind the o-th of s. *)
IsStretch(S, u, s, o, n) ==
  /\ u \in Seq(S) /\ Len(u) = n
  /\ \A i \in 1 .. n, j \in Nat : j = o + i => u[i] = s[j]

(* The type, length and elements of a stretch. *)
LEMMA StretchType ==
  ASSUME NEW S, NEW s, NEW o, NEW n, Reaches(S, s, o, n)
  PROVE  IsStretch(S, Stretch(s, o, n), s, o, n)
<1>. DEFINE l == o + 1
            r == o + n
            u == SubSeq(s, l, r)
<1>0. s \in Seq(S) /\ o \in Nat /\ n \in Nat /\ o + n <= Len(s)
  BY DEF Reaches
<1>1. l \in Int /\ r \in Int /\ r - l + 1 = n /\ (l <= r <=> n # 0)
  BY <1>0
<1>2. \A i \in l .. r : s[i] \in S
  BY <1>0, LenProperties
<1>3. \A i \in 1 .. n : l + i - 1 = o + i
  BY <1>0
<1>. HIDE DEF l, r
<1>4. /\ u \in Seq(S)
      /\ Len(u) = IF l <= r THEN r - l + 1 ELSE 0
      /\ \A i \in 1 .. r - l + 1 : u[i] = s[l + i - 1]
  BY <1>0, <1>1, <1>2, SubSeqProperties
<1>. HIDE DEF u
<1>5. Len(u) = n
  BY <1>0, <1>1, <1>4
<1>6. \A i \in 1 .. n : u[i] = s[o + i]
  BY <1>1, <1>3, <1>4
<1>7. Stretch(s, o, n) = u
  BY Zenon DEF Stretch, u, l, r
<1>. QED
  BY <1>4, <1>5, <1>6, <1>7, Zenon DEF IsStretch

SameStretch(S, s, o, t, x, n) ==
  /\ s \in Seq(S) /\ o \in Nat /\ n \in Nat /\ o + n <= Len(s)
  /\ t \in Seq(S) /\ x \in Nat /\ x + n <= Len(t)
  /\ \A j, k \in Nat : o < j /\ j <= o + n /\ j - o = k - x => s[j] = t[k]

(* Stretches whose elements are the same are the same sequence. *)
LEMMA SameBytes ==
  ASSUME NEW S, NEW s, NEW o, NEW t, NEW x, NEW n, SameStretch(S, s, o, t, x, n)
  PROVE  Stretch(s, o, n) = Stretch(t, x, n)
<1>. DEFINE u == Stretch(s, o, n)
            v == Stretch(t, x, n)
<1>0. /\ s \in Seq(S) /\ o \in Nat /\ n \in Nat /\ o + n <= Len(s)
      /\ t \in Seq(S) /\ x \in Nat /\ x + n <= Len(t)
  BY DEF SameStretch
<1>1. u \in Seq(S) /\ Len(u) = n /\ \A i \in 1 .. n, j \in Nat : j = o + i => u[i] = s[j]
  <2>1. Reaches(S, s, o, n)
    BY <1>0, Zenon DEF Reaches
  <2>2. IsStretch(S, u, s, o, n)
    BY <2>1, StretchType, Zenon
  <2>. QED
    BY <2>2, Zenon DEF IsStretch
<1>2. v \in Seq(S) /\ Len(v) = n /\ \A i \in 1 .. n, j \in Nat : j = x + i => v[i] = t[j]
  <2>1. Reaches(S, t, x, n)
    BY <1>0, Zenon DEF Reaches
  <2>2. IsStretch(S, v, t, x, n)
    BY <2>1, StretchType, Zenon
  <2>. QED
    BY <2>2, Zenon DEF IsStretch
<1>. HIDE DEF u, v
<1>3. ASSUME NEW i \in 1 .. Len(u) PROVE u[i] = v[i]
  <2>1. PICK j, k \in Nat : j = o + i /\ k = x + i /\ s[j] = t[k]
    BY <1>0, <1>1 DEF SameStretch
  <2>2. u[i] = s[j]
    BY <1>1, <2>1
  <2>3. v[i] = t[k]
    BY <1>1, <1>2, <2>1
  <2>. QED
    BY <2>1, <2>2, <2>3
<1>4. u = v
  BY <1>1, <1>2, <1>3, SeqEqual
<1>. QED
  BY <1>4 DEF u, v
=============================================================================
