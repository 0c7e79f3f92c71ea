-------------------------- MODULE ThreadingProofs --------------------------
(***************************************************************************)
(* Proofs about Threading, for any threads and mutexes: a thread has the   *)
(* mutex from its lock to its unlock, and reports success only after that. *)
(***************************************************************************)
EXTENDS Threading, TLAPS

(* A thread that sleeps with the mutex is its holder, and only such a one. *)
HolderHolds ==
  /\ \A t \in Thread : pc[t] = "hold" => holder[MutexOf[t]] = t
  /\ \A t \in Thread : holder[MutexOf[t]] = t => pc[t] = "hold"

Reported ==
  \A t \in Thread :
    /\ success[t] <=> pc[t] \in {"returned", "joined"}
    /\ pc[t] \in {"wait", "lock", "hold", "report"} => tdata[t] = "allocated"

(* Every variable keeps its type. *)
THEOREM TypesKept == Spec => []TypeOK
<1>1. Init => TypeOK
  BY DEF Init, TypeOK
<1>2. TypeOK /\ [Next]_vars => TypeOK'
  <2>. SUFFICES ASSUME TypeOK, [Next]_vars
                PROVE  TypeOK'
    OBVIOUS
  <2>. USE ThreadingAssumption DEF TypeOK, Step
  <2>1. ASSUME NEW t \in Thread, StartThread(t)
        PROVE  TypeOK'
    BY <2>1 DEF StartThread
  <2>2. ASSUME NEW t \in Thread, WaitToObtain(t)
        PROVE  TypeOK'
    BY <2>2 DEF WaitToObtain
  <2>3. ASSUME NEW t \in Thread, Obtain(t)
        PROVE  TypeOK'
    BY <2>3 DEF Obtain
  <2>4. ASSUME NEW t \in Thread, WaitToRelease(t)
        PROVE  TypeOK'
    BY <2>4 DEF WaitToRelease
  <2>5. ASSUME NEW t \in Thread, Report(t)
        PROVE  TypeOK'
    BY <2>5 DEF Report
  <2>6. ASSUME NEW t \in Thread, JoinThread(t)
        PROVE  TypeOK'
    BY <2>6 DEF JoinThread
  <2>7. ASSUME NEW m \in Mutex, CallerLock(m) \/ CallerUnlock(m)
        PROVE  TypeOK'
    BY <2>7 DEF CallerLock, CallerUnlock
  <2>8. CASE UNCHANGED vars
    BY <2>8 DEF vars
  <2>. QED
    BY <2>1, <2>2, <2>3, <2>4, <2>5, <2>6, <2>7, <2>8 DEF Next, ThreadFunc
<1>. QED
  BY <1>1, <1>2, PTL DEF Spec

LEMMA Invariant == Spec => [](HolderHolds /\ Reported)
<1>1. Init => HolderHolds /\ Reported
  BY ThreadingAssumption DEF Init, HolderHolds, Reported
<1>2. TypeOK /\ HolderHolds /\ Reported /\ [Next]_vars => (HolderHolds /\ Reported)'
  <2>. SUFFICES ASSUME TypeOK, HolderHolds, Reported, [Next]_vars
                PROVE  (HolderHolds /\ Reported)'
    OBVIOUS
  <2>. USE ThreadingAssumption DEF TypeOK, HolderHolds, Reported, Step
  <2>1. ASSUME NEW t \in Thread, StartThread(t)
        PROVE  (HolderHolds /\ Reported)'
    BY <2>1 DEF StartThread
  <2>2. ASSUME NEW t \in Thread, WaitToObtain(t)
        PROVE  (HolderHolds /\ Reported)'
    BY <2>2 DEF WaitToObtain
  <2>3. ASSUME NEW t \in Thread, Obtain(t)
        PROVE  (HolderHolds /\ Reported)'
    BY <2>3 DEF Obtain
  <2>4. ASSUME NEW t \in Thread, WaitToRelease(t)
        PROVE  (HolderHolds /\ Reported)'
    BY <2>4 DEF WaitToRelease
  <2>5. ASSUME NEW t \in Thread, Report(t)
        PROVE  (HolderHolds /\ Reported)'
    BY <2>5 DEF Report
  <2>6. ASSUME NEW t \in Thread, JoinThread(t)
        PROVE  (HolderHolds /\ Reported)'
    BY <2>6 DEF JoinThread
  <2>7. ASSUME NEW m \in Mutex, CallerLock(m) \/ CallerUnlock(m)
        PROVE  (HolderHolds /\ Reported)'
    BY <2>7 DEF CallerLock, CallerUnlock
  <2>8. CASE UNCHANGED vars
    BY <2>8 DEF vars
  <2>. QED
    BY <2>1, <2>2, <2>3, <2>4, <2>5, <2>6, <2>7, <2>8 DEF Next, ThreadFunc
<1>. QED
  BY <1>1, <1>2, TypesKept, PTL DEF Spec

(* Success is reported after the mutex was given back, in memory that is   *)
(* still there, and by every thread that was joined (threading.c:20-22).   *)
THEOREM SuccessHolds == Spec => []SuccessIsFinal
<1>1. HolderHolds /\ Reported => SuccessIsFinal
  BY ThreadingAssumption DEF HolderHolds, Reported, SuccessIsFinal
<1>. QED
  BY <1>1, Invariant, PTL
=============================================================================
