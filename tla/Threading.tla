----------------------------- MODULE Threading -----------------------------
(***************************************************************************)
(* The threading example (examples/threading): a caller starts threads     *)
(* that each wait, obtain the mutex they were given, hold it for a while,  *)
(* release it and report success in their thread_data, which the caller    *)
(* frees after joining them.  The caller uses the mutexes, too.            *)
(*                                                                         *)
(* A sleep is a step that takes any time: how long usleep waits, given an  *)
(* int multiplied by 1000, is not in the model.                            *)
(***************************************************************************)
EXTENDS Integers

CONSTANTS
  Thread,  \* the calls of start_thread_obtaining_mutex, and their threads
  Mutex,   \* the mutexes of the caller
  MutexOf, \* MutexOf[t]: the one it passes to the thread
  Caller,  \* the calling thread
  NoOne    \* the holder of a free mutex

ASSUME ThreadingAssumption ==
  /\ MutexOf \in [Thread -> Mutex]
  /\ Caller \notin Thread /\ NoOne \notin Thread \cup {Caller}

VARIABLES
  pc,      \* where a thread is, "refused" if it could not be created
  tdata,   \* its thread_data: "none", "allocated" or "freed"
  success, \* thread_complete_success
  holder   \* who holds a mutex

vars == <<pc, tdata, success, holder>>

Init ==
  /\ pc = [t \in Thread |-> "none"]
  /\ tdata = [t \in Thread |-> "none"]
  /\ success = [t \in Thread |-> FALSE]
  /\ holder = [m \in Mutex |-> NoOne]

Step(t, from, to) == pc[t] = from /\ pc' = [pc EXCEPT ![t] = to]

(* start_thread_obtaining_mutex: returns true, or false when the thread    *)
(* could not be created, and nobody has its thread_data then.              *)
StartThread(t) ==
  /\ Step(t, "none", "wait") \/ Step(t, "none", "refused")
  /\ tdata' = [tdata EXCEPT ![t] = "allocated"]
  /\ success' = [success EXCEPT ![t] = FALSE]
  /\ UNCHANGED holder

(* usleep(wait_to_obtain_ms*1000) *)
WaitToObtain(t) ==
  /\ Step(t, "wait", "lock")
  /\ UNCHANGED <<tdata, success, holder>>

(* pthread_mutex_lock *)
Obtain(t) ==
  /\ Step(t, "lock", "hold")
  /\ holder[MutexOf[t]] = NoOne
  /\ holder' = [holder EXCEPT ![MutexOf[t]] = t]
  /\ UNCHANGED <<tdata, success>>

(* Variation of WaitToRelease. *)
KeepMutex(t) ==
  /\ Step(t, "hold", "report")
  /\ UNCHANGED <<tdata, success, holder>>

(* usleep(wait_to_release_ms*1000) and pthread_mutex_unlock *)
WaitToRelease(t) ==
  /\ Step(t, "hold", "report")
  /\ holder' = [holder EXCEPT ![MutexOf[t]] = NoOne]
  /\ UNCHANGED <<tdata, success>>

Report(t) ==
  /\ Step(t, "report", "returned")
  /\ success' = [success EXCEPT ![t] = TRUE]
  /\ UNCHANGED <<tdata, holder>>

(* The caller joins the thread and frees the thread_data it returned. *)
JoinThread(t) ==
  /\ Step(t, "returned", "joined")
  /\ tdata' = [tdata EXCEPT ![t] = "freed"]
  /\ UNCHANGED <<success, holder>>

CallerLock(m) ==
  /\ holder[m] = NoOne
  /\ holder' = [holder EXCEPT ![m] = Caller]
  /\ UNCHANGED <<pc, tdata, success>>

CallerUnlock(m) ==
  /\ holder[m] = Caller
  /\ holder' = [holder EXCEPT ![m] = NoOne]
  /\ UNCHANGED <<pc, tdata, success>>

ThreadFunc(t) ==
  WaitToObtain(t) \/ Obtain(t) \/ WaitToRelease(t) \/ Report(t)

Next ==
  \/ \E t \in Thread : StartThread(t) \/ ThreadFunc(t) \/ JoinThread(t)
  \/ \E m \in Mutex : CallerLock(m) \/ CallerUnlock(m)

Spec == Init /\ [][Next]_vars

(* Threads are scheduled, and one that waits for a mutex that is free      *)
(* again and again gets it.  The caller owes nothing.                      *)
FairSpec ==
  /\ Spec
  /\ \A t \in Thread :
       /\ WF_vars(WaitToObtain(t) \/ WaitToRelease(t) \/ Report(t))
       /\ SF_vars(Obtain(t))

-----------------------------------------------------------------------------
TypeOK ==
  /\ pc \in [Thread -> {"none", "refused", "wait", "lock", "hold", "report",
                        "returned", "joined"}]
  /\ tdata \in [Thread -> {"none", "allocated", "freed"}]
  /\ success \in [Thread -> BOOLEAN]
  /\ holder \in [Mutex -> Thread \cup {Caller, NoOne}]

(***************************************************************************)
(* thread_complete_success may be relied on: where it is true the thread   *)
(* has given its mutex back, a thread that was joined has set it, and no   *)
(* thread sets it in memory that was freed (threading.c:20-22).            *)
(***************************************************************************)
SuccessIsFinal ==
  \A t \in Thread :
    /\ success[t] => holder[MutexOf[t]] # t
    /\ pc[t] = "joined" => success[t]
    /\ pc[t] \in {"wait", "lock", "hold", "report"} => tdata[t] = "allocated"

(***************************************************************************)
(* Every thread that was started returns, unless the caller keeps its      *)
(* mutex for ever (threading.h:29-42).                                     *)
(***************************************************************************)
ThreadsReturn ==
  \A t \in Thread :
    \/ <>[](holder[MutexOf[t]] = Caller)
    \/ pc[t] = "wait" ~> success[t]
=============================================================================
