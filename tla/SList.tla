------------------------------- MODULE SList -------------------------------
(***************************************************************************)
(* The list of the server's connections pointer by pointer: the macros of  *)
(* server/queue.h that aesdsocket.c uses, one assignment a step, in main's *)
(* loop and in the signal handler, which interrupts main between any two.  *)
(* The variable list of NodeList is a history: what the list is, changed   *)
(* with the one assignment of each macro that takes effect.                *)
(*                                                                         *)
(* The server is built without optimisation (server/Makefile), so that     *)
(* the assignments happen in the order of the source.                      *)
(*                                                                         *)
(* Memory is reused: malloc may return a node that was freed, with         *)
(* whatever is in it.  Of the connections' threads only thread_complete is *)
(* left; module AesdSocket has the threads and takes the list as it is     *)
(* promised by NodeList.                                                   *)
(***************************************************************************)
EXTENDS NodeList, FiniteSets

CONSTANT Null

ASSUME NullAssumption == Null \notin Node

ASSUME MemoryAssumption == IsFiniteSet(Node)

VARIABLES
  first,   \* head.slh_first
  next,    \* next[n]: entries.sle_next of node n
  live,    \* the nodes malloc returned and free did not get back
  thread,  \* thread[n]: the state of node n's thread and its thread_complete
  mpc,     \* where main is
  datap,   \* main's node
  np_temp, \* main's second loop variable
  curelm,  \* the cursor of SLIST_REMOVE
  hpc,     \* where the signal handler is
  hdatap   \* the handler's node

mem  == <<first, next, live, list>>
main == <<mpc, datap, np_temp, curelm>>
hand == <<hpc, hdatap>>
vars == <<mem, thread, main, hand>>

Link == Node \cup {Null}

Init ==
  /\ ListInit
  /\ first = Null
  /\ next = [n \in Node |-> Null]
  /\ live = {}
  /\ thread = [n \in Node |-> "none"]
  /\ mpc = "accept" /\ datap = Null /\ np_temp = Null /\ curelm = Null
  /\ hpc = "none" /\ hdatap = Null

MainAt(place) == hpc = "none" /\ mpc = place

-----------------------------------------------------------------------------
(* A connection: its node is allocated, its links not yet set. *)
Alloc(n) ==
  /\ MainAt("accept") /\ n \notin live
  /\ live' = live \cup {n}
  /\ \E garbage \in Link : next' = [next EXCEPT ![n] = garbage]
  /\ thread' = [thread EXCEPT ![n] = "none"]
  /\ datap' = n
  /\ mpc' = "insert"
  /\ UNCHANGED <<first, list, np_temp, curelm, hand>>

(* Variation of InsertNext. *)
InsertNextNull ==
  /\ MainAt("insert")
  /\ next' = [next EXCEPT ![datap] = Null]
  /\ mpc' = "insert_first"
  /\ UNCHANGED <<first, live, list, thread, datap, np_temp, curelm, hand>>

(* SLIST_INSERT_HEAD: the new node points to the first ... *)
InsertNext ==
  /\ MainAt("insert")
  /\ next' = [next EXCEPT ![datap] = first]
  /\ mpc' = "insert_first"
  /\ UNCHANGED <<first, live, list, thread, datap, np_temp, curelm, hand>>

(* ... and then becomes it. *)
InsertFirst ==
  /\ MainAt("insert_first")
  /\ first' = datap
  /\ list' = <<datap>> \o list
  /\ mpc' = "create"
  /\ UNCHANGED <<next, live, thread, datap, np_temp, curelm, hand>>

(* pthread_create succeeds or fails. *)
Create ==
  /\ MainAt("create")
  /\ \/ thread' = [thread EXCEPT ![datap] = "running"]
     \/ UNCHANGED thread
  /\ mpc' = "each"
  /\ UNCHANGED <<mem, datap, np_temp, curelm, hand>>

(* The thread sets thread_complete. *)
Complete(n) ==
  /\ hpc # "exited" /\ thread[n] = "running"
  /\ thread' = [thread EXCEPT ![n] = "complete"]
  /\ UNCHANGED <<mem, main, hand>>

-----------------------------------------------------------------------------
(* The condition of SLIST_FOREACH_SAFE on n: the next node is read before  *)
(* the body runs, which may free n.                                        *)
Visit(n) ==
  /\ datap' = n
  /\ IF n = Null
     THEN mpc' = "accept" /\ UNCHANGED np_temp
     ELSE mpc' = "test" /\ np_temp' = next[n]

Each ==
  /\ MainAt("each")
  /\ Visit(first)
  /\ UNCHANGED <<mem, thread, curelm, hand>>

Skip ==
  /\ MainAt("test") /\ thread[datap] # "complete"
  /\ Visit(np_temp)
  /\ UNCHANGED <<mem, thread, curelm, hand>>

(* SLIST_REMOVE of a complete connection (closed and joined): the first    *)
(* node goes with one assignment, for another curelm starts at the head.   *)
RemoveAsHead ==
  /\ MainAt("test") /\ thread[datap] = "complete" /\ first = datap
  /\ first' = next[first]
  /\ Take(1)
  /\ mpc' = "free"
  /\ UNCHANGED <<next, live, thread, datap, np_temp, curelm, hand>>

RemoveStart ==
  /\ MainAt("test") /\ thread[datap] = "complete" /\ first # datap
  /\ curelm' = first
  /\ mpc' = "walk"
  /\ UNCHANGED <<mem, thread, datap, np_temp, hand>>

RemoveWalk ==
  /\ MainAt("walk") /\ next[curelm] # datap
  /\ curelm' = next[curelm]
  /\ UNCHANGED <<mem, thread, mpc, datap, np_temp, hand>>

(* Variation of RemoveAfter. *)
CutAfter == Null

(* SLIST_REMOVE_AFTER: what curelm points to from now on. *)
RemoveAfter == next[next[curelm]]

RemoveLink ==
  /\ MainAt("walk") /\ next[curelm] = datap
  /\ next' = [next EXCEPT ![curelm] = RemoveAfter]
  /\ \E i \in 1 .. Len(list) : list[i] = datap /\ Take(i)
  /\ mpc' = "free"
  /\ UNCHANGED <<first, live, thread, datap, np_temp, curelm, hand>>

(* Variation of Free. *)
FreeForgotten ==
  /\ MainAt("free")
  /\ Visit(np_temp)
  /\ UNCHANGED <<mem, thread, curelm, hand>>

(* free, and the loop goes on with the node it read before. *)
Free ==
  /\ MainAt("free")
  /\ live' = live \ {datap}
  /\ Visit(np_temp)
  /\ UNCHANGED <<first, next, list, thread, curelm, hand>>

-----------------------------------------------------------------------------
(* SIGINT or SIGTERM: main never goes on. *)
Signal ==
  /\ hpc = "none"
  /\ hpc' = "empty"
  /\ UNCHANGED <<mem, thread, main, hdatap>>

(* Variation of HandlerFirst. *)
HandlerFirstUnjoined ==
  /\ hpc = "empty" /\ first # Null
  /\ hdatap' = first
  /\ hpc' = "remove_head"
  /\ UNCHANGED <<mem, thread, main>>

(* while (!SLIST_EMPTY(&head)): SLIST_FIRST, and pthread_join, which waits *)
(* for the thread, if there is one.  (Without one the join is not defined; *)
(* here it returns.)                                                       *)
HandlerFirst ==
  /\ hpc = "empty" /\ first # Null
  /\ thread[first] # "running"
  /\ hdatap' = first
  /\ hpc' = "remove_head"
  /\ UNCHANGED <<mem, thread, main>>

RemoveHead ==
  /\ hpc = "remove_head"
  /\ first' = next[first]
  /\ Take(1)
  /\ hpc' = "free"
  /\ UNCHANGED <<next, live, thread, main, hdatap>>

HandlerFree ==
  /\ hpc = "free"
  /\ live' = live \ {hdatap}
  /\ hpc' = "empty"
  /\ UNCHANGED <<first, next, list, thread, main, hdatap>>

Exit ==
  /\ hpc = "empty" /\ first = Null
  /\ hpc' = "exited"
  /\ UNCHANGED <<mem, thread, main, hdatap>>

-----------------------------------------------------------------------------
Main == \/ \E n \in Node : Alloc(n)
        \/ InsertNext \/ InsertFirst \/ Create
        \/ Each \/ Skip
        \/ RemoveAsHead \/ RemoveStart \/ RemoveWalk \/ RemoveLink \/ Free

Handler == Signal \/ HandlerFirst \/ RemoveHead \/ HandlerFree \/ Exit

Next == Main \/ Handler \/ \E n \in Node : Complete(n)

Spec == Init /\ [][Next]_vars

-----------------------------------------------------------------------------
TypeOK ==
  /\ first \in Link /\ next \in [Node -> Link]
  /\ live \subseteq Node
  /\ list \in Seq(Node)
  /\ thread \in [Node -> {"none", "running", "complete"}]
  /\ mpc \in {"accept", "insert", "insert_first", "create", "each", "test", "walk", "free"}
  /\ datap \in Link /\ np_temp \in Link /\ curelm \in Link
  /\ hpc \in {"none", "empty", "remove_head", "free", "exited"}
  /\ hdatap \in Link

(***************************************************************************)
(* The pointers spell the list at every step of main and of the handler,   *)
(* also between the two assignments of an insertion and with nodes whose   *)
(* memory was used before (queue.h:241-269).                               *)
(***************************************************************************)
Linked ==
  /\ first = IF list = << >> THEN Null ELSE list[1]
  /\ \A i \in 1 .. Len(list) :
       next[list[i]] = IF i < Len(list) THEN list[i + 1] ELSE Null

(***************************************************************************)
(* No pointer that main or the handler is about to follow or to free is    *)
(* NULL or leads to freed memory: the loop's next node survives the body   *)
(* that frees its node, the walk of SLIST_REMOVE never runs off the list,  *)
(* nothing is freed twice, and no thread is left that would set            *)
(* thread_complete in a freed node (aesdsocket.c:241, 262-267, 364-374).   *)
(***************************************************************************)
NoUseAfterFree ==
  /\ Listed \subseteq live
  /\ hpc = "none" =>
       /\ mpc \in {"insert", "insert_first", "create", "test", "walk", "free"} => datap \in live
       /\ mpc \in {"test", "walk", "free"} => np_temp \in Listed \cup {Null}
       /\ mpc = "walk" => curelm \in Listed /\ next[curelm] # Null
  /\ hpc \in {"remove_head", "free"} => hdatap \in live
  /\ \A n \in Node : thread[n] = "running" => n \in live

(* The nodes main or the handler holds in hand. *)
InHand ==
  {n \in Node : \/ n = datap /\ mpc \in {"insert", "insert_first", "free"}
                \/ n = hdatap /\ hpc = "free"}

(***************************************************************************)
(* Every node is on the list, in hand or freed: when the handler exits, it *)
(* has joined and freed all of them but one main was inserting or taking   *)
(* out (aesdsocket.c:353-357, 371-372).                                    *)
(***************************************************************************)
NothingLost == live \subseteq Listed \cup InHand

Follow(n) == IF n = Null THEN Null ELSE next[n]

(* What the pointers lead to from the head on, as far as there are nodes. *)
Met[k \in 1 .. Cardinality(Node)] == IF k = 1 THEN first ELSE Follow(Met[k - 1])

Reached == [k \in {i \in DOMAIN Met : Met[i] # Null} |-> Met[k]]

ByPointers == INSTANCE NodeList WITH list <- Reached

(***************************************************************************)
(* Whoever follows the pointers, and whenever, meets a list that changed   *)
(* by whole insertions and removals only: the macros (queue.h:241-269)     *)
(* take effect in one assignment each, also for the handler.               *)
(***************************************************************************)
ImplementsNodeList == ByPointers!ListSpec
=============================================================================
