----------------------------- MODULE AesdSocket -----------------------------
(***************************************************************************)
(* The socket server (server/aesdsocket.c) as a whole: the main thread,    *)
(* which sets the server up, accepts connections, starts their threads and *)
(* reaps those that are complete, and the signal handler, on top of the    *)
(* threads of module ReceiveData.  A connection stands for its             *)
(* slist_data_t node.                                                      *)
(*                                                                         *)
(* The kernel delivers the first SIGINT or SIGTERM to the main thread,     *)
(* which sits somewhere in its code and never goes on: the handler ends    *)
(* the process.  The list is the sequence of its nodes, which module SList *)
(* shows its pointers to be, interrupted or not.                           *)
(***************************************************************************)
EXTENDS ReceiveData

CONSTANT NoNode   \* a NULL slist_data_t *

ASSUME NodeAssumption == NoNode \notin Conn

VARIABLES
  mpc,     \* where main is
  hpc,     \* where the signal handler is, "none" if it does not run
  head,    \* the list of connections
  datap,   \* main's node
  np_temp, \* main's second loop variable, the node after datap
  sock,    \* sock[c]: the socket accept returned
  joins,   \* history: how often the thread of c was joined
  orphans, \* history: the nodes for which pthread_create failed
  due      \* history: the connections to be reaped in this round of main

main  == <<mpc, datap, np_temp, due>>
svars == <<vars, main, hpc, head, sock, joins, orphans>>

ServerInit ==
  /\ Init
  /\ mpc = "resolve"
  /\ hpc = "none"
  /\ head = << >>
  /\ datap = NoNode
  /\ np_temp = NoNode
  /\ sock = [c \in Conn |-> "none"]
  /\ joins = [c \in Conn |-> 0]
  /\ due = {}
  /\ orphans = {}

MainAt(place) == status = "up" /\ hpc = "none" /\ mpc = place

(* Variation of NextOf. *)
NextLost(list, n) == NoNode

(* The node after n in a list. *)
NextOf(list, n) ==
  LET i == SelectInSeq(list, LAMBDA m : m = n)
  IN  IF i < Len(list) THEN list[i + 1] ELSE NoNode

-----------------------------------------------------------------------------
StartPlaces == {"resolve", "socket", "bind", "timer", "listen"}

(* The socket is there for clients to connect to. *)
Listening == mpc \notin StartPlaces

(* A step of main before its loop. *)
StartUp(place, next) ==
  /\ MainAt(place)
  /\ mpc' = next
  /\ UNCHANGED <<hpc, datap, np_temp, due, sock, joins, orphans>>

(* getaddrinfo, whose failure is printed only ... *)
Resolve == StartUp("resolve", "socket") /\ UNCHANGED <<vars, head>>

(* ... and leaves servinfo, which socket's arguments are read from, NULL.  *)
ResolveFails ==
  /\ MainAt("resolve")
  /\ status' = "crashed"
  /\ UNCHANGED <<client, wpc, locals, complete, shifted, mixed, stores, pending,
                 named, mutex, timer, main, hpc, head, sock, joins, orphans>>

(* socket, and setsockopt, which may fail. *)
Socket == StartUp("socket", "bind") /\ UNCHANGED <<vars, head>>

(* bind; as a daemon, the server goes on in a child and its parent exits.  *)
Bind == StartUp("bind", "timer") /\ UNCHANGED <<vars, head>>

(* The timer's pthread_create may fail, too. *)
CreateTimer ==
  /\ StartUp("timer", "listen")
  /\ StartTimer \/ UNCHANGED vars
  /\ UNCHANGED head

(* listen and SLIST_INIT *)
Listen ==
  /\ StartUp("listen", "accept")
  /\ head' = << >>
  /\ UNCHANGED vars

(* main returns -1, and with it the process ends. *)
Fails ==
  /\ \E place \in {"socket", "bind", "listen", "accept"} : MainAt(place)
  /\ status' = "failed"
  /\ UNCHANGED <<client, wpc, locals, complete, shifted, mixed, stores, pending,
                 named, mutex, timer, main, hpc, head, sock, joins, orphans>>

-----------------------------------------------------------------------------
(* accept returns a connection, for which main then fills in a node. *)
Accept(c) ==
  /\ MainAt("accept") /\ sock[c] = "none"
  /\ sock' = [sock EXCEPT ![c] = "open"]
  /\ datap' = c
  /\ due' = {d \in Conn : complete[d] /\ Contains(head, d)}
  /\ mpc' = "accepted"
  /\ UNCHANGED <<vars, hpc, head, np_temp, joins, orphans>>

(* The syslog calls of main's loop, for a new and for a closed connection. *)
Logging == {"accepted", "closed"}

Logged ==
  /\ status = "up" /\ hpc = "none" /\ mpc \in Logging
  /\ mpc' = IF mpc = "accepted" THEN "insert" ELSE "join"
  /\ UNCHANGED <<vars, hpc, head, datap, np_temp, due, sock, joins, orphans>>

(* SLIST_INSERT_HEAD *)
Insert ==
  /\ MainAt("insert")
  /\ head' = <<datap>> \o head
  /\ mpc' = "create"
  /\ UNCHANGED <<vars, hpc, datap, np_temp, due, sock, joins, orphans>>

(* pthread_create, whose failure goes unnoticed. *)
Create ==
  /\ MainAt("create")
  /\ mpc' = "first"
  /\ \/ Start(datap) /\ UNCHANGED orphans
     \/ orphans' = orphans \cup {datap} /\ UNCHANGED vars
  /\ UNCHANGED <<hpc, head, datap, np_temp, due, sock, joins>>

-----------------------------------------------------------------------------
(* The condition of SLIST_FOREACH_SAFE on node n, which may be NULL, and   *)
(* the list as it is then.                                                 *)
Visit(list, n) ==
  /\ datap' = n
  /\ IF n = NoNode
     THEN mpc' = "accept" /\ UNCHANGED np_temp
     ELSE mpc' = "test" /\ np_temp' = NextOf(list, n)

First ==
  /\ MainAt("first")
  /\ Visit(head, head[1])
  /\ UNCHANGED <<vars, hpc, head, due, sock, joins, orphans>>

(* Variation of Reapable. *)
Whatever(n) == TRUE

(* if (datap->thread_complete) *)
Reapable(n) == complete[n]

Test ==
  /\ MainAt("test")
  /\ \/ Reapable(datap) /\ mpc' = "close" /\ UNCHANGED <<datap, np_temp>>
     \/ ~Reapable(datap) /\ Visit(head, np_temp)
  /\ UNCHANGED <<vars, hpc, head, due, sock, joins, orphans>>

Close ==
  /\ MainAt("close")
  /\ sock' = [sock EXCEPT ![datap] = "closed"]
  /\ mpc' = "closed"
  /\ UNCHANGED <<vars, hpc, head, datap, np_temp, due, joins, orphans>>

(* pthread_join is called, and waits until the thread has returned. *)
Join ==
  /\ MainAt("join")
  /\ joins' = [joins EXCEPT ![datap] = @ + 1]
  /\ mpc' = "joining"
  /\ UNCHANGED <<vars, hpc, head, datap, np_temp, due, sock, orphans>>

Joined ==
  /\ MainAt("joining") /\ wpc[datap] = "ended"
  /\ mpc' = "remove"
  /\ UNCHANGED <<vars, hpc, head, datap, np_temp, due, sock, joins, orphans>>

(* Variation of Unlinked. *)
FirstUnlinked(n) == Tail(head)

(* The list without node n, wherever it stands. *)
Unlinked(n) == RemoveFirst(head, n)

(* SLIST_REMOVE and free, then the next node of the loop. *)
Reap ==
  /\ MainAt("remove")
  /\ head' = Unlinked(datap)
  /\ Visit(head', np_temp)
  /\ UNCHANGED <<vars, hpc, due, sock, joins, orphans>>

-----------------------------------------------------------------------------
(* SIGINT or SIGTERM: main stops where it is.  The handler starts with a   *)
(* syslog of its own, which waits for ever for syslog's lock if main holds *)
(* it.                                                                     *)
Signal ==
  /\ status = "up" /\ hpc = "none"
  /\ \/ hpc' = "remove_file"
     \/ mpc \in Logging /\ hpc' = "blocked"
  /\ UNCHANGED <<vars, main, head, sock, joins, orphans>>

(* It removes the data file: what is opened under its name after that is   *)
(* a new file.                                                             *)
RemoveFile ==
  /\ status = "up" /\ hpc = "remove_file"
  /\ named' = IF UseDevice THEN 0 ELSE 1
  /\ hpc' = "empty"
  /\ UNCHANGED <<status, client, wpc, locals, complete, shifted, mixed, stores, pending,
                 mutex, timer, main, head, sock, joins, orphans>>

(* Joining a thread that does not exist, or that main has joined or is     *)
(* joining, is not defined.                                                *)
Undefined(n) == wpc[n] = "none" \/ joins[n] > 0

(* Variation of Joinable. *)
CompleteOnly(n) == complete[n]

(* The handler's pthread_join waits until the thread has returned. *)
Joinable(n) == wpc[n] = "ended"

(* while (!SLIST_EMPTY(&head)): join the first node's thread ... *)
HandlerJoin ==
  /\ status = "up" /\ hpc = "empty" /\ head # << >>
  /\ ~Undefined(head[1]) /\ Joinable(head[1])
  /\ joins' = [joins EXCEPT ![head[1]] = @ + 1]
  /\ hpc' = "remove_head"
  /\ UNCHANGED <<vars, main, head, sock, orphans>>

(* (which may return at once or crash if it is not defined) ...            *)
HandlerJoinUndefined ==
  /\ status = "up" /\ hpc = "empty" /\ head # << >>
  /\ Undefined(head[1])
  /\ joins' = [joins EXCEPT ![head[1]] = @ + 1]
  /\ \/ hpc' = "remove_head" /\ UNCHANGED status
     \/ status' = "crashed" /\ UNCHANGED hpc
  /\ UNCHANGED <<client, wpc, locals, complete, shifted, mixed, stores, pending,
                 named, mutex, timer, main, head, sock, orphans>>

(* ... and take it out of the list. *)
RemoveHead ==
  /\ status = "up" /\ hpc = "remove_head"
  /\ head' = Tail(head)
  /\ hpc' = "empty"
  /\ UNCHANGED <<vars, main, sock, joins, orphans>>

(* freeaddrinfo, shutdown of the listening socket, exit. *)
Exit ==
  /\ status = "up" /\ hpc = "empty" /\ head = << >>
  /\ status' = "exited"
  /\ UNCHANGED <<client, wpc, locals, complete, shifted, mixed, stores, pending,
                 named, mutex, timer, main, hpc, head, sock, joins, orphans>>

-----------------------------------------------------------------------------
SetUp == Resolve \/ Socket \/ Bind \/ CreateTimer \/ Listen

Main == \/ SetUp \/ ResolveFails \/ Fails
        \/ \E c \in Conn : Accept(c)
        \/ Logged \/ Insert \/ Create
        \/ First \/ Test \/ Close \/ Join \/ Joined \/ Reap

Handler == Signal \/ RemoveFile \/ HandlerJoin \/ HandlerJoinUndefined \/ RemoveHead \/ Exit

Threads == \/ \E c \in Conn : (Listening /\ Client(c)) \/ Worker(c)
           \/ TimerStep

ServerNext ==
  \/ Main
  \/ Handler
  \/ Threads /\ UNCHANGED <<main, hpc, head, sock, joins, orphans>>

ServerSpec == ServerInit /\ [][ServerNext]_svars

(* Main and the handler are scheduled like the other threads; nothing is   *)
(* assumed of the clients or of the signal.                                *)
ServerFairSpec ==
  /\ ServerSpec
  /\ Fairness
  /\ WF_svars(\/ SetUp \/ Logged \/ Insert \/ Create
              \/ First \/ Test \/ Close \/ Join \/ Joined \/ Reap)
  /\ WF_svars(RemoveFile \/ HandlerJoin \/ HandlerJoinUndefined \/ RemoveHead \/ Exit)

-----------------------------------------------------------------------------
ServerTypeOK ==
  /\ TypeOK
  /\ mpc \in StartPlaces \cup Logging \cup
       {"accept", "insert", "create", "first", "test", "close", "join", "joining", "remove"}
  /\ hpc \in {"none", "blocked", "remove_file", "empty", "remove_head"}
  /\ head \in Seq(Conn)
  /\ datap \in Conn \cup {NoNode} /\ np_temp \in Conn \cup {NoNode}
  /\ sock \in [Conn -> {"none", "open", "closed"}]
  /\ joins \in [Conn -> Nat]
  /\ orphans \subseteq Conn /\ due \subseteq Conn

InterruptedAt(place, n) == hpc # "none" /\ mpc = place /\ datap = n

(***************************************************************************)
(* Every thread is joined at most once and only after it was created, by   *)
(* main (aesdsocket.c:370) or by the handler (aesdsocket.c:264), but for   *)
(* these cases: the signal arrives between main's join and its removal of  *)
(* the node, or between its insertion and pthread_create, or that failed.  *)
(***************************************************************************)
JoinsDefined ==
  \A c \in Conn :
    /\ joins[c] > 1 => InterruptedAt("joining", c) \/ InterruptedAt("remove", c)
    /\ joins[c] > 0 /\ wpc[c] = "none" => InterruptedAt("create", c) \/ c \in orphans

(***************************************************************************)
(* The socket of a connection stays open as long as its thread may use it: *)
(* main closes it from another thread, before it joins (aesdsocket.c:      *)
(* 367-370).                                                               *)
(***************************************************************************)
SocketOutlivesThread ==
  \A c \in Conn :
    wpc[c] \in {"recv", "lock", "open", "append", "reply"} => sock[c] = "open"

(***************************************************************************)
(* When main waits for the next connection, every connection that was      *)
(* complete when the last one was accepted is closed and off the list,     *)
(* wherever its node stood in it (aesdsocket.c:364-374).                   *)
(***************************************************************************)
ReapsAll ==
  mpc = "accept" => \A c \in due : sock[c] = "closed" /\ ~Contains(head, c)

(***************************************************************************)
(* The handler ends the process only when no thread is left: none is cut   *)
(* off between its append and the end of its reply (aesdsocket.c:262-272). *)
(* Only a thread main is joining when the signal arrives may have its last *)
(* return before it.                                                       *)
(***************************************************************************)
ExitsAfterThreads ==
  status = "exited" =>
    \A c \in Conn :
      \/ wpc[c] \in {"none", "ended"}
      \/ wpc[c] = "ending" /\ InterruptedAt("joining", c)

(* The client of c has not sent its newline: its thread waits, or, when    *)
(* the client has closed, tries for ever.                                  *)
Stuck(c) == wpc[c] = "recv" /\ ~Contains(SubSeq(Stream[c], 1, sent[c]), NewLine)

(***************************************************************************)
(* After a signal the process ends, wherever main was interrupted but in   *)
(* syslog, unless a client never sends a newline: nothing else can hold    *)
(* the handler's joins up (aesdsocket.c:262-266).                          *)
(***************************************************************************)
ShutdownEnds ==
  \/ <>[](\E c \in Conn : Stuck(c))
  \/ hpc \notin {"none", "blocked"} ~> status # "up"
=============================================================================
