----------------------------- MODULE ReceiveData -----------------------------
(***************************************************************************)
(* The threads of the socket server that handle data                       *)
(* (server/aesdsocket.c): receive_data, one thread per connection, and the *)
(* timer.  A thread receives up to the first newline, appends that command *)
(* to the data file or to /dev/aesdchar, and sends the content back.       *)
(*                                                                         *)
(* USE_AESD_CHAR_DEVICE is the constant UseDevice.  The device is used as  *)
(* CharDevice promises; each thread opens it for itself, so the position   *)
(* is its own.  stdio writes a command that fits into its buffer at once,  *)
(* and a longer one in pieces; a line that getline returns is read in one  *)
(* step.                                                                   *)
(***************************************************************************)
EXTENDS Integers, SequencesExt

CONSTANTS
  Conn,      \* the connections clients make
  Stream,    \* Stream[c]: the bytes the client of c sends, if it sends all
  Byte,      \* what they are made of
  NewLine,   \* the byte that ends a command
  Nul,       \* the NUL byte, which ends a C string
  SeekMark,  \* stands for the text AESDCHAR_IOCSEEKTO
  BufSize,   \* BUF_SIZE, the most one recv returns
  Block,     \* the size of a stdio buffer
  UseDevice, \* USE_AESD_CHAR_DEVICE
  MaxOps,    \* how many commands the device keeps
  Before,    \* the commands the file or the device holds at the start
  Stamp,     \* a line the timer appends
  MaxStamps, \* bound: how often the timer wakes up
  Timer,     \* the timer thread
  NoOne      \* the holder of a free mutex

ASSUME ReceiveAssumption ==
  /\ Stream \in [Conn -> Seq(Byte)]
  /\ NewLine \in Byte /\ Nul # NewLine /\ Stamp \in Seq(Byte)
  /\ BufSize \in Nat \ {0} /\ Block \in Nat \ {0}
  /\ UseDevice \in BOOLEAN
  /\ MaxOps \in Nat \ {0} /\ MaxStamps \in Nat
  /\ Before \in Seq(Seq(Byte)) /\ (UseDevice => Len(Before) <= MaxOps)
  /\ Timer \notin Conn /\ NoOne \notin Conn \cup {Timer}

VARIABLES
  status,   \* "up", or how the process ended
  sent,     \* sent[c]: how many bytes of its stream the client has sent
  gone,     \* the connections whose client has closed its end
  wpc,      \* where the thread of a connection is
  recvd,    \* how many bytes recv has returned
  data,     \* the bytes put together by strcat
  complete, \* thread_complete
  inode,    \* the file fp was opened on
  unwritten, \* what of the command stdio has not written to that file yet
  pos,      \* the position of fp
  start,    \* history: the position the reply started from
  reply,    \* history: the bytes given to send
  shifted,  \* history: the device evicted a command during the reply
  mixed,    \* history: another wrote between two pieces of the command
  stores,   \* stores[i]: what file i holds as it was written, or the
            \* commands in the device, which is 0
  pending,  \* the bytes in the device that no newline has completed yet
  named,    \* the file the name stands for: 0, or 1 after it was removed
  mutex,    \* who holds mutex
  tpc,      \* where the timer thread is
  tfile,    \* the file the timer has opened
  stamps    \* the files the timer has opened and never closes

client == <<sent, gone>>
locals == <<recvd, data, start, reply, inode, unwritten, pos>>
timer  == <<tpc, tfile, stamps>>
vars   == <<status, client, wpc, locals, complete, shifted, mixed, stores, pending,
            named, mutex, timer>>

Device == INSTANCE CharDevice WITH
  Data    <- Seq(Byte),
  File    <- Conn,
  NoRead  <- NoOne,
  window  <- stores[0],
  partial <- pending,
  last    <- [c \in Conn |-> NoOne]

Places == {"none", "recv", "lock", "open", "append", "reply", "finish", "ending", "ended"}

Init ==
  /\ status = "up"
  /\ sent = [c \in Conn |-> 0]
  /\ gone = {}
  /\ wpc = [c \in Conn |-> "none"]
  /\ recvd = [c \in Conn |-> 0]
  /\ data = [c \in Conn |-> << >>]
  /\ complete = [c \in Conn |-> FALSE]
  /\ inode = [c \in Conn |-> 0]
  /\ unwritten = [c \in Conn |-> << >>]
  /\ pos = [c \in Conn |-> 0]
  /\ start = [c \in Conn |-> 0]
  /\ reply = [c \in Conn |-> << >>]
  /\ shifted = [c \in Conn |-> FALSE]
  /\ mixed = [c \in Conn |-> FALSE]
  /\ stores = [i \in {0, 1} |-> IF i = 0 THEN Before ELSE << >>]
  /\ pending = << >>
  /\ named = 0
  /\ mutex = NoOne
  /\ tpc = "none"
  /\ tfile = 0
  /\ stamps = 0

At(c, place) == status = "up" /\ wpc[c] = place

Goto(c, place) == wpc' = [wpc EXCEPT ![c] = place]

-----------------------------------------------------------------------------
(* A client sends one more byte, or closes the connection. *)
ClientSend(c) ==
  /\ c \notin gone /\ sent[c] < Len(Stream[c])
  /\ sent' = [sent EXCEPT ![c] = @ + 1]
  /\ UNCHANGED <<status, gone, wpc, locals, complete, shifted, mixed, stores, pending,
                 named, mutex, timer>>

ClientClose(c) ==
  /\ c \notin gone
  /\ gone' = gone \cup {c}
  /\ UNCHANGED <<status, sent, wpc, locals, complete, shifted, mixed, stores, pending,
                 named, mutex, timer>>

(* pthread_create has started the thread. *)
Start(c) ==
  /\ At(c, "none")
  /\ Goto(c, "recv")
  /\ UNCHANGED <<status, client, locals, complete, shifted, mixed, stores, pending,
                 named, mutex, timer>>

(* Variation of UpToNewLine. *)
AllOf(bytes) == bytes

(* The bytes up to the first newline, or all: the rest is dropped. *)
UpToNewLine(bytes) ==
  IF Contains(bytes, NewLine)
  THEN SubSeq(bytes, 1, SelectInSeq(bytes, LAMBDA b : b = NewLine))
  ELSE bytes

(* A byte as a string of its own: a NUL is the empty one. *)
AsString(b) == IF b = Nul THEN << >> ELSE <<b>>

(* strcat appends the bytes one string after the other. *)
Text(bytes) == FlattenSeq([i \in DOMAIN bytes |-> AsString(bytes[i])])

(* Variation of Available. *)
WholeBuffer(c) == BufSize

(* What recv can return: valread bytes, never more than were sent. *)
Available(c) == Min({BufSize, sent[c] - recvd[c]})

(* recv returns some of what was sent; strcat appends it byte by byte and  *)
(* a newline ends both loops.                                              *)
Recv(c) ==
  /\ At(c, "recv")
  /\ \E n \in 1 .. Available(c) :
       /\ recvd' = [recvd EXCEPT ![c] = @ + n]
       /\ data' = [data EXCEPT ![c] =
            UpToNewLine(@ \o Text(SubSeq(Stream[c], recvd[c] + 1, recvd[c] + n)))]
  /\ \/ ~Contains(data'[c], NewLine) /\ UNCHANGED wpc
     \/ Contains(data'[c], NewLine) /\ UseDevice /\ Goto(c, "open")
     \/ Contains(data'[c], NewLine) /\ ~UseDevice /\ Goto(c, "lock")
  /\ UNCHANGED <<status, client, inode, unwritten, pos, start, reply,
                 complete, shifted, mixed, stores, pending, named, mutex, timer>>

(* The process exits when realloc has no room for what recv returned. *)
OutOfMemory(c) ==
  /\ At(c, "recv") /\ Available(c) > 0
  /\ status' = "failed"
  /\ UNCHANGED <<client, wpc, locals, complete, shifted, mixed, stores, pending, named,
                 mutex, timer>>

(* recv fails on a connection the client has reset.  (It returns 0 when    *)
(* the client closed it in order, and the thread tries again, for ever.)   *)
RecvFails(c) ==
  /\ At(c, "recv") /\ c \in gone
  /\ Goto(c, "finish")
  /\ UNCHANGED <<status, client, locals, complete, shifted, mixed, stores, pending,
                 named, mutex, timer>>

(* Variation of Lock. *)
LockAnyway(c) ==
  /\ At(c, "lock")
  /\ mutex' = c
  /\ Goto(c, "open")
  /\ UNCHANGED <<status, client, locals, complete, shifted, mixed, stores, pending, named,
                 timer>>

(* The data file has a mutex, the device none. *)
Lock(c) ==
  /\ At(c, "lock") /\ mutex = NoOne
  /\ mutex' = c
  /\ Goto(c, "open")
  /\ UNCHANGED <<status, client, locals, complete, shifted, mixed, stores, pending,
                 named, timer>>

(* fopen(..., "a+"): reading starts at 0.  fputs has the command to write. *)
Open(c) ==
  /\ At(c, "open")
  /\ inode' = [inode EXCEPT ![c] = named]
  /\ unwritten' = [unwritten EXCEPT ![c] = data[c]]
  /\ Goto(c, "append")
  /\ UNCHANGED <<status, client, recvd, data, start, reply, pos,
                 complete, shifted, mixed, stores, pending, named, mutex, timer>>

(* appendToFile exits the process when the file could not be opened. *)
OpenFails(c) ==
  /\ At(c, "open")
  /\ status' = "failed"
  /\ UNCHANGED <<client, wpc, locals, complete, shifted, mixed, stores, pending, named,
                 mutex, timer>>

(* A file keeps every command, the device the newest ones. *)
Kept(commands) == IF UseDevice THEN Device!Newest(commands) ELSE commands

Evicts == UseDevice /\ Len(stores[0]) = MaxOps

(* strstr(writestr, "AESDCHAR_IOCSEEKTO") *)
IsSeek(command) == Contains(command, SeekMark)

(* Variation of Unlocked. *)
StillLocked(c) == mutex

(* In file mode the mutex is given back. *)
Unlocked(c) == IF mutex = c THEN NoOne ELSE mutex

(* A write comes between the pieces of every command that is partly there. *)
Mixed(writer) ==
  [d \in Conn |-> \/ mixed[d]
                  \/ d # writer /\ wpc[d] = "append" /\ unwritten[d] # data[d]]

(* fputs: when the buffer is full, what is in it is written.  A file takes *)
(* the bytes, the device keeps them until a newline completes the command. *)
WritePiece(c) ==
  /\ At(c, "append") /\ ~IsSeek(data[c]) /\ Len(unwritten[c]) > Block
  /\ \E n \in 1 .. Len(unwritten[c]) - 1 :
       LET piece == SubSeq(unwritten[c], 1, n)
       IN  /\ unwritten' = [unwritten EXCEPT ![c] = SubSeq(@, n + 1, Len(@))]
           /\ IF UseDevice
              THEN pending' = pending \o piece /\ UNCHANGED stores
              ELSE stores' = [stores EXCEPT ![inode[c]] = Append(@, piece)]
                   /\ UNCHANGED pending
  /\ mixed' = Mixed(c)
  /\ UNCHANGED <<status, client, wpc, recvd, data, inode, pos, start, reply,
                 complete, shifted, named, mutex, timer>>

(* Variation of Entry. *)
EntryAnew(c) == unwritten[c]

(* What the last write of a command completes. *)
Entry(c) == pending \o unwritten[c]

(* fputs and fseek: the rest of the command is written, with its newline.  *)
LineAppended(c) ==
  /\ At(c, "append") /\ ~IsSeek(data[c])
  /\ stores' = [stores EXCEPT ![inode[c]] = Kept(Append(@, Entry(c)))]
  /\ pending' = << >>
  /\ unwritten' = [unwritten EXCEPT ![c] = << >>]
  /\ mixed' = Mixed(c)
  /\ shifted' = [d \in Conn |-> shifted[d] \/ (Evicts /\ wpc[d] = "reply")]
  /\ pos' = [pos EXCEPT ![c] = 0]
  /\ start' = [start EXCEPT ![c] = 0]
  /\ mutex' = Unlocked(c)
  /\ Goto(c, "reply")
  /\ UNCHANGED <<status, client, recvd, data, reply, complete, named, timer>>

(* Variation of AppendLine. *)
AppendLineReopens(c) == LineAppended(c) /\ inode' = [inode EXCEPT ![c] = named]

(* The reply is read from the same fp. *)
AppendLine(c) == LineAppended(c) /\ UNCHANGED inode

(* The process exits when stdio could not write the command. *)
AppendFails(c) ==
  /\ At(c, "append") /\ ~IsSeek(data[c])
  /\ status' = "failed"
  /\ UNCHANGED <<client, wpc, locals, complete, shifted, mixed, stores, pending, named,
                 mutex, timer>>

Content(c) == FlattenSeq(stores[inode[c]])

(* AESDCHAR_IOCSEEKTO: the device moves the position to a byte it holds,   *)
(* or refuses and leaves it; on a file the ioctl fails.  Nothing is        *)
(* appended.                                                               *)
SeekDevice(c) ==
  /\ At(c, "append") /\ IsSeek(data[c])
  /\ \E to \in {0} \cup (IF UseDevice THEN 0 .. Len(Content(c)) - 1 ELSE {}) :
       /\ pos' = [pos EXCEPT ![c] = to]
       /\ start' = [start EXCEPT ![c] = to]
  /\ mutex' = Unlocked(c)
  /\ Goto(c, "reply")
  /\ UNCHANGED <<status, client, recvd, data, inode, unwritten, reply,
                 complete, shifted, mixed, stores, pending, named, timer>>

(* Without the two numbers after the text, atoi is given a null pointer.   *)
SeekWithoutArguments(c) ==
  /\ At(c, "append") /\ IsSeek(data[c])
  /\ status' = "crashed"
  /\ UNCHANGED <<client, wpc, locals, complete, shifted, mixed, stores, pending, named,
                 mutex, timer>>

(* The positions behind a newline of fp's file, and the end of the file. *)
Ends(c) == {end \in 1 .. Len(Content(c)) :
              Content(c)[end] = NewLine \/ end = Len(Content(c))}

(* How far getline reads. *)
LineEnd(c) == Min({end \in Ends(c) : end > pos[c]})

(* One round of the reply: getline, then send, whose failure is only       *)
(* reported.  A getline that met the end of the file before a newline is   *)
(* the last one.                                                           *)
ReadLine(c) ==
  /\ At(c, "reply") /\ pos[c] < Len(Content(c))
  /\ reply' = [reply EXCEPT ![c] = @ \o SubSeq(Content(c), pos[c] + 1, LineEnd(c))]
  /\ pos' = [pos EXCEPT ![c] = LineEnd(c)]
  /\ IF Content(c)[LineEnd(c)] = NewLine THEN UNCHANGED wpc ELSE Goto(c, "finish")
  /\ UNCHANGED <<status, client, recvd, data, start, inode, unwritten,
                 complete, shifted, mixed, stores, pending, named, mutex, timer>>

(* A send to a client that is gone may raise SIGPIPE. *)
BrokenPipe(c) ==
  /\ At(c, "reply") /\ c \in gone /\ pos[c] < Len(Content(c))
  /\ status' = "killed"
  /\ UNCHANGED <<client, wpc, locals, complete, shifted, mixed, stores, pending, named,
                 mutex, timer>>

(* Variation of AtEnd. *)
AfterOneLine(c) == pos[c] >= Len(Content(c)) \/ reply[c] # << >>

(* A read at this position returns nothing. *)
AtEnd(c) == pos[c] >= Len(Content(c))

(* getline has met the end of the file. *)
ReadEnd(c) ==
  /\ At(c, "reply") /\ AtEnd(c)
  /\ Goto(c, "finish")
  /\ UNCHANGED <<status, client, locals, complete, shifted, mixed, stores, pending,
                 named, mutex, timer>>

(* thread_complete is set, then the thread returns. *)
Finish(c) ==
  /\ At(c, "finish")
  /\ complete' = [complete EXCEPT ![c] = TRUE]
  /\ Goto(c, "ending")
  /\ UNCHANGED <<status, client, locals, shifted, mixed, stores, pending, named, mutex,
                 timer>>

End(c) ==
  /\ At(c, "ending")
  /\ Goto(c, "ended")
  /\ UNCHANGED <<status, client, locals, complete, shifted, mixed, stores, pending,
                 named, mutex, timer>>

(* The timer thread, of the data file only. *)
StartTimer ==
  /\ ~UseDevice /\ status = "up" /\ tpc = "none"
  /\ tpc' = "sleep"
  /\ UNCHANGED <<status, client, wpc, locals, complete, shifted, mixed, stores, pending,
                 named, mutex, tfile, stamps>>

(* append_timestamp: the file is opened, written and never closed. *)
TimerLock ==
  /\ status = "up" /\ tpc = "sleep" /\ stamps < MaxStamps
  /\ mutex = NoOne
  /\ mutex' = Timer
  /\ tpc' = "open"
  /\ UNCHANGED <<status, client, wpc, locals, complete, shifted, mixed, stores, pending,
                 named, tfile, stamps>>

TimerOpen ==
  /\ status = "up" /\ tpc = "open"
  /\ tfile' = named
  /\ stamps' = stamps + 1
  /\ tpc' = "append"
  /\ UNCHANGED <<status, client, wpc, locals, complete, shifted, mixed, stores, pending,
                 named, mutex>>

TimerAppend ==
  /\ status = "up" /\ tpc = "append"
  /\ stores' = [stores EXCEPT ![tfile] = Append(@, Stamp)]
  /\ mixed' = Mixed(Timer)
  /\ mutex' = NoOne
  /\ tpc' = "sleep"
  /\ UNCHANGED <<status, client, wpc, locals, complete, shifted, pending, named,
                 tfile, stamps>>

(* The process exits when the timer's file cannot be opened or written. *)
TimerFails ==
  /\ status = "up" /\ tpc \in {"open", "append"}
  /\ status' = "failed"
  /\ UNCHANGED <<client, wpc, locals, complete, shifted, mixed, stores, pending, named,
                 mutex, timer>>

-----------------------------------------------------------------------------
Worker(c) ==
  \/ Recv(c) \/ OutOfMemory(c) \/ RecvFails(c)
  \/ Lock(c) \/ Open(c) \/ OpenFails(c)
  \/ WritePiece(c) \/ AppendLine(c) \/ AppendFails(c)
  \/ SeekDevice(c) \/ SeekWithoutArguments(c)
  \/ ReadLine(c) \/ BrokenPipe(c) \/ ReadEnd(c)
  \/ Finish(c) \/ End(c)

Client(c) == ClientSend(c) \/ ClientClose(c)

TimerStep == TimerLock \/ TimerOpen \/ TimerAppend \/ TimerFails

Next ==
  \/ \E c \in Conn : Client(c) \/ Start(c) \/ Worker(c)
  \/ StartTimer \/ TimerStep

Spec == Init /\ [][Next]_vars

(* The threads are scheduled, and one that waits for the mutex gets it.    *)
(* Nothing is assumed of the clients.                                      *)
Fairness ==
  /\ \A c \in Conn :
       /\ WF_vars(Recv(c) \/ Open(c) \/ WritePiece(c) \/ AppendLine(c) \/ SeekDevice(c)
                  \/ ReadLine(c) \/ ReadEnd(c) \/ Finish(c) \/ End(c))
       /\ SF_vars(Lock(c))
  /\ WF_vars(TimerOpen \/ TimerAppend)

FairSpec == Spec /\ Fairness

-----------------------------------------------------------------------------
TypeOK ==
  /\ status \in {"up", "failed", "killed", "exited", "crashed"}
  /\ sent \in [Conn -> Nat]
  /\ gone \subseteq Conn
  /\ wpc \in [Conn -> Places]
  /\ recvd \in [Conn -> Nat] /\ \A c \in Conn : recvd[c] <= sent[c]
  /\ data \in [Conn -> Seq(Byte)]
  /\ complete \in [Conn -> BOOLEAN]
  /\ inode \in [Conn -> {0, 1}]
  /\ unwritten \in [Conn -> Seq(Byte)]
  /\ pos \in [Conn -> Nat]
  /\ start \in [Conn -> Nat]
  /\ reply \in [Conn -> Seq(Byte)]
  /\ shifted \in [Conn -> BOOLEAN]
  /\ mixed \in [Conn -> BOOLEAN]
  /\ stores \in [{0, 1} -> Seq(Seq(Byte))]
  /\ pending \in Seq(Byte)
  /\ named \in {0, 1}
  /\ mutex \in Conn \cup {Timer, NoOne}
  /\ tpc \in {"none", "sleep", "open", "append"}
  /\ tfile \in {0, 1}
  /\ stamps \in Nat

(* The thread has put a command together. *)
Received(c) == Contains(data[c], NewLine)

(***************************************************************************)
(* However the client's bytes arrive, a thread's command is what the       *)
(* client sent up to its first newline, without the NUL bytes              *)
(* (aesdsocket.c:165-191), and none is used before its newline is there.   *)
(***************************************************************************)
CommandsFramed ==
  \A c \in Conn :
    /\ Received(c) => data[c] = UpToNewLine(Text(Stream[c]))
    /\ ~Received(c) => data[c] = Text(SubSeq(Stream[c], 1, recvd[c]))
    /\ wpc[c] \in {"lock", "open", "append", "reply"} => Received(c)

ReplyEnds(c) == wpc[c] = "reply" /\ wpc'[c] = "finish" /\ ~shifted[c]

(***************************************************************************)
(* What a thread has sent back when its reply ends is the content from the *)
(* position its append or its ioctl left, to the end, without a gap or a   *)
(* repetition although others append meanwhile (aesdsocket.c:220-231),     *)
(* unless the device evicted a command while it was read.                  *)
(***************************************************************************)
ReplyComplete ==
  [][\A c \in Conn :
       ReplyEnds(c) => reply'[c] = SubSeq(Content(c), start[c] + 1, Len(Content(c)))]_vars

(***************************************************************************)
(* A client is sent its own command back in one piece (aesdsocket.c:       *)
(* 199-232), unless the device evicted one between the append and the end  *)
(* of the reply.  Where there is no mutex, another client may have written *)
(* between the pieces of a command longer than a stdio buffer, and only    *)
(* then it is not there.                                                   *)
(***************************************************************************)
OwnCommandReplied ==
  [][\A c \in Conn :
       ReplyEnds(c) /\ ~IsSeek(data[c]) /\ (UseDevice => ~mixed[c])
         => \E i \in 0 .. Len(reply'[c]) - Len(data[c]) :
              SubSeq(reply'[c], i + 1, i + Len(data[c])) = data[c]]_vars

(***************************************************************************)
(* A client that has sent a newline is served: its thread completes, if    *)
(* the process does not end before.  No thread waits for the mutex for     *)
(* ever and every reply comes to an end.                                   *)
(***************************************************************************)
Served ==
  \A c \in Conn :
    (wpc[c] = "recv" /\ Contains(SubSeq(Stream[c], 1, sent[c]), NewLine))
      ~> (complete[c] \/ status # "up")

=============================================================================
