---------------------------- MODULE SystemCalls ----------------------------
(***************************************************************************)
(* The system call example (examples/systemcalls): do_system, do_exec and  *)
(* do_exec_redirect run a command in a child process and report whether it *)
(* succeeded.  One process makes the calls, from one thread or several; a  *)
(* child belongs to the process, and wait takes any that has ended.        *)
(*                                                                         *)
(* The child of a call is named by the call.  Of a command only its end is *)
(* left: an exit with 0, another exit, or a signal.                        *)
(***************************************************************************)
EXTENDS Integers, FiniteSets

CONSTANTS
  Call,    \* the calls the process makes
  Caller,  \* its threads
  By,      \* By[c]: the thread that makes call c
  NoCall

ASSUME CallAssumption ==
  IsFiniteSet(Call) /\ By \in [Call -> Caller] /\ NoCall \notin Call

VARIABLES
  status, \* "up", or "aborted" by abort()
  kind,   \* kind[c]: the function called
  pc,     \* where a call is
  child,  \* child[c]: the state of its child, its exit at the end
  reaper, \* reaper[c]: the call whose wait took the child's exit
  files,  \* the output files the process has open, named by their calls
  holds,  \* holds[c]: the ones the child of c has open
  result, \* result[c]: what the call returned
  heirs,  \* history: heirs[c]: the calls that forked while c had its file open
  alone   \* history: the calls no other call overlapped or preceded with a
          \* child that was not waited for

vars == <<status, kind, pc, child, reaper, files, holds, result, heirs, alone>>

Exits == {"zero", "nonzero", "signal"}

Init ==
  /\ status = "up"
  /\ kind = [c \in Call |-> "none"]
  /\ pc = [c \in Call |-> "none"]
  /\ child = [c \in Call |-> "none"]
  /\ reaper = [c \in Call |-> NoCall]
  /\ files = {}
  /\ holds = [c \in Call |-> {}]
  /\ result = [c \in Call |-> FALSE]
  /\ heirs = [c \in Call |-> {}]
  /\ alone = {}

Active == {c \in Call : pc[c] \notin {"none", "returned"}}

(* The children of the process as the kernel counts them. *)
Unreaped == {c \in Call : child[c] # "none" /\ reaper[c] = NoCall}

At(c, k, place) == status = "up" /\ kind[c] \in k /\ pc[c] = place

Goto(c, place) == pc' = [pc EXCEPT ![c] = place]

Return(c, value) == Goto(c, "returned") /\ result' = [result EXCEPT ![c] = value]

Abort ==
  /\ status' = "aborted"
  /\ UNCHANGED <<kind, pc, child, reaper, files, holds, result, heirs, alone>>

-----------------------------------------------------------------------------
(* A thread makes its next call. *)
Begin(c) ==
  /\ status = "up" /\ pc[c] = "none"
  /\ \A d \in Active : By[d] # By[c]
  /\ \E k \in {"system", "exec", "redirect"} :
       /\ kind' = [kind EXCEPT ![c] = k]
       /\ Goto(c, IF k = "redirect" THEN "open" ELSE "fork")
  /\ alone' = IF Active \cup Unreaped = {} THEN alone \cup {c} ELSE alone \ Active
  /\ UNCHANGED <<status, child, reaper, files, holds, result, heirs>>

(* open(outputfile, ...), and abort() if that fails. *)
Open(c) ==
  /\ At(c, {"redirect"}, "open")
  /\ files' = files \cup {c}
  /\ Goto(c, "fork")
  /\ UNCHANGED <<status, kind, child, reaper, holds, result, heirs, alone>>

OpenFails(c) == At(c, {"redirect"}, "open") /\ Abort

(* Call c is between its open and its close. *)
HasOutput(c) == kind[c] = "redirect" /\ pc[c] \in {"fork", "close"}

(* fork: the child has every file the process has open. *)
Fork(c) ==
  /\ At(c, {"system", "exec", "redirect"}, "fork")
  /\ child' = [child EXCEPT ![c] = "forked"]
  /\ holds' = [holds EXCEPT ![c] = files]
  /\ heirs' = [d \in Call |-> IF HasOutput(d) THEN heirs[d] \cup {c} ELSE heirs[d]]
  /\ Goto(c, IF kind[c] = "redirect" THEN "close" ELSE "wait")
  /\ UNCHANGED <<status, kind, reaper, files, result, alone>>

(* do_exec takes -1 for a child and waits; do_exec_redirect aborts, and    *)
(* system returns -1.                                                      *)
ForkFailsExec(c) ==
  /\ At(c, {"exec"}, "fork")
  /\ Goto(c, "wait")
  /\ UNCHANGED <<status, kind, child, reaper, files, holds, result, heirs, alone>>

ForkFailsSystem(c) ==
  /\ At(c, {"system"}, "fork")
  /\ Return(c, FALSE)
  /\ UNCHANGED <<status, kind, child, reaper, files, holds, heirs, alone>>

ForkFailsRedirect(c) == At(c, {"redirect"}, "fork") /\ Abort

(* Variation of StillOpen. *)
StillOpenAll(c) == files

(* The files left open by close(fd) in the parent. *)
StillOpen(c) == files \ {c}

Close(c) ==
  /\ At(c, {"redirect"}, "close")
  /\ files' = StillOpen(c)
  /\ Goto(c, "wait")
  /\ UNCHANGED <<status, kind, child, reaper, holds, result, heirs, alone>>

-----------------------------------------------------------------------------
(* The child becomes the command, its output on the file of its call ... *)
Exec(c) ==
  /\ status = "up" /\ child[c] = "forked"
  /\ child' = [child EXCEPT ![c] = "running"]
  /\ UNCHANGED <<status, kind, pc, reaper, files, holds, result, heirs, alone>>

Ends(c, exit) ==
  /\ child' = [child EXCEPT ![c] = exit]
  /\ holds' = [holds EXCEPT ![c] = {}]
  /\ UNCHANGED <<status, kind, pc, reaper, files, result, heirs, alone>>

(* ... or cannot: it exits with 1, as the shell of system does with 127;   *)
(* that of do_exec_redirect, whose dup2 may fail as well, aborts.          *)
ExecFails(c) ==
  /\ status = "up" /\ child[c] = "forked"
  /\ Ends(c, IF kind[c] = "redirect" THEN "signal" ELSE "nonzero")

CommandEnds(c) ==
  /\ status = "up" /\ child[c] = "running"
  /\ \E exit \in Exits : Ends(c, exit)

-----------------------------------------------------------------------------
(* Variation of Succeeded. *)
SucceededIfExited(exit) == exit # "signal"

(* WIFEXITED(status) && WEXITSTATUS(status) == 0 *)
Succeeded(exit) == exit = "zero"

(* Variation of Reap. *)
ReapTwice(c, d) ==
  /\ child[d] \in Exits
  /\ UNCHANGED reaper

(* A child that has ended is taken. *)
Reap(c, d) ==
  /\ child[d] \in Exits /\ reaper[d] = NoCall
  /\ reaper' = [reaper EXCEPT ![d] = c]

(* Variation of Wait. *)
WaitNoHang(c) ==
  /\ At(c, {"exec", "redirect"}, "wait")
  /\ \/ \E d \in Call : Reap(c, d) /\ Return(c, Succeeded(child[d]))
     \/ Return(c, FALSE) /\ UNCHANGED reaper
  /\ UNCHANGED <<status, kind, child, files, holds, heirs, alone>>

(* wait(&status) blocks until some child of the process has ended. *)
Wait(c) ==
  /\ At(c, {"exec", "redirect"}, "wait")
  /\ \E d \in Call : Reap(c, d) /\ Return(c, Succeeded(child[d]))
  /\ UNCHANGED <<status, kind, child, files, holds, heirs, alone>>

(* Variation of WaitFails. *)
WaitRetries(c) ==
  /\ At(c, {"exec", "redirect"}, "wait") /\ Unreaped = {}
  /\ UNCHANGED vars

(* Without a child it fails, and status was never set. *)
WaitFails(c) ==
  /\ At(c, {"exec", "redirect"}, "wait") /\ Unreaped = {}
  /\ \E garbage \in BOOLEAN : Return(c, garbage)
  /\ UNCHANGED <<status, kind, child, reaper, files, holds, heirs, alone>>

(* system waits for its own child, and returns -1 when it is not there.    *)
WaitOwn(c) ==
  /\ At(c, {"system"}, "wait")
  /\ \/ Reap(c, c) /\ Return(c, Succeeded(child[c]))
     \/ reaper[c] # NoCall /\ Return(c, FALSE) /\ UNCHANGED reaper
  /\ UNCHANGED <<status, kind, child, files, holds, heirs, alone>>

-----------------------------------------------------------------------------
Progress(c) ==
  \/ Open(c) \/ OpenFails(c)
  \/ Fork(c) \/ ForkFailsExec(c) \/ ForkFailsSystem(c) \/ ForkFailsRedirect(c)
  \/ Close(c)
  \/ Wait(c) \/ WaitFails(c) \/ WaitOwn(c)

Child(c) == Exec(c) \/ ExecFails(c)

Next == \E c \in Call : Begin(c) \/ Progress(c) \/ Child(c) \/ CommandEnds(c)

Spec == Init /\ [][Next]_vars

(* The threads and the children are scheduled; a command may run for ever. *)
FairSpec == Spec /\ \A c \in Call : WF_vars(Progress(c)) /\ WF_vars(Child(c))

-----------------------------------------------------------------------------
TypeOK ==
  /\ status \in {"up", "aborted"}
  /\ kind \in [Call -> {"none", "system", "exec", "redirect"}]
  /\ pc \in [Call -> {"none", "open", "fork", "close", "wait", "returned"}]
  /\ child \in [Call -> {"none", "forked", "running"} \cup Exits]
  /\ reaper \in [Call -> Call \cup {NoCall}]
  /\ files \subseteq Call /\ holds \in [Call -> SUBSET Call]
  /\ result \in [Call -> BOOLEAN]
  /\ heirs \in [Call -> SUBSET Call] /\ alone \subseteq Call

(***************************************************************************)
(* A call that has the process to itself reports its own command: true     *)
(* just if that exited with 0 (systemcalls.c:23-29, 70-82, 113-127).  Only *)
(* when no child could be forked is there nothing to report.               *)
(***************************************************************************)
OwnResult ==
  \A c \in alone :
    pc[c] = "returned" /\ child[c] # "none"
      => reaper[c] = c /\ (result[c] <=> child[c] = "zero")

(* The calls of system whose child another call's wait took. *)
Lost == {c \in Call : kind[c] = "system" /\ pc[c] = "returned" /\ reaper[c] \notin {c, NoCall}}

Idle == status = "up" /\ Active = {}

(***************************************************************************)
(* When no call is in progress, the process has no children left but one   *)
(* for every do_system that lost its own to a concurrent do_exec: calls    *)
(* may take each other's children, never leave one (systemcalls.c:79, 126).*)
(***************************************************************************)
ChildrenReaped == Idle => Cardinality(Unreaped) <= Cardinality(Lost)

(***************************************************************************)
(* Concurrent calls that all got a child report as many successes as there *)
(* were commands that exited with 0, although each may report another's.   *)
(***************************************************************************)
SuccessesMatch ==
  Idle /\ Lost = {} /\ (\A c \in Call : pc[c] = "returned" => child[c] # "none")
    => Cardinality({c \in Call : result[c]}) = Cardinality({c \in Call : child[c] = "zero"})

(***************************************************************************)
(* The output file is closed at the end of the call (systemcalls.c:85-88): *)
(* in the process, and in every child but those that other calls forked    *)
(* between its open and its close (systemcalls.c:114-124).  Its own child  *)
(* has it no more, unless the call returned with the child of another.     *)
(***************************************************************************)
FileClosed ==
  \A c \in Call :
    pc[c] = "returned" => /\ c \notin files
                          /\ \A d \in Call \ heirs[c] : c \notin holds[d]
                          /\ c \in holds[c] => \E d \in Call \ {c} : reaper[d] = c

(***************************************************************************)
(* Every call returns or aborts the process, unless some command runs for  *)
(* ever: no wait is left without a child that will end (systemcalls.c:79). *)
(***************************************************************************)
CallsReturn ==
  \A c \in Call :
    \/ <>[](\E d \in Call : child[d] = "running")
    \/ c \in Active ~> status = "aborted" \/ pc[c] = "returned"
=============================================================================
