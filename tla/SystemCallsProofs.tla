------------------------- MODULE SystemCallsProofs -------------------------
(***************************************************************************)
(* Proofs about SystemCalls, for any calls and threads: a call that has    *)
(* the process to itself reports its own command, an output file is left   *)
(* open only in children that inherited it, and calls that overlap leave   *)
(* no child behind but those that do_system lost to them.                  *)
(*                                                                         *)
(* IInv says which states of a call, its child and its file go together,   *)
(* and that while a call is alone no other is in progress and no other     *)
(* child is left.  EnoughWaits counts the calls that still have a child to *)
(* wait for, and Reports pairs each child taken with the call it went to.  *)
(***************************************************************************)
EXTENDS SystemCalls, FiniteSetTheorems, TLAPS

(* A call and its child: forked in "fork", taken only after its end. *)
Children ==
  \A c \in Call :
    /\ pc[c] \in {"none", "open", "fork"} => child[c] = "none"
    /\ child[c] = "none" => reaper[c] = NoCall /\ holds[c] = {}
    /\ child[c] \in Exits => holds[c] = {}
    /\ reaper[c] # NoCall => child[c] \in Exits /\ pc[reaper[c]] = "returned"

(* The output files: open from open to close, and in the children forked   *)
(* meanwhile.                                                              *)
OutputFiles ==
  /\ \A c \in files : HasOutput(c)
  /\ \A c \in Call : \A d \in Call :
       c \in holds[d] => kind[c] = "redirect" /\ pc[c] \notin {"none", "open"}
  /\ \A c \in Call : pc[c] \in {"open", "close"} => kind[c] = "redirect"
  /\ \A c \in Call : \A d \in Call : c \in holds[d] => d \in heirs[c]

(* A call that returned while its own child goes on took another's.        *)
Exchanged ==
  \A c \in Call :
    pc[c] = "returned" /\ c \in holds[c] => \E d \in Call \ {c} : reaper[d] = c

(* Nobody is in the way of a call that is alone. *)
Undisturbed ==
  \A c \in alone :
    /\ pc[c] # "none"
    /\ c \in Active => /\ \A d \in Call \ {c} : d \notin Active /\ d \notin Unreaped
                       /\ child[c] # "none" => c \in Unreaped

IInv == TypeOK /\ Children /\ OutputFiles /\ Undisturbed /\ OwnResult /\ Exchanged

LEMMA InitInv == Init => IInv
BY DEF Init, IInv, TypeOK, Children, HasOutput, OutputFiles, Undisturbed, OwnResult, Exchanged,
   Exits

(* A thread that begins a call is in none. *)
LEMMA BeginInv == ASSUME IInv, NEW c \in Call, Begin(c) PROVE IInv'
<1>1. TypeOK'
  BY DEF IInv, TypeOK, Begin, Goto
<1>2. Children'
  BY DEF IInv, Children, Begin, Goto
<1>3. OutputFiles'
  BY DEF IInv, TypeOK, HasOutput, OutputFiles, Begin, Goto
<1>4. Undisturbed'
  BY DEF IInv, TypeOK, Undisturbed, Begin, Goto, Active, Unreaped, Children
<1>5. OwnResult'
  BY DEF IInv, OwnResult, Begin, Goto
<1>6. Exchanged'
  BY DEF IInv, Exchanged, Begin, Goto
<1>. QED
  BY <1>1, <1>2, <1>3, <1>4, <1>5, <1>6 DEF IInv

LEMMA OpenInv == ASSUME IInv, NEW c \in Call, Open(c) PROVE IInv'
<1>1. TypeOK'
  BY DEF IInv, TypeOK, Open, Goto
<1>2. Children'
  BY DEF IInv, Children, Open, At, Goto
<1>3. OutputFiles'
  BY DEF IInv, TypeOK, HasOutput, OutputFiles, Open, At, Goto
<1>4. Undisturbed'
  BY DEF IInv, Undisturbed, Open, At, Goto, Active, Unreaped
<1>5. OwnResult'
  BY DEF IInv, OwnResult, Open, Goto
<1>6. Exchanged'
  BY DEF IInv, Exchanged, Open, At, Goto
<1>. QED
  BY <1>1, <1>2, <1>3, <1>4, <1>5, <1>6 DEF IInv

LEMMA OpenFailsInv == ASSUME IInv, NEW c \in Call, OpenFails(c) PROVE IInv'
<1>1. TypeOK'
  BY DEF IInv, TypeOK, Abort, OpenFails
<1>2. Children'
  BY DEF IInv, Children, Abort, OpenFails
<1>3. OutputFiles'
  BY DEF IInv, HasOutput, OutputFiles, Abort, OpenFails
<1>4. Undisturbed'
  BY DEF IInv, Undisturbed, Active, Unreaped, Abort, OpenFails
<1>5. OwnResult'
  BY DEF IInv, OwnResult, Abort, OpenFails
<1>6. Exchanged'
  BY DEF IInv, Exchanged, Abort, OpenFails
<1>. QED
  BY <1>1, <1>2, <1>3, <1>4, <1>5, <1>6 DEF IInv

(* The child has the files that are open: that of a call between its open  *)
(* and its close, which counts it among the heirs.                         *)
LEMMA ForkInv == ASSUME IInv, NEW c \in Call, Fork(c) PROVE IInv'
<1>1. TypeOK'
  BY DEF IInv, TypeOK, Fork, Goto
<1>2. Children'
  BY DEF IInv, TypeOK, Children, Fork, Exits, At, Goto
<1>3. OutputFiles'
  BY DEF IInv, HasOutput, OutputFiles, Fork, Goto
<1>4. Undisturbed'
  BY DEF IInv, Undisturbed, Fork, At, Goto, Active, Unreaped, Children
<1>5. OwnResult'
  BY DEF IInv, OwnResult, Fork, At, Goto
<1>6. Exchanged'
  BY DEF IInv, TypeOK, Exchanged, Fork, At, Goto
<1>. QED
  BY <1>1, <1>2, <1>3, <1>4, <1>5, <1>6 DEF IInv

LEMMA ForkFailsExecInv == ASSUME IInv, NEW c \in Call, ForkFailsExec(c) PROVE IInv'
<1>1. TypeOK'
  BY DEF IInv, TypeOK, Goto, ForkFailsExec
<1>2. Children'
  BY DEF IInv, Children, At, Goto, ForkFailsExec
<1>3. OutputFiles'
  BY DEF IInv, HasOutput, OutputFiles, At, Goto, ForkFailsExec
<1>4. Undisturbed'
  BY DEF IInv, Undisturbed, Active, Unreaped, At, Goto, ForkFailsExec
<1>5. OwnResult'
  BY DEF IInv, OwnResult, Goto, ForkFailsExec
<1>6. Exchanged'
  BY DEF IInv, Exchanged, Goto, ForkFailsExec
<1>. QED
  BY <1>1, <1>2, <1>3, <1>4, <1>5, <1>6 DEF IInv

LEMMA ForkFailsSystemInv == ASSUME IInv, NEW c \in Call, ForkFailsSystem(c) PROVE IInv'
<1>1. TypeOK'
  BY DEF IInv, TypeOK, Goto, Return, ForkFailsSystem
<1>2. Children'
  BY DEF IInv, Children, Goto, Return, ForkFailsSystem
<1>3. OutputFiles'
  BY DEF IInv, HasOutput, OutputFiles, At, Goto, Return, ForkFailsSystem
<1>4. Undisturbed'
  BY DEF IInv, Undisturbed, Active, Unreaped, Goto, Return, ForkFailsSystem
<1>5. OwnResult'
  BY DEF IInv, Children, OwnResult, At, Goto, Return, ForkFailsSystem
<1>6. Exchanged'
  BY DEF IInv, HasOutput, OutputFiles, Exchanged, At, Goto, Return, ForkFailsSystem
<1>. QED
  BY <1>1, <1>2, <1>3, <1>4, <1>5, <1>6 DEF IInv

LEMMA ForkFailsRedirectInv == ASSUME IInv, NEW c \in Call, ForkFailsRedirect(c) PROVE IInv'
<1>1. TypeOK'
  BY DEF IInv, TypeOK, Abort, ForkFailsRedirect
<1>2. Children'
  BY DEF IInv, Children, Abort, ForkFailsRedirect
<1>3. OutputFiles'
  BY DEF IInv, HasOutput, OutputFiles, Abort, ForkFailsRedirect
<1>4. Undisturbed'
  BY DEF IInv, Undisturbed, Active, Unreaped, Abort, ForkFailsRedirect
<1>5. OwnResult'
  BY DEF IInv, OwnResult, Abort, ForkFailsRedirect
<1>6. Exchanged'
  BY DEF IInv, Exchanged, Abort, ForkFailsRedirect
<1>. QED
  BY <1>1, <1>2, <1>3, <1>4, <1>5, <1>6 DEF IInv

LEMMA CloseInv == ASSUME IInv, NEW c \in Call, Close(c) PROVE IInv'
<1>1. TypeOK'
  BY DEF IInv, TypeOK, Close, Goto, StillOpen
<1>2. Children'
  BY DEF IInv, Children, Close, At, Goto
<1>3. OutputFiles'
  BY DEF IInv, HasOutput, OutputFiles, Close, Goto, StillOpen
<1>4. Undisturbed'
  BY DEF IInv, Undisturbed, Close, At, Goto, Active, Unreaped
<1>5. OwnResult'
  BY DEF IInv, OwnResult, Close, Goto
<1>6. Exchanged'
  BY DEF IInv, Exchanged, Close, Goto, StillOpen
<1>. QED
  BY <1>1, <1>2, <1>3, <1>4, <1>5, <1>6 DEF IInv

LEMMA ExecInv == ASSUME IInv, NEW c \in Call, Exec(c) PROVE IInv'
<1>1. TypeOK'
  BY DEF IInv, TypeOK, Exec
<1>2. Children'
  BY DEF IInv, Children, Exec, Exits
<1>3. OutputFiles'
  BY DEF IInv, HasOutput, OutputFiles, Exec
<1>4. Undisturbed'
  BY DEF IInv, Undisturbed, Exec, Active, Unreaped
<1>5. OwnResult'
  BY DEF IInv, OwnResult, Exec
<1>6. Exchanged'
  BY DEF IInv, Exchanged, Exec
<1>. QED
  BY <1>1, <1>2, <1>3, <1>4, <1>5, <1>6 DEF IInv

LEMMA ExecFailsInv == ASSUME IInv, NEW c \in Call, ExecFails(c) PROVE IInv'
<1>1. TypeOK'
  BY DEF IInv, TypeOK, Exits, ExecFails, Ends
<1>2. Children'
  BY DEF IInv, TypeOK, Children, Exits, ExecFails, Ends
<1>3. OutputFiles'
  BY DEF IInv, HasOutput, OutputFiles, ExecFails, Ends
<1>4. Undisturbed'
  BY DEF IInv, Undisturbed, Active, Unreaped, ExecFails, Ends
<1>5. OwnResult'
  BY DEF IInv, OwnResult, ExecFails, Ends
<1>6. Exchanged'
  BY DEF IInv, Exchanged, ExecFails, Ends
<1>. QED
  BY <1>1, <1>2, <1>3, <1>4, <1>5, <1>6 DEF IInv

LEMMA CommandEndsInv == ASSUME IInv, NEW c \in Call, CommandEnds(c) PROVE IInv'
<1>1. TypeOK'
  BY DEF IInv, TypeOK, CommandEnds, Ends
<1>2. Children'
  BY DEF IInv, TypeOK, Children, Exits, CommandEnds, Ends
<1>3. OutputFiles'
  BY DEF IInv, HasOutput, OutputFiles, CommandEnds, Ends
<1>4. Undisturbed'
  BY DEF IInv, Undisturbed, Active, Unreaped, CommandEnds, Ends
<1>5. OwnResult'
  BY CallAssumption DEF IInv, Children, OwnResult, Exits, CommandEnds, Ends
<1>6. Exchanged'
  BY DEF IInv, Exchanged, CommandEnds, Ends
<1>. QED
  BY <1>1, <1>2, <1>3, <1>4, <1>5, <1>6 DEF IInv

(* A call that is alone has the only child there is to take. *)
LEMMA WaitInv == ASSUME IInv, NEW c \in Call, Wait(c) PROVE IInv'
<1>1. PICK d \in Call : Reap(c, d) /\ Return(c, Succeeded(child[d]))
  BY DEF Wait
<1>2. c \in alone => d = c
  BY <1>1 DEF IInv, Undisturbed, Wait, At, Active, Unreaped, Reap, Exits
<1>3. TypeOK'
  BY DEF IInv, TypeOK, Goto, Return, Wait, Reap, Succeeded
<1>4. Children'
  BY DEF IInv, TypeOK, Children, Exits, Goto, Return, Wait, Reap
<1>5. OutputFiles'
  BY DEF IInv, HasOutput, OutputFiles, At, Goto, Return, Wait
<1>6. Undisturbed'
  BY DEF IInv, TypeOK, Undisturbed, Active, At, Goto, Return, Wait
<1>7. OwnResult'
  <2>1. ASSUME NEW e \in alone, e # c, pc[e] = "returned", child[e] # "none"
        PROVE  reaper'[e] = e /\ (result'[e] <=> child[e] = "zero")
    BY <1>1, <2>1, CallAssumption DEF IInv, TypeOK, OwnResult, Reap, Return
  <2>2. c \in alone => reaper'[c] = c /\ (result'[c] <=> child[c] = "zero")
    BY <1>1, <1>2 DEF IInv, TypeOK, Reap, Return, Succeeded
  <2>. QED
    BY <2>1, <2>2 DEF IInv, TypeOK, OwnResult, Wait, Return, Goto
<1>8. Exchanged'
  <2>1. \A e \in Call : reaper[e] # NoCall => reaper'[e] = reaper[e]
    BY <1>1 DEF Reap
  <2>2. c \in holds[c] => d # c /\ reaper'[d] = c
    BY <1>1 DEF IInv, TypeOK, Children, Reap
  <2>3. \A e \in Call : e # c => pc'[e] = pc[e]
    BY <1>1 DEF IInv, TypeOK, Return, Goto
  <2>. QED
    BY <2>1, <2>2, <2>3, CallAssumption DEF IInv, Exchanged, Wait
<1>. QED
  BY <1>3, <1>4, <1>5, <1>6, <1>7, <1>8 DEF IInv

LEMMA WaitFailsInv == ASSUME IInv, NEW c \in Call, WaitFails(c) PROVE IInv'
<1>1. TypeOK'
  BY DEF IInv, TypeOK, Goto, Return, WaitFails
<1>2. Children'
  BY DEF IInv, Children, Goto, Return, WaitFails
<1>3. OutputFiles'
  BY DEF IInv, HasOutput, OutputFiles, At, Goto, Return, WaitFails
<1>4. Undisturbed'
  BY DEF IInv, Undisturbed, Active, Unreaped, Goto, Return, WaitFails
<1>5. OwnResult'
  BY DEF IInv, Undisturbed, OwnResult, Active, At, Goto, Return, WaitFails
<1>6. Exchanged'
  BY DEF IInv, Children, OutputFiles, Exchanged, Unreaped, At, Goto, Return, WaitFails
<1>. QED
  BY <1>1, <1>2, <1>3, <1>4, <1>5, <1>6 DEF IInv

(* system takes its own child or, if that was taken, was not alone. *)
LEMMA WaitOwnInv == ASSUME IInv, NEW c \in Call, WaitOwn(c) PROVE IInv'
<1>1. CASE Reap(c, c) /\ Return(c, Succeeded(child[c]))
  <2>1. TypeOK'
    BY <1>1 DEF IInv, TypeOK, Goto, Return, WaitOwn, Reap, Succeeded
  <2>2. Children'
    BY DEF IInv, TypeOK, Children, Exits, Goto, Return, WaitOwn, Reap
  <2>3. OutputFiles'
    BY <1>1 DEF IInv, HasOutput, OutputFiles, At, Goto, Return, WaitOwn
  <2>4. Undisturbed'
    BY DEF IInv, TypeOK, Undisturbed, Active, At, Goto, Return, WaitOwn
  <2>5. OwnResult'
    <3>1. ASSUME NEW e \in alone, e # c, pc[e] = "returned", child[e] # "none"
          PROVE  reaper'[e] = e /\ (result'[e] <=> child[e] = "zero")
      BY <1>1, <3>1, CallAssumption DEF IInv, TypeOK, OwnResult, Reap, Return
    <3>2. c \in alone => reaper'[c] = c /\ (result'[c] <=> child[c] = "zero")
      BY <1>1 DEF IInv, TypeOK, Reap, Return, Succeeded
    <3>. QED
      BY <3>1, <3>2 DEF IInv, TypeOK, OwnResult, WaitOwn, Return, Goto
  <2>6. Exchanged'
    <3>1. \A e \in Call : reaper[e] # NoCall => reaper'[e] = reaper[e]
      BY <1>1 DEF Reap
    <3>2. c \notin holds[c]
      BY <1>1 DEF IInv, Children, Reap
    <3>3. \A e \in Call : e # c => pc'[e] = pc[e]
      BY <1>1 DEF IInv, TypeOK, Return, Goto
    <3>. QED
      BY <3>1, <3>2, <3>3, CallAssumption DEF IInv, Exchanged, WaitOwn
  <2>. QED
    BY <2>1, <2>2, <2>3, <2>4, <2>5, <2>6 DEF IInv
<1>2. CASE reaper[c] # NoCall /\ Return(c, FALSE) /\ UNCHANGED reaper
  <2>1. TypeOK'
    BY <1>2 DEF IInv, TypeOK, Goto, Return, WaitOwn
  <2>2. Children'
    BY <1>2 DEF IInv, Children, Goto, Return, WaitOwn
  <2>3. OutputFiles'
    BY <1>2 DEF IInv, HasOutput, OutputFiles, At, Goto, Return, WaitOwn
  <2>4. Undisturbed'
    BY <1>2 DEF IInv, Undisturbed, Active, Unreaped, Goto, Return, WaitOwn
  <2>5. OwnResult'
    <3>1. ASSUME NEW e \in alone, e # c, pc[e] = "returned", child[e] # "none"
          PROVE  reaper'[e] = e /\ (result'[e] <=> child[e] = "zero")
      BY <1>2, <3>1, CallAssumption DEF IInv, TypeOK, OwnResult, Reap, Return
    <3>2. c \notin alone
      BY <1>2 DEF IInv, Children, Undisturbed, WaitOwn, At, Active, Unreaped, Exits
    <3>. QED
      BY <3>1, <3>2 DEF IInv, TypeOK, OwnResult, WaitOwn, Return, Goto
  <2>6. Exchanged'
    BY <1>2 DEF IInv, HasOutput, OutputFiles, Exchanged, At, Goto, Return, WaitOwn
  <2>. QED
    BY <2>1, <2>2, <2>3, <2>4, <2>5, <2>6 DEF IInv
<1>. QED
  BY <1>1, <1>2 DEF WaitOwn

-----------------------------------------------------------------------------
LEMMA Inductive == IInv /\ [Next]_vars => IInv'
<1>. SUFFICES ASSUME IInv, [Next]_vars
              PROVE  IInv'
  OBVIOUS
<1>1. ASSUME NEW c \in Call, Begin(c) \/ Progress(c) \/ Child(c) \/ CommandEnds(c)
      PROVE  IInv'
  BY <1>1, BeginInv, OpenInv, OpenFailsInv, ForkInv, ForkFailsExecInv,
     ForkFailsSystemInv,
     ForkFailsRedirectInv, CloseInv, ExecInv, ExecFailsInv, CommandEndsInv, WaitInv,
     WaitFailsInv, WaitOwnInv DEF Progress, Child
<1>2. CASE UNCHANGED vars
  BY <1>2 DEF IInv, TypeOK, Children, HasOutput, OutputFiles, Undisturbed, OwnResult, Exchanged,
              Active, Unreaped, vars
<1>. QED
  BY <1>1, <1>2 DEF Next

LEMMA Invariant == Spec => []IInv
BY InitInv, Inductive, PTL DEF Spec

(* Every variable keeps its type. *)
THEOREM TypesKept == Spec => []TypeOK
<1>1. IInv => TypeOK
  BY DEF IInv
<1>. QED
  BY <1>1, Invariant, PTL

(* A call that has the process to itself returns true just if its own      *)
(* command exited with 0, whichever function it is (systemcalls.c:23-29,   *)
(* 70-82, 113-127).                                                        *)
THEOREM ReportsOwnCommand == Spec => []OwnResult
<1>1. IInv => OwnResult
  BY DEF IInv
<1>. QED
  BY <1>1, Invariant, PTL

(* At the end of a call its output file is closed in the process and in    *)
(* every child but those that other calls forked while it was open, and    *)
(* its own if it returned with another's (systemcalls.c:85-88, 114-126).   *)
THEOREM OutputClosed == Spec => []FileClosed
<1>1. IInv => FileClosed
  BY DEF IInv, TypeOK, OutputFiles, HasOutput, Exchanged, FileClosed
<1>. QED
  BY <1>1, Invariant, PTL

-----------------------------------------------------------------------------
(***************************************************************************)
(* No child is left behind: there are never more children to wait for than *)
(* calls that will wait and calls of system that lost theirs.              *)
(***************************************************************************)
Waiting == {c \in Call : pc[c] \in {"close", "wait"}}

EnoughWaits ==
  status = "up" => Cardinality(Unreaped) <= Cardinality(Waiting) + Cardinality(Lost)

LEMMA Counted ==
  ASSUME NEW S \in SUBSET Call
  PROVE  /\ IsFiniteSet(S) /\ Cardinality(S) \in Nat
         /\ \A T \in SUBSET S : Cardinality(T) <= Cardinality(S)
         /\ \A c \in S : Cardinality(S \ {c}) = Cardinality(S) - 1
         /\ \A c \in Call \ S : Cardinality(S \cup {c}) = Cardinality(S) + 1
<1>1. IsFiniteSet(S)
  BY CallAssumption, FS_Subset
<1>. QED
  BY <1>1, FS_CardinalityType, FS_Subset, FS_RemoveElement, FS_AddElement

LEMMA SetsOfCalls ==
  /\ Unreaped \in SUBSET Call /\ Waiting \in SUBSET Call /\ Lost \in SUBSET Call
  /\ Unreaped' \in SUBSET Call /\ Waiting' \in SUBSET Call /\ Lost' \in SUBSET Call
BY DEF Unreaped, Waiting, Lost

LEMMA EnoughWaitsStep == IInv /\ EnoughWaits /\ [Next]_vars => EnoughWaits'
<1>. SUFFICES ASSUME IInv, EnoughWaits, [Next]_vars, status' = "up"
              PROVE  Cardinality(Unreaped') <= Cardinality(Waiting') + Cardinality(Lost')
  BY DEF EnoughWaits, Unreaped, Waiting, Lost
<1>1. status = "up"
  BY DEF Next, Begin, Progress, Child, CommandEnds, Open, OpenFails, Fork, ForkFailsExec,
     ForkFailsSystem, ForkFailsRedirect, Close, Wait, WaitFails, WaitOwn, Exec, ExecFails,
     At, vars
<1>2. Cardinality(Unreaped) <= Cardinality(Waiting) + Cardinality(Lost)
  BY <1>1 DEF EnoughWaits
<1>. DEFINE Counts ==
      \/ Cardinality(Unreaped') <= Cardinality(Unreaped)
         /\ Cardinality(Waiting') + Cardinality(Lost')
              >= Cardinality(Waiting) + Cardinality(Lost)
      \/ Cardinality(Unreaped') = Cardinality(Unreaped) + 1
         /\ Cardinality(Waiting') + Cardinality(Lost')
              >= Cardinality(Waiting) + Cardinality(Lost) + 1
      \/ Cardinality(Unreaped') = Cardinality(Unreaped) - 1
         /\ Cardinality(Waiting') + Cardinality(Lost')
              >= Cardinality(Waiting) + Cardinality(Lost) - 1
      \/ Cardinality(Unreaped') = 0
<1>3. Counts
  <2>1. ASSUME Unreaped' = Unreaped, Waiting' = Waiting, Lost' = Lost PROVE Counts
    BY <2>1, Counted, SetsOfCalls
  <2>2. ASSUME NEW c \in Call, Begin(c) PROVE Counts
    <3>1. Unreaped' = Unreaped /\ Waiting' = Waiting /\ Lost' = Lost
      BY <2>2 DEF Begin, Goto, IInv, TypeOK, Unreaped, Waiting, Lost
    <3>. QED
      BY <2>1, <3>1
  <2>3. ASSUME NEW c \in Call, Open(c) \/ Close(c) \/ ForkFailsSystem(c) PROVE Counts
    <3>1. Unreaped' = Unreaped /\ Waiting' = Waiting /\ Lost' = Lost
      BY <2>3 DEF Open, Close, ForkFailsSystem, At, Goto, Return, IInv, TypeOK,
         Children, Unreaped, Waiting, Lost
    <3>. QED
      BY <2>1, <3>1
  <2>4. ASSUME NEW c \in Call, Exec(c) \/ ExecFails(c) \/ CommandEnds(c) PROVE Counts
    <3>1. Unreaped' = Unreaped /\ Waiting' = Waiting /\ Lost' = Lost
      BY <2>4 DEF Exec, ExecFails, CommandEnds, Ends, Exits, IInv, TypeOK, Unreaped,
         Waiting, Lost
    <3>. QED
      BY <2>1, <3>1
  <2>5. ASSUME NEW c \in Call, Fork(c) PROVE Counts
    <3>1. c \notin Unreaped /\ Unreaped' = Unreaped \cup {c}
      BY <2>5 DEF Fork, At, IInv, TypeOK, Children, Unreaped
    <3>2. c \notin Waiting /\ Waiting' = Waiting \cup {c} /\ Lost' = Lost
      BY <2>5 DEF Fork, At, Goto, IInv, TypeOK, Waiting, Lost
    <3>. QED
      BY <3>1, <3>2, Counted, SetsOfCalls
  <2>6. ASSUME NEW c \in Call, ForkFailsExec(c) PROVE Counts
    <3>1. Unreaped' = Unreaped /\ Lost' = Lost
      BY <2>6 DEF ForkFailsExec, At, Goto, IInv, TypeOK, Unreaped, Lost
    <3>2. c \notin Waiting /\ Waiting' = Waiting \cup {c}
      BY <2>6 DEF ForkFailsExec, At, Goto, IInv, TypeOK, Waiting
    <3>. QED
      BY <3>1, <3>2, Counted, SetsOfCalls
  <2>7. ASSUME NEW c \in Call, Wait(c) PROVE Counts
    <3>1. PICK d \in Call : Reap(c, d) /\ Return(c, Succeeded(child[d]))
      BY <2>7 DEF Wait
    <3>2. d \in Unreaped /\ Unreaped' = Unreaped \ {d}
      BY <2>7, <3>1, CallAssumption DEF Wait, Reap, Exits, IInv, TypeOK, Unreaped
    <3>3. c \in Waiting /\ Waiting' = Waiting \ {c} /\ Lost \subseteq Lost'
      BY <2>7, <3>1 DEF Wait, Reap, Return, At, Goto, IInv, TypeOK, Waiting, Lost
    <3>. QED
      BY <3>2, <3>3, Counted, SetsOfCalls
  <2>8. ASSUME NEW c \in Call, WaitFails(c) PROVE Counts
    <3>1. Unreaped' = {}
      BY <2>8 DEF WaitFails, Unreaped
    <3>. QED
      BY <3>1, FS_EmptySet
  <2>9. ASSUME NEW c \in Call, WaitOwn(c) PROVE Counts
    <3>1. c \in Waiting
      BY <2>9 DEF WaitOwn, At, Waiting
    <3>2. CASE Reap(c, c) /\ Return(c, Succeeded(child[c]))
      <4>1. c \in Unreaped /\ Unreaped' = Unreaped \ {c}
        BY <2>9, <3>2, CallAssumption DEF WaitOwn, Reap, Exits, IInv, TypeOK, Unreaped
      <4>2. Waiting' = Waiting \ {c} /\ Lost' = Lost
        BY <2>9, <3>2 DEF WaitOwn, Reap, Return, At, Goto, IInv, TypeOK, Waiting, Lost
      <4>. QED
        BY <3>1, <4>1, <4>2, Counted, SetsOfCalls
    <3>3. CASE reaper[c] # NoCall /\ Return(c, FALSE) /\ UNCHANGED reaper
      <4>1. Unreaped' = Unreaped
        BY <2>9, <3>3 DEF WaitOwn, Unreaped
      <4>2. Waiting' = Waiting \ {c}
        BY <2>9, <3>3 DEF WaitOwn, Return, At, Goto, IInv, TypeOK, Waiting
      <4>3. c \notin Lost /\ Lost' = Lost \cup {c}
        BY <2>9, <3>3 DEF WaitOwn, Return, At, Goto, IInv, TypeOK, Children, Lost
      <4>. QED
        BY <3>1, <4>1, <4>2, <4>3, Counted, SetsOfCalls
    <3>. QED
      BY <2>9, <3>2, <3>3 DEF WaitOwn
  <2>10. CASE UNCHANGED vars
    BY <2>1, <2>10 DEF vars, Unreaped, Waiting, Lost
  <2>11. ASSUME NEW c \in Call, OpenFails(c) \/ ForkFailsRedirect(c) PROVE FALSE
    BY <2>11 DEF OpenFails, ForkFailsRedirect, Abort
  <2>. QED
    BY <2>2, <2>3, <2>4, <2>5, <2>6, <2>7, <2>8, <2>9, <2>10, <2>11 DEF Next, Progress,
       Child
<1>. QED
  BY <1>2, <1>3, Counted, SetsOfCalls

(* When no call is in progress, only a do_system that lost its child to a  *)
(* concurrent do_exec can have left one (systemcalls.c:79, 126).           *)
THEOREM NoneLeftBehind == Spec => []ChildrenReaped
<1>1. Init => EnoughWaits
  <2>. SUFFICES ASSUME Init PROVE EnoughWaits
    OBVIOUS
  <2>1. Unreaped = {} /\ Waiting = {} /\ Lost = {}
    BY DEF Init, Unreaped, Waiting, Lost
  <2>. QED
    BY <2>1, FS_EmptySet DEF EnoughWaits
<1>2. EnoughWaits => ChildrenReaped
  <2>. SUFFICES ASSUME EnoughWaits, Idle PROVE Cardinality(Unreaped) <= Cardinality(Lost)
    BY DEF ChildrenReaped
  <2>1. Waiting = {}
    BY DEF Idle, Active, Waiting
  <2>. QED
    BY <2>1, Counted, SetsOfCalls, FS_EmptySet DEF EnoughWaits, Idle
<1>. QED
  BY <1>1, <1>2, Invariant, EnoughWaitsStep, PTL DEF Spec

-----------------------------------------------------------------------------
(* A call takes at most one child and reports how that one ended, and only *)
(* a call that has returned reports a success.                             *)
Reports ==
  /\ \A d, e \in Call : reaper[d] = reaper[e] /\ reaper[d] # NoCall => d = e
  /\ \A d \in Call : reaper[d] # NoCall => (result[reaper[d]] <=> child[d] = "zero")
  /\ \A c \in Call : result[c] => pc[c] = "returned"

(* Only a wait takes a child, and a call that returns took none before. *)
LEMMA ReportsNext == IInv /\ Reports /\ [Next]_vars => Reports'
<1>. SUFFICES ASSUME IInv, Reports, [Next]_vars PROVE Reports'
  OBVIOUS
<1>. USE DEF IInv
<1>1. ASSUME NEW c \in Call, NEW d \in Call, status = "up", pc[c] = "wait",
             Reap(c, d), Return(c, Succeeded(child[d])), UNCHANGED child
      PROVE  Reports'
  <2>1. \A e \in Call : reaper[e] # c
    BY <1>1, CallAssumption DEF Children
  <2>2. \A e \in Call : reaper'[e] = IF e = d THEN c ELSE reaper[e]
    BY <1>1 DEF Reap, TypeOK
  <2>3. \A e \in Call : result'[e] = IF e = c THEN child[d] = "zero" ELSE result[e]
    BY <1>1 DEF Return, TypeOK, Succeeded
  <2>4. \A e \in Call : pc'[e] = IF e = c THEN "returned" ELSE pc[e]
    BY <1>1 DEF Return, Goto, TypeOK
  <2>5. \A e \in Call : reaper[e] \in Call \cup {NoCall}
    BY DEF TypeOK
  <2>6. c # NoCall
    BY CallAssumption
  <2>7. \A e, g \in Call : reaper'[e] = reaper'[g] /\ reaper'[e] # NoCall => e = g
    BY <2>1, <2>2 DEF Reports
  <2>8. ASSUME NEW e \in Call, reaper'[e] # NoCall
        PROVE  result'[reaper'[e]] <=> child'[e] = "zero"
    <3>1. CASE e = d
      BY <1>1, <2>2, <2>3, <3>1
    <3>2. CASE e # d
      <4>1. reaper'[e] = reaper[e] /\ reaper[e] # c /\ reaper[e] \in Call
        BY <2>1, <2>2, <2>5, <2>8, <3>2
      <4>2. result'[reaper[e]] = result[reaper[e]]
        BY <2>3, <4>1
      <4>. QED
        BY <1>1, <2>8, <4>1, <4>2 DEF Reports
    <3>. QED
      BY <3>1, <3>2
  <2>9. \A e \in Call : result'[e] => pc'[e] = "returned"
    BY <2>3, <2>4 DEF Reports
  <2>. QED
    BY <2>7, <2>8, <2>9 DEF Reports
<1>2. ASSUME NEW c \in Call, NEW value \in BOOLEAN, pc[c] # "returned", Return(c, value),
             UNCHANGED <<reaper, child>>
      PROVE  Reports'
  <2>1. \A e \in Call : reaper[e] # c
    BY <1>2, CallAssumption DEF Children
  <2>2. \A e \in Call : reaper[e] # NoCall => reaper[e] \in Call
    BY DEF TypeOK
  <2>3. \A e \in Call : e # c => result'[e] = result[e]
    BY <1>2 DEF Return, TypeOK
  <2>4. \A e \in Call : pc'[e] = IF e = c THEN "returned" ELSE pc[e]
    BY <1>2 DEF Return, Goto, TypeOK
  <2>. QED
    BY <1>2, <2>1, <2>2, <2>3, <2>4 DEF Reports
<1>3. ASSUME UNCHANGED <<reaper, result>>,
             \A e \in Call : pc[e] = "returned" => pc'[e] = "returned",
             \A e \in Call : reaper[e] # NoCall => child'[e] = child[e]
      PROVE  Reports'
  BY <1>3 DEF Reports
<1>4. ASSUME NEW c \in Call, Begin(c) \/ Open(c) \/ Fork(c) \/ ForkFailsExec(c) \/ Close(c)
      PROVE  Reports'
  <2>1. UNCHANGED <<reaper, result>>
    BY <1>4 DEF Begin, Open, Fork, ForkFailsExec, Close
  <2>2. \A e \in Call : pc[e] = "returned" => pc'[e] = "returned"
    BY <1>4 DEF Begin, Open, Fork, ForkFailsExec, Close, At, Goto, TypeOK
  <2>3. \A e \in Call : reaper[e] # NoCall => child'[e] = child[e]
    BY <1>4 DEF Begin, Open, Fork, ForkFailsExec, Close, At, Goto, Children, TypeOK, Exits
  <2>. QED
    BY <1>3, <2>1, <2>2, <2>3
<1>5. ASSUME NEW c \in Call, Exec(c) \/ ExecFails(c) \/ CommandEnds(c)
      PROVE  Reports'
  <2>1. UNCHANGED <<reaper, result, pc>>
    BY <1>5 DEF Exec, ExecFails, CommandEnds, Ends
  <2>2. \A e \in Call : reaper[e] # NoCall => child'[e] = child[e]
    BY <1>5 DEF Exec, ExecFails, CommandEnds, Ends, Children, TypeOK, Exits
  <2>. QED
    BY <1>3, <2>1, <2>2
<1>6. ASSUME NEW c \in Call, OpenFails(c) \/ ForkFailsRedirect(c)
      PROVE  Reports'
  BY <1>3, <1>6 DEF OpenFails, ForkFailsRedirect, Abort
<1>7. ASSUME NEW c \in Call, ForkFailsSystem(c) \/ WaitFails(c)
      PROVE  Reports'
  BY <1>2, <1>7 DEF ForkFailsSystem, WaitFails, At
<1>8. ASSUME NEW c \in Call, Wait(c) \/ WaitOwn(c)
      PROVE  Reports'
  BY <1>1, <1>2, <1>8 DEF Wait, WaitOwn, At
<1>9. CASE UNCHANGED vars
  BY <1>3, <1>9 DEF vars
<1>. QED
  BY <1>4, <1>5, <1>6, <1>7, <1>8, <1>9 DEF Next, Progress, Child

(* Concurrent calls that all got a child take each other's children one to *)
(* one: as many report a success as commands exited with 0, whichever call *)
(* reports which (systemcalls.c:79-82, 126-127).                           *)
THEOREM SuccessesCounted == Spec => []SuccessesMatch
<1>1. Init => Reports
  BY DEF Init, Reports
<1>2. IInv /\ Reports /\ ChildrenReaped => SuccessesMatch
  <2>. DEFINE R == {c \in Call : pc[c] = "returned"}
              S == {c \in Call : child[c] = "zero"}
              T == {c \in Call : result[c]}
  <2>. SUFFICES ASSUME IInv, Reports, ChildrenReaped, Idle, Lost = {},
                       \A c \in Call : pc[c] = "returned" => child[c] # "none"
                PROVE  Cardinality(T) = Cardinality(S)
    BY DEF SuccessesMatch
  <2>. USE DEF IInv
  <2>1. Unreaped = {}
    BY SetsOfCalls, Counted, FS_EmptySet DEF ChildrenReaped
  <2>2. \A c \in Call : c \in R <=> child[c] # "none"
    BY DEF Idle, Active, Children, TypeOK
  <2>3. \A c \in R : reaper[c] \in R
    BY <2>1, <2>2 DEF Unreaped, Children, TypeOK
  <2>. DEFINE f == [c \in R |-> reaper[c]]
  <2>4. f \in Injection(R, R)
    BY <2>3, CallAssumption DEF Reports, Injection, IsInjective
  <2>5. IsFiniteSet(R)
    BY CallAssumption, FS_Subset
  <2>6. f \in Surjection(R, R)
    BY <2>4, <2>5, FS_Injection
  <2>7. \A c \in R : \E d \in R : reaper[d] = c
    BY <2>6 DEF Surjection
  <2>. DEFINE g == [c \in S |-> reaper[c]]
  <2>8. g \in Bijection(S, T)
    <3>1. \A c \in S : c \in R /\ reaper[c] \in T
      BY <2>1, <2>2, <2>3, CallAssumption DEF Reports, Unreaped
    <3>2. \A c, d \in S : reaper[c] = reaper[d] => c = d
      BY <2>3, <3>1, CallAssumption DEF Reports
    <3>3. \A c \in T : \E d \in S : reaper[d] = c
      BY <2>1, <2>2, <2>7, CallAssumption DEF Reports, Unreaped
    <3>. QED
      BY <3>1, <3>2, <3>3 DEF Bijection, Injection, IsInjective, Surjection
  <2>9. IsFiniteSet(S) /\ ExistsBijection(S, T)
    BY <2>8, CallAssumption, FS_Subset DEF ExistsBijection
  <2>. QED
    BY <2>9, FS_Bijection
<1>. QED
  BY <1>1, <1>2, ReportsNext, Invariant, NoneLeftBehind, PTL DEF Spec
=============================================================================
