----------------------------- MODULE CharDevice -----------------------------
(***************************************************************************)
(* What /dev/aesdchar promises its users, without lock, allocation or      *)
(* ring: every write and every read takes effect in one step.  The device  *)
(* holds the MaxOps newest commands and the bytes of the one still being   *)
(* written; a read returns bytes of a single command, in order.            *)
(***************************************************************************)
EXTENDS Naturals, SequencesExt

CONSTANTS
  MaxOps,   \* how many commands are kept
  NewLine,  \* the byte that completes a command
  Data,     \* the byte strings one write can bring
  File,     \* the open files the device is used through
  NoRead    \* a file nothing was read through since it was opened or seeked

VARIABLES
  window,   \* the commands held, oldest first
  partial,  \* the bytes written after the last complete command
  last      \* last[f]: where the last read through f started and its bytes

vars == <<window, partial, last>>

Newest(commands) == IF Len(commands) <= MaxOps THEN commands ELSE Tail(commands)

Init == /\ window = << >>
        /\ partial = << >>
        /\ last = [f \in File |-> NoRead]

Write(data) ==
  LET command == partial \o data
  IN  /\ IF Contains(command, NewLine)
         THEN /\ window' = Newest(Append(window, command))
              /\ partial' = << >>
         ELSE /\ partial' = command
              /\ UNCHANGED window
      /\ UNCHANGED last

(* The offsets at which a command of the window ends. *)
Ends == {Len(FlattenSeq(SubSeq(window, 1, k))) : k \in 1 .. Len(window)}

Read(f) ==
  LET content == FlattenSeq(window)
  IN  /\ \E from \in 0 .. Len(content) - 1 :
           \E to \in from .. Min({end \in Ends : end > from}) :
             last' = [last EXCEPT ![f] = [from  |-> from,
                                          bytes |-> SubSeq(content, from + 1, to)]]
      /\ UNCHANGED <<window, partial>>

Seek(f) == /\ last' = [last EXCEPT ![f] = NoRead]
           /\ UNCHANGED <<window, partial>>

Reset == /\ window' = << >>
         /\ partial' = << >>
         /\ UNCHANGED last

Next == \/ \E data \in Data : Write(data)
        \/ \E f \in File : Read(f) \/ Seek(f)
        \/ Reset

Spec == Init /\ [][Next]_vars
=============================================================================
