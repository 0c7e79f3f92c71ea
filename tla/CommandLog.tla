----------------------------- MODULE CommandLog -----------------------------
(***************************************************************************)
(* What the circular buffer promises its user: it remembers the MaxOps     *)
(* most recent commands, oldest first.  Storing one more command than fit  *)
(* drops exactly the oldest (the comment at aesd-circular-buffer.c:59-62). *)
(***************************************************************************)
EXTENDS Naturals, Sequences

CONSTANTS MaxOps,    \* how many commands are remembered
          Command    \* the commands that can be stored

VARIABLE window      \* the remembered commands, a sequence

Keep(s) == IF Len(s) <= MaxOps THEN s ELSE Tail(s)

Init == window = << >>

Store(c) == window' = Keep(Append(window, c))

Next == \E c \in Command : Store(c)

Spec == Init /\ [][Next]_window
=============================================================================
