------------------------------ MODULE NodeList ------------------------------
(***************************************************************************)
(* What the server needs of its list of connections: a new node goes to    *)
(* the head, any node can be taken out, no node is on the list twice.      *)
(***************************************************************************)
EXTENDS Integers, Sequences

CONSTANT Node   \* the addresses malloc returns for a slist_data_t

VARIABLE list   \* the nodes on the list, from its head on

Listed == {list[i] : i \in 1 .. Len(list)}

(* The sequence s without its element i. *)
Without(s, i) == [k \in 1 .. Len(s) - 1 |-> IF k < i THEN s[k] ELSE s[k + 1]]

Prepend(n) == n \notin Listed /\ list' = <<n>> \o list

Take(i) == list' = Without(list, i)

ListInit == list = << >>

ListNext ==
  \/ \E n \in Node : Prepend(n)
  \/ \E i \in 1 .. Len(list) : Take(i)

ListSpec == ListInit /\ [][ListNext]_list
=============================================================================
