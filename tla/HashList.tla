------------------------------ MODULE HashList ------------------------------
(***************************************************************************)
(* What the program promises for the list of one (mint, writer) pair: once *)
(* it is open it exists for ever, and the only thing that ever happens to  *)
(* it is that one entry is added behind all the earlier ones.  No step     *)
(* rewrites, drops or reorders an entry, and one step touches one list.    *)
(* SolstoryProgram is shown to implement this specification, and so is     *)
(* WriterClient, which looks at the same heads from outside.               *)
(***************************************************************************)
EXTENDS Sequences

CONSTANTS
  Lists,    \* the (mint, writer) pairs
  Entry,    \* what one item commits to: a timestamp and the hash of its data
  NoList    \* the value of a list whose head account does not exist

VARIABLE list

TypeOK == list \in [Lists -> Seq(Entry) \cup {NoList}]

\* Heads may have been created before.
Init == list \in [Lists -> {NoList, <<>>}]

\* A head account is created, with no item yet.
Open(l) ==
  /\ list[l] = NoList
  /\ list' = [list EXCEPT ![l] = <<>>]

\* A head account is created and its first item added in one transaction.
OpenWith(l, e) ==
  /\ list[l] = NoList
  /\ list' = [list EXCEPT ![l] = <<e>>]

Extend(l, e) ==
  /\ list[l] # NoList
  /\ list' = [list EXCEPT ![l] = Append(@, e)]

Next ==
  \E l \in Lists :
    \/ Open(l)
    \/ \E e \in Entry : OpenWith(l, e) \/ Extend(l, e)

Spec == Init /\ [][Next]_list
=============================================================================
