----------------------------- MODULE EntryOrder -----------------------------
(***************************************************************************)
(* What a directory's entry list promises its users: an ordered sequence  *)
(* of distinct files, extended at either end, shortened anywhere, and     *)
(* reordered one place at a time (the "sibling reordering (move up/down    *)
(* within parent)" of the specification).  DirList implements it.         *)
(***************************************************************************)
EXTENDS Sequences, SequencesExt

CONSTANT Items

VARIABLE order

Init == order = <<>>

AddHead(i) == /\ i \notin ToSet(order)
              /\ order' = <<i>> \o order

AddTail(i) == /\ i \notin ToSet(order)
              /\ order' = Append(order, i)

Del(i) == /\ i \in ToSet(order)
          /\ order' = SelectSeq(order, LAMBDA x : x # i)

\* exchange the entries at positions k and k + 1
SwapAt(k) == [order EXCEPT ![k] = order[k + 1], ![k + 1] = order[k]]

Up(i) == \E k \in 2..Len(order) : order[k] = i /\ order' = SwapAt(k - 1)

Down(i) == \E k \in 1..Len(order) - 1 : order[k] = i /\ order' = SwapAt(k)

Next == \E i \in Items : AddHead(i) \/ AddTail(i) \/ Del(i) \/ Up(i) \/ Down(i)

Spec == Init /\ [][Next]_order

=============================================================================
