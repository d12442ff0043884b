----------------------------- MODULE Selections -----------------------------
(***************************************************************************)
(* Lists that keep some members of another in its order.                   *)
(***************************************************************************)
EXTENDS Naturals, Sequences

Listed(list) == {list[i] : i \in DOMAIN list}

(* The ways to leave out members of a list: the positions that are kept.   *)
Choices(list) ==
  UNION {{kept \in [1..n -> DOMAIN list] : \A i, j \in 1..n : i < j => kept[i] < kept[j]}
         : n \in 0..Len(list)}
Picked(list, kept) == [i \in DOMAIN kept |-> list[kept[i]]]

(* The members at these positions, in a set of that one list.              *)
PickedAt(list, positions) ==
  {Picked(list, kept) : kept \in {kept \in Choices(list) : Listed(kept) = positions}}
=============================================================================
