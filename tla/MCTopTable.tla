----------------------------- MODULE MCTopTable ------------------------------
(* A small instance of TopTable and TopView.  Of the keys two share their  *)
(* hash and two, longer than a row's name, share the name that is stored.  *)
(* The table is new, or full with rows of different weight, and all of it  *)
(* is for both workers or only its first row for one of them.              *)
EXTENDS TopView

MCKeys == {"a", "long1", "long2"}
MCHash == [k \in MCKeys |-> IF k = "long2" THEN 2 ELSE 1]
MCName == [k \in MCKeys |-> IF k = "a" THEN k ELSE "long"]

MCRooms ==
    {[w \in Workers |-> Capacity]}
    \cup {[w \in Workers |-> IF w = CHOOSE v \in Workers : TRUE THEN 1 ELSE Capacity]}

MCStarts == {<<>>, <<[key |-> "a", hits |-> 2], [key |-> "long2", hits |-> 1]>>}
=============================================================================
