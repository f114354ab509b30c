----------------------------- MODULE MCImrPersist -----------------------------
(***************************************************************************)
(* Instances of ImrPersist for TLC: two or three zones whose status spans  *)
(* two pages; zone 1 lies across the boundary of the pages, as neighbours  *)
(* do in zone_state.                                                       *)
(***************************************************************************)
EXTENDS ImrPersist

MCMapPages == [z \in Zones |-> IF z = 0 THEN {1} ELSE IF z = 1 THEN {1, 2} ELSE {2}]
===============================================================================
