------------------------------ MODULE MCImrZone -------------------------------
(***************************************************************************)
(* Instances of ImrZone for TLC: track groups of one or two blocks a       *)
(* track, two of them in a zone.                                           *)
(***************************************************************************)
EXTENDS ImrZone

MCFirstZone == {k \in Keys : ZoneOf(k) = 0}
MCFirstZoneAndOne == MCFirstZone \cup {TOTAL}
===============================================================================
