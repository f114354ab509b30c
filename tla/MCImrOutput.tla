----------------------------- MODULE MCImrOutput ------------------------------
(***************************************************************************)
(* Instances of ImrOutput for TLC: a few keys, short tracks, filters of a  *)
(* few bits.                                                               *)
(***************************************************************************)
EXTENDS ImrOutput

MCBloomHash(k, seed) == 3 * k + 5 * seed + 1
MCBitsPerKey(id) == IF id % 2 = 0 THEN 4 ELSE 1
===============================================================================
