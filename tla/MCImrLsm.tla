------------------------------- MODULE MCImrLsm -------------------------------
(***************************************************************************)
(* Instances of ImrLsm for TLC: two keys of one zone under every operation, *)
(* or as many keys as writes when the levels are to fill.                  *)
(***************************************************************************)
EXTENDS ImrLsm, TLC

CONSTANTS k1, k2, p1, p2

MCKeys == {k1, k2}
MCPayload == {p1, p2}
MCOnePayload == {p1}
MCOneZone == {MCKeys}
MCNoZones == {}
MCSymmetry == Permutations(MCKeys) \cup Permutations(MCPayload)
MCKeySymmetry == Permutations(MCKeys)

\* The workload of the dynamic-level tests (keys 1, 2, 3, ... written in turn)
\* with deletes of key 1 among the writes, while allocations fail and the
\* threshold is changed, as the debugfs file allows, between any two steps: the
\* levels fill, their targets move under them, and the copies of key 1 meet on
\* their way down.
MCSequentialKeys == 1..MaxTimestamp
MCLevelsInit == zoneMap = [k \in Keys |-> NoPayload] /\ Init
MCLevelsNext ==
  \/ \E k \in Keys, p \in Payload : k = timestamp + 1 /\ StartWrite(k, p)
  \/ StartDelete(1)
  \/ BeginAppend \/ AppendUnsorted
  \/ CompactFullLevel \/ RunFlush \/ RunRound \/ RunDone
  \/ BeginAppendFails \/ CompactFullLevelFails \/ RunFlushFails \/ RunRoundFails
  \/ UnmapDeleted
  \/ \E t \in Thresholds : SetThreshold(t)
MCLevelsSpec == MCLevelsInit /\ [][MCLevelsNext]_vars
===============================================================================
