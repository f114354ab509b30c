------------------------------- MODULE ImrIndex -------------------------------
(***************************************************************************)
(* What the block index of an IMRSim target promises to the host: a        *)
(* dictionary from logical blocks to payloads on which requests run one at *)
(* a time.  A request carries the value the block is to have (NoPayload    *)
(* for a delete); the value changes once the index applies the request,    *)
(* and the request is acknowledged only after that.  A request may instead *)
(* fail before it is applied; then at worst the block it was to change is  *)
(* torn: it has been given a place, but what a read finds there is         *)
(* undefined until it is written again or its zone is compacted.  Nothing  *)
(* else ever changes the dictionary: compaction, the read tree and table   *)
(* rewrites are invisible here.                                            *)
(***************************************************************************)
CONSTANTS
  Keys,          \* logical blocks
  Payload,       \* contents a block can be given
  NoPayload,     \* the block is not mapped (never written, or deleted)
  Torn,          \* the block's last request failed half-way
  NoRequest      \* no host request is in progress

VARIABLES
  content,       \* [Keys -> Value \cup {Torn}], what a read returns
  request        \* the host request in progress, or NoRequest

vars == <<content, request>>

Value == Payload \cup {NoPayload}

Init ==
  /\ content \in [Keys -> Value]
  /\ request = NoRequest

Submit(k, v) ==
  /\ request = NoRequest
  /\ request' = [key |-> k, val |-> v]
  /\ UNCHANGED content

Apply ==
  /\ request # NoRequest
  /\ content' = [content EXCEPT ![request.key] = request.val]
  /\ UNCHANGED request

Acknowledge ==
  /\ request # NoRequest
  /\ content[request.key] = request.val
  /\ request' = NoRequest
  /\ UNCHANGED content

Reject ==
  /\ request # NoRequest
  /\ content' \in {content, [content EXCEPT ![request.key] = Torn]}
  /\ request' = NoRequest

\* Torn blocks, and no others, are given some value.
Settle ==
  /\ content' \in [Keys -> Value \cup {Torn}]
  /\ \A k \in Keys : content[k] # Torn => content'[k] = content[k]
  /\ UNCHANGED request

Next ==
  \/ \E k \in Keys, v \in Value : Submit(k, v)
  \/ Apply \/ Acknowledge
  \/ Reject \/ Settle

Spec == Init /\ [][Next]_vars
===============================================================================
