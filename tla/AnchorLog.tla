------------------------------ MODULE AnchorLog ------------------------------
(***************************************************************************)
(* What the on-chain registry promises, whoever writes to it and however   *)
(* its transactions are batched, repeated, delayed or lost: a permanent    *)
(* log that gives each CID at most one record, the first one written.      *)
(***************************************************************************)
CONSTANTS
  Cids,      \* the CIDs a batch may name
  Records,   \* the records that may be written
  NoRecord   \* a CID that is not anchored, none of the records

VARIABLE entries

Init == entries = [c \in Cids |-> NoRecord]

(* Some CIDs that have no record get one. *)
Anchor(new) ==
  /\ new # {}
  /\ \A c \in new : entries[c] = NoRecord
  /\ entries' \in [Cids -> Records \cup {NoRecord}]
  /\ \A c \in new : entries'[c] # NoRecord
  /\ \A c \in Cids \ new : entries'[c] = entries[c]

Next == \E new \in SUBSET Cids : Anchor(new)

Spec == Init /\ [][Next]_entries
=============================================================================
