--------------------------- MODULE MCBatchAnchor ---------------------------
(* Envelopes for model-checking BatchAnchor: for each valid CID one envelope *)
(* or two that disagree, and, in the runs that ask for them, entries no      *)
(* registry accepts.                                                         *)
EXTENDS BatchAnchor

CONSTANTS h1, h2

(* One envelope for each CID. *)
OneEach == {[cid |-> c, hash |-> h1, ts |-> 1] : c \in Cids}

(* Two publishers announce the same CID with different metadata. *)
TwoEach == {[cid |-> c, hash |-> h1, ts |-> 1] : c \in Cids}
             \cup {[cid |-> c, hash |-> h2, ts |-> Modulus + 2] : c \in Cids}

(* A zero hash, a timestamp that is zero as a u32, a CID with a comma. *)
Unacceptable ==
  LET c == CHOOSE c \in Cids : TRUE
  IN  {[cid |-> c, hash |-> ZeroHash, ts |-> 1], [cid |-> c, hash |-> h1, ts |-> Modulus]}
        \cup {[cid |-> d, hash |-> h1, ts |-> 1] : d \in Commas}

Mixed == TwoEach \cup Unacceptable
=============================================================================
