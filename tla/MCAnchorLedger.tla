--------------------------- MODULE MCAnchorLedger ---------------------------
(* Symmetry for model-checking AnchorLedger: CIDs are interchangeable. *)
EXTENDS AnchorLedger, TLC

Symmetric == Permutations(Cids)
=============================================================================
