-------------------------- MODULE MCWhistleblower --------------------------
(* Whistleblower with TLC's model values; liveness allows no symmetry. *)
EXTENDS Whistleblower, TLC
=============================================================================
