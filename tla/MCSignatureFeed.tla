-------------------------- MODULE MCSignatureFeed --------------------------
(* Instances of SignatureFeed for TLC: the configurations give the         *)
(* constants model values; no symmetry, since both runs check liveness.    *)
EXTENDS SignatureFeed
=============================================================================
