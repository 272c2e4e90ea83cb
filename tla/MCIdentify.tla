----------------------------- MODULE MCIdentify -----------------------------
(* Instances of AMBIdentify for TLC, and what its comments say of it. *)
EXTENDS AMBIdentify

CONSTANTS i1, i2, i3

OneCall == {i1}
ThreeCalls == {i1, i2, i3}
LastSilent == {i3}

=============================================================================
