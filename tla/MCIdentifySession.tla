-------------------------- MODULE MCIdentifySession --------------------------
(* Instances of AMBIdentifySession for TLC, and what the comments say of it. *)
EXTENDS AMBIdentifySession

CONSTANTS i1, i2, raf, u1, u2

IdentifyAndEnroll == {i1, raf}
Users == {u1, u2}
Same == [c \in Call \ Enroll |-> u1]
==============================================================================
