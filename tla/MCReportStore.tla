--------------------------- MODULE MCReportStore ---------------------------
(* A small instance of KSCrashReportStore for TLC. *)
EXTENDS KSCrashReportStore, TLC

Threads == Permutations(Senders)
=============================================================================
