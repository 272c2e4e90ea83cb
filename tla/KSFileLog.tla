----------------------------- MODULE KSFileLog -----------------------------
(***************************************************************************)
(* What a buffered writer promises to whoever reads the file later: the    *)
(* bytes on disk are always the first of the bytes handed to it, in order, *)
(* and a close leaves all of them there.  Once a write has failed nothing  *)
(* is promised any more.                                                   *)
(***************************************************************************)
EXTENDS Naturals, Sequences, SequencesExt

VARIABLES accepted,   \* the bytes handed to the writer
          disk,       \* the bytes in the file
          open,       \* the writer may still be written to
          broken      \* a write has failed

logVars == <<accepted, disk, open, broken>>

LogInit == accepted = <<>> /\ disk = <<>> /\ open = TRUE /\ broken = FALSE

Accept ==
  /\ open
  /\ accepted' # accepted /\ IsPrefix(accepted, accepted')
  /\ UNCHANGED <<disk, open>>

Store ==
  /\ open
  /\ disk' # disk /\ IsPrefix(disk, disk') /\ IsPrefix(disk', accepted)
  /\ UNCHANGED <<accepted, open>>

CloseLog == open /\ disk = accepted /\ ~open' /\ UNCHANGED <<accepted, disk>>

\* The process dies: what was not stored is gone.
Die == open /\ ~open' /\ accepted' = disk /\ UNCHANGED disk

LogNext == broken' \/ (~broken' /\ (Accept \/ Store \/ CloseLog \/ Die))

LogSpec == LogInit /\ [][LogNext]_logVars
=============================================================================
