------------------------- MODULE MCServiceSelector -------------------------
(* Instances of AMBServiceSelector for TLC. *)
EXTENDS AMBServiceSelector

CONSTANTS camp1, camp2

TwoCampaigns == {camp1, camp2}

\* camp2 and any state of camp1: every answer to a screen for camp1.
Lists ==
    {[c \in TwoCampaigns |-> IF c = camp1 THEN st ELSE "active"] :
        st \in {"absent", "inactive", "active"}}
=============================================================================
