---------------------------- MODULE MCAutoUpdate ----------------------------
(***************************************************************************)
(* Instances of AutoUpdate for TLC.                                        *)
(***************************************************************************)
EXTENDS AutoUpdate

\* Auto-update and its rollback are on.
Enabled == Init /\ api.enabled /\ api.rollback

\* A newer tag is in the registry, and either the instance is backed up first
\* or a call fails; or there is none, until the registry or the user changes
\* something.
MCInit ==
    /\ Enabled
    /\ \/ newest = MaxTag /\ edits = MaxEdits /\ api.backup = (faults = MaxFaults)
       \/ newest # MaxTag /\ edits = 0 /\ faults = MaxFaults /\ ~api.backup

MCSpec == MCInit /\ [][Next]_vars /\ Fairness

\* A newer tag is in the registry, and nothing fails.
ConfirmedSpec == Enabled /\ newest = MaxTag /\ [][Next]_vars

=============================================================================
