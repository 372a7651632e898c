---------------------------- MODULE MCSelfConfig ----------------------------
(***************************************************************************)
(* Instances of SelfConfig for TLC.                                        *)
(***************************************************************************)
EXTENDS SelfConfig

\* Self-configuration is on.  Either all actions are allowed and the file is
\* one the instance's own spec has, or files are not allowed.
MCInit ==
    /\ Init
    /\ parent.enabled
    /\ parent.honcho
    /\ ~parent.protects
    /\ parent.allowed = IF parent.files THEN Actions
                        ELSE Actions \ {"workspaceFiles"}

MCSpec == MCInit /\ [][Next]_vars

MCFairSpec == MCSpec /\ Fairness

=============================================================================
