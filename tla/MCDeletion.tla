----------------------------- MODULE MCDeletion -----------------------------
(***************************************************************************)
(* Instances of Deletion for TLC.                                          *)
(***************************************************************************)
EXTENDS Deletion

\* Every feature on: the instance whose deletion has the most to wait for.
AllOn == {"onDelete", "s3", "cleanup"}

\* Semaphore alone: no backup finalizer is ever asked for.
CleanupOnly == {"cleanup"}

MCInit ==
    /\ Init
    /\ api.flags \in {AllOn, CleanupOnly}
    /\ api.fins = {}

MCSpec == MCInit /\ [][Next]_vars

MCFairSpec == MCSpec /\ Fairness

=============================================================================
