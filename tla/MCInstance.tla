----------------------------- MODULE MCInstance -----------------------------
(***************************************************************************)
(* Instances of Instance for TLC.                                          *)
(***************************************************************************)
EXTENDS Instance

\* Created with the defaults and a few features on.
MCInit ==
    /\ Init
    /\ api.on = {"networkPolicy", "serviceAccount", "ingress", "honcho",
                 "honchoPersistence", "configMapRef", "schedule",
                 "semaphore", "finalizer"}
    /\ crds = {"prometheus"}
    /\ (edits = MaxEdits) # (faults = MaxFaults)

MCSpec == MCInit /\ [][Next]_vars

MCFairSpec == MCSpec /\ Fairness

=============================================================================
