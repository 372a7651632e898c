----------------------------- MODULE Finalizer -----------------------------
(***************************************************************************)
(* What a finalizer promises, abstractly.  An object is live, then marked  *)
(* for deletion, then gone.  While it is live the finalizer may come and   *)
(* go; from the mark on it is only ever taken off, only once its work is   *)
(* done or no longer owed, and the object is not gone before that.         *)
(*                                                                         *)
(* Deletion implements it for each of the operator's two finalizers.       *)
(***************************************************************************)
VARIABLES
    phase,   \* "live", "deleting" or "gone"
    held,    \* the finalizer is on the object
    earned   \* its work is done, or no longer owed

vars == <<phase, held, earned>>

Init ==
    /\ phase = "live"
    /\ held = FALSE
    /\ earned \in BOOLEAN

\* Work that is done stays done.
Earn == earned' \in {earned, TRUE}

Write ==
    /\ phase = "live"
    /\ held' \in BOOLEAN
    /\ phase' = phase

\* The request for deletion: an object nothing holds may go at once.
Delete ==
    /\ phase = "live"
    /\ phase' \in (IF held THEN {"deleting"} ELSE {"deleting", "gone"})
    /\ held' = held

Release ==
    /\ phase = "deleting"
    /\ held
    /\ earned
    /\ held' = FALSE
    /\ phase' \in {"deleting", "gone"}

Go ==
    /\ phase = "deleting"
    /\ ~held
    /\ phase' = "gone"
    /\ held' = held

Next == Earn /\ (Write \/ Delete \/ Release \/ Go \/ UNCHANGED <<phase, held>>)

Spec == Init /\ [][Next]_vars

=============================================================================
