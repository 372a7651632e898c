------------------------------ MODULE OneShot ------------------------------
(***************************************************************************)
(* What a one-shot initialisation promises, abstractly: while it has not   *)
(* been recorded the user may ask for another one or for none; it is       *)
(* recorded once, after something has been carried out and as what is      *)
(* asked for at that moment, be it what was carried out or not; from then  *)
(* on neither the request nor the record change.                           *)
(*                                                                         *)
(* RestoreMigration implements it for the restore of a snapshot and for    *)
(* the migration from OpenClaw.                                            *)
(***************************************************************************)
CONSTANT None   \* no request, no record

VARIABLES
    wanted,  \* the request, in the spec
    done,    \* something has been carried out on the volume
    latch    \* the record, in the status

vars == <<wanted, done, latch>>

Init ==
    /\ latch = None
    /\ done = FALSE

Ask ==
    /\ latch = None
    /\ UNCHANGED <<done, latch>>

CarryOut ==
    /\ done' = TRUE
    /\ UNCHANGED <<wanted, latch>>

Record ==
    /\ latch = None
    /\ done
    /\ wanted # None
    /\ latch' = wanted
    /\ UNCHANGED <<wanted, done>>

Next == Ask \/ CarryOut \/ Record

Spec == Init /\ [][Next]_vars

=============================================================================
