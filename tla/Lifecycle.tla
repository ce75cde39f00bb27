------------------------------ MODULE Lifecycle ------------------------------
(***************************************************************************)
(* What a republisher worker promises to whoever listens to its            *)
(* WorkerEvent::Lifecycle events: the abstract specification that the      *)
(* module Republisher implements.                                          *)
(*                                                                         *)
(* A worker announces Starting, then Running, then - only once it was      *)
(* asked to stop - Stopping and Stopped.  It may announce Failed instead   *)
(* of any of the first three.  Stopped and Failed are final: exactly one   *)
(* of them ends the stream, and nothing follows it.                        *)
(***************************************************************************)

VARIABLES
    lifecycle,   \* the last lifecycle event sent, "None" before the first
    stop         \* the AtomicBool shared with the owner of the worker

vars == <<lifecycle, stop>>

Events   == {"None", "Starting", "Running", "Stopping", "Stopped", "Failed"}
Terminal == {"Stopped", "Failed"}

Init ==
    /\ lifecycle = "None"
    /\ stop = FALSE

Follow(from, to) ==
    /\ lifecycle = from
    /\ lifecycle' = to
    /\ UNCHANGED stop

Begin == Follow("None", "Starting")

EnterLoop == Follow("Starting", "Running")

LeaveLoop == stop /\ Follow("Running", "Stopping")

Finish == Follow("Stopping", "Stopped")

Fail == \E from \in {"None", "Starting", "Running"} : Follow(from, "Failed")

RequestStop ==
    /\ stop' = TRUE
    /\ UNCHANGED lifecycle

Next == Begin \/ EnterLoop \/ LeaveLoop \/ Finish \/ Fail \/ RequestStop

Spec == Init /\ [][Next]_vars
=============================================================================
