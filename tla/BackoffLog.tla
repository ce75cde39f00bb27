------------------------------ MODULE BackoffLog -----------------------------
(***************************************************************************)
(* Republisher with a history of what its log promises: when all reads of  *)
(* a device failed, update_device_backoffs logs "next attempt in N s", and *)
(* promise[d] is the instant that line names.  The backoff itself counts   *)
(* from `now`, the start of the iteration, before the poll was awaited.    *)
(***************************************************************************)
EXTENDS Republisher

VARIABLE promise   \* [Devices -> Nat]: the earliest next attempt announced

\* The warning of backoff.rs is logged for d in this step.
AllReadsFailed(d) ==
    /\ pc = "polling"
    /\ backoff'[d] # NoBackoff
    /\ backoff'[d] # backoff[d]

\* The promise is void once the device answered and its backoff is gone.
RecordPromise ==
    promise' = [d \in Devices |->
        IF AllReadsFailed(d) THEN clock' + backoff'[d].delay
        ELSE IF backoff'[d] = NoBackoff THEN 0 ELSE promise[d]]

LogInit == Init /\ promise = [d \in Devices |-> 0]

LogNext == Next /\ RecordPromise

LogSpec == LogInit /\ [][LogNext]_<<vars, promise>>

\* "device {device}: all reads failed; next attempt in {}s": no read of the
\* device is attempted before the delay the warning names has passed.
NextAttemptAsLogged ==
    pc = "polling" => \A d \in DevicesOf(due) : clock >= promise[d]
=============================================================================
