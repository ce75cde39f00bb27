---------------------------- MODULE AppRunControl ----------------------------
(***************************************************************************)
(* How the GUI starts and stops republisher workers                        *)
(* (src/crates/republish-core/src/app.rs): start_republisher,              *)
(* stop_republisher, drain_worker_events and the Start/Stop button of      *)
(* republish_page.                                                         *)
(*                                                                         *)
(* The GUI is one thread that handles one message at a time.  It learns    *)
(* what a worker does only from the unbounded channel that all workers     *)
(* send to, and drains it on a Tick.  A worker is an instance of the       *)
(* abstract specification Lifecycle, which Republisher implements; while   *)
(* it runs it also reports the deliveries its publisher saw confirmed.     *)
(* Workers are numbered in the order they are spawned.                     *)
(***************************************************************************)
EXTENDS Integers, Sequences, FiniteSetsExt

CONSTANTS
    MaxStarts,     \* bound: workers spawned
    MaxAcks,       \* bound: confirmed deliveries of one publisher
    Autostart,     \* config.mqtt.autostart
    PatientUser    \* does the user wait for a start to show before another?

ASSUME RunControlAssumption ==
    /\ MaxStarts \in Nat
    /\ MaxAcks \in Nat
    /\ Autostart \in BOOLEAN
    /\ PatientUser \in BOOLEAN

VARIABLES
    phase,         \* [Workers -> last lifecycle event the worker sent]
    stop,          \* [Workers -> its stop flag]
    acked,         \* [Workers -> deliveries confirmed to its publisher]
    polled,        \* deliveries confirmed to a poll-once publisher, at most
    channel,       \* worker events sent and not drained
    flag,          \* stop_flag: the worker whose flag the GUI holds, 0 for None
    view,          \* lifecycle, as the GUI knows it
    ackedTotal,    \* acked_total
    status         \* the status line, as far as a start or a stop wrote it

Workers == 1..MaxStarts

vars == <<phase, stop, acked, polled, channel, flag, view, ackedTotal, status>>

\* Workers are spawned in order, and the flag held is that of the last one.
Spawned == {w \in Workers : w <= flag}

LC(w) == INSTANCE Lifecycle WITH lifecycle <- phase[w], stop <- stop[w]

Ended(w) == phase[w] \in {"Stopped", "Failed"}
Live == {w \in Spawned : ~Ended(w)}

LifecycleEvent(w, to) == [kind |-> "Lifecycle", by |-> w, value |-> to]
PublishStatus(w, n) == [kind |-> "PublishStatus", by |-> w, value |-> n]

\* Positions of the lifecycle events in the channel, and the totals in it.
Heard == {i \in DOMAIN channel : channel[i].kind = "Lifecycle"}
Totals == {channel[i].value : i \in {j \in DOMAIN channel : channel[j].kind = "PublishStatus"}}

\* The state of the GUI before it has started anything.
Init ==
    /\ phase = [w \in Workers |-> "None"]
    /\ stop = [w \in Workers |-> FALSE]
    /\ acked = [w \in Workers |-> 0]
    /\ polled = 0
    /\ channel = <<>>
    /\ flag = IF Autostart /\ MaxStarts > 0 THEN 1 ELSE 0
    /\ view = "Stopped"
    /\ ackedTotal = 0
    /\ status = IF flag = 1 THEN "starting" ELSE "loaded"

-----------------------------------------------------------------------------
(* Workers *)

\* A worker sends the next lifecycle event its specification allows.
Announce(w) ==
    /\ w \in Spawned
    /\ \E to \in LC(w)!Events :
         /\ phase' = [phase EXCEPT ![w] = to]
         /\ channel' = Append(channel, LifecycleEvent(w, to))
    /\ stop' = stop
    /\ LC(w)!Begin \/ LC(w)!EnterLoop \/ LC(w)!LeaveLoop \/ LC(w)!Finish \/ LC(w)!Fail
    /\ UNCHANGED <<acked, polled, flag, view, ackedTotal, status>>

\* The broker confirms a delivery to the publisher of a running worker.
Confirm(w) ==
    /\ w \in Spawned /\ phase[w] \in {"Running", "Stopping"}
    /\ acked[w] < MaxAcks
    /\ acked' = [acked EXCEPT ![w] = @ + 1]
    /\ UNCHANGED <<phase, stop, polled, channel, flag, view, ackedTotal, status>>

\* After a publish the running total is sent with the stats; once per value is
\* enough, the GUI only keeps the largest.
Report(w) ==
    /\ w \in Spawned /\ phase[w] = "Running"
    /\ PublishStatus(w, acked[w]) \notin {channel[i] : i \in DOMAIN channel}
    /\ acked[w] > 0
    /\ channel' = Append(channel, PublishStatus(w, acked[w]))
    /\ UNCHANGED <<phase, stop, acked, polled, flag, view, ackedTotal, status>>

\* PollOnce: a job with a publisher of its own, counted from zero.
ReportPollOnce ==
    /\ polled = 0
    /\ \E n \in 1..MaxAcks :
         /\ polled' = n
         /\ channel' = Append(channel, PublishStatus(0, n))
    /\ UNCHANGED <<phase, stop, acked, flag, view, ackedTotal, status>>

-----------------------------------------------------------------------------
(* The GUI *)

\* republish_page: the one button is Start in these states and Stop in others.
StartShown == view \in {"Stopped", "Failed"}

\* The worker started last has not shown in the GUI yet.
StartPending ==
    /\ flag # 0
    /\ \/ phase[flag] = "None"
       \/ \E i \in Heard : channel[i].by = flag

\* Mutant of StartRepublisher: acked_total is not reset.
StartKeepsTotal ==
    /\ StartShown
    /\ PatientUser => ~StartPending
    /\ flag < MaxStarts
    /\ flag' = flag + 1
    /\ status' = "starting"
    /\ UNCHANGED <<phase, stop, acked, polled, channel, view, ackedTotal>>

\* Mutant of StartRepublisher: the button is not looked at.
StartAnytime ==
    /\ flag < MaxStarts
    /\ flag' = flag + 1
    /\ ackedTotal' = 0
    /\ status' = "starting"
    /\ UNCHANGED <<phase, stop, acked, polled, channel, view>>

\* start_republisher with a valid configuration (with an invalid one it only
\* writes the status line).  The flag of an earlier worker is dropped.
StartRepublisher ==
    /\ StartShown
    /\ PatientUser => ~StartPending
    /\ flag < MaxStarts
    /\ flag' = flag + 1
    /\ ackedTotal' = 0
    /\ status' = "starting"
    /\ UNCHANGED <<phase, stop, acked, polled, channel, view>>

\* Mutant of StopRepublisher: the flag is lowered, not raised.
StopClears ==
    /\ ~StartShown /\ flag # 0
    /\ stop' = [stop EXCEPT ![flag] = FALSE]
    /\ status' = "stopping"
    /\ UNCHANGED <<phase, acked, polled, channel, flag, view, ackedTotal>>

StopRepublisher ==
    /\ ~StartShown /\ flag # 0
    /\ stop' = [stop EXCEPT ![flag] = TRUE]
    /\ status' = "stopping"
    /\ UNCHANGED <<phase, acked, polled, channel, flag, view, ackedTotal>>

\* Mutant of Tick: the lifecycle shown is the first one in the channel.
TickShowsFirst ==
    /\ channel # <<>>
    /\ channel' = <<>>
    /\ view' = IF Heard = {} THEN view ELSE channel[Min(Heard)].value
    /\ ackedTotal' = Max({ackedTotal} \cup Totals)
    /\ UNCHANGED <<phase, stop, acked, polled, flag, status>>

\* Tick: drain_worker_events takes everything.  The lifecycle shown is the
\* last one received, from whichever worker; acked_total is the largest.
Tick ==
    /\ channel # <<>>
    /\ channel' = <<>>
    /\ view' = IF Heard = {} THEN view ELSE channel[Max(Heard)].value
    /\ ackedTotal' = Max({ackedTotal} \cup Totals)
    /\ UNCHANGED <<phase, stop, acked, polled, flag, status>>

-----------------------------------------------------------------------------
Next ==
    \/ \E w \in Workers : Announce(w) \/ Confirm(w) \/ Report(w)
    \/ ReportPollOnce
    \/ StartRepublisher \/ StopRepublisher \/ Tick

\* The GUI's timer keeps ticking, and a worker that may leave its loop does.  The
\* second is an assumption about the adapter of the worker: Republisher's
\* StopIsHonoured gives it as long as no call to the adapter hangs, which the
\* timeouts of BACnet and Modbus see to and nothing in the OPC UA adapter does.
\* What the properties below establish is that the flag, the channel and the view
\* do their part: that a stop reaches the right worker and its end is shown.
Fairness ==
    /\ WF_vars(Tick)
    /\ \A w \in Workers : WF_vars(Announce(w) /\ stop[w] /\ phase[w] \in {"Running", "Stopping"})

Spec == Init /\ [][Next]_vars /\ Fairness

-----------------------------------------------------------------------------
(* Properties *)

TypeOK ==
    /\ phase \in [Workers -> {"None", "Starting", "Running", "Stopping", "Stopped", "Failed"}]
    /\ stop \in [Workers -> BOOLEAN]
    /\ acked \in [Workers -> 0..MaxAcks]
    /\ polled \in 0..MaxAcks
    /\ flag \in 0..MaxStarts
    /\ view \in {"Starting", "Running", "Stopping", "Stopped", "Failed"}
    /\ ackedTotal \in 0..MaxAcks
    /\ status \in {"loaded", "starting", "stopping"}

\* No worker runs whose stop flag the GUI has lost: of all workers that have
\* not ended, every one is the last one started.
NoOrphanWorker == \A w \in Live : w = flag

\* Once the channel is drained the GUI shows the state the last worker
\* announced, so the button it offers is the one that worker needs.
ViewExact ==
    (channel = <<>> /\ flag # 0 /\ phase[flag] # "None") => view = phase[flag]

\* acked_total starts again with a run: whatever order the events of two runs
\* are sent and drained in, it never counts the confirmations of an earlier
\* run, only those of this one or of a poll-once job.
AckedOfThisRun ==
    flag # 0 => (ackedTotal <= acked[flag] \/ ackedTotal <= polled)

\* A press of Stop while a worker is in its loop is followed by a GUI that
\* offers Start again.
StopReachesView ==
    (status = "stopping" /\ flag # 0 /\ phase[flag] = "Running") ~> StartShown

\* "Stopping republisher..." and "runs the continuous poll -> publish loop until
\* `stop` is set": with every worker in its loop, the announced stop ends all
\* publishing, unless the user starts again.
StoppingStops ==
    (status = "stopping" /\ \A w \in Live : phase[w] = "Running")
        ~> (status # "stopping" \/ Live = {})
=============================================================================
