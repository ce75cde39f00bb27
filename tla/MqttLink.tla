------------------------------ MODULE MqttLink -------------------------------
(***************************************************************************)
(* RumqttPublisher (src/crates/republish-core/src/mqtt.rs) and the part of *)
(* the worker that uses it (worker/mod.rs, publish_samples and the check   *)
(* for a fatal rejection).  Two threads share a ConnectionState: the       *)
(* event-loop task applies what rumqttc's poll() returned, one atomic      *)
(* store or one locked assignment at a time; the worker reads the fields   *)
(* one at a time and enqueues without ever waiting.                        *)
(*                                                                         *)
(* The connection itself (link), the request channel and the unconfirmed   *)
(* publishes belong to rumqttc: they are modelled from how mqtt.rs uses    *)
(* them.  Delays are in seconds; sleeping takes one step.                  *)
(***************************************************************************)
EXTENDS Integers, Sequences

CONSTANTS
    Capacity,        \* OUTBOUND_CHANNEL_CAPACITY
    DelayInitial,    \* BACKOFF_INITIAL
    DelayMax,        \* BACKOFF_MAX
    Batches,         \* what a cycle may publish: sequences of group sizes
    MaxInflight,     \* bound: unconfirmed publishes (rumqttc has a window too)
    MaxErrors,       \* bound: consecutive errors after a CONNACK
    MaxDrops,        \* bound: times an accepted connection is lost
    MaxAcks          \* bound: confirmed deliveries

ASSUME LinkAssumption ==
    /\ Capacity \in Nat \ {0}
    /\ DelayInitial \in Nat \ {0}
    /\ DelayMax \in Nat
    /\ DelayInitial <= DelayMax
    /\ Batches \subseteq Seq(Nat \ {0})
    /\ MaxInflight \in Nat
    /\ MaxErrors \in Nat
    /\ MaxDrops \in Nat
    /\ MaxAcks \in Nat

VARIABLES
    link,            \* the connection: "down", or "up" once the broker accepted
    queue,           \* requests in the outbound channel
    inflight,        \* publishes sent and not confirmed
    el,              \* where the event-loop task is
    connected, fatal, lastError, reconnects, acked,  \* ConnectionState
    current,         \* ReconnectBackoff::current
    delay,           \* what the task sleeps for
    w,               \* where the worker is in its cycle
    batch,           \* the groups it has still to enqueue
    stats,           \* PublishStats of the cycle
    fatalReported,   \* fatal_reported
    reported,        \* the rejection the worker logged: "none" or an error text
    drops,           \* history: accepted connections that were lost
    errors,          \* history: errors since the last CONNACK
    refused          \* history: the last CONNACK was a refusal

net     == <<link, queue, inflight>>
state   == <<connected, fatal, lastError, reconnects, acked>>
retry   == <<current, delay>>
worker  == <<w, batch, stats, fatalReported, reported>>
history == <<drops, errors, refused>>

vars == <<net, el, state, retry, worker, history>>

Texts == {"none", "transient", "rejected"}   \* last_error
Reasons == Texts \cup {"full"}               \* ... or that of a failed enqueue

Lesser(x, y) == IF x <= y THEN x ELSE y

EmptyStats ==
    [queued |-> 0, published |-> 0, failed |-> 0, acked |-> 0,
     reconnects |-> 0, lastError |-> "none"]

Init ==
    /\ link = "down" /\ queue = 0 /\ inflight = 0
    /\ el = "polling"
    /\ connected = FALSE /\ fatal = FALSE /\ lastError = "none"
    /\ reconnects = 0 /\ acked = 0
    /\ current = DelayInitial /\ delay = 0
    /\ w = "top" /\ batch = <<>> /\ stats = EmptyStats
    /\ fatalReported = FALSE /\ reported = "none"
    /\ drops = 0 /\ errors = 0 /\ refused = FALSE

Loop(from, to) == el = from /\ el' = to

-----------------------------------------------------------------------------
(* The event-loop task: poll, apply_poll, sleep *)

\* ConnAck(Success): record_connack stores connected, ...
PollAccepted ==
    /\ link = "down"
    /\ Loop("polling", "accepted")
    /\ link' = "up"
    /\ connected' = TRUE
    /\ refused' = FALSE
    /\ UNCHANGED <<queue, inflight, fatal, lastError, reconnects, acked, retry,
                   worker, drops, errors>>

\* ... then clears fatal, ...
ClearFatal ==
    /\ Loop("accepted", "cleared")
    /\ fatal' = FALSE
    /\ UNCHANGED <<net, connected, lastError, reconnects, acked, retry, worker, history>>

\* ... then last_error; apply_poll resets the backoff and polls again.
ClearError ==
    /\ Loop("cleared", "polling")
    /\ lastError' = "none"
    /\ current' = DelayInitial
    /\ errors' = 0
    /\ UNCHANGED <<net, connected, fatal, reconnects, acked, delay, worker, drops, refused>>

\* ConnAck with another code: record_fatal stores connected, ...
PollRefused ==
    /\ link = "down"
    /\ Loop("polling", "refused")
    /\ connected' = FALSE
    /\ refused' = TRUE
    /\ UNCHANGED <<net, fatal, lastError, reconnects, acked, retry, worker, drops, errors>>

\* ... then fatal, ...
SetFatal ==
    /\ Loop("refused", "fatal")
    /\ fatal' = TRUE
    /\ UNCHANGED <<net, connected, lastError, reconnects, acked, retry, worker, history>>

\* ... then last_error; the backoff is reset here too, and there is no sleep.
NoteRejection ==
    /\ Loop("fatal", "polling")
    /\ lastError' = "rejected"
    /\ current' = DelayInitial
    /\ errors' = 0
    /\ UNCHANGED <<net, connected, fatal, reconnects, acked, delay, worker, drops, refused>>

\* PubAck: record_puback.
PollPubAck ==
    /\ link = "up" /\ inflight > 0
    /\ acked < MaxAcks
    /\ Loop("polling", "polling")
    /\ acked' = acked + 1
    /\ inflight' = inflight - 1
    /\ UNCHANGED <<link, queue, connected, fatal, lastError, reconnects, retry, worker, history>>

\* Any other event: rumqttc takes a request from the channel and sends it.
PollOutgoing ==
    /\ link = "up" /\ queue > 0 /\ inflight < MaxInflight
    /\ Loop("polling", "polling")
    /\ queue' = queue - 1
    /\ inflight' = inflight + 1
    /\ UNCHANGED <<link, state, retry, worker, history>>

\* Mutant of PollError: every error counts as a reconnect.
PollErrorAlwaysCounts ==
    /\ errors < MaxErrors
    /\ link = "up" => drops < MaxDrops
    /\ el = "polling"
    /\ el' = "counting"
    /\ connected' = FALSE
    /\ link' = "down"
    /\ drops' = IF link = "up" THEN drops + 1 ELSE drops
    /\ UNCHANGED <<queue, inflight, fatal, lastError, reconnects, acked, retry,
                   worker, errors, refused>>

\* Err: record_error swaps connected; it was a drop if it had been set.
PollError ==
    /\ errors < MaxErrors
    /\ link = "up" => drops < MaxDrops
    /\ el = "polling"
    /\ el' = IF connected THEN "counting" ELSE "noting"
    /\ connected' = FALSE
    /\ link' = "down"
    /\ drops' = IF link = "up" THEN drops + 1 ELSE drops
    /\ UNCHANGED <<queue, inflight, fatal, lastError, reconnects, acked, retry,
                   worker, errors, refused>>

CountReconnect ==
    /\ Loop("counting", "noting")
    /\ reconnects' = reconnects + 1
    /\ UNCHANGED <<net, connected, fatal, lastError, acked, retry, worker, history>>

\* Mutant of NextDelay: the delay used is the one already doubled.
NextDelayDoubled ==
    /\ delay' = Lesser(2 * current, DelayMax)
    /\ current' = Lesser(2 * current, DelayMax)

\* ReconnectBackoff::next_delay
NextDelay ==
    /\ delay' = current
    /\ current' = Lesser(2 * current, DelayMax)

\* Mutant of NoteError: an error that may heal also clears the sticky flag.
NoteErrorClearsFatal ==
    /\ Loop("noting", "sleeping")
    /\ lastError' = "transient"
    /\ fatal' = FALSE
    /\ NextDelay
    /\ errors' = errors + 1
    /\ UNCHANGED <<net, connected, reconnects, acked, worker, drops, refused>>

\* last_error is overwritten whatever it said; fatal keeps its value.
NoteError ==
    /\ Loop("noting", "sleeping")
    /\ lastError' = "transient"
    /\ NextDelay
    /\ errors' = errors + 1
    /\ UNCHANGED <<net, connected, fatal, reconnects, acked, worker, drops, refused>>

Wake ==
    /\ Loop("sleeping", "polling")
    /\ UNCHANGED <<net, state, retry, worker, history>>

-----------------------------------------------------------------------------
(* The worker *)

Cycle(from, to) == w = from /\ w' = to

\* fresh_fatal_rejection: nothing is read once it was reported.
SkipFatalCheck ==
    /\ fatalReported \/ ~fatal
    /\ Cycle("top", "publish")
    /\ UNCHANGED <<net, el, state, retry, batch, stats, fatalReported, reported, history>>

ReadFatal ==
    /\ ~fatalReported /\ fatal
    /\ Cycle("top", "fatal")
    /\ UNCHANGED <<net, el, state, retry, batch, stats, fatalReported, reported, history>>

\* connection_fatal_error returns last_error as it is by now; None is no report.
ReadRejection ==
    /\ Cycle("fatal", "publish")
    /\ fatalReported' = (lastError # "none")
    /\ reported' = lastError
    /\ UNCHANGED <<net, el, state, retry, batch, stats, history>>

Total(b) == LET sum[i \in 0..Len(b)] == IF i = 0 THEN 0 ELSE sum[i - 1] + b[i]
            IN  sum[Len(b)]

\* publish_samples, or publish_envelope with its groups of samples per device.
StartBatch ==
    /\ Cycle("publish", "enqueueing")
    /\ \E b \in Batches :
         /\ batch' = b
         /\ stats' = [EmptyStats EXCEPT !.queued = Total(b)]
    /\ UNCHANGED <<net, el, state, retry, fatalReported, reported, history>>

\* A cycle without samples: nothing is published and the stats are not sent.
NothingSampled ==
    /\ Cycle("publish", "top")
    /\ UNCHANGED <<net, el, state, retry, batch, stats, fatalReported, reported, history>>

\* enqueue succeeded: the samples of the group are in one request.
EnqueueAccepted ==
    /\ w = "enqueueing" /\ batch # <<>>
    /\ queue < Capacity
    /\ queue' = queue + 1
    /\ batch' = Tail(batch)
    /\ stats' = [stats EXCEPT !.published = @ + Head(batch)]
    /\ UNCHANGED <<link, inflight, el, state, retry, w, fatalReported, reported, history>>

\* Mutant of EnqueueRefused: one failure for a group of samples.
EnqueueRefusedOnce ==
    /\ w = "enqueueing" /\ batch # <<>>
    /\ queue = Capacity
    /\ batch' = Tail(batch)
    /\ stats' = [stats EXCEPT !.failed = @ + 1, !.lastError = "full"]
    /\ UNCHANGED <<net, el, state, retry, w, fatalReported, reported, history>>

\* Mutant of EnqueueRefused: waits for room in the channel, as publish() would.
EnqueueWaits ==
    /\ w = "enqueueing" /\ batch # <<>>
    /\ queue < Capacity
    /\ UNCHANGED vars

\* try_publish on a full channel fails at once; every sample counts as failed.
EnqueueRefused ==
    /\ w = "enqueueing" /\ batch # <<>>
    /\ queue = Capacity
    /\ batch' = Tail(batch)
    /\ stats' = [stats EXCEPT !.failed = @ + Head(batch), !.lastError = "full"]
    /\ UNCHANGED <<net, el, state, retry, w, fatalReported, reported, history>>

ReadReconnects ==
    /\ batch = <<>>
    /\ Cycle("enqueueing", "reconnects")
    /\ stats' = [stats EXCEPT !.reconnects = reconnects]
    /\ UNCHANGED <<net, el, state, retry, batch, fatalReported, reported, history>>

ReadAcked ==
    /\ Cycle("reconnects", "acked")
    /\ stats' = [stats EXCEPT !.acked = acked]
    /\ UNCHANGED <<net, el, state, retry, batch, fatalReported, reported, history>>

\* Without an enqueue error the link's error is taken: connection_fatal_error
\* or else last_connection_error, both of them the text of last_error.
ReadLastError ==
    /\ Cycle("acked", "top")
    /\ stats' = IF stats.lastError = "none"
                THEN [stats EXCEPT !.lastError = lastError] ELSE stats
    /\ UNCHANGED <<net, el, state, retry, batch, fatalReported, reported, history>>

-----------------------------------------------------------------------------
EventLoop ==
    \/ PollAccepted \/ ClearFatal \/ ClearError
    \/ PollRefused \/ SetFatal \/ NoteRejection
    \/ PollPubAck \/ PollOutgoing
    \/ PollError \/ CountReconnect \/ NoteError \/ Wake

Worker ==
    \/ SkipFatalCheck \/ ReadFatal \/ ReadRejection
    \/ StartBatch \/ NothingSampled \/ EnqueueAccepted \/ EnqueueRefused
    \/ ReadReconnects \/ ReadAcked \/ ReadLastError

Next == EventLoop \/ Worker

\* No step of the worker waits for anything.  The event loop is not fair: the
\* broker may never answer.
Spec == Init /\ [][Next]_vars /\ WF_vars(Worker)

-----------------------------------------------------------------------------
(* Properties *)

LinkTypes ==
    /\ link \in {"down", "up"}
    /\ queue \in 0..Capacity
    /\ inflight \in Nat
    /\ el \in {"polling", "accepted", "cleared", "refused", "fatal",
               "counting", "noting", "sleeping"}
    /\ connected \in BOOLEAN /\ fatal \in BOOLEAN
    /\ lastError \in Texts
    /\ reconnects \in Nat /\ acked \in Nat
    /\ current \in Nat /\ delay \in Nat
    /\ drops \in Nat /\ errors \in Nat /\ refused \in BOOLEAN

WorkerTypes ==
    /\ w \in {"top", "fatal", "publish", "enqueueing", "reconnects", "acked"}
    /\ batch \in Seq(Nat \ {0})
    /\ stats \in [queued : Nat, published : Nat, failed : Nat, acked : Nat,
                  reconnects : Nat, lastError : Reasons]
    /\ fatalReported \in BOOLEAN
    /\ reported \in Texts

TypeOK == LinkTypes /\ WorkerTypes

\* Between two results of poll() the shared state tells the truth, whatever
\* accepted, refused and broken connections came before: `connected` is the
\* connection's state, and `reconnects` counts each loss of an accepted
\* connection once and no failed attempt.
LinkStateExact ==
    el \in {"polling", "sleeping"} =>
        /\ connected <=> link = "up"
        /\ reconnects = drops

\* Between two results of poll() `fatal` is set exactly when the broker's last
\* answer was a refusal, errors in between included, and an accepted
\* connection carries no old error text.
FatalTellsLastAnswer ==
    el \in {"polling", "sleeping"} =>
        /\ fatal <=> refused
        /\ link = "up" => lastError = "none"
        /\ fatal => lastError # "none"

\* The initial delay, doubled n times.
Doubled[n \in 0..MaxErrors] == IF n = 0 THEN DelayInitial ELSE 2 * Doubled[n - 1]

\* The event loop sleeps for the initial delay doubled once for each earlier
\* error since the last CONNACK, and for the maximum once that is larger.
BackoffExact ==
    el = "sleeping" => delay = Lesser(Doubled[errors - 1], DelayMax)

\* Every sample of a batch is counted as published or failed, once, however
\* the samples were grouped and whichever requests found the channel full.
PublishAccounted ==
    w = "enqueueing" =>
        stats.queued = stats.published + stats.failed + Total(batch)

\* The worker comes back to the top of its cycle whatever the link does: a
\* full channel and a broker that never answers do not stop it.
WorkerNeverBlocks == (w # "top") ~> (w = "top")

\* "A fatal, non-self-healing connection rejection (bad auth/not authorized),
\* if the broker has rejected the link": the text the worker logs as
\* "MQTT connection rejected by broker" is that of a rejection.
ReportedIsRejection == reported # "transient"
=============================================================================
