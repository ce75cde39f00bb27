----------------------------- MODULE StatusFeed ------------------------------
(***************************************************************************)
(* What the republisher GUI shows of the points: the worker keeps a status *)
(* of every point for its health message, and sends events from which the  *)
(* GUI builds one of its own (src/crates/republish-core/src: worker/mod.rs, *)
(* worker/events.rs, model.rs, app.rs).  A poll of the user's ("Poll       *)
(* once") sends to the same channel from its own thread; the statuses of   *)
(* the GUI survive the end of a run, those of the worker do not.           *)
(*                                                                         *)
(* Left out: the log, topics and times.  A value is the number of the poll *)
(* that read it.  Which points are due is in Republisher, a start while a  *)
(* worker runs in AppRunControl.                                           *)
(***************************************************************************)
EXTENDS Integers, FiniteSets, SequencesExt, Sorted

CONSTANTS
    Dues,           \* points due together: sequences of [identity, device]
    RecentCapacity, \* RECENT_SAMPLE_CAPACITY
    MaxPolls,       \* bound: polls of the worker and of the user
    MaxTurns        \* bound: starts and clearings by the user

ASSUME FeedAssumption ==
    /\ RecentCapacity \in Nat /\ {MaxPolls, MaxTurns} \subseteq Nat
    /\ \A due \in Dues : due \in Seq(Range(due))

VARIABLES
    worker,   \* [mode, envelope, status, published, acked]: the last run's worker;
              \*   status is point_status, the counts are its publisher's
    feed,     \* by sender, the events it has sent or is about to send
    shown,    \* the GUI: [lifecycle, statuses, recent_samples, published_total, acked_total]
    reported, \* history: identities the worker reported and nobody else since,
    sampled,  \*   and those of which it reported a sample
    mixed,    \* history: a poll of the user's was counted in this run
    polls,    \* polls so far, and so the value read (for the bound)
    turns     \* starts and clearings so far (for the bound)

statusFeed == <<worker, feed, shown, reported, sampled, mixed, polls, turns>>

Senders == {"worker", "once"}
NoValue == 0
NoError == "none"
Unreported == [value |-> NoValue, stale |-> TRUE, failures |-> 0,
               error |-> NoError, publish_error |-> NoError]

-----------------------------------------------------------------------------
(* PointStatus, and a map of them by identity *)

record_sample(s, v) ==
    [value |-> v, stale |-> FALSE, failures |-> 0,
     error |-> NoError, publish_error |-> s.publish_error]
record_publish(s, error) ==
    [value |-> s.value, stale |-> s.stale, failures |-> s.failures,
     error |-> s.error, publish_error |-> error]

\* So many failures one after the other.
record_read_failures(s, times) ==
    [value |-> s.value, stale |-> TRUE, failures |-> s.failures + times,
     error |-> "read", publish_error |-> s.publish_error]

StatusIn(statuses, id) == IF id \in DOMAIN statuses THEN statuses[id] ELSE Unreported

\* Where a list names a point (of two points of one identity, each has a place).
\* What is recorded of a point is a matter of its own entries alone, and of all
\* but the failures, which are counted, the last one stands.
Places(list, id) == {n \in DOMAIN list : list[n] = id}
Identities(list) == [n \in DOMAIN list |-> list[n].identity]
LastOf(list, id) == list[Max(Places(Identities(list), id))]

WithFailures(statuses, ids) ==
    [id \in DOMAIN statuses \cup Range(ids) |->
        IF id \notin Range(ids) THEN statuses[id]
        ELSE record_read_failures(StatusIn(statuses, id), Cardinality(Places(ids, id)))]
WithSamples(statuses, samples) ==
    [id \in DOMAIN statuses \cup Range(Identities(samples)) |->
        IF id \notin Range(Identities(samples)) THEN statuses[id]
        ELSE record_sample(StatusIn(statuses, id), LastOf(samples, id).value)]
WithPublishes(statuses, publishes) ==
    [id \in DOMAIN statuses \cup Range(Identities(publishes)) |->
        IF id \notin Range(Identities(publishes)) THEN statuses[id]
        ELSE record_publish(StatusIn(statuses, id), LastOf(publishes, id).error)]

Stale(statuses) == {id \in DOMAIN statuses : statuses[id].stale}

point_status_chip(statuses, id) ==
    IF id \notin DOMAIN statuses THEN "Unknown"
    ELSE CASE statuses[id].publish_error # NoError -> "Publish error"
           [] statuses[id].publish_error = NoError /\ statuses[id].error # NoError -> "Read error"
           [] OTHER -> IF statuses[id].stale THEN "Stale" ELSE "OK"

\* What the pages show: of the whole, and of a point.
overview_page(gui) ==
    [queued |-> gui.published_total, delivered |-> gui.acked_total,
     stale |-> Cardinality(Stale(gui.statuses)), activity |-> gui.recent_samples]

points_page(statuses, id) ==
    [chip |-> point_status_chip(statuses, id), value |-> StatusIn(statuses, id).value]

-----------------------------------------------------------------------------
(* A poll: due points in their order, each read or not, and each message of  *)
(* the publisher accepted or not.                                            *)

\* The entries at some of the positions of a list.
Those(list, positions) ==
    [n \in DOMAIN InOrder(positions) |-> list[InOrder(positions)[n]]]

\* Samples in the order they are published: one by one, or one message per
\* device, devices in the order they are first met.
PublishOrder(read, envelope) ==
    LET is_first(i) == \A j \in 1..(i - 1) : read[j].device # read[i].device
        group(i) == IF is_first(i) THEN {j \in DOMAIN read : read[j].device = read[i].device} ELSE {}
    IN  IF ~envelope THEN read
        ELSE FlattenSeq([i \in DOMAIN read |-> Those(read, group(i))])

\* A message is refused or accepted as a whole.
Refusals(read, envelope) ==
    IF envelope THEN SUBSET {read[i].device : i \in DOMAIN read}
    ELSE SUBSET {<<read[i].identity, read[i].device>> : i \in DOMAIN read}

Publishes(read, envelope, refused) ==
    LET order == PublishOrder(read, envelope)
    IN  [i \in DOMAIN order |->
            [kind |-> "PointPublish", identity |-> order[i].identity,
             error |-> IF (IF envelope THEN order[i].device
                           ELSE <<order[i].identity, order[i].device>>) \in refused
                       THEN "refused" ELSE NoError]]

Samples(read, value) ==
    [i \in DOMAIN read |-> [identity |-> read[i].identity, value |-> value]]

\* Mutant of Sends: samples are shown before the failures of the same poll.
SendsSamplesFirst(read, failed, publishes, stats) ==
    (IF read = <<>> THEN <<>>
     ELSE publishes
          \o <<[kind |-> "Samples", samples |-> Samples(read, stats.value)],
               [kind |-> "PublishStatus", published |-> stats.published, acked |-> stats.acked]>>)
    \o (IF failed = <<>> THEN <<>>
        ELSE <<[kind |-> "Failures", identities |-> Identities(failed)]>>)

\* What a poll sends: nothing of an empty list.
Sends(read, failed, publishes, stats) ==
    (IF failed = <<>> THEN <<>>
     ELSE <<[kind |-> "Failures", identities |-> Identities(failed)]>>)
    \o (IF read = <<>> THEN <<>>
        ELSE publishes
             \o <<[kind |-> "Samples", samples |-> Samples(read, stats.value)],
                  [kind |-> "PublishStatus", published |-> stats.published,
                   acked |-> stats.acked]>>)

Accepted(publishes) == Cardinality({n \in DOMAIN publishes : publishes[n].error = NoError})

-----------------------------------------------------------------------------
StatusFeedInit ==
    /\ worker = [mode |-> "off", envelope |-> FALSE, status |-> <<>>, published |-> 0, acked |-> 0]
    /\ feed = [s \in Senders |-> <<>>]
    /\ shown = [lifecycle |-> "Stopped", statuses |-> <<>>, recent_samples |-> <<>>,
                published_total |-> 0, acked_total |-> 0]
    /\ reported = {} /\ sampled = {}
    /\ mixed = FALSE
    /\ polls = 0 /\ turns = 0

Poll == polls < MaxPolls /\ polls' = polls + 1 /\ UNCHANGED turns
Turn == turns < MaxTurns /\ turns' = turns + 1 /\ UNCHANGED polls

\* start_republisher: the totals start over, the statuses do not.
StartRun(envelope) ==
    /\ Turn
    /\ shown.lifecycle = "Stopped" /\ worker.mode = "off"
    /\ worker' = [mode |-> "on", envelope |-> envelope, status |-> <<>>,
                  published |-> 0, acked |-> 0]
    /\ feed' = [feed EXCEPT !["worker"] = @ \o <<[kind |-> "Lifecycle", lifecycle |-> "Running"]>>]
    /\ shown' = [shown EXCEPT !.published_total = 0, !.acked_total = 0]
    /\ reported' = {} /\ sampled' = {} /\ mixed' = FALSE

\* The loop saw the stop flag; Stop is offered once the GUI saw it run.
StopRun ==
    /\ shown.lifecycle = "Running" /\ worker.mode = "on"
    /\ worker' = [worker EXCEPT !.mode = "off"]
    /\ feed' = [feed EXCEPT !["worker"] = @ \o <<[kind |-> "Lifecycle", lifecycle |-> "Stopped"]>>]
    /\ UNCHANGED <<shown, reported, sampled, mixed, polls, turns>>

\* The worker's map is changed while it sends; nobody reads it in between.
WorkerPoll(read, failed, refused, acked) ==
    LET publishes == Publishes(read, worker.envelope, refused)
        total == worker.published + Accepted(publishes)
        after_failures == WithFailures(worker.status, Identities(failed))
        after_samples == WithSamples(after_failures, Samples(read, polls + 1))
    IN  /\ worker.mode = "on"
        /\ Poll
        /\ acked \in {worker.acked, IF read = <<>> THEN worker.acked ELSE total}
        /\ worker' = [worker EXCEPT !.status = WithPublishes(after_samples, publishes),
                                    !.published = total, !.acked = acked]
        /\ feed' = [feed EXCEPT !["worker"] = @ \o
                          Sends(read, failed, publishes,
                                [value |-> polls + 1, published |-> Accepted(publishes),
                                 acked |-> acked])]
        /\ reported' = reported \cup Range(Identities(read \o failed))
        /\ sampled' = sampled \cup Range(Identities(read))
        /\ UNCHANGED <<shown, mixed>>

\* record_unresolved_failures: the points of devices that no longer answer.
DevicesLost(lost) ==
    /\ worker.mode = "on"
    /\ Poll
    /\ worker' = [worker EXCEPT !.status = WithFailures(@, Identities(lost))]
    /\ feed' = [feed EXCEPT !["worker"] = @ \o
                      <<[kind |-> "Failures", identities |-> Identities(lost)]>>]
    /\ reported' = reported \cup Range(Identities(lost))
    /\ UNCHANGED <<shown, sampled, mixed>>

\* spawn_poll_once: a publisher and a status map of its own.  (Two of them are
\* taken in turn.)
PollOnceEnds(read, failed, refused, envelope) ==
    LET publishes == Publishes(read, envelope, refused)
    IN  /\ Poll
        /\ feed' = [feed EXCEPT !["once"] = @ \o
                          Sends(read, failed, publishes,
                                [value |-> polls + 1, published |-> Accepted(publishes),
                                 acked |-> 0])]
        /\ UNCHANGED <<worker, shown, reported, sampled, mixed>>

\* One event in drain_worker_events.
Shows(gui, e) ==
    CASE e.kind = "Samples" ->
            [gui EXCEPT !.statuses = WithSamples(@, e.samples),
                        !.recent_samples =
                            LET all == Reverse(e.samples) \o @
                            IN  SubSeq(all, 1, IF Len(all) > RecentCapacity
                                               THEN RecentCapacity ELSE Len(all))]
      [] e.kind = "Failures" ->
            [gui EXCEPT !.statuses = WithFailures(@, e.identities)]
      [] e.kind = "PublishStatus" ->
            [gui EXCEPT !.published_total = @ + e.published,
                        !.acked_total = IF e.acked > @ THEN e.acked ELSE @]
      [] e.kind = "PointPublish" -> [gui EXCEPT !.statuses = WithPublishes(@, <<e>>)]
      [] e.kind = "Lifecycle" -> [gui EXCEPT !.lifecycle = e.lifecycle]

Mentions(e) ==
    CASE e.kind = "Samples" -> {e.samples[i].identity : i \in DOMAIN e.samples}
      [] e.kind = "Failures" -> Range(e.identities)
      [] e.kind = "PointPublish" -> {e.identity}
      [] OTHER -> {}

\* Tick drains what is in the channel.  Each sender's events arrive in order;
\* how those of two are merged, and how many are there at a tick, is open.
DrainEvent(s) ==
    LET e == Head(feed[s])
        others == IF s = "once" THEN Mentions(e) ELSE {}
    IN  /\ feed[s] # <<>>
        /\ shown' = Shows(shown, e)
        /\ feed' = [feed EXCEPT ![s] = Tail(@)]
        /\ reported' = reported \ others
        /\ sampled' = sampled \ others
        /\ mixed' = (mixed \/ (s = "once" /\ e.kind = "PublishStatus"))
        /\ UNCHANGED <<worker, polls, turns>>

\* clear_all_points, confirmed: the worker goes on with the points it has.
ForgetStatuses ==
    /\ Turn
    /\ shown.statuses # <<>>
    /\ shown' = [shown EXCEPT !.statuses = <<>>]
    /\ reported' = {} /\ sampled' = {}
    /\ UNCHANGED <<worker, feed, mixed>>

StatusFeedNext ==
    \/ \E envelope \in BOOLEAN : StartRun(envelope)
    \/ StopRun
    \/ \E due \in Dues : \E failing \in SUBSET Range(due) :
          LET read == Those(due, {n \in DOMAIN due : due[n] \notin failing})
              failed == Those(due, {n \in DOMAIN due : due[n] \in failing})
          IN  \/ \E refused \in Refusals(read, worker.envelope) :
                    \E acked \in 0..(worker.published + Len(read)) :
                        WorkerPoll(read, failed, refused, acked)
              \/ \E envelope \in BOOLEAN : \E refused \in Refusals(read, envelope) :
                    PollOnceEnds(read, failed, refused, envelope)
    \/ \E lost \in Dues : DevicesLost(lost)
    \/ \E s \in Senders : DrainEvent(s)
    \/ ForgetStatuses

-----------------------------------------------------------------------------
CaughtUp == feed["worker"] = <<>>

\* A point the worker reported, and nobody else since, is shown stale and in
\* error exactly when the worker counts it so; and once it was sampled in this
\* run the whole status is the worker's.  (Before that the GUI keeps the
\* value, the failures and the publish error of an earlier run.)
StatusesAgree ==
    \A id \in reported :
        LET own == worker.status[id]
            gui == shown.statuses[id]
        IN  /\ gui.stale = own.stale /\ gui.error = own.error
            /\ id \in sampled =>
                  /\ gui = own
                  /\ points_page(shown.statuses, id).chip = point_status_chip(worker.status, id)

\* The overview counts the stale points of the health message.
StaleAgrees ==
    (reported = DOMAIN worker.status /\ reported = DOMAIN shown.statuses) =>
        overview_page(shown).stale = Cardinality(Stale(worker.status))

TotalsAgree ==
    ~mixed => /\ overview_page(shown).queued = worker.published
              /\ overview_page(shown).delivered = worker.acked

\* The newest sample in the list is the value in the table.
NewestIsShown ==
    LET activity == overview_page(shown).activity
    IN  \A id \in DOMAIN shown.statuses :
            LET of == {i \in DOMAIN activity : activity[i].identity = id}
                newest == CHOOSE i \in of : \A j \in of : i <= j
                value == points_page(shown.statuses, id).value
            IN  of # {} /\ value # NoValue => activity[newest].value = value

\* With the channel drained the GUI and the worker tell the same story.
FeedIsFaithful == (CaughtUp => StatusesAgree /\ StaleAgrees /\ TotalsAgree) /\ NewestIsShown
=============================================================================
