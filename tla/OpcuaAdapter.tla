---------------------------- MODULE OpcuaAdapter ----------------------------
(***************************************************************************)
(* poll of the OPC UA adapter                                              *)
(* (src/crates/proto-opcua/src/republish/mod.rs): a connection per call,   *)
(* one read of all nodes, and the values paired with the points by their   *)
(* position.                                                               *)
(***************************************************************************)
EXTENDS Integers, Sequences, FiniteSets, Sorted, AdapterAnswers

CONSTANTS
    Points,      \* positions in the list given to poll
    Enabled,     \* those with enabled = true
    NodeOf,      \* [Points -> node ids \cup {Unparsed}]
    Unparsed     \* no node_id, or one that does not parse

OpcuaAssumption ==
    /\ Points \subseteq Nat /\ IsFiniteSet(Points) /\ Enabled \subseteq Points
    /\ DOMAIN NodeOf = Points

VARIABLES
    pc,          \* "idle", "connecting" or "reading"
    asked, result,
    connected,   \* a session is open
    samples, failures,
    source,      \* [Points -> the node whose value is in the sample]
    answered     \* how many values the server answered the read with

vars == <<pc, asked, result, connected, samples, failures, source, answered>>

OpcuaInit ==
    /\ pc = "idle" /\ asked = {} /\ result = "none" /\ connected = FALSE
    /\ samples = {} /\ failures = {}
    /\ source = [p \in Points |-> Unparsed]
    /\ answered = 0

\* Without an enabled point there is nothing to connect for.
StartPoll(ps) ==
    /\ pc = "idle"
    /\ asked' = ps \cap Enabled
    /\ IF asked' = {} THEN result' = "ok" /\ UNCHANGED pc
                      ELSE result' = "none" /\ pc' = "connecting"
    /\ samples' = {} /\ failures' = {} /\ source' = [p \in Points |-> Unparsed]
    /\ answered' = 0
    /\ UNCHANGED connected

\* connect: a missing URL, settings that contradict each other, or no server.
\* Then the points without a node id fail, and the others are read.  The wait for
\* the session has no timeout: nothing makes this step happen.
Connect(good) ==
    /\ pc = "connecting"
    /\ IF good
       THEN /\ pc' = "reading" /\ connected' = TRUE
            /\ failures' = {p \in asked : NodeOf[p] = Unparsed}
            /\ UNCHANGED result
       ELSE pc' = "idle" /\ result' = "error" /\ UNCHANGED <<connected, failures>>
    /\ UNCHANGED <<asked, samples, source, answered>>

\* The points that are read, in the order of the request.
valid == InOrder({p \in asked : NodeOf[p] # Unparsed})

\* The values of a server that answers the first n nodes of the request.
Values(n) == [i \in 1..n |-> NodeOf[valid[i]]]

\* Mutant of Paired: zips the values with all points of the call.
PairedWithAll == InOrder(asked)

\* The points the values are zipped with.
Paired == valid

\* data_value: which of the first n values hold nothing to convert.  The status
\* is not looked at: a value that comes with a bad one is a sample.
Unreadable(n) == SUBSET (1..n)

\* Mutant of ReadReturns: a point without a value is left out of the outcome.
ReadReturnsReadable(values, bad) ==
    /\ pc = "reading"
    /\ LET read == {i \in DOMAIN values : i \in DOMAIN Paired} \ bad
       IN  /\ samples' = {Paired[i] : i \in read}
           /\ source' = [p \in Points |->
                            IF \E i \in read : Paired[i] = p
                            THEN values[CHOOSE i \in read : Paired[i] = p]
                            ELSE Unparsed]
    /\ answered' = Len(values)
    /\ connected' = FALSE
    /\ pc' = "idle" /\ result' = "ok"
    /\ UNCHANGED <<asked, failures>>

\* Each value is paired with the point at its position: one that converts is a
\* sample, an empty one a failure.  Points beyond the end of a short answer are
\* in neither list.
ReadReturns(values, bad) ==
    /\ pc = "reading"
    /\ LET read == {i \in DOMAIN values : i \in DOMAIN Paired}
       IN  /\ samples' = {Paired[i] : i \in read \ bad}
           /\ failures' = failures \cup {Paired[i] : i \in read \cap bad}
           /\ source' = [p \in Points |->
                            IF \E i \in read \ bad : Paired[i] = p
                            THEN values[CHOOSE i \in read \ bad : Paired[i] = p]
                            ELSE Unparsed]
    /\ answered' = Len(values)
    /\ connected' = FALSE
    /\ pc' = "idle" /\ result' = "ok"
    /\ UNCHANGED asked

\* A failed read is an error of the whole poll, also for the points that had
\* failed already; a read of no nodes may be refused by the library.
ReadFails ==
    /\ pc = "reading"
    /\ connected' = FALSE
    /\ pc' = "idle" /\ result' = "error"
    /\ UNCHANGED <<asked, samples, failures, source, answered>>

OpcuaNext ==
    \/ \E ps \in SUBSET Points : StartPoll(ps)
    \/ \E good \in BOOLEAN : Connect(good)
    \/ \E n \in 0..Len(valid) : \E bad \in Unreadable(n) : ReadReturns(Values(n), bad)
    \/ ReadFails

-----------------------------------------------------------------------------
(* Properties *)

\* The points the answer of the server had no value for, not even an empty one.
Unanswered == {valid[i] : i \in (answered + 1)..Len(valid)}

\* Every sample of a poll carries the value of its own node, also when points
\* before it in the list were left out of the request or the server's answer
\* is short; each enabled point of the call is in exactly one of the samples
\* and the failures, except those beyond the end of a short answer, which are
\* in neither; and a call that is over has closed its connection.
ValuesArePaired ==
    /\ \A p \in samples : source[p] = NodeOf[p]
    /\ result = "ok" =>
         /\ IsPollAnswer(asked, samples, failures)
         /\ samples \cup failures = asked \ Unanswered
    /\ pc = "idle" => ~connected
=============================================================================
