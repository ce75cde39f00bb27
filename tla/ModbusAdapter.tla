--------------------------- MODULE ModbusAdapter ----------------------------
(***************************************************************************)
(* poll of the Modbus TCP adapter                                          *)
(* (src/crates/proto-modbus/src/republish/mod.rs): one connection per      *)
(* call, one request per point, in order, each under a timeout.  A request *)
(* that timed out leaves its connection in use, so its answer may arrive   *)
(* while a later request waits.  The client library numbers the requests   *)
(* and refuses an answer whose number is not the one it waits for.         *)
(***************************************************************************)
EXTENDS Integers, Sequences, FiniteSets, FiniteSetsExt, AdapterAnswers

CONSTANTS
    Points,       \* positions in the list given to poll
    AddressOf,    \* [Points -> Nat]: the configured address
    KnownType,    \* points whose datatype decode() knows
    Registers,    \* number of addresses a request can name: 65536
    MaxPolls      \* bound: calls

ModbusAssumption ==
    /\ Points \subseteq Nat /\ IsFiniteSet(Points)
    /\ AddressOf \in [Points -> Nat]
    /\ KnownType \subseteq Points
    /\ Registers \in Nat \ {0}

VARIABLES
    pc,        \* "idle", "connecting", "between" or "waiting"
    asked,     \* the points of the call
    result,    \* "none", "ok" or "error"
    todo,      \* points not yet requested
    current,   \* the point whose answer is awaited
    number,    \* transaction number of the last request
    inbox,     \* requests the device has not answered, oldest first
    wire,      \* answers on their way, oldest first
    samples, failures,
    source,    \* [Points -> the request that was answered with the sample]
    polls      \* calls so far

call == <<asked, polls>>
connection == <<inbox, wire>>
outcome == <<samples, failures, source>>
vars == <<pc, call, result, todo, current, number, connection, outcome>>

NoPoint == -1
NoRequest == [number |-> 0, address |-> -1]

ModbusInit ==
    /\ pc = "idle" /\ asked = {} /\ result = "none" /\ polls = 0
    /\ todo = {} /\ current = NoPoint /\ number = 0
    /\ inbox = <<>> /\ wire = <<>>
    /\ samples = {} /\ failures = {}
    /\ source = [p \in Points |-> NoRequest]

-----------------------------------------------------------------------------
\* Every point that was given is read, also a disabled one.
StartPoll(ps) ==
    /\ pc = "idle" /\ polls < MaxPolls
    /\ polls' = polls + 1
    /\ asked' = ps /\ todo' = ps /\ result' = "none"
    /\ samples' = {} /\ failures' = {} /\ source' = [p \in Points |-> NoRequest]
    /\ pc' = "connecting"
    /\ UNCHANGED <<current, number, connection>>

\* connect, within its timeout: a new connection knows nothing of an old one.
Connect(good) ==
    /\ pc = "connecting"
    /\ IF good THEN pc' = "between" /\ UNCHANGED result ELSE pc' = "idle" /\ result' = "error"
    /\ inbox' = <<>> /\ wire' = <<>> /\ number' = 0
    /\ UNCHANGED <<call, todo, current, outcome>>

\* The address as u16.
Wire(address) == address % Registers

\* read_point sends its request.
SendRequest ==
    /\ pc = "between" /\ todo # {}
    /\ current' = Min(todo) /\ todo' = todo \ {current'}
    /\ number' = number + 1
    /\ inbox' = Append(inbox, [number |-> number', address |-> Wire(AddressOf[current'])])
    /\ pc' = "waiting"
    /\ UNCHANGED <<call, result, wire, outcome>>

\* The device serves one request after the other.
DeviceAnswers ==
    /\ inbox # <<>>
    /\ wire' = Append(wire, Head(inbox)) /\ inbox' = Tail(inbox)
    /\ UNCHANGED <<pc, call, result, todo, current, number, outcome>>

Fail ==
    /\ failures' = failures \cup {current}
    /\ UNCHANGED <<samples, source>>

Sample(answer) ==
    /\ samples' = samples \cup {current}
    /\ source' = [source EXCEPT ![current] = answer]
    /\ UNCHANGED failures

\* Mutant of Belongs: any answer is taken for the one awaited.
BelongsAlways(answer) == TRUE

\* The library compares the transaction number of an answer.
Belongs(answer) == answer.number = number

\* The first answer on the wire: a value, or a Modbus exception; the answer to
\* an earlier request is an input/output error.  A value of an unknown
\* datatype does not decode.
ReceiveAnswer(good) ==
    /\ pc = "waiting" /\ wire # <<>>
    /\ wire' = Tail(wire)
    /\ IF Belongs(Head(wire)) /\ good /\ current \in KnownType THEN Sample(Head(wire)) ELSE Fail
    /\ pc' = "between" /\ current' = NoPoint
    /\ UNCHANGED <<call, result, todo, number, inbox>>

\* Mutant of ReadTimesOut: the timeout is noticed when something arrives.
ReadTimesOutOnArrival ==
    /\ pc = "waiting" /\ wire # <<>>
    /\ Fail
    /\ pc' = "between" /\ current' = NoPoint
    /\ UNCHANGED <<call, result, todo, number, connection>>

\* The timeout of the read; the device may still answer.
ReadTimesOut ==
    /\ pc = "waiting"
    /\ Fail
    /\ pc' = "between" /\ current' = NoPoint
    /\ UNCHANGED <<call, result, todo, number, connection>>

PollReturns ==
    /\ pc = "between" /\ todo = {}
    /\ pc' = "idle" /\ result' = "ok"
    /\ inbox' = <<>> /\ wire' = <<>> /\ number' = 0
    /\ UNCHANGED <<call, todo, current, outcome>>

-----------------------------------------------------------------------------
Client ==
    \/ \E good \in BOOLEAN : Connect(good) \/ ReceiveAnswer(good)
    \/ SendRequest \/ ReadTimesOut \/ PollReturns

ModbusNext == Client \/ DeviceAnswers \/ \E ps \in SUBSET Points : StartPoll(ps)

\* A call makes progress by itself: both of its waits have a timeout.
ModbusSpec == ModbusInit /\ [][ModbusNext]_vars /\ WF_vars(Client)

-----------------------------------------------------------------------------
(* Properties *)

\* A sample of a point is the answer to the request made for that very point,
\* however many late answers were on the connection: the address of the
\* answer is the one configured (below the number of registers).
SampleIsOwn ==
    \A p \in samples : source[p].address = AddressOf[p] % Registers

\* A poll that returns answers every point it was given exactly once.
PollAnswersAll ==
    result = "ok" => IsPollAnswer(asked, samples, failures) /\ samples \cup failures = asked

\* A poll that was started returns, whatever the device does.
PollEnds == pc = "connecting" ~> pc = "idle"
=============================================================================
