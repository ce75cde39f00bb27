--------------------------- MODULE AdapterAnswers ---------------------------
(***************************************************************************)
(* What the worker takes for granted about the answers of a protocol       *)
(* adapter (the RepublishProtocol trait), and what each adapter is checked *)
(* to provide.  Republisher assumes these predicates, BacnetAdapter,       *)
(* ModbusAdapter and OpcuaAdapter are shown to satisfy them.               *)
(***************************************************************************)

\* PollOutcome: samples and failures are of points that were asked for, and no
\* point is both.  A point may be in neither.
IsPollAnswer(asked, samples, failures) ==
    /\ samples \subseteq asked
    /\ failures \subseteq asked
    /\ samples \cap failures = {}

\* RefreshOutcome: the requested devices, in two parts.
IsRefreshAnswer(requested, resolved, unresolved) ==
    /\ resolved \cup unresolved = requested
    /\ resolved \cap unresolved = {}
=============================================================================
