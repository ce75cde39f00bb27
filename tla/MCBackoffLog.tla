---------------------------- MODULE MCBackoffLog -----------------------------
(***************************************************************************)
(* BackoffLog for TLC: one device with one point, and a slow poll.         *)
(***************************************************************************)
EXTENDS BackoffLog, TLC

CONSTANTS a, ia, d1

MCPoints == {a}
MCIds == {ia}
MCDevices == {d1}
MCIdOf == (a :> ia)
MCInstanceOf == (ia :> d1)
MCPollInterval == (a :> 1)
=============================================================================
