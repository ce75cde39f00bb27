--------------------------- MODULE MCRepublisher ----------------------------
(***************************************************************************)
(* Republisher for TLC: device d1 has the points a and b, d2 has c, and    *)
(* `off` is a disabled entry with the same addressing as c.                *)
(***************************************************************************)
EXTENDS Republisher, TLC

CONSTANTS a, b, c, off, n, ia, ib, ic, inn, d1, d2

MCPoints == {a, b, c, off}
MCIds == {ia, ib, ic}
MCDevices == {d1, d2}
MCIdOf == (a :> ia) @@ (b :> ib) @@ (c :> ic) @@ (off :> ic)
MCInstanceOf == (ia :> d1) @@ (ib :> d1) @@ (ic :> d2)
MCPollInterval == (a :> 1) @@ (b :> 2) @@ (c :> 1) @@ (off :> 1)
MCEnabled == {a, b, c}

\* The smaller instance of the liveness run: one point of one device and one
\* point, n, of a protocol that has no device table.
SmallPoints == {a, n}
SmallIds == {ia, inn}
SmallDevices == {d1}
SmallIdOf == (a :> ia) @@ (n :> inn)
SmallInstanceOf == (ia :> d1) @@ (inn :> NoDevice)
SmallPollInterval == (a :> 1) @@ (n :> 2)
=============================================================================
