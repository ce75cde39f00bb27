---------------------------- MODULE MCPointTable -----------------------------
(***************************************************************************)
(* PointTable for TLC: two identities, of which p is configured twice in   *)
(* one of the files (once disabled and without an interval, as only a file *)
(* written by hand has it), and scans that find p, q, both or nothing new. *)
(***************************************************************************)
EXTENDS PointTable

CONSTANTS p, q, x, none

Point(id, enabled, interval) ==
    [id |-> id, tag |-> none, enabled |-> enabled, interval |-> interval]

MCIds == {p, q}
MCTags == {none, x}
MCTables == {<<Point(p, TRUE, 10), Point(q, TRUE, 10)>>,
             <<Point(p, TRUE, 10), Point(p, FALSE, 0)>>}
MCFinds == {<<[id |-> p, tag |-> x], [id |-> q, tag |-> none]>>,
            <<[id |-> q, tag |-> x], [id |-> q, tag |-> x]>>}
=============================================================================
