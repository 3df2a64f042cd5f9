---------------------------- MODULE MCTaskMonitor ----------------------------
(* Two tasks, the first's path matching the second's line in the list.  The *)
(* texts 2 and 3 are of one route, of whose name that of text 1's is a      *)
(* prefix; in text 3 a blank follows the route_id.                          *)
EXTENDS TaskMonitor

CONSTANTS a, b, r1, r12

MCMatched == [t \in Task |-> IF t = a THEN {a, b} ELSE {b}]
MCNameOf == [x \in Text |-> IF x = 1 THEN r1 ELSE r12]
MCIdRead == [x \in Text |-> IF x = 3 THEN None ELSE MCNameOf[x]]
MCGrepped == [x \in Text |-> IF x = 2 THEN {r12} ELSE {r1, r12}]
MCInitial == {[t \in Task |-> [text |-> IF t = a THEN 1 ELSE 2, cr |-> t = a]]}
==============================================================================
