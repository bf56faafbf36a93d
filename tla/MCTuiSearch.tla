---------------------------- MODULE MCTuiSearch -----------------------------
(* Three objects: the query of one character matches two, the longer one    *)
(* the last.                                                                *)
EXTENDS TuiSearch, TLC

CONSTANTS a, o1, o2, o3

MCObjects == <<o1, o2, o3>>
MCMatches(q) == IF Len(q) = 1 THEN {o1, o3} ELSE {o3}
=============================================================================
