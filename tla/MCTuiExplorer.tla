--------------------------- MODULE MCTuiExplorer ----------------------------
(* A file of an object and a trailer, the object being the page too, whose   *)
(* contents stream does not exist.                                           *)
EXTENDS TuiExplorer, TLC

CONSTANTS o1, missing

MCPhysical == <<[kind |-> "object", r |-> o1], [kind |-> "trailer", r |-> NoRef]>>
MCLogical == <<[kind |-> "page", r |-> o1, index |-> 0]>>
MCContents == [i \in {0} |-> <<missing>>]
=============================================================================
