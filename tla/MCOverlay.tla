----------------------------- MODULE MCOverlay ------------------------------
(* A base of two objects, the second one its /Info, whose declared size is   *)
(* too small.                                                                *)
EXTENDS Overlay, TLC

CONSTANTS b1, b2

MCBase == {FreeRow(0, 0), InFile(1, b1), InFile(2, b2)}
=============================================================================
