----------------------------- MODULE MCBlockOn -----------------------------
(* A small instance of BlockOn for TLC: its constants are model values.     *)
EXTENDS BlockOn, TLC
=============================================================================
