------------------------------- MODULE Picks --------------------------------
(***************************************************************************)
(* The elements of a sequence at some of its positions, in their order.    *)
(***************************************************************************)
EXTENDS Naturals, Sequences

\* Those among the first k, for every k.
PicksUpto(s, at) ==
    LET upto[k \in 0..Len(s)] ==
            IF k = 0 THEN <<>>
            ELSE IF k \in at THEN Append(upto[k - 1], s[k]) ELSE upto[k - 1]
    IN  upto

Picks(s, at) == PicksUpto(s, at)[Len(s)]
=============================================================================
