-------------------------- MODULE MCHighwayProtocol --------------------------
(* Three validators: the first owns the units of weight 1 and 2, the second *)
(* 3 and 4, the third 5.                                                    *)
EXTENDS HighwayProtocol

MCHashRank(h) == 10 * h[1] + h[2]
MCWeight == <<2, 2, 1>>
\* Validator 1 leads the even rounds.  The odd ones are drawn by validator 3,
\* which cannot propose, and go to validator 2.
MCDraw == [t \in Times |-> IF t % 2 = 0 THEN 1 ELSE 5]
MCRedraw == [t \in Times |-> 3]
=============================================================================
