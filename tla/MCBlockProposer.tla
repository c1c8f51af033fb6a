--------------------------- MODULE MCBlockProposer ---------------------------
(* Two deploys and two blocks in two eras; the second deploy depends on the *)
(* first one, which the switch block contains.                              *)
EXTENDS BlockProposer, TLC

CONSTANTS d1, t2

MCCreated == d1 :> 0 @@ t2 :> 0
MCExpires == d1 :> 2 @@ t2 :> 1
MCDeps == d1 :> {} @@ t2 :> {d1}
MCPayload == <<<<d1>>, <<t2>>>>
MCBlockTime == <<0, 1>>
=============================================================================
