---------------------------- MODULE MCLinearChain ----------------------------
(* Two blocks, each of which ends an era.                                   *)
EXTENDS LinearChain

CONSTANTS k1, k2, k3

MCEraOf == <<0, 1>>
\* Only k1 is a validator of era 0; all keys are from era 1 on.
MCWeights == [era \in 0 .. 3 |-> [k \in IF era = 0 THEN {k1} ELSE Keys |-> 1]]
MCEqualWeights == [era \in 0 .. 3 |-> [k \in Keys |-> 1]]
MCFaultTolerance == <<1, 3>>
MCEraOfBlock(x) == {EraOf[x]}
MCAnyEra(x) == {0, 1}
\* For the first block a signer may claim the era after it, of which both are
\* validators.
MCFirstBlockEras(x) == IF x = 1 THEN {0, 1} ELSE {1}
=============================================================================
