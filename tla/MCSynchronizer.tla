---------------------------- MODULE MCSynchronizer ----------------------------
(***************************************************************************)
(* A correct peer sends c, which depends on the proposal a, a unit of an   *)
(* equivocator.  A faulty one sends y, which depends on x; x depends on a  *)
(* and is not valid.  The faulty peer may or may not answer when it is     *)
(* asked for a or x, and it may send z, which cannot even be pre-validated.*)
(***************************************************************************)
EXTENDS Synchronizer

CONSTANTS a, c, x, y, z, good, bad

MCDeps == [v \in Vertices |->
    CASE v = c -> << a >> [] v = x -> << a >> [] v = y -> << x >> [] OTHER -> << >>]
MCSends == [p \in Peers |-> IF p = good THEN {c} ELSE {y, z}]
MCAnswers == [p \in Peers |-> IF p = good THEN {a, c} ELSE {a, x, y}]

=============================================================================
