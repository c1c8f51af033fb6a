-------------------------- MODULE MCActiveValidator --------------------------
(***************************************************************************)
(* Two round lengths, 2 and 4.  Another validator leads the round at 0 and *)
(* this one those at 2 and 4, so that both kinds of units follow each      *)
(* other at once; the block at 2 ends the era, so that a leader's unit     *)
(* without a block happens too.  The clock covers one and a half rounds of *)
(* the greater length: the exponent can change, and a third unit could     *)
(* fall into a round.  One round decides about the exponent.               *)
(***************************************************************************)
EXTENDS ActiveValidator

=============================================================================
