----------------------------- MODULE MCGossiper -----------------------------
(* Gossiper on small instances. *)
EXTENDS Gossiper
=============================================================================
