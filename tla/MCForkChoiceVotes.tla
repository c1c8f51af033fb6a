-------------------------- MODULE MCForkChoiceVotes --------------------------
(* All block trees of up to four blocks, with the hashes in any order.      *)
EXTENDS ForkChoiceVotes

MCHashRank(b) == b
MCBlockHashes == 1 .. 4
MCVoters == 1 .. 3
MCVoteWeight == <<3, 2, 2>>
=============================================================================
