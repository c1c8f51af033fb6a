--------------------------- MODULE ForkChoiceVotes ---------------------------
(***************************************************************************)
(* The fork choice while the block tree grows and the latest votes of the  *)
(* correct validators move: State::fork_choice on every tree and every     *)
(* assignment of votes that units can produce.                             *)
(***************************************************************************)
EXTENDS BlockTree, Integers

CONSTANTS
    BlockHashes,  \* hashes of the blocks that may be proposed
    Voters,
    VoteWeight    \* State::weights

\* The order on hashes is total, and a validator has a stake.
ASSUME VotesAssumption ==
    /\ None \notin BlockHashes
    /\ \A b \in BlockHashes : HashRank(b) \in Int
    /\ \A b, c \in BlockHashes : HashRank(b) = HashRank(c) => b = c
    /\ IsFiniteSet(Voters)
    /\ VoteWeight \in [Voters -> Nat \ {0}]

VARIABLES
    tree,  \* State::blocks
    vote   \* the blocks that the validators' latest units vote for

votesVars == <<tree, vote>>

VotesInit ==
    /\ tree = [b \in {} |-> None]
    /\ vote = [v \in {} |-> None]

SetVote(v, b) ==
    vote' = [w \in DOMAIN vote \cup {v} |-> IF w = v THEN b ELSE vote[w]]

\* A unit of v that proposes a block on top of the fork choice of its panorama,
\* which may be any block.
Propose(v, b, parent) ==
    /\ b \notin DOMAIN tree
    /\ tree' = [c \in DOMAIN tree \cup {b} |->
                   IF c = b THEN NewBlock(tree, parent) ELSE tree[c]]
    /\ SetVote(v, b)

\* A unit of v that votes for the fork choice of its panorama.
Vote(v, b) == SetVote(v, b) /\ UNCHANGED tree

\* v is found to be faulty: its votes count no more.
Fault(v) ==
    /\ v \in DOMAIN vote
    /\ vote' = Restrict(vote, DOMAIN vote \ {v})
    /\ UNCHANGED tree

VotesNext ==
    \E v \in Voters :
        \/ \E b \in BlockHashes, parent \in DOMAIN tree \cup {None} : Propose(v, b, parent)
        \/ \E b \in DOMAIN tree : Vote(v, b)
        \/ Fault(v)

VotesSpec == VotesInit /\ [][VotesNext]_votesVars

-----------------------------------------------------------------------------
(* Reference definitions.                                                  *)

\* The blocks from the root to b, found by following the parents.
Branch(b) ==
    LET branch[c \in DOMAIN tree] ==
            {c} \cup IF Parent(tree, c) = None THEN {} ELSE branch[Parent(tree, c)]
    IN branch[b]

Supporters(b) == {v \in DOMAIN vote : b \in Branch(vote[v])}
Score(b) == SumFunctionOnSet(VoteWeight, Supporters(b))

\* GHOST: from the root, always on to the child with the highest score, until
\* no child has any votes.
Best(S) == CHOOSE b \in S : \A c \in S :
               Score(b) > Score(c) \/ (Score(b) = Score(c) /\ HashRank(b) >= HashRank(c))
Children(b) == {c \in DOMAIN tree : Parent(tree, c) = b /\ Supporters(c) # {}}
Ghost ==
    LET walk[b \in DOMAIN tree] ==
            IF Children(b) = {} THEN b ELSE walk[Best(Children(b))]
    IN IF Children(None) = {} THEN None ELSE walk[Best(Children(None))]

-----------------------------------------------------------------------------
(* Properties.                                                             *)

VotesTypeOK ==
    /\ DOMAIN tree \subseteq BlockHashes
    /\ DOMAIN vote \subseteq Voters
    /\ Range(vote) \subseteq DOMAIN tree

VotesChoice == ForkChoice(tree, vote, VoteWeight)

\* The skip lists lead to the same ancestors as the parents, at every height.
SkipListsFollowParents ==
    \A b \in DOMAIN tree, h \in 0 .. Cardinality(DOMAIN tree) :
        LET a == FindAncestorProposal(tree, b, h) IN
        IF h > tree[b].height THEN a = None
        ELSE a \in Branch(b) /\ tree[a].height = h

\* The fork choice that the tallies compute from the highest votes downwards,
\* deciding several levels at a time and following skip lists, is the one its
\* documentation describes level by level and along the parents
\* (State::fork_choice, Tallies::find_decided, State::find_ancestor_proposal).
ForkChoiceIsGhost == VotesTypeOK /\ SkipListsFollowParents /\ VotesChoice = Ghost

\* A validator that joins the fork choice never changes it, whatever it voted
\* for before: a unit that votes for the fork choice of a panorama keeps that
\* block the fork choice (Unit::new, State::fork_choice).
JoiningKeepsTheChoice ==
    VotesChoice # None =>
        \A v \in Voters :
            LET joined == [w \in DOMAIN vote \cup {v} |->
                              IF w = v THEN VotesChoice ELSE vote[w]]
            IN ForkChoice(tree, joined, VoteWeight) = VotesChoice
=============================================================================
