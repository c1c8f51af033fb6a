----------------------------- MODULE BlockTree -----------------------------
(***************************************************************************)
(* The tree of proposed blocks of a Highway instance and the GHOST fork    *)
(* choice on it (node/src/components/consensus/highway_core/state.rs,      *)
(* state/block.rs and state/tallies.rs).  A block tree is a function from  *)
(* block hashes to records with the block's height and its skip list.      *)
(*                                                                         *)
(* A tally maps blocks to the weight that votes for them; the Tallies of   *)
(* the code, which group the votes by height, are one such map, of which   *)
(* Level selects the tally at a height.                                    *)
(***************************************************************************)
EXTENDS Naturals, Sequences, FiniteSets, FiniteSetsExt, Functions

CONSTANTS
    HashRank(_),  \* the order on hashes, used to break ties
    None          \* Option::None

\* 1 << n
Pow2[n \in Nat] == IF n = 0 THEN 1 ELSE 2 * Pow2[n - 1]

\* state::log2: the greatest i with 2^i <= x.
Log2(x) == CHOOSE i \in 0 .. x : Pow2[i] <= x /\ Pow2[i + 1] > x

TrailingZeros(x) == CHOOSE i \in 0 .. x : x % Pow2[i] = 0 /\ x % Pow2[i + 1] # 0

\* The skip list of an entry with the given index (height or sequence number)
\* whose predecessor is prev: entry i + 1 points to the entry at index - 2^i.
\* It is built from the skip lists of the older entries, as in Block::new and
\* Unit::new.
SkipList(lists, prev, index) ==
    LET entry[i \in 0 .. TrailingZeros(index)] ==
            IF i = 0 THEN prev ELSE lists[entry[i - 1]][i]
    IN [i \in 1 .. TrailingZeros(index) + 1 |-> entry[i - 1]]

\* The entry at the given index on the way back from h, along the skip lists:
\* find_ancestor_proposal and find_in_swimlane.
Back(lists, index, h, target) ==
    LET find[x \in DOMAIN lists] ==
            IF index[x] < target THEN None
            ELSE IF index[x] = target THEN x
            ELSE find[lists[x][Min({Log2(index[x] - target) + 1, Len(lists[x])})]]
    IN find[h]

-----------------------------------------------------------------------------
(* Blocks.                                                                 *)

Height(tree, b) == tree[b].height
Parent(tree, b) == IF tree[b].skip = <<>> THEN None ELSE tree[b].skip[1]

\* Block::new: the block to be stored for a proposal on top of parent.
NewBlock(tree, parent) ==
    IF parent = None THEN [height |-> 0, skip |-> <<>>]
    ELSE LET height == tree[parent].height + 1 IN
         [height |-> height,
          skip |-> SkipList([b \in DOMAIN tree |-> tree[b].skip], parent, height)]

\* State::find_ancestor_proposal
FindAncestorProposal(tree, b, height) ==
    Back([x \in DOMAIN tree |-> tree[x].skip], [x \in DOMAIN tree |-> tree[x].height],
         b, height)

-----------------------------------------------------------------------------
(* Tallies.                                                                *)

Total(tally) == SumFunction(tally)

\* Tally::max: the block with the most votes, the highest hash in a tie.
\* (Mutant: the comparison of the weights is swapped.)
MaxBlockMutant(tally) ==
    CHOOSE b \in DOMAIN tally : \A c \in DOMAIN tally :
        \/ tally[b] < tally[c]
        \/ tally[b] = tally[c] /\ HashRank(b) >= HashRank(c)
MaxBlock(tally) ==
    CHOOSE b \in DOMAIN tally : \A c \in DOMAIN tally :
        \/ tally[b] > tally[c]
        \/ tally[b] = tally[c] /\ HashRank(b) >= HashRank(c)

Level(tree, tally, height) ==
    Restrict(tally, {b \in DOMAIN tally : tree[b].height = height})

\* Tally::parents followed by Tally::extend with the votes one level lower.
ParentsWith(tree, tally, lower) ==
    [b \in {Parent(tree, c) : c \in DOMAIN tally} \cup DOMAIN lower |->
        SumFunctionOnSet(tally, {c \in DOMAIN tally : Parent(tree, c) = b})
        + IF b \in DOMAIN lower THEN lower[b] ELSE 0]

\* Tally::filter_descendants
Descendants(tree, tally, height, b) ==
    Restrict(tally, {c \in DOMAIN tally : FindAncestorProposal(tree, c, height) = b})

\* Tallies::find_decided: a block that is an ancestor of the fork choice and not
\* of every vote.  (Mutant: half of the votes are enough for a decision.)
MajorityMutant(weight, total) == 2 * weight >= total
Majority(weight, total) == weight > total \div 2

\* The tallies at all heights up to the highest vote, in which a vote for a block
\* counts as a vote for its ancestors too.
CumulativeTo(tree, tally, top) ==
    LET above[h \in 0 .. top] ==
            IF h = top THEN Level(tree, tally, h)
            ELSE ParentsWith(tree, above[h + 1], Level(tree, tally, h))
    IN above
Cumulative(tree, tally) ==
    CumulativeTo(tree, tally, Max({tree[b].height : b \in DOMAIN tally}))

MaxOr(tally, b) == IF DOMAIN tally = {} THEN b ELSE MaxBlock(tally)

\* The decision at a height where b has the majority.
DecideChild(tree, above, h, b) == MaxOr(Descendants(tree, above[h + 1], h, b), b)

\* The decision at the highest of the given heights, or else at height 0.
DecideAt(tree, above, heights) ==
    IF heights = {} THEN MaxBlock(above[0])
    ELSE DecideChild(tree, above, Max(heights), MaxBlock(above[Max(heights)]))

Decide(tree, above, total) ==
    DecideAt(tree, above,
             {h \in DOMAIN above : h + 1 \in DOMAIN above
                                   /\ Majority(Max(Range(above[h])), total)})

FindDecided(tree, tally) == Decide(tree, Cumulative(tree, tally), Total(tally))

\* Tallies::filter_descendants: the votes for blocks above b; all votes at first.
Higher(tree, tally, b) ==
    IF b = None THEN tally
    ELSE Descendants(tree,
                     Restrict(tally, {c \in DOMAIN tally : tree[c].height > tree[b].height}),
                     tree[b].height, b)

\* The votes of a panorama: vote maps the correct validators to their blocks.
Tallies(vote, weight) ==
    [b \in Range(vote) |->
        SumFunctionOnSet(weight, {v \in DOMAIN vote : vote[v] = b})]

\* One turn of the loop of State::fork_choice, with the votes left above b.
DecideNext(tree, choose, left, b) ==
    IF DOMAIN left = {} THEN b ELSE choose[FindDecided(tree, left)]
DecideAll(tree, tally) ==
    LET choose[b \in DOMAIN tree \cup {None}] ==
            DecideNext(tree, choose, Higher(tree, tally, b), b)
    IN choose[None]

\* State::fork_choice: repeat with the votes above the decided block until there
\* are none left.
ForkChoice(tree, vote, weight) == DecideAll(tree, Tallies(vote, weight))
=============================================================================
