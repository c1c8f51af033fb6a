SPECIFICATION VotesSpec
CONSTANTS
    HashRank <- MCHashRank
    None = None
    BlockHashes <- MCBlockHashes
    Voters <- MCVoters
    VoteWeight <- MCVoteWeight
INVARIANTS
    ForkChoiceIsGhost
    JoiningKeepsTheChoice
