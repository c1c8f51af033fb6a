----------------------------- MODULE LinearChain -----------------------------
(***************************************************************************)
(* The linear chain component: it stores executed blocks, collects the     *)
(* finality signatures that arrive before and after their block, and stops *)
(* the node for an upgrade once the last block before it is fully signed   *)
(* (node/src/components/linear_chain.rs, linear_chain/state.rs,            *)
(* pending_signatures.rs, signature_cache.rs and utils.rs).                *)
(*                                                                         *)
(* A block is its height in the chain.  A finality signature is a record   *)
(* with the signer's key, the block and the era that the signer claims.    *)
(* Proofs (BlockSignatures) are a function from keys to the era that was   *)
(* signed.  Every effect of a handler is a record in `effects` until its   *)
(* answer is handled: they run as tasks of their own and finish in any     *)
(* order.                                                                  *)
(***************************************************************************)
EXTENDS Naturals, Sequences, FiniteSets, Functions

CONSTANTS
    Keys,              \* public keys
    OwnKey,            \* the key of this node
    EraOf,             \* the era of every block
    SwitchBlocks,      \* the blocks that end an era
    ValidatorWeights,  \* for every era, the weights of its validators
    AuctionDelay, UnbondingDelay,
    FaultTolerance,    \* <<numerator, denominator>> of finality_threshold_fraction
    MaxPending,        \* MAX_PENDING_FINALITY_SIGNATURES_PER_VALIDATOR
    FirstActivation,   \* the activation point that is known at the start, or None
    ActivationPoints,  \* eras at which an upgrade may be announced
    SignedBlocks,      \* bound: the blocks that peers send signatures for
    ClaimedEras(_),    \* bound: the eras that they claim for a block
    MaxRestarts,       \* bound: how often the node restarts
    None

Blocks == DOMAIN EraOf
Eras == DOMAIN ValidatorWeights

ASSUME LinearChainAssumption ==
    /\ EraOf \in Seq(Nat)
    /\ SwitchBlocks \subseteq Blocks
    /\ MaxPending \in Nat \ {0}
    /\ MaxRestarts \in Nat

\* What peers sign, and the blocks consensus signs, are in the model.
ASSUME SignerAssumption ==
    /\ OwnKey \in Keys
    /\ SignedBlocks \subseteq Blocks
    /\ \A b \in SignedBlocks : ClaimedEras(b) \subseteq Nat

\* Weights are natural numbers: more signers have no smaller weight together.
ASSUME WeightAssumption ==
    /\ FaultTolerance[1] \in Nat /\ FaultTolerance[2] \in Nat \ {0}
    /\ \A b \in Blocks : EraOf[b] \in Eras
    /\ \A era \in Eras : LET weights == ValidatorWeights[era] IN
           \A S \in SUBSET DOMAIN weights :
               /\ SumFunctionOnSet(weights, S) \in Nat
               /\ \A T \in SUBSET S :
                      SumFunctionOnSet(weights, T) <= SumFunctionOnSet(weights, S)

VARIABLES
    latestBlock,       \* the most recently added block
    keyBlockInfo,      \* the eras whose key block is known
    pending,           \* pending_finality_signatures, by <<key, block>>
    cache,             \* signature_cache
    nextUpgrade,       \* next_upgrade_activation_point
    stopForUpgrade,
    executed,          \* how many blocks the contract runtime has announced
    storedBlocks,      \* the blocks in storage
    storedSignatures,  \* the block signatures in storage
    effects,           \* effects whose answers are not handled yet
    announced,         \* signatures that were announced to the other components
    gossiped,          \* signatures that were sent to the peers
    restarts

vars == <<latestBlock, keyBlockInfo, pending, cache, nextUpgrade, stopForUpgrade, executed,
          storedBlocks, storedSignatures, effects, announced, gossiped, restarts>>

NoProofs == [k \in {} |-> 0]
EmptyCache == [era |-> 0, signatures |-> [b \in {} |-> NoProofs]]

\* LinearChain::new on an empty storage.
Init ==
    /\ latestBlock = None
    /\ keyBlockInfo = {}
    /\ pending = [p \in {} |-> None]
    /\ cache = EmptyCache
    /\ nextUpgrade = FirstActivation
    /\ stopForUpgrade = FALSE
    /\ executed = 0
    /\ storedBlocks = {}
    /\ storedSignatures = [b \in Blocks |-> NoProofs]
    /\ effects = {}
    /\ announced = {}
    /\ gossiped = {}
    /\ restarts = 0

-----------------------------------------------------------------------------
(* Signatures.                                                             *)

\* The entries of f and of g; those of f take precedence.
Merged(f, g) == [x \in DOMAIN f \cup DOMAIN g |-> IF x \in DOMAIN f THEN f[x] ELSE g[x]]

\* SignatureCache::get
Cached(c, b) == IF b \in DOMAIN c.signatures THEN c.signatures[b] ELSE None

\* SignatureCache::insert: a later era clears the cache.
CacheInsert(c, b, proofs) ==
    LET kept == IF c.era < EraOf[b] THEN [x \in {} |-> NoProofs] ELSE c.signatures
        known == IF b \in DOMAIN kept THEN kept[b] ELSE NoProofs
    IN [era |-> IF c.era < EraOf[b] THEN EraOf[b] ELSE c.era,
        signatures |-> Merged([x \in {b} |-> Merged(proofs, known)], kept)]

\* LinearChain::cache_signatures
CacheSignatures(c, b, proofs) ==
    CacheInsert(c, b, IF Cached(c, b) = None THEN proofs ELSE Merged(Cached(c, b), proofs))

\* SignatureCache::known_signature
KnownSignature(c, k, b) == Cached(c, b) # None /\ k \in DOMAIN Cached(c, b)

SignaturesOf(k) == {p \in DOMAIN pending : p[1] = k}

\* PendingSignatures::remove
WithoutPending(pend, fs) == Restrict(pend, DOMAIN pend \ {<<fs.key, fs.block>>})

\* LinearChain::lowest_acceptable_era_id and highest_acceptable_era_id
LowestAcceptableEra(era) ==
    IF era + AuctionDelay < UnbondingDelay THEN 0 ELSE era + AuctionDelay - UnbondingDelay
HighestAcceptableEra(era) == era + AuctionDelay

\* BlockHeader::next_block_era_id
NextBlockEra(b) == IF b \in SwitchBlocks THEN EraOf[b] + 1 ELSE EraOf[b]

\* LinearChain::add_pending_finality_signature accepts the signature.  (Mutant: a
\* pending signature is accepted again.)
IsAcceptableMutant(fs) ==
    /\ ~ KnownSignature(cache, fs.key, fs.block)
    /\ Cardinality(SignaturesOf(fs.key)) < MaxPending
IsAcceptable(fs) ==
    /\ latestBlock # None =>
           fs.era \in LowestAcceptableEra(NextBlockEra(latestBlock))
                      .. HighestAcceptableEra(NextBlockEra(latestBlock))
    /\ <<fs.key, fs.block>> \notin DOMAIN pending
    /\ ~ KnownSignature(cache, fs.key, fs.block)
    /\ Cardinality(SignaturesOf(fs.key)) < MaxPending

\* The weight of the validators is above the quorum (fraction + 1) / 2.
Quorum(weights, validators) ==
    SumFunctionOnSet(weights, validators) * 2 * FaultTolerance[2]
        > SumFunction(weights) * (FaultTolerance[1] + FaultTolerance[2])

\* check_sufficient_block_signatures returns Ok or TooManySignatures: all signers
\* are validators, and there are enough of them.
Sufficient(weights, signers) ==
    signers \subseteq DOMAIN weights /\ Quorum(weights, signers)

\* LinearChain::should_upgrade.  (Mutant: any signature is enough.)
ShouldUpgradeMutant(keyBlocks, b, proofs) ==
    /\ b \in SwitchBlocks
    /\ nextUpgrade = EraOf[b] + 1
ShouldUpgrade(keyBlocks, b, proofs) ==
    /\ b \in SwitchBlocks
    /\ EraOf[b] + 1 \in keyBlocks
    /\ nextUpgrade = EraOf[b] + 1
    /\ EraOf[b] \in keyBlocks
    /\ Sufficient(ValidatorWeights[EraOf[b]], DOMAIN proofs)

-----------------------------------------------------------------------------
(* Handlers.  Parameters stand for state that a caller has changed before. *)

StoreSignaturesEffect(keyBlocks, b, proofs) ==
    [type |-> "StoreBlockSignatures", block |-> b, proofs |-> proofs,
     upgrade |-> ShouldUpgrade(keyBlocks, b, proofs)]

\* handle_is_bonded for a signature of a validator, when the block is known.
AcceptSignature(pend, eff, c, fs, proofs) ==
    /\ cache' = CacheSignatures(c, fs.block, proofs)
    /\ announced' = announced \cup {fs}
    /\ gossiped' = gossiped \cup
           {g \in {fs} : /\ <<fs.key, fs.block>> \in DOMAIN pend
                         /\ pend[<<fs.key, fs.block>>].local}
    /\ pending' = WithoutPending(pend, fs)
    /\ effects' = eff \cup {StoreSignaturesEffect(keyBlockInfo, fs.block, proofs)}

\* LinearChain::handle_is_bonded.  The signatures that were known when the flow
\* started take precedence over the cached ones.  (Mutant: everyone is
\* bonded.)
HandleIsBondedWith(pend, eff, c, known, fs) ==
    IF known = None
    THEN /\ pending' = IF <<fs.key, fs.block>> \in DOMAIN pend
                       THEN [pend EXCEPT ![<<fs.key, fs.block>>].bonded = TRUE] ELSE pend
         /\ cache' = c
         /\ effects' = eff
         /\ UNCHANGED <<announced, gossiped>>
    ELSE AcceptSignature(pend, eff, c, fs, Merged([k \in {fs.key} |-> fs.era], known))

HandleIsBondedMutant(pend, eff, c, known, fs, isBonded) ==
    HandleIsBondedWith(pend, eff, c, IF known = None THEN Cached(c, fs.block) ELSE known, fs)
HandleIsBonded(pend, eff, c, known, fs, isBonded) ==
    IF isBonded
    THEN HandleIsBondedWith(pend, eff, c,
                            IF known = None THEN Cached(c, fs.block) ELSE known, fs)
    ELSE /\ pending' = WithoutPending(pend, fs)
         /\ cache' = c
         /\ effects' = eff
         /\ UNCHANGED <<announced, gossiped>>

\* LinearChain::handle_cached_signatures
HandleCachedSignatures(pend, eff, known, fs) ==
    LET c == IF known = None THEN cache ELSE CacheSignatures(cache, fs.block, known) IN
    IF known # None /\ (EraOf[fs.block] # fs.era \/ fs.key \in DOMAIN known)
    THEN /\ pending' = WithoutPending(pend, fs)
         /\ effects' = eff
         /\ UNCHANGED <<cache, announced, gossiped>>
    ELSE IF fs.era \in keyBlockInfo
    THEN HandleIsBonded(pend, eff, c, known, fs, fs.key \in DOMAIN ValidatorWeights[fs.era])
    ELSE /\ pending' = pend
         /\ cache' = c
         /\ effects' = eff \cup {[type |-> "VerifyIfBonded", fs |-> fs, known |-> known]}
         /\ UNCHANGED <<announced, gossiped>>

chainVars == <<latestBlock, keyBlockInfo, stopForUpgrade, executed, storedBlocks, restarts>>

\* LinearChain::handle_finality_signature for a signature from a peer, or from the
\* consensus component of this node.
HandleFinalitySignature(fs, local) ==
    LET new == [fs |-> fs, local |-> local, bonded |-> FALSE]
        pend == Merged([p \in {<<fs.key, fs.block>>} |-> new], pending)
    IN /\ IsAcceptable(fs)
       /\ IF Cached(cache, fs.block) \in {None, NoProofs}
          THEN /\ pending' = pend
               /\ effects' = effects \cup {[type |-> "LoadSignatures", fs |-> fs]}
               /\ UNCHANGED <<cache, announced, gossiped>>
          ELSE HandleCachedSignatures(pend, effects, Cached(cache, fs.block), fs)
       /\ UNCHANGED <<chainVars, nextUpgrade, storedSignatures>>

\* The storage component reads the signatures of the block.
ReadSignatures(e) ==
    /\ e.type = "LoadSignatures"
    /\ effects' = (effects \ {e}) \cup
           {[type |-> "GetStoredFinalitySignaturesResult", fs |-> e.fs,
             known |-> IF storedSignatures[e.fs.block] = NoProofs THEN None
                       ELSE storedSignatures[e.fs.block]]}
    /\ UNCHANGED <<chainVars, nextUpgrade, storedSignatures, pending, cache, announced, gossiped>>

GetStoredFinalitySignaturesResult(e) ==
    /\ e.type = "GetStoredFinalitySignaturesResult"
    /\ HandleCachedSignatures(pending, effects \ {e}, e.known, e.fs)
    /\ UNCHANGED <<chainVars, nextUpgrade, storedSignatures>>

\* The answer of is_bonded_validator: the era's validators may not be found.
IsBonded(e, found) ==
    /\ e.type = "VerifyIfBonded"
    /\ HandleIsBonded(pending, effects \ {e}, cache, e.known, e.fs,
                      found /\ e.fs.key \in DOMAIN ValidatorWeights[e.fs.era])
    /\ UNCHANGED <<chainVars, nextUpgrade, storedSignatures>>

\* Storage merges the signatures with those it has.  (Mutant: it replaces them.)
PutSignaturesMutant(e) ==
    /\ e.type = "StoreBlockSignatures"
    /\ storedSignatures' = [storedSignatures EXCEPT ![e.block] = e.proofs]
    /\ effects' = (effects \ {e}) \cup {u \in {[type |-> "Upgrade"]} : e.upgrade}
    /\ UNCHANGED <<chainVars, nextUpgrade, pending, cache, announced, gossiped>>
PutSignatures(e) ==
    /\ e.type = "StoreBlockSignatures"
    /\ storedSignatures' = [storedSignatures EXCEPT ![e.block] = Merged(e.proofs, @)]
    /\ effects' = (effects \ {e}) \cup {u \in {[type |-> "Upgrade"]} : e.upgrade}
    /\ UNCHANGED <<chainVars, nextUpgrade, pending, cache, announced, gossiped>>

Upgrade(e) ==
    /\ e.type = "Upgrade"
    /\ stopForUpgrade' = TRUE
    /\ effects' = effects \ {e}
    /\ UNCHANGED <<latestBlock, keyBlockInfo, executed, storedBlocks, restarts, nextUpgrade,
                   storedSignatures, pending, cache, announced, gossiped>>

\* LinearChain::handle_new_block for the next block of the chain.
HandleNewBlock ==
    /\ executed + 1 \in Blocks
    /\ executed' = executed + 1
    /\ effects' = effects \cup {[type |-> "StoreBlock", block |-> executed + 1]}
    /\ UNCHANGED <<latestBlock, keyBlockInfo, stopForUpgrade, storedBlocks, restarts, nextUpgrade,
                   storedSignatures, pending, cache, announced, gossiped>>

PutBlock(e) ==
    /\ e.type = "StoreBlock"
    /\ storedBlocks' = storedBlocks \cup {e.block}
    /\ effects' = (effects \ {e}) \cup {[type |-> "PutBlockResult", block |-> e.block]}
    /\ UNCHANGED <<latestBlock, keyBlockInfo, stopForUpgrade, executed, restarts, nextUpgrade,
                   storedSignatures, pending, cache, announced, gossiped>>

\* PendingSignatures::collect_pending
CollectPending(b) == {p \in DOMAIN pending : p[2] = b /\ pending[p].bonded}

\* The key blocks after a block was added.
KeyBlocksWith(b) ==
    IF b \in SwitchBlocks
    THEN {era \in keyBlockInfo \cup {EraOf[b] + 1} :
              era + 1 # LowestAcceptableEra(EraOf[b] + 1)}
    ELSE keyBlockInfo

\* LinearChain::handle_put_block
HandlePutBlock(e) ==
    LET b == e.block
        new == {p \in CollectPending(b) : ~ KnownSignature(cache, p[1], b)}
        signatures == {pending[p] : p \in new}
        proofs == [k \in {p[1] : p \in new} |-> pending[<<k, b>>].fs.era]
    IN /\ e.type = "PutBlockResult"
       /\ pending' = Restrict(pending, DOMAIN pending \ CollectPending(b))
       /\ cache' = CacheSignatures(cache, b, proofs)
       /\ latestBlock' = b
       /\ keyBlockInfo' = KeyBlocksWith(b)
       /\ announced' = announced \cup {s.fs : s \in signatures}
       /\ gossiped' = gossiped \cup {s.fs : s \in {x \in signatures : x.local}}
       /\ effects' = (effects \ {e}) \cup
              {s \in {StoreSignaturesEffect(KeyBlocksWith(b), b, proofs)} : new # {}}
       /\ UNCHANGED <<stopForUpgrade, executed, storedBlocks, restarts, nextUpgrade, storedSignatures>>

GotUpgradeActivationPoint(era) ==
    /\ nextUpgrade' = era
    /\ UNCHANGED <<chainVars, storedSignatures, pending, cache, effects, announced, gossiped>>

\* The node restarts with what is in storage, and goes on with the next block.
Restart ==
    /\ restarts < MaxRestarts
    /\ restarts' = restarts + 1
    /\ latestBlock' = None
    /\ keyBlockInfo' = {}
    /\ pending' = [p \in {} |-> None]
    /\ cache' = EmptyCache
    /\ stopForUpgrade' = FALSE
    /\ executed' = CHOOSE n \in 0 .. executed :
           1 .. n \subseteq storedBlocks /\ n + 1 \notin storedBlocks
    /\ effects' = {}
    /\ announced' = {}
    /\ gossiped' = {}
    /\ UNCHANGED <<nextUpgrade, storedBlocks, storedSignatures>>

Next ==
    \/ \E k \in Keys, b \in SignedBlocks : \E era \in ClaimedEras(b) :
           HandleFinalitySignature([key |-> k, block |-> b, era |-> era], FALSE)
    \/ \E b \in SignedBlocks :
           /\ latestBlock # None /\ b <= latestBlock
           /\ HandleFinalitySignature([key |-> OwnKey, block |-> b, era |-> EraOf[b]], TRUE)
    \/ \E e \in effects :
           \/ ReadSignatures(e)
           \/ GetStoredFinalitySignaturesResult(e)
           \/ \E found \in BOOLEAN : IsBonded(e, found)
           \/ PutSignatures(e)
           \/ Upgrade(e)
           \/ PutBlock(e)
           \/ HandlePutBlock(e)
    \/ HandleNewBlock
    \/ \E era \in ActivationPoints : GotUpgradeActivationPoint(era)
    \/ Restart

Spec == Init /\ [][Next]_vars

-----------------------------------------------------------------------------
(* Properties.                                                             *)

Proofs == UNION {[S -> Nat] : S \in SUBSET Keys}
Signatures == [key : Keys, block : Blocks, era : Nat]

TypeOK ==
    /\ latestBlock \in Blocks \cup {None}
    /\ keyBlockInfo \subseteq Nat
    /\ \A p \in DOMAIN pending :
           /\ pending[p].fs \in Signatures
           /\ p = <<pending[p].fs.key, pending[p].fs.block>>
    /\ DOMAIN cache.signatures \subseteq storedBlocks
    /\ storedBlocks \subseteq Blocks
    /\ announced \subseteq Signatures
    /\ gossiped \subseteq announced

\* The effects that will decide about the pending signature p.
Flows(p) ==
    {e \in effects :
        /\ e.type \in {"LoadSignatures", "GetStoredFinalitySignaturesResult", "VerifyIfBonded"}
        /\ p = <<e.fs.key, e.fs.block>>}

\* A pending signature that is not known to be from a validator is being checked
\* by exactly one flow, and no flow is left for any other: nothing is removed
\* under a flow's feet, no signature is checked twice and none is forgotten
\* ("a concurrent flow must have already removed it", handle_is_bonded).
OneFlowPerSignature ==
    /\ TypeOK
    /\ \A p \in Keys \X Blocks :
           Cardinality(Flows(p)) =
               IF p \in DOMAIN pending /\ ~ pending[p].bonded THEN 1 ELSE 0

\* The signatures of a block that are in storage or on their way to it.
Persisted(b) ==
    DOMAIN storedSignatures[b] \cup
    UNION {DOMAIN e.proofs : e \in {x \in effects : x.type = "StoreBlockSignatures" /\ x.block = b}}

\* A signature in the cache counts as known and is refused from then on; an
\* announced one is not announced again: all of them are in storage or will be,
\* though flows overwrite each other's view of the known signatures.
NoneIsLost ==
    /\ \A b \in DOMAIN cache.signatures : DOMAIN cache.signatures[b] \subseteq Persisted(b)
    /\ \A fs \in announced : fs.key \in Persisted(fs.block)

\* A signature is stored with a block only if its signer is a validator of the era
\* that the signature claims, in whichever order the block, the signature and the
\* answers about bonding come (handle_is_bonded, new_block).  A signature for the
\* era of the block is thus from one of the block's validators; one that claims
\* another era need not be (see StoredEraMatches).
StoredFromValidators ==
    \A b \in Blocks : \A k \in DOMAIN storedSignatures[b] :
        k \in DOMAIN ValidatorWeights[storedSignatures[b][k]]

\* The node only stops for an upgrade when a key block has signatures of its era's
\* validators above the quorum in storage, for whichever activation point was
\* announced when, and whoever else has a signature there.
UpgradeIsSigned ==
    stopForUpgrade =>
        \E b \in SwitchBlocks : LET weights == ValidatorWeights[EraOf[b]] IN
            /\ EraOf[b] + 1 \in ActivationPoints \cup {FirstActivation}
            /\ Quorum(weights, DOMAIN storedSignatures[b] \cap DOMAIN weights)

\* "Finality signatures to be inserted in a block once it is available": no checked
\* signature waits for a block that was added before it; for such a block, which
\* is in the cache, "any incoming signatures should be accepted".
WaitsForUnknownBlock ==
    \A p \in DOMAIN pending :
        pending[p].bonded =>
            \/ p[2] \notin storedBlocks
            \/ [type |-> "PutBlockResult", block |-> p[2]] \in effects

\* "block was created in a specific era so the IDs have to match": a signature is
\* stored with a block only if it claims the block's era.
StoredEraMatches ==
    \A b \in Blocks : \A k \in DOMAIN storedSignatures[b] : storedSignatures[b][k] = EraOf[b]

\* "When the key block for this era is fully signed, the linear chain component
\* indicates that the node should restart for an upgrade": once all effects are
\* handled, a key block with sufficient signatures has stopped the node.
SignedIsUpgrade ==
    \A b \in SwitchBlocks :
        (/\ effects = {}
         /\ {EraOf[b], EraOf[b] + 1} \subseteq keyBlockInfo
         /\ nextUpgrade = EraOf[b] + 1
         /\ Sufficient(ValidatorWeights[EraOf[b]], DOMAIN storedSignatures[b]))
        => stopForUpgrade
=============================================================================
