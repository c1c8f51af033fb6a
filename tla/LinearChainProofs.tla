-------------------------- MODULE LinearChainProofs --------------------------
(***************************************************************************)
(* Every finality signature is checked by one flow of effects, none that   *)
(* was accepted is lost, and a node that stops for an upgrade has the      *)
(* signatures for it, for any keys, blocks, eras, weights and restarts.    *)
(***************************************************************************)
EXTENDS LinearChain, FiniteSetTheorems, TLAPS

-----------------------------------------------------------------------------
(* The inductive invariant.  Its parts are stated of the values of the     *)
(* variables that a handler passes on to the next one.                     *)

KeyOf(fs) == <<fs.key, fs.block>>

FlowTypes == {"LoadSignatures", "GetStoredFinalitySignaturesResult", "VerifyIfBonded"}
IsFlow(e) == e.type \in FlowTypes

\* The keys whose signatures of block b are in storage or on their way to it.
PersistedIn(stored, eff, b) ==
    DOMAIN stored[b] \cup
    UNION {DOMAIN e.proofs : e \in {x \in eff : x.type = "StoreBlockSignatures" /\ x.block = b}}

\* Every signer is a validator of the era that was signed.
ByValidators(proofs) == \A k \in DOMAIN proofs : k \in DOMAIN ValidatorWeights[proofs[k]]

\* Signatures of a block that count as known: they are from validators, and the
\* block and the signatures are in storage, or the latter will be.
Lasting(stored, blocks, eff, b, proofs) ==
    /\ b \in blocks /\ DOMAIN proofs \subseteq PersistedIn(stored, eff, b)
    /\ ByValidators(proofs)

KnownOK(stored, blocks, eff, b, known) ==
    known # None => Lasting(stored, blocks, eff, b, known)

\* The key block b has enough validators among its signers to upgrade.
Signed(b, signers) ==
    /\ b \in SwitchBlocks
    /\ EraOf[b] + 1 \in ActivationPoints \cup {FirstActivation}
    /\ LET weights == ValidatorWeights[EraOf[b]] IN Quorum(weights, signers \cap DOMAIN weights)

UpgradeOK(stored) == \E b \in SwitchBlocks : Signed(b, DOMAIN stored[b])

\* A signature that waits, with the era it claims; once it is marked, its key is
\* one of that era's validators.
IsPending(p, s) ==
    /\ s \in [fs : Signatures, local : BOOLEAN, bonded : BOOLEAN]
    /\ p = KeyOf(s.fs)
    /\ s.bonded => s.fs.key \in DOMAIN ValidatorWeights[s.fs.era]

PendingOK(pend) ==
    /\ pend = [p \in DOMAIN pend |-> pend[p]]
    /\ \A p \in DOMAIN pend : IsPending(p, pend[p])

EffectOK(stored, blocks, eff, e) ==
    /\ IsFlow(e) => e.fs \in Signatures
    /\ e.type \in {"GetStoredFinalitySignaturesResult", "VerifyIfBonded"} =>
           KnownOK(stored, blocks, eff, e.fs.block, e.known)
    /\ e.type = "StoreBlock" => e.block \in Blocks
    /\ e.type \in {"PutBlockResult", "StoreBlockSignatures"} => e.block \in blocks
    /\ e.type = "StoreBlockSignatures" /\ e.upgrade => Signed(e.block, DOMAIN e.proofs)
    /\ e.type = "Upgrade" => UpgradeOK(stored)

EffectsOK(stored, blocks, eff) == \A e \in eff : EffectOK(stored, blocks, eff, e)

\* The signatures that wait, except for those in `but`, and the flows that check
\* the unmarked ones: one each.
FlowOK(pend, but, e) ==
    /\ KeyOf(e.fs) \in DOMAIN pend /\ KeyOf(e.fs) \notin but
    /\ ~ pend[KeyOf(e.fs)].bonded
    /\ pend[KeyOf(e.fs)].fs = e.fs
FlowsOK(pend, eff, but) ==
    /\ \A e \in eff : IsFlow(e) => FlowOK(pend, but, e)
    /\ \A e, f \in eff : IsFlow(e) /\ IsFlow(f) /\ KeyOf(e.fs) = KeyOf(f.fs) => e = f
    /\ \A p \in DOMAIN pend : p \notin but /\ ~ pend[p].bonded =>
           \E e \in eff : IsFlow(e) /\ KeyOf(e.fs) = p

CacheOK(stored, blocks, eff, c) ==
    \A b \in DOMAIN c.signatures : Lasting(stored, blocks, eff, b, c.signatures[b])

AnnouncedOK(stored, eff, ann) ==
    \A fs \in ann : fs \in Signatures /\ fs.key \in PersistedIn(stored, eff, fs.block)

VotersOK(stored, eff) ==
    /\ \A b \in Blocks : ByValidators(stored[b])
    /\ \A e \in eff : e.type = "StoreBlockSignatures" => ByValidators(e.proofs)

\* What the handlers of signatures leave alone.
ChainOK ==
    /\ latestBlock \in Blocks \cup {None}
    /\ keyBlockInfo \subseteq Nat
    /\ storedBlocks \subseteq Blocks
    /\ nextUpgrade \in ActivationPoints \cup {FirstActivation}
    /\ storedSignatures = [b \in Blocks |-> storedSignatures[b]]
    /\ \A b \in Blocks : storedSignatures[b] # NoProofs => b \in storedBlocks
    /\ stopForUpgrade => UpgradeOK(storedSignatures)

IInv ==
    /\ ChainOK
    /\ PendingOK(pending)
    /\ EffectsOK(storedSignatures, storedBlocks, effects)
    /\ FlowsOK(pending, effects, {})
    /\ CacheOK(storedSignatures, storedBlocks, effects, cache)
    /\ AnnouncedOK(storedSignatures, effects, announced)
    /\ VotersOK(storedSignatures, effects)
    /\ gossiped \subseteq announced
-----------------------------------------------------------------------------
(* Signatures that are known stay known.                                   *)

LEMMA MergedOK ==
    ASSUME NEW f, NEW g
    PROVE  /\ DOMAIN Merged(f, g) = DOMAIN f \cup DOMAIN g
           /\ Merged(f, g) = [x \in DOMAIN Merged(f, g) |-> Merged(f, g)[x]]
           /\ \A x \in DOMAIN f : Merged(f, g)[x] = f[x]
           /\ \A x \in DOMAIN g : x \notin DOMAIN f => Merged(f, g)[x] = g[x]
BY DEF Merged

LEMMA MergedByValidators ==
    ASSUME NEW f, NEW g, ByValidators(f), ByValidators(g)
    PROVE  ByValidators(Merged(f, g))
<1> DEFINE m == Merged(f, g)
<1>1. /\ DOMAIN m = DOMAIN f \cup DOMAIN g
      /\ \A x \in DOMAIN f : m[x] = f[x]
      /\ \A x \in DOMAIN g : x \notin DOMAIN f => m[x] = g[x]
  BY DEF Merged
<1> HIDE DEF m
<1>2. ByValidators(m)
  BY <1>1 DEF ByValidators
<1>3. QED
  BY <1>2 DEF m

\* The signatures on their way to storage are still on their way.
Kept(eff, next) == \A e \in eff : e.type = "StoreBlockSignatures" => e \in next

LEMMA PersistedGrows ==
    ASSUME NEW stored, NEW eff, NEW next, Kept(eff, next), NEW b
    PROVE  PersistedIn(stored, eff, b) \subseteq PersistedIn(stored, next, b)
BY DEF PersistedIn, Kept

LEMMA KnownGrows ==
    ASSUME NEW stored, NEW blocks, NEW eff, NEW next, Kept(eff, next)
    PROVE  /\ \A b, proofs : Lasting(stored, blocks, eff, b, proofs)
                                  => Lasting(stored, blocks, next, b, proofs)
           /\ \A b, known : KnownOK(stored, blocks, eff, b, known)
                                  => KnownOK(stored, blocks, next, b, known)
           /\ \A c : CacheOK(stored, blocks, eff, c) => CacheOK(stored, blocks, next, c)
           /\ \A ann : AnnouncedOK(stored, eff, ann) => AnnouncedOK(stored, next, ann)
           /\ \A e : EffectOK(stored, blocks, eff, e) => EffectOK(stored, blocks, next, e)
<1>1. \A b : PersistedIn(stored, eff, b) \subseteq PersistedIn(stored, next, b)
  BY PersistedGrows
<1>2. \A b, proofs : Lasting(stored, blocks, eff, b, proofs)
                          => Lasting(stored, blocks, next, b, proofs)
  BY <1>1 DEF Lasting
<1>3. \A b, known : KnownOK(stored, blocks, eff, b, known)
                          => KnownOK(stored, blocks, next, b, known)
  BY <1>2 DEF KnownOK
<1>4. \A c : CacheOK(stored, blocks, eff, c) => CacheOK(stored, blocks, next, c)
  BY <1>2 DEF CacheOK
<1>5. \A ann : AnnouncedOK(stored, eff, ann) => AnnouncedOK(stored, next, ann)
  BY <1>1 DEF AnnouncedOK
<1>6. \A e : EffectOK(stored, blocks, eff, e) => EffectOK(stored, blocks, next, e)
  BY <1>3 DEF EffectOK
<1>7. QED
  BY <1>2, <1>3, <1>4, <1>5, <1>6

\* An effect is added, and all are as they should be.
LEMMA EffectsGrow ==
    ASSUME NEW stored, NEW blocks, NEW eff, EffectsOK(stored, blocks, eff),
           NEW e, EffectOK(stored, blocks, eff \cup {e}, e)
    PROVE  EffectsOK(stored, blocks, eff \cup {e})
<1>1. Kept(eff, eff \cup {e})
  BY DEF Kept
<1>2. \A x \in eff : EffectOK(stored, blocks, eff \cup {e}, x)
  BY <1>1, KnownGrows DEF EffectsOK
<1>3. QED
  BY <1>2 DEF EffectsOK

\* cache_signatures
LEMMA CacheSignaturesOK ==
    ASSUME NEW stored, NEW blocks, NEW eff, NEW c, CacheOK(stored, blocks, eff, c),
           NEW b, NEW proofs, Lasting(stored, blocks, eff, b, proofs)
    PROVE  CacheOK(stored, blocks, eff, CacheSignatures(c, b, proofs))
<1> DEFINE all == IF Cached(c, b) = None THEN proofs ELSE Merged(Cached(c, b), proofs)
           kept == IF c.era < EraOf[b] THEN [x \in {} |-> NoProofs] ELSE c.signatures
           known == IF b \in DOMAIN kept THEN kept[b] ELSE NoProofs
           entry == Merged(all, known)
           next == Merged([x \in {b} |-> entry], kept)
<1>1. CacheSignatures(c, b, proofs).signatures = next
  BY DEF CacheSignatures, CacheInsert
<1>2. /\ DOMAIN kept \subseteq DOMAIN c.signatures
      /\ \A x \in DOMAIN kept : kept[x] = c.signatures[x]
  <2>1. CASE c.era < EraOf[b]
    BY <2>1
  <2>2. CASE ~ (c.era < EraOf[b])
    BY <2>2
  <2>3. QED
    BY <2>1, <2>2
<1>3. \A x \in DOMAIN kept : Lasting(stored, blocks, eff, x, kept[x])
  <2> HIDE DEF kept
  <2>1. QED
    BY <1>2 DEF CacheOK
<1> HIDE DEF kept
<1>4. Lasting(stored, blocks, eff, b, known)
  <2>1. CASE b \in DOMAIN kept
    BY <1>3, <2>1
  <2>2. CASE b \notin DOMAIN kept
    <3>1. DOMAIN known = {}
      BY <2>2 DEF NoProofs
    <3>2. QED
      BY <3>1 DEF Lasting, ByValidators
  <2>3. QED
    BY <2>1, <2>2
<1> HIDE DEF known
<1>5. Lasting(stored, blocks, eff, b, all)
  <2>1. CASE Cached(c, b) = None
    BY <2>1
  <2>2. CASE Cached(c, b) # None
    <3>1. b \in DOMAIN c.signatures /\ Cached(c, b) = c.signatures[b]
      BY <2>2 DEF Cached
    <3>2. Lasting(stored, blocks, eff, b, Cached(c, b))
      BY <3>1 DEF CacheOK
    <3>3. DOMAIN all = DOMAIN Cached(c, b) \cup DOMAIN proofs
      BY <2>2, MergedOK
    <3>4. ByValidators(all)
      BY <2>2, <3>2, MergedByValidators DEF Lasting
    <3>5. QED
      BY <3>2, <3>3, <3>4 DEF Lasting
  <2>3. QED
    BY <2>1, <2>2
<1> HIDE DEF all
<1>6. Lasting(stored, blocks, eff, b, entry)
  <2>1. DOMAIN entry = DOMAIN all \cup DOMAIN known
    BY MergedOK
  <2>2. ByValidators(entry)
    BY <1>4, <1>5, MergedByValidators DEF Lasting
  <2>3. QED
    BY <1>4, <1>5, <2>1, <2>2 DEF Lasting
<1> HIDE DEF entry
<1>7. /\ DOMAIN next = {b} \cup DOMAIN kept
      /\ next[b] = entry
      /\ \A x \in DOMAIN kept : x # b => next[x] = kept[x]
  <2> DEFINE one == [x \in {b} |-> entry]
  <2>1. DOMAIN one = {b} /\ one[b] = entry
    OBVIOUS
  <2>2. next = Merged(one, kept)
    OBVIOUS
  <2> HIDE DEF one, next
  <2>3. /\ DOMAIN next = DOMAIN one \cup DOMAIN kept
        /\ \A x \in DOMAIN one : next[x] = one[x]
        /\ \A x \in DOMAIN kept : x \notin DOMAIN one => next[x] = kept[x]
    BY <2>2 DEF Merged
  <2>4. QED
    BY <2>1, <2>3
<1> HIDE DEF next
<1>8. \A x \in DOMAIN next : Lasting(stored, blocks, eff, x, next[x])
  BY <1>3, <1>6, <1>7
<1>9. QED
  BY <1>1, <1>8 DEF CacheOK

-----------------------------------------------------------------------------
(* Signatures that wait, and the flows that check them.                    *)

\* A signature that is no longer waiting has no flow.
LEMMA DropOK ==
    ASSUME NEW pend, NEW eff, NEW fs, PendingOK(pend), FlowsOK(pend, eff, {KeyOf(fs)})
    PROVE  /\ PendingOK(WithoutPending(pend, fs))
           /\ FlowsOK(WithoutPending(pend, fs), eff, {})
<1> DEFINE next == WithoutPending(pend, fs)
<1>1. /\ DOMAIN next = DOMAIN pend \ {KeyOf(fs)}
      /\ \A p \in DOMAIN next : next[p] = pend[p]
      /\ next = [p \in DOMAIN next |-> next[p]]
  BY DEF WithoutPending, Restrict, KeyOf
<1> HIDE DEF next
<1>2. PendingOK(next)
  BY <1>1 DEF PendingOK
<1>3. \A e \in eff : IsFlow(e) => FlowOK(next, {}, e)
  BY <1>1 DEF FlowsOK, FlowOK
<1>4. \A p \in DOMAIN next : ~ next[p].bonded => \E e \in eff : IsFlow(e) /\ KeyOf(e.fs) = p
  BY <1>1 DEF FlowsOK
<1>5. FlowsOK(next, eff, {})
  BY <1>3, <1>4 DEF FlowsOK
<1>6. QED
  BY <1>2, <1>5 DEF next

\* A signature of a validator is marked, and its flow ends.
LEMMA MarkOK ==
    ASSUME NEW pend, NEW eff, NEW fs, PendingOK(pend), FlowsOK(pend, eff, {KeyOf(fs)}),
           KeyOf(fs) \in DOMAIN pend, pend[KeyOf(fs)].fs = fs,
           fs.key \in DOMAIN ValidatorWeights[fs.era]
    PROVE  /\ PendingOK([pend EXCEPT ![<<fs.key, fs.block>>].bonded = TRUE])
           /\ FlowsOK([pend EXCEPT ![<<fs.key, fs.block>>].bonded = TRUE], eff, {})
<1> DEFINE k == KeyOf(fs)
           marked == [pend[k] EXCEPT !.bonded = TRUE]
           next == [pend EXCEPT ![k].bonded = TRUE]
<1>1. /\ DOMAIN next = DOMAIN pend /\ next[k] = marked
      /\ \A p \in DOMAIN pend : p # k => next[p] = pend[p]
      /\ next = [p \in DOMAIN next |-> next[p]]
  BY DEF PendingOK
<1>2. IsPending(k, pend[k])
  BY DEF PendingOK
<1>3. marked \in [fs : Signatures, local : BOOLEAN, bonded : BOOLEAN]
      /\ marked.fs = fs /\ marked.bonded = TRUE
  BY <1>2 DEF IsPending
<1> HIDE DEF marked, next
<1>4. IsPending(k, marked)
  BY <1>2, <1>3 DEF IsPending
<1>5. PendingOK(next)
  BY <1>1, <1>4 DEF PendingOK
<1>6. \A e \in eff : IsFlow(e) => FlowOK(next, {}, e)
  BY <1>1 DEF FlowsOK, FlowOK
<1>7. \A p \in DOMAIN next : ~ next[p].bonded => \E e \in eff : IsFlow(e) /\ KeyOf(e.fs) = p
  BY <1>1, <1>3 DEF FlowsOK
<1>8. FlowsOK(next, eff, {})
  BY <1>6, <1>7 DEF FlowsOK
<1>9. [pend EXCEPT ![<<fs.key, fs.block>>].bonded = TRUE] = next
  BY DEF next, KeyOf
<1>10. QED
  BY <1>5, <1>8, <1>9

\* A flow is started for a signature that has none, or any other effect.
LEMMA AddFlow ==
    ASSUME NEW pend, NEW eff, NEW e, IsFlow(e), FlowsOK(pend, eff, {KeyOf(e.fs)}),
           KeyOf(e.fs) \in DOMAIN pend, ~ pend[KeyOf(e.fs)].bonded, pend[KeyOf(e.fs)].fs = e.fs
    PROVE  FlowsOK(pend, eff \cup {e}, {})
<1>1. \A x \in eff \cup {e} : IsFlow(x) => FlowOK(pend, {}, x)
  BY DEF FlowsOK, FlowOK
<1>2. \A x \in eff : IsFlow(x) => KeyOf(x.fs) # KeyOf(e.fs)
  BY DEF FlowsOK, FlowOK
<1>3. \A x, y \in eff \cup {e} : IsFlow(x) /\ IsFlow(y) /\ KeyOf(x.fs) = KeyOf(y.fs) => x = y
  BY <1>2 DEF FlowsOK
<1>4. \A p \in DOMAIN pend : ~ pend[p].bonded => \E x \in eff \cup {e} : IsFlow(x) /\ KeyOf(x.fs) = p
  BY DEF FlowsOK
<1>5. QED
  BY <1>1, <1>3, <1>4 DEF FlowsOK

LEMMA OtherEffect ==
    ASSUME NEW pend, NEW eff, NEW next, FlowsOK(pend, eff, {}),
           \A e : IsFlow(e) => (e \in eff <=> e \in next)
    PROVE  FlowsOK(pend, next, {})
BY DEF FlowsOK
-----------------------------------------------------------------------------
(* The handlers of signatures.                                             *)

\* A handler has the signature fs at hand, which waits and has no flow: the
\* signatures that wait are `pend` and the effects `eff`.
Mid(pend, eff, fs) ==
    /\ ChainOK
    /\ KeyOf(fs) \in DOMAIN pend /\ ~ pend[KeyOf(fs)].bonded /\ pend[KeyOf(fs)].fs = fs
    /\ PendingOK(pend)
    /\ EffectsOK(storedSignatures, storedBlocks, eff)
    /\ FlowsOK(pend, eff, {KeyOf(fs)})
    /\ CacheOK(storedSignatures, storedBlocks, eff, cache)
    /\ AnnouncedOK(storedSignatures, eff, announced)
    /\ VotersOK(storedSignatures, eff)
    /\ gossiped \subseteq announced

Frame == UNCHANGED <<chainVars, nextUpgrade, storedSignatures>>

LEMMA FrameOK ==
    ASSUME ChainOK, Frame
    PROVE  /\ ChainOK'
           /\ storedSignatures' = storedSignatures /\ storedBlocks' = storedBlocks
BY DEF ChainOK, Frame, chainVars, UpgradeOK

\* Signatures that are sent to storage: they are known, and if there are enough of
\* them they may cause the upgrade.
LEMMA StoreOK ==
    ASSUME ChainOK, NEW eff, EffectsOK(storedSignatures, storedBlocks, eff),
           VotersOK(storedSignatures, eff),
           NEW keyBlocks, NEW b \in storedBlocks, NEW proofs, ByValidators(proofs)
    PROVE  LET next == eff \cup {StoreSignaturesEffect(keyBlocks, b, proofs)} IN
           /\ EffectsOK(storedSignatures, storedBlocks, next)
           /\ VotersOK(storedSignatures, next)
           /\ Lasting(storedSignatures, storedBlocks, next, b, proofs)
           /\ Kept(eff, next)
<1> DEFINE e == StoreSignaturesEffect(keyBlocks, b, proofs)
           next == eff \cup {e}
<1>1. /\ e.type = "StoreBlockSignatures" /\ e.block = b /\ e.proofs = proofs
      /\ e.upgrade = ShouldUpgrade(keyBlocks, b, proofs)
  BY DEF StoreSignaturesEffect
<1> HIDE DEF e
<1>2. ~ IsFlow(e)
  BY <1>1 DEF IsFlow, FlowTypes
<1>3. e.upgrade => Signed(b, DOMAIN proofs)
  <2> SUFFICES ASSUME ShouldUpgrade(keyBlocks, b, proofs) PROVE Signed(b, DOMAIN proofs)
    BY <1>1
  <2>1. DOMAIN proofs \cap DOMAIN ValidatorWeights[EraOf[b]] = DOMAIN proofs
    BY DEF ShouldUpgrade, Sufficient
  <2>2. QED
    BY <2>1 DEF ShouldUpgrade, Sufficient, Signed, ChainOK
<1>4. EffectOK(storedSignatures, storedBlocks, next, e)
  BY <1>1, <1>2, <1>3 DEF EffectOK
<1>5. EffectsOK(storedSignatures, storedBlocks, next)
  BY <1>4, EffectsGrow
<1>6. Lasting(storedSignatures, storedBlocks, next, b, proofs)
  BY <1>1 DEF Lasting, PersistedIn
<1>7. Kept(eff, next)
  BY DEF Kept
<1>8. VotersOK(storedSignatures, next)
  BY <1>1 DEF VotersOK
<1>9. QED
  BY <1>5, <1>6, <1>7, <1>8 DEF e

\* handle_is_bonded
LEMMA HandleIsBondedOK ==
    ASSUME NEW pend, NEW eff, NEW fs, Mid(pend, eff, fs), Frame,
           NEW c, CacheOK(storedSignatures, storedBlocks, eff, c),
           NEW known, KnownOK(storedSignatures, storedBlocks, eff, fs.block, known),
           NEW isBonded, isBonded => fs.key \in DOMAIN ValidatorWeights[fs.era],
           HandleIsBonded(pend, eff, c, known, fs, isBonded)
    PROVE  IInv'
<1> DEFINE all == IF known = None THEN Cached(c, fs.block) ELSE known
<1>1. ChainOK' /\ storedSignatures' = storedSignatures /\ storedBlocks' = storedBlocks
  BY FrameOK DEF Mid
<1>2. /\ PendingOK(pend) /\ FlowsOK(pend, eff, {KeyOf(fs)})
      /\ EffectsOK(storedSignatures, storedBlocks, eff)
      /\ AnnouncedOK(storedSignatures, eff, announced) /\ VotersOK(storedSignatures, eff)
      /\ KeyOf(fs) \in DOMAIN pend /\ pend[KeyOf(fs)].fs = fs
      /\ gossiped \subseteq announced
      /\ ChainOK
  BY DEF Mid
<1>3. CASE ~ isBonded
  <2>1. /\ pending' = WithoutPending(pend, fs) /\ cache' = c /\ effects' = eff
        /\ announced' = announced /\ gossiped' = gossiped
    BY <1>3 DEF HandleIsBonded
  <2>2. PendingOK(pending') /\ FlowsOK(pending', effects', {})
    BY <1>2, <2>1, DropOK
  <2>3. QED
    BY <1>1, <1>2, <2>1, <2>2 DEF IInv
<1>4. CASE isBonded /\ all = None
  <2>1. /\ pending' = [pend EXCEPT ![<<fs.key, fs.block>>].bonded = TRUE]
        /\ cache' = c /\ effects' = eff
        /\ announced' = announced /\ gossiped' = gossiped
    BY <1>2, <1>4 DEF HandleIsBonded, HandleIsBondedWith, KeyOf
  <2>2. PendingOK(pending') /\ FlowsOK(pending', effects', {})
    BY <1>2, <1>4, <2>1, MarkOK
  <2>3. QED
    BY <1>1, <1>2, <2>1, <2>2 DEF IInv
<1>5. CASE isBonded /\ all # None
  <2> DEFINE proofs == Merged([k \in {fs.key} |-> fs.era], all)
             b == fs.block
             next == eff \cup {StoreSignaturesEffect(keyBlockInfo, b, proofs)}
  <2>1. /\ cache' = CacheSignatures(c, b, proofs)
        /\ announced' = announced \cup {fs}
        /\ gossiped' \subseteq gossiped \cup {fs}
        /\ pending' = WithoutPending(pend, fs)
        /\ effects' = next
    BY <1>5 DEF HandleIsBonded, HandleIsBondedWith, AcceptSignature
  <2>2. Lasting(storedSignatures, storedBlocks, eff, b, all)
    <3>1. CASE known # None
      BY <3>1 DEF KnownOK
    <3>2. CASE known = None
      <4>1. b \in DOMAIN c.signatures /\ all = c.signatures[b]
        BY <1>5, <3>2 DEF Cached
      <4>2. QED
        BY <4>1 DEF CacheOK
    <3>3. QED
      BY <3>1, <3>2
  <2> HIDE DEF all
  <2>3. DOMAIN proofs = {fs.key} \cup DOMAIN all /\ ByValidators(proofs)
    <3> DEFINE one == [k \in {fs.key} |-> fs.era]
    <3>1. DOMAIN one = {fs.key} /\ ByValidators(one)
      BY <1>5 DEF ByValidators
    <3>2. proofs = Merged(one, all)
      OBVIOUS
    <3> HIDE DEF one, proofs
    <3>3. ByValidators(all)
      BY <2>2 DEF Lasting
    <3>4. ByValidators(proofs)
      BY <3>1, <3>2, <3>3, MergedByValidators
    <3>5. DOMAIN proofs = {fs.key} \cup DOMAIN all
      BY <3>1, <3>2 DEF Merged
    <3>6. QED
      BY <3>4, <3>5
  <2> HIDE DEF proofs
  <2>4. IsPending(KeyOf(fs), pend[KeyOf(fs)])
    BY <1>2 DEF PendingOK
  <2>5. fs \in Signatures
    BY <1>2, <2>4 DEF IsPending
  <2>6. b \in storedBlocks
    BY <2>2 DEF Lasting
  <2>8. /\ EffectsOK(storedSignatures, storedBlocks, next)
        /\ VotersOK(storedSignatures, next)
        /\ Lasting(storedSignatures, storedBlocks, next, b, proofs)
        /\ Kept(eff, next)
    BY <1>2, <2>3, <2>6, StoreOK
  <2>9. CacheOK(storedSignatures, storedBlocks, next, c)
        /\ AnnouncedOK(storedSignatures, next, announced)
    BY <1>2, <2>8, KnownGrows
  <2>10. CacheOK(storedSignatures, storedBlocks, next, cache')
    BY <2>1, <2>8, <2>9, CacheSignaturesOK
  <2>11. AnnouncedOK(storedSignatures, next, announced')
    <3>1. fs.key \in PersistedIn(storedSignatures, next, b)
      BY <2>3, <2>8 DEF Lasting
    <3>2. QED
      BY <2>1, <2>5, <2>9, <3>1 DEF AnnouncedOK
  <2>12. PendingOK(pending') /\ FlowsOK(pending', next, {})
    <3>1. PendingOK(pending') /\ FlowsOK(pending', eff, {})
      BY <1>2, <2>1, DropOK
    <3>2. StoreSignaturesEffect(keyBlockInfo, b, proofs).type = "StoreBlockSignatures"
      BY DEF StoreSignaturesEffect
    <3>3. \A e : IsFlow(e) => (e \in eff <=> e \in next)
      BY <3>2 DEF IsFlow, FlowTypes
    <3>4. QED
      BY <3>1, <3>3, OtherEffect
  <2>13. gossiped' \subseteq announced'
    BY <1>2, <2>1
  <2> HIDE DEF next, b
  <2>14. QED
    BY <1>1, <2>1, <2>8, <2>10, <2>11, <2>12, <2>13 DEF IInv
<1>6. QED
  BY <1>3, <1>4, <1>5

\* An effect that is a flow: it checks the signature that a handler had at hand.
LEMMA FlowStarts ==
    ASSUME NEW pend, NEW eff, NEW e, Mid(pend, eff, e.fs), Frame,
           IsFlow(e),
           e.type # "LoadSignatures" =>
               KnownOK(storedSignatures, storedBlocks, eff, e.fs.block, e.known),
           NEW c, CacheOK(storedSignatures, storedBlocks, eff, c),
           pending' = pend, effects' = eff \cup {e}, cache' = c,
           UNCHANGED <<announced, gossiped>>
    PROVE  IInv'
<1>1. ChainOK' /\ storedSignatures' = storedSignatures /\ storedBlocks' = storedBlocks
  BY FrameOK DEF Mid
<1> DEFINE next == eff \cup {e}
<1>2. /\ PendingOK(pend) /\ FlowsOK(pend, eff, {KeyOf(e.fs)})
      /\ EffectsOK(storedSignatures, storedBlocks, eff)
      /\ AnnouncedOK(storedSignatures, eff, announced) /\ VotersOK(storedSignatures, eff)
      /\ KeyOf(e.fs) \in DOMAIN pend /\ pend[KeyOf(e.fs)].fs = e.fs
      /\ ~ pend[KeyOf(e.fs)].bonded
      /\ gossiped \subseteq announced
  BY DEF Mid
<1>3. e.fs \in Signatures
  <2>1. IsPending(KeyOf(e.fs), pend[KeyOf(e.fs)])
    BY <1>2 DEF PendingOK
  <2>2. QED
    BY <1>2, <2>1 DEF IsPending
<1>4. Kept(eff, next)
  BY DEF Kept
<1>5. EffectOK(storedSignatures, storedBlocks, next, e)
  <2>1. e.type # "LoadSignatures" =>
            KnownOK(storedSignatures, storedBlocks, next, e.fs.block, e.known)
    BY <1>4, KnownGrows
  <2>2. QED
    BY <1>3, <2>1 DEF EffectOK, IsFlow, FlowTypes
<1>6. EffectsOK(storedSignatures, storedBlocks, next)
  BY <1>2, <1>5, EffectsGrow
<1>7. CacheOK(storedSignatures, storedBlocks, next, c)
      /\ AnnouncedOK(storedSignatures, next, announced)
  BY <1>2, <1>4, KnownGrows
<1>8. FlowsOK(pend, next, {})
  BY <1>2, AddFlow
<1>9. VotersOK(storedSignatures, next)
  BY <1>2 DEF VotersOK, IsFlow, FlowTypes
<1> HIDE DEF next
<1>10. QED
  BY <1>1, <1>2, <1>6, <1>7, <1>8, <1>9 DEF IInv, next

\* handle_cached_signatures
LEMMA HandleCachedSignaturesOK ==
    ASSUME NEW pend, NEW eff, NEW fs, Mid(pend, eff, fs), Frame,
           NEW known, KnownOK(storedSignatures, storedBlocks, eff, fs.block, known),
           HandleCachedSignatures(pend, eff, known, fs)
    PROVE  IInv'
<1> DEFINE c == IF known = None THEN cache ELSE CacheSignatures(cache, fs.block, known)
           refused == known # None /\ (EraOf[fs.block] # fs.era \/ fs.key \in DOMAIN known)
<1>1. CacheOK(storedSignatures, storedBlocks, eff, c)
  <2>1. CacheOK(storedSignatures, storedBlocks, eff, cache)
    BY DEF Mid
  <2>2. CASE known = None
    BY <2>1, <2>2
  <2>3. CASE known # None
    BY <2>1, <2>3, CacheSignaturesOK DEF KnownOK
  <2>4. QED
    BY <2>2, <2>3
<1>2. CASE refused
  <2>1. /\ pending' = WithoutPending(pend, fs) /\ effects' = eff
        /\ cache' = cache /\ announced' = announced /\ gossiped' = gossiped
    BY <1>2 DEF HandleCachedSignatures
  <2>2. ChainOK' /\ storedSignatures' = storedSignatures /\ storedBlocks' = storedBlocks
    BY FrameOK DEF Mid
  <2>3. PendingOK(pending') /\ FlowsOK(pending', effects', {})
    BY <2>1, DropOK DEF Mid
  <2>4. QED
    BY <2>1, <2>2, <2>3 DEF Mid, IInv
<1>3. CASE ~ refused /\ fs.era \in keyBlockInfo
  <2> DEFINE isBonded == fs.key \in DOMAIN ValidatorWeights[fs.era]
  <2>1. HandleIsBonded(pend, eff, c, known, fs, isBonded)
    BY <1>3 DEF HandleCachedSignatures
  <2> HIDE DEF c
  <2>2. QED
    BY <1>1, <2>1, HandleIsBondedOK
<1>4. CASE ~ refused /\ fs.era \notin keyBlockInfo
  <2> DEFINE e == [type |-> "VerifyIfBonded", fs |-> fs, known |-> known]
  <2>1. /\ pending' = pend /\ cache' = c /\ effects' = eff \cup {e}
        /\ UNCHANGED <<announced, gossiped>>
    BY <1>4 DEF HandleCachedSignatures
  <2>2. e.fs = fs /\ e.known = known /\ IsFlow(e)
    BY DEF IsFlow, FlowTypes
  <2> HIDE DEF c, e
  <2>3. QED
    BY <1>1, <2>1, <2>2, FlowStarts
<1>5. QED
  BY <1>2, <1>3, <1>4

\* A flow ends: its signature is at hand.
LEMMA TakeFlow ==
    ASSUME IInv, NEW e \in effects, IsFlow(e)
    PROVE  /\ Mid(pending, effects \ {e}, e.fs)
           /\ e.type # "LoadSignatures" =>
                  KnownOK(storedSignatures, storedBlocks, effects \ {e}, e.fs.block, e.known)
<1> DEFINE eff == effects \ {e}
<1>1. Kept(effects, eff)
  BY DEF Kept, IsFlow, FlowTypes
<1>2. FlowOK(pending, {}, e)
  BY DEF IInv, FlowsOK
<1>3. EffectsOK(storedSignatures, storedBlocks, eff)
  <2>1. \A x \in eff : EffectOK(storedSignatures, storedBlocks, eff, x)
    BY <1>1, KnownGrows DEF IInv, EffectsOK
  <2>2. QED
    BY <2>1 DEF EffectsOK
<1>4. CacheOK(storedSignatures, storedBlocks, eff, cache)
      /\ AnnouncedOK(storedSignatures, eff, announced)
  BY <1>1, KnownGrows DEF IInv
<1>5. VotersOK(storedSignatures, eff)
  BY DEF IInv, VotersOK
<1>6. FlowsOK(pending, eff, {KeyOf(e.fs)})
  <2>1. \A x \in eff : IsFlow(x) => FlowOK(pending, {KeyOf(e.fs)}, x)
    BY DEF IInv, FlowsOK, FlowOK
  <2>2. \A p \in DOMAIN pending : p \notin {KeyOf(e.fs)} /\ ~ pending[p].bonded =>
            \E x \in eff : IsFlow(x) /\ KeyOf(x.fs) = p
    BY DEF IInv, FlowsOK
  <2>3. \A x, y \in eff : IsFlow(x) /\ IsFlow(y) /\ KeyOf(x.fs) = KeyOf(y.fs) => x = y
    BY DEF IInv, FlowsOK
  <2>4. QED
    BY <2>1, <2>2, <2>3 DEF FlowsOK
<1>7. e.type # "LoadSignatures" =>
          KnownOK(storedSignatures, storedBlocks, eff, e.fs.block, e.known)
  <2>1. EffectOK(storedSignatures, storedBlocks, effects, e)
    BY DEF IInv, EffectsOK
  <2>2. e.type # "LoadSignatures" =>
            KnownOK(storedSignatures, storedBlocks, effects, e.fs.block, e.known)
    BY <2>1 DEF EffectOK, IsFlow, FlowTypes
  <2>3. QED
    BY <1>1, <2>2, KnownGrows
<1> HIDE DEF eff
<1>8. Mid(pending, eff, e.fs)
  BY <1>2, <1>3, <1>4, <1>5, <1>6 DEF IInv, Mid, FlowOK
<1>9. QED
  BY <1>7, <1>8 DEF eff

LEMMA ReadSignaturesOK ==
    ASSUME IInv, NEW e \in effects, ReadSignatures(e)
    PROVE  IInv'
<1> DEFINE b == e.fs.block
           known == IF storedSignatures[b] = NoProofs THEN None ELSE storedSignatures[b]
           f == [type |-> "GetStoredFinalitySignaturesResult", fs |-> e.fs, known |-> known]
           eff == effects \ {e}
<1>1. /\ e.type = "LoadSignatures" /\ effects' = eff \cup {f}
      /\ pending' = pending /\ cache' = cache /\ UNCHANGED <<announced, gossiped>>
      /\ Frame
  BY DEF ReadSignatures, Frame
<1>2. IsFlow(e) /\ IsFlow(f) /\ f.fs = e.fs /\ f.known = known
  BY <1>1 DEF IsFlow, FlowTypes
<1>3. Mid(pending, eff, e.fs)
  BY <1>2, TakeFlow
<1>4. KnownOK(storedSignatures, storedBlocks, eff, b, known)
  <2>1. SUFFICES ASSUME known # None
                 PROVE  /\ b \in storedBlocks /\ DOMAIN known \subseteq PersistedIn(storedSignatures, eff, b)
                        /\ ByValidators(known)
    BY DEF KnownOK, Lasting
  <2>2. known = storedSignatures[b] /\ storedSignatures[b] # NoProofs
    BY <2>1
  <2>3. DOMAIN known \subseteq PersistedIn(storedSignatures, eff, b)
    BY <2>2 DEF PersistedIn
  <2>4. b \in Blocks
    BY <1>2 DEF IInv, EffectsOK, EffectOK, Signatures
  <2>5. b \in storedBlocks /\ ByValidators(known)
    BY <2>2, <2>4 DEF IInv, ChainOK, VotersOK
  <2>6. QED
    BY <2>3, <2>5
<1>5. CacheOK(storedSignatures, storedBlocks, eff, cache)
  BY <1>3 DEF Mid
<1> HIDE DEF f, eff, known
<1>6. QED
  BY <1>1, <1>2, <1>3, <1>4, <1>5, FlowStarts

LEMMA GetStoredOK ==
    ASSUME IInv, NEW e \in effects, GetStoredFinalitySignaturesResult(e)
    PROVE  IInv'
<1>1. /\ e.type = "GetStoredFinalitySignaturesResult" /\ Frame
      /\ HandleCachedSignatures(pending, effects \ {e}, e.known, e.fs)
  BY DEF GetStoredFinalitySignaturesResult, Frame
<1>2. IsFlow(e) /\ e.type # "LoadSignatures"
  BY <1>1 DEF IsFlow, FlowTypes
<1>3. /\ Mid(pending, effects \ {e}, e.fs)
      /\ KnownOK(storedSignatures, storedBlocks, effects \ {e}, e.fs.block, e.known)
  BY <1>2, TakeFlow
<1>4. QED
  BY <1>1, <1>3, HandleCachedSignaturesOK

LEMMA IsBondedOK ==
    ASSUME IInv, NEW e \in effects, NEW found \in BOOLEAN, IsBonded(e, found)
    PROVE  IInv'
<1> DEFINE isBonded == found /\ e.fs.key \in DOMAIN ValidatorWeights[e.fs.era]
<1>1. /\ e.type = "VerifyIfBonded" /\ Frame
      /\ HandleIsBonded(pending, effects \ {e}, cache, e.known, e.fs, isBonded)
  BY DEF IsBonded, Frame
<1>2. IsFlow(e) /\ e.type # "LoadSignatures"
  BY <1>1 DEF IsFlow, FlowTypes
<1>3. /\ Mid(pending, effects \ {e}, e.fs)
      /\ KnownOK(storedSignatures, storedBlocks, effects \ {e}, e.fs.block, e.known)
  BY <1>2, TakeFlow
<1>4. CacheOK(storedSignatures, storedBlocks, effects \ {e}, cache)
  BY <1>3 DEF Mid
<1>5. isBonded => e.fs.key \in DOMAIN ValidatorWeights[e.fs.era]
  OBVIOUS
<1> HIDE DEF isBonded
<1>6. QED
  BY <1>1, <1>3, <1>4, <1>5, HandleIsBondedOK

\* handle_finality_signature
LEMMA HandleFinalitySignatureOK ==
    ASSUME IInv, NEW fs \in Signatures, NEW local \in BOOLEAN, HandleFinalitySignature(fs, local)
    PROVE  IInv'
<1> DEFINE k == KeyOf(fs)
           new == [fs |-> fs, local |-> local, bonded |-> FALSE]
           one == [p \in {k} |-> new]
           pend == Merged(one, pending)
<1>1. /\ k \notin DOMAIN pending /\ Frame
      /\ IF Cached(cache, fs.block) \in {None, NoProofs}
         THEN /\ pending' = pend
              /\ effects' = effects \cup {[type |-> "LoadSignatures", fs |-> fs]}
              /\ UNCHANGED <<cache, announced, gossiped>>
         ELSE HandleCachedSignatures(pend, effects, Cached(cache, fs.block), fs)
  BY DEF HandleFinalitySignature, IsAcceptable, Frame, KeyOf
<1>2. DOMAIN one = {k} /\ one[k] = new
  OBVIOUS
<1> HIDE DEF one
<1>3. /\ DOMAIN pend = {k} \cup DOMAIN pending
      /\ pend = [p \in DOMAIN pend |-> pend[p]]
      /\ pend[k] = new
      /\ \A p \in DOMAIN pending : p # k /\ pend[p] = pending[p]
  BY <1>1, <1>2 DEF Merged
<1> HIDE DEF pend
<1>4. new.fs = fs /\ ~ new.bonded /\ IsPending(k, new)
  BY DEF IsPending
<1> HIDE DEF new
<1>5. PendingOK(pend)
  BY <1>3, <1>4 DEF IInv, PendingOK
<1>6. FlowsOK(pend, effects, {k})
  <2>1. \A e \in effects : IsFlow(e) => FlowOK(pend, {k}, e)
    BY <1>1, <1>3 DEF IInv, FlowsOK, FlowOK
  <2>2. \A p \in DOMAIN pend : p \notin {k} /\ ~ pend[p].bonded =>
            \E e \in effects : IsFlow(e) /\ KeyOf(e.fs) = p
    BY <1>3 DEF IInv, FlowsOK
  <2>3. QED
    BY <2>1, <2>2 DEF IInv, FlowsOK
<1>7. Mid(pend, effects, fs)
  BY <1>3, <1>4, <1>5, <1>6 DEF IInv, Mid
<1>8. CASE Cached(cache, fs.block) \in {None, NoProofs}
  <2> DEFINE e == [type |-> "LoadSignatures", fs |-> fs]
  <2>1. /\ pending' = pend /\ effects' = effects \cup {e} /\ cache' = cache
        /\ UNCHANGED <<announced, gossiped>>
    BY <1>1, <1>8
  <2>2. IsFlow(e) /\ e.fs = fs /\ e.type = "LoadSignatures"
    BY DEF IsFlow, FlowTypes
  <2>3. CacheOK(storedSignatures, storedBlocks, effects, cache)
    BY DEF IInv
  <2> HIDE DEF e
  <2>4. QED
    BY <1>1, <1>7, <2>1, <2>2, <2>3, FlowStarts
<1>9. CASE Cached(cache, fs.block) \notin {None, NoProofs}
  <2>1. KnownOK(storedSignatures, storedBlocks, effects, fs.block, Cached(cache, fs.block))
    BY DEF IInv, CacheOK, KnownOK, Cached
  <2>2. QED
    BY <1>1, <1>7, <1>9, <2>1, HandleCachedSignaturesOK
<1>10. QED
  BY <1>8, <1>9
-----------------------------------------------------------------------------
(* The other handlers.                                                     *)

\* Effects come and go that are neither flows nor carry signatures, and blocks
\* are stored.
LEMMA EffectsChange ==
    ASSUME IInv, NEW blocks, storedBlocks \subseteq blocks, NEW next,
           \A e : IsFlow(e) \/ e.type = "StoreBlockSignatures" => (e \in effects <=> e \in next),
           \A e \in next : e \notin effects => EffectOK(storedSignatures, blocks, next, e)
    PROVE  /\ EffectsOK(storedSignatures, blocks, next)
           /\ FlowsOK(pending, next, {})
           /\ CacheOK(storedSignatures, blocks, next, cache)
           /\ AnnouncedOK(storedSignatures, next, announced)
           /\ VotersOK(storedSignatures, next)
<1>1. \A b : PersistedIn(storedSignatures, next, b) = PersistedIn(storedSignatures, effects, b)
  BY DEF PersistedIn
<1>2. \A b, proofs : Lasting(storedSignatures, storedBlocks, effects, b, proofs)
                          => Lasting(storedSignatures, blocks, next, b, proofs)
  BY <1>1 DEF Lasting
<1>3. \A b, known : KnownOK(storedSignatures, storedBlocks, effects, b, known)
                          => KnownOK(storedSignatures, blocks, next, b, known)
  BY <1>2 DEF KnownOK
<1>4. \A e : EffectOK(storedSignatures, storedBlocks, effects, e)
                 => EffectOK(storedSignatures, blocks, next, e)
  BY <1>3 DEF EffectOK
<1>5. EffectsOK(storedSignatures, blocks, next)
  BY <1>4 DEF IInv, EffectsOK
<1>6. FlowsOK(pending, next, {})
  BY OtherEffect DEF IInv
<1>7. CacheOK(storedSignatures, blocks, next, cache)
  BY <1>2 DEF IInv, CacheOK
<1>8. AnnouncedOK(storedSignatures, next, announced)
  BY <1>1 DEF IInv, AnnouncedOK
<1>9. VotersOK(storedSignatures, next)
  BY DEF IInv, VotersOK
<1>10. QED
  BY <1>5, <1>6, <1>7, <1>8, <1>9

LEMMA UpgradeStepOK ==
    ASSUME IInv, NEW e \in effects, Upgrade(e)
    PROVE  IInv'
<1> DEFINE next == effects \ {e}
<1>1. /\ e.type = "Upgrade" /\ stopForUpgrade' = TRUE /\ effects' = next
      /\ UNCHANGED <<latestBlock, keyBlockInfo, executed, storedBlocks, restarts, nextUpgrade,
                     storedSignatures, pending, cache, announced, gossiped>>
  BY DEF Upgrade
<1>2. \A x : IsFlow(x) \/ x.type = "StoreBlockSignatures" => (x \in effects <=> x \in next)
  BY <1>1 DEF IsFlow, FlowTypes
<1>3. /\ EffectsOK(storedSignatures, storedBlocks, next)
      /\ FlowsOK(pending, next, {})
      /\ CacheOK(storedSignatures, storedBlocks, next, cache)
      /\ AnnouncedOK(storedSignatures, next, announced)
      /\ VotersOK(storedSignatures, next)
  BY <1>2, EffectsChange
<1>4. UpgradeOK(storedSignatures)
  BY <1>1 DEF IInv, EffectsOK, EffectOK
<1> HIDE DEF next
<1>5. ChainOK'
  BY <1>1, <1>4 DEF IInv, ChainOK
<1>6. QED
  BY <1>1, <1>3, <1>5 DEF IInv

LEMMA HandleNewBlockOK ==
    ASSUME IInv, HandleNewBlock
    PROVE  IInv'
<1> DEFINE e == [type |-> "StoreBlock", block |-> executed + 1]
           next == effects \cup {e}
<1>1. /\ executed + 1 \in Blocks /\ effects' = next
      /\ UNCHANGED <<latestBlock, keyBlockInfo, stopForUpgrade, storedBlocks, restarts, nextUpgrade,
                     storedSignatures, pending, cache, announced, gossiped>>
  BY DEF HandleNewBlock
<1>2. e.type = "StoreBlock" /\ e.block = executed + 1
  OBVIOUS
<1> HIDE DEF e
<1>3. \A x : IsFlow(x) \/ x.type = "StoreBlockSignatures" => (x \in effects <=> x \in next)
  BY <1>2 DEF IsFlow, FlowTypes
<1>4. EffectOK(storedSignatures, storedBlocks, next, e)
  BY <1>1, <1>2 DEF EffectOK, IsFlow, FlowTypes
<1>5. /\ EffectsOK(storedSignatures, storedBlocks, next)
      /\ FlowsOK(pending, next, {})
      /\ CacheOK(storedSignatures, storedBlocks, next, cache)
      /\ AnnouncedOK(storedSignatures, next, announced)
      /\ VotersOK(storedSignatures, next)
  BY <1>3, <1>4, EffectsChange
<1> HIDE DEF next
<1>6. ChainOK'
  BY <1>1 DEF IInv, ChainOK
<1>7. QED
  BY <1>1, <1>5, <1>6 DEF IInv

LEMMA PutBlockOK ==
    ASSUME IInv, NEW e \in effects, PutBlock(e)
    PROVE  IInv'
<1> DEFINE f == [type |-> "PutBlockResult", block |-> e.block]
           next == (effects \ {e}) \cup {f}
           blocks == storedBlocks \cup {e.block}
<1>1. /\ e.type = "StoreBlock" /\ effects' = next /\ storedBlocks' = blocks
      /\ UNCHANGED <<latestBlock, keyBlockInfo, stopForUpgrade, executed, restarts, nextUpgrade,
                     storedSignatures, pending, cache, announced, gossiped>>
  BY DEF PutBlock
<1>2. f.type = "PutBlockResult" /\ f.block = e.block
  OBVIOUS
<1> HIDE DEF f
<1>3. \A x : IsFlow(x) \/ x.type = "StoreBlockSignatures" => (x \in effects <=> x \in next)
  BY <1>1, <1>2 DEF IsFlow, FlowTypes
<1>4. EffectOK(storedSignatures, blocks, next, f)
  BY <1>2 DEF EffectOK, IsFlow, FlowTypes
<1>5. /\ EffectsOK(storedSignatures, blocks, next)
      /\ FlowsOK(pending, next, {})
      /\ CacheOK(storedSignatures, blocks, next, cache)
      /\ AnnouncedOK(storedSignatures, next, announced)
      /\ VotersOK(storedSignatures, next)
  <2> HIDE DEF EffectOK
  <2>1. \A x \in next : x \notin effects => EffectOK(storedSignatures, blocks, next, x)
    BY <1>4
  <2>2. QED
    BY <1>3, <2>1, EffectsChange
<1>6. e.block \in Blocks
  BY <1>1 DEF IInv, EffectsOK, EffectOK
<1> HIDE DEF next, blocks
<1>7. ChainOK'
  <2>1. blocks \subseteq Blocks /\ storedBlocks \subseteq blocks
    BY <1>6 DEF IInv, ChainOK, blocks
  <2>2. QED
    BY <1>1, <2>1 DEF IInv, ChainOK
<1>8. QED
  BY <1>1, <1>5, <1>7 DEF IInv

\* More signers are enough if fewer are.
LEMMA SignedMore ==
    ASSUME NEW b, NEW S, NEW T, Signed(b, S), S \subseteq T
    PROVE  Signed(b, T)
<1> DEFINE w == ValidatorWeights[EraOf[b]]
           SV == S \cap DOMAIN w
           TV == T \cap DOMAIN w
           s == SumFunctionOnSet(w, SV)
           t == SumFunctionOnSet(w, TV)
           F == FaultTolerance[2]
           quorum == SumFunction(w) * (FaultTolerance[1] + FaultTolerance[2])
<1>1. b \in Blocks /\ EraOf[b] \in Eras
  BY LinearChainAssumption, WeightAssumption DEF Signed
<1>2. SV \in SUBSET DOMAIN w /\ TV \in SUBSET DOMAIN w /\ SV \in SUBSET TV
  OBVIOUS
<1>3. s \in Nat /\ t \in Nat /\ s <= t /\ F \in Nat
  BY <1>1, <1>2, WeightAssumption
<1>4. quorum \in Nat
  <2>1. DOMAIN w \in SUBSET DOMAIN w
    OBVIOUS
  <2>2. SumFunctionOnSet(w, DOMAIN w) \in Nat
    BY <1>1, <2>1, WeightAssumption
  <2>3. SumFunction(w) \in Nat
    BY <2>2 DEF SumFunction
  <2> DEFINE x == SumFunction(w)
             y == FaultTolerance[1] + FaultTolerance[2]
  <2>4. x \in Nat /\ y \in Nat
    BY <2>3, WeightAssumption
  <2> HIDE DEF x, y
  <2>5. x * y \in Nat
    BY <2>4
  <2>6. QED
    BY <2>5 DEF x, y
<1>5. s * 2 * F > quorum
  BY DEF Signed, Quorum
<1> HIDE DEF s, t, F, quorum
<1>6. t * 2 * F > quorum
  <2>1. s * 2 \in Nat /\ t * 2 \in Nat /\ s * 2 <= t * 2
    BY <1>3
  <2>2. (s * 2) * F <= (t * 2) * F /\ (s * 2) * F \in Nat /\ (t * 2) * F \in Nat
    BY <1>3, <2>1
  <2>3. QED
    BY <1>4, <1>5, <2>2
<1>7. Quorum(w, TV)
  BY <1>6 DEF Quorum, t, F, quorum
<1>8. QED
  BY <1>7 DEF Signed

LEMMA PutSignaturesOK ==
    ASSUME IInv, NEW e \in effects, PutSignatures(e)
    PROVE  IInv'
<1> DEFINE b == e.block
           stored == [storedSignatures EXCEPT ![b] = Merged(e.proofs, @)]
           up == {u \in {[type |-> "Upgrade"]} : e.upgrade}
           next == (effects \ {e}) \cup up
<1>1. /\ e.type = "StoreBlockSignatures" /\ storedSignatures' = stored /\ effects' = next
      /\ UNCHANGED <<chainVars, nextUpgrade, pending, cache, announced, gossiped>>
  BY DEF PutSignatures
<1>2. EffectOK(storedSignatures, storedBlocks, effects, e)
  BY DEF IInv, EffectsOK
<1>3. b \in storedBlocks /\ b \in Blocks /\ (e.upgrade => Signed(b, DOMAIN e.proofs))
  BY <1>1, <1>2 DEF EffectOK, IInv, ChainOK
<1>4. /\ stored = [x \in Blocks |-> stored[x]]
      /\ stored[b] = Merged(e.proofs, storedSignatures[b])
      /\ \A x \in Blocks : x # b => stored[x] = storedSignatures[x]
  BY <1>3 DEF IInv, ChainOK
<1> HIDE DEF stored
<1>5. DOMAIN stored[b] = DOMAIN e.proofs \cup DOMAIN storedSignatures[b]
  BY <1>4 DEF Merged
<1>6. \A u \in up : u.type = "Upgrade" /\ e.upgrade
  OBVIOUS
<1> HIDE DEF up
<1>7. \A x \in Blocks : PersistedIn(stored, next, x) = PersistedIn(storedSignatures, effects, x)
  <2> SUFFICES ASSUME NEW x \in Blocks
               PROVE  PersistedIn(stored, next, x) = PersistedIn(storedSignatures, effects, x)
    OBVIOUS
  <2>1. \A f \in next : f.type = "StoreBlockSignatures" => f \in effects /\ f # e
    BY <1>6
  <2>2. \A f \in effects : f # e => f \in next
    OBVIOUS
  <2> HIDE DEF next
  <2>3. CASE x = b
    <3>1. DOMAIN stored[x] = DOMAIN e.proofs \cup DOMAIN storedSignatures[x]
      BY <1>5, <2>3
    <3>2. PersistedIn(stored, next, x) \subseteq PersistedIn(storedSignatures, effects, x)
      BY <1>1, <2>1, <2>3, <3>1 DEF PersistedIn
    <3>3. PersistedIn(storedSignatures, effects, x) \subseteq PersistedIn(stored, next, x)
      BY <1>1, <2>2, <2>3, <3>1 DEF PersistedIn
    <3>4. QED
      BY <3>2, <3>3
  <2>4. CASE x # b
    <3>1. stored[x] = storedSignatures[x]
      BY <1>4, <2>4
    <3>2. PersistedIn(stored, next, x) \subseteq PersistedIn(storedSignatures, effects, x)
      BY <2>1, <3>1 DEF PersistedIn
    <3>3. PersistedIn(storedSignatures, effects, x) \subseteq PersistedIn(stored, next, x)
      BY <1>1, <2>2, <2>4, <3>1 DEF PersistedIn
    <3>4. QED
      BY <3>2, <3>3
  <2>5. QED
    BY <2>3, <2>4
<1>8. \A x \in Blocks : DOMAIN storedSignatures[x] \subseteq DOMAIN stored[x]
  BY <1>4, <1>5
<1>9. \A x \in Blocks : ByValidators(stored[x])
  <2>1. ByValidators(stored[b])
    BY <1>1, <1>3, <1>4, MergedByValidators DEF IInv, VotersOK
  <2>2. QED
    BY <1>4, <2>1 DEF IInv, VotersOK
<1>10. SwitchBlocks \subseteq Blocks
  BY LinearChainAssumption
<1>11. UpgradeOK(storedSignatures) => UpgradeOK(stored)
  <2>1. SUFFICES ASSUME NEW x \in SwitchBlocks, Signed(x, DOMAIN storedSignatures[x])
                 PROVE  Signed(x, DOMAIN stored[x])
    BY DEF UpgradeOK
  <2>2. QED
    BY <1>8, <1>10, <2>1, SignedMore
<1>12. e.upgrade => UpgradeOK(stored)
  <2>1. SUFFICES ASSUME Signed(b, DOMAIN e.proofs)
                 PROVE  b \in SwitchBlocks /\ Signed(b, DOMAIN stored[b])
    BY <1>3 DEF UpgradeOK
  <2>2. b \in SwitchBlocks
    BY <2>1 DEF Signed
  <2>3. DOMAIN e.proofs \subseteq DOMAIN stored[b]
    BY <1>5
  <2>4. QED
    BY <2>1, <2>2, <2>3, SignedMore
<1>13. \A x \in Blocks : \A known :
           KnownOK(storedSignatures, storedBlocks, effects, x, known)
               => KnownOK(stored, storedBlocks, next, x, known)
  BY <1>7 DEF KnownOK, Lasting
<1>14. EffectsOK(stored, storedBlocks, next)
  <2> SUFFICES ASSUME NEW f \in next PROVE EffectOK(stored, storedBlocks, next, f)
    BY DEF EffectsOK
  <2>1. CASE f \in effects
    <3>1. EffectOK(storedSignatures, storedBlocks, effects, f)
      BY <2>1 DEF IInv, EffectsOK
    <3>2. f.type \in {"GetStoredFinalitySignaturesResult", "VerifyIfBonded"} => IsFlow(f)
      BY DEF IsFlow, FlowTypes
    <3>3. IsFlow(f) => f.fs.block \in Blocks
      BY <3>1 DEF EffectOK, Signatures
    <3> HIDE DEF next
    <3>4. QED
      BY <1>11, <1>13, <3>1, <3>2, <3>3 DEF EffectOK
  <2>2. CASE f \in up
    BY <1>6, <1>12, <2>2 DEF EffectOK, IsFlow, FlowTypes
  <2>3. QED
    BY <2>1, <2>2
<1>15. FlowsOK(pending, next, {})
  <2>1. \A x : IsFlow(x) => (x \in effects <=> x \in next)
    BY <1>1, <1>6 DEF IsFlow, FlowTypes
  <2>2. QED
    BY <2>1, OtherEffect DEF IInv
<1> HIDE DEF next
<1>16. CacheOK(stored, storedBlocks, next, cache)
  <2>1. storedBlocks \subseteq Blocks
    BY DEF IInv, ChainOK
  <2>2. QED
    BY <1>7, <2>1 DEF IInv, CacheOK, Lasting
<1>17. AnnouncedOK(stored, next, announced)
  <2>1. \A fs \in Signatures : fs.block \in Blocks
    BY DEF Signatures
  <2>2. QED
    BY <1>7, <2>1 DEF IInv, AnnouncedOK
<1>18. VotersOK(stored, next)
  BY <1>6, <1>9 DEF IInv, VotersOK, next
<1>19. ChainOK'
  <2>1. stopForUpgrade => UpgradeOK(stored)
    BY <1>11 DEF IInv, ChainOK
  <2>2. \A x \in Blocks : stored[x] # NoProofs => x \in storedBlocks
    BY <1>3, <1>4 DEF IInv, ChainOK
  <2>3. QED
    BY <1>1, <1>4, <2>1, <2>2 DEF IInv, ChainOK, chainVars
<1>20. storedBlocks' = storedBlocks
  BY <1>1 DEF chainVars
<1>21. QED
  BY <1>1, <1>14, <1>15, <1>16, <1>17, <1>18, <1>19, <1>20 DEF IInv

\* handle_put_block: the marked signatures of the block are known from now on.
LEMMA HandlePutBlockOK ==
    ASSUME IInv, NEW e \in effects, HandlePutBlock(e)
    PROVE  IInv'
<1> DEFINE b == e.block
           due == CollectPending(b)
           new == {p \in due : ~ KnownSignature(cache, p[1], b)}
           signatures == {pending[p] : p \in new}
           signers == {p[1] : p \in new}
           proofs == [k \in signers |-> pending[<<k, b>>].fs.era]
           rest == Restrict(pending, DOMAIN pending \ due)
           store == StoreSignaturesEffect(KeyBlocksWith(b), b, proofs)
           eff == effects \ {e}
           next == eff \cup {s \in {store} : new # {}}
<1>1. /\ e.type = "PutBlockResult"
      /\ pending' = rest
      /\ cache' = CacheSignatures(cache, b, proofs)
      /\ latestBlock' = b
      /\ keyBlockInfo' = KeyBlocksWith(b)
      /\ announced' = announced \cup {s.fs : s \in signatures}
      /\ gossiped' = gossiped \cup {s.fs : s \in {x \in signatures : x.local}}
      /\ effects' = next
      /\ UNCHANGED <<stopForUpgrade, executed, storedBlocks, restarts, nextUpgrade, storedSignatures>>
  BY DEF HandlePutBlock
<1>2. DOMAIN proofs = signers
  OBVIOUS
<1> HIDE DEF proofs
<1>3. b \in storedBlocks /\ b \in Blocks
  BY <1>1 DEF IInv, EffectsOK, EffectOK, ChainOK
<1>4. \A p \in due : p \in DOMAIN pending /\ pending[p].bonded /\ p[2] = b /\ IsPending(p, pending[p])
  BY DEF CollectPending, IInv, PendingOK
<1>5. \A p \in new : /\ pending[p].fs \in Signatures /\ pending[p].fs.key = p[1]
                     /\ pending[p].fs.block = b
                     /\ p = <<p[1], b>> /\ p[1] \in DOMAIN ValidatorWeights[pending[p].fs.era]
  <2> SUFFICES ASSUME NEW p \in due
               PROVE  /\ pending[p].fs \in Signatures /\ pending[p].fs.key = p[1]
                      /\ pending[p].fs.block = b
                      /\ p = <<p[1], b>> /\ p[1] \in DOMAIN ValidatorWeights[pending[p].fs.era]
    OBVIOUS
  <2>1. pending[p].bonded /\ p[2] = b /\ IsPending(p, pending[p])
    BY <1>4
  <2>2. p = <<pending[p].fs.key, pending[p].fs.block>>
    BY <2>1 DEF IsPending, KeyOf
  <2>3. pending[p].fs.key = p[1] /\ pending[p].fs.block = p[2]
    BY <2>2
  <2>4. QED
    BY <2>1, <2>2, <2>3 DEF IsPending
<1>6. PendingOK(rest) /\ FlowsOK(rest, effects, {})
  <2>1. /\ DOMAIN rest = DOMAIN pending \ due
        /\ rest = [p \in DOMAIN rest |-> rest[p]]
        /\ \A p \in DOMAIN rest : rest[p] = pending[p]
    BY DEF Restrict
  <2>2. PendingOK(rest)
    <3> HIDE DEF rest
    <3>1. QED
      BY <2>1 DEF IInv, PendingOK
  <2>3. \A f \in effects : IsFlow(f) => FlowOK(rest, {}, f)
    <3> HIDE DEF rest
    <3>1. QED
      BY <1>4, <2>1 DEF IInv, FlowsOK, FlowOK
  <2> HIDE DEF rest
  <2>4. \A p \in DOMAIN rest : ~ rest[p].bonded => \E f \in effects : IsFlow(f) /\ KeyOf(f.fs) = p
    BY <2>1 DEF IInv, FlowsOK
  <2>5. FlowsOK(rest, effects, {})
    BY <2>3, <2>4 DEF IInv, FlowsOK
  <2>6. QED
    BY <2>2, <2>5
<1> HIDE DEF rest, due
<1>7. /\ EffectsOK(storedSignatures, storedBlocks, eff)
      /\ CacheOK(storedSignatures, storedBlocks, eff, cache)
      /\ AnnouncedOK(storedSignatures, eff, announced)
      /\ VotersOK(storedSignatures, eff)
  <2>1. \A x : IsFlow(x) \/ x.type = "StoreBlockSignatures" => (x \in effects <=> x \in eff)
    BY <1>1 DEF IsFlow, FlowTypes
  <2>2. QED
    BY <2>1, EffectsChange
<1>8. FlowsOK(rest, next, {})
  <2>1. store.type = "StoreBlockSignatures"
    BY DEF StoreSignaturesEffect
  <2> HIDE DEF store
  <2>2. \A x : IsFlow(x) => (x \in effects <=> x \in next)
    BY <1>1, <2>1 DEF IsFlow, FlowTypes
  <2> HIDE DEF next
  <2>3. QED
    BY <1>6, <2>2, OtherEffect
<1>9. ByValidators(proofs)
  <2> SUFFICES ASSUME NEW k \in signers PROVE k \in DOMAIN ValidatorWeights[proofs[k]]
    BY <1>2 DEF ByValidators
  <2>1. PICK p \in new : p[1] = k
    OBVIOUS
  <2>2. proofs[k] = pending[<<k, b>>].fs.era
    BY DEF proofs
  <2> HIDE DEF new, signers
  <2>3. QED
    BY <1>5, <2>1, <2>2
<1>10. /\ EffectsOK(storedSignatures, storedBlocks, next)
       /\ VotersOK(storedSignatures, next)
       /\ Lasting(storedSignatures, storedBlocks, next, b, proofs)
       /\ Kept(eff, next)
  <2>1. CASE new = {}
    <3>1. next = eff /\ signers = {}
      BY <2>1
    <3>2. QED
      BY <1>2, <1>3, <1>7, <1>9, <3>1 DEF Lasting, Kept
  <2>2. CASE new # {}
    <3>1. next = eff \cup {StoreSignaturesEffect(KeyBlocksWith(b), b, proofs)}
      BY <2>2
    <3> HIDE DEF next, eff, new, signers
    <3>2. ChainOK
      BY DEF IInv
    <3>3. QED
      BY <1>3, <1>7, <1>9, <3>1, <3>2, StoreOK
  <2>3. QED
    BY <2>1, <2>2
<1>11. CacheOK(storedSignatures, storedBlocks, next, cache)
       /\ AnnouncedOK(storedSignatures, next, announced)
  <2> HIDE DEF next, eff
  <2>1. QED
    BY <1>7, <1>10, KnownGrows
<1>12. CacheOK(storedSignatures, storedBlocks, next, cache')
  <2> HIDE DEF next, signers
  <2>1. QED
    BY <1>1, <1>2, <1>10, <1>11, CacheSignaturesOK
<1>13. AnnouncedOK(storedSignatures, next, announced')
  <2> HIDE DEF next
  <2>1. signers \subseteq PersistedIn(storedSignatures, next, b)
    BY <1>2, <1>10 DEF Lasting
  <2>2. \A p \in new : /\ pending[p].fs \in Signatures
                       /\ pending[p].fs.key \in PersistedIn(storedSignatures, next, pending[p].fs.block)
    <3>1. \A p \in new : p[1] \in signers
      OBVIOUS
    <3> HIDE DEF new, signers
    <3>2. QED
      BY <1>5, <2>1, <3>1
  <2> HIDE DEF new
  <2>3. QED
    BY <1>1, <1>11, <2>2 DEF AnnouncedOK
<1>14. gossiped' \subseteq announced'
  <2> HIDE DEF new
  <2>1. QED
    BY <1>1 DEF IInv
<1>15. ChainOK'
  <2>1. EraOf[b] \in Nat
    BY <1>3, LinearChainAssumption DEF Blocks
  <2>2. KeyBlocksWith(b) \subseteq Nat
    BY <2>1 DEF KeyBlocksWith, IInv, ChainOK
  <2>3. QED
    BY <1>1, <1>3, <2>2 DEF IInv, ChainOK
<1> HIDE DEF next, new, signers, signatures
<1>16. QED
  BY <1>1, <1>6, <1>8, <1>10, <1>12, <1>13, <1>14, <1>15 DEF IInv

LEMMA ActivationOK ==
    ASSUME IInv, NEW era \in ActivationPoints, GotUpgradeActivationPoint(era)
    PROVE  IInv'
<1>1. /\ nextUpgrade' = era
      /\ UNCHANGED <<chainVars, storedSignatures, pending, cache, effects, announced, gossiped>>
  BY DEF GotUpgradeActivationPoint
<1>2. ChainOK'
  BY <1>1 DEF IInv, ChainOK, chainVars
<1>3. QED
  BY <1>1, <1>2 DEF IInv, chainVars

\* Nothing that waits, is cached or under way.
LEMMA NothingOK ==
    ASSUME NEW stored, NEW blocks
    PROVE  /\ PendingOK([p \in {} |-> None])
           /\ EffectsOK(stored, blocks, {})
           /\ FlowsOK([p \in {} |-> None], {}, {})
           /\ CacheOK(stored, blocks, {}, EmptyCache)
           /\ AnnouncedOK(stored, {}, {})
<1> DEFINE none == [p \in {} |-> None]
<1>1. DOMAIN none = {} /\ none = [p \in DOMAIN none |-> none[p]]
  OBVIOUS
<1>2. DOMAIN EmptyCache.signatures = {}
  BY DEF EmptyCache
<1> HIDE DEF none
<1>3. PendingOK(none) /\ FlowsOK(none, {}, {})
  BY <1>1 DEF PendingOK, FlowsOK
<1>4. EffectsOK(stored, blocks, {}) /\ CacheOK(stored, blocks, {}, EmptyCache) /\ AnnouncedOK(stored, {}, {})
  BY <1>2 DEF EffectsOK, CacheOK, AnnouncedOK
<1>5. QED
  BY <1>3, <1>4 DEF none

LEMMA RestartOK ==
    ASSUME IInv, Restart
    PROVE  IInv'
<1>1. /\ latestBlock' = None /\ keyBlockInfo' = {} /\ pending' = [p \in {} |-> None]
      /\ cache' = EmptyCache /\ stopForUpgrade' = FALSE /\ effects' = {}
      /\ announced' = {} /\ gossiped' = {}
      /\ nextUpgrade' = nextUpgrade /\ storedBlocks' = storedBlocks
      /\ storedSignatures' = storedSignatures
  BY DEF Restart
<1>2. ChainOK'
  BY <1>1 DEF IInv, ChainOK
<1>3. VotersOK(storedSignatures, {})
  BY DEF IInv, VotersOK
<1>4. QED
  BY <1>1, <1>2, <1>3, NothingOK DEF IInv

LEMMA InitOK ==
    ASSUME Init
    PROVE  IInv
<1>1. storedSignatures = [b \in Blocks |-> NoProofs] /\ DOMAIN NoProofs = {}
  BY DEF Init, NoProofs
<1>2. ChainOK
  BY <1>1 DEF Init, ChainOK
<1>3. VotersOK(storedSignatures, {})
  BY <1>1 DEF VotersOK, ByValidators
<1>4. QED
  BY <1>2, <1>3, NothingOK DEF Init, IInv

LEMMA StepOK ==
    ASSUME IInv, [Next]_vars
    PROVE  IInv'
<1>1. CASE UNCHANGED vars
  <2>1. ChainOK'
    BY <1>1 DEF IInv, ChainOK, vars
  <2>2. QED
    BY <1>1, <2>1 DEF IInv, vars
<1>2. ASSUME NEW k \in Keys, NEW b \in SignedBlocks, NEW era \in ClaimedEras(b),
             HandleFinalitySignature([key |-> k, block |-> b, era |-> era], FALSE)
      PROVE  IInv'
  <2> DEFINE fs == [key |-> k, block |-> b, era |-> era]
  <2>1. b \in Blocks /\ era \in Nat
    BY SignerAssumption
  <2>2. fs \in Signatures /\ fs.era = era /\ fs.block = b
    BY <2>1 DEF Signatures
  <2>3. HandleFinalitySignature(fs, FALSE)
    BY <1>2
  <2> HIDE DEF fs
  <2>4. QED
    BY <2>2, <2>3, HandleFinalitySignatureOK
<1>3. ASSUME NEW b \in SignedBlocks,
             HandleFinalitySignature([key |-> OwnKey, block |-> b, era |-> EraOf[b]], TRUE)
      PROVE  IInv'
  <2> DEFINE fs == [key |-> OwnKey, block |-> b, era |-> EraOf[b]]
  <2>1. b \in Blocks /\ OwnKey \in Keys
    BY SignerAssumption
  <2>2. EraOf[b] \in Nat
    BY <2>1, LinearChainAssumption DEF Blocks
  <2>3. fs \in Signatures
    BY <2>1, <2>2 DEF Signatures
  <2>4. HandleFinalitySignature(fs, TRUE)
    BY <1>3
  <2> HIDE DEF fs
  <2>5. QED
    BY <2>3, <2>4, HandleFinalitySignatureOK
<1>4. ASSUME NEW e \in effects,
             \/ ReadSignatures(e)
             \/ GetStoredFinalitySignaturesResult(e)
             \/ \E found \in BOOLEAN : IsBonded(e, found)
             \/ PutSignatures(e)
             \/ Upgrade(e)
             \/ PutBlock(e)
             \/ HandlePutBlock(e)
      PROVE  IInv'
  BY <1>4, ReadSignaturesOK, GetStoredOK, IsBondedOK, PutSignaturesOK, UpgradeStepOK,
     PutBlockOK, HandlePutBlockOK
<1>5. CASE HandleNewBlock
  BY <1>5, HandleNewBlockOK
<1>6. ASSUME NEW era \in ActivationPoints, GotUpgradeActivationPoint(era)
      PROVE  IInv'
  BY <1>6, ActivationOK
<1>7. CASE Restart
  BY <1>7, RestartOK
<1>8. QED
  BY <1>1, <1>2, <1>3, <1>4, <1>5, <1>6, <1>7 DEF Next

-----------------------------------------------------------------------------
(* The theorems.                                                           *)

\* Init and every step establish the inductive invariant.
THEOREM Invariant == Spec => []IInv
BY InitOK, StepOK, PTL DEF Spec

\* A signature that waits is checked by exactly one flow until it is marked, and
\* no flow is left for any other.
THEOREM CheckedOnce == Spec => []OneFlowPerSignature
<1>1. IInv => OneFlowPerSignature
  <2> SUFFICES ASSUME IInv PROVE OneFlowPerSignature
    OBVIOUS
  <2>1. TypeOK
    <3>1. \A p \in DOMAIN pending :
              pending[p].fs \in Signatures /\ p = <<pending[p].fs.key, pending[p].fs.block>>
      BY DEF IInv, PendingOK, IsPending, KeyOf
    <3>2. DOMAIN cache.signatures \subseteq storedBlocks
      BY DEF IInv, CacheOK, Lasting
    <3>3. QED
      BY <3>1, <3>2 DEF IInv, ChainOK, AnnouncedOK, TypeOK
  <2>2. ASSUME NEW p \in Keys \X Blocks
        PROVE  Cardinality(Flows(p)) = IF p \in DOMAIN pending /\ ~ pending[p].bonded THEN 1 ELSE 0
    <3>1. \A e : e \in Flows(p) <=> e \in effects /\ IsFlow(e) /\ KeyOf(e.fs) = p
      BY DEF Flows, IsFlow, FlowTypes, KeyOf
    <3>2. CASE p \in DOMAIN pending /\ ~ pending[p].bonded
      <4>1. PICK e \in effects : IsFlow(e) /\ KeyOf(e.fs) = p
        BY <3>2 DEF IInv, FlowsOK
      <4>2. Flows(p) = {e}
        BY <3>1, <4>1 DEF IInv, FlowsOK
      <4>3. Cardinality({e}) = 1
        BY FS_Singleton
      <4>4. QED
        BY <3>2, <4>2, <4>3
    <3>3. CASE ~ (p \in DOMAIN pending /\ ~ pending[p].bonded)
      <4>1. Flows(p) = {}
        BY <3>1, <3>3 DEF IInv, FlowsOK, FlowOK
      <4>2. Cardinality({}) = 0
        BY FS_EmptySet
      <4>3. QED
        BY <3>3, <4>1, <4>2
    <3>4. QED
      BY <3>2, <3>3
  <2>3. QED
    BY <2>1, <2>2 DEF OneFlowPerSignature
<1>2. QED
  BY <1>1, Invariant, PTL

\* Whatever counts as known and whatever was announced is in storage or on its
\* way to it, in every order of the flows.
THEOREM NoSignatureIsLost == Spec => []NoneIsLost
<1>1. IInv => NoneIsLost
  <2> SUFFICES ASSUME IInv PROVE NoneIsLost
    OBVIOUS
  <2>1. \A b : Persisted(b) = PersistedIn(storedSignatures, effects, b)
    BY DEF Persisted, PersistedIn
  <2>2. QED
    BY <2>1 DEF IInv, CacheOK, Lasting, AnnouncedOK, NoneIsLost
<1>2. QED
  BY <1>1, Invariant, PTL

\* Whatever eras peers claim, a signature is stored only if its signer is a
\* validator of the era that it claims (handle_is_bonded, new_block).
THEOREM OnlyValidatorsAreStored == Spec => []StoredFromValidators
<1>1. IInv => StoredFromValidators
  BY DEF IInv, VotersOK, ByValidators, StoredFromValidators
<1>2. QED
  BY <1>1, Invariant, PTL

\* The node stops for an upgrade only with a quorum of the era's validators among
\* the signers of the key block in storage (should_upgrade).
THEOREM UpgradeHasQuorum == Spec => []UpgradeIsSigned
<1>1. IInv => UpgradeIsSigned
  BY DEF IInv, ChainOK, UpgradeOK, Signed, UpgradeIsSigned
<1>2. QED
  BY <1>1, Invariant, PTL
=============================================================================
