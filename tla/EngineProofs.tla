---------------------------- MODULE EngineProofs ----------------------------
(***************************************************************************)
(* For every validator count, every supply of blocks and votes and any     *)
(* number of ticks: the store's checkpoints name tracked blocks, only move *)
(* forward and stay ordered; no head walk fails, and the head it finds     *)
(* descends from the justified block and follows the majority; targets are *)
(* justifiable; and the votes this node makes pass its own validation.     *)
(***************************************************************************)
EXTENDS Engine, ForkChoiceProofs

(* The engine *)

\* The invariant: the store is sound and its head decided whenever the mutex
\* is free, and the vote between its production and its re-import is one of
\* this node's.
IInv ==
    /\ Ready(store) /\ HeadOk(store)
    /\ own = NoVote \/ (own \in [validator_id: Validators, data: Vote] /\ OwnOk(store, own.data))
    /\ served \subseteq Local /\ has_proposal \in BOOLEAN

\* The safe target stays, or moves to the justified block or to a block with
\* two thirds of the pending votes.
SafeTargetStep(s, t) ==
    \/ t.safe_target \in {s.safe_target, s.latest_justified.root}
    \/ 3 * Cardinality(Supporters(s, s.new_votes, t.safe_target)) >= 2 * NumValidators

\* Both constructors give a store whose only block, the anchor, is head and
\* safe target, and that has no votes.
LEMMA InitInv ==
    ASSUME Init
    PROVE  IInv /\ Ordered(store)
<1>1. CASE store = FromAnchor
  <2>1. Zero \in Cp /\ Zero.slot <= 0 /\ 0 \in Nat
    BY ForkChoiceAssumption DEF Checkpoint, Zero, Cp
  <2>2. Ready(store) /\ HeadOk(store) /\ Ordered(store)
    BY <1>1, <2>1, SeedReady, Zenon DEF FromAnchor
  <2> QED
    BY <2>2, Zenon DEF Init, IInv
<1>2. CASE store = FromTrustedHead(AnchorRoot, ResumeBlock)
  <2> DEFINE pruned == Checkpoint(PrunedRoot, ResumeSlot - 1)
  <2>1. pruned \in Cp /\ pruned.slot <= ResumeSlot /\ ResumeSlot \in Nat
    BY ForkChoiceAssumption DEF Checkpoint, Cp
  <2>2. /\ ResumeBlock.slot = ResumeSlot /\ ResumeBlock.parent_root = PrunedRoot
        /\ ResumeBlock.post = [justified |-> pruned, finalized |-> pruned]
    BY Zenon DEF ResumeBlock
  <2> HIDE DEF pruned
  <2>3. Ready(store) /\ HeadOk(store) /\ Ordered(store)
    BY <1>2, <2>1, <2>2, SeedReady, Zenon DEF FromTrustedHead
  <2> QED
    BY <2>3, Zenon DEF Init, IInv
<1> QED
  BY <1>1, <1>2, Zenon DEF Init

\* Every critical section keeps the store sound: imports and production track
\* one block between promotions of votes, the others leave the chain alone.
LEMMA StepSound ==
    ASSUME Sound(store), [Next]_vars
    PROVE  Sound(store') /\ Forward(store, store')
           /\ (Ordered(store) /\ EmptySlots = {} => Ordered(store'))
<1> DEFINE Goal == Sound(store') /\ Forward(store, store')
                   /\ (Ordered(store) /\ EmptySlots = {} => Ordered(store'))
<1>1. IsStore(store)
  BY Zenon DEF Sound
<1>2. ASSUME SameChain(store, store')
      PROVE  Goal
  BY <1>2, SameChainSound, Zenon
<1>3. ASSUME NEW s, SameChain(store, s),
             NEW b \in Blocks, Extends(s, b), NEW post \in PostStates(s, b),
             SameChain(TrackBlock(s, b, post), store')
      PROVE  Goal
  <2> DEFINE t == TrackBlock(s, b, post)
  <2>1. Sound(s) /\ Forward(store, s) /\ (Ordered(store) => Ordered(s))
    BY <1>3, SameChainSound, Zenon
  <2>2. Sound(t) /\ Forward(s, t) /\ (Ordered(s) /\ EmptySlots = {} => Ordered(t))
    BY <1>3, <2>1, TrackSound, EngineAssumption, Zenon DEF HeaderOk
  <2> HIDE DEF t
  <2>3. Sound(store') /\ Forward(t, store') /\ (Ordered(t) => Ordered(store'))
    BY <1>3, <2>2, SameChainSound, Zenon DEF t
  <2>4. \A x \in {store, s, t, store'} : x.latest_justified.slot \in Nat /\ x.latest_finalized.slot \in Nat
    BY <2>1, <2>2, <2>3, Zenon DEF Sound, CheckpointOk, Cp
  <2>5. Forward(store, store')
    BY <2>1, <2>2, <2>3, <2>4 DEF Forward
  <2> QED
    BY <2>1, <2>2, <2>3, <2>5, Zenon
<1>4. ASSUME NEW b \in Blocks, ImportBlock(b)
      PROVE  Goal
  <2>1. PICK post \in PostStates(store, b), body \in Bodies :
            store' = Import(store, b, post, body)
    BY <1>4, Zenon DEF ImportBlock
  <2> DEFINE t == TrackBlock(store, b, post)
  <2>2. Extends(store, b)
    BY <1>4, Zenon DEF ImportBlock
  <2>3. IsStore(t)
    BY <2>2, TrackSound, EngineAssumption, Zenon DEF Sound, HeaderOk
  <2>4. SameChain(t, store')
    <3> HIDE DEF t
    <3>1. SameChain(t, FoldBlockAttestations(t, body))
      BY <2>3, FoldSameChain, Zenon
    <3>2. SameChain(FoldBlockAttestations(t, body), AcceptNewVotes(FoldBlockAttestations(t, body)))
      BY <3>1, AcceptSameChain, Zenon DEF SameChain
    <3> QED
      BY <2>1, <3>1, <3>2, SameChainTransitive, Zenon DEF Import, t
  <2>5. SameChain(store, store)
    BY <1>1, Zenon DEF SameChain
  <2> QED
    BY <2>2, <2>4, <2>5, <1>3, Zenon
<1>5. ASSUME NEW b \in Blocks, ProduceBlock(b)
      PROVE  Goal
  <2> DEFINE s == AcceptNewVotes(store)
  <2>1. Extends(s, b) /\ b.parent_root = s.head
    BY <1>5, Zenon DEF ProduceBlock
  <2>2. PICK post \in PostStates(s, b) : store' = AcceptNewVotes(TrackBlock(s, b, post))
    BY <1>5, Zenon DEF ProduceBlock
  <2>3. SameChain(store, s)
    BY <1>1, AcceptSameChain, Zenon
  <2> HIDE DEF s
  <2>4. IsStore(TrackBlock(s, b, post))
    BY <2>1, <2>2, <2>3, SameChainSound, TrackSound, EngineAssumption, Zenon DEF Sound, HeaderOk
  <2>5. SameChain(TrackBlock(s, b, post), store')
    BY <2>2, <2>4, AcceptSameChain, Zenon
  <2> QED
    BY <2>1, <2>2, <2>3, <2>5, <1>3, Zenon
<1>6. ASSUME NEW v \in Validators, NEW vote \in Votes, ImportAttestation(v, vote)
      PROVE  Goal
  BY <1>1, <1>2, <1>6, GossipSameChain, Zenon DEF ImportAttestation
<1>7. CASE ProduceBlockFails
  BY <1>1, <1>2, <1>7, AcceptSameChain, Zenon DEF ProduceBlockFails
<1>8. ASSUME NEW v \in Local, ProduceAttestation(v)
      PROVE  Goal
  BY <1>1, <1>2, <1>8, AcceptSameChain, Zenon DEF ProduceAttestation
<1>9. CASE Reimport
  <2>1. SameChain(store, store)
    BY <1>1, Zenon DEF SameChain
  <2> QED
    BY <1>1, <1>2, <1>9, <2>1, GossipSameChain, Zenon DEF Reimport
<1>10. CASE Tick
  BY <1>1, <1>2, <1>10, TickSameChain, Zenon DEF Tick
<1>11. CASE SignFails \/ UNCHANGED vars
  <2>1. store' = store
    BY <1>11, Zenon DEF SignFails, vars
  <2> QED
    BY <2>1, <1>1, <1>2, Zenon DEF SameChain
<1> QED
  BY <1>4, <1>5, <1>6, <1>7, <1>8, <1>9, <1>10, <1>11, Zenon DEF Next

\* The loop's slot counts from the anchor, so it is not above the clock's.
LEMMA LoopSlotNotAhead ==
    ASSUME Ready(store)
    PROVE  LoopSlot \in Nat /\ LoopSlot <= CurrentSlot(store)
<1>1. /\ store.time \in Nat /\ store.blocks[AnchorRoot].slot \in Nat
      /\ store.time >= store.blocks[AnchorRoot].slot * IntervalsPerSlot
  BY Zenon DEF Ready, ClockOk, Sound, TreeOk, BlockRecord
<1> QED
  BY <1>1 DEF LoopSlot, LoopTick, CurrentSlot, IntervalsPerSlot

\* Only local validators have duties.
LEMMA DutiesLocal == Duties \subseteq Local
<1>1. ProposerForSlot \subseteq Local
  BY Zenon DEF ProposerForSlot
<1> QED
  BY <1>1, Zenon DEF Duties

\* Every operation preserves the invariant and moves the safe target as said.
LEMMA StepInv ==
    ASSUME IInv, [Next]_vars
    PROVE  IInv' /\ SafeTargetStep(store, store')
<1> DEFINE Goal == IInv' /\ SafeTargetStep(store, store')
           Reaches(t) == Ready(t) /\ HeadOk(t) /\ Later(store, t) /\ SafeTargetStep(store, t)
<1>1. Ready(store) /\ HeadOk(store)
  BY Zenon DEF IInv
<1>2. ASSUME Reaches(store'), own' \in {own, NoVote},
             served' \subseteq Local, has_proposal' \in BOOLEAN
      PROVE  Goal
  BY <1>2, OwnStays, Zenon DEF IInv
<1>3. ASSUME Reaches(store'), NEW v \in Validators, NEW slot \in Nat, slot <= CurrentSlot(store'),
             own' = [validator_id |-> v, data |-> OwnVote(store', slot)],
             served' \subseteq Local, has_proposal' \in BOOLEAN
      PROVE  Goal
  <2>1. OwnOk(store', OwnVote(store', slot))
    BY <1>3, OwnVoteOk, Zenon
  <2>2. OwnVote(store', slot) \in Vote
    BY <2>1, Zenon DEF OwnOk
  <2> QED
    BY <1>3, <2>1, <2>2, Zenon DEF IInv
<1>4. ASSUME NEW s, Ready(s), Later(store, s), s.safe_target = store.safe_target
      PROVE  Reaches(AcceptNewVotes(s))
  <2> DEFINE t == AcceptNewVotes(s)
  <2>1. Ready(t) /\ HeadOk(t) /\ Later(s, t) /\ t.safe_target = s.safe_target
    BY <1>4, AcceptReady, Zenon
  <2> HIDE DEF t
  <2> QED
    BY <1>4, <2>1 DEF Later, SafeTargetStep, t
<1>5. Later(store, store)
  BY <1>1 DEF Later, Ready, ClockOk
<1>6. ASSUME NEW v \in Validators, NEW vote \in Vote, ValidateAttestation(store, vote)
      PROVE  Reaches(GossipVote(store, v, vote))
  BY <1>1, <1>6, GossipReady, Zenon DEF SafeTargetStep
<1>7. \A v : Serve(v) => v \in Local /\ v \in Validators /\ served' \subseteq Local
  BY DutiesLocal, EngineAssumption, Zenon DEF Serve, IInv
<1>8. ASSUME NEW b \in Blocks, ImportBlock(b)
      PROVE  Goal
  <2>1. PICK post \in PostStates(store, b), body \in Bodies :
            store' = Import(store, b, post, body)
    BY <1>8, Zenon DEF ImportBlock
  <2>2. HeaderOk(b) /\ body \in Pool
    BY EngineAssumption, Zenon DEF HeaderOk, Pool
  <2>3. Imported(store, b, post, store')
    BY <1>1, <1>8, <2>1, <2>2, ImportReady, Zenon DEF ImportBlock
  <2>4. Reaches(store')
    BY <2>3, Zenon DEF Imported, SafeTargetStep
  <2> QED
    BY <1>2, <1>8, <2>4, Zenon DEF ImportBlock, IInv
<1>9. ASSUME NEW b \in Blocks, ProduceBlock(b)
      PROVE  Goal
  <2> DEFINE s == AcceptNewVotes(store)
             v == LoopSlot % NumValidators
  <2>1. Extends(s, b) /\ b.parent_root = s.head /\ b.slot = LoopSlot /\ Serve(v)
        /\ has_proposal' = has_proposal
    BY <1>9, Zenon DEF ProduceBlock
  <2>2. PICK post \in PostStates(s, b) :
            /\ store' = AcceptNewVotes(TrackBlock(s, b, post))
            /\ own' = [validator_id |-> v, data |-> OwnVote(store', b.slot)]
    BY <1>9, Zenon DEF ProduceBlock
  <2>3. Ready(s) /\ Later(store, s) /\ s.safe_target = store.safe_target
    BY <1>1, AcceptReady, Zenon
  <2> HIDE DEF s
  <2>4. HeaderOk(b)
    BY EngineAssumption, Zenon DEF HeaderOk
  <2>5. Imported(s, b, post, store')
    BY <2>1, <2>2, <2>3, <2>4, ProduceReady, Zenon
  <2>6. Reaches(store')
    BY <2>3, <2>5, Zenon DEF Imported, Later, SafeTargetStep
  <2>7. b.slot \in Nat /\ b.slot <= CurrentSlot(store')
    <3>1. LoopSlot \in Nat /\ LoopSlot <= CurrentSlot(store)
      BY <1>1, LoopSlotNotAhead, Zenon
    <3>2. CurrentSlot(store) \in Nat /\ CurrentSlot(store') \in Nat
          /\ CurrentSlot(store) <= CurrentSlot(store')
      BY <2>6 DEF Later, CurrentSlot, IntervalsPerSlot
    <3> QED
      BY <2>1, <3>1, <3>2
  <2>8. v \in Validators /\ served' \subseteq Local /\ has_proposal' \in BOOLEAN
    BY <1>7, <2>1, Zenon DEF IInv
  <2> HIDE DEF v
  <2> QED
    BY <1>3, <2>2, <2>6, <2>7, <2>8, Zenon
<1>10. ASSUME NEW v \in Validators, NEW vote \in Votes, ImportAttestation(v, vote)
       PROVE  Goal
  <2>1. vote \in Vote
    BY EngineAssumption, Zenon
  <2> QED
    BY <1>2, <1>6, <1>10, <2>1, Zenon DEF ImportAttestation, IInv
<1>11. CASE ProduceBlockFails
  <2>1. Reaches(AcceptNewVotes(store))
    BY <1>1, <1>4, <1>5, Zenon
  <2> QED
    BY <1>2, <1>7, <1>11, <2>1, Zenon DEF ProduceBlockFails, IInv
<1>12. ASSUME NEW v \in Local, ProduceAttestation(v)
       PROVE  Goal
  <2>1. Reaches(store')
    BY <1>1, <1>4, <1>5, <1>12, Zenon DEF ProduceAttestation
  <2>2. v \in Validators /\ served' \subseteq Local /\ has_proposal' \in BOOLEAN
    BY <1>7, <1>12, Zenon DEF ProduceAttestation, IInv
  <2>3. own' = [validator_id |-> v, data |-> OwnVote(store', LoopSlot)]
    BY <1>12, Zenon DEF ProduceAttestation
  <2>4. LoopSlot \in Nat /\ LoopSlot <= CurrentSlot(store)
    BY <1>1, LoopSlotNotAhead, Zenon
  <2>5. CurrentSlot(store) \in Nat /\ CurrentSlot(store') \in Nat
        /\ CurrentSlot(store) <= CurrentSlot(store')
    BY <2>1 DEF Later, CurrentSlot, IntervalsPerSlot
  <2>6. LoopSlot <= CurrentSlot(store')
    BY <2>4, <2>5
  <2> QED
    BY <1>3, <2>1, <2>2, <2>3, <2>4, <2>6, Zenon
<1>13. CASE Reimport
  <2>1. own.validator_id \in Validators /\ own.data \in Vote
    BY <1>13, Zenon DEF Reimport, IInv
  <2>2. Reaches(store)
    BY <1>1, <1>5, Zenon DEF SafeTargetStep
  <2>3. Reaches(store')
    BY <1>6, <1>13, <2>1, <2>2, Zenon DEF Reimport
  <2>4. own' = NoVote /\ served' = served /\ has_proposal' \in BOOLEAN
    BY <1>13, Zenon DEF Reimport, IInv
  <2> QED
    BY <1>2, <2>3, <2>4, Zenon DEF IInv
<1>14. CASE Tick
  <2>1. Reaches(store')
    BY <1>1, <1>14, TickReady, Zenon DEF Tick, SafeTargetStep
  <2>2. own' = own /\ served' = {} /\ has_proposal' \in BOOLEAN
    BY <1>14, Zenon DEF Tick, IInv
  <2> QED
    BY <1>2, <2>1, <2>2, Zenon
<1>15. CASE SignFails \/ UNCHANGED vars
  <2>1. store' = store /\ own' \in {own, NoVote} /\ served' = served /\ has_proposal' = has_proposal
    BY <1>15, Zenon DEF SignFails, vars
  <2>2. Reaches(store')
    BY <1>1, <1>5, <2>1, Zenon DEF SafeTargetStep
  <2> QED
    BY <1>2, <2>1, <2>2, Zenon DEF IInv
<1> QED
  BY <1>8, <1>9, <1>10, <1>11, <1>12, <1>13, <1>14, <1>15, Zenon DEF Next

\* The invariant holds under every operation of the engine.
THEOREM Invariance == Spec => []IInv
<1>1. Init => IInv
  BY InitInv, Zenon
<1>2. IInv /\ [Next]_vars => IInv'
  BY StepInv, Zenon
<1> QED
  BY <1>1, <1>2, PTL DEF Spec

\* The store stays well formed: head and safe target are always tracked blocks
\* and both pools hold votes, whatever is imported, produced or folded.
THEOREM TypeCorrectness == Spec => []TypeOK
<1>1. IInv => TypeOK
  <2> SUFFICES ASSUME IInv PROVE TypeOK
    BY Zenon
  <2>1. \A r \in Tracked(store) : r \in Nat /\ store.blocks[r].slot \in Nat
    BY Zenon DEF IInv, Ready, Sound, TreeOk, BlockRecord, Tracked
  <2>2. AnchorRoot \in Tracked(store)
    BY Zenon DEF IInv, Ready, Sound, TreeOk, Tracked
  <2> QED
    BY <2>1, <2>2, Zenon DEF TypeOK, IInv, Ready, Sound, CheckpointOk, VotesOk, ClockOk, HeadOk
<1> QED
  BY <1>1, Invariance, PTL

\* Both checkpoints of the store name tracked blocks at their own slots, at or
\* above the anchor, whatever post-states track_block is given: a root that
\* is not tracked is never adopted.
THEOREM CheckpointSafety == Spec => []CheckpointsTracked
<1>1. IInv => CheckpointsTracked
  BY Zenon DEF IInv, Ready, Sound, CheckpointOk, CheckpointsTracked, Tracked
<1> QED
  BY <1>1, Invariance, PTL

\* Neither accept_new_votes nor update_safe_target ever meets an unknown
\* origin or a missing parent: the origin is tracked and not below the anchor,
\* and only the anchor has no tracked parent.
THEOREM HeadWalkSafety == Spec => []HeadWalkNeverFails
<1>1. IInv => HeadWalkNeverFails
  BY WalkOk, OriginJustified, Zenon DEF IInv, Ready, Sound, HeadWalkNeverFails
<1> QED
  BY <1>1, Invariance, PTL

\* Whenever the mutex is free the head descends from the justified block:
\* every operation that adopts a checkpoint refreshes the head before it
\* releases the mutex, and the greedy descent never leaves the branch it
\* starts on.
THEOREM HeadSafety == Spec => []HeadOnJustifiedBranch
<1>1. IInv => HeadOnJustifiedBranch
  BY Zenon DEF IInv, HeadOk, HeadOnJustifiedBranch
<1> QED
  BY <1>1, Invariance, PTL

\* A branch above the justified block with the known votes of more than half
\* of the validators contains the head: at each fork no sibling can outweigh
\* it, because no vote counts for two siblings.
THEOREM MajorityRule == Spec => []MajorityDecidesHead
<1>1. IInv => MajorityDecidesHead
  BY Zenon DEF IInv, HeadOk, Supporters, MajorityDecidesHead
<1> QED
  BY <1>1, Invariance, PTL

\* When the finalized block is an ancestor of the head, get_vote_target
\* returns a block of the head's branch that is justifiable after it: the walk
\* back from the head meets the finalized block before it runs out of parents.
THEOREM TargetSafety == Spec => []TargetJustifiable
<1>1. IInv => TargetJustifiable
  <2> SUFFICES ASSUME IInv, store.latest_finalized.root \in Ancestors(store, store.head)
               PROVE  /\ GetVoteTarget(store).root \in Ancestors(store, store.head)
                      /\ IsJustifiableAfter(GetVoteTarget(store).slot, store.latest_finalized.slot)
    BY Zenon DEF TargetJustifiable
  <2> DEFINE fin == store.latest_finalized
  <2>1. /\ TreeOk(store.blocks, AnchorRoot)
        /\ store.head \in Tracked(store) /\ store.safe_target \in Tracked(store)
        /\ fin.slot \in Nat /\ fin.slot >= store.blocks[AnchorRoot].slot
        /\ store.blocks[fin.root].slot = fin.slot
    BY Zenon DEF IInv, Ready, HeadOk, Sound, CheckpointOk, Cp
  <2>2. PICK x \in Ancestors(store, store.head) :
           /\ GetVoteTarget(store) = Checkpoint(x, store.blocks[x].slot)
           /\ \A f \in Ancestors(store, store.head) :
                 store.blocks[f].slot = fin.slot => IsJustifiableAfter(store.blocks[x].slot, fin.slot)
    BY <2>1, TargetOnBranch, Zenon
  <2> QED
    BY <2>1, <2>2 DEF Checkpoint
<1> QED
  BY <1>1, Invariance, PTL

\* The vote this node produced still passes validate_attestation when it is
\* re-imported after signing, whatever was imported in between, unless its
\* source lies above its target: blocks are never dropped, the clock never
\* runs back, and the vote named its blocks with their own slots.
THEOREM VoteSafety == Spec => []OwnVoteValid
<1>1. IInv => OwnVoteValid
  BY OwnValid, Zenon DEF IInv, OwnVoteValid
<1> QED
  BY <1>1, Invariance, PTL

\* The safe target moves only to a block that two thirds of the validators
\* support in the pending pool, or to the justified block: only
\* update_safe_target writes it, and the score it asks for is rounded up.
THEOREM SafeTargetSafety == Spec => SafeTargetSupported
<1>1. IInv /\ [Next]_vars =>
        [store'.safe_target # store.safe_target =>
          \/ store'.safe_target = store.latest_justified.root
          \/ 3 * Cardinality({v \in Validators :
                    /\ store.new_votes[v] # NoVote
                    /\ store'.safe_target \in Ancestors(store, store.new_votes[v].head.root)})
             >= 2 * NumValidators]_vars
  BY StepInv, Zenon DEF SafeTargetStep, Supporters
<1> QED
  BY <1>1, Invariance, PTL DEF Spec, SafeTargetSupported

\* No operation of the engine moves a checkpoint of the store to an earlier
\* slot.
THEOREM Monotonicity == Spec => CheckpointsMonotone
<1>1. IInv /\ [Next]_vars =>
        [/\ store'.latest_justified.slot >= store.latest_justified.slot
         /\ store'.latest_finalized.slot >= store.latest_finalized.slot]_vars
  BY StepSound, Zenon DEF IInv, Ready, Forward
<1> QED
  BY <1>1, Invariance, PTL DEF Spec, CheckpointsMonotone

\* As long as no supermajority votes for an empty slot, the finalized slot of
\* the store stays at or below its justified slot, although track_block adopts
\* the two separately and from different branches.
THEOREM FinalizedBelowJustified ==
    ASSUME EmptySlots = {}
    PROVE  Spec => []FinalizedNotAboveJustified
<1>1. Init => Ordered(store)
  BY InitInv, Zenon
<1>2. IInv /\ Ordered(store) /\ [Next]_vars => Ordered(store)'
  BY StepSound, Zenon DEF IInv, Ready
<1>3. Ordered(store) => FinalizedNotAboveJustified
  BY Zenon DEF Ordered, FinalizedNotAboveJustified
<1> QED
  BY <1>1, <1>2, <1>3, Invariance, PTL DEF Spec
=============================================================================
