------------------------------- MODULE Engine -------------------------------
(***************************************************************************)
(* One node's chain: the fork-choice store behind the engine mutex (crates/ *)
(* runtime/src/chain) and its two writers.  The consensus loop of           *)
(* crates/node drains gossip, performs the duty of the interval and ticks   *)
(* the clock, in this order; the sync loop imports blocks at any moment,    *)
(* also between the production of this node's vote and its re-import,       *)
(* because the vote is signed outside the mutex.  Every action is one       *)
(* critical section; an operation that is refused before it changes the     *)
(* store is a stuttering step.                                              *)
(***************************************************************************)
EXTENDS ForkChoice

CONSTANTS
    Blocks,     \* the block headers offered: [root, slot, parent_root]
    Votes,      \* the votes offered: [slot, head, target, source]
    Bodies,     \* the attestation bodies offered, by validator
    Local,      \* the validators this node runs
    MaxTicks    \* bound on the ticks of the consensus loop

ASSUME EngineAssumption ==
    /\ Blocks \subseteq [root: Nat \ {ZeroRoot, AnchorRoot, PrunedRoot}, slot: Nat, parent_root: Nat]
    /\ Votes \subseteq Vote
    /\ Bodies \subseteq [Validators -> Vote \cup {NoVote}]
    /\ Local \subseteq Validators
    /\ MaxTicks \in Nat

VARIABLES
    store,          \* the Store
    own,            \* this node's vote between its production and its re-import
    served,         \* the local validators whose duty was performed in this tick
    has_proposal    \* this node produced the block of this slot

vars == <<store, own, served, has_proposal>>

Init ==
    /\ store \in {FromAnchor, FromTrustedHead(AnchorRoot, ResumeBlock)}
    /\ own = NoVote
    /\ served = {}
    /\ has_proposal = FALSE
-----------------------------------------------------------------------------
(* The schedule of the consensus loop *)

VoteDueInterval == IntervalsPerSlot \div 2

\* The tick counter starts at 0 with the process, the store's clock at its
\* anchor.
LoopTick == store.time - store.blocks[AnchorRoot].slot * IntervalsPerSlot
LoopSlot == LoopTick \div IntervalsPerSlot
LoopInterval == LoopTick % IntervalsPerSlot

ProposerForSlot == {v \in Local : v = LoopSlot % NumValidators}

Duties ==
    CASE LoopInterval = 0 -> ProposerForSlot
      [] LoopInterval = VoteDueInterval -> Local \ ProposerForSlot
      [] OTHER -> {}

\* Validator v performs its duty now: nothing is being signed.
Serve(v) ==
    /\ own = NoVote
    /\ v \in Duties \ served
    /\ served' = served \cup {v}
-----------------------------------------------------------------------------
(* Operations *)

\* import_block and import_block_synced.
ImportBlock(b) ==
    /\ Extends(store, b)
    /\ \E post \in PostStates(store, b), body \in Bodies :
          store' = Import(store, b, post, body)
    /\ UNCHANGED <<own, served, has_proposal>>

\* Gossip is drained before the duty of the tick.
ImportAttestation(v, vote) ==
    /\ served = {}
    /\ ValidateAttestation(store, vote)
    /\ store' = GossipVote(store, v, vote)
    /\ UNCHANGED <<own, served, has_proposal>>

\* produce_block_unsigned: block, then the proposer's vote, in one critical
\* section.
ProduceBlock(b) ==
    LET s == AcceptNewVotes(store)
        v == LoopSlot % NumValidators
    IN  /\ LoopInterval = 0 /\ Serve(v)
        /\ b.slot = LoopSlot /\ b.parent_root = s.head
        /\ Extends(s, b)
        /\ \A u \in OutOfRange(s, b.slot) : s.known_votes[u].source # CandidateJustified(s)
        /\ \E post \in PostStates(s, b) :
              LET t == AcceptNewVotes(TrackBlock(s, b, post))
              IN  /\ store' = t
                  /\ own' = [validator_id |-> v, data |-> OwnVote(t, b.slot)]
        /\ UNCHANGED has_proposal

\* A failed production leaves the pending votes promoted.
ProduceBlockFails ==
    LET s == AcceptNewVotes(store)
    IN  /\ LoopInterval = 0 /\ Serve(LoopSlot % NumValidators)
        /\ LoopSlot <= s.blocks[s.head].slot \/ OutOfRange(s, LoopSlot) # {}
        /\ store' = s
        /\ UNCHANGED <<own, has_proposal>>

ProduceAttestation(v) ==
    LET s == AcceptNewVotes(store)
    IN  /\ LoopInterval = VoteDueInterval /\ Serve(v)
        /\ store' = s
        /\ own' = [validator_id |-> v, data |-> OwnVote(s, LoopSlot)]
        /\ UNCHANGED has_proposal

\* After signing, the vote goes through import_attestation; a rejection is
\* only logged.  A proposal counts unless saving the block fails.
Reimport ==
    /\ own # NoVote
    /\ store' = IF ValidateAttestation(store, own.data)
                THEN GossipVote(store, own.validator_id, own.data)
                ELSE store
    /\ own' = NoVote
    /\ has_proposal' \in IF LoopInterval = 0 THEN BOOLEAN ELSE {has_proposal}
    /\ UNCHANGED served

SignFails ==
    /\ own # NoVote
    /\ own' = NoVote
    /\ UNCHANGED <<store, served, has_proposal>>

\* The tick ends the loop's iteration; a new slot forgets the proposal.
Tick ==
    /\ own = NoVote
    /\ Duties \subseteq served
    /\ LoopTick < MaxTicks
    /\ store' = TickInterval(store, has_proposal)
    /\ served' = {}
    /\ has_proposal' = (has_proposal /\ store'.time % IntervalsPerSlot # 0)
    /\ UNCHANGED own

Next ==
    \/ \E b \in Blocks : ImportBlock(b) \/ ProduceBlock(b)
    \/ \E v \in Validators, vote \in Votes : ImportAttestation(v, vote)
    \/ ProduceBlockFails
    \/ \E v \in Local : ProduceAttestation(v)
    \/ Reimport
    \/ SignFails
    \/ Tick

Spec == Init /\ [][Next]_vars
-----------------------------------------------------------------------------
(* Properties *)

\* The store is well formed and its head and safe target are tracked blocks.
TypeOK ==
    /\ store.time \in Nat
    /\ \A r \in Tracked(store) : r \in Nat /\ store.blocks[r].slot \in Nat
    /\ {store.head, store.safe_target, AnchorRoot} \subseteq Tracked(store)
    /\ {store.latest_justified, store.latest_finalized} \subseteq Cp
    /\ store.known_votes \in Pool /\ store.new_votes \in Pool
    /\ own = NoVote \/ own \in [validator_id: Validators, data: Vote]
    /\ served \subseteq Local /\ has_proposal \in BOOLEAN

\* Both checkpoints of the store name tracked blocks, with their own slots,
\* although post-states also name blocks below a trusted anchor and empty
\* slots; and neither falls below the anchor.
CheckpointsTracked ==
    \A cp \in {store.latest_justified, store.latest_finalized} :
        /\ cp.root \in Tracked(store)
        /\ cp.slot = store.blocks[cp.root].slot
        /\ cp.slot >= store.blocks[AnchorRoot].slot

\* The head walk of accept_new_votes and update_safe_target never fails, for
\* either pool.  So no import is reported as rejected after track_block has
\* already changed the store, and no tick leaves a stale head behind.
HeadWalkNeverFails ==
    HeadWalkOk(store, store.known_votes) /\ HeadWalkOk(store, store.new_votes)

\* The head descends from the justified block whenever the mutex is free,
\* although track_block moves the justified checkpoint and leaves the head to
\* a later call.
HeadOnJustifiedBranch ==
    store.latest_justified.root \in Ancestors(store, store.head)

\* The store's finalized slot is not above its justified slot, although each
\* checkpoint is adopted on its own, from post-states of different branches.
\* The gauges of crates/node rely on it.  It holds as long as no supermajority
\* votes for an empty slot (EmptySlots = {}).
FinalizedNotAboveJustified ==
    store.latest_finalized.slot <= store.latest_justified.slot

\* Neither checkpoint of the store ever moves to an earlier slot.
CheckpointsMonotone ==
    [][/\ store'.latest_justified.slot >= store.latest_justified.slot
       /\ store'.latest_finalized.slot >= store.latest_finalized.slot]_vars

\* A branch above the justified block that holds the known votes of more than
\* half of the validators contains the head.
MajorityDecidesHead ==
    \A r \in Tracked(store) :
        /\ store.latest_justified.root \in Ancestors(store, r)
        /\ 2 * Cardinality({v \in Validators :
                  /\ store.known_votes[v] # NoVote
                  /\ r \in Ancestors(store, store.known_votes[v].head.root)}) > NumValidators
        => r \in Ancestors(store, store.head)

\* The safe target only moves to a block that two thirds of the validators'
\* pending votes support, or back to the justified block.
SafeTargetSupported ==
    [][store'.safe_target # store.safe_target =>
          \/ store'.safe_target = store.latest_justified.root
          \/ 3 * Cardinality({v \in Validators :
                    /\ store.new_votes[v] # NoVote
                    /\ store'.safe_target \in Ancestors(store, store.new_votes[v].head.root)})
             >= 2 * NumValidators]_vars

\* When the finalized block is an ancestor of the head, the target of a vote
\* is on the head's branch and justifiable after the finalized slot.
TargetJustifiable ==
    LET target == GetVoteTarget(store)
    IN  store.latest_finalized.root \in Ancestors(store, store.head) =>
            /\ target.root \in Ancestors(store, store.head)
            /\ IsJustifiableAfter(target.slot, store.latest_finalized.slot)

\* This node's own vote passes its own validation when it is re-imported after
\* signing, whatever was imported in between, unless its source lies above its
\* target.
OwnVoteValid ==
    own # NoVote /\ own.data.source.slot <= own.data.target.slot
        => ValidateAttestation(store, own.data)
-----------------------------------------------------------------------------
(* Statements of the repository that the code does not meet *)

DueVotes(s) == [v \in Validators |->
    IF s.new_votes[v] # NoVote /\ s.new_votes[v].slot > CurrentSlot(s)
    THEN NoVote ELSE s.new_votes[v]]

\* A pending vote for a future slot has no effect before it is promoted: the
\* safe target is the one the other pending votes give.  Stated of the gossip
\* branch of process_attestation; update_safe_target scores every pending vote.
FutureVotesInert ==
    [][store'.safe_target # store.safe_target =>
          store'.safe_target = GetForkChoiceHead(store', DueVotes(store'), MinTargetScore)]_vars

\* A placeholder vote of slot 0 that a later vote of its validator superseded
\* does not come back.  Stated of collect_includable_votes; accept_new_votes
\* replaces a known vote by whatever is pending, and the pending pool, empty
\* after each promotion, admits votes older than the known one.
PlaceholderStaysSuperseded ==
    [][\A v \in Validators :
          store.known_votes[v] # NoVote /\ store.known_votes[v].slot > 0
          => store'.known_votes[v] # NoVote /\ store'.known_votes[v].source # Zero]_vars

\* The justified slot is not above the slot of the clock.  Stated of the chain
\* gauges; no import compares the slot of a block with the clock.
JustifiedNotAboveClock == store.latest_justified.slot <= CurrentSlot(store)
=============================================================================
