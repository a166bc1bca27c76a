----------------------------- MODULE ForkChoice -----------------------------
(***************************************************************************)
(* The fork-choice store of crates/forkchoice (store.rs, helpers.rs,       *)
(* production.rs, time.rs), as operators on a store record.                *)
(*                                                                         *)
(* Roots are numbers, because equal weights are decided by the byte order  *)
(* of the roots.  A block's post-state is represented by the two           *)
(* checkpoints the store reads from it; which ones it may hold is what     *)
(* StateTransitionLoop guarantees of state_transition: both name slots of  *)
(* the block's own branch, the finalized one is below the justified one    *)
(* unless nothing was justified yet, and not below the parent's.           *)
(***************************************************************************)
EXTENDS Slot, FiniteSets

CONSTANTS
    NumValidators,      \* length of the validator registry
    ZeroRoot,           \* Bytes32::zero()
    AnchorRoot,         \* root of the block the store starts from
    PrunedRoot,         \* root of a block below a trusted anchor
    ResumeSlot,         \* slot of the anchor after a restart
    EmptySlots,         \* slots without a block that a supermajority may vote for
    NoVote              \* no entry in a vote pool

Validators == 0 .. NumValidators - 1
IntervalsPerSlot == 4
JustificationLookbackSlots == 3

Checkpoint(r, s) == [root |-> r, slot |-> s]
Zero == Checkpoint(ZeroRoot, 0)
Cp == [root: Nat, slot: Nat]
Vote == [slot: Nat, head: Cp, target: Cp, source: Cp]
Pool == [Validators -> Vote \cup {NoVote}]
EmptyPool == [v \in Validators |-> NoVote]

ASSUME ForkChoiceAssumption ==
    /\ NumValidators \in Nat \ {0}
    /\ {ZeroRoot, AnchorRoot, PrunedRoot} \subseteq Nat
    /\ ZeroRoot # AnchorRoot /\ PrunedRoot # AnchorRoot
    /\ ResumeSlot \in Nat \ {0}
    /\ EmptySlots \subseteq Nat
    /\ NoVote \notin Vote
-----------------------------------------------------------------------------
(* The block tree *)

Tracked(s) == DOMAIN s.blocks

\* r and the blocks below it, along parent_root.
Ancestors(s, r) ==
    LET anc[q \in Tracked(s)] ==
            IF s.blocks[q].parent_root \in Tracked(s)
            THEN {q} \cup anc[s.blocks[q].parent_root]
            ELSE {q}
    IN  anc[r]

MinBlockRoot(s) ==
    CHOOSE r \in Tracked(s) : \A q \in Tracked(s) \ {r} :
        s.blocks[r].slot < s.blocks[q].slot \/ (s.blocks[r].slot = s.blocks[q].slot /\ r < q)

\* The block the descent starts from; the zero root stands for the lowest one.
Origin(s) == IF s.latest_justified.root = ZeroRoot THEN MinBlockRoot(s) ELSE s.latest_justified.root

\* get_fork_choice_head returns no error: the origin is tracked, and walking
\* back from the head of a vote finds every block above the origin.
HeadWalkOk(s, pool) ==
    /\ Origin(s) \in Tracked(s)
    /\ \A v \in Validators :
          pool[v] # NoVote /\ pool[v].head.root \in Tracked(s) =>
              \A q \in Tracked(s) \cap Ancestors(s, pool[v].head.root) :
                  s.blocks[q].slot > s.blocks[Origin(s)].slot
                  => s.blocks[q].parent_root \in Tracked(s)

\* The votes of a pool for blocks above the origin, by the blocks they count
\* for: a vote adds one to its head and to every ancestor above the origin.
Weight(s, pool, r) ==
    Cardinality({v \in Validators :
        /\ pool[v] # NoVote
        /\ pool[v].head.root \in Tracked(s)
        /\ s.blocks[r].slot > s.blocks[Origin(s)].slot
        /\ r \in Ancestors(s, pool[v].head.root)})

\* MUTANT of GetForkChoiceHead: the root alone decides between children.
GetForkChoiceHeadByRoot(s, pool, min_score) ==
    LET weight == [r \in Tracked(s) |-> Weight(s, pool, r)]
        Children(r) == {c \in Tracked(s) : s.blocks[c].parent_root = r /\ weight[c] >= min_score}
        descend[r \in Tracked(s)] ==
            IF Children(r) = {} THEN r
            ELSE descend[CHOOSE c \in Children(r) : \A d \in Children(r) : d <= c]
    IN  descend[Origin(s)]

\* The greedy descent of get_fork_choice_head.
GetForkChoiceHead(s, pool, min_score) ==
    LET weight == [r \in Tracked(s) |-> Weight(s, pool, r)]
        Children(r) == {c \in Tracked(s) : s.blocks[c].parent_root = r /\ weight[c] >= min_score}
        Best(cs) == CHOOSE c \in cs : \A d \in cs \ {c} :
                        weight[d] < weight[c] \/ (weight[d] = weight[c] /\ d < c)
        descend[r \in Tracked(s)] ==
            IF Children(r) = {} THEN r ELSE descend[Best(Children(r))]
    IN  descend[Origin(s)]

CurrentSlot(s) == s.time \div IntervalsPerSlot
-----------------------------------------------------------------------------
(* Construction *)

SeedAnchor(root, slot, parent_root, post, justified, finalized) ==
    [time |-> slot * IntervalsPerSlot,
     head |-> root,
     safe_target |-> root,
     latest_justified |-> justified,
     latest_finalized |-> finalized,
     blocks |-> [r \in {root} |-> [slot |-> slot, parent_root |-> parent_root, post |-> post]],
     known_votes |-> EmptyPool,
     new_votes |-> EmptyPool]

\* from_anchor at genesis, where both checkpoints of the state are zero and
\* normalize_genesis_checkpoint puts the anchor's root in them.
FromAnchor ==
    SeedAnchor(AnchorRoot, 0, ZeroRoot, [justified |-> Zero, finalized |-> Zero],
               Checkpoint(AnchorRoot, 0), Checkpoint(AnchorRoot, 0))

\* MUTANT of FromTrustedHead: the store takes the checkpoints of the state.
FromTrustedHeadOfState(root, block) ==
    SeedAnchor(root, block.slot, block.parent_root, block.post,
               block.post.justified, block.post.finalized)

\* from_trusted_head: the block itself is the justified and the finalized one.
FromTrustedHead(root, block) ==
    SeedAnchor(root, block.slot, block.parent_root, block.post,
               Checkpoint(root, block.slot), Checkpoint(root, block.slot))

\* A block whose parent, and whatever its post-state names, will not be tracked.
ResumeBlock ==
    LET pruned == Checkpoint(PrunedRoot, ResumeSlot - 1)
    IN  [slot |-> ResumeSlot, parent_root |-> PrunedRoot,
         post |-> [justified |-> pruned, finalized |-> pruned]]
-----------------------------------------------------------------------------
(* Hooks *)

\* The votes are promoted even if the head walk then fails.
AcceptNewVotes(s) ==
    LET known == [v \in Validators |->
                     IF s.new_votes[v] # NoVote THEN s.new_votes[v] ELSE s.known_votes[v]]
    IN  [s EXCEPT !.known_votes = known,
                  !.new_votes = EmptyPool,
                  !.head = IF HeadWalkOk(s, known) THEN GetForkChoiceHead(s, known, 0) ELSE @]

\* ceil(2N/3)
MinTargetScore == (2 * NumValidators + 2) \div 3

\* MUTANT of UpdateSafeTarget: it scores the known votes.
UpdateSafeTargetKnown(s) ==
    [s EXCEPT !.safe_target =
        IF HeadWalkOk(s, s.known_votes) THEN GetForkChoiceHead(s, s.known_votes, MinTargetScore) ELSE @]

UpdateSafeTarget(s) ==
    [s EXCEPT !.safe_target =
        IF HeadWalkOk(s, s.new_votes) THEN GetForkChoiceHead(s, s.new_votes, MinTargetScore) ELSE @]

TickInterval(s, has_proposal) ==
    LET t == [s EXCEPT !.time = @ + 1]
        interval == t.time % IntervalsPerSlot
    IN  IF interval = 2 THEN UpdateSafeTarget(t)
        ELSE IF interval = 3 \/ (interval = 0 /\ has_proposal) THEN AcceptNewVotes(t)
        ELSE t
-----------------------------------------------------------------------------
(* Votes *)

\* A slot-0 vote whose source is the all-zero placeholder means the anchor.
ResolvedSourceRoot(s, vote) ==
    IF /\ vote.source = Zero
       /\ vote.slot = 0
       /\ vote.target = Checkpoint(s.latest_justified.root, 0)
       /\ s.latest_justified.slot = 0
       /\ s.latest_justified.root \in Tracked(s)
       /\ s.blocks[s.latest_justified.root].slot = 0
    THEN s.latest_justified.root
    ELSE vote.source.root

ValidateAttestation(s, vote) ==
    LET source == ResolvedSourceRoot(s, vote)
    IN  /\ {source, vote.target.root, vote.head.root} \subseteq Tracked(s)
        /\ s.blocks[source].slot <= s.blocks[vote.target.root].slot
        /\ vote.source.slot <= vote.target.slot
        /\ vote.head.slot >= vote.target.slot
        /\ s.blocks[source].slot = vote.source.slot
        /\ s.blocks[vote.target.root].slot = vote.target.slot
        /\ s.blocks[vote.head.root].slot = vote.head.slot
        /\ vote.slot <= CurrentSlot(s) + 1

IsNewer(vote, existing) == existing = NoVote \/ existing.slot < vote.slot

\* process_attestation with is_from_block = false.
GossipVote(s, v, vote) ==
    IF IsNewer(vote, s.new_votes[v]) THEN [s EXCEPT !.new_votes[v] = vote] ELSE s

\* process_attestation with is_from_block = true, for the votes of a body: a
\* vote that does not validate is skipped.  Of several votes of one validator
\* the newest decides, so a body gives each validator at most one.
FoldBlockAttestations(s, body) ==
    LET folds(v) == body[v] # NoVote /\ ValidateAttestation(s, body[v])
    IN  [s EXCEPT
           !.known_votes = [v \in Validators |->
               IF folds(v) /\ IsNewer(body[v], @[v]) THEN body[v] ELSE @[v]],
           !.new_votes = [v \in Validators |->
               IF folds(v) /\ @[v] # NoVote /\ @[v].slot < body[v].slot THEN NoVote ELSE @[v]]]
-----------------------------------------------------------------------------
(* Blocks *)

\* MUTANT of ShouldAdopt: any other tracked checkpoint is adopted.
ShouldAdoptOther(s, candidate, current) ==
    candidate # current /\ candidate.root \in Tracked(s)

\* MUTANT of ShouldAdopt: the root need not be tracked.
ShouldAdoptUntracked(s, candidate, current) == candidate.slot > current.slot

ShouldAdopt(s, candidate, current) ==
    candidate.slot > current.slot /\ candidate.root \in Tracked(s)

\* MUTANT of TrackBlock: the justified checkpoint is adopted only when the
\* finalized one is not.
TrackBlockElseIf(s, b, post) ==
    LET t == [s EXCEPT !.blocks = [r \in Tracked(s) \cup {b.root} |->
                 IF r \in Tracked(s) THEN s.blocks[r]
                 ELSE [slot |-> b.slot, parent_root |-> b.parent_root, post |-> post]]]
    IN  IF ShouldAdopt(t, post.finalized, t.latest_finalized)
        THEN [t EXCEPT !.latest_finalized = post.finalized]
        ELSE [t EXCEPT !.latest_justified =
                 IF ShouldAdopt(t, post.justified, @) THEN post.justified ELSE @]

\* insert_block and adopt_post_state_checkpoints.
TrackBlock(s, b, post) ==
    LET t == [s EXCEPT !.blocks = [r \in Tracked(s) \cup {b.root} |->
                 IF r \in Tracked(s) THEN s.blocks[r]
                 ELSE [slot |-> b.slot, parent_root |-> b.parent_root, post |-> post]]]
    IN  [t EXCEPT
           !.latest_justified = IF ShouldAdopt(t, post.justified, @) THEN post.justified ELSE @,
           !.latest_finalized = IF ShouldAdopt(t, post.finalized, @) THEN post.finalized ELSE @]

\* The checkpoints state_transition may leave in the post-state of b: blocks of
\* its parent's branch; what the state of a trusted anchor still names below it;
\* and, because process_attestations accepts the all-zero root that history holds
\* for an empty slot, an empty slot of that branch, up to the one before b.
Branch(s, b) ==
    {Checkpoint(r, s.blocks[r].slot) : r \in {q \in Tracked(s) : q \in Ancestors(s, b.parent_root)}}
    \cup {cp \in {Checkpoint(PrunedRoot, ResumeSlot - 1)} :
             s.blocks[AnchorRoot].post.finalized = cp}
    \cup {Checkpoint(ZeroRoot, n) : n \in {m \in EmptySlots :
             s.blocks[AnchorRoot].slot < m /\ m < b.slot
             /\ \A q \in Ancestors(s, b.parent_root) : s.blocks[q].slot # m}}

PostStates(s, b) ==
    {post \in [justified: Branch(s, b), finalized: Branch(s, b)] :
        /\ post.finalized.slot <= post.justified.slot
        /\ post.finalized.slot = post.justified.slot =>
              post.finalized.slot = 0 \/ post.finalized.root = PrunedRoot
        /\ post.finalized.slot >= s.blocks[b.parent_root].post.finalized.slot}

\* The header checks of state_transition that the tree depends on.
Extends(s, b) ==
    /\ b.root \notin Tracked(s)
    /\ b.parent_root \in Tracked(s)
    /\ b.slot > s.blocks[b.parent_root].slot

\* MUTANT of Import: the head is not refreshed.
ImportNoRefresh(s, b, post, body) == FoldBlockAttestations(TrackBlock(s, b, post), body)

Import(s, b, post, body) ==
    AcceptNewVotes(FoldBlockAttestations(TrackBlock(s, b, post), body))
-----------------------------------------------------------------------------
(* Production *)

\* The ancestor of r reached by at most n steps that stop at the floor.
WalkBack(s, r, n, floor) ==
    LET walk[i \in 0 .. n] ==
            IF i = 0 THEN r
            ELSE IF s.blocks[walk[i - 1]].slot <= floor THEN walk[i - 1]
            ELSE s.blocks[walk[i - 1]].parent_root
    IN  walk[n]

\* MUTANT of GetVoteTarget: the second walk is missing.
GetVoteTargetOneWalk(s) ==
    LET finalized == s.latest_finalized.slot
        safe == s.blocks[s.safe_target].slot
        floor == IF safe > finalized THEN safe ELSE finalized
        target == WalkBack(s, s.head, JustificationLookbackSlots, floor)
    IN  Checkpoint(target, s.blocks[target].slot)

\* get_vote_target: towards the safe target, then back to a justifiable slot.
GetVoteTarget(s) ==
    LET finalized == s.latest_finalized.slot
        safe == s.blocks[s.safe_target].slot
        floor == IF safe > finalized THEN safe ELSE finalized
        cursor == WalkBack(s, s.head, JustificationLookbackSlots, floor)
        back[r \in Tracked(s)] ==
            IF /\ s.blocks[r].slot > finalized
               /\ ~IsJustifiableAfter(s.blocks[r].slot, finalized)
            THEN back[s.blocks[r].parent_root]
            ELSE r
        target == back[cursor]
    IN  Checkpoint(target, s.blocks[target].slot)

\* MUTANT of OwnVote: the head checkpoint carries the slot of the vote.
OwnVoteClockSlot(s, slot) ==
    [slot |-> slot,
     head |-> Checkpoint(s.head, slot),
     target |-> GetVoteTarget(s),
     source |-> s.latest_justified]

\* produce_attestation_vote, once the head has been refreshed.
OwnVote(s, slot) ==
    [slot |-> slot,
     head |-> Checkpoint(s.head, s.blocks[s.head].slot),
     target |-> GetVoteTarget(s),
     source |-> s.latest_justified]

\* The justified checkpoint of a candidate block without attestations.
CandidateJustified(s) ==
    LET cp == s.blocks[s.head].post.justified
    IN  IF s.blocks[s.head].slot = 0 THEN Checkpoint(s.head, 0) ELSE cp

\* A pooled vote for a slot the candidate's history does not reach: once it is
\* collected, process_attestations refuses the whole candidate.
OutOfRange(s, slot) == {v \in Validators :
    s.known_votes[v] # NoVote /\ s.known_votes[v].target.slot >= slot}
=============================================================================
