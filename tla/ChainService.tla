---------------------------- MODULE ChainService ----------------------------
(***************************************************************************)
(* Persistence and restart: the chain service of crates/runtime (chain/    *)
(* chain/service.rs), the stores of crates/storage and build_engine of     *)
(* crates/node.  A writer, the consensus loop or the sync loop, changes    *)
(* the engine and captures a plan in one critical section of its mutex,    *)
(* and saves the plan after it has released the mutex.                     *)
(*                                                                         *)
(* The store's clock stands still; promotions of votes, which it triggers, *)
(* happen at any moment.                                                   *)
(***************************************************************************)
EXTENDS ForkChoice

CONSTANTS
    Blocks,     \* the block headers offered: [root, slot, parent_root]
    Votes,      \* the votes gossiped: [slot, head, target, source]
    Writers,    \* the tasks that import blocks
    Loop,       \* the one that also produces them
    NoPlan,
    NoHead

ASSUME ChainServiceAssumption ==
    /\ Blocks \subseteq [root: Nat \ {ZeroRoot, AnchorRoot, PrunedRoot}, slot: Nat, parent_root: Nat]
    /\ Votes \subseteq Vote
    /\ Loop \in Writers
    /\ NoPlan \notin [block: Nat, head: Cp, finalized: Cp]

VARIABLES
    world,      \* every block made so far, with its post-state
    up,         \* the process runs
    store,      \* the engine's Store; of the last process, if none runs
    plans,      \* each writer's captured plan, until it is saved
    saved,      \* the roots whose block and post-state are on disk
    head_info,  \* the head record on disk
    single      \* so far only the consensus loop wrote, and nothing failed

vars == <<world, up, store, plans, saved, head_info, single>>

Init ==
    /\ world = FromAnchor.blocks
    /\ up = FALSE
    /\ store = FromAnchor
    /\ plans = [w \in Writers |-> NoPlan]
    /\ saved = {}
    /\ head_info = NoHead
    /\ single = TRUE
-----------------------------------------------------------------------------
(* The engine *)

\* A block's post-state follows from the block: a choice only when it is new.
Posts(b) ==
    IF b.root \in DOMAIN world
    THEN {post \in {world[b.root].post} :
             b.slot = world[b.root].slot /\ b.parent_root = world[b.root].parent_root}
    ELSE PostStates([blocks |-> world], b)

Make(b, post) ==
    world' = [r \in DOMAIN world \cup {b.root} |->
                 IF r \in DOMAIN world THEN world[r]
                 ELSE [slot |-> b.slot, parent_root |-> b.parent_root, post |-> post]]

\* MUTANT of CapturePersistInputs: the finalized checkpoint is the post-state's.
CapturePersistInputsOfState(s, root) ==
    [block |-> root,
     head |-> Checkpoint(s.head, s.blocks[s.head].slot),
     finalized |-> s.blocks[root].post.finalized]

\* capture_persist_inputs, under the mutex.
CapturePersistInputs(s, root) ==
    [block |-> root,
     head |-> Checkpoint(s.head, s.blocks[s.head].slot),
     finalized |-> s.latest_finalized]

\* import_block and import_block_synced, up to the release of the mutex.
ImportBlock(w, b) ==
    /\ up /\ plans[w] = NoPlan
    /\ Extends(store, b)
    /\ \E post \in Posts(b) :
          /\ Make(b, post)
          /\ store' = Import(store, b, post, EmptyPool)
    /\ plans' = [plans EXCEPT ![w] = CapturePersistInputs(store', b.root)]
    /\ single' = (single /\ w = Loop)
    /\ UNCHANGED <<up, saved, head_info>>

\* produce_block, up to the release of the mutex.
ProduceBlock(b) ==
    LET s == AcceptNewVotes(store)
    IN  /\ up /\ plans[Loop] = NoPlan
        /\ b.parent_root = s.head
        /\ Extends(s, b)
        /\ \E post \in Posts(b) :
              /\ Make(b, post)
              /\ store' = AcceptNewVotes(TrackBlock(s, b, post))
        /\ plans' = [plans EXCEPT ![Loop] = CapturePersistInputs(store', b.root)]
        /\ UNCHANGED <<up, saved, head_info, single>>

ImportAttestation(v, vote) ==
    /\ up
    /\ ValidateAttestation(store, vote)
    /\ store' = GossipVote(store, v, vote)
    /\ UNCHANGED <<world, up, plans, saved, head_info, single>>

\* A tick or a vote duty promotes the pending votes and moves the head.
PromoteVotes ==
    /\ up
    /\ store' = AcceptNewVotes(store)
    /\ UNCHANGED <<world, up, plans, saved, head_info, single>>
-----------------------------------------------------------------------------
(* Storage *)

\* MUTANT of SaveAccepted: the block is saved by a later call.
SaveAcceptedHeadOnly(w) ==
    /\ plans[w] # NoPlan
    /\ head_info' = [head |-> plans[w].head, finalized |-> plans[w].finalized]
    /\ plans' = [plans EXCEPT ![w] = NoPlan]
    /\ UNCHANGED <<world, up, store, saved, single>>

\* save_accepted: block, post-state and head in one transaction.  The head
\* record is overwritten, whatever it was.
SaveAccepted(w) ==
    /\ plans[w] # NoPlan
    /\ saved' = saved \cup {plans[w].block}
    /\ head_info' = [head |-> plans[w].head, finalized |-> plans[w].finalized]
    /\ plans' = [plans EXCEPT ![w] = NoPlan]
    /\ UNCHANGED <<world, up, store, single>>

\* The transaction fails, or signing a produced block does.  The caller logs
\* the error; the engine keeps the block and answers a retry with
\* DuplicateBlock.
SaveFails(w) ==
    /\ plans[w] # NoPlan
    /\ plans' = [plans EXCEPT ![w] = NoPlan]
    /\ single' = FALSE
    /\ UNCHANGED <<world, up, store, saved, head_info>>
-----------------------------------------------------------------------------
(* Crash and restart *)

Crash ==
    /\ up
    /\ up' = FALSE
    /\ plans' = [w \in Writers |-> NoPlan]
    /\ UNCHANGED <<world, store, saved, head_info, single>>

\* decode_head accepts the record.
Decodes == head_info.finalized.slot <= head_info.head.slot

PayloadPresent == head_info.head.root \in saved

\* build_engine with a head on disk.
Resume ==
    /\ ~up /\ head_info # NoHead
    /\ Decodes /\ PayloadPresent
    /\ store' = FromTrustedHead(head_info.head.root, world[head_info.head.root])
    /\ up' = TRUE
    /\ UNCHANGED <<world, plans, saved, head_info, single>>

\* build_engine without one, or with one whose block is missing; a crash
\* between the three writes of persist_anchor leaves the head record alone.
StartAtGenesis ==
    /\ ~up
    /\ head_info # NoHead => Decodes /\ ~PayloadPresent
    /\ store' = FromAnchor
    /\ saved' = saved \cup {AnchorRoot}
    /\ \/ /\ head_info' = [head |-> Checkpoint(AnchorRoot, 0), finalized |-> Checkpoint(AnchorRoot, 0)]
          /\ up' = TRUE
       \/ UNCHANGED <<head_info, up>>
    /\ UNCHANGED <<world, plans, single>>

Next ==
    \/ \E w \in Writers, b \in Blocks : ImportBlock(w, b)
    \/ \E b \in Blocks : ProduceBlock(b)
    \/ \E v \in Validators, vote \in Votes : ImportAttestation(v, vote)
    \/ PromoteVotes
    \/ \E w \in Writers : SaveAccepted(w) \/ SaveFails(w)
    \/ Crash
    \/ Resume
    \/ StartAtGenesis

Spec == Init /\ [][Next]_vars
-----------------------------------------------------------------------------
(* Properties *)

Made(cp) == cp.root \in DOMAIN world /\ cp.slot = world[cp.root].slot

\* Everything on disk and in memory is a block that was made; the head record
\* and every plan name blocks with their own slots.
TypeOK ==
    /\ Tracked(store) \cup saved \subseteq DOMAIN world
    /\ \A r \in Tracked(store) : store.blocks[r] = world[r]
    /\ \A w \in Writers : plans[w] # NoPlan =>
          plans[w].block \in Tracked(store) /\ Made(plans[w].head) /\ Made(plans[w].finalized)
    /\ head_info # NoHead => Made(head_info.head) /\ Made(head_info.finalized)

\* The head record that any interleaving of writers, failures and crashes
\* leaves behind is one that decode_head accepts: the node can start again.
HeadDecodes == head_info # NoHead => Decodes

\* The block and the post-state of the recorded head are on disk, so a restart
\* resumes from it, as long as one task writes and no write fails.
HeadPayloadPresent == single /\ head_info # NoHead => PayloadPresent

\* No failed write leaves the recorded head without its block and state for
\* good: if they are not on disk, the plan that brings them is under way.
\* Stated of persist_plan.  The head of a plan may be the block of another
\* writer's plan, and that one may fail.
HeadNotStranded ==
    head_info # NoHead =>
        PayloadPresent \/ \E w \in Writers : plans[w] # NoPlan /\ plans[w].block = head_info.head.root

\* The recorded finalized slot never falls, across restarts too, as long as one
\* task writes and no write fails.
RecordedFinalizedMonotone ==
    [][single' /\ head_info # NoHead => head_info'.finalized.slot >= head_info.finalized.slot]_vars

\* A restart does not take the finalized slot below what the process before
\* reported, although the head on disk may be older than the engine's, as long
\* as one task writes and no write fails.  Stated of from_trusted_head for a
\* node that never leaves its own chain; with forks
\* the head on disk can be at a lower slot than a block finalized since.
FinalizedMonotone ==
    [][single' => store'.latest_finalized.slot >= store.latest_finalized.slot]_vars

\* The same without the condition, as the doc of from_trusted_head has it.
FinalizedNeverFalls ==
    [][store'.latest_finalized.slot >= store.latest_finalized.slot]_vars
=============================================================================
