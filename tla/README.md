# A TLA+ model of lean-rust

lean-rust is a Lean Ethereum consensus client. This directory holds a TLA+
model of it, the TLC configurations that check the model, and TLAPS proofs of
the properties that matter most. Paths below are relative to `src/crates/`.

## The system

| Part | State | Operations | Talks to |
| --- | --- | --- | --- |
| State transition (`protocol/src/state.rs`) | one `State` per block: history, justified slots, vote tally, two checkpoints | `process_slots`, `process_block_header`, `process_attestations`, `state_transition` | called by the engine and by production |
| Justifiability (`protocol/src/slot.rs`) | none | `is_justifiable_after`, `isqrt_u64` | state transition, vote target |
| Fork-choice store (`forkchoice/src`) | block tree, known and pending votes, head, safe target, justified, finalized, clock | `track_block`, `process_attestation`, `accept_new_votes`, `update_safe_target`, `tick_interval`, `get_vote_target`, `produce_block`, `produce_attestation_vote` | engine |
| Engine (`runtime/src/chain/engine`) | the store behind one mutex | imports, production, tick, snapshots | chain service |
| Chain service (`runtime/src/chain/chain`) | engine, signer, storage | import + save, produce + sign + re-import + save | both loops, API |
| Consensus loop (`node/src/consensus_loop.rs`) | tick counter, `has_proposal` | per tick: drain gossip, duty of the interval, tick | chain service, p2p |
| Sync loop (`runtime/src/sync`) | walks in flight | status exchange, walk back by root, import forward | chain service, p2p |
| One-time-signature signer (`runtime/src/duties`, `crypto`) | `last_signed` per key, persisted watermark | sign, persist, resume | chain service, storage |
| Storage (`storage`) | blocks, states, head, watermarks | `save_accepted`, loads | chain service, node assembly |
| P2P (`runtime/src/p2p`) | swarm task, peer registry, outbound requests, admission slots | commands, gossip, status handshake, blocks by root | both loops |
| Wire (`networking`, `ssz`, `types`, the codecs of `protocol` and `runtime/src/p2p/host`) | a cache of decompressed gossip | encode, decode, hash-tree-root, frames | p2p, storage |
| Lifecycle (`runtime/src/core`) | service states | start in order, stop in reverse within a budget | everything |

What makes it hard: two writers (consensus loop and sync loop) interleave at
the engine mutex; signing and saving happen outside it; votes are promoted
between pools by several callers; checkpoints are adopted from post-states of
different branches; justifiability has gaps that grow with distance; a restart
resumes from a head whose state names blocks the store no longer has; one swarm
task answers callers that may be dropped, over a bounded channel; a stop future
may be dropped half way; and a stream has no marks between its frames.

## Modules

| Module | Models |
| --- | --- |
| `Slot` (`ProtocolProofs`) | the justifiability rule and the integer square root, as operators |
| `IsqrtLoop` (`MCIsqrt`, `ProtocolProofs`) | `isqrt_u64`, one step per iteration |
| `StateTransition` | the state-transition function, as operators on a state record |
| `StateTransitionLoop` (`MCStateTransition`, `ProtocolProofs`) | a state advancing block by block, one step per vote, with every error return |
| `Finality` | the abstract promise: the chain grows, justification is not withdrawn, finality does not move back |
| `ForkChoice` (`ForkChoiceProofs`) | the fork-choice store, as operators on a store record |
| `Engine` (`MCEngine`, `EngineProofs`) | the store behind the mutex with its writers: block imports at any time, and the consensus loop's drain, duty and tick |
| `ChainService` (`MCChainService`, `ChainServiceProofs`) | plans captured under the mutex and saved outside it by two writers, failing saves, crash, resume, fallback to genesis |
| `OtsSigner` (`MCOtsSigner`, `RuntimeProofs`) | the one-time-key guard: window, sign, save, release, crash, resume, replaced key files |
| `SyncLoop` (`MCSyncLoop`, `RuntimeProofs`) | peer events, the watch task and its permits, walks, initial sync and imports, beside gossip and the clock, from any start of a process |
| `Lifecycle` (`MCLifecycle`, `RuntimeProofs`) | `Node::start` with its unwinding, `Node::stop` with its deadline, the stop sequence of each service, and the tasks they end |
| `P2pService` (`MCP2pService`, `P2pServiceProofs`) | the swarm task: commands, connection and request events, outbound table, registry, gossip with admission, beside walks and the runner |
| `Devnet` (`MCDevnet`, `DevnetLemmas`, `DevnetProofs`) | several nodes: `StateTransition` and `ForkChoice` composed with block production, the consensus loop and the walks of the sync loop, over a network with cuts and tickers that stall |
| `Ssz` | encoding, decoding and hash-tree-root, as operators on a type and a value |
| `Wire` (`MCWire`) | one message from a writer to a reader: request and response streams, gossip, the chain tables, a response as one SSZ value |

A block root stands for a hash: distinct blocks have distinct roots, and a
root is a number in `ForkChoice` because ties are decided by byte order.
`header.sealed` in `StateTransition` records that `process_slot` has filled in
the header's state root, without which the header does not hash to the block's
root. A state's tally is a set of validators per target root; an entry whose
bits are all clear does not exist in the code and is the empty set here.

In `Engine` one action is one critical section of the mutex. An operation that
the code refuses before it changes anything is a stuttering step. The vote a
node has produced but not yet re-imported is `own`, so block imports interleave
between its production and its re-import. `ForkChoice` reads a block's
post-state only through its two checkpoints. `PostStates` allows every pair that
`ProtocolProofs` leaves possible: slots of the block's own branch,
finalized below justified (or both at slot 0 or pruned) and not below the
parent's finalized slot. `EmptySlots` says which empty slots a supermajority may
vote for, up to the last one before the block. The state transition accepts such
votes: `process_block_header` has put the all-zero root into the history there,
and it runs before `process_attestations`.

`ChainService` reuses the operators of `ForkChoice`. A writer's `plan` is what
`capture_persist_inputs` took under the mutex; `SaveAccepted` is the transaction
of `save_accepted`, any time later. `single` records that so far only the
consensus loop wrote and no save failed; two properties are stated for that
case. `SyncLoop` has its own small view of the engine: the peers share one
chain, a block is its height and its slot, and `tracked` and `saved` are the
engine's and the storage's blocks. `has_block` and the answer to a request are
separate steps. A peer's status carries the peer's clock as its head slot, as
`local_status` does. A behaviour is the life of one process: `Starts` says what
it starts from, a head on disk or genesis, the latter possibly with later blocks
on disk, the case `ChainService` exhibits. Forks are not in `SyncLoop`. In a
walk, `known` records how it ended and is read by a property only.

`Lifecycle` has one action per await point of a stop call. A task is `prompt`,
`draining` (it ignores its token, as a server with open requests) or `stuck` (it
never yields); calls into the swarm task hold a sender of its channel, which is
what ends the task when its stop call was dropped. In `P2pService` an event and
its handler are one action; libp2p opens and closes connections, reports once on
each request and delivers gossip, all external.

In `Devnet` an action is one iteration of a node's loop. The loops advance
together, in any order within a tick, unless a ticker stalls; a stalled ticker
never catches up, as the code's does not. Production is the code's: refresh the
head, gather includable votes and rebuild the candidate until nothing is added,
trying votes in any order, since the code iterates a hash map. A round of
`Converge` is one pass of that loop; every pass but the last adds a vote, so there
are at most as many as validators. `Chain` is the tree of all blocks produced,
with the post-state the state transition gave each. Restarts are in `Engine` and
`ChainService`, not here.

When nodes of `Devnet` are connected, each end gets the other's status and a
peer-ready event (`Rewire`, `ready`); a cut drops the statuses of the peers lost,
and their events then do nothing. `Handle` is the sync loop's answer to an event:
it compares the cached status with the node's own as `should_sync` does, by
finalized slot and by the slot of the clock, which `local_status` reports as the
head's, and if the peer is ahead it walks back from the peer's head and imports
parents first. The gate is often closed: a node that comes back behind in blocks
and level in time does not walk, and drops gossiped blocks whose parent it lacks.
Walks of one node overlap, so several events may have passed the gate before the
first import; a walk may be late by `bound.delay` ticks. Statuses pass both ways at
once, and walks do not fail: lost events, timeouts and the permits are in
`SyncLoop`. A fault comes at the start of a slot, at most one per slot, when some
nodes (`bound.ahead`) may have passed it and others not: what is published before
and after it is then seen by different nodes.

`Ssz` describes a container by the list of its fields' types. The crates' impls
are written by hand, one per container, all by one scheme: `Encode`, `Decode` and
`HashTreeRoot` are that scheme, and a type such as `State` is the field order and
the limits its impl is written with. Bytes have 4 bits and integers one byte in
the instance; SHA-256 is a free pairing. `Wire` keeps the reader's steps (length
prefix, chunk, frame) and its locals. A Snappy chunk is one token that carries its
data, its length and whether its checksum holds; a stream may end after any token
or inside a chunk. `msg.own = FALSE` marks bytes another writer made, which
differ from this code's in any one byte, in length, in framing or by one frame.

## Runs

| Run | Question | Bounds |
| --- | --- | --- |
| `isqrt` | does the loop end with the floor root | all distances to 1100 and the neighbourhoods of large squares and pronic numbers |
| `stf` | are checkpoints, tally and finality safe under every order of votes | 3 validators, slots to 6, history limit 5 (so the limit is met), 3 votes per body, votes on empty slots, foreign roots and an unknown validator included |
| `engine_tree` | checkpoint order, head and vote target over every tree | 4 blocks at slots 7 to 10, every post-state |
| `engine_duty` | is a node's own vote still valid after signing, do head walks always succeed, who decides head and safe target | 2 validators, 1 local, 11 ticks, 3 blocks, an empty slot that may be justified, genesis and resumed anchor |
| `ots` | is a leaf ever released twice, can every stored watermark be loaded, is an epoch lost by moving the window | 1 validator, 2 secret files (symmetric), 5 epochs (several windows), slots before and after them |
| `chain` | can the head record always be decoded; with one writer and no failure, is the recorded head on disk and recorded finality monotone | every tree of 4 blocks whose newest extends the oldest, votes, 2 writers, failing saves, crashes |
| `sync` | does a node catch up, do imports have their parents | 2 peers at heights 3 and 1, depth 3, 1 permit, a channel of 1, 1 fault, clock to slot 1, started fresh or from a head at 1 or 2 |
| `lifecycle` | are users of the swarm task stopped before it, is nothing left behind, does stop return and does every task end | 6 services, 1 walk, a channel of 1, 1 panic, at most one task that is not prompt, with and without a budget |
| `p2p` | is a caller ever left waiting, are admission slots exact | 2 peers, 2 connections in all, to one peer or to both, 1 walk, channels and cap of 1, 1 request, 2 gossip messages |
| `devnet` | do finalized blocks ever conflict, does production fail, do nodes with the same blocks agree on the head and finalize again after a fault, does sync restore finality | 3 nodes, two root orders: 9 slots with 2 early cuts or stalls of a slot; 19 slots in which node 0 is cut off in slot 1 and stays alone or comes back in slot 3, behind in blocks only; 21 slots in which it comes back in slot 14, when the others have finalized without it; walks up to 2 ticks late |
| `wire` | is what was written read back, is anything else accepted, can a decoder panic, are roots exact | every message type, at most 2 blocks in a response, every single-byte change, every shorter input, appended bytes, streams cut or damaged anywhere, a cache of 2 |

The instances are small where a theorem covers every size: `stf` stops at slot 6,
before the justifiable distances have gaps, `ots` has one validator, `p2p` and
`lifecycle` have one walk. `Recovery`, the number of connected slots after which
`FinalityResumes` expects a block newer than the last fault to be final, is 7:
without faults finality lags six slots. With two nodes of three taking part it is
15 (`QuorumRecovery`): a third of the slots is empty, or filled on another branch,
and every vote of the two is needed. `HeadsConverge` and
`FinalityResumes` are stated of a quorum of nodes that have the same blocks
(`SameBlocks`): all nodes, or two while the third is cut off or stays on its own
branch. Without that condition both are false, since the gate of the walk may keep
a node apart. `devnet` has three nodes because two are
a special case: the vote a proposer puts in its own block is not counted by the
nodes that receive it, so with two validators a quorum takes longer. In `wire`
the limits are small enough that lists reach them, payloads take up to four
chunks, a stream and a gossip payload exceed their caps, and padding exceeds the
iteration bound.

Each module has a type invariant; those of the modules with proofs are theorems
or parts of the inductive invariants, and the runs list only properties beyond
them.

Deadlock is not checked where a model stops at its bounds, as the loop stops on
cancellation. The steps of `isqrt_u64` are weakly fair: a sequential loop that
nothing can interrupt. In `SyncLoop` every task that can run runs (tokio
schedules it, and a request ends by an answer or its timeout), the newest block
is gossiped, and peers keep reconnecting, again and again at a time when the
event channel has room. The last is an assumption on the network: the channel
drops events when it is full, and with unlucky timing one peer's events could
keep another's out for ever. The real channel has 256 places. Faults are
bounded, so `CatchesUp` says that the node recovers once they stop; the clock
stays behind the peer's (see `MCSyncLoopClock.cfg`). In `Lifecycle` and
`P2pService` the stop call, the deadline's timer, the swarm task, each other task
that yields and the runner are weakly fair, and libp2p reports on every request,
which its request timeout guarantees. A blocked `send` on the command channel is
strongly fair: tokio's channel serves waiting senders in order. `FinalityResumes`
and `HeadsConverge` are invariants that count slots and need no fairness.

One run shows a sentence of the repository that the code does not meet.
`chain_head`: a failed save strands the head record, because a plan may name
the other writer's block as head (`runtime/src/chain/chain/service.rs:479`).

### Further configurations

These are kept for use by hand and are not among the listed runs.
`MCChainServiceChain.cfg` (a single chain whose saves succeed keeps its reported
finalized slot over a crash) and `MCDevnetLate.cfg` (two cuts at any time to slot
10, walks a tick late; also that a node counts its own vote; a quarter of an hour)
pass. TLC finds the property of each of
the others violated:

- `MCEngineFutureVotes.cfg`: a pending vote for the next slot moves the safe
  target before promotion (`forkchoice/src/store.rs:560`).
- `MCEnginePlaceholder.cfg`: a superseded slot-0 vote delivered again replaces
  the newer known vote (`forkchoice/src/production.rs:253`).
- `MCEngineClock.cfg`: the justified slot can exceed the clock
  (`node/src/devnet.rs:253`).
- `MCEngineOrder.cfg`: after a supermajority for an empty slot the store's
  finalized slot can exceed its justified slot (`node/src/devnet.rs:253`).
- `MCOtsSignerSigned.cfg`: a leaf is signed again after a crash before its save
  (`runtime/src/duties/ots_signer.rs:6`). It is released once; the same doc
  names reserve-before-sign as a later hardening.
- `MCChainServiceFinalized.cfg`: with failing saves, after which the process
  goes on, the reported finalized slot falls at a restart
  (`forkchoice/src/store.rs:118`). With forks it can fall as well, which that
  doc excludes ("a standalone node that never reorgs").
- `MCSyncLoopRestart.cfg`: after a fallback to genesis a walk stops at a stored
  block the engine does not have (`runtime/src/sync/loop_.rs:594`).
- `MCSyncLoopClock.cfg`: a node level in time and behind in blocks does not sync
  (`runtime/src/sync/loop_.rs:4`).
- `MCSyncLoopDepth.cfg`: a gap longer than `max_sync_depth` is never closed
  (`runtime/src/sync/loop_.rs:11`).
- `MCLifecycleOrphan.cfg`: a swarm task that does not yield outlives a stop that
  reports success (`runtime/src/p2p/service.rs:383`).
- `MCP2pServiceTwoConns.cfg`: when a peer has two connections, which no code
  prevents, the close of one removes it from `connected_peers`
  (`runtime/src/p2p/service.rs:172`).

### What the models showed beside their properties

- A node that was cut off and comes back with its clock level stays apart from the
  others: it does not walk, and every gossiped block lacks its parent. It walks
  only if they have finalized a newer block when it connects, or if a peer had
  entered the slot before it when their statuses were taken. The others finalize
  without it if they are two thirds.
- Nodes with the same blocks finalize again after a cut. The order in which a
  proposer tries its votes never mattered.
- A one-byte payload could not be read back: the identifier chunk has 6 bytes and
  the budget for it is the payload's length plus 4 (`networking/src/frames.rs:200`).
  No message has one byte; the shortest that is not empty has 32.
- `MAX_RPC_STREAM_BYTES` is "sized generously enough for a full `BlocksByRoot`
  response"; 1024 blocks with five signatures each already exceed it.
- The header of `protocol/src/state.rs` gives a 16-byte config and a 236-byte
  fixed part; the code has 8 and 228.

## Proofs

`ProtocolProofs` has three parts. Of `Slot`, for all numbers: `isqrt_u64` as a
function is the floor of the square root (`IsqrtCorrect`), `is_justifiable_after`
is the rule of its doc comment, a distance of at most five, a square or a pronic
number (`JustifiableExact`), and the seed, the root and the products fit into the
width of the argument (`NoOverflow`). That takes induction on the bit length (the
seed is a power of two above the root) and on the guess (each Newton step that
does not return is smaller and still at or above the root).

Of `IsqrtLoop`, for every set of distances: the returned guess is the floor of
the square root (`FloorCorrect`), the divisor is never zero (`DivisorSafety`), and
the two comparisons recognise exactly squares and pronic numbers (`RuleCorrect`).
The inductive invariant says that inside the loop `radicand < (guess + 1)^2`;
Newton's step keeps it because the mean of two numbers is at least the root of
their product.

Of `StateTransitionLoop`, for every registry size, root set, block supply and
vote supply: well-formed states (`TypeCorrectness`), checkpoints on the state's
own chain (`CheckpointSafety`), finalized not above justified
(`FinalizedBelowJustified`), no quorum and no justified target in the tally
(`TallySafety`), and refinement of `Finality` (`Refinement`). The inductive
invariant says of the state and of the working copy: it is well formed, its
checkpoints are on its chain and ordered, recorded roots are distinct, the tally
names roots of the history only, holds no quorum and no justified target; and
the working copy extends the state. Finality does not move back when
`latest_justified` does: the finalized slot is justifiable after itself, so a
vote from below it to above it has an intermediate; no earlier slot is
justifiable after it; and a justified target is not acceptable again.

`ForkChoiceProofs` holds what the proofs of `Engine`, `ChainService` and
`Devnet` share: lemmas about the
operators of `ForkChoice`, for any store. The walks are recursive functions.
`LeastNat`, the least element of a set of numbers, gives induction up the tree
(`TreeInduction`), down to the leaves (`DescentInduction`) and along a walk, so
that each recursive definition is shown to have the function it means and the
function to stay on its branch. The lemmas on the hooks say what a block, a vote,
a promotion or a refresh changes of a store and what it keeps.

`EngineProofs`, for any number of validators, blocks and ticks, from genesis or
a resumed head. Of the checkpoints: they name tracked blocks at or above the
anchor (`CheckpointSafety`), are monotone (`Monotonicity`), and ordered if no
empty slot is justified (`FinalizedBelowJustified`). Of the walks: no head walk
fails (`HeadWalkSafety`), the head descends from the justified block
(`HeadSafety`) and contains every branch above it with a majority of the known
votes (`MajorityRule`), the safe target moves only to the justified block or to
one with two thirds of the pending votes (`SafeTargetSafety`), and the vote
target is justifiable and on the head's branch when the finalized block is
(`TargetSafety`). Of the duties: the vote made before signing is valid after it,
unless its source is above its target (`VoteSafety`). Types are
`TypeCorrectness`.

The inductive invariant has three layers. `Sound`: the tree is closed under
parents except at the anchor, slots increase along parents, checkpoints are
tracked with their own slots. `Ready`: also inside a critical section, votes name
tracked blocks and the clock is not behind the anchor. `IInv`: whenever the mutex
is free the head is decided as above and the vote on its way names tracked blocks
with their own slots. The majority rule counts: no vote supports two siblings, so at each fork
the child with more than half of the votes outweighs the others.

`ChainServiceProofs`, for any blocks, votes and writers and any sequence of
failed saves, crashes and restarts: everything on disk and in plans is a block
that was made (`TypeCorrectness`), and every head record decodes if no empty slot
is justified (`HeadRecordSafety`). With one writer and no failed save, the
recorded head's block and state are on disk (`PayloadSafety`) and the recorded
finalized slot never falls (`RecordMonotonicity`). What a block or a promotion
does to the store is taken from `ForkChoiceProofs`. The
inductive invariant says that the blocks made form a tree whose post-states name
blocks of their own branch; that the store is the part of this tree above the
block it started from, with finalized, justified and head in this order; that a
plan is not ahead of the store; and, with one writer, that what the store tracks
is saved or in the writer's plan, and that the record on disk is not ahead of
either. The store's own anchor matters: after a resume a post-state may name a
block below it, which `track_block` does not adopt. The order is the hard part:
when a finalized checkpoint is adopted the justified one of the same post-state
is on the same branch and not below it, so it is tracked too. The condition on
empty slots is needed. With `EmptySlots = {3}`, a block at slot 2, its child at
slot 4 and a block at slot 1, TLC finds a record that does not decode: the
post-state at 4 finalizes the block at 2 and justifies the empty slot 3, which the
store does not adopt, so its head may be the block at 1.

`DevnetProofs`, for any number of validators and slots, any hash function, any
cuts and stalls, and any order of iterations and of hash maps (`DevnetLemmas`
holds what it needs of the operators: the state transition on a branch, the
fixpoint over votes, an import, and a chain that grows by a block):

- stores, channels and clocks are well formed, and every block a store tracks was
  produced and has its parent there (`TypeCorrectness`);
- the checkpoints the state transition computes are among those `PostStates`
  allows (`PostStateSoundness`), so that what `EngineProofs` and
  `ChainServiceProofs` show for every choice holds for the real ones;
- along a branch the finalized block of an ancestor is an ancestor of the
  finalized block, even though `latest_justified` may move back
  (`BranchFinality`);
- in every store the checkpoints are tracked and ordered, and the head is a block
  without children above the justified one (`StoreSafety`);
- while no ticker has stalled, cuts or not, production fails in slot 0 only
  (`ProductionSafety`);
- until the first fault, finalized blocks agree, heads keep them, and the nodes
  start every slot with the same blocks and the same head
  (`UndisturbedNetwork`).

The inductive invariant is `IInv`. `ChainOk`: the produced blocks are a tree, and
each block's state follows its parent's: its history records the parent's branch,
its checkpoints are blocks of that branch, the finalized one is a justified slot
below the justified one and not below the parent's. `Nodes`: each store is a part
of this tree, its head is decided, its checkpoints are ordered and its votes name
tracked blocks with their own slots (`Ready` and `HeadOk` of `ForkChoiceProofs`),
and its clock is the node's ticker. `Statuses`: the head of a status in hand is a
block of the tree, whatever has happened since the handshake, so a walk imports
blocks of the tree. `Past`: a block's proposer has passed the start
of its slot. `Clocks`: tickers in step are at most a tick apart. The last two put
a proposer above every block there is, so its header is accepted; and a vote that
`collect_includable_votes` admits has a tracked target and the candidate's
justified checkpoint as source, so both are below the slot and in range.
`converge_attestations` and `process_attestations` are recursive functions over
rounds and votes, and are followed by induction along them. `UInv` adds,
for a network without a fault so far, that the blocks are one branch (`Line`),
that a node has every block, or every block but the last, which waits in its
channel (`UpToDate`), and that no walk is due. TLC checked `IInv` and `UInv` on the
instance of `devnet` before the proof.

`RuntimeProofs` has three parts. Of `OtsSigner`, for any validators, seeds, epochs
and window step: no leaf is released twice (`OneRelease`), stored watermarks can be
loaded (`Resumes`), the window covers what was asked (`WindowSafety`), types
(`SignerTypeCorrectness`). The inductive invariant says that a released leaf is
below the stored watermark of its own key, a running signer is at or above its
stored watermarks, the one leaf on its way out is the last its key signed, and
windows are aligned.

Of `SyncLoop`, for any peers, heights, depth and channel bound, and every start
whose stored blocks reach exactly to its anchor: a walk that ended at a stored
block offers no block whose parent is missing (`ImportOrderSafety`). From every
start, the permits are never exceeded (`PermitSafety`). The inductive invariant
says that what a walk has collected is an interval above the anchor, and that
storage holds nothing above the anchor that the engine lacks. The assumption on
the starts is needed: see `MCSyncLoopRestart.cfg`.

Of `Lifecycle`, for any walks, channel and number of panics: the swarm
task is told to stop only when its users have ended, unless the deadline fired or
the watch task panicked (`StopOrder`); a task that still runs after the stop is
on its way out (`NothingIsForgotten`); and no task runs after a stop that returned
Ok within its deadline (`StopIsClean`). The inductive invariant ties the
phase of the stop call to the services it has passed, and the tasks of a service
that is stopped or never started to having ended or being on their way out.

`P2pServiceProofs`, for any peers, walks and capacities: no caller waits for
a reply nobody holds (`NoStranding`), a peer's admission count is the number of
its messages in the channels and in the runner's hands (`AdmissionSafety`), the
registry lists no peer and caches no status of a peer whose connections are all
closed, however many it had (`RegistrySafety`; the converse is false, see
`MCP2pServiceTwoConns.cfg`), types (`TypeCorrectness`). The three concerns have
separate inductive invariants, one each for the request table, the gossip queue and the peers.

A leaf names Zenon where it is first-order reasoning without arithmetic; the
others are left to the SMT solver.

Only model-checked:

- liveness (`Terminates`, `CatchesUp`, `StopCompletes`, `CallsReturn`), which the
  prover does not do;
- `Agreement` and `HeadKeepsFinalized` once there are faults. Two quorums share a
  voter, but the code has no rule against surrounding votes: a node that changes
  branch may vote from an earlier source to a later target than before. An
  inductive invariant would have to bound what each node can have voted for on
  every branch, which depends on the lengths of the cuts. Within the bounds of
  `devnet` no conflict is reached; along one branch finality is proved
  (`BranchFinality`), and on the whole network up to the first fault;
- `HeadsConverge` and `FinalityResumes` after a fault. They say that the votes of
  two slots, or of `Recovery` slots, decide every fork and finalize, which
  depends on the votes cast during the fault;
- `WalkRestoresFinality`: it needs that a peer's head descends from a block whose
  state carries the peer's finalized checkpoint, which rests on the agreement of
  branches above;
- `Ssz` and `Wire`, whose codecs are recursive operators on types and values.

## Not modelled

The signature scheme, HTTP handlers, metrics export, logging, configuration and
the command line hold no protocol state. The signature gate of the engine is
inert in this build: no verifier is injected. Of the codecs, `Bitvector`,
`merkleize_progressive` and `mix_in_selector` are not used and are left out;
padding after a frame's data and a length prefix that is wrong but within the cap
are below the grain of a chunk token. The cap of 4096 votes per body, chain snapshots and the
health streak of the consensus loop are not modelled, nor are forks in `SyncLoop`
and restarts in `Devnet`. `PROJECT.json` lists every part and every hazard with
the property that covers it or the reason none does yet. Most lines of the crates
that no definition stands for are unit tests inside the source files; of the code
without tests and comments the map covers more than a third, and the rest is
mainly the parts named above, error types, accessors and trait plumbing.

## Plan

1. A restart in `Devnet`: the store composed with the real state transition after
   a resume, to ask whether justification advances again.
2. Forks in `SyncLoop`, and its storage composed with `ChainService`.
3. A reader beside `Engine` for the gauges, and health of the consensus loop.
4. Proofs: agreement of finalized blocks in `Devnet` for one cut of any length.
