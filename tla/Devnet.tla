------------------------------- MODULE Devnet -------------------------------
(***************************************************************************)
(* Several nodes on one chain: the state transition of crates/protocol, the *)
(* fork-choice store and block production of crates/forkchoice, and the    *)
(* consensus loop of crates/node, composed over a network that cuts nodes   *)
(* off.  Node i runs validator i.  An action of a node is one iteration of  *)
(* its loop: drain gossip, perform the duty of the interval, tick.  The     *)
(* loops advance together, in any order within a tick.                      *)
(*                                                                         *)
(* A slot has one proposer, so it has at most one block; root_of gives it   *)
(* its root, in an order the slots do not determine.  state_transition is a *)
(* function of the parent's state and the block: the post-state is computed *)
(* where the block is produced, and every node that imports it has it.      *)
(***************************************************************************)
EXTENDS ForkChoice, Sequences

CONSTANTS
    MaxSlot,        \* bound on the slots of a behaviour
    Bounds,         \* bounds on the faults, with the slots of the behaviour they bound
    Hashes,         \* the functions from slots to block roots
    Recovery,       \* the slots after which finality is expected to resume
    QuorumRecovery  \* the same, when only two thirds take part

Slots == 0 .. MaxSlot
Roots == {ZeroRoot} \cup UNION {{h[n] : n \in Slots} : h \in Hashes}

ASSUME DevnetAssumption ==
    /\ MaxSlot \in Nat \ {0} /\ {Recovery, QuorumRecovery} \subseteq Nat
    /\ \A b \in Bounds : /\ b.slots \in Slots /\ b.faults \in Nat /\ b.times \subseteq Nat
                         /\ b.stalls \subseteq Nat /\ b.delay \in Nat
                         /\ {b.up, b.ahead} \subseteq SUBSET SUBSET Validators
    /\ \A h \in Hashes : h \in [Slots -> Nat \ {ZeroRoot, PrunedRoot}] /\ h[0] = AnchorRoot
    /\ \A h \in Hashes : \A m, n \in Slots : m # n => h[m] # h[n]

VARIABLES
    store,      \* store[i]: the store of node i
    tick,       \* tick[i]: the ticks of node i's consensus loop
    lag,        \* lag[i]: the ticks node i's ticker is behind the wall clock
    block_rx,   \* block_rx[i]: the roots of the blocks waiting in node i's channel
    vote_rx,    \* vote_rx[i]: the votes waiting in node i's channel
    ready,      \* ready[i]: the statuses of the peers whose peer-ready event waits at node i
    ledger,     \* the blocks produced: body and post-state, by root
    failed,     \* the slots in which the proposer's production failed
    root_of,    \* the roots of the blocks to come
    up,         \* the nodes that reach one another
    faults,     \* how often that changed, or a node stalled
    since,      \* the slot of the last fault
    bound       \* the bounds of this behaviour: the last slot, the number of
                \* faults and the slots they may come before, the sets of nodes
                \* that may be a tick ahead then and that may stay connected, the
                \* lengths of a stall and the longest delay of a walk in ticks

vars == <<store, tick, lag, block_rx, vote_rx, ready, ledger, failed, root_of, up, faults, since, bound>>

ST == INSTANCE StateTransition WITH GenesisRoot <- AnchorRoot, HistoricalRootsLimit <- MaxSlot

Post(r) == [justified |-> ledger[r].state.latest_justified,
            finalized |-> ledger[r].state.latest_finalized]

\* The blocks produced, as a store that tracks them all would have them.
Chain == [blocks |-> [r \in DOMAIN ledger |->
    [slot |-> ledger[r].slot, parent_root |-> ledger[r].parent_root, post |-> Post(r)]]]

Init ==
    /\ store = [i \in Validators |-> FromAnchor]
    /\ tick = [i \in Validators |-> 0]
    /\ lag = [i \in Validators |-> 0]
    /\ block_rx = [i \in Validators |-> <<>>]
    /\ vote_rx = [i \in Validators |-> {}]
    /\ ready = [i \in Validators |-> {}]
    /\ ledger = [r \in {AnchorRoot} |-> [slot |-> 0, parent_root |-> ZeroRoot,
                                         body |-> EmptyPool, state |-> ST!GenesisState]]
    /\ failed = {}
    /\ root_of \in Hashes
    /\ up = Validators
    /\ faults = 0
    /\ since = 0
    /\ bound \in Bounds
-----------------------------------------------------------------------------
(* Gossip and sync *)

\* import_block: a block already tracked, or without its parent, is dropped.
ImportBlock(s, r) ==
    IF r \in Tracked(s) \/ ledger[r].parent_root \notin Tracked(s) THEN s
    ELSE Import(s, [root |-> r, slot |-> ledger[r].slot, parent_root |-> ledger[r].parent_root],
                Post(r), ledger[r].body)

\* The blocks of a set, in the order in which roots lists them.
ImportEach(s, roots, blocks) ==
    LET after[k \in 0 .. Len(roots)] ==
            IF k = 0 THEN s
            ELSE IF roots[k] \in blocks THEN ImportBlock(after[k - 1], roots[k])
            ELSE after[k - 1]
    IN  after[Len(roots)]

\* drain_gossip: the blocks in the order of their arrival, then the votes.  Of
\* several votes of one validator the newest that validates stays.
DrainGossip(i) ==
    LET s == ImportEach(store[i], block_rx[i], DOMAIN ledger)
        Valid(v) == {vote \in {m.data : m \in {n \in vote_rx[i] : n.validator_id = v}} :
                        ValidateAttestation(s, vote)}
        Newest(votes) == CHOOSE vote \in votes : \A other \in votes : other.slot <= vote.slot
    IN  [s EXCEPT !.new_votes = [v \in Validators |->
            IF Valid(v) # {} THEN GossipVote(s, v, Newest(Valid(v))).new_votes[v] ELSE @[v]]]

\* import_chain: the blocks of a branch, parents first.
ImportChain(s, branch) == ImportEach(s, [n \in 1 .. MaxSlot |-> root_of[n]], branch)

\* local_status: the head slot it reports is the slot of the clock.
Status(i) ==
    [peer |-> i, head |-> store[i].head, head_slot |-> CurrentSlot(store[i]),
     finalized_slot |-> store[i].latest_finalized.slot]

ShouldSync(s, status) ==
    status.finalized_slot > s.latest_finalized.slot \/ status.head_slot > CurrentSlot(s)

\* MUTANT of SyncWithPeer: only the peer's head is fetched.
SyncWithPeerHeadOnly(s, status) == ImportBlock(s, status.head)

\* MUTANT of SyncWithPeer: the imports of a walk do not refresh the head.
SyncWithPeerKeepsHead(s, status) ==
    [ImportChain(s, Ancestors(Chain, status.head)) EXCEPT !.head = s.head]

\* The walk back from the head of the peer's status, and the import of what it
\* found.
SyncWithPeer(s, status) == ImportChain(s, Ancestors(Chain, status.head))

\* The walks of one node overlap: all of them have compared the statuses with
\* the store s when the first one imports.
SyncWithEach(s, order) ==
    LET after[k \in 0 .. Len(order)] ==
            IF k = 0 THEN s
            ELSE IF ShouldSync(s, order[k]) THEN SyncWithPeer(after[k - 1], order[k])
            ELSE after[k - 1]
    IN  after[Len(order)]
-----------------------------------------------------------------------------
(* Block production *)

Body(atts) == [v \in Validators |->
    IF \E k \in DOMAIN atts : atts[k].validator_id = v
    THEN atts[CHOOSE k \in DOMAIN atts : atts[k].validator_id = v].data
    ELSE NoVote]

Attestation(v, vote) == [validator_id |-> v, data |-> vote]
OnChainVote(att) ==
    [validator_id |-> att.validator_id, source |-> att.data.source, target |-> att.data.target]

\* build_candidate_block up to its attestations: advance_state_to_slot and
\* process_block_header.
CandidateHeaderOk(st, b) ==
    /\ st.slot <= b.slot
    /\ ST!BlockHeaderOk(IF st.slot < b.slot THEN ST!ProcessSlots(st, b.slot) ELSE st, b)

CandidateHeader(st, b) == ST!ProcessBlockHeader(ST!ProcessSlots(st, b.slot), b)

\* process_attestations on the candidate.
Apply(st, atts) ==
    LET after[k \in 0 .. Len(atts)] ==
            IF k = 0 THEN st ELSE ST!ProcessAttestation(after[k - 1], OnChainVote(atts[k]))
    IN  after[Len(atts)]

InRange(st, atts) == \A k \in DOMAIN atts : ST!AttestationInRange(st, OnChainVote(atts[k]))

\* The votes collect_includable_votes finds, given the candidate's post-state.
Includable(s, post, atts) ==
    {att \in {Attestation(v, s.known_votes[v]) : v \in Validators} :
        /\ att.data # NoVote
        /\ att.data.target.root \in Tracked(s)
        /\ att.data.source = post.latest_justified
        /\ \A k \in DOMAIN atts : atts[k] # att}

\* The orders in which a hash map may list the votes of a set.
MapOrders(votes) ==
    {order \in [1 .. Cardinality(votes) -> votes] :
        \A k, l \in DOMAIN order : order[k] = order[l] => k = l}

\* A round of converge_attestations: the candidate is rebuilt, which fails if a
\* vote is out of range, and the votes that are now includable are added.
Extend(s, st, atts) ==
    IF InRange(st, atts)
    THEN {atts \o more : more \in MapOrders(Includable(s, Apply(st, atts), atts))}
    ELSE {atts}

\* converge_attestations: every round but the last adds a vote.
Converge(s, st) ==
    LET rounds[k \in 0 .. NumValidators] ==
            IF k = 0 THEN {<<>>} ELSE UNION {Extend(s, st, atts) : atts \in rounds[k - 1]}
    IN  rounds[NumValidators]

\* What production on the head of s may come to, once its header is accepted:
\* whether every vote is in range, the body, and the post-state.
Outcomes(s, b) ==
    LET st == CandidateHeader(ledger[s.head].state, b)
    IN  {[in_range |-> InRange(st, atts), body |-> Body(atts), post |-> Apply(st, atts)] :
            atts \in Converge(s, st)}
-----------------------------------------------------------------------------
(* The consensus loop *)

SlotOf(i) == tick[i] \div IntervalsPerSlot
IntervalOf(i) == tick[i] % IntervalsPerSlot

\* MUTANT of Proposer: the schedule is one slot ahead.
ProposerAhead(n) == (n + 1) % NumValidators

Proposer(n) == n % NumValidators
VoteDueInterval == IntervalsPerSlot \div 2

\* Node i's ticker fires: no other node has a tick to make up for, and no walk
\* of node i has waited longer than the bounds allow.
WallTick(i) == tick[i] + lag[i]
Fires(i) ==
    /\ WallTick(i) < (bound.slots + 1) * IntervalsPerSlot
    /\ \A j \in Validators : WallTick(i) <= WallTick(j)
    /\ ready[i] # {} => WallTick(i) < since * IntervalsPerSlot + bound.delay

\* Node i's iteration leaves s behind.
Iterate(i, s, has_proposal) ==
    /\ store' = [store EXCEPT ![i] = TickInterval(s, has_proposal)]
    /\ tick' = [tick EXCEPT ![i] = @ + 1]

\* The nodes that receive what node i publishes.
Receivers(i) == IF i \in up THEN up \ {i} ELSE {}

\* MUTANT of Reimport: a node does not count its own vote.
ReimportSkipped(s, v, vote) == s

\* The own vote is re-imported; one that does not validate is only logged.
Reimport(s, v, vote) == IF ValidateAttestation(s, vote) THEN GossipVote(s, v, vote) ELSE s

NewBlock(i, s) ==
    [root |-> root_of[SlotOf(i)], slot |-> SlotOf(i), parent_root |-> s.head, proposer_index |-> i]

\* Interval 0 of the proposer: produce_block_unsigned and the re-import of the
\* proposer's vote, which no other node counts; then the block is published.
Propose(i) ==
    LET s == AcceptNewVotes(DrainGossip(i))
        b == NewBlock(i, s)
    IN  /\ Fires(i) /\ IntervalOf(i) = 0 /\ i = Proposer(SlotOf(i))
        /\ CandidateHeaderOk(ledger[s.head].state, b)
        /\ \E c \in Outcomes(s, b) :
              LET t == AcceptNewVotes(TrackBlock(s, b,
                           [justified |-> c.post.latest_justified,
                            finalized |-> c.post.latest_finalized]))
              IN  /\ c.in_range
                  /\ Iterate(i, Reimport(t, i, OwnVote(t, SlotOf(i))), TRUE)
                  /\ ledger' = [r \in DOMAIN ledger \cup {b.root} |->
                        IF r = b.root
                        THEN [slot |-> b.slot, parent_root |-> b.parent_root,
                              body |-> c.body, state |-> c.post]
                        ELSE ledger[r]]
        /\ block_rx' = [j \in Validators |->
              IF j = i THEN <<>>
              ELSE IF j \in Receivers(i) THEN Append(block_rx[j], b.root) ELSE block_rx[j]]
        /\ vote_rx' = [vote_rx EXCEPT ![i] = {}]
        /\ UNCHANGED <<lag, ready, failed, root_of, up, faults, since, bound>>

\* Production fails: the header is refused, as it is in slot 0, or a collected
\* vote is out of range.  The pending votes stay promoted.
ProposeFails(i) ==
    LET s == AcceptNewVotes(DrainGossip(i))
        b == NewBlock(i, s)
    IN  /\ Fires(i) /\ IntervalOf(i) = 0 /\ i = Proposer(SlotOf(i))
        /\ CandidateHeaderOk(ledger[s.head].state, b) =>
              \E c \in Outcomes(s, b) : ~c.in_range
        /\ Iterate(i, s, FALSE)
        /\ failed' = failed \cup {SlotOf(i)}
        /\ block_rx' = [block_rx EXCEPT ![i] = <<>>]
        /\ vote_rx' = [vote_rx EXCEPT ![i] = {}]
        /\ UNCHANGED <<lag, ready, ledger, root_of, up, faults, since, bound>>

\* The voting interval of every other node.
Attest(i) ==
    LET s == AcceptNewVotes(DrainGossip(i))
        vote == OwnVote(s, SlotOf(i))
    IN  /\ Fires(i) /\ IntervalOf(i) = VoteDueInterval /\ i # Proposer(SlotOf(i))
        /\ Iterate(i, Reimport(s, i, vote), FALSE)
        /\ block_rx' = [block_rx EXCEPT ![i] = <<>>]
        /\ vote_rx' = [j \in Validators |->
              IF j = i THEN {}
              ELSE IF j \in Receivers(i) THEN vote_rx[j] \cup {Attestation(i, vote)}
              ELSE vote_rx[j]]
        /\ UNCHANGED <<lag, ready, ledger, failed, root_of, up, faults, since, bound>>

\* Every other iteration.
Drain(i) ==
    /\ Fires(i)
    /\ ~(IntervalOf(i) = 0 /\ i = Proposer(SlotOf(i)))
    /\ ~(IntervalOf(i) = VoteDueInterval /\ i # Proposer(SlotOf(i)))
    /\ Iterate(i, DrainGossip(i), Proposer(SlotOf(i)) = i /\ SlotOf(i) \notin failed)
    /\ block_rx' = [block_rx EXCEPT ![i] = <<>>]
    /\ vote_rx' = [vote_rx EXCEPT ![i] = {}]
    /\ UNCHANGED <<lag, ready, ledger, failed, root_of, up, faults, since, bound>>

\* PeerWorker::handle, for some of the ready peers at a time.  A walk may come
\* before or after the node has drained what was published meanwhile.
Handle(i, order) ==
    /\ store' = [store EXCEPT ![i] = SyncWithEach(@, order)]
    /\ ready' = [ready EXCEPT ![i] = @ \ {order[k] : k \in DOMAIN order}]
    /\ UNCHANGED <<tick, lag, block_rx, vote_rx, ledger, failed, root_of, up, faults, since, bound>>

\* A fault may happen now: one at the start of a slot that the bounds allow,
\* which some nodes may have reached a tick ahead of the others.
Fault ==
    LET n == (WallTick(0) + 1) \div IntervalsPerSlot
        Before(i) == n * IntervalsPerSlot - WallTick(i)
    IN  /\ faults < bound.faults /\ n \in bound.times /\ (faults = 0 \/ since < n)
        /\ \A i \in Validators : Before(i) \in {0, 1}
        /\ {i \in Validators : Before(i) = 0} \in bound.ahead
        /\ faults' = faults + 1
        /\ since' = n

\* Nodes are cut off, or come back.  The two ends of a new connection exchange
\* their statuses, and set_status makes each the other's ready peer; on_disconnect
\* drops the status of a peer whose event is then handled without a walk.
Rewire(nodes) ==
    LET NewPeers(i) == IF i \notin nodes THEN {}
                       ELSE IF i \in up THEN nodes \ up ELSE nodes \ {i}
    IN  /\ Fault /\ nodes \in bound.up \ {up}
        /\ up' = nodes
        /\ ready' = [i \in Validators |-> {Status(j) : j \in NewPeers(i)} \cup
              (IF i \in nodes THEN {status \in ready[i] : status.peer \in nodes} ELSE {})]
        /\ UNCHANGED <<store, tick, lag, block_rx, vote_rx, ledger, failed, root_of, bound>>

\* Node i stalls for n ticks; its ticker never makes up for them
\* (MissedTickBehavior::Delay).
Stall(i, n) ==
    /\ Fault
    /\ lag' = [lag EXCEPT ![i] = @ + n]
    /\ UNCHANGED <<store, tick, block_rx, vote_rx, ready, ledger, failed, root_of, up, bound>>

Next ==
    \/ \E i \in Validators : Propose(i) \/ ProposeFails(i) \/ Attest(i) \/ Drain(i)
    \/ \E i \in Validators : \E peers \in (SUBSET ready[i]) \ {{}} :
          \E order \in MapOrders(peers) : Handle(i, order)
    \/ \E nodes \in SUBSET Validators : Rewire(nodes)
    \/ \E i \in Validators : \E n \in bound.stalls : Stall(i, n)

Spec == Init /\ [][Next]_vars
-----------------------------------------------------------------------------
(* Properties *)

\* No ticker is behind.
InStep == \A i \in Validators : lag[i] = 0

\* The nodes of a set have been connected for n slots, with tickers that are not
\* behind.
Settled(nodes, n) ==
    nodes \subseteq up /\ \A i \in nodes : lag[i] = 0 /\ SlotOf(i) >= since + n

Quorum(nodes) == 3 * Cardinality(nodes) >= 2 * NumValidators

\* None of the nodes lacks a block that another one has.  Nodes that reconnect
\* need not come to this: should_sync compares the slots of their clocks and of
\* their finalized blocks only, and a gossiped block without its parent is dropped.
SameBlocks(nodes) == \A i, j \in nodes : Tracked(store[i]) = Tracked(store[j])

\* Every store is well formed: the blocks it tracks have been produced, with the
\* slot and the parent the store has for them, and the parent is tracked too.
TypeOK ==
    /\ \A i \in Validators :
          /\ tick[i] \in Nat /\ lag[i] \in Nat
          /\ store[i].head \in Tracked(store[i]) /\ store[i].safe_target \in Tracked(store[i])
          /\ \A r \in Tracked(store[i]) :
                /\ r \in DOMAIN ledger
                /\ store[i].blocks[r].slot = ledger[r].slot
                /\ store[i].blocks[r].parent_root = ledger[r].parent_root
                /\ r # AnchorRoot => ledger[r].parent_root \in Tracked(store[i])
          /\ block_rx[i] \in Seq(DOMAIN ledger)
          /\ vote_rx[i] \subseteq [validator_id: Validators, data: Vote]
          /\ \A status \in ready[i] : status.peer \in Validators /\ status.head \in DOMAIN ledger
    /\ failed \subseteq Slots /\ up \subseteq Validators
    /\ faults \in 0 .. bound.faults /\ since \in Nat

\* The finalized blocks of any two nodes lie on one branch, whichever nodes are
\* cut off or fall behind, whether they sync or stay on branches of their own
\* when they are connected again, and in whatever order hash maps list the votes:
\* two quorums of the honest votes that get_vote_target chooses never finalize
\* conflicting blocks.
Agreement ==
    \A i, j \in Validators :
        LET f == store[i].latest_finalized.root
            g == store[j].latest_finalized.root
        IN  f \in Ancestors(Chain, g) \/ g \in Ancestors(Chain, f)

\* The head of a node descends from the block it has finalized: the justified
\* checkpoint, from which the head walk starts, and the finalized one are
\* adopted from post-states of different blocks and still stay on one branch.
HeadKeepsFinalized ==
    \A i \in Validators : store[i].latest_finalized.root \in Ancestors(store[i], store[i].head)

\* While the tickers are in step, a proposer never fails after slot 0: no vote
\* that collect_includable_votes admits is out of range for the candidate it is
\* built into, and the head is always below the slot.
ProductionSucceeds == InStep => failed \subseteq {0}

\* A node counts its own vote of every slot in which it voted or proposed: the
\* vote passes the node's own validation when it is re-imported, and nothing
\* promotes an older one over it.
OwnVoteCounted ==
    \A i \in Validators : IntervalOf(i) = 3 /\ SlotOf(i) \notin failed =>
        store[i].known_votes[i] # NoVote /\ store[i].known_votes[i].slot = SlotOf(i)

\* Once the nodes of a quorum have been connected for two slots, those that have
\* the same blocks start each slot with the same head, although each has missed
\* other votes before.
HeadsConverge ==
    \A nodes \in SUBSET Validators :
        /\ Quorum(nodes) /\ Settled(nodes, 2) /\ SameBlocks(nodes)
        /\ \A i \in nodes : IntervalOf(i) = 0
        => \A i, j \in nodes : store[i].head = store[j].head

\* Once the nodes of a quorum have been connected for long enough, and have the
\* same blocks, each of them has finalized a block of a slot after the fault: also
\* if the other nodes are cut off, or are connected but on another branch.
FinalityResumes ==
    \A nodes \in SUBSET Validators :
        /\ InStep /\ Quorum(nodes) /\ SameBlocks(nodes)
        /\ Settled(nodes, IF nodes = Validators THEN Recovery ELSE QuorumRecovery)
        => \A i \in nodes : store[i].latest_finalized.slot >= since

\* A node that has handled a peer-ready event has finalized at least the slot that
\* the peer reported: the branch of the peer's head carries the peer's finalized
\* checkpoint, which the peer may have adopted from a block outside it.
WalkRestoresFinality ==
    [][\A i \in Validators : \A status \in ready[i] :
          status \notin ready'[i] /\ up' = up
              => store'[i].latest_finalized.slot >= status.finalized_slot]_vars
=============================================================================
