------------------------------ MODULE SyncLoop ------------------------------
(***************************************************************************)
(* The sync loop of crates/runtime (sync/loop_.rs): peer-ready events, the *)
(* watch task, the walks it spawns and initial_sync, beside gossip and the *)
(* clock.  A behaviour is the life of one process.                         *)
(*                                                                         *)
(* The peers are on one chain.  A block is its height, which is also its   *)
(* slot; the parent of block n is n - 1 and block 0 is genesis.            *)
(***************************************************************************)
EXTENDS Integers, Sequences, FiniteSets

CONSTANTS
    Peers,
    Height,             \* the head of each peer
    FinalityLag,        \* how far finality is behind the head
    MaxSyncDepth,       \* config.max_sync_depth
    MaxWalks,           \* config.max_concurrent_peer_syncs
    ChannelBound,       \* PEER_EVENT_CHANNEL_BOUND
    Initial,            \* the walker of initial_sync
    NoPeer, NoWalk, NoStatus,
    MaxClock,           \* bound on the clock's slot
    MaxLead,            \* bound on how far a peer's clock is ahead of its head
    MaxFaults,          \* bound on failed requests, failed saves and disconnects
    Starts              \* what a process may start from: [anchor, saved]

Walkers == Peers \cup {Initial}
Top == CHOOSE n \in {Height[p] : p \in Peers} : \A p \in Peers : Height[p] <= n
Block == 0 .. Top

ASSUME SyncAssumption ==
    /\ Peers # {} /\ IsFiniteSet(Peers) /\ Initial \notin Peers
    /\ Height \in [Peers -> Nat]
    /\ MaxSyncDepth \in Nat \ {0} /\ MaxWalks \in Nat \ {0} /\ ChannelBound \in Nat \ {0}
    /\ FinalityLag \in Nat
    /\ \A s \in Starts : s.anchor \in s.saved /\ 0 \in s.saved /\ s.saved \subseteq Block

VARIABLES
    tracked,    \* the blocks of the engine
    saved,      \* the blocks in storage
    clock,      \* the slot of the engine's clock
    status,     \* each peer's cached Status: [head, slot], or NoStatus
    events,     \* the peer-ready channel
    waiting,    \* the peer the watch task took from it and has no permit for yet
    walks,      \* the walk of each walker: [peer, phase, next, pending, known]
    initial,    \* the peers initial_sync has not handled yet
    faults

sync_vars == <<tracked, saved, clock, status, events, waiting, walks, initial, faults>>

\* build_engine: from genesis, from the head on disk, or from genesis with
\* blocks on disk if the recorded head is not there (module ChainService).
BuildEngine(s) == tracked = {s.anchor} /\ saved = s.saved /\ clock = s.anchor

SyncInit ==
    /\ \E s \in Starts : BuildEngine(s)
    /\ status = [p \in Peers |-> NoStatus]
    /\ events = <<>>
    /\ waiting = NoPeer
    /\ walks = [k \in Walkers |-> NoWalk]
    /\ initial \in SUBSET Peers
    /\ faults = 0
-----------------------------------------------------------------------------
MaxOf(S) == CHOOSE n \in S : \A m \in S : m <= n
MinOf(S) == CHOOSE n \in S : \A m \in S : n <= m

Finalized(head) == IF head > FinalityLag THEN head - FinalityLag ELSE 0

\* The store's finalized slot; at the start of a process it is the anchor's.
LocalFinalized == MaxOf({MinOf(tracked), Finalized(MaxOf(tracked))})

\* should_sync.  local_status gives the clock's slot as the head's.
ShouldSync(s) == Finalized(s.head) > LocalFinalized \/ s.slot > clock

\* import_block and import_block_synced: a duplicate and a block without its
\* parent change nothing.
Import(n) ==
    IF n \notin tracked /\ n - 1 \in tracked
    THEN /\ tracked' = tracked \cup {n}
         /\ \/ saved' = saved \cup {n} /\ UNCHANGED faults
            \/ faults < MaxFaults /\ faults' = faults + 1 /\ UNCHANGED saved
    ELSE UNCHANGED <<tracked, saved, faults>>

Fault ==
    /\ faults < MaxFaults
    /\ faults' = faults + 1
-----------------------------------------------------------------------------
(* The peers, gossip and the clock *)

Fetching(k) == walks[k] # NoWalk /\ walks[k].phase = "fetch"

\* set_status caches the status of a peer, whose slot is the peer's clock, and
\* sends the event unless the channel is full.
Handshake(p) ==
    /\ \E lead \in 0 .. MaxLead :
          status' = [status EXCEPT ![p] = [head |-> Height[p], slot |-> Height[p] + lead]]
    /\ events' = IF Len(events) < ChannelBound THEN Append(events, p) ELSE events
    /\ UNCHANGED <<tracked, saved, clock, waiting, walks, initial, faults>>

\* The status goes, and requests to the peer that are under way fail.
Disconnect(p) ==
    /\ status[p] # NoStatus
    /\ Fault
    /\ status' = [status EXCEPT ![p] = NoStatus]
    /\ walks' = [k \in Walkers |->
          IF Fetching(k) /\ walks[k].peer = p THEN NoWalk ELSE walks[k]]
    /\ UNCHANGED <<tracked, saved, clock, events, waiting, initial>>

\* The interval loop, which drains gossip and ticks, starts after initial_sync.
InitialSyncDone == initial = {} /\ walks[Initial] = NoWalk

Gossip(n) ==
    /\ InitialSyncDone
    /\ Import(n)
    /\ UNCHANGED <<clock, status, events, waiting, walks, initial>>

Tick ==
    /\ InitialSyncDone
    /\ clock < MaxClock
    /\ clock' = clock + 1
    /\ UNCHANGED <<tracked, saved, status, events, waiting, walks, initial, faults>>
-----------------------------------------------------------------------------
(* The watch task *)

NewWalk(p) == [peer |-> p, phase |-> "status", next |-> 0, pending |-> {},
               known |-> FALSE]

RunningWalks == {p \in Peers : walks[p] # NoWalk}

\* The watch task takes an event; one for a peer whose walk runs is dropped.
Receive ==
    /\ waiting = NoPeer /\ events # <<>>
    /\ events' = Tail(events)
    /\ waiting' = IF Head(events) \in RunningWalks THEN NoPeer ELSE Head(events)
    /\ UNCHANGED <<tracked, saved, clock, status, walks, initial, faults>>

\* It acquires a permit and spawns the walk.
Spawn ==
    /\ waiting # NoPeer
    /\ Cardinality(RunningWalks) < MaxWalks
    /\ walks' = [walks EXCEPT ![waiting] = NewWalk(waiting)]
    /\ waiting' = NoPeer
    /\ UNCHANGED <<tracked, saved, clock, status, events, initial, faults>>

\* initial_sync handles the peers connected at its start one by one, beside
\* the watch task and without a permit.
InitialSync(p) ==
    /\ p \in initial /\ walks[Initial] = NoWalk
    /\ walks' = [walks EXCEPT ![Initial] = NewWalk(p)]
    /\ initial' = initial \ {p}
    /\ UNCHANGED <<tracked, saved, clock, status, events, waiting, faults>>
-----------------------------------------------------------------------------
(* A walk *)

\* PeerWorker::handle up to the decision to sync.
HandleStatus(k) ==
    /\ walks[k] # NoWalk /\ walks[k].phase = "status"
    /\ LET s == status[walks[k].peer]
       IN  walks' = [walks EXCEPT ![k] =
               IF s # NoStatus /\ ShouldSync(s)
               THEN [@ EXCEPT !.phase = "walk", !.next = s.head]
               ELSE NoWalk]
    /\ UNCHANGED <<tracked, saved, clock, status, events, waiting, initial, faults>>

\* MUTANT of WalkEnds: the walk ends at a block whose parent is known.
WalkEndsEarly(w) ==
    \/ Cardinality(w.pending) = MaxSyncDepth
    \/ w.next < 0
    \/ w.next - 1 \in saved

\* The loop of walk_back_with ends: the depth is reached, the root is zero, or
\* storage has the block.
WalkEnds(w) ==
    \/ Cardinality(w.pending) = MaxSyncDepth
    \/ w.next < 0
    \/ w.next \in saved

Walking(k) == walks[k] # NoWalk /\ walks[k].phase = "walk"

StopWalk(k) ==
    /\ Walking(k) /\ WalkEnds(walks[k])
    /\ walks' = [walks EXCEPT ![k].phase = "import", ![k].known = walks[k].next \in saved]
    /\ UNCHANGED <<tracked, saved, clock, status, events, waiting, initial, faults>>

\* The block is not in storage: fetch_hop asks for it, and others run until
\* the answer is there.
Request(k) ==
    /\ Walking(k) /\ ~WalkEnds(walks[k])
    /\ walks' = [walks EXCEPT ![k].phase = "fetch"]
    /\ UNCHANGED <<tracked, saved, clock, status, events, waiting, initial, faults>>

FetchBlock(k) ==
    /\ Fetching(k)
    /\ walks' = [walks EXCEPT ![k].phase = "walk",
                              ![k].next = @ - 1,
                              ![k].pending = @ \cup {walks[k].next}]
    /\ UNCHANGED <<tracked, saved, clock, status, events, waiting, initial, faults>>

\* The request returns no block: what was collected is kept for an empty
\* answer, and dropped after a timeout, an invalid answer, an error of the
\* transport or of storage.
FetchFails(k) ==
    /\ Fetching(k)
    /\ Fault
    /\ \/ walks' = [walks EXCEPT ![k].phase = "import"]
       \/ walks' = [walks EXCEPT ![k] = NoWalk]
    /\ UNCHANGED <<tracked, saved, clock, status, events, waiting, initial>>

\* MUTANT of NextImport: newest first.
NextImportNewest(w) == MaxOf(w.pending)

\* import_chain takes the blocks oldest first.
NextImport(w) == MinOf(w.pending)

Importing(k) == walks[k] # NoWalk /\ walks[k].phase = "import"

ImportNext(k) ==
    /\ Importing(k) /\ walks[k].pending # {}
    /\ Import(NextImport(walks[k]))
    /\ walks' = [walks EXCEPT ![k].pending = @ \ {NextImport(walks[k])}]
    /\ UNCHANGED <<clock, status, events, waiting, initial>>

Finish(k) ==
    /\ Importing(k) /\ walks[k].pending = {}
    /\ walks' = [walks EXCEPT ![k] = NoWalk]
    /\ UNCHANGED <<tracked, saved, clock, status, events, waiting, initial, faults>>

WalkStep(k) == HandleStatus(k) \/ StopWalk(k) \/ Request(k) \/ FetchBlock(k)
               \/ ImportNext(k) \/ Finish(k)

SyncNext ==
    \/ \E p \in Peers : Handshake(p) \/ Disconnect(p) \/ InitialSync(p)
    \/ \E n \in Block : Gossip(n)
    \/ Tick
    \/ Receive \/ Spawn
    \/ \E k \in Walkers : WalkStep(k) \/ FetchFails(k)

\* Peers keep reconnecting, at times when the channel has room; the newest block
\* is gossiped; and tokio runs every task that can run.
SyncFairness ==
    /\ \A p \in Peers : /\ SF_sync_vars(Handshake(p) /\ Len(events) < ChannelBound)
                       /\ WF_sync_vars(InitialSync(p))
    /\ WF_sync_vars(Gossip(Top)) /\ WF_sync_vars(Receive) /\ WF_sync_vars(Spawn)
    /\ \A k \in Walkers : WF_sync_vars(WalkStep(k))

SyncSpec == SyncInit /\ [][SyncNext]_sync_vars /\ SyncFairness
-----------------------------------------------------------------------------
(* Properties *)

\* Walks are well formed and collect at most max_sync_depth blocks, and the
\* channel of set_status is bounded.
SyncTypeOK ==
    /\ tracked \subseteq Block /\ saved \subseteq Block
    /\ \A p \in Peers : status[p] # NoStatus =>
          status[p] \in [head : Block, slot : 0 .. Top + MaxLead]
    /\ Len(events) <= ChannelBound
    /\ waiting \in Peers \cup {NoPeer}
    /\ \A k \in Walkers : walks[k] # NoWalk =>
          /\ walks[k].pending \subseteq Block
          /\ Cardinality(walks[k].pending) <= MaxSyncDepth

\* The watch task never runs more than max_concurrent_peer_syncs walks.
WalksBounded == Cardinality(RunningWalks) <= MaxWalks

\* When a walk ended at a block that storage has, the parent of each block it
\* collected is resolved by the time import_chain offers it to the engine,
\* whatever gossip and other walks imported between has_block, the answers and
\* the imports.  Not so if
\* the process started with blocks on disk that the engine does not have.
ParentResolved ==
    \A k \in Walkers :
        Importing(k) /\ walks[k].pending # {} /\ walks[k].known
        => NextImport(walks[k]) - 1 \in tracked

\* The node comes to track the head of its peers, although events, requests
\* and saves may fail.
CatchesUp == <>(Top \in tracked)

\* PeerWorker::handle leaves a peer whose status it has only if the head of the
\* peer is not ahead of every block of this node.
SkipsOnlyWhenLevel ==
    [][\A k \in Walkers :
          HandleStatus(k) /\ walks'[k] = NoWalk /\ status[walks[k].peer] # NoStatus
          => status[walks[k].peer].head <= MaxOf(tracked)]_sync_vars
=============================================================================
