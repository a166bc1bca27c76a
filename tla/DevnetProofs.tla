---------------------------- MODULE DevnetProofs ----------------------------
(***************************************************************************)
(* What holds of any number of nodes over any number of slots, whichever   *)
(* nodes are cut off and however far a ticker falls behind: the states that *)
(* production computes finalize and justify blocks of their own branch, as  *)
(* the abstract post-states of ForkChoice say; every node's store is sound; *)
(* and in step no proposer fails.  Until the first fault there is no fork.  *)
(***************************************************************************)
EXTENDS DevnetLemmas

(* The invariant *)

Bounded ==
    /\ root_of \in Hashes /\ bound \in Bounds
    /\ failed \subseteq Slots /\ up \subseteq Validators
    /\ faults \in 0 .. bound.faults /\ since \in Nat

\* Tickers that are in step are at most a tick apart.
Clocks ==
    /\ tick \in [Validators -> Nat] /\ lag \in [Validators -> Nat]
    /\ InStep => \A i, j \in Validators : tick[i] <= tick[j] + 1

\* The block of a slot was produced by the proposer of the slot, whose ticker
\* has passed its start.
Past ==
    \A r \in DOMAIN ledger :
        /\ ledger[r].slot \in Slots /\ r = root_of[ledger[r].slot]
        /\ r # AnchorRoot => ledger[r].slot * IntervalsPerSlot < tick[Proposer(ledger[r].slot)]

Channels ==
    /\ block_rx \in [Validators -> Seq(DOMAIN ledger)]
    /\ vote_rx \in [Validators -> SUBSET [validator_id: Validators, data: Vote]]

\* A status names a peer and a block that has been produced.
Statuses ==
    /\ ready = [i \in Validators |-> ready[i]]
    /\ \A i \in Validators : IsFiniteSet(ready[i])
    /\ \A i \in Validators : \A status \in ready[i] :
          status.peer \in Validators /\ status.head \in DOMAIN ledger

Nodes ==
    /\ store = [i \in Validators |-> store[i]]
    /\ \A i \in Validators : Node(Chain, store[i], tick[i])

IInv == Bounded /\ Clocks /\ ChainOk /\ Past /\ Channels /\ Statuses /\ Nodes /\ ProductionSucceeds

\* The blocks produced are a single branch.
Line == \A p, q \in DOMAIN ledger : p \in Ancestors(Chain, q) \/ q \in Ancestors(Chain, p)

\* Node i has every block, or every block but the last, which waits in its
\* channel until the second tick of its slot.
UpToDate(i) ==
    \/ block_rx[i] = <<>> /\ Tracked(store[i]) = DOMAIN ledger
    \/ \E r \in DOMAIN ledger :
          /\ block_rx[i] = <<r>> /\ DOMAIN ledger = Tracked(store[i]) \cup {r}
          /\ r # AnchorRoot
          /\ tick[i] <= ledger[r].slot * IntervalsPerSlot + 1

\* What holds until the first fault.
Undisturbed == InStep /\ faults = 0

UInv ==
    Undisturbed => up = Validators /\ Line /\ \A i \in Validators : UpToDate(i) /\ ready[i] = {}

\* At genesis every node has the anchor alone.
LEMMA InitInv ==
    ASSUME Init
    PROVE  IInv /\ UInv
<1>1. /\ Tracked(Chain) = {AnchorRoot} /\ DOMAIN ledger = {AnchorRoot}
      /\ Chain.blocks[AnchorRoot] = [slot |-> 0, parent_root |-> ZeroRoot,
                                     post |-> [justified |-> Zero, finalized |-> Zero]]
  <2>1. /\ DOMAIN ledger = {AnchorRoot}
        /\ ledger[AnchorRoot].slot = 0 /\ ledger[AnchorRoot].parent_root = ZeroRoot
        /\ ledger[AnchorRoot].state = ST!GenesisState
    BY Zenon DEF Init
  <2>2. ST!GenesisState.latest_justified = Zero /\ ST!GenesisState.latest_finalized = Zero
    BY Zenon DEF ST!GenesisState, ST!Zero, Zero, Checkpoint
  <2> QED
    BY <2>1, <2>2, Zenon DEF Chain, Post, Tracked
<1>2. /\ Zero \in Cp /\ Zero.slot <= 0 /\ ZeroRoot \in {ZeroRoot, PrunedRoot}
  BY ForkChoiceAssumption DEF Zero, Checkpoint, Cp
<1>3. Ready(FromAnchor) /\ HeadOk(FromAnchor) /\ Ordered(FromAnchor)
  BY <1>2, SeedReady, Zenon DEF FromAnchor
<1>4. FromAnchor.time = 0 /\ FromAnchor.blocks = Chain.blocks
  <2>1. FromAnchor.time = 0 /\ DOMAIN FromAnchor.blocks = {AnchorRoot}
        /\ FromAnchor.blocks[AnchorRoot] = [slot |-> 0, parent_root |-> ZeroRoot,
                                            post |-> [justified |-> Zero, finalized |-> Zero]]
        /\ FromAnchor.blocks = [r \in {AnchorRoot} |-> FromAnchor.blocks[r]]
    BY DEF FromAnchor, SeedAnchor, IntervalsPerSlot
  <2>2. Chain.blocks = [r \in DOMAIN ledger |-> Chain.blocks[r]]
    BY Zenon DEF Chain
  <2> HIDE DEF FromAnchor
  <2> QED
    BY <1>1, <2>1, <2>2, Zenon
<1>5. Node(Chain, FromAnchor, 0) /\ Tracked(FromAnchor) = DOMAIN ledger
  BY <1>1, <1>3, <1>4, Zenon DEF Node, Within, Tracked
<1>6. ChainOk
  <2>1. TreeOk(Chain.blocks, AnchorRoot)
    BY <1>3, <1>4, Zenon DEF Ready, Sound
  <2>2. /\ {ZeroRoot, PrunedRoot} \cap DOMAIN ledger = {}
        /\ ledger[AnchorRoot].parent_root = ZeroRoot
        /\ ledger[AnchorRoot].state = ST!GenesisState /\ ledger[AnchorRoot].body = EmptyPool
    BY <1>1, ForkChoiceAssumption, Zenon DEF Init
  <2>3. ST!GenesisState.latest_justified = Zero /\ ST!GenesisState.latest_finalized = Zero
    BY DEF ST!GenesisState, ST!Zero, Zero, Checkpoint
  <2>4. StateOf(Chain, ledger[AnchorRoot].state, AnchorRoot)
    BY <1>1, <2>2, <2>3 DEF StateOf
  <2>5. EmptyPool \in Pool
    BY Zenon DEF EmptyPool, Pool
  <2> QED
    BY <1>1, <2>1, <2>2, <2>4, <2>5, Zenon DEF ChainOk
<1>7. Bounded
  BY DevnetAssumption DEF Init, Bounded
<1>8. Clocks
  BY DEF Init, Clocks
<1>9. Past
  BY <1>1, DevnetAssumption DEF Init, Past, Slots
<1>10. Channels
  BY DEF Init, Channels
<1>11. Nodes /\ Statuses
  BY <1>5, FS_EmptySet, Zenon DEF Init, Nodes, Statuses
<1>12. ProductionSucceeds
  BY Zenon DEF Init, ProductionSucceeds
<1>13. UInv
  <2>1. Line
    <3>1. AnchorRoot \in Ancestors(Chain, AnchorRoot)
      BY <1>1, <1>6, AncestorsBelow, Zenon DEF ChainOk
    <3> QED
      BY <1>1, <3>1, Zenon DEF Line
  <2> QED
    BY <1>5, <2>1, Zenon DEF Init, UInv, UpToDate
<1> QED
  BY <1>6, <1>7, <1>8, <1>9, <1>10, <1>11, <1>12, <1>13, Zenon DEF IInv

\* What the start of an iteration leaves of node i: the store after drain_gossip,
\* and after accept_new_votes.
LEMMA Drained ==
    ASSUME IInv, NEW i \in Validators
    PROVE  LET d == DrainGossip(i)
               s == AcceptNewVotes(d)
           IN  /\ Node(Chain, d, tick[i]) /\ Node(Chain, s, tick[i])
               /\ Tracked(d) = Tracked(ImportEach(store[i], block_rx[i], DOMAIN ledger))
               /\ Tracked(s) = Tracked(d)
<1>1. /\ Node(Chain, store[i], tick[i]) /\ ChainOk
      /\ block_rx[i] \in Seq(DOMAIN ledger)
      /\ vote_rx[i] \subseteq [validator_id: Validators, data: Vote]
  BY Zenon DEF IInv, Nodes, Channels
<1>2. /\ Node(Chain, DrainGossip(i), tick[i])
      /\ Tracked(DrainGossip(i)) = Tracked(ImportEach(store[i], block_rx[i], DOMAIN ledger))
  BY <1>1, DrainNode, Zenon
<1> QED
  BY <1>2, AcceptNode, Zenon

\* A tick before the end of slot n is one of a slot up to n.
LEMMA SlotBelow ==
    ASSUME NEW t \in Nat, NEW l \in Nat, NEW n \in Nat, t + l < (n + 1) * 4
    PROVE  t \div 4 \in Nat /\ t \div 4 <= n
OBVIOUS

\* The slot of an iteration is one of the behaviour's; in step, no other ticker
\* is behind.
LEMMA Firing ==
    ASSUME IInv, NEW i \in Validators, Fires(i)
    PROVE  /\ tick[i] \in Nat /\ SlotOf(i) \in Slots
           /\ InStep => \A j \in Validators : tick[i] <= tick[j] /\ tick[j] <= tick[i] + 1
<1>1. bound.slots \in Slots /\ Slots \subseteq Nat /\ bound.slots <= MaxSlot /\ MaxSlot \in Nat
  BY DevnetAssumption DEF IInv, Bounded, Slots
<1>2. tick \in [Validators -> Nat] /\ lag \in [Validators -> Nat]
  BY Zenon DEF IInv, Clocks
<1>3. tick[i] + lag[i] < (bound.slots + 1) * 4
  BY Zenon DEF Fires, WallTick, IntervalsPerSlot
<1>4. SlotOf(i) \in Slots
  <2>1. tick[i] \in Nat /\ lag[i] \in Nat /\ bound.slots \in Nat
    BY <1>1, <1>2, Zenon
  <2>2. tick[i] \div 4 \in Nat /\ tick[i] \div 4 <= bound.slots
    BY <1>3, <2>1, SlotBelow, Zenon
  <2> QED
    BY <1>1, <2>2 DEF SlotOf, IntervalsPerSlot, Slots
<1>5. ASSUME InStep
      PROVE  \A j \in Validators : tick[i] <= tick[j] /\ tick[j] <= tick[i] + 1
  BY <1>2, <1>5 DEF IInv, Clocks, InStep, Fires, WallTick
<1> QED
  BY <1>2, <1>4, <1>5, Zenon

\* The tickers stay a tick apart, and what is past stays past.
LEMMA Ticks ==
    ASSUME IInv, NEW i \in Validators, Fires(i), tick' = [tick EXCEPT ![i] = @ + 1], lag' = lag
    PROVE  /\ Clocks' /\ InStep' = InStep
           /\ \A j \in Validators : tick'[j] = IF j = i THEN tick[i] + 1 ELSE tick[j]
           /\ \A n \in Nat, j \in Validators : n < tick[j] => n < tick'[j]
<1>1. tick \in [Validators -> Nat] /\ lag \in [Validators -> Nat]
  BY Zenon DEF IInv, Clocks
<1>2. InStep' = InStep
  BY Zenon DEF InStep
<1>3. /\ tick' \in [Validators -> Nat]
      /\ \A j \in Validators : tick'[j] = IF j = i THEN tick[i] + 1 ELSE tick[j]
  BY <1>1
<1>4. ASSUME InStep, NEW j \in Validators, NEW k \in Validators
      PROVE  tick'[j] <= tick'[k] + 1
  BY <1>1, <1>3, <1>4, Firing DEF IInv, Clocks
<1>5. \A n \in Nat, j \in Validators : n < tick[j] => n < tick'[j]
  BY <1>1, <1>3
<1> QED
  BY <1>1, <1>2, <1>3, <1>4, <1>5, Zenon DEF Clocks

\* A tick of interval 0 starts a slot.
LEMMA SlotStart ==
    ASSUME NEW t \in Nat, t % 4 = 0
    PROVE  t = (t \div 4) * 4
OBVIOUS

\* A node that is up to date has every block after drain_gossip.
LEMMA CaughtUp ==
    ASSUME IInv, NEW i \in Validators, UpToDate(i)
    PROVE  Tracked(ImportEach(store[i], block_rx[i], DOMAIN ledger)) = DOMAIN ledger
<1> DEFINE rx == block_rx[i]
           t == ImportEach(store[i], rx, DOMAIN ledger)
<1>1. ChainOk /\ Node(Chain, store[i], tick[i])
  BY Zenon DEF IInv, Nodes
<1>2. CASE rx = <<>> /\ Tracked(store[i]) = DOMAIN ledger
  <2>1. Len(rx) = 0
    BY <1>2
  <2>2. PICK f : ImportsTo(f, store[i], rx, DOMAIN ledger, 0) /\ t = f[0]
    BY <2>1, ImportRun
  <2>3. f[0] = store[i]
    BY <2>2 DEF ImportsTo
  <2> QED
    BY <1>2, <2>2, <2>3, Zenon
<1>3. ASSUME NEW r \in DOMAIN ledger, rx = <<r>>, DOMAIN ledger = Tracked(store[i]) \cup {r},
             r # AnchorRoot
      PROVE  Tracked(t) = DOMAIN ledger
  <2>1. Len(rx) = 1 /\ rx[1] = r
    BY <1>3
  <2>2. PICK f : ImportsTo(f, store[i], rx, DOMAIN ledger, 1) /\ t = f[1]
    <3>1. Len(rx) \in Nat
      BY <2>1
    <3>2. \E f : ImportsTo(f, store[i], rx, DOMAIN ledger, Len(rx)) /\ t = f[Len(rx)]
      BY <3>1, ImportRun, Zenon
    <3> QED
      BY <2>1, <3>2, Zenon
  <2>3. f[0] = store[i] /\ f[1] = ImportBlock(f[0], r)
    BY <2>1, <2>2 DEF ImportsTo
  <2>4. ledger[r].parent_root \in Tracked(store[i])
    <3>1. BranchOk(Chain, r)
      BY <1>1, ChainFields, Zenon DEF ChainOk, BranchOk
    <3>2. /\ ledger[r].parent_root \in DOMAIN ledger
          /\ ledger[ledger[r].parent_root].slot < ledger[r].slot /\ ledger[r].slot \in Nat
      BY <1>1, <1>3, ChainFields, Zenon DEF ChainOk, TreeOk, Tracked, BlockRecord
    <3>3. ledger[r].parent_root # r
      BY <3>2
    <3> QED
      BY <1>3, <3>2, <3>3, Zenon
  <2>5. Tracked(t) = Tracked(store[i]) \cup {r}
    BY <1>1, <2>2, <2>3, <2>4, ImportBlockNode, Zenon
  <2> QED
    BY <1>3, <2>5, Zenon
<1> QED
  BY <1>2, <1>3, Zenon DEF UpToDate

\* The chain depends on the ledger alone.
LEMMA SameLedger ==
    ASSUME ledger' = ledger
    PROVE  Chain' = Chain /\ (ChainOk => ChainOk') /\ (Line => Line')
<1>1. Chain' = Chain
  BY Zenon DEF Chain, Post
<1> QED
  BY <1>1, Zenon DEF ChainOk, Line

\* An iteration that produces no block keeps the invariant, if it leaves a store
\* in order behind and a production that failed in step was that of slot 0.
LEMMA QuietInv ==
    ASSUME IInv, NEW i \in Validators, Fires(i),
           NEW s, Node(Chain, s, tick[i]), NEW p, Iterate(i, s, p),
           UNCHANGED <<lag, ready, ledger, root_of, up, faults, since, bound>>,
           block_rx' = [block_rx EXCEPT ![i] = <<>>],
           vote_rx' \in [Validators -> SUBSET [validator_id: Validators, data: Vote]],
           failed' \subseteq failed \cup {SlotOf(i)},
           failed' = failed \/ (InStep => SlotOf(i) = 0)
    PROVE  IInv'
<1>1. Chain' = Chain /\ ChainOk'
  BY SameLedger, Zenon DEF IInv
<1>2. /\ Clocks' /\ InStep' = InStep
      /\ \A j \in Validators : tick'[j] = IF j = i THEN tick[i] + 1 ELSE tick[j]
      /\ \A n \in Nat, j \in Validators : n < tick[j] => n < tick'[j]
  BY Ticks, Zenon DEF Iterate
<1>3. Bounded'
  BY Firing, Zenon DEF IInv, Bounded
<1>4. Past'
  <2> SUFFICES ASSUME NEW r \in DOMAIN ledger, r # AnchorRoot
               PROVE  ledger[r].slot * IntervalsPerSlot < tick'[Proposer(ledger[r].slot)]
    BY Zenon DEF IInv, Past
  <2> DEFINE n == ledger[r].slot
  <2>1. n \in Nat /\ n * IntervalsPerSlot < tick[Proposer(n)]
    BY DevnetAssumption DEF IInv, Past, Slots
  <2>2. Proposer(n) \in Validators /\ n * IntervalsPerSlot \in Nat
    BY <2>1, ForkChoiceAssumption DEF Proposer, Validators, IntervalsPerSlot
  <2> QED
    BY <1>2, <2>1, <2>2, Zenon
<1>5. Channels'
  <2>1. block_rx \in [Validators -> Seq(DOMAIN ledger)] /\ <<>> \in Seq(DOMAIN ledger)
    BY DEF IInv, Channels
  <2> QED
    BY <2>1, Zenon DEF Channels
<1>6. Nodes'
  <2>1. store' = [store EXCEPT ![i] = TickInterval(s, p)]
    BY Zenon DEF Iterate
  <2>2. store = [j \in Validators |-> store[j]]
    BY Zenon DEF IInv, Nodes
  <2>3. store' = [j \in Validators |-> store'[j]]
        /\ \A j \in Validators : store'[j] = IF j = i THEN TickInterval(s, p) ELSE store[j]
    BY <2>1, <2>2, Zenon
  <2>4. Node(Chain, TickInterval(s, p), tick[i] + 1)
    BY TickNode, Zenon
  <2>5. \A j \in Validators : Node(Chain, store'[j], tick'[j])
    BY <1>2, <2>3, <2>4, Zenon DEF IInv, Nodes
  <2> QED
    BY <1>1, <2>3, <2>5, Zenon DEF Nodes
<1>7. ProductionSucceeds' /\ Statuses'
  BY <1>2, Zenon DEF IInv, ProductionSucceeds, Statuses
<1> QED
  BY <1>1, <1>2, <1>3, <1>4, <1>5, <1>6, <1>7, Zenon DEF IInv

\* Until the first fault it leaves its node with every block.
LEMMA QuietUndisturbed ==
    ASSUME IInv, UInv, NEW i \in Validators, Fires(i),
           NEW s, Node(Chain, s, tick[i]), NEW p, Iterate(i, s, p),
           Tracked(s) = Tracked(ImportEach(store[i], block_rx[i], DOMAIN ledger)),
           UNCHANGED <<lag, ready, ledger, up, faults>>,
           block_rx' = [block_rx EXCEPT ![i] = <<>>]
    PROVE  UInv'
<1>1. InStep' = InStep /\ \A j \in Validators : tick'[j] = IF j = i THEN tick[i] + 1 ELSE tick[j]
  BY Ticks, Zenon DEF Iterate
<1> SUFFICES ASSUME Undisturbed
             PROVE  up = Validators /\ Line' /\ \A j \in Validators : UpToDate(j)'
  BY <1>1, Zenon DEF UInv, Undisturbed
<1>2. up = Validators /\ Line /\ \A j \in Validators : UpToDate(j)
  BY Zenon DEF UInv
<1>3. Tracked(TickInterval(s, p)) = DOMAIN ledger
  BY <1>2, CaughtUp, TickNode, Zenon
<1>4. ASSUME NEW j \in Validators
      PROVE  UpToDate(j)'
  <2>1. /\ store' = [store EXCEPT ![i] = TickInterval(s, p)]
        /\ store = [k \in Validators |-> store[k]] /\ block_rx \in [Validators -> Seq(DOMAIN ledger)]
    BY Zenon DEF Iterate, IInv, Nodes, Channels
  <2>2. CASE j = i
    <3>1. block_rx'[j] = <<>> /\ store'[j] = TickInterval(s, p)
      BY <2>1, <2>2, Zenon
    <3> QED
      BY <1>3, <3>1, Zenon DEF UpToDate
  <2>3. CASE j # i
    <3>1. block_rx'[j] = block_rx[j] /\ store'[j] = store[j] /\ tick'[j] = tick[j]
      BY <1>1, <2>1, <2>3, Zenon
    <3>2. UpToDate(j)
      BY <1>2, Zenon
    <3> QED
      BY <3>1, <3>2, Zenon DEF UpToDate
  <2> QED
    BY <2>2, <2>3, Zenon
<1> QED
  BY <1>2, <1>4, SameLedger, Zenon
-----------------------------------------------------------------------------
(* The actions *)

\* The state of a node's head is the one its candidate is built on.
LEMMA HeadState ==
    ASSUME ChainOk, NEW s, NEW tm, Node(Chain, s, tm)
    PROVE  /\ s.head \in DOMAIN ledger /\ s.head \in Tracked(s)
           /\ BranchOk(Chain, s.head) /\ StateOf(Chain, ledger[s.head].state, s.head)
           /\ Chain.blocks[s.head].slot = ledger[s.head].slot
           /\ s.blocks[s.head] = Chain.blocks[s.head]
           /\ ZeroRoot \notin Tracked(s) /\ VotesOk(s) /\ Ready(s) /\ Sound(s) /\ Ordered(s)
           /\ Within(Chain, s) /\ s.time = tm
<1>1. s.head \in Tracked(s) /\ Within(Chain, s)
  BY Zenon DEF Node, HeadOk
<1>2. s.head \in DOMAIN ledger /\ s.blocks[s.head] = Chain.blocks[s.head]
      /\ Tracked(s) \subseteq DOMAIN ledger
  BY <1>1, ChainFields, Zenon DEF Within
<1>3. BranchOk(Chain, s.head)
  BY <1>2, ChainFields, Zenon DEF ChainOk, BranchOk
<1> QED
  BY <1>1, <1>2, <1>3, ChainFields, Zenon DEF ChainOk, Node, Ready, Sound

\* The fields of the candidate of node i.
LEMMA NewBlockFields ==
    ASSUME NEW i, NEW s
    PROVE  LET b == NewBlock(i, s)
           IN  /\ b.root = root_of[SlotOf(i)] /\ b.slot = SlotOf(i)
               /\ b.parent_root = s.head /\ b.proposer_index = i
BY Zenon DEF NewBlock

\* In step, a proposer at the start of a slot after 0 is above every block.
LEMMA AboveAll ==
    ASSUME IInv, InStep, NEW i \in Validators, Fires(i), IntervalOf(i) = 0,
           i = Proposer(SlotOf(i)), SlotOf(i) # 0
    PROVE  \A r \in DOMAIN ledger : ledger[r].slot < SlotOf(i)
<1> DEFINE n == SlotOf(i)
<1>1. tick[i] \in Nat /\ n \in Nat /\ tick[i] = n * 4
  BY Firing, SlotStart, DevnetAssumption DEF SlotOf, IntervalOf, IntervalsPerSlot, Slots
<1> SUFFICES ASSUME NEW r \in DOMAIN ledger
             PROVE  ledger[r].slot < n
  BY Zenon
<1> DEFINE m == ledger[r].slot
<1>2. CASE r = AnchorRoot
  <2>1. m = 0
    BY <1>2, ChainFields, Zenon DEF IInv, ChainOk, StateOf
  <2> QED
    BY <1>1, <2>1
<1>3. CASE r # AnchorRoot
  <2>1. m \in Nat /\ m * 4 < tick[Proposer(m)]
    BY <1>3, DevnetAssumption DEF IInv, Past, Slots, IntervalsPerSlot
  <2>2. Proposer(m) \in Validators
    BY <2>1, ForkChoiceAssumption DEF Proposer, Validators
  <2>3. tick[Proposer(m)] <= n * 4 + 1 /\ tick[Proposer(m)] \in Nat
    BY <1>1, <2>2, Firing, Zenon DEF IInv, Clocks
  <2>4. m # n
    BY <1>1, <2>1
  <2> HIDE DEF m, n
  <2>5. m < n
    BY <1>1, <2>1, <2>3, <2>4
  <2> QED
    BY <2>5, Zenon DEF m
<1> QED
  BY <1>2, <1>3, Zenon

\* Production in step does not fail after slot 0.
LEMMA FailsOnlyAtStart ==
    ASSUME IInv, InStep, NEW i \in Validators, ProposeFails(i)
    PROVE  SlotOf(i) = 0
<1> DEFINE s == AcceptNewVotes(DrainGossip(i))
           b == NewBlock(i, s)
           n == SlotOf(i)
<1> SUFFICES ASSUME n # 0
             PROVE  FALSE
  BY Zenon
<1>1. /\ Fires(i) /\ IntervalOf(i) = 0 /\ i = Proposer(n)
      /\ CandidateHeaderOk(ledger[s.head].state, b) => \E o \in Outcomes(s, b) : ~o.in_range
  BY Zenon DEF ProposeFails
<1>2. Node(Chain, s, tick[i]) /\ ChainOk
  BY Drained, Zenon DEF IInv
<1>3. b.slot = n /\ b.parent_root = s.head /\ b.proposer_index = i
  BY NewBlockFields, Zenon
<1> HIDE DEF s, b, n
<1>4. /\ s.head \in DOMAIN ledger
      /\ BranchOk(Chain, s.head) /\ StateOf(Chain, ledger[s.head].state, s.head)
      /\ Chain.blocks[s.head].slot = ledger[s.head].slot
      /\ ZeroRoot \notin Tracked(s) /\ VotesOk(s) /\ Within(Chain, s)
  BY <1>2, HeadState, Zenon
<1>5. \A r \in DOMAIN ledger : ledger[r].slot < n
  BY <1>1, AboveAll, Zenon DEF n
<1>6. n \in Slots /\ n \in Nat
  BY <1>1, Firing, DevnetAssumption DEF n, Slots
<1>7. Chain.blocks[s.head].slot < n /\ Chain.blocks[s.head].slot \in Nat
  BY <1>4, <1>5, Zenon DEF BranchOk, TreeOk, BlockRecord, Tracked
<1>8. CandidateHeaderOk(ledger[s.head].state, b)
  BY <1>1, <1>3, <1>4, <1>6, <1>7, CandidateAccepted, Zenon
<1>9. \A r \in Tracked(s) : s.blocks[r].slot < b.slot
  BY <1>3, <1>4, <1>5, ChainFields, Zenon DEF Within
<1>10. PICK o \in Outcomes(s, b) : ~o.in_range
  BY <1>1, <1>8, Zenon
<1>11. b.slot \in Nat /\ b.slot > Chain.blocks[s.head].slot
  BY <1>3, <1>6, <1>7, Zenon
<1>12. o.in_range
  BY <1>3, <1>4, <1>9, <1>11, OutcomeOk, Zenon
<1> QED
  BY <1>10, <1>12, Zenon

\* The iterations that produce no block.
LEMMA QuietSteps ==
    ASSUME IInv, UInv, NEW i \in Validators, ProposeFails(i) \/ Attest(i) \/ Drain(i)
    PROVE  IInv' /\ UInv'
<1> DEFINE d == DrainGossip(i)
           s == AcceptNewVotes(d)
           vote == OwnVote(s, SlotOf(i))
<1>1. /\ Node(Chain, d, tick[i]) /\ Node(Chain, s, tick[i])
      /\ Tracked(d) = Tracked(ImportEach(store[i], block_rx[i], DOMAIN ledger))
      /\ Tracked(s) = Tracked(d)
  BY Drained, Zenon
<1>2. vote_rx \in [Validators -> SUBSET [validator_id: Validators, data: Vote]]
  BY Zenon DEF IInv, Channels
<1>3. CASE ProposeFails(i)
  <2>1. /\ Fires(i) /\ Iterate(i, s, FALSE) /\ failed' = failed \cup {SlotOf(i)}
        /\ block_rx' = [block_rx EXCEPT ![i] = <<>>] /\ vote_rx' = [vote_rx EXCEPT ![i] = {}]
        /\ UNCHANGED <<lag, ready, ledger, root_of, up, faults, since, bound>>
    BY <1>3, Zenon DEF ProposeFails
  <2>2. InStep => SlotOf(i) = 0
    BY <1>3, FailsOnlyAtStart, Zenon
  <2>3. vote_rx' \in [Validators -> SUBSET [validator_id: Validators, data: Vote]]
    BY <1>2, <2>1, Zenon
  <2> HIDE DEF s
  <2> QED
    BY <1>1, <2>1, <2>2, <2>3, QuietInv, QuietUndisturbed, Zenon
<1>4. CASE Attest(i)
  <2> DEFINE u == Reimport(s, i, vote)
  <2>1. /\ Fires(i) /\ Iterate(i, u, FALSE) /\ failed' = failed
        /\ block_rx' = [block_rx EXCEPT ![i] = <<>>]
        /\ vote_rx' = [j \in Validators |->
              IF j = i THEN {}
              ELSE IF j \in Receivers(i) THEN vote_rx[j] \cup {Attestation(i, vote)}
              ELSE vote_rx[j]]
        /\ UNCHANGED <<lag, ready, ledger, root_of, up, faults, since, bound>>
    BY <1>4, Zenon DEF Attest
  <2>2. tick[i] \in Nat
    BY <2>1, Firing, Zenon
  <2> HIDE DEF s
  <2>3. vote \in Vote /\ Node(Chain, u, tick[i]) /\ Tracked(u) = Tracked(s)
    BY <1>1, <2>2, ReimportNode, Zenon DEF SlotOf
  <2> HIDE DEF u, vote
  <2>4. Attestation(i, vote) \in [validator_id: Validators, data: Vote]
    BY <2>3, Zenon DEF Attestation
  <2>5. vote_rx' \in [Validators -> SUBSET [validator_id: Validators, data: Vote]]
    BY <1>2, <2>1, <2>4, Zenon
  <2> QED
    BY <1>1, <2>1, <2>3, <2>5, QuietInv, QuietUndisturbed, Zenon
<1>5. CASE Drain(i)
  <2> DEFINE p == Proposer(SlotOf(i)) = i /\ SlotOf(i) \notin failed
  <2>1. /\ Fires(i) /\ Iterate(i, d, p) /\ failed' = failed
        /\ block_rx' = [block_rx EXCEPT ![i] = <<>>] /\ vote_rx' = [vote_rx EXCEPT ![i] = {}]
        /\ UNCHANGED <<lag, ready, ledger, root_of, up, faults, since, bound>>
    BY <1>5, Zenon DEF Drain
  <2>2. vote_rx' \in [Validators -> SUBSET [validator_id: Validators, data: Vote]]
    BY <1>2, <2>1, Zenon
  <2> HIDE DEF d, p
  <2> QED
    BY <1>1, <2>1, <2>2, QuietInv, QuietUndisturbed, Zenon
<1> QED
  BY <1>3, <1>4, <1>5, Zenon

\* The block of a successful production extends the chain and the store of its
\* proposer.
LEMMA Produced ==
    ASSUME IInv, NEW i \in Validators, Fires(i), IntervalOf(i) = 0, i = Proposer(SlotOf(i)),
           NEW s, Node(Chain, s, tick[i]),
           NEW b, b = NewBlock(i, s), CandidateHeaderOk(ledger[s.head].state, b),
           NEW o \in Outcomes(s, b), o.in_range,
           NEW post, post = [justified |-> o.post.latest_justified, finalized |-> o.post.latest_finalized]
    PROVE  /\ b.slot \in Nat /\ b.slot > ledger[s.head].slot /\ s.head \in DOMAIN ledger
           /\ b.root \in Nat /\ b.root \notin {ZeroRoot, PrunedRoot} \cup DOMAIN ledger
           /\ o.body \in Pool /\ Follows(Chain, o.post, b.slot, b.root, s.head)
           /\ post.justified.root \in Tracked(s)
           /\ Imported(s, b, post, AcceptNewVotes(TrackBlock(s, b, post)))
<1> DEFINE n == SlotOf(i)
<1>1. ChainOk /\ root_of \in Hashes
  BY Zenon DEF IInv, Bounded
<1>2. b.root = root_of[n] /\ b.slot = n /\ b.parent_root = s.head /\ b.proposer_index = i
  BY NewBlockFields, Zenon
<1>3. /\ s.head \in DOMAIN ledger /\ s.head \in Tracked(s)
      /\ BranchOk(Chain, s.head) /\ StateOf(Chain, ledger[s.head].state, s.head)
      /\ Chain.blocks[s.head].slot = ledger[s.head].slot
      /\ s.blocks[s.head] = Chain.blocks[s.head]
      /\ ZeroRoot \notin Tracked(s) /\ VotesOk(s) /\ Ready(s) /\ Sound(s) /\ Ordered(s)
      /\ Within(Chain, s)
  BY <1>1, HeadState, Zenon
<1>4. tick[i] \in Nat /\ n \in Slots /\ n \in Nat /\ tick[i] = n * 4
  <2>1. tick[i] \in Nat /\ n \in Slots
    BY Firing, Zenon
  <2>2. tick[i] % 4 = 0 /\ n = tick[i] \div 4
    BY Zenon DEF SlotOf, IntervalOf, IntervalsPerSlot
  <2>3. n \in Nat
    BY <2>1, DevnetAssumption DEF Slots
  <2> QED
    BY <2>1, <2>2, <2>3, SlotStart, Zenon
<1> HIDE DEF n
<1>5. b.slot \in Nat /\ b.slot > Chain.blocks[s.head].slot /\ Chain.blocks[s.head].slot \in Nat
  <2>1. b.slot > Chain.blocks[s.head].slot
    BY <1>2, <1>3, <1>4, CandidateAccepted DEF n
  <2>2. Chain.blocks[s.head].slot \in Nat
    BY <1>3, Zenon DEF BranchOk, TreeOk, BlockRecord, Tracked
  <2> QED
    BY <1>2, <1>4, <2>1, <2>2, Zenon
<1>6. b.root \in Nat /\ b.root \notin {ZeroRoot, PrunedRoot}
  BY <1>1, <1>2, <1>4, DevnetAssumption
<1>7. b.root \notin DOMAIN ledger
  <2> SUFFICES ASSUME b.root \in DOMAIN ledger
               PROVE  FALSE
    BY Zenon
  <2> DEFINE m == ledger[b.root].slot
  <2>1. m \in Slots /\ b.root = root_of[m]
    BY Zenon DEF IInv, Past
  <2>2. m = n
    BY <1>1, <1>2, <1>4, <2>1, DevnetAssumption, Zenon
  <2>3. b.root # AnchorRoot
    <3>1. n # 0 /\ 0 \in Slots
      BY <1>2, <1>5, DevnetAssumption DEF Slots
    <3> QED
      BY <1>1, <1>2, <1>4, <3>1, DevnetAssumption, Zenon
  <2>4. m * IntervalsPerSlot < tick[Proposer(m)]
    BY <2>3, Zenon DEF IInv, Past
  <2>5. tick[Proposer(m)] = n * 4 /\ m * IntervalsPerSlot = n * 4
    BY <1>4, <2>2, Zenon DEF n, IntervalsPerSlot
  <2> HIDE DEF m
  <2> QED
    BY <1>4, <2>4, <2>5
<1>8. o.body \in Pool /\ Follows(Chain, o.post, b.slot, b.root, s.head)
  BY <1>2, <1>3, <1>5, OutcomeOk, Zenon
<1>9. post \in PostStates(s, b) /\ post.justified.root \in Tracked(s)
  BY <1>2, <1>3, <1>8, PostFits, Zenon DEF BranchOk, Sound
<1>10. HeaderOk(b) /\ Extends(s, b)
  <2>1. AnchorRoot \in DOMAIN ledger /\ s.head \in Nat
    BY <1>1, <1>3, ChainFields, Zenon DEF ChainOk, TreeOk, Tracked
  <2>2. Tracked(s) \subseteq DOMAIN ledger
    BY <1>3, ChainFields, Zenon DEF Within
  <2> QED
    BY <1>2, <1>3, <1>5, <1>6, <1>7, <2>1, <2>2, Zenon DEF HeaderOk, Extends
<1>11. Imported(s, b, post, AcceptNewVotes(TrackBlock(s, b, post)))
  BY <1>3, <1>9, <1>10, ProduceReady, Zenon
<1> QED
  BY <1>3, <1>5, <1>6, <1>7, <1>8, <1>9, <1>11, Zenon

\* A block on top of the only leaf prolongs the line.
LEMMA LineGrows ==
    ASSUME ChainOk, Line, ChainOk', Grows(Chain, Chain'), NEW s, NEW tm, Node(Chain, s, tm),
           Tracked(s) = DOMAIN ledger, NEW root, root \notin DOMAIN ledger,
           Tracked(Chain') = DOMAIN ledger \cup {root}, Chain'.blocks[root].parent_root = s.head
    PROVE  Line'
<1> DEFINE c == Chain
           d == Chain'
<1>1. /\ Tracked(c) = DOMAIN ledger /\ Tracked(d) = DOMAIN ledger'
      /\ TreeOk(c.blocks, AnchorRoot) /\ TreeOk(d.blocks, AnchorRoot)
      /\ Grows(c, d) /\ Tracked(d) = Tracked(c) \cup {root} /\ d.blocks[root].parent_root = s.head
      /\ \A p, q \in Tracked(c) : p \in Ancestors(c, q) \/ q \in Ancestors(c, p)
      /\ Node(c, s, tm) /\ Tracked(s) = Tracked(c)
  BY ChainFields, Zenon DEF ChainOk, Line, Tracked, Chain
<1>2. Line' = \A p, q \in Tracked(d) : p \in Ancestors(d, q) \/ q \in Ancestors(d, p)
  BY <1>1, Zenon DEF Line
<1> HIDE DEF c, d
<1>3. /\ s.head \in Tracked(c) /\ \A q \in Tracked(c) : c.blocks[q].parent_root # s.head
  BY <1>1, Zenon DEF Node, HeadOk, Within
<1>4. ASSUME NEW p \in Tracked(c)
      PROVE  p \in Ancestors(c, s.head)
  <2>1. CASE s.head \in Ancestors(c, p) /\ s.head # p
    <3>1. TreeOk(c.blocks, AnchorRoot) /\ p \in Tracked(c)
      BY <1>1, <1>4, Zenon
    <3>2. PICK q \in Ancestors(c, p) :
              q \in Tracked(c) \ {AnchorRoot} /\ c.blocks[q].parent_root = s.head
      BY <2>1, <3>1, ChildTowards
    <3> QED
      BY <1>3, <3>2, Zenon
  <2>2. CASE s.head = p
    BY <1>1, <2>2, AncestorsBelow, Zenon
  <2> QED
    BY <1>1, <1>3, <2>1, <2>2, Zenon
<1>5. \A q \in Tracked(c) : Ancestors(d, q) = Ancestors(c, q)
  BY <1>1, AncestorsStable, Zenon DEF Grows
<1>6. Ancestors(d, root) = {root} \cup Ancestors(c, s.head)
  BY <1>1, <1>3, <1>5, AncestorsEquation
<1>7. ASSUME NEW p \in Tracked(d), NEW q \in Tracked(d)
      PROVE  p \in Ancestors(d, q) \/ q \in Ancestors(d, p)
  BY <1>1, <1>4, <1>5, <1>6, Zenon
<1> QED
  BY <1>2, <1>7, Zenon

\* A successful production keeps the invariant.
LEMMA ProposeInv ==
    ASSUME IInv, UInv, NEW i \in Validators, Propose(i)
    PROVE  IInv' /\ UInv'
<1> DEFINE g == DrainGossip(i)
           s == AcceptNewVotes(g)
           b == NewBlock(i, s)
           Checkpoints(o) == [justified |-> o.post.latest_justified, finalized |-> o.post.latest_finalized]
           Stored(o) == AcceptNewVotes(TrackBlock(s, b, Checkpoints(o)))
<1>1. /\ Fires(i) /\ IntervalOf(i) = 0 /\ i = Proposer(SlotOf(i))
      /\ CandidateHeaderOk(ledger[s.head].state, b)
      /\ block_rx' = [j \in Validators |->
            IF j = i THEN <<>>
            ELSE IF j \in Receivers(i) THEN Append(block_rx[j], b.root) ELSE block_rx[j]]
      /\ vote_rx' = [vote_rx EXCEPT ![i] = {}]
      /\ UNCHANGED <<lag, ready, failed, root_of, up, faults, since, bound>>
  BY Zenon DEF Propose
<1>2. PICK o \in Outcomes(s, b) :
          /\ o.in_range
          /\ Iterate(i, Reimport(Stored(o), i, OwnVote(Stored(o), SlotOf(i))), TRUE)
          /\ ledger' = [r \in DOMAIN ledger \cup {b.root} |->
                IF r = b.root
                THEN [slot |-> b.slot, parent_root |-> b.parent_root, body |-> o.body, state |-> o.post]
                ELSE ledger[r]]
  BY Zenon DEF Propose
<1>3. /\ Node(Chain, s, tick[i])
      /\ Tracked(s) = Tracked(ImportEach(store[i], block_rx[i], DOMAIN ledger))
  BY Drained, Zenon
<1> DEFINE post == Checkpoints(o)
           t == AcceptNewVotes(TrackBlock(s, b, post))
           u == Reimport(t, i, OwnVote(t, SlotOf(i)))
<1>4. Iterate(i, u, TRUE)
  BY <1>2, Zenon
<1>5. b = NewBlock(i, s) /\ b.root = root_of[SlotOf(i)] /\ b.slot = SlotOf(i) /\ b.parent_root = s.head
  BY NewBlockFields, Zenon
<1>6. post = [justified |-> o.post.latest_justified, finalized |-> o.post.latest_finalized]
  BY Zenon
<1> HIDE DEF s, b, post, Checkpoints
<1>7. /\ b.slot \in Nat /\ b.slot > ledger[s.head].slot /\ s.head \in DOMAIN ledger
      /\ b.root \in Nat /\ b.root \notin {ZeroRoot, PrunedRoot} \cup DOMAIN ledger
      /\ o.body \in Pool /\ Follows(Chain, o.post, b.slot, b.root, s.head)
      /\ post.justified.root \in Tracked(s) /\ Imported(s, b, post, t)
  BY <1>1, <1>2, <1>3, <1>5, <1>6, Produced, Zenon
<1> HIDE DEF t
<1>8. /\ ChainOk' /\ Grows(Chain, Chain')
      /\ Tracked(Chain') = DOMAIN ledger \cup {b.root}
      /\ Chain'.blocks[b.root] = [slot |-> b.slot, parent_root |-> s.head, post |-> post]
  <2>1. /\ ChainOk
        /\ ledger' = [r \in DOMAIN ledger \cup {b.root} |->
              IF r = b.root
              THEN [slot |-> b.slot, parent_root |-> s.head, body |-> o.body, state |-> o.post]
              ELSE ledger[r]]
    BY <1>2, <1>5, Zenon DEF IInv
  <2> QED
    BY <1>6, <1>7, <2>1, ChainGrows
<1>9. /\ Clocks' /\ InStep' = InStep
      /\ \A j \in Validators : tick'[j] = IF j = i THEN tick[i] + 1 ELSE tick[j]
      /\ \A n \in Nat, j \in Validators : n < tick[j] => n < tick'[j]
  BY <1>1, <1>4, Ticks, Zenon DEF Iterate
<1>10. tick[i] \in Nat /\ SlotOf(i) \in Slots /\ tick[i] = SlotOf(i) * 4
  BY <1>1, Firing, SlotStart, Zenon DEF SlotOf, IntervalOf, IntervalsPerSlot
<1>11. Node(Chain', t, tick[i])
  <2>1. Ready(t) /\ HeadOk(t) /\ Ordered(t) /\ t.time = tick[i]
    BY <1>3, <1>7, Zenon DEF Imported, Node
  <2>2. Within(Chain', t)
    BY <1>3, <1>5, <1>7, <1>8, Zenon DEF Imported, Later, Within, Node, Grows
  <2> QED
    BY <2>1, <2>2, Zenon DEF Node
<1>12. Node(Chain', u, tick[i]) /\ Tracked(u) = Tracked(t)
  BY <1>10, <1>11, ReimportNode, Zenon DEF SlotOf
<1> HIDE DEF u
<1>13. Node(Chain', TickInterval(u, TRUE), tick[i] + 1)
       /\ Tracked(TickInterval(u, TRUE)) = Tracked(s) \cup {b.root}
  BY <1>7, <1>12, TickNode, Zenon DEF Imported
<1>14. /\ store' = [j \in Validators |-> store'[j]]
       /\ \A j \in Validators : store'[j] = IF j = i THEN TickInterval(u, TRUE) ELSE store[j]
  <2>1. store' = [store EXCEPT ![i] = TickInterval(u, TRUE)]
    BY <1>4, Zenon DEF Iterate
  <2>2. store = [j \in Validators |-> store[j]]
    BY Zenon DEF IInv, Nodes
  <2> QED
    BY <2>1, <2>2, Zenon
<1>15. DOMAIN ledger' = DOMAIN ledger \cup {b.root} /\ ledger'[b.root].slot = SlotOf(i)
       /\ \A r \in DOMAIN ledger : ledger'[r] = ledger[r]
  BY <1>2, <1>5, <1>7, Zenon
<1>16. Bounded' /\ ProductionSucceeds' /\ Statuses'
  BY <1>1, <1>9, <1>15, Zenon DEF IInv, Bounded, ProductionSucceeds, Statuses
<1>17. Past'
  <2> SUFFICES ASSUME NEW r \in DOMAIN ledger'
               PROVE  /\ ledger'[r].slot \in Slots /\ r = root_of[ledger'[r].slot]
                      /\ r # AnchorRoot =>
                            ledger'[r].slot * IntervalsPerSlot < tick'[Proposer(ledger'[r].slot)]
    BY <1>1, Zenon DEF Past, Proposer
  <2>1. CASE r \in DOMAIN ledger
    <3> DEFINE n == ledger[r].slot
    <3>1. /\ n \in Slots /\ n \in Nat /\ r = root_of[n]
          /\ r # AnchorRoot => n * IntervalsPerSlot < tick[Proposer(n)]
      BY <2>1, DevnetAssumption DEF IInv, Past, Slots
    <3>2. Proposer(n) \in Validators /\ n * IntervalsPerSlot \in Nat
      BY <3>1, ForkChoiceAssumption DEF Proposer, Validators, IntervalsPerSlot
    <3> QED
      BY <1>9, <1>15, <2>1, <3>1, <3>2, Zenon
  <2>2. CASE r = b.root
    <3>1. tick'[i] = tick[i] + 1 /\ SlotOf(i) * IntervalsPerSlot = tick[i]
      BY <1>9, <1>10, Zenon DEF IntervalsPerSlot
    <3>2. tick[i] < tick[i] + 1
      BY <1>10
    <3>3. ledger'[r].slot = SlotOf(i) /\ r = root_of[SlotOf(i)]
      BY <1>5, <1>15, <2>2, Zenon
    <3>4. SlotOf(i) * IntervalsPerSlot < tick'[i]
      BY <3>1, <3>2, Zenon
    <3> QED
      BY <1>1, <1>10, <3>3, <3>4, Zenon
  <2> QED
    BY <1>15, <2>1, <2>2, Zenon
<1>18. Channels'
  <2>1. /\ block_rx \in [Validators -> Seq(DOMAIN ledger)]
        /\ vote_rx \in [Validators -> SUBSET [validator_id: Validators, data: Vote]]
    BY Zenon DEF IInv, Channels
  <2>2. Seq(DOMAIN ledger) \subseteq Seq(DOMAIN ledger')
    BY <1>15
  <2>3. \A q \in Seq(DOMAIN ledger') : Append(q, b.root) \in Seq(DOMAIN ledger')
    BY <1>15
  <2>4. block_rx' \in [Validators -> Seq(DOMAIN ledger')]
    <3> DEFINE old == Seq(DOMAIN ledger)
               new == Seq(DOMAIN ledger')
    <3>1. /\ <<>> \in new /\ old \subseteq new /\ \A q \in new : Append(q, b.root) \in new
          /\ \A j \in Validators : block_rx[j] \in old
      BY <2>1, <2>2, <2>3
    <3> HIDE DEF old, new
    <3>2. \A j \in Validators : block_rx'[j] \in new
      BY <1>1, <3>1, Zenon
    <3>3. block_rx' = [j \in Validators |-> block_rx'[j]]
      BY <1>1, Zenon
    <3> QED
      BY <3>2, <3>3, Zenon DEF new
  <2> QED
    BY <1>1, <2>1, <2>4, Zenon DEF Channels
<1>19. Nodes'
  <2>1. ASSUME NEW j \in Validators
        PROVE  Node(Chain', store'[j], tick'[j])
    <3>1. CASE j = i
      BY <1>9, <1>13, <1>14, <3>1, Zenon
    <3>2. CASE j # i
      <4>1. store'[j] = store[j] /\ tick'[j] = tick[j]
        BY <1>9, <1>14, <3>2, Zenon
      <4>2. Node(Chain, store[j], tick[j])
        BY Zenon DEF IInv, Nodes
      <4>3. Within(Chain', store[j])
        BY <1>8, <4>2, Zenon DEF Node, Within, Grows
      <4> QED
        BY <4>1, <4>2, <4>3, Zenon DEF Node
    <3> QED
      BY <3>1, <3>2, Zenon
  <2> QED
    BY <1>14, <2>1, Zenon DEF Nodes
<1>20. UInv'
  <2> SUFFICES ASSUME Undisturbed
               PROVE  up = Validators /\ Line' /\ \A j \in Validators : UpToDate(j)'
    BY <1>1, <1>9, Zenon DEF UInv, Undisturbed
  <2>1. up = Validators /\ Line /\ \A j \in Validators : UpToDate(j)
    BY Zenon DEF UInv
  <2>2. Tracked(s) = DOMAIN ledger
    BY <1>3, <2>1, CaughtUp, Zenon
  <2>3. Line'
    <3>1. ChainOk /\ b.root \notin DOMAIN ledger /\ Chain'.blocks[b.root].parent_root = s.head
      BY <1>7, <1>8 DEF IInv
    <3> QED
      BY <1>3, <1>8, <2>1, <2>2, <3>1, LineGrows, Zenon
  <2>4. ASSUME NEW j \in Validators, j # i
        PROVE  block_rx[j] = <<>> /\ Tracked(store[j]) = DOMAIN ledger
    <3> SUFFICES ASSUME NEW r \in DOMAIN ledger, r # AnchorRoot,
                        tick[j] <= ledger[r].slot * IntervalsPerSlot + 1
                 PROVE  FALSE
      BY <2>1, <2>4, Zenon DEF UpToDate
    <3> DEFINE n == SlotOf(i)
               m == ledger[r].slot
    <3>1. n * 4 <= tick[j] /\ tick[j] \in Nat /\ n \in Nat
      <4>1. tick[i] <= tick[j] /\ tick[i] = n * 4
        BY <1>1, <1>10, Firing, Zenon DEF Undisturbed
      <4>2. tick[j] \in Nat
        BY Zenon DEF IInv, Clocks
      <4>3. n \in Nat
        BY <1>10, DevnetAssumption DEF Slots
      <4> HIDE DEF n
      <4> QED
        BY <4>1, <4>2, <4>3, Zenon
    <3>2. n # 0
      <4>1. ledger[s.head].slot \in Nat
        BY <1>7, DevnetAssumption DEF IInv, Past, Slots
      <4> QED
        BY <1>5, <1>7, <4>1
    <3>3. m < n /\ m \in Nat /\ tick[j] <= m * 4 + 1
      BY <1>1, <3>2, AboveAll, DevnetAssumption DEF Undisturbed, IInv, Past, Slots, IntervalsPerSlot
    <3> HIDE DEF n, m
    <3> QED
      BY <3>1, <3>3
  <2>5. ASSUME NEW j \in Validators
        PROVE  UpToDate(j)'
    <3>1. CASE j = i
      <4>1. block_rx'[j] = <<>> /\ Tracked(store'[j]) = DOMAIN ledger'
        BY <1>1, <1>13, <1>14, <1>15, <2>2, <3>1, Zenon
      <4> QED
        BY <4>1, Zenon DEF UpToDate
    <3>2. CASE j # i
      <4>1. block_rx[j] = <<>> /\ Tracked(store[j]) = DOMAIN ledger
        BY <2>4, <3>2, Zenon
      <4>2. j \in Receivers(i)
        BY <2>1, <3>2, Zenon DEF Receivers
      <4>3. block_rx'[j] = <<b.root>> /\ store'[j] = store[j] /\ tick'[j] = tick[j]
        <5>1. block_rx'[j] = Append(<<>>, b.root)
          BY <1>1, <3>2, <4>1, <4>2, Zenon
        <5>2. Append(<<>>, b.root) = <<b.root>>
          OBVIOUS
        <5>3. store'[j] = store[j] /\ tick'[j] = tick[j]
          BY <1>9, <1>14, <3>2, Zenon
        <5> QED
          BY <5>1, <5>2, <5>3, Zenon
      <4>4. b.root # AnchorRoot
        BY <1>7, ChainFields, Zenon DEF IInv, ChainOk, TreeOk, Tracked
      <4>5. tick[j] <= SlotOf(i) * 4 + 1
        BY <1>1, <1>10, Firing, Zenon DEF Undisturbed
      <4> HIDE DEF SlotOf
      <4> QED
        BY <1>15, <4>1, <4>3, <4>4, <4>5, Zenon DEF UpToDate, IntervalsPerSlot
    <3> QED
      BY <3>1, <3>2, Zenon
  <2> QED
    BY <2>1, <2>3, <2>5, Zenon
<1> QED
  BY <1>8, <1>9, <1>16, <1>17, <1>18, <1>19, <1>20, Zenon DEF IInv

\* A walk keeps the store of its node in order.
LEMMA HandleInv ==
    ASSUME IInv, UInv, NEW i \in Validators, NEW peers \in (SUBSET ready[i]) \ {{}},
           NEW order \in MapOrders(peers), Handle(i, order)
    PROVE  IInv' /\ UInv'
<1> DEFINE t == SyncWithEach(store[i], order)
<1>1. /\ store' = [store EXCEPT ![i] = t]
      /\ ready' = [ready EXCEPT ![i] = @ \ {order[k] : k \in DOMAIN order}]
      /\ UNCHANGED <<tick, lag, block_rx, vote_rx, ledger, failed, root_of, up, faults, since, bound>>
  BY Zenon DEF Handle
<1>2. Chain' = Chain /\ ChainOk'
  BY <1>1, SameLedger, Zenon DEF IInv
<1>3. Node(Chain, t, tick[i])
  <2>1. order \in [1 .. Cardinality(peers) -> peers] /\ peers \subseteq ready[i]
    BY Zenon DEF MapOrders
  <2>2. Len(order) \in Nat /\ \A k \in 1 .. Len(order) : order[k].head \in DOMAIN ledger
    <3>1. IsFiniteSet(peers)
      BY <2>1, FS_Subset, Zenon DEF IInv, Statuses
    <3>2. Cardinality(peers) \in Nat
      BY <3>1, FS_CardinalityType, Zenon
    <3>3. Len(order) \in Nat /\ \A k \in 1 .. Len(order) : order[k] \in peers
      BY <2>1, <3>2
    <3> QED
      BY <2>1, <3>3, Zenon DEF IInv, Statuses
  <2> QED
    BY <2>2, SyncNode, Zenon DEF IInv, Nodes
<1> HIDE DEF t
<1>4. Nodes' /\ Statuses'
  <2>1. store = [j \in Validators |-> store[j]] /\ ready = [j \in Validators |-> ready[j]]
    BY Zenon DEF IInv, Nodes, Statuses
  <2>2. /\ store' = [j \in Validators |-> store'[j]]
        /\ \A j \in Validators : store'[j] = IF j = i THEN t ELSE store[j]
    BY <1>1, <2>1, Zenon
  <2>3. /\ ready' = [j \in Validators |-> ready'[j]]
        /\ \A j \in Validators : ready'[j] \subseteq ready[j]
    BY <1>1, <2>1, Zenon
  <2>4. \A j \in Validators : IsFiniteSet(ready'[j])
    BY <2>3, FS_Subset, Zenon DEF IInv, Statuses
  <2> QED
    BY <1>1, <1>2, <1>3, <2>2, <2>3, <2>4, Zenon DEF IInv, Nodes, Statuses
<1>5. Bounded' /\ Clocks' /\ Past' /\ Channels' /\ ProductionSucceeds'
  BY <1>1, Zenon DEF IInv, Bounded, Clocks, Past, Channels, ProductionSucceeds, InStep, Proposer
<1>6. UInv'
  <2>1. ready[i] # {}
    BY Zenon
  <2> QED
    BY <1>1, <2>1, Zenon DEF UInv, Undisturbed, InStep
<1> QED
  BY <1>2, <1>4, <1>5, <1>6, Zenon DEF IInv

\* The slot of a fault is one, and faults are counted up to their bound.
LEMMA FaultTime ==
    ASSUME IInv, Fault
    PROVE  since' \in Nat /\ faults' \in Nat \ {0} /\ faults' <= bound.faults
<1>1. 0 \in Validators
  BY ForkChoiceAssumption DEF Validators
<1>2. tick[0] \in Nat /\ lag[0] \in Nat
  BY <1>1, Zenon DEF IInv, Clocks
<1>3. since' = (tick[0] + lag[0] + 1) \div 4 /\ faults' = faults + 1 /\ faults < bound.faults
  BY Zenon DEF Fault, WallTick, IntervalsPerSlot
<1>4. faults \in Nat /\ bound.faults \in Nat
  BY DevnetAssumption DEF IInv, Bounded
<1> QED
  BY <1>2, <1>3, <1>4

\* Nodes that are cut off or come back: the statuses they exchange are theirs.
LEMMA RewireInv ==
    ASSUME IInv, NEW nodes \in SUBSET Validators, Rewire(nodes)
    PROVE  IInv' /\ UInv'
<1> DEFINE NewPeers(i) == IF i \notin nodes THEN {} ELSE IF i \in up THEN nodes \ up ELSE nodes \ {i}
           Old(i) == IF i \in nodes THEN {status \in ready[i] : status.peer \in nodes} ELSE {}
<1>1. /\ Fault /\ up' = nodes
      /\ ready' = [i \in Validators |-> {Status(j) : j \in NewPeers(i)} \cup Old(i)]
      /\ UNCHANGED <<store, tick, lag, block_rx, vote_rx, ledger, failed, root_of, bound>>
  BY Zenon DEF Rewire
<1>2. \A i \in Validators : NewPeers(i) \subseteq Validators /\ Old(i) \subseteq ready[i]
  BY Zenon
<1> HIDE DEF NewPeers, Old
<1>3. Chain' = Chain /\ ChainOk'
  BY <1>1, SameLedger, Zenon DEF IInv
<1>4. Statuses'
  <2>1. \A j \in Validators : Status(j).peer \in Validators /\ Status(j).head \in DOMAIN ledger
    <3>1. \A j \in Validators : Status(j).peer = j /\ Status(j).head = store[j].head
      BY Zenon DEF Status
    <3>2. \A j \in Validators : store[j].head \in DOMAIN ledger
      BY HeadState, Zenon DEF IInv, Nodes
    <3> QED
      BY <3>1, <3>2, Zenon
  <2>2. ASSUME NEW i \in Validators, NEW status \in ready'[i]
        PROVE  status.peer \in Validators /\ status.head \in DOMAIN ledger
    <3>1. (\E j \in Validators : status = Status(j)) \/ status \in ready[i]
      BY <1>1, <1>2, <2>2, Zenon
    <3> QED
      BY <2>1, <3>1, Zenon DEF IInv, Statuses
  <2>3. ready' = [i \in Validators |-> ready'[i]]
    BY <1>1, Zenon
  <2>4. ASSUME NEW i \in Validators
        PROVE  IsFiniteSet(ready'[i])
    <3> DEFINE peers == NewPeers(i)
               new == {Status(j) : j \in peers}
               f == [j \in peers |-> Status(j)]
    <3>1. IsFiniteSet(peers) /\ IsFiniteSet(Old(i))
      BY <1>2, ValidatorsFinite, FS_Subset, Zenon DEF IInv, Statuses
    <3>2. f \in Surjection(peers, new)
      BY Zenon DEF Surjection
    <3>3. IsFiniteSet(new)
      BY <3>1, <3>2, FS_Surjection, Zenon
    <3>4. ready'[i] = new \cup Old(i)
      BY <1>1, Zenon
    <3> QED
      BY <3>1, <3>3, <3>4, FS_Union, Zenon
  <2> QED
    BY <1>1, <2>2, <2>3, <2>4, Zenon DEF Statuses
<1>5. since' \in Nat /\ faults' \in Nat \ {0} /\ faults' <= bound.faults
  BY <1>1, FaultTime, Zenon
<1>6. Bounded'
  <2>1. bound.faults \in Nat
    BY DevnetAssumption, Zenon DEF IInv, Bounded
  <2>2. faults' \in 0 .. bound.faults
    BY <1>5, <2>1
  <2> QED
    BY <1>1, <1>5, <2>2, Zenon DEF IInv, Bounded
<1>7. Clocks' /\ Past' /\ Channels' /\ ProductionSucceeds' /\ Nodes'
  BY <1>1, <1>3, Zenon
     DEF IInv, Clocks, Past, Channels, ProductionSucceeds, InStep, Proposer, Nodes
<1>8. UInv'
  BY <1>5, Zenon DEF UInv, Undisturbed
<1> QED
  BY <1>3, <1>4, <1>6, <1>7, <1>8, Zenon DEF IInv

\* A stall only makes a ticker late.
LEMMA StallInv ==
    ASSUME IInv, NEW i \in Validators, NEW n \in bound.stalls, Stall(i, n)
    PROVE  IInv' /\ UInv'
<1>1. /\ Fault /\ lag' = [lag EXCEPT ![i] = @ + n]
      /\ UNCHANGED <<store, tick, block_rx, vote_rx, ready, ledger, failed, root_of, up, bound>>
  BY Zenon DEF Stall
<1>2. n \in Nat /\ bound.faults \in Nat
  BY DevnetAssumption DEF IInv, Bounded
<1>3. lag \in [Validators -> Nat] /\ lag' \in [Validators -> Nat]
  BY <1>1, <1>2 DEF IInv, Clocks
<1>4. InStep' => InStep
  BY <1>1, <1>2, <1>3 DEF InStep
<1>5. Chain' = Chain /\ ChainOk'
  BY <1>1, SameLedger, Zenon DEF IInv
<1>6. since' \in Nat /\ faults' \in Nat \ {0} /\ faults' <= bound.faults
  BY <1>1, FaultTime, Zenon
<1>7. Bounded'
  <2>1. faults' \in 0 .. bound.faults
    BY <1>2, <1>6
  <2> QED
    BY <1>1, <1>6, <2>1, Zenon DEF IInv, Bounded
<1>8. Clocks' /\ Past' /\ Channels' /\ Statuses' /\ ProductionSucceeds' /\ Nodes'
  BY <1>1, <1>3, <1>4, <1>5, Zenon
     DEF IInv, Clocks, Past, Channels, Statuses, ProductionSucceeds, Proposer, Nodes
<1>9. UInv'
  BY <1>6, Zenon DEF UInv, Undisturbed
<1> QED
  BY <1>5, <1>7, <1>8, <1>9, Zenon DEF IInv

\* The invariant holds throughout.
LEMMA Invariant == Spec => [](IInv /\ UInv)
<1>1. Init => IInv /\ UInv
  BY InitInv, Zenon
<1>2. IInv /\ UInv /\ [Next]_vars => IInv' /\ UInv'
  <2> SUFFICES ASSUME IInv, UInv, [Next]_vars
               PROVE  IInv' /\ UInv'
    BY Zenon
  <2>1. CASE UNCHANGED vars
    <3>1. /\ UNCHANGED <<store, tick, lag, block_rx, vote_rx, ready, ledger>>
          /\ UNCHANGED <<failed, root_of, up, faults, since, bound>>
      BY <2>1, Zenon DEF vars
    <3>2. Chain' = Chain /\ ChainOk' /\ (Line => Line')
      BY <3>1, SameLedger, Zenon DEF IInv
    <3>3. Bounded' /\ Clocks' /\ Past' /\ Channels' /\ Statuses' /\ ProductionSucceeds' /\ Nodes'
      BY <3>1, <3>2, Zenon DEF IInv, Bounded, Clocks, Past, Channels, Statuses,
                               ProductionSucceeds, InStep, Proposer, Nodes
    <3>4. UInv'
      BY <3>1, <3>2, Zenon DEF UInv, Undisturbed, InStep, UpToDate
    <3> QED
      BY <3>2, <3>3, <3>4, Zenon DEF IInv
  <2>2. ASSUME NEW i \in Validators, Propose(i)
        PROVE  IInv' /\ UInv'
    BY <2>2, ProposeInv, Zenon
  <2>3. ASSUME NEW i \in Validators, ProposeFails(i) \/ Attest(i) \/ Drain(i)
        PROVE  IInv' /\ UInv'
    BY <2>3, QuietSteps, Zenon
  <2>4. ASSUME NEW i \in Validators, NEW peers \in (SUBSET ready[i]) \ {{}},
               NEW order \in MapOrders(peers), Handle(i, order)
        PROVE  IInv' /\ UInv'
    BY <2>4, HandleInv, Zenon
  <2>5. ASSUME NEW nodes \in SUBSET Validators, Rewire(nodes)
        PROVE  IInv' /\ UInv'
    BY <2>5, RewireInv, Zenon
  <2>6. ASSUME NEW i \in Validators, NEW n \in bound.stalls, Stall(i, n)
        PROVE  IInv' /\ UInv'
    BY <2>6, StallInv, Zenon
  <2> QED
    BY <2>1, <2>2, <2>3, <2>4, <2>5, <2>6, Zenon DEF Next
<1> QED
  BY <1>1, <1>2, PTL DEF Spec
-----------------------------------------------------------------------------
(* What the invariant gives *)

\* Every store is well formed at every moment, whichever nodes are cut off, come
\* back or stall: head and safe target are tracked, every tracked block has been
\* produced and is stored with its slot and parent, and its parent is tracked
\* too (import_block never leaves a gap below a block).
THEOREM TypeCorrectness == Spec => []TypeOK
<1>1. IInv => TypeOK
  <2> SUFFICES ASSUME IInv
               PROVE  TypeOK
    BY Zenon
  <2>1. ASSUME NEW i \in Validators
        PROVE  /\ tick[i] \in Nat /\ lag[i] \in Nat
               /\ store[i].head \in Tracked(store[i]) /\ store[i].safe_target \in Tracked(store[i])
               /\ block_rx[i] \in Seq(DOMAIN ledger)
               /\ vote_rx[i] \subseteq [validator_id: Validators, data: Vote]
               /\ \A status \in ready[i] : status.peer \in Validators /\ status.head \in DOMAIN ledger
    BY Zenon DEF IInv, Clocks, Channels, Statuses, Nodes, Node, Ready, HeadOk
  <2>2. ASSUME NEW i \in Validators, NEW r \in Tracked(store[i])
        PROVE  /\ r \in DOMAIN ledger
               /\ store[i].blocks[r].slot = ledger[r].slot
               /\ store[i].blocks[r].parent_root = ledger[r].parent_root
               /\ r # AnchorRoot => ledger[r].parent_root \in Tracked(store[i])
    <3>1. Within(Chain, store[i]) /\ TreeOk(store[i].blocks, AnchorRoot)
      BY Zenon DEF IInv, Nodes, Node, Ready, Sound
    <3>2. r \in DOMAIN ledger /\ store[i].blocks[r] = Chain.blocks[r]
      BY <3>1, ChainFields, Zenon DEF Within
    <3>3. r # AnchorRoot => store[i].blocks[r].parent_root \in Tracked(store[i])
      BY <3>1, Zenon DEF TreeOk, Tracked
    <3> QED
      BY <3>2, <3>3, ChainFields, Zenon
  <2> QED
    BY <2>1, <2>2, Zenon DEF TypeOK, IInv, Bounded
<1> QED
  BY <1>1, Invariant, PTL

\* While the tickers are in step, no production fails after slot 0, whatever
\* votes collect_includable_votes collects, in whatever order, and however the
\* network is cut: the candidate's history reaches every slot they name.
THEOREM ProductionSafety == Spec => []ProductionSucceeds
<1>1. IInv => ProductionSucceeds
  BY Zenon DEF IInv
<1> QED
  BY <1>1, Invariant, PTL

\* The checkpoints of every produced block are some that ForkChoice lets a
\* post-state have.
PostStatesAllowed ==
    \A r \in DOMAIN ledger \ {AnchorRoot} :
        Post(r) \in PostStates(Chain, [root |-> r, slot |-> ledger[r].slot,
                                       parent_root |-> ledger[r].parent_root])

\* The post-states ForkChoice and Engine choose from are a sound abstraction:
\* state_transition, run on the candidates that production builds, gives only
\* checkpoints they allow, so what is proved of the store for every choice holds
\* for the ones the code computes.
THEOREM PostStateSoundness == Spec => []PostStatesAllowed
<1>1. IInv => PostStatesAllowed
  <2> SUFFICES ASSUME IInv, NEW r \in DOMAIN ledger \ {AnchorRoot}
               PROVE  Post(r) \in PostStates(Chain, [root |-> r, slot |-> ledger[r].slot,
                                                     parent_root |-> ledger[r].parent_root])
    BY Zenon DEF PostStatesAllowed
  <2> DEFINE b == [root |-> r, slot |-> ledger[r].slot, parent_root |-> ledger[r].parent_root]
             st == ledger[r].state
  <2>1. b.root = r /\ b.slot = ledger[r].slot /\ b.parent_root = ledger[r].parent_root
    BY Zenon
  <2> HIDE DEF b
  <2>2. /\ TreeOk(Chain.blocks, AnchorRoot) /\ ZeroRoot \notin Tracked(Chain)
        /\ StateOf(Chain, st, r) /\ Tracked(Chain) = DOMAIN ledger
    BY ChainFields, Zenon DEF IInv, ChainOk
  <2>3. /\ Post(r) = [justified |-> st.latest_justified, finalized |-> st.latest_finalized]
        /\ Follows(Chain, st, b.slot, b.root, b.parent_root)
    BY <2>1, <2>2, ChainFields, Zenon DEF StateOf, Post
  <2>4. b.parent_root \in Tracked(Chain)
    BY <2>1, <2>2, ChainFields, Zenon DEF TreeOk, Tracked
  <2>5. Within(Chain, Chain)
    BY Zenon DEF Within
  <2>6. Post(r) \in PostStates(Chain, b)
    BY <2>2, <2>3, <2>4, <2>5, PostFits, Zenon
  <2> QED
    BY <2>6, Zenon DEF b
<1> QED
  BY <1>1, Invariant, PTL

\* What a block finalized, its descendants have finalized, or a block above it.
BranchKeepsFinalized ==
    \A r \in DOMAIN ledger : \A q \in Ancestors(Chain, r) \ {AnchorRoot} :
        Post(q).finalized.root \in Ancestors(Chain, Post(r).finalized.root)

\* Along a branch, however it was forked, finality only grows upwards: the
\* finalized block of an ancestor is an ancestor of the finalized block.
THEOREM BranchFinality == Spec => []BranchKeepsFinalized
<1>1. IInv => BranchKeepsFinalized
  <2> SUFFICES ASSUME IInv
               PROVE  BranchKeepsFinalized
    BY Zenon
  <2> DEFINE c == Chain
             Final(r) == Post(r).finalized
             S == {r \in DOMAIN ledger : \A q \in Ancestors(c, r) \ {AnchorRoot} :
                      Final(q).root \in Ancestors(c, Final(r).root)}
  <2>1. /\ TreeOk(c.blocks, AnchorRoot) /\ ZeroRoot \notin Tracked(c)
        /\ Tracked(c) = DOMAIN ledger /\ DOMAIN c.blocks = DOMAIN ledger
        /\ \A r \in DOMAIN ledger : c.blocks[r].parent_root = ledger[r].parent_root
    BY ChainFields, Zenon DEF IInv, ChainOk, Tracked
  <2>2. ASSUME NEW r \in DOMAIN ledger \ {AnchorRoot}
        PROVE  LET p == c.blocks[r].parent_root
               IN  /\ p \in Tracked(c) /\ BranchOk(c, p)
                   /\ Ancestors(c, r) = {r} \cup Ancestors(c, p)
                   /\ Final(r) \in OnBranch(c, p)
                   /\ c.blocks[p].post.finalized.slot <= Final(r).slot
    <3>1. BranchOk(c, r)
      BY <2>1, Zenon DEF BranchOk
    <3>2. StateOf(c, ledger[r].state, r)
      BY Zenon DEF IInv, ChainOk
    <3>3. LET p == c.blocks[r].parent_root
          IN  BranchOk(c, p) /\ Ancestors(c, r) = {r} \cup Ancestors(c, p)
      BY <3>1, BranchOfChild, Zenon
    <3>4. Final(r) = ledger[r].state.latest_finalized
      BY Zenon DEF Post
    <3> HIDE DEF Final
    <3> QED
      BY <3>2, <3>3, <3>4, Zenon DEF StateOf, Follows, BranchOk
  <2>3. \A r \in DOMAIN ledger : c.blocks[r].post.finalized = Final(r)
    BY ChainFields, Zenon
  <2> HIDE DEF c, Final
  <2>4. AnchorRoot \in S
    <3>1. AnchorRoot \in DOMAIN ledger
      BY <2>1, Zenon DEF TreeOk
    <3>2. Ancestors(c, AnchorRoot) = {AnchorRoot}
      BY <2>1, <3>1, AncestorsEquation, Zenon DEF TreeOk, Tracked
    <3> QED
      BY <3>1, <3>2, Zenon
  <2>5. ASSUME NEW r \in DOMAIN ledger \ {AnchorRoot}, c.blocks[r].parent_root \in S
        PROVE  r \in S
    <3> DEFINE p == c.blocks[r].parent_root
    <3>1. /\ p \in Tracked(c) /\ BranchOk(c, p)
          /\ Ancestors(c, r) = {r} \cup Ancestors(c, p)
          /\ Final(r) \in OnBranch(c, p)
          /\ c.blocks[p].post.finalized.slot <= Final(r).slot
      BY <2>2, Zenon
    <3>2. /\ Final(r).root \in Ancestors(c, p) /\ Final(r).root \in Tracked(c)
          /\ Final(r).slot = c.blocks[Final(r).root].slot
      BY <3>1, OnBranchBelow, Zenon
    <3>3. Final(r).root \in Ancestors(c, Final(r).root)
      BY <2>1, <3>2, AncestorsBelow, Zenon
    <3>4. ASSUME p # AnchorRoot
          PROVE  /\ Final(p).root \in Ancestors(c, Final(r).root)
                 /\ Ancestors(c, Final(p).root) \subseteq Ancestors(c, Final(r).root)
      <4> DEFINE pp == c.blocks[p].parent_root
      <4>1. /\ BranchOk(c, pp) /\ Ancestors(c, p) = {p} \cup Ancestors(c, pp)
            /\ Final(p) \in OnBranch(c, pp)
        BY <2>1, <2>2, <3>1, <3>4, Zenon
      <4>2. /\ Final(p).root \in Ancestors(c, p)
            /\ Final(p).slot = c.blocks[Final(p).root].slot
        BY <4>1, OnBranchBelow, Zenon
      <4>3. Final(p).slot <= Final(r).slot
        BY <2>1, <2>3, <3>1, Zenon
      <4>4. Final(p).root \in Ancestors(c, Final(r).root)
        <5>1. TreeOk(c.blocks, AnchorRoot) /\ p \in Tracked(c)
          BY <2>1, <3>1, Zenon
        <5>2. c.blocks[Final(p).root].slot <= c.blocks[Final(r).root].slot
          BY <3>2, <4>2, <4>3, Zenon
        <5> QED
          BY <3>2, <4>2, <5>1, <5>2, BranchLinear
      <4> QED
        BY <2>1, <3>2, <4>4, AncestorsTransitive, Zenon
    <3>5. ASSUME NEW q \in Ancestors(c, r) \ {AnchorRoot}
          PROVE  Final(q).root \in Ancestors(c, Final(r).root)
      <4>1. CASE q = r
        BY <3>3, <4>1, Zenon
      <4>2. CASE q \in Ancestors(c, p) /\ p # AnchorRoot
        <5>1. Final(q).root \in Ancestors(c, Final(p).root)
          BY <2>5, <4>2, Zenon
        <5> QED
          BY <3>4, <4>2, <5>1, Zenon
      <4>3. CASE p = AnchorRoot /\ q \in Ancestors(c, p)
        BY <2>1, <4>3, AncestorsEquation, Zenon DEF TreeOk, Tracked
      <4> QED
        BY <3>1, <4>1, <4>2, <4>3, Zenon
    <3> QED
      BY <3>5, Zenon
  <2>6. DOMAIN ledger \subseteq S
    <3> HIDE DEF S
    <3> QED
      BY <2>1, <2>4, <2>5, TreeInduction, Zenon
  <2> QED
    BY <2>6, Zenon DEF BranchKeepsFinalized, c, Final
<1> QED
  BY <1>1, Invariant, PTL

\* Each store's checkpoints name tracked blocks at their own slots, the finalized
\* one not above the justified one, and its head is a block without children
\* above the justified block.
StoresSound ==
    \A i \in Validators :
        LET s == store[i]
        IN  /\ \A cp \in {s.latest_justified, s.latest_finalized} :
                  cp.root \in Tracked(s) /\ cp.slot = ledger[cp.root].slot
            /\ s.latest_finalized.slot <= s.latest_justified.slot
            /\ s.latest_justified.root \in Ancestors(s, s.head)
            /\ \A r \in Tracked(s) : s.blocks[r].parent_root # s.head

\* That holds at every moment, whichever faults happen: what Engine shows of one
\* store and any post-states holds of every store of the network, fed by gossip
\* and by sync with what the state transition computes.
THEOREM StoreSafety == Spec => []StoresSound
<1>1. IInv => StoresSound
  <2> SUFFICES ASSUME IInv, NEW i \in Validators
               PROVE  LET s == store[i]
                      IN  /\ \A cp \in {s.latest_justified, s.latest_finalized} :
                                cp.root \in Tracked(s) /\ cp.slot = ledger[cp.root].slot
                          /\ s.latest_finalized.slot <= s.latest_justified.slot
                          /\ s.latest_justified.root \in Ancestors(s, s.head)
                          /\ \A r \in Tracked(s) : s.blocks[r].parent_root # s.head
    BY Zenon DEF StoresSound
  <2> DEFINE s == store[i]
  <2>1. Node(Chain, s, tick[i])
    BY Zenon DEF IInv, Nodes
  <2> HIDE DEF s
  <2>2. /\ CheckpointOk(s.blocks, s.latest_justified) /\ CheckpointOk(s.blocks, s.latest_finalized)
        /\ Within(Chain, s) /\ Ordered(s) /\ HeadOk(s)
    BY <2>1, Zenon DEF Node, Ready, Sound
  <2>3. ASSUME NEW cp, CheckpointOk(s.blocks, cp)
        PROVE  cp.root \in Tracked(s) /\ cp.slot = ledger[cp.root].slot
    BY <2>2, <2>3, ChainFields, Zenon DEF CheckpointOk, Within, Tracked
  <2> QED
    BY <2>2, <2>3, Zenon DEF Ordered, HeadOk, s
<1> QED
  BY <1>1, Invariant, PTL

\* Until the first fault, at the start of a slot, every node has every block
\* and the same head.
HeadsAgree ==
    (\A i \in Validators : IntervalOf(i) = 0) =>
        \A i, j \in Validators :
            store[i].head = store[j].head /\ Tracked(store[i]) = DOMAIN ledger

\* A head without children is above every block of a line.
LEMMA AboveLine ==
    ASSUME IInv, Line, NEW i \in Validators, NEW q \in Tracked(store[i])
    PROVE  q \in Ancestors(store[i], store[i].head)
<1> DEFINE s == store[i]
           h == store[i].head
<1>1. /\ TreeOk(s.blocks, AnchorRoot) /\ TreeOk(Chain.blocks, AnchorRoot) /\ Within(Chain, s)
      /\ h \in Tracked(s) /\ \A c \in Tracked(s) : s.blocks[c].parent_root # h
  BY Zenon DEF IInv, Nodes, Node, Ready, Sound, HeadOk, ChainOk
<1>2. \A r \in Tracked(s) : Ancestors(Chain, r) = Ancestors(s, r)
  BY <1>1, AncestorsStable, Zenon DEF Within
<1>3. q \in Ancestors(s, h) \/ h \in Ancestors(s, q)
  <2>1. q \in DOMAIN ledger /\ h \in DOMAIN ledger
    BY <1>1, ChainFields, Zenon DEF Within
  <2>2. q \in Ancestors(Chain, h) \/ h \in Ancestors(Chain, q)
    BY <2>1, Zenon DEF Line
  <2> QED
    BY <1>1, <1>2, <2>2, Zenon
<1> HIDE DEF s, h
<1>4. CASE h \in Ancestors(s, q) /\ h # q
  <2>1. q \in Tracked(s)
    BY Zenon DEF s
  <2>2. PICK c \in Ancestors(s, q) : c \in Tracked(s) \ {AnchorRoot} /\ s.blocks[c].parent_root = h
    BY <1>1, <1>4, <2>1, ChildTowards
  <2> QED
    BY <1>1, <2>2, Zenon
<1>5. CASE h = q
  BY <1>1, <1>5, AncestorsBelow, Zenon DEF s, h
<1> QED
  BY <1>3, <1>4, <1>5, Zenon DEF s, h

\* Until the first fault the network behaves as one node would, for any number
\* of validators and any order of their iterations: the blocks are a single
\* branch, so finalized blocks agree and stay below the heads, every node starts
\* every slot with every block, and all have the same head.
THEOREM UndisturbedNetwork ==
    Spec => [](Undisturbed => Agreement /\ HeadKeepsFinalized /\ HeadsConverge /\ HeadsAgree)
<1>1. IInv /\ UInv => (Undisturbed => Agreement /\ HeadKeepsFinalized /\ HeadsConverge /\ HeadsAgree)
  <2> SUFFICES ASSUME IInv, UInv, Undisturbed
               PROVE  Agreement /\ HeadKeepsFinalized /\ HeadsConverge /\ HeadsAgree
    BY Zenon
  <2>1. Line /\ \A i \in Validators : UpToDate(i)
    BY Zenon DEF UInv
  <2>2. \A i \in Validators :
           /\ store[i].latest_finalized.root \in Tracked(store[i])
           /\ store[i].head \in Tracked(store[i])
           /\ TreeOk(store[i].blocks, AnchorRoot)
           /\ Tracked(store[i]) \subseteq DOMAIN ledger
    BY ChainFields, Zenon DEF IInv, Nodes, Node, Ready, Sound, CheckpointOk, HeadOk, Within, Tracked
  <2>3. Agreement
    BY <2>1, <2>2, Zenon DEF Agreement, Line
  <2>4. HeadKeepsFinalized
    BY <2>1, <2>2, AboveLine, Zenon DEF HeadKeepsFinalized
  <2>5. ASSUME \A i \in Validators : IntervalOf(i) = 0, NEW i \in Validators
        PROVE  Tracked(store[i]) = DOMAIN ledger
    <3> SUFFICES ASSUME NEW r \in DOMAIN ledger, r # AnchorRoot,
                        tick[i] <= ledger[r].slot * IntervalsPerSlot + 1
                 PROVE  FALSE
      BY <2>1, Zenon DEF UpToDate
    <3> DEFINE m == ledger[r].slot
               j == Proposer(m)
    <3>1. m \in Nat /\ m * 4 < tick[j] /\ tick[i] <= m * 4 + 1
      BY DevnetAssumption DEF IInv, Past, Slots, IntervalsPerSlot
    <3>2. j \in Validators
      BY <3>1, ForkChoiceAssumption DEF Proposer, Validators
    <3>3. /\ tick[i] \in Nat /\ tick[j] \in Nat /\ tick[j] <= tick[i] + 1
          /\ tick[i] % 4 = 0 /\ tick[j] % 4 = 0
      BY <2>5, <3>2, Zenon DEF IInv, Clocks, Undisturbed, IntervalOf, IntervalsPerSlot
    <3>4. tick[i] = (tick[i] \div 4) * 4 /\ tick[j] = (tick[j] \div 4) * 4
          /\ tick[i] \div 4 \in Nat /\ tick[j] \div 4 \in Nat
      BY <3>3, SlotStart
    <3> HIDE DEF m, j
    <3> DEFINE a == tick[i] \div 4
               b == tick[j] \div 4
    <3>5. m * 4 < b * 4 /\ a * 4 <= m * 4 + 1 /\ b * 4 <= a * 4 + 1 /\ a \in Nat /\ b \in Nat
      BY <3>1, <3>3, <3>4, Zenon
    <3> HIDE DEF a, b
    <3> QED
      BY <3>1, <3>5
  <2>6. ASSUME NEW i \in Validators, NEW j \in Validators, Tracked(store[i]) = Tracked(store[j])
        PROVE  store[i].head = store[j].head
    <3> DEFINE h == store[i].head
               g == store[j].head
    <3>1. h \in Ancestors(store[j], g) /\ g \in Ancestors(store[i], h)
      BY <2>1, <2>2, <2>6, AboveLine, Zenon
    <3>2. /\ h # g => store[j].blocks[h].slot < store[j].blocks[g].slot
          /\ g # h => store[i].blocks[g].slot < store[i].blocks[h].slot
      BY <2>2, <3>1, AncestorsBelow, Zenon
    <3>3. /\ store[i].blocks[h] = store[j].blocks[h] /\ store[i].blocks[g] = store[j].blocks[g]
          /\ store[i].blocks[h].slot \in Nat /\ store[i].blocks[g].slot \in Nat
      BY <2>2, <2>6 DEF IInv, Nodes, Node, Within, TreeOk, BlockRecord, Tracked
    <3> QED
      BY <3>2, <3>3
  <2>7. HeadsAgree
    BY <2>5, <2>6, Zenon DEF HeadsAgree
  <2>8. HeadsConverge
    BY <2>6, Zenon DEF HeadsConverge, SameBlocks
  <2> QED
    BY <2>3, <2>4, <2>7, <2>8, Zenon
<1> QED
  BY <1>1, Invariant, PTL
=============================================================================
