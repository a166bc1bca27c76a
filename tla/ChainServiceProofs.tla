------------------------- MODULE ChainServiceProofs -------------------------
(***************************************************************************)
(* For every set of blocks, votes and writers: whatever the interleaving   *)
(* of writers, failures and crashes, the node can start again from what is *)
(* on disk; and as long as one task writes and no write fails, the record  *)
(* on disk is complete and its finalized slot never falls.                 *)
(*                                                                         *)
(* What a block, a vote or a promotion does to a store is taken from       *)
(* ForkChoiceProofs.                                                       *)
(***************************************************************************)
EXTENDS ChainService, ForkChoiceProofs

(* The blocks made and the store *)

View(blocks) == [blocks |-> blocks]

\* What the post-state of a child of p may name: blocks of p's branch, or, by
\* a root that is no block, the slot of genesis or an empty slot.
PostOk(blocks, p, post) ==
    /\ post \in [justified: Cp, finalized: Cp]
    /\ \A cp \in {post.justified, post.finalized} :
          \/ cp.root \in Ancestors(View(blocks), p) /\ cp.slot = blocks[cp.root].slot
          \/ cp.root \in {ZeroRoot, PrunedRoot} /\ (EmptySlots = {} => cp.slot = 0)
    /\ post.finalized.slot <= post.justified.slot

\* The blocks made form a tree above genesis.
WorldOk(blocks) ==
    /\ blocks = [r \in DOMAIN blocks |-> blocks[r]]
    /\ TreeOk(blocks, AnchorRoot)
    /\ {ZeroRoot, PrunedRoot} \cap DOMAIN blocks = {}
    /\ blocks[AnchorRoot].slot = 0
    /\ blocks[AnchorRoot].parent_root = ZeroRoot
    /\ blocks[AnchorRoot].post = [justified |-> Zero, finalized |-> Zero]
    /\ \A r \in DOMAIN blocks \ {AnchorRoot} : PostOk(blocks, blocks[r].parent_root, blocks[r].post)

\* The store tracks the part of that tree above a block a, and its checkpoints
\* name tracked blocks.
StoreOk(blocks, s, a) ==
    /\ IsStore(s)
    /\ TreeOk(s.blocks, a)
    /\ \A r \in Tracked(s) : r \in DOMAIN blocks /\ s.blocks[r] = blocks[r]
    /\ \A cp \in {s.latest_justified, s.latest_finalized} :
          cp \in Cp /\ cp.root \in Tracked(s) /\ cp.slot = s.blocks[cp.root].slot
    /\ EmptySlots = {} => s.latest_finalized.slot <= s.latest_justified.slot

HeadDescended(s) == s.head \in Tracked(s) /\ s.latest_justified.root \in Ancestors(s, s.head)

\* new has the blocks of old.
Grows(old, new) == \A r \in DOMAIN old : r \in DOMAIN new /\ new[r] = old[r]

\* What the store tracks has slots, and is not below the store's anchor.
LEMMA StoreSlots ==
    ASSUME NEW blocks, NEW s, NEW a, StoreOk(blocks, s, a)
    PROVE  /\ a \in Tracked(s)
           /\ \A r \in Tracked(s) : r \in Nat /\ s.blocks[r].slot \in Nat
                                    /\ s.blocks[r].slot >= s.blocks[a].slot
<1>1. a \in Tracked(s) /\ \A r \in Tracked(s) : r \in Nat /\ s.blocks[r].slot \in Nat
  BY Zenon DEF StoreOk, TreeOk, BlockRecord, Tracked
<1>2. \A r \in Tracked(s) : a \in Ancestors(s, r)
        /\ \A q \in Ancestors(s, r) : q # r => s.blocks[q].slot < s.blocks[r].slot
  BY AncestorsBelow, Zenon DEF StoreOk
<1>3. ASSUME NEW r \in Tracked(s)
      PROVE  s.blocks[r].slot >= s.blocks[a].slot
  <2>1. CASE r = a
    BY <1>1, <2>1
  <2>2. CASE r # a
    <3>1. s.blocks[a].slot < s.blocks[r].slot
      BY <1>2, <2>2, Zenon
    <3> QED
      BY <1>1, <3>1
  <2> QED
    BY <2>1, <2>2, Zenon
<1> QED
  BY <1>1, <1>3, Zenon

\* The store has every block of a tracked branch down to its anchor's slot.
LEMMA TrackedBranch ==
    ASSUME NEW blocks, WorldOk(blocks), NEW s, NEW a, StoreOk(blocks, s, a),
           NEW r \in Tracked(s), NEW q \in Ancestors(View(blocks), r),
           blocks[q].slot >= s.blocks[a].slot
    PROVE  q \in Tracked(s)
<1> DEFINE w == View(blocks)
           S == {x \in Tracked(s) : \A y \in Ancestors(w, x) :
                    blocks[y].slot >= s.blocks[a].slot => y \in Tracked(s)}
<1>1. w.blocks = blocks /\ Tracked(w) = DOMAIN blocks
  BY Zenon DEF View, Tracked
<1> HIDE DEF w
<1>2. /\ \A x \in Tracked(s) : x \in Tracked(w) /\ w.blocks[x] = s.blocks[x]
      /\ TreeOk(w.blocks, AnchorRoot) /\ TreeOk(s.blocks, a)
  BY <1>1, Zenon DEF StoreOk, WorldOk
<1>3. a \in Tracked(s) /\ s.blocks[a].slot \in Nat
  BY StoreSlots, Zenon
<1>4. a \in S
  <2>1. ASSUME NEW y \in Ancestors(w, a), blocks[y].slot >= s.blocks[a].slot
        PROVE  y = a
    <3>1. y # a => w.blocks[y].slot < w.blocks[a].slot
      BY <1>2, <1>3, AncestorsBelow, Zenon
    <3>2. y \in Tracked(w)
      BY <1>2, <1>3, AncestorsBelow, Zenon
    <3>3. w.blocks[y].slot \in Nat
      BY <3>2, Zenon DEF WorldOk, TreeOk, BlockRecord, View, w, Tracked
    <3> QED
      BY <2>1, <3>1, <3>3, <1>1, <1>2, <1>3
  <2> QED
    BY <2>1, <1>3, Zenon
<1>5. ASSUME NEW x \in DOMAIN s.blocks \ {a}, s.blocks[x].parent_root \in S
      PROVE  x \in S
  <2>1. x \in Tracked(s) /\ x \in Tracked(w) /\ w.blocks[x].parent_root = s.blocks[x].parent_root
        /\ w.blocks[x].parent_root \in Tracked(w)
    BY <1>2, <1>5, Zenon DEF Tracked
  <2>2. Ancestors(w, x) = {x} \cup Ancestors(w, s.blocks[x].parent_root)
    BY <2>1, AncestorsEquation, Zenon
  <2> QED
    BY <1>5, <2>1, <2>2, Zenon
<1>6. DOMAIN s.blocks \subseteq S
  <2> HIDE DEF S
  <2> QED
    BY <1>2, <1>4, <1>5, TreeInduction, Zenon
<1> QED
  BY <1>6, Zenon DEF Tracked, w

\* A post-state keeps naming what it named when blocks are made.
LEMMA PostOkStable ==
    ASSUME NEW old, NEW new, TreeOk(old, AnchorRoot), TreeOk(new, AnchorRoot), Grows(old, new),
           NEW p \in DOMAIN old, NEW post, PostOk(old, p, post)
    PROVE  PostOk(new, p, post)
<1> DEFINE s == View(old)
           t == View(new)
<1>1. s.blocks = old /\ t.blocks = new /\ Tracked(s) = DOMAIN old /\ Tracked(t) = DOMAIN new
  BY Zenon DEF View, Tracked
<1> HIDE DEF s, t
<1>2. \A r \in Tracked(s) : r \in Tracked(t) /\ t.blocks[r] = s.blocks[r]
  BY <1>1, Zenon DEF Grows
<1>3. Ancestors(t, p) = Ancestors(s, p) /\ Ancestors(s, p) \subseteq DOMAIN old
  BY <1>1, <1>2, AncestorsStable, AncestorsBelow, Zenon
<1>4. \A q \in Ancestors(s, p) : new[q] = old[q]
  BY <1>3, Zenon DEF Grows
<1> QED
  BY <1>3, <1>4, Zenon DEF PostOk, s, t

\* The post-state of a new block is as said.
LEMMA NewPost ==
    ASSUME NEW blocks, WorldOk(blocks), NEW b, b.parent_root \in DOMAIN blocks,
           NEW post \in PostStates(View(blocks), b)
    PROVE  PostOk(blocks, b.parent_root, post)
<1> DEFINE s == View(blocks)
           j == post.justified
           f == post.finalized
<1>1. s.blocks = blocks /\ Tracked(s) = DOMAIN blocks
  BY Zenon DEF View, Tracked
<1> HIDE DEF s
<1>2. \A r \in DOMAIN blocks : r \in Nat /\ blocks[r].slot \in Nat
  BY Zenon DEF WorldOk, TreeOk, BlockRecord
<1>3. ASSUME NEW cp \in Branch(s, b)
      PROVE  /\ cp \in Cp
             /\ \/ cp.root \in Ancestors(s, b.parent_root) /\ cp.slot = blocks[cp.root].slot
                \/ cp.root \in {ZeroRoot, PrunedRoot} /\ (EmptySlots = {} => cp.slot = 0)
  <2>1. CASE cp \in {Checkpoint(r, s.blocks[r].slot) :
                        r \in {q \in Tracked(s) : q \in Ancestors(s, b.parent_root)}}
    BY <2>1, <1>1, <1>2 DEF Checkpoint, Cp
  <2>2. CASE cp = s.blocks[AnchorRoot].post.finalized
    BY <2>2, <1>1, ForkChoiceAssumption DEF WorldOk, Zero, Checkpoint, Cp
  <2>3. CASE \E n \in EmptySlots : cp = Checkpoint(ZeroRoot, n)
    BY <2>3, ForkChoiceAssumption DEF Checkpoint, Cp
  <2> QED
    BY <2>1, <2>2, <2>3, Zenon DEF Branch
<1>4. /\ j \in Branch(s, b) /\ f \in Branch(s, b) /\ f.slot <= j.slot
      /\ post = [justified |-> j, finalized |-> f]
  BY Zenon DEF PostStates, s
<1>5. post \in [justified: Cp, finalized: Cp]
  BY <1>3, <1>4, Zenon
<1> QED
  BY <1>3, <1>4, <1>5, Zenon DEF PostOk, s

\* A block that the engine accepts is made once: a block made before has the
\* post-state it had then, and it is not the one below the store's anchor.
LEMMA MakeOk ==
    ASSUME WorldOk(world), NEW s, NEW a, StoreOk(world, s, a),
           NEW b \in Blocks, Extends(s, b), NEW post \in Posts(b), Make(b, post)
    PROVE  /\ WorldOk(world') /\ Grows(world, world')
           /\ b.root \in DOMAIN world'
           /\ world'[b.root] = [slot |-> b.slot, parent_root |-> b.parent_root, post |-> post]
           /\ PostOk(world', b.parent_root, post)
           /\ b.root # s.blocks[a].parent_root
<1>1. /\ b.root \in Nat \ {ZeroRoot, AnchorRoot, PrunedRoot}
      /\ b.slot \in Nat /\ b.parent_root \in Nat
  BY ChainServiceAssumption, Zenon
<1>2. /\ b.parent_root \in Tracked(s) /\ b.parent_root \in DOMAIN world
      /\ b.slot > world[b.parent_root].slot
      /\ world[b.parent_root].slot \in Nat
      /\ a \in DOMAIN world /\ s.blocks[a] = world[a] /\ world[a].slot \in Nat
      /\ world[b.parent_root].slot >= world[a].slot
  <2>1. /\ a \in Tracked(s)
        /\ \A r \in Tracked(s) : s.blocks[r].slot \in Nat /\ s.blocks[r].slot >= s.blocks[a].slot
    BY StoreSlots, Zenon
  <2>2. b.parent_root \in Tracked(s) /\ b.slot > s.blocks[b.parent_root].slot
    BY Zenon DEF Extends
  <2>3. \A r \in Tracked(s) : r \in DOMAIN world /\ s.blocks[r] = world[r]
    BY Zenon DEF StoreOk
  <2> QED
    BY <2>1, <2>2, <2>3, Zenon
<1>3. \A r \in DOMAIN world : world[r] \in BlockRecord
  BY Zenon DEF WorldOk, TreeOk
<1>4. world' = [r \in DOMAIN world \cup {b.root} |->
                   IF r \in DOMAIN world THEN world[r]
                   ELSE [slot |-> b.slot, parent_root |-> b.parent_root, post |-> post]]
  BY Zenon DEF Make
<1>5. CASE b.root \in DOMAIN world
  <2>1. post = world[b.root].post /\ b.slot = world[b.root].slot
        /\ b.parent_root = world[b.root].parent_root
    BY <1>5, Zenon DEF Posts
  <2>2. world[b.root] = [slot |-> b.slot, parent_root |-> b.parent_root, post |-> post]
    BY <1>3, <1>5, <2>1, Zenon DEF BlockRecord
  <2>3. world' = world
    BY <1>4, <1>5, Zenon DEF WorldOk
  <2>4. PostOk(world, b.parent_root, post)
    BY <1>1, <1>5, <2>1, Zenon DEF WorldOk
  <2>5. b.root # world[a].parent_root
    <3> SUFFICES ASSUME b.root = world[a].parent_root
                 PROVE  FALSE
      BY Zenon
    <3>1. a # AnchorRoot
      BY <1>1, Zenon DEF WorldOk
    <3>2. world[b.root].slot < world[a].slot
      BY <1>2, <3>1, Zenon DEF WorldOk, TreeOk
    <3> QED
      BY <1>1, <1>2, <2>1, <3>2
  <2> QED
    BY <1>2, <1>5, <2>2, <2>3, <2>4, <2>5, Zenon DEF Grows
<1>6. CASE b.root \notin DOMAIN world
  <2>1. PostOk(world, b.parent_root, post)
    BY <1>2, <1>6, NewPost, Zenon DEF Posts, View
  <2>2. /\ DOMAIN world' = DOMAIN world \cup {b.root}
        /\ \A r \in DOMAIN world : world'[r] = world[r]
        /\ world'[b.root] = [slot |-> b.slot, parent_root |-> b.parent_root, post |-> post]
        /\ world' = [r \in DOMAIN world' |-> world'[r]]
    BY <1>4, <1>6, Zenon
  <2>3. /\ world'[b.root] \in BlockRecord
        /\ world'[b.root].parent_root = b.parent_root /\ world'[b.root].slot = b.slot
        /\ world'[b.root].post = post
    BY <1>1, <2>1, <2>2 DEF BlockRecord, PostOk
  <2>4. TreeOk(world', AnchorRoot)
    <3>1. /\ TreeOk(world, AnchorRoot) /\ b.root # world[AnchorRoot].parent_root
          /\ b.root \in Nat \ DOMAIN world
      BY <1>1, <1>6, Zenon DEF WorldOk
    <3> QED
      BY <1>2, <2>2, <2>3, <3>1, GrowTree, Zenon
  <2>5. Grows(world, world')
    BY <2>2, Zenon DEF Grows
  <2>6. \A p \in DOMAIN world : \A q : PostOk(world, p, q) => PostOk(world', p, q)
    BY <2>4, <2>5, PostOkStable, Zenon DEF WorldOk
  <2>7. \A r \in DOMAIN world' \ {AnchorRoot} : PostOk(world', world'[r].parent_root, world'[r].post)
    BY <1>2, <2>1, <2>2, <2>3, <2>6, Zenon DEF WorldOk, TreeOk
  <2>8. WorldOk(world')
    BY <1>1, <2>2, <2>4, <2>7, Zenon DEF WorldOk, TreeOk
  <2>9. b.root # world[a].parent_root
    BY <1>1, <1>2, <1>6, Zenon DEF WorldOk, TreeOk
  <2> QED
    BY <1>2, <2>1, <2>2, <2>5, <2>6, <2>8, <2>9, Zenon
<1> QED
  BY <1>5, <1>6, Zenon

\* track_block keeps the store within the blocks made, moves its finalized
\* checkpoint only forward and, without votes for empty slots, keeps it at or
\* below the justified one: a justified block above the store's anchor is
\* tracked.
LEMMA TrackOk ==
    ASSUME NEW blocks, WorldOk(blocks), NEW s, NEW a, StoreOk(blocks, s, a),
           NEW b, b.root \in Nat, Extends(s, b), b.root # s.blocks[a].parent_root, b.root \in DOMAIN blocks,
           NEW post, blocks[b.root] = [slot |-> b.slot, parent_root |-> b.parent_root, post |-> post],
           PostOk(blocks, b.parent_root, post)
    PROVE  LET t == TrackBlock(s, b, post)
           IN  /\ StoreOk(blocks, t, a)
               /\ Tracked(t) = Tracked(s) \cup {b.root}
               /\ t.latest_finalized.slot >= s.latest_finalized.slot
<1> DEFINE t == TrackBlock(s, b, post)
           j == post.justified
           f == post.finalized
<1>1. /\ IsStore(s) /\ b.root \notin Tracked(s) /\ b.parent_root \in Tracked(s)
      /\ b.slot > s.blocks[b.parent_root].slot
  BY Zenon DEF StoreOk, Extends
<1>2. Tracks(s, b, post, t)
  BY <1>1, TrackFields, Zenon
<1> HIDE DEF t
<1>3. /\ IsStore(t) /\ Tracked(t) = Tracked(s) \cup {b.root}
      /\ \A r \in Tracked(s) : t.blocks[r] = s.blocks[r]
      /\ t.blocks[b.root] = blocks[b.root]
  BY <1>2, Zenon DEF Tracks
<1>4. \A r \in Tracked(t) : r \in DOMAIN blocks /\ t.blocks[r] = blocks[r]
  BY <1>3, Zenon DEF StoreOk
<1>5. blocks[b.root] \in BlockRecord /\ blocks[b.root].parent_root = b.parent_root
      /\ blocks[b.root].slot = b.slot
  BY DEF WorldOk, TreeOk
<1>6. TreeOk(t.blocks, a)
  <2>1. /\ DOMAIN t.blocks = DOMAIN s.blocks \cup {b.root} /\ b.root \in Nat \ DOMAIN s.blocks
        /\ \A r \in DOMAIN s.blocks : t.blocks[r] = s.blocks[r]
        /\ TreeOk(s.blocks, a) /\ b.parent_root \in DOMAIN s.blocks
    BY <1>1, <1>3, Zenon DEF Tracked, StoreOk
  <2> QED
    BY <1>1, <1>3, <1>5, <2>1, GrowTree
<1>7. /\ a \in Tracked(s) /\ s.blocks[a].slot \in Nat /\ s.blocks[a] = blocks[a]
      /\ s.latest_justified.slot \in Nat /\ s.latest_finalized.slot \in Nat
      /\ s.latest_finalized.slot >= s.blocks[a].slot
      /\ j \in Cp /\ f \in Cp /\ j.slot \in Nat /\ f.slot \in Nat /\ f.slot <= j.slot
  <2>1. a \in Tracked(s) /\ \A r \in Tracked(s) : s.blocks[r].slot \in Nat /\ s.blocks[r].slot >= s.blocks[a].slot
    BY StoreSlots, Zenon
  <2> QED
    BY <2>1, Zenon DEF StoreOk, PostOk, Cp
<1>8. /\ t.latest_justified = IF j.slot > s.latest_justified.slot /\ j.root \in Tracked(t)
                              THEN j ELSE s.latest_justified
      /\ t.latest_finalized = IF f.slot > s.latest_finalized.slot /\ f.root \in Tracked(t)
                              THEN f ELSE s.latest_finalized
  BY <1>2, Zenon DEF Tracks, Adopted
<1>9. \A cp \in {j, f} : cp.root \in Tracked(t) => cp.slot = t.blocks[cp.root].slot
  <2> SUFFICES ASSUME NEW cp \in {j, f}, cp.root \in Tracked(t)
               PROVE  cp.slot = blocks[cp.root].slot
    BY <1>4, Zenon
  <2>1. cp.root \notin {ZeroRoot, PrunedRoot}
    BY <1>4, Zenon DEF WorldOk
  <2> QED
    BY <2>1, Zenon DEF PostOk
<1>10. \A cp \in {t.latest_justified, t.latest_finalized} :
          cp \in Cp /\ cp.root \in Tracked(t) /\ cp.slot = t.blocks[cp.root].slot
  <2>1. \A cp \in {s.latest_justified, s.latest_finalized} :
          cp \in Cp /\ cp.root \in Tracked(t) /\ cp.slot = t.blocks[cp.root].slot
    BY <1>3, Zenon DEF StoreOk
  <2> QED
    BY <2>1, <1>7, <1>8, <1>9, Zenon
<1>11. t.latest_finalized.slot >= s.latest_finalized.slot
  BY <1>7, <1>8
<1>12. ASSUME EmptySlots = {}
       PROVE  t.latest_finalized.slot <= t.latest_justified.slot
  <2>1. s.latest_finalized.slot <= s.latest_justified.slot
    BY <1>12, Zenon DEF StoreOk
  <2>2. CASE f.slot > s.latest_finalized.slot /\ f.root \in Tracked(t)
    <3>1. j.slot > blocks[a].slot /\ j.slot # 0
      BY <1>7, <2>2
    <3>2. j.root \in Ancestors(View(blocks), b.parent_root) /\ j.slot = blocks[j.root].slot
      BY <1>12, <3>1, Zenon DEF PostOk
    <3>3. j.root \in Tracked(s)
      BY <1>1, <1>7, <3>1, <3>2, TrackedBranch
    <3> QED
      BY <1>3, <1>7, <1>8, <2>2, <3>3
  <2>3. CASE ~(f.slot > s.latest_finalized.slot /\ f.root \in Tracked(t))
    BY <2>1, <2>3, <1>7, <1>8
  <2> QED
    BY <2>2, <2>3, Zenon
<1> QED
  BY <1>3, <1>4, <1>6, <1>10, <1>11, <1>12, Zenon DEF StoreOk, t

\* An operation that leaves blocks and checkpoints alone keeps the store.
LEMMA SameStoreOk ==
    ASSUME NEW blocks, NEW s, NEW a, StoreOk(blocks, s, a), NEW t, SameChain(s, t)
    PROVE  StoreOk(blocks, t, a) /\ Tracked(t) = Tracked(s) /\ t.latest_finalized = s.latest_finalized
BY Zenon DEF StoreOk, SameChain, Tracked

\* accept_new_votes leaves a head above the justified block, whatever the head
\* was before.
LEMMA AcceptOk ==
    ASSUME NEW blocks, WorldOk(blocks), NEW s, NEW a, StoreOk(blocks, s, a)
    PROVE  LET t == AcceptNewVotes(s)
           IN  /\ StoreOk(blocks, t, a) /\ HeadDescended(t)
               /\ Tracked(t) = Tracked(s) /\ t.latest_finalized = s.latest_finalized
<1> DEFINE t == AcceptNewVotes(s)
<1>1. /\ IsStore(s) /\ TreeOk(s.blocks, a)
      /\ s.latest_justified.root \in Tracked(s) /\ s.latest_justified.root # ZeroRoot
  BY Zenon DEF StoreOk, WorldOk
<1>2. Origin(s) = s.latest_justified.root
  BY <1>1, Zenon DEF Origin
<1>3. SameChain(s, t) /\ t.head \in Tracked(s) /\ Origin(s) \in Ancestors(s, t.head)
  BY <1>1, <1>2, AcceptFields, Zenon
<1> HIDE DEF t
<1>4. t.blocks = s.blocks /\ t.latest_justified = s.latest_justified
  BY <1>3, Zenon DEF SameChain
<1>5. Tracked(t) = Tracked(s) /\ \A r : Ancestors(t, r) = Ancestors(s, r)
  BY <1>4, SameAncestors, Zenon
<1>6. StoreOk(blocks, t, a) /\ t.latest_finalized = s.latest_finalized
  BY <1>3, SameStoreOk, Zenon
<1> QED
  BY <1>2, <1>3, <1>4, <1>5, <1>6, Zenon DEF HeadDescended, t

\* A gossiped vote waits in the pending pool.
LEMMA GossipOk ==
    ASSUME NEW blocks, NEW s, NEW a, StoreOk(blocks, s, a), HeadDescended(s), NEW v, NEW vote
    PROVE  LET t == GossipVote(s, v, vote)
           IN  /\ StoreOk(blocks, t, a) /\ HeadDescended(t)
               /\ Tracked(t) = Tracked(s) /\ t.latest_finalized = s.latest_finalized
<1> DEFINE t == GossipVote(s, v, vote)
<1>1. IsStore(s)
  BY Zenon DEF StoreOk
<1>2. SameChain(s, t) /\ t.head = s.head
  BY <1>1, Zenon DEF GossipVote, SameChain, IsStore, StoreFields
<1> HIDE DEF t
<1>3. t.blocks = s.blocks /\ t.latest_justified = s.latest_justified
  BY <1>2, Zenon DEF SameChain
<1>4. Tracked(t) = Tracked(s) /\ \A r : Ancestors(t, r) = Ancestors(s, r)
  BY <1>3, SameAncestors, Zenon
<1> QED
  BY <1>2, <1>3, <1>4, SameStoreOk, Zenon DEF HeadDescended, t

\* A store starts from a block that was made, with it as head and checkpoints.
LEMMA SeedOk ==
    ASSUME NEW blocks, WorldOk(blocks), NEW root \in DOMAIN blocks,
           NEW s, s = FromTrustedHead(root, blocks[root])
    PROVE  /\ StoreOk(blocks, s, root) /\ HeadDescended(s) /\ Tracked(s) = {root}
           /\ s.latest_finalized.slot = blocks[root].slot
<1> DEFINE cp == Checkpoint(root, blocks[root].slot)
<1>1. /\ IsStore(s) /\ Tracked(s) = {root} /\ s.head = root
      /\ s.latest_justified = cp /\ s.latest_finalized = cp
      /\ s.blocks[root] = [slot |-> blocks[root].slot, parent_root |-> blocks[root].parent_root,
                           post |-> blocks[root].post]
  BY Zenon DEF FromTrustedHead, SeedAnchor, IsStore, StoreFields, Tracked
<1>2. root \in Nat /\ blocks[root] \in BlockRecord
  BY Zenon DEF WorldOk, TreeOk
<1>3. s.blocks[root] = blocks[root] /\ blocks[root].slot \in Nat
  BY <1>1, <1>2, Zenon DEF BlockRecord
<1>4. cp \in Cp /\ cp.root = root /\ cp.slot = blocks[root].slot
  BY <1>2, <1>3, Zenon DEF Checkpoint, Cp
<1> HIDE DEF cp
<1>5. blocks[root].parent_root # root
  <2>1. CASE root = AnchorRoot
    BY <2>1, ForkChoiceAssumption, Zenon DEF WorldOk
  <2>2. CASE root # AnchorRoot
    BY <2>2, <1>3 DEF WorldOk, TreeOk
  <2> QED
    BY <2>1, <2>2, Zenon
<1>6. TreeOk(s.blocks, root)
  <2>1. \E n \in Nat : \A r \in {root} : r <= n /\ s.blocks[r].slot <= n
    <3>1. root + blocks[root].slot \in Nat /\ root <= root + blocks[root].slot
          /\ blocks[root].slot <= root + blocks[root].slot
      BY <1>2, <1>3
    <3> QED
      BY <3>1, <1>3, Zenon
  <2> QED
    BY <2>1, <1>1, <1>2, <1>3, <1>5, Zenon DEF TreeOk, Tracked
<1>7. StoreOk(blocks, s, root)
  BY <1>1, <1>3, <1>4, <1>6 DEF StoreOk, Cp
<1>8. root \in Ancestors(s, root)
  BY <1>1, <1>6, AncestorsBelow, Zenon
<1> QED
  BY <1>1, <1>4, <1>7, <1>8, Zenon DEF HeadDescended

-----------------------------------------------------------------------------
(* The chain service *)

\* Plans are captured and saved by a running process.  A plan names blocks of
\* the store, and a finalized checkpoint not above the store's.
PlanOk(plan) ==
    /\ up
    /\ plan.block \in Tracked(store)
    /\ Made(plan.head) /\ Made(plan.finalized)
    /\ plan.finalized.slot <= store.latest_finalized.slot
    /\ EmptySlots = {} => plan.finalized.slot <= plan.head.slot

RecordOk ==
    head_info # NoHead =>
        /\ Made(head_info.head) /\ Made(head_info.finalized)
        /\ EmptySlots = {} => Decodes

Pending == IF plans[Loop] = NoPlan THEN {} ELSE {plans[Loop].block}

\* With one writer and no failure everything the store tracks is on disk or in
\* the writer's plan, and the record on disk is not ahead of either.
SingleOk ==
    /\ \A w \in Writers \ {Loop} : plans[w] = NoPlan
    /\ up => Tracked(store) \subseteq saved \cup Pending
    /\ plans[Loop] # NoPlan => plans[Loop].head.root \in saved \cup Pending
    /\ head_info # NoHead =>
          /\ PayloadPresent
          /\ up => head_info.finalized.slot <= store.latest_finalized.slot
          /\ plans[Loop] # NoPlan => head_info.finalized.slot <= plans[Loop].finalized.slot

IInv ==
    /\ WorldOk(world)
    /\ \E a : StoreOk(world, store, a)
    /\ HeadDescended(store)
    /\ saved \subseteq DOMAIN world
    /\ plans = [w \in Writers |-> plans[w]]
    /\ \A w \in Writers : plans[w] # NoPlan => PlanOk(plans[w])
    /\ RecordOk
    /\ single => SingleOk

\* The plan captured from a refreshed store: its head is tracked, and finalized,
\* justified and head follow each other.
LEMMA CaptureOk ==
    ASSUME NEW blocks, NEW s, NEW a, StoreOk(blocks, s, a), HeadDescended(s), NEW root \in Nat,
           NEW plan, plan = CapturePersistInputs(s, root)
    PROVE  /\ plan # NoPlan
           /\ plan.block = root
           /\ plan.head.root \in Tracked(s) /\ plan.head.slot = s.blocks[plan.head.root].slot
           /\ plan.finalized = s.latest_finalized
           /\ EmptySlots = {} => plan.finalized.slot <= plan.head.slot
<1>1. /\ plan = [block |-> root, head |-> plan.head, finalized |-> plan.finalized]
      /\ plan.head = [root |-> s.head, slot |-> s.blocks[s.head].slot]
      /\ plan.finalized = s.latest_finalized
  BY Zenon DEF CapturePersistInputs, Checkpoint
<1>2. s.head \in Tracked(s) /\ s.latest_justified.root \in Ancestors(s, s.head)
  BY Zenon DEF HeadDescended
<1>3. /\ \A r \in Tracked(s) : r \in Nat /\ s.blocks[r].slot \in Nat
      /\ s.latest_justified.root \in Tracked(s)
      /\ s.latest_justified.slot = s.blocks[s.latest_justified.root].slot
      /\ s.latest_finalized \in Cp /\ s.latest_finalized.slot \in Nat
  BY StoreSlots, Zenon DEF StoreOk, Cp
<1>4. \A q \in Ancestors(s, s.head) : q # s.head => s.blocks[q].slot < s.blocks[s.head].slot
  BY <1>2, AncestorsBelow, Zenon DEF StoreOk
<1>5. s.latest_justified.slot <= s.blocks[s.head].slot
  BY <1>2, <1>3, <1>4
<1>6. EmptySlots = {} => s.latest_finalized.slot <= s.blocks[s.head].slot
  BY <1>2, <1>3, <1>5 DEF StoreOk
<1>7. plan \in [block: Nat, head: Cp, finalized: Cp]
  <2>1. plan.head \in Cp
    BY <1>1, <1>2, <1>3 DEF Cp
  <2> QED
    BY <1>1, <1>3, <2>1
<1>8. plan # NoPlan
  BY <1>7, ChainServiceAssumption, Zenon
<1> QED
  BY <1>1, <1>2, <1>6, <1>8

\* from_anchor gives the store of the genesis block.
LEMMA GenesisOk ==
    ASSUME NEW blocks, WorldOk(blocks), NEW s, s = FromAnchor
    PROVE  /\ StoreOk(blocks, s, AnchorRoot) /\ HeadDescended(s)
           /\ Tracked(s) = {AnchorRoot} /\ s.latest_finalized.slot = 0
<1>1. /\ blocks[AnchorRoot].slot = 0 /\ blocks[AnchorRoot].parent_root = ZeroRoot
      /\ blocks[AnchorRoot].post = [justified |-> Zero, finalized |-> Zero]
      /\ AnchorRoot \in DOMAIN blocks
  BY Zenon DEF WorldOk, TreeOk
<1>2. s = FromTrustedHead(AnchorRoot, blocks[AnchorRoot])
  BY <1>1, Zenon DEF FromAnchor, FromTrustedHead
<1> QED
  BY <1>1, <1>2, SeedOk, Zenon

\* A fresh node tracks genesis only.
LEMMA InitInv ==
    ASSUME Init
    PROVE  IInv
<1>1. /\ DOMAIN world = {AnchorRoot} /\ world = [r \in DOMAIN world |-> world[r]]
      /\ world[AnchorRoot] = [slot |-> 0, parent_root |-> ZeroRoot,
                              post |-> [justified |-> Zero, finalized |-> Zero]]
  BY Zenon DEF Init, FromAnchor, SeedAnchor
<1>2. WorldOk(world)
  <2>1. Zero \in Cp
    BY ForkChoiceAssumption, Zenon DEF Zero, Checkpoint, Cp
  <2>2. /\ world[AnchorRoot].slot = 0 /\ world[AnchorRoot].parent_root = ZeroRoot
        /\ world[AnchorRoot].post = [justified |-> Zero, finalized |-> Zero]
        /\ world[AnchorRoot] \in BlockRecord
    BY <1>1, <2>1, ForkChoiceAssumption DEF BlockRecord
  <2>3. AnchorRoot \in Nat /\ 0 <= AnchorRoot /\ AnchorRoot <= AnchorRoot
    BY ForkChoiceAssumption
  <2>4. TreeOk(world, AnchorRoot)
    BY <1>1, <2>2, <2>3, ForkChoiceAssumption, Zenon DEF TreeOk
  <2> QED
    BY <1>1, <2>2, <2>4, ForkChoiceAssumption, Zenon DEF WorldOk
<1>3. StoreOk(world, store, AnchorRoot) /\ HeadDescended(store)
  BY <1>2, GenesisOk, Zenon DEF Init
<1>4. /\ saved = {} /\ head_info = NoHead /\ ~up
      /\ plans = [w \in Writers |-> NoPlan] /\ \A w \in Writers : plans[w] = NoPlan
      /\ Loop \in Writers
  BY ChainServiceAssumption, Zenon DEF Init
<1> QED
  BY <1>2, <1>3, <1>4, Zenon DEF IInv, RecordOk, SingleOk

\* A writer that adds a block to the store and captures its plan.
LEMMA GrowInv ==
    ASSUME IInv, up, NEW w \in Writers, plans[w] = NoPlan,
           NEW a, WorldOk(world'), Grows(world, world'), StoreOk(world', store', a), HeadDescended(store'),
           NEW root \in Nat, Tracked(store') = Tracked(store) \cup {root},
           store'.latest_finalized.slot >= store.latest_finalized.slot,
           plans' = [plans EXCEPT ![w] = CapturePersistInputs(store', root)],
           single' => single /\ w = Loop,
           UNCHANGED <<up, saved, head_info>>
    PROVE  IInv'
<1>1. /\ plans'[w] = CapturePersistInputs(store', root)
      /\ \A u \in Writers \ {w} : plans'[u] = plans[u]
      /\ plans' = [u \in Writers |-> plans'[u]]
  BY Zenon DEF IInv
<1>2. /\ plans'[w] # NoPlan
      /\ plans'[w].block = root
      /\ plans'[w].head.root \in Tracked(store')
      /\ plans'[w].head.slot = store'.blocks[plans'[w].head.root].slot
      /\ plans'[w].finalized = store'.latest_finalized
      /\ EmptySlots = {} => plans'[w].finalized.slot <= plans'[w].head.slot
  BY <1>1, CaptureOk
<1>3. /\ \A r \in Tracked(store') : r \in DOMAIN world' /\ store'.blocks[r] = world'[r]
      /\ store'.latest_finalized.root \in Tracked(store')
      /\ store'.latest_finalized.slot = store'.blocks[store'.latest_finalized.root].slot
      /\ store'.latest_finalized.slot \in Nat
  BY Zenon DEF StoreOk, Cp
<1>4. store.latest_finalized.slot \in Nat
  BY Zenon DEF IInv, StoreOk, Cp
<1>5. \A cp : Made(cp) => cp.slot \in Nat /\ cp.root \in DOMAIN world' /\ cp.slot = world'[cp.root].slot
  BY Zenon DEF IInv, WorldOk, TreeOk, BlockRecord, Made, Grows
<1>6. PlanOk(plans[w])'
  BY <1>2, <1>3 DEF PlanOk, Made
<1>7. ASSUME NEW u \in Writers \ {w}, plans[u] # NoPlan
      PROVE  PlanOk(plans[u])'
  <2>1. PlanOk(plans[u]) /\ plans'[u] = plans[u]
    BY <1>1, <1>7, Zenon DEF IInv
  <2>2. /\ plans[u].finalized.slot \in Nat
        /\ plans[u].finalized.slot <= store'.latest_finalized.slot
    BY <1>3, <1>4, <1>5, <2>1 DEF PlanOk
  <2> QED
    BY <1>5, <2>1, <2>2, Zenon DEF PlanOk, Made
<1>8. \A u \in Writers : plans'[u] # NoPlan => PlanOk(plans[u])'
  BY <1>1, <1>6, <1>7, Zenon
<1>9. RecordOk'
  BY <1>5, Zenon DEF IInv, RecordOk, Decodes, Made
<1>10. (saved \subseteq DOMAIN world)'
  BY Zenon DEF IInv, Grows
<1>11. ASSUME single'
       PROVE  SingleOk'
  <2>1. single /\ w = Loop /\ SingleOk
    BY <1>11, Zenon DEF IInv
  <2>2. Tracked(store) \subseteq saved /\ Pending' = {root}
    BY <1>2, <2>1, Zenon DEF SingleOk, Pending
  <2>3. \A u \in Writers \ {Loop} : plans'[u] = NoPlan
    BY <1>1, <2>1, Zenon DEF SingleOk
  <2>4. head_info # NoHead =>
           /\ PayloadPresent /\ head_info.finalized.slot \in Nat
           /\ head_info.finalized.slot <= store.latest_finalized.slot
    BY <1>5, <2>1, Zenon DEF IInv, RecordOk, SingleOk
  <2>5. head_info # NoHead => head_info.finalized.slot <= store'.latest_finalized.slot
    BY <1>3, <1>4, <2>4
  <2> QED
    BY <1>2, <2>1, <2>2, <2>3, <2>4, <2>5, Zenon DEF SingleOk, PayloadPresent
<1> QED
  BY <1>1, <1>8, <1>9, <1>10, <1>11, Zenon DEF IInv

\* A block arrives: it is made, tracked, and the head refreshed.
LEMMA ImportInv ==
    ASSUME IInv, NEW w \in Writers, NEW b \in Blocks, ImportBlock(w, b)
    PROVE  IInv'
<1>1. /\ up /\ plans[w] = NoPlan /\ Extends(store, b)
      /\ plans' = [plans EXCEPT ![w] = CapturePersistInputs(store', b.root)]
      /\ single' => single /\ w = Loop
      /\ UNCHANGED <<up, saved, head_info>>
  BY Zenon DEF ImportBlock
<1>2. PICK post \in Posts(b) : Make(b, post) /\ store' = Import(store, b, post, EmptyPool)
  BY Zenon DEF ImportBlock
<1>3. PICK a : StoreOk(world, store, a)
  BY Zenon DEF IInv
<1> DEFINE t == TrackBlock(store, b, post)
           u == FoldBlockAttestations(t, EmptyPool)
<1>4. WorldOk(world) /\ b.root \in Nat
  BY ChainServiceAssumption, Zenon DEF IInv
<1>5. /\ WorldOk(world') /\ Grows(world, world')
      /\ b.root \in DOMAIN world'
      /\ world'[b.root] = [slot |-> b.slot, parent_root |-> b.parent_root, post |-> post]
      /\ PostOk(world', b.parent_root, post)
      /\ b.root # store.blocks[a].parent_root
  BY <1>1, <1>2, <1>3, <1>4, MakeOk, Zenon
<1>6. StoreOk(world', store, a)
  BY <1>3, <1>5, Zenon DEF StoreOk, Grows
<1>7. /\ StoreOk(world', t, a)
      /\ Tracked(t) = Tracked(store) \cup {b.root}
      /\ t.latest_finalized.slot >= store.latest_finalized.slot
  BY <1>1, <1>4, <1>5, <1>6, TrackOk, Zenon
<1> HIDE DEF t
<1>8. SameChain(t, u)
  BY <1>7, FoldSameChain, Zenon DEF StoreOk
<1> HIDE DEF u
<1>9. StoreOk(world', u, a) /\ Tracked(u) = Tracked(t) /\ u.latest_finalized = t.latest_finalized
  BY <1>7, <1>8, SameStoreOk, Zenon
<1>10. store' = AcceptNewVotes(u)
  BY <1>2, Zenon DEF Import, t, u
<1>11. /\ StoreOk(world', store', a) /\ HeadDescended(store')
       /\ Tracked(store') = Tracked(u) /\ store'.latest_finalized = u.latest_finalized
  BY <1>5, <1>9, <1>10, AcceptOk, Zenon
<1>12. /\ Tracked(store') = Tracked(store) \cup {b.root}
       /\ store'.latest_finalized.slot >= store.latest_finalized.slot
  BY <1>7, <1>9, <1>11, Zenon
<1> QED
  BY <1>1, <1>4, <1>5, <1>11, <1>12, GrowInv, Zenon

\* The loop makes a block on the refreshed head.
LEMMA ProduceInv ==
    ASSUME IInv, NEW b \in Blocks, ProduceBlock(b)
    PROVE  IInv'
<1> DEFINE s == AcceptNewVotes(store)
<1>1. /\ up /\ plans[Loop] = NoPlan /\ Extends(s, b)
      /\ plans' = [plans EXCEPT ![Loop] = CapturePersistInputs(store', b.root)]
      /\ single' => single /\ Loop = Loop
      /\ UNCHANGED <<up, saved, head_info>>
  BY Zenon DEF ProduceBlock
<1>2. PICK post \in Posts(b) : Make(b, post) /\ store' = AcceptNewVotes(TrackBlock(s, b, post))
  BY Zenon DEF ProduceBlock
<1>3. PICK a : StoreOk(world, store, a)
  BY Zenon DEF IInv
<1> DEFINE t == TrackBlock(s, b, post)
<1>4. WorldOk(world) /\ b.root \in Nat /\ Loop \in Writers
  BY ChainServiceAssumption, Zenon DEF IInv
<1>5. StoreOk(world, s, a) /\ Tracked(s) = Tracked(store) /\ s.latest_finalized = store.latest_finalized
  BY <1>3, <1>4, AcceptOk, Zenon
<1> HIDE DEF s
<1>6. /\ WorldOk(world') /\ Grows(world, world')
      /\ b.root \in DOMAIN world'
      /\ world'[b.root] = [slot |-> b.slot, parent_root |-> b.parent_root, post |-> post]
      /\ PostOk(world', b.parent_root, post)
      /\ b.root # s.blocks[a].parent_root
  BY <1>1, <1>2, <1>4, <1>5, MakeOk
<1>7. StoreOk(world', s, a)
  BY <1>5, <1>6, Zenon DEF StoreOk, Grows
<1>8. /\ StoreOk(world', t, a)
      /\ Tracked(t) = Tracked(s) \cup {b.root}
      /\ t.latest_finalized.slot >= s.latest_finalized.slot
  BY <1>1, <1>4, <1>6, <1>7, TrackOk, Zenon
<1> HIDE DEF t
<1>9. store' = AcceptNewVotes(t)
  BY <1>2, Zenon DEF t
<1>10. /\ StoreOk(world', store', a) /\ HeadDescended(store')
       /\ Tracked(store') = Tracked(t) /\ store'.latest_finalized = t.latest_finalized
  BY <1>6, <1>8, <1>9, AcceptOk, Zenon
<1>11. /\ Tracked(store') = Tracked(store) \cup {b.root}
       /\ store'.latest_finalized.slot >= store.latest_finalized.slot
  BY <1>5, <1>8, <1>10, Zenon
<1> QED
  BY <1>1, <1>4, <1>6, <1>10, <1>11, GrowInv, Zenon

\* Votes move the head only.
LEMMA VotesInv ==
    ASSUME IInv, \/ \E v \in Validators, vote \in Votes : ImportAttestation(v, vote)
                 \/ PromoteVotes
    PROVE  IInv'
<1>1. up /\ UNCHANGED <<world, up, plans, saved, head_info, single>>
  BY Zenon DEF ImportAttestation, PromoteVotes
<1>2. PICK a : StoreOk(world, store, a)
  BY Zenon DEF IInv
<1>3. /\ StoreOk(world, store', a) /\ HeadDescended(store')
      /\ Tracked(store') = Tracked(store) /\ store'.latest_finalized = store.latest_finalized
  <2>1. CASE PromoteVotes
    BY <1>2, <2>1, AcceptOk, Zenon DEF PromoteVotes, IInv
  <2>2. ASSUME NEW v \in Validators, NEW vote \in Votes, ImportAttestation(v, vote)
        PROVE  /\ StoreOk(world, store', a) /\ HeadDescended(store')
               /\ Tracked(store') = Tracked(store) /\ store'.latest_finalized = store.latest_finalized
    BY <1>2, <2>2, GossipOk, Zenon DEF ImportAttestation, IInv
  <2> QED
    BY <2>1, <2>2, Zenon
<1>4. \A w \in Writers : plans[w] # NoPlan => PlanOk(plans[w])'
  BY <1>1, <1>3, Zenon DEF IInv, PlanOk, Made
<1>5. RecordOk'
  BY <1>1, Zenon DEF IInv, RecordOk, Decodes, Made
<1>6. single => SingleOk'
  BY <1>1, <1>3, Zenon DEF IInv, SingleOk, Pending, PayloadPresent
<1> QED
  BY <1>1, <1>3, <1>4, <1>5, <1>6, Zenon DEF IInv

\* Saving a plan brings its block and its head record.
LEMMA SaveInv ==
    ASSUME IInv, NEW w \in Writers, SaveAccepted(w)
    PROVE  IInv'
<1>1. /\ plans[w] # NoPlan
      /\ saved' = saved \cup {plans[w].block}
      /\ head_info' = [head |-> plans[w].head, finalized |-> plans[w].finalized]
      /\ plans' = [plans EXCEPT ![w] = NoPlan]
      /\ UNCHANGED <<world, up, store, single>>
  BY Zenon DEF SaveAccepted
<1>2. PlanOk(plans[w])
  BY <1>1, Zenon DEF IInv
<1>3. /\ plans'[w] = NoPlan /\ \A u \in Writers \ {w} : plans'[u] = plans[u]
      /\ plans' = [u \in Writers |-> plans'[u]]
  BY <1>1, Zenon DEF IInv
<1>4. \A u \in Writers : plans'[u] # NoPlan => PlanOk(plans[u])'
  <2> SUFFICES ASSUME NEW u \in Writers, plans'[u] # NoPlan
               PROVE  PlanOk(plans[u])'
    BY Zenon
  <2>1. plans'[u] = plans[u] /\ PlanOk(plans[u])
    BY <1>3, Zenon DEF IInv
  <2> QED
    BY <1>1, <2>1, Zenon DEF PlanOk, Made
<1>5. RecordOk'
  BY <1>1, <1>2, Zenon DEF PlanOk, RecordOk, Decodes, Made
<1>6. (saved \subseteq DOMAIN world)'
  BY <1>1, <1>2, Zenon DEF IInv, PlanOk, StoreOk
<1>7. ASSUME single
      PROVE  SingleOk'
  <2>1. SingleOk /\ w = Loop
    BY <1>1, <1>7, Zenon DEF IInv, SingleOk
  <2>2. Pending = {plans[Loop].block} /\ Pending' = {}
    BY <1>1, <1>3, <2>1, Zenon DEF Pending
  <2>3. /\ saved' = saved \cup Pending
        /\ up => Tracked(store) \subseteq saved'
        /\ head_info'.head.root \in saved'
    BY <1>1, <2>1, <2>2, Zenon DEF SingleOk
  <2>4. head_info'.finalized.slot <= store.latest_finalized.slot
    BY <1>1, <1>2, Zenon DEF PlanOk
  <2> QED
    BY <1>1, <1>3, <2>1, <2>2, <2>3, <2>4, Zenon DEF SingleOk, PayloadPresent
<1> QED
  BY <1>1, <1>3, <1>4, <1>5, <1>6, <1>7, Zenon DEF IInv

\* Plans are given up by a failed write or by a crash.
LEMMA DropInv ==
    ASSUME IInv, (\E w \in Writers : SaveFails(w)) \/ Crash
    PROVE  IInv'
<1>1. UNCHANGED <<world, store, saved, head_info>>
  BY Zenon DEF SaveFails, Crash
<1>2. CASE Crash
  <2>1. /\ plans' = [w \in Writers |-> NoPlan] /\ ~up' /\ single' = single
        /\ \A w \in Writers : plans'[w] = NoPlan
        /\ plans' = [w \in Writers |-> plans'[w]]
    BY <1>2, Zenon DEF Crash
  <2>2. RecordOk'
    BY <1>1, Zenon DEF IInv, RecordOk, Decodes, Made
  <2>3. single => SingleOk'
    BY <1>1, <2>1, ChainServiceAssumption, Zenon DEF IInv, SingleOk, PayloadPresent
  <2> QED
    BY <1>1, <2>1, <2>2, <2>3, Zenon DEF IInv
<1>3. ASSUME NEW w \in Writers, SaveFails(w)
      PROVE  IInv'
  <2>1. plans' = [plans EXCEPT ![w] = NoPlan] /\ ~single' /\ up' = up
    BY <1>3, Zenon DEF SaveFails
  <2>2. /\ plans'[w] = NoPlan /\ \A u \in Writers \ {w} : plans'[u] = plans[u]
        /\ plans' = [u \in Writers |-> plans'[u]]
    BY <2>1, Zenon DEF IInv
  <2>3. RecordOk'
    BY <1>1, Zenon DEF IInv, RecordOk, Decodes, Made
  <2>4. \A u \in Writers : plans'[u] # NoPlan => PlanOk(plans[u])'
    <3> SUFFICES ASSUME NEW u \in Writers, plans'[u] # NoPlan
                 PROVE  PlanOk(plans[u])'
      BY Zenon
    <3>1. plans'[u] = plans[u] /\ PlanOk(plans[u])
      BY <2>2, Zenon DEF IInv
    <3> QED
      BY <1>1, <2>1, <3>1, Zenon DEF PlanOk, Made
  <2> QED
    BY <1>1, <2>1, <2>2, <2>3, <2>4, Zenon DEF IInv
<1> QED
  BY <1>2, <1>3, Zenon

\* A process that is not running has no plans.
LEMMA DownNoPlans ==
    ASSUME IInv, ~up
    PROVE  \A w \in Writers : plans[w] = NoPlan
BY Zenon DEF IInv, PlanOk

\* The node starts again from the head on disk.  What it resumes from is the
\* justified and the finalized block of the new store, so the record on disk,
\* which decodes, is not ahead of it.
LEMMA ResumeInv ==
    ASSUME IInv, Resume
    PROVE  IInv'
<1> DEFINE root == head_info.head.root
<1>1. /\ ~up /\ head_info # NoHead /\ Decodes /\ PayloadPresent
      /\ store' = FromTrustedHead(root, world[root])
      /\ UNCHANGED <<world, plans, saved, head_info, single>>
  BY Zenon DEF Resume
<1>2. /\ root \in DOMAIN world /\ WorldOk(world)
      /\ head_info.head.slot = world[root].slot
  BY <1>1, Zenon DEF IInv, RecordOk, Made
<1>3. root \in saved
  BY <1>1, Zenon DEF PayloadPresent
<1> HIDE DEF root
<1>4. /\ StoreOk(world, store', root) /\ HeadDescended(store') /\ Tracked(store') = {root}
      /\ store'.latest_finalized.slot = world[root].slot
  BY <1>1, <1>2, SeedOk
<1>5. \A w \in Writers : plans[w] = NoPlan
  BY <1>1, DownNoPlans, Zenon
<1>6. RecordOk'
  BY <1>1, Zenon DEF IInv, RecordOk, Decodes, Made
<1>7. head_info.finalized.slot <= store'.latest_finalized.slot
  BY <1>1, <1>2, <1>4, Zenon DEF Decodes
<1>8. SingleOk'
  BY <1>1, <1>3, <1>4, <1>5, <1>7, ChainServiceAssumption, Zenon DEF SingleOk, PayloadPresent
<1> QED
  BY <1>1, <1>4, <1>5, <1>6, <1>8, Zenon DEF IInv

\* The node starts at genesis and, unless it crashes before, records it.
LEMMA GenesisInv ==
    ASSUME IInv, StartAtGenesis
    PROVE  IInv'
<1>1. /\ ~up /\ (head_info # NoHead => Decodes /\ ~PayloadPresent)
      /\ store' = FromAnchor
      /\ saved' = saved \cup {AnchorRoot}
      /\ UNCHANGED <<world, plans, single>>
  BY Zenon DEF StartAtGenesis
<1>2. \/ /\ head_info' = [head |-> Checkpoint(AnchorRoot, 0), finalized |-> Checkpoint(AnchorRoot, 0)]
         /\ up'
      \/ head_info' = head_info /\ up' = up
  BY Zenon DEF StartAtGenesis
<1>3. /\ WorldOk(world) /\ AnchorRoot \in DOMAIN world /\ world[AnchorRoot].slot = 0
  BY Zenon DEF IInv, WorldOk, TreeOk
<1>4. StoreOk(world, store', AnchorRoot) /\ HeadDescended(store')
      /\ Tracked(store') = {AnchorRoot} /\ store'.latest_finalized.slot = 0
  BY <1>1, <1>3, GenesisOk, Zenon
<1>5. \A w \in Writers : plans[w] = NoPlan
  BY <1>1, DownNoPlans, Zenon
<1>6. RecordOk'
  <2>1. CASE head_info' = head_info /\ up' = up
    BY <1>1, <2>1, Zenon DEF IInv, RecordOk, Decodes, Made
  <2>2. CASE head_info' = [head |-> Checkpoint(AnchorRoot, 0), finalized |-> Checkpoint(AnchorRoot, 0)]
    BY <1>1, <1>3, <2>2 DEF RecordOk, Decodes, Made, Checkpoint
  <2> QED
    BY <1>2, <2>1, <2>2, Zenon
<1>7. (saved \subseteq DOMAIN world)'
  BY <1>1, <1>3, Zenon DEF IInv
<1>8. ASSUME single
      PROVE  SingleOk'
  <2>1. head_info = NoHead
    BY <1>1, <1>8, Zenon DEF IInv, SingleOk
  <2>2. head_info' # NoHead => /\ head_info'.head.root = AnchorRoot
                               /\ head_info'.finalized.slot = 0
    BY <1>2, <2>1 DEF Checkpoint
  <2> QED
    BY <1>1, <1>4, <1>5, <2>2, ChainServiceAssumption DEF SingleOk, PayloadPresent
<1> QED
  BY <1>1, <1>3, <1>4, <1>5, <1>6, <1>7, <1>8, Zenon DEF IInv

\* Every step of a writer, a crash and a restart preserve the invariant.
LEMMA StepInv ==
    ASSUME IInv, [Next]_vars
    PROVE  IInv'
<1>1. CASE UNCHANGED vars
  BY <1>1, Zenon DEF vars, IInv, PlanOk, RecordOk, SingleOk, Pending, Made, Decodes, PayloadPresent
<1>2. CASE Next
  BY <1>2, ImportInv, ProduceInv, VotesInv, SaveInv, DropInv, ResumeInv, GenesisInv, Zenon DEF Next
<1> QED
  BY <1>1, <1>2, Zenon
-----------------------------------------------------------------------------
(* Theorems *)

\* The blocks made form a tree, the store holds a part of it, plans and the
\* record on disk name blocks that were made; and with one writer and no
\* failure everything the store tracks is saved or about to be.
THEOREM Invariance == Spec => []IInv
<1>1. Init => IInv
  BY InitInv, Zenon
<1>2. IInv /\ [Next]_vars => IInv'
  BY StepInv, Zenon
<1> QED
  BY <1>1, <1>2, PTL DEF Spec

\* Everything on disk and in memory is a block that was made: capture_persist_inputs
\* and save_accepted never record a root or a slot of no block.
THEOREM TypeCorrectness == Spec => []TypeOK
<1>1. IInv => TypeOK
  BY Zenon DEF IInv, StoreOk, PlanOk, RecordOk, TypeOK
<1> QED
  BY <1>1, Invariance, PTL

\* Whatever writers, failures and crashes do to the head record, decode_head
\* accepts it and build_engine does not refuse to start.  As long as no empty
\* slot is justified: a vote for the zero root of an empty slot could finalize
\* above the head the store then chooses.
THEOREM HeadRecordSafety ==
    ASSUME EmptySlots = {}
    PROVE  Spec => []HeadDecodes
<1>1. IInv => HeadDecodes
  BY Zenon DEF IInv, RecordOk, HeadDecodes
<1> QED
  BY <1>1, Invariance, PTL

\* With one writer and no failed write the block and the post-state of the
\* recorded head are on disk: build_engine resumes and never falls back to genesis.
THEOREM PayloadSafety == Spec => []HeadPayloadPresent
<1>1. IInv => HeadPayloadPresent
  BY Zenon DEF IInv, SingleOk, HeadPayloadPresent
<1> QED
  BY <1>1, Invariance, PTL

\* The single writer never turns back into one: a failure or a second writer
\* leaves its mark for good.
LEMMA SingleStays ==
    ASSUME [Next]_vars, single'
    PROVE  single
BY Zenon DEF Next, vars, ImportBlock, ProduceBlock, ImportAttestation, PromoteVotes, SaveAccepted, SaveFails,
       Crash, Resume, StartAtGenesis

\* With one writer and no failed write the finalized slot of the record on disk
\* never falls, across any number of crashes and restarts: each process starts
\* at or above the record, and its plans follow its own finalized checkpoint.
THEOREM RecordMonotonicity == Spec => RecordedFinalizedMonotone
<1> DEFINE A == single' /\ head_info # NoHead => head_info'.finalized.slot >= head_info.finalized.slot
<1>1. ASSUME IInv, IInv', [Next]_vars
      PROVE  [A]_vars
  <2> SUFFICES ASSUME single', head_info # NoHead, ~UNCHANGED vars
               PROVE  head_info'.finalized.slot >= head_info.finalized.slot
    BY Zenon
  <2>1. single /\ SingleOk
    BY <1>1, SingleStays, Zenon DEF IInv
  <2>2. /\ head_info.finalized.slot \in Nat /\ PayloadPresent
    BY <1>1, <2>1, Zenon DEF IInv, RecordOk, Made, SingleOk, WorldOk, TreeOk, BlockRecord
  <2>3. CASE head_info' = head_info
    BY <2>2, <2>3
  <2>4. ASSUME NEW w \in Writers, SaveAccepted(w)
        PROVE  head_info'.finalized.slot >= head_info.finalized.slot
    <3>1. plans[w] # NoPlan /\ head_info'.finalized = plans[w].finalized
      BY <2>4, Zenon DEF SaveAccepted
    <3>2. w = Loop
      BY <2>1, <3>1, Zenon DEF SingleOk
    <3>3. plans[w].finalized.slot \in Nat
      BY <1>1, <3>1, Zenon DEF IInv, PlanOk, Made, WorldOk, TreeOk, BlockRecord
    <3> QED
      BY <2>1, <2>2, <3>1, <3>2, <3>3, Zenon DEF SingleOk
  <2>5. CASE StartAtGenesis
    BY <2>2, <2>5, Zenon DEF StartAtGenesis
  <2> QED
    BY <1>1, <2>3, <2>4, <2>5, Zenon DEF Next, ImportBlock, ProduceBlock, ImportAttestation, PromoteVotes,
       SaveFails, Crash, Resume
<1> QED
  BY <1>1, Invariance, PTL DEF Spec, RecordedFinalizedMonotone
=============================================================================
