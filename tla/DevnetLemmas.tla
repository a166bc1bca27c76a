---------------------------- MODULE DevnetLemmas ----------------------------
(***************************************************************************)
(* What one step of a node computes, for any chain of blocks, any store    *)
(* over it and any messages: the states that production builds on a branch *)
(* justify and finalize blocks of that branch; importing, voting and       *)
(* proposing keep a store within the chain and sound; and a new block      *)
(* makes a longer chain of the same kind.  DevnetProofs rests on these     *)
(* lemmas.                                                                 *)
(***************************************************************************)
EXTENDS Devnet, ForkChoiceProofs

(* Induction *)

\* A set with 0 that is closed under successors up to n has 0 .. n.
LEMMA UpTo ==
    ASSUME NEW n \in Nat, NEW S, 0 \in S, \A k \in 0 .. n - 1 : k \in S => k + 1 \in S
    PROVE  0 .. n \subseteq S
<1> DEFINE T == (0 .. n) \ S
<1> SUFFICES ASSUME T # {} PROVE FALSE
  BY Zenon
<1>1. PICK k \in T : \A m \in T : k <= m
  <2>1. T \subseteq Nat
    OBVIOUS
  <2> HIDE DEF T
  <2> QED
    BY <2>1, LeastNat, Zenon
<1>2. k \in 0 .. n /\ k # 0
  BY <1>1, Zenon
<1>3. k - 1 \in 0 .. n - 1 /\ k - 1 \notin T /\ (k - 1) + 1 = k
  BY <1>1, <1>2
<1> QED
  BY <1>1, <1>2, <1>3
-----------------------------------------------------------------------------
(* The state transition on a branch *)

StateFields == {"slot", "header", "latest_justified", "latest_finalized",
                "historical_block_hashes", "justified_slots", "tally"}

\* st is a record with the fields of State.
IsState(st) == st = [f \in StateFields |-> st[f]]

\* The blocks of h's branch as checkpoints.
OnBranch(c, h) == {Checkpoint(q, c.blocks[q].slot) : q \in Ancestors(c, h)}

\* st may be the state after a block of slot n on top of h: its history, its
\* justified and its finalized checkpoint name blocks of h's branch, in order,
\* and nothing that h finalized is undone.
Follows(c, st, n, root, h) ==
    /\ IsState(st)
    /\ st.slot = n
    /\ st.header = [slot |-> n, root |-> root, sealed |-> FALSE]
    /\ DOMAIN st.historical_block_hashes = 0 .. n - 1
    /\ \A k \in 0 .. n - 1 : LET q == st.historical_block_hashes[k]
                             IN  q = ZeroRoot \/ (q \in Ancestors(c, h) /\ c.blocks[q].slot = k)
    /\ st.latest_justified \in OnBranch(c, h)
    /\ st.latest_finalized \in OnBranch(c, h)
    /\ st.latest_finalized.slot \in st.justified_slots
    /\ \/ st.latest_finalized.slot < st.latest_justified.slot
       \/ st.latest_finalized.slot = 0 /\ st.latest_justified.slot = 0
    /\ c.blocks[h].post.finalized.slot <= st.latest_finalized.slot

\* h is a block of a tree without the zero root.
BranchOk(c, h) ==
    /\ TreeOk(c.blocks, AnchorRoot)
    /\ h \in Tracked(c)
    /\ ZeroRoot \notin Tracked(c)

\* A checkpoint of a branch names a block not above its tip.
LEMMA OnBranchBelow ==
    ASSUME NEW c, NEW h, BranchOk(c, h), NEW cp \in OnBranch(c, h)
    PROVE  /\ cp \in Cp /\ cp.root \in Ancestors(c, h) /\ cp.root \in Tracked(c)
           /\ cp.root # ZeroRoot
           /\ cp.slot = c.blocks[cp.root].slot /\ cp.slot <= c.blocks[h].slot
<1>1. PICK q \in Ancestors(c, h) : cp = Checkpoint(q, c.blocks[q].slot)
  BY Zenon DEF OnBranch
<1>2. TreeOk(c.blocks, AnchorRoot) /\ h \in Tracked(c) /\ ZeroRoot \notin Tracked(c)
  BY Zenon DEF BranchOk
<1>3. q \in Tracked(c) /\ (q # h => c.blocks[q].slot < c.blocks[h].slot)
  BY <1>2, AncestorsBelow, Zenon
<1>4. q \in Nat /\ c.blocks[q].slot \in Nat /\ c.blocks[h].slot \in Nat
  BY <1>2, <1>3, Zenon DEF TreeOk, BlockRecord, Tracked
<1>5. cp \in Cp /\ cp.root = q /\ cp.slot = c.blocks[q].slot
  BY <1>1, <1>4, Zenon DEF Checkpoint, Cp
<1> QED
  BY <1>2, <1>3, <1>4, <1>5

\* A vote as the range checks let it pass, and for blocks.
VoteOk(st, att) ==
    /\ att.source \in Cp /\ att.source.root # ZeroRoot
    /\ att.target \in Cp /\ att.target.root # ZeroRoot
    /\ ST!AttestationInRange(st, att)

\* One iteration of process_attestations: the new checkpoints are those that
\* history confirms, a justified target lies above what is finalized, and a
\* source below it finalizes nothing, because the finalized slot is justifiable
\* after itself.
LEMMA ProcessFollows ==
    ASSUME NEW c, NEW st, NEW n \in Nat, NEW root, NEW h, BranchOk(c, h),
           Follows(c, st, n, root, h), NEW att, VoteOk(st, att)
    PROVE  Follows(c, ST!ProcessAttestation(st, att), n, root, h)
<1> DEFINE src == att.source
           tgt == att.target
           fin == st.latest_finalized
           hist == st.historical_block_hashes
<1>1. CASE ~ST!Acceptable(st, att)
  BY <1>1, Zenon DEF ST!ProcessAttestation
<1>2. CASE ST!ProcessAttestation(st, att) = ST!Tally(st, att)
  <2> DEFINE t == ST!Tally(st, att)
  <2>1. IsState(t) /\ \A f \in StateFields \ {"tally"} : t[f] = st[f]
    BY Zenon DEF Follows, ST!Tally, IsState, StateFields
  <2>2. /\ t.slot = st.slot /\ t.header = st.header
        /\ t.historical_block_hashes = hist /\ t.justified_slots = st.justified_slots
        /\ t.latest_justified = st.latest_justified /\ t.latest_finalized = fin
    BY <2>1, Zenon DEF StateFields
  <2> HIDE DEF t
  <2>3. Follows(c, t, n, root, h)
    BY <2>1, <2>2, Zenon DEF Follows
  <2> QED
    BY <1>2, <2>3, Zenon DEF t
<1>3. CASE ST!Acceptable(st, att) /\ ST!ProcessAttestation(st, att) = ST!Justify(st, att)
  <2> DEFINE t == ST!Justify(st, att)
  <2>1. /\ IsState(t) /\ t.slot = st.slot /\ t.header = st.header
        /\ t.historical_block_hashes = hist
        /\ t.justified_slots = st.justified_slots \cup {tgt.slot}
        /\ t.latest_justified = tgt
        /\ t.latest_finalized = IF ST!NoIntermediate(st, att) THEN src ELSE fin
    BY Zenon DEF Follows, ST!Justify, IsState, StateFields
  <2> HIDE DEF t
  <2>2. /\ src.slot \in 0 .. n - 1 /\ tgt.slot \in 0 .. n - 1
        /\ src \in Cp /\ tgt \in Cp /\ src.root # ZeroRoot /\ tgt.root # ZeroRoot
    BY Zenon DEF VoteOk, ST!AttestationInRange, ST!History, Follows
  <2>3. /\ src.slot \in st.justified_slots /\ tgt.slot \notin st.justified_slots
        /\ src.root = hist[src.slot] /\ tgt.root = hist[tgt.slot]
        /\ tgt.slot > src.slot /\ tgt.slot >= fin.slot
    BY <1>3, Zenon DEF ST!Acceptable, ST!IsJustifiableAfter
  <2>4. /\ src.root \in Ancestors(c, h) /\ c.blocks[src.root].slot = src.slot
        /\ tgt.root \in Ancestors(c, h) /\ c.blocks[tgt.root].slot = tgt.slot
    BY <2>2, <2>3, Zenon DEF Follows
  <2>5. src \in OnBranch(c, h) /\ tgt \in OnBranch(c, h)
    <3>1. src = Checkpoint(src.root, c.blocks[src.root].slot)
          /\ tgt = Checkpoint(tgt.root, c.blocks[tgt.root].slot)
      BY <2>2, <2>4, Zenon DEF Cp, Checkpoint
    <3> QED
      BY <2>4, <3>1, Zenon DEF OnBranch
  <2>6. fin \in Cp /\ fin.slot \in st.justified_slots /\ c.blocks[h].post.finalized.slot <= fin.slot
        /\ fin \in OnBranch(c, h)
    BY OnBranchBelow, Zenon DEF Follows
  <2>7. tgt.slot > fin.slot /\ fin.slot \in Nat /\ src.slot \in Nat /\ tgt.slot \in Nat
    BY <2>2, <2>3, <2>6 DEF Cp
  <2>8. ST!NoIntermediate(st, att) => src.slot >= fin.slot
    <3> SUFFICES ASSUME src.slot < fin.slot
                 PROVE  ~ST!NoIntermediate(st, att)
      BY <2>7
    <3>1. fin.slot \in src.slot + 1 .. tgt.slot - 1
      BY <2>7
    <3>2. ST!IsJustifiableAfter(fin.slot, fin.slot)
      BY <2>7 DEF ST!IsJustifiableAfter
    <3> QED
      BY <3>1, <3>2, Zenon DEF ST!NoIntermediate
  <2>9. c.blocks[h].post.finalized.slot \in Nat
    BY Zenon DEF BranchOk, TreeOk, BlockRecord, Tracked, Cp
  <2>10. /\ t.latest_finalized \in OnBranch(c, h)
         /\ t.latest_finalized.slot \in t.justified_slots
         /\ t.latest_finalized.slot < t.latest_justified.slot
         /\ c.blocks[h].post.finalized.slot <= t.latest_finalized.slot
    BY <2>1, <2>3, <2>5, <2>6, <2>7, <2>8, <2>9
  <2>11. Follows(c, t, n, root, h)
    BY <2>1, <2>5, <2>10, Zenon DEF Follows
  <2> QED
    BY <1>3, <2>11, Zenon DEF t
<1> QED
  BY <1>1, <1>2, <1>3, Zenon DEF ST!ProcessAttestation

\* st is the state of block h.
StateOf(c, st, h) ==
    /\ c.blocks[h].post = [justified |-> st.latest_justified, finalized |-> st.latest_finalized]
    /\ IF h = AnchorRoot THEN st = ST!GenesisState /\ c.blocks[h].slot = 0
       ELSE Follows(c, st, c.blocks[h].slot, h, c.blocks[h].parent_root)

\* The branch of a block is that of its parent and the block.
LEMMA BranchOfChild ==
    ASSUME NEW c, NEW h, BranchOk(c, h), h # AnchorRoot
    PROVE  LET p == c.blocks[h].parent_root
           IN  /\ BranchOk(c, p) /\ c.blocks[p].slot < c.blocks[h].slot
               /\ Ancestors(c, h) = {h} \cup Ancestors(c, p)
<1>1. LET p == c.blocks[h].parent_root
      IN  p \in Tracked(c) /\ c.blocks[p].slot < c.blocks[h].slot
  BY Zenon DEF BranchOk, TreeOk, Tracked
<1>2. h \in Tracked(c)
  BY Zenon DEF BranchOk
<1> QED
  BY <1>1, <1>2, AncestorsEquation, Zenon DEF BranchOk

\* The header of a block on top of h: history grows by h and by zeros for the
\* empty slots, and a block on the anchor puts the anchor into both checkpoints.
LEMMA HeaderFollows ==
    ASSUME NEW c, NEW h, BranchOk(c, h), NEW st, StateOf(c, st, h),
           NEW b, b.slot \in Nat, b.slot > c.blocks[h].slot, b.parent_root = h
    PROVE  Follows(c, CandidateHeader(st, b), b.slot, b.root, h)
<1> DEFINE m == c.blocks[h].slot
           u == ST!ProcessSlots(st, b.slot)
           t == CandidateHeader(st, b)
           hist == [i \in 0 .. b.slot - 1 |->
                       IF i < m THEN st.historical_block_hashes[i] ELSE IF i = m THEN h ELSE ZeroRoot]
<1>1. m \in Nat /\ h \in Ancestors(c, h)
  BY AncestorsBelow, Zenon DEF BranchOk, TreeOk, BlockRecord, Tracked
<1>2. CASE h = AnchorRoot
  <2>1. st = ST!GenesisState /\ m = 0
    BY <1>2, Zenon DEF StateOf
  <2>2. /\ IsState(u) /\ u.slot = b.slot /\ u.header = [slot |-> 0, root |-> AnchorRoot, sealed |-> TRUE]
        /\ u.latest_justified = ST!Zero /\ u.latest_finalized = ST!Zero
        /\ u.justified_slots = {}
    BY <2>1, Zenon DEF ST!GenesisState, ST!ProcessSlots, IsState, StateFields
  <2> HIDE DEF u
  <2>3. /\ IsState(t) /\ t.slot = b.slot
        /\ t.header = [slot |-> b.slot, root |-> b.root, sealed |-> FALSE]
        /\ t.latest_justified = Checkpoint(h, 0) /\ t.latest_finalized = Checkpoint(h, 0)
        /\ t.justified_slots = {0}
        /\ t.historical_block_hashes = [i \in 0 .. b.slot - 1 |-> IF i = 0 THEN h ELSE ZeroRoot]
    <3>1. t = ST!ProcessBlockHeader(u, b)
      BY Zenon DEF CandidateHeader, u
    <3>2. [ST!Zero EXCEPT !.root = h] = Checkpoint(h, 0)
      BY DEF ST!Zero, Checkpoint
    <3>3. [i \in 0 .. b.slot - 1 |->
              IF i < 0 THEN u.historical_block_hashes[i] ELSE IF i = 0 THEN h ELSE ZeroRoot]
          = [i \in 0 .. b.slot - 1 |-> IF i = 0 THEN h ELSE ZeroRoot]
      OBVIOUS
    <3> HIDE DEF t
    <3>4. t = [u EXCEPT
                 !.latest_justified = Checkpoint(h, 0),
                 !.latest_finalized = Checkpoint(h, 0),
                 !.historical_block_hashes = [i \in 0 .. b.slot - 1 |-> IF i = 0 THEN h ELSE ZeroRoot],
                 !.justified_slots = {} \cup {0},
                 !.header = [slot |-> b.slot, root |-> b.root, sealed |-> FALSE]]
      <4>1. u.header.slot = 0 /\ (u.header.slot = 0) = TRUE
        BY <2>2
      <4>2. t = [u EXCEPT
                 !.latest_justified = [u.latest_justified EXCEPT !.root = h],
                 !.latest_finalized = [u.latest_finalized EXCEPT !.root = h],
                 !.historical_block_hashes = [i \in 0 .. b.slot - 1 |->
                     IF i < 0 THEN u.historical_block_hashes[i] ELSE IF i = 0 THEN h ELSE ZeroRoot],
                 !.justified_slots = u.justified_slots \cup {0},
                 !.header = [slot |-> b.slot, root |-> b.root, sealed |-> FALSE]]
        BY <3>1, <4>1, Zenon DEF ST!ProcessBlockHeader
      <4> QED
        BY <2>2, <3>2, <3>3, <4>2, Zenon
    <3> QED
      BY <2>2, <3>4, Zenon DEF IsState, StateFields
  <2> HIDE DEF t
  <2>4. Checkpoint(h, 0) \in OnBranch(c, h) /\ Checkpoint(h, 0).slot = 0
    BY <1>1, <2>1, Zenon DEF OnBranch, Checkpoint
  <2>5. \A k \in 0 .. b.slot - 1 :
           LET q == t.historical_block_hashes[k]
           IN  q = ZeroRoot \/ (q \in Ancestors(c, h) /\ c.blocks[q].slot = k)
    BY <1>1, <2>1, <2>3
  <2>6. c.blocks[h].post.finalized.slot = 0
    BY <2>1 DEF StateOf, ST!GenesisState, ST!Zero
  <2>7. Follows(c, t, b.slot, b.root, h)
    <3>1. DOMAIN t.historical_block_hashes = 0 .. b.slot - 1
      BY <2>3, Zenon
    <3>2. t.latest_finalized.slot = 0 /\ t.latest_justified.slot = 0
      BY <2>3, <2>4, Zenon
    <3>3. t.latest_finalized.slot \in t.justified_slots
      BY <2>3, <3>2, Zenon
    <3>4. c.blocks[h].post.finalized.slot <= t.latest_finalized.slot
      BY <2>6, <3>2
    <3> QED
      BY <2>3, <2>4, <2>5, <3>1, <3>2, <3>3, <3>4, Zenon DEF Follows
  <2> QED
    BY <2>7, Zenon DEF t
<1>3. CASE h # AnchorRoot
  <2> DEFINE p == c.blocks[h].parent_root
  <2>1. BranchOk(c, p) /\ c.blocks[p].slot < m /\ Ancestors(c, h) = {h} \cup Ancestors(c, p)
    BY <1>3, BranchOfChild, Zenon
  <2>2. Follows(c, st, m, h, p)
    BY <1>3, Zenon DEF StateOf
  <2>3. m > 0
    BY <1>1, <2>1 DEF BranchOk, TreeOk, BlockRecord, Tracked
  <2>4. /\ IsState(u) /\ u.slot = b.slot /\ u.header.slot = m
        /\ \A f \in StateFields \ {"slot", "header"} : u[f] = st[f]
    <3>1. IsState(st) /\ st.header = [slot |-> m, root |-> h, sealed |-> FALSE]
      BY <2>2, Zenon DEF Follows
    <3> DEFINE header == [st.header EXCEPT !.sealed = TRUE]
    <3>2. u = [st EXCEPT !.slot = b.slot, !.header = header]
      BY <3>1, Zenon DEF ST!ProcessSlots
    <3>3. header.slot = m
      BY <3>1
    <3> HIDE DEF header
    <3> HIDE DEF u
    <3> QED
      BY <3>1, <3>2, <3>3, Zenon DEF IsState, StateFields
  <2>5. /\ u.latest_justified = st.latest_justified /\ u.latest_finalized = st.latest_finalized
        /\ u.historical_block_hashes = st.historical_block_hashes
        /\ u.justified_slots = st.justified_slots
    BY <2>4, Zenon DEF StateFields
  <2> HIDE DEF u
  <2>6. /\ IsState(t) /\ t.slot = b.slot
        /\ t.header = [slot |-> b.slot, root |-> b.root, sealed |-> FALSE]
        /\ t.latest_justified = st.latest_justified /\ t.latest_finalized = st.latest_finalized
        /\ t.justified_slots = st.justified_slots
        /\ t.historical_block_hashes = hist
    <3>1. t = ST!ProcessBlockHeader(u, b)
      BY DEF CandidateHeader, u
    <3>2. u.header.slot = m /\ m # 0
      BY <2>3, <2>4
    <3> HIDE DEF t
    <3> QED
      BY <2>4, <2>5, <3>1, <3>2, Zenon DEF ST!ProcessBlockHeader, IsState, StateFields
  <2> HIDE DEF t
  <2>7. OnBranch(c, p) \subseteq OnBranch(c, h)
    BY <2>1, Zenon DEF OnBranch
  <2>8. \A k \in 0 .. b.slot - 1 :
           LET q == t.historical_block_hashes[k]
           IN  q = ZeroRoot \/ (q \in Ancestors(c, h) /\ c.blocks[q].slot = k)
    <3> SUFFICES ASSUME NEW k \in 0 .. b.slot - 1
                 PROVE  hist[k] = ZeroRoot \/ (hist[k] \in Ancestors(c, h) /\ c.blocks[hist[k]].slot = k)
      BY <2>6, Zenon
    <3>1. CASE k < m
      <4>1. k \in 0 .. m - 1 /\ hist[k] = st.historical_block_hashes[k]
        BY <1>1, <3>1
      <4> HIDE DEF hist
      <4> QED
        BY <2>1, <2>2, <4>1, Zenon DEF Follows
    <3>2. CASE k = m
      BY <1>1, <3>2
    <3>3. CASE k > m
      BY <1>1, <3>3
    <3> QED
      BY <1>1, <3>1, <3>2, <3>3, Zenon
  <2>9. c.blocks[h].post.finalized.slot = st.latest_finalized.slot
    BY DEF StateOf
  <2>10. st.latest_finalized.slot \in Nat
    BY <2>1, <2>2, OnBranchBelow DEF Follows, Cp
  <2>11. DOMAIN t.historical_block_hashes = 0 .. b.slot - 1
    BY <2>6, Zenon
  <2> HIDE DEF hist
  <2>12. Follows(c, t, b.slot, b.root, h)
    BY <2>2, <2>6, <2>7, <2>8, <2>9, <2>10, <2>11 DEF Follows
  <2> QED
    BY <2>12 DEF t
<1> QED
  BY <1>2, <1>3, Zenon
-----------------------------------------------------------------------------
(* The votes of a candidate *)

\* f gives the state after each of the first n votes.
AppliesTo(f, st, atts, n) ==
    f = [k \in 0 .. n |->
            IF k = 0 THEN st ELSE ST!ProcessAttestation(f[k - 1], OnChainVote(atts[k]))]

\* Apply is the end of such a run.
LEMMA ApplyRun ==
    ASSUME NEW st, NEW atts, Len(atts) \in Nat
    PROVE  \E f : AppliesTo(f, st, atts, Len(atts)) /\ Apply(st, atts) = f[Len(atts)]
<1> DEFINE len == Len(atts)
           S == {n \in 0 .. len : \E f : AppliesTo(f, st, atts, n)}
<1>1. 0 \in S
  <2> DEFINE f == [k \in 0 .. 0 |-> st]
  <2>1. AppliesTo(f, st, atts, 0)
    BY DEF AppliesTo
  <2> HIDE DEF f
  <2> QED
    BY <2>1
<1>2. ASSUME NEW n \in 0 .. len - 1, n \in S
      PROVE  n + 1 \in S
  <2>1. PICK f : AppliesTo(f, st, atts, n)
    BY <1>2, Zenon
  <2> DEFINE Step(g, k) == ST!ProcessAttestation(g[k - 1], OnChainVote(atts[k]))
             g == [k \in 0 .. n + 1 |-> IF k <= n THEN f[k] ELSE Step(f, n + 1)]
  <2>2. f = [k \in 0 .. n |-> IF k = 0 THEN st ELSE Step(f, k)]
    BY <2>1, Zenon DEF AppliesTo
  <2>3. ASSUME NEW k \in 0 .. n + 1
        PROVE  g[k] = IF k = 0 THEN st ELSE Step(g, k)
    <3>1. CASE k = 0
      BY <2>2, <3>1
    <3>2. CASE k # 0 /\ k <= n
      <4>1. k \in 0 .. n /\ k - 1 \in 0 .. n + 1 /\ k - 1 <= n
        BY <3>2
      <4>2. f[k] = Step(f, k)
        BY <2>2, <3>2, <4>1, Zenon
      <4>3. g[k] = f[k] /\ g[k - 1] = f[k - 1]
        BY <3>2, <4>1, Zenon
      <4> HIDE DEF g
      <4> QED
        BY <3>2, <4>2, <4>3, Zenon
    <3>3. CASE k = n + 1
      <4>1. k # 0 /\ ~(k <= n) /\ k - 1 = n /\ n \in 0 .. n + 1 /\ n <= n
        BY <3>3
      <4>2. g[k] = Step(f, n + 1) /\ g[k - 1] = f[k - 1]
        BY <4>1, Zenon
      <4> HIDE DEF g
      <4> QED
        BY <3>3, <4>1, <4>2, Zenon
    <3> QED
      BY <3>1, <3>2, <3>3
  <2>4. AppliesTo(g, st, atts, n + 1)
    BY <2>3, Zenon DEF AppliesTo
  <2> HIDE DEF g
  <2> QED
    BY <1>2, <2>4
<1> HIDE DEF S
<1>3. 0 .. len \subseteq S /\ len \in 0 .. len
  <2>1. len \in Nat /\ len \in 0 .. len
    OBVIOUS
  <2> QED
    BY <1>1, <1>2, <2>1, UpTo, Zenon
<1>4. \E f : AppliesTo(f, st, atts, len)
  BY <1>3, Zenon DEF S
<1> DEFINE after == CHOOSE f : AppliesTo(f, st, atts, len)
<1>5. AppliesTo(after, st, atts, len)
  BY <1>4, Zenon
<1>6. Apply(st, atts) = after[len]
  BY Zenon DEF Apply, AppliesTo
<1> HIDE DEF after
<1> QED
  BY <1>5, <1>6, Zenon

\* The votes that collect_includable_votes may collect from the known votes of
\* s for a block of slot n.
Collectable(s, n) ==
    {att \in {Attestation(v, s.known_votes[v]) : v \in Validators} :
        /\ att.data \in Vote
        /\ att.data.target.root \in Tracked(s)
        /\ att.data.target.slot = s.blocks[att.data.target.root].slot
        /\ att.data.source.root # ZeroRoot
        /\ att.data.source.slot < n}

\* The body of a block keeps its post-state on the branch.
LEMMA ApplyFollows ==
    ASSUME NEW c, NEW st, NEW n \in Nat, NEW root, NEW h, BranchOk(c, h),
           Follows(c, st, n, root, h), NEW s, ZeroRoot \notin Tracked(s),
           NEW atts \in Seq(Collectable(s, n)), InRange(st, atts)
    PROVE  Follows(c, Apply(st, atts), n, root, h)
<1>1. Len(atts) \in Nat /\ DOMAIN atts = 1 .. Len(atts)
      /\ \A k \in 1 .. Len(atts) : atts[k] \in Collectable(s, n)
  OBVIOUS
<1>2. PICK f : AppliesTo(f, st, atts, Len(atts)) /\ Apply(st, atts) = f[Len(atts)]
  BY <1>1, ApplyRun, Zenon
<1> DEFINE S == {k \in 0 .. Len(atts) : Follows(c, f[k], n, root, h)}
<1>3. 0 \in S
  BY <1>1, <1>2 DEF AppliesTo
<1>4. ASSUME NEW k \in 0 .. Len(atts) - 1, k \in S
      PROVE  k + 1 \in S
  <2> DEFINE att == OnChainVote(atts[k + 1])
  <2>1. k + 1 \in 1 .. Len(atts) /\ k + 1 \in 0 .. Len(atts) /\ (k + 1) - 1 = k /\ k + 1 # 0
    BY <1>1
  <2>2. f[k + 1] = ST!ProcessAttestation(f[k], att)
    BY <1>2, <2>1, Zenon DEF AppliesTo
  <2>3. atts[k + 1].data \in Vote /\ atts[k + 1].data.target.root # ZeroRoot
        /\ atts[k + 1].data.source.root # ZeroRoot
    BY <1>1, <2>1, Zenon DEF Collectable
  <2>4. att.source = atts[k + 1].data.source /\ att.target = atts[k + 1].data.target
    BY Zenon DEF OnChainVote
  <2>5. ST!AttestationInRange(st, att)
    BY <1>1, <2>1, Zenon DEF InRange
  <2>6. DOMAIN f[k].historical_block_hashes = DOMAIN st.historical_block_hashes
    BY <1>4, Zenon DEF Follows
  <2> HIDE DEF att
  <2>7. VoteOk(f[k], att)
    BY <2>3, <2>4, <2>5, <2>6, Zenon DEF VoteOk, ST!AttestationInRange, ST!History, Vote
  <2>8. Follows(c, f[k + 1], n, root, h)
    BY <1>4, <2>2, <2>7, ProcessFollows, Zenon
  <2> QED
    BY <2>1, <2>8, Zenon
<1> HIDE DEF S
<1>5. 0 .. Len(atts) \subseteq S /\ Len(atts) \in 0 .. Len(atts)
  BY <1>1, <1>3, <1>4, UpTo
<1> QED
  BY <1>2, <1>5, Zenon DEF S

\* A round adds votes that can be collected: their source is the justified
\* checkpoint of a post-state on the branch.
LEMMA ExtendCollects ==
    ASSUME NEW c, NEW st, NEW n \in Nat, NEW root, NEW h, BranchOk(c, h), c.blocks[h].slot < n,
           Follows(c, st, n, root, h), NEW s, ZeroRoot \notin Tracked(s), VotesOk(s),
           NEW atts \in Seq(Collectable(s, n))
    PROVE  Extend(s, st, atts) \subseteq Seq(Collectable(s, n))
<1>1. CASE ~InRange(st, atts)
  BY <1>1, Zenon DEF Extend
<1>2. CASE InRange(st, atts)
  <2> DEFINE post == Apply(st, atts)
             votes == Includable(s, post, atts)
  <2>1. Follows(c, post, n, root, h)
    BY <1>2, ApplyFollows, Zenon
  <2> HIDE DEF post
  <2>2. /\ post.latest_justified \in Cp /\ post.latest_justified.root # ZeroRoot
        /\ post.latest_justified.slot <= c.blocks[h].slot
    BY <2>1, OnBranchBelow DEF Follows
  <2>3. post.latest_justified.slot < n
    <3>1. c.blocks[h].slot \in Nat /\ post.latest_justified.slot \in Nat
      BY <2>2, Zenon DEF BranchOk, TreeOk, BlockRecord, Tracked, Cp
    <3> QED
      BY <2>2, <3>1
  <2>4. votes \subseteq Collectable(s, n)
    <3> SUFFICES ASSUME NEW att \in votes
                 PROVE  att \in Collectable(s, n)
      BY Zenon
    <3>1. PICK v \in Validators : att = Attestation(v, s.known_votes[v])
      BY Zenon DEF Includable
    <3>2. att.data = s.known_votes[v] /\ att.data # NoVote
      BY <3>1, Zenon DEF Includable, Attestation
    <3>3. att.data \in Vote /\ att.data.target.root \in Tracked(s)
          /\ att.data.target.slot = s.blocks[att.data.target.root].slot
      BY <3>2, Zenon DEF VotesOk, Pool, VotesTracked
    <3>4. att.data.source = post.latest_justified
      BY Zenon DEF Includable
    <3> QED
      BY <2>2, <2>3, <3>1, <3>3, <3>4, Zenon DEF Collectable
  <2>5. Cardinality(votes) \in Nat
    <3> DEFINE known == {Attestation(v, s.known_votes[v]) : v \in Validators}
    <3>1. IsFiniteSet(known)
      <4> DEFINE f == [v \in Validators |-> Attestation(v, s.known_votes[v])]
      <4>1. f \in Surjection(Validators, known)
        BY Zenon DEF Surjection
      <4> QED
        BY <4>1, ValidatorsFinite, FS_Surjection, Zenon
    <3>2. votes \subseteq known
      BY Zenon DEF Includable
    <3> HIDE DEF known, votes
    <3> QED
      BY <3>1, <3>2, FS_Subset, FS_CardinalityType, Zenon
  <2> HIDE DEF votes
  <2>6. ASSUME NEW more \in MapOrders(votes)
        PROVE  atts \o more \in Seq(Collectable(s, n))
    <3>1. more \in [1 .. Cardinality(votes) -> votes]
      BY Zenon DEF MapOrders
    <3>2. more \in Seq(Collectable(s, n))
      BY <2>4, <2>5, <3>1
    <3> QED
      BY <3>2
  <2>7. Extend(s, st, atts) = {atts \o more : more \in MapOrders(votes)}
    BY <1>2, Zenon DEF Extend, votes, post
  <2> QED
    BY <2>6, <2>7, Zenon
<1> QED
  BY <1>1, <1>2, Zenon

\* f gives the candidates' votes after each of the first n rounds.
RoundsTo(f, s, st, n) ==
    f = [k \in 0 .. n |->
            IF k = 0 THEN {<<>>} ELSE UNION {Extend(s, st, atts) : atts \in f[k - 1]}]

\* Converge is the end of such a run.
LEMMA ConvergeRun ==
    ASSUME NEW s, NEW st
    PROVE  \E f : RoundsTo(f, s, st, NumValidators) /\ Converge(s, st) = f[NumValidators]
<1> DEFINE len == NumValidators
           S == {n \in 0 .. len : \E f : RoundsTo(f, s, st, n)}
<1>0. len \in Nat
  BY ForkChoiceAssumption, Zenon
<1>1. 0 \in S
  <2> DEFINE f == [k \in 0 .. 0 |-> {<<>>}]
  <2>1. RoundsTo(f, s, st, 0)
    BY DEF RoundsTo
  <2> HIDE DEF f
  <2> QED
    BY <1>0, <2>1
<1>2. ASSUME NEW n \in 0 .. len - 1, n \in S
      PROVE  n + 1 \in S
  <2>1. PICK f : RoundsTo(f, s, st, n)
    BY <1>2, Zenon
  <2> DEFINE Step(g, k) == UNION {Extend(s, st, atts) : atts \in g[k - 1]}
             g == [k \in 0 .. n + 1 |-> IF k <= n THEN f[k] ELSE Step(f, n + 1)]
  <2>2. f = [k \in 0 .. n |-> IF k = 0 THEN {<<>>} ELSE Step(f, k)]
    BY <2>1, Zenon DEF RoundsTo
  <2>3. ASSUME NEW k \in 0 .. n + 1
        PROVE  g[k] = IF k = 0 THEN {<<>>} ELSE Step(g, k)
    <3>1. CASE k = 0
      BY <2>2, <3>1
    <3>2. CASE k # 0 /\ k <= n
      <4>1. k \in 0 .. n /\ k - 1 \in 0 .. n + 1 /\ k - 1 <= n
        BY <3>2
      <4>2. f[k] = Step(f, k)
        BY <2>2, <3>2, <4>1, Zenon
      <4>3. g[k] = f[k] /\ g[k - 1] = f[k - 1]
        BY <3>2, <4>1, Zenon
      <4> HIDE DEF g
      <4> QED
        BY <3>2, <4>2, <4>3, Zenon
    <3>3. CASE k = n + 1
      <4>1. k # 0 /\ ~(k <= n) /\ k - 1 = n /\ n \in 0 .. n + 1 /\ n <= n
        BY <3>3
      <4>2. g[k] = Step(f, n + 1) /\ g[k - 1] = f[k - 1]
        BY <4>1, Zenon
      <4> HIDE DEF g
      <4> QED
        BY <3>3, <4>1, <4>2, Zenon
    <3> QED
      BY <3>1, <3>2, <3>3
  <2>4. RoundsTo(g, s, st, n + 1)
    BY <2>3, Zenon DEF RoundsTo
  <2> HIDE DEF g
  <2> QED
    BY <1>0, <1>2, <2>4
<1> HIDE DEF S
<1>3. 0 .. len \subseteq S /\ len \in 0 .. len
  BY <1>0, <1>1, <1>2, UpTo
<1>4. \E f : RoundsTo(f, s, st, len)
  BY <1>3, Zenon DEF S
<1> DEFINE rounds == CHOOSE f : RoundsTo(f, s, st, len)
<1>5. RoundsTo(rounds, s, st, len)
  BY <1>4, Zenon
<1>6. Converge(s, st) = rounds[len]
  BY Zenon DEF Converge, RoundsTo
<1> HIDE DEF rounds
<1> QED
  BY <1>5, <1>6, Zenon

\* What converge_attestations returns can all be collected.
LEMMA ConvergeCollects ==
    ASSUME NEW c, NEW st, NEW n \in Nat, NEW root, NEW h, BranchOk(c, h), c.blocks[h].slot < n,
           Follows(c, st, n, root, h), NEW s, ZeroRoot \notin Tracked(s), VotesOk(s)
    PROVE  Converge(s, st) \subseteq Seq(Collectable(s, n))
<1>1. PICK f : RoundsTo(f, s, st, NumValidators) /\ Converge(s, st) = f[NumValidators]
  BY ConvergeRun, Zenon
<1>2. NumValidators \in Nat
  BY ForkChoiceAssumption, Zenon
<1> DEFINE S == {k \in 0 .. NumValidators : f[k] \subseteq Seq(Collectable(s, n))}
<1>3. 0 \in S
  <2>1. f[0] = {<<>>}
    BY <1>1, <1>2 DEF RoundsTo
  <2>2. <<>> \in Seq(Collectable(s, n))
    OBVIOUS
  <2>3. 0 \in 0 .. NumValidators
    BY <1>2
  <2> QED
    BY <2>1, <2>2, <2>3, Zenon
<1>4. ASSUME NEW k \in 0 .. NumValidators - 1, k \in S
      PROVE  k + 1 \in S
  <2>1. k + 1 \in 0 .. NumValidators /\ (k + 1) - 1 = k /\ k + 1 # 0
    BY <1>2
  <2>2. f[k + 1] = UNION {Extend(s, st, atts) : atts \in f[k]}
    BY <1>1, <2>1, Zenon DEF RoundsTo
  <2>3. \A atts \in f[k] : Extend(s, st, atts) \subseteq Seq(Collectable(s, n))
    BY <1>4, ExtendCollects, Zenon
  <2> QED
    BY <2>1, <2>2, <2>3, Zenon
<1> HIDE DEF S
<1>5. 0 .. NumValidators \subseteq S /\ NumValidators \in 0 .. NumValidators
  BY <1>2, <1>3, <1>4, UpTo
<1> QED
  BY <1>1, <1>5, Zenon DEF S

\* Production on the head of s: the body holds votes; unless a vote is out of
\* range the post-state is one of the head's branch; and none is, if no block
\* of s is above the new one.
LEMMA OutcomeOk ==
    ASSUME NEW c, NEW s, BranchOk(c, s.head), StateOf(c, ledger[s.head].state, s.head),
           ZeroRoot \notin Tracked(s), VotesOk(s),
           NEW b, b.slot \in Nat, b.slot > c.blocks[s.head].slot, b.parent_root = s.head,
           NEW o \in Outcomes(s, b)
    PROVE  /\ o.body \in Pool
           /\ o.in_range => Follows(c, o.post, b.slot, b.root, s.head)
           /\ (\A r \in Tracked(s) : s.blocks[r].slot < b.slot) => o.in_range
<1> DEFINE st == CandidateHeader(ledger[s.head].state, b)
           n == b.slot
<1>1. Follows(c, st, n, b.root, s.head)
  BY HeaderFollows, Zenon
<1>2. PICK atts \in Converge(s, st) :
          o = [in_range |-> InRange(st, atts), body |-> Body(atts), post |-> Apply(st, atts)]
  BY Zenon DEF Outcomes
<1> HIDE DEF st
<1>3. c.blocks[s.head].slot < n
  BY Zenon DEF BranchOk, TreeOk, BlockRecord, Tracked
<1>4. atts \in Seq(Collectable(s, n))
  BY <1>1, <1>2, <1>3, ConvergeCollects, Zenon
<1>5. /\ o.in_range = InRange(st, atts) /\ o.body = Body(atts) /\ o.post = Apply(st, atts)
  BY <1>2, Zenon
<1>6. Len(atts) \in Nat /\ DOMAIN atts = 1 .. Len(atts)
      /\ \A k \in DOMAIN atts : atts[k] \in Collectable(s, n)
  BY <1>4
<1>7. Body(atts) \in Pool
  <2>1. ASSUME NEW v \in Validators, \E k \in DOMAIN atts : atts[k].validator_id = v
        PROVE  atts[CHOOSE k \in DOMAIN atts : atts[k].validator_id = v].data \in Vote
    <3>1. (CHOOSE k \in DOMAIN atts : atts[k].validator_id = v) \in DOMAIN atts
      BY <2>1, Zenon
    <3> QED
      BY <1>6, <3>1, Zenon DEF Collectable
  <2> QED
    BY <2>1, Zenon DEF Body, Pool
<1>8. InRange(st, atts) => Follows(c, Apply(st, atts), n, b.root, s.head)
  BY <1>1, <1>4, ApplyFollows, Zenon
<1>9. ASSUME \A r \in Tracked(s) : s.blocks[r].slot < n
      PROVE  InRange(st, atts)
  <2> SUFFICES ASSUME NEW k \in DOMAIN atts
               PROVE  ST!AttestationInRange(st, OnChainVote(atts[k]))
    BY Zenon DEF InRange
  <2> DEFINE att == atts[k]
  <2>1. PICK v \in Validators : att = Attestation(v, s.known_votes[v])
    BY <1>6, Zenon DEF Collectable
  <2>2. /\ att.data.target.slot < n /\ att.data.source.slot < n
        /\ att.data.target.slot \in Nat /\ att.data.source.slot \in Nat
    BY <1>6, <1>9, Zenon DEF Collectable, Vote, Cp
  <2>3. att.validator_id = v
    BY <2>1 DEF Attestation
  <2> HIDE DEF att
  <2>4. /\ OnChainVote(att).source = att.data.source /\ OnChainVote(att).target = att.data.target
        /\ OnChainVote(att).validator_id = v
    BY <2>3, Zenon DEF OnChainVote
  <2>5. ST!History(st) = 0 .. n - 1
    BY <1>1, Zenon DEF Follows, ST!History
  <2>6. v \in ST!Validators
    BY Zenon DEF Validators, ST!Validators
  <2> QED
    BY <2>2, <2>4, <2>5, <2>6 DEF ST!AttestationInRange, att
<1> QED
  BY <1>5, <1>7, <1>8, <1>9, Zenon
-----------------------------------------------------------------------------
(* A node *)

\* The blocks of s are blocks of c.
Within(c, s) == \A r \in Tracked(s) : r \in Tracked(c) /\ s.blocks[r] = c.blocks[r]

\* The invariant of a node's store, at tick tm of its loop.
Node(c, s, tm) == Ready(s) /\ HeadOk(s) /\ Ordered(s) /\ Within(c, s) /\ s.time = tm

\* What ForkChoice says of a post-state is what the state transition gives:
\* the branch of a block is the same in a store as in the whole chain.
LEMMA PostFits ==
    ASSUME NEW c, NEW s, TreeOk(c.blocks, AnchorRoot), ZeroRoot \notin Tracked(c),
           TreeOk(s.blocks, AnchorRoot), Within(c, s), NEW b, b.parent_root \in Tracked(s),
           NEW st, Follows(c, st, b.slot, b.root, b.parent_root)
    PROVE  LET post == [justified |-> st.latest_justified, finalized |-> st.latest_finalized]
           IN  post \in PostStates(s, b) /\ post.justified.root \in Tracked(s)
<1> DEFINE h == b.parent_root
           j == st.latest_justified
           f == st.latest_finalized
           post == [justified |-> j, finalized |-> f]
<1>1. h \in Tracked(c) /\ s.blocks[h] = c.blocks[h]
  BY Zenon DEF Within
<1>2. Ancestors(c, h) = Ancestors(s, h)
  BY <1>1, AncestorsStable, Zenon DEF Within
<1>3. BranchOk(c, h)
  BY <1>1, Zenon DEF BranchOk
<1>4. Ancestors(s, h) \subseteq Tracked(s)
  BY <1>1, AncestorsBelow, Zenon
<1>5. ASSUME NEW cp \in OnBranch(c, h)
      PROVE  cp \in Branch(s, b) /\ cp.root \in Tracked(s) /\ cp.slot \in Nat
  <2>1. PICK q \in Ancestors(c, h) : cp = Checkpoint(q, c.blocks[q].slot)
    BY <1>5, Zenon DEF OnBranch
  <2>2. q \in Ancestors(s, h) /\ q \in Tracked(s) /\ c.blocks[q] = s.blocks[q]
    BY <1>2, <1>4, <2>1, Zenon DEF Within
  <2>3. cp.root = q /\ cp.slot \in Nat
    BY <1>3, <2>1, OnBranchBelow DEF Checkpoint, Cp
  <2> QED
    BY <2>1, <2>2, <2>3, Zenon DEF Branch
<1>6. /\ j \in Branch(s, b) /\ j.root \in Tracked(s) /\ j.slot \in Nat
      /\ f \in Branch(s, b) /\ f.slot \in Nat
  BY <1>5, Zenon DEF Follows
<1>7. /\ f.slot <= j.slot
      /\ f.slot = j.slot => f.slot = 0
      /\ f.slot >= s.blocks[h].post.finalized.slot
  <2>1. s.blocks[h].post.finalized.slot \in Nat
    BY <1>1, Zenon DEF TreeOk, BlockRecord, Tracked, Cp
  <2>2. \/ f.slot < j.slot
        \/ f.slot = 0 /\ j.slot = 0
    BY Zenon DEF Follows
  <2>3. s.blocks[h].post.finalized.slot <= f.slot
    BY <1>1, Zenon DEF Follows
  <2> QED
    BY <1>6, <2>1, <2>2, <2>3
<1>8. post \in [justified: Branch(s, b), finalized: Branch(s, b)]
      /\ post.justified = j /\ post.finalized = f
  BY <1>6, Zenon
<1> HIDE DEF post
<1>9. post \in PostStates(s, b)
  BY <1>7, <1>8, Zenon DEF PostStates
<1> QED
  BY <1>6, <1>8, <1>9, Zenon DEF post
-----------------------------------------------------------------------------
(* Import *)

\* The blocks produced form a tree, and the state kept for each is its state.
ChainOk ==
    /\ TreeOk(Chain.blocks, AnchorRoot)
    /\ {ZeroRoot, PrunedRoot} \cap DOMAIN ledger = {}
    /\ ledger[AnchorRoot].parent_root = ZeroRoot
    /\ \A r \in DOMAIN ledger : StateOf(Chain, ledger[r].state, r) /\ ledger[r].body \in Pool

\* The chain as a store: what the ledger keeps of each block.
LEMMA ChainFields ==
    /\ Tracked(Chain) = DOMAIN ledger
    /\ \A r \in DOMAIN ledger :
          /\ Chain.blocks[r] =
                [slot |-> ledger[r].slot, parent_root |-> ledger[r].parent_root, post |-> Post(r)]
          /\ Chain.blocks[r].slot = ledger[r].slot
          /\ Chain.blocks[r].parent_root = ledger[r].parent_root
          /\ Chain.blocks[r].post = Post(r)
BY Zenon DEF Chain, Tracked

\* A block that is imported is one that extends the store by a post-state that
\* ForkChoice allows.
LEMMA ImportBlockNode ==
    ASSUME ChainOk, NEW s, NEW tm, Node(Chain, s, tm), NEW r \in DOMAIN ledger
    PROVE  LET t == ImportBlock(s, r)
           IN  /\ Node(Chain, t, tm)
               /\ Tracked(s) \subseteq Tracked(t)
               /\ ledger[r].parent_root \in Tracked(s) => Tracked(t) = Tracked(s) \cup {r}
<1> DEFINE b == [root |-> r, slot |-> ledger[r].slot, parent_root |-> ledger[r].parent_root]
           st == ledger[r].state
<1>1. CASE r \in Tracked(s) \/ ledger[r].parent_root \notin Tracked(s)
  <2>1. ImportBlock(s, r) = s
    BY <1>1, Zenon DEF ImportBlock
  <2> QED
    BY <1>1, <2>1, Zenon
<1>2. CASE ~(r \in Tracked(s) \/ ledger[r].parent_root \notin Tracked(s))
  <2> DEFINE t == Import(s, b, Post(r), ledger[r].body)
  <2>1. ImportBlock(s, r) = t
    BY <1>2, Zenon DEF ImportBlock
  <2>2. /\ Sound(s) /\ Ready(s) /\ Ordered(s) /\ Within(Chain, s) /\ s.time = tm
        /\ AnchorRoot \in Tracked(s)
    BY Zenon DEF Node, Ready, Sound, TreeOk, Tracked
  <2>3. /\ TreeOk(Chain.blocks, AnchorRoot) /\ ZeroRoot \notin Tracked(Chain)
        /\ r # ZeroRoot /\ r # PrunedRoot /\ r # AnchorRoot
        /\ StateOf(Chain, st, r) /\ ledger[r].body \in Pool
    BY <1>2, <2>2, ChainFields, Zenon DEF ChainOk
  <2>4. b.root = r /\ b.slot = ledger[r].slot /\ b.parent_root = ledger[r].parent_root
    BY Zenon
  <2>5. /\ Post(r) = [justified |-> st.latest_justified, finalized |-> st.latest_finalized]
        /\ Follows(Chain, st, b.slot, b.root, b.parent_root)
    BY <2>3, <2>4, ChainFields, Zenon DEF StateOf, Post
  <2>6. b.root \in Nat /\ b.slot \in Nat /\ b.parent_root \in Nat
        /\ b.parent_root \in Tracked(s) /\ b.slot > s.blocks[b.parent_root].slot
    <3>1. Chain.blocks[r] \in BlockRecord /\ r \in Nat
          /\ Chain.blocks[Chain.blocks[r].parent_root].slot < Chain.blocks[r].slot
      BY <2>3, ChainFields, Zenon DEF TreeOk, Tracked
    <3>2. s.blocks[b.parent_root] = Chain.blocks[b.parent_root]
          /\ Chain.blocks[b.parent_root] \in BlockRecord
      BY <1>2, <2>2, <2>3, <2>4, Zenon DEF Within, TreeOk, Tracked
    <3> QED
      BY <1>2, <2>4, <3>1, <3>2, ChainFields, Zenon DEF BlockRecord
  <2> HIDE DEF b, st
  <2>7. Post(r) \in PostStates(s, b) /\ Post(r).justified.root \in Tracked(s)
    BY <2>2, <2>3, <2>5, <2>6, PostFits, Zenon DEF Sound
  <2>8. HeaderOk(b) /\ Extends(s, b)
    BY <1>2, <2>3, <2>4, <2>6, Zenon DEF HeaderOk, Extends
  <2>9. Imported(s, b, Post(r), t)
    BY <2>2, <2>3, <2>7, <2>8, ImportReady, Zenon
  <2> HIDE DEF t
  <2>10. Within(Chain, t)
    BY <2>2, <2>4, <2>9, ChainFields, Zenon DEF Imported, Later, Within
  <2>11. Node(Chain, t, tm)
    BY <2>2, <2>7, <2>9, <2>10, Zenon DEF Imported, Node
  <2>12. Tracked(t) = Tracked(s) \cup {r}
    BY <2>4, <2>9, Zenon DEF Imported
  <2> QED
    BY <2>1, <2>11, <2>12, Zenon
<1> QED
  BY <1>1, <1>2, Zenon

\* f gives the store after each of the first n roots.
ImportsTo(f, s, roots, blocks, n) ==
    f = [k \in 0 .. n |->
            IF k = 0 THEN s
            ELSE IF roots[k] \in blocks THEN ImportBlock(f[k - 1], roots[k])
            ELSE f[k - 1]]

\* ImportEach is the end of such a run.
LEMMA ImportRun ==
    ASSUME NEW s, NEW roots, NEW blocks, Len(roots) \in Nat
    PROVE  \E f : /\ ImportsTo(f, s, roots, blocks, Len(roots))
                  /\ ImportEach(s, roots, blocks) = f[Len(roots)]
<1> DEFINE len == Len(roots)
           S == {n \in 0 .. len : \E f : ImportsTo(f, s, roots, blocks, n)}
<1>1. 0 \in S
  <2> DEFINE f == [k \in 0 .. 0 |-> s]
  <2>1. ImportsTo(f, s, roots, blocks, 0)
    BY DEF ImportsTo
  <2> HIDE DEF f
  <2> QED
    BY <2>1
<1>2. ASSUME NEW n \in 0 .. len - 1, n \in S
      PROVE  n + 1 \in S
  <2>1. PICK f : ImportsTo(f, s, roots, blocks, n)
    BY <1>2, Zenon
  <2> DEFINE Step(g, k) == IF roots[k] \in blocks THEN ImportBlock(g[k - 1], roots[k]) ELSE g[k - 1]
             g == [k \in 0 .. n + 1 |-> IF k <= n THEN f[k] ELSE Step(f, n + 1)]
  <2>2. f = [k \in 0 .. n |-> IF k = 0 THEN s ELSE Step(f, k)]
    BY <2>1, Zenon DEF ImportsTo
  <2>3. ASSUME NEW k \in 0 .. n + 1
        PROVE  g[k] = IF k = 0 THEN s ELSE Step(g, k)
    <3>1. CASE k = 0
      BY <2>2, <3>1
    <3>2. CASE k # 0 /\ k <= n
      <4>1. k \in 0 .. n /\ k - 1 \in 0 .. n + 1 /\ k - 1 <= n
        BY <3>2
      <4>2. f[k] = Step(f, k)
        BY <2>2, <3>2, <4>1, Zenon
      <4>3. g[k] = f[k] /\ g[k - 1] = f[k - 1]
        BY <3>2, <4>1, Zenon
      <4> HIDE DEF g
      <4> QED
        BY <3>2, <4>2, <4>3, Zenon
    <3>3. CASE k = n + 1
      <4>1. k # 0 /\ ~(k <= n) /\ k - 1 = n /\ n \in 0 .. n + 1 /\ n <= n
        BY <3>3
      <4>2. g[k] = Step(f, n + 1) /\ g[k - 1] = f[k - 1]
        BY <4>1, Zenon
      <4> HIDE DEF g
      <4> QED
        BY <3>3, <4>1, <4>2, Zenon
    <3> QED
      BY <3>1, <3>2, <3>3
  <2>4. ImportsTo(g, s, roots, blocks, n + 1)
    BY <2>3, Zenon DEF ImportsTo
  <2> HIDE DEF g
  <2> QED
    BY <1>2, <2>4
<1> HIDE DEF S
<1>3. 0 .. len \subseteq S /\ len \in 0 .. len
  <2>1. len \in Nat /\ len \in 0 .. len
    OBVIOUS
  <2> QED
    BY <1>1, <1>2, <2>1, UpTo, Zenon
<1>4. \E f : ImportsTo(f, s, roots, blocks, len)
  BY <1>3, Zenon DEF S
<1> DEFINE after == CHOOSE f : ImportsTo(f, s, roots, blocks, len)
<1>5. ImportsTo(after, s, roots, blocks, len)
  BY <1>4, Zenon
<1>6. ImportEach(s, roots, blocks) = after[len]
  BY Zenon DEF ImportEach, ImportsTo
<1> HIDE DEF after
<1> QED
  BY <1>5, <1>6, Zenon

\* Any number of imports, of blocks that have been produced, keeps the store
\* in order.
LEMMA ImportEachNode ==
    ASSUME ChainOk, NEW s, NEW tm, Node(Chain, s, tm), NEW roots, Len(roots) \in Nat,
           NEW blocks, blocks \subseteq DOMAIN ledger
    PROVE  LET t == ImportEach(s, roots, blocks)
           IN  Node(Chain, t, tm) /\ Tracked(s) \subseteq Tracked(t)
<1>1. PICK f : /\ ImportsTo(f, s, roots, blocks, Len(roots))
               /\ ImportEach(s, roots, blocks) = f[Len(roots)]
  BY ImportRun, Zenon
<1> DEFINE len == Len(roots)
           S == {k \in 0 .. len : Node(Chain, f[k], tm) /\ Tracked(s) \subseteq Tracked(f[k])}
<1>2. 0 \in S
  BY <1>1 DEF ImportsTo
<1>3. ASSUME NEW k \in 0 .. len - 1, k \in S
      PROVE  k + 1 \in S
  <2>1. k + 1 \in 0 .. len /\ k + 1 # 0 /\ (k + 1) - 1 = k
    OBVIOUS
  <2>2. f[k + 1] = IF roots[k + 1] \in blocks THEN ImportBlock(f[k], roots[k + 1]) ELSE f[k]
    BY <1>1, <2>1, Zenon DEF ImportsTo
  <2>3. CASE roots[k + 1] \in blocks
    BY <1>3, <2>1, <2>2, <2>3, ImportBlockNode
  <2> QED
    BY <1>3, <2>1, <2>2, <2>3, Zenon
<1> HIDE DEF S
<1>4. 0 .. len \subseteq S /\ len \in 0 .. len
  BY <1>2, <1>3, UpTo
<1> QED
  BY <1>1, <1>4, Zenon DEF S

\* f gives the store after the first n walks.
SyncsTo(f, s, order, n) ==
    f = [k \in 0 .. n |->
            IF k = 0 THEN s
            ELSE IF ShouldSync(s, order[k]) THEN SyncWithPeer(f[k - 1], order[k])
            ELSE f[k - 1]]

\* SyncWithEach is the end of such a run.
LEMMA SyncRun ==
    ASSUME NEW s, NEW order, Len(order) \in Nat
    PROVE  \E f : SyncsTo(f, s, order, Len(order)) /\ SyncWithEach(s, order) = f[Len(order)]
<1> DEFINE len == Len(order)
           S == {n \in 0 .. len : \E f : SyncsTo(f, s, order, n)}
<1>0. len \in Nat
  OBVIOUS
<1>1. 0 \in S
  <2> DEFINE f == [k \in 0 .. 0 |-> s]
  <2>1. SyncsTo(f, s, order, 0)
    BY DEF SyncsTo
  <2> HIDE DEF f
  <2> QED
    BY <1>0, <2>1
<1>2. ASSUME NEW n \in 0 .. len - 1, n \in S
      PROVE  n + 1 \in S
  <2>1. PICK f : SyncsTo(f, s, order, n)
    BY <1>2, Zenon
  <2> DEFINE Step(g, k) == IF ShouldSync(s, order[k]) THEN SyncWithPeer(g[k - 1], order[k])
                           ELSE g[k - 1]
             g == [k \in 0 .. n + 1 |-> IF k <= n THEN f[k] ELSE Step(f, n + 1)]
  <2>2. f = [k \in 0 .. n |-> IF k = 0 THEN s ELSE Step(f, k)]
    BY <2>1, Zenon DEF SyncsTo
  <2>3. ASSUME NEW k \in 0 .. n + 1
        PROVE  g[k] = IF k = 0 THEN s ELSE Step(g, k)
    <3>1. CASE k = 0
      BY <2>2, <3>1
    <3>2. CASE k # 0 /\ k <= n
      <4>1. k \in 0 .. n /\ k - 1 \in 0 .. n + 1 /\ k - 1 <= n
        BY <3>2
      <4>2. f[k] = Step(f, k)
        BY <2>2, <3>2, <4>1, Zenon
      <4>3. g[k] = f[k] /\ g[k - 1] = f[k - 1]
        BY <3>2, <4>1, Zenon
      <4> HIDE DEF g
      <4> QED
        BY <3>2, <4>2, <4>3, Zenon
    <3>3. CASE k = n + 1
      <4>1. k # 0 /\ ~(k <= n) /\ k - 1 = n /\ n \in 0 .. n + 1 /\ n <= n
        BY <3>3
      <4>2. g[k] = Step(f, n + 1) /\ g[k - 1] = f[k - 1]
        BY <4>1, Zenon
      <4> HIDE DEF g
      <4> QED
        BY <3>3, <4>1, <4>2, Zenon
    <3> QED
      BY <3>1, <3>2, <3>3
  <2>4. SyncsTo(g, s, order, n + 1)
    BY <2>3, Zenon DEF SyncsTo
  <2> HIDE DEF g
  <2> QED
    BY <1>0, <1>2, <2>4
<1> HIDE DEF S
<1>3. 0 .. len \subseteq S /\ len \in 0 .. len
  BY <1>0, <1>1, <1>2, UpTo
<1>4. \E f : SyncsTo(f, s, order, len)
  BY <1>3, Zenon DEF S
<1> DEFINE after == CHOOSE f : SyncsTo(f, s, order, len)
<1>5. SyncsTo(after, s, order, len)
  BY <1>4, Zenon
<1>6. SyncWithEach(s, order) = after[len]
  BY Zenon DEF SyncWithEach, SyncsTo
<1> HIDE DEF after
<1> QED
  BY <1>5, <1>6, Zenon

\* Any number of walks, from statuses whose heads have been produced, keeps the
\* store in order.
LEMMA SyncNode ==
    ASSUME ChainOk, NEW s, NEW tm, Node(Chain, s, tm),
           NEW order, Len(order) \in Nat, \A k \in 1 .. Len(order) : order[k].head \in DOMAIN ledger
    PROVE  Node(Chain, SyncWithEach(s, order), tm)
<1>1. PICK f : SyncsTo(f, s, order, Len(order)) /\ SyncWithEach(s, order) = f[Len(order)]
  BY SyncRun, Zenon
<1> DEFINE len == Len(order)
           S == {k \in 0 .. len : Node(Chain, f[k], tm)}
<1>2. 0 \in S
  BY <1>1 DEF SyncsTo
<1>3. ASSUME NEW k \in 0 .. len - 1, k \in S
      PROVE  k + 1 \in S
  <2>1. k + 1 \in 0 .. len /\ k + 1 \in 1 .. len /\ k + 1 # 0 /\ (k + 1) - 1 = k
    OBVIOUS
  <2> DEFINE status == order[k + 1]
  <2>2. f[k + 1] = IF ShouldSync(s, status) THEN SyncWithPeer(f[k], status) ELSE f[k]
    BY <1>1, <2>1, Zenon DEF SyncsTo
  <2>3. CASE ShouldSync(s, status)
    <3> DEFINE branch == Ancestors(Chain, status.head)
               roots == [n \in 1 .. MaxSlot |-> root_of[n]]
    <3>1. branch \subseteq DOMAIN ledger
      <4>1. TreeOk(Chain.blocks, AnchorRoot) /\ status.head \in Tracked(Chain)
            /\ Tracked(Chain) = DOMAIN ledger
        BY <2>1, ChainFields, Zenon DEF ChainOk
      <4> QED
        BY <4>1, AncestorsBelow, Zenon
    <3>2. Len(roots) \in Nat
      BY DevnetAssumption
    <3>3. f[k + 1] = ImportEach(f[k], roots, branch)
      BY <2>2, <2>3, Zenon DEF SyncWithPeer, ImportChain
    <3> HIDE DEF branch, roots
    <3> QED
      BY <1>3, <2>1, <3>1, <3>2, <3>3, ImportEachNode, Zenon
  <2> QED
    BY <1>3, <2>1, <2>2, <2>3, Zenon
<1> HIDE DEF S
<1>4. 0 .. len \subseteq S /\ len \in 0 .. len
  BY <1>2, <1>3, UpTo
<1> QED
  BY <1>1, <1>4, Zenon DEF S
-----------------------------------------------------------------------------
(* The steps of an iteration *)

\* Of finitely many slots, and the votes validate_attestation admits have
\* finitely many, one is the newest.
LEMMA NewestVote ==
    ASSUME NEW s, ClockOk(s), NEW votes, votes \subseteq Vote, votes # {},
           \A vote \in votes : ValidateAttestation(s, vote)
    PROVE  \E vote \in votes : \A other \in votes : other.slot <= vote.slot
<1> DEFINE max == CurrentSlot(s) + 1
           T == {max - vote.slot : vote \in votes}
<1>1. max \in Nat
  BY DEF ClockOk, CurrentSlot, IntervalsPerSlot
<1>2. \A vote \in votes : vote.slot \in Nat /\ vote.slot <= max
  BY Zenon DEF ValidateAttestation, Vote
<1> HIDE DEF max
<1>3. T \subseteq Nat /\ T # {}
  BY <1>1, <1>2
<1>4. PICK n \in T : \A m \in T : n <= m
  <2> HIDE DEF T
  <2> QED
    BY <1>3, LeastNat, Zenon
<1>5. PICK vote \in votes : n = max - vote.slot
  BY <1>4, Zenon
<1>6. ASSUME NEW other \in votes
      PROVE  other.slot <= vote.slot
  <2>1. max - other.slot \in T
    BY Zenon
  <2> HIDE DEF T
  <2> QED
    BY <1>1, <1>2, <1>4, <1>5, <2>1
<1> QED
  BY <1>5, <1>6, Zenon

\* t differs from s in votes and head only, and its head is decided.
LEMMA SameNode ==
    ASSUME NEW c, NEW s, NEW tm, Node(c, s, tm), NEW t, SameChain(s, t), Ready(t), HeadOk(t)
    PROVE  Node(c, t, t.time) /\ Tracked(t) = Tracked(s)
BY Zenon DEF Node, SameChain, Ordered, Within, Tracked

\* drain_gossip keeps the store in order: the votes it keeps have validated.
LEMMA DrainNode ==
    ASSUME ChainOk, NEW i \in Validators, Node(Chain, store[i], tick[i]),
           block_rx[i] \in Seq(DOMAIN ledger),
           vote_rx[i] \subseteq [validator_id: Validators, data: Vote]
    PROVE  /\ Node(Chain, DrainGossip(i), tick[i])
           /\ Tracked(DrainGossip(i)) = Tracked(ImportEach(store[i], block_rx[i], DOMAIN ledger))
<1> DEFINE s == ImportEach(store[i], block_rx[i], DOMAIN ledger)
           Valid(v) == {vote \in {m.data : m \in {n \in vote_rx[i] : n.validator_id = v}} :
                           ValidateAttestation(s, vote)}
           Newest(votes) == CHOOSE vote \in votes : \A other \in votes : other.slot <= vote.slot
           pool == [v \in Validators |->
                       IF Valid(v) # {} THEN GossipVote(s, v, Newest(Valid(v))).new_votes[v]
                       ELSE s.new_votes[v]]
           t == DrainGossip(i)
<1>1. Node(Chain, s, tick[i])
  BY ImportEachNode
<1>2. t = [s EXCEPT !.new_votes = pool]
  BY Zenon DEF DrainGossip
<1> HIDE DEF s, t
<1>3. Ready(s) /\ HeadOk(s) /\ Sound(s) /\ IsStore(s) /\ VotesOk(s) /\ ClockOk(s) /\ s.time = tick[i]
  BY <1>1, Zenon DEF Node, Ready, Sound
<1>4. ASSUME NEW v \in Validators
      PROVE  \/ pool[v] = s.new_votes[v]
             \/ pool[v] \in Vote /\ ValidateAttestation(s, pool[v])
  <2>1. CASE Valid(v) # {}
    <3> DEFINE vote == Newest(Valid(v))
    <3>1. Valid(v) \subseteq Vote /\ \A w \in Valid(v) : ValidateAttestation(s, w)
      BY Zenon
    <3>2. vote \in Valid(v)
      <4> HIDE DEF Valid
      <4>1. \E w \in Valid(v) : \A other \in Valid(v) : other.slot <= w.slot
        BY <1>3, <2>1, <3>1, NewestVote, Zenon
      <4> QED
        BY <4>1, Zenon
    <3>3. pool[v] = GossipVote(s, v, vote).new_votes[v]
      BY <2>1, Zenon
    <3> HIDE DEF Valid, vote, pool
    <3>4. CASE IsNewer(vote, s.new_votes[v])
      <4>1. GossipVote(s, v, vote).new_votes = [s.new_votes EXCEPT ![v] = vote]
        BY <1>3, <3>4, Zenon DEF GossipVote, IsStore, StoreFields
      <4>2. [s.new_votes EXCEPT ![v] = vote][v] = vote
        BY <1>3, Zenon DEF VotesOk, Pool
      <4> QED
        BY <3>1, <3>2, <3>3, <4>1, <4>2, Zenon
    <3>5. CASE ~IsNewer(vote, s.new_votes[v])
      BY <3>3, <3>5, Zenon DEF GossipVote
    <3> QED
      BY <3>4, <3>5, Zenon
  <2>2. CASE Valid(v) = {}
    BY <2>2, Zenon
  <2> QED
    BY <2>1, <2>2, Zenon
<1>5. pool = [v \in Validators |-> pool[v]]
  OBVIOUS
<1> HIDE DEF pool
<1>6. pool \in Pool /\ VotesTracked(s, pool)
  <2>1. \A v \in Validators : pool[v] \in Vote \cup {NoVote}
    BY <1>3, <1>4, Zenon DEF VotesOk, Pool
  <2>2. VotesTracked(s, pool)
    BY <1>3, <1>4, Zenon DEF VotesOk, VotesTracked, ValidateAttestation
  <2> QED
    BY <1>5, <2>1, <2>2, Zenon DEF Pool
<1>7. /\ t.new_votes = pool /\ IsStore(t)
      /\ \A x \in StoreFields \ {"new_votes"} : t[x] = s[x]
  BY <1>2, <1>3, Zenon DEF IsStore, StoreFields
<1>8. /\ t.known_votes = s.known_votes /\ t.head = s.head /\ t.latest_justified = s.latest_justified
      /\ t.latest_finalized = s.latest_finalized
      /\ t.time = s.time /\ t.safe_target = s.safe_target /\ t.blocks = s.blocks
  BY <1>7, Zenon DEF StoreFields
<1>9. SameChain(s, t) /\ HeadOk(t)
  BY <1>3, <1>7, <1>8, SameHead, Zenon DEF SameChain
<1>10. Ready(t)
  <2>1. Sound(t)
    <3>1. Sound(s) /\ SameChain(s, t)
      BY <1>3, <1>9, Zenon
    <3> QED
      BY <3>1, SameChainSound, Zenon
  <2>2. VotesOk(t) /\ ClockOk(t) /\ t.safe_target \in Tracked(t)
    <3>1. VotesTracked(t, t.known_votes) /\ VotesTracked(t, t.new_votes)
      BY <1>3, <1>6, <1>7, <1>8, Zenon DEF VotesOk, VotesTracked, Tracked
    <3>2. VotesOk(t)
      BY <1>3, <1>6, <1>7, <1>8, <3>1, Zenon DEF VotesOk
    <3> QED
      BY <1>3, <1>8, <3>2, Zenon DEF Ready, ClockOk, Tracked
  <2> QED
    BY <2>1, <2>2, Zenon DEF Ready
<1> QED
  BY <1>1, <1>3, <1>8, <1>9, <1>10, SameNode, Zenon DEF s, t

\* accept_new_votes decides the head anew.
LEMMA AcceptNode ==
    ASSUME NEW c, NEW s, NEW tm, Node(c, s, tm)
    PROVE  Node(c, AcceptNewVotes(s), tm) /\ Tracked(AcceptNewVotes(s)) = Tracked(s)
<1> DEFINE t == AcceptNewVotes(s)
<1>1. Ready(s) /\ IsStore(s) /\ TreeOk(s.blocks, AnchorRoot) /\ Sound(s) /\ s.time = tm
  BY Zenon DEF Node, Ready, Sound
<1>2. Ready(t) /\ HeadOk(t)
  BY <1>1, AcceptReady, Zenon
<1>3. SameChain(s, t) /\ t.time = s.time
  BY <1>1, OriginJustified, AcceptFields, Zenon
<1> QED
  BY <1>1, <1>2, <1>3, SameNode, Zenon

\* The own vote joins the pending pool, or not at all.
LEMMA ReimportNode ==
    ASSUME NEW c, NEW s, NEW tm \in Nat, Node(c, s, tm), NEW i \in Validators
    PROVE  LET vote == OwnVote(s, tm \div IntervalsPerSlot)
               t == Reimport(s, i, vote)
           IN  vote \in Vote /\ Node(c, t, tm) /\ Tracked(t) = Tracked(s)
<1> DEFINE vote == OwnVote(s, tm \div IntervalsPerSlot)
           t == Reimport(s, i, vote)
<1>1. Ready(s) /\ HeadOk(s) /\ IsStore(s) /\ s.time = tm
  BY Zenon DEF Node, Ready, Sound
<1>2. tm \div IntervalsPerSlot \in Nat /\ tm \div IntervalsPerSlot <= CurrentSlot(s)
  BY <1>1 DEF IntervalsPerSlot, CurrentSlot
<1>3. vote \in Vote
  BY <1>1, <1>2, OwnVoteOk, Zenon DEF OwnOk
<1> HIDE DEF vote
<1>4. CASE ValidateAttestation(s, vote)
  <2>1. t = GossipVote(s, i, vote)
    BY <1>4, Zenon DEF Reimport
  <2>2. Ready(t) /\ HeadOk(t) /\ SameChain(s, t)
    BY <1>1, <1>3, <1>4, <2>1, GossipReady, GossipSameChain, Zenon
  <2>3. t.time = s.time
    BY <1>1, <2>1, Zenon DEF GossipVote, IsStore, StoreFields
  <2> QED
    BY <1>1, <1>3, <2>2, <2>3, SameNode, Zenon DEF vote
<1>5. CASE ~ValidateAttestation(s, vote)
  BY <1>3, <1>5, Zenon DEF Reimport, vote
<1> QED
  BY <1>4, <1>5, Zenon

\* tick_interval advances the clock by one.
LEMMA TickNode ==
    ASSUME NEW c, NEW s, NEW tm, Node(c, s, tm), NEW p
    PROVE  Node(c, TickInterval(s, p), tm + 1) /\ Tracked(TickInterval(s, p)) = Tracked(s)
<1> DEFINE t == TickInterval(s, p)
           u == [s EXCEPT !.time = @ + 1]
<1>1. Ready(s) /\ HeadOk(s) /\ IsStore(s) /\ s.time = tm
  BY Zenon DEF Node, Ready, Sound
<1>2. Ready(t) /\ HeadOk(t) /\ SameChain(s, t)
  BY <1>1, TickReady, TickSameChain, Zenon
<1>3. IsStore(u) /\ u.time = tm + 1
  BY <1>1, Zenon DEF IsStore, StoreFields
<1>4. t.time = tm + 1
  <2>1. t = UpdateSafeTarget(u) \/ t = AcceptNewVotes(u) \/ t = u
    BY Zenon DEF TickInterval
  <2> HIDE DEF t, u
  <2>2. UpdateSafeTarget(u).time = u.time /\ AcceptNewVotes(u).time = u.time
    BY <1>3, Zenon DEF UpdateSafeTarget, AcceptNewVotes, IsStore, StoreFields
  <2> QED
    BY <1>3, <2>1, <2>2, Zenon
<1> QED
  BY <1>2, <1>4, SameNode, Zenon

\* The header of a candidate is refused only for its slot.
LEMMA CandidateAccepted ==
    ASSUME NEW c, NEW h, BranchOk(c, h), NEW st, StateOf(c, st, h),
           NEW b, b.slot \in Slots, b.parent_root = h, b.proposer_index = Proposer(b.slot)
    PROVE  CandidateHeaderOk(st, b) <=> b.slot > c.blocks[h].slot
<1> DEFINE m == c.blocks[h].slot
           u == ST!ProcessSlots(st, b.slot)
<1>1. m \in Nat /\ b.slot \in Nat /\ b.slot <= MaxSlot
  BY DevnetAssumption DEF BranchOk, TreeOk, BlockRecord, Tracked, Slots
<1>2. IsState(st) /\ st.slot = m /\ st.header = [slot |-> m, root |-> h, sealed |-> FALSE]
  <2>1. CASE h = AnchorRoot
    BY <2>1 DEF StateOf, ST!GenesisState, IsState, StateFields
  <2>2. CASE h # AnchorRoot
    BY <2>2, Zenon DEF StateOf, Follows
  <2> QED
    BY <2>1, <2>2, Zenon
<1>3. CASE m < b.slot
  <2> DEFINE header == [st.header EXCEPT !.sealed = TRUE]
  <2>1. u = [st EXCEPT !.slot = b.slot, !.header = header]
    BY <1>2, Zenon DEF ST!ProcessSlots
  <2>2. header.slot = m /\ header.root = h /\ header.sealed
    BY <1>2
  <2> HIDE DEF header, u
  <2>3. u.slot = b.slot /\ u.header = header
    BY <1>2, <2>1, Zenon DEF IsState, StateFields
  <2>4. ST!BlockHeaderOk(u, b)
    BY <1>1, <1>3, <2>2, <2>3, Zenon DEF ST!BlockHeaderOk, Proposer
  <2> QED
    BY <1>1, <1>2, <1>3, <2>4 DEF CandidateHeaderOk, u
<1>4. CASE ~(m < b.slot)
  <2>1. ~(b.slot > st.header.slot)
    BY <1>1, <1>2, <1>4
  <2>2. ~ST!BlockHeaderOk(st, b)
    BY <2>1, Zenon DEF ST!BlockHeaderOk
  <2> QED
    BY <1>1, <1>2, <1>4, <2>2, Zenon DEF CandidateHeaderOk
<1> QED
  BY <1>1, <1>3, <1>4, Zenon
-----------------------------------------------------------------------------
(* The chain grows *)

\* d has the blocks of c, and maybe more.
Grows(c, d) ==
    /\ TreeOk(c.blocks, AnchorRoot) /\ TreeOk(d.blocks, AnchorRoot)
    /\ \A r \in Tracked(c) : r \in Tracked(d) /\ d.blocks[r] = c.blocks[r]

\* The state of a block stays its state.
LEMMA FollowsStable ==
    ASSUME NEW c, NEW d, Grows(c, d), NEW st, NEW n, NEW root, NEW h \in Tracked(c),
           Follows(c, st, n, root, h)
    PROVE  Follows(d, st, n, root, h)
<1>1. Ancestors(d, h) = Ancestors(c, h) /\ Ancestors(c, h) \subseteq Tracked(c)
  BY AncestorsStable, AncestorsBelow, Zenon DEF Grows
<1>2. \A q \in Ancestors(c, h) : d.blocks[q] = c.blocks[q]
  BY <1>1, Zenon DEF Grows
<1>3. OnBranch(d, h) = OnBranch(c, h)
  BY <1>1, <1>2, Zenon DEF OnBranch
<1>4. d.blocks[h] = c.blocks[h]
  BY Zenon DEF Grows
<1> QED
  BY <1>1, <1>2, <1>3, <1>4, Zenon DEF Follows

\* The same for the state of any block, the anchor included.
LEMMA StateStable ==
    ASSUME NEW c, NEW d, Grows(c, d), NEW st, NEW h \in Tracked(c), StateOf(c, st, h)
    PROVE  StateOf(d, st, h)
<1>1. d.blocks[h] = c.blocks[h]
  BY Zenon DEF Grows
<1>2. CASE h = AnchorRoot
  BY <1>1, <1>2, Zenon DEF StateOf
<1>3. CASE h # AnchorRoot
  <2>1. c.blocks[h].parent_root \in Tracked(c)
    BY <1>3, Zenon DEF Grows, TreeOk, Tracked
  <2> QED
    BY <1>1, <1>3, <2>1, FollowsStable, Zenon DEF StateOf
<1> QED
  BY <1>2, <1>3, Zenon

\* A block on top of h joins the chain.
LEMMA ChainGrows ==
    ASSUME ChainOk, NEW h \in DOMAIN ledger, NEW n \in Nat, n > ledger[h].slot,
           NEW root \in Nat, root \notin {ZeroRoot, PrunedRoot} \cup DOMAIN ledger,
           NEW body \in Pool, NEW st, Follows(Chain, st, n, root, h),
           ledger' = [r \in DOMAIN ledger \cup {root} |->
                         IF r = root
                         THEN [slot |-> n, parent_root |-> h, body |-> body, state |-> st]
                         ELSE ledger[r]]
    PROVE  /\ ChainOk'
           /\ Grows(Chain, Chain')
           /\ Tracked(Chain') = DOMAIN ledger \cup {root}
           /\ Chain'.blocks[root] =
                 [slot |-> n, parent_root |-> h,
                  post |-> [justified |-> st.latest_justified, finalized |-> st.latest_finalized]]
<1> DEFINE new == [slot |-> n, parent_root |-> h, body |-> body, state |-> st]
           post == [justified |-> st.latest_justified, finalized |-> st.latest_finalized]
<1>1. /\ DOMAIN ledger' = DOMAIN ledger \cup {root} /\ ledger'[root] = new
      /\ \A r \in DOMAIN ledger : ledger'[r] = ledger[r]
  BY Zenon
<1>2. new.slot = n /\ new.parent_root = h /\ new.body = body /\ new.state = st
  BY Zenon
<1> HIDE DEF new
<1>3. /\ Tracked(Chain') = DOMAIN ledger \cup {root}
      /\ \A r \in DOMAIN ledger : Chain'.blocks[r] = Chain.blocks[r]
      /\ Chain'.blocks[root] = [slot |-> n, parent_root |-> h, post |-> post]
  BY <1>1, <1>2, Zenon DEF Chain, Post, Tracked
<1>4. TreeOk(Chain.blocks, AnchorRoot) /\ BranchOk(Chain, h)
      /\ Chain.blocks[h].slot = ledger[h].slot /\ Chain.blocks[AnchorRoot].parent_root = ZeroRoot
      /\ AnchorRoot \in DOMAIN ledger
  BY ChainFields, Zenon DEF ChainOk, BranchOk, TreeOk, Tracked
<1> DEFINE c == Chain
           d == Chain'
<1>5. c = Chain /\ d = Chain'
  BY Zenon
<1> HIDE DEF c, d
<1>6. st.latest_justified \in Cp /\ st.latest_finalized \in Cp /\ h \in Nat
  BY <1>4, OnBranchBelow, Zenon DEF Follows, TreeOk, BranchOk, Tracked
<1>7. TreeOk(d.blocks, AnchorRoot)
  <2>1. d.blocks[root] \in BlockRecord /\ d.blocks[root].parent_root = h /\ d.blocks[root].slot = n
    BY <1>3, <1>5, <1>6 DEF BlockRecord
  <2>2. DOMAIN d.blocks = DOMAIN c.blocks \cup {root} /\ \A r \in DOMAIN c.blocks : d.blocks[r] = c.blocks[r]
    BY <1>3, <1>5, ChainFields, Zenon DEF Tracked
  <2>3. root \notin DOMAIN c.blocks /\ h \in DOMAIN c.blocks /\ root # c.blocks[AnchorRoot].parent_root
        /\ n > c.blocks[h].slot /\ TreeOk(c.blocks, AnchorRoot)
    BY <1>4, <1>5, ChainFields, Zenon DEF Tracked
  <2> QED
    BY <2>1, <2>2, <2>3, GrowTree, Zenon
<1>8. Grows(c, d)
  BY <1>3, <1>4, <1>5, <1>7, ChainFields, Zenon DEF Grows
<1>9. ASSUME NEW r \in DOMAIN ledger'
      PROVE  StateOf(d, ledger'[r].state, r) /\ ledger'[r].body \in Pool
  <2>1. CASE r \in DOMAIN ledger
    <3>1. StateOf(c, ledger[r].state, r) /\ ledger[r].body \in Pool
      BY <1>5, <2>1, Zenon DEF ChainOk
    <3> QED
      BY <1>1, <1>5, <1>8, <2>1, <3>1, ChainFields, StateStable, Zenon
  <2>2. CASE r = root
    <3>1. Follows(d, st, n, root, h)
      BY <1>5, <1>8, ChainFields, FollowsStable, Zenon
    <3>2. root # AnchorRoot
      BY <1>4, Zenon
    <3> QED
      BY <1>1, <1>2, <1>3, <1>5, <2>2, <3>1, <3>2 DEF StateOf
  <2> QED
    BY <1>1, <2>1, <2>2, Zenon
<1>10. ChainOk'
  BY <1>1, <1>4, <1>5, <1>7, <1>9, Zenon DEF ChainOk
<1> QED
  BY <1>3, <1>5, <1>8, <1>10, Zenon
=============================================================================
