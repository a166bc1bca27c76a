-------------------------- MODULE ForkChoiceProofs --------------------------
(***************************************************************************)
(* What the operators of ForkChoice compute, for every tree of blocks and  *)
(* every pool of votes: the recursive walks along parents, down to the     *)
(* head and back to the target have the function they mean and stay on     *)
(* their branch; and what each hook changes of a store.  EngineProofs and  *)
(* ChainServiceProofs rest on these lemmas.                                *)
(***************************************************************************)
EXTENDS ForkChoice, TLAPS, FiniteSetTheorems, WellFoundedInduction

(* The block tree *)

BlockRecord == [slot: Nat, parent_root: Nat, post: [justified: Cp, finalized: Cp]]

\* The blocks are a tree with root a: every other block has a tracked parent
\* at a lower slot, and there are finitely many.
TreeOk(blocks, a) ==
    /\ a \in DOMAIN blocks
    /\ DOMAIN blocks \subseteq Nat
    /\ \A r \in DOMAIN blocks : blocks[r] \in BlockRecord
    /\ blocks[a].parent_root \notin DOMAIN blocks
    /\ \A r \in DOMAIN blocks \ {a} :
          /\ blocks[r].parent_root \in DOMAIN blocks
          /\ blocks[blocks[r].parent_root].slot < blocks[r].slot
    /\ \E n \in Nat : \A r \in DOMAIN blocks : r <= n /\ blocks[r].slot <= n

\* Every nonempty set of naturals has a least element: the form in which
\* induction is used here, with the set of counterexamples.
LEMMA LeastNat ==
    ASSUME NEW T, T \subseteq Nat, T # {}
    PROVE  \E n \in T : \A m \in T : n <= m
<1> DEFINE R == OpToRel(<, Nat)
<1>1. IsWellFoundedOn(R, Nat)
  BY NatLessThanWellFounded, Zenon
<1>2. \A x, y \in Nat : x < y => <<x, y>> \in R
  BY Zenon DEF OpToRel
<1> HIDE DEF R
<1>3. PICK n \in T : \A m \in T : ~(<<m, n>> \in R)
  BY <1>1, WFMin, Zenon
<1>4. \A m \in T : ~(m < n)
  BY <1>2, <1>3, Zenon
<1> QED
  BY <1>4

\* Induction from the root of the tree upwards.
LEMMA TreeInduction ==
    ASSUME NEW blocks, NEW a, TreeOk(blocks, a), NEW S, a \in S,
           \A r \in DOMAIN blocks \ {a} : blocks[r].parent_root \in S => r \in S
    PROVE  DOMAIN blocks \subseteq S
<1> DEFINE T == {blocks[r].slot : r \in DOMAIN blocks \ S}
<1> SUFFICES ASSUME DOMAIN blocks \ S # {} PROVE FALSE
  BY Zenon
<1>1. T \subseteq Nat /\ T # {}
  BY DEF TreeOk, BlockRecord
<1>2. PICK n \in T : \A m \in T : n <= m
  <2> HIDE DEF T
  <2> QED BY <1>1, LeastNat, Zenon
<1>3. PICK r \in DOMAIN blocks \ S : n = blocks[r].slot
  BY <1>2, Zenon
<1> DEFINE p == blocks[r].parent_root
<1>4. r # a /\ p \in DOMAIN blocks /\ blocks[p].slot < blocks[r].slot
  BY <1>3, Zenon DEF TreeOk
<1>5. p \notin S
  BY <1>3, <1>4, Zenon
<1>6. blocks[r].slot <= blocks[p].slot
  BY <1>2, <1>3, <1>4, <1>5, Zenon
<1>7. blocks[r].slot \in Nat /\ blocks[p].slot \in Nat
  BY <1>3, <1>4, Zenon DEF TreeOk, BlockRecord
<1> QED
  BY <1>4, <1>6, <1>7

\* Induction from the highest slots of the tree downwards.
LEMMA DescentInduction ==
    ASSUME NEW blocks, NEW a, TreeOk(blocks, a), NEW S,
           \A r \in DOMAIN blocks :
              (\A c \in DOMAIN blocks : blocks[c].slot > blocks[r].slot => c \in S) => r \in S
    PROVE  DOMAIN blocks \subseteq S
<1>1. PICK bound \in Nat : \A r \in DOMAIN blocks : blocks[r].slot <= bound
  BY Zenon DEF TreeOk
<1>2. \A r \in DOMAIN blocks : blocks[r].slot \in Nat
  BY Zenon DEF TreeOk, BlockRecord
<1> DEFINE T == {bound - blocks[r].slot : r \in DOMAIN blocks \ S}
<1> SUFFICES ASSUME DOMAIN blocks \ S # {} PROVE FALSE
  BY Zenon
<1>3. T \subseteq Nat /\ T # {}
  BY <1>1, <1>2
<1>4. PICK n \in T : \A m \in T : n <= m
  <2> HIDE DEF T
  <2> QED BY <1>3, LeastNat, Zenon
<1>5. PICK r \in DOMAIN blocks \ S : n = bound - blocks[r].slot
  BY <1>4, Zenon
<1>6. PICK c \in DOMAIN blocks : blocks[c].slot > blocks[r].slot /\ c \notin S
  BY <1>5, Zenon
<1>7. bound - blocks[r].slot <= bound - blocks[c].slot
  BY <1>4, <1>5, <1>6
<1> QED
  BY <1>1, <1>2, <1>5, <1>6, <1>7

\* Ancestors satisfies its recursion: the least sets closed under parent_root do.
LEMMA AncestorsEquation ==
    ASSUME NEW s, NEW r \in Tracked(s)
    PROVE  Ancestors(s, r) = IF s.blocks[r].parent_root \in Tracked(s)
                             THEN {r} \cup Ancestors(s, s.blocks[r].parent_root)
                             ELSE {r}
<1> DEFINE D == Tracked(s)
           par(q) == s.blocks[q].parent_root
           Closed(U) == \A x \in U : par(x) \in D => par(x) \in U
           Anc(q) == {x \in D : \A U \in SUBSET D : q \in U /\ Closed(U) => x \in U}
           g == [q \in D |-> Anc(q)]
           F == CHOOSE anc : anc = [q \in D |-> IF par(q) \in D THEN {q} \cup anc[par(q)] ELSE {q}]
<1>1. ASSUME NEW q \in D
      PROVE  Anc(q) = IF par(q) \in D THEN {q} \cup Anc(par(q)) ELSE {q}
  <2>1. q \in Anc(q)
    BY Zenon
  <2>2. CASE par(q) \notin D
    <3>1. {q} \in SUBSET D /\ Closed({q})
      BY <2>2, Zenon
    <3> HIDE DEF D, Closed
    <3>2. \A x \in Anc(q) : x \in {q}
      BY <3>1, Zenon
    <3> QED
      BY <2>1, <2>2, <3>2, Zenon
  <2>3. CASE par(q) \in D
    <3>1. Anc(par(q)) \subseteq Anc(q)
      BY <2>3, Zenon
    <3>2. ASSUME NEW x \in Anc(q), x # q
          PROVE  x \in Anc(par(q))
      <4> SUFFICES ASSUME NEW U \in SUBSET D, par(q) \in U, Closed(U)
                   PROVE  x \in U
        BY <3>2, Zenon
      <4>1. Closed(U \cup {q}) /\ U \cup {q} \in SUBSET D
        BY Zenon
      <4> HIDE DEF Closed
      <4>2. x \in U \cup {q}
        BY <4>1, <3>2, Zenon
      <4> QED
        BY <4>2, <3>2, Zenon
    <3> HIDE DEF Anc
    <3> QED
      BY <2>1, <2>3, <3>1, <3>2, Zenon
  <2> HIDE DEF Anc
  <2> QED
    BY <2>2, <2>3, Zenon
<1>2. g = [q \in D |-> IF par(q) \in D THEN {q} \cup g[par(q)] ELSE {q}]
  <2> HIDE DEF Anc
  <2> QED BY <1>1, Zenon
<1>3. \E anc : anc = [q \in D |-> IF par(q) \in D THEN {q} \cup anc[par(q)] ELSE {q}]
  <2> HIDE DEF g
  <2> QED BY <1>2, Zenon
<1>4. F = [q \in D |-> IF par(q) \in D THEN {q} \cup F[par(q)] ELSE {q}]
  BY <1>3, Zenon
<1>5. \A q : Ancestors(s, q) = F[q]
  BY Zenon DEF Ancestors
<1> HIDE DEF F
<1> QED
  BY <1>4, <1>5, Zenon

\* The ancestors of a block are tracked; none has a higher slot, and none
\* other the same; the root of the tree is among them.
LEMMA AncestorsBelow ==
    ASSUME NEW s, NEW a, TreeOk(s.blocks, a), NEW r \in Tracked(s)
    PROVE  /\ r \in Ancestors(s, r)
           /\ a \in Ancestors(s, r)
           /\ Ancestors(s, r) \subseteq Tracked(s)
           /\ \A q \in Ancestors(s, r) : q # r => s.blocks[q].slot < s.blocks[r].slot
<1> DEFINE Good(q) == /\ q \in Ancestors(s, q)
                      /\ a \in Ancestors(s, q)
                      /\ Ancestors(s, q) \subseteq Tracked(s)
                      /\ \A p \in Ancestors(s, q) : p # q => s.blocks[p].slot < s.blocks[q].slot
           S == {q \in Tracked(s) : Good(q)}
<1>1. a \in S
  <2>1. a \in Tracked(s) /\ Ancestors(s, a) = {a}
    BY AncestorsEquation, Zenon DEF TreeOk, Tracked
  <2> QED
    BY <2>1, Zenon
<1>2. ASSUME NEW q \in Tracked(s) \ {a}, s.blocks[q].parent_root \in S
      PROVE  q \in S
  <2> DEFINE p == s.blocks[q].parent_root
  <2>1. Ancestors(s, q) = {q} \cup Ancestors(s, p)
    BY <1>2, AncestorsEquation, Zenon DEF Tracked
  <2>2. p \in Tracked(s) /\ Good(p)
    BY <1>2, Zenon
  <2>3. s.blocks[p].slot < s.blocks[q].slot
    BY <1>2, Zenon DEF TreeOk, Tracked
  <2>4. \A x \in Tracked(s) : s.blocks[x].slot \in Nat
    BY Zenon DEF TreeOk, Tracked, BlockRecord
  <2> HIDE DEF p
  <2>5. \A x \in Ancestors(s, p) : s.blocks[x].slot < s.blocks[q].slot
    BY <2>2, <2>3, <2>4
  <2> QED
    BY <2>1, <2>2, <2>5, Zenon
<1> HIDE DEF S
<1>3. Tracked(s) \subseteq S
  BY <1>1, <1>2, TreeInduction, Zenon DEF Tracked
<1> QED
  BY <1>3, Zenon DEF S

\* An ancestor of an ancestor is an ancestor.
LEMMA AncestorsTransitive ==
    ASSUME NEW s, NEW a, TreeOk(s.blocks, a), NEW r \in Tracked(s), NEW q \in Ancestors(s, r)
    PROVE  Ancestors(s, q) \subseteq Ancestors(s, r)
<1> DEFINE S == {x \in Tracked(s) : \A y \in Ancestors(s, x) : Ancestors(s, y) \subseteq Ancestors(s, x)}
<1>1. a \in S
  BY AncestorsEquation, Zenon DEF TreeOk, Tracked
<1>2. ASSUME NEW x \in Tracked(s) \ {a}, s.blocks[x].parent_root \in S
      PROVE  x \in S
  <2> DEFINE p == s.blocks[x].parent_root
  <2>1. Ancestors(s, x) = {x} \cup Ancestors(s, p)
    BY <1>2, AncestorsEquation, Zenon
  <2> QED
    BY <1>2, <2>1, Zenon
<1> HIDE DEF S
<1>3. Tracked(s) \subseteq S
  BY <1>1, <1>2, TreeInduction, Zenon DEF Tracked
<1> QED
  BY <1>3, Zenon DEF S

\* Of two ancestors of a block the lower one is an ancestor of the other: a
\* branch does not fork.
LEMMA BranchLinear ==
    ASSUME NEW s, NEW a, TreeOk(s.blocks, a), NEW r \in Tracked(s),
           NEW p \in Ancestors(s, r), NEW q \in Ancestors(s, r),
           s.blocks[p].slot <= s.blocks[q].slot
    PROVE  p \in Ancestors(s, q)
<1> DEFINE S == {x \in Tracked(s) : \A y, z \in Ancestors(s, x) :
                    s.blocks[y].slot <= s.blocks[z].slot => y \in Ancestors(s, z)}
<1>1. a \in S
  <2>1. a \in Tracked(s) /\ Ancestors(s, a) = {a}
    BY AncestorsEquation, Zenon DEF TreeOk, Tracked
  <2> QED
    BY <2>1, Zenon
<1>2. ASSUME NEW x \in Tracked(s) \ {a}, s.blocks[x].parent_root \in S
      PROVE  x \in S
  <2> DEFINE par == s.blocks[x].parent_root
  <2>1. Ancestors(s, x) = {x} \cup Ancestors(s, par)
    BY <1>2, AncestorsEquation, Zenon
  <2>2. \A y \in Ancestors(s, x) : y \in Tracked(s) /\ (y # x => s.blocks[y].slot < s.blocks[x].slot)
    BY AncestorsBelow, Zenon
  <2>3. \A y \in Tracked(s) : s.blocks[y].slot \in Nat
    BY Zenon DEF TreeOk, Tracked, BlockRecord
  <2> SUFFICES ASSUME NEW y \in Ancestors(s, x), NEW z \in Ancestors(s, x),
                      s.blocks[y].slot <= s.blocks[z].slot
               PROVE  y \in Ancestors(s, z)
    BY Zenon
  <2>4. CASE z = x
    BY <2>4, Zenon
  <2>5. CASE z # x
    <3>1. y # x
      BY <2>2, <2>3, <2>5
    <3> QED
      BY <3>1, <2>1, <2>5, <1>2, Zenon
  <2> QED
    BY <2>4, <2>5, Zenon
<1> HIDE DEF S
<1>3. Tracked(s) \subseteq S
  BY <1>1, <1>2, TreeInduction, Zenon DEF Tracked
<1> QED
  BY <1>3, Zenon DEF S

\* Between a block and a proper ancestor there is a child of the ancestor.
LEMMA ChildTowards ==
    ASSUME NEW s, NEW a, TreeOk(s.blocks, a), NEW r \in Tracked(s),
           NEW q \in Ancestors(s, r), q # r
    PROVE  \E c \in Ancestors(s, r) : c \in Tracked(s) \ {a} /\ s.blocks[c].parent_root = q
<1> DEFINE Between(x, y) == \E c \in Ancestors(s, x) : c \in Tracked(s) \ {a} /\ s.blocks[c].parent_root = y
           S == {x \in Tracked(s) : \A y \in Ancestors(s, x) : y # x => Between(x, y)}
<1>1. a \in S
  BY AncestorsEquation, Zenon DEF TreeOk, Tracked
<1>2. ASSUME NEW x \in Tracked(s) \ {a}, s.blocks[x].parent_root \in S
      PROVE  x \in S
  <2> DEFINE par == s.blocks[x].parent_root
  <2>1. Ancestors(s, x) = {x} \cup Ancestors(s, par)
    BY <1>2, AncestorsEquation, Zenon
  <2> SUFFICES ASSUME NEW y \in Ancestors(s, x), y # x
               PROVE  Between(x, y)
    BY Zenon
  <2>2. CASE y = par
    BY <2>1, <2>2, Zenon
  <2>3. CASE y # par
    BY <2>1, <2>3, <1>2, Zenon
  <2> QED
    BY <2>2, <2>3, Zenon
<1> HIDE DEF S
<1>3. Tracked(s) \subseteq S
  BY <1>1, <1>2, TreeInduction, Zenon DEF Tracked
<1> QED
  BY <1>3, Zenon DEF S

\* A branch does not change when blocks are added.
LEMMA AncestorsStable ==
    ASSUME NEW s, NEW t, NEW a, TreeOk(s.blocks, a), TreeOk(t.blocks, a),
           \A r \in Tracked(s) : r \in Tracked(t) /\ t.blocks[r] = s.blocks[r],
           NEW r \in Tracked(s)
    PROVE  Ancestors(t, r) = Ancestors(s, r)
<1> DEFINE S == {x \in Tracked(s) : Ancestors(t, x) = Ancestors(s, x)}
<1>1. a \in S
  <2>1. Ancestors(s, a) = {a} /\ Ancestors(t, a) = {a} /\ a \in Tracked(s)
    BY AncestorsEquation, Zenon DEF TreeOk, Tracked
  <2> QED
    BY <2>1, Zenon
<1>2. ASSUME NEW x \in Tracked(s) \ {a}, s.blocks[x].parent_root \in S
      PROVE  x \in S
  <2> DEFINE par == s.blocks[x].parent_root
  <2>1. par \in Tracked(s) /\ par \in Tracked(t) /\ t.blocks[x].parent_root = par
    BY <1>2, Zenon
  <2>2. Ancestors(s, x) = {x} \cup Ancestors(s, par)
    BY <2>1, AncestorsEquation, Zenon
  <2>3. Ancestors(t, x) = {x} \cup Ancestors(t, par)
    BY <2>1, AncestorsEquation, Zenon
  <2> QED
    BY <1>2, <2>2, <2>3, Zenon
<1> HIDE DEF S
<1>3. Tracked(s) \subseteq S
  BY <1>1, <1>2, TreeInduction, Zenon DEF Tracked
<1> QED
  BY <1>3, Zenon DEF S
-----------------------------------------------------------------------------
(* The head walk *)

\* g[r] is where the walk from r by step ends.
Walks(g, D, Stop, step) ==
    /\ g = [r \in D |-> g[r]]
    /\ \A r \in D : g[r] = IF r \in Stop THEN r ELSE g[step[r]]

\* A walk that repeats a step until it meets a stop is well defined, whether
\* or not it ends: it gives a stop that the walk reaches.
LEMMA TailRecursion ==
    ASSUME NEW D, NEW Stop, NEW step, \A r \in D \ Stop : step[r] \in D
    PROVE  \E g : Walks(g, D, Stop, step)
<1> DEFINE Closed(U) == \A x \in U \ Stop : step[x] \in U
           Reach(r) == {x \in D : \A U \in SUBSET D : r \in U /\ Closed(U) => x \in U}
           End(r) == CHOOSE x : x \in Reach(r) \cap Stop
           g == [r \in D |-> End(r)]
<1>1. ASSUME NEW r \in D, r \in Stop
      PROVE  End(r) = r
  <2>1. Closed({r}) /\ {r} \in SUBSET D
    BY <1>1, Zenon
  <2>2. r \in Reach(r)
    BY Zenon
  <2>3. Reach(r) = {r}
    <3> HIDE DEF Closed
    <3> QED BY <2>1, <2>2, Zenon
  <2> HIDE DEF Reach
  <2>4. Reach(r) \cap Stop = {r}
    BY <2>3, <1>1, Zenon
  <2>5. End(r) \in {r}
    BY <2>4, Zenon
  <2> QED
    BY <2>5, Zenon
<1>2. ASSUME NEW r \in D, r \notin Stop
      PROVE  Reach(r) \cap Stop = Reach(step[r]) \cap Stop
  <2>1. step[r] \in D
    BY <1>2, Zenon
  <2>2. Reach(step[r]) \subseteq Reach(r)
    BY <1>2, <2>1, Zenon
  <2>3. ASSUME NEW x \in Reach(r) \cap Stop
        PROVE  x \in Reach(step[r])
    <3> SUFFICES ASSUME NEW U \in SUBSET D, step[r] \in U, Closed(U)
                 PROVE  x \in U
      BY <2>3, Zenon
    <3>1. Closed(U \cup {r}) /\ U \cup {r} \in SUBSET D
      BY Zenon
    <3>2. x # r
      BY <1>2, <2>3, Zenon
    <3> HIDE DEF Closed
    <3>3. x \in U \cup {r}
      BY <3>1, <2>3, Zenon
    <3> QED
      BY <3>2, <3>3, Zenon
  <2> HIDE DEF Reach
  <2> QED
    BY <2>2, <2>3, Zenon
<1>3. ASSUME NEW r \in D, r \notin Stop
      PROVE  End(r) = End(step[r])
  <2> HIDE DEF Reach
  <2> QED BY <1>2, <1>3, Zenon
<1> HIDE DEF End
<1>4. Walks(g, D, Stop, step)
  BY <1>1, <1>3, Zenon DEF Walks
<1> HIDE DEF g
<1> QED
  BY <1>4, Zenon

\* There are NumValidators validators.
LEMMA ValidatorsFinite == IsFiniteSet(Validators) /\ Cardinality(Validators) = NumValidators
<1>1. NumValidators \in Nat /\ 0 \in Int /\ NumValidators - 1 \in Int /\ ~(0 > NumValidators - 1)
  BY ForkChoiceAssumption
<1>2. /\ IsFiniteSet(0 .. NumValidators - 1)
      /\ Cardinality(0 .. NumValidators - 1) = (NumValidators - 1) - 0 + 1
  BY <1>1, FS_Interval, Zenon
<1> QED
  BY <1>1, <1>2 DEF Validators

\* No block has more votes than there are validators.
LEMMA WeightType ==
    ASSUME NEW s, NEW pool, NEW r
    PROVE  Weight(s, pool, r) \in Nat /\ Weight(s, pool, r) <= NumValidators
<1> DEFINE V == {v \in Validators :
                    /\ pool[v] # NoVote
                    /\ pool[v].head.root \in Tracked(s)
                    /\ s.blocks[r].slot > s.blocks[Origin(s)].slot
                    /\ r \in Ancestors(s, pool[v].head.root)}
<1>1. IsFiniteSet(Validators) /\ Cardinality(Validators) = NumValidators
  BY ValidatorsFinite, Zenon
<1>2. V \in SUBSET Validators
  BY Zenon
<1> HIDE DEF V
<1>3. Cardinality(V) \in Nat /\ Cardinality(V) <= NumValidators
  BY <1>1, <1>2, FS_Subset, FS_CardinalityType, Zenon
<1> QED
  BY <1>3, Zenon DEF Weight, V

\* The children of r that the descent considers, and its order between them.
Candidates(s, pool, min_score, r) ==
    {c \in Tracked(s) : s.blocks[c].parent_root = r /\ Weight(s, pool, c) >= min_score}

Heaviest(s, pool, cs, c) ==
    \A d \in cs \ {c} :
        \/ Weight(s, pool, d) < Weight(s, pool, c)
        \/ Weight(s, pool, d) = Weight(s, pool, c) /\ d < c

\* Of finitely many blocks one is the heaviest.
LEMMA HeaviestExists ==
    ASSUME NEW s, NEW a, TreeOk(s.blocks, a), NEW pool, NEW cs, cs \subseteq Tracked(s), cs # {}
    PROVE  \E c \in cs : Heaviest(s, pool, cs, c)
<1> DEFINE w(c) == Weight(s, pool, c)
           N == NumValidators
<1>1. N \in Nat /\ \A c \in cs : w(c) \in Nat /\ w(c) <= N
  BY WeightType, ForkChoiceAssumption, Zenon
<1>2. PICK bound \in Nat : \A c \in cs : c \in Nat /\ c <= bound
  BY Zenon DEF TreeOk, Tracked
<1> HIDE DEF w, N
<1> DEFINE T == {N - w(c) : c \in cs}
<1>3. T \subseteq Nat /\ T # {}
  BY <1>1
<1>4. PICK n \in T : \A m \in T : n <= m
  <2> HIDE DEF T
  <2> QED BY <1>3, LeastNat, Zenon
<1>5. PICK c0 \in cs : n = N - w(c0)
  BY <1>4, Zenon
<1>6. \A d \in cs : w(d) <= w(c0)
  <2> SUFFICES ASSUME NEW d \in cs PROVE w(d) <= w(c0)
    BY Zenon
  <2>1. N - w(c0) <= N - w(d)
    BY <1>4, <1>5, Zenon
  <2> QED
    BY <2>1, <1>1
<1> DEFINE top == {c \in cs : w(c) = w(c0)}
           U == {bound - c : c \in top}
<1>7. U \subseteq Nat /\ U # {}
  BY <1>2
<1>8. PICK k \in U : \A m \in U : k <= m
  <2> HIDE DEF U
  <2> QED BY <1>7, LeastNat, Zenon
<1>9. PICK c \in top : k = bound - c
  BY <1>8, Zenon
<1>10. \A d \in top : d <= c
  <2> SUFFICES ASSUME NEW d \in top PROVE d <= c
    BY Zenon
  <2>1. bound - c <= bound - d
    BY <1>8, <1>9, Zenon
  <2> QED
    BY <2>1, <1>2
<1>11. ASSUME NEW d \in cs \ {c}
       PROVE  w(d) < w(c) \/ (w(d) = w(c) /\ d < c)
  BY <1>1, <1>2, <1>6, <1>9, <1>10
<1> QED
  BY <1>9, <1>11, Zenon DEF Heaviest, w

\* descend[r] is where the descent from r ends: at a block without candidates,
\* and otherwise it goes on with the heaviest of them.
Descent(descend, s, pool, min_score) ==
    \A r \in Tracked(s) :
        LET cs == Candidates(s, pool, min_score, r)
        IN  IF cs = {} THEN descend[r] = r
            ELSE \E c \in cs : Heaviest(s, pool, cs, c) /\ descend[r] = descend[c]

\* get_fork_choice_head is the descent from the origin.
LEMMA HeadWalk ==
    ASSUME NEW s, NEW a, TreeOk(s.blocks, a), NEW pool, NEW min_score
    PROVE  \E descend :
              /\ GetForkChoiceHead(s, pool, min_score) = descend[Origin(s)]
              /\ Descent(descend, s, pool, min_score)
<1> DEFINE D == Tracked(s)
           weight == [r \in D |-> Weight(s, pool, r)]
           Children(r) == {c \in D : s.blocks[c].parent_root = r /\ weight[c] >= min_score}
           Best(cs) == CHOOSE c \in cs : \A d \in cs \ {c} :
                           weight[d] < weight[c] \/ (weight[d] = weight[c] /\ d < c)
           F == CHOOSE descend : descend =
                    [r \in D |-> IF Children(r) = {} THEN r ELSE descend[Best(Children(r))]]
           Stop == {r \in D : Children(r) = {}}
           step == [r \in D |-> Best(Children(r))]
<1>1. \A r : Children(r) = Candidates(s, pool, min_score, r)
  BY Zenon DEF Candidates
<1>2. ASSUME NEW cs, cs \subseteq D, cs # {}
      PROVE  Best(cs) \in cs /\ Heaviest(s, pool, cs, Best(cs))
  <2>1. \E c \in cs : Heaviest(s, pool, cs, c)
    BY <1>2, HeaviestExists, Zenon
  <2>2. \A c \in cs : Heaviest(s, pool, cs, c) <=>
          \A d \in cs \ {c} : weight[d] < weight[c] \/ (weight[d] = weight[c] /\ d < c)
    BY <1>2, Zenon DEF Heaviest
  <2> HIDE DEF weight
  <2> QED
    BY <2>1, <2>2, Zenon
<1>3. \A r \in D \ Stop : step[r] \in D /\ step[r] = Best(Children(r))
  <2> SUFFICES ASSUME NEW r \in D \ Stop PROVE step[r] \in D /\ step[r] = Best(Children(r))
    BY Zenon
  <2>1. Children(r) \subseteq D /\ Children(r) # {}
    BY Zenon
  <2> HIDE DEF Children, Best
  <2> QED
    BY <2>1, <1>2, Zenon
<1>4. PICK g : Walks(g, D, Stop, step)
  <2>1. \A r \in D \ Stop : step[r] \in D
    BY <1>3, Zenon
  <2> HIDE DEF D, Stop, step
  <2> QED
    BY <2>1, TailRecursion, Zenon
<1>5. g = [r \in D |-> IF Children(r) = {} THEN r ELSE g[Best(Children(r))]]
  <2> HIDE DEF Best, Children
  <2> QED BY <1>4, Zenon DEF Walks
<1>6. F = [r \in D |-> IF Children(r) = {} THEN r ELSE F[Best(Children(r))]]
  <2> HIDE DEF Best, Children
  <2> QED BY <1>5, Zenon
<1>7. GetForkChoiceHead(s, pool, min_score) = F[Origin(s)]
  BY Zenon DEF GetForkChoiceHead
<1> HIDE DEF F, Best, D
<1>8. ASSUME NEW r \in D
      PROVE  LET cs == Candidates(s, pool, min_score, r)
             IN  IF cs = {} THEN F[r] = r
                 ELSE \E c \in cs : Heaviest(s, pool, cs, c) /\ F[r] = F[c]
  <2> DEFINE cs == Candidates(s, pool, min_score, r)
  <2>1. cs = Children(r) /\ cs \subseteq D
    BY <1>1, Zenon
  <2>2. F[r] = IF cs = {} THEN r ELSE F[Best(cs)]
    <3> HIDE DEF cs, Children
    <3> QED BY <1>6, <2>1, Zenon
  <2>3. cs # {} => Best(cs) \in cs /\ Heaviest(s, pool, cs, Best(cs))
    BY <2>1, <1>2, Zenon
  <2> QED
    BY <2>2, <2>3, Zenon
<1> QED
  BY <1>7, <1>8, Zenon DEF D, Descent

\* A child lies above its parent.
LEMMA ChildAbove ==
    ASSUME NEW s, NEW a, TreeOk(s.blocks, a), NEW c \in Tracked(s), s.blocks[c].parent_root \in Tracked(s)
    PROVE  /\ c # a
           /\ s.blocks[s.blocks[c].parent_root].slot < s.blocks[c].slot
           /\ Ancestors(s, c) = {c} \cup Ancestors(s, s.blocks[c].parent_root)
<1>1. c # a
  BY Zenon DEF TreeOk, Tracked
<1> QED
  BY <1>1, AncestorsEquation, Zenon DEF TreeOk, Tracked

\* The descent ends at a tracked block above its start that has no candidates,
\* and, unless it ends where it starts, at one that has the least weight asked
\* for.
LEMMA DescentEnd ==
    ASSUME NEW s, NEW a, TreeOk(s.blocks, a), NEW pool, NEW min_score,
           NEW descend, Descent(descend, s, pool, min_score),
           NEW r \in Tracked(s)
    PROVE  /\ descend[r] \in Tracked(s)
           /\ r \in Ancestors(s, descend[r])
           /\ descend[r] = r \/ Weight(s, pool, descend[r]) >= min_score
           /\ Candidates(s, pool, min_score, descend[r]) = {}
<1> DEFINE Good(q) == /\ descend[q] \in Tracked(s)
                      /\ q \in Ancestors(s, descend[q])
                      /\ descend[q] = q \/ Weight(s, pool, descend[q]) >= min_score
                      /\ Candidates(s, pool, min_score, descend[q]) = {}
           S == {q \in Tracked(s) : Good(q)}
<1>1. ASSUME NEW q \in Tracked(s),
             \A c \in Tracked(s) : s.blocks[c].slot > s.blocks[q].slot => c \in S
      PROVE  q \in S
  <2> DEFINE cs == Candidates(s, pool, min_score, q)
  <2>1. CASE cs = {}
    <3>1. descend[q] = q
      BY <2>1, Zenon DEF Descent
    <3> QED
      BY <2>1, <3>1, AncestorsBelow, Zenon
  <2>2. CASE cs # {}
    <3>1. PICK c \in cs : descend[q] = descend[c]
      BY <2>2, Zenon DEF Descent
    <3>2. c \in Tracked(s) /\ s.blocks[c].parent_root = q /\ Weight(s, pool, c) >= min_score
      BY <3>1, Zenon DEF Candidates
    <3>3. s.blocks[q].slot < s.blocks[c].slot /\ Ancestors(s, c) = {c} \cup Ancestors(s, q)
      BY <3>2, ChildAbove, Zenon
    <3>4. s.blocks[q].slot \in Nat /\ s.blocks[c].slot \in Nat
      BY <3>2, Zenon DEF TreeOk, Tracked, BlockRecord
    <3>5. Good(c)
      BY <1>1, <3>2, <3>3, <3>4, Zenon
    <3>6. q \in Ancestors(s, c)
      BY <3>3, AncestorsBelow, Zenon
    <3>7. q \in Ancestors(s, descend[c])
      BY <3>2, <3>5, <3>6, AncestorsTransitive, Zenon
    <3> QED
      BY <3>1, <3>2, <3>5, <3>7, Zenon
  <2> QED
    BY <2>1, <2>2, Zenon
<1> HIDE DEF S
<1>2. Tracked(s) \subseteq S
  BY <1>1, DescentInduction, Zenon DEF Tracked
<1> QED
  BY <1>2, Zenon DEF S

\* The head is tracked and descends from the origin; it is the origin or has
\* the weight asked for.
LEMMA HeadDescends ==
    ASSUME NEW s, NEW a, TreeOk(s.blocks, a), NEW pool, NEW min_score, Origin(s) \in Tracked(s)
    PROVE  LET h == GetForkChoiceHead(s, pool, min_score)
           IN  /\ h \in Tracked(s)
               /\ Origin(s) \in Ancestors(s, h)
               /\ h = Origin(s) \/ Weight(s, pool, h) >= min_score
<1>1. PICK descend : /\ GetForkChoiceHead(s, pool, min_score) = descend[Origin(s)]
                     /\ Descent(descend, s, pool, min_score)
  BY HeadWalk, Zenon
<1>2. /\ descend[Origin(s)] \in Tracked(s)
      /\ Origin(s) \in Ancestors(s, descend[Origin(s)])
      /\ descend[Origin(s)] = Origin(s) \/ Weight(s, pool, descend[Origin(s)]) >= min_score
  BY <1>1, DescentEnd, Zenon
<1> QED
  BY <1>1, <1>2, Zenon

\* The head has no child: every child has a weight of at least zero.
LEMMA HeadIsLeaf ==
    ASSUME NEW s, NEW a, TreeOk(s.blocks, a), NEW pool, Origin(s) \in Tracked(s)
    PROVE  \A c \in Tracked(s) : s.blocks[c].parent_root # GetForkChoiceHead(s, pool, 0)
<1>1. PICK descend : /\ GetForkChoiceHead(s, pool, 0) = descend[Origin(s)]
                     /\ Descent(descend, s, pool, 0)
  BY HeadWalk, Zenon
<1>2. Candidates(s, pool, 0, descend[Origin(s)]) = {}
  BY <1>1, DescentEnd, Zenon
<1>3. \A c : Weight(s, pool, c) >= 0
  BY WeightType
<1> QED
  BY <1>1, <1>2, <1>3, Zenon DEF Candidates

\* The validators whose votes in the pool are for r's branch.
Supporters(s, pool, r) ==
    {v \in Validators : pool[v] # NoVote /\ r \in Ancestors(s, pool[v].head.root)}

\* Every vote of the pool is for a tracked block, and its target is one at its
\* own slot.
VotesTracked(s, pool) ==
    \A v \in Validators : pool[v] # NoVote =>
        /\ pool[v].head.root \in Tracked(s)
        /\ pool[v].target.root \in Tracked(s)
        /\ pool[v].target.slot = s.blocks[pool[v].target.root].slot

\* Above the origin, a block weighs what its supporters number.
LEMMA WeightCounts ==
    ASSUME NEW s, NEW pool, VotesTracked(s, pool), NEW r,
           s.blocks[r].slot > s.blocks[Origin(s)].slot
    PROVE  Weight(s, pool, r) = Cardinality(Supporters(s, pool, r))
<1>1. Supporters(s, pool, r) =
        {v \in Validators :
            /\ pool[v] # NoVote
            /\ pool[v].head.root \in Tracked(s)
            /\ s.blocks[r].slot > s.blocks[Origin(s)].slot
            /\ r \in Ancestors(s, pool[v].head.root)}
  BY Zenon DEF Supporters, VotesTracked
<1> QED
  BY <1>1, Zenon DEF Weight

\* Siblings have no supporter in common.
LEMMA SiblingsDisjoint ==
    ASSUME NEW s, NEW a, TreeOk(s.blocks, a), NEW pool, VotesTracked(s, pool),
           NEW c \in Tracked(s), NEW d \in Tracked(s), c # d,
           s.blocks[c].parent_root = s.blocks[d].parent_root,
           s.blocks[c].parent_root \in Tracked(s)
    PROVE  Supporters(s, pool, c) \cap Supporters(s, pool, d) = {}
<1> SUFFICES ASSUME NEW v \in Supporters(s, pool, c) \cap Supporters(s, pool, d) PROVE FALSE
  BY Zenon
<1> DEFINE h == pool[v].head.root
           p == s.blocks[c].parent_root
<1>1. h \in Tracked(s) /\ c \in Ancestors(s, h) /\ d \in Ancestors(s, h)
  BY Zenon DEF Supporters, VotesTracked
<1>2. /\ s.blocks[p].slot < s.blocks[c].slot /\ Ancestors(s, c) = {c} \cup Ancestors(s, p)
      /\ s.blocks[p].slot < s.blocks[d].slot /\ Ancestors(s, d) = {d} \cup Ancestors(s, p)
  <2>1. s.blocks[p].slot < s.blocks[c].slot /\ Ancestors(s, c) = {c} \cup Ancestors(s, p)
    BY ChildAbove, Zenon
  <2>2. s.blocks[d].parent_root \in Tracked(s)
    BY Zenon
  <2>3. /\ s.blocks[s.blocks[d].parent_root].slot < s.blocks[d].slot
        /\ Ancestors(s, d) = {d} \cup Ancestors(s, s.blocks[d].parent_root)
    BY <2>2, ChildAbove, Zenon
  <2> QED
    BY <2>1, <2>3, Zenon
<1>3. s.blocks[p].slot \in Nat /\ s.blocks[c].slot \in Nat /\ s.blocks[d].slot \in Nat
  BY Zenon DEF TreeOk, Tracked, BlockRecord
<1>4. c \in Ancestors(s, d) \/ d \in Ancestors(s, c)
  BY <1>1, <1>3, BranchLinear
<1>5. c \in Ancestors(s, p) \/ d \in Ancestors(s, p)
  BY <1>2, <1>4, Zenon
<1>6. \A q \in Ancestors(s, p) : q # p => s.blocks[q].slot < s.blocks[p].slot
  BY AncestorsBelow, Zenon
<1> QED
  BY <1>2, <1>3, <1>5, <1>6

\* A branch above the origin with the votes of more than half of the
\* validators contains the head.
LEMMA MajorityWins ==
    ASSUME NEW s, NEW a, TreeOk(s.blocks, a), NEW pool, VotesTracked(s, pool),
           Origin(s) \in Tracked(s),
           NEW r \in Tracked(s), Origin(s) \in Ancestors(s, r),
           2 * Cardinality(Supporters(s, pool, r)) > NumValidators
    PROVE  r \in Ancestors(s, GetForkChoiceHead(s, pool, 0))
<1> DEFINE Sup(c) == Supporters(s, pool, c)
           w(c) == Weight(s, pool, c)
<1>1. PICK descend : /\ GetForkChoiceHead(s, pool, 0) = descend[Origin(s)]
                     /\ Descent(descend, s, pool, 0)
  BY HeadWalk, Zenon
<1>2. \A c \in Tracked(s) : s.blocks[c].slot \in Nat
  BY Zenon DEF TreeOk, Tracked, BlockRecord
<1>3. \A c : Sup(c) \subseteq Validators /\ IsFiniteSet(Sup(c)) /\ Cardinality(Sup(c)) \in Nat
  <2>1. \A c : Sup(c) \in SUBSET Validators
    BY Zenon DEF Supporters
  <2> HIDE DEF Sup
  <2> QED
    BY <2>1, ValidatorsFinite, FS_Subset, FS_CardinalityType, Zenon
<1> DEFINE S == {c \in Tracked(s) :
                    Origin(s) \in Ancestors(s, c) /\ c \in Ancestors(s, r) => r \in Ancestors(s, descend[c])}
<1>4. ASSUME NEW c \in Tracked(s),
             \A d \in Tracked(s) : s.blocks[d].slot > s.blocks[c].slot => d \in S
      PROVE  c \in S
  <2> SUFFICES ASSUME Origin(s) \in Ancestors(s, c), c \in Ancestors(s, r)
               PROVE  r \in Ancestors(s, descend[c])
    BY Zenon
  <2>1. CASE c = r
    BY <1>1, <2>1, DescentEnd, Zenon
  <2>2. CASE c # r
    <3>1. PICK d \in Ancestors(s, r) : d \in Tracked(s) /\ s.blocks[d].parent_root = c
      BY <2>2, ChildTowards
    <3>2. s.blocks[c].slot < s.blocks[d].slot /\ Ancestors(s, d) = {d} \cup Ancestors(s, c)
      BY <3>1, ChildAbove, Zenon
    <3>3. s.blocks[Origin(s)].slot <= s.blocks[c].slot
      <4>1. /\ Origin(s) \in Tracked(s)
            /\ Origin(s) # c => s.blocks[Origin(s)].slot < s.blocks[c].slot
        BY AncestorsBelow, Zenon
      <4> QED
        BY <4>1, <1>2
    <3>4. Sup(r) \subseteq Sup(d)
      BY <3>1, AncestorsTransitive, Zenon DEF Supporters, VotesTracked
    <3>5. w(d) = Cardinality(Sup(d)) /\ 2 * w(d) > NumValidators
      <4>1. w(d) = Cardinality(Sup(d))
        BY <1>2, <3>1, <3>2, <3>3, WeightCounts
      <4>2. Cardinality(Sup(r)) <= Cardinality(Sup(d))
        BY <1>3, <3>4, FS_Subset, Zenon
      <4> HIDE DEF Sup
      <4> QED
        BY <4>1, <4>2, <1>3, ForkChoiceAssumption DEF Sup
    <3> DEFINE cs == Candidates(s, pool, 0, c)
    <3>6. d \in cs
      BY <3>1, WeightType DEF Candidates
    <3>7. PICK e \in cs : Heaviest(s, pool, cs, e) /\ descend[c] = descend[e]
      BY <1>1, <3>6, Zenon DEF Descent
    <3>8. e = d
      <4> SUFFICES ASSUME e # d PROVE FALSE
        BY Zenon
      <4>1. w(d) <= w(e)
        BY <3>6, <3>7, WeightType DEF Heaviest
      <4>2. e \in Tracked(s) /\ s.blocks[e].parent_root = c
        BY <3>7, Zenon DEF Candidates
      <4>3. s.blocks[c].slot < s.blocks[e].slot
        BY <4>2, ChildAbove, Zenon
      <4>4. w(e) = Cardinality(Sup(e))
        BY <1>2, <3>3, <4>2, <4>3, WeightCounts
      <4>5. Cardinality(Sup(d)) + Cardinality(Sup(e)) > Cardinality(Validators)
        <5>1. w(d) \in Nat /\ w(e) \in Nat /\ NumValidators \in Nat
          BY WeightType, ForkChoiceAssumption, Zenon
        <5> QED
          BY <3>5, <4>1, <4>4, <5>1, ValidatorsFinite
      <4>6. Sup(d) \cap Sup(e) # {}
        <5> HIDE DEF Sup
        <5> QED BY <4>5, <1>3, ValidatorsFinite, FS_MajoritiesIntersect, Zenon
      <4> QED
        BY <4>2, <4>6, <3>1, SiblingsDisjoint, Zenon
    <3>9. d \in S
      BY <1>4, <1>2, <3>1, <3>2, Zenon
    <3> QED
      BY <3>1, <3>2, <3>7, <3>8, <3>9, Zenon
  <2> QED
    BY <2>1, <2>2, Zenon
<1> HIDE DEF S
<1>5. Tracked(s) \subseteq S
  BY <1>4, DescentInduction, Zenon DEF Tracked
<1>6. Origin(s) \in Ancestors(s, Origin(s))
  BY AncestorsBelow, Zenon
<1> QED
  BY <1>1, <1>5, <1>6, Zenon DEF S
-----------------------------------------------------------------------------
(* The target of a vote *)

\* One step of the first walk of get_vote_target.
StepBack(s, floor, q) == IF s.blocks[q].slot <= floor THEN q ELSE s.blocks[q].parent_root

\* The first walk of get_vote_target takes three such steps.
LEMMA WalkBackSteps ==
    ASSUME NEW s, NEW r, NEW floor
    PROVE  WalkBack(s, r, JustificationLookbackSlots, floor) =
               StepBack(s, floor, StepBack(s, floor, StepBack(s, floor, r)))
<1> DEFINE st(q) == StepBack(s, floor, q)
           g == [i \in 0 .. 3 |-> IF i = 0 THEN r
                                  ELSE IF i = 1 THEN st(r)
                                  ELSE IF i = 2 THEN st(st(r))
                                  ELSE st(st(st(r)))]
           F == CHOOSE walk : walk =
                    [i \in 0 .. 3 |->
                        IF i = 0 THEN r
                        ELSE IF s.blocks[walk[i - 1]].slot <= floor THEN walk[i - 1]
                        ELSE s.blocks[walk[i - 1]].parent_root]
<1>1. ASSUME NEW i \in 0 .. 3
      PROVE  g[i] = IF i = 0 THEN r ELSE st(g[i - 1])
  <2> HIDE DEF st
  <2>1. i \in {0, 1, 2, 3}
    OBVIOUS
  <2>2. g[0] = r /\ g[1] = st(r) /\ g[2] = st(st(r)) /\ g[3] = st(st(st(r)))
    OBVIOUS
  <2> HIDE DEF g
  <2>3. i = 0 \/ (i = 1 /\ i - 1 = 0) \/ (i = 2 /\ i - 1 = 1) \/ (i = 3 /\ i - 1 = 2)
    BY <2>1
  <2> QED
    BY <2>2, <2>3, Zenon
<1>2. g = [i \in 0 .. 3 |->
              IF i = 0 THEN r
              ELSE IF s.blocks[g[i - 1]].slot <= floor THEN g[i - 1]
              ELSE s.blocks[g[i - 1]].parent_root]
  <2>1. g = [i \in 0 .. 3 |-> g[i]]
    BY Zenon
  <2> HIDE DEF g
  <2> QED
    BY <1>1, <2>1, Zenon DEF StepBack
<1>3. F = [i \in 0 .. 3 |->
              IF i = 0 THEN r
              ELSE IF s.blocks[F[i - 1]].slot <= floor THEN F[i - 1]
              ELSE s.blocks[F[i - 1]].parent_root]
  <2> HIDE DEF g
  <2> QED BY <1>2, Zenon
<1>4. WalkBack(s, r, JustificationLookbackSlots, floor) = F[3]
  BY Zenon DEF WalkBack, JustificationLookbackSlots
<1> HIDE DEF F
<1>5. F[0] = r /\ F[1] = st(F[0]) /\ F[2] = st(F[1]) /\ F[3] = st(F[2])
  <2>1. \A i \in 0 .. 3 : F[i] = IF i = 0 THEN r
              ELSE IF s.blocks[F[i - 1]].slot <= floor THEN F[i - 1]
              ELSE s.blocks[F[i - 1]].parent_root
    BY <1>3, Zenon
  <2>2. F[0] = r
    BY <2>1
  <2>3. F[1] = st(F[0])
    BY <2>1 DEF StepBack
  <2>4. F[2] = st(F[1])
    BY <2>1 DEF StepBack
  <2>5. F[3] = st(F[2])
    BY <2>1 DEF StepBack
  <2> QED
    BY <2>2, <2>3, <2>4, <2>5, Zenon
<1> QED
  BY <1>4, <1>5, Zenon

\* The second walk of get_vote_target goes on at q.
Unjustifiable(s, finalized, q) ==
    s.blocks[q].slot > finalized /\ ~IsJustifiableAfter(s.blocks[q].slot, finalized)

\* get_vote_target is the second walk from the end of the first.
LEMMA TargetWalk ==
    ASSUME NEW s, NEW a, TreeOk(s.blocks, a), s.latest_finalized.slot >= s.blocks[a].slot,
           s.latest_finalized.slot \in Nat
    PROVE  LET finalized == s.latest_finalized.slot
               safe == s.blocks[s.safe_target].slot
               floor == IF safe > finalized THEN safe ELSE finalized
           IN  \E back :
                  /\ LET x == back[WalkBack(s, s.head, JustificationLookbackSlots, floor)]
                     IN  GetVoteTarget(s) = Checkpoint(x, s.blocks[x].slot)
                  /\ \A r \in Tracked(s) :
                        back[r] = IF Unjustifiable(s, finalized, r)
                                  THEN back[s.blocks[r].parent_root] ELSE r
<1> DEFINE D == Tracked(s)
           finalized == s.latest_finalized.slot
           safe == s.blocks[s.safe_target].slot
           floor == IF safe > finalized THEN safe ELSE finalized
           cursor == WalkBack(s, s.head, JustificationLookbackSlots, floor)
           F == CHOOSE back : back =
                  [r \in D |->
                      IF /\ s.blocks[r].slot > finalized
                         /\ ~IsJustifiableAfter(s.blocks[r].slot, finalized)
                      THEN back[s.blocks[r].parent_root]
                      ELSE r]
           Stop == {r \in D : ~Unjustifiable(s, finalized, r)}
           step == [r \in D |-> s.blocks[r].parent_root]
<1>1. \A r \in D \ Stop : step[r] \in D
  <2> SUFFICES ASSUME NEW r \in D, Unjustifiable(s, finalized, r)
               PROVE  s.blocks[r].parent_root \in D
    BY Zenon
  <2>1. s.blocks[r].slot > s.latest_finalized.slot /\ s.blocks[r].slot \in Nat
        /\ s.blocks[a].slot \in Nat
    BY Zenon DEF Unjustifiable, TreeOk, Tracked, BlockRecord
  <2>2. r # a
    BY <2>1
  <2> QED
    BY <2>2, Zenon DEF TreeOk, Tracked
<1>2. PICK g : Walks(g, D, Stop, step)
  <2> HIDE DEF D, Stop, step
  <2> QED BY <1>1, TailRecursion, Zenon
<1>3. g = [r \in D |->
              IF /\ s.blocks[r].slot > finalized
                 /\ ~IsJustifiableAfter(s.blocks[r].slot, finalized)
              THEN g[s.blocks[r].parent_root]
              ELSE r]
  BY <1>2, Zenon DEF Walks, Unjustifiable
<1>4. F = [r \in D |->
              IF /\ s.blocks[r].slot > finalized
                 /\ ~IsJustifiableAfter(s.blocks[r].slot, finalized)
              THEN F[s.blocks[r].parent_root]
              ELSE r]
  BY <1>3, Zenon
<1>5. GetVoteTarget(s) = Checkpoint(F[cursor], s.blocks[F[cursor]].slot)
  BY Zenon DEF GetVoteTarget
<1> HIDE DEF F
<1>6. \A r \in D : F[r] = IF Unjustifiable(s, finalized, r) THEN F[s.blocks[r].parent_root] ELSE r
  BY <1>4, Zenon DEF Unjustifiable
<1> QED
  BY <1>5, <1>6, Zenon

\* The target of a vote is a block of the head's branch, under its own slot;
\* and if the finalized block is on that branch too, a justifiable one: the
\* walks stop at the finalized block at the latest.
LEMMA TargetOnBranch ==
    ASSUME NEW s, NEW a, TreeOk(s.blocks, a), s.head \in Tracked(s), s.safe_target \in Tracked(s),
           s.latest_finalized.slot \in Nat, s.latest_finalized.slot >= s.blocks[a].slot
    PROVE  \E x \in Ancestors(s, s.head) :
              /\ GetVoteTarget(s) = Checkpoint(x, s.blocks[x].slot)
              /\ \A f \in Ancestors(s, s.head) :
                    s.blocks[f].slot = s.latest_finalized.slot =>
                        IsJustifiableAfter(s.blocks[x].slot, s.latest_finalized.slot)
<1> DEFINE fin == s.latest_finalized.slot
           safe == s.blocks[s.safe_target].slot
           floor == IF safe > fin THEN safe ELSE fin
           Below(q) == {f \in Ancestors(s, q) : s.blocks[f].slot = fin}
<1>1. /\ \A q \in Tracked(s) : s.blocks[q].slot \in Nat
      /\ floor \in Nat /\ floor >= fin
      /\ a \in Tracked(s)
  BY DEF TreeOk, Tracked, BlockRecord
<1>2. PICK back :
        /\ LET x == back[WalkBack(s, s.head, JustificationLookbackSlots, floor)]
           IN  GetVoteTarget(s) = Checkpoint(x, s.blocks[x].slot)
        /\ \A r \in Tracked(s) :
              back[r] = IF Unjustifiable(s, fin, r) THEN back[s.blocks[r].parent_root] ELSE r
  BY TargetWalk, Zenon
<1> HIDE DEF floor
\* A step back from above the finalized slot.
<1>3. ASSUME NEW q \in Tracked(s), s.blocks[q].slot > fin
      PROVE  LET p == s.blocks[q].parent_root
             IN  p \in Tracked(s) /\ Ancestors(s, p) \subseteq Ancestors(s, q) /\ p \in Ancestors(s, q)
                 /\ Below(q) \subseteq Below(p)
  <2> DEFINE p == s.blocks[q].parent_root
  <2>1. q # a
    BY <1>1, <1>3
  <2>2. p \in Tracked(s)
    BY <2>1, Zenon DEF TreeOk, Tracked
  <2>3. Ancestors(s, q) = {q} \cup Ancestors(s, p)
    BY <2>2, AncestorsEquation, Zenon
  <2>4. p \in Ancestors(s, p)
    BY <2>2, AncestorsBelow, Zenon
  <2> QED
    BY <1>1, <1>3, <2>2, <2>3, <2>4
<1> DEFINE Within(q, r) == q \in Tracked(s) /\ q \in Ancestors(s, r) /\ Below(r) \subseteq Below(q)
<1>4. \A q \in Tracked(s) : Within(StepBack(s, floor, q), q)
  <2> SUFFICES ASSUME NEW q \in Tracked(s) PROVE Within(StepBack(s, floor, q), q)
    BY Zenon
  <2>1. q \in Ancestors(s, q)
    BY AncestorsBelow, Zenon
  <2>2. CASE s.blocks[q].slot <= floor
    BY <2>1, <2>2, Zenon DEF StepBack
  <2>3. CASE ~(s.blocks[q].slot <= floor)
    <3>1. s.blocks[q].slot > fin
      BY <2>3, <1>1
    <3> QED
      BY <3>1, <2>3, <1>3, Zenon DEF StepBack
  <2> QED
    BY <2>2, <2>3, Zenon
<1>5. \A p, q, r : r \in Tracked(s) /\ Within(q, r) /\ Within(p, q) => Within(p, r)
  BY AncestorsTransitive, Zenon
<1> DEFINE cursor == WalkBack(s, s.head, JustificationLookbackSlots, floor)
<1>6. Within(cursor, s.head)
  <2> HIDE DEF Within
  <2> DEFINE q1 == StepBack(s, floor, s.head)
             q2 == StepBack(s, floor, q1)
             q3 == StepBack(s, floor, q2)
  <2>1. Within(q1, s.head) /\ q1 \in Tracked(s)
    BY <1>4, Zenon DEF Within
  <2>2. Within(q2, q1) /\ q2 \in Tracked(s)
    BY <1>4, <2>1, Zenon DEF Within
  <2>3. Within(q3, q2)
    BY <1>4, <2>2, Zenon
  <2>4. cursor = q3
    BY WalkBackSteps, Zenon
  <2> HIDE DEF q1, q2, q3, cursor
  <2> QED
    BY <1>5, <2>1, <2>2, <2>3, <2>4, Zenon
<1> DEFINE S == {q \in Tracked(s) : Within(back[q], q) /\ ~Unjustifiable(s, fin, back[q])}
<1>7. Tracked(s) \subseteq S
  <2>1. ASSUME NEW q \in Tracked(s), ~Unjustifiable(s, fin, q)
        PROVE  q \in S
    BY <1>2, <2>1, AncestorsBelow, Zenon
  <2>2. a \in S
    BY <1>1, <2>1 DEF Unjustifiable
  <2>3. ASSUME NEW q \in Tracked(s) \ {a}, s.blocks[q].parent_root \in S
        PROVE  q \in S
    <3>1. CASE Unjustifiable(s, fin, q)
      <4>1. back[q] = back[s.blocks[q].parent_root]
        BY <1>2, <3>1, Zenon
      <4>2. Within(s.blocks[q].parent_root, q)
        BY <1>3, <3>1, Zenon DEF Unjustifiable
      <4> HIDE DEF Within
      <4> QED
        BY <2>3, <4>1, <4>2, <1>5, Zenon
    <3> QED
      BY <2>1, <3>1, Zenon
  <2> HIDE DEF S
  <2> QED
    BY <2>2, <2>3, TreeInduction, Zenon DEF Tracked
<1> DEFINE x == back[cursor]
<1>8. Within(x, s.head) /\ ~Unjustifiable(s, fin, x)
  <2>1. cursor \in S
    BY <1>6, <1>7, Zenon
  <2>2. Within(x, cursor) /\ ~Unjustifiable(s, fin, x)
    BY <2>1, Zenon
  <2> HIDE DEF Within, cursor, x
  <2> QED
    BY <2>2, <1>5, <1>6, Zenon
<1>9. ASSUME NEW f \in Ancestors(s, s.head), s.blocks[f].slot = fin
      PROVE  IsJustifiableAfter(s.blocks[x].slot, fin)
  <2>1. f \in Ancestors(s, x) /\ x \in Tracked(s)
    BY <1>8, <1>9, Zenon
  <2>2. f \in Tracked(s) /\ (f # x => s.blocks[f].slot < s.blocks[x].slot)
    BY <2>1, AncestorsBelow, Zenon
  <2>3. CASE s.blocks[x].slot > fin
    BY <2>3, <1>8, Zenon DEF Unjustifiable
  <2>4. CASE ~(s.blocks[x].slot > fin)
    <3>1. s.blocks[x].slot = fin
      BY <2>1, <2>2, <2>4, <1>1, <1>9, Zenon
    <3> QED
      BY <3>1 DEF IsJustifiableAfter
  <2> QED
    BY <2>3, <2>4, Zenon
<1> QED
  BY <1>2, <1>8, <1>9, Zenon
-----------------------------------------------------------------------------
(* The store *)

StoreFields == {"time", "head", "safe_target", "latest_justified", "latest_finalized",
                "blocks", "known_votes", "new_votes"}

\* s is a record with the fields of Store.
IsStore(s) == s = [f \in StoreFields |-> s[f]]

\* t has the blocks and the checkpoints of s.
SameChain(s, t) ==
    /\ IsStore(t)
    /\ t.blocks = s.blocks
    /\ t.latest_justified = s.latest_justified
    /\ t.latest_finalized = s.latest_finalized

\* Two operations that leave the chain alone compose.
LEMMA SameChainTransitive ==
    ASSUME NEW s, NEW t, NEW u, SameChain(s, t), SameChain(t, u)
    PROVE  SameChain(s, u)
BY Zenon DEF SameChain

\* accept_new_votes changes votes and head only.
LEMMA AcceptSameChain ==
    ASSUME NEW s, IsStore(s)
    PROVE  SameChain(s, AcceptNewVotes(s))
BY Zenon DEF AcceptNewVotes, SameChain, IsStore, StoreFields

\* update_safe_target changes the safe target only.
LEMMA SafeTargetSameChain ==
    ASSUME NEW s, IsStore(s)
    PROVE  SameChain(s, UpdateSafeTarget(s))
BY Zenon DEF UpdateSafeTarget, SameChain, IsStore, StoreFields

\* tick_interval changes the clock and runs at most one of the two hooks.
LEMMA TickSameChain ==
    ASSUME NEW s, NEW p, IsStore(s)
    PROVE  SameChain(s, TickInterval(s, p))
<1> DEFINE t == [s EXCEPT !.time = @ + 1]
<1>1. SameChain(s, t)
  BY Zenon DEF SameChain, IsStore, StoreFields
<1>2. IsStore(t)
  BY <1>1, Zenon DEF SameChain
<1> HIDE DEF t
<1>3. SameChain(t, AcceptNewVotes(t)) /\ SameChain(t, UpdateSafeTarget(t))
  BY <1>2, AcceptSameChain, SafeTargetSameChain, Zenon
<1>4. TickInterval(s, p) \in {t, AcceptNewVotes(t), UpdateSafeTarget(t)}
  BY Zenon DEF TickInterval, t
<1> QED
  BY <1>1, <1>3, <1>4, SameChainTransitive

\* A gossip vote changes the pending pool only.
LEMMA GossipSameChain ==
    ASSUME NEW s, NEW v, NEW vote, IsStore(s)
    PROVE  SameChain(s, GossipVote(s, v, vote))
BY Zenon DEF GossipVote, SameChain, IsStore, StoreFields

\* The votes of a body change the two pools only.
LEMMA FoldSameChain ==
    ASSUME NEW s, NEW body, IsStore(s)
    PROVE  SameChain(s, FoldBlockAttestations(s, body))
BY Zenon DEF FoldBlockAttestations, SameChain, IsStore, StoreFields

\* The checkpoint of the store after adopt_post_state_checkpoints.
Adopted(s, candidate, current) ==
    IF candidate.slot > current.slot /\ candidate.root \in Tracked(s) THEN candidate ELSE current

\* t is s with block b added and the checkpoints of its post-state adopted,
\* each on its own.
Tracks(s, b, post, t) ==
    /\ IsStore(t)
    /\ Tracked(t) = Tracked(s) \cup {b.root}
    /\ \A r \in Tracked(s) : t.blocks[r] = s.blocks[r]
    /\ t.blocks[b.root] = [slot |-> b.slot, parent_root |-> b.parent_root, post |-> post]
    /\ t.latest_justified = Adopted(t, post.justified, s.latest_justified)
    /\ t.latest_finalized = Adopted(t, post.finalized, s.latest_finalized)
    /\ \A x \in {"time", "head", "safe_target", "known_votes", "new_votes"} : t[x] = s[x]

\* That is what track_block does.
LEMMA TrackFields ==
    ASSUME NEW s, IsStore(s), NEW b, b.root \notin Tracked(s), NEW post
    PROVE  Tracks(s, b, post, TrackBlock(s, b, post))
<1> DEFINE j == post.justified
           f == post.finalized
           blocks == [r \in Tracked(s) \cup {b.root} |->
                         IF r \in Tracked(s) THEN s.blocks[r]
                         ELSE [slot |-> b.slot, parent_root |-> b.parent_root, post |-> post]]
           t0 == [s EXCEPT !.blocks = blocks]
           t == TrackBlock(s, b, post)
<1>1. /\ DOMAIN blocks = Tracked(s) \cup {b.root}
      /\ \A r \in Tracked(s) : blocks[r] = s.blocks[r]
      /\ blocks[b.root] = [slot |-> b.slot, parent_root |-> b.parent_root, post |-> post]
  BY Zenon
<1>2. /\ IsStore(t0) /\ t0.blocks = blocks
      /\ \A x \in StoreFields \ {"blocks"} : t0[x] = s[x]
  BY Zenon DEF IsStore, StoreFields
<1>3. t = [t0 EXCEPT
             !.latest_justified = IF ShouldAdopt(t0, j, @) THEN j ELSE @,
             !.latest_finalized = IF ShouldAdopt(t0, f, @) THEN f ELSE @]
  BY Zenon DEF TrackBlock
<1> HIDE DEF t0, t, blocks
<1>4. /\ IsStore(t) /\ t.blocks = blocks
      /\ \A x \in StoreFields \ {"latest_justified", "latest_finalized"} : t[x] = t0[x]
      /\ t.latest_justified = IF ShouldAdopt(t0, j, t0.latest_justified) THEN j ELSE t0.latest_justified
      /\ t.latest_finalized = IF ShouldAdopt(t0, f, t0.latest_finalized) THEN f ELSE t0.latest_finalized
  BY <1>2, <1>3, Zenon DEF IsStore, StoreFields
<1>5. t0.latest_justified = s.latest_justified /\ t0.latest_finalized = s.latest_finalized
  BY <1>2, Zenon DEF StoreFields
<1>6. Tracked(t) = DOMAIN blocks /\ Tracked(t0) = DOMAIN blocks
  BY <1>2, <1>4, Zenon DEF Tracked
<1>7. \A x \in {"time", "head", "safe_target", "known_votes", "new_votes"} : t[x] = s[x]
  BY <1>2, <1>4, Zenon DEF StoreFields
<1> QED
  BY <1>1, <1>4, <1>5, <1>6, <1>7, Zenon DEF ShouldAdopt, Adopted, Tracks, t

\* A tree grows by a block above one of its blocks, unless that block is the
\* missing parent of the anchor.
LEMMA GrowTree ==
    ASSUME NEW old, NEW a, TreeOk(old, a),
           NEW root \in Nat \ DOMAIN old, root # old[a].parent_root,
           NEW new, DOMAIN new = DOMAIN old \cup {root}, \A r \in DOMAIN old : new[r] = old[r],
           new[root] \in BlockRecord, new[root].parent_root \in DOMAIN old,
           new[root].slot > old[new[root].parent_root].slot
    PROVE  TreeOk(new, a)
<1>1. \A r \in DOMAIN old : r \in Nat /\ old[r] \in BlockRecord /\ old[r].slot \in Nat
  BY Zenon DEF TreeOk, BlockRecord
<1>2. new[root].slot \in Nat
  BY Zenon DEF BlockRecord
<1>3. /\ a \in DOMAIN new /\ DOMAIN new \subseteq Nat
      /\ \A r \in DOMAIN new : new[r] \in BlockRecord
      /\ new[a].parent_root \notin DOMAIN new
  BY <1>1, Zenon DEF TreeOk
<1>4. ASSUME NEW r \in DOMAIN new \ {a}
      PROVE  new[r].parent_root \in DOMAIN new /\ new[new[r].parent_root].slot < new[r].slot
  <2>1. CASE r = root
    BY <2>1, <1>1, <1>2, Zenon
  <2>2. CASE r \in DOMAIN old
    BY <2>2, Zenon DEF TreeOk
  <2> QED
    BY <2>1, <2>2, Zenon
<1>5. \E n \in Nat : \A r \in DOMAIN new : r <= n /\ new[r].slot <= n
  <2>1. PICK n \in Nat : \A r \in DOMAIN old : r <= n /\ old[r].slot <= n
    BY Zenon DEF TreeOk
  <2>2. n + root + new[root].slot \in Nat
    BY <2>1, <1>2
  <2>3. \A r \in DOMAIN new : r <= n + root + new[root].slot /\ new[r].slot <= n + root + new[root].slot
    BY <2>1, <1>1, <1>2
  <2> QED
    BY <2>2, <2>3, Zenon
<1> QED
  BY <1>3, <1>4, <1>5, Zenon DEF TreeOk

\* Ancestors depend on the blocks alone.
LEMMA SameAncestors ==
    ASSUME NEW s, NEW t, t.blocks = s.blocks
    PROVE  Tracked(t) = Tracked(s) /\ \A r : Ancestors(t, r) = Ancestors(s, r)
BY Zenon DEF Tracked, Ancestors

\* No walk back from a vote meets a missing block before it reaches the origin.
LEMMA WalkOk ==
    ASSUME NEW s, NEW a, TreeOk(s.blocks, a), Origin(s) \in Tracked(s), NEW pool
    PROVE  HeadWalkOk(s, pool)
<1>1. \A r \in Tracked(s) : s.blocks[r].slot \in Nat
  BY Zenon DEF TreeOk, BlockRecord, Tracked
<1>2. a \in Ancestors(s, Origin(s))
      /\ \A q \in Ancestors(s, Origin(s)) : q # Origin(s) => s.blocks[q].slot < s.blocks[Origin(s)].slot
  BY AncestorsBelow, Zenon
<1>3. ASSUME NEW q \in Tracked(s), s.blocks[q].slot > s.blocks[Origin(s)].slot
      PROVE  s.blocks[q].parent_root \in Tracked(s)
  <2>1. q # a
    BY <1>1, <1>2, <1>3
  <2> QED
    BY <2>1, Zenon DEF TreeOk, Tracked
<1> QED
  BY <1>3, Zenon DEF HeadWalkOk

\* accept_new_votes promotes the pending votes, empties their pool and moves
\* the head to the end of the walk; it changes nothing else.
LEMMA AcceptFields ==
    ASSUME NEW s, IsStore(s), NEW a, TreeOk(s.blocks, a), Origin(s) \in Tracked(s)
    PROVE  LET t == AcceptNewVotes(s)
           IN  /\ SameChain(s, t)
               /\ t.time = s.time /\ t.safe_target = s.safe_target
               /\ t.new_votes = EmptyPool
               /\ t.known_votes = [v \in Validators |->
                     IF s.new_votes[v] # NoVote THEN s.new_votes[v] ELSE s.known_votes[v]]
               /\ t.head = GetForkChoiceHead(s, t.known_votes, 0)
               /\ t.head \in Tracked(s) /\ Origin(s) \in Ancestors(s, t.head)
<1> DEFINE known == [v \in Validators |->
                        IF s.new_votes[v] # NoVote THEN s.new_votes[v] ELSE s.known_votes[v]]
           h == GetForkChoiceHead(s, known, 0)
           t == AcceptNewVotes(s)
<1>1. HeadWalkOk(s, known)
  BY WalkOk, Zenon
<1>2. t = [s EXCEPT !.known_votes = known, !.new_votes = EmptyPool, !.head = h]
  BY <1>1, Zenon DEF AcceptNewVotes
<1>3. h \in Tracked(s) /\ Origin(s) \in Ancestors(s, h)
  BY HeadDescends, Zenon
<1> HIDE DEF known, h, t
<1>4. /\ t.time = s.time /\ t.safe_target = s.safe_target
      /\ t.new_votes = EmptyPool /\ t.known_votes = known /\ t.head = h
  BY <1>2, Zenon DEF IsStore, StoreFields
<1>5. SameChain(s, t)
  BY AcceptSameChain, Zenon DEF t
<1> QED
  BY <1>3, <1>4, <1>5, Zenon DEF t, known, h
-----------------------------------------------------------------------------
(* A sound store *)

\* The zero root and the block below the anchor are not tracked, the parent of
\* the anchor is one of them, and its state finalizes nothing above it.
AnchorOk(blocks) ==
    /\ {ZeroRoot, PrunedRoot} \cap DOMAIN blocks = {}
    /\ blocks[AnchorRoot].parent_root \in {ZeroRoot, PrunedRoot}
    /\ blocks[AnchorRoot].post.finalized.slot <= blocks[AnchorRoot].slot

\* b is a block above the anchor.
HeaderOk(b) ==
    /\ b.root \in Nat \ {ZeroRoot, AnchorRoot, PrunedRoot}
    /\ b.slot \in Nat /\ b.parent_root \in Nat

CheckpointOk(blocks, cp) ==
    /\ cp \in Cp
    /\ cp.root \in DOMAIN blocks
    /\ cp.slot = blocks[cp.root].slot
    /\ cp.slot >= blocks[AnchorRoot].slot

\* The invariant of blocks and checkpoints.
Sound(s) ==
    /\ IsStore(s)
    /\ TreeOk(s.blocks, AnchorRoot)
    /\ AnchorOk(s.blocks)
    /\ CheckpointOk(s.blocks, s.latest_justified)
    /\ CheckpointOk(s.blocks, s.latest_finalized)

Ordered(s) == s.latest_finalized.slot <= s.latest_justified.slot

\* The checkpoints of t are not below those of s.
Forward(s, t) ==
    /\ t.latest_justified.slot >= s.latest_justified.slot
    /\ t.latest_finalized.slot >= s.latest_finalized.slot

\* Only blocks and checkpoints matter to the invariant.
LEMMA SameChainSound ==
    ASSUME NEW s, NEW t, Sound(s), SameChain(s, t)
    PROVE  Sound(t) /\ Forward(s, t) /\ (Ordered(s) => Ordered(t))
BY DEF Sound, SameChain, Forward, Ordered, CheckpointOk, Cp

\* What the post-state of a child may name: a tracked block at its own slot,
\* or a root the store does not track; and then, without votes for empty
\* slots, a slot not above the anchor's.
LEMMA BranchRoots ==
    ASSUME NEW s, NEW b, Sound(s), NEW cp \in Branch(s, b)
    PROVE  \/ cp.root \in Tracked(s) /\ cp.slot = s.blocks[cp.root].slot /\ cp \in Cp
           \/ /\ cp.root \in {ZeroRoot, PrunedRoot} /\ cp \in Cp
              /\ EmptySlots = {} => cp.slot <= s.blocks[AnchorRoot].slot
<1>1. CASE cp \in {Checkpoint(r, s.blocks[r].slot) :
                      r \in {q \in Tracked(s) : q \in Ancestors(s, b.parent_root)}}
  <2>1. PICK r \in Tracked(s) : cp = Checkpoint(r, s.blocks[r].slot)
    BY <1>1, Zenon
  <2>2. s.blocks[r].slot \in Nat /\ r \in Nat
    BY <2>1, Zenon DEF Sound, TreeOk, BlockRecord, Tracked
  <2> QED
    BY <2>1, <2>2, Zenon DEF Checkpoint, Cp
<1>2. CASE /\ cp = Checkpoint(PrunedRoot, ResumeSlot - 1)
           /\ s.blocks[AnchorRoot].post.finalized = cp
  BY <1>2, ForkChoiceAssumption DEF Sound, AnchorOk, Checkpoint, Cp
<1>3. CASE \E n \in EmptySlots : cp = Checkpoint(ZeroRoot, n)
  BY <1>3, ForkChoiceAssumption DEF Checkpoint, Cp
<1> QED
  BY <1>1, <1>2, <1>3, Zenon DEF Branch

\* track_block keeps the tree sound and its checkpoints tracked, moves them
\* only forward, and keeps them ordered.
LEMMA TrackSound ==
    ASSUME NEW s, NEW b, HeaderOk(b), Sound(s), Extends(s, b),
           NEW post \in PostStates(s, b)
    PROVE  LET t == TrackBlock(s, b, post)
           IN  /\ Sound(t) /\ Forward(s, t)
               /\ Ordered(s) /\ (EmptySlots = {} \/ post.justified.root \in Tracked(s)) => Ordered(t)
<1> DEFINE j == post.justified
           f == post.finalized
           t == TrackBlock(s, b, post)
<1>1. /\ b.root \in Nat \ {ZeroRoot, AnchorRoot, PrunedRoot}
      /\ b.slot \in Nat /\ b.parent_root \in Nat
  BY Zenon DEF HeaderOk
<1>2. b.root \notin Tracked(s) /\ b.parent_root \in Tracked(s)
  BY Zenon DEF Extends
<1>3. /\ j \in Branch(s, b) /\ f \in Branch(s, b)
      /\ f.slot <= j.slot
      /\ post = [justified |-> j, finalized |-> f]
  BY Zenon DEF PostStates
<1>4. j \in Cp /\ f \in Cp
  BY <1>3, BranchRoots, Zenon
<1>5. /\ IsStore(t)
      /\ Tracked(t) = Tracked(s) \cup {b.root}
      /\ \A r \in Tracked(s) : t.blocks[r] = s.blocks[r]
      /\ t.latest_justified = Adopted(t, j, s.latest_justified)
      /\ t.latest_finalized = Adopted(t, f, s.latest_finalized)
  <2>1. IsStore(s)
    BY Zenon DEF Sound
  <2>2. Tracks(s, b, post, t)
    BY <2>1, <1>2, TrackFields, Zenon
  <2> QED
    BY <2>2, Zenon DEF Tracks
<1>6. TreeOk(t.blocks, AnchorRoot)
  <2>1. b.root # s.blocks[AnchorRoot].parent_root
    BY <1>1, Zenon DEF Sound, AnchorOk
  <2>2. t.blocks[b.root] = [slot |-> b.slot, parent_root |-> b.parent_root, post |-> post]
    BY <1>2, TrackFields DEF Sound, Tracks
  <2>3. post \in [justified: Cp, finalized: Cp]
    BY <1>3, <1>4, Zenon
  <2> HIDE DEF t
  <2>4. t.blocks[b.root] \in BlockRecord /\ t.blocks[b.root].slot = b.slot
        /\ t.blocks[b.root].parent_root = b.parent_root
    BY <1>1, <2>2, <2>3 DEF BlockRecord
  <2>5. TreeOk(s.blocks, AnchorRoot) /\ DOMAIN t.blocks = DOMAIN s.blocks \cup {b.root}
        /\ b.root \in Nat \ DOMAIN s.blocks /\ b.parent_root \in DOMAIN s.blocks
        /\ b.slot > s.blocks[b.parent_root].slot
        /\ \A r \in DOMAIN s.blocks : t.blocks[r] = s.blocks[r]
    BY <1>1, <1>2, <1>5, Zenon DEF Sound, Tracked, Extends
  <2> QED
    BY <2>1, <2>4, <2>5, GrowTree, Zenon
<1> HIDE DEF t
<1>7. AnchorOk(t.blocks) /\ AnchorRoot \in Tracked(s)
      /\ t.blocks[AnchorRoot].slot = s.blocks[AnchorRoot].slot
  BY <1>1, <1>5, Zenon DEF Sound, AnchorOk, TreeOk, Tracked
<1>8. \A cp \in {j, f} : cp.root \in Tracked(t) =>
          cp.root \in Tracked(s) /\ cp.slot = t.blocks[cp.root].slot
  <2> SUFFICES ASSUME NEW cp \in {j, f}, cp.root \in Tracked(t)
               PROVE  cp.root \in Tracked(s) /\ cp.slot = t.blocks[cp.root].slot
    BY Zenon
  <2>1. cp.root \notin {ZeroRoot, PrunedRoot}
    BY <1>7, Zenon DEF AnchorOk, Tracked
  <2>2. cp.root \in Tracked(s) /\ cp.slot = s.blocks[cp.root].slot
    BY <2>1, <1>3, BranchRoots, Zenon
  <2> QED
    BY <2>2, <1>5, Zenon
<1>9. \A cp \in {j, f} : \A cur : CheckpointOk(s.blocks, cur) =>
          CheckpointOk(t.blocks, Adopted(t, cp, cur)) /\ Adopted(t, cp, cur).slot >= cur.slot
  <2> SUFFICES ASSUME NEW cp \in {j, f}, NEW cur, CheckpointOk(s.blocks, cur)
               PROVE  CheckpointOk(t.blocks, Adopted(t, cp, cur)) /\ Adopted(t, cp, cur).slot >= cur.slot
    BY Zenon
  <2>1. CheckpointOk(t.blocks, cur) /\ cur.slot \in Nat /\ cp.slot \in Nat
    BY <1>4, <1>5, <1>7, Zenon DEF CheckpointOk, Cp, Tracked
  <2>2. t.blocks[AnchorRoot].slot \in Nat
    BY <1>6, Zenon DEF TreeOk, BlockRecord
  <2>3. CASE cp.slot > cur.slot /\ cp.root \in Tracked(t)
    BY <2>1, <2>2, <2>3, <1>4, <1>8 DEF CheckpointOk, Tracked, Adopted
  <2> QED
    BY <2>1, <2>3 DEF Adopted
<1>10. Sound(t) /\ Forward(s, t)
  BY <1>5, <1>6, <1>7, <1>9, Zenon DEF Sound, Forward
<1>11. ASSUME Ordered(s), EmptySlots = {} \/ j.root \in Tracked(s)
       PROVE  Ordered(t)
  <2>1. /\ s.latest_justified.slot \in Nat /\ s.latest_finalized.slot \in Nat
        /\ s.latest_finalized.slot >= s.blocks[AnchorRoot].slot
        /\ s.blocks[AnchorRoot].slot \in Nat
        /\ j.slot \in Nat /\ f.slot \in Nat
    BY <1>4, Zenon DEF Sound, CheckpointOk, Cp, TreeOk, BlockRecord
  <2>2. CASE f.slot > s.latest_finalized.slot /\ f.root \in Tracked(t)
    <3>1. j.slot > s.blocks[AnchorRoot].slot
      BY <2>1, <2>2, <1>3
    <3>2. j.root \in Tracked(t)
      BY <3>1, <2>1, <1>3, <1>5, <1>11, BranchRoots
    <3> QED
      BY <2>1, <2>2, <3>2, <1>3, <1>5 DEF Ordered, Adopted
  <2>3. CASE ~(f.slot > s.latest_finalized.slot /\ f.root \in Tracked(t))
    BY <2>1, <2>3, <1>5, <1>11 DEF Ordered, Adopted
  <2> QED
    BY <2>2, <2>3, Zenon
<1> QED
  BY <1>10, <1>11, Zenon DEF t
-----------------------------------------------------------------------------
(* Votes and head *)

\* Both pools are pools of votes for tracked blocks.
VotesOk(s) ==
    /\ s.known_votes \in Pool /\ VotesTracked(s, s.known_votes)
    /\ s.new_votes \in Pool /\ VotesTracked(s, s.new_votes)

\* The clock is not behind the anchor.
ClockOk(s) ==
    /\ s.time \in Nat
    /\ s.time >= s.blocks[AnchorRoot].slot * IntervalsPerSlot

\* What holds inside a critical section, also between track_block and the
\* refresh of the head.
Ready(s) == Sound(s) /\ VotesOk(s) /\ ClockOk(s) /\ s.safe_target \in Tracked(s)

\* The head has no child, descends from the justified block and follows the
\* majority of the known votes.
HeadOk(s) ==
    /\ s.head \in Tracked(s)
    /\ \A c \in Tracked(s) : s.blocks[c].parent_root # s.head
    /\ s.latest_justified.root \in Ancestors(s, s.head)
    /\ \A r \in Tracked(s) :
          /\ s.latest_justified.root \in Ancestors(s, r)
          /\ 2 * Cardinality(Supporters(s, s.known_votes, r)) > NumValidators
          => r \in Ancestors(s, s.head)

\* Every block of s is a block of t, and no earlier by its clock.
Later(s, t) ==
    /\ \A r \in Tracked(s) : r \in Tracked(t) /\ t.blocks[r] = s.blocks[r]
    /\ s.time \in Nat /\ t.time \in Nat /\ s.time <= t.time

\* The descent starts from the justified block: the zero root is not tracked.
LEMMA OriginJustified ==
    ASSUME NEW s, Sound(s)
    PROVE  Origin(s) = s.latest_justified.root /\ Origin(s) \in Tracked(s)
           /\ s.blocks[Origin(s)].slot >= s.blocks[AnchorRoot].slot
BY Zenon DEF Sound, CheckpointOk, AnchorOk, Origin, Tracked

\* After accept_new_votes the head is the one the known votes decide, whatever
\* it was before.
LEMMA AcceptReady ==
    ASSUME NEW s, Ready(s)
    PROVE  LET t == AcceptNewVotes(s)
           IN  Ready(t) /\ HeadOk(t) /\ Later(s, t) /\ t.safe_target = s.safe_target
<1> DEFINE t == AcceptNewVotes(s)
           known == [v \in Validators |->
                        IF s.new_votes[v] # NoVote THEN s.new_votes[v] ELSE s.known_votes[v]]
<1>1. IsStore(s) /\ Sound(s) /\ TreeOk(s.blocks, AnchorRoot)
      /\ Origin(s) = s.latest_justified.root /\ Origin(s) \in Tracked(s)
  BY OriginJustified, Zenon DEF Ready, Sound
<1>2. /\ SameChain(s, t)
      /\ t.time = s.time /\ t.safe_target = s.safe_target
      /\ t.new_votes = EmptyPool
      /\ t.known_votes = known
      /\ t.head = GetForkChoiceHead(s, t.known_votes, 0)
      /\ t.head \in Tracked(s) /\ Origin(s) \in Ancestors(s, t.head)
  BY <1>1, AcceptFields, Zenon
<1> HIDE DEF t
<1>3. t.blocks = s.blocks /\ t.latest_justified = s.latest_justified
  BY <1>2, Zenon DEF SameChain
<1>4. Tracked(t) = Tracked(s) /\ \A r : Ancestors(t, r) = Ancestors(s, r)
  BY <1>3, SameAncestors, Zenon
<1>5. Sound(t)
  BY <1>1, <1>2, SameChainSound, Zenon
<1>6. t.known_votes \in Pool /\ VotesTracked(s, t.known_votes) /\ VotesTracked(t, t.known_votes)
  BY <1>2, <1>3, <1>4 DEF Ready, VotesOk, VotesTracked, Pool
<1>7. EmptyPool \in Pool /\ VotesTracked(t, EmptyPool)
  BY Zenon DEF EmptyPool, Pool, VotesTracked
<1>8. Ready(t)
  BY <1>2, <1>3, <1>4, <1>5, <1>6, <1>7, Zenon DEF Ready, VotesOk, ClockOk
<1>9. \A r \in Tracked(s) :
          /\ s.latest_justified.root \in Ancestors(s, r)
          /\ 2 * Cardinality(Supporters(s, t.known_votes, r)) > NumValidators
          => r \in Ancestors(s, t.head)
  BY <1>1, <1>2, <1>6, MajorityWins, Zenon
<1>10. \A r : Supporters(t, t.known_votes, r) = Supporters(s, t.known_votes, r)
  BY <1>4 DEF Supporters
<1>11. HeadOk(t)
  <2>1. \A c \in Tracked(s) : s.blocks[c].parent_root # t.head
    BY <1>1, <1>2, HeadIsLeaf, Zenon
  <2> QED
    BY <1>1, <1>2, <1>3, <1>4, <1>9, <1>10, <2>1 DEF HeadOk
<1>12. Later(s, t)
  BY <1>2, <1>3, <1>4 DEF Later, Ready, ClockOk
<1> QED
  BY <1>2, <1>8, <1>11, <1>12, Zenon DEF t

\* Only the blocks, the justified checkpoint, the head and the known votes
\* matter to the head.
LEMMA SameHead ==
    ASSUME NEW s, NEW t, HeadOk(s), t.blocks = s.blocks, t.latest_justified = s.latest_justified,
           t.head = s.head, t.known_votes = s.known_votes
    PROVE  HeadOk(t)
<1>1. Tracked(t) = Tracked(s) /\ \A r : Ancestors(t, r) = Ancestors(s, r)
  BY SameAncestors, Zenon
<1>2. \A r : Supporters(t, t.known_votes, r) = Supporters(s, s.known_votes, r)
  BY <1>1, Zenon DEF Supporters
<1> QED
  BY <1>1, <1>2, Zenon DEF HeadOk

\* track_block adds a block and leaves the votes, the clock and the safe target
\* alone.
LEMMA TrackReady ==
    ASSUME NEW s, NEW b, HeaderOk(b), Ready(s), Extends(s, b),
           NEW post \in PostStates(s, b)
    PROVE  LET t == TrackBlock(s, b, post)
           IN  Ready(t) /\ Later(s, t) /\ t.safe_target = s.safe_target
<1> DEFINE t == TrackBlock(s, b, post)
<1>1. Sound(s) /\ IsStore(s) /\ b.root \notin Tracked(s) /\ AnchorRoot \in Tracked(s)
  BY Zenon DEF Ready, Sound, Extends, TreeOk, Tracked
<1>2. Sound(t)
  BY <1>1, TrackSound, Zenon
<1>3. Tracks(s, b, post, t)
  BY <1>1, TrackFields, Zenon
<1> HIDE DEF t
<1>4. /\ t.time = s.time /\ t.safe_target = s.safe_target
      /\ t.known_votes = s.known_votes /\ t.new_votes = s.new_votes
      /\ \A r \in Tracked(s) : r \in Tracked(t) /\ t.blocks[r] = s.blocks[r]
  BY <1>3, Zenon DEF Tracks
<1>5. VotesOk(t) /\ ClockOk(t) /\ t.safe_target \in Tracked(t)
  BY <1>1, <1>4 DEF Ready, VotesOk, ClockOk, VotesTracked
<1> QED
  BY <1>2, <1>4, <1>5 DEF Ready, Later, ClockOk, t

\* The votes of a body are folded only if they validate, so they are votes for
\* tracked blocks.
LEMMA FoldReady ==
    ASSUME NEW s, NEW body \in Pool, Ready(s)
    PROVE  LET t == FoldBlockAttestations(s, body)
           IN  Ready(t) /\ Later(s, t) /\ t.safe_target = s.safe_target
<1> DEFINE folds(v) == body[v] # NoVote /\ ValidateAttestation(s, body[v])
           known == [v \in Validators |->
                        IF folds(v) /\ IsNewer(body[v], s.known_votes[v]) THEN body[v]
                        ELSE s.known_votes[v]]
           new == [v \in Validators |->
                      IF folds(v) /\ s.new_votes[v] # NoVote /\ s.new_votes[v].slot < body[v].slot
                      THEN NoVote ELSE s.new_votes[v]]
           t == FoldBlockAttestations(s, body)
<1>1. Sound(s) /\ IsStore(s)
  BY Zenon DEF Ready, Sound
<1>2. t = [s EXCEPT !.known_votes = known, !.new_votes = new]
  BY Zenon DEF FoldBlockAttestations
<1>3. ASSUME NEW v \in Validators, folds(v)
      PROVE  /\ body[v].head.root \in Tracked(s) /\ body[v].target.root \in Tracked(s)
             /\ body[v].target.slot = s.blocks[body[v].target.root].slot
  BY <1>3, Zenon DEF ValidateAttestation
<1>4. known \in Pool /\ VotesTracked(s, known)
  BY <1>3, Zenon DEF Ready, VotesOk, Pool, VotesTracked
<1>5. new \in Pool /\ VotesTracked(s, new)
  BY Zenon DEF Ready, VotesOk, Pool, VotesTracked
<1> HIDE DEF known, new, t
<1>6. /\ t.known_votes = known /\ t.new_votes = new
      /\ t.time = s.time /\ t.safe_target = s.safe_target /\ t.blocks = s.blocks
  BY <1>1, <1>2, Zenon DEF IsStore, StoreFields
<1>7. Sound(t)
  BY <1>1, FoldSameChain, SameChainSound, Zenon DEF t
<1> QED
  BY <1>4, <1>5, <1>6, <1>7 DEF Ready, VotesOk, ClockOk, VotesTracked, Later, Tracked, t

\* A vote that validates joins the pending pool; the head stays decided.
LEMMA GossipReady ==
    ASSUME NEW s, NEW v \in Validators, NEW vote \in Vote, ValidateAttestation(s, vote),
           Ready(s), HeadOk(s)
    PROVE  LET t == GossipVote(s, v, vote)
           IN  Ready(t) /\ HeadOk(t) /\ Later(s, t) /\ t.safe_target = s.safe_target
<1> DEFINE pool == [s.new_votes EXCEPT ![v] = vote]
           t == GossipVote(s, v, vote)
<1>1. Sound(s) /\ IsStore(s)
  BY Zenon DEF Ready, Sound
<1>2. CASE t = s
  BY <1>2 DEF Later, Ready, ClockOk
<1>3. CASE t = [s EXCEPT !.new_votes = pool]
  <2>1. pool \in Pool /\ VotesTracked(s, pool)
    BY Zenon DEF Ready, VotesOk, Pool, VotesTracked, ValidateAttestation
  <2> HIDE DEF pool, t
  <2>2. /\ t.new_votes = pool
        /\ \A x \in StoreFields \ {"new_votes"} : t[x] = s[x]
    BY <1>1, <1>3, Zenon DEF IsStore, StoreFields
  <2>3. /\ t.known_votes = s.known_votes /\ t.head = s.head /\ t.latest_justified = s.latest_justified
        /\ t.time = s.time /\ t.safe_target = s.safe_target /\ t.blocks = s.blocks
    BY <2>2, Zenon DEF StoreFields
  <2>4. Sound(t)
    BY <1>1, GossipSameChain, SameChainSound, Zenon DEF t
  <2>5. HeadOk(t)
    BY <2>3, SameHead, Zenon
  <2>6. VotesOk(t) /\ ClockOk(t) /\ t.safe_target \in Tracked(t)
    BY <2>1, <2>2, <2>3 DEF Ready, VotesOk, ClockOk, VotesTracked, Tracked
  <2> QED
    BY <2>3, <2>4, <2>5, <2>6 DEF Ready, ClockOk, Later, Tracked, t
<1>4. t = s \/ t = [s EXCEPT !.new_votes = pool]
  BY Zenon DEF GossipVote
<1> QED
  BY <1>2, <1>3, <1>4, Zenon

\* The new safe target, if the tick finds one, is a tracked block: the
\* justified one, or one with two thirds of the pending votes.
LEMMA SafeTargetFound ==
    ASSUME NEW s, Ready(s)
    PROVE  LET x == UpdateSafeTarget(s).safe_target
           IN  /\ x \in Tracked(s)
               /\ \/ x = s.latest_justified.root
                  \/ 3 * Cardinality(Supporters(s, s.new_votes, x)) >= 2 * NumValidators
<1> DEFINE x == GetForkChoiceHead(s, s.new_votes, MinTargetScore)
           voters == {v \in Validators :
                        /\ s.new_votes[v] # NoVote
                        /\ s.new_votes[v].head.root \in Tracked(s)
                        /\ s.blocks[x].slot > s.blocks[Origin(s)].slot
                        /\ x \in Ancestors(s, s.new_votes[v].head.root)}
<1>1. Sound(s) /\ IsStore(s) /\ TreeOk(s.blocks, AnchorRoot)
  BY Zenon DEF Ready, Sound
<1>2. Origin(s) \in Tracked(s) /\ Origin(s) = s.latest_justified.root
  BY <1>1, OriginJustified, Zenon
<1>3. x \in Tracked(s) /\ (x = Origin(s) \/ Weight(s, s.new_votes, x) >= MinTargetScore)
  BY <1>1, <1>2, HeadDescends, Zenon
<1>4. UpdateSafeTarget(s).safe_target = x
  <2>1. HeadWalkOk(s, s.new_votes)
    BY <1>1, <1>2, WalkOk, Zenon
  <2>2. UpdateSafeTarget(s) = [s EXCEPT !.safe_target = x]
    BY <2>1, Zenon DEF UpdateSafeTarget
  <2> HIDE DEF x
  <2> QED
    BY <1>1, <2>2, Zenon DEF IsStore, StoreFields
<1>5. Weight(s, s.new_votes, x) = Cardinality(voters)
  BY Zenon DEF Weight
<1> HIDE DEF x
<1>6. /\ IsFiniteSet(Supporters(s, s.new_votes, x))
      /\ Cardinality(voters) <= Cardinality(Supporters(s, s.new_votes, x))
      /\ Cardinality(voters) \in Nat /\ Cardinality(Supporters(s, s.new_votes, x)) \in Nat
  <2>1. /\ Supporters(s, s.new_votes, x) \subseteq Validators
        /\ voters \subseteq Supporters(s, s.new_votes, x)
    BY Zenon DEF Supporters
  <2>2. IsFiniteSet(Supporters(s, s.new_votes, x))
    BY <2>1, ValidatorsFinite, FS_Subset, Zenon
  <2> QED
    BY <2>1, <2>2, FS_Subset, FS_CardinalityType, Zenon
<1>7. 3 * MinTargetScore >= 2 * NumValidators /\ MinTargetScore \in Nat
  BY ForkChoiceAssumption DEF MinTargetScore
<1>8. ASSUME Cardinality(voters) >= MinTargetScore
      PROVE  3 * Cardinality(Supporters(s, s.new_votes, x)) >= 2 * NumValidators
  <2> HIDE DEF voters
  <2> QED
    BY <1>6, <1>7, <1>8, ForkChoiceAssumption
<1> QED
  BY <1>2, <1>3, <1>4, <1>5, <1>8, Zenon

\* tick_interval advances the clock and keeps the head decided, whichever hook
\* it runs; only update_safe_target moves the safe target.
LEMMA TickReady ==
    ASSUME NEW s, NEW p, Ready(s), HeadOk(s)
    PROVE  LET t == TickInterval(s, p)
           IN  /\ Ready(t) /\ HeadOk(t) /\ Later(s, t)
               /\ \/ t.safe_target \in {s.safe_target, s.latest_justified.root}
                  \/ 3 * Cardinality(Supporters(s, s.new_votes, t.safe_target)) >= 2 * NumValidators
<1> DEFINE u == [s EXCEPT !.time = @ + 1]
           w == UpdateSafeTarget(u)
           t == TickInterval(s, p)
<1>1. Sound(s) /\ IsStore(s) /\ s.time \in Nat
  BY Zenon DEF Ready, Sound, ClockOk
<1>2. IsStore(u) /\ u.time = s.time + 1 /\ \A x \in StoreFields \ {"time"} : u[x] = s[x]
  BY <1>1, Zenon DEF IsStore, StoreFields
<1> HIDE DEF u
<1>3. /\ u.known_votes = s.known_votes /\ u.new_votes = s.new_votes /\ u.blocks = s.blocks
      /\ u.latest_justified = s.latest_justified /\ u.latest_finalized = s.latest_finalized
      /\ u.head = s.head /\ u.safe_target = s.safe_target
  BY <1>2, Zenon DEF StoreFields
<1>4. Sound(u)
  BY <1>1, <1>2, <1>3, SameChainSound, Zenon DEF SameChain
<1>5. HeadOk(u)
  BY <1>3, SameHead, Zenon
<1>6. Ready(u)
  <2>1. VotesOk(u) /\ u.safe_target \in Tracked(u)
    BY <1>3, Zenon DEF Ready, VotesOk, VotesTracked, Tracked
  <2>2. s.blocks[AnchorRoot].slot \in Nat
    BY <1>1, Zenon DEF Sound, TreeOk, BlockRecord
  <2>3. ClockOk(u)
    BY <1>1, <1>2, <1>3, <2>2 DEF Ready, ClockOk, IntervalsPerSlot
  <2> QED
    BY <1>4, <2>1, <2>3, Zenon DEF Ready
<1>7. Later(s, u)
  BY <1>1, <1>2, <1>3 DEF Later, Tracked
<1>8. CASE t = u
  BY <1>3, <1>5, <1>6, <1>7, <1>8, Zenon
<1>9. CASE t = AcceptNewVotes(u)
  <2>1. Ready(t) /\ HeadOk(t) /\ Later(u, t) /\ t.safe_target = u.safe_target
    BY <1>6, <1>9, AcceptReady, Zenon
  <2> HIDE DEF t
  <2> QED
    BY <1>3, <1>7, <2>1 DEF Later, t
<1>10. CASE t = w
  <2>1. IsStore(w) /\ \A x \in StoreFields \ {"safe_target"} : w[x] = u[x]
    <3>1. \E y : w = [u EXCEPT !.safe_target = y]
      BY Zenon DEF UpdateSafeTarget
    <3> HIDE DEF w
    <3> QED
      BY <1>2, <3>1, Zenon DEF IsStore, StoreFields
  <2>2. /\ w.safe_target \in Tracked(u)
        /\ \/ w.safe_target = u.latest_justified.root
           \/ 3 * Cardinality(Supporters(u, u.new_votes, w.safe_target)) >= 2 * NumValidators
    BY <1>6, SafeTargetFound, Zenon
  <2> HIDE DEF w, t
  <2>3. /\ w.known_votes = u.known_votes /\ w.new_votes = u.new_votes /\ w.blocks = u.blocks
        /\ w.latest_justified = u.latest_justified /\ w.latest_finalized = u.latest_finalized
        /\ w.head = u.head /\ w.time = u.time
    BY <2>1, Zenon DEF StoreFields
  <2>4. Sound(w)
    BY <1>4, <2>1, <2>3, SameChainSound, Zenon DEF SameChain
  <2>5. HeadOk(w)
    BY <1>5, <2>3, SameHead, Zenon
  <2>6. Ready(w) /\ Later(s, w)
    BY <1>6, <1>7, <2>2, <2>3, <2>4, Zenon DEF Ready, VotesOk, ClockOk, VotesTracked, Later, Tracked
  <2>7. \A r : Supporters(u, u.new_votes, r) = Supporters(s, s.new_votes, r)
    BY <1>3, SameAncestors DEF Supporters
  <2> QED
    BY <1>3, <1>10, <2>2, <2>5, <2>6, <2>7, Zenon DEF t
<1>11. t \in {u, AcceptNewVotes(u), w}
  BY Zenon DEF TickInterval, u
<1> QED
  BY <1>8, <1>9, <1>10, <1>11, Zenon
-----------------------------------------------------------------------------
(* Construction and import *)

\* Both constructors give a sound store whose only block, the anchor, is head
\* and safe target, and that has no votes.
LEMMA SeedReady ==
    ASSUME NEW slot \in Nat, NEW parent_root \in {ZeroRoot, PrunedRoot}, NEW cp \in Cp, cp.slot <= slot
    PROVE  LET s == SeedAnchor(AnchorRoot, slot, parent_root, [justified |-> cp, finalized |-> cp],
                               Checkpoint(AnchorRoot, slot), Checkpoint(AnchorRoot, slot))
           IN  Ready(s) /\ HeadOk(s) /\ Ordered(s)
<1> DEFINE s == SeedAnchor(AnchorRoot, slot, parent_root, [justified |-> cp, finalized |-> cp],
                           Checkpoint(AnchorRoot, slot), Checkpoint(AnchorRoot, slot))
<1>1. /\ IsStore(s) /\ Tracked(s) = {AnchorRoot}
      /\ s.blocks[AnchorRoot] =
            [slot |-> slot, parent_root |-> parent_root, post |-> [justified |-> cp, finalized |-> cp]]
      /\ s.latest_justified = Checkpoint(AnchorRoot, slot)
      /\ s.latest_finalized = Checkpoint(AnchorRoot, slot)
  BY Zenon DEF SeedAnchor, IsStore, StoreFields, Tracked
<1>2. /\ s.head = AnchorRoot /\ s.safe_target = AnchorRoot
      /\ s.known_votes = EmptyPool /\ s.new_votes = EmptyPool
      /\ s.time = slot * IntervalsPerSlot
  BY Zenon DEF SeedAnchor
<1> HIDE DEF s
<1>3. /\ s.blocks[AnchorRoot] \in BlockRecord
      /\ s.blocks[AnchorRoot].slot = slot
      /\ s.blocks[AnchorRoot].parent_root = parent_root
      /\ s.blocks[AnchorRoot].post.finalized = cp
  BY <1>1, ForkChoiceAssumption DEF BlockRecord
<1>4. \E n \in Nat : \A r \in Tracked(s) : r <= n /\ s.blocks[r].slot <= n
  <2>1. AnchorRoot + slot \in Nat /\ AnchorRoot <= AnchorRoot + slot /\ slot <= AnchorRoot + slot
    BY ForkChoiceAssumption
  <2> QED
    BY <2>1, <1>1, <1>3, Zenon
<1>5. TreeOk(s.blocks, AnchorRoot) /\ AnchorOk(s.blocks)
  BY <1>1, <1>3, <1>4, ForkChoiceAssumption, Zenon DEF TreeOk, AnchorOk, Tracked
<1>6. Checkpoint(AnchorRoot, slot) \in Cp /\ Checkpoint(AnchorRoot, slot).root = AnchorRoot
      /\ Checkpoint(AnchorRoot, slot).slot = slot
  BY ForkChoiceAssumption, Zenon DEF Checkpoint, Cp
<1>7. Sound(s) /\ Ordered(s)
  BY <1>1, <1>3, <1>5, <1>6 DEF Sound, CheckpointOk, Ordered, Tracked
<1>8. EmptyPool \in Pool /\ VotesTracked(s, EmptyPool)
  BY Zenon DEF EmptyPool, Pool, VotesTracked
<1>9. Ready(s)
  BY <1>1, <1>2, <1>3, <1>7, <1>8 DEF Ready, VotesOk, ClockOk, IntervalsPerSlot
<1>10. AnchorRoot \in Ancestors(s, AnchorRoot)
  BY <1>1, <1>5, AncestorsBelow, Zenon
<1>11. HeadOk(s)
  BY <1>1, <1>2, <1>3, <1>6, <1>10, ForkChoiceAssumption, Zenon DEF HeadOk
<1> QED
  BY <1>7, <1>9, <1>11, Zenon DEF s

\* t is s with b added: sound, its head decided, its checkpoints not earlier,
\* and ordered if they were.
Imported(s, b, post, t) ==
    /\ Ready(t) /\ HeadOk(t) /\ Later(s, t) /\ t.safe_target = s.safe_target
    /\ Tracked(t) = Tracked(s) \cup {b.root}
    /\ t.blocks[b.root] = [slot |-> b.slot, parent_root |-> b.parent_root, post |-> post]
    /\ t.time = s.time
    /\ Ordered(s) /\ (EmptySlots = {} \/ post.justified.root \in Tracked(s)) => Ordered(t)

\* Whatever happens to the votes between track_block and the refresh of the
\* head.
LEMMA RefreshImported ==
    ASSUME NEW s, NEW b, HeaderOk(b), Ready(s), Extends(s, b), NEW post \in PostStates(s, b),
           NEW u, Ready(u), SameChain(TrackBlock(s, b, post), u), u.time = s.time,
           u.safe_target = s.safe_target
    PROVE  Imported(s, b, post, AcceptNewVotes(u))
<1> DEFINE t == TrackBlock(s, b, post)
           w == AcceptNewVotes(u)
<1>1. IsStore(s) /\ b.root \notin Tracked(s) /\ Sound(s)
  BY Zenon DEF Ready, Sound, Extends
<1>2. Sound(t) /\ (Ordered(s) /\ (EmptySlots = {} \/ post.justified.root \in Tracked(s)) => Ordered(t))
  BY <1>1, TrackSound, Zenon
<1>3. Tracks(s, b, post, t)
  BY <1>1, TrackFields, Zenon
<1> HIDE DEF t
<1>4. Ready(w) /\ HeadOk(w) /\ Later(u, w) /\ w.safe_target = u.safe_target
  BY AcceptReady, Zenon
<1>5. SameChain(u, w) /\ w.time = u.time
  <2>1. IsStore(u) /\ Sound(u) /\ TreeOk(u.blocks, AnchorRoot)
    BY Zenon DEF Ready, Sound
  <2> QED
    BY <2>1, OriginJustified, AcceptFields, Zenon
<1> HIDE DEF w
<1>6. w.blocks = t.blocks /\ (Ordered(t) => Ordered(w))
  BY <1>5, Zenon DEF SameChain, Ordered, t
<1>7. /\ Tracked(w) = Tracked(s) \cup {b.root}
      /\ \A r \in Tracked(s) : w.blocks[r] = s.blocks[r]
      /\ w.blocks[b.root] = [slot |-> b.slot, parent_root |-> b.parent_root, post |-> post]
  BY <1>3, <1>6, Zenon DEF Tracks, Tracked
<1>8. Later(s, w)
  BY <1>5, <1>7 DEF Later, Ready, ClockOk
<1> QED
  BY <1>2, <1>4, <1>5, <1>6, <1>7, <1>8, Zenon DEF Imported, w

\* import_block adds its block.
LEMMA ImportReady ==
    ASSUME NEW s, NEW b, HeaderOk(b), Ready(s), Extends(s, b), NEW post \in PostStates(s, b),
           NEW body \in Pool
    PROVE  Imported(s, b, post, Import(s, b, post, body))
<1> DEFINE t == TrackBlock(s, b, post)
           u == FoldBlockAttestations(t, body)
<1>1. Ready(t) /\ t.safe_target = s.safe_target
  BY TrackReady, Zenon
<1>2. t.time = s.time
  <2>1. IsStore(s) /\ b.root \notin Tracked(s)
    BY Zenon DEF Ready, Sound, Extends
  <2>2. Tracks(s, b, post, t)
    BY <2>1, TrackFields, Zenon
  <2> QED
    BY <2>2, Zenon DEF Tracks
<1> HIDE DEF t
<1>3. Ready(u) /\ u.safe_target = t.safe_target
  BY <1>1, FoldReady, Zenon
<1>4. IsStore(t)
  BY <1>1, Zenon DEF Ready, Sound
<1>5. SameChain(t, u) /\ u.time = t.time
  BY <1>4, FoldSameChain, Zenon DEF FoldBlockAttestations, IsStore, StoreFields
<1> HIDE DEF u
<1>6. Imported(s, b, post, AcceptNewVotes(u))
  BY <1>1, <1>2, <1>3, <1>5, RefreshImported, Zenon DEF t
<1> QED
  BY <1>6, Zenon DEF Import, t, u

\* A produced block is added without a body: its votes are known already.
LEMMA ProduceReady ==
    ASSUME NEW s, NEW b, HeaderOk(b), Ready(s), Extends(s, b), NEW post \in PostStates(s, b)
    PROVE  Imported(s, b, post, AcceptNewVotes(TrackBlock(s, b, post)))
<1> DEFINE t == TrackBlock(s, b, post)
<1>1. Ready(t) /\ t.safe_target = s.safe_target
  BY TrackReady, Zenon
<1>2. t.time = s.time
  <2>1. IsStore(s) /\ b.root \notin Tracked(s)
    BY Zenon DEF Ready, Sound, Extends
  <2>2. Tracks(s, b, post, t)
    BY <2>1, TrackFields, Zenon
  <2> QED
    BY <2>2, Zenon DEF Tracks
<1>3. SameChain(t, t)
  BY <1>1, Zenon DEF SameChain, Ready, Sound
<1> QED
  BY <1>1, <1>2, <1>3, RefreshImported, Zenon
-----------------------------------------------------------------------------
(* The vote of this node *)

\* What makes a vote of this node valid, but for the order of its source and
\* target: its checkpoints name tracked blocks at their own slots.
OwnOk(s, vote) ==
    /\ vote \in Vote
    /\ \A cp \in {vote.source, vote.target, vote.head} :
          cp.root \in Tracked(s) /\ cp.slot = s.blocks[cp.root].slot
    /\ vote.target.slot <= vote.head.slot
    /\ vote.slot <= CurrentSlot(s)

\* A vote made from a refreshed store is such a vote: its target is on the
\* branch of its head.
LEMMA OwnVoteOk ==
    ASSUME NEW s, Ready(s), HeadOk(s), NEW slot \in Nat, slot <= CurrentSlot(s)
    PROVE  OwnOk(s, OwnVote(s, slot))
<1> DEFINE vote == OwnVote(s, slot)
<1>1. /\ Sound(s) /\ TreeOk(s.blocks, AnchorRoot)
      /\ s.head \in Tracked(s) /\ s.safe_target \in Tracked(s)
  BY Zenon DEF Ready, Sound, HeadOk
<1>2. s.latest_finalized.slot \in Nat /\ s.latest_finalized.slot >= s.blocks[AnchorRoot].slot
  BY <1>1, Zenon DEF Sound, CheckpointOk, Cp
<1>3. PICK x \in Ancestors(s, s.head) : GetVoteTarget(s) = Checkpoint(x, s.blocks[x].slot)
  BY <1>1, <1>2, TargetOnBranch, Zenon
<1>4. x \in Tracked(s) /\ (x # s.head => s.blocks[x].slot < s.blocks[s.head].slot)
  BY <1>1, AncestorsBelow, Zenon
<1>5. \A r \in Tracked(s) : r \in Nat /\ s.blocks[r].slot \in Nat
  BY <1>1, Zenon DEF TreeOk, Tracked, BlockRecord
<1>6. /\ vote.slot = slot
      /\ vote.head = [root |-> s.head, slot |-> s.blocks[s.head].slot]
      /\ vote.target = [root |-> x, slot |-> s.blocks[x].slot]
      /\ vote.source = s.latest_justified
      /\ vote = [slot |-> vote.slot, head |-> vote.head, target |-> vote.target, source |-> vote.source]
  BY <1>3, Zenon DEF OwnVote, Checkpoint
<1> HIDE DEF vote
<1>7. /\ vote.source \in Cp /\ vote.source.root \in Tracked(s)
      /\ vote.source.slot = s.blocks[vote.source.root].slot
  BY <1>1, <1>6, Zenon DEF Sound, CheckpointOk, Tracked
<1>8. /\ vote.head \in Cp /\ vote.head.root = s.head /\ vote.head.slot = s.blocks[s.head].slot
      /\ vote.target \in Cp /\ vote.target.root = x /\ vote.target.slot = s.blocks[x].slot
  BY <1>1, <1>4, <1>5, <1>6 DEF Cp
<1>9. vote.target.slot <= vote.head.slot
  BY <1>1, <1>4, <1>5, <1>8
<1>10. vote \in Vote
  BY <1>6, <1>7, <1>8, Zenon DEF Vote
<1> QED
  BY <1>1, <1>4, <1>6, <1>7, <1>8, <1>9, <1>10, Zenon DEF OwnOk, vote

\* It stays one while blocks are imported and the clock advances.
LEMMA OwnStays ==
    ASSUME NEW s, NEW t, NEW vote, OwnOk(s, vote), Later(s, t)
    PROVE  OwnOk(t, vote)
<1>1. CurrentSlot(s) \in Nat /\ CurrentSlot(t) \in Nat /\ CurrentSlot(s) <= CurrentSlot(t)
  BY DEF Later, CurrentSlot, IntervalsPerSlot
<1>2. vote.slot \in Nat
  BY Zenon DEF OwnOk, Vote
<1>3. \A cp \in {vote.source, vote.target, vote.head} :
          cp.root \in Tracked(t) /\ cp.slot = t.blocks[cp.root].slot
  BY Zenon DEF OwnOk, Later
<1> QED
  BY <1>1, <1>2, <1>3 DEF OwnOk

\* validate_attestation then refuses it only for a source above its target.
LEMMA OwnValid ==
    ASSUME NEW s, Ready(s), NEW vote, OwnOk(s, vote), vote.source.slot <= vote.target.slot
    PROVE  ValidateAttestation(s, vote)
<1>1. vote.source # Zero
  BY DEF Ready, Sound, AnchorOk, OwnOk, Tracked, Zero, Checkpoint
<1>2. ResolvedSourceRoot(s, vote) = vote.source.root
  BY <1>1, Zenon DEF ResolvedSourceRoot
<1>3. vote.slot \in Nat /\ CurrentSlot(s) \in Nat
  BY DEF OwnOk, Vote, Ready, ClockOk, CurrentSlot, IntervalsPerSlot
<1>4. vote.head.slot \in Nat /\ vote.target.slot \in Nat
  BY Zenon DEF OwnOk, Vote, Cp
<1> QED
  BY <1>2, <1>3, <1>4 DEF ValidateAttestation, OwnOk
=============================================================================
