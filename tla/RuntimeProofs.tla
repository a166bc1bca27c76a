--------------------------- MODULE RuntimeProofs ----------------------------
(***************************************************************************)
(* Three parts of crates/runtime: the sync loop, the guard of the one-time *)
(* signatures, and the start and stop of a node.                           *)
(*                                                                         *)
(* Of SyncLoop, for any number of peers, any height and any limits: sync   *)
(* never offers import_chain a block whose parent is missing, and the      *)
(* watch task keeps to its permits.  The first needs the blocks a walk has *)
(* collected to be an interval that lies above the anchor, and storage to  *)
(* hold nothing above the anchor that the engine does not track.           *)
(*                                                                         *)
(* Of OtsSigner, for any validators, seeds, activation window and step:    *)
(* its guarantees, across crashes, failed saves and exchanged files.       *)
(*                                                                         *)
(* Of Lifecycle, for any number of walks, any capacity of the command      *)
(* channel and any number of panics: services stop in the reverse of the   *)
(* order they start in, so "count" separates what is stopped, or was never *)
(* started, from what is not.  The inductive invariant says what holds of  *)
(* every task beyond that line.                                            *)
(***************************************************************************)
EXTENDS SyncLoop, OtsSigner, Lifecycle, TLAPS, FiniteSetTheorems

Phases == {"status", "walk", "fetch", "import"}
WalkType == [peer: Peers, phase: Phases, next: Int, pending: SUBSET Int, known: BOOLEAN]

SyncTypeInv ==
    /\ status \in [Peers -> {NoStatus} \cup [head: Nat, slot: Nat]]
    /\ walks \in [Walkers -> {NoWalk} \cup WalkType]

\* The engine started at block a: storage has what is below, and above only
\* what the engine has.
StoreInv(a) ==
    /\ a \in Nat /\ a \in tracked
    /\ saved \subseteq Int /\ 0 .. a \subseteq saved
    /\ \A n \in saved : n > a => n \in tracked

\* The collected blocks are an interval above a; a walk that ended at a known
\* block can import the lowest of them.
WalkAt(a, w, lo, hi) ==
    /\ w.pending = lo .. hi
    /\ lo <= hi + 1 /\ hi - lo + 1 <= MaxSyncDepth
    /\ lo <= hi => lo > a
    /\ w.phase = "status" => hi < lo
    /\ w.phase \in {"walk", "fetch"} => lo = w.next + 1
    /\ w.phase = "fetch" => w.next > a /\ hi - lo + 1 < MaxSyncDepth
    /\ w.known => w.phase = "import" /\ (lo <= hi => lo - 1 \in tracked)

WalkInv(a, w) == \E lo, hi \in Int : WalkAt(a, w, lo, hi)

SyncInv(a) ==
    /\ SyncTypeInv
    /\ StoreInv(a)
    /\ \A k \in Walkers : walks[k] # NoWalk => WalkInv(a, walks[k])
-----------------------------------------------------------------------------
(* Lemmas *)

\* The lowest block of an interval is its lower end.
LEMMA MinOfInterval ==
    ASSUME NEW lo \in Int, NEW hi \in Int, lo <= hi
    PROVE  MinOf(lo .. hi) = lo
  <1>1. lo \in lo .. hi /\ \A m \in lo .. hi : lo <= m
    OBVIOUS
  <1>2. \A n \in lo .. hi : (\A m \in lo .. hi : n <= m) => n = lo
    BY <1>1
  <1> QED BY <1>1, <1>2, Zenon DEF MinOf

\* The size of an interval, which walk_back_with compares with the depth.
LEMMA IntervalSize ==
    ASSUME NEW lo \in Int, NEW hi \in Int, lo <= hi + 1
    PROVE  Cardinality(lo .. hi) = hi - lo + 1
  BY FS_Interval

\* An import leaves the store sound, and forgets nothing.
LEMMA ImportSound ==
    ASSUME NEW a, StoreInv(a), NEW n \in Int, Import(n)
    PROVE  /\ StoreInv(a)' /\ tracked \subseteq tracked'
           /\ n - 1 \in tracked => n \in tracked'
  <1>1. CASE n \notin tracked /\ n - 1 \in tracked
    <2>1. tracked' = tracked \cup {n} /\ (saved' = saved \cup {n} \/ saved' = saved)
      BY <1>1, Zenon DEF Import
    <2> QED BY <2>1, Zenon DEF StoreInv
  <1>2. CASE ~(n \notin tracked /\ n - 1 \in tracked)
    <2>1. tracked' = tracked /\ saved' = saved
      BY <1>2, Zenon DEF Import
    <2> QED BY <1>2, <2>1, Zenon DEF StoreInv
  <1> QED BY <1>1, <1>2, Zenon

\* A walk keeps its invariant while the engine grows.
LEMMA WalkStays ==
    ASSUME NEW a, NEW w, WalkInv(a, w), tracked \subseteq tracked'
    PROVE  WalkInv(a, w)'
  BY Zenon DEF WalkInv, WalkAt

\* The updates of a walk's record keep its type.
LEMMA WalkTypes ==
    ASSUME NEW w \in WalkType
    PROVE  /\ \A pending \in SUBSET Int : [w EXCEPT !.pending = pending] \in WalkType
           /\ \A phase \in Phases :
                 /\ [w EXCEPT !.phase = phase] \in WalkType
                 /\ \A next \in Int : [w EXCEPT !.phase = phase, !.next = next] \in WalkType
                 /\ \A known \in BOOLEAN : [w EXCEPT !.phase = phase, !.known = known] \in WalkType
                 /\ \A next \in Int, pending \in SUBSET Int :
                       [w EXCEPT !.phase = phase, !.next = next, !.pending = pending] \in WalkType
  BY Zenon DEF WalkType
-----------------------------------------------------------------------------
(* The steps of a walk *)

\* A step that moves one walk on, or ends it, and leaves the rest alone.
LEMMA OneWalk ==
    ASSUME NEW a, SyncInv(a), NEW k \in Walkers, NEW v \in {NoWalk} \cup WalkType,
           v # NoWalk => WalkInv(a, v),
           walks' = [walks EXCEPT ![k] = v],
           tracked' = tracked, saved' = saved, status' = status
    PROVE  SyncInv(a)'
  <1>1. SyncTypeInv'
    BY Zenon DEF SyncInv, SyncTypeInv
  <1>2. StoreInv(a)'
    BY Zenon DEF SyncInv, StoreInv
  <1>3. \A j \in Walkers : walks'[j] # NoWalk => WalkInv(a, walks'[j])
    BY Zenon DEF SyncInv, SyncTypeInv
  <1>4. \A w : WalkInv(a, w) => WalkInv(a, w)'
    BY DEF WalkInv, WalkAt
  <1> QED BY <1>1, <1>2, <1>3, <1>4, Zenon DEF SyncInv

\* A walk starts with nothing collected.
LEMMA NewWalkSound ==
    ASSUME NEW a, NEW p \in Peers
    PROVE  NewWalk(p) \in WalkType /\ WalkInv(a, NewWalk(p))
  <1>1. NewWalk(p) \in WalkType
    BY DEF NewWalk, WalkType, Phases
  <1>2. /\ NewWalk(p).pending = 1 .. 0 /\ NewWalk(p).phase = "status" /\ ~NewWalk(p).known
    BY DEF NewWalk
  <1>3. WalkAt(a, NewWalk(p), 1, 0)
    BY <1>2, SyncAssumption DEF WalkAt
  <1> QED BY <1>1, <1>3 DEF WalkInv

\* The walk sets out from the head of the peer, or ends.
LEMMA HandleStatusKeeps ==
    ASSUME NEW a, SyncInv(a), NEW k \in Walkers, HandleStatus(k)
    PROVE  SyncInv(a)'
  <1> DEFINE w == walks[k]
             s == status[w.peer]
             next == [w EXCEPT !.phase = "walk", !.next = s.head]
  <1>1. w \in WalkType /\ w # NoWalk /\ w.phase = "status"
    BY Zenon DEF HandleStatus, SyncInv, SyncTypeInv
  <1>2. CASE s # NoStatus /\ ShouldSync(s)
    <2>1. s.head \in Nat
      BY <1>1, <1>2, Zenon DEF SyncInv, SyncTypeInv, WalkType
    <2>2. next \in WalkType
      <3>1. "walk" \in Phases /\ s.head \in Int
        BY <2>1 DEF Phases
      <3> QED BY <1>1, <2>1, <3>1, WalkTypes, Zenon
    <2>3. /\ next.pending = w.pending /\ next.known = w.known
          /\ next.phase = "walk" /\ next.next = s.head
      BY <1>1, Zenon DEF WalkType
    <2>4. PICK lo, hi \in Int : w.pending = lo .. hi /\ hi < lo /\ ~w.known
      BY <1>1, Zenon DEF SyncInv, WalkInv, WalkAt
    <2>5. next.pending = s.head + 1 .. s.head
      BY <2>1, <2>3, <2>4
    <2>6. WalkInv(a, next)
      <3>1. WalkAt(a, next, s.head + 1, s.head)
        BY <2>1, <2>3, <2>4, <2>5, SyncAssumption DEF WalkAt
      <3> QED BY <2>1, <3>1 DEF WalkInv
    <2> QED BY <1>2, <2>2, <2>6, OneWalk, Zenon DEF HandleStatus
  <1>3. CASE ~(s # NoStatus /\ ShouldSync(s))
    BY <1>3, OneWalk, Zenon DEF HandleStatus
  <1> QED BY <1>2, <1>3, Zenon

\* The walk ends; what it collected can be imported if it met a saved block.
LEMMA StopWalkKeeps ==
    ASSUME NEW a, SyncInv(a), NEW k \in Walkers, StopWalk(k)
    PROVE  SyncInv(a)'
  <1> DEFINE w == walks[k]
             next == [w EXCEPT !.phase = "import", !.known = w.next \in saved]
  <1>1. w \in WalkType /\ w # NoWalk /\ w.phase = "walk"
    BY Zenon DEF StopWalk, Walking, SyncInv, SyncTypeInv
  <1>2. next \in WalkType
    <2>1. "import" \in Phases /\ (w.next \in saved) \in BOOLEAN
      BY DEF Phases
    <2> QED BY <1>1, <2>1, WalkTypes, Zenon
  <1>3. /\ next.pending = w.pending /\ next.known = (w.next \in saved)
        /\ next.phase = "import" /\ next.next = w.next
    BY <1>1, Zenon DEF WalkType
  <1>4. PICK lo, hi \in Int :
            /\ w.pending = lo .. hi /\ lo = w.next + 1 /\ lo <= hi + 1
            /\ hi - lo + 1 <= MaxSyncDepth /\ (lo <= hi => lo > a)
    BY <1>1, Zenon DEF SyncInv, WalkInv, WalkAt
  <1>5. w.next \in saved /\ lo <= hi => lo - 1 \in tracked
    <2>1. w.next \in Int /\ lo - 1 = w.next
      BY <1>1, <1>4 DEF WalkType
    <2>2. lo <= hi => w.next >= a
      BY <1>4, <2>1 DEF SyncInv, StoreInv
    <2> QED BY <2>1, <2>2 DEF SyncInv, StoreInv
  <1>6. WalkInv(a, next)
    <2>1. WalkAt(a, next, lo, hi)
      BY <1>3, <1>4, <1>5, Zenon DEF WalkAt
    <2> QED BY <2>1, Zenon DEF WalkInv
  <1>7. walks' = [walks EXCEPT ![k] = next]
    BY Zenon DEF StopWalk
  <1> QED BY <1>2, <1>6, <1>7, OneWalk, Zenon DEF StopWalk

\* The block asked for is above the anchor, and there is room for it.
LEMMA RequestKeeps ==
    ASSUME NEW a, SyncInv(a), NEW k \in Walkers, Request(k)
    PROVE  SyncInv(a)'
  <1> DEFINE w == walks[k]
             next == [w EXCEPT !.phase = "fetch"]
  <1>1. w \in WalkType /\ w # NoWalk /\ w.phase = "walk" /\ ~WalkEnds(w)
    BY Zenon DEF Request, Walking, SyncInv, SyncTypeInv
  <1>2. next \in WalkType
    <2>1. "fetch" \in Phases
      BY Zenon DEF Phases
    <2> QED BY <1>1, <2>1, WalkTypes, Zenon
  <1>3. /\ next.pending = w.pending /\ next.known = w.known
        /\ next.phase = "fetch" /\ next.next = w.next
    BY <1>1, Zenon DEF WalkType
  <1>4. PICK lo, hi \in Int : WalkAt(a, w, lo, hi)
    BY <1>1, Zenon DEF SyncInv, WalkInv
  <1>5. w.next \in Int /\ w.next > a
    BY <1>1 DEF WalkEnds, WalkType, SyncInv, StoreInv
  <1>6. hi - lo + 1 < MaxSyncDepth
    <2>1. Cardinality(w.pending) = hi - lo + 1
      BY <1>4, IntervalSize, Zenon DEF WalkAt
    <2> QED BY <1>1, <1>4, <2>1, SyncAssumption DEF WalkAt, WalkEnds
  <1>7. WalkInv(a, next)
    <2>1. WalkAt(a, next, lo, hi)
      BY <1>1, <1>3, <1>4, <1>5, <1>6, Zenon DEF WalkAt
    <2> QED BY <2>1, Zenon DEF WalkInv
  <1>8. walks' = [walks EXCEPT ![k] = next]
    BY Zenon DEF Request
  <1> QED BY <1>2, <1>7, <1>8, OneWalk, Zenon DEF Request

\* The answer extends the interval downwards.
LEMMA FetchBlockKeeps ==
    ASSUME NEW a, SyncInv(a), NEW k \in Walkers, FetchBlock(k)
    PROVE  SyncInv(a)'
  <1> DEFINE w == walks[k]
             next == [w EXCEPT !.phase = "walk", !.next = w.next - 1, !.pending = w.pending \cup {w.next}]
  <1>1. w \in WalkType /\ w # NoWalk /\ w.phase = "fetch"
    BY Zenon DEF FetchBlock, Fetching, SyncInv, SyncTypeInv
  <1>2. w.next \in Int /\ w.pending \in SUBSET Int
    BY <1>1, Zenon DEF WalkType
  <1>3. next \in WalkType
    <2>1. "walk" \in Phases /\ w.next - 1 \in Int /\ w.pending \cup {w.next} \in SUBSET Int
      BY <1>2 DEF Phases
    <2> QED BY <1>1, <2>1, WalkTypes, Zenon
  <1>4. /\ next.pending = w.pending \cup {w.next} /\ next.known = w.known
        /\ next.phase = "walk" /\ next.next = w.next - 1
    BY <1>1, Zenon DEF WalkType
  <1>5. PICK lo, hi \in Int : WalkAt(a, w, lo, hi)
    BY <1>1, Zenon DEF SyncInv, WalkInv
  <1>6. w.pending = lo .. hi /\ lo = w.next + 1 /\ lo <= hi + 1
    BY <1>1, <1>5, Zenon DEF WalkAt
  <1>7. next.pending = w.next .. hi
    BY <1>2, <1>4, <1>6
  <1>8. WalkInv(a, next)
    <2>1. w.next > a /\ hi - lo + 1 < MaxSyncDepth /\ ~w.known
      BY <1>1, <1>5, Zenon DEF WalkAt
    <2>2. w.next <= hi + 1 /\ hi - w.next + 1 <= MaxSyncDepth
      <3>1. MaxSyncDepth \in Int /\ w.next = lo - 1
        BY <1>2, <1>6, SyncAssumption
      <3> QED BY <1>6, <2>1, <3>1
    <2>3. next.next + 1 = w.next
      BY <1>2, <1>4
    <2> HIDE DEF next
    <2>4. WalkAt(a, next, w.next, hi)
      BY <1>4, <1>7, <2>1, <2>2, <2>3, Zenon DEF WalkAt
    <2> QED BY <1>2, <2>4, Zenon DEF WalkInv
  <1>9. walks' = [walks EXCEPT ![k] = next]
    BY Zenon DEF FetchBlock
  <1> QED BY <1>3, <1>8, <1>9, OneWalk, Zenon DEF FetchBlock

\* An empty answer ends the walk without a known block below it.
LEMMA FetchFailsKeeps ==
    ASSUME NEW a, SyncInv(a), NEW k \in Walkers, FetchFails(k)
    PROVE  SyncInv(a)'
  <1> DEFINE w == walks[k]
             next == [w EXCEPT !.phase = "import"]
  <1>1. w \in WalkType /\ w # NoWalk /\ w.phase = "fetch"
    BY Zenon DEF FetchFails, Fetching, SyncInv, SyncTypeInv
  <1>2. UNCHANGED <<tracked, saved, status>>
    BY Zenon DEF FetchFails
  <1>3. CASE walks' = [walks EXCEPT ![k] = NoWalk]
    BY <1>2, <1>3, OneWalk, Zenon
  <1>4. CASE walks' = [walks EXCEPT ![k].phase = "import"]
    <2>1. "import" \in Phases
      BY Zenon DEF Phases
    <2>2. next \in WalkType
      BY <1>1, <2>1, WalkTypes, Zenon
    <2>3. /\ next.pending = w.pending /\ next.known = w.known
          /\ next.phase = "import" /\ next.next = w.next
      BY <1>1, Zenon DEF WalkType
    <2>4. PICK lo, hi \in Int : WalkAt(a, w, lo, hi)
      BY <1>1 DEF SyncInv, WalkInv
    <2>5. WalkAt(a, next, lo, hi)
      BY <1>1, <2>3, <2>4, Zenon DEF WalkAt
    <2>6. WalkInv(a, next)
      BY <2>5, Zenon DEF WalkInv
    <2> QED BY <1>2, <1>4, <2>2, <2>6, OneWalk, Zenon
  <1> QED BY <1>3, <1>4, Zenon DEF FetchFails

\* The lowest block has its parent, so the next one has: the first has just
\* been imported, or was there.
LEMMA ImportNextKeeps ==
    ASSUME NEW a, SyncInv(a), NEW k \in Walkers, ImportNext(k)
    PROVE  SyncInv(a)'
  <1> DEFINE w == walks[k]
             n == NextImport(w)
             next == [w EXCEPT !.pending = w.pending \ {n}]
  <1>1. w \in WalkType /\ w # NoWalk /\ w.phase = "import" /\ w.pending # {}
    BY Zenon DEF ImportNext, Importing, SyncInv, SyncTypeInv
  <1>2. Import(n) /\ status' = status /\ walks' = [walks EXCEPT ![k] = next]
    BY Zenon DEF ImportNext
  <1>3. PICK lo, hi \in Int : WalkAt(a, w, lo, hi)
    BY <1>1, Zenon DEF SyncInv, WalkInv
  <1>4. w.pending = lo .. hi /\ lo <= hi /\ n = lo
    <2>1. w.pending = lo .. hi /\ lo <= hi
      BY <1>1, <1>3 DEF WalkAt
    <2> QED BY <2>1, MinOfInterval, Zenon DEF NextImport
  <1>5. StoreInv(a)' /\ tracked \subseteq tracked' /\ (lo - 1 \in tracked => lo \in tracked')
    BY <1>2, <1>4, ImportSound, Zenon DEF SyncInv
  <1>6. next \in WalkType
    <2>1. w.pending \ {n} \in SUBSET Int
      BY <1>1, Zenon DEF WalkType
    <2> QED BY <1>1, <2>1, WalkTypes, Zenon
  <1>7. SyncTypeInv'
    BY <1>2, <1>6, Zenon DEF SyncInv, SyncTypeInv
  <1>8. PICK v : v = next
    BY Zenon
  <1>9. /\ v.pending = lo + 1 .. hi /\ v.known = w.known
        /\ v.phase = "import" /\ v.next = w.next
    <2>1. /\ next.pending = w.pending \ {n} /\ next.known = w.known
          /\ next.phase = w.phase /\ next.next = w.next
      BY <1>1, Zenon DEF WalkType
    <2>2. (lo .. hi) \ {lo} = lo + 1 .. hi
      OBVIOUS
    <2> QED BY <1>1, <1>4, <1>8, <2>1, <2>2, Zenon
  <1>10. WalkInv(a, v)'
    <2>1. lo > a /\ hi - lo + 1 <= MaxSyncDepth /\ (w.known => lo - 1 \in tracked)
      BY <1>3, <1>4, Zenon DEF WalkAt
    <2>2. lo + 1 > a /\ hi - (lo + 1) + 1 <= MaxSyncDepth /\ lo + 1 <= hi + 1
      BY <1>4, <2>1, SyncAssumption DEF SyncInv, StoreInv
    <2>3. (lo + 1) - 1 = lo /\ (v.known => lo \in tracked')
      BY <1>5, <1>9, <2>1
    <2>4. WalkAt(a, v, lo + 1, hi)'
      BY <1>9, <2>2, <2>3, Zenon DEF WalkAt
    <2> QED BY <2>4 DEF WalkInv
  <1>11. ASSUME NEW j \in Walkers, walks'[j] # NoWalk PROVE WalkInv(a, walks[j])' \/ (j = k)
    <2>1. CASE j # k
      BY <1>2, <1>5, <1>11, <2>1, WalkStays, Zenon DEF SyncInv, SyncTypeInv
    <2> QED BY <2>1, Zenon
  <1>12. walks'[k] = v
    BY <1>2, <1>8, Zenon DEF SyncInv, SyncTypeInv
  <1> QED BY <1>5, <1>7, <1>10, <1>11, <1>12, Zenon DEF SyncInv, WalkInv, WalkAt

\* Blocks that arrive by gossip do not disturb the walks.
LEMMA GossipKeeps ==
    ASSUME NEW a, SyncInv(a), NEW n \in Int, Gossip(n)
    PROVE  SyncInv(a)'
  <1>1. Import(n) /\ status' = status /\ walks' = walks
    BY Zenon DEF Gossip
  <1>2. StoreInv(a)' /\ tracked \subseteq tracked'
    BY <1>1, ImportSound, Zenon DEF SyncInv
  <1>3. SyncTypeInv'
    BY <1>1, Zenon DEF SyncInv, SyncTypeInv
  <1>4. \A w : WalkInv(a, w) => WalkInv(a, w)'
    BY <1>2, WalkStays, Zenon
  <1> QED BY <1>1, <1>2, <1>3, <1>4, Zenon DEF SyncInv

\* The peer's requests fail, and their walks end.
LEMMA DisconnectKeeps ==
    ASSUME NEW a, SyncInv(a), NEW p \in Peers, Disconnect(p)
    PROVE  SyncInv(a)'
  <1>1. /\ status' = [status EXCEPT ![p] = NoStatus] /\ tracked' = tracked /\ saved' = saved
        /\ walks' = [k \in Walkers |-> IF Fetching(k) /\ walks[k].peer = p THEN NoWalk ELSE walks[k]]
    BY Zenon DEF Disconnect
  <1>2. \A k \in Walkers : walks'[k] \in {NoWalk, walks[k]}
    BY <1>1, Zenon
  <1>3. SyncTypeInv' /\ StoreInv(a)'
    BY <1>1, Zenon DEF SyncInv, SyncTypeInv, StoreInv
  <1>4. \A w : WalkInv(a, w) => WalkInv(a, w)'
    BY <1>1, WalkStays, Zenon
  <1> QED BY <1>2, <1>3, <1>4, Zenon DEF SyncInv

\* One case per action; the watch task and initial_sync only start walks.
LEMMA InvStep ==
    ASSUME NEW a, SyncInv(a), waiting \in Peers \cup {NoPeer}, [SyncNext]_sync_vars
    PROVE  SyncInv(a)'
  <1>1. ASSUME NEW p \in Peers, Handshake(p) PROVE SyncInv(a)'
    <2>1. /\ status' \in [Peers -> {NoStatus} \cup [head: Nat, slot: Nat]]
          /\ UNCHANGED <<tracked, saved, walks>>
      <3>1. PICK lead \in 0 .. MaxLead :
               status' = [status EXCEPT ![p] = [head |-> Height[p], slot |-> Height[p] + lead]]
        BY <1>1, Zenon DEF Handshake
      <3>2. [head |-> Height[p], slot |-> Height[p] + lead] \in [head: Nat, slot: Nat]
        BY SyncAssumption
      <3> QED BY <1>1, <3>1, <3>2, Zenon DEF Handshake, SyncInv, SyncTypeInv
    <2>2. SyncTypeInv'
      BY <2>1, Zenon DEF SyncInv, SyncTypeInv
    <2>3. StoreInv(a)'
      BY <2>1, Zenon DEF SyncInv, StoreInv
    <2>4. ASSUME NEW k \in Walkers, walks[k] # NoWalk
          PROVE  WalkInv(a, walks[k])'
      BY <2>1, <2>4, Zenon DEF SyncInv, WalkInv, WalkAt
    <2> QED BY <2>1, <2>2, <2>3, <2>4, Zenon DEF SyncInv
  <1>2. ASSUME NEW p \in Peers, InitialSync(p) PROVE SyncInv(a)'
    BY <1>2, NewWalkSound, OneWalk, Zenon DEF InitialSync, Walkers
  <1>3. CASE Spawn
    <2>1. waiting \in Peers /\ waiting \in Walkers
      BY <1>3, Zenon DEF Spawn, Walkers
    <2> QED BY <1>3, <2>1, NewWalkSound, OneWalk, Zenon DEF Spawn
  <1>4. CASE Tick \/ Receive \/ UNCHANGED sync_vars
    <2>1. UNCHANGED <<tracked, saved, status, walks>>
      BY <1>4, Zenon DEF Tick, Receive, sync_vars
    <2>2. SyncTypeInv'
      BY <2>1, Zenon DEF SyncInv, SyncTypeInv
    <2>3. StoreInv(a)'
      BY <2>1, Zenon DEF SyncInv, StoreInv
    <2>4. ASSUME NEW k \in Walkers, walks[k] # NoWalk
          PROVE  WalkInv(a, walks[k])'
      BY <2>1, <2>4, Zenon DEF SyncInv, WalkInv, WalkAt
    <2> QED BY <2>1, <2>2, <2>3, <2>4, Zenon DEF SyncInv
  <1>5. ASSUME NEW k \in Walkers, Finish(k) PROVE SyncInv(a)'
    BY <1>5, OneWalk, Zenon DEF Finish
  <1>6. \A n \in Block : n \in Int
    BY DEF Block
  <1> QED BY <1>1, <1>2, <1>3, <1>4, <1>5, <1>6, GossipKeeps, DisconnectKeeps, HandleStatusKeeps,
             StopWalkKeeps, RequestKeeps, FetchBlockKeeps, FetchFailsKeeps, ImportNextKeeps, Zenon
          DEF SyncNext, WalkStep
-----------------------------------------------------------------------------
(* Theorems *)

WatchInv == events \in Seq(Peers) /\ waiting \in Peers \cup {NoPeer}

\* The watch task handles peers.
LEMMA WatchStep == WatchInv /\ [SyncNext]_sync_vars => WatchInv'
  <1> SUFFICES ASSUME WatchInv, [SyncNext]_sync_vars PROVE WatchInv'
    BY Zenon
  <1>1. ASSUME NEW p \in Peers, Handshake(p) PROVE WatchInv'
    BY <1>1 DEF Handshake, WatchInv
  <1>2. CASE Receive
    BY <1>2 DEF Receive, WatchInv
  <1>3. CASE Spawn
    BY <1>3, Zenon DEF Spawn, WatchInv
  <1>4. ASSUME NEW p \in Peers, Disconnect(p) \/ InitialSync(p) PROVE WatchInv'
    BY <1>4, Zenon DEF Disconnect, InitialSync, WatchInv
  <1>5. ASSUME NEW n \in Block, Gossip(n) PROVE WatchInv'
    BY <1>5, Zenon DEF Gossip, WatchInv
  <1>6. ASSUME NEW k \in Walkers, WalkStep(k) \/ FetchFails(k) PROVE WatchInv'
    BY <1>6, Zenon DEF WalkStep, HandleStatus, StopWalk, Request, FetchBlock, FetchFails, ImportNext,
                Finish, WatchInv
  <1>7. CASE Tick \/ UNCHANGED sync_vars
    BY <1>7, Zenon DEF Tick, sync_vars, WatchInv
  <1> QED BY <1>1, <1>2, <1>3, <1>4, <1>5, <1>6, <1>7, Zenon DEF SyncNext

\* A process starts with an anchor in storage and no walk.
LEMMA SyncInvInit ==
    ASSUME \A s \in Starts : s.saved = 0 .. s.anchor
    PROVE  SyncInit => WatchInv /\ \E a : SyncInv(a)
  <1> SUFFICES ASSUME SyncInit PROVE WatchInv /\ \E a : SyncInv(a)
    BY Zenon
  <1>1. PICK s \in Starts : tracked = {s.anchor} /\ saved = s.saved
    BY Zenon DEF SyncInit, BuildEngine
  <1>2. s.anchor \in 0 .. s.anchor /\ saved = 0 .. s.anchor
    BY <1>1, SyncAssumption, Zenon
  <1>3. StoreInv(s.anchor)
    BY <1>1, <1>2 DEF StoreInv
  <1>4. SyncTypeInv /\ \A k \in Walkers : walks[k] = NoWalk
    BY Zenon DEF SyncInit, SyncTypeInv
  <1>5. WatchInv
    BY DEF SyncInit, WatchInv
  <1> QED BY <1>3, <1>4, <1>5, Zenon DEF SyncInv

\* If storage holds the chain up to the anchor, a walk that ended at a block in
\* storage offers import_chain no block whose parent is missing, for any number
\* of peers and walks, any chain and any limit on the depth, whatever gossip
\* and other walks import and whichever saves fail.
THEOREM ImportOrderSafety ==
    ASSUME \A s \in Starts : s.saved = 0 .. s.anchor
    PROVE  SyncSpec => []ParentResolved
  <1> DEFINE IInv == WatchInv /\ \E a : SyncInv(a)
  <1>1. SyncInit => IInv
    BY SyncInvInit, Zenon
  <1>2. IInv /\ [SyncNext]_sync_vars => IInv'
    <2> SUFFICES ASSUME IInv, [SyncNext]_sync_vars PROVE IInv'
      BY Zenon
    <2>1. PICK a : SyncInv(a)
      BY Zenon
    <2>2. SyncInv(a)'
      BY <2>1, InvStep, Zenon DEF WatchInv
    <2> QED BY <2>2, WatchStep, Zenon
  <1>3. IInv => ParentResolved
    <2> SUFFICES ASSUME NEW a, SyncInv(a), NEW k \in Walkers,
                        Importing(k), walks[k].pending # {}, walks[k].known
                 PROVE  NextImport(walks[k]) - 1 \in tracked
      BY Zenon DEF ParentResolved
    <2>1. PICK lo, hi \in Int : WalkAt(a, walks[k], lo, hi)
      BY Zenon DEF SyncInv, WalkInv, Importing
    <2>2. walks[k].pending = lo .. hi /\ lo <= hi /\ lo - 1 \in tracked
      BY <2>1 DEF WalkAt
    <2> QED BY <2>2, MinOfInterval, Zenon DEF NextImport
  <1> QED BY <1>1, <1>2, <1>3, PTL DEF SyncSpec

\* Only the watch task adds to the walks it runs.
LEMMA RunningGrows ==
    ASSUME DOMAIN walks = Walkers, [SyncNext]_sync_vars
    PROVE  DOMAIN walks' = Walkers /\ (RunningWalks' \subseteq RunningWalks \/ Spawn)
  <1>1. ASSUME NEW k \in Walkers, walks[k] # NoWalk, NEW v, walks' = [walks EXCEPT ![k] = v]
        PROVE  DOMAIN walks' = Walkers /\ RunningWalks' \subseteq RunningWalks
    BY <1>1, Zenon DEF RunningWalks, Walkers
  <1>2. ASSUME NEW p \in Peers, Handshake(p) \/ Disconnect(p) \/ InitialSync(p)
        PROVE  DOMAIN walks' = Walkers /\ RunningWalks' \subseteq RunningWalks
    BY <1>2, SyncAssumption, Zenon DEF Handshake, Disconnect, InitialSync, RunningWalks, Walkers
  <1>3. ASSUME NEW n \in Block, Gossip(n) PROVE walks' = walks
    BY <1>3, Zenon DEF Gossip
  <1>4. CASE Tick \/ Receive \/ UNCHANGED sync_vars
    BY <1>4, Zenon DEF Tick, Receive, sync_vars, RunningWalks
  <1>5. CASE Spawn
    BY <1>5, Zenon DEF Spawn
  <1>6. ASSUME NEW k \in Walkers, WalkStep(k) \/ FetchFails(k)
        PROVE  walks[k] # NoWalk /\ \E v : walks' = [walks EXCEPT ![k] = v]
    <2>1. CASE HandleStatus(k)
      BY <2>1, Zenon DEF HandleStatus
    <2>2. CASE StopWalk(k)
      BY <2>2, Zenon DEF StopWalk, Walking
    <2>3. CASE Request(k)
      BY <2>3, Zenon DEF Request, Walking
    <2>4. CASE FetchBlock(k)
      BY <2>4, Zenon DEF FetchBlock, Fetching
    <2>5. CASE FetchFails(k)
      BY <2>5, Zenon DEF FetchFails, Fetching
    <2>6. CASE ImportNext(k)
      BY <2>6, Zenon DEF ImportNext, Importing
    <2>7. CASE Finish(k)
      BY <2>7, Zenon DEF Finish, Importing
    <2> QED BY <1>6, <2>1, <2>2, <2>3, <2>4, <2>5, <2>6, <2>7, Zenon DEF WalkStep
  <1>7. ASSUME NEW k \in Walkers, WalkStep(k) \/ FetchFails(k)
        PROVE  DOMAIN walks' = Walkers /\ RunningWalks' \subseteq RunningWalks
    BY <1>1, <1>6, <1>7, Zenon
  <1> QED BY <1>2, <1>3, <1>4, <1>5, <1>7, Zenon DEF SyncNext, RunningWalks

\* The semaphore of the watch task: it never runs more walks than permits.
THEOREM PermitSafety == SyncSpec => []WalksBounded
  <1> DEFINE IInv == WalksBounded /\ DOMAIN walks = Walkers
  <1>1. SyncInit => IInv
    <2> SUFFICES ASSUME SyncInit PROVE IInv
      BY Zenon
    <2>1. RunningWalks = {} /\ DOMAIN walks = Walkers
      BY Zenon DEF SyncInit, RunningWalks, Walkers
    <2> QED BY <2>1, FS_EmptySet, SyncAssumption DEF WalksBounded
  <1>2. IInv /\ [SyncNext]_sync_vars => IInv'
    <2> SUFFICES ASSUME IInv, [SyncNext]_sync_vars PROVE IInv'
      BY Zenon
    <2>1. IsFiniteSet(RunningWalks) /\ Cardinality(RunningWalks) \in Nat /\ MaxWalks \in Nat
      BY SyncAssumption, FS_Subset, FS_CardinalityType, Zenon DEF RunningWalks
    <2>2. CASE RunningWalks' \subseteq RunningWalks
      <3>1. Cardinality(RunningWalks') <= Cardinality(RunningWalks) /\ Cardinality(RunningWalks') \in Nat
        BY <2>1, <2>2, FS_Subset, FS_CardinalityType, Zenon
      <3> QED BY <2>1, <3>1, RunningGrows DEF WalksBounded
    <2>3. CASE Spawn
      <3>1. /\ Cardinality(RunningWalks) < MaxWalks
            /\ RunningWalks' \subseteq RunningWalks \cup {waiting}
        BY <2>3, Zenon DEF Spawn, RunningWalks, Walkers
      <3>2. /\ IsFiniteSet(RunningWalks \cup {waiting})
            /\ Cardinality(RunningWalks \cup {waiting}) <= Cardinality(RunningWalks) + 1
            /\ Cardinality(RunningWalks \cup {waiting}) \in Nat
        BY <2>1, FS_AddElement, FS_CardinalityType
      <3>3. Cardinality(RunningWalks') <= Cardinality(RunningWalks \cup {waiting}) /\ Cardinality(RunningWalks') \in Nat
        BY <3>1, <3>2, FS_Subset, FS_CardinalityType, Zenon
      <3> QED BY <2>1, <3>1, <3>2, <3>3, RunningGrows DEF WalksBounded
    <2> QED BY <2>2, <2>3, RunningGrows, Zenon
  <1> QED BY <1>1, <1>2, PTL DEF SyncSpec
-----------------------------------------------------------------------------
(* The signer *)

\* Everything that was released is below the watermark of its own key; a
\* running signer is at or above its watermarks; a leaf on its way out is the
\* last one its key signed.
Guarded ==
    /\ \A l \in Leaf : released[l] # 0 =>
          /\ released[l] = 1
          /\ stored[l.validator].seed = l.seed
          /\ stored[l.validator].next_index > l.epoch
    /\ \A v \in Validators : FromRecordOk(stored[v].next_index)
    /\ up => \A v \in Validators : SameKey(v) /\ keys[v].next_index >= stored[v].next_index
    /\ \A l \in unsaved \cup unreleased :
          up /\ l.seed = file[l.validator] /\ keys[l.validator].next_index = l.epoch + 1
    /\ \A l \in unsaved : stored[l.validator].next_index <= l.epoch
    /\ \A l \in unreleased :
          /\ released[l] = 0
          /\ stored[l.validator].seed = l.seed
          /\ stored[l.validator].next_index = l.epoch + 1
    /\ \A l, m \in unsaved \cup unreleased : l = m
    /\ unsaved = {} \/ unreleased = {}

\* The prepared window starts a whole number of steps before the end.
Aligned(p) == p \in FirstEpoch .. End - 2 * Step /\ \E k \in Nat : End - p = Step * k
Windowed == \A v \in Validators :
    /\ Aligned(keys[v].prepared)
    /\ Covers(keys[v].prepared, asked[v])
    /\ ~up => asked[v] = FirstEpoch

SignerInv == SignerTypeOK /\ Guarded /\ Windowed
-----------------------------------------------------------------------------
(* The prepared window *)

\* A longer run of steps is at least as far.
LEMMA StepMonotone ==
    ASSUME NEW i \in Int, NEW j \in Int, i <= j, NEW s \in Nat
    PROVE  s * i <= s * j
  <1>1. PICK d \in Nat : j = i + d
    <2>1. j - i \in Nat /\ j = i + (j - i)
      OBVIOUS
    <2> QED BY <2>1, Zenon
  <1>2. s * j = s * i + s * d
    BY <1>1
  <1>3. s * d >= 0
    BY <1>1
  <1>4. s * i \in Int /\ s * j \in Int /\ s * d \in Int
    BY <1>1
  <1> QED BY <1>2, <1>3, <1>4

\* Quotient and remainder.
LEMMA Quotient ==
    ASSUME NEW n \in Nat, NEW s \in Nat \ {0}
    PROVE  /\ n \div s \in Nat
           /\ s * (n \div s) <= n
           /\ n < s * (n \div s) + s
  OBVIOUS

\* prepare keeps the window inside the key's life and, unless the epoch is
\* behind it, makes it cover the epoch.
LEMMA PrepareCorrect ==
    ASSUME NEW p \in Int, Aligned(p), NEW e \in Active
    PROVE  /\ Aligned(Prepare(p, e))
           /\ Prepare(p, e) >= p
           /\ e >= p => Covers(Prepare(p, e), e)
           /\ e < p => Prepare(p, e) = p
           /\ e < p + 2 * Step => Prepare(p, e) = p
  <1>0. End \in Nat /\ Step \in Nat \ {0} /\ FirstEpoch \in Nat /\ e \in Nat /\ e < End
    BY OtsAssumption DEF Active, End
  <1>1. CASE e < p + 2 * Step
    BY <1>0, <1>1 DEF Prepare, Covers, Aligned
  <1>2. CASE e >= p + 2 * Step
    <2> DEFINE q == (e - p) \div Step
               r == p + Step * (q - 1)
    <2>1. e - p \in Nat /\ e - p >= 2 * Step
      BY <1>0, <1>2 DEF Aligned
    <2>2. q \in Nat /\ Step * q <= e - p /\ e - p < Step * q + Step
      BY <2>1, <1>0, Quotient, Zenon
    <2>3. Prepare(p, e) = r
      BY <1>0, <1>2 DEF Prepare
    <2> HIDE DEF q
    <2>4. Step * (q - 1) = Step * q - Step /\ Step * (q + 1) = Step * q + Step
      BY <2>2, <1>0
    <2>5. Covers(r, e)
      BY <2>2, <2>4, <1>0 DEF Covers
    <2>6. q >= 1
      <3>1. CASE q = 0
        BY <3>1, <2>1, <2>2, <1>0
      <3> QED BY <3>1, <2>2
    <2>7. PICK k \in Nat : End - p = Step * k
      BY Zenon DEF Aligned
    <2>8. q + 1 <= k
      <3>1. CASE k <= q
        <4>1. Step * k <= Step * q
          BY <3>1, <2>2, <1>0, StepMonotone
        <4> QED BY <4>1, <2>7, <2>2, <1>0
      <3> QED BY <3>1, <2>2
    <2>9. Step * (q + 1) <= Step * k
      BY <2>8, <2>2, <1>0, StepMonotone
    <2>10. r \in Int /\ r <= End - 2 * Step
      BY <2>9, <2>7, <2>4, <2>2, <1>0
    <2>11. 0 <= Step * (q - 1)
      <3>1. Step * 0 <= Step * (q - 1)
        BY <2>6, <2>2, <1>0, StepMonotone
      <3> QED BY <3>1, <1>0
    <2>12. End - r = Step * (k - (q - 1)) /\ k - (q - 1) \in Nat
      <3>1. Step * (k - (q - 1)) = Step * k - Step * (q - 1)
        BY <2>2, <1>0
      <3> QED BY <3>1, <2>7, <2>8, <2>2, <1>0
    <2>13. Aligned(r)
      <3>1. r >= FirstEpoch
        BY <2>11, <2>2, <1>0 DEF Aligned
      <3> QED BY <3>1, <2>10, <2>12, <1>0 DEF Aligned
    <2>14. r >= p
      BY <2>11, <2>2, <1>0
    <2> HIDE DEF r
    <2> QED BY <2>3, <2>5, <2>13, <2>14, <1>2, <1>0
  <1> QED BY <1>0, <1>1, <1>2
-----------------------------------------------------------------------------
(* The invariant *)

\* The window of a key just generated or loaded.
LEMMA FreshWindow ==
    /\ Aligned(FirstEpoch)
    /\ Covers(FirstEpoch, FirstEpoch)
    /\ FirstEpoch \in Active
  <1>1. /\ NumActive \in Nat /\ Step \in Nat \ {0} /\ FirstEpoch \in Nat
        /\ End - FirstEpoch = NumActive /\ End \in Nat
        /\ 2 * Step <= NumActive
    BY OtsAssumption DEF End
  <1>2. NumActive \div Step \in Nat /\ NumActive = Step * (NumActive \div Step)
    BY OtsAssumption
  <1>3. Aligned(FirstEpoch)
    <2>1. \E k \in Nat : End - FirstEpoch = Step * k
      BY <1>1, <1>2, Zenon
    <2>2. FirstEpoch \in FirstEpoch .. End - 2 * Step
      BY <1>1
    <2> QED BY <2>1, <2>2, Zenon DEF Aligned
  <1> QED BY <1>1, <1>3 DEF Covers, Active

LEMMA InitSignerInv == SignerInit => SignerInv
  <1> SUFFICES ASSUME SignerInit PROVE SignerInv
    BY Zenon
  <1> USE DEF SignerInit
  <1>1. End \in Nat /\ 0 \in 0 .. End /\ FirstEpoch \in FirstEpoch .. End - 2 * Step
    BY OtsAssumption DEF End
  <1>2. SignerTypeOK
    <2>1. up \in BOOLEAN
      BY Zenon
    <2>2. stored \in [Validators -> [seed: Seeds \cup {NoSeed}, next_index: 0 .. End]]
      BY <1>1, Zenon
    <2>3. keys \in [Validators -> [next_index: 0 .. End, prepared: FirstEpoch .. End - 2 * Step]]
      BY <1>1, Zenon DEF FreshKey
    <2>4. asked \in [Validators -> Active]
      BY FreshWindow, Zenon
    <2>5. signed \in [Leaf -> 0 .. 2] /\ released \in [Leaf -> 0 .. 2]
      OBVIOUS
    <2> QED BY <2>1, <2>2, <2>3, <2>4, <2>5, Zenon DEF SignerTypeOK
  <1>3. Guarded
    BY Zenon DEF Guarded, FromRecordOk, SameKey
  <1>4. Windowed
    BY FreshWindow, Zenon DEF Windowed, FreshKey
  <1> QED BY <1>2, <1>3, <1>4, Zenon DEF SignerInv

LEMMA LoadSignerInv == SignerInv /\ Load => SignerInv'
  <1> SUFFICES ASSUME SignerInv, Load PROVE SignerInv'
    BY Zenon
  <1> USE DEF SignerInv, Load, ResolveRecord
  <1>1. FirstEpoch \in FirstEpoch .. End - 2 * Step
    BY OtsAssumption DEF End
  <1>2. SignerTypeOK'
    <2>1. (up \in BOOLEAN)'
      BY Zenon
    <2>2. (keys \in [Validators -> [next_index: 0 .. End, prepared: FirstEpoch .. End - 2 * Step]])'
      BY <1>1, Zenon DEF SignerTypeOK
    <2> QED BY <2>1, <2>2, Zenon DEF SignerTypeOK
  <1>3. Guarded'
    <2>1. unsaved = {} /\ unreleased = {}
      BY Zenon DEF Guarded
    <2>2. \A v \in Validators : keys'[v].next_index = stored[v].next_index /\ stored[v].next_index \in Int
      BY DEF SignerTypeOK
    <2>3. \A v \in Validators : SameKey(v)'
      BY Zenon DEF SameKey
    <2> QED BY <2>1, <2>2, <2>3 DEF Guarded, FromRecordOk
  <1>4. Windowed'
    BY FreshWindow, Zenon DEF Windowed, SignerTypeOK
  <1> QED BY <1>2, <1>3, <1>4, Zenon
\* Asking a key for an active epoch leaves its window over the highest one
\* asked for, whether or not the epoch is behind the window.
LEMMA AskedWindow ==
    ASSUME NEW p \in Int, NEW a \in Active, NEW e \in Active, Aligned(p), Covers(p, a)
    PROVE  /\ Aligned(Prepare(p, e))
           /\ Covers(Prepare(p, e), IF e > a THEN e ELSE a)
  <1>0. FirstEpoch \in Int /\ End \in Int /\ Step \in Nat \ {0}
    BY OtsAssumption DEF End
  <1>1. a \in Int /\ e \in Int
    BY <1>0 DEF Active
  <1>2. CASE e > a
    BY <1>0, <1>1, <1>2, PrepareCorrect DEF Covers
  <1>3. CASE ~(e > a)
    BY <1>0, <1>1, <1>3, PrepareCorrect DEF Covers
  <1> QED BY <1>2, <1>3, Zenon

LEMMA SignSignerInv ==
    ASSUME SignerInv, NEW v \in Validators, NEW e \in Slots, SignAttestation(v, e)
    PROVE  SignerInv'
  <1> DEFINE leaf == [validator |-> v, seed |-> file[v], epoch |-> e]
             p == Prepare(keys[v].prepared, e)
  <1> USE DEF SignerInv
  <1>1. /\ up /\ unsaved = {} /\ unreleased = {}
        /\ e \in Active
        /\ asked' = [asked EXCEPT ![v] = IF e > @ THEN e ELSE @]
        /\ e >= keys[v].next_index
        /\ keys' = [keys EXCEPT ![v] = [next_index |-> e + 1, prepared |-> p]]
        /\ unsaved' = {leaf}
        /\ signed' = [signed EXCEPT ![leaf] = Count(@)]
        /\ UNCHANGED <<up, file, stored, unreleased, released>>
    BY Zenon DEF SignAttestation
  <1>2. e \in Nat /\ FirstEpoch \in Nat /\ End \in Nat /\ e + 1 \in 0 .. End /\ FirstEpoch <= e /\ e < End
    BY <1>1, OtsAssumption DEF Active, End
  <1>3. keys[v].prepared \in Int /\ asked[v] \in Active /\ Aligned(keys[v].prepared)
        /\ Covers(keys[v].prepared, asked[v])
    BY OtsAssumption DEF SignerTypeOK, Windowed, End
  <1>4. Aligned(p) /\ Covers(p, IF e > asked[v] THEN e ELSE asked[v])
    BY <1>1, <1>3, AskedWindow, Zenon
  <1>5. leaf \in Leaf /\ leaf.validator = v /\ leaf.seed = file[v] /\ leaf.epoch = e
    BY <1>1, Zenon DEF Leaf, SignerTypeOK
  <1> HIDE DEF leaf, p
  <1>6. /\ keys'[v].next_index = e + 1 /\ keys'[v].prepared = p
        /\ \A w \in Validators : w # v => keys'[w] = keys[w]
        /\ asked'[v] = IF e > asked[v] THEN e ELSE asked[v]
        /\ \A w \in Validators : w # v => asked'[w] = asked[w]
    BY <1>1, Zenon DEF SignerTypeOK
  <1>7. SignerTypeOK'
    <2>1. (up \in BOOLEAN)' /\ (file \in [Validators -> Seeds])'
      BY <1>1, Zenon DEF SignerTypeOK
    <2>2. (keys \in [Validators -> [next_index: 0 .. End, prepared: FirstEpoch .. End - 2 * Step]])'
      BY <1>1, <1>2, <1>4, Zenon DEF SignerTypeOK, Aligned
    <2>3. (asked \in [Validators -> Active])'
      BY <1>1, <1>3, Zenon DEF SignerTypeOK
    <2>4. (signed \in [Leaf -> 0 .. 2])'
      BY <1>1, <1>5 DEF SignerTypeOK, Count
    <2>5. (unsaved \subseteq Leaf)' /\ (unreleased \subseteq Leaf)' /\ (released \in [Leaf -> 0 .. 2])'
          /\ (stored \in [Validators -> [seed: Seeds \cup {NoSeed}, next_index: 0 .. End]])'
      BY <1>1, <1>5, Zenon DEF SignerTypeOK
    <2> QED BY <2>1, <2>2, <2>3, <2>4, <2>5, Zenon DEF SignerTypeOK
  <1>8. Guarded'
    <2>1. \A w \in Validators : /\ stored[w].next_index \in Int /\ keys[w].next_index \in Int
                                 /\ keys[w].next_index >= stored[w].next_index
      BY <1>1 DEF Guarded, SignerTypeOK
    <2>2. \A w \in Validators : keys'[w].next_index >= stored[w].next_index
      BY <2>1, <1>1, <1>2, <1>6
    <2>3. stored[v].next_index <= e
      <3>1. e >= keys[v].next_index
        BY <1>1, Zenon
      <3> QED BY <3>1, <2>1, <1>2
    <2>4. \A w \in Validators : SameKey(w)'
      BY <1>1, Zenon DEF Guarded, SameKey
    <2> QED BY <2>2, <2>3, <2>4, <1>1, <1>5, <1>6, Zenon DEF Guarded, FromRecordOk
  <1>9. Windowed'
    BY <1>1, <1>4, <1>6, Zenon DEF Windowed
  <1> QED BY <1>7, <1>8, <1>9, Zenon

LEMMA SignFailsSignerInv ==
    ASSUME SignerInv, NEW v \in Validators, NEW e \in Slots, SignAttestationFails(v, e)
    PROVE  SignerInv'
  <1> DEFINE p == Prepare(keys[v].prepared, e)
  <1> USE DEF SignerInv
  <1>1. /\ up /\ unsaved = {} /\ unreleased = {}
        /\ e \in Active
        /\ asked' = [asked EXCEPT ![v] = IF e > @ THEN e ELSE @]
        /\ keys' = [keys EXCEPT ![v].prepared = p]
        /\ UNCHANGED <<up, file, stored, unsaved, unreleased, signed, released>>
    BY Zenon DEF SignAttestationFails, SignerTypeOK
  <1>3. keys[v].prepared \in Int /\ asked[v] \in Active /\ Aligned(keys[v].prepared)
        /\ Covers(keys[v].prepared, asked[v])
    BY OtsAssumption DEF SignerTypeOK, Windowed, End
  <1>4. Aligned(p) /\ Covers(p, IF e > asked[v] THEN e ELSE asked[v])
    BY <1>1, <1>3, AskedWindow, Zenon
  <1> HIDE DEF p
  <1>6. /\ keys'[v].next_index = keys[v].next_index /\ keys'[v].prepared = p
        /\ \A w \in Validators : w # v => keys'[w] = keys[w]
        /\ asked'[v] = IF e > asked[v] THEN e ELSE asked[v]
        /\ \A w \in Validators : w # v => asked'[w] = asked[w]
    BY <1>1, Zenon DEF SignerTypeOK
  <1>7. SignerTypeOK'
    <2>1. (up \in BOOLEAN)'
      BY <1>1, Zenon DEF SignerTypeOK
    <2>2. (keys \in [Validators -> [next_index: 0 .. End, prepared: FirstEpoch .. End - 2 * Step]])'
      BY <1>1, <1>4, Zenon DEF SignerTypeOK, Aligned
    <2>3. (asked \in [Validators -> Active])'
      BY <1>1, <1>3, Zenon DEF SignerTypeOK
    <2> QED BY <2>1, <2>2, <2>3, <1>1, Zenon DEF SignerTypeOK
  <1>8. Guarded'
    <2>1. \A w \in Validators : keys'[w].next_index = keys[w].next_index
      BY <1>6, Zenon
    <2>2. \A w \in Validators : SameKey(w)'
      BY <1>1, Zenon DEF Guarded, SameKey
    <2> QED BY <2>1, <2>2, <1>1, Zenon DEF Guarded, FromRecordOk
  <1>9. Windowed'
    BY <1>1, <1>4, <1>6, Zenon DEF Windowed
  <1> QED BY <1>7, <1>8, <1>9
LEMMA SaveSignerInv ==
    ASSUME SignerInv, NEW l \in unsaved, SaveOtsKeyState(l)
    PROVE  SignerInv'
  <1> DEFINE v == l.validator
  <1> USE DEF SignerInv
  <1>1. /\ unsaved' = {} /\ unreleased' = {l}
        /\ UNCHANGED <<up, file, keys, signed, released, asked>>
    BY Zenon DEF SaveOtsKeyState
  <1>2. l \in Leaf /\ v \in Validators /\ l.seed \in Seeds /\ l.epoch \in Active
    BY Zenon DEF SignerTypeOK, Leaf
  <1>3. up /\ l.seed = file[v] /\ keys[v].next_index = l.epoch + 1 /\ stored[v].next_index <= l.epoch
    BY Zenon DEF Guarded
  <1>4. stored' = [stored EXCEPT ![v] = [seed |-> l.seed, next_index |-> l.epoch + 1]]
    BY <1>3, Zenon DEF SaveOtsKeyState
  <1>5. l.epoch \in Nat /\ FirstEpoch < l.epoch + 1 /\ l.epoch + 1 <= End /\ l.epoch + 1 \in 0 .. End
    BY <1>2, OtsAssumption DEF Active, End
  <1>6. /\ stored'[v].seed = l.seed /\ stored'[v].next_index = l.epoch + 1
        /\ \A w \in Validators : w # v => stored'[w] = stored[w]
    BY <1>2, <1>4, Zenon DEF SignerTypeOK
  <1>7. SignerTypeOK'
    <2>1. (up \in BOOLEAN)'
      BY <1>1, Zenon DEF SignerTypeOK
    <2>2. (stored \in [Validators -> [seed: Seeds \cup {NoSeed}, next_index: 0 .. End]])'
      BY <1>2, <1>4, <1>5, Zenon DEF SignerTypeOK
    <2> QED BY <2>1, <2>2, <1>1, <1>2, Zenon DEF SignerTypeOK
  <1>8. released[l] = 0
    BY <1>2, <1>3, <1>5 DEF Guarded, SignerTypeOK
  <1>9. ASSUME NEW m \in Leaf, released[m] # 0
        PROVE  /\ released[m] = 1
               /\ stored'[m.validator].seed = m.seed
               /\ stored'[m.validator].next_index > m.epoch
    <2>1. /\ released[m] = 1 /\ m.validator \in Validators
          /\ stored[m.validator].seed = m.seed
          /\ stored[m.validator].next_index > m.epoch
          /\ m.epoch \in Active /\ m.seed \in Seeds
      BY <1>9, Zenon DEF Guarded, Leaf
    <2>2. CASE m.validator = v
      <3>1. stored[v].seed \in {NoSeed, file[v]}
        BY <1>2, <1>3, Zenon DEF Guarded, SameKey
      <3>2. m.seed = l.seed
        BY <3>1, <2>1, <2>2, <1>3, OtsAssumption, Zenon
      <3>3. stored[v].next_index \in Int /\ m.epoch \in Int
        BY <1>2, <2>1, OtsAssumption DEF SignerTypeOK, Active, End
      <3> QED BY <3>2, <3>3, <2>1, <2>2, <1>3, <1>5, <1>6
    <2>3. CASE m.validator # v
      BY <2>1, <2>3, <1>6, Zenon
    <2> QED BY <2>2, <2>3, Zenon
  <1>10. \A w \in Validators : FromRecordOk(stored'[w].next_index)
    BY <1>5, <1>6, Zenon DEF Guarded, FromRecordOk
  <1>11. \A w \in Validators : SameKey(w)' /\ keys[w].next_index >= stored'[w].next_index
    <2>1. \A w \in Validators : SameKey(w) /\ keys[w].next_index >= stored[w].next_index
      BY <1>3, Zenon DEF Guarded
    <2> QED BY <2>1, <1>1, <1>3, <1>5, <1>6 DEF SameKey
  <1>12. Guarded'
    BY <1>1, <1>3, <1>6, <1>8, <1>9, <1>10, <1>11, Zenon DEF Guarded, FromRecordOk
  <1>13. Windowed'
    BY <1>1, Zenon DEF Windowed
  <1> QED BY <1>7, <1>12, <1>13, Zenon

LEMMA WithholdSignerInv ==
    ASSUME SignerInv, NEW l \in unsaved, Withhold(l)
    PROVE  SignerInv'
  <1> USE DEF SignerInv, Withhold
  <1>1. SignerTypeOK'
    BY Zenon DEF SignerTypeOK
  <1>2. \A w \in Validators : SameKey(w)' = SameKey(w)
    BY Zenon DEF SameKey
  <1>3. Guarded'
    BY <1>2, Zenon DEF Guarded, FromRecordOk
  <1>4. Windowed'
    BY Zenon DEF Windowed
  <1> QED BY <1>1, <1>3, <1>4, Zenon

LEMMA ReleaseSignerInv ==
    ASSUME SignerInv, NEW l \in unreleased, Release(l)
    PROVE  SignerInv'
  <1> USE DEF SignerInv
  <1>1. /\ unreleased' = {} /\ released' = [released EXCEPT ![l] = Count(@)]
        /\ UNCHANGED <<up, file, stored, keys, unsaved, signed, asked>>
    BY Zenon DEF Release
  <1>2. l \in Leaf /\ l.validator \in Validators /\ l.epoch \in Nat
    BY OtsAssumption DEF SignerTypeOK, Leaf, Active, End
  <1>3. released[l] = 0 /\ stored[l.validator].seed = l.seed
        /\ stored[l.validator].next_index = l.epoch + 1 /\ unsaved = {}
    BY Zenon DEF Guarded
  <1>4. released'[l] = 1 /\ \A m \in Leaf : m # l => released'[m] = released[m]
    BY <1>1, <1>2, <1>3, Zenon DEF SignerTypeOK, Count
  <1>5. SignerTypeOK'
    <2>1. (up \in BOOLEAN)'
      BY <1>1, Zenon DEF SignerTypeOK
    <2>2. (released \in [Leaf -> 0 .. 2])'
      BY <1>1, <1>2 DEF SignerTypeOK, Count
    <2> QED BY <2>1, <2>2, <1>1, Zenon DEF SignerTypeOK
  <1>6. \A m \in Leaf : released'[m] # 0 =>
           /\ released'[m] = 1
           /\ stored[m.validator].seed = m.seed
           /\ stored[m.validator].next_index > m.epoch
    BY <1>2, <1>3, <1>4 DEF Guarded
  <1>7. \A w \in Validators : SameKey(w)' = SameKey(w)
    BY <1>1, Zenon DEF SameKey
  <1>8. Guarded'
    BY <1>1, <1>3, <1>6, <1>7, Zenon DEF Guarded, FromRecordOk
  <1>9. Windowed'
    BY <1>1, Zenon DEF Windowed
  <1> QED BY <1>5, <1>8, <1>9

LEMMA CrashSignerInv == ASSUME SignerInv, Crash PROVE SignerInv'
  <1> USE DEF SignerInv, Crash
  <1>1. FirstEpoch \in FirstEpoch .. End - 2 * Step /\ 0 \in 0 .. End
    BY OtsAssumption DEF End
  <1>2. SignerTypeOK'
    <2>1. (up \in BOOLEAN)'
      BY Zenon
    <2>2. (keys \in [Validators -> [next_index: 0 .. End, prepared: FirstEpoch .. End - 2 * Step]])'
      BY <1>1, Zenon DEF FreshKey
    <2>3. (asked \in [Validators -> Active])'
      BY FreshWindow, Zenon
    <2> QED BY <2>1, <2>2, <2>3, Zenon DEF SignerTypeOK
  <1>3. Guarded'
    BY Zenon DEF Guarded, FromRecordOk
  <1>4. Windowed'
    BY FreshWindow, Zenon DEF Windowed, FreshKey
  <1> QED BY <1>2, <1>3, <1>4, Zenon

LEMMA ReplaceSignerInv ==
    ASSUME SignerInv, NEW v \in Validators, NEW seed \in Seeds, ReplaceSecret(v, seed)
    PROVE  SignerInv'
  <1> USE DEF SignerInv, ReplaceSecret
  <1>1. SignerTypeOK'
    BY Zenon DEF SignerTypeOK
  <1>2. Guarded'
    <2>1. unsaved = {} /\ unreleased = {}
      BY Zenon DEF Guarded
    <2> QED BY <2>1, Zenon DEF Guarded, FromRecordOk
  <1>3. Windowed'
    BY Zenon DEF Windowed
  <1> QED BY <1>1, <1>2, <1>3, Zenon
-----------------------------------------------------------------------------
(* The theorems *)

\* The inductive invariant holds in every reachable state.
THEOREM SignerInvariance == SignerSpec => []SignerInv
  <1>1. SignerInv /\ [SignerNext]_signer_vars => SignerInv'
    <2> SUFFICES ASSUME SignerInv, [SignerNext]_signer_vars PROVE SignerInv'
      OBVIOUS
    <2>1. CASE UNCHANGED signer_vars
      <3>1. SignerTypeOK'
        BY <2>1, Zenon DEF SignerInv, SignerTypeOK, signer_vars
      <3>2. Guarded'
        BY <2>1, Zenon DEF SignerInv, Guarded, FromRecordOk, SameKey, signer_vars
      <3>3. Windowed'
        BY <2>1, Zenon DEF SignerInv, Windowed, signer_vars
      <3> QED BY <3>1, <3>2, <3>3, Zenon DEF SignerInv
    <2> QED BY <2>1, LoadSignerInv, SignSignerInv, SignFailsSignerInv, SaveSignerInv, WithholdSignerInv, ReleaseSignerInv,
               CrashSignerInv, ReplaceSignerInv, Zenon DEF SignerNext
  <1> QED BY <1>1, InitSignerInv, PTL DEF SignerSpec

\* Keys and watermarks stay well formed, and prepare never moves a window past
\* the end of the key's life.
THEOREM SignerTypeCorrectness == SignerSpec => []SignerTypeOK
  <1>1. SignerInv => SignerTypeOK
    BY Zenon DEF SignerInv
  <1> QED BY <1>1, SignerInvariance, PTL

\* OtsSigner releases at most one signature of every leaf, across any number
\* of crashes, failed saves and exchanged secret files.
THEOREM OneRelease == SignerSpec => []ReleasedOnce
  <1>1. SignerInv => ReleasedOnce
    <2> SUFFICES ASSUME SignerInv, NEW l \in Leaf PROVE released[l] <= 1
      BY Zenon DEF ReleasedOnce
    <2> QED BY DEF SignerInv, Guarded, SignerTypeOK
  <1> QED BY <1>1, SignerInvariance, PTL

\* load_resuming accepts every watermark that OtsSigner saved for the key.
THEOREM Resumes == SignerSpec => []ResumeAccepted
  <1>1. SignerInv => ResumeAccepted
    BY Zenon DEF SignerInv, Guarded, ResumeAccepted, ResolveRecord
  <1> QED BY <1>1, SignerInvariance, PTL

\* No request moves a key's prepared window past the highest epoch asked for.
THEOREM WindowSafety == SignerSpec => []WindowCoversAsked
  <1>1. SignerInv => WindowCoversAsked
    BY Zenon DEF SignerInv, Windowed, WindowCoversAsked
  <1> QED BY <1>1, SignerInvariance, PTL
-----------------------------------------------------------------------------
(* The life of a node *)

\* The position in Order of the service that task t belongs to.
Rank(t) ==
    IF t \in Walks THEN 3
    ELSE IF t = "swarm" THEN 2
    ELSE IF t = "watch" THEN 3
    ELSE IF t = "runner" THEN 4
    ELSE IF t = "httpd" THEN 5
    ELSE 6

\* Task t is not running, or on its way out.
Left(t) ==
    Running(t) => \/ t \in aborted
                  \/ t \in Walks /\ "sync" \in token
                  \/ t = "swarm" /\ ~host

TypeInv ==
    /\ node \in {"starting", "running", "stopping", "unwinding", "stopped", "failed"}
    /\ count \in 0 .. 6
    /\ step \in {"idle", "call", "join", "drain", "aborting"}
    /\ {failure, deadline, host} \subseteq BOOLEAN
    /\ task \in [Tasks -> {"none", "running", "ended", "panicked"}]

\* Where start and stop are, and what the step of a stop call means.
PhaseInv ==
    /\ node \in {"starting", "running"} => token = {}
    /\ IF Stopping THEN count >= 1 /\ step # "idle" ELSE step = "idle"
    /\ Over => count = 0
    /\ node = "running" => count = 6
    /\ node = "starting" => count < 6
    /\ Stopping /\ step # "call" => Current \in token \ {"chain"}
    /\ step = "drain" => count = 3 /\ task["watch"] = "ended"
    /\ step = "aborting" => deadline /\ Main(Current) \in aborted
    /\ "watch" \in aborted => "sync" \in token
    /\ "p2p" \in token => count <= 2
    /\ count >= 3 => task["watch"] # "none"

\* The tasks of the services that are stopped or were never started.
TaskInv ==
    \A t \in Tasks : Rank(t) > count =>
        /\ Left(t)
        /\ ~failure /\ ~deadline => ~Running(t)
        /\ ~deadline /\ t \in {"runner", "watch"} => ~Running(t)
        /\ ~deadline /\ t \in Walks /\ task["watch"] # "panicked" => ~Running(t)

Inv == TypeInv /\ PhaseInv /\ TaskInv
-----------------------------------------------------------------------------
(* Lemmas *)

\* The services and their places.
LEMMA Places ==
    /\ Len(Order) = 6
    /\ Order[1] = "chain" /\ Order[2] = "p2p" /\ Order[3] = "sync"
    /\ Order[4] = "duties" /\ Order[5] = "http" /\ Order[6] = "metrics"
  BY Zenon DEF Order

\* The task a service's stop joins.
LEMMA Mains ==
    /\ Main("p2p") = "swarm" /\ Main("sync") = "watch" /\ Main("duties") = "runner"
    /\ Main("http") = "httpd" /\ Main("metrics") = "metricsd"
  BY Zenon DEF Main, TasksOf

\* A task of the current service is the one its stop joins, or a walk.
LEMMA CurrentTasks ==
    ASSUME NEW t \in Tasks, count \in 1 .. 6, Rank(t) = count
    PROVE  /\ t = Main(Current) \/ (t \in Walks /\ Current = "sync")
           /\ Current # "chain"
  BY Places, Mains, LifecycleAssumption, Zenon DEF Rank, Current, Tasks

\* Where the current service stands in the order.
LEMMA CurrentPlace ==
    ASSUME count \in 1 .. 6
    PROVE  /\ Current = "p2p" <=> count = 2
           /\ Current = "sync" <=> count = 3
           /\ Current # "chain" => Main(Current) \in Tasks /\ Rank(Main(Current)) = count
           /\ Main(Current) = "watch" => Current = "sync" \/ Current = "chain"
  BY Places, Mains, LifecycleAssumption DEF Current, Rank, Tasks

\* The named tasks are not walks.
LEMMA Names ==
    /\ {"swarm", "watch", "runner", "httpd", "metricsd"} \cap Walks = {}
    /\ Rank("swarm") = 2 /\ Rank("watch") = 3 /\ Rank("runner") = 4
    /\ \A w \in Walks : Rank(w) = 3
    /\ \A t \in Tasks : Rank(t) \in 2 .. 6
  BY LifecycleAssumption DEF Rank, Tasks
-----------------------------------------------------------------------------
(* Steps of the tasks *)

\* A step that only ends a task keeps the invariant.
LEMMA ExitKeeps ==
    ASSUME Inv, NEW t \in Tasks, Running(t), NEW how \in {"ended", "panicked"}, Exit(t, how)
    PROVE  Inv'
  <1>1. /\ UNCHANGED <<node, count, step, failure, deadline, token, aborted, host>>
        /\ task' = [task EXCEPT ![t] = how]
    BY Zenon DEF Exit
  <1>2. TypeInv'
    BY <1>1, Zenon DEF Inv, TypeInv
  <1>3. \A u \in Tasks : /\ Running(u)' => Running(u)
                         /\ ~Running(u) => task'[u] = task[u]
    BY <1>1, Zenon DEF Inv, TypeInv, Running
  <1>4. "watch" \in Tasks
    BY Zenon DEF Tasks
  <1>5. PhaseInv'
    BY <1>1, <1>3, <1>4, Zenon DEF Inv, TypeInv, PhaseInv, Stopping, Over, Current, Running
  <1>6. TaskInv'
    BY <1>1, <1>3, <1>4, Zenon DEF Inv, TaskInv, Left, Running
  <1> QED BY <1>2, <1>5, <1>6, Zenon DEF Inv

\* What the tasks do among themselves keeps the invariant.
LEMMA CallsKeep ==
    ASSUME Inv, UNCHANGED <<node, count, step, failure, deadline, task, token, aborted, host>>
    PROVE  Inv'
  BY Zenon DEF Inv, TypeInv, PhaseInv, TaskInv, Left, Running, Stopping, Over, Current

\* Every step of a task keeps the invariant.
LEMMA TaskStepKeeps ==
    ASSUME Inv, NEW t \in Tasks, TaskStep(t) \/ Panic(t)
    PROVE  Inv'
  <1>1. CASE WalkDone(t) \/ Cancelled(t) \/ Aborted(t) \/ Panic(t)
    <2>1. Running(t) /\ (Exit(t, "ended") \/ Exit(t, "panicked"))
      BY <1>1, Zenon DEF WalkDone, Cancelled, Aborted, Panic
    <2> QED BY <2>1, ExitKeeps, Zenon
  <1>2. ASSUME NEW c \in CallsOf(t), SendCommand(c) \/ Abandon(c) PROVE Inv'
    BY <1>2, CallsKeep, Zenon DEF SendCommand, Abandon
  <1>3. CASE Serve \/ Publish
    BY <1>3, CallsKeep, Zenon DEF Serve, Publish
  <1>4. CASE t = "swarm" /\ Hangup
    BY <1>4, ExitKeeps, Zenon DEF Hangup
  <1> QED BY <1>1, <1>2, <1>3, <1>4, Zenon DEF TaskStep

\* A walk starts only while the watch task runs, so not behind a stop of sync
\* that was clean.
LEMMA SpawnWalkKeeps ==
    ASSUME Inv, NEW w \in Walks, SpawnWalk(w)
    PROVE  Inv'
  <1>1. /\ UNCHANGED <<node, count, step, failure, deadline, token, aborted, host>>
        /\ task' = [task EXCEPT ![w] = "running"] /\ Running("watch")
    BY Zenon DEF SpawnWalk
  <1>2. w \in Tasks /\ "watch" \in Tasks /\ w # "watch" /\ Rank(w) = 3 /\ Rank("watch") = 3
    BY Names, Zenon DEF Tasks
  <1>3. TypeInv' /\ task'["watch"] = task["watch"]
    BY <1>1, <1>2, Zenon DEF Inv, TypeInv
  <1>4. PhaseInv'
    BY <1>1, <1>3, Zenon DEF Inv, PhaseInv, Stopping, Over, Current
  <1>5. \A u \in Tasks \ {w} : task'[u] = task[u]
    BY <1>1, Zenon DEF Inv, TypeInv
  <1>6. Rank(w) > count => "sync" \in token /\ deadline
    BY <1>1, <1>2, Names, Zenon DEF Inv, TypeInv, PhaseInv, TaskInv, Left
  <1>7. TaskInv'
    BY <1>1, <1>3, <1>5, <1>6, Zenon DEF Inv, TaskInv, Left, Running
  <1> QED BY <1>3, <1>4, <1>7, Zenon DEF Inv
-----------------------------------------------------------------------------
(* Steps of start and stop *)

\* The next service of Node::start.
LEMMA StartServiceKeeps ==
    ASSUME Inv, StartService
    PROVE  Inv'
  <1>1. /\ node = "starting" /\ count \in 0 .. 5 /\ count' = count + 1
        /\ node' \in {"starting", "running"}
        /\ UNCHANGED <<step, failure, deadline, token, aborted>>
    BY Places DEF StartService, Inv, TypeInv
  <1> DEFINE s == Order[count + 1]
  <1>2. /\ \A t \in Tasks : task'[t] = IF s # "chain" /\ t = Main(s) THEN "running" ELSE task[t]
        /\ host' = (host \/ s = "p2p")
    BY Zenon DEF StartService
  <1>3. task' \in [Tasks -> {"none", "running", "ended", "panicked"}]
    BY Zenon DEF StartService, Inv, TypeInv
  <1>4. TypeInv'
    BY <1>1, <1>2, <1>3 DEF Inv, TypeInv
  <1>5. /\ s = "p2p" <=> count = 1
        /\ s = "sync" <=> count = 2
        /\ s # "chain" => Main(s) \in Tasks /\ Rank(Main(s)) = count + 1
        /\ count = 2 => Main(s) = "watch"
    BY <1>1, Places, Mains, Names DEF Rank, Tasks
  <1>6. \A t \in Tasks : Rank(t) > count + 1 => task'[t] = task[t]
    BY <1>1, <1>2, <1>5
  <1>7. "watch" \in Tasks /\ (count + 1 >= 3 => task'["watch"] # "none")
    BY <1>1, <1>2, <1>5, "watch" \in Tasks DEF Inv, PhaseInv, Tasks
  <1>8. PhaseInv'
    BY <1>1, <1>2, <1>7, Places DEF Inv, PhaseInv, Stopping, Over, StartService
  <1>9. TaskInv'
    <2> SUFFICES ASSUME NEW t \in Tasks, Rank(t) > count + 1
                 PROVE  /\ Left(t)'
                        /\ ~failure /\ ~deadline => ~Running(t)'
                        /\ ~deadline /\ t \in {"runner", "watch"} => ~Running(t)'
                        /\ ~deadline /\ t \in Walks /\ task'["watch"] # "panicked" => ~Running(t)'
      BY <1>1, Zenon DEF TaskInv
    <2>1. task'[t] = task[t] /\ Rank(t) > count
      BY <1>1, <1>6, Names
    <2>2. t = "swarm" => (host' <=> host)
      <3>1. t = "swarm" => s # "p2p"
        BY <1>1, <1>5, Names
      <3> QED BY <3>1, <1>2, Zenon
    <2>3. t \in Walks => task'["watch"] = task["watch"]
      BY <1>6, <1>7, Names, Zenon
    <2> QED BY <1>1, <2>1, <2>2, <2>3, Zenon DEF Inv, TaskInv, Left, Running
  <1> QED BY <1>4, <1>8, <1>9, Zenon DEF Inv

\* A listener that cannot be bound has started services before it.
LEMMA StartFailsKeeps ==
    ASSUME Inv, StartFails \/ Stop
    PROVE  Inv'
  <1>1. /\ node \in {"starting", "running"} /\ node' \in {"stopping", "unwinding"}
        /\ step' = "call"
        /\ UNCHANGED <<count, failure, deadline, task, token, aborted, host>>
    BY Zenon DEF StartFails, Stop
  <1>2. count >= 1
    <2>1. CASE StartFails
      <3>1. Order[count + 1] # "chain"
        BY <2>1, Zenon DEF StartFails
      <3> QED BY <3>1, Places DEF Inv, TypeInv
    <2>2. CASE Stop
      BY <2>2 DEF Stop, Inv, PhaseInv
    <2> QED BY <2>1, <2>2, Zenon
  <1>3. TypeInv' /\ PhaseInv'
    BY <1>1, <1>2, Zenon DEF Inv, TypeInv, PhaseInv, Stopping, Over, Current
  <1>4. TaskInv'
    BY <1>1, Zenon DEF Inv, TaskInv, Left, Running
  <1> QED BY <1>3, <1>4, Zenon DEF Inv

\* The deadline only weakens what is claimed.
LEMMA DeadlineKeeps ==
    ASSUME Inv, Deadline
    PROVE  Inv'
  <1>1. deadline' /\ UNCHANGED <<node, count, step, failure, task, token, aborted, host>>
    BY Zenon DEF Deadline
  <1>2. TypeInv' /\ PhaseInv' /\ TaskInv'
    BY <1>1, Zenon DEF Inv, TypeInv, PhaseInv, TaskInv, Left, Running, Stopping, Over, Current
  <1> QED BY <1>2, Zenon DEF Inv

\* The steps of a stop call before it returns.
LEMMA StopStepsKeep ==
    ASSUME Inv, Stopping,
           UNCHANGED <<node, count, failure, deadline, task, host>>,
           \/ /\ step = "call" /\ step' = "join" /\ Current # "chain"
              /\ token' = token \cup {Current} /\ aborted' = aborted
           \/ /\ step = "join" /\ step' = "drain" /\ Current = "sync"
              /\ task["watch"] = "ended" /\ UNCHANGED <<token, aborted>>
           \/ /\ step = "join" /\ step' = "aborting" /\ deadline /\ Current # "chain"
              /\ aborted' = aborted \cup {Main(Current)} /\ token' = token
    PROVE  Inv'
  <1>1. count \in 1 .. 6 /\ Current' = Current
    BY DEF Inv, TypeInv, PhaseInv, Current
  <1>2. TypeInv'
    BY Zenon DEF Inv, TypeInv
  <1>3. PhaseInv'
    BY <1>1, CurrentPlace DEF Inv, PhaseInv, Stopping, Over
  <1>4. TaskInv'
    BY Zenon DEF Inv, TaskInv, Left, Running
  <1> QED BY <1>2, <1>3, <1>4, Zenon DEF Inv

\* A stop call may return when the tasks of its service are accounted for.
LEMMA ReturnKeeps ==
    ASSUME Inv, Stopping, NEW ok \in BOOLEAN, Return(ok),
           task' = task, token' = token, aborted \subseteq aborted',
           "watch" \in aborted' => "sync" \in token,
           \A t \in Tasks : Rank(t) = count =>
               /\ Running(t) => t \in aborted' \/ (t \in Walks /\ "sync" \in token) \/ t = "swarm"
               /\ ok /\ ~deadline => ~Running(t)
               /\ ~deadline /\ t \in {"runner", "watch"} => ~Running(t)
               /\ ~deadline /\ t \in Walks /\ task["watch"] # "panicked" => ~Running(t)
    PROVE  Inv'
  <1>1. /\ count \in 1 .. 6 /\ count' = count - 1 /\ deadline' = deadline
        /\ failure' = (failure \/ ~ok) /\ host' = (host /\ Current # "p2p")
    BY DEF Return, Inv, TypeInv, PhaseInv
  <1>2. \/ count' = 0 /\ step' = "idle" /\ node' \in {"stopped", "failed"}
        \/ count' # 0 /\ step' = "call" /\ node' = node
    BY Zenon DEF Return
  <1>3. TypeInv'
    BY <1>1, <1>2 DEF Inv, TypeInv
  <1>4. PhaseInv'
    BY <1>1, <1>2 DEF Inv, PhaseInv, Stopping, Over
  <1>5. ASSUME NEW t \in Tasks, Rank(t) > count'
        PROVE  /\ Left(t)'
               /\ ~failure' /\ ~deadline' => ~Running(t)'
               /\ ~deadline' /\ t \in {"runner", "watch"} => ~Running(t)'
               /\ ~deadline' /\ t \in Walks /\ task'["watch"] # "panicked" => ~Running(t)'
    <2>1. Rank(t) = count \/ Rank(t) > count
      BY <1>1, <1>5, Names
    <2>2. CASE Rank(t) > count
      BY <1>1, <2>2, Zenon DEF Inv, TaskInv, Left, Running
    <2>3. CASE Rank(t) = count
      <3>1. t = "swarm" => ~host'
        BY <1>1, <2>3, Names, CurrentPlace, Zenon
      <3> QED BY <1>1, <2>3, <3>1, Zenon DEF Left, Running
    <2> QED BY <2>1, <2>2, <2>3, Zenon
  <1>6. TaskInv'
    BY <1>5, Zenon DEF TaskInv
  <1> QED BY <1>3, <1>4, <1>6, Zenon DEF Inv

\* Every step of stop_services_reverse keeps the invariant.
LEMMA StopStepKeeps ==
    ASSUME Inv, StopStep
    PROVE  Inv'
  <1>1. Stopping /\ count \in 1 .. 6
    <2>1. Stopping
      BY Zenon DEF StopStep, StopChain, CancelOwn, SendShutdown, Join, Drain, AbortTask,
             AwaitAborted, StopOneDeadline
    <2> QED BY <2>1 DEF Inv, TypeInv, PhaseInv
  <1> USE CurrentPlace, CurrentTasks
  <1>2. CASE StopChain
    BY <1>1, <1>2, ReturnKeeps, Zenon DEF StopChain, Inv, PhaseInv
  <1>3. CASE CancelOwn
    BY <1>1, <1>3, StopStepsKeep, Zenon DEF CancelOwn
  <1>4. CASE SendShutdown
    BY <1>1, <1>4, StopStepsKeep, Zenon DEF SendShutdown
  <1>5. CASE Join
    <2>1. step = "join" /\ ~Running(Main(Current)) /\ Current \in token
      BY <1>1, <1>5, Zenon DEF Join, Inv, PhaseInv
    <2>2. UNCHANGED <<task, token, aborted>>
      BY <1>5, Zenon DEF Join
    <2>3. CASE Current = "sync" /\ task["watch"] = "ended"
      BY <1>1, <1>5, <2>1, <2>2, <2>3, StopStepsKeep, Zenon DEF Join
    <2>4. CASE Current = "sync" /\ task["watch"] # "ended"
      <3>1. Return(FALSE)
        BY <1>5, <2>4, Mains, Zenon DEF Join
      <3>2. task["watch"] = "panicked"
        <4>1. "watch" \in Tasks
          BY Zenon DEF Tasks
        <4> QED BY <1>1, <2>1, <2>4, <4>1, Mains DEF Inv, TypeInv, PhaseInv, Running
      <3>3. \A t \in Tasks : Rank(t) = count => (t = "watch" /\ ~Running(t)) \/ t \in Walks
        BY <1>1, <2>1, <2>4, Mains, Zenon
      <3>4. "sync" \in token /\ "runner" \notin Walks /\ "watch" \notin Walks
        BY <2>1, <2>4, Names, Zenon
      <3> QED BY <1>1, <2>2, <3>1, <3>2, <3>3, <3>4, ReturnKeeps, Zenon
    <2>5. CASE Current # "sync"
      <3>1. Return(task[Main(Current)] = "ended")
        BY <1>5, <2>5, Zenon DEF Join
      <3>2. \A t \in Tasks : Rank(t) = count => ~Running(t)
        BY <1>1, <2>1, <2>5, Zenon
      <3>3. PICK ok \in BOOLEAN : Return(ok)
        BY <3>1, Zenon
      <3>4. \A t \in Tasks : Rank(t) = count =>
               /\ Running(t) => t \in aborted' \/ (t \in Walks /\ "sync" \in token) \/ t = "swarm"
               /\ ok /\ ~deadline => ~Running(t)
               /\ ~deadline /\ t \in {"runner", "watch"} => ~Running(t)
               /\ ~deadline /\ t \in Walks /\ task["watch"] # "panicked" => ~Running(t)
        BY <3>2, Zenon
      <3>5. "watch" \in aborted' => "sync" \in token
        BY <2>2, Zenon DEF Inv, PhaseInv
      <3>6. aborted \subseteq aborted'
        BY <2>2, Zenon
      <3>7. task' = task /\ token' = token
        BY <2>2, Zenon
      <3> QED BY <1>1, <3>3, <3>4, <3>5, <3>6, <3>7, ReturnKeeps, Zenon
    <2> QED BY <2>3, <2>4, <2>5, Zenon
  <1>6. CASE Drain
    <2>1. count = 3 /\ Current = "sync" /\ Current \in token /\ ~Running("watch")
      BY <1>1, <1>6, Zenon DEF Drain, Inv, PhaseInv, Running
    <2>2. Return(~deadline) /\ UNCHANGED <<task, token, aborted>>
      BY <1>6, Zenon DEF Drain
    <2>3. \A t \in Tasks : Rank(t) = count => t = "watch" \/ t \in Walks
      BY <1>1, <2>1, Mains, Zenon
    <2>4. deadline \/ \A w \in Walks : ~Running(w)
      BY <1>6, Zenon DEF Drain
    <2> QED BY <1>1, <2>1, <2>2, <2>3, <2>4, Names, ReturnKeeps, Zenon DEF Inv, TypeInv, PhaseInv
  <1>7. CASE AbortTask
    <2>1. /\ step = "join" /\ deadline /\ aborted' = aborted \cup {Main(Current)}
          /\ UNCHANGED <<task, token>> /\ Current \in token
      BY <1>1, <1>7, Zenon DEF AbortTask, Inv, PhaseInv
    <2>2. CASE Current = "p2p"
      <3>1. Return(TRUE)
        BY <1>7, <2>2, Zenon DEF AbortTask
      <3> QED BY <1>1, <2>1, <2>2, <3>1, Mains, ReturnKeeps, Zenon DEF Inv, PhaseInv
    <2>3. CASE Current # "p2p"
      <3>1. Current # "chain"
        BY <1>1, <2>1, Zenon DEF Inv, PhaseInv
      <3> QED BY <1>1, <1>7, <2>1, <2>3, <3>1, StopStepsKeep, Zenon DEF AbortTask
    <2> QED BY <2>2, <2>3, Zenon
  <1>8. CASE AwaitAborted
    <2>1. step = "aborting" /\ ~Running(Main(Current)) /\ deadline /\ Current \in token
      BY <1>1, <1>8, Zenon DEF AwaitAborted, Inv, PhaseInv
    <2>2. Return(Current \notin BudgetFirst) /\ UNCHANGED <<task, token, aborted>>
      BY <1>8, Zenon DEF AwaitAborted
    <2> QED BY <1>1, <2>1, <2>2, ReturnKeeps, Zenon DEF Inv, PhaseInv
  <1>9. CASE StopOneDeadline
    <2>1. Return(FALSE) /\ deadline /\ UNCHANGED <<task, token, aborted>>
      BY <1>9, Zenon DEF StopOneDeadline
    <2>2. CASE step = "aborting"
      <3>1. Main(Current) \in aborted /\ Current \in token
        BY <1>1, <2>2, Zenon DEF Inv, PhaseInv
      <3> QED BY <1>1, <2>1, <3>1, ReturnKeeps, Zenon DEF Inv, PhaseInv
    <2>3. CASE Current = "p2p"
      BY <1>1, <2>1, <2>3, Mains, ReturnKeeps, Zenon DEF Inv, PhaseInv
    <2> QED BY <1>9, <2>2, <2>3, Zenon DEF StopOneDeadline
  <1> QED BY <1>2, <1>3, <1>4, <1>5, <1>6, <1>7, <1>8, <1>9, Zenon DEF StopStep
-----------------------------------------------------------------------------
(* Theorems *)

\* Before the start nothing runs.
LEMMA InvInit == Init => Inv
  <1> SUFFICES ASSUME Init PROVE Inv
    OBVIOUS
  <1>1. TypeInv
    <2>1. {failure, deadline, host} \subseteq BOOLEAN
      BY Zenon DEF Init
    <2>2. count \in 0 .. 6
      BY DEF Init
    <2>3. task \in [Tasks -> {"none", "running", "ended", "panicked"}]
      BY Zenon DEF Init
    <2> QED BY <2>1, <2>2, <2>3, Zenon DEF Init, TypeInv
  <1>2. PhaseInv
    BY DEF Init, PhaseInv, Stopping, Over
  <1>3. TaskInv
    BY Zenon DEF Init, TaskInv, Left, Running
  <1> QED BY <1>1, <1>2, <1>3, Zenon DEF Inv

\* One case per action of Next.
LEMMA InvInductive == Inv /\ [Next]_vars => Inv'
  <1> SUFFICES ASSUME Inv, [Next]_vars PROVE Inv'
    OBVIOUS
  <1>1. CASE StartService
    BY <1>1, StartServiceKeeps, Zenon
  <1>2. CASE StartFails \/ Stop
    BY <1>2, StartFailsKeeps, Zenon
  <1>3. CASE BeginTick
    BY <1>3, CallsKeep, Zenon DEF BeginTick
  <1>4. CASE StopStep
    BY <1>4, StopStepKeeps
  <1>5. CASE Deadline
    BY <1>5, DeadlineKeeps
  <1>6. ASSUME NEW t \in Tasks, TaskStep(t) \/ Panic(t) PROVE Inv'
    BY <1>6, TaskStepKeeps, Zenon
  <1>7. ASSUME NEW w \in Walks, SpawnWalk(w) PROVE Inv'
    BY <1>7, SpawnWalkKeeps, Zenon
  <1>8. ASSUME NEW c \in Calls, BeginCall(c) PROVE Inv'
    BY <1>8, CallsKeep, Zenon DEF BeginCall
  <1>9. CASE UNCHANGED vars
    BY <1>9, CallsKeep, Zenon DEF vars
  <1> QED BY <1>1, <1>2, <1>3, <1>4, <1>5, <1>6, <1>7, <1>8, <1>9, Zenon DEF Next

\* The invariant holds throughout.
LEMMA Invariance == Spec => []Inv
  BY InvInit, InvInductive, PTL DEF Spec

\* The order of Node::stop: whatever panics, stalls or blocks, p2p is told to
\* stop only after the tasks that call into its swarm task have ended, unless
\* the deadline has fired or the watch task has panicked.
THEOREM StopOrder == Spec => []SwarmOutlivesUsers
  <1>1. Inv => SwarmOutlivesUsers
    <2> SUFFICES ASSUME Inv, "p2p" \in token, ~deadline, task["watch"] # "panicked",
                        NEW t \in {"runner", "watch"} \cup Walks
                 PROVE  ~Running(t)
      BY Zenon DEF SwarmOutlivesUsers
    <2>1. t \in Tasks /\ Rank(t) \in 3 .. 4
      BY Names DEF Tasks
    <2>2. count <= 2 /\ count \in 0 .. 6
      BY Zenon DEF Inv, TypeInv, PhaseInv
    <2> QED BY <2>1, <2>2 DEF Inv, TaskInv
  <1> QED BY <1>1, Invariance, PTL

\* What Node::stop and a failed Node::start leave running is on its way out,
\* for any number of walks and panics.
THEOREM NothingIsForgotten == Spec => []NothingForgotten
  <1>1. Inv => NothingForgotten
    <2> SUFFICES ASSUME Inv, Over, NEW t \in Tasks PROVE Left(t)
      BY Zenon DEF NothingForgotten, Left
    <2>1. count = 0 /\ Rank(t) \in 2 .. 6
      BY Names, Zenon DEF Inv, PhaseInv
    <2> QED BY <2>1 DEF Inv, TaskInv
  <1> QED BY <1>1, Invariance, PTL

\* A stop without error and within the deadline leaves nothing running.
THEOREM StopIsClean == Spec => []CleanStop
  <1>1. Inv => CleanStop
    <2> SUFFICES ASSUME Inv, Over, ~failure, ~deadline, NEW t \in Tasks PROVE ~Running(t)
      BY Zenon DEF CleanStop
    <2>1. count = 0 /\ Rank(t) \in 2 .. 6
      BY Names, Zenon DEF Inv, PhaseInv
    <2> QED BY <2>1 DEF Inv, TaskInv
  <1> QED BY <1>1, Invariance, PTL
=============================================================================
