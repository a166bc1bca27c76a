-------------------------- MODULE P2pServiceProofs --------------------------
(***************************************************************************)
(* The safety of the p2p service, for any peers, walks, capacities and     *)
(* bounds.                                                                 *)
(***************************************************************************)
EXTENDS P2pService, TLAPS, FiniteSetTheorems
-----------------------------------------------------------------------------
(* Sequences *)

\* What is in a queue after an element was put into it.
LEMMA RangeAppend ==
    ASSUME NEW S, NEW s \in Seq(S), NEW e \in S
    PROVE  Range(Append(s, e)) = Range(s) \cup {e}
  <1> DEFINE t == Append(s, e)
  <1>1. DOMAIN t = DOMAIN s \cup {Len(s) + 1}
    OBVIOUS
  <1>2. t[Len(s) + 1] = e /\ \A i \in DOMAIN s : t[i] = s[i]
    OBVIOUS
  <1> HIDE DEF t
  <1>3. Range(t) = Range(s) \cup {e}
    BY <1>1, <1>2, Zenon DEF Range
  <1> QED BY <1>3 DEF t

\* What is in a queue after its first element was taken.
LEMMA RangeTail ==
    ASSUME NEW S, NEW s \in Seq(S), s # <<>>
    PROVE  /\ Head(s) \in S /\ Tail(s) \in Seq(S) /\ Len(Tail(s)) = Len(s) - 1
           /\ Range(s) = Range(Tail(s)) \cup {Head(s)}
  <1>1. Head(s) \in S /\ Tail(s) \in Seq(S) /\ Len(Tail(s)) = Len(s) - 1
    OBVIOUS
  <1>2. ASSUME NEW i \in DOMAIN s
        PROVE  s[i] \in Range(Tail(s)) \cup {Head(s)}
    <2>1. CASE i = 1
      BY <2>1
    <2>2. CASE i # 1
      <3>1. i - 1 \in DOMAIN Tail(s) /\ Tail(s)[i - 1] = s[i]
        BY <1>2, <2>2
      <3> QED BY <3>1, Zenon DEF Range
    <2> QED BY <2>1, <2>2, Zenon
  <1>3. ASSUME NEW i \in DOMAIN Tail(s)
        PROVE  Tail(s)[i] \in Range(s)
    <2>1. i + 1 \in DOMAIN s /\ Tail(s)[i] = s[i + 1]
      BY <1>3
    <2> QED BY <2>1, Zenon DEF Range
  <1>4. Head(s) \in Range(s)
    BY DEF Range
  <1> QED BY <1>1, <1>2, <1>3, <1>4, Zenon DEF Range

\* The number of a peer's messages in a queue is a number.
LEMMA HeldNat ==
    ASSUME NEW S, NEW s \in Seq(S), NEW p
    PROVE  IsFiniteSet({i \in DOMAIN s : s[i] = p}) /\ Held(s, p) \in Nat
  <1>1. DOMAIN s = 1 .. Len(s) /\ Len(s) \in Nat
    OBVIOUS
  <1>2. IsFiniteSet(1 .. Len(s))
    BY <1>1, FS_Interval
  <1>3. IsFiniteSet({i \in DOMAIN s : s[i] = p})
    BY <1>1, <1>2, FS_Subset, Zenon
  <1> QED BY <1>3, FS_CardinalityType, Zenon DEF Held

\* A message put into a queue counts for its source, and for no other peer.
LEMMA HeldAppend ==
    ASSUME NEW S, NEW s \in Seq(S), NEW e \in S, NEW p
    PROVE  Held(Append(s, e), p) = Held(s, p) + (IF e = p THEN 1 ELSE 0)
  <1> DEFINE A == {i \in DOMAIN s : s[i] = p}
             B == {i \in DOMAIN Append(s, e) : Append(s, e)[i] = p}
  <1>1. IsFiniteSet(A) /\ Cardinality(A) \in Nat
    BY HeldNat, Zenon DEF Held
  <1>2. Held(s, p) = Cardinality(A) /\ Held(Append(s, e), p) = Cardinality(B)
    BY Zenon DEF Held
  <1>3. e = p => B = A \cup {Len(s) + 1} /\ Len(s) + 1 \notin A
    OBVIOUS
  <1>4. e # p => B = A
    OBVIOUS
  <1> HIDE DEF A, B
  <1>5. e = p => Cardinality(B) = Cardinality(A) + 1
    BY <1>1, <1>3, FS_AddElement, Zenon
  <1> QED BY <1>1, <1>2, <1>4, <1>5

\* A message taken from a queue no longer counts.
LEMMA HeldTail ==
    ASSUME NEW S, NEW s \in Seq(S), s # <<>>, NEW p
    PROVE  Held(s, p) = Held(Tail(s), p) + (IF Head(s) = p THEN 1 ELSE 0)
  <1> DEFINE A == {i \in DOMAIN Tail(s) : Tail(s)[i] = p}
             B == {i \in DOMAIN s : s[i] = p}
             C == {i \in B : i # 1}
             f == [i \in A |-> i + 1]
  <1>1. Tail(s) \in Seq(S)
    OBVIOUS
  <1>2. IsFiniteSet(A) /\ Cardinality(A) \in Nat
    BY <1>1, HeldNat, Zenon DEF Held
  <1>3. \A i \in A : i + 1 \in C
    OBVIOUS
  <1>4. \A j \in C : j - 1 \in A /\ (j - 1) + 1 = j
    OBVIOUS
  <1>5. \A i, j \in A : i + 1 = j + 1 => i = j
    OBVIOUS
  <1>6. f \in Bijection(A, C)
    <2>1. f \in [A -> C]
      BY <1>3, Zenon
    <2>2. \A i, j \in A : f[i] = f[j] => i = j
      BY <1>5, Zenon
    <2>3. \A j \in C : \E i \in A : f[i] = j
      BY <1>4, Zenon
    <2> QED BY <2>1, <2>2, <2>3, Zenon DEF Bijection, Injection, Surjection, IsInjective
  <1>7. IsFiniteSet(C) /\ Cardinality(C) = Cardinality(A)
    BY <1>2, <1>6, FS_Bijection, Zenon DEF ExistsBijection
  <1>8. Held(s, p) = Cardinality(B) /\ Held(Tail(s), p) = Cardinality(A)
    BY Zenon DEF Held
  <1>9. Head(s) = p => B = C \cup {1} /\ 1 \notin C
    OBVIOUS
  <1>10. Head(s) # p => B = C
    OBVIOUS
  <1> HIDE DEF A, B, C
  <1>11. Head(s) = p => Cardinality(B) = Cardinality(C) + 1
    BY <1>7, <1>9, FS_AddElement, Zenon
  <1> QED BY <1>2, <1>7, <1>8, <1>10, <1>11
-----------------------------------------------------------------------------
(* Requests *)

RpcInv ==
    /\ commands \in Seq(Request \cup {Publish}) /\ Len(commands) <= Capacity
    /\ call \in [Walks -> {NoCall} \cup [req: Request, sent: BOOLEAN]] /\ next_id \in Nat
    /\ outbound \subseteq Request /\ owed \subseteq Request
    /\ NoStrandedRequest

\* The actions that touch requests, and what the others leave alone.
LEMMA RpcActions ==
    ASSUME [Next]_vars
    PROVE  \/ UNCHANGED rpcVars
           \/ \E w \in Walks : (\E p \in Peers : RequestBlocksByRoot(w, p)) \/ SendRequest(w) \/ Abandon(w)
           \/ SendPublish \/ ServeRequest \/ ServePublish \/ Down
           \/ \E r \in owed : BlocksRrEvent(r)
           \/ \E p \in Peers : ConnectionClosed(p)
  <1>1. RunnerStep => UNCHANGED rpcVars
    BY Zenon DEF RunnerStep, DrainTake, Imported, Tick
  <1>2. \A p \in Peers : ConnectionEstablished(p) => UNCHANGED rpcVars
    BY Zenon DEF ConnectionEstablished
  <1>3. \A p \in Peers : StatusRequest(p) \/ StatusResponse(p) \/ StatusFailure(p) => UNCHANGED rpcVars
    BY Zenon DEF StatusRequest, StatusResponse, StatusFailure
  <1>4. \A p \in Peers, t \in Topics : Gossip(p, t) => UNCHANGED rpcVars
    BY Zenon DEF Gossip
  <1>5. Stop => UNCHANGED rpcVars
    BY Zenon DEF Stop
  <1>6. UNCHANGED vars => UNCHANGED rpcVars
    BY Zenon DEF vars, rpcVars
  <1> QED BY <1>1, <1>2, <1>3, <1>4, <1>5, <1>6, Zenon DEF Next, ServeCommand, SwarmEnds, SwarmPanics

\* A caller whose request is settled returns; the others wait as before.
LEMMA WakeCalls ==
    ASSUME RpcInv, NEW rs, call' = Wake(rs)
    PROVE  /\ call' \in [Walks -> {NoCall} \cup [req: Request, sent: BOOLEAN]]
           /\ \A w \in Walks : call'[w] # NoCall /\ call'[w].sent => call'[w] = call[w] /\ call[w].req \notin rs
  BY Zenon DEF RpcInv, Wake

\* Every step keeps the channel bounded and every waiting caller reachable.
LEMMA RpcInductive == RpcInv /\ [Next]_vars => RpcInv'
  <1> SUFFICES ASSUME RpcInv, [Next]_vars PROVE RpcInv'
    BY Zenon
  <1> USE P2pAssumption
  <1>0. CASE UNCHANGED rpcVars
    BY <1>0, Zenon DEF RpcInv, NoStrandedRequest, rpcVars
  <1>1. ASSUME NEW w \in Walks, NEW p \in Peers, RequestBlocksByRoot(w, p)
        PROVE  RpcInv'
    <2>1. [id |-> next_id, peer |-> p] \in Request
      BY Zenon DEF RpcInv, Request
    <2>2. call' \in [Walks -> {NoCall} \cup [req: Request, sent: BOOLEAN]]
      BY <1>1, <2>1, Zenon DEF RpcInv, RequestBlocksByRoot
    <2>3. \A v \in Walks : call'[v] # NoCall /\ call'[v].sent => call'[v] = call[v]
      BY <1>1, Zenon DEF RpcInv, RequestBlocksByRoot
    <2> QED BY <1>1, <2>2, <2>3 DEF RpcInv, NoStrandedRequest, RequestBlocksByRoot
  <1>2. ASSUME NEW w \in Walks, SendRequest(w)
        PROVE  RpcInv'
    <2>1. call[w].req \in Request
      BY <1>2, Zenon DEF RpcInv, SendRequest
    <2>2. /\ commands' \in Seq(Request \cup {Publish}) /\ Len(commands') <= Capacity
          /\ Range(commands') = Range(commands) \cup {call[w].req}
      BY <1>2, <2>1, RangeAppend DEF RpcInv, SendRequest, HasRoom
    <2>3. call' \in [Walks -> {NoCall} \cup [req: Request, sent: BOOLEAN]]
      BY <1>2, <2>1, Zenon DEF RpcInv, SendRequest
    <2>4. \A v \in Walks : v # w => call'[v] = call[v]
      BY <1>2, Zenon DEF RpcInv, SendRequest
    <2>5. call'[w].req = call[w].req
      BY <1>2, <2>1, Zenon DEF RpcInv, SendRequest
    <2>6. \A v \in Walks : call'[v] # NoCall /\ call'[v].sent =>
              call'[v].req \in outbound' \cup Range(commands')
      BY <1>2, <2>2, <2>4, <2>5, Zenon DEF RpcInv, NoStrandedRequest, SendRequest
    <2> QED BY <1>2, <2>2, <2>3, <2>6, Zenon DEF RpcInv, NoStrandedRequest, SendRequest
  <1>3. ASSUME NEW w \in Walks, Abandon(w)
        PROVE  RpcInv'
    <2>1. call' \in [Walks -> {NoCall} \cup [req: Request, sent: BOOLEAN]]
      BY <1>3, Zenon DEF RpcInv, Abandon
    <2>2. \A v \in Walks : call'[v] # NoCall => call'[v] = call[v]
      BY <1>3, Zenon DEF RpcInv, Abandon
    <2> QED BY <1>3, <2>1, <2>2, Zenon DEF RpcInv, NoStrandedRequest, Abandon
  <1>4. CASE SendPublish
    <2>1. /\ commands' \in Seq(Request \cup {Publish}) /\ Len(commands') <= Capacity
          /\ Range(commands') = Range(commands) \cup {Publish}
      <3>1. commands \in Seq(Request \cup {Publish}) /\ Publish \in Request \cup {Publish}
            /\ Len(commands) < Capacity /\ commands' = Append(commands, Publish)
        BY <1>4, Zenon DEF RpcInv, SendPublish, HasRoom
      <3>2. Range(commands') = Range(commands) \cup {Publish}
        BY <3>1, RangeAppend
      <3>3. /\ Append(commands, Publish) \in Seq(Request \cup {Publish})
            /\ Len(Append(commands, Publish)) <= Capacity
        BY <3>1
      <3> QED BY <3>1, <3>2, <3>3, Zenon
    <2> QED BY <1>4, <2>1, Zenon DEF RpcInv, NoStrandedRequest, SendPublish
  <1>5. CASE ServeRequest
    <2>1. /\ commands' \in Seq(Request \cup {Publish}) /\ Len(commands') <= Capacity
          /\ Range(commands) = Range(commands') \cup {Head(commands)}
      BY <1>5, RangeTail DEF RpcInv, ServeRequest
    <2> QED BY <1>5, <2>1, Zenon DEF RpcInv, NoStrandedRequest, ServeRequest
  <1>6. CASE ServePublish
    <2>1. /\ commands' \in Seq(Request \cup {Publish}) /\ Len(commands') <= Capacity
          /\ Range(commands) = Range(commands') \cup {Publish}
      BY <1>6, RangeTail DEF RpcInv, ServePublish
    <2>2. \A w \in Walks : call[w] # NoCall => call[w].req # Publish
      BY Zenon DEF RpcInv
    <2> QED BY <1>6, <2>1, <2>2, Zenon DEF RpcInv, NoStrandedRequest, ServePublish
  <1>7. CASE Down
    <2>1. Len(<<>>) <= Capacity /\ <<>> \in Seq(Request \cup {Publish})
      OBVIOUS
    <2> QED BY <1>7, <2>1, Zenon DEF RpcInv, NoStrandedRequest, Down
  <1>8. ASSUME NEW r \in owed, BlocksRrEvent(r)
        PROVE  RpcInv'
    <2>1. call' = Wake({r} \cap outbound)
      BY <1>8, Zenon DEF BlocksRrEvent
    <2>2. /\ commands' = commands /\ next_id' = next_id
          /\ outbound' = outbound \ {r} /\ owed' = owed \ {r}
      BY <1>8, Zenon DEF BlocksRrEvent
    <2>3. /\ call' \in [Walks -> {NoCall} \cup [req: Request, sent: BOOLEAN]]
          /\ \A w \in Walks : call'[w] # NoCall /\ call'[w].sent =>
                call'[w] = call[w] /\ call[w].req \notin {r} \cap outbound
      BY <2>1, WakeCalls, Zenon
    <2>4. \A w \in Walks : call'[w] # NoCall /\ call'[w].sent =>
              call'[w].req \in outbound' \cup Range(commands')
      BY <2>2, <2>3, Zenon DEF RpcInv, NoStrandedRequest
    <2> QED BY <2>2, <2>3, <2>4, Zenon DEF RpcInv, NoStrandedRequest
  <1>9. ASSUME NEW p \in Peers, ConnectionClosed(p)
        PROVE  RpcInv'
    BY <1>9, WakeCalls DEF RpcInv, NoStrandedRequest, ConnectionClosed
  <1> QED BY <1>0, <1>1, <1>2, <1>3, <1>4, <1>5, <1>6, <1>7, <1>8, <1>9, RpcActions, Zenon

\* Initially nothing is requested.
LEMMA RpcInit == Init => RpcInv
  <1> SUFFICES ASSUME Init PROVE RpcInv
    BY Zenon
  <1>1. <<>> \in Seq(Request \cup {Publish}) /\ Len(<<>>) = 0
    OBVIOUS
  <1> QED BY <1>1, P2pAssumption DEF Init, RpcInv, NoStrandedRequest

\* No entry stays in the outbound table for which libp2p has nothing more to
\* report, and no caller of request_blocks_by_root waits for a reply that
\* nobody holds, for any peers, callers and capacity of the channel.
THEOREM NoStranding == Spec => []NoStrandedRequest
  <1>1. RpcInv => NoStrandedRequest
    BY Zenon DEF RpcInv
  <1> QED BY <1>1, RpcInit, RpcInductive, PTL DEF Spec
-----------------------------------------------------------------------------
(* Admission *)

GossipInv ==
    /\ queue \in [Topics -> Seq(Peers)] /\ \A t \in Topics : Len(queue[t]) <= GossipCapacity
    /\ in_flight \in [Peers -> 0 .. InFlightCap]
    /\ importing \in Peers \cup {NoPeer}
    /\ AdmissionExact

\* Every step keeps a peer's count equal to the slots its messages hold.
LEMMA GossipInductive == GossipInv /\ [Next]_vars => GossipInv'
  <1> SUFFICES ASSUME GossipInv, [Next]_vars PROVE GossipInv'
    OBVIOUS
  <1> USE P2pAssumption
  <1>h. \A t \in Topics, p \in Peers : Held(queue[t], p) \in Nat
    BY HeldNat, Zenon DEF GossipInv
  <1>g. \A p \in Peers : in_flight[p] = Held(queue["block"], p) + Held(queue["vote"], p)
                                        + (IF importing = p THEN 1 ELSE 0)
    BY Zenon DEF GossipInv, AdmissionExact, Guards
  <1>0. CASE UNCHANGED <<queue, in_flight, importing>>
    BY <1>0, Zenon DEF GossipInv, AdmissionExact, Guards
  <1>1. ASSUME NEW t \in Topics, DrainTake(t)
        PROVE  GossipInv'
    <2>1. queue[t] \in Seq(Peers) /\ queue[t] # <<>>
      BY <1>1, Zenon DEF GossipInv, DrainTake
    <2>2. Head(queue[t]) \in Peers /\ Tail(queue[t]) \in Seq(Peers) /\ Len(Tail(queue[t])) = Len(queue[t]) - 1
      BY <2>1, RangeTail, Zenon
    <2>3. /\ queue' \in [Topics -> Seq(Peers)] /\ queue'[t] = Tail(queue[t])
          /\ \A u \in Topics : u # t => queue'[u] = queue[u]
          /\ importing = NoPeer /\ importing' = Head(queue[t]) /\ in_flight' = in_flight
      BY <1>1, <2>2, Zenon DEF GossipInv, DrainTake
    <2>4. \A u \in Topics : Len(queue'[u]) <= GossipCapacity
      <3>1. GossipCapacity \in Nat /\ Len(queue[t]) \in Nat /\ Len(queue[t]) <= GossipCapacity
        BY <2>1 DEF GossipInv
      <3>2. Len(queue'[t]) <= GossipCapacity
        BY <2>2, <2>3, <3>1
      <3>3. \A u \in Topics : u # t => Len(queue'[u]) <= GossipCapacity
        BY <2>3, Zenon DEF GossipInv
      <3> QED BY <3>2, <3>3, Zenon
    <2>5. ASSUME NEW p \in Peers PROVE in_flight'[p] = Guards(p)'
      <3>1. Held(queue[t], p) = Held(queue'[t], p) + (IF importing' = p THEN 1 ELSE 0)
        BY <2>1, <2>3, HeldTail, Zenon
      <3>2. Held(queue'["block"], p) \in Nat /\ Held(queue'["vote"], p) \in Nat
        BY <2>3, HeldNat, Zenon DEF Topics
      <3>3. Guards(p)' = Held(queue'["block"], p) + Held(queue'["vote"], p)
                         + (IF importing' = p THEN 1 ELSE 0)
        BY Zenon DEF Guards
      <3>i. in_flight'[p] = in_flight[p]
        BY <2>3, Zenon
      <3>n. importing # p
        BY <2>3, Zenon
      <3>m. Held(queue["block"], p) \in Nat /\ Held(queue["vote"], p) \in Nat
        BY <1>h, Zenon DEF Topics
      <3>4. in_flight[p] = Held(queue["block"], p) + Held(queue["vote"], p)
        BY <1>g, <3>n, <3>m
      <3>5. CASE t = "block"
        <4>1. queue'["vote"] = queue["vote"]
          BY <2>3, <3>5, Zenon DEF Topics
        <4> QED BY <3>i, <3>1, <3>2, <3>3, <3>4, <3>5, <3>m, <4>1
      <3>6. CASE t = "vote"
        <4>1. queue'["block"] = queue["block"]
          BY <2>3, <3>6, Zenon DEF Topics
        <4> QED BY <3>i, <3>1, <3>2, <3>3, <3>4, <3>6, <3>m, <4>1
      <3> QED BY <3>5, <3>6, Zenon DEF Topics
    <2> QED BY <2>2, <2>3, <2>4, <2>5, Zenon DEF GossipInv, AdmissionExact
  <1>2. CASE Imported
    <2>1. /\ importing \in Peers /\ importing' = NoPeer /\ queue' = queue
          /\ in_flight' = [in_flight EXCEPT ![importing] = @ - 1]
      BY <1>2, Zenon DEF GossipInv, Imported
    <2>2. in_flight[importing] >= 1
      BY <1>h, <1>g, <2>1 DEF Topics
    <2>3. in_flight' \in [Peers -> 0 .. InFlightCap]
      BY <2>1, <2>2 DEF GossipInv
    <2>4. ASSUME NEW p \in Peers PROVE in_flight'[p] = Guards(p)'
      <3>1. /\ in_flight'[p] = IF p = importing THEN in_flight[p] - 1 ELSE in_flight[p]
            /\ Guards(p)' = Held(queue["block"], p) + Held(queue["vote"], p) + (IF NoPeer = p THEN 1 ELSE 0)
        BY <2>1, Zenon DEF Guards, GossipInv
      <3>2. /\ Held(queue["block"], p) \in Nat /\ Held(queue["vote"], p) \in Nat /\ p # NoPeer
        BY <1>h, Zenon DEF Topics
      <3> QED BY <1>g, <3>1, <3>2
    <2> QED BY <2>1, <2>3, <2>4, Zenon DEF GossipInv, AdmissionExact
  <1>3. ASSUME NEW p \in Peers, NEW t \in Topics, Gossip(p, t), ~UNCHANGED <<queue, in_flight, importing>>
        PROVE  GossipInv'
    <2>1. /\ in_flight[p] < InFlightCap /\ Len(queue[t]) < GossipCapacity
          /\ in_flight' = [in_flight EXCEPT ![p] = @ + 1]
          /\ queue' = [queue EXCEPT ![t] = Append(@, p)]
          /\ importing' = importing
      BY <1>3, Zenon DEF Gossip
    <2>2. /\ queue' \in [Topics -> Seq(Peers)] /\ queue'[t] = Append(queue[t], p)
          /\ \A u \in Topics : u # t => queue'[u] = queue[u]
          /\ queue[t] \in Seq(Peers)
      BY <2>1 DEF GossipInv
    <2>3. \A u \in Topics : Len(queue'[u]) <= GossipCapacity
      BY <2>1, <2>2 DEF GossipInv
    <2>4. in_flight' \in [Peers -> 0 .. InFlightCap]
      BY <2>1 DEF GossipInv
    <2>5. ASSUME NEW q \in Peers PROVE in_flight'[q] = Guards(q)'
      <3>1. Held(queue'[t], q) = Held(queue[t], q) + (IF p = q THEN 1 ELSE 0)
        BY <2>2, HeldAppend
      <3>2. in_flight'[q] = in_flight[q] + (IF p = q THEN 1 ELSE 0)
        BY <2>1 DEF GossipInv
      <3>3. Guards(q)' = Held(queue'["block"], q) + Held(queue'["vote"], q)
                         + (IF importing = q THEN 1 ELSE 0)
        BY <2>1, Zenon DEF Guards
      <3>4. Held(queue["block"], q) \in Nat /\ Held(queue["vote"], q) \in Nat
        BY <1>h, Zenon DEF Topics
      <3>5. CASE t = "block"
        <4>1. queue'["vote"] = queue["vote"]
          BY <2>2, <3>5, Zenon DEF Topics
        <4> QED BY <1>g, <3>1, <3>2, <3>3, <3>4, <3>5, <4>1
      <3>6. CASE t = "vote"
        <4>1. queue'["block"] = queue["block"]
          BY <2>2, <3>6, Zenon DEF Topics
        <4> QED BY <1>g, <3>1, <3>2, <3>3, <3>4, <3>6, <4>1
      <3> QED BY <3>5, <3>6, Zenon DEF Topics
    <2> QED BY <2>1, <2>2, <2>3, <2>4, <2>5, Zenon DEF GossipInv, AdmissionExact
  <1>4. \/ UNCHANGED <<queue, in_flight, importing>>
        \/ \E t \in Topics : DrainTake(t)
        \/ Imported
        \/ \E p \in Peers, t \in Topics : Gossip(p, t)
    <2>1. ASSUME NEW w \in Walks, (\E p \in Peers : RequestBlocksByRoot(w, p)) \/ SendRequest(w) \/ Abandon(w)
          PROVE  UNCHANGED gossipVars
      BY <2>1, Zenon DEF RequestBlocksByRoot, SendRequest, Abandon
    <2>2. Tick \/ SendPublish \/ ServeCommand \/ Stop \/ Down => UNCHANGED gossipVars
      BY Zenon DEF Tick, SendPublish, ServeCommand, ServeRequest, ServePublish, Stop, Down
    <2>3. \A r \in owed : BlocksRrEvent(r) => UNCHANGED gossipVars
      BY Zenon DEF BlocksRrEvent
    <2>4. \A p \in Peers : ConnectionEstablished(p) \/ ConnectionClosed(p) => UNCHANGED gossipVars
      BY Zenon DEF ConnectionEstablished, ConnectionClosed
    <2>5. \A p \in Peers : StatusRequest(p) \/ StatusResponse(p) \/ StatusFailure(p) => UNCHANGED gossipVars
      BY Zenon DEF StatusRequest, StatusResponse, StatusFailure
    <2>6. UNCHANGED vars => UNCHANGED gossipVars
      BY Zenon DEF vars, gossipVars
    <2>7. UNCHANGED gossipVars => UNCHANGED <<queue, in_flight, importing>>
      BY Zenon DEF gossipVars
    <2> QED BY <2>1, <2>2, <2>3, <2>4, <2>5, <2>6, <2>7, Zenon DEF Next, RunnerStep, SwarmEnds, SwarmPanics
  <1> QED BY <1>0, <1>1, <1>2, <1>3, <1>4, Zenon

\* Initially nothing is queued.
LEMMA GossipInit == Init => GossipInv
  <1> SUFFICES ASSUME Init PROVE GossipInv
    OBVIOUS
  <1>1. /\ queue \in [Topics -> Seq(Peers)] /\ \A t \in Topics : queue[t] = <<>> /\ Len(queue[t]) = 0
        /\ importing = NoPeer /\ in_flight = [p \in Peers |-> 0]
    BY DEF Init
  <1>2. \A p \in Peers : Held(<<>>, p) = 0
    <2>1. \A p \in Peers : {i \in DOMAIN <<>> : <<>>[i] = p} = {}
      OBVIOUS
    <2> QED BY <2>1, FS_EmptySet, Zenon DEF Held
  <1>3. \A p \in Peers : Guards(p) = 0
    BY <1>1, <1>2, P2pAssumption DEF Guards, Topics
  <1> QED BY <1>1, <1>3, P2pAssumption DEF GossipInv, AdmissionExact

\* A peer's in-flight count is exactly the number of its messages on the way to
\* the engine, so a slot of PeerAdmission is released once and never lost, for
\* any peers, caps and capacities.
THEOREM AdmissionSafety == Spec => []AdmissionExact
  <1>1. GossipInv => AdmissionExact
    BY Zenon DEF GossipInv
  <1> QED BY <1>1, GossipInit, GossipInductive, PTL DEF Spec
-----------------------------------------------------------------------------
(* The peer registry *)

PeerInv ==
    /\ conns \in [Peers -> 0 .. MaxConns]
    /\ closing \cup connected \cup statuses \subseteq Peers

\* The steps that change connections or the registry.
LEMMA PeerActions ==
    ASSUME [Next]_vars
    PROVE  \/ UNCHANGED <<conns, closing, connected, statuses>>
           \/ \E p \in Peers : \/ ConnectionEstablished(p) \/ ConnectionClosed(p)
                               \/ StatusRequest(p) \/ StatusResponse(p)
  <1>1. ASSUME NEW w \in Walks, (\E p \in Peers : RequestBlocksByRoot(w, p)) \/ SendRequest(w) \/ Abandon(w)
        PROVE  UNCHANGED peerVars
    BY <1>1, Zenon DEF RequestBlocksByRoot, SendRequest, Abandon
  <1>2. RunnerStep => UNCHANGED peerVars
    BY Zenon DEF RunnerStep, DrainTake, Imported, Tick
  <1>3. SendPublish \/ ServeCommand \/ Stop \/ Down => UNCHANGED peerVars
    BY Zenon DEF SendPublish, ServeCommand, ServeRequest, ServePublish, Stop, Down
  <1>4. \A r \in owed : BlocksRrEvent(r) => UNCHANGED peerVars
    BY Zenon DEF BlocksRrEvent
  <1>5. \A p \in Peers, t \in Topics : Gossip(p, t) => UNCHANGED peerVars
    BY Zenon DEF Gossip
  <1>6. UNCHANGED vars => UNCHANGED peerVars
    BY Zenon DEF vars, peerVars
  <1>7. UNCHANGED peerVars => UNCHANGED <<conns, closing, connected, statuses>>
    BY Zenon DEF peerVars
  <1>8. \A p \in Peers : StatusFailure(p) => UNCHANGED <<conns, closing, connected, statuses>>
    BY Zenon DEF StatusFailure
  <1> QED BY <1>1, <1>2, <1>3, <1>4, <1>5, <1>6, <1>7, <1>8, Zenon DEF Next, SwarmEnds, SwarmPanics

\* Connections and registry keep their types.
LEMMA PeerInductive == PeerInv /\ [Next]_vars => PeerInv'
  <1> SUFFICES ASSUME PeerInv, [Next]_vars PROVE PeerInv'
    OBVIOUS
  <1>1. CASE UNCHANGED <<conns, closing, connected, statuses>>
    BY <1>1, Zenon DEF PeerInv
  <1>2. ASSUME NEW p \in Peers, ConnectionEstablished(p) PROVE PeerInv'
    <2>1. conns' \in [Peers -> 0 .. MaxConns]
      BY <1>2, P2pAssumption DEF PeerInv, ConnectionEstablished
    <2> QED BY <1>2, <2>1, Zenon DEF PeerInv, ConnectionEstablished
  <1>3. ASSUME NEW p \in Peers, ConnectionClosed(p) PROVE PeerInv'
    <2>1. conns' \in [Peers -> 0 .. MaxConns]
      BY <1>3, P2pAssumption DEF PeerInv, ConnectionClosed
    <2>2. closing' \subseteq closing /\ connected' \subseteq connected /\ statuses' \subseteq statuses
      BY <1>3, Zenon DEF ConnectionClosed
    <2> QED BY <2>1, <2>2, Zenon DEF PeerInv
  <1>4. ASSUME NEW p \in Peers, StatusRequest(p) \/ StatusResponse(p) PROVE PeerInv'
    BY <1>4, Zenon DEF PeerInv, StatusRequest, StatusResponse, SetStatus
  <1> QED BY <1>1, <1>2, <1>3, <1>4, PeerActions, Zenon

\* Initially nobody is connected.
LEMMA PeerInit == Init => PeerInv /\ RegistryNotStale
  BY P2pAssumption DEF Init, PeerInv, RegistryNotStale

\* What a step may do to the two flags and to the runner.
LEMMA FlagSteps ==
    ASSUME [Next]_vars
    PROVE  /\ up' = up \/ up' = FALSE
           /\ running' = running \/ running' = FALSE
           /\ runner' = runner \/ runner' \in {"idle", "drain", "produce", "send", "wait"}
  <1> DEFINE Same == UNCHANGED <<running, up, runner>>
             Flags == UNCHANGED <<running, up>>
  <1>1. ASSUME NEW w \in Walks, (\E p \in Peers : RequestBlocksByRoot(w, p)) \/ SendRequest(w) \/ Abandon(w)
        PROVE  Same
    BY <1>1, Zenon DEF RequestBlocksByRoot, SendRequest, Abandon
  <1>2. ASSUME (\E t \in Topics : DrainTake(t)) \/ Imported PROVE Same
    BY <1>2, Zenon DEF DrainTake, Imported
  <1>3. ASSUME Tick PROVE Flags /\ runner' \in {"drain", "produce", "send", "idle"}
    BY <1>3, Zenon DEF Tick
  <1>4. ASSUME SendPublish PROVE Flags /\ runner' = "wait"
    BY <1>4, Zenon DEF SendPublish
  <1>5. ASSUME ServeCommand PROVE Flags /\ runner' \in {runner, "idle"}
    BY <1>5, Zenon DEF ServeCommand, ServeRequest, ServePublish
  <1>6. ASSUME NEW r \in owed, BlocksRrEvent(r) PROVE Same
    BY <1>6, Zenon DEF BlocksRrEvent
  <1>7. ASSUME NEW p \in Peers, ConnectionEstablished(p) \/ ConnectionClosed(p) PROVE Same
    BY <1>7, Zenon DEF ConnectionEstablished, ConnectionClosed
  <1>8. ASSUME NEW p \in Peers, StatusRequest(p) \/ StatusResponse(p) \/ StatusFailure(p) PROVE Same
    BY <1>8, Zenon DEF StatusRequest, StatusResponse, StatusFailure
  <1>9. ASSUME NEW p \in Peers, NEW t \in Topics, Gossip(p, t) PROVE Same
    BY <1>9, Zenon DEF Gossip
  <1>10. ASSUME Stop PROVE running' = FALSE /\ UNCHANGED <<up, runner>>
    BY <1>10, Zenon DEF Stop
  <1>11. ASSUME Down PROVE up' = FALSE /\ running' = running /\ runner' \in {runner, "idle"}
    BY <1>11, Zenon DEF Down
  <1>12. ASSUME UNCHANGED vars PROVE Same
    BY <1>12, Zenon DEF vars
  <1> QED BY <1>1, <1>2, <1>3, <1>4, <1>5, <1>6, <1>7, <1>8, <1>9, <1>10, <1>11, <1>12, Zenon
          DEF Next, RunnerStep, SwarmEnds, SwarmPanics

\* While the swarm task runs, the registry lists no peer, and caches no status of a
\* peer, whose connections are all closed: for any number of connections per
\* peer, and whatever the order of connection events and late Status answers.
THEOREM RegistrySafety == Spec => []RegistryNotStale
  <1> DEFINE Inv == PeerInv /\ up \in BOOLEAN /\ RegistryNotStale
  <1>1. Init => Inv
    BY PeerInit, Zenon DEF Init
  <1>2. Inv /\ [Next]_vars => Inv'
    <2> SUFFICES ASSUME Inv, [Next]_vars PROVE Inv'
      BY Zenon
    <2>1. up' \in BOOLEAN
      BY FlagSteps, Zenon
    <2>2. up' => up
      BY FlagSteps, Zenon
    <2>3. CASE UNCHANGED <<conns, closing, connected, statuses>>
      BY <2>1, <2>2, <2>3, PeerInductive, Zenon DEF RegistryNotStale
    <2>4. ASSUME NEW p \in Peers, ConnectionEstablished(p) PROVE RegistryNotStale'
      BY <2>2, <2>4 DEF RegistryNotStale, PeerInv, ConnectionEstablished
    <2>5. ASSUME NEW p \in Peers, ConnectionClosed(p) PROVE RegistryNotStale'
      <3>1. \A q \in Peers \ {p} : conns'[q] = conns[q]
        BY <2>5 DEF PeerInv, ConnectionClosed
      <3>2. connected' = connected \ {p} /\ statuses' = statuses \ {p}
        BY <2>5, Zenon DEF ConnectionClosed
      <3>3. ASSUME up', NEW q \in connected' \cup statuses'
            PROVE  q \in Peers /\ conns'[q] > 0
        <4>1. q \in connected \cup statuses /\ q # p
          BY <3>2, <3>3, Zenon
        <4>2. q \in Peers /\ conns[q] > 0
          BY <2>2, <3>3, <4>1, Zenon DEF RegistryNotStale
        <4> QED BY <3>1, <4>1, <4>2, Zenon
      <3> QED BY <3>3, Zenon DEF RegistryNotStale
    <2>6. ASSUME NEW p \in Peers, StatusRequest(p) \/ StatusResponse(p) PROVE RegistryNotStale'
      BY <2>2, <2>6, Zenon DEF RegistryNotStale, PeerInv, StatusRequest, StatusResponse, SetStatus
    <2> QED BY <2>1, <2>3, <2>4, <2>5, <2>6, PeerActions, PeerInductive, Zenon
  <1>3. Inv => RegistryNotStale
    BY Zenon
  <1> QED BY <1>1, <1>2, <1>3, PTL DEF Spec
-----------------------------------------------------------------------------
(* Types *)

FlagInv == {running, up} \subseteq BOOLEAN /\ runner \in {"idle", "drain", "produce", "send", "wait"}

\* The flags keep their types.
LEMMA FlagInductive == FlagInv /\ [Next]_vars => FlagInv'
  <1> SUFFICES ASSUME FlagInv, [Next]_vars PROVE FlagInv'
    OBVIOUS
  <1> QED BY FlagSteps, Zenon DEF FlagInv

\* Channels, table, registry and counters stay inside their types and bounds:
\* the command channel and the gossip channels never exceed their capacities,
\* and no peer exceeds its cap.
THEOREM TypeCorrectness == Spec => []TypeOK
  <1>1. Init => FlagInv
    BY Zenon DEF Init, FlagInv
  <1>2. RpcInv /\ GossipInv /\ PeerInv /\ FlagInv => TypeOK
    BY Zenon DEF RpcInv, GossipInv, PeerInv, FlagInv, TypeOK
  <1> QED BY <1>1, <1>2, RpcInit, RpcInductive, GossipInit, GossipInductive, PeerInit,
             PeerInductive, FlagInductive, PTL DEF Spec
=============================================================================
