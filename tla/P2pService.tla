----------------------------- MODULE P2pService -----------------------------
(***************************************************************************)
(* The p2p service of crates/runtime/src/p2p while it runs and as it is    *)
(* stopped: the swarm task with its outbound table, peer registry and      *)
(* gossip ingress, the bounded command channel, and the tasks on the other *)
(* side: walks of the sync loop that request blocks, and the consensus     *)
(* loop (the runner) that drains gossip and publishes.                     *)
(*                                                                         *)
(* The swarm task handles one command or one event at a time; an event and *)
(* its handler are one action.  Handlers that ask the chain for its status *)
(* block on the engine mutex, which the runner holds while it produces.    *)
(*                                                                         *)
(* libp2p is external: it opens and closes connections, owes one response  *)
(* or failure for every request, and delivers gossip.  Requests are        *)
(* numbered by the call they serve.                                        *)
(***************************************************************************)
EXTENDS Integers, FiniteSets, Sequences, SequencesExt

CONSTANTS
    Peers,
    Walks,          \* callers of request_blocks_by_root
    Capacity,       \* COMMAND_CHANNEL_CAPACITY
    GossipCapacity, \* GOSSIP_CHANNEL_CAPACITY
    InFlightCap,    \* max_in_flight_per_peer
    MaxConns,       \* bound on the connections open to one peer, which no code limits
    MaxRequests, MaxConnects, MaxGossip,    \* bounds on requests, connections and messages
    Publish,        \* HostCommand::Publish
    NoCall, NoPeer

Topics == {"block", "vote"}
Request == [id: Nat, peer: Peers]

ASSUME P2pAssumption ==
    /\ {Capacity, GossipCapacity, InFlightCap, MaxConns} \subseteq Nat \ {0}
    /\ {MaxRequests, MaxConnects, MaxGossip} \subseteq Nat
    /\ NoPeer \notin Peers
    /\ Publish \notin Request
    /\ NoCall \notin [req: Request, sent: BOOLEAN]

VARIABLES
    running,    \* State::Running, which holds a Host
    up,         \* the swarm task runs
    commands,   \* the command channel
    call,       \* call[w]: NoCall or [req, sent]
    outbound,   \* OutboundTable: the requests whose callers wait for libp2p
    owed,       \* requests libp2p will still report on (external)
    next_id,
    conns,      \* open connections by peer (external)
    closing,    \* peers disconnect_peer_id was called for (external)
    handshakes, \* unanswered Status requests of ours, by peer (external)
    connected, statuses,    \* PeerRegistry
    queue,      \* queue[topic]: the source peers of the messages in the gossip channel
    in_flight,  \* PeerAdmission
    importing,  \* source of the message the runner imports
    runner,     \* "drain", "produce" (holds the engine mutex), "send", "wait" or "idle"
    connects, messages      \* counters for the bounds

rpcVars == <<commands, call, outbound, owed, next_id>>
peerVars == <<conns, closing, handshakes, connected, statuses, connects>>
gossipVars == <<queue, in_flight, importing, messages>>
vars == <<running, up, commands, call, outbound, owed, next_id, conns, closing, handshakes,
          connected, statuses, queue, in_flight, importing, runner, connects, messages>>

Init ==
    /\ running = TRUE /\ up = TRUE
    /\ commands = <<>> /\ call = [w \in Walks |-> NoCall]
    /\ outbound = {} /\ owed = {} /\ next_id = 0
    /\ conns = [p \in Peers |-> 0] /\ closing = {}
    /\ handshakes = [p \in Peers |-> 0]
    /\ connected = {} /\ statuses = {}
    /\ queue = [t \in Topics |-> <<>>]
    /\ in_flight = [p \in Peers |-> 0]
    /\ importing = NoPeer /\ runner = "idle"
    /\ connects = 0 /\ messages = 0
-----------------------------------------------------------------------------
(* The callers *)

HasRoom == Len(commands) < Capacity
EngineFree == runner # "produce"

\* request_blocks_by_root: the Host is cloned, which fails once stop has taken
\* it, and the command waits for room in the channel.
RequestBlocksByRoot(w, p) ==
    /\ call[w] = NoCall /\ running /\ up /\ next_id < MaxRequests
    /\ call' = [call EXCEPT ![w] = [req |-> [id |-> next_id, peer |-> p], sent |-> FALSE]]
    /\ next_id' = next_id + 1
    /\ UNCHANGED <<running, up, commands, outbound, owed, peerVars, gossipVars, runner>>

SendRequest(w) ==
    /\ call[w] # NoCall /\ ~call[w].sent /\ up /\ HasRoom
    /\ commands' = Append(commands, call[w].req)
    /\ call' = [call EXCEPT ![w].sent = TRUE]
    /\ UNCHANGED <<running, up, outbound, owed, next_id, peerVars, gossipVars, runner>>

\* The walk's own timer or token drops the future; what it has sent remains.
Abandon(w) ==
    /\ call[w] # NoCall
    /\ call' = [call EXCEPT ![w] = NoCall]
    /\ UNCHANGED <<running, up, commands, outbound, owed, next_id, peerVars, gossipVars, runner>>

\* The replies held for requests rs are used or dropped: their callers return.
Wake(rs) == [w \in Walks |->
    IF call[w] # NoCall /\ call[w].sent /\ call[w].req \in rs THEN NoCall ELSE call[w]]

\* drain_gossip: all blocks, then all votes; the guard is held over the import.
DrainTake(t) ==
    /\ runner = "drain" /\ importing = NoPeer
    /\ queue[t] # <<>> /\ (t = "vote" => queue["block"] = <<>>)
    /\ importing' = Head(queue[t])
    /\ queue' = [queue EXCEPT ![t] = Tail(@)]
    /\ UNCHANGED <<running, up, rpcVars, peerVars, in_flight, messages, runner>>

Imported ==
    /\ runner = "drain" /\ importing # NoPeer
    /\ importing' = NoPeer
    /\ in_flight' = [in_flight EXCEPT ![importing] = @ - 1]
    /\ UNCHANGED <<running, up, rpcVars, peerVars, queue, messages, runner>>

\* One tick of the loop: drain, then produce under the mutex, then publish.
Tick ==
    /\ \/ runner = "idle" /\ runner' = "drain"
       \/ /\ runner = "drain" /\ importing = NoPeer
          /\ \A t \in Topics : queue[t] = <<>>
          /\ runner' = "produce"
       \/ runner = "produce" /\ runner' = IF running /\ up THEN "send" ELSE "idle"
    /\ UNCHANGED <<running, up, rpcVars, peerVars, gossipVars>>

SendPublish ==
    /\ runner = "send" /\ up /\ HasRoom
    /\ commands' = Append(commands, Publish)
    /\ runner' = "wait"
    /\ UNCHANGED <<running, up, call, outbound, owed, next_id, peerVars, gossipVars>>
-----------------------------------------------------------------------------
(* The swarm task: commands *)

\* send_request, which dials a peer it has no connection to, and insert.
ServeRequest ==
    /\ up /\ commands # <<>> /\ Head(commands) \in Request
    /\ commands' = Tail(commands)
    /\ outbound' = outbound \cup {Head(commands)}
    /\ owed' = owed \cup {Head(commands)}
    /\ UNCHANGED <<running, up, call, next_id, peerVars, gossipVars, runner>>

\* gossipsub's publish, whose result is the reply.
ServePublish ==
    /\ up /\ commands # <<>> /\ Head(commands) = Publish
    /\ commands' = Tail(commands)
    /\ runner' = IF runner = "wait" THEN "idle" ELSE runner
    /\ UNCHANGED <<running, up, call, outbound, owed, next_id, peerVars, gossipVars>>
-----------------------------------------------------------------------------
(* The swarm task: events *)

\* MUTANT of BlocksRrEvent: a failure is only logged.
BlocksRrEventLogsFailure(r) ==
    /\ up /\ r \in owed
    /\ owed' = owed \ {r}
    /\ \/ outbound' = outbound /\ call' = call
       \/ outbound' = outbound \ {r} /\ call' = Wake({r} \cap outbound)
    /\ UNCHANGED <<running, up, commands, next_id, peerVars, gossipVars, runner>>

\* A response, or a failure: timeout, failed dial, closed connection.
\* fulfill and fail both remove the entry and wake its caller, if any is left.
BlocksRrEvent(r) ==
    /\ up /\ r \in owed
    /\ owed' = owed \ {r}
    /\ outbound' = outbound \ {r}
    /\ call' = Wake({r} \cap outbound)
    /\ UNCHANGED <<running, up, commands, next_id, peerVars, gossipVars, runner>>

ConnectionEstablished(p) ==
    /\ up /\ conns[p] < MaxConns /\ p \notin closing /\ connects < MaxConnects /\ EngineFree
    /\ conns' = [conns EXCEPT ![p] = @ + 1]
    /\ connected' = connected \cup {p}
    /\ handshakes' = [handshakes EXCEPT ![p] = @ + 1]
    /\ connects' = connects + 1
    /\ UNCHANGED <<running, up, rpcVars, closing, statuses, gossipVars, runner>>

\* One connection closes.  on_disconnect and fail_all_for_peer do not ask
\* whether another one is open.
ConnectionClosed(p) ==
    /\ up /\ conns[p] > 0
    /\ conns' = [conns EXCEPT ![p] = @ - 1]
    /\ connected' = connected \ {p} /\ statuses' = statuses \ {p}
    /\ outbound' = {r \in outbound : r.peer # p}
    /\ call' = Wake({r \in outbound : r.peer = p})
    /\ handshakes' = [handshakes EXCEPT ![p] = IF conns'[p] = 0 THEN 0 ELSE @]
    /\ closing' = IF conns'[p] = 0 THEN closing \ {p} ELSE closing
    /\ UNCHANGED <<running, up, commands, owed, next_id, connects, gossipVars, runner>>

\* A Status of the peer, in its request or its response: cached before it is
\* validated, and a mismatch disconnects the peer.
SetStatus(p) ==
    /\ conns[p] > 0 /\ EngineFree
    /\ statuses' = statuses \cup {p}
    /\ closing' \in {closing, closing \cup {p}}

StatusRequest(p) ==
    /\ up /\ SetStatus(p)
    /\ UNCHANGED <<running, up, rpcVars, conns, handshakes, connected, connects, gossipVars, runner>>

StatusResponse(p) ==
    /\ up /\ handshakes[p] > 0 /\ SetStatus(p)
    /\ handshakes' = [handshakes EXCEPT ![p] = @ - 1]
    /\ UNCHANGED <<running, up, rpcVars, conns, connected, connects, gossipVars, runner>>

StatusFailure(p) ==
    /\ up /\ handshakes[p] > 0
    /\ handshakes' = [handshakes EXCEPT ![p] = @ - 1]
    /\ UNCHANGED <<running, up, rpcVars, conns, closing, connected, statuses, connects, gossipVars, runner>>

\* MUTANT of Gossip: the message is counted before its topic channel is tried,
\* and the guard of a dropped message is not released.
GossipLeaks(p, t) ==
    /\ up /\ conns[p] > 0 /\ messages < MaxGossip
    /\ messages' = messages + 1
    /\ IF in_flight[p] < InFlightCap
       THEN /\ in_flight' = [in_flight EXCEPT ![p] = @ + 1]
            /\ queue' = IF Len(queue[t]) < GossipCapacity
                        THEN [queue EXCEPT ![t] = Append(@, p)] ELSE queue
       ELSE UNCHANGED <<in_flight, queue>>
    /\ UNCHANGED <<running, up, rpcVars, peerVars, importing, runner>>

\* forward: admission, decoding, then the topic's channel; the guard of a
\* message that cannot be decoded or does not fit is dropped.
Gossip(p, t) ==
    /\ up /\ conns[p] > 0 /\ messages < MaxGossip
    /\ messages' = messages + 1
    /\ \E decodes \in BOOLEAN :
       IF in_flight[p] < InFlightCap /\ decodes /\ Len(queue[t]) < GossipCapacity
       THEN /\ in_flight' = [in_flight EXCEPT ![p] = @ + 1]
            /\ queue' = [queue EXCEPT ![t] = Append(@, p)]
       ELSE UNCHANGED <<in_flight, queue>>
    /\ UNCHANGED <<running, up, rpcVars, peerVars, importing, runner>>
-----------------------------------------------------------------------------
(* Stop *)

\* stop: the Host is taken, Shutdown is sent and the token cancelled.
Stop ==
    /\ running
    /\ running' = FALSE
    /\ UNCHANGED <<up, rpcVars, peerVars, gossipVars, runner>>

\* MUTANT of Down: only the callers whose command is still queued return.
DownKeepsTable ==
    /\ up' = FALSE
    /\ commands' = <<>>
    /\ outbound' = {}
    /\ call' = Wake(Range(commands) \ {Publish})
    /\ runner' = IF runner \in {"send", "wait"} THEN "idle" ELSE runner
    /\ UNCHANGED <<running, owed, next_id, peerVars, gossipVars>>

\* The swarm task is over: channel and table are dropped, so every caller
\* returns with ChannelClosed.
Down ==
    /\ up' = FALSE
    /\ commands' = <<>>
    /\ outbound' = {}
    /\ call' = [w \in Walks |-> NoCall]
    /\ runner' = IF runner \in {"send", "wait"} THEN "idle" ELSE runner
    /\ UNCHANGED <<running, owed, next_id, peerVars, gossipVars>>

SwarmEnds == up /\ ~running /\ Down
SwarmPanics == up /\ running /\ Down
-----------------------------------------------------------------------------
RunnerStep == (\E t \in Topics : DrainTake(t)) \/ Imported \/ Tick
ServeCommand == ServeRequest \/ ServePublish

Next ==
    \/ \E w \in Walks : (\E p \in Peers : RequestBlocksByRoot(w, p)) \/ SendRequest(w) \/ Abandon(w)
    \/ RunnerStep \/ SendPublish
    \/ ServeCommand
    \/ \E r \in owed : BlocksRrEvent(r)
    \/ \E p \in Peers :
          \/ ConnectionEstablished(p) \/ ConnectionClosed(p)
          \/ StatusRequest(p) \/ StatusResponse(p) \/ StatusFailure(p)
          \/ \E t \in Topics : Gossip(p, t)
    \/ Stop
    \/ SwarmEnds
    \/ SwarmPanics

\* The runtime polls every task; blocked senders are served in turn; libp2p
\* reports on every request, at the latest when its timeout elapses; a stopped
\* swarm task is cancelled.
Fairness ==
    /\ WF_vars(RunnerStep) /\ SF_vars(SendPublish)
    /\ \A w \in Walks : SF_vars(SendRequest(w))
    /\ WF_vars(ServeCommand)
    /\ WF_vars(\E r \in owed : BlocksRrEvent(r))
    /\ WF_vars(SwarmEnds)

Spec == Init /\ [][Next]_vars /\ Fairness
-----------------------------------------------------------------------------
(* Properties *)

TypeOK ==
    /\ {running, up} \subseteq BOOLEAN
    /\ commands \in Seq(Request \cup {Publish}) /\ Len(commands) <= Capacity
    /\ call \in [Walks -> {NoCall} \cup [req: Request, sent: BOOLEAN]] /\ next_id \in Nat
    /\ outbound \subseteq Request /\ owed \subseteq Request
    /\ conns \in [Peers -> 0 .. MaxConns]
    /\ closing \cup connected \cup statuses \subseteq Peers
    /\ queue \in [Topics -> Seq(Peers)] /\ \A t \in Topics : Len(queue[t]) <= GossipCapacity
    /\ in_flight \in [Peers -> 0 .. InFlightCap]
    /\ importing \in Peers \cup {NoPeer}
    /\ runner \in {"idle", "drain", "produce", "send", "wait"}

\* Every entry of the outbound table belongs to a request libp2p will still
\* report on, so no entry stays for the lifetime of the task; and every caller
\* that has sent its request is in the channel or in the table, so none waits
\* for a reply nobody holds.
NoStrandedRequest ==
    /\ outbound \subseteq owed
    /\ \A w \in Walks : call[w] # NoCall /\ call[w].sent =>
          call[w].req \in outbound \cup Range(commands)

Held(s, p) == Cardinality({i \in DOMAIN s : s[i] = p})
Guards(p) ==
    Held(queue["block"], p) + Held(queue["vote"], p) + (IF importing = p THEN 1 ELSE 0)

\* A peer's in-flight count is the number of its messages in the two gossip
\* channels and in the runner's hands: a slot is released exactly once.
AdmissionExact == \A p \in Peers : in_flight[p] = Guards(p)

\* While the swarm task runs, the registry lists no peer, and holds no status of a
\* peer, whose connections are all closed: a walk never starts from the status of
\* a peer that has gone, however many connections it had and in whatever order
\* they closed.
RegistryNotStale ==
    up => connected \cup statuses \subseteq {p \in Peers : conns[p] > 0}

\* Every request returns to its caller, with blocks or an error: whether the
\* peer answers, disconnects or was never connected, whether the channel was
\* full, and if the service stops or its task dies on the way.  Nor does the
\* consensus loop ever hang in a publication, although the swarm task blocks on
\* the engine mutex that the loop takes.
CallsReturn ==
    /\ \A w \in Walks : call[w] # NoCall ~> call[w] = NoCall
    /\ runner = "send" ~> runner = "idle"
-----------------------------------------------------------------------------
(* A statement of the repository that the code does not meet *)

\* connected_peers is a snapshot of the peers that are connected, as the service
\* says of it; when two nodes have dialled each other, the end of one of the two
\* connections removes the peer although the other one is open.
ConnectedPeersListed == up => \A p \in Peers : conns[p] > 0 => p \in connected
=============================================================================
