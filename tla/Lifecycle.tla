----------------------------- MODULE Lifecycle -----------------------------
(***************************************************************************)
(* Start and stop of one node: Node::start and Node::stop of crates/       *)
(* runtime/src/core over the six services that new_devnet wires, each with *)
(* the stop sequence of its own code, against the tasks they spawn.        *)
(*                                                                         *)
(* The binary calls start once and stop once, one after the other.  The    *)
(* tasks run on other threads: between two polls of the stop future any of *)
(* them may take steps.                                                    *)
(*                                                                         *)
(* A caller that wants something from the swarm task clones the Host, so   *)
(* holds a sender of the bounded command channel until its call returns.   *)
(***************************************************************************)
EXTENDS Integers, FiniteSets, Sequences, SequencesExt

CONSTANTS
    Walks,          \* the per-peer walks that may run at a time
    Capacity,       \* COMMAND_CHANNEL_CAPACITY
    MaxPanics       \* bound on the tasks that panic

\* MUTANT of Order: sync starts before p2p, and is stopped after it.
OrderSyncFirst == <<"chain", "sync", "p2p", "duties", "http", "metrics">>

\* SLOT_ORDER, every slot wired.
Order == <<"chain", "p2p", "sync", "duties", "http", "metrics">>
Services == Range(Order)

Tasks == {"swarm", "watch", "runner", "httpd", "metricsd"} \cup Walks

ASSUME LifecycleAssumption ==
    /\ Walks \cap {"swarm", "watch", "runner", "httpd", "metricsd", "vote", "block"} = {}
    /\ Capacity \in Nat \ {0}
    /\ MaxPanics \in Nat

\* The tasks a service has spawned; the one its stop joins.
TasksOf(s) ==
    CASE s = "chain" -> {}
      [] s = "p2p" -> {"swarm"}
      [] s = "sync" -> {"watch"} \cup Walks
      [] s = "duties" -> {"runner"}
      [] s = "http" -> {"httpd"}
      [] s = "metrics" -> {"metricsd"}
ServiceOf(t) == CHOOSE s \in Services : t \in TasksOf(s)
Main(s) == IF s = "sync" THEN "watch" ELSE CHOOSE t \in TasksOf(s) : TRUE

\* The calls into the swarm task.  The runner awaits one at a time; only the
\* publication of a block is not raced against the runner's cancellation.
Calls == Walks \cup {"vote", "block"}
Caller(c) == IF c \in Walks THEN c ELSE "runner"
CallsOf(t) == {c \in Calls : Caller(c) = t}

VARIABLES
    node,       \* "starting", "running", "stopping", "unwinding", "stopped" or "failed"
    count,      \* how many services of Order are started
    step,       \* where the stop call of service Order[count] stands
    failure,    \* a stop call of this phase has returned an error
    budget,     \* shutdown_timeout is not zero
    deadline,   \* the token of derive_stop_token is cancelled
    task,       \* task[t]: "none", "running", "ended" or "panicked"
    pace,       \* pace[t]: "prompt", "draining" (deaf to its token) or "stuck" (never yields)
    token,      \* the services whose own cancellation token is cancelled
    aborted,    \* the tasks abort was called on
    host,       \* the p2p service, or its stop call, holds a sender
    call,       \* call[c]: "none", "send" or "wait"; "block" also "produce"
    commands    \* the command channel

vars == <<node, count, step, failure, budget, deadline, task, pace, token, aborted, host, call, commands>>

\* HTTP waits for open requests on shutdown; any task can be inside a
\* synchronous section that does not end in time.
Paces == {f \in [Tasks -> {"prompt", "draining", "stuck"}] :
             /\ \A t \in Tasks \ {"httpd", "metricsd"} : f[t] # "draining"
             /\ Cardinality({t \in Tasks : f[t] # "prompt"}) <= 1}

Init ==
    /\ node = "starting" /\ count = 0 /\ step = "idle"
    /\ failure = FALSE /\ deadline = FALSE /\ budget \in BOOLEAN
    /\ task = [t \in Tasks |-> "none"]
    /\ pace \in Paces
    /\ token = {} /\ aborted = {} /\ host = FALSE
    /\ call = [c \in Calls |-> "none"]
    /\ commands = <<>>
-----------------------------------------------------------------------------
(* Node::start *)

Running(t) == task[t] = "running"

StartService ==
    /\ node = "starting" /\ count < Len(Order)
    /\ LET s == Order[count + 1]
       IN  /\ task' = [t \in Tasks |->
                 IF s # "chain" /\ t = Main(s) THEN "running" ELSE task[t]]
           /\ host' = (host \/ s = "p2p")
    /\ count' = count + 1
    /\ node' = IF count' = Len(Order) THEN "running" ELSE node
    /\ UNCHANGED <<step, failure, deadline, pace, budget, token, aborted, call, commands>>

\* MUTANT of StartFails: the error returns without unwinding.
StartFailsNoUnwind ==
    /\ node = "starting" /\ count < Len(Order)
    /\ Order[count + 1] \in {"p2p", "http", "metrics"}
    /\ node' = "failed" /\ step' = step
    /\ UNCHANGED <<count, failure, deadline, task, pace, budget, token, aborted, host, call, commands>>

\* A listener cannot be bound: what has started is stopped again.
StartFails ==
    /\ node = "starting" /\ count < Len(Order)
    /\ Order[count + 1] \in {"p2p", "http", "metrics"}
    /\ node' = "unwinding" /\ step' = "call"
    /\ UNCHANGED <<count, failure, deadline, task, pace, budget, token, aborted, host, call, commands>>

\* The shutdown signal: the binary calls Node::stop.
Stop ==
    /\ node = "running"
    /\ node' = "stopping" /\ step' = "call"
    /\ UNCHANGED <<count, failure, deadline, task, pace, budget, token, aborted, host, call, commands>>
-----------------------------------------------------------------------------
(* stop_services_reverse and stop_one *)

Stopping == node \in {"stopping", "unwinding"}
Current == Order[count]

Deadline ==
    /\ budget /\ Stopping /\ ~deadline
    /\ deadline' = TRUE
    /\ UNCHANGED <<node, count, step, failure, task, pace, budget, token, aborted, host, call, commands>>

\* The stop call of the current service returns; the next one follows.
Return(ok) ==
    /\ count' = count - 1
    /\ failure' = (failure \/ ~ok)
    /\ IF count' = 0
       THEN step' = "idle" /\ node' = IF node = "stopping" THEN "stopped" ELSE "failed"
       ELSE step' = "call" /\ node' = node
    /\ host' = (host /\ Current # "p2p")
    /\ UNCHANGED <<deadline, pace, budget, call>>

StopChain ==
    /\ Stopping /\ step = "call" /\ Current = "chain"
    /\ Return(TRUE)
    /\ UNCHANGED <<task, token, aborted, commands>>

\* The service takes its handle and cancels its own token.
CancelOwn ==
    /\ Stopping /\ step = "call" /\ Current \notin {"chain", "p2p"}
    /\ token' = token \cup {Current}
    /\ step' = "join"
    /\ UNCHANGED <<node, count, failure, deadline, task, pace, budget, aborted, host, call, commands>>

HasRoom == Len(commands) < Capacity

\* Shutdown goes through the command channel, which may be full; a closed
\* channel is ignored.
SendShutdown ==
    /\ Stopping /\ step = "call" /\ Current = "p2p"
    /\ HasRoom \/ ~Running("swarm")
    /\ commands' = IF Running("swarm") THEN Append(commands, "shutdown") ELSE commands
    /\ token' = token \cup {"p2p"}
    /\ step' = "join"
    /\ UNCHANGED <<node, count, failure, deadline, task, pace, budget, aborted, host, call>>

\* The joined task is over.  sync and duties look at the deadline first.
BudgetFirst == {"sync", "duties"}

\* MUTANT of Join: p2p does not wait for its task.
JoinNotSwarm ==
    /\ Stopping /\ step = "join" /\ (Current = "p2p" \/ ~Running(Main(Current)))
    /\ ~(deadline /\ Current \in BudgetFirst)
    /\ IF Current = "sync" /\ task["watch"] = "ended"
       THEN /\ step' = "drain"
            /\ UNCHANGED <<node, count, failure, deadline, pace, budget, host, call>>
       ELSE Return(task[Main(Current)] # "panicked")
    /\ UNCHANGED <<task, token, aborted, commands>>

Join ==
    /\ Stopping /\ step = "join" /\ ~Running(Main(Current))
    /\ ~(deadline /\ Current \in BudgetFirst)
    /\ IF Current = "sync" /\ task["watch"] = "ended"
       THEN /\ step' = "drain"
            /\ UNCHANGED <<node, count, failure, deadline, pace, budget, host, call>>
       ELSE Return(task[Main(Current)] = "ended")
    /\ UNCHANGED <<task, token, aborted, commands>>

\* sync waits for its per-peer walks; at the deadline it leaves them behind.
Drain ==
    /\ Stopping /\ step = "drain"
    /\ deadline \/ \A w \in Walks : ~Running(w)
    /\ Return(~deadline)
    /\ UNCHANGED <<task, token, aborted, commands>>

\* The deadline fires while the service joins its task: the task is aborted.
\* p2p returns at once, the others first await the task.
AbortTask ==
    /\ Stopping /\ step = "join" /\ deadline
    /\ aborted' = aborted \cup {Main(Current)}
    /\ IF Current = "p2p"
       THEN Return(TRUE)
       ELSE /\ step' = "aborting"
            /\ UNCHANGED <<node, count, failure, deadline, pace, budget, host, call>>
    /\ UNCHANGED <<task, token, commands>>

AwaitAborted ==
    /\ Stopping /\ step = "aborting" /\ ~Running(Main(Current))
    /\ Return(Current \notin BudgetFirst)
    /\ UNCHANGED <<task, token, aborted, commands>>

\* MUTANT of StopOneDeadline: the stop future is not raced.
StopOneNoDeadline ==
    /\ FALSE
    /\ Return(FALSE)
    /\ UNCHANGED <<task, token, aborted, commands>>

\* stop_one: the stop future is pending and the deadline has fired.  The
\* future is dropped where it stands.
StopOneDeadline ==
    /\ Stopping /\ deadline
    /\ \/ step = "aborting" /\ Running(Main(Current))
       \/ step = "call" /\ Current = "p2p" /\ ~HasRoom /\ Running("swarm")
    /\ Return(FALSE)
    /\ UNCHANGED <<task, token, aborted, commands>>
-----------------------------------------------------------------------------
(* The tasks *)

Holding(c) == call[c] \in {"send", "wait"}
Idle(t) == \A c \in CallsOf(t) : call[c] = "none"

\* The command of an abandoned call stays in the channel; its reply goes
\* nowhere.
DropCalls(cs) ==
    /\ call' = [c \in Calls |-> IF c \in cs THEN "none" ELSE call[c]]
    /\ commands' = [i \in DOMAIN commands |-> IF commands[i] \in cs THEN "stale" ELSE commands[i]]

\* Task t is over, with its calls; without the swarm task every call returns.
Exit(t, how) ==
    /\ task' = [task EXCEPT ![t] = how]
    /\ IF t = "swarm"
       THEN /\ call' = [c \in Calls |-> IF Holding(c) THEN "none" ELSE call[c]]
            /\ commands' = <<>>
       ELSE DropCalls(CallsOf(t))
    /\ UNCHANGED <<node, count, step, failure, deadline, pace, budget, token, aborted, host>>

\* An answered peer event starts a walk; at most Walks at a time.
SpawnWalk(w) ==
    /\ Running("watch") /\ Running("swarm") /\ task[w] # "running"
    /\ pace["watch"] # "stuck" /\ pace["swarm"] # "stuck"
    /\ task' = [task EXCEPT ![w] = "running"]
    /\ UNCHANGED <<node, count, step, failure, deadline, pace, budget, token, aborted, host, call, commands>>

WalkDone(w) ==
    /\ w \in Walks /\ Running(w) /\ pace[w] # "stuck" /\ Idle(w)
    /\ Exit(w, "ended")

\* The task sees its token at an await that races it.
Cancelled(t) ==
    /\ Running(t) /\ pace[t] = "prompt"
    /\ ServiceOf(t) \in token
    /\ call["block"] = "none" \/ t # "runner"
    /\ Exit(t, "ended")

\* The runtime drops an aborted task the next time it yields.
Aborted(t) ==
    /\ Running(t) /\ pace[t] # "stuck"
    /\ t \in aborted
    /\ Exit(t, "ended")

Panic(t) ==
    /\ Running(t) /\ pace[t] # "stuck"
    /\ Cardinality({u \in Tasks : task[u] = "panicked"}) < MaxPanics
    /\ Exit(t, "panicked")

\* maybe_propose is awaited inside the tick, where nothing races it.
BeginTick ==
    /\ Running("runner") /\ pace["runner"] # "stuck" /\ Idle("runner")
    /\ "duties" \notin token
    /\ call' = [call EXCEPT !["block"] = "produce"]
    /\ UNCHANGED <<node, count, step, failure, deadline, task, pace, budget, token, aborted, host, commands>>

\* The Host can be cloned until the p2p service is asked to stop.
HostAvailable == host /\ ~(Stopping /\ Current = "p2p")

Publish ==
    /\ Running("runner") /\ pace["runner"] # "stuck" /\ call["block"] = "produce"
    /\ call' = [call EXCEPT !["block"] =
                   IF HostAvailable /\ Running("swarm") THEN "send" ELSE "none"]
    /\ UNCHANGED <<node, count, step, failure, deadline, task, pace, budget, token, aborted, host, commands>>

BeginCall(c) ==
    /\ c # "block"
    /\ Running(Caller(c)) /\ pace[Caller(c)] # "stuck" /\ Idle(Caller(c))
    /\ HostAvailable /\ Running("swarm")
    /\ ServiceOf(Caller(c)) \notin token
    /\ call' = [call EXCEPT ![c] = "send"]
    /\ UNCHANGED <<node, count, step, failure, deadline, task, pace, budget, token, aborted, host, commands>>

SendCommand(c) ==
    /\ call[c] = "send" /\ HasRoom /\ pace[Caller(c)] # "stuck"
    /\ call' = [call EXCEPT ![c] = "wait"]
    /\ commands' = Append(commands, c)
    /\ UNCHANGED <<node, count, step, failure, deadline, task, pace, budget, token, aborted, host>>

\* A vote and a request are raced against a timer.
Abandon(c) ==
    /\ c # "block" /\ Holding(c) /\ pace[Caller(c)] # "stuck"
    /\ DropCalls({c})
    /\ UNCHANGED <<node, count, step, failure, deadline, task, pace, budget, token, aborted, host>>

\* The swarm task serves the oldest command, if it is not cancelled.
Serve ==
    /\ Running("swarm") /\ pace["swarm"] # "stuck" /\ "p2p" \notin token
    /\ commands # <<>> /\ Head(commands) # "shutdown"
    /\ commands' = Tail(commands)
    /\ call' = [c \in Calls |-> IF c = Head(commands) THEN "none" ELSE call[c]]
    /\ UNCHANGED <<node, count, step, failure, deadline, task, pace, budget, token, aborted, host>>

\* recv returns None: the channel is empty and nobody holds a sender.
NoSenders == commands = <<>> /\ ~host /\ \A c \in Calls : ~Holding(c)

Hangup ==
    /\ Running("swarm") /\ pace["swarm"] # "stuck"
    /\ NoSenders \/ (commands # <<>> /\ Head(commands) = "shutdown")
    /\ Exit("swarm", "ended")

TaskStep(t) ==
    \/ WalkDone(t) \/ Cancelled(t) \/ Aborted(t)
    \/ \E c \in CallsOf(t) : SendCommand(c) \/ Abandon(c)
    \/ t = "swarm" /\ (Serve \/ Hangup)
    \/ t = "runner" /\ Publish

StopStep ==
    \/ StopChain \/ CancelOwn \/ SendShutdown \/ Join \/ Drain
    \/ AbortTask \/ AwaitAborted \/ StopOneDeadline

Next ==
    \/ StartService \/ StartFails \/ Stop \/ BeginTick
    \/ StopStep
    \/ Deadline
    \/ \E t \in Tasks : TaskStep(t) \/ Panic(t)
    \/ \E w \in Walks : SpawnWalk(w)
    \/ \E c \in Calls : BeginCall(c)

\* The runtime polls a woken task; the timer of derive_stop_token fires; the
\* channel serves blocked senders in turn.
Fairness ==
    /\ WF_vars(StopStep)
    /\ WF_vars(Deadline)
    /\ \A t \in Tasks : WF_vars(TaskStep(t))
    /\ \A c \in Calls : SF_vars(SendCommand(c))

Spec == Init /\ [][Next]_vars /\ Fairness
-----------------------------------------------------------------------------
(* Properties *)

Over == node \in {"stopped", "failed"}

TypeOK ==
    /\ node \in {"starting", "running", "stopping", "unwinding", "stopped", "failed"}
    /\ count \in 0 .. Len(Order)
    /\ step \in {"idle", "call", "join", "drain", "aborting"}
    /\ {failure, budget, deadline, host} \subseteq BOOLEAN
    /\ task \in [Tasks -> {"none", "running", "ended", "panicked"}]
    /\ pace \in Paces
    /\ token \subseteq Services /\ aborted \subseteq Tasks
    /\ call \in [Calls -> {"none", "produce", "send", "wait"}]
    /\ commands \in Seq(Calls \cup {"shutdown", "stale"}) /\ Len(commands) <= Capacity

\* The swarm task is not told to stop while a task that may be waiting for its
\* answer is still running, unless the deadline has fired or the watch task
\* has panicked, after which sync's stop returns without draining its walks.
SwarmOutlivesUsers ==
    "p2p" \in token =>
        \/ \A t \in {"runner", "watch"} \cup Walks : ~Running(t)
        \/ deadline
        \/ task["watch"] = "panicked"

\* When Node::stop or a failed Node::start has returned, every task that still
\* runs is on its way out: it is aborted, or it is a walk whose token is
\* cancelled, or it is the swarm task and its service's sender is gone.  This
\* holds although a stop future may be dropped half way, after an error of an
\* earlier service, and in a start that fails at any listener.
NothingForgotten ==
    Over => \A t \in Tasks : Running(t) =>
        \/ t \in aborted
        \/ t \in Walks /\ "sync" \in token
        \/ t = "swarm" /\ ~host

\* When every stop call returned Ok within the deadline, no task runs.
CleanStop == Over /\ ~failure /\ ~deadline => \A t \in Tasks : ~Running(t)

\* Node::stop, and a failing Node::start, return: with a deadline even if a
\* task never yields or never drains, without one if all tasks respond.  After
\* that every task ends that yields at all, also the swarm task whose stop
\* future was dropped before it could cancel it.
StopCompletes ==
    /\ Stopping /\ (budget \/ \A t \in Tasks : pace[t] = "prompt") ~> Over
    /\ Over ~> \A t \in Tasks : Running(t) => pace[t] = "stuck"
-----------------------------------------------------------------------------
(* A statement of the repository that the code does not meet *)

\* No swarm task outlives a stop that reports success.  Stated of the abort in
\* P2pService::stop, which returns without awaiting the aborted task.
NoOrphanedSwarm == node = "stopped" /\ ~failure => ~Running("swarm")
=============================================================================
