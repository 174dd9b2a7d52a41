----------------------------- MODULE Heartbeats -----------------------------
(***************************************************************************)
(* Failure detection in time: the workers' heartbeat loops (worker/        *)
(* heartbeat.py, daemon.py), the NodeService handler (orchestrator/        *)
(* service.py), the registry's clock and the reaper thread (orchestrator/  *)
(* node_registry.py, server.py).                                           *)
(*                                                                         *)
(* Time is counted in ticks and kept as ages: how long ago last_heartbeat  *)
(* was, how long a wait has lasted.  Tick is disabled while a wait is at   *)
(* its end, so what is due happens before time goes on.  update_node and   *)
(* reap_stale_nodes read the clock before they take the lock: a thread may *)
(* be held for up to MaxHold ticks in between, and others may pass it.     *)
(* NodeInfo's other fields only travel; NodeRegistry models who reads them.*)
(***************************************************************************)
EXTENDS Naturals, Sequences, FiniteSets

CONSTANTS Nodes,
          Interval,         \* heartbeat_interval_s of the orchestrator
          InitialInterval,  \* --heartbeat-interval of the workers
          Missed,           \* missed_threshold
          ReaperInterval,   \* reaper_interval_s
          MaxHold,          \* longest wait between clock read and lock
          MaxLate,          \* longest a request outlives its call
          MaxFaults         \* calls that fail while both sides are up

ASSUME HeartbeatAssumption ==
  /\ IsFiniteSet(Nodes)
  /\ {Interval, InitialInterval, Missed, ReaperInterval} \subseteq Nat \ {0}
  /\ {MaxHold, MaxLate, MaxFaults} \subseteq Nat

VARIABLES orch,      \* whether the orchestrator process is up
          order,     \* keys of _nodes, in insertion order
          status,    \* NodeInfo.status
          age,       \* ticks since NodeInfo.last_heartbeat, capped at MaxAge
          reaper,    \* the reaper thread: waiting, or holding a clock value
          client,    \* the HeartbeatClient of every worker
          requests,  \* Heartbeat calls under way
          faults     \* calls that failed so far, for the bound only

registry == <<order, status, age>>
vars == <<orch, registry, reaper, client, requests, faults>>

timeout_s == Interval * Missed

\* Ages beyond this are not told apart.
MaxAge == timeout_s + ReaperInterval + 2 * MaxHold + 1

Registered == {order[i] : i \in DOMAIN order}

\* clean counts the calls answered in a row, up to 3: history only.
Off == [pc |-> "off", timer |-> 0, interval |-> InitialInterval,
        stop |-> FALSE, clean |-> 0]
Started == [Off EXCEPT !.pc = "send"]

\* stop: a loop in its wait ends at once; one in a call ends when the call
\* does (join waits longer than any call).
Stopped(c) == IF c.pc = "call" THEN [c EXCEPT !.stop = TRUE] ELSE Off

\* run_reaper between two cycles, and when the thread starts.
Waiting == [pc |-> "wait", timer |-> 0]
FirstCycle == [Waiting EXCEPT !.timer = ReaperInterval]

Init ==
  /\ orch = "up"
  /\ order = <<>>
  /\ status = [n \in Nodes |-> "unknown"]
  /\ age = [n \in Nodes |-> 0]
  /\ reaper = FirstCycle
  /\ client = [n \in Nodes |-> Off]
  /\ requests = {}
  /\ faults = 0

-----------------------------------------------------------------------------
\* The call node n's client is blocked in, as far as it still exists.
OwnCall(n) == {r \in requests : r.node = n /\ r.attached}

\* What is left of node n's call once its client has given up on it: the
\* request may still reach the handler, the response goes nowhere.
Abandoned(n) ==
  {IF r \in OwnCall(n) THEN [r EXCEPT !.attached = FALSE] ELSE r :
     r \in {q \in requests : ~(q \in OwnCall(n) /\ q.stage = "ack")}}

\* main of daemon.py starts the client; the loop sends at once.
StartWorker(n) ==
  /\ client[n].pc = "off"
  /\ client' = [client EXCEPT ![n] = Started]
  /\ UNCHANGED <<orch, registry, reaper, requests, faults>>

\* A signal ends main of daemon.py, which stops the client.
StopWorker(n) ==
  /\ client[n].pc # "off" /\ ~client[n].stop
  /\ client' = [client EXCEPT ![n] = Stopped(@)]
  /\ UNCHANGED <<orch, registry, reaper, requests, faults>>

\* The worker process or its machine dies.
CrashWorker(n) ==
  /\ client[n].pc # "off"
  /\ client' = [client EXCEPT ![n] = Off]
  /\ requests' = Abandoned(n)
  /\ UNCHANGED <<orch, registry, reaper, faults>>

SendDue(n) ==
  \/ client[n].pc = "send"
  \/ client[n].pc = "sleep" /\ client[n].timer = client[n].interval

\* _heartbeat_loop: the top of the loop, up to the call.
SendHeartbeat(n) ==
  /\ SendDue(n)
  /\ client' = [client EXCEPT ![n].pc = "call", ![n].timer = 0]
  /\ requests' = requests \cup
       {[node |-> n, stage |-> "net", age |-> 0, attached |-> TRUE]}
  /\ UNCHANGED <<orch, registry, reaper, faults>>

\* The loop after a call: the wait, or the end if stop was called.
AfterCall(c) ==
  IF c.stop THEN Off ELSE [c EXCEPT !.pc = "sleep", !.timer = 0]

\* A client that takes over the interval of the response.
Adopted(c) ==
  [c EXCEPT !.interval = Interval,
            !.clean = IF c.clean < 3 THEN c.clean + 1 ELSE c.clean]

\* The response arrives in time.
HeartbeatAnswered(n) ==
  /\ client[n].pc = "call"
  /\ \E r \in OwnCall(n) :
       /\ r.stage = "ack"
       /\ requests' = requests \ {r}
  /\ client' = [client EXCEPT ![n] = AfterCall(Adopted(@))]
  /\ UNCHANGED <<orch, registry, reaper, faults>>

\* Mutant of HeartbeatFailed: the next call reuses the one that failed.
HeartbeatFailed_KeepCall(n) ==
  /\ client[n].pc = "call"
  /\ \/ /\ OwnCall(n) = {} \/ orch = "down"
        /\ UNCHANGED faults
     \/ /\ OwnCall(n) # {} /\ orch = "up" /\ faults < MaxFaults
        /\ faults' = faults + 1
  /\ client' = [client EXCEPT ![n] = AfterCall([@ EXCEPT !.clean = 0])]
  /\ UNCHANGED <<orch, registry, reaper, requests>>

\* The call raises RpcError: refused, broken off or past its deadline of
\* one interval.  _reconnect drops the channel, and the loop waits as after
\* an answer.  Without a fault, a call ends this way only if its request is
\* gone or there is nobody to take it.
HeartbeatFailed(n) ==
  /\ client[n].pc = "call"
  /\ \/ /\ OwnCall(n) = {} \/ orch = "down"
        /\ UNCHANGED faults
     \/ /\ OwnCall(n) # {} /\ orch = "up" /\ faults < MaxFaults
        /\ faults' = faults + 1
  /\ client' = [client EXCEPT ![n] = AfterCall([@ EXCEPT !.clean = 0])]
  /\ requests' = Abandoned(n)
  /\ UNCHANGED <<orch, registry, reaper>>

\* The network drops a request or a response.  A call still waited for costs
\* a fault; one that was given up is cancelled at no cost.
LoseRequest(r) ==
  /\ r.stage # "lock"
  /\ IF r.attached THEN faults < MaxFaults /\ faults' = faults + 1
                   ELSE UNCHANGED faults
  /\ requests' = requests \ {r}
  /\ UNCHANGED <<orch, registry, reaper, client>>

-----------------------------------------------------------------------------
\* The handler starts: update_node reads the clock.  age counts from here.
ReadClock(r) ==
  /\ orch = "up" /\ r.stage = "net"
  /\ requests' = (requests \ {r}) \cup {[r EXCEPT !.stage = "lock", !.age = 0]}
  /\ UNCHANGED <<orch, registry, reaper, client, faults>>

\* Mutants of UpdateNode: a known node's status is left alone; a node that
\* comes back is entered a second time.
UpdateNode_KeepStatus(r) ==
  /\ r.stage = "lock"
  /\ order' = IF r.node \in Registered THEN order ELSE Append(order, r.node)
  /\ status' = [status EXCEPT ![r.node] = IF @ = "unknown" THEN "available"
                                          ELSE @]
  /\ age' = [age EXCEPT ![r.node] = r.age]
  /\ requests' = (requests \ {r}) \cup
       (IF r.attached THEN {[r EXCEPT !.stage = "ack", !.age = 0]} ELSE {})
  /\ UNCHANGED <<orch, reaper, client, faults>>

UpdateNode_Reinsert(r) ==
  /\ r.stage = "lock"
  /\ order' = IF status[r.node] = "available" THEN order
              ELSE Append(order, r.node)
  /\ status' = [status EXCEPT ![r.node] = "available"]
  /\ age' = [age EXCEPT ![r.node] = r.age]
  /\ requests' = (requests \ {r}) \cup
       (IF r.attached THEN {[r EXCEPT !.stage = "ack", !.age = 0]} ELSE {})
  /\ UNCHANGED <<orch, reaper, client, faults>>

\* update_node under the lock, with the clock value read r.age ticks ago;
\* Heartbeat answers.
UpdateNode(r) ==
  /\ r.stage = "lock"
  /\ order' = IF r.node \in Registered THEN order ELSE Append(order, r.node)
  /\ status' = [status EXCEPT ![r.node] = "available"]
  /\ age' = [age EXCEPT ![r.node] = r.age]
  /\ requests' = (requests \ {r}) \cup
       (IF r.attached THEN {[r EXCEPT !.stage = "ack", !.age = 0]} ELSE {})
  /\ UNCHANGED <<orch, reaper, client, faults>>

\* run_reaper: the wait is over, reap_stale_nodes reads the clock.
ReaperReadClock ==
  /\ orch = "up"
  /\ reaper.pc = "wait" /\ reaper.timer = ReaperInterval
  /\ reaper' = [pc |-> "lock", timer |-> 0]
  /\ UNCHANGED <<orch, registry, client, requests, faults>>

Silent(n) == status[n] = "available" /\ age[n] > timeout_s + reaper.timer

\* Mutants of ReapStaleNodes: the silence may equal the timeout; the time
\* of the reaper's own wait is allowed on top; only busy nodes are looked at.
ReapStaleNodes_AtLeast ==
  /\ reaper.pc = "lock"
  /\ status' = [n \in Nodes |->
       IF status[n] = "available" /\ age[n] >= timeout_s + reaper.timer
       THEN "unavailable" ELSE status[n]]
  /\ reaper' = Waiting
  /\ UNCHANGED <<orch, order, age, client, requests, faults>>

ReapStaleNodes_ExtraWait ==
  /\ reaper.pc = "lock"
  /\ status' = [n \in Nodes |->
       IF Silent(n) /\ age[n] > timeout_s + reaper.timer + ReaperInterval
       THEN "unavailable" ELSE status[n]]
  /\ reaper' = Waiting
  /\ UNCHANGED <<orch, order, age, client, requests, faults>>

ReapStaleNodes_OnlyBusy ==
  /\ reaper.pc = "lock"
  /\ reaper' = Waiting
  /\ UNCHANGED <<orch, registry, client, requests, faults>>

\* reap_stale_nodes under the lock, with the clock value read reaper.timer
\* ticks ago: a silence is measured up to that moment.
ReapStaleNodes ==
  /\ reaper.pc = "lock"
  /\ status' = [n \in Nodes |-> IF Silent(n) THEN "unavailable" ELSE status[n]]
  /\ reaper' = Waiting
  /\ UNCHANGED <<orch, order, age, client, requests, faults>>

\* The orchestrator ends: what it remembered and was handling is gone.
StopOrchestrator ==
  /\ orch = "up" /\ orch' = "down"
  /\ order' = <<>>
  /\ status' = [n \in Nodes |-> "unknown"]
  /\ age' = [n \in Nodes |-> 0]
  /\ reaper' = Waiting
  /\ requests' = {}
  /\ UNCHANGED <<client, faults>>

\* create_server and main: an empty registry, and a reaper that starts with
\* a cycle.
StartOrchestrator ==
  /\ orch = "down" /\ orch' = "up"
  /\ reaper' = FirstCycle
  /\ UNCHANGED <<registry, client, requests, faults>>

-----------------------------------------------------------------------------
AtDeadline(n) ==
  SendDue(n) \/ (client[n].pc = "call" /\ client[n].timer = client[n].interval)

Overdue(r) ==
  \/ r.stage = "lock" /\ r.age = MaxHold
  \/ r.stage = "net" /\ ~r.attached /\ r.age = MaxLate

\* A request counts the ticks since its clock was read or, before that,
\* since its call was given up.
Aged(r) ==
  IF r.stage = "lock" \/ (r.stage = "net" /\ ~r.attached)
  THEN [r EXCEPT !.age = @ + 1] ELSE r

Tick ==
  /\ \A n \in Nodes : ~AtDeadline(n)
  /\ \A r \in requests : ~Overdue(r)
  /\ orch = "up" =>
       reaper.timer < IF reaper.pc = "wait" THEN ReaperInterval ELSE MaxHold
  /\ reaper' = IF orch = "up" THEN [reaper EXCEPT !.timer = @ + 1] ELSE reaper
  /\ client' = [n \in Nodes |->
       IF client[n].pc \in {"call", "sleep"}
       THEN [client[n] EXCEPT !.timer = @ + 1] ELSE client[n]]
  /\ requests' = {Aged(r) : r \in requests}
  /\ age' = [n \in Nodes |->
       IF n \in Registered /\ age[n] < MaxAge THEN age[n] + 1 ELSE age[n]]
  /\ UNCHANGED <<orch, order, status, faults>>

ClientStep(n) == SendHeartbeat(n) \/ HeartbeatAnswered(n) \/ HeartbeatFailed(n)
ServerStep(n) ==
  \E r \in requests : r.node = n /\ (ReadClock(r) \/ UpdateNode(r))
ReaperStep == ReaperReadClock \/ ReapStaleNodes

Next ==
  \/ \E n \in Nodes : \/ StartWorker(n) \/ StopWorker(n) \/ CrashWorker(n)
                      \/ ClientStep(n) \/ ServerStep(n)
  \/ \E r \in requests : LoseRequest(r)
  \/ ReaperStep \/ StopOrchestrator \/ StartOrchestrator
  \/ Tick

\* Threads run and time passes; nobody is obliged to start or stop anything,
\* and the network is not obliged to lose anything.
Fairness ==
  /\ WF_vars(Tick) /\ WF_vars(ReaperStep)
  /\ \A n \in Nodes : WF_vars(ClientStep(n)) /\ WF_vars(ServerStep(n))

Spec == Init /\ [][Next]_vars /\ Fairness

-----------------------------------------------------------------------------
\* What ReportStatus answers about node n: get_node's entry, or NOT_FOUND.
ReportStatus(n) == IF n \in Registered THEN status[n] ELSE "NOT_FOUND"

Requests ==
  [node : Nodes, stage : {"net", "lock", "ack"}, age : 0..(MaxHold + MaxLate),
   attached : BOOLEAN]

\* The types; and a client has at most one call of its own, made by it now.
TypeOK ==
  /\ orch \in {"up", "down"}
  /\ Registered \subseteq Nodes
  /\ status \in [Nodes -> {"unknown", "available", "unavailable"}]
  /\ age \in [Nodes -> 0..MaxAge]
  /\ reaper \in [pc : {"wait", "lock"}, timer : 0..(ReaperInterval + MaxHold)]
  /\ requests \subseteq Requests
  /\ \A n \in Nodes :
       /\ Cardinality(OwnCall(n)) \in (IF client[n].pc = "call" THEN {0, 1} ELSE {0})
       /\ client[n].timer <= client[n].interval
  /\ faults \in 0..MaxFaults

\* What the registry offers to plan_dispatch was heard from recently: a node
\* is available only if its last heartbeat lies within the timeout, one
\* cycle of the reaper and the two moments it may be held up at the lock,
\* also when a delayed handler writes over what the reaper has just decided.
AvailableIsRecent ==
  \A n \in Nodes : status[n] = "available" =>
    age[n] <= timeout_s + ReaperInterval + 2 * MaxHold

\* A request that outlives its call does not outlive two intervals.
CallsEndSoon == MaxLate + MaxHold < 2 * Interval

\* A worker that runs and whose last three heartbeats were answered is never
\* reaped, however slow the answers.  Three intervals of tolerance are just
\* enough: an answer, a wait and the next call may take one each.  Three
\* heartbeats, since the handler of an abandoned call may write its older
\* clock value after two newer ones, if it does not outlive two intervals.
OnlySilentNodesReaped ==
  [][Missed >= 3 /\ CallsEndSoon =>
       \A n \in Nodes :
         status[n] = "available" /\ status'[n] = "unavailable" =>
           client[n].clean < 3]_vars

\* A worker that keeps running is, in the end, reported available for good:
\* it registers, rejoins after it was reaped, and finds an orchestrator that
\* restarted with an empty registry.
RunningNodeRejoins ==
  \A n \in Nodes :
    <>[](orch = "up" /\ client[n].pc # "off" /\ ~client[n].stop)
      => <>[](ReportStatus(n) = "available")

\* A worker that stays down is, in the end, never offered again, also when
\* its last request is handled after it was reaped.
DeadNodeDropped ==
  \A n \in Nodes :
    <>[](client[n].pc = "off") => <>[](ReportStatus(n) # "available")

\* With time and calls hidden this is NodeRegistry: every step is one of its
\* heartbeats or reaps, or the start of a new process with an empty registry.
Untimed == INSTANCE NodeRegistry
             WITH Planners <- {}, Layers <- {1}, NoNext <- "none", planner <- <<>>

RegistryIsUntimed ==
  /\ Untimed!Init
  /\ [][Untimed!Next \/ StopOrchestrator]_<<order, status>>
-----------------------------------------------------------------------------
(***************************************************************************)
(* The inductive invariant behind TypeOK, AvailableIsRecent and            *)
(* RegistryIsUntimed.                                                      *)
(***************************************************************************)
Clients ==
  [pc : {"off", "send", "call", "sleep"}, timer : Nat,
   interval : {Interval, InitialInterval}, stop : BOOLEAN, clean : 0..3]

\* A client that has had answers waits by the orchestrator's interval.
ClientShape(c) ==
  /\ c \in Clients
  /\ c.timer <= c.interval
  /\ c.clean > 0 => c.pc \in {"call", "sleep"} /\ c.interval = Interval

\* A call is held at the lock, or outlives its caller, for so long only.
RequestShape(r) ==
  /\ r \in Requests
  /\ r.stage = "lock" => r.age <= MaxHold
  /\ r.stage = "net" => r.age <= MaxLate
  /\ r.stage = "ack" => r.attached
  /\ r.attached => client[r.node].pc = "call"
  /\ orch = "down" => r.stage = "net"

OneOwnCall ==
  \A r, q \in requests : r.attached /\ q.attached /\ r.node = q.node => r = q

RegistryShape ==
  /\ order \in Seq(Nodes)
  /\ status \in [Nodes -> {"unknown", "available", "unavailable"}]
  /\ age \in [Nodes -> 0..MaxAge]
  /\ \A n \in Nodes : n \in Registered <=> status[n] # "unknown"
  /\ orch = "down" => order = <<>>

ReaperShape ==
  /\ reaper \in [pc : {"wait", "lock"}, timer : Nat]
  /\ reaper.timer <= IF reaper.pc = "wait" THEN ReaperInterval ELSE MaxHold

\* How old an available node's heartbeat may be: what the last cycle let
\* pass, and the time since.
ReapedInTime ==
  \A n \in Nodes : status[n] = "available" =>
    age[n] <= timeout_s + MaxHold + reaper.timer
                + (IF reaper.pc = "wait" THEN 0 ELSE ReaperInterval)

HeartbeatInv ==
  /\ orch \in {"up", "down"}
  /\ RegistryShape
  /\ ReaperShape
  /\ client \in [Nodes -> Clients] /\ \A n \in Nodes : ClientShape(client[n])
  /\ \A r \in requests : RequestShape(r)
  /\ OneOwnCall
  /\ ReapedInTime
  /\ faults \in 0..MaxFaults

(***************************************************************************)
(* The inductive invariant behind OnlySilentNodesReaped.  Elapsed bounds   *)
(* from below how long ago client c last gave up a call: a wait of one     *)
(* interval lies between two calls, and three answers span two waits.      *)
(***************************************************************************)
Elapsed(c) ==
  IF c.clean = 0 THEN 0
  ELSE (c.clean - 1) * Interval + c.timer + (IF c.pc = "call" THEN Interval ELSE 0)

\* A request that outlived its call was given up that long ago.
StaleCall(c, r) ==
  ~r.attached => Elapsed(c) <= r.age + (IF r.stage = "lock" THEN MaxLate ELSE 0)

\* What a client's own call writes is no older than the call; from the third
\* on, no older call writes over it.  a is the age of the node's heartbeat.
FreshCall(c, a, r) ==
  r.attached => /\ r.stage = "lock" => r.age <= c.timer
                /\ r.stage = "ack" /\ c.clean >= 2 => a <= c.timer

FreshAnswer(c, a) ==
  c.clean = 3 => a <= c.timer + (IF c.pc = "call" THEN 2 ELSE 1) * Interval

TimingInv ==
  /\ \A r \in requests : StaleCall(client[r.node], r)
  /\ CallsEndSoon =>
       /\ \A r \in requests : FreshCall(client[r.node], age[r.node], r)
       /\ \A n \in Nodes : FreshAnswer(client[n], age[n])
=============================================================================
