-------------------------- MODULE HeartbeatsProofs --------------------------
(***************************************************************************)
(* Proofs about Heartbeats.                                                *)
(***************************************************************************)
EXTENDS Heartbeats, FiniteSetTheorems, TLAPS

LEMMA ConstantTypes ==
  /\ Interval \in Nat /\ Interval > 0
  /\ InitialInterval \in Nat /\ InitialInterval > 0
  /\ ReaperInterval \in Nat /\ ReaperInterval > 0
  /\ MaxHold \in Nat /\ MaxLate \in Nat /\ MaxFaults \in Nat
  /\ timeout_s \in Nat /\ MaxAge \in Nat
  /\ MaxAge = timeout_s + ReaperInterval + 2 * MaxHold + 1
<1>1. /\ Interval \in Nat /\ Interval > 0
      /\ InitialInterval \in Nat /\ InitialInterval > 0
      /\ ReaperInterval \in Nat /\ ReaperInterval > 0
      /\ MaxHold \in Nat /\ MaxLate \in Nat /\ MaxFaults \in Nat
      /\ Missed \in Nat
  BY HeartbeatAssumption
<1>2. Interval * Missed \in Nat
  BY <1>1
<1>3. QED BY <1>1, <1>2 DEF timeout_s, MaxAge

\* The initial state satisfies the invariant: nothing is registered.
LEMMA InitInv == Init => HeartbeatInv
<1> SUFFICES ASSUME Init PROVE HeartbeatInv
  OBVIOUS
<1> USE ConstantTypes
<1>1. RegistryShape
  BY DEF Init, RegistryShape, Registered
<1>2. ReaperShape
  BY DEF Init, ReaperShape, FirstCycle, Waiting
<1>3. Off \in Clients /\ ClientShape(Off)
  BY DEF Off, Clients, ClientShape
<1>4. client \in [Nodes -> Clients] /\ \A n \in Nodes : ClientShape(client[n])
  BY <1>3 DEF Init
<1>5. ReapedInTime
  BY DEF Init, ReapedInTime
<1>6. QED
  BY <1>1, <1>2, <1>4, <1>5 DEF Init, HeartbeatInv, OneOwnCall

-----------------------------------------------------------------------------
\* What the invariant says of the registry and the reaper holds on while
\* nobody touches them.
LEMMA RegistryUntouched ==
  ASSUME HeartbeatInv, UNCHANGED <<orch, registry, reaper>>
  PROVE  /\ orch' \in {"up", "down"}
         /\ RegistryShape' /\ ReaperShape' /\ ReapedInTime'
<1>1. orch' = orch /\ order' = order /\ status' = status /\ age' = age
      /\ reaper' = reaper
  BY DEF registry
<1>2. RegistryShape'
  BY <1>1 DEF HeartbeatInv, RegistryShape, Registered
<1>3. ReaperShape'
  BY <1>1 DEF HeartbeatInv, ReaperShape
<1>4. ReapedInTime'
  BY <1>1 DEF HeartbeatInv, ReapedInTime
<1>5. QED BY <1>1, <1>2, <1>3, <1>4 DEF HeartbeatInv

\* One client moves.
LEMMA OneClientMoves ==
  ASSUME HeartbeatInv, NEW n \in Nodes, NEW c, ClientShape(c),
         client' = [client EXCEPT ![n] = c]
  PROVE  client' \in [Nodes -> Clients] /\ \A m \in Nodes : ClientShape(client[m])'
<1>1. c \in Clients
  BY DEF ClientShape
<1>2. client' \in [Nodes -> Clients]
  BY <1>1 DEF HeartbeatInv
<1>3. \A m \in Nodes : client'[m] = IF m = n THEN c ELSE client[m]
  BY DEF HeartbeatInv
<1>4. \A m \in Nodes : ClientShape(client'[m])
  BY <1>3 DEF HeartbeatInv
<1>5. QED BY <1>2, <1>4 DEF ClientShape

\* A client moves, and the calls that were under way stay as they are.
LEMMA ClientMoves ==
  ASSUME HeartbeatInv, NEW n \in Nodes, NEW c, ClientShape(c),
         client' = [client EXCEPT ![n] = c],
         client[n].pc = "call" => c.pc = "call",
         UNCHANGED <<orch, registry, reaper, requests, faults>>
  PROVE  HeartbeatInv'
<1>1. /\ orch' \in {"up", "down"}
      /\ RegistryShape' /\ ReaperShape' /\ ReapedInTime'
  BY RegistryUntouched
<1>2. client' \in [Nodes -> Clients] /\ \A m \in Nodes : ClientShape(client[m])'
  BY OneClientMoves
<1>3. \A m \in Nodes : client[m].pc = "call" => client'[m].pc = "call"
  BY DEF HeartbeatInv
<1>4. \A r \in requests : RequestShape(r)'
  <2> TAKE r \in requests
  <2>1. RequestShape(r) /\ orch' = orch
    BY DEF HeartbeatInv
  <2>2. r.node \in Nodes
    BY <2>1 DEF RequestShape, Requests
  <2>3. QED BY <1>3, <2>1, <2>2 DEF RequestShape
<1>5. OneOwnCall'
  BY DEF HeartbeatInv, OneOwnCall
<1>6. QED
  BY <1>1, <1>2, <1>4, <1>5 DEF HeartbeatInv

LEMMA OffShape ==
  ClientShape(Off) /\ Off.clean = 0 /\ Off.timer = 0 /\ Off.pc = "off"
BY ConstantTypes DEF Off, Clients, ClientShape

LEMMA StartWorkerInv ==
  ASSUME HeartbeatInv, NEW n \in Nodes, StartWorker(n) PROVE HeartbeatInv'
<1>1. /\ Started \in Clients /\ Started.timer = 0 /\ Started.clean = 0
      /\ Started.interval \in Nat
  BY OffShape, ConstantTypes DEF Started, Clients, ClientShape
<1>2. ClientShape(Started)
  BY <1>1, ConstantTypes DEF ClientShape
<1>3. QED
  BY <1>2, ClientMoves DEF StartWorker

LEMMA StopWorkerInv ==
  ASSUME HeartbeatInv, NEW n \in Nodes, StopWorker(n) PROVE HeartbeatInv'
<1>1. ClientShape(client[n])
  BY DEF HeartbeatInv
<1>2. ClientShape(Stopped(client[n]))
  <2>1. CASE client[n].pc = "call"
    <3>1. Stopped(client[n]) = [client[n] EXCEPT !.stop = TRUE]
      BY <2>1 DEF Stopped
    <3>2. Stopped(client[n]) \in Clients
      BY <1>1, <3>1 DEF Clients, ClientShape
    <3>3. QED
      BY <1>1, <3>1, <3>2, <2>1 DEF Clients, ClientShape
  <2>2. CASE client[n].pc # "call"
    BY <2>2, OffShape DEF Stopped
  <2>3. QED BY <2>1, <2>2
<1>3. client[n].pc = "call" => Stopped(client[n]).pc = "call"
  BY <1>1 DEF Stopped, Clients, ClientShape
<1>4. client' = [client EXCEPT ![n] = Stopped(client[n])]
  BY DEF StopWorker, HeartbeatInv
<1>5. QED
  BY <1>2, <1>3, <1>4, ClientMoves DEF StopWorker

\* What is left of a call that was given up.
LEMMA AbandonedCalls ==
  ASSUME HeartbeatInv, NEW n \in Nodes, NEW q \in Abandoned(n)
  PROVE  \E r \in requests :
           \/ q = r /\ ~(r.node = n /\ r.attached)
           \/ /\ r.node = n /\ r.attached /\ r.stage # "ack"
              /\ q = [r EXCEPT !.attached = FALSE]
BY DEF Abandoned, OwnCall

\* A client leaves its call, which is given up.
LEMMA ClientGivesUp ==
  ASSUME HeartbeatInv, NEW n \in Nodes, NEW c, ClientShape(c),
         client' = [client EXCEPT ![n] = c],
         requests' = Abandoned(n), faults' \in 0..MaxFaults,
         UNCHANGED <<orch, registry, reaper>>
  PROVE  HeartbeatInv'
<1>1. /\ orch' \in {"up", "down"}
      /\ RegistryShape' /\ ReaperShape' /\ ReapedInTime'
  BY RegistryUntouched
<1>2. client' \in [Nodes -> Clients] /\ \A m \in Nodes : ClientShape(client[m])'
  BY OneClientMoves
<1>3. \A m \in Nodes \ {n} : client'[m] = client[m]
  BY DEF HeartbeatInv
<1>4. ASSUME NEW q \in requests' PROVE RequestShape(q)'
  <2>1. PICK r \in requests :
           \/ q = r /\ ~(r.node = n /\ r.attached)
           \/ /\ r.node = n /\ r.attached /\ r.stage # "ack"
              /\ q = [r EXCEPT !.attached = FALSE]
    BY <1>4, AbandonedCalls
  <2>2. RequestShape(r) /\ r.node \in Nodes
    BY DEF HeartbeatInv, RequestShape, Requests
  <2>3. q \in Requests /\ q.stage = r.stage /\ q.age = r.age /\ q.node = r.node
    BY <2>1, <2>2 DEF RequestShape, Requests
  <2>4. q.attached => q = r /\ q.node \in Nodes \ {n}
    BY <2>1, <2>2 DEF RequestShape, Requests
  <2>5. q.stage = "ack" => q = r
    BY <2>1, <2>3
  <2>6. QED
    BY <1>3, <2>2, <2>3, <2>4, <2>5 DEF RequestShape
<1>5. OneOwnCall'
  <2>1. ASSUME NEW q \in requests', q.attached PROVE q \in requests
    BY <2>1, AbandonedCalls DEF HeartbeatInv, RequestShape, Requests
  <2>2. QED BY <2>1 DEF HeartbeatInv, OneOwnCall
<1>6. QED
  BY <1>1, <1>2, <1>4, <1>5 DEF HeartbeatInv

LEMMA CrashWorkerInv ==
  ASSUME HeartbeatInv, NEW n \in Nodes, CrashWorker(n) PROVE HeartbeatInv'
<1>1. faults' \in 0..MaxFaults
  BY DEF CrashWorker, HeartbeatInv
<1>2. QED
  BY <1>1, OffShape, ClientGivesUp DEF CrashWorker

\* The loop after a call.
LEMMA AfterCallShape ==
  ASSUME NEW c, c \in Clients, c.clean > 0 => c.interval = Interval
  PROVE  ClientShape(AfterCall(c))
<1>1. CASE c.stop
  BY <1>1, OffShape DEF AfterCall
<1>2. CASE ~c.stop
  <2> DEFINE d == [c EXCEPT !.pc = "sleep", !.timer = 0]
  <2>1. d \in Clients /\ d.pc = "sleep" /\ d.timer = 0
        /\ d.interval = c.interval /\ d.clean = c.clean
    BY DEF Clients
  <2>2. d.interval \in Nat
    BY <2>1, ConstantTypes DEF Clients
  <2>3. AfterCall(c) = d
    BY <1>2 DEF AfterCall
  <2> HIDE DEF d
  <2>4. QED BY <2>1, <2>2, <2>3 DEF ClientShape
<1>3. QED BY <1>1, <1>2

LEMMA HeartbeatFailedInv ==
  ASSUME HeartbeatInv, NEW n \in Nodes, HeartbeatFailed(n) PROVE HeartbeatInv'
<1> DEFINE c == [client[n] EXCEPT !.clean = 0]
<1>1. c \in Clients /\ c.clean = 0
  BY DEF HeartbeatInv, Clients
<1>3. client' = [client EXCEPT ![n] = AfterCall(c)]
  BY DEF HeartbeatFailed, HeartbeatInv
<1>4. faults' \in 0..MaxFaults
  BY ConstantTypes DEF HeartbeatFailed, HeartbeatInv
<1> HIDE DEF c
<1>2. ClientShape(AfterCall(c))
  BY <1>1, AfterCallShape
<1>5. requests' = Abandoned(n) /\ UNCHANGED <<orch, registry, reaper>>
  BY DEF HeartbeatFailed
<1>6. QED
  BY <1>2, <1>3, <1>4, <1>5, ClientGivesUp

LEMMA HeartbeatAnsweredInv ==
  ASSUME HeartbeatInv, NEW n \in Nodes, HeartbeatAnswered(n) PROVE HeartbeatInv'
<1> DEFINE c == Adopted(client[n])
<1>1. c \in Clients /\ c.interval = Interval
  <2> DEFINE k == IF client[n].clean < 3 THEN client[n].clean + 1 ELSE client[n].clean
  <2>1. client[n] \in Clients /\ k \in 0..3
    BY DEF HeartbeatInv, Clients
  <2>2. c = [client[n] EXCEPT !.interval = Interval, !.clean = k]
    BY DEF Adopted
  <2> HIDE DEF k, c
  <2>3. QED BY <2>1, <2>2 DEF Clients
<1>3. client' = [client EXCEPT ![n] = AfterCall(c)]
  BY DEF HeartbeatAnswered, HeartbeatInv
<1> HIDE DEF c
<1>2. ClientShape(AfterCall(c))
  BY <1>1, AfterCallShape
<1>4. PICK a \in OwnCall(n) : requests' = requests \ {a}
  BY DEF HeartbeatAnswered
<1>5. a \in requests /\ a.node = n /\ a.attached
  BY DEF OwnCall
<1>6. UNCHANGED <<orch, registry, reaper, faults>>
  BY DEF HeartbeatAnswered
<1>7. /\ orch' \in {"up", "down"}
      /\ RegistryShape' /\ ReaperShape' /\ ReapedInTime'
  BY <1>6, RegistryUntouched
<1>8. client' \in [Nodes -> Clients] /\ \A m \in Nodes : ClientShape(client[m])'
  BY <1>2, <1>3, OneClientMoves
<1>9. \A m \in Nodes \ {n} : client'[m] = client[m]
  BY <1>3 DEF HeartbeatInv
<1>10. ASSUME NEW q \in requests' PROVE RequestShape(q)'
  <2>1. q \in requests /\ RequestShape(q) /\ q.node \in Nodes
    BY <1>4 DEF HeartbeatInv, RequestShape, Requests
  <2>2. q.attached => q.node # n
    BY <1>4, <1>5, <2>1 DEF HeartbeatInv, OneOwnCall
  <2>3. QED
    BY <1>6, <1>9, <2>1, <2>2 DEF RequestShape
<1>11. OneOwnCall'
  BY <1>4 DEF HeartbeatInv, OneOwnCall
<1>12. QED
  BY <1>6, <1>7, <1>8, <1>10, <1>11 DEF HeartbeatInv

LEMMA SendHeartbeatInv ==
  ASSUME HeartbeatInv, NEW n \in Nodes, SendHeartbeat(n) PROVE HeartbeatInv'
<1> DEFINE c == [client[n] EXCEPT !.pc = "call", !.timer = 0]
           new == [node |-> n, stage |-> "net", age |-> 0, attached |-> TRUE]
<1>1. ClientShape(client[n]) /\ client[n].pc \in {"send", "sleep"}
  BY DEF HeartbeatInv, SendHeartbeat, SendDue
<1>2. ClientShape(c) /\ c.pc = "call"
  <2>1. c \in Clients /\ c.pc = "call" /\ c.timer = 0
        /\ c.interval = client[n].interval /\ c.clean = client[n].clean
    BY <1>1 DEF Clients, ClientShape
  <2>2. client[n].interval \in Nat
    BY <1>1, ConstantTypes DEF Clients, ClientShape
  <2> HIDE DEF c
  <2>3. QED BY <1>1, <2>1, <2>2 DEF ClientShape
<1>3. client' = [client EXCEPT ![n] = c]
  BY DEF SendHeartbeat, HeartbeatInv
<1>4. requests' = requests \cup {new} /\ UNCHANGED <<orch, registry, reaper, faults>>
  BY DEF SendHeartbeat
<1>5. /\ orch' \in {"up", "down"}
      /\ RegistryShape' /\ ReaperShape' /\ ReapedInTime'
  BY <1>4, RegistryUntouched
<1> HIDE DEF c
<1>6. client' \in [Nodes -> Clients] /\ \A m \in Nodes : ClientShape(client[m])'
  BY <1>2, <1>3, OneClientMoves
<1>7. client'[n].pc = "call" /\ \A m \in Nodes \ {n} : client'[m] = client[m]
  BY <1>2, <1>3 DEF HeartbeatInv
<1>8. \A q \in requests : q.attached => q.node # n
  BY <1>1 DEF HeartbeatInv, RequestShape
<1>9. new \in Requests /\ new.stage = "net" /\ new.age = 0 /\ new.attached /\ new.node = n
  BY ConstantTypes DEF Requests
<1> HIDE DEF new
<1>10. ASSUME NEW q \in requests PROVE RequestShape(q)'
  <2>1. RequestShape(q) /\ q.node \in Nodes
    BY DEF HeartbeatInv, RequestShape, Requests
  <2>2. QED BY <1>4, <1>7, <2>1 DEF RequestShape
<1>11. RequestShape(new)'
  BY <1>7, <1>9, ConstantTypes DEF RequestShape
<1>12. OneOwnCall'
  BY <1>4, <1>8, <1>9 DEF HeartbeatInv, OneOwnCall
<1>13. QED
  BY <1>4, <1>5, <1>6, <1>10, <1>11, <1>12 DEF HeartbeatInv

-----------------------------------------------------------------------------
\* The network loses what is not being handled.
LEMMA LoseRequestInv ==
  ASSUME HeartbeatInv, NEW r \in requests, LoseRequest(r) PROVE HeartbeatInv'
<1>1. /\ requests' \subseteq requests /\ client' = client /\ orch' = orch
      /\ UNCHANGED <<orch, registry, reaper>>
  BY DEF LoseRequest
<1>2. faults' \in 0..MaxFaults
  BY ConstantTypes DEF LoseRequest, HeartbeatInv
<1>3. /\ orch' \in {"up", "down"}
      /\ RegistryShape' /\ ReaperShape' /\ ReapedInTime'
  BY <1>1, RegistryUntouched
<1>4. \A q \in requests' : RequestShape(q)'
  BY <1>1 DEF HeartbeatInv, RequestShape
<1>5. OneOwnCall'
  BY <1>1 DEF HeartbeatInv, OneOwnCall
<1>6. \A m \in Nodes : ClientShape(client[m])'
  BY <1>1 DEF HeartbeatInv, ClientShape
<1>7. QED
  BY <1>1, <1>2, <1>3, <1>4, <1>5, <1>6 DEF HeartbeatInv

\* A request moves on: r becomes q, or is done with.
LEMMA RequestMoves ==
  ASSUME HeartbeatInv, NEW r \in requests, NEW q, NEW S \in SUBSET {q},
         requests' = (requests \ {r}) \cup S,
         q.node = r.node, q.attached = r.attached, RequestShape(q)',
         UNCHANGED <<orch, client>>
  PROVE  (\A x \in requests' : RequestShape(x)') /\ OneOwnCall'
<1>1. \A x \in requests : RequestShape(x)'
  BY DEF HeartbeatInv, RequestShape
<1>2. OneOwnCall'
  BY DEF HeartbeatInv, OneOwnCall
<1>3. QED BY <1>1, <1>2

\* A request in its next stage.
LEMMA NextStage ==
  ASSUME NEW r \in Requests, NEW g \in {"net", "lock", "ack"}
  PROVE  LET q == [r EXCEPT !.stage = g, !.age = 0]
         IN  /\ q \in Requests /\ q.stage = g /\ q.age = 0
             /\ q.node = r.node /\ q.attached = r.attached
<1> DEFINE q == [r EXCEPT !.stage = g, !.age = 0]
<1>1. 0 \in 0..(MaxHold + MaxLate)
  BY ConstantTypes
<1>2. q \in Requests
  BY <1>1 DEF Requests
<1>3. q.stage = g /\ q.age = 0 /\ q.node = r.node
  BY DEF Requests
<1>4. q.attached = r.attached
  BY Zenon DEF Requests
<1>5. QED BY <1>2, <1>3, <1>4

LEMMA ReadClockInv ==
  ASSUME HeartbeatInv, NEW r \in requests, ReadClock(r) PROVE HeartbeatInv'
<1> DEFINE q == [r EXCEPT !.stage = "lock", !.age = 0]
<1>1. RequestShape(r)
  BY DEF HeartbeatInv
<1>2. /\ q \in Requests /\ q.stage = "lock" /\ q.age = 0
      /\ q.node = r.node /\ q.attached = r.attached
  BY <1>1, NextStage DEF RequestShape
<1>3. /\ requests' = (requests \ {r}) \cup {q}
      /\ UNCHANGED <<orch, client>> /\ UNCHANGED <<orch, registry, reaper>>
      /\ faults' = faults /\ orch = "up"
  BY DEF ReadClock
<1> HIDE DEF q
<1>4. RequestShape(q)'
  BY <1>1, <1>2, <1>3, ConstantTypes DEF RequestShape
<1>5. (\A x \in requests' : RequestShape(x)') /\ OneOwnCall'
  BY <1>2, <1>3, <1>4, RequestMoves
<1>6. /\ orch' \in {"up", "down"}
      /\ RegistryShape' /\ ReaperShape' /\ ReapedInTime'
  BY <1>3, RegistryUntouched
<1>7. \A m \in Nodes : ClientShape(client[m])'
  BY <1>3 DEF HeartbeatInv, ClientShape
<1>8. QED
  BY <1>3, <1>5, <1>6, <1>7 DEF HeartbeatInv

LEMMA RegisteredAppend ==
  ASSUME NEW s \in Seq(Nodes), NEW n \in Nodes
  PROVE  {Append(s, n)[i] : i \in DOMAIN Append(s, n)}
           = {s[i] : i \in DOMAIN s} \cup {n}
<1>1. /\ Len(s) \in Nat /\ DOMAIN s = 1..Len(s)
      /\ DOMAIN Append(s, n) = 1..(Len(s) + 1)
      /\ Append(s, n)[Len(s) + 1] = n
      /\ \A i \in DOMAIN s : Append(s, n)[i] = s[i]
  OBVIOUS
<1>2. QED BY <1>1

LEMMA UpdateNodeInv ==
  ASSUME HeartbeatInv, NEW r \in requests, UpdateNode(r) PROVE HeartbeatInv'
<1> DEFINE q == [r EXCEPT !.stage = "ack", !.age = 0]
           S == IF r.attached THEN {q} ELSE {}
<1>1. /\ RequestShape(r) /\ r.node \in Nodes /\ r.stage = "lock"
      /\ r.age \in Nat /\ r.age <= MaxHold /\ orch = "up"
  BY ConstantTypes DEF HeartbeatInv, RequestShape, Requests, UpdateNode
<1>2. /\ q \in Requests /\ q.stage = "ack" /\ q.age = 0
      /\ q.node = r.node /\ q.attached = r.attached
  BY <1>1, NextStage DEF RequestShape
<1>3. /\ requests' = (requests \ {r}) \cup S
      /\ UNCHANGED <<orch, client>>
      /\ faults' = faults /\ reaper' = reaper
  BY DEF UpdateNode
<1>4. S \in SUBSET {q} /\ (S # {} => r.attached)
  OBVIOUS
<1> HIDE DEF q, S
<1>5. r.attached => RequestShape(q)'
  BY <1>1, <1>2, <1>3, ConstantTypes DEF RequestShape
<1>6. (\A x \in requests' : RequestShape(x)') /\ OneOwnCall'
  <2>1. CASE r.attached
    BY <1>2, <1>3, <1>4, <1>5, <2>1, RequestMoves
  <2>2. CASE ~r.attached
    BY <1>3, <1>4, <2>2 DEF HeartbeatInv, RequestShape, OneOwnCall
  <2>3. QED BY <2>1, <2>2
<1>7. RegistryShape'
  <2>1. /\ order' = IF r.node \in Registered THEN order ELSE Append(order, r.node)
        /\ status' = [status EXCEPT ![r.node] = "available"]
        /\ age' = [age EXCEPT ![r.node] = r.age]
        /\ RegistryShape
    BY DEF UpdateNode, HeartbeatInv
  <2>2. order' \in Seq(Nodes)
    BY <1>1, <2>1 DEF RegistryShape
  <2>3. Registered' = Registered \cup {r.node}
    <3>1. CASE r.node \in Registered
      BY <2>1, <3>1 DEF Registered
    <3>2. CASE r.node \notin Registered
      <4>1. order' = Append(order, r.node) /\ order \in Seq(Nodes)
        BY <2>1, <3>2 DEF RegistryShape
      <4>2. QED BY <1>1, <4>1, RegisteredAppend DEF Registered
    <3>3. QED BY <3>1, <3>2
  <2>4. status' \in [Nodes -> {"unknown", "available", "unavailable"}]
    BY <1>1, <2>1 DEF RegistryShape
  <2>5. age' \in [Nodes -> 0..MaxAge]
    BY <1>1, <2>1, ConstantTypes DEF RegistryShape
  <2>6. \A n \in Nodes : (n \in Registered <=> status[n] # "unknown")'
    BY <1>1, <2>1, <2>3 DEF RegistryShape
  <2>7. QED
    BY <1>1, <1>3, <2>2, <2>4, <2>5, <2>6 DEF RegistryShape
<1>8. ReaperShape'
  BY <1>3 DEF HeartbeatInv, ReaperShape
<1>9. ReapedInTime'
  <2> SUFFICES ASSUME NEW n \in Nodes, status'[n] = "available"
               PROVE  (age[n] <= timeout_s + MaxHold + reaper.timer
                + (IF reaper.pc = "wait" THEN 0 ELSE ReaperInterval))'
    BY DEF ReapedInTime
  <2>1. reaper.timer \in Nat
    BY DEF HeartbeatInv, ReaperShape
  <2>2. CASE n = r.node
    <3>1. age'[n] = r.age
      BY <1>1, <2>2 DEF UpdateNode, HeartbeatInv, RegistryShape
    <3>2. QED BY <1>1, <1>3, <2>1, <3>1, ConstantTypes
  <2>3. CASE n # r.node
    <3>1. age'[n] = age[n] /\ status'[n] = status[n]
      BY <1>1, <2>3 DEF UpdateNode, HeartbeatInv, RegistryShape
    <3>2. QED BY <1>3, <3>1 DEF HeartbeatInv, ReapedInTime
  <2>4. QED BY <2>2, <2>3
<1>10. \A m \in Nodes : ClientShape(client[m])'
  BY <1>3 DEF HeartbeatInv, ClientShape
<1>11. QED
  BY <1>3, <1>6, <1>7, <1>8, <1>9, <1>10 DEF HeartbeatInv

-----------------------------------------------------------------------------
\* What the invariant says of clients and calls holds on while nobody
\* touches them.
LEMMA CallsUntouched ==
  ASSUME HeartbeatInv, UNCHANGED <<orch, client, requests>>
  PROVE  /\ orch' \in {"up", "down"}
         /\ client' \in [Nodes -> Clients]
         /\ \A n \in Nodes : ClientShape(client[n])'
         /\ \A r \in requests' : RequestShape(r)'
         /\ OneOwnCall'
<1>1. \A n \in Nodes : ClientShape(client[n])'
  BY DEF HeartbeatInv, ClientShape
<1>2. \A r \in requests' : RequestShape(r)'
  BY DEF HeartbeatInv, RequestShape
<1>3. OneOwnCall'
  BY DEF HeartbeatInv, OneOwnCall
<1>4. QED BY <1>1, <1>2, <1>3 DEF HeartbeatInv

LEMMA ReaperReadClockInv ==
  ASSUME HeartbeatInv, ReaperReadClock PROVE HeartbeatInv'
<1>1. /\ UNCHANGED <<orch, client, requests>> /\ faults' = faults
      /\ orch' = orch /\ order' = order /\ status' = status /\ age' = age
      /\ reaper' = [pc |-> "lock", timer |-> 0]
      /\ reaper.pc = "wait" /\ reaper.timer = ReaperInterval
  BY DEF ReaperReadClock, registry
<1>2. RegistryShape'
  BY <1>1 DEF HeartbeatInv, RegistryShape, Registered
<1>3. ReaperShape' /\ reaper'.pc = "lock" /\ reaper'.timer = 0
  BY <1>1, ConstantTypes DEF ReaperShape
<1>4. ReapedInTime'
  <2> SUFFICES ASSUME NEW n \in Nodes, status[n] = "available"
               PROVE  age[n] <= timeout_s + MaxHold + 0 + ReaperInterval
    BY <1>1, <1>3 DEF ReapedInTime
  <2>1. age[n] <= timeout_s + MaxHold + ReaperInterval + 0
    BY <1>1 DEF HeartbeatInv, ReapedInTime
  <2>2. age[n] \in Nat
    BY ConstantTypes DEF HeartbeatInv, RegistryShape
  <2>3. QED BY <2>1, <2>2, ConstantTypes
<1>5. QED
  BY <1>1, <1>2, <1>3, <1>4, CallsUntouched DEF HeartbeatInv

LEMMA ReapStaleNodesInv ==
  ASSUME HeartbeatInv, ReapStaleNodes PROVE HeartbeatInv'
<1>1. /\ UNCHANGED <<orch, client, requests>> /\ faults' = faults
      /\ orch' = orch /\ order' = order /\ age' = age
      /\ reaper' = Waiting /\ reaper.pc = "lock"
      /\ status' = [n \in Nodes |-> IF Silent(n) THEN "unavailable" ELSE status[n]]
  BY DEF ReapStaleNodes
<1>2. RegistryShape'
  <2>1. RegistryShape
    BY DEF HeartbeatInv
  <2>2. \A n \in Nodes : status'[n] # "unknown" <=> status[n] # "unknown"
    BY <1>1 DEF Silent
  <2>3. status' \in [Nodes -> {"unknown", "available", "unavailable"}]
    BY <1>1, <2>1 DEF RegistryShape
  <2>4. Registered' = Registered
    BY <1>1 DEF Registered
  <2>5. QED
    BY <1>1, <2>1, <2>2, <2>3, <2>4 DEF RegistryShape
<1>3. ReaperShape' /\ reaper'.pc = "wait" /\ reaper'.timer = 0
  BY <1>1, ConstantTypes DEF ReaperShape, Waiting
<1>4. ReapedInTime'
  <2> SUFFICES ASSUME NEW n \in Nodes, status'[n] = "available"
               PROVE  age[n] <= timeout_s + MaxHold + 0 + 0
    BY <1>1, <1>3 DEF ReapedInTime
  <2>1. status[n] = "available" /\ ~(age[n] > timeout_s + reaper.timer)
    BY <1>1 DEF Silent
  <2>2. age[n] \in Nat
    BY ConstantTypes DEF HeartbeatInv, RegistryShape
  <2>3. reaper.timer \in Nat /\ reaper.timer <= MaxHold
    BY <1>1 DEF HeartbeatInv, ReaperShape
  <2>4. QED BY <2>1, <2>2, <2>3, ConstantTypes
<1>5. QED
  BY <1>1, <1>2, <1>3, <1>4, CallsUntouched DEF HeartbeatInv

LEMMA StopOrchestratorInv ==
  ASSUME HeartbeatInv, StopOrchestrator PROVE HeartbeatInv'
<1>1. /\ orch' = "down" /\ order' = <<>> /\ requests' = {}
      /\ status' = [n \in Nodes |-> "unknown"] /\ age' = [n \in Nodes |-> 0]
      /\ reaper' = Waiting /\ client' = client /\ faults' = faults
  BY DEF StopOrchestrator
<1>2. RegistryShape'
  BY <1>1, ConstantTypes DEF RegistryShape, Registered
<1>3. ReaperShape'
  BY <1>1, ConstantTypes DEF ReaperShape, Waiting
<1>4. ReapedInTime'
  BY <1>1 DEF ReapedInTime
<1>5. \A n \in Nodes : ClientShape(client[n])'
  BY <1>1 DEF HeartbeatInv, ClientShape
<1>6. QED
  BY <1>1, <1>2, <1>3, <1>4, <1>5 DEF HeartbeatInv, OneOwnCall

LEMMA StartOrchestratorInv ==
  ASSUME HeartbeatInv, StartOrchestrator PROVE HeartbeatInv'
<1>1. /\ orch = "down" /\ orch' = "up" /\ reaper' = FirstCycle
      /\ order' = order /\ status' = status /\ age' = age
      /\ client' = client /\ requests' = requests /\ faults' = faults
  BY DEF StartOrchestrator, registry
<1>2. RegistryShape'
  BY <1>1 DEF HeartbeatInv, RegistryShape, Registered
<1>3. ReaperShape'
  BY <1>1, ConstantTypes DEF ReaperShape, FirstCycle, Waiting
<1>4. ReapedInTime'
  <2>1. \A n \in Nodes : status[n] = "unknown"
    BY <1>1 DEF HeartbeatInv, RegistryShape, Registered
  <2>2. QED BY <1>1, <2>1 DEF ReapedInTime
<1>5. \A n \in Nodes : ClientShape(client[n])'
  BY <1>1 DEF HeartbeatInv, ClientShape
<1>6. \A r \in requests' : RequestShape(r)'
  BY <1>1 DEF HeartbeatInv, RequestShape
<1>7. QED
  BY <1>1, <1>2, <1>3, <1>4, <1>5, <1>6 DEF HeartbeatInv, OneOwnCall

\* What the passage of time does to a request.
LEMMA AgedRequest ==
  ASSUME HeartbeatInv, NEW r \in requests, ~Overdue(r)
  PROVE  /\ Aged(r) \in Requests
         /\ Aged(r).node = r.node /\ Aged(r).stage = r.stage
         /\ Aged(r).attached = r.attached
         /\ Aged(r).age = IF r.stage = "lock" \/ (r.stage = "net" /\ ~r.attached)
                          THEN r.age + 1 ELSE r.age
         /\ r.stage = "lock" => Aged(r).age <= MaxHold
         /\ r.stage = "net" => Aged(r).age <= MaxLate
<1>1. RequestShape(r) /\ r \in Requests /\ r.age \in 0..(MaxHold + MaxLate)
  BY DEF HeartbeatInv, RequestShape, Requests
<1> DEFINE q == [r EXCEPT !.age = r.age + 1]
<1>2. CASE r.stage = "lock" \/ (r.stage = "net" /\ ~r.attached)
  <2>1. r.age + 1 \in 0..(MaxHold + MaxLate)
        /\ (r.stage = "lock" => r.age + 1 <= MaxHold)
        /\ (r.stage = "net" => r.age + 1 <= MaxLate)
    BY <1>1, <1>2, ConstantTypes DEF Overdue, RequestShape
  <2>2. Aged(r) = q
    BY <1>2 DEF Aged
  <2>3. q \in Requests /\ q.node = r.node /\ q.stage = r.stage /\ q.age = r.age + 1
    BY <1>1, <2>1 DEF Requests
  <2>4. q.attached = r.attached
    BY <1>1, Zenon DEF Requests
  <2>5. QED BY <1>2, <2>1, <2>2, <2>3, <2>4
<1>3. CASE ~(r.stage = "lock" \/ (r.stage = "net" /\ ~r.attached))
  <2>1. Aged(r) = r
    BY <1>3 DEF Aged
  <2>2. QED BY <1>1, <1>3, <2>1 DEF RequestShape
<1>4. QED BY <1>2, <1>3

\* What it does to a client.
LEMMA AgedClient ==
  ASSUME HeartbeatInv, NEW n \in Nodes, ~AtDeadline(n), Tick
  PROVE  /\ ClientShape(client'[n]) /\ client'[n].pc = client[n].pc
         /\ client'[n].clean = client[n].clean
         /\ client'[n].timer = IF client[n].pc \in {"call", "sleep"}
                               THEN client[n].timer + 1 ELSE client[n].timer
<1> DEFINE c == [client[n] EXCEPT !.timer = client[n].timer + 1]
<1>1. /\ ClientShape(client[n]) /\ client[n] \in Clients
      /\ client[n].interval \in Nat /\ client[n].timer \in Nat
  BY ConstantTypes DEF HeartbeatInv, ClientShape, Clients
<1>2. CASE client[n].pc \in {"call", "sleep"}
  <2>1. client'[n] = c
    BY <1>2 DEF Tick
  <2>2. client[n].timer # client[n].interval
    BY <1>2 DEF AtDeadline, SendDue
  <2>3. client[n].timer + 1 <= client[n].interval
    BY <1>1, <2>2 DEF ClientShape
  <2>4. /\ c \in Clients /\ c.pc = client[n].pc /\ c.interval = client[n].interval
        /\ c.timer = client[n].timer + 1 /\ c.clean = client[n].clean
    BY <1>1 DEF Clients
  <2> HIDE DEF c
  <2>5. QED BY <1>1, <1>2, <2>1, <2>3, <2>4 DEF ClientShape
<1>3. CASE client[n].pc \notin {"call", "sleep"}
  BY <1>1, <1>3 DEF Tick
<1>4. QED BY <1>2, <1>3

LEMMA TickInv ==
  ASSUME HeartbeatInv, Tick PROVE HeartbeatInv'
<1>1. /\ orch' = orch /\ order' = order /\ status' = status /\ faults' = faults
      /\ requests' = {Aged(r) : r \in requests}
      /\ \A r \in requests : ~Overdue(r)
      /\ \A n \in Nodes : ~AtDeadline(n)
      /\ Registered' = Registered
  BY DEF Tick, Registered
<1>2. \A n \in Nodes : age'[n] \in 0..MaxAge /\ age'[n] <= age[n] + 1
                       /\ (n \notin Registered => age'[n] = age[n])
  <2> TAKE n \in Nodes
  <2>1. age[n] \in 0..MaxAge
    BY DEF HeartbeatInv, RegistryShape
  <2>2. age'[n] = IF n \in Registered /\ age[n] < MaxAge THEN age[n] + 1 ELSE age[n]
    BY DEF Tick
  <2>3. QED BY <2>1, <2>2, ConstantTypes
<1>3. RegistryShape'
  <2>1. age' \in [Nodes -> 0..MaxAge]
    BY <1>2 DEF Tick
  <2>2. QED BY <1>1, <2>1 DEF HeartbeatInv, RegistryShape
<1>4. ReaperShape' /\ (orch = "up" => /\ reaper'.timer = reaper.timer + 1
                                      /\ reaper'.pc = reaper.pc)
                   /\ reaper.timer \in Nat
  <2>1. ReaperShape /\ reaper.timer \in Nat
    BY DEF HeartbeatInv, ReaperShape
  <2>2. CASE orch = "up"
    <3>1. reaper' = [reaper EXCEPT !.timer = reaper.timer + 1]
      BY <2>2 DEF Tick
    <3>2. reaper' \in [pc : {"wait", "lock"}, timer : Nat]
          /\ reaper'.timer = reaper.timer + 1 /\ reaper'.pc = reaper.pc
      BY <2>1, <3>1 DEF ReaperShape
    <3>3. reaper.timer < IF reaper.pc = "wait" THEN ReaperInterval ELSE MaxHold
      BY <2>2 DEF Tick
    <3>4. QED BY <2>1, <3>2, <3>3, ConstantTypes DEF ReaperShape
  <2>3. CASE orch # "up"
    BY <2>1, <2>3 DEF Tick, ReaperShape
  <2>4. QED BY <2>2, <2>3
<1>5. ReapedInTime'
  <2> SUFFICES ASSUME NEW n \in Nodes, status'[n] = "available"
               PROVE  (age[n] <= timeout_s + MaxHold + reaper.timer
                + (IF reaper.pc = "wait" THEN 0 ELSE ReaperInterval))'
    BY DEF ReapedInTime
  <2>1. status[n] = "available" /\ n \in Registered
    BY <1>1 DEF HeartbeatInv, RegistryShape
  <2>2. orch = "up"
    BY <2>1 DEF HeartbeatInv, RegistryShape, Registered
  <2>3. age[n] <= timeout_s + MaxHold + reaper.timer
                + (IF reaper.pc = "wait" THEN 0 ELSE ReaperInterval)
    BY <2>1 DEF HeartbeatInv, ReapedInTime
  <2>4. age[n] \in Nat /\ age'[n] \in Nat /\ age'[n] <= age[n] + 1
    BY <1>2, ConstantTypes DEF HeartbeatInv, RegistryShape
  <2>5. QED BY <1>4, <2>2, <2>3, <2>4, ConstantTypes
<1>6. client' \in [Nodes -> Clients] /\ \A n \in Nodes : ClientShape(client[n])'
                                     /\ client'[n].pc = client[n].pc
  <2>1. \A n \in Nodes : ClientShape(client'[n]) /\ client'[n].pc = client[n].pc
    BY <1>1, AgedClient
  <2>2. client' = [n \in Nodes |-> client'[n]]
    BY DEF Tick
  <2>3. client' \in [Nodes -> Clients]
    BY <2>1, <2>2 DEF ClientShape
  <2>4. QED BY <2>1, <2>3 DEF ClientShape
<1>7. ASSUME NEW q \in requests' PROVE RequestShape(q)'
  <2>1. PICK r \in requests : q = Aged(r)
    BY <1>1
  <2>2. RequestShape(r) /\ r.node \in Nodes /\ ~Overdue(r)
    BY <1>1 DEF HeartbeatInv, RequestShape, Requests
  <2>3. /\ q \in Requests /\ q.node = r.node /\ q.stage = r.stage
        /\ q.attached = r.attached
        /\ r.stage = "lock" => q.age <= MaxHold
        /\ r.stage = "net" => q.age <= MaxLate
    BY <2>1, <2>2, AgedRequest
  <2>4. QED BY <1>1, <1>6, <2>2, <2>3 DEF RequestShape
<1>8. OneOwnCall'
  <2> SUFFICES ASSUME NEW q1 \in requests', NEW q2 \in requests',
                      q1.attached, q2.attached, q1.node = q2.node
               PROVE  q1 = q2
    BY DEF OneOwnCall
  <2>1. PICK r1 \in requests : q1 = Aged(r1)
    BY <1>1
  <2>2. PICK r2 \in requests : q2 = Aged(r2)
    BY <1>1
  <2>3. r1.attached /\ r2.attached /\ r1.node = r2.node
    BY <1>1, <2>1, <2>2, AgedRequest
  <2>4. QED BY <2>1, <2>2, <2>3 DEF HeartbeatInv, OneOwnCall
<1>9. QED
  BY <1>1, <1>3, <1>4, <1>5, <1>6, <1>7, <1>8 DEF HeartbeatInv

-----------------------------------------------------------------------------
LEMMA StutterInv == ASSUME HeartbeatInv, UNCHANGED vars PROVE HeartbeatInv'
<1>1. /\ UNCHANGED <<orch, registry, reaper>> /\ faults' = faults
      /\ UNCHANGED <<orch, client, requests>>
  BY DEF vars
<1>2. QED
  BY <1>1, RegistryUntouched, CallsUntouched DEF HeartbeatInv

\* Every step keeps the invariant.
LEMMA StepInv == ASSUME HeartbeatInv, [Next]_vars PROVE HeartbeatInv'
<1>1. ASSUME NEW n \in Nodes,
             StartWorker(n) \/ StopWorker(n) \/ CrashWorker(n) \/ ClientStep(n)
      PROVE  HeartbeatInv'
  BY <1>1, StartWorkerInv, StopWorkerInv, CrashWorkerInv, SendHeartbeatInv,
     HeartbeatAnsweredInv, HeartbeatFailedInv DEF ClientStep
<1>2. ASSUME NEW n \in Nodes, ServerStep(n) PROVE HeartbeatInv'
  BY <1>2, ReadClockInv, UpdateNodeInv DEF ServerStep
<1>3. ASSUME NEW r \in requests, LoseRequest(r) PROVE HeartbeatInv'
  BY <1>3, LoseRequestInv
<1>4. CASE ReaperStep
  BY <1>4, ReaperReadClockInv, ReapStaleNodesInv DEF ReaperStep
<1>5. CASE UNCHANGED vars
  BY <1>5, StutterInv
<1>6. QED
  BY <1>1, <1>2, <1>3, <1>4, <1>5, StopOrchestratorInv, StartOrchestratorInv,
     TickInv DEF Next

\* The invariant holds in every reachable state: what the heartbeat clients,
\* the calls under way, the registry and the reaper are like at any moment.
THEOREM HeartbeatInvariant == Spec => []HeartbeatInv
<1>1. HeartbeatInv /\ [Next]_vars => HeartbeatInv'
  BY StepInv
<1>2. QED
  BY InitInv, <1>1, PTL DEF Spec

\* The types of the heartbeat model, with at most one call of its own per
\* client, for any number of workers, intervals and delays.
THEOREM HeartbeatTypes == Spec => []TypeOK
<1>1. HeartbeatInv => TypeOK
  <2> SUFFICES ASSUME HeartbeatInv PROVE TypeOK
    OBVIOUS
  <2>1. Registered \subseteq Nodes
    BY DEF HeartbeatInv, RegistryShape, Registered
  <2>2. reaper \in [pc : {"wait", "lock"}, timer : 0..(ReaperInterval + MaxHold)]
    <3>1. ReaperShape
      BY DEF HeartbeatInv
    <3>2. reaper.timer \in 0..(ReaperInterval + MaxHold)
      BY <3>1, ConstantTypes DEF ReaperShape
    <3>3. QED BY <3>1, <3>2 DEF ReaperShape
  <2>3. requests \subseteq Requests
    BY DEF HeartbeatInv, RequestShape
  <2>4. ASSUME NEW n \in Nodes
        PROVE  Cardinality(OwnCall(n)) \in (IF client[n].pc = "call" THEN {0, 1} ELSE {0})
    <3>1. CASE OwnCall(n) = {}
      BY <3>1, FS_EmptySet
    <3>2. CASE OwnCall(n) # {}
      <4>1. PICK r : r \in OwnCall(n)
        BY <3>2
      <4>2. client[n].pc = "call"
        BY <4>1 DEF OwnCall, HeartbeatInv, RequestShape
      <4>3. OwnCall(n) = {r}
        BY <4>1 DEF OwnCall, HeartbeatInv, OneOwnCall
      <4>4. Cardinality({r}) = 1
        BY FS_Singleton
      <4>5. QED BY <4>2, <4>3, <4>4
    <3>3. QED BY <3>1, <3>2
  <2>5. \A n \in Nodes : client[n].timer <= client[n].interval
    BY DEF HeartbeatInv, ClientShape
  <2>6. QED
    BY <2>1, <2>2, <2>3, <2>4, <2>5 DEF HeartbeatInv, RegistryShape, TypeOK
<1>2. QED
  BY <1>1, HeartbeatInvariant, PTL

\* The registry offers plan_dispatch only nodes heard from within the
\* timeout, one reaper cycle and two waits for the lock, whatever is lost,
\* delayed or restarted.
THEOREM AvailableNodesAreRecent == Spec => []AvailableIsRecent
<1>1. HeartbeatInv => AvailableIsRecent
  <2> SUFFICES ASSUME HeartbeatInv, NEW n \in Nodes, status[n] = "available"
               PROVE  age[n] <= timeout_s + ReaperInterval + 2 * MaxHold
    BY DEF AvailableIsRecent
  <2>1. age[n] <= timeout_s + MaxHold + reaper.timer
                + (IF reaper.pc = "wait" THEN 0 ELSE ReaperInterval)
    BY DEF HeartbeatInv, ReapedInTime
  <2>2. /\ reaper.timer \in Nat /\ age[n] \in Nat
        /\ reaper.timer <= IF reaper.pc = "wait" THEN ReaperInterval ELSE MaxHold
    BY ConstantTypes DEF HeartbeatInv, ReaperShape, RegistryShape
  <2>3. QED BY <2>1, <2>2, ConstantTypes
<1>2. QED
  BY <1>1, HeartbeatInvariant, PTL

-----------------------------------------------------------------------------
(***************************************************************************)
(* The timed registry implements the untimed one.                          *)
(***************************************************************************)

\* update_node is the untimed heartbeat of the request's node.
LEMMA UpdateIsHeartbeat ==
  ASSUME HeartbeatInv, NEW r \in requests, UpdateNode(r)
  PROVE  \E n \in Nodes : Untimed!UpdateNode(n)
<1>1. r.node \in Nodes
  BY DEF HeartbeatInv, RequestShape, Requests
<1>2. /\ order' = IF r.node \in Registered THEN order ELSE Append(order, r.node)
      /\ status' = [status EXCEPT ![r.node] = "available"]
  BY DEF UpdateNode
<1>3. Untimed!Registered = Registered
  BY DEF Untimed!Registered, Registered
<1>4. Untimed!UpdateNode(r.node)
  BY <1>2, <1>3 DEF Untimed!UpdateNode
<1>5. QED BY <1>1, <1>4

\* reap_stale_nodes is the untimed reap of the silent nodes, or does nothing.
LEMMA ReapIsReap ==
  ASSUME HeartbeatInv, ReapStaleNodes
  PROVE  \/ \E S \in SUBSET Nodes : Untimed!ReapStaleNodes(S)
         \/ UNCHANGED <<order, status>>
<1> DEFINE S == {n \in Nodes : Silent(n)}
<1>1. /\ order' = order
      /\ status' = [n \in Nodes |-> IF n \in S THEN "unavailable" ELSE status[n]]
  BY DEF ReapStaleNodes
<1>2. CASE S = {}
  BY <1>1, <1>2 DEF HeartbeatInv, RegistryShape
<1>3. CASE S # {}
  <2>1. S \subseteq Untimed!AvailableNodes
    BY DEF Untimed!AvailableNodes, Untimed!Registered, Registered, Silent,
           HeartbeatInv, RegistryShape
  <2> HIDE DEF S
  <2>2. Untimed!ReapStaleNodes(S)
    BY <1>1, <1>3, <2>1 DEF Untimed!ReapStaleNodes
  <2>3. S \in SUBSET Nodes
    BY DEF S
  <2>4. QED BY <2>2, <2>3
<1>4. QED BY <1>2, <1>3

\* Every step of the timed model is a heartbeat or a reap of NodeRegistry,
\* the loss of the registry with its process, or leaves the registry alone.
LEMMA StepIsUntimed ==
  ASSUME HeartbeatInv, [Next]_vars
  PROVE  [Untimed!Next \/ StopOrchestrator]_<<order, status>>
<1>1. ASSUME NEW n \in Nodes,
             StartWorker(n) \/ StopWorker(n) \/ CrashWorker(n) \/ ClientStep(n)
      PROVE  UNCHANGED <<order, status>>
  BY <1>1 DEF StartWorker, StopWorker, CrashWorker, ClientStep, SendHeartbeat,
              HeartbeatAnswered, HeartbeatFailed, registry
<1>2. ASSUME NEW n \in Nodes, ServerStep(n)
      PROVE  Untimed!Next \/ UNCHANGED <<order, status>>
  <2>1. PICK r \in requests : ReadClock(r) \/ UpdateNode(r)
    BY <1>2 DEF ServerStep
  <2>2. CASE ReadClock(r)
    BY <2>2 DEF ReadClock, registry
  <2>3. CASE UpdateNode(r)
    BY <2>3, UpdateIsHeartbeat DEF Untimed!Next
  <2>4. QED BY <2>1, <2>2, <2>3
<1>3. ASSUME NEW r \in requests, LoseRequest(r) PROVE UNCHANGED <<order, status>>
  BY <1>3 DEF LoseRequest, registry
<1>4. CASE ReaperStep
  <2>1. CASE ReaperReadClock
    BY <2>1 DEF ReaperReadClock, registry
  <2>2. CASE ReapStaleNodes
    BY <2>2, ReapIsReap DEF Untimed!Next
  <2>3. QED BY <1>4, <2>1, <2>2 DEF ReaperStep
<1>5. CASE StartOrchestrator \/ Tick \/ UNCHANGED vars
  BY <1>5 DEF StartOrchestrator, Tick, vars, registry
<1>6. QED
  BY <1>1, <1>2, <1>3, <1>4, <1>5 DEF Next

\* The timed registry, with its delayed handlers and its reaper thread,
\* implements NodeRegistry: time decides only when a node is reaped, never
\* what a reap or a heartbeat may do.
THEOREM TimedRefinesUntimed == Spec => RegistryIsUntimed
<1>1. Init => Untimed!Init
  BY DEF Init, Untimed!Init
<1>2. HeartbeatInv /\ [Next]_vars
        => [Untimed!Next \/ StopOrchestrator]_<<order, status>>
  BY StepIsUntimed
<1>3. QED
  BY <1>1, <1>2, HeartbeatInvariant, PTL DEF Spec, RegistryIsUntimed

-----------------------------------------------------------------------------
(***************************************************************************)
(* A worker whose heartbeats are answered is not reaped.                   *)
(***************************************************************************)
LEMMA ElapsedValues ==
  ASSUME NEW c \in Clients
  PROVE  LET w == c.timer + (IF c.pc = "call" THEN Interval ELSE 0)
         IN  /\ w \in Nat /\ Elapsed(c) \in Nat
             /\ c.clean = 0 => Elapsed(c) = 0
             /\ c.clean = 1 => Elapsed(c) = w
             /\ c.clean = 2 => Elapsed(c) = Interval + w
             /\ c.clean = 3 => Elapsed(c) = 2 * Interval + w
<1> DEFINE w == c.timer + (IF c.pc = "call" THEN Interval ELSE 0)
<1>1. w \in Nat /\ c.timer \in Nat /\ c.clean \in 0..3
  BY ConstantTypes DEF Clients
<1>2. c.clean = 0 => Elapsed(c) = 0
  BY DEF Elapsed
<1>3. c.clean = 1 => Elapsed(c) = w
  BY <1>1, ConstantTypes DEF Elapsed
<1>4. c.clean = 2 => Elapsed(c) = Interval + w
  BY <1>1, ConstantTypes DEF Elapsed
<1>5. c.clean = 3 => Elapsed(c) = 2 * Interval + w
  BY <1>1, ConstantTypes DEF Elapsed
<1>6. Elapsed(c) \in Nat
  BY <1>1, <1>2, <1>3, <1>4, <1>5, ConstantTypes
<1>7. QED BY <1>1, <1>2, <1>3, <1>4, <1>5, <1>6

\* The initial state: no calls, no answers.
LEMMA InitTiming == Init => TimingInv
BY DEF Init, TimingInv, FreshAnswer, Off

\* One client moves, with its own calls; the others keep theirs.
LEMMA ClientTiming ==
  ASSUME HeartbeatInv, TimingInv, NEW n \in Nodes, NEW c,
         client' = [client EXCEPT ![n] = c], age' = age,
         \A q \in requests' : q.node # n => q \in requests,
         \A q \in requests' : q.node = n => StaleCall(c, q),
         CallsEndSoon =>
           /\ FreshAnswer(c, age[n])
           /\ \A q \in requests' : q.node = n => FreshCall(c, age[n], q)
  PROVE  TimingInv'
<1>1. \A m \in Nodes : client'[m] = IF m = n THEN c ELSE client[m]
  BY DEF HeartbeatInv
<1>2. \A q \in requests : q.node \in Nodes
  BY DEF HeartbeatInv, RequestShape, Requests
<1>3. ASSUME NEW q \in requests' PROVE StaleCall(client'[q.node], q)
  BY <1>1, <1>2 DEF TimingInv
<1>4. ASSUME NEW q \in requests', CallsEndSoon
      PROVE  FreshCall(client'[q.node], age'[q.node], q)
  BY <1>1, <1>2, <1>4 DEF TimingInv
<1>5. ASSUME NEW m \in Nodes, CallsEndSoon PROVE FreshAnswer(client'[m], age'[m])
  BY <1>1, <1>5 DEF TimingInv
<1>6. (\A r \in requests : StaleCall(client[r.node], r))'
  BY <1>3 DEF StaleCall, Elapsed
<1>7. CallsEndSoon => (\A r \in requests : FreshCall(client[r.node], age[r.node], r))'
  BY <1>4 DEF FreshCall
<1>8. CallsEndSoon => (\A m \in Nodes : FreshAnswer(client[m], age[m]))'
  BY <1>5 DEF FreshAnswer
<1>9. QED BY <1>6, <1>7, <1>8 DEF TimingInv, CallsEndSoon

\* A client without answers since its last failure, outside a call.
LEMMA FreshStart ==
  ASSUME HeartbeatInv, TimingInv, NEW n \in Nodes, NEW c, c \in Clients,
         c.clean = 0, client' = [client EXCEPT ![n] = c], age' = age,
         \A q \in requests' : q.node # n => q \in requests,
         \A q \in requests' : q.node = n => ~q.attached /\ q.age \in Nat
  PROVE  TimingInv'
<1>1. Elapsed(c) = 0
  BY DEF Elapsed
<1>2. \A q \in requests' : q.node = n => StaleCall(c, q)
  BY <1>1, ConstantTypes DEF StaleCall
<1>3. FreshAnswer(c, age[n])
  BY DEF FreshAnswer
<1>4. \A q \in requests' : q.node = n => FreshCall(c, age[n], q)
  BY DEF FreshCall
<1>5. QED BY <1>2, <1>3, <1>4, ClientTiming

\* The calls of a client that has just left or not entered one.
LEMMA NotCalling ==
  ASSUME HeartbeatInv, NEW n \in Nodes, client[n].pc # "call",
         NEW q \in requests, q.node = n
  PROVE  ~q.attached /\ q.age \in Nat
BY ConstantTypes DEF HeartbeatInv, RequestShape, Requests

LEMMA GivenUp ==
  ASSUME HeartbeatInv, NEW n \in Nodes, NEW q \in Abandoned(n)
  PROVE  /\ q.node # n => q \in requests
         /\ q.node = n => ~q.attached /\ q.age \in Nat
<1>1. PICK r \in requests :
           \/ q = r /\ ~(r.node = n /\ r.attached)
           \/ /\ r.node = n /\ r.attached /\ r.stage # "ack"
              /\ q = [r EXCEPT !.attached = FALSE]
  BY AbandonedCalls
<1>2. r \in Requests /\ r.age \in Nat
  BY ConstantTypes DEF HeartbeatInv, RequestShape, Requests
<1>3. QED BY <1>1, <1>2 DEF Requests

LEMMA StartWorkerTiming ==
  ASSUME HeartbeatInv, TimingInv, NEW n \in Nodes, StartWorker(n) PROVE TimingInv'
<1>1. Started \in Clients /\ Started.clean = 0
  BY OffShape DEF Started, Clients, ClientShape
<1>2. /\ client' = [client EXCEPT ![n] = Started] /\ age' = age
      /\ requests' = requests /\ client[n].pc # "call"
  BY DEF StartWorker, registry
<1>3. \A q \in requests : q.node = n => ~q.attached /\ q.age \in Nat
  BY <1>2, NotCalling
<1>4. QED BY <1>1, <1>2, <1>3, FreshStart

LEMMA StopWorkerTiming ==
  ASSUME HeartbeatInv, TimingInv, NEW n \in Nodes, StopWorker(n) PROVE TimingInv'
<1>1. /\ client' = [client EXCEPT ![n] = Stopped(client[n])] /\ age' = age
      /\ requests' = requests
  BY DEF StopWorker, registry, HeartbeatInv
<1>2. CASE client[n].pc # "call"
  <2>1. Stopped(client[n]) = Off
    BY <1>2 DEF Stopped
  <2>2. \A q \in requests : q.node = n => ~q.attached /\ q.age \in Nat
    BY <1>2, NotCalling
  <2>3. Off \in Clients /\ Off.clean = 0
    BY OffShape DEF ClientShape
  <2>4. QED BY <1>1, <2>1, <2>2, <2>3, FreshStart
<1>3. CASE client[n].pc = "call"
  <2> DEFINE c == [client[n] EXCEPT !.stop = TRUE]
  <2>1. Stopped(client[n]) = c
    BY <1>3 DEF Stopped
  <2>2. /\ c.pc = client[n].pc /\ c.timer = client[n].timer
        /\ c.clean = client[n].clean
    BY DEF HeartbeatInv, Clients
  <2> HIDE DEF c
  <2>3. \A q \in requests : q.node = n => StaleCall(c, q)
    BY <2>2 DEF TimingInv, StaleCall, Elapsed
  <2>4. CallsEndSoon => /\ FreshAnswer(c, age[n])
                        /\ \A q \in requests : q.node = n => FreshCall(c, age[n], q)
    BY <2>2 DEF TimingInv, FreshAnswer, FreshCall
  <2>5. QED BY <1>1, <2>1, <2>3, <2>4, ClientTiming
<1>4. QED BY <1>2, <1>3

LEMMA CrashWorkerTiming ==
  ASSUME HeartbeatInv, TimingInv, NEW n \in Nodes, CrashWorker(n) PROVE TimingInv'
<1>1. /\ client' = [client EXCEPT ![n] = Off] /\ age' = age
      /\ requests' = Abandoned(n)
  BY DEF CrashWorker, registry
<1>2. Off \in Clients /\ Off.clean = 0
  BY OffShape DEF ClientShape
<1>3. QED BY <1>1, <1>2, GivenUp, FreshStart

LEMMA HeartbeatFailedTiming ==
  ASSUME HeartbeatInv, TimingInv, NEW n \in Nodes, HeartbeatFailed(n)
  PROVE  TimingInv'
<1> DEFINE c == [client[n] EXCEPT !.clean = 0]
<1>1. /\ client' = [client EXCEPT ![n] = AfterCall(c)] /\ age' = age
      /\ requests' = Abandoned(n)
  BY DEF HeartbeatFailed, registry, HeartbeatInv
<1>2. c \in Clients /\ c.clean = 0
  BY DEF HeartbeatInv, Clients
<1> HIDE DEF c
<1>3. AfterCall(c) \in Clients
  BY <1>2, AfterCallShape DEF ClientShape
<1>4. AfterCall(c).clean = 0
  BY <1>2, OffShape DEF AfterCall, Clients
<1>5. QED BY <1>1, <1>3, <1>4, GivenUp, FreshStart

\* The wait ends and the next call begins: as much time has passed.
LEMMA SendHeartbeatTiming ==
  ASSUME HeartbeatInv, TimingInv, NEW n \in Nodes, SendHeartbeat(n)
  PROVE  TimingInv'
<1> DEFINE b == client[n]
           c == [b EXCEPT !.pc = "call", !.timer = 0]
           new == [node |-> n, stage |-> "net", age |-> 0, attached |-> TRUE]
<1>1. /\ client' = [client EXCEPT ![n] = c] /\ age' = age
      /\ requests' = requests \cup {new}
  BY DEF SendHeartbeat, registry, HeartbeatInv
<1>2. /\ b \in Clients /\ c \in Clients /\ c.pc = "call" /\ c.timer = 0
      /\ c.clean = b.clean /\ age[n] \in Nat
      /\ b.pc # "call" /\ b.clean \in 0..3
      /\ b.clean > 0 => b.pc = "sleep" /\ b.timer = Interval
  <2>1. ClientShape(b) /\ b \in Clients /\ b.clean \in 0..3 /\ age[n] \in Nat
    BY ConstantTypes DEF HeartbeatInv, RegistryShape, Clients, ClientShape
  <2>2. b.pc = "send" \/ (b.pc = "sleep" /\ b.timer = b.interval)
    BY DEF SendHeartbeat, SendDue
  <2> HIDE DEF b
  <2>3. c \in Clients /\ c.pc = "call" /\ c.timer = 0 /\ c.clean = b.clean
    BY <2>1 DEF Clients
  <2>4. QED BY <2>1, <2>2, <2>3 DEF ClientShape
<1>3. new.node = n /\ new.attached /\ new.stage = "net"
  OBVIOUS
<1>4. \A q \in requests : q.node = n => ~q.attached /\ q.age \in Nat
  BY <1>2, NotCalling
<1>5. \A q \in requests : q.node = n => StaleCall(b, q)
  BY DEF TimingInv
<1>6. CallsEndSoon => FreshAnswer(b, age[n])
  BY DEF TimingInv
<1> HIDE DEF b, c, new
<1>7. Elapsed(c) = Elapsed(b)
  BY <1>2, ElapsedValues, ConstantTypes
<1>8. \A q \in requests' : q.node = n => StaleCall(c, q)
  BY <1>1, <1>3, <1>5, <1>7 DEF StaleCall
<1>9. CallsEndSoon => FreshAnswer(c, age[n])
  BY <1>2, <1>6, ConstantTypes DEF FreshAnswer
<1>10. \A q \in requests' : q.node = n => FreshCall(c, age[n], q)
  BY <1>1, <1>3, <1>4 DEF FreshCall
<1>11. QED BY <1>1, <1>3, <1>8, <1>9, <1>10, ClientTiming

\* The answer to a client's call: what it wrote is as young as the call.
LEMMA HeartbeatAnsweredTiming ==
  ASSUME HeartbeatInv, TimingInv, NEW n \in Nodes, HeartbeatAnswered(n)
  PROVE  TimingInv'
<1> DEFINE b == client[n]
           d == Adopted(b)
           c == AfterCall(d)
<1>1. /\ client' = [client EXCEPT ![n] = c] /\ age' = age /\ b.pc = "call"
  BY DEF HeartbeatAnswered, registry, HeartbeatInv
<1>2. PICK a \in OwnCall(n) : a.stage = "ack" /\ requests' = requests \ {a}
  BY DEF HeartbeatAnswered
<1>3. a \in requests /\ a.node = n /\ a.attached
  BY DEF OwnCall
<1>4. \A q \in requests' : q.node = n => ~q.attached /\ q \in requests
  BY <1>2, <1>3 DEF HeartbeatInv, OneOwnCall
<1>5. /\ b \in Clients /\ b.clean \in 0..3 /\ b.timer \in Nat /\ age[n] \in Nat
      /\ b.clean > 0 => b.timer <= Interval
  BY ConstantTypes DEF HeartbeatInv, RegistryShape, Clients, ClientShape
<1>6. \A q \in requests : q.node = n => StaleCall(b, q)
  BY DEF TimingInv
<1>7. CallsEndSoon => FreshCall(b, age[n], a)
  BY <1>3 DEF TimingInv
<1> HIDE DEF b
<1>8. d \in Clients /\ d.interval = Interval
      /\ d.clean = IF b.clean < 3 THEN b.clean + 1 ELSE b.clean
  <2> DEFINE k == IF b.clean < 3 THEN b.clean + 1 ELSE b.clean
  <2>1. k \in 0..3 /\ d = [b EXCEPT !.interval = Interval, !.clean = k]
    BY <1>5 DEF Adopted
  <2> HIDE DEF k, d
  <2>2. d \in Clients /\ d.interval = Interval /\ d.clean = k
    BY <1>5, <2>1 DEF Clients
  <2>3. QED BY <2>2 DEF k
<1> HIDE DEF d
<1>9. c \in Clients
  BY <1>8, AfterCallShape DEF ClientShape
<1>10. \/ c.clean = 0
       \/ c.pc = "sleep" /\ c.timer = 0 /\ c.clean = d.clean
  <2>1. CASE d.stop
    BY <2>1, OffShape DEF AfterCall
  <2>2. CASE ~d.stop
    BY <1>8, <2>2 DEF AfterCall, Clients
  <2>3. QED BY <2>1, <2>2
<1> HIDE DEF c
<1>11. Elapsed(c) <= Elapsed(b)
  BY <1>1, <1>5, <1>8, <1>9, <1>10, ElapsedValues, ConstantTypes
<1>12. Elapsed(c) \in Nat /\ Elapsed(b) \in Nat
  BY <1>5, <1>9, ElapsedValues
<1>13. \A q \in requests' : q.node = n => StaleCall(c, q)
  <2> SUFFICES ASSUME NEW q \in requests', q.node = n PROVE StaleCall(c, q)
    OBVIOUS
  <2>1. q \in requests /\ q.age \in Nat /\ StaleCall(b, q)
    BY <1>4, <1>6, ConstantTypes DEF HeartbeatInv, RequestShape, Requests
  <2>2. QED BY <1>11, <1>12, <2>1, ConstantTypes DEF StaleCall
<1>14. CallsEndSoon => FreshAnswer(c, age[n])
  BY <1>2, <1>3, <1>5, <1>7, <1>8, <1>10, ConstantTypes DEF FreshAnswer, FreshCall
<1>15. \A q \in requests' : q.node = n => FreshCall(c, age[n], q)
  BY <1>4 DEF FreshCall
<1>16. QED BY <1>1, <1>2, <1>13, <1>14, <1>15, ClientTiming

-----------------------------------------------------------------------------
\* Calls come and go without a client or a heartbeat's age changing.
LEMMA CallTiming ==
  ASSUME HeartbeatInv, TimingInv, client' = client, age' = age,
         \A q \in requests' : \/ q \in requests
                              \/ /\ StaleCall(client[q.node], q)
                                 /\ FreshCall(client[q.node], age[q.node], q)
  PROVE  TimingInv'
<1>1. (\A r \in requests : StaleCall(client[r.node], r))'
  <2>1. \A r \in requests' : StaleCall(client[r.node], r)
    BY DEF TimingInv
  <2>2. QED BY <2>1 DEF StaleCall, Elapsed
<1>2. CallsEndSoon => (\A r \in requests : FreshCall(client[r.node], age[r.node], r))'
  <2>1. CallsEndSoon => \A r \in requests' : FreshCall(client[r.node], age[r.node], r)
    BY DEF TimingInv
  <2>2. QED BY <2>1 DEF FreshCall
<1>3. CallsEndSoon => (\A m \in Nodes : FreshAnswer(client[m], age[m]))'
  BY DEF TimingInv, FreshAnswer
<1>4. QED BY <1>1, <1>2, <1>3 DEF TimingInv, CallsEndSoon

LEMMA LoseRequestTiming ==
  ASSUME HeartbeatInv, TimingInv, NEW r \in requests, LoseRequest(r)
  PROVE  TimingInv'
BY CallTiming DEF LoseRequest, registry

LEMMA ReadClockTiming ==
  ASSUME HeartbeatInv, TimingInv, NEW r \in requests, ReadClock(r)
  PROVE  TimingInv'
<1> DEFINE q == [r EXCEPT !.stage = "lock", !.age = 0]
<1>1. /\ requests' = (requests \ {r}) \cup {q}
      /\ client' = client /\ age' = age /\ r.stage = "net"
  BY DEF ReadClock, registry
<1>2. r \in Requests /\ r.age \in Nat /\ r.age <= MaxLate /\ r.node \in Nodes
  BY <1>1, ConstantTypes DEF HeartbeatInv, RequestShape, Requests
<1>3. /\ q.stage = "lock" /\ q.age = 0
      /\ q.node = r.node /\ q.attached = r.attached
  BY <1>2, NextStage
<1> HIDE DEF q
<1>4. client[r.node] \in Clients /\ client[r.node].timer \in Nat
  BY <1>2 DEF HeartbeatInv, Clients
<1>5. StaleCall(client[r.node], r)
  BY DEF TimingInv
<1>6. StaleCall(client[q.node], q)
  BY <1>1, <1>2, <1>3, <1>4, <1>5, ElapsedValues, ConstantTypes DEF StaleCall
<1>7. FreshCall(client[q.node], age[q.node], q)
  BY <1>3, <1>4 DEF FreshCall
<1>8. QED BY <1>1, <1>6, <1>7, CallTiming

\* From a client's third call on, no call it gave up is still held.
LEMMA NoStaleWriter ==
  ASSUME HeartbeatInv, TimingInv, CallsEndSoon,
         NEW r \in requests, r.stage = "lock", ~r.attached
  PROVE  LET c == client[r.node]
         IN  c.clean # 3 /\ ~(c.clean = 2 /\ c.pc = "call")
<1> DEFINE c == client[r.node]
<1>1. r.node \in Nodes /\ r.age \in Nat /\ r.age <= MaxHold
  BY ConstantTypes DEF HeartbeatInv, RequestShape, Requests
<1>2. c \in Clients /\ c.timer \in Nat
  BY <1>1 DEF HeartbeatInv, Clients
<1>3. Elapsed(c) <= r.age + MaxLate
  BY DEF TimingInv, StaleCall
<1> HIDE DEF c
<1>4. Elapsed(c) < 2 * Interval
  BY <1>1, <1>2, <1>3, ElapsedValues, ConstantTypes DEF CallsEndSoon
<1>5. c.clean # 3 /\ ~(c.clean = 2 /\ c.pc = "call")
  BY <1>2, <1>4, ElapsedValues, ConstantTypes
<1>6. QED BY <1>5 DEF c

LEMMA UpdateNodeTiming ==
  ASSUME HeartbeatInv, TimingInv, NEW r \in requests, UpdateNode(r)
  PROVE  TimingInv'
<1> DEFINE q == [r EXCEPT !.stage = "ack", !.age = 0]
           n == r.node
           c == client[n]
<1>1. /\ requests' = (requests \ {r}) \cup (IF r.attached THEN {q} ELSE {})
      /\ client' = client /\ age' = [age EXCEPT ![n] = r.age] /\ r.stage = "lock"
  BY DEF UpdateNode
<1>2. r \in Requests /\ r.age \in Nat /\ n \in Nodes
  BY <1>1, ConstantTypes DEF HeartbeatInv, RequestShape, Requests
<1>3. q.stage = "ack" /\ q.node = n /\ q.attached = r.attached
  BY <1>2, NextStage
<1>4. \A m \in Nodes : age'[m] = IF m = n THEN r.age ELSE age[m]
  BY <1>1 DEF HeartbeatInv, RegistryShape
<1>5. c \in Clients /\ c.timer \in Nat /\ c.clean \in 0..3
  BY <1>2 DEF HeartbeatInv, Clients
<1>6. CallsEndSoon /\ r.attached => r.age <= c.timer
  BY <1>1 DEF TimingInv, FreshCall
<1>7. CallsEndSoon /\ ~r.attached => c.clean # 3 /\ ~(c.clean = 2 /\ c.pc = "call")
  BY <1>1, NoStaleWriter
<1>8. \A x \in requests : /\ StaleCall(client[x.node], x) /\ x.node \in Nodes
                          /\ x.attached => client[x.node].pc = "call"
  BY DEF TimingInv, HeartbeatInv, RequestShape, Requests
<1>9. \A x \in requests : x.attached /\ x.node = n /\ r.attached => x = r
  BY DEF HeartbeatInv, OneOwnCall
<1> HIDE DEF q
<1>10. (\A x \in requests : StaleCall(client[x.node], x))'
  <2>1. \A x \in requests' : StaleCall(client[x.node], x)
    BY <1>1, <1>3, <1>8 DEF StaleCall
  <2>2. QED BY <1>1, <2>1 DEF StaleCall, Elapsed
<1>11. CallsEndSoon => (\A x \in requests : FreshCall(client[x.node], age[x.node], x))'
  <2> SUFFICES ASSUME CallsEndSoon, NEW x \in requests'
               PROVE  FreshCall(client[x.node], age'[x.node], x)
    BY <1>1 DEF FreshCall
  <2>1. CASE x \in requests /\ x # r /\ x.node # n
    <3>1. age'[x.node] = age[x.node]
      BY <1>4, <1>8, <2>1
    <3>2. QED BY <2>1, <3>1 DEF TimingInv
  <2>2. CASE x \in requests /\ x # r /\ x.node = n
    <3>1. CASE r.attached
      BY <1>9, <2>2, <3>1 DEF FreshCall
    <3>2. CASE ~r.attached
      <4>1. x.attached => ~(c.clean >= 2)
        BY <1>5, <1>7, <1>8, <2>2, <3>2
      <4>2. FreshCall(c, age[n], x)
        BY <2>2 DEF TimingInv
      <4>3. QED BY <2>2, <4>1, <4>2 DEF FreshCall
    <3>3. QED BY <3>1, <3>2
  <2>3. CASE x = q /\ r.attached
    BY <1>2, <1>3, <1>4, <1>6, <2>3 DEF FreshCall
  <2>4. QED BY <1>1, <2>1, <2>2, <2>3
<1>12. CallsEndSoon => (\A m \in Nodes : FreshAnswer(client[m], age[m]))'
  <2> SUFFICES ASSUME CallsEndSoon, NEW m \in Nodes
               PROVE  FreshAnswer(client[m], age'[m])
    BY <1>1 DEF FreshAnswer
  <2>1. CASE m # n
    BY <1>4, <2>1 DEF TimingInv
  <2>2. CASE m = n
    <3>1. c.clean = 3 => r.age <= c.timer
      BY <1>6, <1>7
    <3>2. QED BY <1>2, <1>4, <1>5, <2>2, <3>1, ConstantTypes DEF FreshAnswer
  <2>3. QED BY <2>1, <2>2
<1>13. QED BY <1>10, <1>11, <1>12 DEF TimingInv, CallsEndSoon

LEMMA ReaperTiming ==
  ASSUME HeartbeatInv, TimingInv, ReaperStep \/ StartOrchestrator \/ UNCHANGED vars
  PROVE  TimingInv'
<1>1. client' = client /\ age' = age /\ requests' = requests
  BY DEF ReaperStep, ReaperReadClock, ReapStaleNodes, StartOrchestrator, vars, registry
<1>2. QED BY <1>1, CallTiming

LEMMA StopOrchestratorTiming ==
  ASSUME HeartbeatInv, TimingInv, StopOrchestrator PROVE TimingInv'
<1>1. requests' = {} /\ client' = client /\ \A n \in Nodes : age'[n] = 0
  BY DEF StopOrchestrator
<1>2. \A n \in Nodes : client[n].timer \in Nat
  BY DEF HeartbeatInv, Clients
<1>3. (\A n \in Nodes : FreshAnswer(client[n], age[n]))'
  BY <1>1, <1>2, ConstantTypes DEF FreshAnswer
<1>4. QED BY <1>1, <1>3 DEF TimingInv

LEMMA TickTiming == ASSUME HeartbeatInv, TimingInv, Tick PROVE TimingInv'
<1>1. /\ requests' = {Aged(r) : r \in requests}
      /\ \A r \in requests : ~Overdue(r)
      /\ \A n \in Nodes : ~AtDeadline(n)
  BY DEF Tick
<1>2. ASSUME NEW n \in Nodes
      PROVE  age[n] \in Nat /\ age'[n] \in Nat /\ age'[n] <= age[n] + 1
  <2>1. age[n] \in 0..MaxAge
    BY DEF HeartbeatInv, RegistryShape
  <2>2. age'[n] = IF n \in Registered /\ age[n] < MaxAge THEN age[n] + 1 ELSE age[n]
    BY DEF Tick
  <2>3. QED BY <2>1, <2>2, ConstantTypes
<1>3. ASSUME NEW n \in Nodes
      PROVE  /\ client[n] \in Clients /\ client'[n] \in Clients
             /\ client'[n].pc = client[n].pc /\ client'[n].clean = client[n].clean
             /\ client[n].timer \in Nat
             /\ client[n].pc \in {"call", "sleep"}
                  => client'[n].timer = client[n].timer + 1
             /\ client[n].clean > 0 => client[n].pc \in {"call", "sleep"}
             /\ client[n].clean \in 0..3
  <2>1. ClientShape(client[n]) /\ client[n] \in Clients
    BY DEF HeartbeatInv
  <2>2. /\ ClientShape(client'[n]) /\ client'[n].pc = client[n].pc
        /\ client'[n].clean = client[n].clean
        /\ client'[n].timer = IF client[n].pc \in {"call", "sleep"}
                              THEN client[n].timer + 1 ELSE client[n].timer
    BY <1>1, AgedClient
  <2>3. QED BY <2>1, <2>2 DEF ClientShape, Clients
<1>4. ASSUME NEW r \in requests
      PROVE  /\ StaleCall(client'[r.node], Aged(r))
             /\ CallsEndSoon => FreshCall(client'[r.node], age'[r.node], Aged(r))
             /\ Aged(r).node = r.node
  <2> DEFINE q == Aged(r)
             b == client[r.node]
             c == client'[r.node]
  <2>1. /\ q.node = r.node /\ q.stage = r.stage /\ q.attached = r.attached
        /\ q.age = IF r.stage = "lock" \/ (r.stage = "net" /\ ~r.attached)
                   THEN r.age + 1 ELSE r.age
    BY <1>1, AgedRequest
  <2>2. /\ r.node \in Nodes /\ r.age \in Nat /\ r.stage \in {"net", "lock", "ack"}
        /\ r.stage = "ack" => r.attached
        /\ r.attached => b.pc = "call"
    BY ConstantTypes DEF HeartbeatInv, RequestShape, Requests
  <2>3. StaleCall(b, r) /\ (CallsEndSoon => FreshCall(b, age[r.node], r))
    BY DEF TimingInv
  <2>4. /\ b \in Clients /\ c \in Clients /\ c.pc = b.pc /\ c.clean = b.clean
        /\ b.timer \in Nat /\ (b.pc \in {"call", "sleep"} => c.timer = b.timer + 1)
        /\ b.clean > 0 => b.pc \in {"call", "sleep"}
        /\ b.clean \in 0..3
    BY <1>3, <2>2
  <2>5. age[r.node] \in Nat /\ age'[r.node] \in Nat /\ age'[r.node] <= age[r.node] + 1
    BY <1>2, <2>2
  <2> HIDE DEF q, b, c
  <2>6. /\ Elapsed(c) \in Nat /\ Elapsed(b) \in Nat
        /\ Elapsed(c) <= Elapsed(b) + 1
    BY <2>4, ElapsedValues, ConstantTypes
  <2>7. StaleCall(c, q)
    BY <2>1, <2>2, <2>3, <2>6, ConstantTypes DEF StaleCall
  <2>8. CallsEndSoon => FreshCall(c, age'[r.node], q)
    BY <2>1, <2>2, <2>3, <2>4, <2>5 DEF FreshCall
  <2>9. QED BY <2>1, <2>7, <2>8 DEF q, c
<1>5. (\A r \in requests : StaleCall(client[r.node], r))'
  <2>1. \A q \in requests' : StaleCall(client'[q.node], q)
    BY <1>1, <1>4
  <2>2. QED BY <2>1 DEF StaleCall, Elapsed
<1>6. CallsEndSoon => (\A r \in requests : FreshCall(client[r.node], age[r.node], r))'
  <2>1. CallsEndSoon => \A q \in requests' : FreshCall(client'[q.node], age'[q.node], q)
    BY <1>1, <1>4
  <2>2. QED BY <2>1 DEF FreshCall
<1>7. CallsEndSoon => (\A n \in Nodes : FreshAnswer(client[n], age[n]))'
  <2> SUFFICES ASSUME CallsEndSoon, NEW n \in Nodes, client'[n].clean = 3
               PROVE  age'[n] <= client'[n].timer
                        + (IF client'[n].pc = "call" THEN 2 ELSE 1) * Interval
    BY DEF FreshAnswer
  <2>1. age[n] <= client[n].timer
                    + (IF client[n].pc = "call" THEN 2 ELSE 1) * Interval
    BY <1>3 DEF TimingInv, FreshAnswer
  <2>2. QED BY <1>2, <1>3, <2>1, ConstantTypes
<1>8. QED BY <1>5, <1>6, <1>7 DEF TimingInv, CallsEndSoon

\* Every step keeps the timing invariant.
LEMMA StepTiming == ASSUME HeartbeatInv, TimingInv, [Next]_vars PROVE TimingInv'
<1>1. ASSUME NEW n \in Nodes,
             StartWorker(n) \/ StopWorker(n) \/ CrashWorker(n) \/ ClientStep(n)
      PROVE  TimingInv'
  BY <1>1, StartWorkerTiming, StopWorkerTiming, CrashWorkerTiming,
     SendHeartbeatTiming, HeartbeatAnsweredTiming, HeartbeatFailedTiming
     DEF ClientStep
<1>2. ASSUME NEW n \in Nodes, ServerStep(n) PROVE TimingInv'
  BY <1>2, ReadClockTiming, UpdateNodeTiming DEF ServerStep
<1>3. ASSUME NEW r \in requests, LoseRequest(r) PROVE TimingInv'
  BY <1>3, LoseRequestTiming
<1>4. QED
  BY <1>1, <1>2, <1>3, ReaperTiming, StopOrchestratorTiming, TickTiming DEF Next

\* How the ages of calls, waits and heartbeats are tied together in every
\* reachable state.
THEOREM TimingInvariant == Spec => []TimingInv
<1>1. HeartbeatInv /\ TimingInv /\ [Next]_vars => TimingInv'
  BY StepTiming
<1>2. QED
  BY InitTiming, <1>1, HeartbeatInvariant, PTL DEF Spec

\* Only the reaper makes a node unavailable, and only a silent one.
LEMMA OnlyReaperDrops ==
  ASSUME HeartbeatInv, [Next]_vars, NEW n \in Nodes,
         status[n] = "available", status'[n] = "unavailable"
  PROVE  Silent(n)
<1>1. status' # status
  OBVIOUS
<1>2. ASSUME NEW r \in requests, UpdateNode(r) PROVE FALSE
  BY <1>2 DEF UpdateNode, HeartbeatInv, RegistryShape
<1>3. CASE ReapStaleNodes
  BY <1>3 DEF ReapStaleNodes
<1>4. CASE StopOrchestrator
  BY <1>4 DEF StopOrchestrator
<1>5. QED
  BY <1>1, <1>2, <1>3, <1>4
     DEF Next, ClientStep, ServerStep, ReaperStep, StartWorker, StopWorker,
         CrashWorker, SendHeartbeat, HeartbeatAnswered, HeartbeatFailed,
         LoseRequest, ReadClock, ReaperReadClock, StartOrchestrator, Tick,
         vars, registry

\* For any number of workers and any intervals: with a tolerance of three
\* missed heartbeats, and calls that end within two intervals, a worker whose
\* last three heartbeats were answered is never reaped, whatever the others
\* do and however late the answers were.
THEOREM AnsweredNodesAreKept == Spec => OnlySilentNodesReaped
<1>1. ASSUME HeartbeatInv, TimingInv, [Next]_vars, Missed >= 3, CallsEndSoon,
             NEW n \in Nodes, status[n] = "available", status'[n] = "unavailable"
      PROVE  client[n].clean < 3
  <2>1. age[n] > timeout_s + reaper.timer
    BY <1>1, OnlyReaperDrops DEF Silent
  <2>2. reaper.timer \in Nat /\ age[n] \in Nat
    BY <1>1, ConstantTypes DEF HeartbeatInv, ReaperShape, RegistryShape
  <2>3. /\ ClientShape(client[n]) /\ client[n].timer \in Nat
        /\ client[n].clean \in 0..3
    BY <1>1 DEF HeartbeatInv, ClientShape, Clients
  <2>4. timeout_s >= 3 * Interval
    <3>1. Missed \in Nat /\ Interval \in Nat
      BY HeartbeatAssumption
    <3>2. PICK k \in Nat : Missed = 3 + k
      <4>1. Missed - 3 \in Nat /\ Missed = 3 + (Missed - 3)
        BY <1>1, <3>1
      <4>2. QED BY <4>1
    <3>3. Interval * (3 + k) = 3 * Interval + Interval * k /\ Interval * k \in Nat
      BY <3>1
    <3>4. QED BY <3>1, <3>2, <3>3 DEF timeout_s
  <2>5. client[n].clean # 3
    <3> SUFFICES ASSUME client[n].clean = 3 PROVE FALSE
      OBVIOUS
    <3>1. age[n] <= client[n].timer
                      + (IF client[n].pc = "call" THEN 2 ELSE 1) * Interval
      BY <1>1 DEF TimingInv, FreshAnswer
    <3>2. client[n].timer <= Interval
      BY <2>3 DEF ClientShape
    <3>3. QED BY <2>1, <2>2, <2>3, <2>4, <3>1, <3>2, ConstantTypes
  <2>6. QED BY <2>3, <2>5
<1>2. HeartbeatInv /\ TimingInv /\ [Next]_vars =>
        [Missed >= 3 /\ CallsEndSoon =>
           \A n \in Nodes :
             status[n] = "available" /\ status'[n] = "unavailable" =>
               client[n].clean < 3]_vars
  BY <1>1
<1>3. QED
  BY <1>2, HeartbeatInvariant, TimingInvariant, PTL DEF Spec, OnlySilentNodesReaped
=============================================================================
