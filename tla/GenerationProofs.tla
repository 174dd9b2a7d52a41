-------------------------- MODULE GenerationProofs --------------------------
(***************************************************************************)
(* Proofs about token generation.  For every number of workers, loads,     *)
(* generations and tokens and every kind of fault, requests, slots and     *)
(* results stay with their step (StepInv).  On a model that stays resident,*)
(* over connections that break only with their worker, every token is      *)
(* computed from its own generation's state (ResidentInv), and             *)
(* generate_stream implements Decoding.                                    *)
(***************************************************************************)
EXTENDS Generation, TLAPS

(***************************************************************************)
(* Requests and their owners.                                              *)
(***************************************************************************)
\* A request is the pair of its generation and its step.
LEMMA RequestPair ==
  ASSUME NEW id \in Requests
  PROVE  /\ id[1] \in Generations /\ id[2] \in 0..(MaxTokens - 1)
         /\ id[2] \in Nat
         /\ id = <<id[1], id[2]>>
BY BoundsAssumption DEF Requests

\* The outermost calls of some requests return: their generations, which
\* were in the call, leave it, and nothing else about a generation changes.
LEMMA ReturnEffect ==
  ASSUME StepInv, NEW C \in SUBSET calls, NEW rpcError \in BOOLEAN,
         Return(C, rpcError)
  PROVE  /\ gen' \in [Generations -> GenState]
         /\ \A g \in Generations :
              /\ gen'[g].step = gen[g].step /\ gen'[g].session = gen[g].session
              /\ \/ gen'[g] = gen[g] /\ \A c \in C : c.attached => c.id[1] # g
                 \/ /\ gen[g].pc = "calling"
                    /\ gen'[g].pc = IF rpcError THEN "rpc_error" ELSE "wait"
                    /\ \E c \in C : c.attached /\ c.id[1] = g
<1> USE DEF StepInv, TypeOK, GenState
<1>1. ASSUME NEW g \in Generations, NEW c \in C, c.attached, c.id[1] = g
      PROVE  gen[g].pc = "calling"
  BY <1>1 DEF CallsOwned
<1>2. ASSUME NEW g \in Generations
      PROVE  /\ gen'[g] \in GenState
             /\ gen'[g].step = gen[g].step /\ gen'[g].session = gen[g].session
             /\ \/ gen'[g] = gen[g] /\ \A c \in C : c.attached => c.id[1] # g
                \/ /\ gen[g].pc = "calling"
                   /\ gen'[g].pc = IF rpcError THEN "rpc_error" ELSE "wait"
                   /\ \E c \in C : c.attached /\ c.id[1] = g
  <2>1. CASE \E c \in C : c.attached /\ c.id[1] = g
    <3>1. gen'[g] = [gen[g] EXCEPT !.pc = IF rpcError THEN "rpc_error" ELSE "wait"]
      BY <2>1 DEF Return
    <3>2. gen[g].pc = "calling"
      BY <1>1, <2>1
    <3>3. gen'[g].pc = IF rpcError THEN "rpc_error" ELSE "wait"
      BY <3>1
    <3>4. gen'[g].step = gen[g].step /\ gen'[g].session = gen[g].session
      BY <3>1
    <3>5. gen'[g] \in GenState
      BY <3>1 DEF Holding, Ended
    <3> QED BY <2>1, <3>2, <3>3, <3>4, <3>5 DEF Return
  <2>2. CASE ~ \E c \in C : c.attached /\ c.id[1] = g
    <3>1. gen'[g] = gen[g]
      BY <2>2 DEF Return
    <3> QED BY <2>2, <3>1
  <2> QED BY <2>1, <2>2
<1>3. gen' = [g \in Generations |-> gen'[g]]
  BY DEF Return
<1> QED BY <1>2, <1>3

\* No call returns.
LEMMA NoReturn ==
  ASSUME TypeOK, UNCHANGED gen
  PROVE  Return({}, FALSE)
BY DEF TypeOK, Return

\* Requests go on, come to an end or are detached, and the outermost calls
\* of those in C return.
LEMMA OwnersKept ==
  ASSUME StepInv, NEW C \in SUBSET calls, NEW rpcError \in BOOLEAN,
         Return(C, rpcError),
         \A d \in calls' : \E c \in calls :
           d.id = c.id /\ (d.attached => c.attached /\ c \notin C)
  PROVE  CallsOwned'
<1> SUFFICES ASSUME NEW d \in calls'
             PROVE  /\ d.id[2] <= gen'[d.id[1]].step
                    /\ d.id[2] = gen'[d.id[1]].step =>
                         gen'[d.id[1]].pc \notin {"idle", "lock", "step"}
                    /\ d.attached =>
                         gen'[d.id[1]].pc = "calling" /\ d.id[2] = gen'[d.id[1]].step
  BY DEF CallsOwned
<1>1. PICK c \in calls : d.id = c.id /\ (d.attached => c.attached /\ c \notin C)
  OBVIOUS
<1>2. c.id \in Requests
  BY DEF StepInv, TypeOK, Call
<1> DEFINE g == c.id[1]
<1>3. g \in Generations
  BY <1>2, RequestPair
<1>4. /\ c.id[2] <= gen[g].step
      /\ c.id[2] = gen[g].step => gen[g].pc \notin {"idle", "lock", "step"}
      /\ c.attached => gen[g].pc = "calling" /\ c.id[2] = gen[g].step
  BY DEF StepInv, CallsOwned
<1>5. /\ gen'[g].step = gen[g].step
      /\ \/ gen'[g] = gen[g] /\ \A e \in C : e.attached => e.id[1] # g
         \/ /\ gen[g].pc = "calling"
            /\ gen'[g].pc = IF rpcError THEN "rpc_error" ELSE "wait"
            /\ \E e \in C : e.attached /\ e.id[1] = g
  BY <1>3, ReturnEffect
<1>6. ASSUME NEW e \in C, e.attached, e.id[1] = g, d.attached
      PROVE  FALSE
  <2>1. e.id \in Requests
    BY DEF StepInv, TypeOK, Call
  <2>2. e.id[2] = gen[g].step
    BY <1>6 DEF StepInv, CallsOwned
  <2>3. c.id[2] = gen[g].step
    BY <1>1, <1>4, <1>6
  <2>4. e.id = c.id
    BY <1>2, <1>6, <2>1, <2>2, <2>3, RequestPair
  <2>5. e = c
    BY <2>4 DEF StepInv, OneCallPerStep
  <2> QED BY <1>1, <1>6, <2>5
<1>7. gen'[g].pc = gen[g].pc \/ gen'[g].pc \in {"rpc_error", "wait"}
  BY <1>5
<1>8. d.attached => gen'[g] = gen[g]
  BY <1>5, <1>6
<1> HIDE DEF g
<1> QED BY <1>1, <1>4, <1>5, <1>7, <1>8 DEF g

\* Slots stay with their step when calls return.
LEMMA SlotsKept ==
  ASSUME StepInv, NEW C \in SUBSET calls, NEW rpcError \in BOOLEAN,
         Return(C, rpcError), UNCHANGED slots,
         \A r \in arrived' : r.id \in slots
  PROVE  SlotsCollected'
<1>1. ASSUME NEW id \in slots
      PROVE  /\ id[2] = gen'[id[1]].step
             /\ gen'[id[1]].pc \in {"calling", "wait", "timed_out", "rpc_error"}
  <2>1. id \in Requests
    BY DEF StepInv, TypeOK
  <2>2. /\ id[2] = gen[id[1]].step
        /\ gen[id[1]].pc \in {"calling", "wait", "timed_out", "rpc_error"}
    BY DEF StepInv, SlotsCollected
  <2>3. id[1] \in Generations
    BY <2>1, RequestPair
  <2>4. /\ gen'[id[1]].step = gen[id[1]].step
        /\ gen'[id[1]] = gen[id[1]] \/ gen'[id[1]].pc \in {"rpc_error", "wait"}
    BY <2>3, ReturnEffect
  <2> QED BY <2>2, <2>4
<1> QED BY <1>1 DEF SlotsCollected

-----------------------------------------------------------------------------
(***************************************************************************)
(* StepInv is inductive: the generations.                                  *)
(***************************************************************************)
LEMMA InitSteps == Init => StepInv
<1> SUFFICES ASSUME Init PROVE StepInv
  OBVIOUS
<1> USE DEF Init
<1>1. table \in [Workers -> Sessions \cup {NoSession}] /\ session \in Sessions \cup {NoSession}
  BY BoundsAssumption DEF Sessions
<1>2. FreshHandle \in [freed : BOOLEAN, cache : Cache]
  BY DEF FreshHandle, Cache
<1>3. handle \in [Sessions -> [Workers -> [freed : BOOLEAN, cache : Cache]]]
  BY <1>2
<1>4. redist \in [pc : {"idle", "pop", "free", "install"}, w : Workers,
                 held : Sessions \cup {NoSession}, next : Sessions]
  BY BoundsAssumption DEF IdleRedist, Workers, Sessions
<1>5. gen \in [Generations -> GenState]
  BY BoundsAssumption DEF GenState
<1>6. text \in [Generations -> Seq(Seq(Seq(Requests)))]
  OBVIOUS
<1>7. faults \in 0..MaxFaults
  BY BoundsAssumption
<1> QED
  BY <1>1, <1>3, <1>4, <1>5, <1>6, <1>7
     DEF StepInv, TypeOK, SlotsCollected, OneCallPerStep, CallsOwned, CallsEquipped

\* One generation that is not in a call moves on: the requests keep their
\* owners, and the slots their steps if those of g agree with its new state.
LEMMA GenerationMoves ==
  ASSUME StepInv, NEW g \in Generations,
         gen' \in [Generations -> GenState],
         \A f \in Generations \ {g} : gen'[f] = gen[f],
         gen[g].pc # "calling", gen'[g].step >= gen[g].step,
         gen'[g].step = gen[g].step /\ gen'[g].pc \in {"idle", "lock", "step"}
           => gen[g].pc \in {"idle", "lock", "step"},
         UNCHANGED calls, slots' \subseteq slots, arrived' \subseteq arrived,
         \A id \in slots' : id[1] = g =>
           /\ gen'[g].step = gen[g].step
           /\ gen'[g].pc \in {"calling", "wait", "timed_out", "rpc_error"},
         \A r \in arrived' : r.id \in slots'
  PROVE  CallsOwned' /\ SlotsCollected' /\ OneCallPerStep'
<1>1. gen[g].step \in Nat /\ gen'[g].step \in Nat
  BY BoundsAssumption DEF StepInv, TypeOK, GenState
<1>2. CallsOwned'
  <2> SUFFICES ASSUME NEW d \in calls
               PROVE  /\ d.id[2] <= gen'[d.id[1]].step
                      /\ d.id[2] = gen'[d.id[1]].step =>
                           gen'[d.id[1]].pc \notin {"idle", "lock", "step"}
                      /\ d.attached =>
                           gen'[d.id[1]].pc = "calling" /\ d.id[2] = gen'[d.id[1]].step
    BY DEF CallsOwned
  <2>1. /\ d.id[2] <= gen[d.id[1]].step
        /\ d.id[2] = gen[d.id[1]].step => gen[d.id[1]].pc \notin {"idle", "lock", "step"}
        /\ d.attached => gen[d.id[1]].pc = "calling" /\ d.id[2] = gen[d.id[1]].step
    BY DEF StepInv, CallsOwned
  <2>2. d.id[1] \in Generations /\ d.id[2] \in Nat
    BY RequestPair DEF StepInv, TypeOK, Call
  <2>3. CASE d.id[1] = g
    <3>1. ~d.attached
      BY <2>1, <2>3
    <3> QED BY <1>1, <2>1, <2>2, <2>3, <3>1
  <2>4. CASE d.id[1] # g
    BY <2>1, <2>2, <2>4
  <2> QED BY <2>3, <2>4
<1>3. SlotsCollected'
  <2>1. ASSUME NEW id \in slots'
        PROVE  /\ id[2] = gen'[id[1]].step
               /\ gen'[id[1]].pc \in {"calling", "wait", "timed_out", "rpc_error"}
    <3>1. /\ id[2] = gen[id[1]].step
          /\ gen[id[1]].pc \in {"calling", "wait", "timed_out", "rpc_error"}
      BY DEF StepInv, SlotsCollected
    <3>2. id[1] \in Generations
      BY RequestPair DEF StepInv, TypeOK
    <3> QED BY <2>1, <3>1, <3>2
  <2> QED BY <2>1 DEF SlotsCollected
<1>4. OneCallPerStep'
  BY DEF StepInv, OneCallPerStep
<1> QED BY <1>2, <1>3, <1>4

\* A generation begins, takes the lock, gives up waiting, goes on or is
\* closed: only its own record changes.
LEMMA MovesAlone ==
  ASSUME StepInv, NEW g \in Generations,
         Begin(g) \/ Acquire(g) \/ TimesOut(g) \/ Continue(g) \/ Close(g)
  PROVE  StepInv'
<1>1. gen \in [Generations -> GenState] /\ gen[g] \in GenState
  BY DEF StepInv, TypeOK
<1>2. /\ gen' \in [Generations -> GenState]
      /\ \A f \in Generations \ {g} : gen'[f] = gen[f]
      /\ gen[g].pc # "calling" /\ gen'[g].step >= gen[g].step
      /\ gen'[g].step = gen[g].step /\ gen'[g].pc \in {"idle", "lock", "step"}
           => gen[g].pc \in {"idle", "lock", "step"}
      /\ gen[g].pc \in {"calling", "wait", "timed_out", "rpc_error"} =>
           /\ gen'[g].step = gen[g].step
           /\ gen'[g].pc \in {"calling", "wait", "timed_out", "rpc_error"}
  <2>1. CASE Begin(g)
    <3>1. session \in Sessions \cup {NoSession}
      BY DEF StepInv, TypeOK
    <3>2. gen' = [gen EXCEPT ![g] = [gen[g] EXCEPT !.pc = "lock", !.session = session]]
      BY <1>1, <2>1 DEF Begin
    <3>3. [gen[g] EXCEPT !.pc = "lock", !.session = session] \in GenState
      BY <1>1, <3>1 DEF GenState
    <3>4. /\ gen' \in [Generations -> GenState]
          /\ \A f \in Generations \ {g} : gen'[f] = gen[f]
          /\ gen'[g] = [gen[g] EXCEPT !.pc = "lock", !.session = session]
      BY <1>1, <3>2, <3>3
    <3>5. gen'[g].pc = "lock" /\ gen'[g].step = gen[g].step /\ gen[g].step \in Nat
      BY <1>1, <3>4, BoundsAssumption DEF GenState
    <3>6. gen[g].pc = "idle"
      BY <2>1 DEF Begin
    <3> QED BY <3>4, <3>5, <3>6
  <2>2. CASE Acquire(g)
    BY <1>1, <2>2, BoundsAssumption DEF Acquire, Holding, GenState
  <2>3. CASE TimesOut(g)
    BY <1>1, <2>3, BoundsAssumption DEF TimesOut, Holding, GenState
  <2>4. CASE Continue(g)
    <3>1. CASE gen[g].step + 1 < MaxTokens
      <4>1. gen' = [gen EXCEPT ![g].pc = "step", ![g].step = gen[g].step + 1]
        BY <1>1, <2>4, <3>1 DEF Continue
      <4> QED BY <1>1, <2>4, <3>1, <4>1, BoundsAssumption DEF Continue, Holding, GenState
    <3>2. CASE ~(gen[g].step + 1 < MaxTokens)
      BY <1>1, <2>4, <3>2, BoundsAssumption DEF Continue, Ended, GenState
    <3> QED BY <3>1, <3>2
  <2>5. CASE Close(g)
    BY <1>1, <2>5, BoundsAssumption DEF Close, Ended, GenState
  <2> QED BY <2>1, <2>2, <2>3, <2>4, <2>5
<1>3. UNCHANGED <<workerVars, session, redist, calls, slots, arrived, text, faults>>
  BY DEF Begin, Acquire, TimesOut, Continue, Close
<1>4. \A id \in slots : id[1] = g =>
        gen[g].pc \in {"calling", "wait", "timed_out", "rpc_error"}
  BY DEF StepInv, SlotsCollected
<1>5. \A r \in arrived : r.id \in slots
  BY DEF StepInv, SlotsCollected
<1>6. CallsOwned' /\ SlotsCollected' /\ OneCallPerStep'
  BY <1>2, <1>3, <1>4, <1>5, GenerationMoves
<1>7. TypeOK'
  BY <1>2, <1>3 DEF StepInv, TypeOK, workerVars
<1>8. CallsEquipped'
  BY <1>3 DEF StepInv, CallsEquipped, Handle, workerVars
<1> QED BY <1>6, <1>7, <1>8 DEF StepInv

LEMMA TakeResultSteps ==
  ASSUME StepInv, NEW g \in Generations, TakeResult(g)
  PROVE  StepInv'
<1>1. gen \in [Generations -> GenState] /\ gen[g] \in GenState
  BY DEF StepInv, TypeOK
<1>2. PICK r \in arrived : /\ r.id = <<g, gen[g].step>>
                           /\ slots' = slots \ {r.id}
                           /\ arrived' = arrived \ {r}
                           /\ text' = [text EXCEPT ![g] = Append(@, r.seen)]
  BY DEF TakeResult
<1>3. /\ gen[g].pc = "wait" /\ gen' = [gen EXCEPT ![g].pc = "yield"]
      /\ UNCHANGED <<workerVars, session, redist, calls, faults>>
  BY DEF TakeResult
<1>4. /\ gen' \in [Generations -> GenState]
      /\ \A f \in Generations \ {g} : gen'[f] = gen[f]
      /\ gen'[g].step = gen[g].step /\ gen'[g].pc = "yield" /\ gen[g].step \in Nat
  BY <1>1, <1>3, BoundsAssumption DEF Holding, GenState
<1>5. \A id \in slots' : id[1] # g
  <2> SUFFICES ASSUME NEW id \in slots, id[1] = g PROVE id = r.id
    BY <1>2
  <2>1. id[2] = gen[g].step
    BY DEF StepInv, SlotsCollected
  <2>2. id = <<id[1], id[2]>>
    BY RequestPair DEF StepInv, TypeOK
  <2> QED BY <1>2, <2>1, <2>2
<1>6. \A q \in arrived' : q.id \in slots'
  BY <1>2 DEF StepInv, SlotsCollected, OneCallPerStep
<1>7. CallsOwned' /\ SlotsCollected' /\ OneCallPerStep'
  BY <1>2, <1>3, <1>4, <1>5, <1>6, GenerationMoves
<1>8. text' \in [Generations -> Seq(Seq(Seq(Requests)))]
  <2>1. r.seen \in Seq(Seq(Requests)) /\ text[g] \in Seq(Seq(Seq(Requests)))
    BY DEF StepInv, TypeOK, Result
  <2>2. Append(text[g], r.seen) \in Seq(Seq(Seq(Requests)))
    BY <2>1
  <2> QED BY <1>2, <2>2 DEF StepInv, TypeOK
<1>9. TypeOK'
  BY <1>2, <1>3, <1>4, <1>8 DEF StepInv, TypeOK, workerVars
<1>10. CallsEquipped'
  BY <1>3 DEF StepInv, CallsEquipped, Handle, workerVars
<1> QED BY <1>7, <1>9, <1>10 DEF StepInv

LEMMA PopTimedOutSteps ==
  ASSUME StepInv, NEW g \in Generations, PopTimedOut(g)
  PROVE  StepInv'
<1>1. gen \in [Generations -> GenState] /\ gen[g] \in GenState
  BY DEF StepInv, TypeOK
<1>2. /\ gen[g].pc = "timed_out" /\ gen' = [gen EXCEPT ![g].pc = "timeout"]
      /\ slots' = slots \ {<<g, gen[g].step>>}
      /\ arrived' = {r \in arrived : r.id # <<g, gen[g].step>>}
      /\ UNCHANGED <<workerVars, session, redist, calls, text, faults>>
  BY DEF PopTimedOut
<1>3. /\ gen' \in [Generations -> GenState]
      /\ \A f \in Generations \ {g} : gen'[f] = gen[f]
      /\ gen'[g].step = gen[g].step /\ gen'[g].pc = "timeout" /\ gen[g].step \in Nat
  BY <1>1, <1>2, BoundsAssumption DEF Ended, GenState
<1>4. \A id \in slots' : id[1] # g
  <2> SUFFICES ASSUME NEW id \in slots, id[1] = g PROVE id = <<g, gen[g].step>>
    BY <1>2
  <2>1. id[2] = gen[g].step
    BY DEF StepInv, SlotsCollected
  <2>2. id = <<id[1], id[2]>>
    BY RequestPair DEF StepInv, TypeOK
  <2> QED BY <2>1, <2>2
<1>5. \A q \in arrived' : q.id \in slots'
  BY <1>2 DEF StepInv, SlotsCollected
<1>6. CallsOwned' /\ SlotsCollected' /\ OneCallPerStep'
  BY <1>2, <1>3, <1>4, <1>5, GenerationMoves
<1>7. TypeOK'
  BY <1>2, <1>3 DEF StepInv, TypeOK, workerVars
<1>8. CallsEquipped'
  BY <1>2 DEF StepInv, CallsEquipped, Handle, workerVars
<1> QED BY <1>6, <1>7, <1>8 DEF StepInv

\* The request of a new step is one of the kind.
LEMMA NewCallFields ==
  ASSUME StepInv, NEW g \in Generations
  PROVE  /\ NewCall(g) \in Call
         /\ NewCall(g).id = <<g, gen[g].step>> /\ NewCall(g).pc = "lookup"
         /\ NewCall(g).attached = TRUE /\ NewCall(g).at = 1
         /\ NewCall(g).seen = <<>> /\ NewCall(g).reset = (gen[g].step = 0)
<1>1. gen[g].step \in 0..(MaxTokens - 1)
  BY DEF StepInv, TypeOK, GenState
<1>2. <<g, gen[g].step>> \in Requests
  BY <1>1 DEF Requests
<1>3. 1 \in Workers
  BY BoundsAssumption DEF Workers
<1>4. <<>> \in Seq(Seq(Requests))
  OBVIOUS
<1>5. (gen[g].step = 0) \in BOOLEAN
  OBVIOUS
<1>6. NewCall(g) \in Call
  BY <1>2, <1>3, <1>4, <1>5 DEF NewCall, Call
<1> QED BY <1>6 DEF NewCall

LEMMA StartStepSteps ==
  ASSUME StepInv, NEW g \in Generations, StartStep(g)
  PROVE  StepInv'
<1>1. gen \in [Generations -> GenState] /\ gen[g] \in GenState
  BY DEF StepInv, TypeOK
<1> DEFINE n == NewCall(g)
<1>2. /\ n \in Call /\ n.id = <<g, gen[g].step>> /\ n.pc = "lookup" /\ n.attached = TRUE
  BY NewCallFields
<1>2a. n.id[1] = g /\ n.id[2] = gen[g].step
  BY <1>2
<1>3. /\ gen[g].pc = "step" /\ gen' = [gen EXCEPT ![g].pc = "calling"]
      /\ slots' = slots \cup {n.id} /\ calls' = calls \cup {n}
      /\ UNCHANGED <<workerVars, session, redist, arrived, text, faults>>
  BY <1>2, <1>2a DEF StartStep
<1> HIDE DEF n
<1>4. /\ gen' \in [Generations -> GenState]
      /\ \A f \in Generations \ {g} : gen'[f] = gen[f]
      /\ gen'[g].step = gen[g].step /\ gen'[g].pc = "calling" /\ gen[g].step \in Nat
  BY <1>1, <1>3, BoundsAssumption DEF Holding, GenState
<1>5. \A c \in calls : c.id # n.id
  BY <1>2, <1>2a, <1>3 DEF StepInv, CallsOwned
<1>6. \A id \in slots : id[1] # g
  BY <1>3 DEF StepInv, SlotsCollected
<1>7. \A r \in arrived : r.id \in slots
  BY DEF StepInv, SlotsCollected
<1>8. CallsOwned'
  <2> SUFFICES ASSUME NEW d \in calls'
               PROVE  /\ d.id[2] <= gen'[d.id[1]].step
                      /\ d.id[2] = gen'[d.id[1]].step =>
                           gen'[d.id[1]].pc \notin {"idle", "lock", "step"}
                      /\ d.attached =>
                           gen'[d.id[1]].pc = "calling" /\ d.id[2] = gen'[d.id[1]].step
    BY DEF CallsOwned
  <2>1. CASE d = n
    BY <1>2, <1>2a, <1>4, <2>1
  <2>2. CASE d # n
    <3>1. d \in calls
      BY <1>3, <2>2
    <3>2. /\ d.id[2] <= gen[d.id[1]].step
          /\ d.id[2] = gen[d.id[1]].step => gen[d.id[1]].pc \notin {"idle", "lock", "step"}
          /\ d.attached => gen[d.id[1]].pc = "calling" /\ d.id[2] = gen[d.id[1]].step
      BY <3>1 DEF StepInv, CallsOwned
    <3>3. d.id[1] \in Generations
      BY <3>1, RequestPair DEF StepInv, TypeOK, Call
    <3> QED BY <1>3, <1>4, <3>2, <3>3
  <2> QED BY <2>1, <2>2
<1>9. SlotsCollected'
  <2>1. ASSUME NEW id \in slots'
        PROVE  /\ id[2] = gen'[id[1]].step
               /\ gen'[id[1]].pc \in {"calling", "wait", "timed_out", "rpc_error"}
    <3>1. CASE id = n.id
      BY <1>2, <1>2a, <1>4, <3>1
    <3>2. CASE id \in slots
      <4>1. id[1] \in Generations \ {g}
        BY <1>6, <3>2, RequestPair DEF StepInv, TypeOK
      <4> QED BY <1>4, <3>2, <4>1 DEF StepInv, SlotsCollected
    <3> QED BY <1>3, <3>1, <3>2
  <2> QED BY <1>3, <1>7, <2>1 DEF SlotsCollected
<1>10. OneCallPerStep'
  <2>1. \A r \in arrived : r.id # n.id
    BY <1>2, <1>2a, <1>6, <1>7
  <2> QED BY <1>3, <1>5, <2>1 DEF StepInv, OneCallPerStep
<1>11. n.id \in Requests
  BY <1>2, <1>2a DEF Call
<1>12. TypeOK'
  BY <1>2, <1>2a, <1>3, <1>4, <1>11 DEF StepInv, TypeOK, workerVars
<1>13. CallsEquipped'
  BY <1>2, <1>2a, <1>3 DEF StepInv, CallsEquipped, Handle, workerVars
<1> QED BY <1>8, <1>9, <1>10, <1>12, <1>13 DEF StepInv

-----------------------------------------------------------------------------
(***************************************************************************)
(* StepInv is inductive: the requests.                                     *)
(***************************************************************************)
\* What a cache that absorbs something becomes.
LEMMA CacheSet ==
  ASSUME TypeOK, NEW c, c.held \in Sessions, c.at \in Workers, NEW q \in Seq(Requests),
         handle' = WithCache(c, q)
  PROVE  /\ handle' \in [Sessions -> [Workers -> [freed : BOOLEAN, cache : Cache]]]
         /\ \A t \in Sessions, v \in Workers : handle'[t][v].cache =
              IF t = c.held /\ v = c.at THEN q ELSE handle[t][v].cache
<1> DEFINE s == c.held  w == c.at
<1>1. handle \in [Sessions -> [Workers -> [freed : BOOLEAN, cache : Cache]]]
  BY DEF TypeOK
<1>2. handle[s] \in [Workers -> [freed : BOOLEAN, cache : Cache]]
      /\ handle[s][w] \in [freed : BOOLEAN, cache : Cache]
  BY <1>1
<1> DEFINE h == [handle[s][w] EXCEPT !.cache = q]
<1>3. h \in [freed : BOOLEAN, cache : Cache] /\ h.cache = q
  BY <1>2 DEF Cache
<1>4. handle' = [handle EXCEPT ![s] = [handle[s] EXCEPT ![w] = h]]
  BY <1>1 DEF WithCache
<1> HIDE DEF h
<1>5. [handle[s] EXCEPT ![w] = h] \in [Workers -> [freed : BOOLEAN, cache : Cache]]
  BY <1>2, <1>3
<1>6. handle' \in [Sessions -> [Workers -> [freed : BOOLEAN, cache : Cache]]]
  BY <1>1, <1>4, <1>5
<1>7. \A t \in Sessions, v \in Workers :
        handle'[t][v] = IF t = s /\ v = w THEN h ELSE handle[t][v]
  BY <1>1, <1>2, <1>4
<1> QED BY <1>3, <1>6, <1>7

\* A request goes on as d: it keeps its owner and its handle.
LEMMA CallMoves ==
  ASSUME StepInv, NEW c \in calls, NEW d \in Call, Move(c, d),
         d.id = c.id, d.attached = c.attached,
         UNCHANGED <<slots, arrived>>,
         \A s \in Sessions, w \in Workers :
           handle[s][w].cache \in Seq(Requests) => handle'[s][w].cache \in Seq(Requests),
         d.pc # "lookup" => d.held \in Sessions,
         d.pc = "forward" => handle'[d.held][d.at].cache \in Seq(Requests)
  PROVE  /\ gen' \in [Generations -> GenState] /\ calls' \subseteq Call
         /\ CallsOwned' /\ SlotsCollected' /\ OneCallPerStep' /\ CallsEquipped'
<1>1. calls' = (calls \ {c}) \cup {d} /\ gen' = gen
  BY DEF Move
<1> DEFINE C == {}
<1>2. Return(C, FALSE) /\ C \in SUBSET calls
  BY <1>1, NoReturn DEF StepInv
<1>3. \A e \in calls' : \E b \in calls :
        e.id = b.id /\ (e.attached => b.attached /\ b \notin C)
  <2> SUFFICES ASSUME NEW e \in calls'
               PROVE  \E b \in calls :
                        e.id = b.id /\ (e.attached => b.attached /\ b \notin C)
    OBVIOUS
  <2>1. e = d \/ e \in calls
    BY <1>1
  <2> QED BY <2>1, Zenon
<1> HIDE DEF C
<1>4. CallsOwned'
  BY <1>2, <1>3, OwnersKept
<1>5. \A r \in arrived' : r.id \in slots
  BY DEF StepInv, SlotsCollected
<1>6. SlotsCollected'
  BY <1>2, <1>5, SlotsKept
<1>7. OneCallPerStep'
  BY <1>1 DEF StepInv, OneCallPerStep
<1>8. calls' \subseteq Call /\ gen' \in [Generations -> GenState]
  BY <1>1 DEF StepInv, TypeOK
<1>9. ASSUME NEW e \in calls'
      PROVE  /\ e.pc # "lookup" => e.held \in Sessions
             /\ e.pc = "forward" => handle'[e.held][e.at].cache \in Seq(Requests)
  <2>1. CASE e = d
    BY <2>1
  <2>2. CASE e \in calls
    <3>1. e.at \in Workers
      BY <2>2 DEF StepInv, TypeOK, Call
    <3> QED BY <2>2, <3>1 DEF StepInv, CallsEquipped, Handle
  <2> QED BY <1>1, <2>1, <2>2
<1>10. CallsEquipped'
  BY <1>9 DEF CallsEquipped, Handle
<1> QED BY <1>4, <1>6, <1>7, <1>8, <1>10

\* A request ends, and may leave its result in its slot.
LEMMA CallFinishes ==
  ASSUME StepInv, NEW c \in calls, NEW rpcError \in BOOLEAN, Finish(c, rpcError),
         NEW r \in Result, r.id = c.id,
         arrived' = arrived \/ (arrived' = arrived \cup {r} /\ c.id \in slots),
         UNCHANGED slots,
         \A s \in Sessions, w \in Workers :
           handle[s][w].cache \in Seq(Requests) => handle'[s][w].cache \in Seq(Requests)
  PROVE  /\ gen' \in [Generations -> GenState] /\ calls' \subseteq Call
         /\ arrived' \subseteq Result
         /\ CallsOwned' /\ SlotsCollected' /\ OneCallPerStep' /\ CallsEquipped'
<1>1. calls' = calls \ {c} /\ Return({c}, rpcError)
  BY DEF Finish
<1>2. \A e \in calls' : \E b \in calls :
        e.id = b.id /\ (e.attached => b.attached /\ b \notin {c})
  BY <1>1
<1>3. CallsOwned'
  BY <1>1, <1>2, OwnersKept
<1>4. \A q \in arrived' : q.id \in slots
  BY DEF StepInv, SlotsCollected
<1>5. SlotsCollected'
  BY <1>1, <1>4, SlotsKept
<1>6. OneCallPerStep'
  BY <1>1 DEF StepInv, OneCallPerStep
<1>7. calls' \subseteq Call /\ arrived' \subseteq Result
  BY <1>1 DEF StepInv, TypeOK
<1>8. gen' \in [Generations -> GenState]
  BY <1>1, ReturnEffect
<1>9. ASSUME NEW e \in calls'
      PROVE  /\ e.pc # "lookup" => e.held \in Sessions
             /\ e.pc = "forward" => handle'[e.held][e.at].cache \in Seq(Requests)
  <2>1. e \in calls /\ e.at \in Workers
    BY <1>1 DEF StepInv, TypeOK, Call
  <2> QED BY <2>1 DEF StepInv, CallsEquipped, Handle
<1>10. CallsEquipped'
  BY <1>9 DEF CallsEquipped, Handle
<1> QED BY <1>3, <1>5, <1>6, <1>7, <1>8, <1>10

\* The fields of a request that moves, in the three ways it can.
LEMMA CallFields ==
  ASSUME NEW c \in Call
  PROVE  /\ \A pc \in {"lookup", "prepare", "forward", "deliver"} :
              /\ [c EXCEPT !.pc = pc] \in Call
              /\ [c EXCEPT !.pc = pc].id = c.id /\ [c EXCEPT !.pc = pc].at = c.at
              /\ [c EXCEPT !.pc = pc].attached = c.attached
              /\ [c EXCEPT !.pc = pc].held = c.held /\ [c EXCEPT !.pc = pc].pc = pc
              /\ [c EXCEPT !.pc = pc].seen = c.seen
              /\ [c EXCEPT !.pc = pc].reset = c.reset
         /\ c.id \in Requests /\ c.at \in Workers /\ c.seen \in Seq(Seq(Requests))
         /\ c.held \in Sessions \cup {NoSession} /\ c.attached \in BOOLEAN
         /\ c.reset \in BOOLEAN
BY DEF Call

LEMMA LookUpSteps ==
  ASSUME StepInv, NEW c \in calls, LookUp(c)
  PROVE  StepInv'
<1>1. c \in Call /\ c.at \in Workers /\ c.id \in Requests /\ c.seen \in Seq(Seq(Requests))
  BY CallFields DEF StepInv, TypeOK
<1>2. UNCHANGED <<workerVars, session, redist, slots, arrived, text, faults>>
  BY DEF LookUp
<1>3. \A s \in Sessions, w \in Workers :
        handle[s][w].cache \in Seq(Requests) => handle'[s][w].cache \in Seq(Requests)
  BY <1>2 DEF workerVars
<1>4. CASE table[c.at] = NoSession
  <2>1. Finish(c, c.at = 1) /\ (c.at = 1) \in BOOLEAN
    BY <1>4 DEF LookUp
  <2> DEFINE r == [id |-> c.id, seen |-> c.seen]
  <2>2. r \in Result /\ r.id = c.id
    BY <1>1 DEF Result
  <2> HIDE DEF r
  <2>3. /\ gen' \in [Generations -> GenState] /\ calls' \subseteq Call
        /\ CallsOwned' /\ SlotsCollected' /\ OneCallPerStep' /\ CallsEquipped'
    BY <1>2, <1>3, <2>1, <2>2, CallFinishes
  <2> QED BY <1>2, <2>3 DEF StepInv, TypeOK, workerVars
<1>5. CASE table[c.at] # NoSession
  <2> DEFINE d == [c EXCEPT !.pc = "prepare", !.held = table[c.at]]
  <2>1. Move(c, d)
    BY <1>5 DEF LookUp
  <2>2. table[c.at] \in Sessions
    BY <1>1, <1>5 DEF StepInv, TypeOK
  <2>3. d \in Call /\ d.id = c.id /\ d.attached = c.attached /\ d.pc = "prepare"
        /\ d.held \in Sessions
    BY <1>1, <2>2 DEF Call
  <2> HIDE DEF d
  <2>4. /\ gen' \in [Generations -> GenState] /\ calls' \subseteq Call
        /\ CallsOwned' /\ SlotsCollected' /\ OneCallPerStep' /\ CallsEquipped'
    BY <1>2, <1>3, <2>1, <2>3, CallMoves
  <2> QED BY <1>2, <2>4 DEF StepInv, TypeOK, workerVars
<1> QED BY <1>4, <1>5

\* A request that is past the lookup has its handle.
LEMMA HeldHandle ==
  ASSUME StepInv, NEW c \in calls, c.pc # "lookup"
  PROVE  /\ c.held \in Sessions /\ c.at \in Workers /\ c.id \in Requests
         /\ c \in Call /\ c.seen \in Seq(Seq(Requests))
         /\ Handle(c) = handle[c.held][c.at] /\ Handle(c).cache \in Cache
         /\ Handle(c).freed \in BOOLEAN
         /\ c.pc = "forward" => Absorbed(c) \in Seq(Requests)
<1>1. c.held \in Sessions /\ c.at \in Workers /\ c.id \in Requests
      /\ c \in Call /\ c.seen \in Seq(Seq(Requests))
  BY CallFields DEF StepInv, CallsEquipped, TypeOK
<1>2. Handle(c) = handle[c.held][c.at] /\ Handle(c).cache \in Cache
      /\ Handle(c).freed \in BOOLEAN
  BY <1>1 DEF Handle, StepInv, TypeOK
<1>3. c.pc = "forward" => Handle(c).cache \in Seq(Requests)
  BY DEF StepInv, CallsEquipped
<1>4. c.pc = "forward" => Absorbed(c) \in Seq(Requests)
  BY <1>1, <1>3 DEF Absorbed
<1> QED BY <1>1, <1>2, <1>4

LEMMA PrepareCacheSteps ==
  ASSUME StepInv, NEW c \in calls, PrepareCache(c)
  PROVE  StepInv'
<1>1. /\ c.held \in Sessions /\ c.at \in Workers /\ c.id \in Requests
      /\ c \in Call /\ c.seen \in Seq(Seq(Requests))
      /\ Handle(c) = handle[c.held][c.at] /\ Handle(c).cache \in Cache
  BY HeldHandle DEF PrepareCache
<1>2. UNCHANGED <<table, session, redist, slots, arrived, text, faults>>
  BY DEF PrepareCache
<1> DEFINE d == [c EXCEPT !.pc = "forward"]
<1>3. d \in Call /\ d.id = c.id /\ d.attached = c.attached /\ d.pc = "forward"
      /\ d.held = c.held /\ d.at = c.at
  BY <1>1, CallFields
<1>4. \/ ~c.reset /\ Handle(c).cache # NoCache /\ Move(c, d) /\ handle' = handle
      \/ Finish(c, FALSE) /\ handle' = handle
      \/ handle' = WithCache(c, <<>>) /\ Move(c, d)
  BY DEF PrepareCache
<1> HIDE DEF d
<1>5. CASE ~c.reset /\ Handle(c).cache # NoCache /\ Move(c, d) /\ handle' = handle
  <2>1. handle'[d.held][d.at].cache \in Seq(Requests)
    BY <1>1, <1>3, <1>5 DEF Cache
  <2>2. /\ gen' \in [Generations -> GenState] /\ calls' \subseteq Call
        /\ CallsOwned' /\ SlotsCollected' /\ OneCallPerStep' /\ CallsEquipped'
    BY <1>1, <1>2, <1>3, <1>5, <2>1, CallMoves
  <2> QED BY <1>2, <1>5, <2>2 DEF StepInv, TypeOK
<1>6. CASE Finish(c, FALSE) /\ handle' = handle
  <2> DEFINE r == [id |-> c.id, seen |-> c.seen]
  <2>1. r \in Result /\ r.id = c.id
    BY <1>1 DEF Result
  <2> HIDE DEF r
  <2>2. /\ gen' \in [Generations -> GenState] /\ calls' \subseteq Call
        /\ CallsOwned' /\ SlotsCollected' /\ OneCallPerStep' /\ CallsEquipped'
    BY <1>2, <1>6, <2>1, CallFinishes
  <2> QED BY <1>2, <1>6, <2>2 DEF StepInv, TypeOK
<1>7. CASE handle' = WithCache(c, <<>>) /\ Move(c, d)
  <2>1. <<>> \in Seq(Requests)
    OBVIOUS
  <2>2. /\ handle' \in [Sessions -> [Workers -> [freed : BOOLEAN, cache : Cache]]]
        /\ \A t \in Sessions, v \in Workers : handle'[t][v].cache =
             IF t = c.held /\ v = c.at THEN <<>> ELSE handle[t][v].cache
    BY <1>1, <1>7, <2>1, CacheSet DEF StepInv
  <2>3. handle'[d.held][d.at].cache \in Seq(Requests)
    BY <1>1, <1>3, <2>1, <2>2
  <2>4. /\ gen' \in [Generations -> GenState] /\ calls' \subseteq Call
        /\ CallsOwned' /\ SlotsCollected' /\ OneCallPerStep' /\ CallsEquipped'
    BY <1>1, <1>2, <1>3, <1>7, <2>1, <2>2, <2>3, CallMoves
  <2> QED BY <1>2, <2>2, <2>4 DEF StepInv, TypeOK
<1> QED BY <1>4, <1>5, <1>6, <1>7

\* The request after the forward pass on its worker.
LEMMA ForwardedCall ==
  ASSUME StepInv, NEW c \in calls, Forward(c)
  PROVE  \E d \in Call :
           /\ Move(c, d) /\ d.id = c.id /\ d.attached = c.attached /\ d.reset = c.reset
           /\ d.seen = Append(c.seen, Absorbed(c))
           /\ \/ c.at < Shards /\ d.at = c.at + 1 /\ d.pc = "lookup"
              \/ c.at = Shards /\ d.at = c.at /\ d.pc = "deliver" /\ d.held = c.held
<1>1. c \in Call /\ c.at \in Workers /\ Absorbed(c) \in Seq(Requests)
      /\ c.seen \in Seq(Seq(Requests))
  BY HeldHandle DEF Forward
<1> DEFINE seen == Append(c.seen, Absorbed(c))
           d == IF c.at < Shards
                THEN [c EXCEPT !.at = c.at + 1, !.pc = "lookup", !.held = NoSession,
                               !.seen = seen]
                ELSE [c EXCEPT !.pc = "deliver", !.seen = seen]
<1>2. seen \in Seq(Seq(Requests))
  BY <1>1
<1>3. Move(c, d)
  BY DEF Forward
<1> HIDE DEF seen
<1>4. CASE c.at < Shards
  <2>1. c.at + 1 \in Workers
    BY <1>1, <1>4, BoundsAssumption DEF Workers
  <2>2. d = [c EXCEPT !.at = c.at + 1, !.pc = "lookup", !.held = NoSession, !.seen = seen]
    BY <1>4
  <2> HIDE DEF d
  <2>3. d \in Call
    BY <1>1, <1>2, <2>1, <2>2 DEF Call
  <2>4. d.id = c.id /\ d.attached = c.attached /\ d.reset = c.reset /\ d.seen = seen
        /\ d.at = c.at + 1 /\ d.pc = "lookup"
    BY <1>1, <2>2 DEF Call
  <2> QED BY <1>3, <1>4, <2>3, <2>4 DEF seen
<1>5. CASE ~(c.at < Shards)
  <2>1. c.at = Shards
    BY <1>1, <1>5, BoundsAssumption DEF Workers
  <2>2. d = [c EXCEPT !.pc = "deliver", !.seen = seen]
    BY <1>5
  <2> HIDE DEF d
  <2>3. d \in Call
    BY <1>1, <1>2, <2>2 DEF Call
  <2>4. d.id = c.id /\ d.attached = c.attached /\ d.reset = c.reset /\ d.seen = seen
        /\ d.at = c.at /\ d.pc = "deliver" /\ d.held = c.held
    BY <1>1, <2>2 DEF Call
  <2> QED BY <1>3, <2>1, <2>3, <2>4 DEF seen
<1> QED BY <1>4, <1>5

LEMMA ForwardSteps ==
  ASSUME StepInv, NEW c \in calls, Forward(c)
  PROVE  StepInv'
<1>1. /\ c.held \in Sessions /\ c.at \in Workers
      /\ Absorbed(c) \in Seq(Requests)
  BY HeldHandle DEF Forward
<1>2. /\ UNCHANGED <<table, session, redist, slots, arrived, text, faults>>
      /\ handle' = WithCache(c, Absorbed(c))
  BY DEF Forward
<1>3. /\ handle' \in [Sessions -> [Workers -> [freed : BOOLEAN, cache : Cache]]]
      /\ \A t \in Sessions, v \in Workers : handle'[t][v].cache =
           IF t = c.held /\ v = c.at THEN Absorbed(c) ELSE handle[t][v].cache
  BY <1>1, <1>2, CacheSet DEF StepInv
<1>4. PICK d \in Call :
        /\ Move(c, d) /\ d.id = c.id /\ d.attached = c.attached
        /\ \/ d.pc = "lookup"
           \/ d.pc = "deliver" /\ d.held = c.held
  BY ForwardedCall
<1>5. /\ gen' \in [Generations -> GenState] /\ calls' \subseteq Call
      /\ CallsOwned' /\ SlotsCollected' /\ OneCallPerStep' /\ CallsEquipped'
  BY <1>1, <1>2, <1>3, <1>4, CallMoves
<1> QED BY <1>2, <1>3, <1>5 DEF StepInv, TypeOK

\* What a fault does to the counter.
LEMMA FaultCounted ==
  ASSUME TypeOK, NEW kind, Fault(kind)
  PROVE  faults' \in 0..MaxFaults
BY BoundsAssumption DEF TypeOK, Fault

LEMMA ForwardFailsSteps ==
  ASSUME StepInv, NEW c \in calls, ForwardFails(c)
  PROVE  StepInv'
<1>1. /\ c.held \in Sessions /\ c.at \in Workers /\ c.id \in Requests
      /\ c.seen \in Seq(Seq(Requests)) /\ Absorbed(c) \in Seq(Requests)
  BY HeldHandle DEF ForwardFails
<1>2. /\ UNCHANGED <<table, session, redist, slots, arrived, text>>
      /\ Finish(c, FALSE)
      /\ \/ handle' = handle
         \/ handle' = WithCache(c, Absorbed(c))
  BY DEF ForwardFails
<1>3. faults' \in 0..MaxFaults
  BY FaultCounted DEF ForwardFails, StepInv, TypeOK
<1>4. /\ handle' \in [Sessions -> [Workers -> [freed : BOOLEAN, cache : Cache]]]
      /\ \A t \in Sessions, v \in Workers :
           handle[t][v].cache \in Seq(Requests) => handle'[t][v].cache \in Seq(Requests)
  <2>1. CASE handle' = handle
    BY <2>1 DEF StepInv, TypeOK
  <2>2. CASE handle' = WithCache(c, Absorbed(c))
    <3>1. /\ handle' \in [Sessions -> [Workers -> [freed : BOOLEAN, cache : Cache]]]
          /\ \A t \in Sessions, v \in Workers : handle'[t][v].cache =
               IF t = c.held /\ v = c.at THEN Absorbed(c) ELSE handle[t][v].cache
      BY <1>1, <2>2, CacheSet DEF StepInv
    <3> QED BY <1>1, <3>1
  <2> QED BY <1>2, <2>1, <2>2
<1> DEFINE r == [id |-> c.id, seen |-> c.seen]
<1>5. r \in Result /\ r.id = c.id
  BY <1>1 DEF Result
<1> HIDE DEF r
<1>6. /\ gen' \in [Generations -> GenState] /\ calls' \subseteq Call
      /\ CallsOwned' /\ SlotsCollected' /\ OneCallPerStep' /\ CallsEquipped'
  BY <1>2, <1>4, <1>5, CallFinishes
<1> QED BY <1>2, <1>3, <1>4, <1>6 DEF StepInv, TypeOK

LEMMA DeliverResultSteps ==
  ASSUME StepInv, NEW c \in calls, DeliverResult(c)
  PROVE  StepInv'
<1> DEFINE r == [id |-> c.id, seen |-> c.seen]
<1>1. r \in Result /\ r.id = c.id
  BY CallFields DEF Result, StepInv, TypeOK
<1>2. /\ UNCHANGED <<workerVars, session, redist, slots, text>>
      /\ Finish(c, FALSE)
      /\ arrived' = arrived \/ (arrived' = arrived \cup {r} /\ c.id \in slots)
  BY DEF DeliverResult
<1>3. faults' \in 0..MaxFaults
  BY FaultCounted DEF DeliverResult, StepInv, TypeOK
<1> HIDE DEF r
<1>4. handle' = handle
  BY <1>2 DEF workerVars
<1>5. /\ gen' \in [Generations -> GenState] /\ calls' \subseteq Call
      /\ arrived' \subseteq Result
      /\ CallsOwned' /\ SlotsCollected' /\ OneCallPerStep' /\ CallsEquipped'
  BY <1>1, <1>2, <1>4, CallFinishes
<1> QED BY <1>2, <1>3, <1>5 DEF StepInv, TypeOK, workerVars

\* A request whose connection is gone.
LEMMA DetachedCall ==
  ASSUME NEW c \in Call
  PROVE  LET d == Detached(c)
         IN  /\ d \in Call /\ d.attached = FALSE /\ d.id = c.id /\ d.at = c.at
             /\ d.pc = c.pc /\ d.held = c.held /\ d.seen = c.seen /\ d.reset = c.reset
BY DEF Call, Detached

\* Some requests are lost, some are detached, and the outermost calls of all
\* of these return.
LEMMA CallsCut ==
  ASSUME StepInv, NEW C \in SUBSET calls, NEW rpcError \in BOOLEAN,
         Return(C, rpcError), calls' \subseteq Call,
         \A d \in calls' : \E c \in calls :
           /\ d.id = c.id /\ d.at = c.at /\ d.pc = c.pc /\ d.held = c.held
           /\ \/ d = c /\ c \notin C
              \/ d = Detached(c) /\ d.attached = FALSE /\ c \in C,
         UNCHANGED <<handle, session, redist, slots, arrived, text>>,
         table' \in [Workers -> Sessions \cup {NoSession}], faults' \in 0..MaxFaults
  PROVE  StepInv'
<1>1. \A d \in calls' : \E c \in calls :
        d.id = c.id /\ (d.attached => c.attached /\ c \notin C)
  <2> SUFFICES ASSUME NEW d \in calls'
               PROVE  \E c \in calls : d.id = c.id /\ (d.attached => c.attached /\ c \notin C)
    OBVIOUS
  <2>1. PICK c \in calls : /\ d.id = c.id
                           /\ (d = c /\ c \notin C) \/ d.attached = FALSE
    OBVIOUS
  <2> QED BY <2>1, Zenon
<1>2. CallsOwned'
  BY <1>1, OwnersKept
<1>3. \A r \in arrived' : r.id \in slots
  BY DEF StepInv, SlotsCollected
<1>4. SlotsCollected'
  BY <1>3, SlotsKept
<1>5. gen' \in [Generations -> GenState]
  BY ReturnEffect
<1>6. OneCallPerStep'
  <2>1. ASSUME NEW d \in calls', NEW e \in calls', d.id = e.id
        PROVE  d = e
    <3>1. PICK c \in calls : /\ d.id = c.id
                             /\ \/ d = c /\ c \notin C
                                \/ d = Detached(c) /\ c \in C
      OBVIOUS
    <3>2. PICK b \in calls : /\ e.id = b.id
                             /\ \/ e = b /\ b \notin C
                                \/ e = Detached(b) /\ b \in C
      OBVIOUS
    <3>3. b = c
      <4>1. \A x, y \in calls : x.id = y.id => x = y
        BY DEF StepInv, OneCallPerStep
      <4>2. b.id = c.id
        BY <2>1, <3>1, <3>2
      <4> QED BY <4>1, <4>2
    <3> QED BY <3>1, <3>2, <3>3
  <2>2. ASSUME NEW d \in calls', NEW r \in arrived'
        PROVE  r.id # d.id
    <3>1. PICK c \in calls : d.id = c.id
      OBVIOUS
    <3> QED BY <3>1 DEF StepInv, OneCallPerStep
  <2>3. \A q, r \in arrived' : q.id = r.id => q = r
    BY DEF StepInv, OneCallPerStep
  <2> QED BY <2>1, <2>2, <2>3 DEF OneCallPerStep
<1>7. CallsEquipped'
  <2> SUFFICES ASSUME NEW d \in calls'
               PROVE  /\ d.pc # "lookup" => d.held \in Sessions
                      /\ d.pc = "forward" => handle[d.held][d.at].cache \in Seq(Requests)
    BY DEF CallsEquipped, Handle
  <2>1. PICK c \in calls : d.at = c.at /\ d.pc = c.pc /\ d.held = c.held
    OBVIOUS
  <2> QED BY <2>1 DEF StepInv, CallsEquipped, Handle
<1> QED BY <1>2, <1>4, <1>5, <1>6, <1>7 DEF StepInv, TypeOK

LEMMA LinkBreaksSteps ==
  ASSUME StepInv, NEW c \in calls, NEW i \in Workers, LinkBreaks(c, i)
  PROVE  StepInv'
<1> DEFINE d == Detached(c)
           C == {c}
<1>1. /\ d \in Call /\ d.attached = FALSE /\ d.id = c.id /\ d.at = c.at
      /\ d.pc = c.pc /\ d.held = c.held
  BY DetachedCall DEF StepInv, TypeOK
<1>2. /\ calls' = (calls \ {c}) \cup {d} /\ Return(C, i = 1) /\ Fault("link_breaks")
      /\ UNCHANGED <<workerVars, session, redist, slots, arrived, text>>
  BY DEF LinkBreaks
<1>3. faults' \in 0..MaxFaults
  BY <1>2, FaultCounted DEF StepInv
<1>4. calls' \subseteq Call
  BY <1>1, <1>2 DEF StepInv, TypeOK
<1>5. \A e \in calls' : \E b \in calls :
        /\ e.id = b.id /\ e.at = b.at /\ e.pc = b.pc /\ e.held = b.held
        /\ \/ e = b /\ b \notin C
           \/ e = Detached(b) /\ e.attached = FALSE /\ b \in C
  <2> SUFFICES ASSUME NEW e \in calls'
               PROVE  \E b \in calls :
                        /\ e.id = b.id /\ e.at = b.at /\ e.pc = b.pc /\ e.held = b.held
                        /\ \/ e = b /\ b \notin C
                           \/ e = Detached(b) /\ e.attached = FALSE /\ b \in C
    OBVIOUS
  <2>1. e = d \/ (e \in calls /\ e \notin C)
    BY <1>2
  <2> QED BY <1>1, <2>1, Zenon
<1>6. table' \in [Workers -> Sessions \cup {NoSession}]
  BY <1>2 DEF workerVars, StepInv, TypeOK
<1>7. UNCHANGED <<handle, session, redist, slots, arrived, text>>
  BY <1>2 DEF workerVars
<1>8. (i = 1) \in BOOLEAN /\ C \in SUBSET calls
  OBVIOUS
<1> HIDE DEF d, C
<1> QED BY <1>2, <1>3, <1>4, <1>5, <1>6, <1>7, <1>8, CallsCut

\* What a crash leaves of the requests.
LEMMA CrashedCalls ==
  ASSUME StepInv, NEW w \in Workers, Crash(w), NEW d \in calls'
  PROVE  \E c \in calls :
           /\ d \in Call /\ d.id = c.id /\ d.at = c.at /\ d.pc = c.pc /\ d.held = c.held
           /\ d.seen = c.seen /\ d.reset = c.reset
           /\ \/ d = c /\ c.at < w
              \/ d = Detached(c) /\ d.attached = FALSE /\ c.at > w
<1>1. CASE d \in calls /\ d.at < w
  BY <1>1 DEF StepInv, TypeOK
<1>2. CASE ~(d \in calls /\ d.at < w)
  <2>1. PICK c \in calls : d = Detached(c) /\ c.at > w
    BY <1>2 DEF Crash
  <2>2. c \in Call
    BY DEF StepInv, TypeOK
  <2>3. /\ d \in Call /\ d.attached = FALSE /\ d.id = c.id /\ d.at = c.at
        /\ d.pc = c.pc /\ d.held = c.held /\ d.seen = c.seen /\ d.reset = c.reset
    BY <2>1, <2>2, DetachedCall
  <2> QED BY <2>1, <2>3
<1> QED BY <1>1, <1>2

LEMMA CrashSteps ==
  ASSUME StepInv, NEW w \in Workers, Crash(w)
  PROVE  StepInv'
<1> DEFINE C == {c \in calls : c.at >= w}
<1>1. /\ Return(C, w = 1) /\ Fault("crash")
      /\ UNCHANGED <<handle, session, redist, slots, arrived, text>>
      /\ table' = [table EXCEPT ![w] = NoSession]
  BY DEF Crash
<1>2. \A d \in calls' : \E c \in calls :
        /\ d.id = c.id /\ d.at = c.at /\ d.pc = c.pc /\ d.held = c.held
        /\ \/ d = c /\ c \notin C
           \/ d = Detached(c) /\ d.attached = FALSE /\ c \in C
  <2> SUFFICES ASSUME NEW d \in calls'
               PROVE  \E c \in calls :
                        /\ d.id = c.id /\ d.at = c.at /\ d.pc = c.pc /\ d.held = c.held
                        /\ \/ d = c /\ c \notin C
                           \/ /\ d = Detached(c)
                              /\ d.attached = FALSE /\ c \in C
    OBVIOUS
  <2>1. PICK c \in calls :
           /\ d.id = c.id /\ d.at = c.at /\ d.pc = c.pc /\ d.held = c.held
           /\ \/ d = c /\ c.at < w
              \/ d = Detached(c) /\ d.attached = FALSE /\ c.at > w
    BY CrashedCalls
  <2>2. c.at \in Nat /\ w \in Nat
    BY BoundsAssumption DEF StepInv, TypeOK, Call, Workers
  <2>3. (c.at < w => c \notin C) /\ (c.at > w => c \in C)
    BY <2>2
  <2> QED BY <2>1, <2>3
<1>3. calls' \subseteq Call
  BY CrashedCalls
<1>4. faults' \in 0..MaxFaults
  BY <1>1, FaultCounted DEF StepInv
<1>5. table' \in [Workers -> Sessions \cup {NoSession}]
  BY <1>1 DEF StepInv, TypeOK
<1>6. C \in SUBSET calls /\ (w = 1) \in BOOLEAN
  OBVIOUS
<1> HIDE DEF C
<1> QED BY <1>1, <1>2, <1>3, <1>4, <1>5, <1>6, CallsCut

-----------------------------------------------------------------------------
(***************************************************************************)
(* StepInv is inductive: redistribution.                                   *)
(***************************************************************************)
\* The phases of a redistribution.
LEMMA RedistTypes ==
  ASSUME TypeOK, Redistribute \/ NextUnload \/ Install
  PROVE  redist' \in [pc : {"idle", "pop", "free", "install"}, w : Workers,
                     held : Sessions \cup {NoSession}, next : Sessions]
<1> DEFINE R == [pc : {"idle", "pop", "free", "install"}, w : Workers,
                 held : Sessions \cup {NoSession}, next : Sessions]
<1>1. redist \in R /\ 1 \in Workers /\ 1 \in Sessions
  BY BoundsAssumption DEF TypeOK, Workers, Sessions
<1>2. redist.w < Shards => redist.w + 1 \in Workers
  BY <1>1, BoundsAssumption DEF Workers
<1>3. CASE Redistribute
  <2>1. session + 1 \in Sessions
    BY <1>3, BoundsAssumption DEF Redistribute, TypeOK, Sessions, NoSession
  <2> QED BY <1>1, <1>3, <2>1 DEF Redistribute
<1>4. CASE NextUnload
  BY <1>1, <1>2, <1>4 DEF NextUnload
<1>5. CASE Install
  <2>1. \/ redist.w < Shards /\ redist' = [redist EXCEPT !.w = redist.w + 1]
        \/ redist' = IdleRedist
    BY <1>5 DEF Install
  <2>2. IdleRedist \in R
    BY <1>1 DEF IdleRedist
  <2> QED BY <1>1, <1>2, <2>1, <2>2
<1> QED BY <1>3, <1>4, <1>5

LEMMA RedistributionSteps ==
  ASSUME StepInv, Redistribute \/ RedistStep
  PROVE  StepInv'
<1>1. UNCHANGED <<gen, calls, slots, arrived, text>>
  BY DEF Redistribute, RedistStep, UnloadPop, UnloadFree, Install
<1>2. redist' \in [pc : {"idle", "pop", "free", "install"}, w : Workers,
                   held : Sessions \cup {NoSession}, next : Sessions]
  <2>1. CASE UnloadPop /\ redist' = [redist EXCEPT !.pc = "free", !.held = table[redist.w]]
    <3>1. table[redist.w] \in Sessions \cup {NoSession}
      BY DEF StepInv, TypeOK
    <3> QED BY <2>1, <3>1 DEF StepInv, TypeOK
  <2> QED BY <2>1, RedistTypes DEF StepInv, RedistStep, UnloadPop, UnloadFree
<1>3. table' \in [Workers -> Sessions \cup {NoSession}]
  <2>1. table \in [Workers -> Sessions \cup {NoSession}] /\ redist.w \in Workers
        /\ redist.next \in Sessions
    BY DEF StepInv, TypeOK
  <2>2. \/ table' = table
        \/ table' = [table EXCEPT ![redist.w] = NoSession]
        \/ table' = [table EXCEPT ![redist.w] = redist.next]
        \/ table' = [table EXCEPT ![redist.w] = table[redist.w]]
    BY <2>1 DEF Redistribute, RedistStep, UnloadPop, UnloadFree, Install, workerVars
  <2> QED BY <2>1, <2>2
<1>4. session' \in Sessions \cup {NoSession} /\ faults' \in 0..MaxFaults
  BY FaultCounted
     DEF StepInv, TypeOK, Redistribute, RedistStep, UnloadPop, UnloadFree, Install
<1>5. /\ handle' \in [Sessions -> [Workers -> [freed : BOOLEAN, cache : Cache]]]
      /\ \A s \in Sessions, w \in Workers : handle'[s][w].cache = handle[s][w].cache
  <2>1. handle \in [Sessions -> [Workers -> [freed : BOOLEAN, cache : Cache]]]
    BY DEF StepInv, TypeOK
  <2>2. \/ handle' = handle
        \/ handle' = [handle EXCEPT ![redist.held][redist.w].freed = TRUE]
    BY DEF Redistribute, RedistStep, UnloadPop, UnloadFree, Install, workerVars
  <2>3. CASE handle' = handle
    BY <2>1, <2>3
  <2>4. CASE handle' = [handle EXCEPT ![redist.held][redist.w].freed = TRUE]
    <3>1. redist.w \in Workers
      BY DEF StepInv, TypeOK
    <3>2. CASE redist.held \in Sessions
      <4> DEFINE h == [handle[redist.held][redist.w] EXCEPT !.freed = TRUE]
                 f == [handle[redist.held] EXCEPT ![redist.w] = h]
      <4>1. handle[redist.held][redist.w] \in [freed : BOOLEAN, cache : Cache]
        BY <2>1, <3>1, <3>2
      <4>2. /\ h \in [freed : BOOLEAN, cache : Cache]
            /\ h.cache = handle[redist.held][redist.w].cache
        BY <4>1
      <4>3. handle' = [handle EXCEPT ![redist.held] = f]
        BY <2>4
      <4> HIDE DEF h
      <4>4. f \in [Workers -> [freed : BOOLEAN, cache : Cache]]
            /\ \A w \in Workers : f[w].cache = handle[redist.held][w].cache
        BY <2>1, <3>1, <3>2, <4>2
      <4> HIDE DEF f
      <4> QED BY <2>1, <3>2, <4>3, <4>4
    <3>3. CASE redist.held \notin Sessions
      BY <2>1, <2>4, <3>3
    <3> QED BY <3>2, <3>3
  <2> QED BY <2>2, <2>3, <2>4
<1>6. TypeOK'
  BY <1>1, <1>2, <1>3, <1>4, <1>5 DEF StepInv, TypeOK
<1>7. SlotsCollected' /\ OneCallPerStep' /\ CallsOwned'
  BY <1>1 DEF StepInv, SlotsCollected, OneCallPerStep, CallsOwned
<1>8. CallsEquipped'
  <2> SUFFICES ASSUME NEW d \in calls
               PROVE  /\ d.pc # "lookup" => d.held \in Sessions
                      /\ d.pc = "forward" => handle'[d.held][d.at].cache \in Seq(Requests)
    BY <1>1 DEF CallsEquipped, Handle
  <2>1. d.at \in Workers
    BY DEF StepInv, TypeOK, Call
  <2>2. /\ d.pc # "lookup" => d.held \in Sessions
        /\ d.pc = "forward" => handle[d.held][d.at].cache \in Seq(Requests)
    BY DEF StepInv, CallsEquipped, Handle
  <2> QED BY <1>5, <2>1, <2>2
<1> QED BY <1>6, <1>7, <1>8 DEF StepInv

LEMMA NextSteps ==
  ASSUME StepInv, [Next]_vars
  PROVE  StepInv'
<1>1. ASSUME NEW g \in Generations, GenerationStep(g) \/ Close(g)
      PROVE  StepInv'
  BY <1>1, MovesAlone, StartStepSteps, TakeResultSteps, PopTimedOutSteps DEF GenerationStep
<1>2. ASSUME NEW c \in calls, CallStep(c)
      PROVE  StepInv'
  BY <1>2, LookUpSteps, PrepareCacheSteps, ForwardSteps, ForwardFailsSteps,
     DeliverResultSteps DEF CallStep
<1>3. ASSUME NEW c \in calls, NEW i \in Workers, LinkBreaks(c, i)
      PROVE  StepInv'
  BY <1>3, LinkBreaksSteps
<1>4. ASSUME NEW w \in Workers, Crash(w)
      PROVE  StepInv'
  BY <1>4, CrashSteps
<1>5. CASE Redistribute \/ RedistStep
  BY <1>5, RedistributionSteps
<1>6. CASE Quiescent \/ UNCHANGED vars
  BY <1>6 DEF Quiescent, vars, workerVars, StepInv, TypeOK, SlotsCollected,
     OneCallPerStep, CallsOwned, CallsEquipped, Handle
<1> QED BY <1>1, <1>2, <1>3, <1>4, <1>5, <1>6 DEF Next

\* Whatever fails, and also under redistribution, every request, slot and
\* result belongs to a step of its generation: the requests that are still
\* attached and the slots to the current one (_run_shard_step, ResultStore).
THEOREM StepInvariant == Spec => []StepInv
<1>1. Init => StepInv
  BY InitSteps
<1>2. StepInv /\ [Next]_vars => StepInv'
  BY NextSteps
<1> QED BY <1>1, <1>2, PTL DEF Spec

\* The types hold for any number of workers, loads, generations and tokens;
\* in particular a generation takes at most max_new_tokens steps.
THEOREM GenerationTypes == Spec => []TypeOK
<1>1. StepInv => TypeOK
  BY DEF StepInv
<1> QED BY <1>1, StepInvariant, PTL

\* No slot of the ResultStore outlives its step unless the first RunShard
\* call raised, and no result waits without its slot, in whatever order
\* results, timeouts, failures, crashes and redistributions come.
THEOREM SlotsAreCollected == Spec => []SlotsCollected
<1>1. StepInv => SlotsCollected
  BY DEF StepInv
<1> QED BY <1>1, StepInvariant, PTL

-----------------------------------------------------------------------------
(***************************************************************************)
(* A resident model: caches, and the workers a request may reach.          *)
(***************************************************************************)
\* The model is loaded once, and a connection breaks only with its worker.
Resident == MaxSessions = 1 /\ "link_breaks" \notin Faults

\* A cache that absorbs the next step.
LEMMA PrefixGrows ==
  ASSUME NEW g, NEW n \in Nat
  PROVE  Append(Prefix(g, n), <<g, n>>) = Prefix(g, n + 1)
<1> DEFINE s == Prefix(g, n)
<1>1. Len(s) = n /\ \A k \in 1..n : s[k] = <<g, k - 1>>
  BY DEF Prefix
<1>2. Append(s, <<g, n>>) =
        [k \in 1..(Len(s) + 1) |-> IF k \in 1..Len(s) THEN s[k] ELSE <<g, n>>]
  BY DEF Prefix
<1>3. \A k \in 1..(n + 1) : (IF k \in 1..n THEN s[k] ELSE <<g, n>>) = <<g, k - 1>>
  BY <1>1
<1> HIDE DEF s
<1> QED BY <1>1, <1>2, <1>3 DEF Prefix

\* What a request has seen, after one more shard.
LEMMA SeenGrows ==
  ASSUME NEW q, NEW n \in Nat
  PROVE  Append([k \in 1..n |-> q], q) = [k \in 1..(n + 1) |-> q]
OBVIOUS

\* What a generation has yielded, with one more token.
LEMMA TextGrows ==
  ASSUME NEW g, NEW n \in Nat
  PROVE  Append([k \in 1..n |-> Promise!RightToken(g, k - 1)], Promise!RightToken(g, n))
           = [k \in 1..(n + 1) |-> Promise!RightToken(g, k - 1)]
<1> DEFINE s == [k \in 1..n |-> Promise!RightToken(g, k - 1)]
<1>1. Len(s) = n /\ \A k \in 1..n : s[k] = Promise!RightToken(g, k - 1)
  OBVIOUS
<1>2. Append(s, Promise!RightToken(g, n)) =
        [k \in 1..(Len(s) + 1) |-> IF k \in 1..Len(s) THEN s[k] ELSE Promise!RightToken(g, n)]
  OBVIOUS
<1>3. \A k \in 1..(n + 1) :
        (IF k \in 1..n THEN s[k] ELSE Promise!RightToken(g, n)) = Promise!RightToken(g, k - 1)
  <2> SUFFICES ASSUME NEW k \in 1..(n + 1), k \notin 1..n
               PROVE  Promise!RightToken(g, n) = Promise!RightToken(g, k - 1)
    BY <1>1
  <2>1. k - 1 = n
    OBVIOUS
  <2> QED BY <2>1
<1> HIDE DEF s
<1> QED BY <1>1, <1>2, <1>3

\* A cache with the steps of a generation is not NoCache.
LEMMA PrefixIsCache ==
  ASSUME NEW g \in Generations, NEW n \in Nat
  PROVE  Prefix(g, n) # NoCache
<1>1. Prefix(g, n) \in Seq(Nat \X Nat)
  BY BoundsAssumption DEF Prefix, Generations
<1> QED BY <1>1, NoCacheAssumption

LEMMA ClearPart ==
  ASSUME NEW a \in Nat, NEW b \in Nat, NEW x \in Nat, NEW y \in Nat,
         Clear(a, b), a <= x, y <= b
  PROVE  Clear(x, y)
BY DEF Clear

LEMMA ClearAt ==
  ASSUME NEW a \in Nat, NEW b \in Nat, NEW w \in a..b, Clear(a, b)
  PROVE  table[w] # NoSession
BY DEF Clear

LEMMA ClearFrom ==
  ASSUME NEW a \in Nat, NEW b \in Nat, table[a] # NoSession, Clear(a + 1, b)
  PROVE  Clear(a, b)
BY DEF Clear

-----------------------------------------------------------------------------
(***************************************************************************)
(* ResidentInv is inductive.                                               *)
(***************************************************************************)
\* A request that writes a cache is the only one that can reach it: neither
\* a request that comes after it, nor a step to come, nor what a generation
\* has left behind depends on the cache.
LEMMA OwnWorker ==
  ASSUME StepInv, ResidentInv, NEW c \in calls, c.pc # "lookup"
  PROVE  /\ \A d \in calls \ {c} : \A i \in (Passed(d) + 1)..Shards :
              Clear(d.at, i) => i # c.at
         /\ \A d \in calls \ {c} : \A i \in 1..Passed(d) :
              /\ gen[d.id[1]].pc \in Holding /\ gen[d.id[1]].step = d.id[2]
              /\ Clear(1, i)
              => i # c.at
         /\ \A r \in arrived : \A i \in Workers :
              gen[r.id[1]].pc \in Holding /\ Clear(1, i) => i # c.at
         /\ \A g \in Generations : \A i \in Workers :
              gen[g].pc \in {"yield", "step"} /\ Clear(1, i) => i # c.at
<1>1. c.at \in Nat /\ c.at >= 1 /\ c.at \in Workers /\ Shards \in Nat
  BY BoundsAssumption DEF StepInv, TypeOK, Call, Workers
<1>2. ASSUME NEW d \in calls \ {c}, NEW i \in (Passed(d) + 1)..Shards,
             Clear(d.at, i), i = c.at
      PROVE  FALSE
  <2>1. d.at \in Nat /\ d.at >= 1 /\ d.at <= Shards
    BY BoundsAssumption DEF StepInv, TypeOK, Call, Workers
  <2>2. d.at <= i
    BY <1>1, <2>1 DEF Passed
  <2>3. ~Clear(d.at, c.at - 1)
    BY <1>2, <2>2 DEF ResidentInv, Separated
  <2> QED BY <1>1, <1>2, <2>1, <2>3, ClearPart
<1>3. ASSUME Clear(1, c.at)
      PROVE  /\ gen[c.id[1]].pc = "calling" /\ c.id[2] = gen[c.id[1]].step
             /\ c.id[1] \in Generations
  <2>1. Clear(1, c.at - 1)
    BY <1>1, <1>3, ClearPart
  <2>2. c.attached
    BY <2>1 DEF ResidentInv, Separated, CutOff
  <2>3. c.id[1] \in Generations
    BY RequestPair DEF StepInv, TypeOK, Call
  <2> QED BY <2>2, <2>3 DEF StepInv, CallsOwned
<1>4. ASSUME Clear(1, c.at), NEW g \in Generations, gen[g].pc \in Holding
      PROVE  g = c.id[1] /\ gen[g].pc = "calling"
  BY <1>3, <1>4 DEF ResidentInv, OneHolder, Holding
<1>5. ASSUME Clear(1, c.at), NEW id \in Requests, gen[id[1]].pc \in Holding,
             gen[id[1]].step = id[2]
      PROVE  id = c.id
  <2>1. id[1] \in Generations
    BY RequestPair
  <2>2. id[1] = c.id[1]
    BY <1>4, <1>5, <2>1
  <2>3. id[2] = c.id[2]
    BY <1>3, <1>5, <2>2
  <2>4. c.id \in Requests
    BY DEF StepInv, TypeOK, Call
  <2> QED BY <2>2, <2>3, <2>4, RequestPair
<1>6. ASSUME NEW d \in calls \ {c}, NEW i \in 1..Passed(d), gen[d.id[1]].pc \in Holding,
             gen[d.id[1]].step = d.id[2], Clear(1, i), i = c.at
      PROVE  FALSE
  <2>1. d.id \in Requests
    BY DEF StepInv, TypeOK, Call
  <2>2. d.id = c.id
    BY <1>5, <1>6, <2>1
  <2> QED BY <2>2 DEF StepInv, OneCallPerStep
<1>7. ASSUME NEW r \in arrived, gen[r.id[1]].pc \in Holding, Clear(1, c.at)
      PROVE  FALSE
  <2>1. r.id \in slots /\ r.id \in Requests
    BY DEF StepInv, SlotsCollected, TypeOK
  <2>2. gen[r.id[1]].step = r.id[2]
    BY <2>1 DEF StepInv, SlotsCollected
  <2>3. r.id = c.id
    BY <1>5, <1>7, <2>1, <2>2
  <2> QED BY <2>3 DEF StepInv, OneCallPerStep
<1>8. ASSUME NEW g \in Generations, gen[g].pc \in {"yield", "step"}, Clear(1, c.at)
      PROVE  FALSE
  BY <1>4, <1>8 DEF Holding
<1> QED BY <1>2, <1>6, <1>7, <1>8

\* Where a request has got to.
LEMMA Whereabouts ==
  ASSUME StepInv, NEW c \in calls
  PROVE  /\ c \in Call /\ c.at \in Workers /\ c.at \in Nat /\ c.at >= 1 /\ c.at <= Shards
         /\ Shards \in Nat /\ Passed(c) \in Nat /\ Passed(c) <= Shards /\ Passed(c) >= c.at - 1
         /\ c.id \in Requests /\ c.id[1] \in Generations /\ c.id[2] \in Nat
         /\ c.id = <<c.id[1], c.id[2]>>
<1>1. c \in Call /\ c.id \in Requests /\ c.at \in Workers
  BY DEF StepInv, TypeOK, Call
<1>2. c.at \in Nat /\ c.at >= 1 /\ c.at <= Shards /\ Shards \in Nat
  BY <1>1, BoundsAssumption DEF Workers
<1>3. Passed(c) \in Nat /\ Passed(c) <= Shards /\ Passed(c) >= c.at - 1
  BY <1>2 DEF Passed
<1> QED BY <1>1, <1>2, <1>3, RequestPair

\* Calls return: nobody takes the lock, and nobody yields.
LEMMA HoldersReturn ==
  ASSUME StepInv, NEW C \in SUBSET calls, NEW rpcError \in BOOLEAN, Return(C, rpcError)
  PROVE  \A g \in Generations :
           /\ gen'[g].step = gen[g].step /\ gen'[g].session = gen[g].session
           /\ gen'[g].pc \in Holding => gen[g].pc \in Holding
           /\ gen'[g].pc \in {"idle", "lock", "step", "yield"} => gen'[g] = gen[g]
           /\ gen'[g].pc # "idle" => gen[g].pc # "idle"
           /\ Yielded(g)' = Yielded(g)
<1> SUFFICES ASSUME NEW g \in Generations
             PROVE  /\ gen'[g].step = gen[g].step /\ gen'[g].session = gen[g].session
                    /\ gen'[g].pc \in Holding => gen[g].pc \in Holding
                    /\ gen'[g].pc \in {"idle", "lock", "step", "yield"} => gen'[g] = gen[g]
                    /\ gen'[g].pc # "idle" => gen[g].pc # "idle"
                    /\ Yielded(g)' = Yielded(g)
  OBVIOUS
<1>1. /\ gen'[g].step = gen[g].step /\ gen'[g].session = gen[g].session
      /\ \/ gen'[g] = gen[g]
         \/ gen[g].pc = "calling" /\ gen'[g].pc \in {"rpc_error", "wait"}
  BY ReturnEffect
<1> QED BY <1>1 DEF Holding, Yielded

\* While calls return and the caches that a new request may reach stay as
\* they are, so does what is known of the generations.
LEMMA GenerationsKept ==
  ASSUME StepInv, ResidentInv, NEW C \in SUBSET calls, NEW rpcError \in BOOLEAN,
         Return(C, rpcError), UNCHANGED <<session, redist, text>>,
         \A i \in Workers : Clear(1, i)' => Clear(1, i),
         \A g \in Generations : \A i \in Workers :
           gen[g].pc \in {"yield", "step"} /\ Clear(1, i) =>
             handle'[1][i].cache = handle[1][i].cache
  PROVE  OneHolder' /\ StepsRight'
<1>1. \A g \in Generations :
        /\ gen'[g].step = gen[g].step /\ gen'[g].session = gen[g].session
        /\ gen'[g].pc \in Holding => gen[g].pc \in Holding
        /\ gen'[g].pc \in {"idle", "lock", "step", "yield"} => gen'[g] = gen[g]
        /\ gen'[g].pc # "idle" => gen[g].pc # "idle"
        /\ Yielded(g)' = Yielded(g)
  BY HoldersReturn
<1>2. OneHolder'
  BY <1>1 DEF ResidentInv, OneHolder
<1>3. ASSUME NEW g \in Generations
      PROVE  text'[g] = [i \in 1..Yielded(g)' |-> Promise!RightToken(g, i - 1)]
  BY <1>1 DEF ResidentInv, StepsRight
<1>4. ASSUME NEW g \in Generations,
             gen'[g].pc = "yield" \/ (gen'[g].pc = "step" /\ gen'[g].step > 0)
      PROVE  ReachableHave(g, Yielded(g))'
  <2>1. gen'[g] = gen[g] /\ Yielded(g)' = Yielded(g) /\ gen[g].pc \in {"yield", "step"}
    BY <1>1, <1>4
  <2>2. ReachableHave(g, Yielded(g))
    BY <1>4, <2>1 DEF ResidentInv, StepsRight
  <2>3. ASSUME NEW i \in Workers, Clear(1, i)'
        PROVE  handle'[1][i].cache = Prefix(g, Yielded(g))
    BY <2>1, <2>2, <2>3 DEF ReachableHave, CacheHas
  <2> HIDE DEF Yielded
  <2> QED BY <2>1, <2>3 DEF ReachableHave, CacheHas, Prefix
<1>5. ASSUME NEW g \in Generations, gen'[g].pc \in {"idle", "lock"}
      PROVE  gen'[g].step = 0
  BY <1>1, <1>5 DEF ResidentInv, StepsRight
<1> QED BY <1>2, <1>3, <1>4, <1>5 DEF StepsRight

\* What a step of request c leaves alone: the other requests, the results
\* and the generations, whatever it writes into the cache of its worker.
LEMMA OthersKept ==
  ASSUME StepInv, ResidentInv, NEW c \in calls, NEW C \in SUBSET calls,
         NEW rpcError \in BOOLEAN, Return(C, rpcError),
         UNCHANGED <<table, session, redist, text>>,
         handle' = handle \/ (/\ c.pc # "lookup"
                              /\ \A i \in Workers \ {c.at} :
                                   handle'[1][i].cache = handle[1][i].cache)
  PROVE  /\ OneHolder' /\ StepsRight'
         /\ \A d \in calls \ {c} : CutOff(d)' /\ CachesAhead(d)' /\ CachesBehind(d)'
         /\ \A r \in arrived : ResultRight(r)'
<1>1. \A a, b : Clear(a, b)' <=> Clear(a, b)
  BY DEF Clear
<1>2. \A i \in Workers : i # c.at \/ c.pc = "lookup" =>
        handle'[1][i].cache = handle[1][i].cache
  OBVIOUS
<1>3. OneHolder' /\ StepsRight'
  <2>1. ASSUME NEW g \in Generations, NEW i \in Workers,
               gen[g].pc \in {"yield", "step"}, Clear(1, i)
        PROVE  handle'[1][i].cache = handle[1][i].cache
    BY <1>2, <2>1, OwnWorker
  <2> QED BY <1>1, <2>1, GenerationsKept
<1>4. ASSUME NEW d \in calls \ {c}
      PROVE  CutOff(d)' /\ CachesAhead(d)' /\ CachesBehind(d)'
  <2>1. CutOff(d)'
    BY <1>1 DEF ResidentInv, Separated, CutOff
  <2>2. Passed(d) \in Nat /\ Passed(d) <= Shards /\ d.id[1] \in Generations /\ Shards \in Nat
    BY Whereabouts
  <2>3. CachesAhead(d)'
    <3> SUFFICES ASSUME NEW i \in (Passed(d) + 1)..Shards, Clear(d.at, i),
                        d.reset => i = d.at /\ d.pc = "forward"
                 PROVE  handle'[1][i].cache = Prefix(d.id[1], d.id[2])
      BY <1>1 DEF CachesAhead, CacheHas, ResidentInv
    <3>1. i \in Workers
      BY <2>2 DEF Workers
    <3>2. handle[1][i].cache = Prefix(d.id[1], d.id[2])
      BY DEF ResidentInv, CachesAhead, CacheHas
    <3>3. handle'[1][i].cache = handle[1][i].cache
      BY <1>2, <3>1, OwnWorker
    <3> QED BY <3>2, <3>3
  <2>4. CachesBehind(d)'
    <3> SUFFICES ASSUME gen'[d.id[1]].pc \in Holding, gen'[d.id[1]].step = d.id[2],
                        NEW i \in 1..Passed(d), Clear(1, i)
                 PROVE  handle'[1][i].cache = Prefix(d.id[1], d.id[2] + 1)
      BY <1>1 DEF CachesBehind, CacheHas, ResidentInv
    <3>1. i \in Workers
      BY <2>2 DEF Workers
    <3>2. gen[d.id[1]].pc \in Holding /\ gen[d.id[1]].step = d.id[2]
      BY <2>2, HoldersReturn
    <3>3. handle[1][i].cache = Prefix(d.id[1], d.id[2] + 1)
      BY <3>2 DEF ResidentInv, CachesBehind, CacheHas
    <3>4. handle'[1][i].cache = handle[1][i].cache
      BY <1>2, <3>1, <3>2, OwnWorker
    <3> QED BY <3>3, <3>4
  <2> QED BY <2>1, <2>3, <2>4
<1>5. ASSUME NEW r \in arrived
      PROVE  ResultRight(r)'
  <2>1. r.id[1] \in Generations
    BY RequestPair DEF StepInv, TypeOK, Result
  <2> SUFFICES ASSUME gen'[r.id[1]].pc \in Holding, NEW i \in Workers, Clear(1, i)
               PROVE  handle'[1][i].cache = Prefix(r.id[1], r.id[2] + 1)
    BY <1>1 DEF ResultRight, ReachableHave, CacheHas, ResidentInv
  <2>2. gen[r.id[1]].pc \in Holding
    BY <2>1, HoldersReturn
  <2>3. handle[1][i].cache = Prefix(r.id[1], r.id[2] + 1)
    BY <2>2 DEF ResidentInv, ResultRight, ReachableHave, CacheHas
  <2>4. handle'[1][i].cache = handle[1][i].cache
    BY <1>2, <2>2, OwnWorker
  <2> QED BY <2>3, <2>4
<1> QED BY <1>3, <1>4, <1>5

\* A request ends without leaving a result.
LEMMA EndsResident ==
  ASSUME StepInv, ResidentInv, NEW c \in calls, NEW rpcError \in BOOLEAN,
         Finish(c, rpcError), UNCHANGED <<table, session, redist, text, arrived>>,
         handle' = handle \/ (/\ c.pc # "lookup"
                              /\ \A i \in Workers \ {c.at} :
                                   handle'[1][i].cache = handle[1][i].cache)
  PROVE  ResidentInv'
<1> DEFINE C == {c}
<1>1. calls' = calls \ {c} /\ Return(C, rpcError) /\ C \in SUBSET calls
  BY DEF Finish
<1> HIDE DEF C
<1>2. /\ OneHolder' /\ StepsRight'
      /\ \A d \in calls \ {c} : CutOff(d)' /\ CachesAhead(d)' /\ CachesBehind(d)'
      /\ \A r \in arrived : ResultRight(r)'
  BY <1>1, OthersKept
<1>3. Separated'
  <2>1. \A a, b : Clear(a, b)' <=> Clear(a, b)
    BY DEF Clear
  <2>2. \A d, e \in calls : d # e /\ d.at <= e.at => ~Clear(d.at, e.at - 1)
    BY DEF ResidentInv, Separated
  <2> QED BY <1>1, <1>2, <2>1, <2>2 DEF Separated
<1> QED BY <1>1, <1>2, <1>3 DEF ResidentInv

\* A request goes on as d, on its worker or past it to the next.
LEMMA GoesOnResident ==
  ASSUME StepInv, ResidentInv, NEW c \in calls, NEW d \in Call, Move(c, d),
         UNCHANGED <<table, session, redist, text, arrived>>,
         handle' = handle \/ (/\ c.pc # "lookup"
                              /\ \A i \in Workers \ {c.at} :
                                   handle'[1][i].cache = handle[1][i].cache),
         d.attached = c.attached,
         d.at = c.at \/ (d.at = c.at + 1 /\ table[c.at] # NoSession),
         d.pc # "lookup" => d.held = 1 /\ table[d.at] # NoSession,
         CachesAhead(d)', CachesBehind(d)'
  PROVE  ResidentInv'
<1> DEFINE C == {}
<1>1. calls' = (calls \ {c}) \cup {d} /\ Return(C, FALSE) /\ C \in SUBSET calls
  BY NoReturn DEF Move, StepInv
<1> HIDE DEF C
<1>2. /\ OneHolder' /\ StepsRight'
      /\ \A e \in calls \ {c} : CutOff(e)' /\ CachesAhead(e)' /\ CachesBehind(e)'
      /\ \A r \in arrived : ResultRight(r)'
  BY <1>1, OthersKept
<1>3. \A a, b : Clear(a, b)' <=> Clear(a, b)
  BY DEF Clear
<1>4. c.at \in Nat /\ c.at >= 1
  BY Whereabouts
<1>5. CutOff(d)'
  <2>1. ~c.attached => ~Clear(1, c.at - 1)
    BY DEF ResidentInv, Separated, CutOff
  <2>2. ~Clear(1, c.at - 1) => ~Clear(1, d.at - 1)
    BY <1>4, ClearPart
  <2>3. ~d.attached => ~Clear(1, d.at - 1)
    BY <2>1, <2>2
  <2> QED BY <1>3, <2>3 DEF CutOff
<1>6. ASSUME NEW e \in calls, e # c
      PROVE  /\ e.at <= d.at => ~Clear(e.at, d.at - 1)
             /\ d.at <= e.at => ~Clear(d.at, e.at - 1)
  <2>1. e.at \in Nat /\ e.at >= 1
    BY Whereabouts
  <2>2. /\ e.at <= c.at => ~Clear(e.at, c.at - 1)
        /\ c.at <= e.at => ~Clear(c.at, e.at - 1)
    BY <1>6 DEF ResidentInv, Separated
  <2>3. CASE d.at = c.at
    BY <2>2, <2>3
  <2>4. CASE d.at = c.at + 1 /\ table[c.at] # NoSession
    <3>1. ASSUME e.at <= c.at PROVE ~Clear(e.at, d.at - 1)
      BY <1>4, <2>1, <2>2, <2>4, <3>1, ClearPart
    <3>2. ASSUME c.at < e.at PROVE ~Clear(d.at, e.at - 1)
      <4>1. ~Clear(c.at, e.at - 1) /\ e.at - 1 \in Nat
        BY <1>4, <2>1, <2>2, <3>2
      <4> QED BY <1>4, <2>4, <4>1, ClearFrom
    <3>3. e.at # d.at
      <4> SUFFICES ASSUME e.at = d.at PROVE FALSE
        OBVIOUS
      <4>1. ~Clear(c.at, c.at)
        BY <1>4, <2>2, <2>4
      <4> QED BY <1>4, <2>4, <4>1 DEF Clear
    <3> QED BY <1>4, <2>1, <2>4, <3>1, <3>2, <3>3
  <2> QED BY <2>3, <2>4
<1>7. Separated'
  <2>1. \A e \in calls' : CutOff(e)'
    BY <1>1, <1>2, <1>5
  <2>2. \A e, f \in calls : e # f /\ e.at <= f.at => ~Clear(e.at, f.at - 1)
    BY DEF ResidentInv, Separated
  <2>3. \A e, f \in calls' : e # f /\ e.at <= f.at => ~Clear(e.at, f.at - 1)
    BY <1>1, <1>6, <2>2
  <2> QED BY <1>3, <2>1, <2>3 DEF Separated
<1> QED BY <1>1, <1>2, <1>7 DEF ResidentInv

LEMMA LookUpResident ==
  ASSUME Resident, StepInv, ResidentInv, NEW c \in calls, LookUp(c)
  PROVE  ResidentInv'
<1>1. c \in Call /\ c.at \in Workers /\ Passed(c) \in Nat
  BY Whereabouts
<1>2. c.pc = "lookup" /\ UNCHANGED <<workerVars, session, redist, slots, arrived, text, faults>>
  BY DEF LookUp
<1>3. handle' = handle /\ table' = table
  BY <1>2 DEF workerVars
<1>4. CASE table[c.at] = NoSession
  <2>1. Finish(c, c.at = 1) /\ (c.at = 1) \in BOOLEAN
    BY <1>4 DEF LookUp
  <2> QED BY <1>2, <1>3, <2>1, EndsResident
<1>5. CASE table[c.at] # NoSession
  <2>1. table[c.at] \in Sessions
    BY <1>1, <1>5 DEF StepInv, TypeOK
  <2>2. table[c.at] = 1
    BY <2>1 DEF Resident, Sessions
  <2> DEFINE d == [c EXCEPT !.pc = "prepare", !.held = 1]
  <2>3. Move(c, d)
    BY <1>5, <2>2 DEF LookUp
  <2>4. d \in Call
    BY <1>1, <2>1, <2>2 DEF Call
  <2>5. /\ d.id = c.id /\ d.attached = c.attached /\ d.pc = "prepare" /\ d.at = c.at
        /\ d.held = 1 /\ d.seen = c.seen /\ d.reset = c.reset
    BY <1>1 DEF Call
  <2> HIDE DEF d
  <2>6. Passed(d) = Passed(c)
    BY <1>2, <2>5 DEF Passed
  <2>7. \A a, b : Clear(a, b)' <=> Clear(a, b)
    BY <1>3 DEF Clear
  <2>8. gen' = gen
    BY <2>3 DEF Move
  <2>9. CachesAhead(c) /\ CachesBehind(c)
    BY DEF ResidentInv
  <2>10. CachesAhead(d)'
    BY <1>2, <1>3, <2>5, <2>6, <2>7, <2>9 DEF CachesAhead, CacheHas
  <2>11. CachesBehind(d)'
    BY <1>3, <2>5, <2>6, <2>7, <2>8, <2>9 DEF CachesBehind, CacheHas
  <2> QED BY <1>2, <1>3, <1>5, <2>3, <2>4, <2>5, <2>10, <2>11, GoesOnResident
<1> QED BY <1>4, <1>5

\* A cache is written: those of the other workers stay.
LEMMA OneCacheWritten ==
  ASSUME Resident, StepInv, ResidentInv, NEW c \in calls, c.pc # "lookup",
         NEW q \in Seq(Requests), handle' = WithCache(c, q)
  PROVE  /\ handle'[1][c.at].cache = q
         /\ \A i \in Workers \ {c.at} : handle'[1][i].cache = handle[1][i].cache
<1>1. c.held = 1 /\ c.held \in Sessions /\ c.at \in Workers /\ 1 \in Sessions
  BY HeldHandle DEF ResidentInv, Separated, CutOff
<1>2. \A t \in Sessions, v \in Workers : handle'[t][v].cache =
           IF t = c.held /\ v = c.at THEN q ELSE handle[t][v].cache
  BY <1>1, CacheSet DEF StepInv
<1> QED BY <1>1, <1>2

\* The cache of the worker that a request has reached.
LEMMA OwnCacheRight ==
  ASSUME StepInv, ResidentInv, NEW c \in calls, c.pc \in {"prepare", "forward"},
         c.reset => c.pc = "forward"
  PROVE  Handle(c).cache = Prefix(c.id[1], c.id[2])
<1>1. c.at \in Nat /\ c.at >= 1 /\ c.at <= Shards /\ Shards \in Nat
  BY Whereabouts
<1>2. c.held = 1 /\ table[c.at] # NoSession
  BY DEF ResidentInv, Separated, CutOff
<1>3. Clear(c.at, c.at)
  BY <1>1, <1>2 DEF Clear
<1>4. c.at \in (Passed(c) + 1)..Shards
  BY <1>1 DEF Passed
<1>5. CachesAhead(c)
  BY DEF ResidentInv
<1>6. CacheHas(c.at, c.id[1], c.id[2])
  BY <1>3, <1>4, <1>5 DEF CachesAhead
<1> QED BY <1>2, <1>6 DEF CacheHas, Handle

LEMMA PrepareCacheResident ==
  ASSUME Resident, StepInv, ResidentInv, NEW c \in calls, PrepareCache(c)
  PROVE  ResidentInv'
<1>1. /\ c \in Call /\ c.at \in Nat /\ c.at >= 1 /\ c.at <= Shards /\ Shards \in Nat
      /\ c.id[1] \in Generations /\ c.id[2] \in Nat /\ c.at \in Workers
  BY Whereabouts
<1>2. c.pc = "prepare" /\ UNCHANGED <<table, session, redist, slots, arrived, text, faults>>
  BY DEF PrepareCache
<1> DEFINE d == [c EXCEPT !.pc = "forward"]
<1>3. /\ d \in Call /\ d.id = c.id /\ d.attached = c.attached /\ d.pc = "forward"
      /\ d.held = c.held /\ d.at = c.at /\ d.seen = c.seen /\ d.reset = c.reset
  BY <1>1, CallFields
<1>4. \/ ~c.reset /\ Move(c, d) /\ handle' = handle
      \/ Finish(c, FALSE) /\ handle' = handle
      \/ /\ handle' = WithCache(c, <<>>) /\ Move(c, d)
         /\ c.reset \/ Handle(c).cache = NoCache
  BY DEF PrepareCache
<1> HIDE DEF d
<1>5. Passed(d) = Passed(c) /\ Passed(c) = c.at - 1
  BY <1>2, <1>3 DEF Passed
<1>6. \A a, b : Clear(a, b)' <=> Clear(a, b)
  BY <1>2 DEF Clear
<1>7. CachesAhead(c) /\ CachesBehind(c)
  BY DEF ResidentInv
<1>8. c.held = 1 /\ table[c.at] # NoSession
  BY <1>2 DEF ResidentInv, Separated, CutOff
<1>9. CASE ~c.reset /\ Move(c, d) /\ handle' = handle
  <2>1. gen' = gen
    BY <1>9 DEF Move
  <2>2. CachesAhead(d)'
    BY <1>3, <1>5, <1>6, <1>7, <1>9 DEF CachesAhead, CacheHas
  <2>3. CachesBehind(d)'
    BY <1>3, <1>5, <1>6, <1>7, <1>9, <2>1 DEF CachesBehind, CacheHas
  <2> QED BY <1>2, <1>3, <1>8, <1>9, <2>2, <2>3, GoesOnResident
<1>10. CASE Finish(c, FALSE) /\ handle' = handle
  BY <1>2, <1>10, EndsResident
<1>11. CASE /\ handle' = WithCache(c, <<>>) /\ Move(c, d)
            /\ c.reset \/ Handle(c).cache = NoCache
  <2>1. c.reset
    BY <1>1, <1>2, <1>11, OwnCacheRight, PrefixIsCache
  <2>2. c.id[2] = 0
    BY <1>7, <2>1 DEF CachesAhead
  <2>3. <<>> \in Seq(Requests)
    OBVIOUS
  <2>4. /\ handle'[1][c.at].cache = <<>>
        /\ \A i \in Workers \ {c.at} : handle'[1][i].cache = handle[1][i].cache
    BY <1>2, <1>11, <2>3, OneCacheWritten
  <2>5. Prefix(c.id[1], c.id[2]) = <<>>
    BY <2>2 DEF Prefix
  <2>6. CachesAhead(d)'
    BY <1>3, <2>1, <2>2, <2>4, <2>5 DEF CachesAhead, CacheHas
  <2>7. gen' = gen
    BY <1>11 DEF Move
  <2>8. \A i \in 1..Passed(c) : i \in Workers \ {c.at}
    BY <1>1, <1>5 DEF Workers
  <2>9. CachesBehind(d)'
    BY <1>3, <1>5, <1>6, <1>7, <2>4, <2>7, <2>8 DEF CachesBehind, CacheHas
  <2> QED BY <1>2, <1>3, <1>8, <1>11, <2>4, <2>6, <2>9, GoesOnResident
<1> QED BY <1>4, <1>9, <1>10, <1>11

\* After the forward pass the cache holds the request's own step.
LEMMA AbsorbedRight ==
  ASSUME StepInv, ResidentInv, NEW c \in calls, c.pc = "forward"
  PROVE  Absorbed(c) = Prefix(c.id[1], c.id[2] + 1)
<1>1. Handle(c).cache = Prefix(c.id[1], c.id[2])
  BY OwnCacheRight
<1>2. c.id = <<c.id[1], c.id[2]>> /\ c.id[2] \in Nat
  BY Whereabouts
<1>3. Append(Prefix(c.id[1], c.id[2]), <<c.id[1], c.id[2]>>) = Prefix(c.id[1], c.id[2] + 1)
  BY <1>2, PrefixGrows
<1> QED BY <1>1, <1>2, <1>3 DEF Absorbed

LEMMA ForwardResident ==
  ASSUME Resident, StepInv, ResidentInv, NEW c \in calls, Forward(c)
  PROVE  ResidentInv'
<1>1. /\ c \in Call /\ c.at \in Nat /\ c.at >= 1 /\ c.at <= Shards /\ Shards \in Nat
      /\ c.id[1] \in Generations /\ c.id[2] \in Nat /\ c.at \in Workers
  BY Whereabouts
<1>2. /\ c.pc = "forward" /\ handle' = WithCache(c, Absorbed(c))
      /\ UNCHANGED <<table, session, redist, slots, arrived, text, faults>>
  BY DEF Forward
<1> DEFINE q == Prefix(c.id[1], c.id[2] + 1)
<1>3. Absorbed(c) = q /\ Absorbed(c) \in Seq(Requests)
  BY <1>2, AbsorbedRight, HeldHandle
<1>4. /\ handle'[1][c.at].cache = q
      /\ \A i \in Workers \ {c.at} : handle'[1][i].cache = handle[1][i].cache
  BY <1>2, <1>3, OneCacheWritten
<1>5. PICK d \in Call :
           /\ Move(c, d) /\ d.id = c.id /\ d.attached = c.attached /\ d.reset = c.reset
           /\ d.seen = Append(c.seen, q)
           /\ \/ c.at < Shards /\ d.at = c.at + 1 /\ d.pc = "lookup"
              \/ c.at = Shards /\ d.at = c.at /\ d.pc = "deliver" /\ d.held = c.held
  BY <1>3, ForwardedCall
<1> HIDE DEF q
<1>6. Passed(c) = c.at - 1 /\ Passed(d) = c.at
  BY <1>1, <1>2, <1>5 DEF Passed
<1>7. \A a, b : Clear(a, b)' <=> Clear(a, b)
  BY <1>2 DEF Clear
<1>8. CachesAhead(c) /\ CachesBehind(c)
  BY DEF ResidentInv
<1>9. c.held = 1 /\ table[c.at] # NoSession
  BY <1>2 DEF ResidentInv, Separated, CutOff
<1>10. gen' = gen
  BY <1>5 DEF Move
<1>11. CachesAhead(d)'
  <2> SUFFICES ASSUME NEW i \in (Passed(d) + 1)..Shards, Clear(d.at, i),
                      d.reset => i = d.at /\ d.pc = "forward"
               PROVE  handle'[1][i].cache = Prefix(c.id[1], c.id[2])
    BY <1>5, <1>7, <1>8 DEF CachesAhead, CacheHas
  <2>1. d.at = c.at + 1 /\ i \in Nat /\ i > c.at /\ i \in Workers \ {c.at}
    BY <1>1, <1>5, <1>6 DEF Workers
  <2>2. ~c.reset
    BY <1>5, <2>1
  <2>3. Clear(c.at, i)
    BY <1>1, <1>9, <2>1, ClearFrom
  <2>4. i \in (Passed(c) + 1)..Shards
    BY <1>1, <1>6, <2>1
  <2>5. handle[1][i].cache = Prefix(c.id[1], c.id[2])
    BY <1>8, <2>2, <2>3, <2>4 DEF CachesAhead, CacheHas
  <2> QED BY <1>4, <2>1, <2>5
<1>12. CachesBehind(d)'
  <2>1. c.seen = [i \in 1..(c.at - 1) |-> q]
    BY <1>6, <1>8 DEF CachesBehind, q
  <2>2. c.at - 1 \in Nat /\ (c.at - 1) + 1 = c.at
    BY <1>1
  <2>3. d.seen = [i \in 1..c.at |-> q]
    BY <1>5, <2>1, <2>2, SeenGrows
  <2>4. ASSUME gen[c.id[1]].pc \in Holding, gen[c.id[1]].step = c.id[2],
               NEW i \in 1..c.at, Clear(1, i)
        PROVE  handle'[1][i].cache = q
    <3>1. CASE i = c.at
      BY <1>4, <3>1
    <3>2. CASE i # c.at
      <4>1. i \in 1..Passed(c) /\ i \in Workers \ {c.at}
        BY <1>1, <1>6, <3>2 DEF Workers
      <4> QED BY <1>4, <1>8, <2>4, <4>1 DEF CachesBehind, CacheHas, q
    <3> QED BY <3>1, <3>2
  <2> QED BY <1>5, <1>6, <1>7, <1>10, <2>3, <2>4 DEF CachesBehind, CacheHas, q
<1> QED BY <1>2, <1>4, <1>5, <1>9, <1>11, <1>12, GoesOnResident

LEMMA ForwardFailsResident ==
  ASSUME Resident, StepInv, ResidentInv, NEW c \in calls, ForwardFails(c)
  PROVE  ResidentInv'
<1>1. /\ UNCHANGED <<table, session, redist, slots, arrived, text>>
      /\ Finish(c, FALSE) /\ c.pc = "forward"
      /\ handle' = handle \/ handle' = WithCache(c, Absorbed(c))
  BY DEF ForwardFails
<1>2. Absorbed(c) \in Seq(Requests)
  BY <1>1, HeldHandle
<1>3. handle' = handle \/ \A i \in Workers \ {c.at} :
                            handle'[1][i].cache = handle[1][i].cache
  BY <1>1, <1>2, OneCacheWritten
<1> QED BY <1>1, <1>3, EndsResident

LEMMA DeliverResultResident ==
  ASSUME Resident, StepInv, ResidentInv, NEW c \in calls, DeliverResult(c)
  PROVE  ResidentInv'
<1> DEFINE r == [id |-> c.id, seen |-> c.seen]
           C == {c}
<1>1. /\ UNCHANGED <<workerVars, session, redist, slots, text>>
      /\ Finish(c, FALSE) /\ c.pc = "deliver"
      /\ arrived' = arrived \/ (arrived' = arrived \cup {r} /\ c.id \in slots)
  BY DEF DeliverResult
<1>2. calls' = calls \ {c} /\ Return(C, FALSE) /\ C \in SUBSET calls
  BY <1>1 DEF Finish
<1>3. handle' = handle /\ table' = table
  BY <1>1 DEF workerVars
<1>4. r.id = c.id /\ r.seen = c.seen
  OBVIOUS
<1> HIDE DEF C, r
<1>5. /\ OneHolder' /\ StepsRight'
      /\ \A d \in calls \ {c} : CutOff(d)' /\ CachesAhead(d)' /\ CachesBehind(d)'
      /\ \A s \in arrived : ResultRight(s)'
  BY <1>1, <1>2, <1>3, OthersKept
<1>6. \A a, b : Clear(a, b)' <=> Clear(a, b)
  BY <1>3 DEF Clear
<1>7. Separated'
  <2>1. \A d, e \in calls : d # e /\ d.at <= e.at => ~Clear(d.at, e.at - 1)
    BY DEF ResidentInv, Separated
  <2> QED BY <1>2, <1>5, <1>6, <2>1 DEF Separated
<1>8. ASSUME c.id \in slots
      PROVE  ResultRight(r)'
  <2>1. c.id[1] \in Generations
    BY Whereabouts
  <2>2. Passed(c) = Shards /\ CachesBehind(c)
    BY <1>1 DEF Passed, ResidentInv
  <2>3. r.seen = Promise!RightToken(c.id[1], c.id[2])
    BY <1>4, <2>2 DEF CachesBehind, Prefix, Promise!RightToken, Promise!OwnState
  <2>4. ASSUME gen'[c.id[1]].pc \in Holding, NEW i \in Workers, Clear(1, i)
        PROVE  handle[1][i].cache = Prefix(c.id[1], c.id[2] + 1)
    <3>1. gen[c.id[1]].pc \in Holding
      BY <1>2, <2>1, <2>4, HoldersReturn
    <3>2. gen[c.id[1]].step = c.id[2]
      BY <1>8 DEF StepInv, SlotsCollected
    <3> QED BY <2>2, <2>4, <3>1, <3>2 DEF CachesBehind, CacheHas, Workers
  <2> QED BY <1>3, <1>4, <1>6, <2>3, <2>4 DEF ResultRight, ReachableHave, CacheHas
<1>9. \A s \in arrived' : ResultRight(s)'
  BY <1>1, <1>5, <1>8
<1> QED BY <1>2, <1>5, <1>7, <1>9 DEF ResidentInv

\* A crash cuts the detached requests off from those that come after them.
LEMMA CrashResident ==
  ASSUME Resident, StepInv, ResidentInv, NEW w \in Workers, Crash(w)
  PROVE  ResidentInv'
<1> DEFINE C == {c \in calls : c.at >= w}
<1>1. /\ Return(C, w = 1) /\ C \in SUBSET calls /\ (w = 1) \in BOOLEAN
      /\ UNCHANGED <<handle, session, redist, slots, arrived, text>>
      /\ table' = [table EXCEPT ![w] = NoSession]
  BY DEF Crash
<1> HIDE DEF C
<1>2. w \in Nat /\ w >= 1 /\ \A v : table[v] # NoSession /\ v # w => table'[v] # NoSession
  BY <1>1, BoundsAssumption DEF Workers, StepInv, TypeOK
<1>3. table'[w] = NoSession /\ \A v \in Workers : table'[v] # NoSession => table[v] # NoSession
  BY <1>1 DEF StepInv, TypeOK
<1>4. ASSUME NEW a \in Nat, NEW b \in Nat, a >= 1, b <= Shards, Clear(a, b)'
      PROVE  Clear(a, b) /\ w \notin a..b
  BY <1>3, <1>4, BoundsAssumption DEF Clear, Workers
<1>5. ASSUME NEW d \in calls'
      PROVE  \E c \in calls :
           /\ d \in Call /\ d.id = c.id /\ d.at = c.at /\ d.pc = c.pc /\ d.held = c.held
           /\ d.seen = c.seen /\ d.reset = c.reset
           /\ \/ d = c /\ c.at < w
              \/ d = Detached(c) /\ d.attached = FALSE /\ c.at > w
  BY CrashedCalls
<1>6. OneHolder' /\ StepsRight'
  <2>1. \A i \in Workers : Clear(1, i)' => Clear(1, i)
    BY <1>4, BoundsAssumption DEF Workers
  <2> QED BY <1>1, <2>1, GenerationsKept
<1>7. \A g \in Generations :
        gen'[g].step = gen[g].step /\ (gen'[g].pc \in Holding => gen[g].pc \in Holding)
  BY <1>1, HoldersReturn
<1>8. ASSUME NEW d \in calls'
      PROVE  CutOff(d)' /\ CachesAhead(d)' /\ CachesBehind(d)'
  <2>1. PICK c \in calls :
           /\ d \in Call /\ d.id = c.id /\ d.at = c.at /\ d.pc = c.pc /\ d.held = c.held
           /\ d.seen = c.seen /\ d.reset = c.reset
           /\ \/ d = c /\ c.at < w
              \/ d = Detached(c) /\ d.attached = FALSE /\ c.at > w
    BY <1>5
  <2>2. /\ c.at \in Nat /\ c.at >= 1 /\ c.at <= Shards /\ Shards \in Nat
        /\ Passed(c) \in Nat /\ Passed(c) <= Shards /\ Passed(c) >= c.at - 1
        /\ c.id[1] \in Generations
    BY Whereabouts
  <2>3. CutOff(c) /\ CachesAhead(c) /\ CachesBehind(c)
    BY DEF ResidentInv, Separated
  <2>4. d.pc # "lookup" => d.held = 1 /\ table'[d.at] # NoSession
    BY <1>2, <2>1, <2>2, <2>3 DEF CutOff
  <2>5. ASSUME Clear(1, d.at - 1)'
        PROVE  d.attached
    <3>1. Clear(1, c.at - 1) /\ w \notin 1..(c.at - 1)
      BY <1>4, <2>1, <2>2, <2>5
    <3>2. d = c
      BY <1>2, <2>1, <2>2, <3>1
    <3>3. c.attached
      BY <2>3, <3>1 DEF CutOff
    <3> QED BY <3>2, <3>3, Zenon
  <2>6. CutOff(d)'
    BY <2>4, <2>5 DEF CutOff
  <2>7. Passed(d) = Passed(c)
    BY <2>1 DEF Passed
  <2>8. CachesAhead(d)'
    <3> SUFFICES ASSUME NEW i \in (Passed(c) + 1)..Shards, Clear(c.at, i)',
                        c.reset => i = c.at /\ c.pc = "forward"
                 PROVE  handle[1][i].cache = Prefix(c.id[1], c.id[2])
      BY <1>1, <2>1, <2>3, <2>7 DEF CachesAhead, CacheHas
    <3>1. Clear(c.at, i)
      BY <1>4, <2>2
    <3> QED BY <2>3, <3>1 DEF CachesAhead, CacheHas
  <2>9. CachesBehind(d)'
    <3> SUFFICES ASSUME gen'[c.id[1]].pc \in Holding, gen'[c.id[1]].step = c.id[2],
                        NEW i \in 1..Passed(c), Clear(1, i)'
                 PROVE  handle[1][i].cache = Prefix(c.id[1], c.id[2] + 1)
      BY <1>1, <2>1, <2>3, <2>7 DEF CachesBehind, CacheHas
    <3>1. Clear(1, i)
      BY <1>4, <2>2
    <3>2. gen[c.id[1]].pc \in Holding /\ gen[c.id[1]].step = c.id[2]
      BY <1>7, <2>2
    <3> QED BY <2>3, <3>1, <3>2 DEF CachesBehind, CacheHas
  <2> QED BY <2>6, <2>8, <2>9
<1>9. ASSUME NEW d \in calls', NEW e \in calls', d # e, d.at <= e.at, Clear(d.at, e.at - 1)'
      PROVE  FALSE
  <2>1. PICK c \in calls :
           /\ d.at = c.at
           /\ (d = c /\ c.at < w) \/ (d = Detached(c) /\ c.at > w)
    BY <1>5
  <2>2. PICK b \in calls :
           /\ e.at = b.at
           /\ (e = b /\ b.at < w) \/ (e = Detached(b) /\ b.at > w)
    BY <1>5
  <2>3. /\ c.at \in Nat /\ c.at >= 1 /\ b.at \in Nat /\ b.at >= 1 /\ b.at <= Shards
        /\ Shards \in Nat
    BY Whereabouts
  <2>4. c # b
    BY <1>2, <1>9, <2>1, <2>2, <2>3
  <2>5. ~Clear(c.at, b.at - 1)
    BY <1>9, <2>1, <2>2, <2>4 DEF ResidentInv, Separated
  <2> QED BY <1>4, <1>9, <2>1, <2>2, <2>3, <2>5
<1>10. Separated'
  BY <1>8, <1>9 DEF Separated
<1>11. ASSUME NEW r \in arrived'
       PROVE  ResultRight(r)'
  <2>1. r \in arrived /\ r.id[1] \in Generations /\ ResultRight(r)
    BY <1>1, RequestPair DEF StepInv, TypeOK, Result, ResidentInv
  <2>2. ASSUME gen'[r.id[1]].pc \in Holding, NEW i \in Workers, Clear(1, i)'
        PROVE  handle[1][i].cache = Prefix(r.id[1], r.id[2] + 1)
    <3>1. Clear(1, i)
      BY <1>4, <2>2, BoundsAssumption DEF Workers
    <3> QED BY <1>7, <2>1, <2>2, <3>1 DEF ResultRight, ReachableHave, CacheHas
  <2> QED BY <1>1, <2>1, <2>2 DEF ResultRight, ReachableHave, CacheHas
<1> QED BY <1>6, <1>8, <1>10, <1>11 DEF ResidentInv

\* A generation moves between its steps: the workers and the requests stay.
LEMMA GenerationResident ==
  ASSUME StepInv, ResidentInv, StepInv', NEW g \in Generations,
         \A f \in Generations \ {g} : gen'[f] = gen[f],
         gen'[g].session = 1 \/ gen'[g].pc = "idle",
         gen'[g].pc \in Holding /\ gen'[g].pc # "step" =>
           gen[g].pc \in Holding /\ gen'[g].step = gen[g].step,
         gen'[g].pc \in Holding => \A f \in Generations \ {g} : gen[f].pc \notin Holding,
         UNCHANGED <<workerVars, session, redist, calls>>, arrived' \subseteq arrived,
         \A f \in Generations \ {g} : text'[f] = text[f],
         text'[g] = [i \in 1..Yielded(g)' |-> Promise!RightToken(g, i - 1)],
         gen'[g].pc = "yield" \/ (gen'[g].pc = "step" /\ gen'[g].step > 0)
           => ReachableHave(g, Yielded(g)'),
         gen'[g].pc \in {"idle", "lock"} => gen'[g].step = 0
  PROVE  ResidentInv'
<1>1. handle' = handle /\ table' = table
  BY DEF workerVars
<1>2. \A a, b : Clear(a, b)' <=> Clear(a, b)
  BY <1>1 DEF Clear
<1>3. OneHolder'
  BY DEF ResidentInv, OneHolder
<1>4. Separated'
  BY <1>1, <1>2 DEF ResidentInv, Separated, CutOff
<1>5. StepsRight'
  <2> SUFFICES ASSUME NEW f \in Generations
      PROVE  /\ text'[f] = [i \in 1..Yielded(f)' |-> Promise!RightToken(f, i - 1)]
             /\ gen'[f].pc = "yield" \/ (gen'[f].pc = "step" /\ gen'[f].step > 0)
                  => ReachableHave(f, Yielded(f))'
             /\ gen'[f].pc \in {"idle", "lock"} => gen'[f].step = 0
    BY DEF StepsRight
  <2>1. \A n : ReachableHave(f, n) => \A i \in Workers : Clear(1, i)' =>
                                        handle'[1][i].cache = Prefix(f, n)
    BY <1>1, <1>2 DEF ReachableHave, CacheHas
  <2>2. ReachableHave(f, Yielded(f)') => ReachableHave(f, Yielded(f))'
    <3> HIDE DEF Yielded
    <3> QED BY <2>1 DEF ReachableHave, CacheHas, Prefix
  <2>3. CASE f = g
    BY <2>2, <2>3
  <2>4. CASE f # g
    <3>1. gen'[f] = gen[f] /\ text'[f] = text[f] /\ Yielded(f)' = Yielded(f)
      BY <2>4 DEF Yielded
    <3> QED BY <2>2, <3>1 DEF ResidentInv, StepsRight
  <2> QED BY <2>3, <2>4
<1>6. ASSUME NEW c \in calls'
      PROVE  CachesAhead(c)' /\ CachesBehind(c)'
  <2>1. c \in calls /\ CachesAhead(c) /\ CachesBehind(c) /\ c.id[1] \in Generations
    BY Whereabouts DEF ResidentInv
  <2>2. CachesAhead(c)'
    BY <1>1, <1>2, <2>1 DEF CachesAhead, CacheHas
  <2>3. gen'[c.id[1]].pc \in Holding /\ gen'[c.id[1]].step = c.id[2] =>
          gen[c.id[1]].pc \in Holding /\ gen[c.id[1]].step = c.id[2]
    <3>1. c.id[2] = gen'[c.id[1]].step => gen'[c.id[1]].pc # "step"
      BY DEF StepInv, CallsOwned
    <3> QED BY <2>1, <3>1
  <2>4. CachesBehind(c)'
    BY <1>1, <1>2, <2>1, <2>3 DEF CachesBehind, CacheHas
  <2> QED BY <2>2, <2>4
<1>7. ASSUME NEW r \in arrived'
      PROVE  ResultRight(r)'
  <2>1. r \in arrived /\ r.id[1] \in Generations /\ ResultRight(r)
    BY RequestPair DEF StepInv, TypeOK, Result, ResidentInv
  <2>2. gen'[r.id[1]].pc # "step"
    BY DEF StepInv, SlotsCollected
  <2>3. gen'[r.id[1]].pc \in Holding => gen[r.id[1]].pc \in Holding
    BY <2>1, <2>2
  <2> QED BY <1>1, <1>2, <2>1, <2>3 DEF ResultRight, ReachableHave, CacheHas
<1> QED BY <1>3, <1>4, <1>5, <1>6, <1>7 DEF ResidentInv

\* What is known of a generation and of the others when it holds the lock.
LEMMA OfGeneration ==
  ASSUME StepInv, ResidentInv, NEW g \in Generations
  PROVE  /\ gen \in [Generations -> GenState] /\ gen[g].step \in Nat
         /\ gen[g].pc # "idle" => gen[g].session = 1
         /\ gen[g].pc \in Holding => \A f \in Generations \ {g} : gen[f].pc \notin Holding
         /\ text[g] = [i \in 1..Yielded(g) |-> Promise!RightToken(g, i - 1)]
         /\ gen[g].pc = "yield" => ReachableHave(g, Yielded(g))
         /\ gen[g].pc \in {"idle", "lock"} => gen[g].step = 0
BY BoundsAssumption DEF StepInv, TypeOK, GenState, ResidentInv, OneHolder, StepsRight

LEMMA MovesAloneResident ==
  ASSUME StepInv, ResidentInv, NEW g \in Generations,
         Begin(g) \/ Acquire(g) \/ TimesOut(g) \/ Continue(g) \/ Close(g)
  PROVE  ResidentInv'
<1>1. StepInv'
  BY MovesAlone
<1>2. /\ gen \in [Generations -> GenState] /\ gen[g] \in GenState /\ gen[g].step \in Nat
      /\ gen[g].pc # "idle" => gen[g].session = 1
      /\ gen[g].pc \in Holding => \A f \in Generations \ {g} : gen[f].pc \notin Holding
      /\ text[g] = [i \in 1..Yielded(g) |-> Promise!RightToken(g, i - 1)]
      /\ gen[g].pc = "yield" => ReachableHave(g, Yielded(g))
      /\ gen[g].pc \in {"idle", "lock"} => gen[g].step = 0
  BY OfGeneration
<1>3. UNCHANGED <<workerVars, session, redist, calls, slots, arrived, text, faults>>
  BY DEF Begin, Acquire, TimesOut, Continue, Close
<1>4. \A f \in Generations \ {g} : gen'[f] = gen[f]
  BY <1>2 DEF Begin, Acquire, TimesOut, Continue, Close
<1> DEFINE Becomes(pc, k) == gen'[g].pc = pc /\ gen'[g].step = k
                               /\ gen'[g].session = 1
<1>5. CASE Begin(g)
  <2>1. gen' = [gen EXCEPT ![g] = [gen[g] EXCEPT !.pc = "lock", !.session = session]]
        /\ gen[g].pc = "idle"
    BY <1>2, <1>5 DEF Begin
  <2>2. gen'[g] = [gen[g] EXCEPT !.pc = "lock", !.session = session]
    BY <1>2, <2>1
  <2>3. Becomes("lock", gen[g].step)
    BY <1>2, <2>2 DEF GenState, ResidentInv, OneHolder
  <2>4. Yielded(g)' = Yielded(g)
    BY <2>1, <2>3 DEF Yielded
  <2> QED BY <1>1, <1>2, <1>3, <1>4, <2>1, <2>3, <2>4, GenerationResident DEF Holding
<1>6. CASE Acquire(g)
  <2>1. gen' = [gen EXCEPT ![g] = [gen[g] EXCEPT !.pc = "step"]] /\ gen[g].pc = "lock"
    BY <1>2, <1>6 DEF Acquire
  <2>2. Becomes("step", gen[g].step)
    BY <1>2, <2>1 DEF GenState
  <2>3. Yielded(g)' = Yielded(g)
    BY <2>1, <2>2 DEF Yielded
  <2>4. ASSUME NEW f \in Generations \ {g} PROVE gen[f].pc \notin Holding
    <3>1. gen[f].pc # "idle" => gen[f].session = gen[g].session
      BY <1>2, <2>1, OfGeneration
    <3> QED BY <1>6, <3>1 DEF Acquire, Holding
  <2> QED BY <1>1, <1>2, <1>3, <1>4, <2>1, <2>2, <2>3, <2>4, GenerationResident
<1>7. CASE TimesOut(g)
  <2>1. gen' = [gen EXCEPT ![g] = [gen[g] EXCEPT !.pc = "timed_out"]] /\ gen[g].pc = "wait"
    BY <1>2, <1>7 DEF TimesOut
  <2>2. Becomes("timed_out", gen[g].step)
    BY <1>2, <2>1 DEF GenState
  <2>3. Yielded(g)' = Yielded(g)
    BY <2>1, <2>2 DEF Yielded
  <2>4. gen[g].pc \in Holding
    BY <2>1 DEF Holding
  <2> QED BY <1>1, <1>2, <1>3, <1>4, <2>1, <2>2, <2>3, <2>4, GenerationResident
<1>8. CASE Continue(g)
  <2>1. gen[g].pc = "yield" /\ gen[g].pc \in Holding
    BY <1>8 DEF Continue, Holding
  <2>2. CASE gen[g].step + 1 < MaxTokens
    <3>1. gen' = [gen EXCEPT ![g] = [gen[g] EXCEPT !.pc = "step", !.step = gen[g].step + 1]]
      BY <1>2, <1>8, <2>2 DEF Continue
    <3>2. gen'[g] = [gen[g] EXCEPT !.pc = "step", !.step = gen[g].step + 1]
      BY <1>2, <3>1
    <3>3. Becomes("step", gen[g].step + 1)
      BY <1>2, <2>1, <3>2 DEF GenState
    <3>4. Yielded(g)' = Yielded(g)
      BY <2>1, <3>3 DEF Yielded
    <3> QED BY <1>1, <1>2, <1>3, <1>4, <2>1, <3>3, <3>4, GenerationResident
  <2>3. CASE ~(gen[g].step + 1 < MaxTokens)
    <3>1. gen' = [gen EXCEPT ![g] = [gen[g] EXCEPT !.pc = "done"]]
      BY <1>2, <1>8, <2>3 DEF Continue
    <3>2. Becomes("done", gen[g].step)
      BY <1>2, <2>1, <3>1 DEF GenState
    <3>3. Yielded(g)' = Yielded(g)
      BY <2>1, <3>2 DEF Yielded
    <3> QED BY <1>1, <1>2, <1>3, <1>4, <2>1, <3>2, <3>3, GenerationResident DEF Holding
  <2> QED BY <2>2, <2>3
<1>9. CASE Close(g)
  <2>1. gen' = [gen EXCEPT ![g] = [gen[g] EXCEPT !.pc = "closed"]] /\ gen[g].pc = "yield"
    BY <1>2, <1>9 DEF Close
  <2>2. Becomes("closed", gen[g].step)
    BY <1>2, <2>1 DEF GenState
  <2>3. Yielded(g)' = Yielded(g)
    BY <2>1, <2>2 DEF Yielded
  <2> QED BY <1>1, <1>2, <1>3, <1>4, <2>1, <2>2, <2>3, GenerationResident DEF Holding
<1> QED BY <1>5, <1>6, <1>7, <1>8, <1>9

LEMMA PopTimedOutResident ==
  ASSUME StepInv, ResidentInv, NEW g \in Generations, PopTimedOut(g)
  PROVE  ResidentInv'
<1>1. StepInv'
  BY PopTimedOutSteps
<1>2. /\ gen \in [Generations -> GenState] /\ gen[g].step \in Nat
      /\ gen[g].pc # "idle" => gen[g].session = 1
      /\ text[g] = [i \in 1..Yielded(g) |-> Promise!RightToken(g, i - 1)]
  BY OfGeneration
<1>3. /\ gen[g].pc = "timed_out" /\ arrived' \subseteq arrived
      /\ gen' = [gen EXCEPT ![g] = [gen[g] EXCEPT !.pc = "timeout"]]
      /\ UNCHANGED <<workerVars, session, redist, calls, text, faults>>
  BY <1>2 DEF PopTimedOut
<1>4. /\ gen'[g].pc = "timeout" /\ gen'[g].step = gen[g].step /\ gen'[g].session = 1
      /\ \A f \in Generations \ {g} : gen'[f] = gen[f]
  BY <1>2, <1>3 DEF GenState
<1>5. Yielded(g)' = Yielded(g)
  BY <1>3, <1>4 DEF Yielded
<1> QED BY <1>1, <1>2, <1>3, <1>4, <1>5, GenerationResident DEF Holding

\* The token taken is the right one, and the caches are ready for the next.
LEMMA TakeResultResident ==
  ASSUME StepInv, ResidentInv, NEW g \in Generations, TakeResult(g)
  PROVE  /\ ResidentInv'
         /\ Len(text[g]) = gen[g].step
         /\ text' = [text EXCEPT ![g] = Append(@, Promise!RightToken(g, gen[g].step))]
<1>1. StepInv'
  BY TakeResultSteps
<1>2. /\ gen \in [Generations -> GenState] /\ gen[g].step \in Nat
      /\ gen[g].pc # "idle" => gen[g].session = 1
      /\ gen[g].pc \in Holding => \A f \in Generations \ {g} : gen[f].pc \notin Holding
      /\ text[g] = [i \in 1..Yielded(g) |-> Promise!RightToken(g, i - 1)]
  BY OfGeneration
<1>3. PICK r \in arrived : /\ r.id = <<g, gen[g].step>>
                           /\ arrived' = arrived \ {r}
                           /\ text' = [text EXCEPT ![g] = Append(@, r.seen)]
  BY DEF TakeResult
<1>4. /\ gen[g].pc = "wait" /\ gen[g].pc \in Holding
      /\ gen' = [gen EXCEPT ![g] = [gen[g] EXCEPT !.pc = "yield"]]
      /\ UNCHANGED <<workerVars, session, redist, calls, faults>>
  BY <1>2 DEF TakeResult, Holding
<1>5. /\ gen'[g].pc = "yield" /\ gen'[g].step = gen[g].step /\ gen'[g].session = 1
      /\ \A f \in Generations \ {g} : gen'[f] = gen[f]
  BY <1>2, <1>4 DEF GenState
<1>6. Yielded(g) = gen[g].step /\ Yielded(g)' = gen[g].step + 1
  BY <1>4, <1>5 DEF Yielded
<1>7. r.id[1] = g /\ r.id[2] = gen[g].step /\ ResultRight(r)
  BY <1>3 DEF ResidentInv
<1>8. r.seen = Promise!RightToken(g, gen[g].step) /\ ReachableHave(g, gen[g].step + 1)
  BY <1>4, <1>7 DEF ResultRight
<1> DEFINE k == gen[g].step
<1>9. text[g] = [i \in 1..k |-> Promise!RightToken(g, i - 1)] /\ k \in Nat
  BY <1>2, <1>6
<1>10. Len(text[g]) = gen[g].step
  BY <1>9
<1>11. /\ text' = [text EXCEPT ![g] = Append(@, Promise!RightToken(g, k))]
       /\ text'[g] = Append(text[g], Promise!RightToken(g, k))
       /\ \A f \in Generations \ {g} : text'[f] = text[f]
  BY <1>3, <1>8 DEF StepInv, TypeOK
<1> HIDE DEF k
<1>12. text'[g] = [i \in 1..(k + 1) |-> Promise!RightToken(g, i - 1)]
  BY <1>9, <1>11, TextGrows
<1>13. text'[g] = [i \in 1..Yielded(g)' |-> Promise!RightToken(g, i - 1)]
  BY <1>6, <1>12 DEF k
<1>14. ResidentInv'
  BY <1>1, <1>2, <1>3, <1>4, <1>5, <1>6, <1>8, <1>11, <1>13, GenerationResident
<1> QED BY <1>10, <1>11, <1>14 DEF k

\* A new request finds the requests before it cut off, and the caches that
\* it may reach as the tokens yielded have left them.
LEMMA StartStepResident ==
  ASSUME StepInv, ResidentInv, NEW g \in Generations, StartStep(g)
  PROVE  ResidentInv'
<1>1. PICK n \in Call :
        /\ n = NewCall(g) /\ n.id = <<g, gen[g].step>> /\ n.pc = "lookup"
        /\ n.attached = TRUE /\ n.at = 1 /\ n.seen = <<>> /\ n.reset = (gen[g].step = 0)
  BY NewCallFields
<1>2. /\ gen \in [Generations -> GenState] /\ gen[g].step \in Nat
      /\ gen[g].pc # "idle" => gen[g].session = 1
  BY OfGeneration
<1>3. /\ gen[g].pc = "step" /\ calls' = calls \cup {n}
      /\ gen' = [gen EXCEPT ![g] = [gen[g] EXCEPT !.pc = "calling"]]
      /\ UNCHANGED <<workerVars, session, redist, arrived, text, faults>>
  BY <1>1, <1>2 DEF StartStep
<1>4. /\ gen'[g].pc = "calling" /\ gen'[g].step = gen[g].step /\ gen'[g].session = 1
      /\ \A f \in Generations \ {g} : gen'[f] = gen[f]
  BY <1>2, <1>3 DEF GenState
<1>5. handle' = handle /\ table' = table
  BY <1>3 DEF workerVars
<1>6. \A a, b : Clear(a, b)' <=> Clear(a, b)
  BY <1>5 DEF Clear
<1>7. ASSUME NEW c \in calls
      PROVE  ~Clear(1, c.at - 1)
  <2> SUFFICES ASSUME c.attached PROVE FALSE
    BY DEF ResidentInv, Separated, CutOff
  <2>1. c.id[1] \in Generations /\ gen[c.id[1]].pc = "calling"
    BY Whereabouts DEF StepInv, CallsOwned
  <2> QED BY <1>3, <2>1 DEF ResidentInv, OneHolder, Holding
<1>8. OneHolder'
  BY <1>3, <1>4 DEF ResidentInv, OneHolder, Holding
<1>9. Separated'
  <2>1. ASSUME NEW c \in calls
        PROVE  c.at > 1 /\ c.at \in Nat
    <3>1. c.at \in Nat /\ c.at >= 1
      BY Whereabouts
    <3>2. c.at # 1
      BY <1>7 DEF Clear
    <3> QED BY <3>1, <3>2
  <2>2. CutOff(n)'
    BY <1>1 DEF CutOff
  <2>3. \A c \in calls : CutOff(c)'
    BY <1>5, <1>6 DEF ResidentInv, Separated, CutOff
  <2>4. \A c, d \in calls : c # d /\ c.at <= d.at => ~Clear(c.at, d.at - 1)
    BY DEF ResidentInv, Separated
  <2>5. \A c, d \in calls' : c # d /\ c.at <= d.at => ~Clear(c.at, d.at - 1)
    BY <1>1, <1>3, <1>7, <2>1, <2>4
  <2> QED BY <1>3, <1>6, <2>2, <2>3, <2>5 DEF Separated
<1>10. StepsRight'
  <2>1. \A f \in Generations : Yielded(f)' = Yielded(f)
    BY <1>3, <1>4 DEF Yielded
  <2> SUFFICES ASSUME NEW f \in Generations
      PROVE  /\ text'[f] = [i \in 1..Yielded(f)' |-> Promise!RightToken(f, i - 1)]
             /\ gen'[f].pc = "yield" \/ (gen'[f].pc = "step" /\ gen'[f].step > 0)
                  => ReachableHave(f, Yielded(f))'
             /\ gen'[f].pc \in {"idle", "lock"} => gen'[f].step = 0
    BY DEF StepsRight
  <2>2. ReachableHave(f, Yielded(f)) => ReachableHave(f, Yielded(f))'
    BY <1>5, <1>6, <2>1 DEF ReachableHave, CacheHas, Prefix
  <2> QED BY <1>3, <1>4, <2>1, <2>2 DEF ResidentInv, StepsRight
<1>11. n.id[1] = g /\ n.id[2] = gen[g].step /\ Passed(n) = 0
  BY <1>1 DEF Passed
<1>12. n.reset <=> n.id[2] = 0
  BY <1>1, <1>11, Zenon
<1>13. CachesAhead(n)'
  <2> SUFFICES ASSUME NEW i \in 1..Shards, Clear(1, i), ~n.reset
               PROVE  handle[1][i].cache = Prefix(g, gen[g].step)
    BY <1>1, <1>5, <1>6, <1>11, <1>12 DEF CachesAhead, CacheHas
  <2>1. gen[g].step > 0 /\ Yielded(g) = gen[g].step
    BY <1>2, <1>3, <1>12, <1>11 DEF Yielded
  <2>2. ReachableHave(g, Yielded(g))
    BY <1>3, <2>1 DEF ResidentInv, StepsRight
  <2> QED BY <2>1, <2>2 DEF ReachableHave, CacheHas, Workers
<1>14. CachesBehind(n)'
  BY <1>1, <1>11 DEF CachesBehind
<1>15. ASSUME NEW c \in calls
       PROVE  CachesAhead(c)' /\ CachesBehind(c)'
  <2>1. CachesAhead(c) /\ CachesBehind(c) /\ c.id[1] \in Generations
    BY Whereabouts DEF ResidentInv
  <2>2. CachesAhead(c)'
    BY <1>5, <1>6, <2>1 DEF CachesAhead, CacheHas
  <2>3. gen'[c.id[1]].step = c.id[2] => c.id[1] # g
    BY <1>3, <1>4 DEF StepInv, CallsOwned
  <2>4. CachesBehind(c)'
    BY <1>4, <1>5, <1>6, <2>1, <2>3 DEF CachesBehind, CacheHas
  <2> QED BY <2>2, <2>4
<1>16. ASSUME NEW r \in arrived
       PROVE  ResultRight(r)'
  <2>1. r.id[1] \in Generations /\ ResultRight(r)
    BY RequestPair DEF StepInv, TypeOK, Result, ResidentInv
  <2>2. r.id[1] # g
    BY <1>3 DEF StepInv, SlotsCollected
  <2> QED BY <1>4, <1>5, <1>6, <2>1, <2>2 DEF ResultRight, ReachableHave, CacheHas
<1> QED BY <1>3, <1>8, <1>9, <1>10, <1>13, <1>14, <1>15, <1>16 DEF ResidentInv

-----------------------------------------------------------------------------
(***************************************************************************)
(* The theorems on a resident model.                                       *)
(***************************************************************************)
LEMMA InitResident ==
  ASSUME Init
  PROVE  ResidentInv
<1> USE DEF Init
<1>1. OneHolder
  BY DEF OneHolder, Holding
<1>2. Separated
  BY DEF Separated
<1>3. StepsRight
  BY DEF StepsRight, Yielded
<1> QED BY <1>1, <1>2, <1>3 DEF ResidentInv

\* A resident model is not redistributed.
LEMMA NoRedistribution ==
  ASSUME Resident, ResidentInv
  PROVE  ~Redistribute /\ ~RedistStep
BY DEF Resident, ResidentInv, OneHolder, IdleRedist, Redistribute, RedistStep,
       UnloadPop, UnloadFree, Install

LEMMA NextResident ==
  ASSUME Resident, StepInv, ResidentInv, [Next]_vars
  PROVE  ResidentInv'
<1>1. ASSUME NEW g \in Generations, GenerationStep(g) \/ Close(g)
      PROVE  ResidentInv'
  BY <1>1, MovesAloneResident, StartStepResident, TakeResultResident, PopTimedOutResident
     DEF GenerationStep
<1>2. ASSUME NEW c \in calls, CallStep(c)
      PROVE  ResidentInv'
  BY <1>2, LookUpResident, PrepareCacheResident, ForwardResident, ForwardFailsResident,
     DeliverResultResident DEF CallStep
<1>3. ASSUME NEW c \in calls, NEW i \in Workers, LinkBreaks(c, i)
      PROVE  FALSE
  BY <1>3 DEF LinkBreaks, Fault, Resident
<1>4. ASSUME NEW w \in Workers, Crash(w)
      PROVE  ResidentInv'
  BY <1>4, CrashResident
<1>5. ~Redistribute /\ ~RedistStep
  BY NoRedistribution
<1>6. CASE Quiescent \/ UNCHANGED vars
  <2>1. UNCHANGED vars
    BY <1>6 DEF Quiescent
  <2>2. /\ table' = table /\ handle' = handle /\ session' = session /\ redist' = redist
        /\ gen' = gen /\ calls' = calls /\ slots' = slots /\ arrived' = arrived
        /\ text' = text
    BY <2>1 DEF vars, workerVars
  <2>3. OneHolder'
    BY <2>2 DEF ResidentInv, OneHolder
  <2>4. Separated'
    BY <2>2 DEF ResidentInv, Separated, CutOff, Clear
  <2>5. StepsRight'
    BY <2>2 DEF ResidentInv, StepsRight, Yielded, ReachableHave, Clear, CacheHas
  <2>6. \A c \in calls' : CachesAhead(c)' /\ CachesBehind(c)'
    BY <2>2 DEF ResidentInv, CachesAhead, CachesBehind, Clear, CacheHas
  <2>7. \A r \in arrived' : ResultRight(r)'
    BY <2>2 DEF ResidentInv, ResultRight, ReachableHave, Clear, CacheHas
  <2> QED BY <2>3, <2>4, <2>5, <2>6, <2>7 DEF ResidentInv
<1> QED BY <1>1, <1>2, <1>3, <1>4, <1>5, <1>6 DEF Next

\* While the model stays resident and connections break only with their
\* worker, every cache that a request can reach holds just the steps of the
\* generation that has the lock, however workers crash and steps fail.
THEOREM ResidentInvariant == ASSUME Resident PROVE Spec => []ResidentInv
<1>1. Init => ResidentInv
  BY InitResident
<1>2. StepInv /\ ResidentInv /\ [Next]_vars => ResidentInv'
  BY NextResident
<1> QED BY <1>1, <1>2, StepInvariant, PTL DEF Spec

\* Then every token that generate_stream yields was computed on every shard
\* from this generation's own prompt and tokens.
THEOREM TokensFromOwnCache == ASSUME Resident PROVE Spec => []OwnCache
<1>1. StepInv /\ ResidentInv => OwnCache
  <2> SUFFICES ASSUME StepInv, ResidentInv, NEW g \in Generations, NEW i \in DOMAIN text[g]
               PROVE  text[g][i] = Promise!RightToken(g, i - 1)
    BY DEF OwnCache
  <2>1. text[g] = [k \in 1..Yielded(g) |-> Promise!RightToken(g, k - 1)]
    BY OfGeneration
  <2> QED BY <2>1
<1> QED BY <1>1, StepInvariant, ResidentInvariant, PTL

-----------------------------------------------------------------------------
(***************************************************************************)
(* generate_stream implements Decoding.                                    *)
(***************************************************************************)
\* One generation changes its phase, or none does.
LEMMA OnePhase ==
  ASSUME NEW g \in Generations, \A f \in Generations \ {g} : Phase(f)' = Phase(f),
         UNCHANGED text,
         \/ Phase(g)' = Phase(g)
         \/ Phase(g) = "running" /\ Phase(g)' = "ended"
         \/ /\ Phase(g) = "waiting" /\ Phase(g)' = "running"
            /\ \A f \in Generations : Phase(f) # "running"
  PROVE  [Promise!Next]_(Promise!vars)
<1>1. CASE Phase(g)' = Phase(g)
  <2>1. \A f \in Generations : Phase(f)' = Phase(f)
    BY <1>1
  <2>2. [f \in Generations |-> Phase(f)]' = [f \in Generations |-> Phase(f)]
    BY <2>1
  <2> QED BY <2>2 DEF Promise!vars
<1>2. CASE Phase(g) = "running" /\ Phase(g)' = "ended"
  <2>1. [f \in Generations |-> Phase(f)]'
          = [[f \in Generations |-> Phase(f)] EXCEPT ![g] = "ended"]
    <3>1. \A f \in Generations : Phase(f)' = IF f = g THEN "ended" ELSE Phase(f)
      BY <1>2
    <3> QED BY <3>1
  <2>2. Promise!End(g)
    BY <1>2, <2>1 DEF Promise!End
  <2> QED BY <2>2 DEF Promise!Next
<1>3. CASE /\ Phase(g) = "waiting" /\ Phase(g)' = "running"
           /\ \A f \in Generations : Phase(f) # "running"
  <2>1. [f \in Generations |-> Phase(f)]'
          = [[f \in Generations |-> Phase(f)] EXCEPT ![g] = "running"]
    BY <1>3
  <2>2. Promise!Start(g)
    BY <1>3, <2>1 DEF Promise!Start
  <2> QED BY <2>2 DEF Promise!Next
<1> QED BY <1>1, <1>2, <1>3

\* No generation changes its phase.
LEMMA NoPhase ==
  ASSUME \A f \in Generations : Phase(f)' = Phase(f), UNCHANGED text
  PROVE  [Promise!Next]_(Promise!vars)
<1>1. [f \in Generations |-> Phase(f)]' = [f \in Generations |-> Phase(f)]
  OBVIOUS
<1> QED BY <1>1 DEF Promise!vars

\* The generations whose calls return hold the lock: there is at most one.
LEMMA ReturnPhase ==
  ASSUME StepInv, ResidentInv, NEW C \in SUBSET calls, NEW rpcError \in BOOLEAN,
         Return(C, rpcError), UNCHANGED text
  PROVE  [Promise!Next]_(Promise!vars)
<1>1. ASSUME NEW g \in Generations
      PROVE  \/ gen'[g] = gen[g]
             \/ gen[g].pc = "calling" /\ gen'[g].pc \in {"rpc_error", "wait"}
  BY ReturnEffect
<1>2. CASE \E g \in Generations : gen'[g] # gen[g]
  <2>1. PICK g \in Generations : gen'[g] # gen[g]
    BY <1>2
  <2>2. gen[g].pc = "calling" /\ gen'[g].pc \in {"rpc_error", "wait"}
    BY <1>1, <2>1
  <2>3. ASSUME NEW f \in Generations \ {g}
        PROVE  gen'[f] = gen[f]
    BY <1>1, <2>2 DEF ResidentInv, OneHolder, Holding
  <2>4. \A f \in Generations \ {g} : Phase(f)' = Phase(f)
    BY <2>3 DEF Phase
  <2>5. Phase(g)' = Phase(g) \/ (Phase(g) = "running" /\ Phase(g)' = "ended")
    BY <2>2 DEF Phase, Holding
  <2> QED BY <2>4, <2>5, OnePhase
<1>3. CASE ~ \E g \in Generations : gen'[g] # gen[g]
  <2>1. \A f \in Generations : Phase(f)' = Phase(f)
    BY <1>3 DEF Phase
  <2> QED BY <2>1, NoPhase
<1> QED BY <1>2, <1>3

LEMMA CallPhase ==
  ASSUME StepInv, ResidentInv, NEW c \in calls, CallStep(c)
  PROVE  [Promise!Next]_(Promise!vars)
<1>1. /\ UNCHANGED text
      /\ UNCHANGED gen \/ \E rpcError \in BOOLEAN : Return({c}, rpcError)
  <2>1. CASE LookUp(c)
    BY <2>1 DEF LookUp, Move, Finish
  <2>2. CASE PrepareCache(c)
    BY <2>2 DEF PrepareCache, Move, Finish
  <2>3. CASE Forward(c)
    BY <2>3 DEF Forward, Move
  <2>4. CASE ForwardFails(c)
    BY <2>4 DEF ForwardFails, Finish
  <2>5. CASE DeliverResult(c)
    BY <2>5 DEF DeliverResult, Finish
  <2> QED BY <2>1, <2>2, <2>3, <2>4, <2>5 DEF CallStep
<1>2. CASE UNCHANGED gen
  BY <1>1, <1>2, NoPhase DEF Phase
<1>3. CASE \E rpcError \in BOOLEAN : Return({c}, rpcError)
  <2>1. PICK rpcError \in BOOLEAN : Return({c}, rpcError)
    BY <1>3
  <2> DEFINE C == {c}
  <2>2. Return(C, rpcError) /\ C \in SUBSET calls
    BY <2>1
  <2> HIDE DEF C
  <2> QED BY <1>1, <2>2, ReturnPhase
<1> QED BY <1>1, <1>2, <1>3

LEMMA GenerationPhase ==
  ASSUME StepInv, ResidentInv, NEW g \in Generations, GenerationStep(g) \/ Close(g)
  PROVE  [Promise!Next]_(Promise!vars)
<1>1. gen \in [Generations -> GenState] /\ gen[g] \in GenState
  BY DEF StepInv, TypeOK
<1>2. /\ \A f \in Generations \ {g} : gen'[f] = gen[f]
      /\ \/ Begin(g) /\ gen[g].pc = "idle" /\ gen'[g].pc = "lock"
         \/ Acquire(g) /\ gen[g].pc = "lock" /\ gen'[g].pc = "step"
         \/ StartStep(g) /\ gen[g].pc = "step" /\ gen'[g].pc = "calling"
         \/ TakeResult(g) /\ gen[g].pc = "wait" /\ gen'[g].pc = "yield"
         \/ TimesOut(g) /\ gen[g].pc = "wait" /\ gen'[g].pc = "timed_out"
         \/ PopTimedOut(g) /\ gen[g].pc = "timed_out" /\ gen'[g].pc = "timeout"
         \/ Continue(g) /\ gen[g].pc = "yield" /\ gen'[g].pc \in {"step", "done"}
         \/ Close(g) /\ gen[g].pc = "yield" /\ gen'[g].pc = "closed"
  <2>1. CASE Begin(g)
    <3>1. gen' = [gen EXCEPT ![g] = [gen[g] EXCEPT !.pc = "lock", !.session = session]]
          /\ gen[g].pc = "idle"
      BY <1>1, <2>1 DEF Begin
    <3>2. gen'[g] = [gen[g] EXCEPT !.pc = "lock", !.session = session]
      BY <1>1, <3>1
    <3>3. gen'[g].pc = "lock"
      BY <1>1, <3>2 DEF GenState
    <3> QED BY <1>1, <2>1, <3>1, <3>3
  <2>2. CASE Acquire(g)
    BY <1>1, <2>2 DEF Acquire, GenState
  <2>3. CASE StartStep(g)
    BY <1>1, <2>3 DEF StartStep, GenState
  <2>4. CASE TakeResult(g)
    BY <1>1, <2>4 DEF TakeResult, GenState
  <2>5. CASE TimesOut(g)
    BY <1>1, <2>5 DEF TimesOut, GenState
  <2>6. CASE PopTimedOut(g)
    BY <1>1, <2>6 DEF PopTimedOut, GenState
  <2>7. CASE Continue(g)
    <3>1. CASE gen[g].step + 1 < MaxTokens
      <4>1. gen' = [gen EXCEPT ![g] = [gen[g] EXCEPT !.pc = "step", !.step = gen[g].step + 1]]
        BY <1>1, <2>7, <3>1 DEF Continue
      <4>2. gen'[g] = [gen[g] EXCEPT !.pc = "step", !.step = gen[g].step + 1]
        BY <1>1, <4>1
      <4>3. gen'[g].pc = "step" /\ gen[g].pc = "yield"
        BY <1>1, <2>7, <4>2 DEF GenState, Continue
      <4> QED BY <1>1, <2>7, <4>1, <4>3
    <3>2. CASE ~(gen[g].step + 1 < MaxTokens)
      BY <1>1, <2>7, <3>2 DEF Continue, GenState
    <3> QED BY <3>1, <3>2
  <2>8. CASE Close(g)
    BY <1>1, <2>8 DEF Close, GenState
  <2> QED BY <2>1, <2>2, <2>3, <2>4, <2>5, <2>6, <2>7, <2>8 DEF GenerationStep
<1>3. \A f \in Generations \ {g} : Phase(f)' = Phase(f)
  BY <1>2 DEF Phase
<1>4. CASE TakeResult(g) /\ gen[g].pc = "wait" /\ gen'[g].pc = "yield"
  <2>1. /\ Len(text[g]) = gen[g].step
        /\ text' = [text EXCEPT ![g] = Append(@, Promise!RightToken(g, gen[g].step))]
    BY <1>4, TakeResultResident
  <2>2. text' = [text EXCEPT ![g] = Append(@, Promise!RightToken(g, Len(@)))]
    BY <2>1
  <2>3. Len(text[g]) < MaxTokens
    BY <1>1, <2>1, BoundsAssumption DEF GenState
  <2>4. Phase(g) = "running" /\ Phase(g)' = Phase(g)
    BY <1>4 DEF Phase, Holding
  <2>5. [f \in Generations |-> Phase(f)]' = [f \in Generations |-> Phase(f)]
    BY <1>3, <2>4
  <2>6. Promise!Emit(g)
    BY <2>2, <2>3, <2>4, <2>5 DEF Promise!Emit
  <2> QED BY <2>6 DEF Promise!Next
<1>5. CASE Acquire(g) /\ gen[g].pc = "lock" /\ gen'[g].pc = "step"
  <2>1. Phase(g) = "waiting" /\ Phase(g)' = "running"
    BY <1>5 DEF Phase, Holding
  <2>2. ASSUME NEW f \in Generations
        PROVE  Phase(f) # "running"
    <3>1. gen[f].pc # "idle" => gen[f].session = 1
      BY OfGeneration
    <3>2. gen[g].session = 1
      BY <1>5, OfGeneration
    <3>3. gen[f].pc \notin Holding
      BY <1>5, <3>1, <3>2 DEF Acquire, Holding
    <3> QED BY <3>3 DEF Phase
  <2>3. UNCHANGED text
    BY <1>5 DEF Acquire
  <2> QED BY <1>3, <2>1, <2>2, <2>3, OnePhase
<1>6. CASE ~(TakeResult(g) /\ gen[g].pc = "wait" /\ gen'[g].pc = "yield")
           /\ ~(Acquire(g) /\ gen[g].pc = "lock" /\ gen'[g].pc = "step")
  <2>1. UNCHANGED text
    BY <1>2, <1>6 DEF Begin, StartStep, TimesOut, PopTimedOut, Continue, Close
  <2>2. Phase(g)' = Phase(g) \/ (Phase(g) = "running" /\ Phase(g)' = "ended")
    BY <1>2, <1>6 DEF Phase, Holding
  <2> QED BY <1>3, <2>1, <2>2, OnePhase
<1> QED BY <1>4, <1>5, <1>6

LEMMA NextPhase ==
  ASSUME Resident, StepInv, ResidentInv, [Next]_vars
  PROVE  [Promise!Next]_(Promise!vars)
<1>1. ASSUME NEW g \in Generations, GenerationStep(g) \/ Close(g)
      PROVE  [Promise!Next]_(Promise!vars)
  BY <1>1, GenerationPhase
<1>2. ASSUME NEW c \in calls, CallStep(c)
      PROVE  [Promise!Next]_(Promise!vars)
  BY <1>2, CallPhase
<1>3. ASSUME NEW c \in calls, NEW i \in Workers, LinkBreaks(c, i)
      PROVE  FALSE
  BY <1>3 DEF LinkBreaks, Fault, Resident
<1>4. ASSUME NEW w \in Workers, Crash(w)
      PROVE  [Promise!Next]_(Promise!vars)
  <2> DEFINE C == {c \in calls : c.at >= w}
  <2>1. Return(C, w = 1) /\ C \in SUBSET calls /\ (w = 1) \in BOOLEAN /\ UNCHANGED text
    BY <1>4 DEF Crash
  <2> HIDE DEF C
  <2> QED BY <2>1, ReturnPhase
<1>5. ~Redistribute /\ ~RedistStep
  BY NoRedistribution
<1>6. CASE Quiescent \/ UNCHANGED vars
  <2>1. gen' = gen /\ UNCHANGED text
    BY <1>6 DEF Quiescent, vars
  <2> QED BY <2>1, NoPhase DEF Phase
<1> QED BY <1>1, <1>2, <1>3, <1>4, <1>5, <1>6 DEF Next

\* While the model stays resident and connections break only with their
\* worker, generate_stream keeps the whole promise of Decoding: generations
\* run one at a time, and each yields right tokens in order, at most
\* max_new_tokens of them.
THEOREM DecodingImplemented == ASSUME Resident PROVE Spec => KeepsPromise
<1>1. Init => Promise!Init
  <2> SUFFICES ASSUME Init PROVE Promise!Init
    OBVIOUS
  <2>1. \A g \in Generations : gen[g].pc = "idle"
    BY DEF Init
  <2>2. \A g \in Generations : Phase(g) = "waiting"
    BY <2>1 DEF Phase, Holding
  <2> QED BY <2>2 DEF Init, Promise!Init
<1>2. StepInv /\ ResidentInv /\ [Next]_vars => [Promise!Next]_(Promise!vars)
  BY NextPhase
<1> QED BY <1>1, <1>2, StepInvariant, ResidentInvariant, PTL
        DEF Spec, KeepsPromise, Promise!Spec
=============================================================================
