---------------------- MODULE InferenceRequestsProofs -----------------------
(***************************************************************************)
(* What the HTTP requests rely on, for any number of requests, models,     *)
(* documents and threads: the catalogue never replaces a manifest, a       *)
(* session belongs to the manifest looked up, and the look-ups that may    *)
(* fail do so only because of somebody else.                               *)
(***************************************************************************)
EXTENDS InferenceRequests, TLAPS

LEMMA InitEstablishes == Init => RequestsInv
<1> SUFFICES ASSUME Init PROVE RequestsInv
  OBVIOUS
<1>1. /\ entries = [m \in Models |-> NoEntry] /\ running = {} /\ begun = {}
      /\ process = "starting" /\ files \in Directories
      /\ catalog = [m \in Models |-> NoManifest]
      /\ req = [r \in Requests |-> Free] /\ lock = [l \in Loads |-> NoRequest]
  BY DEF Init, StatesInit
<1>2. Free \in Request
  BY DEF Free, Request, NoManifest, NoLoad
<1>3. StrongTypes
  BY <1>1, <1>2, RequestsAssumption
  DEF StrongTypes, Entry, NoEntry, NoLoad, NoManifest, NoRequest
<1>4. LocksHeld
  BY <1>1, LoadsAssumption DEF LocksHeld, Free, Holding, NoRequest, NoLoad, Requests
<1>5. LoadsKnown /\ RivalsKnown
  BY <1>1 DEF LoadsKnown, RivalsKnown, Missing, Planless, Free, NoEntry, Generating
<1>6. \A r \in Requests : FoundIn(req[r], catalog) /\ Stage(req[r])
  BY <1>1 DEF FoundIn, Stage, Found, Free, Ensuring, Generating
<1> QED  BY <1>3, <1>4, <1>5, <1>6 DEF RequestsInv

(***************************************************************************)
(* One request moves on.  What has to be checked of a step of request r:   *)
(* that it keeps what it found and the mark of what it removed, that locks *)
(* follow it, that entries, loads and sessions get only loads of the right *)
(* model, and that an entry that vanishes, or loses its plan, does so by r *)
(* and not for r.                                                          *)
(***************************************************************************)
LEMMA RequestStep ==
  ASSUME RequestsInv, StrongTypes', NEW r \in Requests,
         \A q \in Requests \ {r} : req'[q] = req[q],
         \A m \in Models : catalog[m] # NoManifest => catalog'[m] = catalog[m],
         Stage(req'[r]), FoundIn(req'[r], catalog'),
         Found(req[r]) => Found(req'[r]) /\ req'[r].model = req[r].model,
         HasRemoved(req[r]) => HasRemoved(req'[r]),
         \A l \in Loads :
           lock'[l] = r <=> req'[r].session = l /\ req'[r].pc \in Holding,
         \A l \in Loads, q \in Requests \ {r} : lock'[l] = q <=> lock[l] = q,
         \A m \in Models :
           \/ entries'[m].by \in {NoLoad, entries[m].by}
           \/ entries'[m].by = r /\ req'[r].model = m /\ Found(req'[r])
           \/ entries'[m].by \in Loads /\ <<m, entries'[m].by>> \in running,
         \A m \in Models : entries'[m].status = "ready" => entries'[m].by # NoLoad,
         \A m \in Models, l \in Loads : <<m, l>> \in running' =>
           \/ <<m, l>> \in running
           \/ l = r /\ req'[r].model = m /\ Found(req'[r]),
         req'[r].session # NoLoad =>
           /\ Found(req[r])
           /\ req'[r].session \in {req[r].session, entries[req[r].model].by},
         \A m \in Models : entries'[m].status = "none" =>
           entries[m].status = "none" \/ Removes(req'[r], m),
         \A m \in Models : entries'[m].status = "error" /\ entries'[m].by = NoLoad =>
           \/ entries[m].status = "error" /\ entries[m].by = NoLoad
           \/ req'[r].model = m /\ Found(req'[r]),
         Missing(req'[r], entries') => Missing(req[r], entries) /\ Found(req[r]),
         Planless(req'[r], entries') => Planless(req[r], entries) /\ Found(req[r])
  PROVE  RequestsInv'
<1>1. /\ \A q \in Requests : FoundIn(req[q], catalog) /\ Stage(req[q])
      /\ LocksHeld /\ LoadsKnown /\ RivalsKnown
      /\ catalog \in [Models -> Nat] /\ entries \in [Models -> Entry]
      /\ entries' \in [Models -> Entry]
      /\ req \in [Requests -> Request] /\ req' \in [Requests -> Request]
  BY DEF RequestsInv, StrongTypes
<1>2. \A q \in Requests : Found(req[q]) =>
        Found(req'[q]) /\ req'[q].model = req[q].model
  OBVIOUS
<1>3. \A l \in Requests, m \in Models : LoadOf(l, m) => LoadOf(l, m)'
  BY <1>2 DEF LoadOf
<1>4. \A q \in Requests : FoundIn(req'[q], catalog')
  BY <1>1 DEF FoundIn, Found
<1>5. \A q \in Requests : Stage(req'[q])
  BY <1>1
<1>6. LocksHeld'
  BY <1>1 DEF LocksHeld
<1>7. LoadsKnown'
  <2>1. ASSUME NEW m \in Models, entries'[m].by # NoLoad
        PROVE  req'[entries'[m].by].model = m /\ Found(req'[entries'[m].by])
    <3>0. entries'[m].by \in Requests
      BY <1>1, <2>1 DEF Entry, Requests
    <3>1. CASE entries'[m].by = entries[m].by
      <4>1. LoadOf(entries[m].by, m)
        BY <1>1, <2>1, <3>1 DEF LoadsKnown
      <4> QED  BY <3>0, <3>1, <4>1, <1>2 DEF LoadOf
    <3>2. CASE entries'[m].by = r /\ req'[r].model = m /\ Found(req'[r])
      BY <3>2 DEF LoadOf
    <3>3. CASE entries'[m].by \in Loads /\ <<m, entries'[m].by>> \in running
      <4>1. PICK l \in Loads : l = entries'[m].by /\ <<m, l>> \in running
        BY <3>3
      <4>2. LoadOf(l, m)
        BY <1>1, <4>1 DEF LoadsKnown
      <4> QED  BY <4>1, <4>2, <1>2 DEF LoadOf, Requests
    <3> QED  BY <2>1, <3>1, <3>2, <3>3
  <2>2. ASSUME NEW m \in Models, NEW l \in Loads, <<m, l>> \in running'
        PROVE  LoadOf(l, m)'
    <3>1. CASE <<m, l>> \in running
      BY <1>1, <1>3, <3>1 DEF LoadsKnown, Requests
    <3>2. CASE l = r /\ req'[r].model = m /\ Found(req'[r])
      BY <3>2 DEF LoadOf
    <3> QED  BY <2>2, <3>1, <3>2
  <2>3. ASSUME NEW q \in Requests, req'[q].session # NoLoad
        PROVE  /\ req'[req'[q].session].model = req'[q].model
               /\ Found(req'[req'[q].session])
    <3>0. req'[q].session \in Requests
      BY <1>1, <2>3 DEF Request, Requests
    <3>1. CASE q # r
      <4>1. req'[q] = req[q] /\ LoadOf(req[q].session, req[q].model)
        BY <1>1, <2>3, <3>1 DEF LoadsKnown
      <4> QED  BY <3>0, <4>1, <1>2 DEF LoadOf
    <3>2. CASE q = r
      <4>1. Found(req[r]) /\ req'[r].model = req[r].model /\ req[r].model \in Models
        BY <1>1, <2>3, <3>2 DEF FoundIn
      <4>2. LoadOf(req'[r].session, req[r].model)
        BY <1>1, <2>3, <3>2, <4>1 DEF LoadsKnown
      <4> QED  BY <3>0, <3>2, <4>1, <4>2, <1>2 DEF LoadOf
    <3> QED  BY <3>1, <3>2
  <2> QED  BY <2>1, <2>2, <2>3 DEF LoadsKnown, LoadOf
<1>8. RivalsKnown'
  <2>1. \A q \in Requests, m \in Models : Removes(req[q], m) => Removes(req'[q], m)
    BY <1>2 DEF Removes
  <2>2. ASSUME NEW p \in Requests, Missing(req'[p], entries')
        PROVE  \E q \in Requests \ {p} : Removes(req'[q], req'[p].model)
    <3>1. req'[p].model = req[p].model /\ req[p].model \in Models
      <4>1. CASE p = r
        BY <1>1, <2>2, <4>1 DEF FoundIn
      <4>2. CASE p # r
        BY <1>1, <2>2, <4>2
        DEF Missing, Stage, FoundIn
      <4> QED  BY <4>1, <4>2
    <3>2. CASE Missing(req[p], entries)
      BY <1>1, <2>1, <3>1, <3>2 DEF RivalsKnown
    <3>3. CASE ~Missing(req[p], entries)
      <4>1. p # r /\ req'[p] = req[p]
        BY <2>2, <3>3
      <4>2. entries'[req[p].model].status = "none"
            /\ entries[req[p].model].status # "none"
        BY <2>2, <3>3, <4>1 DEF Missing
      <4> QED  BY <3>1, <4>1, <4>2
    <3> QED  BY <3>2, <3>3
  <2>3. ASSUME NEW p \in Requests, Planless(req'[p], entries')
        PROVE  \E q \in Requests \ {p} : req'[q].model = req'[p].model /\ Found(req'[q])
    <3>1. req'[p].model = req[p].model /\ req[p].model \in Models
      <4>1. CASE p = r
        BY <1>1, <2>3, <4>1 DEF FoundIn
      <4>2. CASE p # r
        BY <1>1, <2>3, <4>2 DEF Planless, Stage, FoundIn
      <4> QED  BY <4>1, <4>2
    <3>2. CASE Planless(req[p], entries)
      BY <1>1, <1>2, <3>1, <3>2 DEF RivalsKnown, LoadOf
    <3>3. CASE ~Planless(req[p], entries)
      <4>1. p # r /\ req'[p] = req[p]
        BY <2>3, <3>3
      <4>2. /\ entries'[req[p].model].status = "error"
            /\ entries'[req[p].model].by = NoLoad
            /\ ~(/\ entries[req[p].model].status = "error"
                 /\ entries[req[p].model].by = NoLoad)
        BY <2>3, <3>3, <4>1 DEF Planless
      <4> QED  BY <3>1, <4>1, <4>2
    <3> QED  BY <3>2, <3>3
  <2> QED  BY <2>2, <2>3 DEF RivalsKnown, LoadOf
<1> QED  BY <1>4, <1>5, <1>6, <1>7, <1>8 DEF RequestsInv

\* A step that leaves model_states alone.
LEMMA QuietStep ==
  ASSUME RequestsInv, StrongTypes', NEW r \in Requests, UNCHANGED stateVars,
         \A q \in Requests \ {r} : req'[q] = req[q],
         \A m \in Models : catalog[m] # NoManifest => catalog'[m] = catalog[m],
         Stage(req'[r]), FoundIn(req'[r], catalog'),
         Found(req[r]) => Found(req'[r]) /\ req'[r].model = req[r].model,
         HasRemoved(req[r]) => HasRemoved(req'[r]),
         \A l \in Loads :
           lock'[l] = r <=> req'[r].session = l /\ req'[r].pc \in Holding,
         \A l \in Loads, q \in Requests \ {r} : lock'[l] = q <=> lock[l] = q,
         req'[r].session # NoLoad =>
           /\ Found(req[r])
           /\ req'[r].session \in {req[r].session, entries[req[r].model].by},
         Missing(req'[r], entries) => Missing(req[r], entries) /\ Found(req[r]),
         Planless(req'[r], entries) => Planless(req[r], entries) /\ Found(req[r])
  PROVE  RequestsInv'
<1>1. entries' = entries /\ running' = running
  BY DEF stateVars
<1>2. \A m \in Models : entries[m].status = "ready" => entries[m].by # NoLoad
  BY DEF RequestsInv, LoadsKnown
<1> QED  BY <1>1, <1>2, RequestStep

\* A request is answered; it lets go of its session and the lock.
LEMMA AnswerStep ==
  ASSUME RequestsInv, NEW r \in Requests, NEW a \in Answers,
         req' = Answered(r, a), UNCHANGED <<stateVars, process, files>>,
         catalog' \in [Models -> Nat],
         \A m \in Models : catalog[m] # NoManifest => catalog'[m] = catalog[m],
         lock' \in [Loads -> Loads \cup {NoRequest}],
         \A l \in Loads : lock'[l] = IF lock[l] = r THEN NoRequest ELSE lock[l],
         HasRemoved(req[r]) => a = "redistributed",
         a = "KeyError" => Missing(req[r], entries) /\ Found(req[r]),
         a = "AttributeError" => Planless(req[r], entries) /\ Found(req[r])
  PROVE  RequestsInv'
<1>1. /\ StrongTypes /\ req \in [Requests -> Request] /\ req[r] \in Request
      /\ FoundIn(req[r], catalog) /\ LocksHeld /\ Requests = Loads
  BY DEF RequestsInv, StrongTypes, Requests
<1>2. /\ req'[r] = [pc |-> "done", op |-> "none", model |-> req[r].model,
                    manifest |-> req[r].manifest, session |-> NoLoad,
                    yields |-> 0, answer |-> a]
      /\ \A q \in Requests \ {r} : req'[q] = req[q]
      /\ req' = [req EXCEPT ![r] = req'[r]]
  BY <1>1 DEF Answered, Free
<1>3. req'[r] \in Request
  BY <1>1, <1>2 DEF Request, NoLoad
<1>4. StrongTypes'
  BY <1>1, <1>2, <1>3 DEF StrongTypes, stateVars
<1>5. Stage(req'[r]) /\ FoundIn(req'[r], catalog')
  BY <1>1, <1>2 DEF Stage, FoundIn, Found, Ensuring, Generating
<1>6. \A l \in Loads : lock'[l] # r
  BY LoadsAssumption DEF NoRequest, NoLoad, Requests
<1>7. \A l \in Loads, q \in Requests \ {r} : lock'[l] = q <=> lock[l] = q
  BY LoadsAssumption DEF NoRequest, NoLoad, Requests
<1>8. \A l \in Loads :
        lock'[l] = r <=> req'[r].session = l /\ req'[r].pc \in Holding
  BY <1>2, <1>6 DEF Holding
<1>9. /\ Found(req[r]) => Found(req'[r]) /\ req'[r].model = req[r].model
      /\ HasRemoved(req[r]) => HasRemoved(req'[r])
      /\ req'[r].session = NoLoad
  BY <1>2 DEF Found, HasRemoved
<1>10. /\ Missing(req'[r], entries) => Missing(req[r], entries) /\ Found(req[r])
       /\ Planless(req'[r], entries) => Planless(req[r], entries) /\ Found(req[r])
  <2>1. Missing(req'[r], entries) => a = "KeyError"
    BY <1>2 DEF Missing, Generating
  <2>2. Planless(req'[r], entries) => a = "AttributeError"
    BY <1>2 DEF Planless, Generating
  <2> QED  BY <2>1, <2>2
<1> QED  BY <1>2, <1>4, <1>5, <1>7, <1>8, <1>9, <1>10, QuietStep

\* As AnswerStep, when there is no lock to let go of.
LEMMA AnswerOnly ==
  ASSUME RequestsInv, NEW r \in Requests, NEW a \in Answers,
         req' = Answered(r, a), UNCHANGED <<stateVars, process, files, lock>>,
         catalog' \in [Models -> Nat],
         \A m \in Models : catalog[m] # NoManifest => catalog'[m] = catalog[m],
         req[r].pc \notin Holding,
         HasRemoved(req[r]) => a = "redistributed",
         a = "KeyError" => Missing(req[r], entries) /\ Found(req[r]),
         a = "AttributeError" => Planless(req[r], entries) /\ Found(req[r])
  PROVE  RequestsInv'
<1>1. \A l \in Loads : lock[l] # r
  BY DEF RequestsInv, LocksHeld
<1>2. lock \in [Loads -> Loads \cup {NoRequest}]
  BY DEF RequestsInv, StrongTypes
<1> QED  BY <1>1, <1>2, AnswerStep

-----------------------------------------------------------------------------
(***************************************************************************)
(* The steps.                                                              *)
(***************************************************************************)
\* Registering never changes a manifest that is there.
LEMMA RegisteredGrows ==
  ASSUME RequestsInv, NEW d \in Document
  PROVE  /\ Registered(d) \in [Models -> Nat]
         /\ \A m \in Models : catalog[m] # NoManifest => Registered(d)[m] = catalog[m]
<1>1. catalog \in [Models -> Nat] /\ d.name \in Models /\ d.id \in Nat
  BY DEF RequestsInv, StrongTypes, Document
<1> QED  BY <1>1 DEF Registered

LEMMA StartUpPreserves ==
  ASSUME RequestsInv, ReadManifestFile \/ ServerStarts
  PROVE  RequestsInv'
<1>1. StrongTypes
  BY DEF RequestsInv
<1>2. /\ entries' = entries /\ running' = running /\ begun' = begun
      /\ req' = req /\ lock' = lock
  BY DEF ReadManifestFile, ServerStarts, stateVars
<1>3. /\ catalog' \in [Models -> Nat]
      /\ \A m \in Models : catalog[m] # NoManifest => catalog'[m] = catalog[m]
      /\ process' \in {"starting", "up", "crashed"} /\ files' \in Seq(Document)
  <2>1. CASE ServerStarts
    BY <1>1, <2>1 DEF ServerStarts, StrongTypes
  <2>2. CASE ReadManifestFile
    <3>1. Head(files) \in Document /\ Tail(files) \in Seq(Document)
      BY <1>1, <2>2 DEF ReadManifestFile, StrongTypes
    <3>2. catalog' = catalog \/ catalog' = Registered(Head(files))
      BY <2>2 DEF ReadManifestFile
    <3>3. process' \in {process, "crashed"} /\ files' = Tail(files)
      BY <2>2 DEF ReadManifestFile
    <3> QED  BY <1>1, <3>1, <3>2, <3>3, RegisteredGrows DEF StrongTypes
  <2> QED  BY <2>1, <2>2
<1>4. StrongTypes'
  BY <1>1, <1>2, <1>3 DEF StrongTypes
<1>5. LocksHeld' /\ LoadsKnown' /\ RivalsKnown'
  BY <1>2 DEF RequestsInv, LocksHeld, LoadsKnown, LoadOf, RivalsKnown
<1>6. \A r \in Requests : FoundIn(req'[r], catalog') /\ Stage(req'[r])
  BY <1>2, <1>3 DEF RequestsInv, FoundIn, Found
<1> QED  BY <1>4, <1>5, <1>6 DEF RequestsInv

LEMMA ArrivePreserves ==
  ASSUME RequestsInv, NEW r \in Requests, NEW op \in Operations, NEW m \in Models,
         Arrive(r, op, m)
  PROVE  RequestsInv'
<1>1. /\ StrongTypes /\ req \in [Requests -> Request] /\ req[r] \in Request
      /\ Stage(req[r]) /\ LocksHeld /\ catalog[m] \in Nat
      /\ req[r].pc = "free" /\ UNCHANGED <<stateVars, process, files, catalog, lock>>
  BY DEF RequestsInv, StrongTypes, Requests, Arrive
<1>2. /\ \A q \in Requests \ {r} : req'[q] = req[q]
      /\ req' = [req EXCEPT ![r] = req'[r]]
      /\ \/ /\ op = "stream" /\ catalog[m] = NoManifest
            /\ req'[r] = [pc |-> "done", op |-> "none", model |-> m,
                          manifest |-> NoManifest, session |-> NoLoad,
                          yields |-> 0, answer |-> "404"]
         \/ /\ op = "stream" => catalog[m] # NoManifest
            /\ req'[r] = [pc |-> "queued", op |-> op,
                          model |-> IF NamesModel(op) THEN m ELSE "none",
                          manifest |-> IF op = "stream" THEN catalog[m]
                                       ELSE NoManifest,
                          session |-> NoLoad, yields |-> 0, answer |-> "none"]
  BY <1>1 DEF Arrive, Free
<1>3. req'[r] \in Request
  BY <1>1, <1>2, RequestsAssumption DEF Request, Answers, NoLoad, NoManifest
<1>4. StrongTypes'
  BY <1>1, <1>2, <1>3 DEF StrongTypes, stateVars
<1>5. Stage(req'[r]) /\ FoundIn(req'[r], catalog')
  BY <1>1, <1>2 DEF Stage, FoundIn, Found, Ensuring, Generating, NamesModel
<1>6. ~Found(req[r]) /\ ~HasRemoved(req[r]) /\ req'[r].session = NoLoad
  BY <1>1, <1>2 DEF Stage, HasRemoved
<1>7. \A l \in Loads :
        /\ lock'[l] = r <=> req'[r].session = l /\ req'[r].pc \in Holding
        /\ lock'[l] = lock[l]
  BY <1>1, <1>2 DEF LocksHeld, Holding
<1>8. ~Missing(req'[r], entries) /\ ~Planless(req'[r], entries)
  BY <1>2 DEF Missing, Planless, Generating
<1> QED  BY <1>1, <1>2, <1>4, <1>5, <1>6, <1>7, <1>8, QuietStep

LEMMA AdmitPreserves ==
  ASSUME RequestsInv, NEW r \in Requests, Admit(r)
  PROVE  RequestsInv'
<1> DEFINE m == req[r].model
<1>1. /\ StrongTypes /\ req \in [Requests -> Request] /\ req[r] \in Request
      /\ Stage(req[r]) /\ LocksHeld /\ FoundIn(req[r], catalog)
      /\ catalog \in [Models -> Nat]
      /\ req[r].pc = "queued" /\ req[r].op \in {"infer", "stream", "load", "redistribute"}
      /\ UNCHANGED <<stateVars, process, files, catalog, lock>>
  BY DEF RequestsInv, StrongTypes, Requests, Admit
<1>2. m \in Models /\ ~HasRemoved(req[r])
  BY <1>1 DEF Stage, NamesModel, HasRemoved
<1>3. CASE req' = Answered(r, "404")
  <2>1. "404" \in Answers /\ req[r].pc \notin Holding
    BY <1>1 DEF Answers, Holding
  <2> QED  BY <1>1, <1>2, <1>3, <2>1, AnswerOnly
<1>4. CASE ~(req[r].op # "stream" /\ catalog[m] = NoManifest)
  <2>1. /\ \A q \in Requests \ {r} : req'[q] = req[q]
        /\ req' = [req EXCEPT ![r] = req'[r]]
        /\ req'[r].pc = (IF req[r].op = "redistribute" THEN "take" ELSE "check")
        /\ req'[r].manifest = (IF req[r].op = "stream" THEN req[r].manifest
                               ELSE catalog[m])
        /\ req'[r].op = req[r].op /\ req'[r].model = m
        /\ req'[r].session = req[r].session /\ req'[r].answer = req[r].answer
        /\ req'[r] \in Request
    BY <1>1, <1>2, <1>4 DEF Admit, Request, Ensuring
  <2>2. StrongTypes'
    BY <1>1, <2>1 DEF StrongTypes, stateVars
  <2>3. Found(req'[r])
    BY <1>1, <1>4, <2>1 DEF Found, Stage
  <2>4. Stage(req'[r]) /\ FoundIn(req'[r], catalog')
    BY <1>1, <1>2, <2>1, <2>3 DEF Stage, FoundIn, Found, Ensuring, Generating
  <2>5. req'[r].session = NoLoad
    BY <1>1, <2>1 DEF Stage, Generating
  <2>6. \A l \in Loads :
          /\ lock'[l] = r <=> req'[r].session = l /\ req'[r].pc \in Holding
          /\ lock'[l] = lock[l]
    BY <1>1, <2>1 DEF LocksHeld, Holding
  <2>7. ~Missing(req'[r], entries) /\ ~Planless(req'[r], entries)
    BY <1>1, <2>1 DEF Missing, Planless, Generating, Stage
  <2> QED  BY <1>1, <1>2, <2>1, <2>2, <2>3, <2>4, <2>5, <2>6, <2>7, QuietStep
<1> QED  BY <1>3, <1>4 DEF Admit

LEMMA SubmitPreserves ==
  ASSUME RequestsInv, NEW r \in Requests, Submit(r) \/ Read(r)
  PROVE  RequestsInv'
<1>1. /\ StrongTypes /\ Stage(req[r]) /\ catalog \in [Models -> Nat]
      /\ req[r].pc = "queued" /\ UNCHANGED <<stateVars, process, files, lock>>
  BY DEF RequestsInv, StrongTypes, Submit, Read
<1>2. ~HasRemoved(req[r]) /\ req[r].pc \notin Holding
  BY <1>1 DEF Stage, HasRemoved, Holding
<1>3. CASE Submit(r)
  <2>1. PICK d \in Documents :
          /\ req' = Answered(r, SubmitAnswer(d))
          /\ catalog' = IF d.form = "good" THEN Registered(d) ELSE catalog
    BY <1>3 DEF Submit
  <2>2. d \in Document /\ SubmitAnswer(d) \in Answers \ {"KeyError", "AttributeError"}
    BY RequestsAssumption DEF SubmitAnswer, Answers
  <2>3. /\ catalog' \in [Models -> Nat]
        /\ \A m \in Models : catalog[m] # NoManifest => catalog'[m] = catalog[m]
    BY <1>1, <2>1, <2>2, RegisteredGrows
  <2> QED  BY <1>1, <1>2, <2>1, <2>2, <2>3, AnswerOnly
<1>4. CASE Read(r)
  <2>1. PICK a \in {"200"} \cup {StatusAnswer(m) : m \in Models} :
          req' = Answered(r, a)
    BY <1>4 DEF Read
  <2>2. a \in Answers \ {"KeyError", "AttributeError"} /\ catalog' = catalog
    BY <1>4, <2>1 DEF StatusAnswer, Answers, Read
  <2> QED  BY <1>1, <1>2, <2>1, <2>2, AnswerOnly
<1> QED  BY <1>3, <1>4

-----------------------------------------------------------------------------
\* The first step of the removals: the requester's mark appears with them.
LEMMA RemovalPreserves ==
  ASSUME RequestsInv, NEW r \in Requests, NEW S \in SUBSET Models,
         RemoveEntries(S), NEW pc \in {"check", "plan"},
         req' = [req EXCEPT ![r].pc = pc],
         UNCHANGED <<process, files, catalog, lock>>,
         \/ req[r].pc = "take" /\ pc = "check" /\ S = {req[r].model}
         \/ req[r].pc = "check" /\ pc = "plan" /\ req[r].model \notin S
  PROVE  RequestsInv'
<1>1. /\ StrongTypes /\ req \in [Requests -> Request] /\ req[r] \in Request
      /\ entries \in [Models -> Entry]
      /\ Stage(req[r]) /\ LocksHeld /\ FoundIn(req[r], catalog)
      /\ entries' = [m \in Models |-> IF m \in S THEN NoEntry ELSE entries[m]]
      /\ running' = running /\ begun' = begun
  BY DEF RequestsInv, StrongTypes, RemoveEntries
<1>2. /\ \A q \in Requests \ {r} : req'[q] = req[q]
      /\ req' = [req EXCEPT ![r] = req'[r]]
      /\ req'[r].pc = pc /\ req'[r].op = req[r].op
      /\ req'[r].model = req[r].model /\ req'[r].manifest = req[r].manifest
      /\ req'[r].session = req[r].session /\ req'[r].answer = req[r].answer
      /\ req'[r] \in Request
  BY <1>1 DEF Request, Ensuring
<1>3. NoEntry \in Entry /\ NoEntry.status = "none" /\ NoEntry.by = NoLoad
  BY DEF NoEntry, Entry
<1>4. entries' \in [Models -> Entry]
      /\ \A m \in Models : entries'[m] = entries[m] \/ (m \in S /\ entries'[m] = NoEntry)
  BY <1>1, <1>3
<1>5. StrongTypes'
  BY <1>1, <1>2, <1>4 DEF StrongTypes
<1>6. Found(req[r]) /\ req[r].model \in Models /\ req[r].session = NoLoad
      /\ req[r].answer = "none"
  BY <1>1 DEF Stage, FoundIn, Ensuring, Generating
<1>7. Stage(req'[r]) /\ FoundIn(req'[r], catalog') /\ Found(req'[r])
  BY <1>1, <1>2, <1>6 DEF Stage, FoundIn, Found, Ensuring, Generating
<1>8. HasRemoved(req[r]) => HasRemoved(req'[r])
  BY <1>1, <1>2 DEF HasRemoved
<1>9. \A l \in Loads :
        /\ lock'[l] = r <=> req'[r].session = l /\ req'[r].pc \in Holding
        /\ lock'[l] = lock[l]
  BY <1>1, <1>2, <1>6 DEF LocksHeld, Holding
<1>10. \A m \in S : Removes(req'[r], m)
  <2>1. CASE req[r].pc = "take" /\ pc = "check" /\ S = {req[r].model}
    BY <1>1, <1>2, <1>7, <2>1 DEF Removes, HasRemoved, Stage
  <2>2. CASE req[r].model \notin S
    BY <1>2, <1>6, <1>7, <2>2 DEF Removes
  <2> QED  BY <2>1, <2>2
<1>11. ~Missing(req'[r], entries') /\ ~Planless(req'[r], entries')
  BY <1>2, <1>6 DEF Missing, Planless, Generating
<1>12. \A m \in Models : entries'[m].status = "ready" => entries'[m].by # NoLoad
  BY <1>3, <1>4 DEF RequestsInv, LoadsKnown
<1>13. \A m \in Models :
         /\ entries'[m].by \in {NoLoad, entries[m].by}
         /\ entries'[m].status = "none" =>
              entries[m].status = "none" \/ Removes(req'[r], m)
         /\ entries'[m].status = "error" => entries'[m] = entries[m]
  BY <1>3, <1>4, <1>10
<1> QED  BY <1>1, <1>2, <1>5, <1>6, <1>7, <1>8, <1>9, <1>11, <1>12, <1>13,
            RequestStep

\* What a request is once _ensure_loading_started has returned.
LEMMA EnsuredFacts ==
  ASSUME RequestsInv, NEW r \in Requests, req[r].pc \in {"check", "plan"},
         req' = Ensured(r)
  PROVE  /\ \A q \in Requests \ {r} : req'[q] = req[q]
         /\ req' \in [Requests -> Request]
         /\ Stage(req'[r]) /\ FoundIn(req'[r], catalog)
         /\ Found(req[r]) /\ Found(req'[r])
         /\ req'[r].model = req[r].model /\ req[r].model \in Models
         /\ HasRemoved(req[r]) => HasRemoved(req'[r])
         /\ req'[r].session = NoLoad /\ req'[r].pc \in {"poll", "done"}
         /\ req'[r].answer \notin {"KeyError", "AttributeError"}
         /\ \A l \in Loads : lock[l] # r
<1>1. /\ req \in [Requests -> Request] /\ req[r] \in Request
      /\ Stage(req[r]) /\ LocksHeld /\ FoundIn(req[r], catalog)
  BY DEF RequestsInv, StrongTypes
<1>2. /\ Found(req[r]) /\ req[r].session = NoLoad /\ req[r].answer = "none"
      /\ req[r].model \in Models
  BY <1>1 DEF Stage, FoundIn, Ensuring, Generating
<1>3. \A l \in Loads : lock[l] # r
  BY <1>1 DEF LocksHeld, Holding
<1>4. CASE req[r].op \in {"infer", "stream"}
  <2>1. /\ \A q \in Requests \ {r} : req'[q] = req[q]
        /\ req' = [req EXCEPT ![r].pc = "poll"]
        /\ req'[r].pc = "poll" /\ req'[r].op = req[r].op
        /\ req'[r].model = req[r].model /\ req'[r].manifest = req[r].manifest
        /\ req'[r].session = req[r].session /\ req'[r].answer = req[r].answer
        /\ req'[r] \in Request
    BY <1>1, <1>4 DEF Ensured, Request
  <2>2. req' \in [Requests -> Request]
    BY <1>1, <2>1
  <2> QED  BY <1>1, <1>2, <1>3, <1>4, <2>1, <2>2
           DEF Stage, FoundIn, Found, HasRemoved, Ensuring, Generating
<1>5. CASE req[r].op \notin {"infer", "stream"}
  <2>1. PICK a \in Answers : /\ a = IF req[r].op = "load" THEN "200"
                                    ELSE "redistributed"
                             /\ req' = Answered(r, a)
    BY <1>5 DEF Ensured, Answers
  <2>2. /\ \A q \in Requests \ {r} : req'[q] = req[q]
        /\ req' = [req EXCEPT ![r] = req'[r]]
        /\ req'[r] = [pc |-> "done", op |-> "none", model |-> req[r].model,
                      manifest |-> req[r].manifest, session |-> NoLoad,
                      yields |-> 0, answer |-> a]
    BY <1>1, <2>1 DEF Answered, Free
  <2>3. req'[r] \in Request
    BY <1>1, <2>2 DEF Request, NoLoad
  <2>4. req' \in [Requests -> Request]
    BY <1>1, <2>2, <2>3
  <2>5. /\ Stage(req'[r]) /\ FoundIn(req'[r], catalog) /\ Found(req'[r])
        /\ HasRemoved(req[r]) => HasRemoved(req'[r])
        /\ a \notin {"KeyError", "AttributeError"}
    BY <1>1, <1>2, <2>1, <2>2
    DEF Stage, FoundIn, Found, HasRemoved, Ensuring, Generating
  <2> QED  BY <1>2, <1>3, <2>2, <2>4, <2>5
<1> QED  BY <1>4, <1>5

LEMMA TakeEntryPreserves ==
  ASSUME RequestsInv, NEW r \in Requests, TakeEntry(r)
  PROVE  RequestsInv'
<1>1. /\ req[r].pc = "take" /\ Stage(req[r]) /\ catalog \in [Models -> Nat]
      /\ UNCHANGED <<process, files, catalog, lock>>
      /\ FoundIn(req[r], catalog)
  BY DEF RequestsInv, StrongTypes, TakeEntry
<1>2. req[r].model \in Models /\ ~HasRemoved(req[r]) /\ req[r].pc \notin Holding
  BY <1>1 DEF Stage, HasRemoved, FoundIn, Ensuring, Holding
<1>3. CASE UNCHANGED stateVars /\ \E a \in {"400", "409"} : req' = Answered(r, a)
  <2>1. {"400", "409"} \subseteq Answers \ {"KeyError", "AttributeError"}
    BY DEF Answers
  <2> QED  BY <1>1, <1>2, <1>3, <2>1, AnswerOnly
<1>4. CASE RemoveEntries({req[r].model}) /\ req' = [req EXCEPT ![r].pc = "check"]
  <2>1. PICK S \in SUBSET Models : S = {req[r].model}
    BY <1>2
  <2>2. RemoveEntries(S)
    BY <1>4, <2>1 DEF RemoveEntries
  <2>3. PICK pc \in {"check", "plan"} : pc = "check"
    OBVIOUS
  <2> QED  BY <1>1, <1>4, <2>1, <2>2, <2>3, RemovalPreserves
<1> QED  BY <1>3, <1>4 DEF TakeEntry

LEMMA CheckStatePreserves ==
  ASSUME RequestsInv, NEW r \in Requests, CheckState(r)
  PROVE  RequestsInv'
<1>1. /\ req[r].pc = "check" /\ StrongTypes /\ Stage(req[r])
      /\ UNCHANGED <<process, files, catalog, lock>>
  BY DEF RequestsInv, CheckState
<1>2. CASE entries[req[r].model].status \in {"loading", "ready"}
  <2>1. req' = Ensured(r) /\ UNCHANGED stateVars
    BY <1>2 DEF CheckState
  <2>2. /\ \A q \in Requests \ {r} : req'[q] = req[q]
        /\ req' \in [Requests -> Request]
        /\ Stage(req'[r]) /\ FoundIn(req'[r], catalog)
        /\ Found(req[r]) /\ Found(req'[r]) /\ req'[r].model = req[r].model
        /\ HasRemoved(req[r]) => HasRemoved(req'[r])
        /\ req'[r].session = NoLoad /\ req'[r].pc \in {"poll", "done"}
        /\ req'[r].answer \notin {"KeyError", "AttributeError"}
        /\ \A l \in Loads : lock[l] # r
    BY <1>1, <2>1, EnsuredFacts
  <2>3. StrongTypes'
    BY <1>1, <2>1, <2>2 DEF StrongTypes, stateVars
  <2>4. ~Missing(req'[r], entries) /\ ~Planless(req'[r], entries)
    BY <1>2, <2>2 DEF Missing, Planless, Generating
  <2>5. req'[r].pc \notin Holding
    BY <2>2 DEF Holding
  <2> QED  BY <1>1, <2>1, <2>2, <2>3, <2>4, <2>5, QuietStep
<1>3. CASE entries[req[r].model].status \notin {"loading", "ready"}
  <2>1. PICK S \in SUBSET Models : RemoveEntries(S) /\ req[r].model \notin S
    BY <1>3 DEF CheckState
  <2>2. PICK pc \in {"check", "plan"} : pc = "plan"
    OBVIOUS
  <2>3. req' = [req EXCEPT ![r].pc = "plan"]
    BY <1>3 DEF CheckState
  <2> QED  BY <1>1, <2>1, <2>2, <2>3, RemovalPreserves
<1> QED  BY <1>2, <1>3

LEMMA PlanPreserves ==
  ASSUME RequestsInv, NEW r \in Requests, Plan(r)
  PROVE  RequestsInv'
<1>1. /\ req[r].pc = "plan" /\ StrongTypes /\ req' = Ensured(r)
      /\ UNCHANGED <<process, files, catalog, lock>>
  BY DEF RequestsInv, Plan
<1>2. /\ \A q \in Requests \ {r} : req'[q] = req[q]
      /\ req' \in [Requests -> Request]
      /\ Stage(req'[r]) /\ FoundIn(req'[r], catalog)
      /\ Found(req[r]) /\ Found(req'[r]) /\ req'[r].model = req[r].model
      /\ req[r].model \in Models
      /\ HasRemoved(req[r]) => HasRemoved(req'[r])
      /\ req'[r].session = NoLoad /\ req'[r].pc \in {"poll", "done"}
      /\ req'[r].answer \notin {"KeyError", "AttributeError"}
      /\ \A l \in Loads : lock[l] # r
  BY <1>1, EnsuredFacts
<1>3. PICK e \in Entry :
        /\ entries' = [entries EXCEPT ![req[r].model] = e]
        /\ \/ e = [status |-> "error", by |-> NoLoad]
           \/ e = [status |-> "loading", by |-> r]
  BY DEF Plan, RefuseLoad, StartLoad, Entry, Requests
<1>4. running' \in {running, running \cup {<<req[r].model, r>>}}
      /\ begun' \in {begun, begun \cup {r}}
  BY DEF Plan, RefuseLoad, StartLoad
<1>5. entries' \in [Models -> Entry]
      /\ \A m \in Models : entries'[m] = IF m = req[r].model THEN e ELSE entries[m]
  BY <1>1, <1>3 DEF StrongTypes
<1>6. StrongTypes'
  BY <1>1, <1>2, <1>4, <1>5 DEF StrongTypes, Requests
<1>7. ~Missing(req'[r], entries') /\ ~Planless(req'[r], entries')
  BY <1>2, <1>3, <1>5 DEF Missing, Planless, Generating
<1>8. req'[r].pc \notin Holding
  BY <1>2 DEF Holding
<1>9. \A m \in Models :
        /\ \/ entries'[m].by \in {NoLoad, entries[m].by}
           \/ entries'[m].by = r /\ req'[r].model = m /\ Found(req'[r])
        /\ entries'[m].status = "ready" => entries'[m].by # NoLoad
        /\ entries'[m].status = "none" => entries[m].status = "none"
        /\ entries'[m].status = "error" /\ entries'[m].by = NoLoad =>
             \/ entries[m].status = "error" /\ entries[m].by = NoLoad
             \/ req'[r].model = m /\ Found(req'[r])
  BY <1>2, <1>3, <1>5 DEF RequestsInv, LoadsKnown
<1>10. \A m \in Models, l \in Loads : <<m, l>> \in running' =>
         \/ <<m, l>> \in running
         \/ l = r /\ req'[r].model = m /\ Found(req'[r])
  BY <1>2, <1>4
<1> QED  BY <1>1, <1>2, <1>6, <1>7, <1>8, <1>9, <1>10, RequestStep

LEMMA LoadEndsPreserves ==
  ASSUME RequestsInv, NEW m \in Models, NEW l \in Loads, LoadEnds(m, l)
  PROVE  RequestsInv'
<1>1. PICK outcome \in {"ready", "error"} : FinishLoad(m, l, outcome)
  BY DEF LoadEnds
<1>2. /\ StrongTypes /\ <<m, l>> \in running /\ running' \subseteq running
      /\ begun' = begun
      /\ UNCHANGED <<process, files, catalog, req, lock>>
      /\ l \in Requests /\ l # NoLoad /\ LocksHeld
      /\ FoundIn(req[l], catalog) /\ Stage(req[l])
  BY <1>1, LoadsAssumption DEF FinishLoad, LoadEnds, httpVars, RequestsInv, Requests
<1>3. entries' \in [Models -> Entry]
      /\ \A k \in Models : entries'[k] = IF k = m THEN [status |-> outcome, by |-> l]
                                         ELSE entries[k]
  BY <1>1, <1>2 DEF FinishLoad, StrongTypes, Entry
<1>4. StrongTypes'
  BY <1>2, <1>3 DEF StrongTypes
<1>5. \A k \in Models :
        /\ \/ entries'[k].by \in {NoLoad, entries[k].by}
           \/ entries'[k].by \in Loads /\ <<k, entries'[k].by>> \in running
        /\ entries'[k].status = "ready" => entries'[k].by # NoLoad
        /\ entries'[k].status = "none" => entries[k].status = "none"
        /\ entries'[k].status = "error" /\ entries'[k].by = NoLoad =>
             entries[k].status = "error" /\ entries[k].by = NoLoad
  BY <1>2, <1>3 DEF RequestsInv, LoadsKnown
<1>6. /\ Missing(req'[l], entries') => Missing(req[l], entries) /\ Found(req[l])
      /\ Planless(req'[l], entries') => Planless(req[l], entries) /\ Found(req[l])
  BY <1>2, <1>5 DEF Missing, Planless, Stage, FoundIn, Found
<1>7. \A k \in Loads : lock[k] = l <=> req[l].session = k /\ req[l].pc \in Holding
  BY <1>2 DEF LocksHeld
<1>8. req[l].session # NoLoad => Found(req[l])
  BY <1>2 DEF Stage
<1> QED  BY <1>2, <1>4, <1>5, <1>6, <1>7, <1>8, RequestStep

LEMMA PollPreserves ==
  ASSUME RequestsInv, NEW r \in Requests, Poll(r) \/ PollTimesOut(r)
  PROVE  RequestsInv'
<1> DEFINE entry == entries[req[r].model]
<1>1. /\ StrongTypes /\ req \in [Requests -> Request] /\ req[r] \in Request
      /\ Stage(req[r]) /\ LocksHeld /\ LoadsKnown /\ FoundIn(req[r], catalog)
      /\ catalog \in [Models -> Nat] /\ entries \in [Models -> Entry]
      /\ req[r].pc = "poll" /\ UNCHANGED <<stateVars, process, files, catalog, lock>>
  BY DEF RequestsInv, StrongTypes, Poll, PollTimesOut
<1>2. /\ Found(req[r]) /\ req[r].model \in Models /\ req[r].answer = "none"
      /\ ~HasRemoved(req[r]) /\ req[r].pc \notin Holding
  BY <1>1 DEF Stage, FoundIn, HasRemoved, Holding
<1>3. CASE entry.status = "none" /\ req' = Answered(r, "KeyError")
  <2>1. Missing(req[r], entries) /\ "KeyError" \in Answers
    BY <1>1, <1>3 DEF Missing, Answers
  <2> QED  BY <1>1, <1>2, <1>3, <2>1, AnswerOnly
<1>4. CASE req' = Answered(r, "failed")
  <2>1. "failed" \in Answers
    BY DEF Answers
  <2> QED  BY <1>1, <1>2, <1>4, <2>1, AnswerOnly
<1>5. CASE /\ entry.status = "ready"
           /\ req' = [req EXCEPT
                ![r].pc = IF req[r].op = "stream" THEN "opened" ELSE "lock",
                ![r].session = entry.by]
  <2>1. entry.by \in Loads
    BY <1>1, <1>2, <1>5 DEF LoadsKnown, Entry
  <2>2. /\ \A q \in Requests \ {r} : req'[q] = req[q]
        /\ req' = [req EXCEPT ![r] = req'[r]]
        /\ req'[r].pc \in {"opened", "lock"} /\ req'[r].session = entry.by
        /\ req'[r].op = req[r].op /\ req'[r].model = req[r].model
        /\ req'[r].manifest = req[r].manifest /\ req'[r].answer = req[r].answer
        /\ req'[r] \in Request
    BY <1>1, <1>5, <2>1 DEF Request, Generating
  <2>3. StrongTypes'
    BY <1>1, <2>2 DEF StrongTypes, stateVars
  <2>4. entry.by # NoLoad
    BY <2>1, LoadsAssumption
  <2>5. Stage(req'[r]) /\ FoundIn(req'[r], catalog') /\ Found(req'[r])
    BY <1>1, <1>2, <2>2, <2>4 DEF Stage, FoundIn, Found, Ensuring, Generating
  <2>6. \A l \in Loads : lock[l] # r
    BY <1>1 DEF LocksHeld, Holding
  <2>7. req'[r].pc \notin Holding
    BY <2>2 DEF Holding
  <2>8. ~Missing(req'[r], entries) /\ ~Planless(req'[r], entries)
    BY <1>2, <1>5, <2>2 DEF Missing, Planless
  <2> QED  BY <1>1, <1>2, <2>2, <2>3, <2>5, <2>6, <2>7, <2>8, QuietStep
<1> QED  BY <1>3, <1>4, <1>5 DEF Poll, PollTimesOut

\* A request that has a session moves on with it.
LEMMA GeneratingStep ==
  ASSUME RequestsInv, NEW r \in Requests,
         UNCHANGED <<stateVars, process, files, catalog>>,
         req[r].pc \in Generating,
         req' = [req EXCEPT ![r] = req'[r]], req'[r] \in Request,
         req'[r].pc \in Generating, req'[r].session = req[r].session,
         req'[r].model = req[r].model, req'[r].manifest = req[r].manifest,
         req'[r].op = req[r].op, req'[r].answer = req[r].answer,
         lock' \in [Loads -> Loads \cup {NoRequest}],
         \A l \in Loads :
           lock'[l] = r <=> req'[r].session = l /\ req'[r].pc \in Holding,
         \A l \in Loads, q \in Requests \ {r} : lock'[l] = q <=> lock[l] = q
  PROVE  RequestsInv'
<1>1. /\ StrongTypes /\ req \in [Requests -> Request]
      /\ Stage(req[r]) /\ FoundIn(req[r], catalog) /\ catalog' = catalog
  BY DEF RequestsInv, StrongTypes
<1>2. StrongTypes' /\ \A q \in Requests \ {r} : req'[q] = req[q]
  BY <1>1 DEF StrongTypes, stateVars
<1>3. Found(req[r]) /\ Found(req'[r]) /\ FoundIn(req'[r], catalog')
  BY <1>1 DEF Stage, FoundIn, Found
<1>4. Stage(req'[r])
  BY <1>1, <1>3 DEF Stage, Ensuring, Generating
<1>5. ~HasRemoved(req[r])
  BY <1>1 DEF HasRemoved, Stage, Generating
<1>6. /\ Missing(req'[r], entries) => Missing(req[r], entries)
      /\ Planless(req'[r], entries) => Planless(req[r], entries)
  BY DEF Missing, Planless
<1> QED  BY <1>1, <1>2, <1>3, <1>4, <1>5, <1>6, QuietStep

LEMMA StreamPreserves ==
  ASSUME RequestsInv, NEW r \in Requests, NextItem(r) \/ YieldToken(r)
  PROVE  RequestsInv'
<1>1. /\ req \in [Requests -> Request] /\ req[r] \in Request /\ LocksHeld
      /\ lock \in [Loads -> Loads \cup {NoRequest}]
      /\ UNCHANGED <<stateVars, process, files, catalog, lock>>
      /\ req[r].pc \in Generating
  BY DEF RequestsInv, StrongTypes, NextItem, YieldToken, Generating
<1>2. /\ req' = [req EXCEPT ![r] = req'[r]] /\ req'[r] \in Request
      /\ req'[r].pc \in Generating
      /\ req'[r].pc \in Holding <=> req[r].pc \in Holding
      /\ req'[r].session = req[r].session /\ req'[r].model = req[r].model
      /\ req'[r].manifest = req[r].manifest /\ req'[r].op = req[r].op
      /\ req'[r].answer = req[r].answer
  <2>1. CASE NextItem(r)
    BY <1>1, <2>1 DEF NextItem, Request, Generating, Holding
  <2>2. CASE YieldToken(r)
    <3>1. /\ req' = [req EXCEPT ![r].pc = "yielded", ![r].yields = @ + 1]
          /\ req[r].pc = "generate" /\ req[r].yields + 1 \in Nat
      BY <1>1, <2>2 DEF YieldToken, Request
    <3>2. req'[r] = [req[r] EXCEPT !.pc = "yielded", !.yields = req[r].yields + 1]
      BY <1>1, <3>1
    <3>3. req' = [req EXCEPT ![r] = req'[r]]
      BY <1>1, <3>1, <3>2
    <3> QED  BY <1>1, <3>1, <3>2, <3>3 DEF Request, Generating, Holding
  <2> QED  BY <2>1, <2>2
<1>3. \A l \in Loads :
        lock'[l] = r <=> req'[r].session = l /\ req'[r].pc \in Holding
  BY <1>1, <1>2 DEF LocksHeld
<1> QED  BY <1>1, <1>2, <1>3, GeneratingStep

LEMMA AcquireLockPreserves ==
  ASSUME RequestsInv, NEW r \in Requests, AcquireLock(r)
  PROVE  RequestsInv'
<1> DEFINE s == req[r].session
<1>1. /\ req \in [Requests -> Request] /\ req[r] \in Request /\ LocksHeld
      /\ lock \in [Loads -> Loads \cup {NoRequest}] /\ Stage(req[r])
      /\ UNCHANGED <<stateVars, process, files, catalog>>
      /\ req[r].pc = "lock" /\ lock[s] = NoRequest
      /\ lock' = [lock EXCEPT ![s] = r]
      /\ req' = [req EXCEPT ![r].pc = "generate"]
  BY DEF RequestsInv, StrongTypes, AcquireLock
<1>2. /\ req' = [req EXCEPT ![r] = req'[r]] /\ req'[r] \in Request
      /\ req'[r].pc = "generate"
      /\ req'[r].session = s /\ req'[r].model = req[r].model
      /\ req'[r].manifest = req[r].manifest /\ req'[r].op = req[r].op
      /\ req'[r].answer = req[r].answer
  BY <1>1 DEF Request, Generating
<1>3. s \in Loads /\ req[r].pc \in Generating /\ req'[r].pc \in Generating
  BY <1>1, <1>2 DEF Stage, Generating, Request
<1>4. lock' \in [Loads -> Loads \cup {NoRequest}]
  BY <1>1 DEF Requests
<1>5. \A l \in Loads : lock[l] # r
  BY <1>1 DEF LocksHeld, Holding
<1>6. \A l \in Loads :
        lock'[l] = r <=> req'[r].session = l /\ req'[r].pc \in Holding
  BY <1>1, <1>2, <1>3, <1>5 DEF Holding
<1>7. \A l \in Loads, q \in Requests \ {r} : lock'[l] = q <=> lock[l] = q
  BY <1>1, <1>3, LoadsAssumption DEF NoRequest, NoLoad, Requests
<1> QED  BY <1>1, <1>2, <1>3, <1>4, <1>6, <1>7, GeneratingStep

LEMMA GenerationEndsPreserves ==
  ASSUME RequestsInv, NEW r \in Requests, GenerationEnds(r)
  PROVE  RequestsInv'
<1> DEFINE s == req[r].session
<1>1. /\ req \in [Requests -> Request] /\ req[r] \in Request /\ LocksHeld
      /\ lock \in [Loads -> Loads \cup {NoRequest}] /\ Stage(req[r])
      /\ catalog \in [Models -> Nat]
      /\ UNCHANGED <<stateVars, process, files, catalog>>
      /\ req[r].pc = "generate"
      /\ lock' = [lock EXCEPT ![s] = NoRequest]
  BY DEF RequestsInv, StrongTypes, GenerationEnds
<1>2. s \in Loads /\ {"count", "generate"} \subseteq Generating
  BY <1>1 DEF Stage, Generating, Request
<1>3. \A l \in Loads : lock[l] = r <=> l = s
  BY <1>1 DEF LocksHeld, Holding
<1>4. lock' \in [Loads -> Loads \cup {NoRequest}]
      /\ \A l \in Loads : lock'[l] = IF lock[l] = r THEN NoRequest ELSE lock[l]
  BY <1>1, <1>2, <1>3
<1>5. CASE req' = [req EXCEPT ![r].pc = "count"]
  <2>1. /\ req' = [req EXCEPT ![r] = req'[r]] /\ req'[r] \in Request
        /\ req'[r].pc = "count"
        /\ req'[r].session = s /\ req'[r].model = req[r].model
        /\ req'[r].manifest = req[r].manifest /\ req'[r].op = req[r].op
        /\ req'[r].answer = req[r].answer
    BY <1>1, <1>5 DEF Request, Generating
  <2>2. \A l \in Loads :
          lock'[l] = r <=> req'[r].session = l /\ req'[r].pc \in Holding
    BY <1>4, <2>1, LoadsAssumption DEF NoRequest, NoLoad, Requests, Holding
  <2>3. \A l \in Loads, q \in Requests \ {r} : lock'[l] = q <=> lock[l] = q
    BY <1>4, LoadsAssumption DEF NoRequest, NoLoad, Requests
  <2> QED  BY <1>1, <1>2, <1>4, <2>1, <2>2, <2>3, GeneratingStep
<1>6. CASE req' = Answered(r, "failed")
  <2>1. "failed" \in Answers /\ ~HasRemoved(req[r])
    BY <1>1 DEF Answers, HasRemoved, Stage
  <2> QED  BY <1>1, <1>4, <1>6, <2>1, AnswerStep
<1> QED  BY <1>5, <1>6 DEF GenerationEnds

LEMMA CountNodesPreserves ==
  ASSUME RequestsInv, NEW r \in Requests, CountNodes(r)
  PROVE  RequestsInv'
<1> DEFINE entry == entries[req[r].model]
<1>1. /\ req \in [Requests -> Request] /\ req[r] \in Request
      /\ Stage(req[r]) /\ catalog \in [Models -> Nat] /\ req[r].pc = "count"
      /\ UNCHANGED <<stateVars, process, files, catalog, lock>>
  BY DEF RequestsInv, StrongTypes, CountNodes
<1>2. /\ Found(req[r]) /\ ~HasRemoved(req[r]) /\ req[r].pc \notin Holding
      /\ req[r].pc \in Generating
  BY <1>1 DEF Stage, Generating, HasRemoved, Holding
<1>3. PICK a \in Answers :
        /\ req' = Answered(r, a)
        /\ a = "KeyError" => entry.status = "none"
        /\ a = "AttributeError" => entry.status = "error" /\ entry.by = NoLoad
  <2>1. "KeyError" \in Answers /\ "AttributeError" \in Answers /\ "200" \in Answers
    BY DEF Answers
  <2>2. CASE entry.status = "none"
    BY <2>1, <2>2 DEF CountNodes
  <2>3. CASE entry.status = "error" /\ entry.by = NoLoad
    BY <2>1, <2>3 DEF CountNodes
  <2>4. CASE entry.status # "none" /\ ~(entry.status = "error" /\ entry.by = NoLoad)
    BY <2>1, <2>4 DEF CountNodes
  <2> QED  BY <2>2, <2>3, <2>4
<1>4. /\ a = "KeyError" => Missing(req[r], entries)
      /\ a = "AttributeError" => Planless(req[r], entries)
  BY <1>2, <1>3 DEF Missing, Planless
<1> QED  BY <1>1, <1>2, <1>3, <1>4, AnswerOnly

LEMMA AbandonPreserves ==
  ASSUME RequestsInv, NEW r \in Requests, Abandon(r)
  PROVE  RequestsInv'
<1>1. /\ Stage(req[r]) /\ catalog \in [Models -> Nat]
      /\ lock \in [Loads -> Loads \cup {NoRequest}]
      /\ req[r].pc \in {"opened", "yielded"} /\ req' = Answered(r, "failed")
      /\ UNCHANGED <<stateVars, process, files, catalog>>
      /\ lock' = [l \in Loads |-> IF lock[l] = r THEN NoRequest ELSE lock[l]]
  BY DEF RequestsInv, StrongTypes, Abandon
<1>2. "failed" \in Answers /\ ~HasRemoved(req[r])
  BY <1>1 DEF Answers, HasRemoved, Stage
<1>3. lock' \in [Loads -> Loads \cup {NoRequest}]
  BY <1>1
<1> QED  BY <1>1, <1>2, <1>3, AnswerStep

-----------------------------------------------------------------------------
\* The invariant of the requests holds in every reachable state.
THEOREM RequestsInvariant == Spec => []RequestsInv
<1>1. ASSUME RequestsInv, [Next]_vars PROVE RequestsInv'
  <2>1. CASE UNCHANGED vars
    BY <1>1, <2>1
    DEF vars, stateVars, httpVars, RequestsInv, StrongTypes, LocksHeld,
        LoadsKnown, LoadOf, RivalsKnown
  <2>2. CASE Quiescent
    BY <2>1, <2>2 DEF Quiescent
  <2>3. ASSUME NEW r \in Requests, HandlerStep(r) PROVE RequestsInv'
    BY <1>1, <2>3, AdmitPreserves, SubmitPreserves, TakeEntryPreserves,
       CheckStatePreserves, PlanPreserves, PollPreserves, StreamPreserves,
       AcquireLockPreserves, GenerationEndsPreserves, CountNodesPreserves
    DEF HandlerStep
  <2>4. CASE Next
    BY <1>1, <2>2, <2>3, <2>4, StartUpPreserves, ArrivePreserves,
       AbandonPreserves, LoadEndsPreserves
    DEF Next, Requests
  <2> QED  BY <1>1, <2>1, <2>4
<1> QED  BY InitEstablishes, <1>1, PTL DEF Spec

\* The tables keep their types, and a session's lock is held by exactly the
\* request that generates on it, across its yields and every way out.
THEOREM RequestTypes == Spec => []TypeOK
<1>1. RequestsInv => TypeOK
  <2> SUFFICES ASSUME RequestsInv PROVE TypeOK
    OBVIOUS
  <2>1. StrongTypes /\ LocksHeld
    BY DEF RequestsInv
  <2>2. \A m \in Models :
          /\ entries[m].status \in {"none", "loading", "ready", "error"}
          /\ entries[m].by \in Loads \cup {NoLoad}
    BY <2>1 DEF StrongTypes, Entry
  <2>3. \A r \in Requests : req[r].pc \in {"free", "queued", "take", "check",
          "plan", "poll", "opened", "lock", "generate", "yielded", "count", "done"}
    BY <2>1 DEF StrongTypes, Request, Ensuring, Generating
  <2> QED  BY <2>1, <2>2, <2>3 DEF TypeOK, StrongTypes, LocksHeld, Holding
<1> QED  BY RequestsInvariant, <1>1, PTL

\* Whatever a request has been waiting for, the session it generates on was
\* loaded for the manifest it looked up, under the name it asked for.
THEOREM SessionsMatchManifests == Spec => []SessionOfManifest
<1>1. RequestsInv => SessionOfManifest
  <2> SUFFICES ASSUME RequestsInv, NEW r \in Requests, req[r].session # NoLoad
               PROVE  /\ req[req[r].session].manifest = req[r].manifest
                      /\ req[req[r].session].model = req[r].model
    BY DEF SessionOfManifest
  <2>1. LoadOf(req[r].session, req[r].model) /\ req[r].session \in Requests
    BY DEF RequestsInv, StrongTypes, LoadsKnown, Request, Requests
  <2>2. Found(req[r]) /\ FoundIn(req[r], catalog)
        /\ FoundIn(req[req[r].session], catalog)
    BY <2>1 DEF RequestsInv, Stage
  <2> QED  BY <2>1, <2>2 DEF LoadOf, FoundIn
<1> QED  BY RequestsInvariant, <1>1, PTL

\* The unguarded look-ups of _get_ready_session and _run_inference raise only
\* if another request removed the entry, or planned the model again.
THEOREM LookupsFailOnlyToRivals == Spec => []LookupFailsOnlyToRivals
<1>1. RequestsInv => LookupFailsOnlyToRivals
  <2> SUFFICES ASSUME RequestsInv PROVE LookupFailsOnlyToRivals
    OBVIOUS
  <2>1. ASSUME NEW r \in Requests, req[r].answer = "KeyError"
        PROVE  \E q \in Requests \ {r} :
                 \/ req[q].model = req[r].model /\ Redistributes(q)
                 \/ /\ req[q].model \in Models \ {req[r].model}
                    /\ req[q].manifest # NoManifest
    <3>1. PICK q \in Requests \ {r} : Removes(req[q], req[r].model)
      BY <2>1 DEF RequestsInv, RivalsKnown, Missing
    <3> QED  BY <3>1 DEF Removes, HasRemoved, Redistributes, Found
  <2>2. ASSUME NEW r \in Requests, req[r].answer = "AttributeError"
        PROVE  \E q \in Requests \ {r} :
                 req[q].model = req[r].model /\ req[q].manifest # NoManifest
    BY <2>2 DEF RequestsInv, RivalsKnown, Planless, LoadOf, Found
  <2> QED  BY <2>1, <2>2 DEF LookupFailsOnlyToRivals
<1> QED  BY RequestsInvariant, <1>1, PTL
=============================================================================
