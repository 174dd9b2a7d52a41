------------------------- MODULE InferenceRequests --------------------------
(***************************************************************************)
(* The HTTP requests of the orchestrator (http_api.py) from their arrival  *)
(* to their answer: POST /infer with and without streaming, /load,         *)
(* /redistribute, POST /models and the read-only routes; the catalogue of  *)
(* manifests they look names up in (model_registry.py, manifest.py,        *)
(* server.py), and the thread pool and generation locks they wait for.     *)
(*                                                                         *)
(* Loads are those of ModelStates: they end at any time, or never.  What   *)
(* happens on the workers is left to ModelLoading and Generation; here a   *)
(* generation takes its session's lock, yields and ends.  A synchronous    *)
(* route, and every item a stream is asked for, occupies a thread of one   *)
(* pool until it returns.                                                  *)
(***************************************************************************)
EXTENDS ModelStates, Sequences, FiniteSets

CONSTANTS MaxRequests,   \* bound: HTTP requests made
          Operations,    \* subset of AllOperations
          PoolSize,      \* threads for synchronous work
          MaxYields,     \* bound: tokens a stream yields
          Documents,     \* the manifest texts a client may post
          Directories    \* sequences of documents: manifests/ at start-up

Requests == Loads
AllOperations == {"infer", "stream", "load", "redistribute", "submit", "read"}

\* How far yaml.safe_load and validate_manifest get with a document: a syntax
\* error, no mapping at all (nothing, a number), a field missing or wrong, a
\* name that is not a string, or a manifest.
Forms == {"bad_yaml", "no_mapping", "invalid", "odd_name", "good"}
Document == [form : Forms, name : Models, id : Nat \ {0}]
NoManifest == 0

ASSUME RequestsAssumption ==
  /\ Loads = 1..MaxRequests
  /\ Operations \subseteq AllOperations
  /\ PoolSize \in Nat \ {0} /\ MaxYields \in Nat
  /\ Documents \subseteq Document /\ \A d \in Directories : d \in Seq(Document)

VARIABLES process,   \* "starting", "up" or "crashed"
          files,     \* the manifest files still to be read at start-up
          catalog,   \* ModelRegistry._models: the manifest of each name
          req,       \* the requests
          lock       \* the request generating on each session, or NoRequest

httpVars == <<process, files, catalog, req, lock>>
vars == <<stateVars, httpVars>>

NoRequest == 0
Free == [pc |-> "free", op |-> "none", model |-> "none", manifest |-> NoManifest,
         session |-> NoLoad, yields |-> 0, answer |-> "none"]

Init ==
  /\ StatesInit
  /\ process = "starting"
  /\ files \in Directories
  /\ catalog = [m \in Models |-> NoManifest]
  /\ req = [r \in Requests |-> Free]
  /\ lock = [l \in Loads |-> NoRequest]

-----------------------------------------------------------------------------
(***************************************************************************)
(* The catalogue.                                                          *)
(***************************************************************************)
\* ModelRegistry.register raises ValueError for a name it has.
Taken(d) == catalog[d.name] # NoManifest

\* Mutant of Registered: a second registration replaces the first.
Registered_Replaces(d) == [catalog EXCEPT ![d.name] = d.id]

Registered(d) == [catalog EXCEPT ![d.name] = IF @ = NoManifest THEN d.id ELSE @]

\* register_existing_manifests, one file: ManifestError and ValueError skip
\* it.  Neither covers a YAMLError, nor the TypeError of a name that is no
\* string or of a document that is no container.
ReadManifestFile ==
  LET d == Head(files)
  IN  /\ process = "starting" /\ files # <<>>
      /\ files' = Tail(files)
      /\ \/ /\ d.form = "good"
            /\ catalog' = Registered(d)
            /\ UNCHANGED process
         \/ /\ d.form \in {"invalid", "no_mapping"}
            /\ UNCHANGED <<process, catalog>>
         \/ /\ d.form \in {"bad_yaml", "odd_name", "no_mapping"}
            /\ process' = "crashed"
            /\ UNCHANGED catalog
      /\ UNCHANGED <<stateVars, req, lock>>

ServerStarts ==
  /\ process = "starting" /\ files = <<>>
  /\ process' = "up"
  /\ UNCHANGED <<stateVars, files, catalog, req, lock>>

\* submit_model's status code.  Only the name that is no string gets past
\* the handler's except clauses.
SubmitAnswer(d) ==
  CASE d.form = "good" -> IF Taken(d) THEN "409" ELSE "201"
    [] d.form = "odd_name" -> "500"
    [] OTHER -> "400"

-----------------------------------------------------------------------------
(***************************************************************************)
(* Arrival and the thread pool.                                            *)
(***************************************************************************)
\* Requests that occupy a thread of the pool; "yielded" and "opened" streams
\* and queued requests do not.
Working(r) == req[r].pc \in {"take", "check", "plan", "poll", "lock", "generate",
                             "count"}
ThreadFree == Cardinality({r \in Requests : Working(r)}) < PoolSize

\* The handler returns or raises; what it looked up is kept.  An answer is a
\* status code; or "redistributed", the 200 of that route; or "failed":
\* a model that could not be loaded (400 or 503) or not in time (504), an error
\* of the generation, sent as 500 or inside the stream, or a reader that went
\* away; or the exception a look-up of model_states raised.
Answered(r, answer) ==
  [req EXCEPT ![r] = [Free EXCEPT !.pc = "done", !.answer = answer,
                        !.model = req[r].model, !.manifest = req[r].manifest]]

\* The operations that name a model in their path or body.
NamesModel(op) == op \notin {"submit", "read"}

\* A request comes in.  A streaming /infer looks the manifest up on the event
\* loop; everything else waits for a thread first.
Arrive(r, op, m) ==
  /\ process = "up" /\ op \in Operations
  /\ req[r].pc = "free" /\ \A q \in 1..(r - 1) : req[q].pc # "free"
  /\ req' = [req EXCEPT ![r] =
       IF op = "stream" /\ catalog[m] = NoManifest
       THEN [Free EXCEPT !.pc = "done", !.model = m, !.answer = "404"]
       ELSE [Free EXCEPT !.pc = "queued", !.op = op,
               !.model = IF NamesModel(op) THEN m ELSE "none",
               !.manifest = IF op = "stream" THEN catalog[m] ELSE NoManifest]]
  /\ UNCHANGED <<stateVars, process, files, catalog, lock>>

\* A thread takes the request up: 404, or on to the handler's first step.
Admit(r) ==
  LET m == req[r].model
  IN  /\ req[r].pc = "queued" /\ req[r].op \in {"infer", "stream", "load", "redistribute"}
      /\ ThreadFree
      /\ req' = IF req[r].op # "stream" /\ catalog[m] = NoManifest
                THEN Answered(r, "404")
                ELSE [req EXCEPT
                   ![r].pc = IF req[r].op = "redistribute" THEN "take" ELSE "check",
                   ![r].manifest = IF req[r].op = "stream" THEN @ ELSE catalog[m]]
      /\ UNCHANGED <<stateVars, process, files, catalog, lock>>

\* submit_model: one critical section of the catalogue.
Submit(r) ==
  /\ req[r].pc = "queued" /\ req[r].op = "submit" /\ ThreadFree
  /\ \E d \in Documents :
       /\ req' = Answered(r, SubmitAnswer(d))
       /\ catalog' = IF d.form = "good" THEN Registered(d) ELSE catalog
  /\ UNCHANGED <<stateVars, process, files, lock>>

\* get_model_status: any entry can be reported, and none ("not_loaded").
StatusAnswer(m) == IF catalog[m] = NoManifest THEN "404" ELSE "200"

\* The read-only routes take one look at a table: the registry's nodes, the
\* catalogue, the plans for /topology, or the entry of one model.
Read(r) ==
  /\ req[r].pc = "queued" /\ req[r].op = "read" /\ ThreadFree
  /\ \E answer \in {"200"} \cup {StatusAnswer(m) : m \in Models} :
       req' = Answered(r, answer)
  /\ UNCHANGED <<stateVars, process, files, catalog, lock>>

-----------------------------------------------------------------------------
(***************************************************************************)
(* Loading on demand.                                                      *)
(***************************************************************************)
\* What follows _ensure_loading_started: /infer polls, the others answer.
Ensured(r) ==
  IF req[r].op \in {"infer", "stream"} THEN [req EXCEPT ![r].pc = "poll"]
  ELSE Answered(r, IF req[r].op = "load" THEN "200" ELSE "redistributed")

\* redistribute_model under the lock.
TakeEntry(r) ==
  LET m == req[r].model
  IN  /\ req[r].pc = "take"
      /\ \/ /\ entries[m].status \in {"none", "loading"}
            /\ req' = Answered(r, IF entries[m].status = "none" THEN "400" ELSE "409")
            /\ UNCHANGED stateVars
         \/ /\ RemoveEntries({m})
            /\ req' = [req EXCEPT ![r].pc = "check"]
      /\ UNCHANGED <<process, files, catalog, lock>>

\* _ensure_loading_started under the lock; the unloading of the models it
\* removes comes before the plan and changes nothing here.
CheckState(r) ==
  LET m == req[r].model
      others == {k \in Models \ {m} : entries[k].status = "ready"}
  IN  /\ req[r].pc = "check"
      /\ IF entries[m].status \in {"loading", "ready"}
         THEN req' = Ensured(r) /\ UNCHANGED stateVars
         ELSE /\ RemoveEntries(others)
              /\ req' = [req EXCEPT ![r].pc = "plan"]
      /\ UNCHANGED <<process, files, catalog, lock>>

\* Mutant of Plan: the error of plan_dispatch is returned but not stored.
Plan_ErrorNotStored(r) ==
  LET m == req[r].model
  IN  /\ req[r].pc = "plan"
      /\ \/ UNCHANGED stateVars /\ req' = Ensured(r)
         \/ StartLoad(m, r) /\ req' = Ensured(r)
      /\ UNCHANGED <<process, files, catalog, lock>>

\* plan_dispatch, and the entry written whatever it is by now.
Plan(r) ==
  LET m == req[r].model
  IN  /\ req[r].pc = "plan"
      /\ \/ RefuseLoad(m) /\ req' = Ensured(r)
         \/ StartLoad(m, r) /\ req' = Ensured(r)
      /\ UNCHANGED <<process, files, catalog, lock>>

\* A background load ends, well or badly.
LoadEnds(m, l) ==
  /\ \E outcome \in {"ready", "error"} : FinishLoad(m, l, outcome)
  /\ UNCHANGED httpVars

\* _get_ready_session's loop: a look that finds the entry gone raises
\* KeyError; a session goes to the generator, an error to the client.
Poll(r) ==
  LET entry == entries[req[r].model]
  IN  /\ req[r].pc = "poll" /\ entry.status # "loading"
      /\ \/ entry.status = "none" /\ req' = Answered(r, "KeyError")
         \/ /\ entry.status = "error"
            /\ req' = Answered(r, "failed")
         \/ /\ entry.status = "ready"
            /\ req' = [req EXCEPT
                 ![r].pc = IF req[r].op = "stream" THEN "opened" ELSE "lock",
                 ![r].session = entry.by]
      /\ UNCHANGED <<stateVars, process, files, catalog, lock>>

\* Mutant of PollTimesOut: no deadline.
PollTimesOut_Never(r) == FALSE /\ UNCHANGED vars

\* Still loading at the deadline.
PollTimesOut(r) ==
  /\ req[r].pc = "poll" /\ entries[req[r].model].status = "loading"
  /\ req' = Answered(r, "failed")
  /\ UNCHANGED <<stateVars, process, files, catalog, lock>>

-----------------------------------------------------------------------------
(***************************************************************************)
(* Generating.                                                             *)
(***************************************************************************)
\* A thread is found for the next item of a stream.
NextItem(r) ==
  /\ req[r].pc \in {"opened", "yielded"} /\ ThreadFree
  /\ req' = [req EXCEPT ![r].pc = IF @ = "opened" THEN "lock" ELSE "generate"]
  /\ UNCHANGED <<stateVars, process, files, catalog, lock>>

\* The prompt is tokenised (it always can be), and generate_stream blocks its
\* thread until the session's lock is free.
AcquireLock(r) ==
  /\ req[r].pc = "lock" /\ lock[req[r].session] = NoRequest
  /\ lock' = [lock EXCEPT ![req[r].session] = r]
  /\ req' = [req EXCEPT ![r].pc = "generate"]
  /\ UNCHANGED <<stateVars, process, files, catalog>>

\* A stream hands out a token and gives its thread back, not the lock.
YieldToken(r) ==
  /\ req[r].pc = "generate" /\ req[r].op = "stream" /\ req[r].yields < MaxYields
  /\ req' = [req EXCEPT ![r].pc = "yielded", ![r].yields = @ + 1]
  /\ UNCHANGED <<stateVars, process, files, catalog, lock>>

\* The last token; or an error, which a stream reports inline and _run_inference
\* lets through.
GenerationEnds(r) ==
  /\ req[r].pc = "generate"
  /\ lock' = [lock EXCEPT ![req[r].session] = NoRequest]
  /\ \/ req' = [req EXCEPT ![r].pc = "count"]
     \/ req' = Answered(r, "failed")
  /\ UNCHANGED <<stateVars, process, files, catalog>>

\* num_nodes is read from the entry the model has by now: KeyError without
\* one, AttributeError if it has no plan.
CountNodes(r) ==
  LET entry == entries[req[r].model]
  IN  /\ req[r].pc = "count"
      /\ req' = Answered(r,
           CASE entry.status = "none" -> "KeyError"
             [] entry.status = "error" /\ entry.by = NoLoad -> "AttributeError"
             [] OTHER -> "200")
      /\ UNCHANGED <<stateVars, process, files, catalog, lock>>

\* Mutant of Abandon: a stream that is dropped keeps the lock.
Abandon_KeepsLock(r) ==
  /\ req[r].pc \in {"opened", "yielded"}
  /\ req' = Answered(r, "failed")
  /\ UNCHANGED <<stateVars, process, files, catalog, lock>>

\* The reader of a stream goes away: the generator is closed.
Abandon(r) ==
  /\ req[r].pc \in {"opened", "yielded"}
  /\ req' = Answered(r, "failed")
  /\ lock' = [l \in Loads |-> IF lock[l] = r THEN NoRequest ELSE lock[l]]
  /\ UNCHANGED <<stateVars, process, files, catalog>>

-----------------------------------------------------------------------------
HandlerStep(r) ==
  \/ Admit(r) \/ Submit(r) \/ Read(r)
  \/ TakeEntry(r) \/ CheckState(r) \/ Plan(r) \/ Poll(r) \/ PollTimesOut(r)
  \/ NextItem(r) \/ AcquireLock(r) \/ YieldToken(r) \/ GenerationEnds(r)
  \/ CountNodes(r)

\* Nothing is left to do, or the process never came up.
Quiescent ==
  /\ process = "crashed" \/ \A r \in Requests : req[r].pc = "done"
  /\ UNCHANGED vars

Next ==
  \/ ReadManifestFile \/ ServerStarts
  \/ \E r \in Requests :
       \/ \E op \in Operations, m \in Models : Arrive(r, op, m)
       \/ HandlerStep(r) \/ Abandon(r)
       \/ \E m \in Models : LoadEnds(m, r)
  \/ Quiescent

\* A request that can go on does, its deadline included: generations end
\* (Generation) and the reader of a stream takes the next item or goes away.
\* Loads need not end, and no client need send anything.
Fairness == \A r \in Requests : WF_vars(HandlerStep(r))

Spec == Init /\ [][Next]_vars /\ Fairness

-----------------------------------------------------------------------------
\* The states of the catalogue, the entries, the requests and the generation
\* locks; a session's lock is held by exactly the request that generates on
\* it or is between two tokens (generate_stream holds it across its yields).
TypeOK ==
  /\ process \in {"starting", "up", "crashed"} /\ files \in Seq(Document)
  /\ catalog \in [Models -> Nat]
  /\ \A m \in Models :
       /\ entries[m].status \in {"none", "loading", "ready", "error"}
       /\ entries[m].by \in Loads \cup {NoLoad}
  /\ running \subseteq Models \X Loads /\ begun \subseteq Loads
  /\ \A r \in Requests : req[r].pc \in {"free", "queued", "take", "check", "plan",
       "poll", "opened", "lock", "generate", "yielded", "count", "done"}
  /\ \A l \in Loads, r \in Requests :
       lock[l] = r <=> /\ req[r].session = l
                       /\ req[r].pc \in {"generate", "yielded"}

\* r may have removed the entry of its model.
Redistributes(r) == req[r].op = "redistribute" \/ req[r].answer = "redistributed"

\* A request meets a vanished entry (KeyError) only if another client
\* redistributed its model or asked for another model, and an entry without a
\* plan (AttributeError) only if another request planned the same model: the
\* unguarded look-ups of _get_ready_session and _run_inference are safe as
\* long as nobody else interferes, whatever the outcome of their own load.
LookupFailsOnlyToRivals ==
  \A r \in Requests :
    /\ req[r].answer = "KeyError" =>
         \E q \in Requests \ {r} :
           \/ req[q].model = req[r].model /\ Redistributes(q)
           \/ req[q].model \in Models \ {req[r].model} /\ req[q].manifest # NoManifest
    /\ req[r].answer = "AttributeError" =>
         \E q \in Requests \ {r} :
           req[q].model = req[r].model /\ req[q].manifest # NoManifest

\* A request generates on a session that was built from the manifest it found
\* under the model's name, however long ago that load was started: submit_model
\* never replaces a manifest.
SessionOfManifest ==
  \A r \in Requests : req[r].session # NoLoad =>
    /\ req[req[r].session].manifest = req[r].manifest
    /\ req[req[r].session].model = req[r].model

\* Nobody waits for ever, although loads may hang and streams keep their
\* session locked between tokens: again and again every request made so far is
\* answered.  The deadline of _get_ready_session ends the waiting and every way
\* out of generate_stream releases the lock.  It needs a thread for every
\* request (see RoutesServed).
EveryRequestAnswered ==
  []<>(\A r \in Requests : req[r].pc \in {"free", "done"})

\* The event loop stays free to serve other routes while inference runs
\* (infer): a read-only request is answered in the end.
RoutesServed ==
  \A r \in Requests : req[r].pc = "queued" /\ req[r].op = "read" ~> req[r].pc = "done"

-----------------------------------------------------------------------------
(***************************************************************************)
(* The inductive invariant behind TypeOK, LookupFailsOnlyToRivals and      *)
(* SessionOfManifest.  x is the record of a request.                       *)
(***************************************************************************)
\* In or before _ensure_loading_started; with a session in hand; locking it.
Ensuring == {"take", "check", "plan"}
Generating == {"opened", "lock", "generate", "yielded", "count"}
Holding == {"generate", "yielded"}

Answers == {"200", "201", "400", "404", "409", "500", "redistributed", "failed",
            "KeyError", "AttributeError"}
Request ==
  [pc : {"free", "queued", "poll", "done"} \cup Ensuring \cup Generating,
   op : AllOperations \cup {"none"}, model : Models \cup {"none"},
   manifest : Nat, session : Loads \cup {NoLoad}, yields : Nat,
   answer : Answers \cup {"none"}]
Entry == [status : {"none", "loading", "ready", "error"}, by : Loads \cup {NoLoad}]

StrongTypes ==
  /\ process \in {"starting", "up", "crashed"} /\ files \in Seq(Document)
  /\ catalog \in [Models -> Nat]
  /\ entries \in [Models -> Entry]
  /\ running \subseteq Models \X Loads /\ begun \subseteq Loads
  /\ req \in [Requests -> Request]
  /\ lock \in [Loads -> Loads \cup {NoRequest}]

LocksHeld ==
  \A l \in Loads, r \in Requests :
    lock[l] = r <=> req[r].session = l /\ req[r].pc \in Holding

\* A request that found a manifest found the one the catalogue still has.
Found(x) == x.manifest # NoManifest
FoundIn(x, cat) ==
  Found(x) => x.model \in Models /\ x.manifest = cat[x.model]

\* What a request has at each point of its handler.
Stage(x) ==
  /\ x.pc \in {"poll"} \cup Ensuring \cup Generating => Found(x)
  /\ x.pc = "queued" /\ NamesModel(x.op) => x.model \in Models
  /\ x.pc = "queued" /\ x.op = "stream" => Found(x)
  /\ x.pc = "free" => ~Found(x)
  /\ x.pc \in Generating <=> x.session # NoLoad
  /\ x.pc # "done" => x.answer = "none"
  /\ x.pc = "take" => x.op = "redistribute"
  /\ x.answer \in {"KeyError", "AttributeError"} => Found(x)

\* A load belongs to the model its request named, wherever it is remembered.
LoadOf(l, m) == req[l].model = m /\ Found(req[l])
LoadsKnown ==
  /\ \A m \in Models : entries[m].by # NoLoad => LoadOf(entries[m].by, m)
  /\ \A m \in Models : entries[m].status = "ready" => entries[m].by # NoLoad
  /\ \A m \in Models, l \in Loads : <<m, l>> \in running => LoadOf(l, m)
  /\ \A r \in Requests :
       req[r].session # NoLoad => LoadOf(req[r].session, req[r].model)

\* A request that has removed the entry of its own model, or may have removed
\* that of another, m.
HasRemoved(x) ==
  \/ x.op = "redistribute" /\ x.pc \in {"check", "plan"}
  \/ x.answer = "redistributed"
Removes(x, m) ==
  \/ x.model = m /\ Found(x) /\ HasRemoved(x)
  \/ x.model \in Models \ {m} /\ Found(x)

\* The look-ups that fail, or would now, given the entries e.
Missing(x, e) ==
  \/ x.pc \in {"poll"} \cup Generating /\ e[x.model].status = "none"
  \/ x.answer = "KeyError"
Planless(x, e) ==
  \/ /\ x.pc \in Generating
     /\ e[x.model].status = "error" /\ e[x.model].by = NoLoad
  \/ x.answer = "AttributeError"

\* Who is past _ensure_loading_started misses the entry, and who has had a
\* session finds one without a plan, only because of somebody else.
RivalsKnown ==
  \A r \in Requests :
    /\ Missing(req[r], entries) =>
         \E q \in Requests \ {r} : Removes(req[q], req[r].model)
    /\ Planless(req[r], entries) =>
         \E q \in Requests \ {r} : LoadOf(q, req[r].model)

RequestsInv ==
  /\ StrongTypes /\ LocksHeld /\ LoadsKnown /\ RivalsKnown
  /\ \A r \in Requests : FoundIn(req[r], catalog) /\ Stage(req[r])
=============================================================================
