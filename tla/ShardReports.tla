---------------------------- MODULE ShardReports ----------------------------
(***************************************************************************)
(* The worker of InferenceService with a record of what it owes its        *)
(* caller: LoadShard returns at once, and the orchestrator learns the      *)
(* outcome of an accepted call only from the one ReportShardReady that the *)
(* call's thread makes.  The record observes and restrains nothing, but    *)
(* that a call identity is used again only when its call is over.          *)
(***************************************************************************)
EXTENDS InferenceService

VARIABLES answer,   \* what has become of each call, as its caller sees it
          held      \* calls whose model was in _models since they were accepted

reportVars == <<up, models, loading, threads, answer, held>>

\* "again" is a report beyond the one that was owed.
Answers == {"none", "owed", "ok", "failed", "lost", "again"}

ReportInit ==
  /\ Init
  /\ answer = [w \in Workers |-> [c \in Calls |-> "none"]]
  /\ held = [w \in Workers |-> {}]

\* The calls under way whose model is in the table now.
InTable(w) == {t.call : t \in {u \in threads[w] : Resident(w, u.model)}}

Observe(w, over) == held' = [held EXCEPT ![w] = (@ \ over) \cup InTable(w)']

Call(w, c, m, s) ==
  /\ answer[w][c] # "owed" /\ FreshCall(w, c)
  /\ LoadShard(w, c, m, s)
  /\ IF LoadShardAccepted(w, m)
     THEN answer' = [answer EXCEPT ![w][c] = "owed"] /\ Observe(w, {c})
     ELSE UNCHANGED <<answer, held>>

Build(w, t) ==
  /\ BuildSucceeds(w, t) \/ BuildFails(w, t)
  /\ Observe(w, {})
  /\ UNCHANGED answer

Report(w, t) ==
  /\ ReportShardReady(w, t)
  /\ answer' = [answer EXCEPT ![w][t.call] =
                  CASE @ # "owed" -> "again"
                    [] @ = "owed" /\ t.ok -> "ok"
                    [] OTHER -> "failed"]
  /\ Observe(w, {})

Unload(w, m) == UnloadShard(w, m) /\ Observe(w, {}) /\ UNCHANGED answer

\* Nobody is told of what a crash ends.
Lose(w) ==
  /\ Crash(w)
  /\ answer' = [answer EXCEPT ![w] =
                  [c \in Calls |-> IF @[c] = "owed" THEN "lost" ELSE @[c]]]
  /\ UNCHANGED held

Resume(w) == Restart(w) /\ UNCHANGED <<answer, held>>

ReportNext ==
  \E w \in Workers :
    \/ \E c \in Calls, m \in Models, s \in Shards : Call(w, c, m, s)
    \/ \E t \in threads[w] : Build(w, t) \/ Report(w, t)
    \/ \E m \in Models : Unload(w, m)
    \/ Lose(w)
    \/ Resume(w)

\* The thread of call c makes progress: Python runs every started thread.
ThreadStep(w, c) ==
  \E t \in threads[w] : t.call = c /\ (Build(w, t) \/ Report(w, t))

Fairness == \A w \in Workers, c \in Calls : WF_reportVars(ThreadStep(w, c))

ReportSpec == ReportInit /\ [][ReportNext]_reportVars /\ Fairness

-----------------------------------------------------------------------------
\* A call that LoadShard accepted has its thread, just one, until it is
\* reported on, and is reported on once; success is reported only of a model
\* that was in the table at some moment since the call was accepted, and no
\* report is made of a call that was refused or has been answered.
ReportsAnswerCalls ==
  \A w \in Workers, c \in Calls :
    /\ answer[w][c] # "again"
    /\ answer[w][c] = "owed" <=> \E t \in threads[w] : t.call = c
    /\ \A t, u \in threads[w] : t.call = c /\ u.call = c => t = u
    /\ answer[w][c] = "ok" => c \in held[w]

\* Every LoadShard call that was accepted is reported on in the end, whatever
\* becomes of the build (_load_shard_background), unless the worker crashes.
EveryCallReported ==
  \A w \in Workers, c \in Calls :
    answer[w][c] = "owed" ~> answer[w][c] \in {"ok", "failed", "lost"}
=============================================================================
