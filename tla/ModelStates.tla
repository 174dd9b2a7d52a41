---------------------------- MODULE ModelStates -----------------------------
(***************************************************************************)
(* model_states as its readers see it (orchestrator/http_api.py): what may *)
(* happen to a model's entry while loads run and requests come and go.     *)
(* This is the abstract specification of ModelLoading, and what the        *)
(* requests of InferenceRequests are built on.  A load is known by the     *)
(* request that started it.                                                *)
(***************************************************************************)
EXTENDS Naturals

CONSTANTS Models,   \* model names
          Loads     \* the requests that may start a load: positive numbers

NoLoad == 0

ASSUME LoadsAssumption == Loads \subseteq Nat \ {NoLoad}

VARIABLES entries,  \* the entry of each model: its status and its load
          running,  \* the loads under way, with their model
          begun     \* the loads that were ever started

stateVars == <<entries, running, begun>>

NoEntry == [status |-> "none", by |-> NoLoad]
Removable == {"ready", "error"}

StatesInit ==
  /\ entries = [m \in Models |-> NoEntry]
  /\ running = {}
  /\ begun = {}

\* plan_dispatch raised DispatchError: an error without a plan.
RefuseLoad(m) ==
  /\ entries' = [entries EXCEPT ![m] = [status |-> "error", by |-> NoLoad]]
  /\ UNCHANGED <<running, begun>>

\* The loading state is recorded, over whatever is there, and _load starts.
StartLoad(m, l) ==
  /\ l \notin begun
  /\ entries' = [entries EXCEPT ![m] = [status |-> "loading", by |-> l]]
  /\ running' = running \cup {<<m, l>>}
  /\ begun' = begun \cup {l}

\* _load records its outcome, over whatever is there.
FinishLoad(m, l, outcome) ==
  /\ <<m, l>> \in running
  /\ entries' = [entries EXCEPT ![m] = [status |-> outcome, by |-> l]]
  /\ running' = running \ {<<m, l>>}
  /\ UNCHANGED begun

\* Mutant of RemoveEntries: whatever the entries are.
RemoveEntries_Any(S) ==
  /\ entries' = [m \in Models |-> IF m \in S THEN NoEntry ELSE entries[m]]
  /\ UNCHANGED <<running, begun>>

\* The entries of S are deleted: by redistribute_model, or by a load of
\* another model.  None of them is loading.
RemoveEntries(S) ==
  /\ \A m \in S : entries[m].status \in Removable
  /\ entries' = [m \in Models |-> IF m \in S THEN NoEntry ELSE entries[m]]
  /\ UNCHANGED <<running, begun>>

StatesNext ==
  \/ \E m \in Models :
       \/ RefuseLoad(m)
       \/ \E l \in Loads :
            \/ StartLoad(m, l)
            \/ \E outcome \in Removable : FinishLoad(m, l, outcome)
  \/ \E S \in SUBSET Models : RemoveEntries(S)

StatesSpec == StatesInit /\ [][StatesNext]_stateVars
=============================================================================
