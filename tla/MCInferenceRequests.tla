------------------------ MODULE MCInferenceRequests -------------------------
(***************************************************************************)
(* The documents and start-up directories of the runs of InferenceRequests.*)
(***************************************************************************)
EXTENDS InferenceRequests

MCLoads == 1..MaxRequests

Doc(form, name, id) == [form |-> form, name |-> name, id |-> id]

\* Texts a client may post: a manifest under a name already taken, one under
\* a new name, and one of every kind that is refused.
MCDocuments ==
  {Doc("good", "a", 3), Doc("good", "b", 4)}
    \cup {Doc(form, "a", 5) : form \in Forms \ {"good"}}

\* manifests/ with a usable manifest, a repeated name and an invalid one; and
\* with each kind of file that register_existing_manifests does not expect.
MCDirectories ==
  {<<Doc("invalid", "a", 5), Doc("good", "a", 1), Doc("good", "a", 2)>>}
    \cup {<<Doc(form, "a", 5)>> : form \in {"bad_yaml", "odd_name", "no_mapping"}}
=============================================================================
