------------------------------- MODULE RawVault -------------------------------
(***************************************************************************)
(* execution/raw_data_vault.py: immutable snapshots under logs/raw, each    *)
(* written to a temporary file, renamed, and then entered with its hash in  *)
(* the append-only index.  A writer may die between any two of the steps.   *)
(* A file may later be edited in place; the index is what detects it.       *)
(* A hash is represented by the content it is the hash of.                  *)
(***************************************************************************)
EXTENDS Integers, FiniteSets

CONSTANTS Ids,         \* snapshot identifiers (uuid4)
          Writers,     \* processes that collect
          NoFile, Nothing

VARIABLES file,        \* [Ids -> NoFile or [env, canonical]]
          index,       \* entries [id, env]
          writing,     \* [Writers -> Nothing or the store in progress]
          stored       \* history: [Ids -> {}, or the one envelope it was stored with]

vaultVars == <<file, index, writing, stored>>

\* RAW_COLLECTOR_TOOLS, all of which a snapshot must have asked.
Tools == {"get_equity_quotes", "get_equity_historicals", "get_option_chains",
          "get_option_instruments", "get_option_quotes", "get_earnings_results"}

\* The parts of an envelope that the properties tell apart.  A tool's answer is
\* "ok", or "absent": marked truncated, no bytes kept.
Envelope(answers, partial, sensitive, required, received, updated) ==
    [answers |-> answers, partial |-> partial, sensitive |-> sensitive,
     required |-> required, received |-> received, updated |-> updated]

VaultInit ==
    /\ file = [i \in Ids |-> NoFile]
    /\ index = {}
    /\ writing = [w \in Writers |-> Nothing]
    /\ stored = [i \in Ids |-> {}]

\* store, down to the temporary file; a forbidden key anywhere is refused.
StoreTemporary(w, env) ==
    /\ writing[w] = Nothing
    /\ ~env.sensitive
    /\ \E i \in Ids :
          /\ stored[i] = {}
          /\ stored' = [stored EXCEPT ![i] = {env}]
          /\ writing' = [writing EXCEPT ![w] = [id |-> i, env |-> env,
                                                at |-> "temporary"]]
    /\ UNCHANGED <<file, index>>

\* os.replace
StoreRename(w) ==
    /\ writing[w] # Nothing
    /\ writing[w].at = "temporary"
    /\ file' = [file EXCEPT ![writing[w].id] =
                  [env |-> writing[w].env, canonical |-> TRUE]]
    /\ writing' = [writing EXCEPT ![w].at = "renamed"]
    /\ UNCHANGED <<index, stored>>

\* _append_index
StoreIndex(w) ==
    /\ writing[w] # Nothing
    /\ writing[w].at = "renamed"
    /\ index' = index \cup {[id |-> writing[w].id, env |-> writing[w].env]}
    /\ writing' = [writing EXCEPT ![w] = Nothing]
    /\ UNCHANGED <<file, stored>>

StoreStep(w) == StoreRename(w) \/ StoreIndex(w)

\* Somebody edits a snapshot into a complete one: by hand, or the way store
\* writes it.
EditInPlace(i, canonical) ==
    /\ file[i] # NoFile
    /\ file' = [file EXCEPT ![i] =
          [env |-> [@.env EXCEPT !.partial = FALSE,
                       !.answers = [t \in Tools |-> "ok"], !.required = Tools],
           canonical |-> canonical]]
    /\ UNCHANGED <<index, writing, stored>>

\* _index_digest: None, or the only content the index has for the snapshot.
Indexed(i) == {e.env : e \in {f \in index : f.id = i}}

\* verify: the file is what store writes, its hash is the one in the index.
Verifies(i, requireIndexed) ==
    /\ file[i] # NoFile
    /\ file[i].canonical
    /\ Cardinality(Indexed(i)) <= 1
    /\ Indexed(i) \subseteq {file[i].env}
    /\ requireIndexed => Indexed(i) # {}
    /\ ~file[i].env.sensitive

-----------------------------------------------------------------------------
\* A snapshot accepted as evidence (verify with require_indexed) is what a
\* collector stored, unedited and free of account data; what it holds was
\* answered by every required tool unless it is marked partial, and its source
\* time is not in the future of its reception.  A store cut short between the
\* rename and the index leaves a file that evidence never uses.
EvidenceIsWhatWasCollected(skew) ==
    \A i \in Ids : Verifies(i, TRUE) =>
        LET env == file[i].env
        IN  /\ env \in stored[i]
            /\ ~env.sensitive
            /\ env.updated <= env.received + skew
            /\ env.required \subseteq DOMAIN env.answers
            /\ ~env.partial => \A t \in DOMAIN env.answers : env.answers[t] = "ok"
=============================================================================
