--------------------------- MODULE DirectCollector ---------------------------
(***************************************************************************)
(* execution/robinhood_direct_collector.py over execution/mcp_client.py:    *)
(* a run asks for a token before every POST, performs the MCP handshake,    *)
(* calls the six read-only tools in a fixed order (option instruments page  *)
(* by page, option quotes batch by batch) and stores one snapshot.  Every   *)
(* irregularity ends the run.  The server's answers are external.           *)
(***************************************************************************)
EXTENDS RawVault, TokenCache, Sequences

CONSTANTS PageCap,     \* 20: pages of option instruments asked for
          BatchCap     \* ceil(MAX_CONTRACTS / QUOTE_BATCH)

ASSUME CapAssumption == PageCap \in Nat /\ BatchCap \in 1..PageCap
ASSUME ClientsWrite == Clients \subseteq Writers

VARIABLE run           \* [Clients -> [plan, step, turn, answers, outcome]]

directVars == <<vaultVars, tokenVars, run>>

Handshake == <<"initialize", "initialized">>
SixTools == <<"get_equity_quotes", "get_equity_historicals", "get_option_chains",
              "get_option_instruments", "get_option_quotes", "get_earnings_results">>

\* The raw snapshot and the two probes of a single call.
Plans == {Handshake \o SixTools, Handshake \o <<"get_equity_historicals">>,
          Handshake \o <<"get_option_quotes">>}

NewRun(plan) == [plan |-> plan, step |-> 1, turn |-> 1, answers |-> {},
                 outcome |-> "running"]
NoRun == [NewRun(Handshake) EXCEPT !.outcome = "none"]

DirectInit == VaultInit /\ TokenInit /\ run = [c \in Clients |-> NoRun]

Running(c) == run[c].outcome = "running"
Asking(c) == run[c].step <= Len(run[c].plan)
Step(c) == run[c].plan[run[c].step]
Asked(c) == {run[c].plan[n] : n \in 3..Len(run[c].plan)}
Fail(c) == run' = [run EXCEPT ![c].outcome = "failed"]

\* A reply to a POST: the status (accepted is 202 or 204, unauthorized 401 or
\* 403), what the body holds (a JSON-RPC result, an
\* error, or nothing that is one), what a tool's text is, and what the data
\* say: more pages, or nothing to go on with.
Statuses == {"200", "accepted", "unauthorized", "other"}
Bodies == {"result", "error", "none"}
Texts == {"json", "isError", "none"}
Says == {"done", "more", "nothing"}
Replies == [status : Statuses, body : Bodies, text : Texts, data : Says]

\* _send: a notification needs only its status, a request a JSON-RPC result.
Sent(c, r) ==
    IF Step(c) = "initialized" THEN r.status \in {"200", "accepted"}
    ELSE r.status = "200" /\ r.body = "result"

\* call_tool and tool_result_json
ToolAnswered(r) == r.text = "json"

\* No chain, no expiration in the window, no contract in the strike band.
Usable(c, r) ==
    Step(c) \in {"get_option_chains", "get_option_instruments"}
        => r.data # "nothing"

MutantAgain(c, r) ==
    \/ Step(c) = "get_option_instruments" /\ r.data = "more"
    \/ /\ Step(c) = "get_option_quotes"
       /\ Asked(c) = Tools     \* the probe asks once
       /\ r.data = "more" /\ run[c].turn < BatchCap

\* The cursor of a page, the batches of the ids: both are bounded.
Again(c, r) ==
    \/ /\ Step(c) = "get_option_instruments"
       /\ r.data = "more" /\ run[c].turn < PageCap
    \/ /\ Step(c) = "get_option_quotes"
       /\ Asked(c) = Tools     \* the probe asks once
       /\ r.data = "more" /\ run[c].turn < BatchCap

\* run_direct_collector and the callers of the direct probes.
Start(c, plan) ==
    /\ run[c].outcome = "none"
    /\ run' = [run EXCEPT ![c] = NewRun(plan)]
    /\ UNCHANGED <<vaultVars, tokenVars>>

\* One POST with the token just granted.  The server refuses a token that has
\* run out since, and may refuse another (403); neither is retried with a
\* refreshed one.
Post(c, r) ==
    /\ Running(c) /\ want[c].at = "granted"
    /\ Asking(c)
    /\ Accepts(want[c].held) \/ r.status = "unauthorized"
    /\ want' = [want EXCEPT ![c] = Resting]
    /\ IF /\ Sent(c, r)
          /\ run[c].step > 2 => ToolAnswered(r) /\ Usable(c, r)
       THEN run' = [run EXCEPT ![c] =
              IF Again(c, r)
              THEN [run[c] EXCEPT !.turn = IF @ < PageCap THEN @ + 1 ELSE @]
              ELSE [run[c] EXCEPT !.step = @ + 1, !.turn = 1,
                                  !.answers = @ \cup ({Step(c)} \cap Asked(c))]]
       ELSE Fail(c)
    /\ UNCHANGED <<vaultVars, clock, issued, live, cache, temp, rotates, lost>>

\* token() raised, or the POST did not reach the server.
PostFails(c) ==
    /\ Running(c) /\ Asking(c)
    /\ want[c].at \in {"refused", "granted"}
    /\ Fail(c)
    /\ want' = [want EXCEPT ![c] = Resting]
    /\ UNCHANGED <<vaultVars, clock, issued, live, cache, temp, rotates, lost>>

\* The snapshot needs an answer of every tool and a time found in the answers.
Snapshot(c, updated) ==
    Envelope([t \in run[c].answers |-> "ok"], FALSE, FALSE, Asked(c), clock, updated)

Store(c) ==
    /\ Running(c) /\ ~Asking(c)
    /\ writing[c] = Nothing
    /\ \/ /\ Asked(c) \subseteq run[c].answers
          /\ \E updated \in 0..clock : StoreTemporary(c, Snapshot(c, updated))
          /\ run' = [run EXCEPT ![c].outcome = "storing"]
       \/ Fail(c) /\ UNCHANGED vaultVars    \* no time, account data, no disk
    /\ UNCHANGED tokenVars

Finish(c) ==
    /\ run[c].outcome = "storing"
    /\ StoreStep(c)
    /\ run' = IF writing'[c] = Nothing
              THEN [run EXCEPT ![c].outcome = "completed"] ELSE run
    /\ UNCHANGED tokenVars

\* The process dies: the snapshot stays as far as it got.
Crash(c) ==
    /\ run[c].outcome \in {"running", "storing"}
    /\ want[c].at \notin {"save", "rename"}     \* there: Abandon
    /\ Fail(c)
    /\ want' = [want EXCEPT ![c] = Resting]
    /\ writing' = [writing EXCEPT ![c] = Nothing]
    /\ UNCHANGED <<file, index, stored, clock, issued, live, cache, temp,
                   rotates, lost>>

CollectorStep(c) ==
    \/ Running(c) /\ TokenStep(c) /\ UNCHANGED <<vaultVars, run>>
    \/ SaveStep(c) /\ UNCHANGED <<vaultVars, run>>
    \/ \E r \in Replies : Post(c, r)
    \/ PostFails(c) \/ Store(c) \/ Finish(c)

DirectNext ==
    \/ \E c \in Clients : \/ \E plan \in Plans : Start(c, plan)
                        \/ CollectorStep(c) \/ Crash(c)
    \/ (Tick \/ LoginStep \/ SaveStep(Owner)) /\ UNCHANGED <<vaultVars, run>>

-----------------------------------------------------------------------------
\* A run that keeps being scheduled ends: completed or failed, even against a
\* server that always offers another page (the page cap), and never by waiting
\* for a person (mcp_oauth.py: unattended code fails closed).
RunsEnd == \A c \in Clients :
    Running(c) ~> run[c].outcome \in {"completed", "failed"}

\* An upper bound on the steps a run has before it: the POSTs its plan and the
\* caps still allow, the steps of a token, those of a store.
PostsAhead(c) == PageCap * (Len(run[c].plan) + 1 - run[c].step) + PageCap - run[c].turn

TokenAhead(c) ==
    CASE want[c].at = "idle" -> IF Running(c) THEN 5 ELSE 0
      [] want[c].at = "refresh" -> 4
      [] want[c].at = "save" -> 3
      [] want[c].at = "rename" -> 2
      [] OTHER -> 1

StoreAhead(c) ==
    IF writing[c] = Nothing THEN 0 ELSE IF writing[c].at = "temporary" THEN 2 ELSE 1

Ahead(c) == TokenAhead(c) + IF Running(c) THEN 8 * (PostsAhead(c) + 1) ELSE StoreAhead(c)

\* Why a run ends: whatever the server answers, every step of a collector
\* leaves fewer steps before it, and nothing but a new start adds any
\* (robinhood_direct_collector.py: the page cap, the batches, no retry).
RunsShrink ==
    [][\A c \in Clients :
          /\ CollectorStep(c) => Ahead(c)' < Ahead(c)
          /\ Ahead(c)' > Ahead(c) => \E plan \in Plans : Start(c, plan)]_directVars
=============================================================================
