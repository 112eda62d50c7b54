----------------------------- MODULE CliCollector -----------------------------
(***************************************************************************)
(* execution/official_mcp_collector.py: a Claude CLI child that may only    *)
(* call read-only tools writes a stream of events; local code harvests the  *)
(* calls and their results from the stream and stores them.  The child is   *)
(* external: it calls what it likes, in any order, a result may be missing, *)
(* an error, cut off, or come twice; stray lines, a missing or unsuccessful *)
(* last event, an exit code and the timeout end it.                         *)
(***************************************************************************)
EXTENDS RawVault

CONSTANTS Cli,         \* the writer that runs the child
          ClockSkew    \* _MAX_CLOCK_SKEW_SECONDS

ASSUME ClockSkewAssumption == ClockSkew \in Nat
ASSUME CliWrites == Cli \in Writers

VARIABLES ask,         \* what is asked for, and how strictly
          calls,       \* [asked tools -> the last result seen]
          ended,       \* how the child ended
          cliOutcome

cliVars == <<ask, calls, ended, cliOutcome>>

DegradableTools == {"get_equity_historicals", "get_option_instruments",
                    "get_option_quotes"}
Results == {"none", "ok", "bad"}    \* bad: an error, or text that is no JSON

\* The raw snapshot (strict for evidence, resilient for the canary), the probe
\* of fresh option quotes and the probe of five-minute bars.
Asks == {[tools |-> Tools, resilient |-> TRUE],
         [tools |-> Tools, resilient |-> FALSE],
         [tools |-> {"get_option_quotes"}, resilient |-> FALSE],
         [tools |-> {"get_equity_historicals"}, resilient |-> FALSE]}

CliInit ==
    /\ ask \in Asks
    /\ calls = << >>
    /\ ended = "no" /\ cliOutcome = "running"

\* An assistant event with a tool_use block.
ChildCalls(t) ==
    /\ ended = "no"
    /\ t \in ask.tools \ DOMAIN calls
    /\ calls' = [u \in DOMAIN calls \cup {t} |->
                    IF u = t THEN "none" ELSE calls[u]]
    /\ UNCHANGED <<ask, ended, cliOutcome>>

\* A user event with the tool_result of a call; a later one replaces it.
ChildResult(t, result) ==
    /\ ended = "no"
    /\ t \in DOMAIN calls
    /\ calls' = [calls EXCEPT ![t] = result]
    /\ UNCHANGED <<ask, ended, cliOutcome>>

\* success: exit code 0 and a successful result event; cut: no result event;
\* failed: an unsuccessful one, another exit code, or the timeout; foreign: an
\* MCP tool of another server is in the stream.  Lines that are no JSON object
\* are counted and skipped.
ChildEnds(how) ==
    /\ ended = "no"
    /\ ended' = how
    /\ UNCHANGED <<ask, calls, cliOutcome>>

\* _harvest_stream: the answers it keeps ...
Degrades(t) == ask.resilient /\ t \in DegradableTools
Harvest == [t \in DOMAIN calls |-> IF calls[t] = "ok" THEN "ok" ELSE "absent"]

MutantHarvestable ==
    /\ ended = "success"
    /\ DOMAIN calls # {}
    /\ \A t \in DOMAIN calls : calls[t] = "ok" \/ Degrades(t)

\* ... unless something is missing, foreign or cut that it may not lose.
Harvestable ==
    /\ ended = "success"
    /\ DOMAIN calls # {}
    /\ \A t \in DOMAIN calls : calls[t] = "ok" \/ Degrades(t)
    /\ ask.tools \subseteq DOMAIN calls

\* _freshest_source_timestamp: the newest time in the answers that is not in
\* the future (expirations and report dates are); "none" fails the run.
Ceiling(received) == received + ClockSkew
Freshest(times, received) ==
    LET past == {t \in times : t <= Ceiling(received)}
    IN  CHOOSE t \in past : \A u \in past : u <= t

Partial == \E t \in DOMAIN calls : Harvest[t] = "absent"

\* collect_official_raw_snapshot and the two probes, once the child has ended.
HarvestAndStore(times, received, sensitive) ==
    /\ ended # "no" /\ cliOutcome = "running"
    /\ IF Harvestable /\ ~sensitive /\ \E t \in times : t <= Ceiling(received)
       THEN /\ StoreTemporary(Cli,
                  Envelope(Harvest, Partial, sensitive, ask.tools, received,
                           Freshest(times, received)))
            /\ cliOutcome' = "storing"
       ELSE cliOutcome' = "failed" /\ UNCHANGED vaultVars
    /\ UNCHANGED <<ask, calls, ended>>

CliFinish ==
    /\ cliOutcome = "storing"
    /\ StoreStep(Cli)
    /\ cliOutcome' = IF writing'[Cli] = Nothing THEN "completed" ELSE cliOutcome
    /\ UNCHANGED <<ask, calls, ended>>

\* The collecting process dies with its snapshot half stored.
CliCrash ==
    /\ cliOutcome = "storing"
    /\ cliOutcome' = "failed"
    /\ writing' = [writing EXCEPT ![Cli] = Nothing]
    /\ UNCHANGED <<file, index, stored, ask, calls, ended>>

\* Source times relative to the reception: long past, now, within the clock
\* skew, and a date that lies ahead.
Received == 2
Times == {0, Received, Received + ClockSkew, Received + ClockSkew + 1}

Child ==
    \/ \E t \in Tools : ChildCalls(t) \/ \E r \in Results \ {"none"} : ChildResult(t, r)
    \/ \E how \in {"success", "cut", "failed", "foreign"} : ChildEnds(how)

CliNext ==
    \/ Child /\ UNCHANGED vaultVars
    \/ \E times \in SUBSET Times, sensitive \in BOOLEAN :
          HarvestAndStore(times, Received, sensitive)
    \/ CliFinish \/ CliCrash
    \/ \E i \in Ids, canonical \in BOOLEAN :
          EditInPlace(i, canonical) /\ UNCHANGED cliVars

-----------------------------------------------------------------------------
\* Evidence is what was collected, for the clocks the collectors allow.
EvidenceIsCollected == EvidenceIsWhatWasCollected(ClockSkew)
=============================================================================
