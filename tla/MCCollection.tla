----------------------------- MODULE MCCollection -----------------------------
(***************************************************************************)
(* The direct collector with its tokens, the token cache under two clients  *)
(* and the owner's login, the CLI collector and the set of bars probes.  A  *)
(* behaviour exercises one of them; the vault is the same for all.          *)
(***************************************************************************)
EXTENDS DirectCollector, CliCollector, BarsProbes

CONSTANTS p1, p2, c1

VARIABLE path

MCMeasured == [w \in {0, 1} |-> IF w = 0 THEN 3 ELSE 1]

MCVars == <<path, directVars, cliVars, probeVars>>

MCInit ==
    /\ path \in {"direct", "tokens", "cli", "probes"}
    /\ DirectInit /\ CliInit /\ ProbesInit
    /\ path # "cli" => ask.tools # Tools /\ "get_option_quotes" \in ask.tools
    /\ path # "probes" => width = 0
    /\ path \notin {"tokens", "direct"} => rotates

\* The login races a refresh in "tokens"; here one comes before the run, which
\* refreshes once.
Direct ==
    /\ \/ \E plan \in Plans : Start(p1, plan)
       \/ CollectorStep(p1) \/ Crash(p1)
       \/ /\ \/ Tick
             \/ run[p1].outcome = "none" /\ (LoginStep \/ SaveStep(Owner))
          /\ UNCHANGED <<vaultVars, run>>
    /\ issued' <= 2
    /\ issued = 1 => want'[Owner].at # "consent"

MCNext ==
    /\ UNCHANGED path
    /\ \/ path = "direct" /\ Direct /\ UNCHANGED <<cliVars, probeVars>>
       \/ path = "tokens" /\ TokenNext
          /\ UNCHANGED <<vaultVars, run, cliVars, probeVars>>
       \/ path = "cli" /\ CliNext /\ UNCHANGED <<tokenVars, run, probeVars>>
       \/ path = "probes" /\ ProbesNext /\ UNCHANGED <<directVars, cliVars>>

MCSpec == MCInit /\ [][MCNext]_MCVars
          /\ WF_MCVars(path = "direct" /\ UNCHANGED <<path, cliVars, probeVars>>
                       /\ CollectorStep(p1))

=============================================================================
