------------------------------ MODULE BarsProbes ------------------------------
(***************************************************************************)
(* collect_universe_bars_probes (execution/official_mcp_collector.py): the  *)
(* universe's bars as a series of one-call probes, each as many symbols as  *)
(* one answer can carry, all within one budget of time.  What a probe takes *)
(* is up to the CLI; its timeout kills it at the allowance.                 *)
(***************************************************************************)
EXTENDS Integers, FiniteSets

CONSTANTS Symbols,     \* the universe
          Measured,    \* BARS_PROBE_CHUNK_BY_LOOKBACK: a function of widths
          Widths,      \* lookback days that may be asked for
          Budget, PerCall

ASSUME BudgetAssumption == Budget \in Nat /\ PerCall \in Nat
ASSUME MeasuredAssumption ==
    IsFiniteSet(Symbols) /\ \A w \in DOMAIN Measured : Measured[w] \in Nat \ {0}

VARIABLES width, left,     \* symbols not yet probed
          receipts,        \* the sets of symbols vaulted so far
          spent, probes

probeVars == <<width, left, receipts, spent, probes>>

ProbesInit ==
    /\ width \in Widths
    /\ left = Symbols
    /\ receipts = {}
    /\ spent = 0
    /\ probes = IF width \in DOMAIN Measured THEN "running" ELSE "failed"

Smaller(a, b) == IF a < b THEN a ELSE b
Remaining == Budget - spent

MutantAllowance == PerCall

\* The deadline is shared: a probe gets what is left of it.
Allowance == Smaller(Remaining, PerCall)

\* The next symbols in order: which ones they are does not matter.
Chunk == CHOOSE S \in SUBSET left :
            Cardinality(S) = Smaller(Measured[width], Cardinality(left))

OutOfBudget ==
    /\ probes = "running" /\ left # {}
    /\ Remaining <= 1
    /\ probes' = "failed"
    /\ UNCHANGED <<width, left, receipts, spent>>

Probe(seconds, ok) ==
    /\ probes = "running" /\ left # {}
    /\ Remaining > 1
    /\ seconds <= Allowance
    /\ spent' = spent + seconds
    /\ IF ok THEN /\ receipts' = receipts \cup {Chunk}
                  /\ left' = left \ Chunk
                  /\ probes' = IF left' = {} THEN "completed" ELSE probes
             ELSE /\ probes' = "failed"     \* the first failure ends the set
                  /\ UNCHANGED <<left, receipts>>
    /\ UNCHANGED width

ProbesNext ==
    \/ OutOfBudget
    \/ \E seconds \in 1..Budget, ok \in BOOLEAN : Probe(seconds, ok)

ProbesSpec == ProbesInit /\ [][ProbesNext]_probeVars

-----------------------------------------------------------------------------
\* The set of probes never outlives its budget, however many symbols there are
\* and however long each probe takes, and it is whole or it has failed: every
\* symbol is in exactly one receipt, none carries more than one answer can.
ProbesWholeInBudget ==
    /\ spent <= Budget
    /\ \A r \in receipts : Cardinality(r) <= Measured[width]
    /\ \A r, q \in receipts : r # q => r \cap q = {}
    /\ probes = "completed" => UNION receipts = Symbols
=============================================================================
