---------------------------- MODULE ShadowReview ----------------------------
(***************************************************************************)
(* What is made of a session's journal afterwards: the daily review        *)
(* (journal/shadow_review.py) and the experiment report                    *)
(* (journal/shadow_experiment.py).  A journal is the sequence of its       *)
(* lines, each [type, seq, data]; a line a dying process left unfinished   *)
(* is a Torn one.  Counts over several sessions of a day are sums of the   *)
(* per-session results stated here.                                        *)
(***************************************************************************)
EXTENDS Integers, SequencesExt

Torn == [type |-> "TORN", seq |-> 0, data |-> <<>>]

\* Mutant: an unfilled entry is not taken for an end.
MutantTerminalEvents ==
    [EXITED |-> "COMPLETE", SESSION_COMPLETED |-> "COMPLETE",
     SESSION_ERROR |-> "ERROR"]

\* The terminal state an event leaves in the review's "terminal".
TerminalEvents ==
    [ENTRY_UNFILLED |-> "COMPLETE", EXITED |-> "COMPLETE",
     SESSION_COMPLETED |-> "COMPLETE", SESSION_ERROR |-> "ERROR"]

\* The review raises on a line that is no JSON or out of sequence.
Readable(l) ==
    \A i \in DOMAIN l : l[i].type # "TORN" /\ l[i].seq = i

Occurrences(l, type) == Cardinality({i \in DOMAIN l : l[i].type = type})

ReviewVerdict(l) ==
    LET i == SelectLastInSeq(l, LAMBDA e : e.type \in DOMAIN TerminalEvents)
    IN  IF ~Readable(l) THEN "INVALID"
        ELSE IF i = 0 THEN "NON_TERMINAL"
        ELSE TerminalEvents[l[i].type]

ErrorSessions(l) ==
    Occurrences(l, "SESSION_ERROR")
      + (IF ReviewVerdict(l) = "NON_TERMINAL" THEN 1 ELSE 0)

Decided(l) == {l[i].data : i \in {j \in DOMAIN l : l[j].type = "DECISION_RECORDED"}}

\* A day on which this is the only session counts as strategy evidence.
StrategyEvidenceEligible(l) ==
    /\ Readable(l)
    /\ ErrorSessions(l) = 0
    /\ \A d \in Decided(l) : ~d.hard /\ ~d.tagged

\* The report takes the tag of the last decision for the session's.
SessionIsPilot(l) ==
    LET i == SelectLastInSeq(l, LAMBDA e : e.type = "DECISION_RECORDED")
    IN  i > 0 /\ l[i].data.tagged

Unauthorized(l, authorized) == ~SessionIsPilot(l) /\ ~authorized

CountedTrades(l, authorized) ==
    IF SessionIsPilot(l) \/ ~authorized THEN 0 ELSE Occurrences(l, "EXITED")
=============================================================================
