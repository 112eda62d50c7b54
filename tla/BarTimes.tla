-------------------------------- MODULE BarTimes --------------------------------
(***************************************************************************)
(* The audit of the bars in a vaulted snapshot (monitoring/                 *)
(* bar_time_checks.py): grid padding is dropped, and any disorder,          *)
(* duplicate, gap, bar from the future or stale newest bar is reported.     *)
(* A bar is [at, empty]: its begin or NoStamp, and whether its volume is 0. *)
(* The bars of a symbol are read one by one.  Bound: MaxBars of them.       *)
(***************************************************************************)
EXTENDS Integers, Sequences, FiniteSets

CONSTANTS BarInterval, MaxLag, NoStamp, MaxBars, BarTimesUsed

ASSUME BarAssumption ==
    /\ BarInterval \in Nat \ {0} /\ MaxLag \in Nat /\ NoStamp \notin Int
    /\ BarTimesUsed \subseteq Int

VARIABLES series, barsReceived    \* one symbol's bars in a snapshot, its receipt

barVars == <<series, barsReceived>>

Bars == [at : BarTimesUsed \cup {NoStamp}, empty : BOOLEAN]

BarsInit == series = <<>> /\ barsReceived \in BarTimesUsed

ReadBar(bar) ==
    /\ Len(series) < MaxBars
    /\ series' = Append(series, bar)
    /\ UNCHANGED barsReceived

BarsNext == \E bar \in Bars : ReadBar(bar)

BarsSpec == BarsInit /\ [][BarsNext]_barVars

-----------------------------------------------------------------------------
\* An empty bar that has not closed at the receipt is padding.
Padding(bar, received) ==
    bar.at # NoStamp /\ bar.empty /\ bar.at + BarInterval > received

\* The places of the bars that are kept, and of those with a stamp.
Kept(bars, received) == {k \in 1..Len(bars) : ~Padding(bars[k], received)}
Stamped(bars, received) == {k \in Kept(bars, received) : bars[k].at # NoStamp}

\* Once the stamps are sorted nothing stands between the two places.
Neighbours(bars, places, i, j) ==
    /\ i # j /\ bars[i].at <= bars[j].at
    /\ \A k \in places : bars[k].at <= bars[i].at \/ bars[j].at <= bars[k].at

MutantIrregularities(bars, received, enforce) ==   \* a gap counts only when it is too short
    LET stamps == Stamped(bars, received) IN
    IF stamps = {} THEN {"NO_BARS"}
    ELSE {c \in {"BAR_TIMESTAMP_UNPARSABLE", "NON_UNIFORM_BAR_INTERVAL", "BAR_FROM_FUTURE",
                 "NEWEST_BAR_STALE"} :
          \/ c = "BAR_TIMESTAMP_UNPARSABLE" /\ stamps # Kept(bars, received)
          \/ c = "NON_UNIFORM_BAR_INTERVAL" /\ \E i, j \in stamps :
               Neighbours(bars, stamps, i, j) /\ bars[j].at - bars[i].at < BarInterval
          \/ c = "BAR_FROM_FUTURE" /\ \E k \in stamps : bars[k].at >= received
          \/ c = "NEWEST_BAR_STALE" /\ enforce /\ \A k \in stamps :
               received - (bars[k].at + BarInterval) > MaxLag}

\* verify_symbol_bars: the two names of a stale newest bar are one here.
Irregularities(bars, received, enforce) ==
    LET kept == Kept(bars, received)
        stamps == Stamped(bars, received) IN
    IF stamps = {}
    THEN {IF kept = {} THEN "NO_BARS" ELSE "BAR_TIMESTAMP_UNPARSABLE"}
    ELSE {c \in {"BAR_TIMESTAMP_UNPARSABLE", "BARS_OUT_OF_ORDER", "DUPLICATE_BARS",
                 "NON_UNIFORM_BAR_INTERVAL", "BAR_FROM_FUTURE", "NEWEST_BAR_STALE"} :
          \/ c = "BAR_TIMESTAMP_UNPARSABLE" /\ stamps # kept
          \/ c = "BARS_OUT_OF_ORDER" /\ \E i, j \in stamps : i < j /\ bars[i].at > bars[j].at
          \/ c = "DUPLICATE_BARS" /\ \E i, j \in stamps : i # j /\ bars[i].at = bars[j].at
          \/ c = "NON_UNIFORM_BAR_INTERVAL" /\ \E i, j \in stamps :
               Neighbours(bars, stamps, i, j) /\ bars[j].at - bars[i].at # BarInterval
          \/ c = "BAR_FROM_FUTURE" /\ \E k \in stamps : bars[k].at >= received
          \/ c = "NEWEST_BAR_STALE" /\ enforce /\ \A k \in stamps :
               received - (bars[k].at + BarInterval) > MaxLag}

\* verify_snapshot_bar_times over the symbols of a verified snapshot.
SnapshotSound(symbols, received, inSession) ==
    /\ symbols # {}
    /\ \A bars \in symbols : Irregularities(bars, received, inSession) = {}

-----------------------------------------------------------------------------
\* Reference: the bars that are not padding are one unbroken run of intervals,
\* the n-th n intervals after the first, begun before the receipt and, in
\* session, not long over.
IsGrid(bars, received, inSession) ==
    LET real == Kept(bars, received)
        Before(k) == Cardinality({j \in real : j < k}) IN
    /\ \A k \in real : bars[k].at # NoStamp
    /\ \E first, last \in real :
         /\ \A k \in real :
              /\ first <= k /\ k <= last
              /\ bars[k].at = bars[first].at + Before(k) * BarInterval
         /\ bars[last].at < received
         /\ inSession => received - bars[last].at <= BarInterval + MaxLag

\* The bar audit accepts exactly an unbroken grid (bar_time_checks.py:120-211).
BarsPassAreAGrid ==
    \A inSession \in BOOLEAN :
        SnapshotSound({series}, barsReceived, inSession) <=>
            IsGrid(series, barsReceived, inSession)
=============================================================================
