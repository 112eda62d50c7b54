------------------------------ MODULE GovernedFiles ------------------------------
(***************************************************************************)
(* The watch over the governed files: the Shadow authorization, the arming  *)
(* marker and the automation halt (monitoring/authorization_watch.py, run   *)
(* by every watchdog tick; kill_switch.py).  Anyone who can run python may  *)
(* change such a file, which the watch cannot prevent; it compares their    *)
(* fingerprints with the last acknowledged ones and files an incident and   *)
(* an alert for each difference.  An incident is named for the file and the *)
(* content it found, so the same change has the same incident.              *)
(*                                                                         *)
(* One write is one step; the three files are read at once.  Bounds:        *)
(* MaxChanges writes by others, MaxTickCrashes ticks that end early.        *)
(***************************************************************************)
EXTENDS Naturals, FiniteSets

CONSTANTS Files, ArmMarker, HaltMarker, Contents, Absent, NoBaseline,
          MaxChanges, MaxTickCrashes

ASSUME GovernedAssumption ==
    /\ {ArmMarker, HaltMarker} \subseteq Files
    /\ Absent \notin Contents
    /\ MaxChanges \in Nat /\ MaxTickCrashes \in Nat

Prints == Contents \cup {Absent}
Ids == Files \X Prints            \* governed-file-change-<file>-<print>

VARIABLES
    print,        \* fingerprint of each governed file now
    baseline,     \* the acknowledged fingerprints, or NoBaseline
    incidentOf,   \* the incident of each id: none, open or resolved
    pendingFor,   \* ids whose alert is under logs/incidents/alerts
    watch,        \* the check of the current tick
    acknowledged, \* history: what the owner last accepted of each file
    changes, tickCrashes

watchVars == <<print, baseline, incidentOf, pendingFor, watch, acknowledged, changes, tickCrashes>>

IdleWatch == [pc |-> "idle", observed |-> [f \in Files |-> Absent],
              expected |-> [f \in Files |-> Absent], todo |-> {}, file |-> {}]

WatchInit ==
    /\ print = [f \in Files |-> Absent]
    /\ baseline \in {NoBaseline, [f \in Files |-> Absent]}
    /\ incidentOf = [i \in Ids |-> "none"]
    /\ pendingFor = {}
    /\ acknowledged = [f \in Files |-> Absent]
    /\ watch = IdleWatch
    /\ changes = 0 /\ tickCrashes = 0

-----------------------------------------------------------------------------
\* Someone else writes, rewrites or removes a governed file.
Change(f, c) ==
    /\ changes < MaxChanges
    /\ print[f] # c
    /\ print' = [print EXCEPT ![f] = c]
    /\ changes' = changes + 1
    /\ UNCHANGED <<baseline, incidentOf, pendingFor, watch, acknowledged, tickCrashes>>

\* main.py kill: the arming marker goes, a halt marker of this moment comes.
\* Nothing clears the halt, and neither change is acknowledged by it.
Kill(c) ==
    /\ changes < MaxChanges
    /\ print' = [print EXCEPT ![ArmMarker] = Absent, ![HaltMarker] = c]
    /\ changes' = changes + 1
    /\ UNCHANGED <<baseline, incidentOf, pendingFor, watch, acknowledged, tickCrashes>>

\* acknowledge_authorization: the files as they are become the baseline.
Acknowledge ==
    /\ baseline' = print
    /\ acknowledged' = print
    /\ UNCHANGED <<print, incidentOf, pendingFor, watch, changes, tickCrashes>>

\* The owner resolves an incident; an archived one leaves the directory.
ResolveChange(i) ==
    /\ incidentOf[i] = "open"
    /\ incidentOf' = [incidentOf EXCEPT ![i] = "resolved"]
    /\ UNCHANGED <<print, baseline, pendingFor, watch, acknowledged, changes, tickCrashes>>

ArchiveChange(i) ==
    /\ incidentOf[i] = "resolved"
    /\ incidentOf' = [incidentOf EXCEPT ![i] = "none"]
    /\ UNCHANGED <<print, baseline, pendingFor, watch, acknowledged, changes, tickCrashes>>

\* The delivery of pending alerts is the incident module's subject.
DeliverChange(i) ==
    /\ i \in pendingFor
    /\ pendingFor' = pendingFor \ {i}
    /\ UNCHANGED <<print, baseline, incidentOf, watch, acknowledged, changes, tickCrashes>>

-----------------------------------------------------------------------------
MutantWatchRead ==   \* without a baseline the files found become it, whatever they are
    /\ watch.pc = "idle"
    /\ watch' =
         IF baseline = NoBaseline
         THEN [IdleWatch EXCEPT !.pc = "baseline", !.observed = print]
         ELSE [IdleWatch EXCEPT !.pc = "file", !.observed = print,
                 !.expected = baseline, !.todo = {f \in Files : print[f] # baseline[f]}]
    /\ UNCHANGED <<print, baseline, incidentOf, pendingFor, acknowledged, changes, tickCrashes>>

\* Only when nothing exists does the watch baseline itself; a missing
\* baseline beside a file that exists counts as all absent.
WatchRead ==
    LET expected == IF baseline = NoBaseline THEN [f \in Files |-> Absent] ELSE baseline IN
    /\ watch.pc = "idle"
    /\ watch' =
         IF baseline = NoBaseline /\ \A f \in Files : print[f] = Absent
         THEN [IdleWatch EXCEPT !.pc = "baseline", !.observed = print]
         ELSE [IdleWatch EXCEPT !.pc = "file", !.observed = print,
                 !.expected = expected, !.todo = {f \in Files : print[f] # expected[f]}]
    /\ UNCHANGED <<print, baseline, incidentOf, pendingFor, acknowledged, changes, tickCrashes>>

WriteBaseline ==
    /\ watch.pc = "baseline"
    /\ baseline' = watch.observed
    /\ watch' = IdleWatch
    /\ UNCHANGED <<print, incidentOf, pendingFor, acknowledged, changes, tickCrashes>>

\* An incident of that name, resolved or not, is kept and raises no alert.
FileChange(f) ==
    /\ watch.pc = "file" /\ f \in watch.todo
    /\ LET i == <<f, watch.observed[f]>> IN
       IF incidentOf[i] = "none"
       THEN /\ incidentOf' = [incidentOf EXCEPT ![i] = "open"]
            /\ watch' = [watch EXCEPT !.pc = "alert", !.todo = @ \ {f}, !.file = {f}]
       ELSE /\ watch' = [watch EXCEPT !.todo = @ \ {f}]
            /\ UNCHANGED incidentOf
    /\ UNCHANGED <<print, baseline, pendingFor, acknowledged, changes, tickCrashes>>

AlertChange ==
    /\ watch.pc = "alert"
    /\ pendingFor' = pendingFor \cup {<<f, watch.observed[f]>> : f \in watch.file}
    /\ watch' = [watch EXCEPT !.pc = "file", !.file = {}]
    /\ UNCHANGED <<print, baseline, incidentOf, acknowledged, changes, tickCrashes>>

WatchEnd ==
    /\ watch.pc = "file" /\ watch.todo = {}
    /\ watch' = IdleWatch
    /\ UNCHANGED <<print, baseline, incidentOf, pendingFor, acknowledged, changes, tickCrashes>>

WatchCrash ==
    /\ watch.pc # "idle" /\ tickCrashes < MaxTickCrashes
    /\ watch' = IdleWatch
    /\ tickCrashes' = tickCrashes + 1
    /\ UNCHANGED <<print, baseline, incidentOf, pendingFor, acknowledged, changes>>

-----------------------------------------------------------------------------
Watch ==
    \/ WatchRead \/ WriteBaseline \/ AlertChange \/ WatchEnd
    \/ \E f \in Files : FileChange(f)

WatchNext ==
    \/ \E f \in Files, c \in Prints : Change(f, c)
    \/ \E c \in Contents : Kill(c)
    \/ Acknowledge
    \/ \E i \in Ids : ResolveChange(i) \/ ArchiveChange(i) \/ DeliverChange(i)
    \/ Watch
    \/ WatchCrash

\* launchd starts the watchdog every minute.
WatchSpec == WatchInit /\ [][WatchNext]_watchVars /\ WF_watchVars(Watch)

-----------------------------------------------------------------------------
\* A change that stands comes on record: a governed file that keeps a content
\* nobody acknowledged gets its incident, whatever crashes and however the
\* files changed before (check_authorization_record).  The baseline the watch
\* gives itself must not swallow it.
StandingChangeOnRecord ==
    \A f \in Files, c \in Contents :
        []<>(incidentOf[<<f, c>>] # "none" \/ print[f] # c \/ acknowledged[f] = c)

-----------------------------------------------------------------------------
WatchTypeOK ==
    /\ print \in [Files -> Prints] /\ acknowledged \in [Files -> Prints]
    /\ baseline \in [Files -> Prints] \cup {NoBaseline}
    /\ incidentOf \in [Ids -> {"none", "open", "resolved"}]
    /\ pendingFor \subseteq Ids
    /\ watch \in [pc : {"idle", "baseline", "file", "alert"}, observed : [Files -> Prints],
                  expected : [Files -> Prints], todo : SUBSET Files, file : SUBSET Files]
    /\ changes \in Nat /\ tickCrashes \in Nat

\* The baseline never holds a content the owner did not accept, the one the
\* watch writes by itself included (authorization_watch.py:78-127).
BaselineIsAcknowledged ==
    baseline # NoBaseline => \A f \in Files : baseline[f] \in {acknowledged[f], Absent}

\* A content that is neither absent nor accepted is among the differences of
\* the next reading, and a difference leaves the work of the tick only with
\* its incident on file or with the tick itself (authorization_watch.py:129-173).
ForgeryIsSeen ==
    [][/\ WatchRead => \A f \in Files :
            print[f] \notin {acknowledged[f], Absent} => f \in watch'.todo
       /\ \A f \in watch.todo \ watch'.todo :
            incidentOf'[<<f, watch.observed[f]>>] # "none" \/ tickCrashes' # tickCrashes
      ]_watchVars
=============================================================================
