--------------------------- MODULE CollectionProofs ---------------------------
(***************************************************************************)
(* What the collectors leave on disk: the OAuth tokens under any number of  *)
(* clients and logins, the probes of any universe, and the evidence of any  *)
(* number of collectors, the CLI child's and the direct ones, at one vault. *)
(***************************************************************************)
EXTENDS DirectCollector, CliCollector, BarsProbes,
        FiniteSetTheorems, WellFoundedInduction, TLAPS

-----------------------------------------------------------------------------
(* The token cache.  Under a server that rotates, a token about to reach the *)
(* disk has been used by nobody: it is live, it is not the one on disk, and  *)
(* no two writers bring the same.  Under one that does not, none ever dies.  *)

Saving == {u \in Users : want[u].at = "save"}

\* The refresh tokens a cache file or an answer may carry: none, or one.
RefreshOf(token) == IF token = NoToken THEN {} ELSE {token.refresh} \ {NoToken}

Unused(t) ==
    /\ t \in live
    /\ rotates => t \notin RefreshOf(cache) /\ \A u \in Users : want[u].used # t

TokenTypeOK ==
    /\ clock \in 0..MaxTime /\ issued \in 0..MaxIssued /\ live \subseteq 1..issued
    /\ cache \in Answers \cup {NoToken} /\ temp \in Answers \cup {NoToken}
    /\ want \in [Users -> [at : {"idle", "granted", "refused", "refresh", "save", "rename", "consent"},
                           held : Answers \cup {NoToken}, used : 1..MaxIssued \cup {NoToken}]]
    /\ rotates \in BOOLEAN

\* No token is known before it is issued.
NoneAhead ==
    /\ \A t \in RefreshOf(cache) \cup RefreshOf(temp) : t <= issued
    /\ \A u \in Users : \A t \in RefreshOf(want[u].held) \cup ({want[u].used} \ {NoToken}) : t <= issued

PendingUnused ==
    /\ \A t \in RefreshOf(temp) : Unused(t)
    /\ \A u \in Saving : want[u].held # NoToken /\ \A t \in RefreshOf(want[u].held) : Unused(t)

PendingDistinct ==
    rotates =>
        /\ \A u \in Saving : RefreshOf(want[u].held) \cap RefreshOf(temp) = {}
        /\ \A u, v \in Saving : u # v => RefreshOf(want[u].held) \cap RefreshOf(want[v].held) = {}

\* Who is to replace the token on disk still finds what it, or another, wrote.
RenameWillReplace ==
    rotates => \A u \in Users :
        want[u].at = "rename" /\ want[u].used \in RefreshOf(cache) => temp # NoToken

NoneDies ==
    ~rotates => /\ RefreshOf(cache) \subseteq live
                /\ \A u \in Users : {want[u].used} \ {NoToken} \subseteq live

Covered(t) ==
    \/ t \in live \cup lost
    \/ \E c \in Clients : want[c].at \in {"save", "rename"} /\ want[c].used = t

TokenInv ==
    /\ TokenTypeOK /\ NoneAhead /\ PendingUnused /\ PendingDistinct /\ RenameWillReplace
    /\ NoneDies /\ \A t \in RefreshOf(cache) : Covered(t)

Stages == {"idle", "granted", "refused", "refresh", "save", "rename", "consent"}

LEMMA SetChangesOne ==
  ASSUME TokenTypeOK, NEW u \in Users, NEW at, NEW held, NEW used, Set(u, at, held, used)
  PROVE  /\ want'[u].at = at /\ want'[u].held = held /\ want'[u].used = used
         /\ \A v \in Users \ {u} : want'[v] = want[v]
  BY DEF Set, TokenTypeOK

LEMMA SetIsTyped ==
  ASSUME TokenTypeOK, NEW u \in Users, NEW at \in Stages, NEW held \in Answers \cup {NoToken},
         NEW used \in 1..MaxIssued \cup {NoToken}, Set(u, at, held, used)
  PROVE  want' \in [Users -> [at : Stages, held : Answers \cup {NoToken},
                              used : 1..MaxIssued \cup {NoToken}]]
  BY DEF Set, TokenTypeOK, Stages

LEMMA RefreshIsNumber ==
  ASSUME NEW token \in Answers \cup {NoToken}
  PROVE  /\ RefreshOf(token) \subseteq 1..MaxIssued
         /\ \A t \in RefreshOf(token) : token # NoToken /\ t = token.refresh
         /\ RefreshOf(NoToken) = {}
  BY DEF RefreshOf, Answers

\* A user that neither saves nor renames, and knows at most what is on disk.
LEMMA RestingKeepsTokens ==
  ASSUME TokenInv, NEW u \in Users, NEW at \in Stages \ {"save", "rename"},
         NEW held \in {NoToken, cache}, NEW used \in {NoToken} \cup RefreshOf(cache),
         Set(u, at, held, used), UNCHANGED <<clock, issued, live, cache, temp, rotates>>,
         lost \subseteq lost',
         want[u].at \in {"save", "rename"} => {want[u].used} \ {NoToken} \subseteq lost'
  PROVE  TokenInv'
<1> USE DEF TokenInv
<1>1. /\ want'[u].at = at /\ want'[u].held = held /\ want'[u].used = used
      /\ \A v \in Users \ {u} : want'[v] = want[v]
  BY SetChangesOne
<1>2. cache \in Answers \cup {NoToken} /\ RefreshOf(cache) \subseteq 1..MaxIssued
  BY RefreshIsNumber DEF TokenTypeOK
<1>3. TokenTypeOK'
  <2>1. used \in 1..MaxIssued \cup {NoToken} /\ held \in Answers \cup {NoToken}
    BY <1>2
  <2>2. want' \in [Users -> [at : Stages, held : Answers \cup {NoToken},
                             used : 1..MaxIssued \cup {NoToken}]]
    BY <2>1, SetIsTyped
  <2>3. QED
    BY <2>2 DEF TokenTypeOK, Stages
<1>4. Saving' = Saving \ {u}
  BY <1>1 DEF Saving
<1>5. \A t : Unused(t) => Unused(t)'
  <2> TAKE t
  <2> HAVE Unused(t)
  <2>1. t # NoToken
    BY TokenAssumption DEF Unused, TokenTypeOK
  <2>2. t \in live' /\ rotates' = rotates /\ RefreshOf(cache)' = RefreshOf(cache)
    BY DEF Unused, RefreshOf
  <2>3. ASSUME rotates PROVE t \notin RefreshOf(cache) /\ \A v \in Users : want'[v].used # t
    BY <1>1, <2>1, <2>3 DEF Unused
  <2>4. QED
    BY <2>2, <2>3 DEF Unused
<1>6. NoneAhead'
  BY <1>1, RefreshIsNumber DEF NoneAhead
<1>7. PendingUnused'
  BY <1>1, <1>4, <1>5 DEF PendingUnused, Saving
<1>8. PendingDistinct'
  BY <1>1, <1>4 DEF PendingDistinct, Saving
<1>9. RenameWillReplace'
  BY <1>1 DEF RenameWillReplace
<1>10. NoneDies'
  BY <1>1 DEF NoneDies
<1>11. ASSUME NEW t \in RefreshOf(cache)' PROVE Covered(t)'
  <2>1. Covered(t) /\ t # NoToken
    BY <1>2 DEF RefreshOf
  <2>2. CASE t \in live \cup lost
    BY <2>2 DEF Covered
  <2>3. CASE \E c \in Clients : want[c].at \in {"save", "rename"} /\ want[c].used = t
    <3>1. PICK c \in Clients : want[c].at \in {"save", "rename"} /\ want[c].used = t
      BY <2>3
    <3>2. CASE c = u
      BY <2>1, <3>1, <3>2 DEF Covered
    <3>3. CASE c # u
      BY <1>1, <3>1, <3>3 DEF Covered, Users
    <3>4. QED
      BY <3>2, <3>3
  <2>4. QED
    BY <2>1, <2>2, <2>3 DEF Covered
<1>12. QED
  BY <1>3, <1>6, <1>7, <1>8, <1>9, <1>10, <1>11

\* A new answer: used by nobody, and only its holder has it.
LEMMA AnswerKeepsTokens ==
  ASSUME TokenInv, NEW u \in Users, NEW refresh \in {NoToken, issued + 1}, NEW timed \in BOOLEAN,
         NEW used \in {NoToken, want[u].used}, issued < MaxIssued,
         want[u].at \notin {"save", "rename"},
         Set(u, "save", Answer(refresh, timed), used),
         issued' = issued + 1,
         \/ live' = live \cup ({refresh} \ {NoToken})
         \/ rotates /\ u \in Clients /\ used # NoToken
              /\ live' = (live \ {used}) \cup ({refresh} \ {NoToken}),
         UNCHANGED <<clock, cache, temp, rotates, lost>>
  PROVE  TokenInv'
<1> USE DEF TokenInv
<1> DEFINE new == Answer(refresh, timed)
<1>1. /\ want'[u].at = "save" /\ want'[u].held = new /\ want'[u].used = used
      /\ \A v \in Users \ {u} : want'[v] = want[v]
  BY SetChangesOne
<1>2. issued \in Nat /\ MaxIssued \in Nat /\ issued + 1 \in 1..MaxIssued
      /\ NoToken \notin Int
  BY TokenAssumption DEF TokenTypeOK
<1>3. new \in Answers /\ new # NoToken /\ RefreshOf(new) = {refresh} \ {NoToken}
  <2>1. refresh \in 1..MaxIssued \cup {NoToken}
    BY <1>2
  <2>2. clock \in 0..MaxTime
    BY DEF TokenTypeOK
  <2>3. (IF timed THEN clock + Lifetime ELSE NoToken) \in 0..(MaxTime + Lifetime) \cup {NoToken}
    BY <2>2, TokenAssumption, SkewAssumption
  <2>4. new \in Answers
    BY <2>1, <2>2, <2>3 DEF Answer, Answers
  <2>5. new # NoToken
    BY <2>4, TokenAssumption
  <2>6. new.refresh = refresh
    BY DEF Answer
  <2>7. QED
    BY <2>4, <2>5, <2>6 DEF RefreshOf
<1> HIDE DEF new
<1>4. TokenTypeOK'
  <2>1. used \in 1..MaxIssued \cup {NoToken}
    BY DEF TokenTypeOK
  <2>2. want' \in [Users -> [at : Stages, held : Answers \cup {NoToken},
                             used : 1..MaxIssued \cup {NoToken}]]
    BY <2>1, <1>3, SetIsTyped DEF Stages, new
  <2>3. live' \subseteq 1..issued' /\ issued' \in 0..MaxIssued
    <3>1. live \subseteq 1..issued /\ issued' = issued + 1
      BY DEF TokenTypeOK
    <3>2. 1..issued \subseteq 1..issued' /\ issued + 1 \in 1..issued'
      BY <1>2, <3>1
    <3>3. live' \subseteq live \cup {issued + 1}
      OBVIOUS
    <3>4. issued' \in 0..MaxIssued
      BY <1>2, <3>1
    <3>5. QED
      BY <3>1, <3>2, <3>3, <3>4
  <2>4. QED
    BY <2>2, <2>3 DEF TokenTypeOK, Stages
<1>5. Saving' = Saving \cup {u} /\ u \notin Saving
  BY <1>1 DEF Saving
<1>6. /\ cache \in Answers \cup {NoToken} /\ temp \in Answers \cup {NoToken}
      /\ \A v \in Users : want[v].held \in Answers \cup {NoToken}
  BY DEF TokenTypeOK
<1>7. RefreshOf(cache) \subseteq Int /\ RefreshOf(temp) \subseteq Int
      /\ \A v \in Users : RefreshOf(want[v].held) \subseteq Int
  BY <1>6, RefreshIsNumber
<1>8. \A v \in Users : want[v].used \in Int \cup {NoToken}
  BY DEF TokenTypeOK
<1>9. NoneAhead'
  <2>1. \A t \in RefreshOf(cache) \cup RefreshOf(temp) : t <= issued + 1
    BY <1>2, <1>7 DEF NoneAhead
  <2>2. \A v \in Users \ {u} :
          \A t \in RefreshOf(want[v].held) \cup ({want[v].used} \ {NoToken}) : t <= issued + 1
    BY <1>2, <1>7, <1>8 DEF NoneAhead
  <2>3. \A t \in RefreshOf(new) \cup ({used} \ {NoToken}) : t <= issued + 1
    BY <1>2, <1>3, <1>8 DEF NoneAhead
  <2>4. QED
    BY <1>1, <2>1, <2>2, <2>3 DEF NoneAhead
<1>10. \A t \in RefreshOf(new) : Unused(t)'
  <2> TAKE t \in RefreshOf(new)
  <2>1. t = issued + 1 /\ t = refresh /\ t # NoToken
    BY <1>2, <1>3
  <2>2. t \in live'
    BY <2>1
  <2>3. t \notin RefreshOf(cache)
    BY <1>2, <2>1 DEF NoneAhead
  <2>4. \A v \in Users : want[v].used # t
    BY <1>2, <2>1 DEF NoneAhead
  <2>5. \A v \in Users : want'[v].used # t
    BY <1>1, <2>1, <2>4
  <2>6. QED
    BY <2>2, <2>3, <2>5 DEF Unused
<1>11. \A t : Unused(t) => Unused(t)'
  <2> TAKE t
  <2> HAVE Unused(t)
  <2>1. t # NoToken
    BY <1>2 DEF Unused, TokenTypeOK
  <2>2. rotates => t \notin RefreshOf(cache) /\ \A v \in Users : want'[v].used # t
    BY <1>1, <2>1 DEF Unused
  <2>3. t \in live'
    BY DEF Unused
  <2>4. QED
    BY <2>2, <2>3 DEF Unused
<1>12. PendingUnused'
  BY <1>1, <1>3, <1>5, <1>10, <1>11 DEF PendingUnused, Saving
<1>13. PendingDistinct'
  <2>1. RefreshOf(new) \cap RefreshOf(temp) = {}
    BY <1>2, <1>3 DEF NoneAhead
  <2>2. \A v \in Users : RefreshOf(new) \cap RefreshOf(want[v].held) = {}
    BY <1>2, <1>3 DEF NoneAhead
  <2>3. \A v \in Saving : v # u /\ v \in Users
    BY <1>5 DEF Saving
  <2>4. QED
    BY <1>1, <1>5, <2>1, <2>2, <2>3 DEF PendingDistinct
<1>14. RenameWillReplace'
  BY <1>1 DEF RenameWillReplace
<1>15. NoneDies'
  <2>1. SUFFICES ASSUME ~rotates PROVE NoneDies'
    BY DEF NoneDies
  <2>2. live \subseteq live'
    BY <2>1
  <2>3. {used} \ {NoToken} \subseteq live
    BY <2>1 DEF NoneDies
  <2>4. QED
    BY <1>1, <2>1, <2>2, <2>3 DEF NoneDies
<1>16. ASSUME NEW t \in RefreshOf(cache)' PROVE Covered(t)'
  <2>1. Covered(t)
    OBVIOUS
  <2>2. CASE t \in live \cup lost
    <3>1. CASE t \in live' \cup lost'
      BY <3>1 DEF Covered
    <3>2. CASE t \notin live' \cup lost'
      <4>1. u \in Clients /\ t = used
        BY <2>2, <3>2
      <4>2. QED
        BY <1>1, <4>1 DEF Covered
    <3>3. QED
      BY <3>1, <3>2
  <2>3. CASE \E c \in Clients : want[c].at \in {"save", "rename"} /\ want[c].used = t
    <3>1. PICK c \in Clients : want[c].at \in {"save", "rename"} /\ want[c].used = t
      BY <2>3
    <3>2. c # u /\ c \in Users
      BY <3>1 DEF Users
    <3>3. QED
      BY <1>1, <3>1, <3>2 DEF Covered
  <2>4. QED
    BY <2>1, <2>2, <2>3 DEF Covered
<1>17. QED
  BY <1>4, <1>9, <1>12, <1>13, <1>14, <1>15, <1>16

\* The server's rotation whose answer is lost.
LEMMA LostAnswerKeepsTokens ==
  ASSUME TokenInv, NEW c \in Clients, RefreshLost(c)
  PROVE  TokenInv'
<1> USE DEF TokenInv
<1> DEFINE used == want[c].used
<1>1. /\ want'[c].at = "refused" /\ want'[c].held = NoToken /\ want'[c].used = NoToken
      /\ \A v \in Users \ {c} : want'[v] = want[v]
  BY SetChangesOne DEF RefreshLost, Users
<1>2. /\ want[c].at = "refresh" /\ rotates /\ issued < MaxIssued /\ issued' = issued + 1
      /\ live' = (live \ {used}) \cup {issued + 1} /\ lost' = lost \cup {used}
      /\ UNCHANGED <<clock, cache, temp, rotates>> /\ c \in Users
  BY DEF RefreshLost, Users
<1>3. issued \in Nat /\ MaxIssued \in Nat /\ NoToken \notin Int
  BY TokenAssumption DEF TokenTypeOK
<1>4. TokenTypeOK'
  <2>1. want' \in [Users -> [at : Stages, held : Answers \cup {NoToken},
                             used : 1..MaxIssued \cup {NoToken}]]
    BY SetIsTyped DEF RefreshLost, Users, Stages
  <2>2. live' \subseteq 1..issued' /\ issued' \in 0..MaxIssued
    <3>1. live \subseteq 1..issued
      BY DEF TokenTypeOK
    <3>2. 1..issued \subseteq 1..issued' /\ issued + 1 \in 1..issued'
      BY <1>2, <1>3
    <3>3. issued' \in 0..MaxIssued
      BY <1>2, <1>3
    <3>4. QED
      BY <1>2, <3>1, <3>2, <3>3
  <2>3. QED
    BY <1>2, <2>1, <2>2 DEF TokenTypeOK, Stages
<1>5. Saving' = Saving
  BY <1>1, <1>2 DEF Saving
<1>6. /\ RefreshOf(cache) \subseteq Int /\ RefreshOf(temp) \subseteq Int
      /\ \A v \in Users : RefreshOf(want[v].held) \subseteq Int /\ want[v].used \in Int \cup {NoToken}
  BY RefreshIsNumber DEF TokenTypeOK
<1>7. NoneAhead'
  <2>1. \A t \in RefreshOf(cache) \cup RefreshOf(temp) : t <= issued + 1
    BY <1>3, <1>6 DEF NoneAhead
  <2>2. \A v \in Users \ {c} :
          \A t \in RefreshOf(want[v].held) \cup ({want[v].used} \ {NoToken}) : t <= issued + 1
    BY <1>3, <1>6 DEF NoneAhead
  <2>3. RefreshOf(NoToken) = {}
    BY DEF RefreshOf
  <2>4. QED
    BY <1>1, <1>2, <2>1, <2>2, <2>3 DEF NoneAhead
<1>8. \A t : Unused(t) => Unused(t)'
  <2> TAKE t
  <2> HAVE Unused(t)
  <2>1. t # NoToken /\ t # used /\ t \in live
    BY <1>2, <1>3 DEF Unused, TokenTypeOK
  <2>2. t \notin RefreshOf(cache) /\ \A v \in Users : want'[v].used # t
    BY <1>1, <1>2, <2>1 DEF Unused
  <2>3. QED
    BY <1>2, <2>1, <2>2 DEF Unused
<1>9. PendingUnused'
  BY <1>1, <1>2, <1>5, <1>8 DEF PendingUnused, Saving
<1>10. PendingDistinct'
  BY <1>1, <1>2, <1>5 DEF PendingDistinct, Saving
<1>11. RenameWillReplace'
  BY <1>1, <1>2 DEF RenameWillReplace
<1>12. NoneDies'
  BY <1>2 DEF NoneDies
<1>13. ASSUME NEW t \in RefreshOf(cache)' PROVE Covered(t)'
  <2>1. Covered(t)
    BY <1>2
  <2>2. CASE t \in live \cup lost
    BY <1>2, <2>2 DEF Covered
  <2>3. CASE \E d \in Clients : want[d].at \in {"save", "rename"} /\ want[d].used = t
    BY <1>1, <1>2, <2>3 DEF Covered, Users
  <2>4. QED
    BY <2>1, <2>2, <2>3 DEF Covered
<1>14. QED
  BY <1>4, <1>7, <1>9, <1>10, <1>11, <1>12, <1>13

\* The answer reaches the temporary file.
LEMMA SaveTemporaryKeepsTokens ==
  ASSUME TokenInv, NEW u \in Users, SaveTemporary(u)
  PROVE  TokenInv'
<1> USE DEF TokenInv
<1>1. /\ want'[u].at = "rename" /\ want'[u].held = want[u].held /\ want'[u].used = want[u].used
      /\ \A v \in Users \ {u} : want'[v] = want[v]
  BY SetChangesOne DEF SaveTemporary
<1>2. /\ want[u].at = "save" /\ u \in Saving /\ temp' = want[u].held /\ temp' # NoToken
      /\ UNCHANGED <<clock, issued, live, cache, rotates, lost>>
  BY DEF SaveTemporary, PendingUnused, Saving
<1>3. TokenTypeOK'
  <2>1. want' \in [Users -> [at : Stages, held : Answers \cup {NoToken},
                             used : 1..MaxIssued \cup {NoToken}]]
    <3>1. want[u].held \in Answers \cup {NoToken} /\ want[u].used \in 1..MaxIssued \cup {NoToken}
      BY DEF TokenTypeOK
    <3>2. QED
      BY <3>1, SetIsTyped DEF SaveTemporary, Stages
  <2>2. temp' \in Answers \cup {NoToken}
    BY <1>2 DEF TokenTypeOK
  <2>3. QED
    BY <1>2, <2>1, <2>2 DEF TokenTypeOK, Stages
<1>4. Saving' = Saving \ {u}
  BY <1>1 DEF Saving
<1>5. NoneAhead'
  BY <1>1, <1>2 DEF NoneAhead
<1>6. \A t : Unused(t) => Unused(t)'
  BY <1>1, <1>2 DEF Unused
<1>7. PendingUnused'
  <2>1. \A t \in RefreshOf(temp') : Unused(t)'
    BY <1>2, <1>6 DEF PendingUnused
  <2>2. \A v \in Saving' : want'[v].held # NoToken /\ \A t \in RefreshOf(want'[v].held) : Unused(t)'
    BY <1>1, <1>4, <1>6 DEF PendingUnused, Saving
  <2>3. QED
    BY <2>1, <2>2 DEF PendingUnused
<1>8. PendingDistinct'
  <2>1. \A v \in Saving' : v \in Saving /\ v # u /\ want'[v] = want[v]
    BY <1>1, <1>4 DEF Saving
  <2>2. QED
    BY <1>2, <2>1 DEF PendingDistinct
<1>9. RenameWillReplace'
  BY <1>2 DEF RenameWillReplace
<1>10. NoneDies'
  BY <1>1, <1>2 DEF NoneDies
<1>11. ASSUME NEW t \in RefreshOf(cache)' PROVE Covered(t)'
  <2>1. Covered(t)
    BY <1>2
  <2>2. \A c \in Clients : want[c].at \in {"save", "rename"} /\ want[c].used = t
                         => want'[c].at \in {"save", "rename"} /\ want'[c].used = t
    BY <1>1 DEF Users
  <2>3. QED
    BY <1>2, <2>1, <2>2 DEF Covered
<1>12. QED
  BY <1>3, <1>5, <1>7, <1>8, <1>9, <1>10, <1>11

\* Whose tokens the rename carries, it leaves a live one.
LEMMA SaveRenameKeepsTokens ==
  ASSUME TokenInv, NEW u \in Users, SaveRename(u)
  PROVE  TokenInv'
<1> USE DEF TokenInv
<1>1. want[u].at = "rename" /\ temp' = NoToken
      /\ UNCHANGED <<clock, issued, live, rotates, lost>>
  BY DEF SaveRename
<1>2. PICK at \in {"granted", "refused"}, held \in {NoToken, want[u].held} :
        /\ Set(u, at, held, NoToken)
        /\ IF temp # NoToken THEN cache' = temp ELSE cache' = cache
  BY DEF SaveRename
<1>3. /\ want'[u].at = at /\ want'[u].held = held /\ want'[u].used = NoToken
      /\ \A v \in Users \ {u} : want'[v] = want[v]
  BY <1>2, SetChangesOne
<1>4. TokenTypeOK'
  <2>1. held \in Answers \cup {NoToken} /\ at \in Stages
    BY DEF TokenTypeOK, Stages
  <2>2. want' \in [Users -> [at : Stages, held : Answers \cup {NoToken},
                             used : 1..MaxIssued \cup {NoToken}]]
    BY <1>2, <2>1, SetIsTyped
  <2>3. QED
    BY <1>1, <1>2, <2>2 DEF TokenTypeOK, Stages
<1>5. Saving' = Saving /\ u \notin Saving
  BY <1>1, <1>3 DEF Saving
<1>6. RefreshOf(NoToken) = {} /\ RefreshOf(temp)' = {}
  BY <1>1 DEF RefreshOf
<1>7. RefreshOf(cache)' = IF temp # NoToken THEN RefreshOf(temp) ELSE RefreshOf(cache)
  BY <1>2 DEF RefreshOf
<1>8. NoneAhead'
  BY <1>1, <1>3, <1>6, <1>7 DEF NoneAhead
<1>9. \A v \in Saving : v \in Users /\ want'[v] = want[v]
  BY <1>3, <1>5 DEF Saving
<1>10. PendingUnused'
  <2>1. ASSUME NEW v \in Saving, NEW t \in RefreshOf(want[v].held) PROVE Unused(t)'
    <3>1. Unused(t) /\ t # NoToken
      BY <2>1 DEF PendingUnused, RefreshOf
    <3>2. t \in live'
      BY <1>1, <3>1 DEF Unused
    <3>3. ASSUME rotates
          PROVE  t \notin RefreshOf(cache)' /\ \A w \in Users : want'[w].used # t
      <4>1. t \notin RefreshOf(temp) /\ t \notin RefreshOf(cache)
        BY <2>1, <3>1, <3>3 DEF PendingDistinct, Unused
      <4>2. QED
        BY <1>3, <1>7, <3>1, <3>3, <4>1 DEF Unused
    <3>4. QED
      BY <1>1, <3>2, <3>3 DEF Unused
  <2>2. QED
    BY <1>5, <1>6, <1>9, <2>1 DEF PendingUnused
<1>11. PendingDistinct'
  BY <1>1, <1>5, <1>6, <1>9 DEF PendingDistinct
<1>12. RenameWillReplace'
  <2> SUFFICES ASSUME rotates, NEW v \in Users,
                      want'[v].at = "rename", want'[v].used \in RefreshOf(cache)'
               PROVE  FALSE
    BY <1>1 DEF RenameWillReplace
  <2>1. v # u /\ want'[v] = want[v]
    BY <1>3
  <2>2. CASE temp # NoToken
    BY <1>7, <2>1, <2>2 DEF PendingUnused, Unused
  <2>3. CASE temp = NoToken
    BY <1>7, <2>1, <2>3 DEF RenameWillReplace
  <2>4. QED
    BY <2>2, <2>3
<1>13. NoneDies'
  <2> SUFFICES ASSUME ~rotates PROVE NoneDies'
    BY <1>1 DEF NoneDies
  <2>1. RefreshOf(temp) \subseteq live /\ RefreshOf(cache) \subseteq live
    BY DEF PendingUnused, Unused, NoneDies
  <2>2. QED
    BY <1>1, <1>3, <1>7, <2>1 DEF NoneDies
<1>14. ASSUME NEW t \in RefreshOf(cache)' PROVE Covered(t)'
  <2>1. CASE temp # NoToken
    BY <1>1, <1>7, <2>1 DEF PendingUnused, Unused, Covered
  <2>2. CASE temp = NoToken
    <3>1. t \in RefreshOf(cache) /\ Covered(t)
      BY <1>7, <2>2
    <3>2. CASE t \in live \cup lost
      BY <1>1, <3>2 DEF Covered
    <3>3. CASE \E c \in Clients : want[c].at \in {"save", "rename"} /\ want[c].used = t
      <4>1. PICK c \in Clients : want[c].at \in {"save", "rename"} /\ want[c].used = t
        BY <3>3
      <4>2. CASE rotates
        <5>1. c # u /\ c \in Users
          BY <1>1, <2>2, <3>1, <4>1, <4>2 DEF RenameWillReplace, Users
        <5>2. QED
          BY <1>3, <4>1, <5>1 DEF Covered
      <4>3. CASE ~rotates
        BY <1>1, <3>1, <4>3 DEF NoneDies, Covered
      <4>4. QED
        BY <4>2, <4>3
    <3>4. QED
      BY <3>1, <3>2, <3>3 DEF Covered
  <2>3. QED
    BY <2>1, <2>2
<1>15. QED
  BY <1>4, <1>8, <1>10, <1>11, <1>12, <1>13, <1>14

\* The answer of a server that does not rotate repeats the token.
LEMMA SameTokenKeepsTokens ==
  ASSUME TokenInv, NEW u \in Users, NEW timed \in BOOLEAN, ~rotates,
         want[u].used \in live, want[u].at \notin {"save", "rename"},
         Set(u, "save", Answer(want[u].used, timed), want[u].used),
         issued < MaxIssued, issued' = issued + 1,
         UNCHANGED <<clock, live, cache, temp, rotates, lost>>
  PROVE  TokenInv'
<1> USE DEF TokenInv
<1> DEFINE used == want[u].used
           new == Answer(used, timed)
<1>1. /\ want'[u].at = "save" /\ want'[u].held = new /\ want'[u].used = used
      /\ \A v \in Users \ {u} : want'[v] = want[v]
  BY SetChangesOne
<1>2. issued \in Nat /\ MaxIssued \in Nat /\ used \in 1..issued /\ live \subseteq 1..issued
  <2>1. issued \in Nat /\ MaxIssued \in Nat
    BY TokenAssumption DEF TokenTypeOK
  <2>2. live \subseteq 1..issued
    BY DEF TokenTypeOK
  <2>3. QED
    BY <2>1, <2>2
<1>3. new \in Answers /\ new # NoToken /\ RefreshOf(new) \subseteq {used}
  <2>1. used \in 1..MaxIssued \cup {NoToken}
    BY DEF TokenTypeOK
  <2>2. clock \in 0..MaxTime
    BY DEF TokenTypeOK
  <2>3. (IF timed THEN clock + Lifetime ELSE NoToken) \in 0..(MaxTime + Lifetime) \cup {NoToken}
    BY <2>2, TokenAssumption, SkewAssumption
  <2> HIDE DEF used
  <2>4. new \in Answers
    BY <2>1, <2>2, <2>3 DEF Answer, Answers
  <2>5. new # NoToken
    BY <2>4, TokenAssumption
  <2>6. new.refresh = used
    BY DEF Answer
  <2>7. QED
    BY <2>4, <2>5, <2>6 DEF RefreshOf
<1> HIDE DEF new
<1>4. TokenTypeOK'
  <2>1. used \in 1..MaxIssued \cup {NoToken}
    BY DEF TokenTypeOK
  <2>2. want' \in [Users -> [at : Stages, held : Answers \cup {NoToken},
                             used : 1..MaxIssued \cup {NoToken}]]
    BY <2>1, <1>3, SetIsTyped DEF Stages, new
  <2>3. 1..issued \subseteq 1..issued' /\ issued' \in 0..MaxIssued
    BY <1>2
  <2>4. live' \subseteq 1..issued'
    BY <1>2, <2>3
  <2>5. QED
    BY <2>2, <2>3, <2>4 DEF TokenTypeOK, Stages
<1>5. Saving' = Saving \cup {u}
  BY <1>1 DEF Saving
<1>6. /\ RefreshOf(cache) \subseteq Int /\ RefreshOf(temp) \subseteq Int
      /\ \A v \in Users : RefreshOf(want[v].held) \subseteq Int /\ want[v].used \in Int \cup {NoToken}
  BY RefreshIsNumber DEF TokenTypeOK
<1>7. NoneAhead'
  <2>1. \A t \in RefreshOf(cache) \cup RefreshOf(temp) : t <= issued + 1
    BY <1>2, <1>6 DEF NoneAhead
  <2>2. \A v \in Users \ {u} :
          \A t \in RefreshOf(want[v].held) \cup ({want[v].used} \ {NoToken}) : t <= issued + 1
    BY <1>2, <1>6 DEF NoneAhead
  <2>3. used <= issued + 1
    BY <1>2
  <2>4. QED
    BY <1>1, <1>3, <2>1, <2>2, <2>3 DEF NoneAhead
<1>8. PendingUnused'
  <2>1. \A t : Unused(t)' <=> t \in live
    BY DEF Unused
  <2>2. \A t \in RefreshOf(temp) : t \in live
    BY DEF PendingUnused, Unused
  <2>3. \A v \in Saving : want[v].held # NoToken /\ \A t \in RefreshOf(want[v].held) : t \in live
    BY DEF PendingUnused, Unused
  <2>4. \A v \in Saving' : v # u => v \in Saving /\ want'[v] = want[v]
    <3>1. \A v \in Saving : v \in Users
      BY DEF Saving
    <3>2. QED
      BY <1>1, <1>5, <3>1
  <2>5. RefreshOf(temp)' = RefreshOf(temp)
    BY DEF RefreshOf
  <2>6. QED
    BY <1>1, <1>3, <2>1, <2>2, <2>3, <2>4, <2>5 DEF PendingUnused
<1>9. PendingDistinct' /\ RenameWillReplace'
  BY DEF PendingDistinct, RenameWillReplace
<1>10. NoneDies'
  <2>1. RefreshOf(cache)' \subseteq live
    BY DEF NoneDies, RefreshOf
  <2>2. QED
    BY <1>1, <2>1 DEF NoneDies
<1>11. \A t \in RefreshOf(cache)' : Covered(t)'
  BY <1>10 DEF NoneDies, Covered
<1>12. QED
  BY <1>4, <1>7, <1>8, <1>9, <1>10, <1>11

LEMMA TokenStepInv == TokenInv /\ [TokenNext]_tokenVars => TokenInv'
<1> SUFFICES ASSUME TokenInv, [TokenNext]_tokenVars PROVE TokenInv'
  OBVIOUS
<1>0. /\ "idle" \in Stages \ {"save", "rename"} /\ "granted" \in Stages \ {"save", "rename"}
      /\ "refused" \in Stages \ {"save", "rename"} /\ "consent" \in Stages \ {"save", "rename"}
      /\ "refresh" \in Stages \ {"save", "rename"} /\ Clients \subseteq Users /\ Owner \in Users
  BY DEF Stages, Users
<1>1. ASSUME NEW u \in Users, NEW at \in {"idle", "refused", "consent"},
             want[u].at \notin {"save", "rename"}, Set(u, at, NoToken, NoToken),
             UNCHANGED <<clock, issued, live, cache, temp, rotates, lost>>
      PROVE  TokenInv'
  BY <1>0, <1>1, RestingKeepsTokens
<1>2. ASSUME Tick \/ UNCHANGED tokenVars
      PROVE  TokenInv'
  <2>1. UNCHANGED <<issued, live, cache, temp, want, rotates, lost>> /\ clock' \in 0..MaxTime
    BY <1>2, TokenAssumption DEF Tick, tokenVars, TokenInv, TokenTypeOK
  <2>2. QED
    BY <2>1 DEF TokenInv, TokenTypeOK, NoneAhead, PendingUnused, PendingDistinct,
                RenameWillReplace, NoneDies, Unused, Saving, Covered, RefreshOf
<1>3. ASSUME NEW c \in Clients, AskToken(c) PROVE TokenInv'
  <2>1. want[c].at = "idle" /\ UNCHANGED <<clock, issued, live, cache, temp, rotates, lost>>
    BY <1>3 DEF AskToken
  <2>2. CASE Set(c, "refused", NoToken, NoToken)
    BY <1>0, <1>1, <2>1, <2>2
  <2>3. CASE Set(c, "granted", cache, NoToken)
    BY <1>0, <2>1, <2>3, RestingKeepsTokens
  <2>4. CASE /\ cache # NoToken /\ cache.refresh # NoToken
             /\ Set(c, "refresh", NoToken, cache.refresh)
    <3>1. cache.refresh \in RefreshOf(cache)
      BY <2>4 DEF RefreshOf
    <3>2. QED
      BY <1>0, <2>1, <2>4, <3>1, RestingKeepsTokens
  <2>5. QED
    BY <1>3, <2>2, <2>3, <2>4 DEF AskToken
<1>4. ASSUME NEW c \in Clients, NEW timed \in BOOLEAN, Refresh(c, timed) PROVE TokenInv'
  <2> DEFINE used == want[c].used
  <2>1. /\ want[c].at = "refresh" /\ issued < MaxIssued /\ used \in live /\ issued' = issued + 1
        /\ UNCHANGED <<clock, cache, temp, rotates, lost>> /\ c \in Users /\ used # NoToken
    <3>1. live \subseteq Int
      BY DEF TokenInv, TokenTypeOK
    <3>2. QED
      BY <1>0, <1>4, <3>1, TokenAssumption DEF Refresh
  <2>2. CASE rotates
    <3>1. Set(c, "save", Answer(issued + 1, timed), used)
          /\ live' = (live \ {used}) \cup {issued + 1}
      BY <1>4, <2>2 DEF Refresh
    <3>2. issued + 1 # NoToken
      BY TokenAssumption DEF TokenInv, TokenTypeOK
    <3>3. QED
      BY <2>1, <2>2, <3>1, <3>2, AnswerKeepsTokens
  <2>3. CASE ~rotates
    <3>1. Set(c, "save", Answer(used, timed), used) /\ live' = live
      BY <1>4, <2>3 DEF Refresh
    <3>2. QED
      BY <2>1, <2>3, <3>1, SameTokenKeepsTokens
  <2>4. QED
    BY <2>2, <2>3
<1>5. ASSUME NEW c \in Clients, RefreshLost(c) PROVE TokenInv'
  BY <1>5, LostAnswerKeepsTokens
<1>6. ASSUME NEW c \in Clients, RefreshRefused(c) PROVE TokenInv'
  BY <1>0, <1>1, <1>6 DEF RefreshRefused
<1>7. ASSUME NEW c \in Clients, NextCall(c) PROVE TokenInv'
  BY <1>0, <1>1, <1>7 DEF NextCall, Set, Resting
<1>8. CASE LoginStep
  <2>1. CASE Login
    BY <1>0, <1>1, <2>1 DEF Login
  <2>2. CASE LoginFails
    BY <1>0, <1>1, <2>2 DEF LoginFails
  <2>3. CASE LoginAgain
    BY <1>0, <1>1, <2>3 DEF LoginAgain, Set, Resting
  <2>4. ASSUME NEW withRefresh \in BOOLEAN, NEW timed \in BOOLEAN, Callback(withRefresh, timed)
        PROVE  TokenInv'
    <3> DEFINE refresh == IF withRefresh THEN issued + 1 ELSE NoToken
    <3>1. issued + 1 # NoToken
      BY TokenAssumption DEF TokenInv, TokenTypeOK
    <3>2. /\ refresh \in {NoToken, issued + 1}
          /\ live' = live \cup ({refresh} \ {NoToken})
          /\ Set(Owner, "save", Answer(refresh, timed), NoToken)
          /\ issued < MaxIssued /\ want[Owner].at = "consent" /\ issued' = issued + 1
          /\ UNCHANGED <<clock, cache, temp, rotates, lost>>
      BY <2>4, <3>1 DEF Callback
    <3> HIDE DEF refresh
    <3>3. QED
      BY <1>0, <3>2, AnswerKeepsTokens
  <2>5. QED
    BY <1>8, <2>1, <2>2, <2>3, <2>4 DEF LoginStep
<1>9. ASSUME NEW u \in Users, SaveStep(u) PROVE TokenInv'
  <2>1. CASE SaveTemporary(u)
    BY <2>1, SaveTemporaryKeepsTokens
  <2>2. CASE SaveRename(u)
    BY <2>2, SaveRenameKeepsTokens
  <2>3. CASE Abandon(u)
    BY <1>0, <2>3, RestingKeepsTokens DEF Abandon
  <2>4. QED
    BY <1>9, <2>1, <2>2, <2>3 DEF SaveStep
<1>10. QED
  BY <1>2, <1>3, <1>4, <1>5, <1>6, <1>7, <1>8, <1>9 DEF TokenNext, TokenStep

\* The refresh token on disk is alive, or its loss is accounted for, for any
\* number of clients and logins and either policy of the server.
THEOREM CacheStaysAlive == TokenSpec => []CacheHoldsLiveToken
<1>1. TokenInit => TokenInv
  BY TokenAssumption
  DEF TokenInit, TokenInv, TokenTypeOK, NoneAhead, PendingUnused, PendingDistinct,
      RenameWillReplace, NoneDies, Saving, RefreshOf, Resting
<1>2. TokenInv => CacheHoldsLiveToken
  <2> SUFFICES ASSUME TokenInv, cache # NoToken, cache.refresh # NoToken
               PROVE  Covered(cache.refresh)
    BY DEF CacheHoldsLiveToken, Covered
  <2>1. cache.refresh \in RefreshOf(cache)
    BY DEF RefreshOf
  <2>2. QED
    BY <2>1 DEF TokenInv
<1>3. QED
  BY <1>1, <1>2, TokenStepInv, PTL DEF TokenSpec

-----------------------------------------------------------------------------
(* The probes.  What is left and the receipts divide the universe, and what  *)
(* is spent leaves the rest of the budget.                                   *)

ProbesInv ==
    /\ left \subseteq Symbols /\ spent \in Nat /\ spent <= Budget
    /\ probes \in {"running", "failed", "completed"}
    /\ probes = "running" => width \in DOMAIN Measured
    /\ probes = "completed" => left = {}
    /\ left \cup UNION receipts = Symbols
    /\ \A r \in receipts : r \cap left = {}
    /\ \A r, q \in receipts : r # q => r \cap q = {}
    /\ \A r \in receipts : Cardinality(r) <= Measured[width]

\* A nonempty family of subsets of a finite set has a smallest member.
LEMMA Smallest ==
  ASSUME NEW S, IsFiniteSet(S), NEW F \in SUBSET (SUBSET S), F # {}
  PROVE  \E T \in F : \A U \in F : U \subseteq T => U = T
<1>1. F \subseteq FiniteSubsetsOf(S)
  BY FS_Subset DEF FiniteSubsetsOf
<1>2. IsWellFoundedOn(StrictSubsetOrdering(S), FiniteSubsetsOf(S))
  BY FS_StrictSubsetOrderingWellFounded
<1>3. PICK T \in F : \A U \in F : <<U, T>> \notin StrictSubsetOrdering(S)
  BY <1>1, <1>2, WFMin
<1>4. QED
  BY <1>3 DEF StrictSubsetOrdering

\* A finite set has subsets of every smaller size.
LEMMA SubsetOfSize ==
  ASSUME NEW S, IsFiniteSet(S), NEW k \in Nat, k <= Cardinality(S)
  PROVE  \E T \in SUBSET S : Cardinality(T) = k
<1> DEFINE F == {T \in SUBSET S : Cardinality(T) >= k}
<1>1. F \in SUBSET (SUBSET S) /\ S \in F
  <2>1. Cardinality(S) \in Nat
    BY FS_CardinalityType
  <2>2. QED
    BY <2>1
<1>2. PICK T \in F : \A U \in F : U \subseteq T => U = T
  <2> HIDE DEF F
  <2> QED
    BY <1>1, Smallest
<1>3. T \in SUBSET S /\ IsFiniteSet(T) /\ Cardinality(T) \in Nat /\ Cardinality(T) >= k
  BY FS_Subset, FS_CardinalityType
<1>4. CASE Cardinality(T) # k
  <2>1. T # {}
    BY <1>3, <1>4, FS_EmptySet
  <2>2. PICK x : x \in T
    BY <2>1
  <2>3. Cardinality(T \ {x}) = Cardinality(T) - 1
    BY <1>3, <2>2, FS_RemoveElement
  <2>4. T \ {x} \in F
    BY <1>3, <1>4, <2>3
  <2>5. QED
    BY <1>2, <2>2, <2>4
<1>5. QED
  BY <1>3, <1>4

\* The next chunk is what one answer can carry, of what is left.
LEMMA ChunkFits ==
  ASSUME ProbesInv, probes = "running"
  PROVE  Chunk \subseteq left /\ Cardinality(Chunk) <= Measured[width]
<1> DEFINE k == Smaller(Measured[width], Cardinality(left))
<1>1. Measured[width] \in Nat
  BY MeasuredAssumption DEF ProbesInv
<1>2. IsFiniteSet(left) /\ Cardinality(left) \in Nat
  BY MeasuredAssumption, FS_Subset, FS_CardinalityType DEF ProbesInv
<1>3. k \in Nat /\ k <= Cardinality(left) /\ k <= Measured[width]
  BY <1>1, <1>2 DEF Smaller
<1> HIDE DEF k
<1>4. \E T \in SUBSET left : Cardinality(T) = k
  BY <1>2, <1>3, SubsetOfSize
<1>5. Chunk \in SUBSET left /\ Cardinality(Chunk) = k
  BY <1>4 DEF Chunk, k
<1>6. QED
  BY <1>3, <1>5

LEMMA ProbesStepInv == ProbesInv /\ [ProbesNext]_probeVars => ProbesInv'
<1> SUFFICES ASSUME ProbesInv, [ProbesNext]_probeVars PROVE ProbesInv'
  OBVIOUS
<1>1. CASE OutOfBudget
  BY <1>1 DEF OutOfBudget, ProbesInv
<1>2. ASSUME NEW seconds \in 1..Budget, NEW ok \in BOOLEAN, Probe(seconds, ok) PROVE ProbesInv'
  <2>1. probes = "running" /\ spent' = spent + seconds /\ width' = width
    BY <1>2 DEF Probe
  <2>2. seconds <= Budget - spent
    <3>1. seconds <= Smaller(Budget - spent, PerCall)
      BY <1>2 DEF Probe, Allowance, Remaining
    <3>2. QED
      BY <3>1, BudgetAssumption DEF Smaller, ProbesInv
  <2>3. spent' \in Nat /\ spent' <= Budget
    BY <2>1, <2>2, BudgetAssumption DEF ProbesInv
  <2>4. CASE ok
    <3> DEFINE chunk == Chunk
    <3>1. /\ receipts' = receipts \cup {chunk} /\ left' = left \ chunk
          /\ probes' = IF left' = {} THEN "completed" ELSE probes
      BY <1>2, <2>4 DEF Probe
    <3>2. chunk \subseteq left /\ Cardinality(chunk) <= Measured[width]
      BY <2>1, ChunkFits
    <3> HIDE DEF chunk
    <3>3. left' \cup UNION receipts' = Symbols
      BY <3>1, <3>2 DEF ProbesInv
    <3>4. \A r, q \in receipts' : r # q => r \cap q = {}
      BY <3>1, <3>2 DEF ProbesInv
    <3>5. \A r \in receipts' : r \cap left' = {}
      BY <3>1, <3>2 DEF ProbesInv
    <3>6. \A r \in receipts' : Cardinality(r) <= Measured[width']
      BY <2>1, <3>1, <3>2 DEF ProbesInv
    <3>7. QED
      BY <2>1, <2>3, <3>1, <3>3, <3>4, <3>5, <3>6 DEF ProbesInv
  <2>5. CASE ~ok
    <3>1. probes' = "failed" /\ UNCHANGED <<left, receipts>>
      BY <1>2, <2>5 DEF Probe
    <3>2. QED
      BY <2>1, <2>3, <3>1 DEF ProbesInv
  <2>6. QED
    BY <2>4, <2>5
<1>3. CASE UNCHANGED probeVars
  BY <1>3 DEF probeVars, ProbesInv
<1>4. QED
  BY <1>1, <1>2, <1>3 DEF ProbesNext

\* The set of probes keeps its budget and is whole when it is complete, for any
\* finite universe, any measured chunk and any budget.
THEOREM ProbesKeepTheirBudget == ProbesSpec => []ProbesWholeInBudget
<1>1. ProbesInit => ProbesInv
  BY BudgetAssumption DEF ProbesInit, ProbesInv
<1>2. ProbesInv => ProbesWholeInBudget
  BY DEF ProbesInv, ProbesWholeInBudget
<1>3. QED
  BY <1>1, <1>2, ProbesStepInv, PTL DEF ProbesSpec

-----------------------------------------------------------------------------
(* The evidence.  Whoever stores an envelope stores a sound one, once per    *)
(* identifier; the index only names what was stored.  The files themselves   *)
(* are in nobody's hand.                                                     *)

\* What a collector may vouch for.
Sound(env) ==
    /\ ~env.sensitive
    /\ env.updated <= env.received + ClockSkew
    /\ env.required \subseteq DOMAIN env.answers
    /\ ~env.partial => \A t \in DOMAIN env.answers : env.answers[t] = "ok"

VaultInv ==
    /\ DOMAIN stored = Ids /\ stored = [i \in Ids |-> stored[i]]
    /\ \A i \in Ids : \A env \in stored[i] : Sound(env)
    /\ \A e \in index : e.id \in Ids /\ e.env \in stored[e.id]
    /\ DOMAIN writing = Writers /\ writing = [w \in Writers |-> writing[w]]
    /\ \A w \in Writers : writing[w] # Nothing =>
         \E i \in Ids, at \in {"temporary", "renamed"} : \E env \in stored[i] :
            writing[w] = [id |-> i, env |-> env, at |-> at]

LEMMA VaultHoldsEvidence == VaultInv => EvidenceIsCollected
<1> SUFFICES ASSUME VaultInv, NEW i \in Ids, Verifies(i, TRUE)
             PROVE  file[i].env \in stored[i] /\ Sound(file[i].env)
  BY DEF EvidenceIsCollected, EvidenceIsWhatWasCollected, Sound
<1>1. PICK e \in index : e.id = i
  BY DEF Verifies, Indexed
<1>2. e.env = file[i].env
  BY <1>1 DEF Verifies, Indexed
<1>3. QED
  BY <1>1, <1>2 DEF VaultInv

LEMMA StoringKeepsVault ==
  ASSUME VaultInv, NEW w, NEW env, Sound(env), StoreTemporary(w, env)
  PROVE  VaultInv'
<1>1. PICK i \in Ids :
        /\ stored[i] = {}
        /\ stored' = [stored EXCEPT ![i] = {env}]
        /\ writing' = [writing EXCEPT ![w] = [id |-> i, env |-> env, at |-> "temporary"]]
  BY DEF StoreTemporary
<1>2. index' = index
  BY DEF StoreTemporary
<1>3. stored'[i] = {env} /\ \A j \in Ids \ {i} : stored'[j] = stored[j]
  BY <1>1 DEF VaultInv
<1>4. \A j \in Ids : stored[j] \subseteq stored'[j]
  BY <1>1, <1>3
<1>5. DOMAIN stored' = Ids /\ stored' = [j \in Ids |-> stored'[j]]
  BY <1>1 DEF VaultInv
<1>6. DOMAIN writing' = Writers /\ writing' = [v \in Writers |-> writing'[v]]
  BY <1>1 DEF VaultInv
<1>7. \A v \in Writers : writing'[v] =
        IF v = w THEN [id |-> i, env |-> env, at |-> "temporary"] ELSE writing[v]
  BY <1>1 DEF VaultInv
<1>8. \A v \in Writers : writing'[v] # Nothing =>
         \E j \in Ids, at \in {"temporary", "renamed"} : \E x \in stored'[j] :
            writing'[v] = [id |-> j, env |-> x, at |-> at]
  <2>1. \A v \in Writers \ {w} : writing'[v] = writing[v]
    BY <1>7
  <2>2. w \in Writers => writing'[w] = [id |-> i, env |-> env, at |-> "temporary"]
    BY <1>7
  <2>3. QED
    BY <1>3, <1>4, <2>1, <2>2 DEF VaultInv
<1>9. \A e \in index' : e.id \in Ids /\ e.env \in stored'[e.id]
  BY <1>2, <1>4 DEF VaultInv
<1>10. \A j \in Ids : \A x \in stored'[j] : Sound(x)
  BY <1>3 DEF VaultInv
<1>11. QED
  BY <1>5, <1>6, <1>8, <1>9, <1>10 DEF VaultInv

LEMMA StepKeepsVault ==
  ASSUME VaultInv, NEW w \in Writers, StoreStep(w)
  PROVE  VaultInv'
<1>1. CASE StoreRename(w)
  <2>1. writing[w] # Nothing /\ writing' = [writing EXCEPT ![w].at = "renamed"]
        /\ UNCHANGED <<index, stored>>
    BY <1>1 DEF StoreRename
  <2>9. PICK i \in Ids, at \in {"temporary", "renamed"} : \E env \in stored[i] :
          writing[w] = [id |-> i, env |-> env, at |-> at]
    BY <2>1 DEF VaultInv
  <2>2. PICK env \in stored[i] : writing[w] = [id |-> i, env |-> env, at |-> at]
    BY <2>9
  <2> DEFINE mid == [id |-> i, env |-> env, at |-> at]
  <2>6. writing'[w] = [mid EXCEPT !.at = "renamed"]
    BY <2>1, <2>2 DEF VaultInv
  <2>7. writing'[w] = [id |-> i, env |-> env, at |-> "renamed"]
    BY <2>6
  <2>3. \A v \in Writers \ {w} : writing'[v] = writing[v]
    BY <2>1 DEF VaultInv
  <2>4. DOMAIN writing' = Writers /\ writing' = [v \in Writers |-> writing'[v]]
    BY <2>1 DEF VaultInv
  <2>8. \A v \in Writers : writing'[v] # Nothing =>
         \E j \in Ids, a \in {"temporary", "renamed"} : \E x \in stored[j] :
            writing'[v] = [id |-> j, env |-> x, at |-> a]
    <3>1. ASSUME NEW v \in Writers, v # w, writing'[v] # Nothing
          PROVE  \E j \in Ids, a \in {"temporary", "renamed"} : \E x \in stored[j] :
                    writing'[v] = [id |-> j, env |-> x, at |-> a]
      BY <2>3, <3>1 DEF VaultInv
    <3>2. QED
      BY <2>7, <3>1
  <2>10. \A e \in index' : e.id \in Ids /\ e.env \in stored'[e.id]
    BY <2>1 DEF VaultInv
  <2>11. /\ DOMAIN stored' = Ids /\ stored' = [j \in Ids |-> stored'[j]]
         /\ \A j \in Ids : \A x \in stored'[j] : Sound(x)
    BY <2>1 DEF VaultInv
  <2>12. stored' = stored
    BY <2>1
  <2>5. QED
    BY <2>4, <2>8, <2>10, <2>11, <2>12 DEF VaultInv
<1>2. CASE StoreIndex(w)
  <2>1. /\ writing[w] # Nothing /\ UNCHANGED <<file, stored>>
        /\ index' = index \cup {[id |-> writing[w].id, env |-> writing[w].env]}
        /\ writing' = [writing EXCEPT ![w] = Nothing]
    BY <1>2 DEF StoreIndex
  <2>6. writing[w].id \in Ids /\ writing[w].env \in stored[writing[w].id]
    BY <2>1 DEF VaultInv
  <2>2. \A e \in index' : e.id \in Ids /\ e.env \in stored[e.id]
    BY <2>1, <2>6 DEF VaultInv
  <2>3. \A v \in Writers : writing'[v] = IF v = w THEN Nothing ELSE writing[v]
    BY <2>1 DEF VaultInv
  <2>4. DOMAIN writing' = Writers /\ writing' = [v \in Writers |-> writing'[v]]
    BY <2>1 DEF VaultInv
  <2>5. QED
    BY <2>1, <2>2, <2>3, <2>4 DEF VaultInv
<1>3. QED
  BY <1>1, <1>2 DEF StoreStep

\* A death between two steps, and an edit of a file, leave the index alone.
LEMMA DeathKeepsVault ==
  ASSUME VaultInv, NEW w, writing' = [writing EXCEPT ![w] = Nothing], UNCHANGED <<index, stored>>
  PROVE  VaultInv'
<1>1. \A v \in Writers : writing'[v] = IF v = w THEN Nothing ELSE writing[v]
  BY DEF VaultInv
<1>2. DOMAIN writing' = Writers /\ writing' = [v \in Writers |-> writing'[v]]
  BY DEF VaultInv
<1>3. QED
  BY <1>1, <1>2 DEF VaultInv

LEMMA QuietKeepsVault ==
  ASSUME VaultInv, UNCHANGED <<index, writing, stored>>
  PROVE  VaultInv'
  BY DEF VaultInv

\* All the collectors at once on one vault, and whoever edits its files.
CollectionNext ==
    \/ DirectNext /\ UNCHANGED cliVars
    \/ CliNext /\ UNCHANGED <<tokenVars, run>>

CollectionSpec == DirectInit /\ CliInit /\ [][CollectionNext]_<<directVars, cliVars>>

CollectionInv == VaultInv /\ clock \in Nat

LEMMA DirectSnapshotIsSound ==
  ASSUME clock \in Nat, NEW c \in Clients, NEW updated \in 0..clock,
         Asked(c) \subseteq run[c].answers
  PROVE  Sound(Snapshot(c, updated))
  BY ClockSkewAssumption DEF Sound, Snapshot, Envelope

\* The newest of the times that are not ahead is not ahead.
LEMMA FreshestIsPast ==
  ASSUME NEW times \in SUBSET Times, \E t \in times : t <= Ceiling(Received)
  PROVE  Freshest(times, Received) <= Ceiling(Received)
<1> DEFINE past == {t \in times : t <= Ceiling(Received)}
<1>1. \E t \in past : \A u \in past : u <= t
  <2>1. past # {}
    OBVIOUS
  <2>2. ASSUME NEW t \in past PROVE t \in {0, Received, Received + ClockSkew}
    BY ClockSkewAssumption DEF Times, Received, Ceiling
  <2>3. past \subseteq {0, Received, Received + ClockSkew}
    BY <2>2
  <2> HIDE DEF past
  <2>4. CASE Received + ClockSkew \in past
    BY <2>3, <2>4, ClockSkewAssumption DEF Received
  <2>5. CASE Received + ClockSkew \notin past /\ Received \in past
    <3>1. past \subseteq {0, Received}
      BY <2>3, <2>5
    <3>2. \A u \in past : u <= Received
      BY <3>1 DEF Received
    <3>3. QED
      BY <2>5, <3>2
  <2>6. CASE Received + ClockSkew \notin past /\ Received \notin past
    <3>1. past = {0}
      BY <2>1, <2>3, <2>6
    <3>2. QED
      BY <3>1
  <2>7. QED
    BY <2>4, <2>5, <2>6
<1>2. Freshest(times, Received) \in past
  BY <1>1 DEF Freshest
<1>3. QED
  BY <1>2

LEMMA HarvestIsSound ==
  ASSUME Harvestable, NEW times \in SUBSET Times, \E t \in times : t <= Ceiling(Received)
  PROVE  Sound(Envelope(Harvest, Partial, FALSE, ask.tools, Received,
                        Freshest(times, Received)))
<1>1. Freshest(times, Received) <= Received + ClockSkew
  BY FreshestIsPast DEF Ceiling
<1>2. ask.tools \subseteq DOMAIN Harvest
  BY DEF Harvestable, Harvest
<1>3. ~Partial => \A t \in DOMAIN Harvest : Harvest[t] = "ok"
  BY DEF Partial, Harvest
<1>4. QED
  BY <1>1, <1>2, <1>3 DEF Sound, Envelope

LEMMA DirectKeepsEvidence ==
  ASSUME CollectionInv, DirectNext PROVE CollectionInv'
<1>1. ASSUME NEW c \in Clients, NEW plan \in Plans, Start(c, plan) PROVE CollectionInv'
  BY <1>1, QuietKeepsVault DEF Start, CollectionInv, vaultVars, tokenVars
<1>2. ASSUME NEW c \in Clients, Running(c) /\ TokenStep(c) /\ UNCHANGED <<vaultVars, run>>
      PROVE  CollectionInv'
  <2>1. UNCHANGED clock
    BY <1>2 DEF TokenStep, AskToken, Refresh, RefreshLost, RefreshRefused
  <2>2. QED
    BY <1>2, <2>1, QuietKeepsVault DEF CollectionInv, vaultVars
<1>3. ASSUME NEW u, SaveStep(u), UNCHANGED <<vaultVars, run>> PROVE CollectionInv'
  <2>1. UNCHANGED clock
    BY <1>3 DEF SaveStep, SaveTemporary, SaveRename, Abandon
  <2>2. QED
    BY <1>3, <2>1, QuietKeepsVault DEF CollectionInv, vaultVars
<1>4. ASSUME NEW c \in Clients, NEW r \in Replies, Post(c, r) PROVE CollectionInv'
  <2>1. UNCHANGED <<vaultVars, clock>>
    BY <1>4 DEF Post
  <2>2. QED
    BY <2>1, QuietKeepsVault DEF CollectionInv, vaultVars
<1>5. ASSUME NEW c \in Clients, PostFails(c) PROVE CollectionInv'
  BY <1>5, QuietKeepsVault DEF PostFails, CollectionInv, vaultVars
<1>6. ASSUME NEW c \in Clients, Store(c) PROVE CollectionInv'
  <2>1. UNCHANGED clock
    BY <1>6 DEF Store, tokenVars
  <2>2. CASE UNCHANGED vaultVars
    BY <2>1, <2>2, QuietKeepsVault DEF CollectionInv, vaultVars
  <2>3. ASSUME Asked(c) \subseteq run[c].answers, NEW updated \in 0..clock,
               StoreTemporary(c, Snapshot(c, updated))
        PROVE  CollectionInv'
    <3>1. Sound(Snapshot(c, updated))
      BY <2>3, DirectSnapshotIsSound DEF CollectionInv
    <3>2. QED
      BY <2>1, <2>3, <3>1, StoringKeepsVault DEF CollectionInv
  <2>4. QED
    BY <1>6, <2>2, <2>3 DEF Store
<1>7. ASSUME NEW c \in Clients, Finish(c) PROVE CollectionInv'
  <2>1. c \in Writers /\ StoreStep(c) /\ UNCHANGED clock
    BY <1>7, ClientsWrite DEF Finish, tokenVars
  <2>2. QED
    BY <2>1, StepKeepsVault DEF CollectionInv
<1>8. ASSUME NEW c \in Clients, Crash(c) PROVE CollectionInv'
  BY <1>8, DeathKeepsVault DEF Crash, CollectionInv
<1>9. CASE Tick /\ UNCHANGED <<vaultVars, run>>
  <2>1. clock' \in Nat
    BY <1>9 DEF Tick, CollectionInv
  <2>2. QED
    BY <1>9, <2>1, QuietKeepsVault DEF CollectionInv, vaultVars
<1>10. CASE LoginStep /\ UNCHANGED <<vaultVars, run>>
  <2>1. UNCHANGED clock
    BY <1>10 DEF LoginStep, Login, LoginFails, LoginAgain, Callback
  <2>2. QED
    BY <1>10, <2>1, QuietKeepsVault DEF CollectionInv, vaultVars
<1>11. QED
  BY <1>1, <1>2, <1>3, <1>4, <1>5, <1>6, <1>7, <1>8, <1>9, <1>10
  DEF DirectNext, CollectorStep

LEMMA CliKeepsEvidence ==
  ASSUME CollectionInv, CliNext, UNCHANGED <<tokenVars, run>> PROVE CollectionInv'
<1>1. clock' \in Nat
  BY DEF CollectionInv, tokenVars
<1>2. CASE UNCHANGED <<index, writing, stored>>
  BY <1>1, <1>2, QuietKeepsVault DEF CollectionInv
<1>3. ASSUME NEW times \in SUBSET Times, NEW sensitive \in BOOLEAN,
             HarvestAndStore(times, Received, sensitive)
      PROVE  CollectionInv'
  <2>1. CASE Harvestable /\ ~sensitive /\ \E t \in times : t <= Ceiling(Received)
    <3> DEFINE env == Envelope(Harvest, Partial, FALSE, ask.tools, Received,
                               Freshest(times, Received))
    <3>1. Sound(env)
      BY <2>1, HarvestIsSound
    <3>2. sensitive = FALSE
      BY <2>1
    <3>3. StoreTemporary(Cli, env)
      BY <1>3, <2>1, <3>2 DEF HarvestAndStore
    <3> HIDE DEF env
    <3>4. QED
      BY <1>1, <3>1, <3>3, StoringKeepsVault DEF CollectionInv
  <2>2. CASE ~(Harvestable /\ ~sensitive /\ \E t \in times : t <= Ceiling(Received))
    <3>1. UNCHANGED vaultVars
      BY <1>3, <2>2 DEF HarvestAndStore
    <3>2. QED
      BY <1>2, <3>1 DEF vaultVars
  <2>3. QED
    BY <2>1, <2>2
<1>4. CASE CliFinish
  BY <1>1, <1>4, CliWrites, StepKeepsVault DEF CliFinish, CollectionInv
<1>5. CASE CliCrash
  BY <1>1, <1>5, DeathKeepsVault DEF CliCrash, CollectionInv
<1>6. CASE Child /\ UNCHANGED vaultVars
  BY <1>2, <1>6 DEF vaultVars
<1>7. ASSUME NEW i \in Ids, NEW canonical \in BOOLEAN, EditInPlace(i, canonical)
      PROVE  CollectionInv'
  BY <1>2, <1>7 DEF EditInPlace
<1>8. QED
  BY <1>3, <1>4, <1>5, <1>6, <1>7 DEF CliNext

\* A snapshot that verifies as evidence is one a collector vouched for, however
\* many clients and CLI children store, die and have their files edited at once.
THEOREM EvidenceIsGenuine == CollectionSpec => []EvidenceIsCollected
<1>1. DirectInit /\ CliInit => CollectionInv
  BY DEF DirectInit, VaultInit, TokenInit, CollectionInv, VaultInv
<1>2. CollectionInv => EvidenceIsCollected
  BY VaultHoldsEvidence DEF CollectionInv
<1>3. CollectionInv /\ [CollectionNext]_<<directVars, cliVars>> => CollectionInv'
  <2>1. CollectionInv /\ UNCHANGED <<directVars, cliVars>> => CollectionInv'
    BY QuietKeepsVault DEF directVars, vaultVars, tokenVars, CollectionInv
  <2>2. QED
    BY <2>1, DirectKeepsEvidence, CliKeepsEvidence DEF CollectionNext
<1>4. QED
  BY <1>1, <1>2, <1>3, PTL DEF CollectionSpec

-----------------------------------------------------------------------------
(* Why a run ends.  Each step of a collector is a step of its token, a POST  *)
(* or a step of its store; they are counted down one inside the other.       *)

Names == {"initialize", "initialized", "get_equity_quotes", "get_equity_historicals",
          "get_option_chains", "get_option_instruments", "get_option_quotes",
          "get_earnings_results"}
Outcomes == {"none", "running", "storing", "completed", "failed"}
Runs == [plan : Seq(Names), step : Nat, turn : Nat, answers : SUBSET Names, outcome : Outcomes]

OnCourse(r) == r.step \in 1..(Len(r.plan) + 1) /\ r.turn \in 1..PageCap

RunInv ==
    /\ run \in [Clients -> Runs] /\ \A c \in Clients : OnCourse(run[c])
    /\ DOMAIN want = Users /\ want = [u \in Users |-> want[u]]
    /\ \A c \in Clients : want[c].at \in Stages
    /\ DOMAIN writing = Writers /\ writing = [w \in Writers |-> writing[w]]

\* What a step leaves alone of a client.
Untouched(c) == run'[c] = run[c] /\ want'[c] = want[c] /\ writing'[c] = writing[c]

LEMMA PlansAreSeq == \A plan \in Plans \cup {Handshake} : plan \in Seq(Names)
<1>1. Handshake \in Seq(Names)
  BY DEF Handshake, Names
<1>2. SixTools \in Seq(Names)
  BY DEF SixTools, Names
<1>3. <<"get_equity_historicals">> \in Seq(Names) /\ <<"get_option_quotes">> \in Seq(Names)
  BY DEF Names
<1>4. \A s, t \in Seq(Names) : s \o t \in Seq(Names)
  OBVIOUS
<1>5. QED
  BY <1>1, <1>2, <1>3, <1>4 DEF Plans

LEMMA NewRunIsOnCourse ==
  ASSUME NEW plan \in Seq(Names)
  PROVE  NewRun(plan) \in Runs /\ OnCourse(NewRun(plan)) /\ NewRun(plan).outcome = "running"
  BY CapAssumption DEF NewRun, Runs, OnCourse, Outcomes

LEMMA CountIsNatural ==
  ASSUME NEW c \in Clients, RunInv
  PROVE  /\ PostsAhead(c) \in Nat /\ TokenAhead(c) \in 0..5 /\ StoreAhead(c) \in 0..2
         /\ Ahead(c) \in Nat
<1> DEFINE l == Len(run[c].plan) + 1 - run[c].step
           t == PageCap - run[c].turn
<1>1. l \in Nat /\ t \in Nat /\ PageCap \in Nat
  <2>1. run[c] \in Runs /\ OnCourse(run[c])
    BY DEF RunInv
  <2>2. Len(run[c].plan) \in Nat
    BY <2>1 DEF Runs
  <2>3. run[c].step \in Int /\ 1 <= run[c].step /\ run[c].step <= Len(run[c].plan) + 1
    BY <2>1, <2>2 DEF OnCourse
  <2>4. run[c].turn \in Int /\ run[c].turn <= PageCap /\ PageCap \in Nat
    BY <2>1, CapAssumption DEF OnCourse
  <2>5. \A len \in Nat, step \in Int : step <= len + 1 => len + 1 - step \in Nat
    OBVIOUS
  <2>6. l \in Nat
    BY <2>2, <2>3, <2>5
  <2>7. t \in Nat
    BY <2>4
  <2>8. QED
    BY <2>4, <2>6, <2>7
<1>2. PostsAhead(c) = PageCap * l + t
  <2>1. run[c].turn \in Int
    BY DEF RunInv, Runs
  <2>2. PageCap * l \in Int
    BY <1>1
  <2> HIDE DEF l
  <2>3. QED
    BY <2>1, <2>2, <1>1 DEF PostsAhead, l
<1> HIDE DEF l, t
<1>3. PostsAhead(c) \in Nat
  BY <1>1, <1>2
<1>4. TokenAhead(c) \in 0..5 /\ StoreAhead(c) \in 0..2
  BY DEF TokenAhead, StoreAhead
<1>5. QED
  BY <1>3, <1>4 DEF Ahead

LEMMA UntouchedCountsTheSame ==
  ASSUME NEW c, Untouched(c) PROVE Ahead(c)' = Ahead(c)
  BY DEF Untouched, Ahead, PostsAhead, TokenAhead, StoreAhead, Running

LEMMA SetMovesOne ==
  ASSUME RunInv, NEW u \in Users, NEW at \in Stages, NEW held, NEW used, Set(u, at, held, used)
  PROVE  /\ DOMAIN want' = Users /\ want' = [v \in Users |-> want'[v]]
         /\ \A c \in Clients : want'[c].at \in Stages
         /\ want'[u].at = at /\ \A v \in Users \ {u} : want'[v] = want[v]
<1>1. want' = [want EXCEPT ![u] = [at |-> at, held |-> held, used |-> used]]
  BY DEF Set
<1>2. want'[u].at = at /\ \A v \in Users \ {u} : want'[v] = want[v]
  BY <1>1 DEF RunInv
<1>3. DOMAIN want' = Users /\ want' = [v \in Users |-> want'[v]]
  BY <1>1 DEF RunInv
<1>4. \A c \in Clients : want'[c].at \in Stages
  BY <1>2 DEF RunInv, Users
<1>5. QED
  BY <1>2, <1>3, <1>4

\* A token's progress alone: with fewer steps of the token before it, the run
\* has fewer before it.
LEMMA TokenMoves ==
  ASSUME RunInv, NEW c \in Clients, NEW at \in Stages, NEW held, NEW used,
         Set(c, at, held, used), UNCHANGED <<vaultVars, run>>
  PROVE  /\ RunInv' /\ \A d \in Clients \ {c} : Untouched(d)
         /\ want'[c].at = at
         /\ TokenAhead(c)' < TokenAhead(c) => Ahead(c)' < Ahead(c)
<1>1. c \in Users
  BY DEF Users
<1>2. /\ DOMAIN want' = Users /\ want' = [v \in Users |-> want'[v]]
      /\ \A d \in Clients : want'[d].at \in Stages
      /\ want'[c].at = at /\ \A v \in Users \ {c} : want'[v] = want[v]
  BY <1>1, SetMovesOne
<1>3. run' = run /\ writing' = writing
  BY DEF vaultVars
<1>4. RunInv'
  BY <1>2, <1>3 DEF RunInv
<1>5. \A d \in Clients \ {c} : Untouched(d)
  BY <1>2, <1>3 DEF Untouched, Users
<1>6. PostsAhead(c)' = PostsAhead(c) /\ StoreAhead(c)' = StoreAhead(c) /\ (Running(c)' <=> Running(c))
  BY <1>3 DEF PostsAhead, StoreAhead, Running
<1>7. /\ PostsAhead(c) \in Nat /\ TokenAhead(c) \in 0..5 /\ StoreAhead(c) \in 0..2
      /\ TokenAhead(c)' \in 0..5
  <2>1. TokenAhead(c)' \in 0..5
    BY DEF TokenAhead
  <2>2. QED
    BY <2>1, CountIsNatural
<1>8. TokenAhead(c)' < TokenAhead(c) => Ahead(c)' < Ahead(c)
  <2> DEFINE rest == IF Running(c) THEN 8 * (PostsAhead(c) + 1) ELSE StoreAhead(c)
  <2>1. rest \in Int /\ Ahead(c) = TokenAhead(c) + rest
    BY <1>7 DEF Ahead
  <2>2. Ahead(c)' = TokenAhead(c)' + rest
    BY <1>6 DEF Ahead
  <2> HIDE DEF rest
  <2>3. QED
    BY <1>7, <2>1, <2>2
<1>9. QED
  BY <1>2, <1>4, <1>5, <1>8

LEMMA TokenStepCounts ==
  ASSUME RunInv, NEW c \in Clients, UNCHANGED <<vaultVars, run>>,
         (Running(c) /\ TokenStep(c)) \/ SaveStep(c)
  PROVE  RunInv' /\ (\A d \in Clients \ {c} : Untouched(d)) /\ Ahead(c)' < Ahead(c)
<1> DEFINE Goal == RunInv' /\ (\A d \in Clients \ {c} : Untouched(d)) /\ Ahead(c)' < Ahead(c)
<1>1. Running(c)' <=> Running(c)
  BY DEF Running
<1>2. ASSUME NEW at \in {"granted", "refused", "refresh"}, NEW held, NEW used,
             Running(c), want[c].at = "idle", Set(c, at, held, used)
      PROVE  Goal
  <2>1. RunInv' /\ (\A d \in Clients \ {c} : Untouched(d)) /\ want'[c].at = at
        /\ (TokenAhead(c)' < TokenAhead(c) => Ahead(c)' < Ahead(c))
    BY <1>2, TokenMoves DEF Stages
  <2>2. TokenAhead(c) = 5 /\ TokenAhead(c)' \in {1, 4}
    BY <1>2, <2>1 DEF TokenAhead
  <2>3. QED
    BY <2>1, <2>2
<1>3. ASSUME NEW at \in {"save", "refused"}, NEW held, NEW used, want[c].at = "refresh",
             Set(c, at, held, used)
      PROVE  Goal
  <2>1. RunInv' /\ (\A d \in Clients \ {c} : Untouched(d)) /\ want'[c].at = at
        /\ (TokenAhead(c)' < TokenAhead(c) => Ahead(c)' < Ahead(c))
    BY <1>3, TokenMoves DEF Stages
  <2>2. TokenAhead(c) = 4 /\ TokenAhead(c)' \in {1, 3}
    BY <1>3, <2>1 DEF TokenAhead
  <2>3. QED
    BY <2>1, <2>2
<1>4. ASSUME NEW at \in {"rename", "granted", "refused"}, NEW held, NEW used,
             want[c].at = "save" \/ (want[c].at = "rename" /\ at # "rename"),
             Set(c, at, held, used)
      PROVE  Goal
  <2>1. RunInv' /\ (\A d \in Clients \ {c} : Untouched(d)) /\ want'[c].at = at
        /\ (TokenAhead(c)' < TokenAhead(c) => Ahead(c)' < Ahead(c))
    BY <1>4, TokenMoves DEF Stages
  <2>2. \/ TokenAhead(c) = 3 /\ TokenAhead(c)' \in {1, 2}
        \/ TokenAhead(c) = 2 /\ TokenAhead(c)' = 1
    BY <1>4, <2>1 DEF TokenAhead
  <2>3. QED
    BY <2>1, <2>2
<1>5. CASE Running(c) /\ AskToken(c)
  BY <1>2, <1>5 DEF AskToken
<1>6. CASE \E timed \in BOOLEAN : Refresh(c, timed)
  BY <1>3, <1>6 DEF Refresh
<1>7. CASE RefreshLost(c) \/ RefreshRefused(c)
  BY <1>3, <1>7 DEF RefreshLost, RefreshRefused
<1>8. CASE SaveTemporary(c)
  BY <1>4, <1>8 DEF SaveTemporary
<1>9. CASE SaveRename(c) \/ Abandon(c)
  BY <1>4, <1>9 DEF SaveRename, Abandon
<1>10. QED
  BY <1>5, <1>6, <1>7, <1>8, <1>9 DEF TokenStep, SaveStep

\* A client whose run alone changes, from one that is under way, with no token
\* in its hands.
LEMMA RunMoves ==
  ASSUME RunInv, NEW c \in Clients, NEW r \in Runs, OnCourse(r),
         run' = [run EXCEPT ![c] = r], want' = [want EXCEPT ![c] = Resting],
         DOMAIN writing' = Writers, writing' = [w \in Writers |-> writing'[w]],
         \A w \in Writers \ {c} : writing'[w] = writing[w]
  PROVE  /\ RunInv' /\ (\A d \in Clients \ {c} : Untouched(d))
         /\ run'[c] = r /\ want'[c].at = "idle"
<1>1. run' \in [Clients -> Runs] /\ run'[c] = r /\ \A d \in Clients \ {c} : run'[d] = run[d]
  BY DEF RunInv
<1>2. \A d \in Clients : OnCourse(run'[d])
  BY <1>1 DEF RunInv
<1>3. c \in Users /\ Resting.at = "idle"
  BY DEF Users, Resting
<1>4. /\ DOMAIN want' = Users /\ want' = [u \in Users |-> want'[u]]
      /\ want'[c].at = "idle" /\ \A u \in Users \ {c} : want'[u] = want[u]
  BY <1>3 DEF RunInv
<1>5. \A d \in Clients : want'[d].at \in Stages
  BY <1>4 DEF RunInv, Users, Stages
<1>6. RunInv'
  BY <1>1, <1>2, <1>4, <1>5 DEF RunInv
<1>7. \A d \in Clients \ {c} : Untouched(d)
  BY <1>1, <1>4, ClientsWrite DEF Untouched, Users
<1>8. QED
  BY <1>1, <1>4, <1>6, <1>7

LEMMA FailedIsRun ==
  ASSUME RunInv, NEW c \in Clients, NEW outcome \in Outcomes
  PROVE  LET r == [run[c] EXCEPT !.outcome = outcome] IN
         r \in Runs /\ OnCourse(r) /\ r.outcome = outcome
  BY DEF RunInv, Runs, OnCourse

\* A run that stops asking has only its store before it.
LEMMA EndedCount ==
  ASSUME RunInv, NEW c \in Clients, Running(c), ~Running(c)', want'[c].at = "idle"
  PROVE  Ahead(c)' < Ahead(c)
<1>1. PostsAhead(c) \in Nat /\ TokenAhead(c) \in 0..5
  BY CountIsNatural
<1>2. TokenAhead(c)' = 0 /\ StoreAhead(c)' \in 0..2
  BY DEF TokenAhead, StoreAhead
<1>3. Ahead(c)' \in 0..2
  BY <1>2 DEF Ahead
<1>4. Ahead(c) = TokenAhead(c) + 8 * (PostsAhead(c) + 1)
  BY DEF Ahead
<1>5. QED
  BY <1>1, <1>3, <1>4

\* The answer decides: the run fails, asks again or goes on.
LEMMA PostMovesRun ==
  ASSUME NEW c, NEW r, Post(c, r)
  PROVE  \/ run' = [run EXCEPT ![c].outcome = "failed"]
         \/ /\ run' = [run EXCEPT ![c] = [run[c] EXCEPT
                  !.turn = IF run[c].turn < PageCap THEN run[c].turn + 1 ELSE run[c].turn]]
            /\ Again(c, r)
         \/ run' = [run EXCEPT ![c] = [run[c] EXCEPT
                  !.step = run[c].step + 1, !.turn = 1,
                  !.answers = run[c].answers \cup ({Step(c)} \cap Asked(c))]]
<1>1. CASE ~(Sent(c, r) /\ (run[c].step > 2 => ToolAnswered(r) /\ Usable(c, r)))
  BY <1>1 DEF Post, Fail
<1>2. ASSUME Sent(c, r) /\ (run[c].step > 2 => ToolAnswered(r) /\ Usable(c, r)),
             Again(c, r)
      PROVE  run' = [run EXCEPT ![c] = [run[c] EXCEPT
                !.turn = IF run[c].turn < PageCap THEN run[c].turn + 1 ELSE run[c].turn]]
  BY <1>2 DEF Post
<1>3. ASSUME Sent(c, r) /\ (run[c].step > 2 => ToolAnswered(r) /\ Usable(c, r)),
             ~Again(c, r)
      PROVE  run' = [run EXCEPT ![c] = [run[c] EXCEPT
                !.step = run[c].step + 1, !.turn = 1,
                !.answers = run[c].answers \cup ({Step(c)} \cap Asked(c))]]
  BY <1>3 DEF Post
<1>4. QED
  BY <1>1, <1>2, <1>3

LEMMA PostCounts ==
  ASSUME RunInv, NEW c \in Clients, NEW r \in Replies, Post(c, r)
  PROVE  RunInv' /\ (\A d \in Clients \ {c} : Untouched(d)) /\ Ahead(c)' < Ahead(c)
<1> DEFINE x == run[c]
           failed == [x EXCEPT !.outcome = "failed"]
           again == [x EXCEPT !.turn = IF @ < PageCap THEN @ + 1 ELSE @]
           onward == [x EXCEPT !.step = @ + 1, !.turn = 1,
                               !.answers = @ \cup ({Step(c)} \cap Asked(c))]
<1>1. x \in Runs /\ OnCourse(x) /\ x.outcome = "running" /\ x.step <= Len(x.plan)
  BY DEF RunInv, Post, Running, Asking
<1>2. /\ want' = [want EXCEPT ![c] = Resting] /\ writing' = writing /\ want[c].at = "granted"
      /\ \/ run' = [run EXCEPT ![c] = failed]
         \/ run' = [run EXCEPT ![c] = again] /\ Again(c, r)
         \/ run' = [run EXCEPT ![c] = onward]
  <2>1. want' = [want EXCEPT ![c] = Resting] /\ writing' = writing /\ want[c].at = "granted"
    BY DEF Post, vaultVars
  <2>2. \/ run' = [run EXCEPT ![c].outcome = "failed"]
        \/ run' = [run EXCEPT ![c] = again] /\ Again(c, r)
        \/ run' = [run EXCEPT ![c] = onward]
    BY PostMovesRun
  <2>3. [run EXCEPT ![c].outcome = "failed"] = [run EXCEPT ![c] = failed]
    OBVIOUS
  <2> HIDE DEF failed, again, onward
  <2>4. QED
    BY <2>1, <2>2, <2>3
<1>3. Step(c) \in Names
  BY <1>1 DEF Step, Runs, OnCourse
<1>4. failed \in Runs /\ OnCourse(failed) /\ failed.outcome = "failed"
  BY FailedIsRun DEF Outcomes
<1>5. again \in Runs /\ OnCourse(again)
  <2> DEFINE t == IF x.turn < PageCap THEN x.turn + 1 ELSE x.turn
  <2>1. t \in Nat /\ t \in 1..PageCap
    BY <1>1, CapAssumption DEF Runs, OnCourse
  <2>2. again = [x EXCEPT !.turn = t]
    OBVIOUS
  <2> HIDE DEF t, again, x
  <2>3. QED
    BY <1>1, <2>1, <2>2 DEF Runs, OnCourse
<1>6. onward \in Runs /\ OnCourse(onward)
  <2> DEFINE s == x.step + 1
             a == x.answers \cup ({Step(c)} \cap Asked(c))
  <2>1. s \in Nat /\ s \in 1..(Len(x.plan) + 1) /\ 1 \in 1..PageCap
    BY <1>1, CapAssumption DEF Runs, OnCourse
  <2>2. a \in SUBSET Names
    BY <1>1, <1>3 DEF Runs
  <2>3. onward = [x EXCEPT !.step = s, !.turn = 1, !.answers = a]
    OBVIOUS
  <2> HIDE DEF s, a, onward, x
  <2>4. QED
    BY <1>1, <2>1, <2>2, <2>3 DEF Runs, OnCourse
<1>7. DOMAIN writing' = Writers /\ writing' = [w \in Writers |-> writing'[w]]
  BY <1>2 DEF RunInv
<1>8. Again(c, r) => x.turn < PageCap
  <2>1. Again(c, r) => x.turn < PageCap \/ x.turn < BatchCap
    BY DEF Again
  <2>2. x.turn \in Int /\ PageCap \in Int /\ BatchCap \in Int /\ BatchCap <= PageCap
    BY <1>1, CapAssumption DEF Runs
  <2>3. QED
    BY <2>1, <2>2
<1>9. ASSUME NEW n \in Runs, OnCourse(n), n.outcome = "running", run' = [run EXCEPT ![c] = n],
             PageCap * (Len(n.plan) + 1 - n.step) + PageCap - n.turn < PostsAhead(c)
      PROVE  RunInv' /\ (\A d \in Clients \ {c} : Untouched(d)) /\ Ahead(c)' < Ahead(c)
  <2>1. /\ RunInv' /\ (\A d \in Clients \ {c} : Untouched(d))
        /\ run'[c] = n /\ want'[c].at = "idle"
    BY <1>2, <1>7, <1>9, RunMoves
  <2>2. Running(c) /\ Running(c)' /\ TokenAhead(c) = 1 /\ TokenAhead(c)' = 5
    BY <1>1, <1>2, <1>9, <2>1 DEF Running, TokenAhead
  <2>3. PostsAhead(c)' < PostsAhead(c)
    BY <1>9, <2>1 DEF PostsAhead
  <2>4. PostsAhead(c) \in Nat
    BY CountIsNatural
  <2>5. PostsAhead(c)' \in Int
    <3>1. Len(n.plan) \in Nat /\ n.step \in Nat /\ n.turn \in Nat /\ PageCap \in Nat
      BY <1>9, CapAssumption DEF Runs
    <3>2. PageCap * (Len(n.plan) + 1 - n.step) \in Int
      BY <3>1
    <3>3. QED
      BY <2>1, <3>1, <3>2 DEF PostsAhead
  <2>6. Ahead(c) = 1 + 8 * (PostsAhead(c) + 1) /\ Ahead(c)' = 5 + 8 * (PostsAhead(c)' + 1)
    BY <2>2 DEF Ahead
  <2>7. QED
    BY <2>1, <2>3, <2>4, <2>5, <2>6
<1> DEFINE l == Len(x.plan) + 1 - x.step
<1>10. /\ l \in Nat /\ x.turn \in Nat /\ x.turn <= PageCap /\ PageCap \in Nat \ {0}
       /\ PostsAhead(c) = PageCap * l + PageCap - x.turn
  <2>1. x.step \in Nat /\ x.turn \in Nat /\ Len(x.plan) \in Nat
    BY <1>1 DEF Runs
  <2>2. x.turn <= PageCap /\ PageCap \in Nat \ {0}
    BY <1>1, CapAssumption DEF OnCourse
  <2>3. l \in Nat
    BY <1>1, <2>1
  <2>4. PostsAhead(c) = PageCap * l + PageCap - x.turn
    BY DEF PostsAhead
  <2> HIDE DEF l, x
  <2>5. QED
    BY <2>1, <2>2, <2>3, <2>4
<1>11. PageCap * l \in Nat /\ PageCap * (l - 1) = PageCap * l - PageCap
  BY <1>10
<1>12. CASE run' = [run EXCEPT ![c] = failed]
  <2>1. /\ RunInv' /\ (\A d \in Clients \ {c} : Untouched(d))
        /\ run'[c] = failed /\ want'[c].at = "idle"
    BY <1>2, <1>4, <1>7, <1>12, RunMoves
  <2>2. Running(c) /\ ~Running(c)'
    BY <1>1, <1>4, <2>1 DEF Running
  <2>3. QED
    BY <2>1, <2>2, EndedCount
<1>13. CASE run' = [run EXCEPT ![c] = again] /\ Again(c, r)
  <2>1. again.plan = x.plan /\ again.step = x.step /\ again.turn = x.turn + 1
        /\ again.outcome = "running"
    BY <1>1, <1>8, <1>13 DEF Runs
  <2>2. PageCap * (Len(again.plan) + 1 - again.step) + PageCap - again.turn
          = PageCap * l + PageCap - (x.turn + 1)
    BY <2>1
  <2> DEFINE p == PageCap * l
  <2>9. p \in Nat /\ PostsAhead(c) = p + PageCap - x.turn
    BY <1>10, <1>11
  <2> HIDE DEF again, l, p, x
  <2>3. PageCap * (Len(again.plan) + 1 - again.step) + PageCap - again.turn < PostsAhead(c)
    BY <1>10, <2>2, <2>9 DEF p
  <2>4. QED
    BY <1>5, <1>9, <1>13, <2>1, <2>3
<1>14. CASE run' = [run EXCEPT ![c] = onward]
  <2>1. onward.plan = x.plan /\ onward.step = x.step + 1 /\ onward.turn = 1
        /\ onward.outcome = "running"
    BY <1>1 DEF Runs
  <2>2. Len(onward.plan) + 1 - onward.step = l - 1
    BY <1>1, <2>1 DEF Runs
  <2>3. PageCap * (Len(onward.plan) + 1 - onward.step) + PageCap - onward.turn
          = PageCap * (l - 1) + PageCap - 1
    BY <2>1, <2>2
  <2> HIDE DEF onward, l
  <2>4. PageCap * (Len(onward.plan) + 1 - onward.step) + PageCap - onward.turn < PostsAhead(c)
    BY <1>10, <1>11, <2>3
  <2>5. QED
    BY <1>6, <1>9, <1>14, <2>1, <2>4
<1>15. QED
  BY <1>2, <1>12, <1>13, <1>14

\* What RunMoves asks of the store's part when that client alone may store.
LEMMA WritingStays ==
  ASSUME RunInv, NEW w, NEW x, writing' = writing \/ writing' = [writing EXCEPT ![w] = x]
  PROVE  /\ DOMAIN writing' = Writers /\ writing' = [v \in Writers |-> writing'[v]]
         /\ \A v \in Writers \ {w} : writing'[v] = writing[v]
<1>1. CASE writing' = writing
  BY <1>1 DEF RunInv
<1>2. CASE writing' = [writing EXCEPT ![w] = x]
  BY <1>2 DEF RunInv
<1>3. QED
  BY <1>1, <1>2

LEMMA PostFailsCounts ==
  ASSUME RunInv, NEW c \in Clients, PostFails(c)
  PROVE  RunInv' /\ (\A d \in Clients \ {c} : Untouched(d)) /\ Ahead(c)' < Ahead(c)
<1> DEFINE failed == [run[c] EXCEPT !.outcome = "failed"]
<1>1. failed \in Runs /\ OnCourse(failed) /\ failed.outcome = "failed"
  BY FailedIsRun DEF Outcomes
<1>2. run' = [run EXCEPT ![c] = failed] /\ want' = [want EXCEPT ![c] = Resting]
      /\ writing' = writing /\ Running(c)
  BY DEF PostFails, Fail, vaultVars
<1>3. DOMAIN writing' = Writers /\ writing' = [v \in Writers |-> writing'[v]]
      /\ \A v \in Writers \ {c} : writing'[v] = writing[v]
  BY <1>2, WritingStays
<1> HIDE DEF failed
<1>4. RunInv' /\ (\A d \in Clients \ {c} : Untouched(d)) /\ run'[c] = failed /\ want'[c].at = "idle"
  BY <1>1, <1>2, <1>3, RunMoves
<1>5. ~Running(c)'
  BY <1>1, <1>4 DEF Running
<1>6. QED
  BY <1>2, <1>4, <1>5, EndedCount

\* A client whose run and store change while its token rests where it was.
LEMMA StoreMoves ==
  ASSUME RunInv, NEW c \in Clients, NEW r \in Runs, OnCourse(r),
         run' = [run EXCEPT ![c] = r], want' = want,
         DOMAIN writing' = Writers, writing' = [w \in Writers |-> writing'[w]],
         \A w \in Writers \ {c} : writing'[w] = writing[w]
  PROVE  RunInv' /\ (\A d \in Clients \ {c} : Untouched(d)) /\ run'[c] = r
<1>1. run' \in [Clients -> Runs] /\ run'[c] = r /\ \A d \in Clients \ {c} : run'[d] = run[d]
  BY DEF RunInv
<1>2. \A d \in Clients : OnCourse(run'[d])
  BY <1>1 DEF RunInv
<1>3. RunInv'
  BY <1>1, <1>2 DEF RunInv
<1>4. \A d \in Clients \ {c} : Untouched(d)
  BY <1>1, ClientsWrite DEF Untouched
<1>5. QED
  BY <1>1, <1>3, <1>4

LEMMA StoreCounts ==
  ASSUME RunInv, NEW c \in Clients, Store(c)
  PROVE  RunInv' /\ (\A d \in Clients \ {c} : Untouched(d)) /\ Ahead(c)' < Ahead(c)
<1>1. Running(c) /\ want' = want
  BY DEF Store, tokenVars
<1>2. PICK outcome \in {"storing", "failed"} :
        run' = [run EXCEPT ![c] = [run[c] EXCEPT !.outcome = outcome]]
  BY DEF Store, Fail
<1>3. \E x : writing' = writing \/ writing' = [writing EXCEPT ![c] = x]
  BY DEF Store, StoreTemporary, vaultVars
<1>4. DOMAIN writing' = Writers /\ writing' = [v \in Writers |-> writing'[v]]
      /\ \A v \in Writers \ {c} : writing'[v] = writing[v]
  BY <1>3, WritingStays
<1> DEFINE r == [run[c] EXCEPT !.outcome = outcome]
<1>5. r \in Runs /\ OnCourse(r) /\ r.outcome = outcome
  BY FailedIsRun DEF Outcomes
<1>6. run' = [run EXCEPT ![c] = r]
  BY <1>2
<1> HIDE DEF r
<1>7. RunInv' /\ (\A d \in Clients \ {c} : Untouched(d)) /\ run'[c] = r
  BY <1>1, <1>4, <1>5, <1>6, StoreMoves
<1>8. ~Running(c)'
  BY <1>5, <1>7 DEF Running
<1>9. TokenAhead(c)' \in 0..5 /\ StoreAhead(c)' \in 0..2
  BY DEF TokenAhead, StoreAhead
<1>10. PostsAhead(c) \in Nat /\ TokenAhead(c) \in 0..5
  BY CountIsNatural
<1>11. Ahead(c) = TokenAhead(c) + 8 * (PostsAhead(c) + 1) /\ Ahead(c)' = TokenAhead(c)' + StoreAhead(c)'
  BY <1>1, <1>8 DEF Ahead
<1>12. TokenAhead(c)' <= 5 /\ TokenAhead(c)' \in Int /\ StoreAhead(c)' <= 2 /\ StoreAhead(c)' \in Int
  BY <1>9
<1>13. Ahead(c)' < Ahead(c)
  BY <1>10, <1>11, <1>12
<1>14. QED
  BY <1>7, <1>13

\* Rename, then index: the store has two steps.
LEMMA FinishCounts ==
  ASSUME RunInv, VaultInv, NEW c \in Clients, Finish(c)
  PROVE  RunInv' /\ (\A d \in Clients \ {c} : Untouched(d)) /\ Ahead(c)' < Ahead(c)
<1>1. run[c].outcome = "storing" /\ want' = want /\ StoreStep(c)
  BY DEF Finish, tokenVars
<1>2. PICK outcome \in {"storing", "completed"} :
        run' = [run EXCEPT ![c] = [run[c] EXCEPT !.outcome = outcome]]
  <2>1. CASE writing'[c] = Nothing
    BY <2>1 DEF Finish
  <2>2. CASE writing'[c] # Nothing
    <3>1. run' = run
      BY <2>2 DEF Finish
    <3>2. run[c] \in Runs /\ run = [d \in Clients |-> run[d]]
      BY DEF RunInv
    <3>3. [run[c] EXCEPT !.outcome = "storing"] = run[c]
      BY <1>1, <3>2 DEF Runs
    <3>4. QED
      BY <3>1, <3>2, <3>3
  <2>3. QED
    BY <2>1, <2>2
<1>3. \E x : writing' = [writing EXCEPT ![c] = x]
  BY <1>1 DEF StoreStep, StoreRename, StoreIndex
<1>4. DOMAIN writing' = Writers /\ writing' = [v \in Writers |-> writing'[v]]
      /\ \A v \in Writers \ {c} : writing'[v] = writing[v]
  BY <1>3, WritingStays
<1> DEFINE r == [run[c] EXCEPT !.outcome = outcome]
<1>5. r \in Runs /\ OnCourse(r) /\ r.outcome = outcome
  BY FailedIsRun DEF Outcomes
<1>6. run' = [run EXCEPT ![c] = r]
  BY <1>2
<1> HIDE DEF r
<1>7. RunInv' /\ (\A d \in Clients \ {c} : Untouched(d)) /\ run'[c] = r
  BY <1>1, <1>4, <1>5, <1>6, StoreMoves
<1>8. ~Running(c) /\ ~Running(c)'
  BY <1>1, <1>5, <1>7 DEF Running
<1>9. TokenAhead(c)' = TokenAhead(c)
  BY <1>1, <1>8 DEF TokenAhead
<1>10. StoreAhead(c)' < StoreAhead(c)
  <2>1. c \in Writers
    BY ClientsWrite
  <2>2. CASE StoreRename(c)
    <3>1. PICK i \in Ids, at \in {"temporary", "renamed"} : \E env \in stored[i] :
             writing[c] = [id |-> i, env |-> env, at |-> at]
      BY <2>1, <2>2 DEF StoreRename, VaultInv
    <3>2. PICK env : writing[c] = [id |-> i, env |-> env, at |-> at]
      BY <3>1
    <3>3. writing'[c] = [writing[c] EXCEPT !.at = "renamed"]
      BY <2>1, <2>2 DEF StoreRename, VaultInv
    <3>4. writing'[c].at = "renamed"
      BY <3>2, <3>3
    <3>5. StoreAhead(c) = 2 /\ StoreAhead(c)' \in {0, 1}
      BY <2>2, <3>4 DEF StoreRename, StoreAhead
    <3>6. QED
      BY <3>5
  <2>3. CASE StoreIndex(c)
    <3>1. writing'[c] = Nothing
      BY <2>1, <2>3 DEF StoreIndex, VaultInv
    <3>2. StoreAhead(c) = 1 /\ StoreAhead(c)' = 0
      BY <2>3, <3>1 DEF StoreIndex, StoreAhead
    <3>3. QED
      BY <3>2
  <2>4. QED
    BY <1>1, <2>2, <2>3 DEF StoreStep
<1>11. StoreAhead(c)' \in 0..2 /\ StoreAhead(c) \in 0..2 /\ TokenAhead(c) \in 0..5
  BY DEF StoreAhead, TokenAhead
<1>12. Ahead(c) = TokenAhead(c) + StoreAhead(c) /\ Ahead(c)' = TokenAhead(c)' + StoreAhead(c)'
  BY <1>8 DEF Ahead
<1>13. Ahead(c)' < Ahead(c)
  BY <1>9, <1>10, <1>11, <1>12
<1>14. QED
  BY <1>7, <1>13

\* Whatever a collector does, it has less to do.
LEMMA StepsCount ==
  ASSUME RunInv, VaultInv, NEW c \in Clients, CollectorStep(c)
  PROVE  RunInv' /\ (\A d \in Clients \ {c} : Untouched(d)) /\ Ahead(c)' < Ahead(c)
<1>1. CASE UNCHANGED <<vaultVars, run>> /\ ((Running(c) /\ TokenStep(c)) \/ SaveStep(c))
  BY <1>1, TokenStepCounts
<1>2. CASE \E r \in Replies : Post(c, r)
  BY <1>2, PostCounts
<1>3. QED
  BY <1>1, <1>2, PostFailsCounts, StoreCounts, FinishCounts DEF CollectorStep


\* Death leaves nothing to do; what was half stored stays as it is.
LEMMA CrashCounts ==
  ASSUME RunInv, NEW c \in Clients, Crash(c)
  PROVE  RunInv' /\ \A d \in Clients : Ahead(d)' <= Ahead(d)
<1> DEFINE failed == [run[c] EXCEPT !.outcome = "failed"]
<1>1. failed \in Runs /\ OnCourse(failed) /\ failed.outcome = "failed"
  BY FailedIsRun DEF Outcomes
<1>2. run' = [run EXCEPT ![c] = failed] /\ want' = [want EXCEPT ![c] = Resting]
      /\ writing' = [writing EXCEPT ![c] = Nothing]
  BY DEF Crash, Fail
<1>3. DOMAIN writing' = Writers /\ writing' = [v \in Writers |-> writing'[v]]
      /\ \A v \in Writers \ {c} : writing'[v] = writing[v]
  BY <1>2, WritingStays
<1> HIDE DEF failed
<1>4. RunInv' /\ (\A d \in Clients \ {c} : Untouched(d)) /\ run'[c] = failed /\ want'[c].at = "idle"
  BY <1>1, <1>2, <1>3, RunMoves
<1>5. ~Running(c)' /\ writing'[c] = Nothing
  BY <1>1, <1>2, <1>4, ClientsWrite DEF Running, RunInv
<1>6. TokenAhead(c)' = 0 /\ StoreAhead(c)' = 0
  BY <1>4, <1>5 DEF TokenAhead, StoreAhead
<1>7. Ahead(c)' = 0
  BY <1>5, <1>6 DEF Ahead
<1>8. \A d \in Clients : Ahead(d) \in Nat
  BY CountIsNatural
<1>9. \A d \in Clients \ {c} : Ahead(d)' = Ahead(d)
  BY <1>4, UntouchedCountsTheSame
<1>10. QED
  BY <1>4, <1>7, <1>8, <1>9

\* A start is what adds work, to its own client.
LEMMA StartCounts ==
  ASSUME RunInv, NEW c \in Clients, NEW plan \in Plans, Start(c, plan)
  PROVE  RunInv' /\ \A d \in Clients \ {c} : Ahead(d)' = Ahead(d)
<1> DEFINE r == NewRun(plan)
<1>1. r \in Runs /\ OnCourse(r)
  BY PlansAreSeq, NewRunIsOnCourse
<1>2. run' = [run EXCEPT ![c] = r] /\ want' = want /\ writing' = writing
  BY DEF Start, vaultVars, tokenVars
<1>3. DOMAIN writing' = Writers /\ writing' = [v \in Writers |-> writing'[v]]
      /\ \A v \in Writers \ {c} : writing'[v] = writing[v]
  BY <1>2, WritingStays
<1> HIDE DEF r
<1>4. RunInv' /\ \A d \in Clients \ {c} : Untouched(d)
  BY <1>1, <1>2, <1>3, StoreMoves
<1>5. QED
  BY <1>4, UntouchedCountsTheSame

\* Time, the owner's login and the CLI child's collector touch no client.
LEMMA OthersCount ==
  ASSUME RunInv, Cli \notin Clients,
         \/ (Tick \/ LoginStep \/ SaveStep(Owner)) /\ UNCHANGED <<vaultVars, run>>
         \/ CliNext /\ UNCHANGED <<tokenVars, run>>
         \/ UNCHANGED <<directVars, cliVars>>
  PROVE  RunInv' /\ \A d \in Clients : Ahead(d)' = Ahead(d)
<1>1. run' = run
  BY DEF directVars
<1>2. /\ DOMAIN want' = Users /\ want' = [u \in Users |-> want'[u]]
      /\ \A d \in Clients : want'[d].at \in Stages /\ want'[d] = want[d]
  <2>1. CASE want' = want
    BY <2>1 DEF RunInv
  <2>2. ASSUME NEW at \in Stages, NEW held, NEW used, Set(Owner, at, held, used) PROVE <1>2
    <3>1. Owner \in Users
      BY DEF Users
    <3>2. /\ DOMAIN want' = Users /\ want' = [u \in Users |-> want'[u]]
          /\ \A d \in Clients : want'[d].at \in Stages
          /\ \A u \in Users \ {Owner} : want'[u] = want[u]
      BY <2>2, <3>1, SetMovesOne
    <3>3. QED
      BY <3>2, OwnerAssumption DEF Users
  <2>3. CASE want' = [want EXCEPT ![Owner] = Resting]
    BY <2>3, OwnerAssumption DEF RunInv, Users, Resting, Stages
  <2>4. CASE Tick \/ (CliNext /\ UNCHANGED <<tokenVars, run>>) \/ UNCHANGED <<directVars, cliVars>>
    <3>1. want' = want
      BY <2>4 DEF Tick, tokenVars, directVars
    <3>2. QED
      BY <2>1, <3>1
  <2>5. CASE Login \/ LoginFails \/ \E withRefresh, timed \in BOOLEAN : Callback(withRefresh, timed)
    <3>1. \E at \in Stages : \E held, used : Set(Owner, at, held, used)
      BY <2>5 DEF Login, LoginFails, Callback, Stages
    <3>2. QED
      BY <2>2, <3>1
  <2>6. CASE LoginAgain
    BY <2>3, <2>6 DEF LoginAgain
  <2>7. CASE SaveStep(Owner)
    <3>1. \E at \in Stages : \E held, used : Set(Owner, at, held, used)
      BY <2>7 DEF SaveStep, SaveTemporary, SaveRename, Abandon, Stages
    <3>2. QED
      BY <2>2, <3>1
  <2>8. CASE LoginStep
    BY <2>5, <2>6, <2>8 DEF LoginStep
  <2>9. \/ Tick \/ LoginStep \/ SaveStep(Owner)
        \/ CliNext /\ UNCHANGED <<tokenVars, run>>
        \/ UNCHANGED <<directVars, cliVars>>
    OBVIOUS
  <2>10. QED
    BY <2>4, <2>7, <2>8, <2>9
<1>3. \E x : writing' = writing \/ writing' = [writing EXCEPT ![Cli] = x]
  <2>1. CASE UNCHANGED vaultVars \/ UNCHANGED <<directVars, cliVars>>
    BY <2>1 DEF vaultVars, directVars
  <2>2. CASE CliNext
    <3>1. CASE \E times \in SUBSET Times, sensitive \in BOOLEAN :
                  HarvestAndStore(times, Received, sensitive)
      BY <3>1 DEF HarvestAndStore, StoreTemporary, vaultVars
    <3>2. CASE CliFinish
      BY <3>2 DEF CliFinish, StoreStep, StoreRename, StoreIndex
    <3>3. CASE CliCrash
      BY <3>3 DEF CliCrash
    <3>4. CASE Child /\ UNCHANGED vaultVars
      BY <3>4 DEF vaultVars
    <3>5. CASE \E i \in Ids, canonical \in BOOLEAN : EditInPlace(i, canonical) /\ UNCHANGED cliVars
      BY <3>5 DEF EditInPlace
    <3>6. QED
      BY <2>2, <3>1, <3>2, <3>3, <3>4, <3>5 DEF CliNext
  <2>3. QED
    BY <2>1, <2>2
<1>4. DOMAIN writing' = Writers /\ writing' = [v \in Writers |-> writing'[v]]
      /\ \A v \in Writers \ {Cli} : writing'[v] = writing[v]
  BY <1>3, WritingStays
<1>5. RunInv'
  BY <1>1, <1>2, <1>4 DEF RunInv
<1>6. \A d \in Clients : Untouched(d)
  BY <1>1, <1>2, <1>4, ClientsWrite DEF Untouched
<1>7. QED
  BY <1>5, <1>6, UntouchedCountsTheSame

LEMMA RunStarts == DirectInit => RunInv
<1>1. Handshake \in Seq(Names)
  BY PlansAreSeq
<1>2. NoRun \in Runs /\ OnCourse(NoRun)
  BY <1>1, NewRunIsOnCourse DEF NoRun, Runs, OnCourse, Outcomes
<1>3. Resting.at \in Stages
  BY DEF Resting, Stages
<1>4. QED
  BY <1>2, <1>3 DEF DirectInit, TokenInit, VaultInit, RunInv, Users

\* Why every run of a collector ends, for any number of collectors, any plan and
\* any caps: what it still has to do is counted by a natural number that each of
\* its own steps lowers and nothing but a new start ever raises, whatever the
\* server answers (run_direct_collector, token, store).
THEOREM RunsGetShorter ==
  ASSUME Cli \notin Clients
  PROVE  CollectionSpec => RunsShrink /\ [](\A c \in Clients : Ahead(c) \in Nat)
<1> DEFINE Shrinks == \A c \in Clients :
              /\ CollectorStep(c) => Ahead(c)' < Ahead(c)
              /\ Ahead(c)' > Ahead(c) => \E plan \in Plans : Start(c, plan)
           Counted == \A c \in Clients : Ahead(c) \in Nat
<1>1. DirectInit /\ CliInit => CollectionInv /\ RunInv
  BY RunStarts DEF DirectInit, VaultInit, TokenInit, CollectionInv, VaultInv
<1>2. RunInv => Counted
  BY CountIsNatural
<1>3. RunInv' => Counted'
  BY <1>2, PTL
<1>4. CollectionInv /\ [CollectionNext]_<<directVars, cliVars>> => CollectionInv'
  <2>1. CollectionInv /\ UNCHANGED <<directVars, cliVars>> => CollectionInv'
    BY QuietKeepsVault DEF directVars, vaultVars, tokenVars, CollectionInv
  <2>2. QED
    BY <2>1, DirectKeepsEvidence, CliKeepsEvidence DEF CollectionNext
<1>5. ASSUME CollectionInv, RunInv, [CollectionNext]_<<directVars, cliVars>> PROVE RunInv' /\ Shrinks
  <2>1. ASSUME NEW c \in Clients, CollectorStep(c)
        PROVE  RunInv' /\ (\A d \in Clients \ {c} : Ahead(d)' = Ahead(d)) /\ Ahead(c)' < Ahead(c)
    BY <1>5, <2>1, StepsCount, UntouchedCountsTheSame DEF CollectionInv
  <2>2. \A c \in Clients : Ahead(c) \in Nat
    BY <1>2, <1>5
  <2>3. ASSUME NEW c \in Clients, NEW plan \in Plans, Start(c, plan)
        PROVE  RunInv' /\ \A d \in Clients \ {c} : Ahead(d)' = Ahead(d)
    BY <1>5, <2>3, StartCounts
  <2>4. ASSUME NEW c \in Clients, Crash(c) PROVE RunInv' /\ \A d \in Clients : Ahead(d)' <= Ahead(d)
    BY <1>5, <2>4, CrashCounts
  <2>5. CASE \E c \in Clients : \E plan \in Plans : Start(c, plan)
    <3>1. PICK c \in Clients, plan \in Plans : Start(c, plan)
      BY <2>5
    <3>2. RunInv' /\ \A d \in Clients \ {c} : Ahead(d)' = Ahead(d)
      BY <2>3, <3>1
    <3>3. \A d \in Clients : Ahead(d)' > Ahead(d) => d = c
      BY <2>2, <3>2
    <3>4. QED
      BY <2>1, <3>1, <3>2, <3>3
  <2>6. CASE \E c \in Clients : CollectorStep(c)
    <3>1. PICK c \in Clients : CollectorStep(c)
      BY <2>6
    <3>2. RunInv' /\ (\A d \in Clients \ {c} : Ahead(d)' = Ahead(d)) /\ Ahead(c)' < Ahead(c)
      BY <2>1, <3>1
    <3>3. \A d \in Clients : ~(Ahead(d)' > Ahead(d))
      BY <1>3, <2>2, <3>2
    <3>4. QED
      BY <2>1, <3>2, <3>3
  <2>7. CASE \E c \in Clients : Crash(c)
    <3>1. RunInv' /\ \A d \in Clients : Ahead(d)' <= Ahead(d)
      BY <2>4, <2>7
    <3>2. \A d \in Clients : ~(Ahead(d)' > Ahead(d))
      BY <1>3, <2>2, <3>1
    <3>3. QED
      BY <2>1, <3>1, <3>2
  <2>8. CASE \/ (Tick \/ LoginStep \/ SaveStep(Owner)) /\ UNCHANGED <<vaultVars, run>>
             \/ CliNext /\ UNCHANGED <<tokenVars, run>>
             \/ UNCHANGED <<directVars, cliVars>>
    <3>1. RunInv' /\ \A d \in Clients : Ahead(d)' = Ahead(d)
      BY <1>5, <2>8, OthersCount
    <3>2. \A d \in Clients : ~(Ahead(d)' > Ahead(d))
      BY <2>2, <3>1
    <3>3. QED
      BY <2>1, <3>1, <3>2
  <2>9. QED
    BY <1>5, <2>5, <2>6, <2>7, <2>8 DEF CollectionNext, DirectNext
<1>6. CollectionInv /\ RunInv /\ [CollectionNext]_<<directVars, cliVars>> => [Shrinks]_directVars
  BY <1>5
<1>7. CollectionInv /\ RunInv /\ [CollectionNext]_<<directVars, cliVars>> => (CollectionInv /\ RunInv)'
  BY <1>4, <1>5
<1> HIDE DEF Shrinks, Counted
<1>8. CollectionSpec => [][Shrinks]_directVars /\ []Counted
  BY <1>1, <1>2, <1>6, <1>7, PTL DEF CollectionSpec
<1>9. QED
  BY <1>8 DEF Shrinks, Counted, RunsShrink
=============================================================================
