------------------------------ MODULE TokenCache ------------------------------
(***************************************************************************)
(* execution/mcp_oauth.py and scripts/mcp_oauth_login.py: the OAuth tokens  *)
(* in state/secrets, used by unattended runs that refresh them and never    *)
(* open a browser, and replaced by the owner's interactive login.           *)
(* The authorization server is external: it honours one refresh token per   *)
(* grant and may rotate it at every use.  A reply may be lost, a process    *)
(* may die between the server's answer and the rename of the cache file.    *)
(***************************************************************************)
EXTENDS Integers, FiniteSets

CONSTANTS Clients,     \* processes that ask for a token
          Owner,       \* the interactive login
          Lifetime,    \* of an access token
          Skew,        \* _EXPIRY_SKEW_SECONDS
          MaxTime, MaxIssued,   \* bounds: the clock, tokens issued
          NoToken

Answers ==   \* what the server may have answered
    [refresh : 1..MaxIssued \cup {NoToken}, issuedAt : 0..MaxTime,
     expires : 0..(MaxTime + Lifetime) \cup {NoToken}]

ASSUME SkewAssumption == Skew \in Nat /\ Lifetime \in Nat /\ Skew < Lifetime
ASSUME OwnerAssumption == Owner \notin Clients    \* the login is a process of its own
ASSUME TokenAssumption ==
    /\ MaxTime \in Nat /\ MaxIssued \in Nat
    /\ NoToken \notin Int /\ \A answer \in Answers : NoToken # answer

VARIABLES clock,
          issued,      \* tokens the server has issued so far
          live,        \* refresh tokens the server honours
          cache,       \* NoToken or [refresh, issuedAt, expires]
          temp,        \* the one .tmp file beside the cache
          want,        \* [Clients \cup {Owner} -> progress of token() or login]
          rotates,     \* the server's policy: a refresh replaces its token
          lost         \* history: rotated tokens whose successor was not saved

tokenVars == <<clock, issued, live, cache, temp, want, rotates, lost>>

Users == Clients \cup {Owner}
Resting == [at |-> "idle", held |-> NoToken, used |-> NoToken]

\* An unreadable cache file counts as no cache (TokenCache.load).
TokenInit ==
    /\ clock = 0 /\ issued = 0 /\ live = {} /\ lost = {}
    /\ cache = NoToken /\ temp = NoToken
    /\ want = [u \in Users |-> Resting]
    /\ rotates \in BOOLEAN

Tick == /\ clock < MaxTime
        /\ clock' = clock + 1
        /\ UNCHANGED <<issued, live, cache, temp, want, rotates, lost>>

\* TokenSet.expired: an unknown lifetime never expires.
Expired(token) == token.expires # NoToken /\ clock >= token.expires - Skew

\* The server's own clock; the reply may have left out expires_in.
Accepts(token) == clock < token.issuedAt + Lifetime

Set(u, at, held, used) ==
    want' = [want EXCEPT ![u] = [at |-> at, held |-> held, used |-> used]]

\* token(): a fresh token is returned, an expired one with a refresh token is
\* refreshed, everything else is OAUTH_INTERACTIVE_REQUIRED.
AskToken(c) ==
    /\ want[c].at = "idle"
    /\ IF cache = NoToken THEN Set(c, "refused", NoToken, NoToken)
       ELSE IF ~Expired(cache) THEN Set(c, "granted", cache, NoToken)
       ELSE IF cache.refresh = NoToken THEN Set(c, "refused", NoToken, NoToken)
       ELSE Set(c, "refresh", NoToken, cache.refresh)
    /\ UNCHANGED <<clock, issued, live, cache, temp, rotates, lost>>

\* What the server puts into an answer.  It may omit the lifetime; when it
\* omits the refresh token, the client keeps the one it used.
Answer(refresh, timed) ==
    [refresh |-> refresh, issuedAt |-> clock,
     expires |-> IF timed THEN clock + Lifetime ELSE NoToken]

\* refresh: the server's answer reaches the client.
Refresh(c, timed) ==
    /\ want[c].at = "refresh"
    /\ issued < MaxIssued
    /\ want[c].used \in live
    /\ issued' = issued + 1
    /\ live' = IF rotates THEN (live \ {want[c].used}) \cup {issued + 1} ELSE live
    /\ Set(c, "save",
           Answer(IF rotates THEN issued + 1 ELSE want[c].used, timed), want[c].used)
    /\ UNCHANGED <<clock, cache, temp, rotates, lost>>

\* The server has rotated the token, its answer does not arrive.
RefreshLost(c) ==
    /\ want[c].at = "refresh"
    /\ issued < MaxIssued
    /\ rotates /\ want[c].used \in live
    /\ issued' = issued + 1
    /\ live' = (live \ {want[c].used}) \cup {issued + 1}
    /\ lost' = lost \cup {want[c].used}
    /\ Set(c, "refused", NoToken, NoToken)
    /\ UNCHANGED <<clock, cache, temp, rotates>>

\* The server refuses the refresh token, or is not reached.
RefreshRefused(c) ==
    /\ want[c].at = "refresh"
    /\ Set(c, "refused", NoToken, NoToken)
    /\ UNCHANGED <<clock, issued, live, cache, temp, rotates, lost>>

\* save: the temporary file, then the rename.
SaveTemporary(u) ==
    /\ want[u].at = "save"
    /\ temp' = want[u].held
    /\ Set(u, "rename", want[u].held, want[u].used)
    /\ UNCHANGED <<clock, issued, live, cache, rotates, lost>>

MutantSaveRename(u) ==
    /\ want[u].at = "rename"
    /\ cache' = IF temp = NoToken THEN cache
                ELSE [temp EXCEPT !.refresh =
                        IF want[u].used # NoToken THEN want[u].used ELSE @]
    /\ temp' = NoToken
    /\ Set(u, "granted", want[u].held, NoToken)
    /\ UNCHANGED <<clock, issued, live, rotates, lost>>

\* Another writer may have put its tokens into the file, or renamed it away:
\* then the rename fails after the server has answered.
SaveRename(u) ==
    /\ want[u].at = "rename"
    /\ IF temp # NoToken
       THEN cache' = temp /\ Set(u, "granted", want[u].held, NoToken)
       ELSE UNCHANGED cache /\ Set(u, "refused", NoToken, NoToken)
    /\ temp' = NoToken
    /\ UNCHANGED <<clock, issued, live, rotates, lost>>

\* The process dies; what it was about to save is gone with it.
Abandon(u) ==
    /\ want[u].at \in {"save", "rename"}
    /\ lost' = lost \cup ({want[u].used} \ {NoToken})
    /\ Set(u, "refused", NoToken, NoToken)
    /\ UNCHANGED <<clock, issued, live, cache, temp, rotates>>

\* mcp_oauth_login: metadata, a registered client, the browser.
Login ==
    /\ want[Owner].at = "idle"
    /\ Set(Owner, "consent", NoToken, NoToken)
    /\ UNCHANGED <<clock, issued, live, cache, temp, rotates, lost>>

\* The loopback server takes one request: a code with the right state is
\* exchanged for a new grant (which may come without a refresh token).
Callback(withRefresh, timed) ==
    /\ want[Owner].at = "consent"
    /\ issued < MaxIssued
    /\ issued' = issued + 1
    /\ live' = IF withRefresh THEN live \cup {issued + 1} ELSE live
    /\ Set(Owner, "save",
           Answer(IF withRefresh THEN issued + 1 ELSE NoToken, timed), NoToken)
    /\ UNCHANGED <<clock, cache, temp, rotates, lost>>

\* Any other first request, five minutes without one, or a refused exchange.
LoginFails ==
    /\ want[Owner].at = "consent"
    /\ Set(Owner, "refused", NoToken, NoToken)
    /\ UNCHANGED <<clock, issued, live, cache, temp, rotates, lost>>

\* The owner runs the script again.
LoginAgain ==
    /\ want[Owner].at \in {"granted", "refused"}
    /\ want' = [want EXCEPT ![Owner] = Resting]
    /\ UNCHANGED <<clock, issued, live, cache, temp, rotates, lost>>

TokenStep(u) ==
    \/ AskToken(u)
    \/ \E timed \in BOOLEAN : Refresh(u, timed)
    \/ RefreshLost(u) \/ RefreshRefused(u)

SaveStep(u) == SaveTemporary(u) \/ SaveRename(u) \/ Abandon(u)

LoginStep ==
    \/ Login \/ LoginFails \/ LoginAgain
    \/ \E withRefresh, timed \in BOOLEAN : Callback(withRefresh, timed)

\* The caller has used what it got, or given up; its next call may follow.
NextCall(c) ==
    /\ want[c].at \in {"granted", "refused"}
    /\ want' = [want EXCEPT ![c] = Resting]
    /\ UNCHANGED <<clock, issued, live, cache, temp, rotates, lost>>

TokenNext ==
    \/ Tick
    \/ LoginStep
    \/ \E c \in Clients : TokenStep(c) \/ NextCall(c)
    \/ \E u \in Users : SaveStep(u)

TokenSpec == TokenInit /\ [][TokenNext]_tokenVars

-----------------------------------------------------------------------------
\* The refresh token on disk is the one the server honours, whoever else
\* refreshes or logs in at the same time: only a process that is still to save
\* the successor, an answer lost on the way or a death before the rename can
\* leave a dead one there (mcp_oauth.py token, refresh, save).
CacheHoldsLiveToken ==
    (cache # NoToken /\ cache.refresh # NoToken) =>
        \/ cache.refresh \in live \cup lost
        \/ \E c \in Clients : /\ want[c].at \in {"save", "rename"}
                              /\ want[c].used = cache.refresh
=============================================================================
