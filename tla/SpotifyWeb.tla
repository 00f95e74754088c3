------------------------------ MODULE SpotifyWeb ------------------------------
(***************************************************************************)
(* The Spotify provider's tokens, authorization and web requests           *)
(* (internal/providers/spotify: token.go, auth.go, api.go, spotify.go).    *)
(*                                                                         *)
(* Workers are the goroutines of the clients' connections, one for each    *)
(* request, and those of the handlers of the authorization's callbacks.    *)
(* All of them refresh, store and read the same tokens; each critical      *)
(* section of tokenStore.mu is a step, except save's, which truncates the  *)
(* file, writes it, and only then changes memory.  A grant of the accounts *)
(* service is a number; it names the access and the refresh token issued   *)
(* with it, 0 is "".  Its answers of success hold an access token.         *)
(***************************************************************************)
EXTENDS Integers, FiniteSets

CONSTANTS
  NoTokens,      \* tokenStore.tokens = nil, no file
  Torn,          \* a file that does not decode
  MaxRequests, MaxCallbacks, MaxGrants,  \* bounds
  MaxTroubles    \* bound: tokens that age, calls and saves that fail, restarts

ASSUME SpotifyAssumption ==
  /\ {MaxRequests, MaxCallbacks, MaxGrants, MaxTroubles} \subseteq Nat
  /\ MaxGrants > 0

VARIABLES
  worker,      \* the goroutines
  tokens, file, storeLock,
  saveLost,    \* history: the last save that truncated the file did not complete it
  flow,        \* the authorizations: listening or not, and their channel done
  stale, dead, \* access tokens past ExpiresAt, and those the API answers with 401
  live,        \* refresh tokens that the accounts service accepts
  issued,      \* grants so far
  library,     \* whether the track is saved
  requests, callbacks, troubles,  \* counters of the bounds
  mishap,      \* history: an answer or a save was lost, or two stores overlapped
  toggles      \* history: likes answered by the web API; -1 once they overlapped
               \* with another or went another way

storeVars   == <<tokens, file, storeLock, saveLost>>
serviceVars == <<stale, dead, live, issued>>
countVars   == <<requests, callbacks, troubles>>
historyVars == <<mishap, toggles>>
spotifyVars == <<worker, storeVars, flow, serviceVars, library, countVars, historyVars>>

Requests == 1 .. MaxRequests
Handlers == MaxRequests + 1 .. MaxRequests + MaxCallbacks
Workers  == Requests \cup Handlers
Grants   == 0 .. MaxGrants
Token    == [access : Grants, refresh : Grants]
Nothing  == [access |-> 0, refresh |-> 0]

\* nil is not a token, and what is torn does not decode to one.
ASSUME StoreAssumption == NoTokens \notin Token /\ Torn \notin Token \cup {NoTokens}

Idle     == [pc |-> "idle", op |-> "none", tok |-> 0, grant |-> Nothing,
             again |-> FALSE, flow |-> 0, ok |-> FALSE]

SpotifyInit ==
  /\ worker = [w \in Workers |-> Idle]
  /\ tokens \in {NoTokens, [access |-> 1, refresh |-> 1]}
  /\ file = tokens
  /\ storeLock = 0 /\ saveLost = FALSE
  /\ flow = [f \in Requests |-> [open |-> FALSE, done |-> "", late |-> FALSE]]
  /\ stale = {} /\ dead = {} /\ live = {1} /\ issued = 1
  /\ library = FALSE
  /\ requests = 0 /\ callbacks = 0 /\ troubles = 0
  /\ mishap = FALSE /\ toggles = 0

-----------------------------------------------------------------------------
Trouble == troubles < MaxTroubles /\ troubles' = troubles + 1

Goto(w, pc) == worker' = [worker EXCEPT ![w].pc = pc]

\* The tokens can be read or written.
Readable == storeLock = 0

\* Workers with tokens that the service has issued and the store has not yet.
Storing == {w \in Workers : worker[w].pc \in {"store", "save", "written", "assign"}}

\* Workers in the middle of save, where they hold the lock.
Saving == {w \in Workers : worker[w].pc \in {"written", "assign"}}

\* A request that fails: like and play go on with a script, search does not.
AfterFailure(w) ==
  IF worker[w].op \in {"contains", "change", "play"} THEN [worker[w] EXCEPT !.pc = "script"]
  ELSE Idle
Fail(w) == worker' = [worker EXCEPT ![w] = AfterFailure(w)]

\* PlayURI and LikeToggle run a script without tokens, LikeToggle also without a
\* track; search and auth.start ask for neither.
FirstStep(op) ==
  CASE op = "auth"   -> {"bind"}
    [] op = "search" -> {"ensure"}
    [] op = "play"   -> {IF tokens = NoTokens THEN "script" ELSE "ensure"}
    [] OTHER         -> {"script"} \cup IF tokens = NoTokens THEN {} ELSE {"ensure"}

WebRequest ==
  /\ requests < MaxRequests
  /\ Readable
  /\ requests' = requests + 1
  /\ \E op \in {"search", "play", "contains", "auth"} :
       /\ \E pc \in FirstStep(op) :
            worker' = [worker EXCEPT ![requests'] = [Idle EXCEPT !.op = op, !.pc = pc]]
       /\ toggles' = IF op = "contains" /\ \E c \in Requests :
                           worker[c].op \in {"contains", "change"}
                     THEN -1 ELSE toggles
  /\ UNCHANGED <<storeVars, flow, serviceVars, library, callbacks, troubles, mishap>>

-----------------------------------------------------------------------------
(* apiClient.request.                                                      *)

EnsureToken(c) ==
  /\ worker[c].pc = "ensure"
  /\ Readable
  /\ IF tokens = NoTokens THEN Fail(c)
     ELSE Goto(c, IF tokens.access \in stale THEN "refresh" ELSE "token")
  /\ UNCHANGED <<storeVars, flow, serviceVars, library, countVars, historyVars>>

AccessToken(c) ==
  /\ worker[c].pc = "token"
  /\ Readable
  /\ worker' = [worker EXCEPT ![c].pc = "send", ![c].tok = tokens.access]
  /\ UNCHANGED <<storeVars, flow, serviceVars, library, countVars, historyVars>>

RefreshToken(c) ==
  /\ worker[c].pc = "refresh"
  /\ Readable
  /\ IF tokens.refresh = 0 THEN Fail(c)
     ELSE worker' = [worker EXCEPT ![c].pc = "post", ![c].tok = tokens.refresh]
  /\ UNCHANGED <<storeVars, flow, serviceVars, library, countVars, historyVars>>

\* The service answers with an access token and, if it wants to, a refresh token
\* that replaces the one it was asked with.
RefreshAnswered(c) ==
  /\ worker[c].pc = "post"
  /\ worker[c].tok \in live
  /\ issued < MaxGrants
  /\ issued' = issued + 1
  /\ \E rotates \in BOOLEAN :
       /\ live' = IF rotates THEN (live \ {worker[c].tok}) \cup {issued'} ELSE live
       /\ worker' = [worker EXCEPT ![c].pc = "store", ![c].tok = 0,
                       ![c].grant = [access |-> issued', refresh |-> IF rotates THEN issued' ELSE 0]]
  /\ mishap' = (mishap \/ Storing # {})
  /\ UNCHANGED <<storeVars, flow, stale, dead, library, countVars, toggles>>

\* invalid_grant; the service issues MaxGrants grants at most.
RefreshRefused(c) ==
  /\ worker[c].pc = "post"
  /\ worker[c].tok \notin live \/ issued = MaxGrants
  /\ Fail(c)
  /\ UNCHANGED <<storeVars, flow, serviceVars, library, countVars, historyVars>>

\* The answer is lost, or none comes in 10 s; what was asked for may be done.
RefreshLost(c) ==
  /\ worker[c].pc = "post"
  /\ Trouble
  /\ \/ /\ worker[c].tok \in live /\ issued < MaxGrants
        /\ issued' = issued + 1
        /\ live' = (live \ {worker[c].tok}) \cup {issued'}
        /\ mishap' = TRUE
     \/ UNCHANGED <<live, issued, mishap>>
  /\ Fail(c)
  /\ UNCHANGED <<storeVars, flow, stale, dead, library, requests, callbacks, toggles>>

\* Mutant: the refresh token is the one that is stored already, if there is one.
StoreOldFirst(w) ==
  /\ worker[w].pc = "store"
  /\ Readable
  /\ worker' = [worker EXCEPT ![w].pc = "save",
       ![w].grant.refresh = IF tokens # NoTokens THEN tokens.refresh ELSE @]
  /\ UNCHANGED <<storeVars, flow, serviceVars, library, countVars, historyVars>>

\* tokenStore.store: the refresh token is the one it has if none was sent.
Store(w) ==
  /\ worker[w].pc = "store"
  /\ Readable
  /\ worker' = [worker EXCEPT ![w].pc = "save",
       ![w].grant.refresh = IF @ = 0 /\ tokens # NoTokens THEN tokens.refresh ELSE @]
  /\ UNCHANGED <<storeVars, flow, serviceVars, library, countVars, historyVars>>

\* Mutant: the lock is taken for the assignment only, the file is written without.
SaveBeginUnlocked(w) ==
  /\ worker[w].pc = "save"
  /\ file' = Torn
  /\ Goto(w, "written")
  /\ UNCHANGED <<tokens, storeLock, saveLost, flow, serviceVars, library, countVars, historyVars>>

\* tokenStore.save holds the lock from here on, and truncates the file.
SaveBegin(w) ==
  /\ worker[w].pc = "save"
  /\ Readable
  /\ storeLock' = w
  /\ file' = Torn
  /\ Goto(w, "written")
  /\ UNCHANGED <<tokens, saveLost, flow, serviceVars, library, countVars, historyVars>>

FileWritten(w) ==
  /\ worker[w].pc = "written"
  /\ file' = worker[w].grant
  /\ Goto(w, "assign")
  /\ UNCHANGED <<tokens, storeLock, saveLost, flow, serviceVars, library, countVars, historyVars>>

\* The request goes on with the stored token, the callback reports success.
AfterSave(w) ==
  worker' = [worker EXCEPT ![w].pc = IF w \in Handlers THEN "result" ELSE "token",
                           ![w].grant = Nothing]

SaveEnd(w) ==
  /\ worker[w].pc = "assign"
  /\ storeLock' = 0
  /\ tokens' = worker[w].grant
  /\ saveLost' = FALSE
  /\ AfterSave(w)
  /\ UNCHANGED <<file, flow, serviceVars, library, countVars, historyVars>>

\* Mutant: the lock is not released when the file cannot be written.
SaveFailsLocked(w) ==
  /\ worker[w].pc = "written"
  /\ Trouble
  /\ saveLost' = TRUE
  /\ mishap' = TRUE
  /\ AfterSave(w)
  /\ UNCHANGED <<tokens, file, storeLock, flow, serviceVars, library, requests, callbacks, toggles>>

\* The file cannot be completed.  The error of save is ignored.
SaveFails(w) ==
  /\ worker[w].pc = "written"
  /\ Trouble
  /\ storeLock' = 0
  /\ saveLost' = TRUE
  /\ mishap' = TRUE
  /\ AfterSave(w)
  /\ UNCHANGED <<tokens, file, flow, serviceVars, library, requests, callbacks, toggles>>

\* The directory or the file cannot be opened, and nothing is truncated.
SaveRefused(w) ==
  /\ worker[w].pc = "save"
  /\ Readable
  /\ Trouble
  /\ mishap' = TRUE
  /\ AfterSave(w)
  /\ UNCHANGED <<storeVars, flow, serviceVars, library, requests, callbacks, toggles>>

-----------------------------------------------------------------------------
(* The request itself.                                                     *)

Unauthorized(c) ==
  /\ worker[c].pc = "send"
  /\ worker[c].tok \in dead
  /\ IF worker[c].again THEN Fail(c)
     ELSE worker' = [worker EXCEPT ![c].pc = "refresh", ![c].again = TRUE]
  /\ UNCHANGED <<storeVars, flow, serviceVars, library, countVars, historyVars>>

\* Mutant: the second request saves the track, whatever the first one found.
RequestAnsweredSaves(c) ==
  /\ worker[c].pc = "send"
  /\ worker[c].tok \notin dead
  /\ worker' = [worker EXCEPT ![c] =
       IF @.op = "contains"
       THEN [@ EXCEPT !.pc = "ensure", !.op = "change", !.again = FALSE]
       ELSE Idle]
  /\ IF worker[c].op = "change"
     THEN library' = ~worker[c].ok /\ toggles' = IF toggles < 0 THEN toggles ELSE toggles + 1
     ELSE UNCHANGED <<library, toggles>>
  /\ UNCHANGED <<storeVars, flow, serviceVars, countVars, mishap>>

\* LikeToggle's second request does the opposite of what the first one found.
RequestAnswered(c) ==
  /\ worker[c].pc = "send"
  /\ worker[c].tok \notin dead
  /\ worker' = [worker EXCEPT ![c] =
       IF @.op = "contains"
       THEN [@ EXCEPT !.pc = "ensure", !.op = "change", !.ok = library, !.again = FALSE]
       ELSE Idle]
  /\ IF worker[c].op = "change"
     THEN library' = ~worker[c].ok /\ toggles' = IF toggles < 0 THEN toggles ELSE toggles + 1
     ELSE UNCHANGED <<library, toggles>>
  /\ UNCHANGED <<storeVars, flow, serviceVars, countVars, mishap>>

RequestLost(c) ==
  /\ worker[c].pc = "send"
  /\ Trouble
  /\ library' \in IF worker[c].op = "change" THEN {library, ~worker[c].ok} ELSE {library}
  /\ Fail(c)
  /\ toggles' = IF worker[c].op = "change" THEN -1 ELSE toggles
  /\ UNCHANGED <<storeVars, flow, serviceVars, requests, callbacks, mishap>>

\* osascript: "play track", or the menu item "Like", whatever that does.
Script(c) ==
  /\ worker[c].pc = "script"
  /\ worker' = [worker EXCEPT ![c] = Idle]
  /\ IF worker[c].op = "play" THEN UNCHANGED <<library, toggles>>
     ELSE library' \in BOOLEAN /\ toggles' = -1
  /\ UNCHANGED <<storeVars, flow, serviceVars, countVars, mishap>>

-----------------------------------------------------------------------------
(* authFlow.startAndWait; flow f is that of request f.                     *)

BindCallback(c) ==
  /\ worker[c].pc = "bind"
  /\ IF \E f \in DOMAIN flow : flow[f].open
     THEN worker' = [worker EXCEPT ![c] = Idle] /\ UNCHANGED flow
     ELSE Goto(c, "wait") /\ flow' = [flow EXCEPT ![c].open = TRUE]
  /\ UNCHANGED <<storeVars, serviceVars, library, countVars, historyVars>>

\* The browser comes back: with a code, or with another state or an error.
Callback ==
  /\ callbacks < MaxCallbacks
  /\ callbacks' = callbacks + 1
  /\ \E f \in DOMAIN flow, pc \in {"exchange", "result"} :
       /\ flow[f].open
       /\ worker' = [worker EXCEPT ![MaxRequests + callbacks'] = [Idle EXCEPT !.pc = pc, !.flow = f]]
  /\ UNCHANGED <<storeVars, flow, serviceVars, library, requests, troubles,
                 historyVars>>

ExchangeAnswered(h) ==
  /\ worker[h].pc = "exchange"
  /\ issued < MaxGrants
  /\ issued' = issued + 1
  /\ live' = live \cup {issued'}
  /\ worker' = [worker EXCEPT ![h].pc = "store", ![h].ok = TRUE,
                              ![h].grant = [access |-> issued', refresh |-> issued']]
  /\ mishap' = (mishap \/ Storing # {})
  /\ UNCHANGED <<storeVars, flow, stale, dead, library, countVars, toggles>>

ExchangeFails(h) ==
  /\ worker[h].pc = "exchange"
  /\ Goto(h, "result")
  /\ UNCHANGED <<storeVars, flow, serviceVars, library, countVars, historyVars>>

\* Mutant: done has no room, a handler waits until its result is received.
CallbackResultUnbuffered(h) ==
  /\ worker[h].pc = "result"
  /\ flow[worker[h].flow].open /\ flow[worker[h].flow].done = ""
  /\ flow' = [flow EXCEPT ![worker[h].flow].done = IF worker[h].ok THEN "ok" ELSE "error"]
  /\ Goto(h, "over")
  /\ UNCHANGED <<storeVars, serviceVars, library, countVars, historyVars>>

\* done has room for one result; a handler waits while it is there.
CallbackResult(h) ==
  /\ worker[h].pc = "result"
  /\ flow[worker[h].flow].done = ""
  /\ flow' = [flow EXCEPT ![worker[h].flow].done = IF worker[h].ok THEN "ok" ELSE "error"]
  /\ Goto(h, "over")
  /\ UNCHANGED <<storeVars, serviceVars, library, countVars, historyVars>>

\* The answer of auth.start; the callback server is closed.
AuthReturns(c) ==
  /\ worker[c].pc = "wait"
  /\ flow[c].done # ""
  /\ flow' = [flow EXCEPT ![c].done = "", ![c].open = FALSE]
  /\ worker' = [worker EXCEPT ![c] = Idle]
  /\ UNCHANGED <<storeVars, serviceVars, library, countVars, historyVars>>

AuthTimesOut(c) ==
  /\ worker[c].pc = "wait"
  /\ flow' = [flow EXCEPT ![c].open = FALSE, ![c].late = TRUE]
  /\ worker' = [worker EXCEPT ![c] = Idle]
  /\ UNCHANGED <<storeVars, serviceVars, library, countVars, historyVars>>

-----------------------------------------------------------------------------
(* The world.                                                              *)

\* An access token expires, for the store (60 s early), or for the API.
TokenAges ==
  /\ Trouble
  /\ \E g \in 1 .. issued :
       \/ g \notin stale /\ stale' = stale \cup {g} /\ UNCHANGED dead
       \/ g \notin dead /\ dead' = dead \cup {g} /\ UNCHANGED stale
  /\ UNCHANGED <<worker, storeVars, flow, live, issued, library, requests, callbacks,
                 historyVars>>

\* The daemon dies at any moment; New loads the file.
Restart ==
  /\ Trouble
  /\ worker' = [w \in Workers |-> Idle]
  /\ flow' = [f \in DOMAIN flow |-> [open |-> FALSE, done |-> "", late |-> FALSE]]
  /\ storeLock' = 0
  /\ tokens' = IF file \in {NoTokens, Torn} THEN NoTokens ELSE file
  /\ saveLost' = (file = Torn)
  /\ mishap' = (mishap \/ Storing # {})
  /\ toggles' = IF \E c \in Requests : worker[c].op \in {"contains", "change"} THEN -1
                ELSE toggles
  /\ UNCHANGED <<file, serviceVars, library, requests, callbacks>>

-----------------------------------------------------------------------------
StoreStep(w) ==
  Store(w) \/ SaveBegin(w) \/ FileWritten(w) \/ SaveEnd(w) \/ SaveFails(w) \/ SaveRefused(w)
ClientStep(c) ==
  \/ EnsureToken(c) \/ AccessToken(c) \/ RefreshToken(c)
  \/ RefreshAnswered(c) \/ RefreshRefused(c) \/ RefreshLost(c)
  \/ Unauthorized(c) \/ RequestAnswered(c) \/ RequestLost(c) \/ Script(c)
  \/ BindCallback(c) \/ AuthReturns(c) \/ AuthTimesOut(c)
HandlerStep(h) == ExchangeAnswered(h) \/ ExchangeFails(h) \/ CallbackResult(h)
WorkerStep(w) ==
  \/ w \in Requests /\ ClientStep(w)
  \/ w \in Handlers /\ HandlerStep(w)
  \/ StoreStep(w)

SpotifyNext ==
  \/ WebRequest
  \/ \E w \in Workers : WorkerStep(w)
  \/ Callback \/ TokenAges \/ Restart

\* Goroutines and scripts go on, nobody holds the mutex for ever, and the requests
\* of apiClient end by their timeout; that of exchangeCode has none.
SpotifyFairness ==
  \A w \in Workers : WF_spotifyVars(worker[w].pc # "exchange" /\ WorkerStep(w))

SpotifySpec == SpotifyInit /\ [][SpotifyNext]_spotifyVars
FairSpotifySpec == SpotifySpec /\ SpotifyFairness

-----------------------------------------------------------------------------
(* Properties.                                                             *)

\* Types; and exactly the worker in the middle of save holds the lock of the tokens.
SpotifyTypeOK ==
  /\ \A w \in Workers :
       /\ worker[w].tok \in Grants /\ worker[w].grant \in Token
       /\ (storeLock = w) = (w \in Saving)
       /\ w \in Handlers => worker[w].pc \in
            {"idle", "exchange", "store", "save", "written", "assign", "result", "over"}
  /\ tokens \in Token \cup {NoTokens}
  /\ file \in Token \cup {NoTokens, Torn}
  /\ live \subseteq 1 .. issued /\ stale \subseteq 1 .. issued /\ dead \subseteq 1 .. issued
  /\ issued \in 1 .. MaxGrants
  /\ Cardinality({f \in DOMAIN flow : flow[f].open}) <= 1

\* Whoever refreshes, authorizes and retries at once, the user stays logged in: the
\* stored refresh token is one the service accepts (token.go:112, api.go:82), unless
\* an answer or a save was lost, or two workers stored at once.
NotLockedOut ==
  ~mishap /\ Storing = {} /\ tokens # NoTokens => tokens.refresh \in live

\* The file and memory change together, however the stores of refreshes and callbacks
\* overlap, whatever answers are lost and whenever the daemon restarts: when nobody is
\* saving, the file holds exactly the tokens in memory (token.go:55 to 77, 112 to 126),
\* and it is torn if and only if the last save that truncated it was cut short.
FileKeepsUp ==
  Saving = {} => IF saveLost THEN file = Torn ELSE file = tokens

\* An even number of likes leaves the track as it was (spotify.go:206), if each
\* was answered by the web API and they did not overlap.
LikesToggle == toggles >= 0 => library = (toggles % 2 = 1)

\* In the end every request is answered, and every callback's handler whose exchange
\* is answered ends (auth.go:63), as long as its flow got one callback, or two of
\* which it waited for one.
Surplus(f) ==
  LET all == {h \in Handlers : worker[h].pc # "idle" /\ worker[h].flow = f}
  IN  Cardinality(all) > IF flow[f].late THEN 1 ELSE 2
WebRequestsEnd ==
  <>[] /\ \A c \in Requests : worker[c].pc = "idle"
       /\ \A h \in Handlers : worker[h].pc \in {"idle", "exchange", "over"}
                                \/ Surplus(worker[h].flow)
=============================================================================
