---------------------------- MODULE SpotifyProofs ----------------------------
(***************************************************************************)
(* Proofs about SpotifyWeb, for any number of requests, callbacks and      *)
(* troubles: whoever refreshes and authorizes at once, the user stays      *)
(* logged in, the file keeps up with memory, likes alternate, and all      *)
(* variables keep their types.                                             *)
(***************************************************************************)
EXTENDS SpotifyWeb, FiniteSetTheorems, TLAPS

Pcs == {"idle", "ensure", "token", "refresh", "post", "send", "script", "bind", "wait",
        "exchange", "result", "over", "store", "save", "written", "assign"}
Ops == {"none", "search", "play", "contains", "change", "auth"}
WorkerType == [pc : Pcs, op : Ops, tok : Grants, grant : Token, again : BOOLEAN,
               flow : 0 .. MaxRequests, ok : BOOLEAN]

Saves      == {"written", "assign"}
Stores     == {"store", "save"} \cup Saves
WithTokens == {"token", "refresh", "post", "send"} \cup Stores

Typed ==
  /\ worker \in [Workers -> WorkerType]
  /\ tokens \in Token \cup {NoTokens} /\ file \in Token \cup {NoTokens, Torn}
  /\ live \subseteq 1 .. issued /\ issued \in 1 .. MaxGrants
  /\ requests \in 0 .. MaxRequests /\ callbacks \in 0 .. MaxCallbacks
  /\ library \in BOOLEAN /\ DOMAIN flow = Requests

\* The worker in the middle of save holds the lock, and no other.
Locked ==
  /\ \A w \in Workers : worker[w].pc \in Saves <=> storeLock = w
  /\ storeLock # 0 => storeLock \in Workers

\* A worker that was not started yet is idle.
Unused ==
  \A w \in Workers :
    (w \in Requests /\ w > requests) \/ w > MaxRequests + callbacks => worker[w].pc = "idle"

\* Whoever uses tokens finds some.
HasTokens == \A c \in Requests : worker[c].pc \in WithTokens => tokens # NoTokens

OneStores == ~mishap => \A v, w \in Storing : v = w

\* The refresh token that the worker is going to store.
Stored(w) ==
  IF worker[w].pc = "store" /\ worker[w].grant.refresh = 0
  THEN tokens # NoTokens /\ tokens.refresh \in live
  ELSE worker[w].grant.refresh \in live

Granted == ~mishap => \A w \in Storing : Stored(w)

\* What the file holds while it is saved.
HalfSaved ==
  \A w \in Workers :
    /\ worker[w].pc = "written" => file = Torn
    /\ worker[w].pc = "assign" => file = worker[w].grant

\* A save that broke is a mishap.
LossIsMishap == saveLost => mishap

FileInv == HalfSaved /\ LossIsMishap /\ FileKeepsUp

SpotifyInv ==
  /\ Typed /\ Locked /\ Unused /\ HasTokens
  /\ OneStores /\ Granted /\ NotLockedOut /\ FileInv

USE DEF storeVars, serviceVars, countVars, historyVars, Saves

-----------------------------------------------------------------------------
LEMMA Numbers ==
  /\ MaxRequests \in Nat /\ MaxCallbacks \in Nat /\ MaxGrants \in Nat /\ MaxGrants > 0
  /\ 0 \in Grants /\ Nothing \in Token /\ Workers = 1 .. MaxRequests + MaxCallbacks
  /\ Requests \subseteq Workers /\ Handlers \subseteq Workers /\ Requests \cap Handlers = {}
  /\ 0 \notin Workers
<1>1. MaxRequests \in Nat /\ MaxCallbacks \in Nat /\ MaxGrants \in Nat /\ MaxGrants > 0
  BY SpotifyAssumption DEF SpotifyAssumption
<1>2. 0 \in Grants /\ Nothing \in Token
  BY <1>1 DEF Grants, Token, Nothing
<1>. QED
  BY <1>1, <1>2 DEF Workers, Requests, Handlers

LEMMA IdleTyped == Idle \in WorkerType /\ Idle.pc = "idle"
<1>1. 0 \in 0 .. MaxRequests
  BY Numbers
<1>. QED
  BY <1>1, Numbers DEF Idle, WorkerType, Pcs, Ops

LEMMA SpotifyInitOK == SpotifyInit => SpotifyInv
<1>. SUFFICES ASSUME SpotifyInit PROVE SpotifyInv
  OBVIOUS
<1>1. worker = [w \in Workers |-> Idle] /\ \A w \in Workers : worker[w] = Idle
  BY DEF SpotifyInit
<1>2. Typed
  <2>1. [access |-> 1, refresh |-> 1] \in Token
    BY Numbers DEF Token, Grants
  <2>2. worker \in [Workers -> WorkerType]
    BY <1>1, IdleTyped
  <2>3. tokens \in Token \cup {NoTokens} /\ file \in Token \cup {NoTokens, Torn}
    BY <2>1 DEF SpotifyInit
  <2>4. live = {1} /\ issued = 1 /\ requests = 0 /\ callbacks = 0
    BY DEF SpotifyInit
  <2>5. library \in BOOLEAN /\ DOMAIN flow = Requests
    BY DEF SpotifyInit
  <2>. QED
    BY <2>2, <2>3, <2>4, <2>5, Numbers DEF Typed
<1>3. storeLock = 0 /\ file = tokens
  BY DEF SpotifyInit
<1>4. Locked
  BY <1>1, <1>3, IdleTyped, Numbers DEF Locked
<1>5. Unused
  BY <1>1, IdleTyped DEF Unused
<1>6. HasTokens
  BY <1>1, IdleTyped, Numbers DEF HasTokens, WithTokens, Stores
<1>7. Storing = {}
  BY <1>1, IdleTyped DEF Storing
<1>8. OneStores /\ Granted
  BY <1>7 DEF OneStores, Granted
<1>9. NotLockedOut
  <2>1. live = {1} /\ (tokens = NoTokens \/ tokens = [access |-> 1, refresh |-> 1])
    BY DEF SpotifyInit
  <2>. QED
    BY <2>1 DEF NotLockedOut
<1>10. FileInv
  BY <1>1, <1>3, IdleTyped DEF SpotifyInit, FileInv, HalfSaved, LossIsMishap, FileKeepsUp
<1>. QED
  BY <1>2, <1>4, <1>5, <1>6, <1>8, <1>9, <1>10 DEF SpotifyInv

-----------------------------------------------------------------------------
(* Steps of one worker that stores nothing before or after.                *)

Others(w) == \A v \in Workers \ {w} : worker'[v] = worker[v]

LEMMA UnusedKeeps ==
  ASSUME SpotifyInv, NEW w \in Workers, worker[w].pc # "idle", Others(w),
         UNCHANGED <<requests, callbacks>>
  PROVE  Unused'
BY DEF SpotifyInv, Unused, Others

\* Steps of a worker that is not in save, before or after.
LEMMA FileFrame ==
  ASSUME SpotifyInv, NEW w \in Workers, Others(w),
         worker[w].pc \notin Saves, worker'[w].pc \notin Saves,
         UNCHANGED storeVars, mishap => mishap'
  PROVE  FileInv'
<1>1. Saving' = Saving
  BY DEF Saving, Others
<1>2. HalfSaved'
  BY DEF SpotifyInv, FileInv, HalfSaved, Others
<1>3. LossIsMishap' /\ FileKeepsUp'
  BY <1>1 DEF SpotifyInv, FileInv, LossIsMishap, FileKeepsUp
<1>. QED
  BY <1>2, <1>3 DEF FileInv

LEMMA MoveKeeps ==
  ASSUME SpotifyInv, NEW w \in Workers,
         worker' \in [Workers -> WorkerType], Others(w),
         worker[w].pc \notin Stores, worker'[w].pc \notin Stores,
         w \in Requests /\ worker'[w].pc \in WithTokens => tokens # NoTokens,
         UNCHANGED storeVars,
         \/ UNCHANGED <<live, issued, mishap>>
         \/ mishap' /\ live' \subseteq 1 .. issued' /\ issued' \in 1 .. MaxGrants,
         requests' \in 0 .. MaxRequests, callbacks' \in 0 .. MaxCallbacks, library' \in BOOLEAN,
         DOMAIN flow' = DOMAIN flow, Unused'
  PROVE  SpotifyInv'
<1>1. Typed'
  BY DEF SpotifyInv, Typed
<1>2. Locked'
  BY DEF SpotifyInv, Locked, Others, Stores
<1>3. HasTokens'
  BY Numbers DEF SpotifyInv, HasTokens, Others
<1>4. Storing' = Storing /\ w \notin Storing
  BY DEF Storing, Others, Stores
<1>5. \A v \in Storing : v \in Workers /\ worker'[v] = worker[v]
  BY <1>4 DEF Storing, Others
<1>8. FileInv'
  BY FileFrame DEF Stores
<1>6. CASE UNCHANGED <<live, issued, mishap>>
  <2>1. OneStores'
    BY <1>4, <1>6 DEF SpotifyInv, OneStores
  <2>2. ASSUME NEW v \in Storing, Stored(v) PROVE Stored(v)'
    BY <1>5, <1>6, <2>2 DEF Stored
  <2>3. Granted'
    BY <1>4, <1>6, <2>2 DEF SpotifyInv, Granted
  <2>4. NotLockedOut'
    BY <1>4, <1>6 DEF SpotifyInv, NotLockedOut
  <2>. QED
    BY <1>1, <1>2, <1>3, <1>8, <2>1, <2>3, <2>4 DEF SpotifyInv
<1>7. CASE mishap'
  BY <1>1, <1>2, <1>3, <1>7, <1>8 DEF SpotifyInv, OneStores, Granted, NotLockedOut
<1>. QED
  BY <1>6, <1>7

\* The moves of a request that leave everything but the worker alone.
LEMMA ClientMoves ==
  ASSUME SpotifyInv, NEW c \in Requests,
         \/ EnsureToken(c) \/ AccessToken(c) \/ RefreshToken(c) \/ RefreshRefused(c)
         \/ Unauthorized(c) \/ RequestAnswered(c) \/ RequestLost(c) \/ Script(c)
         \/ BindCallback(c) \/ AuthReturns(c) \/ AuthTimesOut(c)
  PROVE  SpotifyInv'
<1>1. c \in Workers /\ worker \in [Workers -> WorkerType] /\ worker[c] \in WorkerType
      /\ Typed /\ HasTokens
  BY Numbers DEF SpotifyInv, Typed
<1>2. UNCHANGED <<storeVars, live, issued, mishap, requests, callbacks>>
  BY DEF EnsureToken, AccessToken, RefreshToken, RefreshRefused, Unauthorized, RequestAnswered,
         RequestLost, Script, BindCallback, AuthReturns, AuthTimesOut
<1>3. worker[c].pc \in {"ensure", "token", "refresh", "post", "send", "script", "bind", "wait"}
  BY DEF EnsureToken, AccessToken, RefreshToken, RefreshRefused, Unauthorized, RequestAnswered,
         RequestLost, Script, BindCallback, AuthReturns, AuthTimesOut
<1>4. AfterFailure(c) \in WorkerType /\ AfterFailure(c).pc \in {"script", "idle"}
  BY <1>1, IdleTyped DEF AfterFailure, WorkerType, Pcs
<1>5. PICK new \in WorkerType :
        /\ worker' = [worker EXCEPT ![c] = new]
        /\ new.pc \notin Stores
        /\ new.pc \in WithTokens => tokens # NoTokens
  <2>1. CASE EnsureToken(c)
    <3>1. CASE tokens = NoTokens
      BY <1>4, <2>1, <3>1 DEF EnsureToken, Fail, Stores, WithTokens
    <3>2. CASE tokens # NoTokens
      <4>. DEFINE new == [worker[c] EXCEPT !.pc = IF tokens.access \in stale THEN "refresh" ELSE "token"]
      <4>1. worker' = [worker EXCEPT ![c] = new]
        BY <2>1, <3>2 DEF EnsureToken, Goto
      <4>2. new \in WorkerType /\ new.pc \notin Stores
        BY <1>1 DEF WorkerType, Pcs, Stores
      <4>. QED
        BY <3>2, <4>1, <4>2
    <3>. QED
      BY <3>1, <3>2
  <2>2. CASE AccessToken(c)
    <3>1. tokens # NoTokens /\ tokens.access \in Grants
      BY <1>1, <2>2 DEF AccessToken, HasTokens, WithTokens, Typed, Token
    <3>. DEFINE new == [worker[c] EXCEPT !.pc = "send", !.tok = tokens.access]
    <3>2. worker' = [worker EXCEPT ![c] = new] /\ new \in WorkerType /\ new.pc \notin Stores
      BY <1>1, <2>2, <3>1 DEF AccessToken, WorkerType, Pcs, Stores
    <3>. QED
      BY <3>1, <3>2
  <2>3. CASE RefreshToken(c)
    <3>1. tokens # NoTokens /\ tokens.refresh \in Grants
      BY <1>1, <2>3 DEF RefreshToken, HasTokens, WithTokens, Typed, Token
    <3>2. CASE tokens.refresh = 0
      BY <1>4, <2>3, <3>2 DEF RefreshToken, Fail, Stores, WithTokens
    <3>3. CASE tokens.refresh # 0
      <4>. DEFINE new == [worker[c] EXCEPT !.pc = "post", !.tok = tokens.refresh]
      <4>1. worker' = [worker EXCEPT ![c] = new] /\ new \in WorkerType /\ new.pc \notin Stores
        BY <1>1, <2>3, <3>1, <3>3 DEF RefreshToken, WorkerType, Pcs, Stores
      <4>. QED
        BY <3>1, <4>1
    <3>. QED
      BY <3>2, <3>3
  <2>4. CASE RefreshRefused(c) \/ RequestLost(c)
    BY <1>4, <2>4 DEF RefreshRefused, RequestLost, Fail, Stores, WithTokens
  <2>5. CASE Unauthorized(c)
    <3>1. tokens # NoTokens
      BY <1>1, <2>5 DEF Unauthorized, HasTokens, WithTokens
    <3>2. CASE worker[c].again
      BY <1>4, <2>5, <3>2 DEF Unauthorized, Fail, Stores, WithTokens
    <3>3. CASE ~worker[c].again
      <4>. DEFINE new == [worker[c] EXCEPT !.pc = "refresh", !.again = TRUE]
      <4>1. worker' = [worker EXCEPT ![c] = new] /\ new \in WorkerType /\ new.pc \notin Stores
        BY <1>1, <2>5, <3>3 DEF Unauthorized, WorkerType, Pcs, Stores
      <4>. QED
        BY <3>1, <4>1
    <3>. QED
      BY <3>2, <3>3
  <2>6. CASE RequestAnswered(c)
    <3>1. tokens # NoTokens
      BY <1>1, <2>6 DEF RequestAnswered, HasTokens, WithTokens
    <3>2. CASE worker[c].op # "contains"
      BY <2>6, <3>1, <3>2, IdleTyped DEF RequestAnswered, Stores
    <3>3. CASE worker[c].op = "contains"
      <4>. DEFINE new == [worker[c] EXCEPT !.pc = "ensure", !.op = "change", !.ok = library, !.again = FALSE]
      <4>1. worker' = [worker EXCEPT ![c] = new]
        BY <2>6, <3>3 DEF RequestAnswered
      <4>2. new \in WorkerType /\ new.pc \notin Stores
        BY <1>1 DEF Typed, WorkerType, Pcs, Ops, Stores
      <4>. QED
        BY <3>1, <4>1, <4>2
    <3>. QED
      BY <3>2, <3>3
  <2>7. CASE Script(c) \/ AuthReturns(c) \/ AuthTimesOut(c)
    BY <2>7, IdleTyped DEF Script, AuthReturns, AuthTimesOut, Stores, WithTokens
  <2>8. CASE BindCallback(c)
    <3>1. [worker[c] EXCEPT !.pc = "wait"] \in WorkerType
      BY <1>1 DEF WorkerType, Pcs
    <3>2. \/ worker' = [worker EXCEPT ![c] = Idle]
          \/ worker' = [worker EXCEPT ![c] = [worker[c] EXCEPT !.pc = "wait"]]
      BY <2>8 DEF BindCallback, Goto
    <3>3. [worker[c] EXCEPT !.pc = "wait"].pc = "wait"
      BY <1>1 DEF WorkerType
    <3>. QED
      BY <3>1, <3>2, <3>3, IdleTyped DEF Stores, WithTokens
  <2>. QED
    BY <2>1, <2>2, <2>3, <2>4, <2>5, <2>6, <2>7, <2>8
<1>6. /\ worker' \in [Workers -> WorkerType] /\ Others(c) /\ worker'[c] = new
      /\ worker[c].pc \notin Stores /\ worker[c].pc # "idle"
  BY <1>1, <1>3, <1>5 DEF Others, Stores
<1>7. Unused'
  BY <1>1, <1>2, <1>6, UnusedKeeps
<1>8. library' \in BOOLEAN
  <2>1. worker[c].ok \in BOOLEAN /\ library \in BOOLEAN
    BY <1>1 DEF Typed, WorkerType
  <2>. QED
    BY <2>1 DEF EnsureToken, AccessToken, RefreshToken, RefreshRefused, Unauthorized,
         RequestAnswered, RequestLost, Script, BindCallback, AuthReturns, AuthTimesOut
<1>9. DOMAIN flow' = DOMAIN flow
  BY DEF EnsureToken, AccessToken, RefreshToken, RefreshRefused, Unauthorized, RequestAnswered,
         RequestLost, Script, BindCallback, AuthReturns, AuthTimesOut
<1>. QED
  BY <1>1, <1>2, <1>5, <1>6, <1>7, <1>8, <1>9, MoveKeeps DEF Typed

\* A refresh whose answer is lost; the moves of a callback's handler.
LEMMA LostKeeps == ASSUME SpotifyInv, NEW c \in Requests, RefreshLost(c) PROVE SpotifyInv'
<1>1. c \in Workers /\ worker \in [Workers -> WorkerType] /\ worker[c] \in WorkerType /\ Typed
  BY Numbers DEF SpotifyInv, Typed
<1>2. AfterFailure(c) \in WorkerType /\ AfterFailure(c).pc \in {"script", "idle"}
  BY <1>1, IdleTyped DEF AfterFailure, WorkerType, Pcs
<1>3. worker' = [worker EXCEPT ![c] = AfterFailure(c)] /\ worker[c].pc = "post"
      /\ UNCHANGED <<storeVars, library, flow, requests, callbacks>>
  BY DEF RefreshLost, Fail
<1>4. \/ UNCHANGED <<live, issued, mishap>>
      \/ mishap' /\ live' \subseteq 1 .. issued' /\ issued' \in 1 .. MaxGrants
  <2>1. CASE UNCHANGED <<live, issued, mishap>>
    BY <2>1
  <2>2. CASE issued < MaxGrants /\ issued' = issued + 1 /\ mishap' = TRUE
             /\ live' = (live \ {worker[c].tok}) \cup {issued'}
    <3>1. issued \in Nat /\ issued' \in 1 .. MaxGrants /\ MaxGrants \in Nat /\ live \subseteq 1 .. issued
      BY <1>1, <2>2, Numbers DEF Typed
    <3>2. live' \subseteq 1 .. issued'
      <4>1. live' \subseteq live \cup {issued'}
        BY <2>2
      <4>2. 1 .. issued \subseteq 1 .. issued' /\ issued' \in 1 .. issued'
        BY <2>2, <3>1
      <4>. QED
        BY <3>1, <4>1, <4>2
    <3>. QED
      BY <2>2, <3>1, <3>2
  <2>. QED
    BY <2>1, <2>2 DEF RefreshLost
<1>5. /\ worker' \in [Workers -> WorkerType] /\ Others(c)
      /\ worker[c].pc \notin Stores /\ worker'[c].pc \notin Stores /\ worker'[c].pc \notin WithTokens
      /\ worker[c].pc # "idle"
  BY <1>1, <1>2, <1>3 DEF Others, Stores, WithTokens
<1>6. Unused'
  BY <1>1, <1>3, <1>5, UnusedKeeps
<1>. QED
  BY <1>1, <1>3, <1>4, <1>5, <1>6, MoveKeeps DEF Typed

LEMMA HandlerMoves ==
  ASSUME SpotifyInv, NEW h \in Handlers, ExchangeFails(h) \/ CallbackResult(h)
  PROVE  SpotifyInv'
<1>1. h \in Workers /\ h \notin Requests
      /\ worker \in [Workers -> WorkerType] /\ worker[h] \in WorkerType /\ Typed
  BY Numbers DEF SpotifyInv, Typed
<1>2. UNCHANGED <<storeVars, live, issued, mishap, requests, callbacks, library>>
      /\ worker[h].pc \in {"exchange", "result"} /\ DOMAIN flow' = DOMAIN flow
  BY DEF ExchangeFails, CallbackResult
<1>3. PICK pc \in {"result", "over"} : worker' = [worker EXCEPT ![h] = [worker[h] EXCEPT !.pc = pc]]
  BY DEF ExchangeFails, CallbackResult, Goto
<1>4. [worker[h] EXCEPT !.pc = pc] \in WorkerType /\ [worker[h] EXCEPT !.pc = pc].pc = pc
  BY <1>1 DEF WorkerType, Pcs
<1>5. /\ worker' \in [Workers -> WorkerType] /\ Others(h)
      /\ worker[h].pc \notin Stores /\ worker'[h].pc \notin Stores /\ worker[h].pc # "idle"
  BY <1>1, <1>2, <1>3, <1>4 DEF Others, Stores
<1>6. Unused'
  BY <1>1, <1>2, <1>5, UnusedKeeps
<1>. QED
  BY <1>1, <1>2, <1>5, <1>6, MoveKeeps DEF Typed

\* A goroutine that starts.
LEMMA StartKeeps ==
  ASSUME SpotifyInv, NEW w \in Workers, NEW new \in WorkerType,
         worker' = [worker EXCEPT ![w] = new], new.pc \notin Stores, worker[w].pc = "idle",
         w \in Requests /\ new.pc \in WithTokens => tokens # NoTokens,
         UNCHANGED <<storeVars, flow, live, issued, mishap, library>>,
         \/ w \in Requests /\ w = requests + 1 /\ requests' = w /\ UNCHANGED callbacks
         \/ /\ w \in Handlers /\ w = MaxRequests + callbacks + 1
            /\ callbacks' = callbacks + 1 /\ UNCHANGED requests
  PROVE  SpotifyInv'
<1>1. Typed /\ worker \in [Workers -> WorkerType]
  BY DEF SpotifyInv, Typed
<1>2. worker' \in [Workers -> WorkerType] /\ Others(w) /\ worker'[w] = new
  BY <1>1 DEF Others
<1>3. worker[w].pc \notin Stores
  BY DEF Stores
<1>4. requests' \in 0 .. MaxRequests /\ callbacks' \in 0 .. MaxCallbacks
  BY <1>1, Numbers DEF Typed, Requests, Handlers
<1>5. Unused'
  <2>. SUFFICES ASSUME NEW v \in Workers, (v \in Requests /\ v > requests') \/ v > MaxRequests + callbacks'
                PROVE  worker'[v].pc = "idle"
    BY DEF Unused
  <2>1. requests \in Nat /\ callbacks \in Nat /\ v \in Nat /\ requests <= MaxRequests
    BY <1>1, Numbers DEF Typed
  <2>2. v # w
    BY <2>1, Numbers DEF Requests, Handlers
  <2>3. (v \in Requests /\ v > requests) \/ v > MaxRequests + callbacks
    BY <2>1, Numbers
  <2>. QED
    BY <1>2, <2>2, <2>3 DEF SpotifyInv, Unused, Others
<1>. QED
  BY <1>1, <1>2, <1>3, <1>4, <1>5, MoveKeeps DEF Typed

LEMMA RequestKeeps == ASSUME SpotifyInv, WebRequest PROVE SpotifyInv'
<1>1. Typed /\ requests \in 0 .. MaxRequests /\ requests < MaxRequests
  BY DEF SpotifyInv, Typed, WebRequest
<1>. DEFINE c == requests + 1
<1>2. c \in Requests /\ c \in Workers /\ c > requests
  BY <1>1, Numbers DEF Requests
<1>3. PICK op \in {"search", "play", "contains", "auth"} : \E pc \in FirstStep(op) :
        worker' = [worker EXCEPT ![c] = [Idle EXCEPT !.op = op, !.pc = pc]]
  BY DEF WebRequest
<1>. PICK pc \in FirstStep(op) : worker' = [worker EXCEPT ![c] = [Idle EXCEPT !.op = op, !.pc = pc]]
  BY <1>3
<1>4. pc \in {"bind", "ensure", "script"}
  BY tokens = NoTokens \/ tokens # NoTokens DEF FirstStep
<1>. DEFINE new == [Idle EXCEPT !.op = op, !.pc = pc]
<1>5. new \in WorkerType /\ new.pc = pc
  BY <1>4, IdleTyped DEF WorkerType, Pcs, Ops
<1>6. worker[c].pc = "idle"
  BY <1>2 DEF SpotifyInv, Unused
<1>7. requests' = c /\ UNCHANGED <<storeVars, flow, live, issued, mishap, library, callbacks>>
  BY DEF WebRequest
<1>8. worker' = [worker EXCEPT ![c] = new]
  OBVIOUS
<1>. HIDE DEF new
<1>. QED
  BY <1>2, <1>4, <1>5, <1>6, <1>7, <1>8, StartKeeps DEF Stores, WithTokens

LEMMA CallbackKeeps == ASSUME SpotifyInv, Callback PROVE SpotifyInv'
<1>1. Typed /\ callbacks \in 0 .. MaxCallbacks /\ callbacks < MaxCallbacks
  BY DEF SpotifyInv, Typed, Callback
<1>. DEFINE h == MaxRequests + callbacks + 1
<1>2. h \in Handlers /\ h \in Workers /\ h > MaxRequests + callbacks /\ h \notin Requests
  BY <1>1, Numbers DEF Handlers
<1>3. callbacks' = callbacks + 1 /\ MaxRequests + callbacks' = h
      /\ UNCHANGED <<storeVars, flow, live, issued, mishap, library, requests>>
  BY <1>1, Numbers DEF Callback
<1>4. PICK f \in DOMAIN flow, pc \in {"exchange", "result"} :
        worker' = [worker EXCEPT ![h] = [Idle EXCEPT !.pc = pc, !.flow = f]]
  BY <1>1, <1>3 DEF Callback
<1>. DEFINE new == [Idle EXCEPT !.pc = pc, !.flow = f]
<1>5. new \in WorkerType /\ new.pc = pc
  <2>1. f \in 0 .. MaxRequests
    BY <1>1, Numbers DEF Typed, Requests
  <2>. QED
    BY <2>1, IdleTyped DEF WorkerType, Pcs
<1>6. worker[h].pc = "idle"
  BY <1>2 DEF SpotifyInv, Unused
<1>7. worker' = [worker EXCEPT ![h] = new]
  BY <1>4
<1>. HIDE DEF new
<1>. QED
  BY <1>2, <1>3, <1>5, <1>6, <1>7, StartKeeps DEF Stores

-----------------------------------------------------------------------------
(* Grants, and how they are stored.                                        *)

\* A grant reaches a worker, which then stores it.
LEMMA GrantKeeps ==
  ASSUME SpotifyInv, NEW w \in Workers,
         worker' \in [Workers -> WorkerType], Others(w),
         worker[w].pc \notin Stores, worker[w].pc # "idle", worker'[w].pc = "store",
         UNCHANGED <<storeVars, flow, library, requests, callbacks>>,
         live' \subseteq 1 .. issued', issued' \in 1 .. MaxGrants,
         mishap => mishap', ~mishap' => Storing = {} /\ Stored(w)',
         w \in Requests => tokens # NoTokens
  PROVE  SpotifyInv'
<1>1. Typed' /\ Unused'
  BY UnusedKeeps DEF SpotifyInv, Typed
<1>2. Locked'
  BY DEF SpotifyInv, Locked, Others, Stores
<1>3. HasTokens'
  BY Numbers DEF SpotifyInv, HasTokens, Others
<1>4. Storing' = Storing \cup {w}
  BY DEF Storing, Others, Stores
<1>5. NotLockedOut'
  BY <1>4 DEF NotLockedOut
<1>6. OneStores' /\ Granted'
  BY <1>4 DEF OneStores, Granted
<1>7. FileInv'
  BY FileFrame DEF Stores
<1>. QED
  BY <1>1, <1>2, <1>3, <1>5, <1>6, <1>7 DEF SpotifyInv

LEMMA RefreshKeeps == ASSUME SpotifyInv, NEW c \in Requests, RefreshAnswered(c) PROVE SpotifyInv'
<1>1. /\ c \in Workers /\ worker \in [Workers -> WorkerType] /\ worker[c] \in WorkerType /\ Typed
      /\ worker[c].pc = "post" /\ tokens # NoTokens
  BY Numbers DEF SpotifyInv, Typed, RefreshAnswered, HasTokens, WithTokens
<1>2. PICK rotates \in BOOLEAN :
        /\ live' = IF rotates THEN (live \ {worker[c].tok}) \cup {issued'} ELSE live
        /\ worker' = [worker EXCEPT ![c].pc = "store", ![c].tok = 0,
                       ![c].grant = [access |-> issued', refresh |-> IF rotates THEN issued' ELSE 0]]
  BY DEF RefreshAnswered
<1>3. issued' \in 1 .. MaxGrants /\ issued' \in Nat /\ issued' # 0 /\ issued' = issued + 1
      /\ live \subseteq 1 .. issued
  BY <1>1, Numbers DEF Typed, RefreshAnswered
<1>4. live' \subseteq 1 .. issued' /\ issued \in Nat
  BY <1>1, <1>2, <1>3, Numbers DEF Typed
<1>. DEFINE grant == [access |-> issued', refresh |-> IF rotates THEN issued' ELSE 0]
            new   == [worker[c] EXCEPT !.pc = "store", !.tok = 0, !.grant = grant]
<1>5. grant \in Token /\ grant.refresh = IF rotates THEN issued' ELSE 0
  BY <1>3, Numbers DEF Token, Grants
<1>6. worker' = [worker EXCEPT ![c] = new]
  BY <1>1, <1>2
<1>. HIDE DEF grant
<1>7. new \in WorkerType /\ new.pc = "store" /\ new.grant = grant
  BY <1>1, <1>5, Numbers DEF WorkerType, Pcs
<1>. HIDE DEF new
<1>8. /\ worker' \in [Workers -> WorkerType] /\ Others(c) /\ worker'[c] = new
      /\ worker[c].pc \notin Stores /\ worker[c].pc # "idle"
  BY <1>1, <1>6, <1>7 DEF Others, Stores
<1>9. ASSUME ~mishap' PROVE ~mishap /\ Storing = {} /\ Stored(c)'
  <2>1. ~mishap /\ Storing = {}
    BY <1>9 DEF RefreshAnswered
  <2>2. tokens.refresh \in live
    BY <1>1, <2>1 DEF SpotifyInv, NotLockedOut
  <2>3. tokens' = tokens
    BY DEF RefreshAnswered
  <2>4. CASE rotates
    <3>1. worker'[c].grant.refresh \in live' /\ worker'[c].grant.refresh # 0
      BY <1>2, <1>3, <1>5, <1>7, <1>8, <2>4
    <3>. QED
      BY <2>1, <3>1 DEF Stored
  <2>5. CASE ~rotates
    <3>1. worker'[c].grant.refresh = 0 /\ live' = live
      BY <1>2, <1>5, <1>7, <1>8, <2>5
    <3>. QED
      BY <1>1, <1>7, <1>8, <2>1, <2>2, <2>3, <3>1 DEF Stored
  <2>. QED
    BY <2>4, <2>5
<1>10. UNCHANGED <<storeVars, flow, library, requests, callbacks>>
  BY DEF RefreshAnswered
<1>. QED
  BY <1>1, <1>3, <1>4, <1>7, <1>8, <1>9, <1>10, GrantKeeps DEF RefreshAnswered

LEMMA ExchangeKeeps == ASSUME SpotifyInv, NEW h \in Handlers, ExchangeAnswered(h) PROVE SpotifyInv'
<1>1. /\ h \in Workers /\ h \notin Requests
      /\ worker \in [Workers -> WorkerType] /\ worker[h] \in WorkerType /\ Typed
      /\ worker[h].pc = "exchange"
  BY Numbers DEF SpotifyInv, Typed, ExchangeAnswered
<1>2. issued' \in 1 .. MaxGrants /\ issued' # 0 /\ issued' = issued + 1
      /\ live \subseteq 1 .. issued /\ issued \in Nat
  BY <1>1, Numbers DEF Typed, ExchangeAnswered
<1>3. live' \subseteq 1 .. issued' /\ issued' \in live'
  BY <1>2 DEF ExchangeAnswered
<1>. DEFINE grant == [access |-> issued', refresh |-> issued']
            new   == [worker[h] EXCEPT !.pc = "store", !.ok = TRUE, !.grant = grant]
<1>4. grant \in Token /\ grant.refresh = issued'
  BY <1>2, Numbers DEF Token, Grants
<1>5. worker' = [worker EXCEPT ![h] = new]
  BY <1>1 DEF ExchangeAnswered
<1>. HIDE DEF grant
<1>6. new \in WorkerType /\ new.pc = "store" /\ new.grant = grant
  BY <1>1, <1>4 DEF WorkerType, Pcs
<1>. HIDE DEF new
<1>7. /\ worker' \in [Workers -> WorkerType] /\ Others(h) /\ worker'[h] = new
      /\ worker[h].pc \notin Stores /\ worker[h].pc # "idle"
  BY <1>1, <1>5, <1>6 DEF Others, Stores
<1>8. ASSUME ~mishap' PROVE ~mishap /\ Storing = {} /\ Stored(h)'
  <2>1. ~mishap /\ Storing = {}
    BY <1>8 DEF ExchangeAnswered
  <2>. QED
    BY <1>2, <1>3, <1>4, <1>6, <1>7, <2>1 DEF Stored
<1>9. UNCHANGED <<storeVars, flow, library, requests, callbacks>>
  BY DEF ExchangeAnswered
<1>. QED
  BY <1>1, <1>2, <1>3, <1>6, <1>7, <1>8, <1>9, GrantKeeps DEF ExchangeAnswered

LEMMA StoreKeeps == ASSUME SpotifyInv, NEW w \in Workers, Store(w) PROVE SpotifyInv'
<1>1. /\ worker \in [Workers -> WorkerType] /\ worker[w] \in WorkerType /\ Typed
      /\ worker[w].pc = "store" /\ worker[w].grant \in Token
  BY DEF SpotifyInv, Typed, Store, WorkerType
<1>. DEFINE old  == worker[w].grant.refresh
            kept == IF old = 0 /\ tokens # NoTokens THEN tokens.refresh ELSE old
            new  == [worker[w] EXCEPT !.pc = "save", !.grant = [@ EXCEPT !.refresh = kept]]
<1>2. worker' = [worker EXCEPT ![w] = new]
  BY <1>1 DEF Store, WorkerType, Token
<1>3. kept \in Grants
  BY <1>1 DEF Typed, Token
<1>. HIDE DEF kept
<1>4. new \in WorkerType /\ new.pc = "save" /\ new.grant.refresh = kept
  BY <1>1, <1>3 DEF WorkerType, Pcs, Token
<1>. HIDE DEF new
<1>5. worker' \in [Workers -> WorkerType] /\ Others(w) /\ worker'[w] = new
  BY <1>1, <1>2, <1>4 DEF Others
<1>6. UNCHANGED <<storeVars, flow, serviceVars, library, countVars, mishap>>
  BY DEF Store
<1>7. Typed' /\ Unused'
  BY <1>1, <1>5, <1>6, UnusedKeeps DEF Typed
<1>8. Locked'
  BY <1>1, <1>4, <1>5, <1>6 DEF SpotifyInv, Locked, Others
<1>9. HasTokens'
  BY <1>1, <1>5, <1>6, Numbers DEF SpotifyInv, HasTokens, Others, WithTokens, Stores
<1>10. Storing' = Storing /\ w \in Storing
  BY <1>1, <1>4, <1>5 DEF Storing, Others
<1>11. OneStores' /\ NotLockedOut' /\ FileInv'
  <2>1. FileInv'
    BY <1>1, <1>4, <1>5, <1>6, FileFrame
  <2>. QED
    BY <1>6, <1>10, <2>1 DEF SpotifyInv, OneStores, NotLockedOut
<1>12. ASSUME ~mishap', NEW v \in Storing PROVE Stored(v)'
  <2>1. v = w /\ Stored(w)
    BY <1>6, <1>10, <1>12 DEF SpotifyInv, OneStores, Granted
  <2>2. kept \in live
    BY <1>1, <2>1 DEF Stored, kept
  <2>. QED
    BY <1>4, <1>5, <1>6, <2>1, <2>2 DEF Stored
<1>13. Granted'
  BY <1>10, <1>12 DEF Granted
<1>. QED
  BY <1>7, <1>8, <1>9, <1>11, <1>13 DEF SpotifyInv

LEMMA SaveBeginKeeps == ASSUME SpotifyInv, NEW w \in Workers, SaveBegin(w) PROVE SpotifyInv'
<1>1. /\ worker \in [Workers -> WorkerType] /\ worker[w] \in WorkerType /\ Typed
      /\ worker[w].pc = "save" /\ storeLock = 0
  BY DEF SpotifyInv, Typed, SaveBegin, Readable
<1>. DEFINE new == [worker[w] EXCEPT !.pc = "written"]
<1>2. worker' = [worker EXCEPT ![w] = new]
  BY DEF SaveBegin, Goto
<1>3. new \in WorkerType /\ new.pc = "written" /\ new.grant = worker[w].grant
  BY <1>1 DEF WorkerType, Pcs
<1>. HIDE DEF new
<1>4. worker' \in [Workers -> WorkerType] /\ Others(w) /\ worker'[w] = new
  BY <1>1, <1>2, <1>3 DEF Others
<1>5. UNCHANGED <<tokens, saveLost, flow, serviceVars, library, countVars, mishap>>
      /\ file' = Torn /\ storeLock' = w
  BY DEF SaveBegin
<1>6. Typed' /\ Unused'
  BY <1>1, <1>4, <1>5, UnusedKeeps DEF Typed
<1>7. Locked' /\ FileInv'
  <2>1. \A v \in Workers : worker[v].pc \notin Saves
    BY <1>1, Numbers DEF SpotifyInv, Locked
  <2>2. Locked'
    BY <1>3, <1>4, <1>5, <2>1 DEF Locked, Others
  <2>3. HalfSaved'
    BY <1>3, <1>4, <1>5, <2>1 DEF HalfSaved, Others
  <2>4. w \in Saving'
    BY <1>3, <1>4 DEF Saving
  <2>. QED
    BY <1>5, <2>2, <2>3, <2>4 DEF SpotifyInv, FileInv, LossIsMishap, FileKeepsUp
<1>8. HasTokens'
  BY <1>1, <1>4, <1>5, Numbers DEF SpotifyInv, HasTokens, Others, WithTokens, Stores
<1>9. Storing' = Storing /\ w \in Storing
  BY <1>1, <1>3, <1>4 DEF Storing, Others
<1>10. OneStores' /\ NotLockedOut'
  BY <1>5, <1>9 DEF SpotifyInv, OneStores, NotLockedOut
<1>12. ASSUME ~mishap', NEW v \in Storing PROVE Stored(v)'
  <2>1. v = w /\ Stored(w)
    BY <1>5, <1>9, <1>12 DEF SpotifyInv, OneStores, Granted
  <2>. QED
    BY <1>1, <1>3, <1>4, <1>5, <2>1 DEF Stored
<1>13. Granted'
  BY <1>9, <1>12 DEF Granted
<1>. QED
  BY <1>6, <1>7, <1>8, <1>10, <1>13 DEF SpotifyInv

LEMMA FileWrittenKeeps == ASSUME SpotifyInv, NEW w \in Workers, FileWritten(w) PROVE SpotifyInv'
<1>1. /\ worker \in [Workers -> WorkerType] /\ worker[w] \in WorkerType /\ Typed
      /\ worker[w].pc = "written" /\ worker[w].grant \in Token /\ w \in Storing
  BY DEF SpotifyInv, Typed, FileWritten, WorkerType, Storing
<1>. DEFINE new == [worker[w] EXCEPT !.pc = "assign"]
<1>2. worker' = [worker EXCEPT ![w] = new]
  BY DEF FileWritten, Goto
<1>3. new \in WorkerType /\ new.pc = "assign" /\ new.grant = worker[w].grant
  BY <1>1 DEF WorkerType, Pcs
<1>. HIDE DEF new
<1>4. worker' \in [Workers -> WorkerType] /\ Others(w) /\ worker'[w] = new
  BY <1>1, <1>2, <1>3 DEF Others
<1>5. UNCHANGED <<tokens, storeLock, saveLost, flow, serviceVars, library, countVars, mishap>>
      /\ file' = worker[w].grant
  BY DEF FileWritten
<1>6. Typed' /\ Unused'
  BY <1>1, <1>4, <1>5, UnusedKeeps DEF Typed
<1>7. Locked' /\ FileInv'
  <2>1. \A v \in Workers \ {w} : worker[v].pc \notin Saves
    BY <1>1 DEF SpotifyInv, Locked
  <2>2. Locked'
    BY <1>1, <1>3, <1>4, <1>5 DEF SpotifyInv, Locked, Others
  <2>3. HalfSaved'
    BY <1>3, <1>4, <1>5, <2>1 DEF HalfSaved, Others
  <2>4. w \in Saving'
    BY <1>3, <1>4 DEF Saving
  <2>. QED
    BY <1>5, <2>2, <2>3, <2>4 DEF SpotifyInv, FileInv, LossIsMishap, FileKeepsUp
<1>8. HasTokens'
  BY <1>1, <1>4, <1>5, Numbers DEF SpotifyInv, HasTokens, Others, WithTokens, Stores
<1>9. Storing' = Storing
  BY <1>1, <1>3, <1>4 DEF Storing, Others
<1>10. OneStores' /\ NotLockedOut'
  BY <1>5, <1>9 DEF SpotifyInv, OneStores, NotLockedOut
<1>11. ASSUME ~mishap', NEW v \in Storing PROVE Stored(v)'
  <2>1. v = w /\ Stored(w)
    BY <1>1, <1>5, <1>11 DEF SpotifyInv, OneStores, Granted
  <2>. QED
    BY <1>1, <1>3, <1>4, <1>5, <2>1 DEF Stored
<1>12. Granted'
  BY <1>9, <1>11 DEF Granted
<1>. QED
  BY <1>6, <1>7, <1>8, <1>10, <1>12 DEF SpotifyInv

\* What the ends of save have in common.
LEMMA SaveEnds ==
  ASSUME SpotifyInv, NEW w \in Workers, worker[w].pc \in Saves \cup {"save"}, AfterSave(w),
         storeLock' = 0, worker[w].pc = "save" => storeLock = 0
  PROVE  /\ worker' \in [Workers -> WorkerType] /\ Others(w)
         /\ worker'[w].pc \in {"token", "result"} /\ Locked' /\ Storing' = Storing \ {w}
         /\ Saving' = {} /\ HalfSaved'
<1>1. worker \in [Workers -> WorkerType] /\ worker[w] \in WorkerType
  BY DEF SpotifyInv, Typed
<1>. DEFINE pc  == IF w \in Handlers THEN "result" ELSE "token"
            new == [worker[w] EXCEPT !.pc = pc, !.grant = Nothing]
<1>2. worker' = [worker EXCEPT ![w] = new]
  BY DEF AfterSave
<1>3. new \in WorkerType /\ new.pc \in {"token", "result"}
  BY <1>1, Numbers DEF WorkerType, Pcs
<1>. HIDE DEF new
<1>4. worker' \in [Workers -> WorkerType] /\ Others(w) /\ worker'[w] = new
  BY <1>1, <1>2, <1>3 DEF Others
<1>5. \A v \in Workers : worker'[v].pc \notin Saves
  <2>1. \A v \in Workers \ {w} : worker[v].pc \notin Saves
    BY Numbers DEF SpotifyInv, Locked
  <2>. QED
    BY <1>3, <1>4, <2>1 DEF Others
<1>6. Locked' /\ Saving' = {} /\ HalfSaved'
  BY <1>5, Numbers DEF Locked, Saving, HalfSaved
<1>7. Storing' = Storing \ {w}
  BY <1>3, <1>4 DEF Storing, Others
<1>. QED
  BY <1>3, <1>4, <1>6, <1>7

LEMMA SaveEndKeeps == ASSUME SpotifyInv, NEW w \in Workers, SaveEnd(w) PROVE SpotifyInv'
<1>1. worker[w].pc = "assign" /\ worker[w].grant \in Token /\ Typed /\ w \in Storing
  BY DEF SpotifyInv, Typed, SaveEnd, WorkerType, Storing
<1>2. /\ worker' \in [Workers -> WorkerType] /\ Others(w)
      /\ worker'[w].pc \in {"token", "result"} /\ Locked' /\ Storing' = Storing \ {w}
      /\ HalfSaved'
  BY <1>1, SaveEnds DEF SaveEnd
<1>3. UNCHANGED <<file, flow, serviceVars, library, countVars, mishap>>
      /\ tokens' = worker[w].grant /\ saveLost' = FALSE
  BY DEF SaveEnd
<1>4. Typed' /\ Unused'
  BY <1>1, <1>2, <1>3, UnusedKeeps DEF Typed
<1>5. HasTokens'
  BY <1>1, <1>3, StoreAssumption DEF HasTokens, StoreAssumption
<1>6. ~mishap' => Storing' = {}
  BY <1>1, <1>2, <1>3 DEF SpotifyInv, OneStores
<1>7. OneStores' /\ Granted'
  BY <1>6 DEF OneStores, Granted
<1>8. NotLockedOut'
  <2>1. ~mishap => worker[w].grant.refresh \in live
    BY <1>1 DEF SpotifyInv, Granted, Stored
  <2>. QED
    BY <1>3, <2>1 DEF NotLockedOut
<1>9. FileInv'
  <2>1. file = worker[w].grant
    BY <1>1 DEF SpotifyInv, FileInv, HalfSaved
  <2>. QED
    BY <1>2, <1>3, <2>1 DEF FileInv, LossIsMishap, FileKeepsUp
<1>. QED
  BY <1>2, <1>4, <1>5, <1>7, <1>8, <1>9 DEF SpotifyInv

LEMMA SaveFailsKeeps ==
  ASSUME SpotifyInv, NEW w \in Workers, SaveFails(w) \/ SaveRefused(w) PROVE SpotifyInv'
<1>1. worker[w].pc \in {"save", "written"} /\ Typed /\ mishap'
      /\ (worker[w].pc = "save" => storeLock = 0) /\ storeLock' = 0 /\ AfterSave(w)
  BY DEF SpotifyInv, SaveFails, SaveRefused, Readable
<1>2. /\ worker' \in [Workers -> WorkerType] /\ Others(w)
      /\ worker'[w].pc \in {"token", "result"} /\ Locked' /\ Storing' = Storing \ {w}
      /\ Saving' = {} /\ HalfSaved'
  BY <1>1, SaveEnds
<1>3. UNCHANGED <<tokens, file, flow, serviceVars, library, requests, callbacks>>
  BY DEF SaveFails, SaveRefused
<1>4. Typed' /\ Unused'
  BY <1>1, <1>2, <1>3, UnusedKeeps DEF Typed
<1>5. HasTokens'
  BY <1>1, <1>2, <1>3, Numbers DEF SpotifyInv, HasTokens, Others, WithTokens, Stores
<1>6. FileKeepsUp'
  <2>1. CASE SaveFails(w)
    <3>1. file = Torn /\ saveLost' /\ file' = file
      BY <2>1 DEF SaveFails, SpotifyInv, FileInv, HalfSaved
    <3>. QED
      BY <3>1 DEF FileKeepsUp
  <2>2. CASE SaveRefused(w)
    <3>1. Saving = {} /\ UNCHANGED storeVars
      BY <2>2, Numbers DEF SaveRefused, Readable, SpotifyInv, Locked, Saving
    <3>. QED
      BY <3>1 DEF SpotifyInv, FileInv, FileKeepsUp
  <2>. QED
    BY <2>1, <2>2
<1>. QED
  BY <1>1, <1>2, <1>4, <1>5, <1>6 DEF SpotifyInv, OneStores, Granted, NotLockedOut, FileInv,
     LossIsMishap

-----------------------------------------------------------------------------
(* Age and restarts.                                                       *)

LEMMA AgesKeeps == ASSUME SpotifyInv, TokenAges PROVE SpotifyInv'
<1>1. UNCHANGED <<worker, storeVars, flow, live, issued, library, requests, callbacks, mishap>>
  BY DEF TokenAges
<1>2. Storing' = Storing /\ \A w \in Storing : Stored(w)' = Stored(w)
  BY <1>1 DEF Storing, Stored
<1>. QED
  BY <1>1, <1>2 DEF SpotifyInv, Typed, Locked, Unused, HasTokens, OneStores, Granted,
                    NotLockedOut, FileInv, HalfSaved, LossIsMishap, FileKeepsUp, Saving

LEMMA RestartKeeps == ASSUME SpotifyInv, Restart PROVE SpotifyInv'
<1>1. Typed
  BY DEF SpotifyInv
<1>2. /\ worker' = [w \in Workers |-> Idle] /\ storeLock' = 0
      /\ tokens' = IF file \in {NoTokens, Torn} THEN NoTokens ELSE file
      /\ saveLost' = (file = Torn)
      /\ UNCHANGED <<file, serviceVars, library, requests, callbacks>>
      /\ DOMAIN flow' = DOMAIN flow
  BY DEF Restart
<1>3. worker' \in [Workers -> WorkerType] /\ \A w \in Workers : worker'[w].pc = "idle"
  BY <1>2, IdleTyped
<1>4. Typed'
  BY <1>1, <1>2, <1>3 DEF Typed
<1>5. Locked' /\ Unused' /\ HasTokens' /\ Storing' = {} /\ HalfSaved'
  BY <1>2, <1>3, Numbers DEF Locked, Unused, HasTokens, WithTokens, Stores, Storing, HalfSaved
<1>6. ASSUME ~mishap' PROVE ~mishap /\ Storing = {} /\ file = tokens /\ tokens' = tokens
  <2>1. ~mishap /\ Storing = {}
    BY <1>6 DEF Restart
  <2>2. Saving = {} /\ ~saveLost
    BY <2>1 DEF SpotifyInv, Saving, Storing, FileInv, LossIsMishap
  <2>3. file = tokens
    BY <2>1, <2>2 DEF SpotifyInv, FileInv, FileKeepsUp
  <2>. QED
    BY <1>1, <1>2, <2>1, <2>3, StoreAssumption DEF Typed, StoreAssumption
<1>7. NotLockedOut' /\ LossIsMishap'
  BY <1>1, <1>2, <1>6, StoreAssumption DEF SpotifyInv, NotLockedOut, LossIsMishap, Typed,
     StoreAssumption
<1>8. FileKeepsUp'
  BY <1>2 DEF FileKeepsUp
<1>. QED
  BY <1>4, <1>5, <1>7, <1>8 DEF SpotifyInv, OneStores, Granted, FileInv

-----------------------------------------------------------------------------
LEMMA SpotifyStep == SpotifyInv /\ [SpotifyNext]_spotifyVars => SpotifyInv'
<1>. SUFFICES ASSUME SpotifyInv, [SpotifyNext]_spotifyVars PROVE SpotifyInv'
  OBVIOUS
<1>1. ASSUME NEW c \in Requests, ClientStep(c) PROVE SpotifyInv'
  BY <1>1, ClientMoves, RefreshKeeps, LostKeeps DEF ClientStep
<1>2. ASSUME NEW h \in Handlers, HandlerStep(h) PROVE SpotifyInv'
  BY <1>2, HandlerMoves, ExchangeKeeps DEF HandlerStep
<1>3. ASSUME NEW w \in Workers, StoreStep(w)
      PROVE  SpotifyInv'
  BY <1>3, StoreKeeps, SaveBeginKeeps, FileWrittenKeeps, SaveEndKeeps, SaveFailsKeeps DEF StoreStep
<1>4. CASE WebRequest \/ Callback
  BY <1>4, RequestKeeps, CallbackKeeps
<1>5. CASE TokenAges \/ Restart
  BY <1>5, AgesKeeps, RestartKeeps
<1>6. CASE UNCHANGED spotifyVars
  <2>1. Storing' = Storing /\ \A w \in Storing : Stored(w)' = Stored(w)
    BY <1>6 DEF Storing, Stored, spotifyVars
  <2>. QED
    BY <1>6, <2>1 DEF spotifyVars, SpotifyInv, Typed, Locked, Unused, HasTokens, OneStores,
                      Granted, NotLockedOut, FileInv, HalfSaved, LossIsMishap, FileKeepsUp, Saving
<1>. QED
  BY <1>1, <1>2, <1>3, <1>4, <1>5, <1>6 DEF SpotifyNext, WorkerStep

LEMMA SpotifyAlways == SpotifySpec => []SpotifyInv
BY SpotifyInitOK, SpotifyStep, PTL DEF SpotifySpec

\* The stored refresh token is one the service accepts, for any number of requests,
\* callbacks, refreshes and restarts (token.go:112, api.go:82).
THEOREM UserNotLockedOut == SpotifySpec => []NotLockedOut
BY SpotifyAlways, PTL DEF SpotifyInv

\* When nobody is in the middle of save, the file holds the tokens in memory, or is torn
\* if the last save that truncated it was cut short, for any number of overlapping
\* stores, lost answers and restarts (token.go:55 to 77, 112 to 126).
THEOREM FileAlwaysKeepsUp == SpotifySpec => []FileKeepsUp
BY SpotifyAlways, PTL DEF SpotifyInv, FileInv

-----------------------------------------------------------------------------
(* Likes.  While the likes counted do not overlap, one is under way at     *)
(* most, and what its first request found is still true when its second    *)
(* one is sent.                                                            *)

Likes(c) == worker[c].op \in {"contains", "change"}

LikeInv ==
  /\ toggles \in Nat \cup {-1}
  /\ toggles >= 0 =>
       /\ LikesToggle
       /\ \A c, d \in Requests : Likes(c) /\ Likes(d) => c = d
       /\ \A c \in Requests : worker[c].op = "change" => worker[c].ok = library

LEMMA IdleLikesNothing == Idle.op = "none"
BY DEF Idle

\* A request goes on with the same question, or ends.
SameQuestion(c) ==
  \/ worker'[c].op = "none"
  \/ worker'[c].op = worker[c].op /\ worker'[c].ok = worker[c].ok

LEMMA LikesWait ==
  ASSUME LikeInv,
         \/ toggles' = -1
         \/ UNCHANGED <<library, toggles>> /\ \A c \in Requests : SameQuestion(c)
  PROVE  LikeInv'
<1>1. CASE toggles' = -1
  BY <1>1 DEF LikeInv
<1>2. CASE UNCHANGED <<library, toggles>> /\ \A c \in Requests : SameQuestion(c)
  <2>1. ASSUME NEW c \in Requests, Likes(c)' PROVE Likes(c)
    BY <1>2, <2>1 DEF Likes, SameQuestion
  <2>2. ASSUME toggles >= 0, NEW c \in Requests, worker'[c].op = "change"
        PROVE  worker'[c].ok = library'
    BY <1>2, <2>2 DEF LikeInv, SameQuestion
  <2>. QED
    BY <1>2, <2>1, <2>2 DEF LikeInv, LikesToggle
<1>. QED
  BY <1>1, <1>2

\* A worker that goes on so asks the same, or nothing any more.
Asks(new, w) ==
  \/ new.op = "none"
  \/ new.op = worker[w].op /\ new.ok = worker[w].ok

LEMMA OneAsks ==
  ASSUME SpotifyInv, LikeInv, NEW w \in Workers, NEW new,
         worker' = [worker EXCEPT ![w] = new], w \in Requests => Asks(new, w),
         UNCHANGED <<library, toggles>>
  PROVE  LikeInv'
<1>1. worker \in [Workers -> WorkerType] /\ Requests \subseteq Workers
  BY Numbers DEF SpotifyInv, Typed
<1>2. ASSUME NEW c \in Requests PROVE SameQuestion(c)
  BY <1>1 DEF SameQuestion, Asks
<1>. QED
  BY <1>2, LikesWait

LEMMA FailAsks ==
  ASSUME SpotifyInv, NEW c \in Requests PROVE Asks(AfterFailure(c), c)
<1>1. worker[c] \in WorkerType
  BY Numbers DEF SpotifyInv, Typed
<1>2. Asks(Idle, c)
  BY IdleLikesNothing DEF Asks
<1>3. Asks([worker[c] EXCEPT !.pc = "script"], c)
  BY <1>1 DEF Asks, WorkerType
<1>. QED
  BY <1>2, <1>3 DEF AfterFailure

LEMMA RequestLikes == ASSUME SpotifyInv, LikeInv, WebRequest PROVE LikeInv'
<1>1. Typed /\ worker \in [Workers -> WorkerType] /\ Requests \subseteq Workers
      /\ requests \in 0 .. MaxRequests /\ requests < MaxRequests
  BY Numbers DEF SpotifyInv, Typed, WebRequest
<1>. DEFINE c == requests + 1
<1>2. c \in Requests /\ UNCHANGED library
  BY <1>1, Numbers DEF Requests, WebRequest
<1>3. PICK op \in {"search", "play", "contains", "auth"} :
        /\ \E pc \in FirstStep(op) :
             worker' = [worker EXCEPT ![c] = [Idle EXCEPT !.op = op, !.pc = pc]]
        /\ toggles' = IF op = "contains" /\ \E d \in Requests : worker[d].op \in {"contains", "change"}
                      THEN -1 ELSE toggles
  BY DEF WebRequest
<1>4. PICK pc : worker' = [worker EXCEPT ![c] = [Idle EXCEPT !.op = op, !.pc = pc]]
  BY <1>3
<1>5. [Idle EXCEPT !.op = op, !.pc = pc].op = op
  BY DEF Idle
<1>6. worker'[c].op = op /\ \A d \in Requests \ {c} : worker'[d] = worker[d]
  BY <1>1, <1>2, <1>4, <1>5
<1>7. CASE toggles' = -1
  BY <1>7, LikesWait
<1>8. CASE op # "contains"
  <2>1. toggles' = toggles /\ worker'[c].op \notin {"contains", "change"}
    BY <1>3, <1>6, <1>8
  <2>2. ASSUME NEW d \in Requests, Likes(d)' PROVE Likes(d) /\ worker'[d] = worker[d]
    BY <1>6, <2>1, <2>2 DEF Likes
  <2>3. ASSUME toggles >= 0, NEW d \in Requests, worker'[d].op = "change"
        PROVE  worker'[d].ok = library'
    BY <1>2, <2>2, <2>3 DEF LikeInv, Likes
  <2>. QED
    BY <1>2, <2>1, <2>2, <2>3 DEF LikeInv, LikesToggle
<1>9. CASE op = "contains" /\ \A d \in Requests : ~Likes(d)
  <2>1. toggles' = toggles
    BY <1>3, <1>9 DEF Likes
  <2>2. \A d \in Requests : Likes(d)' => d = c
    BY <1>6, <1>9 DEF Likes
  <2>3. \A d \in Requests : worker'[d].op # "change"
    BY <1>6, <1>9 DEF Likes
  <2>. QED
    BY <1>2, <2>1, <2>2, <2>3 DEF LikeInv, LikesToggle
<1>. QED
  BY <1>3, <1>7, <1>8, <1>9 DEF Likes

LEMMA Parity == ASSUME NEW n \in Nat PROVE ((n + 1) % 2 = 1) = ~(n % 2 = 1)
OBVIOUS

LEMMA AnswerLikes ==
  ASSUME SpotifyInv, LikeInv, NEW c \in Requests, RequestAnswered(c) PROVE LikeInv'
<1>1. worker \in [Workers -> WorkerType] /\ Requests \subseteq Workers /\ c \in Workers
      /\ worker[c] \in WorkerType /\ library \in BOOLEAN
  BY Numbers DEF SpotifyInv, Typed
<1>. DEFINE new == IF worker[c].op = "contains"
                   THEN [worker[c] EXCEPT !.pc = "ensure", !.op = "change", !.ok = library, !.again = FALSE]
                   ELSE Idle
<1>2. worker' = [worker EXCEPT ![c] = new]
  BY DEF RequestAnswered
<1>3. worker'[c] = new /\ \A d \in Requests \ {c} : worker'[d] = worker[d]
  BY <1>1, <1>2
<1>4. CASE worker[c].op = "contains"
  <2>1. UNCHANGED <<library, toggles>>
    BY <1>4 DEF RequestAnswered
  <2>2. worker'[c].op = "change" /\ worker'[c].ok = library /\ Likes(c)
    BY <1>1, <1>3, <1>4 DEF WorkerType, Likes
  <2>3. \A d \in Requests : Likes(d)' => Likes(d)
    BY <1>3, <2>2 DEF Likes
  <2>4. ASSUME toggles >= 0, NEW d \in Requests, worker'[d].op = "change"
        PROVE  worker'[d].ok = library'
    BY <1>3, <2>1, <2>2, <2>4 DEF LikeInv
  <2>. QED
    BY <2>1, <2>3, <2>4 DEF LikeInv, LikesToggle
<1>5. CASE worker[c].op = "change"
  <2>1. library' = ~worker[c].ok /\ toggles' = IF toggles < 0 THEN toggles ELSE toggles + 1
    BY <1>5 DEF RequestAnswered
  <2>2. ~Likes(c)' /\ Likes(c)
    BY <1>3, <1>5, IdleLikesNothing DEF Likes
  <2>3. CASE toggles = -1
    BY <2>1, <2>3, LikesWait
  <2>4. CASE toggles \in Nat
    <3>1. \A d \in Requests : ~Likes(d)'
      BY <1>3, <2>2, <2>4 DEF LikeInv, Likes
    <3>2. library' = ~library /\ toggles' = toggles + 1 /\ library = (toggles % 2 = 1)
      BY <1>5, <2>1, <2>4 DEF LikeInv, LikesToggle
    <3>3. library' = (toggles' % 2 = 1)
      BY <2>4, <3>2, Parity
    <3>. QED
      BY <2>4, <3>1, <3>2, <3>3 DEF LikeInv, LikesToggle, Likes
  <2>. QED
    BY <2>3, <2>4 DEF LikeInv
<1>6. CASE worker[c].op \notin {"contains", "change"}
  <2>1. UNCHANGED <<library, toggles>>
    BY <1>6 DEF RequestAnswered
  <2>2. Asks(new, c)
    BY <1>6, IdleLikesNothing DEF Asks
  <2>. QED
    BY <1>1, <1>2, <2>1, <2>2, OneAsks
<1>. QED
  BY <1>4, <1>5, <1>6
LEMMA StepLikes ==
  ASSUME SpotifyInv, LikeInv, NEW c \in Requests, ClientStep(c), ~RequestAnswered(c)
  PROVE  LikeInv'
<1>1. worker \in [Workers -> WorkerType] /\ Requests \subseteq Workers /\ c \in Workers
      /\ worker[c] \in WorkerType
  BY Numbers DEF SpotifyInv, Typed
<1>2. CASE toggles' = -1
  BY <1>2, LikesWait
<1>3. CASE toggles' # -1
  <2>1. UNCHANGED <<library, toggles>>
    BY <1>3 DEF ClientStep, EnsureToken, AccessToken, RefreshToken, RefreshAnswered,
         RefreshRefused, RefreshLost, Unauthorized, RequestLost, Script, BindCallback,
         AuthReturns, AuthTimesOut
  <2>2. PICK new : worker' = [worker EXCEPT ![c] = new] /\ Asks(new, c)
    <3>1. CASE Fail(c)
      BY <3>1, FailAsks DEF Fail
    <3>2. CASE worker' = [worker EXCEPT ![c] = Idle]
      BY <3>2, IdleLikesNothing DEF Asks
    <3>3. ASSUME NEW pc, Goto(c, pc)
          PROVE  worker' = [worker EXCEPT ![c] = [worker[c] EXCEPT !.pc = pc]]
                 /\ Asks([worker[c] EXCEPT !.pc = pc], c)
      BY <1>1, <3>3 DEF Goto, Asks, WorkerType
    <3>4. CASE EnsureToken(c) \/ BindCallback(c)
      BY <3>1, <3>2, <3>3, <3>4 DEF EnsureToken, BindCallback
    <3>5. CASE AccessToken(c)
      <4>. DEFINE new == [worker[c] EXCEPT !.pc = "send", !.tok = tokens.access]
      <4>1. worker' = [worker EXCEPT ![c] = new] /\ Asks(new, c)
        BY <1>1, <3>5 DEF AccessToken, Asks, WorkerType
      <4>. QED
        BY <4>1
    <3>6. CASE RefreshToken(c)
      <4>. DEFINE new == [worker[c] EXCEPT !.pc = "post", !.tok = tokens.refresh]
      <4>1. Asks(new, c)
        BY <1>1 DEF Asks, WorkerType
      <4>2. Fail(c) \/ worker' = [worker EXCEPT ![c] = new]
        BY <3>6 DEF RefreshToken
      <4>. QED
        BY <3>1, <4>1, <4>2
    <3>7. CASE RefreshAnswered(c)
      <4>1. PICK grant : worker' = [worker EXCEPT ![c].pc = "store", ![c].tok = 0, ![c].grant = grant]
        BY <3>7 DEF RefreshAnswered
      <4>. DEFINE new == [worker[c] EXCEPT !.pc = "store", !.tok = 0, !.grant = grant]
      <4>2. worker' = [worker EXCEPT ![c] = new] /\ Asks(new, c)
        BY <1>1, <4>1 DEF Asks, WorkerType
      <4>. QED
        BY <4>2
    <3>8. CASE Unauthorized(c)
      <4>. DEFINE new == [worker[c] EXCEPT !.pc = "refresh", !.again = TRUE]
      <4>1. Asks(new, c)
        BY <1>1 DEF Asks, WorkerType
      <4>. QED
        BY <3>1, <3>8, <4>1 DEF Unauthorized
    <3>9. CASE RefreshRefused(c) \/ RefreshLost(c) \/ RequestLost(c)
      BY <3>1, <3>9 DEF RefreshRefused, RefreshLost, RequestLost
    <3>10. CASE Script(c) \/ AuthReturns(c) \/ AuthTimesOut(c)
      BY <3>2, <3>10 DEF Script, AuthReturns, AuthTimesOut
    <3>. QED
      BY <3>4, <3>5, <3>6, <3>7, <3>8, <3>9, <3>10 DEF ClientStep
  <2>. QED
    BY <1>1, <2>1, <2>2, OneAsks
<1>. QED
  BY <1>2, <1>3

LEMMA StoreLikes ==
  ASSUME SpotifyInv, LikeInv, NEW w \in Workers,
         StoreStep(w)
  PROVE  LikeInv'
<1>1. worker[w] \in WorkerType /\ UNCHANGED <<library, toggles>>
  BY DEF SpotifyInv, Typed, StoreStep, Store, SaveBegin, FileWritten, SaveEnd, SaveFails, SaveRefused
<1>2. PICK pc, grant : worker' = [worker EXCEPT ![w] = [worker[w] EXCEPT !.pc = pc, !.grant = grant]]
  <2>1. CASE Store(w)
    <3>. DEFINE kept == IF worker[w].grant.refresh = 0 /\ tokens # NoTokens THEN tokens.refresh
                        ELSE worker[w].grant.refresh
    <3>1. worker' = [worker EXCEPT ![w] =
                       [worker[w] EXCEPT !.pc = "save", !.grant = [@ EXCEPT !.refresh = kept]]]
      BY <1>1, <2>1 DEF Store, WorkerType, Token
    <3>. QED
      BY <3>1
  <2>2. CASE SaveBegin(w) \/ FileWritten(w)
    <3>1. PICK pc : worker' = [worker EXCEPT ![w].pc = pc]
      BY <2>2 DEF SaveBegin, FileWritten, Goto
    <3>2. worker' = [worker EXCEPT ![w] = [worker[w] EXCEPT !.pc = pc, !.grant = worker[w].grant]]
      BY <1>1, <3>1 DEF WorkerType
    <3>. QED
      BY <3>2
  <2>3. CASE SaveEnd(w) \/ SaveFails(w) \/ SaveRefused(w)
    <3>. DEFINE pc == IF w \in Handlers THEN "result" ELSE "token"
    <3>1. worker' = [worker EXCEPT ![w] = [worker[w] EXCEPT !.pc = pc, !.grant = Nothing]]
      BY <1>1, <2>3 DEF SaveEnd, SaveFails, SaveRefused, AfterSave, WorkerType
    <3>. QED
      BY <3>1
  <2>. QED
    BY <2>1, <2>2, <2>3 DEF StoreStep
<1>3. Asks([worker[w] EXCEPT !.pc = pc, !.grant = grant], w)
  BY <1>1 DEF Asks, WorkerType
<1>. QED
  BY <1>1, <1>2, <1>3, OneAsks

LEMMA RestLikes ==
  ASSUME SpotifyInv, LikeInv,
         \/ \E h \in Handlers : HandlerStep(h)
         \/ Callback \/ TokenAges \/ Restart \/ UNCHANGED spotifyVars
  PROVE  LikeInv'
<1>1. worker \in [Workers -> WorkerType] /\ Requests \subseteq Workers
  BY Numbers DEF SpotifyInv, Typed
<1>2. ASSUME NEW h \in Handlers, HandlerStep(h) PROVE LikeInv'
  <2>1. h \in Workers /\ h \notin Requests /\ UNCHANGED <<library, toggles>>
    BY <1>2, Numbers DEF HandlerStep, ExchangeAnswered, ExchangeFails, CallbackResult
  <2>2. \A c \in Requests : worker'[c] = worker[c]
    BY <1>1, <1>2, <2>1 DEF HandlerStep, ExchangeAnswered, ExchangeFails, CallbackResult, Goto
  <2>. QED
    BY <2>1, <2>2, LikesWait DEF SameQuestion
<1>3. CASE Callback
  <2>1. callbacks' = callbacks + 1 /\ UNCHANGED <<library, toggles>>
    BY <1>3 DEF Callback
  <2>2. MaxRequests + callbacks' \notin Requests
    BY <2>1, Numbers DEF SpotifyInv, Typed, Requests
  <2>3. \A c \in Requests : worker'[c] = worker[c]
    BY <1>1, <1>3, <2>2 DEF Callback
  <2>. QED
    BY <2>1, <2>3, LikesWait DEF SameQuestion
<1>4. CASE TokenAges \/ UNCHANGED spotifyVars
  BY <1>4, LikesWait DEF TokenAges, spotifyVars, SameQuestion
<1>5. CASE Restart
  <2>1. \A c \in Requests : worker'[c].op = "none"
    BY <1>1, <1>5, IdleLikesNothing DEF Restart
  <2>2. UNCHANGED library /\ toggles' \in {toggles, -1}
    BY <1>5 DEF Restart
  <2>. QED
    BY <2>1, <2>2, LikesWait DEF SameQuestion
<1>. QED
  BY <1>2, <1>3, <1>4, <1>5

LEMMA LikesStep == SpotifyInv /\ LikeInv /\ [SpotifyNext]_spotifyVars => LikeInv'
<1>. SUFFICES ASSUME SpotifyInv, LikeInv, [SpotifyNext]_spotifyVars PROVE LikeInv'
  OBVIOUS
<1>1. ASSUME NEW c \in Requests, ClientStep(c) PROVE LikeInv'
  BY <1>1, StepLikes, AnswerLikes
<1>. QED
  BY <1>1, RequestLikes, StoreLikes, RestLikes DEF SpotifyNext, WorkerStep

LEMMA LikesStart == SpotifyInit => LikeInv
<1>. SUFFICES ASSUME SpotifyInit PROVE LikeInv
  OBVIOUS
<1>1. toggles = 0 /\ library = FALSE /\ \A c \in Requests : worker[c].op = "none"
  BY IdleLikesNothing, Numbers DEF SpotifyInit
<1>2. ~(0 % 2 = 1)
  OBVIOUS
<1>3. LikesToggle
  BY <1>1, <1>2 DEF LikesToggle
<1>. QED
  BY <1>1, <1>3 DEF LikeInv, Likes

\* Likes that the web API answered and that did not overlap leave the track saved
\* after an odd number and as it was after an even one, for any number of requests,
\* whatever else goes on (spotify.go:206).
THEOREM LikesAlwaysToggle == SpotifySpec => []LikesToggle
<1>1. LikeInv => LikesToggle
  BY DEF LikeInv, LikesToggle
<1>. QED
  BY <1>1, SpotifyAlways, LikesStart, LikesStep, PTL DEF SpotifySpec
-----------------------------------------------------------------------------
(* The types: what the handlers do, the ages of tokens, and the callback   *)
(* server, of which there is one at most.                                  *)

HandlerPcs == {"idle", "exchange", "store", "save", "written", "assign", "result", "over"}
FlowType   == [open : BOOLEAN, done : {"", "ok", "error"}, late : BOOLEAN]

Handling == \A h \in Handlers : worker[h].pc \in HandlerPcs
Ages     == stale \subseteq 1 .. issued /\ dead \subseteq 1 .. issued
Flows    ==
  /\ flow \in [Requests -> FlowType]
  /\ \A f, g \in Requests : flow[f].open /\ flow[g].open => f = g

LEMMA AgesStep == SpotifyInv /\ Ages /\ [SpotifyNext]_spotifyVars => Ages'
<1>. SUFFICES ASSUME SpotifyInv, Ages, [SpotifyNext]_spotifyVars PROVE Ages'
  OBVIOUS
<1>1. issued \in Nat
  BY Numbers DEF SpotifyInv, Typed
<1>2. CASE UNCHANGED <<stale, dead>> /\ (UNCHANGED issued \/ issued' = issued + 1)
  <2>1. issued' \in Nat /\ 1 .. issued \subseteq 1 .. issued'
    BY <1>1, <1>2
  <2>. QED
    BY <1>2, <2>1 DEF Ages
<1>3. CASE TokenAges
  BY <1>3 DEF TokenAges, Ages
<1>4. ASSUME NEW c \in Requests, ClientStep(c)
      PROVE  UNCHANGED <<stale, dead>> /\ (UNCHANGED issued \/ issued' = issued + 1)
  BY <1>4 DEF ClientStep, EnsureToken, AccessToken, RefreshToken, RefreshAnswered, RefreshRefused,
         RefreshLost, Unauthorized, RequestAnswered, RequestLost, Script, BindCallback,
         AuthReturns, AuthTimesOut
<1>5. ASSUME NEW w \in Workers, WorkerStep(w), ~(w \in Requests /\ ClientStep(w))
      PROVE  UNCHANGED <<stale, dead>> /\ (UNCHANGED issued \/ issued' = issued + 1)
  BY <1>5 DEF WorkerStep, HandlerStep, ExchangeAnswered, ExchangeFails, CallbackResult,
         StoreStep, Store, SaveBegin, FileWritten, SaveEnd, SaveFails, SaveRefused
<1>6. WebRequest \/ Callback \/ Restart \/ UNCHANGED spotifyVars
      => UNCHANGED <<stale, dead, issued>>
  BY DEF WebRequest, Callback, Restart, spotifyVars
<1>. QED
  BY <1>2, <1>3, <1>4, <1>5, <1>6 DEF SpotifyNext, WorkerStep

LEMMA HandlingStep == SpotifyInv /\ Handling /\ [SpotifyNext]_spotifyVars => Handling'
<1>. SUFFICES ASSUME SpotifyInv, Handling, [SpotifyNext]_spotifyVars,
                     NEW h \in Handlers
              PROVE  worker'[h].pc \in HandlerPcs
  BY DEF Handling
<1>1. /\ worker \in [Workers -> WorkerType] /\ h \in Workers /\ h \notin Requests
      /\ worker[h] \in WorkerType /\ worker[h].pc \in HandlerPcs
  BY Numbers DEF SpotifyInv, Typed, Handling
<1>2. CASE worker'[h] = worker[h]
  BY <1>1, <1>2
<1>3. CASE \E c \in Requests : ClientStep(c)
  <2>1. PICK c \in Requests : ClientStep(c)
    BY <1>3
  <2>2. worker'[h] = worker[h]
    BY <1>1, <2>1 DEF ClientStep, EnsureToken, AccessToken, RefreshToken, RefreshAnswered,
         RefreshRefused, RefreshLost, Unauthorized, RequestAnswered, RequestLost, Script,
         BindCallback, AuthReturns, AuthTimesOut, Goto, Fail
  <2>. QED
    BY <1>2, <2>2
<1>4. ASSUME NEW w \in Handlers, HandlerStep(w) PROVE worker'[h].pc \in HandlerPcs
  <2>1. w # h => worker'[h] = worker[h]
    BY <1>1, <1>4 DEF HandlerStep, ExchangeAnswered, ExchangeFails, CallbackResult, Goto
  <2>2. w = h => worker'[h].pc \in {"store", "result", "over"}
    <3>1. ExchangeAnswered(h) => worker'[h].pc = "store"
      BY <1>1 DEF ExchangeAnswered, WorkerType
    <3>2. ASSUME NEW pc, Goto(h, pc) PROVE worker'[h].pc = pc
      BY <1>1, <3>2 DEF Goto, WorkerType
    <3>. QED
      BY <1>4, <3>1, <3>2 DEF HandlerStep, ExchangeFails, CallbackResult
  <2>. QED
    BY <1>1, <2>1, <2>2 DEF HandlerPcs
<1>5. ASSUME NEW w \in Workers, StoreStep(w)
      PROVE  worker'[h].pc \in HandlerPcs
  <2>1. w # h => worker'[h] = worker[h]
    BY <1>1, <1>5 DEF StoreStep, Store, SaveBegin, FileWritten, SaveEnd, SaveFails, SaveRefused,
       AfterSave, Goto
  <2>2. w = h => worker'[h].pc \in {"save", "written", "assign", "result"}
    BY <1>1, <1>5 DEF StoreStep, Store, SaveBegin, FileWritten, SaveEnd, SaveFails, SaveRefused,
       AfterSave, Goto, WorkerType
  <2>. QED
    BY <1>1, <2>1, <2>2 DEF HandlerPcs
<1>6. CASE WebRequest
  <2>1. requests + 1 \in Requests
    BY <1>6, Numbers DEF SpotifyInv, Typed, WebRequest, Requests
  <2>2. worker'[h] = worker[h]
    BY <1>1, <1>6, <2>1 DEF WebRequest
  <2>. QED
    BY <1>2, <2>2
<1>7. CASE Callback
  <2>. DEFINE i == MaxRequests + callbacks'
  <2>1. PICK f \in DOMAIN flow, pc \in {"exchange", "result"} :
          worker' = [worker EXCEPT ![i] = [Idle EXCEPT !.pc = pc, !.flow = f]]
    BY <1>7 DEF Callback
  <2>. HIDE DEF i
  <2>2. [Idle EXCEPT !.pc = pc, !.flow = f].pc = pc
    BY DEF Idle
  <2>3. i # h => worker'[h] = worker[h]
    BY <1>1, <2>1
  <2>4. i = h => worker'[h].pc = pc
    BY <1>1, <2>1, <2>2
  <2>. QED
    BY <1>1, <2>3, <2>4 DEF HandlerPcs
<1>8. CASE Restart
  <2>1. worker'[h].pc = "idle"
    BY <1>1, <1>8, IdleTyped DEF Restart
  <2>. QED
    BY <2>1 DEF HandlerPcs
<1>9. CASE TokenAges \/ UNCHANGED spotifyVars
  BY <1>2, <1>9 DEF TokenAges, spotifyVars
<1>. QED
  BY <1>3, <1>4, <1>5, <1>6, <1>7, <1>8, <1>9 DEF SpotifyNext, WorkerStep

LEMMA FlowsStep == SpotifyInv /\ Flows /\ [SpotifyNext]_spotifyVars => Flows'
<1>. SUFFICES ASSUME SpotifyInv, Flows, [SpotifyNext]_spotifyVars PROVE Flows'
  OBVIOUS
<1>1. flow \in [Requests -> FlowType] /\ \A f, g \in Requests : flow[f].open /\ flow[g].open => f = g
  BY DEF Flows
\* One flow changes and it is not opened beside another one.
<1>2. ASSUME NEW c, NEW new \in FlowType, flow' = [flow EXCEPT ![c] = new],
             c \in Requests /\ new.open => \A f \in Requests \ {c} : ~flow[f].open
      PROVE  Flows'
  BY <1>1, <1>2 DEF Flows
<1>3. CASE UNCHANGED flow
  BY <1>1, <1>3 DEF Flows
<1>4. ASSUME NEW c \in Requests, BindCallback(c) PROVE Flows'
  <2>1. CASE UNCHANGED flow
    BY <1>3, <2>1
  <2>2. CASE (\A f \in Requests : ~flow[f].open) /\ flow' = [flow EXCEPT ![c].open = TRUE]
    <3>. DEFINE new == [flow[c] EXCEPT !.open = TRUE]
    <3>1. new \in FlowType /\ flow' = [flow EXCEPT ![c] = new]
      BY <1>1, <2>2 DEF FlowType
    <3>. QED
      BY <1>2, <2>2, <3>1
  <2>. QED
    BY <1>1, <1>4, <2>1, <2>2 DEF BindCallback
<1>5. ASSUME NEW c \in Requests, AuthReturns(c) \/ AuthTimesOut(c) PROVE Flows'
  <2>1. CASE AuthReturns(c)
    <3>. DEFINE new == [flow[c] EXCEPT !.done = "", !.open = FALSE]
    <3>1. new \in FlowType /\ new.open = FALSE /\ flow' = [flow EXCEPT ![c] = new]
      BY <1>1, <2>1 DEF FlowType, AuthReturns
    <3>. QED
      BY <1>2, <3>1
  <2>2. CASE AuthTimesOut(c)
    <3>. DEFINE new == [flow[c] EXCEPT !.open = FALSE, !.late = TRUE]
    <3>1. new \in FlowType /\ new.open = FALSE /\ flow' = [flow EXCEPT ![c] = new]
      BY <1>1, <2>2 DEF FlowType, AuthTimesOut
    <3>. QED
      BY <1>2, <3>1
  <2>. QED
    BY <1>5, <2>1, <2>2
<1>6. ASSUME NEW h \in Handlers, CallbackResult(h) PROVE Flows'
  <2>. DEFINE c == worker[h].flow
  <2>1. PICK done \in {"ok", "error"} : flow' = [flow EXCEPT ![c].done = done]
    BY <1>6 DEF CallbackResult
  <2>2. CASE c \notin Requests
    <3>1. flow' = flow
      BY <1>1, <2>1, <2>2
    <3>. QED
      BY <1>3, <3>1
  <2>3. CASE c \in Requests
    <3>. DEFINE new == [flow[c] EXCEPT !.done = done]
    <3>1. new \in FlowType /\ new.open = flow[c].open /\ flow' = [flow EXCEPT ![c] = new]
      BY <1>1, <2>1, <2>3 DEF FlowType
    <3>2. new.open => \A f \in Requests \ {c} : ~flow[f].open
      BY <1>1, <2>3, <3>1
    <3>. QED
      BY <1>2, <3>1, <3>2
  <2>. QED
    BY <2>2, <2>3
<1>7. CASE Restart
  <2>1. flow' = [f \in Requests |-> [open |-> FALSE, done |-> "", late |-> FALSE]]
    BY <1>1, <1>7 DEF Restart
  <2>. QED
    BY <2>1 DEF Flows, FlowType
<1>8. ASSUME NEW c \in Requests, ClientStep(c) PROVE Flows'
  <2>1. BindCallback(c) \/ AuthReturns(c) \/ AuthTimesOut(c) \/ UNCHANGED flow
    BY <1>8 DEF ClientStep, EnsureToken, AccessToken, RefreshToken, RefreshAnswered,
         RefreshRefused, RefreshLost, Unauthorized, RequestAnswered, RequestLost, Script
  <2>. QED
    BY <1>3, <1>4, <1>5, <2>1
<1>9. ASSUME NEW w \in Workers, WorkerStep(w), ~(w \in Requests /\ ClientStep(w)) PROVE Flows'
  <2>1. (w \in Handlers /\ CallbackResult(w)) \/ UNCHANGED flow
    BY <1>9 DEF WorkerStep, HandlerStep, ExchangeAnswered, ExchangeFails,
         StoreStep, Store, SaveBegin, FileWritten, SaveEnd, SaveFails, SaveRefused
  <2>. QED
    BY <1>3, <1>6, <2>1
<1>10. WebRequest \/ Callback \/ TokenAges \/ UNCHANGED spotifyVars => UNCHANGED flow
  BY DEF WebRequest, Callback, TokenAges, spotifyVars
<1>. QED
  BY <1>3, <1>7, <1>8, <1>9, <1>10 DEF SpotifyNext, WorkerStep

LEMMA OpenOnce == Flows => Cardinality({f \in DOMAIN flow : flow[f].open}) <= 1
<1>. SUFFICES ASSUME Flows PROVE Cardinality({f \in DOMAIN flow : flow[f].open}) <= 1
  OBVIOUS
<1>. DEFINE open == {f \in DOMAIN flow : flow[f].open}
<1>1. \A f, g \in open : f = g
  BY DEF Flows
<1>. HIDE DEF open
<1>. SUFFICES Cardinality(open) <= 1
  BY DEF open
<1>2. CASE open = {}
  BY <1>2, FS_EmptySet
<1>3. CASE open # {}
  <2>1. PICK f : open = {f}
    BY <1>1, <1>3
  <2>. QED
    BY <2>1, FS_Singleton
<1>. QED
  BY <1>2, <1>3

\* The types of the tokens, the workers and the service; the lock of the tokens is
\* held by the worker in the middle of save and no other (token.go:112); handlers of
\* callbacks do what handlers do, and one callback server listens at most
\* (auth.go:58), for any number of requests, callbacks and grants.
THEOREM SpotifyTypeCorrect == SpotifySpec => []SpotifyTypeOK
<1>1. SpotifyInit => Handling /\ Ages /\ Flows
  <2>. SUFFICES ASSUME SpotifyInit PROVE Handling /\ Ages /\ Flows
    OBVIOUS
  <2>1. Handling
    BY IdleTyped, Numbers DEF SpotifyInit, Handling, HandlerPcs
  <2>2. Ages
    BY DEF SpotifyInit, Ages
  <2>3. Flows
    BY DEF SpotifyInit, Flows, FlowType
  <2>. QED
    BY <2>1, <2>2, <2>3
<1>2. SpotifyInv /\ Handling /\ Ages /\ Flows => SpotifyTypeOK
  <2>. SUFFICES ASSUME SpotifyInv, Handling, Ages, Flows PROVE SpotifyTypeOK
    OBVIOUS
  <2>1. ASSUME NEW w \in Workers
        PROVE  /\ worker[w].tok \in Grants /\ worker[w].grant \in Token
               /\ (storeLock = w) = (w \in Saving)
               /\ w \in Handlers => worker[w].pc \in HandlerPcs
    BY DEF SpotifyInv, Typed, WorkerType, Locked, Saving, Handling
  <2>2. tokens \in Token \cup {NoTokens} /\ file \in Token \cup {NoTokens, Torn}
        /\ live \subseteq 1 .. issued /\ issued \in 1 .. MaxGrants
    BY DEF SpotifyInv, Typed
  <2>. QED
    BY <2>1, <2>2, OpenOnce DEF SpotifyTypeOK, HandlerPcs, Ages
<1>. QED
  BY <1>1, <1>2, SpotifyAlways, HandlingStep, AgesStep, FlowsStep, PTL DEF SpotifySpec
=============================================================================
