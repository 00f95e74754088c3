------------------------------ MODULE TuiProofs ------------------------------
(***************************************************************************)
(* Proofs about Tui, for any number of calls, results and broken           *)
(* connections: its types, that typing is not disturbed by a search        *)
(* started later, and that the flash of the authorization is honest; about *)
(* TuiScreen, that what is drawn fits; and about Visualizer, for every set *)
(* of sizes, every number of dot rows and every staleness: its types, that *)
(* the waterfall draws the newest snapshots in their order, that the flame *)
(* fits the bars, and that the bars follow the spectrum while it arrives.  *)
(***************************************************************************)
EXTENDS Tui, TuiScreen, Visualizer, SequenceTheorems, TLAPS

Calls == [kind : Kinds, conn : 1 .. MaxBreaks + 1, stage : Stages,
          ok : BOOLEAN, number : 0 .. MaxResults]

\* While a query is being typed no search starts.
Typing == searchMode => Outstanding("search") \subseteq before

\* The flash says that a browser opens only while an authorization is on its way.
Browser == flash = "opening browser..." => offline \/ Outstanding("auth") # {}

USE DEF dialogVars, callVars, linkVars

-----------------------------------------------------------------------------
(* Calls.                                                                  *)

LEMMA AnsweredType ==
  ASSUME NEW c \in Calls, NEW isOk \in BOOLEAN, NEW number \in 0 .. MaxResults
  PROVE  /\ Answered(c, isOk, number) \in Calls
         /\ Answered(c, isOk, number).kind = c.kind
         /\ c.kind # "transport" => Answered(c, isOk, number).stage # "over"
BY DEF Answered, Calls, Stages

\* A started call is the last one, and the others are as they were.
LEMMA StartCall ==
  ASSUME TuiTypeOK, NEW kind \in Kinds, Start(kind)
  PROVE  /\ call' \in Seq(Calls) /\ Len(call') <= MaxKeys
         /\ DOMAIN call \subseteq DOMAIN call'
         /\ \A c \in DOMAIN call : call'[c] = call[c]
         /\ \A c \in DOMAIN call' \ DOMAIN call : call'[c].kind = kind
         /\ client # 0 => \E c \in DOMAIN call' : call'[c].kind = kind /\ call'[c].stage # "over"
<1>1. call \in Seq(Calls) /\ Len(call) <= MaxKeys /\ client \in 0 .. MaxBreaks + 1
  BY DEF TuiTypeOK, Calls
<1>2. CASE client = 0
  <2>1. call' = call
    BY <1>2 DEF Start
  <2>. QED
    BY <1>1, <1>2, <2>1
<1>3. CASE client # 0
  <2>. DEFINE new == [kind |-> kind, conn |-> client, stage |-> "started", ok |-> FALSE, number |-> 0]
  <2>1. new \in Calls
    BY <1>1, <1>3, TuiAssumption DEF Stages, Calls, TuiAssumption
  <2>2. call' = Append(call, new) /\ Len(call) < MaxKeys
    BY <1>3 DEF Start
  <2>3. new.kind = kind /\ new.stage # "over"
    OBVIOUS
  <2>. HIDE DEF new
  <2>4. call' \in Seq(Calls) /\ Len(call') = Len(call) + 1 /\ DOMAIN call = 1 .. Len(call)
    BY <1>1, <2>1, <2>2
  <2>5. call'[Len(call) + 1] = new /\ \A c \in 1 .. Len(call) : call'[c] = call[c]
    BY <1>1, <2>1, <2>2
  <2>6. DOMAIN call' = 1 .. Len(call) + 1 /\ Len(call) \in Nat /\ Len(call') <= MaxKeys
    BY <1>1, <2>2, <2>4, TuiAssumption DEF TuiAssumption
  <2>7. Len(call) + 1 \in DOMAIN call' \ DOMAIN call /\ DOMAIN call \subseteq DOMAIN call'
    BY <2>4, <2>6
  <2>8. ASSUME NEW c \in DOMAIN call', c # Len(call) + 1 PROVE c \in DOMAIN call
    BY <2>4, <2>6, <2>8
  <2>. QED
    BY <2>3, <2>4, <2>5, <2>6, <2>7, <2>8
<1>. QED
  BY <1>2, <1>3

\* What changes a call keeps the others, and the number of calls.
LEMMA ChangeCall ==
  ASSUME TuiTypeOK, NEW c \in DOMAIN call, NEW new \in Calls, call' = [call EXCEPT ![c] = new]
  PROVE  /\ call' \in Seq(Calls) /\ Len(call') = Len(call) /\ DOMAIN call' = DOMAIN call
         /\ call'[c] = new /\ \A d \in DOMAIN call \ {c} : call'[d] = call[d]
<1>1. call \in Seq(Calls) /\ c \in 1 .. Len(call)
  BY DEF TuiTypeOK, Calls
<1>. QED
  BY <1>1, ExceptSeq

-----------------------------------------------------------------------------
\* What is in the daemon's queue was sent, and is there once.
Queued ==
  \A i \in 1 .. Len(queue) :
    /\ call[queue[i]].stage = "sent"
    /\ \A j \in 1 .. Len(queue) : queue[i] = queue[j] => i = j

\* The dialogs' part of the types.
DialogsOK ==
  /\ searchMode \in BOOLEAN /\ searchInput \in Inputs
  /\ searchResults \in [of : 0 .. MaxKeys, number : 0 .. MaxResults]
  /\ searchCursor \in Nat
  /\ searchResults.number > 0 => searchCursor < searchResults.number
  /\ offline \in BOOLEAN

LinksOK ==
  client \in 0 .. MaxBreaks + 1 /\ link \in 0 .. MaxBreaks + 1 /\ breaks \in 0 .. MaxBreaks

CallsOK ==
  /\ call \in Seq(Calls) /\ Len(call) <= MaxKeys
  /\ queue \in Seq(DOMAIN call)
  /\ before \subseteq DOMAIN call

LEMMA Types == TuiTypeOK <=> DialogsOK /\ LinksOK /\ CallsOK /\ quit \in BOOLEAN
BY DEF TuiTypeOK, DialogsOK, LinksOK, CallsOK, Calls

LEMMA TypesNext == TuiTypeOK' <=> DialogsOK' /\ LinksOK' /\ CallsOK' /\ quit' \in BOOLEAN
BY DEF TuiTypeOK, DialogsOK, LinksOK, CallsOK, Calls

TuiInv == TuiTypeOK /\ Queued /\ TypingUndisturbed /\ Typing /\ Browser

-----------------------------------------------------------------------------
LEMMA InitOK == TuiInit => TuiInv
<1>. SUFFICES ASSUME TuiInit PROVE TuiInv
  OBVIOUS
<1>1. call = <<>> /\ queue = <<>> /\ before = {}
  BY DEF TuiInit
<1>2. CallsOK
  <2>1. MaxKeys \in Nat
    BY TuiAssumption DEF TuiAssumption
  <2>2. call \in Seq(Calls) /\ Len(call) = 0 /\ DOMAIN call = {} /\ queue \in Seq(DOMAIN call)
    BY <1>1
  <2>. QED
    BY <1>1, <2>1, <2>2 DEF CallsOK
<1>3. LinksOK
  <2>1. client = 0 /\ link = 0 /\ breaks = 0
    BY DEF TuiInit
  <2>2. MaxBreaks \in Nat
    BY TuiAssumption DEF TuiAssumption
  <2>. QED
    BY <2>1, <2>2 DEF LinksOK
<1>4. DialogsOK
  <2>1. 0 \in 0 .. MaxKeys /\ 0 \in 0 .. MaxResults
    BY TuiAssumption DEF TuiAssumption
  <2>2. searchResults \in [of : 0 .. MaxKeys, number : 0 .. MaxResults] /\ searchResults.number = 0
    BY <2>1 DEF TuiInit, NoResults
  <2>. QED
    BY <2>2 DEF TuiInit, DialogsOK, Inputs
<1>5. quit \in BOOLEAN
  BY DEF TuiInit
<1>6. TuiTypeOK
  BY <1>2, <1>3, <1>4, <1>5, Types
<1>. QED
  <2>1. Queued
    BY <1>1 DEF Queued
  <2>2. Typing /\ TypingUndisturbed /\ Browser
    BY DEF TuiInit, Typing, Browser, TypingUndisturbed
  <2>. QED
    BY <1>6, <2>1, <2>2 DEF TuiInv

-----------------------------------------------------------------------------
(* The steps of the daemon and of the goroutines: they leave the dialogs    *)
(* and the flash alone, and no call but one of the transport is over.       *)

Quiet == UNCHANGED <<dialogVars, flash, quit, before, offline>>

GoesOn ==
  /\ call' \in Seq(Calls) /\ Len(call') = Len(call) /\ DOMAIN call' = DOMAIN call
  /\ \A c \in DOMAIN call :
       /\ call'[c].kind = call[c].kind
       /\ call[c].kind # "transport" => (call'[c].stage = "over") = (call[c].stage = "over")

\* Such a step keeps the properties.
LEMMA QuietKeeps ==
  ASSUME TuiInv, Quiet, GoesOn, LinksOK', queue' \in Seq(DOMAIN call), Queued'
  PROVE  TuiInv'
<1>1. DialogsOK' /\ quit' \in BOOLEAN
  BY Types DEF TuiInv, Quiet, DialogsOK
<1>2. CallsOK'
  <2>1. Len(call) <= MaxKeys /\ before \subseteq DOMAIN call
    BY Types DEF TuiInv, CallsOK
  <2>2. before' = before
    BY DEF Quiet
  <2>. QED
    BY <2>1, <2>2 DEF GoesOn, CallsOK
<1>3. Outstanding("search")' = Outstanding("search") /\ Outstanding("auth")' = Outstanding("auth")
  BY DEF GoesOn, Outstanding
<1>4. Typing' /\ TypingUndisturbed' /\ Browser'
  BY <1>3 DEF TuiInv, Quiet, Typing, TypingUndisturbed, Browser
<1>. QED
  BY <1>1, <1>2, <1>4, TypesNext DEF TuiInv

LEMMA SendKeeps == ASSUME TuiInv, NEW c \in DOMAIN call, CallSend(c) PROVE TuiInv'
<1>1. call \in Seq(Calls) /\ call[c] \in Calls /\ queue \in Seq(DOMAIN call) /\ LinksOK
  BY Types DEF TuiInv, CallsOK
<1>2. Quiet /\ LinksOK'
  BY <1>1 DEF CallSend, Quiet, LinksOK
<1>3. CASE call[c].conn = link
  <2>. DEFINE new == [call[c] EXCEPT !.stage = "sent"]
  <2>1. new \in Calls /\ new.kind = call[c].kind /\ new.stage = "sent"
    BY <1>1 DEF Calls, Stages
  <2>2. call' = [call EXCEPT ![c] = new] /\ queue' = Append(queue, c)
    BY <1>3 DEF CallSend
  <2>. HIDE DEF new
  <2>3. /\ call' \in Seq(Calls) /\ Len(call') = Len(call) /\ DOMAIN call' = DOMAIN call
        /\ call'[c] = new /\ \A d \in DOMAIN call \ {c} : call'[d] = call[d]
    BY <2>1, <2>2, ChangeCall DEF TuiInv
  <2>4. GoesOn
    BY <2>1, <2>3 DEF GoesOn, CallSend
  <2>5. /\ queue' \in Seq(DOMAIN call) /\ Len(queue') = Len(queue) + 1
        /\ queue'[Len(queue) + 1] = c /\ \A i \in 1 .. Len(queue) : queue'[i] = queue[i]
    BY <1>1, <2>2
  <2>6. \A i \in 1 .. Len(queue) : queue[i] # c /\ queue[i] \in DOMAIN call
    BY <1>1 DEF TuiInv, Queued, CallSend
  <2>7. \A i \in 1 .. Len(queue) : call'[queue'[i]].stage = "sent"
    BY <2>3, <2>5, <2>6 DEF TuiInv, Queued
  <2>8. \A i \in 1 .. Len(queue') : i \in 1 .. Len(queue) \/ i = Len(queue) + 1
    BY <1>1, <2>5
  <2>9. \A i, j \in 1 .. Len(queue') : queue'[i] = queue'[j] => i = j
    BY <2>5, <2>6, <2>8 DEF TuiInv, Queued
  <2>10. \A i \in 1 .. Len(queue') : call'[queue'[i]].stage = "sent"
    BY <2>1, <2>3, <2>5, <2>7, <2>8
  <2>11. Queued'
    BY <2>9, <2>10 DEF Queued
  <2>. QED
    BY <1>2, <2>4, <2>5, <2>11, QuietKeeps
<1>4. CASE call[c].conn # link
  <2>. DEFINE new == Answered(call[c], FALSE, 0)
  <2>1. new \in Calls /\ new.kind = call[c].kind /\ (call[c].kind # "transport" => new.stage # "over")
    <3>1. 0 \in 0 .. MaxResults
      BY TuiAssumption DEF TuiAssumption
    <3>. QED
      BY <1>1, <3>1, AnsweredType
  <2>2. call' = [call EXCEPT ![c] = new] /\ queue' = queue
    BY <1>4 DEF CallSend
  <2>. HIDE DEF new
  <2>3. /\ call' \in Seq(Calls) /\ Len(call') = Len(call) /\ DOMAIN call' = DOMAIN call
        /\ call'[c] = new /\ \A d \in DOMAIN call \ {c} : call'[d] = call[d]
    BY <2>1, <2>2, ChangeCall DEF TuiInv
  <2>4. GoesOn
    BY <2>1, <2>3 DEF GoesOn, CallSend
  <2>6. \A i \in 1 .. Len(queue) : queue[i] # c /\ queue[i] \in DOMAIN call
    BY <1>1 DEF TuiInv, Queued, CallSend
  <2>11. Queued'
    BY <2>2, <2>3, <2>6 DEF TuiInv, Queued
  <2>. QED
    BY <1>1, <1>2, <2>2, <2>4, <2>11, QuietKeeps
<1>. QED
  BY <1>3, <1>4

LEMMA ServeKeeps == ASSUME TuiInv, Serve PROVE TuiInv'
<1>1. call \in Seq(Calls) /\ queue \in Seq(DOMAIN call) /\ LinksOK
  BY Types DEF TuiInv, CallsOK
<1>2. Quiet /\ LinksOK' /\ queue' = Tail(queue) /\ queue # <<>>
  BY <1>1 DEF Serve, Quiet, LinksOK
<1>. DEFINE c == Head(queue)
<1>3. c = queue[1] /\ 1 \in 1 .. Len(queue) /\ c \in DOMAIN call /\ call[c] \in Calls
  BY <1>1, <1>2
<1>4. PICK isOk \in BOOLEAN, number \in 0 .. MaxResults :
        call' = [call EXCEPT ![c] = Answered(call[c], isOk, number)]
  BY DEF Serve
<1>. DEFINE new == Answered(call[c], isOk, number)
<1>5. new \in Calls /\ new.kind = call[c].kind /\ (call[c].kind # "transport" => new.stage # "over")
  BY <1>3, AnsweredType
<1>6. call[c].stage = "sent"
  BY <1>3 DEF TuiInv, Queued
<1>. HIDE DEF new, c
<1>7. /\ call' \in Seq(Calls) /\ Len(call') = Len(call) /\ DOMAIN call' = DOMAIN call
      /\ call'[c] = new /\ \A d \in DOMAIN call \ {c} : call'[d] = call[d]
  <2>1. call' = [call EXCEPT ![c] = new]
    BY <1>4 DEF new
  <2>. QED
    BY <2>1, <1>3, <1>5, ChangeCall DEF TuiInv
<1>8. GoesOn
  BY <1>5, <1>6, <1>7 DEF GoesOn
<1>9. queue' \in Seq(DOMAIN call) /\ Len(queue') = Len(queue) - 1
      /\ \A i \in 1 .. Len(queue') : queue'[i] = queue[i + 1] /\ i + 1 \in 1 .. Len(queue) /\ i + 1 # 1
  BY <1>1, <1>2
<1>10. \A i \in 1 .. Len(queue') : queue'[i] # c /\ queue'[i] \in DOMAIN call
  BY <1>1, <1>3, <1>9 DEF TuiInv, Queued
<1>11. \A i \in 1 .. Len(queue') : call'[queue'[i]].stage = "sent"
  <2>. TAKE i \in 1 .. Len(queue')
  <2>1. i + 1 \in 1 .. Len(queue) /\ queue'[i] = queue[i + 1] /\ queue'[i] \in DOMAIN call \ {c}
    BY <1>9, <1>10
  <2>2. call[queue[i + 1]].stage = "sent"
    BY <2>1 DEF TuiInv, Queued
  <2>. QED
    BY <1>7, <2>1, <2>2
<1>12. ASSUME NEW i \in 1 .. Len(queue'), NEW j \in 1 .. Len(queue'), queue'[i] = queue'[j]
       PROVE  i = j
  <2>1. \A k, l \in 1 .. Len(queue) : queue[k] = queue[l] => k = l
    BY DEF TuiInv, Queued
  <2>2. i + 1 \in 1 .. Len(queue) /\ j + 1 \in 1 .. Len(queue) /\ queue[i + 1] = queue[j + 1]
    BY <1>9, <1>12
  <2>3. i + 1 = j + 1
    BY <2>1, <2>2
  <2>. QED
    BY <2>3
<1>13. Queued'
  BY <1>11, <1>12 DEF Queued
<1>. QED
  BY <1>2, <1>8, <1>9, <1>13, QuietKeeps

LEMMA BrokenKeeps == ASSUME TuiInv, Broken PROVE TuiInv'
<1>1. call \in Seq(Calls) /\ queue \in Seq(DOMAIN call) /\ LinksOK
  BY Types DEF TuiInv, CallsOK
<1>2. Quiet /\ queue' = <<>>
  BY DEF Broken, Quiet
<1>3. LinksOK'
  <2>1. MaxBreaks \in Nat
    BY TuiAssumption DEF TuiAssumption
  <2>. QED
    BY <1>1, <2>1 DEF Broken, LinksOK
<1>. DEFINE new(c) == IF call[c].stage = "sent" THEN Answered(call[c], FALSE, 0) ELSE call[c]
<1>4. ASSUME NEW c \in DOMAIN call
      PROVE  /\ new(c) \in Calls /\ new(c).kind = call[c].kind
             /\ call[c].kind # "transport" => (new(c).stage = "over") = (call[c].stage = "over")
  <2>1. call[c] \in Calls /\ 0 \in 0 .. MaxResults
    BY <1>1, TuiAssumption DEF TuiAssumption
  <2>2. /\ Answered(call[c], FALSE, 0) \in Calls
        /\ Answered(call[c], FALSE, 0).kind = call[c].kind
        /\ call[c].kind # "transport" => Answered(call[c], FALSE, 0).stage # "over"
    BY <2>1, AnsweredType
  <2>. QED
    BY <2>1, <2>2
<1>5. call' = [c \in DOMAIN call |-> new(c)]
  BY DEF Broken
<1>. HIDE DEF new
<1>6. call' \in Seq(Calls) /\ Len(call') = Len(call) /\ DOMAIN call' = DOMAIN call
  <2>1. DOMAIN call = 1 .. Len(call) /\ Len(call) \in Nat
    BY <1>1
  <2>2. call' \in [1 .. Len(call) -> Calls]
    BY <1>4, <1>5, <2>1
  <2>. QED
    BY <2>1, <2>2, SeqDef
<1>7. GoesOn
  BY <1>4, <1>5, <1>6 DEF GoesOn
<1>8. queue' \in Seq(DOMAIN call) /\ Queued'
  BY <1>2 DEF Queued
<1>. QED
  BY <1>2, <1>3, <1>7, <1>8, QuietKeeps

-----------------------------------------------------------------------------
(* The messages that come back to Update, and the connection.              *)

LEMMA ConnectionKeeps == ASSUME TuiInv, Connected \/ Disconnected \/ FlashOver PROVE TuiInv'
<1>1. UNCHANGED <<dialogVars, callVars, quit, before>>
  BY DEF Connected, Disconnected, FlashOver
<1>2. LinksOK'
  <2>1. MaxBreaks \in Nat /\ LinksOK
    BY Types, TuiAssumption DEF TuiAssumption, TuiInv
  <2>. QED
    BY <2>1 DEF LinksOK, Connected, Disconnected, FlashOver
<1>3. (flash' = flash /\ offline' = offline) \/ (flash' = "none" /\ offline' = FALSE)
  <2>1. CASE Connected \/ Disconnected
    BY <2>1 DEF Connected, Disconnected
  <2>2. CASE FlashOver
    BY <2>2 DEF FlashOver
  <2>. QED
    BY <2>1, <2>2
<1>4. DialogsOK' /\ CallsOK' /\ quit' \in BOOLEAN
  BY <1>1, <1>3, Types DEF TuiInv, DialogsOK, CallsOK
<1>5. Typing' /\ TypingUndisturbed' /\ Queued'
  BY <1>1 DEF TuiInv, Typing, TypingUndisturbed, Queued, Outstanding
<1>6. Browser'
  BY <1>1, <1>3 DEF TuiInv, Browser, Outstanding
<1>. QED
  BY <1>2, <1>4, <1>5, <1>6, TypesNext DEF TuiInv

LEMMA AnswerKeeps == ASSUME TuiInv, NEW c \in DOMAIN call, UpdateAnswer(c) PROVE TuiInv'
<1>1. call \in Seq(Calls) /\ call[c] \in Calls /\ queue \in Seq(DOMAIN call) /\ CallsOK
      /\ LinksOK /\ DialogsOK /\ quit \in BOOLEAN
  BY Types DEF TuiInv, CallsOK
<1>2. UNCHANGED <<linkVars, queue, quit, before>> /\ call[c].stage = "answered"
  BY DEF UpdateAnswer
<1>. DEFINE new == [call[c] EXCEPT !.stage = "over"]
<1>3. new \in Calls /\ new.kind = call[c].kind /\ call' = [call EXCEPT ![c] = new]
  BY <1>1 DEF UpdateAnswer, Calls, Stages
<1>. HIDE DEF new
<1>4. /\ call' \in Seq(Calls) /\ Len(call') = Len(call) /\ DOMAIN call' = DOMAIN call
      /\ call'[c] = new /\ \A d \in DOMAIN call \ {c} : call'[d] = call[d]
  BY <1>3, ChangeCall DEF TuiInv
<1>5. CallsOK' /\ LinksOK'
  BY <1>1, <1>2, <1>4 DEF CallsOK, LinksOK
<1>6. Queued'
  <2>1. \A i \in 1 .. Len(queue) : queue[i] # c /\ queue[i] \in DOMAIN call
    BY <1>1, <1>2 DEF TuiInv, Queued
  <2>. QED
    BY <1>2, <1>4, <2>1 DEF TuiInv, Queued
<1>7. Outstanding("search")' \subseteq Outstanding("search")
  BY <1>2, <1>3, <1>4 DEF Outstanding
<1>8. call[c].kind # "auth" => Outstanding("auth") \subseteq Outstanding("auth")'
  BY <1>3, <1>4 DEF Outstanding
<1>9. CASE call[c].kind = "search" /\ call[c].ok /\ call[c].number # 0
  <2>1. /\ searchResults' = [of |-> c, number |-> call[c].number] /\ searchCursor' = 0
        /\ UNCHANGED <<flash, offline, searchMode, searchInput>>
    BY <1>9 DEF UpdateAnswer, ShowResults
  <2>2. call[c].number \in 0 .. MaxResults /\ call[c].number > 0 /\ c \in 0 .. MaxKeys
    <3>1. call[c].number \in 0 .. MaxResults /\ MaxResults \in Nat /\ MaxKeys \in Nat
      BY <1>1, TuiAssumption DEF Calls, TuiAssumption
    <3>2. c \in 1 .. Len(call) /\ Len(call) <= MaxKeys /\ Len(call) \in Nat
      BY <1>1 DEF CallsOK
    <3>. QED
      BY <1>9, <3>1, <3>2
  <2>3. DialogsOK'
    BY <1>1, <2>1, <2>2 DEF DialogsOK
  <2>4. c \in Outstanding("search")
    BY <1>2, <1>9 DEF Outstanding
  <2>5. TypingUndisturbed' /\ Typing'
    BY <1>2, <1>7, <2>1, <2>4 DEF TuiInv, Typing, TypingUndisturbed
  <2>6. Browser'
    BY <1>8, <1>9, <2>1 DEF TuiInv, Browser
  <2>. QED
    BY <1>1, <1>2, <1>5, <1>6, <2>3, <2>5, <2>6, TypesNext DEF TuiInv
<1>10. CASE ~(call[c].kind = "search" /\ call[c].ok /\ call[c].number # 0)
  <2>1. UNCHANGED dialogVars
    BY <1>10 DEF UpdateAnswer, ShowResults, ShowAuth
  <2>2. /\ offline' = offline \/ offline' = (client = 0)
        /\ \/ call[c].kind # "auth" /\ flash' = flash /\ offline' = offline
           \/ flash' # "opening browser..."
    BY <1>10 DEF UpdateAnswer, ShowResults, ShowAuth, FlashText
  <2>3. DialogsOK'
    BY <1>1, <2>1, <2>2 DEF DialogsOK
  <2>4. Typing' /\ TypingUndisturbed'
    BY <1>2, <1>7, <2>1 DEF TuiInv, Typing, TypingUndisturbed
  <2>5. Browser'
    <3>1. CASE flash' # "opening browser..."
      BY <3>1 DEF Browser
    <3>2. CASE flash' = "opening browser..."
      <4>1. call[c].kind # "auth" /\ flash' = flash /\ offline' = offline
        BY <2>2, <3>2
      <4>2. offline \/ Outstanding("auth") # {}
        BY <3>2, <4>1 DEF TuiInv, Browser
      <4>3. offline' \/ Outstanding("auth")' # {}
        BY <1>8, <4>1, <4>2
      <4>. QED
        BY <4>3 DEF Browser
    <3>. QED
      BY <3>1, <3>2
  <2>. QED
    BY <1>1, <1>2, <1>5, <1>6, <2>3, <2>4, <2>5, TypesNext DEF TuiInv
<1>. QED
  BY <1>9, <1>10

-----------------------------------------------------------------------------
(* Keys.                                                                   *)

\* A key that starts no call, or one whose kind is neither that of a search nor
\* shown by a dialog.
LEMMA KeyCalls ==
  ASSUME TuiInv, NEW kind \in Kinds, UNCHANGED queue,
         UNCHANGED call \/ Start(kind)
  PROVE  /\ call' \in Seq(Calls) /\ Len(call') <= MaxKeys /\ DOMAIN call \subseteq DOMAIN call'
         /\ queue' \in Seq(DOMAIN call') /\ Queued'
         /\ Outstanding("auth") \subseteq Outstanding("auth")'
         /\ kind # "search" => Outstanding("search")' \subseteq Outstanding("search")
<1>1. call \in Seq(Calls) /\ Len(call) <= MaxKeys /\ queue \in Seq(DOMAIN call)
  BY Types DEF TuiInv, CallsOK
<1>2. /\ call' \in Seq(Calls) /\ Len(call') <= MaxKeys
      /\ DOMAIN call \subseteq DOMAIN call'
      /\ \A c \in DOMAIN call : call'[c] = call[c]
      /\ \A c \in DOMAIN call' \ DOMAIN call : call'[c].kind = kind
  BY <1>1, StartCall DEF TuiInv
<1>3. queue' \in Seq(DOMAIN call')
  BY <1>1, <1>2, SeqMonotonic
<1>4. \A i \in 1 .. Len(queue) : queue[i] \in DOMAIN call
  BY <1>1
<1>5. Queued'
  BY <1>2, <1>4 DEF TuiInv, Queued
<1>6. Outstanding("auth") \subseteq Outstanding("auth")'
  BY <1>2 DEF Outstanding
<1>7. kind # "search" => Outstanding("search")' \subseteq Outstanding("search")
  BY <1>2 DEF Outstanding
<1>. QED
  BY <1>2, <1>3, <1>5, <1>6, <1>7

\* Whatever shows another text, or none, keeps the flash honest.
LEMMA FlashKeeps ==
  ASSUME TuiInv, Outstanding("auth") \subseteq Outstanding("auth")',
         flash' # "opening browser..." \/ UNCHANGED <<flash, offline>>
  PROVE  Browser'
<1>1. CASE flash' # "opening browser..."
  BY <1>1 DEF Browser
<1>2. CASE flash' = "opening browser..."
  <2>1. flash' = flash /\ offline' = offline
    BY <1>2
  <2>2. offline \/ Outstanding("auth") # {}
    BY <1>2, <2>1 DEF TuiInv, Browser
  <2>3. offline' \/ Outstanding("auth")' # {}
    BY <2>1, <2>2
  <2>. QED
    BY <2>3 DEF Browser
<1>. QED
  BY <1>1, <1>2

LEMMA ResultsKeyKeeps ==
  ASSUME TuiInv, NEW k \in Keys, searchResults.number > 0, HandleResultsKey(k),
         UNCHANGED <<searchMode, searchInput, before>>, UNCHANGED <<linkVars, queue>>
  PROVE  TuiInv'
<1>1. CallsOK /\ LinksOK /\ DialogsOK /\ quit \in BOOLEAN
  BY Types DEF TuiInv
<1>2. UNCHANGED call \/ Start("play")
  BY DEF HandleResultsKey
<1>3. /\ call' \in Seq(Calls) /\ Len(call') <= MaxKeys /\ DOMAIN call \subseteq DOMAIN call'
      /\ queue' \in Seq(DOMAIN call') /\ Queued'
      /\ Outstanding("auth") \subseteq Outstanding("auth")'
      /\ Outstanding("search")' \subseteq Outstanding("search")
  BY <1>2, KeyCalls DEF Kinds
<1>4. CallsOK' /\ LinksOK'
  BY <1>1, <1>3 DEF CallsOK, LinksOK
<1>5. searchResults' = searchResults \/ searchResults' = NoResults
  BY DEF HandleResultsKey
<1>6. offline' \in BOOLEAN /\ quit' \in BOOLEAN
  <2>1. offline \in BOOLEAN /\ (offline' = offline \/ offline' = (client = 0))
    <3>1. CASE k = "enter"
      BY <1>1, <3>1 DEF HandleResultsKey, FlashText, DialogsOK
    <3>2. CASE k # "enter"
      BY <1>1, <3>2 DEF HandleResultsKey, DialogsOK
    <3>. QED
      BY <3>1, <3>2
  <2>2. quit' \in BOOLEAN
    BY DEF HandleResultsKey
  <2>. QED
    BY <2>1, <2>2
<1>7. searchCursor' \in Nat /\ searchCursor' < searchResults.number
  <2>1. /\ searchResults.number \in Int /\ searchCursor \in Nat
        /\ searchCursor < searchResults.number
    BY <1>1, TuiAssumption DEF DialogsOK, TuiAssumption
  <2>2. searchCursor' = Moved(k)
    BY DEF HandleResultsKey
  <2>. QED
    BY <2>1, <2>2 DEF Moved
<1>8. NoResults \in [of : 0 .. MaxKeys, number : 0 .. MaxResults] /\ NoResults.number = 0
  <2>1. 0 \in 0 .. MaxKeys /\ 0 \in 0 .. MaxResults
    BY TuiAssumption DEF TuiAssumption
  <2>. QED
    BY <2>1 DEF NoResults
<1>9. DialogsOK'
  BY <1>1, <1>5, <1>6, <1>7, <1>8 DEF DialogsOK
<1>10. Typing' /\ TypingUndisturbed'
  BY <1>3, <1>5, <1>8 DEF TuiInv, Typing, TypingUndisturbed
<1>11. Browser'
  <2>1. flash' = "playing" \/ UNCHANGED <<flash, offline>>
    BY DEF HandleResultsKey, FlashText
  <2>. QED
    BY <1>3, <2>1, FlashKeeps
<1>. QED
  BY <1>3, <1>4, <1>6, <1>9, <1>10, <1>11, TypesNext DEF TuiInv

LEMMA SearchKeyKeeps ==
  ASSUME TuiInv, NEW k \in Keys, searchResults.number = 0, searchMode, HandleSearchKey(k),
         UNCHANGED <<searchResults, searchCursor, before>>, UNCHANGED <<linkVars, queue>>
  PROVE  TuiInv'
<1>1. CallsOK /\ LinksOK /\ DialogsOK /\ quit \in BOOLEAN
  BY Types DEF TuiInv
<1>2. UNCHANGED call \/ Start("search")
  BY DEF HandleSearchKey, SearchEnter
<1>3. /\ call' \in Seq(Calls) /\ Len(call') <= MaxKeys /\ DOMAIN call \subseteq DOMAIN call'
      /\ queue' \in Seq(DOMAIN call') /\ Queued'
      /\ Outstanding("auth") \subseteq Outstanding("auth")'
  BY <1>2, KeyCalls DEF Kinds
<1>4. CallsOK' /\ LinksOK'
  BY <1>1, <1>3 DEF CallsOK, LinksOK
<1>5. searchMode' \in BOOLEAN /\ quit' \in BOOLEAN
  <2>1. CASE k = "enter"
    BY <1>1, <2>1 DEF HandleSearchKey, SearchEnter
  <2>2. CASE k # "enter"
    BY <2>2 DEF HandleSearchKey
  <2>. QED
    BY <2>1, <2>2
<1>6. searchInput' \in Inputs
  <2>1. searchInput \in Inputs
    BY <1>1 DEF DialogsOK
  <2>2. CASE k = "enter"
    BY <2>2 DEF HandleSearchKey, SearchEnter, Inputs
  <2>3. CASE k # "enter"
    BY <2>1, <2>3 DEF HandleSearchKey, Inputs, Shorter
  <2>. QED
    BY <2>2, <2>3
<1>7. offline' \in BOOLEAN
  <2>1. offline \in BOOLEAN /\ (offline' = offline \/ offline' = (client = 0))
    BY <1>1 DEF HandleSearchKey, SearchEnter, FlashText, DialogsOK
  <2>. QED
    BY <2>1
<1>8. DialogsOK'
  BY <1>1, <1>5, <1>6, <1>7 DEF DialogsOK
<1>9. Typing' /\ TypingUndisturbed'
  <2>1. CASE k = "enter"
    BY <2>1 DEF HandleSearchKey, SearchEnter, Typing, TypingUndisturbed
  <2>2. CASE k # "enter"
    <3>1. call' = call
      BY <2>2 DEF HandleSearchKey
    <3>. QED
      BY <1>1, <3>1 DEF TuiInv, Typing, TypingUndisturbed, Outstanding, DialogsOK
  <2>. QED
    BY <2>1, <2>2
<1>10. Browser'
  <2>1. flash' = "searching..." \/ UNCHANGED <<flash, offline>>
    BY DEF HandleSearchKey, SearchEnter, FlashText
  <2>. QED
    BY <1>3, <2>1, FlashKeeps
<1>. QED
  BY <1>3, <1>4, <1>5, <1>8, <1>9, <1>10, TypesNext DEF TuiInv

LEMMA OtherKeyKeeps ==
  ASSUME TuiInv, NEW k \in Keys, searchResults.number = 0, ~searchMode, HandleKey(k),
         UNCHANGED <<searchResults, searchCursor>>, UNCHANGED <<linkVars, queue>>
  PROVE  TuiInv'
<1>1. CallsOK /\ LinksOK /\ DialogsOK /\ quit \in BOOLEAN
  BY Types DEF TuiInv
<1>2. PICK kind \in Kinds \ {"search"} : UNCHANGED call \/ Start(kind)
  <2>1. UNCHANGED call \/ Start("transport") \/ Start("like") \/ Start("auth")
    BY DEF HandleKey
  <2>2. {"transport", "like", "auth"} \subseteq Kinds \ {"search"}
    BY DEF Kinds
  <2>. QED
    BY <2>1, <2>2
<1>3. /\ call' \in Seq(Calls) /\ Len(call') <= MaxKeys /\ DOMAIN call \subseteq DOMAIN call'
      /\ queue' \in Seq(DOMAIN call') /\ Queued'
      /\ Outstanding("auth") \subseteq Outstanding("auth")'
      /\ Outstanding("search")' \subseteq Outstanding("search")
  BY <1>2, KeyCalls
<1>4. before' \subseteq DOMAIN call'
  <2>1. Outstanding("search") \subseteq DOMAIN call
    BY DEF Outstanding
  <2>. QED
    BY <1>1, <1>3, <2>1 DEF HandleKey, CallsOK
<1>5. CallsOK' /\ LinksOK'
  BY <1>1, <1>3, <1>4 DEF CallsOK, LinksOK
<1>6. searchMode' = (k = "/") /\ quit' = (k \in {"q", "ctrl+c"})
  BY DEF HandleKey
<1>7. searchInput' \in Inputs
  BY <1>1 DEF HandleKey, DialogsOK, Inputs
<1>8. offline' \in BOOLEAN
  <2>1. offline \in BOOLEAN /\ (offline' = offline \/ offline' = (client = 0))
    BY <1>1 DEF HandleKey, FlashText, DialogsOK
  <2>. QED
    BY <2>1
<1>9. searchMode' \in BOOLEAN /\ quit' \in BOOLEAN
  BY <1>6
<1>10. DialogsOK'
  BY <1>1, <1>7, <1>8, <1>9 DEF DialogsOK
<1>11. TypingUndisturbed'
  <2>1. searchResults' = searchResults
    OBVIOUS
  <2>. QED
    BY <2>1 DEF TypingUndisturbed
<1>12. Typing'
  <2>1. CASE k = "/"
    BY <1>3, <2>1 DEF HandleKey, Typing
  <2>2. CASE k # "/"
    BY <1>6, <2>2 DEF Typing
  <2>. QED
    BY <2>1, <2>2
<1>13. Browser'
  <2>1. CASE k = "a" /\ client # 0
    <3>1. Start("auth")
      BY <2>1 DEF HandleKey
    <3>2. \E c \in DOMAIN call' : call'[c].kind = "auth" /\ call'[c].stage # "over"
      BY <2>1, <3>1, StartCall DEF TuiInv, Kinds
    <3>3. Outstanding("auth")' # {}
      BY <3>2 DEF Outstanding
    <3>. QED
      BY <3>3 DEF Browser
  <2>2. CASE k = "a" /\ client = 0
    <3>1. offline' = TRUE
      BY <2>2 DEF HandleKey, FlashText
    <3>. QED
      BY <3>1 DEF Browser
  <2>3. CASE k # "a"
    <3>1. UNCHANGED <<flash, offline>>
      BY <2>3 DEF HandleKey
    <3>. QED
      BY <1>3, <3>1, FlashKeeps
  <2>. QED
    BY <2>1, <2>2, <2>3
<1>. QED
  BY <1>3, <1>5, <1>9, <1>10, <1>11, <1>12, <1>13, TypesNext DEF TuiInv

LEMMA KeyKeeps == ASSUME TuiInv, NEW k \in Keys, Key(k) PROVE TuiInv'
<1>1. CASE searchResults.number > 0
  BY <1>1, ResultsKeyKeeps DEF Key
<1>2. CASE searchResults.number = 0 /\ searchMode
  BY <1>2, SearchKeyKeeps DEF Key
<1>3. CASE searchResults.number = 0 /\ ~searchMode
  BY <1>3, OtherKeyKeeps DEF Key
<1>. QED
  BY <1>1, <1>2, <1>3 DEF Key

-----------------------------------------------------------------------------
LEMMA TuiStep == TuiInv /\ [TuiNext]_tuiVars => TuiInv'
<1>. SUFFICES ASSUME TuiInv, [TuiNext]_tuiVars PROVE TuiInv'
  OBVIOUS
<1>1. ASSUME NEW k \in Keys, Key(k) PROVE TuiInv'
  BY <1>1, KeyKeeps
<1>2. ASSUME NEW c \in DOMAIN call, CallSend(c) PROVE TuiInv'
  BY <1>2, SendKeeps
<1>3. ASSUME NEW c \in DOMAIN call, UpdateAnswer(c) PROVE TuiInv'
  BY <1>3, AnswerKeeps
<1>4. CASE Serve
  BY <1>4, ServeKeeps
<1>5. CASE FlashOver \/ Connected \/ Disconnected
  BY <1>5, ConnectionKeeps
<1>6. CASE Broken
  BY <1>6, BrokenKeeps
<1>7. CASE UNCHANGED tuiVars
  BY <1>7 DEF tuiVars, TuiInv, TuiTypeOK, Queued, TypingUndisturbed, Typing, Browser, Outstanding
<1>. QED
  BY <1>1, <1>2, <1>3, <1>4, <1>5, <1>6, <1>7 DEF TuiNext, Answers

LEMMA TuiAlways == TuiSpec => []TuiInv
BY InitOK, TuiStep, PTL DEF TuiSpec

\* The types; and the result that enter plays exists (model.go:249).
THEOREM TuiTypeCorrect == TuiSpec => []TuiTypeOK
BY TuiAlways, PTL DEF TuiInv

\* Only the results of a search on its way when "/" was pressed take the keys of a
\* query, for any number of searches (model.go:145).
THEOREM TypingIsUndisturbed == TuiSpec => []TypingUndisturbed
BY TuiAlways, PTL DEF TuiInv

\* "opening browser" is drawn only while an authorization is on its way, or after "a"
\* without a connection, for any number of them (model.go:195).
THEOREM BrowserFlashIsHonest == TuiSpec => []BrowserFlashHonest
<1>1. TuiInv => BrowserFlashHonest
  BY DEF TuiInv, Browser, BrowserFlashHonest, Hints
<1>. QED
  BY <1>1, TuiAlways, PTL

-----------------------------------------------------------------------------
(* What is drawn.                                                          *)

ScreenTyped == screenWidth \in Nat /\ duration \in Nat /\ position \in Int

LEMMA ScreenTypedAlways == ScreenSpec => []ScreenTyped
<1>1. ScreenInit => ScreenTyped
  BY DEF ScreenInit, ScreenTyped
<1>2. ScreenTyped /\ [ScreenNext]_screenVars => ScreenTyped'
  <2>. SUFFICES ASSUME ScreenTyped, [ScreenNext]_screenVars PROVE ScreenTyped'
    OBVIOUS
  <2>. USE TuiScreenAssumption DEF TuiScreenAssumption, ScreenTyped
  <2>1. CASE WindowSize
    BY <2>1 DEF WindowSize
  <2>2. CASE StateShown
    BY <2>2 DEF StateShown
  <2>3. CASE ProgressShown
    BY <2>3 DEF ProgressShown
  <2>4. CASE ScreenTick
    BY <2>4 DEF ScreenTick
  <2>5. CASE UNCHANGED screenVars
    BY <2>5 DEF screenVars
  <2>. QED
    BY <2>1, <2>2, <2>3, <2>4, <2>5 DEF ScreenNext
<1>. QED
  BY <1>1, <1>2, PTL DEF ScreenSpec

\* A part of a whole, in units of which the whole has w.
LEMMA PartOfWidth ==
  ASSUME NEW part \in Nat, NEW whole \in Nat \ {0}, NEW w \in Nat, part <= whole
  PROVE  (part * w) \div whole \in 0 .. w
<1>. DEFINE n == part * w
            q == n \div whole
<1>1. n \in Nat /\ n <= whole * w
  <2>1. part * w <= whole * w /\ part * w >= 0
    OBVIOUS
  <2>. QED
    BY <2>1
<1>2. q \in Int /\ whole * q <= n /\ n < whole * q + whole
  <2>1. n \in Nat
    BY <1>1
  <2>. HIDE DEF n
  <2>. QED
    BY <2>1
<1>. HIDE DEF n, q
<1>3. q <= w
  <2>. SUFFICES ASSUME q >= w + 1 PROVE FALSE
    BY <1>2
  <2>1. whole * q >= whole * (w + 1)
    BY <1>2
  <2>2. whole * (w + 1) = whole * w + whole
    OBVIOUS
  <2>. QED
    BY <1>1, <1>2, <2>1, <2>2
<1>4. q >= 0
  <2>. SUFFICES ASSUME q <= -1 PROVE FALSE
    BY <1>2
  <2>1. whole * q <= whole * (-1)
    BY <1>2
  <2>2. whole * (-1) = -whole
    OBVIOUS
  <2>. QED
    BY <1>1, <1>2, <2>1, <2>2
<1>. QED
  BY <1>2, <1>3, <1>4 DEF n, q

LEMMA Fits == ScreenTyped => ScreenFits
<1>. SUFFICES ASSUME ScreenTyped PROVE ScreenFits
  OBVIOUS
<1>1. BarWidth \in Nat /\ Filled \in 0 .. BarWidth
  <2>. DEFINE inTrack == IF position > duration THEN duration ELSE Larger(position, 0)
  <2>1. BarWidth \in Nat /\ inTrack \in Nat /\ inTrack <= duration
    BY DEF ScreenTyped, BarWidth, Larger
  <2>. HIDE DEF inTrack
  <2>2. CASE duration = 0
    BY <2>1, <2>2 DEF Filled
  <2>3. CASE duration # 0
    <3>1. (inTrack * BarWidth) \div duration \in 0 .. BarWidth
      BY <2>1, <2>3, PartOfWidth DEF ScreenTyped
    <3>. QED
      BY <2>1, <2>3, <3>1 DEF Filled, inTrack
  <2>. QED
    BY <2>1, <2>2, <2>3
<1>2. ASSUME NEW text \in {0, 20, 27, 28, 200}, NEW digits \in 4 .. 7
      PROVE  Row(text, digits).cutAt \in 0 .. text /\ Row(text, digits).columns <= RowRoom
  <2>1. RowRoom \in Nat /\ RowRoom >= 30
    BY DEF ScreenTyped, RowRoom, Larger
  <2>. QED
    BY <2>1 DEF Row, Larger
<1>. QED
  BY <1>1, <1>2 DEF ScreenFits

\* The bar and the rows can be drawn, for any widths of the window, durations and
\* positions, before the track and after its end (model.go:463, 520).
THEOREM ScreenAlwaysFits == ScreenSpec => []ScreenFits
BY ScreenTypedAlways, Fits, PTL

-----------------------------------------------------------------------------
(* The visualizer.                                                         *)

USE DEF sizeVars, feedVars, wfVars, history

Snaps == [width : Nat, tick : Nat]

-----------------------------------------------------------------------------
(* The arithmetic of the ring.                                             *)

LEMMA ModSmall == ASSUME NEW n \in Nat \ {0}, NEW a \in 0 .. n - 1 PROVE a % n = a
OBVIOUS

LEMMA ModWrap == ASSUME NEW n \in Nat \ {0}, NEW a \in 0 .. n - 1 PROVE (a + n) % n = a
OBVIOUS

LEMMA NextHead ==
  ASSUME NEW n \in Nat \ {0}, NEW h \in 0 .. n - 1
  PROVE  (h + 1) % n = IF h + 1 = n THEN 0 ELSE h + 1
<1>1. CASE h + 1 = n
  <2>1. (0 + n) % n = 0
    BY ModWrap
  <2>. QED
    BY <1>1, <2>1
<1>2. CASE h + 1 # n
  <2>1. h + 1 \in 0 .. n - 1
    BY <1>2
  <2>. QED
    BY <1>2, <2>1, ModSmall
<1>. QED
  BY <1>1, <1>2

\* The place of row r behind head h in a ring of n.
Place(h, r, n) == (h - 1 - r + n) % n

LEMMA RowPlace ==
  ASSUME NEW n \in Nat \ {0}, NEW h \in 0 .. n - 1, NEW r \in 0 .. n - 1
  PROVE  Place(h, r, n) = IF r < h THEN h - 1 - r ELSE h - 1 - r + n
<1>1. CASE r < h
  <2>1. h - 1 - r \in 0 .. n - 1
    BY <1>1
  <2>2. ((h - 1 - r) + n) % n = h - 1 - r
    BY <2>1, ModWrap
  <2>. QED
    BY <1>1, <2>2 DEF Place
<1>2. CASE ~(r < h)
  <2>1. h - 1 - r + n \in 0 .. n - 1
    BY <1>2
  <2>. QED
    BY <1>2, <2>1, ModSmall DEF Place
<1>. QED
  BY <1>1, <1>2

\* Behind the next head the newest row is the place written last, and the others
\* are where they were, one row older.
LEMMA RowsShift ==
  ASSUME NEW n \in Nat \ {0}, NEW h \in 0 .. n - 1, NEW g, g = (h + 1) % n
  PROVE  /\ g \in 0 .. n - 1
         /\ Place(g, 0, n) = h
         /\ \A r \in 0 .. n - 2 : /\ Place(g, r + 1, n) = Place(h, r, n)
                                  /\ Place(h, r, n) \in 0 .. n - 1
                                  /\ Place(h, r, n) # h
<1>1. g = IF h + 1 = n THEN 0 ELSE h + 1
  BY NextHead
<1>2. g \in 0 .. n - 1
  BY <1>1
<1>3. Place(g, 0, n) = h
  BY <1>1, <1>2, RowPlace
<1>4. ASSUME NEW r \in 0 .. n - 2
      PROVE  /\ Place(g, r + 1, n) = Place(h, r, n)
             /\ Place(h, r, n) \in 0 .. n - 1
             /\ Place(h, r, n) # h
  <2>1. Place(g, r + 1, n) = IF r + 1 < g THEN g - 1 - (r + 1) ELSE g - 1 - (r + 1) + n
    BY <1>2, RowPlace
  <2>2. Place(h, r, n) = IF r < h THEN h - 1 - r ELSE h - 1 - r + n
    BY RowPlace
  <2>. QED
    BY <1>1, <2>1, <2>2
<1>. QED
  BY <1>2, <1>3, <1>4

LEMMA Product == ASSUME NEW v \in Nat \ {0}, NEW d \in Nat \ {0} PROVE v * d \in Nat \ {0}
OBVIOUS

LEMMA FilledRing ==
  ASSUME NEW S, NEW n \in Nat, NEW f \in [1 .. n -> S]
  PROVE  f \in Seq(S) /\ Len(f) = n
OBVIOUS

-----------------------------------------------------------------------------
(* The invariant.                                                          *)

\* The ring holds the newest snapshots, and all of the present width.
RingInv ==
  /\ wfLen <= Len(painted)
  /\ \A r \in 0 .. wfLen - 1 : WaterfallRow(r) = painted[r + 1] /\ painted[r + 1].width = bars

HeatInv == heat = NoHeat \/ heat.cols = bars

VisualizerInv == VisualizerTypeOK /\ sinceFeed <= ticks /\ RingInv /\ HeatInv

LEMMA Sizes ==
  ASSUME VisualizerTypeOK
  PROVE  /\ bars \in Nat
         /\ vizRows \in Nat \ {0, 1}
         /\ 0 \in 0 .. MaxTicks
         /\ vizRows * DotRows \in Nat \ {0}
<1>1. bars \in Nat /\ vizRows \in Nat \ {0, 1} /\ DotRows \in Nat \ {0} /\ 0 \in 0 .. MaxTicks
  BY VisualizerAssumption DEF VisualizerTypeOK
<1>. QED
  BY <1>1, Product

\* A snapshot goes into the ring.
LEMMA SnapshotTaken ==
  ASSUME VisualizerTypeOK, RingInv, TickWaterfall, ticks' \in Nat, bars' = bars
  PROVE  /\ wfBuf' \in Seq(Snaps)
         /\ wfLen' \in 0 .. Len(wfBuf')
         /\ wfHead' \in 0 .. Len(wfBuf') /\ (wfBuf' # <<>> => wfHead' < Len(wfBuf'))
         /\ painted' \in Seq(Snaps)
         /\ RingInv'
<1>. DEFINE cap   == vizRows * DotRows
            renew == Len(wfBuf) # cap
            head  == IF renew THEN 0 ELSE wfHead
            len   == IF renew THEN 0 ELSE wfLen
<1>1. cap \in Nat \ {0}
  BY Sizes
<1>2. wfBuf \in Seq(Snaps) /\ painted \in Seq(Snaps) /\ Len(painted) \in Nat
  BY DEF VisualizerTypeOK, Snaps
<1>3. Snap \in Snaps /\ NoSnap \in Snaps /\ Snap.width = bars
  BY Sizes DEF Snap, Snaps, NoSnap
<1>4. /\ wfBuf' = [i \in 1 .. cap |-> IF i = head + 1 THEN Snap
                                      ELSE IF renew THEN NoSnap ELSE wfBuf[i]]
      /\ wfHead' = (head + 1) % cap
      /\ wfLen' = IF len < cap THEN len + 1 ELSE len
      /\ painted' = <<Snap>> \o painted
  BY DEF TickWaterfall
<1>. HIDE DEF cap
<1>5. head \in 0 .. cap - 1 /\ len \in 0 .. cap /\ len <= Len(painted)
  <2>1. CASE renew
    BY <1>1, <1>2, <2>1
  <2>2. CASE ~renew
    <3>1. wfBuf # <<>> /\ Len(wfBuf) = cap
      BY <1>1, <2>2, EmptySeq
    <3>. QED
      BY <1>1, <2>2, <3>1 DEF VisualizerTypeOK, RingInv
  <2>. QED
    BY <2>1, <2>2
<1>6. wfBuf' \in Seq(Snaps) /\ Len(wfBuf') = cap
  <2>1. ASSUME NEW i \in 1 .. cap
        PROVE  (IF i = head + 1 THEN Snap ELSE IF renew THEN NoSnap ELSE wfBuf[i]) \in Snaps
    <3>1. CASE renew
      BY <1>3, <3>1
    <3>2. CASE ~renew
      <4>1. wfBuf[i] \in Snaps
        BY <1>2, <3>2, ElementOfSeq
      <4>. QED
        BY <1>3, <4>1
    <3>. QED
      BY <3>1, <3>2
  <2>. HIDE DEF renew, head
  <2>2. wfBuf' \in [1 .. cap -> Snaps]
    BY <1>4, <2>1
  <2>. QED
    BY <1>1, <2>2, FilledRing
<1>7. /\ wfHead' \in 0 .. cap - 1
      /\ Place(wfHead', 0, cap) = head
      /\ \A r \in 0 .. cap - 2 : /\ Place(wfHead', r + 1, cap) = Place(head, r, cap)
                                 /\ Place(head, r, cap) \in 0 .. cap - 1
                                 /\ Place(head, r, cap) # head
  <2>. HIDE DEF renew, head, len
  <2>1. cap \in Nat \ {0} /\ head \in 0 .. cap - 1 /\ wfHead' = (head + 1) % cap
    BY <1>1, <1>5, <1>4
  <2>. QED
    BY <2>1, RowsShift
<1>8. /\ painted' \in Seq(Snaps)
      /\ Len(painted') = Len(painted) + 1
      /\ painted'[1] = Snap
      /\ \A k \in 1 .. Len(painted) : painted'[k + 1] = painted[k]
  <2>1. <<Snap>> \in Seq(Snaps) /\ Len(<<Snap>>) = 1 /\ <<Snap>>[1] = Snap
    BY <1>3
  <2>. QED
    BY <1>2, <1>4, <2>1, ConcatProperties
<1>9. wfLen' \in 0 .. cap /\ wfLen' <= Len(painted')
  <2>. HIDE DEF len
  <2>. QED
    BY <1>1, <1>2, <1>5, <1>4, <1>8
<1>10. ASSUME NEW r \in 0 .. wfLen' - 1
       PROVE  /\ wfBuf'[Place(wfHead', r, cap) + 1] = painted'[r + 1]
              /\ painted'[r + 1].width = bars
  <2>1. CASE r = 0
    <3>. HIDE DEF head, renew
    <3>1. head + 1 \in 1 .. cap /\ wfBuf'[head + 1] = Snap
      BY <1>1, <1>5, <1>4
    <3>2. Place(wfHead', r, cap) = head
      BY <1>7, <2>1
    <3>3. painted'[r + 1] = Snap
      BY <1>8, <2>1
    <3>. QED
      BY <1>3, <3>1, <3>2, <3>3
  <2>2. CASE r # 0
    <3>. DEFINE q == r - 1
                p == Place(head, q, cap)
    <3>1. q \in 0 .. len - 1 /\ q \in 0 .. cap - 2 /\ r = q + 1
      BY <1>1, <1>5, <1>4, <1>9, <2>2
    <3>2. ~renew /\ q \in 0 .. wfLen - 1 /\ head = wfHead /\ cap = Len(wfBuf)
      BY <3>1
    <3>3. Place(wfHead', r, cap) = p /\ p \in 0 .. cap - 1 /\ p # head
      BY <1>7, <3>1
    <3>. HIDE DEF q
    <3>4. wfBuf[p + 1] = painted[q + 1] /\ painted[q + 1].width = bars
      BY <3>2 DEF RingInv, WaterfallRow, Place
    <3>. HIDE DEF p
    <3>5. wfBuf'[p + 1] = wfBuf[p + 1]
      BY <1>1, <1>5, <1>4, <3>2, <3>3
    <3>6. painted'[r + 1] = painted[q + 1]
      <4>1. q + 1 \in 1 .. Len(painted)
        BY <1>2, <1>5, <3>1
      <4>. QED
        BY <1>8, <3>1, <4>1
    <3>. QED
      BY <3>3, <3>4, <3>5, <3>6
  <2>. QED
    BY <2>1, <2>2
<1>. HIDE DEF renew, head, len
<1>11. \A r \in 0 .. wfLen' - 1 : WaterfallRow(r)' = painted'[r + 1]
  BY <1>6, <1>10 DEF WaterfallRow, Place
<1>12. RingInv'
  BY <1>9, <1>10, <1>11 DEF RingInv
<1>. QED
  BY <1>1, <1>6, <1>7, <1>8, <1>9, <1>12

-----------------------------------------------------------------------------
(* The steps.                                                              *)

LEMMA InvInit == VisualizerInit => VisualizerInv
<1>. SUFFICES ASSUME VisualizerInit PROVE VisualizerInv
  OBVIOUS
<1>1. wfBuf \in Seq(Snaps) /\ painted \in Seq(Snaps) /\ Len(wfBuf) = 0 /\ Len(painted) = 0
  BY EmptySeq DEF VisualizerInit
<1>2. NoHeat \in [rows : Nat, cols : Nat] /\ 0 \in 0 .. MaxTicks
  BY VisualizerAssumption DEF NoHeat
<1>3. VisualizerTypeOK
  <2>1. /\ wfLen \in 0 .. Len(wfBuf)
        /\ wfHead \in 0 .. Len(wfBuf) /\ (wfBuf # <<>> => wfHead < Len(wfBuf))
    BY <1>1 DEF VisualizerInit
  <2>2. hasRealData \in BOOLEAN /\ exceeded \in BOOLEAN /\ cycled \in BOOLEAN
    BY DEF VisualizerInit
  <2>3. /\ mode \in Modes /\ source \in {"none", "real", "simulated", "paused"}
        /\ frame \in Nat /\ lastFeedFrame \in Nat /\ realBands \in Nat
        /\ bars \in Widths \cup {20} /\ vizRows \in Heights \cup {2}
        /\ ticks \in 0 .. MaxTicks /\ sinceFeed \in 0 .. MaxTicks
        /\ heat \in [rows : Nat, cols : Nat]
    BY <1>2 DEF VisualizerInit
  <2>. QED
    BY <1>1, <2>1, <2>2, <2>3 DEF VisualizerTypeOK, Snaps
<1>4. sinceFeed <= ticks /\ RingInv /\ HeatInv
  BY <1>1 DEF VisualizerInit, RingInv, HeatInv
<1>. QED
  BY <1>3, <1>4 DEF VisualizerInv

\* An empty ring shows nothing, whatever the width.
LEMMA InvResize == VisualizerInv /\ Resize => VisualizerInv'
<1>. SUFFICES ASSUME VisualizerInv, Resize PROVE VisualizerInv'
  OBVIOUS
<1>. USE DEF VisualizerInv
<1>1. VisualizerTypeOK' /\ (sinceFeed <= ticks)'
  <2>1. /\ wfBuf' \in Seq(Snaps)
        /\ wfLen' \in 0 .. Len(wfBuf')
        /\ wfHead' \in 0 .. Len(wfBuf') /\ (wfBuf' # <<>> => wfHead' < Len(wfBuf'))
    <3>1. <<>> \in Seq(Snaps) /\ Len(<<>>) = 0
      BY EmptySeq
    <3>2. CASE bars' = bars
      BY <3>2 DEF Resize, VisualizerTypeOK, Snaps
    <3>3. CASE bars' # bars
      <4>1. wfBuf' = <<>> /\ wfHead' = 0 /\ wfLen' = 0
        BY <3>3 DEF Resize
      <4>. QED
        BY <3>1, <4>1
    <3>. QED
      BY <3>2, <3>3
  <2>2. heat' \in [rows : Nat, cols : Nat]
    BY DEF Resize, VisualizerTypeOK, NoHeat
  <2>3. bars' \in Widths \cup {20} /\ vizRows' \in Heights \cup {2}
    BY DEF Resize
  <2>. QED
    BY <2>1, <2>2, <2>3 DEF Resize, VisualizerTypeOK, Snaps
<1>2. RingInv'
  <2>1. CASE bars' = bars
    BY <2>1 DEF Resize, RingInv, WaterfallRow
  <2>2. CASE bars' # bars
    <3>1. wfLen' = 0 /\ painted' = painted /\ Len(painted) \in Nat
      BY <2>2 DEF Resize, VisualizerTypeOK
    <3>. QED
      BY <3>1 DEF RingInv
  <2>. QED
    BY <2>1, <2>2
<1>3. HeatInv'
  BY DEF Resize, HeatInv
<1>. QED
  BY <1>1, <1>2, <1>3

LEMMA InvFeed == VisualizerInv /\ Feed => VisualizerInv'
<1>. SUFFICES ASSUME VisualizerInv, Feed PROVE VisualizerInv'
  OBVIOUS
<1>. USE DEF VisualizerInv
<1>1. VisualizerTypeOK' /\ (sinceFeed <= ticks)'
  <2>1. realBands' \in Nat /\ lastFeedFrame' \in Nat /\ sinceFeed' = 0 /\ 0 \in 0 .. MaxTicks
    BY Sizes DEF Feed, VisualizerTypeOK
  <2>2. hasRealData' \in BOOLEAN /\ cycled' \in BOOLEAN
    BY DEF Feed
  <2>3. 0 <= ticks'
    BY DEF Feed, VisualizerTypeOK
  <2>. QED
    BY <2>1, <2>2, <2>3 DEF Feed, VisualizerTypeOK
<1>2. RingInv' /\ HeatInv'
  BY DEF Feed, RingInv, WaterfallRow, HeatInv
<1>. QED
  BY <1>1, <1>2

LEMMA InvCycleMode == VisualizerInv /\ CycleMode => VisualizerInv'
<1>. SUFFICES ASSUME VisualizerInv, CycleMode PROVE VisualizerInv'
  OBVIOUS
<1>. USE DEF VisualizerInv
<1>1. VisualizerTypeOK' /\ (sinceFeed <= ticks)'
  BY DEF CycleMode, VisualizerTypeOK, Modes
<1>2. RingInv' /\ HeatInv'
  BY DEF CycleMode, RingInv, WaterfallRow, HeatInv
<1>. QED
  BY <1>1, <1>2

LEMMA InvTick == VisualizerInv /\ Tick => VisualizerInv'
<1>. SUFFICES ASSUME VisualizerInv, Tick PROVE VisualizerInv'
  OBVIOUS
<1>. USE DEF VisualizerInv
<1>1. ticks' \in 0 .. MaxTicks /\ sinceFeed' \in 0 .. MaxTicks /\ sinceFeed' <= ticks'
      /\ frame' \in Nat /\ ticks' \in Nat
  BY VisualizerAssumption DEF Tick, VisualizerTypeOK
<1>2. bars' = bars /\ vizRows' = vizRows
  BY DEF Tick
<1>3. TickWaterfall \/ UNCHANGED <<wfVars, painted>>
  BY DEF Tick
<1>4. /\ wfBuf' \in Seq(Snaps)
      /\ wfLen' \in 0 .. Len(wfBuf')
      /\ wfHead' \in 0 .. Len(wfBuf') /\ (wfBuf' # <<>> => wfHead' < Len(wfBuf'))
      /\ painted' \in Seq(Snaps)
      /\ RingInv'
  <2>1. CASE TickWaterfall
    BY <1>1, <1>2, <2>1, SnapshotTaken
  <2>2. CASE UNCHANGED <<wfVars, painted>>
    BY <1>2, <2>2 DEF VisualizerTypeOK, Snaps, RingInv, WaterfallRow
  <2>. QED
    BY <1>3, <2>1, <2>2
<1>5. heat' \in [rows : Nat, cols : Nat] /\ HeatInv'
  BY <1>2, Sizes DEF Tick, TickFlame, VisualizerTypeOK, HeatInv
<1>6. source' \in {"none", "real", "simulated", "paused"} /\ exceeded' \in BOOLEAN
  BY DEF Tick, Source, VisualizerTypeOK
<1>7. VisualizerTypeOK'
  BY <1>1, <1>4, <1>5, <1>6 DEF Tick, VisualizerTypeOK, Snaps
<1>. QED
  BY <1>1, <1>4, <1>5, <1>7

LEMMA InvStutter == VisualizerInv /\ UNCHANGED vars => VisualizerInv'
BY DEF VisualizerInv, vars, VisualizerTypeOK, RingInv, WaterfallRow, HeatInv

LEMMA InvAlways == VisualizerSpec => []VisualizerInv
<1>1. VisualizerInv /\ [VisualizerNext]_vars => VisualizerInv'
  BY InvResize, InvFeed, InvCycleMode, InvTick, InvStutter DEF VisualizerNext
<1>. QED
  BY InvInit, <1>1, PTL DEF VisualizerSpec

-----------------------------------------------------------------------------
(* The theorems.                                                           *)

\* The ring's head and length never leave the ring, whatever order ticks, resizes
\* and changes of mode come in (viz_waterfall.go:5 to 21).
THEOREM VisualizerTypeCorrect == VisualizerSpec => []VisualizerTypeOK
BY InvAlways, PTL DEF VisualizerInv

\* For any size of the window the waterfall draws the newest snapshots, in order
\* and in the window's width (viz_waterfall.go:38 to 41, visualizer.go:105 to 114).
THEOREM WaterfallInOrder == VisualizerSpec => []WaterfallShowsNewest
<1>1. VisualizerInv => WaterfallShowsNewest
  <2>. SUFFICES ASSUME VisualizerInv, NEW r \in 0 .. Drawn - 1
                PROVE  /\ r < Len(painted)
                       /\ WaterfallRow(r) = painted[r + 1]
                       /\ WaterfallRow(r).width = bars
    BY DEF WaterfallShowsNewest
  <2>1. wfLen \in Nat /\ Len(painted) \in Nat /\ vizRows * DotRows \in Nat
    BY Sizes DEF VisualizerInv, VisualizerTypeOK
  <2>2. r \in 0 .. wfLen - 1
    BY <2>1 DEF Drawn
  <2>. QED
    BY <2>1, <2>2 DEF VisualizerInv, RingInv
<1>. QED
  BY InvAlways, <1>1, PTL

\* renderFlame indexes no cell that tickFlame has not made (viz_flame.go:60 to 75).
THEOREM FlameFitsAlways == VisualizerSpec => []FlameFits
<1>1. VisualizerInv => FlameFits
  BY Sizes DEF VisualizerInv, HeatInv, NoHeat, FlameFits, FlameDrawn
<1>. QED
  BY InvAlways, <1>1, PTL

\* Whatever was resized or cycled since they were filled, the buffers of the two modes that
\* have some hold what is drawn of them (viz_waterfall.go:38, viz_flame.go:60).
THEOREM BuffersAlwaysFit == VisualizerSpec => []BuffersFit
  BY WaterfallInOrder, FlameFitsAlways, PTL DEF BuffersFit

-----------------------------------------------------------------------------
(***************************************************************************)
(* The feed.  The frames counted since the last feed are the ticks since   *)
(* then, or fewer if the mode was cycled.                                  *)
(***************************************************************************)
FeedInv ==
  /\ frame \in Nat /\ lastFeedFrame \in Nat /\ sinceFeed \in Nat
  /\ hasRealData => frame - lastFeedFrame <= sinceFeed
  /\ hasRealData /\ ~cycled => frame - lastFeedFrame = sinceFeed
  /\ source = "real" => hasRealData
  /\ FollowsFeed

LEMMA FeedTick == FeedInv /\ Tick => FeedInv'
<1>. SUFFICES ASSUME FeedInv, Tick PROVE FeedInv'
  OBVIOUS
<1>1. /\ frame' = frame + 1 /\ sinceFeed' = sinceFeed + 1
      /\ lastFeedFrame' = lastFeedFrame /\ hasRealData' = hasRealData /\ cycled' = cycled
  BY DEF Tick
<1>2. /\ source' = "real" => FeedFresh
      /\ source' = "simulated" => ~FeedFresh
  BY DEF Tick, Source
<1>3. FeedStaleFrames \in Nat
  BY VisualizerAssumption
<1>4. /\ frame' \in Nat /\ sinceFeed' \in Nat
      /\ hasRealData' => frame' - lastFeedFrame' <= sinceFeed'
      /\ hasRealData' /\ ~cycled' => frame' - lastFeedFrame' = sinceFeed'
  BY <1>1 DEF FeedInv
<1>5. source' = "simulated" => ~hasRealData' \/ sinceFeed' > FeedStaleFrames
  BY <1>1, <1>2, <1>3, <1>4 DEF FeedInv, FeedFresh
<1>6. source' = "real" => hasRealData' /\ (~cycled' => sinceFeed' <= FeedStaleFrames)
  BY <1>1, <1>2, <1>3, <1>4 DEF FeedInv, FeedFresh
<1>. QED
  BY <1>1, <1>4, <1>5, <1>6 DEF FeedInv, FollowsFeed

\* In any order of spectra, ticks, resizes and changes of mode the bars follow the
\* spectrum while it arrives (visualizer.go:136).
THEOREM BarsFollowFeed == VisualizerSpec => []FollowsFeed
<1>1. VisualizerInit => FeedInv
  BY DEF VisualizerInit, FeedInv, FollowsFeed
<1>2. FeedInv /\ [VisualizerNext]_vars => FeedInv'
  <2>. SUFFICES ASSUME FeedInv, [VisualizerNext]_vars PROVE FeedInv'
    OBVIOUS
  <2>1. CASE Resize
    BY <2>1 DEF Resize, FeedInv, FollowsFeed
  <2>2. CASE Feed
    <3>1. /\ frame' = frame /\ lastFeedFrame' = frame /\ sinceFeed' = 0 /\ source' = source
          /\ hasRealData' /\ FeedStaleFrames \in Nat
      BY <2>2, VisualizerAssumption DEF Feed
    <3>. QED
      BY <3>1 DEF FeedInv, FollowsFeed
  <2>3. CASE CycleMode
    BY <2>3 DEF CycleMode, FeedInv, FollowsFeed
  <2>4. CASE Tick
    BY <2>4, FeedTick
  <2>5. CASE UNCHANGED vars
    BY <2>5 DEF vars, FeedInv, FollowsFeed
  <2>. QED
    BY <2>1, <2>2, <2>3, <2>4, <2>5 DEF VisualizerNext
<1>. QED
  BY <1>1, <1>2, PTL DEF VisualizerSpec, FeedInv
-----------------------------------------------------------------------------
(***************************************************************************)
(* InRange does not hold (the run visualizer_overrun).  What it takes is a *)
(* window that gets more bars than the last spectrum had.                  *)
(***************************************************************************)
NeverWidened == [][hasRealData => bars' <= realBands]_bars

RangeInv == ~exceeded /\ (hasRealData => bars <= realBands)

\* As long as no resize makes more bars than the stored spectrum has, no tick reads past
\* its end (visualizer.go:145, 258), whether it has gone stale, become fresh again with
\* a change of mode, or the window has shrunk and grown back.
THEOREM OverrunsOnlyWidened == VisualizerSpec /\ NeverWidened => []InRange
<1>1. VisualizerInit => RangeInv
  BY DEF VisualizerInit, RangeInv
<1>2. /\ VisualizerInv /\ RangeInv /\ [VisualizerNext]_vars
      /\ [hasRealData => bars' <= realBands]_bars
      => RangeInv'
  <2>. SUFFICES ASSUME VisualizerInv, RangeInv, [VisualizerNext]_vars,
                       [hasRealData => bars' <= realBands]_bars
                PROVE  RangeInv'
    OBVIOUS
  <2>1. bars \in Nat /\ realBands \in Nat
    BY Sizes DEF VisualizerInv, VisualizerTypeOK
  <2>2. CASE Resize
    <3>1. UNCHANGED <<exceeded, hasRealData, realBands>>
      BY <2>2 DEF Resize, feedVars
    <3>. QED
      BY <3>1 DEF RangeInv
  <2>3. CASE Feed
    BY <2>1, <2>3 DEF Feed, sizeVars, RangeInv
  <2>4. CASE CycleMode
    BY <2>4 DEF CycleMode, sizeVars, feedVars, RangeInv
  <2>5. CASE Tick
    <3>1. ASSUME NEW moves \in BOOLEAN PROVE ~Overrun(moves)
      <4>1. Source(moves) = "real" => hasRealData
        BY DEF Source, FeedFresh
      <4>. QED
        BY <2>1, <4>1 DEF Overrun, RangeInv
    <3>2. UNCHANGED <<bars, realBands, hasRealData>>
      BY <2>5 DEF Tick, sizeVars, feedVars
    <3>3. UNCHANGED exceeded
      BY <2>5, <3>1 DEF Tick
    <3>. QED
      BY <3>2, <3>3 DEF RangeInv
  <2>6. CASE UNCHANGED vars
    BY <2>6 DEF vars, sizeVars, feedVars, RangeInv
  <2>. QED
    BY <2>2, <2>3, <2>4, <2>5, <2>6 DEF VisualizerNext
<1>3. RangeInv => InRange
  BY DEF RangeInv, InRange
<1>. QED
  BY <1>1, <1>2, <1>3, InvAlways, PTL DEF VisualizerSpec, NeverWidened
=============================================================================
