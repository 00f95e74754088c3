-------------------------- MODULE ConnClientProofs --------------------------
(***************************************************************************)
(* Proofs about ConnClient, for every set of calls and every capacity: its *)
(* types, that Close leaves no call waiting, that only a Close by the owner *)
(* can make the read loop send on a closed channel, and that every step is *)
(* one that Rpc allows.                                                    *)
(***************************************************************************)
EXTENDS ConnClient, SequenceTheorems, TLAPS

USE DEF stepVars, closeVars, serverVars, connVars, Note

\* The parts of ConnClientAssumption the proofs use.
LEMMA ConnBounds == NotifyCap \in Nat \ {0} /\ MaxNotes \in Nat
BY ConnClientAssumption

-----------------------------------------------------------------------------
(* Type correctness.                                                       *)

BoxType  == [Calls -> [full : BOOLEAN, closed : BOOLEAN]]
LoopType == [pc : {"read", "look", "route", "notify", "close", "done"}, msg : Frames]

LEMMA FramesType ==
  /\ Note \in Frames
  /\ \A i \in Calls : Response(i) \in Frames /\ Response(i) # Note
  /\ \A f \in Frames : f # Note => f.id \in Calls /\ f = Response(f.id)
<1>1. \A i \in Calls : Response(i).kind = "response" /\ Note.kind = "note"
  BY DEF Response
<1>. QED
  BY <1>1 DEF Frames, Response

LEMMA ConnTypeInit == ConnInit => ConnTypeOK
<1>. SUFFICES ASSUME ConnInit PROVE ConnTypeOK
  OBVIOUS
<1>1. loop \in LoopType /\ loop.pc = "read"
  BY FramesType DEF ConnInit, Reading, LoopType
<1>2. requests \in Seq(Calls) /\ frames \in Seq(Frames) /\ notify \in 0 .. NotifyCap
      /\ notes \in 0 .. MaxNotes
  BY ConnBounds DEF ConnInit
<1>. QED
  BY <1>1, <1>2 DEF ConnInit, ConnTypeOK, LoopType, EmptyBox, NotClosing

\* Calls.
LEMMA ConnTypeCall ==
  ASSUME ConnTypeOK, NEW i \in Calls, CallStep(i), UNCHANGED panicked
  PROVE  ConnTypeOK'
<1>1. requests' \in Seq(Calls)
  <2>1. requests' = requests \/ requests' = Append(requests, i)
    BY DEF CallStep, CallRegister, CallWrite, CallWriteFails, CallReceive, CallSeesClose,
           CallGivesUp, CallReturn
  <2>2. requests \in Seq(Calls)
    BY DEF ConnTypeOK
  <2>. QED
    BY <2>1, <2>2
<1>2. \E pc \in {"write", "wait", "leaving", "returned"} : step' = [step EXCEPT ![i] = pc]
  BY DEF CallStep, CallRegister, CallWrite, CallWriteFails, CallReceive, CallSeesClose,
         CallGivesUp, CallReturn, Leave
<1>3. result' = result \/ \E res \in {"reply", "error"} : result' = [result EXCEPT ![i] = res]
  BY DEF CallStep, CallRegister, CallWrite, CallWriteFails, CallReceive, CallSeesClose,
         CallGivesUp, CallReturn, Leave
<1>4. pending' \subseteq Calls
  BY DEF ConnTypeOK, CallStep, CallRegister, CallWrite, CallWriteFails, CallReceive,
         CallSeesClose, CallGivesUp, CallReturn
<1>5. box' = box \/ box' = [box EXCEPT ![i].full = FALSE]
  BY DEF CallStep, CallRegister, CallWrite, CallWriteFails, CallReceive, CallSeesClose,
         CallGivesUp, CallReturn
<1>6. /\ step' \in [Calls -> {"idle", "write", "wait", "leaving", "returned"}]
      /\ result' \in [Calls -> {"none", "reply", "error"}]
      /\ box' \in BoxType
  <2>1. /\ step \in [Calls -> {"idle", "write", "wait", "leaving", "returned"}]
        /\ result \in [Calls -> {"none", "reply", "error"}]
        /\ box \in BoxType
    BY DEF ConnTypeOK, BoxType
  <2>2. step' \in [Calls -> {"idle", "write", "wait", "leaving", "returned"}]
    BY <1>2, <2>1
  <2>3. result' \in [Calls -> {"none", "reply", "error"}]
    BY <1>3, <2>1
  <2>4. box' \in BoxType
    BY <1>5, <2>1 DEF BoxType
  <2>. QED
    BY <2>2, <2>3, <2>4
<1>7. UNCHANGED <<loop, notify, closeVars, serverOpen, frames, notes, answered>>
  BY DEF CallStep, CallRegister, CallWrite, CallWriteFails, CallReceive, CallSeesClose,
         CallGivesUp, CallReturn
<1>. QED
  BY <1>1, <1>4, <1>6, <1>7 DEF ConnTypeOK, BoxType

\* Close, by anyone.
LEMMA ConnTypeClose ==
  ASSUME ConnTypeOK, OwnerCloseStart \/ CloseStep, UNCHANGED panicked
  PROVE  ConnTypeOK'
<1>1. box' \in BoxType
  <2>0. box \in BoxType
    BY DEF ConnTypeOK, BoxType
  <2>1. \A i \in Calls : [box[i] EXCEPT !.closed = TRUE] \in [full : BOOLEAN, closed : BOOLEAN]
    BY <2>0 DEF BoxType
  <2>2. \/ box' = box
        \/ box' = [i \in Calls |-> IF i \in pending THEN [box[i] EXCEPT !.closed = TRUE]
                                                    ELSE box[i]]
    BY DEF OwnerCloseStart, CloseStep, CloseConn, CloseCalls, CloseNotify
  <2>. QED
    BY <2>0, <2>1, <2>2 DEF BoxType
<1>2. loop' \in LoopType /\ (loop'.pc \in {"look", "route"} => loop'.msg # Note)
  BY DEF ConnTypeOK, LoopType, OwnerCloseStart, CloseStep, CloseConn, CloseCalls, CloseNotify
<1>3. closing' \in [by : {"nobody", "owner", "loop"}, pc : {"none", "conn", "calls", "notify"}]
  <2>1. CASE OwnerCloseStart
    BY <2>1 DEF OwnerCloseStart, CloseStart
  <2>2. CASE CloseStep
    <3>1. \E pc \in {"none", "calls", "notify"} : closing' = [closing EXCEPT !.pc = pc]
      BY <2>2 DEF CloseStep, CloseConn, CloseCalls, CloseNotify
    <3>. QED
      BY <3>1 DEF ConnTypeOK
  <2>. QED
    BY <2>1, <2>2
<1>5. notifyOpen' \in BOOLEAN /\ closed' \in BOOLEAN /\ connOpen' \in BOOLEAN
  BY Zenon DEF ConnTypeOK, OwnerCloseStart, CloseStart, CloseStep, CloseConn, CloseCalls, CloseNotify
<1>4. /\ UNCHANGED <<step, result, notify, serverVars>>
      /\ pending' \subseteq Calls
  BY DEF ConnTypeOK, OwnerCloseStart, CloseStep, CloseConn, CloseCalls, CloseNotify
<1>. QED
  BY <1>1, <1>2, <1>3, <1>4, <1>5 DEF ConnTypeOK, BoxType, LoopType

\* The read loop.
LEMMA ConnTypeLoop ==
  ASSUME ConnTypeOK, LoopStep, UNCHANGED panicked
  PROVE  ConnTypeOK'
<1>1. CASE LoopRead
  <2>1. Head(frames) \in Frames /\ frames' \in Seq(Frames)
    BY <1>1 DEF LoopRead, ConnTypeOK
  <2>2. loop' \in LoopType /\ (loop'.pc \in {"look", "route"} => loop'.msg # Note)
    BY <1>1, <2>1 DEF LoopRead, LoopType
  <2>. QED
    BY <1>1, <2>1, <2>2 DEF LoopRead, ConnTypeOK, LoopType
<1>2. CASE LoopReadFails
  <2>1. loop' \in LoopType /\ loop'.pc \in {"close", "done"}
    BY <1>2 DEF LoopReadFails, ConnTypeOK, LoopType
  <2>2. /\ closing' = closing \/ closing' = [by |-> "loop", pc |-> "conn"]
        /\ notifyOpen' = notifyOpen /\ connOpen' = connOpen
        /\ closed' = closed \/ closed' = TRUE
    BY <1>2 DEF LoopReadFails, CloseStart
  <2>3. closing' \in [by : {"nobody", "owner", "loop"}, pc : {"none", "conn", "calls", "notify"}]
    BY <2>2 DEF ConnTypeOK
  <2>4. {notifyOpen', closed', connOpen', serverOpen', panicked'} \subseteq BOOLEAN
    BY <1>2, <2>2 DEF LoopReadFails, ConnTypeOK
  <2>5. UNCHANGED <<stepVars, notify, serverVars, panicked>>
    BY <1>2 DEF LoopReadFails
  <2>. QED
    BY <2>1, <2>3, <2>4, <2>5 DEF ConnTypeOK, LoopType
<1>3. CASE LoopLook
  <2>1. loop' \in LoopType /\ (loop'.pc \in {"look", "route"} => loop'.msg # Note)
    BY <1>3, FramesType DEF LoopLook, Reading, ConnTypeOK, LoopType
  <2>. QED
    BY <1>3, <2>1 DEF LoopLook, ConnTypeOK, LoopType
<1>4. CASE LoopRoute \/ LoopNotify
  <2>1. loop' \in LoopType /\ loop'.pc = "read"
    BY <1>4, FramesType DEF LoopRoute, LoopNotify, Reading, LoopType
  <2>2. box' \in BoxType
    <3>1. box \in BoxType
      BY DEF ConnTypeOK, BoxType
    <3>2. box' = box \/ box' = [box EXCEPT ![loop.msg.id].full = TRUE]
      BY <1>4 DEF LoopRoute, LoopNotify
    <3>. QED
      BY <3>1, <3>2 DEF BoxType
  <2>3. notify' \in 0 .. NotifyCap
    BY <1>4, ConnBounds DEF LoopRoute, LoopNotify, ConnTypeOK
  <2>. QED
    BY <1>4, <2>1, <2>2, <2>3 DEF LoopRoute, LoopNotify, ConnTypeOK, LoopType, BoxType
<1>. QED
  BY <1>1, <1>2, <1>3, <1>4 DEF LoopStep

LEMMA ConnTypeServer ==
  ASSUME ConnTypeOK, ServerStep \/ Consume, UNCHANGED panicked
  PROVE  ConnTypeOK'
<1>1. requests' \in Seq(Calls)
  <2>1. \/ requests' = requests
        \/ requests' = <<>>
        \/ requests # <<>> /\ requests' = Tail(requests)
    BY DEF ServerStep, ServerAnswer, ServerAnswerLost, ServerNotify, ServerDisconnect, Consume
  <2>2. requests \in Seq(Calls)
    BY DEF ConnTypeOK
  <2>3. requests # <<>> => Tail(requests) \in Seq(Calls)
    BY <2>2, HeadTailProperties
  <2>4. <<>> \in Seq(Calls)
    OBVIOUS
  <2>. QED
    BY <2>1, <2>2, <2>3, <2>4
<1>2. frames' \in Seq(Frames) /\ answered' \subseteq Calls
  <2>1. CASE ServerAnswer
    <3>1. Head(requests) \in Calls
      BY <2>1 DEF ServerAnswer, ConnTypeOK
    <3>2. Response(Head(requests)) \in Frames
      BY <3>1, FramesType
    <3>. QED
      BY <2>1, <3>1, <3>2 DEF ServerAnswer, ConnTypeOK
  <2>2. CASE ServerNotify
    BY <2>2, FramesType DEF ServerNotify, ConnTypeOK
  <2>3. CASE ServerAnswerLost \/ ServerDisconnect \/ Consume
    BY <2>3 DEF ServerAnswerLost, ServerDisconnect, Consume, ConnTypeOK
  <2>. QED
    BY <2>1, <2>2, <2>3 DEF ServerStep
<1>3. notes' \in 0 .. MaxNotes /\ notify' \in 0 .. NotifyCap
  <2>1. /\ notes' = notes \/ (notes < MaxNotes /\ notes' = notes + 1)
        /\ notify' = notify \/ (notify > 0 /\ notify' = notify - 1)
    BY DEF ServerStep, ServerAnswer, ServerAnswerLost, ServerNotify, ServerDisconnect, Consume
  <2>. QED
    BY <2>1, ConnBounds DEF ConnTypeOK
<1>4. UNCHANGED <<stepVars, loop, closeVars>> /\ serverOpen' \in {serverOpen, FALSE}
  BY DEF ServerStep, ServerAnswer, ServerAnswerLost, ServerNotify, ServerDisconnect, Consume
<1>. QED
  BY <1>1, <1>2, <1>3, <1>4 DEF ConnTypeOK

\* Every variable of a connection keeps its type, and c.notify its capacity.
THEOREM ConnTypeCorrect == ConnSpec => []ConnTypeOK
<1>1. ConnTypeOK /\ [ConnNext]_connVars => ConnTypeOK'
  <2>1. ConnTypeOK /\ Panic => ConnTypeOK'
    BY DEF Panic, ConnTypeOK
  <2>2. ConnTypeOK /\ UNCHANGED connVars => ConnTypeOK'
    BY DEF ConnTypeOK
  <2>. QED
    BY <2>1, <2>2, ConnTypeCall, ConnTypeClose, ConnTypeLoop, ConnTypeServer DEF ConnNext
<1>. QED
  BY <1>1, ConnTypeInit, PTL DEF ConnSpec

-----------------------------------------------------------------------------
(***************************************************************************)
(* Closing.  A call that may still write or wait is in c.pending until     *)
(* Close has gone through it, and by then the socket is closed, so that no *)
(* call can begin to wait.                                                 *)
(***************************************************************************)
ClosingInv ==
  /\ closing.pc # "none" => closed
  /\ closing.pc \in {"calls", "notify"} => ~connOpen
  /\ CallsClosed => ~connOpen
  /\ ~closed => notifyOpen /\ closing.pc = "none"
  /\ ~CallsClosed => \A i \in Calls : /\ step[i] \in {"write", "wait"} => i \in pending
                                      /\ ~box[i].closed
  /\ NoStuckCall

LEMMA ClosingInit == ConnInit => ClosingInv
BY DEF ConnInit, ClosingInv, CallsClosed, NoStuckCall, NotClosing, EmptyBox

LEMMA ClosingStep ==
  ASSUME ConnTypeOK, ClosingInv, [ConnNext]_connVars
  PROVE  ClosingInv'
<1>1. ASSUME NEW i \in Calls, CallStep(i)
      PROVE  ClosingInv'
  <2>1. UNCHANGED <<closing, closed, connOpen, notifyOpen>> /\ (CallsClosed' <=> CallsClosed)
    BY <1>1 DEF CallStep, CallRegister, CallWrite, CallWriteFails, CallReceive, CallSeesClose,
       CallGivesUp, CallReturn, CallsClosed
  <2>2. ASSUME ~CallsClosed, NEW j \in Calls
        PROVE  (step'[j] \in {"write", "wait"} => j \in pending') /\ ~box'[j].closed
    BY <1>1, <2>2 DEF ClosingInv, ConnTypeOK, CallStep, CallRegister, CallWrite,
       CallWriteFails, CallReceive, CallSeesClose, CallGivesUp, CallReturn, Leave
  <2>3. ASSUME CallsClosed, NEW j \in Calls, step'[j] = "wait"
        PROVE  box'[j].full \/ box'[j].closed
    <3>1. ~connOpen /\ (step[j] = "wait" => box[j].full \/ box[j].closed)
      BY <2>3 DEF ClosingInv, NoStuckCall
    <3>2. step[j] = "wait"
      BY <1>1, <2>3, <3>1 DEF ConnTypeOK, CallStep, CallRegister, CallWrite, CallWriteFails,
         CallReceive, CallSeesClose, CallGivesUp, CallReturn, Leave
    <3>3. box'[j] = box[j]
      BY <1>1, <2>3, <3>2 DEF ConnTypeOK, CallStep, CallRegister, CallWrite, CallWriteFails,
         CallReceive, CallSeesClose, CallGivesUp, CallReturn, Leave
    <3>. QED
      BY <3>1, <3>2, <3>3
  <2>. QED
    BY <2>1, <2>2, <2>3 DEF ClosingInv, NoStuckCall
<1>2. CASE OwnerCloseStart
  BY <1>2 DEF OwnerCloseStart, CloseStart, ClosingInv, CallsClosed, NoStuckCall
<1>3. CASE CloseConn
  BY <1>3 DEF CloseConn, ClosingInv, CallsClosed, NoStuckCall, ConnTypeOK
<1>4. CASE CloseCalls
  <2>1. ~CallsClosed /\ closed /\ ~connOpen
    BY <1>4 DEF CloseCalls, CallsClosed, ClosingInv
  <2>2. \A i \in Calls : step[i] = "wait" => box'[i].closed
    BY <1>4, <2>1 DEF CloseCalls, ClosingInv, ConnTypeOK
  <2>3. closing'.pc = "notify" /\ closed' = closed /\ connOpen' = connOpen
        /\ notifyOpen' = notifyOpen /\ step' = step
    BY <1>4 DEF CloseCalls, ConnTypeOK
  <2>. QED
    BY <2>1, <2>2, <2>3 DEF ClosingInv, CallsClosed, NoStuckCall
<1>5. CASE CloseNotify
  BY <1>5 DEF CloseNotify, ClosingInv, CallsClosed, NoStuckCall, ConnTypeOK
<1>6. CASE LoopReadFails
  BY <1>6 DEF LoopReadFails, CloseStart, ClosingInv, CallsClosed, NoStuckCall
<1>7. CASE LoopRoute
  <2>1. loop.msg.id \in Calls /\ ~box[loop.msg.id].closed
    BY <1>7, FramesType DEF LoopRoute, ConnTypeOK
  <2>2. \A i \in Calls : box'[i].closed = box[i].closed /\ (box[i].full => box'[i].full)
    BY <1>7, <2>1 DEF LoopRoute, ConnTypeOK
  <2>. QED
    BY <1>7, <2>2 DEF LoopRoute, ClosingInv, CallsClosed, NoStuckCall
<1>8. CASE LoopRead \/ LoopLook \/ LoopNotify \/ Consume \/ ServerStep \/ Panic \/ UNCHANGED connVars
  <2>1. UNCHANGED <<step, pending, box, closing, closed, connOpen, notifyOpen>>
    BY <1>8 DEF LoopRead, LoopLook, LoopNotify, Consume, Panic, ServerStep, ServerAnswer,
       ServerAnswerLost, ServerNotify, ServerDisconnect
  <2>. QED
    BY <2>1 DEF ClosingInv, CallsClosed, NoStuckCall
<1>. QED
  BY <1>1, <1>2, <1>3, <1>4, <1>5, <1>6, <1>7, <1>8 DEF ConnNext, CloseStep, LoopStep

\* Close leaves no call waiting, whatever the calls are doing when it comes
\* (client.go:54 to 101).
THEOREM CloseReleasesCalls == ConnSpec => []NoStuckCall
<1>1. ClosingInv => NoStuckCall
  BY DEF ClosingInv
<1>. QED
  BY <1>1, ConnTypeCorrect, ClosingInit, ClosingStep, PTL DEF ConnSpec

-----------------------------------------------------------------------------
(***************************************************************************)
(* No panic.  As long as the owner has not closed the client, it is closed *)
(* only by the read loop, which has nothing in hand then and reads no more.*)
(***************************************************************************)
LoopInv ==
  /\ ~panicked
  /\ closed => loop.pc \in {"close", "done"}
  /\ loop.pc \in {"close", "done"} => closed

PanicInv ==
  /\ ~closed => closing.by = "nobody"
  /\ closing.by # "owner" => LoopInv

LEMMA LoopInvStep ==
  ASSUME ConnTypeOK, ClosingInv, LoopInv, [ConnNext]_connVars, closing'.by # "owner"
  PROVE  LoopInv'
<1>1. ~Panic
  <2>1. ASSUME loop.pc \in {"route", "notify"}
        PROVE  ~closed /\ ~CallsClosed
    BY <2>1 DEF LoopInv, CallsClosed
  <2>2. loop.pc = "route" => ~box[loop.msg.id].closed
    BY <2>1, FramesType DEF ClosingInv, ConnTypeOK
  <2>3. loop.pc = "notify" => notifyOpen
    BY <2>1 DEF ClosingInv
  <2>. QED
    BY <2>2, <2>3 DEF Panic
<1>2. ASSUME NEW i \in Calls, CallStep(i), UNCHANGED panicked
      PROVE  LoopInv'
  BY <1>2 DEF LoopInv, CallStep, CallRegister, CallWrite, CallWriteFails, CallReceive,
     CallSeesClose, CallGivesUp, CallReturn
<1>3. ASSUME CloseStep, UNCHANGED panicked
      PROVE  LoopInv'
  <2>1. closed /\ closed' = closed
    BY <1>3 DEF CloseStep, CloseConn, CloseCalls, CloseNotify, ClosingInv
  <2>2. loop' = loop \/ loop' = [loop EXCEPT !.pc = "done"]
    BY <1>3 DEF CloseStep, CloseConn, CloseCalls, CloseNotify
  <2>3. loop \in LoopType
    BY DEF ConnTypeOK, LoopType
  <2>. QED
    BY <1>3, <2>1, <2>2, <2>3 DEF LoopInv, LoopType
<1>4. ASSUME LoopStep, UNCHANGED panicked
      PROVE  LoopInv'
  <2>1. loop \in LoopType
    BY DEF ConnTypeOK, LoopType
  <2>2. CASE LoopReadFails
    BY <1>4, <2>1, <2>2 DEF LoopReadFails, CloseStart, LoopInv, LoopType
  <2>3. CASE LoopRead \/ LoopLook \/ LoopRoute \/ LoopNotify
    <3>1. loop.pc \notin {"close", "done"} /\ closed' = closed
      BY <2>3 DEF LoopRead, LoopLook, LoopRoute, LoopNotify
    <3>2. loop'.pc \notin {"close", "done"}
      BY <2>1, <2>3 DEF LoopRead, LoopLook, LoopRoute, LoopNotify, Reading, LoopType
    <3>. QED
      BY <1>4, <3>1, <3>2 DEF LoopInv
  <2>. QED
    BY <1>4, <2>2, <2>3 DEF LoopStep
<1>5. ASSUME Consume \/ ServerStep, UNCHANGED panicked
      PROVE  LoopInv'
  BY <1>5 DEF LoopInv, Consume, ServerStep, ServerAnswer, ServerAnswerLost, ServerNotify,
     ServerDisconnect
<1>6. ~OwnerCloseStart
  BY DEF OwnerCloseStart, CloseStart
<1>7. CASE UNCHANGED connVars
  BY <1>7 DEF LoopInv
<1>. QED
  BY <1>1, <1>2, <1>3, <1>4, <1>5, <1>6, <1>7 DEF ConnNext

LEMMA PanicStep ==
  ASSUME ConnTypeOK, ClosingInv, PanicInv, [ConnNext]_connVars
  PROVE  PanicInv'
<1>1. \/ closing'.by = closing.by /\ closed' = closed
      \/ ~closed /\ closed'
  BY DEF ConnNext, CallStep, CallRegister, CallWrite, CallWriteFails, CallReceive,
     CallSeesClose, CallGivesUp, CallReturn, OwnerCloseStart, CloseStart, CloseStep, CloseConn,
     CloseCalls, CloseNotify, LoopStep, LoopRead, LoopReadFails, LoopLook, LoopRoute, LoopNotify,
     Consume, Panic, ServerStep, ServerAnswer, ServerAnswerLost, ServerNotify, ServerDisconnect,
     ConnTypeOK
<1>2. ~closed' => closing'.by = "nobody"
  BY <1>1 DEF PanicInv
<1>3. closing'.by # "owner" => LoopInv'
  <2>1. closing'.by # "owner" => closing.by # "owner"
    BY <1>1 DEF PanicInv
  <2>. QED
    BY <2>1, LoopInvStep DEF PanicInv
<1>. QED
  BY <1>2, <1>3 DEF PanicInv

\* Only a Close by the owner can make the read loop send on a closed channel: a
\* client that is left to its read loop, as the TUI's is once it is connected,
\* never does (client.go:103 to 144).
THEOREM LoopClosesSafely == ConnSpec => []PanicOnlyByOwner
<1>1. ConnInit => PanicInv
  BY DEF ConnInit, PanicInv, LoopInv, Reading, NotClosing
<1>2. ConnTypeOK /\ ClosingInv /\ PanicInv /\ [ConnNext]_connVars => PanicInv'
  BY PanicStep
<1>3. PanicInv => PanicOnlyByOwner
  BY DEF PanicInv, LoopInv, PanicOnlyByOwner
<1>. QED
  BY <1>1, <1>2, <1>3, ConnTypeCorrect, ClosingInit, ClosingStep, PTL DEF ConnSpec

-----------------------------------------------------------------------------
(***************************************************************************)
(* The steps of a connection are steps of Rpc.  What has to be known is    *)
(* that a message for a call is the server's answer to it, wherever it is  *)
(* on its way: on the socket, in the read loop's hand, in the channel.     *)
(***************************************************************************)
AnswersInv ==
  /\ \A k \in 1 .. Len(requests) : step[requests[k]] # "idle"
  /\ \A k \in 1 .. Len(frames) : frames[k] # Note => frames[k].id \in answered
  /\ loop.pc \in {"look", "route"} => loop.msg.id \in answered
  /\ \A i \in Calls : box[i].full => i \in answered
  /\ \A i \in Calls : step[i] \in {"leaving", "returned"} =>
       \/ result[i] = "error"
       \/ result[i] = "reply" /\ i \in answered

LEMMA AnswersInit == ConnInit => AnswersInv
BY DEF ConnInit, AnswersInv, Reading, EmptyBox

LEMMA AnswersStep ==
  ASSUME ConnTypeOK, AnswersInv, [ConnNext]_connVars
  PROVE  AnswersInv'
<1>0. /\ requests \in Seq(Calls) /\ frames \in Seq(Frames)
      /\ step \in [Calls -> {"idle", "write", "wait", "leaving", "returned"}]
      /\ result \in [Calls -> {"none", "reply", "error"}]
      /\ box \in BoxType
      /\ loop \in LoopType
  BY DEF ConnTypeOK, BoxType, LoopType
<1>1. ASSUME NEW i \in Calls, CallStep(i)
      PROVE  AnswersInv'
  <2>1. UNCHANGED <<loop, frames, answered>>
    BY <1>1 DEF CallStep, CallRegister, CallWrite, CallWriteFails, CallReceive, CallSeesClose,
       CallGivesUp, CallReturn
  <2>2. \A k \in 1 .. Len(requests') : requests'[k] \in Calls /\ step'[requests'[k]] # "idle"
    <3>1. PICK pc \in {"write", "wait", "leaving", "returned"} : step' = [step EXCEPT ![i] = pc]
      BY <1>1 DEF CallStep, CallRegister, CallWrite, CallWriteFails, CallReceive,
         CallSeesClose, CallGivesUp, CallReturn, Leave
    <3>2. step'[i] # "idle" /\ \A j \in Calls : step[j] # "idle" => step'[j] # "idle"
      BY <1>0, <3>1
    <3>3. CASE requests' = requests
      BY <1>0, <3>2, <3>3 DEF AnswersInv
    <3>4. CASE requests' = Append(requests, i)
      <4>1. ASSUME NEW k \in 1 .. Len(requests')
            PROVE  requests'[k] = i \/ (k \in 1 .. Len(requests) /\ requests'[k] = requests[k])
        BY <1>0, <3>4
      <4>. QED
        BY <1>0, <3>2, <4>1 DEF AnswersInv
    <3>5. requests' = requests \/ requests' = Append(requests, i)
      BY <1>1 DEF CallStep, CallRegister, CallWrite, CallWriteFails, CallReceive,
         CallSeesClose, CallGivesUp, CallReturn
    <3>. QED
      BY <3>3, <3>4, <3>5
  <2>3. \A j \in Calls : box'[j].full => j \in answered
    <3>1. box' = box \/ box' = [box EXCEPT ![i].full = FALSE]
      BY <1>1 DEF CallStep, CallRegister, CallWrite, CallWriteFails, CallReceive,
         CallSeesClose, CallGivesUp, CallReturn
    <3>. QED
      BY <1>0, <3>1 DEF AnswersInv, BoxType
  <2>4. ASSUME NEW j \in Calls, step'[j] \in {"leaving", "returned"}
        PROVE  result'[j] = "error" \/ (result'[j] = "reply" /\ j \in answered)
    <3>1. CASE CallRegister(i) \/ CallWrite(i)
      BY <1>0, <2>4, <3>1 DEF CallRegister, CallWrite, AnswersInv
    <3>2. CASE CallWriteFails(i) \/ CallSeesClose(i) \/ CallGivesUp(i)
      BY <1>0, <2>4, <3>2 DEF CallWriteFails, CallSeesClose, CallGivesUp, Leave, AnswersInv
    <3>3. CASE CallReceive(i)
      BY <1>0, <2>4, <3>3 DEF CallReceive, Leave, AnswersInv
    <3>4. CASE CallReturn(i)
      BY <1>0, <2>4, <3>4 DEF CallReturn, AnswersInv
    <3>. QED
      BY <1>1, <3>1, <3>2, <3>3, <3>4 DEF CallStep
  <2>. QED
    BY <2>1, <2>2, <2>3, <2>4 DEF AnswersInv
<1>2. ASSUME OwnerCloseStart \/ CloseStep
      PROVE  AnswersInv'
  <2>1. UNCHANGED <<step, result, requests, frames, answered>>
    BY <1>2 DEF OwnerCloseStart, CloseStep, CloseConn, CloseCalls, CloseNotify
  <2>2. \A i \in Calls : box'[i].full = box[i].full
    <3>1. \/ box' = box
          \/ box' = [i \in Calls |-> IF i \in pending THEN [box[i] EXCEPT !.closed = TRUE]
                                                      ELSE box[i]]
      BY <1>2 DEF OwnerCloseStart, CloseStep, CloseConn, CloseCalls, CloseNotify
    <3>. QED
      BY <1>0, <3>1 DEF BoxType
  <2>3. loop' = loop \/ loop' = [loop EXCEPT !.pc = "done"]
    BY <1>2 DEF OwnerCloseStart, CloseStep, CloseConn, CloseCalls, CloseNotify
  <2>. QED
    BY <1>0, <2>1, <2>2, <2>3 DEF AnswersInv, LoopType
<1>3. CASE LoopRead
  <2>1. frames # <<>> /\ frames' = Tail(frames)
        /\ loop' = [pc |-> IF Head(frames) = Note THEN "notify" ELSE "look", msg |-> Head(frames)]
        /\ UNCHANGED <<step, result, box, requests, answered>>
    BY <1>3 DEF LoopRead
  <2>2. /\ Len(frames) \in Nat \ {0} /\ Head(frames) = frames[1]
        /\ Len(frames') = Len(frames) - 1
        /\ \A k \in 1 .. Len(frames') : frames'[k] = frames[k + 1]
    BY <1>0, <2>1
  <2>3. loop'.pc \in {"look", "route"} => loop'.msg.id \in answered
    <3>1. Head(frames) # Note => Head(frames).id \in answered
      BY <2>2 DEF AnswersInv
    <3>2. loop'.msg = Head(frames) /\ (Head(frames) = Note => loop'.pc = "notify")
      BY <2>1
    <3>. HIDE DEF Note
    <3>. QED
      BY <3>1, <3>2
  <2>4. \A k \in 1 .. Len(frames') : frames'[k] # Note => frames'[k].id \in answered
    <3>1. ASSUME NEW k \in 1 .. Len(frames')
          PROVE  k + 1 \in 1 .. Len(frames)
      BY <2>2
    <3>. QED
      BY <2>2, <3>1 DEF AnswersInv
  <2>. QED
    BY <2>1, <2>3, <2>4 DEF AnswersInv
<1>4. CASE LoopReadFails
  <2>1. loop' \in {[loop EXCEPT !.pc = "close"], [loop EXCEPT !.pc = "done"]}
        /\ UNCHANGED <<step, result, box, requests, frames, answered>>
    BY <1>4 DEF LoopReadFails
  <2>. QED
    BY <1>0, <2>1 DEF AnswersInv, LoopType
<1>5. CASE LoopLook
  <2>1. loop' \in {[loop EXCEPT !.pc = "route"], Reading} /\ loop.pc = "look"
        /\ UNCHANGED <<step, result, box, requests, frames, answered>>
    BY <1>5 DEF LoopLook
  <2>. QED
    BY <1>0, <2>1 DEF AnswersInv, LoopType, Reading
<1>6. CASE LoopRoute
  <2>1. loop' = Reading /\ loop.msg.id \in answered
        /\ box' = [box EXCEPT ![loop.msg.id].full = TRUE]
        /\ UNCHANGED <<step, result, requests, frames, answered>>
    BY <1>6 DEF LoopRoute, AnswersInv
  <2>2. \A i \in Calls : box'[i].full => i \in answered
    BY <1>0, <2>1 DEF AnswersInv, BoxType
  <2>. QED
    BY <2>1, <2>2 DEF AnswersInv, Reading
<1>7. CASE LoopNotify
  BY <1>7 DEF LoopNotify, AnswersInv, Reading
<1>8. ASSUME Consume \/ Panic \/ UNCHANGED connVars
      PROVE  AnswersInv'
  BY <1>8 DEF Consume, Panic, AnswersInv
<1>9. CASE ServerStep
  <2>1. UNCHANGED <<stepVars, loop>>
    BY <1>9 DEF ServerStep, ServerAnswer, ServerAnswerLost, ServerNotify, ServerDisconnect
  <2>2. \/ requests' = requests
        \/ requests' = <<>>
        \/ requests # <<>> /\ requests' = Tail(requests)
    BY <1>9 DEF ServerStep, ServerAnswer, ServerAnswerLost, ServerNotify, ServerDisconnect
  <2>3. \A k \in 1 .. Len(requests') : step[requests'[k]] # "idle"
    <3>1. CASE requests # <<>> /\ requests' = Tail(requests)
      <4>1. ASSUME NEW k \in 1 .. Len(requests')
            PROVE  k + 1 \in 1 .. Len(requests) /\ requests'[k] = requests[k + 1]
        BY <1>0, <3>1
      <4>. QED
        BY <4>1 DEF AnswersInv
    <3>. QED
      BY <2>2, <3>1 DEF AnswersInv
  <2>4. answered \subseteq answered'
    BY <1>9 DEF ServerStep, ServerAnswer, ServerAnswerLost, ServerNotify, ServerDisconnect
  <2>5. \/ frames' = frames
        \/ frames' = Append(frames, Note)
        \/ \E i \in Calls : frames' = Append(frames, Response(i)) /\ i \in answered'
    <3>1. requests # <<>> => Head(requests) \in Calls
      BY <1>0
    <3>. QED
      BY <1>9, <3>1 DEF ServerStep, ServerAnswer, ServerAnswerLost, ServerNotify, ServerDisconnect
  <2>6. \A k \in 1 .. Len(frames') : frames'[k] # Note => frames'[k].id \in answered'
    <3>1. ASSUME NEW f \in Frames, frames' = Append(frames, f), NEW k \in 1 .. Len(frames')
          PROVE  frames'[k] = f \/ (k \in 1 .. Len(frames) /\ frames'[k] = frames[k])
      BY <1>0, <3>1
    <3>2. CASE frames' = frames
      BY <2>4, <3>2 DEF AnswersInv
    <3>3. CASE frames' = Append(frames, Note)
      BY <2>4, <3>1, <3>3, FramesType DEF AnswersInv
    <3>4. ASSUME NEW i \in Calls, frames' = Append(frames, Response(i)), i \in answered'
          PROVE  \A k \in 1 .. Len(frames') : frames'[k] # Note => frames'[k].id \in answered'
      <4>1. Response(i) \in Frames /\ Response(i).id = i
        BY FramesType DEF Response
      <4>. QED
        BY <2>4, <3>1, <3>4, <4>1 DEF AnswersInv
    <3>. QED
      BY <2>5, <3>2, <3>3, <3>4
  <2>. QED
    BY <2>1, <2>3, <2>4, <2>6 DEF AnswersInv
<1>. QED
  BY <1>1, <1>2, <1>3, <1>4, <1>5, <1>6, <1>7, <1>8, <1>9 DEF ConnNext, LoopStep

\* A connection does what Rpc allows: a call returns at most once, with an error
\* or with the answer the server gave to that very call.
THEOREM ConnectionIsRpc == ConnSpec => R!RpcInit /\ [][R!RpcNext]_(R!rpcVars)
<1>1. ConnInit => R!RpcInit
  BY DEF ConnInit, R!RpcInit, Outcome
<1>2. ConnTypeOK /\ AnswersInv /\ [ConnNext]_connVars => [R!RpcNext]_(R!rpcVars)
  <2>. SUFFICES ASSUME ConnTypeOK, AnswersInv, [ConnNext]_connVars
                PROVE  [R!RpcNext]_(R!rpcVars)
    OBVIOUS
  <2>. DEFINE outcome == [i \in Calls |-> Outcome(i)]
              up == connOpen /\ serverOpen
              crashed == panicked
  <2>1. ASSUME NEW i \in Calls, CallStep(i), Alive, UNCHANGED panicked
        PROVE  [R!RpcNext]_(R!rpcVars)
    <3>0. ~crashed /\ crashed' = crashed
      BY <2>1 DEF Alive
    <3>1. answered' = answered /\ up' = up
      BY <2>1 DEF CallStep, CallRegister, CallWrite, CallWriteFails, CallReceive,
         CallSeesClose, CallGivesUp, CallReturn
    <3>2. CASE CallRegister(i)
      <4>1. Outcome(i) = "idle" /\ outcome' = [outcome EXCEPT ![i] = "open"]
        BY <3>2 DEF CallRegister, Outcome, ConnTypeOK
      <4>2. R!Request(i)
        BY <3>0, <3>1, <4>1 DEF R!Request
      <4>. QED
        BY <4>2 DEF R!RpcNext
    <3>3. CASE CallWrite(i) \/ CallWriteFails(i) \/ CallReceive(i) \/ CallSeesClose(i)
                 \/ CallGivesUp(i)
      <4>1. ASSUME NEW j \in Calls
            PROVE  Outcome(j)' = Outcome(j)
        <5>1. CASE j = i
          BY <3>3, <5>1 DEF CallWrite, CallWriteFails, CallReceive, CallSeesClose, CallGivesUp,
             Leave, Outcome, ConnTypeOK
        <5>2. CASE j # i
          <6>1. step'[j] = step[j] /\ result'[j] = result[j]
            BY <3>3, <5>2 DEF CallWrite, CallWriteFails, CallReceive, CallSeesClose,
               CallGivesUp, Leave, ConnTypeOK
          <6>. QED
            BY <6>1 DEF Outcome
        <5>. QED
          BY <5>1, <5>2
      <4>. QED
        BY <3>0, <3>1, <4>1 DEF R!rpcVars
    <3>4. CASE CallReturn(i)
      <4>1. outcome[i] = "open" /\ outcome' = [outcome EXCEPT ![i] = result[i]]
        BY <3>4 DEF CallReturn, Outcome, ConnTypeOK
      <4>2. result[i] = "error" \/ (result[i] = "reply" /\ i \in answered)
        BY <3>4 DEF CallReturn, AnswersInv
      <4>3. R!Fail(i) \/ R!Succeed(i)
        BY <3>0, <3>1, <4>1, <4>2 DEF R!Fail, R!Succeed
      <4>. QED
        BY <4>3 DEF R!RpcNext
    <3>. QED
      BY <2>1, <3>2, <3>3, <3>4 DEF CallStep
  <2>2. ASSUME UNCHANGED <<step, result, answered, panicked>>, up' = up \/ (up /\ ~up')
        PROVE  [R!RpcNext]_(R!rpcVars)
    <3>1. outcome' = outcome
      BY <2>2 DEF Outcome
    <3>. QED
      BY <2>2, <3>1 DEF R!RpcNext, R!GoDown, R!rpcVars
  <2>3. ASSUME OwnerCloseStart \/ CloseStep \/ LoopStep \/ Consume \/ UNCHANGED connVars,
               UNCHANGED panicked
        PROVE  [R!RpcNext]_(R!rpcVars)
    <3>1. UNCHANGED <<step, result, answered, panicked>>
      BY <2>3 DEF OwnerCloseStart, CloseStep, CloseConn, CloseCalls, CloseNotify, LoopStep,
         LoopRead, LoopReadFails, LoopLook, LoopRoute, LoopNotify, Consume
    <3>2. connOpen' \in {connOpen, FALSE} /\ serverOpen' = serverOpen
      BY <2>3 DEF OwnerCloseStart, CloseStart, CloseStep, CloseConn, CloseCalls, CloseNotify,
         LoopStep, LoopRead, LoopReadFails, LoopLook, LoopRoute, LoopNotify, Consume
    <3>3. up' = up \/ (up /\ ~up')
      BY <3>2 DEF ConnTypeOK
    <3>. QED
      BY <2>2, <3>1, <3>3
  <2>4. ASSUME ServerAnswer, UNCHANGED panicked
        PROVE  [R!RpcNext]_(R!rpcVars)
    <3>. DEFINE i == Head(requests)
    <3>1. i \in Calls /\ step[i] # "idle"
      <4>1. requests \in Seq(Calls) /\ requests # <<>>
        BY <2>4 DEF ServerAnswer, ConnTypeOK
      <4>2. i = requests[1] /\ 1 \in 1 .. Len(requests) /\ i \in Calls
        BY <4>1
      <4>. QED
        BY <4>2 DEF AnswersInv
    <3>2. answered' = answered \cup {i} /\ UNCHANGED <<step, result, connOpen, serverOpen>>
      BY <2>4 DEF ServerAnswer
    <3>3. outcome' = outcome /\ up' = up /\ crashed' = crashed
      BY <2>4, <3>2 DEF Outcome
    <3>4. outcome[i] # "idle"
      BY <3>1 DEF Outcome, ConnTypeOK, AnswersInv
    <3>5. CASE i \in answered
      BY <3>2, <3>3, <3>5 DEF R!rpcVars
    <3>6. CASE i \notin answered
      <4>1. R!Answer(i)
        BY <3>1, <3>2, <3>3, <3>4, <3>6 DEF R!Answer
      <4>. QED
        BY <3>1, <4>1 DEF R!RpcNext
    <3>. QED
      BY <3>5, <3>6
  <2>5. ASSUME ServerAnswerLost \/ ServerNotify \/ ServerDisconnect, UNCHANGED panicked
        PROVE  [R!RpcNext]_(R!rpcVars)
    <3>1. UNCHANGED <<step, result, answered, panicked, connOpen>> /\ serverOpen' \in {serverOpen, FALSE}
      BY <2>5 DEF ServerAnswerLost, ServerNotify, ServerDisconnect
    <3>2. up' = up \/ (up /\ ~up')
      BY <3>1 DEF ConnTypeOK
    <3>. QED
      BY <2>2, <3>1, <3>2
  <2>6. CASE Alive /\ Panic
    <3>1. outcome' = outcome /\ up' = up /\ answered' = answered
      BY <2>6 DEF Panic, Outcome
    <3>2. R!Crash
      BY <2>6, <3>1 DEF R!Crash, Panic, Alive
    <3>. QED
      BY <3>2 DEF R!RpcNext
  <2>. QED
    BY <2>1, <2>3, <2>4, <2>5, <2>6 DEF ConnNext, ServerStep
<1>. QED
  BY <1>1, <1>2, ConnTypeCorrect, AnswersInit, AnswersStep, PTL DEF ConnSpec
=============================================================================
