----------------------------- MODULE ConnClient -----------------------------
(***************************************************************************)
(* One connection of a client to the daemon: internal/ipc/client.go, type  *)
(* ConnClient, against the server's loop for that connection               *)
(* (internal/ipc/server.go, serveClient).                                  *)
(*                                                                         *)
(* Processes: the goroutines that are in Call, the read loop, the owner of *)
(* the client, who may call Close at any time, and the server.  c.mu is    *)
(* held for one map operation at a time and is not modelled; what happens  *)
(* between two of them is what can go wrong.  Each call is named by its    *)
(* ID, which nextID makes unique; it holds a channel with room for one     *)
(* message.  Sending on a closed channel ends the client's process.        *)
(***************************************************************************)
EXTENDS Integers, Sequences

CONSTANTS
  Calls,      \* the calls made on the connection
  NotifyCap,  \* capacity of c.notify (64)
  MaxNotes    \* bound: notifications the server sends

ASSUME ConnClientAssumption ==
  /\ NotifyCap \in Nat \ {0}
  /\ MaxNotes \in Nat

VARIABLES
  step,        \* how far each call is
  result,      \* what each call is to return
  pending,     \* the keys of c.pending
  box,         \* each call's channel: whether it holds a message, is closed
  loop,        \* the read loop, and the message it has in hand
  notify,      \* the number of messages in c.notify
  notifyOpen,  \* c.notify is not closed
  closed,      \* c.closed
  closing,     \* the Close in progress: who runs it, and where it is
  connOpen,    \* this end of the socket is open
  serverOpen,  \* the other end is
  requests,    \* on the socket, to the server
  frames,      \* on the socket and in the reader's buffer, to the client
  notes,       \* counter of the bound
  answered,    \* history: the calls the server has answered
  panicked     \* a goroutine has sent on a closed channel

stepVars   == <<step, result, pending, box>>
closeVars  == <<notifyOpen, closed, closing, connOpen>>
serverVars == <<serverOpen, requests, frames, notes, answered>>
connVars   == <<stepVars, loop, notify, closeVars, serverVars, panicked>>

-----------------------------------------------------------------------------
Response(i) == [kind |-> "response", id |-> i]
Note        == [kind |-> "note"]
Frames      == [kind : {"response"}, id : Calls] \cup {Note}

Reading    == [pc |-> "read", msg |-> Note]
EmptyBox   == [full |-> FALSE, closed |-> FALSE]
NotClosing == [by |-> "nobody", pc |-> "none"]

Alive == ~panicked

\* DialClient.
ConnInit ==
  /\ step = [i \in Calls |-> "idle"]
  /\ result = [i \in Calls |-> "none"]
  /\ pending = {}
  /\ box = [i \in Calls |-> EmptyBox]
  /\ loop = Reading
  /\ notify = 0
  /\ notifyOpen = TRUE
  /\ closed = FALSE
  /\ closing = NotClosing
  /\ connOpen = TRUE
  /\ serverOpen = TRUE
  /\ requests = <<>>
  /\ frames = <<>>
  /\ notes = 0
  /\ answered = {}
  /\ panicked = FALSE

-----------------------------------------------------------------------------
(* Call.                                                                   *)

Leave(i, res) ==
  /\ step' = [step EXCEPT ![i] = "leaving"]
  /\ result' = [result EXCEPT ![i] = res]

CallRegister(i) ==
  /\ step[i] = "idle"
  /\ step' = [step EXCEPT ![i] = "write"]
  /\ pending' = pending \cup {i}
  /\ UNCHANGED <<result, box, loop, notify, closeVars, serverVars>>

CallWrite(i) ==
  /\ step[i] = "write"
  /\ connOpen
  /\ step' = [step EXCEPT ![i] = "wait"]
  /\ requests' = IF serverOpen THEN Append(requests, i) ELSE requests
  /\ UNCHANGED <<result, pending, box, loop, notify, closeVars, serverOpen, frames, notes,
                 answered>>

\* The socket is closed at one end, or the frame is too large.
CallWriteFails(i) ==
  /\ step[i] = "write"
  /\ Leave(i, "error")
  /\ UNCHANGED <<pending, box, loop, notify, closeVars, serverVars>>

CallReceive(i) ==
  /\ step[i] = "wait"
  /\ box[i].full
  /\ Leave(i, "reply")
  /\ box' = [box EXCEPT ![i].full = FALSE]
  /\ UNCHANGED <<pending, loop, notify, closeVars, serverVars>>

CallSeesClose(i) ==
  /\ step[i] = "wait"
  /\ box[i].closed
  /\ ~box[i].full
  /\ Leave(i, "error")
  /\ UNCHANGED <<pending, box, loop, notify, closeVars, serverVars>>

\* The caller's context is done.
CallGivesUp(i) ==
  /\ step[i] = "wait"
  /\ Leave(i, "error")
  /\ UNCHANGED <<pending, box, loop, notify, closeVars, serverVars>>

\* Mutant: the caller closes its own channel when it leaves.
CallReturnAndClose(i) ==
  /\ step[i] = "leaving"
  /\ step' = [step EXCEPT ![i] = "returned"]
  /\ pending' = pending \ {i}
  /\ box' = [box EXCEPT ![i].closed = TRUE]
  /\ UNCHANGED <<result, loop, notify, closeVars, serverVars>>

CallReturn(i) ==
  /\ step[i] = "leaving"
  /\ step' = [step EXCEPT ![i] = "returned"]
  /\ pending' = pending \ {i}
  /\ UNCHANGED <<result, box, loop, notify, closeVars, serverVars>>

-----------------------------------------------------------------------------
(* Close, by the owner of the client or by the read loop.                  *)

\* Mutant: the socket is never closed.
CloseStartNoConn(who) ==
  /\ ~closed
  /\ closed' = TRUE
  /\ closing' = [by |-> who, pc |-> "calls"]
  /\ UNCHANGED <<notifyOpen, connOpen>>

\* Only the first to set the flag goes on.
CloseStart(who) ==
  /\ ~closed
  /\ closed' = TRUE
  /\ closing' = [by |-> who, pc |-> "conn"]
  /\ UNCHANGED <<notifyOpen, connOpen>>

OwnerCloseStart ==
  /\ CloseStart("owner")
  /\ UNCHANGED <<stepVars, loop, notify, serverVars>>

CloseConn ==
  /\ closing.pc = "conn"
  /\ closing' = [closing EXCEPT !.pc = "calls"]
  /\ connOpen' = FALSE
  /\ UNCHANGED <<stepVars, loop, notify, notifyOpen, closed, serverVars>>

\* Mutant: the map is replaced and the channels are forgotten.
CloseCallsForgotten ==
  /\ closing.pc = "calls"
  /\ closing' = [closing EXCEPT !.pc = "notify"]
  /\ pending' = {}
  /\ UNCHANGED <<step, result, box, loop, notify, notifyOpen, closed, connOpen, serverVars>>

CloseCalls ==
  /\ closing.pc = "calls"
  /\ closing' = [closing EXCEPT !.pc = "notify"]
  /\ box' = [i \in Calls |-> IF i \in pending THEN [box[i] EXCEPT !.closed = TRUE] ELSE box[i]]
  /\ pending' = {}
  /\ UNCHANGED <<step, result, loop, notify, notifyOpen, closed, connOpen, serverVars>>

CloseNotify ==
  /\ closing.pc = "notify"
  /\ closing' = [closing EXCEPT !.pc = "none"]
  /\ notifyOpen' = FALSE
  /\ loop' = IF closing.by = "loop" THEN [loop EXCEPT !.pc = "done"] ELSE loop
  /\ UNCHANGED <<stepVars, notify, closed, connOpen, serverVars>>

-----------------------------------------------------------------------------
(* The read loop.                                                          *)

\* Frames that are already in the reader's buffer can be read after the socket
\* has been closed.
LoopRead ==
  /\ loop.pc = "read"
  /\ frames # <<>>
  /\ frames' = Tail(frames)
  /\ loop' = [pc |-> IF Head(frames) = Note THEN "notify" ELSE "look", msg |-> Head(frames)]
  /\ UNCHANGED <<stepVars, notify, closeVars, serverOpen, requests, notes, answered>>

\* An error: the socket is closed, here or at the other end.
LoopReadFails ==
  /\ loop.pc = "read"
  /\ ~connOpen \/ (~serverOpen /\ frames = <<>>)
  /\ \/ /\ CloseStart("loop")
        /\ loop' = [loop EXCEPT !.pc = "close"]
     \/ /\ closed
        /\ loop' = [loop EXCEPT !.pc = "done"]
        /\ UNCHANGED closeVars
  /\ UNCHANGED <<stepVars, notify, serverVars>>

\* routeResponse looks the call up ...
LoopLook ==
  /\ loop.pc = "look"
  /\ loop' = IF loop.msg.id \in pending THEN [loop EXCEPT !.pc = "route"] ELSE Reading
  /\ UNCHANGED <<stepVars, notify, closeVars, serverVars>>

\* ... and sends, or gives up after 5 s if the channel stays full.
LoopRoute ==
  /\ loop.pc = "route"
  /\ ~box[loop.msg.id].closed
  /\ box' = [box EXCEPT ![loop.msg.id].full = TRUE]
  /\ loop' = Reading
  /\ UNCHANGED <<step, result, pending, notify, closeVars, serverVars>>

\* Mutant: no default branch, no capacity.
LoopNotifyUnbounded ==
  /\ loop.pc = "notify"
  /\ notifyOpen
  /\ notify' = notify + 1
  /\ loop' = Reading
  /\ UNCHANGED <<stepVars, closeVars, serverVars>>

LoopNotify ==
  /\ loop.pc = "notify"
  /\ notifyOpen
  /\ notify' = IF notify < NotifyCap THEN notify + 1 ELSE notify
  /\ loop' = Reading
  /\ UNCHANGED <<stepVars, closeVars, serverVars>>

Panic ==
  /\ \/ loop.pc = "route" /\ box[loop.msg.id].closed
     \/ loop.pc = "notify" /\ ~notifyOpen
  /\ panicked' = TRUE
  /\ UNCHANGED <<stepVars, loop, notify, closeVars, serverVars>>

\* The consumer of Notifications().
Consume ==
  /\ notify > 0
  /\ notify' = notify - 1
  /\ UNCHANGED <<stepVars, loop, closeVars, serverVars>>

-----------------------------------------------------------------------------
(* The server: the requests of a connection are handled in their order.    *)

ServerAnswer ==
  /\ serverOpen
  /\ requests # <<>>
  /\ requests' = Tail(requests)
  /\ frames' = Append(frames, Response(Head(requests)))
  /\ answered' = answered \cup {Head(requests)}
  /\ UNCHANGED <<stepVars, loop, notify, closeVars, serverOpen, notes>>

\* The answer cannot be encoded or is too large: the error is ignored.
ServerAnswerLost ==
  /\ serverOpen
  /\ requests # <<>>
  /\ requests' = Tail(requests)
  /\ UNCHANGED <<stepVars, loop, notify, closeVars, serverOpen, frames, notes, answered>>

ServerNotify ==
  /\ serverOpen
  /\ notes < MaxNotes
  /\ notes' = notes + 1
  /\ frames' = Append(frames, Note)
  /\ UNCHANGED <<stepVars, loop, notify, closeVars, serverOpen, requests, answered>>

\* The daemon stops or crashes, or sees that the client has gone.
ServerDisconnect ==
  /\ serverOpen
  /\ serverOpen' = FALSE
  /\ requests' = <<>>
  /\ UNCHANGED <<stepVars, loop, notify, closeVars, frames, notes, answered>>

-----------------------------------------------------------------------------
CallStep(i) ==
  \/ CallRegister(i) \/ CallWrite(i) \/ CallWriteFails(i)
  \/ CallReceive(i) \/ CallSeesClose(i) \/ CallGivesUp(i) \/ CallReturn(i)
CloseStep  == CloseConn \/ CloseCalls \/ CloseNotify
LoopStep   == LoopRead \/ LoopReadFails \/ LoopLook \/ LoopRoute \/ LoopNotify
ServerStep == ServerAnswer \/ ServerAnswerLost \/ ServerNotify \/ ServerDisconnect

ConnNext ==
  \/ /\ Alive
     /\ \/ \E i \in Calls : CallStep(i)
        \/ OwnerCloseStart
        \/ CloseStep
        \/ LoopStep
        \/ Consume
        \/ ServerStep
     /\ UNCHANGED panicked
  \/ Alive /\ Panic

ConnSpec == ConnInit /\ [][ConnNext]_connVars

(***************************************************************************)
(* Fairness: a goroutine that can go on does.  A caller's context need not *)
(* expire (most calls have none that does), the owner need not close, and  *)
(* the server owes neither an answer nor a disconnection.                  *)
(***************************************************************************)
CallGoes(i) ==
  /\ Alive
  /\ CallWrite(i) \/ CallWriteFails(i) \/ CallReceive(i) \/ CallSeesClose(i) \/ CallReturn(i)
  /\ UNCHANGED panicked
CloseGoes == Alive /\ CloseStep /\ UNCHANGED panicked
LoopGoes  == Alive /\ LoopStep /\ UNCHANGED panicked

ConnFairness ==
  /\ \A i \in Calls : WF_connVars(CallGoes(i))
  /\ WF_connVars(CloseGoes)
  /\ WF_connVars(LoopGoes)

FairConnSpec == ConnSpec /\ ConnFairness

-----------------------------------------------------------------------------
(* Properties.                                                             *)

\* Every variable has its type; c.notify never holds more than its capacity.
ConnTypeOK ==
  /\ step \in [Calls -> {"idle", "write", "wait", "leaving", "returned"}]
  /\ result \in [Calls -> {"none", "reply", "error"}]
  /\ pending \subseteq Calls
  /\ box \in [Calls -> [full : BOOLEAN, closed : BOOLEAN]]
  /\ loop \in [pc : {"read", "look", "route", "notify", "close", "done"}, msg : Frames]
  /\ loop.pc \in {"look", "route"} => loop.msg # Note
  /\ notify \in 0 .. NotifyCap
  /\ {notifyOpen, closed, connOpen, serverOpen, panicked} \subseteq BOOLEAN
  /\ closing \in [by : {"nobody", "owner", "loop"}, pc : {"none", "conn", "calls", "notify"}]
  /\ requests \in Seq(Calls)
  /\ frames \in Seq(Frames)
  /\ notes \in 0 .. MaxNotes
  /\ answered \subseteq Calls

\* Once Close has gone through the pending calls, no call waits for a message
\* that cannot come: a call that Close did not find had not registered yet, and
\* fails to write, because the socket is closed before the calls are
\* (client.go:92 to 98).
CallsClosed == closed /\ closing.pc \in {"notify", "none"}

NoStuckCall ==
  CallsClosed => \A i \in Calls : step[i] = "wait" => box[i].full \/ box[i].closed

\* No goroutine sends on a channel that Close has closed: routeResponse sends
\* after it has let go of c.mu (client.go:133 to 140), and the read loop on
\* c.notify without looking at c.closed (client.go:115 to 116).
NoPanic == ~panicked

\* The same, as far as it is true: only a Close by the owner, never the read
\* loop's own, closes a channel under a send.
PanicOnlyByOwner == panicked => closing.by = "owner"

\* A connection implements what a client may rely on: a call has returned when
\* it has left c.pending, and the connection is usable while both ends are open.
\* Liveness is owed while the client's process lives.
Outcome(i) == CASE step[i] = "idle" -> "idle"
                [] step[i] \in {"write", "wait", "leaving"} -> "open"
                [] step[i] = "returned" -> result[i]

R == INSTANCE Rpc WITH outcome <- [i \in Calls |-> Outcome(i)], answered <- answered,
                       up <- connOpen /\ serverOpen, crashed <- panicked
ImplementsRpc == R!Rpc
=============================================================================
