------------------------------ MODULE Pipeline ------------------------------
(***************************************************************************)
(* From the canonical state to what the clients show: the forwarder of the *)
(* daemon and Server.Broadcast, the connections, the notification buffers  *)
(* of ConnClient, and the connect, listen and reconnect commands of the    *)
(* TUI (internal/daemon, internal/ipc, cmd/nowplaying/tui/model.go).       *)
(*                                                                         *)
(* The canonical state is its version: StateMachine shows that a           *)
(* state.changed is sent for every renderable change and that it carries   *)
(* the state, and ConnClient shows what a call returns; both are used here *)
(* without their insides.  Every buffer on the way is bounded, two of them *)
(* (the forwarder's channel and the client's) drop what does not fit, and  *)
(* a socket blocks its writer.                                             *)
(***************************************************************************)
EXTENDS Integers, Sequences

CONSTANTS
  Clients,
  NoClient,    \* not a client
  UpCap,       \* buffer of the forwarder's subscription (128)
  SockCap,     \* frames a socket holds
  NotifyCap,   \* buffer of ConnClient.notify (64)
  MaxVersion,  \* bound: renderable changes
  MaxDisturbances  \* bound: progress ticks, broken connections, crashes of the daemon

ASSUME PipelineAssumption ==
  /\ {UpCap, SockCap, NotifyCap} \subseteq Nat \ {0}
  /\ MaxVersion \in Nat \ {0, 1}
  /\ MaxDisturbances \in Nat
  /\ NoClient \notin Clients

VARIABLES
  version,     \* the canonical state
  daemonUp,
  upstream,    \* the channel of the forwarder's subscription
  fwd,         \* the forwarder: its pc, the notification, the client it sends to next and
               \* those after it
  subscribed,  \* Client.subscribed, on the server
  request,     \* the request a client has sent and the server not yet handled
  answer,      \* the reply a connection's goroutine has still to write
  wire,        \* frames on their way to a client
  alive,       \* the server's end of the connection is open
  closed,      \* ConnClient.closed
  replied,     \* the response in the channel of the pending call
  buffer,      \* ConnClient.notify
  chain,       \* the one command of the connection that the TUI is running,
               \* or the message it has produced
  held,        \* what that message carries
  shown,       \* the state that View draws, 0 while it draws the banner instead
  disturbances,  \* counter of the bound
  unsent,      \* history: the current version did not fit the forwarder's channel
  lost,        \* history: clients whose buffer the current version did not fit
  followed     \* history: clients that have shown a notification since they connected

daemonVars == <<version, daemonUp, upstream, fwd>>
serverVars == <<subscribed, request, answer>>
linkVars   == <<wire, alive, closed, replied, buffer>>
tuiVars    == <<chain, held, shown>>
history    == <<unsent, lost, followed>>
vars == <<daemonVars, serverVars, linkVars, tuiVars, disturbances, history>>

-----------------------------------------------------------------------------
StateChanged(v) == [kind |-> "state", version |-> v]
ProgressTick    == [kind |-> "tick", version |-> 0]
Reply(v)        == [kind |-> "reply", version |-> v]
NoFrame         == [kind |-> "none", version |-> 0]

IdleForwarder == [pc |-> "idle", note |-> NoFrame, to |-> NoClient, todo |-> {}]

\* The TUI runs connectCmd first.
PipelineInit ==
  /\ version = 1
  /\ daemonUp \in BOOLEAN
  /\ upstream = <<>>
  /\ fwd = IdleForwarder
  /\ subscribed = [c \in Clients |-> FALSE]
  /\ request = [c \in Clients |-> "none"]
  /\ answer = [c \in Clients |-> NoFrame]
  /\ wire = [c \in Clients |-> <<>>]
  /\ alive = [c \in Clients |-> FALSE]
  /\ closed = [c \in Clients |-> TRUE]
  /\ replied = [c \in Clients |-> NoFrame]
  /\ buffer = [c \in Clients |-> <<>>]
  /\ chain = [c \in Clients |-> "dial"]
  /\ held = [c \in Clients |-> NoFrame]
  /\ shown = [c \in Clients |-> 0]
  /\ disturbances = 0
  /\ unsent = FALSE
  /\ lost = {}
  /\ followed = {}

-----------------------------------------------------------------------------
(* The daemon.                                                             *)

\* Mutant: without the default case of the select.
PublishAlways(note) == upstream' = Append(upstream, note)

\* The machine's fan-out to the forwarder's channel, which never waits.
Publish(note) ==
  upstream' = IF Len(upstream) < UpCap THEN Append(upstream, note) ELSE upstream

Change ==
  /\ daemonUp
  /\ version < MaxVersion
  /\ version' = version + 1
  /\ Publish(StateChanged(version + 1))
  /\ unsent' = (Len(upstream) = UpCap)
  /\ lost' = {}
  /\ UNCHANGED <<daemonUp, fwd, serverVars, linkVars, tuiVars, disturbances, followed>>

Progress ==
  /\ daemonUp
  /\ disturbances < MaxDisturbances
  /\ disturbances' = disturbances + 1
  /\ Publish(ProgressTick)
  /\ UNCHANGED <<version, daemonUp, fwd, serverVars, linkVars, tuiVars, history>>

\* Mutant: a goroutine per notification, which may overtake each other.
ForwardReceiveAny ==
  /\ fwd.pc = "idle"
  /\ \E i \in 1 .. Len(upstream) :
       /\ fwd' = [IdleForwarder EXCEPT !.pc = "copy", !.note = upstream[i]]
       /\ upstream' = SubSeq(upstream, 1, i - 1) \o SubSeq(upstream, i + 1, Len(upstream))
  /\ UNCHANGED <<version, daemonUp, serverVars, linkVars, tuiVars, disturbances, history>>

ForwardReceive ==
  /\ fwd.pc = "idle"
  /\ upstream # <<>>
  /\ fwd' = [IdleForwarder EXCEPT !.pc = "copy", !.note = Head(upstream)]
  /\ upstream' = Tail(upstream)
  /\ UNCHANGED <<version, daemonUp, serverVars, linkVars, tuiVars, disturbances, history>>

\* The loop of Broadcast when C are left, which it visits in the order of a map.
Towards(C) ==
  IF C = {} THEN {IdleForwarder}
  ELSE {[pc |-> "send", note |-> fwd.note, to |-> c, todo |-> C \ {c}] : c \in C}

\* Broadcast copies the subscribed clients under the server's lock, and writes
\* without it.
ForwardCopy ==
  /\ fwd.pc = "copy"
  /\ fwd' \in Towards({c \in Clients : alive[c] /\ subscribed[c]})
  /\ UNCHANGED <<version, daemonUp, upstream, serverVars, linkVars, tuiVars, disturbances, history>>

\* Waits while the socket of the client is full.
ForwardSend ==
  /\ fwd.pc = "send"
  /\ Len(wire[fwd.to]) < SockCap
  /\ wire' = [wire EXCEPT ![fwd.to] = Append(@, fwd.note)]
  /\ fwd' \in Towards(fwd.todo)
  /\ UNCHANGED <<version, daemonUp, upstream, serverVars, alive, closed, replied, buffer, tuiVars,
                 disturbances, history>>

-----------------------------------------------------------------------------
(* The server's goroutine of a connection.                                 *)

Dispatch(c) ==
  /\ alive[c]
  /\ request[c] # "none"
  /\ subscribed' = [subscribed EXCEPT ![c] = @ \/ request[c] = "subscribe"]
  /\ answer' = [answer EXCEPT ![c] = Reply(IF request[c] = "get" THEN version ELSE 0)]
  /\ request' = [request EXCEPT ![c] = "none"]
  /\ UNCHANGED <<daemonVars, linkVars, tuiVars, disturbances, history>>

WriteReply(c) ==
  /\ answer[c] # NoFrame
  /\ Len(wire[c]) < SockCap
  /\ wire' = [wire EXCEPT ![c] = Append(@, answer[c])]
  /\ answer' = [answer EXCEPT ![c] = NoFrame]
  /\ UNCHANGED <<daemonVars, subscribed, request, alive, closed, replied, buffer, tuiVars,
                 disturbances, history>>

\* What the server's ends of broken connections leave behind: frames that were
\* written can still be read, and a send to such a client fails at once.
Broken(C) ==
  /\ alive' = [c \in Clients |-> alive[c] /\ c \notin C]
  /\ subscribed' = [c \in Clients |-> subscribed[c] /\ c \notin C]
  /\ request' = [c \in Clients |-> IF c \in C THEN "none" ELSE request[c]]
  /\ answer' = [c \in Clients |-> IF c \in C THEN NoFrame ELSE answer[c]]
  /\ fwd' \in IF fwd.to \in C THEN Towards(fwd.todo \ C) ELSE {[fwd EXCEPT !.todo = @ \ C]}

ConnectionBreaks(c) ==
  /\ alive[c]
  /\ disturbances < MaxDisturbances
  /\ disturbances' = disturbances + 1
  /\ Broken({c})
  /\ UNCHANGED <<version, daemonUp, upstream, wire, closed, replied, buffer, tuiVars, history>>

\* The daemon dies with all it has in memory.  The bounds leave room for the
\* zero state of its successor.
DaemonDies ==
  /\ daemonUp
  /\ disturbances < MaxDisturbances
  /\ version < MaxVersion
  /\ disturbances' = disturbances + 1
  /\ daemonUp' = FALSE
  /\ upstream' = <<>>
  /\ fwd' = IdleForwarder
  /\ alive' = [c \in Clients |-> FALSE]
  /\ subscribed' = [c \in Clients |-> FALSE]
  /\ request' = [c \in Clients |-> "none"]
  /\ answer' = [c \in Clients |-> NoFrame]
  /\ UNCHANGED <<version, wire, closed, replied, buffer, tuiVars, history>>

\* A new one starts from the zero state, of which it notifies nobody.
DaemonStarts ==
  /\ ~daemonUp
  /\ daemonUp' = TRUE
  /\ version' = version + 1
  /\ unsent' = FALSE
  /\ lost' = {}
  /\ UNCHANGED <<upstream, fwd, serverVars, linkVars, tuiVars, disturbances, followed>>

-----------------------------------------------------------------------------
(* The read loop of a client's connection.                                 *)

\* Mutant: the loop waits for room in the buffer of notifications.
ReadFrameWaits(c) ==
  /\ wire[c] # <<>>
  /\ wire' = [wire EXCEPT ![c] = Tail(@)]
  /\ LET frame == Head(wire[c])
     IN  \/ /\ frame.kind = "reply"
            /\ replied' = [replied EXCEPT ![c] = frame]
            /\ UNCHANGED buffer
         \/ /\ frame.kind # "reply"
            /\ Len(buffer[c]) < NotifyCap
            /\ buffer' = [buffer EXCEPT ![c] = Append(@, frame)]
            /\ UNCHANGED replied
  /\ UNCHANGED <<daemonVars, serverVars, alive, closed, tuiVars, disturbances, history>>

ReadFrame(c) ==
  /\ wire[c] # <<>>
  /\ wire' = [wire EXCEPT ![c] = Tail(@)]
  /\ LET frame == Head(wire[c])
     IN  \/ /\ frame.kind = "reply"
            /\ replied' = [replied EXCEPT ![c] = frame]
            /\ UNCHANGED <<buffer, lost>>
         \/ /\ frame.kind # "reply"
            /\ Len(buffer[c]) < NotifyCap
            /\ buffer' = [buffer EXCEPT ![c] = Append(@, frame)]
            /\ UNCHANGED <<replied, lost>>
         \/ /\ frame.kind # "reply"
            /\ Len(buffer[c]) >= NotifyCap
            /\ lost' = IF frame = StateChanged(version) THEN lost \cup {c} ELSE lost
            /\ UNCHANGED <<replied, buffer>>
  /\ UNCHANGED <<daemonVars, serverVars, alive, closed, tuiVars, disturbances, unsent, followed>>

ReadEnds(c) ==
  /\ wire[c] = <<>>
  /\ ~alive[c]
  /\ ~closed[c]
  /\ closed' = [closed EXCEPT ![c] = TRUE]
  /\ UNCHANGED <<daemonVars, serverVars, wire, alive, replied, buffer, tuiVars, disturbances,
                 history>>

-----------------------------------------------------------------------------
(* The TUI's connectCmd, listenCmd and Update.  Update answers each of     *)
(* their messages with exactly one of them, or with the timer that leads   *)
(* back to connectCmd.                                                     *)

\* A fresh ConnClient, and the first call on it.
Dial(c) ==
  /\ chain[c] = "dial"
  /\ daemonUp
  /\ alive' = [alive EXCEPT ![c] = TRUE]
  /\ closed' = [closed EXCEPT ![c] = FALSE]
  /\ lost' = lost \ {c}
  /\ request' = [request EXCEPT ![c] = "subscribe"]
  /\ chain' = [chain EXCEPT ![c] = "subscribe"]
  /\ UNCHANGED <<daemonVars, subscribed, answer, wire, replied, buffer, held, shown, disturbances,
                 unsent, followed>>

DialFails(c) ==
  /\ chain[c] = "dial"
  /\ ~daemonUp
  /\ chain' = [chain EXCEPT ![c] = "failed"]
  /\ UNCHANGED <<daemonVars, serverVars, linkVars, held, shown, disturbances, history>>

Subscribed(c) ==
  /\ chain[c] = "subscribe"
  /\ replied[c] # NoFrame
  /\ replied' = [replied EXCEPT ![c] = NoFrame]
  /\ request' = [request EXCEPT ![c] = IF alive[c] THEN "get" ELSE "none"]
  /\ chain' = [chain EXCEPT ![c] = "get"]
  /\ UNCHANGED <<daemonVars, subscribed, answer, wire, alive, closed, buffer, held, shown,
                 disturbances, history>>

GotState(c) ==
  /\ chain[c] = "get"
  /\ replied[c] # NoFrame
  /\ replied' = [replied EXCEPT ![c] = NoFrame]
  /\ held' = [held EXCEPT ![c] = replied[c]]
  /\ chain' = [chain EXCEPT ![c] = "connected"]
  /\ UNCHANGED <<daemonVars, serverVars, wire, alive, closed, buffer, shown, disturbances, history>>

\* connectCmd gives the ConnClient up, with what it has buffered.
CallFails(c) ==
  /\ chain[c] \in {"subscribe", "get"}
  /\ closed[c]
  /\ replied[c] = NoFrame
  /\ buffer' = [buffer EXCEPT ![c] = <<>>]
  /\ chain' = [chain EXCEPT ![c] = "failed"]
  /\ UNCHANGED <<daemonVars, serverVars, wire, alive, closed, replied, held, shown, disturbances,
                 history>>

\* Mutant: what was buffered while connecting is thrown away as outdated.
UpdateConnectedFlushes(c) ==
  /\ chain[c] = "connected"
  /\ shown' = [shown EXCEPT ![c] = held[c].version]
  /\ held' = [held EXCEPT ![c] = NoFrame]
  /\ buffer' = [buffer EXCEPT ![c] = <<>>]
  /\ chain' = [chain EXCEPT ![c] = "listen"]
  /\ UNCHANGED <<daemonVars, serverVars, wire, alive, closed, replied, disturbances, history>>

UpdateConnected(c) ==
  /\ chain[c] = "connected"
  /\ shown' = [shown EXCEPT ![c] = held[c].version]
  /\ held' = [held EXCEPT ![c] = NoFrame]
  /\ chain' = [chain EXCEPT ![c] = "listen"]
  /\ UNCHANGED <<daemonVars, serverVars, linkVars, disturbances, history>>

Listen(c) ==
  /\ chain[c] = "listen"
  /\ buffer[c] # <<>>
  /\ held' = [held EXCEPT ![c] = Head(buffer[c])]
  /\ buffer' = [buffer EXCEPT ![c] = Tail(@)]
  /\ chain' = [chain EXCEPT ![c] = "notif"]
  /\ UNCHANGED <<daemonVars, serverVars, wire, alive, closed, replied, shown, disturbances,
                 history>>

ListenEnds(c) ==
  /\ chain[c] = "listen"
  /\ buffer[c] = <<>>
  /\ closed[c]
  /\ chain' = [chain EXCEPT ![c] = "failed"]
  /\ UNCHANGED <<daemonVars, serverVars, linkVars, held, shown, disturbances, history>>

UpdateNotif(c) ==
  /\ chain[c] = "notif"
  /\ IF held[c].kind = "state"
     THEN /\ shown' = [shown EXCEPT ![c] = held[c].version]
          /\ followed' = followed \cup {c}
     ELSE UNCHANGED <<shown, followed>>
  /\ held' = [held EXCEPT ![c] = NoFrame]
  /\ chain' = [chain EXCEPT ![c] = "listen"]
  /\ UNCHANGED <<daemonVars, serverVars, linkVars, disturbances, unsent, lost>>

\* Update(disconnectedMsg), the timer of two seconds and Update(reconnect).
Reconnect(c) ==
  /\ chain[c] = "failed"
  /\ chain' = [chain EXCEPT ![c] = "dial"]
  /\ shown' = [shown EXCEPT ![c] = 0]
  /\ followed' = followed \ {c}
  /\ UNCHANGED <<daemonVars, serverVars, linkVars, held, disturbances, unsent, lost>>

-----------------------------------------------------------------------------
ForwardStep   == ForwardReceive \/ ForwardCopy \/ ForwardSend
ServerStep(c) == Dispatch(c) \/ WriteReply(c)
ReadStep(c)   == ReadFrame(c) \/ ReadEnds(c)
TuiStep(c)    == \/ Dial(c) \/ DialFails(c) \/ Subscribed(c) \/ GotState(c) \/ CallFails(c)
                 \/ UpdateConnected(c) \/ Listen(c) \/ ListenEnds(c) \/ UpdateNotif(c)
                 \/ Reconnect(c)

PipelineNext ==
  \/ Change \/ Progress
  \/ ForwardStep
  \/ \E c \in Clients : ServerStep(c) \/ ReadStep(c) \/ TuiStep(c)
  \/ \E c \in Clients : ConnectionBreaks(c)
  \/ DaemonDies \/ DaemonStarts

PipelineSpec == PipelineInit /\ [][PipelineNext]_vars

(***************************************************************************)
(* Fairness: goroutines go on when they can, the timer fires.  The player, *)
(* connections that break and daemons that die or are started owe nothing. *)
(***************************************************************************)
PipelineFairness ==
  /\ WF_vars(ForwardStep)
  /\ \A c \in Clients : WF_vars(ServerStep(c)) /\ WF_vars(ReadStep(c)) /\ WF_vars(TuiStep(c))

FairPipelineSpec == PipelineSpec /\ PipelineFairness

-----------------------------------------------------------------------------
(* Properties.                                                             *)

Frames   == [kind : {"state", "tick", "reply", "none"}, version : 0 .. MaxVersion]
Versions == 0 .. MaxVersion

\* Every variable has its type; the buffers keep their capacities (daemon.go:88,
\* client.go:28), and only responses are routed to a call (client.go:110).
PipelineTypeOK ==
  /\ version \in Versions
  /\ daemonUp \in BOOLEAN
  /\ upstream \in Seq(Frames) /\ Len(upstream) <= UpCap
  /\ fwd \in [pc : {"idle", "copy", "send"}, note : Frames, to : Clients \cup {NoClient},
              todo : SUBSET Clients]
  /\ subscribed \in [Clients -> BOOLEAN]
  /\ request \in [Clients -> {"none", "subscribe", "get"}]
  /\ answer \in [Clients -> Frames]
  /\ alive \in [Clients -> BOOLEAN]
  /\ closed \in [Clients -> BOOLEAN]
  /\ replied \in [Clients -> {f \in Frames : f.kind \in {"reply", "none"}}]
  /\ wire \in [Clients -> Seq(Frames)] /\ \A c \in Clients : Len(wire[c]) <= SockCap
  /\ buffer \in [Clients -> Seq(Frames)] /\ \A c \in Clients : Len(buffer[c]) <= NotifyCap
  /\ chain \in [Clients -> {"dial", "subscribe", "get", "connected", "listen", "notif",
                            "failed"}]
  /\ held \in [Clients -> Frames]
  /\ shown \in [Clients -> Versions]
  /\ unsent \in BOOLEAN
  /\ lost \subseteq Clients
  /\ followed \subseteq Clients

Connected(c) == chain[c] \in {"listen", "notif"}

\* The client shows the canonical state, or the notification of just this state
\* was dropped on its way and no later one has repaired that.
UpToDate(c) == shown[c] = version \/ unsent \/ c \in lost

\* Nothing is on its way to the client.
Delivered(c) ==
  upstream = <<>> /\ fwd.pc = "idle" /\ wire[c] = <<>> /\ buffer[c] = <<>>

\* All connected clients show the state (design.md:302): between the subscription
\* and the first state.get (model.go:293 to 305) no change is lost, whatever the
\* order in which the reply and the notifications arrive, and a drop only
\* matters as long as no later notification follows.
ClientsAgree ==
  \A c \in Clients : chain[c] = "listen" /\ alive[c] /\ Delivered(c) => UpToDate(c)

\* Notifications keep their order from the machine through every buffer to the
\* screen: after its first one, a client never goes back to an older state.
\* (That first one may be older than the answer to state.get: it was buffered
\* while the TUI connected.)
NeverGoesBack ==
  [][\A c \in followed \cap followed' : shown'[c] >= shown[c]]_vars

\* While the daemon is up every client gets connected and catches up: no crash,
\* broken connection or full buffer stops its chain of commands (model.go:84 to
\* 104), and the forwarder is never blocked for good by a full socket (server.go:141).
CatchesUp ==
  \A c \in Clients : <>[]daemonUp => <>[](Connected(c) /\ UpToDate(c))
=============================================================================
