------------------------------- MODULE Daemon -------------------------------
(***************************************************************************)
(* The daemon around the state machine: internal/daemon/daemon.go, with    *)
(* the polling loops of its providers (internal/providers).                *)
(*                                                                         *)
(* Processes: the provider watcher (watchProviders), one goroutine per     *)
(* started provider (Run), the forwarder of the state machine's            *)
(* notifications, and one handler per connected client, because the server *)
(* runs the requests of one client in order and those of different clients *)
(* concurrently.  Each critical section of d.mu is one step, and so is     *)
(* each method of the state machine.  The real players are modelled by     *)
(* their playback status, which is what commands and polls race on; every  *)
(* other command has the control flow of play and pause.                   *)
(*                                                                         *)
(* Shutdown (cancelling the daemon's own context) is not modelled.         *)
(***************************************************************************)
EXTENDS StateMachine, FiniteSets

CONSTANTS
  Priority,        \* d.providers: the registered providers, best first
  AlwaysAvailable, \* providers whose Available cannot fail (stub)
  Stamps,          \* providers that set SampledAt themselves (spotify)
  InMemory,        \* providers whose player is in the daemon itself (stub)
  Clients,         \* connected clients
  NoProc,          \* no goroutine (a nil activeCancel), no forced provider
  Latency,         \* clock steps a call to a player outside takes at most
  ForwardBuffer,   \* what the daemon subscribes with (128)
  MaxRuns,         \* bound: provider goroutines ever started
  MaxSets,         \* bound: provider.set requests
  MaxCommands,     \* bound: commands and actions of the player's own user
  MaxFlips         \* bound: changes of availability

ASSUME DaemonAssumption ==
  /\ Priority \in Seq(Providers) \ {<<>>}
  /\ \A p \in Providers : \E i \in 1 .. Len(Priority) : Priority[i] = p
  /\ {"playing", "paused"} \subseteq Reported
  /\ AlwaysAvailable \subseteq Providers
  /\ Stamps \subseteq Providers /\ InMemory \subseteq Providers
  /\ ForwardBuffer \in Buffers /\ MaxSubs > 0
  /\ {Latency, MaxRuns, MaxSets, MaxCommands, MaxFlips} \subseteq Nat
  /\ NoProc \notin Providers \cup Nat
  /\ MaxRuns > 0

Runs     == 1 .. MaxRuns
Commands == {"play", "pause", "toggle"}

VARIABLES
  active,         \* d.active
  activeCancel,   \* whose context d.activeCancel cancels, or NoProc
  activeRunning,  \* d.activeRunning
  run,            \* the provider goroutines
  watch,          \* the watcher: its pc, its copy of d.active, its loop index
  handler,        \* the request each client has in progress
  player,         \* the real playback status of each provider's player
  avail,          \* what Available would answer
  sets, commands, flips,  \* counters of the bounds
  forced,         \* history: the provider of the last provider.set
  outdated        \* history: goroutines holding a status read before a command
                  \* that has since been carried out

daemonVars == <<active, activeCancel, activeRunning>>
procVars   == <<run, watch, handler>>
worldVars  == <<player, avail>>
bounds     == <<sets, commands, flips>>
history    == <<forced, outdated>>
vars == <<smVars, daemonVars, procVars, worldVars, bounds, history>>

-----------------------------------------------------------------------------
Idle == [pc |-> "idle", prov |-> NoProc, cmd |-> "none", at |-> 0]

NewRun(p) == [pc |-> "wait", prov |-> p, cancelled |-> FALSE, obs |-> ZeroState,
              sampled |-> 0, at |-> 0]
NoRun     == [NewRun(NoProc) EXCEPT !.pc = "unused"]

Live(r) == run[r].pc \notin {"unused", "exited"} /\ ~run[r].cancelled

\* The watcher between two ticks has no copy of d.active, nor an index.
Waiting == [pc |-> "wait", current |-> Priority[1], i |-> 1]

\* A call to a player in memory takes no time.
LatencyOf(p) == IF p \in InMemory THEN 0 ELSE Latency

\* Run has begun: there is a server that serves, a forwarder, and a watcher.
Started == watch.pc # "off"

\* Register, in priority order, before Run: the first available provider is
\* active, else (in Run) the last one.
FirstAvailable(i) ==
  /\ \A j \in 1 .. i - 1 : ~avail[Priority[j]]
  /\ avail[Priority[i]] \/ i = Len(Priority)

DaemonInit ==
  /\ Init
  /\ avail \in [Providers -> BOOLEAN]
  /\ \A p \in AlwaysAvailable : avail[p]
  /\ \E i \in 1 .. Len(Priority) : FirstAvailable(i) /\ active = Priority[i]
  /\ activeCancel = NoProc
  /\ activeRunning = FALSE
  /\ run = [r \in Runs |-> NoRun]
  /\ watch = [Waiting EXCEPT !.pc = "off"]
  /\ handler = [c \in Clients |-> Idle]
  /\ player \in [Providers -> {"playing", "paused"}]
  /\ sets = 0 /\ commands = 0 /\ flips = 0
  /\ forced = NoProc
  /\ outdated = {}

StartActiveProvider ==
  IF activeRunning
  THEN UNCHANGED <<daemonVars, run>>
  ELSE \E r \in Runs :
         /\ run[r].pc = "unused"
         /\ \A s \in 1 .. r - 1 : run[s].pc # "unused"
         /\ run' = [run EXCEPT ![r] = NewRun(active)]
         /\ activeCancel' = r
         /\ activeRunning' = TRUE
         /\ UNCHANGED active

\* Mutant: the forwarder is not subscribed.
RunDaemonUnsubscribed ==
  /\ ~Started
  /\ StartActiveProvider
  /\ watch' = Waiting
  /\ UNCHANGED <<smVars, handler, worldVars, bounds, history>>

\* Run, up to Serve: nobody else uses the state machine or the daemon yet.
RunDaemon ==
  /\ ~Started
  /\ Subscribe(ForwardBuffer)
  /\ StartActiveProvider
  /\ watch' = Waiting
  /\ UNCHANGED <<handler, worldVars, bounds, history>>

\* forwardNotifications: the next notification goes to the server's Broadcast.
Forward ==
  /\ Receive(0)
  /\ UNCHANGED <<daemonVars, procVars, worldVars, bounds, history>>

-----------------------------------------------------------------------------
(* The goroutine of a provider.                                            *)

\* On its ticker, also when its context is cancelled: select takes either of
\* two ready cases.  The status is read somewhere inside the call to the player.
\* The poll of a player that is not there fails, and is skipped.
PollRead(r) ==
  /\ run[r].pc = "wait"
  /\ avail[run[r].prov]
  /\ LET p == run[r].prov
         obs == [Provider |-> p, Status |-> player[p], Track |-> NoTrack,
                 Volume |-> 0, PositionMS |-> 0]
     IN  run' = [run EXCEPT ![r].pc = IF p \in Stamps THEN "read" ELSE "stamped",
                            ![r].obs = obs, ![r].at = now]
  /\ UNCHANGED <<smVars, daemonVars, watch, handler, worldVars, bounds, history>>

\* spotify stamps SampledAt when the call has returned.
PollStamp(r) ==
  /\ run[r].pc = "read"
  /\ run' = [run EXCEPT ![r].pc = "stamped", ![r].sampled = now]
  /\ UNCHANGED <<smVars, daemonVars, watch, handler, worldVars, bounds, history>>

\* A zero SampledAt (stub) is replaced by the time of Apply.
SampledAt(r) == IF run[r].prov \in Stamps THEN run[r].sampled ELSE now

PollApply(r) ==
  /\ run[r].pc = "stamped"
  /\ Apply(run[r].obs, SampledAt(r)) \/ Ignore(SampledAt(r))
  /\ run' = [run EXCEPT ![r] = [NewRun(@.prov) EXCEPT !.cancelled = run[r].cancelled]]
  /\ outdated' = outdated \ {r}
  /\ UNCHANGED <<daemonVars, watch, handler, worldVars, bounds, forced>>

\* Run returns, and the goroutine corrects activeRunning if it thinks the flag
\* is about itself.
RunExit(r) ==
  /\ run[r].pc = "wait"
  /\ run[r].cancelled
  /\ run' = [run EXCEPT ![r].pc = "exited"]
  /\ activeRunning' = (activeRunning /\ active # run[r].prov)
  /\ UNCHANGED <<smVars, active, activeCancel, watch, handler, worldVars, bounds, history>>

-----------------------------------------------------------------------------
(* The watcher.                                                            *)

WatchTick ==
  /\ watch.pc = "wait"
  /\ watch' = [pc |-> "check", current |-> active, i |-> 1]
  /\ UNCHANGED <<smVars, daemonVars, run, handler, worldVars, bounds, history>>

\* Mutant: the walk does not end at the current provider.
WatchCheckAll ==
  /\ watch.pc = "check"
  /\ LET p == Priority[watch.i]
     IN  \/ avail[p] /\ p # watch.current /\ watch' = [watch EXCEPT !.pc = "stop"]
         \/ (~avail[p] \/ p = watch.current) /\ watch' = [watch EXCEPT !.i = @ + 1]
  /\ UNCHANGED <<smVars, daemonVars, run, handler, worldVars, bounds, history>>

WatchCheck ==
  /\ watch.pc = "check"
  /\ LET p == Priority[watch.i]
     IN  \/ p = watch.current /\ watch' = Waiting
         \/ p # watch.current /\ avail[p] /\ watch' = [watch EXCEPT !.pc = "stop"]
         \/ p # watch.current /\ ~avail[p] /\ watch' = [watch EXCEPT !.i = @ + 1]
  /\ UNCHANGED <<smVars, daemonVars, run, handler, worldVars, bounds, history>>

\* Mutant: activeCancel is dropped without being called.
WatchStopNoCancel ==
  /\ watch.pc = "stop"
  /\ watch' = [watch EXCEPT !.pc = "select"]
  /\ IF activeCancel = NoProc
     THEN UNCHANGED daemonVars
     ELSE activeCancel' = NoProc /\ activeRunning' = FALSE /\ UNCHANGED active
  /\ UNCHANGED <<smVars, run, handler, worldVars, bounds, history>>

\* Mutant: activeRunning is left to the goroutine's own exit.
WatchStopStillRunning ==
  /\ watch.pc = "stop"
  /\ watch' = [watch EXCEPT !.pc = "select"]
  /\ IF activeCancel = NoProc
     THEN UNCHANGED <<daemonVars, run>>
     ELSE /\ run' = [run EXCEPT ![activeCancel].cancelled = TRUE]
          /\ activeCancel' = NoProc
          /\ UNCHANGED <<active, activeRunning>>
  /\ UNCHANGED <<smVars, handler, worldVars, bounds, history>>

\* stopActiveProvider
WatchStop ==
  /\ watch.pc = "stop"
  /\ watch' = [watch EXCEPT !.pc = "select"]
  /\ IF activeCancel = NoProc
     THEN UNCHANGED <<daemonVars, run>>
     ELSE /\ run' = [run EXCEPT ![activeCancel].cancelled = TRUE]
          /\ activeCancel' = NoProc
          /\ activeRunning' = FALSE
          /\ UNCHANGED active
  /\ UNCHANGED <<smVars, handler, worldVars, bounds, history>>

\* Mutant: the old provider is started again.
WatchSelectOld ==
  /\ watch.pc = "select"
  /\ watch' = [watch EXCEPT !.pc = "start"]
  /\ UNCHANGED <<smVars, daemonVars, run, handler, worldVars, bounds, history>>

WatchSelect ==
  /\ watch.pc = "select"
  /\ watch' = [watch EXCEPT !.pc = "start"]
  /\ active' = Priority[watch.i]
  /\ UNCHANGED <<smVars, activeCancel, activeRunning, run, handler, worldVars, bounds, history>>

WatchStart ==
  /\ watch.pc = "start"
  /\ watch' = Waiting
  /\ StartActiveProvider
  /\ UNCHANGED <<smVars, handler, worldVars, bounds, history>>

-----------------------------------------------------------------------------
(* Requests.                                                               *)

\* provider.set only records the choice.
ProviderSet(p) ==
  /\ Started
  /\ sets < MaxSets
  /\ sets' = sets + 1
  /\ active' = p
  /\ forced' = p
  /\ UNCHANGED <<smVars, activeCancel, activeRunning, procVars, worldVars, commands, flips,
                 outdated>>

\* transport(): pick the provider and mark the command.  (Reading d.active and
\* marking are two critical sections, of two different locks; whatever happens
\* between them commutes with one of the two.)  The bound on time leaves room
\* for the debounce window to pass.
CommandStart(c, cmd) ==
  /\ Started
  /\ handler[c].pc = "idle"
  /\ commands < MaxCommands
  /\ now + Debounce <= MaxTime
  /\ commands' = commands + 1
  /\ MarkCommandIssued
  /\ handler' = [handler EXCEPT ![c] =
       [pc |-> IF cmd = "toggle" THEN "decide" ELSE "call", prov |-> active, cmd |-> cmd,
        at |-> now]]
  /\ UNCHANGED <<daemonVars, run, watch, worldVars, sets, flips, history>>

\* toggle decides on the canonical state, not on the player's.
CommandDecide(c) ==
  /\ handler[c].pc = "decide"
  /\ Unlocked
  /\ handler' = [handler EXCEPT ![c].pc = "call",
                                ![c].cmd = IF state.Status = "playing" THEN "pause" ELSE "play"]
  /\ UNCHANGED <<smVars, daemonVars, run, watch, worldVars, bounds, history>>

\* The player carries the command out, some time after it was marked.
CommandCall(c) ==
  /\ handler[c].pc = "call"
  /\ avail[handler[c].prov]
  /\ LET p == handler[c].prov
         status == IF handler[c].cmd = "play" THEN "playing" ELSE "paused"
     IN  /\ player' = [player EXCEPT ![p] = status]
         /\ outdated' = IF player[p] = status THEN outdated
                        ELSE outdated \cup {r \in Runs : run[r].prov = p
                                                          /\ run[r].pc \in {"read", "stamped"}}
  /\ handler' = [handler EXCEPT ![c] = Idle]
  /\ UNCHANGED <<smVars, daemonVars, run, watch, avail, bounds, forced>>

\* The provider returns an error, which the client is told; the mark stays.
CommandFails(c) ==
  /\ handler[c].pc = "call"
  /\ ~avail[handler[c].prov]
  /\ handler' = [handler EXCEPT ![c] = Idle]
  /\ UNCHANGED <<smVars, daemonVars, run, watch, worldVars, bounds, history>>

-----------------------------------------------------------------------------
(* The world.                                                              *)

\* Somebody uses the player directly.
PlayerUsed(p) ==
  /\ commands < MaxCommands
  /\ commands' = commands + 1
  /\ player' = [player EXCEPT ![p] = IF @ = "playing" THEN "paused" ELSE "playing"]
  /\ UNCHANGED <<smVars, daemonVars, procVars, avail, sets, flips, history>>

AvailabilityChanges(p) ==
  /\ p \notin AlwaysAvailable
  /\ flips < MaxFlips
  /\ flips' = flips + 1
  /\ avail' = [avail EXCEPT ![p] = ~@]
  /\ UNCHANGED <<smVars, daemonVars, procVars, player, sets, commands, history>>

\* Time passes unless a call to a player has already taken as long as it may.
Clock ==
  /\ Tick
  /\ \A r \in Runs : run[r].pc \in {"read", "stamped"} =>
                       now < run[r].at + LatencyOf(run[r].prov)
  /\ \A c \in Clients : handler[c].pc # "idle" =>
                          now < handler[c].at + LatencyOf(handler[c].prov)
  /\ UNCHANGED <<daemonVars, procVars, worldVars, bounds, history>>

\* Apply's fan-out, seen from outside the state machine.
Publish ==
  /\ FanOut
  /\ UNCHANGED <<daemonVars, procVars, worldVars, bounds, history>>

RunStep(r)    == PollRead(r) \/ PollStamp(r) \/ PollApply(r) \/ RunExit(r)
WatchStep     == WatchTick \/ WatchCheck \/ WatchStop \/ WatchSelect \/ WatchStart
HandlerStep(c) == CommandDecide(c) \/ CommandCall(c) \/ CommandFails(c)

DaemonNext ==
  \/ RunDaemon
  \/ Forward
  \/ WatchStep
  \/ \E p \in Providers : ProviderSet(p)
  \/ \E c \in Clients, cmd \in Commands : CommandStart(c, cmd)
  \/ \E c \in Clients : HandlerStep(c)
  \/ \E p \in Providers : PlayerUsed(p) \/ AvailabilityChanges(p)
  \/ Clock
  \/ Publish
  \/ \E r \in Runs : RunStep(r)

DaemonSpec == DaemonInit /\ [][DaemonNext]_vars

(***************************************************************************)
(* Fairness.  The daemon starts, its goroutines run, handlers finish their *)
(* calls, tickers tick and time passes.  Clock is strongly fair, because   *)
(* polls of a player in memory, which take no time, do not follow each     *)
(* other at one instant for ever: a ticker separates them.  RunExit is     *)
(* strongly fair: a cancelled goroutine may take a few more ticks, but     *)
(* select chooses at random among its ready cases and so does not avoid    *)
(* ctx.Done() for ever.  Requests, the users and the availability of       *)
(* players owe nothing.                                                    *)
(***************************************************************************)
DaemonFairness ==
  /\ WF_vars(RunDaemon) /\ WF_vars(Forward)
  /\ \A r \in Runs : WF_vars(RunStep(r)) /\ SF_vars(RunExit(r))
  /\ WF_vars(WatchStep)
  /\ \A c \in Clients : WF_vars(HandlerStep(c))
  /\ SF_vars(Clock)
  /\ WF_vars(Publish)

FairDaemonSpec == DaemonSpec /\ DaemonFairness

-----------------------------------------------------------------------------
(* Properties.                                                             *)

ProcessesTypeOK ==
  /\ active \in Providers
  /\ activeCancel \in Runs \cup {NoProc}
  /\ activeRunning \in BOOLEAN
  /\ run \in [Runs -> [pc : {"unused", "wait", "read", "stamped", "exited"},
                       prov : Providers \cup {NoProc}, cancelled : BOOLEAN,
                       obs : PlayerStates, sampled : 0 .. MaxTime, at : 0 .. MaxTime]]
  /\ watch \in [pc : {"off", "wait", "check", "stop", "select", "start"}, current : Providers,
                i : 1 .. Len(Priority)]
  /\ handler \in [Clients -> [pc : {"idle", "decide", "call"}, prov : Providers \cup {NoProc},
                              cmd : Commands \cup {"none"}, at : 0 .. MaxTime]]
  /\ player \in [Providers -> {"playing", "paused"}]
  /\ avail \in [Providers -> BOOLEAN]

\* Every variable has its type: the watcher's walk stays inside the list of
\* providers (daemon.go:390), and what the goroutines apply are observations.
DaemonTypeOK ==
  /\ TypeOK
  /\ ProcessesTypeOK
  /\ \A r \in Runs : run[r].pc \in {"read", "stamped"} =>
       run[r].obs \in Observations /\ run[r].sampled <= now

\* A goroutine that is not cancelled is the one activeCancel would stop: the
\* flag, the cancel function and the goroutines are updated in different
\* critical sections (daemon.go:343 to 373), a late exit of an old goroutine
\* may clear the flag of a new one, and still no goroutine is ever leaked.
NoLeakedGoroutine == \A r \in Runs : Live(r) => activeCancel = r

\* Only the active provider feeds the state machine, whenever the watcher is
\* not in the middle of a switch (the comment at daemon.go:100).
OnlyActiveFeeds ==
  watch.pc = "wait" => /\ \E r \in Runs : Live(r)
                       /\ \A r \in Runs : Live(r) => run[r].prov = active

\* The same, as far as it is true: as long as no selection is forced, whatever
\* the players do, promotions keep exactly the active provider's goroutine
\* running (daemon.go:375 to 405).
PromotionFollowed == forced = NoProc => OnlyActiveFeeds

\* No bounce (state.go:80 to 81, design.md:333): an observation read before a command
\* took effect is never applied after it.
NoBounce ==
  [][\A r \in outdated : run[r].pc = "stamped" /\ run'[r].pc = "wait" => state' = state]_vars

\* provider.set forces a selection (design.md:126): the provider stays the active one
\* until the next provider.set.
ForcedKept == forced # NoProc => active = forced

\* The best provider becomes and stays active once it stays available, unless another one
\* was forced last: no step of the watcher works on a stale d.active for ever, and a
\* provider.set into the middle of a promotion delays, but does not lose it
\* (daemon.go:383 to 402).
Promotes ==
  LET top == Priority[1]
  IN  <>[](avail[top] /\ forced \in {NoProc, top}) => <>[](active = top)

\* When requests and users are done, and no selection was forced, the canonical
\* state settles on the status of the active provider's player: neither the
\* debounce window nor a late observation of a provider that was switched off
\* leaves it wrong for good (state.go:80 to 88, daemon.go:365 to 373).  The clients
\* are told the same, unless just this was dropped (daemon.go:88 to 90, 119).
Settles ==
  <>[](avail[active] /\ forced = NoProc =>
         /\ state.Provider = active /\ state.Status = player[active]
         /\ 0 \in missed \/ Rendered(seen[0]) = Rendered(state))
=============================================================================
