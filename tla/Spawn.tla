-------------------------------- MODULE Spawn --------------------------------
(***************************************************************************)
(* How a client finds a daemon or starts one (cmd/nowplaying/main.go), and *)
(* what a daemon does with the socket's path from its start to its end     *)
(* (cmd/nowplayingd/main.go, internal/ipc/server.go).                      *)
(*                                                                         *)
(* A starter is one run of "nowplaying": detached (the TUI and "--daemon") *)
(* or debug ("--daemon --debug").  Starters are numbered in the order in   *)
(* which they start; each starts one daemon at most, which has its number. *)
(***************************************************************************)
EXTENDS Integers, FiniteSets

CONSTANTS
  MaxStarters,
  MaxPolls,  \* 20, every 50 ms
  MaxKills   \* bound: daemons that are killed or told to stop

ASSUME SpawnAssumption ==
  MaxStarters \in Nat /\ MaxPolls \in Nat \ {0} /\ MaxKills \in Nat

VARIABLES
  path,      \* the daemon whose socket is at the path, 0 if there is no file
  daemon,    \* where each daemon is in Daemon.Run and Server.Serve
  starter,   \* where each starter is, and how often it has polled
  kills,     \* counter of the bound
  killed,    \* history: the daemons that were killed or told to stop
  overlap    \* history: a starter looked for a daemon while another was on its way

spawnVars == <<path, daemon, starter, kills, killed, overlap>>

Starters == 1 .. MaxStarters

SpawnInit ==
  /\ path = 0
  /\ daemon = [d \in Starters |-> "none"]
  /\ starter = [s \in Starters |-> [pc |-> "idle", polls |-> 0]]
  /\ kills = 0 /\ killed = {} /\ overlap = FALSE

-----------------------------------------------------------------------------
\* A connection to the path succeeds: somebody who has it listens.
DaemonListening == path # 0 /\ daemon[path] \in {"bound", "serving", "closing"}

OnItsWay == {d \in Starters : daemon[d] \in {"starting", "removed", "bound", "closing"}}

NextToStart(s) ==
  /\ starter[s].pc = "idle"
  /\ \A t \in Starters : t < s => starter[t].pc # "idle"

\* Mutant: a client that starts a daemon does not look for one before.
CheckNot(s) ==
  /\ NextToStart(s)
  /\ \E pc \in {"detach", "run"} : starter' = [starter EXCEPT ![s].pc = pc]
  /\ overlap' = (overlap \/ OnItsWay # {})
  /\ UNCHANGED <<path, daemon, kills, killed>>

\* The first thing a starter does; with --debug it refuses to go on if there is one.
Check(s) ==
  /\ NextToStart(s)
  /\ \E pc \in IF DaemonListening THEN {"up", "refused"} ELSE {"detach", "run"} :
       starter' = [starter EXCEPT ![s].pc = pc]
  /\ overlap' = (overlap \/ OnItsWay # {}
                         \/ \E t \in Starters : starter[t].pc \in {"detach", "run"})
  /\ UNCHANGED <<path, daemon, kills, killed>>

\* The program is not found or cannot be started, or it is: detached and polled
\* for, or in the foreground.
SpawnFails(s) ==
  /\ starter[s].pc \in {"detach", "run"}
  /\ starter' = [starter EXCEPT ![s].pc = "missing"]
  /\ UNCHANGED <<path, daemon, kills, killed, overlap>>

SpawnDaemon(s) ==
  /\ starter[s].pc \in {"detach", "run"}
  /\ daemon' = [daemon EXCEPT ![s] = "starting"]
  /\ starter' = [starter EXCEPT ![s].pc = IF @ = "run" THEN "foreground" ELSE "polling"]
  /\ UNCHANGED <<path, kills, killed, overlap>>

\* When nobody listens after the last poll, --daemon fails and the TUI goes on.
Poll(s) ==
  /\ starter[s].pc = "polling"
  /\ LET polls == starter[s].polls + 1
     IN  starter' = [starter EXCEPT ![s] =
           CASE DaemonListening -> [pc |-> "up", polls |-> 0]
             [] ~DaemonListening /\ polls = MaxPolls -> [pc |-> "gaveup", polls |-> 0]
             [] OTHER -> [pc |-> "polling", polls |-> polls]]
  /\ UNCHANGED <<path, daemon, kills, killed, overlap>>

ForegroundEnds(s) ==
  /\ starter[s].pc = "foreground"
  /\ daemon[s] = "gone"
  /\ starter' = [starter EXCEPT ![s].pc = "over"]
  /\ UNCHANGED <<path, daemon, kills, killed, overlap>>

-----------------------------------------------------------------------------
Becomes(d, place) == daemon' = [daemon EXCEPT ![d] = place]

\* Mutant: a socket that a dead daemon left behind is not removed.
ServeRemoveNot(d) ==
  /\ daemon[d] = "starting"
  /\ Becomes(d, "removed")
  /\ UNCHANGED <<path, starter, kills, killed, overlap>>

\* Register has asked every provider, which takes its time; Serve removes whatever
\* is at the path.
ServeRemove(d) ==
  /\ daemon[d] = "starting"
  /\ Becomes(d, "removed")
  /\ path' = 0
  /\ UNCHANGED <<starter, kills, killed, overlap>>

\* net.Listen fails if there is a file; the daemon then exits.
ServeListen(d) ==
  /\ daemon[d] = "removed"
  /\ IF path = 0 THEN path' = d /\ Becomes(d, "bound")
     ELSE Becomes(d, "gone") /\ UNCHANGED path
  /\ UNCHANGED <<starter, kills, killed, overlap>>

\* os.Chmod fails if there is none.
ServeChmod(d) ==
  /\ daemon[d] = "bound"
  /\ Becomes(d, IF path = 0 THEN "closing" ELSE "serving")
  /\ UNCHANGED <<path, starter, kills, killed, overlap>>

\* Closing a listener unlinks the path, whoever's socket is there.
ServeClose(d) ==
  /\ daemon[d] = "closing"
  /\ Becomes(d, "gone")
  /\ path' = 0
  /\ UNCHANGED <<starter, kills, killed, overlap>>

DaemonStep(d) == ServeRemove(d) \/ ServeListen(d) \/ ServeChmod(d) \/ ServeClose(d)

\* A signal cancels the context of a daemon that serves, which closes its listener;
\* SIGKILL, also by a starter in whose foreground it runs, leaves the file.
Stopped(d) ==
  /\ kills < MaxKills
  /\ daemon[d] \notin {"none", "gone"}
  /\ kills' = kills + 1
  /\ killed' = killed \cup {d}
  /\ \/ daemon[d] = "serving" /\ Becomes(d, "closing")
     \/ Becomes(d, "gone")
  /\ UNCHANGED <<path, starter, overlap>>

-----------------------------------------------------------------------------
StarterStep(s) ==
  SpawnFails(s) \/ SpawnDaemon(s) \/ Poll(s) \/ ForegroundEnds(s)

SpawnNext ==
  \/ \E s \in Starters : Check(s) \/ StarterStep(s)
  \/ \E d \in Starters : DaemonStep(d) \/ Stopped(d)

\* Processes that were started go on; nobody has to start or kill one.
SpawnFairness ==
  /\ \A s \in Starters : WF_spawnVars(StarterStep(s))
  /\ \A d \in Starters : WF_spawnVars(DaemonStep(d))

SpawnSpec == SpawnInit /\ [][SpawnNext]_spawnVars
FairSpawnSpec == SpawnSpec /\ SpawnFairness

-----------------------------------------------------------------------------
(* Properties.                                                             *)

\* Types; and a daemon was started by a starter that went on from there.
SpawnTypeOK ==
  /\ path \in Starters \cup {0}
  /\ daemon \in [Starters -> {"none", "starting", "removed", "bound", "serving", "closing", "gone"}]
  /\ starter \in [Starters -> [pc : {"idle", "detach", "run", "refused", "missing", "polling",
                                    "foreground", "up", "gaveup", "over"},
                              polls : 0 .. MaxPolls - 1]]
  /\ \A s \in Starters :
       daemon[s] # "none" => starter[s].pc \in {"polling", "foreground", "up", "gaveup", "over"}
  /\ killed \subseteq Starters /\ kills \in 0 .. MaxKills /\ overlap \in BOOLEAN

\* As long as nobody looked for a daemon while another was on its way, there is
\* one daemon at most, and one that serves can be reached (main.go:105,
\* server.go:84), however often daemons are killed and leave their file.
OneAtATime ==
  ~overlap =>
    /\ Cardinality({d \in Starters : daemon[d] \notin {"none", "gone"}}) <= 1
    /\ \A d \in Starters : daemon[d] = "serving" => path = d

\* In the end every daemon that was started can be reached, or another that listens,
\* also over the file of a dead one (server.go:83), unless it was killed or starts
\* overlapped.
StartSucceeds ==
  <>[]\A d \in Starters : daemon[d] # "none" => DaemonListening \/ d \in killed \/ overlap

\* docs/superpowers/specs/2026-04-25-standalone-tui-design.md:492: that two clients
\* launch at once is mitigated; there are never two daemons that serve.
OneDaemon == Cardinality({d \in Starters : daemon[d] = "serving"}) <= 1
=============================================================================
