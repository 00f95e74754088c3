---------------------------- MODULE DaemonProofs ----------------------------
(***************************************************************************)
(* Proofs about Daemon, for every value of its constants: its behaviours   *)
(* are behaviours of StateMachine, its variables keep their types, no      *)
(* provider goroutine is leaked, promotions are followed, and what was     *)
(* read before a command is not applied after it.                          *)
(***************************************************************************)
EXTENDS Daemon, StateMachineProofs, TLAPS

USE DEF Statuses, smVars, machineVars, subVars, feedVars, daemonVars, procVars, worldVars, bounds, history, vars

\* The parts of DaemonAssumption the proofs use.
LEMMA DaemonBounds ==
  /\ Priority \in Seq(Providers)
  /\ Len(Priority) \in Nat \ {0}
  /\ \A i \in 1 .. Len(Priority) : Priority[i] \in Providers
  /\ \A p \in Providers : \E i \in 1 .. Len(Priority) : Priority[i] = p
  /\ {"playing", "paused"} \subseteq Reported
  /\ MaxRuns \in Nat \ {0}
  /\ NoProc \notin Nat /\ NoProc \notin Providers
  /\ MaxTime \in Nat
  /\ Priority[1] \in Providers
  /\ ForwardBuffer \in Buffers
  /\ 0 \in SubIDs /\ MaxSubs \in Nat \ {0}
<1>1. Priority \in Seq(Providers) /\ Priority # <<>>
  BY DaemonAssumption
<1>2. Len(Priority) \in Nat \ {0} /\ \A i \in 1 .. Len(Priority) : Priority[i] \in Providers
  BY <1>1, LenProperties, ElementOfSeq
<1>3. \A p \in Providers : \E i \in 1 .. Len(Priority) : Priority[i] = p
  BY DaemonAssumption
<1>4. /\ {"playing", "paused"} \subseteq Reported
      /\ MaxRuns \in Nat \ {0}
      /\ NoProc \notin Nat /\ NoProc \notin Providers
  BY DaemonAssumption
<1>5. ForwardBuffer \in Buffers /\ MaxSubs \in Nat \ {0}
  <2>1. MaxSubs \in Nat
    BY ConstantsAssumption
  <2>. QED
    BY <2>1, DaemonAssumption
<1>6. 0 \in SubIDs
  BY <1>5 DEF SubIDs
<1>7. Priority[1] \in Providers
  <2>1. 1 \in 1 .. Len(Priority)
    BY <1>2
  <2>. QED
    BY <1>2, <2>1
<1>. QED
  BY <1>1, <1>2, <1>3, <1>4, <1>5, <1>6, <1>7, ConstantsAssumption

\* No call takes longer than Latency.
LEMMA LatencyBounds ==
  /\ Latency \in Nat
  /\ \A p : LatencyOf(p) \in Nat /\ LatencyOf(p) <= Latency
BY DaemonAssumption DEF LatencyOf

-----------------------------------------------------------------------------
(***************************************************************************)
(* The processes.  Their types are inductive once it is known that the     *)
(* watcher's walk has its copy of the active provider still ahead of it,   *)
(* and that what a goroutine is about to apply is an observation from the  *)
(* past.                                                                   *)
(***************************************************************************)
CurrentAhead ==
  watch.pc = "check" => \E j \in watch.i .. Len(Priority) : Priority[j] = watch.current

ObservationsFromPast ==
  \A r \in Runs : /\ run[r].sampled <= now
                  /\ run[r].pc \in {"read", "stamped"} =>
                       run[r].obs \in Observations /\ run[r].prov \in Providers

RunsHaveProvider ==
  \A r \in Runs : run[r].pc # "unused" => run[r].prov \in Providers

HandlersHaveProvider ==
  \A c \in Clients : handler[c].pc # "idle" => handler[c].prov \in Providers

ProcInv ==
  /\ now \in 0 .. MaxTime
  /\ ProcessesTypeOK
  /\ CurrentAhead
  /\ ObservationsFromPast
  /\ RunsHaveProvider
  /\ HandlersHaveProvider

\* The records of a goroutine.
RunRecords ==
  [pc : {"unused", "wait", "read", "stamped", "exited"}, prov : Providers \cup {NoProc},
   cancelled : BOOLEAN, obs : PlayerStates, sampled : 0 .. MaxTime, at : 0 .. MaxTime]

LEMMA NewRunType ==
  ASSUME NEW p \in Providers \cup {NoProc}
  PROVE  NewRun(p) \in RunRecords /\ NoRun \in RunRecords
<1>1. ZeroState \in PlayerStates
  BY ConstantsAssumption DEF ZeroState, PlayerStates
<1>2. NewRun(p) \in RunRecords /\ NewRun(NoProc) \in RunRecords
  BY <1>1, DaemonBounds DEF NewRun, RunRecords
<1>. QED
  BY <1>2 DEF NoRun, RunRecords

LEMMA ProcInit == DaemonInit => ProcInv
<1>. SUFFICES ASSUME DaemonInit PROVE ProcInv
  OBVIOUS
<1>1. active \in Providers
  BY DaemonBounds DEF DaemonInit
<1>2. now \in 0 .. MaxTime /\ now = 0
  BY DaemonBounds DEF DaemonInit, Init
<1>3. run \in [Runs -> RunRecords]
  BY <1>1, NewRunType DEF DaemonInit
<1>4. watch \in [pc : {"off", "wait", "check", "stop", "select", "start"}, current : Providers,
                 i : 1 .. Len(Priority)]
  <2>1. 1 \in 1 .. Len(Priority) /\ Priority[1] \in Providers
    BY DaemonBounds
  <2>. QED
    BY <2>1 DEF DaemonInit, Waiting
<1>5. handler \in [Clients -> [pc : {"idle", "decide", "call"}, prov : Providers \cup {NoProc},
                               cmd : Commands \cup {"none"}, at : 0 .. MaxTime]]
  BY DaemonBounds DEF DaemonInit, Idle, Commands
<1>6. ProcessesTypeOK
  <2>1. activeCancel \in Runs \cup {NoProc} /\ activeRunning \in BOOLEAN
    BY DaemonBounds DEF DaemonInit, Runs
  <2>2. player \in [Providers -> {"playing", "paused"}] /\ avail \in [Providers -> BOOLEAN]
    BY DEF DaemonInit
  <2>. QED
    BY <1>1, <1>3, <1>4, <1>5, <2>1, <2>2 DEF ProcessesTypeOK, RunRecords
<1>7. \A r \in Runs : /\ run[r].sampled = 0
                      /\ run[r].pc = "unused"
  BY DEF DaemonInit, NewRun, NoRun
<1>. QED
  BY <1>2, <1>6, <1>7 DEF DaemonInit, Idle, Waiting, ProcInv, CurrentAhead, ObservationsFromPast,
     RunsHaveProvider, HandlersHaveProvider

\* A step of a goroutine r that replaces its record by a well-formed one.
LEMMA RunFrame ==
  ASSUME ProcInv, NEW r \in Runs, NEW rec \in RunRecords,
         run' = [run EXCEPT ![r] = rec],
         rec.sampled <= now,
         rec.pc # "unused" => rec.prov \in Providers,
         rec.pc \in {"read", "stamped"} => rec.obs \in Observations,
         now' = now, active' \in Providers, activeCancel' \in Runs \cup {NoProc},
         activeRunning' \in BOOLEAN, watch' = watch, handler' = handler, player' = player,
         avail' = avail
  PROVE  ProcInv'
<1>1. run \in [Runs -> RunRecords]
  BY DEF ProcInv, ProcessesTypeOK, RunRecords
<1>2. run' \in [Runs -> RunRecords]
  BY <1>1
<1>3. ProcessesTypeOK'
  BY <1>2 DEF ProcInv, ProcessesTypeOK, RunRecords
<1>4. \A s \in Runs : run'[s] = IF s = r THEN rec ELSE run[s]
  BY <1>1
<1>5. /\ (rec.pc \in {"read", "stamped"} => rec.pc # "unused")
      /\ now' \in 0 .. MaxTime /\ CurrentAhead' /\ HandlersHaveProvider'
  BY DEF ProcInv, CurrentAhead, HandlersHaveProvider
<1>6. ObservationsFromPast'
  BY <1>4, <1>5 DEF ProcInv, ObservationsFromPast
<1>7. RunsHaveProvider'
  BY <1>4 DEF ProcInv, RunsHaveProvider
<1>. QED
  BY <1>3, <1>5, <1>6, <1>7 DEF ProcInv

LEMMA PollReadProc ==
  ASSUME ProcInv, NEW r \in Runs, PollRead(r)
  PROVE  ProcInv'
<1>. DEFINE p   == run[r].prov
            obs == [Provider |-> p, Status |-> player[p], Track |-> NoTrack, Volume |-> 0,
                    PositionMS |-> 0]
            rec == [run[r] EXCEPT !.pc = IF p \in Stamps THEN "read" ELSE "stamped",
                                  !.obs = obs, !.at = now]
<1>1. run[r] \in RunRecords /\ run[r].pc = "wait" /\ run[r].sampled <= now
  BY DEF ProcInv, ProcessesTypeOK, ObservationsFromPast, RunRecords, PollRead
<1>2. p \in Providers
  BY <1>1 DEF ProcInv, RunsHaveProvider
<1>3. obs \in Observations /\ obs \in PlayerStates
  <2>1. player[p] \in Reported
    <3>1. \A q \in Providers : player[q] \in Reported
      BY DaemonBounds DEF ProcInv, ProcessesTypeOK
    <3>. QED
      BY <1>2, <3>1
  <2>2. obs \in Observations
    BY <1>2, <2>1, ConstantsAssumption DEF Observations
  <2>. QED
    BY <2>2, ConstantsAssumption DEF Observations, PlayerStates
<1>. HIDE DEF obs
<1>4. now \in 0 .. MaxTime
  BY DEF ProcInv
<1>5. rec \in RunRecords /\ rec.sampled <= now /\ rec.prov = p /\ rec.obs = obs
  BY <1>1, <1>3, <1>4 DEF RunRecords
<1>6. run' = [run EXCEPT ![r] = rec]
  BY DEF PollRead, obs
<1>. HIDE DEF rec
<1>7. /\ now' = now /\ active' \in Providers /\ activeCancel' \in Runs \cup {NoProc}
      /\ activeRunning' \in BOOLEAN /\ watch' = watch /\ handler' = handler
      /\ player' = player /\ avail' = avail
  BY DEF PollRead, ProcInv, ProcessesTypeOK
<1>. QED
  BY <1>2, <1>3, <1>5, <1>6, <1>7, RunFrame

LEMMA PollStampProc ==
  ASSUME ProcInv, NEW r \in Runs, PollStamp(r)
  PROVE  ProcInv'
<1>. DEFINE rec == [run[r] EXCEPT !.pc = "stamped", !.sampled = now]
<1>1. run[r] \in RunRecords /\ run[r].obs \in Observations /\ run[r].prov \in Providers
  BY DEF ProcInv, ProcessesTypeOK, ObservationsFromPast, RunRecords, PollStamp
<1>2. now \in 0 .. MaxTime /\ now <= now
  BY DaemonBounds DEF ProcInv
<1>3. rec \in RunRecords /\ rec.sampled <= now /\ rec.prov \in Providers /\ rec.obs \in Observations
  BY <1>1, <1>2 DEF RunRecords
<1>4. run' = [run EXCEPT ![r] = rec]
  BY DEF PollStamp
<1>. HIDE DEF rec
<1>5. /\ now' = now /\ active' \in Providers /\ activeCancel' \in Runs \cup {NoProc}
      /\ activeRunning' \in BOOLEAN /\ watch' = watch /\ handler' = handler
      /\ player' = player /\ avail' = avail
  BY DEF PollStamp, ProcInv, ProcessesTypeOK
<1>. QED
  BY <1>3, <1>4, <1>5, RunFrame

LEMMA PollApplyProc ==
  ASSUME ProcInv, NEW r \in Runs, PollApply(r)
  PROVE  ProcInv'
<1>. DEFINE rec == [NewRun(run[r].prov) EXCEPT !.cancelled = run[r].cancelled]
<1>1. run[r] \in RunRecords /\ run[r].prov \in Providers /\ now \in 0 .. MaxTime
  BY DEF ProcInv, ProcessesTypeOK, ObservationsFromPast, RunRecords, PollApply
<1>2. rec \in RunRecords /\ rec.sampled <= now /\ rec.prov \in Providers /\ rec.pc = "wait"
  <2>1. NewRun(run[r].prov) \in RunRecords
    BY <1>1, NewRunType
  <2>2. rec \in RunRecords
    BY <1>1, <2>1 DEF RunRecords
  <2>3. rec.sampled = 0 /\ rec.prov = run[r].prov /\ rec.pc = "wait"
    BY DEF NewRun
  <2>. QED
    BY <1>1, <2>2, <2>3, DaemonBounds
<1>3. run' = [run EXCEPT ![r] = rec]
  BY DEF PollApply
<1>. HIDE DEF rec
<1>4. now' = now
  BY DEF PollApply, Apply, Ignore
<1>5. /\ active' \in Providers /\ activeCancel' \in Runs \cup {NoProc}
      /\ activeRunning' \in BOOLEAN /\ watch' = watch /\ handler' = handler
      /\ player' = player /\ avail' = avail
  BY DEF PollApply, ProcInv, ProcessesTypeOK
<1>. QED
  BY <1>2, <1>3, <1>4, <1>5, RunFrame

LEMMA RunExitProc ==
  ASSUME ProcInv, NEW r \in Runs, RunExit(r)
  PROVE  ProcInv'
<1>. DEFINE rec == [run[r] EXCEPT !.pc = "exited"]
<1>1. run[r] \in RunRecords /\ run[r].sampled <= now /\ run[r].prov \in Providers
  BY DEF ProcInv, ProcessesTypeOK, ObservationsFromPast, RunsHaveProvider, RunRecords, RunExit
<1>2. rec \in RunRecords /\ rec.sampled <= now /\ rec.prov \in Providers /\ rec.pc = "exited"
  BY <1>1 DEF RunRecords
<1>3. run' = [run EXCEPT ![r] = rec]
  BY DEF RunExit
<1>. HIDE DEF rec
<1>4. /\ now' = now /\ active' \in Providers /\ activeCancel' \in Runs \cup {NoProc}
      /\ activeRunning' \in BOOLEAN /\ watch' = watch /\ handler' = handler
      /\ player' = player /\ avail' = avail
  BY DEF RunExit, ProcInv, ProcessesTypeOK
<1>. QED
  BY <1>2, <1>3, <1>4, RunFrame

\* Steps that leave the goroutines alone.
LEMMA OthersFrame ==
  ASSUME ProcInv, run' = run, now' \in now .. MaxTime, ProcessesTypeOK', CurrentAhead',
         HandlersHaveProvider'
  PROVE  ProcInv'
<1>1. \A r \in Runs : run[r].sampled \in Int
  BY DaemonBounds DEF ProcInv, ProcessesTypeOK
<1>2. ObservationsFromPast' /\ RunsHaveProvider' /\ now' \in 0 .. MaxTime
  BY <1>1, DaemonBounds DEF ProcInv, ObservationsFromPast, RunsHaveProvider
<1>. QED
  BY <1>2 DEF ProcInv

\* Steps of a switch that replace the record of a goroutine r by a well-formed one.
LEMMA SwitchFrame ==
  ASSUME ProcInv,
         watch' \in [pc : {"wait", "start", "select"}, current : Providers, i : 1 .. Len(Priority)],
         NEW r \in Runs, NEW rec \in RunRecords, run' = [run EXCEPT ![r] = rec],
         rec.sampled <= now, rec.pc # "unused" => rec.prov \in Providers,
         rec.pc \in {"read", "stamped"} => rec.obs \in Observations,
         now' = now, active' \in Providers, activeCancel' \in Runs \cup {NoProc},
         activeRunning' \in BOOLEAN, handler' = handler, player' = player, avail' = avail
  PROVE  ProcInv'
<1>1. run \in [Runs -> RunRecords]
  BY DEF ProcInv, ProcessesTypeOK, RunRecords
<1>2. run' \in [Runs -> RunRecords] /\ \A s \in Runs : run'[s] = IF s = r THEN rec ELSE run[s]
  BY <1>1
<1>3. ProcessesTypeOK'
  BY <1>2 DEF ProcInv, ProcessesTypeOK, RunRecords
<1>4. CurrentAhead' /\ HandlersHaveProvider' /\ now' \in 0 .. MaxTime
  BY DEF ProcInv, CurrentAhead, HandlersHaveProvider
<1>5. ObservationsFromPast' /\ RunsHaveProvider'
  BY <1>2 DEF ProcInv, ObservationsFromPast, RunsHaveProvider
<1>. QED
  BY <1>3, <1>4, <1>5 DEF ProcInv

\* Starting the active provider, by Run or by the watcher.
LEMMA StartProc ==
  ASSUME ProcInv, StartActiveProvider, watch' = Waiting, now' = now, handler' = handler,
         player' = player, avail' = avail
  PROVE  ProcInv'
<1>1. /\ watch' \in [pc : {"wait", "start", "select"}, current : Providers, i : 1 .. Len(Priority)]
      /\ watch'.pc = "wait"
      /\ active \in Providers
      /\ now \in 0 .. MaxTime /\ now' \in now .. MaxTime
  BY DaemonBounds DEF Waiting, ProcInv, ProcessesTypeOK
<1>2. CASE activeRunning
  <2>1. ProcessesTypeOK'
    BY <1>1, <1>2 DEF StartActiveProvider, ProcInv, ProcessesTypeOK
  <2>2. CurrentAhead' /\ HandlersHaveProvider' /\ run' = run
    BY <1>1, <1>2 DEF StartActiveProvider, ProcInv, CurrentAhead, HandlersHaveProvider
  <2>. QED
    BY <1>1, <2>1, <2>2, OthersFrame
<1>3. CASE ~activeRunning
  <2>1. PICK r \in Runs : /\ run' = [run EXCEPT ![r] = NewRun(active)]
                          /\ activeCancel' = r
                          /\ activeRunning' = TRUE
                          /\ UNCHANGED active
    BY <1>3 DEF StartActiveProvider
  <2>2. /\ NewRun(active) \in RunRecords /\ NewRun(active).sampled <= now
        /\ NewRun(active).prov \in Providers /\ NewRun(active).pc = "wait"
    BY <1>1, NewRunType DEF NewRun
  <2>3. /\ active' \in Providers /\ activeCancel' \in Runs \cup {NoProc}
        /\ activeRunning' \in BOOLEAN
    BY <1>1, <2>1
  <2>. QED
    BY <1>1, <2>1, <2>2, <2>3, SwitchFrame
<1>. QED
  BY <1>2, <1>3

LEMMA WatchProc ==
  ASSUME ProcInv, WatchStep
  PROVE  ProcInv'
<1>1. /\ watch \in [pc : {"off", "wait", "check", "stop", "select", "start"}, current : Providers,
                    i : 1 .. Len(Priority)]
      /\ active \in Providers
      /\ now \in 0 .. MaxTime
  BY DEF ProcInv, ProcessesTypeOK
<1>2. CASE WatchTick
  <2>1. watch' = [pc |-> "check", current |-> active, i |-> 1]
    BY <1>2 DEF WatchTick
  <2>2. ProcessesTypeOK'
    <3>1. watch' \in [pc : {"off", "wait", "check", "stop", "select", "start"}, current : Providers,
                      i : 1 .. Len(Priority)]
      BY <1>1, <2>1, DaemonBounds
    <3>. QED
      BY <1>2, <3>1 DEF WatchTick, ProcInv, ProcessesTypeOK
  <2>3. CurrentAhead' /\ HandlersHaveProvider' /\ run' = run /\ now' = now
    BY <1>1, <1>2, <2>1, DaemonBounds DEF WatchTick, ProcInv, CurrentAhead, HandlersHaveProvider
  <2>. QED
    BY <1>1, <2>2, <2>3, OthersFrame
<1>3. CASE WatchCheck
  <2>1. \/ watch' = Waiting
        \/ watch' = [watch EXCEPT !.pc = "stop"]
        \/ watch' = [watch EXCEPT !.i = @ + 1] /\ Priority[watch.i] # watch.current
    BY <1>3 DEF WatchCheck
  <2>2. PICK j \in watch.i .. Len(Priority) : Priority[j] = watch.current
    BY <1>3 DEF WatchCheck, ProcInv, CurrentAhead
  <2>3. /\ watch' \in [pc : {"off", "wait", "check", "stop", "select", "start"}, current : Providers,
                       i : 1 .. Len(Priority)]
        /\ CurrentAhead'
    <3>1. CASE watch' = [watch EXCEPT !.i = @ + 1] /\ Priority[watch.i] # watch.current
      <4>1. j # watch.i /\ watch.i \in 1 .. Len(Priority) /\ Len(Priority) \in Nat
        BY <1>1, <2>2, <3>1, DaemonBounds
      <4>2. j \in watch.i + 1 .. Len(Priority) /\ watch.i + 1 \in 1 .. Len(Priority)
        BY <4>1
      <4>. QED
        BY <1>1, <2>2, <3>1, <4>2 DEF CurrentAhead
    <3>2. CASE watch' = Waiting
      BY <3>2, DaemonBounds DEF Waiting, CurrentAhead
    <3>. QED
      BY <1>1, <2>1, <3>1, <3>2 DEF CurrentAhead
  <2>4. ProcessesTypeOK'
    BY <1>3, <2>3 DEF WatchCheck, ProcInv, ProcessesTypeOK
  <2>5. HandlersHaveProvider' /\ run' = run /\ now' = now
    BY <1>3 DEF WatchCheck, ProcInv, HandlersHaveProvider
  <2>. QED
    BY <1>1, <2>3, <2>4, <2>5, OthersFrame
<1>5. CASE WatchStop
  <2>1. watch' \in [pc : {"wait", "start", "select"}, current : Providers, i : 1 .. Len(Priority)]
    BY <1>1, <1>5 DEF WatchStop
  <2>2. CASE activeCancel = NoProc
    <3>1. ProcessesTypeOK'
      BY <1>5, <2>1, <2>2 DEF WatchStop, ProcInv, ProcessesTypeOK
    <3>2. CurrentAhead' /\ HandlersHaveProvider' /\ run' = run /\ now' = now
      BY <1>5, <2>1, <2>2 DEF WatchStop, ProcInv, CurrentAhead, HandlersHaveProvider
    <3>. QED
      BY <1>1, <3>1, <3>2, OthersFrame
  <2>3. CASE activeCancel # NoProc
    <3>. DEFINE rec == [run[activeCancel] EXCEPT !.cancelled = TRUE]
    <3>1. activeCancel \in Runs /\ run[activeCancel] \in RunRecords
      BY <2>3 DEF ProcInv, ProcessesTypeOK, RunRecords
    <3>2. /\ rec \in RunRecords /\ rec.sampled <= now
          /\ rec.pc # "unused" => rec.prov \in Providers
          /\ rec.pc \in {"read", "stamped"} => rec.obs \in Observations
      BY <3>1 DEF RunRecords, ProcInv, ObservationsFromPast, RunsHaveProvider
    <3>3. run' = [run EXCEPT ![activeCancel] = rec]
      BY <1>5, <2>3 DEF WatchStop
    <3>. HIDE DEF rec
    <3>4. /\ now' = now /\ active' \in Providers /\ activeCancel' \in Runs \cup {NoProc}
          /\ activeRunning' \in BOOLEAN /\ handler' = handler
          /\ player' = player /\ avail' = avail
      BY <1>1, <1>5, <2>3 DEF WatchStop
    <3>. QED
      BY <2>1, <3>1, <3>2, <3>3, <3>4, SwitchFrame
  <2>. QED
    BY <2>2, <2>3
<1>6. CASE WatchSelect
  <2>1. /\ watch' \in [pc : {"wait", "start", "select"}, current : Providers, i : 1 .. Len(Priority)]
        /\ active' \in Providers
    BY <1>1, <1>6, DaemonBounds DEF WatchSelect
  <2>2. ProcessesTypeOK'
    BY <1>6, <2>1 DEF WatchSelect, ProcInv, ProcessesTypeOK
  <2>3. CurrentAhead' /\ HandlersHaveProvider' /\ run' = run /\ now' = now
    BY <1>6, <2>1 DEF WatchSelect, ProcInv, CurrentAhead, HandlersHaveProvider
  <2>. QED
    BY <1>1, <2>2, <2>3, OthersFrame
<1>7. CASE WatchStart
  BY <1>7, StartProc DEF WatchStart
<1>. QED
  BY <1>2, <1>3, <1>5, <1>6, <1>7 DEF WatchStep

LEMMA RequestsProc ==
  ASSUME ProcInv,
         \/ \E p \in Providers : ProviderSet(p)
         \/ \E c \in Clients, cmd \in Commands : CommandStart(c, cmd)
         \/ \E c \in Clients : HandlerStep(c)
  PROVE  ProcInv'
<1>. DEFINE HandlerRecords == [pc : {"idle", "decide", "call"}, prov : Providers \cup {NoProc},
                               cmd : Commands \cup {"none"}, at : 0 .. MaxTime]
<1>1. /\ handler \in [Clients -> HandlerRecords]
      /\ active \in Providers
      /\ now \in 0 .. MaxTime /\ now \in now .. MaxTime
  BY DaemonBounds DEF ProcInv, ProcessesTypeOK
<1>2. ASSUME NEW c \in Clients, NEW rec \in HandlerRecords, handler' = [handler EXCEPT ![c] = rec],
             rec.pc # "idle" => rec.prov \in Providers,
             UNCHANGED <<now, daemonVars, run, watch, avail>>,
             player' \in [Providers -> {"playing", "paused"}]
      PROVE  ProcInv'
  <2>. HIDE DEF HandlerRecords
  <2>1. handler' \in [Clients -> HandlerRecords]
        /\ \A d \in Clients : handler'[d] = IF d = c THEN rec ELSE handler[d]
    BY <1>1, <1>2
  <2>2. ProcessesTypeOK'
    BY <1>2, <2>1 DEF ProcInv, ProcessesTypeOK, HandlerRecords
  <2>3. CurrentAhead' /\ HandlersHaveProvider'
    BY <1>2, <2>1 DEF ProcInv, CurrentAhead, HandlersHaveProvider
  <2>. QED
    BY <1>1, <1>2, <2>2, <2>3, OthersFrame
<1>3. ASSUME NEW p \in Providers, ProviderSet(p)
      PROVE  ProcInv'
  <2>1. ProcessesTypeOK'
    BY <1>3 DEF ProviderSet, ProcInv, ProcessesTypeOK
  <2>2. CurrentAhead' /\ HandlersHaveProvider' /\ run' = run /\ now' = now
    BY <1>3 DEF ProviderSet, ProcInv, CurrentAhead, HandlersHaveProvider
  <2>. QED
    BY <1>1, <2>1, <2>2, OthersFrame
<1>4. ASSUME NEW c \in Clients, NEW cmd \in Commands, CommandStart(c, cmd)
      PROVE  ProcInv'
  <2>. DEFINE rec == [pc |-> IF cmd = "toggle" THEN "decide" ELSE "call", prov |-> active,
                      cmd |-> cmd, at |-> now]
  <2>1. rec \in HandlerRecords /\ rec.prov \in Providers
    BY <1>1
  <2>2. handler' = [handler EXCEPT ![c] = rec]
    BY <1>4 DEF CommandStart
  <2>3. UNCHANGED <<now, daemonVars, run, watch, avail, player>>
    BY <1>4 DEF CommandStart, MarkCommandIssued
  <2>4. player' \in [Providers -> {"playing", "paused"}]
    BY <2>3 DEF ProcInv, ProcessesTypeOK
  <2>. HIDE DEF rec, HandlerRecords
  <2>. QED
    BY <1>2, <2>1, <2>2, <2>3, <2>4
<1>5. ASSUME NEW c \in Clients, CommandDecide(c)
      PROVE  ProcInv'
  <2>. DEFINE rec == [handler[c] EXCEPT !.pc = "call",
                        !.cmd = IF state.Status = "playing" THEN "pause" ELSE "play"]
  <2>1. rec \in HandlerRecords /\ rec.prov \in Providers
    <3>1. handler[c] \in HandlerRecords /\ handler[c].prov \in Providers
      BY <1>1, <1>5 DEF CommandDecide, ProcInv, HandlersHaveProvider
    <3>2. {"pause", "play"} \subseteq Commands
      BY DEF Commands
    <3>. QED
      BY <3>1, <3>2
  <2>2. handler' = [handler EXCEPT ![c] = rec]
    BY <1>5 DEF CommandDecide
  <2>3. UNCHANGED <<now, daemonVars, run, watch, avail, player>>
    BY <1>5 DEF CommandDecide
  <2>4. player' \in [Providers -> {"playing", "paused"}]
    BY <2>3 DEF ProcInv, ProcessesTypeOK
  <2>. HIDE DEF rec, HandlerRecords
  <2>. QED
    BY <1>2, <2>1, <2>2, <2>3, <2>4
<1>6. ASSUME NEW c \in Clients, CommandCall(c) \/ CommandFails(c)
      PROVE  ProcInv'
  <2>1. Idle \in HandlerRecords /\ Idle.pc = "idle"
    BY DaemonBounds DEF Idle
  <2>2. handler' = [handler EXCEPT ![c] = Idle]
    BY <1>6 DEF CommandCall, CommandFails
  <2>3. UNCHANGED <<now, daemonVars, run, watch, avail>>
    BY <1>6 DEF CommandCall, CommandFails
  <2>4. player' \in [Providers -> {"playing", "paused"}]
    BY <1>6 DEF CommandCall, CommandFails, ProcInv, ProcessesTypeOK
  <2>. HIDE DEF HandlerRecords
  <2>. QED
    BY <1>2, <2>1, <2>2, <2>3, <2>4
<1>. QED
  BY <1>3, <1>4, <1>5, <1>6 DEF HandlerStep

LEMMA WorldProc ==
  ASSUME ProcInv,
         \/ \E p \in Providers : PlayerUsed(p) \/ AvailabilityChanges(p)
         \/ Clock
         \/ Publish
         \/ Forward
         \/ UNCHANGED vars
  PROVE  ProcInv'
<1>1. now' \in now .. MaxTime
  BY DaemonBounds DEF ProcInv, PlayerUsed, AvailabilityChanges, Clock, Tick, Publish, FanOut,
     Forward, Receive
<1>2. ProcessesTypeOK'
  BY DEF ProcInv, ProcessesTypeOK, PlayerUsed, AvailabilityChanges, Clock, Publish, Forward
<1>3. CurrentAhead' /\ HandlersHaveProvider' /\ run' = run
  BY DEF ProcInv, CurrentAhead, HandlersHaveProvider, PlayerUsed, AvailabilityChanges, Clock,
         Publish, Forward
<1>. QED
  BY <1>1, <1>2, <1>3, OthersFrame

LEMMA ProcStep == ProcInv /\ [DaemonNext]_vars => ProcInv'
<1>. SUFFICES ASSUME ProcInv, [DaemonNext]_vars
              PROVE  ProcInv'
  OBVIOUS
<1>1. ASSUME NEW r \in Runs, RunStep(r)
      PROVE  ProcInv'
  BY <1>1, PollReadProc, PollStampProc, PollApplyProc, RunExitProc DEF RunStep
<1>2. CASE RunDaemon
  BY <1>2, StartProc DEF RunDaemon, Subscribe
<1>. QED
  BY <1>1, <1>2, WatchProc, RequestsProc, WorldProc DEF DaemonNext

-----------------------------------------------------------------------------
(* The daemon uses the state machine as its methods allow.                 *)

\* What the forwarder of Run has been told, or will be by its channel.
ForwarderInSync ==
  Started =>
    /\ subscribers = {0}
    /\ 0 \notin missed /\ ~StatePending =>
         \A st \in {chan[0][j].Body : j \in {j \in 1 .. Len(chan[0]) : IsState(chan[0][j])}}
                     \cup {seen[0]} :
           Told(0, Len(chan[0]), st) => Rendered(st) = Rendered(state)

\* Run subscribes the forwarder and nothing else does.
Subscribed == IF Started THEN subscribers = {0} ELSE nextSubID = 0 /\ subscribers = {}

LEMMA OnlyForwarderSubscribed == ProcInv /\ Subscribed /\ [DaemonNext]_vars => Subscribed'
<1>. SUFFICES ASSUME ProcInv, Subscribed, [DaemonNext]_vars PROVE Subscribed'
  OBVIOUS
<1>1. CASE RunDaemon
  <2>1. subscribers' = {0} /\ watch' = Waiting
    BY <1>1 DEF RunDaemon, Subscribe, Subscribed
  <2>. QED
    BY <2>1 DEF Subscribed, Started, Waiting
<1>2. CASE WatchStep
  <2>1. UNCHANGED <<subscribers, nextSubID>>
    BY <1>2 DEF WatchStep, WatchTick, WatchCheck, WatchStop, WatchSelect, WatchStart
  <2>2. watch.pc # "off" /\ watch'.pc # "off"
    BY <1>2 DEF WatchStep, WatchTick, WatchCheck, WatchStop, WatchSelect, WatchStart, Waiting,
       ProcInv, ProcessesTypeOK
  <2>. QED
    BY <2>1, <2>2 DEF Subscribed, Started
<1>3. ASSUME UNCHANGED <<watch, subscribers, nextSubID>> PROVE Subscribed'
  BY <1>3 DEF Subscribed, Started
<1>4. ASSUME NEW r \in Runs, RunStep(r) PROVE Subscribed'
  BY <1>3, <1>4 DEF RunStep, PollRead, PollStamp, PollApply, RunExit, Apply, Ignore
<1>5. ASSUME NEW p \in Providers, ProviderSet(p) \/ PlayerUsed(p) \/ AvailabilityChanges(p)
      PROVE  Subscribed'
  BY <1>3, <1>5 DEF ProviderSet, PlayerUsed, AvailabilityChanges
<1>6. ASSUME NEW c \in Clients, NEW cmd \in Commands, CommandStart(c, cmd) PROVE Subscribed'
  BY <1>3, <1>6 DEF CommandStart, MarkCommandIssued
<1>7. ASSUME NEW c \in Clients, HandlerStep(c) PROVE Subscribed'
  BY <1>3, <1>7 DEF HandlerStep, CommandDecide, CommandCall, CommandFails
<1>8. CASE Clock \/ Publish \/ Forward \/ UNCHANGED vars
  BY <1>3, <1>8 DEF Clock, Tick, Publish, FanOut, Forward, Receive
<1>. QED
  BY <1>1, <1>2, <1>4, <1>5, <1>6, <1>7, <1>8 DEF DaemonNext

\* Every behaviour of the daemon is a behaviour of the state machine with one
\* subscriber, the forwarder (daemon.go:88 to 90): from the moment Run has begun it
\* is in sync with the canonical state, whatever providers, clients and switches do.
THEOREM DaemonUsesMachine == DaemonSpec => Spec /\ []ForwarderInSync
<1>1. DaemonInit => ProcInv /\ Init
  BY ProcInit DEF DaemonInit
<1>2. ProcInv /\ [DaemonNext]_vars => [Next]_smVars
  <2>. SUFFICES ASSUME ProcInv, [DaemonNext]_vars
                PROVE  [Next]_smVars
    OBVIOUS
  <2>1. ASSUME NEW r \in Runs, RunStep(r)
        PROVE  [Next]_smVars
    <3>1. CASE PollApply(r)
      <4>1. run[r].obs \in Observations
        BY <3>1 DEF PollApply, ProcInv, ObservationsFromPast
      <4>2. SampledAt(r) \in 0 .. now
        BY DaemonBounds DEF SampledAt, ProcInv, ProcessesTypeOK, ObservationsFromPast
      <4>3. Apply(run[r].obs, SampledAt(r)) \/ Ignore(SampledAt(r))
        BY <3>1 DEF PollApply
      <4>. QED
        BY <4>1, <4>2, <4>3 DEF Next
    <3>. QED
      BY <2>1, <3>1 DEF RunStep, PollRead, PollStamp, RunExit
  <2>2. CASE WatchStep
    BY <2>2 DEF WatchStep, WatchTick, WatchCheck, WatchStop, WatchSelect, WatchStart
  <2>3. ASSUME NEW p \in Providers, ProviderSet(p) \/ PlayerUsed(p) \/ AvailabilityChanges(p)
        PROVE  [Next]_smVars
    BY <2>3 DEF ProviderSet, PlayerUsed, AvailabilityChanges
  <2>4. ASSUME NEW c \in Clients, NEW cmd \in Commands, CommandStart(c, cmd)
        PROVE  [Next]_smVars
    BY <2>4 DEF CommandStart, Next
  <2>5. ASSUME NEW c \in Clients, HandlerStep(c)
        PROVE  [Next]_smVars
    BY <2>5 DEF HandlerStep, CommandDecide, CommandCall, CommandFails
  <2>6. CASE Clock \/ Publish
    BY <2>6 DEF Clock, Publish, Next
  <2>7. CASE RunDaemon
    BY <2>7, DaemonBounds DEF RunDaemon, Next
  <2>8. CASE Forward
    BY <2>8, DaemonBounds DEF Forward, Next
  <2>9. CASE UNCHANGED vars
    BY <2>9
  <2>. QED
    BY <2>1, <2>2, <2>3, <2>4, <2>5, <2>6, <2>7, <2>8, <2>9 DEF DaemonNext
<1>3. DaemonSpec => Spec
  BY <1>1, <1>2, ProcStep, PTL DEF DaemonSpec, Spec
<1>4. DaemonInit => Subscribed
  BY DEF DaemonInit, Init, Subscribed, Started
<1>5. InSync /\ Subscribed => ForwarderInSync
  BY DEF InSync, Subscribed, ForwarderInSync
<1>. QED
  BY <1>1, <1>3, <1>4, <1>5, ProcStep, OnlyForwarderSubscribed, SubscribersInSync, PTL
     DEF DaemonSpec

\* Every variable of the daemon keeps its type: the watcher's walk stays inside
\* the list of providers, and only observations of the past are applied.
THEOREM DaemonTypeCorrect == DaemonSpec => []DaemonTypeOK
<1>1. DaemonInit => ProcInv
  BY ProcInit
<1>2. ProcInv /\ TypeOK => DaemonTypeOK
  BY DEF ProcInv, ObservationsFromPast, DaemonTypeOK
<1>. QED
  BY <1>1, <1>2, ProcStep, DaemonUsesMachine, TypeCorrect, PTL DEF DaemonSpec

-----------------------------------------------------------------------------
(***************************************************************************)
(* No leaked goroutine.  The property is inductive with one more fact:     *)
(* between stopping the old goroutine and starting the new one the watcher *)
(* has no cancel function, because nothing else ever sets one.             *)
(***************************************************************************)
LeakInv ==
  /\ NoLeakedGoroutine
  /\ watch.pc \in {"off", "select", "start"} => activeCancel = NoProc

\* At most one provider goroutine is running and not cancelled, and it is the
\* one the daemon can still stop (daemon.go:343 to 373).
THEOREM GoroutinesNotLeaked == DaemonSpec => []NoLeakedGoroutine
<1>1. DaemonInit => ProcInv /\ LeakInv
  <2>. SUFFICES ASSUME DaemonInit PROVE LeakInv
    BY ProcInit
  <2>1. \A r \in Runs : run[r].pc = "unused"
    BY DEF DaemonInit, NewRun, NoRun
  <2>2. activeCancel = NoProc
    BY DEF DaemonInit
  <2>. QED
    BY <2>1, <2>2 DEF LeakInv, NoLeakedGoroutine, Live
<1>2. ProcInv /\ LeakInv /\ [DaemonNext]_vars => LeakInv'
  <2>. SUFFICES ASSUME ProcInv, LeakInv, [DaemonNext]_vars
                PROVE  LeakInv'
    OBVIOUS
  <2>1. run \in [Runs -> RunRecords] /\ Runs \subseteq Nat
    BY DEF ProcInv, ProcessesTypeOK, RunRecords, Runs
  <2>2. ASSUME NEW r \in Runs, RunStep(r)
        PROVE  LeakInv'
    <3>1. /\ \A s \in Runs : Live(s)' => Live(s)
          /\ activeCancel' = activeCancel /\ watch' = watch
      <4>1. CASE PollApply(r)
        <5>1. /\ run[r].pc = "stamped"
              /\ \A s \in Runs : s # r => run'[s] = run[s]
              /\ run'[r].cancelled = run[r].cancelled
          BY <2>1, <4>1 DEF PollApply, NewRun
        <5>. QED
          BY <4>1, <5>1 DEF PollApply, Live
      <4>2. CASE PollRead(r) \/ PollStamp(r) \/ RunExit(r)
        BY <2>1, <4>2 DEF PollRead, PollStamp, RunExit, Live, RunRecords
      <4>. QED
        BY <2>2, <4>1, <4>2 DEF RunStep
    <3>. QED
      BY <3>1 DEF LeakInv, NoLeakedGoroutine
  <2>3. CASE WatchTick \/ WatchCheck \/ WatchSelect
    <3>1. run' = run /\ activeCancel' = activeCancel
      BY <2>3 DEF WatchTick, WatchCheck, WatchSelect
    <3>2. watch'.pc \in {"off", "select", "start"} => watch.pc \in {"off", "select", "start"}
      BY <2>3 DEF WatchTick, WatchCheck, WatchSelect, Waiting, ProcInv, ProcessesTypeOK
    <3>. QED
      BY <3>1, <3>2 DEF LeakInv, NoLeakedGoroutine, Live
  <2>4. CASE WatchStop
    <3>1. activeCancel' = NoProc
      BY <2>4 DEF WatchStop
    <3>2. \A s \in Runs : ~Live(s)'
      <4>1. CASE activeCancel = NoProc
        BY <2>1, <2>4, <4>1, DaemonBounds DEF WatchStop, LeakInv, NoLeakedGoroutine, Live
      <4>2. CASE activeCancel # NoProc
        <5>1. run' = [run EXCEPT ![activeCancel].cancelled = TRUE]
          BY <2>4, <4>2 DEF WatchStop
        <5>. QED
          BY <2>1, <5>1 DEF LeakInv, NoLeakedGoroutine, Live, RunRecords
      <4>. QED
        BY <4>1, <4>2
    <3>. QED
      BY <3>1, <3>2 DEF LeakInv, NoLeakedGoroutine
  <2>5. CASE WatchStart \/ RunDaemon
    <3>1. /\ StartActiveProvider
          /\ watch'.pc = "wait" /\ activeCancel = NoProc /\ \A s \in Runs : ~Live(s)
      <4>1. StartActiveProvider /\ watch'.pc = "wait" /\ watch.pc \in {"off", "start"}
        BY <2>5 DEF WatchStart, RunDaemon, Started, Waiting
      <4>2. NoProc \notin Runs
        BY DaemonBounds DEF Runs
      <4>. QED
        BY <4>1, <4>2 DEF LeakInv, NoLeakedGoroutine
    <3>2. CASE activeRunning
      BY <3>1, <3>2 DEF StartActiveProvider, LeakInv, NoLeakedGoroutine, Live
    <3>3. CASE ~activeRunning
      <4>1. PICK r \in Runs : run' = [run EXCEPT ![r] = NewRun(active)] /\ activeCancel' = r
        BY <3>1, <3>3 DEF StartActiveProvider
      <4>2. \A s \in Runs : s # r => ~Live(s)'
        BY <2>1, <3>1, <4>1 DEF Live
      <4>. QED
        BY <3>1, <4>1, <4>2 DEF LeakInv, NoLeakedGoroutine
    <3>. QED
      BY <3>2, <3>3
  <2>6. ASSUME run' = run, activeCancel' = activeCancel, watch' = watch
        PROVE  LeakInv'
    BY <2>6 DEF LeakInv, NoLeakedGoroutine, Live
  <2>7. ASSUME NEW p \in Providers, ProviderSet(p) \/ PlayerUsed(p) \/ AvailabilityChanges(p)
        PROVE  LeakInv'
    BY <2>6, <2>7 DEF ProviderSet, PlayerUsed, AvailabilityChanges
  <2>8. ASSUME NEW c \in Clients, NEW cmd \in Commands, CommandStart(c, cmd)
        PROVE  LeakInv'
    BY <2>6, <2>8 DEF CommandStart
  <2>9. ASSUME NEW c \in Clients, HandlerStep(c)
        PROVE  LeakInv'
    BY <2>6, <2>9 DEF HandlerStep, CommandDecide, CommandCall, CommandFails
  <2>10. CASE Clock \/ Publish \/ Forward \/ UNCHANGED vars
    BY <2>6, <2>10 DEF Clock, Publish, Forward
  <2>. QED
    BY <2>2, <2>3, <2>4, <2>5, <2>7, <2>8, <2>9, <2>10 DEF DaemonNext, WatchStep
<1>3. LeakInv => NoLeakedGoroutine
  BY DEF LeakInv
<1>. QED
  BY <1>1, <1>2, <1>3, ProcStep, PTL DEF DaemonSpec

-----------------------------------------------------------------------------
(***************************************************************************)
(* Promotions are followed.  As long as nothing was forced, active only    *)
(* moves towards better providers.  A cancelled goroutine that has not     *)
(* ended yet is therefore one of a worse provider, and cannot mistake the  *)
(* flag activeRunning for its own, except between the watcher's stop and   *)
(* its assignment of d.active, when the flag is already clear.             *)
(***************************************************************************)
\* p has a place before all those of q.
Better(p, q) ==
  \E i \in 1 .. Len(Priority) : Priority[i] = p /\ \A j \in 1 .. i : Priority[j] # q

Following ==
  /\ watch.pc \in {"wait", "check", "stop"} =>
       /\ activeRunning
       /\ activeCancel \in Runs
       /\ Live(activeCancel)
       /\ run[activeCancel].prov = active
  /\ watch.pc \in {"off", "select", "start"} => ~activeRunning
  /\ watch.pc \in {"check", "stop", "select"} => watch.current = active
  /\ watch.pc = "check" => \A j \in 1 .. watch.i - 1 : Priority[j] # watch.current
  /\ watch.pc \in {"stop", "select"} => Better(Priority[watch.i], watch.current)
  /\ \A r \in Runs : run[r].cancelled =>
       /\ run[r].prov \in Providers
       /\ \/ Better(active, run[r].prov)
          \/ watch.pc = "select" /\ run[r].prov = active

FollowInv == forced = NoProc => Following

LEMMA BetterIsStrict ==
  /\ \A p \in Providers : ~Better(p, p)
  /\ \A p, q, s \in Providers : Better(p, q) /\ Better(q, s) => Better(p, s)
<1>. DEFINE n == Len(Priority)
<1>. n \in Nat
  BY DaemonBounds
<1>. HIDE DEF n
<1>1. ASSUME NEW p \in Providers, NEW i \in 1 .. n, Priority[i] = p,
             \A j \in 1 .. i : Priority[j] # p
      PROVE  FALSE
  <2>1. i \in 1 .. i
    OBVIOUS
  <2>. QED
    BY <1>1, <2>1
<1>2. ASSUME NEW p \in Providers, NEW q \in Providers, NEW s \in Providers,
             Better(p, q), Better(q, s)
      PROVE  Better(p, s)
  <2>1. PICK i \in 1 .. n : Priority[i] = p /\ \A j \in 1 .. i : Priority[j] # q
    BY <1>2 DEF Better, n
  <2>2. PICK k \in 1 .. n : Priority[k] = q /\ \A j \in 1 .. k : Priority[j] # s
    BY <1>2 DEF Better, n
  <2>3. i < k
    <3>1. k \notin 1 .. i
      BY <2>1, <2>2
    <3>. QED
      BY <3>1
  <2>4. \A j \in 1 .. i : j \in 1 .. k
    BY <2>3
  <2>. QED
    BY <2>1, <2>2, <2>4 DEF Better, n
<1>. QED
  BY <1>1, <1>2 DEF Better, n

\* A step of a goroutine: only a cancelled one ends.
LEMMA FollowRun ==
  ASSUME ProcInv, Following, NEW r \in Runs, RunStep(r)
  PROVE  Following'
<1>1. /\ run \in [Runs -> RunRecords]
      /\ active \in Providers
      /\ run[r].prov \in Providers
  BY DEF ProcInv, ProcessesTypeOK, RunRecords, RunsHaveProvider, RunStep, PollRead, PollStamp,
         PollApply, RunExit
<1>2. /\ watch' = watch /\ active' = active /\ activeCancel' = activeCancel
      /\ \A s \in Runs : run'[s].cancelled = run[s].cancelled /\ run'[s].prov = run[s].prov
      /\ \A s \in Runs : Live(s) => Live(s)'
  <2>1. CASE PollApply(r)
    <3>1. /\ run[r].pc = "stamped"
          /\ \A s \in Runs : s # r => run'[s] = run[s]
          /\ run'[r].cancelled = run[r].cancelled
          /\ run'[r].prov = run[r].prov
          /\ run'[r].pc = "wait"
      BY <1>1, <2>1 DEF PollApply, NewRun
    <3>2. \A t \in Runs : run'[t].cancelled = run[t].cancelled /\ run'[t].prov = run[t].prov
      BY <3>1
    <3>3. \A t \in Runs : Live(t) => Live(t)'
      BY <3>1 DEF Live
    <3>. QED
      BY <2>1, <3>2, <3>3 DEF PollApply
  <2>2. CASE PollRead(r) \/ PollStamp(r)
    BY <1>1, <2>2 DEF PollRead, PollStamp, Live, RunRecords
  <2>3. CASE RunExit(r)
    BY <1>1, <2>3 DEF RunExit, Live, RunRecords
  <2>. QED
    BY <2>1, <2>2, <2>3 DEF RunStep
<1>3. \/ activeRunning' = activeRunning
      \/ activeRunning' = FALSE /\ watch.pc \in {"off", "select", "start"}
  <2>1. CASE RunExit(r)
    <3>1. run[r].cancelled /\ activeRunning' = (activeRunning /\ active # run[r].prov)
      BY <2>1 DEF RunExit
    <3>2. CASE Better(active, run[r].prov)
      <4>1. active # run[r].prov
        BY <1>1, <3>2, BetterIsStrict
      <4>2. activeRunning \in BOOLEAN
        BY DEF ProcInv, ProcessesTypeOK
      <4>3. CASE activeRunning
        BY <3>1, <4>1, <4>3
      <4>4. CASE ~activeRunning
        BY <3>1, <4>2, <4>4
      <4>. QED
        BY <4>3, <4>4
    <3>3. CASE watch.pc = "select"
      <4>1. ~activeRunning
        BY <3>3 DEF Following
      <4>. QED
        BY <3>1, <3>3, <4>1
    <3>4. Better(active, run[r].prov) \/ watch.pc = "select"
      BY <3>1, Zenon DEF Following
    <3>. QED
      BY <3>2, <3>3, <3>4
  <2>2. CASE PollRead(r) \/ PollStamp(r) \/ PollApply(r)
    BY <2>2 DEF PollRead, PollStamp, PollApply
  <2>. QED
    BY <2>1, <2>2 DEF RunStep
<1>. QED
  BY <1>2, <1>3 DEF Following, Better

\* Starting the active provider, by Run or by the watcher.
LEMMA FollowStart ==
  ASSUME ProcInv, Following, StartActiveProvider, watch.pc \in {"off", "start"}, watch' = Waiting
  PROVE  Following'
<1>1. run \in [Runs -> RunRecords]
  BY DEF ProcInv, ProcessesTypeOK, RunRecords
<1>2. watch'.pc = "wait" /\ ~activeRunning
  BY DEF Waiting, Following
<1>3. PICK r \in Runs : /\ run[r].pc = "unused"
                        /\ run' = [run EXCEPT ![r] = NewRun(active)]
                        /\ activeCancel' = r /\ activeRunning' = TRUE /\ active' = active
  BY <1>2 DEF StartActiveProvider
<1>4. /\ run'[r].pc = "wait" /\ run'[r].prov = active /\ run'[r].cancelled = FALSE
      /\ \A s \in Runs : s # r => run'[s] = run[s]
  BY <1>1, <1>3 DEF NewRun
<1>5. Live(r)'
  BY <1>4 DEF Live
<1>6. \A s \in Runs : run'[s].cancelled =>
        run'[s].prov \in Providers /\ Better(active, run'[s].prov)
  BY <1>4 DEF Following
<1>. QED
  BY <1>2, <1>3, <1>4, <1>5, <1>6 DEF Following, Better

LEMMA FollowWatch ==
  ASSUME ProcInv, Following, WatchStep
  PROVE  Following'
<1>1. /\ watch \in [pc : {"off", "wait", "check", "stop", "select", "start"}, current : Providers,
                    i : 1 .. Len(Priority)]
      /\ run \in [Runs -> RunRecords]
      /\ active \in Providers
      /\ activeCancel \in Runs \cup {NoProc} /\ NoProc \notin Runs
      /\ Len(Priority) \in Nat
      /\ \A i \in 1 .. Len(Priority) : Priority[i] \in Providers
  <2>1. NoProc \notin Runs /\ Len(Priority) \in Nat
    BY DaemonBounds DEF Runs
  <2>2. \A i \in 1 .. Len(Priority) : Priority[i] \in Providers
    BY DaemonBounds
  <2>. QED
    BY <2>1, <2>2 DEF ProcInv, ProcessesTypeOK, RunRecords
<1>2. CASE WatchTick
  <2>1. watch' = [pc |-> "check", current |-> active, i |-> 1] /\ watch.pc = "wait"
    BY <1>2 DEF WatchTick
  <2>2. UNCHANGED <<active, activeCancel, activeRunning, run>>
    BY <1>2 DEF WatchTick
  <2>. QED
    BY <2>1, <2>2 DEF Following, Live, Better
<1>3. CASE WatchCheck
  <2>1. UNCHANGED <<active, activeCancel, activeRunning, run>> /\ watch.pc = "check"
    BY <1>3 DEF WatchCheck
  <2>2. \A r \in Runs : run[r].cancelled =>
          run[r].prov \in Providers /\ Better(active, run[r].prov)
    BY <2>1 DEF Following
  <2>3. CASE watch' = Waiting
    BY <1>1, <2>1, <2>2, <2>3 DEF Waiting, Following, Live, Better
  <2>4. CASE watch' = [watch EXCEPT !.pc = "stop"] /\ Priority[watch.i] # watch.current
    <3>1. \A j \in 1 .. watch.i : Priority[j] # watch.current
      BY <1>1, <2>1, <2>4 DEF Following
    <3>2. Better(Priority[watch.i], watch.current)
      BY <1>1, <3>1 DEF Better
    <3>. QED
      BY <1>1, <2>1, <2>2, <2>4, <3>2 DEF Following, Live, Better
  <2>5. CASE watch' = [watch EXCEPT !.i = @ + 1] /\ Priority[watch.i] # watch.current
    <3>1. \A j \in 1 .. watch'.i - 1 : Priority[j] # watch'.current
      BY <1>1, <2>1, <2>5 DEF Following
    <3>. QED
      BY <1>1, <2>1, <2>2, <2>5, <3>1 DEF Following, Live, Better
  <2>. QED
    BY <1>3, <2>3, <2>4, <2>5 DEF WatchCheck
<1>4. CASE WatchStop
  <2>1. watch.pc = "stop" /\ watch' = [watch EXCEPT !.pc = "select"]
    BY <1>4 DEF WatchStop
  <2>2. activeCancel \in Runs /\ activeCancel # NoProc /\ run[activeCancel].prov = active
    BY <1>1, <2>1 DEF Following
  <2>3. /\ run' = [run EXCEPT ![activeCancel].cancelled = TRUE]
        /\ activeRunning' = FALSE /\ active' = active
    BY <1>4, <2>2 DEF WatchStop
  <2>4. \A r \in Runs : run'[r].cancelled =>
          /\ run'[r].prov \in Providers
          /\ Better(active, run'[r].prov) \/ run'[r].prov = active
    BY <1>1, <2>1, <2>2, <2>3 DEF Following, RunRecords
  <2>. QED
    BY <1>1, <2>1, <2>3, <2>4 DEF Following, Better
<1>5. CASE WatchSelect
  <2>1. /\ watch.pc = "select" /\ watch' = [watch EXCEPT !.pc = "start"]
        /\ active' = Priority[watch.i] /\ UNCHANGED <<activeCancel, activeRunning, run>>
    BY <1>5 DEF WatchSelect
  <2>2. Better(active', active) /\ ~activeRunning
    BY <2>1 DEF Following
  <2>3. ASSUME NEW r \in Runs, run[r].cancelled
        PROVE  run[r].prov \in Providers /\ Better(active', run[r].prov)
    <3>1. CASE run[r].prov = active
      BY <1>1, <2>2, <3>1
    <3>2. CASE Better(active, run[r].prov)
      <4>1. run[r].prov \in Providers
        BY <2>3 DEF Following
      <4>2. active' \in Providers
        BY <1>1, <2>1
      <4>. QED
        BY <1>1, <2>2, <3>2, <4>1, <4>2, BetterIsStrict
    <3>3. Better(active, run[r].prov) \/ run[r].prov = active
      BY <2>3, Zenon DEF Following
    <3>. QED
      BY <3>1, <3>2, <3>3
  <2>. QED
    BY <1>1, <2>1, <2>2, <2>3 DEF Following, Better
<1>6. CASE WatchStart
  BY <1>6, FollowStart DEF WatchStart
<1>. QED
  BY <1>2, <1>3, <1>4, <1>5, <1>6 DEF WatchStep

\* As long as nothing was forced, the running goroutine is the active provider's
\* whenever the watcher waits (daemon.go:375 to 405).
THEOREM PromotionsFollowed == DaemonSpec => []PromotionFollowed
<1>1. DaemonInit => FollowInv
  BY DEF DaemonInit, NoRun, NewRun, Waiting, FollowInv, Following
<1>2. ProcInv /\ FollowInv /\ [DaemonNext]_vars => FollowInv'
  <2>. SUFFICES ASSUME ProcInv, FollowInv, [DaemonNext]_vars, forced' = NoProc
                PROVE  Following'
    BY DEF FollowInv
  <2>1. CASE \E p \in Providers : ProviderSet(p)
    <3>1. forced' \in Providers
      BY <2>1 DEF ProviderSet
    <3>. QED
      BY <3>1, DaemonBounds
  <2>2. ASSUME NEW r \in Runs, RunStep(r)
        PROVE  Following'
    <3>1. forced' = forced
      BY <2>2 DEF RunStep, PollRead, PollStamp, PollApply, RunExit
    <3>. QED
      BY <2>2, <3>1, FollowRun DEF FollowInv
  <2>3. CASE WatchStep
    <3>1. forced' = forced
      BY <2>3 DEF WatchStep, WatchTick, WatchCheck, WatchStop, WatchSelect, WatchStart
    <3>. QED
      BY <2>3, <3>1, FollowWatch DEF FollowInv
  <2>4. ASSUME UNCHANGED <<active, activeCancel, activeRunning, run, watch, forced>>
        PROVE  Following'
    BY <2>4 DEF FollowInv, Following, Live, Better
  <2>5. ASSUME NEW c \in Clients, NEW cmd \in Commands, CommandStart(c, cmd)
        PROVE  Following'
    BY <2>4, <2>5 DEF CommandStart
  <2>6. ASSUME NEW c \in Clients, HandlerStep(c)
        PROVE  Following'
    BY <2>4, <2>6 DEF HandlerStep, CommandDecide, CommandCall, CommandFails
  <2>7. ASSUME NEW p \in Providers, PlayerUsed(p) \/ AvailabilityChanges(p)
        PROVE  Following'
    BY <2>4, <2>7 DEF PlayerUsed, AvailabilityChanges
  <2>8. CASE Clock \/ Publish \/ Forward \/ UNCHANGED vars
    BY <2>4, <2>8 DEF Clock, Publish, Forward
  <2>9. CASE RunDaemon
    BY <2>9, FollowStart DEF RunDaemon, Started, FollowInv
  <2>. QED
    BY <2>1, <2>2, <2>3, <2>5, <2>6, <2>7, <2>8, <2>9 DEF DaemonNext
<1>3. FollowInv /\ NoLeakedGoroutine => PromotionFollowed
  BY DEF FollowInv, Following, PromotionFollowed, OnlyActiveFeeds, NoLeakedGoroutine
<1>. QED
  BY <1>1, <1>2, <1>3, ProcInit, ProcStep, GoroutinesNotLeaked, PTL DEF DaemonSpec

-----------------------------------------------------------------------------
(***************************************************************************)
(* No bounce, if two calls to a player fit in the debounce window.  A      *)
(* command is carried out Latency after it was marked at the latest, so    *)
(* an observation that was read before is from Latency after the mark at   *)
(* the latest, and it is applied, or ignored, another Latency later.       *)
(***************************************************************************)
Reading(r) == run[r].pc \in {"read", "stamped"}

CallsInTime ==
  \A c \in Clients : handler[c].pc # "idle" =>
    handler[c].at <= lastCmdAt /\ now <= handler[c].at + Latency

ReadsInTime ==
  \A r \in Runs : Reading(r) => run[r].at <= now /\ now <= run[r].at + Latency

OutdatedInTime ==
  \A r \in outdated :
    Reading(r) /\ lastCmdAt >= 0 /\ run[r].at <= lastCmdAt + Latency

TimeInv ==
  /\ lastCmdAt \in {Never} \cup 0 .. now
  /\ outdated \subseteq Runs
  /\ CallsInTime /\ ReadsInTime /\ OutdatedInTime

LEMMA TimeTypes ==
  ASSUME ProcInv
  PROVE  /\ now \in Nat /\ Latency \in Nat
         /\ \A r \in Runs : run[r].at \in Nat
         /\ \A c \in Clients : handler[c].at \in Nat
<1>1. now \in 0 .. MaxTime /\ MaxTime \in Nat /\ Latency \in Nat
  BY DaemonAssumption, ConstantsAssumption DEF ProcInv, DaemonAssumption, ConstantsAssumption
<1>2. ASSUME NEW r \in Runs PROVE run[r].at \in Nat
  BY <1>1 DEF ProcInv, ProcessesTypeOK
<1>3. ASSUME NEW c \in Clients PROVE handler[c].at \in Nat
  BY <1>1 DEF ProcInv, ProcessesTypeOK
<1>. QED
  BY <1>1, <1>2, <1>3

\* Steps that start no read and no call and leave the time alone.
LEMMA TimeFrame ==
  ASSUME ProcInv, TimeInv,
         UNCHANGED <<now, lastCmdAt, handler>>, outdated' \subseteq outdated,
         \A r \in Runs : Reading(r)' => Reading(r) /\ run'[r].at = run[r].at,
         \A r \in outdated' : Reading(r)'
  PROVE  TimeInv'
BY DEF TimeInv, CallsInTime, ReadsInTime, OutdatedInTime

LEMMA RunTime ==
  ASSUME ProcInv, TimeInv, NEW r \in Runs, RunStep(r)
  PROVE  TimeInv'
<1>1. run \in [Runs -> RunRecords] /\ run[r] \in RunRecords
  BY DEF ProcInv, ProcessesTypeOK, RunRecords
<1>2. CASE PollRead(r)
  <2>1. /\ \A s \in Runs \ {r} : run'[s] = run[s]
        /\ run'[r].at = now /\ ~Reading(r)
        /\ UNCHANGED <<now, lastCmdAt, handler, outdated>>
    BY <1>1, <1>2 DEF PollRead, Reading, RunRecords
  <2>2. lastCmdAt' \in {Never} \cup 0 .. now' /\ outdated' \subseteq Runs /\ CallsInTime'
    BY <2>1 DEF TimeInv, CallsInTime
  <2>3. ReadsInTime'
    BY <2>1, TimeTypes DEF TimeInv, ReadsInTime, Reading
  <2>4. OutdatedInTime'
    BY <2>1 DEF TimeInv, OutdatedInTime, Reading
  <2>. QED
    BY <2>2, <2>3, <2>4 DEF TimeInv
<1>3. CASE PollStamp(r)
  <2>1. UNCHANGED <<now, lastCmdAt, handler, outdated>>
    BY <1>3 DEF PollStamp
  <2>2. run[r].pc = "read" /\ run' = [run EXCEPT ![r].pc = "stamped", ![r].sampled = now]
    BY <1>3 DEF PollStamp
  <2>3. \A s \in Runs : Reading(s)' => Reading(s) /\ run'[s].at = run[s].at
    BY <1>1, <2>2 DEF Reading, RunRecords
  <2>4. \A s \in outdated : Reading(s)'
    BY <1>1, <2>2 DEF TimeInv, OutdatedInTime, Reading, RunRecords
  <2>. QED
    BY <2>1, <2>3, <2>4, TimeFrame
<1>4. CASE PollApply(r)
  <2>1. UNCHANGED <<now, lastCmdAt, handler>> /\ outdated' = outdated \ {r}
    BY <1>4 DEF PollApply, Apply, Ignore
  <2>2. run' = [run EXCEPT ![r] = [NewRun(run[r].prov) EXCEPT !.cancelled = run[r].cancelled]]
    BY <1>4 DEF PollApply
  <2>3. [NewRun(run[r].prov) EXCEPT !.cancelled = run[r].cancelled].pc = "wait"
    BY DEF NewRun
  <2>4. \A s \in Runs : Reading(s)' => Reading(s) /\ run'[s].at = run[s].at
    BY <1>1, <2>2, <2>3 DEF Reading
  <2>5. \A s \in outdated \ {r} : Reading(s)'
    BY <1>1, <2>2 DEF TimeInv, OutdatedInTime, Reading
  <2>. QED
    BY <2>1, <2>4, <2>5, TimeFrame
<1>5. CASE RunExit(r)
  <2>1. UNCHANGED <<now, lastCmdAt, handler, outdated>> /\ run' = [run EXCEPT ![r].pc = "exited"]
    BY <1>5 DEF RunExit
  <2>2. \A s \in Runs : Reading(s)' => Reading(s) /\ run'[s].at = run[s].at
    BY <1>1, <2>1 DEF Reading, RunRecords
  <2>3. \A s \in outdated : Reading(s)'
    BY <1>1, <1>5, <2>1 DEF RunExit, TimeInv, OutdatedInTime, Reading
  <2>. QED
    BY <2>1, <2>2, <2>3, TimeFrame
<1>. QED
  BY <1>2, <1>3, <1>4, <1>5 DEF RunStep

\* Starting the active provider, by Run or by the watcher.
LEMMA BeginTime ==
  ASSUME ProcInv, TimeInv, StartActiveProvider, UNCHANGED <<now, lastCmdAt, handler, outdated>>
  PROVE  TimeInv'
<1>1. run \in [Runs -> RunRecords]
  BY DEF ProcInv, ProcessesTypeOK, RunRecords
<1>2. CASE UNCHANGED run
  BY <1>2, TimeFrame DEF TimeInv, OutdatedInTime, Reading
<1>3. CASE \E r \in Runs : run[r].pc = "unused" /\ run' = [run EXCEPT ![r] = NewRun(active)]
  <2>1. PICK r \in Runs : run[r].pc = "unused" /\ run' = [run EXCEPT ![r] = NewRun(active)]
    BY <1>3
  <2>2. NewRun(active).pc = "wait"
    BY DEF NewRun
  <2>3. \A s \in Runs : Reading(s)' => Reading(s) /\ run'[s].at = run[s].at
    BY <1>1, <2>1, <2>2 DEF Reading
  <2>4. \A s \in outdated : Reading(s)'
    BY <1>1, <2>1 DEF TimeInv, OutdatedInTime, Reading
  <2>. QED
    BY <2>3, <2>4, TimeFrame
<1>. QED
  BY <1>2, <1>3 DEF StartActiveProvider

LEMMA WatchTime == ASSUME ProcInv, TimeInv, WatchStep PROVE TimeInv'
<1>1. UNCHANGED <<now, lastCmdAt, handler, outdated>>
  BY DEF WatchStep, WatchTick, WatchCheck, WatchStop, WatchSelect, WatchStart
<1>2. run \in [Runs -> RunRecords]
  BY DEF ProcInv, ProcessesTypeOK, RunRecords
<1>3. CASE WatchStart
  BY <1>1, <1>3, BeginTime DEF WatchStart
<1>4. CASE WatchStop
  <2>1. UNCHANGED run \/ run' = [run EXCEPT ![activeCancel].cancelled = TRUE]
    BY <1>4 DEF WatchStop
  <2>2. \A s \in Runs : run'[s].pc = run[s].pc /\ run'[s].at = run[s].at
    BY <1>2, <2>1 DEF RunRecords
  <2>. QED
    BY <1>1, <2>2, TimeFrame DEF TimeInv, OutdatedInTime, Reading
<1>5. CASE UNCHANGED run
  BY <1>1, <1>5, TimeFrame DEF TimeInv, OutdatedInTime, Reading
<1>. QED
  BY <1>3, <1>4, <1>5 DEF WatchStep, WatchTick, WatchCheck, WatchSelect

LEMMA StartTime ==
  ASSUME ProcInv, TimeInv, NEW c \in Clients, NEW cmd \in Commands, CommandStart(c, cmd)
  PROVE  TimeInv'
<1>1. /\ lastCmdAt' = now /\ UNCHANGED <<now, run, outdated>>
      /\ \A d \in Clients \ {c} : handler'[d] = handler[d]
  BY DEF CommandStart, MarkCommandIssued, ProcInv, ProcessesTypeOK
<1>2. handler'[c].at = now
  BY DEF CommandStart, ProcInv, ProcessesTypeOK
<1>3. now \in Nat /\ Latency \in Nat /\ lastCmdAt <= now
  BY TimeTypes DEF TimeInv, Never
<1>4. CallsInTime'
  <2>. SUFFICES ASSUME NEW d \in Clients, handler'[d].pc # "idle"
                PROVE  handler'[d].at <= lastCmdAt' /\ now' <= handler'[d].at + Latency
    BY DEF CallsInTime
  <2>1. CASE d = c
    BY <1>1, <1>2, <1>3, <2>1
  <2>2. CASE d # c
    <3>1. handler[d].at <= lastCmdAt /\ now <= handler[d].at + Latency /\ handler[d].at \in Nat
      BY <1>1, <2>2, TimeTypes DEF TimeInv, CallsInTime
    <3>2. handler[d].at <= now
      BY <1>3, <3>1 DEF TimeInv, Never
    <3>. QED
      BY <1>1, <2>2, <3>1, <3>2
  <2>. QED
    BY <2>1, <2>2
<1>5. ReadsInTime'
  BY <1>1 DEF TimeInv, ReadsInTime, Reading
<1>6. OutdatedInTime'
  <2>. SUFFICES ASSUME NEW r \in outdated
                PROVE  Reading(r) /\ lastCmdAt' >= 0 /\ run[r].at <= lastCmdAt' + Latency
    BY <1>1 DEF OutdatedInTime, Reading
  <2>1. Reading(r) /\ run[r].at <= now /\ run[r].at \in Nat
    BY TimeTypes DEF TimeInv, OutdatedInTime, ReadsInTime
  <2>. QED
    BY <1>1, <1>3, <2>1
<1>. QED
  BY <1>1, <1>3, <1>4, <1>5, <1>6 DEF TimeInv

LEMMA HandlerTime ==
  ASSUME ProcInv, TimeInv, NEW c \in Clients, HandlerStep(c)
  PROVE  TimeInv'
<1>1. UNCHANGED <<now, lastCmdAt, run>>
  BY DEF HandlerStep, CommandDecide, CommandCall, CommandFails
<1>2. /\ handler[c].pc # "idle"
      /\ \A d \in Clients : handler'[d].pc # "idle" =>
           handler[d].pc # "idle" /\ handler'[d].at = handler[d].at
  <2>1. handler[c].pc # "idle"
    BY DEF HandlerStep, CommandDecide, CommandCall, CommandFails
  <2>2. CASE CommandDecide(c)
    BY <2>1, <2>2 DEF CommandDecide, ProcInv, ProcessesTypeOK
  <2>3. CASE CommandCall(c) \/ CommandFails(c)
    <3>1. handler' = [handler EXCEPT ![c] = Idle] /\ Idle.pc = "idle"
      BY <2>3 DEF CommandCall, CommandFails, Idle
    <3>. QED
      BY <2>1, <3>1 DEF ProcInv, ProcessesTypeOK
  <2>. QED
    BY <2>1, <2>2, <2>3 DEF HandlerStep
<1>3. CallsInTime'
  BY <1>1, <1>2 DEF TimeInv, CallsInTime
<1>4. ReadsInTime'
  BY <1>1 DEF TimeInv, ReadsInTime, Reading
<1>5. outdated' \subseteq {r \in Runs : Reading(r)}
  BY DEF HandlerStep, CommandDecide, CommandCall, CommandFails, TimeInv, OutdatedInTime, Reading
\* What is outdated now was read by now, and the command was marked Latency ago at most.
<1>6. OutdatedInTime'
  <2>. SUFFICES ASSUME NEW r \in Runs, Reading(r)
                PROVE  lastCmdAt >= 0 /\ run[r].at <= lastCmdAt + Latency
    BY <1>1, <1>5 DEF OutdatedInTime, Reading
  <2>1. run[r].at <= now /\ run[r].at \in Nat /\ now \in Nat /\ Latency \in Nat
    BY TimeTypes DEF TimeInv, ReadsInTime
  <2>2. handler[c].at <= lastCmdAt /\ now <= handler[c].at + Latency /\ handler[c].at \in Nat
    BY <1>2, TimeTypes DEF TimeInv, CallsInTime
  <2>3. lastCmdAt \in Int
    BY <2>1 DEF TimeInv, Never
  <2>. QED
    BY <2>1, <2>2, <2>3
<1>. QED
  BY <1>1, <1>3, <1>4, <1>5, <1>6 DEF TimeInv

LEMMA ClockTime == ASSUME ProcInv, TimeInv, Clock PROVE TimeInv'
<1>1. now' = now + 1 /\ UNCHANGED <<lastCmdAt, run, handler, outdated>> /\ now \in Nat
  BY TimeTypes DEF Clock, Tick
<1>2. CallsInTime'
  <2>. SUFFICES ASSUME NEW c \in Clients, handler[c].pc # "idle"
                PROVE  handler[c].at <= lastCmdAt /\ now + 1 <= handler[c].at + Latency
    BY <1>1 DEF CallsInTime
  <2>1. now < handler[c].at + LatencyOf(handler[c].prov) /\ handler[c].at <= lastCmdAt
    BY DEF Clock, TimeInv, CallsInTime
  <2>. QED
    BY <2>1, TimeTypes, LatencyBounds
<1>3. ReadsInTime'
  <2>. SUFFICES ASSUME NEW r \in Runs, Reading(r)
                PROVE  run[r].at <= now + 1 /\ now + 1 <= run[r].at + Latency
    BY <1>1 DEF ReadsInTime, Reading
  <2>1. now < run[r].at + LatencyOf(run[r].prov) /\ run[r].at <= now
    BY DEF Clock, TimeInv, ReadsInTime, Reading
  <2>. QED
    BY <2>1, TimeTypes, LatencyBounds
<1>4. OutdatedInTime'
  BY <1>1 DEF TimeInv, OutdatedInTime, Reading
<1>. QED
  BY <1>1, <1>2, <1>3, <1>4 DEF TimeInv

LEMMA TimeStep == ProcInv /\ TimeInv /\ [DaemonNext]_vars => TimeInv'
<1>. SUFFICES ASSUME ProcInv, TimeInv, [DaemonNext]_vars PROVE TimeInv'
  OBVIOUS
<1>1. ASSUME NEW p \in Providers, ProviderSet(p) \/ PlayerUsed(p) \/ AvailabilityChanges(p)
      PROVE  UNCHANGED <<now, lastCmdAt, handler, outdated, run>>
  BY <1>1 DEF ProviderSet, PlayerUsed, AvailabilityChanges
<1>2. Publish \/ Forward \/ UNCHANGED vars
      => UNCHANGED <<now, lastCmdAt, handler, outdated, run>>
  BY DEF Publish, FanOut, Forward, Receive
<1>3. UNCHANGED <<now, lastCmdAt, handler, outdated, run>> => TimeInv'
  BY TimeFrame DEF TimeInv, OutdatedInTime, Reading
<1>4. RunDaemon => TimeInv'
  BY BeginTime DEF RunDaemon, Subscribe
<1>. QED
  BY <1>1, <1>2, <1>3, <1>4, RunTime, WatchTime, StartTime, HandlerTime, ClockTime DEF DaemonNext

\* While a goroutine holds an outdated status, the window is open.
LEMMA OutdatedIgnored ==
  ASSUME ProcInv, TimeInv, 2 * Latency < Debounce, NEW r \in outdated, NEW sampled
  PROVE  Ignored(sampled)
<1>1. /\ r \in Runs /\ now <= run[r].at + Latency /\ lastCmdAt >= 0
      /\ run[r].at <= lastCmdAt + Latency
  BY DEF TimeInv, ReadsInTime, OutdatedInTime
<1>2. now \in Nat /\ Latency \in Nat /\ run[r].at \in Nat /\ lastCmdAt \in Int /\ Debounce \in Nat
  <2>1. now \in Nat /\ Latency \in Nat /\ run[r].at \in Nat
    BY <1>1, TimeTypes
  <2>2. lastCmdAt \in Int
    BY <2>1 DEF TimeInv, Never
  <2>3. Debounce \in Nat
    BY ConstantsAssumption DEF ConstantsAssumption
  <2>. QED
    BY <2>1, <2>2, <2>3
<1>3. now - lastCmdAt < Debounce /\ lastCmdAt # Never
  BY <1>1, <1>2 DEF Never
<1>. QED
  BY <1>3 DEF Ignored

LEMMA OnlyApplyEnds ==
  ASSUME ProcInv, [DaemonNext]_vars, NEW r \in Runs,
         run[r].pc = "stamped", run'[r].pc = "wait"
  PROVE  PollApply(r)
<1>1. run \in [Runs -> RunRecords]
  BY DEF ProcInv, ProcessesTypeOK, RunRecords
<1>2. run'[r] # run[r]
  OBVIOUS
<1>3. ASSUME NEW s \in Runs, RunStep(s) PROVE PollApply(r)
  <2>1. s = r
    BY <1>1, <1>2, <1>3 DEF RunStep, PollRead, PollStamp, PollApply, RunExit
  <2>. QED
    BY <1>3, <2>1 DEF RunStep, PollRead, PollStamp, RunExit
<1>4. ~WatchStep
  <2>1. ~WatchStop
    BY <1>1 DEF WatchStop, RunRecords
  <2>2. ~WatchStart
    BY <1>1, <1>2 DEF WatchStart, StartActiveProvider
  <2>. QED
    BY <1>2, <2>1, <2>2 DEF WatchStep, WatchTick, WatchCheck, WatchSelect
<1>5. run' = run \/ (\E s \in Runs : RunStep(s)) \/ WatchStep \/ RunDaemon
  BY DEF DaemonNext, ProviderSet, CommandStart, HandlerStep, CommandDecide, CommandCall,
         CommandFails, PlayerUsed, AvailabilityChanges, Clock, Publish, Forward
<1>6. ~RunDaemon
  BY <1>1, <1>2 DEF RunDaemon, StartActiveProvider
<1>. QED
  BY <1>2, <1>3, <1>4, <1>5, <1>6

\* No bounce (state.go:80, design.md:333): if two calls to a player take less than the
\* debounce window, an observation that was read before a command took effect is
\* never applied after it, for any number of providers, clients, commands and
\* switches.  MCDaemonSlow shows what happens when they take longer.
THEOREM NothingBounces ==
  ASSUME 2 * Latency < Debounce
  PROVE  DaemonSpec => NoBounce
<1>1. DaemonInit => TimeInv
  BY DEF DaemonInit, Init, Idle, NewRun, NoRun, TimeInv, CallsInTime, ReadsInTime,
         OutdatedInTime, Reading, Never
<1>2. ProcInv /\ TimeInv /\ [DaemonNext]_vars
      => [\A r \in outdated : run[r].pc = "stamped" /\ run'[r].pc = "wait" => state' = state]_vars
  <2>. SUFFICES ASSUME ProcInv, TimeInv, [DaemonNext]_vars, NEW r \in outdated,
                       run[r].pc = "stamped", run'[r].pc = "wait"
                PROVE  state' = state
    OBVIOUS
  <2>1. PollApply(r)
    BY OnlyApplyEnds DEF TimeInv
  <2>2. Ignored(SampledAt(r))
    BY <2>1, OutdatedIgnored
  <2>. QED
    BY <2>1, <2>2 DEF PollApply, Apply, Ignore
<1>. QED
  BY <1>1, <1>2, ProcInit, ProcStep, TimeStep, PTL DEF DaemonSpec, NoBounce
=============================================================================
