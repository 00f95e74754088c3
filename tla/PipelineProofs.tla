--------------------------- MODULE PipelineProofs ---------------------------
(***************************************************************************)
(* Proofs about Pipeline, for any number of clients, any capacities of the *)
(* buffers and any number of changes and disturbances: types, that clients *)
(* show the canonical state once everything has arrived, and that none     *)
(* goes back to an older state.                                            *)
(***************************************************************************)
EXTENDS Pipeline, SequenceTheorems, TLAPS

USE DEF daemonVars, serverVars, linkVars, tuiVars, history

-----------------------------------------------------------------------------
(* Frames and queues of frames.                                            *)

LEMMA Bounds ==
  /\ UpCap \in Nat \ {0} /\ SockCap \in Nat \ {0} /\ NotifyCap \in Nat \ {0}
  /\ MaxVersion \in Nat \ {0, 1} /\ NoClient \notin Clients
BY PipelineAssumption DEF PipelineAssumption

LEMMA FramesMade ==
  /\ \A v \in Versions : StateChanged(v) \in Frames /\ Reply(v) \in Frames
  /\ ProgressTick \in Frames /\ NoFrame \in Frames /\ 0 \in Versions /\ 1 \in Versions
BY Bounds DEF Versions, Frames, StateChanged, Reply, ProgressTick, NoFrame

\* The versions of states in a frame and in a queue.
StatesOf(f) == IF f.kind = "state" THEN {f.version} ELSE {}
StatesIn(q) ==
  {v \in Versions : \E i \in 1 .. Len(q) : q[i].kind = "state" /\ q[i].version = v}

Upto(S, T) == \A a \in S, b \in T : a <= b

Sorted(q) ==
  \A i, j \in 1 .. Len(q) :
    i <= j /\ q[i].kind = "state" /\ q[j].kind = "state" => q[i].version <= q[j].version

NoReply(q)  == \A i \in 1 .. Len(q) : q[i].kind # "reply"
OneReply(q) == \A i, j \in 1 .. Len(q) : q[i].kind = "reply" /\ q[j].kind = "reply" => i = j
HasReply(q, v) == \E i \in 1 .. Len(q) : q[i] = Reply(v)

LEMMA Types ==
  ASSUME NEW f \in Frames
  PROVE  f.kind \in {"state", "tick", "reply", "none"} /\ f.version \in Versions
BY DEF Frames, Versions

\* The queue without its head.
LEMMA TailFacts ==
  ASSUME NEW q \in Seq(Frames), q # <<>>
  PROVE  /\ Tail(q) \in Seq(Frames) /\ Len(Tail(q)) = Len(q) - 1 /\ Head(q) \in Frames
         /\ Len(q) \in Nat \ {0} /\ Head(q) = q[1]
         /\ \A i \in 1 .. Len(Tail(q)) : Tail(q)[i] = q[i + 1] /\ i + 1 \in 1 .. Len(q)
         /\ \A i \in 1 .. Len(q) : i # 1 => i - 1 \in 1 .. Len(Tail(q)) /\ Tail(q)[i - 1] = q[i]
<1>1. /\ Tail(q) \in Seq(Frames) /\ Len(Tail(q)) = Len(q) - 1 /\ Head(q) \in Frames
      /\ Len(q) \in Nat \ {0} /\ Head(q) = q[1]
  BY HeadTailProperties, EmptySeq, LenProperties
<1>2. ASSUME NEW i \in 1 .. Len(Tail(q)) PROVE Tail(q)[i] = q[i + 1] /\ i + 1 \in 1 .. Len(q)
  BY <1>1
<1>3. ASSUME NEW i \in 1 .. Len(q), i # 1
      PROVE  i - 1 \in 1 .. Len(Tail(q)) /\ Tail(q)[i - 1] = q[i]
  BY <1>1, <1>3
<1>. QED
  BY <1>1, <1>2, <1>3

LEMMA AppendFacts ==
  ASSUME NEW q \in Seq(Frames), NEW f \in Frames
  PROVE  /\ Append(q, f) \in Seq(Frames) /\ Len(Append(q, f)) = Len(q) + 1 /\ Len(q) \in Nat
         /\ Append(q, f)[Len(q) + 1] = f
         /\ \A i \in 1 .. Len(q) : Append(q, f)[i] = q[i] /\ i \in 1 .. Len(q) + 1
         /\ \A i \in 1 .. Len(q) + 1 : i = Len(q) + 1 \/ i \in 1 .. Len(q)
BY AppendProperties, LenProperties

LEMMA TailStates ==
  ASSUME NEW q \in Seq(Frames), q # <<>>
  PROVE  StatesIn(q) = StatesIn(Tail(q)) \cup StatesOf(Head(q))
<1>. DEFINE t == Tail(q)
            h == Head(q)
<1>1. /\ h = q[1] /\ h.version \in Versions /\ 1 \in 1 .. Len(q)
      /\ \A i \in 1 .. Len(t) : t[i] = q[i + 1] /\ i + 1 \in 1 .. Len(q)
      /\ \A i \in 1 .. Len(q) : i # 1 => i - 1 \in 1 .. Len(t) /\ t[i - 1] = q[i]
  BY TailFacts, Types
<1>. HIDE DEF t, h
<1>2. ASSUME NEW v \in StatesIn(q) PROVE v \in StatesIn(t) \cup StatesOf(h)
  <2>1. PICK i \in 1 .. Len(q) : q[i].kind = "state" /\ q[i].version = v
    BY <1>2 DEF StatesIn
  <2>2. CASE i = 1
    BY <1>1, <2>1, <2>2 DEF StatesOf
  <2>3. CASE i # 1
    BY <1>1, <1>2, <2>1, <2>3 DEF StatesIn
  <2>. QED
    BY <2>2, <2>3
<1>3. ASSUME NEW v \in StatesIn(t) PROVE v \in StatesIn(q)
  BY <1>1, <1>3 DEF StatesIn
<1>4. StatesOf(h) \subseteq StatesIn(q)
  BY <1>1 DEF StatesIn, StatesOf
<1>. QED
  BY <1>2, <1>3, <1>4 DEF t, h

LEMMA AppendStates ==
  ASSUME NEW q \in Seq(Frames), NEW f \in Frames
  PROVE  StatesIn(Append(q, f)) = StatesIn(q) \cup StatesOf(f)
<1>. DEFINE a == Append(q, f)
            n == Len(q) + 1
<1>1. /\ Len(a) = n /\ a[n] = f /\ n \in 1 .. n /\ f.version \in Versions
      /\ \A i \in 1 .. Len(q) : a[i] = q[i] /\ i \in 1 .. n
      /\ \A i \in 1 .. n : i = n \/ i \in 1 .. Len(q)
  BY AppendFacts, Types
<1>. HIDE DEF a, n
<1>2. ASSUME NEW v \in StatesIn(a) PROVE v \in StatesIn(q) \cup StatesOf(f)
  BY <1>1, <1>2 DEF StatesIn, StatesOf
<1>3. ASSUME NEW v \in StatesIn(q) PROVE v \in StatesIn(a)
  BY <1>1, <1>3 DEF StatesIn
<1>4. StatesOf(f) \subseteq StatesIn(a)
  BY <1>1 DEF StatesIn, StatesOf
<1>. QED
  BY <1>2, <1>3, <1>4 DEF a

LEMMA EmptyFacts ==
  StatesIn(<<>>) = {} /\ Sorted(<<>>) /\ NoReply(<<>>) /\ OneReply(<<>>)
BY DEF StatesIn, Sorted, NoReply, OneReply

LEMMA TailSorted ==
  ASSUME NEW q \in Seq(Frames), q # <<>>, Sorted(q)
  PROVE  Sorted(Tail(q)) /\ Upto(StatesOf(Head(q)), StatesIn(Tail(q)))
<1>. DEFINE t == Tail(q)
            h == Head(q)
<1>1. /\ h = q[1] /\ 1 \in 1 .. Len(q)
      /\ \A i \in 1 .. Len(t) : t[i] = q[i + 1] /\ i + 1 \in 1 .. Len(q) /\ 1 <= i + 1
  BY TailFacts
<1>. HIDE DEF t, h
<1>2. Sorted(t)
  <2>. SUFFICES ASSUME NEW i \in 1 .. Len(t), NEW j \in 1 .. Len(t), i <= j,
                       t[i].kind = "state", t[j].kind = "state"
                PROVE  t[i].version <= t[j].version
    BY DEF Sorted
  <2>1. i + 1 <= j + 1
    OBVIOUS
  <2>. QED
    BY <1>1, <2>1 DEF Sorted
<1>3. Upto(StatesOf(h), StatesIn(t))
  BY <1>1 DEF Upto, StatesOf, StatesIn, Sorted
<1>. QED
  BY <1>2, <1>3 DEF t, h

LEMMA AppendSorted ==
  ASSUME NEW q \in Seq(Frames), NEW f \in Frames, Sorted(q), Upto(StatesIn(q), StatesOf(f))
  PROVE  Sorted(Append(q, f))
<1>. DEFINE a == Append(q, f)
            n == Len(q) + 1
<1>1. /\ Len(a) = n /\ a[n] = f /\ f.version \in Versions
      /\ \A i \in 1 .. Len(q) : a[i] = q[i] /\ q[i].version \in Versions /\ i < n
      /\ \A i \in 1 .. n : i = n \/ i \in 1 .. Len(q)
  BY AppendFacts, Types
<1>2. n \in Int
  BY AppendFacts
<1>. HIDE DEF a, n
<1>. SUFFICES ASSUME NEW i \in 1 .. n, NEW j \in 1 .. n, i <= j,
                     a[i].kind = "state", a[j].kind = "state"
              PROVE  a[i].version <= a[j].version
  BY <1>1 DEF Sorted, a
<1>3. CASE i = n
  <2>1. j = n
    BY <1>2, <1>3
  <2>. QED
    BY <1>1, <1>3, <2>1 DEF Versions
<1>4. CASE i \in 1 .. Len(q) /\ j = n
  BY <1>1, <1>4 DEF Upto, StatesIn, StatesOf
<1>5. CASE i \in 1 .. Len(q) /\ j \in 1 .. Len(q)
  BY <1>1, <1>5 DEF Sorted
<1>. QED
  BY <1>1, <1>3, <1>4, <1>5

LEMMA TailReply ==
  ASSUME NEW q \in Seq(Frames), q # <<>>
  PROVE  /\ NoReply(q) => NoReply(Tail(q)) /\ Head(q).kind # "reply"
         /\ OneReply(q) => OneReply(Tail(q))
         /\ OneReply(q) /\ Head(q).kind = "reply" => NoReply(Tail(q))
         /\ \A v \in Versions : HasReply(q, v) => Head(q) = Reply(v) \/ HasReply(Tail(q), v)
<1>. DEFINE t == Tail(q)
            h == Head(q)
<1>1. /\ h = q[1] /\ 1 \in 1 .. Len(q)
      /\ \A i \in 1 .. Len(t) : t[i] = q[i + 1] /\ i + 1 \in 1 .. Len(q) /\ i + 1 # 1
      /\ \A i \in 1 .. Len(q) : i # 1 => i - 1 \in 1 .. Len(t) /\ t[i - 1] = q[i]
  BY TailFacts
<1>. HIDE DEF t, h
<1>2. (NoReply(q) => NoReply(t) /\ h.kind # "reply") /\ (OneReply(q) /\ h.kind = "reply" => NoReply(t))
  BY <1>1 DEF NoReply, OneReply
<1>3. ASSUME OneReply(q), NEW i \in 1 .. Len(t), NEW j \in 1 .. Len(t),
             t[i].kind = "reply", t[j].kind = "reply"
      PROVE  i = j
  <2>1. /\ i + 1 \in 1 .. Len(q) /\ q[i + 1].kind = "reply"
        /\ j + 1 \in 1 .. Len(q) /\ q[j + 1].kind = "reply"
    BY <1>1, <1>3
  <2>2. i + 1 = j + 1
    BY <1>3, <2>1 DEF OneReply
  <2>. QED
    BY <2>2
<1>4. ASSUME NEW v \in Versions, HasReply(q, v) PROVE h = Reply(v) \/ HasReply(t, v)
  BY <1>1, <1>4 DEF HasReply
<1>. QED
  BY <1>2, <1>3, <1>4 DEF OneReply, t, h

LEMMA AppendReply ==
  ASSUME NEW q \in Seq(Frames), NEW f \in Frames
  PROVE  /\ NoReply(q) => OneReply(Append(q, f))
         /\ NoReply(q) /\ f.kind # "reply" => NoReply(Append(q, f))
         /\ OneReply(q) /\ f.kind # "reply" => OneReply(Append(q, f))
         /\ HasReply(Append(q, f), f.version) \/ f.kind # "reply"
         /\ \A v \in Versions : HasReply(q, v) => HasReply(Append(q, f), v)
<1>. DEFINE a == Append(q, f)
            n == Len(q) + 1
<1>1. /\ Len(a) = n /\ a[n] = f /\ n \in 1 .. n
      /\ \A i \in 1 .. Len(q) : a[i] = q[i] /\ i \in 1 .. n
      /\ \A i \in 1 .. n : i = n \/ i \in 1 .. Len(q)
  BY AppendFacts
<1>2. f.kind = "reply" => f = Reply(f.version)
  BY DEF Frames, Reply
<1>. HIDE DEF a, n
<1>3. /\ NoReply(q) => OneReply(a)
      /\ NoReply(q) /\ f.kind # "reply" => NoReply(a)
      /\ OneReply(q) /\ f.kind # "reply" => OneReply(a)
  BY <1>1 DEF NoReply, OneReply
<1>4. /\ HasReply(a, f.version) \/ f.kind # "reply"
      /\ \A v \in Versions : HasReply(q, v) => HasReply(a, v)
  BY <1>1, <1>2 DEF HasReply
<1>. QED
  BY <1>3, <1>4 DEF a

-----------------------------------------------------------------------------
(* The invariants.                                                         *)

\* Types, and room for the state of the next daemon.
Typed == PipelineTypeOK /\ (~daemonUp => version < MaxVersion)

\* The versions on their way to c, from its screen to the machine: in the message in
\* progress, the client's buffer, the socket, the forwarder and its channel.
InHand(c)   == IF chain[c] = "notif" THEN StatesOf(held[c]) ELSE {}
InBuffer(c) == StatesIn(buffer[c])
InWire(c)   == StatesIn(wire[c])
Targets     == fwd.todo \cup {fwd.to}
InFwd(c)    == IF fwd.pc = "copy" \/ (fwd.pc = "send" /\ c \in Targets) THEN StatesOf(fwd.note)
               ELSE {}
Upstream    == StatesIn(upstream)
OnWay(c)    == InHand(c) \cup InBuffer(c) \cup InWire(c) \cup InFwd(c) \cup Upstream

\* They are in order and none is newer than the present one; what c shows, once it has
\* shown a notification, is older than all of them.
InOrder(H, B, W, F, U) ==
  /\ Upto(H, B \cup W \cup F \cup U)
  /\ Upto(B, W \cup F \cup U)
  /\ Upto(W, F \cup U)
  /\ Upto(F, U)

Ordered(c) ==
  /\ Sorted(wire[c]) /\ Sorted(buffer[c])
  /\ InOrder(InHand(c), InBuffer(c), InWire(c), InFwd(c), Upstream)
  /\ Upto(OnWay(c), {version})
  /\ c \in followed => /\ chain[c] \in {"listen", "notif", "failed"}
                       /\ Upto({shown[c]}, OnWay(c) \cup {version})

\* One call at a time is on its way, and only while the client waits for it.
CallInv(c) ==
  /\ request[c] # "none" => /\ chain[c] = request[c] /\ answer[c] = NoFrame
                            /\ NoReply(wire[c]) /\ replied[c] = NoFrame
  /\ answer[c] # NoFrame => /\ answer[c].kind = "reply"
                            /\ NoReply(wire[c]) /\ replied[c] = NoFrame
  /\ replied[c] # NoFrame => NoReply(wire[c])
  /\ OneReply(wire[c])
  /\ chain[c] \notin {"subscribe", "get"} => /\ request[c] = "none" /\ answer[c] = NoFrame
                                             /\ NoReply(wire[c]) /\ replied[c] = NoFrame

\* What the ends of a connection say of each other.
LinkInv(c) ==
  /\ ~alive[c] => /\ ~subscribed[c] /\ request[c] = "none" /\ answer[c] = NoFrame
                  /\ c \notin Targets
  /\ alive[c] => daemonUp
  /\ closed[c] => ~alive[c] /\ wire[c] = <<>>
  /\ chain[c] \in {"dial", "failed"} => closed[c] /\ buffer[c] = <<>>
  /\ alive[c] /\ ~subscribed[c] => /\ chain[c] = "subscribe" /\ request[c] = "subscribe"
                                   /\ wire[c] = <<>> /\ buffer[c] = <<>> /\ c \notin Targets

\* The forwarder handles notifications, and has none while the daemon is down.
ForwarderInv ==
  /\ NoReply(upstream) /\ fwd.note.kind # "reply"
  /\ fwd.pc = "send" => fwd.to \in Clients /\ fwd.to \notin fwd.todo
  /\ fwd.pc # "send" => fwd.to = NoClient /\ fwd.todo = {}
  /\ fwd.pc = "idle" => fwd.note = NoFrame
  /\ ~daemonUp => upstream = <<>> /\ fwd = IdleForwarder

\* The client has learned the present state by its call, or is about to.
Knows(c) ==
  \/ chain[c] = "subscribe"
  \/ chain[c] = "get" /\ \/ request[c] = "get"
                         \/ answer[c] = Reply(version)
                         \/ HasReply(wire[c], version)
                         \/ replied[c] = Reply(version)
  \/ chain[c] = "connected" /\ held[c] = Reply(version)
  \/ chain[c] \in {"listen", "notif"} /\ shown[c] = version

Older(S) == \E v \in S : v # version

\* Unless the present state was dropped, what is older and on its way is followed by it:
\* in the daemon, and to a client.  To a client that does not know it, it is on its way.
Published ==
  ~unsent => /\ Older(Upstream) => version \in Upstream
             /\ fwd.pc # "idle" /\ Older(StatesOf(fwd.note)) => version \in Upstream

Follows(c) ==
  alive[c] /\ ~unsent /\ c \notin lost =>
    /\ Older(OnWay(c)) => version \in OnWay(c)
    /\ subscribed[c] => Knows(c) \/ version \in OnWay(c)

DaemonInv    == ForwarderInv /\ Sorted(upstream) /\ Upto(Upstream, {version}) /\ Published
ClientInv(c) == CallInv(c) /\ LinkInv(c) /\ Ordered(c) /\ Follows(c)
PathInv      == Typed /\ DaemonInv /\ \A c \in Clients : ClientInv(c)

-----------------------------------------------------------------------------
(* Types.                                                                  *)

Pcs    == {"idle", "copy", "send"}
Chains == {"dial", "subscribe", "get", "connected", "listen", "notif", "failed"}

\* The parts of the types that the actions of a client change.
LEMMA ClientTypes ==
  ASSUME Typed, NEW c \in Clients
  PROVE  /\ wire[c] \in Seq(Frames) /\ buffer[c] \in Seq(Frames)
         /\ Len(wire[c]) <= SockCap /\ Len(buffer[c]) <= NotifyCap
         /\ held[c] \in Frames /\ replied[c] \in Frames /\ answer[c] \in Frames
         /\ shown[c] \in Versions /\ version \in Versions
         /\ fwd.note \in Frames /\ upstream \in Seq(Frames)
         /\ DOMAIN wire = Clients /\ DOMAIN buffer = Clients
BY DEF Typed, PipelineTypeOK

LEMMA TowardsType ==
  ASSUME Typed, NEW C \in SUBSET Clients, fwd' \in Towards(C)
  PROVE  fwd' \in [pc : Pcs, note : Frames, to : Clients \cup {NoClient}, todo : SUBSET Clients]
<1>1. NoFrame \in Frames /\ fwd.note \in Frames
  BY FramesMade DEF Typed, PipelineTypeOK
<1>2. CASE C = {}
  BY <1>1, <1>2 DEF Towards, IdleForwarder, Pcs
<1>3. CASE C # {}
  <2>1. PICK c \in C : fwd' = [pc |-> "send", note |-> fwd.note, to |-> c, todo |-> C \ {c}]
    BY <1>3 DEF Towards
  <2>. QED
    BY <1>1, <2>1 DEF Pcs
<1>. QED
  BY <1>2, <1>3

LEMMA TypedInit == PipelineInit => Typed
<1>. SUFFICES ASSUME PipelineInit PROVE Typed
  OBVIOUS
<1>1. /\ <<>> \in Seq(Frames) /\ Len(<<>>) = 0
      /\ NoFrame \in {f \in Frames : f.kind \in {"reply", "none"}}
  BY FramesMade, EmptySeq DEF NoFrame
<1>2. fwd \in [pc : Pcs, note : Frames, to : Clients \cup {NoClient}, todo : SUBSET Clients]
  BY FramesMade DEF PipelineInit, IdleForwarder, Pcs
<1>3. version \in Versions /\ version < MaxVersion
  BY Bounds DEF PipelineInit, Versions
<1>4. /\ wire \in [Clients -> Seq(Frames)] /\ \A c \in Clients : Len(wire[c]) <= SockCap
      /\ buffer \in [Clients -> Seq(Frames)] /\ \A c \in Clients : Len(buffer[c]) <= NotifyCap
      /\ upstream \in Seq(Frames) /\ Len(upstream) <= UpCap
  BY <1>1, Bounds DEF PipelineInit
<1>5. /\ replied \in [Clients -> {f \in Frames : f.kind \in {"reply", "none"}}]
      /\ answer \in [Clients -> Frames] /\ held \in [Clients -> Frames]
      /\ shown \in [Clients -> Versions]
  BY <1>1, FramesMade DEF PipelineInit
<1>. QED
  BY <1>2, <1>3, <1>4, <1>5 DEF PipelineInit, Typed, PipelineTypeOK, Pcs

\* A queue of a client is replaced by one that is not too long.
LEMMA QueueUpdate ==
  ASSUME NEW qs \in [Clients -> Seq(Frames)], NEW d, NEW q \in Seq(Frames), NEW Cap \in Nat,
         Len(q) <= Cap, \A c \in Clients : Len(qs[c]) <= Cap
  PROVE  /\ [qs EXCEPT ![d] = q] \in [Clients -> Seq(Frames)]
         /\ \A c \in Clients : Len([qs EXCEPT ![d] = q][c]) <= Cap
OBVIOUS

\* What remains to be shown where the daemon and the server's sides are left alone.
LEMMA TypedPublish ==
  ASSUME Typed, NEW note \in Frames, Publish(note)
  PROVE  upstream' \in Seq(Frames) /\ Len(upstream') <= UpCap
<1>1. /\ upstream \in Seq(Frames) /\ Len(upstream) <= UpCap /\ UpCap \in Nat
      /\ Append(upstream, note) \in Seq(Frames) /\ Len(Append(upstream, note)) = Len(upstream) + 1
      /\ Len(upstream) \in Nat
  BY Bounds, AppendFacts DEF Typed, PipelineTypeOK
<1>. QED
  BY <1>1 DEF Publish

LEMMA TypedDaemon ==
  ASSUME Typed, Change \/ Progress \/ DaemonDies \/ DaemonStarts
  PROVE  Typed'
<1>1. version \in Versions /\ (~daemonUp => version < MaxVersion) /\ MaxVersion \in Nat
  BY Bounds DEF Typed, PipelineTypeOK
<1>2. CASE Change
  <2>1. version + 1 \in Versions
    BY <1>1, <1>2 DEF Change, Versions
  <2>2. upstream' \in Seq(Frames) /\ Len(upstream') <= UpCap
    BY <1>2, <2>1, FramesMade, TypedPublish DEF Change
  <2>. QED
    BY <1>2, <2>1, <2>2 DEF Change, Typed, PipelineTypeOK
<1>3. CASE Progress
  <2>1. upstream' \in Seq(Frames) /\ Len(upstream') <= UpCap
    BY <1>3, FramesMade, TypedPublish DEF Progress
  <2>. QED
    BY <1>3, <2>1 DEF Progress, Typed, PipelineTypeOK
<1>4. CASE DaemonDies
  <2>1. <<>> \in Seq(Frames) /\ Len(<<>>) <= UpCap
    BY Bounds, EmptySeq
  <2>2. fwd' \in [pc : Pcs, note : Frames, to : Clients \cup {NoClient}, todo : SUBSET Clients]
    BY <1>4, FramesMade DEF DaemonDies, IdleForwarder, Pcs
  <2>3. answer' \in [Clients -> Frames]
    BY <1>4, FramesMade DEF DaemonDies
  <2>4. /\ alive' \in [Clients -> BOOLEAN] /\ subscribed' \in [Clients -> BOOLEAN]
        /\ request' \in [Clients -> {"none", "subscribe", "get"}]
    BY <1>4 DEF DaemonDies
  <2>. QED
    BY <1>4, <2>1, <2>2, <2>3, <2>4 DEF DaemonDies, Typed, PipelineTypeOK, Pcs
<1>5. CASE DaemonStarts
  <2>1. version + 1 \in Versions
    BY <1>1, <1>5 DEF DaemonStarts, Versions
  <2>. QED
    BY <1>5, <2>1 DEF DaemonStarts, Typed, PipelineTypeOK
<1>. QED
  BY <1>2, <1>3, <1>4, <1>5

LEMMA TypedForward ==
  ASSUME Typed, ForwardStep
  PROVE  Typed'
<1>1. CASE ForwardReceive
  <2>1. /\ upstream' \in Seq(Frames) /\ Len(upstream') <= UpCap /\ Head(upstream) \in Frames
    BY <1>1, Bounds, TailFacts DEF ForwardReceive, Typed, PipelineTypeOK
  <2>2. fwd' \in [pc : Pcs, note : Frames, to : Clients \cup {NoClient}, todo : SUBSET Clients]
    BY <1>1, <2>1 DEF ForwardReceive, IdleForwarder, Pcs
  <2>. QED
    BY <1>1, <2>1, <2>2 DEF ForwardReceive, Typed, PipelineTypeOK, Pcs
<1>2. CASE ForwardCopy
  <2>1. fwd' \in [pc : Pcs, note : Frames, to : Clients \cup {NoClient}, todo : SUBSET Clients]
    BY <1>2, TowardsType DEF ForwardCopy
  <2>. QED
    BY <1>2, <2>1 DEF ForwardCopy, Typed, PipelineTypeOK, Pcs
<1>3. CASE ForwardSend
  <2>1. fwd' \in [pc : Pcs, note : Frames, to : Clients \cup {NoClient}, todo : SUBSET Clients]
    <3>1. fwd.todo \in SUBSET Clients
      BY DEF Typed, PipelineTypeOK
    <3>. QED
      BY <1>3, <3>1, TowardsType DEF ForwardSend
  <2>2. /\ wire' \in [Clients -> Seq(Frames)] /\ \A c \in Clients : Len(wire'[c]) <= SockCap
    <3>1. ASSUME NEW c \in Clients
          PROVE  /\ wire[c] \in Seq(Frames) /\ Len(wire[c]) <= SockCap
                 /\ Append(wire[c], fwd.note) \in Seq(Frames)
                 /\ Len(Append(wire[c], fwd.note)) = Len(wire[c]) + 1 /\ Len(wire[c]) \in Nat
      BY ClientTypes, AppendFacts
    <3>2. /\ wire' = [wire EXCEPT ![fwd.to] = Append(wire[fwd.to], fwd.note)]
          /\ Len(wire[fwd.to]) < SockCap
      BY <1>3 DEF ForwardSend
    <3>3. /\ wire \in [Clients -> Seq(Frames)] /\ \A c \in Clients : Len(wire[c]) <= SockCap
          /\ SockCap \in Nat /\ fwd.to \in Clients \cup {NoClient}
      BY Bounds DEF Typed, PipelineTypeOK
    <3>4. CASE fwd.to \in Clients
      <4>1. /\ Append(wire[fwd.to], fwd.note) \in Seq(Frames)
            /\ Len(Append(wire[fwd.to], fwd.note)) <= SockCap
        BY <3>1, <3>2, <3>3, <3>4
      <4>. QED
        BY <3>2, <3>3, <4>1, QueueUpdate
    <3>5. CASE fwd.to \notin Clients
      <4>1. wire' = wire
        BY <3>2, <3>3, <3>5
      <4>. QED
        BY <3>3, <4>1
    <3>. QED
      BY <3>4, <3>5
  <2>. QED
    BY <1>3, <2>1, <2>2 DEF ForwardSend, Typed, PipelineTypeOK, Pcs
<1>. QED
  BY <1>1, <1>2, <1>3 DEF ForwardStep

LEMMA TypedServer ==
  ASSUME Typed, NEW c \in Clients, ServerStep(c) \/ ReadStep(c) \/ ConnectionBreaks(c)
  PROVE  Typed'
<1>1. CASE Dispatch(c)
  <2>1. Reply(IF request[c] = "get" THEN version ELSE 0) \in Frames
    BY FramesMade DEF Typed, PipelineTypeOK
  <2>2. answer' \in [Clients -> Frames]
    BY <1>1, <2>1 DEF Dispatch, Typed, PipelineTypeOK
  <2>3. /\ subscribed' \in [Clients -> BOOLEAN]
        /\ request' \in [Clients -> {"none", "subscribe", "get"}]
    BY <1>1 DEF Dispatch, Typed, PipelineTypeOK
  <2>. QED
    BY <1>1, <2>2, <2>3 DEF Dispatch, Typed, PipelineTypeOK
<1>2. CASE WriteReply(c)
  <2>1. /\ Append(wire[c], answer[c]) \in Seq(Frames)
        /\ Len(Append(wire[c], answer[c])) = Len(wire[c]) + 1 /\ Len(wire[c]) \in Nat
    BY ClientTypes, AppendFacts
  <2>2. wire' = [wire EXCEPT ![c] = Append(wire[c], answer[c])] /\ Len(wire[c]) < SockCap
    BY <1>2 DEF WriteReply
  <2>3. wire' \in [Clients -> Seq(Frames)] /\ \A d \in Clients : Len(wire'[d]) <= SockCap
    <3>1. Len(Append(wire[c], answer[c])) <= SockCap /\ SockCap \in Nat
      BY <2>1, <2>2, Bounds
    <3>. QED
      BY <2>1, <2>2, <3>1, QueueUpdate DEF Typed, PipelineTypeOK
  <2>4. answer' \in [Clients -> Frames]
    BY <1>2, FramesMade DEF WriteReply, Typed, PipelineTypeOK
  <2>. QED
    BY <1>2, <2>3, <2>4 DEF WriteReply, Typed, PipelineTypeOK
<1>3. CASE ReadFrame(c)
  <2>. DEFINE frame == Head(wire[c])
  <2>1. /\ Tail(wire[c]) \in Seq(Frames) /\ Len(Tail(wire[c])) = Len(wire[c]) - 1
        /\ frame \in Frames /\ Len(wire[c]) \in Nat
        /\ Append(buffer[c], frame) \in Seq(Frames)
        /\ Len(Append(buffer[c], frame)) = Len(buffer[c]) + 1 /\ Len(buffer[c]) \in Nat
    BY <1>3, ClientTypes, TailFacts, AppendFacts DEF ReadFrame
  <2>2. wire' = [wire EXCEPT ![c] = Tail(wire[c])]
    BY <1>3 DEF ReadFrame
  <2>3. wire' \in [Clients -> Seq(Frames)] /\ \A d \in Clients : Len(wire'[d]) <= SockCap
    <3>1. Len(Tail(wire[c])) <= SockCap /\ SockCap \in Nat
      BY <2>1, Bounds, ClientTypes
    <3>. QED
      BY <2>1, <2>2, <3>1, QueueUpdate DEF Typed, PipelineTypeOK
  <2>4. \/ /\ frame.kind = "reply" /\ replied' = [replied EXCEPT ![c] = frame]
           /\ UNCHANGED <<buffer, lost>>
        \/ /\ Len(buffer[c]) < NotifyCap /\ buffer' = [buffer EXCEPT ![c] = Append(buffer[c], frame)]
           /\ UNCHANGED <<replied, lost>>
        \/ lost' \subseteq Clients /\ UNCHANGED <<replied, buffer>>
    BY <1>3 DEF ReadFrame, Typed, PipelineTypeOK
  <2>5. UNCHANGED <<daemonVars, serverVars, alive, closed, tuiVars, disturbances, unsent, followed>>
    BY <1>3 DEF ReadFrame
  <2>. HIDE DEF frame
  <2>6. /\ replied' \in [Clients -> {f \in Frames : f.kind \in {"reply", "none"}}]
        /\ lost' \subseteq Clients
    <3>. DEFINE Responses == {f \in Frames : f.kind \in {"reply", "none"}}
    <3>1. replied \in [Clients -> Responses] /\ lost \subseteq Clients
      BY DEF Typed, PipelineTypeOK
    <3>2. frame.kind = "reply" => frame \in Responses
      BY <2>1
    <3>. HIDE DEF Responses
    <3>3. replied' \in [Clients -> Responses] /\ lost' \subseteq Clients
      BY <2>4, <3>1, <3>2
    <3>. QED
      BY <3>3 DEF Responses
  <2>7. buffer' \in [Clients -> Seq(Frames)] /\ \A d \in Clients : Len(buffer'[d]) <= NotifyCap
    <3>1. /\ buffer \in [Clients -> Seq(Frames)] /\ \A d \in Clients : Len(buffer[d]) <= NotifyCap
          /\ NotifyCap \in Nat
      BY Bounds DEF Typed, PipelineTypeOK
    <3>2. CASE buffer' = buffer
      BY <3>1, <3>2
    <3>3. CASE /\ Len(buffer[c]) < NotifyCap
               /\ buffer' = [buffer EXCEPT ![c] = Append(buffer[c], frame)]
      <4>1. Len(Append(buffer[c], frame)) <= NotifyCap
        BY <2>1, <3>1, <3>3
      <4>. QED
        BY <2>1, <3>1, <3>3, <4>1, QueueUpdate
    <3>. QED
      BY <2>4, <3>2, <3>3
  <2>. QED
    BY <2>3, <2>5, <2>6, <2>7 DEF Typed, PipelineTypeOK
<1>4. CASE ReadEnds(c)
  BY <1>4 DEF ReadEnds, Typed, PipelineTypeOK
<1>5. CASE ConnectionBreaks(c)
  <2>1. fwd' \in [pc : Pcs, note : Frames, to : Clients \cup {NoClient}, todo : SUBSET Clients]
    <3>1. CASE fwd.to \in {c}
      <4>1. fwd.todo \ {c} \in SUBSET Clients /\ fwd' \in Towards(fwd.todo \ {c})
        BY <1>5, <3>1 DEF ConnectionBreaks, Broken, Typed, PipelineTypeOK
      <4>. QED
        BY <4>1, TowardsType
    <3>2. CASE fwd.to \notin {c}
      <4>1. fwd' = [fwd EXCEPT !.todo = fwd.todo \ {c}]
        BY <1>5, <3>2 DEF ConnectionBreaks, Broken
      <4>2. fwd \in [pc : Pcs, note : Frames, to : Clients \cup {NoClient}, todo : SUBSET Clients]
        BY DEF Typed, PipelineTypeOK, Pcs
      <4>. QED
        BY <4>1, <4>2
    <3>. QED
      BY <3>1, <3>2
  <2>2. /\ alive' \in [Clients -> BOOLEAN] /\ subscribed' \in [Clients -> BOOLEAN]
        /\ request' \in [Clients -> {"none", "subscribe", "get"}]
    BY <1>5 DEF ConnectionBreaks, Broken, Typed, PipelineTypeOK
  <2>3. answer' \in [Clients -> Frames]
    BY <1>5, FramesMade DEF ConnectionBreaks, Broken, Typed, PipelineTypeOK
  <2>. QED
    BY <1>5, <2>1, <2>2, <2>3 DEF ConnectionBreaks, Typed, PipelineTypeOK, Pcs
<1>. QED
  BY <1>1, <1>2, <1>3, <1>4, <1>5 DEF ServerStep, ReadStep

LEMMA TypedDial ==
  ASSUME Typed, NEW c \in Clients,
         Dial(c) \/ DialFails(c) \/ Subscribed(c) \/ GotState(c) \/ CallFails(c)
  PROVE  Typed'
<1>1. <<>> \in Seq(Frames) /\ Len(<<>>) <= NotifyCap
  BY Bounds, EmptySeq
<1>2. CASE Dial(c)
  BY <1>2 DEF Dial, Typed, PipelineTypeOK
<1>3. CASE DialFails(c)
  BY <1>3 DEF DialFails, Typed, PipelineTypeOK
<1>. DEFINE Responses == {f \in Frames : f.kind \in {"reply", "none"}}
<1>4. NoFrame \in Responses /\ replied \in [Clients -> Responses]
  BY FramesMade DEF Typed, PipelineTypeOK, NoFrame
<1>. HIDE DEF Responses
<1>5. CASE Subscribed(c)
  <2>1. replied' \in [Clients -> Responses]
    BY <1>4, <1>5 DEF Subscribed
  <2>2. request' \in [Clients -> {"none", "subscribe", "get"}] /\ chain' \in [Clients -> Chains]
    BY <1>5 DEF Subscribed, Typed, PipelineTypeOK, Chains
  <2>. QED
    BY <1>5, <2>1, <2>2 DEF Subscribed, Typed, PipelineTypeOK, Responses, Chains
<1>6. CASE GotState(c)
  <2>1. replied' \in [Clients -> Responses]
    BY <1>4, <1>6 DEF GotState
  <2>2. held' \in [Clients -> Frames] /\ chain' \in [Clients -> Chains]
    BY <1>6, ClientTypes DEF GotState, Typed, PipelineTypeOK, Chains
  <2>. QED
    BY <1>6, <2>1, <2>2 DEF GotState, Typed, PipelineTypeOK, Responses, Chains
<1>7. CASE CallFails(c)
  <2>1. buffer' \in [Clients -> Seq(Frames)] /\ \A d \in Clients : Len(buffer'[d]) <= NotifyCap
    BY <1>1, <1>7, Bounds, QueueUpdate DEF CallFails, Typed, PipelineTypeOK
  <2>. QED
    BY <1>7, <2>1 DEF CallFails, Typed, PipelineTypeOK
<1>. QED
  BY <1>2, <1>3, <1>5, <1>6, <1>7

LEMMA TypedListen ==
  ASSUME Typed, NEW c \in Clients,
         UpdateConnected(c) \/ Listen(c) \/ ListenEnds(c) \/ UpdateNotif(c) \/ Reconnect(c)
  PROVE  Typed'
<1>1. NoFrame \in Frames /\ 0 \in Versions /\ held[c].version \in Versions
  BY FramesMade, ClientTypes, Types
<1>2. CASE UpdateConnected(c)
  BY <1>1, <1>2 DEF UpdateConnected, Typed, PipelineTypeOK
<1>3. CASE Listen(c)
  <2>1. /\ Tail(buffer[c]) \in Seq(Frames) /\ Len(Tail(buffer[c])) <= NotifyCap
        /\ Head(buffer[c]) \in Frames
    BY <1>3, ClientTypes, TailFacts, Bounds DEF Listen
  <2>2. buffer' \in [Clients -> Seq(Frames)] /\ \A d \in Clients : Len(buffer'[d]) <= NotifyCap
    BY <1>3, <2>1, Bounds, QueueUpdate DEF Listen, Typed, PipelineTypeOK
  <2>3. held' \in [Clients -> Frames] /\ chain' \in [Clients -> Chains]
    BY <1>3, <2>1 DEF Listen, Typed, PipelineTypeOK, Chains
  <2>. QED
    BY <1>3, <2>2, <2>3 DEF Listen, Typed, PipelineTypeOK, Chains
<1>4. CASE ListenEnds(c)
  BY <1>4 DEF ListenEnds, Typed, PipelineTypeOK
<1>5. CASE UpdateNotif(c)
  <2>1. /\ shown' \in [Clients -> Versions] /\ followed' \subseteq Clients
        /\ held' \in [Clients -> Frames]
    BY <1>1, <1>5 DEF UpdateNotif, Typed, PipelineTypeOK
  <2>. QED
    BY <1>5, <2>1 DEF UpdateNotif, Typed, PipelineTypeOK
<1>6. CASE Reconnect(c)
  BY <1>1, <1>6 DEF Reconnect, Typed, PipelineTypeOK
<1>. QED
  BY <1>2, <1>3, <1>4, <1>5, <1>6

LEMMA TypedNext == Typed /\ [PipelineNext]_vars => Typed'
<1>. SUFFICES ASSUME Typed, [PipelineNext]_vars PROVE Typed'
  OBVIOUS
<1>1. CASE Change \/ Progress \/ DaemonDies \/ DaemonStarts
  BY <1>1, TypedDaemon
<1>2. CASE ForwardStep
  BY <1>2, TypedForward
<1>3. ASSUME NEW c \in Clients, ServerStep(c) \/ ReadStep(c) \/ ConnectionBreaks(c) PROVE Typed'
  BY <1>3, TypedServer
<1>4. ASSUME NEW c \in Clients, TuiStep(c) PROVE Typed'
  BY <1>4, TypedDial, TypedListen DEF TuiStep
<1>5. CASE UNCHANGED vars
  BY <1>5 DEF vars, Typed, PipelineTypeOK
<1>. QED
  BY <1>1, <1>2, <1>3, <1>4, <1>5 DEF PipelineNext

LEMMA TypedAlways == PipelineSpec => []Typed
BY TypedInit, TypedNext, PTL DEF PipelineSpec

\* Every variable of Pipeline keeps its type and every buffer its capacity, for any
\* number of clients, changes and disturbances (daemon.go:88, client.go:28).
THEOREM PipelineTypeCorrect == PipelineSpec => []PipelineTypeOK
<1>1. Typed => PipelineTypeOK
  BY DEF Typed
<1>. QED
  BY <1>1, TypedAlways, PTL

-----------------------------------------------------------------------------
(* The steps of a client's connection and of its TUI.                      *)

ClientStep(c) == ServerStep(c) \/ ReadStep(c) \/ TuiStep(c)

\* A step leaves alone what the invariant says of c.
SameClient(c) ==
  /\ UNCHANGED <<wire[c], alive[c], closed[c], replied[c], buffer[c]>>
  /\ UNCHANGED <<subscribed[c], request[c], answer[c], chain[c], held[c], shown[c]>>
  /\ (c \in lost' <=> c \in lost) /\ (c \in followed' <=> c \in followed)

LEMMA OnlyOne ==
  ASSUME Typed, NEW d \in Clients, ClientStep(d)
  PROVE  UNCHANGED <<daemonVars, unsent>> /\ \A c \in Clients \ {d} : SameClient(c)
<1>. USE DEF Typed, PipelineTypeOK, SameClient
<1>1. CASE Dispatch(d)
  BY <1>1 DEF Dispatch
<1>2. CASE WriteReply(d)
  BY <1>2 DEF WriteReply
<1>3. CASE ReadFrame(d)
  BY <1>3 DEF ReadFrame
<1>4. CASE ReadEnds(d)
  BY <1>4 DEF ReadEnds
<1>5. CASE Dial(d)
  BY <1>5 DEF Dial
<1>6. CASE DialFails(d)
  BY <1>6 DEF DialFails
<1>7. CASE Subscribed(d)
  BY <1>7 DEF Subscribed
<1>8. CASE GotState(d)
  BY <1>8 DEF GotState
<1>9. CASE CallFails(d)
  BY <1>9 DEF CallFails
<1>10. CASE UpdateConnected(d)
  BY <1>10 DEF UpdateConnected
<1>11. CASE Listen(d)
  BY <1>11 DEF Listen
<1>12. CASE ListenEnds(d)
  BY <1>12 DEF ListenEnds
<1>13. CASE UpdateNotif(d)
  BY <1>13 DEF UpdateNotif
<1>14. CASE Reconnect(d)
  BY <1>14 DEF Reconnect
<1>. QED
  BY <1>1, <1>2, <1>3, <1>4, <1>5, <1>6, <1>7, <1>8, <1>9, <1>10, <1>11, <1>12, <1>13, <1>14
  DEF ClientStep, ServerStep, ReadStep, TuiStep

LEMMA Others ==
  ASSUME NEW c \in Clients, ClientInv(c), SameClient(c), UNCHANGED <<daemonVars, unsent>>
  PROVE  ClientInv(c)'
<1>. USE DEF SameClient, Targets
<1>1. CallInv(c)'
  BY DEF ClientInv, CallInv
<1>2. LinkInv(c)'
  BY DEF ClientInv, LinkInv
<1>3. /\ InHand(c)' = InHand(c) /\ InBuffer(c)' = InBuffer(c) /\ InWire(c)' = InWire(c)
      /\ InFwd(c)' = InFwd(c) /\ Upstream' = Upstream
  BY DEF InHand, InBuffer, InWire, InFwd, Upstream
<1>4. OnWay(c)' = OnWay(c)
  BY <1>3 DEF OnWay
<1>5. Ordered(c)'
  BY <1>3, <1>4 DEF ClientInv, Ordered
<1>6. /\ Knows(c)' <=> Knows(c)
      /\ alive'[c] = alive[c] /\ subscribed'[c] = subscribed[c] /\ (c \in lost' <=> c \in lost)
      /\ version' = version /\ unsent' = unsent
  BY DEF Knows
<1>7. Follows(c)'
  BY <1>4, <1>6 DEF ClientInv, Follows, Older
<1>. QED
  BY <1>1, <1>2, <1>5, <1>7 DEF ClientInv

LEMMA DaemonSame ==
  ASSUME DaemonInv, UNCHANGED <<daemonVars, unsent>>
  PROVE  DaemonInv'
<1>1. ForwarderInv'
  BY DEF DaemonInv, ForwarderInv
<1>2. Upstream' = Upstream /\ version' = version /\ upstream' = upstream
  BY DEF Upstream
<1>3. Published'
  BY <1>2 DEF DaemonInv, Published, Older
<1>. QED
  BY <1>1, <1>2, <1>3 DEF DaemonInv

\* The session of the client that makes the step.
LEMMA SessionServer ==
  ASSUME Typed, NEW c \in Clients, CallInv(c), LinkInv(c), ServerStep(c) \/ ReadStep(c)
  PROVE  CallInv(c)' /\ LinkInv(c)'
<1>. USE DEF Targets
<1>1. CASE Dispatch(c)
  <2>1. /\ alive[c] /\ request[c] # "none" /\ request'[c] = "none"
        /\ subscribed'[c] = (subscribed[c] \/ request[c] = "subscribe")
        /\ \E v \in Versions : answer'[c] = Reply(v)
        /\ UNCHANGED <<daemonVars, linkVars, tuiVars>>
    BY <1>1, FramesMade DEF Dispatch, Typed, PipelineTypeOK
  <2>2. answer'[c].kind = "reply" /\ answer'[c] # NoFrame
    BY <2>1 DEF Reply, NoFrame
  <2>3. chain[c] \in {"subscribe", "get"}
    BY <2>1 DEF CallInv, Typed, PipelineTypeOK
  <2>. QED
    BY <2>1, <2>2, <2>3 DEF CallInv, LinkInv
<1>2. CASE WriteReply(c)
  <2>1. /\ answer[c] # NoFrame /\ answer'[c] = NoFrame
        /\ wire'[c] = Append(wire[c], answer[c])
        /\ UNCHANGED <<daemonVars, subscribed, request, alive, closed, replied, buffer, tuiVars>>
    BY <1>2 DEF WriteReply, Typed, PipelineTypeOK
  <2>2. OneReply(wire'[c])
    BY <2>1, ClientTypes, AppendReply DEF CallInv
  <2>. QED
    BY <2>1, <2>2 DEF CallInv, LinkInv
<1>3. CASE ReadFrame(c)
  <2>1. /\ wire[c] # <<>> /\ wire'[c] = Tail(wire[c])
        /\ \/ Head(wire[c]).kind = "reply" /\ replied'[c] = Head(wire[c]) /\ buffer' = buffer
           \/ Head(wire[c]).kind # "reply" /\ replied' = replied
        /\ UNCHANGED <<daemonVars, serverVars, alive, closed, tuiVars>>
    BY <1>3 DEF ReadFrame, Typed, PipelineTypeOK
  <2>2. /\ OneReply(Tail(wire[c]))
        /\ Head(wire[c]).kind = "reply" => ~NoReply(wire[c]) /\ NoReply(Tail(wire[c]))
        /\ NoReply(wire[c]) => NoReply(Tail(wire[c]))
    BY <2>1, ClientTypes, TailReply DEF CallInv
  <2>3. CallInv(c)'
    BY <2>1, <2>2 DEF CallInv
  <2>4. LinkInv(c)'
    BY <2>1 DEF LinkInv
  <2>. QED
    BY <2>3, <2>4
<1>4. CASE ReadEnds(c)
  <2>1. /\ wire[c] = <<>> /\ ~alive[c] /\ closed'[c]
        /\ UNCHANGED <<daemonVars, serverVars, wire, alive, replied, buffer, tuiVars>>
    BY <1>4 DEF ReadEnds, Typed, PipelineTypeOK
  <2>. QED
    BY <2>1 DEF CallInv, LinkInv
<1>. QED
  BY <1>1, <1>2, <1>3, <1>4 DEF ServerStep, ReadStep

LEMMA SessionDial ==
  ASSUME Typed, ForwarderInv, NEW c \in Clients, CallInv(c), LinkInv(c),
         Dial(c) \/ DialFails(c) \/ Subscribed(c) \/ GotState(c) \/ CallFails(c)
  PROVE  CallInv(c)' /\ LinkInv(c)'
<1>. USE DEF Targets
<1>1. CASE Dial(c)
  <2>1. /\ chain[c] = "dial" /\ daemonUp /\ alive'[c] /\ ~closed'[c]
        /\ request'[c] = "subscribe" /\ chain'[c] = "subscribe"
        /\ UNCHANGED <<daemonVars, subscribed, answer, wire, replied, buffer>>
    BY <1>1 DEF Dial, Typed, PipelineTypeOK
  <2>. QED
    BY <2>1, EmptyFacts DEF CallInv, LinkInv
<1>2. CASE DialFails(c)
  <2>1. /\ chain[c] = "dial" /\ chain'[c] = "failed"
        /\ UNCHANGED <<daemonVars, serverVars, linkVars>>
    BY <1>2 DEF DialFails, Typed, PipelineTypeOK
  <2>. QED
    BY <2>1 DEF CallInv, LinkInv
<1>3. CASE Subscribed(c)
  <2>1. /\ chain[c] = "subscribe" /\ replied[c] # NoFrame /\ replied'[c] = NoFrame
        /\ request'[c] = (IF alive[c] THEN "get" ELSE "none") /\ chain'[c] = "get"
        /\ UNCHANGED <<daemonVars, subscribed, answer, wire, alive, closed, buffer>>
    BY <1>3 DEF Subscribed, Typed, PipelineTypeOK
  <2>2. request[c] = "none" /\ answer[c] = NoFrame /\ NoReply(wire[c])
    BY <2>1 DEF CallInv
  <2>. QED
    BY <2>1, <2>2 DEF CallInv, LinkInv
<1>4. CASE GotState(c)
  <2>1. /\ chain[c] = "get" /\ replied[c] # NoFrame /\ replied'[c] = NoFrame
        /\ chain'[c] = "connected"
        /\ UNCHANGED <<daemonVars, serverVars, wire, alive, closed, buffer>>
    BY <1>4 DEF GotState, Typed, PipelineTypeOK
  <2>2. request[c] = "none" /\ answer[c] = NoFrame /\ NoReply(wire[c])
    BY <2>1 DEF CallInv
  <2>. QED
    BY <2>1, <2>2 DEF CallInv, LinkInv
<1>5. CASE CallFails(c)
  <2>1. /\ chain[c] \in {"subscribe", "get"} /\ closed[c] /\ replied[c] = NoFrame
        /\ buffer'[c] = <<>> /\ chain'[c] = "failed"
        /\ UNCHANGED <<daemonVars, serverVars, wire, alive, closed, replied>>
    BY <1>5 DEF CallFails, Typed, PipelineTypeOK
  <2>2. request[c] = "none" /\ answer[c] = NoFrame /\ NoReply(wire[c]) /\ ~alive[c]
    BY <2>1, EmptyFacts DEF LinkInv
  <2>. QED
    BY <2>1, <2>2 DEF CallInv, LinkInv
<1>. QED
  BY <1>1, <1>2, <1>3, <1>4, <1>5

LEMMA SessionListen ==
  ASSUME Typed, NEW c \in Clients, CallInv(c), LinkInv(c),
         UpdateConnected(c) \/ Listen(c) \/ ListenEnds(c) \/ UpdateNotif(c) \/ Reconnect(c)
  PROVE  CallInv(c)' /\ LinkInv(c)'
<1>. USE DEF Targets
<1>1. CASE UpdateConnected(c) \/ UpdateNotif(c)
  <2>1. /\ chain[c] \in {"connected", "notif"} /\ chain'[c] = "listen"
        /\ UNCHANGED <<daemonVars, serverVars, linkVars>>
    BY <1>1 DEF UpdateConnected, UpdateNotif, Typed, PipelineTypeOK
  <2>. QED
    BY <2>1 DEF CallInv, LinkInv
<1>2. CASE Listen(c)
  <2>1. /\ chain[c] = "listen" /\ chain'[c] = "notif"
        /\ UNCHANGED <<daemonVars, serverVars, wire, alive, closed, replied>>
    BY <1>2 DEF Listen, Typed, PipelineTypeOK
  <2>. QED
    BY <2>1 DEF CallInv, LinkInv
<1>3. CASE ListenEnds(c)
  <2>1. /\ chain[c] = "listen" /\ buffer[c] = <<>> /\ closed[c] /\ chain'[c] = "failed"
        /\ UNCHANGED <<daemonVars, serverVars, linkVars>>
    BY <1>3 DEF ListenEnds, Typed, PipelineTypeOK
  <2>. QED
    BY <2>1 DEF CallInv, LinkInv
<1>4. CASE Reconnect(c)
  <2>1. /\ chain[c] = "failed" /\ chain'[c] = "dial"
        /\ UNCHANGED <<daemonVars, serverVars, linkVars>>
    BY <1>4 DEF Reconnect, Typed, PipelineTypeOK
  <2>. QED
    BY <2>1 DEF CallInv, LinkInv
<1>. QED
  BY <1>1, <1>2, <1>3, <1>4

-----------------------------------------------------------------------------
(* What a client's steps do to the versions on their way to it.            *)

LEMMA OrderedSmaller ==
  ASSUME NEW c \in Clients, Ordered(c), version' = version,
         InHand(c)' \subseteq InHand(c), InBuffer(c)' \subseteq InBuffer(c),
         InWire(c)' \subseteq InWire(c), InFwd(c)' \subseteq InFwd(c), Upstream' \subseteq Upstream,
         Sorted(wire[c])', Sorted(buffer[c])',
         c \in followed' => /\ c \in followed /\ shown'[c] = shown[c]
                            /\ chain'[c] \in {"listen", "notif", "failed"}
  PROVE  Ordered(c)'
<1>1. InOrder(InHand(c), InBuffer(c), InWire(c), InFwd(c), Upstream)'
  BY DEF Ordered, InOrder, Upto
<1>2. OnWay(c)' \subseteq OnWay(c)
  BY DEF OnWay
<1>. QED
  BY <1>1, <1>2 DEF Ordered, Upto

\* Nothing leaves the way, and the client does not forget.
LEMMA FollowsKeeps ==
  ASSUME NEW c \in Clients, Follows(c), UNCHANGED <<version, unsent>>,
         OnWay(c)' = OnWay(c), alive'[c] => alive[c], c \in lost => c \in lost',
         alive'[c] /\ subscribed'[c] => (subscribed[c] /\ (Knows(c) => Knows(c)')) \/ Knows(c)'
  PROVE  Follows(c)'
BY DEF Follows, Older

LEMMA FollowsDead == ASSUME NEW c \in Clients, ~alive'[c] PROVE Follows(c)'
BY DEF Follows

\* Only the socket, the buffer and the message in progress change.
LEMMA SameForwarder ==
  ASSUME UNCHANGED daemonVars
  PROVE  Upstream' = Upstream /\ \A c \in Clients : InFwd(c)' = InFwd(c)
BY DEF Upstream, InFwd, Targets

LEMMA WayTypes == Typed => Upstream \subseteq Versions /\ \A c \in Clients : OnWay(c) \subseteq Versions
<1>. SUFFICES ASSUME Typed, NEW c \in Clients
              PROVE  Upstream \subseteq Versions /\ OnWay(c) \subseteq Versions
  BY DEF Upstream, StatesIn
<1>1. held[c] \in Frames /\ fwd.note \in Frames
  BY DEF Typed, PipelineTypeOK
<1>2. StatesOf(held[c]) \subseteq Versions /\ StatesOf(fwd.note) \subseteq Versions
  BY <1>1, Types DEF StatesOf
<1>. QED
  BY <1>2 DEF OnWay, InHand, InBuffer, InWire, InFwd, Upstream, StatesIn

LEMMA PathServer ==
  ASSUME Typed, NEW c \in Clients, ClientInv(c), Dispatch(c) \/ WriteReply(c)
  PROVE  Ordered(c)' /\ Follows(c)'
<1>. USE DEF ClientInv
<1>1. CASE Dispatch(c)
  <2>1. /\ request[c] # "none" /\ request[c] \in {"none", "subscribe", "get"}
        /\ subscribed'[c] = (subscribed[c] \/ request[c] = "subscribe")
        /\ answer'[c] = Reply(IF request[c] = "get" THEN version ELSE 0)
        /\ UNCHANGED <<daemonVars, linkVars, tuiVars, history>>
    BY <1>1 DEF Dispatch, Typed, PipelineTypeOK
  <2>2. /\ InHand(c)' = InHand(c) /\ InBuffer(c)' = InBuffer(c) /\ InWire(c)' = InWire(c)
        /\ InFwd(c)' = InFwd(c) /\ Upstream' = Upstream
    BY <2>1, SameForwarder DEF InHand, InBuffer, InWire
  <2>3. Ordered(c)'
    BY <2>1, <2>2, OrderedSmaller DEF Ordered
  <2>4. OnWay(c)' = OnWay(c)
    BY <2>2 DEF OnWay
  <2>5. Knows(c)'
    BY <2>1 DEF Knows, CallInv
  <2>. QED
    BY <2>1, <2>3, <2>4, <2>5, FollowsKeeps
<1>2. CASE WriteReply(c)
  <2>1. /\ answer[c] # NoFrame /\ wire'[c] = Append(wire[c], answer[c])
        /\ UNCHANGED <<daemonVars, subscribed, request, alive, closed, replied, buffer, tuiVars,
                       history>>
    BY <1>2 DEF WriteReply, Typed, PipelineTypeOK
  <2>2. answer[c].kind = "reply" /\ StatesOf(answer[c]) = {}
    BY <2>1 DEF CallInv, StatesOf
  <2>3. wire[c] \in Seq(Frames) /\ answer[c] \in Frames /\ Sorted(wire[c])
    BY ClientTypes DEF Ordered
  <2>4. InWire(c)' = InWire(c) /\ Sorted(wire'[c])
    BY <2>1, <2>2, <2>3, AppendStates, AppendSorted DEF InWire, Upto
  <2>5. /\ InHand(c)' = InHand(c) /\ InBuffer(c)' = InBuffer(c)
        /\ InFwd(c)' = InFwd(c) /\ Upstream' = Upstream
    BY <2>1, SameForwarder DEF InHand, InBuffer
  <2>6. Ordered(c)'
    BY <2>1, <2>4, <2>5, OrderedSmaller DEF Ordered
  <2>7. OnWay(c)' = OnWay(c)
    BY <2>4, <2>5 DEF OnWay
  <2>8. version \in Versions
    BY DEF Typed, PipelineTypeOK
  <2>9. /\ HasReply(wire[c], version) => HasReply(wire'[c], version)
        /\ answer[c] = Reply(version) => HasReply(wire'[c], version)
    BY <2>1, <2>2, <2>3, <2>8, AppendReply DEF Reply
  <2>10. Knows(c) => Knows(c)'
    BY <2>1, <2>9 DEF Knows, CallInv
  <2>. QED
    BY <2>1, <2>6, <2>7, <2>10, FollowsKeeps
<1>. QED
  BY <1>1, <1>2

LEMMA PathRead ==
  ASSUME Typed, NEW c \in Clients, ClientInv(c), ReadFrame(c) \/ ReadEnds(c)
  PROVE  Ordered(c)' /\ Follows(c)'
<1>. USE DEF ClientInv
<1>1. CASE ReadFrame(c)
  <2>. DEFINE frame == Head(wire[c])
              X == StatesOf(frame)
  <2>1. /\ wire[c] # <<>> /\ wire'[c] = Tail(wire[c])
        /\ UNCHANGED <<daemonVars, serverVars, alive, tuiVars, unsent, followed>>
    BY <1>1 DEF ReadFrame, Typed, PipelineTypeOK
  <2>2. /\ wire[c] \in Seq(Frames) /\ buffer[c] \in Seq(Frames) /\ frame \in Frames
        /\ version \in Versions
    BY <2>1, ClientTypes, TailFacts DEF Typed, PipelineTypeOK
  <2>3. InWire(c) = InWire(c)' \cup X /\ Sorted(wire'[c]) /\ Upto(X, InWire(c)')
    BY <2>1, <2>2, TailStates, TailSorted DEF InWire, Ordered
  <2>4. HasReply(wire[c], version) => frame = Reply(version) \/ HasReply(wire'[c], version)
    BY <2>1, <2>2, TailReply
  <2>5. InHand(c)' = InHand(c) /\ InFwd(c)' = InFwd(c) /\ Upstream' = Upstream
    BY <2>1, SameForwarder DEF InHand
  <2>. HIDE DEF frame
  <2>6. CASE frame.kind = "reply" /\ replied'[c] = frame /\ buffer' = buffer /\ lost' = lost
    <3>1. X = {} /\ InBuffer(c)' = InBuffer(c)
      BY <2>6 DEF StatesOf, InBuffer
    <3>2. Ordered(c)'
      BY <2>1, <2>3, <2>5, <2>6, <3>1, OrderedSmaller DEF Ordered
    <3>3. OnWay(c)' = OnWay(c)
      BY <2>3, <2>5, <3>1 DEF OnWay
    <3>4. OneReply(wire[c]) /\ (replied[c] # NoFrame => NoReply(wire[c]))
      BY DEF CallInv
    <3>5. ~NoReply(wire[c]) /\ Reply(version) # NoFrame
      BY <2>1, <2>2, <2>6, TailReply DEF frame, Reply, NoFrame
    <3>6. Knows(c) => Knows(c)'
      BY <2>1, <2>4, <2>6, <3>4, <3>5 DEF Knows
    <3>. QED
      BY <2>1, <2>6, <3>2, <3>3, <3>6, FollowsKeeps
  <2>7. ASSUME frame.kind # "reply", replied' = replied PROVE Knows(c) => Knows(c)'
    <3>1. frame # Reply(version)
      BY <2>7 DEF Reply
    <3>. QED
      BY <2>1, <2>4, <2>7, <3>1 DEF Knows
  <2>8. CASE /\ frame.kind # "reply" /\ replied' = replied /\ lost' = lost
             /\ buffer'[c] = Append(buffer[c], frame)
    <3>1. /\ InBuffer(c)' = InBuffer(c) \cup X
          /\ Upto(InBuffer(c), X) => Sorted(buffer'[c])
      BY <2>2, <2>8, AppendStates, AppendSorted DEF InBuffer, Ordered
    <3>2. Sorted(buffer'[c])
      BY <2>3, <3>1 DEF Ordered, InOrder, Upto
    <3>3. OnWay(c)' = OnWay(c)
      BY <2>3, <2>5, <3>1 DEF OnWay
    <3>4. InOrder(InHand(c), InBuffer(c), InWire(c), InFwd(c), Upstream)'
      BY <2>3, <2>5, <3>1 DEF Ordered, InOrder, Upto
    <3>5. Ordered(c)'
      BY <2>1, <2>3, <3>2, <3>3, <3>4 DEF Ordered
    <3>. QED
      BY <2>1, <2>7, <2>8, <3>3, <3>5, FollowsKeeps
  <2>9. CASE /\ frame.kind # "reply" /\ replied' = replied /\ buffer' = buffer
             /\ lost' = IF frame = StateChanged(version) THEN lost \cup {c} ELSE lost
    <3>1. InBuffer(c)' = InBuffer(c)
      BY <2>9 DEF InBuffer
    <3>2. Ordered(c)'
      BY <2>1, <2>3, <2>5, <2>9, <3>1, OrderedSmaller DEF Ordered
    <3>3. CASE frame = StateChanged(version)
      BY <2>9, <3>2, <3>3 DEF Follows
    <3>4. CASE frame # StateChanged(version)
      <4>1. version \notin X
        BY <2>2, <3>4 DEF StatesOf, StateChanged, Frames
      <4>2. /\ OnWay(c)' \subseteq OnWay(c)
            /\ version \in OnWay(c) => version \in OnWay(c)'
        BY <2>3, <2>5, <3>1, <4>1 DEF OnWay
      <4>3. Follows(c)'
        BY <2>1, <2>7, <2>9, <3>4, <4>2 DEF Follows, Older
      <4>. QED
        BY <3>2, <4>3
    <3>. QED
      BY <3>2, <3>3, <3>4
  <2>. QED
    BY <1>1, <2>6, <2>8, <2>9 DEF ReadFrame, frame, Typed, PipelineTypeOK
<1>2. CASE ReadEnds(c)
  <2>1. /\ wire[c] = <<>> /\ ~alive[c]
        /\ UNCHANGED <<daemonVars, wire, alive, replied, buffer, tuiVars, history>>
    BY <1>2 DEF ReadEnds
  <2>2. /\ InHand(c)' = InHand(c) /\ InBuffer(c)' = InBuffer(c) /\ InWire(c)' = InWire(c)
        /\ InFwd(c)' = InFwd(c) /\ Upstream' = Upstream
    BY <2>1, SameForwarder DEF InHand, InBuffer, InWire
  <2>3. Ordered(c)'
    BY <2>1, <2>2, OrderedSmaller DEF Ordered
  <2>. QED
    BY <2>1, <2>3, FollowsDead
<1>. QED
  BY <1>1, <1>2

LEMMA PathDial ==
  ASSUME Typed, DaemonInv, NEW c \in Clients, ClientInv(c),
         Dial(c) \/ DialFails(c) \/ Subscribed(c) \/ GotState(c) \/ CallFails(c)
  PROVE  Ordered(c)' /\ Follows(c)'
<1>. USE DEF ClientInv
<1>1. UNCHANGED <<daemonVars, wire, unsent, followed, shown>> /\ Sorted(wire'[c])
  BY DEF Dial, DialFails, Subscribed, GotState, CallFails, Ordered
<1>2. InWire(c)' = InWire(c) /\ InFwd(c)' = InFwd(c) /\ Upstream' = Upstream
  BY <1>1, SameForwarder DEF InWire
<1>3. CASE Dial(c)
  <2>1. /\ chain[c] = "dial" /\ ~alive[c] /\ chain'[c] = "subscribe" /\ buffer' = buffer
        /\ subscribed' = subscribed
    BY <1>3 DEF Dial, Typed, PipelineTypeOK, LinkInv
  <2>2. InHand(c)' = {} /\ InHand(c) = {} /\ InBuffer(c)' = InBuffer(c)
    BY <2>1 DEF InHand, InBuffer
  <2>3. Ordered(c)'
    BY <1>1, <1>2, <2>1, <2>2, OrderedSmaller DEF Ordered
  <2>4. ~subscribed[c] /\ c \notin Targets /\ wire[c] = <<>> /\ buffer[c] = <<>>
    BY <2>1 DEF LinkInv
  <2>5. InBuffer(c) = {} /\ InWire(c) = {} /\ InFwd(c) = IF fwd.pc = "copy" THEN StatesOf(fwd.note) ELSE {}
    BY <2>4, EmptyFacts DEF InBuffer, InWire, InFwd
  <2>6. OnWay(c)' = InFwd(c) \cup Upstream
    BY <1>2, <2>2, <2>5 DEF OnWay
  <2>7. ~unsent /\ Older(OnWay(c)') => version \in OnWay(c)'
    BY <2>5, <2>6 DEF DaemonInv, Published, Older
  <2>. QED
    BY <1>1, <2>1, <2>3, <2>4, <2>7 DEF Follows, Older
<1>4. CASE DialFails(c)
  <2>1. /\ chain[c] = "dial" /\ ~alive[c] /\ chain'[c] = "failed" /\ UNCHANGED <<buffer, alive>>
    BY <1>4 DEF DialFails, Typed, PipelineTypeOK, LinkInv
  <2>2. InHand(c)' = {} /\ InHand(c) = {} /\ InBuffer(c)' = InBuffer(c)
    BY <2>1 DEF InHand, InBuffer
  <2>3. Ordered(c)'
    BY <1>1, <1>2, <2>1, <2>2, OrderedSmaller DEF Ordered
  <2>. QED
    BY <2>1, <2>3, FollowsDead
<1>5. CASE Subscribed(c)
  <2>1. /\ chain[c] = "subscribe" /\ chain'[c] = "get"
        /\ request'[c] = IF alive[c] THEN "get" ELSE "none"
        /\ UNCHANGED <<buffer, alive, subscribed, lost>>
    BY <1>5 DEF Subscribed, Typed, PipelineTypeOK
  <2>2. InHand(c)' = {} /\ InHand(c) = {} /\ InBuffer(c)' = InBuffer(c)
    BY <2>1 DEF InHand, InBuffer
  <2>3. Ordered(c)'
    BY <1>1, <1>2, <2>1, <2>2, OrderedSmaller DEF Ordered
  <2>4. OnWay(c)' = OnWay(c)
    BY <1>2, <2>2 DEF OnWay
  <2>5. alive[c] => Knows(c)'
    BY <2>1 DEF Knows
  <2>. QED
    BY <1>1, <2>1, <2>3, <2>4, <2>5, FollowsKeeps
<1>6. CASE GotState(c)
  <2>1. /\ chain[c] = "get" /\ chain'[c] = "connected" /\ replied[c] # NoFrame
        /\ held'[c] = replied[c] /\ UNCHANGED <<buffer, alive, subscribed, lost>>
    BY <1>6 DEF GotState, Typed, PipelineTypeOK
  <2>2. InHand(c)' = {} /\ InHand(c) = {} /\ InBuffer(c)' = InBuffer(c)
    BY <2>1 DEF InHand, InBuffer
  <2>3. Ordered(c)'
    BY <1>1, <1>2, <2>1, <2>2, OrderedSmaller DEF Ordered
  <2>4. OnWay(c)' = OnWay(c)
    BY <1>2, <2>2 DEF OnWay
  <2>5. request[c] = "none" /\ answer[c] = NoFrame /\ NoReply(wire[c])
    BY <2>1 DEF CallInv
  <2>6. ~HasReply(wire[c], version) /\ NoFrame # Reply(version)
    BY <2>5 DEF NoReply, HasReply, Reply, NoFrame
  <2>7. Knows(c) => Knows(c)'
    BY <1>1, <2>1, <2>5, <2>6 DEF Knows
  <2>. QED
    BY <1>1, <2>1, <2>3, <2>4, <2>7, FollowsKeeps
<1>7. CASE CallFails(c)
  <2>1. /\ chain[c] \in {"subscribe", "get"} /\ ~alive[c] /\ chain'[c] = "failed"
        /\ buffer'[c] = <<>> /\ UNCHANGED alive
    BY <1>7 DEF CallFails, Typed, PipelineTypeOK, LinkInv
  <2>2. InHand(c)' = {} /\ InHand(c) = {} /\ InBuffer(c)' = {} /\ Sorted(buffer'[c])
    BY <2>1, EmptyFacts DEF InHand, InBuffer
  <2>3. Ordered(c)'
    BY <1>1, <1>2, <2>1, <2>2, OrderedSmaller DEF Ordered
  <2>. QED
    BY <2>1, <2>3, FollowsDead
<1>. QED
  BY <1>3, <1>4, <1>5, <1>6, <1>7

LEMMA PathListen ==
  ASSUME Typed, NEW c \in Clients, ClientInv(c),
         UpdateConnected(c) \/ Listen(c) \/ ListenEnds(c) \/ UpdateNotif(c) \/ Reconnect(c)
  PROVE  Ordered(c)' /\ Follows(c)'
<1>. USE DEF ClientInv
<1>1. /\ UNCHANGED <<daemonVars, serverVars, wire, alive, unsent, lost>>
      /\ Sorted(wire'[c])
  BY DEF UpdateConnected, Listen, ListenEnds, UpdateNotif, Reconnect, Ordered
<1>2. InWire(c)' = InWire(c) /\ InFwd(c)' = InFwd(c) /\ Upstream' = Upstream
  BY <1>1, SameForwarder DEF InWire
<1>3. CASE UpdateConnected(c)
  <2>1. /\ chain[c] = "connected" /\ chain'[c] = "listen" /\ shown'[c] = held[c].version
        /\ UNCHANGED <<buffer, followed>>
    BY <1>3 DEF UpdateConnected, Typed, PipelineTypeOK
  <2>2. InHand(c)' = {} /\ InHand(c) = {} /\ InBuffer(c)' = InBuffer(c)
    BY <2>1 DEF InHand, InBuffer
  <2>3. Ordered(c)'
    BY <1>1, <1>2, <2>1, <2>2, OrderedSmaller DEF Ordered
  <2>4. OnWay(c)' = OnWay(c)
    BY <1>2, <2>2 DEF OnWay
  <2>5. Knows(c) => Knows(c)'
    BY <1>1, <2>1 DEF Knows, Reply
  <2>. QED
    BY <1>1, <2>3, <2>4, <2>5, FollowsKeeps
<1>4. CASE Listen(c)
  <2>. DEFINE X == StatesOf(Head(buffer[c]))
  <2>1. /\ chain[c] = "listen" /\ chain'[c] = "notif" /\ buffer[c] # <<>>
        /\ held'[c] = Head(buffer[c]) /\ buffer'[c] = Tail(buffer[c])
        /\ UNCHANGED <<shown, followed>>
    BY <1>4 DEF Listen, Typed, PipelineTypeOK
  <2>2. InHand(c)' = X /\ InHand(c) = {}
    BY <2>1 DEF InHand
  <2>3. /\ InBuffer(c) = InBuffer(c)' \cup X /\ Sorted(buffer'[c]) /\ Upto(X, InBuffer(c)')
    BY <2>1, ClientTypes, TailStates, TailSorted DEF InBuffer, Ordered
  <2>. HIDE DEF X
  <2>4. InOrder(InHand(c), InBuffer(c), InWire(c), InFwd(c), Upstream)'
    BY <1>2, <2>2, <2>3 DEF Ordered, InOrder, Upto
  <2>5. OnWay(c)' = OnWay(c)
    BY <1>2, <2>2, <2>3 DEF OnWay
  <2>6. Ordered(c)'
    BY <1>1, <2>1, <2>3, <2>4, <2>5 DEF Ordered
  <2>7. Knows(c) => Knows(c)'
    BY <1>1, <2>1 DEF Knows
  <2>. QED
    BY <1>1, <2>5, <2>6, <2>7, FollowsKeeps
<1>5. CASE ListenEnds(c)
  <2>1. /\ chain[c] = "listen" /\ chain'[c] = "failed" /\ ~alive[c]
        /\ UNCHANGED <<buffer, shown, followed>>
    BY <1>5 DEF ListenEnds, Typed, PipelineTypeOK, LinkInv
  <2>2. InHand(c)' = {} /\ InHand(c) = {} /\ InBuffer(c)' = InBuffer(c)
    BY <2>1 DEF InHand, InBuffer
  <2>3. Ordered(c)'
    BY <1>1, <1>2, <2>1, <2>2, OrderedSmaller DEF Ordered
  <2>. QED
    BY <1>1, <2>1, <2>3, FollowsDead
<1>6. CASE UpdateNotif(c)
  <2>1. /\ chain[c] = "notif" /\ chain'[c] = "listen" /\ buffer' = buffer
        /\ held[c].version \in Versions
    BY <1>6, ClientTypes, Types DEF UpdateNotif, Typed, PipelineTypeOK
  <2>2. InHand(c)' = {} /\ InHand(c) = StatesOf(held[c]) /\ InBuffer(c)' = InBuffer(c)
    BY <2>1 DEF InHand, InBuffer
  <2>3. InOrder(InHand(c), InBuffer(c), InWire(c), InFwd(c), Upstream)'
    BY <1>2, <2>2 DEF Ordered, InOrder, Upto
  <2>4. OnWay(c) = OnWay(c)' \cup StatesOf(held[c]) /\ Upto(StatesOf(held[c]), OnWay(c)')
    BY <1>2, <2>2 DEF OnWay, Ordered, InOrder, Upto
  <2>5. CASE held[c].kind = "state"
    <3>. DEFINE v == held[c].version
    <3>1. shown'[c] = v /\ StatesOf(held[c]) = {v} /\ \A d \in Clients \ {c} : d \in followed' <=> d \in followed
      BY <1>6, <2>5 DEF UpdateNotif, Typed, PipelineTypeOK, StatesOf
    <3>. HIDE DEF v
    <3>2. Upto({shown'[c]}, OnWay(c)' \cup {version})
      BY <2>4, <3>1 DEF Ordered, Upto
    <3>3. Ordered(c)'
      BY <1>1, <2>1, <2>3, <2>4, <3>2 DEF Ordered, Upto
    <3>4. CASE v = version
      <4>1. Knows(c)'
        BY <1>1, <2>1, <3>1, <3>4 DEF Knows
      <4>2. OnWay(c) \subseteq Versions /\ version \in Versions
        BY WayTypes DEF Typed, PipelineTypeOK
      <4>3. \A x \in OnWay(c)' : x = version
        BY <2>4, <3>1, <3>4, <4>2 DEF Ordered, Upto, Versions
      <4>. QED
        BY <1>1, <3>3, <4>1, <4>3 DEF Follows, Older
    <3>5. CASE v # version
      <4>1. version \in OnWay(c) => version \in OnWay(c)'
        BY <2>4, <3>1, <3>5
      <4>2. Older(OnWay(c))
        BY <2>4, <3>1, <3>5 DEF Older
      <4>3. alive[c] /\ ~unsent /\ c \notin lost => version \in OnWay(c)'
        BY <4>1, <4>2 DEF Follows
      <4>. QED
        BY <1>1, <3>3, <4>3 DEF Follows
    <3>. QED
      BY <3>4, <3>5
  <2>6. CASE held[c].kind # "state"
    <3>1. StatesOf(held[c]) = {} /\ UNCHANGED <<shown, followed>>
      BY <1>6, <2>6 DEF UpdateNotif, StatesOf
    <3>2. Ordered(c)'
      BY <1>1, <1>2, <2>1, <2>2, <3>1, OrderedSmaller DEF Ordered
    <3>3. Knows(c) => Knows(c)'
      BY <1>1, <2>1, <3>1 DEF Knows
    <3>. QED
      BY <1>1, <2>4, <3>1, <3>2, <3>3, FollowsKeeps
  <2>. QED
    BY <2>5, <2>6
<1>7. CASE Reconnect(c)
  <2>1. /\ chain[c] = "failed" /\ chain'[c] = "dial" /\ ~alive[c] /\ buffer' = buffer
        /\ c \notin followed'
    BY <1>7 DEF Reconnect, Typed, PipelineTypeOK, LinkInv
  <2>2. InHand(c)' = {} /\ InHand(c) = {} /\ InBuffer(c)' = InBuffer(c)
    BY <2>1 DEF InHand, InBuffer
  <2>3. Ordered(c)'
    BY <1>1, <1>2, <2>1, <2>2, OrderedSmaller DEF Ordered
  <2>. QED
    BY <1>1, <2>1, <2>3, FollowsDead
<1>. QED
  BY <1>3, <1>4, <1>5, <1>6, <1>7

-----------------------------------------------------------------------------
(* The steps of the daemon.                                                *)

\* The links and calls of clients are left alone.
LEMMA SessionSame ==
  ASSUME NEW c \in Clients, CallInv(c), LinkInv(c),
         UNCHANGED <<serverVars, linkVars, chain>>, daemonUp => daemonUp',
         c \in Targets' => c \in Targets
  PROVE  CallInv(c)' /\ LinkInv(c)'
BY DEF CallInv, LinkInv

\* What of a client's way a step leaves alone that touches no client.
LEMMA SameLinks ==
  ASSUME NEW c \in Clients, UNCHANGED <<wire, buffer, chain, held>>
  PROVE  InHand(c)' = InHand(c) /\ InBuffer(c)' = InBuffer(c) /\ InWire(c)' = InWire(c)
BY DEF InHand, InBuffer, InWire

LEMMA PathChange ==
  ASSUME PathInv, Change
  PROVE  DaemonInv' /\ \A c \in Clients : ClientInv(c)'
<1>. DEFINE v == version + 1
            note == StateChanged(v)
<1>1. /\ v \in Versions /\ version \in Versions /\ upstream \in Seq(Frames)
      /\ note \in Frames /\ note.kind = "state" /\ StatesOf(note) = {v} /\ \A x \in Versions : x <= version => x <= v
  <2>1. v \in Versions /\ version \in Versions /\ upstream \in Seq(Frames)
    BY Bounds DEF PathInv, Typed, PipelineTypeOK, Change, Versions
  <2>2. \A x \in Versions : x <= version => x <= v
    BY <2>1 DEF Versions
  <2>. QED
    BY <2>1, <2>2, FramesMade DEF StateChanged, StatesOf
<1>2. /\ version' = v /\ unsent' = (Len(upstream) = UpCap) /\ fwd' = fwd
      /\ daemonUp /\ daemonUp' /\ UNCHANGED <<serverVars, linkVars, tuiVars, followed>>
      /\ upstream' = IF Len(upstream) < UpCap THEN Append(upstream, note) ELSE upstream
      /\ ~unsent' => Len(upstream) < UpCap
  <2>1. Len(upstream) <= UpCap /\ Len(upstream) \in Nat /\ UpCap \in Nat
    BY <1>1, Bounds, AppendFacts DEF PathInv, Typed, PipelineTypeOK
  <2>2. /\ version' = v /\ unsent' = (Len(upstream) = UpCap) /\ fwd' = fwd
        /\ daemonUp /\ daemonUp' /\ UNCHANGED <<serverVars, linkVars, tuiVars, followed>>
    BY DEF Change
  <2>3. upstream' = IF Len(upstream) < UpCap THEN Append(upstream, note) ELSE upstream
    BY DEF Change, Publish
  <2>4. ~unsent' => Len(upstream) < UpCap
    <3>1. ~unsent' => Len(upstream) # UpCap
      BY <2>2, Zenon
    <3>. QED
      BY <2>1, <3>1
  <2>. QED
    BY <2>2, <2>3, <2>4
<1>. HIDE DEF v, note
<1>3. /\ Upstream' \subseteq Upstream \cup {v} /\ Sorted(upstream') /\ NoReply(upstream')
      /\ ~unsent' => v \in Upstream'
  <2>1. CASE upstream' = upstream /\ unsent'
    BY <2>1 DEF PathInv, DaemonInv, ForwarderInv, Upstream
  <2>2. CASE upstream' = Append(upstream, note)
    <3>1. Upto(Upstream, StatesOf(note))
      BY <1>1, WayTypes DEF PathInv, DaemonInv, Upto
    <3>2. Upstream' = Upstream \cup StatesOf(note) /\ Sorted(upstream')
      BY <1>1, <2>2, <3>1, AppendStates, AppendSorted DEF Upstream, PathInv, DaemonInv
    <3>3. NoReply(upstream')
      BY <1>1, <2>2, AppendReply DEF PathInv, DaemonInv, ForwarderInv
    <3>. QED
      BY <1>1, <3>2, <3>3
  <2>. QED
    BY <1>2, <2>1, <2>2
<1>4. DaemonInv'
  <2>1. ForwarderInv'
    BY <1>2, <1>3 DEF PathInv, DaemonInv, ForwarderInv
  <2>2. Upto(Upstream, {version})'
    BY <1>1, <1>2, <1>3, WayTypes DEF PathInv, DaemonInv, Upto, Versions
  <2>3. Published'
    BY <1>2, <1>3 DEF Published
  <2>. QED
    BY <1>3, <2>1, <2>2, <2>3 DEF DaemonInv
<1>5. ASSUME NEW c \in Clients PROVE ClientInv(c)'
  <2>1. /\ InHand(c)' = InHand(c) /\ InBuffer(c)' = InBuffer(c) /\ InWire(c)' = InWire(c)
        /\ InFwd(c)' = InFwd(c)
    BY <1>2, SameLinks DEF InFwd, Targets
  <2>2. OnWay(c)' \subseteq OnWay(c) \cup {v} /\ OnWay(c) \subseteq Versions
    BY <1>3, <2>1, WayTypes DEF OnWay, PathInv
  <2>3. shown[c] \in Versions
    BY ClientTypes DEF PathInv
  <2>4. \A x \in OnWay(c) : x <= v
    BY <1>1, <2>2 DEF PathInv, ClientInv, Ordered, Upto
  <2>5. InOrder(InHand(c), InBuffer(c), InWire(c), InFwd(c), Upstream)'
    BY <1>3, <2>1, <2>4 DEF PathInv, ClientInv, Ordered, InOrder, Upto, OnWay
  <2>6. Upto(OnWay(c), {version})'
    BY <1>1, <1>2, <2>2, <2>4 DEF Upto, Versions
  <2>7. c \in followed' => Upto({shown[c]}, OnWay(c) \cup {version})'
    BY <1>1, <1>2, <2>2, <2>3 DEF PathInv, ClientInv, Ordered, Upto
  <2>8. Ordered(c)'
    BY <1>2, <2>5, <2>6, <2>7 DEF PathInv, ClientInv, Ordered
  <2>9. Follows(c)'
    BY <1>2, <1>3 DEF Follows, OnWay
  <2>10. CallInv(c)' /\ LinkInv(c)'
    BY <1>2, SessionSame DEF PathInv, ClientInv, Targets
  <2>. QED
    BY <2>8, <2>9, <2>10 DEF ClientInv
<1>. QED
  BY <1>4, <1>5

LEMMA PathProgress ==
  ASSUME PathInv, Progress
  PROVE  DaemonInv' /\ \A c \in Clients : ClientInv(c)'
<1>1. UNCHANGED <<version, daemonUp, fwd, serverVars, linkVars, tuiVars, history>>
  BY DEF Progress
<1>2. Upstream' = Upstream /\ Sorted(upstream') /\ NoReply(upstream')
  <2>1. CASE upstream' = upstream
    BY <2>1 DEF PathInv, DaemonInv, ForwarderInv, Upstream
  <2>2. CASE upstream' = Append(upstream, ProgressTick)
    <3>1. /\ ProgressTick \in Frames /\ StatesOf(ProgressTick) = {} /\ ProgressTick.kind # "reply"
          /\ upstream \in Seq(Frames)
      BY FramesMade DEF ProgressTick, StatesOf, PathInv, Typed, PipelineTypeOK
    <3>2. Upstream' = Upstream /\ Sorted(upstream')
      BY <2>2, <3>1, AppendStates, AppendSorted DEF Upstream, PathInv, DaemonInv, Upto
    <3>3. NoReply(upstream')
      BY <2>2, <3>1, AppendReply DEF PathInv, DaemonInv, ForwarderInv
    <3>. QED
      BY <3>2, <3>3
  <2>. QED
    BY <2>1, <2>2 DEF Progress, Publish
<1>3. DaemonInv'
  <2>1. ForwarderInv'
    BY <1>1, <1>2 DEF Progress, PathInv, DaemonInv, ForwarderInv
  <2>2. Published'
    BY <1>1, <1>2 DEF PathInv, DaemonInv, Published, Older
  <2>. QED
    BY <1>1, <1>2, <2>1, <2>2 DEF PathInv, DaemonInv
<1>4. ASSUME NEW c \in Clients PROVE ClientInv(c)'
  <2>1. /\ InHand(c)' = InHand(c) /\ InBuffer(c)' = InBuffer(c) /\ InWire(c)' = InWire(c)
        /\ InFwd(c)' = InFwd(c)
    BY <1>1, SameLinks DEF InFwd, Targets
  <2>2. OnWay(c)' = OnWay(c)
    BY <1>2, <2>1 DEF OnWay
  <2>3. Ordered(c)'
    BY <1>1, <1>2, <2>1, OrderedSmaller DEF PathInv, ClientInv, Ordered
  <2>4. Knows(c) => Knows(c)'
    BY <1>1 DEF Knows
  <2>5. Follows(c)'
    BY <1>1, <2>2, <2>4, FollowsKeeps DEF PathInv, ClientInv
  <2>6. CallInv(c)' /\ LinkInv(c)'
    BY <1>1, SessionSame DEF PathInv, ClientInv, Targets
  <2>. QED
    BY <2>3, <2>5, <2>6 DEF ClientInv
<1>. QED
  BY <1>3, <1>4

\* The loop of Broadcast moves on to some of C.
LEMMA TowardsFacts ==
  ASSUME NEW C \in SUBSET Clients, fwd' \in Towards(C)
  PROVE  /\ fwd'.pc \in {"idle", "send"}
         /\ fwd'.pc = "idle" => fwd' = IdleForwarder
         /\ fwd'.pc = "send" => /\ fwd'.note = fwd.note
                                /\ fwd'.to \in Clients /\ fwd'.to \notin fwd'.todo
         /\ \A c \in Clients : c \in Targets' <=> c \in C
<1>1. CASE C = {}
  BY <1>1, Bounds DEF Towards, IdleForwarder, Targets
<1>2. CASE C # {}
  <2>1. PICK c \in C : fwd' = [pc |-> "send", note |-> fwd.note, to |-> c, todo |-> C \ {c}]
    BY <1>2 DEF Towards
  <2>. QED
    BY <2>1 DEF Targets
<1>. QED
  BY <1>1, <1>2

\* ... with the same notification, if it has one.
LEMMA TowardsForwarder ==
  ASSUME PathInv, NEW C \in SUBSET Clients, fwd' \in Towards(C), fwd.pc # "idle",
         UNCHANGED <<version, daemonUp, upstream, unsent>>
  PROVE  DaemonInv'
<1>1. /\ fwd'.pc \in {"idle", "send"}
      /\ fwd'.pc = "idle" => fwd' = IdleForwarder
      /\ fwd'.pc = "send" => /\ fwd'.note = fwd.note
                                /\ fwd'.to \in Clients /\ fwd'.to \notin fwd'.todo
  BY TowardsFacts
<1>2. daemonUp /\ fwd.note.kind # "reply" /\ NoFrame.kind # "reply"
  BY DEF PathInv, DaemonInv, ForwarderInv, IdleForwarder, NoFrame
<1>3. ForwarderInv'
  BY <1>1, <1>2 DEF PathInv, DaemonInv, ForwarderInv, IdleForwarder
<1>4. Upstream' = Upstream
  BY DEF Upstream
<1>5. Published'
  BY <1>1, <1>4 DEF PathInv, DaemonInv, Published, Older
<1>. QED
  BY <1>3, <1>4, <1>5 DEF PathInv, DaemonInv

LEMMA PathReceive ==
  ASSUME PathInv, ForwardReceive
  PROVE  DaemonInv' /\ \A c \in Clients : ClientInv(c)'
<1>. DEFINE X == StatesOf(Head(upstream))
<1>1. /\ fwd.pc = "idle" /\ upstream # <<>> /\ upstream' = Tail(upstream)
      /\ fwd' = [pc |-> "copy", note |-> Head(upstream), to |-> NoClient, todo |-> {}]
      /\ UNCHANGED <<version, daemonUp, serverVars, linkVars, tuiVars, history>>
  BY DEF ForwardReceive, IdleForwarder
<1>2. upstream \in Seq(Frames) /\ version \in Versions
  BY DEF PathInv, Typed, PipelineTypeOK
<1>3. Upstream = Upstream' \cup X /\ Sorted(upstream') /\ Upto(X, Upstream')
  BY <1>1, <1>2, TailStates, TailSorted DEF Upstream, PathInv, DaemonInv
<1>4. NoReply(upstream') /\ Head(upstream).kind # "reply"
  BY <1>1, <1>2, TailReply DEF PathInv, DaemonInv, ForwarderInv
<1>5. X = {} \/ X = {Head(upstream).version}
  BY DEF StatesOf
<1>. HIDE DEF X
<1>6. DaemonInv'
  <2>1. ForwarderInv'
    BY <1>1, <1>4, EmptyFacts DEF PathInv, DaemonInv, ForwarderInv, IdleForwarder
  <2>2. StatesOf(fwd.note)' = X
    BY <1>1 DEF X, StatesOf
  <2>3. ~unsent /\ Older(Upstream') => version \in Upstream'
    <3>1. CASE version \in X
      <4>1. X = {version}
        BY <1>5, <3>1
      <4>2. \A x \in Upstream' : x = version
        BY <1>2, <1>3, <4>1, WayTypes DEF PathInv, DaemonInv, Upto, Versions
      <4>. QED
        BY <4>2 DEF Older
    <3>2. CASE version \notin X
      BY <1>3, <3>2 DEF PathInv, DaemonInv, Published, Older
    <3>. QED
      BY <3>1, <3>2
  <2>4. ~unsent /\ Older(X) => version \in Upstream'
    BY <1>3, <1>5 DEF PathInv, DaemonInv, Published, Older
  <2>5. Published'
    BY <1>1, <2>2, <2>3, <2>4 DEF Published, Older
  <2>6. Upto(Upstream, {version})'
    BY <1>1, <1>3 DEF PathInv, DaemonInv, Upto
  <2>. QED
    BY <1>3, <2>1, <2>5, <2>6 DEF DaemonInv
<1>7. ASSUME NEW c \in Clients PROVE ClientInv(c)'
  <2>1. InHand(c)' = InHand(c) /\ InBuffer(c)' = InBuffer(c) /\ InWire(c)' = InWire(c)
    BY <1>1, SameLinks
  <2>2. InFwd(c) = {} /\ InFwd(c)' = X
    BY <1>1 DEF InFwd, X, StatesOf
  <2>3. OnWay(c)' = OnWay(c)
    BY <1>3, <2>1, <2>2 DEF OnWay
  <2>4. InOrder(InHand(c), InBuffer(c), InWire(c), InFwd(c), Upstream)'
    BY <1>3, <2>1, <2>2 DEF PathInv, ClientInv, Ordered, InOrder, Upto
  <2>5. Ordered(c)'
    BY <1>1, <2>3, <2>4 DEF PathInv, ClientInv, Ordered
  <2>6. Knows(c) => Knows(c)'
    BY <1>1 DEF Knows
  <2>7. Follows(c)'
    BY <1>1, <2>3, <2>6, FollowsKeeps DEF PathInv, ClientInv
  <2>8. CallInv(c)' /\ LinkInv(c)'
    BY <1>1, Bounds, SessionSame DEF PathInv, ClientInv, Targets
  <2>. QED
    BY <2>5, <2>7, <2>8 DEF ClientInv
<1>. QED
  BY <1>6, <1>7

LEMMA PathCopy ==
  ASSUME PathInv, ForwardCopy
  PROVE  DaemonInv' /\ \A c \in Clients : ClientInv(c)'
<1>. DEFINE C == {c \in Clients : alive[c] /\ subscribed[c]}
<1>1. /\ fwd.pc = "copy" /\ fwd' \in Towards(C)
      /\ UNCHANGED <<version, daemonUp, upstream, serverVars, linkVars, tuiVars, history>>
  BY DEF ForwardCopy
<1>2. C \in SUBSET Clients /\ \A c \in Clients : c \in C <=> alive[c] /\ subscribed[c]
  OBVIOUS
<1>. HIDE DEF C
<1>3. /\ fwd'.pc \in {"idle", "send"}
      /\ fwd'.pc = "idle" => fwd' = IdleForwarder
      /\ fwd'.pc = "send" => /\ fwd'.note = fwd.note
                                /\ fwd'.to \in Clients /\ fwd'.to \notin fwd'.todo
      /\ \A c \in Clients : c \in Targets' <=> c \in C
  BY <1>1, <1>2, TowardsFacts
<1>4. DaemonInv'
  BY <1>1, <1>2, TowardsForwarder
<1>5. Upstream' = Upstream
  BY <1>1 DEF Upstream
<1>6. ASSUME NEW c \in Clients PROVE ClientInv(c)'
  <2>1. InHand(c)' = InHand(c) /\ InBuffer(c)' = InBuffer(c) /\ InWire(c)' = InWire(c)
    BY <1>1, SameLinks
  <2>2. c \notin Targets
    BY <1>1, Bounds DEF PathInv, DaemonInv, ForwarderInv, Targets
  <2>3. /\ InFwd(c) = StatesOf(fwd.note)
        /\ InFwd(c)' = IF c \in C THEN InFwd(c) ELSE {}
    <3>1. InFwd(c) = StatesOf(fwd.note)
      BY <1>1 DEF InFwd
    <3>2. CASE c \in C
      <4>1. c \in Targets' /\ fwd'.pc = "send"
        BY <1>3, <3>2, Bounds DEF IdleForwarder, Targets
      <4>. QED
        BY <1>3, <3>1, <3>2, <4>1 DEF InFwd, StatesOf
    <3>3. CASE c \notin C
      BY <1>3, <3>1, <3>3 DEF InFwd
    <3>. QED
      BY <3>1, <3>2, <3>3
  <2>4. Ordered(c)'
    BY <1>1, <1>5, <2>1, <2>3, OrderedSmaller DEF PathInv, ClientInv, Ordered
  <2>5. Knows(c) => Knows(c)'
    BY <1>1 DEF Knows
  <2>6. Follows(c)'
    <3>1. CASE c \in C
      <4>1. OnWay(c)' = OnWay(c)
        BY <1>5, <2>1, <2>3, <3>1 DEF OnWay
      <4>. QED
        BY <1>1, <2>5, <4>1, FollowsKeeps DEF PathInv, ClientInv
    <3>2. CASE c \notin C /\ alive[c]
      <4>1. ~subscribed[c] /\ chain[c] = "subscribe" /\ wire[c] = <<>> /\ buffer[c] = <<>>
        BY <1>2, <3>2 DEF PathInv, ClientInv, LinkInv
      <4>2. OnWay(c)' = Upstream
        BY <1>5, <2>1, <2>3, <3>2, <4>1, EmptyFacts DEF OnWay, InHand, InBuffer, InWire
      <4>3. ~unsent /\ Older(Upstream) => version \in Upstream
        BY DEF PathInv, DaemonInv, Published
      <4>. QED
        BY <1>1, <4>1, <4>2, <4>3 DEF Follows, Older
    <3>3. CASE ~alive[c]
      BY <1>1, <3>3, FollowsDead
    <3>. QED
      BY <3>1, <3>2, <3>3
  <2>7. CallInv(c)'
    BY <1>1 DEF PathInv, ClientInv, CallInv
  <2>8. LinkInv(c)'
    BY <1>1, <1>2, <1>3 DEF PathInv, ClientInv, LinkInv
  <2>. QED
    BY <2>4, <2>6, <2>7, <2>8 DEF ClientInv
<1>. QED
  BY <1>4, <1>6

LEMMA PathSend ==
  ASSUME PathInv, ForwardSend
  PROVE  DaemonInv' /\ \A c \in Clients : ClientInv(c)'
<1>. DEFINE X == StatesOf(fwd.note)
<1>. PICK to \in Clients : to = fwd.to
  BY DEF ForwardSend, PathInv, DaemonInv, ForwarderInv
<1>1. /\ fwd.pc = "send" /\ fwd' \in Towards(fwd.todo)
      /\ wire' = [wire EXCEPT ![to] = Append(@, fwd.note)]
      /\ UNCHANGED <<version, daemonUp, upstream, serverVars, alive, closed, replied, buffer,
                     tuiVars, history>>
  BY DEF ForwardSend
<1>2. fwd.todo \in SUBSET Clients /\ fwd.note \in Frames /\ fwd.note.kind # "reply"
  BY <1>1 DEF PathInv, DaemonInv, ForwarderInv, Typed, PipelineTypeOK
<1>3. /\ fwd'.pc \in {"idle", "send"}
      /\ fwd'.pc = "idle" => fwd' = IdleForwarder
      /\ fwd'.pc = "send" => fwd'.note = fwd.note
      /\ \A c \in Clients : c \in Targets' <=> c \in fwd.todo
  BY <1>1, <1>2, TowardsFacts
<1>4. DaemonInv'
  BY <1>1, <1>2, TowardsForwarder
<1>5. Upstream' = Upstream
  BY <1>1 DEF Upstream
<1>6. \A c \in Clients : InFwd(c)' = IF c \in fwd.todo THEN X ELSE {}
  <2>. SUFFICES ASSUME NEW c \in Clients PROVE InFwd(c)' = IF c \in fwd.todo THEN X ELSE {}
    OBVIOUS
  <2>1. CASE c \in fwd.todo
    <3>1. c \in Targets' /\ fwd'.pc = "send"
      BY <1>3, <2>1, Bounds DEF IdleForwarder, Targets
    <3>. QED
      BY <1>3, <2>1, <3>1 DEF InFwd, StatesOf
  <2>2. CASE c \notin fwd.todo
    BY <1>3, <2>2 DEF InFwd
  <2>. QED
    BY <2>1, <2>2
<1>7. \A c \in Clients : c \in Targets <=> c = to \/ c \in fwd.todo
  BY DEF Targets
<1>8. to \notin fwd.todo
  BY <1>1 DEF PathInv, DaemonInv, ForwarderInv
<1>9. wire \in [Clients -> Seq(Frames)]
  BY DEF PathInv, Typed, PipelineTypeOK
<1>. HIDE DEF X
<1>10. ASSUME NEW c \in Clients, c # to PROVE ClientInv(c)'
  <2>1. wire'[c] = wire[c]
    BY <1>1, <1>9, <1>10
  <2>2. InHand(c)' = InHand(c) /\ InBuffer(c)' = InBuffer(c) /\ InWire(c)' = InWire(c)
    BY <1>1, <2>1 DEF InHand, InBuffer, InWire
  <2>3. InFwd(c)' = InFwd(c)
    BY <1>1, <1>6, <1>7, <1>10 DEF InFwd, X
  <2>4. OnWay(c)' = OnWay(c)
    BY <1>5, <2>2, <2>3 DEF OnWay
  <2>5. Ordered(c)'
    BY <1>1, <1>5, <2>1, <2>2, <2>3, OrderedSmaller DEF PathInv, ClientInv, Ordered
  <2>6. Knows(c) => Knows(c)'
    BY <1>1, <2>1 DEF Knows
  <2>7. Follows(c)'
    BY <1>1, <2>4, <2>6, FollowsKeeps DEF PathInv, ClientInv
  <2>8. CallInv(c)'
    BY <1>1, <2>1 DEF PathInv, ClientInv, CallInv
  <2>9. LinkInv(c)'
    BY <1>1, <1>3, <1>7, <2>1 DEF PathInv, ClientInv, LinkInv
  <2>. QED
    BY <2>5, <2>7, <2>8, <2>9 DEF ClientInv
<1>11. ClientInv(to)'
  <2>1. wire[to] \in Seq(Frames) /\ wire'[to] = Append(wire[to], fwd.note)
    BY <1>1, <1>2, <1>9
  <2>2. InHand(to)' = InHand(to) /\ InBuffer(to)' = InBuffer(to)
    BY <1>1 DEF InHand, InBuffer
  <2>3. InFwd(to) = X /\ InFwd(to)' = {}
    BY <1>1, <1>2, <1>6, <1>7, <1>8 DEF InFwd, X
  <2>4. InWire(to)' = InWire(to) \cup X
    BY <1>2, <2>1, AppendStates DEF InWire, X
  <2>5. Sorted(wire'[to])
    BY <1>2, <2>1, <2>3, AppendSorted DEF X, InWire, PathInv, ClientInv, Ordered, InOrder, Upto
  <2>6. OnWay(to)' = OnWay(to)
    BY <1>5, <2>2, <2>3, <2>4 DEF OnWay
  <2>7. InOrder(InHand(to), InBuffer(to), InWire(to), InFwd(to), Upstream)'
    BY <1>2, <1>5, <2>2, <2>3, <2>4 DEF PathInv, ClientInv, Ordered, InOrder, Upto
  <2>8. Ordered(to)'
    BY <1>1, <1>2, <2>5, <2>6, <2>7 DEF PathInv, ClientInv, Ordered
  <2>9. version \in Versions
    BY DEF PathInv, Typed, PipelineTypeOK
  <2>10. /\ NoReply(wire[to]) => NoReply(wire'[to])
         /\ OneReply(wire[to]) => OneReply(wire'[to])
         /\ HasReply(wire[to], version) => HasReply(wire'[to], version)
    BY <1>2, <2>1, <2>9, AppendReply
  <2>11. Knows(to) => Knows(to)'
    BY <1>1, <2>10 DEF Knows
  <2>12. Follows(to)'
    BY <1>1, <1>2, <2>6, <2>11, FollowsKeeps DEF PathInv, ClientInv
  <2>13. CallInv(to)'
    BY <1>1, <1>2, <2>10 DEF PathInv, ClientInv, CallInv
  <2>14. LinkInv(to)'
    BY <1>1, <1>2, <1>3, <1>7, <1>8 DEF PathInv, ClientInv, LinkInv
  <2>. QED
    BY <2>8, <2>12, <2>13, <2>14 DEF ClientInv
<1>. QED
  BY <1>4, <1>10, <1>11

LEMMA PathBreaks ==
  ASSUME PathInv, NEW d \in Clients, ConnectionBreaks(d)
  PROVE  DaemonInv' /\ \A c \in Clients : ClientInv(c)'
<1>1. /\ UNCHANGED <<version, daemonUp, upstream, wire, closed, replied, buffer, tuiVars, history>>
      /\ \A c \in Clients \ {d} : UNCHANGED <<alive[c], subscribed[c], request[c], answer[c]>>
      /\ ~alive'[d] /\ ~subscribed'[d] /\ request'[d] = "none" /\ answer'[d] = NoFrame
      /\ fwd' \in IF fwd.to = d THEN Towards(fwd.todo \ {d}) ELSE {[fwd EXCEPT !.todo = @ \ {d}]}
  BY DEF ConnectionBreaks, Broken, PathInv, Typed, PipelineTypeOK
<1>2. /\ fwd \in [pc : {"idle", "copy", "send"}, note : Frames, to : Clients \cup {NoClient},
                  todo : SUBSET Clients]
      /\ Upstream' = Upstream
  BY <1>1 DEF PathInv, Typed, PipelineTypeOK, Upstream
<1>3. /\ DaemonInv'
      /\ \A c \in Clients : c # d /\ c \in Targets' => c \in Targets
      /\ d \notin Targets'
      /\ \A c \in Clients : c # d => InFwd(c)' = InFwd(c)
      /\ InFwd(d)' \subseteq InFwd(d)
  <2>1. CASE fwd.to = d
    <3>. DEFINE C == fwd.todo \ {d}
    <3>1. fwd.pc = "send" /\ fwd' \in Towards(C) /\ C \in SUBSET Clients
      BY <1>1, <1>2, <2>1, Bounds DEF PathInv, DaemonInv, ForwarderInv
    <3>2. \A c \in Clients : c \in C => c \in Targets /\ c # d
      BY DEF Targets
    <3>3. \A c \in Clients : c # d /\ c \in Targets => c \in C
      BY <2>1 DEF Targets
    <3>. HIDE DEF C
    <3>4. DaemonInv'
      BY <1>1, <3>1, TowardsForwarder
    <3>5. /\ fwd'.pc \in {"idle", "send"}
          /\ fwd'.pc = "idle" => fwd' = IdleForwarder
          /\ fwd'.pc = "send" => fwd'.note = fwd.note
          /\ \A c \in Clients : c \in Targets' <=> c \in C
      BY <3>1, TowardsFacts
    <3>6. ASSUME NEW c \in Clients, c \in C PROVE InFwd(c)' = InFwd(c)
      <4>1. c \in Targets' /\ fwd'.pc = "send"
        BY <3>5, <3>6, Bounds DEF IdleForwarder, Targets
      <4>. QED
        BY <3>1, <3>2, <3>5, <3>6, <4>1 DEF InFwd, StatesOf
    <3>7. ASSUME NEW c \in Clients, c \notin C PROVE InFwd(c)' = {} /\ (c # d => InFwd(c) = {})
      BY <3>1, <3>3, <3>5, <3>7 DEF InFwd
    <3>. QED
      BY <3>2, <3>4, <3>5, <3>6, <3>7
  <2>2. CASE fwd.to # d
    <3>1. fwd' = [fwd EXCEPT !.todo = fwd.todo \ {d}]
      BY <1>1, <2>2
    <3>2. /\ fwd'.pc = fwd.pc /\ fwd'.note = fwd.note /\ fwd'.to = fwd.to
          /\ fwd'.todo = fwd.todo \ {d}
      BY <1>2, <3>1
    <3>3. Targets' = Targets \ {d}
      BY <2>2, <3>2 DEF Targets
    <3>4. /\ \A c \in Clients : c # d => InFwd(c)' = InFwd(c)
          /\ InFwd(d)' \subseteq InFwd(d)
      BY <3>2, <3>3 DEF InFwd, StatesOf
    <3>5. ForwarderInv'
      <4>1. daemonUp
        BY DEF ConnectionBreaks, PathInv, ClientInv, LinkInv
      <4>. QED
        BY <1>1, <3>2, <4>1 DEF PathInv, DaemonInv, ForwarderInv
    <3>6. Published'
      BY <1>1, <1>2, <3>2 DEF PathInv, DaemonInv, Published, Older, StatesOf
    <3>. QED
      BY <1>1, <1>2, <3>3, <3>4, <3>5, <3>6 DEF PathInv, DaemonInv
  <2>. QED
    BY <2>1, <2>2
<1>4. ASSUME NEW c \in Clients PROVE ClientInv(c)'
  <2>1. InHand(c)' = InHand(c) /\ InBuffer(c)' = InBuffer(c) /\ InWire(c)' = InWire(c)
    BY <1>1, SameLinks
  <2>2. Ordered(c)'
    BY <1>1, <1>2, <1>3, <2>1, OrderedSmaller DEF PathInv, ClientInv, Ordered
  <2>3. CASE c = d
    <3>1. CallInv(c)' /\ LinkInv(c)'
      BY <1>1, <1>3, <2>3 DEF PathInv, ClientInv, CallInv, LinkInv
    <3>. QED
      BY <1>1, <2>2, <2>3, <3>1, FollowsDead DEF ClientInv
  <2>4. CASE c # d
    <3>1. OnWay(c)' = OnWay(c)
      BY <1>2, <1>3, <2>1, <2>4 DEF OnWay
    <3>2. Knows(c) => Knows(c)'
      BY <1>1, <2>4 DEF Knows
    <3>3. Follows(c)'
      BY <1>1, <2>4, <3>1, <3>2, FollowsKeeps DEF PathInv, ClientInv
    <3>4. CallInv(c)'
      BY <1>1, <2>4 DEF PathInv, ClientInv, CallInv
    <3>5. LinkInv(c)'
      BY <1>1, <1>3, <2>4 DEF PathInv, ClientInv, LinkInv
    <3>. QED
      BY <2>2, <3>3, <3>4, <3>5 DEF ClientInv
  <2>. QED
    BY <2>3, <2>4
<1>. QED
  BY <1>3, <1>4

LEMMA PathDies ==
  ASSUME PathInv, DaemonDies
  PROVE  DaemonInv' /\ \A c \in Clients : ClientInv(c)'
<1>1. /\ ~daemonUp' /\ upstream' = <<>> /\ fwd' = IdleForwarder
      /\ UNCHANGED <<version, wire, closed, replied, buffer, tuiVars, history>>
      /\ \A c \in Clients : ~alive'[c] /\ ~subscribed'[c] /\ request'[c] = "none" /\ answer'[c] = NoFrame
  BY DEF DaemonDies
<1>2. Upstream' = {} /\ Sorted(upstream') /\ NoReply(upstream')
  BY <1>1, EmptyFacts DEF Upstream
<1>3. fwd'.pc = "idle" /\ fwd'.note = NoFrame /\ Targets' = {NoClient}
  BY <1>1 DEF IdleForwarder, Targets
<1>4. DaemonInv'
  <2>1. ForwarderInv'
    BY <1>1, <1>2, <1>3 DEF ForwarderInv, IdleForwarder, NoFrame
  <2>. QED
    BY <1>2, <1>3, <2>1 DEF DaemonInv, Published, Upto, Older
<1>5. ASSUME NEW c \in Clients PROVE ClientInv(c)'
  <2>1. /\ InHand(c)' = InHand(c) /\ InBuffer(c)' = InBuffer(c) /\ InWire(c)' = InWire(c)
        /\ InFwd(c)' = {}
    BY <1>1, <1>3, SameLinks DEF InFwd
  <2>2. Ordered(c)'
    BY <1>1, <1>2, <2>1, OrderedSmaller DEF PathInv, ClientInv, Ordered
  <2>3. CallInv(c)' /\ LinkInv(c)'
    BY <1>1, <1>3, Bounds DEF PathInv, ClientInv, CallInv, LinkInv
  <2>. QED
    BY <1>1, <2>2, <2>3, FollowsDead DEF ClientInv
<1>. QED
  BY <1>4, <1>5

LEMMA PathStarts ==
  ASSUME PathInv, DaemonStarts
  PROVE  DaemonInv' /\ \A c \in Clients : ClientInv(c)'
<1>. DEFINE v == version + 1
<1>1. /\ ~daemonUp /\ daemonUp' /\ version' = v
      /\ UNCHANGED <<upstream, fwd, serverVars, linkVars, tuiVars, followed>>
  BY DEF DaemonStarts
<1>2. /\ upstream = <<>> /\ fwd = IdleForwarder /\ \A c \in Clients : ~alive[c]
  BY <1>1 DEF PathInv, DaemonInv, ForwarderInv, ClientInv, LinkInv
<1>3. Upstream' = {} /\ Upstream = {}
  BY <1>1, <1>2, EmptyFacts DEF Upstream
<1>4. version \in Versions /\ \A x \in Versions : x <= version => x <= v
  BY DEF PathInv, Typed, PipelineTypeOK, Versions
<1>. HIDE DEF v
<1>5. DaemonInv'
  <2>1. ForwarderInv'
    BY <1>1 DEF PathInv, DaemonInv, ForwarderInv
  <2>2. Published'
    BY <1>1, <1>2, <1>3 DEF Published, Older, IdleForwarder
  <2>. QED
    BY <1>1, <1>3, <2>1, <2>2 DEF PathInv, DaemonInv, Upto
<1>6. ASSUME NEW c \in Clients PROVE ClientInv(c)'
  <2>1. /\ InHand(c)' = InHand(c) /\ InBuffer(c)' = InBuffer(c) /\ InWire(c)' = InWire(c)
        /\ InFwd(c)' = InFwd(c) /\ Upstream' = Upstream
    BY <1>1, <1>3, SameLinks DEF InFwd, Targets
  <2>2. OnWay(c)' = OnWay(c) /\ OnWay(c) \subseteq Versions /\ shown[c] \in Versions
    BY <2>1, WayTypes, ClientTypes DEF OnWay, PathInv
  <2>3. \A x \in OnWay(c) : x <= v
    BY <1>4, <2>2 DEF PathInv, ClientInv, Ordered, Upto
  <2>4. c \in followed => shown[c] <= v
    BY <1>4, <2>2 DEF PathInv, ClientInv, Ordered, Upto
  <2>5. Ordered(c)'
    BY <1>1, <2>1, <2>2, <2>3, <2>4 DEF PathInv, ClientInv, Ordered, Upto
  <2>6. CallInv(c)' /\ LinkInv(c)'
    BY <1>1, SessionSame DEF PathInv, ClientInv, Targets
  <2>. QED
    BY <1>1, <1>2, <2>5, <2>6, FollowsDead DEF ClientInv
<1>. QED
  BY <1>5, <1>6

-----------------------------------------------------------------------------
(* The invariant, and what follows from it.                                *)

LEMMA PathInit == PipelineInit => PathInv
<1>. SUFFICES ASSUME PipelineInit PROVE PathInv
  OBVIOUS
<1>1. fwd.pc = "idle" /\ fwd.note = NoFrame /\ Targets = {NoClient} /\ upstream = <<>>
  BY DEF PipelineInit, IdleForwarder, Targets
<1>2. Upstream = {} /\ NoReply(upstream) /\ Sorted(upstream)
  BY <1>1, EmptyFacts DEF Upstream
<1>3. DaemonInv
  <2>1. ForwarderInv
    BY <1>1, <1>2 DEF PipelineInit, ForwarderInv, IdleForwarder, NoFrame
  <2>. QED
    BY <1>1, <1>2, <2>1 DEF DaemonInv, Published, Upto, Older
<1>4. ASSUME NEW c \in Clients PROVE ClientInv(c)
  <2>1. /\ wire[c] = <<>> /\ buffer[c] = <<>> /\ chain[c] = "dial" /\ ~alive[c] /\ closed[c]
        /\ ~subscribed[c] /\ request[c] = "none" /\ answer[c] = NoFrame /\ replied[c] = NoFrame
        /\ c \notin followed
    BY DEF PipelineInit
  <2>2. /\ InHand(c) = {} /\ InBuffer(c) = {} /\ InWire(c) = {} /\ InFwd(c) = {}
        /\ Sorted(wire[c]) /\ Sorted(buffer[c]) /\ OneReply(wire[c]) /\ NoReply(wire[c])
    BY <1>1, <2>1, EmptyFacts DEF InHand, InBuffer, InWire, InFwd
  <2>3. Ordered(c)
    BY <1>2, <2>1, <2>2 DEF Ordered, InOrder, OnWay, Upto
  <2>4. CallInv(c) /\ LinkInv(c)
    BY <1>1, <2>1, <2>2, Bounds DEF CallInv, LinkInv
  <2>. QED
    BY <2>1, <2>3, <2>4 DEF ClientInv, Follows
<1>. QED
  BY <1>3, <1>4, TypedInit DEF PathInv

LEMMA PathClient ==
  ASSUME PathInv, NEW d \in Clients, ClientStep(d)
  PROVE  DaemonInv' /\ \A c \in Clients : ClientInv(c)'
<1>1. UNCHANGED <<daemonVars, unsent>> /\ \A c \in Clients \ {d} : SameClient(c)
  BY OnlyOne DEF PathInv
<1>2. DaemonInv'
  BY <1>1, DaemonSame DEF PathInv
<1>3. ASSUME NEW c \in Clients \ {d} PROVE ClientInv(c)'
  BY <1>1, Others DEF PathInv
<1>4. CallInv(d)' /\ LinkInv(d)'
  BY SessionServer, SessionDial, SessionListen
  DEF PathInv, DaemonInv, ClientInv, ClientStep, ServerStep, ReadStep, TuiStep
<1>5. Ordered(d)' /\ Follows(d)'
  BY PathServer, PathRead, PathDial, PathListen
  DEF PathInv, ClientStep, ServerStep, ReadStep, TuiStep
<1>. QED
  BY <1>2, <1>3, <1>4, <1>5 DEF ClientInv

LEMMA PathNext == PathInv /\ [PipelineNext]_vars => PathInv'
<1>. SUFFICES ASSUME PathInv, [PipelineNext]_vars PROVE PathInv'
  OBVIOUS
<1>1. Typed'
  BY TypedNext DEF PathInv
<1>2. CASE Change
  BY <1>1, <1>2, PathChange DEF PathInv
<1>3. CASE Progress
  BY <1>1, <1>3, PathProgress DEF PathInv
<1>4. CASE ForwardStep
  BY <1>1, <1>4, PathReceive, PathCopy, PathSend DEF PathInv, ForwardStep
<1>5. ASSUME NEW d \in Clients, ServerStep(d) \/ ReadStep(d) \/ TuiStep(d) PROVE PathInv'
  BY <1>1, <1>5, PathClient DEF PathInv, ClientStep
<1>6. ASSUME NEW d \in Clients, ConnectionBreaks(d) PROVE PathInv'
  BY <1>1, <1>6, PathBreaks DEF PathInv
<1>7. CASE DaemonDies
  BY <1>1, <1>7, PathDies DEF PathInv
<1>8. CASE DaemonStarts
  BY <1>1, <1>8, PathStarts DEF PathInv
<1>9. CASE UNCHANGED vars
  <2>1. UNCHANGED <<daemonVars, unsent>> /\ \A c \in Clients : SameClient(c)
    BY <1>9 DEF vars, SameClient
  <2>2. ASSUME NEW c \in Clients PROVE ClientInv(c)'
    BY <2>1, Others DEF PathInv
  <2>. QED
    BY <1>1, <2>1, <2>2, DaemonSame DEF PathInv
<1>. QED
  BY <1>2, <1>3, <1>4, <1>5, <1>6, <1>7, <1>8, <1>9 DEF PipelineNext

LEMMA PathAlways == PipelineSpec => []PathInv
BY PathInit, PathNext, PTL DEF PipelineSpec

\* Once everything on its way has arrived, a listening client whose connection stands
\* shows the canonical state, unless the notification of just this state was dropped
\* at a full buffer and no later one has repaired that (model.go:293 to 305,
\* server.go:141, client.go:28).
THEOREM ClientsAlwaysAgree == PipelineSpec => []ClientsAgree
<1>1. PathInv => ClientsAgree
  <2>. SUFFICES ASSUME PathInv, NEW c \in Clients, chain[c] = "listen", alive[c], Delivered(c),
                       ~unsent, c \notin lost
                PROVE  shown[c] = version
    BY DEF ClientsAgree, UpToDate
  <2>1. OnWay(c) = {}
    BY EmptyFacts DEF Delivered, OnWay, InHand, InBuffer, InWire, InFwd, Upstream
  <2>2. subscribed[c]
    BY DEF PathInv, ClientInv, LinkInv
  <2>3. Knows(c)
    BY <2>1, <2>2 DEF PathInv, ClientInv, Follows
  <2>. QED
    BY <2>3 DEF Knows
<1>. QED
  BY <1>1, PathAlways, PTL

LEMMA Forward ==
  ASSUME PathInv, PathInv', [PipelineNext]_vars, NEW c \in followed \cap followed'
  PROVE  shown'[c] >= shown[c]
<1>1. /\ c \in Clients /\ shown[c] \in Versions /\ chain[c] \in {"listen", "notif", "failed"}
      /\ shown \in [Clients -> Versions] /\ Upto({shown[c]}, OnWay(c))
  BY DEF PathInv, Typed, PipelineTypeOK, ClientInv, Ordered, Upto
<1>2. CASE UpdateNotif(c) /\ held[c].kind = "state"
  <2>1. shown'[c] = held[c].version /\ held[c].version \in OnWay(c)
    BY <1>1, <1>2 DEF UpdateNotif, OnWay, InHand, StatesOf
  <2>2. held[c].version \in Versions
    BY <1>1, ClientTypes, Types DEF PathInv
  <2>. QED
    BY <1>1, <2>1, <2>2 DEF Upto, Versions
<1>3. CASE shown'[c] = shown[c]
  BY <1>1, <1>3 DEF Versions
<1>4. shown'[c] = shown[c] \/ (UpdateNotif(c) /\ held[c].kind = "state")
  <2>1. CASE Change \/ Progress \/ ForwardStep \/ DaemonDies \/ DaemonStarts \/ UNCHANGED vars
    BY <2>1 DEF Change, Progress, ForwardStep, ForwardReceive, ForwardCopy, ForwardSend, DaemonDies,
      DaemonStarts, vars
  <2>2. ASSUME NEW d \in Clients, ConnectionBreaks(d) PROVE shown'[c] = shown[c]
    BY <2>2 DEF ConnectionBreaks
  <2>3. ASSUME NEW d \in Clients, ClientStep(d), d # c PROVE shown'[c] = shown[c]
    BY <1>1, <2>3, OnlyOne DEF PathInv, SameClient
  <2>4. ASSUME ServerStep(c) \/ ReadStep(c) PROVE shown'[c] = shown[c]
    BY <2>4 DEF ServerStep, ReadStep, Dispatch, WriteReply, ReadFrame, ReadEnds
  <2>5. ASSUME TuiStep(c) PROVE shown'[c] = shown[c] \/ (UpdateNotif(c) /\ held[c].kind = "state")
    <3>1. ~UpdateConnected(c) /\ ~Reconnect(c)
      BY <1>1 DEF UpdateConnected, Reconnect
    <3>2. CASE UpdateNotif(c)
      BY <3>2 DEF UpdateNotif
    <3>. QED
      BY <2>5, <3>1, <3>2
      DEF TuiStep, Dial, DialFails, Subscribed, GotState, CallFails, Listen, ListenEnds
  <2>. QED
    BY <2>1, <2>2, <2>3, <2>4, <2>5 DEF PipelineNext, ClientStep
<1>. QED
  BY <1>2, <1>3, <1>4

\* A client that has shown a notification never goes back to an older state: the
\* versions keep their order through every buffer, whatever is dropped, broken or
\* restarted (daemon.go:88, server.go:141, client.go:110, model.go:318).
THEOREM ClientsNeverGoBack == PipelineSpec => NeverGoesBack
<1>1. PathInv /\ PathInv' /\ [PipelineNext]_vars
      => [\A c \in followed \cap followed' : shown'[c] >= shown[c]]_vars
  BY Forward
<1>. QED
  BY <1>1, PathAlways, PTL DEF PipelineSpec, NeverGoesBack
=============================================================================
