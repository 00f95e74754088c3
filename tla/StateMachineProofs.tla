------------------------- MODULE StateMachineProofs -------------------------
(***************************************************************************)
(* Proofs about StateMachine, for every value of its constants: type       *)
(* correctness, that a subscriber whose latest state.changed was not       *)
(* dropped is in sync with the canonical state, that ticks belong to a     *)
(* state that plays, and that the machine implements Feed.                 *)
(***************************************************************************)
EXTENDS StateMachine, SequenceTheorems, TLAPS

USE DEF Statuses, Never, SubIDs, machineVars, subVars, feedVars, smVars

-----------------------------------------------------------------------------
\* The parts of ConstantsAssumption the proofs use.
LEMMA Bounds == MaxSubs \in Nat /\ MaxTime \in Nat /\ DefaultBuffer \in Nat /\ Buffers \subseteq Int
BY ConstantsAssumption

-----------------------------------------------------------------------------
(* Comparing states.                                                       *)

\* sameTrack (state.go:201) compares exactly the identity of the two tracks.
\* It is therefore an equivalence, which its mix of two comparisons hides.
LEMMA SameTrackIsSameKey ==
  ASSUME NEW a \in Tracks \cup {NoTrack}, NEW b \in Tracks \cup {NoTrack}
  PROVE  SameTrack(a, b) <=> TrackKey(a) = TrackKey(b)
BY DEF SameTrack, TrackKey

\* sameRenderableState (state.go:217) holds exactly when both states render
\* alike, so renderably equal updates can be chained without drifting.
LEMMA SameRenderableIsRendered ==
  ASSUME NEW a \in PlayerStates, NEW b \in PlayerStates
  PROVE  SameRenderableState(a, b) <=> Rendered(a) = Rendered(b)
<1>1. a.Track \in Tracks \cup {NoTrack} /\ b.Track \in Tracks \cup {NoTrack}
  BY DEF PlayerStates
<1>2. SameTrack(a.Track, b.Track) <=> TrackKey(a.Track) = TrackKey(b.Track)
  BY <1>1, SameTrackIsSameKey
<1>. QED
  BY <1>2 DEF SameRenderableState, Rendered

-----------------------------------------------------------------------------
(* What Apply puts in the outbox.                                          *)

\* The notifications of a transition are notifications, and each state.changed
\* among them carries the new state; there is one if the rendering changes, and
\* none otherwise.
LEMMA NotificationsOfType ==
  ASSUME NEW prev \in PlayerStates, NEW next \in PlayerStates
  PROVE  /\ NotificationsOf(prev, next) \in Seq(Notifications)
         /\ \A i \in 1 .. Len(NotificationsOf(prev, next)) :
              IsState(NotificationsOf(prev, next)[i]) =>
                NotificationsOf(prev, next)[i].Body = next
         /\ ~SameRenderableState(prev, next) =>
              \E i \in 1 .. Len(NotificationsOf(prev, next)) :
                IsState(NotificationsOf(prev, next)[i])
         /\ \A i, j \in 1 .. Len(NotificationsOf(prev, next)) :
              IsState(NotificationsOf(prev, next)[i]) =>
                /\ ~SameRenderableState(prev, next)
                /\ IsState(NotificationsOf(prev, next)[j]) => i = j
<1>. DEFINE a == When(~SameTrack(prev.Track, next.Track), TrackChanged(prev.Track, next.Track))
            b == When(~SameRenderableState(prev, next), StateChanged(next))
            c == When(next.Status = "playing" /\ next.Track # NoTrack, ProgressTick(next))
<1>1. a \in Seq(Notifications) /\ Len(a) \in {0, 1}
      /\ \A i \in 1 .. Len(a) : ~IsState(a[i])
  <2>1. TrackChanged(prev.Track, next.Track) \in Notifications
    BY DEF Notifications, PlayerStates, TrackChanged
  <2>. QED
    BY <2>1 DEF When, IsState, TrackChanged
<1>2. b \in Seq(Notifications) /\ Len(b) \in {0, 1}
      /\ (\A i \in 1 .. Len(b) : b[i].Body = next)
      /\ (~SameRenderableState(prev, next) => Len(b) = 1 /\ IsState(b[1]))
      /\ (SameRenderableState(prev, next) => Len(b) = 0)
  <2>1. StateChanged(next) \in Notifications
    BY DEF Notifications, StateChanged
  <2>. QED
    BY <2>1 DEF When, IsState, StateChanged
<1>3. c \in Seq(Notifications) /\ Len(c) \in {0, 1}
      /\ \A i \in 1 .. Len(c) : ~IsState(c[i])
  <2>1. next.Track # NoTrack => ProgressTick(next) \in Notifications
    BY DEF Notifications, PlayerStates, ProgressTick
  <2>. QED
    BY <2>1 DEF When, IsState, ProgressTick
<1>. HIDE DEF a, b, c
<1>. DEFINE ab == a \o b
            abc == ab \o c
<1>4. /\ ab \in Seq(Notifications)
      /\ Len(ab) = Len(a) + Len(b)
      /\ \A i \in 1 .. Len(ab) : ab[i] = IF i <= Len(a) THEN a[i] ELSE b[i - Len(a)]
  BY <1>1, <1>2
<1>. HIDE DEF ab
<1>5. /\ abc \in Seq(Notifications)
      /\ Len(abc) = Len(ab) + Len(c)
      /\ \A i \in 1 .. Len(abc) : abc[i] = IF i <= Len(ab) THEN ab[i] ELSE c[i - Len(ab)]
  BY <1>3, <1>4
<1>. HIDE DEF abc
<1>6. NotificationsOf(prev, next) = abc
  BY DEF NotificationsOf, a, b, c, ab, abc
<1>7. ASSUME NEW i \in 1 .. Len(abc), IsState(abc[i])
      PROVE  abc[i].Body = next /\ i = Len(a) + 1 /\ ~SameRenderableState(prev, next)
  <2>1. CASE i <= Len(a)
    BY <1>1, <1>2, <1>4, <1>5, <1>7, <2>1
  <2>2. CASE i > Len(a) /\ i <= Len(ab)
    <3>1. i - Len(a) \in 1 .. Len(b) /\ abc[i] = b[i - Len(a)]
      BY <1>1, <1>2, <1>4, <1>5, <2>2
    <3>. QED
      BY <1>2, <3>1
  <2>3. CASE i > Len(ab)
    <3>1. i - Len(ab) \in 1 .. Len(c) /\ abc[i] = c[i - Len(ab)]
      BY <1>3, <1>4, <1>5, <2>3
    <3>. QED
      BY <1>3, <1>7, <3>1
  <2>. QED
    BY <1>1, <1>2, <1>4, <2>1, <2>2, <2>3
<1>8. ASSUME ~SameRenderableState(prev, next)
      PROVE  \E i \in 1 .. Len(abc) : IsState(abc[i])
  <2>1. Len(ab) = Len(a) + 1
    BY <1>1, <1>2, <1>4, <1>8
  <2>2. ab[Len(ab)] = b[1]
    BY <1>1, <1>2, <1>4, <2>1
  <2>3. Len(ab) \in 1 .. Len(abc) /\ abc[Len(ab)] = b[1]
    BY <1>1, <1>3, <1>5, <2>1, <2>2
  <2>. QED
    BY <1>2, <1>8, <2>3
<1>. QED
  BY <1>5, <1>6, <1>7, <1>8

-----------------------------------------------------------------------------
(* Type correctness.                                                       *)

\* Every variable keeps its type and no channel outgrows its buffer.
THEOREM TypeCorrect == Spec => []TypeOK
<1>1. Init => TypeOK
  <2>. SUFFICES ASSUME Init
                PROVE  TypeOK
    OBVIOUS
  <2>1. ZeroState \in PlayerStates
    BY ConstantsAssumption DEF ZeroState, PlayerStates
  <2>2. chan \in [SubIDs -> Seq(Notifications)] /\ \A s \in SubIDs : Len(chan[s]) <= cap[s] /\ (s >= nextSubID => cap[s] = 0)
    BY DEF Init
  <2>3. now \in 0 .. MaxTime /\ nextSubID \in 0 .. MaxSubs
    BY Bounds DEF Init
  <2>4. published \in Renderings
    BY <2>1 DEF Init, Renderings
  <2>. QED
    BY <2>1, <2>2, <2>3, <2>4 DEF Init, TypeOK
<1>2. TypeOK /\ [Next]_smVars => TypeOK'
  <2>. SUFFICES ASSUME TypeOK, [Next]_smVars
                PROVE  TypeOK'
    OBVIOUS
  <2>1. CASE Tick
    BY <2>1, Bounds DEF Tick, TypeOK
  <2>2. ASSUME NEW obs \in Observations, NEW sampled \in 0 .. now, Apply(obs, sampled)
        PROVE  TypeOK'
    <3>1. obs \in PlayerStates
      BY ConstantsAssumption DEF Observations, PlayerStates
    <3>2. NotificationsOf(state, obs) \in Seq(Notifications)
      BY <3>1, NotificationsOfType DEF TypeOK
    <3>. QED
      BY <2>2, <3>1, <3>2 DEF Apply, TypeOK
  <2>3. ASSUME NEW sampled \in 0 .. now, Ignore(sampled)
        PROVE  TypeOK'
    BY <2>3 DEF Ignore, TypeOK
  <2>4. CASE MarkCommandIssued
    BY <2>4 DEF MarkCommandIssued, TypeOK
  <2>5. ASSUME NEW n \in Others, Emit(n)
        PROVE  TypeOK'
    <3>1. <<n>> \in Seq(Notifications)
      BY DEF Notifications
    <3>. QED
      BY <2>5, <3>1 DEF Emit, TypeOK
  <2>6. ASSUME NEW buffer \in Buffers, Subscribe(buffer)
        PROVE  TypeOK'
    <3>1. nextSubID \in SubIDs /\ nextSubID' = nextSubID + 1 /\ nextSubID' \in 0 .. MaxSubs
      BY <2>6, Bounds DEF Subscribe, TypeOK
    <3>2. cap' \in [SubIDs -> Nat] /\ \A s \in SubIDs \ {nextSubID} : cap'[s] = cap[s]
      <4>1. (IF buffer <= 0 THEN DefaultBuffer ELSE buffer) \in Nat
        BY Bounds
      <4>2. cap' = [cap EXCEPT ![nextSubID] = IF buffer <= 0 THEN DefaultBuffer ELSE buffer]
        BY <2>6 DEF Subscribe
      <4>. HIDE DEF SubIDs
      <4>. QED
        BY <3>1, <4>1, <4>2 DEF TypeOK
    <3>3. \A s \in SubIDs : Len(chan[s]) <= cap'[s] /\ (s >= nextSubID' => cap'[s] = 0)
      <4>1. cap[nextSubID] = 0 /\ Len(chan[nextSubID]) <= 0
        BY <3>1 DEF TypeOK
      <4>2. Len(chan[nextSubID]) <= cap'[nextSubID]
        BY <3>1, <3>2, <4>1 DEF TypeOK
      <4>. QED
        BY <3>1, <3>2, <4>2 DEF TypeOK
    <3>4. seen' \in [SubIDs -> PlayerStates]
      BY <2>6 DEF Subscribe, TypeOK
    <3>5. subscribers' \subseteq 0 .. nextSubID' - 1 /\ lossy' \subseteq 0 .. nextSubID' - 1
      BY <2>6, <3>1 DEF Subscribe, TypeOK
    <3>. QED
      BY <2>6, <3>1, <3>2, <3>3, <3>4, <3>5 DEF Subscribe, TypeOK
  <2>7. ASSUME NEW s \in SubIDs, Unsubscribe(s)
        PROVE  TypeOK'
    BY <2>7 DEF Unsubscribe, TypeOK
  <2>8. CASE FanOut
    <3>1. Head(outbox) \in Notifications /\ Tail(outbox) \in Seq(Notifications)
      BY <2>8 DEF FanOut, TypeOK
    <3>2. ASSUME NEW s \in SubIDs
          PROVE  /\ chan'[s] \in Seq(Notifications)
                 /\ Len(chan'[s]) <= cap[s]
                 /\ s >= nextSubID => cap[s] = 0
      <4>1. /\ chan[s] \in Seq(Notifications)
            /\ Len(chan[s]) <= cap[s]
            /\ cap[s] \in Nat
            /\ s >= nextSubID => cap[s] = 0
        BY DEF TypeOK
      <4>2. chan'[s] = chan[s]
              \/ (HasRoom(s) /\ chan'[s] = Append(chan[s], Head(outbox)))
        BY <2>8 DEF FanOut
      <4>3. CASE HasRoom(s) /\ chan'[s] = Append(chan[s], Head(outbox))
        <5>1. chan'[s] \in Seq(Notifications) /\ Len(chan'[s]) = Len(chan[s]) + 1
          BY <3>1, <4>1, <4>3, AppendProperties
        <5>2. Len(chan[s]) < cap[s] /\ Len(chan[s]) \in Nat
          BY <4>1, <4>3 DEF HasRoom
        <5>. QED
          BY <4>1, <5>1, <5>2
      <4>. QED
        BY <4>1, <4>2, <4>3
    <3>3. chan' = [s \in SubIDs |-> chan'[s]]
      BY <2>8 DEF FanOut
    <3>4. missed' \subseteq lossy'
      BY <2>8 DEF FanOut, TypeOK
    <3>5. lossy' \subseteq 0 .. nextSubID - 1
      BY <2>8 DEF FanOut, TypeOK
    <3>6. published' \in Renderings
      <4>1. IsState(Head(outbox)) => Head(outbox).Body \in PlayerStates
        BY <3>1 DEF IsState, Notifications, Others
      <4>2. published' = IF IsState(Head(outbox)) THEN Rendered(Head(outbox).Body) ELSE published
        BY <2>8 DEF FanOut
      <4>. QED
        BY <4>1, <4>2 DEF Renderings, TypeOK
    <3>. QED
      BY <2>8, <3>1, <3>2, <3>3, <3>4, <3>5, <3>6 DEF FanOut, TypeOK
  <2>9. ASSUME NEW s \in SubIDs, Receive(s)
        PROVE  TypeOK'
    <3>1. /\ Head(chan[s]) \in Notifications
          /\ Tail(chan[s]) \in Seq(Notifications)
          /\ Len(Tail(chan[s])) <= cap[s]
      BY <2>9 DEF Receive, TypeOK
    <3>2. IsState(Head(chan[s])) => Head(chan[s]).Body \in PlayerStates
      BY <3>1 DEF IsState, Notifications, Others
    <3>. QED
      BY <2>9, <3>1, <3>2 DEF Receive, TypeOK
  <2>10. CASE UNCHANGED smVars
    BY <2>10 DEF TypeOK
  <2>. QED
    BY <2>1, <2>2, <2>3, <2>4, <2>5, <2>6, <2>7, <2>8, <2>9, <2>10 DEF Next
<1>. QED
  BY <1>1, <1>2, PTL DEF Spec

-----------------------------------------------------------------------------
(***************************************************************************)
(* Subscribers in sync.  InSync speaks of the moment when nothing is left  *)
(* to send; to be inductive it needs to know what is being sent: a         *)
(* state.changed still in the outbox carries the canonical state itself,   *)
(* because nothing can change the state while the outbox is not empty.     *)
(***************************************************************************)
OutboxCurrent ==
  \A i \in 1 .. Len(outbox) : IsState(outbox[i]) => outbox[i].Body = state

\* The last state.changed in the channel of s, or what its consumer has seen
\* if there is none, renders as the canonical state.
LastIsCurrent(s) ==
  \A j \in 1 .. Len(chan[s]) :
    IsState(chan[s][j]) /\ (\A k \in j + 1 .. Len(chan[s]) : ~IsState(chan[s][k])) =>
      Rendered(chan[s][j].Body) = Rendered(state)

SeenIsCurrent(s) ==
  (\A j \in 1 .. Len(chan[s]) : ~IsState(chan[s][j])) => Rendered(seen[s]) = Rendered(state)

SyncInv ==
  /\ OutboxCurrent
  /\ ~StatePending => \A s \in subscribers \ missed : LastIsCurrent(s) /\ SeenIsCurrent(s)

LEMMA SyncInvImpliesInSync == TypeOK /\ SyncInv => InSync
<1>. SUFFICES ASSUME TypeOK, SyncInv, NEW s \in subscribers \ missed, ~StatePending,
                     NEW st, Told(s, Len(chan[s]), st)
              PROVE  Rendered(st) = Rendered(state)
  BY DEF InSync
<1>1. LastIsCurrent(s) /\ SeenIsCurrent(s)
  BY DEF SyncInv
<1>. QED
  BY <1>1 DEF Told, LastIsCurrent, SeenIsCurrent

\* Steps that leave alone what SyncInv speaks of, or only forget subscribers.
LEMMA SyncFrame ==
  ASSUME SyncInv, UNCHANGED <<state, outbox, chan, seen, missed>>,
         subscribers' \subseteq subscribers
  PROVE  SyncInv'
BY DEF SyncInv, OutboxCurrent, StatePending, LastIsCurrent, SeenIsCurrent

LEMMA SyncInit == Init => SyncInv
BY DEF Init, SyncInv, OutboxCurrent

LEMMA SyncApply ==
  ASSUME TypeOK, SyncInv, NEW obs \in Observations, NEW sampled, Apply(obs, sampled)
  PROVE  SyncInv'
<1>1. state \in PlayerStates /\ obs \in PlayerStates
  BY ConstantsAssumption DEF TypeOK, Observations, PlayerStates
<1>2. OutboxCurrent'
  BY <1>1, NotificationsOfType DEF Apply, OutboxCurrent
<1>3. ASSUME ~StatePending', NEW s \in subscribers' \ missed'
      PROVE  LastIsCurrent(s)' /\ SeenIsCurrent(s)'
  <2>1. SameRenderableState(state, obs)
    BY <1>1, <1>3, NotificationsOfType DEF Apply, StatePending
  <2>2. Rendered(state') = Rendered(state)
    BY <1>1, <2>1, SameRenderableIsRendered DEF Apply
  <2>3. ~StatePending
    BY DEF Apply, Unlocked, StatePending
  <2>4. LastIsCurrent(s) /\ SeenIsCurrent(s)
    BY <1>3, <2>3 DEF Apply, SyncInv, subVars, feedVars
  <2>. QED
    BY <2>2, <2>4 DEF Apply, LastIsCurrent, SeenIsCurrent, feedVars
<1>. QED
  BY <1>2, <1>3 DEF SyncInv

LEMMA SyncSubscribe ==
  ASSUME TypeOK, SyncInv, NEW buffer, Subscribe(buffer)
  PROVE  SyncInv'
<1>1. OutboxCurrent' /\ ~StatePending
  BY DEF Subscribe, Unlocked, SyncInv, OutboxCurrent, StatePending
<1>2. nextSubID \in SubIDs /\ chan[nextSubID] \in Seq(Notifications) /\ Len(chan[nextSubID]) = 0
  <2>1. nextSubID \in SubIDs
    BY Bounds DEF Subscribe, TypeOK
  <2>. QED
    BY <2>1 DEF TypeOK
<1>3. ASSUME NEW s \in subscribers' \ missed'
      PROVE  LastIsCurrent(s)' /\ SeenIsCurrent(s)'
  <2>1. CASE s = nextSubID
    <3>1. seen'[s] = state /\ state' = state /\ Len(chan'[s]) = 0
      BY <1>2, <2>1 DEF Subscribe, TypeOK
    <3>. QED
      BY <3>1 DEF LastIsCurrent, SeenIsCurrent
  <2>2. CASE s # nextSubID
    <3>1. s \in subscribers \ missed /\ s \in SubIDs
      BY <1>3, <2>2, Bounds DEF Subscribe, TypeOK
    <3>2. LastIsCurrent(s) /\ SeenIsCurrent(s)
      BY <1>1, <3>1 DEF SyncInv
    <3>3. seen'[s] = seen[s] /\ chan' = chan /\ state' = state
      BY <2>2, <3>1 DEF Subscribe, TypeOK
    <3>. QED
      BY <3>2, <3>3 DEF LastIsCurrent, SeenIsCurrent
  <2>. QED
    BY <2>1, <2>2
<1>. QED
  BY <1>1, <1>3 DEF SyncInv

LEMMA SyncFanOut ==
  ASSUME TypeOK, SyncInv, FanOut
  PROVE  SyncInv'
<1>. DEFINE n == Head(outbox)
<1>1. /\ n = outbox[1]
      /\ Len(outbox) \in Nat \ {0}
      /\ Len(outbox') = Len(outbox) - 1
      /\ \A i \in 1 .. Len(outbox') : outbox'[i] = outbox[i + 1]
  BY DEF FanOut, TypeOK
<1>2. n \in Notifications /\ state' = state /\ seen' = seen /\ subscribers' = subscribers
  BY DEF FanOut, TypeOK
<1>3. OutboxCurrent'
  BY <1>1, <1>2 DEF SyncInv, OutboxCurrent
<1>4. ASSUME ~StatePending', ~IsState(n)
      PROVE  ~StatePending
  <2>. SUFFICES ASSUME NEW i \in 1 .. Len(outbox), IsState(outbox[i])
                PROVE  FALSE
    BY DEF StatePending
  <2>1. i - 1 \in 1 .. Len(outbox') /\ (i - 1) + 1 = i
    BY <1>1, <1>4
  <2>. QED
    BY <1>1, <1>4, <2>1 DEF StatePending
<1>5. ASSUME ~StatePending', NEW s \in subscribers' \ missed'
      PROVE  LastIsCurrent(s)' /\ SeenIsCurrent(s)'
  <2>1. s \in subscribers /\ s \in SubIDs /\ chan[s] \in Seq(Notifications)
    <3>1. s \in subscribers /\ s \in SubIDs
      BY <1>2, <1>5, Bounds DEF TypeOK
    <3>. QED
      BY <3>1 DEF TypeOK
  <2>2. chan'[s] = IF HasRoom(s) THEN Append(chan[s], n) ELSE chan[s]
    BY <2>1 DEF FanOut
  <2>3. /\ Append(chan[s], n) \in Seq(Notifications)
        /\ Len(Append(chan[s], n)) = Len(chan[s]) + 1
        /\ Append(chan[s], n)[Len(chan[s]) + 1] = n
        /\ \A j \in 1 .. Len(chan[s]) : Append(chan[s], n)[j] = chan[s][j]
        /\ Len(chan[s]) \in Nat
    BY <1>2, <2>1, AppendProperties, LenProperties
  <2>4. CASE IsState(n)
    <3>1. HasRoom(s)
      BY <1>5, <2>1, <2>4 DEF FanOut
    <3>2. n.Body = state
      BY <1>1, <2>4 DEF SyncInv, OutboxCurrent
    <3>. HIDE DEF n
    <3>. QED
      BY <1>2, <2>2, <2>3, <2>4, <3>1, <3>2 DEF LastIsCurrent, SeenIsCurrent
  <2>5. CASE ~IsState(n)
    <3>1. s \in subscribers \ missed
      BY <1>5, <2>1, <2>5 DEF FanOut
    <3>2. LastIsCurrent(s) /\ SeenIsCurrent(s)
      BY <1>4, <1>5, <2>5, <3>1 DEF SyncInv
    <3>. HIDE DEF n
    <3>3. LastIsCurrent(s)'
      BY <1>2, <2>2, <2>3, <2>5, <3>2 DEF LastIsCurrent
    <3>4. SeenIsCurrent(s)'
      BY <1>2, <2>2, <2>3, <2>5, <3>2 DEF SeenIsCurrent
    <3>. QED
      BY <3>3, <3>4
  <2>. QED
    BY <2>4, <2>5
<1>. QED
  BY <1>3, <1>5 DEF SyncInv

LEMMA SyncReceive ==
  ASSUME TypeOK, SyncInv, NEW r \in SubIDs, Receive(r)
  PROVE  SyncInv'
<1>1. OutboxCurrent' /\ (~StatePending' => ~StatePending)
  BY DEF Receive, SyncInv, OutboxCurrent, StatePending
<1>2. ASSUME ~StatePending', NEW s \in subscribers' \ missed'
      PROVE  LastIsCurrent(s)' /\ SeenIsCurrent(s)'
  <2>1. s \in subscribers \ missed /\ s \in SubIDs /\ state' = state
    BY <1>2, Bounds DEF Receive, TypeOK
  <2>2. LastIsCurrent(s) /\ SeenIsCurrent(s)
    BY <1>1, <1>2, <2>1 DEF SyncInv
  <2>3. CASE s # r
    <3>1. chan'[s] = chan[s] /\ seen'[s] = seen[s]
      BY <2>1, <2>3 DEF Receive, TypeOK
    <3>. QED
      BY <2>1, <2>2, <3>1 DEF LastIsCurrent, SeenIsCurrent
  <2>4. CASE s = r
    <3>1. /\ chan[s] \in Seq(Notifications) /\ chan[s] # <<>>
          /\ chan'[s] = Tail(chan[s])
          /\ seen'[s] = IF IsState(Head(chan[s])) THEN Head(chan[s]).Body ELSE seen[s]
      BY <2>1, <2>4 DEF Receive, TypeOK
    <3>2. /\ Len(chan[s]) \in Nat \ {0}
          /\ Head(chan[s]) = chan[s][1]
          /\ Len(chan'[s]) = Len(chan[s]) - 1
          /\ \A j \in 1 .. Len(chan'[s]) : chan'[s][j] = chan[s][j + 1]
      BY <3>1
    <3>3. LastIsCurrent(s)'
      <4>. SUFFICES ASSUME NEW j \in 1 .. Len(chan'[s]), IsState(chan'[s][j]),
                           \A k \in j + 1 .. Len(chan'[s]) : ~IsState(chan'[s][k])
                    PROVE  Rendered(chan'[s][j].Body) = Rendered(state')
        BY DEF LastIsCurrent
      <4>1. j + 1 \in 1 .. Len(chan[s]) /\ IsState(chan[s][j + 1])
        BY <3>2
      <4>2. ASSUME NEW k \in (j + 1) + 1 .. Len(chan[s])
            PROVE  ~IsState(chan[s][k])
        <5>1. k - 1 \in j + 1 .. Len(chan'[s]) /\ k - 1 \in 1 .. Len(chan'[s])
          BY <3>2
        <5>2. chan'[s][k - 1] = chan[s][(k - 1) + 1] /\ (k - 1) + 1 = k
          BY <3>2, <5>1
        <5>. QED
          BY <5>1, <5>2
      <4>. QED
        BY <2>1, <2>2, <3>2, <4>1, <4>2 DEF LastIsCurrent
    <3>4. SeenIsCurrent(s)'
      <4>. SUFFICES ASSUME \A j \in 1 .. Len(chan'[s]) : ~IsState(chan'[s][j])
                    PROVE  Rendered(seen'[s]) = Rendered(state')
        BY DEF SeenIsCurrent
      <4>1. ASSUME NEW k \in 2 .. Len(chan[s])
            PROVE  ~IsState(chan[s][k])
        <5>1. k - 1 \in 1 .. Len(chan'[s]) /\ (k - 1) + 1 = k
          BY <3>2
        <5>. QED
          BY <3>2, <5>1
      <4>2. CASE IsState(Head(chan[s]))
        <5>1. 1 \in 1 .. Len(chan[s]) /\ IsState(chan[s][1])
          BY <3>2, <4>2
        <5>2. \A k \in 1 + 1 .. Len(chan[s]) : ~IsState(chan[s][k])
          BY <4>1
        <5>3. Rendered(chan[s][1].Body) = Rendered(state)
          BY <2>2, <5>1, <5>2 DEF LastIsCurrent
        <5>. QED
          BY <2>1, <3>1, <3>2, <4>2, <5>3
      <4>3. CASE ~IsState(Head(chan[s]))
        BY <2>1, <2>2, <3>1, <3>2, <4>1, <4>3 DEF SeenIsCurrent
      <4>. QED
        BY <4>2, <4>3
    <3>. QED
      BY <3>3, <3>4
  <2>. QED
    BY <2>3, <2>4
<1>. QED
  BY <1>1, <1>2 DEF SyncInv

LEMMA SyncAlways == Spec => []SyncInv
<1>1. Init => SyncInv
  BY SyncInit
<1>2. TypeOK /\ SyncInv /\ [Next]_smVars => SyncInv'
  <2>. SUFFICES ASSUME TypeOK, SyncInv, [Next]_smVars
                PROVE  SyncInv'
    OBVIOUS
  <2>1. CASE Tick
    BY <2>1, SyncFrame DEF Tick
  <2>2. ASSUME NEW obs \in Observations, NEW sampled \in 0 .. now, Apply(obs, sampled)
        PROVE  SyncInv'
    BY <2>2, SyncApply
  <2>3. ASSUME NEW sampled \in 0 .. now, Ignore(sampled)
        PROVE  SyncInv'
    BY <2>3, SyncFrame DEF Ignore
  <2>4. CASE MarkCommandIssued
    BY <2>4, SyncFrame DEF MarkCommandIssued
  <2>5. ASSUME NEW n \in Others, Emit(n)
        PROVE  SyncInv'
    <3>1. ~IsState(n)
      BY DEF Others, IsState
    <3>2. Len(outbox') = 1 /\ outbox'[1] = n /\ ~StatePending
      BY <2>5 DEF Emit, Unlocked, StatePending
    <3>. QED
      BY <2>5, <3>1, <3>2 DEF Emit, SyncInv, OutboxCurrent, LastIsCurrent, SeenIsCurrent
  <2>6. ASSUME NEW buffer \in Buffers, Subscribe(buffer)
        PROVE  SyncInv'
    BY <2>6, SyncSubscribe
  <2>7. ASSUME NEW s \in SubIDs, Unsubscribe(s)
        PROVE  SyncInv'
    BY <2>7, SyncFrame DEF Unsubscribe
  <2>8. CASE FanOut
    BY <2>8, SyncFanOut
  <2>9. ASSUME NEW s \in SubIDs, Receive(s)
        PROVE  SyncInv'
    BY <2>9, SyncReceive
  <2>10. CASE UNCHANGED smVars
    BY <2>10, SyncFrame
  <2>. QED
    BY <2>1, <2>2, <2>3, <2>4, <2>5, <2>6, <2>7, <2>8, <2>9, <2>10 DEF Next
<1>. QED
  BY <1>1, <1>2, TypeCorrect, PTL DEF Spec

\* A subscriber whose latest state.changed was not dropped is in sync with the
\* canonical state as soon as it has read its channel (state.go:135, 181).
THEOREM SubscribersInSync == Spec => []InSync
  BY SyncAlways, TypeCorrect, SyncInvImpliesInSync, PTL
-----------------------------------------------------------------------------
(***************************************************************************)
(* Ticks.  Apply's tick is the last notification it sends, so that no      *)
(* state.changed is waiting when a tick goes out, and subscribers are in   *)
(* sync with the state it was made from.                                   *)
(***************************************************************************)
PlaysTrack(st) == st.Status = "playing" /\ st.Track # NoTrack

TickIsLast ==
  \A i \in 1 .. Len(outbox) : IsTick(outbox[i]) => i = Len(outbox) /\ PlaysTrack(state)

\* Before each tick in the channel of s comes a state that plays a track, or its
\* consumer has seen one.
TicksFollow(s) ==
  \A i \in 1 .. Len(chan[s]) : IsTick(chan[s][i]) =>
    /\ \A j \in 1 .. i : IsState(chan[s][j]) /\ (\A k \in j + 1 .. i : ~IsState(chan[s][k])) =>
         PlaysTrack(chan[s][j].Body)
    /\ (\A j \in 1 .. i : ~IsState(chan[s][j])) => PlaysTrack(seen[s])

TickInv == TickIsLast /\ \A s \in subscribers \ lossy : TicksFollow(s)

LEMMA TickInvImplies == TickInv => TicksWhilePlaying
<1>. SUFFICES ASSUME TickInv, NEW s \in subscribers \ lossy, NEW i \in 1 .. Len(chan[s]),
                     IsTick(chan[s][i]), NEW st, Told(s, i, st)
              PROVE  PlaysTrack(st)
  BY DEF TicksWhilePlaying, PlaysTrack
<1>. QED
  BY DEF TickInv, TicksFollow, Told

\* What renders alike plays alike.
LEMMA RenderedPlays ==
  ASSUME NEW a, NEW b, Rendered(a) = Rendered(b), PlaysTrack(b)
  PROVE  PlaysTrack(a)
<1>1. a.Status = b.Status /\ TrackKey(a.Track) = TrackKey(b.Track)
  BY DEF Rendered
<1>2. a.Track # NoTrack
  BY <1>1 DEF PlaysTrack, TrackKey
<1>. QED
  BY <1>1, <1>2 DEF PlaysTrack

LEMMA NotificationsOfTick ==
  ASSUME NEW prev \in PlayerStates, NEW next \in PlayerStates,
         NEW i \in 1 .. Len(NotificationsOf(prev, next)), IsTick(NotificationsOf(prev, next)[i])
  PROVE  i = Len(NotificationsOf(prev, next)) /\ PlaysTrack(next)
<1>. DEFINE a == When(~SameTrack(prev.Track, next.Track), TrackChanged(prev.Track, next.Track))
            b == When(~SameRenderableState(prev, next), StateChanged(next))
            c == When(next.Status = "playing" /\ next.Track # NoTrack, ProgressTick(next))
<1>1. a \in Seq(Notifications) /\ Len(a) \in {0, 1} /\ \A j \in 1 .. Len(a) : ~IsTick(a[j])
  <2>1. TrackChanged(prev.Track, next.Track) \in Notifications
    BY DEF Notifications, PlayerStates, TrackChanged
  <2>. QED
    BY <2>1 DEF When, IsTick, TrackChanged
<1>2. b \in Seq(Notifications) /\ Len(b) \in {0, 1} /\ \A j \in 1 .. Len(b) : ~IsTick(b[j])
  <2>1. StateChanged(next) \in Notifications
    BY DEF Notifications, StateChanged
  <2>. QED
    BY <2>1 DEF When, IsTick, StateChanged
<1>3. c \in Seq(Notifications) /\ Len(c) \in {0, 1} /\ (Len(c) = 1 => PlaysTrack(next))
  <2>1. next.Track # NoTrack => ProgressTick(next) \in Notifications
    BY DEF Notifications, PlayerStates, ProgressTick
  <2>. QED
    BY <2>1 DEF When, PlaysTrack
<1>4. NotificationsOf(prev, next) = (a \o b) \o c
  BY DEF NotificationsOf
<1>. HIDE DEF a, b, c
<1>. DEFINE ab == a \o b
<1>5. /\ ab \in Seq(Notifications) /\ Len(ab) = Len(a) + Len(b)
      /\ \A j \in 1 .. Len(ab) : ab[j] = IF j <= Len(a) THEN a[j] ELSE b[j - Len(a)]
  BY <1>1, <1>2
<1>6. \A j \in 1 .. Len(ab) : ~IsTick(ab[j])
  <2>. SUFFICES ASSUME NEW j \in 1 .. Len(ab) PROVE ~IsTick(ab[j])
    OBVIOUS
  <2>1. CASE j <= Len(a)
    BY <1>1, <1>5, <2>1
  <2>2. CASE ~(j <= Len(a))
    <3>1. j - Len(a) \in 1 .. Len(b) /\ ab[j] = b[j - Len(a)]
      BY <1>1, <1>2, <1>5, <2>2
    <3>. QED
      BY <1>2, <3>1
  <2>. QED
    BY <2>1, <2>2
<1>. HIDE DEF ab
<1>. DEFINE abc == ab \o c
<1>7. NotificationsOf(prev, next) = abc
  BY <1>4 DEF ab
<1>8. /\ Len(abc) = Len(ab) + Len(c)
      /\ \A j \in 1 .. Len(abc) : abc[j] = IF j <= Len(ab) THEN ab[j] ELSE c[j - Len(ab)]
  <2>1. /\ Len(ab \o c) = Len(ab) + Len(c)
        /\ \A j \in 1 .. Len(ab) + Len(c) :
             (ab \o c)[j] = IF j <= Len(ab) THEN ab[j] ELSE c[j - Len(ab)]
    <3>1. ab \in Seq(Notifications) /\ c \in Seq(Notifications)
      BY <1>3, <1>5
    <3>. QED
      BY <3>1, ConcatProperties, Zenon
  <2>. QED
    BY <2>1
<1>. HIDE DEF abc
<1>9. ~(i <= Len(ab))
  BY <1>5, <1>6, <1>7, <1>8
<1>. QED
  BY <1>1, <1>2, <1>3, <1>5, <1>7, <1>8, <1>9

\* Steps that leave the notifications alone, or only forget subscribers.
LEMMA TickFrame ==
  ASSUME TickInv, UNCHANGED <<state, outbox, chan, seen, lossy>>,
         subscribers' \subseteq subscribers
  PROVE  TickInv'
BY DEF TickInv, TickIsLast, TicksFollow, PlaysTrack

LEMMA TickSubscribe ==
  ASSUME TypeOK, TickInv, NEW buffer, Subscribe(buffer)
  PROVE  TickInv'
<1>1. nextSubID \in SubIDs /\ Len(chan[nextSubID]) = 0
  <2>1. nextSubID \in SubIDs
    BY Bounds DEF Subscribe, TypeOK
  <2>2. Len(chan[nextSubID]) <= 0 /\ chan[nextSubID] \in Seq(Notifications)
    BY <2>1 DEF TypeOK
  <2>. QED
    BY <2>1, <2>2
<1>2. TickIsLast'
  BY DEF Subscribe, TickInv, TickIsLast, Unlocked
<1>3. ASSUME NEW s \in subscribers' \ lossy' PROVE TicksFollow(s)'
  <2>1. CASE s = nextSubID
    BY <1>1, <2>1 DEF Subscribe, TicksFollow
  <2>2. CASE s # nextSubID
    <3>1. s \in subscribers \ lossy /\ s \in SubIDs
      BY <1>3, <2>2, Bounds DEF Subscribe, TypeOK
    <3>2. seen'[s] = seen[s] /\ chan' = chan
      BY <2>2, <3>1 DEF Subscribe, TypeOK
    <3>. QED
      BY <3>1, <3>2 DEF TickInv, TicksFollow
  <2>. QED
    BY <2>1, <2>2
<1>. QED
  BY <1>2, <1>3 DEF TickInv

LEMMA TickFanOut ==
  ASSUME TypeOK, SyncInv, TickInv, FanOut
  PROVE  TickInv'
<1>. DEFINE n == Head(outbox)
<1>1. /\ n = outbox[1]
      /\ Len(outbox) \in Nat \ {0}
      /\ Len(outbox') = Len(outbox) - 1
      /\ \A i \in 1 .. Len(outbox') : outbox'[i] = outbox[i + 1]
  BY DEF FanOut, TypeOK
<1>2. n \in Notifications /\ state' = state /\ seen' = seen /\ subscribers' = subscribers
  BY DEF FanOut, TypeOK
<1>3. TickIsLast'
  <2>. SUFFICES ASSUME NEW i \in 1 .. Len(outbox'), IsTick(outbox'[i])
                PROVE  i = Len(outbox') /\ PlaysTrack(state')
    BY DEF TickIsLast
  <2>1. i + 1 \in 1 .. Len(outbox) /\ IsTick(outbox[i + 1])
    BY <1>1
  <2>2. i + 1 = Len(outbox) /\ PlaysTrack(state)
    BY <2>1 DEF TickInv, TickIsLast
  <2>. QED
    BY <1>1, <1>2, <2>2
<1>4. ASSUME IsTick(n) PROVE ~StatePending /\ PlaysTrack(state) /\ ~IsState(n)
  <2>1. 1 = Len(outbox) /\ PlaysTrack(state)
    BY <1>1, <1>4 DEF TickInv, TickIsLast
  <2>2. ~IsState(n)
    BY <1>4 DEF IsTick, IsState
  <2>3. ~IsState(outbox[1])
    BY <1>1, <2>2
  <2>4. ASSUME NEW i \in 1 .. Len(outbox) PROVE i = 1
    <3>1. i \in 1 .. 1
      BY <2>1
    <3>. QED
      BY <3>1
  <2>5. ~StatePending
    BY <2>3, <2>4 DEF StatePending
  <2>. QED
    BY <2>1, <2>2, <2>5
<1>5. ASSUME NEW s \in subscribers' \ lossy' PROVE TicksFollow(s)'
  <2>1. s \in subscribers \ lossy /\ s \in SubIDs /\ chan[s] \in Seq(Notifications)
    <3>1. s \in subscribers \ lossy /\ s \in SubIDs
      BY <1>2, <1>5, Bounds DEF TypeOK, FanOut
    <3>. QED
      BY <3>1 DEF TypeOK
  <2>2. TicksFollow(s) /\ seen'[s] = seen[s]
    BY <1>2, <2>1 DEF TickInv
  <2>3. chan'[s] = IF HasRoom(s) THEN Append(chan[s], n) ELSE chan[s]
    BY <2>1 DEF FanOut
  <2>4. /\ Len(Append(chan[s], n)) = Len(chan[s]) + 1
        /\ Append(chan[s], n)[Len(chan[s]) + 1] = n
        /\ \A j \in 1 .. Len(chan[s]) : Append(chan[s], n)[j] = chan[s][j]
        /\ Len(chan[s]) \in Nat
    BY <1>2, <2>1, AppendProperties, LenProperties
  <2>5. IsTick(n) => LastIsCurrent(s) /\ SeenIsCurrent(s)
    BY <1>4, <2>1 DEF SyncInv, TypeOK
  <2>. HIDE DEF n
  <2>6. CASE ~HasRoom(s)
    BY <2>2, <2>3, <2>6 DEF TicksFollow
  <2>7. CASE HasRoom(s)
    <3>. SUFFICES ASSUME NEW i \in 1 .. Len(chan'[s]), IsTick(chan'[s][i])
                  PROVE  /\ \A j \in 1 .. i :
                              IsState(chan'[s][j]) /\ (\A k \in j + 1 .. i : ~IsState(chan'[s][k])) =>
                                PlaysTrack(chan'[s][j].Body)
                         /\ (\A j \in 1 .. i : ~IsState(chan'[s][j])) => PlaysTrack(seen'[s])
      BY DEF TicksFollow
    <3>1. CASE i \in 1 .. Len(chan[s])
      <4>1. \A j \in 1 .. i : chan'[s][j] = chan[s][j]
        BY <2>3, <2>4, <2>7, <3>1
      <4>2. IsTick(chan[s][i])
        BY <4>1, <3>1
      <4>. QED
        BY <2>2, <3>1, <4>1, <4>2 DEF TicksFollow
    <3>2. CASE i = Len(chan[s]) + 1
      <4>1. IsTick(n) /\ ~IsState(n) /\ PlaysTrack(state)
        BY <1>4, <2>3, <2>4, <2>7, <3>2
      <4>2. ASSUME NEW j \in 1 .. i, IsState(chan'[s][j]),
                   \A k \in j + 1 .. i : ~IsState(chan'[s][k])
            PROVE  PlaysTrack(chan'[s][j].Body)
        <5>1. j \in 1 .. Len(chan[s]) /\ chan'[s][j] = chan[s][j]
          BY <2>3, <2>4, <2>7, <3>2, <4>1, <4>2
        <5>2. \A k \in j + 1 .. Len(chan[s]) : ~IsState(chan[s][k])
          BY <2>3, <2>4, <2>7, <3>2, <4>2
        <5>3. Rendered(chan[s][j].Body) = Rendered(state)
          BY <2>5, <4>1, <4>2, <5>1, <5>2 DEF LastIsCurrent
        <5>. QED
          BY <4>1, <5>1, <5>3, RenderedPlays
      <4>3. ASSUME \A j \in 1 .. i : ~IsState(chan'[s][j])
            PROVE  PlaysTrack(seen'[s])
        <5>1. \A j \in 1 .. Len(chan[s]) : ~IsState(chan[s][j])
          BY <2>3, <2>4, <2>7, <3>2, <4>3
        <5>2. Rendered(seen[s]) = Rendered(state)
          BY <2>5, <4>1, <5>1 DEF SeenIsCurrent
        <5>. QED
          BY <2>2, <4>1, <5>2, RenderedPlays
      <4>. QED
        BY <4>2, <4>3
    <3>3. i \in 1 .. Len(chan[s]) \/ i = Len(chan[s]) + 1
      BY <2>3, <2>4, <2>7
    <3>. QED
      BY <3>1, <3>2, <3>3
  <2>. QED
    BY <2>6, <2>7
<1>. QED
  BY <1>3, <1>5 DEF TickInv

LEMMA TickReceive ==
  ASSUME TypeOK, TickInv, NEW r \in SubIDs, Receive(r)
  PROVE  TickInv'
<1>1. TickIsLast'
  BY DEF Receive, TickInv, TickIsLast, PlaysTrack
<1>2. ASSUME NEW s \in subscribers' \ lossy' PROVE TicksFollow(s)'
  <2>1. s \in subscribers \ lossy /\ s \in SubIDs /\ TicksFollow(s)
    BY <1>2, Bounds DEF Receive, TypeOK, TickInv
  <2>2. CASE s # r
    <3>1. chan'[s] = chan[s] /\ seen'[s] = seen[s]
      BY <2>1, <2>2 DEF Receive, TypeOK
    <3>. QED
      BY <2>1, <3>1 DEF TicksFollow
  <2>3. CASE s = r
    <3>1. /\ chan[s] \in Seq(Notifications) /\ chan[s] # <<>>
          /\ chan'[s] = Tail(chan[s])
          /\ seen'[s] = IF IsState(Head(chan[s])) THEN Head(chan[s]).Body ELSE seen[s]
      BY <2>1, <2>3 DEF Receive, TypeOK
    <3>2. /\ Len(chan[s]) \in Nat \ {0}
          /\ Head(chan[s]) = chan[s][1]
          /\ Len(chan'[s]) = Len(chan[s]) - 1
          /\ \A j \in 1 .. Len(chan'[s]) : chan'[s][j] = chan[s][j + 1]
      BY <3>1
    <3>. SUFFICES ASSUME NEW i \in 1 .. Len(chan'[s]), IsTick(chan'[s][i])
                  PROVE  /\ \A j \in 1 .. i :
                              IsState(chan'[s][j]) /\ (\A k \in j + 1 .. i : ~IsState(chan'[s][k])) =>
                                PlaysTrack(chan'[s][j].Body)
                         /\ (\A j \in 1 .. i : ~IsState(chan'[s][j])) => PlaysTrack(seen'[s])
      BY DEF TicksFollow
    <3>3. i + 1 \in 1 .. Len(chan[s]) /\ IsTick(chan[s][i + 1])
      BY <3>2
    <3>4. ASSUME NEW k \in 2 .. i + 1 PROVE chan[s][k] = chan'[s][k - 1] /\ k - 1 \in 1 .. i
      <4>1. k - 1 \in 1 .. Len(chan'[s]) /\ (k - 1) + 1 = k /\ k - 1 \in 1 .. i
        BY <3>2
      <4>. QED
        BY <3>2, <4>1
    <3>5. ASSUME NEW j \in 1 .. i, IsState(chan'[s][j]), \A k \in j + 1 .. i : ~IsState(chan'[s][k])
          PROVE  PlaysTrack(chan'[s][j].Body)
      <4>1. j + 1 \in 1 .. i + 1 /\ IsState(chan[s][j + 1]) /\ chan'[s][j] = chan[s][j + 1]
        BY <3>2, <3>5
      <4>2. ASSUME NEW k \in (j + 1) + 1 .. i + 1 PROVE ~IsState(chan[s][k])
        <5>1. k \in 2 .. i + 1 /\ k - 1 \in j + 1 .. i
          OBVIOUS
        <5>. QED
          BY <3>4, <3>5, <5>1
      <4>. QED
        BY <2>1, <3>3, <4>1, <4>2 DEF TicksFollow
    <3>6. ASSUME \A j \in 1 .. i : ~IsState(chan'[s][j]) PROVE PlaysTrack(seen'[s])
      <4>1. \A k \in 2 .. i + 1 : ~IsState(chan[s][k])
        BY <3>4, <3>6
      <4>2. CASE IsState(chan[s][1])
        <5>1. 1 \in 1 .. i + 1 /\ \A k \in 1 + 1 .. i + 1 : ~IsState(chan[s][k])
          BY <4>1
        <5>2. PlaysTrack(chan[s][1].Body)
          BY <2>1, <3>3, <4>2, <5>1 DEF TicksFollow
        <5>. QED
          BY <3>1, <3>2, <4>2, <5>2
      <4>3. CASE ~IsState(chan[s][1])
        <5>1. \A k \in 1 .. i + 1 : ~IsState(chan[s][k])
          BY <4>1, <4>3
        <5>2. PlaysTrack(seen[s])
          BY <2>1, <3>3, <5>1 DEF TicksFollow
        <5>. QED
          BY <3>1, <3>2, <4>3, <5>2
      <4>. QED
        BY <4>2, <4>3
    <3>. QED
      BY <3>5, <3>6
  <2>. QED
    BY <2>2, <2>3
<1>. QED
  BY <1>1, <1>2 DEF TickInv

\* A subscriber that lost no state.changed receives a tick only after a state that
\* plays a track (state.go:104 to 132).
THEOREM TicksBelongToPlaying == Spec => []TicksWhilePlaying
<1>1. Init => TickInv
  BY DEF Init, TickInv, TickIsLast
<1>2. TypeOK /\ SyncInv /\ TickInv /\ [Next]_smVars => TickInv'
  <2>. SUFFICES ASSUME TypeOK, SyncInv, TickInv, [Next]_smVars
                PROVE  TickInv'
    OBVIOUS
  <2>1. CASE Tick
    BY <2>1, TickFrame DEF Tick
  <2>2. ASSUME NEW obs \in Observations, NEW sampled \in 0 .. now, Apply(obs, sampled)
        PROVE  TickInv'
    <3>1. state \in PlayerStates /\ obs \in PlayerStates
      BY ConstantsAssumption DEF TypeOK, Observations, PlayerStates
    <3>2. TickIsLast'
      BY <2>2, <3>1, NotificationsOfTick DEF Apply, TickIsLast
    <3>. QED
      BY <2>2, <3>2 DEF Apply, TickInv, TicksFollow
  <2>3. ASSUME NEW sampled \in 0 .. now, Ignore(sampled)
        PROVE  TickInv'
    BY <2>3, TickFrame DEF Ignore
  <2>4. CASE MarkCommandIssued
    BY <2>4, TickFrame DEF MarkCommandIssued
  <2>5. ASSUME NEW n \in Others, Emit(n)
        PROVE  TickInv'
    <3>1. ~IsTick(n) /\ Len(outbox') = 1 /\ outbox'[1] = n
      BY <2>5 DEF Others, IsTick, Emit
    <3>. QED
      BY <2>5, <3>1 DEF Emit, TickInv, TickIsLast, TicksFollow
  <2>6. ASSUME NEW buffer \in Buffers, Subscribe(buffer)
        PROVE  TickInv'
    BY <2>6, TickSubscribe
  <2>7. ASSUME NEW s \in SubIDs, Unsubscribe(s)
        PROVE  TickInv'
    BY <2>7, TickFrame DEF Unsubscribe
  <2>8. CASE FanOut
    BY <2>8, TickFanOut
  <2>9. ASSUME NEW s \in SubIDs, Receive(s)
        PROVE  TickInv'
    BY <2>9, TickReceive
  <2>10. CASE UNCHANGED smVars
    BY <2>10, TickFrame
  <2>. QED
    BY <2>1, <2>2, <2>3, <2>4, <2>5, <2>6, <2>7, <2>8, <2>9, <2>10 DEF Next
<1>. QED
  BY <1>1, <1>2, SyncAlways, TypeCorrect, TickInvImplies, PTL DEF Spec

-----------------------------------------------------------------------------
(***************************************************************************)
(* The feed.  What was published is what is rendered, except while the one *)
(* state.changed of an Apply is still to be sent; it then says something   *)
(* new.                                                                    *)
(***************************************************************************)
OneState ==
  \A i, j \in 1 .. Len(outbox) : IsState(outbox[i]) /\ IsState(outbox[j]) => i = j

PublishedInv ==
  /\ OneState
  /\ StatePending <=> published # Rendered(state)

LEMMA PublishedFrame ==
  ASSUME PublishedInv, UNCHANGED <<state, outbox, published>>
  PROVE  PublishedInv'
BY DEF PublishedInv, OneState, StatePending

LEMMA PublishedApply ==
  ASSUME TypeOK, PublishedInv, NEW obs \in Observations, NEW sampled, Apply(obs, sampled)
  PROVE  PublishedInv' /\ View' = View /\ ~StatePending
<1>. DEFINE ns == NotificationsOf(state, obs)
<1>1. state \in PlayerStates /\ obs \in PlayerStates
  BY ConstantsAssumption DEF TypeOK, Observations, PlayerStates
<1>2. /\ \A i, j \in 1 .. Len(ns) : IsState(ns[i]) =>
           ~SameRenderableState(state, obs) /\ (IsState(ns[j]) => i = j)
      /\ ~SameRenderableState(state, obs) => \E i \in 1 .. Len(ns) : IsState(ns[i])
  BY <1>1, NotificationsOfType
<1>3. ~StatePending /\ published = Rendered(state)
  BY DEF Apply, Unlocked, StatePending, PublishedInv
<1>4. state' = obs /\ outbox' = ns /\ published' = published
  BY DEF Apply
<1>. HIDE DEF ns
<1>5. OneState' /\ (StatePending' <=> ~SameRenderableState(state, obs))
  BY <1>2, <1>4 DEF OneState, StatePending
<1>6. SameRenderableState(state, obs) <=> Rendered(state) = Rendered(obs)
  BY <1>1, SameRenderableIsRendered
<1>7. Rendered(state)' = Rendered(obs)
  BY <1>4 DEF Rendered
<1>. QED
  BY <1>3, <1>4, <1>5, <1>6, <1>7 DEF PublishedInv, View

LEMMA PublishedEmit ==
  ASSUME PublishedInv, NEW n \in Others, Emit(n)
  PROVE  PublishedInv' /\ View' = View
<1>1. ~IsState(n) /\ Len(outbox') = 1 /\ outbox'[1] = n /\ UNCHANGED <<state, published>>
  BY DEF Others, IsState, Emit
<1>2. ~StatePending /\ ~StatePending' /\ OneState'
  <2>1. ~StatePending
    BY DEF Emit, Unlocked, StatePending
  <2>. QED
    BY <1>1, <2>1 DEF StatePending, OneState
<1>3. Rendered(state)' = Rendered(state)
  BY <1>1
<1>. QED
  BY <1>1, <1>2, <1>3 DEF PublishedInv, View

\* The state.changed is the only one, carries the state, and after it nothing is pending.
LEMMA PublishedFanOut ==
  ASSUME TypeOK, SyncInv, PublishedInv, FanOut
  PROVE  /\ PublishedInv'
         /\ ~IsState(Head(outbox)) => View' = View
         /\ IsState(Head(outbox)) => View' # View /\ View' = Rendered(Head(outbox).Body)
<1>. DEFINE n == Head(outbox)
<1>1. /\ n = outbox[1]
      /\ Len(outbox) \in Nat \ {0}
      /\ Len(outbox') = Len(outbox) - 1
      /\ \A i \in 1 .. Len(outbox') : outbox'[i] = outbox[i + 1]
  BY DEF FanOut, TypeOK
<1>2. state' = state /\ published' = IF IsState(n) THEN Rendered(n.Body) ELSE published
  BY DEF FanOut
<1>3. 1 \in 1 .. Len(outbox) /\ \A i \in 1 .. Len(outbox') : i + 1 \in 1 .. Len(outbox)
  BY <1>1
<1>. HIDE DEF n
<1>4. OneState'
  <2>. SUFFICES ASSUME NEW i \in 1 .. Len(outbox'), NEW j \in 1 .. Len(outbox'),
                       IsState(outbox'[i]), IsState(outbox'[j])
                PROVE  i = j
    BY DEF OneState
  <2>1. i + 1 = j + 1
    BY <1>1, <1>3 DEF PublishedInv, OneState
  <2>. QED
    BY <2>1, <1>1
<1>5. Rendered(state)' = Rendered(state)
  BY <1>2
<1>6. CASE IsState(n)
  <2>1. StatePending /\ n.Body = state
    BY <1>1, <1>3, <1>6 DEF StatePending, SyncInv, OutboxCurrent
  <2>2. ~StatePending'
    <3>. SUFFICES ASSUME NEW i \in 1 .. Len(outbox'), IsState(outbox'[i]) PROVE FALSE
      BY DEF StatePending
    <3>1. i + 1 = 1
      BY <1>1, <1>3, <1>6 DEF PublishedInv, OneState
    <3>. QED
      BY <3>1
  <2>. QED
    BY <1>2, <1>4, <1>5, <1>6, <2>1, <2>2 DEF PublishedInv, View, n
<1>7. CASE ~IsState(n)
  <2>1. StatePending' => StatePending
    BY <1>1, <1>3 DEF StatePending
  <2>2. StatePending => StatePending'
    <3>. SUFFICES ASSUME NEW i \in 1 .. Len(outbox), IsState(outbox[i])
                  PROVE  \E j \in 1 .. Len(outbox') : IsState(outbox'[j])
      BY DEF StatePending
    <3>1. i - 1 \in 1 .. Len(outbox') /\ (i - 1) + 1 = i
      BY <1>1, <1>7
    <3>. QED
      BY <1>1, <3>1
  <2>. QED
    BY <1>2, <1>4, <1>5, <1>7, <2>1, <2>2 DEF PublishedInv, View, n
<1>. QED
  BY <1>6, <1>7

-----------------------------------------------------------------------------
(* A channel as a queue of entries.                                        *)
EntriesOf(c) == [i \in DOMAIN c |-> Entry(c[i])]
EntrySet == {Entry(n) : n \in Notifications}

LEMMA EntrySeq ==
  ASSUME NEW c \in Seq(Notifications)
  PROVE  /\ EntriesOf(c) \in Seq(EntrySet)
         /\ Len(EntriesOf(c)) = Len(c) /\ Len(c) \in Nat
         /\ \A i \in 1 .. Len(c) : EntriesOf(c)[i] = Entry(c[i])
<1>. DEFINE f == EntriesOf(c)
<1>1. Len(c) \in Nat /\ DOMAIN c = 1 .. Len(c) /\ \A i \in 1 .. Len(c) : c[i] \in Notifications
  BY LenProperties, ElementOfSeq
<1>2. f = [i \in 1 .. Len(c) |-> Entry(c[i])]
  BY <1>1 DEF EntriesOf
<1>3. \A i \in 1 .. Len(c) : Entry(c[i]) \in EntrySet
  BY <1>1 DEF EntrySet
<1>. HIDE DEF f
<1>4. f \in [1 .. Len(c) -> EntrySet] /\ DOMAIN f = 1 .. Len(c)
      /\ \A i \in 1 .. Len(c) : f[i] = Entry(c[i])
  BY <1>2, <1>3
<1>5. f \in Seq(EntrySet)
  <2>1. Seq(EntrySet) = UNION {[1 .. n -> EntrySet] : n \in Nat}
    BY SeqDef
  <2>. QED
    BY <1>1, <1>4, <2>1, Zenon
<1>6. Len(f) = Len(c)
  <2>1. DOMAIN f = 1 .. Len(f) /\ Len(f) \in Nat
    BY <1>5, LenProperties
  <2>. QED
    BY <1>1, <1>4, <2>1
<1>. QED
  BY <1>1, <1>4, <1>5, <1>6 DEF f

LEMMA EntriesEmpty ==
  ASSUME NEW c \in Seq(Notifications)
  PROVE  EntriesOf(c) = <<>> <=> c = <<>>
<1>1. /\ EntriesOf(c) \in Seq(EntrySet) /\ Len(EntriesOf(c)) = Len(c)
  BY EntrySeq
<1>2. (EntriesOf(c) = <<>> <=> Len(EntriesOf(c)) = 0) /\ (c = <<>> <=> Len(c) = 0)
  BY <1>1, EmptySeq
<1>. QED
  BY <1>1, <1>2

LEMMA EntriesAppend ==
  ASSUME NEW c \in Seq(Notifications), NEW n \in Notifications
  PROVE  EntriesOf(Append(c, n)) = Append(EntriesOf(c), Entry(n))
<1>. DEFINE a == Append(c, n)
            f == EntriesOf(c)
            g == EntriesOf(a)
            h == Append(f, Entry(n))
<1>1. /\ a \in Seq(Notifications) /\ Len(a) = Len(c) + 1 /\ Len(c) \in Nat
      /\ \A i \in 1 .. Len(c) : a[i] = c[i]
      /\ a[Len(c) + 1] = n
  BY AppendProperties, LenProperties
<1>2. /\ f \in Seq(EntrySet) /\ Len(f) = Len(c) /\ \A i \in 1 .. Len(c) : f[i] = Entry(c[i])
  BY EntrySeq
<1>3. g \in Seq(EntrySet) /\ Len(g) = Len(a) /\ \A i \in 1 .. Len(a) : g[i] = Entry(a[i])
  BY <1>1, EntrySeq
<1>4. Entry(n) \in EntrySet
  BY DEF EntrySet
<1>. HIDE DEF a, f, g
<1>5. /\ h \in Seq(EntrySet) /\ Len(h) = Len(f) + 1
      /\ \A i \in 1 .. Len(f) : h[i] = f[i]
      /\ h[Len(f) + 1] = Entry(n)
  BY <1>2, <1>4, AppendProperties
<1>. HIDE DEF h
<1>6. ASSUME NEW i \in 1 .. Len(g) PROVE g[i] = h[i]
  <2>1. CASE i \in 1 .. Len(c)
    BY <1>1, <1>2, <1>3, <1>5, <2>1
  <2>2. CASE i = Len(c) + 1
    BY <1>1, <1>2, <1>3, <1>5, <2>2
  <2>. QED
    BY <1>1, <1>3, <2>1, <2>2
<1>7. Len(g) = Len(h)
  BY <1>1, <1>2, <1>3, <1>5
<1>8. g = h
  BY <1>3, <1>5, <1>6, <1>7, SeqEqual
<1>. QED
  BY <1>8 DEF a, f, g, h

LEMMA EntriesTail ==
  ASSUME NEW c \in Seq(Notifications), c # <<>>
  PROVE  EntriesOf(Tail(c)) = Tail(EntriesOf(c))
<1>. DEFINE t == Tail(c)
            f == EntriesOf(c)
            g == EntriesOf(t)
            h == Tail(f)
<1>1. /\ t \in Seq(Notifications) /\ Len(t) = Len(c) - 1 /\ Len(c) \in Nat
      /\ \A i \in 1 .. Len(t) : t[i] = c[i + 1]
  BY HeadTailProperties, LenProperties
<1>2. f \in Seq(EntrySet) /\ Len(f) = Len(c) /\ f # <<>>
      /\ \A i \in 1 .. Len(c) : f[i] = Entry(c[i])
  BY EntrySeq, EntriesEmpty
<1>3. g \in Seq(EntrySet) /\ Len(g) = Len(t) /\ \A i \in 1 .. Len(t) : g[i] = Entry(t[i])
  BY <1>1, EntrySeq
<1>. HIDE DEF t, f, g
<1>4. /\ h \in Seq(EntrySet) /\ Len(h) = Len(f) - 1
      /\ \A i \in 1 .. Len(h) : h[i] = f[i + 1]
  BY <1>2, HeadTailProperties
<1>. HIDE DEF h
<1>5. ASSUME NEW i \in 1 .. Len(g) PROVE g[i] = h[i]
  <2>1. i \in 1 .. Len(t) /\ i \in 1 .. Len(h) /\ i + 1 \in 1 .. Len(c)
    BY <1>1, <1>2, <1>3, <1>4
  <2>. QED
    BY <1>1, <1>2, <1>3, <1>4, <2>1
<1>6. g = h
  BY <1>1, <1>2, <1>3, <1>4, <1>5, SeqEqual
<1>. QED
  BY <1>6 DEF t, f, g, h

LEMMA EntriesAre ==
  ASSUME TypeOK
  PROVE  /\ Entries = [s \in SubIDs |-> EntriesOf(chan[s])]
         /\ \A s \in SubIDs : chan[s] \in Seq(Notifications)
BY DEF Entries, EntriesOf, TypeOK

-----------------------------------------------------------------------------
(* The steps of the state machine as steps of the feed.                    *)
LEMMA FeedInitial == Init => Feed!FeedInit
<1>. SUFFICES ASSUME Init PROVE Feed!FeedInit
  OBVIOUS
<1>1. View = Rendered(ZeroState)
  BY DEF Init, View, StatePending
<1>2. <<>> \in Seq(Notifications)
  BY EmptySeq
<1>3. EntriesOf(<<>>) = <<>>
  BY <1>2, EntriesEmpty
<1>4. Entries = [s \in SubIDs |-> EntriesOf(chan[s])]
  BY DEF Entries, EntriesOf
<1>5. Entries = [s \in SubIDs |-> <<>>]
  BY <1>3, <1>4 DEF Init
<1>. QED
  BY <1>1, <1>5 DEF Init, Feed!FeedInit

\* A fan-out offers its notification to all members.
LEMMA FanOutOffers ==
  ASSUME TypeOK, TypeOK', FanOut
  PROVE  Feed!Offer(Entry(Head(outbox)))
<1>. DEFINE n == Head(outbox)
<1>1. n \in Notifications
  BY DEF FanOut, TypeOK
<1>2. \A s \in SubIDs :
        chan'[s] = IF s \in subscribers /\ Len(chan[s]) < cap[s] THEN Append(chan[s], n) ELSE chan[s]
  BY DEF FanOut, HasRoom
<1>. HIDE DEF n
<1>3. ASSUME NEW s \in SubIDs
      PROVE  EntriesOf(chan'[s]) =
               IF s \in subscribers /\ Len(Entries[s]) < cap[s]
               THEN Append(Entries[s], Entry(n)) ELSE Entries[s]
  <2>1. chan[s] \in Seq(Notifications) /\ Entries[s] = EntriesOf(chan[s])
    BY EntriesAre
  <2>2. Len(Entries[s]) = Len(chan[s])
    BY <2>1, EntrySeq
  <2>3. EntriesOf(Append(chan[s], n)) = Append(EntriesOf(chan[s]), Entry(n))
    BY <1>1, <2>1, EntriesAppend
  <2>. QED
    BY <1>2, <2>1, <2>2, <2>3
<1>4. Entries' = [s \in SubIDs |-> EntriesOf(chan'[s])]
  BY DEF Entries, EntriesOf
<1>5. Entries' = [s \in SubIDs |-> IF s \in subscribers /\ Len(Entries[s]) < cap[s]
                                   THEN Append(Entries[s], Entry(n)) ELSE Entries[s]]
  <2>. HIDE DEF SubIDs
  <2>. QED
    BY <1>3, <1>4, Zenon
<1>. QED
  BY <1>5 DEF Feed!Offer, n

LEMMA FanOutFeeds ==
  ASSUME TypeOK, TypeOK', SyncInv, PublishedInv, FanOut
  PROVE  Feed!Change \/ Feed!Mention
<1>. DEFINE n == Head(outbox)
<1>1. Feed!Offer(Entry(n)) /\ UNCHANGED <<subscribers, cap>>
  BY FanOutOffers DEF FanOut
<1>2. n \in Notifications
  BY DEF FanOut, TypeOK
<1>3. CASE IsState(n)
  <2>1. View' # View /\ View' = Rendered(n.Body)
    BY <1>3, PublishedFanOut
  <2>2. View' \in Renderings
    <3>1. n.Body \in PlayerStates
      BY <1>2, <1>3 DEF IsState, Notifications, Others
    <3>. QED
      BY <2>1, <3>1 DEF Renderings
  <2>3. Entry(n) = Feed!Shows(View')
    BY <1>3, <2>1 DEF Entry, Feed!Shows
  <2>. QED
    BY <1>1, <2>1, <2>2, <2>3 DEF Feed!Change
<1>4. CASE ~IsState(n)
  <2>1. View' = View
    BY <1>4, PublishedFanOut
  <2>2. Entry(n) = Feed!Note
    BY <1>4 DEF Entry, Feed!Note
  <2>. QED
    BY <1>1, <2>1, <2>2 DEF Feed!Mention
<1>. QED
  BY <1>3, <1>4

LEMMA ReceiveFeeds ==
  ASSUME TypeOK, NEW s \in SubIDs, Receive(s)
  PROVE  Feed!Take(s)
<1>1. chan[s] \in Seq(Notifications) /\ chan[s] # <<>> /\ Entries[s] = EntriesOf(chan[s])
  BY EntriesAre DEF Receive
<1>2. Entries[s] # <<>> /\ EntriesOf(Tail(chan[s])) = Tail(Entries[s])
  BY <1>1, EntriesEmpty, EntriesTail
<1>3. \A r \in SubIDs : chan'[r] = IF r = s THEN Tail(chan[s]) ELSE chan[r]
  BY DEF Receive, TypeOK
<1>4. Entries = [r \in SubIDs |-> EntriesOf(chan[r])]
  BY EntriesAre
<1>5. Entries' = [r \in SubIDs |-> EntriesOf(chan'[r])]
  BY DEF Entries, EntriesOf
<1>6. Entries' = [Entries EXCEPT ![s] = Tail(@)]
  <2>1. ASSUME NEW r \in SubIDs
        PROVE  EntriesOf(chan'[r]) = IF r = s THEN Tail(Entries[s]) ELSE Entries[r]
    BY <1>2, <1>3, <1>4
  <2>2. Entries' = [r \in SubIDs |-> IF r = s THEN Tail(Entries[s]) ELSE Entries[r]]
    <3>. HIDE DEF SubIDs
    <3>. QED
      BY <1>5, <2>1, Zenon
  <2>. QED
    BY <1>4, <2>2
<1>7. View' = View /\ UNCHANGED <<subscribers, cap>>
  BY DEF Receive, View, StatePending
<1>. QED
  BY <1>2, <1>6, <1>7 DEF Feed!Take

LEMMA SubscribeFeeds ==
  ASSUME TypeOK, NEW buffer \in Buffers, Subscribe(buffer)
  PROVE  \E size \in {DefaultBuffer} \cup {b \in Buffers : b > 0} : Feed!Join(nextSubID, size)
<1>. DEFINE size == IF buffer <= 0 THEN DefaultBuffer ELSE buffer
<1>1. size \in {DefaultBuffer} \cup {b \in Buffers : b > 0}
  BY Bounds
<1>2. nextSubID \in SubIDs /\ cap[nextSubID] = 0
  <2>1. nextSubID \in SubIDs
    BY Bounds DEF Subscribe, TypeOK
  <2>. QED
    BY <2>1 DEF TypeOK
<1>3. UNCHANGED Entries /\ View' = View
  BY DEF Subscribe, Entries, View, StatePending
<1>4. cap' = [cap EXCEPT ![nextSubID] = size] /\ subscribers' = subscribers \cup {nextSubID}
  BY DEF Subscribe
<1>5. Feed!Join(nextSubID, size)
  BY <1>2, <1>3, <1>4 DEF Feed!Join
<1>. QED
  BY <1>1, <1>5

LEMMA FeedFrame ==
  ASSUME UNCHANGED <<state, outbox, published, chan, cap, subscribers>>
  PROVE  UNCHANGED Feed!publicVars
BY DEF Feed!publicVars, View, StatePending, Entries

LEMMA PublishedAlways == Spec => []PublishedInv
<1>1. Init => PublishedInv
  BY DEF Init, PublishedInv, OneState, StatePending
<1>2. TypeOK /\ SyncInv /\ PublishedInv /\ [Next]_smVars => PublishedInv'
  <2>. SUFFICES ASSUME TypeOK, SyncInv, PublishedInv, [Next]_smVars
                PROVE  PublishedInv'
    OBVIOUS
  <2>1. CASE Tick
    BY <2>1, PublishedFrame DEF Tick
  <2>2. ASSUME NEW obs \in Observations, NEW sampled \in 0 .. now, Apply(obs, sampled)
        PROVE  PublishedInv'
    BY <2>2, PublishedApply
  <2>3. ASSUME NEW sampled \in 0 .. now, Ignore(sampled)
        PROVE  PublishedInv'
    BY <2>3, PublishedFrame DEF Ignore
  <2>4. CASE MarkCommandIssued
    BY <2>4, PublishedFrame DEF MarkCommandIssued
  <2>5. ASSUME NEW n \in Others, Emit(n)
        PROVE  PublishedInv'
    BY <2>5, PublishedEmit
  <2>6. ASSUME NEW buffer \in Buffers, Subscribe(buffer)
        PROVE  PublishedInv'
    BY <2>6, PublishedFrame DEF Subscribe
  <2>7. ASSUME NEW s \in SubIDs, Unsubscribe(s)
        PROVE  PublishedInv'
    BY <2>7, PublishedFrame DEF Unsubscribe
  <2>8. CASE FanOut
    BY <2>8, PublishedFanOut
  <2>9. ASSUME NEW s \in SubIDs, Receive(s)
        PROVE  PublishedInv'
    BY <2>9, PublishedFrame DEF Receive
  <2>10. CASE UNCHANGED smVars
    BY <2>10, PublishedFrame
  <2>. QED
    BY <2>1, <2>2, <2>3, <2>4, <2>5, <2>6, <2>7, <2>8, <2>9, <2>10 DEF Next
<1>. QED
  BY <1>1, <1>2, TypeCorrect, SyncAlways, PTL DEF Spec

\* The machine gives its subscribers the feed that the pipeline to the screens takes for
\* granted: what is rendered changes together with the one notification of it.
THEOREM MachineImplementsFeed == Spec => ImplementsFeed
<1>1. Init => Feed!FeedInit
  BY FeedInitial
<1>2. TypeOK /\ TypeOK' /\ SyncInv /\ PublishedInv /\ [Next]_smVars
        => [Feed!FeedNext]_Feed!publicVars
  <2>. SUFFICES ASSUME TypeOK, TypeOK', SyncInv, PublishedInv, [Next]_smVars
                PROVE  [Feed!FeedNext]_Feed!publicVars
    OBVIOUS
  <2>1. CASE Tick
    BY <2>1, FeedFrame DEF Tick
  <2>2. ASSUME NEW obs \in Observations, NEW sampled \in 0 .. now, Apply(obs, sampled)
        PROVE  UNCHANGED Feed!publicVars
    <3>1. View' = View
      BY <2>2, PublishedApply
    <3>2. UNCHANGED <<subscribers, cap, Entries>>
      BY <2>2 DEF Apply, Entries
    <3>. QED
      BY <3>1, <3>2 DEF Feed!publicVars
  <2>3. ASSUME NEW sampled \in 0 .. now, Ignore(sampled)
        PROVE  UNCHANGED Feed!publicVars
    BY <2>3, FeedFrame DEF Ignore
  <2>4. CASE MarkCommandIssued
    BY <2>4, FeedFrame DEF MarkCommandIssued
  <2>5. ASSUME NEW n \in Others, Emit(n)
        PROVE  UNCHANGED Feed!publicVars
    <3>1. View' = View
      BY <2>5, PublishedEmit
    <3>2. UNCHANGED <<subscribers, cap, Entries>>
      BY <2>5 DEF Emit, Entries
    <3>. QED
      BY <3>1, <3>2 DEF Feed!publicVars
  <2>6. ASSUME NEW buffer \in Buffers, Subscribe(buffer)
        PROVE  Feed!FeedNext
    <3>1. nextSubID \in SubIDs
      BY <2>6, Bounds DEF Subscribe, TypeOK
    <3>. QED
      BY <2>6, <3>1, SubscribeFeeds DEF Feed!FeedNext
  <2>7. ASSUME NEW s \in SubIDs, Unsubscribe(s)
        PROVE  Feed!FeedNext
    <3>1. Feed!Leave(s)
      BY <2>7 DEF Unsubscribe, Feed!Leave, View, StatePending, Entries
    <3>. QED
      BY <3>1 DEF Feed!FeedNext
  <2>8. CASE FanOut
    BY <2>8, FanOutFeeds DEF Feed!FeedNext
  <2>9. ASSUME NEW s \in SubIDs, Receive(s)
        PROVE  Feed!FeedNext
    BY <2>9, ReceiveFeeds DEF Feed!FeedNext
  <2>10. CASE UNCHANGED smVars
    BY <2>10, FeedFrame
  <2>. QED
    BY <2>1, <2>2, <2>3, <2>4, <2>5, <2>6, <2>7, <2>8, <2>9, <2>10 DEF Next
<1>. QED
  BY <1>1, <1>2, TypeCorrect, SyncAlways, PublishedAlways, PTL DEF Spec, ImplementsFeed, Feed!FeedSpec
=============================================================================
