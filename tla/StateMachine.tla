---------------------------- MODULE StateMachine ----------------------------
(***************************************************************************)
(* The canonical player state of the daemon and its in-process pub/sub:    *)
(* internal/state/state.go, type Machine.                                  *)
(*                                                                         *)
(* Every method of Machine holds m.mu from its first to its last           *)
(* statement, so each is one atomic step, with one exception.  fanOut runs *)
(* under the lock, but the consumers receive from their channels without   *)
(* it: a consumer may make room between two of the non-blocking sends of   *)
(* one Apply.  The notifications of the method that holds the lock are     *)
(* therefore kept in outbox, FanOut sends them one at a time, and every    *)
(* method that takes the lock waits until outbox is empty.  (The sends of  *)
(* one notification to different subscribers touch different channels and  *)
(* commute with each other's receives, so they are one step.)              *)
(***************************************************************************)
EXTENDS Integers, Sequences

CONSTANTS
  Providers,      \* names a provider reports (Observation.Provider)
  Reported,       \* statuses a provider reports (Observation.Status)
  Tracks,         \* tracks: records with an ID, the Names, and a DurationMS
  NoTrack,        \* the nil *proto.Track
  NoID,           \* the empty track ID
  NoProvider,     \* the empty provider name of the zero PlayerState
  Volumes,        \* values of Observation.Volume; holds the zero value
  Positions,      \* values of Observation.PositionMS; holds the zero value
  Debounce,       \* 250 ms, in steps of the clock
  Buffers,        \* buffer sizes Subscribe is called with
  DefaultBuffer,  \* what Subscribe uses for a size that is not positive (16)
  MaxSubs,        \* bound: subscriptions made in a run
  MaxTime         \* bound: clock steps in a run

Statuses == {"", "playing", "paused", "stopped"}
Never    == -1                       \* the zero time.Time of lastCmdAt
SubIDs   == 0 .. MaxSubs - 1

ASSUME ConstantsAssumption ==
  /\ Reported \subseteq Statuses \ {""}
  /\ NoTrack \notin Tracks
  /\ 0 \in Volumes
  /\ 0 \in Positions
  /\ Debounce \in Nat
  /\ Buffers \subseteq Int
  /\ DefaultBuffer \in Nat \ {0}
  /\ MaxSubs \in Nat
  /\ MaxTime \in Nat

VARIABLES
  now,          \* what m.clock returns
  state,        \* m.state
  lastCmdAt,    \* m.lastCmdAt
  nextSubID,    \* m.nextSubID
  subscribers,  \* the keys of m.subscribers
  chan,         \* the contents of each subscriber's channel
  cap,          \* the capacity of each subscriber's channel
  outbox,       \* notifications the holder of m.mu has still to send
  seen,         \* history: the last state each consumer was told
  missed,       \* history: consumers whose last state.changed was lost
  lossy,        \* history: consumers that ever lost a state.changed
  published     \* history: what the last state.changed said, as it is rendered

machineVars == <<state, lastCmdAt>>
subVars     == <<nextSubID, subscribers, cap>>
feedVars    == <<chan, seen, missed, lossy, published>>
smVars      == <<now, machineVars, subVars, feedVars, outbox>>

-----------------------------------------------------------------------------
(* Types.                                                                  *)

Observations ==
  [Provider : Providers, Status : Reported, Track : Tracks \cup {NoTrack},
   Volume : Volumes, PositionMS : Positions]

\* UpdatedAt is left out: nothing in the daemon or its clients reads it back.
PlayerStates ==
  [Provider : Providers \cup {NoProvider}, Status : Statuses,
   Track : Tracks \cup {NoTrack}, Volume : Volumes, PositionMS : Positions]

TrackChanged(prev, cur) == [Method |-> "track.changed", Prev |-> prev, Current |-> cur]
StateChanged(st)        == [Method |-> "state.changed", Body |-> st]
ProgressTick(st)        == [Method |-> "progress.tick", PositionMS |-> st.PositionMS,
                            DurationMS |-> st.Track.DurationMS]
Others                  == {[Method |-> "auth.required"], [Method |-> "error"]}

IsState(n) == n.Method = "state.changed"
IsTick(n)  == n.Method = "progress.tick"

Notifications ==
  [Method : {"track.changed"}, Prev : Tracks \cup {NoTrack}, Current : Tracks \cup {NoTrack}]
    \cup [Method : {"state.changed"}, Body : PlayerStates]
    \cup [Method : {"progress.tick"}, PositionMS : Positions,
          DurationMS : {t.DurationMS : t \in Tracks}]
    \cup Others

-----------------------------------------------------------------------------
(* Comparing states.                                                       *)

\* What a client draws of a state, said without SameTrack: a track is known by
\* its ID, and by its title, artist and album when it has none.
TrackKey(t) == IF t = NoTrack THEN <<"none", NoID>>
               ELSE IF t.ID # NoID THEN <<"id", t.ID>> ELSE <<"names", t.Names>>
Rendered(st) == <<st.Provider, st.Status, st.Volume, TrackKey(st.Track)>>
Renderings   == {Rendered(st) : st \in PlayerStates}

\* Mutant: the fallback on names, for every track.
SameTrackByNames(a, b) ==
  \/ a = NoTrack /\ b = NoTrack
  \/ a # NoTrack /\ b # NoTrack /\ a.Names = b.Names

SameTrack(a, b) ==
  \/ a = NoTrack /\ b = NoTrack
  \/ /\ a # NoTrack
     /\ b # NoTrack
     /\ IF a.ID # NoID \/ b.ID # NoID THEN a.ID = b.ID ELSE a.Names = b.Names

\* Mutant: Status forgotten.
SameIgnoringStatus(a, b) ==
  a.Provider = b.Provider /\ a.Volume = b.Volume /\ SameTrack(a.Track, b.Track)

SameRenderableState(a, b) ==
  /\ a.Provider = b.Provider
  /\ a.Status = b.Status
  /\ a.Volume = b.Volume
  /\ SameTrack(a.Track, b.Track)

\* What Apply notifies when the state moves from prev to next.
When(condition, n) == IF condition THEN <<n>> ELSE <<>>

\* Mutant: the tick first.
TickFirst(prev, next) ==
  When(next.Status = "playing" /\ next.Track # NoTrack, ProgressTick(next))
    \o When(~SameRenderableState(prev, next), StateChanged(next))

\* Mutant: every update is said to have changed the state.
ChangedAlways(prev, next) ==
  When(~SameTrack(prev.Track, next.Track), TrackChanged(prev.Track, next.Track))
    \o <<StateChanged(next)>>
    \o When(next.Status = "playing" /\ next.Track # NoTrack, ProgressTick(next))

NotificationsOf(prev, next) ==
  When(~SameTrack(prev.Track, next.Track), TrackChanged(prev.Track, next.Track))
    \o When(~SameRenderableState(prev, next), StateChanged(next))
    \o When(next.Status = "playing" /\ next.Track # NoTrack, ProgressTick(next))

-----------------------------------------------------------------------------
(* The methods of Machine.                                                 *)

Unlocked == outbox = <<>>

ZeroState ==
  [Provider |-> NoProvider, Status |-> "", Track |-> NoTrack, Volume |-> 0, PositionMS |-> 0]

Init ==
  /\ now = 0
  /\ state = ZeroState
  /\ lastCmdAt = Never
  /\ nextSubID = 0
  /\ subscribers = {}
  /\ chan = [s \in SubIDs |-> <<>>]
  /\ cap = [s \in SubIDs |-> 0]
  /\ outbox = <<>>
  /\ seen = [s \in SubIDs |-> ZeroState]
  /\ missed = {}
  /\ lossy = {}
  /\ published = Rendered(ZeroState)

Tick ==
  /\ now < MaxTime
  /\ now' = now + 1
  /\ UNCHANGED <<machineVars, subVars, feedVars, outbox>>

\* Mutant: the window is forgotten.
IgnoredBeforeOnly(sampled) == lastCmdAt # Never /\ sampled < lastCmdAt

\* The two early returns of Apply.
Ignored(sampled) ==
  /\ lastCmdAt # Never
  /\ sampled < lastCmdAt \/ now - lastCmdAt < Debounce

\* A provider reports obs, which it read at time sampled.
Apply(obs, sampled) ==
  /\ Unlocked
  /\ ~Ignored(sampled)
  /\ state' = obs
  /\ outbox' = NotificationsOf(state, obs)
  /\ UNCHANGED <<now, lastCmdAt, subVars, feedVars>>

\* The same call when it returns early: nothing changes.
Ignore(sampled) ==
  /\ Unlocked
  /\ Ignored(sampled)
  /\ UNCHANGED smVars

MarkCommandIssued ==
  /\ Unlocked
  /\ lastCmdAt' = now
  /\ UNCHANGED <<now, state, subVars, feedVars, outbox>>

Emit(n) ==
  /\ Unlocked
  /\ outbox' = <<n>>
  /\ UNCHANGED <<now, machineVars, subVars, feedVars>>

\* A new consumer starts from the state of the moment it subscribes.
Subscribe(buffer) ==
  /\ Unlocked
  /\ nextSubID < MaxSubs
  /\ nextSubID' = nextSubID + 1
  /\ subscribers' = subscribers \cup {nextSubID}
  /\ cap' = [cap EXCEPT ![nextSubID] = IF buffer <= 0 THEN DefaultBuffer ELSE buffer]
  /\ seen' = [seen EXCEPT ![nextSubID] = state]
  /\ UNCHANGED <<now, machineVars, chan, missed, lossy, published, outbox>>

\* The channel is closed and forgotten; what it holds can still be received.
Unsubscribe(s) ==
  /\ Unlocked
  /\ s \in subscribers
  /\ subscribers' = subscribers \ {s}
  /\ UNCHANGED <<now, machineVars, nextSubID, cap, feedVars, outbox>>

\* Mutant: one entry too many.
HasRoomOffByOne(s) == Len(chan[s]) <= cap[s]

HasRoom(s) == Len(chan[s]) < cap[s]

\* One non-blocking send per subscriber of the next notification: a full
\* channel loses the new notification, never an old one.
FanOut ==
  /\ outbox # <<>>
  /\ LET n == Head(outbox)
         told == {s \in subscribers : HasRoom(s)}
         lost == subscribers \ told
     IN  /\ chan' = [s \in SubIDs |-> IF s \in told THEN Append(chan[s], n) ELSE chan[s]]
         /\ missed' = IF IsState(n) THEN (missed \ told) \cup lost ELSE missed
         /\ lossy' = IF IsState(n) THEN lossy \cup lost ELSE lossy
         /\ published' = IF IsState(n) THEN Rendered(n.Body) ELSE published
  /\ outbox' = Tail(outbox)
  /\ UNCHANGED <<now, machineVars, subVars, seen>>

\* The consumer of s receives from its channel, without m.mu.
Receive(s) ==
  /\ chan[s] # <<>>
  /\ chan' = [chan EXCEPT ![s] = Tail(@)]
  /\ seen' = [seen EXCEPT ![s] = IF IsState(Head(chan[s])) THEN Head(chan[s]).Body ELSE @]
  /\ UNCHANGED <<now, machineVars, subVars, missed, lossy, published, outbox>>

Next ==
  \/ Tick
  \/ \E obs \in Observations, sampled \in 0 .. now : Apply(obs, sampled) \/ Ignore(sampled)
  \/ MarkCommandIssued
  \/ \E n \in Others : Emit(n)
  \/ \E buffer \in Buffers : Subscribe(buffer)
  \/ \E s \in SubIDs : Unsubscribe(s)
  \/ FanOut
  \/ \E s \in SubIDs : Receive(s)

Spec == Init /\ [][Next]_smVars

(***************************************************************************)
(* Fairness: the holder of the lock never blocks in fanOut (every send has *)
(* a default branch), and a consumer is a goroutine that loops on its      *)
(* channel.  Providers, commands and subscriptions owe nothing.            *)
(***************************************************************************)
Fairness == WF_smVars(FanOut) /\ \A s \in SubIDs : WF_smVars(Receive(s))

FairSpec == Spec /\ Fairness

-----------------------------------------------------------------------------
(* Properties.                                                             *)

\* Every variable has its type, and no channel holds more than its buffer:
\* fanOut never blocks on a full one (state.go:157 to 158).
TypeOK ==
  /\ now \in 0 .. MaxTime
  /\ state \in PlayerStates
  /\ lastCmdAt \in {Never} \cup 0 .. now
  /\ nextSubID \in 0 .. MaxSubs
  /\ subscribers \subseteq 0 .. nextSubID - 1
  /\ cap \in [SubIDs -> Nat]
  /\ chan \in [SubIDs -> Seq(Notifications)]
  /\ \A s \in SubIDs : Len(chan[s]) <= cap[s] /\ (s >= nextSubID => cap[s] = 0)
  /\ outbox \in Seq(Notifications)
  /\ seen \in [SubIDs -> PlayerStates]
  /\ missed \subseteq lossy
  /\ lossy \subseteq 0 .. nextSubID - 1
  /\ published \in Renderings

StatePending == \E i \in 1 .. Len(outbox) : IsState(outbox[i])

\* The state the consumer of s knows after the first i entries of its channel.
Told(s, i, st) ==
  \/ \E j \in 1 .. i : /\ IsState(chan[s][j])
                       /\ st = chan[s][j].Body
                       /\ \A k \in j + 1 .. i : ~IsState(chan[s][k])
  \/ /\ st = seen[s]
     /\ \A j \in 1 .. i : ~IsState(chan[s][j])

\* A subscriber whose latest state.changed was not dropped will, once it has
\* read its channel, show exactly the canonical state: no chain of updates too
\* small to notify (state.go:215 to 221, sameRenderableState) ever drifts away
\* from what it was told, and a drop is repaired by the next state.changed.
InSync ==
  \A s \in subscribers \ missed :
    ~StatePending =>
      \A st \in {chan[s][j].Body : j \in {j \in 1 .. Len(chan[s]) : IsState(chan[s][j])}}
                  \cup {seen[s]} :
        Told(s, Len(chan[s]), st) => Rendered(st) = Rendered(state)

\* A progress tick never overtakes the state it belongs to: a subscriber that
\* lost no state.changed receives a tick only when the last state it was told
\* before it is playing a track (Apply's order of notifications, state.go:104 to 132).
TicksWhilePlaying ==
  \A s \in subscribers \ lossy :
    \A i \in {i \in 1 .. Len(chan[s]) : IsTick(chan[s][i])} :
      \A st \in {chan[s][j].Body : j \in {j \in 1 .. i : IsState(chan[s][j])}} \cup {seen[s]} :
        Told(s, i, st) => st.Status = "playing" /\ st.Track # NoTrack

\* To whoever does not hold m.mu the machine is a feed: what is rendered, which Get returns
\* (state.go:62), changes in one step with the one state.changed that says it, never without;
\* none repeats what was said last (state.go:116), and each goes wherever there is room.
View == IF StatePending THEN published ELSE Rendered(state)
Entry(n) == IF IsState(n) THEN [kind |-> "state", view |-> Rendered(n.Body)]
            ELSE [kind |-> "other"]
Entries == [s \in SubIDs |-> [i \in DOMAIN chan[s] |-> Entry(chan[s][i])]]
Feed == INSTANCE Feed
  WITH Consumers <- SubIDs, Sizes <- {DefaultBuffer} \cup {b \in Buffers : b > 0},
       Views <- Renderings, Blank <- Rendered(ZeroState),
       view <- View, members <- subscribers, room <- cap, queue <- Entries
ImplementsFeed == Feed!FeedSpec

\* If nothing ever happens again, every subscriber whose last state.changed was
\* not dropped ends up showing the canonical state.
Quiet == [][FALSE]_<<state, subscribers, lastCmdAt>>
Converges ==
  \A s \in SubIDs :
    (<>Quiet) => <>[](s \in subscribers => s \in missed \/ Rendered(seen[s]) = Rendered(state))
=============================================================================
