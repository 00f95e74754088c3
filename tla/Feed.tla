--------------------------------- MODULE Feed ---------------------------------
(***************************************************************************)
(* What the state machine (module StateMachine) promises its consumers: a  *)
(* change of what is drawn and the notification that says it are one step, *)
(* which reaches every member that has room for it.  The others hear of it *)
(* with the next change at the earliest.                                   *)
(***************************************************************************)
EXTENDS Integers, Sequences

CONSTANTS
  Consumers,
  Sizes,      \* of their queues
  Views,      \* what can be drawn
  Blank       \* what is drawn at first

VARIABLES
  view,       \* what is to be drawn
  members,    \* consumers that are notified
  room,       \* the size of each one's queue, 0 before it joins
  queue

publicVars == <<view, members, room, queue>>

Shows(v) == [kind |-> "state", view |-> v]
Note     == [kind |-> "other"]

FeedInit ==
  /\ view = Blank
  /\ members = {}
  /\ room = [c \in Consumers |-> 0]
  /\ queue = [c \in Consumers |-> <<>>]

Offer(entry) ==
  queue' = [c \in Consumers |-> IF c \in members /\ Len(queue[c]) < room[c]
                                THEN Append(queue[c], entry) ELSE queue[c]]

Change ==
  /\ view' \in Views \ {view}
  /\ Offer(Shows(view'))
  /\ UNCHANGED <<members, room>>

Mention == Offer(Note) /\ UNCHANGED <<view, members, room>>

\* Once, with an empty queue; what was said before is not repeated.
Join(c, size) ==
  /\ room[c] = 0
  /\ members' = members \cup {c}
  /\ room' = [room EXCEPT ![c] = size]
  /\ UNCHANGED <<view, queue>>

Leave(c) == members' = members \ {c} /\ UNCHANGED <<view, room, queue>>

Take(c) ==
  /\ queue[c] # <<>>
  /\ queue' = [queue EXCEPT ![c] = Tail(@)]
  /\ UNCHANGED <<view, members, room>>

FeedNext ==
  \/ Change \/ Mention
  \/ \E c \in Consumers : Leave(c) \/ Take(c) \/ \E size \in Sizes : Join(c, size)

FeedSpec == FeedInit /\ [][FeedNext]_publicVars
=============================================================================
