------------------------------ MODULE FrameQueue ------------------------------
(***************************************************************************)
(* What a connection of the server (module Wire) promises its client: a    *)
(* queue of frames, each written once and read once, in one order, in      *)
(* which the answers stand in the order of their requests.  Frames above 0 *)
(* are answers; when the connection is closed nothing more is written, but *)
(* what was written is read before the end is seen.                        *)
(***************************************************************************)
EXTENDS Integers, Sequences

CONSTANT Frames

VARIABLES
  sent,  \* the frames that were written
  got,   \* those that were read
  open,
  over   \* the client has seen the end

queueVars == <<sent, got, open, over>>

QueueInit == sent = <<>> /\ got = <<>> /\ open = TRUE /\ over = FALSE

\* A frame is written once, and no answer after that of a later request.
Following(f) == \A i \in DOMAIN sent : sent[i] # f /\ (f > 0 => sent[i] < f)

Write ==
  /\ open
  /\ \E f \in Frames : Following(f) /\ sent' = Append(sent, f)
  /\ UNCHANGED <<got, open, over>>

Read ==
  /\ ~over
  /\ Len(got) < Len(sent)
  /\ got' = Append(got, sent[Len(got) + 1])
  /\ UNCHANGED <<sent, open, over>>

HangUp == open' = FALSE /\ UNCHANGED <<sent, got, over>>

End ==
  /\ ~open /\ ~over
  /\ got = sent
  /\ over' = TRUE
  /\ UNCHANGED <<sent, got, open>>

QueueSpec == QueueInit /\ [][Write \/ Read \/ HangUp \/ End]_queueVars
=============================================================================
