--------------------------------- MODULE Wire ---------------------------------
(***************************************************************************)
(* One connection of the server as frames and bytes (internal/proto,       *)
(* internal/ipc/server.go): the loop that reads, validates, dispatches and *)
(* answers, the two goroutines that broadcast, the writer they share, and  *)
(* the client's reader.                                                    *)
(*                                                                         *)
(* A frame is a number and a length: n for the answer to the n-th frame    *)
(* that the loop read, its own number for the notification of a goroutine. *)
(* A byte says of which frame it is and whether it is the newline.         *)
(***************************************************************************)
EXTENDS Integers, Sequences, SequencesExt

CONSTANTS
  MaxFrameSize,  \* of a frame with its newline (1 MiB)
  BufferSize,    \* of the reader's buffer (64 KiB)
  SocketSize,    \* bytes on their way
  Lengths,       \* of frames without their newline
  MaxReads       \* bound: frames that the client sends

ASSUME WireAssumption ==
  /\ MaxFrameSize \in Nat \ {0} /\ BufferSize \in Nat \ {0} /\ SocketSize \in Nat \ {0}
  /\ Lengths \subseteq Nat \ {0} /\ MaxReads \in Nat

VARIABLES
  reads,       \* counter of the bound
  writer,      \* what each goroutine wants to write, and how much it has written
  writerLock,  \* Writer.mu
  broadcasts,  \* the goroutines that have broadcast
  subscribed,
  socket, closed,
  line, chunk, \* readLine's out, and what ReadSlice has
  ended,       \* readLoop is over: "no", "eof", or "error"
  got,         \* history: what the client has read
  owed,        \* history: the answers that the loop has given to the writer
  sent         \* history: the frames that were wholly written

wireVars == <<reads, writer, writerLock, broadcasts, subscribed, socket, closed,
              line, chunk, ended, got, owed, sent>>

Free         == 1
Loop         == 0
Broadcasters == {-1, -2}  \* the forwarder of the state machine, and runSpectrum
Goroutines   == {Loop} \cup Broadcasters
NoWrite      == [frame |-> 0, length |-> 0, written |-> 0]

WireInit ==
  /\ reads = 0
  /\ writer = [g \in Goroutines |-> NoWrite]
  /\ writerLock = Free
  /\ broadcasts = {}
  /\ subscribed = FALSE
  /\ socket = <<>> /\ closed = FALSE
  /\ line = <<>> /\ chunk = <<>>
  /\ ended = "no"
  /\ got = <<>> /\ owed = <<>> /\ sent = <<>>

-----------------------------------------------------------------------------
(* Message: which of its fields are set.                                   *)

Messages == [version : BOOLEAN, id : BOOLEAN, method : BOOLEAN,
             result : BOOLEAN, error : BOOLEAN]

IsRequest(m) == m.id /\ m.method

Validate(m) == m.version /\ (m.method \/ m.id) /\ ~(m.result /\ m.error)

\* Whether a frame is answered: with an error if it is not valid, by dispatch if it
\* is a request, and never without an ID.
Answered(m) == m.id /\ (Validate(m) => IsRequest(m))

-----------------------------------------------------------------------------
(* The server's goroutines and the writer they share.                      *)

\* Mutant: the newline is not counted.
TooLargeBare(length) == length > MaxFrameSize

TooLarge(length) == length + 1 > MaxFrameSize

\* Mutant: a frame of just the greatest size is dropped.
SendAtLimit(g, frame, length) ==
  writer' = IF length + 1 >= MaxFrameSize THEN writer
            ELSE [writer EXCEPT ![g] = [frame |-> frame, length |-> length, written |-> 0]]

\* Client.Send; what is too large is dropped.
Send(g, frame, length) ==
  writer' = IF TooLarge(length) THEN writer
            ELSE [writer EXCEPT ![g] = [frame |-> frame, length |-> length, written |-> 0]]

\* The loop reads a frame when its last answer is written.  One that does not
\* decode ends the connection; the answer to a request is that of its handler, an
\* error if there is none or it fails.
LoopReads ==
  /\ ~closed
  /\ writer[Loop] = NoWrite
  /\ reads < MaxReads
  /\ reads' = reads + 1
  /\ \/ closed' = TRUE /\ UNCHANGED <<writer, owed, subscribed>>
     \/ \E m \in Messages, length \in Lengths :
          /\ IF Answered(m)
             THEN /\ Send(Loop, reads', length)
                  /\ owed' = IF TooLarge(length) THEN owed ELSE Append(owed, reads')
             ELSE UNCHANGED <<writer, owed>>
          /\ subscribed' \in IF Validate(m) /\ IsRequest(m) THEN {subscribed, TRUE}
                             ELSE {subscribed}
          /\ UNCHANGED closed
  /\ UNCHANGED <<writerLock, broadcasts, socket, line, chunk, ended, got, sent>>

\* Server.Broadcast by one of them.
Broadcast(g) ==
  /\ subscribed /\ ~closed
  /\ g \notin broadcasts
  /\ broadcasts' = broadcasts \cup {g}
  /\ \E length \in Lengths : Send(g, g, length)
  /\ UNCHANGED <<reads, writerLock, subscribed, socket, closed, line, chunk, ended, got,
                 owed, sent>>

\* Mutant: the goroutines do not wait for each other.
WriteLockNot(g) ==
  /\ writer[g].length > 0
  /\ writerLock # g
  /\ writerLock' = g
  /\ UNCHANGED <<reads, writer, broadcasts, subscribed, socket, closed, line, chunk, ended,
                 got, owed, sent>>

WriteLock(g) ==
  /\ writer[g].length > 0
  /\ writerLock = Free
  /\ writerLock' = g
  /\ UNCHANGED <<reads, writer, broadcasts, subscribed, socket, closed, line, chunk, ended,
                 got, owed, sent>>

\* A write goes out in as many pieces as the socket has room for, and fails when the
\* connection is closed.
WriteByte(g) ==
  /\ writerLock = g
  /\ closed \/ Len(socket) < SocketSize
  /\ LET w      == writer[g]
         isLast == w.written = w.length
     IN  /\ socket' = IF closed THEN socket
                      ELSE Append(socket, [of |-> w.frame, newline |-> isLast])
         /\ IF closed \/ isLast
            THEN writer' = [writer EXCEPT ![g] = NoWrite] /\ writerLock' = Free
            ELSE writer' = [writer EXCEPT ![g].written = @ + 1] /\ UNCHANGED writerLock
         /\ sent' = IF isLast /\ ~closed THEN Append(sent, w.frame) ELSE sent
  /\ UNCHANGED <<reads, broadcasts, subscribed, closed, line, chunk, ended, got, owed>>

\* The daemon stops, or the client's end breaks.
ConnectionCloses ==
  /\ ~closed
  /\ closed' = TRUE
  /\ UNCHANGED <<reads, writer, writerLock, broadcasts, subscribed, socket, line, chunk, ended,
                 got, owed, sent>>

-----------------------------------------------------------------------------
(* The client's readLine.                                                  *)

HasNewline == chunk # <<>> /\ Last(chunk).newline

ReadByte ==
  /\ ended = "no"
  /\ socket # <<>> /\ ~HasNewline /\ Len(chunk) < BufferSize
  /\ chunk' = Append(chunk, Head(socket))
  /\ socket' = Tail(socket)
  /\ UNCHANGED <<reads, writer, writerLock, broadcasts, subscribed, closed, line, ended,
                 got, owed, sent>>

\* bufio.ErrBufferFull
ChunkFull ==
  /\ ended = "no"
  /\ ~HasNewline /\ Len(chunk) = BufferSize
  /\ line' = line \o chunk
  /\ chunk' = <<>>
  /\ ended' = IF Len(line') > MaxFrameSize THEN "error" ELSE ended
  /\ UNCHANGED <<reads, writer, writerLock, broadcasts, subscribed, socket, closed, got, owed,
                 sent>>

LineRead ==
  /\ ended = "no"
  /\ HasNewline
  /\ IF Len(line \o chunk) > MaxFrameSize
     THEN ended' = "error" /\ UNCHANGED got
     ELSE got' = Append(got, line \o chunk) /\ UNCHANGED ended
  /\ line' = <<>> /\ chunk' = <<>>
  /\ UNCHANGED <<reads, writer, writerLock, broadcasts, subscribed, socket, closed, owed, sent>>

\* Mutant: what is still on its way is given up.
StreamEndsEarly ==
  /\ ended = "no"
  /\ closed /\ ~HasNewline /\ Len(chunk) < BufferSize
  /\ ended' = IF line = <<>> /\ chunk = <<>> THEN "eof" ELSE "error"
  /\ UNCHANGED <<reads, writer, writerLock, broadcasts, subscribed, socket, closed, line, chunk,
                 got, owed, sent>>

\* The end of the stream, between frames or in one.
StreamEnds ==
  /\ ended = "no"
  /\ closed /\ socket = <<>> /\ ~HasNewline /\ Len(chunk) < BufferSize
  /\ ended' = IF line = <<>> /\ chunk = <<>> THEN "eof" ELSE "error"
  /\ UNCHANGED <<reads, writer, writerLock, broadcasts, subscribed, socket, closed, line, chunk,
                 got, owed, sent>>

-----------------------------------------------------------------------------
ReaderStep == ReadByte \/ ChunkFull \/ LineRead \/ StreamEnds

WireNext ==
  \/ LoopReads \/ ConnectionCloses
  \/ \E g \in Broadcasters : Broadcast(g)
  \/ \E g \in Goroutines : WriteLock(g) \/ WriteByte(g)
  \/ ReaderStep

\* A goroutine that waits for the mutex gets it in the end, and the client reads.
WireFairness ==
  /\ \A g \in Goroutines : SF_wireVars(WriteLock(g)) /\ WF_wireVars(WriteByte(g))
  /\ WF_wireVars(ReaderStep)

WireSpec == WireInit /\ [][WireNext]_wireVars
FairWireSpec == WireSpec /\ WireFairness

-----------------------------------------------------------------------------
(* Properties.                                                             *)

\* Types; the buffers are within their sizes, and who writes has the lock.
WireTypeOK ==
  /\ reads \in 0 .. MaxReads
  /\ \A g \in Goroutines :
       /\ writer[g].written \in 0 .. writer[g].length
       /\ writer[g].length = 0 \/ writer[g].length \in Lengths
       /\ writer[g].written > 0 => writerLock = g
  /\ writerLock \in Goroutines \cup {Free}
  /\ broadcasts \subseteq Broadcasters
  /\ subscribed \in BOOLEAN /\ closed \in BOOLEAN
  /\ Len(socket) <= SocketSize /\ Len(chunk) <= BufferSize
  /\ Len(line) <= MaxFrameSize + BufferSize
  /\ ended \in {"no", "eof", "error"}

\* Every line that the client reads is one frame, from its first byte to its newline
\* (codec.go:43), however the goroutines' writes and the pieces of the stream fall.
FramesIntact ==
  \A i \in DOMAIN got :
    /\ \A j \in DOMAIN got[i] :
         got[i][j].of = got[i][1].of /\ got[i][j].newline = (j = Len(got[i]))
    /\ Len(got[i]) - 1 \in Lengths

\* The reader rejects nothing that the writer lets pass (codec.go:62, 81, 92): it only
\* fails at the end of the connection, in the middle of a frame.
NothingRejected == ended = "error" => closed /\ Len(line \o chunk) < MaxFrameSize /\ ~HasNewline

\* The bytes, however they are cut, make a queue of frames: each that was wholly written
\* is read once and in its order, a later request's answer never before an earlier one's,
\* and the client sees the end only when it has read all (server.go:171, codec.go:30, 66).
GotFrames == [i \in DOMAIN got |-> got[i][1].of]
Queue == INSTANCE FrameQueue
  WITH Frames <- Broadcasters \cup 1 .. MaxReads,
       got <- GotFrames, open <- ~closed, over <- ended # "no"
ImplementsQueue == Queue!QueueSpec

\* In the end the answers have arrived in the order of the requests, each once, whatever
\* was broadcast in between (server.go:171), unless the connection ends.
Answers == SelectSeq(GotFrames, LAMBDA f : f > 0)
AnswersArrive == <>[](closed \/ Answers = owed)
=============================================================================
