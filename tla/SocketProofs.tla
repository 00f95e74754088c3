---------------------------- MODULE SocketProofs ----------------------------
(***************************************************************************)
(* Proofs about the socket: Spawn, for any number of starters, polls and   *)
(* kills (its types, and that starts that do not overlap leave one         *)
(* daemon), and Wire, for any sizes of frames and buffers (its types, that *)
(* frames stay intact, that the reader rejects none of them, and that      *)
(* together they are a queue of frames).                                   *)
(***************************************************************************)
EXTENDS Spawn, Wire, FiniteSetTheorems, SequenceTheorems, TLAPS

Active(d) == daemon[d] \notin {"none", "gone"}
Pending(s) == starter[s].pc \in {"detach", "run"}

\* While no starts overlapped: there is one daemon at most, and none while a starter
\* is about to start one; one that has made its socket has it at the path, and one
\* that has removed what was there finds nothing.
Alone ==
  ~overlap =>
    /\ \A d, e \in Starters : Active(d) /\ Active(e) => d = e
    /\ \A s, t \in Starters : Pending(s) /\ Pending(t) => s = t
    /\ \A s, d \in Starters : Pending(s) => ~Active(d)
    /\ \A d \in Starters : daemon[d] \in {"bound", "serving"} => path = d
    /\ \A d \in Starters : daemon[d] = "removed" => path = 0

-----------------------------------------------------------------------------
\* Types; and a daemon was started by a starter that went on from there (Spawn).
THEOREM SpawnTypeCorrect == SpawnSpec => []SpawnTypeOK
<1>. USE SpawnAssumption DEF SpawnAssumption, SpawnTypeOK, Starters
<1>1. SpawnInit => SpawnTypeOK
  <2>. SUFFICES ASSUME SpawnInit PROVE SpawnTypeOK
    OBVIOUS
  <2>1. 0 \in 0 .. MaxPolls - 1 /\ 0 \in 0 .. MaxKills
    OBVIOUS
  <2>2. \A s \in Starters : daemon[s] = "none"
    BY DEF SpawnInit
  <2>. QED
    BY <2>1, <2>2 DEF SpawnInit
<1>2. SpawnTypeOK /\ [SpawnNext]_spawnVars => SpawnTypeOK'
  <2>. SUFFICES ASSUME SpawnTypeOK, [SpawnNext]_spawnVars PROVE SpawnTypeOK'
    OBVIOUS
  <2>1. ASSUME NEW s \in Starters, Check(s) PROVE SpawnTypeOK'
    <3>1. PICK pc \in {"up", "refused", "detach", "run"} : starter' = [starter EXCEPT ![s].pc = pc]
      BY <2>1 DEF Check
    <3>2. UNCHANGED <<path, daemon, kills, killed>> /\ overlap' \in BOOLEAN /\ daemon[s] = "none"
      BY <2>1 DEF Check, NextToStart
    <3>. QED
      BY <3>1, <3>2
  <2>2. ASSUME NEW s \in Starters, SpawnFails(s) PROVE SpawnTypeOK'
    BY <2>2 DEF SpawnFails
  <2>3. ASSUME NEW s \in Starters, SpawnDaemon(s) PROVE SpawnTypeOK'
    <3>1. PICK pc \in {"foreground", "polling"} :
          /\ starter' = [starter EXCEPT ![s].pc = pc]
          /\ daemon' = [daemon EXCEPT ![s] = "starting"]
          /\ UNCHANGED <<path, kills, killed, overlap>>
      BY <2>3 DEF SpawnDaemon
    <3>2. /\ daemon' \in [Starters -> {"none", "starting", "removed", "bound", "serving",
                                      "closing", "gone"}]
          /\ starter'[s].pc \in {"foreground", "polling"}
          /\ \A t \in Starters \ {s} : daemon'[t] = daemon[t] /\ starter'[t] = starter[t]
      BY <3>1
    <3>3. starter' \in [Starters -> [pc : {"idle", "detach", "run", "refused", "missing",
                                          "polling", "foreground", "up", "gaveup", "over"},
                                    polls : 0 .. MaxPolls - 1]]
      BY <3>1
    <3>4. ASSUME NEW t \in Starters, daemon'[t] # "none"
          PROVE  starter'[t].pc \in {"polling", "foreground", "up", "gaveup", "over"}
      BY <3>2, <3>4
    <3>. QED
      BY <3>1, <3>2, <3>3, <3>4
  <2>4. ASSUME NEW s \in Starters, Poll(s) PROVE SpawnTypeOK'
    BY <2>4 DEF Poll
  <2>5. ASSUME NEW s \in Starters, ForegroundEnds(s) PROVE SpawnTypeOK'
    BY <2>5 DEF ForegroundEnds
  <2>6. ASSUME NEW d \in Starters, DaemonStep(d) PROVE SpawnTypeOK'
    BY <2>6 DEF DaemonStep, ServeRemove, ServeListen, ServeChmod, ServeClose, Becomes
  <2>7. ASSUME NEW d \in Starters, Stopped(d) PROVE SpawnTypeOK'
    BY <2>7 DEF Stopped, Becomes
  <2>8. CASE UNCHANGED spawnVars
    BY <2>8 DEF spawnVars
  <2>. QED
    BY <2>1, <2>2, <2>3, <2>4, <2>5, <2>6, <2>7, <2>8 DEF SpawnNext, StarterStep
<1>. QED
  BY <1>1, <1>2, PTL DEF SpawnSpec

-----------------------------------------------------------------------------
LEMMA AtMostOne ==
  ASSUME NEW S \in SUBSET Starters, \A a, b \in S : a = b
  PROVE  Cardinality(S) <= 1
<1>1. CASE S = {}
  BY <1>1, FS_EmptySet
<1>2. ASSUME NEW a \in S PROVE Cardinality(S) <= 1
  <2>1. S = {a}
    BY <1>2
  <2>. QED
    BY <2>1, FS_Singleton
<1>. QED
  BY <1>1, <1>2

LEMMA AloneInit == SpawnInit => Alone
BY DEF SpawnInit, Alone, Active, Pending

LEMMA AloneNext == SpawnTypeOK /\ Alone /\ [SpawnNext]_spawnVars => Alone'
<1>. SUFFICES ASSUME SpawnTypeOK, Alone, [SpawnNext]_spawnVars, ~overlap' PROVE Alone'
  BY DEF Alone
<1>. USE DEF Active, Pending
<1>0. ASSUME ~overlap
      PROVE  /\ \A d, e \in Starters : Active(d) /\ Active(e) => d = e
             /\ \A s, t \in Starters : Pending(s) /\ Pending(t) => s = t
             /\ \A s, d \in Starters : Pending(s) => ~Active(d)
             /\ \A d \in Starters : daemon[d] \in {"bound", "serving"} => path = d
             /\ \A d \in Starters : daemon[d] = "removed" => path = 0
  BY <1>0 DEF Alone
\* Nobody is on the way, and a daemon that serves is found: there is none.
<1>1. ASSUME NEW s \in Starters, Check(s) PROVE Alone'
  <2>. USE DEF SpawnTypeOK
  <2>1. ~overlap /\ OnItsWay = {} /\ \A t \in Starters : ~Pending(t)
    BY <1>1 DEF Check
  <2>2. \A d \in Starters : Active(d) => daemon[d] = "serving"
    BY <2>1 DEF OnItsWay
  <2>3. CASE DaemonListening
    BY <1>1, <2>1, <2>3, <1>0 DEF Check, Alone
  <2>4. CASE ~DaemonListening
    <3>1. \A d \in Starters : ~Active(d)
      BY <2>1, <2>2, <2>4, <1>0 DEF DaemonListening, Starters
    <3>. QED
      BY <1>1, <2>1, <3>1, <1>0 DEF Check, Alone
  <2>. QED
    BY <2>3, <2>4
<1>2. ASSUME NEW s \in Starters, SpawnFails(s) PROVE Alone'
  BY <1>2, <1>0 DEF SpawnFails, Alone, SpawnTypeOK
<1>3. ASSUME NEW s \in Starters, SpawnDaemon(s) PROVE Alone'
  BY <1>3, <1>0 DEF SpawnDaemon, Alone, SpawnTypeOK
<1>4. ASSUME NEW s \in Starters, Poll(s) PROVE Alone'
  BY <1>4, <1>0 DEF Poll, Alone, SpawnTypeOK
<1>5. ASSUME NEW s \in Starters, ForegroundEnds(s) PROVE Alone'
  BY <1>5, <1>0 DEF ForegroundEnds, Alone, SpawnTypeOK
<1>6. ASSUME NEW d \in Starters, DaemonStep(d) PROVE Alone'
  BY <1>6, <1>0 DEF DaemonStep, ServeRemove, ServeListen, ServeChmod, ServeClose, Becomes,
                    Alone, SpawnTypeOK
<1>7. ASSUME NEW d \in Starters, Stopped(d) PROVE Alone'
  BY <1>7, <1>0 DEF Stopped, Becomes, Alone, SpawnTypeOK
<1>8. CASE UNCHANGED spawnVars
  BY <1>8 DEF spawnVars, Alone
<1>. QED
  BY <1>1, <1>2, <1>3, <1>4, <1>5, <1>6, <1>7, <1>8 DEF SpawnNext, StarterStep

\* As long as starts did not overlap, one daemon at most, and one that serves can
\* be reached, however many are killed (main.go:105, server.go:84).
THEOREM OneDaemonAtATime == SpawnSpec => []OneAtATime
<1>1. SpawnTypeOK /\ Alone => OneAtATime
  <2>. SUFFICES ASSUME Alone, ~overlap
                PROVE  /\ Cardinality({d \in Starters : Active(d)}) <= 1
                       /\ \A d \in Starters : daemon[d] = "serving" => path = d
    BY DEF OneAtATime, Active
  <2>. QED
    BY AtMostOne DEF Alone
<1>. QED
  BY <1>1, SpawnTypeCorrect, AloneInit, AloneNext, PTL DEF SpawnSpec

-----------------------------------------------------------------------------
(* The bytes between the server's writers and the client's lines.          *)

Bytes == [of : Int, newline : BOOLEAN]

\* The bytes of a frame of s from its first one at p up to the one at i.
Segment(s, p, i) ==
  /\ p = 1 \/ s[p - 1].newline
  /\ \A j \in p .. i - 1 : ~s[j].newline

\* They are of one frame, which ends with its newline and fits.
Whole(s, p, i) ==
  /\ \A j \in p .. i : s[j].of = s[p].of
  /\ IF s[i].newline THEN i - p \in Lengths /\ i - p + 1 <= MaxFrameSize
     ELSE i - p + 1 < MaxFrameSize

Framed(s) == \A i \in 1 .. Len(s) : \A p \in 1 .. i : Segment(s, p, i) => Whole(s, p, i)

\* The last k bytes are the beginning of the frame f.
Rest(s, k, f) ==
  /\ k <= Len(s)
  /\ k = Len(s) \/ s[Len(s) - k].newline
  /\ \A j \in Len(s) - k + 1 .. Len(s) : ~s[j].newline /\ s[j].of = f

LEMMA Sizes ==
  /\ MaxFrameSize \in Nat \ {0} /\ BufferSize \in Nat \ {0} /\ SocketSize \in Nat \ {0}
  /\ Lengths \subseteq Nat \ {0} /\ MaxReads \in Nat
BY WireAssumption DEF WireAssumption

LEMMA AppendBytes ==
  ASSUME NEW s \in Seq(Bytes), NEW b \in Bytes
  PROVE  /\ Append(s, b) \in Seq(Bytes) /\ Len(Append(s, b)) = Len(s) + 1 /\ Len(s) \in Nat
         /\ Append(s, b)[Len(s) + 1] = b
         /\ \A i \in 1 .. Len(s) : Append(s, b)[i] = s[i]
BY AppendProperties, LenProperties

\* The next byte of a frame, and the newline after the last one.
LEMMA AppendFramed ==
  ASSUME NEW s \in Seq(Bytes), NEW b \in Bytes, NEW k \in Nat, Framed(s), Rest(s, k, b.of),
         IF b.newline THEN k \in Lengths /\ k + 1 <= MaxFrameSize ELSE k + 1 < MaxFrameSize
  PROVE  /\ Framed(Append(s, b))
         /\ Rest(Append(s, b), IF b.newline THEN 0 ELSE k + 1, b.of)
<1>. DEFINE a == Append(s, b)
            n == Len(s) + 1
<1>1. Len(a) = n /\ Len(s) = n - 1 /\ n \in Nat \ {0} /\ a[n] = b /\ \A i \in 1 .. n - 1 : a[i] = s[i]
  BY AppendBytes
<1>. HIDE DEF a, n
<1>2. ASSUME NEW i \in 1 .. n, NEW p \in 1 .. i, Segment(a, p, i) PROVE Whole(a, p, i)
  <2>1. CASE i < n
    <3>1. i \in 1 .. n - 1 /\ \A j \in p .. i : j \in 1 .. n - 1
      BY <1>1, <2>1
    <3>2. Segment(s, p, i)
      BY <1>1, <1>2, <3>1 DEF Segment
    <3>3. Whole(s, p, i)
      BY <1>1, <3>1, <3>2 DEF Framed
    <3>. QED
      BY <1>1, <3>1, <3>3 DEF Whole
  <2>2. CASE i = n
    <3>1. p >= n - k
      <4>. SUFFICES ASSUME p < n - k PROVE FALSE
        BY <1>1
      <4>1. n - 1 - k \in 1 .. n - 1 /\ n - 1 - k \in p .. i - 1 /\ k # n - 1
        BY <1>1, <2>2
      <4>2. s[n - 1 - k].newline
        BY <1>1, <4>1 DEF Rest
      <4>. QED
        BY <1>1, <1>2, <4>1, <4>2 DEF Segment
    <3>2. p <= n - k
      <4>. SUFFICES ASSUME p > n - k PROVE FALSE
        BY <1>1
      <4>1. k <= n - 1
        BY <1>1 DEF Rest
      <4>2. p - 1 \in 1 .. n - 1 /\ p - 1 \in n - 1 - k + 1 .. n - 1 /\ p # 1
        BY <1>1, <2>2, <4>1
      <4>3. ~s[p - 1].newline
        BY <1>1, <4>2 DEF Rest
      <4>. QED
        BY <1>1, <1>2, <4>2, <4>3 DEF Segment
    <3>3. p = n - k
      BY <1>1, <3>1, <3>2
    <3>4. ASSUME NEW j \in p .. i PROVE a[j].of = b.of
      <4>1. CASE j = n
        BY <1>1, <4>1
      <4>2. CASE j # n
        <5>1. j \in 1 .. n - 1 /\ j \in n - 1 - k + 1 .. n - 1
          BY <1>1, <2>2, <3>3, <4>2
        <5>. QED
          BY <1>1, <5>1 DEF Rest
      <4>. QED
        BY <4>1, <4>2
    <3>5. p \in p .. i /\ i - p = k /\ a[i] = b
      BY <1>1, <2>2, <3>3
    <3>. QED
      BY <3>4, <3>5 DEF Whole
  <2>. QED
    BY <1>1, <2>1, <2>2
<1>3. Framed(a)
  BY <1>1, <1>2 DEF Framed
<1>4. Rest(a, IF b.newline THEN 0 ELSE k + 1, b.of)
  <2>1. CASE b.newline
    BY <1>1, <2>1 DEF Rest
  <2>2. CASE ~b.newline
    <3>1. k <= n - 1 /\ k + 1 <= n
      BY <1>1 DEF Rest
    <3>2. k + 1 = n \/ a[n - (k + 1)].newline
      BY <1>1, <3>1 DEF Rest
    <3>3. ASSUME NEW j \in n - (k + 1) + 1 .. n PROVE ~a[j].newline /\ a[j].of = b.of
      <4>1. CASE j = n
        BY <1>1, <2>2, <4>1
      <4>2. CASE j # n
        <5>1. j \in 1 .. n - 1 /\ j \in n - 1 - k + 1 .. n - 1
          BY <1>1, <3>1, <4>2
        <5>. QED
          BY <1>1, <5>1 DEF Rest
      <4>. QED
        BY <4>1, <4>2
    <3>. QED
      BY <1>1, <2>2, <3>1, <3>2, <3>3 DEF Rest
  <2>. QED
    BY <2>1, <2>2
<1>. QED
  BY <1>3, <1>4 DEF a

\* A line has been taken from the front.
LEMMA DropFramed ==
  ASSUME NEW r \in Seq(Bytes), NEW s \in Seq(Bytes), NEW k \in Nat, NEW f,
         r # <<>>, r[Len(r)].newline
  PROVE  /\ Framed(r \o s) => Framed(s)
         /\ Rest(r \o s, k, f) => Rest(s, k, f)
<1>. DEFINE c == r \o s
            m == Len(r)
            n == Len(s)
<1>1. /\ m \in Nat \ {0} /\ n \in Nat /\ Len(c) = m + n
      /\ \A i \in 1 .. m : c[i] = r[i]
      /\ \A i \in 1 .. n : c[m + i] = s[i] /\ m + i \in 1 .. m + n
  <2>1. m \in Nat \ {0} /\ n \in Nat
    BY LenProperties, EmptySeq
  <2>2. Len(c) = m + n /\ \A i \in 1 .. m + n : c[i] = IF i <= m THEN r[i] ELSE s[i - m]
    BY ConcatProperties
  <2>. HIDE DEF c, m, n
  <2>. QED
    BY <2>1, <2>2
<1>. HIDE DEF c, m, n
<1>2. c[m].newline
  BY <1>1 DEF m
<1>3. ASSUME Framed(c), NEW i \in 1 .. n, NEW p \in 1 .. i, Segment(s, p, i) PROVE Whole(s, p, i)
  <2>1. m + i \in 1 .. m + n /\ m + p \in 1 .. m + i /\ p \in 1 .. n
    BY <1>1
  <2>2. m + p = 1 \/ c[m + p - 1].newline
    <3>1. CASE p = 1
      BY <1>1, <1>2, <3>1
    <3>2. CASE p # 1
      <4>1. p - 1 \in 1 .. n /\ m + (p - 1) = m + p - 1 /\ s[p - 1].newline
        BY <1>1, <1>3, <3>2 DEF Segment
      <4>. QED
        BY <1>1, <4>1
    <3>. QED
      BY <3>1, <3>2
  <2>3. ASSUME NEW j \in m + p .. m + i - 1 PROVE ~c[j].newline
    <3>1. j - m \in p .. i - 1 /\ j - m \in 1 .. n /\ m + (j - m) = j
      BY <1>1, <2>1
    <3>. QED
      BY <1>1, <1>3, <3>1 DEF Segment
  <2>4. Whole(c, m + p, m + i)
    BY <1>1, <1>3, <2>1, <2>2, <2>3 DEF Framed, Segment
  <2>5. ASSUME NEW j \in p .. i PROVE s[j].of = s[p].of
    <3>1. m + j \in m + p .. m + i /\ j \in 1 .. n
      BY <1>1
    <3>. QED
      BY <1>1, <2>1, <2>4, <3>1 DEF Whole
  <2>6. m + i - (m + p) = i - p /\ c[m + i] = s[i]
    BY <1>1
  <2>. QED
    BY <1>1, <2>4, <2>5, <2>6 DEF Whole
<1>4. ASSUME Rest(c, k, f) PROVE Rest(s, k, f)
  <2>1. k <= n
    <3>. SUFFICES ASSUME k > n PROVE FALSE
      BY <1>1
    <3>1. m \in m + n - k + 1 .. m + n
      BY <1>1
    <3>. QED
      BY <1>1, <1>2, <1>4, <3>1 DEF Rest
  <2>2. k = n \/ s[n - k].newline
    <3>. SUFFICES ASSUME k # n PROVE s[n - k].newline
      OBVIOUS
    <3>1. n - k \in 1 .. n /\ m + (n - k) = m + n - k /\ k # m + n
      BY <1>1, <2>1
    <3>2. c[m + n - k].newline
      BY <1>1, <1>4, <3>1 DEF Rest
    <3>. QED
      BY <1>1, <3>1, <3>2
  <2>3. ASSUME NEW j \in n - k + 1 .. n PROVE ~s[j].newline /\ s[j].of = f
    <3>1. m + j \in m + n - k + 1 .. m + n /\ j \in 1 .. n
      BY <1>1, <2>1
    <3>. QED
      BY <1>1, <1>4, <3>1 DEF Rest
  <2>. QED
    BY <2>1, <2>2, <2>3 DEF Rest, n
<1>. QED
  BY <1>3, <1>4 DEF Framed, n, c

-----------------------------------------------------------------------------
(* The invariant.                                                          *)

Received == line \o chunk
InFlight == Received \o socket

WireTyped ==
  /\ WireTypeOK
  /\ writer \in [Goroutines -> [frame : Int, length : Nat, written : Nat]]
  /\ socket \in Seq(Bytes) /\ line \in Seq(Bytes) /\ chunk \in Seq(Bytes)
  /\ got \in Seq(Seq(Bytes))

\* What a goroutine writes fits, and who has the lock has something to write.
WriterInv ==
  /\ \A g \in Goroutines : writer[g].length > 0 => writer[g].length + 1 <= MaxFrameSize
  /\ writerLock # Free => writer[writerLock].length > 0
  /\ \A g \in Broadcasters \ broadcasts : writer[g].length = 0

\* The frame that is being written, as far as it is.
Begun == IF writerLock = Free THEN NoWrite ELSE writer[writerLock]

\* The stream consists of whole frames, and of the beginning of that one; the client
\* has not passed the end of a frame.
StreamInv ==
  /\ Framed(InFlight)
  /\ ~closed => Rest(InFlight, Begun.written, Begun.frame)
  /\ \A i \in 1 .. Len(line) : ~line[i].newline
  /\ \A i \in 1 .. Len(chunk) - 1 : ~chunk[i].newline

WireInv == WireTyped /\ WriterInv /\ StreamInv /\ FramesIntact /\ NothingRejected

LEMMA Names ==
  /\ Loop \in Goroutines /\ Free \notin Goroutines /\ Broadcasters \subseteq Goroutines
  /\ Goroutines \subseteq Int /\ Loop \notin Broadcasters /\ Free \in Int
BY DEF Loop, Free, Goroutines, Broadcasters

LEMMA ConcatBytes ==
  ASSUME NEW r \in Seq(Bytes), NEW s \in Seq(Bytes)
  PROVE  /\ r \o s \in Seq(Bytes) /\ Len(r \o s) = Len(r) + Len(s)
         /\ \A i \in 1 .. Len(r) + Len(s) : (r \o s)[i] = IF i <= Len(r) THEN r[i] ELSE s[i - Len(r)]
BY ConcatProperties

LEMMA Regroup ==
  ASSUME NEW r \in Seq(Bytes), NEW s \in Seq(Bytes), NEW t \in Seq(Bytes)
  PROVE  (r \o s) \o t = r \o (s \o t)
BY ConcatAssociative

LEMMA Queues ==
  ASSUME WireTyped
  PROVE  /\ Received \in Seq(Bytes) /\ InFlight \in Seq(Bytes)
         /\ Len(line) \in Nat /\ Len(chunk) \in Nat /\ Len(socket) \in Nat
         /\ Len(Received) = Len(line) + Len(chunk)
         /\ Len(InFlight) = Len(Received) + Len(socket)
         /\ \A i \in 1 .. Len(Received) :
              Received[i] = IF i <= Len(line) THEN line[i] ELSE chunk[i - Len(line)]
         /\ \A i \in 1 .. Len(Received) : InFlight[i] = Received[i]
<1>1. line \in Seq(Bytes) /\ chunk \in Seq(Bytes) /\ socket \in Seq(Bytes)
  BY DEF WireTyped
<1>2. Len(line) \in Nat /\ Len(chunk) \in Nat /\ Len(socket) \in Nat
  BY <1>1, LenProperties
<1>3. /\ Received \in Seq(Bytes) /\ Len(Received) = Len(line) + Len(chunk)
      /\ \A i \in 1 .. Len(Received) :
           Received[i] = IF i <= Len(line) THEN line[i] ELSE chunk[i - Len(line)]
  BY <1>1, ConcatBytes DEF Received
<1>4. /\ InFlight \in Seq(Bytes) /\ Len(InFlight) = Len(Received) + Len(socket)
      /\ \A i \in 1 .. Len(Received) + Len(socket) :
           InFlight[i] = IF i <= Len(Received) THEN Received[i] ELSE socket[i - Len(Received)]
  BY <1>1, <1>3, ConcatBytes DEF InFlight
<1>5. \A i \in 1 .. Len(Received) : InFlight[i] = Received[i]
  BY <1>2, <1>3, <1>4
<1>. QED
  BY <1>2, <1>3, <1>4, <1>5

\* What the client has received of a frame is whole.
LEMMA ReceivedWhole ==
  ASSUME WireTyped, StreamInv, Received # <<>>
  PROVE  /\ \A i \in 1 .. Len(Received) - 1 : ~Received[i].newline
         /\ HasNewline <=> Received[Len(Received)].newline
         /\ Whole(Received, 1, Len(Received)) /\ Len(Received) \in Nat \ {0}
<1>. DEFINE n == Len(Received)
            m == Len(line)
<1>1. /\ Len(chunk) \in Nat /\ m \in Nat /\ n = m + Len(chunk) /\ n \in 1 .. Len(InFlight)
      /\ \A i \in 1 .. n : Received[i] = IF i <= m THEN line[i] ELSE chunk[i - m]
      /\ \A i \in 1 .. n : InFlight[i] = Received[i]
  <2>1. n # 0 /\ n \in Nat
    BY Queues, EmptySeq
  <2>. QED
    BY <2>1, Queues
<1>. HIDE DEF n, m
<1>2. ASSUME NEW i \in 1 .. n - 1 PROVE ~Received[i].newline
  <2>1. CASE i <= m
    BY <1>1, <2>1 DEF StreamInv, m
  <2>2. CASE i > m
    <3>1. i - m \in 1 .. Len(chunk) - 1 /\ i \in 1 .. n
      BY <1>1, <2>2
    <3>. QED
      BY <1>1, <2>2, <3>1 DEF StreamInv
  <2>. QED
    BY <1>1, <2>1, <2>2
<1>3. ASSUME chunk = <<>> PROVE HasNewline <=> Received[n].newline
  <2>1. Len(chunk) = 0
    BY <1>3, EmptySeq
  <2>2. Received[n] = line[n] /\ n \in 1 .. m
    BY <1>1, <2>1
  <2>. QED
    BY <1>3, <2>2 DEF HasNewline, StreamInv, m
<1>4. HasNewline <=> Received[n].newline
  <2>1. CASE chunk # <<>>
    <3>1. Len(chunk) # 0
      BY <2>1, EmptySeq DEF WireTyped
    <3>2. Received[n] = chunk[Len(chunk)]
      BY <1>1, <3>1
    <3>. QED
      BY <2>1, <3>2 DEF HasNewline, Last
  <2>. QED
    BY <1>3, <2>1
<1>5. Segment(InFlight, 1, n) /\ 1 \in 1 .. n
  BY <1>1, <1>2 DEF Segment
<1>6. Whole(InFlight, 1, n)
  BY <1>1, <1>5 DEF StreamInv, Framed
<1>7. Whole(Received, 1, n)
  BY <1>1, <1>5, <1>6 DEF Whole
<1>. QED
  BY <1>1, <1>2, <1>4, <1>7 DEF n

-----------------------------------------------------------------------------
(* The steps.                                                              *)

LEMMA WireInitial == WireInit => WireInv
<1>. SUFFICES ASSUME WireInit PROVE WireInv
  OBVIOUS
<1>1. <<>> \in Seq(Bytes) /\ Len(<<>>) = 0 /\ <<>> \in Seq(Seq(Bytes))
  BY EmptySeq
<1>2. NoWrite \in [frame : Int, length : Nat, written : Nat] /\ NoWrite.length = 0 /\ NoWrite.written = 0
  BY DEF NoWrite
<1>3. WireTyped
  <2>1. 0 \in 0 .. MaxReads /\ 0 <= SocketSize /\ 0 <= BufferSize /\ 0 <= MaxFrameSize + BufferSize
    BY Sizes
  <2>2. \A g \in Goroutines : writer[g] = NoWrite
    BY DEF WireInit
  <2>3. \A g \in Goroutines : /\ writer[g].written \in 0 .. writer[g].length
                              /\ writer[g].length = 0 /\ ~(writer[g].written > 0)
    BY <1>2, <2>2
  <2>4. Len(socket) = 0 /\ Len(chunk) = 0 /\ Len(line) = 0
    BY <1>1 DEF WireInit
  <2>5. WireTypeOK
    BY <2>1, <2>3, <2>4, Names DEF WireInit, WireTypeOK
  <2>. QED
    BY <1>1, <1>2, <2>5 DEF WireInit, WireTyped
<1>4. WriterInv
  BY <1>2, Names DEF WireInit, WriterInv
<1>5. InFlight \in Seq(Bytes) /\ Len(InFlight) = 0 /\ Len(line) = 0 /\ Len(chunk) = 0
  BY <1>1, <1>3, Queues DEF WireInit
<1>6. StreamInv
  BY <1>2, <1>5 DEF WireInit, StreamInv, Framed, Rest, Begun
<1>. QED
  BY <1>1, <1>3, <1>4, <1>6 DEF WireInit, WireInv, FramesIntact, NothingRejected

LEMMA SentBytes ==
  ASSUME WireTyped, WriterInv, NEW g \in Goroutines, NEW frame \in Int, NEW length \in Lengths,
         Send(g, frame, length), writer[g].length = 0, writerLock # g
  PROVE  /\ writer' \in [Goroutines -> [frame : Int, length : Nat, written : Nat]]
         /\ \A h \in Goroutines \ {g} : writer'[h] = writer[h]
         /\ writer'[g].written = 0 /\ writer'[g].length \in Lengths \cup {0}
         /\ writer'[g].length > 0 => writer'[g].length + 1 <= MaxFrameSize
<1>1. /\ writer \in [Goroutines -> [frame : Int, length : Nat, written : Nat]]
      /\ writer[g].written = 0 /\ length \in Nat \ {0}
  <2>1. writer[g].written \in 0 .. writer[g].length
    BY DEF WireTyped, WireTypeOK
  <2>. QED
    BY <2>1, Sizes DEF WireTyped
<1>2. CASE TooLarge(length)
  BY <1>1, <1>2 DEF Send
<1>3. CASE ~TooLarge(length)
  <2>1. writer' = [writer EXCEPT ![g] = [frame |-> frame, length |-> length, written |-> 0]]
    BY <1>3 DEF Send
  <2>. QED
    BY <1>1, <1>3, <2>1, Sizes DEF TooLarge
<1>. QED
  BY <1>2, <1>3

\* A goroutine gets something to write; the one that writes is left alone.
LEMMA SendKeeps ==
  ASSUME WireTyped, WriterInv, StreamInv, NEW g \in Goroutines,
         writer' \in [Goroutines -> [frame : Int, length : Nat, written : Nat]],
         \A h \in Goroutines \ {g} : writer'[h] = writer[h],
         writer'[g].written = 0, writer'[g].length \in Lengths \cup {0},
         writer'[g].length > 0 => writer'[g].length + 1 <= MaxFrameSize,
         writerLock # g, UNCHANGED <<writerLock, socket, line, chunk, got>>, closed => closed',
         reads' \in 0 .. MaxReads, broadcasts' \subseteq Broadcasters, broadcasts \subseteq broadcasts',
         g \in Broadcasters => g \in broadcasts',
         subscribed' \in BOOLEAN, closed' \in BOOLEAN, ended' = ended
  PROVE  WireTyped' /\ WriterInv' /\ StreamInv'
<1>1. WireTypeOK'
  <2>1. ASSUME NEW h \in Goroutines
        PROVE  /\ writer'[h].written \in 0 .. writer'[h].length
               /\ writer'[h].length = 0 \/ writer'[h].length \in Lengths
               /\ writer'[h].written > 0 => writerLock' = h
    <3>1. CASE h = g
      BY <3>1
    <3>2. CASE h # g
      BY <3>2 DEF WireTyped, WireTypeOK
    <3>. QED
      BY <3>1, <3>2
  <2>. QED
    BY <2>1 DEF WireTyped, WireTypeOK
<1>2. WireTyped'
  BY <1>1 DEF WireTyped
<1>3. WriterInv'
  BY Names DEF WriterInv, WireTyped, WireTypeOK
<1>4. Begun' = Begun /\ InFlight' = InFlight
  BY DEF Begun, InFlight, Received, WireTyped, WireTypeOK
<1>5. StreamInv'
  BY <1>4 DEF StreamInv
<1>. QED
  BY <1>2, <1>3, <1>5


\* What the client has is left alone.
LEMMA ReaderSame ==
  ASSUME WireInv, UNCHANGED <<got, ended, line, chunk>>, closed => closed'
  PROVE  FramesIntact' /\ NothingRejected'
<1>1. HasNewline' = HasNewline
  BY DEF HasNewline
<1>. QED
  BY <1>1 DEF WireInv, FramesIntact, NothingRejected

LEMMA LoopKeeps ==
  ASSUME WireInv, LoopReads
  PROVE  WireInv'
<1>. USE DEF WireInv
<1>1. /\ writer[Loop] = NoWrite /\ reads < MaxReads /\ reads' = reads + 1 /\ ~closed
      /\ UNCHANGED <<writerLock, broadcasts, socket, line, chunk, ended, got>>
  BY DEF LoopReads
<1>2. writer[Loop].length = 0 /\ writer[Loop].written = 0 /\ writerLock # Loop
  BY <1>1, Names DEF WriterInv, NoWrite
<1>3. reads' \in 0 .. MaxReads /\ reads' \in Int
  BY <1>1, Sizes DEF WireTyped, WireTypeOK
<1>4. subscribed' \in BOOLEAN /\ closed' \in BOOLEAN
  BY DEF LoopReads, WireTyped, WireTypeOK
<1>5. \/ UNCHANGED writer
      \/ \E length \in Lengths : Send(Loop, reads', length)
  BY DEF LoopReads
<1>6. /\ writer' \in [Goroutines -> [frame : Int, length : Nat, written : Nat]]
      /\ \A h \in Goroutines \ {Loop} : writer'[h] = writer[h]
      /\ writer'[Loop].written = 0 /\ writer'[Loop].length \in Lengths \cup {0}
      /\ writer'[Loop].length > 0 => writer'[Loop].length + 1 <= MaxFrameSize
  <2>1. CASE UNCHANGED writer
    BY <1>2, <2>1 DEF WireTyped
  <2>2. CASE \E length \in Lengths : Send(Loop, reads', length)
    BY <1>2, <1>3, <2>2, Names, SentBytes
  <2>. QED
    BY <1>5, <2>1, <2>2
<1>7. WireTyped' /\ WriterInv' /\ StreamInv'
  BY <1>1, <1>2, <1>3, <1>4, <1>6, Names, SendKeeps DEF WireTyped, WireTypeOK
<1>8. FramesIntact' /\ NothingRejected'
  BY <1>1, ReaderSame
<1>. QED
  BY <1>7, <1>8

LEMMA BroadcastKeeps ==
  ASSUME WireInv, NEW g \in Broadcasters, Broadcast(g)
  PROVE  WireInv'
<1>. USE DEF WireInv
<1>1. /\ g \notin broadcasts /\ broadcasts' = broadcasts \cup {g}
      /\ UNCHANGED <<reads, writerLock, subscribed, socket, closed, line, chunk, ended, got>>
  BY DEF Broadcast
<1>2. writer[g].length = 0 /\ writerLock # g
  <2>1. writer[g].length = 0 /\ g # Free
    BY <1>1, Names DEF WriterInv
  <2>2. ~(writer[g].length > 0)
    BY <2>1
  <2>. QED
    BY <2>1, <2>2 DEF WriterInv
<1>3. PICK length \in Lengths : Send(g, g, length)
  BY DEF Broadcast
<1>4. /\ writer' \in [Goroutines -> [frame : Int, length : Nat, written : Nat]]
      /\ \A h \in Goroutines \ {g} : writer'[h] = writer[h]
      /\ writer'[g].written = 0 /\ writer'[g].length \in Lengths \cup {0}
      /\ writer'[g].length > 0 => writer'[g].length + 1 <= MaxFrameSize
  BY <1>2, <1>3, Names, SentBytes
<1>5. WireTyped' /\ WriterInv' /\ StreamInv'
  BY <1>1, <1>2, <1>4, Names, SendKeeps DEF WireTyped, WireTypeOK
<1>6. FramesIntact' /\ NothingRejected'
  BY <1>1, ReaderSame
<1>. QED
  BY <1>5, <1>6

LEMMA LockKeeps ==
  ASSUME WireInv, NEW g \in Goroutines, WriteLock(g)
  PROVE  WireInv'
<1>. USE DEF WireInv
<1>1. /\ writer[g].length > 0 /\ writerLock = Free /\ writerLock' = g
      /\ UNCHANGED <<reads, writer, broadcasts, subscribed, socket, closed, line, chunk, ended, got>>
  BY DEF WriteLock
<1>2. writer[g].written = 0
  <2>1. ~(writer[g].written > 0)
    BY <1>1, Names DEF WireTyped, WireTypeOK
  <2>2. writer[g].written \in Nat
    BY DEF WireTyped
  <2>. QED
    BY <2>1, <2>2
<1>3. WireTyped'
  BY <1>1, Names DEF WireTyped, WireTypeOK
<1>4. WriterInv'
  BY <1>1 DEF WriterInv
<1>5. InFlight' = InFlight /\ Begun.written = 0 /\ Begun'.written = 0
  BY <1>1, <1>2, Names DEF Begun, NoWrite, InFlight, Received
<1>6. Len(InFlight) \in Nat
  BY Queues
<1>7. StreamInv'
  BY <1>1, <1>5, <1>6 DEF StreamInv, Rest
<1>8. FramesIntact' /\ NothingRejected'
  BY <1>1, ReaderSame
<1>. QED
  BY <1>3, <1>4, <1>7, <1>8

\* What is in the socket follows what the client has received.
LEMMA StreamAppend ==
  ASSUME WireTyped, NEW b \in Bytes
  PROVE  Received \o Append(socket, b) = Append(InFlight, b)
<1>1. Received \in Seq(Bytes) /\ socket \in Seq(Bytes) /\ <<b>> \in Seq(Bytes) /\ InFlight \in Seq(Bytes)
  BY Queues DEF WireTyped
<1>2. Append(socket, b) = socket \o <<b>> /\ Append(InFlight, b) = InFlight \o <<b>>
  BY <1>1, AppendIsConcat
<1>. QED
  BY <1>1, <1>2, ConcatAssociative DEF InFlight

LEMMA ByteKeeps ==
  ASSUME WireInv, NEW g \in Goroutines, WriteByte(g)
  PROVE  WireInv'
<1>. USE DEF WireInv
<1>. DEFINE w == writer[g]
            last == w.written = w.length
            b == [of |-> w.frame, newline |-> last]
<1>1. /\ writerLock = g /\ (closed \/ Len(socket) < SocketSize)
      /\ socket' = IF closed THEN socket ELSE Append(socket, b)
      /\ closed \/ last => writer' = [writer EXCEPT ![g] = NoWrite] /\ writerLock' = Free
      /\ ~(closed \/ last) => /\ writer' = [writer EXCEPT ![g].written = w.written + 1]
                              /\ writerLock' = writerLock
      /\ UNCHANGED <<reads, broadcasts, subscribed, closed, line, chunk, ended, got>>
  BY DEF WriteByte
<1>2. /\ writer \in [Goroutines -> [frame : Int, length : Nat, written : Nat]]
      /\ w \in [frame : Int, length : Nat, written : Nat]
      /\ w.length > 0 /\ w.length \in Lengths /\ w.length + 1 <= MaxFrameSize
      /\ w.written \in 0 .. w.length /\ b \in Bytes
  BY <1>1, Names DEF WireTyped, WireTypeOK, WriterInv, Bytes
<1>3. /\ writer' \in [Goroutines -> [frame : Int, length : Nat, written : Nat]]
      /\ \A h \in Goroutines \ {g} : writer'[h] = writer[h]
      /\ closed \/ last => writer'[g] = NoWrite
      /\ ~(closed \/ last) => writer'[g] = [w EXCEPT !.written = w.written + 1]
  <2>1. NoWrite \in [frame : Int, length : Nat, written : Nat]
    BY DEF NoWrite
  <2>2. CASE closed \/ last
    <3>1. writer' = [writer EXCEPT ![g] = NoWrite]
      BY <1>1, <2>2
    <3>. HIDE DEF w, last, b
    <3>. QED
      BY <1>2, <2>1, <2>2, <3>1
  <2>3. CASE ~(closed \/ last)
    <3>1. writer' = [writer EXCEPT ![g].written = w.written + 1] /\ w.written + 1 \in Nat
      BY <1>1, <1>2, <2>3
    <3>. HIDE DEF last, b
    <3>. QED
      BY <1>2, <2>3, <3>1
  <2>. QED
    BY <2>2, <2>3
<1>4. /\ writer'[g].written \in 0 .. writer'[g].length
      /\ writer'[g].length = 0 \/ writer'[g].length = w.length
      /\ writer'[g].written > 0 => writerLock' = g
      /\ writerLock' = g => writer'[g].length = w.length
      /\ writerLock' \in {g, Free}
  <2>1. CASE closed \/ last
    BY <1>1, <1>3, <2>1, Names DEF NoWrite
  <2>2. CASE ~(closed \/ last)
    BY <1>1, <1>2, <1>3, <2>2
  <2>. QED
    BY <2>1, <2>2
<1>5. socket' \in Seq(Bytes) /\ Len(socket') <= SocketSize
  <2>1. CASE closed
    BY <1>1, <2>1 DEF WireTyped, WireTypeOK
  <2>2. CASE ~closed
    BY <1>1, <1>2, <2>2, AppendBytes, Sizes DEF WireTyped
  <2>. QED
    BY <2>1, <2>2
<1>6. StreamInv'
  <2>1. CASE closed
    <3>1. InFlight' = InFlight /\ closed'
      BY <1>1, <2>1 DEF InFlight, Received
    <3>. QED
      BY <1>1, <3>1 DEF StreamInv
  <2>2. CASE ~closed
    <3>1. InFlight' = Append(InFlight, b)
      BY <1>1, <1>2, <2>2, StreamAppend DEF InFlight, Received
    <3>2. Framed(InFlight) /\ Rest(InFlight, w.written, w.frame) /\ InFlight \in Seq(Bytes)
      BY <1>1, <2>2, Names, Queues DEF StreamInv, Begun
    <3>3. IF b.newline THEN w.written \in Lengths /\ w.written + 1 <= MaxFrameSize
          ELSE w.written + 1 < MaxFrameSize
      <4>. HIDE DEF w
      <4>1. CASE last
        BY <1>2, <4>1
      <4>2. CASE ~last
        <5>1. w.written < w.length
          BY <1>2, <4>2
        <5>2. w.written + 1 < MaxFrameSize
          BY <1>2, <5>1, Sizes
        <5>3. ~b.newline
          BY <4>2
        <5>. QED
          BY <5>2, <5>3
      <4>. QED
        BY <4>1, <4>2
    <3>4. /\ Framed(Append(InFlight, b))
          /\ Rest(Append(InFlight, b), IF b.newline THEN 0 ELSE w.written + 1, w.frame)
      BY <1>2, <3>2, <3>3, AppendFramed
    <3>5. /\ Begun'.written = IF last THEN 0 ELSE w.written + 1
          /\ ~last => Begun'.frame = w.frame
      BY <1>1, <1>2, <1>3, <2>2, Names DEF Begun, NoWrite
    <3>6. Rest(InFlight, Begun.written, Begun.frame)'
      <4>1. CASE last
        <5>1. /\ Rest(Append(InFlight, b), 0, w.frame) /\ Begun'.written = 0
              /\ Len(Append(InFlight, b)) \in Nat
          BY <1>2, <3>2, <3>4, <3>5, <4>1, AppendBytes
        <5>. QED
          BY <3>1, <5>1 DEF Rest
      <4>2. CASE ~last
        BY <3>1, <3>4, <3>5, <4>2
      <4>. QED
        BY <4>1, <4>2
    <3>. QED
      BY <1>1, <3>1, <3>4, <3>6 DEF StreamInv
  <2>. QED
    BY <2>1, <2>2
<1>. HIDE DEF w, last, b
<1>7. WireTyped'
  <2>1. ASSUME NEW h \in Goroutines
        PROVE  /\ writer'[h].written \in 0 .. writer'[h].length
               /\ writer'[h].length = 0 \/ writer'[h].length \in Lengths
               /\ writer'[h].written > 0 => writerLock' = h
    <3>1. CASE h = g
      BY <1>2, <1>4, <3>1
    <3>2. CASE h # g
      BY <1>1, <1>3, <3>2 DEF WireTyped, WireTypeOK
    <3>. QED
      BY <3>1, <3>2
  <2>2. WireTypeOK'
    BY <1>1, <1>4, <1>5, <2>1 DEF WireTyped, WireTypeOK
  <2>. QED
    BY <1>1, <1>3, <1>5, <2>2 DEF WireTyped
<1>8. WriterInv'
  <2>1. ASSUME NEW h \in Goroutines, writer'[h].length > 0 PROVE writer'[h].length + 1 <= MaxFrameSize
    <3>1. CASE h = g
      BY <1>2, <1>4, <2>1, <3>1
    <3>2. CASE h # g
      BY <1>3, <2>1, <3>2 DEF WriterInv
    <3>. QED
      BY <3>1, <3>2
  <2>2. writerLock' # Free => writer'[writerLock'].length > 0
    BY <1>2, <1>4
  <2>3. ASSUME NEW h \in Broadcasters \ broadcasts' PROVE writer'[h].length = 0
    <3>1. h # g
      <4>1. writer[h].length = 0
        BY <1>1, <2>3 DEF WriterInv
      <4>. QED
        BY <1>2, <4>1 DEF w
    <3>. QED
      BY <1>1, <1>3, <2>3, <3>1, Names DEF WriterInv
  <2>. QED
    BY <2>1, <2>2, <2>3 DEF WriterInv
<1>9. FramesIntact' /\ NothingRejected'
  BY <1>1, ReaderSame
<1>. QED
  BY <1>6, <1>7, <1>8, <1>9

LEMMA ClosingKeeps ==
  ASSUME WireInv, ConnectionCloses
  PROVE  WireInv'
<1>. USE DEF WireInv
<1>1. /\ closed' = TRUE
      /\ UNCHANGED <<reads, writer, writerLock, broadcasts, subscribed, socket, line, chunk, ended, got>>
  BY DEF ConnectionCloses
<1>2. WireTyped' /\ WriterInv'
  BY <1>1 DEF WireTyped, WireTypeOK, WriterInv
<1>3. StreamInv'
  BY <1>1 DEF StreamInv, InFlight, Received
<1>4. FramesIntact' /\ NothingRejected'
  BY <1>1, ReaderSame
<1>. QED
  BY <1>2, <1>3, <1>4

-----------------------------------------------------------------------------
(* The client's reader.                                                    *)

LEMMA ByteType == ASSUME NEW s \in Seq(Bytes), NEW i \in 1 .. Len(s) PROVE s[i].newline \in BOOLEAN
<1>1. s[i] \in Bytes
  BY ElementOfSeq
<1>. QED
  BY <1>1 DEF Bytes

LEMMA MoveByte ==
  ASSUME NEW r \in Seq(Bytes), NEW s \in Seq(Bytes), NEW t \in Seq(Bytes), NEW b \in Bytes
  PROVE  (r \o Append(s, b)) \o t = (r \o s) \o (<<b>> \o t)
<1>1. <<b>> \in Seq(Bytes)
  OBVIOUS
<1>2. Append(s, b) = s \o <<b>>
  BY AppendIsConcat
<1>3. r \o s \in Seq(Bytes)
  BY ConcatBytes
<1>4. r \o (s \o <<b>>) = (r \o s) \o <<b>>
  BY <1>1, Regroup
<1>5. ((r \o s) \o <<b>>) \o t = (r \o s) \o (<<b>> \o t)
  BY <1>1, <1>3, Regroup
<1>. QED
  BY <1>2, <1>4, <1>5

\* A byte goes from the socket to the reader's buffer.
LEMMA ByteMoves ==
  ASSUME WireTyped, ReadByte
  PROVE  /\ socket' \in Seq(Bytes) /\ Len(socket') = Len(socket) - 1 /\ Len(socket) \in Nat
         /\ chunk' \in Seq(Bytes) /\ Len(chunk') = Len(chunk) + 1 /\ Len(chunk) \in Nat
         /\ \A i \in 1 .. Len(chunk) : chunk'[i] = chunk[i]
         /\ InFlight' = InFlight
<1>. DEFINE h == Head(socket)
            n == Len(chunk)
<1>1. socket # <<>> /\ chunk' = Append(chunk, h) /\ socket' = Tail(socket) /\ UNCHANGED line
  BY DEF ReadByte
<1>2. /\ socket \in Seq(Bytes) /\ h \in Bytes /\ Tail(socket) \in Seq(Bytes)
      /\ Len(Tail(socket)) = Len(socket) - 1 /\ Len(socket) \in Nat
      /\ socket = <<h>> \o Tail(socket) /\ <<h>> \in Seq(Bytes)
  <2>1. /\ socket \in Seq(Bytes) /\ h \in Bytes /\ Tail(socket) \in Seq(Bytes)
        /\ Len(Tail(socket)) = Len(socket) - 1 /\ Len(socket) \in Nat
        /\ \A i \in 1 .. Len(Tail(socket)) : Tail(socket)[i] = socket[i + 1]
    BY <1>1, HeadTailProperties, LenProperties DEF WireTyped
  <2>2. <<h>> \in Seq(Bytes) /\ Len(<<h>>) = 1 /\ <<h>>[1] = h
    BY <2>1
  <2>3. /\ <<h>> \o Tail(socket) \in Seq(Bytes) /\ Len(<<h>> \o Tail(socket)) = Len(socket)
        /\ \A i \in 1 .. Len(socket) :
             (<<h>> \o Tail(socket))[i] = IF i <= 1 THEN <<h>>[i] ELSE Tail(socket)[i - 1]
    BY <2>1, <2>2, ConcatBytes
  <2>4. \A i \in 1 .. Len(socket) : socket[i] = (<<h>> \o Tail(socket))[i]
    BY <2>1, <2>2, <2>3
  <2>5. socket = <<h>> \o Tail(socket)
    BY <2>1, <2>3, <2>4, SeqEqual
  <2>. QED
    BY <2>1, <2>2, <2>5
<1>. HIDE DEF h
<1>3. /\ chunk' \in Seq(Bytes) /\ Len(chunk') = n + 1 /\ n \in Nat /\ line \in Seq(Bytes)
      /\ \A i \in 1 .. n : chunk'[i] = chunk[i]
      /\ chunk \in Seq(Bytes)
  BY <1>1, <1>2, AppendBytes DEF WireTyped
<1>4. InFlight' = InFlight
  <2>1. (line \o Append(chunk, h)) \o Tail(socket) = (line \o chunk) \o (<<h>> \o Tail(socket))
    <3>1. /\ line \in Seq(Bytes) /\ chunk \in Seq(Bytes) /\ Tail(socket) \in Seq(Bytes)
          /\ h \in Bytes
      BY <1>2, <1>3
    <3>. QED
      BY <3>1, MoveByte
  <2>. QED
    BY <1>1, <1>2, <2>1 DEF InFlight, Received
<1>. QED
  BY <1>1, <1>2, <1>3, <1>4 DEF n

LEMMA ReadByteKeeps ==
  ASSUME WireInv, ReadByte
  PROVE  WireInv'
<1>. USE DEF WireInv
<1>. DEFINE n == Len(chunk)
<1>1. /\ ended = "no" /\ ~HasNewline /\ n < BufferSize
      /\ UNCHANGED <<reads, writer, writerLock, broadcasts, subscribed, closed, line, ended, got>>
  BY DEF ReadByte
<1>2. /\ socket' \in Seq(Bytes) /\ Len(socket') = Len(socket) - 1 /\ Len(socket) \in Nat
      /\ chunk' \in Seq(Bytes) /\ Len(chunk') = n + 1 /\ n \in Nat
      /\ \A i \in 1 .. n : chunk'[i] = chunk[i]
      /\ InFlight' = InFlight
  BY ByteMoves
<1>3. line \in Seq(Bytes) /\ chunk \in Seq(Bytes)
  BY DEF WireTyped
<1>5. WireTyped'
  <2>1. Len(chunk') <= BufferSize /\ Len(socket') <= SocketSize
    BY <1>1, <1>2, <1>3, Sizes DEF WireTyped, WireTypeOK
  <2>2. WireTypeOK'
    BY <1>1, <2>1 DEF WireTyped, WireTypeOK
  <2>. QED
    BY <1>1, <1>2, <1>3, <2>2 DEF WireTyped
<1>6. WriterInv'
  BY <1>1 DEF WriterInv
<1>7. StreamInv'
  <2>1. ASSUME NEW i \in 1 .. n PROVE ~chunk'[i].newline
    <3>1. CASE i = n
      <4>1. chunk # <<>>
        BY <1>2, <1>3, <3>1, EmptySeq
      <4>. QED
        BY <1>1, <1>2, <3>1, <4>1 DEF HasNewline, Last
    <3>2. CASE i # n
      BY <1>2, <3>2 DEF StreamInv
    <3>. QED
      BY <3>1, <3>2
  <2>2. Begun' = Begun
    BY <1>1 DEF Begun
  <2>. QED
    BY <1>1, <1>2, <2>1, <2>2 DEF StreamInv
<1>8. FramesIntact' /\ NothingRejected'
  BY <1>1 DEF FramesIntact, NothingRejected
<1>. QED
  BY <1>5, <1>6, <1>7, <1>8

LEMMA ChunkKeeps ==
  ASSUME WireInv, ChunkFull
  PROVE  WireInv'
<1>. USE DEF WireInv
<1>1. /\ ended = "no" /\ ~HasNewline /\ Len(chunk) = BufferSize
      /\ line' = Received /\ chunk' = <<>>
      /\ ended' = IF Len(line') > MaxFrameSize THEN "error" ELSE ended
      /\ UNCHANGED <<reads, writer, writerLock, broadcasts, subscribed, socket, closed, got>>
  BY DEF ChunkFull, Received
<1>2. Received # <<>>
  <2>1. Len(Received) = Len(line) + Len(chunk) /\ Len(line) \in Nat
    BY Queues
  <2>. QED
    BY <1>1, <2>1, Sizes, EmptySeq
<1>3. /\ \A i \in 1 .. Len(Received) - 1 : ~Received[i].newline
      /\ ~Received[Len(Received)].newline
      /\ Whole(Received, 1, Len(Received)) /\ Len(Received) \in Nat \ {0}
  BY <1>1, <1>2, ReceivedWhole
<1>4. Len(Received) < MaxFrameSize /\ ended' = "no"
  <2>1. Len(Received) - 1 + 1 < MaxFrameSize
    BY <1>3 DEF Whole
  <2>2. Len(Received) < MaxFrameSize
    BY <1>3, <2>1
  <2>3. ~(Len(Received) > MaxFrameSize)
    BY <1>3, <2>2, Sizes
  <2>. QED
    BY <1>1, <2>2, <2>3
<1>5. /\ Received \in Seq(Bytes) /\ Received \o <<>> = Received
      /\ <<>> \in Seq(Bytes) /\ Len(<<>>) = 0
  BY Queues, EmptySeq, ConcatEmptySeq
<1>6. WireTyped'
  <2>1. Len(line') <= MaxFrameSize + BufferSize /\ Len(chunk') <= BufferSize
    BY <1>1, <1>3, <1>4, <1>5, Sizes
  <2>2. WireTypeOK'
    BY <1>1, <1>4, <2>1 DEF WireTyped, WireTypeOK
  <2>. QED
    BY <1>1, <1>5, <2>2 DEF WireTyped
<1>7. WriterInv'
  BY <1>1 DEF WriterInv
<1>8. InFlight' = InFlight /\ Begun' = Begun
  BY <1>1, <1>5 DEF InFlight, Received, Begun
<1>9. \A i \in 1 .. Len(Received) : ~Received[i].newline
  BY <1>3
<1>10. StreamInv'
  BY <1>1, <1>5, <1>8, <1>9 DEF StreamInv
<1>11. FramesIntact' /\ NothingRejected'
  BY <1>1, <1>4 DEF FramesIntact, NothingRejected
<1>. QED
  BY <1>6, <1>7, <1>10, <1>11

\* The reader takes a frame off the stream, and never rejects it.
LEMMA LineTaken ==
  ASSUME WireTyped, StreamInv, LineRead
  PROVE  /\ Received \in Seq(Bytes) /\ Len(Received) \in Nat \ {0}
         /\ \A i \in 1 .. Len(Received) - 1 : ~Received[i].newline
         /\ Received[Len(Received)].newline
         /\ Len(Received) - 1 \in Lengths
         /\ \A j \in 1 .. Len(Received) : Received[j].of = Received[1].of
         /\ got' = Append(got, Received) /\ UNCHANGED ended
         /\ InFlight' = socket
<1>. DEFINE n == Len(Received)
<1>1. /\ HasNewline
      /\ IF n > MaxFrameSize THEN ended' = "error" /\ got' = got
         ELSE got' = Append(got, Received) /\ ended' = ended
      /\ line' = <<>> /\ chunk' = <<>> /\ UNCHANGED socket
  BY DEF LineRead, Received
<1>2. /\ \A i \in 1 .. n - 1 : ~Received[i].newline
      /\ Received[n].newline /\ Whole(Received, 1, n) /\ n \in Nat \ {0}
      /\ Received \in Seq(Bytes)
  <2>1. Len(chunk) # 0 /\ Len(chunk) \in Nat /\ Len(line) \in Nat
    BY <1>1, EmptySeq, LenProperties DEF HasNewline, WireTyped
  <2>2. Len(Received) # 0
    BY <2>1, Queues
  <2>. QED
    BY <1>1, <2>2, ReceivedWhole, Queues, EmptySeq
<1>3. n - 1 \in Lengths /\ n - 1 + 1 <= MaxFrameSize /\ \A j \in 1 .. n : Received[j].of = Received[1].of
  BY <1>2 DEF Whole
<1>4. n <= MaxFrameSize /\ ~(n > MaxFrameSize)
  BY <1>2, <1>3, Sizes
<1>5. got' = Append(got, Received) /\ ended' = ended
  BY <1>1, <1>4
<1>6. InFlight' = socket
  <2>1. socket \in Seq(Bytes) /\ <<>> \o <<>> = <<>> /\ <<>> \o socket = socket
    BY EmptySeq, ConcatEmptySeq DEF WireTyped
  <2>. QED
    BY <1>1, <2>1 DEF InFlight, Received
<1>. QED
  BY <1>2, <1>3, <1>5, <1>6

LEMMA LineKeeps ==
  ASSUME WireInv, LineRead
  PROVE  WireInv'
<1>. USE DEF WireInv
<1>. DEFINE n == Len(Received)
<1>1. /\ ended = "no" /\ HasNewline
      /\ line' = <<>> /\ chunk' = <<>>
      /\ UNCHANGED <<reads, writer, writerLock, broadcasts, subscribed, socket, closed>>
  BY DEF LineRead, Received
<1>2. /\ \A i \in 1 .. n - 1 : ~Received[i].newline
      /\ Received[n].newline /\ n \in Nat \ {0} /\ Received \in Seq(Bytes)
      /\ InFlight' = socket
  BY LineTaken
<1>3. n - 1 \in Lengths /\ \A j \in 1 .. n : Received[j].of = Received[1].of
  BY LineTaken
<1>5. got' = Append(got, Received) /\ ended' = "no"
  BY <1>1, LineTaken
<1>6. got \in Seq(Seq(Bytes))
  BY DEF WireTyped
<1>. HIDE DEF n
<1>7. /\ got' \in Seq(Seq(Bytes)) /\ Len(got') = Len(got) + 1 /\ Len(got) \in Nat
      /\ got'[Len(got) + 1] = Received /\ \A i \in 1 .. Len(got) : got'[i] = got[i]
      /\ DOMAIN got' = 1 .. Len(got) + 1 /\ DOMAIN got = 1 .. Len(got)
  BY <1>2, <1>5, <1>6, AppendProperties, LenProperties
<1>8. FramesIntact'
  <2>1. DOMAIN Received = 1 .. n
    BY <1>2, LenProperties DEF n
  <2>2. ASSUME NEW j \in DOMAIN Received
        PROVE  Received[j].of = Received[1].of /\ Received[j].newline = (j = Len(Received))
    <3>1. j \in 1 .. n /\ Received[j].of = Received[1].of
      BY <1>3, <2>1
    <3>2. CASE j = n
      BY <1>2, <3>1, <3>2, ByteType DEF n
    <3>3. CASE j # n
      BY <1>2, <3>1, <3>3, ByteType DEF n
    <3>. QED
      BY <3>2, <3>3
  <2>3. Len(Received) - 1 \in Lengths
    BY <1>3 DEF n
  <2>4. ASSUME NEW i \in DOMAIN got'
        PROVE  /\ \A j \in DOMAIN got'[i] :
                    got'[i][j].of = got'[i][1].of /\ got'[i][j].newline = (j = Len(got'[i]))
               /\ Len(got'[i]) - 1 \in Lengths
    <3>1. CASE i = Len(got) + 1
      BY <1>7, <2>2, <2>3, <3>1
    <3>2. CASE i # Len(got) + 1
      <4>1. i \in DOMAIN got /\ got'[i] = got[i]
        BY <1>7, <3>2
      <4>. QED
        BY <4>1 DEF FramesIntact
    <3>. QED
      BY <3>1, <3>2
  <2>. QED
    BY <2>4 DEF FramesIntact
<1>9. <<>> \in Seq(Bytes) /\ Len(<<>>) = 0
  BY EmptySeq
<1>10. WireTyped'
  <2>1. Len(line') <= MaxFrameSize + BufferSize /\ Len(chunk') <= BufferSize
    BY <1>1, <1>9, Sizes
  <2>2. WireTypeOK'
    BY <1>1, <1>5, <2>1 DEF WireTyped, WireTypeOK
  <2>. QED
    BY <1>1, <1>7, <1>9, <2>2 DEF WireTyped
<1>11. WriterInv'
  BY <1>1 DEF WriterInv
<1>12. StreamInv'
  <2>1. socket \in Seq(Bytes)
    BY DEF WireTyped
  <2>2. InFlight' = socket /\ Begun' = Begun
    BY <1>1, <1>2 DEF Begun
  <2>3. Received # <<>>
    BY <1>2, EmptySeq DEF n
  <2>4. Framed(socket)
    BY <1>2, <2>1, <2>3, DropFramed DEF StreamInv, InFlight, n
  <2>5. Begun.written \in Nat
    BY Names DEF Begun, NoWrite, WireTyped, WireTypeOK
  <2>6. ~closed => Rest(socket, Begun.written, Begun.frame)
    BY <1>2, <2>1, <2>3, <2>5, DropFramed DEF StreamInv, InFlight, n
  <2>. QED
    BY <1>1, <1>9, <2>2, <2>4, <2>6 DEF StreamInv
<1>13. NothingRejected'
  BY <1>5 DEF NothingRejected
<1>. QED
  BY <1>8, <1>10, <1>11, <1>12, <1>13

LEMMA EndKeeps ==
  ASSUME WireInv, StreamEnds
  PROVE  WireInv'
<1>. USE DEF WireInv
<1>1. /\ ended = "no" /\ closed /\ ~HasNewline /\ ended' \in {"eof", "error"}
      /\ UNCHANGED <<reads, writer, writerLock, broadcasts, subscribed, socket, closed, line, chunk, got>>
  BY DEF StreamEnds
<1>2. WireTyped' /\ WriterInv'
  BY <1>1 DEF WireTyped, WireTypeOK, WriterInv
<1>3. InFlight' = InFlight /\ Received' = Received
  BY <1>1 DEF InFlight, Received
<1>4. StreamInv'
  BY <1>1, <1>3 DEF StreamInv
<1>5. Len(Received) < MaxFrameSize
  <2>1. CASE Received # <<>>
    <3>1. /\ ~Received[Len(Received)].newline /\ Whole(Received, 1, Len(Received))
          /\ Len(Received) \in Nat \ {0}
      BY <1>1, <2>1, ReceivedWhole
    <3>2. Len(Received) - 1 + 1 < MaxFrameSize
      BY <3>1 DEF Whole
    <3>. QED
      BY <3>1, <3>2
  <2>2. CASE Received = <<>>
    BY <2>2, Sizes, EmptySeq
  <2>. QED
    BY <2>1, <2>2
<1>6. HasNewline' = HasNewline
  BY <1>1 DEF HasNewline
<1>7. FramesIntact' /\ NothingRejected'
  BY <1>1, <1>5, <1>6 DEF FramesIntact, NothingRejected, Received
<1>. QED
  BY <1>2, <1>4, <1>7

-----------------------------------------------------------------------------
LEMMA WireAlways == WireSpec => []WireInv
<1>1. WireInv /\ [WireNext]_wireVars => WireInv'
  <2>. SUFFICES ASSUME WireInv, [WireNext]_wireVars PROVE WireInv'
    OBVIOUS
  <2>1. CASE UNCHANGED wireVars
    <3>1. WireTyped' /\ WriterInv'
      BY <2>1 DEF WireInv, wireVars, WireTyped, WireTypeOK, WriterInv
    <3>2. StreamInv'
      BY <2>1 DEF WireInv, wireVars, StreamInv, InFlight, Received, Begun
    <3>3. FramesIntact' /\ NothingRejected'
      BY <2>1, ReaderSame DEF wireVars
    <3>. QED
      BY <3>1, <3>2, <3>3 DEF WireInv
  <2>. QED
    BY <2>1, LoopKeeps, BroadcastKeeps, LockKeeps, ByteKeeps, ClosingKeeps, ReadByteKeeps,
       ChunkKeeps, LineKeeps, EndKeeps DEF WireNext, ReaderStep
<1>. QED
  BY <1>1, WireInitial, PTL DEF WireSpec

\* Types; the buffers are within their sizes, and who writes has the lock, for any
\* sizes of the buffers and lengths of frames (server.go:96, codec.go:43).
THEOREM WireTypeCorrect == WireSpec => []WireTypeOK
<1>1. WireInv => WireTypeOK
  BY DEF WireInv, WireTyped
<1>. QED
  BY <1>1, WireAlways, PTL

\* Every line that the client reads is one frame of the server, from its first byte to
\* its newline, however the writes of the goroutines and the reads of the client are cut
\* to pieces (codec.go:43, 110).
THEOREM FramesStayIntact == WireSpec => []FramesIntact
<1>1. WireInv => FramesIntact
  BY DEF WireInv
<1>. QED
  BY <1>1, WireAlways, PTL

\* The reader's limits, which it applies to a line and to the part of one, reject
\* nothing that the writer's limit lets pass (codec.go:62, 81, 92).
THEOREM NothingIsRejected == WireSpec => []NothingRejected
<1>1. WireInv => NothingRejected
  BY DEF WireInv
<1>. QED
  BY <1>1, WireAlways, PTL

-----------------------------------------------------------------------------
(* The queue of frames that the bytes make.                                *)

\* The frames of q from the k-th on are those whose newlines are in s, in their order.
Carries(s, q, k) ==
  \E at \in [1 .. Len(q) - k -> 1 .. Len(s)] :
    /\ \A i, j \in 1 .. Len(q) - k : i < j => at[i] < at[j]
    /\ \A i \in 1 .. Len(q) - k : s[at[i]].newline /\ s[at[i]].of = q[k + i]
    /\ \A p \in 1 .. Len(s) : s[p].newline => \E i \in 1 .. Len(q) - k : at[i] = p

\* A byte within a frame changes nothing of that.
LEMMA CarriesByte ==
  ASSUME NEW s \in Seq(Bytes), NEW q \in Seq(Int), NEW k \in 0 .. Len(q), NEW b \in Bytes,
         ~b.newline, Carries(s, q, k)
  PROVE  Carries(Append(s, b), q, k)
<1>. DEFINE a == Append(s, b)
            n == Len(s)
            m == Len(q) - k
<1>1. Len(a) = n + 1 /\ n \in Nat /\ a[n + 1] = b /\ \A i \in 1 .. n : a[i] = s[i]
  BY AppendBytes
<1>2. PICK at \in [1 .. m -> 1 .. n] :
        /\ \A i, j \in 1 .. m : i < j => at[i] < at[j]
        /\ \A i \in 1 .. m : s[at[i]].newline /\ s[at[i]].of = q[k + i]
        /\ \A p \in 1 .. n : s[p].newline => \E i \in 1 .. m : at[i] = p
  BY DEF Carries
<1>3. m \in Nat
  BY LenProperties
<1>. HIDE DEF a, n, m
<1>4. at \in [1 .. m -> 1 .. Len(a)]
  BY <1>1, <1>2, <1>3
<1>5. \A i \in 1 .. m : a[at[i]].newline /\ a[at[i]].of = q[k + i]
  BY <1>1, <1>2
<1>6. ASSUME NEW p \in 1 .. Len(a), a[p].newline PROVE \E i \in 1 .. m : at[i] = p
  <2>1. p # n + 1
    BY <1>1, <1>6
  <2>. QED
    BY <1>1, <1>2, <1>6, <2>1
<1>. QED
  BY <1>2, <1>4, <1>5, <1>6 DEF Carries, a, m

\* The newline makes one frame more.
LEMMA CarriesFrame ==
  ASSUME NEW s \in Seq(Bytes), NEW q \in Seq(Int), NEW k \in 0 .. Len(q), NEW b \in Bytes,
         b.newline, Carries(s, q, k)
  PROVE  Carries(Append(s, b), Append(q, b.of), k)
<1>. DEFINE a == Append(s, b)
            r == Append(q, b.of)
            n == Len(s)
            m == Len(q) - k
<1>1. Len(a) = n + 1 /\ n \in Nat /\ a[n + 1] = b /\ \A i \in 1 .. n : a[i] = s[i]
  BY AppendBytes
<1>2. /\ Len(r) - k = m + 1 /\ m \in Nat /\ r[k + m + 1] = b.of
      /\ \A i \in 1 .. m : r[k + i] = q[k + i]
  <2>1. b.of \in Int /\ Len(q) \in Nat
    BY LenProperties DEF Bytes
  <2>2. Len(r) = Len(q) + 1 /\ r[Len(q) + 1] = b.of /\ \A i \in 1 .. Len(q) : r[i] = q[i]
    BY <2>1, AppendProperties
  <2>. HIDE DEF r
  <2>3. k + m + 1 = Len(q) + 1 /\ \A i \in 1 .. m : k + i \in 1 .. Len(q)
    BY <2>1
  <2>. QED
    BY <2>1, <2>2, <2>3
<1>3. PICK at \in [1 .. m -> 1 .. n] :
        /\ \A i, j \in 1 .. m : i < j => at[i] < at[j]
        /\ \A i \in 1 .. m : s[at[i]].newline /\ s[at[i]].of = q[k + i]
        /\ \A p \in 1 .. n : s[p].newline => \E i \in 1 .. m : at[i] = p
  BY DEF Carries
<1>. HIDE DEF a, r, n, m
<1>. DEFINE to == [i \in 1 .. m + 1 |-> IF i <= m THEN at[i] ELSE n + 1]
<1>4. /\ \A i \in 1 .. m : to[i] = at[i] /\ at[i] \in 1 .. n
      /\ to[m + 1] = n + 1 /\ to \in [1 .. m + 1 -> 1 .. n + 1]
  BY <1>1, <1>2, <1>3
<1>. HIDE DEF to
<1>5. \A i, j \in 1 .. m + 1 : i < j => to[i] < to[j]
  <2>. SUFFICES ASSUME NEW i \in 1 .. m + 1, NEW j \in 1 .. m + 1, i < j PROVE to[i] < to[j]
    OBVIOUS
  <2>1. i \in 1 .. m
    BY <1>2
  <2>2. CASE j = m + 1
    BY <1>1, <1>4, <2>1, <2>2
  <2>3. CASE j # m + 1
    <3>1. j \in 1 .. m
      BY <1>2, <2>3
    <3>. QED
      BY <1>3, <1>4, <2>1, <3>1
  <2>. QED
    BY <2>2, <2>3
<1>6. ASSUME NEW i \in 1 .. m + 1 PROVE a[to[i]].newline /\ a[to[i]].of = r[k + i]
  <2>1. CASE i = m + 1
    <3>1. a[to[i]] = b
      BY <1>1, <1>4, <2>1
    <3>2. r[k + i] = b.of
      <4>1. k + i = k + m + 1
        BY <1>2, <2>1
      <4>. QED
        BY <1>2, <4>1
    <3>. QED
      BY <3>1, <3>2
  <2>2. CASE i # m + 1
    <3>1. i \in 1 .. m
      BY <1>2, <2>2
    <3>2. a[to[i]] = s[at[i]] /\ r[k + i] = q[k + i]
      BY <1>1, <1>2, <1>4, <3>1
    <3>. QED
      BY <1>3, <3>1, <3>2
  <2>. QED
    BY <2>1, <2>2
<1>7. ASSUME NEW p \in 1 .. n + 1, a[p].newline PROVE \E i \in 1 .. m + 1 : to[i] = p
  <2>1. CASE p = n + 1
    <3>1. m + 1 \in 1 .. m + 1
      BY <1>2
    <3>. QED
      BY <1>4, <2>1, <3>1
  <2>2. CASE p # n + 1
    <3>1. p \in 1 .. n /\ s[p].newline
      BY <1>1, <1>7, <2>2
    <3>2. PICK i \in 1 .. m : at[i] = p
      BY <1>3, <3>1
    <3>3. i \in 1 .. m + 1 /\ to[i] = p
      BY <1>2, <1>4, <3>2
    <3>. QED
      BY <3>3
  <2>. QED
    BY <2>1, <2>2
<1>. QED
  <2>1. \E at2 \in [1 .. Len(r) - k -> 1 .. Len(a)] :
          /\ \A i, j \in 1 .. Len(r) - k : i < j => at2[i] < at2[j]
          /\ \A i \in 1 .. Len(r) - k : a[at2[i]].newline /\ a[at2[i]].of = r[k + i]
          /\ \A p \in 1 .. Len(a) : a[p].newline => \E i \in 1 .. Len(r) - k : at2[i] = p
    <3>1. to \in [1 .. Len(r) - k -> 1 .. Len(a)]
      BY <1>1, <1>2, <1>4
    <3>. WITNESS to \in [1 .. Len(r) - k -> 1 .. Len(a)]
    <3>. QED
      BY <1>1, <1>2, <1>5, <1>6, <1>7
  <2>. QED
    BY <2>1 DEF Carries, a, r

\* A line r is taken from the front: it is the next frame.
LEMMA CarriesLine ==
  ASSUME NEW r \in Seq(Bytes), NEW s \in Seq(Bytes), NEW q \in Seq(Int), NEW k \in 0 .. Len(q),
         Carries(r \o s, q, k), Len(r) > 0, r[Len(r)].newline,
         \A i \in 1 .. Len(r) - 1 : ~r[i].newline
  PROVE  k < Len(q) /\ q[k + 1] = r[Len(r)].of /\ Carries(s, q, k + 1)
<1>. DEFINE c == r \o s
            l == Len(r)
            n == Len(s)
            m == Len(q) - k
<1>1. /\ Len(c) = l + n /\ n \in Nat /\ l \in Nat \ {0} /\ m \in Nat
      /\ \A i \in 1 .. l : c[i] = r[i]
      /\ \A i \in 1 .. n : l + i \in 1 .. l + n /\ c[l + i] = s[i]
  <2>1. l \in Nat \ {0} /\ n \in Nat /\ Len(q) \in Nat
    BY LenProperties
  <2>2. Len(c) = l + n /\ \A i \in 1 .. l + n : c[i] = IF i <= l THEN r[i] ELSE s[i - l]
    BY ConcatProperties
  <2>3. m \in Nat
    BY <2>1
  <2>. HIDE DEF c, l, n, m
  <2>4. ASSUME NEW i \in 1 .. n PROVE l + i \in 1 .. l + n /\ (l + i) - l = i /\ ~(l + i <= l)
    BY <2>1
  <2>5. \A i \in 1 .. l : i \in 1 .. l + n
    BY <2>1
  <2>. QED
    BY <2>1, <2>2, <2>3, <2>4, <2>5
<1>2. PICK at \in [1 .. m -> 1 .. Len(c)] :
        /\ \A i, j \in 1 .. m : i < j => at[i] < at[j]
        /\ \A i \in 1 .. m : c[at[i]].newline /\ c[at[i]].of = q[k + i]
        /\ \A p \in 1 .. Len(c) : c[p].newline => \E i \in 1 .. m : at[i] = p
  BY DEF Carries
<1>3. c[l] = r[l] /\ c[l].newline /\ \A i \in 1 .. l - 1 : ~c[i].newline
  <2>1. l \in 1 .. l /\ \A i \in 1 .. l - 1 : i \in 1 .. l
    BY <1>1
  <2>. QED
    BY <1>1, <2>1
<1>. HIDE DEF c, l, n, m
<1>4. PICK f \in 1 .. m : at[f] = l
  <2>1. l \in 1 .. Len(c)
    BY <1>1
  <2>. QED
    BY <1>2, <1>3, <2>1
<1>5. \A i \in 1 .. m : at[i] >= l /\ at[i] \in 1 .. l + n
  <2>. SUFFICES ASSUME NEW i \in 1 .. m, at[i] < l PROVE FALSE
    BY <1>1, <1>2
  <2>1. at[i] \in 1 .. l - 1
    BY <1>1, <1>2
  <2>. QED
    BY <1>2, <1>3, <2>1
<1>6. f = 1
  <2>. SUFFICES ASSUME f # 1 PROVE FALSE
    OBVIOUS
  <2>1. 1 \in 1 .. m /\ 1 < f
    BY <1>1
  <2>2. at[1] < at[f]
    BY <1>2, <2>1
  <2>. QED
    BY <1>1, <1>4, <1>5, <2>1, <2>2
<1>7. m >= 1 /\ at[1] = l /\ q[k + 1] = c[l].of
  BY <1>1, <1>2, <1>4, <1>6
<1>. DEFINE to == [i \in 1 .. m - 1 |-> at[i + 1] - l]
<1>8. ASSUME NEW i \in 1 .. m - 1
      PROVE  /\ i + 1 \in 1 .. m /\ to[i] = at[i + 1] - l /\ to[i] \in 1 .. n
             /\ c[at[i + 1]] = s[to[i]]
  <2>1. i + 1 \in 1 .. m /\ 1 \in 1 .. m /\ 1 < i + 1
    BY <1>1
  <2>2. at[1] < at[i + 1] /\ at[i + 1] \in 1 .. l + n
    BY <1>2, <1>5, <2>1
  <2>3. to[i] = at[i + 1] - l
    OBVIOUS
  <2>. HIDE DEF to
  <2>4. l \in Nat /\ n \in Nat /\ at[1] = l
    BY <1>1, <1>7
  <2>5. at[i + 1] - l \in 1 .. n /\ at[i + 1] = l + (at[i + 1] - l)
    BY <2>2, <2>4
  <2>6. to[i] \in 1 .. n /\ at[i + 1] = l + to[i]
    BY <2>3, <2>5
  <2>. QED
    BY <1>1, <2>1, <2>3, <2>6
<1>9. to \in [1 .. m - 1 -> 1 .. n]
  BY <1>8
<1>. HIDE DEF to
<1>10. ASSUME NEW i \in 1 .. m - 1, NEW j \in 1 .. m - 1, i < j PROVE to[i] < to[j]
  <2>1. i + 1 < j + 1 /\ i + 1 \in 1 .. m /\ j + 1 \in 1 .. m
    BY <1>1, <1>10
  <2>2. at[i + 1] < at[j + 1] /\ at[i + 1] \in 1 .. l + n /\ at[j + 1] \in 1 .. l + n
    BY <1>2, <1>5, <2>1
  <2>. QED
    BY <1>1, <1>8, <2>2
<1>11. ASSUME NEW i \in 1 .. m - 1 PROVE s[to[i]].newline /\ s[to[i]].of = q[k + 1 + i]
  <2>1. k + (i + 1) = k + 1 + i
    BY <1>1
  <2>2. c[at[i + 1]].newline /\ c[at[i + 1]].of = q[k + (i + 1)]
    BY <1>2, <1>8
  <2>. QED
    BY <1>8, <2>1, <2>2
<1>12. ASSUME NEW p \in 1 .. n, s[p].newline PROVE \E i \in 1 .. m - 1 : to[i] = p
  <2>1. l + p \in 1 .. Len(c) /\ c[l + p].newline
    BY <1>1, <1>12
  <2>2. PICK i \in 1 .. m : at[i] = l + p
    BY <1>2, <2>1
  <2>3. i # 1
    BY <1>1, <1>7, <2>2
  <2>4. i - 1 \in 1 .. m - 1 /\ (i - 1) + 1 = i
    BY <1>1, <2>3
  <2>5. to[i - 1] = at[i] - l
    BY <1>8, <2>4
  <2>6. to[i - 1] = p
    BY <1>1, <2>2, <2>5
  <2>. QED
    BY <2>4, <2>6
<1>13. Len(q) - (k + 1) = m - 1 /\ k < Len(q)
  <2>1. Len(q) \in Nat /\ k \in Nat /\ m = Len(q) - k
    BY LenProperties DEF m
  <2>. QED
    BY <1>7, <2>1
<1>14. \E a \in [1 .. Len(q) - (k + 1) -> 1 .. Len(s)] :
         /\ \A i, j \in 1 .. Len(q) - (k + 1) : i < j => a[i] < a[j]
         /\ \A i \in 1 .. Len(q) - (k + 1) : s[a[i]].newline /\ s[a[i]].of = q[k + 1 + i]
         /\ \A p \in 1 .. Len(s) : s[p].newline => \E i \in 1 .. Len(q) - (k + 1) : a[i] = p
  <2>. to \in [1 .. Len(q) - (k + 1) -> 1 .. Len(s)] /\ Len(s) = n
    BY <1>9, <1>13 DEF n
  <2>. WITNESS to \in [1 .. Len(q) - (k + 1) -> 1 .. Len(s)]
  <2>. QED
    BY <1>10, <1>11, <1>12, <1>13
<1>15. Carries(s, q, k + 1)
  BY <1>14 DEF Carries
<1>. QED
  BY <1>3, <1>7, <1>13, <1>15 DEF l

\* Where there is no newline there is no frame.
LEMMA CarriesNothing ==
  ASSUME NEW s \in Seq(Bytes), NEW q \in Seq(Int), NEW k \in 0 .. Len(q),
         Carries(s, q, k), \A i \in 1 .. Len(s) : ~s[i].newline
  PROVE  Len(q) = k
<1>. SUFFICES ASSUME Len(q) # k PROVE FALSE
  OBVIOUS
<1>1. 1 \in 1 .. Len(q) - k
  BY LenProperties
<1>. QED
  BY <1>1 DEF Carries

-----------------------------------------------------------------------------
(* The invariant of the queue, and its steps.                              *)

\* The number of what a goroutine writes.
Number(g) == IF g = Loop THEN reads ELSE g

\* The client has read the first of the frames that were written, and the others are in
\* flight.
QueueInv ==
  /\ sent \in Seq(Int)
  /\ Len(got) <= Len(sent)
  /\ \A i \in 1 .. Len(got) : got[i][1].of = sent[i]
  /\ Carries(InFlight, sent, Len(got))

\* The number of a frame that is still to be written follows those that were.
NumberInv ==
  /\ \A i \in 1 .. Len(sent) : sent[i] \in Broadcasters \cup 1 .. reads
  /\ \A g \in Goroutines :
       writer[g].length > 0 =>
         /\ writer[g].frame = Number(g) /\ Number(g) \in Broadcasters \cup 1 .. reads
         /\ \A i \in 1 .. Len(sent) : sent[i] # Number(g)
  /\ \A g \in Broadcasters \ broadcasts : \A i \in 1 .. Len(sent) : sent[i] # g

LEMMA QueueInitial == WireInit => QueueInv /\ NumberInv
<1>. SUFFICES ASSUME WireInit PROVE QueueInv /\ NumberInv
  OBVIOUS
<1>1. <<>> \in Seq(Bytes) /\ <<>> \in Seq(Int) /\ Len(<<>>) = 0
  BY EmptySeq
<1>2. <<>> \o <<>> = <<>>
  BY <1>1, ConcatEmptySeq
<1>3. InFlight = <<>> /\ sent = <<>> /\ got = <<>>
  BY <1>2 DEF WireInit, InFlight, Received
<1>4. Carries(<<>>, <<>>, 0)
  <2>. DEFINE at == [i \in 1 .. Len(<<>>) - 0 |-> 0]
  <2>1. 1 .. Len(<<>>) - 0 = {} /\ 1 .. Len(<<>>) = {}
    BY <1>1
  <2>2. at \in [1 .. Len(<<>>) - 0 -> 1 .. Len(<<>>)]
    BY <2>1
  <2>. QED
    BY <2>1, <2>2 DEF Carries
<1>5. \A g \in Goroutines : ~(writer[g].length > 0)
  BY DEF WireInit, NoWrite
<1>. QED
  BY <1>1, <1>3, <1>4, <1>5 DEF QueueInv, NumberInv

\* Nothing that concerns the queue changes.
LEMMA QueueSame ==
  ASSUME QueueInv, UNCHANGED <<sent, got>>, InFlight' = InFlight
  PROVE  QueueInv'
BY DEF QueueInv

LEMMA StreamSame ==
  ASSUME UNCHANGED <<line, chunk, socket>>
  PROVE  InFlight' = InFlight
BY DEF InFlight, Received

\* The next frame of the loop has a number that no frame had before.
LEMMA LoopQueues ==
  ASSUME WireInv, QueueInv, NumberInv, LoopReads
  PROVE  QueueInv' /\ NumberInv'
<1>1. /\ writer[Loop] = NoWrite /\ reads < MaxReads /\ reads' = reads + 1
      /\ UNCHANGED <<broadcasts, socket, line, chunk, got, sent>>
  BY DEF LoopReads
<1>2. reads \in Nat /\ Broadcasters \subseteq Int
  BY Names, Sizes DEF WireInv, WireTyped, WireTypeOK
<1>3. \A i \in 1 .. Len(sent) : sent[i] \in Broadcasters \cup 1 .. reads' /\ sent[i] # reads'
  BY <1>1, <1>2 DEF NumberInv, Broadcasters
<1>4. \A g \in Goroutines \ {Loop} : writer'[g] = writer[g] /\ Number(g)' = Number(g)
  <2>1. writer \in [Goroutines -> [frame : Int, length : Nat, written : Nat]]
    BY DEF WireInv, WireTyped
  <2>2. UNCHANGED writer \/ \E length \in Lengths : Send(Loop, reads', length)
    BY DEF LoopReads
  <2>3. \A g \in Goroutines \ {Loop} : writer'[g] = writer[g]
    BY <2>1, <2>2 DEF Send
  <2>. QED
    BY <2>3 DEF Number
<1>5. writer'[Loop].length > 0 => writer'[Loop].frame = reads'
  <2>1. ~(writer[Loop].length > 0)
    BY <1>1 DEF NoWrite
  <2>2. writer \in [Goroutines -> [frame : Int, length : Nat, written : Nat]]
    BY DEF WireInv, WireTyped
  <2>3. \/ writer' = writer
        \/ \E length \in Lengths :
             writer' = [writer EXCEPT ![Loop] = [frame |-> reads', length |-> length, written |-> 0]]
    BY DEF LoopReads, Send
  <2>. QED
    BY <2>1, <2>2, <2>3, Names
<1>6. Number(Loop)' = reads' /\ reads' \in 1 .. reads'
  BY <1>1, <1>2 DEF Number
<1>7. NumberInv'
  <2>1. ASSUME NEW g \in Goroutines, writer'[g].length > 0
        PROVE  /\ writer'[g].frame = Number(g)' /\ Number(g)' \in Broadcasters \cup 1 .. reads'
               /\ \A i \in 1 .. Len(sent) : sent[i] # Number(g)'
    <3>1. CASE g = Loop
      BY <1>3, <1>5, <1>6, <2>1, <3>1
    <3>2. CASE g # Loop
      BY <1>1, <1>2, <1>4, <2>1, <3>2 DEF NumberInv
    <3>. QED
      BY <3>1, <3>2
  <2>. QED
    BY <1>1, <1>3, <2>1 DEF NumberInv
<1>. QED
  BY <1>1, <1>7, StreamSame, QueueSame

LEMMA BroadcastQueues ==
  ASSUME WireInv, QueueInv, NumberInv, NEW g \in Broadcasters, Broadcast(g)
  PROVE  QueueInv' /\ NumberInv'
<1>1. /\ g \notin broadcasts /\ broadcasts' = broadcasts \cup {g}
      /\ UNCHANGED <<reads, socket, line, chunk, got, sent>>
  BY DEF Broadcast
<1>2. writer[g].length = 0 /\ g # Loop /\ g \in Goroutines
  BY <1>1, Names DEF WireInv, WriterInv
<1>3. \A h \in Goroutines \ {g} : writer'[h] = writer[h]
  BY DEF Broadcast, Send
<1>4. writer'[g].length > 0 => writer'[g].frame = g
  <2>1. writer \in [Goroutines -> [frame : Int, length : Nat, written : Nat]]
    BY DEF WireInv, WireTyped
  <2>2. \/ writer' = writer
        \/ \E length \in Lengths :
             writer' = [writer EXCEPT ![g] = [frame |-> g, length |-> length, written |-> 0]]
    BY DEF Broadcast, Send
  <2>3. ~(writer[g].length > 0)
    BY <1>2
  <2>. QED
    BY <1>2, <2>1, <2>2, <2>3
<1>5. \A h \in Goroutines : Number(h)' = Number(h)
  BY <1>1 DEF Number
<1>6. Number(g) = g /\ \A i \in 1 .. Len(sent) : sent[i] # g
  BY <1>1, <1>2 DEF NumberInv, Number
<1>7. NumberInv'
  <2>1. ASSUME NEW h \in Goroutines, writer'[h].length > 0
        PROVE  /\ writer'[h].frame = Number(h) /\ Number(h) \in Broadcasters \cup 1 .. reads
               /\ \A i \in 1 .. Len(sent) : sent[i] # Number(h)
    <3>1. CASE h = g
      BY <1>4, <1>6, <2>1, <3>1
    <3>2. CASE h # g
      BY <1>3, <2>1, <3>2 DEF NumberInv
    <3>. QED
      BY <3>1, <3>2
  <2>2. \A h \in Broadcasters \ broadcasts' : h \in Broadcasters \ broadcasts
    BY <1>1
  <2>. QED
    BY <1>1, <1>5, <2>1, <2>2 DEF NumberInv
<1>. QED
  BY <1>1, <1>7, StreamSame, QueueSame

\* A newline makes a frame, whose number nobody else has.
LEMMA WriteQueues ==
  ASSUME WireInv, QueueInv, NumberInv, NEW g \in Goroutines, WriteByte(g)
  PROVE  QueueInv' /\ NumberInv'
<1>. DEFINE w == writer[g]
            last == w.written = w.length
            b == [of |-> w.frame, newline |-> last]
<1>1. /\ writerLock = g
      /\ socket' = IF closed THEN socket ELSE Append(socket, b)
      /\ closed \/ last => writer' = [writer EXCEPT ![g] = NoWrite]
      /\ ~(closed \/ last) => writer' = [writer EXCEPT ![g].written = w.written + 1]
      /\ sent' = IF last /\ ~closed THEN Append(sent, w.frame) ELSE sent
      /\ UNCHANGED <<reads, broadcasts, line, chunk, got>>
  BY DEF WriteByte
<1>2. /\ writer \in [Goroutines -> [frame : Int, length : Nat, written : Nat]]
      /\ w.length > 0 /\ b \in Bytes /\ w.frame \in Int
  BY <1>1, Names DEF WireInv, WireTyped, WriterInv, Bytes
<1>3. /\ w.frame = Number(g) /\ Number(g) \in Broadcasters \cup 1 .. reads
      /\ \A i \in 1 .. Len(sent) : sent[i] # Number(g)
  BY <1>2 DEF NumberInv
<1>4. /\ \A h \in Goroutines \ {g} : writer'[h] = writer[h]
      /\ writer'[g].length > 0 => ~(closed \/ last) /\ writer'[g].frame = w.frame
  <2>. HIDE DEF w, last, b
  <2>. QED
    BY <1>1, <1>2 DEF NoWrite, w
<1>5. /\ sent \in Seq(Int) /\ Len(sent) \in Nat /\ Len(got) \in 0 .. Len(sent)
      /\ InFlight \in Seq(Bytes)
  BY Queues, LenProperties DEF QueueInv, WireInv, WireTyped
<1>6. ASSUME last, ~closed
      PROVE  /\ sent' \in Seq(Int) /\ Len(sent') = Len(sent) + 1 /\ sent'[Len(sent) + 1] = Number(g)
             /\ \A i \in 1 .. Len(sent) : sent'[i] = sent[i]
  <2>1. sent' = Append(sent, w.frame)
    BY <1>1, <1>6
  <2>. QED
    BY <1>2, <1>3, <1>5, <2>1, AppendProperties
<1>7. QueueInv'
  <2>1. CASE closed
    BY <1>1, <2>1, StreamSame, QueueSame
  <2>2. CASE ~closed
    <3>1. InFlight' = Append(InFlight, b)
      BY <1>1, <1>2, <2>2, StreamAppend DEF InFlight, Received, WireInv
    <3>2. Carries(InFlight', sent', Len(got))
      <4>1. CASE last
        BY <1>1, <1>2, <1>5, <2>2, <3>1, <4>1, CarriesFrame DEF QueueInv
      <4>2. CASE ~last
        BY <1>1, <1>2, <1>5, <3>1, <4>2, CarriesByte DEF QueueInv
      <4>. QED
        BY <4>1, <4>2
    <3>3. CASE last
      BY <1>1, <1>5, <1>6, <2>2, <3>2, <3>3 DEF QueueInv
    <3>4. CASE ~last
      BY <1>1, <3>2, <3>4 DEF QueueInv
    <3>. QED
      BY <3>3, <3>4
  <2>. QED
    BY <2>1, <2>2
<1>. HIDE DEF w, last, b
<1>8. NumberInv'
  <2>1. \A h \in Goroutines : Number(h)' = Number(h)
    BY <1>1 DEF Number
  <2>2. CASE closed \/ ~last
    <3>1. sent' = sent
      BY <1>1, <2>2
    <3>2. ASSUME NEW h \in Goroutines, writer'[h].length > 0
          PROVE  writer'[h].frame = writer[h].frame /\ writer[h].length > 0
      BY <1>2, <1>4, <3>2 DEF w
    <3>. QED
      BY <1>1, <2>1, <3>1, <3>2 DEF NumberInv
  <2>3. CASE last /\ ~closed
    <3>1. \A i \in 1 .. Len(sent') : sent'[i] = Number(g) \/ \E j \in 1 .. Len(sent) : sent'[i] = sent[j]
      <4>. SUFFICES ASSUME NEW i \in 1 .. Len(sent'), i # Len(sent) + 1
                    PROVE  i \in 1 .. Len(sent) /\ sent'[i] = sent[i]
        BY <1>6, <2>3
      <4>1. Len(sent') = Len(sent) + 1 /\ Len(sent) \in Nat
        BY <1>5, <1>6, <2>3
      <4>2. i \in 1 .. Len(sent)
        BY <4>1
      <4>. QED
        BY <1>6, <2>3, <4>2
    <3>2. ASSUME NEW h \in Goroutines \ {g}, Number(h) \in Broadcasters \cup 1 .. reads
          PROVE  Number(h) # Number(g)
      <4>1. CASE h = Loop \/ g = Loop
        <5>1. reads \in Nat
          BY Sizes DEF WireInv, WireTyped, WireTypeOK
        <5>. QED
          BY <1>3, <3>2, <4>1, <5>1 DEF Number, Goroutines, Broadcasters, Loop
      <4>2. CASE h # Loop /\ g # Loop
        BY <3>2, <4>2 DEF Number
      <4>. QED
        BY <4>1, <4>2
    <3>3. ASSUME NEW h \in Goroutines, writer'[h].length > 0
          PROVE  /\ writer'[h].frame = Number(h) /\ Number(h) \in Broadcasters \cup 1 .. reads
                 /\ \A i \in 1 .. Len(sent') : sent'[i] # Number(h)
      <4>1. h # g /\ writer'[h] = writer[h]
        BY <1>4, <2>3, <3>3
      <4>. QED
        BY <3>1, <3>2, <3>3, <4>1 DEF NumberInv
    <3>4. ASSUME NEW h \in Broadcasters \ broadcasts PROVE \A i \in 1 .. Len(sent') : sent'[i] # h
      <4>1. h # g
        <5>1. writer[h].length = 0
          BY <3>4 DEF WireInv, WriterInv
        <5>. QED
          BY <1>2, <5>1 DEF w
      <4>2. Number(h) = h /\ h \in Goroutines
        BY Names DEF Number
      <4>. QED
        BY <3>1, <3>2, <3>4, <4>1, <4>2 DEF NumberInv
    <3>5. \A i \in 1 .. Len(sent') : sent'[i] \in Broadcasters \cup 1 .. reads
      BY <1>3, <3>1 DEF NumberInv
    <3>. QED
      BY <1>1, <2>1, <3>3, <3>4, <3>5 DEF NumberInv
  <2>. QED
    BY <2>2, <2>3
<1>. QED
  BY <1>7, <1>8

\* The line that the client reads is the next frame.
LEMMA LineQueues ==
  ASSUME WireInv, QueueInv, LineRead
  PROVE  /\ QueueInv'
         /\ Len(got) < Len(sent) /\ got' = Append(got, Received)
         /\ Received[1].of = sent[Len(got) + 1]
<1>1. /\ Received \in Seq(Bytes) /\ Len(Received) \in Nat \ {0}
      /\ \A i \in 1 .. Len(Received) - 1 : ~Received[i].newline
      /\ Received[Len(Received)].newline
      /\ \A j \in 1 .. Len(Received) : Received[j].of = Received[1].of
      /\ got' = Append(got, Received) /\ InFlight' = socket
  BY LineTaken DEF WireInv
<1>2. /\ sent \in Seq(Int) /\ Len(got) \in 0 .. Len(sent) /\ socket \in Seq(Bytes)
      /\ got \in Seq(Seq(Bytes)) /\ UNCHANGED sent
  BY LenProperties DEF QueueInv, WireInv, WireTyped, LineRead
<1>3. /\ Len(got) < Len(sent) /\ sent[Len(got) + 1] = Received[Len(Received)].of
      /\ Carries(socket, sent, Len(got) + 1)
  <2>1. Carries(Received \o socket, sent, Len(got))
    BY DEF QueueInv, InFlight
  <2>2. Len(Received) > 0
    BY <1>1
  <2>. QED
    BY <1>1, <1>2, <2>1, <2>2, CarriesLine
<1>4. Received[Len(Received)].of = Received[1].of
  BY <1>1
<1>5. /\ Len(got') = Len(got) + 1 /\ got'[Len(got) + 1] = Received
      /\ \A i \in 1 .. Len(got) : got'[i] = got[i]
  BY <1>1, <1>2, AppendProperties
<1>6. ASSUME NEW i \in 1 .. Len(got') PROVE got'[i][1].of = sent[i]
  <2>1. CASE i = Len(got) + 1
    BY <1>3, <1>4, <1>5, <2>1
  <2>2. CASE i # Len(got) + 1
    <3>1. i \in 1 .. Len(got)
      BY <1>2, <1>5, <2>2
    <3>. QED
      BY <1>5, <3>1 DEF QueueInv
  <2>. QED
    BY <2>1, <2>2
<1>7. QueueInv'
  <2>1. Len(got') <= Len(sent) /\ Carries(InFlight', sent, Len(got'))
    BY <1>1, <1>2, <1>3, <1>5
  <2>. QED
    BY <1>2, <1>6, <2>1 DEF QueueInv
<1>. QED
  BY <1>1, <1>3, <1>4, <1>7

LEMMA QueueAlways == WireSpec => [](WireInv /\ QueueInv /\ NumberInv)
<1>1. WireInv /\ QueueInv /\ NumberInv /\ [WireNext]_wireVars => QueueInv' /\ NumberInv'
  <2>. SUFFICES ASSUME WireInv, QueueInv, NumberInv, [WireNext]_wireVars
                PROVE  QueueInv' /\ NumberInv'
    OBVIOUS
  <2>1. ASSUME UNCHANGED <<reads, writer, broadcasts, sent>> PROVE NumberInv'
    BY <2>1 DEF NumberInv, Number
  <2>2. ASSUME UNCHANGED <<reads, writer, broadcasts, sent, got, line, chunk, socket>>
        PROVE  QueueInv' /\ NumberInv'
    BY <2>1, <2>2, StreamSame, QueueSame
  <2>3. CASE UNCHANGED wireVars
    BY <2>2, <2>3 DEF wireVars
  <2>4. CASE ConnectionCloses
    BY <2>2, <2>4 DEF ConnectionCloses
  <2>5. ASSUME NEW g \in Goroutines, WriteLock(g) PROVE QueueInv' /\ NumberInv'
    BY <2>2, <2>5 DEF WriteLock
  <2>6. CASE ReadByte
    BY <2>1, <2>6, ByteMoves, QueueSame DEF ReadByte, WireInv
  <2>7. CASE ChunkFull
    <3>1. Received \in Seq(Bytes) /\ line' = Received /\ chunk' = <<>> /\ UNCHANGED socket
      BY <2>7, Queues DEF ChunkFull, Received, WireInv
    <3>2. Received \o <<>> = Received
      BY <3>1, ConcatEmptySeq
    <3>3. InFlight' = InFlight
      BY <3>1, <3>2 DEF InFlight, Received
    <3>. QED
      BY <2>1, <2>7, <3>3, QueueSame DEF ChunkFull
  <2>8. CASE LineRead
    BY <2>1, <2>8, LineQueues DEF LineRead
  <2>9. CASE StreamEnds
    BY <2>2, <2>9 DEF StreamEnds
  <2>. QED
    BY <2>3, <2>4, <2>5, <2>6, <2>7, <2>8, <2>9, LoopQueues, BroadcastQueues, WriteQueues
       DEF WireNext, ReaderStep
<1>. QED
  BY <1>1, QueueInitial, WireAlways, PTL DEF WireSpec

\* The frames of the lines g are a sequence, as those of q that they are.
LEMMA LinesFrames ==
  ASSUME NEW g \in Seq(Seq(Bytes)), NEW q \in Seq(Int), Len(g) <= Len(q),
         \A i \in 1 .. Len(g) : g[i][1].of = q[i]
  PROVE  LET f == [i \in DOMAIN g |-> g[i][1].of]
         IN  /\ f \in Seq(Int) /\ Len(f) = Len(g) /\ Len(g) \in Nat
             /\ \A i \in 1 .. Len(g) : f[i] = q[i]
<1>. DEFINE f == [i \in DOMAIN g |-> g[i][1].of]
<1>1. Len(g) \in Nat /\ DOMAIN g = 1 .. Len(g)
  BY LenProperties
<1>2. \A i \in 1 .. Len(g) : q[i] \in Int
  <2>1. Len(q) \in Nat /\ \A i \in 1 .. Len(q) : q[i] \in Int
    BY LenProperties, ElementOfSeq
  <2>. QED
    BY <1>1, <2>1
<1>3. f \in [1 .. Len(g) -> Int] /\ DOMAIN f = 1 .. Len(g) /\ \A i \in 1 .. Len(g) : f[i] = q[i]
  BY <1>1, <1>2
<1>. HIDE DEF f
<1>4. f \in Seq(Int)
  <2>1. Len(g) \in Nat /\ f \in [1 .. Len(g) -> Int]
    BY <1>1, <1>3
  <2>2. Seq(Int) = UNION {[1 .. n -> Int] : n \in Nat}
    BY SeqDef
  <2>. QED
    BY <2>1, <2>2, Zenon
<1>5. Len(f) = Len(g)
  <2>1. DOMAIN f = 1 .. Len(f) /\ Len(f) \in Nat
    BY <1>4, LenProperties
  <2>. QED
    BY <1>1, <1>3, <2>1
<1>. QED
  BY <1>1, <1>3, <1>4, <1>5 DEF f

\* The steps of a connection are those of the queue.
LEMMA WireQueues ==
  ASSUME WireInv, QueueInv, NumberInv, QueueInv', WireInv', [WireNext]_wireVars
  PROVE  [Queue!Write \/ Queue!Read \/ Queue!HangUp \/ Queue!End]_Queue!queueVars
<1>0. /\ GotFrames \in Seq(Int) /\ Len(GotFrames) = Len(got) /\ Len(got) \in Nat
      /\ \A i \in 1 .. Len(got) : GotFrames[i] = sent[i]
  BY LinesFrames DEF GotFrames, WireInv, WireTyped, QueueInv
<1>1. ASSUME UNCHANGED <<sent, got, closed, ended>> PROVE UNCHANGED Queue!queueVars
  BY <1>1 DEF Queue!queueVars, GotFrames
<1>2. ASSUME UNCHANGED <<sent, got, ended>>, ~closed, closed' = TRUE PROVE Queue!HangUp
  BY <1>2 DEF Queue!HangUp, GotFrames
<1>3. CASE UNCHANGED wireVars
  BY <1>1, <1>3 DEF wireVars
<1>4. CASE LoopReads
  <2>1. UNCHANGED <<sent, got, ended>> /\ ~closed
    BY <1>4 DEF LoopReads
  <2>2. closed' = TRUE \/ UNCHANGED closed
    BY <1>4 DEF LoopReads
  <2>. QED
    BY <1>1, <1>2, <2>1, <2>2
<1>5. CASE ConnectionCloses
  BY <1>2, <1>5 DEF ConnectionCloses
<1>6. ASSUME NEW g \in Broadcasters, Broadcast(g) PROVE UNCHANGED Queue!queueVars
  BY <1>1, <1>6 DEF Broadcast
<1>7. ASSUME NEW g \in Goroutines, WriteLock(g) PROVE UNCHANGED Queue!queueVars
  BY <1>1, <1>7 DEF WriteLock
<1>8. ASSUME NEW g \in Goroutines, WriteByte(g) PROVE Queue!Write \/ UNCHANGED Queue!queueVars
  <2>1. /\ sent' = IF writer[g].written = writer[g].length /\ ~closed
                   THEN Append(sent, writer[g].frame) ELSE sent
        /\ writerLock = g /\ UNCHANGED <<got, closed, ended>>
    BY <1>8 DEF WriteByte
  <2>2. CASE writer[g].written = writer[g].length /\ ~closed
    <3>1. writer[g].length > 0
      BY <2>1, Names DEF WireInv, WriterInv
    <3>2. /\ writer[g].frame = Number(g) /\ Number(g) \in Broadcasters \cup 1 .. reads
          /\ \A i \in 1 .. Len(sent) : sent[i] # Number(g) /\ sent[i] \in Broadcasters \cup 1 .. reads
      BY <3>1 DEF NumberInv
    <3>3. reads \in 0 .. MaxReads /\ MaxReads \in Nat
      BY Sizes DEF WireInv, WireTyped, WireTypeOK
    <3>4. DOMAIN sent = 1 .. Len(sent)
      BY LenProperties DEF QueueInv
    <3>5. Number(g) > 0 => Number(g) = reads
      BY DEF Number, Goroutines, Broadcasters, Loop
    <3>6. Queue!Following(Number(g))
      BY <3>2, <3>3, <3>4, <3>5 DEF Queue!Following, Broadcasters
    <3>7. Number(g) \in Broadcasters \cup 1 .. MaxReads
      BY <3>2, <3>3
    <3>8. UNCHANGED GotFrames
      BY <2>1 DEF GotFrames
    <3>. QED
      BY <2>1, <2>2, <3>2, <3>6, <3>7, <3>8 DEF Queue!Write
  <2>3. CASE ~(writer[g].written = writer[g].length /\ ~closed)
    BY <1>1, <2>1, <2>3
  <2>. QED
    BY <2>2, <2>3
<1>9. CASE ReadByte
  BY <1>1, <1>9 DEF ReadByte
<1>10. CASE ChunkFull
  <2>1. /\ ended = "no" /\ ended' = IF Len(line') > MaxFrameSize THEN "error" ELSE ended
        /\ line' \in Seq(Bytes) /\ chunk' = <<>> /\ UNCHANGED <<sent, got, closed>>
    BY <1>10 DEF ChunkFull, WireInv, WireTyped
  <2>2. line' \o chunk' = line' /\ Len(line') \in Nat /\ MaxFrameSize \in Nat
    BY <2>1, ConcatEmptySeq, LenProperties, Sizes
  <2>3. ended' = "error" => Len(line') < MaxFrameSize
    BY <2>2 DEF WireInv, NothingRejected
  <2>4. UNCHANGED ended
    BY <2>1, <2>2, <2>3
  <2>. QED
    BY <1>1, <2>1, <2>4
<1>11. CASE LineRead
  <2>1. /\ Len(got) < Len(sent) /\ got' = Append(got, Received) /\ Received[1].of = sent[Len(got) + 1]
        /\ UNCHANGED <<sent, closed, ended>> /\ ended = "no"
    BY <1>11, LineQueues, LineTaken DEF LineRead, WireInv
  <2>2. Received \in Seq(Bytes) /\ got \in Seq(Seq(Bytes))
    BY Queues DEF WireInv, WireTyped
  <2>3. /\ Len(got') = Len(got) + 1 /\ got'[Len(got) + 1] = Received
        /\ \A i \in 1 .. Len(got) : got'[i] = got[i]
    BY <2>1, <2>2, AppendProperties
  <2>. DEFINE f == sent[Len(got) + 1]
              a == Append(GotFrames, f)
  <2>4. /\ GotFrames' \in Seq(Int) /\ Len(GotFrames') = Len(got) + 1
        /\ \A i \in 1 .. Len(got) + 1 : GotFrames'[i] = sent[i]
    <3>1. /\ got' \in Seq(Seq(Bytes)) /\ sent' \in Seq(Int) /\ Len(got') <= Len(sent')
          /\ \A i \in 1 .. Len(got') : got'[i][1].of = sent'[i]
      BY DEF WireInv, WireTyped, QueueInv
    <3>2. /\ GotFrames' \in Seq(Int) /\ Len(GotFrames') = Len(got')
          /\ \A i \in 1 .. Len(got') : GotFrames'[i] = sent'[i]
      BY <3>1, LinesFrames DEF GotFrames
    <3>. QED
      BY <2>1, <2>3, <3>2
  <2>5. f \in Int
    <3>1. sent \in Seq(Int) /\ Len(got) + 1 \in 1 .. Len(sent)
      BY <1>0, <2>1, LenProperties DEF QueueInv
    <3>. QED
      BY <3>1, ElementOfSeq
  <2>6. /\ a \in Seq(Int) /\ Len(a) = Len(got) + 1 /\ a[Len(got) + 1] = f /\ Len(got) \in Nat
        /\ \A i \in 1 .. Len(got) : a[i] = sent[i]
    BY <1>0, <2>5, AppendProperties
  <2>. HIDE DEF a, f
  <2>7. \A i \in 1 .. Len(got) + 1 : GotFrames'[i] = a[i]
    <3>1. GotFrames'[Len(got) + 1] = f
      BY <2>4, <2>6 DEF f
    <3>2. \A i \in 1 .. Len(got) + 1 : i = Len(got) + 1 \/ i \in 1 .. Len(got)
      BY <2>6
    <3>. QED
      BY <2>4, <2>6, <3>1, <3>2
  <2>8. GotFrames' = a
    BY <2>4, <2>6, <2>7, SeqEqual
  <2>. QED
    BY <1>0, <2>1, <2>8 DEF Queue!Read, a, f
<1>12. CASE StreamEnds
  <2>1. /\ closed /\ socket = <<>> /\ ~HasNewline /\ ended = "no" /\ ended' \in {"eof", "error"}
        /\ UNCHANGED <<got, sent, closed>>
    BY <1>12 DEF StreamEnds
  <2>2. InFlight = Received /\ Received \in Seq(Bytes)
    BY <2>1, Queues, ConcatEmptySeq DEF InFlight, WireInv
  <2>3. \A i \in 1 .. Len(Received) : ~Received[i].newline
    <3>1. CASE Received = <<>>
      BY <3>1, EmptySeq
    <3>2. CASE Received # <<>>
      <4>1. /\ \A i \in 1 .. Len(Received) - 1 : ~Received[i].newline
            /\ ~Received[Len(Received)].newline /\ Len(Received) \in Nat \ {0}
        BY <2>1, <3>2, ReceivedWhole DEF WireInv
      <4>. QED
        BY <4>1
    <3>. QED
      BY <3>1, <3>2
  <2>4. sent \in Seq(Int) /\ Len(got) \in 0 .. Len(sent)
    BY <1>0, LenProperties DEF QueueInv
  <2>5. Len(sent) = Len(got)
    BY <2>2, <2>3, <2>4, CarriesNothing DEF QueueInv
  <2>6. GotFrames = sent
    BY <1>0, <2>4, <2>5, SeqEqual
  <2>7. UNCHANGED GotFrames
    BY <2>1 DEF GotFrames
  <2>. QED
    BY <2>1, <2>6, <2>7 DEF Queue!End
<1>. QED
  BY <1>3, <1>4, <1>5, <1>6, <1>7, <1>8, <1>9, <1>10, <1>11, <1>12 DEF WireNext, ReaderStep

\* A connection is a queue of frames, each written once and read once, in one order,
\* answers in the order of their requests, and its end is seen behind the last of them,
\* for any lengths of frames, sizes of buffers and number of requests (server.go:171,
\* codec.go:30, 66).
THEOREM WireImplementsQueue == WireSpec => ImplementsQueue
<1>1. WireInit => Queue!QueueInit
  <2>. SUFFICES ASSUME WireInit PROVE Queue!QueueInit
    OBVIOUS
  <2>1. got = <<>> /\ sent = <<>> /\ ~closed /\ closed = FALSE /\ ended = "no"
    BY DEF WireInit
  <2>2. GotFrames = <<>>
    <3>1. DOMAIN GotFrames = {}
      BY <2>1 DEF GotFrames
    <3>. QED
      BY <3>1, <2>1 DEF GotFrames
  <2>. QED
    BY <2>1, <2>2 DEF Queue!QueueInit
<1>. QED
  BY <1>1, QueueAlways, WireQueues, PTL DEF WireSpec, ImplementsQueue, Queue!QueueSpec
=============================================================================
