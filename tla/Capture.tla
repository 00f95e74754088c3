------------------------------- MODULE Capture -------------------------------
(***************************************************************************)
(* The ring between the operating system's audio callback and the daemon's *)
(* spectrum loop (internal/audio/capture_darwin.m, runSpectrum in          *)
(* cmd/nowplayingd/main.go).  Positions are unsigned and wrap at Word; a   *)
(* sample is its number.                                                   *)
(***************************************************************************)
EXTENDS Integers, Sequences, Functions

CONSTANTS
  RingSize,     \* 2^16
  Word,         \* 2^32, a multiple of RingSize
  BufferLength, \* 4096, of the loop's buffer
  FFTSize,      \* 1024
  Deliveries,   \* numbers of samples in a callback
  MaxSamples    \* bound: samples captured

ASSUME CaptureAssumption ==
  /\ {RingSize, Word, BufferLength, FFTSize} \subseteq Nat \ {0}
  /\ RingSize < Word /\ Word % RingSize = 0
  /\ Deliveries \subseteq Nat /\ MaxSamples \in Nat

VARIABLES
  ring, wpos, rpos,
  window,   \* what the analyzer got last
  captured  \* history: samples so far, without a limit

captureVars == <<ring, wpos, rpos, window, captured>>

CaptureInit ==
  /\ ring = [i \in 0 .. RingSize - 1 |-> 0]
  /\ wpos = 0 /\ rpos = 0
  /\ window = <<>>
  /\ captured = 0

-----------------------------------------------------------------------------
Wrapped(position) == position % Word

Avail == Wrapped(wpos - rpos)

\* The callback, under the lock: one sample after the other.  The bound keeps the
\* loop from being Word samples behind, which takes a day without a read.
Deliver(n) ==
  /\ captured + n <= MaxSamples
  /\ Avail + n < Word
  /\ ring' = [i \in DOMAIN ring |->
       LET place == (i - wpos) % RingSize       \* of the samples that go there,
           last  == place + ((n - 1 - place) \div RingSize) * RingSize  \* the last
       IN  IF place < n THEN captured + last + 1 ELSE ring[i]]
  /\ wpos' = Wrapped(wpos + n)
  /\ captured' = captured + n
  /\ UNCHANGED <<rpos, window>>

\* Mutant: a reader that was lapped goes on where it was.
StartLapped == rpos

\* Where the read starts: the oldest sample that is still there.
Start == IF Avail > RingSize THEN Wrapped(wpos - RingSize) ELSE rpos

\* audio_capture_read, and a tick of runSpectrum: fewer samples than a window are
\* dropped.
SpectrumTick ==
  LET avail  == Wrapped(wpos - Start)
      toRead == IF avail < BufferLength THEN avail ELSE BufferLength
      buf    == [i \in 1 .. toRead |-> ring[Wrapped(Start + i - 1) % RingSize]]
  IN  /\ rpos' = Wrapped(Start + toRead)
      /\ window' = IF toRead < FFTSize THEN window
                   ELSE SubSeq(buf, toRead - FFTSize + 1, toRead)
      /\ UNCHANGED <<ring, wpos, captured>>

CaptureNext == SpectrumTick \/ \E n \in Deliveries : Deliver(n)

CaptureSpec == CaptureInit /\ [][CaptureNext]_captureVars

-----------------------------------------------------------------------------
(* Properties.                                                             *)

\* Types; and the ring holds the newest samples at the places that the write
\* position implies, whatever has wrapped.
CaptureTypeOK ==
  /\ wpos \in 0 .. Word - 1 /\ rpos \in 0 .. Word - 1
  /\ captured \in 0 .. MaxSamples
  /\ \A i \in 0 .. RingSize - 1 :
       i < captured => ring[(wpos - 1 - i) % RingSize] = captured - i

\* Whatever wraps, and however far the loop falls behind, the ring implements a stream
\* whose positions never wrap (capture_darwin.m:49): no sample is analysed twice, out
\* of order, or next to one that it did not follow.
Stream == INSTANCE SampleStream WITH
  Capacity <- RingSize, ReadSize <- BufferLength, Window <- FFTSize, Batches <- Deliveries,
  written <- captured, taken <- captured - Avail
ImplementsStream == Stream!StreamSpec
=============================================================================
