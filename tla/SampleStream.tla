----------------------------- MODULE SampleStream -----------------------------
(***************************************************************************)
(* What the capture of audio (module Capture) promises: samples are        *)
(* numbered from 1 for ever, the newest Capacity of them can be read, each *)
(* once and in order, and the spectrum is that of the last Window samples  *)
(* of a read that has so many.                                             *)
(***************************************************************************)
EXTENDS Integers

CONSTANTS Capacity, ReadSize, Window, Batches

VARIABLES
  written,  \* samples that were captured
  taken,    \* those that were read or lost
  window    \* the samples that were analysed last

streamVars == <<written, taken, window>>

StreamInit == written = 0 /\ taken = 0 /\ window = <<>>

Capture ==
  /\ \E n \in Batches : written' = written + n
  /\ UNCHANGED <<taken, window>>

Oldest(t) == IF written - t > Capacity THEN written - Capacity ELSE t
ReadTo(from) == IF written - from < ReadSize THEN written ELSE from + ReadSize

Read ==
  LET from == Oldest(taken)
      to   == ReadTo(from)
  IN  /\ taken' = to
      /\ window' = IF to - from < Window THEN window
                   ELSE [i \in 1 .. Window |-> to - Window + i]
      /\ UNCHANGED written

StreamSpec == StreamInit /\ [][Capture \/ Read]_streamVars
=============================================================================
