------------------------------- MODULE Fourier -------------------------------
(***************************************************************************)
(* The analysis of a window (internal/audio/fft.go): the transform in      *)
(* place, and the bins grouped into bands.                                 *)
(*                                                                         *)
(* Complex numbers are replaced by the integers modulo a prime, where      *)
(* Omega is a root of unity as exp(-2 pi i / Order) is in theirs: the      *)
(* transform only uses sums, products and powers of the root.  A band is   *)
(* abstracted to whether it is loud: the Hann window, which spreads a tone *)
(* to the bins beside it, and the decibels are left out.                   *)
(***************************************************************************)
EXTENDS Integers, Sequences, FiniteSetsExt, SequencesExt

CONSTANTS
  Prime, Omega, Order,  \* Omega is of that order modulo Prime, and Order even
  FourierSizes,         \* powers of 2 that divide Order (nowplayingd: 1024)
  MaxBands

ASSUME FourierAssumption ==
  /\ {Prime, Omega, Order} \subseteq Nat \ {0}
  /\ (Omega ^ (Order \div 2) + 1) % Prime = 0
  /\ FourierSizes \subseteq Nat \ {0}
  /\ \A n \in FourierSizes : Order % n = 0 /\ \E bits \in 1 .. n : n = 2 ^ bits
  /\ MaxBands \in Nat

VARIABLES
  fftSize, numBands,
  binRanges,
  samples,    \* the window
  loud        \* the bands that Process finds loud

fourierVars == <<fftSize, numBands, binRanges, samples, loud>>

Half == fftSize \div 2
Root(size) == (Omega ^ (Order \div size)) % Prime
Power(root, e) == FoldLeft(LAMBDA p, i : (p * root) % Prime, 1, [i \in 1 .. e |-> i])

-----------------------------------------------------------------------------
Bits(n) == CHOOSE bits \in 0 .. n : 2 ^ bits = n

\* Mutant: the bits from the second one on.
BitReverseLate(v, bits) ==
  SumSet({IF (v \div 2 ^ i) % 2 = 1 THEN 2 ^ (bits - i) ELSE 0 : i \in 1 .. bits})

BitReverse(v, bits) ==
  SumSet({IF (v \div 2 ^ i) % 2 = 1 THEN 2 ^ (bits - 1 - i) ELSE 0 : i \in 0 .. bits - 1})

\* The butterflies of one size.
Butterflies(x, size) ==
  LET half == size \div 2
  IN  [i \in DOMAIN x |->
        LET k == i % size
            w == Power(Root(size), k % half)
        IN  IF k < half THEN (x[i] + w * x[i + half]) % Prime
                        ELSE (x[i - half] - w * x[i]) % Prime]

FFT(x) ==
  LET bits == Bits(fftSize)
  IN  FoldLeft(Butterflies, [i \in DOMAIN x |-> x[BitReverse(i, bits)]],
               [stage \in 1 .. bits |-> 2 ^ stage])

-----------------------------------------------------------------------------
\* Mutant: a band starts with the last bin of the one before.
NextBandOverlaps(prevBin, top, half) ==
  [lo |-> Max({1, prevBin - 1}), hi |-> Min({Max({top, prevBin}), half})]

\* A band from prevBin on, up to the bin top if that is possible.
NextBand(prevBin, top, half) ==
  [lo |-> prevBin, hi |-> Min({Max({top, prevBin}), half})]

\* The loop of NewAnalyzer.
BinRanges(tops, half) ==
  LET range[b \in DOMAIN tops] ==
        NextBand(IF b = 1 THEN 1 ELSE range[b - 1].hi + 1, tops[b], half)
  IN  range

\* int(math.Pow(half, b / bands)): where the power is an integer it may come out
\* just below, except for the last band, whose exponent is 1.
Tops(b, half, bands) ==
  LET top == Max({k \in 1 .. half : k ^ bands <= half ^ b})
  IN  IF b = bands THEN {half}
      ELSE IF top ^ bands = half ^ b THEN {top, top - 1}
      ELSE {top}

FourierInit ==
  /\ fftSize = 0 /\ numBands = 0 /\ binRanges = <<>>
  /\ samples = <<>>
  /\ loud = {}

NewAnalyzer ==
  /\ fftSize = 0
  /\ fftSize' \in FourierSizes
  /\ numBands' \in 1 .. MaxBands
  /\ \E tops \in [1 .. numBands' -> 0 .. fftSize' \div 2] :
       /\ \A b \in 1 .. numBands' : tops[b] \in Tops(b, fftSize' \div 2, numBands')
       /\ binRanges' = BinRanges(tops, fftSize' \div 2)
  /\ UNCHANGED <<samples, loud>>

\* Process: an input that is short is padded, the first bin is skipped.
Process(tone, length) ==
  /\ fftSize > 0
  /\ samples' = [i \in 0 .. fftSize - 1 |->
                   IF i < length THEN Power(Root(fftSize), ((fftSize - tone) * i) % fftSize) ELSE 0]
  /\ loud' = {b \in 1 .. numBands : \E bin \in 1 .. Half :
                /\ binRanges[b].lo <= bin /\ bin <= binRanges[b].hi
                /\ FFT(samples')[bin] # 0}
  /\ UNCHANGED <<fftSize, numBands, binRanges>>

FourierNext ==
  \/ NewAnalyzer
  \/ \E tone \in 0 .. fftSize - 1, length \in {0, 1, fftSize} : Process(tone, length)

FourierSpec == FourierInit /\ [][FourierNext]_fourierVars

-----------------------------------------------------------------------------
(* Properties.                                                             *)

\* Every bin but the first is in exactly one band, also where there are more bands
\* than bins, and where powers are rounded down (fft.go:99).
BandsPartition ==
  \A bin \in 1 .. Half :
    \E b \in 1 .. numBands : \A c \in 1 .. numBands :
      (binRanges[c].lo <= bin /\ bin <= binRanges[c].hi) = (c = b)

\* The transform in place (fft.go:17) gives the sums that define it, and a band is
\* loud if that of one of its bins is not zero.
DFT(x) == [k \in DOMAIN x |->
  FoldLeft(LAMBDA sum, i : (sum + x[i - 1] * Power(Root(fftSize), ((i - 1) * k) % fftSize)) % Prime,
           0, [i \in 1 .. fftSize |-> i])]
LoudAsDefined ==
  samples # <<>> =>
    loud = {b \in 1 .. numBands : \E bin \in binRanges[b].lo .. binRanges[b].hi :
              bin <= Half /\ DFT(samples)[bin] # 0}
=============================================================================
