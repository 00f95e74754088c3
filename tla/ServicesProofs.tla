--------------------------- MODULE ServicesProofs ---------------------------
(***************************************************************************)
(* Proofs about Capture, for every size of the ring, every width of its    *)
(* positions and every number of samples: the positions wrap, and the      *)
(* samples that are read are those of a stream whose positions do not;     *)
(* about the bands of Fourier, for any number of them, with the induction  *)
(* that takes; and about the services together, which are the web          *)
(* requests, the starts of the daemon, the wire, the ring and the          *)
(* analysis: what is proved of each part is true of each behaviour of      *)
(* MCServices.                                                             *)
(***************************************************************************)
EXTENDS MCServices, SpotifyProofs, SocketProofs, FiniteSetTheorems, SequenceTheorems, TLAPS

-----------------------------------------------------------------------------
(* Remainders.                                                             *)

LEMMA Product == ASSUME NEW a \in Int, NEW m \in Nat \ {0}, a >= 1 PROVE a * m >= m
OBVIOUS

LEMMA DivMod ==
  ASSUME NEW x \in Int, NEW m \in Nat \ {0}
  PROVE  /\ x % m \in 0 .. m - 1 /\ x \div m \in Int
         /\ x = m * (x \div m) + (x % m)
OBVIOUS

LEMMA Remainder ==
  ASSUME NEW x \in Int, NEW m \in Nat \ {0}, NEW q \in Int, NEW r \in 0 .. m - 1, x = m * q + r
  PROVE  x % m = r /\ x \div m = q
<1>. DEFINE k == x \div m
            s == x % m
<1>1. s \in 0 .. m - 1 /\ k \in Int /\ x = m * k + s
  BY DivMod
<1>. HIDE DEF k, s
<1>2. m * (k - q) = m * k - m * q /\ m * (q - k) = m * q - m * k
  BY <1>1
<1>3. m * (k - q) = r - s /\ m * (q - k) = s - r
  BY <1>1, <1>2
<1>4. ~(k - q >= 1)
  BY <1>1, <1>3, Product
<1>5. ~(q - k >= 1)
  BY <1>1, <1>3, Product
<1>6. k = q
  BY <1>1, <1>4, <1>5
<1>. QED
  BY <1>1, <1>6 DEF k, s

\* What is less than the modulus is its own remainder.
LEMMA Small == ASSUME NEW m \in Nat \ {0}, NEW r \in 0 .. m - 1 PROVE r % m = r
<1>1. r = m * 0 + r
  OBVIOUS
<1>. QED
  BY <1>1, Remainder

\* Two numbers that differ by a multiple of m.
Same(x, y, m) == \E q \in Int : x = m * q + y

LEMMA SameMod == ASSUME NEW x \in Int, NEW m \in Nat \ {0} PROVE Same(x, x % m, m)
BY DivMod DEF Same

LEMMA SameSelf == ASSUME NEW x \in Int, NEW m \in Nat \ {0} PROVE Same(x, x, m)
<1>1. x = m * 0 + x
  OBVIOUS
<1>. QED
  BY <1>1 DEF Same

\* They have the same remainder.
LEMMA SameRemainder ==
  ASSUME NEW x \in Int, NEW y \in Int, NEW m \in Nat \ {0}, Same(x, y, m)
  PROVE  x % m = y % m
<1>1. PICK k \in Int : x = m * k + y
  BY DEF Same
<1>. DEFINE q == y \div m
            r == y % m
<1>2. q \in Int /\ r \in 0 .. m - 1 /\ y = m * q + r
  BY DivMod
<1>. HIDE DEF q, r
<1>3. m * (k + q) = m * k + m * q
  BY <1>2
<1>. DEFINE t == k + q
<1>4. t \in Int /\ x = m * t + r
  BY <1>1, <1>2, <1>3
<1>. HIDE DEF t
<1>5. x % m = r
  BY <1>2, <1>4, Remainder
<1>. QED
  BY <1>5 DEF r

LEMMA SameSum ==
  ASSUME NEW x \in Int, NEW y \in Int, NEW u \in Int, NEW v \in Int, NEW m \in Nat \ {0},
         Same(x, y, m), Same(u, v, m)
  PROVE  Same(x + u, y + v, m) /\ Same(x - u, y - v, m)
<1>1. PICK k \in Int : x = m * k + y
  BY DEF Same
<1>2. PICK l \in Int : u = m * l + v
  BY DEF Same
<1>3. m * (k + l) = m * k + m * l /\ m * (k - l) = m * k - m * l
  OBVIOUS
<1>4. x + u = m * (k + l) + (y + v) /\ x - u = m * (k - l) + (y - v)
  BY <1>1, <1>2, <1>3
<1>5. k + l \in Int /\ k - l \in Int
  OBVIOUS
<1>. QED
  BY <1>4, <1>5 DEF Same

\* A remainder may be taken early.
EarlyAt(x, y, m) ==
  /\ ((x % m) + y) % m = (x + y) % m
  /\ ((x % m) - y) % m = (x - y) % m
  /\ (y - (x % m)) % m = (y - x) % m

LEMMA Early ==
  ASSUME NEW x \in Int, NEW y \in Int, NEW m \in Nat \ {0}
  PROVE  EarlyAt(x, y, m)
<1>. DEFINE r == x % m
<1>1. r \in Int /\ Same(x, r, m) /\ Same(y, y, m)
  <2>1. r \in 0 .. m - 1
    BY DivMod
  <2>2. Same(x, r, m)
    BY SameMod
  <2>. QED
    BY <2>1, <2>2, SameSelf
<1>. HIDE DEF r
<1>2. Same(x + y, r + y, m) /\ Same(x - y, r - y, m) /\ Same(y - x, y - r, m)
  BY <1>1, SameSum
<1>3. (x + y) % m = (r + y) % m /\ (x - y) % m = (r - y) % m /\ (y - x) % m = (y - r) % m
  BY <1>1, <1>2, SameRemainder
<1>. QED
  BY <1>3 DEF r, EarlyAt

\* The remainder of a remainder, if the one modulus divides the other.
TwiceAt(x, m, w) == (x % w) % m = x % m

LEMMA Twice ==
  ASSUME NEW x \in Int, NEW m \in Nat \ {0}, NEW w \in Nat \ {0}, w % m = 0
  PROVE  TwiceAt(x, m, w)
<1>. DEFINE q == x \div w
            r == x % w
            d == w \div m
<1>1. q \in Int /\ r \in Int /\ x = w * q + r
  BY DivMod
<1>2. d \in Int /\ w = m * d
  <2>1. d \in Int /\ w = m * d + (w % m)
    BY DivMod
  <2>. QED
    BY <2>1
<1>. HIDE DEF q, r, d
<1>3. w * q = m * (d * q) /\ d * q \in Int
  BY <1>1, <1>2
<1>. DEFINE t == d * q
<1>4. t \in Int /\ x = m * t + r
  BY <1>1, <1>3
<1>. HIDE DEF t
<1>5. Same(x, r, m)
  BY <1>4 DEF Same
<1>6. x % m = r % m
  BY <1>1, <1>5, SameRemainder
<1>. QED
  BY <1>6 DEF r, TwiceAt

-----------------------------------------------------------------------------
(* The ring.                                                               *)

\* The newest samples are at the places of their numbers.
Newest ==
  \A s \in 1 .. captured : s > captured - RingSize => ring[(s - 1) % RingSize] = s

CaptureInv ==
  /\ captured \in Nat
  /\ wpos = captured % Word
  /\ rpos \in 0 .. Word - 1
  /\ Avail <= captured
  /\ DOMAIN ring = 0 .. RingSize - 1
  /\ Newest

LEMMA CaptureSizes ==
  /\ RingSize \in Nat \ {0} /\ Word \in Nat \ {0} /\ BufferLength \in Nat \ {0}
  /\ FFTSize \in Nat \ {0} /\ RingSize < Word /\ Word % RingSize = 0
  /\ Deliveries \subseteq Nat
BY CaptureAssumption DEF CaptureAssumption

LEMMA Positions ==
  ASSUME CaptureInv
  PROVE  wpos \in 0 .. Word - 1 /\ rpos \in 0 .. Word - 1 /\ Avail \in 0 .. Word - 1
<1>1. captured \in Int /\ rpos \in 0 .. Word - 1 /\ wpos = captured % Word
  BY DEF CaptureInv
<1>2. wpos \in 0 .. Word - 1
  BY <1>1, CaptureSizes, DivMod
<1>3. wpos - rpos \in Int
  BY <1>1, <1>2, CaptureSizes
<1>4. Avail \in 0 .. Word - 1
  BY <1>3, CaptureSizes, DivMod DEF Avail, Wrapped
<1>. QED
  BY <1>1, <1>2, <1>4

LEMMA CaptureInitOK == CaptureInit => CaptureInv
<1>. SUFFICES ASSUME CaptureInit PROVE CaptureInv
  OBVIOUS
<1>1. captured = 0 /\ wpos = 0 /\ rpos = 0 /\ DOMAIN ring = 0 .. RingSize - 1
  BY DEF CaptureInit
<1>2. 0 % Word = 0 /\ 0 \in 0 .. Word - 1
  BY CaptureSizes, Small
<1>3. Avail = 0
  BY <1>1, <1>2 DEF Avail, Wrapped
<1>. QED
  BY <1>1, <1>2, <1>3 DEF CaptureInv, Newest

\* The place of a sample, from the write position.
LEMMA PlaceOf ==
  ASSUME CaptureInv, NEW s \in Int
  PROVE  (((s - 1) % RingSize) - wpos) % RingSize = (s - 1 - captured) % RingSize
<1>1. captured \in Int /\ wpos \in Int /\ s - 1 \in Int
  BY Positions, CaptureSizes DEF CaptureInv
<1>2. (((s - 1) % RingSize) - wpos) % RingSize = ((s - 1) - wpos) % RingSize
  <2>1. EarlyAt(s - 1, wpos, RingSize)
    BY <1>1, CaptureSizes, Early
  <2>. QED
    BY <2>1 DEF EarlyAt
<1>3. ((s - 1) - wpos) % RingSize = ((s - 1) - (wpos % RingSize)) % RingSize
  <2>1. EarlyAt(wpos, s - 1, RingSize)
    BY <1>1, CaptureSizes, Early
  <2>. QED
    BY <2>1 DEF EarlyAt
<1>4. wpos % RingSize = captured % RingSize
  <2>1. TwiceAt(captured, RingSize, Word)
    BY <1>1, CaptureSizes, Twice
  <2>. QED
    BY <2>1 DEF TwiceAt, CaptureInv
<1>5. ((s - 1) - (captured % RingSize)) % RingSize = ((s - 1) - captured) % RingSize
  <2>1. EarlyAt(captured, s - 1, RingSize)
    BY <1>1, CaptureSizes, Early
  <2>. QED
    BY <2>1 DEF EarlyAt
<1>. QED
  BY <1>2, <1>3, <1>4, <1>5

\* A delivery leaves the newest samples at their places.
LEMMA DeliverNewest ==
  ASSUME CaptureInv, NEW n \in Deliveries, Deliver(n)
  PROVE  Newest'
<1>1. /\ captured \in Nat /\ n \in Nat /\ captured' = captured + n /\ DOMAIN ring = 0 .. RingSize - 1
      /\ RingSize \in Nat \ {0}
  BY CaptureSizes DEF CaptureInv, Deliver
<1>. SUFFICES ASSUME NEW s \in 1 .. captured + n, s > captured + n - RingSize
              PROVE  ring'[(s - 1) % RingSize] = s
  BY <1>1 DEF Newest
<1>. DEFINE i == (s - 1) % RingSize
            u == s - 1 - captured
            place == (i - wpos) % RingSize
            last == place + ((n - 1 - place) \div RingSize) * RingSize
<1>2. i \in DOMAIN ring
  BY <1>1, DivMod
<1>3. ring'[i] = IF place < n THEN captured + last + 1 ELSE ring[i]
  BY <1>2 DEF Deliver
<1>4. place = u % RingSize
  BY PlaceOf
<1>5. u \in Int /\ u < n /\ u > n - 1 - RingSize
  BY <1>1
<1>. HIDE DEF place, i, u
<1>6. CASE s > captured
  <2>1. u >= 0
    BY <1>1, <1>6 DEF u
  <2>2. PICK k \in Int, r \in 0 .. RingSize - 1 : u = RingSize * k + r /\ r = place
    BY <1>1, <1>4, <1>5, DivMod
  <2>3. place <= u
    <3>1. k >= 0
      <4>1. ~(-k >= 1)
        <5>1. -k >= 1 => (-k) * RingSize >= RingSize
          BY <1>1, Product
        <5>2. (-k) * RingSize = -(RingSize * k)
          BY <1>1
        <5>. QED
          BY <1>1, <1>5, <2>1, <2>2, <5>1, <5>2
      <4>. QED
        BY <4>1
    <3>2. k = 0 \/ k * RingSize >= RingSize
      BY <1>1, <3>1, Product
    <3>3. k * RingSize = RingSize * k
      BY <1>1
    <3>. QED
      BY <1>1, <1>5, <2>2, <3>2, <3>3
  <2>. DEFINE d == n - 1 - u
              t == n - 1 - place
  <2>4. d \in 0 .. RingSize - 1 /\ t \in Int /\ t = RingSize * k + d
    BY <1>1, <1>5, <2>2
  <2>. HIDE DEF d, t
  <2>5. t \div RingSize = k
    BY <1>1, <2>4, Remainder
  <2>6. last = place + k * RingSize
    BY <2>5 DEF t
  <2>7. k * RingSize = RingSize * k
    BY <1>1
  <2>8. last = u /\ place < n
    BY <1>1, <1>5, <2>2, <2>3, <2>6, <2>7
  <2>9. captured + u + 1 = s
    BY <1>1 DEF u
  <2>. QED
    BY <1>3, <2>8, <2>9 DEF i
<1>7. CASE s <= captured
  <2>. DEFINE r == u + RingSize
  <2>1. r \in 0 .. RingSize - 1 /\ r >= n
    BY <1>1, <1>5, <1>7 DEF u
  <2>2. u = RingSize * (-1) + r
    BY <1>1, <1>5
  <2>. HIDE DEF r
  <2>3. place = r
    BY <1>1, <1>4, <1>5, <2>1, <2>2, Remainder
  <2>4. ring'[i] = ring[i]
    BY <1>1, <1>3, <2>1, <2>3
  <2>5. ring[i] = s
    BY <1>1, <1>7 DEF CaptureInv, Newest, i
  <2>. QED
    BY <2>4, <2>5 DEF i
<1>. QED
  BY <1>1, <1>6, <1>7

LEMMA DeliverKeeps ==
  ASSUME CaptureInv, NEW n \in Deliveries, Deliver(n)
  PROVE  CaptureInv' /\ Avail' = Avail + n
<1>1. /\ captured \in Nat /\ n \in Nat /\ wpos \in Int /\ rpos \in 0 .. Word - 1
      /\ Avail \in 0 .. Word - 1 /\ Avail + n < Word /\ Word \in Nat \ {0}
  BY CaptureSizes, Positions DEF CaptureInv, Deliver
<1>1a. {captured, n, wpos, rpos, wpos + n, wpos - rpos} \subseteq Int
  BY <1>1
<1>2. captured' = captured + n /\ wpos' = (wpos + n) % Word /\ rpos' = rpos /\ DOMAIN ring' = DOMAIN ring
  BY DEF Deliver, Wrapped
<1>3. wpos' = (captured + n) % Word
  <2>1. ((captured % Word) + n) % Word = (captured + n) % Word
    <3>1. EarlyAt(captured, n, Word)
      BY <1>1, <1>1a, Early
    <3>. QED
      BY <3>1 DEF EarlyAt
  <2>. QED
    BY <1>2, <2>1 DEF CaptureInv
<1>4. Avail' = Avail + n
  <2>1. (((wpos + n) % Word) - rpos) % Word = ((wpos + n) - rpos) % Word
    <3>1. EarlyAt(wpos + n, rpos, Word)
      BY <1>1, <1>1a, Early
    <3>. QED
      BY <3>1 DEF EarlyAt
  <2>2. (((wpos - rpos) % Word) + n) % Word = ((wpos - rpos) + n) % Word
    <3>1. EarlyAt(wpos - rpos, n, Word)
      BY <1>1, <1>1a, Early
    <3>. QED
      BY <3>1 DEF EarlyAt
  <2>3. (wpos + n) - rpos = (wpos - rpos) + n
    BY <1>1
  <2>4. Avail' = (Avail + n) % Word
    BY <1>2, <2>1, <2>2, <2>3 DEF Avail, Wrapped
  <2>5. Avail + n \in 0 .. Word - 1
    BY <1>1
  <2>. QED
    BY <1>1, <2>4, <2>5, Small
<1>5. Avail' <= captured'
  BY <1>1, <1>2, <1>4 DEF CaptureInv
<1>. QED
  BY <1>1, <1>2, <1>3, <1>4, <1>5, DeliverNewest DEF CaptureInv

-----------------------------------------------------------------------------
(* A tick of the loop.                                                     *)

\* The samples it can read, and the number before the first of them.
Kept == IF Avail > RingSize THEN RingSize ELSE Avail
From     == captured - Kept

LEMMA StartProperties ==
  ASSUME CaptureInv
  PROVE  /\ Kept \in 0 .. RingSize /\ Kept <= Avail /\ From \in Nat
         /\ Start \in 0 .. Word - 1
         /\ Wrapped(wpos - Start) = Kept
         /\ Start = From % Word
<1>1. /\ captured \in Nat /\ wpos \in 0 .. Word - 1 /\ rpos \in 0 .. Word - 1
      /\ Avail \in 0 .. Word - 1 /\ Avail <= captured
      /\ Word \in Nat \ {0} /\ RingSize \in Nat \ {0} /\ RingSize < Word
  BY CaptureSizes, Positions DEF CaptureInv
<1>2. {captured, wpos, rpos, RingSize, Avail, wpos - RingSize, wpos - rpos, captured + rpos}
        \subseteq Int
  BY <1>1
<1>3. Kept \in 0 .. RingSize /\ Kept <= Avail /\ From \in Nat
  BY <1>1 DEF Kept, From
<1>4. CASE Avail > RingSize
  <2>1. Start = (wpos - RingSize) % Word /\ Kept = RingSize
    BY <1>4 DEF Start, Wrapped, Kept
  <2>2. (wpos - ((wpos - RingSize) % Word)) % Word = (wpos - (wpos - RingSize)) % Word
    <3>1. EarlyAt(wpos - RingSize, wpos, Word)
      BY <1>1, <1>2, Early
    <3>. QED
      BY <3>1 DEF EarlyAt
  <2>3. wpos - (wpos - RingSize) = RingSize
    BY <1>2
  <2>4. RingSize % Word = RingSize
    BY <1>1, Small
  <2>5. Wrapped(wpos - Start) = Kept
    BY <2>1, <2>2, <2>3, <2>4 DEF Wrapped
  <2>6. ((captured % Word) - RingSize) % Word = (captured - RingSize) % Word
    <3>1. EarlyAt(captured, RingSize, Word)
      BY <1>1, <1>2, Early
    <3>. QED
      BY <3>1 DEF EarlyAt
  <2>7. Start = From % Word
    BY <2>1, <2>6 DEF From, CaptureInv
  <2>8. Start \in 0 .. Word - 1
    BY <1>1, <1>2, <2>1, DivMod
  <2>. QED
    BY <1>3, <2>5, <2>7, <2>8
<1>5. CASE ~(Avail > RingSize)
  <2>1. Start = rpos /\ Kept = Avail
    BY <1>5 DEF Start, Kept
  <2>2. (captured - ((wpos - rpos) % Word)) % Word = (captured - (wpos - rpos)) % Word
    <3>1. EarlyAt(wpos - rpos, captured, Word)
      BY <1>1, <1>2, Early
    <3>. QED
      BY <3>1 DEF EarlyAt
  <2>3. ((captured + rpos) - (captured % Word)) % Word = ((captured + rpos) - captured) % Word
    <3>1. EarlyAt(captured, captured + rpos, Word)
      BY <1>1, <1>2, Early
    <3>. QED
      BY <3>1 DEF EarlyAt
  <2>4. captured - (wpos - rpos) = (captured + rpos) - wpos /\ (captured + rpos) - captured = rpos
    BY <1>2
  <2>5. rpos % Word = rpos
    BY <1>1, Small
  <2>6. wpos = captured % Word /\ Avail = (wpos - rpos) % Word
    BY DEF CaptureInv, Avail, Wrapped
  <2>7. (captured - Avail) % Word = rpos
    BY <2>2, <2>3, <2>4, <2>5, <2>6
  <2>8. Wrapped(wpos - Start) = Kept /\ Start = From % Word
    BY <2>1, <2>6, <2>7 DEF Wrapped, From
  <2>. QED
    BY <1>1, <1>3, <2>1, <2>8
<1>. QED
  BY <1>4, <1>5

\* The samples in the buffer are the ones after From.
LEMMA BufferHolds ==
  ASSUME CaptureInv, NEW i \in 1 .. Kept
  PROVE  ring[Wrapped(Start + i - 1) % RingSize] = From + i
<1>1. /\ Kept \in 0 .. RingSize /\ From \in Nat /\ Start \in 0 .. Word - 1
      /\ Start = From % Word /\ captured \in Nat
      /\ Word \in Nat \ {0} /\ RingSize \in Nat \ {0} /\ Word % RingSize = 0
  BY StartProperties, CaptureSizes DEF CaptureInv
<1>. DEFINE j == i - 1
<1>2. {From, Start, i, j, Start + j, From + j} \subseteq Int
  BY <1>1
<1>3. Start + i - 1 = Start + j /\ From + i - 1 = From + j
  BY <1>1
<1>. HIDE DEF j
<1>4. ((Start + j) % Word) % RingSize = (Start + j) % RingSize
  <2>1. TwiceAt(Start + j, RingSize, Word)
    BY <1>1, <1>2, Twice
  <2>. QED
    BY <2>1 DEF TwiceAt
<1>5. (Start + j) % RingSize = ((Start % RingSize) + j) % RingSize
  <2>1. Start \in Int /\ j \in Int
    BY <1>2
  <2>2. EarlyAt(Start, j, RingSize)
    BY <1>1, <2>1, Early
  <2>. QED
    BY <2>2 DEF EarlyAt
<1>6. Start % RingSize = From % RingSize
  <2>1. TwiceAt(From, RingSize, Word)
    BY <1>1, <1>2, Twice
  <2>. QED
    BY <1>1, <2>1 DEF TwiceAt
<1>7. ((From % RingSize) + j) % RingSize = (From + j) % RingSize
  <2>1. From \in Int /\ j \in Int
    BY <1>2
  <2>2. EarlyAt(From, j, RingSize)
    BY <1>1, <2>1, Early
  <2>. QED
    BY <2>2 DEF EarlyAt
<1>8. Wrapped(Start + i - 1) % RingSize = (From + i - 1) % RingSize
  BY <1>3, <1>4, <1>5, <1>6, <1>7 DEF Wrapped
<1>9. From + i \in 1 .. captured /\ From + i > captured - RingSize
  BY <1>1 DEF From
<1>. DEFINE s == From + i
<1>10. s \in 1 .. captured /\ s > captured - RingSize
       /\ Wrapped(Start + i - 1) % RingSize = (s - 1) % RingSize
  <2>1. s - 1 = From + i - 1
    BY <1>1
  <2>. QED
    BY <1>8, <1>9, <2>1
<1>. HIDE DEF s
<1>11. ring[Wrapped(Start + i - 1) % RingSize] = s
  BY <1>10 DEF CaptureInv, Newest
<1>. QED
  BY <1>11 DEF s

LEMMA TickReads ==
  ASSUME CaptureInv, SpectrumTick
  PROVE  LET toRead == IF Kept < BufferLength THEN Kept ELSE BufferLength
         IN  /\ CaptureInv' /\ Avail' = Kept - toRead /\ captured' = captured
             /\ window' = IF toRead < FFTSize THEN window
                          ELSE [i \in 1 .. FFTSize |-> (From + toRead) - FFTSize + i]
<1>. DEFINE toRead == IF Kept < BufferLength THEN Kept ELSE BufferLength
            buf == [i \in 1 .. toRead |-> ring[Wrapped(Start + i - 1) % RingSize]]
<1>1. /\ captured \in Nat /\ wpos \in 0 .. Word - 1 /\ Start \in 0 .. Word - 1
      /\ Kept \in 0 .. RingSize /\ Kept <= Avail /\ From \in Nat
      /\ Avail <= captured /\ Wrapped(wpos - Start) = Kept
      /\ Word \in Nat \ {0} /\ RingSize \in Nat \ {0} /\ RingSize < Word
      /\ BufferLength \in Nat \ {0} /\ FFTSize \in Nat \ {0}
  BY CaptureSizes, Positions, StartProperties DEF CaptureInv
<1>2. toRead \in 0 .. Kept
  BY <1>1
<1>3. /\ rpos' = (Start + toRead) % Word
      /\ window' = IF toRead < FFTSize THEN window ELSE SubSeq(buf, toRead - FFTSize + 1, toRead)
      /\ UNCHANGED <<ring, wpos, captured>>
  BY <1>1 DEF SpectrumTick, Wrapped
<1>. HIDE DEF toRead, buf
<1>4. {wpos, Start, toRead, Start + toRead, wpos - Start} \subseteq Int
  BY <1>1, <1>2
<1>5. Avail' = Kept - toRead
  <2>1. (wpos - ((Start + toRead) % Word)) % Word = (wpos - (Start + toRead)) % Word
    <3>1. EarlyAt(Start + toRead, wpos, Word)
      BY <1>1, <1>4, Early
    <3>. QED
      BY <3>1 DEF EarlyAt
  <2>2. (((wpos - Start) % Word) - toRead) % Word = ((wpos - Start) - toRead) % Word
    <3>1. EarlyAt(wpos - Start, toRead, Word)
      BY <1>1, <1>4, Early
    <3>. QED
      BY <3>1 DEF EarlyAt
  <2>3. wpos - (Start + toRead) = (wpos - Start) - toRead
    BY <1>4
  <2>4. Avail' = (Kept - toRead) % Word
    BY <1>1, <1>3, <2>1, <2>2, <2>3 DEF Avail, Wrapped
  <2>5. Kept - toRead \in 0 .. Word - 1
    BY <1>1, <1>2
  <2>. QED
    BY <1>1, <2>4, <2>5, Small
<1>6. CaptureInv'
  <2>1. rpos' \in 0 .. Word - 1
    BY <1>1, <1>3, <1>4, DivMod
  <2>2. Avail' <= captured'
    <3>1. Kept \in Int /\ toRead \in Int /\ toRead >= 0 /\ Avail \in Int
          /\ Kept <= Avail /\ Avail <= captured
      BY <1>1, <1>2, Positions
    <3>2. Kept - toRead <= captured
      BY <1>1, <3>1
    <3>. QED
      BY <1>3, <1>5, <3>2
  <2>. QED
    BY <1>3, <2>1, <2>2 DEF CaptureInv, Newest
<1>7. ASSUME ~(toRead < FFTSize)
      PROVE  SubSeq(buf, toRead - FFTSize + 1, toRead)
               = [i \in 1 .. FFTSize |-> (From + toRead) - FFTSize + i]
  <2>. DEFINE m == toRead - FFTSize + 1
              cut == SubSeq(buf, m, toRead)
  <2>1. m \in Int /\ m >= 1 /\ m <= toRead /\ toRead - m + 1 = FFTSize
    BY <1>1, <1>2, <1>7
  <2>2. \A i \in 1 .. toRead : buf[i] = From + i /\ buf[i] \in Int
    BY <1>1, <1>2, BufferHolds DEF buf
  <2>. HIDE DEF m
  <2>3. \A i \in m .. toRead : i \in 1 .. toRead
    BY <1>4, <2>1
  <2>4. \A i \in m .. toRead : buf[i] \in Int
    BY <2>2, <2>3
  <2>5. cut \in Seq(Int) /\ Len(cut) = FFTSize /\ \A i \in 1 .. FFTSize : cut[i] = buf[m + i - 1]
    BY <1>4, <2>1, <2>4, SubSeqProperties
  <2>. HIDE DEF cut
  <2>6. cut \in [1 .. FFTSize -> Int]
    BY <2>5, LenProperties
  <2>7. \A i \in 1 .. FFTSize : cut[i] = (From + toRead) - FFTSize + i
    <3>. TAKE i \in 1 .. FFTSize
    <3>1. m + i - 1 \in 1 .. toRead /\ From + (m + i - 1) = (From + toRead) - FFTSize + i
      BY <1>1, <1>4, <2>1 DEF m
    <3>. QED
      BY <2>2, <2>5, <3>1
  <2>8. cut = [i \in 1 .. FFTSize |-> (From + toRead) - FFTSize + i]
    BY <2>6, <2>7
  <2>. QED
    BY <2>8 DEF cut, m
<1>. QED
  BY <1>3, <1>5, <1>6, <1>7 DEF toRead

-----------------------------------------------------------------------------
(* The refinement.                                                         *)

LEMMA CaptureStep == CaptureInv /\ [CaptureNext]_captureVars => CaptureInv'
<1>. SUFFICES ASSUME CaptureInv, [CaptureNext]_captureVars PROVE CaptureInv'
  OBVIOUS
<1>1. CASE SpectrumTick
  BY <1>1, TickReads
<1>2. ASSUME NEW n \in Deliveries, Deliver(n) PROVE CaptureInv'
  BY <1>2, DeliverKeeps
<1>3. CASE UNCHANGED captureVars
  BY <1>3 DEF captureVars, CaptureInv, Newest, Avail
<1>. QED
  BY <1>1, <1>2, <1>3 DEF CaptureNext

LEMMA CaptureAlways == CaptureSpec => []CaptureInv
BY CaptureInitOK, CaptureStep, PTL DEF CaptureSpec

LEMMA StepRefines ==
  CaptureInv /\ [CaptureNext]_captureVars => [Stream!Capture \/ Stream!Read]_Stream!streamVars
<1>. SUFFICES ASSUME CaptureInv, [CaptureNext]_captureVars
              PROVE  [Stream!Capture \/ Stream!Read]_Stream!streamVars
  OBVIOUS
<1>1. ASSUME NEW n \in Deliveries, Deliver(n) PROVE Stream!Capture
  <2>1. captured' = captured + n /\ window' = window /\ Avail' = Avail + n
    BY <1>1, DeliverKeeps DEF Deliver
  <2>2. captured \in Nat /\ Avail \in Int /\ n \in Int
    BY Positions, CaptureSizes DEF CaptureInv
  <2>3. captured' - Avail' = captured - Avail
    BY <2>1, <2>2
  <2>. QED
    BY <2>1, <2>3 DEF Stream!Capture
<1>2. CASE SpectrumTick
  <2>. DEFINE toRead == IF Kept < BufferLength THEN Kept ELSE BufferLength
  <2>1. /\ Avail' = Kept - toRead /\ captured' = captured
        /\ window' = IF toRead < FFTSize THEN window
                     ELSE [i \in 1 .. FFTSize |-> (From + toRead) - FFTSize + i]
    BY <1>2, TickReads
  <2>2. /\ captured \in Int /\ Avail \in Int /\ Kept \in Int /\ From \in Int
        /\ BufferLength \in Int /\ RingSize \in Int /\ FFTSize \in Int
    BY Positions, CaptureSizes, StartProperties DEF CaptureInv
  <2>3. Stream!Oldest(captured - Avail) = From
    BY <2>2 DEF Stream!Oldest, From, Kept
  <2>4. Stream!ReadTo(From) = From + toRead
    BY <2>2 DEF Stream!ReadTo, From
  <2>5. captured' - Avail' = From + toRead /\ (From + toRead) - From = toRead
    BY <2>1, <2>2 DEF From
  <2>. HIDE DEF toRead
  <2>6. Stream!ReadTo(Stream!Oldest(captured - Avail)) = From + toRead
    BY <2>3, <2>4
  <2>. HIDE DEF From
  <2>7. (captured - Avail)' = From + toRead
    BY <2>5
  <2>8. Stream!Read
    <3>. DEFINE to == From + toRead
    <3>1. to - From = toRead /\ (captured - Avail)' = to /\ captured' = captured
      BY <2>1, <2>5, <2>7
    <3>2. window' = IF to - From < FFTSize THEN window
                    ELSE [i \in 1 .. FFTSize |-> to - FFTSize + i]
      BY <2>1, <3>1
    <3>. HIDE DEF to
    <3>3. Stream!ReadTo(From) = to
      BY <2>3, <2>6 DEF to
    <3>. QED
      BY <2>3, <3>1, <3>2, <3>3 DEF Stream!Read
  <2>. QED
    BY <2>8
<1>3. CASE UNCHANGED captureVars
  BY <1>3 DEF captureVars, Stream!streamVars, Avail
<1>. QED
  BY <1>1, <1>2, <1>3 DEF CaptureNext

\* The ring, whose positions wrap, implements the stream, whose positions do not
\* (capture_darwin.m:49): no sample is analysed twice, out of order or next to one it
\* did not follow, for every size of the ring and the buffers, and however far the
\* loop falls behind.
THEOREM CaptureImplementsStream == CaptureSpec => ImplementsStream
<1>1. CaptureInit => Stream!StreamInit
  <2>. SUFFICES ASSUME CaptureInit PROVE Stream!StreamInit
    OBVIOUS
  <2>1. captured = 0 /\ window = <<>> /\ wpos - rpos = 0
    BY DEF CaptureInit
  <2>2. Avail = 0
    BY <2>1, CaptureSizes, Small DEF Avail, Wrapped
  <2>. QED
    BY <2>1, <2>2 DEF Stream!StreamInit
<1>. QED
  BY <1>1, CaptureAlways, StepRefines, PTL DEF CaptureSpec, ImplementsStream, Stream!StreamSpec

-----------------------------------------------------------------------------
(* The types of the ring.                                                  *)

LEMMA PlaceBehind ==
  ASSUME CaptureInv, NEW k \in Int
  PROVE  (wpos - k) % RingSize = (captured - k) % RingSize
<1>1. captured \in Int /\ wpos \in Int /\ wpos = captured % Word
  BY Positions, CaptureSizes DEF CaptureInv
<1>2. (wpos - k) % RingSize = ((wpos % RingSize) - k) % RingSize
  <2>1. EarlyAt(wpos, k, RingSize)
    BY <1>1, CaptureSizes, Early
  <2>. QED
    BY <2>1 DEF EarlyAt
<1>3. (captured - k) % RingSize = ((captured % RingSize) - k) % RingSize
  <2>1. EarlyAt(captured, k, RingSize)
    BY <1>1, CaptureSizes, Early
  <2>. QED
    BY <2>1 DEF EarlyAt
<1>4. wpos % RingSize = captured % RingSize
  <2>1. TwiceAt(captured, RingSize, Word)
    BY <1>1, CaptureSizes, Twice
  <2>. QED
    BY <1>1, <2>1 DEF TwiceAt
<1>. QED
  BY <1>2, <1>3, <1>4

Bounded == captured <= MaxSamples

\* The positions stay within a word, and the ring holds the newest samples at the
\* places that the write position implies (capture_darwin.m:49), for every size of the
\* ring and every width of the positions that is a multiple of it.
THEOREM CaptureTypeCorrect == CaptureSpec => []CaptureTypeOK
<1>1. CaptureInit => Bounded
  BY CaptureAssumption DEF CaptureInit, CaptureAssumption, Bounded
<1>2. Bounded /\ [CaptureNext]_captureVars => Bounded'
  BY DEF CaptureNext, SpectrumTick, Deliver, captureVars, Bounded
<1>3. CaptureInv /\ Bounded => CaptureTypeOK
  <2>. SUFFICES ASSUME CaptureInv, Bounded PROVE CaptureTypeOK
    OBVIOUS
  <2>1. captured \in 0 .. MaxSamples
    BY CaptureAssumption DEF CaptureInv, CaptureAssumption, Bounded
  <2>2. ASSUME NEW i \in 0 .. RingSize - 1, i < captured
        PROVE  ring[(wpos - 1 - i) % RingSize] = captured - i
    <3>. DEFINE s == captured - i
                k == i + 1
    <3>1. s \in 1 .. captured /\ s > captured - RingSize /\ captured \in Int /\ wpos \in Int
      BY <2>2, Positions, CaptureSizes DEF CaptureInv
    <3>2. ring[(s - 1) % RingSize] = s
      BY <3>1 DEF CaptureInv, Newest
    <3>3. k \in Int /\ s - 1 = captured - k /\ wpos - 1 - i = wpos - k
      BY <2>2, <3>1, CaptureSizes
    <3>. HIDE DEF s, k
    <3>4. (wpos - k) % RingSize = (captured - k) % RingSize
      BY <3>3, PlaceBehind
    <3>5. ring[(wpos - 1 - i) % RingSize] = s
      BY <3>2, <3>3, <3>4
    <3>. QED
      BY <3>5 DEF s
  <2>. QED
    BY <2>1, <2>2, Positions DEF CaptureTypeOK
<1>. QED
  BY <1>1, <1>2, <1>3, CaptureAlways, PTL DEF CaptureSpec

-----------------------------------------------------------------------------
(* Induction.  The numbers up to m that a set holds, if it holds 0 and not *)
(* m, could be put one-to-one into those of them that are not 0.           *)

LEMMA NatInSteps ==
  ASSUME NEW S, 0 \in S, \A n \in Nat : n \in S => n + 1 \in S
  PROVE  Nat \subseteq S
<1>. SUFFICES ASSUME NEW m \in Nat, m \notin S PROVE FALSE
  OBVIOUS
<1>. DEFINE B == {n \in 0 .. m : n \in S}
            C == B \ {0}
            next == [n \in B |-> n + 1]
<1>1. IsFiniteSet(0 .. m)
  BY FS_Interval
<1>2. IsFiniteSet(B)
  <2>1. B \in SUBSET (0 .. m)
    OBVIOUS
  <2>. QED
    BY <1>1, <2>1, FS_Subset
<1>3. 0 \in B
  OBVIOUS
<1>4. next \in [B -> C] /\ \A x, y \in B : next[x] = next[y] => x = y
  OBVIOUS
<1>. HIDE DEF B, next
<1>5. IsFiniteSet(C) /\ Cardinality(C) = Cardinality(B) - 1
  BY <1>2, <1>3, FS_RemoveElement
<1>6. Cardinality(B) \in Nat
  BY <1>2, FS_CardinalityType
<1>. HIDE DEF C
<1>. QED
  BY <1>2, <1>4, <1>5, <1>6, FS_PigeonHole

\* The least of some natural numbers.
LEMMA LeastNumber ==
  ASSUME NEW T \in SUBSET Nat, NEW m \in T
  PROVE  \E k \in T : \A n \in T : k <= n
<1>. SUFFICES ASSUME \A k \in T : \E n \in T : n < k PROVE FALSE
  OBVIOUS
<1>. DEFINE S == {n \in Nat : \A k \in T : n <= k}
<1>1. 0 \in S
  OBVIOUS
<1>2. ASSUME NEW n \in Nat, n \in S PROVE n + 1 \in S
  BY <1>2
<1>. HIDE DEF S
<1>3. m + 1 \in S
  BY <1>1, <1>2, NatInSteps
<1>. USE DEF S
<1>. QED
  BY <1>3

-----------------------------------------------------------------------------
(* The bands of the analysis, for every half of a window's size and every  *)
(* number of bands: what the loop makes of any boundaries that end with    *)
(* the last bin is a partition.                                            *)

\* A band's end is its boundary, but neither before its beginning nor behind the last bin.
LEMMA Clamp ==
  ASSUME NEW prevBin \in Nat, NEW top \in Nat, NEW half \in Nat
  PROVE  /\ NextBand(prevBin, top, half).lo = prevBin
         /\ NextBand(prevBin, top, half).hi =
              IF prevBin >= half \/ top >= half THEN half
              ELSE IF top >= prevBin THEN top ELSE prevBin
<1>1. \A a, b \in Nat : Max({a, b}) = IF a >= b THEN a ELSE b
  BY DEF Max
<1>2. \A a, b \in Nat : Min({a, b}) = IF a <= b THEN a ELSE b
  BY DEF Min
<1>3. Max({top, prevBin}) = IF top >= prevBin THEN top ELSE prevBin
  BY <1>1
<1>4. Min({Max({top, prevBin}), half}) = IF prevBin >= half \/ top >= half THEN half
              ELSE IF top >= prevBin THEN top ELSE prevBin
  BY <1>2, <1>3
<1>. QED
  BY <1>4 DEF NextBand

BandRecs == [lo : Nat, hi : Nat]

LEMMA BandType ==
  ASSUME NEW prevBin \in Nat, NEW top \in Nat, NEW half \in Nat
  PROVE  NextBand(prevBin, top, half) \in BandRecs
<1>. DEFINE band == NextBand(prevBin, top, half)
<1>1. band.lo \in Nat /\ band.hi \in Nat
  BY Clamp
<1>2. band = [lo |-> band.lo, hi |-> band.hi]
  BY DEF NextBand
<1>. HIDE DEF band
<1>. QED
  BY <1>1, <1>2 DEF BandRecs, band

\* The bands up to n follow each other as the loop makes them.
Chained(tops, half, r, n) ==
  r = [b \in 1 .. n |-> NextBand(IF b = 1 THEN 1 ELSE r[b - 1].hi + 1, tops[b], half)]

\* There are such bands, one more for each turn of the loop, and only these.
LEMMA RangesExist ==
  ASSUME NEW half \in Nat, NEW bands \in Nat, NEW tops \in [1 .. bands -> Nat]
  PROVE  \E r \in [1 .. bands -> BandRecs] : Chained(tops, half, r, bands)
<1>. DEFINE P(n) == \E r \in [1 .. n -> BandRecs] : Chained(tops, half, r, n)
            S == {n \in Nat : n <= bands => P(n)}
<1>1. 0 \in S
  <2>. DEFINE r == [b \in 1 .. 0 |-> [lo |-> 0, hi |-> 0]]
  <2>1. r \in [1 .. 0 -> BandRecs] /\ Chained(tops, half, r, 0)
    BY DEF Chained
  <2>. QED
    BY <2>1
<1>2. ASSUME NEW n \in Nat, n \in S PROVE n + 1 \in S
  <2>. SUFFICES ASSUME n + 1 <= bands PROVE P(n + 1)
    OBVIOUS
  <2>1. PICK r \in [1 .. n -> BandRecs] : Chained(tops, half, r, n)
    BY <1>2
  <2>. DEFINE prev == IF n = 0 THEN 1 ELSE r[n].hi + 1
              band == NextBand(prev, tops[n + 1], half)
              q == [b \in 1 .. n + 1 |-> IF b <= n THEN r[b] ELSE band]
  <2>2. prev \in Nat /\ tops[n + 1] \in Nat
    BY DEF BandRecs
  <2>3. band \in BandRecs
    BY <2>2, BandType
  <2>4. q \in [1 .. n + 1 -> BandRecs]
    BY <2>3
  <2>5. ASSUME NEW b \in 1 .. n + 1
        PROVE  q[b] = NextBand(IF b = 1 THEN 1 ELSE q[b - 1].hi + 1, tops[b], half)
    <3>1. CASE b <= n
      <4>1. q[b] = r[b] /\ (b # 1 => q[b - 1] = r[b - 1])
        BY <3>1
      <4>2. r[b] = NextBand(IF b = 1 THEN 1 ELSE r[b - 1].hi + 1, tops[b], half)
        BY <2>1, <3>1 DEF Chained
      <4>. QED
        BY <4>1, <4>2
    <3>2. CASE b = n + 1
      <4>1. q[b] = band /\ (b # 1 => q[b - 1] = r[n]) /\ (b = 1 <=> n = 0)
        BY <3>2
      <4>. QED
        BY <3>2, <4>1
    <3>. QED
      BY <3>1, <3>2
  <2>6. q = [b \in 1 .. n + 1 |-> NextBand(IF b = 1 THEN 1 ELSE q[b - 1].hi + 1, tops[b], half)]
    BY <2>5
  <2>. QED
    BY <2>4, <2>6 DEF Chained
<1>. HIDE DEF S
<1>3. bands \in S
  BY <1>1, <1>2, NatInSteps
<1>4. bands <= bands
  OBVIOUS
<1>5. P(bands)
  <2>. HIDE DEF P
  <2>. QED
    BY <1>3, <1>4 DEF S
<1>. QED
  BY <1>5

LEMMA RangesAre ==
  ASSUME NEW half \in Nat, NEW bands \in Nat, NEW tops \in [1 .. bands -> Nat]
  PROVE  /\ BinRanges(tops, half) \in [1 .. bands -> BandRecs]
         /\ Chained(tops, half, BinRanges(tops, half), bands)
<1>1. PICK r \in [1 .. bands -> BandRecs] : Chained(tops, half, r, bands)
  BY RangesExist
<1>2. DOMAIN tops = 1 .. bands
  OBVIOUS
<1>3. Chained(tops, half, BinRanges(tops, half), bands)
  <2>1. BinRanges(tops, half) = CHOOSE s : Chained(tops, half, s, bands)
    BY <1>2, Zenon DEF BinRanges, Chained
  <2>. QED
    BY <1>1, <2>1, Zenon
<1>4. ASSUME NEW q, Chained(tops, half, q, bands), NEW s, Chained(tops, half, s, bands) PROVE q = s
  <2>. DEFINE S == {n \in Nat : n \in 1 .. bands => q[n] = s[n]}
  <2>1. 0 \in S
    OBVIOUS
  <2>2. ASSUME NEW n \in Nat, n \in S PROVE n + 1 \in S
    <3>. SUFFICES ASSUME n + 1 \in 1 .. bands PROVE q[n + 1] = s[n + 1]
      OBVIOUS
    <3>1. n + 1 # 1 => q[n + 1 - 1] = s[n + 1 - 1]
      BY <2>2
    <3>2. /\ q[n + 1] = NextBand(IF n + 1 = 1 THEN 1 ELSE q[n + 1 - 1].hi + 1, tops[n + 1], half)
          /\ s[n + 1] = NextBand(IF n + 1 = 1 THEN 1 ELSE s[n + 1 - 1].hi + 1, tops[n + 1], half)
      BY <1>4 DEF Chained
    <3>. QED
      BY <3>1, <3>2
  <2>. HIDE DEF S
  <2>3. Nat \subseteq S
    BY <2>1, <2>2, NatInSteps
  <2>. USE DEF S
  <2>4. \A n \in 1 .. bands : q[n] = s[n]
    BY <2>3
  <2>. QED
    BY <1>4, <2>4 DEF Chained
<1>. QED
  BY <1>1, <1>3, <1>4

Partition(ranges, bands, half) ==
  \A bin \in 1 .. half :
    \E b \in 1 .. bands : \A c \in 1 .. bands :
      (ranges[c].lo <= bin /\ bin <= ranges[c].hi) = (c = b)

\* A bin is in the first band that ends at it or later: the one before ends below it, and
\* those behind begin above it.
LEMMA ChainPartitions ==
  ASSUME NEW half \in Nat, NEW bands \in Nat \ {0}, NEW tops \in [1 .. bands -> Nat],
         tops[bands] = half,
         NEW r \in [1 .. bands -> BandRecs], Chained(tops, half, r, bands)
  PROVE  Partition(r, bands, half)
<1>1. ASSUME NEW b \in 1 .. bands
      PROVE  /\ r[b].lo \in Nat /\ r[b].hi \in Nat /\ tops[b] \in Nat
             /\ r[b].lo = IF b = 1 THEN 1 ELSE r[b - 1].hi + 1
             /\ r[b].hi <= half
             /\ r[b].lo <= half => r[b].lo <= r[b].hi
             /\ tops[b] = half => r[b].hi = half
             /\ r[b].lo > half => r[b].hi = half
  <2>. DEFINE prev == IF b = 1 THEN 1 ELSE r[b - 1].hi + 1
  <2>1. r[b] = NextBand(prev, tops[b], half)
    BY DEF Chained
  <2>2. prev \in Nat /\ tops[b] \in Nat
    BY DEF BandRecs
  <2>3. r[b].lo \in Nat /\ r[b].hi \in Nat
    BY DEF BandRecs
  <2>. HIDE DEF prev
  <2>4. /\ r[b].lo = prev
        /\ r[b].hi = IF prev >= half \/ tops[b] >= half THEN half
                     ELSE IF tops[b] >= prev THEN tops[b] ELSE prev
    <3>1. /\ NextBand(prev, tops[b], half).lo = prev
          /\ NextBand(prev, tops[b], half).hi = IF prev >= half \/ tops[b] >= half THEN half
                     ELSE IF tops[b] >= prev THEN tops[b] ELSE prev
      BY <2>2, Clamp
    <3>. QED
      BY <2>1, <3>1
  <2>5. r[b].lo = IF b = 1 THEN 1 ELSE r[b - 1].hi + 1
    BY <2>4 DEF prev
  <2>. QED
    BY <2>2, <2>3, <2>4, <2>5
<1>2. ASSUME NEW b \in 1 .. bands, b > 1 PROVE r[b - 1].hi <= r[b].hi /\ r[b].lo = r[b - 1].hi + 1
  <2>1. r[b - 1].hi \in Nat /\ r[b - 1].hi <= half
    <3>1. b - 1 \in 1 .. bands
      BY <1>2
    <3>. QED
      BY <1>1, <3>1
  <2>2. /\ r[b].lo \in Nat /\ r[b].hi \in Nat /\ r[b].lo = r[b - 1].hi + 1
        /\ r[b].lo <= half => r[b].lo <= r[b].hi
        /\ r[b].lo > half => r[b].hi = half
    BY <1>1, <1>2
  <2>. QED
    BY <2>1, <2>2
<1>3. ASSUME NEW bin \in 1 .. half
      PROVE  \E b \in 1 .. bands : \A c \in 1 .. bands :
               (r[c].lo <= bin /\ bin <= r[c].hi) = (c = b)
  <2>. DEFINE T == {b \in 1 .. bands : bin <= r[b].hi}
  <2>1. bands \in T
    BY <1>1
  <2>2. PICK b \in T : \A n \in T : b <= n
    <3>1. T \in SUBSET Nat
      OBVIOUS
    <3>. HIDE DEF T
    <3>. QED
      BY <2>1, <3>1, LeastNumber
  <2>3. r[b].lo <= bin
    <3>1. CASE b = 1
      BY <1>1, <3>1
    <3>2. CASE b # 1
      <4>1. b - 1 \in 1 .. bands /\ b - 1 \notin T
        BY <2>2, <3>2
      <4>2. r[b - 1].hi \in Nat /\ r[b - 1].hi < bin
        BY <1>1, <4>1
      <4>3. r[b].lo = r[b - 1].hi + 1
        BY <1>2, <3>2
      <4>. QED
        BY <4>2, <4>3
    <3>. QED
      BY <3>1, <3>2
  <2>4. ASSUME NEW c \in 1 .. bands, c < b PROVE ~(bin <= r[c].hi)
    BY <2>2, <2>4
  <2>5. ASSUME NEW c \in 1 .. bands, c > b PROVE ~(r[c].lo <= bin)
    <3>. DEFINE U == {n \in 1 .. bands : n > b /\ r[n].lo <= bin}
    <3>. SUFFICES ASSUME U # {} PROVE FALSE
      BY <2>5
    <3>1. PICK d \in U : \A n \in U : d <= n
      <4>1. U \in SUBSET Nat
        OBVIOUS
      <4>. HIDE DEF U
      <4>. QED
        BY <4>1, LeastNumber
    <3>2. /\ d \in 1 .. bands /\ d > b /\ r[d].lo <= bin
          /\ d - 1 \in 1 .. bands /\ d - 1 \notin U
      BY <3>1
    <3>. DEFINE e == d - 1
    <3>3. /\ r[e].hi \in Nat /\ r[e].lo \in Nat
          /\ r[e].lo <= half => r[e].lo <= r[e].hi
          /\ r[e].lo > half => r[e].hi = half
      BY <1>1, <3>2
    <3>6. d > 1 /\ r[d].lo = r[e].hi + 1
      BY <1>2, <3>2
    <3>7. r[e].hi < bin
      BY <3>2, <3>3, <3>6
    <3>4. d - 1 # b
      BY <2>2, <3>3, <3>7
    <3>5. r[e].lo > bin
      BY <3>2, <3>3, <3>4
    <3>. QED
      BY <3>3, <3>5, <3>7
  <2>6. b \in 1 .. bands /\ \A c \in 1 .. bands : c = b \/ c < b \/ c > b
    OBVIOUS
  <2>. HIDE DEF T
  <2>. QED
    BY <2>2, <2>3, <2>4, <2>5, <2>6 DEF T
<1>. QED
  BY <1>3 DEF Partition

LEMMA HalfIsNat == ASSUME NEW n \in Nat PROVE n \div 2 \in Nat
OBVIOUS

\* Every bin but the first is in exactly one band (fft.go:98), for every number of bands,
\* every size of the transform, the daemon's 1024 included (cmd/nowplayingd/main.go:72),
\* and whatever the powers are rounded to.
THEOREM BinsPartitioned == FourierSpec => []BandsPartition
<1>. DEFINE Inv == BandsPartition
<1>1. FourierInit => Inv
  BY DEF FourierInit, BandsPartition, Half
<1>2. Inv /\ [FourierNext]_fourierVars => Inv'
  <2>. SUFFICES ASSUME Inv, [FourierNext]_fourierVars PROVE Inv'
    OBVIOUS
  <2>1. CASE NewAnalyzer
    <3>. DEFINE half == fftSize' \div 2
    <3>1. half \in Nat /\ numBands' \in Nat \ {0} /\ Half' = half
      <4>1. fftSize' \in Nat /\ numBands' \in 1 .. MaxBands /\ MaxBands \in Nat
        BY <2>1, FourierAssumption DEF NewAnalyzer, FourierAssumption
      <4>2. half \in Nat
        BY <4>1, HalfIsNat
      <4>3. Half' = half
        BY DEF Half
      <4>. HIDE DEF half
      <4>. QED
        BY <4>1, <4>2, <4>3
    <3>. HIDE DEF half
    <3>2. PICK tops \in [1 .. numBands' -> 0 .. half] :
            /\ \A b \in 1 .. numBands' : tops[b] \in Tops(b, half, numBands')
            /\ binRanges' = BinRanges(tops, half)
      BY <2>1 DEF NewAnalyzer, half
    <3>3. tops[numBands'] = half
      <4>1. Tops(numBands', half, numBands') = {half}
        BY DEF Tops
      <4>2. numBands' \in 1 .. numBands'
        BY <3>1
      <4>. QED
        BY <3>2, <4>1, <4>2
    <3>4. tops \in [1 .. numBands' -> Nat]
      BY <3>1, <3>2
    <3>5. /\ binRanges' \in [1 .. numBands' -> BandRecs]
          /\ Chained(tops, half, binRanges', numBands')
      BY <3>1, <3>2, <3>4, RangesAre
    <3>6. Partition(binRanges', numBands', half)
      BY <3>1, <3>3, <3>4, <3>5, ChainPartitions
    <3>. QED
      BY <3>1, <3>6 DEF Partition, BandsPartition
  <2>2. CASE UNCHANGED <<fftSize, numBands, binRanges>>
    BY <2>2 DEF BandsPartition, Half
  <2>. QED
    BY <2>1, <2>2 DEF FourierNext, Process, fourierVars
<1>. QED
  BY <1>1, <1>2, PTL DEF FourierSpec

-----------------------------------------------------------------------------
(* The services together.                                                  *)

LEMMA PartsInit ==
  ServicesInit => SpotifyInit /\ SpawnInit /\ WireInit /\ CaptureInit /\ FourierInit
BY DEF ServicesInit

LEMMA PartsStep ==
  [ServicesNext]_servicesVars =>
    /\ [SpotifyNext]_spotifyVars /\ [SpawnNext]_spawnVars
    /\ [WireNext]_wireVars /\ [CaptureNext]_captureVars /\ [FourierNext]_fourierVars
BY DEF ServicesNext, servicesVars

\* A behaviour of the services is one of each part.
LEMMA PartsBehave ==
  ServicesSpec => SpotifySpec /\ SpawnSpec /\ WireSpec /\ CaptureSpec /\ FourierSpec
BY PartsInit, PartsStep, PTL
   DEF ServicesSpec, SpotifySpec, SpawnSpec, WireSpec, CaptureSpec, FourierSpec

\* The types of all services, and what their comments say of them, at every moment of
\* the behaviours of which the run of MCServices explores a small instance, for every
\* value of their constants.
THEOREM ServicesTypeCorrect == ServicesSpec => []ServicesTypeOK
BY PartsBehave, SpotifyTypeCorrect, SpawnTypeCorrect, WireTypeCorrect, CaptureTypeCorrect, PTL
   DEF ServicesTypeOK
=============================================================================
