---------------------------- MODULE LwipepUplinkProofs ----------------------------
(***************************************************************************)
(* Proofs about the receiver behind the two paths of the uplink, for every *)
(* size of the window and any number of packets.                           *)
(*                                                                         *)
(* Orderly is the invariant of InOrderUntilExcused: as long as nothing is  *)
(* given up, the receiver's state is a function of what arrived.  Copies   *)
(* and Kept, with Holding, are those of NoExtraCopies and NothingLost, and *)
(* rest on what a loop hands over and what it erases (HandsOver).          *)
(***************************************************************************)
EXTENDS LwipepUplink, LwipepRxProofs, FiniteSetTheorems

-----------------------------------------------------------------------------
(* The ring: absolute numbers and the numbers of the receiver              *)

LEMMA Halves == /\ BUFFER_SIZE \in Nat /\ BUFFER_SIZE >= 4 /\ WINDOWS_SIZE \in Nat
                /\ BUFFER_SIZE = 2 * WINDOWS_SIZE /\ WINDOWS_SIZE >= 2
BY BufferAssumption DEF WINDOWS_SIZE

\* A number less than half a turn from t has its place in the window around t.
LEMMA BaseOf ==
    ASSUME NEW x \in Int, NEW t \in Int, t - x <= WINDOWS_SIZE, x - t < WINDOWS_SIZE
    PROVE  RX_MOD_BASE(x % BUFFER_SIZE, t % BUFFER_SIZE) = x - t + WINDOWS_SIZE
<1> DEFINE w == WINDOWS_SIZE
           b == BUFFER_SIZE
           j == x \div b
           k == t \div b
           p == x % b
           q == t % b
<1>1. w \in Nat /\ b \in Nat /\ b > 0 /\ b = 2 * w
  BY Halves
<1> HIDE DEF w, b
<1>2. j \in Int /\ p \in 0 .. b - 1 /\ x = j * b + p
  BY <1>1, ModDef
<1>3. k \in Int /\ q \in 0 .. b - 1 /\ t = k * b + q
  BY <1>1, ModDef
<1> HIDE DEF j, k, p, q
<1>4. p - q - w = (k - j - 1) * b + (x - t + w)
  <2>1. (k - j - 1) * b = k * b - j * b - b /\ k * b \in Int /\ j * b \in Int
    BY <1>1, <1>2, <1>3
  <2> QED
    BY <1>1, <1>2, <1>3, <2>1
<1>5. x - t + w \in 0 .. b - 1 /\ p - q - w \in Int /\ k - j - 1 \in Int
  BY <1>1, <1>2, <1>3 DEF w
<1>6. (p - q - w) % b = x - t + w
  BY <1>1, <1>4, <1>5, ModUnique
<1> QED
  BY <1>6 DEF RX_MOD_BASE, p, q, w, b

\* Numbers less than a turn apart do not share a place.
LEMMA SameSlot ==
    ASSUME NEW x \in Int, NEW y \in Int, x % BUFFER_SIZE = y % BUFFER_SIZE,
           x - y < BUFFER_SIZE, y - x < BUFFER_SIZE
    PROVE  x = y
<1> DEFINE b == BUFFER_SIZE
           j == x \div b
           k == y \div b
           p == x % b
           q == y % b
<1>1. b \in Nat /\ b > 0 /\ x - y < b /\ y - x < b /\ x - y \in Int
  BY Halves
<1> HIDE DEF b
<1>2. j \in Int /\ p \in 0 .. b - 1 /\ x = j * b + p
  BY <1>1, ModDef
<1>3. k \in Int /\ q \in 0 .. b - 1 /\ y = k * b + q
  BY <1>1, ModDef
<1>4. p = q
  BY DEF b
<1> HIDE DEF j, k, p, q
<1>5. x - y = (j - k) * b
  BY <1>1, <1>2, <1>3, <1>4
<1>6. ASSUME j - k >= 1 PROVE FALSE
  <2>1. (j - k) * b >= b
    BY <1>1, <1>2, <1>3, <1>6
  <2> QED
    BY <1>1, <1>5, <2>1
<1>7. ASSUME k - j >= 1 PROVE FALSE
  <2>1. (k - j) * b >= b /\ (k - j) * b = y - x
    BY <1>1, <1>2, <1>3, <1>5, <1>7
  <2> QED
    BY <1>1, <2>1
<1>8. j = k
  BY <1>2, <1>3, <1>6, <1>7
<1> QED
  BY <1>2, <1>3, <1>4, <1>8

LEMMA ShiftOf ==
    ASSUME NEW x \in Int, NEW n \in Int
    PROVE  Shift(x % BUFFER_SIZE, n) = (x + n) % BUFFER_SIZE
BY SizePositive, ModAdd DEF Shift

-----------------------------------------------------------------------------
(* The history of the gateway                                              *)

\* The first n numbers are listed in one way.
LEMMA ListingOf ==
    ASSUME NEW n \in Nat, NEW steps \in Listings(0 .. n - 1)
    PROVE  steps = [i \in 1 .. n |-> i - 1]
<1>1. Cardinality(0 .. n - 1) = n
  BY FS_Interval
<1>2. /\ steps \in [1 .. n -> 0 .. n - 1]
      /\ \A x \in 0 .. n - 1 : \E i \in 1 .. n : steps[i] = x
      /\ \A i, j \in 1 .. n : i < j => steps[i] < steps[j]
  BY <1>1 DEF Listings, ToSet
<1> DEFINE Bad == {i \in 1 .. n : steps[i] # i - 1}
<1>3. Bad = {}
  <2> SUFFICES ASSUME Bad # {} PROVE FALSE
    OBVIOUS
  <2>1. Bad \subseteq Nat
    OBVIOUS
  <2>2. PICK i \in Bad : \A j \in Bad : i <= j
    <3> HIDE DEF Bad
    <3> QED
      BY <2>1, LeastOf
  <2>3. i \in 1 .. n /\ steps[i] # i - 1 /\ steps[i] \in 0 .. n - 1
    BY <1>2
  <2>4. \A j \in 1 .. i - 1 : steps[j] = j - 1
    BY <2>2, <2>3
  <2>5. steps[i] >= i - 1
    <3>1. CASE i = 1
      BY <2>3, <3>1
    <3>2. CASE i > 1
      <4>1. i - 1 \in 1 .. n /\ i - 1 \in 1 .. i - 1 /\ i - 1 < i
        BY <2>3, <3>2
      <4>2. steps[i - 1] < steps[i] /\ steps[i - 1] = (i - 1) - 1
        BY <1>2, <2>3, <2>4, <4>1
      <4> QED
        BY <2>3, <4>1, <4>2
    <3> QED
      BY <2>3, <3>1, <3>2
  <2>6. PICK j \in 1 .. n : steps[j] = i - 1
    <3>1. i - 1 \in 0 .. n - 1
      BY <2>3
    <3> QED
      BY <1>2, <3>1
  <2>7. ~(j \in 1 .. i - 1) /\ j # i
    BY <2>3, <2>4, <2>6
  <2>8. steps[i] < steps[j]
    BY <1>2, <2>3, <2>7
  <2> QED
    BY <2>3, <2>5, <2>6, <2>8
<1> QED
  BY <1>2, <1>3

-----------------------------------------------------------------------------
(* The receiver behind the network is the receiver of LwipepRx             *)

LEMMA ReceiverStep == ASSUME TypeOK, [UNext]_uvars PROVE [Next]_vars
<1>1. CASE Send
  BY <1>1, Zenon DEF Send
<1>2. ASSUME NEW seq \in SeqNum, Lose(seq) PROVE [Next]_vars
  BY <1>2, Zenon DEF Lose
<1>3. ASSUME NEW seq \in SeqNum, NEW last, Arrive(seq, last) PROVE [Next]_vars
  <2> DEFINE pdu == [seq |-> seq, copy |-> arrived[seq] + 1]
  <2>1. WritePdu(pdu, seq, Route(seq))
    BY <1>3, Zenon DEF Arrive
  <2>2. pdu \in Pdu
    <3>1. pdu \in free
      BY <2>1, Zenon DEF WritePdu, WritePduDelayed, WritePduDuplicate, WritePduWindow, Receives
    <3> QED
      BY <3>1, Zenon DEF TypeOK
  <2>3. Route(seq) \in NetIf
    BY DEF Route, NetIf
  <2> HIDE DEF pdu
  <2> QED
    BY <2>1, <2>2, <2>3, Zenon DEF Next, Receive
<1>4. CASE Tick
  BY <1>4, Zenon DEF Tick, Next, Timers
<1>5. CASE Expire
  BY <1>5, Zenon DEF Expire, Next, Timers
<1>6. CASE UNCHANGED uvars
  BY <1>6, Zenon DEF uvars
<1> QED
  BY <1>1, <1>2, <1>3, <1>4, <1>5, <1>6, Zenon DEF UNext

\* So its type invariant holds here.
LEMMA ReceiverType == USpec => []TypeOK
<1>1. UInit => TypeOK
  BY TypeInit DEF UInit
<1>2. TypeOK /\ [UNext]_uvars => TypeOK'
  BY ReceiverStep, TypeStep
<1> QED
  BY <1>1, <1>2, PTL DEF USpec

-----------------------------------------------------------------------------
(* The first missing packet and the highest that arrived                   *)

Missing(A) == Min((SeqNum \union {MaxSent}) \ A)
Highest(A) == Max(A \union {0})

LEMMA MissingIs ==
    ASSUME NEW A, A \subseteq SeqNum
    PROVE  /\ Missing(A) \in Nat /\ Missing(A) \notin A /\ \A x \in 0 .. Missing(A) - 1 : x \in A
           /\ Missing(A) <= MaxSent
<1> DEFINE T == (SeqNum \union {MaxSent}) \ A
<1>1. T \subseteq Nat /\ MaxSent \in T /\ SeqNum = 0 .. MaxSent - 1 /\ MaxSent \in Nat
  BY UplinkAssumption
<1>2. PICK least \in T : \A y \in T : least <= y
  <2> HIDE DEF T
  <2> QED
    BY <1>1, LeastOf
<1>3. Missing(A) \in T /\ \A y \in T : Missing(A) <= y
  <2> HIDE DEF T
  <2>1. Min(T) \in T /\ \A y \in T : Min(T) <= y
    BY <1>2, Zenon DEF Min
  <2> QED
    BY <2>1 DEF Missing, T
<1> DEFINE f == Missing(A)
<1>4. f \in T /\ \A y \in T : f <= y
  BY <1>3
<1> HIDE DEF f
<1>5. \A x \in 0 .. f - 1 : x \in A
  BY <1>1, <1>4
<1>6. f \in Nat /\ f \notin A /\ f <= MaxSent
  BY <1>1, <1>4
<1> QED
  BY <1>5, <1>6 DEF f

LEMMA MissingOnly ==
    ASSUME NEW A, A \subseteq SeqNum, NEW g \in Nat, g \notin A, \A x \in 0 .. g - 1 : x \in A
    PROVE  Missing(A) = g
<1> DEFINE f == Missing(A)
<1>1. f \in Nat /\ f \notin A /\ \A x \in 0 .. f - 1 : x \in A
  BY MissingIs
<1> HIDE DEF f
<1>2. ~(f < g) /\ ~(g < f)
  BY <1>1
<1> QED
  BY <1>1, <1>2 DEF f

LEMMA HighestIs ==
    ASSUME NEW A, A \subseteq SeqNum
    PROVE  Highest(A) \in Nat /\ Highest(A) \in A \union {0} /\ \A x \in A : x <= Highest(A)
<1> DEFINE T == A \union {0}
<1>1. T \subseteq 0 .. MaxSent /\ T # {} /\ MaxSent \in Nat
  BY UplinkAssumption
<1>2. PICK x \in T : \A y \in T : y <= x
  <2> HIDE DEF T
  <2> QED
    BY <1>1, GreatestOf
<1>3. Highest(A) \in T /\ \A y \in T : y <= Highest(A)
  <2> HIDE DEF T
  <2>1. \A y \in T : x >= y
    BY <1>1, <1>2
  <2>2. Max(T) \in T /\ \A y \in T : Max(T) >= y
    BY <1>2, <2>1, Zenon DEF Max
  <2>3. \A y \in T : y <= Max(T)
    BY <1>1, <2>2
  <2> QED
    BY <2>2, <2>3 DEF Highest, T
<1> QED
  BY <1>1, <1>3

LEMMA HighestOnly ==
    ASSUME NEW A, A \subseteq SeqNum, NEW g \in A \union {0}, \A x \in A : x <= g
    PROVE  Highest(A) = g
<1> DEFINE h == Highest(A)
<1>1. h \in Nat /\ h \in A \union {0} /\ \A x \in A : x <= h
  BY HighestIs
<1>2. g \in Nat
  BY UplinkAssumption
<1> HIDE DEF h
<1>3. h <= g /\ g <= h
  BY <1>1, <1>2
<1> QED
  BY <1>1, <1>2, <1>3 DEF h

-----------------------------------------------------------------------------
(* In order until excused                                                  *)

\* The numbers that arrived after a missing one.
Waiting == {seq \in Arrived : seq > FirstMissing}

\* While the receiver is not entitled to leave the order, its state is a function of
\* what arrived: next_sn is the first missing number, everything before is with the
\* gateway, what arrived later is in its slot, and all that is within the window.
Orderly == ~excused =>
    /\ ~expiring
    /\ next_sn = FirstMissing % BUFFER_SIZE
    /\ submitted_sn = IF FirstMissing = 0 THEN 0 ELSE (FirstMissing - 1) % BUFFER_SIZE
    /\ current_max_sn = Highest(Arrived) % BUFFER_SIZE
    /\ Highest(Arrived) - FirstMissing <= WINDOWS_SIZE - 2
    /\ DOMAIN rx_window = {seq % BUFFER_SIZE : seq \in Waiting}
    /\ \A seq \in Waiting : rx_window[seq % BUFFER_SIZE].seq = seq
    /\ delivered = [i \in 1 .. FirstMissing |-> i - 1]

LEMMA OrderlyInit == UInit => Orderly
<1> SUFFICES ASSUME UInit PROVE Orderly
  OBVIOUS
<1>1. Arrived = {}
  BY DEF UInit, Arrived
<1>2. FirstMissing = 0
  <2>1. Missing({}) = 0
    BY MissingOnly
  <2> QED
    BY <1>1, <2>1, Zenon DEF Missing, FirstMissing
<1>3. Highest(Arrived) = 0
  <2>1. Highest({}) = 0
    BY HighestOnly
  <2> QED
    BY <1>1, <2>1
<1>4. 0 % BUFFER_SIZE = 0
  <2>1. 0 \in 0 .. BUFFER_SIZE - 1
    BY SizePositive
  <2> QED
    BY <2>1, SizePositive, ModSmall
<1>5. Waiting = {}
  BY <1>1 DEF Waiting
<1>6. /\ ~expiring /\ next_sn = 0 /\ submitted_sn = 0 /\ current_max_sn = 0
      /\ rx_window = <<>> /\ delivered = <<>>
  BY DEF UInit, Init
<1>7. DOMAIN rx_window = {}
  BY <1>6
<1>8. delivered = [i \in 1 .. 0 |-> i - 1]
  BY <1>6
<1>9. 0 - 0 <= WINDOWS_SIZE - 2
  BY Halves
<1> QED
  BY <1>2, <1>3, <1>4, <1>5, <1>6, <1>7, <1>8, <1>9 DEF Orderly

\* Where the two landmarks of the receiver are.
LEMMA Landmarks ==
    /\ Arrived \subseteq SeqNum /\ FirstMissing = Missing(Arrived)
    /\ FirstMissing \in Nat /\ FirstMissing \notin Arrived
    /\ \A x \in 0 .. FirstMissing - 1 : x \in Arrived
    /\ Highest(Arrived) \in Nat /\ Highest(Arrived) \in Arrived \union {0}
    /\ \A x \in Arrived : x \in Nat /\ x <= Highest(Arrived)
    /\ FirstMissing <= Highest(Arrived) + 1
<1>1. Arrived \subseteq SeqNum
  BY DEF Arrived
<1>2. FirstMissing = Missing(Arrived)
  BY Zenon DEF FirstMissing, Missing
<1> DEFINE f == FirstMissing
           h == Highest(Arrived)
<1>3. f \in Nat /\ f \notin Arrived /\ \A x \in 0 .. f - 1 : x \in Arrived
  BY <1>1, <1>2, MissingIs
<1>4. h \in Nat /\ h \in Arrived \union {0} /\ \A x \in Arrived : x <= h
  BY <1>1, HighestIs
<1>5. \A x \in Arrived : x \in Nat
  BY <1>1, UplinkAssumption
<1> HIDE DEF f, h
<1>6. f <= h + 1
  <2>1. CASE f = 0
    BY <1>4, <2>1
  <2>2. CASE f # 0
    <3>1. f - 1 \in 0 .. f - 1
      BY <1>3, <2>2
    <3>2. f - 1 <= h
      BY <1>3, <1>4, <3>1
    <3> QED
      BY <1>3, <1>4, <3>2
  <2> QED
    BY <2>1, <2>2
<1> QED
  BY <1>1, <1>2, <1>3, <1>4, <1>5, <1>6 DEF f, h

\* What arrives in time has a place of its own in the window.
LEMMA Place ==
    ASSUME Orderly, ~excused, NEW seq \in SeqNum, seq \notin Arrived,
           seq - FirstMissing < WINDOWS_SIZE - 1
    PROVE  /\ seq \in Nat /\ FirstMissing <= seq
           /\ ~delay_packet(seq % BUFFER_SIZE)
           /\ seq % BUFFER_SIZE \notin DOMAIN rx_window
           /\ over_current_max_sn(seq % BUFFER_SIZE) <=> seq > Highest(Arrived)
<1> DEFINE f == FirstMissing
           h == Highest(Arrived)
           w == WINDOWS_SIZE
           base(x) == RX_MOD_BASE(x % BUFFER_SIZE, h % BUFFER_SIZE)
<1>0. /\ f \in Nat /\ h \in Nat /\ f <= h + 1 /\ w \in Nat /\ w >= 2 /\ BUFFER_SIZE = 2 * w
      /\ (\A x \in 0 .. f - 1 : x \in Arrived) /\ (\A x \in Arrived : x \in Nat /\ x <= h)
      /\ seq \in Nat /\ seq - f < w - 1
  BY Landmarks, Halves, UplinkAssumption
<1>1. /\ submitted_sn = IF f = 0 THEN 0 ELSE (f - 1) % BUFFER_SIZE
      /\ current_max_sn = h % BUFFER_SIZE /\ h - f <= w - 2
      /\ DOMAIN rx_window = {x % BUFFER_SIZE : x \in Waiting}
  BY DEF Orderly
<1> HIDE DEF f, h, w
<1>2. f <= seq
  <2>1. ~(seq \in 0 .. f - 1)
    BY <1>0
  <2> QED
    BY <1>0, <2>1
<1>3. base(seq) = seq - h + w /\ base(h) = w
  <2>1. /\ h - seq <= w /\ seq - h < w /\ h - h <= w /\ h - h < w /\ h - h + w = w
        /\ seq \in Int /\ h \in Int
    BY <1>0, <1>1, <1>2
  <2>2. base(seq) = seq - h + w
    BY <2>1, BaseOf, Zenon DEF w
  <2>3. base(h) = h - h + w
    BY <2>1, BaseOf, Zenon DEF w
  <2> QED
    BY <2>1, <2>2, <2>3
<1>4. ~delay_packet(seq % BUFFER_SIZE)
  <2> DEFINE u == IF f = 0 THEN 0 ELSE f - 1
  <2>1. u \in Nat /\ u \in Int /\ h \in Int /\ u <= seq /\ h - u <= w /\ u - h < w
    BY <1>0, <1>1, <1>2
  <2>2. base(u) = u - h + w
    <3> HIDE DEF u
    <3> QED
      BY <2>1, BaseOf, Zenon DEF w
  <2>3. submitted_sn = u % BUFFER_SIZE
    <3>1. 0 % BUFFER_SIZE = 0
      BY <1>0, ModSmall, SizePositive
    <3> QED
      BY <1>1, <3>1
  <2>4. ~(base(seq) < base(u))
    BY <1>0, <1>3, <2>1, <2>2
  <2> QED
    BY <1>1, <2>3, <2>4, Zenon DEF delay_packet
<1>5. seq % BUFFER_SIZE \notin DOMAIN rx_window
  <2> SUFFICES ASSUME NEW x \in Waiting, x % BUFFER_SIZE = seq % BUFFER_SIZE PROVE FALSE
    BY <1>1
  <2>1. x \in Arrived /\ x > f
    BY DEF Waiting, f
  <2>2. x \in Int /\ x <= h
    BY <1>0, <2>1
  <2>3. x - seq < BUFFER_SIZE /\ seq - x < BUFFER_SIZE
    BY <1>0, <1>1, <1>2, <2>1, <2>2
  <2> QED
    BY <1>0, <2>1, <2>2, <2>3, SameSlot
<1>6. over_current_max_sn(seq % BUFFER_SIZE) <=> seq > h
  <2>1. base(seq) > base(h) <=> seq > h
    BY <1>0, <1>3
  <2> QED
    BY <1>1, <2>1, Zenon DEF over_current_max_sn
<1> QED
  BY <1>0, <1>2, <1>4, <1>5, <1>6 DEF f, h

\* Iteration m of the loop finds a PDU if number f + m has arrived.
LEMMA PresentIs ==
    ASSUME NEW f \in Nat, next_sn = f % BUFFER_SIZE, NEW A, A \subseteq Nat,
           NEW win, DOMAIN win = {x % BUFFER_SIZE : x \in {y \in A : y >= f}},
           \A x \in A : x - f < BUFFER_SIZE, NEW m \in Nat
    PROVE  /\ Shift(next_sn, m) = (f + m) % BUFFER_SIZE
           /\ Present(win, m) <=> f + m \in A
<1>1. Shift(next_sn, m) = (f + m) % BUFFER_SIZE
  <2>1. f \in Int /\ m \in Int
    OBVIOUS
  <2> QED
    BY <2>1, ShiftOf, Zenon
<1>2. ASSUME f + m \in A PROVE Present(win, m)
  <2>1. f + m >= f /\ m < BUFFER_SIZE
    <3>1. (f + m) - f < BUFFER_SIZE
      BY <1>2
    <3> QED
      BY <3>1, Halves
  <2>2. (f + m) % BUFFER_SIZE \in DOMAIN win
    BY <1>2, <2>1, Zenon
  <2> QED
    BY <1>1, <2>1, <2>2, Zenon DEF Present
<1>3. ASSUME Present(win, m) PROVE f + m \in A
  <2>1. m < BUFFER_SIZE /\ (f + m) % BUFFER_SIZE \in DOMAIN win
    BY <1>1, <1>3, Zenon DEF Present
  <2>2. PICK x \in A : x >= f /\ x % BUFFER_SIZE = (f + m) % BUFFER_SIZE
    BY <2>1, Zenon
  <2>3. /\ x \in Int /\ f + m \in Int /\ x - (f + m) < BUFFER_SIZE
        /\ (f + m) - x < BUFFER_SIZE
    <3>1. x \in Nat /\ x - f < BUFFER_SIZE
      OBVIOUS
    <3> QED
      BY <2>1, <2>2, <3>1, Halves
  <2>4. x = f + m
    BY <2>2, <2>3, SameSlot, Zenon
  <2> QED
    BY <2>4
<1> QED
  BY <1>1, <1>2, <1>3

\* Within the window there is nothing to flush.
LEMMA NoFlush ==
    ASSUME NEW f \in Nat, NEW h \in Nat, next_sn = f % BUFFER_SIZE, f <= h,
           h - f <= WINDOWS_SIZE - 2
    PROVE  FlushSteps(h % BUFFER_SIZE) = 0
<1> DEFINE base(x) == RX_MOD_BASE(x % BUFFER_SIZE, h % BUFFER_SIZE)
<1>1. /\ f \in Int /\ h \in Int /\ h - f <= WINDOWS_SIZE /\ f - h < WINDOWS_SIZE
      /\ h - h <= WINDOWS_SIZE /\ h - h < WINDOWS_SIZE
      /\ f - h + WINDOWS_SIZE <= h - h + WINDOWS_SIZE
      /\ f - h + WINDOWS_SIZE >= f - h + WINDOWS_SIZE
  BY Halves
<1>2. base(f) = f - h + WINDOWS_SIZE
  BY <1>1, BaseOf, Zenon
<1>3. base(h) = h - h + WINDOWS_SIZE
  BY <1>1, BaseOf, Zenon
<1>4. inside_reordering_window(next_sn, h % BUFFER_SIZE, next_sn)
  BY <1>1, <1>2, <1>3, Zenon DEF inside_reordering_window
<1> QED
  BY <1>4, Zenon DEF FlushSteps

\* The window win holds the numbers of A from the first missing one, f, on; none
\* is after h and all are in time; n iterations are made.
InWindow(f, h, A, win, n) ==
    /\ f \in Nat /\ h \in Nat /\ f <= h /\ h - f <= WINDOWS_SIZE - 2
    /\ next_sn = f % BUFFER_SIZE /\ A \subseteq Nat
    /\ DOMAIN win = {x % BUFFER_SIZE : x \in {y \in A : y >= f}}
    /\ \A x \in A : x - f < BUFFER_SIZE
    /\ n \in 0 .. 2 * BUFFER_SIZE

\* The pass delivers the run of numbers from the first missing one on.
LEMMA PassRun ==
    ASSUME NEW f, NEW h, NEW A, NEW win, NEW n, InWindow(f, h, A, win, n),
           PassEnds(win, h % BUFFER_SIZE, n)
    PROVE  /\ f + n \notin A /\ \A m \in 0 .. n - 1 : f + m \in A
           /\ Deliveries(win, n) = 0 .. n - 1
<1>1. FlushSteps(h % BUFFER_SIZE) = 0
  BY NoFlush, Zenon DEF InWindow
<1>2. n \in Nat /\ n >= 0 /\ \A m \in 0 .. n - 1 : m \in Nat /\ m >= 0
  BY Halves DEF InWindow
<1>3. ~Present(win, n) /\ \A m \in 0 .. n - 1 : Present(win, m)
  BY <1>1, <1>2, Zenon DEF PassEnds, PassStops
<1>4. \A m \in Nat : Present(win, m) <=> f + m \in A
  BY PresentIs, Zenon DEF InWindow
<1> QED
  BY <1>2, <1>3, <1>4 DEF Deliveries

\* A packet in time is stored in its place; the pass hands the run of packets that
\* it completes to the gateway, and the first missing one is the next after it.
LEMMA OrderlyArrive ==
    ASSUME arrived \in [SeqNum -> Nat], Orderly, NEW seq \in SeqNum, NEW last, Arrive(seq, last)
    PROVE  Orderly'
<1> SUFFICES ASSUME ~excused' PROVE Orderly'
  BY DEF Orderly
<1> DEFINE f == FirstMissing
           h == Highest(Arrived)
           h2 == IF seq > h THEN seq ELSE h
           A2 == Arrived \union {seq}
           pdu == [seq |-> seq, copy |-> arrived[seq] + 1]
           sn == seq % BUFFER_SIZE
           win == [x \in DOMAIN rx_window \union {sn} |-> IF x = sn THEN pdu ELSE rx_window[x]]
           max == IF over_current_max_sn(sn) THEN sn ELSE current_max_sn
<1>1. /\ ~excused /\ seq \notin Arrived /\ seq - f < WINDOWS_SIZE - 1 /\ arrived[seq] = 0
      /\ WritePdu(pdu, seq, Route(seq)) /\ Log
  <2>1. /\ ~excused /\ ~(arrived[seq] > 0) /\ ~(seq - f >= WINDOWS_SIZE - 1)
        /\ WritePdu(pdu, seq, Route(seq)) /\ Log
    BY Zenon DEF Arrive
  <2>2. arrived[seq] \in Nat /\ seq - f \in Int /\ WINDOWS_SIZE - 1 \in Int
    BY Landmarks, Halves, UplinkAssumption
  <2>3. arrived[seq] = 0 /\ seq - f < WINDOWS_SIZE - 1 /\ seq \notin Arrived
    BY <2>1, <2>2 DEF Arrived
  <2> QED
    BY <2>1, <2>3
<1>2. Arrived' = A2
  BY <1>1 DEF Arrive, Arrived
<1>3. /\ next_sn = f % BUFFER_SIZE
      /\ submitted_sn = IF f = 0 THEN 0 ELSE (f - 1) % BUFFER_SIZE
      /\ current_max_sn = h % BUFFER_SIZE /\ h - f <= WINDOWS_SIZE - 2
      /\ DOMAIN rx_window = {x % BUFFER_SIZE : x \in Waiting}
      /\ \A x \in Waiting : rx_window[x % BUFFER_SIZE].seq = x
      /\ delivered = [i \in 1 .. f |-> i - 1] /\ ~expiring
  BY <1>1 DEF Orderly
<1>4. /\ seq \in Nat /\ f <= seq /\ ~delay_packet(sn) /\ sn \notin DOMAIN rx_window
      /\ over_current_max_sn(sn) <=> seq > h
  BY <1>1, Place
<1>5. /\ f \in Nat /\ h \in Nat /\ f \notin Arrived /\ A2 \subseteq SeqNum
      /\ \A x \in 0 .. f - 1 : x \in Arrived
      /\ \A x \in A2 : x \in Nat /\ x <= h2
      /\ f <= h2 /\ h2 - f <= WINDOWS_SIZE - 2 /\ h2 \in Nat /\ h2 \in A2 \union {0}
  <2>1. /\ f \in Nat /\ h \in Nat /\ f \notin Arrived /\ Arrived \subseteq SeqNum
        /\ \A x \in 0 .. f - 1 : x \in Arrived
        /\ \A x \in Arrived : x \in Nat /\ x <= h
        /\ h \in Arrived \union {0} /\ WINDOWS_SIZE \in Nat /\ f <= h + 1
    BY Landmarks, Halves
  <2>2. A2 \subseteq SeqNum /\ h2 \in A2 \union {0}
    BY <2>1
  <2>3. seq - f < WINDOWS_SIZE - 1 /\ h - f <= WINDOWS_SIZE - 2 /\ seq \in Nat /\ f <= seq
    BY <1>1, <1>3, <1>4
  <2> HIDE DEF f, h
  <2>4. \A x \in A2 : x \in Nat /\ x <= h2
    BY <2>1, <2>3
  <2>5. f <= h2 /\ h2 - f <= WINDOWS_SIZE - 2 /\ h2 \in Nat
    BY <2>1, <2>3
  <2> HIDE DEF A2, h2
  <2> QED
    BY <2>1, <2>2, <2>4, <2>5
<1>6. Highest(Arrived)' = h2
  <2>1. Highest(A2) = h2
    <3> HIDE DEF A2, h2
    <3> QED
      BY <1>5, HighestOnly
  <2> QED
    BY <1>2, <2>1, Zenon DEF Highest
<1>7. max = h2 % BUFFER_SIZE
  BY <1>3, <1>4
<1>8. WritePduWindow(pdu, seq, Route(seq))
  BY <1>1, <1>4, Zenon DEF WritePdu, WritePduDelayed, WritePduDuplicate
<1>9. PICK n \in 0 .. 2 * BUFFER_SIZE :
        /\ PassEnds(win, max, n) /\ Advance(win, n)
        /\ submitted_sn' = IF n = 0 THEN submitted_sn ELSE Shift(next_sn, n - 1)
  BY <1>8, Zenon DEF WritePduWindow
<1>10. current_max_sn' = max /\ expiring' = expiring
  BY <1>8, Zenon DEF WritePduWindow
<1> DEFINE Ahead == {y \in A2 : y >= f}
<1>11. Ahead = Waiting \union {seq}
  <2>1. \A y \in Arrived : y >= f <=> y > f
    BY <1>5
  <2> QED
    BY <1>4, <2>1 DEF Waiting
<1>12. DOMAIN win = {x % BUFFER_SIZE : x \in Ahead}
  BY <1>3, <1>11, Zenon
<1>13. \A x \in Ahead : win[x % BUFFER_SIZE].seq = x
  <2>1. win[sn].seq = seq
    OBVIOUS
  <2>2. ASSUME NEW x \in Waiting PROVE win[x % BUFFER_SIZE].seq = x
    BY <1>3, <1>4
  <2> QED
    BY <1>11, <2>1, <2>2, Zenon
<1>14. /\ f + n \notin A2 /\ \A m \in 0 .. n - 1 : f + m \in A2
       /\ Deliveries(win, n) = 0 .. n - 1
  <2>1. A2 \subseteq Nat /\ \A x \in A2 : x - f < BUFFER_SIZE
    BY <1>5, Halves
  <2>2. PassEnds(win, h2 % BUFFER_SIZE, n) /\ n \in 0 .. 2 * BUFFER_SIZE
    BY <1>7, <1>9
  <2>3. f \in Nat /\ h2 \in Nat /\ f <= h2 /\ h2 - f <= WINDOWS_SIZE - 2
    BY <1>5
  <2>4. next_sn = f % BUFFER_SIZE
    BY <1>3
  <2>5. DOMAIN win = {x % BUFFER_SIZE : x \in {y \in A2 : y >= f}}
    BY <1>12
  <2>6. InWindow(f, h2, A2, win, n)
    <3> HIDE DEF A2, win, h2, f
    <3> QED
      BY <2>1, <2>2, <2>3, <2>4, <2>5, Zenon DEF InWindow
  <2> HIDE DEF A2, win, h2, f
  <2>7. f + n \notin A2
    BY <2>2, <2>6, PassRun, Zenon
  <2>8. ASSUME NEW m \in 0 .. n - 1 PROVE f + m \in A2
    BY <2>2, <2>6, PassRun, Zenon
  <2>9. Deliveries(win, n) = 0 .. n - 1
    BY <2>2, <2>6, PassRun, SMT
  <2> QED
    BY <2>7, <2>8, <2>9
<1> DEFINE f2 == f + n
<1>15. /\ n \in Nat /\ f2 \in Nat /\ f <= f2 /\ f2 \notin A2
       /\ \A x \in 0 .. f2 - 1 : x \in A2
       /\ \A x \in f .. f2 - 1 : x \in A2
  <2>1. n \in Nat
    BY <1>9, Halves
  <2>2. ASSUME NEW x \in f .. f2 - 1 PROVE x \in A2
    <3>1. x - f \in 0 .. n - 1 /\ f + (x - f) = x
      BY <1>5, <2>1
    <3> QED
      BY <1>14, <3>1
  <2>3. ASSUME NEW x \in 0 .. f2 - 1 PROVE x \in A2
    <3>1. x \in 0 .. f - 1 \/ x \in f .. f2 - 1
      BY <1>5, <2>1
    <3> QED
      BY <1>5, <2>2, <3>1
  <2>4. f \in Nat /\ f2 \notin A2
    BY <1>5, <1>14
  <2>5. f2 \in Nat /\ f <= f2
    BY <2>1, <2>4
  <2> QED
    BY <2>1, <2>2, <2>3, <2>4, <2>5
<1>16. FirstMissing' = f2
  <2>1. Missing(A2) = f2
    <3> HIDE DEF A2, f2
    <3> QED
      BY <1>5, <1>15, MissingOnly
  <2> QED
    BY <1>2, <2>1, Zenon DEF Missing, FirstMissing
<1>17. \A m \in Nat : Shift(next_sn, m) = (f + m) % BUFFER_SIZE
  <2> SUFFICES ASSUME NEW m \in Nat PROVE Shift(next_sn, m) = (f + m) % BUFFER_SIZE
    OBVIOUS
  <2>1. f \in Int /\ m \in Int /\ next_sn = f % BUFFER_SIZE
    BY <1>3, <1>5
  <2> HIDE DEF f
  <2> QED
    BY <2>1, ShiftOf, Zenon
<1>18. next_sn' = f2 % BUFFER_SIZE
  BY <1>9, <1>15, <1>17, Zenon DEF Advance
<1>19. submitted_sn' = IF f2 = 0 THEN 0 ELSE (f2 - 1) % BUFFER_SIZE
  <2>1. CASE n = 0
    <3>1. submitted_sn' = submitted_sn /\ f2 = f
      BY <1>5, <1>9, <2>1
    <3> QED
      BY <1>3, <3>1
  <2>2. CASE n # 0
    <3>1. n - 1 \in Nat /\ f + (n - 1) = f2 - 1 /\ f2 # 0
      BY <1>5, <1>15, <2>2
    <3>2. submitted_sn' = Shift(next_sn, n - 1)
      BY <1>9, <2>2
    <3>3. Shift(next_sn, n - 1) = (f + (n - 1)) % BUFFER_SIZE
      BY <1>17, <3>1
    <3> HIDE DEF f, f2
    <3> QED
      BY <3>1, <3>2, <3>3
  <2> QED
    BY <2>1, <2>2
<1> DEFINE Gone == {Shift(next_sn, m) : m \in 0 .. n - 1}
<1>20. /\ out' = [m \in 0 .. n - 1 |-> win[Shift(next_sn, m)]]
       /\ rx_window' = [x \in DOMAIN win \ Gone |-> win[x]]
  <2> HIDE DEF win
  <2> QED
    BY <1>9, <1>14, Zenon DEF Advance
<1>21. Waiting' = {x \in A2 : x > f2}
  BY <1>2, <1>16, Zenon DEF Waiting
<1>22. ASSUME NEW x \in Waiting' PROVE x \in Ahead /\ x % BUFFER_SIZE \notin Gone
  <2>1. x \in A2 /\ x > f2 /\ x \in Nat /\ x <= h2
    BY <1>5, <1>21
  <2>2. ASSUME NEW m \in 0 .. n - 1, x % BUFFER_SIZE = Shift(next_sn, m) PROVE FALSE
    <3>1. m \in Nat /\ f + m \in Int /\ x \in Int /\ f + m < f2 /\ f <= f + m
      BY <1>5, <1>15, <2>1
    <3>2. x % BUFFER_SIZE = (f + m) % BUFFER_SIZE
      BY <1>17, <2>2, <3>1
    <3>3. x - (f + m) < BUFFER_SIZE /\ (f + m) - x < BUFFER_SIZE
      <4>1. h2 - f < BUFFER_SIZE /\ BUFFER_SIZE \in Nat /\ BUFFER_SIZE > 0
        BY <1>5, Halves
      <4>2. h2 \in Nat /\ f \in Nat /\ f2 \in Nat
        BY <1>5, <1>15
      <4> HIDE DEF h2, f, f2, A2
      <4> QED
        BY <2>1, <3>1, <4>1, <4>2
    <3>4. x = f + m
      BY <3>1, <3>2, <3>3, SameSlot, Zenon
    <3> HIDE DEF f2, f, h2, A2
    <3> QED
      BY <1>15, <2>1, <3>1, <3>4
  <2>3. x >= f
    BY <1>5, <1>15, <2>1
  <2> QED
    BY <2>1, <2>2, <2>3
<1>23. ASSUME NEW x \in Ahead, x % BUFFER_SIZE \notin Gone PROVE x \in Waiting'
  <2>1. x \in A2 /\ x >= f /\ x \in Nat
    BY <1>5
  <2>2. ASSUME x < f2 PROVE FALSE
    <3>1. x - f \in 0 .. n - 1 /\ x - f \in Nat /\ f + (x - f) = x
      BY <1>5, <1>15, <2>1, <2>2
    <3>2. Shift(next_sn, x - f) = x % BUFFER_SIZE
      BY <1>17, <3>1
    <3> QED
      BY <1>23, <3>1, <3>2
  <2>3. x # f2
    BY <1>15, <2>1
  <2>4. x > f2
    BY <1>15, <2>1, <2>2, <2>3
  <2> QED
    BY <1>21, <2>1, <2>4
<1>24. DOMAIN rx_window' = {x % BUFFER_SIZE : x \in Waiting'}
  <2>1. DOMAIN rx_window' = {x % BUFFER_SIZE : x \in Ahead} \ Gone
    BY <1>12, <1>20
  <2> HIDE DEF Ahead, Gone
  <2>2. \A y : y \in DOMAIN rx_window' <=> \E x \in Waiting' : y = x % BUFFER_SIZE
    BY <1>22, <1>23, <2>1, Zenon
  <2> QED
    BY <2>2
<1>25. \A x \in Waiting' : rx_window'[x % BUFFER_SIZE].seq = x
  <2> SUFFICES ASSUME NEW x \in Waiting' PROVE rx_window'[x % BUFFER_SIZE].seq = x
    OBVIOUS
  <2>1. x \in Ahead /\ x % BUFFER_SIZE \notin Gone
    BY <1>22
  <2>2. x % BUFFER_SIZE \in DOMAIN win
    BY <1>12, <2>1
  <2>3. win[x % BUFFER_SIZE].seq = x
    BY <1>13, <2>1
  <2> HIDE DEF win, Gone
  <2>4. rx_window'[x % BUFFER_SIZE] = win[x % BUFFER_SIZE]
    BY <1>20, <2>1, <2>2
  <2> QED
    BY <2>3, <2>4
<1>26. delivered' = [i \in 1 .. f2 |-> i - 1]
  <2>1. DOMAIN out' = 0 .. n - 1
    <3> HIDE DEF win
    <3> QED
      BY <1>20
  <2>2. PICK steps \in Listings(0 .. n - 1) :
          delivered' = delivered \o [i \in DOMAIN steps |-> out'[steps[i]].seq]
    BY <1>1, <2>1, Zenon DEF Log
  <2>3. steps = [i \in 1 .. n |-> i - 1]
    BY <1>15, ListingOf
  <2>4. ASSUME NEW i \in 1 .. n PROVE out'[i - 1].seq = f + i - 1
    <3>1. i - 1 \in 0 .. n - 1 /\ i - 1 \in Nat /\ f + (i - 1) = f + i - 1
      BY <1>5, <1>15
    <3>2. f + (i - 1) \in Ahead
      <4> DEFINE m == i - 1
      <4>1. m \in Nat /\ m \in 0 .. n - 1 /\ f \in Nat
        BY <1>5, <3>1
      <4> HIDE DEF m, f, A2
      <4>2. f + m \in A2 /\ f + m >= f
        BY <1>14, <4>1
      <4>3. f + m \in Ahead
        BY <4>2
      <4> QED
        BY <4>3 DEF m
    <3>3. Shift(next_sn, i - 1) = (f + (i - 1)) % BUFFER_SIZE
      BY <1>17, <3>1
    <3>4. win[(f + (i - 1)) % BUFFER_SIZE].seq = f + (i - 1)
      BY <1>13, <3>2, Zenon
    <3>5. out'[i - 1] = win[Shift(next_sn, i - 1)]
      <4> HIDE DEF win
      <4> QED
        BY <1>20, <3>1
    <3> HIDE DEF win, f
    <3> QED
      BY <3>1, <3>3, <3>4, <3>5
  <2>5. [i \in DOMAIN steps |-> out'[steps[i]].seq] = [i \in 1 .. n |-> f + i - 1]
    BY <2>3, <2>4
  <2>6. delivered' = [i \in 1 .. f |-> i - 1] \o [i \in 1 .. n |-> f + i - 1]
    BY <1>3, <2>2, <2>5
  <2>7. f \in Nat /\ n \in Nat
    BY <1>5, <1>15
  <2> HIDE DEF f
  <2> QED
    BY <2>6, <2>7
<1>27. h2 - f2 <= WINDOWS_SIZE - 2
  <2>1. h2 \in Nat /\ f \in Nat /\ f2 \in Nat /\ f <= f2 /\ h2 - f <= WINDOWS_SIZE - 2 /\ WINDOWS_SIZE \in Nat
    BY <1>5, <1>15, Halves
  <2> HIDE DEF h2, f, f2
  <2> QED
    BY <2>1
<1>28. ~expiring'
  BY <1>3, <1>10
<1>29. current_max_sn' = h2 % BUFFER_SIZE
  BY <1>7, <1>10
<1> HIDE DEF f, h, h2, A2, pdu, sn, win, max, Ahead, f2, Gone
<1> QED
  BY <1>6, <1>16, <1>18, <1>19, <1>24, <1>25, <1>26, <1>27, <1>28, <1>29, Zenon DEF Orderly

\* The type of the history, as far as the argument needs it.
LEMMA ArrivedType ==
    ASSUME arrived \in [SeqNum -> Nat], [UNext]_uvars PROVE (arrived \in [SeqNum -> Nat])'
<1>1. ASSUME UNCHANGED arrived PROVE (arrived \in [SeqNum -> Nat])'
  BY <1>1
<1>2. ASSUME NEW seq \in SeqNum, NEW last, Arrive(seq, last) PROVE (arrived \in [SeqNum -> Nat])'
  BY <1>2 DEF Arrive
<1> QED
  BY <1>1, <1>2, Zenon DEF UNext, Send, Lose, Tick, Expire, uvars, uplink

LEMMA OrderlyFrame ==
    ASSUME Orderly, UNCHANGED <<window, expiring, arrived, delivered>>, excused => excused'
    PROVE  Orderly'
<1>1. Arrived' = Arrived
  BY DEF Arrived
<1>2. FirstMissing' = FirstMissing
  BY <1>1, Zenon DEF FirstMissing
<1>3. Waiting' = Waiting
  BY <1>1, <1>2, Zenon DEF Waiting
<1>4. Highest(Arrived)' = Highest(Arrived)
  BY <1>1, Zenon DEF Highest
<1> QED
  BY <1>2, <1>3, <1>4 DEF Orderly, window

LEMMA OrderlyStep ==
    ASSUME arrived \in [SeqNum -> Nat], Orderly, [UNext]_uvars PROVE Orderly'
<1>1. CASE Send
  BY <1>1, OrderlyFrame DEF Send, vars, timer
<1>2. ASSUME NEW seq \in SeqNum, Lose(seq) PROVE Orderly'
  BY <1>2, OrderlyFrame DEF Lose, vars, timer
<1>3. ASSUME NEW seq \in SeqNum, NEW last, Arrive(seq, last) PROVE Orderly'
  BY <1>3, OrderlyArrive
<1>4. CASE Tick
  <2>1. CASE expiring'
    BY <1>4, <2>1 DEF Tick, Orderly
  <2>2. CASE ~expiring'
    <3>1. expiring' = expiring
      BY <1>4, <2>2 DEF Tick, TimerTick
    <3> QED
      BY <1>4, <3>1, OrderlyFrame DEF Tick, TimerTick
  <2> QED
    BY <2>1, <2>2
<1>5. CASE Expire
  BY <1>5 DEF Expire, TimerExpired, Orderly
<1>6. CASE UNCHANGED uvars
  BY <1>6, OrderlyFrame DEF uvars, uplink, vars, timer
<1> QED
  BY <1>1, <1>2, <1>3, <1>4, <1>5, <1>6, Zenon DEF UNext

\* While no packet is lost for longer than the timer allows, duplicated or overtaken
\* by half the ring, the gateway gets exactly the packets before the first missing
\* one, in the order sent.
THEOREM InOrder == USpec => []InOrderUntilExcused
<1> DEFINE Types == arrived \in [SeqNum -> Nat]
<1>1. UInit => Types /\ Orderly
  BY OrderlyInit DEF UInit
<1>2. Types /\ Orderly /\ [UNext]_uvars => Types' /\ Orderly'
  BY ArrivedType, OrderlyStep
<1>3. Orderly => InOrderUntilExcused
  BY DEF Orderly, InOrderUntilExcused
<1> QED
  BY <1>1, <1>2, <1>3, PTL DEF USpec

-----------------------------------------------------------------------------
(* What the gateway gets: never more often than it arrived, and nothing    *)
(* is lost                                                                 *)

\* Where packet seq is in the list d.
Places(d, seq) == {i \in DOMAIN d : d[i] = seq}

\* The numbers a step hands over.
Outs == {out'[m].seq : m \in DOMAIN out'}

\* No slot of a window is given to a packet with another place on the ring.
Slotted(win) == \A sn \in DOMAIN win : win[sn].seq \in SeqNum /\ win[sn].seq % BUFFER_SIZE = sn

Numbers(win) == {win[sn].seq : sn \in DOMAIN win}

\* One more packet at the end is one more place for it.
LEMMA PlacesOf ==
    ASSUME NEW S, NEW d \in Seq(S), NEW e \in Seq(S), NEW seq,
           \A i, j \in DOMAIN e : e[i] = e[j] => i = j
    PROVE  /\ IsFiniteSet(Places(d, seq)) /\ Cardinality(Places(d, seq)) \in Nat
           /\ Cardinality(Places(d \o e, seq)) =
                Cardinality(Places(d, seq)) + (IF \E i \in DOMAIN e : e[i] = seq THEN 1 ELSE 0)
<1> DEFINE C == Places(d, seq)
<1>1. IsFiniteSet(C) /\ Cardinality(C) \in Nat
  <2>1. IsFiniteSet(1 .. Len(d)) /\ C \subseteq 1 .. Len(d)
    BY FS_Interval DEF Places
  <2> HIDE DEF C
  <2>2. IsFiniteSet(C)
    BY <2>1, FS_Subset, Zenon
  <2> QED
    BY <2>2, FS_CardinalityType
<1>2. CASE \E i \in DOMAIN e : e[i] = seq
  <2>1. PICK j \in DOMAIN e : e[j] = seq
    BY <1>2
  <2>2. \A i \in DOMAIN e : e[i] = seq => i = j
    BY <2>1
  <2>3. Len(d) \in Nat /\ Len(e) \in Nat /\ j \in 1 .. Len(e)
    BY <2>1
  <2> DEFINE k == Len(d) + j
  <2>4. k \notin C /\ k \in DOMAIN (d \o e) /\ (d \o e)[k] = seq
    BY <2>1, <2>3 DEF Places
  <2>5. Places(d \o e, seq) \subseteq C \union {k}
    <3> SUFFICES ASSUME NEW i \in 1 .. Len(d) + Len(e), (d \o e)[i] = seq, i # k PROVE i \in C
      BY DEF Places
    <3>1. CASE i <= Len(d)
      BY <3>1 DEF Places
    <3>2. CASE i > Len(d)
      <4>1. i - Len(d) \in DOMAIN e /\ e[i - Len(d)] = seq
        BY <2>3, <3>2
      <4>2. i - Len(d) = j
        BY <2>2, <4>1
      <4> QED
        BY <2>3, <4>2
    <3> QED
      BY <2>3, <3>1, <3>2
  <2>6. C \union {k} \subseteq Places(d \o e, seq)
    BY <2>4 DEF Places
  <2>7. Places(d \o e, seq) = C \union {k}
    BY <2>5, <2>6
  <2> HIDE DEF C, k
  <2>8. Cardinality(C \union {k}) = Cardinality(C) + 1
    BY <1>1, <2>4, FS_AddElement
  <2> QED
    BY <1>1, <1>2, <2>7, <2>8 DEF C
<1>3. CASE ~ \E i \in DOMAIN e : e[i] = seq
  <2>1. Places(d \o e, seq) = C
    <3>1. ASSUME NEW i \in 1 .. Len(d) + Len(e), (d \o e)[i] = seq PROVE i \in C
      <4>1. CASE i <= Len(d)
        BY <3>1, <4>1 DEF Places
      <4>2. CASE i > Len(d)
        <5>1. i - Len(d) \in DOMAIN e /\ e[i - Len(d)] = seq
          BY <3>1, <4>2
        <5> QED
          BY <1>3, <5>1
      <4> QED
        BY <4>1, <4>2
    <3>2. Places(d \o e, seq) \subseteq C
      BY <3>1 DEF Places
    <3>3. C \subseteq Places(d \o e, seq)
      BY DEF Places
    <3> QED
      BY <3>2, <3>3
  <2> HIDE DEF C
  <2> QED
    BY <1>1, <1>3, <2>1 DEF C
<1> QED
  BY <1>1, <1>2, <1>3

\* The history after a step that hands over each number once.
LEMMA LogOf ==
    ASSUME delivered \in Seq(SeqNum), Log, IsFiniteSet(DOMAIN out'), DOMAIN out' \subseteq Nat,
           \A m \in DOMAIN out' : out'[m].seq \in SeqNum,
           \A m, l \in DOMAIN out' : out'[m].seq = out'[l].seq => m = l
    PROVE  /\ delivered' \in Seq(SeqNum)
           /\ ToSet(delivered') = ToSet(delivered) \union Outs
           /\ \A seq : /\ Cardinality(Places(delivered, seq)) \in Nat
                       /\ Cardinality(Places(delivered', seq)) =
                            Cardinality(Places(delivered, seq)) + (IF seq \in Outs THEN 1 ELSE 0)
<1> DEFINE S == DOMAIN out'
           k == Cardinality(S)
<1>1. k \in Nat
  BY FS_CardinalityType
<1>2. PICK steps \in Listings(S) :
          delivered' = delivered \o [i \in DOMAIN steps |-> out'[steps[i]].seq]
  BY DEF Log
<1>3. /\ steps \in [1 .. k -> S] /\ \A m \in S : \E i \in 1 .. k : steps[i] = m
      /\ \A i, j \in 1 .. k : i < j => steps[i] # steps[j]
  <2>1. /\ steps \in [1 .. k -> S] /\ ToSet(steps) = S
        /\ \A i, j \in DOMAIN steps : i < j => steps[i] < steps[j]
    BY <1>2, Zenon DEF Listings
  <2>2. DOMAIN steps = 1 .. k
    BY <2>1
  <2>3. \A m \in S : \E i \in 1 .. k : steps[i] = m
    BY <2>1, <2>2, Zenon DEF ToSet
  <2>4. S \subseteq Nat
    OBVIOUS
  <2> HIDE DEF S, k
  <2>5. ASSUME NEW i \in 1 .. k, NEW j \in 1 .. k, i < j PROVE steps[i] # steps[j]
    <3>1. steps[i] < steps[j] /\ steps[i] \in Nat /\ steps[j] \in Nat
      BY <2>1, <2>2, <2>4, <2>5
    <3> QED
      BY <3>1
  <2> QED
    BY <2>1, <2>3, <2>5
<1> DEFINE e == [i \in 1 .. k |-> out'[steps[i]].seq]
<1>4. delivered' = delivered \o e /\ DOMAIN e = 1 .. k /\ \A i \in 1 .. k : e[i] = out'[steps[i]].seq
  <2>1. DOMAIN steps = 1 .. k
    BY <1>3
  <2> QED
    BY <1>2, <2>1
<1>5. e \in Seq(SeqNum)
  <2>1. \A i \in 1 .. k : out'[steps[i]].seq \in SeqNum
    BY <1>3
  <2> HIDE DEF k
  <2> QED
    BY <1>1, <2>1
<1>6. \A i, j \in DOMAIN e : e[i] = e[j] => i = j
  <2> SUFFICES ASSUME NEW i \in 1 .. k, NEW j \in 1 .. k, e[i] = e[j] PROVE i = j
    BY <1>4
  <2>1. steps[i] \in S /\ steps[j] \in S
    BY <1>3
  <2>2. steps[i] = steps[j]
    BY <1>4, <2>1
  <2>3. ~(i < j) /\ ~(j < i)
    BY <1>3, <2>2
  <2> QED
    BY <1>1, <2>3
<1>7. \A seq : (\E i \in DOMAIN e : e[i] = seq) <=> seq \in Outs
  <2> SUFFICES ASSUME NEW seq PROVE (\E i \in DOMAIN e : e[i] = seq) <=> seq \in Outs
    OBVIOUS
  <2> HIDE DEF e, k
  <2>1. ASSUME NEW i \in DOMAIN e, e[i] = seq PROVE seq \in Outs
    <3>1. steps[i] \in S /\ e[i] = out'[steps[i]].seq
      BY <1>3, <1>4
    <3> QED
      BY <2>1, <3>1, Zenon DEF Outs
  <2>2. ASSUME NEW m \in S, out'[m].seq = seq PROVE \E i \in DOMAIN e : e[i] = seq
    <3>1. PICK i \in 1 .. k : steps[i] = m
      BY <1>3
    <3> QED
      BY <1>4, <2>2, <3>1
  <2> QED
    BY <2>1, <2>2, Zenon DEF Outs
<1> HIDE DEF e
<1>8. delivered' \in Seq(SeqNum)
  BY <1>4, <1>5
<1>9. ASSUME NEW seq
      PROVE  /\ Cardinality(Places(delivered, seq)) \in Nat
             /\ Cardinality(Places(delivered', seq)) =
                  Cardinality(Places(delivered, seq)) + (IF seq \in Outs THEN 1 ELSE 0)
  <2>1. /\ Cardinality(Places(delivered, seq)) \in Nat
        /\ Cardinality(Places(delivered \o e, seq)) =
             Cardinality(Places(delivered, seq)) + (IF \E i \in DOMAIN e : e[i] = seq THEN 1 ELSE 0)
    <3>1. delivered \in Seq(SeqNum)
      OBVIOUS
    <3>2. Cardinality(Places(delivered, seq)) \in Nat
      BY <1>5, <1>6, <3>1, PlacesOf, Zenon
    <3>3. Cardinality(Places(delivered \o e, seq)) =
             Cardinality(Places(delivered, seq)) + (IF \E i \in DOMAIN e : e[i] = seq THEN 1 ELSE 0)
      BY <1>5, <1>6, <3>1, PlacesOf
    <3> QED
      BY <3>2, <3>3
  <2> QED
    BY <1>4, <1>7, <2>1
<1>10. ToSet(delivered') = ToSet(delivered) \union Outs
  <2>1. ToSet(delivered \o e) = ToSet(delivered) \union ToSet(e)
    <3>1. \A i \in DOMAIN delivered : i \in DOMAIN (delivered \o e) /\ (delivered \o e)[i] = delivered[i]
      BY <1>5
    <3>2. \A i \in DOMAIN e : /\ Len(delivered) + i \in DOMAIN (delivered \o e)
                              /\ (delivered \o e)[Len(delivered) + i] = e[i]
      BY <1>5
    <3>3. ASSUME NEW i \in DOMAIN (delivered \o e)
          PROVE  \/ i \in DOMAIN delivered /\ (delivered \o e)[i] = delivered[i]
                 \/ i - Len(delivered) \in DOMAIN e /\ (delivered \o e)[i] = e[i - Len(delivered)]
      BY <1>5
    <3>4. ToSet(delivered) \subseteq ToSet(delivered \o e)
      BY <3>1, Zenon DEF ToSet
    <3>5. ToSet(e) \subseteq ToSet(delivered \o e)
      <4>1. ASSUME NEW i \in DOMAIN e PROVE e[i] \in ToSet(delivered \o e)
        BY <3>2, Zenon DEF ToSet
      <4> QED
        BY <4>1, Zenon DEF ToSet
    <3>6. ASSUME NEW i \in DOMAIN (delivered \o e)
          PROVE  (delivered \o e)[i] \in ToSet(delivered) \union ToSet(e)
      BY <3>3 DEF ToSet
    <3>7. ToSet(delivered \o e) \subseteq ToSet(delivered) \union ToSet(e)
      BY <3>6, Zenon DEF ToSet
    <3> QED
      BY <3>4, <3>5, <3>7
  <2>2. ToSet(e) = Outs
    <3>1. \A seq : seq \in ToSet(e) <=> \E i \in DOMAIN e : e[i] = seq
      BY Zenon DEF ToSet
    <3> QED
      BY <1>7, <3>1
  <2> QED
    BY <1>4, <2>1, <2>2
<1> QED
  BY <1>8, <1>9, <1>10

\* A step hands some PDUs of the window win over, each once, and keeps the others.
HandsOver(win) ==
    /\ DOMAIN out' \subseteq Nat /\ IsFiniteSet(DOMAIN out')
    /\ \A m \in DOMAIN out' : out'[m].seq \in SeqNum
    /\ \A m, l \in DOMAIN out' : out'[m].seq = out'[l].seq => m = l
    /\ Slotted(rx_window')
    /\ Outs \union Numbers(rx_window') = Numbers(win)
    /\ Outs \intersect Numbers(rx_window') = {}

\* The loops do: an iteration that finds a PDU is within one lap of the ring.
LEMMA LoopHandsOver ==
    ASSUME TypeOK, NEW win, Slotted(win), NEW n \in 0 .. 2 * BUFFER_SIZE, Advance(win, n)
    PROVE  HandsOver(win)
<1> DEFINE D == Deliveries(win, n)
           gone == {Shift(next_sn, m) : m \in D}
<1>1. /\ out' = [m \in D |-> win[Shift(next_sn, m)]]
      /\ rx_window' = [sn \in DOMAIN win \ gone |-> win[sn]]
  BY Zenon DEF Advance
<1>2. ASSUME NEW m \in D PROVE m \in Nat /\ m < BUFFER_SIZE /\ Shift(next_sn, m) \in DOMAIN win
  BY DEF Deliveries, Present
<1>3. DOMAIN out' \subseteq Nat /\ IsFiniteSet(DOMAIN out') /\ DOMAIN out' = D
  <2>1. D \subseteq 0 .. n - 1 /\ n \in Int /\ 0 \in Int /\ n - 1 \in Int
    BY Halves DEF Deliveries
  <2>2. IsFiniteSet(0 .. n - 1)
    BY <2>1, FS_Interval
  <2>3. IsFiniteSet(D)
    BY <2>1, <2>2, FS_Subset
  <2>4. D \subseteq Nat
    BY <1>2
  <2> HIDE DEF D
  <2> QED
    BY <1>1, <2>3, <2>4
<1>4. ASSUME NEW m \in D, NEW l \in D, Shift(next_sn, m) = Shift(next_sn, l) PROVE m = l
  <2>1. next_sn \in Nat
    BY Halves DEF TypeOK, SN
  <2>2. m \in Nat /\ m < BUFFER_SIZE /\ l \in Nat /\ l < BUFFER_SIZE /\ BUFFER_SIZE \in Nat
    BY <1>2, Halves
  <2> HIDE DEF D
  <2>3. /\ next_sn + m \in Int /\ next_sn + l \in Int
        /\ (next_sn + m) - (next_sn + l) < BUFFER_SIZE
        /\ (next_sn + l) - (next_sn + m) < BUFFER_SIZE
    BY <2>1, <2>2
  <2>4. (next_sn + m) % BUFFER_SIZE = (next_sn + l) % BUFFER_SIZE
    BY <1>4, Zenon DEF Shift
  <2>5. next_sn + m = next_sn + l
    BY <2>3, <2>4, SameSlot, Zenon
  <2> QED
    BY <2>1, <2>2, <2>5
<1>5. \A m \in D : out'[m] = win[Shift(next_sn, m)]
  BY <1>1
<1>6. \A x \in DOMAIN win \ gone : rx_window'[x] = win[x]
  BY <1>1
<1>7. DOMAIN rx_window' = DOMAIN win \ gone
  BY <1>1
<1>8. \A x, y \in DOMAIN win : win[x].seq = win[y].seq => x = y
  BY Zenon DEF Slotted
<1> HIDE DEF D
<1>9. \A m \in D : out'[m].seq \in SeqNum
  BY <1>2, <1>5 DEF Slotted
<1>10. \A m, l \in D : out'[m].seq = out'[l].seq => m = l
  BY <1>2, <1>4, <1>5, <1>8
<1>11. Slotted(rx_window')
  BY <1>6, <1>7 DEF Slotted
<1>12. Outs \union Numbers(rx_window') = Numbers(win)
  <2>1. Outs \subseteq Numbers(win)
    BY <1>2, <1>3, <1>5 DEF Outs, Numbers
  <2>2. Numbers(rx_window') \subseteq Numbers(win)
    BY <1>6, <1>7 DEF Numbers
  <2>3. ASSUME NEW x \in DOMAIN win PROVE win[x].seq \in Outs \union Numbers(rx_window')
    <3>1. CASE x \in gone
      <4>1. PICK m \in D : x = Shift(next_sn, m)
        BY <3>1
      <4> QED
        BY <1>3, <1>5, <4>1 DEF Outs
    <3>2. CASE x \notin gone
      BY <1>6, <1>7, <3>2 DEF Numbers
    <3> QED
      BY <3>1, <3>2
  <2> QED
    BY <2>1, <2>2, <2>3 DEF Numbers
<1>13. Outs \intersect Numbers(rx_window') = {}
  <2> SUFFICES ASSUME NEW m \in D, NEW x \in DOMAIN win \ gone, out'[m].seq = rx_window'[x].seq
               PROVE  FALSE
    BY <1>3, <1>7 DEF Outs, Numbers
  <2>1. Shift(next_sn, m) \in DOMAIN win /\ Shift(next_sn, m) \in gone
    BY <1>2
  <2>2. win[Shift(next_sn, m)].seq = win[x].seq
    BY <1>5, <1>6
  <2> QED
    BY <1>8, <2>1, <2>2
<1> QED
  BY <1>3, <1>9, <1>10, <1>11, <1>12, <1>13 DEF HandsOver

\* What write_pdu does with a packet: the window it hands over from is the one before,
\* in which the packet may have taken its slot.
LEMMA ArriveHandsOver ==
    ASSUME TypeOK, Slotted(rx_window), NEW seq \in SeqNum, NEW last, Arrive(seq, last)
    PROVE  \E win : /\ HandsOver(win)
                    /\ Numbers(win) \subseteq Numbers(rx_window) \union {seq}
                    /\ \A sn \in DOMAIN rx_window :
                         sn = seq % BUFFER_SIZE \/ rx_window[sn].seq \in Numbers(win)
                    /\ \/ seq \in Numbers(win)
                       \/ \E sn \in DOMAIN rx_window :
                            sn = seq % BUFFER_SIZE /\ rx_window[sn].seq \in Numbers(win)
<1> DEFINE pdu == [seq |-> seq, copy |-> arrived[seq] + 1]
           sn == seq % BUFFER_SIZE
           win == [x \in DOMAIN rx_window \union {sn} |-> IF x = sn THEN pdu ELSE rx_window[x]]
<1>1. WritePdu(pdu, seq, Route(seq))
  BY Zenon DEF Arrive
<1>2. /\ Slotted(win) /\ DOMAIN win = DOMAIN rx_window \union {sn} /\ win[sn] = pdu /\ pdu.seq = seq
      /\ \A x \in DOMAIN rx_window : x = sn \/ win[x] = rx_window[x]
  BY DEF Slotted
<1>3. /\ Numbers(win) \subseteq Numbers(rx_window) \union {seq} /\ seq \in Numbers(win)
      /\ \A x \in DOMAIN rx_window : x = sn \/ rx_window[x].seq \in Numbers(win)
  BY <1>2 DEF Numbers
<1>4. {0} \subseteq Nat /\ IsFiniteSet({0})
  <2>1. IsFiniteSet({0})
    BY FS_Singleton, Zenon
  <2> QED
    BY <2>1
<1>5. CASE WritePduDelayed(pdu, seq, Route(seq))
  <2>1. /\ out' = [m \in {0} |-> pdu]
        /\ rx_window' = [x \in DOMAIN rx_window \ {sn} |-> rx_window[x]]
    BY <1>5, Zenon DEF WritePduDelayed
  <2>2. Slotted(rx_window') /\ Outs = {seq}
    BY <1>2, <2>1 DEF Slotted, Outs
  <2>3. Numbers(rx_window') = {rx_window[x].seq : x \in DOMAIN rx_window \ {sn}}
    BY <2>1 DEF Numbers
  <2>4. Outs \union Numbers(rx_window') = Numbers(win)
    <3> HIDE DEF win, pdu
    <3>1. Outs \subseteq Numbers(win)
      BY <1>2, <2>2 DEF Numbers
    <3>2. Numbers(rx_window') \subseteq Numbers(win)
      BY <1>2, <2>3 DEF Numbers
    <3>3. ASSUME NEW x \in DOMAIN win PROVE win[x].seq \in Outs \union Numbers(rx_window')
      BY <1>2, <2>2, <2>3
    <3> QED
      BY <3>1, <3>2, <3>3 DEF Numbers
  <2>5. Outs \intersect Numbers(rx_window') = {}
    BY <2>2, <2>3 DEF Slotted
  <2>6. /\ DOMAIN out' = {0} /\ \A m \in DOMAIN out' : out'[m].seq \in SeqNum
        /\ \A m, l \in DOMAIN out' : out'[m].seq = out'[l].seq => m = l
    BY <2>1
  <2>7. HandsOver(win)
    BY <1>4, <2>2, <2>4, <2>5, <2>6, Zenon DEF HandsOver
  <2> QED
    BY <1>2, <1>3, <2>7
<1>6. CASE WritePduDuplicate(pdu, seq, Route(seq))
  <2>1. /\ out' = [m \in {0} |-> rx_window[sn]] /\ sn \in DOMAIN rx_window
        /\ rx_window' = [x \in DOMAIN rx_window \ {sn} |-> rx_window[x]]
    BY <1>6, Zenon DEF WritePduDuplicate
  <2>2. Slotted(rx_window') /\ Outs = {rx_window[sn].seq}
    BY <2>1 DEF Slotted, Outs
  <2>3. Numbers(rx_window') = {rx_window[x].seq : x \in DOMAIN rx_window \ {sn}}
    BY <2>1 DEF Numbers
  <2>4. Outs \union Numbers(rx_window') = Numbers(rx_window)
    BY <2>1, <2>2, <2>3 DEF Numbers
  <2>5. Outs \intersect Numbers(rx_window') = {}
    BY <2>1, <2>2, <2>3 DEF Slotted
  <2>6. /\ DOMAIN out' = {0} /\ \A m \in DOMAIN out' : out'[m].seq \in SeqNum
        /\ \A m, l \in DOMAIN out' : out'[m].seq = out'[l].seq => m = l
    BY <2>1 DEF Slotted
  <2>7. HandsOver(rx_window)
    BY <1>4, <2>2, <2>4, <2>5, <2>6, Zenon DEF HandsOver
  <2>8. \A x \in DOMAIN rx_window : rx_window[x].seq \in Numbers(rx_window)
    BY DEF Numbers
  <2> QED
    BY <2>1, <2>7, <2>8
<1>7. CASE WritePduWindow(pdu, seq, Route(seq))
  <2>1. PICK n \in 0 .. 2 * BUFFER_SIZE : Advance(win, n)
    BY <1>7, Zenon DEF WritePduWindow
  <2>2. HandsOver(win)
    <3> HIDE DEF win
    <3> QED
      BY <1>2, <2>1, LoopHandsOver, Zenon
  <2> QED
    BY <1>2, <1>3, <2>2
<1> QED
  BY <1>1, <1>5, <1>6, <1>7, Zenon DEF WritePdu

LEMMA ExpireHandsOver ==
    ASSUME TypeOK, Slotted(rx_window), Expire PROVE HandsOver(rx_window)
<1>1. PICK n \in 0 .. 2 * BUFFER_SIZE : Advance(rx_window, n)
  BY Zenon DEF Expire, TimerExpired
<1> QED
  BY <1>1, LoopHandsOver, Zenon

\* The history and the window have their types, and the packets in the window the
\* slots of their numbers.
Holding ==
    /\ arrived \in [SeqNum -> Nat] /\ delivered \in Seq(SeqNum)
    /\ Slotted(rx_window)

\* Each copy that was delivered or is buffered is one that arrived.
Copies ==
    \A seq \in SeqNum :
      Cardinality(Places(delivered, seq)) + (IF seq \in Numbers(rx_window) THEN 1 ELSE 0) <= arrived[seq]

\* The history after a step that hands over from win.
LEMMA HandedOver ==
    ASSUME Holding, NEW win, HandsOver(win), Log
    PROVE  /\ delivered' \in Seq(SeqNum) /\ Slotted(rx_window')
           /\ ToSet(delivered') \union Numbers(rx_window') = ToSet(delivered) \union Numbers(win)
           /\ \A seq : /\ Cardinality(Places(delivered, seq)) \in Nat
                       /\ Cardinality(Places(delivered', seq)) \in Nat
                       /\ Cardinality(Places(delivered', seq))
                             + (IF seq \in Numbers(rx_window') THEN 1 ELSE 0)
                          = Cardinality(Places(delivered, seq))
                             + (IF seq \in Numbers(win) THEN 1 ELSE 0)
<1>1. /\ delivered' \in Seq(SeqNum)
      /\ ToSet(delivered') = ToSet(delivered) \union Outs
      /\ \A seq : /\ Cardinality(Places(delivered, seq)) \in Nat
                  /\ Cardinality(Places(delivered', seq)) =
                       Cardinality(Places(delivered, seq)) + (IF seq \in Outs THEN 1 ELSE 0)
  BY LogOf DEF Holding, HandsOver
<1>2. /\ Slotted(rx_window') /\ Outs \union Numbers(rx_window') = Numbers(win)
      /\ Outs \intersect Numbers(rx_window') = {}
  BY Zenon DEF HandsOver
<1> QED
  BY <1>1, <1>2

LEMMA CopiesInit == UInit => Holding /\ Copies
<1> SUFFICES ASSUME UInit PROVE Holding /\ Copies
  OBVIOUS
<1>1. /\ arrived = [seq \in SeqNum |-> 0] /\ delivered = <<>> /\ rx_window = <<>>
  BY DEF UInit, Init
<1>2. DOMAIN rx_window = {}
  BY <1>1
<1>3. Holding
  BY <1>1, <1>2 DEF Holding, Slotted
<1>4. ASSUME NEW seq \in SeqNum
      PROVE  Cardinality(Places(delivered, seq)) = 0 /\ seq \notin Numbers(rx_window) /\ arrived[seq] = 0
  <2>1. Places(delivered, seq) = {}
    BY <1>1 DEF Places
  <2> QED
    BY <1>1, <1>2, <2>1, FS_EmptySet DEF Numbers
<1> QED
  BY <1>3, <1>4 DEF Copies

LEMMA CopiesStep ==
    ASSUME TypeOK, Holding, Copies, [UNext]_uvars PROVE Holding' /\ Copies'
<1>1. ASSUME UNCHANGED <<rx_window, arrived, delivered>> PROVE Holding' /\ Copies'
  BY <1>1 DEF Holding, Copies
<1>2. ASSUME NEW seq \in SeqNum, NEW last, Arrive(seq, last) PROVE Holding' /\ Copies'
  <2>1. PICK win : /\ HandsOver(win)
                   /\ Numbers(win) \subseteq Numbers(rx_window) \union {seq}
    BY <1>2, ArriveHandsOver, Zenon DEF Holding
  <2>2. Log /\ arrived' = [arrived EXCEPT ![seq] = @ + 1]
    BY <1>2, Zenon DEF Arrive
  <2>3. Holding'
    BY <2>1, <2>2, HandedOver DEF Holding
  <2>4. ASSUME NEW s \in SeqNum
        PROVE  Cardinality(Places(delivered', s)) + (IF s \in Numbers(rx_window') THEN 1 ELSE 0) <= arrived'[s]
    <3> DEFINE c == Cardinality(Places(delivered, s))
               d == Cardinality(Places(delivered', s))
    <3>1. /\ c \in Nat /\ d \in Nat
          /\ d + (IF s \in Numbers(rx_window') THEN 1 ELSE 0) = c + (IF s \in Numbers(win) THEN 1 ELSE 0)
      BY <2>1, <2>2, HandedOver, Zenon
    <3>2. c + (IF s \in Numbers(rx_window) THEN 1 ELSE 0) <= arrived[s] /\ arrived[s] \in Nat
      BY DEF Copies, Holding
    <3>3. arrived'[s] = IF s = seq THEN arrived[s] + 1 ELSE arrived[s]
      BY <2>2 DEF Holding
    <3>4. s \in Numbers(win) => s \in Numbers(rx_window) \/ s = seq
      BY <2>1
    <3> HIDE DEF c, d
    <3> QED
      BY <3>1, <3>2, <3>3, <3>4 DEF d
  <2> QED
    BY <2>3, <2>4 DEF Copies
<1>3. CASE Expire
  <2>1. HandsOver(rx_window) /\ Log /\ arrived' = arrived
    BY <1>3, ExpireHandsOver DEF Expire, Holding
  <2>2. Holding'
    BY <2>1, HandedOver DEF Holding
  <2>3. ASSUME NEW s \in SeqNum
        PROVE  Cardinality(Places(delivered', s)) + (IF s \in Numbers(rx_window') THEN 1 ELSE 0) <= arrived'[s]
    <3>1. Cardinality(Places(delivered', s)) + (IF s \in Numbers(rx_window') THEN 1 ELSE 0)
            = Cardinality(Places(delivered, s)) + (IF s \in Numbers(rx_window) THEN 1 ELSE 0)
      BY <2>1, HandedOver, Zenon
    <3> QED
      BY <2>1, <3>1 DEF Copies
  <2> QED
    BY <2>2, <2>3 DEF Copies
<1>4. CASE Send
  BY <1>1, <1>4, Zenon DEF Send, vars, window
<1>5. ASSUME NEW seq \in SeqNum, Lose(seq) PROVE Holding' /\ Copies'
  BY <1>1, <1>5, Zenon DEF Lose, vars, window
<1>6. CASE Tick
  BY <1>1, <1>6, Zenon DEF Tick, TimerTick, window
<1>7. CASE UNCHANGED uvars
  BY <1>1, <1>7, Zenon DEF uvars, uplink, vars, window
<1> QED
  BY <1>2, <1>3, <1>4, <1>5, <1>6, <1>7, Zenon DEF UNext

\* The gateway gets no packet more often than it arrived.
THEOREM DeliveredOnce == USpec => []NoExtraCopies
<1>1. UInit => Holding /\ Copies
  BY CopiesInit
<1>2. TypeOK /\ Holding /\ Copies /\ [UNext]_uvars => Holding' /\ Copies'
  BY CopiesStep
<1>3. Holding /\ Copies => NoExtraCopies
  <2> SUFFICES ASSUME Holding, Copies, NEW seq \in SeqNum
               PROVE  Cardinality(Places(delivered, seq)) <= arrived[seq]
    BY Zenon DEF NoExtraCopies, Places
  <2>1. IsFiniteSet(Places(delivered, seq))
    <3>1. delivered \in Seq(SeqNum)
      BY DEF Holding
    <3>2. Len(delivered) \in Int /\ Places(delivered, seq) \subseteq 1 .. Len(delivered)
      BY <3>1 DEF Places
    <3>3. IsFiniteSet(1 .. Len(delivered))
      BY <3>2, FS_Interval
    <3> QED
      BY <3>2, <3>3, FS_Subset, Zenon
  <2>2. Cardinality(Places(delivered, seq)) \in Nat
    BY <2>1, FS_CardinalityType
  <2>3. Cardinality(Places(delivered, seq)) + (IF seq \in Numbers(rx_window) THEN 1 ELSE 0) <= arrived[seq]
    BY DEF Copies
  <2> QED
    BY <2>2, <2>3 DEF Holding
<1> QED
  BY <1>1, <1>2, <1>3, ReceiverType, PTL DEF USpec

-----------------------------------------------------------------------------
(* What arrived is not lost                                                *)

\* Every packet that arrived was delivered or is buffered, but for those that met one
\* of another lap.
Kept == Arrived \ clashed \subseteq ToSet(delivered) \union Numbers(rx_window)

LEMMA KeptInit == UInit => Kept
<1> SUFFICES ASSUME UInit PROVE Kept
  OBVIOUS
<1>1. Arrived = {}
  BY DEF UInit, Arrived
<1> QED
  BY <1>1 DEF Kept

\* What is in the slot of seq and has another number met seq.
LEMMA Met ==
    ASSUME NEW seq \in SeqNum, NEW last, Arrive(seq, last),
           NEW sn \in DOMAIN rx_window, sn = seq % BUFFER_SIZE, rx_window[sn].seq # seq
    PROVE  {seq, rx_window[sn].seq} \subseteq clashed'
<1>1. rx_window[sn].seq \in Strangers(seq)
  BY DEF Strangers
<1>2. clashed' = clashed \union (IF Strangers(seq) = {} THEN {} ELSE {seq} \union Strangers(seq))
  BY Zenon DEF Arrive
<1> QED
  BY <1>1, <1>2

LEMMA KeptStep ==
    ASSUME TypeOK, Holding, Kept, [UNext]_uvars PROVE Kept'
<1>1. ASSUME UNCHANGED <<rx_window, arrived, delivered, clashed>> PROVE Kept'
  BY <1>1 DEF Kept, Arrived
<1>2. ASSUME NEW seq \in SeqNum, NEW last, Arrive(seq, last) PROVE Kept'
  <2>1. PICK win : /\ HandsOver(win)
                   /\ Numbers(win) \subseteq Numbers(rx_window) \union {seq}
                   /\ \A sn \in DOMAIN rx_window :
                        sn = seq % BUFFER_SIZE \/ rx_window[sn].seq \in Numbers(win)
                   /\ \/ seq \in Numbers(win)
                      \/ \E sn \in DOMAIN rx_window :
                           sn = seq % BUFFER_SIZE /\ rx_window[sn].seq \in Numbers(win)
    BY <1>2, ArriveHandsOver, Zenon DEF Holding
  <2>2. Log /\ arrived' = [arrived EXCEPT ![seq] = @ + 1] /\ clashed \subseteq clashed'
    <3>1. clashed' = clashed \union (IF Strangers(seq) = {} THEN {} ELSE {seq} \union Strangers(seq))
      BY <1>2, Zenon DEF Arrive
    <3> QED
      BY <1>2, <3>1, Zenon DEF Arrive
  <2>3. Arrived' \subseteq Arrived \union {seq}
    BY <2>2 DEF Arrived, Holding
  <2>4. ASSUME NEW s \in Arrived', s \notin clashed'
        PROVE  s \in ToSet(delivered) \union Numbers(win)
    <3>1. CASE s = seq
      <4>1. \A sn \in DOMAIN rx_window : sn = seq % BUFFER_SIZE => rx_window[sn].seq = seq
        BY <1>2, <2>4, <3>1, Met
      <4> QED
        BY <2>1, <3>1, <4>1
    <3>2. CASE s # seq
      <4>1. s \in ToSet(delivered) \union Numbers(rx_window)
        BY <2>2, <2>3, <2>4, <3>2 DEF Kept
      <4>2. ASSUME NEW sn \in DOMAIN rx_window, rx_window[sn].seq = s PROVE s \in Numbers(win)
        <5>1. sn # seq % BUFFER_SIZE
          BY <1>2, <2>4, <3>2, <4>2, Met
        <5> QED
          BY <2>1, <4>2, <5>1
      <4> QED
        BY <4>1, <4>2 DEF Numbers
    <3> QED
      BY <3>1, <3>2
  <2>5. ToSet(delivered') \union Numbers(rx_window') = ToSet(delivered) \union Numbers(win)
    BY <2>1, <2>2, HandedOver, Zenon
  <2> QED
    BY <2>4, <2>5 DEF Kept
<1>3. CASE Expire
  <2>1. HandsOver(rx_window) /\ Log /\ UNCHANGED <<arrived, clashed>>
    BY <1>3, ExpireHandsOver DEF Expire, Holding
  <2>2. Arrived' = Arrived
    BY <2>1 DEF Arrived
  <2>3. ToSet(delivered') \union Numbers(rx_window') = ToSet(delivered) \union Numbers(rx_window)
    BY <2>1, HandedOver, Zenon
  <2> QED
    BY <2>1, <2>2, <2>3 DEF Kept
<1>4. CASE Send
  BY <1>1, <1>4, Zenon DEF Send, vars, window
<1>5. ASSUME NEW seq \in SeqNum, Lose(seq) PROVE Kept'
  BY <1>1, <1>5, Zenon DEF Lose, vars, window
<1>6. CASE Tick
  BY <1>1, <1>6, Zenon DEF Tick, TimerTick, window
<1>7. CASE UNCHANGED uvars
  BY <1>1, <1>7, Zenon DEF uvars, uplink, vars, window
<1> QED
  BY <1>2, <1>3, <1>4, <1>5, <1>6, <1>7, Zenon DEF UNext

\* The receiver loses nothing that arrived, for any number of packets and laps of the
\* ring: whatever was lost, overtaken, duplicated or given up before it, a packet was
\* delivered or is in the window, unless it met a packet of another lap there.
THEOREM NothingElseLost == USpec => []NothingLost
<1>1. UInit => Holding /\ Copies /\ Kept
  BY CopiesInit, KeptInit
<1>2. TypeOK /\ Holding /\ Copies /\ Kept /\ [UNext]_uvars => Holding' /\ Copies' /\ Kept'
  BY CopiesStep, KeptStep
<1>3. Kept => NothingLost
  BY Zenon DEF Kept, NothingLost, Buffered, Numbers
<1> QED
  BY <1>1, <1>2, <1>3, ReceiverType, PTL DEF USpec

\* The numbers of one lap of the ring: each has a slot of its own.
LEMMA OneLapSlot ==
    ASSUME MaxSent <= BUFFER_SIZE, NEW seq \in SeqNum PROVE seq % BUFFER_SIZE = seq
<1>1. seq \in 0 .. BUFFER_SIZE - 1 /\ BUFFER_SIZE \in Nat /\ BUFFER_SIZE > 0
  BY UplinkAssumption, Halves
<1> QED
  BY <1>1, ModSmall

\* So within a lap no packet meets one of another lap.
LEMMA OneLapStep ==
    ASSUME MaxSent <= BUFFER_SIZE, Holding, clashed = {}, [UNext]_uvars PROVE clashed' = {}
<1>1. ASSUME NEW seq \in SeqNum, NEW last, Arrive(seq, last) PROVE clashed' = {}
  <2>1. clashed' = clashed \union (IF Strangers(seq) = {} THEN {} ELSE {seq} \union Strangers(seq))
    BY <1>1, Zenon DEF Arrive
  <2>2. Strangers(seq) = {}
    <3>1. \A sn \in DOMAIN rx_window : rx_window[sn].seq \in SeqNum /\ rx_window[sn].seq = sn
      BY OneLapSlot DEF Holding, Slotted
    <3>2. seq % BUFFER_SIZE = seq
      BY OneLapSlot
    <3> QED
      BY <3>1, <3>2 DEF Strangers
  <2> QED
    BY <2>1, <2>2
<1>2. CASE Send \/ Tick \/ Expire
  BY <1>2, Zenon DEF Send, Tick, Expire
<1>3. ASSUME NEW seq \in SeqNum, Lose(seq) PROVE clashed' = {}
  BY <1>3, Zenon DEF Lose
<1>4. CASE UNCHANGED uvars
  BY <1>4, Zenon DEF uvars, uplink
<1> QED
  BY <1>1, <1>2, <1>3, <1>4, Zenon DEF UNext

\* Within one lap of the ring nothing that arrived is lost, without exception.
THEOREM OneLapNothingLost ==
    ASSUME MaxSent <= BUFFER_SIZE
    PROVE  USpec => [](Arrived \subseteq ToSet(delivered) \union Buffered)
<1>1. UInit => Holding /\ Copies /\ clashed = {}
  BY CopiesInit, Zenon DEF UInit
<1>2. TypeOK /\ Holding /\ Copies /\ clashed = {} /\ [UNext]_uvars
        => Holding' /\ Copies' /\ (clashed = {})'
  BY CopiesStep, OneLapStep
<1>3. clashed = {} /\ NothingLost => Arrived \subseteq ToSet(delivered) \union Buffered
  BY DEF NothingLost
<1> QED
  BY <1>1, <1>2, <1>3, ReceiverType, NothingElseLost, PTL DEF USpec
=============================================================================
