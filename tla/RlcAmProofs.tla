------------------------------- MODULE RlcAmProofs -------------------------------
(***************************************************************************)
(* Proofs about a bearer in acknowledged mode, for every number of         *)
(* sequence numbers, whatever HARQ loses, however often a PDU is sent      *)
(* again and however grants cut it.                                        *)
(*                                                                         *)
(* Types is the inductive invariant of RlcAmTypeOK: it adds that what is   *)
(* left of a PDU cut in segments is never empty, whatever acknowledgement  *)
(* comes between.  WindowInv, with Types, is that of WindowsAgree.  It     *)
(* says where all numbers are relative to vt_a, also those of PDUs and     *)
(* reports under way: a report is about the past, and its ack_sn must not  *)
(* be taken for a number of the next round.  ContentInv, with both, is     *)
(* that of ReleasedReceived and of InOrder: the payloads in tx_window are  *)
(* the stream of SDUs piece by piece, and what is under way, buffered or   *)
(* put together is what tx_window has for its number.                      *)
(***************************************************************************)
EXTENDS RlcAm, Arithmetic, FiniteSetTheorems, SequenceTheorems, TLAPS

-----------------------------------------------------------------------------
(* Numbers in a ring                                                       *)

LEMMA Sizes ==
    /\ MOD \in Nat /\ MOD > 0 /\ RLC_AM_WINDOW_SIZE \in Nat /\ RLC_AM_WINDOW_SIZE > 1
    /\ MOD = 2 * RLC_AM_WINDOW_SIZE
BY StreamAssumption, SnAssumption

LEMMA ShiftType == ASSUME NEW sn \in SN, NEW k \in Int PROVE Shift(sn, k) \in SN
<1>1. sn + k \in Int /\ MOD \in Nat /\ MOD > 0
  BY Sizes DEF SN
<1>2. (sn + k) % MOD \in 0 .. MOD - 1
  BY <1>1, ModDef
<1> QED
  BY <1>2 DEF Shift, SN

LEMMA BaseType ==
    ASSUME NEW sn \in SN, NEW base \in SN
    PROVE  MOD_BASE(sn, base) \in 0 .. MOD - 1
<1>1. sn \in Int /\ base \in Int /\ MOD \in Nat /\ MOD > 0
  BY Sizes DEF SN
<1> QED
  BY <1>1, AheadType DEF MOD_BASE, AheadBy

LEMMA BaseSelf == ASSUME NEW base \in SN PROVE MOD_BASE(base, base) = 0
<1>1. base \in Int /\ MOD \in Nat /\ MOD > 0 /\ base - base = 0 /\ 0 \in 0 .. MOD - 1
  BY Sizes DEF SN
<1> QED
  BY <1>1, ModSmall DEF MOD_BASE

LEMMA BaseShift ==
    ASSUME NEW sn \in SN, NEW base \in SN, NEW k \in 0 .. MOD
    PROVE  MOD_BASE(Shift(sn, k), base) =
             IF MOD_BASE(sn, base) + k < MOD THEN MOD_BASE(sn, base) + k
                                             ELSE MOD_BASE(sn, base) + k - MOD
<1> DEFINE x == MOD_BASE(sn, base)
<1>1. sn \in Int /\ base \in Int /\ MOD \in Nat /\ MOD > 0 /\ k \in Int
  BY Sizes DEF SN
<1>2. x \in 0 .. MOD - 1
  BY BaseType
<1>3. MOD_BASE(Shift(sn, k), base) = (x + k) % MOD
  BY <1>1, AheadShift DEF MOD_BASE, AheadBy, Shift
<1> HIDE DEF x
<1>4. x + k \in Int /\ -MOD <= x + k /\ x + k < 2 * MOD /\ ~ x + k < 0
  BY <1>1, <1>2
<1>5. (x + k) % MOD = IF x + k < MOD THEN x + k ELSE x + k - MOD
  <2> DEFINE y == x + k
  <2>1. y \in Int /\ -MOD <= y /\ y < 2 * MOD /\ ~ y < 0
    BY <1>4
  <2>3. y = x + k
    OBVIOUS
  <2> HIDE DEF y
  <2>2. y % MOD = IF y < MOD THEN y ELSE y - MOD
    BY <1>1, <2>1, Wrap
  <2> QED
    BY <1>1, <1>2, <2>1, <2>2, <2>3
<1> QED
  BY <1>3, <1>5 DEF x

\* A number seen from another one than base.
LEMMA BaseVia ==
    ASSUME NEW sn \in SN, NEW base \in SN, NEW other \in SN
    PROVE  MOD_BASE(sn, other) =
             IF MOD_BASE(sn, base) >= MOD_BASE(other, base)
               THEN MOD_BASE(sn, base) - MOD_BASE(other, base)
               ELSE MOD_BASE(sn, base) - MOD_BASE(other, base) + MOD
<1> DEFINE x == MOD_BASE(sn, base)
           y == MOD_BASE(other, base)
<1>1. sn \in Int /\ base \in Int /\ other \in Int /\ MOD \in Nat /\ MOD > 0
  BY Sizes DEF SN
<1>2. x \in 0 .. MOD - 1 /\ y \in 0 .. MOD - 1
  BY BaseType
<1>3. MOD_BASE(sn, other) = (x - y) % MOD
  <2>1. AheadBy(MOD, sn, other) = (AheadBy(MOD, sn, base) - AheadBy(MOD, other, base)) % MOD
    BY <1>1, AheadVia, Zenon
  <2> QED
    BY <2>1, Zenon DEF MOD_BASE, AheadBy
<1> HIDE DEF x, y
<1>4. x - y \in Int /\ -MOD <= x - y /\ x - y < 2 * MOD /\ x - y < MOD
  BY <1>1, <1>2
<1>5. (x - y) % MOD = IF x - y < 0 THEN x - y + MOD ELSE x - y
  BY <1>1, <1>4, Wrap
<1>6. x - y < 0 <=> ~ x >= y
  BY <1>2
<1> QED
  BY <1>3, <1>5, <1>6 DEF x, y

LEMMA ShiftBase ==
    ASSUME NEW sn \in SN, NEW base \in SN
    PROVE  Shift(base, MOD_BASE(sn, base)) = sn
<1>1. base \in Int /\ MOD \in Nat /\ MOD > 0 /\ sn \in 0 .. MOD - 1
  BY Sizes DEF SN
<1> QED
  BY <1>1, AheadTo DEF MOD_BASE, AheadBy, Shift

LEMMA BaseOfShift ==
    ASSUME NEW base \in SN, NEW k \in 0 .. MOD - 1
    PROVE  MOD_BASE(Shift(base, k), base) = k
<1>1. k \in 0 .. MOD /\ k < MOD /\ k \in Int
  BY Sizes
<1>2. MOD_BASE(Shift(base, k), base) = IF 0 + k < MOD THEN 0 + k ELSE 0 + k - MOD
  BY <1>1, BaseShift, BaseSelf
<1> QED
  BY <1>1, <1>2

LEMMA BaseSame ==
    ASSUME NEW sn \in SN, NEW other \in SN, NEW base \in SN,
           MOD_BASE(sn, base) = MOD_BASE(other, base)
    PROVE  sn = other
BY ShiftBase

LEMMA ShiftShift ==
    ASSUME NEW sn \in SN, NEW j \in Nat, NEW k \in Nat, j + k <= MOD
    PROVE  Shift(Shift(sn, j), k) = Shift(sn, j + k)
<1>1. sn + j \in Int /\ k \in Int /\ MOD \in Nat /\ MOD > 0 /\ (sn + j) + k = sn + (j + k)
  BY Sizes DEF SN
<1>2. (((sn + j) % MOD) + k) % MOD = ((sn + j) + k) % MOD
  BY <1>1, ModAdd, Zenon
<1> QED
  BY <1>1, <1>2 DEF Shift

-----------------------------------------------------------------------------
(* Maps from sequence numbers, and sets in order                           *)

Maps(V) == UNION {[D -> V] : D \in SUBSET SN}

LEMMA MapOf ==
    ASSUME NEW V, NEW f \in Maps(V)
    PROVE  /\ DOMAIN f \subseteq SN /\ f = [sn \in DOMAIN f |-> f[sn]]
           /\ \A sn \in DOMAIN f : f[sn] \in V
<1>1. PICK D \in SUBSET SN : f \in [D -> V]
  BY Zenon DEF Maps
<1> QED
  BY <1>1

LEMMA IsMap == ASSUME NEW V, NEW D \in SUBSET SN, NEW f \in [D -> V] PROVE f \in Maps(V)
BY Zenon DEF Maps

LEMMA EmptyMap == ASSUME NEW V PROVE <<>> \in Maps(V) /\ DOMAIN <<>> = {}
<1>1. <<>> \in [{} -> V] /\ {} \in SUBSET SN
  OBVIOUS
<1> QED
  BY <1>1, IsMap

LEMMA KeepMap ==
    ASSUME NEW V, NEW f \in Maps(V), NEW S
    PROVE  /\ Keep(f, S) \in Maps(V) /\ DOMAIN Keep(f, S) = DOMAIN f \intersect S
           /\ \A sn \in DOMAIN Keep(f, S) : Keep(f, S)[sn] = f[sn]
<1> DEFINE D == DOMAIN f \intersect S
           g == [sn \in D |-> f[sn]]
<1>1. D \in SUBSET SN /\ \A sn \in D : f[sn] \in V
  BY MapOf, Zenon
<1>2. g \in [D -> V]
  BY <1>1, Zenon
<1>3. g \in Maps(V)
  BY <1>1, <1>2, IsMap, Zenon
<1>4. DOMAIN g = D /\ \A sn \in D : g[sn] = f[sn]
  OBVIOUS
<1> QED
  BY <1>3, <1>4, Zenon DEF Keep

LEMMA PutMap ==
    ASSUME NEW V, NEW f \in Maps(V), NEW sn \in SN, NEW v \in V
    PROVE  /\ Put(f, sn, v) \in Maps(V) /\ DOMAIN Put(f, sn, v) = DOMAIN f \union {sn}
           /\ Put(f, sn, v)[sn] = v /\ \A x \in DOMAIN f : x # sn => Put(f, sn, v)[x] = f[x]
<1> DEFINE D == DOMAIN f \union {sn}
           g == [x \in D |-> IF x = sn THEN v ELSE f[x]]
<1>1. D \in SUBSET SN /\ \A x \in DOMAIN f : f[x] \in V
  BY MapOf
<1>2. \A x \in D : (IF x = sn THEN v ELSE f[x]) \in V
  BY <1>1
<1>3. g \in [D -> V]
  BY <1>2, Zenon
<1>4. g \in Maps(V)
  BY <1>1, <1>3, IsMap, Zenon
<1>5. DOMAIN g = D /\ g[sn] = v /\ \A x \in DOMAIN f : x # sn => g[x] = f[x]
  OBVIOUS
<1> QED
  BY <1>4, <1>5, Zenon DEF Put

\* How many numbers from sn on are there.
LEMMA RunLengthIs ==
    ASSUME NEW win, NEW sn \in SN
    PROVE  /\ RunLength(win, sn) \in 0 .. MOD
           /\ RunLength(win, sn) = MOD \/ Shift(sn, RunLength(win, sn)) \notin DOMAIN win
           /\ \A j \in 0 .. RunLength(win, sn) - 1 : Shift(sn, j) \in DOMAIN win
<1> DEFINE T == {n \in 0 .. MOD : n = MOD \/ Shift(sn, n) \notin DOMAIN win}
<1>1. T \subseteq Nat /\ MOD \in T
  BY Sizes
<1> HIDE DEF T
<1>2. \E x \in T : \A y \in T : x =< y
  BY <1>1, LeastOf
<1>3. RunLength(win, sn) = Min(T)
  BY Zenon DEF RunLength, T
<1>4. RunLength(win, sn) \in T /\ \A y \in T : RunLength(win, sn) =< y
  BY <1>2, <1>3 DEF Min
<1> DEFINE n == RunLength(win, sn)
<1> HIDE DEF n
<1>5. n \in T /\ \A y \in T : n =< y
  BY <1>4 DEF n
<1>6. n \in 0 .. MOD /\ (n = MOD \/ Shift(sn, n) \notin DOMAIN win)
  BY <1>5 DEF T
<1>7. ASSUME NEW j \in 0 .. n - 1 PROVE Shift(sn, j) \in DOMAIN win
  <2> SUFFICES ASSUME Shift(sn, j) \notin DOMAIN win PROVE FALSE
    OBVIOUS
  <2>1. j \in 0 .. MOD /\ ~ n =< j
    BY <1>6, Sizes
  <2>2. j \in T
    BY <2>1 DEF T
  <2> QED
    BY <1>5, <2>1, <2>2
<1> QED
  BY <1>6, <1>7 DEF n

\* The k-th of a finite set of numbers is the one with k - 1 before it.
Before(T, x) == {y \in T : y < x}

LEMMA BeforeNext ==
    ASSUME NEW T, IsFiniteSet(T), T \subseteq Int, NEW x \in T
    PROVE  /\ IsFiniteSet(Before(T, x)) /\ Cardinality(Before(T, x)) \in Nat
           /\ IsFiniteSet(Before(T, x) \union {x})
           /\ Cardinality(Before(T, x) \union {x}) = Cardinality(Before(T, x)) + 1
<1>1. Before(T, x) \subseteq T /\ x \notin Before(T, x)
  BY DEF Before
<1>2. IsFiniteSet(Before(T, x))
  BY <1>1, FS_Subset
<1> QED
  BY <1>1, <1>2, FS_CardinalityType, FS_AddElement

LEMMA NthUnique ==
    ASSUME NEW T, IsFiniteSet(T), T \subseteq Int, NEW x \in T, NEW y \in T,
           Cardinality(Before(T, x)) = Cardinality(Before(T, y))
    PROVE  x = y
<1>1. ASSUME NEW a \in T, NEW b \in T, a < b
      PROVE  Cardinality(Before(T, a)) # Cardinality(Before(T, b))
  <2>1. Before(T, a) \union {a} \subseteq Before(T, b)
    <3>1. ASSUME NEW w \in T, w < a PROVE w < b
      <4>1. w \in Int /\ a \in Int /\ b \in Int
        BY <1>1
      <4> QED
        BY <1>1, <3>1, <4>1
    <3> QED
      BY <1>1, <3>1, Zenon DEF Before
  <2>2. IsFiniteSet(Before(T, b)) /\ Cardinality(Before(T, b)) \in Nat
    BY BeforeNext
  <2>3. Cardinality(Before(T, a) \union {a}) <= Cardinality(Before(T, b))
    BY <2>1, <2>2, FS_Subset, Zenon
  <2>4. Cardinality(Before(T, a)) \in Nat
        /\ Cardinality(Before(T, a) \union {a}) = Cardinality(Before(T, a)) + 1
    BY BeforeNext
  <2> QED
    BY <2>2, <2>3, <2>4
<1>2. x \in Int /\ y \in Int
  OBVIOUS
<1> QED
  BY <1>1, <1>2

LEMMA NthExists ==
    ASSUME NEW T, IsFiniteSet(T), T \subseteq Nat, NEW k \in 1 .. Cardinality(T)
    PROVE  \E x \in T : Cardinality(Before(T, x)) = k - 1
<1> DEFINE m == Cardinality(T)
           S == {j \in 0 .. m : j = 0 \/ \E x \in T : Cardinality(Before(T, x)) = j - 1}
<1>1. m \in Nat /\ k \in 1 .. m
  BY FS_CardinalityType
<1>2. 0 \in S
  BY <1>1
<1>3. ASSUME NEW j \in 0 .. m - 1, j \in S PROVE j + 1 \in S
  <2> SUFFICES \E x \in T : Cardinality(Before(T, x)) = j
    <3>1. j + 1 \in 0 .. m /\ j + 1 - 1 = j
      BY <1>1
    <3> QED
      BY <3>1
  <2>1. CASE j = 0
    <3>1. T # {}
      BY <1>1, FS_EmptySet
    <3>2. PICK x \in T : \A y \in T : x <= y
      BY <3>1, LeastOf
    <3>3. Before(T, x) = {}
      <4>1. ASSUME NEW y \in T, y < x PROVE FALSE
        <5>1. y \in Nat /\ x \in Nat /\ x <= y
          BY <3>2
        <5> QED
          BY <4>1, <5>1
      <4> QED
        BY <4>1, Zenon DEF Before
    <3> QED
      BY <2>1, <3>2, <3>3, FS_EmptySet
  <2>2. CASE j # 0
    <3>1. PICK x \in T : Cardinality(Before(T, x)) = j - 1
      BY <1>3, <2>2
    <3> DEFINE U == {y \in T : y > x}
               P == Before(T, x) \union {x}
    <3>2. IsFiniteSet(P) /\ Cardinality(P) = j
      <4>1. T \subseteq Int /\ j \in Int
        BY <1>1
      <4>2. IsFiniteSet(P) /\ Cardinality(P) = Cardinality(Before(T, x)) + 1
        BY <4>1, BeforeNext, Zenon
      <4> QED
        BY <3>1, <4>1, <4>2
    <3>3. U # {}
      <4> SUFFICES ASSUME U = {} PROVE FALSE
        OBVIOUS
      <4>1. ASSUME NEW y \in T PROVE y = x \/ y < x
        <5>1. y \in Nat /\ x \in Nat /\ ~ y > x
          BY <3>1
        <5> QED
          BY <5>1
      <4>2. T = P
        BY <4>1, Zenon DEF Before
      <4> HIDE DEF P
      <4> QED
        BY <1>1, <3>2, <4>2
    <3>4. PICK z \in U : \A y \in U : z <= y
      <4>1. U \subseteq Nat
        OBVIOUS
      <4> HIDE DEF U
      <4> QED
        BY <3>3, <4>1, LeastOf
    <3>5. Before(T, z) = P
      <4>1. ASSUME NEW y \in T PROVE y < z <=> y < x \/ y = x
        <5>1. y \in Nat /\ x \in Nat /\ z \in Nat /\ z > x /\ (y > x => z <= y)
          BY <3>4
        <5> QED
          BY <5>1
      <4> QED
        BY <4>1, <3>1, Zenon DEF Before
    <3> QED
      BY <3>2, <3>4, <3>5
  <2> QED
    BY <2>1, <2>2
<1> HIDE DEF S
<1>4. \A j \in 0 .. m : j \in S
  BY <1>1, <1>2, <1>3, UpTo
<1>5. k \in S /\ k # 0
  BY <1>1, <1>4
<1> QED
  BY <1>5 DEF S

LEMMA NthOf ==
    ASSUME NEW T, IsFiniteSet(T), T \subseteq Nat, NEW k \in 1 .. Cardinality(T)
    PROVE  /\ (CHOOSE x \in T : Cardinality({y \in T : y < x}) = k - 1) \in T
           /\ \A x \in T : Cardinality(Before(T, x)) = k - 1 =>
                (CHOOSE y \in T : Cardinality({z \in T : z < y}) = k - 1) = x
<1> DEFINE c == CHOOSE x \in T : Cardinality({y \in T : y < x}) = k - 1
<1>1. c \in T /\ Cardinality({y \in T : y < c}) = k - 1
  BY NthExists, Zenon DEF Before
<1> HIDE DEF c
<1>2. Cardinality(Before(T, c)) = k - 1
  BY <1>1 DEF Before
<1>3. ASSUME NEW x \in T, Cardinality(Before(T, x)) = k - 1 PROVE c = x
  <2>1. T \subseteq Int
    OBVIOUS
  <2> QED
    BY <1>1, <1>2, <1>3, <2>1, NthUnique
<1> QED
  BY <1>1, <1>3, Zenon DEF c

-----------------------------------------------------------------------------
(* Types                                                                   *)

Payload == Seq(0 .. MaxSdu * SduUnits - 1)

Retx == [sn : SN, so : Nat]

Pdus == [sn : SN, p : BOOLEAN, rf : BOOLEAN, so : Nat, lsf : BOOLEAN, buf : Payload,
         first : BOOLEAN, late : BOOLEAN]

\* Of a PDU in the window that is to be sent again, some is left to send.
Fits(queue, win) ==
    \A i \in DOMAIN queue : queue[i].sn \in DOMAIN win => queue[i].so < Len(win[queue[i].sn])

TxTypes ==
    /\ written \in 0 .. MaxSdu /\ taken \in 0 .. written * SduUnits
    /\ vt_a \in SN /\ vt_s \in SN
    /\ tx_window \in Maps(Payload \ {<<>>})
    /\ retx_queue \in Seq(Retx) /\ Fits(retx_queue, tx_window)
    /\ poll_retx_timer \in {"stopped", "running", "expired"}

RxTypes ==
    /\ vr_r \in SN /\ vr_x \in SN /\ vr_ms \in SN /\ vr_h \in SN
    /\ rx_window \in Maps(Payload)
    /\ rx_segments \in Maps([so : Nat, buf : Payload, lsf : BOOLEAN])
    /\ reordering_timer \in BOOLEAN
    /\ rx_sdu \in Payload /\ delivered \in Seq(Payload)
    /\ report \in [ack_sn : SN, nacks : SUBSET SN, made : BOOLEAN]

LinkTypes ==
    /\ air \in Seq(Pdus)
    /\ reports \in Seq([ack_sn : SN, nacks : SUBSET SN, late : BOOLEAN])

Types == TxTypes /\ RxTypes /\ LinkTypes

-----------------------------------------------------------------------------
(* What is to be sent again                                                *)

LEMMA RandomPduIs ==
    ASSUME TxTypes, NEW queue \in Seq(Retx), Fits(queue, tx_window), NEW q \in RandomPdu(queue)
    PROVE  /\ q \in Seq(Retx) /\ Fits(q, tx_window)
           /\ \A i \in DOMAIN q : q[i].sn \in DOMAIN tx_window \/ (i \in DOMAIN queue /\ q[i] = queue[i])
           /\ DOMAIN tx_window # {} => q # <<>> /\ q[Len(q)].sn \in DOMAIN tx_window
<1>1. CASE DOMAIN tx_window = {}
  BY <1>1 DEF RandomPdu
<1>2. CASE DOMAIN tx_window # {}
  <2>1. PICK sn \in DOMAIN tx_window : q = Append(queue, [sn |-> sn, so |-> 0])
    BY <1>2 DEF RandomPdu
  <2>2. sn \in SN /\ tx_window[sn] \in Seq(0 .. MaxSdu * SduUnits - 1) /\ tx_window[sn] # <<>>
    BY <2>1, MapOf DEF TxTypes, Payload
  <2> DEFINE e == [sn |-> sn, so |-> 0]
  <2>3. e \in Retx /\ e.sn = sn /\ e.so = 0
    BY <2>2 DEF Retx
  <2> HIDE DEF e
  <2>4. q = Append(queue, e)
    BY <2>1 DEF e
  <2>5. q \in Seq(Retx) /\ Len(q) = Len(queue) + 1 /\ q[Len(q)] = e
        /\ \A i \in DOMAIN q : (i \in DOMAIN queue /\ q[i] = queue[i]) \/ q[i] = e
    BY <2>3, <2>4
  <2>6. Len(tx_window[sn]) > 0
    BY <2>2
  <2>7. Fits(q, tx_window)
    <3> SUFFICES ASSUME NEW i \in DOMAIN q, q[i].sn \in DOMAIN tx_window
                 PROVE  q[i].so < Len(tx_window[q[i].sn])
      BY DEF Fits
    <3>1. CASE i \in DOMAIN queue /\ q[i] = queue[i]
      BY <3>1 DEF Fits
    <3>2. CASE q[i] = e
      BY <2>3, <2>6, <3>2
    <3> QED
      BY <2>5, <3>1, <3>2
  <2>8. \A i \in DOMAIN q : q[i].sn \in DOMAIN tx_window \/ (i \in DOMAIN queue /\ q[i] = queue[i])
    BY <2>1, <2>3, <2>5
  <2>9. q # <<>> /\ q[Len(q)].sn \in DOMAIN tx_window
    BY <2>1, <2>3, <2>5
  <2> QED
    BY <2>5, <2>7, <2>8, <2>9
<1> QED
  BY <1>1, <1>2

LEMMA DropAckedIs ==
    ASSUME NEW queue \in Seq(Retx), NEW win, win = tx_window, Fits(queue, win)
    PROVE  /\ DropAcked(queue) \in Seq(Retx) /\ Fits(DropAcked(queue), win)
           /\ \A i \in DOMAIN DropAcked(queue) : \E j \in DOMAIN queue : DropAcked(queue)[i] = queue[j]
           /\ DropAcked(queue) # <<>> => DropAcked(queue)[1].sn \in DOMAIN win
           /\ (\E i \in DOMAIN queue : queue[i].sn \in DOMAIN win) => DropAcked(queue) # <<>>
<1> DEFINE live == {i \in DOMAIN queue : queue[i].sn \in DOMAIN win}
           first == CHOOSE i \in live : \A j \in live : i <= j
           d == SubSeq(queue, first, Len(queue))
<1>1. CASE live = {}
  <2>1. DropAcked(queue) = <<>>
    BY <1>1 DEF DropAcked
  <2> QED
    BY <1>1, <2>1 DEF Fits
<1>2. CASE live # {}
  <2>1. live \subseteq Nat
    OBVIOUS
  <2>2. \E i \in live : \A j \in live : i <= j
    <3> HIDE DEF live
    <3> QED
      BY <1>2, <2>1, LeastOf
  <2>3. first \in live
    <3> HIDE DEF live
    <3> QED
      BY <2>2
  <2>4. DropAcked(queue) = d
    BY <1>2 DEF DropAcked
  <2>5. first \in 1 .. Len(queue) /\ queue[first].sn \in DOMAIN win
    BY <2>3
  <2> HIDE DEF first
  <2>6. /\ d \in Seq(Retx) /\ Len(d) = Len(queue) - first + 1
        /\ \A i \in 1 .. Len(queue) - first + 1 : d[i] = queue[first + i - 1]
    BY <2>5, SubSeqProperties
  <2> HIDE DEF d
  <2>7. DOMAIN d = 1 .. Len(queue) - first + 1
    BY <2>6
  <2>8. \A i \in DOMAIN d : first + i - 1 \in DOMAIN queue /\ d[i] = queue[first + i - 1]
    BY <2>5, <2>6, <2>7
  <2>9. d # <<>> /\ d[1] = queue[first]
    BY <2>5, <2>6, <2>7
  <2>10. Fits(d, win)
    BY <2>8, Zenon DEF Fits
  <2> QED
    BY <2>4, <2>5, <2>6, <2>8, <2>9, <2>10
<1> QED
  BY <1>1, <1>2

\* The queue read_pdu looks at.
LEMMA QueueIs ==
    ASSUME TxTypes,
           NEW queue \in IF WindowFull /\ retx_queue = <<>> THEN RandomPdu(<<>>) ELSE {retx_queue}
    PROVE  /\ queue \in Seq(Retx) /\ Fits(queue, tx_window)
           /\ \A i \in DOMAIN queue : queue[i].sn \in DOMAIN tx_window
                                        \/ (i \in DOMAIN retx_queue /\ queue[i] = retx_queue[i])
           /\ WindowFull /\ retx_queue = <<>> /\ DOMAIN tx_window # {} =>
                \E i \in DOMAIN queue : queue[i].sn \in DOMAIN tx_window
           /\ retx_queue # <<>> => queue = retx_queue
<1>1. CASE WindowFull /\ retx_queue = <<>>
  <2>1. queue \in RandomPdu(<<>>)
    BY <1>1
  <2>2. <<>> \in Seq(Retx) /\ Fits(<<>>, tx_window)
    BY DEF Fits
  <2>3. /\ queue \in Seq(Retx) /\ Fits(queue, tx_window)
        /\ \A i \in DOMAIN queue : queue[i].sn \in DOMAIN tx_window \/ (i \in DOMAIN <<>> /\ queue[i] = <<>>[i])
        /\ DOMAIN tx_window # {} => queue # <<>> /\ queue[Len(queue)].sn \in DOMAIN tx_window
    BY <2>1, <2>2, RandomPduIs, Zenon
  <2>4. queue # <<>> => Len(queue) \in DOMAIN queue
    BY <2>3
  <2> QED
    BY <1>1, <2>3, <2>4
<1>2. CASE ~ (WindowFull /\ retx_queue = <<>>)
  BY <1>2 DEF TxTypes
<1> QED
  BY <1>1, <1>2

-----------------------------------------------------------------------------
(* The sending side keeps its types                                        *)

LEMMA Products == /\ SduUnits \in Nat /\ SduUnits > 0 /\ MaxSdu \in Nat
                  /\ \A n \in 0 .. MaxSdu : n * SduUnits \in Nat /\ n * SduUnits <= MaxSdu * SduUnits
<1>1. SduUnits \in Nat /\ SduUnits > 0 /\ MaxSdu \in Nat
  BY StreamAssumption, TxAssumption
<1>2. ASSUME NEW n \in 0 .. MaxSdu PROVE n * SduUnits \in Nat /\ n * SduUnits <= MaxSdu * SduUnits
  <2>1. n \in Nat /\ MaxSdu - n \in Nat
    BY <1>1
  <2>2. MaxSdu * SduUnits = n * SduUnits + (MaxSdu - n) * SduUnits
    BY <1>1, <2>1
  <2>3. n * SduUnits \in Nat /\ (MaxSdu - n) * SduUnits \in Nat
    BY <1>1, <2>1
  <2> QED
    BY <2>2, <2>3
<1> QED
  BY <1>1, <1>2

LEMMA UnitsIs ==
    ASSUME NEW from \in Nat, NEW to \in Nat, from <= to
    PROVE  /\ Units(from, to) \in Seq(from .. to - 1) /\ Len(Units(from, to)) = to - from
           /\ \A i \in 1 .. to - from : Units(from, to)[i] = from + i - 1
<1> DEFINE n == to - from
<1>1. n \in Nat
  OBVIOUS
<1>2. \A i \in 1 .. n : from + i - 1 \in from .. to - 1
  OBVIOUS
<1> HIDE DEF n
<1> DEFINE u == [i \in 1 .. n |-> from + i - 1]
           V == from .. to - 1
<1> HIDE DEF V
<1>3. \A i \in 1 .. n : from + i - 1 \in V
  BY <1>2 DEF V
<1>4. u \in Seq(V) /\ Len(u) = n /\ \A i \in 1 .. n : u[i] = from + i - 1
  BY <1>1, <1>3
<1>5. Units(from, to) = u
  BY DEF Units, n
<1> HIDE DEF u
<1> QED
  BY <1>4, <1>5 DEF n, V

LEMMA UnitsPayload ==
    ASSUME NEW from \in Nat, NEW to \in Nat, from <= to, to <= MaxSdu * SduUnits
    PROVE  Units(from, to) \in Payload
<1> DEFINE V == from .. to - 1
           W == 0 .. MaxSdu * SduUnits - 1
<1>1. V \subseteq W
  BY Products
<1>2. Units(from, to) \in Seq(V)
  BY UnitsIs
<1> HIDE DEF V, W
<1>3. Units(from, to) \in Seq(W)
  BY <1>1, <1>2
<1> QED
  BY <1>3 DEF Payload, W

\* What is sent has the types of what is under way.
LEMMA SendType ==
    ASSUME LinkTypes, NEW pdu \in Pdus, SendPdu(pdu), UNCHANGED reports
    PROVE  LinkTypes'
BY DEF LinkTypes, SendPdu

LEMMA PollType ==
    ASSUME TxTypes, NEW p, SetPoll(p) PROVE poll_retx_timer' \in {"stopped", "running", "expired"}
BY DEF TxTypes, SetPoll

\* The head of what is to be sent again.
LEMMA HeadIs ==
    ASSUME TxTypes, NEW queue \in Seq(Retx), queue # <<>>, Fits(queue, tx_window),
           queue[1].sn \in DOMAIN tx_window
    PROVE  /\ Head(queue) = queue[1] /\ Head(queue).sn \in SN /\ Head(queue).so \in Nat
           /\ tx_window[Head(queue).sn] \in Payload /\ Head(queue).so < Len(tx_window[Head(queue).sn])
           /\ Tail(queue) \in Seq(Retx) /\ Len(Tail(queue)) = Len(queue) - 1
           /\ \A i \in DOMAIN Tail(queue) : i + 1 \in DOMAIN queue /\ Tail(queue)[i] = queue[i + 1]
           /\ Fits(Tail(queue), tx_window)
<1>1. Head(queue) = queue[1] /\ queue[1] \in Retx /\ 1 \in DOMAIN queue
  OBVIOUS
<1>2. queue[1].sn \in SN /\ queue[1].so \in Nat
  BY <1>1 DEF Retx
<1>3. tx_window[queue[1].sn] \in Payload
  BY MapOf DEF TxTypes
<1>4. queue[1].so < Len(tx_window[queue[1].sn])
  BY <1>1 DEF Fits
<1>5. /\ Tail(queue) \in Seq(Retx) /\ Len(Tail(queue)) = Len(queue) - 1
      /\ \A i \in DOMAIN Tail(queue) : i + 1 \in DOMAIN queue /\ Tail(queue)[i] = queue[i + 1]
  OBVIOUS
<1>6. Fits(Tail(queue), tx_window)
  BY <1>5, Zenon DEF Fits
<1> QED
  BY <1>1, <1>2, <1>3, <1>4, <1>5, <1>6

LEMMA BuildRetxPduTypes ==
    ASSUME TxTypes, LinkTypes, UNCHANGED reports, NEW grant \in Nat \ {0},
           NEW queue \in Seq(Retx), queue # <<>>, Fits(queue, tx_window),
           queue[1].sn \in DOMAIN tx_window, BuildRetxPdu(queue, grant)
    PROVE  TxTypes' /\ LinkTypes'
<1> DEFINE sn == Head(queue).sn
           p == poll_required(pdu_without_poll + 1, Queued, queue)
           pdu == [sn |-> sn, p |-> p, rf |-> FALSE, so |-> 0, lsf |-> FALSE,
                   buf |-> tx_window[sn], first |-> FALSE, late |-> FALSE]
<1>1. /\ SendPdu(pdu) /\ SetPoll(p) /\ retx_queue' = Tail(queue)
      /\ UNCHANGED <<written, taken, vt_a, vt_s, tx_window>>
  BY DEF BuildRetxPdu
<1>2. p \in BOOLEAN
  BY DEF poll_required
<1> HIDE DEF p
<1>3. pdu \in Pdus
  BY <1>2, HeadIs DEF Pdus
<1> HIDE DEF pdu
<1>4. LinkTypes'
  BY <1>1, <1>3, SendType
<1>5. Tail(queue) \in Seq(Retx) /\ Fits(Tail(queue), tx_window)
  BY HeadIs
<1>6. TxTypes'
  BY <1>1, <1>5, PollType DEF TxTypes
<1> QED
  BY <1>4, <1>6

LEMMA BuildSegmentTypes ==
    ASSUME TxTypes, LinkTypes, UNCHANGED reports, NEW grant \in Nat \ {0},
           NEW queue \in Seq(Retx), queue # <<>>, Fits(queue, tx_window),
           queue[1].sn \in DOMAIN tx_window, BuildSegment(queue, grant)
    PROVE  TxTypes' /\ LinkTypes'
<1> DEFINE retx == Head(queue)
           buf == tx_window[retx.sn]
           end == IF retx.so + grant < Len(buf) THEN retx.so + grant ELSE Len(buf)
           p == poll_required(pdu_without_poll + 1, Queued, queue)
           pdu == [sn |-> retx.sn, p |-> p, rf |-> TRUE, so |-> retx.so, lsf |-> end = Len(buf),
                   buf |-> SubSeq(buf, retx.so + 1, end), first |-> FALSE, late |-> FALSE]
           rest == [retx EXCEPT !.so = end]
<1>1. /\ SendPdu(pdu) /\ SetPoll(p)
      /\ retx_queue' = IF end = Len(buf) THEN Tail(queue) ELSE <<rest>> \o Tail(queue)
      /\ UNCHANGED <<written, taken, vt_a, vt_s, tx_window>>
  BY DEF BuildSegment
<1>2. p \in BOOLEAN
  BY DEF poll_required
<1>3. /\ retx.sn \in SN /\ retx.so \in Nat /\ buf \in Payload /\ retx.so < Len(buf)
      /\ Tail(queue) \in Seq(Retx) /\ Fits(Tail(queue), tx_window) /\ retx \in Retx
  BY HeadIs
<1>4. Len(buf) \in Nat
  BY <1>3 DEF Payload
<1>5. end \in Nat /\ end <= Len(buf) /\ retx.so < end
  BY <1>3, <1>4
<1>6. rest \in Retx /\ rest.sn = retx.sn /\ rest.so = end
  BY <1>3, <1>5 DEF Retx
<1>7. SubSeq(buf, retx.so + 1, end) \in Payload
  <2>1. retx.so + 1 \in 1 .. Len(buf) + 1 /\ end \in retx.so + 1 - 1 .. Len(buf)
    BY <1>3, <1>4, <1>5
  <2> DEFINE V == 0 .. MaxSdu * SduUnits - 1
             from == retx.so + 1
  <2>2. buf \in Seq(V) /\ from \in 1 .. Len(buf) + 1 /\ end \in from - 1 .. Len(buf)
    BY <1>3, <2>1 DEF Payload
  <2> HIDE DEF V, buf, from, end
  <2>3. SubSeq(buf, from, end) \in Seq(V)
    BY <2>2, SubSeqProperties
  <2> QED
    BY <2>3 DEF Payload, V, from
<1> HIDE DEF p, rest, end, retx
<1>8. pdu \in Pdus
  BY <1>2, <1>3, <1>7 DEF Pdus
<1> HIDE DEF pdu
<1>9. LinkTypes'
  BY <1>1, <1>8, SendType
<1>10. retx_queue' \in Seq(Retx) /\ Fits(retx_queue', tx_window)
  <2>1. CASE end = Len(buf)
    BY <1>1, <1>3, <2>1
  <2>2. CASE end # Len(buf)
    <3> DEFINE t == Tail(queue)
               q == <<rest>> \o t
    <3>1. t \in Seq(Retx) /\ Fits(t, tx_window)
      BY <1>3
    <3> HIDE DEF t
    <3>2. /\ q \in Seq(Retx)
          /\ \A i \in DOMAIN q : q[i] = rest \/ \E j \in DOMAIN t : q[i] = t[j]
      <4>1. q \in Seq(Retx) /\ Len(q) = Len(t) + 1 /\ q[1] = rest
            /\ \A i \in 2 .. Len(t) + 1 : q[i] = t[i - 1]
        BY <1>6, <3>1
      <4>2. \A i \in DOMAIN q : i = 1 \/ (i \in 2 .. Len(t) + 1 /\ i - 1 \in DOMAIN t)
        BY <3>1, <4>1
      <4> HIDE DEF q
      <4> QED
        BY <4>1, <4>2
    <3>3. rest.so < Len(tx_window[rest.sn])
      BY <1>4, <1>5, <1>6, <2>2
    <3>4. Fits(q, tx_window)
      <4> HIDE DEF q
      <4> SUFFICES ASSUME NEW i \in DOMAIN q, q[i].sn \in DOMAIN tx_window
                   PROVE  q[i].so < Len(tx_window[q[i].sn])
        BY DEF Fits
      <4>1. CASE q[i] = rest
        BY <3>3, <4>1
      <4>2. CASE \E j \in DOMAIN t : q[i] = t[j]
        BY <3>1, <4>2 DEF Fits
      <4> QED
        BY <3>2, <4>1, <4>2
    <3>5. retx_queue' = q
      BY <1>1, <2>2 DEF t
    <3> QED
      BY <3>2, <3>4, <3>5
  <2> QED
    BY <2>1, <2>2
<1>11. TxTypes'
  BY <1>1, <1>10, PollType DEF TxTypes
<1> QED
  BY <1>9, <1>11

LEMMA BuildDataPduTypes ==
    ASSUME TxTypes, LinkTypes, UNCHANGED reports, NEW grant \in Nat \ {0}, BuildDataPdu(grant)
    PROVE  TxTypes' /\ LinkTypes'
<1> DEFINE to == IF grant < Unsent THEN taken + grant ELSE taken + Unsent
           p == poll_required(pdu_without_poll + 1, written - (to + SduUnits - 1) \div SduUnits, <<>>)
           pdu == [sn |-> vt_s, p |-> p, rf |-> FALSE, so |-> 0, lsf |-> FALSE,
                   buf |-> Units(taken, to), first |-> TRUE, late |-> FALSE]
<1>1. /\ Unsent > 0 /\ SendPdu(pdu) /\ SetPoll(p) /\ taken' = to
      /\ tx_window' = Put(tx_window, vt_s, Units(taken, to)) /\ vt_s' = Shift(vt_s, 1)
      /\ retx_queue' = <<>> /\ UNCHANGED <<written, vt_a>>
  BY DEF BuildDataPdu
<1>2. p \in BOOLEAN
  BY DEF poll_required
<1>3. /\ written * SduUnits \in Nat /\ written * SduUnits <= MaxSdu * SduUnits /\ taken \in Nat
      /\ taken <= written * SduUnits
  BY Products DEF TxTypes
<1>4. /\ to \in Nat /\ taken < to /\ to <= written * SduUnits
  BY <1>1, <1>3 DEF Unsent
<1> HIDE DEF p, to
<1>5. Units(taken, to) \in Payload /\ Units(taken, to) # <<>>
  <2>1. taken <= to /\ to <= MaxSdu * SduUnits
    BY <1>3, <1>4, Products
  <2>2. Units(taken, to) \in Payload
    BY <1>3, <1>4, <2>1, UnitsPayload
  <2>3. Len(Units(taken, to)) = to - taken
    BY <1>3, <1>4, <2>1, UnitsIs
  <2>4. Len(Units(taken, to)) # 0
    BY <1>3, <1>4, <2>3
  <2> QED
    BY <2>2, <2>4
<1>6. pdu \in Pdus
  BY <1>2, <1>5 DEF Pdus, TxTypes
<1> HIDE DEF pdu
<1>7. LinkTypes'
  BY <1>1, <1>6, SendType
<1>8. tx_window' \in Maps(Payload \ {<<>>})
  BY <1>1, <1>5, PutMap DEF TxTypes
<1>9. vt_s' \in SN
  BY <1>1, ShiftType DEF TxTypes
<1>10. retx_queue' \in Seq(Retx) /\ Fits(retx_queue', tx_window')
  BY <1>1 DEF Fits
<1>11. taken' \in 0 .. written * SduUnits
  BY <1>1, <1>3, <1>4
<1>12. TxTypes'
  BY <1>1, <1>8, <1>9, <1>10, <1>11, PollType DEF TxTypes
<1> QED
  BY <1>7, <1>12

\* What a report has sent again: what waited already, unless it is flushed, then PDUs
\* of the window, from their start.
LEMMA AgainIs ==
    ASSUME TxTypes, NEW status, HandleControlPdu(status)
    PROVE  \E old, new \in Seq(Retx) :
             /\ old = <<>> \/ old = retx_queue
             /\ \A i \in DOMAIN new : new[i].sn \in DOMAIN tx_window /\ new[i].so = 0
             /\ retx_queue' = old \o new
<1> DEFINE nacked == {n \in Examined(status) : Shift(vt_a, n) \in status.nacks}
           old == IF status.nacks = {} THEN retx_queue ELSE <<>>
           again == {n \in nacked : /\ Shift(vt_a, n) \in DOMAIN tx_window
                                    /\ \A i \in DOMAIN old : old[i].sn # Shift(vt_a, n)}
           offset(i) == CHOOSE n \in again : Cardinality({m \in again : m < n}) = i - 1
           new == [i \in 1 .. Cardinality(again) |-> [sn |-> Shift(vt_a, offset(i)), so |-> 0]]
<1>1. retx_queue' = old \o new
  BY DEF HandleControlPdu
<1>2. again \subseteq 0 .. MOD - 1 /\ again \subseteq Nat /\ \A n \in again : Shift(vt_a, n) \in DOMAIN tx_window
  BY Sizes DEF Examined
<1>3. IsFiniteSet(again)
  <2>1. IsFiniteSet(0 .. MOD - 1)
    BY Sizes, FS_Interval
  <2> QED
    BY <1>2, <2>1, FS_Subset
<1>4. Cardinality(again) \in Nat
  BY <1>3, FS_CardinalityType
<1>5. old \in Seq(Retx) /\ (old = <<>> \/ old = retx_queue)
  BY DEF TxTypes
<1> HIDE DEF again, old
<1>6. ASSUME NEW i \in 1 .. Cardinality(again)
      PROVE  Shift(vt_a, offset(i)) \in DOMAIN tx_window
  <2>1. offset(i) \in again
    BY <1>2, <1>3, NthOf
  <2> QED
    BY <1>2, <2>1
<1> HIDE DEF offset
<1>7. ASSUME NEW i \in 1 .. Cardinality(again)
      PROVE  [sn |-> Shift(vt_a, offset(i)), so |-> 0] \in Retx
  <2>1. Shift(vt_a, offset(i)) \in SN
    BY <1>6, MapOf DEF TxTypes
  <2> QED
    BY <2>1 DEF Retx
<1>8. new \in Seq(Retx) /\ DOMAIN new = 1 .. Cardinality(again)
  BY <1>4, <1>7
<1>9. \A i \in DOMAIN new : new[i].sn \in DOMAIN tx_window /\ new[i].so = 0
  BY <1>6, <1>8
<1> HIDE DEF new
<1> QED
  BY <1>1, <1>5, <1>8, <1>9

\* Acknowledged numbers are some of those from vt_a on.
LEMMA AckedType ==
    ASSUME NEW status
    PROVE  /\ Acked(status) \subseteq 0 .. MOD - 1 /\ IsFiniteSet(Acked(status))
           /\ Cardinality(Acked(status)) \in Nat
<1>1. Acked(status) \subseteq 0 .. MOD - 1
  BY DEF Acked, Examined
<1>2. IsFiniteSet(0 .. MOD - 1)
  BY Sizes, FS_Interval
<1>3. IsFiniteSet(Acked(status))
  BY <1>1, <1>2, FS_Subset
<1> QED
  BY <1>1, <1>3, FS_CardinalityType

LEMMA HandleControlPduTypes ==
    ASSUME TxTypes, NEW status, HandleControlPdu(status) PROVE TxTypes'
<1> DEFINE acked == Acked(status)
<1>1. /\ tx_window' = Keep(tx_window, SN \ {Shift(vt_a, n) : n \in acked})
      /\ vt_a' = Shift(vt_a, Cardinality(acked))
      /\ poll_retx_timer' = IF poll_retx_timer = "running" THEN "stopped" ELSE poll_retx_timer
      /\ UNCHANGED <<written, taken, vt_s>>
  BY DEF HandleControlPdu
<1>2. Cardinality(acked) \in Int
  BY AckedType
<1> HIDE DEF acked
<1>3. vt_a' \in SN
  BY <1>1, <1>2, ShiftType DEF TxTypes
<1>4. tx_window' \in Maps(Payload \ {<<>>}) /\ DOMAIN tx_window' \subseteq DOMAIN tx_window
      /\ \A sn \in DOMAIN tx_window' : tx_window'[sn] = tx_window[sn]
  <2> DEFINE S == SN \ {Shift(vt_a, n) : n \in acked}
             V == Payload \ {<<>>}
  <2>1. tx_window' = Keep(tx_window, S) /\ tx_window \in Maps(V)
    BY <1>1 DEF TxTypes
  <2> HIDE DEF S, V
  <2>2. /\ Keep(tx_window, S) \in Maps(V) /\ DOMAIN Keep(tx_window, S) = DOMAIN tx_window \intersect S
        /\ \A sn \in DOMAIN Keep(tx_window, S) : Keep(tx_window, S)[sn] = tx_window[sn]
    <3>1. Keep(tx_window, S) \in Maps(V) /\ DOMAIN Keep(tx_window, S) = DOMAIN tx_window \intersect S
      BY <2>1, KeepMap
    <3>2. ASSUME NEW sn \in DOMAIN Keep(tx_window, S) PROVE Keep(tx_window, S)[sn] = tx_window[sn]
      BY DEF Keep
    <3> QED
      BY <3>1, <3>2
  <2> QED
    BY <2>1, <2>2 DEF V
<1>5. PICK old \in Seq(Retx), new \in Seq(Retx) :
             /\ old = <<>> \/ old = retx_queue
             /\ \A i \in DOMAIN new : new[i].sn \in DOMAIN tx_window /\ new[i].so = 0
             /\ retx_queue' = old \o new
  BY AgainIs, Zenon
<1>6. retx_queue' \in Seq(Retx)
      /\ \A i \in DOMAIN retx_queue' : \/ i \in DOMAIN old /\ retx_queue'[i] = old[i]
                                       \/ \E j \in DOMAIN new : retx_queue'[i] = new[j]
  <2> DEFINE q == old \o new
  <2>1. q \in Seq(Retx) /\ DOMAIN q = 1 .. Len(old) + Len(new)
        /\ DOMAIN old = 1 .. Len(old) /\ DOMAIN new = 1 .. Len(new)
        /\ Len(old) \in Nat /\ Len(new) \in Nat
    OBVIOUS
  <2>2. /\ \A i \in 1 .. Len(old) : q[i] = old[i]
        /\ \A i \in Len(old) + 1 .. Len(old) + Len(new) : q[i] = new[i - Len(old)]
    OBVIOUS
  <2> HIDE DEF q
  <2>3. ASSUME NEW i \in DOMAIN q
        PROVE  (i \in DOMAIN old /\ q[i] = old[i]) \/ \E j \in DOMAIN new : q[i] = new[j]
    <3>1. CASE i <= Len(old)
      BY <2>1, <2>2, <3>1
    <3>2. CASE ~ i <= Len(old)
      <4>1. i \in Len(old) + 1 .. Len(old) + Len(new) /\ i - Len(old) \in DOMAIN new
        BY <2>1, <3>2
      <4> QED
        BY <2>2, <4>1
    <3> QED
      BY <3>1, <3>2
  <2>4. retx_queue' = q
    BY <1>5 DEF q
  <2> QED
    BY <2>1, <2>3, <2>4
<1>7. Fits(retx_queue', tx_window')
  <2> SUFFICES ASSUME NEW i \in DOMAIN retx_queue', retx_queue'[i].sn \in DOMAIN tx_window'
               PROVE  retx_queue'[i].so < Len(tx_window'[retx_queue'[i].sn])
    BY DEF Fits
  <2> DEFINE sn == retx_queue'[i].sn
  <2>1. sn \in DOMAIN tx_window /\ tx_window'[sn] = tx_window[sn]
    BY <1>4
  <2>2. CASE i \in DOMAIN old /\ retx_queue'[i] = old[i]
    <3>1. i \in DOMAIN retx_queue /\ retx_queue'[i] = retx_queue[i]
      BY <1>5, <2>2
    <3> QED
      BY <2>1, <3>1 DEF TxTypes, Fits
  <2>3. CASE \E j \in DOMAIN new : retx_queue'[i] = new[j]
    <3>1. retx_queue'[i].so = 0
      BY <1>5, <2>3
    <3>2. tx_window[sn] \in Payload /\ tx_window[sn] # <<>>
      BY <2>1, MapOf DEF TxTypes
    <3>3. Len(tx_window[sn]) > 0
      BY <3>2 DEF Payload
    <3> QED
      BY <2>1, <3>1, <3>3
  <2> QED
    BY <1>6, <2>2, <2>3
<1> QED
  BY <1>1, <1>3, <1>4, <1>6, <1>7 DEF TxTypes

LEMMA NoPduTypes == ASSUME TxTypes, NoPdu PROVE TxTypes'
<1>1. retx_queue' = <<>> /\ UNCHANGED <<written, taken, vt_a, vt_s, tx_window, poll_retx_timer>>
  BY DEF NoPdu
<1>2. Fits(<<>>, tx_window) /\ <<>> \in Seq(Retx)
  BY DEF Fits
<1> QED
  BY <1>1, <1>2 DEF TxTypes

LEMMA PollTimerExpiredTypes == ASSUME TxTypes, PollTimerExpired PROVE TxTypes'
<1>1. /\ retx_queue' \in RandomPdu(retx_queue) \/ retx_queue' = retx_queue
      /\ UNCHANGED <<written, taken, vt_a, vt_s, tx_window, poll_retx_timer>>
  BY DEF PollTimerExpired
<1>2. retx_queue' \in Seq(Retx) /\ Fits(retx_queue', tx_window)
  <2>1. CASE retx_queue' = retx_queue
    BY <2>1 DEF TxTypes
  <2>2. CASE retx_queue' \in RandomPdu(retx_queue)
    BY <2>2, RandomPduIs DEF TxTypes
  <2> QED
    BY <1>1, <2>1, <2>2
<1> QED
  BY <1>1, <1>2 DEF TxTypes

LEMMA WriteSduTypes == ASSUME TxTypes, WriteSdu PROVE TxTypes'
<1>1. written' = written + 1 /\ written < MaxSdu
      /\ UNCHANGED <<taken, vt_a, vt_s, tx_window, retx_queue, poll_retx_timer>>
  BY DEF WriteSdu
<1>2. written \in Nat /\ written' \in 0 .. MaxSdu /\ SduUnits \in Nat
  BY <1>1, Products DEF TxTypes
<1>3. (written + 1) * SduUnits = written * SduUnits + SduUnits /\ written * SduUnits \in Nat
  BY <1>2
<1>4. taken \in 0 .. written' * SduUnits
  BY <1>1, <1>2, <1>3 DEF TxTypes
<1> QED
  BY <1>1, <1>2, <1>4 DEF TxTypes

\* What the MAC fetches.
LEMMA GrantTypes ==
    ASSUME Types, NEW grant \in Grants, Grant(grant) PROVE Types'
<1>1. UNCHANGED <<rx, reports>> /\ grant \in Nat \ {0}
  BY LinkAssumption DEF Grant
<1>2. RxTypes'
  BY <1>1 DEF Types, RxTypes, rx, reception, status_vars
<1>3. ASSUME NoPdu, UNCHANGED air PROVE TxTypes' /\ LinkTypes'
  BY <1>1, <1>3, NoPduTypes DEF Types, LinkTypes
<1>4. ASSUME ReadPdu(grant) PROVE TxTypes' /\ LinkTypes'
  <2>1. PICK queue \in IF WindowFull /\ retx_queue = <<>> THEN RandomPdu(<<>>) ELSE {retx_queue} :
          LET live == DropAcked(queue) IN
          IF live = <<>> THEN BuildDataPdu(grant)
          ELSE BuildRetxPdu(live, grant) \/ BuildSegment(live, grant)
    BY <1>4, Zenon DEF ReadPdu
  <2> DEFINE live == DropAcked(queue)
  <2>2. queue \in Seq(Retx) /\ Fits(queue, tx_window)
    BY <2>1, QueueIs DEF Types
  <2>3. live \in Seq(Retx) /\ Fits(live, tx_window) /\ (live # <<>> => live[1].sn \in DOMAIN tx_window)
    BY <2>2, DropAckedIs
  <2> HIDE DEF live
  <2>4. IF live = <<>> THEN BuildDataPdu(grant) ELSE BuildRetxPdu(live, grant) \/ BuildSegment(live, grant)
    BY <2>1, Zenon DEF live
  <2>5. TxTypes /\ LinkTypes /\ UNCHANGED reports
    BY <1>1 DEF Types
  <2>6. CASE BuildDataPdu(grant)
    BY <1>1, <2>5, <2>6, BuildDataPduTypes
  <2>7. CASE live # <<>> /\ BuildRetxPdu(live, grant)
    BY <1>1, <2>3, <2>5, <2>7, BuildRetxPduTypes
  <2>8. CASE live # <<>> /\ BuildSegment(live, grant)
    BY <1>1, <2>3, <2>5, <2>8, BuildSegmentTypes
  <2> QED
    BY <2>4, <2>6, <2>7, <2>8
<1> QED
  BY <1>2, <1>3, <1>4 DEF Grant, Types

-----------------------------------------------------------------------------
(* What reassemble_rx_sdus reads                                           *)

\* The payloads in order, one after the other: after i of them there is stream[i].
Joined(stream, win, n) ==
    [i \in 0 .. n |-> IF i = 0 THEN rx_sdu ELSE stream[i - 1] \o win[Shift(vr_r, i - 1)]]

Stream(win, n) == (CHOOSE stream : stream = Joined(stream, win, n))[n]

LEMMA JoinedExists == ASSUME NEW win, NEW n \in Nat PROVE \E s : s = Joined(s, win, n)
<1> DEFINE S == {k \in 0 .. n : \E s : s = Joined(s, win, k)}
<1>1. 0 \in S
  <2> DEFINE s == [i \in 0 .. 0 |-> rx_sdu]
  <2>1. s = Joined(s, win, 0)
    BY DEF Joined
  <2> HIDE DEF s
  <2> QED
    BY <2>1
<1>2. ASSUME NEW k \in 0 .. n - 1, k \in S PROVE k + 1 \in S
  <2>1. PICK s : s = Joined(s, win, k)
    BY <1>2
  <2> DEFINE more == s[k] \o win[Shift(vr_r, k)]
             h == [i \in 0 .. k + 1 |-> IF i = k + 1 THEN more ELSE s[i]]
  <2>2. \A i \in 0 .. k : s[i] = IF i = 0 THEN rx_sdu ELSE s[i - 1] \o win[Shift(vr_r, i - 1)]
    <3> HIDE DEF S
    <3> QED
      BY <2>1, Zenon DEF Joined
  <2> HIDE DEF more
  <2>3. /\ \A i \in 0 .. k : i \in 0 .. k + 1 /\ h[i] = s[i]
        /\ h[k + 1] = more
    OBVIOUS
  <2>4. ASSUME NEW i \in 0 .. k + 1
        PROVE  h[i] = IF i = 0 THEN rx_sdu ELSE h[i - 1] \o win[Shift(vr_r, i - 1)]
    <3>1. CASE i = k + 1
      <4>1. i # 0 /\ i - 1 = k /\ k \in 0 .. k
        BY <3>1
      <4> HIDE DEF h
      <4> QED
        BY <2>3, <3>1, <4>1, Zenon DEF more
    <3>2. CASE i # k + 1
      <4>1. i \in 0 .. k
        BY <3>2
      <4>2. CASE i = 0
        <5> HIDE DEF h
        <5> QED
          BY <2>2, <2>3, <4>1, <4>2, Zenon
      <4>3. CASE i # 0
        <5>1. i - 1 \in 0 .. k
          BY <4>1, <4>3
        <5> HIDE DEF h
        <5> QED
          BY <2>2, <2>3, <4>1, <4>3, <5>1, Zenon
      <4> QED
        BY <4>2, <4>3
    <3> QED
      BY <3>1, <3>2
  <2>5. h = [i \in 0 .. k + 1 |-> h[i]]
    BY Zenon
  <2> HIDE DEF h
  <2>6. h = Joined(h, win, k + 1)
    BY <2>4, <2>5, Zenon DEF Joined
  <2>7. k + 1 \in 0 .. n
    OBVIOUS
  <2> QED
    BY <2>6, <2>7, Zenon
<1>3. n \in S
  <2> HIDE DEF S
  <2>1. \A k \in 0 .. n : k \in S
    BY <1>1, <1>2, UpTo
  <2> QED
    BY <2>1
<1> QED
  BY <1>3

\* If every payload takes T[i - 1] into T[i], the stream ends in T[n].
LEMMA StreamWithin ==
    ASSUME NEW win, NEW n \in Nat, NEW T, rx_sdu \in T[0],
           \A i \in 1 .. n : \A s \in T[i - 1] : s \o win[Shift(vr_r, i - 1)] \in T[i]
    PROVE  Stream(win, n) \in T[n]
<1> DEFINE stream == CHOOSE s : s = Joined(s, win, n)
           S == {i \in 0 .. n : stream[i] \in T[i]}
<1>1. stream = Joined(stream, win, n)
  BY JoinedExists, Zenon
<1>2. Stream(win, n) = stream[n]
  BY DEF Stream
<1> HIDE DEF stream
<1>3. /\ stream[0] = rx_sdu
      /\ \A i \in 1 .. n : stream[i] = stream[i - 1] \o win[Shift(vr_r, i - 1)]
  <2>1. 0 \in 0 .. n /\ \A i \in 1 .. n : i \in 0 .. n /\ i # 0
    OBVIOUS
  <2> QED
    BY <1>1, <2>1, Zenon DEF Joined
<1>4. 0 \in S
  BY <1>3
<1>5. ASSUME NEW k \in 0 .. n - 1, k \in S PROVE k + 1 \in S
  <2>1. PICK i \in 1 .. n : i = k + 1 /\ i - 1 = k /\ i \in 0 .. n
    OBVIOUS
  <2>2. stream[i] = stream[i - 1] \o win[Shift(vr_r, i - 1)]
    BY <1>3, <2>1, Zenon
  <2>3. stream[i - 1] \in T[i - 1]
    BY <1>5, <2>1
  <2>4. stream[i - 1] \o win[Shift(vr_r, i - 1)] \in T[i]
    BY <2>1, <2>3, Zenon
  <2>5. i \in S
    BY <2>1, <2>2, <2>4
  <2> QED
    BY <2>1, <2>5
<1> HIDE DEF S
<1>6. \A k \in 0 .. n : k \in S
  BY <1>4, <1>5, UpTo
<1>7. n \in S
  BY <1>6
<1> QED
  BY <1>2, <1>7 DEF S

\* Where SDUs end in it, and where the k-th does.
Ends(units) == {i \in DOMAIN units : EndsSdu(units[i])}
EndOf(units, k) == CHOOSE i \in Ends(units) : Cardinality({j \in Ends(units) : j < i}) = k - 1
StartOf(units, k) == IF k = 1 THEN 1 ELSE EndOf(units, k - 1) + 1
Pieces(units) == [k \in 1 .. Cardinality(Ends(units)) |-> SubSeq(units, StartOf(units, k), EndOf(units, k))]
Rest(units) == SubSeq(units, StartOf(units, Cardinality(Ends(units)) + 1), Len(units))

LEMMA ReassembleIs ==
    ASSUME NEW win, NEW n, Reassemble(win, n)
    PROVE  delivered' = delivered \o Pieces(Stream(win, n)) /\ rx_sdu' = Rest(Stream(win, n))
BY Zenon DEF Reassemble, Stream, Joined, Pieces, Rest, Ends, EndOf, StartOf

LEMMA EndsIs ==
    ASSUME NEW units \in Payload
    PROVE  /\ Ends(units) \subseteq 1 .. Len(units) /\ IsFiniteSet(Ends(units))
           /\ Cardinality(Ends(units)) \in Nat
           /\ \A k \in 1 .. Cardinality(Ends(units)) : EndOf(units, k) \in 1 .. Len(units)
           /\ \A k \in 1 .. Cardinality(Ends(units)) + 1 : StartOf(units, k) \in 1 .. Len(units) + 1
<1>1. Len(units) \in Nat /\ DOMAIN units = 1 .. Len(units)
  BY DEF Payload
<1>2. Ends(units) \subseteq 1 .. Len(units)
  BY <1>1 DEF Ends
<1>3. IsFiniteSet(1 .. Len(units))
  BY <1>1, FS_Interval
<1>4. IsFiniteSet(Ends(units)) /\ Cardinality(Ends(units)) \in Nat
  BY <1>2, <1>3, FS_Subset, FS_CardinalityType
<1>5. ASSUME NEW k \in 1 .. Cardinality(Ends(units)) PROVE EndOf(units, k) \in 1 .. Len(units)
  <2>1. Ends(units) \subseteq Nat
    BY <1>1, <1>2
  <2>2. EndOf(units, k) \in Ends(units)
    BY <1>4, <2>1, NthOf DEF EndOf
  <2> QED
    BY <1>2, <2>2
<1>6. ASSUME NEW k \in 1 .. Cardinality(Ends(units)) + 1 PROVE StartOf(units, k) \in 1 .. Len(units) + 1
  <2>1. CASE k = 1
    BY <1>1, <2>1 DEF StartOf
  <2>2. CASE k # 1
    <3>1. k - 1 \in 1 .. Cardinality(Ends(units))
      BY <1>4, <2>2
    <3>2. EndOf(units, k - 1) \in 1 .. Len(units)
      BY <1>5, <3>1
    <3> QED
      BY <1>1, <2>2, <3>2 DEF StartOf
  <2> QED
    BY <2>1, <2>2
<1> QED
  BY <1>2, <1>4, <1>5, <1>6

LEMMA CutType ==
    ASSUME NEW units \in Payload PROVE Pieces(units) \in Seq(Payload) /\ Rest(units) \in Payload
<1> DEFINE V == 0 .. MaxSdu * SduUnits - 1
           c == Cardinality(Ends(units))
<1>1. units \in Seq(V) /\ Len(units) \in Nat
  BY DEF Payload
<1> HIDE DEF V
<1>2. ASSUME NEW from \in 1 .. Len(units) + 1, NEW to \in 0 .. Len(units)
      PROVE  SubSeq(units, from, to) \in Seq(V)
  <2>1. from \in Int /\ to \in Int /\ \A i \in from .. to : units[i] \in V
    BY <1>1
  <2> QED
    BY <2>1, SubSeqProperties
<1>3. c \in Nat
  BY EndsIs
<1> HIDE DEF c
<1>4. ASSUME NEW k \in 1 .. c PROVE SubSeq(units, StartOf(units, k), EndOf(units, k)) \in Seq(V)
  <2>1. k \in 1 .. c + 1
    BY <1>3
  <2>2. StartOf(units, k) \in 1 .. Len(units) + 1 /\ EndOf(units, k) \in 1 .. Len(units)
    BY <2>1, EndsIs DEF c
  <2>3. EndOf(units, k) \in 0 .. Len(units)
    BY <2>2
  <2> QED
    BY <1>2, <2>2, <2>3
<1>5. SubSeq(units, StartOf(units, c + 1), Len(units)) \in Seq(V)
  <2>1. c + 1 \in 1 .. c + 1 /\ Len(units) \in 0 .. Len(units)
    BY <1>1, <1>3
  <2>2. StartOf(units, c + 1) \in 1 .. Len(units) + 1
    BY <2>1, EndsIs DEF c
  <2> QED
    BY <1>2, <2>1, <2>2
<1>6. [k \in 1 .. c |-> SubSeq(units, StartOf(units, k), EndOf(units, k))] \in Seq(Seq(V))
  BY <1>3, <1>4
<1> QED
  BY <1>5, <1>6 DEF Pieces, Rest, Payload, V, c

-----------------------------------------------------------------------------
(* The receiving side keeps its types                                      *)

Segment == [so : Nat, buf : Payload, lsf : BOOLEAN]

LEMMA SegmentTypes == RxTypes => rx_segments \in Maps(Segment)
BY DEF RxTypes, Segment

LEMMA NoSegmentsType == NoSegments \in Segment
<1>1. <<>> \in Payload
  BY DEF Payload
<1> QED
  BY <1>1 DEF NoSegments, Segment

LEMMA EmptySegmentsType ==
    ASSUME NEW segs \in Maps(Segment), NEW n
    PROVE  EmptySegments(segs, n) \in Maps(Segment) /\ DOMAIN EmptySegments(segs, n) = DOMAIN segs
<1> DEFINE f == [sn \in DOMAIN segs |-> IF MOD_BASE(sn, vr_r) < n THEN NoSegments ELSE segs[sn]]
<1>1. DOMAIN segs \in SUBSET SN /\ \A sn \in DOMAIN segs : segs[sn] \in Segment
  BY MapOf
<1>2. \A sn \in DOMAIN segs : (IF MOD_BASE(sn, vr_r) < n THEN NoSegments ELSE segs[sn]) \in Segment
  BY <1>1, NoSegmentsType
<1>3. f \in [DOMAIN segs -> Segment]
  BY <1>2, Zenon
<1>4. f \in Maps(Segment)
  BY <1>1, <1>3, IsMap, Zenon
<1>5. DOMAIN f = DOMAIN segs
  OBVIOUS
<1> QED
  BY <1>4, <1>5, Zenon DEF EmptySegments

LEMMA SeeHighestType ==
    ASSUME RxTypes, NEW sn \in SN, SeeHighest(sn) PROVE vr_h' \in SN
<1>1. Shift(sn, 1) \in SN
  BY ShiftType
<1> QED
  BY <1>1 DEF SeeHighest, RxTypes

LEMMA DiscardTypes ==
    ASSUME RxTypes, UNCHANGED status_vars, NEW p, NEW segs \in Maps(Segment), Discard(p, segs)
    PROVE  RxTypes'
<1>1. rx_segments' \in Maps(Segment)
  BY DEF Discard
<1> QED
  BY <1>1 DEF Discard, RxTypes, status_vars, Segment

LEMMA ReassembleTypes ==
    ASSUME RxTypes, NEW win \in Maps(Payload), NEW n \in Nat, Reassemble(win, n),
           \A i \in 1 .. n : Shift(vr_r, i - 1) \in DOMAIN win
    PROVE  rx_sdu' \in Payload /\ delivered' \in Seq(Payload)
<1> DEFINE T == [i \in 0 .. n |-> Payload]
<1>1. \A i \in 0 .. n : T[i] = Payload
  OBVIOUS
<1>2. 0 \in 0 .. n /\ n \in 0 .. n /\ \A i \in 1 .. n : i \in 0 .. n /\ i - 1 \in 0 .. n
  OBVIOUS
<1> HIDE DEF T
<1>3. rx_sdu \in T[0]
  BY <1>1, <1>2 DEF RxTypes
<1>4. ASSUME NEW i \in 1 .. n, NEW s \in T[i - 1] PROVE s \o win[Shift(vr_r, i - 1)] \in T[i]
  <2> DEFINE w == win[Shift(vr_r, i - 1)]
  <2>1. s \in Payload /\ w \in Payload
    BY <1>1, <1>2, MapOf
  <2> HIDE DEF w
  <2>2. s \o w \in Payload
    BY <2>1 DEF Payload
  <2> QED
    BY <1>1, <1>2, <2>2 DEF w
<1>5. Stream(win, n) \in T[n]
  BY <1>3, <1>4, StreamWithin, Zenon
<1>6. Stream(win, n) \in Payload
  BY <1>1, <1>2, <1>5
<1>7. Pieces(Stream(win, n)) \in Seq(Payload) /\ Rest(Stream(win, n)) \in Payload
  BY <1>6, CutType
<1>8. delivered' = delivered \o Pieces(Stream(win, n)) /\ rx_sdu' = Rest(Stream(win, n))
  BY ReassembleIs, Zenon
<1>9. delivered \in Seq(Payload)
  BY DEF RxTypes
<1> DEFINE pieces == Pieces(Stream(win, n))
<1> HIDE DEF pieces
<1>10. pieces \in Seq(Payload) /\ delivered' = delivered \o pieces
  BY <1>7, <1>8 DEF pieces
<1>11. delivered' \in Seq(Payload)
  BY <1>9, <1>10
<1> QED
  BY <1>7, <1>8, <1>11

\* A PDU that is not there yet, in the window: what the run from vr_r is.
LEMMA RunIs ==
    ASSUME RxTypes, NEW sn \in SN, NEW buf \in Payload
    PROVE  LET win == Put(rx_window, sn, buf)
               n == RunLength(win, vr_r)
           IN  /\ win \in Maps(Payload) /\ DOMAIN win = DOMAIN rx_window \union {sn}
               /\ n \in 0 .. MOD /\ (n = MOD \/ Shift(vr_r, n) \notin DOMAIN win)
               /\ \A i \in 1 .. n : Shift(vr_r, i - 1) \in DOMAIN win
<1> DEFINE win == Put(rx_window, sn, buf)
           n == RunLength(win, vr_r)
<1>1. win \in Maps(Payload) /\ DOMAIN win = DOMAIN rx_window \union {sn}
  <2>1. rx_window \in Maps(Payload)
    BY DEF RxTypes
  <2>2. win \in Maps(Payload)
    BY <2>1, PutMap
  <2>3. DOMAIN win = DOMAIN rx_window \union {sn}
    BY Zenon DEF Put
  <2> QED
    BY <2>2, <2>3
<1> HIDE DEF win
<1>2. vr_r \in SN
  BY DEF RxTypes
<1>3. n \in 0 .. MOD /\ (n = MOD \/ Shift(vr_r, n) \notin DOMAIN win)
      /\ \A j \in 0 .. n - 1 : Shift(vr_r, j) \in DOMAIN win
  BY <1>2, RunLengthIs
<1> HIDE DEF n
<1>4. \A i \in 1 .. n : Shift(vr_r, i - 1) \in DOMAIN win
  <2>1. \A i \in 1 .. n : i - 1 \in 0 .. n - 1
    BY <1>3
  <2> QED
    BY <1>3, <2>1, Zenon
<1> QED
  BY <1>1, <1>3, <1>4, Zenon DEF win, n

LEMMA UpdateReorderingTypes ==
    ASSUME RxTypes, vr_h' \in SN, UpdateReordering PROVE vr_x' \in SN /\ reordering_timer' \in BOOLEAN
BY DEF UpdateReordering, RxTypes

LEMMA HandleDataPduTypes ==
    ASSUME RxTypes, UNCHANGED status_vars, NEW sn \in SN, NEW p, NEW buf \in Payload,
           NEW segs \in Maps(Segment), NEW asked, HandleDataPdu(sn, p, buf, segs, asked)
    PROVE  RxTypes'
<1>1. CASE ~inside_rx_window(sn, vr_r) \/ sn \in DOMAIN rx_window
  BY <1>1, DiscardTypes DEF HandleDataPdu
<1>2. CASE ~ (~inside_rx_window(sn, vr_r) \/ sn \in DOMAIN rx_window)
  <2> DEFINE win == Put(rx_window, sn, buf)
             n == RunLength(win, vr_r)
  <2>1. /\ SeeHighest(sn)
        /\ vr_ms' = Shift(vr_ms, RunLength(win, vr_ms))
        /\ Reassemble(win, n)
        /\ rx_segments' = EmptySegments(segs, n)
        /\ rx_window' = Keep(win, {s \in SN : MOD_BASE(s, vr_r) >= n})
        /\ vr_r' = Shift(vr_r, n)
        /\ UpdateReordering
    BY <1>2 DEF HandleDataPdu
  <2>2. /\ win \in Maps(Payload) /\ n \in 0 .. MOD
        /\ \A i \in 1 .. n : Shift(vr_r, i - 1) \in DOMAIN win
    BY RunIs
  <2>3. RunLength(win, vr_ms) \in 0 .. MOD
    BY RunLengthIs DEF RxTypes
  <2> HIDE DEF win, n
  <2>4. n \in Nat /\ n \in Int /\ RunLength(win, vr_ms) \in Int
    BY <2>2, <2>3, Sizes
  <2>5. vr_r' \in SN /\ vr_ms' \in SN
    BY <2>1, <2>4, ShiftType DEF RxTypes
  <2>6. vr_h' \in SN
    BY <2>1, SeeHighestType
  <2>7. vr_x' \in SN /\ reordering_timer' \in BOOLEAN
    BY <2>1, <2>6, UpdateReorderingTypes
  <2>8. rx_sdu' \in Payload /\ delivered' \in Seq(Payload)
    BY <2>1, <2>2, <2>4, ReassembleTypes
  <2>9. rx_window' \in Maps(Payload)
    BY <2>1, <2>2, KeepMap
  <2>10. rx_segments' \in Maps(Segment)
    BY <2>1, EmptySegmentsType
  <2> QED
    BY <2>5, <2>6, <2>7, <2>8, <2>9, <2>10 DEF RxTypes, status_vars, Segment
<1> QED
  BY <1>1, <1>2

LEMMA FirstSegmentTypes ==
    ASSUME RxTypes, UNCHANGED status_vars, NEW pdu \in Pdus, FirstSegment(pdu) PROVE RxTypes'
<1> DEFINE seg == [so |-> pdu.so, buf |-> pdu.buf, lsf |-> pdu.lsf]
<1>1. seg \in Segment /\ pdu.sn \in SN
  BY DEF Segment, Pdus
<1>2. /\ rx_segments' = Put(rx_segments, pdu.sn, seg) /\ SeeHighest(pdu.sn)
      /\ UNCHANGED <<vr_r, vr_x, vr_ms, rx_window, reordering_timer, rx_sdu, delivered>>
  BY DEF FirstSegment
<1> HIDE DEF seg
<1>3. rx_segments' \in Maps(Segment)
  BY <1>1, <1>2, SegmentTypes, PutMap
<1>4. vr_h' \in SN
  BY <1>1, <1>2, SeeHighestType
<1> QED
  BY <1>2, <1>3, <1>4 DEF RxTypes, status_vars, Segment

\* What a segment makes of those there are.
Now(had, pdu) ==
    IF pdu.so = 0 THEN [so |-> 0, buf |-> pdu.buf, lsf |-> pdu.lsf]
    ELSE IF pdu.so # had.so + Len(had.buf) THEN had
    ELSE [so |-> had.so, buf |-> had.buf \o pdu.buf, lsf |-> pdu.lsf]

LEMMA NowType ==
    ASSUME NEW had \in Segment, NEW pdu \in Pdus PROVE Now(had, pdu) \in Segment
<1>1. had.so \in Nat /\ had.buf \in Payload /\ pdu.so \in Nat /\ pdu.buf \in Payload /\ pdu.lsf \in BOOLEAN
  BY DEF Segment, Pdus
<1>2. had.buf \o pdu.buf \in Payload
  BY <1>1 DEF Payload
<1> QED
  BY <1>1, <1>2 DEF Now, Segment

LEMMA AddSegmentIs ==
    ASSUME NEW pdu, AddSegment(pdu)
    PROVE  LET now == Now(rx_segments[pdu.sn], pdu)
               rest == Keep(rx_segments, SN \ {pdu.sn})
           IN  \/ /\ pdu.so # 0 /\ pdu.so = rx_segments[pdu.sn].so + Len(rx_segments[pdu.sn].buf)
                  /\ now.so = 0 /\ now.lsf
                  /\ HandleDataPdu(pdu.sn, FALSE, now.buf, rest, pdu.p)
               \/ Discard(pdu.p, Put(rx_segments, pdu.sn, now))
BY Zenon DEF AddSegment, Now

LEMMA WritePduTypes ==
    ASSUME RxTypes, NEW pdu \in Pdus, WritePdu(pdu) PROVE RxTypes'
<1>1. /\ pdu.sn \in SN /\ pdu.buf \in Payload /\ UNCHANGED status_vars
      /\ rx_segments \in Maps(Segment)
  BY SegmentTypes DEF Pdus, WritePdu
<1>2. CASE HandleDataPdu(pdu.sn, pdu.p, pdu.buf, rx_segments, FALSE)
  BY <1>1, <1>2, HandleDataPduTypes
<1>3. CASE Discard(pdu.p, rx_segments)
  BY <1>1, <1>3, DiscardTypes
<1>4. CASE FirstSegment(pdu)
  BY <1>1, <1>4, FirstSegmentTypes
<1>5. CASE pdu.sn \in DOMAIN rx_segments /\ AddSegment(pdu)
  <2> DEFINE now == Now(rx_segments[pdu.sn], pdu)
             rest == Keep(rx_segments, SN \ {pdu.sn})
  <2>1. now \in Segment
    BY <1>1, <1>5, MapOf, NowType
  <2>2. now.buf \in Payload
    BY <2>1 DEF Segment
  <2>3. rest \in Maps(Segment)
    BY <1>1, KeepMap
  <2>4. Put(rx_segments, pdu.sn, now) \in Maps(Segment)
    BY <1>1, <2>1, PutMap
  <2>5. \/ HandleDataPdu(pdu.sn, FALSE, now.buf, rest, pdu.p)
        \/ Discard(pdu.p, Put(rx_segments, pdu.sn, now))
    BY <1>5, AddSegmentIs, Zenon
  <2> HIDE DEF now, rest
  <2>6. CASE HandleDataPdu(pdu.sn, FALSE, now.buf, rest, pdu.p)
    BY <1>1, <2>2, <2>3, <2>6, HandleDataPduTypes
  <2>7. CASE Discard(pdu.p, Put(rx_segments, pdu.sn, now))
    BY <1>1, <2>4, <2>7, DiscardTypes
  <2> QED
    BY <2>5, <2>6, <2>7
<1> QED
  BY <1>2, <1>3, <1>4, <1>5, Zenon DEF WritePdu, HandleDataPduSegment

-----------------------------------------------------------------------------
(* What arrives, and what is lost                                          *)

LEMMA RemoveAtIs ==
    ASSUME NEW R, NEW s \in Seq(R), NEW i \in DOMAIN s
    PROVE  /\ RemoveAt(s, i) \in Seq(R) /\ DOMAIN RemoveAt(s, i) = 1 .. Len(s) - 1
           /\ Len(RemoveAt(s, i)) = Len(s) - 1
           /\ \A j \in 1 .. Len(s) - 1 : RemoveAt(s, i)[j] = s[IF j < i THEN j ELSE j + 1]
<1> DEFINE l == Len(s)
           a == SubSeq(s, 1, i - 1)
           b == SubSeq(s, i + 1, l)
           r == a \o b
<1>1. l \in Nat /\ i \in 1 .. l /\ \A j \in 1 .. l : s[j] \in R
  OBVIOUS
<1>2. RemoveAt(s, i) = r
  BY DEF RemoveAt
<1>3. a \in Seq(R) /\ Len(a) = i - 1 /\ \A j \in 1 .. i - 1 : a[j] = s[j]
  <2>1. 1 \in Int /\ i - 1 \in Int /\ \A j \in 1 .. i - 1 : s[j] \in R
    BY <1>1
  <2>2. /\ a \in Seq(R) /\ Len(a) = IF 1 <= i - 1 THEN i - 1 - 1 + 1 ELSE 0
        /\ \A j \in 1 .. i - 1 - 1 + 1 : a[j] = s[1 + j - 1]
    BY <2>1, SubSeqProperties
  <2> HIDE DEF a
  <2>3. Len(a) = i - 1
    BY <1>1, <2>2
  <2>4. ASSUME NEW j \in 1 .. i - 1 PROVE a[j] = s[j]
    <3>1. j \in 1 .. i - 1 - 1 + 1 /\ 1 + j - 1 = j
      BY <1>1
    <3> QED
      BY <2>2, <3>1
  <2> QED
    BY <2>2, <2>3, <2>4
<1>4. b \in Seq(R) /\ Len(b) = l - i /\ \A j \in 1 .. l - i : b[j] = s[i + j]
  <2>1. i + 1 \in Int /\ l \in Int /\ \A j \in i + 1 .. l : s[j] \in R
    BY <1>1
  <2>2. /\ b \in Seq(R) /\ Len(b) = IF i + 1 <= l THEN l - (i + 1) + 1 ELSE 0
        /\ \A j \in 1 .. l - (i + 1) + 1 : b[j] = s[(i + 1) + j - 1]
    BY <2>1, SubSeqProperties
  <2> HIDE DEF b
  <2>3. Len(b) = l - i
    BY <1>1, <2>2
  <2>4. ASSUME NEW j \in 1 .. l - i PROVE b[j] = s[i + j]
    <3>1. j \in 1 .. l - (i + 1) + 1 /\ (i + 1) + j - 1 = i + j
      BY <1>1
    <3> QED
      BY <2>2, <3>1
  <2> QED
    BY <2>2, <2>3, <2>4
<1> HIDE DEF a, b, l
<1>5. /\ r \in Seq(R) /\ Len(r) = l - 1 /\ DOMAIN r = 1 .. l - 1
      /\ \A j \in 1 .. i - 1 : r[j] = a[j]
      /\ \A j \in i .. l - 1 : r[j] = b[j - (i - 1)]
  <2>1. a \in Seq(R) /\ b \in Seq(R)
    BY <1>3, <1>4
  <2>2. /\ r \in Seq(R) /\ Len(r) = Len(a) + Len(b) /\ DOMAIN r = 1 .. Len(r)
        /\ \A j \in 1 .. Len(a) : r[j] = a[j]
        /\ \A j \in Len(a) + 1 .. Len(a) + Len(b) : r[j] = b[j - Len(a)]
    BY <2>1
  <2> HIDE DEF r
  <2>3. Len(r) = l - 1
    BY <1>1, <1>3, <1>4, <2>2
  <2>4. Len(a) + 1 = i /\ Len(a) + Len(b) = l - 1
    BY <1>1, <1>3, <1>4
  <2> QED
    BY <1>3, <2>2, <2>3, <2>4
<1> HIDE DEF r
<1>6. ASSUME NEW j \in 1 .. l - 1 PROVE r[j] = s[IF j < i THEN j ELSE j + 1]
  <2>1. CASE j < i
    <3>1. j \in 1 .. i - 1
      BY <1>1, <2>1
    <3> QED
      BY <1>3, <1>5, <2>1, <3>1
  <2>2. CASE ~ j < i
    <3>1. j \in i .. l - 1 /\ j - (i - 1) \in 1 .. l - i /\ i + (j - (i - 1)) = j + 1
      BY <1>1, <2>2
    <3>2. r[j] = b[j - (i - 1)] /\ b[j - (i - 1)] = s[i + (j - (i - 1))]
      BY <1>4, <1>5, <3>1, Zenon
    <3> QED
      BY <2>2, <3>1, <3>2
  <2> QED
    BY <2>1, <2>2
<1> QED
  BY <1>2, <1>5, <1>6 DEF l

Late(e) == [e EXCEPT !.late = TRUE]

\* The place the j-th had before the i-th was taken.
Was(j, i) == IF j < i THEN j ELSE j + 1

LEMMA AfterIs ==
    ASSUME NEW R, \A e \in R : Late(e) \in R, NEW way \in Seq(R), NEW i \in {1, 2}, Takes(way, i)
    PROVE  /\ i \in DOMAIN way /\ After(way, i) \in Seq(R)
           /\ Len(After(way, i)) = Len(way) - 1 /\ DOMAIN After(way, i) = 1 .. Len(way) - 1
           /\ \A j \in 1 .. Len(way) - 1 : /\ Was(j, i) \in DOMAIN way
                                           /\ \/ After(way, i)[j] = way[Was(j, i)]
                                              \/ After(way, i)[j] = Late(way[Was(j, i)])
<1>1. CASE i = 1
  <2>1. way # <<>> /\ After(way, i) = Tail(way)
    BY <1>1 DEF Takes, After
  <2>2. /\ Tail(way) \in Seq(R) /\ Len(Tail(way)) = Len(way) - 1
        /\ \A j \in 1 .. Len(way) - 1 : Tail(way)[j] = way[j + 1] /\ j + 1 \in DOMAIN way
    BY <2>1
  <2>3. \A j \in 1 .. Len(way) - 1 : Was(j, i) = j + 1
    BY <1>1 DEF Was
  <2>4. 1 \in DOMAIN way /\ DOMAIN Tail(way) = 1 .. Len(way) - 1
    BY <2>1, <2>2
  <2> QED
    BY <1>1, <2>1, <2>2, <2>3, <2>4
<1>2. CASE i = 2
  <2> DEFINE w == [way EXCEPT ![1].late = TRUE]
  <2>1. 1 \in DOMAIN way /\ 2 \in DOMAIN way /\ After(way, i) = RemoveAt(w, 2)
    BY <1>2 DEF Takes, After
  <2>2. way[1] \in R
    BY <2>1
  <2>3. Late(way[1]) \in R /\ w = [way EXCEPT ![1] = Late(way[1])]
    BY <2>2 DEF Late
  <2>4. /\ w \in Seq(R) /\ Len(w) = Len(way) /\ DOMAIN w = DOMAIN way
        /\ w[1] = Late(way[1]) /\ \A j \in DOMAIN way : j # 1 => w[j] = way[j]
    <3> DEFINE e == Late(way[1])
    <3>1. e \in R
      BY <2>3
    <3> HIDE DEF e
    <3>2. LET v == [way EXCEPT ![1] = e] IN
            /\ v \in Seq(R) /\ Len(v) = Len(way) /\ DOMAIN v = DOMAIN way
            /\ v[1] = e /\ \A j \in DOMAIN way : j # 1 => v[j] = way[j]
      BY <2>1, <3>1
    <3>3. w = [way EXCEPT ![1] = e]
      BY <2>3 DEF e
    <3> HIDE DEF w
    <3> QED
      BY <3>2, <3>3 DEF e
  <2> HIDE DEF w
  <2>5. 2 \in DOMAIN w
    BY <2>1, <2>4
  <2>6. /\ RemoveAt(w, 2) \in Seq(R) /\ DOMAIN RemoveAt(w, 2) = 1 .. Len(w) - 1
        /\ Len(RemoveAt(w, 2)) = Len(w) - 1
        /\ \A j \in 1 .. Len(w) - 1 : RemoveAt(w, 2)[j] = w[IF j < 2 THEN j ELSE j + 1]
    BY <2>4, <2>5, RemoveAtIs
  <2>7. ASSUME NEW j \in 1 .. Len(way) - 1
        PROVE  /\ Was(j, i) \in DOMAIN way
               /\ \/ RemoveAt(w, 2)[j] = way[Was(j, i)]
                  \/ RemoveAt(w, 2)[j] = Late(way[Was(j, i)])
    <3>1. Was(j, i) = IF j < 2 THEN j ELSE j + 1
      BY <1>2 DEF Was
    <3>2. Was(j, i) \in DOMAIN way /\ (Was(j, i) = 1 \/ Was(j, i) # 1)
      BY <3>1
    <3>3. RemoveAt(w, 2)[j] = w[Was(j, i)]
      <4>1. j \in 1 .. Len(w) - 1
        BY <2>4, Zenon
      <4>2. RemoveAt(w, 2)[j] = w[IF j < 2 THEN j ELSE j + 1]
        BY <2>6, <4>1
      <4> QED
        BY <3>1, <4>2
    <3> QED
      BY <2>4, <3>2, <3>3, Zenon
  <2> QED
    BY <1>2, <2>1, <2>4, <2>6, <2>7
<1> QED
  BY <1>1, <1>2

LEMMA LatePdu == \A e \in Pdus : /\ Late(e) \in Pdus /\ Late(e).sn = e.sn /\ Late(e).rf = e.rf
                                 /\ Late(e).so = e.so /\ Late(e).lsf = e.lsf /\ Late(e).buf = e.buf
BY DEF Late, Pdus

Reports == [ack_sn : SN, nacks : SUBSET SN, late : BOOLEAN]

LEMMA LateReport == \A e \in Reports : /\ Late(e) \in Reports
                                       /\ Late(e).ack_sn = e.ack_sn /\ Late(e).nacks = e.nacks
BY DEF Late, Reports

-----------------------------------------------------------------------------
(* Every step keeps the types                                              *)

LEMMA ShiftNat == ASSUME NEW sn \in SN, NEW n \in Nat PROVE Shift(sn, n) \in SN
BY ShiftType

LEMMA ReportType ==
    ASSUME RxTypes, NEW room
    PROVE  get_status_pdu(room) \in [ack_sn : SN, nacks : SUBSET SN, made : BOOLEAN]
<1> DEFINE before(n) == {m \in Missing(vr_ms) : m < n}
           looked == {n \in 0 .. MOD - 1 : /\ n < MOD_BASE(vr_ms, vr_r)
                                           /\ Cardinality(before(n)) < RLC_AM_WINDOW_SIZE
                                           /\ packed_length(Cardinality(before(n))) <= room - 2}
           ack == IF looked = {} THEN vr_ms ELSE Shift(vr_r, Max(looked))
           nacks == {Shift(vr_r, n) : n \in looked \intersect Missing(vr_ms)}
<1>1. get_status_pdu(room) = [ack_sn |-> ack, nacks |-> nacks, made |-> TRUE]
  BY Zenon DEF get_status_pdu
<1>2. looked \subseteq 0 .. MOD - 1 /\ MOD - 1 \in Nat /\ vr_r \in SN /\ vr_ms \in SN
  BY Sizes DEF RxTypes
<1> HIDE DEF looked
<1>3. ack \in SN
  <2>1. CASE looked = {}
    BY <1>2, <2>1
  <2>2. CASE looked # {}
    <3>1. \E x \in looked : \A y \in looked : y <= x
      BY <1>2, <2>2, GreatestOf
    <3>2. \E x \in looked : \A y \in looked : x >= y
      BY <1>2, <3>1
    <3>3. Max(looked) \in looked
      BY <3>2 DEF Max
    <3>4. Max(looked) \in Nat
      <4> DEFINE x == Max(looked)
      <4> HIDE DEF x
      <4>1. x \in 0 .. MOD - 1
        BY <1>2, <3>3 DEF x
      <4>2. x \in Nat
        BY <1>2, <4>1
      <4> QED
        BY <4>2 DEF x
    <3> QED
      BY <1>2, <2>2, <3>4, ShiftNat
  <2> QED
    BY <2>1, <2>2
<1>4. nacks \in SUBSET SN
  <2>1. \A n \in looked \intersect Missing(vr_ms) : n \in Nat
    BY <1>2
  <2>2. \A n \in looked \intersect Missing(vr_ms) : Shift(vr_r, n) \in SN
    BY <1>2, <2>1, ShiftNat
  <2> QED
    BY <2>2
<1> HIDE DEF ack, nacks
<1> QED
  BY <1>1, <1>3, <1>4

LEMMA PduArrivesTypes == ASSUME Types, NEW i \in {1, 2}, PduArrives(i) PROVE Types'
<1>1. Takes(air, i) /\ WritePdu(air[i]) /\ air' = After(air, i) /\ UNCHANGED <<tx, reports>>
  BY DEF PduArrives
<1>2. i \in DOMAIN air /\ After(air, i) \in Seq(Pdus)
  <2>1. air \in Seq(Pdus) /\ \A e \in Pdus : Late(e) \in Pdus
    BY LatePdu DEF Types, LinkTypes
  <2>2. i \in DOMAIN air
    BY <1>1, <2>1, AfterIs
  <2>3. After(air, i) \in Seq(Pdus)
    BY <1>1, <2>1, AfterIs
  <2> QED
    BY <2>2, <2>3
<1>3. air[i] \in Pdus
  BY <1>2 DEF Types, LinkTypes
<1>4. RxTypes'
  BY <1>1, <1>3, WritePduTypes DEF Types
<1>5. TxTypes'
  BY <1>1 DEF Types, TxTypes, tx
<1>6. LinkTypes'
  BY <1>1, <1>2 DEF Types, LinkTypes
<1> QED
  BY <1>4, <1>5, <1>6 DEF Types

LEMMA ReportArrivesTypes == ASSUME Types, NEW i \in {1, 2}, ReportArrives(i) PROVE Types'
<1>1. Takes(reports, i) /\ HandleControlPdu(reports[i]) /\ reports' = After(reports, i)
      /\ UNCHANGED <<rx, air>>
  BY DEF ReportArrives
<1>2. After(reports, i) \in Seq(Reports)
  <2>1. reports \in Seq(Reports) /\ \A e \in Reports : Late(e) \in Reports
    BY LateReport DEF Types, LinkTypes, Reports
  <2> QED
    BY <1>1, <2>1, AfterIs
<1>3. RxTypes'
  BY <1>1 DEF Types, RxTypes, rx, reception, status_vars
<1>4. TxTypes'
  BY <1>1, HandleControlPduTypes DEF Types
<1>5. LinkTypes'
  BY <1>1, <1>2 DEF Types, LinkTypes, Reports
<1> QED
  BY <1>3, <1>4, <1>5 DEF Types

LEMMA LosePduTypes == ASSUME Types, NEW i \in 1 .. MaxAir, LosePdu(i) PROVE Types'
<1>1. i \in DOMAIN air /\ air' = RemoveAt(air, i) /\ UNCHANGED <<tx, rx, reports>>
  BY DEF LosePdu
<1>2. RemoveAt(air, i) \in Seq(Pdus)
  BY <1>1, RemoveAtIs DEF Types, LinkTypes
<1> QED
  BY <1>1, <1>2 DEF Types, TxTypes, RxTypes, LinkTypes, tx, rx, reception, status_vars

LEMMA LoseReportTypes == ASSUME Types, NEW i \in 1 .. MaxAir, LoseReport(i) PROVE Types'
<1>1. i \in DOMAIN reports /\ reports' = RemoveAt(reports, i) /\ UNCHANGED <<tx, rx, air>>
  BY DEF LoseReport
<1>2. RemoveAt(reports, i) \in Seq(Reports)
  BY <1>1, RemoveAtIs DEF Types, LinkTypes, Reports
<1> QED
  BY <1>1, <1>2 DEF Types, TxTypes, RxTypes, LinkTypes, Reports, tx, rx, reception, status_vars

LEMMA PeerReportsTypes == ASSUME Types, PeerReports PROVE Types'
<1>1. ASSUME NEW room, MakeReport(room), UNCHANGED <<tx, link>> PROVE Types'
  <2>1. report' = get_status_pdu(room) /\ UNCHANGED reception
    BY <1>1 DEF MakeReport
  <2>2. report' \in [ack_sn : SN, nacks : SUBSET SN, made : BOOLEAN]
    BY <2>1, ReportType DEF Types
  <2> QED
    BY <1>1, <2>1, <2>2 DEF Types, TxTypes, RxTypes, LinkTypes, tx, link, reception
<1>2. ASSUME SendReport, UNCHANGED <<tx, air>> PROVE Types'
  <2> DEFINE r == [ack_sn |-> report.ack_sn, nacks |-> report.nacks, late |-> FALSE]
  <2>1. /\ report' = NoReport /\ reports' = Append(reports, r)
        /\ UNCHANGED <<vr_r, vr_x, vr_ms, vr_h, rx_window, rx_segments, reordering_timer, rx_sdu, delivered>>
    BY <1>2 DEF SendReport
  <2>2. r \in Reports
    BY DEF Types, RxTypes, Reports
  <2> HIDE DEF r
  <2>3. reports' \in Seq(Reports)
    BY <2>1, <2>2 DEF Types, LinkTypes, Reports
  <2>4. 0 \in SN
    BY Sizes DEF SN
  <2>5. report' \in [ack_sn : SN, nacks : SUBSET SN, made : BOOLEAN]
    BY <2>1, <2>4 DEF NoReport
  <2> QED
    BY <1>2, <2>1, <2>3, <2>5 DEF Types, TxTypes, RxTypes, LinkTypes, Reports, tx
<1> QED
  BY <1>1, <1>2, Zenon DEF PeerReports

LEMMA TypesStep == ASSUME Types, [Next]_vars PROVE Types'
<1>1. CASE PdcpWrites
  BY <1>1, WriteSduTypes DEF PdcpWrites, Types, RxTypes, LinkTypes, rx, link, reception, status_vars
<1>2. CASE \E grant \in Grants : Grant(grant)
  BY <1>2, GrantTypes
<1>3. CASE \E i \in {1, 2} : PduArrives(i)
  BY <1>3, PduArrivesTypes
<1>4. CASE \E i \in IF ReportsOvertake THEN {1, 2} ELSE {1} : ReportArrives(i)
  <2>1. PICK i \in {1, 2} : ReportArrives(i)
    BY <1>4
  <2> QED
    BY <2>1, ReportArrivesTypes
<1>5. CASE PeerReports
  BY <1>5, PeerReportsTypes
<1>6. CASE PollStep
  BY <1>6 DEF PollStep, PollTimerStep, Types, TxTypes, RxTypes, LinkTypes, rx, link, reception, status_vars
<1>7. CASE PollExpiry
  BY <1>7, PollTimerExpiredTypes DEF PollExpiry, Types, RxTypes, LinkTypes, rx, link, reception, status_vars
<1>8. CASE PeerStep
  BY <1>8 DEF PeerStep, ReorderingStep, Types, TxTypes, RxTypes, LinkTypes, tx, link, status_vars
<1>9. CASE PeerExpiry
  <2>1. /\ ReorderingExpired /\ UNCHANGED <<tx, link>>
    BY <1>9 DEF PeerExpiry
  <2>2. vr_x \in SN /\ vr_h \in SN
    BY DEF Types, RxTypes
  <2>3. RunLength(rx_window, vr_x) \in Nat
    BY <2>2, RunLengthIs, Sizes
  <2>4. vr_ms' \in SN
    BY <2>1, <2>2, <2>3, ShiftNat DEF ReorderingExpired
  <2>5. reordering_timer' \in BOOLEAN
    BY <2>1 DEF ReorderingExpired, Types, RxTypes
  <2>6. vr_x' \in SN
    BY <2>1, <2>2 DEF ReorderingExpired
  <2>7. RxTypes'
    BY <2>1, <2>4, <2>5, <2>6 DEF ReorderingExpired, Types, RxTypes, status_vars
  <2> QED
    BY <2>1, <2>7 DEF Types, TxTypes, LinkTypes, tx, link
<1>10. CASE PeerProhibit
  BY <1>10 DEF PeerProhibit, ProhibitExpired, Types, TxTypes, RxTypes, LinkTypes, tx, link, reception
<1>11. CASE \E i \in 1 .. MaxAir : LosePdu(i) \/ LoseReport(i)
  BY <1>11, LosePduTypes, LoseReportTypes
<1>12. CASE UNCHANGED vars
  BY <1>12 DEF vars, Types, TxTypes, RxTypes, LinkTypes, tx, rx, link, reception, status_vars
<1> QED
  BY <1>1, <1>2, <1>3, <1>4, <1>5, <1>6, <1>7, <1>8, <1>9, <1>10, <1>11, <1>12, Zenon DEF Next

LEMMA TypesInit == ASSUME AmInit PROVE Types
<1>1. 0 \in SN /\ 0 \in 0 .. MaxSdu
  BY Sizes, Products DEF SN
<1>2. <<>> \in Maps(Payload \ {<<>>}) /\ <<>> \in Maps(Payload) /\ <<>> \in Maps(Segment)
  BY EmptyMap
<1>3. <<>> \in Payload /\ <<>> \in Seq(Payload) /\ <<>> \in Seq(Retx) /\ <<>> \in Seq(Pdus) /\ <<>> \in Seq(Reports)
  BY DEF Payload
<1>4. TxTypes
  <2>1. Fits(<<>>, <<>>)
    BY DEF Fits
  <2>2. 0 * SduUnits = 0 /\ 0 \in 0 .. 0
    BY Products
  <2> QED
    BY <1>1, <1>2, <1>3, <2>1, <2>2 DEF AmInit, TxInit, TxTypes
<1>5. RxTypes
  BY <1>1, <1>2, <1>3 DEF AmInit, RxInit, RxTypes, NoReport, Segment
<1>6. LinkTypes
  BY <1>3 DEF AmInit, LinkTypes, Reports
<1> QED
  BY <1>4, <1>5, <1>6 DEF Types

LEMMA TypeOf == Types => RlcAmTypeOK
<1> SUFFICES ASSUME Types PROVE RlcAmTypeOK
  OBVIOUS
<1> DEFINE payload == Seq(0 .. MaxSdu * SduUnits - 1)
<1>1. /\ DOMAIN tx_window \subseteq SN
      /\ \A sn \in DOMAIN tx_window : tx_window[sn] \in Payload
  BY MapOf DEF Types, TxTypes
<1>2. /\ DOMAIN rx_window \subseteq SN
      /\ \A sn \in DOMAIN rx_window : rx_window[sn] \in Payload
  BY MapOf DEF Types, RxTypes
<1>3. /\ DOMAIN rx_segments \subseteq SN
      /\ \A sn \in DOMAIN rx_segments : rx_segments[sn] \in Segment
  <2>1. rx_segments \in Maps(Segment)
    BY SegmentTypes DEF Types
  <2> QED
    BY <2>1, MapOf
<1>4. Range(tx_window) \subseteq payload /\ Range(rx_window) \subseteq payload
  BY <1>1, <1>2 DEF Range, Payload
<1>5. \A segments \in Range(rx_segments) : segments.buf \in payload
  BY <1>3 DEF Range, Payload, Segment
<1>6. ASSUME NEW retx \in Range(retx_queue)
      PROVE  /\ retx.sn \in SN
             /\ retx.sn \in DOMAIN tx_window => retx.so \in 0 .. Len(tx_window[retx.sn]) - 1
  <2>1. PICK i \in DOMAIN retx_queue : retx = retx_queue[i]
    BY <1>6 DEF Range
  <2>2. retx.sn \in SN /\ retx.so \in Nat
    <3>1. retx_queue \in Seq(Retx)
      BY DEF Types, TxTypes
    <3>2. retx \in Retx
      BY <2>1, <3>1
    <3> QED
      BY <3>2 DEF Retx
  <2>3. ASSUME retx.sn \in DOMAIN tx_window PROVE retx.so \in 0 .. Len(tx_window[retx.sn]) - 1
    <3>1. retx.so < Len(tx_window[retx.sn])
      BY <2>1, <2>3 DEF Types, TxTypes, Fits
    <3>2. Len(tx_window[retx.sn]) \in Nat
      BY <1>1, <2>3 DEF Payload
    <3> QED
      BY <2>2, <3>1, <3>2
  <2> QED
    BY <2>2, <2>3
<1>7. rx_sdu \in payload /\ Range(delivered) \subseteq payload
  BY DEF Types, RxTypes, Range, Payload
<1>8. report.ack_sn \in SN /\ report.nacks \subseteq SN
  BY DEF Types, RxTypes
<1>9. {vt_a, vt_s, vr_r, vr_x, vr_ms, vr_h} \subseteq SN
  BY DEF Types, TxTypes, RxTypes
<1>10. /\ written \in 0 .. MaxSdu /\ taken \in 0 .. written * SduUnits
       /\ poll_retx_timer \in {"stopped", "running", "expired"}
  BY DEF Types, TxTypes
<1> HIDE DEF payload
<1>11. LET p == payload IN
         /\ Range(tx_window) \subseteq p /\ Range(rx_window) \subseteq p
         /\ \A segments \in Range(rx_segments) : segments.buf \in p
         /\ rx_sdu \in p /\ Range(delivered) \subseteq p
  BY <1>4, <1>5, <1>7
<1> QED
  BY <1>1, <1>2, <1>3, <1>6, <1>8, <1>9, <1>10, <1>11, Zenon DEF RlcAmTypeOK, payload

\* The types RlcAmTypeOK lists, whatever the number of sequence numbers and of units of
\* an SDU: a number of a window is a number, a payload a piece of the stream, and
\* what is left of a PDU cut in segments (so_start of its entry of retx_queue) is
\* never empty.
THEOREM AmTypeCorrect == SafetySpec => []RlcAmTypeOK
<1>1. AmInit => Types
  BY TypesInit
<1>2. Types /\ [Next]_vars => Types'
  BY TypesStep
<1> QED
  BY <1>1, <1>2, TypeOf, PTL DEF SafetySpec

-----------------------------------------------------------------------------
(* The windows                                                             *)

W == RLC_AM_WINDOW_SIZE

\* Where a number is, seen from the lower edge of the sending side's window.
At(sn) == MOD_BASE(sn, vt_a)

\* What is in the window are the numbers from vt_a to vt_s, and if it is full nothing
\* else is waiting to be sent again.
SendWindow ==
    /\ At(vt_s) <= W
    /\ DOMAIN tx_window = {sn \in SN : At(sn) < At(vt_s)}
    /\ At(vt_s) = W => \A i \in DOMAIN retx_queue : retx_queue[i].sn \in DOMAIN tx_window

ReceiveWindow ==
    /\ At(vr_r) <= At(vr_h) /\ At(vr_h) <= At(vt_s)
    /\ reordering_timer => (At(vr_r) < At(vr_x) /\ At(vr_x) <= At(vr_h))
    /\ \A sn \in DOMAIN rx_window : At(vr_r) < At(sn) /\ At(sn) < At(vr_h)

\* No PDU under way is more than a window behind.
UnderWay == \A i \in DOMAIN air : MOD_BASE(vt_s, air[i].sn) \in 1 .. W

\* A report acknowledges nothing from the b-th number after edge on: it stops there, or
\* names that number as missing.
BacksFrom(edge, rep, b) ==
    \/ rep.ack_sn = Shift(edge, b) /\ rep.nacks = {}
    \/ Shift(edge, b) \in rep.nacks

\* Each of some reports, and the one in the making, is no further than the top, in the
\* order they are in.
BackedFrom(edge, top, list, rep, base) ==
    /\ base \in [1 .. Len(list) + 1 -> 0 .. top]
    /\ \A i, j \in 1 .. Len(list) + 1 : i < j => base[i] <= base[j]
    /\ \A i \in 1 .. Len(list) : BacksFrom(edge, list[i], base[i])
    /\ rep.made => BacksFrom(edge, rep, base[Len(list) + 1])

Backs(rep, b) == BacksFrom(vt_a, rep, b)

\* Each report is no further than vr_r was when it was made.
BackedBy(base) == BackedFrom(vt_a, At(vr_r), reports, report, base)

Reported == \E base : BackedBy(base)

WindowInv == SendWindow /\ ReceiveWindow /\ UnderWay /\ Reported

LEMMA WindowsAgreeOf == WindowInv => WindowsAgree
BY Zenon DEF WindowInv, ReceiveWindow, WindowsAgree, At

LEMMA AtType == ASSUME Types, NEW sn \in SN PROVE At(sn) \in 0 .. MOD - 1
BY BaseType DEF At, Types, TxTypes

LEMMA AtSame == ASSUME Types, NEW sn \in SN, NEW other \in SN, At(sn) = At(other) PROVE sn = other
BY BaseSame DEF At, Types, TxTypes

LEMMA AtShift ==
    ASSUME Types, NEW sn \in SN, NEW k \in 0 .. MOD
    PROVE  At(Shift(sn, k)) = IF At(sn) + k < MOD THEN At(sn) + k ELSE At(sn) + k - MOD
BY BaseShift DEF At, Types, TxTypes

LEMMA AtOfShift == ASSUME Types, NEW k \in 0 .. MOD - 1 PROVE At(Shift(vt_a, k)) = k
BY BaseOfShift DEF At, Types, TxTypes

LEMMA ShiftAt == ASSUME Types, NEW sn \in SN PROVE Shift(vt_a, At(sn)) = sn
BY ShiftBase DEF At, Types, TxTypes

LEMMA AtVia ==
    ASSUME Types, NEW sn \in SN, NEW other \in SN
    PROVE  MOD_BASE(sn, other) = IF At(sn) >= At(other) THEN At(sn) - At(other)
                                                        ELSE At(sn) - At(other) + MOD
BY BaseVia DEF At, Types, TxTypes

\* The numbers of the window are as many as there are between its edges.
LEMMA FullWindow ==
    ASSUME Types, SendWindow, At(vt_s) = W PROVE WindowFull /\ DOMAIN tx_window # {}
<1> DEFINE D == DOMAIN tx_window
           f == [k \in 0 .. W - 1 |-> Shift(vt_a, k)]
<1>1. W \in Nat /\ W > 0 /\ W < MOD /\ MOD \in Nat
  BY Sizes DEF W
<1>2. D = {sn \in SN : At(sn) < W}
  BY DEF SendWindow
<1>3. ASSUME NEW k \in 0 .. W - 1 PROVE Shift(vt_a, k) \in D /\ At(Shift(vt_a, k)) = k
  <2>1. k \in 0 .. MOD - 1 /\ k \in Nat /\ k < W
    BY <1>1
  <2>2. At(Shift(vt_a, k)) = k
    BY <2>1, AtOfShift
  <2>3. Shift(vt_a, k) \in SN
    BY <2>1, ShiftNat DEF Types, TxTypes
  <2> QED
    BY <1>2, <2>1, <2>2, <2>3
<1> HIDE DEF D
<1>4. f \in [0 .. W - 1 -> D] /\ \A k \in 0 .. W - 1 : f[k] = Shift(vt_a, k)
  BY <1>3
<1> HIDE DEF f
<1>5. IsFiniteSet(D)
  <2>1. D \subseteq SN
    BY <1>2
  <2>2. IsFiniteSet(SN)
    BY Sizes, FS_Interval DEF SN
  <2> QED
    BY <2>1, <2>2, FS_Subset
<1>6. Cardinality(D) \in Nat
  BY <1>5, FS_CardinalityType
<1>7. ASSUME Cardinality(D) < W PROVE FALSE
  <2>1. IsFiniteSet(0 .. W - 1) /\ Cardinality(0 .. W - 1) = W
    BY <1>1, FS_Interval
  <2>2. PICK x \in 0 .. W - 1, y \in 0 .. W - 1 : x # y /\ f[x] = f[y]
    <3> DEFINE S == 0 .. W - 1
    <3>1. IsFiniteSet(S) /\ Cardinality(D) < Cardinality(S) /\ f \in [S -> D]
      BY <1>4, <1>7, <2>1
    <3> HIDE DEF S
    <3>2. \E x, y \in S : x # y /\ f[x] = f[y]
      BY <1>5, <3>1, FS_PigeonHole, Zenon
    <3> QED
      BY <3>2 DEF S
  <2>3. At(f[x]) = x /\ At(f[y]) = y
    BY <1>3, <1>4
  <2> QED
    BY <2>2, <2>3
<1>8. WindowFull
  BY <1>1, <1>6, <1>7 DEF WindowFull, D, W
<1>9. D # {}
  <2>1. 0 \in 0 .. W - 1
    BY <1>1
  <2> QED
    BY <1>3, <2>1
<1> QED
  BY <1>8, <1>9 DEF D

\* A new number is used only if one is left: read_pdu sends an old one again if not.
LEMMA NewOnlyIfRoom ==
    ASSUME Types, SendWindow,
           NEW queue \in IF WindowFull /\ retx_queue = <<>> THEN RandomPdu(<<>>) ELSE {retx_queue},
           DropAcked(queue) = <<>>
    PROVE  At(vt_s) < W
<1>1. At(vt_s) \in Nat /\ W \in Nat /\ At(vt_s) <= W
  BY AtType, Sizes DEF SendWindow, W, Types, TxTypes
<1> SUFFICES ASSUME At(vt_s) = W PROVE FALSE
  BY <1>1
<1>2. WindowFull /\ DOMAIN tx_window # {} /\ TxTypes
  BY FullWindow DEF Types
<1>3. /\ queue \in Seq(Retx) /\ Fits(queue, tx_window)
      /\ (retx_queue = <<>> => \E i \in DOMAIN queue : queue[i].sn \in DOMAIN tx_window)
      /\ (retx_queue # <<>> => queue = retx_queue)
  BY <1>2, QueueIs
<1>4. \E i \in DOMAIN queue : queue[i].sn \in DOMAIN tx_window
  <2>1. CASE retx_queue # <<>>
    <3>1. 1 \in DOMAIN retx_queue
      BY <2>1 DEF Types, TxTypes
    <3> QED
      BY <1>3, <2>1, <3>1 DEF SendWindow
  <2> QED
    BY <1>3, <2>1
<1>5. DropAcked(queue) # <<>>
  BY <1>3, <1>4, DropAckedIs
<1> QED
  BY <1>5

-----------------------------------------------------------------------------
(* The sending side moves its window                                       *)

\* Under way is what was before, and one more, not more than a window behind.
LEMMA SendUnderWay ==
    ASSUME Types, \A i \in DOMAIN air : MOD_BASE(vt_s', air[i].sn) \in 1 .. W,
           NEW pdu \in Pdus, MOD_BASE(vt_s', pdu.sn) \in 1 .. W, SendPdu(pdu)
    PROVE  UnderWay'
<1>1. air' = Append(air, pdu) /\ air \in Seq(Pdus)
  BY DEF SendPdu, Types, LinkTypes
<1>2. /\ DOMAIN air' = 1 .. Len(air) + 1 /\ DOMAIN air = 1 .. Len(air)
      /\ \A i \in 1 .. Len(air) : air'[i] = air[i]
      /\ air'[Len(air) + 1] = pdu
  BY <1>1
<1>3. ASSUME NEW i \in DOMAIN air' PROVE MOD_BASE(vt_s', air'[i].sn) \in 1 .. W
  <2>1. CASE i = Len(air) + 1
    <3>1. air'[i] = pdu
      BY <1>2, <2>1
    <3> QED
      BY <3>1, Zenon
  <2>2. CASE i # Len(air) + 1
    <3>1. i \in DOMAIN air
      BY <1>1, <1>2, <2>2
    <3> QED
      BY <1>2, <3>1
  <2> QED
    BY <2>1, <2>2
<1> QED
  BY <1>3 DEF UnderWay

\* A number of the window is behind vt_s.
LEMMA OfWindow ==
    ASSUME Types, SendWindow, NEW sn \in DOMAIN tx_window PROVE MOD_BASE(vt_s, sn) \in 1 .. W
<1>1. sn \in SN /\ At(sn) < At(vt_s) /\ At(vt_s) <= W /\ vt_s \in SN
  BY DEF SendWindow, Types, TxTypes
<1>2. At(sn) \in Nat /\ At(vt_s) \in Nat /\ W \in Nat
  BY <1>1, AtType, Sizes DEF W
<1>3. MOD_BASE(vt_s, sn) = At(vt_s) - At(sn)
  BY <1>1, <1>2, AtVia
<1> QED
  BY <1>1, <1>2, <1>3

LEMMA BuildDataPduWindow ==
    ASSUME Types, WindowInv, NEW grant, UNCHANGED <<rx, reports>>, BuildDataPdu(grant), InTime,
           At(vt_s) < W, LinkTypes'
    PROVE  WindowInv'
<1> DEFINE to == IF grant < Unsent THEN taken + grant ELSE taken + Unsent
           units == Units(taken, to)
           p == poll_required(pdu_without_poll + 1, written - (to + SduUnits - 1) \div SduUnits, <<>>)
           pdu == [sn |-> vt_s, p |-> p, rf |-> FALSE, so |-> 0, lsf |-> FALSE,
                   buf |-> units, first |-> TRUE, late |-> FALSE]
<1>1. /\ SendPdu(pdu) /\ tx_window' = Put(tx_window, vt_s, units) /\ vt_s' = Shift(vt_s, 1)
      /\ retx_queue' = <<>> /\ vt_a' = vt_a
  BY DEF BuildDataPdu
<1> HIDE DEF p, units
<1>2. vt_s \in SN /\ vt_a \in SN /\ W \in Nat /\ MOD = 2 * W /\ W > 1 /\ 1 \in 0 .. MOD /\ 1 \in Nat
  BY Sizes DEF Types, TxTypes, W
<1>3. At(vt_s) \in Nat /\ vt_s' \in SN
  BY <1>1, <1>2, AtType, ShiftNat
<1>4. At(vt_s') = At(vt_s) + 1
  <2>1. At(Shift(vt_s, 1)) = IF At(vt_s) + 1 < MOD THEN At(vt_s) + 1 ELSE At(vt_s) + 1 - MOD
    BY <1>2, AtShift
  <2> QED
    BY <1>1, <1>2, <1>3, <2>1
<1>5. \A sn \in SN : At(sn)' = MOD_BASE(sn, vt_a)
  BY <1>1 DEF At
<1>6. At(vt_s)' = At(vt_s) + 1
  BY <1>1, <1>4 DEF At
<1>7. SendWindow'
  <2>1. DOMAIN tx_window' = {sn \in SN : At(sn) < At(vt_s) + 1}
    <3>1. DOMAIN tx_window' = DOMAIN tx_window \union {vt_s}
      BY <1>1, Zenon DEF Put
    <3>2. DOMAIN tx_window = {sn \in SN : At(sn) < At(vt_s)}
      BY DEF WindowInv, SendWindow
    <3>3. ASSUME NEW sn \in SN PROVE At(sn) < At(vt_s) + 1 <=> (At(sn) < At(vt_s) \/ sn = vt_s)
      <4>1. At(sn) \in Nat
        BY AtType
      <4>2. At(sn) = At(vt_s) => sn = vt_s
        BY <1>2, AtSame
      <4> QED
        BY <1>3, <4>1, <4>2
    <3> QED
      BY <1>2, <3>1, <3>2, <3>3
  <2>2. (DOMAIN tx_window = {sn \in SN : At(sn) < At(vt_s)})'
    BY <1>1, <1>6, <2>1 DEF At
  <2>3. (At(vt_s) <= W)'
    BY <1>2, <1>3, <1>6 DEF W
  <2>4. (At(vt_s) = W => \A i \in DOMAIN retx_queue : retx_queue[i].sn \in DOMAIN tx_window)'
    BY <1>1
  <2> QED
    BY <2>2, <2>3, <2>4 DEF SendWindow
<1>8. ReceiveWindow'
  <2>1. UNCHANGED <<vr_r, vr_x, vr_h, rx_window, reordering_timer, vt_a>>
    BY <1>1 DEF rx, reception
  <2>2. At(vr_h) <= At(vt_s) /\ At(vr_h) \in Nat
    BY AtType DEF WindowInv, ReceiveWindow, Types, RxTypes
  <2>3. (At(vr_h) <= At(vt_s))'
    BY <1>3, <1>6, <2>1, <2>2 DEF At
  <2> QED
    BY <2>1, <2>3 DEF WindowInv, ReceiveWindow, At
<1>9. UnderWay'
  <2>1. ASSUME NEW i \in DOMAIN air PROVE MOD_BASE(vt_s', air[i].sn) \in 1 .. W
    <3> DEFINE sn == air[i].sn
    <3>1. sn \in SN
      <4>1. air[i] \in Pdus
        BY DEF Types, LinkTypes
      <4> QED
        BY <4>1 DEF Pdus
    <3>2. MOD_BASE(vt_s, sn) \in 1 .. W
      BY DEF WindowInv, UnderWay
    <3>3. MOD_BASE(vt_s', sn) <= W
      BY DEF InTime, W
    <3> HIDE DEF sn
    <3>4. MOD_BASE(vt_s', sn) = IF MOD_BASE(vt_s, sn) + 1 < MOD THEN MOD_BASE(vt_s, sn) + 1
                                                               ELSE MOD_BASE(vt_s, sn) + 1 - MOD
      BY <1>1, <1>2, <3>1, BaseShift
    <3>5. MOD_BASE(vt_s', sn) \in 1 .. W
      BY <1>2, <3>2, <3>3, <3>4
    <3> QED
      BY <3>5 DEF sn
  <2>2. pdu.sn = vt_s
    OBVIOUS
  <2>3. MOD_BASE(vt_s', pdu.sn) \in 1 .. W
    <3>1. MOD_BASE(Shift(vt_s, 1), vt_s) = 1
      <4>1. 1 \in 0 .. MOD - 1
        BY <1>2
      <4> QED
        BY <1>2, <4>1, BaseOfShift
    <3> QED
      BY <1>1, <1>2, <2>2, <3>1
  <2>4. pdu \in Pdus
    <3> HIDE DEF pdu
    <3>1. air' = Append(air, pdu) /\ air' \in Seq(Pdus) /\ Len(air) \in Nat
      BY <1>1 DEF SendPdu, LinkTypes, Types
    <3>2. pdu = air'[Len(air) + 1] /\ Len(air) + 1 \in DOMAIN air'
      BY <3>1
    <3> QED
      BY <3>1, <3>2
  <2> HIDE DEF pdu
  <2> QED
    BY <1>1, <2>1, <2>3, <2>4, SendUnderWay
<1>10. Reported'
  <2>1. UNCHANGED <<reports, report, vr_r, vt_a>>
    BY <1>1 DEF rx, reception, status_vars
  <2> QED
    BY <2>1 DEF WindowInv, Reported, BackedBy, At
<1> QED
  BY <1>7, <1>8, <1>9, <1>10 DEF WindowInv

\* What waits is of the window, or waited before.
Waited == \A i \in DOMAIN retx_queue' :
            \/ retx_queue'[i].sn \in DOMAIN tx_window
            \/ \E j \in DOMAIN retx_queue : retx_queue'[i].sn = retx_queue[j].sn

LEMMA SameSendWindow ==
    ASSUME SendWindow, UNCHANGED <<vt_a, vt_s, tx_window>>, Waited PROVE SendWindow'
<1>1. (At(vt_s) <= W)' /\ (DOMAIN tx_window = {sn \in SN : At(sn) < At(vt_s)})'
  BY DEF SendWindow, At, W
<1>2. ASSUME At(vt_s)' = W, NEW i \in DOMAIN retx_queue' PROVE retx_queue'[i].sn \in DOMAIN tx_window
  <2>1. At(vt_s) = W
    BY <1>2 DEF At
  <2>2. \A j \in DOMAIN retx_queue : retx_queue[j].sn \in DOMAIN tx_window
    BY <2>1 DEF SendWindow
  <2> QED
    BY <2>2 DEF Waited
<1> QED
  BY <1>1, <1>2 DEF SendWindow, W

LEMMA SentAgainWindow ==
    ASSUME Types, WindowInv, NEW pdu \in Pdus, pdu.sn \in DOMAIN tx_window, SendPdu(pdu), Waited,
           UNCHANGED <<vt_a, vt_s, tx_window, rx, reports>>
    PROVE  WindowInv'
<1>1. SendWindow'
  BY SameSendWindow DEF WindowInv
<1>2. ReceiveWindow'
  BY DEF WindowInv, ReceiveWindow, At, rx, reception
<1>3. UnderWay'
  <2>1. MOD_BASE(vt_s, pdu.sn) \in 1 .. W
    BY OfWindow DEF WindowInv
  <2>2. \A i \in DOMAIN air : MOD_BASE(vt_s', air[i].sn) \in 1 .. W
    BY DEF WindowInv, UnderWay
  <2> QED
    BY <2>1, <2>2, SendUnderWay
<1>4. Reported'
  BY DEF WindowInv, Reported, BackedBy, At, rx, reception, status_vars
<1> QED
  BY <1>1, <1>2, <1>3, <1>4 DEF WindowInv

LEMMA BuildRetxPduWindow ==
    ASSUME Types, WindowInv, NEW grant,
           NEW queue \in Seq(Retx), queue # <<>>, Fits(queue, tx_window),
           queue[1].sn \in DOMAIN tx_window,
           \A i \in DOMAIN queue : \/ queue[i].sn \in DOMAIN tx_window
                                   \/ \E j \in DOMAIN retx_queue : queue[i].sn = retx_queue[j].sn,
           BuildRetxPdu(queue, grant), UNCHANGED <<rx, reports>>
    PROVE  WindowInv'
<1> DEFINE sn == Head(queue).sn
           p == poll_required(pdu_without_poll + 1, Queued, queue)
           pdu == [sn |-> sn, p |-> p, rf |-> FALSE, so |-> 0, lsf |-> FALSE,
                   buf |-> tx_window[sn], first |-> FALSE, late |-> FALSE]
<1>1. /\ SendPdu(pdu) /\ retx_queue' = Tail(queue) /\ UNCHANGED <<vt_a, vt_s, tx_window>>
  BY DEF BuildRetxPdu
<1>2. p \in BOOLEAN
  BY DEF poll_required
<1> HIDE DEF p
<1>3. TxTypes
  BY DEF Types
<1>4. pdu \in Pdus
  BY <1>2, <1>3, HeadIs DEF Pdus
<1>5. pdu.sn \in DOMAIN tx_window
  BY <1>3, HeadIs
<1> HIDE DEF pdu
<1>6. Waited
  <2>1. ASSUME NEW i \in DOMAIN Tail(queue)
        PROVE  \/ Tail(queue)[i].sn \in DOMAIN tx_window
               \/ \E j \in DOMAIN retx_queue : Tail(queue)[i].sn = retx_queue[j].sn
    <3>1. i + 1 \in DOMAIN queue /\ Tail(queue)[i] = queue[i + 1]
      BY <1>3, HeadIs
    <3> QED
      BY <3>1, Zenon
  <2> QED
    BY <1>1, <2>1, Zenon DEF Waited
<1> QED
  BY <1>1, <1>4, <1>5, <1>6, SentAgainWindow

LEMMA BuildSegmentWindow ==
    ASSUME Types, WindowInv, LinkTypes', NEW grant,
           NEW queue \in Seq(Retx), queue # <<>>, Fits(queue, tx_window),
           queue[1].sn \in DOMAIN tx_window,
           \A i \in DOMAIN queue : \/ queue[i].sn \in DOMAIN tx_window
                                   \/ \E j \in DOMAIN retx_queue : queue[i].sn = retx_queue[j].sn,
           BuildSegment(queue, grant), UNCHANGED <<rx, reports>>
    PROVE  WindowInv'
<1> DEFINE retx == Head(queue)
           buf == tx_window[retx.sn]
           end == IF retx.so + grant < Len(buf) THEN retx.so + grant ELSE Len(buf)
           p == poll_required(pdu_without_poll + 1, Queued, queue)
           pdu == [sn |-> retx.sn, p |-> p, rf |-> TRUE, so |-> retx.so, lsf |-> end = Len(buf),
                   buf |-> SubSeq(buf, retx.so + 1, end), first |-> FALSE, late |-> FALSE]
           rest == [retx EXCEPT !.so = end]
<1>1. /\ SendPdu(pdu)
      /\ retx_queue' = IF end = Len(buf) THEN Tail(queue) ELSE <<rest>> \o Tail(queue)
      /\ UNCHANGED <<vt_a, vt_s, tx_window>>
  BY DEF BuildSegment
<1>2. TxTypes
  BY DEF Types
<1>3. retx.sn \in DOMAIN tx_window /\ retx \in Retx /\ Tail(queue) \in Seq(Retx)
      /\ \A i \in DOMAIN Tail(queue) : i + 1 \in DOMAIN queue /\ Tail(queue)[i] = queue[i + 1]
  BY <1>2, HeadIs
<1>4. rest.sn = retx.sn
  BY <1>3 DEF Retx
<1>5. pdu.sn \in DOMAIN tx_window
  BY <1>3
<1> HIDE DEF pdu
<1>6. pdu \in Pdus
  <2>1. air' = Append(air, pdu) /\ air' \in Seq(Pdus) /\ Len(air) \in Nat
    BY <1>1 DEF SendPdu, LinkTypes, Types
  <2>2. pdu = air'[Len(air) + 1] /\ Len(air) + 1 \in DOMAIN air'
    BY <2>1
  <2> QED
    BY <2>1, <2>2
<1> HIDE DEF rest, end, retx
<1>7. Waited
  <2>1. CASE end = Len(buf)
    <3>1. ASSUME NEW i \in DOMAIN Tail(queue)
          PROVE  \/ Tail(queue)[i].sn \in DOMAIN tx_window
                 \/ \E j \in DOMAIN retx_queue : Tail(queue)[i].sn = retx_queue[j].sn
      <4>1. i + 1 \in DOMAIN queue /\ Tail(queue)[i] = queue[i + 1]
        BY <1>3
      <4> QED
        BY <4>1, Zenon
    <3>2. retx_queue' = Tail(queue)
      BY <1>1, <2>1
    <3> QED
      BY <3>1, <3>2, Zenon DEF Waited
  <2>2. CASE end # Len(buf)
    <3> DEFINE t == Tail(queue)
               q == <<rest>> \o t
    <3>1. t \in Seq(Retx) /\ \A i \in DOMAIN t : i + 1 \in DOMAIN queue /\ t[i] = queue[i + 1]
      BY <1>3
    <3> HIDE DEF t
    <3>2. DOMAIN q = 1 .. Len(t) + 1 /\ q[1] = rest /\ \A i \in 2 .. Len(t) + 1 : q[i] = t[i - 1]
      BY <3>1
    <3>3. \A i \in 1 .. Len(t) + 1 : i = 1 \/ (i \in 2 .. Len(t) + 1 /\ i - 1 \in DOMAIN t)
      BY <3>1
    <3>4. retx_queue' = q
      BY <1>1, <2>2 DEF t
    <3> HIDE DEF q
    <3>5. ASSUME NEW i \in DOMAIN q
          PROVE  \/ q[i].sn \in DOMAIN tx_window
                 \/ \E j \in DOMAIN retx_queue : q[i].sn = retx_queue[j].sn
      <4>1. CASE i = 1
        <5>1. q[i].sn = retx.sn
          BY <1>4, <3>2, <4>1
        <5> QED
          BY <1>3, <5>1
      <4>2. CASE i \in 2 .. Len(t) + 1 /\ i - 1 \in DOMAIN t
        <5>1. q[i] = queue[i - 1 + 1] /\ i - 1 + 1 \in DOMAIN queue
          BY <3>1, <3>2, <4>2
        <5> QED
          BY <5>1, Zenon
      <4> QED
        BY <3>2, <3>3, <4>1, <4>2
    <3> QED
      BY <3>4, <3>5, Zenon DEF Waited
  <2> QED
    BY <2>1, <2>2
<1> QED
  BY <1>1, <1>5, <1>6, <1>7, SentAgainWindow

LEMMA GrantWindow ==
    ASSUME Types, WindowInv, NEW grant \in Grants, Grant(grant), Types' PROVE WindowInv'
<1>1. UNCHANGED <<rx, reports>> /\ grant \in Nat \ {0}
  BY LinkAssumption DEF Grant
<1>2. ASSUME NoPdu, UNCHANGED air PROVE WindowInv'
  <2>1. retx_queue' = <<>> /\ UNCHANGED <<vt_a, vt_s, tx_window>>
    BY <1>2 DEF NoPdu
  <2>2. SendWindow'
    BY <2>1, SameSendWindow DEF Waited, WindowInv
  <2> QED
    BY <1>1, <1>2, <2>1, <2>2 DEF WindowInv, ReceiveWindow, UnderWay, Reported, BackedBy, At,
                                  rx, reception, status_vars
<1>3. ASSUME ReadPdu(grant), InTime PROVE WindowInv'
  <2>1. PICK queue \in IF WindowFull /\ retx_queue = <<>> THEN RandomPdu(<<>>) ELSE {retx_queue} :
          LET live == DropAcked(queue) IN
          IF live = <<>> THEN BuildDataPdu(grant)
          ELSE BuildRetxPdu(live, grant) \/ BuildSegment(live, grant)
    BY <1>3, Zenon DEF ReadPdu
  <2> DEFINE live == DropAcked(queue)
  <2>2. /\ queue \in Seq(Retx) /\ Fits(queue, tx_window)
        /\ \A i \in DOMAIN queue : \/ queue[i].sn \in DOMAIN tx_window
                                   \/ (i \in DOMAIN retx_queue /\ queue[i] = retx_queue[i])
    BY <2>1, QueueIs DEF Types
  <2>3. /\ live \in Seq(Retx) /\ Fits(live, tx_window) /\ (live # <<>> => live[1].sn \in DOMAIN tx_window)
        /\ \A i \in DOMAIN live : \E j \in DOMAIN queue : live[i] = queue[j]
    BY <2>2, DropAckedIs
  <2>4. ASSUME live = <<>> PROVE At(vt_s) < W
    BY <2>1, <2>4, NewOnlyIfRoom DEF WindowInv
  <2> HIDE DEF live
  <2>5. IF live = <<>> THEN BuildDataPdu(grant) ELSE BuildRetxPdu(live, grant) \/ BuildSegment(live, grant)
    BY <2>1, Zenon DEF live
  <2>6. \A i \in DOMAIN live : \/ live[i].sn \in DOMAIN tx_window
                               \/ \E j \in DOMAIN retx_queue : live[i].sn = retx_queue[j].sn
    <3> SUFFICES ASSUME NEW i \in DOMAIN live
                 PROVE  \/ live[i].sn \in DOMAIN tx_window
                        \/ \E j \in DOMAIN retx_queue : live[i].sn = retx_queue[j].sn
      OBVIOUS
    <3>1. PICK j \in DOMAIN queue : live[i] = queue[j]
      BY <2>3
    <3> QED
      BY <2>2, <3>1
  <2>7. LinkTypes'
    BY DEF Types
  <2>8. CASE live = <<>> /\ BuildDataPdu(grant)
    BY <1>1, <1>3, <2>4, <2>7, <2>8, BuildDataPduWindow
  <2>9. CASE live # <<>> /\ BuildRetxPdu(live, grant)
    BY <1>1, <2>3, <2>6, <2>9, BuildRetxPduWindow
  <2>10. CASE live # <<>> /\ BuildSegment(live, grant)
    BY <1>1, <2>3, <2>6, <2>7, <2>10, BuildSegmentWindow
  <2> QED
    BY <2>5, <2>8, <2>9, <2>10
<1> QED
  BY <1>2, <1>3 DEF Grant

-----------------------------------------------------------------------------
(* A report moves the window                                               *)

\* What a report acknowledges are the first k numbers of the window, k no more than
\* what backs it.
LEMMA AckedIs ==
    ASSUME Types, NEW status, status.ack_sn \in SN, NEW b \in 0 .. MOD - 1, Backs(status, b)
    PROVE  \E k \in 0 .. b : Acked(status) = 0 .. k - 1 /\ Cardinality(Acked(status)) = k
<1> DEFINE acked == Acked(status)
<1>1. MOD \in Nat /\ b \in Nat /\ b < MOD
  BY Sizes
<1>2. acked \subseteq 0 .. MOD - 1
  BY AckedType
<1>3. ASSUME NEW n \in acked PROVE n < b
  <2>1. n \in 0 .. MOD - 1 /\ n < MOD_BASE(status.ack_sn, vt_a)
        /\ \A m \in 0 .. n : Shift(vt_a, m) \notin status.nacks
    BY <1>3 DEF Acked, Examined
  <2>2. CASE status.ack_sn = Shift(vt_a, b)
    <3>1. MOD_BASE(status.ack_sn, vt_a) = b
      BY <2>2, AtOfShift DEF At
    <3> QED
      BY <2>1, <3>1
  <2>3. CASE Shift(vt_a, b) \in status.nacks
    <3>1. ~ b \in 0 .. n
      BY <2>1, <2>3
    <3> QED
      BY <1>1, <2>1, <3>1
  <2> QED
    BY <2>2, <2>3 DEF Backs, BacksFrom
<1>4. ASSUME NEW n \in acked, NEW m \in 0 .. n PROVE m \in acked
  <2> DEFINE x == MOD_BASE(status.ack_sn, vt_a)
             y == MOD_BASE(vt_s, vt_a)
  <2>1. x \in 0 .. MOD - 1 /\ y \in 0 .. MOD - 1
    BY BaseType DEF Types, TxTypes
  <2>2. /\ n \in 0 .. MOD - 1 /\ n < x /\ n < y
        /\ \A l \in 0 .. n : Shift(vt_a, l) \notin status.nacks
    BY <1>4 DEF Acked, Examined
  <2> HIDE DEF x, y
  <2>3. m \in 0 .. MOD - 1 /\ m < x /\ m < y /\ \A l \in 0 .. m : l \in 0 .. n
    BY <1>1, <2>1, <2>2
  <2> QED
    BY <2>2, <2>3 DEF Acked, Examined, x, y
<1> HIDE DEF acked
<1> DEFINE T == {n \in 0 .. b : n \notin acked}
<1>5. T \subseteq Nat /\ b \in T
  BY <1>1, <1>3
<1>6. PICK k \in T : \A y \in T : k <= y
  <2> HIDE DEF T
  <2> QED
    BY <1>5, LeastOf
<1>7. k \in 0 .. b /\ k \notin acked /\ k \in Nat
  BY <1>1, <1>6
<1>8. ASSUME NEW n \in 0 .. k - 1 PROVE n \in acked
  <2>1. n \in 0 .. b /\ ~ k <= n
    BY <1>1, <1>7
  <2> QED
    BY <1>6, <2>1
<1>9. ASSUME NEW n \in acked PROVE n \in 0 .. k - 1
  <2>1. n \in 0 .. MOD - 1
    BY <1>2
  <2>2. ~ k \in 0 .. n
    BY <1>4, <1>7
  <2> QED
    BY <1>7, <2>1, <2>2
<1>10. acked = 0 .. k - 1
  BY <1>8, <1>9
<1>11. Cardinality(0 .. k - 1) = k
  BY <1>7, FS_Interval
<1> QED
  BY <1>7, <1>10, <1>11 DEF acked

\* Seen from the new lower edge, a number is as much nearer.
LEMMA Nearer ==
    ASSUME Types, NEW k \in 0 .. MOD - 1, vt_a' = Shift(vt_a, k), NEW sn \in SN
    PROVE  MOD_BASE(sn, vt_a') = IF At(sn) >= k THEN At(sn) - k ELSE At(sn) - k + MOD
<1>1. k \in Nat
  BY Sizes
<1>2. vt_a' \in SN
  BY <1>1, ShiftNat DEF Types, TxTypes
<1>3. At(vt_a') = k
  BY AtOfShift
<1> QED
  BY <1>2, <1>3, AtVia

LEMMA ReportSendWindow ==
    ASSUME Types, SendWindow, NEW k \in 0 .. MOD - 1, k <= At(vt_s), vt_a' = Shift(vt_a, k),
           vt_s' = vt_s, tx_window' = Keep(tx_window, SN \ {Shift(vt_a, n) : n \in 0 .. k - 1}),
           retx_queue' \in Seq(Retx),
           \A i \in DOMAIN retx_queue' :
              retx_queue'[i].sn \in DOMAIN tx_window
                \/ \E j \in DOMAIN retx_queue : retx_queue'[i].sn = retx_queue[j].sn
    PROVE  SendWindow'
<1>1. /\ W \in Nat /\ MOD = 2 * W /\ W > 1 /\ k \in Nat /\ vt_s \in SN
      /\ At(vt_s) \in Nat /\ At(vt_s) <= W
  BY Sizes, AtType DEF W, SendWindow, Types, TxTypes
<1>2. MOD_BASE(vt_s, vt_a') = At(vt_s) - k
  BY <1>1, Nearer
<1>3. At(vt_s)' = At(vt_s) - k
  BY <1>2 DEF At
<1>4. DOMAIN tx_window' = {sn \in SN : k <= At(sn) /\ At(sn) < At(vt_s)}
  <2>1. DOMAIN tx_window' = DOMAIN tx_window \intersect (SN \ {Shift(vt_a, n) : n \in 0 .. k - 1})
    BY Zenon DEF Keep
  <2>2. ASSUME NEW sn \in SN PROVE sn \in {Shift(vt_a, n) : n \in 0 .. k - 1} <=> At(sn) < k
    <3>1. ASSUME At(sn) < k PROVE sn \in {Shift(vt_a, n) : n \in 0 .. k - 1}
      <4>1. At(sn) \in 0 .. k - 1
        BY <1>1, <3>1, AtType
      <4> QED
        BY <4>1, ShiftAt
    <3>2. ASSUME NEW n \in 0 .. k - 1, sn = Shift(vt_a, n) PROVE At(sn) < k
      <4>1. n \in 0 .. MOD - 1 /\ n < k
        BY <1>1
      <4>2. At(sn) = n
        BY <3>2, <4>1, AtOfShift
      <4> QED
        BY <4>1, <4>2
    <3> QED
      BY <3>1, <3>2
  <2>3. ASSUME NEW sn \in SN PROVE ~ At(sn) < k <=> k <= At(sn)
    BY <1>1, AtType
  <2> QED
    BY <2>1, <2>2, <2>3 DEF SendWindow
<1>5. ASSUME NEW sn \in SN
      PROVE  MOD_BASE(sn, vt_a') < At(vt_s) - k <=> (k <= At(sn) /\ At(sn) < At(vt_s))
  <2>1. At(sn) \in 0 .. MOD - 1
    BY AtType
  <2>2. MOD_BASE(sn, vt_a') = IF At(sn) >= k THEN At(sn) - k ELSE At(sn) - k + MOD
    BY Nearer
  <2> QED
    BY <1>1, <2>1, <2>2
<1>6. (DOMAIN tx_window = {sn \in SN : At(sn) < At(vt_s)})'
  BY <1>3, <1>4, <1>5 DEF At
<1>7. (At(vt_s) <= W)'
  BY <1>1, <1>3 DEF W
<1>8. ASSUME At(vt_s)' = W, NEW i \in DOMAIN retx_queue'
      PROVE  retx_queue'[i].sn \in DOMAIN tx_window'
  <2>1. k = 0 /\ At(vt_s) = W
    BY <1>1, <1>3, <1>8
  <2>2. DOMAIN tx_window' = DOMAIN tx_window
    <3>1. \A sn \in SN : k <= At(sn)
      BY <2>1, AtType
    <3> QED
      BY <1>4, <3>1 DEF SendWindow
  <2>3. \A j \in DOMAIN retx_queue : retx_queue[j].sn \in DOMAIN tx_window
    BY <2>1 DEF SendWindow
  <2> QED
    BY <2>2, <2>3
<1> QED
  BY <1>6, <1>7, <1>8 DEF SendWindow, W

LEMMA ReportReceiveWindow ==
    ASSUME Types, SendWindow, ReceiveWindow, NEW k \in 0 .. MOD - 1, k <= At(vr_r),
           vt_a' = Shift(vt_a, k), vt_s' = vt_s, UNCHANGED rx
    PROVE  ReceiveWindow'
<1>1. UNCHANGED <<vr_r, vr_x, vr_h, rx_window, reordering_timer>>
  BY DEF rx, reception
<1>2. \A sn \in SN : At(sn) \in 0 .. MOD - 1
  BY AtType
<1>3. ASSUME NEW sn \in SN, At(sn) >= k PROVE MOD_BASE(sn, vt_a') = At(sn) - k
  BY <1>3, Nearer
<1>4. /\ vr_r \in SN /\ vr_h \in SN /\ vr_x \in SN /\ vt_s \in SN /\ DOMAIN rx_window \subseteq SN
      /\ k \in Int
  BY MapOf DEF Types, TxTypes, RxTypes
<1>5. /\ At(vr_r) <= At(vr_h) /\ At(vr_h) <= At(vt_s)
      /\ At(vr_r) \in Int /\ At(vr_h) \in Int /\ At(vt_s) \in Int /\ At(vr_x) \in Int
  BY <1>2, <1>4 DEF ReceiveWindow
<1>6. At(vr_r)' = At(vr_r) - k /\ At(vr_h)' = At(vr_h) - k /\ At(vt_s)' = At(vt_s) - k
  BY <1>1, <1>3, <1>4, <1>5 DEF At
<1>7. ASSUME reordering_timer' PROVE (At(vr_r) < At(vr_x) /\ At(vr_x) <= At(vr_h))'
  <2>1. At(vr_r) < At(vr_x) /\ At(vr_x) <= At(vr_h)
    BY <1>1, <1>7 DEF ReceiveWindow
  <2>2. At(vr_x)' = At(vr_x) - k
    BY <1>1, <1>3, <1>4, <1>5, <2>1 DEF At
  <2> QED
    BY <1>4, <1>5, <1>6, <2>1, <2>2
<1>8. ASSUME NEW sn \in DOMAIN rx_window' PROVE (At(vr_r))' < MOD_BASE(sn, vt_a') /\ MOD_BASE(sn, vt_a') < (At(vr_h))'
  <2>1. sn \in SN /\ At(vr_r) < At(sn) /\ At(sn) < At(vr_h)
    BY <1>1, <1>4 DEF ReceiveWindow
  <2>2. At(sn) \in Int
    BY <1>2, <2>1
  <2>3. MOD_BASE(sn, vt_a') = At(sn) - k
    BY <1>3, <1>4, <1>5, <2>1, <2>2
  <2> QED
    BY <1>4, <1>5, <1>6, <2>1, <2>2, <2>3
<1>9. (At(vr_r) <= At(vr_h) /\ At(vr_h) <= At(vt_s))'
  BY <1>4, <1>5, <1>6
<1> QED
  BY <1>7, <1>8, <1>9 DEF ReceiveWindow, At

\* What backed a report backs it still, from the new edge.
LEMMA StillBacked ==
    ASSUME NEW edge \in SN, NEW k \in 0 .. MOD - 1, NEW b \in 0 .. MOD - 1, k <= b,
           NEW rep, BacksFrom(edge, rep, b)
    PROVE  BacksFrom(Shift(edge, k), rep, b - k)
<1>1. k \in Nat /\ b - k \in Nat /\ b \in Nat /\ k + (b - k) = b /\ k + (b - k) <= MOD
  BY Sizes
<1>2. Shift(Shift(edge, k), b - k) = Shift(edge, k + (b - k))
  BY <1>1, ShiftShift
<1>3. Shift(Shift(edge, k), b - k) = Shift(edge, b)
  BY <1>1, <1>2
<1> QED
  BY <1>3 DEF BacksFrom

\* The first report is gone, the edge is k further.
LEMMA BackedAdvances ==
    ASSUME NEW edge \in SN, NEW top \in 0 .. MOD - 1, NEW S, NEW list \in Seq(S), list # <<>>,
           NEW rep, NEW base, BackedFrom(edge, top, list, rep, base),
           NEW k \in 0 .. MOD - 1, k <= base[1]
    PROVE  \E next : BackedFrom(Shift(edge, k), top - k, Tail(list), rep, next)
<1> DEFINE l == Len(list)
           t == Tail(list)
           next == [i \in 1 .. l |-> base[i + 1] - k]
<1>1. /\ l \in Nat /\ l >= 1 /\ Len(t) + 1 = l
      /\ \A i \in 1 .. Len(t) : i \in 1 .. l /\ i + 1 \in 1 .. l /\ t[i] = list[i + 1]
  <2>1. l \in Nat /\ l >= 1 /\ Len(t) = l - 1 /\ \A i \in 1 .. l - 1 : t[i] = list[i + 1]
    OBVIOUS
  <2> HIDE DEF l, t
  <2> QED
    BY <2>1
<1>2. /\ base \in [1 .. l + 1 -> 0 .. top]
      /\ \A i, j \in 1 .. l + 1 : i < j => base[i] <= base[j]
      /\ \A i \in 1 .. l : BacksFrom(edge, list[i], base[i])
      /\ rep.made => BacksFrom(edge, rep, base[l + 1])
  BY DEF BackedFrom
<1>3. MOD \in Nat /\ k \in Nat /\ top \in Nat
  BY Sizes
<1>4. \A i \in 1 .. l : next[i] = base[i + 1] - k
  OBVIOUS
<1> HIDE DEF l, t
<1>5. ASSUME NEW i \in 1 .. l
      PROVE  i + 1 \in 1 .. l + 1 /\ base[i + 1] \in 0 .. MOD - 1 /\ k <= base[i + 1] /\ base[i + 1] <= top
  <2>1. i + 1 \in 1 .. l + 1 /\ 1 \in 1 .. l + 1 /\ 1 < i + 1
    BY <1>1
  <2>2. base[1] <= base[i + 1] /\ base[i + 1] \in 0 .. top /\ base[1] \in 0 .. top
    BY <1>2, <2>1
  <2> QED
    BY <1>3, <2>1, <2>2
<1>6. next \in [1 .. l -> 0 .. top - k]
  <2>1. \A i \in 1 .. l : base[i + 1] - k \in 0 .. top - k
    BY <1>3, <1>5
  <2> QED
    BY <2>1
<1> HIDE DEF next
<1>7. ASSUME NEW i \in 1 .. l, NEW j \in 1 .. l, i < j PROVE next[i] <= next[j]
  <2>1. i + 1 \in 1 .. l + 1 /\ j + 1 \in 1 .. l + 1 /\ i + 1 < j + 1
    BY <1>1, <1>7
  <2>2. base[i + 1] <= base[j + 1]
    BY <1>2, <2>1
  <2>3. base[i + 1] \in Int /\ base[j + 1] \in Int
    BY <1>3, <1>5
  <2> QED
    BY <1>3, <1>4, <2>2, <2>3
<1>8. ASSUME NEW i \in 1 .. l, NEW r, BacksFrom(edge, r, base[i + 1])
      PROVE  BacksFrom(Shift(edge, k), r, next[i])
  <2>1. BacksFrom(Shift(edge, k), r, base[i + 1] - k)
    BY <1>5, <1>8, StillBacked
  <2> QED
    BY <1>4, <2>1
<1>9. \A i \in 1 .. Len(t) : BacksFrom(Shift(edge, k), t[i], next[i])
  <2> SUFFICES ASSUME NEW i \in 1 .. Len(t) PROVE BacksFrom(Shift(edge, k), t[i], next[i])
    OBVIOUS
  <2>1. i \in 1 .. l /\ i + 1 \in 1 .. l /\ t[i] = list[i + 1]
    BY <1>1
  <2>2. BacksFrom(edge, list[i + 1], base[i + 1])
    BY <1>2, <2>1
  <2> QED
    BY <1>8, <2>1, <2>2
<1>10. rep.made => BacksFrom(Shift(edge, k), rep, next[l])
  <2>1. l \in 1 .. l
    BY <1>1
  <2> QED
    BY <1>2, <1>8, <2>1
<1>11. BackedFrom(Shift(edge, k), top - k, t, rep, next)
  BY <1>1, <1>6, <1>7, <1>9, <1>10 DEF BackedFrom
<1> QED
  BY <1>11 DEF t

LEMMA ReportArrivesWindow ==
    ASSUME Types, WindowInv, ReportArrives(1), Types' PROVE WindowInv'
<1>1. /\ reports # <<>> /\ HandleControlPdu(reports[1]) /\ reports' = Tail(reports)
      /\ UNCHANGED <<rx, air>>
  BY DEF ReportArrives, Takes, After
<1> DEFINE status == reports[1]
<1>2. PICK base : BackedBy(base)
  BY DEF WindowInv, Reported
<1>3. 1 \in 1 .. Len(reports) /\ 1 \in 1 .. Len(reports) + 1 /\ status \in Reports
  <2>1. reports \in Seq(Reports) /\ reports # <<>>
    BY <1>1 DEF Types, LinkTypes, Reports
  <2>2. Len(reports) \in Nat /\ Len(reports) >= 1
    BY <2>1
  <2>3. 1 \in 1 .. Len(reports) /\ 1 \in 1 .. Len(reports) + 1
    BY <2>2
  <2> QED
    BY <2>1, <2>3
<1>4. Backs(status, base[1]) /\ base[1] \in 0 .. At(vr_r)
  BY <1>2, <1>3 DEF BackedBy, BackedFrom, Backs
<1>5. /\ At(vr_r) \in 0 .. MOD - 1 /\ At(vt_s) \in 0 .. MOD - 1 /\ MOD \in Nat
      /\ At(vr_h) \in 0 .. MOD - 1 /\ At(vr_r) <= At(vr_h) /\ At(vr_h) <= At(vt_s)
  BY AtType, Sizes DEF Types, TxTypes, RxTypes, WindowInv, ReceiveWindow
<1>6. base[1] \in 0 .. MOD - 1 /\ status.ack_sn \in SN
  BY <1>3, <1>4, <1>5 DEF Reports
<1>7. PICK k \in 0 .. base[1] : Acked(status) = 0 .. k - 1 /\ Cardinality(Acked(status)) = k
  BY <1>4, <1>6, AckedIs
<1>8. k \in 0 .. MOD - 1 /\ k <= base[1] /\ k <= At(vr_r) /\ k <= At(vt_s)
  BY <1>4, <1>5, <1>6
<1>9. /\ tx_window' = Keep(tx_window, SN \ {Shift(vt_a, n) : n \in Acked(status)})
      /\ vt_a' = Shift(vt_a, Cardinality(Acked(status))) /\ vt_s' = vt_s
  BY <1>1 DEF HandleControlPdu
<1>10. tx_window' = Keep(tx_window, SN \ {Shift(vt_a, n) : n \in 0 .. k - 1}) /\ vt_a' = Shift(vt_a, k)
  BY <1>7, <1>9, Zenon
<1>11. retx_queue' \in Seq(Retx)
       /\ \A i \in DOMAIN retx_queue' :
              retx_queue'[i].sn \in DOMAIN tx_window
                \/ \E j \in DOMAIN retx_queue : retx_queue'[i].sn = retx_queue[j].sn
  <2>1. PICK old \in Seq(Retx), new \in Seq(Retx) :
             /\ old = <<>> \/ old = retx_queue
             /\ \A i \in DOMAIN new : new[i].sn \in DOMAIN tx_window /\ new[i].so = 0
             /\ retx_queue' = old \o new
    BY <1>1, AgainIs, Zenon DEF Types
  <2>2. /\ Len(old) \in Nat /\ Len(new) \in Nat
        /\ DOMAIN old = 1 .. Len(old) /\ DOMAIN new = 1 .. Len(new)
        /\ DOMAIN retx_queue' = 1 .. Len(old) + Len(new)
        /\ \A i \in 1 .. Len(old) : retx_queue'[i] = old[i]
        /\ \A i \in Len(old) + 1 .. Len(old) + Len(new) : retx_queue'[i] = new[i - Len(old)]
    BY <2>1
  <2>3. ASSUME NEW i \in DOMAIN retx_queue'
        PROVE  retx_queue'[i].sn \in DOMAIN tx_window
                 \/ \E j \in DOMAIN retx_queue : retx_queue'[i].sn = retx_queue[j].sn
    <3>1. CASE i <= Len(old)
      <4>1. i \in DOMAIN old /\ retx_queue'[i] = old[i]
        BY <2>2, <3>1
      <4>2. old = retx_queue
        <5>1. old # <<>>
          BY <4>1
        <5> QED
          BY <2>1, <5>1
      <4>3. i \in DOMAIN retx_queue /\ retx_queue'[i].sn = retx_queue[i].sn
        BY <4>1, <4>2
      <4> QED
        BY <4>3
    <3>2. CASE ~ i <= Len(old)
      <4>1. i \in Len(old) + 1 .. Len(old) + Len(new) /\ i - Len(old) \in DOMAIN new
        BY <2>2, <3>2
      <4>2. retx_queue'[i] = new[i - Len(old)]
        BY <2>2, <4>1
      <4> QED
        BY <2>1, <4>1, <4>2
    <3> QED
      BY <3>1, <3>2
  <2> QED
    BY <2>3 DEF Types, TxTypes
<1>12. SendWindow'
  BY <1>8, <1>9, <1>10, <1>11, ReportSendWindow DEF WindowInv
<1>13. ReceiveWindow'
  BY <1>1, <1>8, <1>9, <1>10, ReportReceiveWindow DEF WindowInv
<1>14. UnderWay'
  BY <1>1, <1>9 DEF WindowInv, UnderWay
<1>15. Reported'
  <2>1. MOD_BASE(vr_r, vt_a') = At(vr_r) - k
    <3>1. vr_r \in SN /\ At(vr_r) >= k
      BY <1>5, <1>8 DEF Types, RxTypes
    <3> QED
      BY <1>8, <1>10, <3>1, Nearer
  <2>2. At(vr_r)' = At(vr_r) - k
    BY <1>1, <2>1 DEF At, rx, reception
  <2>3. reports \in Seq(Reports) /\ reports # <<>> /\ vt_a \in SN /\ report' = report
    BY <1>1 DEF Types, TxTypes, LinkTypes, Reports, rx, status_vars
  <2>4. \E next : BackedFrom(Shift(vt_a, k), At(vr_r) - k, Tail(reports), report, next)
    BY <1>2, <1>5, <1>8, <2>3, BackedAdvances DEF BackedBy
  <2> QED
    BY <1>1, <1>10, <2>2, <2>3, <2>4 DEF Reported, BackedBy
<1> QED
  BY <1>12, <1>13, <1>14, <1>15 DEF WindowInv

-----------------------------------------------------------------------------
(* The receiving side moves its window                                     *)

\* Where the edges of both sides are.
LEMMA Edges ==
    ASSUME Types, SendWindow, ReceiveWindow
    PROVE  /\ W \in Nat /\ MOD = 2 * W /\ W > 1 /\ MOD \in Nat
           /\ vr_r \in SN /\ vr_h \in SN /\ vr_x \in SN /\ vt_s \in SN
           /\ At(vr_r) \in Nat /\ At(vr_h) \in Nat /\ At(vt_s) \in Nat /\ At(vr_x) \in Nat
           /\ At(vr_r) <= At(vr_h) /\ At(vr_h) <= At(vt_s) /\ At(vt_s) <= W
<1>1. vr_r \in SN /\ vr_h \in SN /\ vr_x \in SN /\ vt_s \in SN
  BY DEF Types, TxTypes, RxTypes
<1>2. At(vr_r) \in Nat /\ At(vr_h) \in Nat /\ At(vt_s) \in Nat /\ At(vr_x) \in Nat
  BY <1>1, AtType
<1> QED
  BY <1>1, <1>2, Sizes DEF W, SendWindow, ReceiveWindow

\* What is under way and inside the window of the receiving side is in the window of
\* the sending side, not before what the receiving side waits for.
LEMMA Inside ==
    ASSUME Types, SendWindow, ReceiveWindow, NEW sn \in SN, MOD_BASE(vt_s, sn) \in 1 .. W,
           inside_rx_window(sn, vr_r)
    PROVE  At(vr_r) <= At(sn) /\ At(sn) < At(vt_s)
<1>1. /\ W \in Nat /\ MOD = 2 * W /\ vr_r \in SN /\ vt_s \in SN
      /\ At(vr_r) \in Nat /\ At(vt_s) \in Nat /\ At(vr_r) <= At(vt_s) /\ At(vt_s) <= W
  BY Edges
<1>2. At(sn) \in Nat
  BY AtType
<1>3. MOD_BASE(vt_s, sn) = IF At(vt_s) >= At(sn) THEN At(vt_s) - At(sn) ELSE At(vt_s) - At(sn) + MOD
  BY <1>1, AtVia
<1>4. MOD_BASE(sn, vr_r) = IF At(sn) >= At(vr_r) THEN At(sn) - At(vr_r) ELSE At(sn) - At(vr_r) + MOD
  BY <1>1, AtVia
<1>5. MOD_BASE(sn, vr_r) < W
  BY DEF inside_rx_window, W
<1>6. At(vr_r) <= At(sn)
  BY <1>1, <1>2, <1>4, <1>5
<1> QED
  BY <1>1, <1>2, <1>3, <1>4, <1>5, <1>6

LEMMA SeeHighestAt ==
    ASSUME Types, SendWindow, ReceiveWindow, NEW sn \in SN, At(vr_r) <= At(sn), At(sn) < At(vt_s),
           SeeHighest(sn)
    PROVE  /\ vr_h' \in SN /\ At(vr_h') \in Nat
           /\ At(vr_h) <= At(vr_h') /\ At(sn) < At(vr_h') /\ At(vr_h') <= At(vt_s)
<1>1. /\ W \in Nat /\ MOD = 2 * W /\ W > 1 /\ vr_r \in SN /\ vr_h \in SN
      /\ At(vr_r) \in Nat /\ At(vr_h) \in Nat /\ At(vt_s) \in Nat
      /\ At(vr_r) <= At(vr_h) /\ At(vr_h) <= At(vt_s) /\ At(vt_s) <= W
  BY Edges
<1>2. At(sn) \in Nat
  BY AtType
<1>3. MOD_BASE(sn, vr_r) = At(sn) - At(vr_r) /\ MOD_BASE(vr_h, vr_r) = At(vr_h) - At(vr_r)
  BY <1>1, <1>2, AtVia
<1>4. CASE At(sn) >= At(vr_h)
  <2>1. vr_h' = Shift(sn, 1)
    BY <1>1, <1>2, <1>3, <1>4 DEF SeeHighest
  <2>2. 1 \in 0 .. MOD /\ 1 \in Nat
    BY <1>1
  <2>3. At(Shift(sn, 1)) = IF At(sn) + 1 < MOD THEN At(sn) + 1 ELSE At(sn) + 1 - MOD
    BY <2>2, AtShift
  <2>4. At(vr_h') = At(sn) + 1
    BY <1>1, <1>2, <2>1, <2>3
  <2>5. vr_h' \in SN
    BY <2>1, <2>2, ShiftNat
  <2> QED
    BY <1>1, <1>2, <1>4, <2>4, <2>5
<1>5. CASE ~ At(sn) >= At(vr_h)
  <2>1. vr_h' = vr_h
    BY <1>1, <1>2, <1>3, <1>5 DEF SeeHighest
  <2> QED
    BY <1>1, <1>2, <1>5, <2>1
<1> QED
  BY <1>4, <1>5

\* What runs on from vr_r ends before vr_h.
LEMMA RunAt ==
    ASSUME Types, NEW win, NEW n \in 0 .. MOD, NEW h \in Nat, At(vr_r) <= h, h < MOD,
           n = MOD \/ Shift(vr_r, n) \notin DOMAIN win,
           \A i \in 1 .. n : Shift(vr_r, i - 1) \in DOMAIN win,
           \A s \in DOMAIN win : s \in SN /\ At(vr_r) <= At(s) /\ At(s) < h
    PROVE  /\ Shift(vr_r, n) \in SN /\ At(Shift(vr_r, n)) = At(vr_r) + n /\ At(vr_r) + n <= h
           /\ \A s \in DOMAIN win : MOD_BASE(s, vr_r) >= n => At(vr_r) + n < At(s)
<1>1. MOD \in Nat /\ vr_r \in SN /\ At(vr_r) \in Nat /\ n \in Nat
  BY Sizes, AtType DEF Types, RxTypes
<1>2. ASSUME NEW k \in Nat, At(vr_r) + k <= h PROVE Shift(vr_r, k) \in SN /\ At(Shift(vr_r, k)) = At(vr_r) + k
  <2>1. k \in 0 .. MOD /\ At(vr_r) + k < MOD
    BY <1>1, <1>2
  <2>2. At(Shift(vr_r, k)) = At(vr_r) + k
    BY <1>1, <2>1, AtShift
  <2> QED
    BY <1>1, <2>2, ShiftNat
<1>3. At(vr_r) + n <= h
  <2> SUFFICES ASSUME ~ At(vr_r) + n <= h PROVE FALSE
    OBVIOUS
  <2> DEFINE k == h - At(vr_r)
  <2>1. k \in Nat /\ At(vr_r) + k = h /\ k + 1 \in 1 .. n /\ (k + 1) - 1 = k
    BY <1>1
  <2> HIDE DEF k
  <2>2. At(Shift(vr_r, k)) = h
    <3>1. At(vr_r) + k <= h
      BY <2>1
    <3> QED
      BY <1>2, <2>1, <3>1
  <2>3. Shift(vr_r, k) \in DOMAIN win
    <3>1. PICK i \in 1 .. n : i = k + 1 /\ i - 1 = k
      BY <2>1
    <3> QED
      BY <3>1, Zenon
  <2>4. At(Shift(vr_r, k)) < h
    BY <2>3
  <2> QED
    BY <2>2, <2>4
<1>4. n # MOD /\ Shift(vr_r, n) \notin DOMAIN win
  BY <1>1, <1>3
<1>5. ASSUME NEW s \in DOMAIN win, MOD_BASE(s, vr_r) >= n PROVE At(vr_r) + n < At(s)
  <2>1. s \in SN /\ At(s) \in Nat /\ At(vr_r) <= At(s)
    BY AtType
  <2>2. MOD_BASE(s, vr_r) = At(s) - At(vr_r)
    BY <1>1, <2>1, AtVia
  <2>3. At(s) # At(Shift(vr_r, n))
    <3>1. Shift(vr_r, n) \in SN /\ s # Shift(vr_r, n)
      BY <1>1, <1>4, ShiftNat
    <3> QED
      BY <2>1, <3>1, AtSame
  <2>4. At(Shift(vr_r, n)) = At(vr_r) + n
    BY <1>1, <1>2, <1>3
  <2> QED
    BY <1>1, <1>5, <2>1, <2>2, <2>3, <2>4
<1> QED
  BY <1>1, <1>2, <1>3, <1>5

\* A timer that goes on still waits for something.
LEMMA UpdateReorderingAt ==
    ASSUME Types, SendWindow, ReceiveWindow, UpdateReordering, vr_r' \in SN, vr_h' \in SN,
           At(vr_r') \in Nat, At(vr_h') \in Nat, At(vr_r) <= At(vr_r'), At(vr_r') <= At(vr_h'),
           At(vr_h) <= At(vr_h'), At(vr_h') <= W, reordering_timer'
    PROVE  At(vr_r') < At(vr_x') /\ At(vr_x') <= At(vr_h')
<1>1. W \in Nat /\ MOD = 2 * W /\ W > 1 /\ vr_x \in SN /\ At(vr_x) \in Nat /\ At(vr_r) \in Nat /\ At(vr_h) \in Nat
  BY Edges
<1>2. CASE vr_x' = vr_h' /\ vr_h' # vr_r'
  <2>1. At(vr_h') # At(vr_r')
    BY <1>2, AtSame
  <2> QED
    BY <1>2, <2>1
<1>3. CASE /\ vr_x' = vr_x /\ reordering_timer /\ vr_x # vr_r'
           /\ inside_rx_window(vr_x, vr_r') \/ vr_x = Shift(vr_r', RLC_AM_WINDOW_SIZE)
  <2>1. At(vr_r) < At(vr_x) /\ At(vr_x) <= At(vr_h)
    BY <1>3 DEF ReceiveWindow
  <2>2. At(vr_x) # At(vr_r')
    BY <1>1, <1>3, AtSame
  <2>3. MOD_BASE(vr_x, vr_r') <= W
    <3>1. CASE inside_rx_window(vr_x, vr_r')
      <4>1. MOD_BASE(vr_x, vr_r') \in 0 .. MOD - 1
        BY <1>1, BaseType
      <4> QED
        BY <1>1, <3>1, <4>1 DEF inside_rx_window, W
    <3>2. CASE vr_x = Shift(vr_r', RLC_AM_WINDOW_SIZE)
      <4>1. RLC_AM_WINDOW_SIZE \in 0 .. MOD - 1
        BY <1>1 DEF W
      <4>2. MOD_BASE(vr_x, vr_r') = RLC_AM_WINDOW_SIZE
        BY <3>2, <4>1, BaseOfShift
      <4> QED
        BY <1>1, <4>2 DEF W
    <3> QED
      BY <1>3, <3>1, <3>2
  <2>4. MOD_BASE(vr_x, vr_r') = IF At(vr_x) >= At(vr_r') THEN At(vr_x) - At(vr_r')
                                                          ELSE At(vr_x) - At(vr_r') + MOD
    BY <1>1, AtVia
  <2>5. At(vr_r') <= W
    BY <1>1
  <2>6. At(vr_r') < At(vr_x)
    BY <1>1, <2>1, <2>2, <2>3, <2>4, <2>5
  <2> QED
    BY <1>1, <1>3, <2>1, <2>6
<1> QED
  BY <1>2, <1>3 DEF UpdateReordering

LEMMA HandleDataPduWindow ==
    ASSUME Types, SendWindow, ReceiveWindow, UNCHANGED <<vt_a, vt_s>>, NEW sn \in SN,
           MOD_BASE(vt_s, sn) \in 1 .. W, NEW p, NEW buf \in Payload, NEW segs, NEW asked,
           HandleDataPdu(sn, p, buf, segs, asked)
    PROVE  ReceiveWindow' /\ At(vr_r) <= At(vr_r)'
<1>1. CASE ~inside_rx_window(sn, vr_r) \/ sn \in DOMAIN rx_window
  <2>1. UNCHANGED <<vr_r, vr_x, vr_h, rx_window, reordering_timer>>
    BY <1>1 DEF HandleDataPdu, Discard
  <2> QED
    BY <2>1, Edges DEF ReceiveWindow, At
<1>2. CASE ~ (~inside_rx_window(sn, vr_r) \/ sn \in DOMAIN rx_window)
  <2> DEFINE win == Put(rx_window, sn, buf)
             n == RunLength(win, vr_r)
  <2>1. /\ SeeHighest(sn)
        /\ rx_window' = Keep(win, {s \in SN : MOD_BASE(s, vr_r) >= n})
        /\ vr_r' = Shift(vr_r, n)
        /\ UpdateReordering
    BY <1>2 DEF HandleDataPdu
  <2>2. /\ DOMAIN win = DOMAIN rx_window \union {sn}
        /\ n \in 0 .. MOD /\ (n = MOD \/ Shift(vr_r, n) \notin DOMAIN win)
        /\ \A i \in 1 .. n : Shift(vr_r, i - 1) \in DOMAIN win
    BY RunIs DEF Types
  <2> HIDE DEF win, n
  <2>3. /\ W \in Nat /\ MOD = 2 * W /\ W > 1
        /\ At(vr_r) \in Nat /\ At(vr_h) \in Nat /\ At(vt_s) \in Nat
        /\ At(vr_r) <= At(vr_h) /\ At(vr_h) <= At(vt_s) /\ At(vt_s) <= W
    BY Edges
  <2>4. At(vr_r) <= At(sn) /\ At(sn) < At(vt_s)
    BY <1>2, Inside
  <2>5. /\ vr_h' \in SN /\ At(vr_h') \in Nat
        /\ At(vr_h) <= At(vr_h') /\ At(sn) < At(vr_h') /\ At(vr_h') <= At(vt_s)
    BY <2>1, <2>4, SeeHighestAt
  <2>6. ASSUME NEW s \in DOMAIN win PROVE s \in SN /\ At(vr_r) <= At(s) /\ At(s) < At(vr_h')
    <3>1. CASE s = sn
      BY <2>4, <2>5, <3>1
    <3>2. CASE s \in DOMAIN rx_window
      <4>1. s \in SN /\ At(vr_r) < At(s) /\ At(s) < At(vr_h)
        BY <3>2, MapOf DEF ReceiveWindow, Types, RxTypes
      <4>2. At(s) \in Nat
        BY <4>1, AtType
      <4> QED
        BY <2>3, <2>5, <4>1, <4>2
    <3> QED
      BY <2>2, <3>1, <3>2
  <2> DEFINE h == At(vr_h')
  <2>7. h \in Nat /\ At(vr_r) <= h /\ h < MOD /\ h <= W /\ h <= At(vt_s)
    BY <2>3, <2>5
  <2>8. \A s \in DOMAIN win : s \in SN /\ At(vr_r) <= At(s) /\ At(s) < h
    BY <2>6
  <2>9. h = At(vr_h')
    OBVIOUS
  <2> HIDE DEF h
  <2>10. /\ vr_r' \in SN /\ At(vr_r') = At(vr_r) + n /\ At(vr_r) + n <= h
         /\ \A s \in DOMAIN win : MOD_BASE(s, vr_r) >= n => At(vr_r) + n < At(s)
    <3>1. /\ Shift(vr_r, n) \in SN /\ At(Shift(vr_r, n)) = At(vr_r) + n /\ At(vr_r) + n <= h
          /\ \A s \in DOMAIN win : MOD_BASE(s, vr_r) >= n => At(vr_r) + n < At(s)
      BY <2>2, <2>7, <2>8, RunAt
    <3> QED
      BY <2>1, <3>1
  <2>11. n \in Nat /\ At(vr_r') \in Nat /\ At(vr_r) <= At(vr_r') /\ At(vr_r') <= At(vr_h')
    <3>1. n \in Nat
      BY <2>2, <2>3
    <3> QED
      BY <2>3, <2>9, <2>10, <3>1
  <2>12. \A s \in SN : At(s)' = At(s)
    BY DEF At
  <2>13. At(vr_r)' = At(vr_r') /\ At(vr_h)' = At(vr_h') /\ At(vr_x)' = At(vr_x') /\ At(vt_s)' = At(vt_s)
    BY DEF At
  <2>14. (At(vr_r) <= At(vr_h) /\ At(vr_h) <= At(vt_s))'
    BY <2>5, <2>11, <2>13
  <2>15. (reordering_timer => (At(vr_r) < At(vr_x) /\ At(vr_x) <= At(vr_h)))'
    <3>1. At(vr_h') <= W
      BY <2>7, <2>9
    <3>2. ASSUME reordering_timer' PROVE At(vr_r') < At(vr_x') /\ At(vr_x') <= At(vr_h')
      BY <2>1, <2>5, <2>10, <2>11, <3>1, <3>2, UpdateReorderingAt
    <3> QED
      BY <2>13, <3>2
  <2>16. (\A s \in DOMAIN rx_window : At(vr_r) < At(s) /\ At(s) < At(vr_h))'
    <3>1. ASSUME NEW s \in DOMAIN rx_window' PROVE At(vr_r') < At(s) /\ At(s) < At(vr_h')
      <4>1. DOMAIN rx_window' = DOMAIN win \intersect {t \in SN : MOD_BASE(t, vr_r) >= n}
        BY <2>1, Zenon DEF Keep
      <4>2. s \in DOMAIN win /\ MOD_BASE(s, vr_r) >= n
        BY <3>1, <4>1, Zenon
      <4> QED
        BY <2>6, <2>10, <4>2
    <3> QED
      BY <2>13, <3>1 DEF At
  <2> QED
    BY <2>11, <2>13, <2>14, <2>15, <2>16 DEF ReceiveWindow
<1> QED
  BY <1>1, <1>2

LEMMA FirstSegmentWindow ==
    ASSUME Types, SendWindow, ReceiveWindow, UNCHANGED <<vt_a, vt_s>>, NEW pdu, pdu.sn \in SN,
           MOD_BASE(vt_s, pdu.sn) \in 1 .. W, inside_rx_window(pdu.sn, vr_r), FirstSegment(pdu)
    PROVE  ReceiveWindow' /\ At(vr_r) <= At(vr_r)'
<1> DEFINE sn == pdu.sn
<1>1. SeeHighest(sn) /\ UNCHANGED <<vr_r, vr_x, rx_window, reordering_timer>>
  BY DEF FirstSegment
<1>2. sn \in SN /\ MOD_BASE(vt_s, sn) \in 1 .. W /\ inside_rx_window(sn, vr_r)
  OBVIOUS
<1> HIDE DEF sn
<1>3. At(vr_r) <= At(sn) /\ At(sn) < At(vt_s)
  BY <1>2, Inside
<1>4. vr_h' \in SN /\ At(vr_h') \in Nat /\ At(vr_h) <= At(vr_h') /\ At(vr_h') <= At(vt_s)
  BY <1>1, <1>2, <1>3, SeeHighestAt
<1>5. /\ At(vr_r) \in Nat /\ At(vr_h) \in Nat /\ At(vt_s) \in Nat /\ At(vr_x) \in Nat
      /\ At(vr_r) <= At(vr_h) /\ At(vr_h) <= At(vt_s)
  BY Edges
<1>6. \A s \in DOMAIN rx_window : At(s) \in Nat
  <2>1. DOMAIN rx_window \subseteq SN
    BY MapOf DEF Types, RxTypes
  <2> QED
    BY <2>1, AtType
<1>7. /\ At(vr_r)' = At(vr_r) /\ At(vr_h)' = At(vr_h') /\ At(vr_x)' = At(vr_x) /\ At(vt_s)' = At(vt_s)
  BY <1>1 DEF At
<1>8. (At(vr_r) <= At(vr_h) /\ At(vr_h) <= At(vt_s))'
  BY <1>4, <1>5, <1>7
<1>9. (reordering_timer => (At(vr_r) < At(vr_x) /\ At(vr_x) <= At(vr_h)))'
  <2>1. reordering_timer => (At(vr_r) < At(vr_x) /\ At(vr_x) <= At(vr_h))
    BY DEF ReceiveWindow
  <2> QED
    BY <1>1, <1>4, <1>5, <1>7, <2>1
<1>10. (\A s \in DOMAIN rx_window : At(vr_r) < At(s) /\ At(s) < At(vr_h))'
  <2>1. ASSUME NEW s \in DOMAIN rx_window PROVE At(vr_r) < At(s) /\ At(s) < At(vr_h')
    <3>1. At(vr_r) < At(s) /\ At(s) < At(vr_h)
      BY DEF ReceiveWindow
    <3> QED
      BY <1>4, <1>5, <1>6, <3>1
  <2> QED
    BY <1>1, <1>7, <2>1 DEF At
<1> QED
  BY <1>5, <1>7, <1>8, <1>9, <1>10 DEF ReceiveWindow

LEMMA WritePduWindow ==
    ASSUME Types, SendWindow, ReceiveWindow, UNCHANGED <<vt_a, vt_s>>, NEW pdu \in Pdus,
           MOD_BASE(vt_s, pdu.sn) \in 1 .. W, WritePdu(pdu)
    PROVE  ReceiveWindow' /\ At(vr_r) <= At(vr_r)'
<1>1. pdu.sn \in SN /\ pdu.buf \in Payload /\ pdu.so \in Nat
  BY DEF Pdus
<1>2. ASSUME NEW p, NEW segs, Discard(p, segs) PROVE ReceiveWindow' /\ At(vr_r) <= At(vr_r)'
  <2>1. UNCHANGED <<vr_r, vr_x, vr_h, rx_window, reordering_timer>>
    BY <1>2 DEF Discard
  <2> QED
    BY <2>1, Edges DEF ReceiveWindow, At
<1>3. CASE HandleDataPdu(pdu.sn, pdu.p, pdu.buf, rx_segments, FALSE)
  BY <1>1, <1>3, HandleDataPduWindow
<1>4. CASE Discard(pdu.p, rx_segments)
  BY <1>2, <1>4
<1>5. CASE inside_rx_window(pdu.sn, vr_r) /\ FirstSegment(pdu)
  BY <1>1, <1>5, FirstSegmentWindow
<1>6. CASE pdu.sn \in DOMAIN rx_segments /\ AddSegment(pdu)
  <2> DEFINE now == Now(rx_segments[pdu.sn], pdu)
             rest == Keep(rx_segments, SN \ {pdu.sn})
  <2>1. now \in Segment
    <3>1. rx_segments[pdu.sn] \in Segment
      BY <1>6, SegmentTypes, MapOf DEF Types
    <3> QED
      BY <3>1, NowType
  <2>2. now.buf \in Payload
    BY <2>1 DEF Segment
  <2>3. HandleDataPdu(pdu.sn, FALSE, now.buf, rest, pdu.p) \/ Discard(pdu.p, Put(rx_segments, pdu.sn, now))
    BY <1>6, AddSegmentIs
  <2> HIDE DEF now, rest
  <2>4. CASE HandleDataPdu(pdu.sn, FALSE, now.buf, rest, pdu.p)
    BY <1>1, <2>2, <2>4, HandleDataPduWindow
  <2>5. CASE Discard(pdu.p, Put(rx_segments, pdu.sn, now))
    BY <1>2, <2>5
  <2> QED
    BY <2>3, <2>4, <2>5
<1> QED
  BY <1>3, <1>4, <1>5, <1>6, Zenon DEF WritePdu, HandleDataPduSegment

LEMMA PduArrivesWindow ==
    ASSUME Types, WindowInv, NEW i \in {1, 2}, PduArrives(i), Types' PROVE WindowInv'
<1>1. /\ Takes(air, i) /\ WritePdu(air[i]) /\ air' = After(air, i)
      /\ UNCHANGED <<vt_a, vt_s, tx_window, retx_queue, reports, report>>
  BY DEF PduArrives, WritePdu, tx, status_vars
<1>2. air \in Seq(Pdus) /\ \A e \in Pdus : Late(e) \in Pdus
  BY LatePdu DEF Types, LinkTypes
<1>3. /\ i \in DOMAIN air /\ DOMAIN After(air, i) = 1 .. Len(air) - 1
      /\ \A j \in 1 .. Len(air) - 1 : /\ Was(j, i) \in DOMAIN air
                                      /\ \/ After(air, i)[j] = air[Was(j, i)]
                                         \/ After(air, i)[j] = Late(air[Was(j, i)])
  <2>1. i \in DOMAIN air
    BY <1>1, <1>2, AfterIs
  <2>2. DOMAIN After(air, i) = 1 .. Len(air) - 1
    BY <1>1, <1>2, AfterIs
  <2>3. \A j \in 1 .. Len(air) - 1 : /\ Was(j, i) \in DOMAIN air
                                     /\ \/ After(air, i)[j] = air[Was(j, i)]
                                        \/ After(air, i)[j] = Late(air[Was(j, i)])
    BY <1>1, <1>2, AfterIs, Zenon
  <2> QED
    BY <2>1, <2>2, <2>3
<1>4. \A j \in DOMAIN air : air[j] \in Pdus /\ MOD_BASE(vt_s, air[j].sn) \in 1 .. W
  BY <1>2 DEF WindowInv, UnderWay
<1>5. ReceiveWindow' /\ At(vr_r) <= At(vr_r)'
  BY <1>1, <1>3, <1>4, WritePduWindow DEF WindowInv
<1>6. SendWindow'
  BY <1>1 DEF WindowInv, SendWindow, At, W
<1>7. UnderWay'
  <2>1. ASSUME NEW j \in DOMAIN air' PROVE MOD_BASE(vt_s, air'[j].sn) \in 1 .. W
    <3>1. j \in 1 .. Len(air) - 1
      BY <1>1, <1>3, <2>1
    <3> DEFINE e == air[Was(j, i)]
    <3>2. e \in Pdus /\ MOD_BASE(vt_s, e.sn) \in 1 .. W /\ (air'[j] = e \/ air'[j] = Late(e))
      BY <1>1, <1>3, <1>4, <3>1
    <3> HIDE DEF e
    <3>3. air'[j].sn = e.sn
      BY <3>2, LatePdu
    <3> QED
      BY <3>2, <3>3
  <2> QED
    BY <1>1, <2>1 DEF UnderWay, W
<1>8. Reported'
  <2>1. PICK base : BackedFrom(vt_a, At(vr_r), reports, report, base)
    BY DEF WindowInv, Reported, BackedBy
  <2>2. At(vr_r) \in Nat /\ At(vr_r)' \in Nat
    <3>1. At(vr_r)' \in Nat
      <4>1. vr_r' \in SN /\ vt_a' \in SN
        BY DEF Types, TxTypes, RxTypes
      <4> QED
        BY <4>1, BaseType DEF At
    <3> QED
      BY <3>1, Edges DEF WindowInv
  <2>3. BackedFrom(vt_a, At(vr_r)', reports, report, base)
    <3>1. \A x \in 0 .. At(vr_r) : x \in 0 .. At(vr_r)'
      BY <1>5, <2>2
    <3> QED
      BY <2>1, <3>1 DEF BackedFrom
  <2> QED
    BY <1>1, <2>3 DEF Reported, BackedBy
<1> QED
  BY <1>5, <1>6, <1>7, <1>8 DEF WindowInv

-----------------------------------------------------------------------------
(* What reports rest on, when one is made, sent or lost                    *)

\* A report made at the top.
LEMMA BackedMade ==
    ASSUME NEW edge, NEW top \in Nat, NEW S, NEW list \in Seq(S), NEW rep, NEW base,
           BackedFrom(edge, top, list, rep, base), NEW new, BacksFrom(edge, new, top)
    PROVE  \E next : BackedFrom(edge, top, list, new, next)
<1> DEFINE l == Len(list)
           next == [i \in 1 .. l + 1 |-> IF i = l + 1 THEN top ELSE base[i]]
<1>1. l \in Nat /\ top \in 0 .. top
  OBVIOUS
<1>2. /\ base \in [1 .. l + 1 -> 0 .. top]
      /\ \A i, j \in 1 .. l + 1 : i < j => base[i] <= base[j]
      /\ \A i \in 1 .. l : BacksFrom(edge, list[i], base[i])
  BY DEF BackedFrom
<1>3. next \in [1 .. l + 1 -> 0 .. top] /\ \A i \in 1 .. l + 1 : next[i] = IF i = l + 1 THEN top ELSE base[i]
  BY <1>1, <1>2
<1> HIDE DEF l, next
<1>4. l + 1 \in 1 .. l + 1 /\ \A i \in 1 .. l : i \in 1 .. l + 1 /\ i # l + 1
  BY <1>1
<1>5. ASSUME NEW i \in 1 .. l + 1, NEW j \in 1 .. l + 1, i < j PROVE next[i] <= next[j]
  <2>1. i # l + 1 /\ next[i] = base[i] /\ base[i] \in 0 .. top
    BY <1>1, <1>2, <1>3, <1>5
  <2>2. CASE j = l + 1
    BY <1>3, <2>1, <2>2
  <2>3. CASE j # l + 1
    BY <1>2, <1>3, <1>5, <2>1, <2>3
  <2> QED
    BY <2>2, <2>3
<1>6. \A i \in 1 .. l : BacksFrom(edge, list[i], next[i])
  BY <1>2, <1>3, <1>4
<1>7. BacksFrom(edge, new, next[l + 1])
  BY <1>3, <1>4
<1>8. BackedFrom(edge, top, list, new, next)
  BY <1>3, <1>5, <1>6, <1>7 DEF BackedFrom, l
<1> QED
  BY <1>8

\* The report made is sent.
LEMMA BackedSent ==
    ASSUME NEW edge, NEW top \in Nat, NEW S, NEW list \in Seq(S), NEW rep, rep.made, NEW base,
           BackedFrom(edge, top, list, rep, base), NEW r \in S, r.ack_sn = rep.ack_sn, r.nacks = rep.nacks,
           NEW new, ~new.made
    PROVE  \E next : BackedFrom(edge, top, Append(list, r), new, next)
<1> DEFINE l == Len(list)
           more == Append(list, r)
           next == [i \in 1 .. l + 2 |-> IF i = l + 2 THEN top ELSE base[i]]
<1>1. /\ l \in Nat /\ top \in 0 .. top /\ Len(more) = l + 1 /\ more[l + 1] = r
      /\ \A i \in 1 .. l : more[i] = list[i]
  OBVIOUS
<1>2. /\ base \in [1 .. l + 1 -> 0 .. top]
      /\ \A i, j \in 1 .. l + 1 : i < j => base[i] <= base[j]
      /\ \A i \in 1 .. l : BacksFrom(edge, list[i], base[i])
      /\ BacksFrom(edge, rep, base[l + 1])
  BY DEF BackedFrom
<1> HIDE DEF l, more
<1>3. \A i \in 1 .. l + 2 : i = l + 2 \/ (i # l + 2 /\ i \in 1 .. l + 1)
  BY <1>1
<1>4. next \in [1 .. l + 2 -> 0 .. top] /\ \A i \in 1 .. l + 2 : next[i] = IF i = l + 2 THEN top ELSE base[i]
  BY <1>1, <1>2, <1>3
<1> HIDE DEF next
<1>5. ASSUME NEW i \in 1 .. l + 2, NEW j \in 1 .. l + 2, i < j PROVE next[i] <= next[j]
  <2>1. i # l + 2
    BY <1>1, <1>5
  <2>2. i \in 1 .. l + 1 /\ next[i] = base[i] /\ base[i] \in 0 .. top
    BY <1>2, <1>3, <1>4, <2>1
  <2>3. CASE j = l + 2
    BY <1>4, <2>2, <2>3
  <2>4. CASE j # l + 2
    BY <1>2, <1>3, <1>4, <1>5, <2>2, <2>4
  <2> QED
    BY <2>3, <2>4
<1>6. ASSUME NEW i \in 1 .. l + 1 PROVE BacksFrom(edge, more[i], next[i])
  <2>1. i \in 1 .. l + 2 /\ i # l + 2 /\ (i = l + 1 \/ i \in 1 .. l)
    BY <1>1
  <2>2. next[i] = base[i]
    BY <1>4, <2>1
  <2>3. CASE i = l + 1
    <3>1. BacksFrom(edge, r, base[l + 1])
      BY <1>2 DEF BacksFrom
    <3> QED
      BY <1>1, <2>2, <2>3, <3>1
  <2>4. CASE i \in 1 .. l
    BY <1>1, <1>2, <2>2, <2>4
  <2> QED
    BY <2>1, <2>3, <2>4
<1>7. Len(more) + 1 = l + 2
  BY <1>1
<1>8. BackedFrom(edge, top, more, new, next)
  BY <1>1, <1>4, <1>5, <1>6, <1>7 DEF BackedFrom
<1> QED
  BY <1>8 DEF more

\* One of them is lost.
LEMMA BackedLost ==
    ASSUME NEW edge, NEW top \in Nat, NEW S, NEW list \in Seq(S), NEW rep, NEW base,
           BackedFrom(edge, top, list, rep, base), NEW i \in DOMAIN list
    PROVE  \E next : BackedFrom(edge, top, RemoveAt(list, i), rep, next)
<1> DEFINE l == Len(list)
           less == RemoveAt(list, i)
           next == [j \in 1 .. l |-> base[Was(j, i)]]
<1>1. /\ l \in Nat /\ i \in 1 .. l /\ Len(less) = l - 1
      /\ \A j \in 1 .. l - 1 : less[j] = list[IF j < i THEN j ELSE j + 1]
  <2>1. l \in Nat /\ i \in 1 .. l
    OBVIOUS
  <2>2. Len(less) = l - 1
    BY RemoveAtIs
  <2>3. \A j \in 1 .. l - 1 : less[j] = list[IF j < i THEN j ELSE j + 1]
    BY RemoveAtIs, Zenon
  <2> QED
    BY <2>1, <2>2, <2>3
<1>2. /\ base \in [1 .. l + 1 -> 0 .. top]
      /\ \A m, n \in 1 .. l + 1 : m < n => base[m] <= base[n]
      /\ \A m \in 1 .. l : BacksFrom(edge, list[m], base[m])
      /\ rep.made => BacksFrom(edge, rep, base[l + 1])
  BY DEF BackedFrom
<1> HIDE DEF l, less
<1>3. /\ \A j \in 1 .. l : Was(j, i) \in 1 .. l + 1
      /\ \A j \in 1 .. l - 1 : j \in 1 .. l /\ Was(j, i) \in 1 .. l
      /\ \A j, k \in 1 .. l : j < k => Was(j, i) < Was(k, i)
      /\ l \in 1 .. l /\ Was(l, i) = l + 1
  BY <1>1 DEF Was
<1>4. next \in [1 .. l -> 0 .. top] /\ \A j \in 1 .. l : next[j] = base[Was(j, i)]
  BY <1>2, <1>3
<1> HIDE DEF next
<1>5. \A j \in 1 .. l - 1 : less[j] = list[Was(j, i)]
  BY <1>1 DEF Was
<1>6. ASSUME NEW j \in 1 .. l, NEW k \in 1 .. l, j < k PROVE next[j] <= next[k]
  BY <1>2, <1>3, <1>4, <1>6
<1>7. \A j \in 1 .. l - 1 : BacksFrom(edge, less[j], next[j])
  BY <1>2, <1>3, <1>4, <1>5
<1>8. rep.made => BacksFrom(edge, rep, next[l])
  BY <1>2, <1>3, <1>4
<1>9. Len(less) + 1 = l
  BY <1>1
<1>10. BackedFrom(edge, top, less, rep, next)
  BY <1>1, <1>4, <1>6, <1>7, <1>8, <1>9 DEF BackedFrom
<1> QED
  BY <1>10 DEF less

\* A report names the first number that is missing, unless there is none: the grant
\* the MAC gives has room for one, as get_buffer_state asked for it.
LEMMA ReportNamesFirst ==
    ASSUME Types, ReceiveWindow, NEW spare \in Nat
    PROVE  LET rep == get_status_pdu(get_status_pdu_length + spare)
           IN  (rep.ack_sn = vr_r /\ rep.nacks = {}) \/ vr_r \in rep.nacks
<1> DEFINE room == get_status_pdu_length + spare
           missing == Missing(vr_ms)
           before(n) == {m \in Missing(vr_ms) : m < n}
           looked == {n \in 0 .. MOD - 1 : /\ n < MOD_BASE(vr_ms, vr_r)
                                           /\ Cardinality(before(n)) < RLC_AM_WINDOW_SIZE
                                           /\ packed_length(Cardinality(before(n))) <= room - 2}
           ack == IF looked = {} THEN vr_ms ELSE Shift(vr_r, Max(looked))
           nacks == {Shift(vr_r, n) : n \in looked \intersect Missing(vr_ms)}
           rep == get_status_pdu(room)
<1>1. rep.ack_sn = ack /\ rep.nacks = nacks
  BY Zenon DEF get_status_pdu
<1>2. /\ vr_r \in SN /\ vr_ms \in SN /\ MOD \in Nat /\ MOD > 0 /\ 0 \in 0 .. MOD - 1
      /\ RLC_AM_WINDOW_SIZE \in Nat /\ RLC_AM_WINDOW_SIZE > 1
  BY Sizes DEF Types, RxTypes
<1>3. vr_r \notin DOMAIN rx_window
  <2>1. At(vr_r) \in Nat
    BY <1>2, AtType
  <2>2. vr_r \in DOMAIN rx_window => At(vr_r) < At(vr_r)
    BY DEF ReceiveWindow
  <2> QED
    BY <2>1, <2>2
<1>4. Shift(vr_r, 0) = vr_r
  <2>1. Shift(vr_r, MOD_BASE(vr_r, vr_r)) = vr_r
    BY <1>2, ShiftBase
  <2> QED
    BY <1>2, <2>1, BaseSelf
<1>5. CASE vr_ms = vr_r
  <2>1. MOD_BASE(vr_ms, vr_r) = 0
    BY <1>2, <1>5, BaseSelf
  <2>2. looked = {}
    BY <2>1
  <2> HIDE DEF looked
  <2> QED
    BY <1>1, <1>5, <2>2
<1>6. CASE vr_ms # vr_r
  <2>1. 0 < MOD_BASE(vr_ms, vr_r)
    <3>1. MOD_BASE(vr_ms, vr_r) \in 0 .. MOD - 1
      BY <1>2, BaseType
    <3>2. MOD_BASE(vr_ms, vr_r) # 0
      BY <1>2, <1>6, BaseSelf, BaseSame
    <3> QED
      BY <1>2, <3>1, <3>2
  <2>2. 0 \in missing
    BY <1>2, <1>3, <1>4, <2>1 DEF Missing
  <2>3. before(0) = {} /\ Cardinality(before(0)) = 0
    <3>1. missing \subseteq 0 .. MOD - 1
      BY DEF Missing
    <3>2. before(0) = {}
      BY <1>2, <3>1
    <3> QED
      BY <3>2, FS_EmptySet
  <2>4. packed_length(0) = 2
    BY DEF packed_length
  <2>5. get_status_pdu_length \in Nat /\ get_status_pdu_length >= 4
    <3> DEFINE c == Cardinality(missing)
               T == {c, RLC_AM_WINDOW_SIZE}
    <3>1. c \in Nat /\ c >= 1
      <4>1. IsFiniteSet(0 .. MOD - 1) /\ missing \subseteq 0 .. MOD - 1
        BY <1>2, FS_Interval DEF Missing
      <4>2. IsFiniteSet(missing)
        BY <4>1, FS_Subset
      <4> HIDE DEF missing
      <4>3. c \in Nat /\ c # 0
        BY <2>2, <4>2, FS_CardinalityType, FS_EmptySet
      <4> HIDE DEF c
      <4> QED
        BY <4>3
    <3>2. get_status_pdu_length = packed_length(Min(T))
      BY Zenon DEF get_status_pdu_length
    <3> HIDE DEF c
    <3>3. T \subseteq Nat /\ T # {} /\ \A x \in T : x >= 1
      BY <1>2, <3>1
    <3> HIDE DEF T
    <3>4. \E x \in T : \A y \in T : x =< y
      BY <3>3, LeastOf
    <3>5. Min(T) \in T
      BY <3>4 DEF Min
    <3> DEFINE m == Min(T)
    <3> HIDE DEF m
    <3>6. m \in Nat /\ m >= 1
      BY <3>3, <3>5 DEF m
    <3>7. (22 + 12 * m) \div 8 \in Nat /\ (22 + 12 * m) \div 8 >= 4
      BY <3>6
    <3> QED
      BY <3>2, <3>7 DEF packed_length, m
  <2>6. 0 \in looked
    <3> DEFINE g == get_status_pdu_length
    <3>1. g \in Nat /\ g >= 4
      BY <2>5
    <3> HIDE DEF g
    <3>2. 2 <= g + spare - 2
      BY <3>1
    <3>3. \A c : c = 0 => c < RLC_AM_WINDOW_SIZE /\ packed_length(c) <= room - 2
      <4>1. packed_length(0) <= g + spare - 2
        BY <2>4, <3>2
      <4>2. packed_length(0) <= room - 2
        BY <3>1, <4>1 DEF g
      <4> QED
        BY <1>2, <4>2
    <3> HIDE DEF room
    <3>4. Cardinality(before(0)) = 0
      BY <2>3
    <3> QED
      BY <1>2, <2>1, <3>3, <3>4, Zenon
  <2> HIDE DEF looked, missing
  <2>7. vr_r \in nacks
    <3>1. 0 \in looked \intersect Missing(vr_ms)
      BY <2>2, <2>6 DEF missing
    <3> QED
      BY <1>4, <3>1
  <2> QED
    BY <1>1, <2>7
<1> QED
  BY <1>5, <1>6

LEMMA PeerReportsWindow ==
    ASSUME Types, WindowInv, Spare \subseteq Nat, PeerReports PROVE WindowInv'
<1>1. PICK base : BackedFrom(vt_a, At(vr_r), reports, report, base)
  BY DEF WindowInv, Reported, BackedBy
<1>2. vr_r \in SN /\ vt_a \in SN /\ At(vr_r) \in Nat /\ reports \in Seq(Reports)
  BY Edges DEF WindowInv, Types, TxTypes, LinkTypes, Reports
<1>3. ASSUME NEW spare \in Spare, MakeReport(get_status_pdu_length + spare), UNCHANGED <<tx, link>>
      PROVE  WindowInv'
  <2>1. /\ report' = get_status_pdu(get_status_pdu_length + spare)
        /\ UNCHANGED <<vr_r, vr_x, vr_h, rx_window, reordering_timer, vt_a, vt_s, tx_window,
                       retx_queue, air, reports>>
    BY <1>3 DEF MakeReport, reception, tx, link
  <2>2. spare \in Nat
    BY <1>3
  <2>3. (report'.ack_sn = vr_r /\ report'.nacks = {}) \/ vr_r \in report'.nacks
    BY <2>1, <2>2, ReportNamesFirst DEF WindowInv
  <2>4. Shift(vt_a, At(vr_r)) = vr_r
    BY <1>2, ShiftAt
  <2>5. BacksFrom(vt_a, report', At(vr_r))
    BY <2>3, <2>4 DEF BacksFrom
  <2>6. \E next : BackedFrom(vt_a, At(vr_r), reports, report', next)
    BY <1>1, <1>2, <2>5, BackedMade
  <2>7. Reported'
    BY <2>1, <2>6 DEF Reported, BackedBy, At
  <2>8. SendWindow' /\ ReceiveWindow' /\ UnderWay'
    BY <2>1 DEF WindowInv, SendWindow, ReceiveWindow, UnderWay, At, W
  <2> QED
    BY <2>7, <2>8 DEF WindowInv
<1>4. ASSUME SendReport, UNCHANGED <<tx, air>> PROVE WindowInv'
  <2> DEFINE r == [ack_sn |-> report.ack_sn, nacks |-> report.nacks, late |-> FALSE]
  <2>1. /\ report.made /\ report' = NoReport /\ reports' = Append(reports, r)
        /\ UNCHANGED <<vr_r, vr_x, vr_h, rx_window, reordering_timer, vt_a, vt_s, tx_window,
                       retx_queue, air>>
    BY <1>4 DEF SendReport, tx
  <2>2. r \in Reports /\ r.ack_sn = report.ack_sn /\ r.nacks = report.nacks
    BY DEF Types, RxTypes, Reports
  <2> HIDE DEF r
  <2>3. ~report'.made
    BY <2>1 DEF NoReport
  <2>4. \E next : BackedFrom(vt_a, At(vr_r), Append(reports, r), report', next)
    BY <1>1, <1>2, <2>1, <2>2, <2>3, BackedSent
  <2>5. Reported'
    BY <2>1, <2>4 DEF Reported, BackedBy, At
  <2>6. SendWindow' /\ ReceiveWindow' /\ UnderWay'
    BY <2>1 DEF WindowInv, SendWindow, ReceiveWindow, UnderWay, At, W
  <2> QED
    BY <2>5, <2>6 DEF WindowInv
<1> QED
  BY <1>3, <1>4, Zenon DEF PeerReports

LEMMA PollExpiryWindow == ASSUME Types, WindowInv, PollExpiry PROVE WindowInv'
<1>1. /\ PollTimerExpired /\ UNCHANGED <<rx, link, vt_a, vt_s, tx_window>>
  BY DEF PollExpiry, PollTimerExpired
<1>2. Waited
  <2>1. CASE retx_queue' = retx_queue
    BY <2>1 DEF Waited
  <2>2. CASE retx_queue' \in RandomPdu(retx_queue)
    <3>1. retx_queue \in Seq(Retx) /\ Fits(retx_queue, tx_window) /\ TxTypes
      BY DEF Types, TxTypes
    <3>2. \A i \in DOMAIN retx_queue' :
            \/ retx_queue'[i].sn \in DOMAIN tx_window
            \/ (i \in DOMAIN retx_queue /\ retx_queue'[i] = retx_queue[i])
      BY <2>2, <3>1, RandomPduIs
    <3> QED
      BY <3>2 DEF Waited
  <2> QED
    BY <1>1, <2>1, <2>2 DEF PollTimerExpired
<1>3. SendWindow'
  BY <1>1, <1>2, SameSendWindow DEF WindowInv
<1> QED
  BY <1>1, <1>3 DEF WindowInv, ReceiveWindow, UnderWay, Reported, BackedBy, At, W, rx, reception,
                    status_vars, link

LEMMA PeerExpiryWindow == ASSUME Types, WindowInv, PeerExpiry PROVE WindowInv'
<1> DEFINE ms == Shift(vr_x, RunLength(rx_window, vr_x))
           starts == MOD_BASE(vr_h, vr_r) > MOD_BASE(ms, vr_r)
<1>1. /\ reordering_timer' = (reordering_timer \/ starts)
      /\ vr_x' = IF starts THEN vr_h ELSE vr_x
      /\ UNCHANGED <<vr_r, vr_h, rx_window, report, reports, air, vt_a, vt_s, tx_window, retx_queue>>
  BY DEF PeerExpiry, ReorderingExpired, tx, link, status_vars
<1>2. ms \in SN
  <2>1. vr_x \in SN
    BY DEF Types, RxTypes
  <2>2. RunLength(rx_window, vr_x) \in 0 .. MOD /\ MOD \in Nat
    BY <2>1, RunLengthIs, Sizes
  <2> QED
    BY <2>1, <2>2, ShiftNat
<1>3. /\ vr_r \in SN /\ vr_h \in SN /\ At(vr_r) \in Nat /\ At(vr_h) \in Nat /\ At(vr_x) \in Nat
      /\ At(vr_r) <= At(vr_h)
  BY Edges DEF WindowInv
<1>4. ASSUME starts PROVE At(vr_r) < At(vr_h)
  <2>1. MOD_BASE(ms, vr_r) \in Nat
    BY <1>2, <1>3, BaseType
  <2>2. MOD_BASE(vr_h, vr_r) = At(vr_h) - At(vr_r)
    BY <1>3, AtVia
  <2> HIDE DEF ms
  <2> QED
    BY <1>3, <1>4, <2>1, <2>2
<1> HIDE DEF starts
<1>5. ASSUME reordering_timer' PROVE At(vr_r) < At(vr_x') /\ At(vr_x') <= At(vr_h)
  <2>1. CASE starts
    BY <1>1, <1>3, <1>4, <2>1
  <2>2. CASE ~starts
    BY <1>1, <1>5, <2>2 DEF WindowInv, ReceiveWindow
  <2> QED
    BY <2>1, <2>2
<1>6. At(vr_r)' = At(vr_r) /\ At(vr_h)' = At(vr_h) /\ At(vr_x)' = At(vr_x') /\ At(vt_s)' = At(vt_s)
  BY <1>1 DEF At
<1>7. (reordering_timer => (At(vr_r) < At(vr_x) /\ At(vr_x) <= At(vr_h)))'
  BY <1>5, <1>6
<1>8. (At(vr_r) <= At(vr_h) /\ At(vr_h) <= At(vt_s))'
  BY <1>6 DEF WindowInv, ReceiveWindow
<1>9. (\A sn \in DOMAIN rx_window : At(vr_r) < At(sn) /\ At(sn) < At(vr_h))'
  BY <1>1 DEF WindowInv, ReceiveWindow, At
<1>10. SendWindow' /\ UnderWay' /\ Reported'
  BY <1>1 DEF WindowInv, SendWindow, UnderWay, Reported, BackedBy, At, W
<1> QED
  BY <1>7, <1>8, <1>9, <1>10 DEF WindowInv, ReceiveWindow

LEMMA LosePduWindow == ASSUME Types, WindowInv, NEW i \in 1 .. MaxAir, LosePdu(i) PROVE WindowInv'
<1>1. /\ i \in DOMAIN air /\ air' = RemoveAt(air, i)
      /\ UNCHANGED <<rx, reports, vt_a, vt_s, tx_window, retx_queue>>
  BY DEF LosePdu, tx
<1>2. air \in Seq(Pdus)
  BY DEF Types, LinkTypes
<1>3. UnderWay'
  <2>1. /\ DOMAIN air' = 1 .. Len(air) - 1
        /\ \A j \in 1 .. Len(air) - 1 : air'[j] = air[IF j < i THEN j ELSE j + 1]
    BY <1>1, <1>2, RemoveAtIs, Zenon
  <2>2. \A j \in 1 .. Len(air) - 1 : (IF j < i THEN j ELSE j + 1) \in DOMAIN air
    BY <1>1, <1>2
  <2>3. ASSUME NEW j \in DOMAIN air' PROVE MOD_BASE(vt_s, air'[j].sn) \in 1 .. W
    BY <2>1, <2>2, <2>3, Zenon DEF WindowInv, UnderWay
  <2> QED
    BY <1>1, <2>3 DEF UnderWay, W
<1> QED
  BY <1>1, <1>3 DEF WindowInv, SendWindow, ReceiveWindow, Reported, BackedBy, At, W, rx, reception,
                    status_vars

LEMMA LoseReportWindow == ASSUME Types, WindowInv, NEW i \in 1 .. MaxAir, LoseReport(i) PROVE WindowInv'
<1>1. /\ i \in DOMAIN reports /\ reports' = RemoveAt(reports, i)
      /\ UNCHANGED <<rx, air, vt_a, vt_s, tx_window, retx_queue>>
  BY DEF LoseReport, tx
<1>2. PICK base : BackedFrom(vt_a, At(vr_r), reports, report, base)
  BY DEF WindowInv, Reported, BackedBy
<1>3. At(vr_r) \in Nat /\ reports \in Seq(Reports)
  BY Edges DEF WindowInv, Types, LinkTypes, Reports
<1>4. \E next : BackedFrom(vt_a, At(vr_r), RemoveAt(reports, i), report, next)
  BY <1>1, <1>2, <1>3, BackedLost
<1>5. Reported'
  BY <1>1, <1>4 DEF Reported, BackedBy, At, rx, reception, status_vars
<1> QED
  BY <1>1, <1>5 DEF WindowInv, SendWindow, ReceiveWindow, UnderWay, At, W, rx, reception

LEMMA WindowStep ==
    ASSUME Types, WindowInv, Spare \subseteq Nat, ReportsOvertake = FALSE, [Next]_vars, Types'
    PROVE  WindowInv'
<1>1. CASE PdcpWrites
  BY <1>1 DEF PdcpWrites, WriteSdu, WindowInv, SendWindow, ReceiveWindow, UnderWay, Reported, BackedBy,
              At, W, rx, reception, status_vars, link
<1>2. CASE \E grant \in Grants : Grant(grant)
  BY <1>2, GrantWindow
<1>3. CASE \E i \in {1, 2} : PduArrives(i)
  BY <1>3, PduArrivesWindow
<1>4. CASE \E i \in IF ReportsOvertake THEN {1, 2} ELSE {1} : ReportArrives(i)
  BY <1>4, ReportArrivesWindow
<1>5. CASE PeerReports
  BY <1>5, PeerReportsWindow
<1>6. CASE PollStep
  BY <1>6 DEF PollStep, PollTimerStep, WindowInv, SendWindow, ReceiveWindow, UnderWay, Reported, BackedBy,
              At, W, rx, reception, status_vars, link
<1>7. CASE PollExpiry
  BY <1>7, PollExpiryWindow
<1>8. CASE PeerStep
  BY <1>8 DEF PeerStep, ReorderingStep, WindowInv, SendWindow, ReceiveWindow, UnderWay, Reported, BackedBy,
              At, W, tx, status_vars, link
<1>9. CASE PeerExpiry
  BY <1>9, PeerExpiryWindow
<1>10. CASE PeerProhibit
  BY <1>10 DEF PeerProhibit, ProhibitExpired, WindowInv, SendWindow, ReceiveWindow, UnderWay, Reported,
               BackedBy, At, W, tx, reception, link
<1>11. CASE \E i \in 1 .. MaxAir : LosePdu(i) \/ LoseReport(i)
  BY <1>11, LosePduWindow, LoseReportWindow
<1>12. CASE UNCHANGED vars
  BY <1>12 DEF vars, WindowInv, SendWindow, ReceiveWindow, UnderWay, Reported, BackedBy,
               At, W, tx, rx, reception, status_vars, link
<1> QED
  BY <1>1, <1>2, <1>3, <1>4, <1>5, <1>6, <1>7, <1>8, <1>9, <1>10, <1>11, <1>12 DEF Next

LEMMA WindowInit == ASSUME AmInit PROVE WindowInv
<1>1. /\ vt_a = 0 /\ vt_s = 0 /\ tx_window = <<>> /\ retx_queue = <<>> /\ vr_r = 0 /\ vr_x = 0 /\ vr_h = 0
      /\ rx_window = <<>> /\ reordering_timer = FALSE /\ report = NoReport /\ air = <<>> /\ reports = <<>>
  BY DEF AmInit, TxInit, RxInit
<1>2. 0 \in SN /\ W \in Nat /\ W > 1 /\ MOD \in Nat /\ MOD > 0
  BY Sizes DEF SN, W
<1>3. At(0) = 0
  BY <1>1, <1>2, BaseSelf DEF At
<1>4. \A sn \in SN : At(sn) \in Nat
  BY <1>1, <1>2, BaseType DEF At
<1>5. SendWindow
  BY <1>1, <1>2, <1>3, <1>4 DEF SendWindow
<1>6. ReceiveWindow
  BY <1>1, <1>3 DEF ReceiveWindow
<1>7. UnderWay
  BY <1>1 DEF UnderWay
<1>8. Reported
  <2> DEFINE base == [i \in 1 .. 1 |-> 0]
  <2>1. base \in [1 .. 1 -> 0 .. 0] /\ Len(reports) + 1 = 1 /\ ~report.made
    BY <1>1 DEF NoReport
  <2>2. BackedFrom(vt_a, At(vr_r), reports, report, base)
    BY <1>1, <1>3, <2>1 DEF BackedFrom
  <2> QED
    BY <2>2 DEF Reported, BackedBy
<1> QED
  BY <1>5, <1>6, <1>7, <1>8 DEF WindowInv

\* The windows of both sides slide along each other (vt_a, vt_s of rlc_am_tx; vr_r, vr_h,
\* vr_x of rlc_am_rx): whatever is lost, delayed or sent again, what the receiving
\* side waits for is still in the sending side's window, its highest number is one
\* that was sent, and the number its reordering timer waits for lies between.  The
\* grant of a report has the room get_buffer_state asked for, and reports do not
\* overtake each other: one cut short, or one overtaken, acknowledges what the peer
\* does not have.
THEOREM WindowsSlide ==
    ASSUME Spare \subseteq Nat, ReportsOvertake = FALSE PROVE SafetySpec => []WindowsAgree
<1>1. AmInit => Types /\ WindowInv
  BY TypesInit, WindowInit
<1>2. Types /\ WindowInv /\ [Next]_vars => (Types /\ WindowInv)'
  BY TypesStep, WindowStep
<1>3. Types /\ WindowInv => WindowsAgree
  BY WindowsAgreeOf
<1> QED
  BY <1>1, <1>2, <1>3, PTL DEF SafetySpec

-----------------------------------------------------------------------------
(* The stream of SDUs, cut at numbers of units                             *)

\* How many SDUs end within the first c units of the stream, and where the last does.
LEMMA WholeSdus ==
    ASSUME NEW c \in Nat
    PROVE  /\ SduUnits \in Nat /\ SduUnits > 0
           /\ c \div SduUnits \in Nat /\ (c \div SduUnits) * SduUnits \in Nat
           /\ (c \div SduUnits) * SduUnits <= c /\ c < (c \div SduUnits) * SduUnits + SduUnits
           /\ \A k \in Nat : k * SduUnits \in Nat /\ (k + 1) * SduUnits = k * SduUnits + SduUnits
<1>1. SduUnits \in Nat /\ SduUnits > 0
  BY Products
<1> DEFINE d == c \div SduUnits
           r == c % SduUnits
<1>2. d \in Int /\ r \in 0 .. SduUnits - 1 /\ c = d * SduUnits + r
  BY <1>1, ModDef
<1> HIDE DEF d, r
<1>3. d * SduUnits \in Int
  BY <1>1, <1>2
<1>4. ~ (d + 1 <= 0)
  <2>1. d + 1 <= 0 => (d + 1) * SduUnits <= 0 * SduUnits
    BY <1>1, <1>2, TimesOrder
  <2>2. (d + 1) * SduUnits = d * SduUnits + SduUnits /\ 0 * SduUnits = 0
    BY <1>1, <1>2
  <2> QED
    BY <1>1, <1>2, <1>3, <2>1, <2>2
<1>5. d \in Nat /\ d * SduUnits \in Nat
  BY <1>1, <1>2, <1>4
<1>6. \A k \in Nat : k * SduUnits \in Nat /\ (k + 1) * SduUnits = k * SduUnits + SduUnits
  BY <1>1
<1>7. d * SduUnits <= c /\ c < d * SduUnits + SduUnits
  BY <1>1, <1>2, <1>3
<1> QED
  BY <1>1, <1>5, <1>6, <1>7 DEF d

LEMMA UnitsOver ==
    ASSUME NEW a \in Nat, NEW b \in Nat, a <= b, NEW V, \A x \in a .. b - 1 : x \in V
    PROVE  /\ Units(a, b) \in Seq(V) /\ Len(Units(a, b)) = b - a
           /\ \A i \in 1 .. b - a : Units(a, b)[i] = a + i - 1
<1> DEFINE X == a .. b - 1
<1>1. Units(a, b) \in Seq(X) /\ \A x \in X : x \in V
  BY UnitsIs
<1> HIDE DEF X
<1>2. Units(a, b) \in Seq(V)
  BY <1>1
<1> QED
  BY <1>2, UnitsIs

LEMMA UnitsJoin ==
    ASSUME NEW a \in Nat, NEW b \in Nat, NEW c \in Nat, a <= b, b <= c
    PROVE  Units(a, b) \o Units(b, c) = Units(a, c)
<1> DEFINE u == Units(a, b)
           v == Units(b, c)
           w == Units(a, c)
           V == 0 .. c
<1>1. /\ u \in Seq(V) /\ v \in Seq(V) /\ w \in Seq(V)
      /\ Len(u) = b - a /\ Len(v) = c - b /\ Len(w) = c - a
      /\ \A i \in 1 .. b - a : u[i] = a + i - 1
      /\ \A i \in 1 .. c - b : v[i] = b + i - 1
      /\ \A i \in 1 .. c - a : w[i] = a + i - 1
  <2>1. /\ a <= c /\ \A x \in a .. b - 1 : x \in V
        /\ \A x \in b .. c - 1 : x \in V
        /\ \A x \in a .. c - 1 : x \in V
    OBVIOUS
  <2> HIDE DEF V
  <2>2. u \in Seq(V) /\ Len(u) = b - a /\ \A i \in 1 .. b - a : u[i] = a + i - 1
    BY <2>1, UnitsOver
  <2>3. v \in Seq(V) /\ Len(v) = c - b /\ \A i \in 1 .. c - b : v[i] = b + i - 1
    BY <2>1, UnitsOver
  <2>4. w \in Seq(V) /\ Len(w) = c - a /\ \A i \in 1 .. c - a : w[i] = a + i - 1
    BY <2>1, UnitsOver
  <2> QED
    BY <2>2, <2>3, <2>4
<1> HIDE DEF u, v, w, V
<1> DEFINE z == u \o v
<1>2. /\ z \in Seq(V) /\ Len(z) = c - a
      /\ \A i \in 1 .. c - a : z[i] = IF i <= b - a THEN u[i] ELSE v[i - (b - a)]
  <2>1. /\ z \in Seq(V) /\ Len(z) = Len(u) + Len(v)
        /\ \A i \in 1 .. Len(u) + Len(v) : z[i] = IF i <= Len(u) THEN u[i] ELSE v[i - Len(u)]
    BY <1>1, ConcatProperties
  <2>2. Len(u) + Len(v) = c - a
    BY <1>1
  <2> HIDE DEF z
  <2> QED
    BY <1>1, <2>1, <2>2
<1> HIDE DEF z
<1>3. ASSUME NEW i \in 1 .. c - a PROVE z[i] = w[i]
  <2>1. CASE i <= b - a
    <3>1. i \in 1 .. b - a
      BY <2>1
    <3> QED
      BY <1>1, <1>2, <2>1, <3>1
  <2>2. CASE ~ i <= b - a
    <3>1. i - (b - a) \in 1 .. c - b
      BY <2>2
    <3>2. z[i] = v[i - (b - a)] /\ v[i - (b - a)] = b + (i - (b - a)) - 1
      BY <1>1, <1>2, <2>2, <3>1
    <3> QED
      BY <1>1, <3>2
  <2> QED
    BY <2>1, <2>2
<1>4. z = w
  BY <1>1, <1>2, <1>3, SeqEqual
<1> QED
  BY <1>4 DEF u, v, w, z

\* What lies between the x-th and the y-th.
Slice(units, x, y) == SubSeq(units, x + 1, y)

LEMMA SliceUnits ==
    ASSUME NEW a \in Nat, NEW c \in Nat, NEW x \in Nat, NEW y \in Nat, x <= y, a + y <= c
    PROVE  Slice(Units(a, c), x, y) = Units(a + x, a + y)
<1> DEFINE u == Units(a, c)
           p == a + x
           q == a + y
           w == Units(p, q)
           z == SubSeq(u, x + 1, y)
           V == 0 .. c
<1>1. p \in Nat /\ q \in Nat /\ p <= q /\ q - p = y - x /\ a <= c
  OBVIOUS
<1>2. u \in Seq(V) /\ Len(u) = c - a /\ \A k \in 1 .. c - a : u[k] = a + k - 1
  <2>1. \A n \in a .. c - 1 : n \in V
    OBVIOUS
  <2> HIDE DEF V
  <2> QED
    BY <1>1, <2>1, UnitsOver
<1>3. w \in Seq(V) /\ Len(w) = q - p /\ \A k \in 1 .. q - p : w[k] = p + k - 1
  <2>1. \A n \in p .. q - 1 : n \in V
    OBVIOUS
  <2> HIDE DEF V, p, q
  <2> QED
    BY <1>1, <2>1, UnitsOver
<1> HIDE DEF V, u, w
<1>4. /\ z \in Seq(V) /\ Len(z) = y - x
      /\ \A k \in 1 .. y - x : z[k] = u[x + k]
  <2>1. x + 1 \in Int /\ y \in Int /\ \A k \in x + 1 .. y : u[k] \in V
    BY <1>2
  <2>2. z \in Seq(V) /\ Len(z) = (IF x + 1 <= y THEN y - (x + 1) + 1 ELSE 0)
        /\ \A k \in 1 .. y - (x + 1) + 1 : z[k] = u[x + 1 + k - 1]
    BY <2>1, SubSeqProperties
  <2> HIDE DEF z
  <2>3. \A k \in 1 .. y - x : x + 1 + k - 1 = x + k /\ k \in 1 .. y - (x + 1) + 1
    OBVIOUS
  <2> QED
    BY <2>2, <2>3
<1> HIDE DEF z
<1>5. ASSUME NEW k \in 1 .. y - x PROVE z[k] = w[k]
  <2>1. x + k \in 1 .. c - a
    OBVIOUS
  <2>2. u[x + k] = a + (x + k) - 1
    BY <1>2, <2>1
  <2>3. w[k] = p + k - 1
    BY <1>1, <1>3
  <2> QED
    BY <1>4, <2>2, <2>3
<1>6. z = w
  <2>1. Len(z) = Len(w)
    BY <1>1, <1>3, <1>4
  <2> HIDE DEF p, q
  <2> QED
    BY <1>3, <1>4, <1>5, <2>1, SeqEqual
<1> QED
  BY <1>6 DEF u, w, z, Slice

\* The first j multiples of the length of an SDU.
Multiples(j) == {l * SduUnits : l \in 1 .. j}

LEMMA MultiplesIs ==
    ASSUME NEW j \in Nat
    PROVE  /\ IsFiniteSet(Multiples(j)) /\ Cardinality(Multiples(j)) = j
           /\ Multiples(j) \subseteq Nat
<1> DEFINE S == {l \in 0 .. j : IsFiniteSet(Multiples(l)) /\ Cardinality(Multiples(l)) = l}
<1>1. SduUnits \in Nat /\ SduUnits > 0
  BY Products
<1>2. 0 \in S
  <2>1. Multiples(0) = {}
    BY DEF Multiples
  <2> QED
    BY <2>1, FS_EmptySet
<1>3. ASSUME NEW l \in 0 .. j - 1, l \in S PROVE l + 1 \in S
  <2> DEFINE x == (l + 1) * SduUnits
             F == Multiples(l)
             G == Multiples(l + 1)
  <2>1. G = F \union {x}
    <3>1. \A n \in 1 .. l + 1 : n \in 1 .. l \/ n = l + 1
      OBVIOUS
    <3>2. l + 1 \in 1 .. l + 1 /\ \A n \in 1 .. l : n \in 1 .. l + 1
      OBVIOUS
    <3> QED
      BY <3>1, <3>2, Zenon DEF Multiples
  <2>2. x \notin F
    <3> SUFFICES ASSUME NEW n \in 1 .. l, n * SduUnits = x PROVE FALSE
      BY DEF Multiples
    <3>1. n < l + 1 /\ n \in Int /\ l + 1 \in Int
      OBVIOUS
    <3> DEFINE y == l + 1
    <3>2. n * SduUnits < y * SduUnits
      <4> HIDE DEF y
      <4> QED
        BY <1>1, <3>1, TimesOrder DEF y
    <3> QED
      BY <1>1, <3>2
  <2> HIDE DEF x, F, G
  <2>3. IsFiniteSet(F) /\ Cardinality(F) = l
    BY <1>3 DEF F
  <2>4. IsFiniteSet(G) /\ Cardinality(G) = l + 1
    BY <2>1, <2>2, <2>3, FS_AddElement
  <2>5. l + 1 \in 0 .. j
    OBVIOUS
  <2> QED
    BY <2>4, <2>5 DEF G
<1> HIDE DEF S
<1>4. \A l \in 0 .. j : l \in S
  BY <1>2, <1>3, UpTo
<1>5. j \in S
  BY <1>4
<1>6. Multiples(j) \subseteq Nat
  BY <1>1 DEF Multiples
<1> QED
  BY <1>5, <1>6 DEF S

\* Where SDUs end in a stretch of the stream that begins with an SDU.
LEMMA EndsOf ==
    ASSUME NEW k \in Nat, NEW m \in Nat, NEW c \in Nat, k * SduUnits + m * SduUnits <= c,
           c < k * SduUnits + m * SduUnits + SduUnits
    PROVE  /\ Cardinality(Ends(Units(k * SduUnits, c))) = m
           /\ \A j \in 1 .. m : EndOf(Units(k * SduUnits, c), j) = j * SduUnits
<1> DEFINE a == k * SduUnits
           u == Units(a, c)
           b == m * SduUnits
           E == Ends(u)
<1>1. /\ SduUnits \in Nat /\ SduUnits > 0 /\ a \in Nat /\ b \in Nat /\ a + b <= c /\ c < a + b + SduUnits
      /\ a <= c
  BY Products
<1>2. Len(u) = c - a /\ DOMAIN u = 1 .. c - a /\ \A i \in 1 .. c - a : u[i] = a + i - 1
  <2> HIDE DEF a
  <2>1. Units(a, c) \in Seq(a .. c - 1) /\ Len(u) = c - a /\ \A i \in 1 .. c - a : u[i] = a + i - 1
    BY <1>1, UnitsIs
  <2>2. DOMAIN u = 1 .. c - a
    BY DEF Units
  <2> QED
    BY <2>1, <2>2
<1>3. ASSUME NEW j \in 1 .. m PROVE j * SduUnits \in 1 .. c - a /\ (a + j * SduUnits) % SduUnits = 0
  <2>1. j * SduUnits > 0 /\ j * SduUnits <= b
    <3>1. 0 < j <=> 0 * SduUnits < j * SduUnits
      BY <1>1, TimesOrder
    <3>2. j <= m <=> j * SduUnits <= m * SduUnits
      BY <1>1, TimesOrder
    <3> QED
      BY <1>1, <3>1, <3>2
  <2>2. a + j * SduUnits = (k + j) * SduUnits + 0
    BY <1>1
  <2>3. j * SduUnits \in Nat
    BY <1>1
  <2> HIDE DEF a, b
  <2>4. (a + j * SduUnits) % SduUnits = 0
    <3>1. 0 \in 0 .. SduUnits - 1 /\ k + j \in Int /\ a + j * SduUnits \in Int
      BY <1>1, <2>3
    <3> QED
      BY <1>1, <2>2, <3>1, ModUnique
  <2> QED
    BY <1>1, <2>1, <2>3, <2>4
<1>4. ASSUME NEW i \in 1 .. c - a, (a + i) % SduUnits = 0 PROVE \E j \in 1 .. m : i = j * SduUnits
  <2> DEFINE q == (a + i) \div SduUnits
             j == q - k
  <2>1. q \in Int /\ a + i = q * SduUnits
    <3> HIDE DEF a
    <3>1. a + i \in Int
      BY <1>1
    <3> QED
      BY <1>1, <1>4, <3>1, ModDef
  <2> HIDE DEF q
  <2>2. j \in Int /\ i = j * SduUnits
    BY <1>1, <2>1
  <2> HIDE DEF j
  <2>3. 0 < j
    <3>1. 0 < j <=> 0 * SduUnits < j * SduUnits
      BY <1>1, <2>2, TimesOrder
    <3> QED
      BY <1>1, <2>2, <3>1
  <2>4. j < m + 1
    <3> DEFINE n == m + 1
    <3>1. n \in Int /\ n * SduUnits = b + SduUnits
      BY <1>1
    <3> HIDE DEF n, a, b
    <3>2. j < n <=> j * SduUnits < n * SduUnits
      BY <1>1, <2>2, <3>1, TimesOrder
    <3>3. i < n * SduUnits
      BY <1>1, <3>1
    <3> QED
      BY <2>2, <3>2, <3>3 DEF n
  <2> QED
    BY <2>2, <2>3, <2>4
<1>5. E = Multiples(m)
  <2>1. ASSUME NEW i \in 1 .. c - a PROVE EndsSdu(u[i]) <=> (a + i) % SduUnits = 0
    <3>1. u[i] + 1 = a + i
      BY <1>1, <1>2
    <3> QED
      BY <3>1, Zenon DEF EndsSdu
  <2> HIDE DEF a, u
  <2>2. E = {i \in 1 .. c - a : (a + i) % SduUnits = 0}
    BY <1>2, <2>1 DEF Ends
  <2> HIDE DEF E
  <2>3. ASSUME NEW x \in E PROVE x \in Multiples(m)
    BY <1>4, <2>2 DEF Multiples
  <2>4. ASSUME NEW x \in Multiples(m) PROVE x \in E
    BY <1>3, <2>2 DEF Multiples
  <2> QED
    BY <2>3, <2>4
<1>6. IsFiniteSet(E) /\ Cardinality(E) = m /\ E \subseteq Nat
  BY <1>5, MultiplesIs
<1>7. ASSUME NEW j \in 1 .. m PROVE EndOf(u, j) = j * SduUnits
  <2> DEFINE x == j * SduUnits
  <2>1. x \in E
    BY <1>5 DEF Multiples
  <2>2. Before(E, x) = Multiples(j - 1)
    <3>1. ASSUME NEW l \in 1 .. m PROVE l * SduUnits < x <=> l \in 1 .. j - 1
      <4>1. l < j <=> l * SduUnits < j * SduUnits
        BY <1>1, TimesOrder
      <4> QED
        BY <4>1
    <3>2. \A l \in 1 .. j - 1 : l \in 1 .. m
      OBVIOUS
    <3> HIDE DEF x, E
    <3> QED
      BY <1>5, <3>1, <3>2, Zenon DEF Before, Multiples
  <2>3. j - 1 \in Nat /\ j \in 1 .. Cardinality(E)
    BY <1>6
  <2>4. Cardinality(Before(E, x)) = j - 1
    BY <2>2, <2>3, MultiplesIs
  <2> HIDE DEF x, E
  <2>5. (CHOOSE y \in E : Cardinality({z \in E : z < y}) = j - 1) = x
    BY <1>6, <2>1, <2>3, <2>4, NthOf
  <2> QED
    BY <2>5, Zenon DEF EndOf, x, E
<1> QED
  BY <1>6, <1>7

\* PDCP has every SDU that ends within the first c units, the rest of them wait.
Got(sdus, rest, c) ==
    /\ sdus = [k \in 1 .. c \div SduUnits |-> Sdu(k - 1)]
    /\ rest = Units((c \div SduUnits) * SduUnits, c)

LEMMA CutStream ==
    ASSUME NEW k \in Nat, NEW m \in Nat, NEW c \in Nat, k * SduUnits + m * SduUnits <= c,
           c < k * SduUnits + m * SduUnits + SduUnits
    PROVE  /\ Pieces(Units(k * SduUnits, c)) = [j \in 1 .. m |-> Sdu(k + j - 1)]
           /\ Rest(Units(k * SduUnits, c)) = Units((k + m) * SduUnits, c)
<1> DEFINE a == k * SduUnits
           b == m * SduUnits
           u == Units(a, c)
<1>1. /\ SduUnits \in Nat /\ SduUnits > 0 /\ a \in Nat /\ b \in Nat /\ a + b <= c /\ c < a + b + SduUnits
      /\ a <= c
  BY Products
<1>2. Cardinality(Ends(u)) = m /\ \A j \in 1 .. m : EndOf(u, j) = j * SduUnits
  BY EndsOf
<1>3. ASSUME NEW j \in 1 .. m + 1 PROVE StartOf(u, j) = (j - 1) * SduUnits + 1
  <2>1. CASE j = 1
    <3>1. (j - 1) * SduUnits = 0
      BY <1>1, <2>1
    <3> QED
      BY <2>1, <3>1 DEF StartOf
  <2>2. CASE j # 1
    <3>1. j - 1 \in 1 .. m
      BY <2>2
    <3>2. EndOf(u, j - 1) = (j - 1) * SduUnits
      BY <1>2, <3>1
    <3> QED
      BY <2>2, <3>2 DEF StartOf
  <2> QED
    BY <2>1, <2>2
<1>4. (k + m) * SduUnits = a + b
  BY <1>1
<1>5. Rest(u) = Units(a + b, c)
  <2>1. Len(u) = c - a
    <3> HIDE DEF a
    <3> QED
      BY <1>1, UnitsIs
  <2>2. StartOf(u, m + 1) = b + 1
    <3>1. m + 1 \in 1 .. m + 1 /\ m + 1 - 1 = m
      OBVIOUS
    <3> QED
      BY <1>3, <3>1
  <2>3. Rest(u) = SubSeq(u, b + 1, c - a)
    BY <1>2, <2>1, <2>2 DEF Rest
  <2>4. a \in Nat /\ b \in Nat /\ a + b <= c
    BY <1>1
  <2> DEFINE n == c - a
  <2>5. n \in Nat /\ b <= n /\ a + n = c /\ a + n <= c
    BY <1>1
  <2> HIDE DEF a, b, n
  <2>6. Slice(Units(a, c), b, n) = Units(a + b, a + n)
    BY <2>4, <2>5, SliceUnits
  <2> QED
    BY <2>3, <2>5, <2>6 DEF n, Slice
<1>6. ASSUME NEW j \in 1 .. m PROVE SubSeq(u, StartOf(u, j), EndOf(u, j)) = Sdu(k + j - 1)
  <2> DEFINE x == (j - 1) * SduUnits
             y == j * SduUnits
             i == x + 1
  <2>1. x \in Nat /\ y \in Nat /\ y = x + SduUnits
    <3>1. j - 1 \in Nat /\ j \in Nat /\ (j - 1) + 1 = j
      OBVIOUS
    <3> QED
      BY <1>1, <3>1
  <2>2. y <= b
    <3>1. j <= m <=> j * SduUnits <= m * SduUnits
      BY <1>1, TimesOrder
    <3> QED
      BY <3>1
  <2>3. a + x = (k + j - 1) * SduUnits /\ a + y = (k + j - 1 + 1) * SduUnits
    BY <1>1
  <2>4. StartOf(u, j) = i /\ EndOf(u, j) = y
    <3>1. j \in 1 .. m + 1
      OBVIOUS
    <3> QED
      BY <1>2, <1>3, <3>1
  <2>5. Sdu(k + j - 1) = Units(a + x, a + y)
    BY <2>3, Zenon DEF Sdu
  <2> HIDE DEF a, x, y, b
  <2>6. a \in Nat /\ x <= y /\ a + y <= c
    BY <1>1, <2>1, <2>2
  <2>7. Slice(Units(a, c), x, y) = Units(a + x, a + y)
    BY <2>1, <2>6, SliceUnits
  <2> QED
    BY <2>4, <2>5, <2>7 DEF i, Slice
<1>7. Pieces(u) = [j \in 1 .. m |-> Sdu(k + j - 1)]
  <2> HIDE DEF u
  <2> QED
    BY <1>2, <1>6, Zenon DEF Pieces
<1> QED
  BY <1>4, <1>5, <1>7

\* More of the stream has come: what PDCP gets is the next SDUs, in order.
LEMMA GotMore ==
    ASSUME NEW c \in Nat, NEW e \in Nat, c <= e, NEW sdus, NEW rest, Got(sdus, rest, c)
    PROVE  LET u == Units((c \div SduUnits) * SduUnits, e)
           IN  Got(sdus \o Pieces(u), Rest(u), e)
<1> DEFINE k == c \div SduUnits
           q == e \div SduUnits
           m == q - k
           u == Units(k * SduUnits, e)
           more == [j \in 1 .. m |-> Sdu(k + j - 1)]
<1>1. k <= q
  <2>1. c \in Int /\ e \in Int /\ SduUnits \in Nat /\ SduUnits > 0
    BY WholeSdus
  <2> QED
    BY <2>1, DivMono
<1>2. /\ k \in Nat /\ q \in Nat /\ SduUnits \in Nat /\ SduUnits > 0
      /\ q * SduUnits <= e /\ e < q * SduUnits + SduUnits
  BY WholeSdus
<1>3. sdus = [x \in 1 .. k |-> Sdu(x - 1)]
  BY DEF Got
<1>4. Got(sdus \o Pieces(u), Rest(u), e) <=>
        /\ sdus \o Pieces(u) = [x \in 1 .. q |-> Sdu(x - 1)]
        /\ Rest(u) = Units(q * SduUnits, e)
  BY Zenon DEF Got
<1> HIDE DEF k, q
<1>5. m \in Nat /\ k + m = q /\ k * SduUnits + m * SduUnits = q * SduUnits
  BY <1>1, <1>2
<1> HIDE DEF m
<1>6. Pieces(u) = more /\ Rest(u) = Units(q * SduUnits, e)
  <2>1. /\ k \in Nat /\ m \in Nat
        /\ k * SduUnits + m * SduUnits <= e /\ e < k * SduUnits + m * SduUnits + SduUnits
    BY <1>2, <1>5
  <2>2. Pieces(u) = more /\ Rest(u) = Units((k + m) * SduUnits, e)
    BY <2>1, CutStream, Zenon
  <2> QED
    BY <1>5, <2>2
<1>7. sdus \o more = [x \in 1 .. q |-> Sdu(x - 1)]
  <2> DEFINE V == {Sdu(x) : x \in Nat}
             all == [x \in 1 .. q |-> Sdu(x - 1)]
  <2>1. \A x \in Nat : Sdu(x) \in V
    OBVIOUS
  <2> HIDE DEF V
  <2>2. \A n \in Nat : \A x \in 1 .. n : x - 1 \in Nat /\ k + x - 1 \in Nat
    BY <1>2
  <2>3. sdus \in Seq(V) /\ Len(sdus) = k /\ \A x \in 1 .. k : sdus[x] = Sdu(x - 1)
    BY <1>2, <1>3, <2>1, <2>2
  <2>4. more \in Seq(V) /\ Len(more) = m /\ \A x \in 1 .. m : more[x] = Sdu(k + x - 1)
    BY <1>5, <2>1, <2>2
  <2>5. all \in Seq(V) /\ Len(all) = q /\ \A x \in 1 .. q : all[x] = Sdu(x - 1)
    BY <1>2, <2>1, <2>2
  <2> HIDE DEF more, all
  <2>6. /\ sdus \o more \in Seq(V) /\ Len(sdus \o more) = Len(sdus) + Len(more)
        /\ \A i \in 1 .. Len(sdus) + Len(more) : (sdus \o more)[i] =
               IF i <= Len(sdus) THEN sdus[i] ELSE more[i - Len(sdus)]
    BY <2>3, <2>4, ConcatProperties
  <2> DEFINE z == sdus \o more
  <2>7. z \in Seq(V) /\ Len(z) = q /\ \A i \in 1 .. q : z[i] = IF i <= k THEN sdus[i] ELSE more[i - k]
    BY <1>5, <2>3, <2>4, <2>6
  <2> HIDE DEF z
  <2>8. ASSUME NEW i \in 1 .. q PROVE z[i] = all[i]
    <3>1. CASE i <= k
      <4>1. i \in 1 .. k
        BY <1>2, <3>1
      <4> QED
        BY <2>3, <2>5, <2>7, <3>1, <4>1
    <3>2. CASE ~ i <= k
      <4>1. PICK x \in 1 .. m : x = i - k /\ k + x - 1 = i - 1
        BY <1>2, <1>5, <3>2
      <4>2. more[x] = Sdu(i - 1)
        BY <2>4, <4>1, Zenon
      <4>3. z[i] = more[x]
        BY <2>7, <3>2, <4>1
      <4> QED
        BY <2>5, <4>2, <4>3
    <3> QED
      BY <3>1, <3>2
  <2>9. z = all
    BY <2>5, <2>7, <2>8, SeqEqual
  <2> QED
    BY <2>9 DEF z, all
<1> QED
  BY <1>4, <1>6, <1>7 DEF k

-----------------------------------------------------------------------------
(* What the two sides and the PDUs between them hold of the stream         *)

\* A segment, of what was sent with its number.
PartOf(part, buf) ==
    /\ part.so + Len(part.buf) <= Len(buf)
    /\ \A i \in 1 .. Len(part.buf) : part.buf[i] = buf[part.so + i]
    /\ part.lsf <=> part.so + Len(part.buf) = Len(buf)

Carries(pdu, buf) == IF pdu.rf THEN PartOf(pdu, buf) ELSE pdu.buf = buf

\* Where in the stream the payload of sn begins, or is going to.
FromOf(win, edge, end, sn) == IF sn = edge THEN end ELSE win[sn][1]

\* Each payload ends where the next begins.
Linked(win, edge, end) ==
    \A sn \in DOMAIN win : LET from == FromOf(win, edge, end, sn)
                               to   == FromOf(win, edge, end, Shift(sn, 1))
                           IN  from \in Nat /\ to \in Nat /\ from < to /\ to <= end /\ win[sn] = Units(from, to)

From(sn) == FromOf(tx_window, vt_s, taken, sn)

\* What the receiving side has not delivered yet.
Wanted == {sn \in DOMAIN tx_window : At(vr_r) <= At(sn)}

OnAir(pdus, win) == \A i \in DOMAIN pdus : pdus[i].sn \in DOMAIN win => Carries(pdus[i], win[pdus[i].sn])

Arrived(got, win) == \A sn \in DOMAIN got : got[sn] = win[sn]

Pieced(segs, wanted, win) ==
    \A sn \in DOMAIN segs : IF sn \in wanted THEN PartOf(segs[sn], win[sn]) ELSE segs[sn] = NoSegments

ContentInv ==
    /\ Linked(tx_window, vt_s, taken)
    /\ Got(delivered, rx_sdu, From(vr_r))
    /\ OnAir(air, tx_window)
    /\ Arrived(rx_window, tx_window)
    /\ Pieced(rx_segments, Wanted, tx_window)

LEMMA SlicePart ==
    ASSUME NEW buf \in Payload, NEW x \in Nat, NEW y \in Nat, x <= y, y <= Len(buf), NEW part,
           part.so = x, part.buf = SubSeq(buf, x + 1, y), part.lsf <=> y = Len(buf)
    PROVE  PartOf(part, buf)
<1> DEFINE V == 0 .. MaxSdu * SduUnits - 1
           z == SubSeq(buf, x + 1, y)
<1>1. buf \in Seq(V) /\ Len(buf) \in Nat
  BY DEF Payload
<1> HIDE DEF V
<1>2. Len(z) = y - x /\ \A k \in 1 .. y - x : z[k] = buf[x + k]
  <2>1. x + 1 \in Int /\ y \in Int /\ \A k \in x + 1 .. y : buf[k] \in V
    BY <1>1
  <2>2. Len(z) = (IF x + 1 <= y THEN y - (x + 1) + 1 ELSE 0)
        /\ \A k \in 1 .. y - (x + 1) + 1 : z[k] = buf[x + 1 + k - 1]
    BY <2>1, SubSeqProperties
  <2> HIDE DEF z
  <2>3. \A k \in 1 .. y - x : x + 1 + k - 1 = x + k /\ k \in 1 .. y - (x + 1) + 1
    OBVIOUS
  <2> QED
    BY <2>2, <2>3
<1> HIDE DEF z
<1>3. part.buf = z
  BY DEF z
<1>4. part.so + Len(part.buf) = y
  BY <1>2, <1>3
<1> QED
  BY <1>1, <1>2, <1>3, <1>4 DEF PartOf

LEMMA NowPart ==
    ASSUME NEW had \in Segment, NEW pdu \in Pdus, NEW buf \in Payload, PartOf(had, buf), PartOf(pdu, buf)
    PROVE  PartOf(Now(had, pdu), buf)
<1>1. /\ had.so \in Nat /\ had.buf \in Payload /\ had.lsf \in BOOLEAN
      /\ pdu.so \in Nat /\ pdu.buf \in Payload /\ pdu.lsf \in BOOLEAN
  BY DEF Segment, Pdus
<1>2. CASE pdu.so = 0
  <2> DEFINE now == [so |-> 0, buf |-> pdu.buf, lsf |-> pdu.lsf]
  <2>1. now.so = pdu.so /\ now.buf = pdu.buf /\ now.lsf = pdu.lsf
    BY <1>2
  <2>2. Now(had, pdu) = now
    BY <1>2 DEF Now
  <2> HIDE DEF now
  <2> QED
    BY <2>1, <2>2 DEF PartOf
<1>3. CASE pdu.so # 0 /\ pdu.so # had.so + Len(had.buf)
  BY <1>3 DEF Now
<1>4. CASE pdu.so # 0 /\ pdu.so = had.so + Len(had.buf)
  <2> DEFINE both == had.buf \o pdu.buf
             now == [so |-> had.so, buf |-> both, lsf |-> pdu.lsf]
             V == 0 .. MaxSdu * SduUnits - 1
             l == Len(had.buf)
             m == Len(pdu.buf)
  <2>1. had.buf \in Seq(V) /\ pdu.buf \in Seq(V) /\ l \in Nat /\ m \in Nat /\ Len(buf) \in Nat
    BY <1>1 DEF Payload
  <2> HIDE DEF V
  <2>2. Len(both) = l + m /\ \A i \in 1 .. l + m : both[i] = IF i <= l THEN had.buf[i] ELSE pdu.buf[i - l]
    BY <2>1, ConcatProperties
  <2>3. now.so = had.so /\ now.buf = both /\ now.lsf = pdu.lsf
    OBVIOUS
  <2>4. Now(had, pdu) = now
    BY <1>4 DEF Now
  <2>5. /\ \A i \in 1 .. l : had.buf[i] = buf[had.so + i]
        /\ \A i \in 1 .. m : pdu.buf[i] = buf[pdu.so + i]
        /\ pdu.so + m <= Len(buf) /\ (pdu.lsf <=> pdu.so + m = Len(buf))
    BY DEF PartOf
  <2> HIDE DEF both, now
  <2>6. pdu.so = had.so + l
    BY <1>4
  <2> HIDE DEF l, m
  <2>7. ASSUME NEW i \in 1 .. l + m PROVE both[i] = buf[had.so + i]
    <3>1. CASE i <= l
      <4>1. i \in 1 .. l
        BY <2>1, <3>1
      <4> QED
        BY <2>2, <2>5, <3>1, <4>1
    <3>2. CASE ~ i <= l
      <4>1. i - l \in 1 .. m /\ pdu.so + (i - l) = had.so + i
        BY <1>1, <2>1, <2>6, <3>2
      <4>2. both[i] = pdu.buf[i - l] /\ pdu.buf[i - l] = buf[pdu.so + (i - l)]
        BY <2>2, <2>5, <3>2, <4>1
      <4> QED
        BY <4>1, <4>2
    <3> QED
      BY <3>1, <3>2
  <2>8. had.so + Len(both) = pdu.so + m
    BY <1>1, <2>1, <2>2, <2>6
  <2>9. PartOf(now, buf)
    BY <2>2, <2>3, <2>5, <2>7, <2>8 DEF PartOf
  <2> QED
    BY <2>4, <2>9
<1> QED
  BY <1>2, <1>3, <1>4

LEMMA WholePart ==
    ASSUME NEW part \in Segment, NEW buf \in Payload, PartOf(part, buf), part.so = 0, part.lsf
    PROVE  part.buf = buf
<1> DEFINE V == 0 .. MaxSdu * SduUnits - 1
<1>1. part.buf \in Seq(V) /\ buf \in Seq(V) /\ Len(part.buf) \in Nat /\ Len(buf) \in Nat
  BY DEF Payload, Segment
<1> HIDE DEF V
<1>2. Len(part.buf) = Len(buf) /\ \A i \in 1 .. Len(part.buf) : part.buf[i] = buf[i]
  <2>1. \A i \in 1 .. Len(part.buf) : 0 + i = i
    BY <1>1
  <2> QED
    BY <1>1, <2>1 DEF PartOf
<1> QED
  BY <1>1, <1>2, SeqEqual

\* Nothing is a part of whatever there is.
LEMMA NonePart == ASSUME NEW buf \in Payload, buf # <<>> PROVE PartOf(NoSegments, buf)
<1>1. Len(buf) \in Nat /\ Len(buf) # 0
  BY DEF Payload
<1>2. NoSegments.so = 0 /\ NoSegments.buf = <<>> /\ NoSegments.lsf = FALSE
  BY DEF NoSegments
<1>3. Len(<<>>) = 0
  OBVIOUS
<1> QED
  BY <1>1, <1>2, <1>3 DEF PartOf

\* Up to vt_s, a number is in the window or is vt_s, and so is the next.
LEMMA UpToEdge ==
    ASSUME Types, SendWindow, NEW sn \in SN, At(sn) <= At(vt_s)
    PROVE  sn \in DOMAIN tx_window \/ sn = vt_s
<1>1. At(sn) \in Nat /\ At(vt_s) \in Nat /\ vt_s \in SN
  BY AtType DEF Types, TxTypes
<1>2. At(sn) = At(vt_s) => sn = vt_s
  BY <1>1, AtSame
<1> QED
  BY <1>1, <1>2 DEF SendWindow

LEMMA NextInWindow ==
    ASSUME Types, SendWindow, NEW sn \in DOMAIN tx_window
    PROVE  /\ sn \in SN /\ sn # vt_s /\ Shift(sn, 1) \in SN
           /\ At(Shift(sn, 1)) = At(sn) + 1 /\ At(Shift(sn, 1)) <= At(vt_s)
           /\ Shift(sn, 1) \in DOMAIN tx_window \/ Shift(sn, 1) = vt_s
<1>1. sn \in SN /\ At(sn) < At(vt_s) /\ At(vt_s) <= W /\ vt_s \in SN
  BY DEF SendWindow, Types, TxTypes
<1>2. At(sn) \in Nat /\ At(vt_s) \in Nat /\ W \in Nat /\ MOD = 2 * W /\ W > 1 /\ 1 \in 0 .. MOD /\ 1 \in Nat
  BY <1>1, AtType, Sizes DEF W
<1>3. At(Shift(sn, 1)) = IF At(sn) + 1 < MOD THEN At(sn) + 1 ELSE At(sn) + 1 - MOD
  BY <1>1, <1>2, AtShift
<1>4. At(Shift(sn, 1)) = At(sn) + 1 /\ At(Shift(sn, 1)) <= At(vt_s)
  BY <1>1, <1>2, <1>3
<1>5. Shift(sn, 1) \in SN
  BY <1>1, <1>2, ShiftNat
<1>6. Shift(sn, 1) \in DOMAIN tx_window \/ Shift(sn, 1) = vt_s
  BY <1>4, <1>5, UpToEdge
<1>7. sn # vt_s
  BY <1>1, <1>2
<1> QED
  BY <1>1, <1>4, <1>5, <1>6, <1>7

LEMMA FromType ==
    ASSUME Types, SendWindow, Linked(tx_window, vt_s, taken), NEW sn \in SN, At(sn) <= At(vt_s)
    PROVE  From(sn) \in Nat /\ From(sn) <= taken /\ taken \in Nat
<1>1. taken \in Nat
  BY Products DEF Types, TxTypes
<1>2. CASE sn = vt_s
  BY <1>1, <1>2 DEF From, FromOf
<1>3. CASE sn \in DOMAIN tx_window
  <2> DEFINE from == From(sn)
             to == From(Shift(sn, 1))
  <2>1. from \in Nat /\ to \in Nat /\ from < to /\ to <= taken
    BY <1>3 DEF Linked, From
  <2> HIDE DEF from, to
  <2>2. from <= taken
    BY <1>1, <2>1
  <2> QED
    BY <1>1, <2>1, <2>2 DEF from
<1> QED
  BY <1>2, <1>3, UpToEdge

LEMMA SendOnAir ==
    ASSUME LinkTypes, NEW pdu \in Pdus, SendPdu(pdu), NEW win, OnAir(air, win),
           pdu.sn \in DOMAIN win => Carries(pdu, win[pdu.sn])
    PROVE  OnAir(air', win)
<1>1. air' = Append(air, pdu) /\ air \in Seq(Pdus)
  BY DEF SendPdu, LinkTypes
<1>2. /\ DOMAIN air' = 1 .. Len(air) + 1 /\ DOMAIN air = 1 .. Len(air) /\ Len(air) \in Nat
      /\ \A i \in 1 .. Len(air) : air'[i] = air[i]
      /\ air'[Len(air) + 1] = pdu
  BY <1>1
<1>3. ASSUME NEW i \in DOMAIN air', air'[i].sn \in DOMAIN win PROVE Carries(air'[i], win[air'[i].sn])
  <2>1. CASE i = Len(air) + 1
    <3>1. air'[i] = pdu
      BY <1>2, <2>1
    <3> QED
      BY <1>3, <3>1
  <2>2. CASE i # Len(air) + 1
    <3>1. i \in DOMAIN air /\ air'[i] = air[i]
      BY <1>2, <2>2
    <3> QED
      BY <1>3, <3>1 DEF OnAir
  <2> QED
    BY <2>1, <2>2
<1> QED
  BY <1>3 DEF OnAir

\* What is sent again changes nothing but what is under way.
LEMMA SentAgainContent ==
    ASSUME Types, ContentInv, NEW pdu \in Pdus, pdu.sn \in DOMAIN tx_window,
           Carries(pdu, tx_window[pdu.sn]), SendPdu(pdu), UNCHANGED <<taken, vt_a, vt_s, tx_window, rx>>
    PROVE  ContentInv'
<1>1. OnAir(air', tx_window)
  BY SendOnAir DEF Types, ContentInv
<1>2. UNCHANGED <<vr_r, rx_window, rx_segments, delivered, rx_sdu>>
  BY DEF rx, reception
<1>3. From(vr_r)' = From(vr_r) /\ Wanted' = Wanted
  BY <1>2 DEF From, Wanted, At
<1> QED
  BY <1>1, <1>2, <1>3 DEF ContentInv

LEMMA BuildRetxPduContent ==
    ASSUME Types, ContentInv, NEW grant,
           NEW queue \in Seq(Retx), queue # <<>>, Fits(queue, tx_window),
           queue[1].sn \in DOMAIN tx_window, BuildRetxPdu(queue, grant), UNCHANGED rx
    PROVE  ContentInv'
<1> DEFINE sn == Head(queue).sn
           p == poll_required(pdu_without_poll + 1, Queued, queue)
           pdu == [sn |-> sn, p |-> p, rf |-> FALSE, so |-> 0, lsf |-> FALSE,
                   buf |-> tx_window[sn], first |-> FALSE, late |-> FALSE]
<1>1. SendPdu(pdu) /\ UNCHANGED <<taken, vt_a, vt_s, tx_window>>
  BY DEF BuildRetxPdu
<1>2. p \in BOOLEAN
  BY DEF poll_required
<1> HIDE DEF p
<1>3. TxTypes
  BY DEF Types
<1>4. pdu \in Pdus
  BY <1>2, <1>3, HeadIs DEF Pdus
<1>5. pdu.sn \in DOMAIN tx_window
  BY <1>3, HeadIs
<1>6. Carries(pdu, tx_window[pdu.sn])
  BY DEF Carries
<1> HIDE DEF pdu
<1> QED
  BY <1>1, <1>4, <1>5, <1>6, SentAgainContent

LEMMA BuildSegmentContent ==
    ASSUME Types, ContentInv, LinkTypes', NEW grant \in Nat \ {0},
           NEW queue \in Seq(Retx), queue # <<>>, Fits(queue, tx_window),
           queue[1].sn \in DOMAIN tx_window, BuildSegment(queue, grant), UNCHANGED rx
    PROVE  ContentInv'
<1> DEFINE retx == Head(queue)
           buf == tx_window[retx.sn]
           end == IF retx.so + grant < Len(buf) THEN retx.so + grant ELSE Len(buf)
           p == poll_required(pdu_without_poll + 1, Queued, queue)
           pdu == [sn |-> retx.sn, p |-> p, rf |-> TRUE, so |-> retx.so, lsf |-> end = Len(buf),
                   buf |-> SubSeq(buf, retx.so + 1, end), first |-> FALSE, late |-> FALSE]
<1>1. SendPdu(pdu) /\ UNCHANGED <<taken, vt_a, vt_s, tx_window>>
  BY DEF BuildSegment
<1>2. TxTypes
  BY DEF Types
<1>3. retx.sn \in DOMAIN tx_window /\ retx.so \in Nat /\ buf \in Payload /\ retx.so < Len(buf)
  BY <1>2, HeadIs
<1>4. Len(buf) \in Nat
  BY <1>3 DEF Payload
<1>5. end \in Nat /\ end <= Len(buf) /\ retx.so <= end
  BY <1>3, <1>4
<1>6. pdu.sn = retx.sn /\ pdu.rf /\ pdu.so = retx.so /\ (pdu.lsf <=> end = Len(buf))
      /\ pdu.buf = SubSeq(buf, retx.so + 1, end)
  OBVIOUS
<1> HIDE DEF pdu
<1>7. pdu \in Pdus
  <2>1. air' = Append(air, pdu) /\ air' \in Seq(Pdus) /\ Len(air) \in Nat
    BY <1>1 DEF SendPdu, LinkTypes, Types
  <2>2. pdu = air'[Len(air) + 1] /\ Len(air) + 1 \in DOMAIN air'
    BY <2>1
  <2> QED
    BY <2>1, <2>2
<1>8. PartOf(pdu, buf)
  <2> HIDE DEF end, retx, buf
  <2> DEFINE so == retx.so
  <2>1. so \in Nat /\ so <= end /\ pdu.so = so /\ pdu.buf = SubSeq(buf, so + 1, end)
    BY <1>3, <1>5, <1>6
  <2> HIDE DEF so
  <2> QED
    BY <1>3, <1>5, <1>6, <2>1, SlicePart
<1>9. Carries(pdu, tx_window[pdu.sn])
  BY <1>6, <1>8 DEF Carries
<1>10. pdu.sn \in DOMAIN tx_window
  BY <1>3, <1>6
<1> QED
  BY <1>1, <1>7, <1>9, <1>10, SentAgainContent

\* New data joins the window behind the rest.
LEMMA BuildDataPduContent ==
    ASSUME Types, WindowInv, ContentInv, NEW grant \in Nat \ {0}, UNCHANGED rx, BuildDataPdu(grant),
           At(vt_s) < W, LinkTypes'
    PROVE  ContentInv'
<1> DEFINE to == IF grant < Unsent THEN taken + grant ELSE taken + Unsent
           units == Units(taken, to)
           p == poll_required(pdu_without_poll + 1, written - (to + SduUnits - 1) \div SduUnits, <<>>)
           pdu == [sn |-> vt_s, p |-> p, rf |-> FALSE, so |-> 0, lsf |-> FALSE,
                   buf |-> units, first |-> TRUE, late |-> FALSE]
<1>1. /\ Unsent > 0 /\ SendPdu(pdu) /\ taken' = to /\ tx_window' = Put(tx_window, vt_s, units)
      /\ vt_s' = Shift(vt_s, 1) /\ vt_a' = vt_a
  BY DEF BuildDataPdu
<1>2. /\ taken \in Nat /\ taken <= written * SduUnits /\ written * SduUnits \in Nat
      /\ written * SduUnits <= MaxSdu * SduUnits
  BY Products DEF Types, TxTypes
<1>3. to \in Nat /\ taken < to /\ to <= written * SduUnits
  BY <1>1, <1>2 DEF Unsent
<1> HIDE DEF p, to
<1>4. units \in Payload /\ units # <<>> /\ units[1] = taken
  <2>1. taken <= to /\ to <= MaxSdu * SduUnits /\ 1 \in 1 .. to - taken
    BY <1>2, <1>3, Products
  <2>2. units \in Payload
    BY <1>2, <1>3, <2>1, UnitsPayload
  <2>3. Len(units) = to - taken /\ units[1] = taken + 1 - 1
    BY <1>2, <1>3, <2>1, UnitsIs
  <2>4. Len(units) # 0
    BY <1>2, <1>3, <2>3
  <2> QED
    BY <1>2, <2>2, <2>3, <2>4
<1>5. pdu.sn = vt_s /\ ~pdu.rf /\ pdu.buf = units
  OBVIOUS
<1> HIDE DEF pdu
<1>6. pdu \in Pdus
  <2>1. air' = Append(air, pdu) /\ air' \in Seq(Pdus) /\ Len(air) \in Nat
    BY <1>1 DEF SendPdu, LinkTypes, Types
  <2>2. pdu = air'[Len(air) + 1] /\ Len(air) + 1 \in DOMAIN air'
    BY <2>1
  <2> QED
    BY <2>1, <2>2
<1>7. units = Units(taken, to)
  OBVIOUS
<1> HIDE DEF units
<1>8. SendWindow /\ ReceiveWindow /\ Linked(tx_window, vt_s, taken) /\ vt_s \in SN
  BY DEF WindowInv, ContentInv, Types, TxTypes
<1>9. /\ W \in Nat /\ MOD = 2 * W /\ W > 1 /\ At(vt_s) \in Nat /\ At(vt_s) <= W
      /\ At(vr_r) \in Nat /\ At(vr_h) \in Nat /\ vr_r \in SN
      /\ At(vr_r) <= At(vr_h) /\ At(vr_h) <= At(vt_s)
  BY <1>8, Edges
<1>10. At(vt_s') = At(vt_s) + 1
  <2>1. 1 \in 0 .. MOD
    BY <1>9
  <2>2. At(Shift(vt_s, 1)) = IF At(vt_s) + 1 < MOD THEN At(vt_s) + 1 ELSE At(vt_s) + 1 - MOD
    BY <1>8, <2>1, AtShift
  <2> QED
    BY <1>1, <1>9, <2>2
<1>11. /\ DOMAIN tx_window' = DOMAIN tx_window \union {vt_s} /\ tx_window'[vt_s] = units
       /\ \A sn \in DOMAIN tx_window : sn # vt_s => tx_window'[sn] = tx_window[sn]
  <2>1. tx_window' = [x \in DOMAIN tx_window \union {vt_s} |-> IF x = vt_s THEN units ELSE tx_window[x]]
    BY <1>1, Zenon DEF Put
  <2>2. vt_s \in DOMAIN tx_window \union {vt_s} /\ \A sn \in DOMAIN tx_window : sn \in DOMAIN tx_window \union {vt_s}
    OBVIOUS
  <2>3. DOMAIN tx_window' = DOMAIN tx_window \union {vt_s}
    BY <2>1, Zenon
  <2>4. tx_window'[vt_s] = units
    BY <2>1, <2>2, Zenon
  <2>5. \A sn \in DOMAIN tx_window : sn # vt_s => tx_window'[sn] = tx_window[sn]
    BY <2>1, <2>2, Zenon
  <2> QED
    BY <2>3, <2>4, <2>5
<1>12. vt_s \notin DOMAIN tx_window /\ vt_s # vt_s'
       /\ \A sn \in DOMAIN tx_window : sn # vt_s /\ sn # vt_s' /\ tx_window'[sn] = tx_window[sn]
  <2>1. vt_s \notin DOMAIN tx_window
    BY <1>8, NextInWindow
  <2>2. vt_s # vt_s'
    BY <1>9, <1>10
  <2>3. ASSUME NEW sn \in DOMAIN tx_window PROVE sn # vt_s'
    <3>1. sn \in SN /\ At(sn) < At(vt_s)
      BY <1>8 DEF SendWindow
    <3>2. At(sn) \in Nat
      BY <3>1, AtType
    <3> QED
      BY <1>9, <1>10, <3>1, <3>2
  <2> QED
    BY <1>11, <2>1, <2>2, <2>3
<1>13. ASSUME NEW sn, sn \in DOMAIN tx_window \/ sn = vt_s
       PROVE  FromOf(tx_window', vt_s', taken', sn) = FromOf(tx_window, vt_s, taken, sn)
  <2>1. CASE sn = vt_s
    BY <1>4, <1>11, <1>12, <2>1 DEF FromOf
  <2>2. CASE sn \in DOMAIN tx_window
    BY <1>12, <2>2 DEF FromOf
  <2> QED
    BY <1>13, <2>1, <2>2
<1>14. Linked(tx_window', vt_s', taken')
  <2> SUFFICES ASSUME NEW sn \in DOMAIN tx_window'
               PROVE  LET from == FromOf(tx_window', vt_s', taken', sn)
                          end  == FromOf(tx_window', vt_s', taken', Shift(sn, 1))
                      IN  /\ from \in Nat /\ end \in Nat /\ from < end /\ end <= taken'
                          /\ tx_window'[sn] = Units(from, end)
    BY Zenon DEF Linked
  <2>1. CASE sn \in DOMAIN tx_window
    <3> DEFINE from == FromOf(tx_window, vt_s, taken, sn)
               end  == FromOf(tx_window, vt_s, taken, Shift(sn, 1))
    <3>1. /\ from \in Nat /\ end \in Nat /\ from < end /\ end <= taken
          /\ tx_window[sn] = Units(from, end)
      BY <1>8, <2>1, Zenon DEF Linked
    <3>2. FromOf(tx_window', vt_s', taken', sn) = from
      BY <1>13, <2>1
    <3>3. FromOf(tx_window', vt_s', taken', Shift(sn, 1)) = end
      <4>1. Shift(sn, 1) \in DOMAIN tx_window \/ Shift(sn, 1) = vt_s
        BY <1>8, <2>1, NextInWindow
      <4> QED
        BY <1>13, <4>1
    <3> HIDE DEF from, end
    <3>4. end <= taken'
      BY <1>1, <1>2, <1>3, <3>1
    <3>5. tx_window'[sn] = Units(from, end)
      BY <1>12, <2>1, <3>1
    <3> QED
      BY <3>1, <3>2, <3>3, <3>4, <3>5
  <2>2. CASE sn = vt_s
    <3>1. FromOf(tx_window', vt_s', taken', sn) = taken
      BY <1>13, <2>2 DEF FromOf
    <3>2. FromOf(tx_window', vt_s', taken', Shift(sn, 1)) = to
      BY <1>1, <2>2 DEF FromOf
    <3>3. tx_window'[sn] = Units(taken, to)
      BY <1>7, <1>11, <2>2
    <3> QED
      BY <1>1, <1>2, <1>3, <3>1, <3>2, <3>3
  <2> QED
    BY <1>11, <2>1, <2>2
<1>15. UNCHANGED <<vr_r, rx_window, rx_segments, delivered, rx_sdu>>
  BY DEF rx, reception
<1>16. (Got(delivered, rx_sdu, From(vr_r)))'
  <2>1. vr_r \in DOMAIN tx_window \/ vr_r = vt_s
    BY <1>8, <1>9, UpToEdge
  <2>2. From(vr_r)' = From(vr_r)
    BY <1>13, <1>15, <2>1 DEF From
  <2> QED
    BY <1>15, <2>2 DEF ContentInv
<1>17. OnAir(air', tx_window')
  <2>1. ASSUME NEW i \in DOMAIN air, air[i].sn \in DOMAIN tx_window'
        PROVE  Carries(air[i], tx_window'[air[i].sn])
    <3>1. air[i].sn # vt_s
      <4>1. MOD_BASE(vt_s, air[i].sn) \in 1 .. W
        BY DEF WindowInv, UnderWay
      <4>2. MOD_BASE(vt_s, vt_s) = 0
        BY <1>8, BaseSelf
      <4> QED
        BY <1>9, <4>1, <4>2
    <3>2. air[i].sn \in DOMAIN tx_window
      BY <1>11, <2>1, <3>1
    <3>3. Carries(air[i], tx_window[air[i].sn])
      BY <3>2 DEF ContentInv, OnAir
    <3> QED
      BY <1>12, <3>2, <3>3
  <2>2. OnAir(air, tx_window')
    BY <2>1 DEF OnAir
  <2>3. Carries(pdu, tx_window'[pdu.sn])
    BY <1>5, <1>11 DEF Carries
  <2> QED
    BY <1>1, <1>6, <2>2, <2>3, SendOnAir DEF Types
<1>18. Arrived(rx_window', tx_window')
  <2> SUFFICES ASSUME NEW sn \in DOMAIN rx_window PROVE rx_window[sn] = tx_window'[sn]
    BY <1>15 DEF Arrived
  <2>1. sn \in SN /\ At(sn) < At(vr_h)
    BY <1>8, MapOf DEF ReceiveWindow, Types, RxTypes
  <2>2. At(sn) \in Nat
    BY <2>1, AtType
  <2>3. sn \in DOMAIN tx_window
    BY <1>8, <1>9, <2>1, <2>2 DEF SendWindow
  <2> QED
    BY <1>12, <2>3 DEF ContentInv, Arrived
<1>19. (Pieced(rx_segments, Wanted, tx_window))'
  <2>1. Wanted' = Wanted \union {vt_s}
    <3>1. Wanted' = {sn \in DOMAIN tx_window \union {vt_s} : At(vr_r) <= At(sn)}
      BY <1>1, <1>11, <1>15 DEF Wanted, At
    <3>2. At(vr_r) <= At(vt_s)
      BY <1>9
    <3> QED
      BY <3>1, <3>2, Zenon DEF Wanted
  <2> DEFINE wanted == Wanted \union {vt_s}
  <2>2. ASSUME NEW sn \in DOMAIN rx_segments, sn \in wanted PROVE PartOf(rx_segments[sn], tx_window'[sn])
    <3>1. CASE sn = vt_s
      <4>1. sn \notin Wanted
        BY <1>12, <3>1 DEF Wanted
      <4>2. rx_segments[sn] = NoSegments
        BY <4>1 DEF ContentInv, Pieced
      <4> QED
        BY <1>4, <1>11, <3>1, <4>2, NonePart
    <3>2. CASE sn # vt_s
      <4>1. sn \in Wanted /\ sn \in DOMAIN tx_window
        BY <2>2, <3>2 DEF Wanted
      <4>2. PartOf(rx_segments[sn], tx_window[sn])
        BY <4>1 DEF ContentInv, Pieced
      <4> QED
        BY <1>12, <4>1, <4>2
    <3> QED
      BY <3>1, <3>2
  <2>3. ASSUME NEW sn \in DOMAIN rx_segments, sn \notin wanted PROVE rx_segments[sn] = NoSegments
    BY <2>3 DEF ContentInv, Pieced
  <2> HIDE DEF wanted
  <2>4. Pieced(rx_segments, wanted, tx_window')
    BY <2>2, <2>3 DEF Pieced
  <2> QED
    BY <1>15, <2>1, <2>4 DEF wanted
<1> QED
  BY <1>14, <1>16, <1>17, <1>18, <1>19 DEF ContentInv

LEMMA GrantContent ==
    ASSUME Types, WindowInv, ContentInv, NEW grant \in Grants, Grant(grant), Types' PROVE ContentInv'
<1>1. UNCHANGED rx /\ grant \in Nat \ {0} /\ LinkTypes'
  BY LinkAssumption DEF Grant, Types
<1>2. ASSUME NoPdu, UNCHANGED air PROVE ContentInv'
  <2>1. UNCHANGED <<taken, vt_a, vt_s, tx_window, vr_r, rx_window, rx_segments, delivered, rx_sdu>>
    BY <1>1, <1>2 DEF NoPdu, rx, reception
  <2> QED
    BY <1>2, <2>1 DEF ContentInv, From, Wanted, At
<1>3. ASSUME ReadPdu(grant) PROVE ContentInv'
  <2>1. PICK queue \in IF WindowFull /\ retx_queue = <<>> THEN RandomPdu(<<>>) ELSE {retx_queue} :
          LET live == DropAcked(queue) IN
          IF live = <<>> THEN BuildDataPdu(grant)
          ELSE BuildRetxPdu(live, grant) \/ BuildSegment(live, grant)
    BY <1>3, Zenon DEF ReadPdu
  <2> DEFINE live == DropAcked(queue)
  <2>2. queue \in Seq(Retx) /\ Fits(queue, tx_window)
    BY <2>1, QueueIs DEF Types
  <2>3. live \in Seq(Retx) /\ Fits(live, tx_window) /\ (live # <<>> => live[1].sn \in DOMAIN tx_window)
    BY <2>2, DropAckedIs
  <2>4. ASSUME live = <<>> PROVE At(vt_s) < W
    BY <2>1, <2>4, NewOnlyIfRoom DEF WindowInv
  <2> HIDE DEF live
  <2>5. IF live = <<>> THEN BuildDataPdu(grant) ELSE BuildRetxPdu(live, grant) \/ BuildSegment(live, grant)
    BY <2>1, Zenon DEF live
  <2>6. CASE live = <<>> /\ BuildDataPdu(grant)
    BY <1>1, <2>4, <2>6, BuildDataPduContent
  <2>7. CASE live # <<>> /\ BuildRetxPdu(live, grant)
    BY <1>1, <2>3, <2>7, BuildRetxPduContent
  <2>8. CASE live # <<>> /\ BuildSegment(live, grant)
    BY <1>1, <2>3, <2>8, BuildSegmentContent
  <2> QED
    BY <2>5, <2>6, <2>7, <2>8
<1> QED
  BY <1>2, <1>3 DEF Grant

\* A report takes what it acknowledges out of the window, nothing from vr_r on.
LEMMA AckedTo ==
    ASSUME Types, WindowInv, ReportArrives(1)
    PROVE  \E k \in 0 .. MOD - 1 :
             /\ k <= At(vr_r) /\ vt_a' = Shift(vt_a, k)
             /\ tx_window' = Keep(tx_window, SN \ {Shift(vt_a, n) : n \in 0 .. k - 1})
<1>1. reports # <<>> /\ HandleControlPdu(reports[1])
  BY DEF ReportArrives, Takes
<1> DEFINE status == reports[1]
<1>2. PICK base : BackedBy(base)
  BY DEF WindowInv, Reported
<1>3. 1 \in 1 .. Len(reports) /\ 1 \in 1 .. Len(reports) + 1 /\ status \in Reports
  <2>1. reports \in Seq(Reports) /\ reports # <<>>
    BY <1>1 DEF Types, LinkTypes, Reports
  <2>2. Len(reports) \in Nat /\ Len(reports) >= 1
    BY <2>1
  <2>3. 1 \in 1 .. Len(reports) /\ 1 \in 1 .. Len(reports) + 1
    BY <2>2
  <2> QED
    BY <2>1, <2>3
<1>4. Backs(status, base[1]) /\ base[1] \in 0 .. At(vr_r)
  BY <1>2, <1>3 DEF BackedBy, BackedFrom, Backs
<1>5. At(vr_r) \in 0 .. MOD - 1 /\ MOD \in Nat
  BY AtType, Sizes DEF Types, RxTypes
<1>6. base[1] \in 0 .. MOD - 1 /\ status.ack_sn \in SN
  BY <1>3, <1>4, <1>5 DEF Reports
<1>7. PICK k \in 0 .. base[1] : Acked(status) = 0 .. k - 1 /\ Cardinality(Acked(status)) = k
  BY <1>4, <1>6, AckedIs
<1>8. k \in 0 .. MOD - 1 /\ k <= At(vr_r)
  BY <1>4, <1>5, <1>6
<1>9. /\ tx_window' = Keep(tx_window, SN \ {Shift(vt_a, n) : n \in Acked(status)})
      /\ vt_a' = Shift(vt_a, Cardinality(Acked(status)))
  BY <1>1 DEF HandleControlPdu
<1>10. tx_window' = Keep(tx_window, SN \ {Shift(vt_a, n) : n \in 0 .. k - 1}) /\ vt_a' = Shift(vt_a, k)
  BY <1>7, <1>9, Zenon
<1> QED
  BY <1>8, <1>10

LEMMA ReportArrivesContent ==
    ASSUME Types, WindowInv, ContentInv, ReportArrives(1) PROVE ContentInv'
<1>1. PICK k \in 0 .. MOD - 1 :
             /\ k <= At(vr_r) /\ vt_a' = Shift(vt_a, k)
             /\ tx_window' = Keep(tx_window, SN \ {Shift(vt_a, n) : n \in 0 .. k - 1})
  BY AckedTo
<1>2. UNCHANGED <<taken, vt_s, air, vr_r, rx_window, rx_segments, delivered, rx_sdu>>
  BY DEF ReportArrives, HandleControlPdu, rx, reception
<1>3. /\ SendWindow /\ ReceiveWindow /\ Linked(tx_window, vt_s, taken)
      /\ At(vr_r) \in Nat /\ At(vr_h) \in Nat /\ At(vt_s) \in Nat
      /\ At(vr_r) <= At(vr_h) /\ At(vr_h) <= At(vt_s) /\ k \in Nat /\ k <= At(vr_r) /\ vr_r \in SN
  BY <1>1, Edges DEF WindowInv, ContentInv
<1> DEFINE gone == {Shift(vt_a, n) : n \in 0 .. k - 1}
<1>4. tx_window' = [sn \in DOMAIN tx_window \intersect (SN \ gone) |-> tx_window[sn]]
  BY <1>1, Zenon DEF Keep
<1>5. ASSUME NEW sn \in SN PROVE sn \in gone <=> At(sn) < k
  <2>1. ASSUME At(sn) < k PROVE sn \in gone
    <3>1. At(sn) \in 0 .. k - 1
      BY <1>3, <2>1, AtType
    <3> QED
      BY <3>1, ShiftAt
  <2>2. ASSUME NEW n \in 0 .. k - 1, sn = Shift(vt_a, n) PROVE At(sn) < k
    <3>1. n \in 0 .. MOD - 1 /\ n < k
      BY <1>1, <1>3, Sizes
    <3>2. At(sn) = n
      BY <2>2, <3>1, AtOfShift
    <3> QED
      BY <3>1, <3>2
  <2> QED
    BY <2>1, <2>2
<1> HIDE DEF gone
<1>6. ASSUME NEW sn \in DOMAIN tx_window' PROVE sn \in DOMAIN tx_window /\ tx_window'[sn] = tx_window[sn] /\ k <= At(sn)
  <2>1. sn \in DOMAIN tx_window \intersect (SN \ gone)
    BY <1>4, Zenon
  <2>2. tx_window'[sn] = tx_window[sn]
    BY <1>4, <2>1, Zenon
  <2>3. At(sn) \in Nat /\ ~ At(sn) < k
    BY <1>5, <2>1, AtType
  <2> QED
    BY <1>3, <2>1, <2>2, <2>3
<1>7. ASSUME NEW sn \in DOMAIN tx_window, k <= At(sn) PROVE sn \in DOMAIN tx_window'
  <2>1. sn \in SN
    BY <1>3 DEF SendWindow
  <2>2. At(sn) \in Nat
    BY <2>1, AtType
  <2>3. sn \notin gone
    BY <1>3, <1>5, <1>7, <2>1, <2>2
  <2> QED
    BY <1>4, <2>1, <2>3
<1>8. ASSUME NEW sn, sn = vt_s \/ (sn \in DOMAIN tx_window /\ k <= At(sn))
      PROVE  FromOf(tx_window', vt_s', taken', sn) = FromOf(tx_window, vt_s, taken, sn)
  <2>1. CASE sn = vt_s
    BY <1>2, <2>1 DEF FromOf
  <2>2. CASE sn \in DOMAIN tx_window /\ k <= At(sn)
    BY <1>2, <1>6, <1>7, <2>2 DEF FromOf
  <2> QED
    BY <1>8, <2>1, <2>2
<1>9. Linked(tx_window', vt_s', taken')
  <2> SUFFICES ASSUME NEW sn \in DOMAIN tx_window'
               PROVE  LET from == FromOf(tx_window', vt_s', taken', sn)
                          end  == FromOf(tx_window', vt_s', taken', Shift(sn, 1))
                      IN  /\ from \in Nat /\ end \in Nat /\ from < end /\ end <= taken'
                          /\ tx_window'[sn] = Units(from, end)
    BY Zenon DEF Linked
  <2> DEFINE from == FromOf(tx_window, vt_s, taken, sn)
             end  == FromOf(tx_window, vt_s, taken, Shift(sn, 1))
  <2>1. sn \in DOMAIN tx_window /\ tx_window'[sn] = tx_window[sn] /\ k <= At(sn)
    BY <1>6
  <2>2. /\ from \in Nat /\ end \in Nat /\ from < end /\ end <= taken
        /\ tx_window[sn] = Units(from, end)
    BY <1>3, <2>1, Zenon DEF Linked
  <2>3. FromOf(tx_window', vt_s', taken', sn) = from
    BY <1>8, <2>1
  <2>4. FromOf(tx_window', vt_s', taken', Shift(sn, 1)) = end
    <3>1. /\ sn \in SN /\ At(Shift(sn, 1)) = At(sn) + 1
          /\ Shift(sn, 1) \in DOMAIN tx_window \/ Shift(sn, 1) = vt_s
      BY <1>3, <2>1, NextInWindow
    <3>2. At(sn) \in Nat
      BY <3>1, AtType
    <3>3. k <= At(Shift(sn, 1))
      BY <1>3, <2>1, <3>1, <3>2
    <3> QED
      BY <1>8, <3>1, <3>3
  <2> HIDE DEF from, end
  <2> QED
    BY <1>2, <2>1, <2>2, <2>3, <2>4
<1>10. (Got(delivered, rx_sdu, From(vr_r)))'
  <2>1. vr_r \in DOMAIN tx_window \/ vr_r = vt_s
    BY <1>3, UpToEdge
  <2>2. From(vr_r)' = From(vr_r)
    BY <1>2, <1>3, <1>8, <2>1 DEF From
  <2> QED
    BY <1>2, <2>2 DEF ContentInv
<1>11. OnAir(air', tx_window')
  BY <1>2, <1>6 DEF ContentInv, OnAir
<1>12. Arrived(rx_window', tx_window')
  <2> SUFFICES ASSUME NEW sn \in DOMAIN rx_window PROVE rx_window[sn] = tx_window'[sn]
    BY <1>2 DEF Arrived
  <2>1. sn \in SN /\ At(vr_r) < At(sn) /\ At(sn) < At(vr_h)
    BY <1>3, MapOf DEF ReceiveWindow, Types, RxTypes
  <2>2. At(sn) \in Nat
    BY <2>1, AtType
  <2>3. sn \in DOMAIN tx_window /\ k <= At(sn)
    BY <1>3, <2>1, <2>2 DEF SendWindow
  <2> QED
    BY <1>6, <1>7, <2>3 DEF ContentInv, Arrived
<1>13. (Pieced(rx_segments, Wanted, tx_window))'
  <2>1. ASSUME NEW sn \in DOMAIN tx_window, k <= At(sn)
        PROVE  MOD_BASE(vr_r, vt_a') <= MOD_BASE(sn, vt_a') <=> At(vr_r) <= At(sn)
    <3>1. sn \in SN
      BY <1>3 DEF SendWindow
    <3>2. At(sn) \in Nat
      BY <3>1, AtType
    <3>3. MOD_BASE(sn, vt_a') = At(sn) - k
      BY <1>1, <1>3, <2>1, <3>1, <3>2, Nearer
    <3>4. MOD_BASE(vr_r, vt_a') = At(vr_r) - k
      BY <1>1, <1>3, Nearer
    <3> QED
      BY <1>3, <3>2, <3>3, <3>4
  <2>2. Wanted' = {sn \in DOMAIN tx_window' : MOD_BASE(vr_r, vt_a') <= MOD_BASE(sn, vt_a')}
    BY <1>2 DEF Wanted, At
  <2>3. ASSUME NEW sn \in Wanted PROVE sn \in Wanted'
    <3>1. sn \in DOMAIN tx_window /\ At(vr_r) <= At(sn)
      BY DEF Wanted
    <3>2. At(sn) \in Nat
      BY <1>3, <3>1, AtType DEF SendWindow
    <3>3. k <= At(sn)
      BY <1>3, <3>1, <3>2
    <3>4. sn \in DOMAIN tx_window'
      BY <1>7, <3>1, <3>3
    <3> QED
      BY <2>1, <2>2, <3>1, <3>3, <3>4
  <2>4. ASSUME NEW sn \in Wanted' PROVE sn \in Wanted
    <3>1. sn \in DOMAIN tx_window' /\ MOD_BASE(vr_r, vt_a') <= MOD_BASE(sn, vt_a')
      BY <2>2
    <3>2. sn \in DOMAIN tx_window /\ k <= At(sn)
      BY <1>6, <3>1
    <3> QED
      BY <2>1, <3>1, <3>2 DEF Wanted
  <2>5. Wanted' = Wanted
    BY <2>3, <2>4
  <2>6. ASSUME NEW sn \in Wanted PROVE tx_window'[sn] = tx_window[sn]
    <3>1. sn \in DOMAIN tx_window'
      BY <2>2, <2>3
    <3> QED
      BY <1>6, <3>1
  <2>7. Pieced(rx_segments, Wanted, tx_window')
    BY <2>6 DEF ContentInv, Pieced
  <2> QED
    BY <1>2, <2>5, <2>7
<1> QED
  BY <1>9, <1>10, <1>11, <1>12, <1>13 DEF ContentInv

-----------------------------------------------------------------------------
(* What the receiving side makes of what arrives                           *)

\* The numbers that run on from vr_r carry the stream on from where it stands.
LEMMA StreamIs ==
    ASSUME Types, SendWindow, ReceiveWindow, Linked(tx_window, vt_s, taken),
           Got(delivered, rx_sdu, From(vr_r)), NEW win, Arrived(win, tx_window),
           NEW n \in Nat, At(vr_r) + n <= At(vt_s),
           \A i \in 1 .. n : Shift(vr_r, i - 1) \in DOMAIN win
    PROVE  LET c == From(vr_r)
               e == From(Shift(vr_r, n))
           IN  /\ c \in Nat /\ e \in Nat /\ c <= e
               /\ Stream(win, n) = Units((c \div SduUnits) * SduUnits, e)
<1> DEFINE c == From(vr_r)
           base == (c \div SduUnits) * SduUnits
           e(i) == From(Shift(vr_r, i))
           T == [i \in 0 .. n |-> {s \in {Units(base, e(i))} : c <= e(i)}]
<1>1. /\ W \in Nat /\ MOD = 2 * W /\ W > 1 /\ vr_r \in SN /\ At(vr_r) \in Nat /\ At(vt_s) \in Nat
      /\ At(vr_r) <= At(vt_s) /\ At(vt_s) <= W
  BY Edges
<1>2. c \in Nat
  BY <1>1, FromType
<1>3. base \in Nat /\ base <= c
  BY <1>2, WholeSdus
<1>4. ASSUME NEW i \in 0 .. n
      PROVE  Shift(vr_r, i) \in SN /\ At(Shift(vr_r, i)) = At(vr_r) + i /\ e(i) \in Nat
  <2>1. i \in Nat /\ i \in 0 .. MOD /\ At(vr_r) + i <= At(vt_s) /\ At(vr_r) + i < MOD
    BY <1>1
  <2>2. At(Shift(vr_r, i)) = At(vr_r) + i
    BY <1>1, <2>1, AtShift
  <2>3. Shift(vr_r, i) \in SN
    BY <1>1, <2>1, ShiftNat
  <2>4. e(i) \in Nat
    BY <2>1, <2>2, <2>3, FromType
  <2> QED
    BY <2>2, <2>3, <2>4
<1>5. ASSUME NEW i \in 1 .. n
      PROVE  e(i - 1) < e(i) /\ win[Shift(vr_r, i - 1)] = Units(e(i - 1), e(i))
  <2> DEFINE sn == Shift(vr_r, i - 1)
  <2>1. i - 1 \in 0 .. n /\ i - 1 \in Nat /\ i - 1 + 1 = i /\ i - 1 < n
    OBVIOUS
  <2>2. sn \in SN /\ At(sn) = At(vr_r) + (i - 1)
    BY <1>4, <2>1
  <2>3. sn \in DOMAIN tx_window
    BY <1>1, <2>1, <2>2 DEF SendWindow
  <2>4. Shift(sn, 1) = Shift(vr_r, i)
    <3>1. 1 \in Nat
      OBVIOUS
    <3>2. Shift(Shift(vr_r, i - 1), 1) = Shift(vr_r, i - 1 + 1)
      BY <1>1, <2>1, <3>1, ShiftShift
    <3> QED
      BY <2>1, <3>2
  <2>5. From(sn) < From(Shift(sn, 1)) /\ tx_window[sn] = Units(From(sn), From(Shift(sn, 1)))
    BY <2>3, Zenon DEF Linked, From
  <2>6. win[sn] = tx_window[sn]
    BY Zenon DEF Arrived
  <2> QED
    BY <2>4, <2>5, <2>6
<1>6. \A i \in 0 .. n : T[i] = {s \in {Units(base, e(i))} : c <= e(i)}
  OBVIOUS
<1>7. Shift(vr_r, 0) = vr_r
  BY <1>1, ModSmall, Sizes DEF Shift, SN
<1>8. rx_sdu = Units(base, c)
  BY DEF Got
<1> HIDE DEF T, base
<1>9. rx_sdu \in T[0]
  <2>1. 0 \in 0 .. n /\ e(0) = c /\ c <= c
    BY <1>2, <1>7
  <2> QED
    BY <1>6, <1>8, <2>1
<1>10. ASSUME NEW i \in 1 .. n, NEW s \in T[i - 1] PROVE s \o win[Shift(vr_r, i - 1)] \in T[i]
  <2> DEFINE x == e(i - 1)
             y == e(i)
  <2>1. i \in 0 .. n /\ i - 1 \in 0 .. n
    OBVIOUS
  <2>2. x \in Nat /\ y \in Nat
    BY <1>4, <2>1
  <2>3. s = Units(base, x) /\ c <= x
    BY <1>6, <1>10, <2>1
  <2>4. x < y /\ win[Shift(vr_r, i - 1)] = Units(x, y)
    BY <1>5
  <2>5. T[i] = {z \in {Units(base, y)} : c <= y}
    BY <1>6, <2>1
  <2> HIDE DEF x, y, c
  <2>6. base <= x /\ x <= y /\ c <= y
    BY <1>2, <1>3, <2>2, <2>3, <2>4
  <2>7. Units(base, x) \o Units(x, y) = Units(base, y)
    BY <1>3, <2>2, <2>6, UnitsJoin
  <2> QED
    BY <2>3, <2>4, <2>5, <2>6, <2>7
<1>11. Stream(win, n) \in T[n]
  BY <1>9, <1>10, StreamWithin, Zenon
<1>12. n \in 0 .. n
  OBVIOUS
<1>13. Stream(win, n) = Units(base, e(n)) /\ c <= e(n)
  BY <1>6, <1>11, <1>12
<1>14. e(n) \in Nat
  BY <1>4, <1>12
<1> QED
  BY <1>2, <1>13, <1>14 DEF base

RxContent ==
    /\ Got(delivered, rx_sdu, From(vr_r))
    /\ Arrived(rx_window, tx_window)
    /\ Pieced(rx_segments, Wanted, tx_window)

LEMMA DiscardContent ==
    ASSUME ContentInv, UNCHANGED <<taken, vt_a, vt_s, tx_window>>, NEW p, NEW segs,
           Pieced(segs, Wanted, tx_window), Discard(p, segs)
    PROVE  RxContent' /\ From(vr_r) = From(vr_r)'
<1>1. UNCHANGED <<vr_r, rx_window, delivered, rx_sdu>> /\ rx_segments' = segs
  BY DEF Discard
<1>2. From(vr_r)' = From(vr_r) /\ Wanted' = Wanted
  BY <1>1 DEF From, Wanted, At
<1> QED
  BY <1>1, <1>2 DEF ContentInv, RxContent

LEMMA HandleDataPduContent ==
    ASSUME Types, SendWindow, ReceiveWindow, ContentInv, UNCHANGED <<taken, vt_a, vt_s, tx_window>>,
           NEW sn \in SN, MOD_BASE(vt_s, sn) \in 1 .. W, NEW p, NEW buf \in Payload,
           sn \in DOMAIN tx_window => buf = tx_window[sn],
           NEW segs \in Maps(Segment), Pieced(segs, Wanted, tx_window), NEW asked,
           HandleDataPdu(sn, p, buf, segs, asked)
    PROVE  RxContent' /\ From(vr_r) <= From(vr_r)'
<1>1. CASE ~inside_rx_window(sn, vr_r) \/ sn \in DOMAIN rx_window
  <2>1. Discard(p \/ asked, segs)
    BY <1>1 DEF HandleDataPdu
  <2>2. RxContent' /\ From(vr_r) = From(vr_r)'
    BY <2>1, DiscardContent
  <2>3. From(vr_r) \in Nat
    BY Edges, FromType DEF ContentInv
  <2> QED
    BY <2>2, <2>3
<1>2. CASE ~ (~inside_rx_window(sn, vr_r) \/ sn \in DOMAIN rx_window)
  <2> DEFINE win == Put(rx_window, sn, buf)
             n == RunLength(win, vr_r)
  <2>1. /\ SeeHighest(sn)
        /\ Reassemble(win, n)
        /\ rx_segments' = EmptySegments(segs, n)
        /\ rx_window' = Keep(win, {s \in SN : MOD_BASE(s, vr_r) >= n})
        /\ vr_r' = Shift(vr_r, n)
    BY <1>2 DEF HandleDataPdu
  <2>2. /\ DOMAIN win = DOMAIN rx_window \union {sn}
        /\ n \in 0 .. MOD /\ (n = MOD \/ Shift(vr_r, n) \notin DOMAIN win)
        /\ \A i \in 1 .. n : Shift(vr_r, i - 1) \in DOMAIN win
    BY RunIs DEF Types
  <2>3. win = [x \in DOMAIN rx_window \union {sn} |-> IF x = sn THEN buf ELSE rx_window[x]]
    BY Zenon DEF Put
  <2> HIDE DEF win, n
  <2>4. /\ W \in Nat /\ MOD = 2 * W /\ W > 1 /\ vr_r \in SN
        /\ At(vr_r) \in Nat /\ At(vr_h) \in Nat /\ At(vt_s) \in Nat
        /\ At(vr_r) <= At(vr_h) /\ At(vr_h) <= At(vt_s) /\ At(vt_s) <= W
    BY Edges
  <2>5. At(vr_r) <= At(sn) /\ At(sn) < At(vt_s)
    BY <1>2, Inside
  <2>6. sn \in DOMAIN tx_window
    BY <2>5 DEF SendWindow
  <2>7. Arrived(win, tx_window)
    <3>1. ASSUME NEW s \in DOMAIN win PROVE win[s] = tx_window[s]
      <4>1. CASE s = sn
        BY <2>3, <2>6, <4>1
      <4>2. CASE s # sn
        <5>1. s \in DOMAIN rx_window /\ win[s] = rx_window[s]
          BY <2>2, <2>3, <4>2
        <5> QED
          BY <5>1 DEF ContentInv, Arrived
      <4> QED
        BY <4>1, <4>2
    <3> QED
      BY <3>1 DEF Arrived
  <2>8. ASSUME NEW s \in DOMAIN win PROVE s \in SN /\ At(vr_r) <= At(s) /\ At(s) < At(vt_s)
    <3>1. CASE s = sn
      BY <2>5, <3>1
    <3>2. CASE s \in DOMAIN rx_window
      <4>1. s \in SN /\ At(vr_r) < At(s) /\ At(s) < At(vr_h)
        BY <3>2, MapOf DEF ReceiveWindow, Types, RxTypes
      <4>2. At(s) \in Nat
        BY <4>1, AtType
      <4> QED
        BY <2>4, <4>1, <4>2
    <3> QED
      BY <2>2, <3>1, <3>2
  <2>9. Shift(vr_r, n) \in SN /\ At(Shift(vr_r, n)) = At(vr_r) + n /\ At(vr_r) + n <= At(vt_s)
    <3> DEFINE h == At(vt_s)
    <3>1. h \in Nat /\ At(vr_r) <= h /\ h < MOD /\ \A s \in DOMAIN win : s \in SN /\ At(vr_r) <= At(s) /\ At(s) < h
      BY <2>4, <2>8
    <3> HIDE DEF h
    <3>2. Shift(vr_r, n) \in SN /\ At(Shift(vr_r, n)) = At(vr_r) + n /\ At(vr_r) + n <= h
      BY <2>2, <3>1, RunAt
    <3> QED
      BY <3>2 DEF h
  <2>10. n \in Nat
    BY <2>2, <2>4
  <2> DEFINE c == From(vr_r)
             e == From(Shift(vr_r, n))
  <2>11. /\ c \in Nat /\ e \in Nat /\ c <= e
         /\ Stream(win, n) = Units((c \div SduUnits) * SduUnits, e)
    BY <2>2, <2>7, <2>9, <2>10, StreamIs DEF ContentInv
  <2>12. Got(delivered, rx_sdu, c)
    BY DEF ContentInv
  <2>13. e = From(vr_r)'
    BY <2>1 DEF From
  <2> HIDE DEF c, e
  <2>14. Got(delivered', rx_sdu', e)
    <3>1. delivered' = delivered \o Pieces(Stream(win, n)) /\ rx_sdu' = Rest(Stream(win, n))
      BY <2>1, ReassembleIs
    <3> DEFINE u == Units((c \div SduUnits) * SduUnits, e)
    <3>2. Got(delivered \o Pieces(u), Rest(u), e)
      BY <2>11, <2>12, GotMore
    <3>3. u = Stream(win, n)
      BY <2>11
    <3> HIDE DEF u
    <3> QED
      BY <3>1, <3>2, <3>3
  <2>15. Arrived(rx_window', tx_window')
    <3>1. rx_window' = [s \in DOMAIN win \intersect {t \in SN : MOD_BASE(t, vr_r) >= n} |-> win[s]]
      BY <2>1, Zenon DEF Keep
    <3>2. ASSUME NEW s \in DOMAIN rx_window' PROVE rx_window'[s] = tx_window[s]
      <4>1. s \in DOMAIN win \intersect {t \in SN : MOD_BASE(t, vr_r) >= n} /\ rx_window'[s] = win[s]
        BY <3>1, Zenon
      <4> QED
        BY <2>7, <4>1 DEF Arrived
    <3> QED
      BY <3>2 DEF Arrived
  <2>16. ASSUME NEW s \in DOMAIN segs
         PROVE  s \in Wanted' <=> (s \in Wanted /\ ~ MOD_BASE(s, vr_r) < n)
    <3>1. s \in SN
      BY MapOf
    <3>2. At(s) \in Nat /\ At(s) < MOD
      BY <2>4, <3>1, AtType
    <3>3. MOD_BASE(s, vr_r) = IF At(s) >= At(vr_r) THEN At(s) - At(vr_r) ELSE At(s) - At(vr_r) + MOD
      BY <2>4, <3>1, AtVia
    <3>4. s \in Wanted' <=> (s \in DOMAIN tx_window /\ At(vr_r) + n <= At(s))
      <4>1. s \in Wanted' <=> (s \in DOMAIN tx_window /\ At(Shift(vr_r, n)) <= At(s))
        BY <2>1 DEF Wanted, At
      <4> QED
        BY <2>9, <4>1
    <3>5. s \in Wanted <=> (s \in DOMAIN tx_window /\ At(vr_r) <= At(s))
      BY DEF Wanted
    <3>6. At(vr_r) + n <= At(s) <=> (At(vr_r) <= At(s) /\ ~ MOD_BASE(s, vr_r) < n)
      BY <2>4, <2>10, <3>2, <3>3
    <3> QED
      BY <3>4, <3>5, <3>6
  <2>17. Pieced(rx_segments', Wanted', tx_window')
    <3>1. rx_segments' = [s \in DOMAIN segs |-> IF MOD_BASE(s, vr_r) < n THEN NoSegments ELSE segs[s]]
      BY <2>1, Zenon DEF EmptySegments
    <3>2. ASSUME NEW s \in DOMAIN rx_segments'
          PROVE  IF s \in Wanted' THEN PartOf(rx_segments'[s], tx_window[s]) ELSE rx_segments'[s] = NoSegments
      <4>1. s \in DOMAIN segs
        BY <3>1, Zenon
      <4>2. rx_segments'[s] = IF MOD_BASE(s, vr_r) < n THEN NoSegments ELSE segs[s]
        BY <3>1, <4>1, Zenon
      <4>3. IF s \in Wanted THEN PartOf(segs[s], tx_window[s]) ELSE segs[s] = NoSegments
        BY <4>1, Zenon DEF Pieced
      <4>4. s \in Wanted' <=> (s \in Wanted /\ ~ MOD_BASE(s, vr_r) < n)
        BY <2>16, <4>1
      <4> QED
        BY <4>2, <4>3, <4>4, Zenon
    <3> QED
      BY <3>2 DEF Pieced
  <2> QED
    BY <2>11, <2>13, <2>14, <2>15, <2>17 DEF RxContent, c
<1> QED
  BY <1>1, <1>2

LEMMA PutPieced ==
    ASSUME NEW segs, NEW wanted, NEW win, Pieced(segs, wanted, win), NEW sn \in wanted, NEW part,
           PartOf(part, win[sn])
    PROVE  Pieced(Put(segs, sn, part), wanted, win)
<1> DEFINE g == [x \in DOMAIN segs \union {sn} |-> IF x = sn THEN part ELSE segs[x]]
<1>1. Put(segs, sn, part) = g
  BY Zenon DEF Put
<1>2. ASSUME NEW x \in DOMAIN g PROVE IF x \in wanted THEN PartOf(g[x], win[x]) ELSE g[x] = NoSegments
  <2>1. x \in DOMAIN segs \union {sn} /\ g[x] = IF x = sn THEN part ELSE segs[x]
    BY <1>2
  <2> HIDE DEF g
  <2>2. CASE x = sn
    BY <2>1, <2>2
  <2>3. CASE x # sn
    <3>1. x \in DOMAIN segs /\ g[x] = segs[x]
      BY <2>1, <2>3
    <3> QED
      BY <3>1 DEF Pieced
  <2> QED
    BY <2>2, <2>3
<1> HIDE DEF g
<1>3. Pieced(g, wanted, win)
  BY <1>2 DEF Pieced
<1> QED
  BY <1>1, <1>3

LEMMA FirstSegmentContent ==
    ASSUME ContentInv, UNCHANGED <<taken, vt_a, vt_s, tx_window>>,
           NEW pdu \in Pdus, pdu.sn \in Wanted, PartOf(pdu, tx_window[pdu.sn]), FirstSegment(pdu)
    PROVE  RxContent' /\ From(vr_r) = From(vr_r)'
<1> DEFINE seg == [so |-> pdu.so, buf |-> pdu.buf, lsf |-> pdu.lsf]
<1>1. UNCHANGED <<vr_r, rx_window, delivered, rx_sdu>> /\ rx_segments' = Put(rx_segments, pdu.sn, seg)
  BY DEF FirstSegment
<1>2. seg.so = pdu.so /\ seg.buf = pdu.buf /\ seg.lsf = pdu.lsf
  OBVIOUS
<1> HIDE DEF seg
<1>3. PartOf(seg, tx_window[pdu.sn])
  BY <1>2 DEF PartOf
<1>4. From(vr_r)' = From(vr_r) /\ Wanted' = Wanted
  BY <1>1 DEF From, Wanted, At
<1>5. Pieced(rx_segments', Wanted, tx_window)
  BY <1>1, <1>3, PutPieced DEF ContentInv
<1> QED
  BY <1>1, <1>4, <1>5 DEF ContentInv, RxContent

LEMMA WritePduContent ==
    ASSUME Types, SendWindow, ReceiveWindow, ContentInv, UNCHANGED <<taken, vt_a, vt_s, tx_window>>,
           NEW pdu \in Pdus, MOD_BASE(vt_s, pdu.sn) \in 1 .. W, WritePdu(pdu),
           pdu.sn \in DOMAIN tx_window => Carries(pdu, tx_window[pdu.sn])
    PROVE  RxContent' /\ From(vr_r) <= From(vr_r)'
<1>1. pdu.sn \in SN /\ pdu.buf \in Payload /\ rx_segments \in Maps(Segment)
      /\ Pieced(rx_segments, Wanted, tx_window)
  BY SegmentTypes DEF Pdus, Types, ContentInv
<1>2. From(vr_r) \in Nat /\ (From(vr_r) = From(vr_r)' => From(vr_r) <= From(vr_r)')
  BY Edges, FromType DEF ContentInv
<1>3. CASE ~pdu.rf /\ HandleDataPdu(pdu.sn, pdu.p, pdu.buf, rx_segments, FALSE)
  <2>1. pdu.sn \in DOMAIN tx_window => pdu.buf = tx_window[pdu.sn]
    BY <1>3 DEF Carries
  <2> QED
    BY <1>1, <1>3, <2>1, HandleDataPduContent
<1>4. CASE Discard(pdu.p, rx_segments)
  BY <1>1, <1>2, <1>4, DiscardContent
<1>5. ASSUME pdu.rf, inside_rx_window(pdu.sn, vr_r)
      PROVE  pdu.sn \in Wanted /\ PartOf(pdu, tx_window[pdu.sn]) /\ tx_window[pdu.sn] \in Payload
  <2>1. At(vr_r) <= At(pdu.sn) /\ At(pdu.sn) < At(vt_s)
    BY <1>1, <1>5, Inside
  <2>2. pdu.sn \in DOMAIN tx_window
    BY <1>1, <2>1 DEF SendWindow
  <2>3. tx_window[pdu.sn] \in Payload
    BY <2>2, MapOf DEF Types, TxTypes
  <2> QED
    BY <1>5, <2>1, <2>2, <2>3 DEF Carries, Wanted
<1>6. CASE pdu.rf /\ inside_rx_window(pdu.sn, vr_r) /\ FirstSegment(pdu)
  BY <1>2, <1>5, <1>6, FirstSegmentContent
<1>7. CASE pdu.rf /\ inside_rx_window(pdu.sn, vr_r) /\ pdu.sn \in DOMAIN rx_segments /\ AddSegment(pdu)
  <2> DEFINE now == Now(rx_segments[pdu.sn], pdu)
             rest == Keep(rx_segments, SN \ {pdu.sn})
             buf == tx_window[pdu.sn]
  <2>1. pdu.sn \in Wanted /\ PartOf(pdu, buf) /\ buf \in Payload
    BY <1>5, <1>7
  <2>2. rx_segments[pdu.sn] \in Segment
    BY <1>1, <1>7, MapOf
  <2>3. PartOf(rx_segments[pdu.sn], buf)
    BY <1>1, <1>7, <2>1 DEF Pieced
  <2>4. now \in Segment /\ PartOf(now, buf)
    <3> HIDE DEF buf
    <3> QED
      BY <2>1, <2>2, <2>3, NowType, NowPart
  <2>5. \/ now.so = 0 /\ now.lsf /\ HandleDataPdu(pdu.sn, FALSE, now.buf, rest, pdu.p)
        \/ Discard(pdu.p, Put(rx_segments, pdu.sn, now))
    BY <1>7, AddSegmentIs, Zenon
  <2>6. rest \in Maps(Segment) /\ Pieced(rest, Wanted, tx_window)
    <3>1. rest \in Maps(Segment)
      BY <1>1, KeepMap
    <3>2. rest = [s \in DOMAIN rx_segments \intersect (SN \ {pdu.sn}) |-> rx_segments[s]]
      BY Zenon DEF Keep
    <3> HIDE DEF rest
    <3>3. ASSUME NEW s \in DOMAIN rest PROVE s \in DOMAIN rx_segments /\ rest[s] = rx_segments[s]
      BY <3>2
    <3>4. Pieced(rest, Wanted, tx_window)
      BY <1>1, <3>3 DEF Pieced
    <3> QED
      BY <3>1, <3>4
  <2>7. Pieced(Put(rx_segments, pdu.sn, now), Wanted, tx_window)
    <3> HIDE DEF now
    <3> QED
      BY <1>1, <2>1, <2>4, PutPieced
  <2> HIDE DEF now, rest
  <2>8. CASE now.so = 0 /\ now.lsf /\ HandleDataPdu(pdu.sn, FALSE, now.buf, rest, pdu.p)
    <3>1. now.buf = tx_window[pdu.sn] /\ now.buf \in Payload
      <4> HIDE DEF buf
      <4>1. now.buf = buf
        BY <2>1, <2>4, <2>8, WholePart
      <4> QED
        BY <2>1, <4>1 DEF buf
    <3> QED
      BY <1>1, <2>6, <2>8, <3>1, HandleDataPduContent
  <2>9. CASE Discard(pdu.p, Put(rx_segments, pdu.sn, now))
    BY <1>2, <2>7, <2>9, DiscardContent
  <2> QED
    BY <2>5, <2>8, <2>9
<1> QED
  BY <1>3, <1>4, <1>6, <1>7, Zenon DEF WritePdu, HandleDataPduSegment

LEMMA PduArrivesContent ==
    ASSUME Types, WindowInv, ContentInv, NEW i \in {1, 2}, PduArrives(i)
    PROVE  ContentInv' /\ From(vr_r) <= From(vr_r)'
<1>1. /\ Takes(air, i) /\ WritePdu(air[i]) /\ air' = After(air, i)
      /\ UNCHANGED <<taken, vt_a, vt_s, tx_window>>
  BY DEF PduArrives, tx
<1>2. air \in Seq(Pdus) /\ \A e \in Pdus : Late(e) \in Pdus
  BY LatePdu DEF Types, LinkTypes
<1>3. i \in DOMAIN air
  BY <1>1, <1>2, AfterIs
<1>4. DOMAIN After(air, i) = 1 .. Len(air) - 1
  BY <1>1, <1>2, AfterIs
<1>5. \A j \in 1 .. Len(air) - 1 : /\ Was(j, i) \in DOMAIN air
                                   /\ \/ After(air, i)[j] = air[Was(j, i)]
                                      \/ After(air, i)[j] = Late(air[Was(j, i)])
  BY <1>1, <1>2, AfterIs, Zenon
<1>6. \A j \in DOMAIN air : /\ air[j] \in Pdus /\ MOD_BASE(vt_s, air[j].sn) \in 1 .. W
                            /\ air[j].sn \in DOMAIN tx_window => Carries(air[j], tx_window[air[j].sn])
  BY <1>2 DEF WindowInv, UnderWay, ContentInv, OnAir
<1>7. RxContent' /\ From(vr_r) <= From(vr_r)'
  BY <1>1, <1>3, <1>6, WritePduContent DEF WindowInv
<1>8. OnAir(air', tx_window)
  <2>1. ASSUME NEW j \in DOMAIN air', air'[j].sn \in DOMAIN tx_window
        PROVE  Carries(air'[j], tx_window[air'[j].sn])
    <3>1. j \in 1 .. Len(air) - 1
      BY <1>1, <1>4, <2>1
    <3> DEFINE e == air[Was(j, i)]
    <3>2. /\ e \in Pdus /\ (air'[j] = e \/ air'[j] = Late(e))
          /\ e.sn \in DOMAIN tx_window => Carries(e, tx_window[e.sn])
      BY <1>1, <1>5, <1>6, <3>1
    <3> HIDE DEF e
    <3>3. /\ air'[j].sn = e.sn /\ air'[j].rf = e.rf /\ air'[j].so = e.so
          /\ air'[j].lsf = e.lsf /\ air'[j].buf = e.buf
      BY <3>2, LatePdu
    <3> QED
      BY <2>1, <3>2, <3>3, Zenon DEF Carries, PartOf
  <2> QED
    BY <2>1 DEF OnAir
<1>9. Linked(tx_window', vt_s', taken')
  BY <1>1 DEF ContentInv
<1> QED
  BY <1>1, <1>7, <1>8, <1>9 DEF ContentInv, RxContent

LEMMA LosePduContent ==
    ASSUME Types, ContentInv, NEW i \in 1 .. MaxAir, LosePdu(i) PROVE ContentInv'
<1>1. /\ i \in DOMAIN air /\ air' = RemoveAt(air, i)
      /\ UNCHANGED <<taken, vt_a, vt_s, tx_window, vr_r, rx_window, rx_segments, delivered, rx_sdu>>
  BY DEF LosePdu, tx, rx, reception
<1>2. air \in Seq(Pdus)
  BY DEF Types, LinkTypes
<1>3. OnAir(air', tx_window)
  <2>1. /\ DOMAIN air' = 1 .. Len(air) - 1
        /\ \A j \in 1 .. Len(air) - 1 : air'[j] = air[IF j < i THEN j ELSE j + 1]
    BY <1>1, <1>2, RemoveAtIs, Zenon
  <2>2. \A j \in 1 .. Len(air) - 1 : (IF j < i THEN j ELSE j + 1) \in DOMAIN air
    BY <1>1, <1>2
  <2> QED
    BY <2>1, <2>2, Zenon DEF ContentInv, OnAir
<1>4. From(vr_r)' = From(vr_r) /\ Wanted' = Wanted
  BY <1>1 DEF From, Wanted, At
<1> QED
  BY <1>1, <1>3, <1>4 DEF ContentInv

LEMMA SameContent ==
    ASSUME ContentInv,
           UNCHANGED <<taken, vt_a, vt_s, tx_window, air, vr_r, rx_window, rx_segments, delivered, rx_sdu>>
    PROVE  ContentInv'
BY DEF ContentInv, From, Wanted, At

LEMMA PeerReportsContent == ASSUME ContentInv, PeerReports PROVE ContentInv'
<1>1. UNCHANGED <<taken, vt_a, vt_s, tx_window, air, vr_r, rx_window, rx_segments, delivered, rx_sdu>>
  BY DEF PeerReports, MakeReport, SendReport, tx, link, reception
<1> QED
  BY <1>1, SameContent

\* Every step of the windows keeps what they hold.
LEMMA ContentStep ==
    ASSUME Types, WindowInv, ContentInv, ReportsOvertake = FALSE, [Next]_vars, Types'
    PROVE  ContentInv'
<1>1. CASE PdcpWrites
  BY <1>1, SameContent DEF PdcpWrites, WriteSdu, rx, reception, link
<1>2. CASE \E grant \in Grants : Grant(grant)
  BY <1>2, GrantContent
<1>3. CASE \E i \in {1, 2} : PduArrives(i)
  BY <1>3, PduArrivesContent
<1>4. CASE \E i \in IF ReportsOvertake THEN {1, 2} ELSE {1} : ReportArrives(i)
  BY <1>4, ReportArrivesContent
<1>5. CASE PeerReports
  BY <1>5, PeerReportsContent
<1>6. CASE PollStep
  BY <1>6, SameContent DEF PollStep, PollTimerStep, rx, reception, link
<1>7. CASE PollExpiry
  BY <1>7, SameContent DEF PollExpiry, PollTimerExpired, rx, reception, link
<1>8. CASE PeerStep
  BY <1>8, SameContent DEF PeerStep, ReorderingStep, tx, link
<1>9. CASE PeerExpiry
  BY <1>9, SameContent DEF PeerExpiry, ReorderingExpired, tx, link
<1>10. CASE PeerProhibit
  BY <1>10, SameContent DEF PeerProhibit, ProhibitExpired, tx, reception, link
<1>11. CASE \E i \in 1 .. MaxAir : LosePdu(i) \/ LoseReport(i)
  <2>1. ASSUME NEW i \in 1 .. MaxAir, LoseReport(i) PROVE ContentInv'
    BY <2>1, SameContent DEF LoseReport, tx, rx, reception
  <2> QED
    BY <1>11, <2>1, LosePduContent
<1>12. CASE UNCHANGED vars
  BY <1>12, SameContent DEF vars, tx, rx, reception, link
<1> QED
  BY <1>1, <1>2, <1>3, <1>4, <1>5, <1>6, <1>7, <1>8, <1>9, <1>10, <1>11, <1>12 DEF Next

LEMMA ContentInit == ASSUME AmInit PROVE ContentInv
<1>1. /\ taken = 0 /\ vt_s = 0 /\ tx_window = <<>> /\ vr_r = 0 /\ rx_window = <<>> /\ rx_segments = <<>>
      /\ delivered = <<>> /\ rx_sdu = <<>> /\ air = <<>>
  BY DEF AmInit, TxInit, RxInit
<1>2. Linked(tx_window, vt_s, taken) /\ OnAir(air, tx_window) /\ Arrived(rx_window, tx_window)
      /\ Pieced(rx_segments, Wanted, tx_window)
  BY <1>1 DEF Linked, OnAir, Arrived, Pieced
<1>3. From(vr_r) = 0
  BY <1>1 DEF From, FromOf
<1>4. 0 \div SduUnits = 0
  <2> DEFINE d == 0 \div SduUnits
  <2>1. d \in Nat /\ d * SduUnits <= 0 /\ SduUnits \in Nat /\ SduUnits > 0
    <3>1. 0 \in Nat
      OBVIOUS
    <3> QED
      BY <3>1, WholeSdus
  <2> HIDE DEF d
  <2>2. 0 < d <=> 0 * SduUnits < d * SduUnits
    BY <2>1, TimesOrder
  <2>3. d * SduUnits \in Nat
    BY <2>1
  <2> QED
    BY <2>1, <2>2, <2>3 DEF d
<1>5. Got(delivered, rx_sdu, 0)
  <2>1. 0 * SduUnits = 0
    BY Products
  <2>2. <<>> = [k \in 1 .. 0 |-> Sdu(k - 1)] /\ <<>> = Units(0, 0)
    BY DEF Units
  <2> QED
    BY <1>1, <1>4, <2>1, <2>2 DEF Got
<1> QED
  BY <1>2, <1>3, <1>5 DEF ContentInv

LEMMA InUnits ==
    ASSUME NEW a \in Nat, NEW b \in Nat, NEW u \in Nat, a <= u, u < b PROVE u \in Range(Units(a, b))
<1> DEFINE s == Units(a, b)
           i == u - a + 1
<1>1. i \in 1 .. b - a /\ a + i - 1 = u /\ a <= b
  OBVIOUS
<1>2. DOMAIN s = 1 .. b - a /\ \A k \in 1 .. b - a : s[k] = a + k - 1
  BY DEF Units
<1> HIDE DEF s, i
<1>3. i \in DOMAIN s /\ s[i] = u
  BY <1>1, <1>2
<1>4. u \in Range(s)
  BY <1>3 DEF Range
<1> QED
  BY <1>4 DEF s

\* What was let go of comes before what the receiving side waits for.
LEMMA ReleasedOf ==
    ASSUME Types, WindowInv, ContentInv PROVE ReleasedReceived
<1> DEFINE c == From(vr_r)
           k == c \div SduUnits
<1>1. /\ SendWindow /\ Linked(tx_window, vt_s, taken) /\ vr_r \in SN /\ At(vr_r) <= At(vt_s)
      /\ c \in Nat
  <2>1. /\ SendWindow /\ ReceiveWindow /\ Linked(tx_window, vt_s, taken)
        /\ vr_r \in SN /\ At(vr_r) \in Nat /\ At(vr_h) \in Nat /\ At(vt_s) \in Nat
        /\ At(vr_r) <= At(vr_h) /\ At(vr_h) <= At(vt_s)
    BY Edges DEF WindowInv, ContentInv
  <2>2. At(vr_r) <= At(vt_s)
    BY <2>1
  <2> QED
    BY <2>1, <2>2, FromType
<1>2. Got(delivered, rx_sdu, c)
  BY DEF ContentInv
<1> SUFFICES ASSUME NEW u \in Released PROVE u \in PeerHas
  BY DEF ReleasedReceived
<1>3. /\ u \in Nat /\ u < taken /\ taken \in Nat
      /\ \A sn \in DOMAIN tx_window : \A v \in Range(tx_window[sn]) : u < v
  BY Products DEF Released, Types, TxTypes
<1>4. u < c
  <2>1. CASE vr_r = vt_s
    <3>1. c = taken
      BY <2>1 DEF From, FromOf
    <3> QED
      BY <1>3, <3>1
  <2>2. CASE vr_r \in DOMAIN tx_window
    <3> DEFINE to == From(Shift(vr_r, 1))
    <3>1. c \in Nat /\ to \in Nat /\ c < to /\ tx_window[vr_r] = Units(c, to)
      BY <1>1, <2>2, Zenon DEF Linked, From
    <3> HIDE DEF to, c
    <3>2. c \in Range(Units(c, to))
      BY <3>1, InUnits
    <3> QED
      BY <1>3, <2>2, <3>1, <3>2
  <2> QED
    BY <1>1, <2>1, <2>2, UpToEdge
<1>5. /\ k \in Nat /\ k * SduUnits \in Nat /\ k * SduUnits <= c /\ SduUnits \in Nat /\ SduUnits > 0
  BY <1>1, WholeSdus
<1>6. delivered = [x \in 1 .. k |-> Sdu(x - 1)] /\ rx_sdu = Units(k * SduUnits, c)
  BY <1>2 DEF Got
<1> HIDE DEF c, k
<1>7. CASE k * SduUnits <= u
  <2> DEFINE a == k * SduUnits
  <2>1. a \in Nat /\ a <= u
    BY <1>5, <1>7
  <2>2. rx_sdu = Units(a, c)
    BY <1>6
  <2> HIDE DEF a
  <2>3. u \in Range(rx_sdu)
    BY <1>1, <1>3, <1>4, <2>1, <2>2, InUnits
  <2> QED
    BY <2>3 DEF PeerHas
<1>8. CASE ~ k * SduUnits <= u
  <2> DEFINE q == u \div SduUnits
             a == q * SduUnits
             b == (q + 1) * SduUnits
  <2>1. q \in Nat /\ a \in Nat /\ a <= u /\ u < a + SduUnits /\ b = a + SduUnits
    BY <1>3, WholeSdus
  <2>2. u \in Range(Sdu(q))
    <3>1. Sdu(q) = Units(a, b)
      BY Zenon DEF Sdu
    <3>2. b \in Nat /\ u < b
      BY <1>5, <2>1
    <3> HIDE DEF a, b
    <3> QED
      BY <1>3, <2>1, <3>1, <3>2, InUnits
  <2>3. q < k
    <3>1. a < k * SduUnits
      BY <1>3, <1>5, <1>8, <2>1
    <3> HIDE DEF q
    <3>2. q < k <=> q * SduUnits < k * SduUnits
      BY <1>5, <2>1, TimesOrder
    <3> QED
      BY <3>1, <3>2
  <2> HIDE DEF q
  <2>4. PICK x \in 1 .. k : x = q + 1 /\ x - 1 = q
    BY <1>5, <2>1, <2>3
  <2>5. x \in DOMAIN delivered /\ delivered[x] = Sdu(q)
    BY <1>6, <2>4, Zenon
  <2>6. u \in Payloads(delivered)
    BY <2>2, <2>5, Zenon DEF Payloads
  <2> QED
    BY <2>6 DEF PeerHas
<1> QED
  BY <1>7, <1>8

\* What acknowledgements let the sending side forget, PDCP has or the receiving side
\* still keeps (handle_control_pdu erases from tx_window): an acknowledged SDU is never
\* needed again, whatever was lost, overtaken, or sent again in segments.
THEOREM AcknowledgedIsReceived ==
    ASSUME Spare \subseteq Nat, ReportsOvertake = FALSE PROVE SafetySpec => []ReleasedReceived
<1>1. AmInit => Types /\ WindowInv /\ ContentInv
  BY TypesInit, WindowInit, ContentInit
<1>2. Types /\ WindowInv /\ ContentInv /\ [Next]_vars => (Types /\ WindowInv /\ ContentInv)'
  BY TypesStep, WindowStep, ContentStep
<1>3. Types /\ WindowInv /\ ContentInv => ReleasedReceived
  BY ReleasedOf
<1> QED
  BY <1>1, <1>2, <1>3, PTL DEF SafetySpec

-----------------------------------------------------------------------------
(* What comes out, in order                                                *)

\* A PDU that arrives hands PDCP no more than SDUs that were written.
LEMMA ArrivalDelivers ==
    ASSUME Types, WindowInv, ContentInv, NEW i \in {1, 2}, PduArrives(i), Types', WindowInv', ContentInv'
    PROVE  [Link!Next]_<<written, delivered>>
<1> DEFINE c == From(vr_r)
           e == From(vr_r)'
           n == c \div SduUnits
           m == e \div SduUnits
<1>1. UNCHANGED <<written, taken, vt_a, vt_s, tx_window>> /\ c <= e
  BY PduArrivesContent DEF PduArrives, tx
<1>2. /\ SendWindow /\ ReceiveWindow /\ Linked(tx_window, vt_s, taken)
      /\ At(vr_r) \in Nat /\ At(vt_s) \in Nat /\ At(vr_h) \in Nat
      /\ At(vr_r) <= At(vr_h) /\ At(vr_h) <= At(vt_s) /\ vr_r \in SN
  BY Edges DEF WindowInv, ContentInv
<1>3. vr_r' \in SN /\ vr_h' \in SN /\ At(vr_r') <= At(vr_h') /\ At(vr_h') <= At(vt_s)
  BY <1>1 DEF Types, RxTypes, WindowInv, ReceiveWindow, At
<1>4. At(vr_r') \in Nat /\ At(vr_h') \in Nat
  BY <1>3, AtType
<1>5. At(vr_r) <= At(vt_s) /\ At(vr_r') <= At(vt_s)
  BY <1>2, <1>3, <1>4
<1>6. c \in Nat /\ From(vr_r') \in Nat /\ From(vr_r') <= taken /\ taken \in Nat
  BY <1>2, <1>3, <1>5, FromType
<1>7. e = From(vr_r')
  BY <1>1 DEF From
<1>8. Got(delivered, rx_sdu, c) /\ Got(delivered', rx_sdu', e)
  BY DEF ContentInv
<1> HIDE DEF c, e
<1>9. c \in Nat /\ e \in Nat /\ c <= e /\ e <= taken
  BY <1>1, <1>6, <1>7
<1>10. delivered = [k \in 1 .. n |-> Sdu(k - 1)] /\ delivered' = [k \in 1 .. m |-> Sdu(k - 1)]
  BY <1>8 DEF Got
<1>11. /\ SduUnits \in Nat /\ SduUnits > 0 /\ n \in Nat /\ m \in Nat
       /\ n * SduUnits \in Nat /\ m * SduUnits \in Nat /\ m * SduUnits <= e
  BY <1>9, WholeSdus
<1>12. n <= m
  BY <1>9, <1>11, DivMono
<1>13. written \in Nat /\ taken <= written * SduUnits
  BY DEF Types, TxTypes
<1> HIDE DEF n, m
<1>14. m <= written
  <2>1. written * SduUnits \in Nat /\ m * SduUnits <= written * SduUnits
    BY <1>6, <1>9, <1>11, <1>13
  <2> QED
    BY <1>11, <1>13, <2>1, TimesOrder
<1>15. Len(delivered) = n
  BY <1>10, <1>11
<1>16. CASE n = m
  BY <1>1, <1>10, <1>16
<1>17. CASE n # m
  <2>1. m \in Len(delivered) + 1 .. written
    BY <1>11, <1>12, <1>13, <1>14, <1>15, <1>17
  <2>2. Link!Deliver
    BY <1>1, <1>10, <2>1 DEF Link!Deliver
  <2> QED
    BY <2>2 DEF Link!Next
<1> QED
  BY <1>16, <1>17

LEMMA OutStep ==
    ASSUME Types, WindowInv, ContentInv, [Next]_vars, Types', WindowInv', ContentInv'
    PROVE  [Link!Next]_<<written, delivered>>
<1>1. CASE PdcpWrites
  BY <1>1 DEF PdcpWrites, WriteSdu, rx, reception, Link!Next, Link!Give
<1>2. CASE \E grant \in Grants : Grant(grant)
  <2>1. PICK grant \in Grants : Grant(grant)
    BY <1>2
  <2>2. UNCHANGED delivered /\ (ReadPdu(grant) \/ NoPdu)
    BY <2>1 DEF Grant, rx, reception
  <2>3. ASSUME ReadPdu(grant) PROVE UNCHANGED written
    <3>1. \E queue : BuildDataPdu(grant) \/ BuildRetxPdu(queue, grant) \/ BuildSegment(queue, grant)
      BY <2>3, Zenon DEF ReadPdu
    <3> QED
      BY <3>1 DEF BuildDataPdu, BuildRetxPdu, BuildSegment
  <2> QED
    BY <2>2, <2>3 DEF NoPdu
<1>3. CASE \E i \in {1, 2} : PduArrives(i)
  BY <1>3, ArrivalDelivers
<1>4. CASE \E i \in IF ReportsOvertake THEN {1, 2} ELSE {1} : ReportArrives(i)
  BY <1>4 DEF ReportArrives, HandleControlPdu, rx, reception
<1>5. CASE PeerReports
  BY <1>5 DEF PeerReports, MakeReport, SendReport, tx, reception
<1>6. CASE PollStep \/ PollExpiry
  BY <1>6 DEF PollStep, PollTimerStep, PollExpiry, PollTimerExpired, rx, reception
<1>7. CASE PeerStep \/ PeerExpiry \/ PeerProhibit
  BY <1>7 DEF PeerStep, ReorderingStep, PeerExpiry, ReorderingExpired, PeerProhibit, ProhibitExpired, tx, reception
<1>8. CASE \E i \in 1 .. MaxAir : LosePdu(i) \/ LoseReport(i)
  BY <1>8 DEF LosePdu, LoseReport, tx, rx, reception
<1>9. CASE UNCHANGED vars
  BY <1>9 DEF vars, tx, rx, reception
<1> QED
  BY <1>1, <1>2, <1>3, <1>4, <1>5, <1>6, <1>7, <1>8, <1>9 DEF Next

\* The two sides together implement the reliable link (ReliableLink) between write_sdu
\* and PDCP's write_pdu: SDUs come out complete, once each and in the order they went
\* in, however many are lost, overtaken, reported missing, sent again or cut in segments.
THEOREM ComesOutInOrder ==
    ASSUME Spare \subseteq Nat, ReportsOvertake = FALSE PROVE SafetySpec => InOrder
<1>1. AmInit => Types /\ WindowInv /\ ContentInv
  BY TypesInit, WindowInit, ContentInit
<1>2. Types /\ WindowInv /\ ContentInv /\ [Next]_vars => (Types /\ WindowInv /\ ContentInv)'
  BY TypesStep, WindowStep, ContentStep
<1>3. AmInit => Link!Init
  BY DEF AmInit, TxInit, RxInit, Link!Init
<1>4. /\ Types /\ WindowInv /\ ContentInv /\ [Next]_vars
      /\ (Types /\ WindowInv /\ ContentInv)'
      => [Link!Next]_<<written, delivered>>
  BY OutStep
<1> QED
  BY <1>1, <1>2, <1>3, <1>4, PTL DEF SafetySpec, InOrder
=============================================================================
