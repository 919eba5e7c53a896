------------------------------- MODULE RlcUmProofs -------------------------------
(***************************************************************************)
(* Proofs about a bearer in unacknowledged mode, for every number of       *)
(* sequence numbers, whatever HARQ loses and however often the timer       *)
(* expires.                                                                *)
(*                                                                         *)
(* UmInv is the inductive invariant of UmTypeOK.  What the loops of        *)
(* reassemble_rx_sdus leave needs more than types: they end because no     *)
(* number in the window is before the next one to reassemble (Tight).      *)
(* GapIsTimed is inductive with it.                                        *)
(*                                                                         *)
(* Content is the invariant of IntactInOrder: it counts the PDUs that were *)
(* sent and says which of them are under way, wait or have been copied,    *)
(* and that what is begun is the start of the SDU that the copying has got *)
(* to.  Calm says that nothing is missing while nothing disturbs, which is *)
(* CompleteIfUndisturbed.                                                  *)
(***************************************************************************)
EXTENDS RlcUm, Arithmetic, SequenceTheorems, TLAPS

-----------------------------------------------------------------------------
(* Loops: what a pass turns into what, MOD passes do                       *)

\* g[n] is what there is after n passes, T[n] what there may be.
Passes(g, T) ==
    \A n \in 1 .. MOD :
        g[n - 1] \subseteq T[n - 1] /\ g[n - 1] # {} => g[n] \subseteq T[n] /\ g[n] # {}

LEMMA PassesTo ==
    ASSUME NEW g, NEW T, NEW a, g[0] = {a}, a \in T[0], Passes(g, T)
    PROVE  \A n \in 0 .. MOD : g[n] \subseteq T[n] /\ g[n] # {}
<1> DEFINE S == {n \in 0 .. MOD : g[n] \subseteq T[n] /\ g[n] # {}}
<1>1. MOD \in Nat
  BY StreamAssumption
<1>2. 0 \in S
  BY <1>1
<1>3. ASSUME NEW n \in 0 .. MOD - 1, n \in S PROVE n + 1 \in S
  <2>1. n + 1 \in 1 .. MOD /\ n + 1 - 1 = n /\ n + 1 \in 0 .. MOD
    BY <1>1
  <2>2. g[n] \subseteq T[n] /\ g[n] # {} => g[n + 1] \subseteq T[n + 1] /\ g[n + 1] # {}
    BY <2>1 DEF Passes
  <2> QED
    BY <1>3, <2>1, <2>2, Zenon
<1> HIDE DEF S
<1>4. \A n \in 0 .. MOD : n \in S
  BY <1>1, <1>2, <1>3, UpTo
<1> QED
  BY <1>4 DEF S

LEMMA LastPass ==
    ASSUME NEW g, NEW T, NEW a, g[0] = {a}, a \in T[0], Passes(g, T)
    PROVE  (CHOOSE b \in g[MOD] : TRUE) \in T[MOD]
<1>1. MOD \in 0 .. MOD
  BY StreamAssumption
<1>2. g[MOD] \subseteq T[MOD] /\ g[MOD] # {}
  BY <1>1, PassesTo, Zenon
<1> QED
  BY <1>2

\* A function applied again and again.
After(F, a, g) == g = [n \in 0 .. MOD |-> IF n = 0 THEN {a} ELSE {F[b] : b \in g[n - 1]}]

LEMMA AfterExists ==
    ASSUME NEW F, NEW a
    PROVE  \E g : After(F, a, g)
<1> DEFINE S == {k \in 0 .. MOD :
                   \E g : g = [n \in 0 .. k |-> IF n = 0 THEN {a} ELSE {F[b] : b \in g[n - 1]}]}
<1>1. MOD \in Nat
  BY StreamAssumption
<1>2. 0 \in S
  <2> DEFINE g == [n \in 0 .. 0 |-> {a}]
  <2>1. g = [n \in 0 .. 0 |-> IF n = 0 THEN {a} ELSE {F[b] : b \in g[n - 1]}]
    OBVIOUS
  <2> HIDE DEF g
  <2> QED
    BY <1>1, <2>1
<1>3. ASSUME NEW k \in 0 .. MOD - 1, k \in S PROVE k + 1 \in S
  <2>1. PICK g : g = [n \in 0 .. k |-> IF n = 0 THEN {a} ELSE {F[b] : b \in g[n - 1]}]
    BY <1>3
  <2> DEFINE h == [n \in 0 .. k + 1 |-> IF n = k + 1 THEN {F[b] : b \in g[k]} ELSE g[n]]
  <2>2. \A n \in 0 .. k : g[n] = IF n = 0 THEN {a} ELSE {F[b] : b \in g[n - 1]}
    <3> HIDE DEF S
    <3> QED
      BY <2>1, Zenon
  <2>3. \A n \in 0 .. k : h[n] = g[n]
    OBVIOUS
  <2>4. ASSUME NEW n \in 0 .. k + 1
        PROVE  h[n] = IF n = 0 THEN {a} ELSE {F[b] : b \in h[n - 1]}
    <3>1. CASE n = k + 1
      <4>1. h[n] = {F[b] : b \in g[k]} /\ n # 0 /\ n - 1 = k /\ k \in 0 .. k
        BY <3>1
      <4>2. h[n - 1] = g[k]
        BY <4>1, <2>3
      <4> HIDE DEF h
      <4> QED
        BY <4>1, <4>2, Zenon
    <3>2. CASE n # k + 1
      <4>1. n \in 0 .. k
        BY <3>2
      <4>2. CASE n = 0
        <5> HIDE DEF h
        <5> QED
          BY <2>2, <2>3, <4>1, <4>2, Zenon
      <4>3. CASE n # 0
        <5>1. n - 1 \in 0 .. k
          BY <4>1, <4>3
        <5>2. h[n - 1] = g[n - 1]
          BY <2>3, <5>1
        <5> HIDE DEF h
        <5> QED
          BY <2>2, <2>3, <4>1, <4>3, <5>2, Zenon
      <4> QED
        BY <4>2, <4>3
    <3> QED
      BY <3>1, <3>2
  <2>5. h = [n \in 0 .. k + 1 |-> h[n]]
    BY Zenon
  <2> HIDE DEF h
  <2>6. h = [n \in 0 .. k + 1 |-> IF n = 0 THEN {a} ELSE {F[b] : b \in h[n - 1]}]
    BY <2>4, <2>5, Zenon
  <2>7. k + 1 \in 0 .. MOD
    BY <1>1
  <2> QED
    BY <2>6, <2>7, Zenon
<1>4. MOD \in S
  <2>1. MOD \in 0 .. MOD
    BY <1>1
  <2> HIDE DEF S
  <2> QED
    BY <1>1, <1>2, <1>3, <2>1, UpTo, Zenon
<1> QED
  BY <1>4, Zenon DEF After

LEMMA AfterWithin ==
    ASSUME NEW F, NEW a, NEW T, a \in T[0], \A n \in 1 .. MOD : \A b \in T[n - 1] : F[b] \in T[n]
    PROVE  \E f : /\ After(F, a, f)
                  /\ \A n \in 0 .. MOD : f[n] \subseteq T[n]
<1>1. MOD \in Nat /\ 0 \in 0 .. MOD
  BY StreamAssumption
<1>2. PICK f : After(F, a, f)
  BY AfterExists, Zenon
<1>3. \A n \in 1 .. MOD : n \in 0 .. MOD /\ n # 0
  BY <1>1
<1>4. f[0] = {a} /\ \A n \in 1 .. MOD : f[n] = {F[b] : b \in f[n - 1]}
  BY <1>1, <1>2, <1>3, Zenon DEF After
<1>5. Passes(f, T)
  <2> SUFFICES ASSUME NEW n \in 1 .. MOD, f[n - 1] \subseteq T[n - 1], f[n - 1] # {}
               PROVE  f[n] \subseteq T[n] /\ f[n] # {}
    BY Zenon DEF Passes
  <2>1. \A b \in f[n - 1] : F[b] \in T[n]
    BY Zenon
  <2> QED
    BY <1>4, <2>1
<1>6. \A n \in 0 .. MOD : f[n] \subseteq T[n]
  BY <1>4, <1>5, PassesTo, Zenon
<1> QED
  BY <1>2, <1>6, Zenon

\* The loops of this bearer: if a pass takes T[n - 1] into T[n], the loop ends in T[MOD].
LEMMA LoopCatchUp ==
    ASSUME NEW uh, NEW a, NEW T, a \in T[0],
           \A n \in 1 .. MOD : \A b \in T[n - 1] : Behind(b, uh) \in T[n]
    PROVE  CatchUp(a, uh) \in T[MOD]
<1> DEFINE D == UNION {T[n] : n \in 0 .. MOD}
           F == [b \in D |-> Behind(b, uh)]
           Made(h) == [n \in 0 .. MOD |-> IF n = 0 THEN {a} ELSE {Behind(b, uh) : b \in h[n - 1]}]
           g == CHOOSE h : h = Made(h)
<1>1. MOD \in Nat /\ 0 \in 0 .. MOD
  BY StreamAssumption
<1>2. \A n \in 1 .. MOD : n \in 0 .. MOD /\ n # 0
  BY <1>1
<1>3. \A n \in 0 .. MOD : n # 0 => n - 1 \in 0 .. MOD
  BY <1>1
<1>4. ASSUME NEW n \in 0 .. MOD, NEW b \in T[n] PROVE F[b] = Behind(b, uh)
  BY Zenon
<1>5. \A n \in 1 .. MOD : \A b \in T[n - 1] : F[b] \in T[n]
  <2> HIDE DEF F
  <2> QED
    BY <1>2, <1>3, <1>4, Zenon
<1>6. PICK f : After(F, a, f) /\ \A n \in 0 .. MOD : f[n] \subseteq T[n]
  <2> HIDE DEF F
  <2> QED
    BY <1>5, AfterWithin, Zenon
<1>7. f = Made(f)
  <2>1. ASSUME NEW n \in 0 .. MOD, n # 0
        PROVE  {F[b] : b \in f[n - 1]} = {Behind(b, uh) : b \in f[n - 1]}
    <3>1. \A b \in f[n - 1] : F[b] = Behind(b, uh)
      BY <1>3, <1>4, <1>6, <2>1, Zenon
    <3> HIDE DEF F
    <3> QED
      BY <3>1, Zenon
  <2> HIDE DEF F
  <2> QED
    BY <1>6, <2>1, Zenon DEF After
<1>8. g = Made(g)
  <2> HIDE DEF Made
  <2> QED
    BY <1>7, Zenon
<1>9. g[0] = {a} /\ \A n \in 1 .. MOD : g[n] = {Behind(b, uh) : b \in g[n - 1]}
  <2> HIDE DEF g
  <2> QED
    BY <1>1, <1>2, <1>8, Zenon
<1>10. CatchUp(a, uh) = CHOOSE b \in g[MOD] : TRUE
  BY DEF CatchUp, Loop
<1> HIDE DEF g
<1>11. Passes(g, T)
  <2> SUFFICES ASSUME NEW n \in 1 .. MOD, g[n - 1] \subseteq T[n - 1], g[n - 1] # {}
               PROVE  g[n] \subseteq T[n] /\ g[n] # {}
    BY Zenon DEF Passes
  <2>1. \A b \in g[n - 1] : Behind(b, uh) \in T[n]
    BY Zenon
  <2> QED
    BY <1>9, <2>1
<1>12. (CHOOSE b \in g[MOD] : TRUE) \in T[MOD]
  BY <1>9, <1>11, LastPass, Zenon
<1> QED
  BY <1>10, <1>12, Zenon

\* The second loop.
LEMMA LoopOnward ==
    ASSUME NEW a, NEW T, a \in T[0],
           \A n \in 1 .. MOD : \A b \in T[n - 1] : Onward(b) \in T[n]
    PROVE  Loop(Onward, a) \in T[MOD]
<1> DEFINE D == UNION {T[n] : n \in 0 .. MOD}
           F == [b \in D |-> Onward(b)]
           Made(h) == [n \in 0 .. MOD |-> IF n = 0 THEN {a} ELSE {Onward(b) : b \in h[n - 1]}]
           g == CHOOSE h : h = Made(h)
<1>1. MOD \in Nat /\ 0 \in 0 .. MOD
  BY StreamAssumption
<1>2. \A n \in 1 .. MOD : n \in 0 .. MOD /\ n # 0
  BY <1>1
<1>3. \A n \in 0 .. MOD : n # 0 => n - 1 \in 0 .. MOD
  BY <1>1
<1>4. ASSUME NEW n \in 0 .. MOD, NEW b \in T[n] PROVE F[b] = Onward(b)
  BY Zenon
<1>5. \A n \in 1 .. MOD : \A b \in T[n - 1] : F[b] \in T[n]
  <2> HIDE DEF F
  <2> QED
    BY <1>2, <1>3, <1>4, Zenon
<1>6. PICK f : After(F, a, f) /\ \A n \in 0 .. MOD : f[n] \subseteq T[n]
  <2> HIDE DEF F
  <2> QED
    BY <1>5, AfterWithin, Zenon
<1>7. f = Made(f)
  <2>1. ASSUME NEW n \in 0 .. MOD, n # 0
        PROVE  {F[b] : b \in f[n - 1]} = {Onward(b) : b \in f[n - 1]}
    <3>1. \A b \in f[n - 1] : F[b] = Onward(b)
      BY <1>3, <1>4, <1>6, <2>1, Zenon
    <3> HIDE DEF F
    <3> QED
      BY <3>1, Zenon
  <2> HIDE DEF F
  <2> QED
    BY <1>6, <2>1, Zenon DEF After
<1>8. g = Made(g)
  <2> HIDE DEF Made
  <2> QED
    BY <1>7, Zenon
<1>9. g[0] = {a} /\ \A n \in 1 .. MOD : g[n] = {Onward(b) : b \in g[n - 1]}
  <2> HIDE DEF g
  <2> QED
    BY <1>1, <1>2, <1>8, Zenon
<1>10. Loop(Onward, a) = CHOOSE b \in g[MOD] : TRUE
  BY DEF Loop
<1> HIDE DEF g
<1>11. Passes(g, T)
  <2> SUFFICES ASSUME NEW n \in 1 .. MOD, g[n - 1] \subseteq T[n - 1], g[n - 1] # {}
               PROVE  g[n] \subseteq T[n] /\ g[n] # {}
    BY Zenon DEF Passes
  <2>1. \A b \in g[n - 1] : Onward(b) \in T[n]
    BY Zenon
  <2> QED
    BY <1>9, <2>1
<1>12. (CHOOSE b \in g[MOD] : TRUE) \in T[MOD]
  BY <1>9, <1>11, LastPass, Zenon
<1> QED
  BY <1>10, <1>12, Zenon

\* The loop of the timer.
LEMMA LoopSkip ==
    ASSUME NEW a, NEW T, a \in T[0],
           \A n \in 1 .. MOD : \A b \in T[n - 1] : Skip(b) \in T[n]
    PROVE  Loop(Skip, a) \in T[MOD]
<1> DEFINE D == UNION {T[n] : n \in 0 .. MOD}
           F == [b \in D |-> Skip(b)]
           Made(h) == [n \in 0 .. MOD |-> IF n = 0 THEN {a} ELSE {Skip(b) : b \in h[n - 1]}]
           g == CHOOSE h : h = Made(h)
<1>1. MOD \in Nat /\ 0 \in 0 .. MOD
  BY StreamAssumption
<1>2. \A n \in 1 .. MOD : n \in 0 .. MOD /\ n # 0
  BY <1>1
<1>3. \A n \in 0 .. MOD : n # 0 => n - 1 \in 0 .. MOD
  BY <1>1
<1>4. ASSUME NEW n \in 0 .. MOD, NEW b \in T[n] PROVE F[b] = Skip(b)
  BY Zenon
<1>5. \A n \in 1 .. MOD : \A b \in T[n - 1] : F[b] \in T[n]
  <2> HIDE DEF F
  <2> QED
    BY <1>2, <1>3, <1>4, Zenon
<1>6. PICK f : After(F, a, f) /\ \A n \in 0 .. MOD : f[n] \subseteq T[n]
  <2> HIDE DEF F
  <2> QED
    BY <1>5, AfterWithin, Zenon
<1>7. f = Made(f)
  <2>1. ASSUME NEW n \in 0 .. MOD, n # 0
        PROVE  {F[b] : b \in f[n - 1]} = {Skip(b) : b \in f[n - 1]}
    <3>1. \A b \in f[n - 1] : F[b] = Skip(b)
      BY <1>3, <1>4, <1>6, <2>1, Zenon
    <3> HIDE DEF F
    <3> QED
      BY <3>1, Zenon
  <2> HIDE DEF F
  <2> QED
    BY <1>6, <2>1, Zenon DEF After
<1>8. g = Made(g)
  <2> HIDE DEF Made
  <2> QED
    BY <1>7, Zenon
<1>9. g[0] = {a} /\ \A n \in 1 .. MOD : g[n] = {Skip(b) : b \in g[n - 1]}
  <2> HIDE DEF g
  <2> QED
    BY <1>1, <1>2, <1>8, Zenon
<1>10. Loop(Skip, a) = CHOOSE b \in g[MOD] : TRUE
  BY DEF Loop
<1> HIDE DEF g
<1>11. Passes(g, T)
  <2> SUFFICES ASSUME NEW n \in 1 .. MOD, g[n - 1] \subseteq T[n - 1], g[n - 1] # {}
               PROVE  g[n] \subseteq T[n] /\ g[n] # {}
    BY Zenon DEF Passes
  <2>1. \A b \in g[n - 1] : Skip(b) \in T[n]
    BY Zenon
  <2> QED
    BY <1>9, <2>1
<1>12. (CHOOSE b \in g[MOD] : TRUE) \in T[MOD]
  BY <1>9, <1>11, LastPass, Zenon
<1> QED
  BY <1>10, <1>12, Zenon

-----------------------------------------------------------------------------
(* Type correctness of what a PDU is and of what reassembly works on        *)

\* What can be there when n units of the stream are in PDUs.
Pdus(n) == [sn : SN, start : BOOLEAN, end : BOOLEAN, late : BOOLEAN,
            pieces : Seq(Seq(0 .. n - 1)) \ {<<>>}]
Windows(n) == UNION {[D -> Pdus(n)] : D \in SUBSET SN}
Assemblies(n) == [ur : SN, last : SN, lost : BOOLEAN, win : Windows(n),
                  sdu : Seq(0 .. n - 1), out : Seq(Seq(0 .. n - 1))]

LEMMA Sizes == /\ MOD \in Nat /\ MOD > 0 /\ rx_window_size \in Nat
               /\ rx_window_size = 0 \/ MOD = 2 * rx_window_size
BY StreamAssumption, UmAssumption

LEMMA ShiftType == ASSUME NEW sn \in Int, NEW k \in Int PROVE Shift(sn, k) \in SN
<1>1. (sn + k) % MOD \in 0 .. MOD - 1
  BY StreamAssumption, ModDef
<1> QED
  BY <1>1 DEF Shift, SN

LEMMA NextType == ASSUME NEW sn \in SN PROVE Shift(sn, 1) \in SN
<1>1. sn \in Int
  BY Sizes DEF SN
<1> QED
  BY <1>1, ShiftType

LEMMA WindowOf ==
    ASSUME NEW n, NEW win \in Windows(n)
    PROVE  /\ DOMAIN win \subseteq SN /\ win = [sn \in DOMAIN win |-> win[sn]]
           /\ \A sn \in DOMAIN win : win[sn] \in Pdus(n)
<1>1. PICK D \in SUBSET SN : win \in [D -> Pdus(n)]
  BY Zenon DEF Windows
<1> QED
  BY <1>1

LEMMA IsWindow ==
    ASSUME NEW n, NEW D \in SUBSET SN, NEW win \in [D -> Pdus(n)] PROVE win \in Windows(n)
BY Zenon DEF Windows

LEMMA KeepWindow ==
    ASSUME NEW n, NEW win \in Windows(n), NEW S
    PROVE  Keep(win, S) \in Windows(n) /\ DOMAIN Keep(win, S) = DOMAIN win \intersect S
<1> DEFINE D == DOMAIN win \intersect S
           f == [sn \in D |-> win[sn]]
<1>1. D \in SUBSET SN /\ \A sn \in D : win[sn] \in Pdus(n)
  BY WindowOf, Zenon
<1>2. f \in [D -> Pdus(n)]
  BY <1>1, Zenon
<1>3. f \in Windows(n)
  BY <1>1, <1>2, IsWindow, Zenon
<1>4. DOMAIN f = D
  OBVIOUS
<1> QED
  BY <1>3, <1>4, Zenon DEF Keep

LEMMA PutWindow ==
    ASSUME NEW n, NEW win \in Windows(n), NEW sn \in SN, NEW pdu \in Pdus(n)
    PROVE  Put(win, sn, pdu) \in Windows(n) /\ DOMAIN Put(win, sn, pdu) = DOMAIN win \union {sn}
<1> DEFINE D == DOMAIN win \union {sn}
           f == [x \in D |-> IF x = sn THEN pdu ELSE win[x]]
<1>1. D \in SUBSET SN /\ \A x \in DOMAIN win : win[x] \in Pdus(n)
  BY WindowOf
<1>2. \A x \in D : (IF x = sn THEN pdu ELSE win[x]) \in Pdus(n)
  BY <1>1
<1>3. f \in [D -> Pdus(n)]
  BY <1>2, Zenon
<1>4. f \in Windows(n)
  BY <1>1, <1>3, IsWindow, Zenon
<1>5. DOMAIN f = D
  OBVIOUS
<1> QED
  BY <1>4, <1>5, Zenon DEF Put

LEMMA EmptyWindow == ASSUME NEW n, NEW win \in Windows(n) PROVE win = <<>> <=> DOMAIN win = {}
<1>1. ASSUME win = <<>> PROVE DOMAIN win = {}
  BY <1>1
<1>2. ASSUME DOMAIN win = {} PROVE win = <<>>
  <2>1. win = [sn \in {} |-> win[sn]]
    BY <1>2, WindowOf
  <2>2. <<>> = [sn \in {} |-> win[sn]]
    OBVIOUS
  <2> QED
    BY <2>1, <2>2
<1> QED
  BY <1>1, <1>2

\* What there can be only grows.
LEMMA Grows ==
    ASSUME NEW n \in Nat, NEW m \in Nat, n <= m
    PROVE  Pdus(n) \subseteq Pdus(m) /\ Assemblies(n) \subseteq Assemblies(m)
<1> DEFINE V == 0 .. n - 1
           W == 0 .. m - 1
<1>1. V \subseteq W
  OBVIOUS
<1> HIDE DEF V, W
<1>2. Seq(V) \subseteq Seq(W)
  BY <1>1
<1>3. Seq(Seq(V)) \subseteq Seq(Seq(W))
  BY <1>2
<1>4. Pdus(n) \subseteq Pdus(m)
  BY <1>3 DEF Pdus, V, W
<1>5. Windows(n) \subseteq Windows(m)
  <2> SUFFICES ASSUME NEW win \in Windows(n) PROVE win \in Windows(m)
    OBVIOUS
  <2>1. PICK D \in SUBSET SN : win \in [D -> Pdus(n)]
    BY Zenon DEF Windows
  <2>2. win \in [D -> Pdus(m)]
    BY <1>4, <2>1
  <2> QED
    BY <2>2, IsWindow, Zenon
<1>6. Assemblies(n) \subseteq Assemblies(m)
  BY <1>2, <1>3, <1>5 DEF Assemblies, V, W
<1> QED
  BY <1>4, <1>6

LEMMA CopyLastType ==
    ASSUME NEW n \in Nat, NEW a \in Assemblies(n), NEW pdu \in Pdus(n)
    PROVE  /\ CopyLast(a, pdu) \in Assemblies(n)
           /\ CopyLast(a, pdu).ur = a.ur /\ CopyLast(a, pdu).win = a.win
<1> DEFINE V == 0 .. n - 1
           end == Last(pdu.pieces)
<1>1. pdu.pieces \in Seq(Seq(V)) /\ pdu.pieces # <<>> /\ a.sdu \in Seq(V) /\ a.out \in Seq(Seq(V))
  BY DEF Pdus, Assemblies
<1> HIDE DEF V
<1>2. end \in Seq(V)
  BY <1>1 DEF Last
<1> HIDE DEF end
<1>3. a.sdu \o end \in Seq(V)
  BY <1>1, <1>2
<1>4. Append(a.out, a.sdu \o end) \in Seq(Seq(V))
  BY <1>1, <1>3
<1>5. <<>> \in Seq(V)
  OBVIOUS
<1> QED
  BY <1>1, <1>3, <1>4, <1>5 DEF CopyLast, Assemblies, V, end

LEMMA GiveEndedType ==
    ASSUME NEW n \in Nat, NEW a \in Assemblies(n), NEW pdu \in Pdus(n), NEW sdus \in Seq(Seq(0 .. n - 1))
    PROVE  /\ GiveEnded(a, pdu, sdus) \in Assemblies(n)
           /\ GiveEnded(a, pdu, sdus).ur = a.ur /\ GiveEnded(a, pdu, sdus).win = a.win
<1> DEFINE V == 0 .. n - 1
<1>1. a.out \in Seq(Seq(V)) /\ sdus \in Seq(Seq(V))
  BY DEF Assemblies
<1> HIDE DEF V
<1>2. a.out \o sdus \in Seq(Seq(V)) /\ <<>> \in Seq(V)
  BY <1>1
<1> QED
  BY <1>2 DEF GiveEnded, Assemblies, V

LEMMA EndedType ==
    ASSUME NEW n \in Nat, NEW a \in Assemblies(n), NEW pdu \in Pdus(n)
    PROVE  /\ Ended(a, pdu) \in Seq(Seq(0 .. n - 1))
           /\ Ended(a, pdu) # <<>> => Tail(Ended(a, pdu)) \in Seq(Seq(0 .. n - 1))
           /\ <<>> \in Seq(Seq(0 .. n - 1))
<1> DEFINE V == 0 .. n - 1
           p == pdu.pieces
           piece(i) == IF i = 1 THEN a.sdu \o p[1] ELSE p[i]
           k == Len(p) - 1
<1>1. p \in Seq(Seq(V)) /\ p # <<>> /\ a.sdu \in Seq(V)
  BY DEF Pdus, Assemblies
<1> HIDE DEF V, p
<1>2. k \in Nat
  BY <1>1
<1>3. ASSUME NEW i \in 1 .. k PROVE piece(i) \in Seq(V)
  <2>1. p[1] \in Seq(V) /\ p[i] \in Seq(V)
    BY <1>1
  <2>2. a.sdu \o p[1] \in Seq(V)
    BY <1>1, <2>1
  <2> QED
    BY <2>1, <2>2
<1>4. Ended(a, pdu) = [i \in 1 .. k |-> piece(i)]
  BY DEF Ended, p
<1> HIDE DEF k, piece
<1>5. [i \in 1 .. k |-> piece(i)] \in Seq(Seq(V))
  BY <1>2, <1>3
<1>6. Ended(a, pdu) \in Seq(Seq(V))
  BY <1>4, <1>5
<1>7. Ended(a, pdu) # <<>> => Tail(Ended(a, pdu)) \in Seq(Seq(V))
  BY <1>6
<1> QED
  BY <1>6, <1>7 DEF V

LEMMA CopyBehindType ==
    ASSUME NEW n \in Nat, NEW a \in Assemblies(n), NEW pdu \in Pdus(n)
    PROVE  /\ CopyBehind(a, pdu) \in Assemblies(n)
           /\ CopyBehind(a, pdu).ur = a.ur /\ CopyBehind(a, pdu).win = a.win
<1> DEFINE ended == Ended(a, pdu)
           sdus  == IF Shift(a.last, 1) # a.ur THEN <<>>
                    ELSE IF a.lost /\ ~pdu.start /\ ended # <<>> THEN Tail(ended) ELSE ended
           b     == GiveEnded(a, pdu, sdus)
<1>1. sdus \in Seq(Seq(0 .. n - 1))
  BY EndedType, Zenon
<1> HIDE DEF sdus
<1>2. b \in Assemblies(n) /\ b.ur = a.ur /\ b.win = a.win
  BY <1>1, GiveEndedType
<1> HIDE DEF b
<1>3. CopyLast(b, pdu) \in Assemblies(n) /\ CopyLast(b, pdu).ur = a.ur /\ CopyLast(b, pdu).win = a.win
  BY <1>2, CopyLastType
<1>4. CopyBehind(a, pdu) \in {a, b, CopyLast(b, pdu)}
  BY DEF CopyBehind, sdus, b
<1> QED
  BY <1>2, <1>3, <1>4

LEMMA CopyNextType ==
    ASSUME NEW n \in Nat, NEW a0 \in Assemblies(n), NEW pdu \in Pdus(n)
    PROVE  /\ CopyNext(a0, pdu) \in Assemblies(n)
           /\ CopyNext(a0, pdu).ur = a0.ur /\ CopyNext(a0, pdu).win = a0.win
<1> DEFINE a     == IF belongs(a0) THEN a0 ELSE [a0 EXCEPT !.lost = FALSE, !.sdu = <<>>]
           ended == Ended(a, pdu)
           headless == a.sdu = <<>> /\ ~pdu.start
           sdus  == IF headless /\ ended # <<>> THEN Tail(ended) ELSE ended
           b     == GiveEnded(a, pdu, sdus)
<1>1. a \in Assemblies(n) /\ a.ur = a0.ur /\ a.win = a0.win
  <2>1. <<>> \in Seq(0 .. n - 1)
    OBVIOUS
  <2> QED
    BY <2>1 DEF Assemblies
<1> HIDE DEF a
<1>2. sdus \in Seq(Seq(0 .. n - 1))
  BY <1>1, EndedType, Zenon
<1> HIDE DEF sdus
<1>3. b \in Assemblies(n) /\ b.ur = a0.ur /\ b.win = a0.win
  BY <1>1, <1>2, GiveEndedType
<1> HIDE DEF b
<1>4. CopyLast(b, pdu) \in Assemblies(n) /\ CopyLast(b, pdu).ur = a0.ur /\ CopyLast(b, pdu).win = a0.win
  BY <1>3, CopyLastType
<1>5. CopyNext(a0, pdu) \in {a, CopyLast(b, pdu)}
  BY DEF CopyNext, sdus, b, a
<1> QED
  BY <1>1, <1>4, <1>5

-----------------------------------------------------------------------------
(* The order of the numbers around vr_uh.  Counted from it the numbers are *)
(* 0 .. MOD - 1, the ones in the reordering window being the upper half.   *)

Far(x, uh) == (x - uh) % MOD

LEMMA FarType == ASSUME NEW x \in Int, NEW uh \in Int PROVE Far(x, uh) \in 0 .. MOD - 1
<1>1. x - uh \in Int
  OBVIOUS
<1> QED
  BY <1>1, Sizes, ModDef, Zenon DEF Far

\* RX_MOD_BASE swaps the halves.
LEMMA BaseIs ==
    ASSUME NEW x \in Int, NEW uh \in Int
    PROVE  RX_MOD_BASE(x, uh) = IF Far(x, uh) >= rx_window_size
                                THEN Far(x, uh) - rx_window_size ELSE Far(x, uh) + rx_window_size
<1> DEFINE k == (x - uh) \div MOD
           c == (x - uh) % MOD
           w == rx_window_size
           d == x - uh - w
<1>1. k \in Int /\ c \in 0 .. MOD - 1 /\ x - uh = k * MOD + c
  BY Sizes, ModDef
<1>2. w \in Nat /\ MOD \in Nat /\ MOD > 0 /\ (w = 0 \/ MOD = 2 * w) /\ d \in Int
  BY Sizes
<1>3. d = k * MOD + c - w /\ k * MOD \in Int
  BY <1>1, <1>2
<1> HIDE DEF k, c, w, d
<1>4. CASE c >= w
  <2>1. c - w \in 0 .. MOD - 1 /\ d = k * MOD + (c - w)
    BY <1>1, <1>2, <1>3, <1>4
  <2>2. d % MOD = c - w
    BY <1>1, <1>2, <2>1, ModUnique
  <2> QED
    BY <1>4, <2>2 DEF RX_MOD_BASE, Far, c, w, d
<1>5. CASE ~(c >= w)
  <2>1. c + w \in 0 .. MOD - 1 /\ k - 1 \in Int /\ (k - 1) * MOD = k * MOD - MOD
    BY <1>1, <1>2, <1>5
  <2>2. d = (k - 1) * MOD + (c + w)
    BY <1>1, <1>2, <1>3, <1>5, <2>1
  <2>3. d % MOD = c + w
    BY <1>1, <1>2, <2>1, <2>2, ModUnique
  <2> QED
    BY <1>5, <2>3 DEF RX_MOD_BASE, Far, c, w, d
<1> QED
  BY <1>4, <1>5

LEMMA FarNext ==
    ASSUME NEW x \in SN, NEW uh \in SN
    PROVE  Far(Shift(x, 1), uh) = IF Far(x, uh) = MOD - 1 THEN 0 ELSE Far(x, uh) + 1
<1> DEFINE k == (x - uh) \div MOD
           c == (x - uh) % MOD
           d == x + 1 - uh
<1>1. MOD \in Nat /\ MOD > 0 /\ x \in Int /\ uh \in Int /\ -uh \in Int /\ x + 1 \in Int /\ d \in Int
  BY Sizes DEF SN
<1>2. k \in Int /\ c \in 0 .. MOD - 1 /\ x - uh = k * MOD + c
  BY <1>1, ModDef
<1>3. Far(Shift(x, 1), uh) = d % MOD
  <2>1. (((x + 1) % MOD) + (-uh)) % MOD = (x + 1 + (-uh)) % MOD
    BY <1>1, ModAdd, Zenon
  <2>2. (x + 1) % MOD \in Int
    BY <1>1, ModDef
  <2>3. ((x + 1) % MOD) + (-uh) = ((x + 1) % MOD) - uh /\ x + 1 + (-uh) = d
    BY <1>1, <2>2
  <2> QED
    BY <2>1, <2>3 DEF Far, Shift
<1>4. d = k * MOD + c + 1 /\ k * MOD \in Int
  BY <1>1, <1>2
<1> HIDE DEF k, c, d
<1>5. CASE c = MOD - 1
  <2>1. d = (k + 1) * MOD + 0 /\ k + 1 \in Int /\ 0 \in 0 .. MOD - 1
    BY <1>1, <1>2, <1>4, <1>5
  <2>2. d % MOD = 0
    BY <1>1, <2>1, ModUnique
  <2> QED
    BY <1>3, <1>5, <2>2 DEF Far, c
<1>6. CASE c # MOD - 1
  <2>1. d = k * MOD + (c + 1) /\ c + 1 \in 0 .. MOD - 1
    BY <1>1, <1>2, <1>4, <1>6
  <2>2. d % MOD = c + 1
    BY <1>1, <1>2, <2>1, ModUnique
  <2> QED
    BY <1>3, <1>6, <2>2 DEF Far, c
<1> QED
  BY <1>5, <1>6

\* No two numbers are at the same place.
LEMMA FarSame ==
    ASSUME NEW x \in SN, NEW y \in SN, NEW uh \in SN, Far(x, uh) = Far(y, uh) PROVE x = y
<1> DEFINE k == (x - uh) \div MOD
           j == (y - uh) \div MOD
           c == Far(x, uh)
<1>1. MOD \in Nat /\ MOD > 0 /\ x \in 0 .. MOD - 1 /\ y \in 0 .. MOD - 1 /\ uh \in Int
  BY Sizes DEF SN
<1>2. k \in Int /\ j \in Int /\ c \in Int /\ x - uh = k * MOD + c /\ y - uh = j * MOD + c
  BY <1>1, ModDef DEF Far
<1> HIDE DEF k, j, c
<1>3. j * MOD + x = k * MOD + y
  <2>1. j * MOD \in Int /\ k * MOD \in Int
    BY <1>1, <1>2
  <2> QED
    BY <1>1, <1>2, <2>1
<1> QED
  BY <1>1, <1>2, <1>3, ModRemainder

\* What is after sn moves down when vr_uh goes to the number after sn, the rest moves up.
LEMMA FarMoves ==
    ASSUME NEW x \in SN, NEW sn \in SN, NEW uh \in SN
    PROVE  Far(x, Shift(sn, 1)) = Far(x, uh) - Far(sn, uh) - 1
                                  + (IF Far(x, uh) > Far(sn, uh) THEN 0 ELSE MOD)
<1> DEFINE k == (x - uh) \div MOD
           c == Far(x, uh)
           j == (sn - uh) \div MOD
           d == Far(sn, uh)
           q == (sn + 1) \div MOD
           r == (sn + 1) % MOD
           m == k - j + q
           e == x - r
<1>1. MOD \in Nat /\ MOD > 0 /\ x \in Int /\ sn \in Int /\ uh \in Int
  BY Sizes DEF SN
<1>2. k \in Int /\ c \in 0 .. MOD - 1 /\ x - uh = k * MOD + c
  BY <1>1, ModDef DEF Far
<1>3. j \in Int /\ d \in 0 .. MOD - 1 /\ sn - uh = j * MOD + d
  BY <1>1, ModDef DEF Far
<1>4. q \in Int /\ r \in 0 .. MOD - 1 /\ sn + 1 = q * MOD + r
  BY <1>1, ModDef
<1>5. Far(x, Shift(sn, 1)) = e % MOD
  BY DEF Far, Shift
<1> HIDE DEF k, c, j, d, q, r
<1>6. m \in Int /\ e \in Int /\ m * MOD = k * MOD - j * MOD + q * MOD
  BY <1>1, <1>2, <1>3, <1>4
<1>7. k * MOD \in Int /\ j * MOD \in Int /\ q * MOD \in Int
  BY <1>1, <1>2, <1>3, <1>4
<1>8. e = m * MOD + (c - d - 1)
  <2>1. m * MOD \in Int
    BY <1>6, <1>1
  <2> QED
    BY <1>1, <1>2, <1>3, <1>4, <1>6, <1>7, <2>1
<1> HIDE DEF m, e
<1>9. CASE c > d
  <2>1. c - d - 1 \in 0 .. MOD - 1
    BY <1>1, <1>2, <1>3, <1>9
  <2>2. e % MOD = c - d - 1
    BY <1>1, <1>6, <1>8, <2>1, ModUnique
  <2> QED
    BY <1>2, <1>3, <1>5, <1>9, <2>2 DEF c, d
<1>10. CASE ~(c > d)
  <2>1. c - d - 1 + MOD \in 0 .. MOD - 1 /\ m - 1 \in Int /\ (m - 1) * MOD = m * MOD - MOD
    BY <1>1, <1>2, <1>3, <1>6, <1>10
  <2>2. e = (m - 1) * MOD + (c - d - 1 + MOD)
    <3>1. m * MOD \in Int
      BY <1>6, <1>1
    <3> QED
      BY <1>1, <1>2, <1>3, <1>8, <2>1, <3>1
  <2>3. e % MOD = c - d - 1 + MOD
    BY <1>1, <1>6, <2>1, <2>2, ModUnique
  <2> QED
    BY <1>1, <1>2, <1>3, <1>5, <1>10, <2>3 DEF c, d
<1> QED
  BY <1>9, <1>10

LEMMA EdgesAre ==
    ASSUME NEW uh \in SN
    PROVE  RX_MOD_BASE(uh, uh) = rx_window_size /\ RX_MOD_BASE(uh - rx_window_size, uh) = 0
<1> DEFINE w == rx_window_size
           c == Far(uh - w, uh)
<1>1. MOD \in Nat /\ MOD > 0 /\ uh \in Int /\ w \in Nat /\ (w = 0 \/ MOD = 2 * w)
  BY Sizes DEF SN
<1>2. Far(uh, uh) = 0
  <2>1. uh - uh = 0 /\ 0 \in 0 .. MOD - 1
    BY <1>1
  <2>2. 0 % MOD = 0
    BY <1>1, <2>1, ModSmall, Zenon
  <2> QED
    BY <2>1, <2>2 DEF Far
<1>3. RX_MOD_BASE(uh, uh) = IF 0 >= w THEN 0 - w ELSE 0 + w
  BY <1>1, <1>2, BaseIs
<1>4. c = IF w = 0 THEN 0 ELSE w
  <2>1. uh - w - uh = -w
    BY <1>1
  <2>2. CASE w = 0
    BY <1>1, <1>2, <2>2 DEF c
  <2>3. CASE w # 0
    <3>1. -w = (-1) * MOD + w /\ w \in 0 .. MOD - 1 /\ -w \in Int /\ -1 \in Int
      BY <1>1, <2>3
    <3> HIDE DEF w
    <3>2. (-w) % MOD = w
      BY <1>1, <3>1, ModUnique
    <3> QED
      BY <2>1, <2>3, <3>2 DEF Far
  <2> QED
    BY <2>2, <2>3
<1>5. uh - w \in Int
  BY <1>1
<1>6. RX_MOD_BASE(uh - w, uh) = IF c >= w THEN c - w ELSE c + w
  BY <1>1, <1>5, BaseIs
<1> QED
  BY <1>1, <1>3, <1>4, <1>6

LEMMA InsideIs ==
    ASSUME NEW sn \in SN, NEW uh \in SN, NEW n, NEW win \in Windows(n)
    PROVE  inside_reordering_window(sn, uh, win)
             <=> rx_window_size = 0 \/ DOMAIN win = {} \/ Far(sn, uh) >= rx_window_size
<1> DEFINE w == rx_window_size
           c == Far(sn, uh)
<1>1. sn \in Int /\ uh \in Int /\ w \in Nat /\ (w = 0 \/ MOD = 2 * w)
  BY Sizes DEF SN
<1>2. c \in 0 .. MOD - 1
  BY <1>1, FarType
<1>3. RX_MOD_BASE(sn, uh) = IF c >= w THEN c - w ELSE c + w
  BY <1>1, BaseIs
<1>4. win = <<>> <=> DOMAIN win = {}
  BY EmptyWindow
<1> HIDE DEF c, w
<1>5. (w # 0) => (0 <= RX_MOD_BASE(sn, uh) /\ RX_MOD_BASE(sn, uh) < w <=> c >= w)
  BY <1>1, <1>2, <1>3, Sizes
<1>6. inside_reordering_window(sn, uh, win)
        <=> w = 0 \/ win = <<>> \/ (0 <= RX_MOD_BASE(sn, uh) /\ RX_MOD_BASE(sn, uh) < w)
  BY EdgesAre, Zenon DEF inside_reordering_window, w
<1> QED
  BY <1>4, <1>5, <1>6 DEF c, w

-----------------------------------------------------------------------------
(* Reassembly keeps the window in order                                    *)

\* Nothing in the window is before the next number to reassemble.
Loose(n, uh) == {a \in Assemblies(n) : \A x \in DOMAIN a.win : Far(a.ur, uh) <= Far(x, uh)}

\* The next number itself is missing, and inside the reordering window if anything
\* waits for it.
Tight(n, uh) ==
    {a \in Assemblies(n) : /\ \A x \in DOMAIN a.win : Far(a.ur, uh) < Far(x, uh)
                           /\ DOMAIN a.win # {} => Far(a.ur, uh) >= rx_window_size}

\* After k passes of the first loop, and after k of the second.
BehindAfter(n, uh, k) ==
    {a \in Loose(n, uh) : \/ rx_window_size = 0 \/ DOMAIN a.win = {}
                          \/ Far(a.ur, uh) >= rx_window_size \/ Far(a.ur, uh) >= k}
OnwardAfter(n, uh, k) ==
    {a \in Loose(n, uh) : /\ DOMAIN a.win # {} => Far(a.ur, uh) >= rx_window_size
                          /\ a.ur \in DOMAIN a.win => Far(a.ur, uh) >= k}

LEMMA NextNumberIs ==
    ASSUME NEW n \in Nat, NEW a \in Assemblies(n)
    PROVE  /\ NextNumber(a) \in Assemblies(n) /\ NextNumber(a).ur = Shift(a.ur, 1)
           /\ DOMAIN NextNumber(a).win = DOMAIN a.win \ {a.ur}
<1> DEFINE win == Keep(a.win, SN \ {a.ur})
<1>1. a.win \in Windows(n) /\ a.ur \in SN
  BY DEF Assemblies
<1>2. win \in Windows(n) /\ DOMAIN win = DOMAIN a.win \intersect (SN \ {a.ur})
  BY <1>1, KeepWindow, Zenon
<1>3. DOMAIN a.win \subseteq SN
  BY <1>1, WindowOf, Zenon
<1>4. Shift(a.ur, 1) \in SN
  BY <1>1, NextType
<1> HIDE DEF win
<1> QED
  BY <1>2, <1>3, <1>4 DEF NextNumber, Assemblies, win

\* On to the next number, if nothing in the window is at the one left behind.
LEMMA OnByOne ==
    ASSUME NEW n \in Nat, NEW uh \in SN, NEW a \in Loose(n, uh), NEW b \in Assemblies(n),
           b.ur = Shift(a.ur, 1), DOMAIN b.win = DOMAIN a.win \ {a.ur}
    PROVE  /\ b \in Loose(n, uh)
           /\ DOMAIN b.win # {} => Far(b.ur, uh) = Far(a.ur, uh) + 1
<1>1. a \in Assemblies(n) /\ \A x \in DOMAIN a.win : Far(a.ur, uh) <= Far(x, uh)
  BY DEF Loose
<1>2. a.ur \in SN /\ a.win \in Windows(n)
  BY <1>1 DEF Assemblies
<1>3. DOMAIN a.win \subseteq SN
  BY <1>2, WindowOf, Zenon
<1>4. Far(b.ur, uh) = IF Far(a.ur, uh) = MOD - 1 THEN 0 ELSE Far(a.ur, uh) + 1
  BY <1>2, FarNext
<1>5. Far(a.ur, uh) \in 0 .. MOD - 1 /\ MOD \in Nat
  <2>1. a.ur \in Int /\ uh \in Int
    BY <1>2, Sizes DEF SN
  <2> QED
    BY <2>1, FarType, Sizes
<1>6. ASSUME NEW x \in DOMAIN b.win
      PROVE  Far(b.ur, uh) = Far(a.ur, uh) + 1 /\ Far(b.ur, uh) <= Far(x, uh)
  <2>1. x \in SN /\ x # a.ur /\ x \in DOMAIN a.win
    BY <1>3
  <2>2. Far(x, uh) # Far(a.ur, uh)
    BY <1>2, <2>1, FarSame
  <2>3. Far(x, uh) \in 0 .. MOD - 1
    <3>1. x \in Int /\ uh \in Int
      BY <2>1, Sizes DEF SN
    <3> QED
      BY <3>1, FarType
  <2>4. Far(a.ur, uh) <= Far(x, uh)
    BY <1>1, <2>1
  <2> QED
    BY <1>4, <1>5, <2>2, <2>3, <2>4
<1> QED
  BY <1>6 DEF Loose

LEMMA BehindPass ==
    ASSUME NEW n \in Nat, NEW uh \in SN, NEW k \in 1 .. MOD, NEW a \in BehindAfter(n, uh, k - 1)
    PROVE  Behind(a, uh) \in BehindAfter(n, uh, k)
<1> DEFINE w == rx_window_size
<1>1. a \in Loose(n, uh) /\ a \in Assemblies(n)
  BY DEF BehindAfter, Loose
<1>2. w = 0 \/ DOMAIN a.win = {} \/ Far(a.ur, uh) >= w \/ Far(a.ur, uh) >= k - 1
  BY DEF BehindAfter
<1>3. a.ur \in SN /\ a.win \in Windows(n) /\ k \in Int /\ w \in Nat
  BY <1>1, Sizes DEF Assemblies
<1>4. inside_reordering_window(a.ur, uh, a.win)
        <=> w = 0 \/ DOMAIN a.win = {} \/ Far(a.ur, uh) >= w
  BY <1>3, InsideIs
<1>5. CASE inside_reordering_window(a.ur, uh, a.win)
  BY <1>1, <1>4, <1>5 DEF Behind, BehindAfter
<1>6. CASE ~inside_reordering_window(a.ur, uh, a.win)
  <2> DEFINE b == Behind(a, uh)
  <2>1. w # 0 /\ DOMAIN a.win # {} /\ ~ (Far(a.ur, uh) >= w)
    BY <1>4, <1>6
  <2>2. b \in Assemblies(n) /\ b.ur = Shift(a.ur, 1) /\ DOMAIN b.win = DOMAIN a.win \ {a.ur}
    <3>1. CASE a.ur \in DOMAIN a.win
      <4> DEFINE c == CopyBehind(a, a.win[a.ur])
      <4>1. a.win[a.ur] \in Pdus(n)
        BY <1>3, <3>1, WindowOf, Zenon
      <4>2. c \in Assemblies(n) /\ c.ur = a.ur /\ c.win = a.win
        BY <1>1, <4>1, CopyBehindType
      <4>3. b = NextNumber(c)
        BY <1>6, <3>1, Zenon DEF Behind
      <4> HIDE DEF b, c
      <4> QED
        BY <4>2, <4>3, NextNumberIs
    <3>2. CASE a.ur \notin DOMAIN a.win
      <4>1. b = [a EXCEPT !.sdu = <<>>, !.ur = Shift(a.ur, 1)]
        BY <1>6, <3>2, Zenon DEF Behind
      <4>2. Shift(a.ur, 1) \in SN
        BY <1>3, NextType
      <4>3. <<>> \in Seq(0 .. n - 1)
        OBVIOUS
      <4> HIDE DEF b
      <4>4. b \in Assemblies(n) /\ b.ur = Shift(a.ur, 1) /\ b.win = a.win
        BY <1>1, <4>1, <4>2, <4>3 DEF Assemblies
      <4> QED
        BY <3>2, <4>4
    <3> QED
      BY <3>1, <3>2
  <2> HIDE DEF b
  <2>3. b \in Loose(n, uh) /\ (DOMAIN b.win # {} => Far(b.ur, uh) = Far(a.ur, uh) + 1)
    BY <1>1, <2>2, OnByOne
  <2>4. Far(a.ur, uh) >= k - 1 /\ Far(a.ur, uh) \in Int
    <3>1. a.ur \in Int /\ uh \in Int
      BY <1>3, Sizes DEF SN
    <3>2. Far(a.ur, uh) \in 0 .. MOD - 1
      BY <3>1, FarType
    <3> QED
      BY <1>2, <2>1, <3>2
  <2>5. DOMAIN b.win # {} => Far(b.ur, uh) >= k
    BY <1>3, <2>3, <2>4
  <2> QED
    BY <2>3, <2>5 DEF BehindAfter, b
<1> QED
  BY <1>5, <1>6

LEMMA OnwardPass ==
    ASSUME NEW n \in Nat, NEW uh \in SN, NEW k \in 1 .. MOD, NEW a \in OnwardAfter(n, uh, k - 1)
    PROVE  Onward(a) \in OnwardAfter(n, uh, k)
<1> DEFINE w == rx_window_size
           b == Onward(a)
<1>1. a \in Loose(n, uh) /\ a \in Assemblies(n)
  BY DEF OnwardAfter, Loose
<1>2. /\ DOMAIN a.win # {} => Far(a.ur, uh) >= w
      /\ a.ur \in DOMAIN a.win => Far(a.ur, uh) >= k - 1
  BY DEF OnwardAfter
<1>3. a.ur \in SN /\ a.win \in Windows(n) /\ k \in Int /\ w \in Nat
  BY <1>1, Sizes DEF Assemblies
<1>4. CASE a.ur \in DOMAIN a.win
  <2> DEFINE c == CopyNext(a, a.win[a.ur])
  <2>1. a.win[a.ur] \in Pdus(n)
    BY <1>3, <1>4, WindowOf, Zenon
  <2>2. c \in Assemblies(n) /\ c.ur = a.ur /\ c.win = a.win
    BY <1>1, <2>1, CopyNextType
  <2>3. b = NextNumber(c)
    BY <1>4, Zenon DEF Onward
  <2> HIDE DEF b, c
  <2>4. b \in Assemblies(n) /\ b.ur = Shift(a.ur, 1) /\ DOMAIN b.win = DOMAIN a.win \ {a.ur}
    BY <2>2, <2>3, NextNumberIs
  <2>5. b \in Loose(n, uh) /\ (DOMAIN b.win # {} => Far(b.ur, uh) = Far(a.ur, uh) + 1)
    BY <1>1, <2>4, OnByOne
  <2>6. Far(a.ur, uh) >= k - 1 /\ Far(a.ur, uh) >= w /\ Far(a.ur, uh) \in Int
    <3>1. a.ur \in Int /\ uh \in Int
      BY <1>3, Sizes DEF SN
    <3>2. Far(a.ur, uh) \in 0 .. MOD - 1
      BY <3>1, FarType
    <3> QED
      BY <1>2, <1>4, <3>2
  <2>7. DOMAIN b.win # {} => Far(b.ur, uh) >= k /\ Far(b.ur, uh) >= w
    BY <1>3, <2>5, <2>6
  <2> QED
    BY <2>5, <2>7 DEF OnwardAfter, b
<1>5. CASE a.ur \notin DOMAIN a.win
  BY <1>1, <1>2, <1>5 DEF Onward, OnwardAfter
<1> QED
  BY <1>4, <1>5

LEMMA ReassembleTightens ==
    ASSUME NEW n \in Nat, NEW uh \in SN, NEW a \in Loose(n, uh) PROVE Reassemble(a, uh) \in Tight(n, uh)
<1> DEFINE T == [k \in 0 .. MOD |-> BehindAfter(n, uh, k)]
           U == [k \in 0 .. MOD |-> OnwardAfter(n, uh, k)]
           e == CatchUp(a, uh)
<1>1. MOD \in Nat /\ 0 \in 0 .. MOD /\ MOD \in 0 .. MOD
  BY Sizes
<1>2. \A k \in 1 .. MOD : k \in 0 .. MOD /\ k - 1 \in 0 .. MOD
  BY <1>1
<1>3. \A c \in Loose(n, uh) : c.ur \in SN /\ Far(c.ur, uh) \in 0 .. MOD - 1
  <2> SUFFICES ASSUME NEW c \in Loose(n, uh) PROVE c.ur \in SN /\ Far(c.ur, uh) \in 0 .. MOD - 1
    OBVIOUS
  <2>1. c.ur \in SN
    BY DEF Loose, Assemblies
  <2>2. c.ur \in Int /\ uh \in Int
    BY <2>1, Sizes DEF SN
  <2> QED
    BY <2>1, <2>2, FarType
<1>4. a \in T[0]
  <2>1. a \in BehindAfter(n, uh, 0)
    BY <1>3 DEF BehindAfter
  <2> QED
    BY <1>1, <2>1
<1>5. \A k \in 1 .. MOD : \A c \in T[k - 1] : Behind(c, uh) \in T[k]
  <2> SUFFICES ASSUME NEW k \in 1 .. MOD, NEW c \in T[k - 1] PROVE Behind(c, uh) \in T[k]
    OBVIOUS
  <2>1. c \in BehindAfter(n, uh, k - 1)
    BY <1>2, Zenon
  <2>2. Behind(c, uh) \in BehindAfter(n, uh, k)
    BY <2>1, BehindPass
  <2> QED
    BY <1>2, <2>2, Zenon
<1>6. e \in T[MOD]
  <2> HIDE DEF T
  <2> QED
    BY <1>4, <1>5, LoopCatchUp, Zenon
<1>7. e \in BehindAfter(n, uh, MOD)
  BY <1>1, <1>6, Zenon
<1> HIDE DEF e
<1>8. e \in OnwardAfter(n, uh, 0)
  <2>1. e \in Loose(n, uh) /\ (\/ rx_window_size = 0 \/ DOMAIN e.win = {}
                               \/ Far(e.ur, uh) >= rx_window_size \/ Far(e.ur, uh) >= MOD)
    BY <1>7 DEF BehindAfter
  <2>2. Far(e.ur, uh) \in 0 .. MOD - 1
    BY <1>3, <2>1
  <2>3. DOMAIN e.win # {} => Far(e.ur, uh) >= rx_window_size
    BY <2>1, <2>2, Sizes
  <2> QED
    BY <2>1, <2>2, <2>3 DEF OnwardAfter
<1>9. e \in U[0]
  BY <1>1, <1>8, Zenon
<1>10. \A k \in 1 .. MOD : \A c \in U[k - 1] : Onward(c) \in U[k]
  <2> SUFFICES ASSUME NEW k \in 1 .. MOD, NEW c \in U[k - 1] PROVE Onward(c) \in U[k]
    OBVIOUS
  <2>1. c \in OnwardAfter(n, uh, k - 1)
    BY <1>2, Zenon
  <2>2. Onward(c) \in OnwardAfter(n, uh, k)
    BY <2>1, OnwardPass
  <2> QED
    BY <1>2, <2>2, Zenon
<1> DEFINE r == Loop(Onward, e)
<1>11. r \in U[MOD]
  <2> HIDE DEF U
  <2> QED
    BY <1>9, <1>10, LoopOnward, Zenon
<1>12. r \in OnwardAfter(n, uh, MOD)
  BY <1>1, <1>11, Zenon
<1>13. Reassemble(a, uh) = r
  BY Zenon DEF Reassemble, e
<1> HIDE DEF r
<1>14. r \in Tight(n, uh)
  <2>1. r \in Loose(n, uh) /\ (DOMAIN r.win # {} => Far(r.ur, uh) >= rx_window_size)
        /\ (r.ur \in DOMAIN r.win => Far(r.ur, uh) >= MOD)
    BY <1>12 DEF OnwardAfter
  <2>2. r \in Assemblies(n) /\ \A x \in DOMAIN r.win : Far(r.ur, uh) <= Far(x, uh)
    BY <2>1 DEF Loose
  <2>3. r.ur \in SN /\ Far(r.ur, uh) \in 0 .. MOD - 1 /\ r.ur \notin DOMAIN r.win
    BY <1>1, <1>3, <2>1
  <2>4. DOMAIN r.win \subseteq SN
    BY <2>2, WindowOf DEF Assemblies
  <2>5. ASSUME NEW x \in DOMAIN r.win PROVE Far(r.ur, uh) < Far(x, uh)
    <3>1. x \in SN /\ x # r.ur /\ uh \in Int /\ x \in Int
      BY <2>3, <2>4, Sizes DEF SN
    <3>2. Far(x, uh) # Far(r.ur, uh)
      BY <2>3, <3>1, FarSame
    <3>3. Far(x, uh) \in 0 .. MOD - 1
      BY <3>1, FarType
    <3> QED
      BY <2>2, <2>3, <3>2, <3>3, <1>1
  <2> QED
    BY <2>1, <2>2, <2>5 DEF Tight
<1> QED
  BY <1>13, <1>14

\* The loop of the timer, one number after the other.
LEMMA SkipTight ==
    ASSUME NEW n \in Nat, vr_uh \in SN, NEW c \in Tight(n, vr_uh) PROVE Skip(c) \in Tight(n, vr_uh)
<1> DEFINE d == [c EXCEPT !.ur = Shift(c.ur, 1)]
<1>1. c \in Assemblies(n) /\ \A x \in DOMAIN c.win : Far(c.ur, vr_uh) < Far(x, vr_uh)
  BY DEF Tight
<1>2. c.ur \in SN /\ c.win \in Windows(n)
  BY <1>1 DEF Assemblies
<1>3. d \in Assemblies(n) /\ d.ur = Shift(c.ur, 1) /\ d.win = c.win
  <2>1. Shift(c.ur, 1) \in SN
    BY <1>2, NextType
  <2> QED
    BY <1>1, <2>1 DEF Assemblies
<1> HIDE DEF d
<1>4. Far(d.ur, vr_uh) = IF Far(c.ur, vr_uh) = MOD - 1 THEN 0 ELSE Far(c.ur, vr_uh) + 1
  BY <1>2, <1>3, FarNext
<1>5. ASSUME NEW x \in DOMAIN d.win PROVE Far(d.ur, vr_uh) <= Far(x, vr_uh)
  <2>1. x \in SN /\ Far(c.ur, vr_uh) < Far(x, vr_uh)
    BY <1>1, <1>2, <1>3, WindowOf
  <2>2. x \in Int /\ c.ur \in Int /\ vr_uh \in Int
    BY <1>2, <2>1, Sizes DEF SN
  <2>3. Far(x, vr_uh) \in 0 .. MOD - 1 /\ Far(c.ur, vr_uh) \in 0 .. MOD - 1
    BY <2>2, FarType
  <2> QED
    BY <1>4, <2>1, <2>3, Sizes
<1>6. d \in Loose(n, vr_uh)
  BY <1>3, <1>5 DEF Loose
<1>7. Reassemble(d, vr_uh) \in Tight(n, vr_uh)
  BY <1>6, ReassembleTightens
<1> QED
  BY <1>7, Zenon DEF Skip, d

LEMMA SkipTightens ==
    ASSUME NEW n \in Nat, vr_uh \in SN, NEW a \in Tight(n, vr_uh)
    PROVE  SkipMissing(a) \in Tight(n, vr_uh)
<1> DEFINE T == [k \in 0 .. MOD |-> Tight(n, vr_uh)]
<1>1. MOD \in Nat /\ 0 \in 0 .. MOD /\ MOD \in 0 .. MOD
  BY Sizes
<1>2. \A k \in 1 .. MOD : k \in 0 .. MOD /\ k - 1 \in 0 .. MOD
  BY <1>1
<1>3. \A k \in 1 .. MOD : \A c \in T[k - 1] : Skip(c) \in T[k]
  BY <1>2, SkipTight, Zenon
<1>4. a \in T[0]
  BY <1>1, Zenon
<1>5. Loop(Skip, a) \in T[MOD]
  <2> HIDE DEF T
  <2> QED
    BY <1>3, <1>4, LoopSkip, Zenon
<1> QED
  BY <1>1, <1>5, Zenon DEF SkipMissing

-----------------------------------------------------------------------------
(* The invariant                                                           *)

UmInv ==
    /\ written \in 0 .. MaxSdu /\ taken \in 0 .. written * SduUnits /\ lost \subseteq 0 .. taken - 1
    /\ vt_us \in SN /\ vr_ux \in SN /\ vr_uh \in SN /\ tx_sdu \in BOOLEAN
    /\ bare \subseteq 0 .. taken
    /\ air \in Seq(Pdus(taken))
    /\ assembly \in Tight(taken, vr_uh)

LEMMA UmInvInit == UmInit => UmInv
<1> SUFFICES ASSUME UmInit PROVE UmInv
  OBVIOUS
<1>1. 0 \in SN /\ 0 * SduUnits = 0 /\ 0 \in 0 .. MaxSdu
  BY Sizes, StreamAssumption, UmAssumption DEF SN
<1>2. assembly \in Assemblies(0) /\ DOMAIN assembly.win = {}
  <2>1. <<>> \in [{} -> Pdus(0)]
    OBVIOUS
  <2>2. <<>> \in Windows(0)
    BY <2>1, IsWindow
  <2>3. <<>> \in Seq(0 .. 0 - 1) /\ <<>> \in Seq(Seq(0 .. 0 - 1))
    OBVIOUS
  <2> QED
    BY <1>1, <2>2, <2>3 DEF UmInit, Assemblies
<1>3. assembly \in Tight(0, vr_uh)
  BY <1>2, Zenon DEF Tight
<1>4. <<>> \in Seq(Pdus(0))
  OBVIOUS
<1>5. written = 0 /\ taken = 0 /\ lost = {} /\ bare = {} /\ air = <<>> /\ tx_sdu = FALSE
      /\ vt_us = 0 /\ vr_ux = 0 /\ vr_uh = 0
  BY DEF UmInit
<1>6. 0 \in 0 .. 0 * SduUnits
  BY <1>1
<1> QED
  BY <1>1, <1>3, <1>4, <1>5, <1>6, Zenon DEF UmInv

\* What the invariant says of the properties.
LEMMA InOrderOf ==
    ASSUME NEW n \in Nat, NEW uh \in SN, NEW a \in Tight(n, uh), NEW x \in DOMAIN a.win
    PROVE  /\ RX_MOD_BASE(x, uh) > RX_MOD_BASE(a.ur, uh)
           /\ rx_window_size > 0 => RX_MOD_BASE(uh, uh) > RX_MOD_BASE(a.ur, uh)
<1> DEFINE w == rx_window_size
<1>1. a \in Assemblies(n) /\ Far(a.ur, uh) < Far(x, uh) /\ Far(a.ur, uh) >= w
  BY DEF Tight
<1>2. x \in Int /\ a.ur \in Int /\ uh \in Int
  <2>1. a.win \in Windows(n) /\ a.ur \in SN
    BY <1>1 DEF Assemblies
  <2>2. x \in SN
    BY <2>1, WindowOf
  <2> QED
    BY <2>1, <2>2, Sizes DEF SN
<1>3. Far(x, uh) \in 0 .. MOD - 1 /\ Far(a.ur, uh) \in 0 .. MOD - 1
  BY <1>2, FarType
<1>4. RX_MOD_BASE(x, uh) = Far(x, uh) - w /\ RX_MOD_BASE(a.ur, uh) = Far(a.ur, uh) - w
  <2>1. Far(x, uh) >= w
    BY <1>1, <1>3, Sizes
  <2> QED
    BY <1>1, <1>2, <2>1, BaseIs
<1>5. RX_MOD_BASE(uh, uh) = w
  BY EdgesAre
<1> QED
  BY <1>1, <1>3, <1>4, <1>5, Sizes

LEMMA UnitsOfPdu ==
    ASSUME NEW n \in Nat, NEW pdu \in Pdus(n)
    PROVE  UNION {Range(piece) : piece \in Range(pdu.pieces)} \subseteq 0 .. n - 1
<1> SUFFICES ASSUME NEW piece \in Range(pdu.pieces), NEW u \in Range(piece) PROVE u \in 0 .. n - 1
  OBVIOUS
<1> DEFINE V == 0 .. n - 1
<1>1. pdu.pieces \in Seq(Seq(V))
  BY DEF Pdus
<1> HIDE DEF V
<1>2. piece \in Seq(V)
  BY <1>1 DEF Range
<1> QED
  BY <1>2 DEF Range, V

LEMMA TypeOf == UmInv => UmTypeOK
<1> SUFFICES ASSUME UmInv PROVE UmTypeOK
  OBVIOUS
<1> USE DEF UmInv
<1> DEFINE V == 0 .. taken - 1
           stream == 0 .. MaxSdu * SduUnits - 1
<1>1. taken \in Nat /\ V \subseteq stream
  <2>1. written \in Nat /\ MaxSdu \in Nat /\ SduUnits \in Nat /\ written <= MaxSdu
    BY StreamAssumption, UmAssumption
  <2>2. written * SduUnits <= MaxSdu * SduUnits /\ written * SduUnits \in Nat /\ MaxSdu * SduUnits \in Nat
    BY <2>1
  <2> QED
    BY <2>2
<1>2. assembly \in Assemblies(taken)
  BY DEF Tight
<1>3. /\ assembly.ur \in SN /\ assembly.last \in SN /\ assembly.win \in Windows(taken)
      /\ assembly.sdu \in Seq(V) /\ assembly.out \in Seq(Seq(V))
  BY <1>2 DEF Assemblies
<1>4. assembly.sdu \in Seq(stream) /\ Range(assembly.out) \subseteq Seq(stream)
  <2> HIDE DEF V, stream
  <2>1. Seq(V) \subseteq Seq(stream)
    BY <1>1
  <2>2. Range(assembly.out) \subseteq Seq(V)
    BY <1>3 DEF Range
  <2> QED
    BY <1>3, <2>1, <2>2, Zenon
<1>5. DOMAIN assembly.win \subseteq SN
  BY <1>3, WindowOf, Zenon
<1>6. UnitsOf(Range(assembly.win)) \subseteq V
  <2> SUFFICES ASSUME NEW pdu \in Range(assembly.win)
               PROVE  UNION {Range(piece) : piece \in Range(pdu.pieces)} \subseteq V
    BY Zenon DEF UnitsOf
  <2>1. pdu \in Pdus(taken)
    BY <1>3, WindowOf DEF Range
  <2> QED
    BY <1>1, <2>1, UnitsOfPdu, Zenon
<1>7. \A sn \in DOMAIN assembly.win : RX_MOD_BASE(sn, vr_uh) > RX_MOD_BASE(assembly.ur, vr_uh)
  BY <1>1, InOrderOf
<1>8. {vt_us, vr_ux, vr_uh, assembly.ur, assembly.last} \subseteq SN
  BY <1>3
<1> QED
  BY <1>4, <1>5, <1>6, <1>7, <1>8, Zenon DEF UmTypeOK

-----------------------------------------------------------------------------
(* The steps of the sending side                                           *)

LEMMA GreaterOf == ASSUME NEW a \in Int, NEW b \in Int PROVE Max({a, b}) = IF a >= b THEN a ELSE b
<1>1. \E x \in {a, b} : \A y \in {a, b} : x >= y
  OBVIOUS
<1> QED
  BY <1>1 DEF Max

LEMMA LesserOf == ASSUME NEW a \in Int, NEW b \in Int PROVE Min({a, b}) = IF a <= b THEN a ELSE b
<1>1. \E x \in {a, b} : \A y \in {a, b} : x =< y
  OBVIOUS
<1> QED
  BY <1>1 DEF Min

LEMMA PiecesType ==
    ASSUME NEW from \in Nat, NEW to \in Nat, from < to
    PROVE  Pieces(from, to) \in Seq(Seq(0 .. to - 1)) \ {<<>>}
<1> DEFINE V == 0 .. to - 1
           first == from \div SduUnits
           last  == (to - 1) \div SduUnits
           k == last - first + 1
           lo(j) == Max({from, (first + j - 1) * SduUnits})
           hi(j) == Min({to, (first + j) * SduUnits})
<1>1. SduUnits \in Nat /\ SduUnits > 0 /\ to - 1 \in Int /\ from <= to - 1
  BY StreamAssumption
<1>2. first \in Int /\ last \in Int /\ first <= last
  BY <1>1, ModDef, DivMono
<1> HIDE DEF first, last
<1>3. ASSUME NEW j \in 1 .. k PROVE Units(lo(j), hi(j)) \in Seq(V)
  <2>1. (first + j - 1) * SduUnits \in Int /\ (first + j) * SduUnits \in Int
    BY <1>1, <1>2
  <2>2. lo(j) \in Int /\ lo(j) >= from
    BY <2>1, GreaterOf
  <2>3. hi(j) \in Int /\ hi(j) <= to
    BY <1>1, <2>1, LesserOf
  <2> DEFINE p == lo(j)
             q == hi(j)
  <2> HIDE DEF p, q
  <2>4. p \in Nat /\ q \in Int /\ q <= to
    BY <2>2, <2>3 DEF p, q
  <2>5. [i \in 1 .. q - p |-> p + i - 1] \in Seq(V)
    <3>1. \A i \in 1 .. q - p : p + i - 1 \in V
      BY <2>4
    <3>2. CASE q - p \in Nat
      BY <3>1, <3>2
    <3>3. CASE q - p \notin Nat
      <4>1. 1 .. q - p = 1 .. 0
        BY <2>4, <3>3
      <4> DEFINE f == [i \in 1 .. q - p |-> p + i - 1]
      <4>2. f \in [1 .. 0 -> V] /\ 0 \in Nat
        BY <3>1, <4>1
      <4> HIDE DEF f
      <4>3. f \in Seq(V)
        BY <4>2
      <4> QED
        BY <4>3 DEF f
    <3> QED
      BY <3>2, <3>3
  <2> QED
    BY <2>5 DEF Units, p, q
<1>4. k \in Nat \ {0}
  BY <1>2
<1>5. Pieces(from, to) = [j \in 1 .. k |-> Units(lo(j), hi(j))]
  BY Zenon DEF Pieces, first, last
<1> HIDE DEF k, lo, hi, V
<1>6. [j \in 1 .. k |-> Units(lo(j), hi(j))] \in Seq(Seq(V)) \ {<<>>}
  <2> DEFINE s == [j \in 1 .. k |-> Units(lo(j), hi(j))]
  <2>1. s \in Seq(Seq(V)) /\ Len(s) = k
    BY <1>3, <1>4
  <2> HIDE DEF s
  <2>2. s # <<>>
    BY <1>4, <2>1
  <2> QED
    BY <2>1, <2>2 DEF s
<1> QED
  BY <1>5, <1>6 DEF V

LEMMA AirGrows ==
    ASSUME NEW n \in Nat, NEW m \in Nat, n <= m, NEW s \in Seq(Pdus(n)) PROVE s \in Seq(Pdus(m))
<1>1. Pdus(n) \subseteq Pdus(m)
  BY Grows
<1> QED
  BY <1>1

LEMMA TightGrows ==
    ASSUME NEW n \in Nat, NEW m \in Nat, n <= m, NEW uh, NEW a \in Tight(n, uh) PROVE a \in Tight(m, uh)
<1>1. a \in Assemblies(m)
  BY Grows DEF Tight
<1> QED
  BY <1>1 DEF Tight

LEMMA TakenType == UmInv => taken \in Nat /\ written \in Nat /\ written * SduUnits \in Nat
<1>1. UmInv => written \in Nat /\ SduUnits \in Nat
  BY StreamAssumption, UmAssumption DEF UmInv
<1>2. UmInv => written * SduUnits \in Nat
  BY <1>1
<1> QED
  BY <1>1, <1>2 DEF UmInv

LEMMA WriteSduInv == ASSUME UmInv, WriteSdu PROVE UmInv'
<1>1. written' = written + 1 /\ written < MaxSdu /\ UNCHANGED <<taken, tx_sdu, vt_us, bare, link, disturbed, rx>>
  BY DEF WriteSdu
<1>2. taken \in Nat /\ written \in Nat /\ SduUnits \in Nat /\ MaxSdu \in Nat
  BY TakenType, StreamAssumption, UmAssumption
<1>3. taken \in 0 .. written' * SduUnits
  <2>1. (written + 1) * SduUnits = written * SduUnits + SduUnits /\ written * SduUnits \in Nat
    BY <1>2
  <2> QED
    BY <1>1, <1>2, <2>1 DEF UmInv
<1> QED
  BY <1>1, <1>2, <1>3 DEF UmInv, link, rx

LEMMA BuildDataPduInv ==
    ASSUME UmInv, NEW room \in Grants, NEW brink \in {FALSE, Brink}, BuildDataPdu(room, brink)
    PROVE  UmInv'
<1> DEFINE to == Min({taken + room, written * SduUnits})
           pieces == Pieces(taken, to)
           V == 0 .. to - 1
           pdu == [sn |-> vt_us, start |-> ~tx_sdu, end |-> ~tx_sdu', late |-> FALSE,
                   pieces |-> IF brink THEN Append(pieces, <<>>) ELSE pieces]
<1>1. /\ taken < written * SduUnits /\ air' = Append(air, pdu) /\ taken' = to /\ vt_us' = Shift(vt_us, 1)
      /\ tx_sdu' = (brink \/ ~EndsSdu(to - 1)) /\ UNCHANGED <<written, lost, losses, disturbed, rx>>
      /\ bare' = IF brink THEN bare \union {to} ELSE bare
  BY DEF BuildDataPdu
<1>2. taken \in Nat /\ room \in Nat \ {0} /\ written * SduUnits \in Nat
  BY TakenType, UmAssumption
<1>3. to \in Nat /\ taken < to /\ to <= written * SduUnits
  BY <1>1, <1>2, LesserOf
<1> HIDE DEF to
<1>4. pieces \in Seq(Seq(V)) \ {<<>>}
  BY <1>2, <1>3, PiecesType
<1>5. Append(pieces, <<>>) \in Seq(Seq(V)) \ {<<>>}
  <2> HIDE DEF pieces, V
  <2>1. <<>> \in Seq(V)
    OBVIOUS
  <2> QED
    BY <1>4, <2>1
<1>6. tx_sdu' \in BOOLEAN /\ (~tx_sdu) \in BOOLEAN /\ (~tx_sdu') \in BOOLEAN
  BY <1>1, Zenon
<1>7. vt_us \in SN /\ vt_us' \in SN
  BY <1>1, NextType DEF UmInv
<1>8. pdu \in Pdus(to)
  <2> HIDE DEF pieces
  <2>1. (IF brink THEN Append(pieces, <<>>) ELSE pieces) \in Seq(Seq(V)) \ {<<>>}
    BY <1>4, <1>5, Zenon
  <2> QED
    BY <1>6, <1>7, <2>1, Zenon DEF Pdus
<1> HIDE DEF pdu
<1>9. air' \in Seq(Pdus(to))
  <2>1. air \in Seq(Pdus(to))
    BY <1>2, <1>3, AirGrows DEF UmInv
  <2> QED
    BY <1>1, <1>8, <2>1
<1>10. assembly' \in Tight(to, vr_uh')
  <2>1. assembly \in Tight(to, vr_uh)
    BY <1>2, <1>3, TightGrows DEF UmInv
  <2> QED
    BY <1>1, <2>1 DEF rx
<1>11. lost' \subseteq 0 .. taken' - 1 /\ taken' \in 0 .. written' * SduUnits /\ bare' \subseteq 0 .. taken'
  BY <1>1, <1>2, <1>3 DEF UmInv
<1>12. written' \in 0 .. MaxSdu /\ vr_ux' \in SN /\ vr_uh' \in SN
  BY <1>1 DEF UmInv, rx
<1> QED
  BY <1>1, <1>6, <1>7, <1>9, <1>10, <1>11, <1>12, Zenon DEF UmInv

LEMMA LosePduInv == ASSUME UmInv, NEW i \in 1 .. MaxAir, LosePdu(i) PROVE UmInv'
<1>1. /\ i \in DOMAIN air /\ air' = SubSeq(air, 1, i - 1) \o SubSeq(air, i + 1, Len(air))
      /\ lost' = lost \union UNION {Range(piece) : piece \in Range(air[i].pieces)} /\ UNCHANGED <<tx, rx>>
  BY DEF LosePdu, RemoveAt
<1>2. air \in Seq(Pdus(taken)) /\ taken \in Nat
  BY TakenType DEF UmInv
<1>3. air[i] \in Pdus(taken)
  BY <1>1, <1>2
<1>4. air' \in Seq(Pdus(taken))
  BY <1>1, <1>2
<1>5. lost' \subseteq 0 .. taken - 1
  <2>1. lost \subseteq 0 .. taken - 1
    BY DEF UmInv
  <2>2. UNION {Range(piece) : piece \in Range(air[i].pieces)} \subseteq 0 .. taken - 1
    BY <1>2, <1>3, UnitsOfPdu, Zenon
  <2> QED
    BY <1>1, <2>1, <2>2, Zenon
<1> QED
  BY <1>1, <1>4, <1>5 DEF UmInv, tx, rx

-----------------------------------------------------------------------------
(* The steps of the receiving side                                         *)

\* A PDU that is neither too late nor a copy goes into the window at or after the
\* next number, even if the reordering window moves up to it.
LEMMA PutLoose ==
    ASSUME UmInv, NEW pdu \in Pdus(taken), NEW win, NEW uh, NEW b,
           win = Put(assembly.win, pdu.sn, pdu),
           uh = IF inside_reordering_window(pdu.sn, vr_uh, win) THEN vr_uh ELSE Shift(pdu.sn, 1),
           b = [assembly EXCEPT !.win = win],
           ~TooLate(pdu.sn), pdu.sn \notin DOMAIN assembly.win
    PROVE  uh \in SN /\ b \in Loose(taken, uh)
<1> DEFINE sn == pdu.sn
           ur == assembly.ur
           old == DOMAIN assembly.win
           w == rx_window_size
<1>1. assembly \in Assemblies(taken) /\ (\A x \in old : Far(ur, vr_uh) < Far(x, vr_uh))
      /\ (old # {} => Far(ur, vr_uh) >= w)
  BY DEF UmInv, Tight
<1>2. ur \in SN /\ assembly.win \in Windows(taken) /\ sn \in SN /\ vr_uh \in SN
  BY <1>1 DEF Assemblies, Pdus, UmInv
<1>3. win \in Windows(taken) /\ DOMAIN win = old \union {sn} /\ old \subseteq SN
  <2>1. old \subseteq SN
    BY <1>2, WindowOf, Zenon
  <2>2. Put(assembly.win, sn, pdu) \in Windows(taken)
        /\ DOMAIN Put(assembly.win, sn, pdu) = old \union {sn}
    <3>1. assembly.win \in Windows(taken) /\ sn \in SN
      BY <1>2
    <3> HIDE DEF sn, old
    <3>2. Put(assembly.win, sn, pdu) \in Windows(taken)
      BY <3>1, PutWindow, Zenon
    <3>3. DOMAIN Put(assembly.win, sn, pdu) = DOMAIN assembly.win \union {sn}
      BY Zenon DEF Put
    <3> QED
      BY <3>2, <3>3, Zenon DEF old
  <2> QED
    BY <2>1, <2>2
<1>4. uh \in SN
  BY <1>2, NextType
<1>5. b \in Assemblies(taken) /\ b.ur = ur /\ b.win = win
  BY <1>1, <1>3 DEF Assemblies
<1>6. ur \in Int /\ sn \in Int /\ vr_uh \in Int
  BY <1>2, Sizes DEF SN
<1>7. Far(ur, vr_uh) \in 0 .. MOD - 1 /\ Far(sn, vr_uh) \in 0 .. MOD - 1
  BY <1>6, FarType
<1>8. RX_MOD_BASE(sn, vr_uh) >= RX_MOD_BASE(ur, vr_uh)
  <2>1. RX_MOD_BASE(sn, vr_uh) = IF Far(sn, vr_uh) >= w THEN Far(sn, vr_uh) - w ELSE Far(sn, vr_uh) + w
    BY <1>6, BaseIs
  <2>2. RX_MOD_BASE(ur, vr_uh) = IF Far(ur, vr_uh) >= w THEN Far(ur, vr_uh) - w ELSE Far(ur, vr_uh) + w
    BY <1>6, BaseIs
  <2>3. RX_MOD_BASE(vr_uh - w, vr_uh) = 0
    BY <1>2, EdgesAre
  <2> QED
    BY <1>7, <2>1, <2>2, <2>3, Sizes DEF TooLate
<1>9. RX_MOD_BASE(sn, vr_uh) = (IF Far(sn, vr_uh) >= w THEN Far(sn, vr_uh) - w ELSE Far(sn, vr_uh) + w)
      /\ RX_MOD_BASE(ur, vr_uh) = (IF Far(ur, vr_uh) >= w THEN Far(ur, vr_uh) - w ELSE Far(ur, vr_uh) + w)
  BY <1>6, BaseIs
<1>10. inside_reordering_window(sn, vr_uh, win) <=> w = 0 \/ Far(sn, vr_uh) >= w
  BY <1>2, <1>3, InsideIs
<1> HIDE DEF sn, ur, old, w
<1>11. CASE w = 0 \/ Far(sn, vr_uh) >= w
  <2>1. uh = vr_uh
    BY <1>10, <1>11 DEF sn
  <2>2. Far(ur, vr_uh) <= Far(sn, vr_uh)
    BY <1>7, <1>8, <1>9, <1>11, Sizes DEF w
  <2>3. ASSUME NEW x \in old PROVE Far(ur, vr_uh) <= Far(x, vr_uh)
    <3>1. x \in Int
      BY <1>3, Sizes DEF SN
    <3>2. Far(x, vr_uh) \in 0 .. MOD - 1
      BY <1>6, <3>1, FarType
    <3> QED
      BY <1>1, <1>7, <3>2
  <2>4. \A x \in DOMAIN b.win : Far(b.ur, uh) <= Far(x, uh)
    BY <1>3, <1>5, <2>1, <2>2, <2>3, Zenon
  <2> QED
    BY <1>4, <1>5, <2>4 DEF Loose
<1>12. CASE w # 0 /\ ~(Far(sn, vr_uh) >= w)
  <2>1. uh = Shift(sn, 1)
    BY <1>10, <1>12 DEF sn
  <2>2. Far(sn, uh) = MOD - 1
    <3>1. Far(sn, Shift(sn, 1)) = Far(sn, vr_uh) - Far(sn, vr_uh) - 1
                                 + (IF Far(sn, vr_uh) > Far(sn, vr_uh) THEN 0 ELSE MOD)
      BY <1>2, FarMoves
    <3> QED
      BY <1>7, <2>1, <3>1, Sizes
  <2>3. Far(ur, uh) \in 0 .. MOD - 1
    <3>1. uh \in Int
      BY <1>4, Sizes DEF SN
    <3> QED
      BY <1>6, <3>1, FarType
  <2>4. ASSUME NEW x \in old PROVE Far(ur, uh) <= Far(x, uh)
    <3>1. x \in SN /\ x \in Int
      BY <1>3, Sizes DEF SN
    <3>2. Far(x, vr_uh) \in 0 .. MOD - 1
      BY <1>6, <3>1, FarType
    <3>3. Far(ur, vr_uh) < Far(x, vr_uh) /\ Far(ur, vr_uh) >= w
      BY <1>1
    <3>4. Far(x, uh) = Far(x, vr_uh) - Far(sn, vr_uh) - 1 + (IF Far(x, vr_uh) > Far(sn, vr_uh) THEN 0 ELSE MOD)
      BY <1>2, <2>1, <3>1, FarMoves
    <3>5. Far(ur, uh) = Far(ur, vr_uh) - Far(sn, vr_uh) - 1
                        + (IF Far(ur, vr_uh) > Far(sn, vr_uh) THEN 0 ELSE MOD)
      BY <1>2, <2>1, FarMoves
    <3>6. w \in Nat /\ MOD \in Nat
      BY Sizes DEF w
    <3> QED
      BY <1>7, <1>12, <3>2, <3>3, <3>4, <3>5, <3>6
  <2>5. Far(ur, uh) <= Far(sn, uh)
    BY <2>2, <2>3, Sizes
  <2>6. \A x \in DOMAIN b.win : Far(b.ur, uh) <= Far(x, uh)
    BY <1>3, <1>5, <2>4, <2>5, Zenon
  <2> QED
    BY <1>4, <1>5, <2>6 DEF Loose
<1> QED
  BY <1>11, <1>12

LEMMA GapWaits ==
    ASSUME NEW n \in Nat, NEW uh \in SN, NEW a \in Tight(n, uh), rx_window_size > 0, a.win # <<>>
    PROVE  Waits(uh, a)
<1>1. a.win \in Windows(n)
  BY DEF Tight, Assemblies
<1>2. PICK x \in DOMAIN a.win : TRUE
  BY <1>1, EmptyWindow
<1>3. RX_MOD_BASE(uh, uh) > RX_MOD_BASE(a.ur, uh)
  BY <1>2, InOrderOf
<1> QED
  BY <1>3, Zenon DEF Waits

LEMMA HandleDataPduInv ==
    ASSUME UmInv, NEW pdu \in Pdus(taken), HandleDataPdu(pdu)
    PROVE  /\ vr_ux' \in SN /\ vr_uh' \in SN /\ lost' \subseteq 0 .. taken - 1
           /\ assembly' \in Tight(taken, vr_uh')
           /\ rx_window_size > 0 /\ GapIsTimed => GapIsTimed'
<1> DEFINE win  == Put(assembly.win, pdu.sn, pdu)
           uh   == IF inside_reordering_window(pdu.sn, vr_uh, win) THEN vr_uh ELSE Shift(pdu.sn, 1)
           b    == [assembly EXCEPT !.win = win]
           a    == Reassemble(b, uh)
           runs == reordering_timer /\ ~(\/ RX_MOD_BASE(vr_ux, uh) <= RX_MOD_BASE(a.ur, uh)
                                         \/ ~inside_reordering_window(vr_ux, uh, a.win) /\ vr_ux # uh)
<1>1. vr_ux \in SN /\ vr_uh \in SN /\ lost \subseteq 0 .. taken - 1 /\ assembly \in Tight(taken, vr_uh)
      /\ taken \in Nat
  BY TakenType DEF UmInv
<1>2. CASE TooLate(pdu.sn) \/ pdu.sn \in DOMAIN assembly.win
  <2>1. lost' = lost \union UNION {Range(piece) : piece \in Range(pdu.pieces)} /\ UNCHANGED rx
    BY <1>2 DEF HandleDataPdu
  <2>2. UNION {Range(piece) : piece \in Range(pdu.pieces)} \subseteq 0 .. taken - 1
    BY <1>1, UnitsOfPdu, Zenon
  <2>3. lost' \subseteq 0 .. taken - 1
    BY <1>1, <2>1, <2>2, Zenon
  <2>4. vr_ux' = vr_ux /\ vr_uh' = vr_uh /\ assembly' = assembly /\ reordering_timer' = reordering_timer
        /\ expiring' = expiring
    BY <2>1 DEF rx
  <2> QED
    BY <1>1, <2>3, <2>4, Zenon DEF GapIsTimed
<1>3. CASE ~(TooLate(pdu.sn) \/ pdu.sn \in DOMAIN assembly.win)
  <2>1. vr_uh' = uh /\ assembly' = a /\ SetTimer(runs, ~runs /\ Waits(uh, a), uh)
        /\ UNCHANGED <<expiring, lost>>
    BY <1>3, Zenon DEF HandleDataPdu
  <2>2. uh \in SN /\ b \in Loose(taken, uh)
    <3> HIDE DEF b, uh, win
    <3>1. win = Put(assembly.win, pdu.sn, pdu)
      BY DEF win
    <3>2. uh = IF inside_reordering_window(pdu.sn, vr_uh, win) THEN vr_uh ELSE Shift(pdu.sn, 1)
      BY DEF uh
    <3>3. b = [assembly EXCEPT !.win = win]
      BY DEF b
    <3> QED
      BY <1>3, <3>1, <3>2, <3>3, PutLoose
  <2> HIDE DEF b, uh
  <2>3. a \in Tight(taken, uh)
    BY <1>1, <2>2, ReassembleTightens
  <2> HIDE DEF a, runs
  <2>4. vr_ux' \in SN
    BY <1>1, <2>1, <2>2, Zenon DEF SetTimer
  <2>5. ASSUME rx_window_size > 0 PROVE GapIsTimed'
    <3> SUFFICES ASSUME a.win # <<>> PROVE reordering_timer'
      BY <2>1 DEF GapIsTimed
    <3>1. Waits(uh, a)
      BY <1>1, <2>2, <2>3, <2>5, GapWaits
    <3> QED
      BY <2>1, <3>1, Zenon DEF SetTimer
  <2> QED
    BY <1>1, <2>1, <2>2, <2>3, <2>4, <2>5
<1> QED
  BY <1>2, <1>3

LEMMA PduArrivesInv ==
    ASSUME UmInv, NEW i \in {1, 2}, PduArrives(i)
    PROVE  UmInv' /\ (rx_window_size > 0 /\ GapIsTimed => GapIsTimed')
<1> DEFINE still == IF i = 2 THEN [air EXCEPT ![1].late = TRUE] ELSE air
<1>1. i \in DOMAIN air /\ air' = SubSeq(still, 1, i - 1) \o SubSeq(still, i + 1, Len(still))
      /\ HandleDataPdu(air[i]) /\ UNCHANGED <<tx, losses, disturbed>>
  BY DEF PduArrives, RemoveAt
<1>2. air \in Seq(Pdus(taken))
  BY DEF UmInv
<1>3. air[i] \in Pdus(taken)
  BY <1>1, <1>2
<1>4. still \in Seq(Pdus(taken)) /\ Len(still) = Len(air)
  <2>1. CASE i = 2
    <3>1. 1 \in DOMAIN air
      BY <1>1, <1>2, <2>1
    <3>2. air[1] \in Pdus(taken)
      BY <1>2, <3>1
    <3>3. [air[1] EXCEPT !.late = TRUE] \in Pdus(taken)
      BY <3>2 DEF Pdus
    <3>4. still = [air EXCEPT ![1] = [air[1] EXCEPT !.late = TRUE]]
      BY <2>1
    <3> QED
      BY <1>2, <3>1, <3>3, <3>4
  <2>2. CASE i # 2
    BY <1>2, <2>2
  <2> QED
    BY <2>1, <2>2
<1> HIDE DEF still
<1>5. air' \in Seq(Pdus(taken))
  <2>1. i \in 1 .. Len(still)
    BY <1>1, <1>2, <1>4
  <2> QED
    BY <1>1, <1>4, <2>1
<1>6. /\ vr_ux' \in SN /\ vr_uh' \in SN /\ lost' \subseteq 0 .. taken - 1
      /\ assembly' \in Tight(taken, vr_uh')
      /\ rx_window_size > 0 /\ GapIsTimed => GapIsTimed'
  BY <1>1, <1>3, HandleDataPduInv, Zenon
<1>7. written' = written /\ taken' = taken /\ tx_sdu' = tx_sdu /\ vt_us' = vt_us /\ bare' = bare
  BY <1>1 DEF tx
<1> QED
  BY <1>5, <1>6, <1>7, Zenon DEF UmInv

LEMMA TimerStepInv == ASSUME UmInv, TimerStep PROVE UmInv' /\ GapIsTimed'
<1>1. expiring' = TRUE /\ UNCHANGED <<tx, link, vr_ux, vr_uh, assembly>>
  BY DEF TimerStep
<1> QED
  BY <1>1 DEF UmInv, GapIsTimed, tx, link

LEMMA TimerExpiredInv ==
    ASSUME UmInv, TimerExpired PROVE UmInv' /\ (rx_window_size > 0 => GapIsTimed')
<1> DEFINE b == [assembly EXCEPT !.lost = TRUE, !.sdu = <<>>]
<1>1. assembly' = SkipMissing(b) /\ SetTimer(reordering_timer, Waits(vr_uh, assembly'), vr_uh)
      /\ UNCHANGED <<tx, link, vr_uh>>
  BY DEF TimerExpired
<1>2. assembly \in Tight(taken, vr_uh) /\ vr_uh \in SN /\ vr_ux \in SN /\ taken \in Nat
  BY TakenType DEF UmInv
<1>3. b \in Tight(taken, vr_uh)
  <2>1. <<>> \in Seq(0 .. taken - 1)
    OBVIOUS
  <2>2. assembly \in Assemblies(taken)
    BY <1>2 DEF Tight
  <2>3. b \in Assemblies(taken) /\ b.ur = assembly.ur /\ b.win = assembly.win
    BY <2>1, <2>2 DEF Assemblies
  <2> HIDE DEF b
  <2> QED
    BY <1>2, <2>3 DEF Tight
<1> HIDE DEF b
<1>4. assembly' \in Tight(taken, vr_uh)
  BY <1>1, <1>2, <1>3, SkipTightens
<1>5. vr_ux' \in SN
  BY <1>1, <1>2, Zenon DEF SetTimer
<1>6. UmInv'
  BY <1>1, <1>4, <1>5 DEF UmInv, tx, link
<1>7. ASSUME rx_window_size > 0 PROVE GapIsTimed'
  <2> SUFFICES ASSUME assembly'.win # <<>> PROVE reordering_timer'
    BY DEF GapIsTimed
  <2>1. Waits(vr_uh, assembly')
    BY <1>2, <1>4, <1>7, GapWaits
  <2> QED
    BY <1>1, <2>1, Zenon DEF SetTimer
<1> QED
  BY <1>6, <1>7

-----------------------------------------------------------------------------
(* A step                                                                  *)

LEMMA UmInvStep ==
    ASSUME UmInv, [Next]_vars PROVE UmInv' /\ (rx_window_size > 0 /\ GapIsTimed => GapIsTimed')
<1>1. ASSUME WriteSdu PROVE UmInv' /\ (GapIsTimed => GapIsTimed')
  <2>1. UNCHANGED rx
    BY <1>1 DEF WriteSdu
  <2> QED
    BY <1>1, <2>1, WriteSduInv DEF rx, GapIsTimed
<1>2. ASSUME NEW room \in Grants, NEW brink \in {FALSE, Brink}, BuildDataPdu(room, brink)
      PROVE  UmInv' /\ (GapIsTimed => GapIsTimed')
  <2>1. UNCHANGED rx
    BY <1>2 DEF BuildDataPdu
  <2> QED
    BY <1>2, <2>1, BuildDataPduInv DEF rx, GapIsTimed
<1>3. ASSUME NEW i \in {1, 2}, PduArrives(i)
      PROVE  UmInv' /\ (rx_window_size > 0 /\ GapIsTimed => GapIsTimed')
  BY <1>3, PduArrivesInv
<1>4. ASSUME TimerStep PROVE UmInv' /\ GapIsTimed'
  BY <1>4, TimerStepInv
<1>5. ASSUME TimerExpired PROVE UmInv' /\ (rx_window_size > 0 => GapIsTimed')
  BY <1>5, TimerExpiredInv
<1>6. ASSUME NEW i \in 1 .. MaxAir, LosePdu(i) PROVE UmInv' /\ (GapIsTimed => GapIsTimed')
  <2>1. UNCHANGED rx
    BY <1>6 DEF LosePdu
  <2> QED
    BY <1>6, <2>1, LosePduInv DEF rx, GapIsTimed
<1>7. ASSUME UNCHANGED vars PROVE UmInv' /\ (GapIsTimed => GapIsTimed')
  BY <1>7 DEF vars, tx, link, rx, UmInv, GapIsTimed
<1> QED
  BY <1>1, <1>2, <1>3, <1>4, <1>5, <1>6, <1>7, Zenon DEF Next

-----------------------------------------------------------------------------
(* The stream of SDUs.  A unit at which an SDU begins is a multiple of     *)
(* SduUnits.                                                               *)

Begins(b) == b % SduUnits = 0

LEMMA StreamSizes == SduUnits \in Nat /\ SduUnits > 0
BY StreamAssumption

LEMMA BeginsIs ==
    ASSUME NEW b \in Int
    PROVE  Begins(b) <=> \E k \in Int : b = k * SduUnits
<1>1. ASSUME Begins(b) PROVE \E k \in Int : b = k * SduUnits
  <2>1. b \div SduUnits \in Int /\ b = (b \div SduUnits) * SduUnits + (b % SduUnits)
    BY StreamSizes, ModDef
  <2>2. b % SduUnits = 0
    BY <1>1 DEF Begins
  <2> DEFINE k == b \div SduUnits
             r == b % SduUnits
  <2>3. k \in Int /\ b = k * SduUnits + r /\ r = 0
    BY <2>1, <2>2
  <2> HIDE DEF k, r
  <2>4. k * SduUnits \in Int
    BY <2>3, StreamSizes
  <2>5. b = k * SduUnits
    BY <2>3, <2>4
  <2> QED
    BY <2>3, <2>5
<1>2. ASSUME NEW k \in Int, b = k * SduUnits PROVE Begins(b)
  <2>1. b = k * SduUnits + 0 /\ 0 \in 0 .. SduUnits - 1
    <3>1. k * SduUnits \in Int
      BY StreamSizes
    <3> QED
      BY <1>2, <3>1, StreamSizes
  <2>2. b % SduUnits = 0
    BY <2>1, StreamSizes, ModUnique
  <2> QED
    BY <2>2 DEF Begins
<1> QED
  BY <1>1, <1>2

LEMMA BeginsTimes == ASSUME NEW k \in Int PROVE k * SduUnits \in Int /\ Begins(k * SduUnits)
<1>1. k * SduUnits \in Int
  BY StreamSizes
<1> DEFINE b == k * SduUnits
<1> HIDE DEF b
<1>2. b \in Int /\ \E j \in Int : b = j * SduUnits
  BY <1>1 DEF b
<1> QED
  BY <1>2, BeginsIs DEF b

\* An SDU is followed by the next.
LEMMA BeginsNext == ASSUME NEW b \in Int, Begins(b) PROVE Begins(b + SduUnits)
<1>1. PICK k \in Int : b = k * SduUnits
  BY BeginsIs
<1>2. (k + 1) * SduUnits = k * SduUnits + SduUnits /\ k + 1 \in Int
  BY StreamSizes
<1>3. Begins((k + 1) * SduUnits)
  BY <1>2, BeginsTimes
<1> QED
  BY <1>1, <1>2, <1>3

LEMMA BeginsApart ==
    ASSUME NEW b \in Int, NEW c \in Int, Begins(b), Begins(c), b < c PROVE b + SduUnits <= c
<1>1. PICK k \in Int : b = k * SduUnits
  BY BeginsIs
<1>2. PICK j \in Int : c = j * SduUnits
  BY BeginsIs
<1>3. k < j
  BY <1>1, <1>2, StreamSizes, TimesOrder
<1>4. (k + 1) * SduUnits <= j * SduUnits
  <2>1. k + 1 \in Int /\ k + 1 <= j
    BY <1>3
  <2> DEFINE m == k + 1
  <2> HIDE DEF m
  <2> QED
    BY <2>1, StreamSizes, TimesOrder DEF m
<1>5. (k + 1) * SduUnits = k * SduUnits + SduUnits
  BY StreamSizes
<1> QED
  BY <1>1, <1>2, <1>4, <1>5

\* The SDU that a unit belongs to.
LEMMA BeginsBefore ==
    ASSUME NEW c \in Nat
    PROVE  \E b \in Nat : Begins(b) /\ b <= c /\ c < b + SduUnits
<1> DEFINE k == c \div SduUnits
           r == c % SduUnits
<1>1. k \in Int /\ r \in 0 .. SduUnits - 1 /\ c = k * SduUnits + r
  BY StreamSizes, ModDef
<1> HIDE DEF k, r
<1>2. k * SduUnits \in Int /\ Begins(k * SduUnits)
  BY <1>1, BeginsTimes
<1>3. 0 \in Int /\ Begins(0) /\ 0 <= c
  BY StreamSizes, ModSmall DEF Begins
<1> DEFINE b == k * SduUnits
<1> HIDE DEF b
<1>4. b \in Int /\ Begins(b) /\ b <= c /\ c < b + SduUnits
  BY <1>1, <1>2, StreamSizes DEF b
<1>5. b \in Nat
  <2>1. b < 0 => b + SduUnits <= 0
    BY <1>3, <1>4, BeginsApart
  <2> QED
    BY <1>3, <1>4, <2>1, StreamSizes
<1> QED
  BY <1>4, <1>5

LEMMA EndsAt == ASSUME NEW c \in Int PROVE EndsSdu(c - 1) <=> Begins(c)
<1>1. c - 1 + 1 = c
  OBVIOUS
<1> QED
  BY <1>1 DEF EndsSdu, Begins

-----------------------------------------------------------------------------
(* Sequences of units                                                      *)

LEMMA UnitsIs ==
    ASSUME NEW from \in Nat, NEW to \in Nat, from <= to
    PROVE  /\ Units(from, to) \in Seq(Nat) /\ Len(Units(from, to)) = to - from
           /\ \A i \in 1 .. to - from : Units(from, to)[i] = from + i - 1
<1> DEFINE n == to - from
           u == [i \in 1 .. n |-> from + i - 1]
<1>1. n \in Nat /\ \A i \in 1 .. n : from + i - 1 \in Nat
  OBVIOUS
<1> HIDE DEF n
<1>2. u \in Seq(Nat) /\ Len(u) = n /\ \A i \in 1 .. n : u[i] = from + i - 1
  BY <1>1
<1>3. Units(from, to) = u
  BY DEF Units, n
<1> HIDE DEF u
<1> QED
  BY <1>2, <1>3 DEF n

LEMMA UnitsJoin ==
    ASSUME NEW a \in Nat, NEW b \in Nat, NEW c \in Nat, a <= b, b <= c
    PROVE  Units(a, b) \o Units(b, c) = Units(a, c)
<1> DEFINE u == Units(a, b)
           v == Units(b, c)
           w == Units(a, c)
           z == u \o v
<1>1. u \in Seq(Nat) /\ Len(u) = b - a /\ \A i \in 1 .. b - a : u[i] = a + i - 1
  BY UnitsIs
<1>2. v \in Seq(Nat) /\ Len(v) = c - b /\ \A i \in 1 .. c - b : v[i] = b + i - 1
  BY UnitsIs
<1>3. w \in Seq(Nat) /\ Len(w) = c - a /\ \A i \in 1 .. c - a : w[i] = a + i - 1
  <2>1. a <= c
    OBVIOUS
  <2> QED
    BY <2>1, UnitsIs
<1> HIDE DEF u, v, w
<1>4. /\ z \in Seq(Nat) /\ Len(z) = c - a
      /\ \A i \in 1 .. c - a : z[i] = IF i <= b - a THEN u[i] ELSE v[i - (b - a)]
  <2>1. /\ z \in Seq(Nat) /\ Len(z) = Len(u) + Len(v)
        /\ \A i \in 1 .. Len(u) + Len(v) : z[i] = IF i <= Len(u) THEN u[i] ELSE v[i - Len(u)]
    BY <1>1, <1>2, ConcatProperties
  <2>2. Len(u) + Len(v) = c - a
    BY <1>1, <1>2
  <2> HIDE DEF z
  <2> QED
    BY <1>1, <2>1, <2>2
<1> HIDE DEF z
<1>5. ASSUME NEW i \in 1 .. c - a PROVE z[i] = w[i]
  <2>1. CASE i <= b - a
    <3>1. i \in 1 .. b - a
      BY <2>1
    <3> QED
      BY <1>1, <1>3, <1>4, <2>1, <3>1
  <2>2. CASE ~ i <= b - a
    <3>1. i - (b - a) \in 1 .. c - b
      BY <2>2
    <3>2. z[i] = v[i - (b - a)] /\ v[i - (b - a)] = b + (i - (b - a)) - 1
      BY <1>2, <1>4, <2>2, <3>1
    <3> QED
      BY <1>3, <3>2
  <2> QED
    BY <2>1, <2>2
<1>6. z = w
  BY <1>3, <1>4, <1>5, SeqEqual
<1> QED
  BY <1>6 DEF u, v, w, z

LEMMA UnitsNone == ASSUME NEW a \in Nat PROVE Units(a, a) = <<>>
<1>1. Units(a, a) \in Seq(Nat) /\ Len(Units(a, a)) = 0
  <2>1. a <= a /\ a - a = 0
    OBVIOUS
  <2> QED
    BY <2>1, UnitsIs
<1> QED
  BY <1>1

-----------------------------------------------------------------------------
(* What a PDU holds: pieces of consecutive SDUs, which begin at base[1],   *)
(* base[2] and so on.  The first may lack its start, the last its end.     *)

Laid(base, p, from, to) ==
    /\ Len(p) \in Nat \ {0} /\ base \in [1 .. Len(p) -> Nat]
    /\ \A j \in 1 .. Len(p) : Begins(base[j])
    /\ \A j \in 1 .. Len(p) :
         p[j] = Units(IF j = 1 THEN from ELSE base[j], IF j = Len(p) THEN to ELSE base[j] + SduUnits)
    /\ base[1] <= from /\ from < base[1] + SduUnits
    /\ base[Len(p)] <= to /\ to <= base[Len(p)] + SduUnits
    /\ \A i, j \in 1 .. Len(p) : i < j => base[i] + SduUnits <= base[j]
    /\ \A e \in Nat : Begins(e) /\ base[1] <= e /\ e < base[Len(p)]
                        => \E i \in 1 .. Len(p) - 1 : e = base[i]

LEMMA PiecesLaid ==
    ASSUME NEW from \in Nat, NEW to \in Nat, from < to
    PROVE  \E base : Laid(base, Pieces(from, to), from, to) /\ base[Len(Pieces(from, to))] < to
<1> DEFINE S == SduUnits
           first == from \div S
           last  == (to - 1) \div S
           k == last - first + 1
           at(j) == (first + j - 1) * S
           lo(j) == Max({from, at(j)})
           hi(j) == Min({to, (first + j) * S})
           p == Pieces(from, to)
<1>1. S \in Nat /\ S > 0 /\ to - 1 \in Int /\ from <= to - 1
  BY StreamSizes
<1>2. first \in Int /\ last \in Int /\ first <= last
  BY <1>1, ModDef, DivMono
<1>3. first * S <= from /\ from < first * S + S /\ first * S \in Int
  <2> DEFINE r == from % S
  <2>1. r \in 0 .. S - 1 /\ from = first * S + r
    BY <1>1, ModDef
  <2> HIDE DEF r, first
  <2>2. first * S \in Int
    BY <1>1, <1>2
  <2> QED
    BY <2>1, <2>2, <1>1
<1>4. last * S <= to - 1 /\ to - 1 < last * S + S /\ last * S \in Int
  <2> DEFINE r == (to - 1) % S
  <2>1. r \in 0 .. S - 1 /\ to - 1 = last * S + r
    BY <1>1, ModDef
  <2> HIDE DEF r, last
  <2>2. last * S \in Int
    BY <1>1, <1>2
  <2> QED
    BY <2>1, <2>2, <1>1
<1>5. p = [j \in 1 .. k |-> Units(lo(j), hi(j))]
  BY Zenon DEF Pieces
<1> HIDE DEF p, first, last
<1>6. k \in Nat \ {0}
  BY <1>2
<1>7. \A j \in Int : at(j) \in Int /\ Begins(at(j)) /\ (first + j) * S = at(j) + S
  <2> SUFFICES ASSUME NEW j \in Int PROVE at(j) \in Int /\ Begins(at(j)) /\ (first + j) * S = at(j) + S
    OBVIOUS
  <2>1. first + j - 1 \in Int
    BY <1>2
  <2>2. at(j) \in Int /\ Begins(at(j))
    BY <2>1, BeginsTimes
  <2>3. (first + j) * S = at(j) + S
    <3> DEFINE m == first + j - 1
    <3>1. m \in Int /\ first + j = m + 1
      BY <2>1, <1>2
    <3> HIDE DEF m
    <3>2. (m + 1) * S = m * S + S
      BY <1>1, <3>1
    <3> QED
      BY <3>1, <3>2 DEF m
  <2> QED
    BY <2>2, <2>3
<1>8. \A i, j \in Int : i < j => at(i) + S <= at(j)
  <2> SUFFICES ASSUME NEW i \in Int, NEW j \in Int, i < j PROVE at(i) + S <= at(j)
    OBVIOUS
  <2>1. at(i) < at(j)
    <3> DEFINE a == first + i - 1
               b == first + j - 1
    <3>1. a \in Int /\ b \in Int /\ a < b
      BY <1>2
    <3> HIDE DEF a, b
    <3> QED
      BY <1>1, <3>1, TimesOrder DEF a, b
  <2> HIDE DEF at
  <2> QED
    BY <1>7, <2>1, BeginsApart
<1>9. at(1) = first * S /\ at(k) = last * S
  <2>1. first + 1 - 1 = first /\ first + k - 1 = last
    BY <1>2
  <2> QED
    BY <2>1
<1>10. at(1) \in Nat
  <2>1. 0 \in Int /\ Begins(0)
    BY <1>1, ModSmall DEF Begins
  <2> HIDE DEF at
  <2>2. at(1) \in Int /\ Begins(at(1))
    <3>1. 1 \in Int
      OBVIOUS
    <3> QED
      BY <1>7, <3>1
  <2> DEFINE b == at(1)
  <2>3. b \in Int /\ Begins(b) /\ from < b + S
    <3>1. from < b + S
      BY <1>3, <1>9
    <3> QED
      BY <2>2, <3>1
  <2> HIDE DEF b
  <2>4. b < 0 => b + S <= 0
    BY <2>1, <2>3, BeginsApart
  <2>5. b \in Nat
    BY <1>1, <2>3, <2>4
  <2> QED
    BY <2>5 DEF b
<1> HIDE DEF k
<1>11. \A j \in 1 .. k : at(j) \in Nat
  <2> SUFFICES ASSUME NEW j \in 1 .. k PROVE at(j) \in Nat
    OBVIOUS
  <2>1. 1 < j => at(1) + S <= at(j)
    BY <1>8
  <2>2. at(j) \in Int
    BY <1>7
  <2> HIDE DEF at
  <2>3. j = 1 \/ 1 < j
    OBVIOUS
  <2> QED
    BY <1>1, <1>10, <2>1, <2>2, <2>3
<1>12. ASSUME NEW j \in 1 .. k
       PROVE  p[j] = Units(IF j = 1 THEN from ELSE at(j), IF j = k THEN to ELSE at(j) + S)
  <2>1. at(j) \in Int /\ j \in Int /\ k \in Int
    <3>1. j \in Int /\ k \in Int
      BY <1>6
    <3> HIDE DEF at
    <3> QED
      BY <1>7, <3>1
  <2>2. lo(j) = IF from >= at(j) THEN from ELSE at(j)
    <3> HIDE DEF at
    <3> QED
      BY <2>1, GreaterOf
  <2>3. lo(j) = IF j = 1 THEN from ELSE at(j)
    <3>1. CASE j = 1
      BY <1>3, <1>9, <2>2, <3>1
    <3>2. CASE j # 1
      <4>1. at(1) + S <= at(j)
        BY <1>8, <2>1, <3>2
      <4> HIDE DEF at, lo
      <4> QED
        BY <1>1, <1>3, <1>9, <2>1, <2>2, <3>2, <4>1
    <3> QED
      BY <3>1, <3>2
  <2>4. hi(j) = IF to <= at(j) + S THEN to ELSE at(j) + S
    <3>1. (first + j) * S = at(j) + S /\ at(j) + S \in Int
      BY <1>1, <1>7, <2>1
    <3> HIDE DEF at
    <3> QED
      BY <3>1, LesserOf
  <2>5. hi(j) = IF j = k THEN to ELSE at(j) + S
    <3>1. CASE j = k
      <4>1. to <= at(j) + S
        BY <1>1, <1>4, <1>9, <3>1
      <4> QED
        BY <2>4, <3>1, <4>1
    <3>2. CASE j # k
      <4>1. at(j) + S <= at(k)
        BY <1>8, <2>1, <3>2
      <4> HIDE DEF at, hi
      <4>2. ~ (to <= at(j) + S)
        BY <1>1, <1>4, <1>9, <2>1, <4>1
      <4> QED
        BY <2>4, <3>2, <4>2
    <3> QED
      BY <3>1, <3>2
  <2> HIDE DEF at, lo, hi
  <2> QED
    BY <1>5, <2>3, <2>5
<1> DEFINE base == [j \in 1 .. k |-> at(j)]
<1>13. Len(p) = k
  <2> HIDE DEF lo, hi
  <2> QED
    BY <1>5, <1>6
<1>14. base \in [1 .. k -> Nat] /\ \A j \in 1 .. k : base[j] = at(j)
  BY <1>11
<1>15. ASSUME NEW e \in Nat, Begins(e), base[1] <= e, e < base[k]
       PROVE  \E i \in 1 .. k - 1 : e = base[i]
  <2>1. PICK m \in Int : e = m * S
    BY <1>15, BeginsIs
  <2> DEFINE i == m - first + 1
  <2>2. i \in Int /\ first + i - 1 = m
    BY <1>2
  <2>3. at(i) = e
    BY <2>1, <2>2
  <2>4. 1 \in 1 .. k /\ k \in 1 .. k
    BY <1>6
  <2>5. at(1) <= at(i) /\ at(i) < at(k)
    BY <1>14, <1>15, <2>3, <2>4
  <2> HIDE DEF i
  <2>6. ~ (i < 1) /\ ~ (k < i) /\ i # k
    <3>1. i < 1 => at(i) + S <= at(1)
      BY <1>8, <2>2
    <3>2. k < i => at(k) + S <= at(i)
      BY <1>6, <1>8, <2>2
    <3>3. at(i) \in Int /\ at(1) \in Int /\ at(k) \in Int
      <4>1. k \in Int /\ 1 \in Int
        BY <1>6
      <4> HIDE DEF at
      <4> QED
        BY <1>7, <2>2, <4>1
    <3> HIDE DEF at
    <3> QED
      BY <1>1, <2>5, <3>1, <3>2, <3>3
  <2>7. i \in 1 .. k - 1 /\ i \in 1 .. k
    BY <1>6, <2>2, <2>6
  <2> HIDE DEF at, base
  <2> QED
    BY <1>14, <2>3, <2>7
<1>16. 1 \in 1 .. k /\ k \in 1 .. k /\ 1 .. k \subseteq Int
  BY <1>6
<1>17. base[1] <= from /\ from < base[1] + S /\ base[k] < to /\ to <= base[k] + S
  BY <1>1, <1>3, <1>4, <1>9, <1>14, <1>16
<1>18. \A i, j \in 1 .. k : i < j => base[i] + S <= base[j]
  BY <1>8, <1>14, <1>16, Zenon
<1>19. \A j \in 1 .. k : Begins(base[j])
  BY <1>7, <1>14, <1>16, Zenon
<1>20. base[k] <= to
  <2>1. base[k] \in Int
    BY <1>14, <1>16
  <2> HIDE DEF base
  <2> QED
    BY <1>17, <2>1
<1>21. \A j \in 1 .. k : p[j] = Units(IF j = 1 THEN from ELSE base[j], IF j = k THEN to ELSE base[j] + S)
  BY <1>12, <1>14, Zenon
<1> HIDE DEF base
<1>22. Laid(base, p, from, to)
  BY <1>6, <1>13, <1>14, <1>15, <1>17, <1>18, <1>19, <1>20, <1>21, Zenon DEF Laid
<1> QED
  BY <1>13, <1>17, <1>22, Zenon DEF p

\* What build_data_pdu puts into a PDU with the units from .. to - 1, if an SDU is
\* begun when it is built.
Cut(from, to, begun) ==
    IF begun /\ EndsSdu(to - 1) THEN Append(Pieces(from, to), <<>>) ELSE Pieces(from, to)

LEMMA CutLaid ==
    ASSUME NEW from \in Nat, NEW to \in Nat, from < to, NEW begun \in BOOLEAN, ~begun => Begins(to)
    PROVE  \E base : /\ Laid(base, Cut(from, to, begun), from, to)
                     /\ begun <=> to < base[Len(Cut(from, to, begun))] + SduUnits
<1> DEFINE S == SduUnits
           p == Pieces(from, to)
           k == Len(p)
<1>1. S \in Nat /\ S > 0
  BY StreamSizes
<1>2. PICK base : Laid(base, p, from, to) /\ base[k] < to
  BY PiecesLaid
<1>3. k \in Nat \ {0} /\ base \in [1 .. k -> Nat] /\ k \in 1 .. k
  BY <1>2 DEF Laid
<1>4. base[k] \in Nat /\ Begins(base[k]) /\ to <= base[k] + S
  BY <1>2, <1>3 DEF Laid
<1>5. EndsSdu(to - 1) <=> Begins(to)
  BY EndsAt
<1>6. Begins(to) => to = base[k] + S
  <2> DEFINE b == base[k]
  <2>1. b \in Int /\ to \in Int /\ Begins(b) /\ b < to /\ to <= b + S
    BY <1>2, <1>4
  <2> HIDE DEF b
  <2>2. Begins(to) => b + S <= to
    BY <2>1, BeginsApart
  <2>3. Begins(to) => to = b + S
    BY <1>1, <2>1, <2>2
  <2> QED
    BY <2>3 DEF b
<1>7. ~Begins(to) => to < base[k] + S
  <2> DEFINE b == base[k]
  <2>1. b \in Int /\ to \in Int /\ Begins(b) /\ to <= b + S
    BY <1>4
  <2> HIDE DEF b
  <2>2. Begins(b + S)
    BY <2>1, BeginsNext
  <2>3. ~Begins(to) => to # b + S
    BY <2>2
  <2>4. ~Begins(to) => to < b + S
    BY <1>1, <2>1, <2>3
  <2> QED
    BY <2>4 DEF b
<1>8. CASE begun /\ Begins(to)
  <2> DEFINE c == Append(p, <<>>)
             at == [j \in 1 .. k + 1 |-> IF j = k + 1 THEN to ELSE base[j]]
  <2>1. Cut(from, to, begun) = c
    BY <1>5, <1>8 DEF Cut
  <2>2. p \in Seq(Seq(0 .. to - 1))
    BY PiecesType
  <2> HIDE DEF p
  <2>3. Len(c) = k + 1 /\ c[k + 1] = <<>> /\ \A j \in 1 .. k : c[j] = p[j]
    BY <2>2
  <2>4. at \in [1 .. k + 1 -> Nat] /\ at[k + 1] = to /\ \A j \in 1 .. k : at[j] = base[j]
    BY <1>3
  <2> HIDE DEF c, at, k
  <2>5. \A j \in 1 .. k + 1 : j = k + 1 \/ j \in 1 .. k
    BY <1>3
  <2>6. \A j \in 1 .. k + 1 : Begins(at[j])
    BY <1>2, <1>8, <2>4, <2>5 DEF Laid, k
  <2>7. to = base[k] + S
    BY <1>6, <1>8
  <2>8. ASSUME NEW j \in 1 .. k + 1
        PROVE  c[j] = Units(IF j = 1 THEN from ELSE at[j], IF j = k + 1 THEN to ELSE at[j] + S)
    <3>1. CASE j = k + 1
      <4>1. Units(to, to) = <<>>
        BY UnitsNone
      <4>2. j # 1
        BY <1>3, <3>1
      <4> QED
        BY <2>3, <2>4, <3>1, <4>1, <4>2
    <3>2. CASE j \in 1 .. k
      <4>1. p[j] = Units(IF j = 1 THEN from ELSE base[j], IF j = k THEN to ELSE base[j] + S)
        BY <1>2, <3>2 DEF Laid, k
      <4>2. j # k + 1
        BY <1>3, <3>2
      <4>3. c[j] = p[j] /\ at[j] = base[j]
        BY <2>3, <2>4, <3>2
      <4> QED
        BY <2>7, <4>1, <4>2, <4>3
    <3> QED
      BY <2>5, <3>1, <3>2
  <2>9. 1 \in 1 .. k /\ k + 1 \in 1 .. k + 1 /\ k + 1 - 1 = k
    BY <1>3
  <2>10. at[1] <= from /\ from < at[1] + S /\ at[k + 1] <= to /\ to <= at[k + 1] + S
    <3>1. base[1] <= from /\ from < base[1] + S
      BY <1>2 DEF Laid
    <3> QED
      BY <1>1, <2>4, <2>9, <3>1
  <2>11. ASSUME NEW i \in 1 .. k + 1, NEW j \in 1 .. k + 1, i < j PROVE at[i] + S <= at[j]
    <3>1. i \in 1 .. k
      BY <1>3, <2>11
    <3>2. at[i] = base[i] /\ base[i] \in Nat
      BY <1>3, <2>4, <3>1
    <3>3. i # k => base[i] + S <= base[k]
      <4>1. i < k \/ i = k
        BY <1>3, <3>1
      <4> QED
        BY <1>2, <1>3, <3>1, <4>1 DEF Laid, k
    <3>4. CASE j = k + 1
      BY <1>1, <1>4, <2>4, <2>7, <3>2, <3>3, <3>4
    <3>5. CASE j \in 1 .. k
      <4>1. base[i] + S <= base[j]
        BY <1>2, <2>11, <3>1, <3>5 DEF Laid, k
      <4> QED
        BY <2>4, <3>2, <3>5, <4>1
    <3> QED
      BY <2>5, <3>4, <3>5
  <2>12. ASSUME NEW e \in Nat, Begins(e), at[1] <= e, e < at[k + 1]
         PROVE  \E i \in 1 .. k : e = at[i]
    <3>1. base[1] <= e /\ e < base[k] + S
      BY <2>4, <2>7, <2>9, <2>12
    <3>2. CASE e < base[k]
      <4>1. PICK i \in 1 .. k - 1 : e = base[i]
        BY <1>2, <2>12, <3>1, <3>2 DEF Laid, k
      <4>2. i \in 1 .. k
        BY <1>3
      <4> QED
        BY <2>4, <4>1, <4>2
    <3>3. CASE ~ (e < base[k])
      <4> DEFINE b == base[k]
      <4>1. b \in Int /\ Begins(b) /\ e \in Int /\ b <= e /\ e < b + S
        BY <1>4, <3>1, <3>3
      <4> HIDE DEF b
      <4>2. b < e => b + S <= e
        BY <2>12, <4>1, BeginsApart
      <4>3. e = b
        BY <1>1, <4>1, <4>2
      <4> QED
        BY <1>3, <2>4, <4>3 DEF b
    <3> QED
      BY <3>2, <3>3
  <2>13. k + 1 \in Nat \ {0}
    BY <1>3
  <2>14. Laid(at, c, from, to)
    <3> DEFINE m == k + 1
    <3>1. Len(c) = m
      BY <2>3
    <3>2. m - 1 = k
      BY <1>3
    <3> HIDE DEF m
    <3>3. \A e \in Nat : Begins(e) /\ at[1] <= e /\ e < at[m] => \E i \in 1 .. m - 1 : e = at[i]
      BY <2>12, <3>2, Zenon DEF m
    <3> QED
      BY <2>4, <2>6, <2>8, <2>10, <2>11, <2>13, <3>1, <3>3, Zenon DEF Laid, m
  <2>15. to < at[k + 1] + S
    BY <1>1, <2>4
  <2> QED
    BY <1>8, <2>1, <2>3, <2>14, <2>15, Zenon
<1>9. CASE ~(begun /\ Begins(to))
  <2>1. Cut(from, to, begun) = p
    BY <1>5, <1>9 DEF Cut
  <2>2. begun <=> to < base[k] + S
    <3>1. CASE begun
      BY <1>7, <1>9, <3>1
    <3>2. CASE ~begun
      BY <1>1, <1>4, <1>6, <3>2
    <3> QED
      BY <3>1, <3>2
  <2> QED
    BY <1>2, <2>1, <2>2, Zenon
<1> QED
  BY <1>8, <1>9

-----------------------------------------------------------------------------
(* What PDCP has got: whole SDUs in order, here the ones from lo to hi      *)

IsSdu(x, lo, hi) ==
    \E b \in Nat : Begins(b) /\ lo <= b /\ b + SduUnits <= hi /\ x = Units(b, b + SduUnits)

Outs(s, lo, hi) ==
    /\ s \in Seq(Seq(Nat))
    /\ \A i \in 1 .. Len(s) : IsSdu(s[i], lo, hi)
    /\ \A i, j \in 1 .. Len(s) : i < j => Head(s[i]) < Head(s[j])

LEMMA HeadOf ==
    ASSUME NEW b \in Nat PROVE Head(Units(b, b + SduUnits)) = b /\ Units(b, b + SduUnits) # <<>>
<1> DEFINE to == b + SduUnits
<1>1. to \in Nat /\ b <= to /\ to - b = SduUnits /\ 1 \in 1 .. SduUnits
  BY StreamSizes
<1> HIDE DEF to
<1> DEFINE x == Units(b, to)
<1>2. x \in Seq(Nat) /\ Len(x) = to - b /\ \A i \in 1 .. to - b : x[i] = b + i - 1
  BY <1>1, UnitsIs
<1> HIDE DEF x
<1>3. x[1] = b /\ Len(x) # 0
  BY <1>1, <1>2, StreamSizes
<1>4. Head(x) = b /\ x # <<>>
  BY <1>2, <1>3
<1> QED
  BY <1>4 DEF x, to

LEMMA HeadBetween ==
    ASSUME NEW x, NEW lo \in Int, NEW hi \in Int, IsSdu(x, lo, hi)
    PROVE  Head(x) \in Nat /\ lo <= Head(x) /\ Head(x) + SduUnits <= hi
<1>1. PICK b \in Nat : lo <= b /\ b + SduUnits <= hi /\ x = Units(b, b + SduUnits)
  BY DEF IsSdu
<1>2. Head(x) = b
  BY <1>1, HeadOf
<1> QED
  BY <1>1, <1>2

LEMMA OutsNone == ASSUME NEW lo, NEW hi PROVE Outs(<<>>, lo, hi)
<1>1. <<>> \in Seq(Seq(Nat)) /\ 1 .. Len(<<>>) = {}
  OBVIOUS
<1> QED
  BY <1>1, Zenon DEF Outs

LEMMA OutsWiden ==
    ASSUME NEW s, NEW lo \in Int, NEW hi \in Int, NEW down \in Int, NEW up \in Int,
           Outs(s, lo, hi), down <= lo, hi <= up
    PROVE  Outs(s, down, up)
<1>1. ASSUME NEW i \in 1 .. Len(s) PROVE IsSdu(s[i], down, up)
  <2>1. PICK b \in Nat : Begins(b) /\ lo <= b /\ b + SduUnits <= hi /\ s[i] = Units(b, b + SduUnits)
    BY DEF Outs, IsSdu
  <2>2. down <= b /\ b + SduUnits <= up
    BY <2>1, StreamSizes
  <2> QED
    BY <2>1, <2>2, Zenon DEF IsSdu
<1> QED
  BY <1>1, Zenon DEF Outs

LEMMA OutsJoin ==
    ASSUME NEW s, NEW t, NEW lo \in Int, NEW mid \in Int, NEW hi \in Int,
           Outs(s, lo, mid), Outs(t, mid, hi), lo <= mid, mid <= hi
    PROVE  Outs(s \o t, lo, hi)
<1> DEFINE z == s \o t
           n == Len(s)
<1>1. s \in Seq(Seq(Nat)) /\ t \in Seq(Seq(Nat))
  BY DEF Outs
<1>2. /\ z \in Seq(Seq(Nat)) /\ Len(z) = n + Len(t)
      /\ \A i \in 1 .. n + Len(t) : z[i] = IF i <= n THEN s[i] ELSE t[i - n]
  BY <1>1, ConcatProperties
<1>3. n \in Nat /\ Len(t) \in Nat
  BY <1>1
<1> HIDE DEF z, n
<1>4. ASSUME NEW i \in 1 .. Len(z)
      PROVE  \/ i \in 1 .. n /\ z[i] = s[i] /\ IsSdu(z[i], lo, mid)
             \/ i - n \in 1 .. Len(t) /\ z[i] = t[i - n] /\ IsSdu(z[i], mid, hi) /\ n < i
  <2>1. CASE i <= n
    <3>1. i \in 1 .. n /\ z[i] = s[i]
      BY <1>2, <1>3, <2>1
    <3> QED
      BY <3>1 DEF Outs, n
  <2>2. CASE ~(i <= n)
    <3>1. i - n \in 1 .. Len(t) /\ z[i] = t[i - n] /\ n < i
      BY <1>2, <1>3, <2>2
    <3> QED
      BY <3>1 DEF Outs
  <2> QED
    BY <2>1, <2>2
<1>5. \A i \in 1 .. Len(z) : IsSdu(z[i], lo, hi)
  BY <1>4, StreamSizes DEF IsSdu
<1>6. ASSUME NEW i \in 1 .. Len(z), NEW j \in 1 .. Len(z), i < j PROVE Head(z[i]) < Head(z[j])
  <2>1. CASE j \in 1 .. n
    <3>1. i \in 1 .. n /\ z[i] = s[i] /\ z[j] = s[j]
      BY <1>2, <1>3, <1>6, <2>1
    <3> QED
      BY <1>6, <2>1, <3>1 DEF Outs, n
  <2>2. CASE n < i
    <3>1. i - n \in 1 .. Len(t) /\ z[i] = t[i - n] /\ j - n \in 1 .. Len(t) /\ z[j] = t[j - n]
          /\ i - n < j - n
      BY <1>2, <1>3, <1>6, <2>2
    <3> QED
      BY <3>1 DEF Outs
  <2>3. CASE i <= n /\ n < j
    <3>1. IsSdu(z[i], lo, mid)
      BY <1>3, <1>4, <2>3
    <3>2. IsSdu(z[j], mid, hi)
      <4>1. j \notin 1 .. n
        BY <1>3, <2>3
      <4> QED
        BY <1>4, <4>1
    <3>3. Head(z[i]) \in Nat /\ Head(z[i]) + SduUnits <= mid /\ mid <= Head(z[j]) /\ Head(z[j]) \in Nat
      BY <3>1, <3>2, HeadBetween
    <3> QED
      BY <3>3, StreamSizes
  <2> QED
    BY <1>2, <1>3, <2>1, <2>2, <2>3
<1> QED
  BY <1>2, <1>5, <1>6, Zenon DEF Outs, z

LEMMA OutsAppend ==
    ASSUME NEW s, NEW lo \in Int, NEW b \in Nat, Outs(s, lo, b), Begins(b), lo <= b
    PROVE  Outs(Append(s, Units(b, b + SduUnits)), lo, b + SduUnits)
<1> DEFINE x == Units(b, b + SduUnits)
           t == <<x>>
<1>1. x \in Seq(Nat) /\ b + SduUnits \in Int /\ b <= b + SduUnits
  <2>1. b + SduUnits \in Nat /\ b <= b + SduUnits
    BY StreamSizes
  <2> QED
    BY <2>1, UnitsIs
<1>2. IsSdu(x, b, b + SduUnits)
  BY <1>1 DEF IsSdu
<1> HIDE DEF x
<1>3. t \in Seq(Seq(Nat)) /\ Len(t) = 1 /\ t[1] = x
  BY <1>1
<1> HIDE DEF t
<1>4. Outs(t, b, b + SduUnits)
  BY <1>2, <1>3 DEF Outs
<1>5. Outs(s \o t, lo, b + SduUnits)
  BY <1>1, <1>4, OutsJoin
<1>6. Append(s, x) = s \o t
  <2>1. s \in Seq(Seq(Nat))
    BY DEF Outs
  <2> QED
    BY <1>1, <2>1 DEF t
<1> QED
  BY <1>5, <1>6 DEF x

\* SDUs that begin at consecutive bases of a PDU.
LEMMA OutsAt ==
    ASSUME NEW s \in Seq(Seq(Nat)), NEW base, NEW p, NEW from \in Nat, NEW to \in Nat,
           Laid(base, p, from, to), NEW d \in Nat, Len(s) + d = Len(p) - 1,
           \A i \in 1 .. Len(s) : s[i] = Units(base[i + d], base[i + d] + SduUnits)
    PROVE  Outs(s, base[1 + d], base[Len(p)])
<1> DEFINE k == Len(p)
           n == Len(s)
<1>1. k \in Nat \ {0} /\ base \in [1 .. k -> Nat] /\ n \in Nat /\ n + d = k - 1
  BY DEF Laid
<1>2. \A i, j \in 1 .. k : i < j => base[i] + SduUnits <= base[j]
  BY DEF Laid
<1>3. \A j \in 1 .. k : Begins(base[j]) /\ base[j] \in Nat
  BY <1>1 DEF Laid
<1> HIDE DEF k, n
<1>4. \A i, j \in 1 .. k : i <= j => base[i] <= base[j]
  <2> SUFFICES ASSUME NEW i \in 1 .. k, NEW j \in 1 .. k, i <= j PROVE base[i] <= base[j]
    OBVIOUS
  <2>1. base[i] \in Nat /\ base[j] \in Nat
    BY <1>3
  <2>2. CASE i = j
    BY <2>1, <2>2
  <2>3. CASE i < j
    BY <1>2, <2>1, <2>3, StreamSizes
  <2> QED
    BY <2>2, <2>3
<1>5. \A i \in 1 .. n : i + d \in 1 .. k /\ i + d < k /\ 1 + d <= i + d /\ 1 + d \in 1 .. k
  BY <1>1
<1>6. ASSUME NEW i \in 1 .. n PROVE IsSdu(s[i], base[1 + d], base[k])
  <2> DEFINE m == i + d
             f == 1 + d
  <2>1. m \in 1 .. k /\ m < k /\ f <= m /\ f \in 1 .. k /\ k \in 1 .. k
    BY <1>1, <1>5
  <2>2. s[i] = Units(base[m], base[m] + SduUnits)
    BY DEF n
  <2> HIDE DEF m, f
  <2>3. base[f] <= base[m] /\ base[m] + SduUnits <= base[k] /\ Begins(base[m]) /\ base[m] \in Nat
    BY <1>2, <1>3, <1>4, <2>1
  <2> QED
    BY <2>2, <2>3 DEF IsSdu, f
<1>7. ASSUME NEW i \in 1 .. n, NEW j \in 1 .. n, i < j PROVE Head(s[i]) < Head(s[j])
  <2> DEFINE m == i + d
             f == j + d
  <2>1. m \in 1 .. k /\ f \in 1 .. k /\ m < f
    BY <1>1, <1>5, <1>7
  <2>2. s[i] = Units(base[m], base[m] + SduUnits) /\ s[j] = Units(base[f], base[f] + SduUnits)
    BY DEF n
  <2> HIDE DEF m, f
  <2>3. base[m] + SduUnits <= base[f] /\ base[m] \in Nat /\ base[f] \in Nat
    BY <1>2, <1>3, <2>1
  <2>4. Head(s[i]) = base[m] /\ Head(s[j]) = base[f]
    BY <2>2, <2>3, HeadOf
  <2>5. base[m] < base[f]
    BY <2>3, StreamSizes
  <2> QED
    BY <2>4, <2>5, Zenon
<1> QED
  BY <1>6, <1>7 DEF Outs, k, n

-----------------------------------------------------------------------------
(* Copying.  Before the PDU with the units from .. to - 1 is copied, what   *)
(* has come out is before from; after it, before to.  What is begun is the *)
(* start of the SDU that the copying has got to.                           *)

\* Of the SDU that c is in there is what comes before c.
Begun(a, c) ==
    \E b \in Nat : Begins(b) /\ b < c /\ c < b + SduUnits /\ a.sdu = Units(b, c) /\ Outs(a.out, 0, b)

Got(a, c) == Outs(a.out, 0, c) /\ (a.sdu # <<>> => Begun(a, c))

\* A PDU that build_data_pdu has made of the units from .. to - 1; was and is say if
\* an SDU is begun before and after.
Made(pdu, from, to, was, is) ==
    /\ from \in Nat /\ to \in Nat /\ from < to /\ was \in BOOLEAN /\ is \in BOOLEAN
    /\ (~was => Begins(from)) /\ (~is => Begins(to))
    /\ pdu.start = ~was /\ pdu.end = ~is /\ pdu.pieces = Cut(from, to, is)

\* Its pieces are of the SDUs that begin at base[1], base[2] and so on.
Fits(base, pdu, from, to, was, is) ==
    /\ Made(pdu, from, to, was, is) /\ Laid(base, pdu.pieces, from, to)
    /\ is <=> to < base[Len(pdu.pieces)] + SduUnits

\* g has dealt with all pieces of it but the last.
AtLast(g, base, pdu, to) ==
    /\ Outs(g.out, 0, base[Len(pdu.pieces)])
    /\ g.sdu \o pdu.pieces[Len(pdu.pieces)] = Units(base[Len(pdu.pieces)], to)

LEMMA NatSeqs ==
    ASSUME NEW n \in Nat, NEW a \in Assemblies(n), NEW pdu \in Pdus(n)
    PROVE  /\ a.sdu \in Seq(Nat) /\ a.out \in Seq(Seq(Nat)) /\ pdu.pieces \in Seq(Seq(Nat))
           /\ Ended(a, pdu) \in Seq(Seq(Nat)) /\ pdu.pieces # <<>>
<1> DEFINE V == 0 .. n - 1
           W == Nat
<1>1. V \subseteq W
  OBVIOUS
<1>2. a.sdu \in Seq(V) /\ a.out \in Seq(Seq(V)) /\ pdu.pieces \in Seq(Seq(V)) /\ Ended(a, pdu) \in Seq(Seq(V))
      /\ pdu.pieces # <<>>
  BY EndedType DEF Assemblies, Pdus
<1> HIDE DEF V, W
<1>3. Seq(V) \subseteq Seq(W)
  BY <1>1
<1>4. Seq(Seq(V)) \subseteq Seq(Seq(W))
  BY <1>3
<1> QED
  BY <1>2, <1>3, <1>4, Zenon DEF W

\* A PDU that starts in the middle of an SDU of which there is nothing.
Headless(a, pdu) == a.sdu = <<>> /\ ~pdu.start

LEMMA FirstPiece ==
    ASSUME NEW n \in Nat, NEW a \in Assemblies(n), NEW pdu \in Pdus(n), NEW from, NEW to, NEW was, NEW is,
           NEW base, Fits(base, pdu, from, to, was, is), Got(a, from), ~Headless(a, pdu)
    PROVE  /\ a.sdu \o pdu.pieces[1]
                = Units(base[1], IF 1 = Len(pdu.pieces) THEN to ELSE base[1] + SduUnits)
           /\ Outs(a.out, 0, base[1])
<1> DEFINE S == SduUnits
           p == pdu.pieces
           k == Len(p)
           e == IF 1 = k THEN to ELSE base[1] + S
<1>1. S \in Nat /\ S > 0 /\ from \in Nat /\ to \in Nat /\ from < to
  BY StreamSizes DEF Fits, Made
<1>2. k \in Nat \ {0} /\ base \in [1 .. k -> Nat] /\ 1 \in 1 .. k
  BY DEF Fits, Laid
<1>3. base[1] \in Nat /\ Begins(base[1]) /\ base[1] <= from /\ from < base[1] + S
  BY <1>2 DEF Fits, Laid
<1>4. p[1] = Units(from, e)
  BY <1>2 DEF Fits, Laid
<1>5. e \in Nat /\ from <= e
  BY <1>1, <1>3
<1> HIDE DEF e
<1>6. a.sdu \in Seq(Nat) /\ p[1] \in Seq(Nat)
  <2>1. Units(from, e) \in Seq(Nat)
    BY <1>1, <1>5, UnitsIs
  <2>2. a.sdu \in Seq(Nat)
    BY NatSeqs
  <2> QED
    BY <1>4, <2>1, <2>2
<1>7. CASE a.sdu = <<>>
  <2>1. Begins(from)
    BY <1>7 DEF Headless, Fits, Made
  <2> DEFINE b == base[1]
  <2>2. b \in Int /\ Begins(b) /\ b <= from /\ from < b + S
    BY <1>3
  <2> HIDE DEF b
  <2>3. b < from => b + S <= from
    BY <1>1, <2>1, <2>2, BeginsApart
  <2>4. b = from
    BY <1>1, <2>2, <2>3
  <2>5. a.sdu \o p[1] = p[1]
    BY <1>6, <1>7
  <2> QED
    BY <1>4, <2>4, <2>5 DEF Got, b, e
<1>8. CASE a.sdu # <<>>
  <2>1. PICK b \in Nat : Begins(b) /\ b < from /\ from < b + S /\ a.sdu = Units(b, from) /\ Outs(a.out, 0, b)
    BY <1>8 DEF Got, Begun
  <2> DEFINE c == base[1]
  <2>2. c \in Int /\ Begins(c) /\ c <= from /\ from < c + S
    BY <1>3
  <2> HIDE DEF c
  <2>3. (b < c => b + S <= c) /\ (c < b => c + S <= b)
    BY <2>1, <2>2, BeginsApart
  <2>4. b = c
    BY <1>1, <2>1, <2>2, <2>3
  <2>5. Units(b, from) \o Units(from, e) = Units(b, e)
    <3>1. b <= from
      BY <1>1, <2>1
    <3> QED
      BY <1>1, <1>5, <3>1, UnitsJoin
  <2> QED
    BY <1>4, <2>1, <2>4, <2>5 DEF c, e
<1> QED
  BY <1>7, <1>8

\* What of the ended pieces may go to PDCP: all, all but the first, or none.
MayGive(a, pdu, sdus) ==
    /\ Len(pdu.pieces) = 1 => ~Headless(a, pdu)
    /\ \/ sdus = <<>>
       \/ Ended(a, pdu) # <<>> /\ sdus = Tail(Ended(a, pdu))
       \/ ~Headless(a, pdu) /\ sdus = Ended(a, pdu)

LEMMA Given ==
    ASSUME NEW n \in Nat, NEW a \in Assemblies(n), NEW pdu \in Pdus(n), NEW from, NEW to, NEW was, NEW is,
           NEW base, Fits(base, pdu, from, to, was, is), Got(a, from), NEW sdus, MayGive(a, pdu, sdus)
    PROVE  AtLast(GiveEnded(a, pdu, sdus), base, pdu, to)
<1> DEFINE S == SduUnits
           p == pdu.pieces
           k == Len(p)
           g == GiveEnded(a, pdu, sdus)
           ended == Ended(a, pdu)
<1>1. S \in Nat /\ S > 0 /\ from \in Nat /\ to \in Nat /\ from < to
  BY StreamSizes DEF Fits, Made
<1>2. k \in Nat \ {0} /\ base \in [1 .. k -> Nat] /\ 1 \in 1 .. k /\ k \in 1 .. k
  BY DEF Fits, Laid
<1>3. base[1] \in Nat /\ base[k] \in Nat /\ base[1] <= from /\ from < base[1] + S /\ base[k] <= to
  BY <1>2 DEF Fits, Laid
<1>4. \A i, j \in 1 .. k : i < j => base[i] + S <= base[j]
  BY DEF Fits, Laid
<1>5. p \in Seq(Seq(Nat)) /\ ended \in Seq(Seq(Nat)) /\ a.out \in Seq(Seq(Nat))
  BY NatSeqs
<1>6. Outs(a.out, 0, from) /\ Laid(base, p, from, to)
  BY DEF Got, Fits
<1>7. CASE k = 1
  <2>1. g = a
    BY <1>7 DEF GiveEnded
  <2> HIDE DEF g
  <2>2. a.sdu \o p[1] = Units(base[1], IF 1 = k THEN to ELSE base[1] + S) /\ Outs(a.out, 0, base[1])
    BY <1>7, FirstPiece DEF MayGive
  <2> QED
    BY <1>7, <2>1, <2>2 DEF g, AtLast
<1>8. CASE k # 1
  <2>1. g.out = a.out \o sdus /\ g.sdu = <<>>
    BY <1>8 DEF GiveEnded, Assemblies
  <2> HIDE DEF g
  <2>10. \A j \in 1 .. k :
          p[j] = Units(IF j = 1 THEN from ELSE base[j], IF j = k THEN to ELSE base[j] + S)
    BY DEF Fits, Laid
  <2> HIDE DEF k
  <2>2. p[k] = Units(base[k], to) /\ p[k] \in Seq(Nat)
    <3>1. p[k] = Units(base[k], to)
      BY <1>2, <1>8, <2>10, Zenon
    <3> QED
      <4> DEFINE b == base[k]
      <4>1. b \in Nat /\ b <= to
        BY <1>3
      <4> HIDE DEF b
      <4>2. Units(b, to) \in Seq(Nat)
        BY <1>1, <4>1, UnitsIs
      <4> QED
        BY <3>1, <4>2 DEF b
  <2>3. g.sdu \o p[k] = Units(base[k], to)
    BY <2>1, <2>2
  <2>4. 2 \in 1 .. k
    BY <1>2, <1>8
  <2>5. base[2] \in Nat /\ from <= base[2] /\ base[2] <= base[k] /\ base[1] <= base[k] /\ base[1] + S <= base[2]
    <3>1. base[2] \in Nat
      BY <1>2, <2>4
    <3>2. base[1] + S <= base[2]
      BY <1>2, <1>4, <2>4
    <3>3. 2 < k => base[2] + S <= base[k]
      BY <1>2, <1>4, <2>4
    <3>4. 2 = k \/ 2 < k
      BY <1>2, <1>8
    <3> QED
      <4>1. CASE 2 = k
        <5>1. base[2] = base[k]
          BY <4>1
        <5> QED
          BY <1>1, <1>3, <3>1, <3>2, <5>1
      <4>2. CASE 2 < k
        <5>1. base[2] + S <= base[k]
          BY <3>3, <4>2
        <5> QED
          BY <1>1, <1>3, <3>1, <3>2, <5>1
      <4> QED
        BY <3>4, <4>1, <4>2
  <2>6. Len(ended) = k - 1 /\ \A i \in 2 .. k - 1 : ended[i] = Units(base[i], base[i] + S)
    <3>1. ended = [i \in 1 .. k - 1 |-> IF i = 1 THEN a.sdu \o p[1] ELSE p[i]]
      BY DEF Ended, k
    <3> HIDE DEF ended, p
    <3>2. Len(ended) = k - 1
      BY <1>2, <3>1
    <3>3. ASSUME NEW i \in 2 .. k - 1 PROVE ended[i] = Units(base[i], base[i] + S)
      <4>1. i \in 1 .. k - 1 /\ i \in 1 .. k /\ i # 1 /\ i # k
        BY <1>2
      <4>2. ended[i] = p[i]
        BY <3>1, <4>1
      <4> QED
        BY <2>10, <4>1, <4>2
    <3> QED
      BY <3>2, <3>3
  <2> HIDE DEF ended
  <2>7. CASE sdus = <<>>
    <3>1. g.out = a.out
      BY <1>5, <2>1, <2>7
    <3>2. Outs(a.out, 0, base[k])
      BY <1>1, <1>3, <1>6, <2>5, OutsWiden
    <3> QED
      BY <1>8, <2>1, <2>3, <3>1, <3>2 DEF g, k, AtLast
  <2>8. CASE ended # <<>> /\ sdus = Tail(ended)
    <3>1. sdus \in Seq(Seq(Nat)) /\ Len(sdus) + 1 = k - 1 /\ \A i \in 1 .. Len(sdus) : sdus[i] = ended[i + 1]
      BY <1>2, <1>5, <2>6, <2>8
    <3>2. ASSUME NEW i \in 1 .. Len(sdus) PROVE sdus[i] = Units(base[i + 1], base[i + 1] + S)
      <4>1. i + 1 \in 2 .. k - 1
        BY <1>2, <3>1
      <4> QED
        BY <2>6, <3>1, <4>1
    <3>3. Outs(sdus, base[1 + 1], base[k])
      <4> HIDE DEF S
      <4>1. 1 \in Nat
        OBVIOUS
      <4> QED
        BY <1>1, <1>6, <3>1, <3>2, <4>1, OutsAt DEF S, k
    <3>4. Outs(sdus, base[2], base[k])
      <4>1. 1 + 1 = 2
        OBVIOUS
      <4> QED
        BY <3>3, <4>1
    <3>5. Outs(a.out, 0, base[2])
      BY <1>1, <1>6, <2>5, OutsWiden
    <3>6. Outs(a.out \o sdus, 0, base[k])
      BY <1>3, <2>5, <3>4, <3>5, OutsJoin
    <3> QED
      BY <1>8, <2>1, <2>3, <3>6 DEF g, k, AtLast
  <2>9. CASE ~Headless(a, pdu) /\ sdus = ended
    <3>1. a.sdu \o p[1] = Units(base[1], base[1] + S) /\ Outs(a.out, 0, base[1])
      BY <1>8, <2>9, FirstPiece DEF k
    <3>2. ASSUME NEW i \in 1 .. Len(sdus) PROVE sdus[i] = Units(base[i + 0], base[i + 0] + S)
      <4>1. i + 0 = i /\ (i = 1 \/ i \in 2 .. k - 1)
        BY <1>2, <2>6, <2>9
      <4>2. CASE i = 1
        <5>1. 1 \in 1 .. k - 1
          BY <1>2, <1>8
        <5>2. ended[1] = a.sdu \o p[1]
          BY <5>1 DEF Ended, ended, k
        <5> QED
          BY <2>9, <3>1, <4>1, <4>2, <5>2
      <4>3. CASE i \in 2 .. k - 1
        BY <2>6, <2>9, <4>1, <4>3
      <4> QED
        BY <4>1, <4>2, <4>3
    <3>3. Outs(sdus, base[1 + 0], base[k])
      <4>1. 0 \in Nat /\ Len(sdus) + 0 = Len(p) - 1 /\ sdus \in Seq(Seq(Nat))
        BY <1>2, <1>5, <2>6, <2>9 DEF k
      <4> QED
        BY <1>1, <1>6, <3>2, <4>1, OutsAt DEF k
    <3>4. Outs(sdus, base[1], base[k])
      <4>1. 1 + 0 = 1
        OBVIOUS
      <4> QED
        BY <3>3, <4>1
    <3>5. Outs(a.out \o sdus, 0, base[k])
      BY <1>3, <2>5, <3>1, <3>4, OutsJoin
    <3> QED
      BY <1>8, <2>1, <2>3, <3>5 DEF g, k, AtLast
  <2> QED
    BY <2>7, <2>8, <2>9 DEF ended, MayGive
<1> QED
  BY <1>7, <1>8

LEMMA CopyLastGot ==
    ASSUME NEW n \in Nat, NEW g \in Assemblies(n), NEW pdu \in Pdus(n), NEW from, NEW to, NEW was, NEW is,
           NEW base, Fits(base, pdu, from, to, was, is), AtLast(g, base, pdu, to)
    PROVE  Got(CopyLast(g, pdu), to) /\ CopyLast(g, pdu).last = g.ur
<1> DEFINE S == SduUnits
           k == Len(pdu.pieces)
           b == base[k]
           c == CopyLast(g, pdu)
<1>1. S \in Nat /\ S > 0 /\ to \in Nat /\ is \in BOOLEAN /\ pdu.end = ~is
  BY StreamSizes DEF Fits, Made
<1>2. b \in Nat /\ Begins(b) /\ b <= to /\ to <= b + S /\ (is <=> to < b + S)
  BY DEF Fits, Laid
<1>3. Outs(g.out, 0, b) /\ g.sdu \o Last(pdu.pieces) = Units(b, to)
  BY DEF Last, AtLast
<1> HIDE DEF k, b
<1>4. CASE is
  <2>1. c.sdu = Units(b, to) /\ c.out = g.out /\ c.last = g.ur
    BY <1>1, <1>3, <1>4 DEF CopyLast, Assemblies
  <2> HIDE DEF c
  <2>2. Outs(c.out, 0, to)
    BY <1>1, <1>2, <1>3, <2>1, OutsWiden
  <2>3. ASSUME c.sdu # <<>> PROVE Begun(c, to)
    <3>1. b # to
      BY <1>2, <2>1, <2>3, UnitsNone
    <3>2. b < to /\ to < b + S
      BY <1>1, <1>2, <1>4, <3>1
    <3> QED
      BY <1>2, <1>3, <2>1, <3>2 DEF Begun
  <2> QED
    BY <2>1, <2>2, <2>3 DEF Got, c
<1>5. CASE ~is
  <2> DEFINE whole == Append(g.out, Units(b, to))
  <2>1. c.sdu = <<>> /\ c.last = g.ur /\ c.out \in {g.out, whole}
    BY <1>1, <1>3, <1>5 DEF CopyLast, Assemblies
  <2> HIDE DEF c
  <2>2. to = b + S
    BY <1>1, <1>2, <1>5
  <2>3. Outs(whole, 0, to)
    BY <1>2, <1>3, <2>2, OutsAppend
  <2>4. Outs(g.out, 0, to)
    BY <1>1, <1>2, <1>3, OutsWiden
  <2> QED
    BY <2>1, <2>3, <2>4 DEF Got, c
<1> QED
  BY <1>1, <1>4, <1>5

LEMMA MadeLaid ==
    ASSUME NEW pdu, NEW from, NEW to, NEW was, NEW is, Made(pdu, from, to, was, is)
    PROVE  \E base : Fits(base, pdu, from, to, was, is)
BY CutLaid DEF Made, Fits

\* A PDU in order is copied.
LEMMA CopyNextGot ==
    ASSUME NEW n \in Nat, NEW a0 \in Assemblies(n), NEW pdu \in Pdus(n), NEW from, NEW to, NEW was, NEW is,
           Made(pdu, from, to, was, is), Outs(a0.out, 0, from), belongs(a0) => Got(a0, from)
    PROVE  LET c == CopyNext(a0, pdu) IN Got(c, to) /\ (c.sdu # <<>> => c.last = a0.ur)
<1> DEFINE a     == IF belongs(a0) THEN a0 ELSE [a0 EXCEPT !.lost = FALSE, !.sdu = <<>>]
           ended == Ended(a, pdu)
           headless == a.sdu = <<>> /\ ~pdu.start
           sdus  == IF headless /\ ended # <<>> THEN Tail(ended) ELSE ended
           g     == GiveEnded(a, pdu, sdus)
           c     == CopyNext(a0, pdu)
           k     == Len(pdu.pieces)
<1>1. a \in Assemblies(n) /\ a.ur = a0.ur /\ a.out = a0.out /\ Got(a, from)
  <2>1. <<>> \in Seq(0 .. n - 1)
    OBVIOUS
  <2>2. a \in Assemblies(n) /\ a.ur = a0.ur /\ a.out = a0.out /\ (~belongs(a0) => a.sdu = <<>>)
    BY <2>1 DEF Assemblies
  <2>3. Got(a, from)
    <3>1. CASE belongs(a0)
      BY <3>1
    <3>2. CASE ~belongs(a0)
      <4> HIDE DEF a
      <4> QED
        BY <2>2, <3>2 DEF Got
    <3> QED
      BY <3>1, <3>2
  <2> QED
    BY <2>2, <2>3
<1>2. c = IF headless /\ ended = <<>> THEN a ELSE CopyLast(g, pdu)
  BY DEF CopyNext
<1> HIDE DEF a, c
<1>3. PICK base : Fits(base, pdu, from, to, was, is)
  BY MadeLaid
<1>4. k \in Nat \ {0} /\ Len(ended) = k - 1 /\ (ended = <<>> <=> k = 1)
  <2>1. k \in Nat \ {0}
    BY <1>3 DEF Fits, Laid
  <2>2. ended = [i \in 1 .. k - 1 |-> IF i = 1 THEN a.sdu \o pdu.pieces[1] ELSE pdu.pieces[i]]
    BY DEF Ended
  <2>3. ended \in Seq(Seq(Nat))
    BY <1>1, NatSeqs
  <2> HIDE DEF k
  <2>4. Len(ended) = k - 1
    BY <2>1, <2>2
  <2> HIDE DEF ended
  <2>5. ended = <<>> <=> k = 1
    BY <2>1, <2>3, <2>4
  <2> QED
    BY <2>1, <2>4, <2>5
<1>5. from \in Nat /\ to \in Nat /\ from < to
  BY DEF Made
<1>6. CASE headless /\ ended = <<>>
  <2>1. c = a
    BY <1>2, <1>6
  <2>2. Outs(a.out, 0, to)
    BY <1>1, <1>5, OutsWiden DEF Got
  <2> QED
    BY <1>6, <2>1, <2>2 DEF Got, c
<1>7. CASE ~(headless /\ ended = <<>>)
  <2>1. c = CopyLast(g, pdu)
    BY <1>2, <1>7
  <2>2. MayGive(a, pdu, sdus)
    BY <1>4, <1>7 DEF Headless, MayGive
  <2>3. sdus \in {Tail(ended), ended} /\ (sdus = Tail(ended) => ended # <<>> \/ sdus = ended)
    OBVIOUS
  <2> HIDE DEF sdus
  <2>4. AtLast(g, base, pdu, to)
    BY <1>1, <1>3, <2>2, Given
  <2>5. g \in Assemblies(n) /\ g.ur = a.ur
    <3>1. sdus \in Seq(Seq(0 .. n - 1))
      BY <1>1, <2>3, EndedType, Zenon
    <3> QED
      BY <1>1, <3>1, GiveEndedType
  <2> HIDE DEF g
  <2>6. Got(CopyLast(g, pdu), to) /\ CopyLast(g, pdu).last = g.ur
    BY <1>3, <2>4, <2>5, CopyLastGot
  <2> QED
    BY <1>1, <2>1, <2>5, <2>6 DEF c
<1> QED
  BY <1>6, <1>7

\* A PDU that the window has left behind is copied, or some of it is dropped.
LEMMA CopyBehindGot ==
    ASSUME NEW n \in Nat, NEW a \in Assemblies(n), NEW pdu \in Pdus(n), NEW from, NEW to, NEW was, NEW is,
           Made(pdu, from, to, was, is), Got(a, from)
    PROVE  LET c == CopyBehind(a, pdu) IN Got(c, to) /\ (c.sdu # <<>> => c.last = a.ur)
<1> DEFINE ended == Ended(a, pdu)
           sdus  == IF Shift(a.last, 1) # a.ur THEN <<>>
                    ELSE IF a.lost /\ ~pdu.start /\ ended # <<>> THEN Tail(ended) ELSE ended
           b     == GiveEnded(a, pdu, sdus)
           c     == CopyBehind(a, pdu)
           k     == Len(pdu.pieces)
<1>1. c = IF a.sdu = <<>> /\ ~pdu.start THEN a ELSE IF b.sdu # <<>> \/ pdu.start THEN CopyLast(b, pdu) ELSE b
  BY DEF CopyBehind
<1> HIDE DEF c
<1>2. from \in Nat /\ to \in Nat /\ from < to
  BY DEF Made
<1>3. CASE a.sdu = <<>> /\ ~pdu.start
  <2>1. Outs(a.out, 0, to)
    BY <1>2, OutsWiden DEF Got
  <2> QED
    BY <1>1, <1>3, <2>1 DEF Got, c
<1>4. CASE ~(a.sdu = <<>> /\ ~pdu.start)
  <2>1. PICK base : Fits(base, pdu, from, to, was, is)
    BY MadeLaid
  <2>2. MayGive(a, pdu, sdus)
    BY <1>4 DEF Headless, MayGive
  <2>3. sdus \in {<<>>, Tail(ended), ended} /\ (sdus = Tail(ended) => ended # <<>> \/ sdus \in {<<>>, ended})
    OBVIOUS
  <2> HIDE DEF sdus
  <2>4. AtLast(b, base, pdu, to)
    BY <2>1, <2>2, Given
  <2>5. b \in Assemblies(n) /\ b.ur = a.ur
    <3>1. sdus \in Seq(Seq(0 .. n - 1))
      BY <2>3, EndedType, Zenon
    <3> QED
      BY <3>1, GiveEndedType
  <2> HIDE DEF b
  <2>6. Got(CopyLast(b, pdu), to) /\ CopyLast(b, pdu).last = b.ur
    BY <2>1, <2>4, <2>5, CopyLastGot
  <2>7. b.sdu = <<>> => Got(b, to)
    <3>1. base[k] \in Nat /\ base[k] <= to
      BY <2>1 DEF Fits, Laid
    <3>2. Outs(b.out, 0, to)
      BY <1>2, <2>4, <3>1, OutsWiden DEF AtLast
    <3> QED
      BY <3>2 DEF Got
  <2> QED
    BY <1>1, <1>4, <2>5, <2>6, <2>7 DEF c
<1> QED
  BY <1>3, <1>4

\* Nothing is missing: every SDU before the one that c is in has come out, but for
\* those that begin in B, and of that one there is all that comes before c.
All(a, c, B) ==
    /\ Got(a, c) /\ a.lost = FALSE
    /\ \E b \in Nat : /\ Begins(b) /\ b <= c /\ c < b + SduUnits
                      /\ a.sdu = Units(b, c) \/ (a.sdu = <<>> /\ b \in B)
                      /\ \A e \in Nat : Begins(e) /\ e + SduUnits <= b
                                          => e \in B \/ Units(e, e + SduUnits) \in Range(a.out)

LEMMA RangeJoin ==
    ASSUME NEW S, NEW s \in Seq(S), NEW t \in Seq(S)
    PROVE  Range(s) \subseteq Range(s \o t) /\ Range(t) \subseteq Range(s \o t)
<1> DEFINE z == s \o t
           n == Len(s)
           m == Len(t)
<1>1. n \in Nat /\ m \in Nat /\ DOMAIN s = 1 .. n /\ DOMAIN t = 1 .. m /\ DOMAIN z = 1 .. n + m
  OBVIOUS
<1>2. (\A i \in 1 .. n : z[i] = s[i]) /\ (\A i \in 1 .. m : z[n + i] = t[i])
  OBVIOUS
<1> HIDE DEF z, n, m
<1>3. ASSUME NEW i \in 1 .. n PROVE i \in DOMAIN z /\ z[i] = s[i]
  BY <1>1, <1>2
<1>4. ASSUME NEW i \in 1 .. m PROVE n + i \in DOMAIN z /\ z[n + i] = t[i]
  BY <1>1, <1>2
<1> QED
  BY <1>1, <1>3, <1>4, Zenon DEF Range, z

LEMMA RangeAppend ==
    ASSUME NEW S, NEW s \in Seq(S), NEW x \in S
    PROVE  Range(s) \subseteq Range(Append(s, x)) /\ x \in Range(Append(s, x))
<1> DEFINE z == Append(s, x)
           n == Len(s)
<1>1. n \in Nat /\ DOMAIN s = 1 .. n /\ DOMAIN z = 1 .. n + 1
  OBVIOUS
<1>2. (\A i \in 1 .. n : z[i] = s[i]) /\ z[n + 1] = x
  OBVIOUS
<1> HIDE DEF z, n
<1>3. ASSUME NEW i \in 1 .. n PROVE i \in DOMAIN z /\ z[i] = s[i]
  BY <1>1, <1>2
<1>4. n + 1 \in DOMAIN z
  BY <1>1
<1> QED
  BY <1>1, <1>2, <1>3, <1>4, Zenon DEF Range, z

LEMMA RangeTail ==
    ASSUME NEW S, NEW s \in Seq(S), NEW i \in 2 .. Len(s)
    PROVE  s[i] \in Range(Tail(s))
<1>1. Tail(s) \in Seq(S) /\ Len(Tail(s)) = Len(s) - 1 /\ i - 1 \in 1 .. Len(s) - 1 /\ Tail(s)[i - 1] = s[i]
  OBVIOUS
<1>2. DOMAIN Tail(s) = 1 .. Len(s) - 1
  BY <1>1
<1> QED
  BY <1>1, <1>2, Zenon DEF Range

LEMMA EndedAre ==
    ASSUME NEW n \in Nat, NEW a \in Assemblies(n), NEW pdu \in Pdus(n), NEW from, NEW to, NEW was, NEW is,
           NEW base, Fits(base, pdu, from, to, was, is), Got(a, from)
    PROVE  \A i \in 1 .. Len(pdu.pieces) - 1 :
             (i = 1 => ~Headless(a, pdu)) =>
             i \in DOMAIN Ended(a, pdu) /\ Ended(a, pdu)[i] = Units(base[i], base[i] + SduUnits)
<1> DEFINE p == pdu.pieces
           k == Len(p)
<1> SUFFICES ASSUME NEW i \in 1 .. k - 1, i = 1 => ~Headless(a, pdu)
             PROVE  i \in DOMAIN Ended(a, pdu) /\ Ended(a, pdu)[i] = Units(base[i], base[i] + SduUnits)
  OBVIOUS
<1>1. k \in Nat /\ \A j \in 1 .. k :
        p[j] = Units(IF j = 1 THEN from ELSE base[j], IF j = k THEN to ELSE base[j] + SduUnits)
  BY DEF Fits, Laid
<1>2. Ended(a, pdu) = [j \in 1 .. k - 1 |-> IF j = 1 THEN a.sdu \o p[1] ELSE p[j]]
  BY DEF Ended
<1>3. i = 1 => a.sdu \o p[1] = Units(base[1], IF 1 = k THEN to ELSE base[1] + SduUnits)
  BY FirstPiece
<1> HIDE DEF p, k
<1>4. i \in 1 .. k /\ i # k /\ (i = 1 => 1 # k)
  BY <1>1
<1>5. Ended(a, pdu)[i] = (IF i = 1 THEN a.sdu \o p[1] ELSE p[i]) /\ i \in DOMAIN Ended(a, pdu)
  BY <1>2
<1>6. CASE i = 1
  BY <1>3, <1>4, <1>5, <1>6
<1>7. CASE i # 1
  BY <1>1, <1>4, <1>5, <1>7
<1> QED
  BY <1>5, <1>6, <1>7

LEMMA UnitsSome ==
    ASSUME NEW from \in Nat, NEW to \in Nat, from <= to, from # to
    PROVE  Units(from, to) # <<>>
<1>1. Len(Units(from, to)) = to - from
  BY UnitsIs
<1> HIDE DEF Units
<1>2. Len(Units(from, to)) # 0
  BY <1>1
<1>3. Len(<<>>) = 0
  OBVIOUS
<1> QED
  BY <1>2, <1>3, Zenon

LEMMA CopyNextAll ==
    ASSUME NEW n \in Nat, NEW a \in Assemblies(n), NEW pdu \in Pdus(n), NEW from, NEW to, NEW was, NEW is,
           Made(pdu, from, to, was, is), NEW B, was /\ Begins(from) => from \in B,
           belongs(a) \/ a.sdu = <<>>, All(a, from, B)
    PROVE  LET c == CopyNext(a, pdu) IN All(c, to, B) /\ (c.sdu # <<>> => c.last = a.ur)
<1> DEFINE S     == SduUnits
           p     == pdu.pieces
           k     == Len(p)
           ended == Ended(a, pdu)
           none  == Headless(a, pdu)
           sdus  == IF none /\ ended # <<>> THEN Tail(ended) ELSE ended
           g     == GiveEnded(a, pdu, sdus)
           c     == CopyNext(a, pdu)
           Out(e, x) == e \in B \/ Units(e, e + S) \in Range(x)
<1>1. PICK base : Fits(base, pdu, from, to, was, is)
  BY MadeLaid
<1>2. S \in Nat /\ S > 0 /\ from \in Nat /\ to \in Nat /\ from < to /\ was \in BOOLEAN /\ is \in BOOLEAN
      /\ pdu.start = ~was /\ pdu.end = ~is
  BY StreamSizes DEF Made
<1>3. PICK b \in Nat : /\ Begins(b) /\ b <= from /\ from < b + S
                       /\ a.sdu = Units(b, from) \/ (a.sdu = <<>> /\ b \in B)
                       /\ \A e \in Nat : Begins(e) /\ e + S <= b => Out(e, a.out)
  BY DEF All
<1>4. Got(a, from) /\ a.lost = FALSE /\ a.out \in Seq(Seq(Nat)) /\ ended \in Seq(Seq(Nat))
  BY NatSeqs DEF All
<1>5. c = IF none /\ ended = <<>> THEN a ELSE CopyLast(g, pdu)
  <2>1. belongs(a) \/ [a EXCEPT !.lost = FALSE, !.sdu = <<>>] = a
    BY <1>4 DEF Assemblies
  <2> QED
    BY <2>1, Zenon DEF CopyNext, Headless
<1>6. Got(c, to) /\ (c.sdu # <<>> => c.last = a.ur)
  BY <1>4, CopyNextGot DEF Got
<1> HIDE DEF c
<1>7. k \in Nat \ {0} /\ 1 \in 1 .. k /\ k \in 1 .. k
  BY <1>1 DEF Fits, Laid
<1>8. /\ \A j \in 1 .. k : base[j] \in Nat /\ Begins(base[j])
      /\ base[1] <= from /\ from < base[1] + S /\ base[k] <= to /\ to <= base[k] + S
      /\ is <=> to < base[k] + S
      /\ \A e \in Nat : Begins(e) /\ base[1] <= e /\ e < base[k] => \E i \in 1 .. k - 1 : e = base[i]
  BY <1>1 DEF Fits, Laid
<1>9. base[1] = b
  <2> DEFINE d == base[1]
  <2>1. d \in Nat /\ Begins(d) /\ d <= from /\ from < d + S
    BY <1>7, <1>8
  <2> HIDE DEF d
  <2>2. (b < d => b + S <= d) /\ (d < b => d + S <= b)
    BY <1>3, <2>1, BeginsApart
  <2>3. d = b
    BY <1>2, <1>3, <2>1, <2>2
  <2> QED
    BY <2>3 DEF d
<1>10. Len(ended) = k - 1 /\ (ended = <<>> <=> k = 1)
  <2>1. ended = [i \in 1 .. k - 1 |-> IF i = 1 THEN a.sdu \o p[1] ELSE p[i]]
    BY DEF Ended
  <2> HIDE DEF k
  <2>2. Len(ended) = k - 1
    BY <1>7, <2>1
  <2> HIDE DEF ended
  <2>3. ended = <<>> <=> k = 1
    BY <1>4, <1>7, <2>2
  <2> QED
    BY <2>2, <2>3
<1>11. ASSUME none PROVE b \in B
  <2>1. was /\ a.sdu = <<>>
    BY <1>2, <1>11 DEF Headless
  <2>2. CASE b = from
    BY <1>3, <2>1, <2>2
  <2>3. CASE b # from
    <3>1. b \in Nat /\ from \in Nat /\ b <= from
      BY <1>2, <1>3
    <3>2. Units(b, from) # <<>>
      BY <2>3, <3>1, UnitsSome, Zenon
    <3> QED
      BY <1>3, <2>1, <3>2, Zenon
  <2> QED
    BY <2>2, <2>3
<1>12. CASE none /\ ended = <<>>
  <2>1. c = a /\ k = 1 /\ a.sdu = <<>> /\ b \in B
    BY <1>5, <1>10, <1>11, <1>12 DEF Headless
  <2>2. b <= to /\ to <= b + S /\ (is <=> to < b + S)
    BY <1>8, <1>9, <2>1
  <2> HIDE DEF k, ended, none
  <2>3. CASE is
    BY <1>3, <1>4, <1>6, <2>1, <2>2, <2>3, Zenon DEF All, c
  <2>4. CASE ~is
    <3>1. to = b + S
      BY <1>2, <1>3, <2>2, <2>4
    <3>2. Begins(to) /\ Units(to, to) = <<>> /\ to < to + S /\ to <= to
      BY <1>2, <1>3, <3>1, BeginsNext, UnitsNone
    <3>3. ASSUME NEW e \in Nat, Begins(e), e + S <= to PROVE Out(e, a.out)
      <4>1. CASE e < b
        <5>1. e + S <= b
          BY <1>3, <3>3, <4>1, BeginsApart
        <5> QED
          BY <1>3, <3>3, <5>1, Zenon
      <4>2. CASE ~(e < b)
        <5>1. e = b
          BY <1>2, <1>3, <3>1, <3>3, <4>2
        <5> QED
          BY <2>1, <5>1
      <4> QED
        BY <4>1, <4>2
    <3> QED
      BY <1>2, <1>4, <1>6, <2>1, <3>2, <3>3, Zenon DEF All, c
  <2> QED
    BY <1>2, <1>6, <2>3, <2>4 DEF c
<1>13. CASE ~(none /\ ended = <<>>)
  <2>1. c = CopyLast(g, pdu) /\ MayGive(a, pdu, sdus)
    BY <1>5, <1>10, <1>13 DEF MayGive
  <2>2. AtLast(g, base, pdu, to)
    <3> HIDE DEF sdus
    <3> QED
      BY <1>1, <1>4, <2>1, Given
  <2>3. g \in Assemblies(n) /\ g.ur = a.ur /\ g.lost = FALSE /\ sdus \in Seq(Seq(Nat))
    <3>1. sdus \in {Tail(ended), ended} /\ (sdus = Tail(ended) => ended # <<>> \/ sdus = ended)
      OBVIOUS
    <3>2. sdus \in Seq(Seq(Nat))
      BY <1>4
    <3> HIDE DEF sdus
    <3>3. sdus \in Seq(Seq(0 .. n - 1))
      BY <3>1, EndedType, Zenon
    <3>4. g \in Assemblies(n) /\ g.ur = a.ur
      BY <3>3, GiveEndedType
    <3>5. g.lost = FALSE
      BY <1>4 DEF GiveEnded, Assemblies
    <3> QED
      BY <3>2, <3>4, <3>5
  <2>4. ASSUME NEW e \in Nat, Begins(e), e + S <= base[k] PROVE Out(e, g.out)
    <3>1. CASE k = 1
      <4>1. g = a
        BY <3>1 DEF GiveEnded
      <4> HIDE DEF g
      <4> QED
        BY <1>3, <1>9, <2>4, <3>1, <4>1
    <3>2. CASE k # 1
      <4>1. g.out = a.out \o sdus
        BY <3>2 DEF GiveEnded, Assemblies
      <4>2. Range(a.out) \subseteq Range(g.out) /\ Range(sdus) \subseteq Range(g.out)
        <5> HIDE DEF g, sdus
        <5> QED
          BY <1>4, <2>3, <4>1, RangeJoin
      <4> HIDE DEF g
      <4>3. CASE e < b
        <5>1. e + S <= b
          BY <1>3, <2>4, <4>3, BeginsApart
        <5>2. Out(e, a.out)
          BY <1>3, <2>4, <5>1, Zenon
        <5> QED
          BY <4>2, <5>2
      <4>4. CASE none /\ e = b
        BY <1>11, <4>4
      <4>5. CASE ~(e < b) /\ ~(none /\ e = b)
        <5>1. base[1] <= e /\ e < base[k]
          <6>1. base[k] \in Nat
            BY <1>7, <1>8
          <6> QED
            BY <1>2, <1>3, <1>9, <2>4, <4>5, <6>1
        <5>2. PICK i \in 1 .. k - 1 : e = base[i]
          BY <1>8, <2>4, <5>1
        <5>3. i = 1 => ~none
          BY <1>9, <4>5, <5>2
        <5>4. i \in DOMAIN ended /\ ended[i] = Units(base[i], base[i] + S)
          BY <1>1, <1>4, <5>3, EndedAre
        <5>5. ended[i] \in Range(sdus)
          <6>1. CASE ~none
            BY <5>4, <6>1 DEF Range
          <6>2. CASE none
            <7>1. i \in 2 .. Len(ended) /\ sdus = Tail(ended)
              BY <1>7, <1>10, <1>13, <5>3, <6>2
            <7> HIDE DEF ended, sdus
            <7> QED
              BY <1>4, <7>1, RangeTail
          <6> QED
            BY <6>1, <6>2
        <5> QED
          BY <4>2, <5>2, <5>4, <5>5
      <4> QED
        BY <4>3, <4>4, <4>5
    <3> QED
      BY <3>1, <3>2
  <2> DEFINE d == base[k]
  <2>5. d \in Nat /\ Begins(d) /\ d <= to /\ to <= d + S /\ (is <=> to < d + S)
    BY <1>7, <1>8
  <2>6. g.sdu \o Last(p) = Units(d, to) /\ g.out \in Seq(Seq(Nat))
    BY <2>2, <2>3, NatSeqs DEF AtLast, Last
  <2>7. \A e \in Nat : Begins(e) /\ e + S <= d => Out(e, g.out)
    BY <2>4
  <2> HIDE DEF d, g, k
  <2>8. CASE is
    <3>1. c.sdu = Units(d, to) /\ c.out = g.out /\ c.lost = FALSE
      BY <1>2, <2>1, <2>3, <2>6, <2>8 DEF CopyLast, Assemblies
    <3> QED
      BY <1>6, <2>5, <2>7, <2>8, <3>1 DEF All, c
  <2>9. CASE ~is
    <3>1. c.sdu = <<>> /\ c.out = Append(g.out, Units(d, to)) /\ c.lost = FALSE
      BY <1>2, <2>1, <2>3, <2>6, <2>9 DEF CopyLast, Assemblies
    <3>2. to = d + S
      BY <1>2, <2>5, <2>9
    <3>3. Begins(to) /\ Units(to, to) = <<>> /\ to < to + S
      BY <1>2, <2>5, <3>2, BeginsNext, UnitsNone
    <3>4. ASSUME NEW e \in Nat, Begins(e), e + S <= to PROVE Out(e, c.out)
      <4>1. Range(g.out) \subseteq Range(c.out) /\ Units(d, to) \in Range(c.out)
        <5>1. Units(d, to) \in Seq(Nat)
          BY <1>2, <2>5, UnitsIs
        <5> QED
          BY <2>6, <3>1, <5>1, RangeAppend, Zenon
      <4>2. CASE e < d
        <5>1. e + S <= d
          BY <2>5, <3>4, <4>2, BeginsApart
        <5> QED
          BY <2>7, <3>4, <4>1, <5>1
      <4>3. CASE ~(e < d)
        <5>1. e = d
          BY <1>2, <2>5, <3>2, <3>4, <4>3
        <5> QED
          BY <3>2, <4>1, <5>1
      <4> QED
        BY <4>2, <4>3
    <3> QED
      BY <1>2, <1>6, <3>1, <3>3, <3>4 DEF All, c
  <2> QED
    BY <1>2, <1>6, <2>8, <2>9 DEF c
<1> QED
  BY <1>12, <1>13

-----------------------------------------------------------------------------
(* Numbers.  The PDUs are counted from 0 on, without end; a PDU has the     *)
(* sequence number that its place leaves modulo MOD.                       *)

LEMMA NumberType == ASSUME NEW x \in Int PROVE x % MOD \in SN /\ x % MOD \in Int
<1>1. x % MOD \in 0 .. MOD - 1 /\ MOD \in Nat
  BY Sizes, ModDef
<1> QED
  BY <1>1 DEF SN

LEMMA NumberNext == ASSUME NEW x \in Int PROVE Shift(x % MOD, 1) = (x + 1) % MOD
<1>1. MOD \in Nat /\ MOD > 0 /\ 1 \in Int
  BY Sizes
<1>2. ((x % MOD) + 1) % MOD = (x + 1) % MOD
  BY <1>1, ModAdd, Zenon
<1> QED
  BY <1>2 DEF Shift

LEMMA NumberSame ==
    ASSUME NEW x \in Int, NEW y \in Int, x % MOD = y % MOD, x - y < MOD, y - x < MOD PROVE x = y
<1> DEFINE r == x % MOD
           k == x \div MOD
           j == y \div MOD
<1>1. MOD \in Nat /\ MOD > 0 /\ k \in Int /\ j \in Int /\ r \in 0 .. MOD - 1
      /\ x = k * MOD + r /\ y = j * MOD + r
  BY Sizes, ModDef
<1> HIDE DEF r, k, j
<1>2. k * MOD \in Int /\ j * MOD \in Int /\ (k + 1) * MOD = k * MOD + MOD /\ (j + 1) * MOD = j * MOD + MOD
  BY <1>1
<1>3. ~(j < k)
  <2> SUFFICES ASSUME j < k PROVE FALSE
    OBVIOUS
  <2> DEFINE i == j + 1
  <2>1. i \in Int /\ i <= k
    BY <1>1
  <2> HIDE DEF i
  <2>2. i * MOD <= k * MOD
    BY <1>1, <2>1, TimesOrder
  <2> QED
    BY <1>1, <1>2, <2>2 DEF i
<1>4. ~(k < j)
  <2> SUFFICES ASSUME k < j PROVE FALSE
    OBVIOUS
  <2> DEFINE i == k + 1
  <2>1. i \in Int /\ i <= j
    BY <1>1
  <2> HIDE DEF i
  <2>2. i * MOD <= j * MOD
    BY <1>1, <2>1, TimesOrder
  <2> QED
    BY <1>1, <1>2, <2>2 DEF i
<1> QED
  BY <1>1, <1>3, <1>4

LEMMA FarNumber == ASSUME NEW x \in Int, NEW h \in Int PROVE Far(x % MOD, h % MOD) = (x - h) % MOD
<1> DEFINE r == x % MOD
<1>1. MOD \in Nat /\ MOD > 0 /\ r \in Int /\ -h \in Int
  BY Sizes, NumberType
<1>2. (r + (-h)) % MOD = (x + (-h)) % MOD
  BY <1>1, ModAdd, Zenon
<1> HIDE DEF r
<1>3. (r - (h % MOD)) % MOD = (r - h) % MOD
  BY <1>1, ModSub
<1>4. r + (-h) = r - h /\ x + (-h) = x - h
  BY <1>1
<1> QED
  BY <1>2, <1>3, <1>4 DEF Far, r

\* Around the next number, a window to either side.
LEMMA BaseNumber ==
    ASSUME NEW x \in Int, NEW h \in Int, rx_window_size > 0,
           -rx_window_size <= x - h, x - h < rx_window_size
    PROVE  /\ RX_MOD_BASE(x % MOD, h % MOD) = x - h + rx_window_size
           /\ Far(x % MOD, h % MOD) = IF x < h THEN x - h + MOD ELSE x - h
<1> DEFINE w == rx_window_size
           d == x - h
<1>1. w \in Nat /\ w > 0 /\ MOD = 2 * w /\ MOD \in Nat /\ d \in Int
  BY Sizes
<1>2. Far(x % MOD, h % MOD) = d % MOD
  BY FarNumber
<1>3. d % MOD = IF d < 0 THEN d + MOD ELSE d
  <2> HIDE DEF d, w
  <2>1. -MOD <= d /\ d < 2 * MOD /\ d < MOD
    BY <1>1 DEF d, w
  <2> QED
    BY <1>1, <2>1, Wrap
<1>4. RX_MOD_BASE(x % MOD, h % MOD)
        = IF Far(x % MOD, h % MOD) >= w THEN Far(x % MOD, h % MOD) - w ELSE Far(x % MOD, h % MOD) + w
  BY NumberType, BaseIs
<1>5. x < h <=> d < 0
  OBVIOUS
<1>6. -w <= d /\ d < w
  OBVIOUS
<1> HIDE DEF d, w
<1> QED
  BY <1>1, <1>2, <1>3, <1>4, <1>5, <1>6 DEF d, w

-----------------------------------------------------------------------------
(* What was sent: H[p] says how far the units are in PDUs after p of them, *)
(* and if an SDU is begun then.                                            *)

History(H, n) ==
    /\ n \in Nat /\ H \in [0 .. n -> [cut : Nat, begun : BOOLEAN]]
    /\ \A p, r \in 0 .. n : p < r => H[p].cut < H[r].cut
    /\ \A p \in 0 .. n : ~H[p].begun => Begins(H[p].cut)

\* e is the PDU sent after p others.
Is(e, H, p) ==
    e.sn = p % MOD /\ Made(e, H[p].cut, H[p + 1].cut, H[p].begun, H[p + 1].begun)

LEMMA HistoryCuts ==
    ASSUME NEW H, NEW n, History(H, n)
    PROVE  /\ \A p \in 0 .. n : H[p].cut \in Nat /\ H[p].begun \in BOOLEAN
           /\ \A p, r \in 0 .. n : p <= r => H[p].cut <= H[r].cut
<1>1. n \in Nat /\ \A p \in 0 .. n : H[p].cut \in Nat /\ H[p].begun \in BOOLEAN
  BY DEF History
<1>2. ASSUME NEW p \in 0 .. n, NEW r \in 0 .. n, p <= r PROVE H[p].cut <= H[r].cut
  <2>1. CASE p = r
    BY <1>1, <2>1
  <2>2. CASE p < r
    BY <1>1, <2>2 DEF History
  <2> QED
    BY <1>2, <2>1, <2>2
<1> QED
  BY <1>1, <1>2

-----------------------------------------------------------------------------
(* Reassembly between vr_ur and vr_uh, the PDU that u others were sent      *)
(* before being the next and h - 1 the place of the highest received.       *)

\* What waits is between, the highest received among it.
Kept(win, H, h, u) ==
    /\ \A sn \in DOMAIN win : \E x \in u .. h - 1 : sn = x % MOD /\ Is(win[sn], H, x)
    /\ u < h => (h - 1) % MOD \in DOMAIN win

\* What is begun was copied last from PDU l, at or after f and at most a window
\* ago: belongs() does not mistake its number.
Recent(a, H, u, f) ==
    a.sdu # <<>> => \E l \in Nat : /\ f <= l /\ l < u /\ u <= l + rx_window_size + 1
                                   /\ a.last = l % MOD /\ Begun(a, H[l + 1].cut)

Status(a, H, h, f, u) ==
    /\ u \in 0 .. h /\ f <= u /\ a.ur = u % MOD
    /\ Kept(a.win, H, h, u) /\ Outs(a.out, 0, H[u].cut) /\ Recent(a, H, u, f)

\* Its PDU is the one with the next number.
LEMMA NextIsNext ==
    ASSUME NEW a, NEW H, NEW h \in Nat, NEW f \in Int, NEW u, Status(a, H, h, f, u),
           u >= h - MOD, a.ur \in DOMAIN a.win
    PROVE  u < h /\ Is(a.win[a.ur], H, u)
<1>1. u \in Int /\ MOD \in Nat
  BY Sizes DEF Status
<1>2. PICK x \in u .. h - 1 : a.ur = x % MOD /\ Is(a.win[a.ur], H, x)
  BY DEF Status, Kept
<1>3. x % MOD = u % MOD /\ x \in Int /\ x - u < MOD /\ u - x < MOD
  BY <1>1, <1>2, Sizes DEF Status
<1>4. x = u
  BY <1>1, <1>3, NumberSame
<1> QED
  BY <1>1, <1>2, <1>4

\* On to the next number.
LEMMA StatusNext ==
    ASSUME NEW a, NEW H, NEW h \in Nat, NEW f \in Int, NEW u, Status(a, H, h, f, u),
           u < h, u >= h - MOD, NEW b, b.ur = (u + 1) % MOD,
           DOMAIN b.win = DOMAIN a.win \ {a.ur}, \A sn \in DOMAIN b.win : b.win[sn] = a.win[sn],
           Outs(b.out, 0, H[u + 1].cut), Recent(b, H, u + 1, f)
    PROVE  Status(b, H, h, f, u + 1)
<1>1. u \in Int /\ MOD \in Nat /\ u \in 0 .. h /\ f <= u
  BY Sizes DEF Status
<1>2. ASSUME NEW sn \in DOMAIN b.win
      PROVE  \E x \in u + 1 .. h - 1 : sn = x % MOD /\ Is(b.win[sn], H, x)
  <2>1. sn \in DOMAIN a.win /\ sn # u % MOD /\ b.win[sn] = a.win[sn]
    BY DEF Status
  <2>2. PICK x \in u .. h - 1 : sn = x % MOD /\ Is(a.win[sn], H, x)
    BY <2>1 DEF Status, Kept
  <2>3. x # u
    BY <2>1, <2>2
  <2>4. x \in u + 1 .. h - 1
    BY <1>1, <2>2, <2>3
  <2> QED
    BY <2>1, <2>2, <2>4, Zenon
<1>3. ASSUME u + 1 < h PROVE (h - 1) % MOD \in DOMAIN b.win
  <2>1. (h - 1) % MOD \in DOMAIN a.win
    BY <1>1 DEF Status, Kept
  <2>2. (h - 1) % MOD # u % MOD
    <3> SUFFICES ASSUME (h - 1) % MOD = u % MOD PROVE FALSE
      OBVIOUS
    <3> DEFINE y == h - 1
    <3>1. y \in Int /\ y - u < MOD /\ u - y < MOD /\ y # u
      BY <1>1, <1>3, Sizes
    <3> HIDE DEF y
    <3>2. y % MOD = u % MOD
      BY DEF y
    <3> QED
      BY <1>1, <3>1, <3>2, NumberSame
  <2> QED
    BY <2>1, <2>2 DEF Status
<1>4. u + 1 \in 0 .. h /\ f <= u + 1
  BY <1>1
<1> QED
  BY <1>2, <1>3, <1>4 DEF Status, Kept

\* The PDUs that are left to reassemble were all sent.
LEMMA StatusMade ==
    ASSUME NEW H, NEW n, History(H, n), NEW h \in 0 .. n, NEW u \in Nat, u < h
    PROVE  /\ u \in 0 .. n /\ u + 1 \in 0 .. n
           /\ H[u].cut \in Nat /\ H[u + 1].cut \in Nat /\ H[u].cut <= H[u + 1].cut
<1>1. n \in Nat
  BY DEF History
<1>2. u \in 0 .. n /\ u + 1 \in 0 .. n /\ u <= u + 1
  BY <1>1
<1> DEFINE v == u + 1
<1> HIDE DEF v
<1>3. H[u].cut \in Nat /\ H[v].cut \in Nat /\ H[u].cut <= H[v].cut
  BY <1>2, HistoryCuts DEF v
<1> QED
  BY <1>2, <1>3 DEF v

\* A PDU is copied and left behind.
LEMMA StatusCopied ==
    ASSUME NEW m \in Nat, NEW H, NEW n, History(H, n), NEW h \in 0 .. n, NEW f \in Int,
           NEW a \in Assemblies(m), NEW u, Status(a, H, h, f, u), u < h, u >= h - MOD,
           NEW c \in Assemblies(m), c.ur = a.ur, c.win = a.win,
           Got(c, H[u + 1].cut), c.sdu # <<>> => c.last = a.ur
    PROVE  Status(NextNumber(c), H, h, f, u + 1)
<1> DEFINE b == NextNumber(c)
<1>1. u \in Nat /\ h \in Nat /\ rx_window_size \in Nat
  BY Sizes DEF Status, History
<1>2. a.win \in Windows(m) /\ DOMAIN a.win \subseteq SN /\ a.ur = u % MOD
  BY WindowOf DEF Assemblies, Status
<1>3. b.ur = (u + 1) % MOD
  <2>1. b.ur = Shift(c.ur, 1)
    BY NextNumberIs
  <2>2. u \in Int
    BY <1>1
  <2> QED
    BY <1>2, <2>1, <2>2, NumberNext
<1>4. DOMAIN b.win = DOMAIN a.win \ {a.ur}
  BY NextNumberIs
<1>5. b.win = Keep(c.win, SN \ {c.ur}) /\ b.sdu = c.sdu /\ b.out = c.out /\ b.last = c.last
  BY DEF NextNumber, Assemblies
<1> HIDE DEF b
<1>6. \A sn \in DOMAIN b.win : b.win[sn] = a.win[sn]
  BY <1>5 DEF Keep
<1>7. Outs(b.out, 0, H[u + 1].cut)
  BY <1>5 DEF Got
<1>8. Recent(b, H, u + 1, f)
  <2> SUFFICES ASSUME b.sdu # <<>>
               PROVE  \E l \in Nat : /\ f <= l /\ l < u + 1 /\ u + 1 <= l + rx_window_size + 1
                                     /\ b.last = l % MOD /\ Begun(b, H[l + 1].cut)
    BY Zenon DEF Recent
  <2>1. b.last = u % MOD /\ Begun(c, H[u + 1].cut)
    BY <1>2, <1>5 DEF Got
  <2>2. Begun(b, H[u + 1].cut)
    BY <1>5, <2>1 DEF Begun
  <2>3. f <= u /\ u < u + 1 /\ u + 1 <= u + rx_window_size + 1
    BY <1>1 DEF Status
  <2> QED
    BY <1>1, <2>1, <2>2, <2>3, Zenon
<1>9. Status(b, H, h, f, u + 1)
  BY <1>1, <1>3, <1>4, <1>6, <1>7, <1>8, StatusNext
<1> QED
  BY <1>9 DEF b

-----------------------------------------------------------------------------
(* The first loop                                                          *)

\* The SDU that is begun, if any, goes on in the next PDU if that is there.
Snug(a, H, u) == a.sdu = <<>> \/ a.ur \notin DOMAIN a.win \/ Begun(a, H[u].cut)

Behinds(m, H, h, f, k) ==
    {a \in Assemblies(m) :
       \E u \in 0 .. h : /\ Status(a, H, h, f, u)
                         /\ \/ u >= h - rx_window_size
                            \/ u >= h - MOD + k /\ Snug(a, H, u)}

LEMMA BehindsPass ==
    ASSUME rx_window_size > 0, NEW m \in Nat, NEW H, NEW n, History(H, n), NEW h \in 0 .. n, NEW f \in Int,
           NEW k \in 1 .. MOD, NEW a \in Behinds(m, H, h, f, k - 1)
    PROVE  Behind(a, h % MOD) \in Behinds(m, H, h, f, k)
<1> DEFINE w == rx_window_size
           uh == h % MOD
           b == Behind(a, uh)
<1>1. w \in Nat /\ MOD \in Nat /\ MOD = 2 * w /\ h \in Nat /\ h \in Int /\ k \in Int /\ k >= 1 /\ k <= MOD
  BY Sizes DEF History
<1>2. a \in Assemblies(m)
  BY DEF Behinds
<1>3. PICK u \in 0 .. h : /\ Status(a, H, h, f, u)
                          /\ u >= h - w \/ (u >= h - MOD + (k - 1) /\ Snug(a, H, u))
  BY DEF Behinds
<1>4. a.ur \in SN /\ uh \in SN /\ a.win \in Windows(m) /\ u \in Int /\ u \in Nat /\ a.ur = u % MOD
  BY <1>1, <1>2, <1>3, NumberType DEF Assemblies, Status
<1>5. inside_reordering_window(a.ur, uh, a.win) <=> DOMAIN a.win = {} \/ Far(a.ur, uh) >= w
  <2>1. w # 0
    BY <1>1
  <2> HIDE DEF uh
  <2>2. inside_reordering_window(a.ur, uh, a.win) <=> w = 0 \/ DOMAIN a.win = {} \/ Far(a.ur, uh) >= w
    BY <1>4, InsideIs, Zenon
  <2> QED
    BY <2>1, <2>2
<1>6. CASE u >= h - w
  <2>1. inside_reordering_window(a.ur, uh, a.win)
    <3>1. CASE u = h
      <4>1. DOMAIN a.win = {}
        <5> SUFFICES ASSUME NEW sn \in DOMAIN a.win PROVE FALSE
          OBVIOUS
        <5>1. PICK x \in u .. h - 1 : TRUE
          BY <1>3 DEF Status, Kept
        <5> QED
          BY <1>1, <3>1, <5>1
      <4> QED
        BY <1>5, <4>1
    <3>2. CASE u # h
      <4>1. u < h /\ -w <= u - h /\ u - h < w
        BY <1>1, <1>4, <1>6, <3>2
      <4>2. Far(u % MOD, uh) = u - h + MOD
        BY <1>1, <1>4, <4>1, BaseNumber
      <4> QED
        BY <1>1, <1>4, <1>5, <1>6, <4>2
    <3> QED
      BY <3>1, <3>2
  <2>2. b = a
    BY <2>1 DEF Behind
  <2> QED
    BY <1>2, <1>3, <1>6, <2>2, Zenon DEF Behinds
<1>7. CASE ~(u >= h - w)
  <2>1. u >= h - MOD + (k - 1) /\ Snug(a, H, u) /\ u < h /\ u >= h - MOD
    BY <1>1, <1>3, <1>4, <1>7
  <2>2. ~inside_reordering_window(a.ur, uh, a.win)
    <3>1. (h - 1) % MOD \in DOMAIN a.win
      BY <1>3, <2>1 DEF Status, Kept
    <3>2. Far(u % MOD, uh) = (u - h) % MOD
      BY <1>1, <1>4, FarNumber
    <3> DEFINE d == u - h
    <3>3. d \in Int /\ -MOD <= d /\ d < 0 /\ d < -w /\ d < 2 * MOD
      BY <1>1, <1>4, <1>7, <2>1
    <3> HIDE DEF d
    <3>4. d % MOD = d + MOD
      BY <1>1, <3>3, Wrap
    <3>5. ~(Far(a.ur, uh) >= w)
      BY <1>1, <1>4, <3>2, <3>3, <3>4 DEF d
    <3> QED
      BY <1>5, <3>1, <3>5
  <2>3. u + 1 \in 0 .. h /\ u + 1 >= h - MOD + k
    BY <1>1, <1>4, <2>1
  <2>4. b \in Assemblies(m) /\ Status(b, H, h, f, u + 1) /\ Snug(b, H, u + 1)
    <3>1. /\ u \in 0 .. n /\ u + 1 \in 0 .. n
          /\ H[u].cut \in Nat /\ H[u + 1].cut \in Nat /\ H[u].cut <= H[u + 1].cut
      BY <1>4, <2>1, StatusMade
    <3>2. CASE a.ur \in DOMAIN a.win
      <4> DEFINE pdu == a.win[a.ur]
                 c == CopyBehind(a, pdu)
      <4>1. pdu \in Pdus(m)
        BY <1>4, <3>2, WindowOf, Zenon
      <4>2. Is(pdu, H, u)
        BY <1>1, <1>3, <2>1, <3>2, NextIsNext
      <4>3. Made(pdu, H[u].cut, H[u + 1].cut, H[u].begun, H[u + 1].begun)
        BY <4>2 DEF Is
      <4>4. Got(a, H[u].cut)
        BY <1>3, <2>1, <3>2 DEF Status, Snug, Got
      <4>5. c \in Assemblies(m) /\ c.ur = a.ur /\ c.win = a.win
        BY <1>2, <4>1, CopyBehindType
      <4>6. Got(c, H[u + 1].cut) /\ (c.sdu # <<>> => c.last = a.ur)
        BY <1>2, <4>1, <4>3, <4>4, CopyBehindGot
      <4>7. b = NextNumber(c)
        BY <2>2, <3>2 DEF Behind
      <4> HIDE DEF b, c, pdu
      <4>8. Status(NextNumber(c), H, h, f, u + 1)
        BY <1>1, <1>2, <1>3, <2>1, <4>5, <4>6, StatusCopied
      <4>9. NextNumber(c) \in Assemblies(m)
        BY <4>5, NextNumberIs
      <4>10. NextNumber(c).sdu = c.sdu /\ NextNumber(c).out = c.out
        BY <4>5 DEF NextNumber, Assemblies
      <4>11. Snug(NextNumber(c), H, u + 1)
        BY <4>6, <4>10 DEF Snug, Got, Begun
      <4> QED
        BY <4>7, <4>8, <4>9, <4>11
    <3>3. CASE a.ur \notin DOMAIN a.win
      <4>1. b = [a EXCEPT !.sdu = <<>>, !.ur = Shift(a.ur, 1)]
        BY <2>2, <3>3 DEF Behind
      <4>2. Shift(a.ur, 1) \in SN /\ <<>> \in Seq(0 .. m - 1) /\ Shift(a.ur, 1) = (u + 1) % MOD
        BY <1>4, NextType, NumberNext
      <4> HIDE DEF b
      <4>3. b \in Assemblies(m) /\ b.ur = (u + 1) % MOD /\ b.win = a.win /\ b.sdu = <<>> /\ b.out = a.out
        BY <1>2, <4>1, <4>2 DEF Assemblies
      <4>4. Outs(b.out, 0, H[u + 1].cut)
        <5>1. Outs(a.out, 0, H[u].cut)
          BY <1>3 DEF Status
        <5> DEFINE x == H[u].cut
                   y == H[u + 1].cut
        <5>2. x \in Int /\ y \in Int /\ x <= y /\ Outs(a.out, 0, x)
          BY <3>1, <5>1
        <5> HIDE DEF x, y
        <5>3. Outs(a.out, 0, y)
          BY <5>2, OutsWiden
        <5> QED
          BY <4>3, <5>3 DEF y
      <4>5. DOMAIN b.win = DOMAIN a.win \ {a.ur} /\ \A sn \in DOMAIN b.win : b.win[sn] = a.win[sn]
        BY <3>3, <4>3
      <4>6. Recent(b, H, u + 1, f) /\ Snug(b, H, u + 1)
        BY <4>3 DEF Recent, Snug
      <4>7. Status(b, H, h, f, u + 1)
        BY <1>1, <1>3, <2>1, <4>3, <4>4, <4>5, <4>6, StatusNext
      <4> QED
        BY <4>3, <4>6, <4>7
    <3> QED
      BY <3>2, <3>3
  <2> HIDE DEF b
  <2>5. b \in Behinds(m, H, h, f, k)
    BY <2>3, <2>4, Zenon DEF Behinds
  <2> QED
    BY <2>5 DEF b
<1> QED
  BY <1>6, <1>7

-----------------------------------------------------------------------------
(* The second loop, and both                                               *)

Onwards(m, H, h, f) ==
    {a \in Assemblies(m) : \E u \in 0 .. h : Status(a, H, h, f, u) /\ u >= h - rx_window_size}

LEMMA OnwardsPass ==
    ASSUME rx_window_size > 1, NEW m \in Nat, NEW H, NEW n, History(H, n), NEW h \in 0 .. n, NEW f \in Int,
           NEW a \in Onwards(m, H, h, f)
    PROVE  Onward(a) \in Onwards(m, H, h, f)
<1> DEFINE w == rx_window_size
           b == Onward(a)
<1>1. w \in Nat /\ MOD \in Nat /\ MOD = 2 * w /\ h \in Nat /\ h \in Int /\ w > 1
  BY Sizes DEF History
<1>2. a \in Assemblies(m)
  BY DEF Onwards
<1>3. PICK u \in 0 .. h : Status(a, H, h, f, u) /\ u >= h - w
  BY Zenon DEF Onwards
<1>4. a.ur \in SN /\ a.win \in Windows(m) /\ u \in Int /\ u \in Nat /\ a.ur = u % MOD
  BY <1>1, <1>2, <1>3 DEF Assemblies, Status
<1>5. CASE a.ur \notin DOMAIN a.win
  BY <1>5 DEF Onward
<1>6. CASE a.ur \in DOMAIN a.win
  <2> DEFINE pdu == a.win[a.ur]
             c == CopyNext(a, pdu)
  <2>1. u >= h - MOD
    BY <1>1, <1>3, <1>4
  <2>2. u < h /\ Is(pdu, H, u)
    BY <1>1, <1>3, <1>6, <2>1, NextIsNext
  <2>3. pdu \in Pdus(m)
    BY <1>4, <1>6, WindowOf, Zenon
  <2>4. Made(pdu, H[u].cut, H[u + 1].cut, H[u].begun, H[u + 1].begun)
    BY <2>2 DEF Is
  <2>5. Outs(a.out, 0, H[u].cut)
    BY <1>3 DEF Status
  <2>6. ASSUME belongs(a) PROVE Got(a, H[u].cut)
    <3> SUFFICES ASSUME a.sdu # <<>> PROVE Begun(a, H[u].cut)
      BY <2>5 DEF Got
    <3>1. PICK l \in Nat : /\ l < u /\ u <= l + w + 1 /\ a.last = l % MOD /\ Begun(a, H[l + 1].cut)
      BY <1>3 DEF Status, Recent
    <3>2. u % MOD = l % MOD \/ u % MOD = (l + 1) % MOD
      <4>1. l \in Int
        OBVIOUS
      <4>2. Shift(a.last, 1) = (l + 1) % MOD
        BY <3>1, <4>1, NumberNext
      <4> QED
        BY <1>4, <2>6, <3>1, <4>2 DEF belongs
    <3>3. u % MOD # l % MOD
      <4>1. l \in Int /\ u - l < MOD /\ l - u < MOD /\ u # l
        BY <1>1, <1>4, <3>1
      <4> QED
        BY <1>4, <4>1, NumberSame
    <3>4. u = l + 1
      <4> DEFINE y == l + 1
      <4>1. y \in Int /\ u - y < MOD /\ y - u < MOD
        BY <1>1, <1>4, <3>1
      <4>2. u % MOD = y % MOD
        BY <3>2, <3>3
      <4> HIDE DEF y
      <4>3. u = y
        BY <1>4, <4>1, <4>2, NumberSame
      <4> QED
        BY <4>3 DEF y
    <3> QED
      BY <3>1, <3>4
  <2>7. c \in Assemblies(m) /\ c.ur = a.ur /\ c.win = a.win
    BY <1>2, <2>3, CopyNextType
  <2>8. Got(c, H[u + 1].cut) /\ (c.sdu # <<>> => c.last = a.ur)
    BY <1>2, <2>3, <2>4, <2>5, <2>6, CopyNextGot
  <2>9. b = NextNumber(c)
    BY <1>6 DEF Onward
  <2> HIDE DEF b, c, pdu
  <2>10. Status(NextNumber(c), H, h, f, u + 1)
    BY <1>1, <1>2, <1>3, <2>1, <2>2, <2>7, <2>8, StatusCopied
  <2>11. NextNumber(c) \in Assemblies(m)
    BY <2>7, NextNumberIs
  <2>12. u + 1 \in 0 .. h /\ u + 1 >= h - w
    BY <1>1, <1>3, <1>4, <2>2
  <2>13. b \in Onwards(m, H, h, f)
    BY <2>9, <2>10, <2>11, <2>12, Zenon DEF Onwards
  <2> QED
    BY <2>13 DEF b
<1> QED
  BY <1>5, <1>6

LEMMA ReassembleOnwards ==
    ASSUME rx_window_size > 1, NEW m \in Nat, NEW H, NEW n, History(H, n), NEW h \in 0 .. n, NEW f \in Int,
           NEW a \in Behinds(m, H, h, f, 0)
    PROVE  Reassemble(a, h % MOD) \in Onwards(m, H, h, f)
<1> DEFINE T == [k \in 0 .. MOD |-> Behinds(m, H, h, f, k)]
           U == [k \in 0 .. MOD |-> Onwards(m, H, h, f)]
           uh == h % MOD
           e == CatchUp(a, uh)
           r == Loop(Onward, e)
<1>1. MOD \in Nat /\ 0 \in 0 .. MOD /\ MOD \in 0 .. MOD /\ rx_window_size > 0 /\ rx_window_size \in Nat
  BY Sizes
<1>2. \A k \in 1 .. MOD : k \in 0 .. MOD /\ k - 1 \in 0 .. MOD
  BY <1>1
<1>3. a \in T[0]
  BY <1>1
<1>4. \A k \in 1 .. MOD : \A c \in T[k - 1] : Behind(c, uh) \in T[k]
  <2> SUFFICES ASSUME NEW k \in 1 .. MOD, NEW c \in T[k - 1] PROVE Behind(c, uh) \in T[k]
    OBVIOUS
  <2>1. c \in Behinds(m, H, h, f, k - 1)
    BY <1>2, Zenon
  <2>2. Behind(c, uh) \in Behinds(m, H, h, f, k)
    BY <1>1, <2>1, BehindsPass
  <2> QED
    BY <1>2, <2>2, Zenon
<1>5. e \in T[MOD]
  <2> HIDE DEF T, uh
  <2> QED
    BY <1>3, <1>4, LoopCatchUp, Zenon
<1>6. e \in Behinds(m, H, h, f, MOD)
  BY <1>1, <1>5, Zenon
<1> HIDE DEF e
<1>7. e \in Onwards(m, H, h, f)
  <2>1. PICK u \in 0 .. h : Status(e, H, h, f, u) /\ (u >= h - rx_window_size \/ u >= h - MOD + MOD)
    BY <1>6 DEF Behinds
  <2>2. u >= h - rx_window_size
    BY <1>1, <2>1 DEF History
  <2>3. e \in Assemblies(m)
    BY <1>6 DEF Behinds
  <2> QED
    BY <2>1, <2>2, <2>3 DEF Onwards
<1>8. e \in U[0]
  BY <1>1, <1>7, Zenon
<1>9. \A k \in 1 .. MOD : \A c \in U[k - 1] : Onward(c) \in U[k]
  BY <1>2, OnwardsPass, Zenon
<1>10. r \in U[MOD]
  <2> HIDE DEF U
  <2> QED
    BY <1>8, <1>9, LoopOnward, Zenon
<1>11. r \in Onwards(m, H, h, f)
  BY <1>1, <1>10, Zenon
<1>12. Reassemble(a, uh) = r
  BY Zenon DEF Reassemble, e
<1> QED
  BY <1>11, <1>12

-----------------------------------------------------------------------------
(* A PDU arrives                                                           *)

\* If something is missing before vr_uh, vr_ux is not beyond it, so that an expiry
\* gives up nothing that is still to come.
Received(a, ux, uh, H, h) ==
    \E u \in 0 .. h : /\ Status(a, H, h, 0, u) /\ u >= h - rx_window_size
                      /\ u < h => RX_MOD_BASE(ux, uh) <= rx_window_size

\* But with nothing missing an expiry that comes late takes vr_ur up to a vr_ux that
\* the numbers have left behind, which looks as if it were ahead.
Astray(a, H, h) ==
    \E u \in Nat : /\ h < u /\ u < h + rx_window_size /\ a.ur = u % MOD
                   /\ DOMAIN a.win = {} /\ a.sdu = <<>> /\ Outs(a.out, 0, H[h].cut)

LEMMA PutStatus ==
    ASSUME rx_window_size > 1, NEW m \in Nat, NEW H, NEW n, History(H, n), NEW h \in 0 .. n,
           NEW u \in 0 .. h, NEW a \in Tight(m, h % MOD), Status(a, H, h, 0, u), u >= h - rx_window_size,
           NEW pdu \in Pdus(m), NEW p \in 0 .. n - 1, Is(pdu, H, p),
           h - rx_window_size <= p, p < h + rx_window_size, u <= p, pdu.sn \notin DOMAIN a.win,
           NEW win, win = Put(a.win, pdu.sn, pdu), NEW uh,
           uh = IF inside_reordering_window(pdu.sn, h % MOD, win) THEN h % MOD ELSE Shift(pdu.sn, 1),
           NEW b, b = [a EXCEPT !.win = win], NEW hh, hh = IF p < h THEN h ELSE p + 1
    PROVE  uh = hh % MOD /\ hh \in 0 .. n /\ b \in Behinds(m, H, hh, 0, 0)
<1> DEFINE w == rx_window_size
           vh == h % MOD
           sn == pdu.sn
<1>1. w \in Nat /\ MOD \in Nat /\ MOD = 2 * w /\ n \in Nat /\ h \in Nat /\ h \in Int /\ w > 1 /\ u \in Int
      /\ p \in Int /\ p \in Nat
  BY Sizes DEF History
<1>2. a \in Assemblies(m) /\ (\A x \in DOMAIN a.win : Far(a.ur, vh) < Far(x, vh))
  BY DEF Tight
<1>3. a.ur \in SN /\ vh \in SN /\ a.win \in Windows(m) /\ sn \in SN /\ sn = p % MOD /\ a.ur = u % MOD
  BY <1>1, <1>2, NumberType DEF Assemblies, Status, Pdus, Is
<1>4. win \in Windows(m) /\ DOMAIN win = DOMAIN a.win \union {sn} /\ win[sn] = pdu
      /\ \A x \in DOMAIN a.win : win[x] = a.win[x]
  <2>1. win \in Windows(m) /\ DOMAIN win = DOMAIN a.win \union {sn}
    <3> HIDE DEF sn
    <3>1. Put(a.win, sn, pdu) \in Windows(m)
      BY <1>3, PutWindow, Zenon
    <3>2. DOMAIN Put(a.win, sn, pdu) = DOMAIN a.win \union {sn}
      BY Zenon DEF Put
    <3>3. win = Put(a.win, sn, pdu)
      BY DEF sn
    <3> QED
      BY <3>1, <3>2, <3>3, Zenon
  <2>2. win = [x \in DOMAIN a.win \union {sn} |-> IF x = sn THEN pdu ELSE a.win[x]]
    BY DEF Put
  <2> QED
    BY <2>1, <2>2
<1>5. b \in Assemblies(m) /\ b.ur = a.ur /\ b.win = win /\ b.sdu = a.sdu /\ b.out = a.out /\ b.last = a.last
  BY <1>2, <1>4 DEF Assemblies
<1>6. Far(sn, vh) = IF p < h THEN p - h + MOD ELSE p - h
  <2>1. -w <= p - h /\ p - h < w /\ w > 0
    BY <1>1
  <2> QED
    BY <1>1, <1>3, <2>1, BaseNumber
<1>7. inside_reordering_window(sn, vh, win) <=> p < h
  <2>1. DOMAIN win # {} /\ w # 0
    BY <1>1, <1>4
  <2>2. inside_reordering_window(sn, vh, win) <=> w = 0 \/ DOMAIN win = {} \/ Far(sn, vh) >= w
    <3> HIDE DEF vh, sn
    <3> QED
      BY <1>3, <1>4, InsideIs, Zenon DEF w
  <2>3. Far(sn, vh) >= w <=> p < h
    <3> HIDE DEF vh, sn
    <3>1. CASE p < h
      <4>1. p - h + MOD >= w
        BY <1>1
      <4> QED
        BY <1>6, <3>1, <4>1
    <3>2. CASE ~(p < h)
      <4>1. ~(p - h >= w)
        BY <1>1
      <4> QED
        BY <1>6, <3>2, <4>1
    <3> QED
      BY <3>1, <3>2
  <2> HIDE DEF vh, sn, w
  <2> QED
    BY <2>1, <2>2, <2>3
<1>8. uh = hh % MOD
  <2>1. Shift(p % MOD, 1) = (p + 1) % MOD
    BY <1>1, NumberNext
  <2> QED
    BY <1>3, <1>7, <2>1
<1>9. hh \in Nat /\ hh \in 0 .. n /\ h <= hh /\ p < hh /\ u \in 0 .. hh /\ (h < hh => hh - 1 = p)
      /\ hh <= h + w
  BY <1>1
<1>10. Status(b, H, hh, 0, u)
  <2>1. ASSUME NEW x \in DOMAIN win PROVE \E y \in u .. hh - 1 : x = y % MOD /\ Is(win[x], H, y)
    <3>1. CASE x = sn
      <4>1. p \in u .. hh - 1
        BY <1>1, <1>9
      <4> QED
        BY <1>3, <1>4, <3>1, <4>1
    <3>2. CASE x \in DOMAIN a.win
      <4>1. PICK y \in u .. h - 1 : x = y % MOD /\ Is(a.win[x], H, y)
        BY <3>2 DEF Status, Kept
      <4>2. y \in u .. hh - 1
        BY <1>1, <1>9
      <4> QED
        BY <1>4, <3>2, <4>1, <4>2
    <3> QED
      BY <1>4, <3>1, <3>2
  <2>2. u < hh => (hh - 1) % MOD \in DOMAIN win
    <3>1. CASE h < hh
      BY <1>3, <1>4, <1>9, <3>1
    <3>2. CASE ~(h < hh)
      <4>1. hh = h
        BY <1>1, <1>9, <3>2
      <4>2. u < h => (h - 1) % MOD \in DOMAIN a.win
        BY DEF Status, Kept
      <4> QED
        BY <1>4, <4>1, <4>2
    <3> QED
      BY <3>1, <3>2
  <2>3. Kept(b.win, H, hh, u)
    BY <1>5, <2>1, <2>2 DEF Kept
  <2>4. Recent(b, H, u, 0)
    BY <1>5 DEF Status, Recent, Begun
  <2>5. Outs(b.out, 0, H[u].cut) /\ b.ur = u % MOD /\ 0 <= u
    BY <1>5 DEF Status
  <2> QED
    BY <1>9, <2>3, <2>4, <2>5 DEF Status
<1>11. u >= hh - w \/ (u >= hh - MOD + 0 /\ Snug(b, H, u))
  <2> SUFFICES ASSUME ~(u >= hh - w) PROVE u >= hh - MOD + 0 /\ Snug(b, H, u)
    OBVIOUS
  <2>1. u >= hh - MOD + 0 /\ h < hh
    BY <1>1, <1>9
  <2>2. a.ur # sn
    <3>1. u # p /\ p - u < MOD /\ u - p < MOD
      BY <1>1, <1>9, <2>1
    <3> QED
      BY <1>1, <1>3, <3>1, NumberSame
  <2>3. a.ur \notin DOMAIN a.win
    <3> SUFFICES ASSUME a.ur \in DOMAIN a.win PROVE FALSE
      OBVIOUS
    <3>1. Far(a.ur, vh) \in Int /\ Far(a.ur, vh) < Far(a.ur, vh)
      <4>1. a.ur \in Int /\ vh \in Int
        BY <1>3, Sizes DEF SN
      <4>2. Far(a.ur, vh) < Far(a.ur, vh)
        BY <1>2
      <4> QED
        BY <4>1, <4>2, FarType
    <3> QED
      BY <3>1
  <2> QED
    BY <1>4, <1>5, <2>1, <2>2, <2>3 DEF Snug
<1> QED
  BY <1>5, <1>8, <1>9, <1>10, <1>11, Zenon DEF Behinds

\* The timer after that is for what is missing before vr_uh.
LEMMA TimerFresh ==
    ASSUME rx_window_size > 1, NEW m \in Nat, NEW H, NEW n, History(H, n), NEW h \in 0 .. n,
           NEW a \in Onwards(m, H, h, 0), NEW uh, uh = h % MOD, NEW ux \in SN, NEW next, NEW runs \in BOOLEAN,
           runs => ux = uh \/ inside_reordering_window(ux, uh, a.win),
           next = IF ~runs /\ Waits(uh, a) THEN uh ELSE ux
    PROVE  Received(a, next, uh, H, h)
<1> DEFINE w == rx_window_size
<1>1. w \in Nat /\ MOD \in Nat /\ MOD = 2 * w /\ h \in Nat /\ h \in Int /\ w > 1 /\ uh \in SN
  BY Sizes, NumberType DEF History
<1>2. PICK u \in 0 .. h : Status(a, H, h, 0, u) /\ u >= h - w
  BY DEF Onwards
<1>3. ASSUME u < h PROVE RX_MOD_BASE(next, uh) <= w
  <2>1. RX_MOD_BASE(uh, uh) = w
    BY <1>1, EdgesAre
  <2>2. Waits(uh, a)
    <3>1. u \in Int /\ -w <= u - h /\ u - h < w /\ w > 0
      BY <1>1, <1>2, <1>3
    <3>2. RX_MOD_BASE(u % MOD, h % MOD) = u - h + w
      BY <1>1, <3>1, BaseNumber
    <3>3. RX_MOD_BASE(a.ur, uh) = u - h + w
      BY <1>2, <3>2 DEF Status
    <3>4. w > u - h + w
      BY <1>1, <1>3, <3>1
    <3> QED
      BY <2>1, <3>3, <3>4 DEF Waits
  <2>3. CASE next = uh
    BY <1>1, <2>1, <2>3
  <2>4. CASE next # uh
    <3>1. runs /\ next = ux
      BY <2>2, <2>4
    <3>2. inside_reordering_window(ux, uh, a.win)
      BY <2>4, <3>1
    <3>3. a.win \in Windows(m) /\ DOMAIN a.win # {}
      BY <1>2, <1>3 DEF Onwards, Assemblies, Status, Kept
    <3>4. Far(ux, uh) >= w
      <4>1. w = 0 \/ DOMAIN a.win = {} \/ Far(ux, uh) >= w
        BY <1>1, <3>2, <3>3, InsideIs, Zenon
      <4> QED
        BY <1>1, <3>3, <4>1
    <3>5. ux \in Int /\ uh \in Int
      BY <1>1 DEF SN
    <3>6. Far(ux, uh) \in 0 .. MOD - 1 /\ RX_MOD_BASE(ux, uh) = IF Far(ux, uh) >= w THEN Far(ux, uh) - w ELSE Far(ux, uh) + w
      BY <3>5, FarType, BaseIs
    <3> QED
      BY <1>1, <3>1, <3>4, <3>6
  <2> QED
    BY <2>3, <2>4
<1> QED
  BY <1>2, <1>3 DEF Received

\* A PDU less than a window from vr_uh is put where it was sent.
LEMMA HandleNormal ==
    ASSUME rx_window_size > 1, UmInv, NEW H, NEW n, History(H, n), NEW h \in 0 .. n, vr_uh = h % MOD,
           Received(assembly, vr_ux, vr_uh, H, h),
           NEW pdu \in Pdus(taken), NEW p \in 0 .. n - 1, Is(pdu, H, p),
           h - rx_window_size <= p, p < h + rx_window_size, HandleDataPdu(pdu),
           NEW hh, hh = IF p < h THEN h ELSE p + 1
    PROVE  hh \in 0 .. n /\ vr_uh' = hh % MOD /\ Received(assembly', vr_ux', vr_uh', H, hh)
<1> DEFINE w    == rx_window_size
           win  == Put(assembly.win, pdu.sn, pdu)
           uh   == IF inside_reordering_window(pdu.sn, vr_uh, win) THEN vr_uh ELSE Shift(pdu.sn, 1)
           b    == [assembly EXCEPT !.win = win]
           a    == Reassemble(b, uh)
           runs == reordering_timer /\ ~(\/ RX_MOD_BASE(vr_ux, uh) <= RX_MOD_BASE(a.ur, uh)
                                         \/ ~inside_reordering_window(vr_ux, uh, a.win) /\ vr_ux # uh)
<1>1. w \in Nat /\ MOD \in Nat /\ MOD = 2 * w /\ n \in Nat /\ h \in Nat /\ w > 1 /\ p \in Int /\ w > 0
      /\ h \in Int
  BY Sizes DEF History
<1>2. vr_ux \in SN /\ vr_uh \in SN /\ assembly \in Tight(taken, vr_uh) /\ taken \in Nat
  BY TakenType DEF UmInv
<1>3. PICK u \in 0 .. h : /\ Status(assembly, H, h, 0, u) /\ u >= h - w
                          /\ u < h => RX_MOD_BASE(vr_ux, vr_uh) <= w
  BY DEF Received
<1>4. RX_MOD_BASE(pdu.sn, vr_uh) = p - h + w
  <2>1. -w <= p - h /\ p - h < w
    BY <1>1
  <2>2. RX_MOD_BASE(p % MOD, h % MOD) = p - h + w
    BY <1>1, <2>1, BaseNumber
  <2> QED
    BY <2>2 DEF Is
<1>5. RX_MOD_BASE(assembly.ur, vr_uh) = u - h + w
  <2>1. -w <= u - h /\ u - h < w /\ u \in Int
    BY <1>1, <1>3
  <2>2. RX_MOD_BASE(u % MOD, h % MOD) = u - h + w
    BY <1>1, <2>1, BaseNumber
  <2> QED
    BY <1>3, <2>2 DEF Status
<1>6. TooLate(pdu.sn) <=> p < u
  <2>1. RX_MOD_BASE(vr_uh - w, vr_uh) = 0
    BY <1>2, EdgesAre
  <2>2. p - h + w >= 0 /\ (p - h + w < u - h + w <=> p < u)
    BY <1>1
  <2> QED
    BY <1>4, <1>5, <2>1, <2>2 DEF TooLate
<1>7. CASE TooLate(pdu.sn) \/ pdu.sn \in DOMAIN assembly.win
  <2>1. p < h
    <3>1. CASE TooLate(pdu.sn)
      BY <1>1, <1>6, <3>1
    <3>2. CASE pdu.sn \in DOMAIN assembly.win
      <4>1. PICK x \in u .. h - 1 : pdu.sn = x % MOD
        BY <1>3, <3>2 DEF Status, Kept
      <4>2. x \in Int /\ p - x < MOD /\ x - p < MOD /\ p % MOD = x % MOD
        BY <1>1, <1>3, <4>1 DEF Is
      <4>3. p = x
        BY <1>1, <4>2, NumberSame
      <4> QED
        BY <1>1, <4>1, <4>3
    <3> QED
      BY <1>7, <3>1, <3>2
  <2>2. UNCHANGED rx
    BY <1>7 DEF HandleDataPdu
  <2> QED
    BY <2>1, <2>2 DEF rx
<1>8. CASE ~(TooLate(pdu.sn) \/ pdu.sn \in DOMAIN assembly.win)
  <2>1. vr_uh' = uh /\ assembly' = a /\ SetTimer(runs, ~runs /\ Waits(uh, a), uh)
    BY <1>8, Zenon DEF HandleDataPdu
  <2>2. u <= p
    BY <1>1, <1>6, <1>8
  <2>3. uh = hh % MOD /\ hh \in 0 .. n /\ b \in Behinds(taken, H, hh, 0, 0)
    <3> HIDE DEF b, uh, win
    <3>1. win = Put(assembly.win, pdu.sn, pdu)
      BY DEF win
    <3>2. uh = IF inside_reordering_window(pdu.sn, h % MOD, win) THEN h % MOD ELSE Shift(pdu.sn, 1)
      BY DEF uh
    <3>3. b = [assembly EXCEPT !.win = win]
      BY DEF b
    <3>4. assembly \in Tight(taken, h % MOD) /\ pdu.sn \notin DOMAIN assembly.win
      BY <1>2, <1>8
    <3> QED
      BY <1>2, <1>3, <2>2, <3>1, <3>2, <3>3, <3>4, PutStatus
  <2> HIDE DEF b, uh, win
  <2>4. a \in Onwards(taken, H, hh, 0)
    BY <1>2, <2>3, ReassembleOnwards
  <2>5. runs \in BOOLEAN
    BY DEF runs
  <2>6. runs => vr_ux = uh \/ inside_reordering_window(vr_ux, uh, a.win)
    BY DEF runs
  <2> HIDE DEF a, runs
  <2>7. vr_ux' = IF ~runs /\ Waits(uh, a) THEN uh ELSE vr_ux
    BY <2>1 DEF SetTimer
  <2>8. Received(a, vr_ux', uh, H, hh)
    BY <1>2, <2>3, <2>4, <2>5, <2>6, <2>7, TimerFresh
  <2> QED
    BY <2>1, <2>3, <2>8
<1> QED
  BY <1>7, <1>8

-----------------------------------------------------------------------------
(* A PDU arrives while vr_ur is ahead of vr_uh                             *)

\* If the number of PDU p is one that is still waited for, vr_ur is brought up by as
\* many rounds as vr_uh.
LEMMA BroughtUp ==
    ASSUME rx_window_size > 0, NEW h \in Nat, NEW u \in Nat, NEW p \in Int, h < u, h - rx_window_size <= p,
           u - h <= (p - h) % MOD, (p - h) % MOD < rx_window_size
    PROVE  \E v \in Nat : v % MOD = u % MOD /\ h <= v /\ v <= p /\ v >= p + 1 - rx_window_size
<1> DEFINE w == rx_window_size
           d == p - h
           j == d % MOD
           c == u - j
           v == d + c
<1>1. w \in Nat /\ MOD \in Nat /\ MOD > 0 /\ MOD = 2 * w /\ d \in Int /\ d >= -w
  BY Sizes
<1>2. j \in 0 .. MOD - 1 /\ u - h <= j /\ j < w
  BY <1>1, ModDef
<1>3. 0 <= d /\ j <= d
  <2> HIDE DEF d
  <2>1. CASE d < 0
    <3>1. j = d + MOD
      BY <1>1, <2>1, Wrap
    <3> QED
      BY <1>1, <1>2, <3>1
  <2>2. CASE 0 <= d /\ d < MOD
    <3>1. d \in 0 .. MOD - 1
      BY <1>1, <2>2
    <3>2. j = d
      BY <1>1, <3>1, ModSmall
    <3> QED
      BY <1>1, <2>2, <3>2
  <2>3. CASE d >= MOD
    <3> HIDE DEF j
    <3> QED
      BY <1>1, <1>2, <2>3
  <2> QED
    BY <1>1, <2>1, <2>2, <2>3
<1>4. v % MOD = u % MOD
  <2>1. c \in Int
    BY <1>2
  <2> HIDE DEF d, c
  <2>2. ((d % MOD) + c) % MOD = (d + c) % MOD
    BY <1>1, <2>1, ModAdd, Zenon
  <2>3. (d % MOD) + c = u
    <3> HIDE DEF j
    <3>1. j + c = u
      BY <1>2 DEF c
    <3> QED
      BY <3>1 DEF j
  <2> QED
    BY <2>2, <2>3
<1> HIDE DEF j
<1>5. v \in Nat /\ h <= v /\ v <= p /\ v >= p + 1 - w
  BY <1>1, <1>2, <1>3
<1> HIDE DEF v
<1> QED
  BY <1>4, <1>5

\* A PDU is put into the window before which vr_ur and vr_uh are now.
LEMMA PutAstray ==
    ASSUME rx_window_size > 1, NEW m \in Nat, NEW H, NEW n, History(H, n), NEW h \in 0 .. n,
           NEW a \in Assemblies(m), DOMAIN a.win = {}, a.sdu = <<>>, Outs(a.out, 0, H[h].cut),
           NEW pdu \in Pdus(m), NEW p \in 0 .. n - 1, Is(pdu, H, p),
           NEW v \in Nat, a.ur = v % MOD, h <= v, v <= p, v >= p + 1 - rx_window_size,
           NEW b, b = [a EXCEPT !.win = Put(a.win, pdu.sn, pdu)]
    PROVE  b \in Behinds(m, H, p + 1, 0, 0)
<1> DEFINE w == rx_window_size
           sn == pdu.sn
           win == Put(a.win, sn, pdu)
<1>1. w \in Nat /\ n \in Nat /\ h \in Nat /\ w > 1 /\ p \in Int /\ p \in Nat
  BY Sizes DEF History
<1>3. v \in 0 .. p + 1 /\ v \in 0 .. n
  BY <1>1
<1>5. sn \in SN /\ sn = p % MOD
  BY DEF Is, Pdus
<1>6. win \in Windows(m) /\ DOMAIN win = {sn} /\ win[sn] = pdu
  <2> HIDE DEF sn
  <2>1. a.win \in Windows(m)
    BY DEF Assemblies
  <2>2. win \in Windows(m)
    BY <1>5, <2>1, PutWindow, Zenon DEF sn
  <2> QED
    BY <2>2 DEF Put, sn
<1>7. b \in Assemblies(m) /\ b.ur = a.ur /\ b.win = win /\ b.sdu = <<>> /\ b.out = a.out
  <2> HIDE DEF win
  <2>1. b = [a EXCEPT !.win = win]
    BY DEF win
  <2> QED
    BY <1>6, <2>1 DEF Assemblies
<1> HIDE DEF win, sn
<1>8. Kept(b.win, H, p + 1, v)
  <2>1. p \in v .. (p + 1) - 1 /\ (p + 1) - 1 = p
    BY <1>1, <1>3
  <2>2. sn = p % MOD /\ Is(b.win[sn], H, p)
    BY <1>5, <1>6, <1>7
  <2> QED
    BY <1>6, <1>7, <2>1, <2>2 DEF Kept
<1>9. Outs(b.out, 0, H[v].cut)
  <2> DEFINE x == H[h].cut
             y == H[v].cut
  <2>1. x \in Nat /\ y \in Nat /\ x <= y
    BY <1>3, HistoryCuts
  <2>2. x \in Int /\ y \in Int /\ x <= y /\ Outs(a.out, 0, x)
    BY <2>1
  <2> HIDE DEF x, y
  <2>3. Outs(a.out, 0, y)
    BY <2>2, OutsWiden
  <2> QED
    BY <1>7, <2>3 DEF y
<1>10. Status(b, H, p + 1, 0, v)
  BY <1>3, <1>7, <1>8, <1>9 DEF Status, Recent
<1> DEFINE hh == p + 1
<1>11. v \in 0 .. hh /\ v >= hh - rx_window_size /\ Status(b, H, hh, 0, v) /\ b \in Assemblies(m)
  BY <1>1, <1>3, <1>7, <1>10
<1> HIDE DEF hh
<1>12. b \in Behinds(m, H, hh, 0, 0)
  BY <1>11, Zenon DEF Behinds
<1> QED
  BY <1>12 DEF hh

\* It counts as too late, or is put where it was sent and vr_ur is behind vr_uh again.
LEMMA HandleAstray ==
    ASSUME rx_window_size > 1, UmInv, NEW H, NEW n, History(H, n), NEW h \in 0 .. n, vr_uh = h % MOD,
           Astray(assembly, H, h),
           NEW pdu \in Pdus(taken), NEW p \in 0 .. n - 1, Is(pdu, H, p),
           h - rx_window_size <= p, HandleDataPdu(pdu)
    PROVE  \/ UNCHANGED rx
           \/ h <= p /\ vr_uh' = (p + 1) % MOD /\ Received(assembly', vr_ux', vr_uh', H, p + 1)
<1> DEFINE w    == rx_window_size
           win  == Put(assembly.win, pdu.sn, pdu)
           uh   == IF inside_reordering_window(pdu.sn, vr_uh, win) THEN vr_uh ELSE Shift(pdu.sn, 1)
           b    == [assembly EXCEPT !.win = win]
           a    == Reassemble(b, uh)
           runs == reordering_timer /\ ~(\/ RX_MOD_BASE(vr_ux, uh) <= RX_MOD_BASE(a.ur, uh)
                                         \/ ~inside_reordering_window(vr_ux, uh, a.win) /\ vr_ux # uh)
           d == p - h
           j == d % MOD
<1>1. w \in Nat /\ MOD \in Nat /\ MOD > 0 /\ MOD = 2 * w /\ n \in Nat /\ h \in Nat /\ w > 1 /\ p \in Int
      /\ w > 0 /\ h \in Int /\ d \in Int
  BY Sizes DEF History
<1>2. vr_ux \in SN /\ vr_uh \in SN /\ assembly \in Tight(taken, vr_uh) /\ taken \in Nat
      /\ assembly \in Assemblies(taken)
  BY TakenType DEF UmInv, Tight
<1>3. PICK u \in Nat : /\ h < u /\ u < h + w /\ assembly.ur = u % MOD
                       /\ DOMAIN assembly.win = {} /\ assembly.sdu = <<>> /\ Outs(assembly.out, 0, H[h].cut)
  BY DEF Astray
<1>4. j \in 0 .. MOD - 1
  BY <1>1, ModDef
<1>5. Far(pdu.sn, vr_uh) = j
  BY <1>1, FarNumber DEF Is
<1>6. RX_MOD_BASE(assembly.ur, vr_uh) = u - h + w
  <2>1. -w <= u - h /\ u - h < w /\ u \in Int
    BY <1>1, <1>3
  <2>2. RX_MOD_BASE(u % MOD, h % MOD) = u - h + w
    BY <1>1, <2>1, BaseNumber
  <2> QED
    BY <1>3, <2>2
<1>7. RX_MOD_BASE(pdu.sn, vr_uh) = IF j >= w THEN j - w ELSE j + w
  <2>1. pdu.sn \in Int /\ vr_uh \in Int
    BY <1>1, <1>2 DEF SN, Pdus
  <2>2. RX_MOD_BASE(pdu.sn, vr_uh) = IF Far(pdu.sn, vr_uh) >= w THEN Far(pdu.sn, vr_uh) - w
                                     ELSE Far(pdu.sn, vr_uh) + w
    BY <2>1, BaseIs
  <2> HIDE DEF j, w
  <2> QED
    BY <1>5, <2>2
<1>8. CASE TooLate(pdu.sn) \/ pdu.sn \in DOMAIN assembly.win
  BY <1>8 DEF HandleDataPdu
<1>9. CASE ~(TooLate(pdu.sn) \/ pdu.sn \in DOMAIN assembly.win)
  <2>1. vr_uh' = uh /\ assembly' = a /\ SetTimer(runs, ~runs /\ Waits(uh, a), uh)
    BY <1>9, Zenon DEF HandleDataPdu
  <2>2. u - h <= j /\ j < w
    <3>1. RX_MOD_BASE(vr_uh - w, vr_uh) = 0
      BY <1>2, EdgesAre
    <3>2. RX_MOD_BASE(pdu.sn, vr_uh) >= 0
      <4> HIDE DEF j, w
      <4> QED
        BY <1>1, <1>4, <1>7
    <3>3. ~(RX_MOD_BASE(pdu.sn, vr_uh) < u - h + w)
      BY <1>6, <1>9, <3>1, <3>2 DEF TooLate
    <3> HIDE DEF j, w
    <3> QED
      BY <1>1, <1>3, <1>4, <1>7, <3>3
  <2>3. PICK v \in Nat : v % MOD = u % MOD /\ h <= v /\ v <= p /\ v >= p + 1 - w
    BY <1>1, <1>3, <2>2, BroughtUp
  <2>4. uh = (p + 1) % MOD
    <3>1. ~inside_reordering_window(pdu.sn, vr_uh, win)
      <4>1. win \in Windows(taken) /\ DOMAIN win # {} /\ pdu.sn \in SN
        <5>1. assembly.win \in Windows(taken) /\ pdu.sn \in SN
          BY <1>2 DEF Assemblies, Pdus
        <5>2. Put(assembly.win, pdu.sn, pdu) \in Windows(taken)
          BY <5>1, PutWindow, Zenon
        <5> QED
          BY <5>1, <5>2 DEF Put
      <4> HIDE DEF win
      <4>2. inside_reordering_window(pdu.sn, vr_uh, win)
              <=> w = 0 \/ DOMAIN win = {} \/ Far(pdu.sn, vr_uh) >= w
        BY <1>2, <4>1, InsideIs, Zenon
      <4>3. ~(Far(pdu.sn, vr_uh) >= w) /\ w # 0
        <5> HIDE DEF j, w
        <5> QED
          BY <1>1, <1>4, <1>5, <2>2
      <4> QED
        BY <4>1, <4>2, <4>3
    <3>2. uh = Shift(p % MOD, 1)
      BY <3>1 DEF Is
    <3> QED
      BY <1>1, <3>2, NumberNext
  <2>5. b \in Behinds(taken, H, p + 1, 0, 0)
    <3>1. b = [assembly EXCEPT !.win = Put(assembly.win, pdu.sn, pdu)]
      OBVIOUS
    <3> HIDE DEF b
    <3> QED
      BY <1>2, <1>3, <2>3, <3>1, PutAstray
  <2> DEFINE hh == p + 1
  <2>6. hh \in 0 .. n
    BY <1>1, <2>3
  <2> HIDE DEF b, uh, win, hh
  <2>7. b \in Behinds(taken, H, hh, 0, 0) /\ uh = hh % MOD
    BY <2>4, <2>5 DEF hh
  <2>8. a \in Onwards(taken, H, hh, 0)
    BY <1>2, <2>6, <2>7, ReassembleOnwards
  <2>9. runs \in BOOLEAN /\ (runs => vr_ux = uh \/ inside_reordering_window(vr_ux, uh, a.win))
    BY DEF runs
  <2> HIDE DEF a, runs
  <2>10. vr_ux' = IF ~runs /\ Waits(uh, a) THEN uh ELSE vr_ux
    BY <2>1 DEF SetTimer
  <2>11. Received(a, vr_ux', uh, H, hh)
    BY <1>2, <2>6, <2>7, <2>8, <2>9, <2>10, TimerFresh
  <2> QED
    BY <2>1, <2>3, <2>4, <2>11 DEF hh
<1> QED
  BY <1>8, <1>9

-----------------------------------------------------------------------------
(* The timer expires                                                       *)

\* Something is missing before vr_uh: numbers are passed over up to vr_ux, which is
\* not beyond vr_uh.  The SDU that is begun was so after the expiry.
Gap(m, H, h) ==
    {a \in Tight(m, h % MOD) :
       \E u \in 0 .. h : Status(a, H, h, h - rx_window_size, u) /\ u >= h - rx_window_size}

LEMMA SkipGap ==
    ASSUME rx_window_size > 1, NEW m \in Nat, NEW H, NEW n, History(H, n), NEW h \in 0 .. n,
           vr_uh = h % MOD, vr_ux \in SN, RX_MOD_BASE(vr_ux, vr_uh) <= rx_window_size, NEW a \in Gap(m, H, h)
    PROVE  Skip(a) \in Gap(m, H, h)
<1> DEFINE w == rx_window_size
           f == h - w
           d == [a EXCEPT !.ur = Shift(a.ur, 1)]
           b == Reassemble(d, vr_uh)
<1>1. w \in Nat /\ MOD \in Nat /\ MOD = 2 * w /\ h \in Nat /\ h \in Int /\ w > 1 /\ w > 0 /\ f \in Int
      /\ vr_uh \in SN /\ vr_uh \in Int /\ vr_ux \in Int
  BY Sizes, NumberType DEF History, SN
<1>2. a \in Tight(m, vr_uh) /\ a \in Assemblies(m)
  BY DEF Gap, Tight
<1>3. PICK u \in 0 .. h : Status(a, H, h, f, u) /\ u >= f
  BY Zenon DEF Gap
<1>4. CASE RX_MOD_BASE(a.ur, vr_uh) < RX_MOD_BASE(vr_ux, vr_uh)
  <2>1. Skip(a) = b
    BY <1>4, Zenon DEF Skip
  <2>2. u < h
    <3>1. -w <= u - h /\ u - h < w /\ u \in Int
      BY <1>1, <1>3
    <3>2. RX_MOD_BASE(u % MOD, h % MOD) = u - h + w
      BY <1>1, <3>1, BaseNumber
    <3>3. RX_MOD_BASE(a.ur, vr_uh) = u - h + w
      BY <1>3, <3>2 DEF Status
    <3>4. RX_MOD_BASE(vr_ux, vr_uh) \in Int
      <4>1. Far(vr_ux, vr_uh) \in 0 .. MOD - 1
        BY <1>1, FarType
      <4>2. RX_MOD_BASE(vr_ux, vr_uh) = IF Far(vr_ux, vr_uh) >= w THEN Far(vr_ux, vr_uh) - w
                                        ELSE Far(vr_ux, vr_uh) + w
        BY <1>1, BaseIs
      <4> QED
        BY <1>1, <4>1, <4>2
    <3> QED
      BY <1>1, <1>3, <1>4, <3>3, <3>4
  <2>3. a.ur \in SN /\ a.win \in Windows(m) /\ a.ur = u % MOD /\ u \in Nat /\ u \in Int
    BY <1>2, <1>3 DEF Assemblies, Status
  <2>4. d \in Assemblies(m) /\ d.ur = (u + 1) % MOD /\ d.win = a.win /\ d.sdu = a.sdu /\ d.out = a.out
        /\ d.last = a.last
    <3>1. Shift(a.ur, 1) \in SN /\ Shift(a.ur, 1) = (u + 1) % MOD
      BY <2>3, NextType, NumberNext
    <3> QED
      BY <1>2, <3>1 DEF Assemblies
  <2>5. a.ur \notin DOMAIN a.win
    <3> SUFFICES ASSUME a.ur \in DOMAIN a.win PROVE FALSE
      OBVIOUS
    <3>1. Far(a.ur, vr_uh) < Far(a.ur, vr_uh)
      BY <1>2 DEF Tight
    <3>2. Far(a.ur, vr_uh) \in 0 .. MOD - 1
      <4>1. a.ur \in Int
        BY <1>1, <2>3 DEF SN
      <4> QED
        BY <1>1, <4>1, FarType
    <3> QED
      BY <3>1, <3>2
  <2> HIDE DEF d, b
  <2>6. Recent(d, H, u + 1, f)
    <3> SUFFICES ASSUME d.sdu # <<>>
                 PROVE  \E l \in Nat : /\ f <= l /\ l < u + 1 /\ u + 1 <= l + w + 1
                                       /\ d.last = l % MOD /\ Begun(d, H[l + 1].cut)
      BY Zenon DEF Recent
    <3>1. PICK l \in Nat : /\ f <= l /\ l < u /\ a.last = l % MOD /\ Begun(a, H[l + 1].cut)
      BY <1>3, <2>4 DEF Status, Recent
    <3>2. l < u + 1 /\ u + 1 <= l + w + 1
      <4>1. l < u /\ h - w <= l /\ u < h
        BY <2>2, <3>1
      <4>2. l \in Int /\ u \in Int /\ h \in Int /\ w \in Int
        BY <1>1, <2>3
      <4> HIDE DEF w
      <4> QED
        BY <4>1, <4>2
    <3>3. Begun(d, H[l + 1].cut)
      BY <2>4, <3>1 DEF Begun
    <3> QED
      BY <2>4, <3>1, <3>2, <3>3, Zenon
  <2>7. Outs(d.out, 0, H[u + 1].cut)
    <3> DEFINE x == H[u].cut
               y == H[u + 1].cut
    <3>1. x \in Int /\ y \in Int /\ x <= y
      <4>1. H[u].cut \in Nat /\ H[u + 1].cut \in Nat /\ H[u].cut <= H[u + 1].cut
        BY <2>2, <2>3, StatusMade
      <4> QED
        BY <4>1
    <3>2. Outs(a.out, 0, x)
      BY <1>3 DEF Status
    <3> HIDE DEF x, y
    <3>3. Outs(a.out, 0, y)
      BY <3>1, <3>2, OutsWiden
    <3> QED
      BY <2>4, <3>3 DEF y
  <2>8. Status(d, H, h, f, u + 1)
    <3>1. u >= h - MOD
      BY <1>1, <1>3, <2>3
    <3>2. DOMAIN d.win = DOMAIN a.win \ {a.ur} /\ \A sn \in DOMAIN d.win : d.win[sn] = a.win[sn]
      BY <2>4, <2>5
    <3> HIDE DEF f
    <3> QED
      BY <1>1, <1>3, <2>2, <2>4, <2>6, <2>7, <3>1, <3>2, StatusNext
  <2>9. d \in Behinds(m, H, h, f, 0)
    <3>1. u + 1 \in 0 .. h /\ u + 1 >= h - w
      BY <1>1, <1>3, <2>2, <2>3
    <3> HIDE DEF f
    <3> QED
      BY <2>4, <2>8, <3>1, Zenon DEF Behinds
  <2>10. b \in Onwards(m, H, h, f)
    <3>1. Reassemble(d, h % MOD) \in Onwards(m, H, h, f)
      <4> HIDE DEF f
      <4> QED
        BY <1>1, <2>9, ReassembleOnwards
    <3> QED
      BY <3>1 DEF b
  <2>11. Skip(a) \in Tight(m, vr_uh)
    BY <1>1, <1>2, SkipTight
  <2> QED
    BY <2>1, <2>10, <2>11 DEF Gap, Onwards
<1>5. CASE ~(RX_MOD_BASE(a.ur, vr_uh) < RX_MOD_BASE(vr_ux, vr_uh))
  BY <1>5 DEF Skip
<1> QED
  BY <1>4, <1>5

\* With nothing in the window there is nothing to reassemble.
LEMMA ReassembleNone ==
    ASSUME NEW a, NEW uh, a.win = <<>> PROVE Reassemble(a, uh) = a
<1> DEFINE T == [k \in 0 .. MOD |-> {a}]
<1>1. MOD \in Nat /\ 0 \in 0 .. MOD /\ MOD \in 0 .. MOD
  BY Sizes
<1>2. \A k \in 1 .. MOD : k \in 0 .. MOD /\ k - 1 \in 0 .. MOD
  BY <1>1
<1>3. Behind(a, uh) = a /\ Onward(a) = a
  BY DEF Behind, Onward, inside_reordering_window
<1>4. CatchUp(a, uh) = a
  <2>1. a \in T[0] /\ \A k \in 1 .. MOD : \A b \in T[k - 1] : Behind(b, uh) \in T[k]
    BY <1>1, <1>2, <1>3
  <2> HIDE DEF T
  <2>2. CatchUp(a, uh) \in T[MOD]
    BY <2>1, LoopCatchUp, Zenon
  <2> QED
    BY <1>1, <2>2 DEF T
<1>5. Loop(Onward, a) = a
  <2>1. a \in T[0] /\ \A k \in 1 .. MOD : \A b \in T[k - 1] : Onward(b) \in T[k]
    BY <1>1, <1>2, <1>3
  <2> HIDE DEF T
  <2>2. Loop(Onward, a) \in T[MOD]
    BY <2>1, LoopOnward, Zenon
  <2> QED
    BY <1>1, <2>2 DEF T
<1> QED
  BY <1>4, <1>5, Zenon DEF Reassemble

\* Nothing is missing before vr_uh: vr_ur alone moves, from low up to vr_ux at most.
Clear(m, H, h, low) ==
    {a \in Assemblies(m) :
       \E u \in Nat : /\ low <= u /\ u < h + rx_window_size /\ a.ur = u % MOD
                      /\ a.win = <<>> /\ a.sdu = <<>> /\ Outs(a.out, 0, H[h].cut)}

LEMMA SkipClear ==
    ASSUME rx_window_size > 1, NEW m \in Nat, NEW H, NEW h \in Nat, NEW low \in Nat, h <= low,
           vr_uh = h % MOD, vr_ux \in SN, NEW a \in Clear(m, H, h, low)
    PROVE  Skip(a) \in Clear(m, H, h, low)
<1> DEFINE w == rx_window_size
           d == [a EXCEPT !.ur = Shift(a.ur, 1)]
<1>1. w \in Nat /\ MOD \in Nat /\ MOD = 2 * w /\ h \in Int /\ w > 1 /\ w > 0
      /\ vr_uh \in SN /\ vr_uh \in Int /\ vr_ux \in Int
  BY Sizes, NumberType DEF SN
<1>2. PICK u \in Nat : /\ low <= u /\ u < h + w /\ a.ur = u % MOD
                       /\ a.win = <<>> /\ a.sdu = <<>> /\ Outs(a.out, 0, H[h].cut)
  BY Zenon DEF Clear
<1>3. a \in Assemblies(m) /\ u \in Int
  BY DEF Clear
<1>4. CASE RX_MOD_BASE(a.ur, vr_uh) < RX_MOD_BASE(vr_ux, vr_uh)
  <2>1. u + 1 < h + w
    <3>1. -w <= u - h /\ u - h < w
      BY <1>1, <1>2
    <3>2. RX_MOD_BASE(a.ur, vr_uh) = u - h + w
      <4>1. RX_MOD_BASE(u % MOD, h % MOD) = u - h + w
        BY <1>1, <1>3, <3>1, BaseNumber
      <4> QED
        BY <1>2, <4>1
    <3>3. Far(vr_ux, vr_uh) \in 0 .. MOD - 1
      BY <1>1, FarType
    <3>4. RX_MOD_BASE(vr_ux, vr_uh) = IF Far(vr_ux, vr_uh) >= w THEN Far(vr_ux, vr_uh) - w
                                      ELSE Far(vr_ux, vr_uh) + w
      BY <1>1, BaseIs
    <3>5. RX_MOD_BASE(vr_ux, vr_uh) \in Int /\ RX_MOD_BASE(vr_ux, vr_uh) <= w + w - 1
      BY <1>1, <3>3, <3>4
    <3> QED
      BY <1>1, <1>2, <1>3, <1>4, <3>2, <3>5
  <2>2. d \in Assemblies(m) /\ d.ur = (u + 1) % MOD /\ d.win = <<>> /\ d.sdu = <<>> /\ d.out = a.out
    <3>1. Shift(a.ur, 1) \in SN /\ Shift(a.ur, 1) = (u + 1) % MOD
      BY <1>2, <1>3, NextType, NumberNext DEF Assemblies
    <3> QED
      BY <1>2, <1>3, <3>1 DEF Assemblies
  <2> HIDE DEF d
  <2>3. Skip(a) = d
    <3>1. Skip(a) = Reassemble(d, vr_uh)
      BY <1>4, Zenon DEF Skip, d
    <3> QED
      BY <2>2, <3>1, ReassembleNone
  <2>4. d \in Clear(m, H, h, low)
    <3>1. u + 1 \in Nat /\ low <= u + 1
      BY <1>2
    <3>2. Outs(d.out, 0, H[h].cut)
      BY <1>2, <2>2
    <3> QED
      BY <2>1, <2>2, <3>1, <3>2, Zenon DEF Clear
  <2> QED
    BY <2>3, <2>4
<1>5. CASE ~(RX_MOD_BASE(a.ur, vr_uh) < RX_MOD_BASE(vr_ux, vr_uh))
  BY <1>5 DEF Skip
<1> QED
  BY <1>4, <1>5

\* The whole loop.
LEMMA SkipsWithin ==
    ASSUME NEW S, NEW a \in S, \A c \in S : Skip(c) \in S PROVE SkipMissing(a) \in S
<1> DEFINE T == [k \in 0 .. MOD |-> S]
<1>1. MOD \in Nat /\ 0 \in 0 .. MOD /\ MOD \in 0 .. MOD
  BY Sizes
<1>2. \A k \in 1 .. MOD : k \in 0 .. MOD /\ k - 1 \in 0 .. MOD
  BY <1>1
<1>3. \A k \in 1 .. MOD : \A c \in T[k - 1] : Skip(c) \in T[k]
  BY <1>2, Zenon
<1>4. a \in T[0]
  BY <1>1, Zenon
<1>5. Loop(Skip, a) \in T[MOD]
  <2> HIDE DEF T
  <2> QED
    BY <1>3, <1>4, LoopSkip, Zenon
<1> QED
  BY <1>1, <1>5, Zenon DEF SkipMissing

LEMMA MissingWaits ==
    ASSUME rx_window_size > 1, NEW a, NEW H, NEW h \in Nat, NEW f, NEW u, Status(a, H, h, f, u),
           u < h, u >= h - rx_window_size, NEW uh, uh = h % MOD
    PROVE  Waits(uh, a) /\ RX_MOD_BASE(uh, uh) = rx_window_size
<1> DEFINE w == rx_window_size
<1>1. w \in Nat /\ h \in Int /\ u \in Int /\ w > 0 /\ -w <= u - h /\ u - h < w /\ uh \in SN
  BY Sizes, NumberType DEF Status
<1>2. RX_MOD_BASE(uh, uh) = w
  BY <1>1, EdgesAre
<1>3. RX_MOD_BASE(u % MOD, h % MOD) = u - h + w
  BY <1>1, BaseNumber
<1>4. RX_MOD_BASE(a.ur, uh) = u - h + w
  BY <1>3 DEF Status
<1>5. w > u - h + w
  BY <1>1
<1> QED
  BY <1>2, <1>4, <1>5 DEF Waits

LEMMA HandleExpired ==
    ASSUME rx_window_size > 1, UmInv, NEW H, NEW n, History(H, n), NEW h \in 0 .. n, vr_uh = h % MOD,
           Received(assembly, vr_ux, vr_uh, H, h) \/ Astray(assembly, H, h), TimerExpired
    PROVE  /\ Received(assembly', vr_ux', vr_uh, H, h) \/ Astray(assembly', H, h)
           /\ Astray(assembly, H, h) => Astray(assembly', H, h)
<1> DEFINE w == rx_window_size
           b == [assembly EXCEPT !.lost = TRUE, !.sdu = <<>>]
           a == SkipMissing(b)
<1>1. w \in Nat /\ h \in Nat /\ h \in Int /\ w > 1
  BY Sizes DEF History
<1>2. vr_ux \in SN /\ vr_uh \in SN /\ assembly \in Tight(taken, vr_uh) /\ taken \in Nat
      /\ assembly \in Assemblies(taken)
  BY TakenType DEF UmInv, Tight
<1>3. assembly' = a /\ SetTimer(reordering_timer, Waits(vr_uh, a), vr_uh)
  BY DEF TimerExpired
<1>4. b \in Assemblies(taken) /\ b.ur = assembly.ur /\ b.win = assembly.win /\ b.out = assembly.out
      /\ b.sdu = <<>>
  <2>1. <<>> \in Seq(0 .. taken - 1)
    OBVIOUS
  <2> QED
    BY <1>2, <2>1 DEF Assemblies
<1>5. b \in Tight(taken, vr_uh)
  <2> HIDE DEF b
  <2> QED
    BY <1>2, <1>4 DEF Tight
<1>6. Waits(vr_uh, a) => vr_ux' = vr_uh
  BY <1>3, Zenon DEF SetTimer
<1> HIDE DEF b
<1>7. ASSUME NEW u \in 0 .. h, Status(assembly, H, h, 0, u), u >= h - w, u < h,
             RX_MOD_BASE(vr_ux, vr_uh) <= w
      PROVE  Received(a, vr_ux', vr_uh, H, h)
  <2> DEFINE f == h - w
  <2>1. Status(b, H, h, f, u)
    BY <1>1, <1>4, <1>7 DEF Status, Recent
  <2>2. b \in Gap(taken, H, h)
    BY <1>5, <1>7, <2>1, Zenon DEF Gap
  <2>3. \A c \in Gap(taken, H, h) : Skip(c) \in Gap(taken, H, h)
    BY <1>1, <1>2, <1>7, SkipGap
  <2>4. a \in Gap(taken, H, h)
    BY <2>2, <2>3, SkipsWithin, Zenon
  <2> HIDE DEF a
  <2>5. PICK v \in 0 .. h : Status(a, H, h, f, v) /\ v >= h - w
    BY <2>4, Zenon DEF Gap
  <2>6. Recent(a, H, v, 0)
    <3> SUFFICES ASSUME a.sdu # <<>>
                 PROVE  \E l \in Nat : /\ 0 <= l /\ l < v /\ v <= l + w + 1
                                       /\ a.last = l % MOD /\ Begun(a, H[l + 1].cut)
      BY Zenon DEF Recent
    <3>1. PICK l \in Nat : /\ l < v /\ v <= l + w + 1
                           /\ a.last = l % MOD /\ Begun(a, H[l + 1].cut)
      BY <2>5 DEF Status, Recent
    <3>2. 0 <= l
      OBVIOUS
    <3> QED
      BY <3>1, <3>2, Zenon
  <2>7. Status(a, H, h, 0, v)
    <3>1. 0 <= v
      BY <1>1
    <3> QED
      BY <2>5, <2>6, <3>1, Zenon DEF Status
  <2>8. ASSUME v < h PROVE RX_MOD_BASE(vr_ux', vr_uh) <= w
    <3>1. Waits(vr_uh, a) /\ RX_MOD_BASE(vr_uh, vr_uh) = w
      BY <1>1, <2>5, <2>7, <2>8, MissingWaits
    <3> QED
      BY <1>1, <1>6, <3>1
  <2> QED
    BY <2>5, <2>7, <2>8, Zenon DEF Received
<1>8. ASSUME NEW u \in Nat, h <= u, u < h + w, assembly.ur = u % MOD, DOMAIN assembly.win = {},
             Outs(assembly.out, 0, H[h].cut)
      PROVE  (Received(a, vr_ux', vr_uh, H, h) \/ Astray(a, H, h)) /\ (h < u => Astray(a, H, h))
  <2>1. assembly.win = <<>>
    BY <1>2, <1>8, EmptyWindow DEF Assemblies
  <2>2. b \in Clear(taken, H, h, u)
    <3>1. u <= u
      OBVIOUS
    <3> QED
      BY <1>4, <1>8, <2>1, <3>1, Zenon DEF Clear
  <2>3. \A c \in Clear(taken, H, h, u) : Skip(c) \in Clear(taken, H, h, u)
    BY <1>1, <1>2, <1>8, SkipClear
  <2>4. a \in Clear(taken, H, h, u)
    BY <2>2, <2>3, SkipsWithin, Zenon
  <2> HIDE DEF a
  <2>5. PICK v \in Nat : /\ u <= v /\ v < h + w /\ a.ur = v % MOD
                         /\ a.win = <<>> /\ a.sdu = <<>> /\ Outs(a.out, 0, H[h].cut)
    BY <2>4, Zenon DEF Clear
  <2>6. DOMAIN a.win = {}
    BY <2>5
  <2>7. CASE v = h
    <3>1. Kept(a.win, H, h, h)
      BY <1>1, <2>6 DEF Kept
    <3>2. Status(a, H, h, 0, h)
      BY <1>1, <2>5, <2>7, <3>1 DEF Status, Recent
    <3>3. h \in 0 .. h /\ h >= h - w /\ ~(h < h)
      BY <1>1
    <3>4. ~(h < u)
      BY <1>1, <2>5, <2>7
    <3> QED
      BY <3>2, <3>3, <3>4, Zenon DEF Received
  <2>8. CASE v # h
    <3>1. h < v
      BY <1>1, <1>8, <2>5, <2>8
    <3> QED
      BY <2>5, <2>6, <3>1, Zenon DEF Astray
  <2> QED
    BY <2>7, <2>8
<1>9. ASSUME Received(assembly, vr_ux, vr_uh, H, h)
      PROVE  Received(assembly', vr_ux', vr_uh, H, h) \/ Astray(assembly', H, h)
  <2>1. PICK u \in 0 .. h : /\ Status(assembly, H, h, 0, u) /\ u >= h - w
                            /\ u < h => RX_MOD_BASE(vr_ux, vr_uh) <= w
    BY <1>9 DEF Received
  <2>2. CASE u < h
    BY <1>3, <1>7, <1>9, <2>1, <2>2
  <2>3. CASE ~(u < h)
    <3>1. u = h /\ u \in Nat /\ h <= u /\ u < h + w
      BY <1>1, <2>3
    <3>2. DOMAIN assembly.win = {}
      <4> SUFFICES ASSUME NEW sn \in DOMAIN assembly.win PROVE FALSE
        OBVIOUS
      <4>1. PICK x \in u .. h - 1 : TRUE
        BY <2>1 DEF Status, Kept
      <4> QED
        BY <1>1, <3>1, <4>1
    <3>3. assembly.ur = u % MOD /\ Outs(assembly.out, 0, H[h].cut)
      BY <2>1, <3>1 DEF Status
    <3> QED
      BY <1>3, <1>8, <1>9, <3>1, <3>2, <3>3
  <2> QED
    BY <2>2, <2>3
<1>10. ASSUME Astray(assembly, H, h) PROVE Astray(assembly', H, h)
  <2>1. PICK u \in Nat : /\ h < u /\ u < h + w /\ assembly.ur = u % MOD
                         /\ DOMAIN assembly.win = {} /\ Outs(assembly.out, 0, H[h].cut)
    BY <1>10 DEF Astray
  <2>2. h <= u
    BY <1>1, <2>1
  <2> QED
    BY <1>3, <1>8, <2>1, <2>2
<1> QED
  BY <1>9, <1>10, Zenon

-----------------------------------------------------------------------------
(* A PDU is built                                                          *)

\* The history goes on; what was said of it before still holds.
Longer(H, n, e) == [p \in 0 .. n + 1 |-> IF p <= n THEN H[p] ELSE e]
Agrees(G, H, n) == \A p \in 0 .. n : G[p] = H[p]

LEMMA LongerIs ==
    ASSUME NEW H, NEW n \in Nat, NEW e
    PROVE  Agrees(Longer(H, n, e), H, n) /\ Longer(H, n, e)[n + 1] = e
<1>1. n + 1 \in 0 .. n + 1 /\ ~(n + 1 <= n) /\ \A p \in 0 .. n : p \in 0 .. n + 1 /\ p <= n
  OBVIOUS
<1> QED
  BY <1>1, Zenon DEF Longer, Agrees

LEMMA HistoryLonger ==
    ASSUME NEW H, NEW n, History(H, n), NEW e \in [cut : Nat, begun : BOOLEAN], H[n].cut < e.cut,
           ~e.begun => Begins(e.cut)
    PROVE  History(Longer(H, n, e), n + 1)
<1> DEFINE G == Longer(H, n, e)
<1>1. n \in Nat /\ H \in [0 .. n -> [cut : Nat, begun : BOOLEAN]]
  BY DEF History
<1>2. (\A p \in 0 .. n : G[p] = H[p]) /\ G[n + 1] = e
  <2>1. Agrees(G, H, n) /\ G[n + 1] = e
    BY <1>1, LongerIs, Zenon
  <2> QED
    BY <2>1, Zenon DEF Agrees
<1>3. \A p \in 0 .. n + 1 : p \in 0 .. n \/ p = n + 1
  BY <1>1
<1>4. G \in [0 .. n + 1 -> [cut : Nat, begun : BOOLEAN]]
  <2>2. \A p \in 0 .. n : H[p] \in [cut : Nat, begun : BOOLEAN]
    BY <1>1
  <2>3. \A p \in 0 .. n + 1 : G[p] \in [cut : Nat, begun : BOOLEAN]
    <3> HIDE DEF G
    <3> QED
      BY <1>2, <1>3, <2>2, Zenon
  <2>4. G = [p \in 0 .. n + 1 |-> G[p]]
    <3>1. DOMAIN G = 0 .. n + 1
      BY DEF Longer
    <3> QED
      BY <3>1 DEF Longer
  <2> HIDE DEF G
  <2> QED
    BY <2>3, <2>4
<1> HIDE DEF G
<1>6. ASSUME NEW p \in 0 .. n + 1, NEW r \in 0 .. n + 1, p < r PROVE G[p].cut < G[r].cut
  <2>1. CASE r \in 0 .. n
    <3>1. p \in 0 .. n
      BY <1>1, <1>6, <2>1
    <3>2. H[p].cut < H[r].cut
      BY <1>6, <2>1, <3>1 DEF History
    <3> QED
      BY <1>2, <2>1, <3>1, <3>2
  <2>2. CASE r = n + 1
    <3>1. p \in 0 .. n /\ p <= n /\ n \in 0 .. n
      BY <1>1, <1>6, <2>2
    <3>2. H[p].cut <= H[n].cut /\ H[p].cut \in Nat /\ H[n].cut \in Nat
      BY <3>1, HistoryCuts
    <3>3. H[p].cut < e.cut
      BY <3>2
    <3> QED
      BY <1>2, <2>2, <3>1, <3>3
  <2> QED
    BY <1>3, <2>1, <2>2
<1>7. \A p \in 0 .. n + 1 : ~G[p].begun => Begins(G[p].cut)
  <2>1. \A p \in 0 .. n : ~H[p].begun => Begins(H[p].cut)
    BY DEF History
  <2> QED
    BY <1>2, <1>3, <2>1, Zenon
<1>9. n + 1 \in Nat
  BY <1>1
<1>10. History(G, n + 1)
  BY <1>4, <1>6, <1>7, <1>9, Zenon DEF History
<1> QED
  BY <1>10 DEF G

LEMMA IsSame ==
    ASSUME NEW H, NEW G, NEW n \in Nat, \A p \in 0 .. n : G[p] = H[p], NEW e, NEW x \in 0 .. n - 1, Is(e, H, x)
    PROVE  Is(e, G, x)
<1>1. x \in 0 .. n /\ x + 1 \in 0 .. n
  OBVIOUS
<1>2. G[x] = H[x] /\ G[x + 1] = H[x + 1]
  BY <1>1
<1> QED
  BY <1>2 DEF Is

LEMMA StatusSame ==
    ASSUME NEW H, NEW G, NEW n \in Nat, \A p \in 0 .. n : G[p] = H[p], NEW h \in 0 .. n,
           NEW a, NEW f \in Int, NEW u, Status(a, H, h, f, u)
    PROVE  Status(a, G, h, f, u)
<1>1. u \in 0 .. h /\ u \in 0 .. n /\ u \in Int
  BY DEF Status
<1>2. ASSUME NEW sn \in DOMAIN a.win
      PROVE  \E x \in u .. h - 1 : sn = x % MOD /\ Is(a.win[sn], G, x)
  <2>1. PICK x \in u .. h - 1 : sn = x % MOD /\ Is(a.win[sn], H, x)
    BY DEF Status, Kept
  <2>2. x \in 0 .. n - 1
    BY <1>1
  <2>3. Is(a.win[sn], G, x)
    BY <2>1, <2>2, IsSame
  <2> QED
    BY <2>1, <2>3
<1>3. Recent(a, G, u, f)
  <2> SUFFICES ASSUME a.sdu # <<>>
               PROVE  \E l \in Nat : /\ f <= l /\ l < u /\ u <= l + rx_window_size + 1
                                     /\ a.last = l % MOD /\ Begun(a, G[l + 1].cut)
    BY Zenon DEF Recent
  <2>1. PICK l \in Nat : /\ f <= l /\ l < u /\ u <= l + rx_window_size + 1
                         /\ a.last = l % MOD /\ Begun(a, H[l + 1].cut)
    BY DEF Status, Recent
  <2>2. l + 1 \in 0 .. n
    BY <1>1, <2>1
  <2> QED
    BY <2>1, <2>2
<1>4. Outs(a.out, 0, G[u].cut)
  BY <1>1 DEF Status
<1> QED
  BY <1>2, <1>3, <1>4 DEF Status, Kept

LEMMA ReceivedSame ==
    ASSUME NEW H, NEW G, NEW n \in Nat, \A p \in 0 .. n : G[p] = H[p], NEW h \in 0 .. n,
           NEW a, NEW ux, NEW uh
    PROVE  /\ Received(a, ux, uh, H, h) => Received(a, ux, uh, G, h)
           /\ Astray(a, H, h) => Astray(a, G, h)
<1>1. ASSUME Received(a, ux, uh, H, h) PROVE Received(a, ux, uh, G, h)
  <2>1. PICK u \in 0 .. h : /\ Status(a, H, h, 0, u) /\ u >= h - rx_window_size
                            /\ u < h => RX_MOD_BASE(ux, uh) <= rx_window_size
    BY <1>1, Zenon DEF Received
  <2>2. Status(a, G, h, 0, u)
    BY <2>1, StatusSame
  <2> QED
    BY <2>1, <2>2, Zenon DEF Received
<1>2. ASSUME Astray(a, H, h) PROVE Astray(a, G, h)
  <2>1. G[h] = H[h]
    OBVIOUS
  <2> QED
    BY <1>2, <2>1 DEF Astray
<1> QED
  BY <1>1, <1>2

\* The PDU that BuildDataPdu puts under way is the next of the history.
LEMMA BuildIs ==
    ASSUME UmInv, NEW H, NEW n, History(H, n), H[n].cut = taken, H[n].begun = tx_sdu, vt_us = n % MOD,
           NEW room \in Grants, NEW brink \in {FALSE, Brink}, BuildDataPdu(room, brink)
    PROVE  /\ vt_us' = (n + 1) % MOD
           /\ bare \subseteq bare' /\ (tx_sdu' /\ Begins(taken') => taken' \in bare')
           /\ \E G, e : /\ History(G, n + 1) /\ G[n + 1].cut = taken' /\ G[n + 1].begun = tx_sdu'
                        /\ Agrees(G, H, n) /\ air' = Append(air, e) /\ ~e.late /\ Is(e, G, n)
<1> DEFINE to     == Min({taken + room, written * SduUnits})
           pieces == Pieces(taken, to)
           e == [sn |-> vt_us, start |-> ~tx_sdu, end |-> ~tx_sdu', late |-> FALSE,
                 pieces |-> IF brink THEN Append(pieces, <<>>) ELSE pieces]
<1>0. PICK G : G = Longer(H, n, [cut |-> taken', begun |-> tx_sdu'])
  OBVIOUS
<1>1. /\ taken < written * SduUnits
      /\ brink => EndsSdu(to - 1)
      /\ tx_sdu' = (brink \/ ~EndsSdu(to - 1))
      /\ air' = Append(air, e) /\ taken' = to /\ vt_us' = Shift(vt_us, 1)
      /\ bare' = IF brink THEN bare \union {to} ELSE bare
  BY DEF BuildDataPdu
<1>2. taken \in Nat /\ written \in Nat /\ written * SduUnits \in Nat /\ tx_sdu \in BOOLEAN
  BY TakenType DEF UmInv
<1>3. room \in Nat /\ room > 0 /\ n \in Nat
  BY UmAssumption DEF History
<1>4. to \in Nat /\ taken < to
  <2> DEFINE x == taken + room
             y == written * SduUnits
  <2>1. x \in Int /\ y \in Int /\ taken < x /\ taken < y /\ x \in Nat /\ y \in Nat
    BY <1>1, <1>2, <1>3
  <2> HIDE DEF x, y
  <2>2. Min({x, y}) = IF x <= y THEN x ELSE y
    BY <2>1, LesserOf
  <2> QED
    BY <2>1, <2>2 DEF x, y
<1>5. EndsSdu(to - 1) <=> Begins(to)
  BY <1>4, EndsAt
<1> HIDE DEF to
<1>6. tx_sdu' \in BOOLEAN /\ (~tx_sdu' => Begins(to)) /\ (tx_sdu' /\ Begins(to) => brink)
  <2>1. tx_sdu' \in BOOLEAN
    BY <1>1, Zenon
  <2>2. ~tx_sdu' => Begins(to)
    BY <1>1, <1>5, Zenon
  <2>3. tx_sdu' /\ Begins(to) => brink
    BY <1>1, <1>5, Zenon
  <2> QED
    BY <2>1, <2>2, <2>3, Zenon
<1> DEFINE g == [cut |-> to, begun |-> tx_sdu']
<1>7. (\A p \in 0 .. n : G[p] = H[p]) /\ G[n + 1] = g /\ G = Longer(H, n, g)
  <2>1. G = Longer(H, n, g)
    BY <1>0, <1>1
  <2> HIDE DEF g
  <2>2. Agrees(Longer(H, n, g), H, n) /\ Longer(H, n, g)[n + 1] = g
    BY <1>3, LongerIs, Zenon
  <2> QED
    BY <2>1, <2>2, Zenon DEF Agrees
<1>8. History(G, n + 1)
  <2>1. g \in [cut : Nat, begun : BOOLEAN] /\ g.cut = to /\ g.begun = tx_sdu'
    BY <1>4, <1>6
  <2> HIDE DEF g
  <2>2. History(Longer(H, n, g), n + 1)
    BY <1>4, <1>6, <2>1, HistoryLonger
  <2> QED
    BY <1>7, <2>2
<1>9. G[n + 1].cut = to /\ G[n + 1].begun = tx_sdu' /\ G[n].cut = taken /\ G[n].begun = tx_sdu
  BY <1>3, <1>7
<1>10. e.pieces = Cut(taken, to, tx_sdu')
  <2>1. CASE brink
    <3>1. tx_sdu' /\ EndsSdu(to - 1)
      BY <1>1, <2>1
    <3> QED
      BY <2>1, <3>1 DEF Cut
  <2>2. CASE ~brink
    <3>1. ~(tx_sdu' /\ EndsSdu(to - 1))
      BY <1>1, <2>2
    <3> QED
      BY <2>2, <3>1, Zenon DEF Cut
  <2> QED
    BY <2>1, <2>2
<1>11. e.sn = n % MOD /\ e.start = ~tx_sdu /\ e.end = ~tx_sdu' /\ e.late = FALSE
  OBVIOUS
<1> HIDE DEF e
<1>12. ~tx_sdu => Begins(taken)
  BY <1>3 DEF History
<1>13. Made(e, taken, to, tx_sdu, tx_sdu')
  BY <1>2, <1>4, <1>6, <1>10, <1>11, <1>12, Zenon DEF Made
<1>14. Is(e, G, n)
  BY <1>9, <1>11, <1>13 DEF Is
<1>15. vt_us' = (n + 1) % MOD
  <2>1. n \in Int
    BY <1>3
  <2> QED
    BY <1>1, <2>1, NumberNext
<1>16. Agrees(G, H, n) /\ ~e.late /\ air' = Append(air, e) /\ taken' = to
  BY <1>1, <1>7, <1>11 DEF Agrees, e
<1>17. bare \subseteq bare' /\ (tx_sdu' /\ Begins(taken') => taken' \in bare')
  BY <1>1, <1>6
<1> QED
  BY <1>8, <1>9, <1>14, <1>15, <1>16, <1>17, Zenon

-----------------------------------------------------------------------------
(* What is under way                                                       *)

\* The i-th was overtaken.
Lag(s, i) == IF i \in 1 .. Len(s) /\ s[i].late THEN 1 ELSE 0

\* s are the PDUs sent after q[1], q[2] .. others, with as many gaps between them as
\* were lost and, after the one that was overtaken, the one that overtook it; n were
\* sent in all.
Trail(s, q, H, n, gone) ==
    /\ q \in [1 .. Len(s) + 1 -> Nat] /\ q[Len(s) + 1] = n
    /\ \A i \in 1 .. Len(s) : Is(s[i], H, q[i]) /\ (s[i].late => i = 1)
    /\ \A i, j \in 1 .. Len(s) + 1 :
         i < j => q[i] < q[j] /\ q[j] - q[i] <= gone + (j - i) + Lag(s, i)

\* All of them are near h, the overtaken before it.
Near(s, q, h, gone) ==
    \A i \in 1 .. Len(s) + 1 :
      IF Lag(s, i) = 1 THEN q[i] < h /\ h <= q[i] + gone + 2
                       ELSE h <= q[i] /\ q[i] <= h + gone + i - Lag(s, 1)
\* Or only known not to be far behind it.
Ahead(s, q, h) ==
    \A i \in 1 .. Len(s) + 1 : h - rx_window_size <= q[i] /\ (Lag(s, i) = 0 => h <= q[i])

\* The i-th of l goes.
From(j, i) == IF j < i THEN j ELSE j + 1
Without(q, i, l) == [j \in 1 .. l |-> q[From(j, i)]]

LEMMA LagType == ASSUME NEW s, NEW i PROVE Lag(s, i) = 0 \/ Lag(s, i) = 1
BY DEF Lag

LEMMA LagFirst ==
    ASSUME NEW s, NEW q, NEW H, NEW n, NEW gone, Trail(s, q, H, n, gone), NEW i \in Int, i > 1
    PROVE  Lag(s, i) = 0
BY DEF Trail, Lag

LEMMA TrailLess ==
    ASSUME NEW s, NEW q, NEW H, NEW n, NEW gone \in Nat, Trail(s, q, H, n, gone), Len(s) \in Nat,
           NEW i \in 1 .. Len(s), NEW t, Len(t) = Len(s) - 1, NEW more \in Nat, gone <= more,
           \A j \in 1 .. Len(t) : Is(t[j], H, q[From(j, i)]) /\ (t[j].late => j = 1),
           \A k \in 1 .. i - 1 : gone + 1 + Lag(s, k) <= more + Lag(t, k)
    PROVE  Trail(t, Without(q, i, Len(s)), H, n, more)
<1> DEFINE l == Len(s)
           r == Without(q, i, l)
<1>1. l \in Nat /\ Len(t) = l - 1 /\ Len(t) + 1 = l /\ i \in 1 .. l
  OBVIOUS
<1>2. /\ q \in [1 .. l + 1 -> Nat] /\ q[l + 1] = n
      /\ \A x, y \in 1 .. l + 1 : x < y => q[x] < q[y] /\ q[y] - q[x] <= gone + (y - x) + Lag(s, x)
  BY DEF Trail
<1>3. \A j \in 1 .. l : From(j, i) \in 1 .. l + 1 /\ r[j] = q[From(j, i)]
  <2>1. \A j \in 1 .. l : From(j, i) \in 1 .. l + 1
    <3> HIDE DEF l
    <3> QED
      BY <1>1 DEF From
  <2> QED
    BY <2>1 DEF Without
<1>4. r \in [1 .. l -> Nat]
  BY <1>2, <1>3 DEF Without
<1> HIDE DEF r, l
<1>5. r[l] = n
  <2>1. l \in 1 .. l /\ From(l, i) = l + 1
    BY <1>1 DEF From
  <2> QED
    BY <1>2, <1>3, <2>1
<1>6. ASSUME NEW j \in 1 .. Len(t) PROVE Is(t[j], H, r[j]) /\ (t[j].late => j = 1)
  <2>1. j \in 1 .. l
    BY <1>1
  <2> QED
    BY <1>3, <2>1
<1>7. ASSUME NEW k \in 1 .. l, NEW j \in 1 .. l, k < j
      PROVE  r[k] < r[j] /\ r[j] - r[k] <= more + (j - k) + Lag(t, k)
  <2> DEFINE x == From(k, i)
             y == From(j, i)
  <2>1. x \in 1 .. l + 1 /\ y \in 1 .. l + 1 /\ r[k] = q[x] /\ r[j] = q[y]
    BY <1>3
  <2>2. x < y /\ (k < i /\ j < i => y - x = j - k) /\ (k < i /\ ~(j < i) => y - x = j - k + 1)
        /\ (~(k < i) => y - x = j - k)
    BY <1>1, <1>7 DEF From
  <2>3. q[x] < q[y] /\ q[y] - q[x] <= gone + (y - x) + Lag(s, x) /\ q[x] \in Nat /\ q[y] \in Nat
    <3> HIDE DEF x, y
    <3> QED
      BY <1>2, <2>1, <2>2
  <2>4. Lag(t, k) \in Nat /\ Lag(s, k) \in Nat
    <3>1. (Lag(t, k) = 0 \/ Lag(t, k) = 1) /\ (Lag(s, k) = 0 \/ Lag(s, k) = 1)
      BY LagType, Zenon
    <3> QED
      BY <3>1
  <2>5. CASE k < i
    <3>1. x = k /\ gone + 1 + Lag(s, k) <= more + Lag(t, k)
      BY <1>1, <2>5 DEF From
    <3>2. y - x <= j - k + 1 /\ x \in Int /\ y \in Int
      BY <1>1, <2>1, <2>2, <2>5
    <3> HIDE DEF x, y
    <3>3. Lag(s, x) = Lag(s, k)
      BY <3>1, Zenon
    <3> DEFINE a == q[x]
               b == q[y]
               c == Lag(s, k)
               d == Lag(t, k)
    <3>4. /\ a < b /\ b - a <= gone + (y - x) + c /\ a \in Nat /\ b \in Nat
          /\ c \in Nat /\ d \in Nat /\ gone + 1 + c <= more + d
      BY <2>3, <2>4, <3>1, <3>3
    <3> HIDE DEF a, b, c, d
    <3>5. a < b /\ b - a <= more + (j - k) + d
      BY <3>2, <3>4
    <3> QED
      BY <2>1, <3>5 DEF a, b, d
  <2>6. CASE ~(k < i)
    <3>1. x \in Int /\ x > 1
      BY <1>1, <2>6 DEF From
    <3> HIDE DEF x, y
    <3>2. Lag(s, x) = 0
      BY <3>1, LagFirst
    <3>3. y - x = j - k
      BY <2>2, <2>6
    <3> DEFINE a == q[x]
               b == q[y]
               d == Lag(t, k)
               e == j - k
    <3>4. a < b /\ b - a <= gone + e /\ a \in Nat /\ b \in Nat /\ d \in Nat /\ e \in Int
      BY <2>3, <2>4, <3>2, <3>3
    <3>5. gone <= more /\ gone \in Nat /\ more \in Nat
      BY <1>1
    <3> HIDE DEF a, b, d, e
    <3>6. a < b /\ b - a <= more + e + d
      BY <3>4, <3>5
    <3> QED
      BY <2>1, <3>6 DEF a, b, d, e
  <2> QED
    BY <2>5, <2>6
<1>8. Trail(t, r, H, n, more)
  <2>1. /\ r \in [1 .. Len(t) + 1 -> Nat] /\ r[Len(t) + 1] = n
        /\ \A k, j \in 1 .. Len(t) + 1 :
             k < j => r[k] < r[j] /\ r[j] - r[k] <= more + (j - k) + Lag(t, k)
    BY <1>1, <1>4, <1>5, <1>7
  <2> QED
    BY <1>6, <2>1, Zenon DEF Trail
<1> QED
  BY <1>8 DEF r, l

\* A PDU has arrived that was sent after h or more: the next number is after it.
LEMMA NearAfter ==
    ASSUME NEW s, NEW q, NEW H, NEW n, NEW gone \in Nat, Trail(s, q, H, n, gone), Len(s) \in Nat,
           NEW i \in {1, 2}, i <= Len(s), i = 2 => Lag(s, 1) = 0, NEW t, Len(t) = Len(s) - 1,
           \A j \in 1 .. Len(s) : Lag(t, j) = IF j < i THEN 1 ELSE 0
    PROVE  Near(t, Without(q, i, Len(s)), q[i] + 1, gone)
<1> DEFINE l == Len(s)
           r == Without(q, i, l)
           h == q[i] + 1
<1>1. l \in Nat /\ Len(t) + 1 = l /\ i \in 1 .. l /\ i \in 1 .. l + 1
  OBVIOUS
<1>2. /\ q \in [1 .. l + 1 -> Nat]
      /\ \A x, y \in 1 .. l + 1 : x < y => q[x] < q[y] /\ q[y] - q[x] <= gone + (y - x) + Lag(s, x)
  BY DEF Trail
<1>3. Lag(s, i) \in Nat /\ (i = 1 => Lag(s, i) <= 1) /\ (i = 2 => Lag(s, i) = 0)
  <2>1. i = 2 => Lag(s, i) = 0
    BY LagFirst
  <2>2. Lag(s, i) = 0 \/ Lag(s, i) = 1
    BY LagType, Zenon
  <2> QED
    BY <2>1, <2>2
<1> HIDE DEF l
<1>4. ASSUME NEW j \in 1 .. l
      PROVE  IF Lag(t, j) = 1 THEN r[j] < h /\ h <= r[j] + gone + 2
                              ELSE h <= r[j] /\ r[j] <= h + gone + j - Lag(t, 1)
  <2>1. Lag(t, j) = (IF j < i THEN 1 ELSE 0) /\ Lag(t, 1) = (IF 1 < i THEN 1 ELSE 0)
    BY <1>1 DEF l
  <2>2. q[i] \in Nat
    BY <1>1, <1>2
  <2>3. CASE j < i
    <3>1. j = 1 /\ i = 2 /\ 1 \in 1 .. l + 1 /\ 2 \in 1 .. l + 1
      BY <1>1, <2>3
    <3>2. r[j] = q[1]
      BY <3>1 DEF Without, From
    <3>3. q[1] < q[2] /\ q[2] - q[1] <= gone + (2 - 1) + Lag(s, 1) /\ q[1] \in Nat
      BY <1>2, <3>1
    <3> QED
      BY <2>1, <2>2, <2>3, <3>1, <3>2, <3>3
  <2>4. CASE ~(j < i)
    <3> DEFINE y == j + 1
    <3>1. r[j] = q[y]
      BY <2>4 DEF Without, From
    <3>2. y \in 1 .. l + 1 /\ i < y
      BY <1>1, <2>4
    <3>3. q[i] < q[y] /\ q[y] - q[i] <= gone + (y - i) + Lag(s, i) /\ q[y] \in Nat
      <4> HIDE DEF y
      <4> QED
        BY <1>1, <1>2, <3>2
    <3> HIDE DEF r
    <3>4. CASE i = 1
      BY <1>1, <1>3, <2>1, <2>2, <2>4, <3>1, <3>3, <3>4
    <3>5. CASE i = 2
      BY <1>1, <1>3, <2>1, <2>2, <2>4, <3>1, <3>3, <3>5
    <3> QED
      BY <3>4, <3>5
  <2> QED
    BY <2>3, <2>4
<1> HIDE DEF r, h
<1>5. Near(t, r, h, gone)
  BY <1>1, <1>4, Zenon DEF Near
<1> QED
  BY <1>5 DEF r, h, l

\* The one that was overtaken has arrived.
LEMMA NearLate ==
    ASSUME NEW s, NEW q, NEW H, NEW n, NEW gone \in Nat, Trail(s, q, H, n, gone), Len(s) \in Nat,
           NEW h \in Nat, Near(s, q, h, gone), Lag(s, 1) = 1, 1 <= Len(s), NEW t, Len(t) = Len(s) - 1,
           \A j \in 1 .. Len(s) : Lag(t, j) = 0
    PROVE  Near(t, Without(q, 1, Len(s)), h, gone)
<1> DEFINE l == Len(s)
           r == Without(q, 1, l)
<1>1. l \in Nat /\ Len(t) + 1 = l /\ 1 \in 1 .. l
  OBVIOUS
<1>2. q \in [1 .. l + 1 -> Nat]
  BY DEF Trail
<1> HIDE DEF l
<1>3. ASSUME NEW j \in 1 .. l
      PROVE  IF Lag(t, j) = 1 THEN r[j] < h /\ h <= r[j] + gone + 2
                              ELSE h <= r[j] /\ r[j] <= h + gone + j - Lag(t, 1)
  <2> DEFINE y == j + 1
  <2>1. Lag(t, j) = 0 /\ Lag(t, 1) = 0
    BY <1>1 DEF l
  <2>2. y \in 1 .. l + 1 /\ y \in Int /\ y > 1 /\ r[j] = q[y]
    BY <1>1 DEF Without, From
  <2> HIDE DEF y
  <2>3. Lag(s, y) = 0
    BY <2>2, LagFirst
  <2>4. h <= q[y] /\ q[y] <= h + gone + y - 1 /\ q[y] \in Nat
    <3>1. q[y] \in Nat
      BY <1>2, <2>2
    <3>2. IF Lag(s, y) = 1 THEN q[y] < h /\ h <= q[y] + gone + 2
                           ELSE h <= q[y] /\ q[y] <= h + gone + y - Lag(s, 1)
      BY <2>2, Zenon DEF Near, l
    <3> QED
      BY <2>3, <3>1, <3>2
  <2> QED
    BY <1>1, <2>1, <2>2, <2>4 DEF y
<1> HIDE DEF r
<1>4. Near(t, r, h, gone)
  BY <1>1, <1>3, Zenon DEF Near
<1> QED
  BY <1>4 DEF r, l

\* One is lost.
LEMMA NearLost ==
    ASSUME NEW s, NEW q, NEW H, NEW n, NEW gone \in Nat, Trail(s, q, H, n, gone), Len(s) \in Nat,
           NEW h \in Nat, Near(s, q, h, gone), NEW i \in 1 .. Len(s), NEW t, Len(t) = Len(s) - 1,
           \A j \in 1 .. Len(s) : Lag(t, j) = IF j < i THEN Lag(s, j) ELSE 0
    PROVE  Near(t, Without(q, i, Len(s)), h, gone + 1)
<1> DEFINE l == Len(s)
           r == Without(q, i, l)
           more == gone + 1
<1>1. l \in Nat /\ Len(t) + 1 = l /\ i \in 1 .. l /\ 1 \in 1 .. l
  OBVIOUS
<1>2. q \in [1 .. l + 1 -> Nat]
  BY DEF Trail
<1> HIDE DEF l
<1>3. ASSUME NEW j \in 1 .. l
      PROVE  IF Lag(t, j) = 1 THEN r[j] < h /\ h <= r[j] + more + 2
                              ELSE h <= r[j] /\ r[j] <= h + more + j - Lag(t, 1)
  <2> DEFINE y == From(j, i)
  <2>1. Lag(t, j) = (IF j < i THEN Lag(s, j) ELSE 0) /\ Lag(t, 1) = (IF 1 < i THEN Lag(s, 1) ELSE 0)
    BY <1>1 DEF l
  <2>2. y \in 1 .. l + 1 /\ y \in Int /\ r[j] = q[y] /\ y = IF j < i THEN j ELSE j + 1
    BY <1>1 DEF Without, From
  <2> HIDE DEF y
  <2>3. q[y] \in Nat /\ (Lag(s, 1) = 0 \/ Lag(s, 1) = 1) /\ (Lag(s, y) = 0 \/ Lag(s, y) = 1)
        /\ (y > 1 => Lag(s, y) = 0)
    BY <1>2, <2>2, LagFirst, LagType
  <2>4. IF Lag(s, y) = 1 THEN q[y] < h /\ h <= q[y] + gone + 2
                         ELSE h <= q[y] /\ q[y] <= h + gone + y - Lag(s, 1)
    BY <2>2, Zenon DEF Near, l
  <2> HIDE DEF r
  <2>5. CASE j < i
    BY <1>1, <2>1, <2>2, <2>3, <2>4, <2>5
  <2>6. CASE ~(j < i)
    <3>1. y = j + 1 /\ y > 1
      BY <1>1, <2>2, <2>6
    <3>2. Lag(s, y) = 0 /\ Lag(t, j) = 0
      BY <2>1, <2>3, <2>6, <3>1
    <3> DEFINE x == q[y]
               c == Lag(s, 1)
               d == Lag(t, 1)
    <3>3. h <= x /\ x <= h + gone + y - c
      BY <2>4, <3>2
    <3>4. x \in Nat /\ c \in {0, 1} /\ d \in {0, 1} /\ d <= c
      BY <2>1, <2>3
    <3> HIDE DEF x, c, d
    <3>5. h <= x /\ x <= h + more + j - d
      BY <3>1, <3>3, <3>4, <1>1
    <3> QED
      BY <2>2, <3>2, <3>5 DEF x, d
  <2> QED
    BY <2>5, <2>6
<1> HIDE DEF r, more
<1>4. Near(t, r, h, more)
  BY <1>1, <1>3, Zenon DEF Near
<1> QED
  BY <1>4 DEF r, l, more

LEMMA AheadLess ==
    ASSUME NEW s, NEW q, NEW h, Ahead(s, q, h), Len(s) \in Nat,
           NEW i \in 1 .. Len(s), NEW t, Len(t) = Len(s) - 1,
           \A j \in 1 .. Len(s) : Lag(t, j) = 0 => Lag(s, From(j, i)) = 0
    PROVE  Ahead(t, Without(q, i, Len(s)), h)
<1> DEFINE l == Len(s)
           r == Without(q, i, l)
<1>1. l \in Nat /\ Len(t) + 1 = l /\ i \in 1 .. l
  OBVIOUS
<1> HIDE DEF l
<1>2. ASSUME NEW j \in 1 .. l
      PROVE  h - rx_window_size <= r[j] /\ (Lag(t, j) = 0 => h <= r[j])
  <2> DEFINE y == From(j, i)
  <2>1. y \in 1 .. l + 1 /\ r[j] = q[y]
    BY <1>1 DEF Without, From
  <2>2. Lag(t, j) = 0 => Lag(s, y) = 0
    BY DEF l
  <2> HIDE DEF y
  <2>3. h - rx_window_size <= q[y] /\ (Lag(s, y) = 0 => h <= q[y])
    BY <2>1, Zenon DEF Ahead, l
  <2> QED
    BY <2>1, <2>2, <2>3, Zenon
<1> HIDE DEF r
<1>3. Ahead(t, r, h)
  BY <1>1, <1>2, Zenon DEF Ahead
<1> QED
  BY <1>3 DEF r, l

-----------------------------------------------------------------------------
(* What is under way changes                                               *)

LEMMA RemovedIs ==
    ASSUME NEW V, NEW s \in Seq(V), NEW i \in 1 .. Len(s)
    PROVE  /\ Len(RemoveAt(s, i)) = Len(s) - 1
           /\ \A j \in 1 .. Len(s) - 1 : RemoveAt(s, i)[j] = s[From(j, i)]
<1> DEFINE l == Len(s)
           a == SubSeq(s, 1, i - 1)
           b == SubSeq(s, i + 1, l)
<1>1. l \in Nat /\ i \in 1 .. l
  OBVIOUS
<1>2. a \in Seq(V) /\ Len(a) = i - 1 /\ \A j \in 1 .. i - 1 : a[j] = s[j]
  OBVIOUS
<1>3. b \in Seq(V) /\ Len(b) = l - i /\ \A j \in 1 .. l - i : b[j] = s[i + j]
  OBVIOUS
<1>4. RemoveAt(s, i) = a \o b
  BY DEF RemoveAt
<1> HIDE DEF l, a, b
<1>5. Len(a \o b) = l - 1
  <2>1. Len(a \o b) = Len(a) + Len(b)
    BY <1>2, <1>3, ConcatProperties
  <2> QED
    BY <1>1, <1>2, <1>3, <2>1
<1>6. ASSUME NEW j \in 1 .. l - 1 PROVE (a \o b)[j] = s[From(j, i)]
  <2>1. CASE j < i
    <3>1. j \in 1 .. i - 1 /\ j \in 1 .. Len(a)
      BY <1>1, <1>2, <2>1
    <3>2. (a \o b)[j] = a[j]
      BY <1>2, <1>3, <3>1
    <3> QED
      BY <1>2, <2>1, <3>1, <3>2 DEF From
  <2>2. CASE ~(j < i)
    <3> DEFINE k == j - (i - 1)
    <3>1. k \in 1 .. l - i /\ i + k = j + 1 /\ j > Len(a) /\ j - Len(a) = k /\ j <= Len(a) + Len(b)
      BY <1>1, <1>2, <1>3, <2>2
    <3> HIDE DEF k
    <3>2. (a \o b)[j] = b[k]
      <4>1. (a \o b)[j] = b[j - Len(a)]
        BY <1>1, <1>2, <1>3, <3>1
      <4> QED
        BY <3>1, <4>1
    <3> QED
      BY <1>3, <2>2, <3>1, <3>2 DEF From
  <2> QED
    BY <2>1, <2>2
<1> QED
  BY <1>4, <1>5, <1>6 DEF l

\* The same PDU, overtaken or not.
Same(e, f) == e.sn = f.sn /\ e.start = f.start /\ e.end = f.end /\ e.pieces = f.pieces

LEMMA SameIs ==
    ASSUME NEW e, NEW f, Same(e, f), NEW H, NEW p, Is(f, H, p)
    PROVE  Is(e, H, p)
BY DEF Same, Is, Made

\* s goes on as t, without its i-th.
Shorter(t, s, i) ==
    /\ Len(s) \in Nat /\ i \in 1 .. Len(s) /\ Len(t) = Len(s) - 1
    /\ \A j \in 1 .. Len(t) : Same(t[j], s[From(j, i)])

LEMMA ArrivesIs ==
    ASSUME UmInv, NEW i \in {1, 2}, PduArrives(i)
    PROVE  /\ Shorter(air', air, i) /\ air[i] \in Pdus(taken) /\ HandleDataPdu(air[i])
           /\ i = 2 => Lag(air, 1) = 0
           /\ \A j \in 1 .. Len(air) : Lag(air', j) = IF j < i THEN 1 ELSE Lag(air, j + 1)
<1> DEFINE l == Len(air)
           still == IF i = 2 THEN [air EXCEPT ![1].late = TRUE] ELSE air
           V == Pdus(taken)
           t == RemoveAt(still, i)
<1>1. /\ i \in DOMAIN air /\ (i = 2 => ~air[1].late) /\ air' = t /\ HandleDataPdu(air[i])
  BY DEF PduArrives
<1>2. air \in Seq(V) /\ l \in Nat /\ i \in 1 .. l /\ air[i] \in V
  <2>1. air \in Seq(V)
    BY DEF UmInv
  <2> HIDE DEF V
  <2> QED
    BY <1>1, <2>1
<1>3. /\ still \in Seq(V) /\ Len(still) = l
      /\ \A j \in 1 .. l : Same(still[j], air[j]) /\ (still[j].late <=> (j = 1 /\ i = 2) \/ air[j].late)
  <2>1. CASE i = 2
    <3>1. 1 \in 1 .. l /\ air[1] \in V
      BY <1>2, <2>1
    <3> DEFINE e == [air[1] EXCEPT !.late = TRUE]
    <3>2. e \in V /\ Same(e, air[1]) /\ e.late = TRUE
      BY <3>1 DEF Pdus, Same
    <3>3. still = [air EXCEPT ![1] = e]
      BY <2>1
    <3> HIDE DEF e, V
    <3>4. /\ still \in Seq(V) /\ Len(still) = l
          /\ \A j \in 1 .. l : still[j] = IF j = 1 THEN e ELSE air[j]
      <4>1. 1 \in 1 .. Len(air) /\ air \in Seq(V) /\ e \in V
        BY <1>2, <3>1, <3>2
      <4>2. /\ [air EXCEPT ![1] = e] \in Seq(V) /\ Len([air EXCEPT ![1] = e]) = Len(air)
            /\ \A j \in 1 .. Len(air) : [air EXCEPT ![1] = e][j] = IF j = 1 THEN e ELSE air[j]
        BY <4>1, ExceptSeq
      <4> QED
        BY <3>3, <4>2
    <3> HIDE DEF still, l
    <3>5. \A j \in 1 .. l : Same(air[j], air[j])
      BY DEF Same
    <3> QED
      BY <2>1, <3>2, <3>4, <3>5
  <2>2. CASE i # 2
    BY <1>2, <2>2 DEF Same
  <2> QED
    BY <2>1, <2>2
<1> HIDE DEF still, V
<1>4. Len(t) = l - 1 /\ \A j \in 1 .. l - 1 : t[j] = still[From(j, i)]
  BY <1>2, <1>3, RemovedIs
<1> HIDE DEF t, l
<1>5. ASSUME NEW j \in 1 .. l - 1
      PROVE  Same(t[j], air[From(j, i)]) /\ (t[j].late <=> j < i \/ air[j + 1].late)
  <2>1. From(j, i) \in 1 .. l /\ From(j, i) = IF j < i THEN j ELSE j + 1
    BY <1>2, <1>5 DEF From
  <2>2. (j < i => j = 1 /\ i = 2) /\ (~(j < i) => j + 1 # 1)
    BY <1>2
  <2>3. Same(t[j], air[From(j, i)])
    BY <1>3, <1>4, <2>1
  <2>4. t[j].late <=> (From(j, i) = 1 /\ i = 2) \/ air[From(j, i)].late
    BY <1>3, <1>4, <2>1
  <2>5. t[j].late <=> j < i \/ air[j + 1].late
    <3>1. CASE j < i
      BY <2>1, <2>2, <2>4, <3>1
    <3>2. CASE ~(j < i)
      BY <2>1, <2>2, <2>4, <3>2
    <3> QED
      BY <3>1, <3>2
  <2> QED
    BY <2>3, <2>5
<1>6. ASSUME NEW j \in 1 .. l PROVE Lag(t, j) = IF j < i THEN 1 ELSE Lag(air, j + 1)
  <2>1. CASE j \in 1 .. l - 1
    <3>1. j + 1 \in 1 .. l /\ j \in 1 .. Len(t)
      BY <1>2, <1>4, <2>1
    <3>2. t[j].late <=> j < i \/ air[j + 1].late
      BY <1>5, <2>1
    <3> QED
      BY <3>1, <3>2 DEF Lag, l
  <2>2. CASE j \notin 1 .. l - 1
    <3>1. j \notin 1 .. Len(t) /\ j + 1 \notin 1 .. l /\ ~(j < i)
      BY <1>2, <1>4, <2>2
    <3> QED
      BY <3>1 DEF Lag, l
  <2> QED
    BY <2>1, <2>2
<1>7. i = 2 => Lag(air, 1) = 0
  BY <1>1 DEF Lag
<1>8. Shorter(air', air, i)
  BY <1>1, <1>2, <1>4, <1>5 DEF Shorter, l
<1> QED
  BY <1>1, <1>2, <1>6, <1>7, <1>8 DEF l, V

LEMMA LoseIs ==
    ASSUME UmInv, NEW i, LosePdu(i)
    PROVE  /\ Shorter(air', air, i)
           /\ \A j \in 1 .. Len(air) : Lag(air', j) = IF j < i THEN Lag(air, j) ELSE Lag(air, j + 1)
<1> DEFINE l == Len(air)
           V == Pdus(taken)
           t == RemoveAt(air, i)
<1>1. i \in DOMAIN air /\ air' = t
  BY DEF LosePdu
<1>2. air \in Seq(V) /\ l \in Nat /\ i \in 1 .. l
  <2>1. air \in Seq(V)
    BY DEF UmInv
  <2> HIDE DEF V
  <2> QED
    BY <1>1, <2>1
<1> HIDE DEF V
<1>3. Len(t) = l - 1 /\ \A j \in 1 .. l - 1 : t[j] = air[From(j, i)]
  BY <1>2, RemovedIs
<1> HIDE DEF t, l
<1>4. ASSUME NEW j \in 1 .. l PROVE Lag(t, j) = IF j < i THEN Lag(air, j) ELSE Lag(air, j + 1)
  <2>1. CASE j \in 1 .. l - 1
    <3>1. j + 1 \in 1 .. l /\ j \in 1 .. Len(t) /\ j \in 1 .. l
      BY <1>2, <1>3, <2>1
    <3>2. t[j] = air[IF j < i THEN j ELSE j + 1]
      BY <1>3, <2>1 DEF From
    <3> QED
      BY <3>1, <3>2 DEF Lag, l
  <2>2. CASE j \notin 1 .. l - 1
    <3>1. j \notin 1 .. Len(t) /\ j + 1 \notin 1 .. l /\ ~(j < i)
      BY <1>2, <1>3, <2>2
    <3> QED
      BY <3>1 DEF Lag, l
  <2> QED
    BY <2>1, <2>2
<1>5. \A j \in 1 .. l - 1 : Same(t[j], air[From(j, i)])
  BY <1>3 DEF Same
<1> QED
  BY <1>1, <1>2, <1>3, <1>4, <1>5 DEF Shorter, l

LEMMA TrailArrives ==
    ASSUME NEW s, NEW t, NEW q, NEW H, NEW n, NEW gone \in Nat, Trail(s, q, H, n, gone),
           NEW i \in {1, 2}, Shorter(t, s, i), i = 2 => Lag(s, 1) = 0,
           \A j \in 1 .. Len(s) : Lag(t, j) = IF j < i THEN 1 ELSE Lag(s, j + 1)
    PROVE  /\ \A j \in 1 .. Len(s) : Lag(t, j) = IF j < i THEN 1 ELSE 0
           /\ Trail(t, Without(q, i, Len(s)), H, n, gone)
<1> DEFINE l == Len(s)
<1>1. l \in Nat /\ Len(t) = l - 1 /\ i \in 1 .. l /\ \A j \in 1 .. Len(t) : Same(t[j], s[From(j, i)])
  BY Zenon DEF Shorter
<1>2. \A j \in 1 .. l : Is(s[j], H, q[j])
  BY DEF Trail
<1> HIDE DEF l
<1>3. \A j \in 1 .. l : Lag(t, j) = IF j < i THEN 1 ELSE 0
  <2> SUFFICES ASSUME NEW j \in 1 .. l PROVE Lag(t, j) = IF j < i THEN 1 ELSE 0
    OBVIOUS
  <2>1. Lag(t, j) = IF j < i THEN 1 ELSE Lag(s, j + 1)
    BY Zenon DEF l
  <2>2. j + 1 \in Int /\ j + 1 > 1
    BY <1>1
  <2>3. Lag(s, j + 1) = 0
    BY <2>2, LagFirst
  <2> QED
    BY <2>1, <2>3
<1>4. ASSUME NEW j \in 1 .. Len(t) PROVE Is(t[j], H, q[From(j, i)]) /\ (t[j].late => j = 1)
  <2>1. From(j, i) \in 1 .. l /\ j \in 1 .. l
    BY <1>1 DEF From
  <2>2. Is(t[j], H, q[From(j, i)])
    BY <1>1, <1>2, <2>1, SameIs
  <2>3. t[j].late => Lag(t, j) = 1
    BY DEF Lag
  <2>4. Lag(t, j) = 1 => j < i
    BY <1>3, <2>1
  <2>5. j < i => j = 1
    BY <1>1
  <2> QED
    BY <2>2, <2>3, <2>4, <2>5, Zenon
<1>5. \A k \in 1 .. i - 1 : gone + 1 + Lag(s, k) <= gone + Lag(t, k)
  <2> SUFFICES ASSUME NEW k \in 1 .. i - 1 PROVE gone + 1 + Lag(s, k) <= gone + Lag(t, k)
    OBVIOUS
  <2>1. k = 1 /\ i = 2 /\ k \in 1 .. l /\ k < i
    BY <1>1
  <2>2. Lag(s, k) = 0 /\ Lag(t, k) = 1
    BY <1>3, <2>1
  <2> QED
    BY <2>2
<1>6. Trail(t, Without(q, i, Len(s)), H, n, gone)
  <2>1. gone <= gone /\ Len(s) \in Nat /\ i \in 1 .. Len(s) /\ Len(t) = Len(s) - 1
    BY <1>1 DEF l
  <2> QED
    BY <1>4, <1>5, <2>1, TrailLess
<1> QED
  BY <1>3, <1>6 DEF l

LEMMA TrailLoses ==
    ASSUME NEW s, NEW t, NEW q, NEW H, NEW n, NEW gone \in Nat, Trail(s, q, H, n, gone),
           NEW i, Shorter(t, s, i),
           \A j \in 1 .. Len(s) : Lag(t, j) = IF j < i THEN Lag(s, j) ELSE Lag(s, j + 1)
    PROVE  /\ \A j \in 1 .. Len(s) : Lag(t, j) = IF j < i THEN Lag(s, j) ELSE 0
           /\ Trail(t, Without(q, i, Len(s)), H, n, gone + 1)
<1> DEFINE l == Len(s)
<1>1. l \in Nat /\ Len(t) = l - 1 /\ i \in 1 .. l /\ \A j \in 1 .. Len(t) : Same(t[j], s[From(j, i)])
  BY Zenon DEF Shorter
<1>2. \A j \in 1 .. l : Is(s[j], H, q[j])
  BY DEF Trail
<1> HIDE DEF l
<1>3. \A j \in 1 .. l : Lag(t, j) = IF j < i THEN Lag(s, j) ELSE 0
  <2> SUFFICES ASSUME NEW j \in 1 .. l PROVE Lag(t, j) = IF j < i THEN Lag(s, j) ELSE 0
    OBVIOUS
  <2>1. Lag(t, j) = IF j < i THEN Lag(s, j) ELSE Lag(s, j + 1)
    BY Zenon DEF l
  <2>2. j + 1 \in Int /\ j + 1 > 1
    BY <1>1
  <2>3. Lag(s, j + 1) = 0
    BY <2>2, LagFirst
  <2> QED
    BY <2>1, <2>3
<1>4. ASSUME NEW j \in 1 .. Len(t) PROVE Is(t[j], H, q[From(j, i)]) /\ (t[j].late => j = 1)
  <2>1. From(j, i) \in 1 .. l /\ j \in 1 .. l /\ j \in Int /\ (j > 1 \/ j = 1)
    BY <1>1 DEF From
  <2>2. Is(t[j], H, q[From(j, i)])
    BY <1>1, <1>2, <2>1, SameIs
  <2>3. t[j].late => Lag(t, j) = 1
    BY DEF Lag
  <2>4. j > 1 => Lag(s, j) = 0
    BY <2>1, LagFirst
  <2>5. j > 1 => Lag(t, j) = 0
    BY <1>3, <2>1, <2>4
  <2> QED
    BY <2>1, <2>2, <2>3, <2>5
<1>5. \A k \in 1 .. i - 1 : gone + 1 + Lag(s, k) <= gone + 1 + Lag(t, k)
  <2> SUFFICES ASSUME NEW k \in 1 .. i - 1 PROVE gone + 1 + Lag(s, k) <= gone + 1 + Lag(t, k)
    OBVIOUS
  <2>1. k \in 1 .. l /\ k < i
    BY <1>1
  <2>2. Lag(t, k) = Lag(s, k) /\ (Lag(s, k) = 0 \/ Lag(s, k) = 1)
    BY <1>3, <2>1, LagType
  <2> QED
    BY <2>2
<1>6. Trail(t, Without(q, i, Len(s)), H, n, gone + 1)
  <2> DEFINE more == gone + 1
  <2>1. gone <= more /\ more \in Nat /\ Len(s) \in Nat /\ i \in 1 .. Len(s) /\ Len(t) = Len(s) - 1
    BY <1>1 DEF l
  <2>2. \A k \in 1 .. i - 1 : gone + 1 + Lag(s, k) <= more + Lag(t, k)
    BY <1>5
  <2> HIDE DEF more
  <2>3. Trail(t, Without(q, i, Len(s)), H, n, more)
    BY <1>4, <2>1, <2>2, TrailLess
  <2> QED
    BY <2>3 DEF more
<1> QED
  BY <1>3, <1>6 DEF l

-----------------------------------------------------------------------------
(* What the receiver has is what was sent                                  *)

\* n PDUs were sent, and q of them are under way.
Sent(H, n, q) ==
    /\ History(H, n) /\ H[n].cut = taken /\ H[n].begun = tx_sdu /\ vt_us = n % MOD
    /\ Trail(air, q, H, n, losses)

\* The highest number received is that of the PDU before h.
Caught(H, h, q) ==
    /\ vr_uh = h % MOD
    /\ \/ Received(assembly, vr_ux, vr_uh, H, h) /\ Near(air, q, h, losses)
       \/ Astray(assembly, H, h) /\ Ahead(air, q, h)

Content ==
    /\ losses \in 0 .. MaxLosses
    /\ \E H, n, q : Sent(H, n, q) /\ \E h \in 0 .. n : Caught(H, h, q)

LEMMA ContentArrives ==
    ASSUME MaxLosses + 3 <= rx_window_size, UmInv, Content, NEW i \in {1, 2}, PduArrives(i)
    PROVE  Content'
<1> DEFINE w == rx_window_size
           l == Len(air)
<1>1. /\ w \in Nat /\ w > 1 /\ losses \in Nat /\ losses + 3 <= w /\ losses \in 0 .. MaxLosses
  BY Sizes, UmAssumption DEF Content
<1>2. losses' = losses /\ taken' = taken /\ tx_sdu' = tx_sdu /\ vt_us' = vt_us
  BY DEF PduArrives, tx
<1>3. PICK H, n, q : Sent(H, n, q) /\ \E h \in 0 .. n : Caught(H, h, q)
  BY Zenon DEF Content
<1>4. PICK h \in 0 .. n : Caught(H, h, q)
  BY <1>3, Zenon
<1>5. /\ History(H, n) /\ H[n].cut = taken /\ H[n].begun = tx_sdu /\ vt_us = n % MOD
      /\ Trail(air, q, H, n, losses)
  BY <1>3, Zenon DEF Sent
<1>6. n \in Nat /\ h \in Nat /\ vr_uh = h % MOD
  BY <1>4, <1>5 DEF History, Caught
<1>7. /\ Shorter(air', air, i) /\ air[i] \in Pdus(taken) /\ HandleDataPdu(air[i])
      /\ i = 2 => Lag(air, 1) = 0
      /\ \A j \in 1 .. l : Lag(air', j) = IF j < i THEN 1 ELSE Lag(air, j + 1)
  BY ArrivesIs
<1>8. l \in Nat /\ i \in 1 .. l /\ Len(air') = l - 1
  BY <1>7, Zenon DEF Shorter
<1>9. PICK r : r = Without(q, i, l)
  OBVIOUS
<1>10. /\ \A j \in 1 .. l : Lag(air', j) = IF j < i THEN 1 ELSE 0
       /\ Trail(air', r, H, n, losses)
  BY <1>1, <1>5, <1>7, <1>9, TrailArrives
<1>11. Sent(H, n, r)'
  BY <1>2, <1>5, <1>10, Zenon DEF Sent
<1>12. PICK p : p = q[i]
  OBVIOUS
<1>13. p \in 0 .. n - 1 /\ Is(air[i], H, p)
  <2>1. /\ q \in [1 .. l + 1 -> Nat] /\ q[l + 1] = n /\ Is(air[i], H, q[i])
        /\ \A j, k \in 1 .. l + 1 : j < k => q[j] < q[k]
    BY <1>5, <1>8 DEF Trail
  <2> HIDE DEF l
  <2>2. i \in 1 .. l + 1 /\ l + 1 \in 1 .. l + 1 /\ i < l + 1
    BY <1>8
  <2>3. q[i] \in Nat /\ q[i] < n
    BY <2>1, <2>2
  <2> QED
    BY <1>6, <1>12, <2>1, <2>3
<1>14. PICK hh : hh = IF p < h THEN h ELSE p + 1
  OBVIOUS
<1> HIDE DEF l
<1>15. i \in 1 .. l + 1
  BY <1>8
<1>16. CASE Received(assembly, vr_ux, vr_uh, H, h) /\ Near(air, q, h, losses)
  <2>1. IF Lag(air, i) = 1 THEN p < h /\ h <= p + losses + 2
                           ELSE h <= p /\ p <= h + losses + i - Lag(air, 1)
    BY <1>12, <1>15, <1>16, Zenon DEF Near, l
  <2>2. (Lag(air, 1) = 0 \/ Lag(air, 1) = 1) /\ (Lag(air, i) = 0 \/ Lag(air, i) = 1)
    BY LagType, Zenon
  <2>3. h - w <= p /\ p < h + w
    BY <1>1, <1>6, <1>8, <1>13, <2>1, <2>2
  <2> HIDE DEF w
  <2>4. hh \in 0 .. n /\ vr_uh' = hh % MOD /\ Received(assembly', vr_ux', vr_uh', H, hh)
    BY <1>1, <1>4, <1>5, <1>6, <1>7, <1>13, <1>14, <1>16, <2>3, HandleNormal DEF w
  <2>5. Near(air', r, hh, losses)
    <3>1. CASE Lag(air, i) = 1
      <4>1. i = 1
        BY <1>7, <1>8, <2>2, <3>1, <1>5, LagFirst
      <4>2. \A j \in 1 .. l : Lag(air', j) = 0
        BY <1>10, <4>1
      <4>3. hh = h /\ 1 <= l
        BY <1>8, <1>14, <2>1, <3>1
      <4>4. Near(air', r, h, losses)
        BY <1>1, <1>5, <1>6, <1>8, <1>9, <1>16, <3>1, <4>1, <4>2, <4>3, NearLate DEF l
      <4> QED
        BY <4>3, <4>4
    <3>2. CASE Lag(air, i) # 1
      <4>1. hh = q[i] + 1 /\ i <= l
        BY <1>6, <1>8, <1>12, <1>13, <1>14, <2>1, <3>2
      <4>2. Near(air', r, q[i] + 1, losses)
        BY <1>1, <1>5, <1>7, <1>8, <1>9, <1>10, <4>1, NearAfter DEF l
      <4> QED
        BY <4>1, <4>2
    <3> QED
      BY <3>1, <3>2
  <2>6. Caught(H, hh, r)'
    BY <1>2, <2>4, <2>5, Zenon DEF Caught
  <2> QED
    BY <1>1, <1>2, <1>11, <2>4, <2>6, Zenon DEF Content
<1>17. CASE Astray(assembly, H, h) /\ Ahead(air, q, h)
  <2>1. h - w <= p
    BY <1>12, <1>15, <1>17 DEF Ahead, l
  <2> HIDE DEF w
  <2>2. \/ UNCHANGED rx
        \/ h <= p /\ vr_uh' = (p + 1) % MOD /\ Received(assembly', vr_ux', vr_uh', H, p + 1)
    BY <1>1, <1>4, <1>5, <1>6, <1>7, <1>13, <1>17, <2>1, HandleAstray DEF w
  <2>3. CASE UNCHANGED rx
    <3>1. vr_uh' = vr_uh /\ assembly' = assembly
      BY <2>3 DEF rx
    <3>2. \A j \in 1 .. l : Lag(air', j) = 0 => Lag(air, From(j, i)) = 0
      <4> SUFFICES ASSUME NEW j \in 1 .. l, Lag(air', j) = 0 PROVE Lag(air, From(j, i)) = 0
        OBVIOUS
      <4>1. ~(j < i) /\ Lag(air, j + 1) = 0
        BY <1>7, <1>10 DEF l
      <4> QED
        BY <4>1 DEF From
    <3>3. Ahead(air', r, h)
      BY <1>8, <1>9, <1>17, <3>2, AheadLess DEF l
    <3>4. Astray(assembly', H, h)
      BY <1>17, <3>1
    <3>5. Caught(H, h, r)'
      BY <1>6, <3>1, <3>3, <3>4, Zenon DEF Caught
    <3> QED
      BY <1>1, <1>2, <1>4, <1>11, <3>5, Zenon DEF Content
  <2>4. CASE vr_uh' = (p + 1) % MOD /\ Received(assembly', vr_ux', vr_uh', H, p + 1)
    <3>1. Near(air', r, p + 1, losses)
      <4>1. i <= l
        BY <1>8
      <4>2. Near(air', r, q[i] + 1, losses)
        BY <1>1, <1>5, <1>7, <1>8, <1>9, <1>10, <4>1, NearAfter DEF l
      <4> QED
        BY <1>12, <4>2
    <3>2. p + 1 \in 0 .. n
      BY <1>6, <1>13
    <3> DEFINE x == p + 1
    <3>3. vr_uh' = x % MOD /\ Received(assembly', vr_ux', vr_uh', H, x) /\ Near(air', r, x, losses)
      BY <2>4, <3>1
    <3> HIDE DEF x
    <3>4. Caught(H, x, r)'
      BY <1>2, <3>3, Zenon DEF Caught
    <3>5. x \in 0 .. n
      BY <3>2 DEF x
    <3> QED
      BY <1>1, <1>2, <1>11, <3>4, <3>5, Zenon DEF Content
  <2> QED
    BY <2>2, <2>3, <2>4
<1> QED
  BY <1>4, <1>16, <1>17, Zenon DEF Caught

LEMMA ContentExpires ==
    ASSUME MaxLosses + 3 <= rx_window_size, UmInv, Content, TimerExpired PROVE Content'
<1> DEFINE w == rx_window_size
<1>1. /\ w \in Nat /\ w > 1 /\ losses \in Nat /\ losses + 3 <= w /\ losses \in 0 .. MaxLosses
  BY Sizes, UmAssumption DEF Content
<1>2. /\ losses' = losses /\ taken' = taken /\ tx_sdu' = tx_sdu /\ vt_us' = vt_us /\ air' = air
      /\ vr_uh' = vr_uh
  BY DEF TimerExpired, tx, link
<1>3. PICK H, n, q : Sent(H, n, q) /\ \E h \in 0 .. n : Caught(H, h, q)
  BY Zenon DEF Content
<1>4. PICK h \in 0 .. n : Caught(H, h, q)
  BY <1>3, Zenon
<1>5. History(H, n) /\ vr_uh = h % MOD
  BY <1>3, <1>4, Zenon DEF Sent, Caught
<1>6. Sent(H, n, q)'
  BY <1>2, <1>3, Zenon DEF Sent
<1>7. n \in Nat /\ h \in Nat
  BY <1>5 DEF History
<1>8. Ahead(air, q, h)
  <2>1. CASE Near(air, q, h, losses)
    <3> SUFFICES ASSUME NEW i \in 1 .. Len(air) + 1
                 PROVE  h - w <= q[i] /\ (Lag(air, i) = 0 => h <= q[i])
      BY DEF Ahead
    <3>1. IF Lag(air, i) = 1 THEN q[i] < h /\ h <= q[i] + losses + 2 ELSE h <= q[i]
      BY <2>1 DEF Near
    <3>2. q[i] \in Nat
      BY <1>3 DEF Sent, Trail
    <3> QED
      BY <1>1, <1>7, <3>1, <3>2
  <2> QED
    BY <1>4, <2>1, Zenon DEF Caught
<1>9. /\ Received(assembly', vr_ux', vr_uh, H, h) \/ Astray(assembly', H, h)
      /\ Astray(assembly, H, h) => Astray(assembly', H, h)
  <2>1. Received(assembly, vr_ux, vr_uh, H, h) \/ Astray(assembly, H, h)
    BY <1>4, Zenon DEF Caught
  <2> QED
    BY <1>1, <1>4, <1>5, <2>1, HandleExpired
<1>10. Caught(H, h, q)'
  <2>1. CASE Astray(assembly', H, h)
    BY <1>2, <1>5, <1>8, <2>1, Zenon DEF Caught
  <2>2. CASE ~Astray(assembly', H, h)
    <3>1. Received(assembly', vr_ux', vr_uh', H, h)
      BY <1>2, <1>9, <2>2
    <3>2. Near(air, q, h, losses)
      BY <1>4, <1>9, <2>2, Zenon DEF Caught
    <3> QED
      BY <1>2, <1>5, <3>1, <3>2, Zenon DEF Caught
  <2> QED
    BY <2>1, <2>2
<1> QED
  BY <1>1, <1>2, <1>4, <1>6, <1>10, Zenon DEF Content

LEMMA ContentLoses ==
    ASSUME MaxLosses + 3 <= rx_window_size, UmInv, Content, NEW i, LosePdu(i) PROVE Content'
<1> DEFINE l == Len(air)
           more == losses + 1
<1>1. losses \in Nat /\ more \in 0 .. MaxLosses /\ more \in Nat
  BY UmAssumption DEF Content, LosePdu
<1>2. /\ losses' = more /\ taken' = taken /\ tx_sdu' = tx_sdu /\ vt_us' = vt_us
      /\ vr_uh' = vr_uh /\ vr_ux' = vr_ux /\ assembly' = assembly
  BY DEF LosePdu, tx, rx
<1>3. PICK H, n, q : Sent(H, n, q) /\ \E h \in 0 .. n : Caught(H, h, q)
  BY Zenon DEF Content
<1>4. PICK h \in 0 .. n : Caught(H, h, q)
  BY <1>3, Zenon
<1>5. /\ History(H, n) /\ H[n].cut = taken /\ H[n].begun = tx_sdu /\ vt_us = n % MOD
      /\ Trail(air, q, H, n, losses)
  BY <1>3, Zenon DEF Sent
<1>6. n \in Nat /\ h \in Nat /\ vr_uh = h % MOD
  BY <1>4, <1>5 DEF History, Caught
<1>7. /\ Shorter(air', air, i)
      /\ \A j \in 1 .. l : Lag(air', j) = IF j < i THEN Lag(air, j) ELSE Lag(air, j + 1)
  BY LoseIs
<1>8. l \in Nat /\ i \in 1 .. l /\ Len(air') = l - 1
  BY <1>7, Zenon DEF Shorter
<1>9. PICK r : r = Without(q, i, l)
  OBVIOUS
<1>10. /\ \A j \in 1 .. l : Lag(air', j) = IF j < i THEN Lag(air, j) ELSE 0
       /\ Trail(air', r, H, n, more)
  BY <1>1, <1>5, <1>7, <1>9, TrailLoses
<1> HIDE DEF more
<1>11. Sent(H, n, r)'
  BY <1>2, <1>5, <1>10, Zenon DEF Sent
<1>12. Caught(H, h, r)'
  <2>1. CASE Received(assembly, vr_ux, vr_uh, H, h) /\ Near(air, q, h, losses)
    <3>1. Near(air', r, h, more)
      BY <1>1, <1>5, <1>6, <1>8, <1>9, <1>10, <2>1, NearLost DEF more
    <3> QED
      BY <1>2, <1>6, <2>1, <3>1, Zenon DEF Caught
  <2>2. CASE Astray(assembly, H, h) /\ Ahead(air, q, h)
    <3> HIDE DEF l
    <3>1. \A j \in 1 .. l : Lag(air', j) = 0 => Lag(air, From(j, i)) = 0
      <4> SUFFICES ASSUME NEW j \in 1 .. l, Lag(air', j) = 0 PROVE Lag(air, From(j, i)) = 0
        OBVIOUS
      <4>1. (j < i => Lag(air, j) = 0) /\ (~(j < i) => Lag(air, j + 1) = 0)
        BY <1>7, <1>10 DEF l
      <4> QED
        BY <4>1 DEF From
    <3>2. Ahead(air', r, h)
      BY <1>8, <1>9, <2>2, <3>1, AheadLess DEF l
    <3> QED
      BY <1>2, <1>6, <2>2, <3>2, Zenon DEF Caught
  <2> QED
    BY <1>4, <2>1, <2>2, Zenon DEF Caught
<1> QED
  BY <1>1, <1>2, <1>4, <1>11, <1>12, Zenon DEF Content

\* s goes on as t, with a PDU more, and q with n + 1.
Onto(t, s) == Len(s) \in Nat /\ Len(t) = Len(s) + 1 /\ \A j \in 1 .. Len(s) : t[j] = s[j]
Plus(q, l, n) == [j \in 1 .. l + 2 |-> IF j <= l + 1 THEN q[j] ELSE n + 1]
SameLags(t, s) == \A j \in 1 .. Len(s) + 2 : Lag(t, j) = Lag(s, j)

LEMMA TrailLonger ==
    ASSUME NEW s, NEW q, NEW H, NEW n \in Nat, NEW gone \in Nat, Trail(s, q, H, n, gone),
           NEW G, Agrees(G, H, n), NEW t, Onto(t, s), Is(t[Len(s) + 1], G, n), ~t[Len(s) + 1].late,
           NEW r, r = Plus(q, Len(s), n)
    PROVE  SameLags(t, s) /\ Trail(t, r, G, n + 1, gone)
<1> DEFINE l == Len(s)
           m == n + 1
<1>1. /\ l \in Nat /\ Len(t) = l + 1 /\ Len(t) + 1 = l + 2 /\ l + 1 \in 1 .. l + 1 /\ m \in Nat /\ n \in Int
      /\ \A p \in 0 .. n : G[p] = H[p]
  BY DEF Onto, Agrees
<1>2. /\ q \in [1 .. l + 1 -> Nat] /\ q[l + 1] = n
      /\ \A i \in 1 .. l : Is(s[i], H, q[i]) /\ (s[i].late => i = 1)
      /\ \A x, y \in 1 .. l + 1 : x < y => q[x] < q[y] /\ q[y] - q[x] <= gone + (y - x) + Lag(s, x)
  BY DEF Trail
<1>3. /\ r = [j \in 1 .. l + 2 |-> IF j <= l + 1 THEN q[j] ELSE m] /\ (\A j \in 1 .. l : t[j] = s[j])
      /\ Is(t[l + 1], G, n) /\ ~t[l + 1].late
  BY DEF Onto, Plus
<1>4. ASSUME NEW j \in 1 .. l + 2 PROVE Lag(t, j) = Lag(s, j)
  <2> HIDE DEF l
  <2>1. CASE j \in 1 .. l
    BY <1>1, <1>3, <2>1 DEF Lag, l
  <2>2. CASE j = l + 1
    BY <1>1, <1>3, <2>2 DEF Lag, l
  <2>3. CASE j = l + 2
    BY <1>1, <2>3 DEF Lag, l
  <2>4. j \in 1 .. l \/ j = l + 1 \/ j = l + 2
    BY <1>1
  <2> QED
    BY <2>1, <2>2, <2>3, <2>4, Zenon
<1> HIDE DEF l
<1>5. r \in [1 .. l + 2 -> Nat] /\ r[l + 2] = m
  BY <1>1, <1>2, <1>3
<1>6. ASSUME NEW i \in 1 .. l + 1 PROVE Is(t[i], G, r[i]) /\ (t[i].late => i = 1)
  <2>1. r[i] = q[i]
    BY <1>1, <1>3
  <2>2. CASE i = l + 1
    BY <1>1, <1>2, <1>3, <2>1, <2>2
  <2>3. CASE i # l + 1
    <3>1. i \in 1 .. l /\ i < l + 1 /\ i \in 1 .. l + 1
      BY <1>1, <2>3
    <3>2. t[i] = s[i] /\ Is(s[i], H, q[i]) /\ (s[i].late => i = 1)
      BY <1>2, <1>3, <3>1
    <3>3. q[i] \in Nat /\ q[i] < n
      BY <1>1, <1>2, <3>1
    <3>4. q[i] \in 0 .. n - 1
      BY <1>1, <3>3
    <3>5. Is(s[i], G, q[i])
      BY <1>1, <3>2, <3>4, IsSame
    <3> QED
      BY <2>1, <3>2, <3>5
  <2> QED
    BY <2>2, <2>3
<1>7. ASSUME NEW x \in 1 .. l + 2, NEW y \in 1 .. l + 2, x < y
      PROVE  r[x] < r[y] /\ r[y] - r[x] <= gone + (y - x) + Lag(t, x)
  <2>1. Lag(t, x) = Lag(s, x) /\ Lag(s, x) \in {0, 1}
    BY <1>4, LagType
  <2>2. x \in 1 .. l + 1 /\ r[x] = q[x] /\ q[x] \in Nat
    BY <1>1, <1>2, <1>3, <1>7
  <2>3. CASE y \in 1 .. l + 1
    <3>1. r[y] = q[y]
      BY <1>1, <1>3, <2>3
    <3>2. q[x] < q[y] /\ q[y] - q[x] <= gone + (y - x) + Lag(s, x)
      BY <1>2, <1>7, <2>2, <2>3
    <3> QED
      BY <2>1, <2>2, <3>1, <3>2
  <2>4. CASE y = l + 2
    <3>1. r[y] = n + 1
      BY <1>5, <2>4
    <3>2. CASE x = l + 1
      BY <1>1, <1>2, <2>1, <2>2, <2>4, <3>1, <3>2
    <3>3. CASE x # l + 1
      <4>1. x < l + 1
        BY <1>1, <2>2, <3>3
      <4>2. q[x] < n /\ n - q[x] <= gone + (l + 1 - x) + Lag(s, x)
        BY <1>1, <1>2, <2>2, <4>1
      <4> DEFINE a == q[x]
                 d == Lag(s, x)
      <4>3. a < n /\ n - a <= gone + (l + 1 - x) + d /\ a \in Nat /\ d \in Nat
        BY <2>1, <2>2, <4>2
      <4> HIDE DEF a, d
      <4>4. a < n + 1 /\ (n + 1) - a <= gone + (y - x) + d
        BY <1>1, <2>2, <2>4, <4>3
      <4> QED
        BY <2>1, <2>2, <3>1, <4>4 DEF a, d
    <3> QED
      BY <3>2, <3>3
  <2> QED
    BY <1>1, <2>3, <2>4
<1>8. Trail(t, r, G, m, gone)
  <2>1. /\ r \in [1 .. Len(t) + 1 -> Nat] /\ r[Len(t) + 1] = m
        /\ \A x, y \in 1 .. Len(t) + 1 :
             x < y => r[x] < r[y] /\ r[y] - r[x] <= gone + (y - x) + Lag(t, x)
    BY <1>1, <1>5, <1>7
  <2>2. \A i \in 1 .. Len(t) : Is(t[i], G, r[i]) /\ (t[i].late => i = 1)
    BY <1>1, <1>6
  <2> QED
    BY <2>1, <2>2, Zenon DEF Trail
<1> QED
  BY <1>4, <1>8 DEF l, SameLags

LEMMA NearLonger ==
    ASSUME NEW s, NEW q, NEW H, NEW n \in Nat, NEW gone \in Nat, Trail(s, q, H, n, gone),
           NEW h \in 0 .. n, NEW t, Onto(t, s), SameLags(t, s), NEW r, r = Plus(q, Len(s), n)
    PROVE  /\ Near(s, q, h, gone) => Near(t, r, h, gone)
           /\ Ahead(s, q, h) => Ahead(t, r, h)
<1> DEFINE l == Len(s)
           m == n + 1
<1>1. /\ l \in Nat /\ Len(t) + 1 = l + 2 /\ l + 1 \in 1 .. l + 1 /\ l + 2 \in 1 .. l + 2 /\ m \in Nat
      /\ h \in Nat /\ h <= n /\ h <= m /\ 1 \in 1 .. l + 2
  BY DEF Onto
<1>2. q \in [1 .. l + 1 -> Nat] /\ q[l + 1] = n
  BY DEF Trail
<1>3. \A j \in 1 .. l + 1 : j \in 1 .. l + 2 /\ r[j] = q[j] /\ Lag(t, j) = Lag(s, j)
  BY <1>1 DEF Plus, SameLags
<1>4. r[l + 2] = m /\ Lag(t, l + 2) = 0 /\ Lag(t, 1) = Lag(s, 1) /\ Lag(s, l + 1) = 0
  <2>1. Lag(t, l + 2) = Lag(s, l + 2) /\ Lag(t, 1) = Lag(s, 1) /\ r[l + 2] = m
    BY <1>1 DEF Plus, SameLags
  <2>2. Lag(s, l + 2) = 0 /\ Lag(s, l + 1) = 0
    BY <1>1 DEF Lag
  <2> QED
    BY <2>1, <2>2
<1>5. \A j \in 1 .. l + 2 : j \in 1 .. l + 1 \/ j = l + 2
  <2> HIDE DEF l
  <2> QED
    BY <1>1
<1> HIDE DEF l, m
<1>6. ASSUME Near(s, q, h, gone) PROVE Near(t, r, h, gone)
  <2> SUFFICES ASSUME NEW i \in 1 .. l + 2
               PROVE  IF Lag(t, i) = 1 THEN r[i] < h /\ h <= r[i] + gone + 2
                                       ELSE h <= r[i] /\ r[i] <= h + gone + i - Lag(t, 1)
    BY <1>1 DEF Near
  <2>1. \A j \in 1 .. l + 1 :
           IF Lag(s, j) = 1 THEN q[j] < h /\ h <= q[j] + gone + 2
                            ELSE h <= q[j] /\ q[j] <= h + gone + j - Lag(s, 1)
    BY <1>6, Zenon DEF Near, l
  <2>2. CASE i \in 1 .. l + 1
    BY <1>3, <1>4, <2>1, <2>2
  <2>3. CASE i = l + 2
    <3> DEFINE d == Lag(s, 1)
    <3>1. n <= h + gone + (l + 1) - d
      BY <1>1, <1>2, <1>4, <2>1
    <3>2. d \in {0, 1}
      BY LagType
    <3> HIDE DEF d
    <3>3. m <= h + gone + (l + 2) - d
      BY <1>1, <3>1, <3>2 DEF m
    <3> QED
      BY <1>1, <1>4, <2>3, <3>3 DEF d
  <2> QED
    BY <1>5, <2>2, <2>3
<1>7. ASSUME Ahead(s, q, h) PROVE Ahead(t, r, h)
  <2> SUFFICES ASSUME NEW i \in 1 .. l + 2
               PROVE  h - rx_window_size <= r[i] /\ (Lag(t, i) = 0 => h <= r[i])
    BY <1>1 DEF Ahead
  <2>1. \A j \in 1 .. l + 1 : h - rx_window_size <= q[j] /\ (Lag(s, j) = 0 => h <= q[j])
    BY <1>7, Zenon DEF Ahead, l
  <2>2. CASE i \in 1 .. l + 1
    BY <1>3, <2>1, <2>2
  <2>3. CASE i = l + 2
    <3>1. rx_window_size \in Nat
      BY Sizes
    <3> QED
      BY <1>1, <1>4, <2>3, <3>1
  <2> QED
    BY <1>5, <2>2, <2>3
<1> QED
  BY <1>6, <1>7

LEMMA ContentBuilds ==
    ASSUME UmInv, Content, NEW room \in Grants, NEW brink \in {FALSE, Brink}, BuildDataPdu(room, brink)
    PROVE  Content'
<1> DEFINE l == Len(air)
<1>1. losses \in Nat /\ losses \in 0 .. MaxLosses
  BY UmAssumption DEF Content
<1>2. losses' = losses /\ vr_uh' = vr_uh /\ vr_ux' = vr_ux /\ assembly' = assembly
  BY DEF BuildDataPdu, rx
<1>3. PICK H, n, q : Sent(H, n, q) /\ \E h \in 0 .. n : Caught(H, h, q)
  BY Zenon DEF Content
<1>4. PICK h \in 0 .. n : Caught(H, h, q)
  BY <1>3, Zenon
<1>5. /\ History(H, n) /\ H[n].cut = taken /\ H[n].begun = tx_sdu /\ vt_us = n % MOD
      /\ Trail(air, q, H, n, losses)
  BY <1>3, Zenon DEF Sent
<1>6. n \in Nat /\ h \in Nat /\ vr_uh = h % MOD
  BY <1>4, <1>5 DEF History, Caught
<1>7. PICK m : m = n + 1
  OBVIOUS
<1>8. /\ vt_us' = (n + 1) % MOD
      /\ \E G, e : /\ History(G, n + 1) /\ G[n + 1].cut = taken' /\ G[n + 1].begun = tx_sdu'
                   /\ Agrees(G, H, n) /\ air' = Append(air, e) /\ ~e.late /\ Is(e, G, n)
  BY <1>5, BuildIs
<1>9. PICK G, e : /\ History(G, n + 1) /\ G[n + 1].cut = taken' /\ G[n + 1].begun = tx_sdu'
                  /\ Agrees(G, H, n) /\ air' = Append(air, e) /\ ~e.late /\ Is(e, G, n)
  BY <1>8, Zenon
<1>10. /\ History(G, m) /\ G[m].cut = taken' /\ G[m].begun = tx_sdu' /\ vt_us' = m % MOD
       /\ \A p \in 0 .. n : G[p] = H[p]
  BY <1>7, <1>8, <1>9 DEF Agrees
<1>11. PICK r : r = Plus(q, l, n)
  OBVIOUS
<1>12. Onto(air', air) /\ Is(air'[l + 1], G, n) /\ ~air'[l + 1].late
  <2>1. PICK S : air \in Seq(S)
    BY DEF UmInv
  <2>2. l \in Nat
    BY <2>1
  <2>3. Len(Append(air, e)) = l + 1 /\ (\A j \in 1 .. l : Append(air, e)[j] = air[j]) /\ Append(air, e)[l + 1] = e
    BY <2>1
  <2> QED
    BY <1>9, <2>2, <2>3 DEF Onto
<1>13. SameLags(air', air) /\ Trail(air', r, G, m, losses)
  BY <1>1, <1>5, <1>6, <1>7, <1>9, <1>11, <1>12, TrailLonger
<1>14. Sent(G, m, r)'
  BY <1>2, <1>10, <1>13, Zenon DEF Sent
<1>15. /\ Near(air, q, h, losses) => Near(air', r, h, losses)
       /\ Ahead(air, q, h) => Ahead(air', r, h)
  BY <1>1, <1>4, <1>5, <1>6, <1>11, <1>12, <1>13, NearLonger
<1>16. /\ Received(assembly, vr_ux, vr_uh, H, h) => Received(assembly, vr_ux, vr_uh, G, h)
       /\ Astray(assembly, H, h) => Astray(assembly, G, h)
  BY <1>4, <1>6, <1>10, ReceivedSame
<1>17. Caught(G, h, r)'
  BY <1>2, <1>4, <1>15, <1>16, Zenon DEF Caught
<1>18. h \in 0 .. m
  BY <1>4, <1>6, <1>7
<1> QED
  BY <1>1, <1>2, <1>14, <1>17, <1>18, Zenon DEF Content

LEMMA ContentIdle ==
    ASSUME Content, UNCHANGED <<taken, tx_sdu, vt_us, air, losses, vr_ux, vr_uh, assembly>> PROVE Content'
BY DEF Content, Sent, Caught

LEMMA ContentInit == UmInit => Content
<1> SUFFICES ASSUME UmInit PROVE Content
  OBVIOUS
<1>1. /\ taken = 0 /\ tx_sdu = FALSE /\ vt_us = 0 /\ air = <<>> /\ losses = 0 /\ vr_uh = 0
      /\ assembly = [ur |-> 0, last |-> 0, lost |-> FALSE, win |-> <<>>, sdu |-> <<>>, out |-> <<>>]
  BY DEF UmInit
<1> DEFINE H == [p \in 0 .. 0 |-> [cut |-> 0, begun |-> FALSE]]
           q == [j \in 1 .. 1 |-> 0]
<1>2. 0 % MOD = 0 /\ Begins(0)
  <2>1. 0 \in 0 .. MOD - 1 /\ 0 \in 0 .. SduUnits - 1
    BY Sizes, StreamSizes
  <2> QED
    BY <2>1, Sizes, StreamSizes, ModSmall DEF Begins
<1>3. H[0].cut = 0 /\ H[0].begun = FALSE /\ H \in [0 .. 0 -> [cut : Nat, begun : BOOLEAN]]
  OBVIOUS
<1> HIDE DEF H
<1>4. \A p \in 0 .. 0 : p = 0
  OBVIOUS
<1>5. History(H, 0)
  BY <1>2, <1>3, <1>4 DEF History
<1>6. Len(air) = 0 /\ q \in [1 .. 1 -> Nat] /\ q[1] = 0
  BY <1>1
<1> HIDE DEF q
<1>7. \A j \in 1 .. 1 : j = 1
  OBVIOUS
<1>8. Trail(air, q, H, 0, 0)
  BY <1>6, <1>7 DEF Trail
<1>9. Sent(H, 0, q)
  BY <1>1, <1>2, <1>3, <1>5, <1>8 DEF Sent
<1>10. Lag(air, 1) = 0
  BY <1>6 DEF Lag
<1>11. Near(air, q, 0, 0)
  BY <1>6, <1>7, <1>10 DEF Near
<1>12. Outs(assembly.out, 0, H[0].cut)
  BY <1>1, <1>3 DEF Outs
<1>13. DOMAIN assembly.win = {}
  BY <1>1
<1>14. Status(assembly, H, 0, 0, 0)
  BY <1>1, <1>2, <1>12, <1>13 DEF Status, Kept, Recent
<1>15. Received(assembly, vr_ux, vr_uh, H, 0)
  <2>1. 0 \in 0 .. 0 /\ 0 >= 0 - rx_window_size /\ ~(0 < 0)
    BY Sizes
  <2> QED
    BY <1>14, <2>1, Zenon DEF Received
<1>16. Caught(H, 0, q)
  BY <1>1, <1>2, <1>11, <1>15, Zenon DEF Caught
<1>17. losses \in 0 .. MaxLosses /\ 0 \in 0 .. 0
  BY <1>1, UmAssumption
<1> QED
  BY <1>9, <1>16, <1>17, Zenon DEF Content

LEMMA ContentStep ==
    ASSUME MaxLosses + 3 <= rx_window_size, UmInv, Content, [Next]_vars PROVE Content'
<1>1. ASSUME WriteSdu PROVE Content'
  <2>1. UNCHANGED <<taken, tx_sdu, vt_us, air, losses, vr_ux, vr_uh, assembly>>
    BY <1>1 DEF WriteSdu, link, rx
  <2> QED
    BY <2>1, ContentIdle
<1>2. ASSUME NEW room \in Grants, NEW brink \in {FALSE, Brink}, BuildDataPdu(room, brink) PROVE Content'
  BY <1>2, ContentBuilds
<1>3. ASSUME NEW i \in {1, 2}, PduArrives(i) PROVE Content'
  BY <1>3, ContentArrives
<1>4. ASSUME TimerStep PROVE Content'
  <2>1. UNCHANGED <<taken, tx_sdu, vt_us, air, losses, vr_ux, vr_uh, assembly>>
    BY <1>4 DEF TimerStep, tx, link
  <2> QED
    BY <2>1, ContentIdle
<1>5. ASSUME TimerExpired PROVE Content'
  BY <1>5, ContentExpires
<1>6. ASSUME NEW i \in 1 .. MaxAir, LosePdu(i) PROVE Content'
  BY <1>6, ContentLoses
<1>7. ASSUME UNCHANGED vars PROVE Content'
  <2>1. UNCHANGED <<taken, tx_sdu, vt_us, air, losses, vr_ux, vr_uh, assembly>>
    BY <1>7 DEF vars, tx, link, rx
  <2> QED
    BY <2>1, ContentIdle
<1> QED
  BY <1>1, <1>2, <1>3, <1>4, <1>5, <1>6, <1>7, Zenon DEF Next

\* An SDU of those written.
LEMMA SduOf ==
    ASSUME NEW x, NEW m \in Nat, IsSdu(x, 0, m * SduUnits)
    PROVE  \E k \in 0 .. m - 1 : x = Sdu(k)
<1>1. PICK b \in Nat : Begins(b) /\ b + SduUnits <= m * SduUnits /\ x = Units(b, b + SduUnits)
  BY DEF IsSdu
<1>2. PICK k \in Int : b = k * SduUnits
  BY <1>1, BeginsIs
<1>3. (k + 1) * SduUnits = b + SduUnits /\ m * SduUnits \in Int /\ 0 * SduUnits = 0
  BY <1>2, StreamSizes
<1>4. k >= 0
  <2>1. k < 0 => k * SduUnits < 0 * SduUnits
    BY <1>2, StreamSizes, TimesOrder
  <2> QED
    BY <1>2, <1>3, <2>1
<1>5. k < m
  <2>1. k >= m => m * SduUnits <= k * SduUnits
    BY <1>2, StreamSizes, TimesOrder
  <2> QED
    BY <1>1, <1>2, <1>3, <2>1, StreamSizes
<1>6. x = Sdu(k)
  BY <1>1, <1>2, <1>3 DEF Sdu
<1>7. k \in 0 .. m - 1
  BY <1>4, <1>5
<1> QED
  BY <1>6, <1>7

LEMMA ContentIntact == ASSUME UmInv, Content PROVE IntactInOrder
<1> DEFINE out == assembly.out
           hi == written * SduUnits
<1>1. taken \in Nat /\ written \in Nat /\ hi \in Nat /\ taken <= hi
  BY TakenType DEF UmInv
<1>2. Outs(out, 0, hi)
  <2>1. PICK H, n, q : Sent(H, n, q) /\ \E h \in 0 .. n : Caught(H, h, q)
    BY Zenon DEF Content
  <2>2. PICK h \in 0 .. n : Caught(H, h, q)
    BY <2>1, Zenon
  <2>3. History(H, n) /\ H[n].cut = taken
    BY <2>1, Zenon DEF Sent
  <2>4. \E u \in 0 .. n : Outs(out, 0, H[u].cut)
    <3>1. CASE Received(assembly, vr_ux, vr_uh, H, h)
      <4>1. PICK u \in 0 .. h : Status(assembly, H, h, 0, u)
        BY <3>1, Zenon DEF Received
      <4>2. u \in 0 .. n
        BY <2>2, <2>3 DEF History
      <4> QED
        BY <4>1, <4>2, Zenon DEF Status
    <3>2. CASE Astray(assembly, H, h)
      BY <2>2, <3>2, Zenon DEF Astray
    <3> QED
      BY <2>2, <3>1, <3>2, Zenon DEF Caught
  <2>5. PICK u \in 0 .. n : Outs(out, 0, H[u].cut)
    BY <2>4, Zenon
  <2>6. H[u].cut \in Int /\ H[u].cut <= taken
    <3>1. n \in Nat /\ n \in 0 .. n /\ u <= n
      BY <2>3 DEF History
    <3>2. H[u].cut \in Nat /\ H[u].cut <= H[n].cut
      BY <2>3, <3>1, HistoryCuts
    <3> QED
      BY <2>3, <3>2
  <2> DEFINE x == H[u].cut
  <2>7. x \in Int /\ x <= hi /\ hi \in Int /\ Outs(out, 0, x)
    BY <1>1, <2>5, <2>6
  <2> HIDE DEF x, hi
  <2> QED
    BY <2>7, OutsWiden
<1> HIDE DEF hi
<1>3. /\ DOMAIN out = 1 .. Len(out) /\ \A i \in 1 .. Len(out) : IsSdu(out[i], 0, hi)
      /\ \A i, j \in 1 .. Len(out) : i < j => Head(out[i]) < Head(out[j])
  <2> HIDE DEF out
  <2>1. out \in Seq(Seq(Nat))
    BY <1>2, Zenon DEF Outs
  <2>2. DOMAIN out = 1 .. Len(out)
    BY <2>1
  <2> QED
    BY <1>2, <2>2, Zenon DEF Outs
<1>4. \A i \in DOMAIN out : \E k \in 0 .. written - 1 : out[i] = Sdu(k)
  BY <1>1, <1>3, SduOf DEF hi
<1> QED
  BY <1>3, <1>4, Zenon DEF IntactInOrder

-----------------------------------------------------------------------------
(* Nothing is lost and no timer expires                                    *)

LEMMA UnitsHave ==
    ASSUME NEW from \in Nat, NEW to \in Nat, NEW x \in from .. to - 1 PROVE x \in Range(Units(from, to))
<1> DEFINE i == x - from + 1
<1>1. i \in 1 .. to - from /\ from + i - 1 = x
  OBVIOUS
<1> HIDE DEF i
<1>2. i \in DOMAIN Units(from, to) /\ Units(from, to)[i] = x
  BY <1>1 DEF Units
<1> QED
  BY <1>2, Zenon DEF Range

\* A PDU holds the units that it was made of.
LEMMA MadeHas ==
    ASSUME NEW m, NEW pdu \in Pdus(m), NEW from, NEW to, NEW was, NEW is, Made(pdu, from, to, was, is),
           NEW x \in from .. to - 1
    PROVE  x \in UNION {Range(piece) : piece \in Range(pdu.pieces)}
<1> DEFINE s == SduUnits
           p == pdu.pieces
           k == Len(p)
<1>1. from \in Nat /\ to \in Nat /\ from < to /\ s \in Nat /\ s > 0 /\ x \in Nat /\ from <= x /\ x < to
  BY StreamSizes DEF Made
<1>2. PICK base : Laid(base, p, from, to)
  BY MadeLaid DEF Fits
<1>3. /\ k \in Nat \ {0} /\ base \in [1 .. k -> Nat]
      /\ \A j \in 1 .. k : Begins(base[j])
      /\ \A j \in 1 .. k :
           p[j] = Units(IF j = 1 THEN from ELSE base[j], IF j = k THEN to ELSE base[j] + s)
      /\ base[1] <= from /\ base[k] <= to
      /\ \A e \in Nat : Begins(e) /\ base[1] <= e /\ e < base[k] => \E i \in 1 .. k - 1 : e = base[i]
  BY <1>2 DEF Laid
<1>4. PICK b \in Nat : Begins(b) /\ b <= x /\ x < b + s
  BY <1>1, BeginsBefore
<1>5. 1 \in 1 .. k /\ k \in 1 .. k /\ base[1] \in Nat /\ base[k] \in Nat
  <2> HIDE DEF k
  <2> QED
    BY <1>3
<1> HIDE DEF k, p, s
<1>6. \E j \in 1 .. k : x \in Range(p[j])
  <2>1. CASE base[k] <= x
    <3> DEFINE a == IF k = 1 THEN from ELSE base[k]
    <3>1. a \in Nat /\ x \in a .. to - 1 /\ p[k] = Units(a, to)
      BY <1>1, <1>3, <1>5, <2>1
    <3> HIDE DEF a
    <3>2. x \in Range(p[k])
      BY <1>1, <3>1, UnitsHave
    <3> QED
      BY <1>5, <3>2
  <2>2. CASE ~(base[k] <= x)
    <3>1. base[1] <= b
      <4>1. b < base[1] => b + s <= base[1]
        BY <1>3, <1>4, <1>5, BeginsApart DEF s
      <4> QED
        BY <1>1, <1>3, <1>4, <1>5, <4>1
    <3>2. b < base[k]
      BY <1>1, <1>4, <1>5, <2>2
    <3>3. PICK i \in 1 .. k - 1 : b = base[i]
      BY <1>3, <1>4, <3>1, <3>2
    <3>4. i \in 1 .. k /\ i # k
      BY <1>3
    <3> DEFINE a == IF i = 1 THEN from ELSE b
               c == b + s
    <3>5. a \in Nat /\ c \in Nat /\ x \in a .. c - 1 /\ p[i] = Units(a, c)
      BY <1>1, <1>3, <1>4, <3>3, <3>4
    <3> HIDE DEF a, c
    <3>6. x \in Range(p[i])
      BY <3>5, UnitsHave
    <3> QED
      BY <3>4, <3>6
  <2> QED
    BY <2>1, <2>2
<1>7. DOMAIN p = 1 .. k
  <2>1. p \in Seq(Seq(0 .. m - 1))
    BY DEF Pdus, p
  <2> QED
    BY <2>1 DEF k
<1>8. PICK j \in 1 .. k : x \in Range(p[j])
  BY <1>6
<1>9. p[j] \in Range(p)
  BY <1>7, Zenon DEF Range
<1> QED
  BY <1>8, <1>9, Zenon DEF p

\* A unit that was sent after the first u PDUs is in one of the others.
LEMMA UnitSent ==
    ASSUME NEW H, NEW n, History(H, n), NEW u \in 0 .. n, NEW x \in Nat, H[u].cut <= x, x < H[n].cut
    PROVE  \E p \in u .. n - 1 : H[p].cut <= x /\ x < H[p + 1].cut
<1> DEFINE Found(v) == \E p \in u .. v - 1 : H[p].cut <= x /\ x < H[p + 1].cut
           S == {k \in 0 .. n - u : x < H[u + k].cut => Found(u + k)}
<1>1. n \in Nat /\ u \in Nat /\ n - u \in Nat /\ n - u \in 0 .. n - u /\ u + (n - u) = n
      /\ \A p \in 0 .. n : H[p].cut \in Nat
  BY HistoryCuts DEF History
<1>2. 0 \in S
  <2>1. u + 0 = u /\ 0 \in 0 .. n - u /\ H[u].cut \in Nat
    BY <1>1
  <2>2. ~(x < H[u].cut)
    BY <2>1
  <2> QED
    BY <2>1, <2>2
<1>3. ASSUME NEW k \in 0 .. (n - u) - 1, k \in S PROVE k + 1 \in S
  <2> DEFINE v == u + k
  <2>1. v \in 0 .. n - 1 /\ v \in u .. v /\ u + (k + 1) = v + 1 /\ k + 1 \in 0 .. n - u /\ v + 1 - 1 = v
    BY <1>1
  <2>2. x < H[v].cut => Found(v)
    BY <1>3
  <2>3. H[v].cut \in Nat
    BY <1>1, <2>1
  <2> HIDE DEF v
  <2>4. ASSUME x < H[v + 1].cut PROVE Found(v + 1)
    <3>1. CASE x < H[v].cut
      <4>1. PICK p \in u .. v - 1 : H[p].cut <= x /\ x < H[p + 1].cut
        BY <2>2, <3>1
      <4>2. p \in u .. (v + 1) - 1
        BY <2>1
      <4> QED
        BY <4>1, <4>2
    <3>2. CASE ~(x < H[v].cut)
      <4>1. H[v].cut <= x /\ v \in u .. (v + 1) - 1
        BY <2>1, <2>3, <3>2
      <4> QED
        BY <2>4, <4>1
    <3> QED
      BY <3>1, <3>2
  <2> HIDE DEF Found
  <2> QED
    BY <2>1, <2>4
<1> DEFINE d == n - u
<1>4. \A k \in 0 .. d : k \in S
  <2>1. d \in Nat /\ \A k \in 0 .. d - 1 : k \in S => k + 1 \in S
    BY <1>1, <1>3
  <2> HIDE DEF S, d
  <2> QED
    BY <1>2, <2>1, UpTo
<1>5. n - u \in S
  BY <1>1, <1>4
<1>6. x < H[n].cut => Found(n)
  <2> HIDE DEF Found
  <2> QED
    BY <1>1, <1>5
<1> QED
  BY <1>6

-----------------------------------------------------------------------------
(* The loops, when nothing is missing                                      *)

LEMMA CatchUpNone ==
    ASSUME NEW a, NEW uh, inside_reordering_window(a.ur, uh, a.win) PROVE CatchUp(a, uh) = a
<1> DEFINE T == [k \in 0 .. MOD |-> {a}]
<1>1. MOD \in Nat /\ 0 \in 0 .. MOD /\ MOD \in 0 .. MOD
  BY Sizes
<1>2. \A k \in 1 .. MOD : k \in 0 .. MOD /\ k - 1 \in 0 .. MOD
  BY <1>1
<1>3. Behind(a, uh) = a
  BY Zenon DEF Behind
<1>4. a \in T[0] /\ \A k \in 1 .. MOD : \A b \in T[k - 1] : Behind(b, uh) \in T[k]
  BY <1>1, <1>2, <1>3
<1> HIDE DEF T
<1>5. CatchUp(a, uh) \in T[MOD]
  BY <1>4, LoopCatchUp, Zenon
<1> QED
  BY <1>1, <1>5 DEF T

LEMMA OnwardNone ==
    ASSUME NEW a, a.ur \notin DOMAIN a.win PROVE Loop(Onward, a) = a
<1> DEFINE T == [k \in 0 .. MOD |-> {a}]
<1>1. MOD \in Nat /\ 0 \in 0 .. MOD /\ MOD \in 0 .. MOD
  BY Sizes
<1>2. \A k \in 1 .. MOD : k \in 0 .. MOD /\ k - 1 \in 0 .. MOD
  BY <1>1
<1>3. Onward(a) = a
  BY DEF Onward
<1>4. a \in T[0] /\ \A k \in 1 .. MOD : \A b \in T[k - 1] : Onward(b) \in T[k]
  BY <1>1, <1>2, <1>3
<1> HIDE DEF T
<1>5. Loop(Onward, a) \in T[MOD]
  BY <1>4, LoopOnward, Zenon
<1> QED
  BY <1>1, <1>5 DEF T

\* All before u is there, but for the SDUs that begin in B, and PDU u belongs to what
\* is begun.
Ready(a, H, u, B) == a.ur = u % MOD /\ (belongs(a) \/ a.sdu = <<>>) /\ All(a, H[u].cut, B)

\* An SDU of H that was begun with none of its bytes begins in B.
Bares(H, n, B) == \A p \in 0 .. n : H[p].begun /\ Begins(H[p].cut) => H[p].cut \in B

\* The window holds PDUs u .. v - 1.
Row(win, H, u, v) ==
    /\ DOMAIN win = {p % MOD : p \in u .. v - 1}
    /\ \A p \in u .. v - 1 : Is(win[p % MOD], H, p)

LEMMA OnwardReady ==
    ASSUME NEW m \in Nat, NEW H, NEW n, History(H, n), NEW B, Bares(H, n, B), NEW u \in Nat, NEW v \in 0 .. n, u < v,
           v - u < MOD, NEW a \in Assemblies(m), Ready(a, H, u, B), Row(a.win, H, u, v)
    PROVE  Onward(a) \in Assemblies(m) /\ Ready(Onward(a), H, u + 1, B) /\ Row(Onward(a).win, H, u + 1, v)
<1> DEFINE sn  == u % MOD
           pdu == a.win[sn]
           c   == CopyNext(a, pdu)
           b   == NextNumber(c)
<1>1. n \in Nat /\ u \in u .. v - 1 /\ u \in 0 .. n /\ u \in Int /\ u + 1 \in 0 .. n /\ MOD \in Nat
  BY Sizes DEF History
<1>2. a.ur = sn /\ (belongs(a) \/ a.sdu = <<>>) /\ All(a, H[u].cut, B)
  BY DEF Ready
<1>3. sn \in DOMAIN a.win /\ Is(pdu, H, u)
  BY <1>1 DEF Row
<1>4. a.win \in Windows(m)
  BY DEF Assemblies
<1>5. pdu \in Pdus(m)
  <2> HIDE DEF sn
  <2> QED
    BY <1>3, <1>4, WindowOf
<1>6. Onward(a) = b
  BY <1>2, <1>3 DEF Onward
<1> HIDE DEF pdu
<1>7. c \in Assemblies(m) /\ c.ur = sn /\ c.win = a.win
  BY <1>2, <1>5, CopyNextType
<1>8. All(c, H[u + 1].cut, B) /\ (c.sdu # <<>> => c.last = sn)
  <2>1. Made(pdu, H[u].cut, H[u + 1].cut, H[u].begun, H[u + 1].begun)
    BY <1>3 DEF Is
  <2>2. H[u].begun /\ Begins(H[u].cut) => H[u].cut \in B
    BY <1>1 DEF Bares
  <2> QED
    BY <1>2, <1>5, <2>1, <2>2, CopyNextAll
<1> HIDE DEF c
<1>9. b \in Assemblies(m) /\ b.ur = Shift(sn, 1) /\ b.last = c.last
  <2>1. b \in Assemblies(m) /\ b.ur = Shift(c.ur, 1)
    BY <1>7, NextNumberIs
  <2>2. b.last = c.last
    BY <1>7 DEF NextNumber, Assemblies
  <2> QED
    BY <1>7, <1>8, <2>1, <2>2
<1>10. b.out = c.out /\ b.sdu = c.sdu /\ b.lost = c.lost /\ b.win = Keep(a.win, SN \ {sn})
  BY <1>7 DEF NextNumber, Assemblies
<1> HIDE DEF b
<1>11. Ready(b, H, u + 1, B)
  <2>1. Shift(sn, 1) = (u + 1) % MOD
    BY <1>1, NumberNext
  <2>2. belongs(b) \/ b.sdu = <<>>
    BY <1>8, <1>9, <1>10 DEF belongs
  <2>3. All(b, H[u + 1].cut, B)
    BY <1>8, <1>10 DEF All, Got, Begun
  <2> QED
    BY <1>9, <2>1, <2>2, <2>3 DEF Ready
<1>12. Row(b.win, H, u + 1, v)
  <2>1. \A p \in u + 1 .. v - 1 : p \in u .. v - 1 /\ p % MOD # sn /\ p % MOD \in SN
    <3> SUFFICES ASSUME NEW p \in u + 1 .. v - 1 PROVE p \in u .. v - 1 /\ p % MOD # sn /\ p % MOD \in SN
      OBVIOUS
    <3>1. p \in u .. v - 1 /\ p \in Int /\ p # u /\ p - u < MOD /\ u - p < MOD
      BY <1>1
    <3> QED
      BY <1>1, <3>1, NumberSame, NumberType
  <2>2. DOMAIN a.win = {p % MOD : p \in u .. v - 1} /\ \A p \in u .. v - 1 : Is(a.win[p % MOD], H, p)
    BY DEF Row
  <2>3. \A p \in u .. v - 1 : p = u \/ p \in u + 1 .. v - 1
    BY <1>1
  <2>4. DOMAIN b.win = DOMAIN a.win \ {sn} /\ \A x \in DOMAIN b.win : b.win[x] = a.win[x]
    <3>1. DOMAIN a.win \subseteq SN
      BY <1>4, WindowOf
    <3> QED
      BY <1>10, <3>1 DEF Keep
  <2> HIDE DEF sn
  <2>5. DOMAIN b.win = {p % MOD : p \in u + 1 .. v - 1}
    BY <2>1, <2>2, <2>3, <2>4 DEF sn
  <2>6. \A p \in u + 1 .. v - 1 : Is(b.win[p % MOD], H, p)
    BY <2>1, <2>2, <2>4, <2>5
  <2> QED
    BY <2>5, <2>6, Zenon DEF Row
<1> QED
  BY <1>6, <1>9, <1>11, <1>12

\* The numbers of the window that are left after k passes, at most.
Rows(m, H, v, u, k, B) ==
    {a \in Assemblies(m) : \E y \in u .. v : /\ y >= u + k \/ y = v
                                             /\ Ready(a, H, y, B) /\ Row(a.win, H, y, v)}

LEMMA RowsPass ==
    ASSUME NEW m \in Nat, NEW H, NEW n, History(H, n), NEW B, Bares(H, n, B), NEW u \in Nat, NEW v \in 0 .. n, u <= v,
           v - u < MOD, NEW k \in Nat \ {0}, NEW a \in Rows(m, H, v, u, k - 1, B)
    PROVE  Onward(a) \in Rows(m, H, v, u, k, B)
<1>1. PICK y \in u .. v : (y >= u + (k - 1) \/ y = v) /\ Ready(a, H, y, B) /\ Row(a.win, H, y, v)
  BY DEF Rows
<1>2. a \in Assemblies(m) /\ y \in Nat /\ v \in Nat /\ n \in Nat
  BY <1>1 DEF Rows, History
<1>3. CASE y = v
  <2>1. DOMAIN a.win = {}
    <3>1. \A p \in v .. v - 1 : FALSE
      BY <1>2
    <3> QED
      BY <1>1, <1>3, <3>1 DEF Row
  <2>2. Onward(a) = a
    BY <2>1 DEF Onward
  <2> QED
    BY <1>1, <1>2, <1>3, <2>2, Zenon DEF Rows
<1>4. CASE y # v
  <2>1. y < v /\ v - y < MOD
    BY <1>1, <1>2, <1>4, Sizes
  <2>2. Onward(a) \in Assemblies(m) /\ Ready(Onward(a), H, y + 1, B) /\ Row(Onward(a).win, H, y + 1, v)
    BY <1>1, <1>2, <2>1, OnwardReady
  <2>3. y + 1 \in u .. v /\ y + 1 >= u + k
    BY <1>1, <1>2, <1>4, <2>1
  <2> QED
    BY <2>2, <2>3, Zenon DEF Rows
<1> QED
  BY <1>3, <1>4

LEMMA ReassembleReady ==
    ASSUME NEW m \in Nat, NEW H, NEW n, History(H, n), NEW B, Bares(H, n, B), NEW u \in Nat, NEW v \in 0 .. n, u <= v,
           v - u < MOD, NEW a \in Assemblies(m), Ready(a, H, u, B), Row(a.win, H, u, v),
           NEW uh, inside_reordering_window(a.ur, uh, a.win)
    PROVE  Ready(Reassemble(a, uh), H, v, B) /\ DOMAIN Reassemble(a, uh).win = {}
<1> DEFINE T == [k \in 0 .. MOD |-> Rows(m, H, v, u, k, B)]
           b == Loop(Onward, a)
<1>1. MOD \in Nat /\ 0 \in 0 .. MOD /\ MOD \in 0 .. MOD /\ v \in Nat /\ n \in Nat
  BY Sizes DEF History
<1>2. \A k \in 1 .. MOD : k \in 0 .. MOD /\ k - 1 \in 0 .. MOD /\ k \in Nat \ {0}
  BY <1>1
<1>3. a \in T[0]
  <2>1. u \in u .. v /\ u >= u + 0
    BY <1>1
  <2>2. a \in Rows(m, H, v, u, 0, B)
    BY <2>1, Zenon DEF Rows
  <2> QED
    BY <1>1, <2>2
<1>4. \A k \in 1 .. MOD : \A c \in T[k - 1] : Onward(c) \in T[k]
  <2> SUFFICES ASSUME NEW k \in 1 .. MOD, NEW c \in T[k - 1] PROVE Onward(c) \in T[k]
    OBVIOUS
  <2>1. c \in Rows(m, H, v, u, k - 1, B)
    BY <1>2, Zenon
  <2>2. Onward(c) \in Rows(m, H, v, u, k, B)
    BY <1>2, <2>1, RowsPass
  <2> QED
    BY <1>2, <2>2, Zenon
<1> HIDE DEF T
<1>5. b \in T[MOD]
  BY <1>3, <1>4, LoopOnward, Zenon
<1>6. b \in Rows(m, H, v, u, MOD, B)
  BY <1>1, <1>5, Zenon DEF T
<1>7. Reassemble(a, uh) = b
  BY CatchUpNone, Zenon DEF Reassemble
<1> HIDE DEF b
<1>8. PICK y \in u .. v : (y >= u + MOD \/ y = v) /\ Ready(b, H, y, B) /\ Row(b.win, H, y, v)
  BY <1>6 DEF Rows
<1>9. y = v
  BY <1>1, <1>8
<1>10. DOMAIN b.win = {}
  <2>1. \A p \in v .. v - 1 : FALSE
    BY <1>1
  <2> QED
    BY <1>8, <1>9, <2>1 DEF Row
<1> QED
  BY <1>7, <1>8, <1>9, <1>10

\* The number after the highest.
LEMMA Highest ==
    ASSUME rx_window_size > 1, NEW h \in Nat, NEW p \in Nat, h - rx_window_size <= p, p < h + rx_window_size,
           NEW m, NEW win \in Windows(m), p % MOD \in DOMAIN win, NEW hh, hh = IF p < h THEN h ELSE p + 1
    PROVE  (IF inside_reordering_window(p % MOD, h % MOD, win) THEN h % MOD ELSE Shift(p % MOD, 1)) = hh % MOD
<1> DEFINE w == rx_window_size
           vh == h % MOD
           sn == p % MOD
<1>1. w \in Nat /\ MOD \in Nat /\ MOD = 2 * w /\ h \in Int /\ w > 1 /\ p \in Int /\ sn \in SN /\ vh \in SN
  BY Sizes, NumberType
<1>2. Far(sn, vh) = IF p < h THEN p - h + MOD ELSE p - h
  <2>1. -w <= p - h /\ p - h < w /\ w > 0
    BY <1>1
  <2> QED
    BY <1>1, <2>1, BaseNumber
<1>3. DOMAIN win # {} /\ w # 0
  BY <1>1
<1>4. Shift(sn, 1) = (p + 1) % MOD
  BY <1>1, NumberNext
<1> HIDE DEF vh, sn
<1>5. inside_reordering_window(sn, vh, win) <=> Far(sn, vh) >= w
  <2>1. inside_reordering_window(sn, vh, win) <=> w = 0 \/ DOMAIN win = {} \/ Far(sn, vh) >= w
    BY <1>1, InsideIs, Zenon
  <2> QED
    BY <1>3, <2>1, Zenon
<1>6. CASE p < h
  <2>1. p - h + MOD >= w
    BY <1>1
  <2>2. inside_reordering_window(sn, vh, win)
    BY <1>2, <1>5, <1>6, <2>1
  <2> QED
    BY <1>6, <2>2 DEF vh, sn
<1>7. CASE ~(p < h)
  <2>1. ~(p - h >= w)
    BY <1>1
  <2>2. ~inside_reordering_window(sn, vh, win)
    BY <1>2, <1>5, <1>7, <2>1
  <2> QED
    BY <1>4, <1>7, <2>2 DEF vh, sn
<1> QED
  BY <1>6, <1>7

\* A PDU that is at or after the next and not in the window is taken.
LEMMA HandleReady ==
    ASSUME rx_window_size > 1, UmInv, NEW u \in Nat, NEW h \in Nat, u <= h, h - rx_window_size <= u,
           vr_uh = h % MOD, assembly.ur = u % MOD,
           NEW pdu \in Pdus(taken), NEW p \in Nat, u <= p, p < u + rx_window_size, pdu.sn = p % MOD,
           pdu.sn \notin DOMAIN assembly.win, HandleDataPdu(pdu),
           NEW hh, hh = IF p < h THEN h ELSE p + 1,
           NEW b, b = [assembly EXCEPT !.win = Put(assembly.win, pdu.sn, pdu)]
    PROVE  /\ b \in Assemblies(taken) /\ b.ur = u % MOD /\ b.last = assembly.last /\ b.lost = assembly.lost
           /\ b.sdu = assembly.sdu /\ b.out = assembly.out /\ b.win = Put(assembly.win, pdu.sn, pdu)
           /\ inside_reordering_window(b.ur, hh % MOD, b.win)
           /\ lost' = lost /\ vr_uh' = hh % MOD /\ assembly' = Reassemble(b, hh % MOD)
<1> DEFINE w == rx_window_size
           sn == pdu.sn
           win == Put(assembly.win, sn, pdu)
           uh == IF inside_reordering_window(sn, vr_uh, win) THEN vr_uh ELSE Shift(sn, 1)
<1>1. /\ w \in Nat /\ MOD \in Nat /\ MOD = 2 * w /\ h \in Int /\ w > 1 /\ u \in Int /\ p \in Int
      /\ assembly \in Assemblies(taken) /\ assembly.win \in Windows(taken) /\ sn \in SN
  BY Sizes DEF UmInv, Tight, Assemblies, Pdus
<1>2. win \in Windows(taken) /\ DOMAIN win = DOMAIN assembly.win \union {sn}
  <2> HIDE DEF sn
  <2>1. Put(assembly.win, sn, pdu) \in Windows(taken)
    BY <1>1, PutWindow, Zenon
  <2>2. DOMAIN Put(assembly.win, sn, pdu) = DOMAIN assembly.win \union {sn}
    BY Zenon DEF Put
  <2> QED
    BY <2>1, <2>2, Zenon
<1>3. ~TooLate(sn)
  <2>1. RX_MOD_BASE(sn, vr_uh) = p - h + w
    <3>1. -w <= p - h /\ p - h < w
      BY <1>1
    <3>2. RX_MOD_BASE(p % MOD, h % MOD) = p - h + w
      BY <1>1, <3>1, BaseNumber
    <3> QED
      BY <3>2
  <2>2. RX_MOD_BASE(assembly.ur, vr_uh) = u - h + w
    <3>1. -w <= u - h /\ u - h < w
      BY <1>1
    <3>2. RX_MOD_BASE(u % MOD, h % MOD) = u - h + w
      BY <1>1, <3>1, BaseNumber
    <3> QED
      BY <3>2
  <2>3. ~(p - h + w < u - h + w)
    BY <1>1
  <2> QED
    BY <2>1, <2>2, <2>3 DEF TooLate
<1>4. uh = hh % MOD
  <2>1. h - w <= p /\ p < h + w /\ p % MOD \in DOMAIN win
    BY <1>1, <1>2
  <2>2. (IF inside_reordering_window(p % MOD, h % MOD, win) THEN h % MOD ELSE Shift(p % MOD, 1)) = hh % MOD
    <3> HIDE DEF win
    <3> QED
      BY <1>2, <2>1, Highest
  <2> QED
    BY <2>2
<1>5. /\ b \in Assemblies(taken) /\ b.ur = u % MOD /\ b.last = assembly.last /\ b.lost = assembly.lost
      /\ b.sdu = assembly.sdu /\ b.out = assembly.out /\ b.win = win
  <2> HIDE DEF win
  <2>1. b = [assembly EXCEPT !.win = win]
    BY DEF win
  <2> QED
    BY <1>1, <1>2, <2>1 DEF Assemblies
<1>6. lost' = lost /\ vr_uh' = uh /\ assembly' = Reassemble(b, uh)
  BY <1>3 DEF HandleDataPdu
<1>7. inside_reordering_window(b.ur, hh % MOD, b.win)
  <2>1. hh \in Int /\ u < hh /\ hh - w <= u
    BY <1>1
  <2>2. Far(u % MOD, hh % MOD) = u - hh + MOD
    <3>1. -w <= u - hh /\ u - hh < w /\ w > 0
      BY <1>1, <2>1
    <3> QED
      BY <1>1, <2>1, <3>1, BaseNumber
  <2>3. u - hh + MOD >= w
    BY <1>1, <2>1
  <2>4. u % MOD \in SN /\ hh % MOD \in SN
    BY <1>1, <2>1, NumberType
  <2> DEFINE x == u % MOD
             y == hh % MOD
  <2>5. x \in SN /\ y \in SN /\ Far(x, y) >= w /\ b.ur = x /\ b.win \in Windows(taken)
    BY <1>2, <1>5, <2>2, <2>3, <2>4
  <2> HIDE DEF x, y
  <2>6. inside_reordering_window(x, y, b.win)
    BY <2>5, InsideIs, Zenon
  <2> QED
    BY <2>5, <2>6 DEF y
<1> QED
  BY <1>4, <1>5, <1>6, <1>7

-----------------------------------------------------------------------------
(* The receiver has everything, but for a PDU that the next one has        *)
(* overtaken                                                               *)

Tidy(H, n, u) ==
    /\ n = u + Len(air) /\ vr_uh = u % MOD /\ Row(assembly.win, H, u, u)
    /\ \A i \in 1 .. Len(air) : ~air[i].late /\ Is(air[i], H, u + i - 1)

Swapped(H, n, u) ==
    /\ n = u + 1 + Len(air) /\ vr_uh = (u + 2) % MOD /\ Row(assembly.win, H, u + 1, u + 2)
    /\ 1 \in 1 .. Len(air) /\ air[1].late /\ Is(air[1], H, u)
    /\ \A i \in 2 .. Len(air) : ~air[i].late /\ Is(air[i], H, u + i)

Complete(H, n, u) ==
    /\ History(H, n) /\ H[n].cut = taken /\ H[n].begun = tx_sdu /\ vt_us = n % MOD
    /\ Bares(H, n, bare)
    /\ u \in 0 .. n /\ Ready(assembly, H, u, bare) /\ (Tidy(H, n, u) \/ Swapped(H, n, u))

Calm == ~disturbed => lost = {} /\ \E H, n, u : Complete(H, n, u)

LEMMA PutRow ==
    ASSUME NEW m, NEW win \in Windows(m), NEW H, NEW u \in Nat, NEW v \in Nat, u <= v, NEW p \in Nat,
           Row(win, H, u, v), (u = v /\ p = u) \/ p + 1 = u, NEW pdu, Is(pdu, H, p), pdu.sn \notin DOMAIN win
    PROVE  Row(Put(win, pdu.sn, pdu), H, p, IF u = v THEN p + 1 ELSE v)
<1> DEFINE z == IF u = v THEN p + 1 ELSE v
           sn == pdu.sn
           b == Put(win, sn, pdu)
<1>1. DOMAIN win = {x % MOD : x \in u .. v - 1} /\ (\A x \in u .. v - 1 : Is(win[x % MOD], H, x)) /\ sn = p % MOD
  BY DEF Row, Is
<1>2. DOMAIN b = DOMAIN win \union {sn} /\ b[sn] = pdu /\ \A x \in DOMAIN win : b[x] = win[x]
  BY DEF Put
<1> HIDE DEF b, sn
<1>3. CASE u = v
  <2>1. z = p + 1 /\ (\A x \in u .. v - 1 : FALSE) /\ (\A x \in p .. z - 1 : x = p) /\ p \in p .. z - 1
    BY <1>3
  <2> HIDE DEF z
  <2>2. DOMAIN b = {x % MOD : x \in p .. z - 1}
    BY <1>1, <1>2, <2>1
  <2>3. \A x \in p .. z - 1 : Is(b[x % MOD], H, x)
    BY <1>1, <1>2, <2>1
  <2>4. Row(b, H, p, z)
    BY <2>2, <2>3, Zenon DEF Row
  <2> QED
    BY <2>4 DEF b, z, sn
<1>4. CASE u # v /\ p + 1 = u /\ u <= v
  <2>1. z = v /\ (\A x \in p .. z - 1 : x = p \/ x \in u .. v - 1) /\ p \in p .. z - 1
        /\ (\A x \in u .. v - 1 : x \in p .. z - 1)
    BY <1>4
  <2> HIDE DEF z
  <2>2. DOMAIN b = {x % MOD : x \in p .. z - 1}
    BY <1>1, <1>2, <2>1
  <2>3. \A x \in p .. z - 1 : Is(b[x % MOD], H, x)
    <3> SUFFICES ASSUME NEW x \in p .. z - 1 PROVE Is(b[x % MOD], H, x)
      OBVIOUS
    <3>1. CASE x = p
      BY <1>1, <1>2, <3>1
    <3>2. CASE x \in u .. v - 1
      <4>1. x % MOD \in DOMAIN win
        BY <1>1, <3>2
      <4> QED
        BY <1>1, <1>2, <3>2, <4>1
    <3> QED
      BY <2>1, <3>1, <3>2
  <2>4. Row(b, H, p, z)
    BY <2>2, <2>3, Zenon DEF Row
  <2> QED
    BY <2>4 DEF b, z, sn
<1> QED
  BY <1>3, <1>4

LEMMA CalmTidy ==
    ASSUME rx_window_size > 1, UmInv, NEW H, NEW n, NEW u,
           Complete(H, n, u), Tidy(H, n, u), NEW i \in {1, 2}, PduArrives(i)
    PROVE  lost' = lost /\ \E v : Complete(H, n, v)'
<1> DEFINE w == rx_window_size
           l == Len(air)
           pdu == air[i]
           b == [assembly EXCEPT !.win = Put(assembly.win, pdu.sn, pdu)]
<1>1. taken' = taken /\ tx_sdu' = tx_sdu /\ vt_us' = vt_us /\ bare' = bare
  BY DEF PduArrives, tx
<1>2. /\ Shorter(air', air, i) /\ pdu \in Pdus(taken) /\ HandleDataPdu(pdu)
      /\ \A j \in 1 .. l : Lag(air', j) = IF j < i THEN 1 ELSE Lag(air, j + 1)
  BY ArrivesIs
<1>3. /\ l \in Nat /\ i \in 1 .. l /\ Len(air') = l - 1
      /\ \A j \in 1 .. Len(air') : Same(air'[j], air[From(j, i)])
  BY <1>2, Zenon DEF Shorter
<1>4. /\ History(H, n) /\ H[n].cut = taken /\ H[n].begun = tx_sdu /\ vt_us = n % MOD
      /\ Bares(H, n, bare) /\ u \in 0 .. n /\ Ready(assembly, H, u, bare)
  BY DEF Complete
<1>5. /\ n = u + l /\ vr_uh = u % MOD /\ Row(assembly.win, H, u, u)
      /\ \A j \in 1 .. l : ~air[j].late /\ Is(air[j], H, u + j - 1)
  BY DEF Tidy
<1>6. w \in Nat /\ w > 1 /\ MOD \in Nat /\ MOD = 2 * w /\ n \in Nat /\ u \in Nat /\ taken \in Nat
  BY <1>4, Sizes, TakenType DEF History
<1>7. assembly \in Assemblies(taken) /\ assembly.win \in Windows(taken) /\ assembly.ur = u % MOD
  BY <1>4 DEF UmInv, Tight, Assemblies, Ready
<1>8. DOMAIN assembly.win = {}
  <2>1. \A x \in u .. u - 1 : FALSE
    BY <1>6
  <2> QED
    BY <1>5, <2>1 DEF Row
<1>9. PICK p : p = u + i - 1
  OBVIOUS
<1>10. Is(pdu, H, p) /\ p \in Nat /\ u <= p /\ p < u + w /\ p + 1 \in 0 .. n
  <2>1. Is(pdu, H, p)
    BY <1>3, <1>5, <1>9
  <2> HIDE DEF l
  <2> QED
    BY <1>3, <1>5, <1>6, <1>9, <2>1
<1>11. PICK hh : hh = IF p < u THEN u ELSE p + 1
  OBVIOUS
<1>12. hh = p + 1
  BY <1>6, <1>10, <1>11
<1>13. /\ b \in Assemblies(taken) /\ b.ur = u % MOD /\ b.last = assembly.last /\ b.lost = assembly.lost
       /\ b.sdu = assembly.sdu /\ b.out = assembly.out /\ b.win = Put(assembly.win, pdu.sn, pdu)
       /\ inside_reordering_window(b.ur, hh % MOD, b.win)
       /\ lost' = lost /\ vr_uh' = hh % MOD /\ assembly' = Reassemble(b, hh % MOD)
  <2>1. u <= u /\ u - w <= u /\ pdu.sn = p % MOD /\ pdu.sn \notin DOMAIN assembly.win
    BY <1>6, <1>8, <1>10 DEF Is
  <2>2. b = [assembly EXCEPT !.win = Put(assembly.win, pdu.sn, pdu)]
    OBVIOUS
  <2> HIDE DEF pdu, b
  <2> QED
    <3>1. /\ rx_window_size > 1 /\ UmInv /\ u \in Nat /\ u <= u /\ u - rx_window_size <= u
          /\ vr_uh = u % MOD /\ assembly.ur = u % MOD /\ pdu \in Pdus(taken) /\ p \in Nat /\ u <= p
          /\ p < u + rx_window_size /\ pdu.sn = p % MOD /\ pdu.sn \notin DOMAIN assembly.win
          /\ HandleDataPdu(pdu) /\ hh = IF p < u THEN u ELSE p + 1
      BY <1>2, <1>5, <1>6, <1>7, <1>10, <1>11, <2>1
    <3> QED
      BY <2>2, <3>1, HandleReady
<1>14. Ready(b, H, u, bare)
  BY <1>4, <1>13 DEF Ready, belongs, All, Got, Begun
<1>15. Row(b.win, H, p, p + 1)
  <2>1. Row(Put(assembly.win, pdu.sn, pdu), H, p, p + 1)
    <3>1. DOMAIN assembly.win = {x % MOD : x \in p .. p - 1} /\ \A x \in p .. p - 1 : FALSE
      BY <1>8, <1>10
    <3>2. Row(assembly.win, H, p, p)
      BY <3>1 DEF Row
    <3> HIDE DEF pdu
    <3>3. Row(Put(assembly.win, pdu.sn, pdu), H, p, IF p = p THEN p + 1 ELSE p)
      <4>1. p <= p /\ pdu.sn \notin DOMAIN assembly.win
        BY <1>8, <1>10
      <4> QED
        BY <1>7, <1>10, <3>2, <4>1, PutRow, Zenon
    <3> QED
      BY <3>3
  <2> QED
    BY <1>13, <2>1
<1> HIDE DEF b, l, pdu
<1>16. ASSUME NEW j \in 1 .. l - 1
       PROVE  /\ air'[j].late <=> j < i
              /\ Is(air'[j], H, IF j < i THEN u + j - 1 ELSE u + j)
  <2>1. From(j, i) \in 1 .. l /\ j \in 1 .. l /\ j + 1 \in 1 .. l /\ j \in 1 .. Len(air')
    BY <1>3 DEF From
  <2>2. Is(air[From(j, i)], H, IF j < i THEN u + j - 1 ELSE u + j)
    <3>1. Is(air[From(j, i)], H, u + From(j, i) - 1)
      BY <1>5, <2>1
    <3>2. u + From(j, i) - 1 = IF j < i THEN u + j - 1 ELSE u + j
      BY <1>6 DEF From
    <3> QED
      BY <3>1, <3>2
  <2>3. Is(air'[j], H, IF j < i THEN u + j - 1 ELSE u + j)
    BY <1>3, <2>1, <2>2, SameIs
  <2>4. Lag(air, j + 1) = 0
    BY <1>5, <2>1 DEF Lag
  <2>5. Lag(air', j) = IF j < i THEN 1 ELSE 0
    BY <1>2, <2>1, <2>4 DEF l
  <2>6. air'[j].late <=> j < i
    BY <2>1, <2>5 DEF Lag
  <2> QED
    BY <2>3, <2>6
<1>17. CASE i = 1
  <2>1. p = u /\ u + 1 \in 0 .. n /\ u <= u + 1 /\ (u + 1) - u < MOD /\ u + 1 \in Nat
    BY <1>6, <1>9, <1>10, <1>17
  <2> DEFINE v == u + 1
  <2>2. v \in 0 .. n /\ u <= v /\ v - u < MOD /\ Row(b.win, H, u, v) /\ hh = v /\ v \in Nat
    BY <1>12, <1>15, <2>1
  <2>3. n = v + (l - 1) /\ \A j \in 1 .. l - 1 : ~(j < i) /\ u + j = v + j - 1
    BY <1>3, <1>5, <1>6, <1>17
  <2> HIDE DEF v
  <2>4. Ready(assembly', H, v, bare) /\ DOMAIN assembly'.win = {}
    <3>1. Ready(Reassemble(b, hh % MOD), H, v, bare) /\ DOMAIN Reassemble(b, hh % MOD).win = {}
      <4> DEFINE r == hh % MOD
      <4>1. inside_reordering_window(b.ur, r, b.win) /\ b \in Assemblies(taken)
        BY <1>13
      <4>2. /\ taken \in Nat /\ History(H, n) /\ Bares(H, n, bare) /\ u \in Nat /\ v \in 0 .. n /\ u <= v
            /\ v - u < MOD /\ Ready(b, H, u, bare) /\ Row(b.win, H, u, v)
        BY <1>4, <1>6, <1>14, <2>2
      <4> HIDE DEF r
      <4>3. Ready(Reassemble(b, r), H, v, bare) /\ DOMAIN Reassemble(b, r).win = {}
        BY <4>1, <4>2, ReassembleReady
      <4> QED
        BY <4>3 DEF r
    <3> QED
      BY <1>13, <3>1, Zenon
  <2>5. Row(assembly'.win, H, v, v)
    <3>1. \A x \in v .. v - 1 : FALSE
      BY <2>2
    <3> QED
      BY <2>4, <3>1 DEF Row
  <2>6. \A j \in 1 .. l - 1 : ~air'[j].late /\ Is(air'[j], H, v + j - 1)
    BY <1>16, <2>3
  <2>7. Tidy(H, n, v)'
    BY <1>3, <1>13, <2>2, <2>3, <2>5, <2>6 DEF Tidy, l
  <2>8. Complete(H, n, v)'
    BY <1>1, <1>4, <2>2, <2>4, <2>7, Zenon DEF Complete
  <2> QED
    BY <1>13, <2>8, Zenon
<1>18. CASE i = 2
  <2>1. p = u + 1 /\ hh = u + 2 /\ p + 1 = u + 2
    BY <1>6, <1>9, <1>12, <1>18
  <2>2. b.ur \notin DOMAIN b.win
    <3>1. DOMAIN b.win = {x % MOD : x \in p .. p + 1 - 1} /\ \A x \in p .. p + 1 - 1 : x = p
      BY <1>10, <1>15 DEF Row
    <3>2. u % MOD # p % MOD
      <4>1. u \in Int /\ p \in Int /\ u # p /\ u - p < MOD /\ p - u < MOD
        BY <1>6, <1>10, <2>1
      <4> QED
        BY <4>1, NumberSame
    <3> QED
      BY <1>13, <3>1, <3>2
  <2>3. assembly' = b
    <3>1. Reassemble(b, hh % MOD) = b
      BY <1>13, <2>2, CatchUpNone, OnwardNone, Zenon DEF Reassemble
    <3> QED
      BY <1>13, <3>1
  <2>4. Row(b.win, H, u + 1, u + 2)
    BY <1>15, <2>1
  <2>5. n = u + 1 + (l - 1) /\ 1 \in 1 .. l - 1
    BY <1>3, <1>5, <1>6, <1>18
  <2>6. air'[1].late /\ Is(air'[1], H, u)
    <3>1. 1 < i /\ u + 1 - 1 = u
      BY <1>6, <1>18
    <3> QED
      BY <1>16, <2>5, <3>1
  <2>7. \A j \in 2 .. l - 1 : ~air'[j].late /\ Is(air'[j], H, u + j)
    <3> SUFFICES ASSUME NEW j \in 2 .. l - 1 PROVE ~air'[j].late /\ Is(air'[j], H, u + j)
      OBVIOUS
    <3>1. j \in 1 .. l - 1 /\ ~(j < i)
      BY <1>3, <1>18
    <3> QED
      BY <1>16, <3>1
  <2>8. Swapped(H, n, u)'
    BY <1>3, <1>13, <2>1, <2>3, <2>4, <2>5, <2>6, <2>7 DEF Swapped
  <2>9. Complete(H, n, u)'
    BY <1>1, <1>4, <1>14, <2>3, <2>8, Zenon DEF Complete
  <2> QED
    BY <1>13, <2>9, Zenon
<1> QED
  BY <1>17, <1>18

LEMMA CalmSwapped ==
    ASSUME rx_window_size > 1, UmInv, NEW H, NEW n, NEW u,
           Complete(H, n, u), Swapped(H, n, u), NEW i \in {1, 2}, PduArrives(i)
    PROVE  lost' = lost /\ \E v : Complete(H, n, v)'
<1> DEFINE w == rx_window_size
           l == Len(air)
           pdu == air[1]
           b == [assembly EXCEPT !.win = Put(assembly.win, pdu.sn, pdu)]
<1>1. taken' = taken /\ tx_sdu' = tx_sdu /\ vt_us' = vt_us /\ bare' = bare
  BY DEF PduArrives, tx
<1>2. /\ Shorter(air', air, i) /\ air[i] \in Pdus(taken) /\ HandleDataPdu(air[i]) /\ (i = 2 => Lag(air, 1) = 0)
      /\ \A j \in 1 .. l : Lag(air', j) = IF j < i THEN 1 ELSE Lag(air, j + 1)
  BY ArrivesIs
<1>3. /\ History(H, n) /\ H[n].cut = taken /\ H[n].begun = tx_sdu /\ vt_us = n % MOD
      /\ Bares(H, n, bare) /\ u \in 0 .. n /\ Ready(assembly, H, u, bare)
  BY DEF Complete
<1>4. /\ n = u + 1 + l /\ vr_uh = (u + 2) % MOD /\ Row(assembly.win, H, u + 1, u + 2)
      /\ 1 \in 1 .. l /\ air[1].late /\ Is(air[1], H, u)
      /\ \A j \in 2 .. l : ~air[j].late /\ Is(air[j], H, u + j)
  BY DEF Swapped
<1>5. i = 1 /\ pdu \in Pdus(taken) /\ HandleDataPdu(pdu) /\ Is(pdu, H, u)
  <2>1. Lag(air, 1) = 1
    BY <1>4 DEF Lag
  <2> QED
    BY <1>2, <1>4, <2>1
<1>6. /\ l \in Nat /\ Len(air') = l - 1
      /\ \A j \in 1 .. Len(air') : Same(air'[j], air[j + 1])
  <2>1. l \in Nat /\ Len(air') = l - 1 /\ \A j \in 1 .. Len(air') : Same(air'[j], air[From(j, i)])
    BY <1>2, Zenon DEF Shorter
  <2>2. \A j \in 1 .. Len(air') : From(j, i) = j + 1
    BY <1>5, <2>1 DEF From
  <2> QED
    BY <2>1, <2>2
<1>7. w \in Nat /\ w > 1 /\ MOD \in Nat /\ MOD = 2 * w /\ n \in Nat /\ u \in Nat /\ taken \in Nat
  BY <1>3, Sizes, TakenType DEF History
<1>8. assembly \in Assemblies(taken) /\ assembly.win \in Windows(taken) /\ assembly.ur = u % MOD
  BY <1>3 DEF UmInv, Tight, Assemblies, Ready
<1>9. DOMAIN assembly.win = {(u + 1) % MOD}
  <2>1. \A x \in u + 1 .. (u + 2) - 1 : x = u + 1
    BY <1>7
  <2>2. u + 1 \in u + 1 .. (u + 2) - 1
    BY <1>7
  <2>3. DOMAIN assembly.win = {x % MOD : x \in u + 1 .. (u + 2) - 1}
    BY <1>4 DEF Row
  <2> QED
    BY <2>1, <2>2, <2>3
<1>10. pdu.sn = u % MOD /\ pdu.sn \notin DOMAIN assembly.win
  <2>1. pdu.sn = u % MOD
    BY <1>5 DEF Is
  <2> DEFINE x == u + 1
  <2>2. u \in Int /\ x \in Int /\ u # x /\ u - x < MOD /\ x - u < MOD
    BY <1>7
  <2>3. DOMAIN assembly.win = {x % MOD}
    BY <1>9
  <2> HIDE DEF x
  <2>4. u % MOD # x % MOD
    BY <2>2, NumberSame
  <2> QED
    BY <2>1, <2>3, <2>4
<1>11. PICK h : h = u + 2
  OBVIOUS
<1>12. h \in Nat /\ u <= h /\ h - w <= u /\ u < u + w /\ u < h /\ h \in 0 .. n /\ h - u < MOD /\ vr_uh = h % MOD
  <2> HIDE DEF l
  <2> QED
    BY <1>4, <1>6, <1>7, <1>11
<1>13. /\ b \in Assemblies(taken) /\ b.ur = u % MOD /\ b.last = assembly.last /\ b.lost = assembly.lost
       /\ b.sdu = assembly.sdu /\ b.out = assembly.out /\ b.win = Put(assembly.win, pdu.sn, pdu)
       /\ inside_reordering_window(b.ur, h % MOD, b.win)
       /\ lost' = lost /\ vr_uh' = h % MOD /\ assembly' = Reassemble(b, h % MOD)
  <2>1. b = [assembly EXCEPT !.win = Put(assembly.win, pdu.sn, pdu)]
    OBVIOUS
  <2>2. h = IF u < h THEN h ELSE u + 1
    BY <1>12
  <2> HIDE DEF pdu, b
  <2>3. /\ rx_window_size > 1 /\ UmInv /\ u \in Nat /\ h \in Nat /\ u <= h /\ h - rx_window_size <= u
        /\ vr_uh = h % MOD /\ assembly.ur = u % MOD /\ pdu \in Pdus(taken) /\ u <= u
        /\ u < u + rx_window_size /\ pdu.sn = u % MOD /\ pdu.sn \notin DOMAIN assembly.win
        /\ HandleDataPdu(pdu) /\ h = IF u < h THEN h ELSE u + 1
    BY <1>5, <1>7, <1>8, <1>10, <1>12, <2>2
  <2> QED
    BY <2>1, <2>3, HandleReady
<1>14. Ready(b, H, u, bare)
  BY <1>3, <1>13 DEF Ready, belongs, All, Got, Begun
<1>15. Row(b.win, H, u, h)
  <2> DEFINE x == u + 1
  <2>1. x \in Nat /\ x <= h /\ u + 1 = x /\ Row(assembly.win, H, x, h) /\ x # h
    BY <1>4, <1>7, <1>11
  <2> HIDE DEF pdu, x
  <2>2. Row(Put(assembly.win, pdu.sn, pdu), H, u, IF x = h THEN u + 1 ELSE h)
    BY <1>5, <1>7, <1>8, <1>10, <1>12, <2>1, PutRow
  <2> QED
    BY <1>13, <2>1, <2>2
<1> HIDE DEF b, l, pdu
<1>16. Ready(assembly', H, h, bare) /\ DOMAIN assembly'.win = {}
  <2> DEFINE r == h % MOD
  <2>1. inside_reordering_window(b.ur, r, b.win) /\ b \in Assemblies(taken)
    BY <1>13
  <2>2. /\ taken \in Nat /\ History(H, n) /\ Bares(H, n, bare) /\ u \in Nat /\ h \in 0 .. n /\ u <= h
        /\ h - u < MOD /\ Ready(b, H, u, bare) /\ Row(b.win, H, u, h)
    BY <1>3, <1>7, <1>12, <1>14, <1>15
  <2> HIDE DEF r
  <2>3. Ready(Reassemble(b, r), H, h, bare) /\ DOMAIN Reassemble(b, r).win = {}
    BY <2>1, <2>2, ReassembleReady
  <2>4. Ready(Reassemble(b, h % MOD), H, h, bare) /\ DOMAIN Reassemble(b, h % MOD).win = {}
    BY <2>3 DEF r
  <2> QED
    BY <1>13, <2>4, Zenon
<1>17. Row(assembly'.win, H, h, h)
  <2>1. \A x \in h .. h - 1 : FALSE
    BY <1>12
  <2> QED
    BY <1>16, <2>1 DEF Row
<1>18. ASSUME NEW j \in 1 .. l - 1 PROVE ~air'[j].late /\ Is(air'[j], H, h + j - 1)
  <2>1. j + 1 \in 2 .. l /\ j + 1 \in 1 .. l /\ j \in 1 .. l /\ j \in 1 .. Len(air') /\ u + (j + 1) = h + j - 1 /\ ~(j < i)
    BY <1>5, <1>6, <1>7, <1>11
  <2>2. ~air[j + 1].late /\ Is(air[j + 1], H, h + j - 1)
    BY <1>4, <2>1
  <2>3. Is(air'[j], H, h + j - 1)
    BY <1>6, <2>1, <2>2, SameIs
  <2>4. Lag(air', j) = 0
    BY <1>2, <2>1, <2>2 DEF Lag, l
  <2>5. ~air'[j].late
    BY <2>1, <2>4 DEF Lag
  <2> QED
    BY <2>3, <2>5
<1>19. n = h + (l - 1)
  BY <1>4, <1>6, <1>7, <1>11
<1>20. Tidy(H, n, h)'
  BY <1>6, <1>13, <1>17, <1>18, <1>19 DEF Tidy
<1>21. Complete(H, n, h)'
  BY <1>1, <1>3, <1>12, <1>16, <1>20, Zenon DEF Complete
<1> QED
  BY <1>13, <1>21, Zenon

\* What came out is still there when more SDUs were begun with none of their bytes.
LEMMA AllMore ==
    ASSUME NEW a, NEW H, NEW u, NEW B, NEW C, B \subseteq C, Ready(a, H, u, B) PROVE Ready(a, H, u, C)
<1>1. All(a, H[u].cut, C)
  <2>1. All(a, H[u].cut, B)
    BY DEF Ready
  <2> QED
    BY <2>1, Zenon DEF All
<1> QED
  BY <1>1 DEF Ready

LEMMA CalmBuilds ==
    ASSUME UmInv, NEW H, NEW n, NEW u, Complete(H, n, u),
           NEW room \in Grants, NEW brink \in {FALSE, Brink}, BuildDataPdu(room, brink)
    PROVE  \E G, m : Complete(G, m, u)'
<1> DEFINE l == Len(air)
<1>1. vr_uh' = vr_uh /\ assembly' = assembly
  BY DEF BuildDataPdu, rx
<1>2. /\ History(H, n) /\ H[n].cut = taken /\ H[n].begun = tx_sdu /\ vt_us = n % MOD
      /\ Bares(H, n, bare) /\ u \in 0 .. n /\ Ready(assembly, H, u, bare) /\ (Tidy(H, n, u) \/ Swapped(H, n, u))
  BY DEF Complete
<1>3. n \in Nat /\ u \in Nat /\ u \in 0 .. n
  BY <1>2 DEF History
<1>4. PICK m : m = n + 1
  OBVIOUS
<1>5. /\ vt_us' = (n + 1) % MOD
      /\ bare \subseteq bare' /\ (tx_sdu' /\ Begins(taken') => taken' \in bare')
      /\ \E G, e : /\ History(G, n + 1) /\ G[n + 1].cut = taken' /\ G[n + 1].begun = tx_sdu'
                   /\ Agrees(G, H, n) /\ air' = Append(air, e) /\ ~e.late /\ Is(e, G, n)
  BY <1>2, BuildIs
<1>6. PICK G, e : /\ History(G, n + 1) /\ G[n + 1].cut = taken' /\ G[n + 1].begun = tx_sdu'
                  /\ Agrees(G, H, n) /\ air' = Append(air, e) /\ ~e.late /\ Is(e, G, n)
  BY <1>5, Zenon
<1>7. /\ History(G, m) /\ G[m].cut = taken' /\ G[m].begun = tx_sdu' /\ vt_us' = m % MOD
      /\ (\A p \in 0 .. n : G[p] = H[p]) /\ u \in 0 .. m
  BY <1>3, <1>4, <1>5, <1>6 DEF Agrees
<1>15. Bares(G, m, bare')
  <2>1. \A p \in 0 .. m : p \in 0 .. n \/ p = m
    BY <1>3, <1>4
  <2> QED
    BY <1>2, <1>5, <1>7, <2>1, Zenon DEF Bares
<1>8. /\ l \in Nat /\ Len(air') = l + 1 /\ (\A j \in 1 .. l : air'[j] = air[j]) /\ air'[l + 1] = e
  <2>1. PICK S : air \in Seq(S)
    BY DEF UmInv
  <2>2. l \in Nat
    BY <2>1
  <2>3. Len(Append(air, e)) = l + 1 /\ (\A j \in 1 .. l : Append(air, e)[j] = air[j]) /\ Append(air, e)[l + 1] = e
    BY <2>1
  <2> QED
    BY <1>6, <2>2, <2>3
<1>9. Ready(assembly, G, u, bare')
  <2>1. Ready(assembly, G, u, bare)
    BY <1>2, <1>3, <1>7 DEF Ready
  <2> QED
    BY <1>5, <2>1, AllMore
<1>10. ASSUME NEW x \in 0 .. n - 1, NEW d, Is(d, H, x) PROVE Is(d, G, x)
  BY <1>3, <1>7, <1>10, IsSame
<1>11. ASSUME NEW a, NEW c, Row(assembly.win, H, a, c), a \in Nat, c \in Int, c <= n PROVE Row(assembly.win, G, a, c)
  <2>1. \A x \in a .. c - 1 : x \in 0 .. n - 1
    BY <1>3, <1>11
  <2> QED
    BY <1>10, <1>11, <2>1, Zenon DEF Row
<1> HIDE DEF l
<1>12. \A j \in 1 .. l + 1 : j \in 1 .. l \/ j = l + 1
  BY <1>8
<1>13. CASE Tidy(H, n, u)
  <2>1. /\ n = u + l /\ vr_uh = u % MOD /\ Row(assembly.win, H, u, u)
        /\ \A i \in 1 .. l : ~air[i].late /\ Is(air[i], H, u + i - 1)
    BY <1>13 DEF Tidy, l
  <2>2. Row(assembly.win, G, u, u)
    BY <1>3, <1>11, <2>1
  <2>3. ASSUME NEW i \in 1 .. l + 1 PROVE ~air'[i].late /\ Is(air'[i], G, u + i - 1)
    <3>1. CASE i \in 1 .. l
      <4>1. u + i - 1 \in 0 .. n - 1
        BY <1>3, <1>8, <2>1, <3>1
      <4>2. Is(air[i], G, u + i - 1)
        BY <1>10, <2>1, <3>1, <4>1
      <4> QED
        BY <1>8, <2>1, <3>1, <4>2
    <3>2. CASE i = l + 1
      <4>1. u + i - 1 = n
        BY <1>3, <1>8, <2>1, <3>2
      <4> QED
        BY <1>6, <1>8, <3>2, <4>1
    <3> QED
      BY <1>12, <3>1, <3>2
  <2>4. m = u + (l + 1)
    BY <1>3, <1>4, <1>8, <2>1
  <2>5. Tidy(G, m, u)'
    BY <1>1, <1>8, <2>1, <2>2, <2>3, <2>4 DEF Tidy
  <2>6. Complete(G, m, u)'
    BY <1>1, <1>7, <1>9, <1>15, <2>5, Zenon DEF Complete
  <2> QED
    BY <2>6, Zenon
<1>14. CASE Swapped(H, n, u)
  <2>1. /\ n = u + 1 + l /\ vr_uh = (u + 2) % MOD /\ Row(assembly.win, H, u + 1, u + 2)
        /\ 1 \in 1 .. l /\ air[1].late /\ Is(air[1], H, u)
        /\ \A i \in 2 .. l : ~air[i].late /\ Is(air[i], H, u + i)
    BY <1>14 DEF Swapped, l
  <2>2. Row(assembly.win, G, u + 1, u + 2)
    <3>1. u + 1 \in Nat /\ u + 2 \in Int /\ u + 2 <= n
      BY <1>3, <1>8, <2>1
    <3> QED
      BY <1>11, <2>1, <3>1
  <2>3. 1 \in 1 .. l + 1 /\ air'[1].late /\ Is(air'[1], G, u)
    <3>1. u \in 0 .. n - 1 /\ 1 \in 1 .. l + 1
      BY <1>3, <1>8, <2>1
    <3>2. Is(air[1], G, u)
      BY <1>10, <2>1, <3>1
    <3> QED
      BY <1>8, <2>1, <3>1, <3>2
  <2>4. ASSUME NEW i \in 2 .. l + 1 PROVE ~air'[i].late /\ Is(air'[i], G, u + i)
    <3>1. CASE i \in 2 .. l
      <4>1. u + i \in 0 .. n - 1 /\ i \in 1 .. l
        BY <1>3, <1>8, <2>1, <3>1
      <4>2. Is(air[i], G, u + i)
        BY <1>10, <2>1, <3>1, <4>1
      <4> QED
        BY <1>8, <2>1, <3>1, <4>1, <4>2
    <3>2. CASE i = l + 1
      <4>1. u + i = n
        BY <1>3, <1>8, <2>1, <3>2
      <4> QED
        BY <1>6, <1>8, <3>2, <4>1
    <3>3. i \in 2 .. l \/ i = l + 1
      BY <1>8
    <3> QED
      BY <3>1, <3>2, <3>3
  <2>5. m = u + 1 + (l + 1)
    BY <1>3, <1>4, <1>8, <2>1
  <2>6. Swapped(G, m, u)'
    BY <1>1, <1>8, <2>1, <2>2, <2>3, <2>4, <2>5 DEF Swapped
  <2>7. Complete(G, m, u)'
    BY <1>1, <1>7, <1>9, <1>15, <2>6, Zenon DEF Complete
  <2> QED
    BY <2>7, Zenon
<1> QED
  BY <1>2, <1>13, <1>14

LEMMA CalmInit == UmInit => Calm
<1> SUFFICES ASSUME UmInit PROVE Calm
  OBVIOUS
<1>1. /\ taken = 0 /\ tx_sdu = FALSE /\ vt_us = 0 /\ air = <<>> /\ lost = {} /\ vr_uh = 0
      /\ assembly = [ur |-> 0, last |-> 0, lost |-> FALSE, win |-> <<>>, sdu |-> <<>>, out |-> <<>>]
  BY DEF UmInit
<1> DEFINE H == [p \in 0 .. 0 |-> [cut |-> 0, begun |-> FALSE]]
<1>2. 0 % MOD = 0 /\ Begins(0)
  <2>1. 0 \in 0 .. MOD - 1 /\ 0 \in 0 .. SduUnits - 1
    BY Sizes, StreamSizes
  <2> QED
    BY <2>1, Sizes, StreamSizes, ModSmall DEF Begins
<1>3. H[0].cut = 0 /\ H[0].begun = FALSE /\ H \in [0 .. 0 -> [cut : Nat, begun : BOOLEAN]]
  OBVIOUS
<1> HIDE DEF H
<1>4. \A p \in 0 .. 0 : p = 0
  OBVIOUS
<1>5. History(H, 0)
  BY <1>2, <1>3, <1>4 DEF History
<1>15. Bares(H, 0, bare)
  BY <1>3, <1>4 DEF Bares
<1>6. assembly.sdu = Units(0, 0) /\ assembly.out = <<>> /\ assembly.lost = FALSE
  <2>1. Units(0, 0) = <<>>
    BY UnitsNone
  <2> QED
    BY <1>1, <2>1
<1>7. Got(assembly, 0)
  <2>1. assembly.sdu = <<>> /\ Outs(assembly.out, 0, 0)
    BY <1>1, <1>6, OutsNone
  <2> QED
    BY <2>1 DEF Got
<1>8. All(assembly, 0, bare)
  <2>1. \A e \in Nat : ~(e + SduUnits <= 0)
    BY StreamSizes
  <2>2. 0 \in Nat /\ 0 <= 0 /\ 0 < 0 + SduUnits
    BY StreamSizes
  <2> QED
    BY <1>2, <1>6, <1>7, <2>1, <2>2, Zenon DEF All
<1>9. Ready(assembly, H, 0, bare)
  <2>1. assembly.ur = 0 % MOD /\ belongs(assembly)
    BY <1>1, <1>2 DEF belongs
  <2> QED
    BY <1>3, <1>8, <2>1 DEF Ready
<1>10. Len(air) = 0 /\ DOMAIN assembly.win = {}
  BY <1>1
<1>11. (\A p \in 0 .. 0 - 1 : FALSE) /\ (\A p \in 1 .. 0 : FALSE) /\ 0 = 0 + 0 /\ 0 \in 0 .. 0
  OBVIOUS
<1>12. Row(assembly.win, H, 0, 0)
  BY <1>10, <1>11 DEF Row
<1>13. Tidy(H, 0, 0)
  BY <1>1, <1>2, <1>10, <1>11, <1>12 DEF Tidy
<1>14. Complete(H, 0, 0)
  BY <1>1, <1>2, <1>3, <1>5, <1>9, <1>11, <1>13, <1>15 DEF Complete
<1> QED
  BY <1>1, <1>14, Zenon DEF Calm

LEMMA CalmIdle ==
    ASSUME Calm, UNCHANGED <<taken, tx_sdu, vt_us, bare, air, lost, disturbed, vr_uh, assembly>> PROVE Calm'
BY DEF Calm, Complete, Tidy, Swapped

LEMMA CalmStep ==
    ASSUME rx_window_size > 1, UmInv, Calm, [Next]_vars PROVE Calm'
<1>1. ASSUME WriteSdu PROVE Calm'
  <2>1. UNCHANGED <<taken, tx_sdu, vt_us, bare, air, lost, disturbed, vr_uh, assembly>>
    BY <1>1 DEF WriteSdu, link, rx
  <2> QED
    BY <2>1, CalmIdle
<1>2. ASSUME NEW room \in Grants, NEW brink \in {FALSE, Brink}, BuildDataPdu(room, brink) PROVE Calm'
  <2>1. lost' = lost /\ disturbed' = disturbed
    BY <1>2 DEF BuildDataPdu
  <2>2. ASSUME ~disturbed PROVE lost = {} /\ \E H, n, u : Complete(H, n, u)'
    <3>1. PICK H, n, u : lost = {} /\ Complete(H, n, u)
      BY <2>2, Zenon DEF Calm
    <3>2. \E G, m : Complete(G, m, u)'
      BY <1>2, <3>1, CalmBuilds
    <3> QED
      BY <3>1, <3>2, Zenon
  <2> QED
    BY <2>1, <2>2, Zenon DEF Calm
<1>3. ASSUME NEW i \in {1, 2}, PduArrives(i) PROVE Calm'
  <2>1. disturbed' = disturbed
    BY <1>3 DEF PduArrives
  <2>2. ASSUME ~disturbed PROVE lost' = {} /\ \E H, n, u : Complete(H, n, u)'
    <3>1. PICK H, n, u : lost = {} /\ Complete(H, n, u)
      BY <2>2, Zenon DEF Calm
    <3>2. Tidy(H, n, u) \/ Swapped(H, n, u)
      BY <3>1, Zenon DEF Complete
    <3>3. CASE Tidy(H, n, u)
      <4>1. lost' = lost /\ \E v : Complete(H, n, v)'
        BY <1>3, <3>1, <3>3, CalmTidy
      <4> QED
        BY <3>1, <4>1, Zenon
    <3>4. CASE Swapped(H, n, u)
      <4>1. lost' = lost /\ \E v : Complete(H, n, v)'
        BY <1>3, <3>1, <3>4, CalmSwapped
      <4> QED
        BY <3>1, <4>1, Zenon
    <3> QED
      BY <3>2, <3>3, <3>4, Zenon
  <2> QED
    BY <2>1, <2>2, Zenon DEF Calm
<1>4. ASSUME TimerStep PROVE Calm'
  <2>1. UNCHANGED <<taken, tx_sdu, vt_us, bare, air, lost, disturbed, vr_uh, assembly>>
    BY <1>4 DEF TimerStep, tx, link
  <2> QED
    BY <2>1, CalmIdle
<1>5. ASSUME TimerExpired PROVE Calm'
  BY <1>5, Zenon DEF TimerExpired, Calm
<1>6. ASSUME NEW i \in 1 .. MaxAir, LosePdu(i) PROVE Calm'
  BY <1>6, Zenon DEF LosePdu, Calm
<1>7. ASSUME UNCHANGED vars PROVE Calm'
  <2>1. UNCHANGED <<taken, tx_sdu, vt_us, bare, air, lost, disturbed, vr_uh, assembly>>
    BY <1>7 DEF vars, tx, link, rx
  <2> QED
    BY <2>1, CalmIdle
<1> QED
  BY <1>1, <1>2, <1>3, <1>4, <1>5, <1>6, <1>7, Zenon DEF Next

\* A PDU that was sent and not yet copied is under way or waits.
LEMMA CalmWhere ==
    ASSUME UmInv, NEW H, NEW n, NEW u, Complete(H, n, u), NEW p \in u .. n - 1
    PROVE  \/ \E i \in 1 .. Len(air) : Is(air[i], H, p)
           \/ p % MOD \in DOMAIN assembly.win /\ Is(assembly.win[p % MOD], H, p)
<1> DEFINE l == Len(air)
<1>1. n \in Nat /\ u \in Nat
  BY DEF Complete, History
<1>2. l \in Nat
  <2>1. PICK S : air \in Seq(S)
    BY DEF UmInv
  <2> QED
    BY <2>1
<1> HIDE DEF l
<1>3. CASE Tidy(H, n, u)
  <2>1. n = u + l /\ \A i \in 1 .. l : Is(air[i], H, u + i - 1)
    BY <1>3 DEF Tidy, l
  <2>2. PICK i : i = p - u + 1
    OBVIOUS
  <2>3. i \in 1 .. l /\ u + i - 1 = p
    BY <1>1, <1>2, <2>1, <2>2
  <2> QED
    BY <2>1, <2>3 DEF l
<1>4. CASE Swapped(H, n, u)
  <2>1. /\ n = u + 1 + l /\ Row(assembly.win, H, u + 1, u + 2)
        /\ 1 \in 1 .. l /\ Is(air[1], H, u) /\ \A i \in 2 .. l : Is(air[i], H, u + i)
    BY <1>4 DEF Swapped, l
  <2>2. CASE p = u
    BY <2>1, <2>2 DEF l
  <2>3. CASE p = u + 1
    <3>1. p \in u + 1 .. u + 2 - 1
      BY <1>1, <2>3
    <3>2. Row(assembly.win, H, u + 1, u + 2)
      BY <2>1
    <3> DEFINE lo == u + 1
               hi == u + 2
    <3> HIDE DEF lo, hi
    <3>3. Row(assembly.win, H, lo, hi) /\ p \in lo .. hi - 1
      BY <1>1, <3>1, <3>2 DEF lo, hi
    <3>4. p % MOD \in DOMAIN assembly.win
      BY <3>3, Zenon DEF Row
    <3>5. Is(assembly.win[p % MOD], H, p)
      BY <3>3, Zenon DEF Row
    <3> QED
      BY <3>4, <3>5
  <2>4. CASE p # u /\ p # u + 1
    <3>1. PICK i : i = p - u
      OBVIOUS
    <3>2. i \in 2 .. l /\ u + i = p /\ i \in 1 .. l
      BY <1>1, <1>2, <2>1, <2>4, <3>1
    <3> QED
      BY <2>1, <3>2 DEF l
  <2> QED
    BY <2>2, <2>3, <2>4
<1> QED
  BY <1>3, <1>4, Zenon DEF Complete

LEMMA CalmComplete == ASSUME UmInv, Calm PROVE CompleteIfUndisturbed
<1> DEFINE s == SduUnits
<1>1. taken \in Nat /\ s \in Nat /\ s > 0 /\ air \in Seq(Pdus(taken)) /\ assembly \in Assemblies(taken)
  BY TakenType, StreamSizes DEF UmInv, Tight
<1> SUFFICES ASSUME ~disturbed PROVE lost = {} /\ \A k \in 0 .. taken \div SduUnits - 1 : k * SduUnits \in bare \/ CameOut(k)
  BY Zenon DEF CompleteIfUndisturbed
<1>2. PICK H, n, u : lost = {} /\ Complete(H, n, u)
  BY Zenon DEF Calm
<1>3. /\ History(H, n) /\ H[n].cut = taken /\ n \in Nat /\ u \in 0 .. n
      /\ All(assembly, H[u].cut, bare)
  BY <1>2 DEF Complete, Ready, History
<1>4. H[u].cut \in Nat
  BY <1>3, HistoryCuts
<1>5. PICK b \in Nat : /\ Begins(b) /\ b <= H[u].cut /\ H[u].cut < b + SduUnits
                       /\ \A e \in Nat : Begins(e) /\ e + SduUnits <= b
                                           => e \in bare \/ Units(e, e + SduUnits) \in Range(assembly.out)
  BY <1>3, Zenon DEF All
<1>6. ASSUME NEW k \in 0 .. taken \div SduUnits - 1 PROVE k * SduUnits \in bare \/ CameOut(k)
  <2> DEFINE e == k * s
  <2>1. /\ e \in Nat /\ Begins(e) /\ e + s <= taken /\ Sdu(k) = Units(e, e + s)
    <3>1. k \in Nat /\ e \in Int /\ Begins(e)
      BY BeginsTimes
    <3>2. e >= 0
      <4>1. 0 * s = 0 /\ 0 <= k
        BY <1>1
      <4> QED
        BY <1>1, <3>1, <4>1, TimesOrder
    <3> DEFINE d == taken \div s
               r == taken % s
    <3>3. d \in Int /\ r \in 0 .. s - 1 /\ taken = d * s + r /\ k <= d - 1
      BY <1>1, ModDef
    <3> HIDE DEF d, r
    <3>4. (k + 1) * s = e + s /\ d * s \in Int /\ (k + 1) * s \in Int
      BY <1>1, <3>1, <3>3
    <3>5. (k + 1) * s <= d * s
      <4>1. k + 1 \in Int /\ k + 1 <= d
        BY <3>1, <3>3
      <4> DEFINE m == k + 1
      <4> HIDE DEF m
      <4> QED
        BY <1>1, <3>3, <4>1, TimesOrder DEF m
    <3>6. Sdu(k) = Units(e, e + s)
      BY <3>4 DEF Sdu
    <3> QED
      BY <1>1, <3>1, <3>2, <3>3, <3>4, <3>5, <3>6
  <2> SUFFICES ASSUME e \notin bare PROVE CameOut(k)
    OBVIOUS
  <2> HIDE DEF e
  <2>2. CASE e + s <= b
    <3>1. Sdu(k) \in Range(assembly.out)
      BY <1>5, <2>1, <2>2
    <3> QED
      BY <3>1, Zenon DEF CameOut
  <2>3. CASE ~(e + s <= b)
    <3>1. b <= e
      <4>1. e < b => e + s <= b
        BY <1>5, <2>1, BeginsApart
      <4> QED
        BY <1>5, <2>1, <2>3, <4>1
    <3>2. PICK x : x = e + s - 1
      OBVIOUS
    <3>3. x \in Nat /\ H[u].cut <= x /\ x < H[n].cut /\ x \in e .. (e + s) - 1 /\ e + s \in Nat
      BY <1>1, <1>3, <1>4, <1>5, <2>1, <3>1, <3>2
    <3>4. x \in Range(Sdu(k))
      BY <2>1, <3>3, UnitsHave
    <3>5. PICK p \in u .. n - 1 : H[p].cut <= x /\ x < H[p + 1].cut
      BY <1>3, <3>3, UnitSent
    <3>6. p + 1 \in 0 .. n /\ p \in 0 .. n
      BY <1>3
    <3>7. x \in H[p].cut .. H[p + 1].cut - 1
      <4>1. H[p].cut \in Nat /\ H[p + 1].cut \in Nat
        BY <1>3, <3>6, HistoryCuts
      <4> QED
        BY <3>3, <3>5, <4>1
    <3>8. ASSUME NEW pdu \in Pdus(taken), Is(pdu, H, p)
          PROVE  x \in UNION {Range(piece) : piece \in Range(pdu.pieces)}
      <4>1. Made(pdu, H[p].cut, H[p + 1].cut, H[p].begun, H[p + 1].begun)
        BY <3>8, Zenon DEF Is
      <4> QED
        BY <3>7, <4>1, MadeHas
    <3>9. CASE \E i \in 1 .. Len(air) : Is(air[i], H, p)
      <4>1. PICK i \in 1 .. Len(air) : Is(air[i], H, p)
        BY <3>9
      <4>2. air[i] \in Pdus(taken) /\ DOMAIN air = 1 .. Len(air)
        BY <1>1
      <4>3. x \in UNION {Range(piece) : piece \in Range(air[i].pieces)}
        BY <3>8, <4>1, <4>2
      <4>4. air[i] \in Range(air)
        BY <4>2, Zenon DEF Range
      <4>5. x \in UnitsOf(Range(air))
        BY <4>3, <4>4, Zenon DEF UnitsOf
      <4> QED
        BY <3>4, <4>5 DEF CameOut
    <3>10. CASE p % MOD \in DOMAIN assembly.win /\ Is(assembly.win[p % MOD], H, p)
      <4>1. assembly.win[p % MOD] \in Pdus(taken)
        BY <1>1, <3>10 DEF Assemblies, Windows
      <4>2. x \in UNION {Range(piece) : piece \in Range(assembly.win[p % MOD].pieces)}
        BY <3>8, <3>10, <4>1
      <4>3. assembly.win[p % MOD] \in Range(assembly.win)
        BY <3>10, Zenon DEF Range
      <4>4. x \in UnitsOf(Range(assembly.win))
        BY <4>2, <4>3, Zenon DEF UnitsOf
      <4> QED
        BY <3>4, <4>4 DEF CameOut
    <3> QED
      BY <1>2, <3>9, <3>10, CalmWhere
  <2> QED
    BY <2>2, <2>3
<1> QED
  BY <1>2, <1>6

-----------------------------------------------------------------------------
(* Theorems                                                                *)

\* Whatever is lost, overtaken or late, the types hold and nothing in the window is
\* before the next number to reassemble: a PDU that arrives, the window that moves
\* up with it and the loops of reassemble_rx_sdus leave none behind (rlc_um_rx::
\* handle_data_pdu, timer_expired).
THEOREM UmTypeCorrect == Spec => []UmTypeOK
<1>1. UmInv /\ [Next]_vars => UmInv'
  BY UmInvStep
<1> QED
  BY <1>1, UmInvInit, TypeOf, PTL DEF Spec

\* With a reordering window, a PDU that waits for another is never left without
\* the timer or its callback, whatever the order of the expiry and the arrivals
\* (rlc_um_rx::handle_data_pdu and timer_expired, the conditions that start the
\* timer).
THEOREM GapTimed == ASSUME rx_window_size > 0 PROVE Spec => []GapIsTimed
<1>1. UmInit => UmInv /\ GapIsTimed
  BY UmInvInit DEF UmInit, GapIsTimed
<1>2. UmInv /\ GapIsTimed /\ [Next]_vars => (UmInv /\ GapIsTimed)'
  BY UmInvStep
<1> QED
  BY <1>1, <1>2, PTL DEF Spec

\* Whatever is lost or overtaken, and however late an expiry calls back, PDCP gets
\* whole SDUs only, each once and in order, as long as what HARQ loses and what one
\* PDU overtakes stay inside the reordering window: the segments that reassemble_
\* rx_sdus joins are of one SDU, whatever vr_ur passed over in between.
THEOREM IntactSdus == ASSUME MaxLosses + 3 <= rx_window_size PROVE Spec => []IntactInOrder
<1>1. UmInit => UmInv /\ Content
  BY UmInvInit, ContentInit
<1>2. UmInv /\ Content /\ [Next]_vars => UmInv' /\ Content'
  BY UmInvStep, ContentStep
<1>3. UmInv /\ Content => IntactInOrder
  BY ContentIntact
<1> QED
  BY <1>1, <1>2, <1>3, PTL DEF Spec

\* As long as HARQ loses nothing and no timer expires no PDU is taken for too late or
\* for one received before, and every SDU whose units have all been copied has come
\* out but those that build_data_pdu has begun with none of their bytes, for every
\* window of more than one PDU, whatever the grants and whatever overtakes what.
THEOREM UndisturbedComplete ==
    ASSUME rx_window_size > 1 PROVE Spec => []CompleteIfUndisturbed
<1>1. UmInit => UmInv /\ Calm
  BY UmInvInit, CalmInit
<1>2. UmInv /\ Calm /\ [Next]_vars => UmInv' /\ Calm'
  BY UmInvStep, CalmStep
<1>3. UmInv /\ Calm => CompleteIfUndisturbed
  BY CalmComplete
<1> QED
  BY <1>1, <1>2, <1>3, PTL DEF Spec
=============================================================================
