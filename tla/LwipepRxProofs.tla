----------------------------- MODULE LwipepRxProofs -----------------------------
(***************************************************************************)
(* Proofs about the reordering receiver, for every size of the sequence    *)
(* number space, every buffer pool and any traffic.                        *)
(*                                                                         *)
(* TypeOK is inductive.  OneOwner and GapHasTimer are inductive with it.   *)
(***************************************************************************)
EXTENDS LwipepRx, Arithmetic, TLAPS

\* The numbers the code computes stay in the sequence number space.
LEMMA ShiftType == ASSUME NEW sn \in Nat, NEW n \in Int PROVE Shift(sn, n) \in SN
BY BufferAssumption DEF Shift, SN

LEMMA SeqType == ASSUME NEW seq \in SeqNum PROVE seq \in Nat /\ seq % BUFFER_SIZE \in SN
BY BufferAssumption, SeqAssumption DEF SN

\* What the loops over next_sn deliver and leave behind.
LEMMA AdvanceType ==
    ASSUME TypeOK, NEW win, DOMAIN win \subseteq SN, \A sn \in DOMAIN win : win[sn] \in Pdu,
           NEW n \in 0 .. 2 * BUFFER_SIZE, Advance(win, n)
    PROVE  /\ next_sn' \in SN
           /\ DOMAIN rx_window' \subseteq DOMAIN win
           /\ \A sn \in DOMAIN rx_window' : rx_window'[sn] = win[sn]
           /\ \A pdu \in handed' \ handed : \E sn \in DOMAIN win \ DOMAIN rx_window' : pdu = win[sn]
           /\ handed \subseteq handed'
<1>1. n \in Int /\ next_sn \in Nat
  BY BufferAssumption DEF TypeOK, SN
<1>2. next_sn' \in SN
  BY <1>1, ShiftType DEF Advance
<1>3. ASSUME NEW m \in Deliveries(win, n) PROVE Shift(next_sn, m) \in DOMAIN win
  BY <1>3 DEF Deliveries, Present
<1> QED
  BY <1>2, <1>3 DEF Advance

-----------------------------------------------------------------------------
(* Type correctness.                                                       *)

LEMMA TypeInit == Init => TypeOK
<1> SUFFICES ASSUME Init PROVE TypeOK
  OBVIOUS
<1>1. DOMAIN rx_window = {} /\ Held = {}
  BY DEF Init, Held
<1>2. 0 \in SN
  BY BufferAssumption DEF SN
<1> QED
  BY <1>1, <1>2, TimeAssumption DEF Init, TypeOK, Stopped

LEMMA StoppedType == Stopped \in [running : BOOLEAN, left : Nat]
BY DEF Stopped

\* Starting the timer keeps its type.
LEMMA StartType == ASSUME TypeOK, Start PROVE lwipep_reordering' \in [running : BOOLEAN, left : Nat]
BY TimeAssumption DEF TypeOK, Start

LEMMA CountType ==
    ASSUME TypeOK, NEW seq \in SeqNum, NEW net_if \in NetIf, Count(seq, net_if)
    PROVE  rcv_wlan_pkt' \in Nat /\ rcv_lte_pkt' \in Nat /\ highest_xw_seq_num' \in Nat
BY SeqType DEF TypeOK, Count

LEMMA TypeStep == TypeOK /\ [Next]_vars => TypeOK'
<1> SUFFICES ASSUME TypeOK, [Next]_vars PROVE TypeOK'
  OBVIOUS
<1> USE DEF Held
<1>1. ASSUME NEW pdu \in Pdu, NEW seq \in SeqNum, NEW net_if \in NetIf,
             WritePduDelayed(pdu, seq, net_if)
      PROVE  TypeOK'
  BY <1>1, CountType DEF TypeOK, WritePduDelayed, Receives, timer, config
<1>2. ASSUME NEW pdu \in Pdu, NEW seq \in SeqNum, NEW net_if \in NetIf,
             WritePduDuplicate(pdu, seq, net_if)
      PROVE  TypeOK'
  BY <1>2, CountType DEF TypeOK, WritePduDuplicate, Receives, timer, config
<1>3. ASSUME NEW pdu \in Pdu, NEW seq \in SeqNum, NEW net_if \in NetIf,
             WritePduWindow(pdu, seq, net_if)
      PROVE  TypeOK'
  <2> DEFINE sn  == seq % BUFFER_SIZE
             win == [x \in DOMAIN rx_window \union {sn} |-> IF x = sn THEN pdu ELSE rx_window[x]]
             max == IF over_current_max_sn(sn) THEN sn ELSE current_max_sn
  <2>1. sn \in SN
    BY SeqType
  <2>2. DOMAIN win \subseteq SN /\ \A x \in DOMAIN win : win[x] \in Pdu
    BY <2>1 DEF TypeOK
  <2>3. max \in SN /\ current_max_sn' = max
    BY <1>3, <2>1 DEF TypeOK, WritePduWindow
  <2>4. PICK n \in 0 .. 2 * BUFFER_SIZE :
           /\ Advance(win, n)
           /\ submitted_sn' = IF n = 0 THEN submitted_sn ELSE Shift(next_sn, n - 1)
    BY <1>3 DEF WritePduWindow
  <2>5. next_sn \in Nat /\ n - 1 \in Int /\ submitted_sn \in SN
    BY <2>4, BufferAssumption DEF TypeOK, SN
  <2>6. submitted_sn' \in SN
    BY <2>4, <2>5, ShiftType
  <2> HIDE DEF win, max, sn
  <2>7. /\ next_sn' \in SN /\ DOMAIN rx_window' \subseteq SN /\ Held' \subseteq Pdu
        /\ handed' \subseteq Pdu
    BY <2>2, <2>4, AdvanceType DEF TypeOK
  <2>8. reordering_sn' \in SN /\ lwipep_reordering' \in [running : BOOLEAN, left : Nat]
    <3>1. \/ reordering_sn' = current_max_sn' /\ Start
          \/ reordering_sn' = reordering_sn /\ lwipep_reordering' \in {Stopped, lwipep_reordering}
      BY <1>3 DEF WritePduWindow, UpdateTimer
    <3> QED
      BY <2>3, <3>1, StoppedType, StartType DEF TypeOK
  <2>9. rcv_wlan_pkt' \in Nat /\ rcv_lte_pkt' \in Nat /\ highest_xw_seq_num' \in Nat
    BY <1>3, CountType DEF WritePduWindow
  <2> QED
    BY <1>3, <2>3, <2>6, <2>7, <2>8, <2>9 DEF TypeOK, WritePduWindow, Receives, config
<1>4. ASSUME NEW pdu \in Pdu, WritePduReport(pdu) PROVE TypeOK'
  BY <1>4 DEF TypeOK, WritePduReport, Receives, window, timer, config, counts
<1>5. ASSUME NEW pdu \in Pdu, WritePduBypass(pdu) PROVE TypeOK'
  BY <1>5 DEF TypeOK, WritePduBypass, Receives, window, timer, config, counts
<1>6. ASSUME TimerTick PROVE TypeOK'
  <2>1. lwipep_reordering' \in [running : BOOLEAN, left : Nat] /\ expiring' \in BOOLEAN
    <3>1. CASE lwipep_reordering.left = 1
      BY <1>6, <3>1, StoppedType DEF TimerTick
    <3>2. CASE lwipep_reordering.left # 1
      <4>1. lwipep_reordering.left - 1 \in Nat
        BY <1>6 DEF TypeOK, TimerTick, is_running
      <4> QED
        BY <1>6, <3>2, <4>1 DEF TypeOK, TimerTick
    <3> QED
      BY <3>1, <3>2
  <2> QED
    BY <1>6, <2>1 DEF TypeOK, TimerTick, window, config, counts
<1>7. ASSUME TimerExpired PROVE TypeOK'
  <2> DEFINE updates(n) == {m \in 0 .. n - 1 : m < FlushSteps(current_max_sn)}
                             \union Deliveries(rx_window, n)
  <2>1. PICK n \in 0 .. 2 * BUFFER_SIZE :
           /\ Advance(rx_window, n)
           /\ IF updates(n) = {} THEN UNCHANGED submitted_sn
              ELSE \E m \in updates(n) : submitted_sn' = Shift(next_sn, m)
    BY <1>7 DEF TimerExpired
  <2>2. next_sn \in Nat /\ updates(n) \subseteq Int
    BY BufferAssumption DEF TypeOK, SN, Deliveries
  <2>3. submitted_sn' \in SN
    BY <2>1, <2>2, ShiftType DEF TypeOK
  <2>4. /\ next_sn' \in SN /\ DOMAIN rx_window' \subseteq SN /\ Held' \subseteq Pdu
        /\ handed' \subseteq Pdu
    BY <2>1, AdvanceType DEF TypeOK
  <2>5. reordering_sn' \in SN /\ lwipep_reordering' \in [running : BOOLEAN, left : Nat]
    <3>1. \/ reordering_sn' = current_max_sn /\ Start
          \/ reordering_sn' = reordering_sn /\ lwipep_reordering' = Stopped
      BY <1>7 DEF TimerExpired
    <3> QED
      BY <3>1, StoppedType, StartType DEF TypeOK
  <2> QED
    BY <1>7, <2>3, <2>4, <2>5 DEF TypeOK, TimerExpired, config, counts
<1>8. ASSUME MeasurementReport PROVE TypeOK'
  BY <1>8 DEF TypeOK, MeasurementReport, window, timer, config
<1>9. ASSUME NEW t \in ReorderTimes, SetReorderTimeout(t) PROVE TypeOK'
  BY <1>9 DEF TypeOK, SetReorderTimeout, window, timer, counts
<1>10. ASSUME NEW aggregate \in BOOLEAN, SetLwipepWlan(aggregate) PROVE TypeOK'
  BY <1>10 DEF TypeOK, SetLwipepWlan, window, timer, counts
<1>11. ASSUME NEW pdu \in Pdu, GatewayFrees(pdu) PROVE TypeOK'
  BY <1>11 DEF TypeOK, GatewayFrees, window, timer, config, counts
<1>12. CASE UNCHANGED vars
  BY <1>12 DEF TypeOK, vars, window, timer, config, counts
<1> QED
  BY <1>1, <1>2, <1>3, <1>4, <1>5, <1>6, <1>7, <1>8, <1>9, <1>10, <1>11, <1>12
     DEF Next, Receive, WritePdu, Timers, Console, Gateway

\* The variables keep the types the code declares, whatever arrives.
THEOREM TypeCorrect == Spec => []TypeOK
BY TypeInit, TypeStep, PTL DEF Spec

-----------------------------------------------------------------------------
(* Custody of the buffers.                                                 *)

\* A step that stops no PDU keeps the buffers apart: the window loses the ones
\* the loops hand to the gateway, and win holds each buffer once.
LEMMA AdvanceOwner ==
    ASSUME TypeOK, OneOwner,
           NEW win, DOMAIN win \subseteq SN, \A sn \in DOMAIN win : win[sn] \in Pdu,
           \A x, y \in DOMAIN win : win[x] = win[y] => x = y,
           \A sn \in DOMAIN win : win[sn] \notin handed /\ win[sn] \notin free',
           free' \subseteq free,
           NEW n \in 0 .. 2 * BUFFER_SIZE, Advance(win, n)
    PROVE  OneOwner'
<1>1. /\ DOMAIN rx_window' \subseteq DOMAIN win
      /\ \A sn \in DOMAIN rx_window' : rx_window'[sn] = win[sn]
      /\ \A pdu \in handed' \ handed : \E sn \in DOMAIN win \ DOMAIN rx_window' : pdu = win[sn]
  BY AdvanceType
<1>2. free' \intersect handed' = {}
  BY <1>1 DEF OneOwner
<1>3. Held' \intersect (free' \union handed') = {}
  BY <1>1 DEF Held
<1>4. \A x, y \in DOMAIN rx_window' : rx_window'[x] = rx_window'[y] => x = y
  BY <1>1
<1> QED
  BY <1>2, <1>3, <1>4 DEF OneOwner

LEMMA OwnerInit == Init => OneOwner
<1> SUFFICES ASSUME Init PROVE OneOwner
  OBVIOUS
<1>1. DOMAIN rx_window = {} /\ Held = {}
  BY DEF Init, Held
<1> QED
  BY <1>1 DEF Init, OneOwner

LEMMA OwnerStep == TypeOK /\ OneOwner /\ [Next]_vars => OneOwner'
<1> SUFFICES ASSUME TypeOK, OneOwner, [Next]_vars PROVE OneOwner'
  OBVIOUS
<1>1. ASSUME NEW pdu \in Pdu, NEW seq \in SeqNum, NEW net_if \in NetIf,
             WritePduDelayed(pdu, seq, net_if)
      PROVE  OneOwner'
  BY <1>1 DEF OneOwner, Held, WritePduDelayed, Receives
<1>2. ASSUME NEW pdu \in Pdu, NEW seq \in SeqNum, NEW net_if \in NetIf,
             WritePduDuplicate(pdu, seq, net_if)
      PROVE  OneOwner'
  BY <1>2 DEF OneOwner, Held, WritePduDuplicate, Receives
<1>3. ASSUME NEW pdu \in Pdu, NEW seq \in SeqNum, NEW net_if \in NetIf,
             WritePduWindow(pdu, seq, net_if)
      PROVE  OneOwner'
  <2> DEFINE sn  == seq % BUFFER_SIZE
             win == [x \in DOMAIN rx_window \union {sn} |-> IF x = sn THEN pdu ELSE rx_window[x]]
  <2>1. sn \in SN /\ sn \notin DOMAIN rx_window
    BY <1>3, SeqType DEF WritePduWindow
  <2>2. pdu \in free /\ free' = free \ {pdu}
    BY <1>3 DEF WritePduWindow, Receives
  <2>3. DOMAIN win \subseteq SN /\ \A x \in DOMAIN win : win[x] \in Pdu
    BY <2>1 DEF TypeOK, Held
  <2>4. \A x, y \in DOMAIN win : win[x] = win[y] => x = y
    BY <2>1, <2>2 DEF OneOwner, Held
  <2>5. \A x \in DOMAIN win : win[x] \notin handed /\ win[x] \notin free'
    BY <2>1, <2>2 DEF OneOwner, Held
  <2>6. PICK n \in 0 .. 2 * BUFFER_SIZE : Advance(win, n)
    BY <1>3 DEF WritePduWindow
  <2> HIDE DEF win, sn
  <2> QED
    BY <2>2, <2>3, <2>4, <2>5, <2>6, AdvanceOwner
<1>4. ASSUME NEW pdu \in Pdu, WritePduReport(pdu) PROVE OneOwner'
  BY <1>4 DEF OneOwner, Held, WritePduReport, Receives, window
<1>5. ASSUME NEW pdu \in Pdu, WritePduBypass(pdu) PROVE OneOwner'
  BY <1>5 DEF OneOwner, Held, WritePduBypass, Receives, window
<1>6. ASSUME TimerTick PROVE OneOwner'
  BY <1>6 DEF OneOwner, Held, TimerTick, window
<1>7. ASSUME TimerExpired PROVE OneOwner'
  <2>1. PICK n \in 0 .. 2 * BUFFER_SIZE : Advance(rx_window, n)
    BY <1>7 DEF TimerExpired
  <2>2. free' = free
    BY <1>7 DEF TimerExpired
  <2>3. \A sn \in DOMAIN rx_window : rx_window[sn] \in Pdu /\ rx_window[sn] \notin handed
                                                          /\ rx_window[sn] \notin free'
    BY <2>2 DEF TypeOK, OneOwner, Held
  <2> QED
    BY <2>1, <2>2, <2>3, AdvanceOwner DEF TypeOK, OneOwner
<1>8. ASSUME MeasurementReport PROVE OneOwner'
  BY <1>8 DEF OneOwner, Held, MeasurementReport, window
<1>9. ASSUME NEW t \in ReorderTimes, SetReorderTimeout(t) PROVE OneOwner'
  BY <1>9 DEF OneOwner, Held, SetReorderTimeout, window
<1>10. ASSUME NEW aggregate \in BOOLEAN, SetLwipepWlan(aggregate) PROVE OneOwner'
  BY <1>10 DEF OneOwner, Held, SetLwipepWlan, window
<1>11. ASSUME NEW pdu \in Pdu, GatewayFrees(pdu) PROVE OneOwner'
  BY <1>11 DEF OneOwner, Held, GatewayFrees, window
<1>12. CASE UNCHANGED vars
  BY <1>12 DEF OneOwner, Held, vars, window
<1> QED
  BY <1>1, <1>2, <1>3, <1>4, <1>5, <1>6, <1>7, <1>8, <1>9, <1>10, <1>11, <1>12
     DEF Next, Receive, WritePdu, Timers, Console, Gateway

\* No buffer of the pool is ever in two places, so none is sent twice or
\* overwritten while the window or the gateway still holds it.
THEOREM BufferCustody == Spec => []OneOwner
<1>1. Init => OneOwner
  BY OwnerInit
<1>2. TypeOK /\ OneOwner /\ [Next]_vars => OneOwner'
  BY OwnerStep
<1> QED
  BY <1>1, <1>2, TypeCorrect, PTL DEF Spec

-----------------------------------------------------------------------------
(* The timer watches over every gap.                                       *)

\* Window arithmetic reads the numbers only.
LEMMA GapFrame ==
    ASSUME GapHasTimer, UNCHANGED <<current_max_sn, next_sn, lwipep_reordering>>,
           expiring => expiring'
    PROVE  GapHasTimer'
<1>1. Gap' <=> Gap
  BY DEF Gap, RX_MOD_BASE
<1> QED
  BY <1>1 DEF GapHasTimer

LEMMA GapInit == Init => GapHasTimer
BY BufferAssumption DEF Init, GapHasTimer, Gap, RX_MOD_BASE, WINDOWS_SIZE

LEMMA GapStep == TypeOK /\ GapHasTimer /\ [Next]_vars => GapHasTimer'
<1> SUFFICES ASSUME TypeOK, GapHasTimer, [Next]_vars PROVE GapHasTimer'
  OBVIOUS
<1>1. ASSUME NEW pdu \in Pdu, NEW seq \in SeqNum, NEW net_if \in NetIf,
             WritePduDelayed(pdu, seq, net_if)
      PROVE  GapHasTimer'
  BY <1>1, GapFrame DEF WritePduDelayed, timer
<1>2. ASSUME NEW pdu \in Pdu, NEW seq \in SeqNum, NEW net_if \in NetIf,
             WritePduDuplicate(pdu, seq, net_if)
      PROVE  GapHasTimer'
  BY <1>2, GapFrame DEF WritePduDuplicate, timer
<1>3. ASSUME NEW pdu \in Pdu, NEW seq \in SeqNum, NEW net_if \in NetIf,
             WritePduWindow(pdu, seq, net_if)
      PROVE  GapHasTimer'
  <2>1. UpdateTimer
    BY <1>3 DEF WritePduWindow
  <2>2. Gap' => lwipep_reordering'.running
    BY <2>1 DEF UpdateTimer, Gap, RX_MOD_BASE, is_running, Start
  <2> QED
    BY <2>2 DEF GapHasTimer
<1>4. ASSUME NEW pdu \in Pdu, WritePduReport(pdu) PROVE GapHasTimer'
  BY <1>4, GapFrame DEF WritePduReport, window, timer
<1>5. ASSUME NEW pdu \in Pdu, WritePduBypass(pdu) PROVE GapHasTimer'
  BY <1>5, GapFrame DEF WritePduBypass, window, timer
<1>6. ASSUME TimerTick PROVE GapHasTimer'
  <2>1. lwipep_reordering'.running \/ expiring'
    BY <1>6 DEF TypeOK, TimerTick, is_running
  <2> QED
    BY <2>1 DEF GapHasTimer
<1>7. ASSUME TimerExpired PROVE GapHasTimer'
  BY <1>7 DEF TimerExpired, GapHasTimer, Gap, RX_MOD_BASE, Start
<1>8. ASSUME MeasurementReport PROVE GapHasTimer'
  BY <1>8, GapFrame DEF MeasurementReport, window, timer
<1>9. ASSUME NEW t \in ReorderTimes, SetReorderTimeout(t) PROVE GapHasTimer'
  BY <1>9, GapFrame DEF SetReorderTimeout, window, timer
<1>10. ASSUME NEW aggregate \in BOOLEAN, SetLwipepWlan(aggregate) PROVE GapHasTimer'
  BY <1>10, GapFrame DEF SetLwipepWlan, window, timer
<1>11. ASSUME NEW pdu \in Pdu, GatewayFrees(pdu) PROVE GapHasTimer'
  BY <1>11, GapFrame DEF GatewayFrees, window, timer
<1>12. CASE UNCHANGED vars
  BY <1>12, GapFrame DEF vars, window, timer
<1> QED
  BY <1>1, <1>2, <1>3, <1>4, <1>5, <1>6, <1>7, <1>8, <1>9, <1>10, <1>11, <1>12
     DEF Next, Receive, WritePdu, Timers, Console, Gateway

\* A missing number is never left without a timer that gives it up, for any
\* interleaving of write_pdu with the step and the callback of the timer.
THEOREM GapWatched == Spec => []GapHasTimer
BY GapInit, GapStep, TypeCorrect, PTL DEF Spec

-----------------------------------------------------------------------------
(* Arithmetic of the window, and what an expiry releases.                  *)

LEMMA SizePositive == BUFFER_SIZE \in Nat /\ BUFFER_SIZE > 0
BY BufferAssumption

\* The position of a number in the window is a quotient and a remainder.
LEMMA BaseDivMod ==
    ASSUME NEW sn \in Int, NEW max \in Int
    PROVE  /\ RX_MOD_BASE(sn, max) \in 0 .. BUFFER_SIZE - 1
           /\ \E k \in Int : sn - max - WINDOWS_SIZE = k * BUFFER_SIZE + RX_MOD_BASE(sn, max)
<1>1. WINDOWS_SIZE \in Int
  BY BufferAssumption DEF WINDOWS_SIZE
<1>2. sn - max - WINDOWS_SIZE \in Int
  BY <1>1
<1> QED
  BY <1>2, SizePositive, ModDef DEF RX_MOD_BASE

LEMMA ShiftDivMod ==
    ASSUME NEW sn \in Int, NEW n \in Int
    PROVE  \E k \in Int : sn + n = k * BUFFER_SIZE + Shift(sn, n)
BY SizePositive, ModDef DEF Shift

\* Moving on by n numbers moves the position by n, up to the leading edge.
LEMMA BaseShift ==
    ASSUME NEW sn \in Nat, NEW max \in Int, NEW n \in Nat, RX_MOD_BASE(sn, max) + n < BUFFER_SIZE
    PROVE  RX_MOD_BASE(Shift(sn, n), max) = RX_MOD_BASE(sn, max) + n
<1> DEFINE w == WINDOWS_SIZE
<1>1. w \in Int /\ Shift(sn, n) \in Int
  BY ShiftType, BufferAssumption DEF WINDOWS_SIZE, SN
<1>2. PICK k \in Int : sn - max - w = k * BUFFER_SIZE + RX_MOD_BASE(sn, max)
  BY BaseDivMod
<1>3. PICK j \in Int : sn + n = j * BUFFER_SIZE + Shift(sn, n)
  BY ShiftDivMod
<1>4. RX_MOD_BASE(sn, max) + n \in 0 .. BUFFER_SIZE - 1
  <2>1. sn \in Int
    OBVIOUS
  <2>2. RX_MOD_BASE(sn, max) \in 0 .. BUFFER_SIZE - 1
    BY <2>1, BaseDivMod
  <2> QED
    BY <2>2, BufferAssumption
<1> DEFINE a == Shift(sn, n) - max - w
           b == RX_MOD_BASE(sn, max)
<1>5. a = (k - j) * BUFFER_SIZE + (b + n)
  <2> HIDE DEF w, b
  <2>1. b \in Int
    BY BaseDivMod DEF b
  <2> QED
    BY <1>1, <1>2, <1>3, <2>1, BufferAssumption DEF b
<1>6. a \in Int /\ k - j \in Int
  BY <1>1
<1> HIDE DEF a
<1>7. a % BUFFER_SIZE = b + n
  BY <1>4, <1>5, <1>6, SizePositive, ModUnique
<1> QED
  BY <1>7 DEF a, RX_MOD_BASE

\* The distance of two positions is the number of iterations between them.
LEMMA ShiftToBase ==
    ASSUME NEW x \in SN, NEW y \in SN, NEW max \in Int, RX_MOD_BASE(x, max) <= RX_MOD_BASE(y, max)
    PROVE  Shift(x, RX_MOD_BASE(y, max) - RX_MOD_BASE(x, max)) = y
<1> DEFINE w == WINDOWS_SIZE
           b == RX_MOD_BASE(x, max)
           c == RX_MOD_BASE(y, max)
<1>1. w \in Int /\ b \in Int /\ c \in Int
  BY BaseDivMod, BufferAssumption DEF WINDOWS_SIZE, SN
<1>2. PICK k \in Int : x - max - w = k * BUFFER_SIZE + b
  BY BaseDivMod DEF SN
<1>3. PICK j \in Int : y - max - w = j * BUFFER_SIZE + c
  BY BaseDivMod DEF SN
<1> HIDE DEF w, b, c
<1>4. x + (c - b) = (k - j) * BUFFER_SIZE + y
  <2>1. (k - j) * BUFFER_SIZE = k * BUFFER_SIZE - j * BUFFER_SIZE
    BY BufferAssumption
  <2>2. k * BUFFER_SIZE \in Int /\ j * BUFFER_SIZE \in Int /\ x \in Int /\ y \in Int
    BY BufferAssumption DEF SN
  <2> QED
    BY <1>1, <1>2, <1>3, <2>1, <2>2
<1>5. x + (c - b) \in Int /\ k - j \in Int
  BY <1>1 DEF SN
<1>6. (x + (c - b)) % BUFFER_SIZE = y
  BY <1>4, <1>5, SizePositive, ModUnique DEF SN
<1> QED
  BY <1>6 DEF Shift, b, c

LEMMA ExpiryStep ==
    ASSUME TypeOK, TimerExpired, NEW sn \in DOMAIN rx_window',
           RX_MOD_BASE(next_sn, current_max_sn) <= RX_MOD_BASE(sn, current_max_sn),
           RX_MOD_BASE(sn, current_max_sn) < RX_MOD_BASE(reordering_sn, current_max_sn)
    PROVE  FALSE
<1> DEFINE base(x) == RX_MOD_BASE(x, current_max_sn)
           m == base(sn) - base(next_sn)
<1>1. PICK n \in 0 .. 2 * BUFFER_SIZE : SkipStops(n) /\ Advance(rx_window, n)
  BY DEF TimerExpired, SkipEnds
<1>2. sn \in DOMAIN rx_window /\ sn \in SN
  BY <1>1, AdvanceType DEF TypeOK, Held
<1>3. next_sn \in SN /\ current_max_sn \in Int /\ reordering_sn \in Int
  BY DEF TypeOK, SN
<1>4. base(sn) \in 0 .. BUFFER_SIZE - 1 /\ base(next_sn) \in 0 .. BUFFER_SIZE - 1
      /\ base(reordering_sn) \in 0 .. BUFFER_SIZE - 1
  <2>1. sn \in Int /\ next_sn \in Int
    BY <1>2, <1>3 DEF SN
  <2> QED
    BY <1>3, <2>1, BaseDivMod
<1>5. Shift(next_sn, m) = sn
  BY <1>2, <1>3, ShiftToBase
<1>6. m \in Nat /\ m < BUFFER_SIZE
  BY <1>4, BufferAssumption
<1>7. CASE m < n
  <2>1. m \in Deliveries(rx_window, n)
    BY <1>1, <1>2, <1>5, <1>6, <1>7, BufferAssumption DEF Deliveries, Present
  <2>2. sn \notin DOMAIN rx_window'
    BY <1>1, <1>5, <2>1 DEF Advance
  <2> QED
    BY <2>2
<1>8. CASE n <= m
  <2>1. n \in Nat /\ next_sn \in Nat /\ base(next_sn) + n < BUFFER_SIZE
    BY <1>1, <1>3, <1>4, <1>8, BufferAssumption DEF SN
  <2>2. base(Shift(next_sn, n)) = base(next_sn) + n
    BY <1>3, <2>1, BaseShift
  <2>3. base(Shift(next_sn, n)) >= base(reordering_sn)
    BY <1>1 DEF SkipStops
  <2> QED
    BY <1>4, <1>8, <2>1, <2>2, <2>3
<1> QED
  BY <1>1, <1>6, <1>7, <1>8, BufferAssumption

\* However many numbers are missing, one expiry releases every PDU buffered
\* before reordering_sn.
THEOREM ExpiryReleasesAll == Spec => ExpiryReleases
<1>1. TypeOK /\ [Next]_vars =>
        [TimerExpired =>
           \A sn \in DOMAIN rx_window' :
             ~ /\ RX_MOD_BASE(next_sn, current_max_sn) <= RX_MOD_BASE(sn, current_max_sn)
               /\ RX_MOD_BASE(sn, current_max_sn) < RX_MOD_BASE(reordering_sn, current_max_sn)]_vars
  BY ExpiryStep
<1> QED
  BY <1>1, TypeCorrect, PTL DEF Spec, ExpiryReleases
=============================================================================
