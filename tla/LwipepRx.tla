-------------------------------- MODULE LwipepRx --------------------------------
(***************************************************************************)
(* The reordering receiver of LWIPEP (srslte::lwipep of the eNB tree):     *)
(* GRE packets of one user arrive over WLAN (lwipep_xw) and over LTE       *)
(* (PDCP), write_pdu puts them back in sequence before they go to the      *)
(* gateway (GTP-U), and a timer of the MAC gives up on a missing one.      *)
(*                                                                         *)
(* Threads: the lwipep_xw and PDCP threads run write_pdu, the MAC timer    *)
(* thread runs timers::step and timer_expired, the console runs the        *)
(* setters.  write_pdu and timer_expired hold the entity's mutex from      *)
(* their first access of the state to their return, so each is one action. *)
(* timers::step clears `running' BEFORE it calls timer_expired, which then *)
(* waits for the mutex: the two are separate actions.                      *)
(***************************************************************************)
EXTENDS Integers, FiniteSets

CONSTANTS
    BUFFER_SIZE,   \* size of the sequence number space of the receiver
    Pdu,           \* the buffers of the byte_buffer_pool
    SeqNum,        \* GRE sequence numbers that may arrive
    ReorderTimes,  \* values the console may give to set_reorder_timeout
    DefaultReorderTime,  \* lwipep_reordering_time of the constructor (40 ms)
    MaxRcv         \* bound: packets counted per path between two reports

ASSUME BufferAssumption ==
    BUFFER_SIZE \in Nat /\ BUFFER_SIZE >= 4 /\ BUFFER_SIZE % 2 = 0
ASSUME SeqAssumption == SeqNum \subseteq Nat
ASSUME TimeAssumption == ReorderTimes \subseteq Nat /\ DefaultReorderTime \in Nat \ {0}
ASSUME MaxAssumption == MaxRcv \in Nat

WINDOWS_SIZE == BUFFER_SIZE \div 2
SN == 0 .. BUFFER_SIZE - 1
NetIf == {"WLAN", "LTE"}     \* net_if = 2 is WLAN, anything else LTE

VARIABLES
    submitted_sn, current_max_sn, next_sn, reordering_sn,
    rx_window,               \* map from sequence number to buffered PDU
    lwipep_reordering,       \* the timer: its running flag and the ticks left
                             \* to its timeout
    expiring,                \* timers::step has called back, the callback
                             \* does not hold the mutex yet
    lwipep_reordering_time,
    write_pdu_aggregate,     \* enable_lwipep_write_pdu_aggregate
    rcv_wlan_pkt, rcv_lte_pkt, highest_xw_seq_num,
    report,                  \* the last measurement report handed to PDCP
    free,                    \* buffers available in the pool
    handed,                  \* buffers the gateway holds
    out                      \* what the last step gave to the gateway: a
                             \* function from the loop iteration to the PDU

window == <<submitted_sn, current_max_sn, next_sn, reordering_sn, rx_window>>
timer  == <<lwipep_reordering, expiring>>
config == <<lwipep_reordering_time, write_pdu_aggregate>>
counts == <<rcv_wlan_pkt, rcv_lte_pkt, highest_xw_seq_num>>
vars   == <<window, timer, config, counts, report, free, handed, out>>

-----------------------------------------------------------------------------
(* Window arithmetic.  max is the value of current_max_sn it is based on.  *)

RX_MOD_BASE(sn, max) == (sn - max - WINDOWS_SIZE) % BUFFER_SIZE

\* Mutation: the number after the last one does not wrap.
ShiftUnwrapped(sn, n) == sn + n

\* The n-th sequence number after sn.
Shift(sn, n) == (sn + n) % BUFFER_SIZE

inside_reordering_window(sn, max, next) ==
    /\ RX_MOD_BASE(sn, max) <= RX_MOD_BASE(max, max)
    /\ RX_MOD_BASE(sn, max) >= RX_MOD_BASE(next, max)

over_current_max_sn(sn) ==
    RX_MOD_BASE(sn, current_max_sn) > RX_MOD_BASE(current_max_sn, current_max_sn)

\* Mutation: the last number submitted counts as delayed.
delay_packetInclusive(sn) ==
    RX_MOD_BASE(sn, current_max_sn) <= RX_MOD_BASE(submitted_sn, current_max_sn)

delay_packet(sn) ==
    RX_MOD_BASE(sn, current_max_sn) < RX_MOD_BASE(submitted_sn, current_max_sn)

\* A sequence number is known to be missing: next_sn is behind current_max_sn.
Gap == RX_MOD_BASE(current_max_sn, current_max_sn) > RX_MOD_BASE(next_sn, current_max_sn)

(* The loops over next_sn.  Iteration n looks at Shift(next_sn, n); what a  *)
(* lap of the ring delivered is erased, so a second lap finds nothing.      *)

Present(win, n) == n < BUFFER_SIZE /\ Shift(next_sn, n) \in DOMAIN win

\* Iterations of "while(!inside_reordering_window(next_sn))": none, or up to
\* the number with RX_MOD_BASE 0, the trailing edge of the window.
FlushSteps(max) ==
    IF inside_reordering_window(next_sn, max, next_sn)
      THEN 0 ELSE BUFFER_SIZE - RX_MOD_BASE(next_sn, max)

\* write_pdu: after the flush, on while next_sn is in the window.
PassStops(win, max, n) == n >= FlushSteps(max) /\ ~Present(win, n)

\* Mutation: the expiry stops at the first missing number, as write_pdu does.
SkipStopsAtMissing(n) == n >= FlushSteps(current_max_sn) /\ ~Present(rx_window, n)

\* timer_expired: after the flush, on while next_sn is behind reordering_sn;
\* a run of buffered PDUs is delivered to its end, also past reordering_sn.
SkipStops(n) ==
    /\ n >= FlushSteps(current_max_sn)
    /\ RX_MOD_BASE(Shift(next_sn, n), current_max_sn)
         >= RX_MOD_BASE(reordering_sn, current_max_sn)
    /\ ~(Present(rx_window, n) /\ n > FlushSteps(current_max_sn) /\ Present(rx_window, n - 1))

\* n is the number of iterations after which the loop of each handler ends.
PassEnds(win, max, n) == PassStops(win, max, n) /\ \A m \in 0 .. n - 1 : ~PassStops(win, max, m)
SkipEnds(n) == SkipStops(n) /\ \A m \in 0 .. n - 1 : ~SkipStops(m)

\* The iterations before n that hand a PDU of win to the gateway.
Deliveries(win, n) == {m \in 0 .. n - 1 : Present(win, m)}

\* Mutations of Advance: what was delivered is not erased; the number the loop
\* stops at is erased, too.
AdvanceKeeps(win, n) ==
    /\ out' = [m \in Deliveries(win, n) |-> win[Shift(next_sn, m)]]
    /\ handed' = handed \union {win[Shift(next_sn, m)] : m \in Deliveries(win, n)}
    /\ rx_window' = win
    /\ next_sn' = Shift(next_sn, n)
AdvanceErasesNext(win, n) ==
    /\ out' = [m \in Deliveries(win, n) |-> win[Shift(next_sn, m)]]
    /\ handed' = handed \union {win[Shift(next_sn, m)] : m \in Deliveries(win, n)}
    /\ rx_window' = [sn \in DOMAIN win \ {Shift(next_sn, m) : m \in 0 .. n} |-> win[sn]]
    /\ next_sn' = Shift(next_sn, n)

\* n iterations of a loop over win: deliver, erase, advance next_sn.
Advance(win, n) ==
    /\ out' = [m \in Deliveries(win, n) |-> win[Shift(next_sn, m)]]
    /\ handed' = handed \union {win[Shift(next_sn, m)] : m \in Deliveries(win, n)}
    /\ rx_window' = [sn \in DOMAIN win \ {Shift(next_sn, m) : m \in Deliveries(win, n)} |-> win[sn]]
    /\ next_sn' = Shift(next_sn, n)

-----------------------------------------------------------------------------
(* timers::timer                                                           *)

\* stop(); the counter of a stopped timer is not read before the next set().
Stopped == [running |-> FALSE, left |-> 0]

is_running(timer_) == timer_.running /\ timer_.left > 0

\* set() and run().  Started with a timeout of 0 the timer has its flag set, but
\* it is not is_running() and never expires.
Start == lwipep_reordering' = [running |-> TRUE, left |-> lwipep_reordering_time]

\* step(), once per tick of the MAC; the last one clears the flag and calls back.
TimerTick ==
    /\ is_running(lwipep_reordering) /\ ~expiring
    /\ IF lwipep_reordering.left = 1
         THEN lwipep_reordering' = Stopped /\ expiring' = TRUE
         ELSE /\ lwipep_reordering' = [lwipep_reordering EXCEPT !.left = @ - 1]
              /\ UNCHANGED expiring
    /\ out' = <<>>
    /\ UNCHANGED <<window, config, counts, report, free, handed>>

-----------------------------------------------------------------------------
(* write_pdu                                                               *)

\* pdu comes from the pool of the thread that received it.
Receives(pdu) == pdu \in free /\ free' = free \ {pdu}

\* The counters of the measurement report, for every data PDU.
Count(seq, net_if) ==
    /\ IF net_if = "WLAN"
         THEN rcv_wlan_pkt < MaxRcv /\ rcv_wlan_pkt' = rcv_wlan_pkt + 1 /\ UNCHANGED rcv_lte_pkt
         ELSE rcv_lte_pkt < MaxRcv /\ rcv_lte_pkt' = rcv_lte_pkt + 1 /\ UNCHANGED rcv_wlan_pkt
    /\ highest_xw_seq_num' = IF highest_xw_seq_num < seq THEN seq ELSE highest_xw_seq_num

\* A PDU behind submitted_sn goes to the gateway at once
\* (enable_lwipep_discard_delay_packet is false), whatever the window holds
\* under its number is erased.
WritePduDelayed(pdu, seq, net_if) ==
    LET sn == seq % BUFFER_SIZE IN
    /\ write_pdu_aggregate /\ Receives(pdu) /\ Count(seq, net_if)
    /\ delay_packet(sn)
    /\ out' = [m \in {0} |-> pdu]
    /\ handed' = handed \union {pdu}
    /\ rx_window' = [x \in DOMAIN rx_window \ {sn} |-> rx_window[x]]
    /\ UNCHANGED <<submitted_sn, current_max_sn, next_sn, reordering_sn,
                   timer, config, report>>

\* A PDU whose number is already buffered: the BUFFERED one goes to the
\* gateway and leaves the window (enable_lwipep_discard_duplicate is false),
\* the new one is neither stored nor deallocated.
WritePduDuplicate(pdu, seq, net_if) ==
    LET sn == seq % BUFFER_SIZE IN
    /\ write_pdu_aggregate /\ Receives(pdu) /\ Count(seq, net_if)
    /\ ~delay_packet(sn)
    /\ sn \in DOMAIN rx_window
    /\ out' = [m \in {0} |-> rx_window[sn]]
    /\ handed' = handed \union {rx_window[sn]}
    /\ rx_window' = [x \in DOMAIN rx_window \ {sn} |-> rx_window[x]]
    /\ UNCHANGED <<submitted_sn, current_max_sn, next_sn, reordering_sn,
                   timer, config, report>>

\* Mutation: a timer that was running when the PDU came is not started again.
UpdateTimerOnce ==
    LET base(sn) == RX_MOD_BASE(sn, current_max_sn')
        stop == base(submitted_sn') >= base(reordering_sn)
        gap  == base(current_max_sn') > base(next_sn')
    IN IF ~is_running(lwipep_reordering) /\ gap
         THEN reordering_sn' = current_max_sn' /\ Start
         ELSE /\ UNCHANGED reordering_sn
              /\ lwipep_reordering' = IF stop THEN Stopped ELSE lwipep_reordering

\* The reordering timer after a PDU was buffered: stopped when what it waits
\* for was submitted or left the window, started when a number is missing.
UpdateTimer ==
    LET base(sn) == RX_MOD_BASE(sn, current_max_sn')
        stop == \/ base(submitted_sn') >= base(reordering_sn)
                \/ /\ ~inside_reordering_window(reordering_sn, current_max_sn', next_sn')
                   /\ reordering_sn # current_max_sn'
        runs == is_running(lwipep_reordering) /\ ~stop
        gap  == base(current_max_sn') > base(next_sn')
    IN IF ~runs /\ gap
         THEN reordering_sn' = current_max_sn' /\ Start
         ELSE /\ UNCHANGED reordering_sn
              /\ lwipep_reordering' = IF is_running(lwipep_reordering) /\ stop
                                        THEN Stopped ELSE lwipep_reordering

WritePduWindow(pdu, seq, net_if) ==
    LET sn  == seq % BUFFER_SIZE
        win == [x \in DOMAIN rx_window \union {sn} |-> IF x = sn THEN pdu ELSE rx_window[x]]
        max == IF over_current_max_sn(sn) THEN sn ELSE current_max_sn
    IN
    /\ write_pdu_aggregate /\ Receives(pdu) /\ Count(seq, net_if)
    /\ ~delay_packet(sn)
    /\ sn \notin DOMAIN rx_window
    /\ current_max_sn' = max
    /\ \E n \in 0 .. 2 * BUFFER_SIZE :
         /\ PassEnds(win, max, n)
         /\ Advance(win, n)
         /\ submitted_sn' = IF n = 0 THEN submitted_sn ELSE Shift(next_sn, n - 1)
    /\ UpdateTimer
    /\ UNCHANGED <<expiring, config, report>>

\* is_lwipep_report(pdu): nothing in the eNB handles or frees it.
WritePduReport(pdu) ==
    /\ write_pdu_aggregate /\ Receives(pdu)
    /\ out' = <<>>
    /\ UNCHANGED <<window, timer, config, counts, report, handed>>

\* Aggregation switched off: straight to the gateway.
WritePduBypass(pdu) ==
    /\ ~write_pdu_aggregate /\ Receives(pdu)
    /\ out' = [m \in {0} |-> pdu]
    /\ handed' = handed \union {pdu}
    /\ UNCHANGED <<window, timer, config, counts, report>>

-----------------------------------------------------------------------------
(* timer_expired                                                           *)

\* The reordering timer: give up on what is missing before reordering_sn.
\* submitted_sn follows the deliveries (and the flush), not the numbers skipped.
TimerExpired ==
    /\ expiring /\ expiring' = FALSE
    /\ \E n \in 0 .. 2 * BUFFER_SIZE :
         LET updates == {m \in 0 .. n - 1 : m < FlushSteps(current_max_sn)}
                          \union Deliveries(rx_window, n) IN
         /\ SkipEnds(n)
         /\ Advance(rx_window, n)
         /\ IF updates = {} THEN UNCHANGED submitted_sn
            ELSE \E m \in updates : /\ \A i \in updates : i <= m
                                    /\ submitted_sn' = Shift(next_sn, m)
    /\ IF RX_MOD_BASE(current_max_sn, current_max_sn) > RX_MOD_BASE(next_sn', current_max_sn)
         THEN Start /\ reordering_sn' = current_max_sn
         ELSE lwipep_reordering' = Stopped /\ UNCHANGED reordering_sn
    /\ UNCHANGED <<current_max_sn, config, counts, report, free>>

\* The report timer: measurement_report sends what was counted since the last
\* report to the UE over LTE (its buffer goes to PDCP) and starts over.
MeasurementReport ==
    /\ ~expiring
    /\ report' = [highest |-> highest_xw_seq_num, wlan |-> rcv_wlan_pkt, lte |-> rcv_lte_pkt]
    /\ rcv_wlan_pkt' = 0 /\ rcv_lte_pkt' = 0
    /\ out' = <<>>
    /\ UNCHANGED <<window, timer, config, highest_xw_seq_num, free, handed>>

-----------------------------------------------------------------------------
(* The console, and the gateway                                            *)

SetReorderTimeout(t) ==
    /\ lwipep_reordering_time' = t
    /\ out' = <<>>
    /\ UNCHANGED <<window, timer, write_pdu_aggregate, counts, report, free, handed>>

SetLwipepWlan(aggregate) ==
    /\ write_pdu_aggregate' = aggregate
    /\ out' = <<>>
    /\ UNCHANGED <<window, timer, lwipep_reordering_time, counts, report, free, handed>>

\* gtpu::write_pdu has sent the packet and deallocates the buffer.
GatewayFrees(pdu) ==
    /\ pdu \in handed
    /\ handed' = handed \ {pdu}
    /\ free' = free \union {pdu}
    /\ out' = <<>>
    /\ UNCHANGED <<window, timer, config, counts, report>>

-----------------------------------------------------------------------------
Init ==
    /\ submitted_sn = 0 /\ current_max_sn = 0 /\ next_sn = 0 /\ reordering_sn = 0
    /\ rx_window = <<>>
    /\ lwipep_reordering = Stopped /\ expiring = FALSE
    /\ lwipep_reordering_time = DefaultReorderTime
    /\ write_pdu_aggregate = TRUE
    /\ rcv_wlan_pkt = 0 /\ rcv_lte_pkt = 0 /\ highest_xw_seq_num = 0
    /\ report = [highest |-> 0, wlan |-> 0, lte |-> 0]
    /\ free = Pdu /\ handed = {}
    /\ out = <<>>

WritePdu(pdu, seq, net_if) ==
    \/ WritePduDelayed(pdu, seq, net_if)
    \/ WritePduDuplicate(pdu, seq, net_if)
    \/ WritePduWindow(pdu, seq, net_if)

Receive ==
    \E pdu \in Pdu :
      \/ \E seq \in SeqNum, net_if \in NetIf : WritePdu(pdu, seq, net_if)
      \/ WritePduReport(pdu)
      \/ WritePduBypass(pdu)

Timers == TimerTick \/ TimerExpired \/ MeasurementReport

Console ==
    \/ \E t \in ReorderTimes : SetReorderTimeout(t)
    \/ \E aggregate \in BOOLEAN : SetLwipepWlan(aggregate)

Gateway == \E pdu \in Pdu : GatewayFrees(pdu)

Next == Receive \/ Timers \/ Console \/ Gateway

\* The MAC timer thread keeps ticking and its callback gets the mutex.
Fairness == WF_vars(TimerTick) /\ WF_vars(TimerExpired)

Spec == Init /\ [][Next]_vars /\ Fairness

-----------------------------------------------------------------------------
(* Properties                                                              *)

Held == {rx_window[sn] : sn \in DOMAIN rx_window}

\* The variables have the types the code declares.
TypeOK ==
    /\ {submitted_sn, current_max_sn, next_sn, reordering_sn} \subseteq SN
    /\ DOMAIN rx_window \subseteq SN /\ Held \subseteq Pdu
    /\ lwipep_reordering \in [running : BOOLEAN, left : Nat] /\ expiring \in BOOLEAN
    /\ lwipep_reordering_time \in ReorderTimes \union {DefaultReorderTime}
    /\ write_pdu_aggregate \in BOOLEAN
    /\ rcv_wlan_pkt \in Nat /\ rcv_lte_pkt \in Nat /\ highest_xw_seq_num \in Nat
    /\ report \in [highest : Nat, wlan : Nat, lte : Nat]
    /\ free \subseteq Pdu /\ handed \subseteq Pdu

\* A buffer is in one place: the pool, the gateway, or one slot of the window.
\* One in two places would be sent twice or overwritten while it is queued.
OneOwner ==
    /\ free \intersect handed = {}
    /\ Held \intersect (free \union handed) = {}
    /\ \A x, y \in DOMAIN rx_window : rx_window[x] = rx_window[y] => x = y

\* Whenever a sequence number is missing before current_max_sn the reordering
\* timer is running, or about to call back: nothing else would ever move
\* next_sn if the number is lost and the traffic stops.
GapHasTimer == Gap => lwipep_reordering.running \/ expiring

\* An expiry releases every PDU buffered before reordering_sn, however many
\* numbers are missing among them.
ExpiryReleases ==
    [][TimerExpired =>
         \A sn \in DOMAIN rx_window' :
           ~ /\ RX_MOD_BASE(next_sn, current_max_sn) <= RX_MOD_BASE(sn, current_max_sn)
             /\ RX_MOD_BASE(sn, current_max_sn) < RX_MOD_BASE(reordering_sn, current_max_sn)]_vars

\* No missing number blocks the receiver for ever: next_sn leaves it, unless
\* the console has set a reordering time of 0, with which the timer never runs.
HeadMoves ==
    \A sn \in SN : (next_sn = sn /\ Gap)
                     ~> (next_sn # sn \/ ~Gap \/ (lwipep_reordering.running /\ lwipep_reordering.left = 0))
=============================================================================
