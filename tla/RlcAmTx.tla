--------------------------------- MODULE RlcAmTx ---------------------------------
(***************************************************************************)
(* The sending side of an acknowledged-mode RLC entity (rlc_am_tx).  PDCP  *)
(* queues SDUs, the MAC asks for a PDU whenever it has a grant, control    *)
(* PDUs of the peer come from the receiving side's thread, and the MAC     *)
(* timer thread calls timer_expired.  Every handler holds the mutex of     *)
(* the sending side throughout and is one action; timers::step clears      *)
(* `running' before it calls timer_expired, which then waits for the       *)
(* mutex, so the expiry is two.                                            *)
(*                                                                         *)
(* A data PDU is [sn, p, rf, so, lsf, buf] as the header and the payload   *)
(* say; first, of the model, says that it is not sent again.               *)
(***************************************************************************)
EXTENDS RlcAmSn, TLC

CONSTANTS
    poll_pdu,           \* cfg.poll_pdu; 0 is "not configured", as poll_byte is
    poll_periodicity,   \* 8 in the code
    MaxSdu              \* bound: SDUs written

ASSUME TxAssumption ==
    poll_pdu \in Int /\ poll_periodicity \in Nat \ {0} /\ MaxSdu \in Nat

VARIABLES
    written,            \* SDUs given to write_sdu
    taken,              \* units of the stream put into PDUs so far
    vt_a, vt_s,         \* first number not acknowledged, next number to use
    tx_window,          \* map from sequence number to the payload sent with it
    retx_queue,         \* what is to be sent again: the number, and how many
                        \* units of it went out in segments already
    pdu_without_poll,
    poll_retx_timer,    \* "stopped", "running", or "expired": its counter has
                        \* reached the timeout and was not reset since
    poll_expiring,      \* timers::step has called back, the callback does not
                        \* hold the mutex yet
    air                 \* data PDUs given to the MAC and under way, in order; late
                        \* are those that were overtaken

tx == <<written, taken, vt_a, vt_s, tx_window, retx_queue, pdu_without_poll,
        poll_retx_timer, poll_expiring>>

\* What read_pdu returns is on its way.
SendPdu(pdu) == air' = Append(air, pdu)

\* tx_sdu # NULL: an SDU is partly in PDUs; tx_sdu_queue holds those not begun.
InSdu == taken % SduUnits # 0
Queued == written - (taken + SduUnits - 1) \div SduUnits
Unsent == written * SduUnits - taken

WindowFull == Cardinality(DOMAIN tx_window) >= RLC_AM_WINDOW_SIZE

\* has_data(), but for the status: there is something for the MAC to fetch.
HasData == retx_queue # <<>> \/ Unsent > 0

-----------------------------------------------------------------------------
(* Polling                                                                 *)

\* poll_required: queued SDUs are left, and whether the retransmission queue is
\* empty, are asked for while a PDU being sent again is still in that queue.
poll_required(without, queued, retx) ==
    \/ poll_pdu > 0 /\ without > poll_pdu
    \/ poll_retx_timer = "expired"
    \/ WindowFull
    \/ queued = 0 /\ retx = <<>>
    \/ poll_pdu = 0 /\ vt_s % poll_periodicity = 0

\* The poll bit of a PDU, and what it does to the timer and the counter, which
\* is only read if poll_pdu is positive.
SetPoll(p) ==
    /\ pdu_without_poll' = IF p \/ poll_pdu <= 0 THEN 0 ELSE pdu_without_poll + 1
    /\ poll_retx_timer' = IF p /\ HasTimers THEN "running" ELSE poll_retx_timer

-----------------------------------------------------------------------------
(* read_pdu                                                                *)

\* Mutation: only what the peer asks for is sent again.
RandomPdu_Never(queue) == {queue}

\* retransmit_random_pdu: one of the window, any of it, joins the queue.
RandomPdu(queue) ==
    IF DOMAIN tx_window = {} THEN {queue}
    ELSE {Append(queue, [sn |-> sn, so |-> 0]) : sn \in DOMAIN tx_window}

\* build_retx_pdu drops what was acknowledged since from the head of the queue.
DropAcked(queue) ==
    LET live == {i \in DOMAIN queue : queue[i].sn \in DOMAIN tx_window}
    IN  IF live = {} THEN <<>>
        ELSE SubSeq(queue, CHOOSE i \in live : \A j \in live : i <= j, Len(queue))

\* build_retx_pdu: the whole PDU if it was not segmented and fits the grant.
BuildRetxPdu(queue, grant) ==
    LET retx == Head(queue)
        buf  == tx_window[retx.sn]
        p    == poll_required(pdu_without_poll + 1, Queued, queue)
    IN  /\ retx.so = 0 /\ Len(buf) <= grant
        /\ SendPdu([sn |-> retx.sn, p |-> p, rf |-> FALSE, so |-> 0, lsf |-> FALSE, buf |-> buf,
                    first |-> FALSE, late |-> FALSE])
        /\ SetPoll(p)
        /\ retx_queue' = Tail(queue)
        /\ UNCHANGED <<written, taken, vt_a, vt_s, tx_window, poll_expiring>>

\* build_segment: what the grant has room for, the rest stays at the head.
BuildSegment(queue, grant) ==
    LET retx == Head(queue)
        buf  == tx_window[retx.sn]
        end  == IF retx.so + grant < Len(buf) THEN retx.so + grant ELSE Len(buf)
        p    == poll_required(pdu_without_poll + 1, Queued, queue)
    IN  /\ retx.so > 0 \/ Len(buf) > grant
        /\ SendPdu([sn |-> retx.sn, p |-> p, rf |-> TRUE, so |-> retx.so, lsf |-> end = Len(buf),
                    buf |-> SubSeq(buf, retx.so + 1, end), first |-> FALSE, late |-> FALSE])
        /\ SetPoll(p)
        /\ retx_queue' = IF end = Len(buf) THEN Tail(queue)
                         ELSE <<[retx EXCEPT !.so = end]>> \o Tail(queue)
        /\ UNCHANGED <<written, taken, vt_a, vt_s, tx_window, poll_expiring>>

\* build_data_pdu: new data, unless the window is full; an SDU already begun is
\* continued all the same.
BuildDataPdu(grant) ==
    LET to     == IF grant < Unsent THEN taken + grant ELSE taken + Unsent
        queued == written - (to + SduUnits - 1) \div SduUnits
        p      == poll_required(pdu_without_poll + 1, queued, <<>>)
    IN  /\ Unsent > 0
        /\ InSdu \/ ~WindowFull
        /\ SendPdu([sn |-> vt_s, p |-> p, rf |-> FALSE, so |-> 0, lsf |-> FALSE,
                    buf |-> Units(taken, to), first |-> TRUE, late |-> FALSE])
        /\ SetPoll(p)
        /\ taken' = to
        /\ tx_window' = Put(tx_window, vt_s, Units(taken, to))
        /\ vt_s' = Shift(vt_s, 1)
        /\ retx_queue' = <<>>
        /\ UNCHANGED <<written, vt_a, poll_expiring>>

\* Everything in the queue was acknowledged, and there is nothing new to send.
NoPdu ==
    /\ retx_queue # <<>> /\ DropAcked(retx_queue) = <<>>
    /\ retx_queue' = <<>>
    /\ Unsent = 0 \/ (~InSdu /\ WindowFull)
    /\ UNCHANGED <<written, taken, vt_a, vt_s, tx_window, pdu_without_poll,
                   poll_retx_timer, poll_expiring>>

\* read_pdu, when no status is due: a PDU of the window if that is full and
\* nothing else is to be sent again, then what is to be sent again, then new.
ReadPdu(grant) ==
    \E queue \in IF WindowFull /\ retx_queue = <<>> THEN RandomPdu(<<>>) ELSE {retx_queue} :
      LET live == DropAcked(queue) IN
      IF live = <<>> THEN BuildDataPdu(grant)
      ELSE BuildRetxPdu(live, grant) \/ BuildSegment(live, grant)

-----------------------------------------------------------------------------
(* The other handlers                                                      *)

WriteSdu ==
    /\ written < MaxSdu
    /\ written' = written + 1
    /\ UNCHANGED <<taken, vt_a, vt_s, tx_window, retx_queue, pdu_without_poll,
                   poll_retx_timer, poll_expiring>>

\* The numbers the loop of handle_control_pdu looks at: from vt_a on, those that
\* are behind ack_sn as well as behind vt_s.
Examined(status) ==
    {n \in 0 .. MOD - 1 : n < MOD_BASE(status.ack_sn, vt_a) /\ n < MOD_BASE(vt_s, vt_a)}

\* Mutation: ack_sn itself is taken as acknowledged.
Acked_Inclusive(status) ==
    {n \in 0 .. MOD - 1 : n <= MOD_BASE(status.ack_sn, vt_a) /\ n < MOD_BASE(vt_s, vt_a)
                          /\ \A m \in 0 .. n : Shift(vt_a, m) \notin status.nacks}

\* Of these, what leaves the window: what comes before the first missing one.
Acked(status) ==
    {n \in Examined(status) : \A m \in 0 .. n : Shift(vt_a, m) \notin status.nacks}

\* handle_control_pdu: what is reported missing is sent again, in order; what
\* comes before the first missing one is acknowledged and leaves the window.
HandleControlPdu(status) ==
    LET nacked == {n \in Examined(status) : Shift(vt_a, n) \in status.nacks}
        acked  == Acked(status)
        old    == IF status.nacks = {} THEN retx_queue ELSE <<>>
        again  == {n \in nacked : /\ Shift(vt_a, n) \in DOMAIN tx_window
                                  /\ \A i \in DOMAIN old : old[i].sn # Shift(vt_a, n)}
        offset(i) == CHOOSE n \in again : Cardinality({m \in again : m < n}) = i - 1
    IN  /\ retx_queue' = old \o [i \in 1 .. Cardinality(again) |->
                                   [sn |-> Shift(vt_a, offset(i)), so |-> 0]]
        /\ tx_window' = Keep(tx_window, SN \ {Shift(vt_a, n) : n \in acked})
        /\ vt_a' = Shift(vt_a, Cardinality(acked))
        /\ poll_retx_timer' = IF poll_retx_timer = "running" THEN "stopped" ELSE poll_retx_timer
        /\ UNCHANGED <<written, taken, vt_s, pdu_without_poll, poll_expiring>>

\* timers::step counts poll_retx_timer to its timeout.
PollTimerStep ==
    /\ poll_retx_timer = "running"
    /\ poll_retx_timer' = "expired" /\ poll_expiring' = TRUE
    /\ UNCHANGED <<written, taken, vt_a, vt_s, tx_window, retx_queue, pdu_without_poll>>

\* timer_expired: if nothing else would carry the poll, a PDU of the window is
\* sent again.
PollTimerExpired ==
    /\ poll_expiring /\ poll_expiring' = FALSE
    /\ retx_queue' \in IF (retx_queue = <<>> /\ Queued = 0) \/ WindowFull
                         THEN RandomPdu(retx_queue) ELSE {retx_queue}
    /\ UNCHANGED <<written, taken, vt_a, vt_s, tx_window, pdu_without_poll, poll_retx_timer>>

TxInit ==
    /\ written = 0 /\ taken = 0
    /\ vt_a = 0 /\ vt_s = 0
    /\ tx_window = <<>> /\ retx_queue = <<>>
    /\ pdu_without_poll = 0
    /\ poll_retx_timer = "stopped" /\ poll_expiring = FALSE
=============================================================================
