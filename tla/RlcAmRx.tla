--------------------------------- MODULE RlcAmRx ---------------------------------
(***************************************************************************)
(* The receiving side of an acknowledged-mode RLC entity (rlc_am_rx).  The *)
(* MAC's thread brings data PDUs, whole or in segments; what is in order   *)
(* is put together to SDUs and goes to PDCP.  A timer of the MAC thread    *)
(* decides when a missing number counts as lost, and the sending side of   *)
(* the same entity fetches the status report for the peer.                 *)
(*                                                                         *)
(* Every handler holds the mutex of the receiving side and is one action,  *)
(* but two of them interleave with the others: an expiry (as in RlcAmTx),  *)
(* and the making of a report, which calls get_status_pdu and reset_status *)
(* one after the other and holds the mutex only within each.               *)
(***************************************************************************)
EXTENDS RlcAmSn, FiniteSetsExt, SequencesExt

CONSTANT t_status_prohibit    \* cfg.t_status_prohibit, 0 if there is no such time

ASSUME RxAssumption == t_status_prohibit \in Nat

VARIABLES
    vr_r,               \* next number to deliver; the window ends at vr_mr,
                        \* always RLC_AM_WINDOW_SIZE further
    vr_x,               \* number after the one that started the timer
    vr_ms,              \* numbers before it are reported on
    vr_h,               \* number after the highest one seen
    rx_window,          \* map from sequence number to payload
    rx_segments,        \* map from sequence number to the segments there are:
                        \* offset of the first, their payload, LSF of the last
    poll_received, do_status,
    reordering_timer,   \* the timer is running
    reordering_expiring,\* timers::step has called back, the callback does not
                        \* hold the mutex yet
    rx_sdu,             \* payload of the SDU being put together
    status_prohibited,
    report,             \* the report get_status_pdu made, before reset_status
    delivered,          \* what PDCP got, SDU by SDU
    reports             \* reports given to the MAC and under way, in order; late
                        \* are those that were overtaken

status_vars == <<status_prohibited, report>>
reception == <<vr_r, vr_x, vr_ms, vr_h, rx_window, rx_segments, poll_received,
               do_status, reordering_timer, reordering_expiring, rx_sdu, delivered>>
rx == <<reception, status_vars>>

NoReport == [ack_sn |-> 0, nacks |-> {}, made |-> FALSE]

\* Numbers from sn on that are all in win.
RunLength(win, sn) == Min({n \in 0 .. MOD : n = MOD \/ Shift(sn, n) \notin DOMAIN win})

\* Mutation: the upper edge of the window counts as inside.
inside_rx_window_Edge(sn, base) == MOD_BASE(sn, base) <= RLC_AM_WINDOW_SIZE

inside_rx_window(sn, base) == MOD_BASE(sn, base) < RLC_AM_WINDOW_SIZE

NoSegments == [so |-> 0, buf |-> <<>>, lsf |-> FALSE]

-----------------------------------------------------------------------------
(* Data PDUs                                                               *)

\* reassemble_rx_sdus: append the payloads to rx_sdu, and give PDCP an SDU
\* wherever one ends.
Reassemble(win, n) ==
    LET stream[i \in 0 .. n] == IF i = 0 THEN rx_sdu ELSE stream[i - 1] \o win[Shift(vr_r, i - 1)]
        units == stream[n]
        ends  == {i \in DOMAIN units : EndsSdu(units[i])}
        end(k) == CHOOSE i \in ends : Cardinality({j \in ends : j < i}) = k - 1
        start(k) == IF k = 1 THEN 1 ELSE end(k - 1) + 1
    IN  /\ delivered' = delivered \o [k \in 1 .. Cardinality(ends) |-> SubSeq(units, start(k), end(k))]
        /\ rx_sdu' = SubSeq(units, start(Cardinality(ends) + 1), Len(units))

\* The segments of a number delivered are freed, its entry stays, empty.
EmptySegments(segs, n) ==
    [sn \in DOMAIN segs |-> IF MOD_BASE(sn, vr_r) < n THEN NoSegments ELSE segs[sn]]

\* Mutation: a timer goes on although its gap is closed.
UpdateReordering_NoStop ==
    LET starts == HasTimers /\ ~reordering_timer /\ vr_h' # vr_r'
    IN  /\ reordering_timer' = (reordering_timer \/ starts)
        /\ vr_x' = IF starts THEN vr_h' ELSE vr_x

\* After a data PDU: a timer whose gap is closed stops, and one that does not
\* run is started if something is missing.
UpdateReordering ==
    LET stops  == \/ vr_x = vr_r'
                  \/ ~inside_rx_window(vr_x, vr_r') /\ vr_x # Shift(vr_r', RLC_AM_WINDOW_SIZE)
        runs   == reordering_timer /\ ~stops
        starts == HasTimers /\ ~runs /\ vr_h' # vr_r'
    IN  /\ reordering_timer' = (runs \/ starts)
        /\ vr_x' = IF starts THEN vr_h' ELSE vr_x

\* A poll is answered at once if nothing is missing before it; otherwise it
\* waits for the reordering timer.
Polled(sn, p, ms, asked) ==
    /\ poll_received' = (poll_received \/ p)
    /\ do_status' = (do_status \/ asked \/ (p /\ (\/ MOD_BASE(sn, vr_r) < MOD_BASE(ms, vr_r)
                                         \/ ~inside_rx_window(sn, vr_r))))

SeeHighest(sn) ==
    vr_h' = IF MOD_BASE(sn, vr_r) >= MOD_BASE(vr_h, vr_r) THEN Shift(sn, 1) ELSE vr_h

\* A PDU outside the window, or one that is there already: only its poll counts.
Discard(p, segs) ==
    /\ do_status' = (do_status \/ p)
    /\ rx_segments' = segs
    /\ UNCHANGED <<vr_r, vr_x, vr_ms, vr_h, rx_window, poll_received, reordering_timer, rx_sdu, delivered>>

\* handle_data_pdu.  Of a PDU put together from segments, segs are the segments
\* left, and asked says that the poll of the last one was seen already.
HandleDataPdu(sn, p, buf, segs, asked) ==
    IF ~inside_rx_window(sn, vr_r) \/ sn \in DOMAIN rx_window THEN Discard(p \/ asked, segs)
    ELSE LET win == Put(rx_window, sn, buf)
             n   == RunLength(win, vr_r)
         IN  /\ SeeHighest(sn)
             /\ vr_ms' = Shift(vr_ms, RunLength(win, vr_ms))
             /\ Polled(sn, p, vr_ms', asked)
             /\ Reassemble(win, n)
             /\ rx_segments' = EmptySegments(segs, n)
             /\ rx_window' = Keep(win, {s \in SN : MOD_BASE(s, vr_r) >= n})
             /\ vr_r' = Shift(vr_r, n)
             /\ UpdateReordering

\* handle_data_pdu_segment, the first of its number: kept, whatever it is.  Its
\* poll may have to wait for the reordering timer, which it does not start.
FirstSegment(pdu) ==
    /\ rx_segments' = Put(rx_segments, pdu.sn, [so |-> pdu.so, buf |-> pdu.buf, lsf |-> pdu.lsf])
    /\ SeeHighest(pdu.sn)
    /\ Polled(pdu.sn, pdu.p, vr_ms, FALSE)
    /\ UNCHANGED <<vr_r, vr_x, vr_ms, rx_window, reordering_timer, rx_sdu, delivered>>

\* add_segment_and_check: a first segment replaces all there are, any other has
\* to continue them; once they are complete the PDU is handled.
AddSegment(pdu) ==
    LET had  == rx_segments[pdu.sn]
        next == had.so + Len(had.buf)
        now  == IF pdu.so = 0 THEN [so |-> 0, buf |-> pdu.buf, lsf |-> pdu.lsf]
                ELSE IF pdu.so # next THEN had
                ELSE [so |-> had.so, buf |-> had.buf \o pdu.buf, lsf |-> pdu.lsf]
        complete == pdu.so # 0 /\ pdu.so = next /\ now.so = 0 /\ now.lsf
        rest == Keep(rx_segments, SN \ {pdu.sn})
    IN  IF complete THEN HandleDataPdu(pdu.sn, FALSE, now.buf, rest, pdu.p)
        ELSE Discard(pdu.p, Put(rx_segments, pdu.sn, now))

HandleDataPduSegment(pdu) ==
    IF ~inside_rx_window(pdu.sn, vr_r) THEN Discard(pdu.p, rx_segments)
    ELSE IF pdu.sn \notin DOMAIN rx_segments THEN FirstSegment(pdu)
    ELSE AddSegment(pdu)

WritePdu(pdu) ==
    /\ IF pdu.rf THEN HandleDataPduSegment(pdu)
       ELSE HandleDataPdu(pdu.sn, pdu.p, pdu.buf, rx_segments, FALSE)
    /\ UNCHANGED <<reordering_expiring, status_vars>>
-----------------------------------------------------------------------------
(* The reordering timer                                                    *)

\* timers::step counts the timer to its timeout.
ReorderingStep ==
    /\ reordering_timer
    /\ reordering_timer' = FALSE /\ reordering_expiring' = TRUE
    /\ UNCHANGED <<vr_r, vr_x, vr_ms, vr_h, rx_window, rx_segments, poll_received,
                   do_status, rx_sdu, delivered, status_vars>>

\* timer_expired: what is missing before vr_x counts as lost, and a poll that
\* waited is answered.
ReorderingExpired ==
    LET ms     == Shift(vr_x, RunLength(rx_window, vr_x))
        starts == MOD_BASE(vr_h, vr_r) > MOD_BASE(ms, vr_r)
    IN  /\ reordering_expiring /\ reordering_expiring' = FALSE
        /\ vr_ms' = ms
        /\ do_status' = (do_status \/ poll_received)
        /\ reordering_timer' = (reordering_timer \/ starts)
        /\ vr_x' = IF starts THEN vr_h ELSE vr_x
        /\ UNCHANGED <<vr_r, vr_h, rx_window, rx_segments, poll_received, rx_sdu,
                       delivered, status_vars>>

-----------------------------------------------------------------------------
(* Status reports                                                          *)

\* rlc_am_packed_length of a report: 15 bits, and 12 for each number missing.
packed_length(nacks) == (22 + 12 * nacks) \div 8

Missing(ms) == {n \in 0 .. MOD - 1 : /\ n < MOD_BASE(ms, vr_r)
                                     /\ Shift(vr_r, n) \notin DOMAIN rx_window}

get_status_pdu_length ==
    packed_length(Min({Cardinality(Missing(vr_ms)), RLC_AM_WINDOW_SIZE}))

\* get_status_pdu: the loop over the numbers before vr_ms stops when the report
\* is full or has grown to within two bytes of the room there is.  ack_sn is the
\* last number looked at, and vr_ms only if there was none to look at.
get_status_pdu(room) ==
    LET before(n) == {m \in Missing(vr_ms) : m < n}
        looked == {n \in 0 .. MOD - 1 : /\ n < MOD_BASE(vr_ms, vr_r)
                                        /\ Cardinality(before(n)) < RLC_AM_WINDOW_SIZE
                                        /\ packed_length(Cardinality(before(n))) <= room - 2}
    IN  [ack_sn |-> IF looked = {} THEN vr_ms ELSE Shift(vr_r, Max(looked)),
         nacks  |-> {Shift(vr_r, n) : n \in looked \intersect Missing(vr_ms)},
         made   |-> TRUE]

\* build_status_pdu, the first half: read_pdu was called with that much room.
MakeReport(room) ==
    /\ do_status /\ ~status_prohibited /\ ~report.made
    /\ report' = get_status_pdu(room)
    /\ packed_length(Cardinality(report'.nacks)) <= room
    /\ UNCHANGED <<reception, status_prohibited>>

\* build_status_pdu, the second half: reset_status, whatever came in between,
\* and the prohibit timer.
SendReport ==
    /\ report.made /\ report' = NoReport
    /\ do_status' = FALSE /\ poll_received' = FALSE
    /\ status_prohibited' = (status_prohibited \/ (HasTimers /\ t_status_prohibit > 0))
    /\ reports' = Append(reports, [ack_sn |-> report.ack_sn, nacks |-> report.nacks, late |-> FALSE])
    /\ UNCHANGED <<vr_r, vr_x, vr_ms, vr_h, rx_window, rx_segments, reordering_timer,
                   reordering_expiring, rx_sdu, delivered>>

\* timer_expired of the sending side, for the prohibit timer.
ProhibitExpired ==
    /\ status_prohibited /\ ~report.made
    /\ status_prohibited' = FALSE
    /\ UNCHANGED <<reception, report>>

RxInit ==
    /\ vr_r = 0 /\ vr_x = 0 /\ vr_ms = 0 /\ vr_h = 0
    /\ rx_window = <<>> /\ rx_segments = <<>>
    /\ poll_received = FALSE /\ do_status = FALSE
    /\ reordering_timer = FALSE /\ reordering_expiring = FALSE
    /\ rx_sdu = <<>> /\ delivered = <<>>
    /\ status_prohibited = FALSE /\ report = NoReport
=============================================================================
