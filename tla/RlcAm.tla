---------------------------------- MODULE RlcAm ----------------------------------
(***************************************************************************)
(* A bearer in acknowledged mode: the sending side of one rlc_am and the   *)
(* receiving side of its peer, with the two radio directions between them. *)
(* HARQ gives up on a PDU now and then, and lets one overtake the other.   *)
(* The reports of the peer travel the other way.                           *)
(***************************************************************************)
EXTENDS RlcAmTx, RlcAmRx

CONSTANTS
    Grants,          \* units of payload a grant of the MAC may have room for
    Spare,           \* bytes a grant for a report exceeds get_status_pdu_length
    MaxAir,          \* bound: data PDUs, and reports, under way
    MaxLosses,       \* bound: PDUs lost
    Losable,         \* what HARQ may lose: "data", a PDU sent the first time and
                     \* without a poll; "poll", one with a poll; "again", one sent
                     \* again without; "report"
    ReportsOvertake, \* a report may overtake another
    Meanwhile,       \* the receiving side may be entered between get_status_pdu
                     \* and reset_status
    SlowPoll         \* t_poll_retx is longer than the peer takes to answer, its
                     \* t_reordering included

ASSUME LinkAssumption ==
    /\ Grants \subseteq Nat \ {0} /\ Spare \subseteq Int
    /\ {MaxAir, MaxLosses} \subseteq Nat
    /\ Losable \subseteq {"data", "poll", "again", "report"}
    /\ {ReportsOvertake, Meanwhile, SlowPoll} \subseteq BOOLEAN

VARIABLE losses    \* PDUs and reports lost so far

link == <<air, reports, losses>>
vars == <<tx, rx, link>>

\* The i-th of a direction arrives: the first, or the second if the first was
\* not overtaken before.
Takes(way, i) ==
    \/ i = 1 /\ way # <<>>
    \/ i = 2 /\ Len(way) >= 2 /\ ~way[1].late
After(way, i) ==
    IF i = 1 THEN Tail(way) ELSE RemoveAt([way EXCEPT ![1].late = TRUE], 2)

\* A bound on delay: the sending side does not get a whole window ahead of a
\* PDU under way.  In the code that is 512 PDUs, and HARQ is done with one after
\* some tens of milliseconds.
InTime == \A i \in DOMAIN air : MOD_BASE(vt_s', air[i].sn) <= RLC_AM_WINDOW_SIZE

\* The MAC grants the sending side as long as it has data.
Grant(grant) ==
    /\ HasData /\ Len(air) < MaxAir
    /\ \/ ReadPdu(grant) /\ InTime
       \/ NoPdu /\ UNCHANGED air
    /\ UNCHANGED <<rx, reports, losses>>

PdcpWrites == WriteSdu /\ UNCHANGED <<rx, link>>

PduArrives(i) ==
    /\ Takes(air, i)
    /\ Meanwhile \/ ~report.made
    /\ WritePdu(air[i])
    /\ air' = After(air, i)
    /\ UNCHANGED <<tx, reports, losses>>

\* The control PDU passes through write_pdu of the peer's receiving side, which
\* has let go of its mutex when it calls handle_control_pdu.
ReportArrives(i) ==
    /\ Takes(reports, i)
    /\ HandleControlPdu(reports[i])
    /\ reports' = After(reports, i)
    /\ UNCHANGED <<rx, air, losses>>

\* The MAC of the peer grants what get_buffer_state asked for, and some more.
PeerReports ==
    \/ /\ Len(reports) < MaxAir
       /\ \E spare \in Spare : MakeReport(get_status_pdu_length + spare)
       /\ UNCHANGED <<tx, link>>
    \/ SendReport /\ UNCHANGED <<tx, air, losses>>

\* The peer has nothing to answer any more.
Settled ==
    /\ air = <<>> /\ reports = <<>> /\ ~do_status /\ ~report.made
    /\ ~reordering_timer /\ ~reordering_expiring

PollStep == PollTimerStep /\ (SlowPoll => Settled) /\ UNCHANGED <<rx, link>>
PollExpiry == PollTimerExpired /\ UNCHANGED <<rx, link>>
PeerStep == ReorderingStep /\ UNCHANGED <<tx, link>>
PeerExpiry == ReorderingExpired /\ (Meanwhile \/ ~report.made) /\ UNCHANGED <<tx, link>>
PeerProhibit == ProhibitExpired /\ UNCHANGED <<tx, link>>

\* HARQ has used up its retransmissions.
LosePdu(i) ==
    /\ losses < MaxLosses /\ losses' = losses + 1
    /\ i \in DOMAIN air
    /\ (IF air[i].p THEN "poll" ELSE IF air[i].first THEN "data" ELSE "again") \in Losable
    /\ air' = RemoveAt(air, i)
    /\ UNCHANGED <<tx, rx, reports>>

LoseReport(i) ==
    /\ losses < MaxLosses /\ losses' = losses + 1
    /\ i \in DOMAIN reports /\ "report" \in Losable
    /\ reports' = RemoveAt(reports, i)
    /\ UNCHANGED <<tx, rx, air>>

AmInit == TxInit /\ RxInit /\ air = <<>> /\ reports = <<>> /\ losses = 0

Next ==
    \/ PdcpWrites
    \/ \E grant \in Grants : Grant(grant)
    \/ \E i \in {1, 2} : PduArrives(i)
    \/ \E i \in IF ReportsOvertake THEN {1, 2} ELSE {1} : ReportArrives(i)
    \/ PeerReports
    \/ PollStep \/ PollExpiry \/ PeerStep \/ PeerExpiry \/ PeerProhibit
    \/ \E i \in 1 .. MaxAir : LosePdu(i) \/ LoseReport(i)

\* A grant is used to send sn again.
SendsAgain(sn) ==
    \E grant \in Grants :
      Grant(grant) /\ Len(air') > Len(air) /\ Last(air').sn = sn /\ ~Last(air').first

\* Grants go on as long as there is data, what is not lost arrives, the peer
\* gets its grants, and the MAC's timer thread steps its timers.  What is drawn at
\* random (retransmit_random_pdu) is drawn sooner or later, if it can be drawn again
\* and again.
Fairness ==
    /\ \A grant \in Grants : WF_vars(Grant(grant))
    /\ WF_vars(PduArrives(1)) /\ WF_vars(ReportArrives(1))
    /\ WF_vars(PeerReports)
    /\ WF_vars(PollStep) /\ WF_vars(PollExpiry)
    /\ WF_vars(PeerStep) /\ SF_vars(PeerExpiry) /\ WF_vars(PeerProhibit)
    /\ \A sn \in SN : SF_vars(SendsAgain(sn))

SafetySpec == AmInit /\ [][Next]_vars

Spec == SafetySpec /\ Fairness

-----------------------------------------------------------------------------
(* Properties                                                              *)

\* Types, and that a PDU sent again in segments has some of it left to send.
RlcAmTypeOK ==
    LET payload == Seq(0 .. MaxSdu * SduUnits - 1) IN
    /\ written \in 0 .. MaxSdu /\ taken \in 0 .. written * SduUnits
    /\ {vt_a, vt_s, vr_r, vr_x, vr_ms, vr_h} \subseteq SN
    /\ DOMAIN tx_window \subseteq SN /\ Range(tx_window) \subseteq payload
    /\ \A retx \in Range(retx_queue) :
         /\ retx.sn \in SN
         /\ retx.sn \in DOMAIN tx_window => retx.so \in 0 .. Len(tx_window[retx.sn]) - 1
    /\ poll_retx_timer \in {"stopped", "running", "expired"}
    /\ DOMAIN rx_window \subseteq SN /\ Range(rx_window) \subseteq payload
    /\ DOMAIN rx_segments \subseteq SN
    /\ \A segments \in Range(rx_segments) : segments.buf \in payload
    /\ rx_sdu \in payload /\ Range(delivered) \subseteq payload
    /\ report.ack_sn \in SN /\ report.nacks \subseteq SN

Payloads(f) == UNION {Range(f[sn]) : sn \in DOMAIN f}

\* Units of the stream the sending side has let go of: those before what it
\* still keeps in its window.
Released == {u \in 0 .. taken - 1 : \A sn \in DOMAIN tx_window : \A v \in Range(tx_window[sn]) : u < v}

PeerHas == Payloads(delivered) \union Range(rx_sdu) \union Payloads(rx_window)

\* The peer has all of them: acknowledged data is never needed again.
ReleasedReceived == Released \subseteq PeerHas

\* The two windows slide along each other: what the receiving side waits for
\* is in the sending side's window, what counts as lost lies between it and the
\* highest number seen, and nothing was seen that was not sent.
WindowsAgree ==
    LET at(sn) == MOD_BASE(sn, vt_a)
    IN  /\ at(vr_r) <= at(vr_h) /\ at(vr_h) <= at(vt_s)
        /\ reordering_timer => at(vr_r) < at(vr_x) /\ at(vr_x) <= at(vr_h)

\* What was lost does not stay lost: the peer asks for it or it is sent again
\* anyway.
Missed(sn) ==
    /\ sn \in DOMAIN tx_window
    /\ ~ Range(tx_window[sn]) \subseteq PeerHas
    /\ \A i \in DOMAIN air : air[i].sn # sn
RequestedAgain == \A sn \in SN : Missed(sn) ~> ~Missed(sn)

\* An SDU comes out once, complete and in order, whatever is lost, overtaken,
\* sent again or cut in segments.
Link == INSTANCE ReliableLink WITH
          Message <- Sdu, Backlog <- 0, given <- written, got <- delivered
InOrder == Link!Init /\ [][Link!Next]_<<written, delivered>>

\* Every SDU comes out as long as PDCP has more to send: a sending side that may
\* not use a new number sends old ones again until the peer has them.  An SDU may
\* only stay behind while less than a window of others has followed it.
BusyLink == INSTANCE ReliableLink WITH
          Message <- Sdu, Backlog <- RLC_AM_WINDOW_SIZE, given <- written, got <- delivered
ReliableIfBusy == BusyLink!Spec
=============================================================================
