---------------------------------- MODULE RlcUm ----------------------------------
(***************************************************************************)
(* A bearer in unacknowledged mode (srslte::rlc_um): the sending side of   *)
(* one entity, the receiving side of its peer and the radio between them,  *)
(* on which HARQ loses PDUs and lets one overtake another.  Nothing is     *)
(* sent again; a timer decides when a missing number counts as lost.       *)
(*                                                                         *)
(* Each handler holds the mutex of its side throughout and is one action,  *)
(* except that an expiry has two steps: timers::step stops the timer and   *)
(* calls back, and the callback gets the mutex, maybe after a PDU did.     *)
(***************************************************************************)
EXTENDS RlcSn, FiniteSetsExt, SequencesExt

CONSTANTS
    rx_window_size,  \* cfg.rx_window_size: 512, 16 with short numbers, 0 for an MRB
    Grants,          \* units of payload a grant of the MAC may have room for
    Brink,           \* a grant may have two bytes more than the end of an SDU needs
    MaxSdu,          \* bound: SDUs that PDCP writes
    MaxAir,          \* bound: PDUs under way
    MaxLosses,       \* bound: PDUs HARQ loses
    Overtaking       \* a PDU may overtake another

ASSUME UmAssumption ==
    /\ rx_window_size = 0 \/ MOD = 2 * rx_window_size
    /\ Grants \subseteq Nat \ {0}
    /\ {rx_window_size, MaxSdu, MaxAir, MaxLosses} \subseteq Nat
    /\ {Brink, Overtaking} \subseteq BOOLEAN

VARIABLES
    written,          \* SDUs PDCP has written
    taken,            \* units of them that are in PDUs
    tx_sdu,           \* tx_sdu is not NULL: an SDU is begun and not finished
    vt_us,            \* number of the next PDU
    bare,             \* history: where an SDU was begun with none of its bytes
    air,              \* PDUs under way, in order of sending
    lost,             \* units in PDUs that HARQ lost or that came too late
    losses,
    disturbed,        \* a PDU was lost or the reordering timer has expired
    vr_ux, vr_uh,     \* number after the one that started the timer; after the highest
    assembly,         \* what reassemble_rx_sdus works on, see below
    reordering_timer, \* the timer is running
    expiring          \* timers::step has called back

tx == <<written, taken, tx_sdu, vt_us, bare>>
link == <<air, lost, losses>>
rx == <<vr_ux, vr_uh, assembly, reordering_timer, expiring>>
vars == <<tx, link, disturbed, rx>>

-----------------------------------------------------------------------------
(* Sending                                                                 *)

WriteSdu ==
    /\ written < MaxSdu /\ written' = written + 1
    /\ UNCHANGED <<taken, tx_sdu, vt_us, bare, link, disturbed, rx>>

\* The parts of SDUs that a PDU with the units from .. to - 1 holds; an LI ends
\* each but the last.
Pieces(from, to) ==
    LET first == from \div SduUnits
        last  == (to - 1) \div SduUnits
    IN  [j \in 1 .. last - first + 1 |->
            Units(Max({from, (first + j - 1) * SduUnits}), Min({to, (first + j) * SduUnits}))]

\* build_data_pdu.  The loop that pulls SDUs checks the room before it adds the LI
\* that the next SDU needs; an LI takes two bytes or one, in turn.  Two bytes of
\* room can so become none, and the SDU is begun with none of its bytes.
BuildDataPdu(room, brink) ==
    LET to     == Min({taken + room, written * SduUnits})
        pieces == Pieces(taken, to)
    IN  /\ taken < written * SduUnits /\ Len(air) < MaxAir
        /\ brink => EndsSdu(to - 1) /\ to < written * SduUnits /\ Len(pieces) % 2 = 1
        /\ tx_sdu' = (brink \/ ~EndsSdu(to - 1))
        /\ air' = Append(air, [sn |-> vt_us, start |-> ~tx_sdu, end |-> ~tx_sdu', late |-> FALSE,
                               pieces |-> IF brink THEN Append(pieces, <<>>) ELSE pieces])
        /\ taken' = to /\ vt_us' = Shift(vt_us, 1)
        /\ bare' = IF brink THEN bare \union {to} ELSE bare
        /\ UNCHANGED <<written, lost, losses, disturbed, rx>>

-----------------------------------------------------------------------------
(* Reassembly.  An assembly has                                            *)
(*   ur    vr_ur, the next number to reassemble                            *)
(*   last  vr_ur_in_rx_sdu, the number last copied from                    *)
(*   lost  pdu_lost                                                        *)
(*   win   rx_window, a map from sequence number to PDU                    *)
(*   sdu   rx_sdu, the SDU being put together                              *)
(*   out   what PDCP got, SDU by SDU                                       *)

RX_MOD_BASE(sn, uh) == (sn - uh - rx_window_size) % MOD

inside_reordering_window(sn, uh, win) ==
    \/ rx_window_size = 0 \/ win = <<>>
    \/ /\ RX_MOD_BASE(uh - rx_window_size, uh) <= RX_MOD_BASE(sn, uh)
       /\ RX_MOD_BASE(sn, uh) < RX_MOD_BASE(uh, uh)

\* Mutation: the number need not be the next.
belongs_Always(a) == TRUE

\* pdu_belongs_to_rx_sdu
belongs(a) == a.ur \in {a.last, Shift(a.last, 1)}

\* a has copied from its PDU and is done with it.
NextNumber(a) == [a EXCEPT !.win = Keep(a.win, SN \ {a.ur}), !.ur = Shift(a.ur, 1)]

\* The last piece of a PDU is copied, and is an SDU's end if there is no more.
CopyLast(a, pdu) ==
    LET whole == Append(a.out, a.sdu \o Last(pdu.pieces))
        drops == a.lost /\ ~pdu.start
    IN  IF ~pdu.end
        THEN [a EXCEPT !.sdu = a.sdu \o Last(pdu.pieces), !.last = a.ur]
        ELSE [a EXCEPT !.sdu = <<>>, !.last = a.ur, !.lost = FALSE,
                       !.out = IF drops THEN a.out ELSE whole]

\* The pieces that an LI ends, the first after what there is of its SDU.
Ended(a, pdu) == [i \in 1 .. Len(pdu.pieces) - 1 |->
                    IF i = 1 THEN a.sdu \o pdu.pieces[1] ELSE pdu.pieces[i]]

\* All of them are dealt with; the ones in sdus go to PDCP.
GiveEnded(a, pdu, sdus) ==
    IF Len(pdu.pieces) = 1 THEN a
    ELSE [a EXCEPT !.out = a.out \o sdus, !.sdu = <<>>, !.lost = FALSE]

\* The first loop, a PDU that the window has left behind.  All SDUs that an LI
\* ends are dropped if the PDU is not the next one after the last copied, and the
\* piece after an LI is only copied if the PDU starts with an SDU.
CopyBehind(a, pdu) ==
    LET ended == Ended(a, pdu)
        sdus  == IF Shift(a.last, 1) # a.ur THEN <<>>
                 ELSE IF a.lost /\ ~pdu.start /\ ended # <<>> THEN Tail(ended) ELSE ended
        b     == GiveEnded(a, pdu, sdus)
    IN  IF a.sdu = <<>> /\ ~pdu.start THEN a
        ELSE IF b.sdu # <<>> \/ pdu.start THEN CopyLast(b, pdu) ELSE b

\* The second loop, a PDU that is next in order.
CopyNext(a0, pdu) ==
    LET a     == IF belongs(a0) THEN a0 ELSE [a0 EXCEPT !.lost = FALSE, !.sdu = <<>>]
        ended == Ended(a, pdu)
        headless == a.sdu = <<>> /\ ~pdu.start
        sdus  == IF headless /\ ended # <<>> THEN Tail(ended) ELSE ended
    IN  IF headless /\ ended = <<>> THEN a ELSE CopyLast(GiveEnded(a, pdu, sdus), pdu)

\* Passes of a loop, MOD at most; a pass leaves alone what ends the loop.  after[n]
\* has one member, what there is after n passes, so that TLC evaluates it once.
Loop(Pass(_), a) ==
    LET after[n \in 0 .. MOD] == IF n = 0 THEN {a} ELSE {Pass(b) : b \in after[n - 1]}
    IN  CHOOSE b \in after[MOD] : TRUE

\* A pass of the first loop of reassemble_rx_sdus: on to the edge of the window.
Behind(a, uh) ==
    IF inside_reordering_window(a.ur, uh, a.win) THEN a
    ELSE IF a.ur \in DOMAIN a.win THEN NextNumber(CopyBehind(a, a.win[a.ur]))
    ELSE [a EXCEPT !.sdu = <<>>, !.ur = Shift(a.ur, 1)]

\* A pass of the second: on to the next missing number.
Onward(a) == IF a.ur \in DOMAIN a.win THEN NextNumber(CopyNext(a, a.win[a.ur])) ELSE a

\* reassemble_rx_sdus: both loops, one after the other.
CatchUp(a, uh) == Loop(LAMBDA b : Behind(b, uh), a)
Reassemble(a, uh) == Loop(Onward, CatchUp(a, uh))

-----------------------------------------------------------------------------
(* Receiving                                                               *)

\* Something before uh is missing.
Waits(uh, a) == RX_MOD_BASE(uh, uh) > RX_MOD_BASE(a.ur, uh)

\* The timer is for what is missing before vr_ux.
SetTimer(runs, starts, uh) ==
    /\ reordering_timer' = (runs \/ starts)
    /\ vr_ux' = IF starts THEN uh ELSE vr_ux

\* Mutation: the next number to reassemble counts as delivered.
TooLate_Edge(sn) ==
    /\ RX_MOD_BASE(sn, vr_uh) >= RX_MOD_BASE(vr_uh - rx_window_size, vr_uh)
    /\ RX_MOD_BASE(sn, vr_uh) <= RX_MOD_BASE(assembly.ur, vr_uh)

\* The number was delivered or given up.
TooLate(sn) ==
    /\ RX_MOD_BASE(sn, vr_uh) >= RX_MOD_BASE(vr_uh - rx_window_size, vr_uh)
    /\ RX_MOD_BASE(sn, vr_uh) < RX_MOD_BASE(assembly.ur, vr_uh)

\* handle_data_pdu
HandleDataPdu(pdu) ==
    LET win  == Put(assembly.win, pdu.sn, pdu)
        uh   == IF inside_reordering_window(pdu.sn, vr_uh, win) THEN vr_uh ELSE Shift(pdu.sn, 1)
        a    == Reassemble([assembly EXCEPT !.win = win], uh)
        runs == reordering_timer /\ ~(\/ RX_MOD_BASE(vr_ux, uh) <= RX_MOD_BASE(a.ur, uh)
                                      \/ ~inside_reordering_window(vr_ux, uh, a.win) /\ vr_ux # uh)
    IN  IF TooLate(pdu.sn) \/ pdu.sn \in DOMAIN assembly.win
        THEN /\ lost' = lost \union UNION {Range(piece) : piece \in Range(pdu.pieces)}
             /\ UNCHANGED rx
        ELSE /\ vr_uh' = uh /\ assembly' = a
             /\ SetTimer(runs, ~runs /\ Waits(uh, a), uh)
             /\ UNCHANGED <<expiring, lost>>

\* The i-th PDU under way arrives: the first, or the second if the first was not
\* overtaken before (a bound on delay).
PduArrives(i) ==
    /\ i \in DOMAIN air
    /\ i = 2 => Overtaking /\ ~air[1].late
    /\ air' = RemoveAt(IF i = 2 THEN [air EXCEPT ![1].late = TRUE] ELSE air, i)
    /\ HandleDataPdu(air[i])
    /\ UNCHANGED <<tx, losses, disturbed>>

\* timers::step counts the timer to its timeout.
TimerStep ==
    /\ reordering_timer /\ reordering_timer' = FALSE /\ expiring' = TRUE
    /\ UNCHANGED <<tx, link, disturbed, vr_ux, vr_uh, assembly>>

\* The loop of timer_expired: the numbers missing before vr_ux are passed over.
Skip(a) ==
    IF RX_MOD_BASE(a.ur, vr_uh) < RX_MOD_BASE(vr_ux, vr_uh)
      THEN Reassemble([a EXCEPT !.ur = Shift(a.ur, 1)], vr_uh) ELSE a
SkipMissing(a) == Loop(Skip, a)

\* Mutation: the numbers missing behind vr_ux are not waited for.
TimerExpired_Once ==
    /\ expiring /\ expiring' = FALSE
    /\ disturbed' = TRUE
    /\ assembly' = SkipMissing([assembly EXCEPT !.lost = TRUE, !.sdu = <<>>])
    /\ UNCHANGED <<tx, link, vr_ux, vr_uh, reordering_timer>>

\* timer_expired.  It runs even if the timer was stopped or started again in the
\* meantime, and drops the SDU being put together.
TimerExpired ==
    /\ expiring /\ expiring' = FALSE
    /\ disturbed' = TRUE
    /\ assembly' = SkipMissing([assembly EXCEPT !.lost = TRUE, !.sdu = <<>>])
    /\ SetTimer(reordering_timer, Waits(vr_uh, assembly'), vr_uh)
    /\ UNCHANGED <<tx, link, vr_uh>>

\* HARQ has used up its retransmissions.
LosePdu(i) ==
    /\ i \in DOMAIN air /\ losses < MaxLosses
    /\ losses' = losses + 1 /\ disturbed' = TRUE
    /\ lost' = lost \union UNION {Range(piece) : piece \in Range(air[i].pieces)}
    /\ air' = RemoveAt(air, i)
    /\ UNCHANGED <<tx, rx>>

UmInit ==
    /\ written = 0 /\ taken = 0 /\ tx_sdu = FALSE /\ vt_us = 0 /\ bare = {}
    /\ air = <<>> /\ lost = {} /\ losses = 0 /\ disturbed = FALSE
    /\ vr_ux = 0 /\ vr_uh = 0 /\ reordering_timer = FALSE /\ expiring = FALSE
    /\ assembly = [ur |-> 0, last |-> 0, lost |-> FALSE, win |-> <<>>, sdu |-> <<>>, out |-> <<>>]

Next ==
    \/ WriteSdu
    \/ \E room \in Grants, brink \in {FALSE, Brink} : BuildDataPdu(room, brink)
    \/ \E i \in {1, 2} : PduArrives(i)
    \/ TimerStep \/ TimerExpired
    \/ \E i \in 1 .. MaxAir : LosePdu(i)

Spec == UmInit /\ [][Next]_vars

-----------------------------------------------------------------------------
(* Properties                                                              *)

UnitsOf(pdus) == UNION {UNION {Range(piece) : piece \in Range(pdu.pieces)} : pdu \in pdus}

\* Types, and that nothing in the window is before the next number to reassemble.
UmTypeOK ==
    LET stream == 0 .. MaxSdu * SduUnits - 1 IN
    /\ taken \in 0 .. written * SduUnits /\ lost \subseteq 0 .. taken - 1 /\ bare \subseteq 0 .. taken
    /\ {vt_us, vr_ux, vr_uh, assembly.ur, assembly.last} \subseteq SN
    /\ DOMAIN assembly.win \subseteq SN /\ UnitsOf(Range(assembly.win)) \subseteq 0 .. taken - 1
    /\ assembly.sdu \in Seq(stream) /\ Range(assembly.out) \subseteq Seq(stream)
    /\ \A sn \in DOMAIN assembly.win : RX_MOD_BASE(sn, vr_uh) > RX_MOD_BASE(assembly.ur, vr_uh)

\* PDCP gets whole SDUs only, none twice and none after a later one, whatever is
\* lost or overtaken, or expires as a PDU comes.
IntactInOrder ==
    /\ \A i \in DOMAIN assembly.out : \E k \in 0 .. written - 1 : assembly.out[i] = Sdu(k)
    /\ \A i, j \in DOMAIN assembly.out : i < j => Head(assembly.out[i]) < Head(assembly.out[j])

\* An SDU of which nothing was lost, is under way or waits for a missing number
\* has come out.
CameOut(k) ==
    \/ Range(Sdu(k)) \intersect (lost \union UnitsOf(Range(air)) \union UnitsOf(Range(assembly.win))) # {}
    \/ Sdu(k) \in Range(assembly.out)

\* Nothing arrives for nothing, and every SDU comes out, as long as HARQ loses
\* nothing and no timer expires, whatever the reordering: every SDU but the ones
\* that were begun in a PDU with none of their bytes.  Of those the receiver drops
\* all, since it takes what comes next for the rest of an SDU it has no start of;
\* they cost no other SDU.
CompleteIfUndisturbed ==
    ~disturbed =>
        /\ lost = {}
        /\ \A k \in 0 .. taken \div SduUnits - 1 : k * SduUnits \in bare \/ CameOut(k)

\* Only the SDUs that were in a PDU lost or too late are ever missing.
OnlyDamagedMissing == \A k \in 0 .. taken \div SduUnits - 1 : CameOut(k)

\* A missing number does not hold up the ones after it forever: whenever a PDU
\* waits for another the timer runs, or its callback is about to be, even if the
\* timer was stopped and started in between.
GapIsTimed == assembly.win # <<>> => reordering_timer \/ expiring
=============================================================================
