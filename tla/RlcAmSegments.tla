------------------------------ MODULE RlcAmSegments ------------------------------
(***************************************************************************)
(* A data PDU that is sent again in segments, as grants have room for it:  *)
(* build_segment of the sending side cuts its table of length indicators   *)
(* (LI) and its framing info (FI), and add_segment_and_check of the        *)
(* receiving side puts them together again.  This is byte for byte what    *)
(* RlcAmTx and RlcAmRx leave out of their segments.                        *)
(*                                                                         *)
(* A header is [start, end, li]: whether the PDU starts and ends where an  *)
(* SDU does (FI), and how long all but the last of its pieces of SDUs are. *)
(***************************************************************************)
EXTENDS Integers, FiniteSets, Sequences, SequencesExt

CONSTANTS
    Lengths,       \* bytes of the last piece of an SDU
    Headers,       \* tables of length indicators of the PDUs
    Grants,        \* bytes a grant may have
    MaxAttempts,   \* bound: times the PDU is sent again
    MaxCramped,    \* bound: segments cut from a Cramped grant
    MaxAir         \* bound: segments under way

ASSUME SegmentsAssumption ==
    /\ Lengths \subseteq Nat \ {0} /\ Grants \subseteq Nat
    /\ Headers \subseteq Seq(Nat \ {0})
    /\ {MaxAttempts, MaxCramped, MaxAir} \subseteq Nat

VARIABLES
    header, N_bytes,    \* header and payload length of the PDU in tx_window
    so_start,           \* so_start of the head of retx_queue
    attempts,
    air,                \* segments under way
    segments,           \* rx_segments[sn].segments of the receiving side
    handled,            \* the headers handle_data_pdu was called with
    cramped             \* history: how many segments were cut from a Cramped grant

vars == <<header, N_bytes, so_start, attempts, air, segments, handled, cramped>>

total(seq) == FoldLeft(LAMBDA a, b : a + b, 0, seq)

\* rlc_am_packed_length: 2 bytes, 2 more for a segment, 12 bits for each LI.
packed_length(rf, N_li) == (IF rf THEN 4 ELSE 2) + (3 * N_li + 1) \div 2

\* What a uint32_t difference comes to: a negative one is huge.
Unsigned(n) == IF n < 0 THEN 2^30 ELSE n

-----------------------------------------------------------------------------
(* The sending side                                                        *)

\* Mutation: no byte is kept for the LIs still to come.
Room_NoReserve(grant, li) == Unsigned(grant - packed_length(TRUE, Len(li)))

\* Each round of the loop of build_segment reckons the room anew, and keeps one
\* byte for each LI of the PDU besides the LIs there are by then.
Room(grant, li) == Unsigned(grant - packed_length(TRUE, Len(li)) - Len(header.li))

\* The loop of build_segment over the LIs of the PDU.
LiLoop(grant, start) ==
    LET Round(seg, len) ==
          LET upper == seg.lower + len
              space == Room(grant, seg.li)
              end   == IF space < seg.so_end - so_start THEN so_start + space ELSE seg.so_end
              li    == (IF upper > end THEN end ELSE upper)
                         - (IF seg.lower < so_start THEN so_start ELSE seg.lower)
              next  == [seg EXCEPT !.lower = upper, !.space = space, !.so_end = end]
          IN  IF seg.lower >= seg.so_end \/ seg.space <= 2 THEN [seg EXCEPT !.space = 0]
              ELSE IF upper <= so_start \/ seg.lower >= end THEN next
              ELSE [next EXCEPT
                      !.start = @ \/ (seg.lower > 0 /\ seg.lower = so_start),
                      !.end   = @ \/ upper = end,
                      !.li    = IF end > upper THEN Append(@, li) ELSE @]
    IN  FoldLeft(Round, start, header.li)

build_segment(grant) ==
    LET head  == packed_length(TRUE, 0) + (IF header.li # <<>> THEN 2 ELSE 0)
        space == grant - head
        end   == IF space < N_bytes - so_start THEN so_start + space ELSE N_bytes
        seg   == LiLoop(grant, [lower |-> 0, space |-> space, so_end |-> end, li |-> <<>>,
                                start |-> so_start = 0 /\ header.start, end |-> FALSE])
        lsf   == seg.so_end = N_bytes
    IN  [so |-> so_start, len |-> seg.so_end - so_start, lsf |-> lsf,
         start |-> seg.start, end |-> seg.end \/ (lsf /\ header.end), li |-> seg.li]

\* The grant has room for a segment, but not for the PDU as it is.
Segmented(grant) ==
    /\ so_start > 0 \/ packed_length(FALSE, Len(header.li)) + N_bytes > grant
    /\ grant > packed_length(TRUE, 0) + (IF header.li # <<>> THEN 2 ELSE 0)

\* So small for the LIs of the PDU that the loop may be left (pdu_space <= 2)
\* before it has seen all of those the segment reaches: what Room starts from is
\* grant - 6 and, from the first round on, at most grant - 4 - N_li.
Cramped(grant) ==
    header.li # <<>> /\ (grant - 6 <= 2 \/ grant - 4 - Len(header.li) <= 2)

\* So small that the difference itself goes below zero.
Underflows(grant) == grant < packed_length(TRUE, 0) + Len(header.li)

-----------------------------------------------------------------------------
(* The receiving side                                                      *)

\* add_segment_and_check: the LIs of all segments, one after the other, with what
\* a segment leaves over at its end carried into the next.
Reconstructed(segs) ==
    LET Join(h, seg) ==
          LET count  == total(seg.li)
              glued  == h.li \o [i \in DOMAIN seg.li |->
                                   IF i = 1 THEN seg.li[1] + h.carryover ELSE seg.li[i]]
              tooFar == count > seg.len
              li     == IF tooFar THEN Front(glued) ELSE glued
              carry  == IF tooFar THEN seg.len - (count - Last(glued))
                        ELSE IF seg.li = <<>> THEN h.carryover + seg.len
                        ELSE seg.len - count
          IN  IF seg.end /\ ~seg.lsf
              THEN [li |-> Append(li, carry), carryover |-> 0]
              ELSE [li |-> li, carryover |-> carry]
    IN  [start |-> Head(segs).start, end |-> Last(segs).end,
         li |-> FoldLeft(Join, [li |-> <<>>, carryover |-> 0], segs).li]

\* Where the segments there are end, 0 if there are none.
SegmentsEnd == IF segments = <<>> THEN 0 ELSE Last(segments).so + Last(segments).len

\* Mutation: that the first one starts the PDU is not checked.
InOneRow_Unchecked(segs) == TRUE

InOneRow(segs) ==
    \A i \in DOMAIN segs : segs[i].so = total([j \in 1 .. i - 1 |-> segs[j].len])

\* handle_data_pdu_segment and add_segment_and_check: the first one is kept as it
\* is, one at the start of the PDU replaces the others, and any other has to
\* continue them.
HandleSegment(seg) ==
    LET kept == IF segments = <<>> \/ seg.so = 0 THEN <<seg>>
                ELSE IF seg.so = SegmentsEnd THEN Append(segments, seg)
                ELSE segments
        complete == seg.so # 0 /\ segments # <<>> /\ seg.so = SegmentsEnd
                      /\ InOneRow(kept) /\ seg.lsf
    IN  IF complete
        THEN segments' = <<>> /\ handled' = Append(handled, Reconstructed(kept))
        ELSE segments' = kept /\ UNCHANGED handled

-----------------------------------------------------------------------------
Init ==
    /\ \E li \in Headers, last \in Lengths :
         /\ \E start, end \in BOOLEAN : header = [start |-> start, end |-> end, li |-> li]
         /\ N_bytes = total(li) + last
    /\ so_start = 0 /\ attempts = 1
    /\ air = {}
    /\ segments = <<>> /\ handled = <<>> /\ cramped = 0

\* A grant of the MAC; the rest stays at the head of retx_queue.
Send(grant) ==
    /\ so_start < N_bytes /\ handled = <<>>
    /\ Segmented(grant) /\ Cardinality(air) < MaxAir
    /\ LET seg == build_segment(grant)
       IN  so_start' = seg.so + seg.len /\ air' = air \union {seg}
    /\ cramped' = cramped + (IF Cramped(grant) THEN 1 ELSE 0) /\ cramped' <= MaxCramped
    /\ UNCHANGED <<header, N_bytes, attempts, segments, handled>>

\* HARQ brings the segments in any order, and loses some.
Arrives(seg) ==
    /\ handled = <<>>
    /\ air' = air \ {seg}
    /\ HandleSegment(seg)
    /\ UNCHANGED <<header, N_bytes, so_start, attempts, cramped>>
Lost(seg) ==
    /\ handled = <<>>
    /\ air' = air \ {seg}
    /\ UNCHANGED <<header, N_bytes, so_start, attempts, segments, handled, cramped>>

\* A report of the peer names the PDU as missing, and never a part of it: what was
\* left at the head of retx_queue is flushed.
Again ==
    /\ so_start > 0 /\ handled = <<>>
    /\ attempts < MaxAttempts /\ attempts' = attempts + 1
    /\ so_start' = 0
    /\ UNCHANGED <<header, N_bytes, air, segments, handled, cramped>>

Next ==
    \/ Again
    \/ \E grant \in Grants : Send(grant)
    \/ \E seg \in air : Arrives(seg) \/ Lost(seg)

Spec == Init /\ [][Next]_vars

-----------------------------------------------------------------------------
(* Properties                                                              *)

\* What is handed to handle_data_pdu in place of the PDU has its header, even if
\* the segments are of more than one attempt, unless one of them was cut from a
\* Cramped grant: then the loop of build_segment (rlc_am.cc:710) may forget that
\* the segment ends where an SDU does, or some of its LIs, and SDUs run together.
HeaderRestored == cramped = 0 => \A i \in DOMAIN handled : handled[i] = header

\* No segment is longer than its grant, which build_segment itself only logs.  It
\* may be for a grant with less than a byte for each LI of the PDU after the fixed
\* part of the header: there pdu_space (rlc_am.cc:721) wraps, and cuts nothing.
FitsGrant ==
    \A grant \in Grants :
      Segmented(grant) /\ so_start < N_bytes =>
        LET seg == build_segment(grant)
        IN  Underflows(grant) \/ packed_length(TRUE, Len(seg.li)) + seg.len <= grant
=============================================================================
