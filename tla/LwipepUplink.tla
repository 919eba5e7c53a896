------------------------------ MODULE LwipepUplink ------------------------------
(***************************************************************************)
(* The receiver of LwipepRx behind the two paths of the uplink.  The UE    *)
(* numbers its packets 0, 1, 2, ... and sends each over LTE or WLAN; a     *)
(* packet can overtake another, be lost, or arrive twice.  The sequence    *)
(* number on the GRE header is the absolute number, so the history of what *)
(* the gateway got can be compared with what was sent.                     *)
(***************************************************************************)
EXTENDS LwipepRx, SequencesExt

CONSTANTS
    MaxSent,      \* bound: packets the UE sends
    MaxCopies,    \* bound: times one packet may arrive
    Doubled,      \* bound: the packets that may arrive more than once
    MaxSpan,      \* bound: how far ahead of a packet in flight the UE may send
    LateExpiry    \* TRUE: write_pdu may run between the step of the timer that
                  \* expires it and its callback; FALSE: the callback comes first

ASSUME PduAssumption == Pdu = [seq : SeqNum, copy : 1 .. MaxCopies]
ASSUME UplinkAssumption ==
    /\ MaxSent \in Nat /\ MaxCopies \in Nat /\ LateExpiry \in BOOLEAN
    /\ SeqNum = 0 .. MaxSent - 1 /\ Doubled \subseteq SeqNum

VARIABLES
    sent,         \* tx_packet_count of the UE
    air,          \* packets in flight
    arrived,      \* copies of each packet that arrived
    delivered,    \* what the gateway got, in order
    clashed,      \* history: packets that arrived while their slot of the window held
                  \* a packet of another lap, and the packets they found there
    excused       \* the receiver was entitled to leave the order of sending: the
                  \* timer expired, a packet arrived twice, or one arrived
                  \* WINDOWS_SIZE - 1 or more ahead of a missing one

uplink == <<sent, air, arrived, delivered, clashed, excused>>

\* What get_route of the UE does with the ratio 1:1 it starts with: the first
\* two packets over LTE, then alternately WLAN and LTE.
Route(seq) == IF seq = 0 \/ seq % 2 = 1 THEN "LTE" ELSE "WLAN"

Arrived == {seq \in SeqNum : arrived[seq] > 0}
FirstMissing == Min((SeqNum \union {MaxSent}) \ Arrived)

\* The lists of the members of a set of numbers, in increasing order: there is one.
Listings(S) ==
    {steps \in [1 .. Cardinality(S) -> S] :
        /\ ToSet(steps) = S
        /\ \A i, j \in DOMAIN steps : i < j => steps[i] < steps[j]}

\* What a step of the receiver adds to the history of the gateway.
Log == \E steps \in Listings(DOMAIN out') :
          delivered' = delivered \o [i \in DOMAIN steps |-> out'[steps[i]].seq]

\* lwipep::write_sdu of the UE: the next number, on either path.
Send ==
    /\ sent < MaxSent
    /\ \A seq \in air : sent - seq < MaxSpan
    /\ air' = air \union {sent}
    /\ sent' = sent + 1
    /\ UNCHANGED <<vars, arrived, delivered, clashed, excused>>

\* The packet with another number that is in the slot of seq.
Strangers(seq) == {rx_window[sn].seq : sn \in DOMAIN rx_window \intersect {seq % BUFFER_SIZE}} \ {seq}

\* The packet reaches write_pdu; with last, no further copy of it is in flight.
Arrive(seq, last) ==
    /\ seq \in air
    /\ LateExpiry \/ ~expiring
    /\ last \/ (seq \in Doubled /\ arrived[seq] + 1 < MaxCopies)
    /\ WritePdu([seq |-> seq, copy |-> arrived[seq] + 1], seq, Route(seq))
    /\ arrived' = [arrived EXCEPT ![seq] = @ + 1]
    /\ air' = IF last THEN air \ {seq} ELSE air
    /\ excused' = (excused \/ arrived[seq] > 0 \/ seq - FirstMissing >= WINDOWS_SIZE - 1)
    /\ clashed' = clashed \union (IF Strangers(seq) = {} THEN {} ELSE {seq} \union Strangers(seq))
    /\ Log
    /\ UNCHANGED sent

Lose(seq) ==
    /\ seq \in air
    /\ air' = air \ {seq}
    /\ UNCHANGED <<vars, sent, arrived, delivered, clashed, excused>>

Tick == TimerTick /\ excused' = (excused \/ expiring') /\ UNCHANGED <<sent, air, arrived, delivered, clashed>>

Expire == TimerExpired /\ Log /\ UNCHANGED <<sent, air, arrived, clashed, excused>>

UInit ==
    /\ Init
    /\ sent = 0 /\ air = {} /\ arrived = [seq \in SeqNum |-> 0]
    /\ delivered = <<>> /\ clashed = {} /\ excused = FALSE

UNext ==
    \/ Send
    \/ \E seq \in SeqNum : \/ Lose(seq)
                        \/ \E last \in BOOLEAN : Arrive(seq, last)
    \/ Tick \/ Expire

uvars == <<vars, uplink>>

\* Only the timer is fair: packets may stay in flight for ever.
USpec == UInit /\ [][UNext]_uvars /\ WF_uvars(Tick) /\ WF_uvars(Expire)

-----------------------------------------------------------------------------
Buffered == {rx_window[sn].seq : sn \in DOMAIN rx_window}
Base(sn) == RX_MOD_BASE(sn, current_max_sn)

\* Reordering on the two paths is invisible to the gateway: it gets exactly the
\* packets before the first missing one, in the order sent, until the receiver
\* is entitled to give one up.
InOrderUntilExcused == ~excused => delivered = [i \in 1 .. FirstMissing |-> i - 1]

\* Every packet that arrived was delivered or is buffered, whatever was lost,
\* overtaken, duplicated or given up in between and however often the numbers are
\* used again, but for those that met in their slot a packet of another lap: a packet
\* that comes late, after the timer has given it up, is kept behind next_sn, and one
\* of the two is dropped when its number comes again.
NothingLost == Arrived \ clashed \subseteq ToSet(delivered) \union Buffered

\* The gateway gets no packet more often than it arrived.
NoExtraCopies == \A seq \in SeqNum : Cardinality({i \in DOMAIN delivered : delivered[i] = seq}) <= arrived[seq]

\* A packet buffered between the missing one and current_max_sn is delivered,
\* even if nothing else ever arrives.
BufferedDrains ==
    \A seq \in SeqNum :
      (seq \in Buffered /\ Base(next_sn) < Base(seq % BUFFER_SIZE)
                        /\ Base(seq % BUFFER_SIZE) < Base(current_max_sn))
        ~> (seq \notin Buffered)
=============================================================================
