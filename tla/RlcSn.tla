---------------------------------- MODULE RlcSn ----------------------------------
(***************************************************************************)
(* What the RLC entities share, acknowledged or not (srslte::rlc_am and    *)
(* srslte::rlc_um, the same files in the eNB and the UE tree): sequence    *)
(* numbers, and the stream of SDUs that PDUs are cut from.                 *)
(*                                                                         *)
(* The bytes of all SDUs, one SDU after the other, are one stream; the     *)
(* model counts it in units of which an SDU has SduUnits.  The payload of  *)
(* a PDU is a sequence of units, each named by its place in the stream.    *)
(***************************************************************************)
EXTENDS Integers, FiniteSets, Sequences

CONSTANTS
    MOD,         \* number of sequence numbers: 1024, or 32 for a short UM number
    SduUnits     \* units of an SDU

ASSUME StreamAssumption == MOD \in Nat \ {0} /\ SduUnits \in Nat \ {0}

SN == 0 .. MOD - 1

\* Mutation: the number after the last is not 0.
Shift_Unbounded(sn, n) == sn + n

\* The n-th sequence number after sn.
Shift(sn, n) == (sn + n) % MOD

\* A function, cut down to the sequence numbers in S.
Keep(f, S) == [sn \in DOMAIN f \intersect S |-> f[sn]]

\* What std::map::operator[] does to f when sn is assigned v.
Put(f, sn, v) == [x \in DOMAIN f \union {sn} |-> IF x = sn THEN v ELSE f[x]]

Units(from, to) == [i \in 1 .. to - from |-> from + i - 1]

\* The last unit of an SDU: an LI ends there, or the PDU ends aligned with it.
EndsSdu(unit) == (unit + 1) % SduUnits = 0
Sdu(k) == Units(k * SduUnits, (k + 1) * SduUnits)
=============================================================================
