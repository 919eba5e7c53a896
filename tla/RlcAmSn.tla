--------------------------------- MODULE RlcAmSn ---------------------------------
(***************************************************************************)
(* What both sides of an acknowledged-mode RLC entity (srslte::rlc_am)     *)
(* share: the window.  LI and FI fields, which only say where SDUs end,    *)
(* need no copy here; RlcAmSegments has them byte for byte.                *)
(***************************************************************************)
EXTENDS RlcSn

CONSTANTS
    RLC_AM_WINDOW_SIZE,   \* 512 in the code
    HasTimers             \* the entity has its timers: TRUE after init(), FALSE
                          \* after stop() or reestablish(), which release them

ASSUME SnAssumption ==
    /\ RLC_AM_WINDOW_SIZE \in Nat \ {0, 1} /\ MOD = 2 * RLC_AM_WINDOW_SIZE
    /\ HasTimers \in BOOLEAN

\* RX_MOD_BASE and TX_MOD_BASE: how far sn is ahead of base.
MOD_BASE(sn, base) == (sn - base) % MOD
=============================================================================
