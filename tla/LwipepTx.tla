-------------------------------- MODULE LwipepTx --------------------------------
(***************************************************************************)
(* The packet scheduler of LWIPEP (UE tree): get_route splits the uplink   *)
(* between LTE and WLAN in the ratio lte_tx_ratio : wlan_tx_ratio, two     *)
(* counters that grow by the ratios and pay base_tx_ratio per packet.      *)
(*                                                                         *)
(* get_route runs in the gateway thread with the entity's mutex held; the  *)
(* ratio is set by set_lwipep_tx_ratio, which get_route calls itself       *)
(* (automatic control, mutex held) and the console thread calls without a  *)
(* lock.  A statement of either function that touches what both use is one *)
(* step, so the two threads interleave as the code lets them; the counters *)
(* are uint32_t and wrap at CounterMod.                                    *)
(***************************************************************************)
EXTENDS Integers

CONSTANTS
    ConsoleRatios,   \* pairs <<lte, wlan>> the user may enter during traffic
    AutoRatios,      \* pairs the automatic control may decide on
    CounterMod,      \* 2^32 in the code
    MaxRouted        \* bound: packets routed under one ratio

ASSUME RatioAssumption ==
    /\ CounterMod \in Nat /\ CounterMod > 2
    /\ ConsoleRatios \union AutoRatios \subseteq (0 .. CounterMod - 1) \X (0 .. CounterMod - 1)
ASSUME RoutedAssumption == MaxRouted \in Nat

Ratio == [lte : 0 .. CounterMod - 1, wlan : 0 .. CounterMod - 1]
Threads == {"gateway", "console"}

VARIABLES
    tx_ratio,        \* lte_tx_ratio and wlan_tx_ratio
    base_tx_ratio,
    ratio_count,     \* lte_tx_ratio_count and wlan_tx_ratio_count
    routed,          \* packets per path since the ratio was last set
    gw,              \* the statement of get_route the gateway is at
    at,              \* the statement of set_lwipep_tx_ratio each thread is at
    wanted,          \* its arguments, 0:0 outside of it
    aggregate,       \* enable_lwipep_write_sdu_aggregate
    disturbed        \* history: the console and get_route were both at work at
                     \* some time since the ratio was last set

vars == <<tx_ratio, base_tx_ratio, ratio_count, routed, gw, at, wanted, disturbed, aggregate>>

-----------------------------------------------------------------------------
(* set_lwipep_tx_ratio                                                     *)

Divides(d, n) == \E k \in 1 .. n : k * d = n

\* get_gcd: the loop leaves the other argument if one is 0.
get_gcd(x, y) ==
    IF x = 0 \/ y = 0 THEN x + y ELSE
    CHOOSE d \in 1 .. x : /\ Divides(d, x) /\ Divides(d, y)
                          /\ \A e \in 1 .. x : Divides(e, x) /\ Divides(e, y) => e <= d

Smaller(x, y) == IF x < y THEN x ELSE y

Zero == [lte |-> 0, wlan |-> 0]

\* The early returns: nothing asked for, no WLAN to split with, or the ratio in
\* force asked for again (compared before it is reduced).
Changes(ratio) == ratio # Zero /\ aggregate /\ ratio # tx_ratio

Goes(t, place) == at' = [at EXCEPT ![t] = place]

\* Thread t calls.
SetTxRatio(t, ratio) ==
    IF Changes(ratio) THEN Goes(t, "set lte") /\ wanted' = [wanted EXCEPT ![t] = ratio]
                      ELSE UNCHANGED <<at, wanted>>

SetLte(t) ==
    /\ at[t] = "set lte" /\ Goes(t, "set wlan")
    /\ tx_ratio' = [tx_ratio EXCEPT !.lte = wanted[t].lte]
    /\ UNCHANGED <<base_tx_ratio, ratio_count, routed, gw, wanted, disturbed, aggregate>>

SetWlan(t) ==
    /\ at[t] = "set wlan" /\ Goes(t, "test lte")
    /\ tx_ratio' = [tx_ratio EXCEPT !.wlan = wanted[t].wlan]
    /\ UNCHANGED <<base_tx_ratio, ratio_count, routed, gw, wanted, disturbed, aggregate>>

\* With one path only the base is its ratio.
TestLte(t) ==
    /\ at[t] = "test lte"
    /\ Goes(t, IF tx_ratio.lte = 0 THEN "base wlan" ELSE "test wlan")
    /\ UNCHANGED <<tx_ratio, base_tx_ratio, ratio_count, routed, gw, wanted, disturbed, aggregate>>

SetBaseWlan(t) ==
    /\ at[t] = "base wlan" /\ Goes(t, "reset lte")
    /\ base_tx_ratio' = tx_ratio.wlan
    /\ UNCHANGED <<tx_ratio, ratio_count, routed, gw, wanted, disturbed, aggregate>>

TestWlan(t) ==
    /\ at[t] = "test wlan"
    /\ Goes(t, IF tx_ratio.wlan = 0 THEN "base lte" ELSE "set gcd")
    /\ UNCHANGED <<tx_ratio, base_tx_ratio, ratio_count, routed, gw, wanted, disturbed, aggregate>>

SetBaseLte(t) ==
    /\ at[t] = "base lte" /\ Goes(t, "reset lte")
    /\ base_tx_ratio' = tx_ratio.lte
    /\ UNCHANGED <<tx_ratio, ratio_count, routed, gw, wanted, disturbed, aggregate>>

\* Otherwise the base holds the gcd for a while.
SetGcd(t) ==
    /\ at[t] = "set gcd" /\ Goes(t, "test gcd")
    /\ base_tx_ratio' = get_gcd(tx_ratio.lte, tx_ratio.wlan)
    /\ UNCHANGED <<tx_ratio, ratio_count, routed, gw, wanted, disturbed, aggregate>>

TestGcd(t) ==
    /\ at[t] = "test gcd"
    /\ Goes(t, IF base_tx_ratio > 1 THEN "divide lte" ELSE "set final base")
    /\ UNCHANGED <<tx_ratio, base_tx_ratio, ratio_count, routed, gw, wanted, disturbed, aggregate>>

DivideLte(t) ==
    /\ at[t] = "divide lte" /\ base_tx_ratio # 0 /\ Goes(t, "divide wlan")
    /\ tx_ratio' = [tx_ratio EXCEPT !.lte = @ \div base_tx_ratio]
    /\ UNCHANGED <<base_tx_ratio, ratio_count, routed, gw, wanted, disturbed, aggregate>>

DivideWlan(t) ==
    /\ at[t] = "divide wlan" /\ base_tx_ratio # 0 /\ Goes(t, "set final base")
    /\ tx_ratio' = [tx_ratio EXCEPT !.wlan = @ \div base_tx_ratio]
    /\ UNCHANGED <<base_tx_ratio, ratio_count, routed, gw, wanted, disturbed, aggregate>>

\* The other thread has set the base to 0 since: the division ends the process.
DivideByZero(t) ==
    /\ at[t] \in {"divide lte", "divide wlan"} /\ base_tx_ratio = 0
    /\ at' = [u \in Threads |-> "crashed"] /\ gw' = "crashed"
    /\ UNCHANGED <<tx_ratio, base_tx_ratio, ratio_count, routed, wanted, disturbed, aggregate>>

\* Mutation: a packet costs the larger ratio.
SetFinalBaseLarger(t) ==
    /\ at[t] = "set final base" /\ Goes(t, "reset lte")
    /\ base_tx_ratio' = IF tx_ratio.lte < tx_ratio.wlan THEN tx_ratio.wlan ELSE tx_ratio.lte
    /\ UNCHANGED <<tx_ratio, ratio_count, routed, gw, wanted, disturbed, aggregate>>

SetFinalBase(t) ==
    /\ at[t] = "set final base" /\ Goes(t, "reset lte")
    /\ base_tx_ratio' = Smaller(tx_ratio.lte, tx_ratio.wlan)
    /\ UNCHANGED <<tx_ratio, ratio_count, routed, gw, wanted, disturbed, aggregate>>

ResetLte(t) ==
    /\ at[t] = "reset lte" /\ Goes(t, "reset wlan")
    /\ ratio_count' = [ratio_count EXCEPT !.lte = 0]
    /\ UNCHANGED <<tx_ratio, base_tx_ratio, routed, gw, wanted, disturbed, aggregate>>

ResetWlan(t) ==
    /\ at[t] = "reset wlan" /\ Goes(t, "out")
    /\ ratio_count' = [ratio_count EXCEPT !.wlan = 0]
    /\ routed' = Zero /\ wanted' = [wanted EXCEPT ![t] = Zero]
    /\ UNCHANGED <<tx_ratio, base_tx_ratio, gw, disturbed, aggregate>>

RatioSteps(t) ==
    \/ SetLte(t) \/ SetWlan(t)
    \/ TestLte(t) \/ SetBaseWlan(t) \/ TestWlan(t) \/ SetBaseLte(t)
    \/ SetGcd(t) \/ TestGcd(t) \/ DivideLte(t) \/ DivideWlan(t) \/ DivideByZero(t)
    \/ SetFinalBase(t) \/ ResetLte(t) \/ ResetWlan(t)

(* The console. *)

ConsoleRatio(ratio) ==
    /\ at["console"] = "out" /\ Changes(ratio)
    /\ SetTxRatio("console", ratio)
    /\ disturbed' = (gw # "idle")
    /\ UNCHANGED <<tx_ratio, base_tx_ratio, ratio_count, routed, gw, aggregate>>

\* set_lwipep_wlan switches the splitting on or off.
SetLwipepWlan(on) ==
    /\ at["console"] = "out"
    /\ aggregate' = on
    /\ UNCHANGED <<tx_ratio, base_tx_ratio, ratio_count, routed, gw, at, wanted, disturbed>>

-----------------------------------------------------------------------------
(* get_route                                                               *)

\* uint32_t arithmetic.
Plus(x, y)  == (x + y) % CounterMod
MinusSigned(x, y) == x - y   \* mutation: the counters are signed
Minus(x, y) == (x - y) % CounterMod

\* A packet to route; MaxRouted bounds the packets under one ratio.
RouteBegin ==
    /\ gw = "idle" /\ routed.lte + routed.wlan < MaxRouted
    /\ gw' = "fill"
    /\ disturbed' = (disturbed \/ at["console"] # "out")
    /\ UNCHANGED <<tx_ratio, base_tx_ratio, ratio_count, routed, at, wanted, aggregate>>

\* The same, with a decision of the automatic control to apply first.
RouteUpdate(ratio) ==
    /\ gw = "idle" /\ routed.lte + routed.wlan < MaxRouted
    /\ gw' = "fill"
    /\ SetTxRatio("gateway", ratio)
    /\ disturbed' = (at["console"] # "out" \/ (disturbed /\ ~Changes(ratio)))
    /\ UNCHANGED <<tx_ratio, base_tx_ratio, ratio_count, routed, aggregate>>

\* Mutation: the loop goes on until both paths can pay.
RouteFillBoth ==
    /\ gw = "fill" /\ at["gateway"] = "out"
    /\ gw' = IF ratio_count.lte <= base_tx_ratio \/ ratio_count.wlan <= base_tx_ratio
               THEN "add lte" ELSE "choose"
    /\ UNCHANGED <<tx_ratio, base_tx_ratio, ratio_count, routed, at, wanted, disturbed, aggregate>>

\* The test of "while(lte_tx_ratio_count <= base && wlan_tx_ratio_count <= base)".
RouteFill ==
    /\ gw = "fill" /\ at["gateway"] = "out"
    /\ gw' = IF ratio_count.lte <= base_tx_ratio /\ ratio_count.wlan <= base_tx_ratio
               THEN "add lte" ELSE "choose"
    /\ UNCHANGED <<tx_ratio, base_tx_ratio, ratio_count, routed, at, wanted, disturbed, aggregate>>

RouteAddLte ==
    /\ gw = "add lte" /\ gw' = "add wlan"
    /\ ratio_count' = [ratio_count EXCEPT !.lte = Plus(@, tx_ratio.lte)]
    /\ UNCHANGED <<tx_ratio, base_tx_ratio, routed, at, wanted, disturbed, aggregate>>

RouteAddWlan ==
    /\ gw = "add wlan" /\ gw' = "fill"
    /\ ratio_count' = [ratio_count EXCEPT !.wlan = Plus(@, tx_ratio.wlan)]
    /\ UNCHANGED <<tx_ratio, base_tx_ratio, routed, at, wanted, disturbed, aggregate>>

RouteChooseLte ==
    /\ gw = "choose"
    /\ gw' = IF ratio_count.lte >= base_tx_ratio THEN "pay lte" ELSE "choose wlan"
    /\ UNCHANGED <<tx_ratio, base_tx_ratio, ratio_count, routed, at, wanted, disturbed, aggregate>>

\* If neither can pay the packet goes over LTE all the same.
RouteChooseWlan ==
    /\ gw = "choose wlan"
    /\ gw' = IF ratio_count.wlan >= base_tx_ratio THEN "pay wlan" ELSE "pay lte"
    /\ UNCHANGED <<tx_ratio, base_tx_ratio, ratio_count, routed, at, wanted, disturbed, aggregate>>

RoutePayLte ==
    /\ gw = "pay lte" /\ gw' = "idle"
    /\ ratio_count' = [ratio_count EXCEPT !.lte = Minus(@, base_tx_ratio)]
    /\ routed' = [routed EXCEPT !.lte = @ + 1]
    /\ UNCHANGED <<tx_ratio, base_tx_ratio, at, wanted, disturbed, aggregate>>

RoutePayWlan ==
    /\ gw = "pay wlan" /\ gw' = "idle"
    /\ ratio_count' = [ratio_count EXCEPT !.wlan = Minus(@, base_tx_ratio)]
    /\ routed' = [routed EXCEPT !.wlan = @ + 1]
    /\ UNCHANGED <<tx_ratio, base_tx_ratio, at, wanted, disturbed, aggregate>>

RouteSteps ==
    \/ RouteFill \/ RouteAddLte \/ RouteAddWlan
    \/ RouteChooseLte \/ RouteChooseWlan \/ RoutePayLte \/ RoutePayWlan

-----------------------------------------------------------------------------
Init ==
    /\ tx_ratio = [lte |-> 1, wlan |-> 1] /\ base_tx_ratio = 1
    /\ ratio_count = Zero /\ routed = Zero
    /\ gw = "idle" /\ at = [t \in Threads |-> "out"] /\ wanted = [t \in Threads |-> Zero]
    /\ disturbed = FALSE /\ aggregate = TRUE

Next ==
    \/ RouteBegin
    \/ \E r \in AutoRatios : RouteUpdate([lte |-> r[1], wlan |-> r[2]])
    \/ RouteSteps
    \/ \E r \in ConsoleRatios : ConsoleRatio([lte |-> r[1], wlan |-> r[2]])
    \/ \E t \in Threads : RatioSteps(t)
    \/ \E on \in BOOLEAN : SetLwipepWlan(on)

\* Both threads keep running once they are inside their functions.
Spec ==
    /\ Init /\ [][Next]_vars
    /\ WF_vars(RouteSteps) /\ \A t \in Threads : WF_vars(RatioSteps(t))

-----------------------------------------------------------------------------
Quiet == gw = "idle" /\ at["console"] = "out"

RatioPlaces == {"out", "set lte", "set wlan", "test lte", "base wlan", "test wlan", "base lte", "set gcd",
                "test gcd", "divide lte", "divide wlan", "set final base", "reset lte", "reset wlan",
                "crashed"}
RoutePlaces == {"idle", "fill", "add lte", "add wlan", "choose", "choose wlan", "pay lte", "pay wlan",
                "crashed"}

TypeOK ==
    /\ tx_ratio \in Ratio /\ base_tx_ratio \in 0 .. CounterMod - 1 /\ ratio_count \in Ratio
    /\ routed.lte + routed.wlan \in 0 .. MaxRouted
    /\ gw \in RoutePlaces /\ at \in [Threads -> RatioPlaces]
    /\ wanted \in [Threads -> Ratio] /\ {disturbed, aggregate} \subseteq BOOLEAN

\* The split of the packets sent since the ratio was set is the ratio, unless the
\* console got in the way: LTE is never behind it and never more than two rounds
\* ahead of it; a path with ratio 0 gets nothing.
RatioHonoured ==
    LET a == tx_ratio.lte
        b == tx_ratio.wlan
        ahead == routed.lte * b - routed.wlan * a
    IN Quiet /\ ~disturbed =>
                /\ 0 <= ahead /\ ahead <= 2 * a * b
                /\ a = 0 => routed.lte = 0
                /\ b = 0 => routed.wlan = 0

\* Whatever counters, ratio and base the two threads leave behind that set ratios at
\* once, and in the middle of get_route, the loop of get_route ends once the user
\* stops typing, unless
\*   - the ratio is 0:0: nobody asks for that, but the console's x:0, of which the
\*     second half is assigned after the automatic control has set 0:y, makes it so;
\*   - a part of it is 2^31 or more, which is what a negative number becomes that the
\*     user types: 2^31:0 and 4294967295:0 do keep the loop going for ever;
\*   - a thread has divided by the 0 that the other one has made of the base.
RouteFound ==
    <>[](/\ at["console"] = "out" /\ tx_ratio # Zero
         /\ tx_ratio.lte < CounterMod \div 2 /\ tx_ratio.wlan < CounterMod \div 2)
      => (gw = "fill" ~> gw = "idle")
=============================================================================
