------------------------------ MODULE LwipepTxProofs ------------------------------
(***************************************************************************)
(* Proofs about the packet scheduler, for every set of ratios.             *)
(*                                                                         *)
(* RatioHonoured speaks of the time in which the console has not got in    *)
(* the way.  CalmInv says what holds then: while a thread sets a ratio,    *)
(* which part of it is in force; and while get_route routes, how the two   *)
(* counters account for how far LTE is ahead of the ratio (the Credit      *)
(* operators, one for each shape of a ratio).  The counter of the path     *)
(* with the smaller ratio holds a multiple of the price of a packet, and   *)
(* that multiple tells how many rounds are paid for in advance.            *)
(***************************************************************************)
EXTENDS LwipepTx, Arithmetic, TLAPS

-----------------------------------------------------------------------------
(* What holds while the console keeps out of the way                       *)

\* A ratio in lowest terms, and the price of a packet under it.
Reduced(ratio) ==
    IF ratio.lte = 0 \/ ratio.wlan = 0 THEN ratio
    ELSE LET d == get_gcd(ratio.lte, ratio.wlan)
         IN  [lte |-> ratio.lte \div d, wlan |-> ratio.wlan \div d]

Base(ratio) ==
    CASE ratio.lte = 0  -> ratio.wlan
      [] ratio.wlan = 0 -> ratio.lte
      [] OTHER          -> Smaller(ratio.lte, ratio.wlan)

\* The credit of the two counters at place p of get_route, for ratios a : b; ahead
\* is LTE's share less WLAN's, each in packets of the other.
\* 0 < b <= a, the price is b: the WLAN counter holds 0, 1 or 2 rounds.
CreditMoreLte(p, a, b, cl, cw, ahead) ==
    /\ p = "add wlan" => \/ cw = 0 /\ cl = a /\ ahead = 0
                         \/ cw = b /\ cl <= a + b /\ cl <= 2 * a /\ ahead = 2 * a - cl
    /\ p # "add wlan" => /\ cl <= a + b
                         /\ \/ cw = 0 /\ cl = 0 /\ ahead = 0
                            \/ cw = b /\ cl <= a /\ ahead = a - cl
                            \/ cw = 2 * b /\ cl <= 2 * a /\ ahead = 2 * a - cl
    /\ p = "add lte" => cl <= b /\ cw <= b
    /\ p = "choose" => cl > b \/ cw > b
    /\ p = "pay lte" => cl >= b
    /\ p \in {"choose wlan", "pay wlan"} => cl < b /\ cw > b

\* 0 < a < b, the price is a: the LTE counter holds 0 or 1 round.
CreditMoreWlan(p, a, b, cl, cw, ahead) ==
    /\ p = "add wlan" => cl = a /\ cw <= a /\ ahead = cw
    /\ p # "add wlan" => /\ cw <= a + b
                         /\ \/ cl = 0 /\ ahead = cw
                            \/ cl = a /\ b <= cw /\ ahead = cw - b
    /\ p = "add lte" => cw <= a
    /\ p = "choose" => cw > a
    /\ p = "pay lte" => cl = a
    /\ p \in {"choose wlan", "pay wlan"} => cl = 0 /\ cw > a

\* One path only, of ratio r: its counter is c, the other one is 0 and nothing
\* is routed over the other path.
CreditOneWay(p, adding, r, c, other, others) ==
    /\ other = 0 /\ others = 0
    /\ c \in {0, r, 2 * r}
    /\ p \in adding => c <= r
    /\ p \in {"choose", "choose wlan", "pay lte", "pay wlan"} => c = 2 * r

\* What the counters cl, cw say of the packets sl, sw routed over LTE and WLAN.
Account(p, a, b, cl, cw, sl, sw) ==
    IF a = 0 THEN p # "pay lte" /\ CreditOneWay(p, {"add lte", "add wlan"}, b, cw, cl, sl)
    ELSE IF b = 0 THEN /\ p \notin {"choose wlan", "pay wlan"}
                       /\ CreditOneWay(p, {"add lte"}, a, cl, cw, sw)
    ELSE IF b <= a THEN CreditMoreLte(p, a, b, cl, cw, sl * b - sw * a)
    ELSE CreditMoreWlan(p, a, b, cl, cw, sl * b - sw * a)

Credit == Account(gw, tx_ratio.lte, tx_ratio.wlan, ratio_count.lte, ratio_count.wlan,
                  routed.lte, routed.wlan)

\* No counter runs over under this ratio: it holds at most the price of a packet
\* before a ratio is added.
NoWrap(ratio) ==
    Base(ratio) + ratio.lte < CounterMod /\ Base(ratio) + ratio.wlan < CounterMod

Fits(ratio) == ratio # Zero /\ NoWrap(ratio)

\* How much of the ratio w that a thread sets is in force when it is at statement p.
InForce(p, w) ==
    /\ p = "set wlan" => tx_ratio.lte = w.lte
    /\ p \in {"test lte", "base wlan", "test wlan", "base lte", "set gcd", "test gcd", "divide lte"}
         => tx_ratio = w
    /\ p = "base wlan" => w.lte = 0
    /\ p = "test wlan" => w.lte # 0
    /\ p = "base lte" => w.lte # 0 /\ w.wlan = 0
    /\ p \in {"set gcd", "test gcd", "divide lte", "divide wlan", "set final base"}
         => w.lte # 0 /\ w.wlan # 0
    /\ p \in {"test gcd", "divide lte", "divide wlan"} => base_tx_ratio = get_gcd(w.lte, w.wlan)
    /\ p = "divide wlan" => tx_ratio.lte = Reduced(w).lte /\ tx_ratio.wlan = w.wlan
    /\ p \in {"set final base", "reset lte", "reset wlan"} => tx_ratio = Reduced(w)
    /\ p \in {"reset lte", "reset wlan"} => base_tx_ratio = Base(tx_ratio)
    /\ p = "reset wlan" => ratio_count.lte = 0

\* Nobody sets a ratio.
Resting ==
    /\ at["gateway"] = "out" /\ at["console"] = "out"
    /\ Fits(tx_ratio) /\ base_tx_ratio = Base(tx_ratio) /\ Credit

\* Thread t, and it alone, does.
Setting(t) ==
    /\ at[t] \notin {"out", "crashed"} /\ \A u \in Threads : u # t => at[u] = "out"
    /\ gw = IF t = "console" THEN "idle" ELSE "fill"
    /\ Fits(Reduced(wanted[t])) /\ InForce(at[t], wanted[t])

CalmInv == ~disturbed => Resting \/ \E t \in Threads : Setting(t)

\* Type correctness, with what it rests on: a packet is only begun while there is
\* room for it, and the gateway sets a ratio only before it routes.
Word == 0 .. CounterMod - 1

RatioTypes ==
    /\ tx_ratio \in Ratio /\ base_tx_ratio \in Word /\ ratio_count \in Ratio
    /\ wanted \in [Threads -> Ratio]

PlaceTypes ==
    /\ gw \in RoutePlaces /\ at \in [Threads -> RatioPlaces]
    /\ gw \notin {"fill", "crashed"} => at["gateway"] = "out"
    /\ disturbed \in BOOLEAN /\ aggregate \in BOOLEAN

RoutedType ==
    /\ routed \in [lte : Nat, wlan : Nat] /\ routed.lte + routed.wlan <= MaxRouted
    /\ gw \notin {"idle", "crashed"} => routed.lte + routed.wlan < MaxRouted

TypeInv == RatioTypes /\ PlaceTypes /\ RoutedType

-----------------------------------------------------------------------------
(* The ratio in lowest terms                                               *)

\* get_gcd finds a number that divides both.
LEMMA GcdDivides ==
    ASSUME NEW x \in Nat, NEW y \in Nat, x > 0, y > 0
    PROVE  /\ get_gcd(x, y) \in 1 .. x
           /\ Divides(get_gcd(x, y), x) /\ Divides(get_gcd(x, y), y)
<1> DEFINE T == {d \in 1 .. x : Divides(d, x) /\ Divides(d, y)}
<1>1. 1 \in T
  <2>1. x \in 1 .. x /\ x * 1 = x /\ y \in 1 .. y /\ y * 1 = y /\ 1 \in 1 .. x
    OBVIOUS
  <2> QED
    BY <2>1, Zenon DEF Divides
<1>2. T \subseteq 0 .. x /\ T # {}
  <2>1. \A d \in 1 .. x : d \in 0 .. x
    OBVIOUS
  <2> QED
    BY <1>1, <2>1, Zenon
<1>3. PICK d \in T : \A e \in T : e <= d
  <2> HIDE DEF T
  <2> QED
    BY <1>2, GreatestOf
<1>5. x # 0 /\ y # 0
  OBVIOUS
<1>4. /\ d \in 1 .. x /\ Divides(d, x) /\ Divides(d, y)
      /\ \A e \in 1 .. x : Divides(e, x) /\ Divides(e, y) => e <= d
  BY <1>3, Zenon
<1> QED
  BY <1>5, <1>4, Zenon DEF get_gcd

LEMMA GcdType ==
    ASSUME NEW x \in Nat, NEW y \in Nat, x > 0, y > 0
    PROVE  /\ get_gcd(x, y) \in Nat /\ get_gcd(x, y) >= 1
           /\ get_gcd(x, y) <= x /\ get_gcd(x, y) <= y
<1> DEFINE d == get_gcd(x, y)
<1>1. d \in 1 .. x /\ Divides(d, y)
  BY GcdDivides
<1> HIDE DEF d
<1>2. PICK k \in 1 .. y : k * d = y
  BY <1>1 DEF Divides
<1>3. d <= k * d
  BY <1>1, <1>2
<1> QED
  BY <1>1, <1>2, <1>3 DEF d

LEMMA Quotient ==
    ASSUME NEW x \in Nat, NEW d \in Nat, d >= 1
    PROVE  x \div d \in 0 .. x /\ (d <= x => x \div d >= 1)
<1> DEFINE q == x \div d
           r == x % d
<1>1. q \in Int /\ r \in 0 .. d - 1 /\ x = q * d + r
  BY ModDef
<1> HIDE DEF q, r
<1>2. q >= 0
  <2>1. SUFFICES ASSUME q <= -1 PROVE FALSE
    BY <1>1
  <2>2. q * d <= -d
    BY <1>1, <2>1
  <2> QED
    BY <1>1, <2>2
<1>3. q <= x
  <2>1. q <= q * d
    BY <1>1, <1>2
  <2> QED
    BY <1>1, <2>1
<1>4. ASSUME d <= x PROVE q >= 1
  <2>1. SUFFICES ASSUME q = 0 PROVE FALSE
    BY <1>1, <1>2
  <2>2. x = r
    BY <1>1, <2>1
  <2> QED
    BY <1>1, <1>4, <2>2
<1> QED
  BY <1>1, <1>2, <1>3, <1>4 DEF q

LEMMA RatioParts ==
    ASSUME NEW ratio \in Ratio
    PROVE  /\ ratio.lte \in Nat /\ ratio.lte < CounterMod
           /\ ratio.wlan \in Nat /\ ratio.wlan < CounterMod
           /\ (ratio = Zero <=> ratio.lte = 0 /\ ratio.wlan = 0)
BY RatioAssumption DEF Ratio, Zero

LEMMA ReducedType ==
    ASSUME NEW ratio \in Ratio
    PROVE  Reduced(ratio) \in Ratio /\ (ratio # Zero => Reduced(ratio) # Zero)
<1> DEFINE a == ratio.lte
           b == ratio.wlan
           d == get_gcd(a, b)
<1>0. a \in Nat /\ a < CounterMod /\ b \in Nat /\ b < CounterMod
      /\ CounterMod \in Nat
  BY RatioParts, RatioAssumption
<1>1. CASE a = 0 \/ b = 0
  BY <1>1 DEF Reduced
<1>2. CASE a # 0 /\ b # 0
  <2>1. d \in Nat /\ d >= 1 /\ d <= a /\ d <= b
    <3>1. a > 0 /\ b > 0
      BY <1>0, <1>2
    <3> HIDE DEF a, b
    <3> QED
      BY <1>0, <3>1, GcdType
  <2>2. Reduced(ratio) = [lte |-> a \div d, wlan |-> b \div d]
    BY <1>2 DEF Reduced
  <2> HIDE DEF d, a, b
  <2>3. a \div d \in 1 .. a /\ b \div d \in 0 .. b
    BY <1>0, <2>1, Quotient
  <2> QED
    BY <1>0, <2>2, <2>3 DEF Ratio, Zero
<1> QED
  BY <1>1, <1>2

LEMMA BaseType ==
    ASSUME NEW ratio \in Ratio
    PROVE  Base(ratio) \in 0 .. CounterMod - 1 /\ (ratio # Zero => Base(ratio) >= 1)
BY RatioParts, RatioAssumption DEF Base, Smaller

-----------------------------------------------------------------------------
(* Type correctness                                                        *)

LEMMA ZeroType == Zero \in Ratio /\ Zero.lte = 0 /\ Zero.wlan = 0
BY RatioAssumption DEF Zero, Ratio

LEMMA RatioUpdate ==
    ASSUME NEW ratio \in Ratio, NEW x \in Word, NEW new
    PROVE  /\ new = [ratio EXCEPT !.lte = x] =>
                new \in Ratio /\ new.lte = x /\ new.wlan = ratio.wlan
           /\ new = [ratio EXCEPT !.wlan = x] =>
                new \in Ratio /\ new.wlan = x /\ new.lte = ratio.lte
BY DEF Ratio, Word

LEMMA PartsType == ASSUME NEW ratio \in Ratio PROVE ratio.lte \in Word /\ ratio.wlan \in Word
BY DEF Ratio, Word

LEMMA WordType == 0 \in Word /\ \A x \in Word : x \in Nat /\ 0 .. x \subseteq Word
BY RatioAssumption DEF Word

LEMMA ConsoleRatioType == ASSUME NEW r \in ConsoleRatios PROVE [lte |-> r[1], wlan |-> r[2]] \in Ratio
<1>1. r \in (0 .. CounterMod - 1) \X (0 .. CounterMod - 1)
  BY RatioAssumption
<1> QED
  BY <1>1 DEF Ratio

LEMMA AutoRatioType == ASSUME NEW r \in AutoRatios PROVE [lte |-> r[1], wlan |-> r[2]] \in Ratio
<1>1. r \in (0 .. CounterMod - 1) \X (0 .. CounterMod - 1)
  BY RatioAssumption
<1> QED
  BY <1>1 DEF Ratio

LEMMA PlusMinusType ==
    ASSUME NEW x \in Word, NEW y \in Word
    PROVE  /\ Plus(x, y) \in Word /\ (x + y < CounterMod => Plus(x, y) = x + y)
           /\ Minus(x, y) \in Word /\ (y <= x => Minus(x, y) = x - y)
<1> USE DEF Word
<1>0. CounterMod \in Nat /\ CounterMod > 0 /\ x + y \in Int /\ x - y \in Int
  BY RatioAssumption
<1>1. (x + y) % CounterMod \in 0 .. CounterMod - 1 /\ (x - y) % CounterMod \in 0 .. CounterMod - 1
  BY <1>0, ModDef
<1>2. ASSUME x + y < CounterMod PROVE (x + y) % CounterMod = x + y
  <2>1. x + y \in 0 .. CounterMod - 1
    BY <1>0, <1>2
  <2> QED
    BY <1>0, <2>1, ModSmall
<1>3. ASSUME y <= x PROVE (x - y) % CounterMod = x - y
  <2>1. x - y \in 0 .. CounterMod - 1
    BY <1>0, <1>3
  <2> QED
    BY <1>0, <2>1, ModSmall
<1> QED
  BY <1>1, <1>2, <1>3 DEF Plus, Minus

\* The gcd as the code computes it, of two 0s as well.
LEMMA GcdWord == ASSUME NEW x \in Word, NEW y \in Word PROVE get_gcd(x, y) \in Word
<1>1. x \in Nat /\ y \in Nat
  BY WordType
<1>2. CASE x = 0 \/ y = 0
  BY <1>1, <1>2 DEF get_gcd
<1>3. CASE ~(x = 0 \/ y = 0)
  <2>1. get_gcd(x, y) \in 0 .. x
    BY <1>1, <1>3, GcdType
  <2> QED
    BY <2>1, WordType
<1> QED
  BY <1>2, <1>3

LEMMA QuotientWord ==
    ASSUME NEW x \in Word, NEW d \in Word, d # 0 PROVE x \div d \in Word
<1>1. x \in Nat /\ d \in Nat /\ d >= 1
  BY WordType
<1> QED
  BY <1>1, Quotient, WordType

\* Where a thread goes, the other one stays where it is.
LEMMA GoesTo ==
    ASSUME NEW t \in Threads, NEW place, at \in [Threads -> RatioPlaces], Goes(t, place)
    PROVE  /\ at'[t] = place /\ \A u \in Threads : u # t => at'[u] = at[u]
           /\ place \in RatioPlaces => at' \in [Threads -> RatioPlaces]
BY DEF Goes

LEMMA TypeInit == Init => TypeInv
<1> SUFFICES ASSUME Init PROVE TypeInv
  OBVIOUS
<1>1. RatioTypes
  <2>1. tx_ratio \in Ratio /\ base_tx_ratio \in Word
    BY RatioAssumption DEF Init, Ratio, Word
  <2> QED
    BY <2>1, ZeroType DEF Init, RatioTypes
<1>2. RoutedType
  BY RoutedAssumption DEF Init, Zero, RoutedType
<1>3. disturbed \in BOOLEAN /\ aggregate \in BOOLEAN
  BY Zenon DEF Init
<1>4. PlaceTypes
  <2>1. "gateway" \in Threads /\ "out" \in RatioPlaces /\ "idle" \in RoutePlaces
    BY DEF Threads, RatioPlaces, RoutePlaces
  <2> QED
    BY <1>3, <2>1 DEF Init, PlaceTypes
<1> QED
  BY <1>1, <1>2, <1>4 DEF TypeInv

\* What the statements of set_lwipep_tx_ratio have in common.
LEMMA RatioGoesOn ==
    ASSUME NEW t \in Threads, RatioSteps(t)
    PROVE  /\ UNCHANGED <<disturbed, aggregate>> /\ at[t] \notin {"out", "crashed"}
           /\ \/ gw' = gw /\ \E place \in RatioPlaces : place # "crashed" /\ Goes(t, place)
              \/ gw' = "crashed" /\ at' = [u \in Threads |-> "crashed"]
           /\ routed' = routed \/ routed' = Zero
           /\ wanted' = wanted \/ wanted' = [wanted EXCEPT ![t] = Zero]
<1>1. CASE SetLte(t) \/ SetWlan(t) \/ TestLte(t) \/ SetBaseWlan(t) \/ TestWlan(t) \/ SetBaseLte(t)
  <2>1. \E place \in {"set wlan", "test lte", "base wlan", "test wlan", "reset lte", "base lte",
                      "set gcd"} : Goes(t, place)
    BY <1>1 DEF SetLte, SetWlan, TestLte, SetBaseWlan, TestWlan, SetBaseLte
  <2>2. \E place \in RatioPlaces : place # "crashed" /\ Goes(t, place)
    BY <2>1 DEF RatioPlaces
  <2> HIDE DEF Goes
  <2>3. /\ UNCHANGED <<gw, routed, wanted, disturbed, aggregate>>
        /\ at[t] \notin {"out", "crashed"}
    BY <1>1 DEF SetLte, SetWlan, TestLte, SetBaseWlan, TestWlan, SetBaseLte
  <2> QED
    BY <2>2, <2>3, Zenon
<1>2. CASE \/ SetGcd(t) \/ TestGcd(t) \/ DivideLte(t) \/ DivideWlan(t) \/ SetFinalBase(t)
           \/ ResetLte(t) \/ ResetWlan(t)
  <2>1. \E place \in {"test gcd", "divide lte", "divide wlan", "set final base", "reset lte",
                      "reset wlan", "out"} : Goes(t, place)
    BY <1>2 DEF SetGcd, TestGcd, DivideLte, DivideWlan, SetFinalBase, ResetLte, ResetWlan
  <2>2. \E place \in RatioPlaces : place # "crashed" /\ Goes(t, place)
    BY <2>1 DEF RatioPlaces
  <2>3. /\ UNCHANGED <<gw, disturbed, aggregate>> /\ at[t] \notin {"out", "crashed"}
        /\ routed' = routed \/ routed' = Zero
        /\ wanted' = wanted \/ wanted' = [wanted EXCEPT ![t] = Zero]
    BY <1>2 DEF SetGcd, TestGcd, DivideLte, DivideWlan, SetFinalBase, ResetLte, ResetWlan
  <2> QED
    BY <2>2, <2>3, Zenon
<1>3. CASE DivideByZero(t)
  BY <1>3 DEF DivideByZero
<1> QED
  BY <1>1, <1>2, <1>3, Zenon DEF RatioSteps

\* Nothing is routed under a ratio when it is set.
LEMMA RoutedZero ==
    ASSUME RoutedType, routed' = Zero,
           gw' \notin {"idle", "crashed"} => routed.lte + routed.wlan < MaxRouted
    PROVE  RoutedType'
<1>1. routed.lte \in Nat /\ routed.wlan \in Nat /\ MaxRouted \in Nat
  BY RoutedAssumption DEF RoutedType
<1>2. routed' \in [lte : Nat, wlan : Nat] /\ routed'.lte + routed'.wlan = 0
  BY DEF Zero
<1> QED
  BY <1>1, <1>2 DEF RoutedType

\* What they assign keeps its width.
LEMMA TypeAssigned ==
    ASSUME RatioTypes, NEW t \in Threads, RatioSteps(t)
    PROVE  RatioTypes'
<1> USE DEF RatioTypes
<1>0. /\ wanted[t].lte \in Word /\ wanted[t].wlan \in Word
      /\ tx_ratio.lte \in Word /\ tx_ratio.wlan \in Word
      /\ base_tx_ratio \in Word /\ 0 \in Word
      /\ tx_ratio \in Ratio /\ ratio_count \in Ratio
  BY PartsType, WordType
<1>1. wanted' \in [Threads -> Ratio]
  <2>1. wanted' = wanted \/ wanted' = [wanted EXCEPT ![t] = Zero]
    BY RatioGoesOn
  <2> QED
    BY <2>1, ZeroType
<1>2. ASSUME tx_ratio' \in Ratio, UNCHANGED <<base_tx_ratio, ratio_count>> PROVE RatioTypes'
  BY <1>1, <1>2
<1>3. ASSUME base_tx_ratio' \in Word, UNCHANGED <<tx_ratio, ratio_count>> PROVE RatioTypes'
  BY <1>1, <1>3
<1>4. ASSUME ratio_count' \in Ratio, UNCHANGED <<base_tx_ratio, tx_ratio>> PROVE RatioTypes'
  BY <1>1, <1>4
<1>5. CASE SetLte(t) \/ SetWlan(t)
  <2>0. \/ tx_ratio' = [tx_ratio EXCEPT !.lte = wanted[t].lte]
        \/ tx_ratio' = [tx_ratio EXCEPT !.wlan = wanted[t].wlan]
    BY <1>5, Zenon DEF SetLte, SetWlan
  <2>1. tx_ratio' \in Ratio
    <3>1. wanted[t].lte \in Word /\ wanted[t].wlan \in Word /\ tx_ratio \in Ratio
      BY <1>0
    <3>2. CASE tx_ratio' = [tx_ratio EXCEPT !.lte = wanted[t].lte]
      BY <3>1, <3>2, RatioUpdate
    <3>3. CASE tx_ratio' = [tx_ratio EXCEPT !.wlan = wanted[t].wlan]
      BY <3>1, <3>3, RatioUpdate
    <3> QED
      BY <2>0, <3>2, <3>3
  <2> QED
    BY <1>2, <1>5, <2>1, Zenon DEF SetLte, SetWlan
<1>6. CASE DivideLte(t) \/ DivideWlan(t)
  <2>1. tx_ratio.lte \div base_tx_ratio \in Word /\ tx_ratio.wlan \div base_tx_ratio \in Word
    BY <1>0, <1>6, QuotientWord DEF DivideLte, DivideWlan
  <2>2. tx_ratio' \in Ratio
    BY <1>0, <1>6, <2>1, RatioUpdate, Zenon DEF DivideLte, DivideWlan
  <2> QED
    BY <1>2, <1>6, <2>2, Zenon DEF DivideLte, DivideWlan
<1>7. CASE SetBaseWlan(t) \/ SetBaseLte(t)
  BY <1>0, <1>3, <1>7, Zenon DEF SetBaseWlan, SetBaseLte
<1>8. CASE SetGcd(t)
  <2>1. get_gcd(tx_ratio.lte, tx_ratio.wlan) \in Word
    BY <1>0, GcdWord
  <2> QED
    BY <1>3, <1>8, <2>1, Zenon DEF SetGcd
<1>9. CASE SetFinalBase(t)
  <2>1. Smaller(tx_ratio.lte, tx_ratio.wlan) \in Word
    BY <1>0 DEF Smaller
  <2> QED
    BY <1>3, <1>9, <2>1, Zenon DEF SetFinalBase
<1>10. CASE ResetLte(t) \/ ResetWlan(t)
  <2>1. ratio_count' \in Ratio
    BY <1>0, <1>10, RatioUpdate, Zenon DEF ResetLte, ResetWlan
  <2> QED
    BY <1>4, <1>10, <2>1, Zenon DEF ResetLte, ResetWlan
<1>11. CASE TestLte(t) \/ TestWlan(t) \/ TestGcd(t) \/ DivideByZero(t)
  <2>1. UNCHANGED <<tx_ratio, base_tx_ratio, ratio_count>>
    BY <1>11, Zenon DEF TestLte, TestWlan, TestGcd, DivideByZero
  <2> QED
    BY <1>1, <2>1
<1> QED
  BY <1>5, <1>6, <1>7, <1>8, <1>9, <1>10, <1>11, Zenon DEF RatioSteps

LEMMA TypeRatio == ASSUME TypeInv, NEW t \in Threads, RatioSteps(t) PROVE TypeInv'
<1>0. RatioTypes /\ PlaceTypes /\ RoutedType
  BY DEF TypeInv
<1>1. RatioTypes'
  BY <1>0, TypeAssigned
<1>2. PlaceTypes'
  <2>1. disturbed' \in BOOLEAN /\ aggregate' \in BOOLEAN
    BY <1>0, RatioGoesOn, Zenon DEF PlaceTypes
  <2>2. CASE gw' = "crashed" /\ at' = [u \in Threads |-> "crashed"]
    <3>1. gw' \in RoutePlaces /\ at' \in [Threads -> RatioPlaces]
      BY <2>2 DEF RoutePlaces, RatioPlaces
    <3> QED
      BY <2>1, <2>2, <3>1 DEF PlaceTypes
  <2>3. CASE gw' = gw /\ \E place \in RatioPlaces : place # "crashed" /\ Goes(t, place)
    <3>1. PICK place \in RatioPlaces : Goes(t, place)
      BY <2>3, Zenon
    <3>2. at' \in [Threads -> RatioPlaces] /\ \A u \in Threads : u # t => at'[u] = at[u]
      BY <1>0, <3>1, GoesTo DEF PlaceTypes
    <3>3. gw \notin {"fill", "crashed"} => t # "gateway"
      BY <1>0, RatioGoesOn DEF PlaceTypes
    <3>4. "gateway" \in Threads
      BY DEF Threads
    <3>5. gw' \notin {"fill", "crashed"} => at'["gateway"] = "out"
      BY <1>0, <2>3, <3>2, <3>3, <3>4 DEF PlaceTypes
    <3> QED
      BY <1>0, <2>1, <2>3, <3>2, <3>5 DEF PlaceTypes
  <2> QED
    BY <2>2, <2>3, RatioGoesOn, Zenon
<1>3. RoutedType'
  <2>1. gw' = gw \/ gw' = "crashed"
    BY RatioGoesOn, Zenon
  <2>2. CASE routed' = routed
    BY <1>0, <2>1, <2>2 DEF RoutedType
  <2>3. CASE routed' = Zero
    BY <1>0, <2>1, <2>3, RoutedZero DEF RoutedType
  <2> QED
    BY <2>2, <2>3, RatioGoesOn
<1> QED
  BY <1>1, <1>2, <1>3 DEF TypeInv

\* A thread calls set_lwipep_tx_ratio.
LEMMA TypeCall ==
    ASSUME RatioTypes, PlaceTypes, NEW t \in Threads, NEW r \in Ratio, SetTxRatio(t, r),
           UNCHANGED <<tx_ratio, base_tx_ratio, ratio_count>>
    PROVE  /\ RatioTypes' /\ at' \in [Threads -> RatioPlaces]
           /\ \A u \in Threads : u # t => at'[u] = at[u]
           /\ Changes(r) => at'[t] = "set lte" /\ wanted'[t] = r
           /\ ~Changes(r) => at' = at
<1>1. CASE Changes(r)
  <2>1. Goes(t, "set lte") /\ wanted' = [wanted EXCEPT ![t] = r]
    BY <1>1, Zenon DEF SetTxRatio
  <2>2. wanted' \in [Threads -> Ratio] /\ wanted'[t] = r
    BY <2>1 DEF RatioTypes
  <2>3. "set lte" \in RatioPlaces
    BY DEF RatioPlaces
  <2> QED
    BY <1>1, <2>1, <2>2, <2>3, GoesTo DEF RatioTypes, PlaceTypes
<1>2. CASE ~Changes(r)
  <2>1. UNCHANGED <<at, wanted>>
    BY <1>2, Zenon DEF SetTxRatio
  <2> QED
    BY <1>2, <2>1 DEF RatioTypes, PlaceTypes
<1> QED
  BY <1>1, <1>2

LEMMA TypeUpdate ==
    ASSUME TypeInv, NEW r \in Ratio, RouteUpdate(r)
    PROVE  TypeInv'
<1>0. /\ RatioTypes /\ PlaceTypes /\ RoutedType
      /\ gw = "idle" /\ gw' = "fill" /\ "gateway" \in Threads
      /\ UNCHANGED <<tx_ratio, base_tx_ratio, ratio_count, routed, aggregate>>
      /\ routed.lte + routed.wlan < MaxRouted /\ SetTxRatio("gateway", r)
  BY DEF TypeInv, RouteUpdate, Threads
<1>1. RatioTypes' /\ at' \in [Threads -> RatioPlaces]
  BY <1>0, TypeCall
<1>2. disturbed' \in BOOLEAN /\ aggregate' \in BOOLEAN
  BY <1>0, Zenon DEF RouteUpdate, PlaceTypes
<1>3. PlaceTypes'
  BY <1>0, <1>1, <1>2 DEF PlaceTypes, RoutePlaces
<1>4. RoutedType'
  BY <1>0 DEF RoutedType
<1> QED
  BY <1>1, <1>3, <1>4 DEF TypeInv

LEMMA TypeConsole ==
    ASSUME TypeInv, NEW r \in Ratio, ConsoleRatio(r)
    PROVE  TypeInv'
<1>0. /\ RatioTypes /\ PlaceTypes /\ RoutedType /\ "console" \in Threads
      /\ UNCHANGED <<tx_ratio, base_tx_ratio, ratio_count, routed, gw, aggregate>>
      /\ SetTxRatio("console", r)
  BY DEF TypeInv, ConsoleRatio, Threads
<1>1. RatioTypes' /\ at' \in [Threads -> RatioPlaces] /\ at'["gateway"] = at["gateway"]
  <2>1. "gateway" \in Threads /\ "gateway" # "console"
    BY DEF Threads
  <2> QED
    BY <1>0, <2>1, TypeCall
<1>2. disturbed' \in BOOLEAN /\ aggregate' \in BOOLEAN
  BY <1>0, Zenon DEF ConsoleRatio, PlaceTypes
<1>3. PlaceTypes'
  BY <1>0, <1>1, <1>2 DEF PlaceTypes
<1>4. RoutedType'
  BY <1>0 DEF RoutedType
<1> QED
  BY <1>1, <1>3, <1>4 DEF TypeInv

\* One packet more.
LEMMA OneMore ==
    ASSUME NEW count \in [lte : Nat, wlan : Nat], NEW new
    PROVE  /\ new = [count EXCEPT !.lte = @ + 1] =>
                /\ new \in [lte : Nat, wlan : Nat]
                /\ new.lte = count.lte + 1 /\ new.wlan = count.wlan
           /\ new = [count EXCEPT !.wlan = @ + 1] =>
                /\ new \in [lte : Nat, wlan : Nat]
                /\ new.wlan = count.wlan + 1 /\ new.lte = count.lte
OBVIOUS

LEMMA TypeRoute == ASSUME TypeInv, RouteSteps PROVE TypeInv'
<1>0. RatioTypes /\ PlaceTypes /\ RoutedType
  BY DEF TypeInv
<1>1. /\ UNCHANGED <<tx_ratio, base_tx_ratio, at, wanted, disturbed, aggregate>>
      /\ gw \notin {"idle", "crashed"}
      /\ gw' \in {"idle", "fill", "add lte", "add wlan", "choose", "choose wlan", "pay lte",
                  "pay wlan"}
      /\ routed' = routed \/ gw' = "idle"
      /\ gw = "fill" => at["gateway"] = "out"
  BY DEF RouteSteps, RouteFill, RouteAddLte, RouteAddWlan, RouteChooseLte, RouteChooseWlan,
         RoutePayLte, RoutePayWlan
<1>2. ratio_count' \in Ratio
  <2>1. /\ ratio_count.lte \in Word /\ ratio_count.wlan \in Word
        /\ tx_ratio.lte \in Word /\ tx_ratio.wlan \in Word /\ base_tx_ratio \in Word
    BY <1>0, PartsType DEF RatioTypes
  <2>2. /\ Plus(ratio_count.lte, tx_ratio.lte) \in Word
        /\ Plus(ratio_count.wlan, tx_ratio.wlan) \in Word
        /\ Minus(ratio_count.lte, base_tx_ratio) \in Word
        /\ Minus(ratio_count.wlan, base_tx_ratio) \in Word
    BY <2>1, PlusMinusType
  <2>3. ratio_count \in Ratio
    BY <1>0 DEF RatioTypes
  <2>4. \/ ratio_count' = ratio_count
        \/ ratio_count' = [ratio_count EXCEPT !.lte = Plus(ratio_count.lte, tx_ratio.lte)]
        \/ ratio_count' = [ratio_count EXCEPT !.wlan = Plus(ratio_count.wlan, tx_ratio.wlan)]
        \/ ratio_count' = [ratio_count EXCEPT !.lte = Minus(ratio_count.lte, base_tx_ratio)]
        \/ ratio_count' = [ratio_count EXCEPT !.wlan = Minus(ratio_count.wlan, base_tx_ratio)]
    BY Zenon DEF RouteSteps, RouteFill, RouteAddLte, RouteAddWlan, RouteChooseLte,
                 RouteChooseWlan, RoutePayLte, RoutePayWlan
  <2> QED
    BY <2>2, <2>3, <2>4, RatioUpdate, Zenon
<1>3. RatioTypes'
  BY <1>0, <1>1, <1>2 DEF RatioTypes
<1>4. PlaceTypes'
  <2>1. at["gateway"] = "out" /\ gw' \in RoutePlaces
    BY <1>0, <1>1 DEF PlaceTypes, RoutePlaces
  <2> QED
    BY <1>0, <1>1, <2>1 DEF PlaceTypes
<1>5. RoutedType'
  <2>1. CASE routed' = routed
    BY <1>0, <1>1, <2>1 DEF RoutedType
  <2>2. CASE RoutePayLte
    <3>1. routed \in [lte : Nat, wlan : Nat] /\ routed.lte + routed.wlan < MaxRouted
      BY <1>0, <1>1 DEF RoutedType
    <3>2. routed' = [routed EXCEPT !.lte = @ + 1] /\ gw' = "idle"
      BY <2>2, Zenon DEF RoutePayLte
    <3>3. /\ routed' \in [lte : Nat, wlan : Nat]
          /\ routed'.lte + routed'.wlan = routed.lte + routed.wlan + 1
      BY <3>1, <3>2, OneMore
    <3> QED
      BY <3>1, <3>2, <3>3, RoutedAssumption DEF RoutedType
  <2>3. CASE RoutePayWlan
    <3>1. routed \in [lte : Nat, wlan : Nat] /\ routed.lte + routed.wlan < MaxRouted
      BY <1>0, <1>1 DEF RoutedType
    <3>2. routed' = [routed EXCEPT !.wlan = @ + 1] /\ gw' = "idle"
      BY <2>3, Zenon DEF RoutePayWlan
    <3>3. /\ routed' \in [lte : Nat, wlan : Nat]
          /\ routed'.lte + routed'.wlan = routed.lte + routed.wlan + 1
      BY <3>1, <3>2, OneMore
    <3> QED
      BY <3>1, <3>2, <3>3, RoutedAssumption DEF RoutedType
  <2> QED
    BY <2>1, <2>2, <2>3 DEF RouteSteps, RouteFill, RouteAddLte, RouteAddWlan, RouteChooseLte,
                            RouteChooseWlan
<1> QED
  BY <1>3, <1>4, <1>5 DEF TypeInv

LEMMA TypeOthers ==
    ASSUME TypeInv, RouteBegin \/ (\E on \in BOOLEAN : SetLwipepWlan(on)) \/ UNCHANGED vars
    PROVE  TypeInv'
<1>0. RatioTypes /\ PlaceTypes /\ RoutedType
  BY DEF TypeInv
<1>1. /\ UNCHANGED <<tx_ratio, base_tx_ratio, ratio_count, routed, at, wanted>>
      /\ gw' = gw \/ (gw' = "fill" /\ routed.lte + routed.wlan < MaxRouted)
  BY DEF RouteBegin, SetLwipepWlan, vars
<1>2. RatioTypes'
  BY <1>0, <1>1 DEF RatioTypes
<1>3. RoutedType'
  BY <1>0, <1>1 DEF RoutedType
<1>4. PlaceTypes'
  <2>1. disturbed' \in BOOLEAN /\ aggregate' \in BOOLEAN
    BY <1>0, Zenon DEF PlaceTypes, RouteBegin, SetLwipepWlan, vars
  <2> QED
    BY <1>0, <1>1, <2>1 DEF PlaceTypes, RoutePlaces
<1> QED
  BY <1>2, <1>3, <1>4 DEF TypeInv

LEMMA TypeStep == ASSUME TypeInv, [Next]_vars PROVE TypeInv'
<1>1. CASE \E r \in AutoRatios : RouteUpdate([lte |-> r[1], wlan |-> r[2]])
  BY <1>1, AutoRatioType, TypeUpdate, Zenon
<1>2. CASE \E r \in ConsoleRatios : ConsoleRatio([lte |-> r[1], wlan |-> r[2]])
  BY <1>2, ConsoleRatioType, TypeConsole, Zenon
<1> QED
  BY <1>1, <1>2, TypeRoute, TypeRatio, TypeOthers, Zenon DEF Next

LEMMA TypeInvariant == Spec => []TypeInv
BY TypeInit, TypeStep, PTL DEF Spec

\* Ratios, counters and price keep their width whatever the console and the
\* gateway interleave, and no more packets are routed than MaxRouted.
THEOREM TxTypeCorrect == Spec => []TypeOK
<1>1. TypeInv => TypeOK
  <2> SUFFICES ASSUME TypeInv PROVE TypeOK
    OBVIOUS
  <2>1. routed.lte + routed.wlan \in 0 .. MaxRouted
    BY RoutedAssumption DEF TypeInv, RoutedType
  <2>2. {disturbed, aggregate} \subseteq BOOLEAN
    BY Zenon DEF TypeInv, PlaceTypes
  <2> QED
    BY <2>1, <2>2, Zenon DEF TypeInv, RatioTypes, PlaceTypes, Word, TypeOK
<1> QED
  BY <1>1, TypeInvariant, PTL

-----------------------------------------------------------------------------
(* The counters account for the split: what a step of get_route makes of   *)
(* an account, as long as no counter runs over                             *)

\* The price of a packet under the ratio a : b.
Price(a, b) == Base([lte |-> a, wlan |-> b])

LEMMA AccountMoves ==
    ASSUME NEW a \in Nat, NEW b \in Nat, NEW cl \in Nat, NEW cw \in Nat,
           NEW sl \in Nat, NEW sw \in Nat, a # 0 \/ b # 0
    PROVE  /\ Account("fill", a, b, cl, cw, sl, sw) /\ cl <= Price(a, b) /\ cw <= Price(a, b)
              => Account("add lte", a, b, cl, cw, sl, sw)
           /\ Account("fill", a, b, cl, cw, sl, sw) /\ ~(cl <= Price(a, b) /\ cw <= Price(a, b))
              => Account("choose", a, b, cl, cw, sl, sw)
           /\ Account("add lte", a, b, cl, cw, sl, sw)
              => Account("add wlan", a, b, cl + a, cw, sl, sw)
           /\ Account("add wlan", a, b, cl, cw, sl, sw)
              => Account("fill", a, b, cl, cw + b, sl, sw)
           /\ Account("choose", a, b, cl, cw, sl, sw) /\ cl >= Price(a, b)
              => Account("pay lte", a, b, cl, cw, sl, sw)
           /\ Account("choose", a, b, cl, cw, sl, sw) /\ ~(cl >= Price(a, b))
              => Account("choose wlan", a, b, cl, cw, sl, sw)
           /\ Account("choose wlan", a, b, cl, cw, sl, sw) /\ cw >= Price(a, b)
              => Account("pay wlan", a, b, cl, cw, sl, sw)
           /\ Account("choose wlan", a, b, cl, cw, sl, sw) /\ ~(cw >= Price(a, b))
              => Account("pay lte", a, b, cl, cw, sl, sw)
           /\ Account("pay lte", a, b, cl, cw, sl, sw)
              => Account("idle", a, b, cl - Price(a, b), cw, sl + 1, sw)
           /\ Account("pay wlan", a, b, cl, cw, sl, sw)
              => Account("idle", a, b, cl, cw - Price(a, b), sl, sw + 1)
<1>0. /\ (sl + 1) * b - sw * a = (sl * b - sw * a) + b
      /\ sl * b - (sw + 1) * a = (sl * b - sw * a) - a
      /\ sl * b - sw * a \in Int
  OBVIOUS
<1> USE DEF Price, Base, Smaller, Account, CreditMoreLte, CreditMoreWlan, CreditOneWay
<1>1. ASSUME Account("fill", a, b, cl, cw, sl, sw), cl <= Price(a, b), cw <= Price(a, b)
     PROVE  Account("add lte", a, b, cl, cw, sl, sw)
  BY <1>0, <1>1
<1>2. ASSUME Account("fill", a, b, cl, cw, sl, sw), ~(cl <= Price(a, b) /\ cw <= Price(a, b))
     PROVE  Account("choose", a, b, cl, cw, sl, sw)
  <2>1. CASE a = 0
    BY <1>0, <1>2, <2>1
  <2>2. CASE a # 0 /\ b = 0
    BY <1>0, <1>2, <2>2
  <2>3. CASE a # 0 /\ b # 0 /\ b <= a
    BY <1>0, <1>2, <2>3
  <2>4. CASE a # 0 /\ b # 0 /\ ~(b <= a)
    BY <1>0, <1>2, <2>4
  <2> QED
    BY <2>1, <2>2, <2>3, <2>4
<1>3. ASSUME Account("add lte", a, b, cl, cw, sl, sw)
     PROVE  Account("add wlan", a, b, cl + a, cw, sl, sw)
  <2>1. CASE a = 0
    BY <1>0, <1>3, <2>1
  <2>2. CASE a # 0 /\ b = 0
    BY <1>0, <1>3, <2>2
  <2>3. CASE a # 0 /\ b # 0 /\ b <= a
    BY <1>0, <1>3, <2>3
  <2>4. CASE a # 0 /\ b # 0 /\ ~(b <= a)
    BY <1>0, <1>3, <2>4
  <2> QED
    BY <2>1, <2>2, <2>3, <2>4
<1>4. ASSUME Account("add wlan", a, b, cl, cw, sl, sw)
     PROVE  Account("fill", a, b, cl, cw + b, sl, sw)
  <2>1. CASE a = 0
    BY <1>0, <1>4, <2>1
  <2>2. CASE a # 0 /\ b = 0
    BY <1>0, <1>4, <2>2
  <2>3. CASE a # 0 /\ b # 0 /\ b <= a
    <3>1. CASE cw = 0
      <4>1. cl = a /\ sl * b - sw * a = 0
        BY <1>0, <1>4, <2>3, <3>1
      <4>2. CreditMoreLte("fill", a, b, a, b, 0)
        BY <2>3
      <4>3. cw + b = b
        BY <3>1
      <4> HIDE DEF CreditMoreLte
      <4> QED
        BY <2>3, <4>1, <4>2, <4>3
    <3>2. CASE cw # 0
      BY <1>0, <1>4, <2>3, <3>2
    <3> QED
      BY <3>1, <3>2
  <2>4. CASE a # 0 /\ b # 0 /\ ~(b <= a)
    BY <1>0, <1>4, <2>4
  <2> QED
    BY <2>1, <2>2, <2>3, <2>4
<1>5. ASSUME Account("choose", a, b, cl, cw, sl, sw), cl >= Price(a, b)
     PROVE  Account("pay lte", a, b, cl, cw, sl, sw)
  BY <1>0, <1>5
<1>6. ASSUME Account("choose", a, b, cl, cw, sl, sw), ~(cl >= Price(a, b))
     PROVE  Account("choose wlan", a, b, cl, cw, sl, sw)
  BY <1>0, <1>6
<1>7. ASSUME Account("choose wlan", a, b, cl, cw, sl, sw), cw >= Price(a, b)
     PROVE  Account("pay wlan", a, b, cl, cw, sl, sw)
  BY <1>0, <1>7
<1>8. ASSUME Account("choose wlan", a, b, cl, cw, sl, sw), ~(cw >= Price(a, b))
     PROVE  Account("pay lte", a, b, cl, cw, sl, sw)
  BY <1>0, <1>8
<1>9. ASSUME Account("pay lte", a, b, cl, cw, sl, sw)
     PROVE  Account("idle", a, b, cl - Price(a, b), cw, sl + 1, sw)
  BY <1>0, <1>9
<1>10. ASSUME Account("pay wlan", a, b, cl, cw, sl, sw)
     PROVE  Account("idle", a, b, cl, cw - Price(a, b), sl, sw + 1)
  BY <1>0, <1>10
<1> HIDE DEF Account
<1> QED
  BY <1>1, <1>2, <1>3, <1>4, <1>5, <1>6, <1>7, <1>8, <1>9, <1>10, Zenon

\* Before a ratio is added its counter holds the price of a packet at most, and what
\* is paid for has been saved up.
LEMMA AccountCovers ==
    ASSUME NEW a \in Nat, NEW b \in Nat, NEW cl \in Nat, NEW cw \in Nat,
           NEW sl \in Nat, NEW sw \in Nat, a # 0 \/ b # 0
    PROVE  /\ Account("add lte", a, b, cl, cw, sl, sw) => cl <= Price(a, b)
           /\ Account("add wlan", a, b, cl, cw, sl, sw) => cw <= Price(a, b)
           /\ Account("pay lte", a, b, cl, cw, sl, sw) => Price(a, b) <= cl
           /\ Account("pay wlan", a, b, cl, cw, sl, sw) => Price(a, b) <= cw
BY DEF Price, Base, Smaller, Account, CreditMoreLte, CreditMoreWlan, CreditOneWay

LEMMA AccountBegins ==
    ASSUME NEW a \in Nat, NEW b \in Nat, NEW cl \in Nat, NEW cw \in Nat,
           NEW sl \in Nat, NEW sw \in Nat
    PROVE  /\ Account("idle", a, b, cl, cw, sl, sw) => Account("fill", a, b, cl, cw, sl, sw)
           /\ Account("idle", a, b, 0, 0, 0, 0) /\ Account("fill", a, b, 0, 0, 0, 0)
<1>1. Account("idle", a, b, cl, cw, sl, sw) => Account("fill", a, b, cl, cw, sl, sw)
  BY DEF Account, CreditMoreLte, CreditMoreWlan, CreditOneWay
<1>2. Account("idle", a, b, 0, 0, 0, 0) /\ Account("fill", a, b, 0, 0, 0, 0)
  BY DEF Account, CreditMoreLte, CreditMoreWlan, CreditOneWay
<1> QED
  BY <1>1, <1>2

\* What is owed holds between the packets: LTE is ahead, by two rounds at most.
LEMMA AccountHonours ==
    ASSUME NEW a \in Nat, NEW b \in Nat, NEW cl \in Nat, NEW cw \in Nat,
           NEW sl \in Nat, NEW sw \in Nat, a # 0 \/ b # 0,
           Account("idle", a, b, cl, cw, sl, sw)
    PROVE  /\ 0 <= sl * b - sw * a /\ sl * b - sw * a <= 2 * a * b
           /\ a = 0 => sl = 0
           /\ b = 0 => sw = 0
<1>1. CASE a = 0
  <2>1. sl = 0 /\ b # 0
    BY <1>1 DEF Account, CreditOneWay
  <2>2. sl * b = 0 /\ sw * a = 0 /\ 2 * a * b = 0
    BY <1>1, <2>1
  <2> QED
    BY <2>1, <2>2
<1>2. CASE a # 0 /\ b = 0
  BY <1>2 DEF Account, CreditOneWay
<1>3. CASE a # 0 /\ b # 0
  <2> DEFINE ahead == sl * b - sw * a
             rounds == a * b
  <2>1. a <= rounds /\ b <= rounds /\ rounds \in Int /\ 2 * a * b = 2 * rounds /\ ahead \in Int
    <3>1. a * 1 <= a * b /\ 1 * b <= a * b
      BY <1>3
    <3> QED
      BY <3>1
  <2>2. 0 <= ahead /\ (ahead <= 2 * a \/ ahead <= a + b)
    BY <1>3 DEF Account, CreditMoreLte, CreditMoreWlan
  <2> HIDE DEF ahead, rounds
  <2>3. 0 <= ahead /\ ahead <= 2 * rounds
    BY <2>1, <2>2
  <2> QED
    BY <1>3, <2>1, <2>3 DEF ahead
<1> QED
  BY <1>1, <1>2, <1>3

\* An account under a ratio that fits.
Kept(p, a, b, cl, cw, sl, sw) ==
    /\ a \in Word /\ b \in Word /\ cl \in Word /\ cw \in Word /\ sl \in Nat /\ sw \in Nat
    /\ a # 0 \/ b # 0
    /\ Price(a, b) + a < CounterMod /\ Price(a, b) + b < CounterMod
    /\ Account(p, a, b, cl, cw, sl, sw)

\* Under such a ratio no counter runs over, and get_route keeps account.
LEMMA KeptMoves ==
    ASSUME NEW p, NEW a, NEW b, NEW cl, NEW cw, NEW sl, NEW sw, Kept(p, a, b, cl, cw, sl, sw)
    PROVE  /\ p = "fill" /\ cl <= Price(a, b) /\ cw <= Price(a, b)
              => Account("add lte", a, b, cl, cw, sl, sw)
           /\ p = "fill" /\ ~(cl <= Price(a, b) /\ cw <= Price(a, b))
              => Account("choose", a, b, cl, cw, sl, sw)
           /\ p = "choose" /\ cl >= Price(a, b)
              => Account("pay lte", a, b, cl, cw, sl, sw)
           /\ p = "choose" /\ ~(cl >= Price(a, b))
              => Account("choose wlan", a, b, cl, cw, sl, sw)
           /\ p = "choose wlan" /\ cw >= Price(a, b)
              => Account("pay wlan", a, b, cl, cw, sl, sw)
           /\ p = "choose wlan" /\ ~(cw >= Price(a, b))
              => Account("pay lte", a, b, cl, cw, sl, sw)
           /\ p = "add lte"
              => Account("add wlan", a, b, Plus(cl, a), cw, sl, sw)
           /\ p = "add wlan"
              => Account("fill", a, b, cl, Plus(cw, b), sl, sw)
           /\ p = "pay lte"
              => Account("idle", a, b, Minus(cl, Price(a, b)), cw, sl + 1, sw)
           /\ p = "pay wlan"
              => Account("idle", a, b, cl, Minus(cw, Price(a, b)), sl, sw + 1)
<1>0. /\ a \in Word /\ b \in Word /\ cl \in Word /\ cw \in Word /\ sl \in Nat /\ sw \in Nat
      /\ a # 0 \/ b # 0
      /\ Price(a, b) + a < CounterMod /\ Price(a, b) + b < CounterMod
      /\ Account(p, a, b, cl, cw, sl, sw)
  BY DEF Kept
<1>a. /\ a \in Nat /\ b \in Nat /\ cl \in Nat /\ cw \in Nat /\ CounterMod \in Nat
      /\ Price(a, b) \in Word /\ Price(a, b) \in Nat
  <2>1. a \in Nat /\ b \in Nat /\ cl \in Nat /\ cw \in Nat /\ CounterMod \in Nat
    BY <1>0, WordType, RatioAssumption
  <2>2. Price(a, b) \in {a, b}
    BY <2>1 DEF Price, Base, Smaller
  <2> QED
    BY <1>0, <2>1, <2>2
<1>1. ASSUME p = "fill", cl <= Price(a, b) /\ cw <= Price(a, b)
     PROVE  Account("add lte", a, b, cl, cw, sl, sw)
  BY <1>0, <1>a, <1>1, AccountMoves, Zenon
<1>2. ASSUME p = "fill", ~(cl <= Price(a, b) /\ cw <= Price(a, b))
     PROVE  Account("choose", a, b, cl, cw, sl, sw)
  BY <1>0, <1>a, <1>2, AccountMoves, Zenon
<1>3. ASSUME p = "choose", cl >= Price(a, b)
     PROVE  Account("pay lte", a, b, cl, cw, sl, sw)
  BY <1>0, <1>a, <1>3, AccountMoves, Zenon
<1>4. ASSUME p = "choose", ~(cl >= Price(a, b))
     PROVE  Account("choose wlan", a, b, cl, cw, sl, sw)
  BY <1>0, <1>a, <1>4, AccountMoves, Zenon
<1>5. ASSUME p = "choose wlan", cw >= Price(a, b)
     PROVE  Account("pay wlan", a, b, cl, cw, sl, sw)
  BY <1>0, <1>a, <1>5, AccountMoves, Zenon
<1>6. ASSUME p = "choose wlan", ~(cw >= Price(a, b))
     PROVE  Account("pay lte", a, b, cl, cw, sl, sw)
  BY <1>0, <1>a, <1>6, AccountMoves, Zenon
<1>7. ASSUME p = "add lte"
     PROVE  Account("add wlan", a, b, Plus(cl, a), cw, sl, sw)
  <2>1. Account("add lte", a, b, cl, cw, sl, sw)
    BY <1>0, <1>7, Zenon
  <2>2. cl <= Price(a, b)
    BY <1>0, <1>a, <2>1, AccountCovers, Zenon
  <2>3. Plus(cl, a) = cl + a
    BY <1>0, <1>a, <2>2, PlusMinusType
  <2>4. Account("add wlan", a, b, cl + a, cw, sl, sw)
    BY <1>0, <1>a, <2>1, AccountMoves, Zenon
  <2> QED
    BY <2>3, <2>4
<1>8. ASSUME p = "add wlan"
     PROVE  Account("fill", a, b, cl, Plus(cw, b), sl, sw)
  <2>1. Account("add wlan", a, b, cl, cw, sl, sw)
    BY <1>0, <1>8, Zenon
  <2>2. cw <= Price(a, b)
    BY <1>0, <1>a, <2>1, AccountCovers, Zenon
  <2>3. Plus(cw, b) = cw + b
    BY <1>0, <1>a, <2>2, PlusMinusType
  <2>4. Account("fill", a, b, cl, cw + b, sl, sw)
    BY <1>0, <1>a, <2>1, AccountMoves, Zenon
  <2> QED
    BY <2>3, <2>4
<1>9. ASSUME p = "pay lte"
     PROVE  Account("idle", a, b, Minus(cl, Price(a, b)), cw, sl + 1, sw)
  <2>1. Account("pay lte", a, b, cl, cw, sl, sw)
    BY <1>0, <1>9, Zenon
  <2>2. Price(a, b) <= cl
    BY <1>0, <1>a, <2>1, AccountCovers, Zenon
  <2>3. Minus(cl, Price(a, b)) = cl - Price(a, b)
    BY <1>0, <1>a, <2>2, PlusMinusType
  <2>4. Account("idle", a, b, cl - Price(a, b), cw, sl + 1, sw)
    BY <1>0, <1>a, <2>1, AccountMoves, Zenon
  <2> QED
    BY <2>3, <2>4
<1>10. ASSUME p = "pay wlan"
     PROVE  Account("idle", a, b, cl, Minus(cw, Price(a, b)), sl, sw + 1)
  <2>1. Account("pay wlan", a, b, cl, cw, sl, sw)
    BY <1>0, <1>10, Zenon
  <2>2. Price(a, b) <= cw
    BY <1>0, <1>a, <2>1, AccountCovers, Zenon
  <2>3. Minus(cw, Price(a, b)) = cw - Price(a, b)
    BY <1>0, <1>a, <2>2, PlusMinusType
  <2>4. Account("idle", a, b, cl, cw - Price(a, b), sl, sw + 1)
    BY <1>0, <1>a, <2>1, AccountMoves, Zenon
  <2> QED
    BY <2>3, <2>4
<1> QED
  BY <1>1, <1>2, <1>3, <1>4, <1>5, <1>6, <1>7, <1>8, <1>9, <1>10, Zenon

-----------------------------------------------------------------------------
(* CalmInv is inductive                                                    *)

LEMMA BaseIsPrice == ASSUME NEW ratio PROVE Base(ratio) = Price(ratio.lte, ratio.wlan)
BY DEF Base, Price

LEMMA Numbers ==
    ASSUME TypeInv
    PROVE  /\ tx_ratio.lte \in Word /\ tx_ratio.wlan \in Word
           /\ ratio_count.lte \in Word /\ ratio_count.wlan \in Word
           /\ routed.lte \in Nat /\ routed.wlan \in Nat /\ base_tx_ratio \in Word
           /\ Word \subseteq Nat /\ tx_ratio \in Ratio /\ ratio_count \in Ratio
           /\ routed \in [lte : Nat, wlan : Nat]
<1>1. RatioTypes /\ RoutedType
  BY DEF TypeInv
<1>2. tx_ratio \in Ratio /\ ratio_count \in Ratio /\ base_tx_ratio \in Word
  BY <1>1 DEF RatioTypes
<1>3. routed \in [lte : Nat, wlan : Nat]
  BY <1>1 DEF RoutedType
<1> QED
  BY <1>2, <1>3, PartsType, WordType

\* The gateway routes only while nobody sets a ratio.
LEMMA CalmRests ==
    ASSUME CalmInv, ~disturbed
    PROVE  /\ gw \notin {"idle", "fill"} => Resting
           /\ gw = "idle" /\ at["console"] = "out" => Resting
           /\ gw = "fill" /\ at["gateway"] = "out" => Resting
           /\ gw # "crashed" \/ Resting
<1>1. Resting \/ \E t \in Threads : Setting(t)
  BY DEF CalmInv
<1>2. ASSUME NEW t \in Threads, Setting(t)
     PROVE  \/ gw = "idle" /\ at["console"] # "out"
            \/ gw = "fill" /\ at["gateway"] # "out"
  BY <1>2 DEF Setting, Threads
<1> QED
  BY <1>1, <1>2, Zenon

LEMMA CalmRoute == ASSUME TypeInv, CalmInv, RouteSteps PROVE CalmInv'
<1> SUFFICES ASSUME ~disturbed' PROVE CalmInv'
  BY DEF CalmInv
<1>0. /\ UNCHANGED <<tx_ratio, base_tx_ratio, at, wanted, disturbed, aggregate>>
      /\ gw # "idle" /\ (gw = "fill" => at["gateway"] = "out")
  BY DEF RouteSteps, RouteFill, RouteAddLte, RouteAddWlan, RouteChooseLte, RouteChooseWlan,
         RoutePayLte, RoutePayWlan
<1> DEFINE a == tx_ratio.lte
           b == tx_ratio.wlan
           cl == ratio_count.lte
           cw == ratio_count.wlan
           sl == routed.lte
           sw == routed.wlan
<1>1. /\ at["gateway"] = "out" /\ at["console"] = "out" /\ Fits(tx_ratio) /\ base_tx_ratio = Base(tx_ratio)
      /\ Account(gw, a, b, cl, cw, sl, sw)
  <2>1. Resting
    BY <1>0, CalmRests
  <2> QED
    BY <2>1, Zenon DEF Resting, Credit
<1>2. /\ a \in Word /\ b \in Word /\ cl \in Word /\ cw \in Word 
      /\ a \in Nat /\ b \in Nat /\ cl \in Nat /\ cw \in Nat 
      /\ sl \in Nat /\ sw \in Nat
  BY Numbers
<1>3. /\ a # 0 \/ b # 0
      /\ Price(a, b) + a < CounterMod /\ Price(a, b) + b < CounterMod
      /\ base_tx_ratio = Price(a, b)
  BY <1>1, Numbers, RatioParts, BaseIsPrice DEF Fits, NoWrap
<1>4. Kept(gw, a, b, cl, cw, sl, sw)
  BY <1>1, <1>2, <1>3, Zenon DEF Kept
<1>5. ASSUME UNCHANGED <<ratio_count, routed>>, Account(gw', a, b, cl, cw, sl, sw)
      PROVE  Credit'
  BY <1>0, <1>5, Zenon DEF Credit
<1> SUFFICES Credit'
  BY <1>0, <1>1, Zenon DEF CalmInv, Resting
<1>6. CASE RouteFill
  <2>1. /\ gw = "fill" /\ UNCHANGED <<ratio_count, routed>>
        /\ gw' = IF cl <= base_tx_ratio /\ cw <= base_tx_ratio THEN "add lte" ELSE "choose"
    BY <1>6, Zenon DEF RouteFill
  <2>2. CASE cl <= base_tx_ratio /\ cw <= base_tx_ratio
    <3>1. Account("add lte", a, b, cl, cw, sl, sw)
      BY <1>3, <1>4, <2>1, <2>2, KeptMoves
    <3> QED
      BY <1>5, <2>1, <2>2, <3>1, Zenon
  <2>3. CASE ~(cl <= base_tx_ratio /\ cw <= base_tx_ratio)
    <3>1. Account("choose", a, b, cl, cw, sl, sw)
      BY <1>3, <1>4, <2>1, <2>3, KeptMoves
    <3> QED
      BY <1>5, <2>1, <2>3, <3>1, Zenon
  <2> QED
    BY <2>2, <2>3
<1>7. CASE RouteChooseLte
  <2>1. /\ gw = "choose" /\ UNCHANGED <<ratio_count, routed>>
        /\ gw' = IF cl >= base_tx_ratio THEN "pay lte" ELSE "choose wlan"
    BY <1>7, Zenon DEF RouteChooseLte
  <2>2. CASE cl >= base_tx_ratio
    <3>1. Account("pay lte", a, b, cl, cw, sl, sw)
      BY <1>3, <1>4, <2>1, <2>2, KeptMoves
    <3> QED
      BY <1>5, <2>1, <2>2, <3>1, Zenon
  <2>3. CASE ~(cl >= base_tx_ratio)
    <3>1. Account("choose wlan", a, b, cl, cw, sl, sw)
      BY <1>3, <1>4, <2>1, <2>3, KeptMoves
    <3> QED
      BY <1>5, <2>1, <2>3, <3>1, Zenon
  <2> QED
    BY <2>2, <2>3
<1>8. CASE RouteChooseWlan
  <2>1. /\ gw = "choose wlan" /\ UNCHANGED <<ratio_count, routed>>
        /\ gw' = IF cw >= base_tx_ratio THEN "pay wlan" ELSE "pay lte"
    BY <1>8, Zenon DEF RouteChooseWlan
  <2>2. CASE cw >= base_tx_ratio
    <3>1. Account("pay wlan", a, b, cl, cw, sl, sw)
      BY <1>3, <1>4, <2>1, <2>2, KeptMoves
    <3> QED
      BY <1>5, <2>1, <2>2, <3>1, Zenon
  <2>3. CASE ~(cw >= base_tx_ratio)
    <3>1. Account("pay lte", a, b, cl, cw, sl, sw)
      BY <1>3, <1>4, <2>1, <2>3, KeptMoves
    <3> QED
      BY <1>5, <2>1, <2>3, <3>1, Zenon
  <2> QED
    BY <2>2, <2>3
<1>9. CASE RouteAddLte
  <2>1. /\ gw = "add lte" /\ gw' = "add wlan"
        /\ ratio_count' = [ratio_count EXCEPT !.lte = Plus(cl, a)]
        /\ routed' = routed
    BY <1>9, Zenon DEF RouteAddLte
  <2>2. /\ ratio_count'.lte = Plus(cl, a) /\ ratio_count'.wlan = ratio_count.wlan
        /\ routed'.lte = sl /\ routed'.wlan = sw
    BY <2>1, Numbers DEF Ratio
  <2>3. Account("add wlan", a, b, Plus(cl, a), cw, sl, sw)
    BY <1>4, <2>1, KeptMoves
  <2> QED
    BY <1>0, <1>3, <2>1, <2>2, <2>3 DEF Credit
<1>10. CASE RouteAddWlan
  <2>1. /\ gw = "add wlan" /\ gw' = "fill"
        /\ ratio_count' = [ratio_count EXCEPT !.wlan = Plus(cw, b)]
        /\ routed' = routed
    BY <1>10, Zenon DEF RouteAddWlan
  <2>2. /\ ratio_count'.wlan = Plus(cw, b) /\ ratio_count'.lte = ratio_count.lte
        /\ routed'.lte = sl /\ routed'.wlan = sw
    BY <2>1, Numbers DEF Ratio
  <2>3. Account("fill", a, b, cl, Plus(cw, b), sl, sw)
    BY <1>4, <2>1, KeptMoves
  <2> QED
    BY <1>0, <1>3, <2>1, <2>2, <2>3 DEF Credit
<1>11. CASE RoutePayLte
  <2>1. /\ gw = "pay lte" /\ gw' = "idle"
        /\ ratio_count' = [ratio_count EXCEPT !.lte = Minus(cl, base_tx_ratio)]
        /\ routed' = [routed EXCEPT !.lte = @ + 1]
    BY <1>11, Zenon DEF RoutePayLte
  <2>2. /\ ratio_count'.lte = Minus(cl, base_tx_ratio) /\ ratio_count'.wlan = ratio_count.wlan
        /\ routed'.lte = sl + 1 /\ routed'.wlan = sw
    BY <2>1, Numbers, OneMore DEF Ratio
  <2>3. Account("idle", a, b, Minus(cl, Price(a, b)), cw, sl + 1, sw)
    BY <1>4, <2>1, KeptMoves
  <2> QED
    BY <1>0, <1>3, <2>1, <2>2, <2>3 DEF Credit
<1>12. CASE RoutePayWlan
  <2>1. /\ gw = "pay wlan" /\ gw' = "idle"
        /\ ratio_count' = [ratio_count EXCEPT !.wlan = Minus(cw, base_tx_ratio)]
        /\ routed' = [routed EXCEPT !.wlan = @ + 1]
    BY <1>12, Zenon DEF RoutePayWlan
  <2>2. /\ ratio_count'.wlan = Minus(cw, base_tx_ratio) /\ ratio_count'.lte = ratio_count.lte
        /\ routed'.lte = sl /\ routed'.wlan = sw + 1
    BY <2>1, Numbers, OneMore DEF Ratio
  <2>3. Account("idle", a, b, cl, Minus(cw, Price(a, b)), sl, sw + 1)
    BY <1>4, <2>1, KeptMoves
  <2> QED
    BY <1>0, <1>3, <2>1, <2>2, <2>3 DEF Credit
<1> QED
  BY <1>6, <1>7, <1>8, <1>9, <1>10, <1>11, <1>12 DEF RouteSteps

\* No ratio that may be asked for makes a counter run over.
RatiosFit == \A r \in ConsoleRatios \union AutoRatios :
                NoWrap(Reduced([lte |-> r[1], wlan |-> r[2]]))

LEMMA CalmInit == Init => CalmInv
<1> SUFFICES ASSUME Init PROVE CalmInv
  OBVIOUS
<1>1. /\ tx_ratio.lte = 1 /\ tx_ratio.wlan = 1 /\ base_tx_ratio = 1
      /\ ratio_count.lte = 0 /\ ratio_count.wlan = 0 /\ routed.lte = 0 /\ routed.wlan = 0
      /\ gw = "idle" /\ at["gateway"] = "out" /\ at["console"] = "out"
  BY DEF Init, Zero, Threads
<1>2. Fits(tx_ratio) /\ base_tx_ratio = Base(tx_ratio)
  <2>1. tx_ratio # Zero
    BY <1>1, ZeroType
  <2>2. Base(tx_ratio) = 1
    BY <1>1 DEF Base, Smaller
  <2> QED
    BY <1>1, <2>1, <2>2, RatioAssumption DEF Fits, NoWrap
<1>3. Credit
  BY <1>1, AccountBegins DEF Credit
<1> QED
  BY <1>1, <1>2, <1>3, Zenon DEF CalmInv, Resting

\* get_route starts from the account it left.
LEMMA CreditBegins ==
    ASSUME TypeInv, Credit, gw = "idle", gw' = "fill", UNCHANGED <<tx_ratio, ratio_count, routed>>
    PROVE  Credit'
<1>1. /\ tx_ratio.lte \in Nat /\ tx_ratio.wlan \in Nat /\ ratio_count.lte \in Nat
      /\ ratio_count.wlan \in Nat /\ routed.lte \in Nat /\ routed.wlan \in Nat
  BY Numbers
<1>2. Account("fill", tx_ratio.lte, tx_ratio.wlan, ratio_count.lte, ratio_count.wlan,
              routed.lte, routed.wlan)
  BY <1>1, AccountBegins, Zenon DEF Credit
<1> QED
  BY <1>2, Zenon DEF Credit

\* A ratio just set has a clean account.
LEMMA CreditStarts ==
    ASSUME tx_ratio' \in Ratio, ratio_count' = Zero, routed' = Zero, gw' \in {"idle", "fill"}
    PROVE  Credit'
<1>1. tx_ratio'.lte \in Nat /\ tx_ratio'.wlan \in Nat
  BY RatioParts
<1>2. /\ Account("idle", tx_ratio'.lte, tx_ratio'.wlan, 0, 0, 0, 0)
      /\ Account("fill", tx_ratio'.lte, tx_ratio'.wlan, 0, 0, 0, 0)
  BY <1>1, AccountBegins
<1>3. /\ ratio_count'.lte = 0 /\ ratio_count'.wlan = 0 /\ routed'.lte = 0 /\ routed'.wlan = 0
  BY ZeroType
<1> QED
  BY <1>2, <1>3 DEF Credit

LEMMA CalmBegin == ASSUME TypeInv, CalmInv, RouteBegin PROVE CalmInv'
<1> SUFFICES ASSUME ~disturbed' PROVE CalmInv'
  BY DEF CalmInv
<1>1. /\ ~disturbed /\ at["console"] = "out" /\ gw = "idle" /\ gw' = "fill"
      /\ UNCHANGED <<tx_ratio, base_tx_ratio, ratio_count, routed, at>>
  BY Zenon DEF RouteBegin
<1>2. Resting
  BY <1>1, CalmRests, Zenon
<1>3. Credit'
  BY <1>1, <1>2, CreditBegins, Zenon DEF Resting
<1>4. Resting'
  BY <1>1, <1>2, <1>3, Zenon DEF Resting
<1> QED
  BY <1>4, Zenon DEF CalmInv

\* The thread that calls is the only one that sets a ratio.
LEMMA SettingStarts ==
    ASSUME NEW t \in Threads, NEW r \in Ratio, NoWrap(Reduced(r)), Changes(r),
           at'[t] = "set lte", wanted'[t] = r, \A u \in Threads : u # t => at'[u] = "out",
           gw' = IF t = "console" THEN "idle" ELSE "fill"
    PROVE  Setting(t)'
<1>1. Fits(Reduced(wanted'[t]))
  BY ReducedType DEF Fits, Changes
<1>2. InForce("set lte", wanted[t])'
  BY DEF InForce
<1> QED
  BY <1>1, <1>2 DEF Setting

LEMMA CalmUpdate ==
    ASSUME TypeInv, CalmInv, NEW r \in Ratio, NoWrap(Reduced(r)), RouteUpdate(r)
    PROVE  CalmInv'
<1> SUFFICES ASSUME ~disturbed' PROVE CalmInv'
  BY DEF CalmInv
<1>0. /\ gw = "idle" /\ gw' = "fill" /\ SetTxRatio("gateway", r) /\ at["console"] = "out"
      /\ UNCHANGED <<tx_ratio, base_tx_ratio, ratio_count, routed>>
      /\ disturbed => Changes(r)
  BY Zenon DEF RouteUpdate
<1>1. "gateway" \in Threads /\ RatioTypes /\ PlaceTypes
  BY DEF TypeInv, Threads
<1>2. CASE Changes(r)
  <2>1. at'["gateway"] = "set lte" /\ wanted'["gateway"] = r
    BY <1>0, <1>1, <1>2, TypeCall
  <2>2. \A u \in Threads : u # "gateway" => at'[u] = "out"
    <3>1. \A u \in Threads : u # "gateway" => at'[u] = at[u]
      BY <1>0, <1>1, TypeCall
    <3> QED
      BY <1>0, <3>1 DEF Threads
  <2>3. Setting("gateway")'
    BY <1>0, <1>1, <1>2, <2>1, <2>2, SettingStarts
  <2> QED
    BY <1>1, <2>3, Zenon DEF CalmInv
<1>3. CASE ~Changes(r)
  <2>1. ~disturbed /\ at' = at
    BY <1>0, <1>1, <1>3, TypeCall
  <2>2. Resting
    BY <1>0, <2>1, CalmRests, Zenon
  <2>3. Credit'
    BY <1>0, <2>2, CreditBegins, Zenon DEF Resting
  <2>4. Resting'
    BY <1>0, <2>1, <2>2, <2>3, Zenon DEF Resting
  <2> QED
    BY <2>4, Zenon DEF CalmInv
<1> QED
  BY <1>2, <1>3

LEMMA CalmCall ==
    ASSUME TypeInv, CalmInv, NEW r \in Ratio, NoWrap(Reduced(r)), ConsoleRatio(r)
    PROVE  CalmInv'
<1> SUFFICES ASSUME ~disturbed' PROVE CalmInv'
  BY DEF CalmInv
<1>0. /\ gw = "idle" /\ gw' = "idle" /\ SetTxRatio("console", r) /\ Changes(r)
      /\ UNCHANGED <<tx_ratio, base_tx_ratio, ratio_count>>
  BY Zenon DEF ConsoleRatio
<1>1. "console" \in Threads /\ RatioTypes /\ PlaceTypes /\ at["gateway"] = "out"
  BY <1>0 DEF TypeInv, PlaceTypes, Threads
<1>2. at'["console"] = "set lte" /\ wanted'["console"] = r
  BY <1>0, <1>1, TypeCall
<1>3. \A u \in Threads : u # "console" => at'[u] = "out"
  <2>1. \A u \in Threads : u # "console" => at'[u] = at[u]
    BY <1>0, <1>1, TypeCall
  <2> QED
    BY <1>1, <2>1 DEF Threads
<1>4. Setting("console")'
  BY <1>0, <1>1, <1>2, <1>3, SettingStarts
<1> QED
  BY <1>1, <1>4, Zenon DEF CalmInv

LEMMA CalmOthers ==
    ASSUME CalmInv, (\E on \in BOOLEAN : SetLwipepWlan(on)) \/ UNCHANGED vars
    PROVE  CalmInv'
<1>1. UNCHANGED <<tx_ratio, base_tx_ratio, ratio_count, routed, gw, at, wanted, disturbed>>
  BY Zenon DEF SetLwipepWlan, vars
<1>2. Resting => Resting'
  BY <1>1, Zenon DEF Resting, Credit
<1>3. ASSUME NEW t \in Threads, Setting(t) PROVE Setting(t)'
  <2>1. InForce(at[t], wanted[t])'
    BY <1>1, <1>3 DEF Setting, InForce
  <2>2. Fits(Reduced(wanted[t]))'
    BY <1>1, <1>3 DEF Setting
  <2> QED
    BY <1>1, <1>3, <2>1, <2>2 DEF Setting
<1> QED
  BY <1>1, <1>2, <1>3, Zenon DEF CalmInv

\* A ratio divided by the gcd of its parts is in lowest terms, and neither part is 0.
LEMMA ReducedParts ==
    ASSUME NEW ratio \in Ratio, ratio.lte # 0, ratio.wlan # 0
    PROVE  /\ Reduced(ratio).lte = ratio.lte \div get_gcd(ratio.lte, ratio.wlan)
           /\ Reduced(ratio).wlan = ratio.wlan \div get_gcd(ratio.lte, ratio.wlan)
           /\ Reduced(ratio).lte # 0 /\ Reduced(ratio).wlan # 0
<1> DEFINE a == ratio.lte
           b == ratio.wlan
           d == get_gcd(a, b)
<1>1. a \in Nat /\ b \in Nat /\ a > 0 /\ b > 0
  BY RatioParts
<1>2. Reduced(ratio).lte = a \div d /\ Reduced(ratio).wlan = b \div d
  BY <1>1 DEF Reduced
<1>3. d \in Nat /\ d >= 1 /\ d <= a /\ d <= b
  <2> HIDE DEF a, b
  <2> QED
    BY <1>1, GcdType
<1>4. a \div d # 0 /\ b \div d # 0
  <2> HIDE DEF a, b, d
  <2>1. a \div d >= 1 /\ a \div d \in 0 .. a /\ b \div d >= 1 /\ b \div d \in 0 .. b
    BY <1>1, <1>3, Quotient
  <2> QED
    BY <2>1
<1> QED
  BY <1>2, <1>4

LEMMA RatioEqual ==
    ASSUME NEW r \in Ratio, NEW s \in Ratio, r.lte = s.lte, r.wlan = s.wlan PROVE r = s
BY DEF Ratio

LEMMA CoprimeReduced ==
    ASSUME NEW ratio \in Ratio, ratio.lte # 0, ratio.wlan # 0, ~(get_gcd(ratio.lte, ratio.wlan) > 1)
    PROVE  Reduced(ratio) = ratio
<1> DEFINE a == ratio.lte
           b == ratio.wlan
           d == get_gcd(a, b)
<1>1. a \in Nat /\ b \in Nat /\ a > 0 /\ b > 0
  BY RatioParts
<1>2. Reduced(ratio) \in Ratio /\ Reduced(ratio).lte = a \div d /\ Reduced(ratio).wlan = b \div d
  BY ReducedParts, ReducedType
<1>3. d = 1
  <2>1. d \in Nat /\ d >= 1
    <3> HIDE DEF a, b
    <3> QED
      BY <1>1, GcdType
  <2>2. ~(d > 1)
    OBVIOUS
  <2> HIDE DEF d
  <2> QED
    BY <2>1, <2>2
<1>4. a \div d = a /\ b \div d = b
  <2> HIDE DEF a, b, d
  <2> QED
    BY <1>1, <1>3
<1> QED
  BY <1>2, <1>4, RatioEqual

-----------------------------------------------------------------------------
(* set_lwipep_tx_ratio brings the ratio into force                         *)

\* What the proofs about its statements start from: thread t goes from p to q.
LEMMA Statement ==
    ASSUME TypeInv, NEW t \in Threads, NEW q, Goes(t, q), UNCHANGED wanted
    PROVE  /\ at'[t] = q /\ wanted'[t] = wanted[t] /\ wanted[t] \in Ratio
           /\ wanted[t].lte \in Word /\ wanted[t].wlan \in Word
           /\ wanted[t].lte \in Nat /\ wanted[t].wlan \in Nat
           /\ tx_ratio \in Ratio /\ ratio_count \in Ratio
           /\ Reduced(wanted[t]) \in Ratio
<1>1. /\ wanted \in [Threads -> Ratio] /\ at \in [Threads -> RatioPlaces]
      /\ tx_ratio \in Ratio /\ ratio_count \in Ratio
  BY DEF TypeInv, RatioTypes, PlaceTypes
<1>2. wanted[t] \in Ratio
  BY <1>1
<1> QED
  BY <1>1, <1>2, GoesTo, PartsType, RatioParts, ReducedType

LEMMA ForceSet ==
    ASSUME TypeInv, NEW t \in Threads, InForce(at[t], wanted[t]), SetLte(t) \/ SetWlan(t)
    PROVE  InForce(at[t], wanted[t])'
<1> DEFINE w == wanted[t]
<1>1. CASE SetLte(t)
  <2>1. Goes(t, "set wlan") /\ UNCHANGED wanted
    BY <1>1, Zenon DEF SetLte
  <2>2. at'[t] = "set wlan" /\ wanted'[t] = w /\ w \in Ratio /\ tx_ratio \in Ratio
    BY <2>1, Statement
  <2>3. tx_ratio'.lte = w.lte
    BY <1>1, <2>2 DEF SetLte, Ratio
  <2> QED
    BY <2>2, <2>3 DEF InForce
<1>2. CASE SetWlan(t)
  <2>1. Goes(t, "test lte") /\ UNCHANGED wanted /\ at[t] = "set wlan"
    BY <1>2, Zenon DEF SetWlan
  <2>2. /\ at'[t] = "test lte" /\ wanted'[t] = w /\ w \in Ratio /\ tx_ratio \in Ratio
        /\ w.wlan \in Word
    BY <2>1, Statement
  <2>3. tx_ratio.lte = w.lte
    BY <2>1 DEF InForce
  <2>4. tx_ratio' \in Ratio /\ tx_ratio'.wlan = w.wlan /\ tx_ratio'.lte = tx_ratio.lte
    <3>1. tx_ratio' = [tx_ratio EXCEPT !.wlan = w.wlan]
      BY <1>2, Zenon DEF SetWlan
    <3> HIDE DEF w
    <3> QED
      BY <2>2, <3>1 DEF Ratio, Word
  <2>5. tx_ratio' = w
    BY <2>2, <2>3, <2>4, RatioEqual
  <2> HIDE DEF w
  <2> QED
    BY <2>2, <2>5 DEF InForce
<1> QED
  BY <1>1, <1>2

LEMMA ForceTest ==
    ASSUME TypeInv, NEW t \in Threads, InForce(at[t], wanted[t]), TestLte(t) \/ TestWlan(t)
    PROVE  InForce(at[t], wanted[t])'
<1> DEFINE w == wanted[t]
<1>1. tx_ratio = w /\ UNCHANGED <<tx_ratio, wanted>>
  BY DEF InForce, TestLte, TestWlan
<1>2. CASE TestLte(t)
  <2>1. CASE w.lte = 0
    <3>1. Goes(t, "base wlan")
      BY <1>1, <1>2, <2>1 DEF TestLte
    <3>2. at'[t] = "base wlan" /\ wanted'[t] = w
      BY <1>1, <3>1, Statement
    <3> HIDE DEF w
    <3> QED
      BY <1>1, <2>1, <3>2 DEF InForce
  <2>2. CASE w.lte # 0
    <3>1. Goes(t, "test wlan")
      BY <1>1, <1>2, <2>2 DEF TestLte
    <3>2. at'[t] = "test wlan" /\ wanted'[t] = w
      BY <1>1, <3>1, Statement
    <3> HIDE DEF w
    <3> QED
      BY <1>1, <2>2, <3>2 DEF InForce
  <2> QED
    BY <2>1, <2>2
<1>3. CASE TestWlan(t)
  <2>0. w.lte # 0
    BY <1>3 DEF TestWlan, InForce
  <2>1. CASE w.wlan = 0
    <3>1. Goes(t, "base lte")
      BY <1>1, <1>3, <2>1 DEF TestWlan
    <3>2. at'[t] = "base lte" /\ wanted'[t] = w
      BY <1>1, <3>1, Statement
    <3> HIDE DEF w
    <3> QED
      BY <1>1, <2>0, <2>1, <3>2 DEF InForce
  <2>2. CASE w.wlan # 0
    <3>1. Goes(t, "set gcd")
      BY <1>1, <1>3, <2>2 DEF TestWlan
    <3>2. at'[t] = "set gcd" /\ wanted'[t] = w
      BY <1>1, <3>1, Statement
    <3> HIDE DEF w
    <3> QED
      BY <1>1, <2>0, <2>2, <3>2 DEF InForce
  <2> QED
    BY <2>1, <2>2
<1> QED
  BY <1>2, <1>3

LEMMA ForceOnePath ==
    ASSUME TypeInv, NEW t \in Threads, InForce(at[t], wanted[t]), SetBaseWlan(t) \/ SetBaseLte(t)
    PROVE  InForce(at[t], wanted[t])'
<1> DEFINE w == wanted[t]
<1>1. /\ tx_ratio = w /\ UNCHANGED <<tx_ratio, wanted>> /\ Goes(t, "reset lte")
      /\ \/ w.lte = 0 /\ base_tx_ratio' = w.wlan
         \/ w.lte # 0 /\ w.wlan = 0 /\ base_tx_ratio' = w.lte
  BY DEF InForce, SetBaseWlan, SetBaseLte
<1>2. at'[t] = "reset lte" /\ wanted'[t] = w
  BY <1>1, Statement
<1> HIDE DEF w
<1>3. base_tx_ratio' = Base(w) /\ Reduced(w) = w
  BY <1>1 DEF Base, Reduced
<1> QED
  BY <1>1, <1>2, <1>3 DEF InForce

LEMMA ForceGcd ==
    ASSUME TypeInv, NEW t \in Threads, InForce(at[t], wanted[t]), SetGcd(t) \/ TestGcd(t)
    PROVE  InForce(at[t], wanted[t])'
<1> DEFINE w == wanted[t]
           d == get_gcd(w.lte, w.wlan)
<1>1. tx_ratio = w /\ w.lte # 0 /\ w.wlan # 0 /\ UNCHANGED <<tx_ratio, wanted>>
  BY DEF InForce, SetGcd, TestGcd
<1>2. CASE SetGcd(t)
  <2>1. Goes(t, "test gcd") /\ base_tx_ratio' = d
    BY <1>1, <1>2 DEF SetGcd
  <2>2. at'[t] = "test gcd" /\ wanted'[t] = w
    BY <1>1, <2>1, Statement
  <2> HIDE DEF w
  <2> QED
    BY <1>1, <2>1, <2>2 DEF InForce
<1>3. CASE TestGcd(t)
  <2>1. base_tx_ratio = d /\ UNCHANGED base_tx_ratio
    BY <1>3 DEF TestGcd, InForce
  <2>2. CASE d > 1
    <3>1. Goes(t, "divide lte")
      BY <1>3, <2>1, <2>2 DEF TestGcd
    <3>2. at'[t] = "divide lte" /\ wanted'[t] = w
      BY <1>1, <3>1, Statement
    <3> HIDE DEF w
    <3> QED
      BY <1>1, <2>1, <3>2 DEF InForce
  <2>3. CASE ~(d > 1)
    <3>1. Goes(t, "set final base")
      BY <1>3, <2>1, <2>3 DEF TestGcd
    <3>2. /\ at'[t] = "set final base" /\ wanted'[t] = w
          /\ w \in Ratio
      BY <1>1, <3>1, Statement
    <3> HIDE DEF w
    <3>3. Reduced(w) = w
      BY <1>1, <2>3, <3>2, CoprimeReduced
    <3> QED
      BY <1>1, <3>2, <3>3 DEF InForce
  <2> QED
    BY <2>2, <2>3
<1> QED
  BY <1>2, <1>3

LEMMA ForceDivide ==
    ASSUME TypeInv, NEW t \in Threads, InForce(at[t], wanted[t]), DivideLte(t) \/ DivideWlan(t)
    PROVE  InForce(at[t], wanted[t])'
<1> DEFINE w == wanted[t]
           d == get_gcd(w.lte, w.wlan)
<1>1. /\ base_tx_ratio = d /\ w.lte # 0 /\ w.wlan # 0
      /\ UNCHANGED <<wanted, base_tx_ratio, ratio_count>>
  BY DEF DivideLte, DivideWlan, InForce
<1>a. w \in Ratio /\ Reduced(w) \in Ratio /\ tx_ratio \in Ratio
  <2>1. w \in Ratio /\ tx_ratio \in Ratio
    BY DEF TypeInv, RatioTypes
  <2> QED
    BY <2>1, ReducedType
<1>2. CASE DivideLte(t)
  <2>1. Goes(t, "divide wlan") /\ at[t] = "divide lte"
    BY <1>2, Zenon DEF DivideLte
  <2>2. at'[t] = "divide wlan" /\ wanted'[t] = w
    BY <1>1, <2>1, Statement
  <2>3. tx_ratio = w
    BY <2>1 DEF InForce
  <2>4. tx_ratio' = [w EXCEPT !.lte = w.lte \div d]
    BY <1>1, <1>2, <2>3, Zenon DEF DivideLte
  <2> HIDE DEF w
  <2>5. Reduced(w).lte = w.lte \div d
    BY <1>1, <1>a, ReducedParts
  <2>6. tx_ratio'.lte = Reduced(w).lte /\ tx_ratio'.wlan = w.wlan
    <3> HIDE DEF d
    <3> QED
      BY <1>a, <2>4, <2>5 DEF Ratio
  <2> QED
    BY <1>1, <2>2, <2>6 DEF InForce
<1>3. CASE DivideWlan(t)
  <2>1. Goes(t, "set final base") /\ at[t] = "divide wlan"
    BY <1>3, Zenon DEF DivideWlan
  <2>2. at'[t] = "set final base" /\ wanted'[t] = w
    BY <1>1, <2>1, Statement
  <2>3. tx_ratio.lte = Reduced(w).lte /\ tx_ratio.wlan = w.wlan
    BY <2>1 DEF InForce
  <2>4. tx_ratio' = [tx_ratio EXCEPT !.wlan = w.wlan \div d]
    BY <1>1, <1>3, <2>3, Zenon DEF DivideWlan
  <2> HIDE DEF w
  <2>5. Reduced(w).wlan = w.wlan \div d
    BY <1>1, <1>a, ReducedParts
  <2>6. Reduced(w).wlan \in Word
    BY <1>a, PartsType
  <2>7. tx_ratio' = Reduced(w)
    <3>1. tx_ratio' \in Ratio /\ tx_ratio'.wlan = Reduced(w).wlan /\ tx_ratio'.lte = tx_ratio.lte
      BY <1>a, <2>4, <2>5, <2>6, RatioUpdate
    <3> QED
      BY <1>a, <2>3, <3>1, RatioEqual
  <2> QED
    BY <1>1, <2>2, <2>7 DEF InForce
<1> QED
  BY <1>2, <1>3

\* The gcd of a ratio that is split is not 0.
LEMMA NoDivisionByZero ==
    ASSUME TypeInv, NEW t \in Threads, InForce(at[t], wanted[t]) PROVE ~DivideByZero(t)
<1> SUFFICES ASSUME DivideByZero(t) PROVE FALSE
  OBVIOUS
<1> DEFINE w == wanted[t]
<1>1. get_gcd(w.lte, w.wlan) = 0 /\ w.lte # 0 /\ w.wlan # 0
  BY DEF DivideByZero, InForce
<1>2. w.lte \in Nat /\ w.wlan \in Nat
  <2>1. w \in Ratio
    BY DEF TypeInv, RatioTypes
  <2> QED
    BY <2>1, RatioParts
<1> HIDE DEF w
<1>3. get_gcd(w.lte, w.wlan) >= 1
  BY <1>1, <1>2, GcdType
<1> QED
  BY <1>1, <1>3

LEMMA ForceFinish ==
    ASSUME TypeInv, NEW t \in Threads, InForce(at[t], wanted[t]), SetFinalBase(t) \/ ResetLte(t)
    PROVE  InForce(at[t], wanted[t])'
<1> DEFINE w == wanted[t]
<1>1. tx_ratio = Reduced(w) /\ UNCHANGED <<tx_ratio, wanted>>
  BY DEF SetFinalBase, ResetLte, InForce
<1>2. CASE SetFinalBase(t)
  <2>1. Goes(t, "reset lte") /\ w.lte # 0 /\ w.wlan # 0
    BY <1>2 DEF SetFinalBase, InForce
  <2>2. /\ at'[t] = "reset lte" /\ wanted'[t] = w /\ w \in Ratio
    BY <1>1, <2>1, Statement
  <2>a. base_tx_ratio' = Smaller(tx_ratio.lte, tx_ratio.wlan)
    BY <1>2, Zenon DEF SetFinalBase
  <2> HIDE DEF w
  <2>4. tx_ratio.lte # 0 /\ tx_ratio.wlan # 0
    BY <1>1, <2>1, <2>2, ReducedParts
  <2>5. base_tx_ratio' = Base(tx_ratio)
    BY <2>a, <2>4 DEF Base
  <2>6. base_tx_ratio' = Base(tx_ratio')
    BY <1>1, <2>5
  <2> QED
    BY <1>1, <2>2, <2>6 DEF InForce
<1>3. CASE ResetLte(t)
  <2>1. Goes(t, "reset wlan") /\ base_tx_ratio = Base(tx_ratio) /\ UNCHANGED base_tx_ratio
    BY <1>3 DEF ResetLte, InForce
  <2>2. at'[t] = "reset wlan" /\ wanted'[t] = w /\ ratio_count \in Ratio
    BY <1>1, <2>1, Statement
  <2>3. ratio_count'.lte = 0
    BY <1>3, <2>2 DEF ResetLte, Ratio
  <2>4. base_tx_ratio' = Base(tx_ratio')
    BY <1>1, <2>1
  <2> HIDE DEF w
  <2> QED
    BY <1>1, <2>2, <2>3, <2>4 DEF InForce
<1> QED
  BY <1>2, <1>3

\* The last statement ends the call with the account clear.
LEMMA CalmReset ==
    ASSUME TypeInv, NEW t \in Threads, Setting(t), ResetWlan(t) PROVE Resting'
<1>1. /\ at[t] = "reset wlan" /\ Goes(t, "out") /\ routed' = Zero
      /\ ratio_count' = [ratio_count EXCEPT !.wlan = 0]
      /\ UNCHANGED <<tx_ratio, base_tx_ratio, gw>>
  BY Zenon DEF ResetWlan
<1>2. /\ ratio_count \in Ratio /\ tx_ratio \in Ratio /\ at \in [Threads -> RatioPlaces]
  BY Numbers DEF TypeInv, PlaceTypes
<1>3. /\ ratio_count.lte = 0 /\ tx_ratio = Reduced(wanted[t]) /\ base_tx_ratio = Base(tx_ratio)
      /\ Fits(Reduced(wanted[t])) /\ gw \in {"idle", "fill"}
  BY <1>1 DEF Setting, InForce
<1>4. ratio_count' = Zero
  <2>1. ratio_count' \in Ratio /\ ratio_count'.wlan = 0 /\ ratio_count'.lte = ratio_count.lte
    BY <1>1, <1>2, WordType DEF Ratio, Word
  <2> QED
    BY <1>3, <2>1, RatioParts
<1>5. Credit'
  BY <1>1, <1>2, <1>3, <1>4, CreditStarts
<1>6. at'["gateway"] = "out" /\ at'["console"] = "out"
  <2>1. at'[t] = "out" /\ \A u \in Threads : u # t => at'[u] = at[u]
    BY <1>1, <1>2, GoesTo
  <2>2. \A u \in Threads : u # t => at[u] = "out"
    BY Zenon DEF Setting
  <2> QED
    BY <2>1, <2>2 DEF Threads
<1> QED
  BY <1>1, <1>3, <1>5, <1>6 DEF Resting

\* The others go on with the call.
LEMMA CalmGoesOn ==
    ASSUME TypeInv, NEW t \in Threads, Setting(t), RatioSteps(t), ~ResetWlan(t)
    PROVE  Setting(t)'
<1>1. InForce(at[t], wanted[t])
  BY DEF Setting
<1>2. InForce(at[t], wanted[t])' /\ ~DivideByZero(t)
  BY <1>1, NoDivisionByZero, ForceSet, ForceTest, ForceOnePath, ForceGcd, ForceDivide, ForceFinish,
     Zenon DEF RatioSteps
<1>3. /\ UNCHANGED <<gw, wanted>>
      /\ \E q \in RatioPlaces : q \notin {"out", "crashed"} /\ Goes(t, q)
  <2>1. UNCHANGED <<gw, wanted>>
    BY <1>2, Zenon DEF RatioSteps, SetLte, SetWlan, TestLte, SetBaseWlan, TestWlan, SetBaseLte,
       SetGcd, TestGcd, DivideLte, DivideWlan, SetFinalBase, ResetLte
  <2>2. CASE SetLte(t) \/ SetWlan(t) \/ TestLte(t) \/ SetBaseWlan(t) \/ TestWlan(t) \/ SetBaseLte(t)
    <3>1. \E q \in {"set wlan", "test lte", "base wlan", "test wlan", "reset lte", "base lte",
                    "set gcd"} : Goes(t, q)
      BY <2>2 DEF SetLte, SetWlan, TestLte, SetBaseWlan, TestWlan, SetBaseLte
    <3>2. \E q \in RatioPlaces : q \notin {"out", "crashed"} /\ Goes(t, q)
      BY <3>1 DEF RatioPlaces
    <3> QED
      BY <2>1, <3>2, Zenon
  <2>3. CASE SetGcd(t) \/ TestGcd(t) \/ DivideLte(t) \/ DivideWlan(t) \/ SetFinalBase(t) \/ ResetLte(t)
    <3>1. \E q \in {"test gcd", "divide lte", "divide wlan", "set final base", "reset lte",
                    "reset wlan"} : Goes(t, q)
      BY <2>3 DEF SetGcd, TestGcd, DivideLte, DivideWlan, SetFinalBase, ResetLte
    <3>2. \E q \in RatioPlaces : q \notin {"out", "crashed"} /\ Goes(t, q)
      BY <3>1 DEF RatioPlaces
    <3> QED
      BY <2>1, <3>2, Zenon
  <2> QED
    BY <1>2, <2>2, <2>3, Zenon DEF RatioSteps
<1>4. PICK q \in RatioPlaces : q \notin {"out", "crashed"} /\ Goes(t, q)
  BY <1>3, Zenon
<1>5. at'[t] = q /\ \A u \in Threads : u # t => at'[u] = at[u]
  BY <1>4, GoesTo DEF TypeInv, PlaceTypes
<1>6. Fits(Reduced(wanted'[t]))
  BY <1>3 DEF Setting
<1> QED
  BY <1>2, <1>3, <1>4, <1>5, <1>6, Zenon DEF Setting

LEMMA CalmRatio == ASSUME TypeInv, CalmInv, NEW t \in Threads, RatioSteps(t) PROVE CalmInv'
<1> SUFFICES ASSUME ~disturbed' PROVE CalmInv'
  BY DEF CalmInv
<1>1. ~disturbed /\ at[t] \notin {"out", "crashed"}
  BY RatioGoesOn, Zenon
<1>2. Setting(t)
  <2>1. Resting \/ \E u \in Threads : Setting(u)
    BY <1>1, Zenon DEF CalmInv
  <2>2. ~Resting
    BY <1>1 DEF Resting, Threads
  <2>3. \A u \in Threads : Setting(u) => u = t
    BY <1>1 DEF Setting
  <2> QED
    BY <2>1, <2>2, <2>3, Zenon
<1>3. Resting' \/ Setting(t)'
  BY <1>2, CalmReset, CalmGoesOn, Zenon
<1> QED
  BY <1>3, Zenon DEF CalmInv

LEMMA CalmStep == ASSUME RatiosFit, TypeInv, CalmInv, [Next]_vars PROVE CalmInv'
<1>1. CASE \E r \in AutoRatios : RouteUpdate([lte |-> r[1], wlan |-> r[2]])
  <2>1. PICK r \in AutoRatios : RouteUpdate([lte |-> r[1], wlan |-> r[2]])
    BY <1>1, Zenon
  <2>2. [lte |-> r[1], wlan |-> r[2]] \in Ratio /\ NoWrap(Reduced([lte |-> r[1], wlan |-> r[2]]))
    BY AutoRatioType, Zenon DEF RatiosFit
  <2> QED
    BY <2>1, <2>2, CalmUpdate, Zenon
<1>2. CASE \E r \in ConsoleRatios : ConsoleRatio([lte |-> r[1], wlan |-> r[2]])
  <2>1. PICK r \in ConsoleRatios : ConsoleRatio([lte |-> r[1], wlan |-> r[2]])
    BY <1>2, Zenon
  <2>2. [lte |-> r[1], wlan |-> r[2]] \in Ratio /\ NoWrap(Reduced([lte |-> r[1], wlan |-> r[2]]))
    BY ConsoleRatioType, Zenon DEF RatiosFit
  <2> QED
    BY <2>1, <2>2, CalmCall, Zenon
<1> QED
  BY <1>1, <1>2, CalmBegin, CalmRoute, CalmRatio, CalmOthers, Zenon DEF Next

\* As long as the console does not come between, the split of the packets is the ratio
\* to within two rounds and a path with ratio 0 gets none, for all ratios that do not
\* make the 32-bit counters run over.
THEOREM RatioIsHonoured == ASSUME RatiosFit PROVE Spec => []RatioHonoured
<1>1. TypeInv /\ CalmInv => RatioHonoured
  <2> SUFFICES ASSUME TypeInv, CalmInv, Quiet, ~disturbed PROVE RatioHonoured
    BY DEF RatioHonoured
  <2>1. /\ Fits(tx_ratio)
        /\ Account("idle", tx_ratio.lte, tx_ratio.wlan, ratio_count.lte, ratio_count.wlan,
                   routed.lte, routed.wlan)
    <3>1. Resting /\ gw = "idle"
      BY CalmRests, Zenon DEF Quiet
    <3> QED
      BY <3>1, Zenon DEF Resting, Credit
  <2>2. /\ tx_ratio.lte \in Nat /\ tx_ratio.wlan \in Nat /\ ratio_count.lte \in Nat
        /\ ratio_count.wlan \in Nat /\ routed.lte \in Nat /\ routed.wlan \in Nat
        /\ tx_ratio.lte # 0 \/ tx_ratio.wlan # 0
    BY <2>1, Numbers, RatioParts DEF Fits
  <2>3. /\ 0 <= routed.lte * tx_ratio.wlan - routed.wlan * tx_ratio.lte
        /\ routed.lte * tx_ratio.wlan - routed.wlan * tx_ratio.lte
             <= 2 * tx_ratio.lte * tx_ratio.wlan
        /\ tx_ratio.lte = 0 => routed.lte = 0
        /\ tx_ratio.wlan = 0 => routed.wlan = 0
    BY <2>1, <2>2, AccountHonours, Zenon
  <2> QED
    BY <2>3, Zenon DEF RatioHonoured
<1>2. Init => CalmInv
  BY CalmInit
<1>3. RatiosFit /\ TypeInv /\ CalmInv /\ [Next]_vars => CalmInv'
  BY CalmStep
<1> QED
  BY <1>1, <1>2, <1>3, TypeInvariant, PTL DEF Spec
=============================================================================
