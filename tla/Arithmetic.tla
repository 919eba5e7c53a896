-------------------------------- MODULE Arithmetic --------------------------------
(***************************************************************************)
(* What the other proofs use of the integers: arithmetic modulo n, in      *)
(* which the sequence numbers, the slots of the windows and the semaphores *)
(* of the models are counted, and the least and the greatest of a set.     *)
(***************************************************************************)
EXTENDS Integers, WellFoundedInduction, TLAPS

\* A set of naturals has a least element ...
LEMMA LeastOf ==
    ASSUME NEW T, T \subseteq Nat, T # {} PROVE \E x \in T : \A y \in T : x <= y
<1>1. PICK x \in T : \A y \in T : ~ (<<y, x>> \in OpToRel(<, Nat))
  BY NatLessThanWellFounded, WFMin, Zenon
<1>2. \A y \in T : x <= y
  <2> SUFFICES ASSUME NEW y \in T, ~ (x <= y) PROVE FALSE
    OBVIOUS
  <2>1. x \in Nat /\ y \in Nat /\ y < x
    OBVIOUS
  <2>2. <<y, x>> \in OpToRel(<, Nat)
    BY <2>1, Zenon DEF OpToRel
  <2> QED
    BY <1>1, <2>2
<1> QED
  BY <1>2

\* ... and one that is bounded a greatest.
LEMMA GreatestOf ==
    ASSUME NEW T, NEW n \in Nat, T \subseteq 0 .. n, T # {}
    PROVE  \E x \in T : \A y \in T : y <= x
<1> DEFINE U == {n - x : x \in T}
<1>1. U \subseteq Nat /\ U # {}
  <2>1. \A x \in T : n - x \in Nat
    OBVIOUS
  <2>2. \E x \in T : n - x \in U
    BY Zenon
  <2> QED
    BY <2>1, <2>2, Zenon
<1>2. PICK u \in U : \A v \in U : u <= v
  BY <1>1, LeastOf
<1>3. PICK x \in T : u = n - x
  BY <1>2
<1>4. ASSUME NEW y \in T PROVE y <= x
  <2>1. n - y \in U
    OBVIOUS
  <2>2. n - x <= n - y
    BY <1>2, <1>3, <2>1
  <2>3. x \in Int /\ y \in Int /\ n \in Int
    OBVIOUS
  <2> HIDE DEF U
  <2> QED
    BY <2>2, <2>3
<1> QED
  BY <1>4

LEMMA ModDef ==
    ASSUME NEW n \in Nat, n > 0, NEW a \in Int
    PROVE  /\ a \div n \in Int /\ a % n \in 0 .. n - 1
           /\ a = (a \div n) * n + (a % n)
OBVIOUS

\* Two numbers with the same value have the same remainder.
LEMMA ModRemainder ==
    ASSUME NEW n \in Nat, n > 0, NEW k \in Int, NEW j \in Int,
           NEW x \in 0 .. n - 1, NEW y \in 0 .. n - 1, k * n + x = j * n + y
    PROVE  k = j /\ x = y
<1>1. (k - j) * n = y - x
  OBVIOUS
<1>2. ASSUME k - j >= 1 PROVE FALSE
  <2>1. (k - j) * n >= n
    BY <1>2
  <2> QED
    BY <1>1, <2>1
<1>3. ASSUME k - j <= -1 PROVE FALSE
  <2>1. (j - k) * n >= n
    BY <1>3
  <2>2. (j - k) * n = x - y
    OBVIOUS
  <2> QED
    BY <2>1, <2>2
<1> QED
  BY <1>1, <1>2, <1>3

\* a % n is the one remainder in range.
LEMMA ModUnique ==
    ASSUME NEW n \in Nat, n > 0, NEW a \in Int, NEW k \in Int, NEW x \in 0 .. n - 1,
           a = k * n + x
    PROVE  a % n = x
<1> DEFINE j == a \div n
           y == a % n
<1>1. j \in Int /\ y \in 0 .. n - 1 /\ k * n + x = j * n + y
  BY ModDef
<1> HIDE DEF j, y
<1>2. x = y
  BY <1>1, ModRemainder
<1> QED
  BY <1>2 DEF y

LEMMA ModSmall == ASSUME NEW n \in Nat, n > 0, NEW a \in 0 .. n - 1 PROVE a % n = a
<1>1. a = 0 * n + a
  OBVIOUS
<1> QED
  BY <1>1, ModUnique

\* A remainder may be taken before a number is added, and whole turns do not count.
LEMMA ModAdd ==
    ASSUME NEW n \in Nat, n > 0, NEW a \in Int, NEW b \in Int
    PROVE  ((a % n) + b) % n = (a + b) % n
<1> DEFINE j == a \div n
           x == a % n
           k == (x + b) \div n
           y == (x + b) % n
<1>1. j \in Int /\ x \in 0 .. n - 1 /\ a = j * n + x
  BY ModDef
<1>2. k \in Int /\ y \in 0 .. n - 1 /\ x + b = k * n + y
  BY <1>1, ModDef
<1> HIDE DEF j, x, k, y
<1>3. a + b = (j + k) * n + y /\ j + k \in Int
  BY <1>1, <1>2
<1>4. (a + b) % n = y
  <2> DEFINE c == a + b
             q == j + k
  <2>1. c \in Int /\ q \in Int /\ c = q * n + y
    BY <1>3
  <2> HIDE DEF c, q
  <2>2. c % n = y
    BY <1>2, <2>1, ModUnique
  <2> QED
    BY <2>2 DEF c
<1> QED
  BY <1>4 DEF y, x

\* Who comes back to where he was after less than a turn has not moved.
LEMMA ModStay ==
    ASSUME NEW n \in Nat, n > 0, NEW a \in 0 .. n - 1, NEW b \in 0 .. n - 1, (a + b) % n = a
    PROVE  b = 0
<1> DEFINE k == (a + b) \div n
<1>1. k \in Int /\ a + b = k * n + a
  BY ModDef
<1> HIDE DEF k
<1>2. 0 * n + b = k * n + 0
  BY <1>1
<1> QED
  BY <1>1, <1>2, ModRemainder

\* What holds at 0 and from each number to the next holds up to m.
LEMMA UpTo ==
    ASSUME NEW m \in Nat, NEW S, 0 \in S, \A n \in 0 .. m - 1 : n \in S => n + 1 \in S
    PROVE  \A n \in 0 .. m : n \in S
<1> DEFINE T == {n \in 0 .. m : n \notin S}
<1> SUFFICES ASSUME T # {} PROVE FALSE
  OBVIOUS
<1>1. PICK x \in T : \A y \in T : x <= y
  <2>1. T \subseteq Nat
    OBVIOUS
  <2> HIDE DEF T
  <2> QED
    BY <2>1, LeastOf
<1>2. x \in 0 .. m /\ x \notin S
  BY <1>1
<1>3. x - 1 \in 0 .. m - 1 /\ x - 1 + 1 = x
  BY <1>2
<1>4. x - 1 \in S
  <2> SUFFICES ASSUME x - 1 \notin S PROVE FALSE
    OBVIOUS
  <2>1. x - 1 \in T
    BY <1>3
  <2>2. x <= x - 1
    BY <1>1, <2>1
  <2> QED
    BY <1>2, <2>2
<1> QED
  BY <1>2, <1>3, <1>4

\* A larger number holds n as often or oftener.
LEMMA DivMono ==
    ASSUME NEW n \in Nat, n > 0, NEW a \in Int, NEW b \in Int, a <= b
    PROVE  a \div n <= b \div n
<1> DEFINE j == a \div n
           x == a % n
           k == b \div n
           y == b % n
<1>1. j \in Int /\ x \in 0 .. n - 1 /\ a = j * n + x
  BY ModDef
<1>2. k \in Int /\ y \in 0 .. n - 1 /\ b = k * n + y
  BY ModDef
<1> HIDE DEF j, x, k, y
<1>3. ASSUME j - k >= 1 PROVE FALSE
  <2>1. (j - k) * n >= n /\ (j - k) * n = j * n - k * n
    BY <1>1, <1>2, <1>3
  <2>2. j * n \in Int /\ k * n \in Int
    BY <1>1, <1>2
  <2> QED
    BY <1>1, <1>2, <2>1, <2>2
<1>4. j <= k
  BY <1>1, <1>2, <1>3
<1> QED
  BY <1>4 DEF j, k

\* Multiples are in the order of what is multiplied.
LEMMA TimesOrder ==
    ASSUME NEW n \in Nat, n > 0, NEW a \in Int, NEW b \in Int
    PROVE  /\ a <= b <=> a * n <= b * n
           /\ a < b <=> a * n < b * n
<1>1. ASSUME NEW x \in Int, NEW y \in Int, x < y PROVE x * n < y * n
  <2>1. y - x - 1 \in Nat
    BY <1>1
  <2>2. (y - x - 1) * n \in Nat
    BY <2>1
  <2>3. y * n = x * n + n + (y - x - 1) * n
    BY <1>1
  <2>4. x * n \in Int
    OBVIOUS
  <2> QED
    BY <2>2, <2>3, <2>4
<1>2. a * n \in Int /\ b * n \in Int
  OBVIOUS
<1>3. CASE a < b
  BY <1>1, <1>2, <1>3
<1>4. CASE a = b
  BY <1>2, <1>4
<1>5. CASE b < a
  BY <1>1, <1>2, <1>5
<1> QED
  BY <1>3, <1>4, <1>5

\* A number less than a turn away from the range has lost or gained one.
LEMMA Wrap ==
    ASSUME NEW n \in Nat, n > 0, NEW a \in Int, -n <= a, a < 2 * n
    PROVE  a % n = IF a < 0 THEN a + n ELSE IF a < n THEN a ELSE a - n
<1>1. CASE a < 0
  <2>1. a = (-1) * n + (a + n) /\ a + n \in 0 .. n - 1
    BY <1>1
  <2> QED
    BY <1>1, <2>1, ModUnique
<1>2. CASE a >= 0 /\ a < n
  <2>1. a = 0 * n + a /\ a \in 0 .. n - 1
    BY <1>2
  <2> QED
    BY <1>2, <2>1, ModUnique
<1>3. CASE a >= n
  <2>1. a = 1 * n + (a - n) /\ a - n \in 0 .. n - 1
    BY <1>3
  <2> QED
    BY <1>3, <2>1, ModUnique
<1> QED
  BY <1>1, <1>2, <1>3

\* A remainder may be taken before a number is subtracted from another.
LEMMA ModSub ==
    ASSUME NEW n \in Nat, n > 0, NEW a \in Int, NEW b \in Int
    PROVE  (a - (b % n)) % n = (a - b) % n
<1> DEFINE j == (a - b) \div n
           x == (a - b) % n
           k == b \div n
           y == b % n
           c == a - y
           q == j + k
<1>1. j \in Int /\ x \in 0 .. n - 1 /\ a - b = j * n + x
  BY ModDef
<1>2. k \in Int /\ y \in 0 .. n - 1 /\ b = k * n + y
  BY ModDef
<1> HIDE DEF j, x, k, y
<1>3. c \in Int /\ q \in Int /\ c = q * n + x
  <2>1. q * n = j * n + k * n /\ j * n \in Int /\ k * n \in Int
    BY <1>1, <1>2
  <2> QED
    BY <1>1, <1>2, <2>1
<1> HIDE DEF c, q
<1>4. c % n = x
  BY <1>1, <1>3, ModUnique
<1> QED
  BY <1>4 DEF c, x, y

-----------------------------------------------------------------------------
(* Numbers in a ring of n: how far x is ahead of b                         *)

AheadBy(n, x, b) == (x - b) % n

LEMMA AheadType ==
    ASSUME NEW n \in Nat, n > 0, NEW x \in Int, NEW b \in Int PROVE AheadBy(n, x, b) \in 0 .. n - 1
BY ModDef DEF AheadBy

LEMMA AheadShift ==
    ASSUME NEW n \in Nat, n > 0, NEW x \in Int, NEW b \in Int, NEW k \in Int
    PROVE  AheadBy(n, (x + k) % n, b) = (AheadBy(n, x, b) + k) % n
<1> DEFINE y == x + k
           z == x - b
           c == -b
<1>1. y \in Int /\ z \in Int /\ c \in Int /\ y + c = z + k /\ z + k \in Int
  OBVIOUS
<1>2. (y % n) - b = (y % n) + c
  <2>1. y % n \in Int
    BY ModDef
  <2> QED
    BY <2>1
<1> HIDE DEF y, z, c
<1>3. ((y % n) + c) % n = (z + k) % n
  <2>1. ((y % n) + c) % n = (y + c) % n
    BY <1>1, ModAdd, Zenon
  <2> QED
    BY <1>1, <2>1, Zenon
<1>4. ((z % n) + k) % n = (z + k) % n
  <2>1. z \in Int /\ k \in Int
    BY <1>1
  <2> QED
    BY <2>1, ModAdd, Zenon
<1> QED
  BY <1>2, <1>3, <1>4 DEF AheadBy, y, z

\* Seen from c instead of b.
LEMMA AheadVia ==
    ASSUME NEW n \in Nat, n > 0, NEW x \in Int, NEW b \in Int, NEW c \in Int
    PROVE  AheadBy(n, x, c) = (AheadBy(n, x, b) - AheadBy(n, c, b)) % n
<1> DEFINE y == x - b
           z == c - b
           u == y % n
           v == z % n
           m == -v
<1>1. y \in Int /\ z \in Int /\ y - z = x - c
  OBVIOUS
<1>2. u \in Int /\ v \in Int /\ m \in Int
  BY ModDef
<1>3. u - v = u + m /\ y - v = y + m
  BY <1>2
<1> HIDE DEF y, z, m
<1>4. (u + m) % n = (y + m) % n
  BY <1>1, <1>2, ModAdd
<1>5. (y - v) % n = (y - z) % n
  BY <1>1, ModSub
<1> QED
  BY <1>1, <1>3, <1>4, <1>5 DEF AheadBy, y, z

LEMMA AheadTo ==
    ASSUME NEW n \in Nat, n > 0, NEW x \in 0 .. n - 1, NEW b \in Int
    PROVE  (b + AheadBy(n, x, b)) % n = x
<1> DEFINE y == x - b
           u == y % n
<1>1. y \in Int /\ y + b = x
  OBVIOUS
<1>2. u \in Int
  BY ModDef
<1>3. b + u = u + b
  BY <1>2
<1> HIDE DEF y
<1>4. (u + b) % n = (y + b) % n
  BY <1>1, ModAdd
<1>5. x % n = x
  BY ModSmall
<1> QED
  BY <1>1, <1>3, <1>4, <1>5 DEF AheadBy, y
=============================================================================
