---------------------------- MODULE KernelLemmas ----------------------------
(***************************************************************************)
(* Facts about numbers, rounding, recursion and lists that the proofs      *)
(* share.                                                                  *)
(***************************************************************************)
EXTENDS Allocator, Sequences, FiniteSetsExt, WellFoundedInduction, TLAPS

(* The larger of two numbers *)
LEMMA MaxOfPair ==
  ASSUME NEW a \in Nat, NEW b \in Nat
  PROVE  Max({a, b}) \in {a, b} /\ Max({a, b}) >= a /\ Max({a, b}) >= b
<1>1. \E x \in {a, b} : \A y \in {a, b} : x >= y
  <2>1. CASE a >= b
    BY <2>1
  <2>2. CASE ~(a >= b)
    BY <2>2
  <2> QED BY <2>1, <2>2
<1> QED BY <1>1 DEF Max

(* A set of natural numbers that is not empty has a least element. *)
LEMMA LeastNat ==
  ASSUME NEW S, S \subseteq Nat, S # {}
  PROVE  \E z \in S : \A y \in S : z =< y
<1>1. PICK x \in S : \A y \in S : ~(<<y, x>> \in OpToRel(<, Nat))
  BY NatLessThanWellFounded, WFMin, Zenon
<1>2. \A y \in S : ~(y < x)
  BY <1>1, Zenon DEF OpToRel
<1> QED BY <1>2

LEMMA MinOfNats ==
  ASSUME NEW S, S \subseteq Nat, S # {}
  PROVE  Min(S) \in S
BY LeastNat, Zenon DEF Min

(* Induction: a set with 0 in it that goes on up to n has all up to n. *)
LEMMA UpTo ==
  ASSUME NEW n \in Nat, NEW S, 0 \in S,
         \A k \in 1 .. n : k - 1 \in S => k \in S
  PROVE  0 .. n \subseteq S
<1> DEFINE U == (0 .. n) \ S
<1> SUFFICES ASSUME U # {} PROVE FALSE
  OBVIOUS
<1>1. U \subseteq Nat
  OBVIOUS
<1>2. PICK k \in U : \A m \in U : k =< m
  <2> HIDE DEF U
  <2> QED BY <1>1, LeastNat, Zenon
<1>3. k \in 1 .. n /\ k - 1 \in 0 .. n /\ ~(k =< k - 1)
  <2>1. k # 0
    BY <1>2
  <2> QED BY <1>2, <2>1
<1> QED BY <1>2, <1>3

-----------------------------------------------------------------------------
(* Multiples of the same number that are less than it apart are equal. *)
LEMMA MultiplesApart ==
  ASSUME NEW p \in Nat, NEW q \in Nat, NEW n \in Nat \ {0}, p < q
  PROVE  p * n + n <= q * n
<1>1. PICK d \in Nat : q = p + 1 + d
  <2>1. q - p - 1 \in Nat /\ q = p + 1 + (q - p - 1)
    OBVIOUS
  <2> QED BY <2>1
<1>2. q * n = p * n + n + d * n /\ d * n \in Nat /\ p * n \in Nat
  BY <1>1
<1> QED BY <1>2

(* Division is monotone. *)
LEMMA DivMonotone ==
  ASSUME NEW a \in Nat, NEW b \in Nat, NEW n \in Nat \ {0}, a <= b
  PROVE  a \div n \in Nat /\ b \div n \in Nat /\ a \div n <= b \div n
<1> DEFINE p == a \div n
           q == b \div n
<1>1. p \in Nat /\ q \in Nat /\ n * p <= a /\ b < n * q + n
  OBVIOUS
<1> HIDE DEF p, q
<1>2. ASSUME q < p PROVE FALSE
  <2>1. q * n + n <= p * n
    BY <1>1, <1>2, MultiplesApart
  <2>2. q * n = n * q /\ p * n = n * p /\ n * p \in Nat /\ n * q \in Nat
    BY <1>1
  <2> QED BY <1>1, <2>1, <2>2
<1>3. p <= q
  BY <1>1, <1>2
<1> QED BY <1>1, <1>3 DEF p, q

(* Quotient and remainder determine a number. *)
LEMMA QuotientAndRemainder ==
  ASSUME NEW a \in Nat, NEW b \in Nat, NEW n \in Nat \ {0},
         a \div n = b \div n, a % n = b % n
  PROVE  a = b
<1>1. a = n * (a \div n) + (a % n) /\ b = n * (b \div n) + (b % n)
  OBVIOUS
<1> QED BY <1>1

(* So does a sum of a multiple and a remainder its parts. *)
LEMMA MultipleAndRemainder ==
  ASSUME NEW p \in Nat, NEW q \in Nat, NEW n \in Nat \ {0},
         NEW r \in 0 .. n - 1, NEW s \in 0 .. n - 1, p * n + r = q * n + s
  PROVE  p = q /\ r = s
<1>1. p * n \in Nat /\ q * n \in Nat
  OBVIOUS
<1>2. ~(p < q)
  <2>1. ASSUME p < q PROVE p * n + n <= q * n
    BY <2>1, MultiplesApart
  <2> QED BY <1>1, <2>1
<1>3. ~(q < p)
  <2>1. ASSUME q < p PROVE q * n + n <= p * n
    BY <2>1, MultiplesApart
  <2> QED BY <1>1, <2>1
<1>4. p = q
  BY <1>2, <1>3
<1> QED BY <1>1, <1>4

(* align_up rounds up, by less than the alignment, to a multiple of it. *)
LEMMA RoundsUp ==
  ASSUME NEW a \in Nat, NEW al \in Nat \ {0}
  PROVE  /\ align_up(a, al) \in Nat /\ a <= align_up(a, al)
         /\ align_up(a, al) <= a + al - 1
         /\ \E k \in Nat : align_up(a, al) = k * al
<1> DEFINE q == (a + al - 1) \div al
<1>1. q \in Nat /\ al * q <= a + al - 1 /\ a + al - 1 < al * q + al
  OBVIOUS
<1>2. align_up(a, al) = q * al /\ q * al = al * q /\ al * q \in Nat
  BY <1>1 DEF align_up
<1> HIDE DEF q
<1> QED BY <1>1, <1>2

(* A multiple of the alignment is left as it is, *)
LEMMA RoundsFixed ==
  ASSUME NEW k \in Nat, NEW al \in Nat \ {0}
  PROVE  align_up(k * al, al) = k * al
<1>1. k * al \in Nat
  OBVIOUS
<1>2. PICK q \in Nat : align_up(k * al, al) = q * al
  BY <1>1, RoundsUp, Zenon
<1>3. k * al <= q * al /\ q * al <= k * al + al - 1 /\ q * al \in Nat
  BY <1>1, <1>2, RoundsUp, Zenon
<1>4. ~(q < k)
  <2>1. ASSUME q < k PROVE q * al + al <= k * al
    BY <2>1, MultiplesApart
  <2> QED BY <1>1, <1>3, <2>1
<1>5. ~(k < q)
  <2>1. ASSUME k < q PROVE k * al + al <= q * al
    BY <2>1, MultiplesApart
  <2> QED BY <1>1, <1>3, <2>1
<1> QED BY <1>2, <1>4, <1>5

(* and leaves no remainder. *)
LEMMA NoRemainder ==
  ASSUME NEW k \in Nat, NEW al \in Nat \ {0}
  PROVE  (k * al) % al = 0
<1> DEFINE a == k * al
           q == a \div al
           r == a % al
<1>1. a \in Nat
  OBVIOUS
<1> HIDE DEF a
<1>2. q \in Nat /\ r \in 0 .. al - 1 /\ a = al * q + r
  BY <1>1
<1> HIDE DEF q, r
<1>3. q * al = al * q /\ q * al \in Nat
  BY <1>2
<1>4. ~(q < k)
  <2>1. ASSUME q < k PROVE q * al + al <= k * al
    BY <1>2, <2>1, MultiplesApart
  <2> QED BY <1>2, <1>3, <2>1 DEF a
<1>5. ~(k < q)
  <2>1. ASSUME k < q PROVE a + al <= q * al
    BY <1>2, <2>1, MultiplesApart DEF a
  <2> QED BY <1>1, <1>2, <1>3, <2>1
<1>6. k = q
  BY <1>2, <1>4, <1>5
<1>7. r = 0
  BY <1>1, <1>2, <1>3, <1>6 DEF a
<1> QED BY <1>7 DEF r, a

-----------------------------------------------------------------------------
(* Facts about a list that is not empty *)
LEMMA HeadAndTail ==
  ASSUME NEW S, NEW s \in Seq(S), s # <<>>
  PROVE  /\ Tail(s) \in Seq(S) /\ Head(s) = s[1] /\ Head(s) \in S
         /\ 1 \in DOMAIN s
         /\ \A m \in DOMAIN Tail(s) :
              /\ m \in Nat \ {0} /\ m + 1 \in DOMAIN s
              /\ Tail(s)[m] = s[m + 1]
         /\ \A m \in DOMAIN s : m # 1 =>
              m - 1 \in DOMAIN Tail(s) /\ Tail(s)[m - 1] = s[m]
<1>1. Len(s) \in Nat /\ Len(s) # 0 /\ DOMAIN s = 1 .. Len(s)
  OBVIOUS
<1>2. /\ Tail(s) \in Seq(S) /\ Len(Tail(s)) = Len(s) - 1
      /\ DOMAIN Tail(s) = 1 .. Len(s) - 1
  BY <1>1
<1>3. \A m \in 1 .. Len(s) - 1 : Tail(s)[m] = s[m + 1]
  BY <1>1
<1>4. 1 \in DOMAIN s /\ Head(s) = s[1] /\ Head(s) \in S
  BY <1>1
<1>5. \A m \in DOMAIN Tail(s) :
        m \in Nat \ {0} /\ m + 1 \in DOMAIN s /\ Tail(s)[m] = s[m + 1]
  BY <1>1, <1>2, <1>3
<1>6. \A m \in DOMAIN s : m # 1 => m - 1 \in 1 .. Len(s) - 1 /\ (m - 1) + 1 = m
  BY <1>1
<1>7. \A m \in DOMAIN s : m # 1 =>
        m - 1 \in DOMAIN Tail(s) /\ Tail(s)[m - 1] = s[m]
  BY <1>2, <1>3, <1>6
<1> QED BY <1>2, <1>4, <1>5, <1>7

(* Facts about a list with a new head *)
LEMMA NewHead ==
  ASSUME NEW S, NEW s \in Seq(S), NEW a \in S
  PROVE  /\ <<a>> \o s \in Seq(S) /\ 1 \in DOMAIN (<<a>> \o s) /\ (<<a>> \o s)[1] = a
         /\ \A m \in DOMAIN s :
              m + 1 \in DOMAIN (<<a>> \o s) /\ (<<a>> \o s)[m + 1] = s[m]
         /\ \A m \in DOMAIN (<<a>> \o s) : m # 1 =>
              /\ m \in Nat /\ m - 1 \in DOMAIN s
              /\ (<<a>> \o s)[m] = s[m - 1]
<1>1. <<a>> \in Seq(S) /\ Len(<<a>>) = 1 /\ <<a>>[1] = a
  OBVIOUS
<1>2. Len(s) \in Nat /\ DOMAIN s = 1 .. Len(s)
  OBVIOUS
<1>3. /\ <<a>> \o s \in Seq(S) /\ Len(<<a>> \o s) = 1 + Len(s)
      /\ DOMAIN (<<a>> \o s) = 1 .. 1 + Len(s)
  BY <1>1, <1>2
<1>4. (<<a>> \o s)[1] = a
  BY <1>1, <1>2
<1>5. \A m \in 2 .. 1 + Len(s) : (<<a>> \o s)[m] = s[m - 1]
  BY <1>1, <1>2
<1>6. \A m \in DOMAIN s : m + 1 \in 2 .. 1 + Len(s) /\ (m + 1) - 1 = m
  BY <1>2
<1>7. \A m \in 1 .. 1 + Len(s) : m # 1 =>
        m \in Nat /\ m \in 2 .. 1 + Len(s) /\ m - 1 \in 1 .. Len(s)
  BY <1>2
<1>8. \A m \in DOMAIN s :
        m + 1 \in DOMAIN (<<a>> \o s) /\ (<<a>> \o s)[m + 1] = s[m]
  BY <1>2, <1>3, <1>5, <1>6
<1>9. \A m \in DOMAIN (<<a>> \o s) : m # 1 =>
        m \in Nat /\ m - 1 \in DOMAIN s /\ (<<a>> \o s)[m] = s[m - 1]
  BY <1>2, <1>3, <1>5, <1>7
<1>10. 1 \in DOMAIN (<<a>> \o s)
  BY <1>2, <1>3
<1> QED BY <1>3, <1>4, <1>8, <1>9, <1>10
=============================================================================
