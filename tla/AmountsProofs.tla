---------------------------- MODULE AmountsProofs ----------------------------
(***************************************************************************)
(* What CheckAmounts lets pass and what it accepts, for every amount, fee  *)
(* and estimation, with the width of the integers.                         *)
(***************************************************************************)
EXTENDS Amounts, TLAPS

(***************************************************************************)
(* Rounding.                                                               *)
(***************************************************************************)
\* Ceil(n, d) is the least integer that is not below n / d.
LEMMA CeilRounds ==
  ASSUME NEW n \in Int, NEW d \in Nat \ {0}
  PROVE  /\ Ceil(n, d) \in Int
         /\ n <= d * Ceil(n, d)
         /\ d * Ceil(n, d) < n + d
  BY DEF Ceil

\* It is monotone, and exact for a multiple of d.
LEMMA CeilMonotone ==
  ASSUME NEW n \in Int, NEW d \in Nat \ {0}, NEW k \in Int
  PROVE  /\ n <= d * k => Ceil(n, d) <= k
         /\ d * k <= n => k <= Ceil(n, d)
<1> DEFINE c == Ceil(n, d)
<1>1. c \in Int /\ n <= d * c /\ d * c < n + d
  BY CeilRounds
<1> HIDE DEF c
<1>2. ASSUME n <= d * k, c > k PROVE FALSE
  <2>1. d * (c - k) >= d
    BY <1>1, <1>2
  <2>2. d * (c - k) = d * c - d * k
    BY <1>1
  <2> QED
    BY <1>1, <1>2, <2>1, <2>2
<1>3. ASSUME d * k <= n, c < k PROVE FALSE
  <2>1. d * (k - c) >= d
    BY <1>1, <1>3
  <2>2. d * (k - c) = d * k - d * c
    BY <1>1
  <2> QED
    BY <1>1, <1>3, <2>1, <2>2
<1> QED
  BY <1>1, <1>2, <1>3 DEF c

(***************************************************************************)
(* Words.                                                                  *)
(***************************************************************************)
\* The remainder is a word, and a number between two multiples is reduced by
\* the lower one.
LEMMA Wraps ==
  ASSUME NEW x \in Int
  PROVE  /\ x % Modulus \in Uint64
         /\ x \in Uint64 => x % Modulus = x
         /\ -Modulus <= x /\ x < 0 => x % Modulus = x + Modulus
         /\ x >= 0 => x % Modulus <= x
  BY AmountsAssumption DEF Uint64

\* What a float becomes: a word, the number itself where there is one, never
\* more than a number that is not negative, and a number that is a little below
\* zero is 0 or wraps around.
LEMMA ConvertedWord ==
  ASSUME NEW x \in Int, NEW w \in Converted(x)
  PROVE  /\ w \in Uint64
         /\ x \in Uint64 => w = x
         /\ x >= 0 => w <= x
         /\ x < 0 /\ -Modulus <= 2 * x => w = x + Modulus \/ w = 0
  BY Wraps, AmountsAssumption DEF Converted, Uint64

LEMMA WordConverted ==
  ASSUME NEW x \in Uint64
  PROVE  Converted(x) = {x}
  BY DEF Converted

(***************************************************************************)
(* The tolerance.                                                          *)
(***************************************************************************)
LEMMA ToleranceType ==
  ASSUME NEW e \in Nat
  PROVE  Tolerance(e) \in Nat
<1> DEFINE p == Percentage(RelativeFeeTolerance, e)
<1>1. p \in Int
  BY CeilRounds, AmountsAssumption DEF Percentage
<1> HIDE DEF p
<1>2. Tolerance(e) = AtLeast(AbsoluteFeeTolerance, p)
  BY DEF Tolerance, p
<1> QED
  BY <1>1, <1>2, AmountsAssumption DEF AtLeast

\* It grows with what is expected.
LEMMA ToleranceMonotone ==
  ASSUME NEW a \in Nat, NEW b \in Nat, a <= b
  PROVE  Tolerance(a) <= Tolerance(b)
<1> DEFINE r == RelativeFeeTolerance
           p == Percentage(r, a)
           q == Percentage(r, b)
<1>0. r \in Nat /\ Whole \in Nat \ {0} /\ AbsoluteFeeTolerance \in Nat
  BY AmountsAssumption
<1> HIDE DEF r
<1>1. r * a \in Int /\ r * b \in Int /\ r * a <= r * b
  BY <1>0
<1>2. /\ p \in Int /\ q \in Int
      /\ r * b <= Whole * q
  BY <1>0, <1>1, CeilRounds DEF Percentage
<1>3. r * a <= Whole * q => p <= q
  BY <1>0, <1>1, <1>2, CeilMonotone DEF Percentage
<1> HIDE DEF p, q
<1>4. Whole * q \in Int
  BY <1>0, <1>2
<1>5. p <= q
  BY <1>1, <1>2, <1>3, <1>4
<1>6. Tolerance(a) = AtLeast(AbsoluteFeeTolerance, p) /\ Tolerance(b) = AtLeast(AbsoluteFeeTolerance, q)
  BY DEF Tolerance, p, q, r
<1> QED
  BY <1>0, <1>2, <1>5, <1>6 DEF AtLeast

(***************************************************************************)
(* The network fees.                                                       *)
(***************************************************************************)
\* What is needed of the estimations to have fees.
LEMMA FeesType ==
  ASSUME NEW o \in Order, RequiredEstimations(o) \subseteq DOMAIN o.estimations
  PROVE  /\ o.type \in {"NormalSwap", "ChainSwap"} => ClaimFee(o) \in Nat
         /\ o.type \in {"ReverseSwap", "ChainSwap"} => LockupFee(o) \in Nat
         /\ NetworkFee(o) \in Nat
<1>1. /\ o.from \in Currency /\ o.to \in Currency
      /\ o.type \in {"NormalSwap", "ReverseSwap", "ChainSwap"}
      /\ o.includeClaim \in BOOLEAN
      /\ \A c \in DOMAIN o.estimations : o.estimations[c] \in Nat
  <2>1. PICK C \in SUBSET Currency : o.estimations \in [C -> Rates]
    BY DEF Order
  <2>2. \A c \in DOMAIN o.estimations : o.estimations[c] \in Nat
    BY <2>1, AmountsAssumption
  <2> QED
    BY <2>2 DEF Order
<1>2. ASSUME NEW n \in Nat
      PROVE  Ceil(n, Unit) \in Nat
  BY CeilRounds, CeilMonotone, AmountsAssumption, n \in Int, 0 \in Int, Unit * 0 <= n
<1>3. \A c \in Currency : /\ Sizes[c].NormalClaim \in Nat
                           /\ Sizes[c].ReverseLockup \in Nat
                           /\ Sizes[c].ReverseClaim \in Nat
  BY AmountsAssumption
<1>4. ASSUME o.type \in {"NormalSwap", "ChainSwap"}
      PROVE  ClaimFee(o) \in Nat
  <2>1. o.estimations[o.from] \in Nat
    BY <1>1, <1>4 DEF RequiredEstimations
  <2>2. Sizes[o.from].NormalClaim * o.estimations[o.from] \in Nat
    BY <2>1, <1>1, <1>3
  <2> QED
    BY <2>2, <1>2 DEF ClaimFee
<1>5. ASSUME o.type \in {"ReverseSwap", "ChainSwap"}
      PROVE  LockupFee(o) \in Nat
  <2> DEFINE size == Sizes[o.to].ReverseLockup
                       + (IF o.includeClaim THEN Sizes[o.to].ReverseClaim ELSE 0)
  <2>1. o.estimations[o.to] \in Nat
    BY <1>1, <1>5 DEF RequiredEstimations
  <2>2. size \in Nat
    BY <1>1, <1>3
  <2> HIDE DEF size
  <2>3. size * o.estimations[o.to] \in Nat
    BY <2>1, <2>2
  <2>4. LockupFee(o) = Ceil(size * o.estimations[o.to], Unit)
    BY DEF LockupFee, size
  <2> QED
    BY <2>3, <2>4, <1>2
<1> QED
  BY <1>1, <1>4, <1>5 DEF NetworkFee

\* What is expected is a word and never more than the fees are; it is the fees
\* where they are a word.
LEMMA ExpectedFee ==
  ASSUME NEW o \in Order, RequiredEstimations(o) \subseteq DOMAIN o.estimations,
         NEW e \in CalcNetworkFee(o)
  PROVE  /\ e \in Nat
         /\ e <= NetworkFee(o)
         /\ NetworkFee(o) < Modulus => e = NetworkFee(o)
<1>1. o.type \in {"NormalSwap", "ReverseSwap", "ChainSwap"}
  BY DEF Order
<1>2. CASE o.type = "NormalSwap"
  <2>1. e \in Converted(ClaimFee(o)) /\ NetworkFee(o) = ClaimFee(o)
    BY <1>2 DEF CalcNetworkFee, NetworkFee
  <2>2. ClaimFee(o) \in Nat
    BY <1>2, FeesType
  <2> QED
    BY <2>1, <2>2, ConvertedWord, AmountsAssumption DEF Uint64
<1>3. CASE o.type = "ReverseSwap"
  <2>1. e \in Converted(LockupFee(o)) /\ NetworkFee(o) = LockupFee(o)
    BY <1>3 DEF CalcNetworkFee, NetworkFee
  <2>2. LockupFee(o) \in Nat
    BY <1>3, FeesType
  <2> QED
    BY <2>1, <2>2, ConvertedWord, AmountsAssumption DEF Uint64
<1>4. CASE o.type = "ChainSwap"
  <2>1. PICK a \in Converted(ClaimFee(o)), b \in Converted(LockupFee(o)) :
          e = (a + b) % Modulus
    BY <1>4 DEF CalcNetworkFee
  <2>2. NetworkFee(o) = ClaimFee(o) + LockupFee(o)
    BY <1>4 DEF NetworkFee
  <2>3. ClaimFee(o) \in Nat /\ LockupFee(o) \in Nat
    BY <1>4, FeesType
  <2>4. /\ a \in Uint64 /\ a <= ClaimFee(o)
        /\ ClaimFee(o) < Modulus => a = ClaimFee(o)
    BY <2>3, ConvertedWord, AmountsAssumption DEF Uint64
  <2>5. /\ b \in Uint64 /\ b <= LockupFee(o)
        /\ LockupFee(o) < Modulus => b = LockupFee(o)
    BY <2>3, ConvertedWord, AmountsAssumption DEF Uint64
  <2>6. a + b \in Nat
    BY <2>4, <2>5, AmountsAssumption DEF Uint64
  <2>7. /\ e \in Uint64 /\ e <= a + b
        /\ a + b < Modulus => e = a + b
    BY <2>1, <2>6, Wraps, AmountsAssumption DEF Uint64
  <2> QED
    BY <2>2, <2>3, <2>4, <2>5, <2>7, AmountsAssumption DEF Uint64
<1> QED
  BY <1>1, <1>2, <1>3, <1>4

\* Something is expected of every order.
LEMMA SomeFeeExpected ==
  ASSUME NEW o \in Order
  PROVE  CalcNetworkFee(o) # {}
<1>1. ASSUME NEW x
      PROVE  Converted(x) # {}
  <2>1. 0 \in Uint64
    BY AmountsAssumption DEF Uint64
  <2> QED
    BY <2>1 DEF Converted
<1>2. PICK a \in Converted(ClaimFee(o)), b \in Converted(LockupFee(o)) : TRUE
  BY <1>1
<1>3. o.type \in {"NormalSwap", "ReverseSwap", "ChainSwap"}
  BY DEF Order
<1> QED
  BY <1>2, <1>3 DEF CalcNetworkFee

\* What passes is at most the fees and the tolerance for them.
LEMMA PassedFee ==
  ASSUME NEW o \in Order, RequiredEstimations(o) \subseteq DOMAIN o.estimations,
         NEW e \in CalcNetworkFee(o), NEW actual \in Uint64,
         CheckTolerance(e, actual) = "nil"
  PROVE  actual <= Limit(o)
<1>1. e \in Nat /\ e <= NetworkFee(o) /\ NetworkFee(o) \in Nat
  BY ExpectedFee, FeesType
<1>2. /\ Tolerance(e) \in Nat /\ Tolerance(NetworkFee(o)) \in Nat
      /\ Tolerance(e) <= Tolerance(NetworkFee(o))
  BY <1>1, ToleranceType, ToleranceMonotone
<1>3. (e + Tolerance(e)) % Modulus <= e + Tolerance(e)
  BY <1>1, <1>2, Wraps
<1>4. (e + Tolerance(e)) % Modulus \in Nat
  BY <1>1, <1>2, Wraps DEF Uint64
<1> QED
  BY <1>1, <1>2, <1>3, <1>4 DEF CheckTolerance, Limit, Uint64

(***************************************************************************)
(* The service fee.                                                        *)
(***************************************************************************)
\* The service fee of an amount within the coins there are.
LEMMA DiscountIsBounded ==
  ASSUME NEW p \in ServiceFees, NEW v \in 0 .. MaxMoney
  PROVE  /\ Percentage(p, v) \in Int
         /\ -(MaxDiscount * MaxMoney) <= Percentage(p, v)
<1> DEFINE L == MaxDiscount
<1>1. /\ p \in Int /\ L \in Nat /\ MaxMoney \in Nat /\ v \in Nat /\ v <= MaxMoney
      /\ Whole \in Nat \ {0}
      /\ -(L * Whole) <= p
  BY AmountsAssumption
<1> HIDE DEF L
<1>2. (-(L * Whole)) * v <= p * v
  BY <1>1
<1>3. (-(L * Whole)) * v = Whole * (-(L * v))
  BY <1>1
<1>4. p * v \in Int /\ -(L * v) \in Int
  BY <1>1
<1>5. -(L * v) <= Percentage(p, v) /\ Percentage(p, v) \in Int
  BY <1>1, <1>2, <1>3, <1>4, CeilMonotone, CeilRounds DEF Percentage
<1>6. L * v <= L * MaxMoney
  BY <1>1
<1> QED
  BY <1>1, <1>5, <1>6 DEF L

\* The fee is taken of what is sent or, in a submarine swap, of what is
\* received, which is less where there is a difference at all.
LEMMA FeeOfMoney ==
  ASSUME NEW o \in Order
  PROVE  /\ ServiceFee(o) \in Int
         /\ o.serviceFee >= 0 => ServiceFee(o) >= 0
         /\ o.send <= MaxMoney /\ 0 <= o.send - o.receive
              => -(MaxDiscount * MaxMoney) <= ServiceFee(o)
<1> DEFINE v == IF o.type = "NormalSwap" THEN o.receive ELSE o.send
           q == o.serviceFee
<1>1. /\ q \in ServiceFees
      /\ v \in Nat
      /\ o.send <= MaxMoney /\ 0 <= o.send - o.receive => v \in 0 .. MaxMoney
  <2>1. o.serviceFee \in ServiceFees /\ o.send \in Uint64 /\ o.receive \in Uint64
    BY DEF Order
  <2> QED
    BY <2>1, AmountsAssumption DEF Uint64
<1>2. ServiceFee(o) = Percentage(q, v)
  BY DEF ServiceFee
<1> HIDE DEF v, q
<1>3. q \in Int /\ Whole \in Nat \ {0}
  BY <1>1, AmountsAssumption
<1>4. Percentage(q, v) \in Int /\ (q >= 0 => Percentage(q, v) >= 0)
  <2>1. q * v \in Int /\ (q >= 0 => Whole * 0 <= q * v)
    BY <1>1, <1>3
  <2> QED
    BY <2>1, <1>3, CeilRounds, CeilMonotone DEF Percentage
<1>5. v \in 0 .. MaxMoney => -(MaxDiscount * MaxMoney) <= Percentage(q, v)
  BY <1>1, DiscountIsBounded
<1> QED
  BY <1>1, <1>2, <1>4, <1>5 DEF q

\* What is left of a difference after the fee is its remainder, or the
\* difference was no more than the fee.
LEMMA Remainder ==
  ASSUME NEW o \in Order, NEW fee \in Converted(ServiceFee(o)),
         o.serviceFee < 0 => o.send <= MaxMoney,
         0 <= o.send - o.receive
  PROVE  o.send - o.receive
           <= AtLeast(ServiceFee(o), 0) + ((o.send - o.receive - fee) % Modulus)
<1> DEFINE x == ServiceFee(o)
           d == o.send - o.receive
           B == MaxDiscount * MaxMoney
<1>1. x \in Int /\ (x < 0 => o.serviceFee < 0)
  <2>1. o.serviceFee \in Int
    BY AmountsAssumption DEF Order
  <2> QED
    BY <2>1, FeeOfMoney
<1>2. d \in Nat /\ d < Modulus
  BY AmountsAssumption DEF Order, Uint64
<1>3. /\ B \in Nat /\ MaxMoney \in Nat /\ Modulus \in Nat \ {0}
      /\ 2 * B + 2 * MaxMoney <= Modulus
  BY AmountsAssumption
<1>4. x < 0 => d <= MaxMoney /\ -B <= x
  <2>1. o.send \in Nat /\ o.receive \in Nat
    BY AmountsAssumption DEF Order, Uint64
  <2> QED
    BY <1>1, <1>3, <2>1, FeeOfMoney
<1> HIDE DEF x, d, B
<1>5. fee \in Converted(x)
  BY DEF x
<1>6. fee \in Nat /\ fee < Modulus
  BY <1>1, <1>3, <1>5, ConvertedWord DEF Uint64
<1> DEFINE y == d - fee
           r == y % Modulus
<1>7. /\ y \in Int /\ y = d - fee
      /\ r \in Nat
      /\ 0 <= y /\ y < Modulus => r = y
      /\ -Modulus <= y /\ y < 0 => r = y + Modulus
  <2>1. y \in Int
    BY <1>2, <1>6
  <2> HIDE DEF y
  <2>2. r \in Uint64
    BY <2>1, Wraps
  <2>3. y \in Uint64 => r = y
    BY <2>1, Wraps
  <2>4. -Modulus <= y /\ y < 0 => r = y + Modulus
    BY <2>1, Wraps
  <2> QED
    BY <1>3, <2>1, <2>2, <2>3, <2>4 DEF Uint64, y
<1> HIDE DEF r, y
<1>8. d <= AtLeast(x, 0) + r
  <2>1. CASE x >= 0
    <3>1. fee <= x /\ AtLeast(x, 0) = x
      BY <1>1, <1>5, <2>1, ConvertedWord DEF AtLeast
    <3> QED
      BY <1>1, <1>2, <1>3, <1>6, <1>7, <2>1, <3>1
  <2>2. CASE x < 0
    <3>1. -Modulus <= 2 * x
      BY <1>1, <1>3, <1>4, <2>2
    <3>2. (fee = x + Modulus \/ fee = 0) /\ AtLeast(x, 0) = 0
      BY <1>1, <1>5, <2>2, <3>1, ConvertedWord DEF AtLeast
    <3> QED
      BY <1>1, <1>2, <1>3, <1>4, <1>6, <1>7, <2>2, <3>2
  <2> QED
    BY <1>1, <2>1, <2>2
<1> QED
  BY <1>8 DEF d, x, r, y

(***************************************************************************)
(* Amounts that pass cost the user at most the service fee, the network    *)
(* fees and the tolerance.                                                 *)
(***************************************************************************)
LEMMA PassedAmounts ==
  ASSUME NEW o \in Order, "nil" \in CheckAmounts(o),
         o.serviceFee < 0 => o.send <= MaxMoney
  PROVE  ~IsOvercharge(o)
<1>1. RequiredEstimations(o) \subseteq DOMAIN o.estimations
  BY DEF CheckAmounts
<1>2. PICK expected \in CalcNetworkFee(o), fee \in Converted(ServiceFee(o)) :
        CheckTolerance(expected, (o.send - o.receive - fee) % Modulus) = "nil"
  BY <1>1 DEF CheckAmounts
<1>3. /\ o.send \in Int /\ o.receive \in Int
      /\ ServiceFee(o) \in Int /\ fee \in Int
  BY FeeOfMoney, ConvertedWord, AmountsAssumption DEF Order, Uint64
<1> DEFINE rest == (o.send - o.receive - fee) % Modulus
<1>4. rest \in Uint64 /\ rest \in Nat
  BY <1>3, Wraps DEF Uint64
<1>5. rest <= Limit(o)
  BY <1>1, <1>2, <1>4, PassedFee
<1>6. Limit(o) \in Nat
  BY <1>1, FeesType, ToleranceType DEF Limit
<1>7. CASE 0 <= o.send - o.receive
  <2>1. o.send - o.receive <= AtLeast(ServiceFee(o), 0) + rest
    BY <1>7, Remainder
  <2>2. AtLeast(ServiceFee(o), 0) \in Int
    BY <1>3 DEF AtLeast
  <2> HIDE DEF rest
  <2> QED
    BY <1>3, <1>4, <1>5, <1>6, <2>1, <2>2 DEF IsOvercharge
<1>8. CASE o.send - o.receive < 0
  BY <1>3, <1>6, <1>8 DEF AtLeast, IsOvercharge
<1> QED
  BY <1>3, <1>7, <1>8

\* No order that CheckAmounts lets pass is an overcharge (fees.go:76-91).
THEOREM PassedAmountsAreFair == Overcharged = {}
BY PassedAmounts DEF Overcharged

(***************************************************************************)
(* Amounts that differ by the service fee and no more than the network     *)
(* fees and the tolerance are never refused.                               *)
(***************************************************************************)
LEMMA FairAmounts ==
  ASSUME NEW o \in Order,
         RequiredEstimations(o) \subseteq DOMAIN o.estimations,
         Limit(o) < Modulus,
         0 <= ServiceFee(o),
         o.send - o.receive \in ServiceFee(o) .. ServiceFee(o) + Limit(o)
  PROVE  CheckAmounts(o) = {"nil"}
<1>1. o.send \in Uint64 /\ o.receive \in Uint64 /\ Modulus \in Nat
  BY AmountsAssumption DEF Order
<1>2. ServiceFee(o) \in Uint64 /\ ServiceFee(o) \in Int
  BY <1>1, FeeOfMoney DEF Uint64
<1>3. Converted(ServiceFee(o)) = {ServiceFee(o)}
  BY <1>2, WordConverted
<1>4. /\ NetworkFee(o) \in Nat /\ Tolerance(NetworkFee(o)) \in Nat
      /\ Limit(o) \in Nat /\ NetworkFee(o) < Modulus
  BY <1>1, FeesType, ToleranceType DEF Limit
<1>5. CalcNetworkFee(o) = {NetworkFee(o)}
  <2>1. \A e \in CalcNetworkFee(o) : e = NetworkFee(o)
    BY <1>4, ExpectedFee
  <2>2. CalcNetworkFee(o) # {}
    BY SomeFeeExpected
  <2> QED
    BY <2>1, <2>2
<1> DEFINE rest == o.send - o.receive - ServiceFee(o)
<1>6. rest \in Nat /\ rest <= Limit(o)
  BY <1>1, <1>2, <1>4 DEF Uint64
<1>7. rest % Modulus = rest
  BY <1>1, <1>4, <1>6, Wraps DEF Uint64
<1>8. Limit(o) % Modulus = Limit(o)
  BY <1>1, <1>4, Wraps DEF Uint64
<1>9. CheckTolerance(NetworkFee(o), rest % Modulus) = "nil"
  <2>1. (NetworkFee(o) + Tolerance(NetworkFee(o))) % Modulus = Limit(o)
    BY <1>8 DEF Limit
  <2> HIDE DEF rest
  <2>2. ~ (rest > Limit(o))
    BY <1>4, <1>6
  <2> QED
    BY <1>7, <2>1, <2>2 DEF CheckTolerance
<1> QED
  BY <1>3, <1>5, <1>9 DEF CheckAmounts

\* No order with a fair price is refused by CheckAmounts (fees.go:76-91).
THEOREM FairAmountsPass == FairButRefused = {}
BY FairAmounts DEF FairButRefused
=============================================================================
