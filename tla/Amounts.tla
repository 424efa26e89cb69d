------------------------------- MODULE Amounts ------------------------------
(***************************************************************************)
(* CheckAmounts of pkg/lightz/fees.go: whether what lightzd asks for and   *)
(* what it gives differ by its service fee and what transactions cost, or  *)
(* a little more.  The nursery checks every amount of lightzd with it.     *)
(*                                                                         *)
(* Amounts are uint64 and wrap around.  Percentages and fee rates are      *)
(* floats in the code; here they are multiples of 1 / Whole and 1 / Unit,  *)
(* and their products are exact before they are rounded up: a float holds  *)
(* any amount of coins there are, but not every product.                   *)
(***************************************************************************)
EXTENDS Integers

CONSTANTS Currency,
          Modulus,      \* 2^64
          MaxMoney,     \* the coins there are
          Whole, Unit,
          ServiceFees,  \* percentages that lightzd may name
          MaxDiscount,  \* the largest one below zero, in amounts of the swap
          Rates,        \* fee estimations
          Sizes,        \* the table of the same name
          AbsoluteFeeTolerance, RelativeFeeTolerance

ASSUME AmountsAssumption ==
  /\ Modulus \in Nat \ {0}
  /\ MaxMoney \in Nat /\ MaxDiscount \in Nat
  /\ 2 * ((MaxDiscount + 1) * MaxMoney) <= Modulus
  /\ Whole \in Nat \ {0} /\ Unit \in Nat \ {0}
  /\ ServiceFees \subseteq Int
  /\ \A p \in ServiceFees : p >= -(MaxDiscount * Whole)
  /\ Rates \subseteq Nat
  /\ Sizes \in [Currency -> [NormalClaim : Nat, ReverseLockup : Nat,
                             ReverseClaim : Nat]]
  /\ AbsoluteFeeTolerance \in Nat
  /\ RelativeFeeTolerance \in 0 .. Whole

Uint64 == 0 .. Modulus - 1

\* The arguments of CheckAmounts.  There may be no estimation for a currency.
Order == [type         : {"NormalSwap", "ReverseSwap", "ChainSwap"},
          from         : Currency,
          to           : Currency,
          send         : Uint64,
          receive      : Uint64,
          serviceFee   : ServiceFees,
          estimations  : UNION {[C -> Rates] : C \in SUBSET Currency},
          includeClaim : BOOLEAN]

\* math.Ceil(n / d)
Ceil(n, d) == -((-n) \div d)

AtLeast(a, b) == IF a < b THEN b ELSE a

(***************************************************************************)
(* A float as a uint64.  What becomes of one that is none depends on the   *)
(* processor: a negative number wraps around or becomes 0.                 *)
(***************************************************************************)
Converted(x) ==
  IF x \in Uint64 THEN {x}
  ELSE IF x < 0 /\ -Modulus <= 2 * x THEN {x % Modulus, 0}
  ELSE Uint64

\* CalculatePercentage
Percentage(p, v) == Ceil(p * v, Whole)

ServiceFee(o) ==
  Percentage(o.serviceFee, IF o.type = "NormalSwap" THEN o.receive ELSE o.send)

\* calcNetworkFee of a submarine and of a reverse swap, before it is converted.
ClaimFee(o) == Ceil(Sizes[o.from].NormalClaim * o.estimations[o.from], Unit)

LockupFee(o) ==
  LET size == Sizes[o.to].ReverseLockup
                + (IF o.includeClaim THEN Sizes[o.to].ReverseClaim ELSE 0)
  IN  Ceil(size * o.estimations[o.to], Unit)

NetworkFee(o) ==
  CASE o.type = "NormalSwap"  -> ClaimFee(o)
    [] o.type = "ReverseSwap" -> LockupFee(o)
    [] o.type = "ChainSwap"   -> ClaimFee(o) + LockupFee(o)

CalcNetworkFee(o) ==
  CASE o.type = "NormalSwap"  -> Converted(ClaimFee(o))
    [] o.type = "ReverseSwap" -> Converted(LockupFee(o))
    [] o.type = "ChainSwap"   -> {(a + b) % Modulus : a \in Converted(ClaimFee(o)),
                                                      b \in Converted(LockupFee(o))}

RequiredEstimations(o) ==
  CASE o.type = "NormalSwap"  -> {o.from}
    [] o.type = "ReverseSwap" -> {o.to}
    [] o.type = "ChainSwap"   -> {o.from, o.to}

\* A share of a word is a word.
Tolerance(expected) ==
  AtLeast(AbsoluteFeeTolerance, Percentage(RelativeFeeTolerance, expected))

\* Mutant: the tolerance is a share of what is asked for.
CheckTolerance_OfActual(expected, actual) ==
  IF actual > (expected + Tolerance(actual)) % Modulus
  THEN "ErrInvalidOnchainFee"
  ELSE "nil"

CheckTolerance(expected, actual) ==
  IF actual > (expected + Tolerance(expected)) % Modulus
  THEN "ErrInvalidOnchainFee"
  ELSE "nil"

\* What CheckAmounts may return.
CheckAmounts(o) ==
  IF RequiredEstimations(o) \subseteq DOMAIN o.estimations
  THEN {CheckTolerance(expected, (o.send - o.receive - fee) % Modulus) :
          expected \in CalcNetworkFee(o), fee \in Converted(ServiceFee(o))}
  ELSE {"no estimation"}
-----------------------------------------------------------------------------
(***************************************************************************)
(* What the check is for.                                                  *)
(***************************************************************************)
Limit(o) == NetworkFee(o) + Tolerance(NetworkFee(o))

\* More than the service fee, the network fees and the tolerance.
IsOvercharge(o) ==
  o.send - o.receive > AtLeast(ServiceFee(o), 0) + Limit(o)

(***************************************************************************)
(* Amounts that pass the check should never be an overcharge, whatever     *)
(* wraps around on the way (fees.go:53-90).  A service fee below zero is a *)
(* discount, which a conversion may lose; then what is sent has to be      *)
(* money that exists, or the difference and the discount may add up to a   *)
(* word and start again.                                                   *)
(***************************************************************************)
Overcharged ==
  {o \in Order : /\ "nil" \in CheckAmounts(o)
                 /\ o.serviceFee < 0 => o.send <= MaxMoney
                 /\ IsOvercharge(o)}

(***************************************************************************)
(* Amounts that differ by the service fee and at most the network fees and *)
(* the tolerance should not be refused, where the limit is a uint64 and    *)
(* the fee no discount (fees.go:53-90).                                    *)
(***************************************************************************)
FairButRefused ==
  {o \in Order : /\ RequiredEstimations(o) \subseteq DOMAIN o.estimations
                 /\ Limit(o) < Modulus
                 /\ 0 <= ServiceFee(o)
                 /\ o.send - o.receive \in ServiceFee(o) .. ServiceFee(o) + Limit(o)
                 /\ CheckAmounts(o) # {"nil"}}
=============================================================================
