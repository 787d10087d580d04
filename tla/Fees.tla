-------------------------------- MODULE Fees --------------------------------
(***************************************************************************)
(* The fee of a requested amount, both in kobo (GetRequestFeesSerializer). *)
(* The fee found by the search is cached with it and copied to the request *)
(* and to the transaction, whose payer is charged the amount and the fee.  *)
(***************************************************************************)
EXTENDS Integers, TLAPS

CONSTANT Amounts \* the amounts that are asked for

ASSUME AmountsAssumption == Amounts \subseteq Int

MIN_REQUEST_VALUE == 5000 * 100
MAX_REQUEST_VALUE == 50000 * 100

\* None: no band holds the amount.
NoFee == -1

\* What the fields of the request let through.
Accepted == {a \in Amounts : MIN_REQUEST_VALUE <= a /\ a <= MAX_REQUEST_VALUE}

\* The code tries the bands from the lowest to the highest and each that fits sets
\* the fee anew, so that of two that overlap the higher counts.
Fee(a) ==
    IF 10000 * 100 < a /\ a <= 50000 * 100 THEN 300 * 100
    ELSE IF MIN_REQUEST_VALUE < a /\ a <= 20000 * 100 THEN 250 * 100
    ELSE IF a <= MIN_REQUEST_VALUE THEN 200 * 100
    ELSE NoFee

(* Every amount that is accepted has a fee, up to both ends of the range,   *)
(* and nobody pays a smaller fee for more money although the bands overlap. *)
FeesGrow ==
    \A a, b \in Accepted :
       /\ Fee(a) # NoFee
       /\ a <= b => Fee(a) <= Fee(b)

(* Whatever amounts are asked for, FeesGrow holds of the bands as they are. *)
THEOREM BandsFit == FeesGrow
<1> SUFFICES ASSUME NEW a \in Accepted, NEW b \in Accepted
             PROVE  Fee(a) # NoFee /\ (a <= b => Fee(a) <= Fee(b))
  BY DEF FeesGrow
<1>1. a \in Int /\ 500000 <= a /\ a <= 5000000
  BY AmountsAssumption DEF Accepted, MIN_REQUEST_VALUE, MAX_REQUEST_VALUE
<1>2. b \in Int /\ 500000 <= b /\ b <= 5000000
  BY AmountsAssumption DEF Accepted, MIN_REQUEST_VALUE, MAX_REQUEST_VALUE
<1> QED
  BY <1>1, <1>2 DEF Fee, NoFee, MIN_REQUEST_VALUE
=============================================================================
