------------------------------ MODULE Payouts ------------------------------
(***************************************************************************)
(* The arithmetic of an arena's money (lib/fees.ts, lib/royale.ts): the    *)
(* host's fee, the split of the pool among the best placed players, and    *)
(* the division of the escrow at settlement.  Amounts are whole micro-USDC,*)
(* the unit the code computes in; the split 62.5 / 23.4375 / 14.0625 % is  *)
(* 40, 15 and 9 parts in 64, which binary floating point holds exactly.    *)
(***************************************************************************)
EXTENDS Integers, Sequences, FiniteSetsExt, Functions

CONSTANT MaxHostFeePct  \* MAX_HOST_FEE_PCT

ASSUME MaxHostFeeAssumption == MaxHostFeePct \in 0..100

(* A definition named Faulty... is a deliberately wrong variant of the one below it, as in
   module Escrow. *)

SPLIT_3 == <<40, 15, 9>>
Parts == 64

-----------------------------------------------------------------------------
(* fees.ts *)

NormalizeHostFeePct(v) == Max({0, Min({MaxHostFeePct, v})})

HostFeeOf(pool, pct) == (pool * NormalizeHostFeePct(pct)) \div 100

-----------------------------------------------------------------------------
(* computePayouts and computeGroupPayouts *)

PaidPlaces(funded, n) == IF funded <= 2 THEN 1 ELSE Min({3, n})

Part(pool, place) == (pool * SPLIT_3[place]) \div Parts

FaultyPlaceAmounts(pool, places) == [i \in 1..places |-> Part(pool, i)]  \* no remainder

(* First place takes what the rounded parts of the others leave. *)
PlaceAmounts(pool, places) ==
    [i \in 1..places |->
        IF i = 1 THEN pool - SumFunction([k \in 2..places |-> Part(pool, k)])
        ELSE Part(pool, i)]

ComputePayouts(pool, n, funded) ==
    LET amounts == PlaceAmounts(pool, PaidPlaces(funded, n)) IN
    [i \in 1..n |-> IF i \in DOMAIN amounts THEN amounts[i] ELSE 0]

TiedWith(score, i) == {j \in DOMAIN score : score[j] = score[i]}

(* Tied players share the places they cover; the first listed takes the odd units. *)
ComputeGroupPayouts(pool, score, funded) ==
    LET amounts == PlaceAmounts(pool, PaidPlaces(funded, Len(score))) IN
    [i \in DOMAIN score |->
        LET group == TiedWith(score, i)
            share == SumFunctionOnSet(amounts, group \cap DOMAIN amounts)
            each == share \div Cardinality(group)
        IN IF i = Min(group) THEN share - each * (Cardinality(group) - 1) ELSE each]

-----------------------------------------------------------------------------
(* payoutShares *)

(* Prizes are scaled down when together they exceed the pot. *)
FittedPrizes(prize, pot) ==
    LET sum == SumFunction(prize) IN
    [i \in DOMAIN prize |-> IF sum > pot THEN (prize[i] * pot) \div sum ELSE prize[i]]

(* The quotient weight / sum is a double: times the vault money it may land just below a whole
   number, and the floor is then one unit short.  slip is the set of weights it happens to. *)
VaultShares(vaultPot, weight, slip) ==
    LET sum == SumFunction(weight) IN
    [i \in DOMAIN weight |->
        IF sum = 0 THEN vaultPot \div Cardinality(DOMAIN weight)
        ELSE LET exact == vaultPot * weight[i] IN
             IF weight[i] \in slip /\ exact > 0 /\ exact % sum = 0 THEN exact \div sum - 1
             ELSE exact \div sum]

FaultyTop(weight) == Min(DOMAIN weight)  \* the first player, whatever their vault

(* The first of the best placed vaults. *)
Top(weight) ==
    CHOOSE i \in DOMAIN weight :
        /\ \A j \in DOMAIN weight : weight[i] >= weight[j]
        /\ \A j \in DOMAIN weight : weight[j] = weight[i] => i <= j

PayoutShares(cash, prize, pot, slip) ==
    LET fitted == FittedPrizes(prize, pot)
        vaultPot == pot - SumFunction(fitted)
        shares == VaultShares(vaultPot, cash, slip)
        dust == vaultPot - SumFunction(shares)
    IN [i \in DOMAIN cash |-> fitted[i] + shares[i] + (IF i = Top(cash) THEN dust ELSE 0)]
=============================================================================
