---------------------------- MODULE RoyaleProofs ----------------------------
(***************************************************************************)
(* Theorems about the royale format: the pit that trades against the       *)
(* room's book (module BookPit), for every number of players and bots,     *)
(* every call, trade, line and outcome and every table of the scoring      *)
(* rule, and the prizes it ends with (module Prizes), for every number of  *)
(* players, every entry, vault and host fee, every ranking and every vault *)
(* the players finish with.  The two modules share no variable; the        *)
(* arithmetic of both is that of module PayoutProofs.                      *)
(***************************************************************************)
EXTENDS BookPit, Prizes, PayoutProofs

-----------------------------------------------------------------------------
(* The prizes *)

Arenas == [players : Nat, entry : Nat, vault : Nat, hostFeePct : Int, host : Nat]

(* What an arena is, and, once the prizes are awarded, what they, the vaults and the scores are:
   the invariants below add nothing to it but themselves. *)
PayTypeOK ==
    /\ stage \in {"live", "complete", "shared"}
    /\ arena \in Arenas
    /\ arena.players >= 1 /\ arena.host <= arena.players
    /\ stage = "live" => score = <<>>
    /\ Awarded =>
         /\ hostFee = HostFee
         /\ prize \in [Players -> Nat]
         /\ cash \in [Players -> Nat]
         /\ score = <<>> \/ score \in [Players -> Nat]

(* PrizesAsAdvertised, part by part. *)
Alike(i) == IF score = <<>> THEN {i} ELSE TiedWith(score, i)

PaidInOrder == \A i, j \in Players : i < j => prize[i] >= prize[j]

TiedPaidAlike == \A i \in Players : \A j \in Alike(i) : prize[i] - prize[j] < Cardinality(Alike(i))

PaidByPercentage ==
    arena.players >= 3 => \A i \in Players :
        Parts * SumFunctionOnSet(prize, Alike(i))
            - (Pool - hostFee) * SumFunctionOnSet(SPLIT_3, Alike(i) \cap 1..3) \in -126..126

PaidAsAdvertised ==
    /\ hostFee + SumFunction(prize) = Pool
    /\ 100 * hostFee <= IF arena.host = 0 THEN 0 ELSE MaxHostFeePct * Pool
    /\ PaidInOrder /\ TiedPaidAlike /\ PaidByPercentage

LEMMA AdvertisedParts == PayTypeOK /\ PaidAsAdvertised => PrizesAsAdvertised
<1>1. SUFFICES ASSUME PayTypeOK, PaidAsAdvertised, NEW i \in Players
               PROVE  /\ \A j \in i + 1..arena.players : prize[i] >= prize[j]
                      /\ \A j \in Alike(i) : prize[i] - prize[j] < Cardinality(Alike(i))
                      /\ arena.players >= 3 =>
                           Parts * SumFunctionOnSet(prize, Alike(i))
                             - (Pool - hostFee) * SumFunctionOnSet(SPLIT_3, Alike(i) \cap 1..3)
                               \in -(2 * Parts)..(2 * Parts)
  BY DEF PrizesAsAdvertised, PaidAsAdvertised, Alike
<1>2. \A j \in i + 1..arena.players : j \in Players /\ i < j
  BY DEF PayTypeOK, Arenas, Players
<1>3. -126..126 \subseteq -(2 * Parts)..(2 * Parts)
  BY DEF Parts
<1>4. QED
  BY <1>1, <1>2, <1>3 DEF PaidAsAdvertised, PaidInOrder, TiedPaidAlike, PaidByPercentage

LEMMA PoolFacts ==
  ASSUME arena \in Arenas, arena.players >= 1, arena.host <= arena.players
  PROVE  /\ Pool \in Nat /\ HostFee \in 0..Pool /\ Pool - HostFee \in Nat
         /\ 100 * HostFee <= IF arena.host = 0 THEN 0 ELSE MaxHostFeePct * Pool
         /\ arena.host = 0 => HostFee = 0
         /\ arena.players \in Nat \ {0} /\ arena.vault \in Nat /\ arena.entry \in Nat
         /\ IsFiniteSet(Players) /\ Players # {} /\ Players \subseteq Nat
<1>1. arena.players \in Nat \ {0} /\ arena.entry \in Nat /\ arena.hostFeePct \in Int
      /\ arena.vault \in Nat
  BY DEF Arenas
<1>2. Pool \in Nat
  BY <1>1 DEF Pool
<1>3. /\ HostFeeOf(Pool, arena.hostFeePct) \in 0..Pool
      /\ 100 * HostFeeOf(Pool, arena.hostFeePct) <= MaxHostFeePct * Pool
  BY <1>1, <1>2, HostFeeBound
<1>4. IsFiniteSet(Players)
  <2>1. 1 \in Int /\ arena.players \in Int
    BY <1>1
  <2>2. QED
    BY ONLY <2>1, FS_Interval DEF Players
<1>5. Players # {} /\ Players \subseteq Nat
  BY <1>1 DEF Players
<1>6. HostFee \in 0..Pool
  BY <1>2, <1>3 DEF HostFee
<1>7. 100 * HostFee <= IF arena.host = 0 THEN 0 ELSE MaxHostFeePct * Pool
  BY <1>3 DEF HostFee
<1>8. Pool - HostFee \in Nat
  BY <1>2, <1>6
<1>9. QED
  BY <1>1, <1>2, <1>4, <1>5, <1>6, <1>7, <1>8 DEF HostFee

LEMMA PayInitOK == PayInit => PayTypeOK /\ PrizesAsAdvertised /\ SharesFollowResults
<1>1. SUFFICES ASSUME PayInit PROVE PayTypeOK /\ PrizesAsAdvertised /\ SharesFollowResults
  OBVIOUS
<1>2. ~Awarded /\ stage # "shared"
  BY <1>1 DEF PayInit, Awarded
<1>3. arena \in Arenas /\ arena.players >= 1
  <2>1. PICK p \in 1..MaxPlayers, e \in EntryFees, v \in VaultAmounts, f \in HostFeePcts,
             h \in 0..MaxPlayers :
          arena = [players |-> p, entry |-> e, vault |-> v, hostFeePct |-> f, host |-> h]
    BY <1>1 DEF PayInit
  <2>2. p \in Nat /\ p >= 1 /\ h \in Nat /\ e \in Nat /\ v \in Nat /\ f \in Int
    BY PrizesAssumption
  <2>3. QED
    BY <2>1, <2>2 DEF Arenas
<1>4. PayTypeOK
  BY <1>1, <1>2, <1>3 DEF PayInit, PayTypeOK
<1>5. QED
  BY <1>2, <1>4 DEF PrizesAsAdvertised, SharesFollowResults

LEMMA SettleOK ==
  ASSUME PayTypeOK, Settle
  PROVE  PayTypeOK' /\ PrizesAsAdvertised' /\ SharesFollowResults'
<1> DEFINE n == arena.players
           left == Pool - HostFee
<1>1. /\ Pool \in Nat /\ HostFee \in 0..Pool /\ left \in Nat
      /\ 100 * HostFee <= IF arena.host = 0 THEN 0 ELSE MaxHostFeePct * Pool
      /\ n \in Nat \ {0}
  BY PoolFacts DEF PayTypeOK
<1>2. /\ arena' = arena /\ score' = <<>> /\ hostFee' = HostFee
      /\ stage' = "complete" /\ prize' = ComputePayouts(left, n, n)
  BY DEF Settle, PayTypeOK
<1>3. Players' = Players /\ Pool' = Pool /\ HostFee' = HostFee /\ Players = 1..n
  BY <1>2 DEF Players, Pool, HostFee
<1> HIDE DEF n, left
<1>4. /\ prize' \in [1..n -> Nat]
      /\ SumFunction(prize') = left
      /\ \A i, j \in 1..n : i < j => prize'[i] >= prize'[j]
      /\ \A i \in 1..n : n >= 3 =>
            Parts * prize'[i] - left * SumFunctionOnSet(SPLIT_3, {i} \cap 1..3) \in -126..126
  BY <1>1, <1>2, PayoutsAreThePool
<1>5. cash' \in [Players -> Nat]
  BY PrizesAssumption DEF Settle, FinalCash
<1>6. PayTypeOK'
  BY <1>2, <1>3, <1>4, <1>5 DEF PayTypeOK, Awarded
<1>7. hostFee' + SumFunction(prize') = Pool'
  BY <1>1, <1>2, <1>3, <1>4 DEF left
<1>8. PaidInOrder'
  BY <1>3, <1>4 DEF PaidInOrder
<1>9. ASSUME NEW i \in 1..n
      PROVE  /\ Alike(i)' = {i} /\ Cardinality({i}) = 1
             /\ SumFunctionOnSet(prize', {i}) = prize'[i]
  <2>1. Alike(i)' = {i}
    BY <1>2 DEF Alike
  <2>2. prize'[i] \in Int
    BY <1>4
  <2>3. SumFunctionOnSet(prize', {i}) = prize'[i]
    BY ONLY <2>2, SumSingleton
  <2>4. QED
    BY <2>1, <2>3, FS_Singleton
<1>10. TiedPaidAlike'
  <2>1. ASSUME NEW i \in 1..n, NEW j \in Alike(i)'
        PROVE  prize'[i] - prize'[j] < Cardinality(Alike(i)')
    <3>1. j = i /\ Cardinality(Alike(i)') = 1
      BY <1>9, <2>1
    <3>2. prize'[i] \in Nat
      BY <1>4
    <3>3. QED
      BY ONLY <3>1, <3>2
  <2>2. QED
    BY <1>3, <2>1 DEF TiedPaidAlike
<1>11. PaidByPercentage'
  <2>1. SUFFICES ASSUME n >= 3, NEW i \in 1..n
                 PROVE  Parts * SumFunctionOnSet(prize', Alike(i)')
                          - (Pool' - hostFee') * SumFunctionOnSet(SPLIT_3, Alike(i)' \cap 1..3)
                            \in -126..126
    BY <1>2, <1>3 DEF PaidByPercentage, n
  <2>2. Parts * prize'[i] - left * SumFunctionOnSet(SPLIT_3, {i} \cap 1..3) \in -126..126
    BY <1>4, <2>1
  <2>3. QED
    BY <1>2, <1>3, <1>9, <2>2 DEF left
<1>12. 100 * hostFee' <= IF arena'.host = 0 THEN 0 ELSE MaxHostFeePct * Pool'
  BY ONLY <1>1, <1>2, <1>3, Zenon
<1>13. PrizesAsAdvertised'
  <2>1. PaidAsAdvertised'
    BY <1>7, <1>8, <1>10, <1>11, <1>12 DEF PaidAsAdvertised
  <2>2. QED
    BY <1>6, <2>1, AdvertisedParts, PTL
<1>14. QED
  BY <1>2, <1>6, <1>13 DEF SharesFollowResults

LEMMA SettlePredictionsOK ==
  ASSUME PayTypeOK, SettlePredictions
  PROVE  PayTypeOK' /\ PrizesAsAdvertised' /\ SharesFollowResults'
<1> DEFINE n == arena.players
           left == Pool - HostFee
<1>1. /\ Pool \in Nat /\ HostFee \in 0..Pool /\ left \in Nat
      /\ 100 * HostFee <= IF arena.host = 0 THEN 0 ELSE MaxHostFeePct * Pool
      /\ n \in Nat \ {0} /\ n \in Nat /\ arena.vault \in Nat
  BY PoolFacts DEF PayTypeOK
<1>2. /\ arena' = arena /\ hostFee' = HostFee /\ score' \in Rankings
      /\ stage' = "complete" /\ prize' = ComputeGroupPayouts(left, score', n)
      /\ cash' = [i \in Players |-> arena.vault]
  BY DEF SettlePredictions, PayTypeOK
<1>3. Players' = Players /\ Pool' = Pool /\ HostFee' = HostFee /\ Players = 1..n
  BY <1>2 DEF Players, Pool, HostFee
<1> HIDE DEF n, left
<1>4. score' \in [1..n -> Nat] /\ \A i, j \in 1..n : i < j => score'[i] >= score'[j]
  BY <1>2, <1>3, PrizesAssumption DEF Rankings
<1>5. score' # <<>>
  BY <1>1, <1>4
<1>6. prize' \in [1..n -> Nat] /\ SumFunction(prize') = left
  BY <1>1, <1>2, <1>4, GroupPayoutsSum
<1>7. PayTypeOK'
  BY <1>1, <1>2, <1>3, <1>4, <1>6 DEF PayTypeOK, Awarded
<1>8. hostFee' + SumFunction(prize') = Pool'
  BY <1>1, <1>2, <1>3, <1>6 DEF left
<1>9. PaidInOrder'
  <2>1. \A i, j \in 1..n : i < j => prize'[i] >= prize'[j]
    BY <1>1, <1>2, <1>4, GroupPayoutsFollowRank
  <2>2. QED
    BY <1>3, <2>1 DEF PaidInOrder
<1>10. \A i \in 1..n : Alike(i)' = TiedWith(score', i)
  BY <1>5 DEF Alike
<1>11. TiedPaidAlike'
  <2>1. ASSUME NEW i \in 1..n, NEW j \in TiedWith(score', i)
        PROVE  prize'[i] - prize'[j] < Cardinality(TiedWith(score', i))
    <3>1. i \in TiedWith(score', i)
      BY <1>4 DEF TiedWith
    <3>2. \A k, l \in TiedWith(score', i) : prize'[k] - prize'[l] < Cardinality(TiedWith(score', i))
      <4>1. PICK places : places = PaidPlaces(n, n)
        OBVIOUS
      <4>2. PICK amounts : amounts = PlaceAmounts(left, places)
        OBVIOUS
      <4>3. QED
        BY <1>1, <1>2, <1>4, <4>1, <4>2, GroupIsPaid
    <3>3. QED
      BY <3>1, <3>2
  <2>2. QED
    BY <1>3, <1>10, <2>1 DEF TiedPaidAlike
<1>12. PaidByPercentage'
  <2>1. SUFFICES ASSUME n >= 3, NEW i \in 1..n
                 PROVE  Parts * SumFunctionOnSet(prize', Alike(i)')
                          - (Pool' - hostFee') * SumFunctionOnSet(SPLIT_3, Alike(i)' \cap 1..3)
                            \in -126..126
    BY <1>2, <1>3 DEF PaidByPercentage, n
  <2>2. Parts * SumFunctionOnSet(prize', TiedWith(score', i))
          - left * SumFunctionOnSet(SPLIT_3, TiedWith(score', i) \cap 1..3) \in -126..126
    BY <1>1, <1>2, <1>4, <2>1, GroupPayoutsAsAdvertised
  <2>3. QED
    BY <1>2, <1>3, <1>10, <2>2 DEF left
<1>13. 100 * hostFee' <= IF arena'.host = 0 THEN 0 ELSE MaxHostFeePct * Pool'
  BY ONLY <1>1, <1>2, <1>3, Zenon
<1>14. PrizesAsAdvertised'
  <2>1. PaidAsAdvertised'
    BY <1>8, <1>9, <1>11, <1>12, <1>13 DEF PaidAsAdvertised
  <2>2. QED
    BY <1>7, <2>1, AdvertisedParts, PTL
<1>15. QED
  BY <1>2, <1>7, <1>14 DEF SharesFollowResults

(* Together, the prizes and the host's fee are the pool. *)
LEMMA PrizesArePool ==
  ASSUME PayTypeOK, Awarded, hostFee + SumFunction(prize) = Pool
  PROVE  LET paid == [i \in Players |-> PrizeOf(i)] IN
         /\ paid \in [Players -> Nat]
         /\ SumFunctionOnSet(paid, Players) = Pool
<1> DEFINE paid == [i \in Players |-> PrizeOf(i)]
           fee == [i \in Players |-> IF i = arena.host THEN hostFee ELSE 0]
<1>1. /\ Pool \in Nat /\ HostFee \in Nat /\ IsFiniteSet(Players)
      /\ arena.host = 0 => HostFee = 0
  BY PoolFacts DEF PayTypeOK
<1>2. hostFee \in Nat /\ (arena.host = 0 => hostFee = 0) /\ prize \in [Players -> Nat]
  BY <1>1 DEF PayTypeOK
<1>3. \A i \in Players : /\ prize[i] \in Nat /\ fee[i] \in Nat /\ paid[i] = prize[i] + fee[i]
                         /\ paid[i] \in Nat
  BY <1>2 DEF PrizeOf
<1>4. arena.host = 0 \/ arena.host \in Players
  BY DEF PayTypeOK, Arenas, Players
<1>5. \A i \in Players : fee[i] = IF i = arena.host THEN hostFee ELSE 0
  OBVIOUS
<1> paid \in [Players -> Nat]
  BY <1>3
<1> HIDE DEF paid, fee
<1>6. SumFunctionOnSet(paid, Players)
        = SumFunctionOnSet(prize, Players) + SumFunctionOnSet(fee, Players)
  <2>1. \A i \in Players : prize[i] \in Int /\ fee[i] \in Int /\ paid[i] = prize[i] + fee[i]
    BY <1>3
  <2>2. QED
    BY ONLY <1>1, <2>1, SumAdd
<1>7. SumFunctionOnSet(fee, Players) = hostFee
  <2>1. CASE arena.host = 0
    <3>1. \A i \in Players : fee[i] = 0
      BY <1>2, <1>5, <2>1
    <3>2. SumFunctionOnSet(fee, Players) = 0 * Cardinality(Players)
      <4>1. 0 \in Int
        OBVIOUS
      <4>2. QED
        BY ONLY <1>1, <3>1, <4>1, SumConst
    <3>3. Cardinality(Players) \in Nat
      BY <1>1, FS_CardinalityType
    <3>4. QED
      BY <1>2, <2>1, <3>2, <3>3
  <2>2. CASE arena.host \in Players
    <3>1. \A i \in Players : fee[i] \in Int
      BY <1>3
    <3>2. {arena.host} \in SUBSET Players /\ \A i \in Players \ {arena.host} : fee[i] = 0
      BY <1>5, <2>2
    <3>3. SumFunctionOnSet(fee, Players) = SumFunctionOnSet(fee, {arena.host})
      BY ONLY <1>1, <3>1, <3>2, SumSupport
    <3>4. fee[arena.host] = hostFee /\ fee[arena.host] \in Int
      BY <1>5, <3>1, <2>2
    <3>5. QED
      BY ONLY <3>3, <3>4, SumSingleton
  <2>3. QED
    BY <1>4, <2>1, <2>2
<1>8. SumFunctionOnSet(prize, Players) = SumFunction(prize)
  BY <1>2 DEF SumFunction
<1>9. SumFunctionOnSet(paid, Players) = SumFunctionOnSet(prize, Players) + hostFee
  BY ONLY <1>6, <1>7
<1>10. SumFunctionOnSet(prize, Players) \in Int
  <2>1. \A i \in Players : prize[i] \in Int
    BY <1>3
  <2>2. QED
    BY ONLY <1>1, <2>1, SumInt
<1>11. SumFunctionOnSet(paid, Players) = Pool
  BY <1>1, <1>2, <1>8, <1>9, <1>10
<1>12. QED
  BY <1>11 DEF paid

LEMMA ShareOK ==
  ASSUME PayTypeOK, PrizesAsAdvertised, NEW remaining \in (SUBSET Players) \ {{}}, Share(remaining)
  PROVE  PayTypeOK' /\ PrizesAsAdvertised' /\ SharesFollowResults'
<1> DEFINE n == arena.players
           amount == Cardinality(remaining) * (arena.entry + arena.vault)
           kept == Restrict(cash, remaining)
           due == [i \in remaining |-> PrizeOf(i)]
           all == [i \in Players |-> PrizeOf(i)]
<1>1. /\ stage = "complete" /\ stage' = "shared" /\ pot' = amount
      /\ arena' = arena /\ score' = score /\ hostFee' = hostFee /\ prize' = prize /\ cash' = cash
  BY DEF Share
<1>2. PICK slip : share' = PayoutShares(kept, due, amount, slip)
  BY DEF Share
<1>3. /\ Awarded /\ Awarded' /\ Players' = Players /\ Pool' = Pool /\ HostFee' = HostFee
      /\ \A i : PrizeOf(i)' = PrizeOf(i)
  BY <1>1 DEF Awarded, Players, Pool, HostFee, PrizeOf
<1>4. PayTypeOK'
  BY <1>1, <1>3 DEF PayTypeOK
<1>5. PrizesAsAdvertised'
  BY <1>1, <1>3 DEF PrizesAsAdvertised, TiedWith
<1>6. /\ Pool \in Nat /\ IsFiniteSet(Players) /\ Players \subseteq Nat
      /\ n \in Nat /\ arena.entry \in Nat /\ arena.vault \in Nat
  BY PoolFacts DEF PayTypeOK
<1>7. /\ remaining \in SUBSET Players /\ remaining # {} /\ remaining \subseteq Nat
      /\ IsFiniteSet(remaining) /\ Cardinality(remaining) \in Nat
  <2>1. remaining \in SUBSET Players /\ remaining # {}
    OBVIOUS
  <2>2. IsFiniteSet(remaining)
    BY ONLY <1>6, <2>1, FS_Subset
  <2>3. QED
    BY <1>6, <2>1, <2>2, FS_CardinalityType
<1>8. amount \in Nat
  BY <1>6, <1>7
<1>9. /\ all \in [Players -> Nat] /\ SumFunctionOnSet(all, Players) = Pool
  BY <1>3, PrizesArePool DEF PrizesAsAdvertised
<1>10. /\ \A i \in Players : PrizeOf(i) \in Nat
       /\ due \in [remaining -> Nat]
  BY <1>7, <1>9
<1>11. /\ kept \in [remaining -> Nat] /\ cash \in [Players -> Nat]
       /\ \A i \in remaining : kept[i] = cash[i]
  BY <1>3, <1>7 DEF PayTypeOK, Restrict
<1>12. \A i \in remaining : due[i] = PrizeOf(i)
  OBVIOUS
<1> HIDE DEF amount, kept, due
<1> DEFINE fitted == FittedPrizes(due, amount)
           vaultPot == amount - SumFunctionOnSet(fitted, remaining)
           shares == VaultShares(vaultPot, kept, slip)
           dust == vaultPot - SumFunctionOnSet(shares, remaining)
<1>13. /\ share' \in [remaining -> Nat]
       /\ SumFunctionOnSet(share', remaining) = amount
       /\ vaultPot \in Nat /\ dust \in Nat
       /\ \A i \in remaining :
             share'[i] = fitted[i] + shares[i] + (IF i = Top(kept) THEN dust ELSE 0)
  <2>1. IsFiniteSet(remaining) /\ remaining # {} /\ \A i \in remaining : i \in Nat
    BY <1>7
  <2>2. kept \in [remaining -> Nat] /\ due \in [remaining -> Nat] /\ amount \in Nat
    BY <1>8, <1>10, <1>11
  <2>3. /\ fitted = FittedPrizes(due, amount)
        /\ vaultPot = amount - SumFunctionOnSet(fitted, remaining)
        /\ shares = VaultShares(vaultPot, kept, slip)
        /\ dust = vaultPot - SumFunctionOnSet(shares, remaining)
    OBVIOUS
  <2> HIDE DEF fitted, vaultPot, shares, dust
  <2>4. QED
    BY ONLY <1>2, <2>1, <2>2, <2>3, PayoutSharesAre
<1>14. /\ fitted \in [remaining -> Nat]
       /\ SumFunctionOnSet(due, remaining) <= amount => fitted = due
       /\ \A i, j \in remaining : due[i] >= due[j] => fitted[i] >= fitted[j]
  BY ONLY <1>7, <1>8, <1>10, FittedPrizesAre
<1> HIDE DEF fitted, vaultPot
<1>15. /\ shares \in [remaining -> Nat]
       /\ \A i, j \in remaining : kept[i] >= kept[j] => shares[i] >= shares[j]
       /\ SumFunctionOnSet(kept, remaining) = vaultPot =>
             \A i \in remaining : kept[i] - 1 <= shares[i] /\ shares[i] <= kept[i]
  BY ONLY <1>7, <1>11, <1>13, VaultSharesAre
<1> HIDE DEF shares, dust
<1>16. /\ Top(kept) \in remaining
       /\ \A j \in remaining : /\ kept[Top(kept)] >= kept[j]
                               /\ kept[j] = kept[Top(kept)] => Top(kept) <= j
  BY ONLY <1>7, <1>11, TopIs
<1>17. Remaining' = remaining
  BY <1>13 DEF Remaining
<1>18. SumFunction(share)' = pot'
  BY <1>1, <1>13 DEF SumFunction
<1>19. ASSUME SumFunction(cash) = n * arena.vault, remaining = Players, NEW i \in remaining
       PROVE  share'[i] - (cash[i] + PrizeOf(i)) \in -1..n
  <2>1. Cardinality(remaining) = n
    <3>1. n \in Nat
      BY <1>6
    <3>2. Cardinality(1..n) = n
      <4>1. 1 \in Int /\ n \in Int /\ 1 <= n + 1
        BY <3>1
      <4>2. Cardinality(1..n) = IF 1 > n THEN 0 ELSE n - 1 + 1
        BY ONLY <4>1, FS_Interval
      <4>3. QED
        BY <3>1, <4>2
    <3>3. QED
      BY <1>19, <3>2 DEF Players
  <2>2. amount = Pool + n * arena.vault
    <3>1. \A a, b, c \in Nat : a * (b + c) = a * b + a * c
      OBVIOUS
    <3>2. QED
      BY <1>6, <2>1, <3>1 DEF amount, Pool
  <2>3. due = all
    BY <1>19 DEF due
  <2>4. n * arena.vault \in Nat
    BY <1>6
  <2> HIDE DEF n, all
  <2>5. SumFunctionOnSet(due, remaining) = Pool
    BY <1>9, <1>19, <2>3
  <2>6. fitted = due
    BY <1>6, <1>14, <2>2, <2>4, <2>5
  <2>7. vaultPot = n * arena.vault
    BY <1>6, <2>2, <2>4, <2>5, <2>6 DEF vaultPot
  <2>8. kept = cash
    BY <1>11, <1>19 DEF kept, Restrict
  <2>9. SumFunctionOnSet(kept, remaining) = vaultPot
    <3>1. DOMAIN cash = remaining
      BY <1>11, <1>19
    <3>2. SumFunction(cash) = SumFunctionOnSet(cash, remaining)
      BY <3>1 DEF SumFunction
    <3>3. QED
      BY <1>19, <2>7, <2>8, <3>2
  <2>10. \A j \in remaining : kept[j] - 1 <= shares[j] /\ shares[j] <= kept[j]
    BY <1>15, <2>9
  <2>11. dust <= n
    <3> DEFINE one == [j \in remaining |-> 1]
               upto == [j \in remaining |-> shares[j] + one[j]]
    <3> IsFiniteSet(remaining)
      BY <1>7
    <3>1. \A j \in remaining : /\ kept[j] \in Int /\ upto[j] \in Int /\ kept[j] <= upto[j]
                               /\ shares[j] \in Int /\ one[j] \in Int /\ one[j] = 1
                               /\ upto[j] = shares[j] + one[j]
      BY <1>11, <1>15, <2>10
    <3> HIDE DEF one, upto
    <3>2. SumFunctionOnSet(kept, remaining) <= SumFunctionOnSet(upto, remaining)
      BY ONLY <1>7, <3>1, SumLeq
    <3>3. SumFunctionOnSet(upto, remaining)
            = SumFunctionOnSet(shares, remaining) + SumFunctionOnSet(one, remaining)
      BY ONLY IsFiniteSet(remaining), <3>1, SumAdd
    <3>4. SumFunctionOnSet(one, remaining) = 1 * Cardinality(remaining)
      <4>1. 1 \in Int
        OBVIOUS
      <4>2. QED
        BY ONLY IsFiniteSet(remaining), <3>1, <4>1, SumConst
    <3>5. SumFunctionOnSet(shares, remaining) \in Int
      BY ONLY <1>7, <3>1, SumInt
    <3>6. n \in Nat
      BY <1>6 DEF n
    <3>7. vaultPot <= SumFunctionOnSet(shares, remaining) + n
      BY <2>1, <2>9, <3>2, <3>3, <3>4, <3>6
    <3>8. QED
      BY <1>13, <3>5, <3>6, <3>7 DEF dust
  <2>12. /\ share'[i] = due[i] + shares[i] + (IF i = Top(kept) THEN dust ELSE 0)
         /\ due[i] = PrizeOf(i) /\ kept[i] = cash[i]
    BY <1>11, <1>12, <1>13, <1>19, <2>6
  <2>13. /\ due[i] \in Nat /\ shares[i] \in Nat /\ kept[i] \in Nat /\ dust \in Nat /\ n \in Nat
    BY <1>6, <1>10, <1>11, <1>13, <1>15, <1>19 DEF n
  <2>14. kept[i] - 1 <= shares[i] /\ shares[i] <= kept[i]
    BY <2>10, <1>19
  <2>15. QED
    BY ONLY <2>11, <2>12, <2>13, <2>14
<1>20. ASSUME NEW i \in remaining, NEW j \in remaining,
              cash[i] >= cash[j], PrizeOf(i) >= PrizeOf(j),
              i < j \/ \E k \in remaining : cash[k] > cash[j]
       PROVE  share'[i] >= share'[j]
  <2>1. j # Top(kept)
    <3>1. SUFFICES ASSUME j = Top(kept) PROVE FALSE
      OBVIOUS
    <3>2. /\ \A k \in remaining : kept[k] = cash[k] /\ kept[k] \in Nat
          /\ i \in Nat /\ j \in Nat
      BY <1>7, <1>11
    <3>3. \A k \in remaining : cash[j] >= cash[k]
      BY <1>16, <3>1, <3>2
    <3>4. kept[i] = kept[j]
      BY <1>20, <3>2, <3>3
    <3>5. j <= i
      BY <1>16, <3>1, <3>4
    <3>6. QED
      BY <1>20, <3>2, <3>3, <3>5
  <2>2. kept[i] >= kept[j] /\ due[i] >= due[j]
    BY <1>11, <1>12, <1>20
  <2>3. fitted[i] >= fitted[j] /\ shares[i] >= shares[j]
    BY <1>14, <1>15, <2>2
  <2>4. /\ fitted[i] \in Nat /\ fitted[j] \in Nat /\ shares[i] \in Nat /\ shares[j] \in Nat
        /\ dust \in Nat
    BY <1>13, <1>14, <1>15
  <2>5. /\ share'[j] = fitted[j] + shares[j]
        /\ share'[i] = fitted[i] + shares[i] + (IF i = Top(kept) THEN dust ELSE 0)
    BY <1>13, <2>1, <2>4
  <2>6. QED
    BY ONLY <2>3, <2>4, <2>5
<1>21. SharesFollowResults'
  <2>1. SumFunction(cash)' = SumFunction(cash) /\ n' = n
    BY <1>1
  <2>2. \A i \in remaining : cash'[i] = cash[i] /\ PrizeOf(i)' = PrizeOf(i)
    BY <1>1, <1>3
  <2> HIDE DEF n
  <2>3. SumFunction(cash)' = arena.players' * arena.vault' /\ remaining = Players' =>
           \A i \in remaining : share'[i] - (cash'[i] + PrizeOf(i)') \in -1..arena.players'
    BY <1>1, <1>3, <1>19, <2>1, <2>2 DEF n
  <2>4. \A i, j \in remaining :
          /\ cash'[i] >= cash'[j] /\ PrizeOf(i)' >= PrizeOf(j)'
          /\ i < j \/ \E k \in remaining : cash'[k] > cash'[j]
          => share'[i] >= share'[j]
    BY <1>20, <2>2
  <2>5. QED
    BY <1>17, <1>18, <2>3, <2>4 DEF SharesFollowResults
<1>22. QED
  BY <1>4, <1>5, <1>21

-----------------------------------------------------------------------------

PayInvariant == PayTypeOK /\ PrizesAsAdvertised /\ SharesFollowResults

LEMMA PayStep == PayInvariant /\ [PayNext]_payVars => PayInvariant'
<1>1. SUFFICES ASSUME PayInvariant, [PayNext]_payVars PROVE PayInvariant'
  OBVIOUS
<1>2. CASE Settle
  BY <1>1, <1>2, SettleOK DEF PayInvariant
<1>3. CASE SettlePredictions
  BY <1>1, <1>3, SettlePredictionsOK DEF PayInvariant
<1>4. ASSUME NEW remaining \in (SUBSET Players) \ {{}}, Share(remaining)
      PROVE  PayInvariant'
  BY <1>1, <1>4, ShareOK DEF PayInvariant
<1>5. CASE UNCHANGED payVars
  <2>1. Players' = Players /\ Pool' = Pool /\ HostFee' = HostFee /\ Awarded' = Awarded
        /\ Remaining' = Remaining /\ \A i : PrizeOf(i)' = PrizeOf(i)
    BY <1>5 DEF payVars, Players, Pool, HostFee, Awarded, Remaining, PrizeOf
  <2>2. PayTypeOK'
    BY <1>1, <1>5, <2>1 DEF PayInvariant, PayTypeOK, payVars
  <2>3. PrizesAsAdvertised'
    BY <1>1, <1>5, <2>1 DEF PayInvariant, PrizesAsAdvertised, payVars
  <2>4. SharesFollowResults'
    BY <1>1, <1>5, <2>1 DEF PayInvariant, SharesFollowResults, payVars
  <2>5. QED
    BY <2>2, <2>3, <2>4 DEF PayInvariant
<1>6. QED
  BY <1>1, <1>2, <1>3, <1>4, <1>5 DEF PayNext

LEMMA PayAlways == PaySpec => []PayInvariant
<1>1. PayInit => PayInvariant
  BY PayInitOK DEF PayInvariant
<1>2. QED
  BY <1>1, PayStep, PTL DEF PaySpec

(* Whatever the arena charges, however many play and however they finish, ties included: the
   prizes and the host's fee are the pool to the unit, a better finish never earns less, tied
   players are paid alike, and each group of them earns the advertised percentages of the places
   it covers (computePayouts, computeGroupPayouts, hostFeeOf). *)
THEOREM PrizesAdvertised == PaySpec => []PrizesAsAdvertised
<1>1. PayInvariant => PrizesAsAdvertised
  BY DEF PayInvariant
<1>2. QED
  BY <1>1, PayAlways, PTL

(* Whatever the vaults are worth at the end, whichever players recovered their money before, and
   wherever the doubles round down: the settle route gives away the pot to the unit, a player gets
   the vault and the prize when the money for them is there, and no one is paid less than an equal
   (payoutShares). *)
THEOREM SharesFollow == PaySpec => []SharesFollowResults
<1>1. PayInvariant => SharesFollowResults
  BY DEF PayInvariant
<1>2. QED
  BY <1>1, PayAlways, PTL

-----------------------------------------------------------------------------
(* The room's book: tables, shares and trades *)

(* The book's functions take every lead; the tables of a run end somewhere. *)
Unbounded == \A b \in MinB..MaxB : Curve[b] \in [Int -> Int]

EntRecords ==
    [cash : Int, shares : Nat, side : Side \cup {NoSide}, out : Nat,
     call : Side \cup {NoSide}, pct : Int]

Ents == {e \in EntRecords : e.side = NoSide => e.shares = 0}

Books == [b : MinB..MaxB, yes : Int, no : Int, line : Int, last : Int, close : Int]

LEMMA MinusNothing == ASSUME NEW x \in Nat, x = 0 PROVE -x = 0
<1>1. PICK y \in Int : y = -x
  OBVIOUS
<1>2. x + y = 0
  BY <1>1
<1>3. y = 0
  BY <1>2
<1>4. QED
  BY ONLY <1>1, <1>3, Zenon

(* A position of another size, on a side or on none. *)
Holding(e, c, n, side) == [e EXCEPT !.cash = c, !.shares = n, !.side = side]

LEMMA EntUpdated ==
  ASSUME NEW e \in Ents, NEW c \in Int, NEW n \in Nat, NEW side \in Side \cup {NoSide},
         side = NoSide => n = 0
  PROVE  LET f == Holding(e, c, n, side) IN
         /\ f \in Ents /\ f.out = e.out /\ f.call = e.call /\ f.pct = e.pct
         /\ f.cash = c /\ f.side = side /\ f.shares = n
<1>1. e \in EntRecords
  BY DEF Ents
<1>2. Holding(e, c, n, side) \in EntRecords
  BY <1>1 DEF EntRecords, Holding
<1>3. QED
  BY <1>1, <1>2 DEF Ents, EntRecords, Holding

LEMMA MaxIs == \A a, b \in Int : Max({a, b}) = IF a >= b THEN a ELSE b
<1> SUFFICES ASSUME NEW a \in Int, NEW b \in Int PROVE Max({a, b}) = IF a >= b THEN a ELSE b
  OBVIOUS
<1>1. \E x \in {a, b} : \A y \in {a, b} : x >= y
  BY SMT
<1>2. QED
  BY <1>1 DEF Max

LEMMA MinIs == \A a, b \in Int : Min({a, b}) = IF a <= b THEN a ELSE b
<1> SUFFICES ASSUME NEW a \in Int, NEW b \in Int PROVE Min({a, b}) = IF a <= b THEN a ELSE b
  OBVIOUS
<1>1. \E x \in {a, b} : \A y \in {a, b} : x <= y
  BY SMT
<1>2. QED
  BY <1>1 DEF Min

(* The greatest of some natural numbers that are not above a bound. *)
LEMMA MaxBelow ==
  ASSUME NEW n \in Nat, NEW S \in SUBSET (0..n), S # {}
  PROVE  Max(S) \in S /\ \A x \in S : x <= Max(S)
<1> DEFINE T == {n - x : x \in S}
<1>0. \A x \in S : x \in Nat /\ x <= n
  OBVIOUS
<1>1. T \subseteq Nat /\ T # {}
  <2>1. \A x \in S : n - x \in Nat
    BY <1>0
  <2>2. QED
    BY <2>1
<1>2. Min(T) \in T /\ \A y \in T : Min(T) <= y
  <2> HIDE DEF T
  <2> QED BY <1>1, LeastNatural
<1>3. PICK x \in S : Min(T) = n - x
  BY <1>2
<1>4. \A y \in S : x >= y
  <2> SUFFICES ASSUME NEW y \in S PROVE x >= y
    OBVIOUS
  <2>1. n - y \in T
    OBVIOUS
  <2>2. n - x <= n - y
    BY <1>2, <1>3, <2>1
  <2>3. QED
    BY <1>0, <2>2
<1>5. Max(S) \in S /\ \A y \in S : Max(S) >= y
  <2> HIDE DEF T
  <2> QED BY <1>4 DEF Max
<1>6. \A y \in S : y \in Int
  OBVIOUS
<1>7. QED
  BY <1>5, <1>6

-----------------------------------------------------------------------------
(* The book: what it costs to change the shares it has out, and what a trade changes. *)

LEMMA TablesAre ==
  ASSUME Unbounded, NEW b \in MinB..MaxB
  PROVE  /\ \A d \in Int : Curve[b][d] \in Int /\ Line[b][d] \in 1..99
         /\ \A d \in Int : Curve[b][d + 1] - Curve[b][d] \in 0..100
         /\ DOMAIN Curve[b] = Int /\ DOMAIN Line[b] = Int
<1>1. Curve[b] \in [Int -> Int] /\ DOMAIN Curve[b] = Int
  BY DEF Unbounded
<1>2. /\ DOMAIN Line[b] = Int
      /\ \A d \in Int : Line[b][d] \in 1..99
      /\ \A d \in Int : d + 1 \in Int => Curve[b][d + 1] - Curve[b][d] \in 0..100
  <2> DEFINE leads == DOMAIN Curve[b]
  <2>1. /\ DOMAIN Line[b] = leads
        /\ \A d \in leads : Line[b][d] \in 1..99
        /\ \A d \in leads : d + 1 \in leads => Curve[b][d + 1] - Curve[b][d] \in 0..100
    BY RoomBookAssumption DEF RoomBookAssumption
  <2>2. leads = Int
    BY <1>1
  <2> HIDE DEF leads
  <2>3. QED
    BY <2>1, <2>2
<1>3. \A d \in Int : d + 1 \in Int
  OBVIOUS
<1>4. QED
  BY <1>1, <1>2, <1>3

LEMMA CostsAre ==
  ASSUME Unbounded, NEW k \in Books
  PROVE  Cost(k) \in Int /\ BookCents(k) \in 1..99 /\ Lead(k) \in Int /\ Leads(k) = Int
<1>1. k.b \in MinB..MaxB /\ k.yes \in Int /\ k.no \in Int
  BY DEF Books
<1>2. Lead(k) \in Int
  BY <1>1 DEF Lead
<1>3. Curve[k.b][Lead(k)] \in Int /\ Line[k.b][Lead(k)] \in 1..99 /\ DOMAIN Curve[k.b] = Int
  BY <1>1, <1>2, TablesAre
<1>4. QED
  BY <1>1, <1>2, <1>3 DEF Cost, BookCents, Leads

LEMMA SharesAdded ==
  ASSUME NEW k \in Books, NEW side \in Side, NEW n \in Int
  PROVE  LET after == AddShares(k, side, n) IN
         /\ after \in Books
         /\ after.b = k.b /\ after.line = k.line /\ after.last = k.last /\ after.close = k.close
         /\ after.yes = k.yes + IF side = "YES" THEN n ELSE 0
         /\ after.no = k.no + IF side = "NO" THEN n ELSE 0
<1>1. CASE side = "YES"
  BY <1>1 DEF AddShares, Books
<1>2. CASE side = "NO"
  BY <1>2 DEF AddShares, Books
<1>3. QED
  BY <1>1, <1>2 DEF Side

LEMMA BookIsItsFields ==
  ASSUME NEW k \in Books, NEW h \in Books, h.b = k.b, h.line = k.line, h.last = k.last,
         h.close = k.close, h.yes = k.yes, h.no = k.no
  PROVE  h = k
BY DEF Books

LEMMA SharesAddedTwice ==
  ASSUME NEW k \in Books, NEW side \in Side, NEW n \in Int, NEW m \in Int
  PROVE  /\ AddShares(AddShares(k, side, n), side, m) = AddShares(k, side, n + m)
         /\ AddShares(k, side, 0) = k
<1> DEFINE one == AddShares(k, side, n)
           two == AddShares(one, side, m)
           both == AddShares(k, side, n + m)
           none == AddShares(k, side, 0)
<1>0. n + m \in Int /\ 0 \in Int
  OBVIOUS
<1>1. /\ one \in Books
      /\ one.b = k.b /\ one.line = k.line /\ one.last = k.last /\ one.close = k.close
      /\ one.yes = k.yes + IF side = "YES" THEN n ELSE 0
      /\ one.no = k.no + IF side = "NO" THEN n ELSE 0
  BY SharesAdded
<1>2. /\ both \in Books
      /\ both.b = k.b /\ both.line = k.line /\ both.last = k.last /\ both.close = k.close
      /\ both.yes = k.yes + IF side = "YES" THEN n + m ELSE 0
      /\ both.no = k.no + IF side = "NO" THEN n + m ELSE 0
  BY <1>0, SharesAdded
<1>3. /\ none \in Books
      /\ none.b = k.b /\ none.line = k.line /\ none.last = k.last /\ none.close = k.close
      /\ none.yes = k.yes + IF side = "YES" THEN 0 ELSE 0
      /\ none.no = k.no + IF side = "NO" THEN 0 ELSE 0
  BY <1>0, SharesAdded
<1> HIDE DEF one, both, none
<1>4. /\ two \in Books
      /\ two.b = one.b /\ two.line = one.line /\ two.last = one.last /\ two.close = one.close
      /\ two.yes = one.yes + IF side = "YES" THEN m ELSE 0
      /\ two.no = one.no + IF side = "NO" THEN m ELSE 0
  BY <1>1, SharesAdded
<1> HIDE DEF two
<1>5. k.yes \in Int /\ k.no \in Int
  BY DEF Books
<1>6. two.yes = both.yes /\ two.no = both.no /\ none.yes = k.yes /\ none.no = k.no
  BY <1>1, <1>2, <1>3, <1>4, <1>5
<1>7. two = both
  BY <1>1, <1>2, <1>4, <1>6, BookIsItsFields
<1>8. none = k
  BY <1>3, <1>6, BookIsItsFields
<1>9. QED
  BY <1>7, <1>8 DEF one, two, both, none

(* One more share costs at most a dollar. *)
LEMMA OneShareCosts ==
  ASSUME Unbounded, NEW k \in Books, NEW side \in Side
  PROVE  Cost(AddShares(k, side, 1)) - Cost(k) \in 0..100
<1> DEFINE after == AddShares(k, side, 1)
           c == Curve[k.b]
<1>1. k.b \in MinB..MaxB /\ k.yes \in Int /\ k.no \in Int
  BY DEF Books
<1>2. /\ after.b = k.b
      /\ after.yes = k.yes + IF side = "YES" THEN 1 ELSE 0
      /\ after.no = k.no + IF side = "NO" THEN 1 ELSE 0
  BY SharesAdded
<1>3. \A d \in Int : c[d] \in Int /\ c[d + 1] - c[d] \in 0..100
  BY <1>1, TablesAre
<1> HIDE DEF after, c
<1>4. Cost(k) = c[Lead(k)] + 100 * k.no /\ Lead(k) = k.yes - k.no /\ Lead(k) \in Int
  BY <1>1 DEF Cost, c, Lead
<1>5. Cost(after) = c[Lead(after)] + 100 * after.no /\ Lead(after) = after.yes - after.no
  BY <1>2 DEF Cost, c, Lead
<1>6. CASE side = "YES"
  <2>1. Lead(after) = Lead(k) + 1 /\ after.no = k.no
    BY <1>1, <1>2, <1>4, <1>5, <1>6
  <2>2. c[Lead(k)] \in Int /\ c[Lead(k) + 1] \in Int /\ c[Lead(k) + 1] - c[Lead(k)] \in 0..100
    BY <1>3, <1>4
  <2>3. QED
    BY <1>1, <1>4, <1>5, <2>1, <2>2 DEF after
<1>7. CASE side = "NO"
  <2>1. Lead(after) = Lead(k) - 1 /\ after.no = k.no + 1 /\ Lead(k) - 1 \in Int
    BY <1>1, <1>2, <1>4, <1>5, <1>7
  <2>2. /\ c[Lead(k)] \in Int /\ c[Lead(k) - 1] \in Int
        /\ c[(Lead(k) - 1) + 1] - c[Lead(k) - 1] \in 0..100
    BY <1>3, <1>4, <2>1
  <2>3. (Lead(k) - 1) + 1 = Lead(k)
    BY <1>4
  <2>4. QED
    BY <1>1, <1>4, <1>5, <2>1, <2>2, <2>3 DEF after
<1>8. QED
  BY <1>6, <1>7 DEF Side

LEMMA SpendBuys ==
  ASSUME Unbounded, NEW k \in Books, NEW side \in Side, NEW usdc \in Nat
  PROVE  /\ SharesForSpend(k, side, usdc) \in Nat
         /\ usdc >= 100 => SharesForSpend(k, side, usdc) > 0
<1> DEFINE c == SideCents(side, BookCents(k))
           most == (2 * usdc) \div c
           S == {n \in 0..most : LET after == AddShares(k, side, n)
                                 IN Lead(after) \in Leads(k) /\ Cost(after) - Cost(k) <= usdc}
<1>1. c \in 1..99
  BY CostsAre DEF SideCents
<1>2. most \in Nat /\ (usdc >= 100 => most >= 1)
  <2> HIDE DEF c
  <2>1. c \in Nat \ {0} /\ 2 * usdc \in Nat
    BY <1>1
  <2>2. 2 * usdc < c * most + c /\ most \in Nat
    BY <2>1, DivFloor
  <2> HIDE DEF most
  <2>3. ASSUME usdc >= 100, most = 0 PROVE FALSE
    <3>1. c * most = 0
      BY <2>3, <1>1
    <3>2. QED
      BY <3>1, <2>2, <2>3, <1>1
  <2>4. QED
    BY <2>2, <2>3
<1> HIDE DEF most
<1>3. ASSUME NEW n \in Int
      PROVE  Lead(AddShares(k, side, n)) \in Leads(k) /\ Cost(AddShares(k, side, n)) \in Int
  BY CostsAre, SharesAdded
<1>4. 0 \in S
  <2>1. AddShares(k, side, 0) = k /\ Cost(k) \in Int
    BY SharesAddedTwice, CostsAre
  <2>2. QED
    BY <1>2, <1>3, <2>1
<1>5. usdc >= 100 => 1 \in S
  <2>1. Cost(AddShares(k, side, 1)) - Cost(k) \in 0..100
    BY OneShareCosts
  <2>2. QED
    BY <1>2, <1>3, <2>1
<1>6. S \in SUBSET (0..most) /\ \A x \in S : x \in Nat
  OBVIOUS
<1>7. SharesForSpend(k, side, usdc) = Max(S)
  BY DEF SharesForSpend, most
<1> HIDE DEF S
<1>8. Max(S) \in S /\ \A x \in S : x <= Max(S)
  BY <1>2, <1>4, <1>6, MaxBelow
<1>9. Max(S) \in Nat
  BY <1>6, <1>8
<1>10. QED
  BY <1>5, <1>7, <1>8, <1>9

(* The shares of a side that a player holds. *)
HeldOn(e, side) == IF e.side = side THEN e.shares ELSE 0

(* What a trade leaves as it was: what the vault is worth at the book's prices, the shares that
   are out but not held, and all that is not a position. *)
Exchange(k, e, h, f) ==
    /\ h \in Books /\ h.b = k.b /\ h.line = k.line /\ h.last = k.last /\ h.close = k.close
    /\ f \in Ents /\ f.out = e.out /\ f.call = e.call /\ f.pct = e.pct
    /\ Worth(h, f) = Worth(k, e)
    /\ h.yes - HeldOn(f, "YES") = k.yes - HeldOn(e, "YES")
    /\ h.no - HeldOn(f, "NO") = k.no - HeldOn(e, "NO")

LEMMA EntsAre ==
  ASSUME NEW e \in Ents
  PROVE  /\ e.cash \in Int /\ e.shares \in Nat /\ e.out \in Nat /\ e.pct \in Int
         /\ e.side \in Side \cup {NoSide} /\ e.call \in Side \cup {NoSide}
         /\ e.side = NoSide => e.shares = 0
BY DEF Ents, EntRecords

LEMMA SidesDiffer ==
  /\ NoSide \notin Side /\ Side = {"YES", "NO"}
  /\ "YES" # "NO" /\ NoSide # "YES" /\ NoSide # "NO"
BY DEF NoSide, Side

(* A vault is worth its cash and what its shares would bring. *)
LEMMA WorthIs ==
  ASSUME Unbounded, NEW k \in Books, NEW e \in Ents
  PROVE  /\ Worth(k, e) \in Int
         /\ e.side \in Side =>
              Worth(k, e) = e.cash + Cost(k) - Cost(AddShares(k, e.side, -e.shares))
         /\ e.side = NoSide => Worth(k, e) = e.cash
<1>1. /\ e.cash \in Int /\ e.shares \in Nat /\ e.side \in Side \cup {NoSide}
      /\ -e.shares \in Int
  BY EntsAre
<1>2. CASE e.side = NoSide
  BY <1>1, <1>2, SidesDiffer DEF Worth, Holds
<1>3. CASE e.side \in Side
  <2>1. Cost(k) \in Int /\ Cost(AddShares(k, e.side, -e.shares)) \in Int
    BY <1>1, <1>3, SharesAdded, CostsAre
  <2>2. CASE e.shares > 0
    <3>1. Holds(e)
      BY <1>3, <2>2, SidesDiffer DEF Holds
    <3>2. Worth(k, e) = e.cash + (Cost(k) - Cost(AddShares(k, e.side, -e.shares)))
      BY <3>1 DEF Worth, ProceedsForSell
    <3> DEFINE a == Cost(k)
               b == Cost(AddShares(k, e.side, -e.shares))
    <3> HIDE DEF a, b
    <3>3. e.cash + (a - b) = e.cash + a - b /\ e.cash + (a - b) \in Int
      BY <1>1, <2>1 DEF a, b
    <3>4. QED
      BY <1>3, <3>2, <3>3, SidesDiffer DEF a, b
  <2>3. CASE e.shares = 0
    <3>1. -e.shares = 0
      BY <1>1, <2>3, MinusNothing, Zenon
    <3>2. AddShares(k, e.side, -e.shares) = k
      BY <1>3, <3>1, SharesAddedTwice
    <3>3. QED
      BY <1>1, <1>3, <2>1, <2>3, <3>2, SidesDiffer DEF Worth, Holds
  <2>4. QED
    BY <1>1, <2>2, <2>3
<1>4. QED
  BY <1>1, <1>2, <1>3

(* A whole position is sold. *)
LEMMA SaleExchanges ==
  ASSUME Unbounded, NEW k \in Books, NEW e \in Ents, Holds(e)
  PROVE  LET sold == BookSell(k, e) IN
         /\ Exchange(k, e, sold.book, sold.e)
         /\ sold.e.cash = Worth(k, e) /\ sold.e.side = NoSide /\ sold.e.shares = 0
<1> DEFINE side == e.side
           n == e.shares
           h == AddShares(k, side, -n)
           gain == ProceedsForSell(k, side, n)
           f == [e EXCEPT !.cash = @ + gain, !.shares = 0, !.side = NoSide]
<1>1. /\ e.cash \in Int /\ n \in Nat /\ side \in Side /\ n > 0 /\ -n \in Int
      /\ side \in Side \cup {NoSide}
  BY EntsAre DEF Holds
<1>2. BookSell(k, e) = [book |-> h, e |-> f]
  BY DEF BookSell, Sold
<1>3. /\ h \in Books /\ h.b = k.b /\ h.line = k.line /\ h.last = k.last /\ h.close = k.close
      /\ h.yes = k.yes + (IF side = "YES" THEN -n ELSE 0)
      /\ h.no = k.no + (IF side = "NO" THEN -n ELSE 0)
  <2> HIDE DEF side, n
  <2> QED BY <1>1, SharesAdded
<1>4. gain = Cost(k) - Cost(h) /\ gain \in Int
  BY <1>3, CostsAre DEF ProceedsForSell
<1>5. Worth(k, e) = e.cash + gain
  BY DEF Worth
<1>6. /\ f \in Ents /\ f.out = e.out /\ f.call = e.call /\ f.pct = e.pct
      /\ f.cash = e.cash + gain /\ f.side = NoSide /\ f.shares = 0
  <2> DEFINE c == e.cash + gain
             u == Holding(e, c, 0, NoSide)
  <2>1. f = u
    BY DEF Holding
  <2>2. c \in Int /\ 0 \in Nat /\ NoSide \in Side \cup {NoSide}
    BY <1>1, <1>4
  <2> HIDE DEF gain, c, f
  <2>3. /\ u \in Ents /\ u.out = e.out /\ u.call = e.call /\ u.pct = e.pct
        /\ u.cash = c /\ u.side = NoSide /\ u.shares = 0
    BY <2>2, EntUpdated
  <2> HIDE DEF u
  <2>4. QED
    BY <2>1, <2>3 DEF c
<1>7. k.yes \in Int /\ k.no \in Int
  BY DEF Books
<1> HIDE DEF h, f, gain
<1>8. Worth(h, f) = f.cash
  BY <1>3, <1>6, WorthIs
<1>9. /\ HeldOn(f, "YES") = 0 /\ HeldOn(f, "NO") = 0
      /\ HeldOn(e, "YES") = (IF side = "YES" THEN n ELSE 0)
      /\ HeldOn(e, "NO") = (IF side = "NO" THEN n ELSE 0)
  BY <1>6, SidesDiffer DEF HeldOn
<1> HIDE DEF side, n
<1>10. /\ h.yes - HeldOn(f, "YES") = k.yes - HeldOn(e, "YES")
       /\ h.no - HeldOn(f, "NO") = k.no - HeldOn(e, "NO")
  BY <1>1, <1>3, <1>7, <1>9
<1>11. Exchange(k, e, h, f)
  BY <1>3, <1>5, <1>6, <1>8, <1>10 DEF Exchange
<1>12. QED
  BY <1>2, <1>5, <1>6, <1>11

(* Shares are bought at what they cost, by a player who holds none on the other side. *)
LEMMA PurchaseExchanges ==
  ASSUME Unbounded, NEW k \in Books, NEW e \in Ents, NEW side \in Side, ~HoldsOther(e, side),
         NEW n \in Nat
  PROVE  LET h == AddShares(k, side, n)
             f == Bought(e, side, n, Cost(h) - Cost(k))
         IN Exchange(k, e, h, f)
<1> DEFINE h == AddShares(k, side, n)
           paid == Cost(h) - Cost(k)
           f == [e EXCEPT !.cash = @ - paid, !.shares = @ + n, !.side = side]
           m == e.shares
<1>1. e.cash \in Int /\ m \in Nat /\ e.side \in Side \cup {NoSide} /\ n \in Int /\ -m \in Int
  BY EntsAre
<1>2. e.side = side \/ m = 0
  BY <1>1, EntsAre DEF HoldsOther, Holds
<1>3. /\ h \in Books /\ h.b = k.b /\ h.line = k.line /\ h.last = k.last /\ h.close = k.close
      /\ h.yes = k.yes + (IF side = "YES" THEN n ELSE 0)
      /\ h.no = k.no + (IF side = "NO" THEN n ELSE 0)
  BY <1>1, SharesAdded
<1>4. Cost(h) \in Int /\ Cost(k) \in Int /\ paid \in Int /\ k.yes \in Int /\ k.no \in Int
  BY <1>3, CostsAre DEF Books
<1>5. side # NoSide
  BY SidesDiffer
<1>6. /\ f \in Ents /\ f.out = e.out /\ f.call = e.call /\ f.pct = e.pct
      /\ f.cash = e.cash - paid /\ f.side = side /\ f.shares = m + n
  <2> DEFINE c == e.cash - paid
             s == m + n
             u == Holding(e, c, s, side)
  <2>1. f = u
    BY DEF Holding
  <2>2. c \in Int /\ s \in Nat /\ side \in Side \cup {NoSide}
    BY <1>1, <1>4
  <2> HIDE DEF paid, h, c, s, m, f
  <2>3. /\ u \in Ents /\ u.out = e.out /\ u.call = e.call /\ u.pct = e.pct
        /\ u.cash = c /\ u.side = side /\ u.shares = s
    BY <1>5, <2>2, EntUpdated
  <2> HIDE DEF u
  <2>4. QED
    BY <2>1, <2>3 DEF c, s
<1>7. Worth(k, e) = e.cash + Cost(k) - Cost(AddShares(k, side, -m))
  <2>1. CASE e.side = side
    BY <2>1, WorthIs
  <2>2. CASE m = 0
    <3>1. -m = 0
      BY <1>1, <2>2, MinusNothing, Zenon
    <3>2. AddShares(k, side, -m) = k
      BY <3>1, SharesAddedTwice
    <3>3. Worth(k, e) = e.cash
      BY <1>1, <2>2 DEF Worth, Holds
    <3>4. QED
      BY <1>1, <1>4, <3>2, <3>3
  <2>3. QED
    BY <1>2, <2>1, <2>2
<1>8. Worth(h, f) = f.cash + Cost(h) - Cost(AddShares(h, side, -(m + n)))
  <2> HIDE DEF h, f, m
  <2> QED BY <1>3, <1>6, WorthIs
<1>9. AddShares(h, side, -(m + n)) = AddShares(k, side, -m)
  <2>1. -(m + n) \in Int /\ n + -(m + n) = -m
    BY <1>1
  <2>2. AddShares(h, side, -(m + n)) = AddShares(k, side, n + -(m + n))
    BY <1>1, <2>1, SharesAddedTwice
  <2>3. QED
    BY <2>1, <2>2
<1>10. Cost(AddShares(k, side, -m)) \in Int
  BY <1>1, SharesAdded, CostsAre
<1>11. Worth(h, f) = Worth(k, e)
  <2> HIDE DEF h, f, m
  <2> QED BY <1>1, <1>4, <1>6, <1>7, <1>8, <1>9, <1>10
<1>12. /\ h.yes - HeldOn(f, "YES") = k.yes - HeldOn(e, "YES")
       /\ h.no - HeldOn(f, "NO") = k.no - HeldOn(e, "NO")
  <2>1. HeldOn(f, "YES") = HeldOn(e, "YES") + IF side = "YES" THEN n ELSE 0
    BY <1>1, <1>2, <1>6 DEF HeldOn
  <2>2. HeldOn(f, "NO") = HeldOn(e, "NO") + IF side = "NO" THEN n ELSE 0
    BY <1>1, <1>2, <1>6 DEF HeldOn
  <2>3. HeldOn(e, "YES") \in Int /\ HeldOn(e, "NO") \in Int
    BY <1>1 DEF HeldOn
  <2> HIDE DEF h, f, m
  <2>4. QED
    BY <1>1, <1>3, <1>4, <2>1, <2>2, <2>3
<1> HIDE DEF h, m, paid
<1>13. Exchange(k, e, h, f)
  <2> HIDE DEF f
  <2> QED BY <1>3, <1>6, <1>11, <1>12 DEF Exchange
<1>14. f = Bought(e, side, n, paid)
  BY DEF Bought
<1>15. QED
  BY <1>13, <1>14 DEF h, paid

(* A purchase is refused, and then the position on the other side may have been sold. *)
LEMMA BuyExchanges ==
  ASSUME Unbounded, NEW k \in Books, NEW e \in Ents, NEW side \in Side, NEW usdc \in Int
  PROVE  LET fill == BookBuy(k, e, side, usdc) IN
         /\ Exchange(k, e, fill.book, fill.e)
         /\ e.out # StillIn => fill.book = k /\ fill.e = e
         /\ usdc >= 100 /\ ~fill.ok => fill.book = k
<1> DEFINE fill == BookBuy(k, e, side, usdc)
           sold == BookSell(k, e)
           flat == IF HoldsOther(e, side) THEN sold ELSE [book |-> k, e |-> e]
           n == SharesForSpend(flat.book, side, Min({usdc, flat.e.cash}))
           after == AddShares(flat.book, side, n)
           bought == Bought(flat.e, side, n, Cost(after) - Cost(flat.book))
<1>0. Exchange(k, e, k, e)
  BY DEF Exchange
<1>1. CASE BuyRefused(e, usdc, BookAvailableFor(k, e, side))
  <2>1. fill = [ok |-> FALSE, book |-> k, e |-> e]
    BY <1>1 DEF BookBuy
  <2> HIDE DEF fill
  <2>2. fill.book = k /\ fill.e = e
    BY <2>1
  <2>3. QED
    BY <1>0, <2>2 DEF fill
<1>2. CASE ~BuyRefused(e, usdc, BookAvailableFor(k, e, side))
  <2>1. fill = IF n = 0 THEN [ok |-> FALSE, book |-> flat.book, e |-> flat.e]
               ELSE [ok |-> TRUE, book |-> after, e |-> bought]
    BY <1>2 DEF BookBuy
  <2>2. e.out = StillIn /\ usdc > 0 /\ ~(usdc > BookAvailableFor(k, e, side))
    <3>1. e.out = StillIn /\ ~(usdc <= 0) /\ ~(usdc > BookAvailableFor(k, e, side))
      BY <1>2 DEF BuyRefused
    <3>2. QED
      BY <3>1
  <2>3. /\ Exchange(k, e, flat.book, flat.e) /\ ~HoldsOther(flat.e, side)
        /\ flat.e.cash = BookAvailableFor(k, e, side)
    <3>1. CASE HoldsOther(e, side)
      <4>1. Holds(e)
        BY <3>1 DEF HoldsOther
      <4>2. Exchange(k, e, sold.book, sold.e) /\ sold.e.cash = Worth(k, e) /\ sold.e.side = NoSide
        BY <4>1, SaleExchanges
      <4>3. Worth(k, e) = BookAvailableFor(k, e, side)
        BY <3>1, <4>1 DEF Worth, BookAvailableFor
      <4>4. flat = sold
        BY <3>1
      <4> HIDE DEF sold, flat
      <4>5. QED
        BY <4>2, <4>3, <4>4 DEF HoldsOther, Holds
    <3>2. CASE ~HoldsOther(e, side)
      <4>1. flat = [book |-> k, e |-> e]
        BY <3>2
      <4>2. BookAvailableFor(k, e, side) = e.cash
        <5>1. e.cash + 0 = e.cash
          BY EntsAre
        <5>2. QED
          BY <3>2, <5>1 DEF BookAvailableFor
      <4> HIDE DEF flat
      <4>3. flat.book = k /\ flat.e = e
        BY <4>1
      <4>4. QED
        BY <1>0, <3>2, <4>2, <4>3
    <3>3. QED
      BY <3>1, <3>2
  <2>4. flat.book \in Books /\ flat.e \in Ents /\ flat.e.cash \in Int
    <3> HIDE DEF flat
    <3>1. flat.book \in Books /\ flat.e \in Ents
      BY <2>3 DEF Exchange
    <3>2. QED
      BY <3>1, EntsAre
  <2> HIDE DEF fill, flat
  <2>5. usdc <= flat.e.cash /\ usdc \in Nat
    BY <2>2, <2>3, <2>4
  <2>6. Min({usdc, flat.e.cash}) = usdc
    BY <2>4, <2>5, MinIs
  <2>7. n \in Nat /\ (usdc >= 100 => n # 0)
    <3>1. SharesForSpend(flat.book, side, usdc) \in Nat
          /\ (usdc >= 100 => SharesForSpend(flat.book, side, usdc) > 0)
      BY <2>4, <2>5, SpendBuys
    <3>2. QED
      BY <2>6, <3>1
  <2> HIDE DEF n
  <2>8. Exchange(flat.book, flat.e, after, bought)
    BY <2>3, <2>4, <2>7, PurchaseExchanges
  <2>9. Exchange(k, e, after, bought)
    <3>1. \A h, f : Exchange(k, e, flat.book, flat.e) /\ Exchange(flat.book, flat.e, h, f)
                        => Exchange(k, e, h, f)
      BY Zenon DEF Exchange
    <3>2. QED
      BY <2>3, <2>8, <3>1
  <2> HIDE DEF after, bought
  <2>10. CASE n = 0
    <3>1. fill.book = flat.book /\ fill.e = flat.e
      BY <2>1, <2>10
    <3>2. QED
      BY <2>2, <2>3, <2>7, <2>10, <3>1 DEF fill
  <2>11. CASE n # 0
    <3>1. fill.book = after /\ fill.e = bought /\ fill.ok = TRUE
      BY <2>1, <2>11
    <3>2. QED
      BY <2>2, <2>9, <3>1 DEF fill
  <2>12. QED
    BY <2>10, <2>11
<1>3. QED
  BY <1>1, <1>2

LEMMA BotExchanges ==
  ASSUME Unbounded, NEW k \in Books, NEW e \in Ents, NEW move \in BotMoves
  PROVE  LET after == BotMove(k, e, move) IN
         /\ Exchange(k, e, after.book, after.e)
         /\ e.out # StillIn => after.book = k /\ after.e = e
<1> DEFINE after == BotMove(k, e, move)
           usdc == (e.cash * move[2]) \div 100
           fill == BookBuy(k, e, move[1], usdc)
<1>1. CASE after = [book |-> k, e |-> e]
  <2>1. Exchange(k, e, k, e)
    BY DEF Exchange
  <2> HIDE DEF after
  <2>2. after.book = k /\ after.e = e
    BY <1>1
  <2>3. QED
    BY <2>1, <2>2 DEF after
<1>2. CASE after = BookSell(k, e) /\ Holds(e) /\ e.out = StillIn
  <2> HIDE DEF after
  <2> QED BY <1>2, SaleExchanges DEF after
<1>3. CASE e.out = StillIn /\ move \in Side \X BotPcts /\ after = [book |-> fill.book, e |-> fill.e]
  <2>1. move[1] \in Side /\ move[2] \in Int
    <3>1. BotPcts \subseteq 8..20
      BY RoomBookAssumption DEF RoomBookAssumption
    <3>2. move[1] \in Side /\ move[2] \in BotPcts
      BY <1>3
    <3>3. \A x \in 8..20 : x \in Int
      OBVIOUS
    <3>4. QED
      BY <3>1, <3>2, <3>3, Zenon
  <2>2. usdc \in Int
    <3>1. e.cash \in Int
      BY EntsAre
    <3>2. e.cash * move[2] \in Int
      BY <2>1, <3>1
    <3>3. QED
      BY <3>2
  <2> HIDE DEF after, usdc
  <2>3. Exchange(k, e, fill.book, fill.e)
    BY <2>1, <2>2, BuyExchanges
  <2> HIDE DEF fill
  <2>4. QED
    BY <1>3, <2>3 DEF after
<1>4. QED
  BY <1>1, <1>2, <1>3 DEF BotMove, BotMoves

-----------------------------------------------------------------------------
(* The shares of a side, over all players. *)

LEMMA EntrantsAre ==
    /\ IsFiniteSet(Entrant) /\ IsFiniteSet(Bot)
    /\ \A p \in Entrant : p \in Nat
    /\ Bot \subseteq Entrant /\ Human \subseteq Entrant
<1>1. IsFiniteSet(Entrant) /\ Bot \subseteq Entrant /\ Human \subseteq Entrant
  BY VaultsAssumption DEF VaultsAssumption, Entrant
<1>2. IsFiniteSet(Bot)
  BY <1>1, FS_Subset
<1>3. QED
  BY <1>1, <1>2, VaultsAssumption DEF VaultsAssumption, Entrant

Helds(es, side) == [p \in Entrant |-> HeldOn(es[p], side)]

LEMMA SharesAreHeld ==
  ASSUME NEW es \in [Entrant -> Ents], NEW side \in Side
  PROVE  /\ SharesOn(es, side) = SumFunctionOnSet(Helds(es, side), Entrant)
         /\ \A p \in Entrant : Helds(es, side)[p] \in Nat
         /\ SharesOn(es, side) \in Nat
<1> DEFINE f == Helds(es, side)
           A == {q \in DOMAIN es : es[q].side = side}
           g == [p \in A |-> es[p].shares]
<1>1. \A p \in Entrant : f[p] \in Nat
  BY EntsAre DEF Helds, HeldOn
<1>2. SharesOn(es, side) = SumFunctionOnSet(g, A)
  BY DEF SharesOn, SumFunction, SumFunctionOnSet, FoldFunction
<1>3. A \in SUBSET Entrant /\ \A p \in A : g[p] = f[p]
  BY DEF Helds, HeldOn
<1>4. \A p \in Entrant \ A : f[p] = 0
  BY DEF Helds, HeldOn
<1> HIDE DEF f, A, g
<1>5. IsFiniteSet(A)
  BY <1>3, EntrantsAre, FS_Subset
<1>6. \A p \in Entrant : f[p] \in Int
  BY <1>1
<1>7. SumFunctionOnSet(g, A) = SumFunctionOnSet(f, A)
  <2>1. \A p \in A : f[p] \in Int /\ g[p] = f[p]
    BY <1>3, <1>6
  <2>2. QED
    BY <1>5, <2>1, SumCong
<1>8. SumFunctionOnSet(f, Entrant) = SumFunctionOnSet(f, A)
  BY <1>3, <1>4, <1>6, EntrantsAre, SumSupport
<1>9. SumFunctionOnSet(f, Entrant) \in Nat
  BY <1>1, EntrantsAre, SumNat
<1>10. QED
  BY <1>1, <1>2, <1>7, <1>8, <1>9 DEF f

LEMMA SharesOfOthers ==
  ASSUME NEW es \in [Entrant -> Ents], NEW fs \in [Entrant -> Ents], NEW side \in Side,
         NEW p \in Entrant, \A q \in Entrant \ {p} : fs[q] = es[q]
  PROVE  SharesOn(fs, side) - HeldOn(fs[p], side) = SharesOn(es, side) - HeldOn(es[p], side)
<1> DEFINE f == Helds(es, side)
           g == Helds(fs, side)
           rest == Entrant \ {p}
<1>1. /\ SharesOn(es, side) = SumFunctionOnSet(f, Entrant) /\ \A q \in Entrant : f[q] \in Nat
      /\ SharesOn(fs, side) = SumFunctionOnSet(g, Entrant) /\ \A q \in Entrant : g[q] \in Nat
  BY SharesAreHeld
<1>2. f[p] = HeldOn(es[p], side) /\ g[p] = HeldOn(fs[p], side) /\ \A q \in rest : g[q] = f[q]
  BY DEF Helds
<1> HIDE DEF f, g
<1>3. /\ SumFunctionOnSet(f, Entrant) = f[p] + SumFunctionOnSet(f, rest)
      /\ SumFunctionOnSet(g, Entrant) = g[p] + SumFunctionOnSet(g, rest)
  <2>1. \A q \in Entrant : f[q] \in Int /\ g[q] \in Int
    BY <1>1
  <2>2. QED
    BY <2>1, EntrantsAre, SumSplit
<1>4. IsFiniteSet(rest)
  BY EntrantsAre, FS_Difference
<1>5. SumFunctionOnSet(g, rest) = SumFunctionOnSet(f, rest) /\ SumFunctionOnSet(f, rest) \in Int
  <2>1. \A q \in rest : f[q] \in Int /\ g[q] = f[q]
    BY <1>1, <1>2
  <2> HIDE DEF rest
  <2>2. QED
    BY <1>4, <2>1, SumCong, SumInt
<1>6. f[p] \in Int /\ g[p] \in Int
  BY <1>1
<1> HIDE DEF rest
<1>7. QED
  BY <1>1, <1>2, <1>3, <1>5, <1>6

-----------------------------------------------------------------------------
(* The bots' turn. *)

Samples == [at : Int, yes : Int]

Rounds ==
    [status : {"enrolling", "live", "complete"}, number : Nat \ {0}, limit : Int, deadline : Int]

Rooms ==
    [round : Rounds, es : [Entrant -> Ents], book : Books, tape : Seq(Samples), botAt : Int]

(* What bots leave as it was: everything but the positions of those still in, and the shares that
   are out for them. *)
Shuffled(r, s) ==
    /\ s.round = r.round /\ s.tape = r.tape /\ s.botAt = r.botAt
    /\ s.book.b = r.book.b /\ s.book.line = r.book.line
    /\ Unheld(s.book, s.es) = Unheld(r.book, r.es)
    /\ \A p \in Entrant : /\ s.es[p].out = r.es[p].out
                          /\ r.es[p].out # StillIn => s.es[p] = r.es[p]

Replaced(es, p, f) == [es EXCEPT ![p] = f]

LEMMA UnheldKept ==
  ASSUME NEW k \in Books, NEW h \in Books, NEW es \in [Entrant -> Ents], NEW p \in Entrant,
         NEW f \in Ents, Exchange(k, es[p], h, f)
  PROVE  /\ Replaced(es, p, f) \in [Entrant -> Ents]
         /\ Unheld(h, Replaced(es, p, f)) = Unheld(k, es)
<1> DEFINE fs == Replaced(es, p, f)
<1>1. fs \in [Entrant -> Ents] /\ fs[p] = f /\ \A q \in Entrant \ {p} : fs[q] = es[q]
  BY DEF Replaced
<1> HIDE DEF fs
<1>2. ASSUME NEW side \in Side
      PROVE  /\ SharesOn(fs, side) - HeldOn(f, side) = SharesOn(es, side) - HeldOn(es[p], side)
             /\ SharesOn(fs, side) \in Int /\ SharesOn(es, side) \in Int
             /\ HeldOn(f, side) \in Int /\ HeldOn(es[p], side) \in Int
  <2>1. SharesOn(fs, side) - HeldOn(fs[p], side) = SharesOn(es, side) - HeldOn(es[p], side)
    BY <1>1, SharesOfOthers
  <2>2. SharesOn(fs, side) \in Nat /\ SharesOn(es, side) \in Nat
    BY <1>1, SharesAreHeld
  <2>3. f.shares \in Nat /\ es[p].shares \in Nat
    BY EntsAre
  <2>4. QED
    BY <1>1, <2>1, <2>2, <2>3 DEF HeldOn
<1>3. "YES" \in Side /\ "NO" \in Side
  BY DEF Side
<1>4. k.yes \in Int /\ k.no \in Int /\ h.yes \in Int /\ h.no \in Int
  BY DEF Books
<1>5. /\ h.yes - HeldOn(f, "YES") = k.yes - HeldOn(es[p], "YES")
      /\ h.no - HeldOn(f, "NO") = k.no - HeldOn(es[p], "NO")
  BY DEF Exchange
<1>6. h.yes - SharesOn(fs, "YES") = k.yes - SharesOn(es, "YES")
  <2>1. /\ SharesOn(fs, "YES") - HeldOn(f, "YES") = SharesOn(es, "YES") - HeldOn(es[p], "YES")
        /\ SharesOn(fs, "YES") \in Int /\ SharesOn(es, "YES") \in Int
        /\ HeldOn(f, "YES") \in Int /\ HeldOn(es[p], "YES") \in Int
    BY <1>2, <1>3
  <2>2. QED
    BY <1>4, <1>5, <2>1
<1>7. h.no - SharesOn(fs, "NO") = k.no - SharesOn(es, "NO")
  <2>1. /\ SharesOn(fs, "NO") - HeldOn(f, "NO") = SharesOn(es, "NO") - HeldOn(es[p], "NO")
        /\ SharesOn(fs, "NO") \in Int /\ SharesOn(es, "NO") \in Int
        /\ HeldOn(f, "NO") \in Int /\ HeldOn(es[p], "NO") \in Int
    BY <1>2, <1>3
  <2>2. QED
    BY <1>4, <1>5, <2>1
<1>8. QED
  BY <1>1, <1>6, <1>7 DEF Unheld, fs

LEMMA BotTurnKeeps ==
  ASSUME Unbounded, NEW r \in Rooms, NEW p \in Bot, NEW move \in BotMoves
  PROVE  BotTurn(r, p, move) \in Rooms /\ Shuffled(r, BotTurn(r, p, move))
<1> DEFINE after == BotMove(r.book, r.es[p], move)
           fs == [r.es EXCEPT ![p] = after.e]
           s == [r EXCEPT !.book = after.book, !.es = fs]
<1>1. r.book \in Books /\ r.es \in [Entrant -> Ents] /\ p \in Entrant /\ r.es[p] \in Ents
  BY EntrantsAre DEF Rooms
<1>2. /\ Exchange(r.book, r.es[p], after.book, after.e)
      /\ r.es[p].out # StillIn => after.book = r.book /\ after.e = r.es[p]
  BY <1>1, BotExchanges
<1>3. BotTurn(r, p, move) = s
  BY DEF BotTurn
<1> HIDE DEF after
<1>4. /\ after.book \in Books /\ after.e \in Ents /\ after.e.out = r.es[p].out
      /\ after.book.b = r.book.b /\ after.book.line = r.book.line
  BY <1>2 DEF Exchange
<1>5. fs \in [Entrant -> Ents] /\ Unheld(after.book, fs) = Unheld(r.book, r.es)
  <2>1. fs = Replaced(r.es, p, after.e)
    BY DEF Replaced
  <2> HIDE DEF fs
  <2>2. QED
    BY <1>1, <1>2, <1>4, <2>1, UnheldKept
<1>6. \A q \in Entrant : fs[q] = IF q = p THEN after.e ELSE r.es[q]
  BY <1>1
<1> HIDE DEF fs
<1>7. /\ s \in Rooms /\ s.round = r.round /\ s.tape = r.tape /\ s.botAt = r.botAt
      /\ s.book = after.book /\ s.es = fs
  BY <1>4, <1>5 DEF Rooms
<1> HIDE DEF s
<1>8. \A q \in Entrant : /\ fs[q].out = r.es[q].out
                         /\ r.es[q].out # StillIn => fs[q] = r.es[q]
  BY <1>2, <1>4, <1>6
<1>9. Shuffled(r, s)
  BY <1>4, <1>5, <1>7, <1>8 DEF Shuffled
<1>10. QED
  BY <1>3, <1>7, <1>9

(* Induction over the subsets of a finite set, with all smaller ones as the hypothesis. *)
LEMMA SubsetCourse ==
  ASSUME NEW D, IsFiniteSet(D), NEW G,
         \A s \in SUBSET D : (\A t \in SUBSET s : t # s => t \in G) => s \in G
  PROVE  \A s \in SUBSET D : s \in G
<1> DEFINE T == (SUBSET D) \ G
<1>1. SUFFICES ASSUME T # {} PROVE FALSE
  OBVIOUS
<1>2. IsWellFoundedOn(StrictSubsetOrdering(D), FiniteSubsetsOf(D))
  BY FS_StrictSubsetOrderingWellFounded
<1>3. T \subseteq FiniteSubsetsOf(D)
  BY FS_FiniteSubsetsOfFinite
<1>4. PICK s \in T : \A t \in T : ~(<<t, s>> \in StrictSubsetOrdering(D))
  <2> HIDE DEF T
  <2> QED BY <1>1, <1>2, <1>3, WFMin
<1>5. ASSUME NEW t \in SUBSET s, t # s PROVE t \in G
  <2>1. <<t, s>> \in StrictSubsetOrdering(D)
    BY <1>5 DEF StrictSubsetOrdering
  <2>2. QED
    BY <1>4, <2>1
<1>6. QED
  BY <1>5

(* One step of the fold of BotsMove. *)
Turns(base, moves, S, g) ==
    [s \in SUBSET S |->
        IF s = {} THEN base ELSE BotTurn(g[s \ {Max(s)}], Max(s), moves[Max(s)])]

LEMMA LastBot ==
  ASSUME NEW s \in SUBSET Bot, s # {}
  PROVE  Max(s) \in s
<1>1. IsFiniteSet(s) /\ \A p \in s : p \in Nat
  BY EntrantsAre, FS_Subset
<1>2. \E p \in s : \A q \in s : p >= q
  <2> DEFINE G == {t \in SUBSET s : t # {} => \E p \in t : \A q \in t : p >= q}
  <2>1. {} \in G
    OBVIOUS
  <2>2. ASSUME NEW t \in SUBSET s, t # {} PROVE \E x \in t : t \ {x} \in G => t \in G
    <3>1. PICK x \in t : TRUE
      BY <2>2
    <3>2. ASSUME t \ {x} \in G PROVE \E p \in t : \A q \in t : p >= q
      <4>1. CASE t \ {x} = {}
        <5>1. \A q \in t : q = x
          BY <4>1
        <5>2. x \in Nat
          BY <1>1
        <5>3. QED
          BY <5>1, <5>2
      <4>2. CASE t \ {x} # {}
        <5>1. PICK p \in t \ {x} : \A q \in t \ {x} : p >= q
          BY <3>2, <4>2
        <5>2. x \in Nat /\ p \in Nat /\ \A q \in t : q \in Nat
          BY <1>1
        <5>3. CASE p >= x
          <6>1. \A q \in t : p >= q
            BY <5>1, <5>3
          <6>2. QED
            BY <6>1
        <5>4. CASE ~(p >= x)
          <6>1. \A q \in t : x >= q
            <7> SUFFICES ASSUME NEW q \in t PROVE x >= q
              OBVIOUS
            <7>1. CASE q = x
              BY <5>2, <7>1
            <7>2. CASE q # x
              BY <5>1, <5>2, <5>4, <7>2
            <7>3. QED
              BY <7>1, <7>2
          <6>2. QED
            BY <6>1
        <5>5. QED
          BY <5>3, <5>4
      <4>3. QED
        BY <4>1, <4>2
    <3>3. QED
      BY <3>2
  <2>3. \A t \in SUBSET s : t \in G
    <3> HIDE DEF G
    <3> QED BY <1>1, <2>1, <2>2, SubsetInduction
  <2>4. s \in G
    BY <2>3
  <2>5. QED
    BY <2>4
<1>3. QED
  BY <1>2 DEF Max

TakesTurns(moves, S, g) ==
    \A s \in SUBSET S : s # {} => g[s] = BotTurn(g[s \ {Max(s)}], Max(s), moves[Max(s)])

LEMMA TurnsAgree ==
  ASSUME NEW moves, NEW S \in SUBSET Bot, NEW g, NEW h, TakesTurns(moves, S, g),
         TakesTurns(moves, S, h), g[{}] = h[{}]
  PROVE  g[S] = h[S]
<1> DEFINE G == {s \in SUBSET S : g[s] = h[s]}
<1>1. {} \in G
  OBVIOUS
<1>2. ASSUME NEW s \in SUBSET S, s # {} PROVE \E x \in s : s \ {x} \in G => s \in G
  <2>1. Max(s) \in s
    BY <1>2, LastBot
  <2>2. s \ {Max(s)} \in G => s \in G
    BY <1>2 DEF TakesTurns
  <2>3. QED
    BY <2>1, <2>2
<1>3. IsFiniteSet(S)
  BY EntrantsAre, FS_Subset
<1>4. \A s \in SUBSET S : s \in G
  <2> HIDE DEF G
  <2> QED BY <1>1, <1>2, <1>3, SubsetInduction
<1>5. QED
  BY <1>4

(* The equation of BotsMove has a solution: what the bots of a set s make of the room is what any
   solution for s alone says. *)
LEMMA TurnsExist ==
  ASSUME NEW base, NEW moves
  PROVE  \A S \in SUBSET Bot : \E g : g = Turns(base, moves, S, g)
<1> DEFINE Solved(S, g) == g = Turns(base, moves, S, g)
           G == {S \in SUBSET Bot : \E g : Solved(S, g)}
<1>1. ASSUME NEW S \in SUBSET Bot, \A t \in SUBSET S : t # S => t \in G
      PROVE  S \in G
  <2> DEFINE sol == [t \in (SUBSET S) \ {S} |-> CHOOSE g : Solved(t, g)]
             g == [s \in SUBSET S |->
                     IF s = {} THEN base
                     ELSE BotTurn(sol[s \ {Max(s)}][s \ {Max(s)}], Max(s), moves[Max(s)])]
  <2>1. ASSUME NEW t \in (SUBSET S) \ {S} PROVE Solved(t, sol[t])
    <3>1. \E h : Solved(t, h)
      BY <1>1, <2>1
    <3> HIDE DEF Solved
    <3>2. QED
      BY <3>1
  <2>2. ASSUME NEW t \in (SUBSET S) \ {S}, NEW s \in SUBSET t
        PROVE  sol[t][s] = IF s = {} THEN base
                           ELSE BotTurn(sol[t][s \ {Max(s)}], Max(s), moves[Max(s)])
    <3> DEFINE h == sol[t]
    <3> HIDE DEF sol
    <3>1. h = Turns(base, moves, t, h)
      BY <2>1
    <3> HIDE DEF h
    <3>2. h[s] = IF s = {} THEN base ELSE BotTurn(h[s \ {Max(s)}], Max(s), moves[Max(s)])
      BY <3>1 DEF Turns
    <3>3. QED
      BY <3>2 DEF h
  <2> HIDE DEF sol
  <2>3. ASSUME NEW t \in (SUBSET S) \ {S} PROVE g[t] = sol[t][t]
    <3>1. CASE t = {}
      BY <2>2, <3>1
    <3>2. CASE t # {}
      <4> DEFINE u == t \ {Max(t)}
      <4>1. Max(t) \in t
        BY <3>2, LastBot
      <4>2. u \in (SUBSET S) \ {S} /\ u \in SUBSET Bot /\ u \in SUBSET t
        BY <4>1
      <4>3. g[t] = BotTurn(sol[u][u], Max(t), moves[Max(t)])
        BY <3>2
      <4>4. sol[t][t] = BotTurn(sol[t][u], Max(t), moves[Max(t)])
        BY <2>2, <3>2
      <4>5. sol[t][u] = sol[u][u]
        <5>1. sol[t][{}] = sol[u][{}]
          <6>1. {} \in SUBSET t /\ {} \in SUBSET u
            OBVIOUS
          <6>2. sol[t][{}] = base /\ sol[u][{}] = base
            BY <2>2, <4>2, <6>1
          <6>3. QED
            BY <6>2
        <5>2. TakesTurns(moves, u, sol[t])
          <6>1. \A s \in SUBSET u : s \in SUBSET t
            BY <4>2
          <6> HIDE DEF u
          <6>2. QED
            BY <2>2, <6>1 DEF TakesTurns
        <5>3. TakesTurns(moves, u, sol[u])
          <6> HIDE DEF u
          <6> QED BY <2>2, <4>2 DEF TakesTurns
        <5> HIDE DEF u
        <5>4. QED
          BY <4>2, <5>1, <5>2, <5>3, TurnsAgree
      <4> HIDE DEF g, u
      <4>6. QED
        BY <4>3, <4>4, <4>5
    <3>3. QED
      BY <3>1, <3>2
  <2>4. ASSUME NEW s \in SUBSET S, s # {}
        PROVE  g[s] = BotTurn(g[s \ {Max(s)}], Max(s), moves[Max(s)])
    <3> DEFINE u == s \ {Max(s)}
    <3>1. Max(s) \in s
      BY <2>4, LastBot
    <3>2. u \in (SUBSET S) \ {S}
      BY <3>1
    <3>3. g[s] = BotTurn(sol[u][u], Max(s), moves[Max(s)])
      BY <2>4
    <3>4. g[u] = sol[u][u]
      BY <2>3, <3>2
    <3> HIDE DEF g, u
    <3>5. g[s] = BotTurn(g[u], Max(s), moves[Max(s)])
      BY <3>3, <3>4
    <3>6. QED
      BY <3>5 DEF u
  <2>5. DOMAIN g = SUBSET S /\ g[{}] = base /\ g = [s \in SUBSET S |-> g[s]]
    OBVIOUS
  <2> HIDE DEF g
  <2>6. g = Turns(base, moves, S, g)
    <3> DEFINE x == Turns(base, moves, S, g)
    <3>1. DOMAIN x = SUBSET S /\ x = [s \in SUBSET S |-> x[s]]
      BY DEF Turns
    <3>2. \A s \in SUBSET S : x[s] = g[s]
      BY <2>4, <2>5 DEF Turns
    <3> HIDE DEF x
    <3>3. x = g
      BY <2>5, <3>1, <3>2
    <3>4. QED
      BY <3>3 DEF x
  <2>7. QED
    BY <2>6
<1>2. \A S \in SUBSET Bot : S \in G
  <2> HIDE DEF G
  <2> QED BY <1>1, EntrantsAre, SubsetCourse
<1>3. QED
  BY <1>2

LEMMA BotsMoveKeeps ==
  ASSUME Unbounded, NEW r \in Rooms, now \in Int, NEW moves \in [Bot -> BotMoves]
  PROVE  LET base == [r EXCEPT !.botAt = now] IN
         /\ base \in Rooms /\ BotsMove(r, moves) \in Rooms
         /\ Shuffled(base, BotsMove(r, moves))
<1> DEFINE base == [r EXCEPT !.botAt = now]
           iter == CHOOSE g : g = Turns(base, moves, Bot, g)
           G == {s \in SUBSET Bot : iter[s] \in Rooms /\ Shuffled(base, iter[s])}
<1>1. base \in Rooms
  BY DEF Rooms
<1> HIDE DEF base
<1>2. BotsMove(r, moves) = iter[Bot]
  BY DEF BotsMove, MapThenFoldSet, Turns, base
<1>3. iter = Turns(base, moves, Bot, iter)
  <2>1. \E g : g = Turns(base, moves, Bot, g)
    BY TurnsExist
  <2> HIDE DEF Turns
  <2>2. QED
    BY <2>1
<1> HIDE DEF iter
<1>4. ASSUME NEW s \in SUBSET Bot
      PROVE  iter[s] = IF s = {} THEN base
                       ELSE BotTurn(iter[s \ {Max(s)}], Max(s), moves[Max(s)])
  BY <1>3 DEF Turns
<1>5. {} \in G
  <2>1. iter[{}] = base
    BY <1>4
  <2>2. Shuffled(base, base)
    BY DEF Shuffled
  <2>3. QED
    BY <1>1, <2>1, <2>2
<1>6. ASSUME NEW s \in SUBSET Bot, s # {} PROVE \E x \in s : s \ {x} \in G => s \in G
  <2> DEFINE p == Max(s)
             q == iter[s \ {p}]
  <2>1. p \in s
    BY <1>6, LastBot
  <2>2. iter[s] = BotTurn(q, p, moves[p])
    BY <1>4, <1>6
  <2>3. ASSUME s \ {p} \in G PROVE iter[s] \in Rooms /\ Shuffled(base, iter[s])
    <3>1. q \in Rooms /\ Shuffled(base, q) /\ p \in Bot /\ moves[p] \in BotMoves
      BY <2>1, <2>3
    <3> HIDE DEF q, p
    <3>2. iter[s] \in Rooms /\ Shuffled(q, iter[s])
      BY <2>2, <3>1, BotTurnKeeps
    <3>3. Shuffled(base, iter[s])
      BY <3>1, <3>2 DEF Shuffled
    <3>4. QED
      BY <3>2, <3>3
  <2>4. QED
    BY <2>1, <2>3
<1>7. \A s \in SUBSET Bot : s \in G
  <2> HIDE DEF G
  <2> QED BY <1>5, <1>6, EntrantsAre, SubsetInduction
<1>8. QED
  BY <1>1, <1>2, <1>7 DEF base

-----------------------------------------------------------------------------
(* The tape. *)

Ordered(s) == \A i, j \in DOMAIN s : i < j => s[i].at <= s[j].at

(* A tape of a round that opened at some time, up to some time. *)
TapeOk(s, open, end) ==
    /\ s \in Seq(Samples) /\ s # <<>> /\ Ordered(s)
    /\ s[1].at = open /\ s[Len(s)].at <= end

LEMMA TapesAre ==
  ASSUME NEW s \in Seq(Samples)
  PROVE  /\ DOMAIN s = 1..Len(s) /\ Len(s) \in Nat
         /\ s # <<>> => /\ Len(s) \in Nat \ {0} /\ Last(s) = s[Len(s)]
                        /\ 1 \in DOMAIN s /\ Len(s) \in DOMAIN s
         /\ \A i \in DOMAIN s : /\ i \in Nat \ {0} /\ s[i] \in Samples
                                /\ s[i].at \in Int /\ s[i].yes \in Int
<1>1. DOMAIN s = 1..Len(s) /\ Len(s) \in Nat
  OBVIOUS
<1>2. s # <<>> => Len(s) # 0
  OBVIOUS
<1>3. \A i \in DOMAIN s : s[i] \in Samples
  OBVIOUS
<1>4. \A x \in Samples : x.at \in Int /\ x.yes \in Int
  BY DEF Samples
<1>5. Last(s) = s[Len(s)]
  BY DEF Last
<1>6. s # <<>> => 1 \in DOMAIN s /\ Len(s) \in DOMAIN s /\ Len(s) \in Nat \ {0}
  BY <1>1, <1>2
<1>7. \A i \in DOMAIN s : i \in Nat \ {0}
  BY <1>1
<1>8. QED
  BY <1>1, <1>3, <1>4, <1>5, <1>6, <1>7

(* The first half of a tape that is too long loses every other sample, but not its first. *)
LEMMA TapeThinned ==
  ASSUME NEW s, NEW open, NEW end, TapeOk(s, open, end)
  PROVE  /\ TapeOk(Thinned(s), open, end)
         /\ Thinned(s)[Len(Thinned(s))] = s[Len(s)]
<1> DEFINE n == Len(s)
           half == n \div 2
           m == (half + 1) \div 2
           d == n - half
           a == [i \in 1..m |-> s[2 * i - 1]]
           b == SubSeq(s, half + 1, n)
           c == a \o b
           pos(i) == IF i <= m THEN 2 * i - 1 ELSE half + (i - m)
<1>0. s \in Seq(Samples) /\ s # <<>> /\ n \in Nat \ {0} /\ DOMAIN s = 1..n
  BY TapesAre DEF TapeOk
<1>1. CASE n <= TapeMax
  BY <1>1 DEF Thinned
<1>2. CASE ~(n <= TapeMax)
  <2>1. n >= 2
    <3>1. TapeMax \in Nat \ {0}
      BY RoomBookAssumption DEF RoomBookAssumption
    <3>2. QED
      BY <1>0, <1>2, <3>1
  <2>2. half \in Nat /\ half >= 1 /\ half < n
    BY <1>0, <2>1
  <2>3. m \in Nat /\ m >= 1 /\ 2 * m - 1 <= half
    <3> HIDE DEF half
    <3> QED BY <2>2
  <2>4. \A i \in 1..n : s[i] \in Samples
    BY <1>0, TapesAre
  <2> HIDE DEF n, half, m
  <2>0. d \in Nat /\ d >= 1 /\ half + d = n
    BY <1>0, <2>2
  <2> HIDE DEF d
  <2>5. a \in Seq(Samples) /\ Len(a) = m /\ \A i \in 1..m : a[i] = s[2 * i - 1]
    <3>1. \A i \in 1..m : 2 * i - 1 \in 1..n
      BY <1>0, <2>0, <2>2, <2>3
    <3>2. \A i \in 1..m : a[i] \in Samples
      BY <2>4, <3>1
    <3>3. a \in [1..m -> Samples]
      BY <3>2
    <3>4. QED
      BY <2>3, <3>3
  <2>6. /\ b \in Seq(Samples) /\ Len(b) = d
        /\ \A i \in 1..d : b[i] = s[half + i]
    <3>1. \A i \in 1..d : half + 1 + i - 1 = half + i
      BY <2>2
    <3>2. half + 1 \in 1..n /\ n \in 1..n /\ n = Len(s)
      BY <1>0, <2>2 DEF n
    <3>3. n - (half + 1) + 1 = d
      BY <1>0, <2>2 DEF d
    <3>4. b = [i \in 1..d |-> s[half + 1 + i - 1]]
      BY <1>0, <2>2, <3>2, <3>3
    <3>5. \A i \in 1..d : half + i \in 1..n
      BY <1>0, <2>0, <2>2
    <3>6. \A i \in 1..d : b[i] = s[half + i] /\ b[i] \in Samples
      BY <2>4, <3>1, <3>4, <3>5
    <3>7. b \in [1..d -> Samples]
      BY <3>4, <3>6
    <3> HIDE DEF b
    <3>8. b \in Seq(Samples) /\ Len(b) = d
      BY <2>0, <3>7
    <3>9. QED
      BY <3>6, <3>8
  <2> HIDE DEF a, b
  <2>7. /\ c \in Seq(Samples) /\ Len(c) = m + d /\ DOMAIN c = 1..(m + d)
        /\ \A i \in 1..(m + d) : c[i] = IF i <= m THEN a[i] ELSE b[i - m]
    <3>1. a \in Seq(Samples) /\ b \in Seq(Samples) /\ Len(a) = m /\ Len(b) = d
      BY <2>5, <2>6
    <3>2. c \in Seq(Samples) /\ Len(c) = m + d
      BY <3>1
    <3>3. DOMAIN c = 1..(m + d)
      BY <3>2, TapesAre
    <3>4. \A i \in 1..(m + d) : c[i] = IF i <= m THEN a[i] ELSE b[i - m]
      BY <3>1
    <3>5. QED
      BY <3>2, <3>3, <3>4
  <2>8. ASSUME NEW i \in 1..(m + d)
        PROVE  pos(i) \in 1..n /\ c[i] = s[pos(i)]
    <3>1. CASE i <= m
      <4>1. i \in 1..m /\ 2 * i - 1 \in 1..n
        BY <1>0, <2>0, <2>2, <2>3, <3>1
      <4>2. QED
        BY <2>5, <2>7, <3>1, <4>1
    <3>2. CASE ~(i <= m)
      <4>1. i - m \in 1..d /\ half + (i - m) \in 1..n
        BY <1>0, <2>0, <2>2, <2>3, <3>2
      <4>2. QED
        BY <2>6, <2>7, <3>2, <4>1
    <3>3. QED
      BY <3>1, <3>2
  <2>9. \A i, j \in 1..(m + d) : i < j => pos(i) < pos(j)
    BY <1>0, <2>0, <2>2, <2>3
  <2>10. pos(1) = 1 /\ pos(m + d) = n /\ m + d \in Nat \ {0} /\ 1 \in 1..(m + d)
         /\ m + d \in 1..(m + d)
    BY <1>0, <2>0, <2>2, <2>3
  <2>11. c[1] = s[1] /\ c[Len(c)] = s[n] /\ c # <<>>
    <3>1. c[1] = s[pos(1)] /\ c[m + d] = s[pos(m + d)]
      BY <2>8, <2>10
    <3> HIDE DEF pos
    <3>2. QED
      BY <2>7, <2>10, <3>1
  <2>12. Ordered(c)
    <3> SUFFICES ASSUME NEW i \in DOMAIN c, NEW j \in DOMAIN c, i < j PROVE c[i].at <= c[j].at
      BY DEF Ordered
    <3>1. i \in 1..(m + d) /\ j \in 1..(m + d)
      BY <2>7
    <3>2. /\ pos(i) \in 1..n /\ pos(j) \in 1..n /\ pos(i) < pos(j)
          /\ c[i] = s[pos(i)] /\ c[j] = s[pos(j)]
      <4> HIDE DEF pos, c
      <4> QED BY <2>8, <2>9, <3>1
    <3> HIDE DEF pos, c
    <3>3. QED
      BY <1>0, <3>2 DEF TapeOk, Ordered
  <2>13. Thinned(s) = c
    BY <1>2 DEF Thinned, n, half, m, a, b, d
  <2> HIDE DEF c
  <2>14. QED
    BY <2>7, <2>11, <2>12, <2>13 DEF TapeOk, n
<1>3. QED
  BY <1>1, <1>2

LEMMA TapeRecorded ==
  ASSUME NEW s, NEW open, NEW at \in Int, TapeOk(s, open, at), NEW yes \in Int, NEW gap \in Nat
  PROVE  /\ TapeOk(RecordTape(s, at, yes, gap), open, at)
         /\ Last(RecordTape(s, at, yes, gap)).yes = yes
<1> DEFINE n == Len(s)
           over == [s EXCEPT ![Len(s)].yes = yes]
           x == [at |-> at, yes |-> yes]
           more == Append(s, x)
<1>0. /\ s \in Seq(Samples) /\ s # <<>> /\ n \in Nat \ {0} /\ DOMAIN s = 1..n /\ Last(s) = s[n]
      /\ \A i \in 1..n : s[i] \in Samples /\ s[i].at \in Int
      /\ s[1].at = open /\ s[n].at <= at
      /\ \A i, j \in 1..n : i < j => s[i].at <= s[j].at
  <2>1. s \in Seq(Samples) /\ s # <<>> /\ s[1].at = open /\ s[n].at <= at /\ Ordered(s)
    BY DEF TapeOk
  <2>2. /\ n \in Nat \ {0} /\ DOMAIN s = 1..n /\ Last(s) = s[n]
        /\ \A i \in 1..n : s[i] \in Samples /\ s[i].at \in Int
    BY <2>1, TapesAre
  <2>3. QED
    BY <2>1, <2>2 DEF Ordered
<1>1. TapeOk(over, open, at) /\ Last(over).yes = yes
  <2>1. /\ DOMAIN over = 1..n
        /\ \A i \in 1..n : over[i] \in Samples /\ over[i].at = s[i].at
        /\ over[n].yes = yes
    <3>1. \A z \in Samples : [z EXCEPT !.yes = yes] \in Samples /\ [z EXCEPT !.yes = yes].at = z.at
                             /\ [z EXCEPT !.yes = yes].yes = yes
      BY DEF Samples
    <3>2. /\ DOMAIN over = 1..n /\ over[n] = [s[n] EXCEPT !.yes = yes]
          /\ \A i \in 1..n : i # n => over[i] = s[i]
      BY <1>0
    <3> HIDE DEF over
    <3>3. n \in 1..n /\ s[n] \in Samples
      BY <1>0
    <3>4. over[n] \in Samples /\ over[n].at = s[n].at /\ over[n].yes = yes
      BY <3>1, <3>2, <3>3
    <3>5. ASSUME NEW i \in 1..n PROVE over[i] \in Samples /\ over[i].at = s[i].at
      <4>1. CASE i = n
        BY <3>4, <4>1
      <4>2. CASE i # n
        BY <1>0, <3>2, <4>2
      <4>3. QED
        BY <4>1, <4>2
    <3>6. QED
      BY <3>2, <3>4, <3>5
  <2> HIDE DEF over
  <2>2. over \in Seq(Samples) /\ Len(over) = n
    <3>1. over = [i \in 1..n |-> over[i]]
      <4>1. over = [i \in DOMAIN over |-> over[i]]
        BY DEF over
      <4>2. QED
        BY <2>1, <4>1
    <3>2. over \in [1..n -> Samples]
      <4>1. [i \in 1..n |-> over[i]] \in [1..n -> Samples]
        BY <2>1
      <4>2. QED
        BY <3>1, <4>1
    <3>3. QED
      BY <1>0, <3>2
  <2>3. 1 \in 1..n /\ n \in 1..n /\ over # <<>>
    BY <1>0, <2>2
  <2>4. Ordered(over)
    BY <1>0, <2>1 DEF Ordered
  <2>5. QED
    BY <1>0, <2>1, <2>2, <2>3, <2>4, TapesAre DEF TapeOk
<1>2. TapeOk(more, open, at) /\ more[Len(more)] = x
  <2>1. x \in Samples /\ x.at = at
    BY DEF Samples
  <2> HIDE DEF x
  <2>2. /\ more \in Seq(Samples) /\ Len(more) = n + 1 /\ DOMAIN more = 1..(n + 1)
        /\ \A i \in 1..n : more[i] = s[i]
        /\ more[n + 1] = x
    BY <1>0, <2>1
  <2>3. more # <<>> /\ 1 \in 1..n
    BY <1>0, <2>2
  <2>4. Ordered(more)
    <3> SUFFICES ASSUME NEW i \in 1..(n + 1), NEW j \in 1..(n + 1), i < j
                 PROVE  more[i].at <= more[j].at
      BY <2>2 DEF Ordered
    <3>1. CASE j \in 1..n
      <4>1. i \in 1..n
        BY <1>0, <3>1
      <4>2. QED
        BY <1>0, <2>2, <3>1, <4>1
    <3>2. CASE j = n + 1
      <4>1. i \in 1..n /\ n \in 1..n
        BY <1>0, <3>2
      <4>2. s[i].at <= s[n].at
        BY <1>0, <4>1
      <4>3. s[i].at \in Int /\ s[n].at \in Int
        BY <1>0, <4>1
      <4>4. more[i] = s[i] /\ more[j] = x
        BY <2>2, <3>2, <4>1
      <4> HIDE DEF more
      <4>5. s[i].at <= at
        BY <1>0, <4>2, <4>3
      <4>6. more[j].at = at /\ more[i].at = s[i].at
        BY <2>1, <4>4
      <4>7. QED
        BY <4>5, <4>6
    <3>3. j \in 1..n \/ j = n + 1
      BY <1>0
    <3>4. QED
      BY ONLY <3>1, <3>2, <3>3
  <2> HIDE DEF more
  <2>5. QED
    BY <1>0, <2>1, <2>2, <2>3, <2>4 DEF TapeOk
<1>3. RecordTape(s, at, yes, gap) = over \/ RecordTape(s, at, yes, gap) = Thinned(more)
  BY DEF RecordTape
<1> HIDE DEF over, more
<1>4. TapeOk(Thinned(more), open, at) /\ Last(Thinned(more)).yes = yes
  <2>1. TapeOk(Thinned(more), open, at) /\ Thinned(more)[Len(Thinned(more))] = x
    BY <1>2, TapeThinned
  <2>2. Last(Thinned(more)) = x
    BY <2>1, TapesAre DEF TapeOk
  <2>3. QED
    BY <2>1, <2>2
<1>5. QED
  BY <1>1, <1>3, <1>4

-----------------------------------------------------------------------------
(* What the opening, the bell and the next round make of the players. *)

LEMMA EntKept ==
  ASSUME NEW e \in Ents
  PROVE  /\ \A n \in Nat : LET f == [e EXCEPT !.out = n] IN
                f \in Ents /\ f.out = n /\ f.cash = e.cash /\ f.side = e.side /\ f.shares = e.shares
         /\ \A call \in Side \cup {NoSide} : LET f == [e EXCEPT !.call = call] IN
                f \in Ents /\ f.out = e.out /\ f.cash = e.cash /\ f.side = e.side
                /\ f.shares = e.shares /\ f.call = call /\ f.pct = e.pct
         /\ LET f == [e EXCEPT !.shares = 0, !.side = NoSide, !.call = NoSide] IN
                f \in Ents /\ f.out = e.out /\ f.cash = e.cash /\ f.side = NoSide /\ f.shares = 0
<1>1. e \in EntRecords /\ (e.side = NoSide => e.shares = 0)
  BY DEF Ents
<1>2. ASSUME NEW n \in Nat
      PROVE  LET f == [e EXCEPT !.out = n] IN
                f \in Ents /\ f.out = n /\ f.cash = e.cash /\ f.side = e.side /\ f.shares = e.shares
  BY <1>1 DEF Ents, EntRecords
<1>3. ASSUME NEW call \in Side \cup {NoSide}
      PROVE  LET f == [e EXCEPT !.call = call] IN
                f \in Ents /\ f.out = e.out /\ f.cash = e.cash /\ f.side = e.side
                /\ f.shares = e.shares /\ f.call = call /\ f.pct = e.pct
  BY <1>1 DEF Ents, EntRecords
<1>4. LET f == [e EXCEPT !.shares = 0, !.side = NoSide, !.call = NoSide] IN
                f \in Ents /\ f.out = e.out /\ f.cash = e.cash /\ f.side = NoSide /\ f.shares = 0
  BY <1>1 DEF Ents, EntRecords
<1>5. QED
  BY <1>2, <1>3, <1>4

LEMMA LiquidateKeeps ==
  ASSUME NEW e \in Ents, NEW yes \in Int, NEW spread \in Int
  PROVE  Liquidate(e, yes, spread) \in Ents /\ Liquidate(e, yes, spread).out = e.out
<1> DEFINE worth == SaleValue(e, yes, spread)
           c == e.cash + worth
           u == Holding(e, c, 0, NoSide)
<1>1. e.cash \in Int /\ e.shares \in Nat
  BY EntsAre
<1>2. worth \in Int
  <2> DEFINE x == SideCents(e.side, yes) - spread
  <2>1. SideCents(e.side, yes) \in Int
    BY DEF SideCents
  <2>2. x \in Int
    BY <2>1
  <2> HIDE DEF x
  <2>3. Max({0, x}) \in Int
    BY <2>2, MaxIs
  <2>4. \A a, b \in Int : a * b \in Int
    OBVIOUS
  <2>5. worth = e.shares * Max({0, x})
    BY DEF SaleValue, x
  <2>6. QED
    BY <1>1, <2>3, <2>4, <2>5
<1> HIDE DEF worth
<1>3. c \in Int /\ 0 \in Nat /\ NoSide \in Side \cup {NoSide}
  BY <1>1, <1>2
<1> HIDE DEF c
<1>4. u \in Ents /\ u.out = e.out
  BY <1>3, EntUpdated
<1>5. Sold(e, worth) = u
  BY DEF Sold, Holding, c
<1> HIDE DEF u
<1>6. QED
  BY <1>4, <1>5 DEF Liquidate, worth

LEMMA CallPlaced ==
  ASSUME NEW e \in Ents, NEW isBot, NEW yes \in Int
  PROVE  LET f == PlaceCall(e, isBot, yes) IN
         /\ f \in Ents /\ f.out = e.out
         /\ e.out # StillIn => f.cash = e.cash
<1> DEFINE open == [e EXCEPT !.call = NoSide]
           usdc == (e.cash * e.pct) \div 100
           price == SideCents(e.call, yes)
           side == e.call
           f == BuyShares(open, side, usdc, price, yes, 0)
<1>1. /\ e.cash \in Int /\ e.shares \in Nat /\ e.pct \in Int
      /\ e.call \in Side \cup {NoSide}
  BY EntsAre
<1>2. /\ open \in Ents /\ open.out = e.out /\ open.cash = e.cash /\ open.shares = e.shares
      /\ open.side = e.side
  <2>1. NoSide \in Side \cup {NoSide}
    OBVIOUS
  <2>2. QED
    BY <2>1, EntKept
<1>3. usdc \in Int /\ price \in Int
  <2>1. \A a, b \in Int : a * b \in Int
    OBVIOUS
  <2>2. \A a \in Int : a \div 100 \in Int
    OBVIOUS
  <2>3. price \in Int
    BY DEF SideCents
  <2>4. QED
    BY <1>1, <2>1, <2>2, <2>3
<1> HIDE DEF open, usdc, price
<1>4. ASSUME side \in Side, ~(e.shares > 0)
      PROVE  f \in Ents /\ f.out = e.out /\ (e.out # StillIn => f.cash = e.cash)
  <2> DEFINE at == Max({1, Min({99, price})})
             n == Min({usdc, open.cash}) \div at
             c == open.cash - n * at
             s == open.shares + n
             u == Holding(open, c, s, side)
  <2>1. CASE BuyRefused(open, usdc, AvailableFor(open, side, yes, 0))
    <3>1. f = open
      BY <2>1 DEF BuyShares
    <3> HIDE DEF f
    <3>2. QED
      BY <1>2, <3>1
  <2>2. CASE ~BuyRefused(open, usdc, AvailableFor(open, side, yes, 0))
    <3>1. ~HoldsOther(open, side)
      BY <1>2, <1>4 DEF HoldsOther, Holds
    <3>2. open.out = StillIn /\ ~(usdc <= 0) /\ ~(usdc > AvailableFor(open, side, yes, 0))
      BY <2>2 DEF BuyRefused
    <3>3. AvailableFor(open, side, yes, 0) = open.cash + 0
      BY <3>1 DEF AvailableFor
    <3>4. usdc > 0 /\ usdc <= open.cash
      BY <1>1, <1>2, <1>3, <3>2, <3>3
    <3>5. at \in Nat \ {0}
      <4> DEFINE low == Min({99, price})
      <4>1. low \in Int
        BY <1>3, MinIs
      <4> HIDE DEF low
      <4>2. Max({1, low}) = IF 1 >= low THEN 1 ELSE low
        BY <4>1, MaxIs
      <4>3. Max({1, low}) \in Nat \ {0}
        BY <4>1, <4>2
      <4>4. QED
        BY <4>3 DEF low
    <3> HIDE DEF at
    <3>6. Min({usdc, open.cash}) = usdc
      BY <1>1, <1>2, <1>3, <3>4, MinIs
    <3>7. n \in Nat
      <4>1. usdc \in Nat
        BY <1>3, <3>4
      <4>2. usdc \div at \in Nat
        BY <3>5, <4>1
      <4>3. QED
        BY <3>6, <4>2
    <3>8. f = u
      BY <2>2, <3>1 DEF BuyShares, Bought, Holding, at
    <3> HIDE DEF n
    <3>9. c \in Int /\ s \in Nat /\ side \in Side \cup {NoSide} /\ side # NoSide
      <4>1. n * at \in Int
        BY <3>5, <3>7
      <4>2. QED
        BY <1>1, <1>2, <1>4, <3>7, <4>1, SidesDiffer
    <3> HIDE DEF c, s, f
    <3>10. u \in Ents /\ u.out = open.out
      <4> HIDE DEF side
      <4> QED BY <1>2, <3>9, EntUpdated
    <3> HIDE DEF u
    <3>11. QED
      BY <1>2, <3>2, <3>8, <3>10 DEF f
  <2>3. QED
    BY <2>1, <2>2
<1>5. PlaceCall(e, isBot, yes) = IF e.call = NoSide \/ isBot \/ e.shares > 0 \/ e.cash <= 0
                                 THEN open ELSE f
  BY DEF PlaceCall, open, usdc, price
<1> HIDE DEF f
<1>6. QED
  <2>1. CASE e.call = NoSide \/ isBot \/ e.shares > 0 \/ e.cash <= 0
    BY <1>2, <1>5, <2>1
  <2>2. CASE ~(e.call = NoSide \/ isBot \/ e.shares > 0 \/ e.cash <= 0)
    BY <1>1, <1>4, <1>5, <2>2
  <2>3. QED
    BY <2>1, <2>2

LEMMA CallsPlaced ==
  ASSUME NEW es \in [Entrant -> Ents], NEW yes \in Int
  PROVE  LET fs == PlaceOpeningCalls(es, yes) IN
         /\ fs \in [Entrant -> Ents]
         /\ \A p \in Entrant : /\ fs[p].out = es[p].out
                               /\ es[p].out # StillIn => fs[p].cash = es[p].cash
BY CallPlaced DEF PlaceOpeningCalls

LEMMA VaultsSettled ==
  ASSUME NEW es \in [Entrant -> Ents], NEW yes \in Int, NEW number \in Nat \ {0}
  PROVE  LET fs == SettleVaults(es, yes, number) IN
         /\ fs \in [Entrant -> Ents]
         /\ \A p \in Entrant : es[p].out # StillIn => fs[p] = es[p]
<1> DEFINE mid == Redeemed(es, yes)
           end == CutLosers(mid, number)
<1>1. mid \in [Entrant -> Ents] /\ \A p \in Entrant : es[p].out # StillIn => mid[p] = es[p]
  <2>1. 0 \in Int
    OBVIOUS
  <2>2. ASSUME NEW p \in Entrant PROVE Liquidate(es[p], yes, 0) \in Ents
    BY <2>1, LiquidateKeeps
  <2>3. QED
    BY <2>2 DEF Redeemed, Alive
<1> HIDE DEF mid
<1>2. /\ end \in [Entrant -> Ents]
      /\ \A p \in Entrant : mid[p].out # StillIn => end[p] = mid[p]
  <2>1. ASSUME NEW p \in Entrant PROVE [mid[p] EXCEPT !.out = number] \in Ents
    BY <1>1, EntKept
  <2>2. QED
    BY <1>1, <2>1 DEF CutLosers, Alive
<1> HIDE DEF end
<1>3. SettleVaults(es, yes, number) = end
  BY DEF SettleVaults, Once, mid, end
<1>4. QED
  BY <1>1, <1>2, <1>3

LEMMA VaultsCarried ==
  ASSUME NEW es \in [Entrant -> Ents]
  PROVE  LET fs == CarryOver(es) IN
         /\ fs \in [Entrant -> Ents]
         /\ \A p \in Entrant : fs[p].cash = es[p].cash /\ fs[p].out = es[p].out
         /\ SharesOn(fs, "YES") = 0 /\ SharesOn(fs, "NO") = 0
<1> DEFINE fs == CarryOver(es)
<1>1. /\ fs \in [Entrant -> Ents]
      /\ \A p \in Entrant : /\ fs[p].cash = es[p].cash /\ fs[p].out = es[p].out
                            /\ fs[p].side = NoSide
  <2>1. ASSUME NEW p \in Entrant
        PROVE  LET f == [es[p] EXCEPT !.shares = 0, !.side = NoSide, !.call = NoSide] IN
               f \in Ents /\ f.out = es[p].out /\ f.cash = es[p].cash /\ f.side = NoSide
    BY EntKept
  <2>2. QED
    BY <2>1 DEF CarryOver
<1> HIDE DEF fs
<1>2. ASSUME NEW side \in Side PROVE SharesOn(fs, side) = 0
  <2>1. SharesOn(fs, side) = SumFunctionOnSet(Helds(fs, side), Entrant)
    BY <1>1, SharesAreHeld
  <2>2. \A p \in Entrant : Helds(fs, side)[p] = 0
    BY <1>1, SidesDiffer DEF Helds, HeldOn
  <2>3. Cardinality(Entrant) \in Nat
    BY EntrantsAre, FS_CardinalityType
  <2>4. SumFunctionOnSet(Helds(fs, side), Entrant) = 0 * Cardinality(Entrant)
    BY <2>2, EntrantsAre, SumConst
  <2>5. QED
    BY <2>1, <2>3, <2>4
<1>3. QED
  BY <1>1, <1>2, SidesDiffer DEF fs

LEMMA LiquidityIs == \A v \in Int : LiquidityFor(v) \in MinB..MaxB
<1> SUFFICES ASSUME NEW v \in Int PROVE LiquidityFor(v) \in MinB..MaxB
  OBVIOUS
<1>1. MinB \in Nat /\ MaxB \in Nat /\ MinB <= MaxB
  BY RoomBookAssumption DEF RoomBookAssumption
<1> DEFINE x == v \div 100
           y == Min({MaxB, x})
<1>2. x \in Int
  OBVIOUS
<1> HIDE DEF x
<1>3. y \in Int /\ y <= MaxB
  BY <1>1, <1>2, MinIs
<1> HIDE DEF y
<1>4. Max({MinB, y}) \in MinB..MaxB
  BY <1>1, <1>3, MaxIs
<1>5. QED
  BY <1>4 DEF LiquidityFor, x, y

LEMMA SeedIs ==
  ASSUME Unbounded, NEW b \in MinB..MaxB, NEW line \in Int
  PROVE  /\ SeedLead(b, line) \in Int
         /\ SeedBook(line, b) \in Books
<1> DEFINE gaps == {Distance(Line[b][d], line) : d \in DOMAIN Line[b]}
           gap == Min(gaps)
<1>1. DOMAIN Line[b] = Int /\ \A d \in Int : Line[b][d] \in Int
  <2>1. \A x \in 1..99 : x \in Int
    OBVIOUS
  <2>2. QED
    BY <2>1, TablesAre
<1>2. \A d \in Int : Distance(Line[b][d], line) \in Nat
  <2>1. \A x \in Int : Distance(x, line) \in Nat
    BY DEF Distance
  <2>2. QED
    BY <1>1, <2>1
<1>3. gaps \subseteq Nat /\ gaps # {}
  BY <1>1, <1>2
<1>4. gap \in gaps
  <2> HIDE DEF gaps
  <2> QED BY <1>3, LeastNatural
<1>5. \E d \in DOMAIN Line[b] : Distance(Line[b][d], line) = gap
  <2> HIDE DEF gap
  <2> QED BY <1>4
<1>6. SeedLead(b, line) \in Int
  <2>1. SeedLead(b, line) = CHOOSE d \in DOMAIN Line[b] : Distance(Line[b][d], line) = gap
    BY DEF SeedLead
  <2> HIDE DEF gap
  <2>2. QED
    BY <1>1, <1>5, <2>1
<1>7. QED
  BY <1>6 DEF SeedBook, Books, NoClose

-----------------------------------------------------------------------------
(* The average of the closing period. *)

LastBy(s, t) == Max({i \in DOMAIN s : s[i].at <= t})

LEMMA LastByIs ==
  ASSUME NEW s, NEW open \in Int, NEW end \in Int, TapeOk(s, open, end), NEW t \in Int, open <= t
  PROVE  /\ LastBy(s, t) \in DOMAIN s /\ LastBy(s, t) \in Nat
         /\ \A i \in DOMAIN s : i <= LastBy(s, t) <=> s[i].at <= t
<1> DEFINE S == {i \in DOMAIN s : s[i].at <= t}
           n == Len(s)
           m == LastBy(s, t)
<1>1. /\ DOMAIN s = 1..n /\ n \in Nat \ {0} /\ s[1].at = open
      /\ \A i \in 1..n : s[i].at \in Int
      /\ \A i, j \in 1..n : i < j => s[i].at <= s[j].at
  <2>1. s \in Seq(Samples) /\ s # <<>> /\ s[1].at = open
    BY DEF TapeOk
  <2>2. DOMAIN s = 1..n /\ n \in Nat \ {0} /\ \A i \in 1..n : s[i].at \in Int
    BY <2>1, TapesAre
  <2>3. QED
    BY <2>1, <2>2 DEF TapeOk, Ordered
<1> HIDE DEF n
<1>2. 1 \in S /\ S \in SUBSET (0..n) /\ S # {} /\ S \subseteq 1..n
  BY <1>1
<1>3. m = Max(S)
  BY DEF LastBy
<1>4. m \in S /\ \A x \in S : x <= m
  <2> HIDE DEF S, m
  <2> QED BY <1>1, <1>2, <1>3, MaxBelow
<1> HIDE DEF m
<1>5. m \in 1..n /\ m \in Nat /\ s[m].at <= t
  <2>1. m \in 1..n
    BY <1>2, <1>4
  <2>2. QED
    BY <1>1, <1>4, <2>1
<1>6. ASSUME NEW i \in 1..n PROVE i <= m <=> s[i].at <= t
  <2>1. ASSUME s[i].at <= t PROVE i <= m
    BY <1>1, <1>4, <2>1
  <2>2. ASSUME i <= m PROVE s[i].at <= t
    <3>1. CASE i = m
      BY <1>5, <3>1
    <3>2. CASE i # m
      <4>1. i < m
        BY <1>5, <2>2, <3>2
      <4>2. s[i].at <= s[m].at /\ s[i].at \in Int /\ s[m].at \in Int
        BY <1>1, <1>5, <4>1
      <4>3. QED
        BY <1>5, <4>2
    <3>3. QED
      BY <3>1, <3>2
  <2>3. QED
    BY <2>1, <2>2
<1>7. QED
  BY <1>1, <1>5, <1>6 DEF m

(* The samples a closing period uses, and what each counts for. *)
Until(s, n, to, i) == IF i < n THEN s[i + 1].at ELSE to
Since(s, from, i) == Max({from, s[i].at})
Weights(s, from, to) ==
    LET m == LastBy(s, from)
        n == LastBy(s, to - 1)
    IN [i \in m..n |-> s[i].yes * (Until(s, n, to, i) - Since(s, from, i))]

(* The samples that are used are the ones from the last before the period to the last in it. *)
LEMMA PeriodIs ==
  ASSUME NEW s, NEW open \in Int, NEW end \in Int, TapeOk(s, open, end),
         NEW from \in Int, NEW to \in Int, open <= from, from < to
  PROVE  LET m == LastBy(s, from)
             n == LastBy(s, to - 1)
         IN /\ m \in DOMAIN s /\ n \in DOMAIN s /\ m \in Nat \ {0} /\ n \in Nat /\ m <= n
            /\ Since(s, from, m) = from
            /\ \A i \in DOMAIN s : s[i].at \in Int /\ s[i].yes \in Int
            /\ \A i \in m..n : /\ i \in DOMAIN s /\ i \in Nat
                               /\ Since(s, from, i) \in Int /\ Until(s, n, to, i) \in Int
                               /\ from <= Since(s, from, i)
                               /\ Since(s, from, i) <= Until(s, n, to, i)
                               /\ Until(s, n, to, i) <= to
                               /\ i < n => /\ i + 1 \in DOMAIN s
                                           /\ Until(s, n, to, i) = Since(s, from, i + 1)
                               /\ s[i].at <= Since(s, from, i)
            /\ \A i \in DOMAIN s : i > m => s[i].at > from
            /\ \A i \in DOMAIN s : i <= n <=> s[i].at < to
<1> DEFINE m == LastBy(s, from)
           n == LastBy(s, to - 1)
           k == Len(s)
<1>1. s \in Seq(Samples) /\ s # <<>> /\ Ordered(s)
  BY DEF TapeOk
<1>2. /\ DOMAIN s = 1..k /\ k \in Nat \ {0}
      /\ \A i \in DOMAIN s : i \in Nat \ {0} /\ s[i].at \in Int /\ s[i].yes \in Int
  BY <1>1, TapesAre
<1>3. to - 1 \in Int /\ open <= to - 1
  OBVIOUS
<1>4. m \in DOMAIN s /\ m \in Nat /\ \A i \in DOMAIN s : i <= m <=> s[i].at <= from
  BY LastByIs
<1>5. n \in DOMAIN s /\ n \in Nat /\ \A i \in DOMAIN s : i <= n <=> s[i].at <= to - 1
  BY <1>3, LastByIs
<1> HIDE DEF m, n, k
<1>6. m \in Nat \ {0} /\ s[m].at <= from /\ s[m].at \in Int /\ m <= n
  <2>1. m \in Nat \ {0} /\ s[m].at \in Int /\ m <= m
    BY <1>2, <1>4
  <2>2. s[m].at <= from
    BY <1>4, <2>1
  <2>3. s[m].at <= to - 1
    BY <2>1, <2>2
  <2>4. QED
    BY <1>4, <1>5, <2>1, <2>2, <2>3
<1>7. \A i \in DOMAIN s : i > m => s[i].at > from
  BY <1>2, <1>4
<1>8. \A i \in DOMAIN s : i <= n <=> s[i].at < to
  BY <1>2, <1>5
<1>9. \A i \in DOMAIN s : Since(s, from, i) = IF from >= s[i].at THEN from ELSE s[i].at
  BY <1>2, MaxIs DEF Since
<1>10. Since(s, from, m) = from
  BY <1>4, <1>6, <1>9
<1>11. ASSUME NEW i \in m..n
       PROVE  /\ i \in DOMAIN s /\ i \in Nat
              /\ Since(s, from, i) \in Int /\ Until(s, n, to, i) \in Int
              /\ from <= Since(s, from, i)
              /\ Since(s, from, i) <= Until(s, n, to, i)
              /\ Until(s, n, to, i) <= to
              /\ i < n => /\ i + 1 \in DOMAIN s
                          /\ Until(s, n, to, i) = Since(s, from, i + 1)
              /\ s[i].at <= Since(s, from, i)
  <2>1. i \in DOMAIN s /\ i \in Nat /\ i >= m /\ i <= n
    BY <1>2, <1>4, <1>5, <1>6
  <2>2. /\ Since(s, from, i) \in Int /\ from <= Since(s, from, i) /\ s[i].at <= Since(s, from, i)
        /\ Since(s, from, i) = (IF from >= s[i].at THEN from ELSE s[i].at) /\ s[i].at \in Int
    BY <1>2, <1>9, <2>1
  <2>3. s[i].at < to
    BY <1>8, <2>1
  <2>4. CASE i < n
    <3>1. i + 1 \in DOMAIN s /\ i + 1 > m /\ i + 1 <= n /\ i < i + 1
      BY <1>2, <1>5, <1>6, <2>1, <2>4
    <3>2. s[i + 1].at \in Int /\ s[i + 1].at > from /\ s[i + 1].at < to
      BY <1>2, <1>7, <1>8, <3>1
    <3>3. s[i].at <= s[i + 1].at
      BY <1>1, <2>1, <3>1 DEF Ordered
    <3>4. Until(s, n, to, i) = s[i + 1].at
      BY <2>4 DEF Until
    <3>5. Since(s, from, i + 1) = s[i + 1].at
      BY <1>9, <3>1, <3>2
    <3>6. QED
      BY <2>1, <2>2, <3>1, <3>2, <3>3, <3>4, <3>5
  <2>5. CASE ~(i < n)
    <3>1. Until(s, n, to, i) = to
      BY <2>5 DEF Until
    <3>2. QED
      BY <2>1, <2>2, <2>3, <2>5, <3>1
  <2>6. QED
    BY <2>4, <2>5
<1>12. QED
  BY <1>2, <1>4, <1>5, <1>6, <1>7, <1>8, <1>10, <1>11 DEF m, n

LEMMA TwapIs ==
  ASSUME NEW s, NEW open \in Int, NEW end \in Int, TapeOk(s, open, end),
         NEW from \in Int, NEW to \in Int, open <= from, from < to, NEW fallback
  PROVE  LET w == Weights(s, from, to)
             used == LastBy(s, from)..LastBy(s, to - 1)
         IN /\ Twap(s, from, to, fallback) = RoundDiv(SumFunctionOnSet(w, used), to - from)
            /\ IsFiniteSet(used) /\ \A i \in used : w[i] \in Int
<1> DEFINE m == LastBy(s, from)
           n == LastBy(s, to - 1)
           w == Weights(s, from, to)
           before == {i \in DOMAIN s : s[i].at <= from}
           used == {i \in DOMAIN s : from < s[i].at /\ s[i].at < to}
                       \cup (IF before = {} THEN {} ELSE {Max(before)})
           since(i) == Max({from, s[i].at})
           until(i) == IF i + 1 \in used THEN s[i + 1].at ELSE to
           f == [i \in used |-> s[i].yes * (until(i) - since(i))]
           area == SumFunction(f)
<1>1. /\ m \in DOMAIN s /\ n \in DOMAIN s /\ m \in Nat \ {0} /\ n \in Nat /\ m <= n
      /\ Since(s, from, m) = from
      /\ \A i \in DOMAIN s : s[i].at \in Int /\ s[i].yes \in Int
      /\ \A i \in m..n : /\ i \in DOMAIN s /\ i \in Nat
                         /\ Since(s, from, i) \in Int /\ Until(s, n, to, i) \in Int
                         /\ i < n => i + 1 \in DOMAIN s
      /\ \A i \in DOMAIN s : i > m => s[i].at > from
      /\ \A i \in DOMAIN s : i <= n <=> s[i].at < to
  BY PeriodIs
<1>2. m \in before /\ Max(before) = m /\ \A i \in DOMAIN s : i \in Nat
  <2>1. \A i \in DOMAIN s : i \in Nat /\ (i <= m <=> s[i].at <= from)
    <3>1. s \in Seq(Samples)
      BY DEF TapeOk
    <3>2. \A i \in DOMAIN s : i \in Nat
      BY <3>1, TapesAre
    <3>3. \A i \in DOMAIN s : i <= m <=> s[i].at <= from
      BY LastByIs
    <3>4. QED
      BY <3>2, <3>3
  <2>2. m = Max(before)
    BY DEF LastBy
  <2> HIDE DEF m
  <2>3. QED
    BY <1>1, <2>1, <2>2
<1>3. used = m..n
  <2> HIDE DEF m, n
  <2>1. used = {i \in DOMAIN s : from < s[i].at /\ s[i].at < to} \cup {m}
    BY <1>2
  <2>2. \A i \in m..n : i = m \/ (i \in DOMAIN s /\ from < s[i].at /\ s[i].at < to)
    BY <1>1, <1>2
  <2>3. \A i \in DOMAIN s : from < s[i].at /\ s[i].at < to => i \in m..n
    <3> SUFFICES ASSUME NEW i \in DOMAIN s, from < s[i].at, s[i].at < to PROVE i \in m..n
      OBVIOUS
    <3>1. i <= n /\ i \in Nat
      BY <1>1, <1>2
    <3>2. i > m
      <4>1. s \in Seq(Samples)
        BY DEF TapeOk
      <4>2. \A j \in DOMAIN s : j <= m <=> s[j].at <= from
        BY LastByIs DEF m
      <4>3. ~(s[i].at <= from)
        BY <1>1
      <4>4. QED
        BY <1>1, <3>1, <4>2, <4>3
    <3>3. QED
      BY <1>1, <3>1, <3>2
  <2>4. m \in m..n
    BY <1>1
  <2> HIDE DEF used
  <2>5. QED
    BY <2>1, <2>2, <2>3, <2>4
<1>4. Min(used) = m
  <2> HIDE DEF m, n
  <2>1. m \in used /\ (\A i \in used : m <= i) /\ \A i \in used : i \in Nat
    <3> HIDE DEF used
    <3> QED BY <1>1, <1>3
  <2> HIDE DEF used
  <2>2. used \subseteq Nat /\ used # {}
    BY <2>1
  <2>3. Min(used) \in used /\ Min(used) <= m
    BY <2>1, <2>2, LeastNatural
  <2>4. m <= Min(used) /\ Min(used) \in Nat
    BY <2>1, <2>3
  <2>5. QED
    BY <1>1, <2>3, <2>4
<1>5. ASSUME NEW i \in m..n PROVE w[i] = f[i] /\ w[i] \in Int
  <2>1. i + 1 \in m..n <=> i < n
    BY <1>1
  <2>2. until(i) = Until(s, n, to, i)
    BY <1>3, <2>1 DEF Until
  <2>3. since(i) = Since(s, from, i)
    BY DEF Since
  <2>4. w[i] = s[i].yes * (Until(s, n, to, i) - Since(s, from, i))
    BY DEF Weights
  <2>5. i \in used
    BY <1>3
  <2>6. f[i] = s[i].yes * (until(i) - since(i))
    BY <2>5
  <2>7. s[i].yes \in Int /\ Until(s, n, to, i) \in Int /\ Since(s, from, i) \in Int
    BY <1>1
  <2>8. \A a, b, c \in Int : a * (b - c) \in Int
    OBVIOUS
  <2>9. QED
    BY <2>2, <2>3, <2>4, <2>6, <2>7, <2>8
<1>6. IsFiniteSet(m..n)
  BY <1>1, FS_Interval
<1>7. area = SumFunctionOnSet(w, m..n)
  <2>1. area = SumFunctionOnSet(f, used)
    BY DEF SumFunction, SumFunctionOnSet, FoldFunction
  <2> HIDE DEF f, w, m, n, used, area
  <2>2. SumFunctionOnSet(f, m..n) = SumFunctionOnSet(w, m..n)
    <3>1. \A i \in m..n : w[i] \in Int /\ f[i] = w[i]
      BY <1>5
    <3>2. QED
      BY <1>6, <3>1, SumCong
  <2>3. QED
    BY <1>3, <2>1, <2>2
<1>8. Twap(s, from, to, fallback) = RoundDiv(area, to - from)
  <2>1. since(Min(used)) = from
    <3> HIDE DEF used, m
    <3> QED BY <1>1, <1>4 DEF Since
  <2>2. used # {} /\ ~(to <= from)
    <3> HIDE DEF m, n, used
    <3>1. m \in m..n
      BY <1>1
    <3>2. QED
      BY <1>3, <3>1
  <2>3. Twap(s, from, to, fallback) = IF to <= from \/ used = {} THEN fallback
                                      ELSE RoundDiv(area, to - since(Min(used)))
    BY DEF Twap
  <2> HIDE DEF used, area, since
  <2>4. QED
    BY <2>1, <2>2, <2>3
<1> HIDE DEF area
<1>9. QED
  BY <1>5, <1>6, <1>7, <1>8

(* The price in force, instant by instant. *)
Prices(s, from, to) == [t \in from..(to - 1) |-> s[LastBy(s, t)].yes]

LEMMA PeriodAdds ==
  ASSUME NEW s, NEW open \in Int, NEW end \in Int, TapeOk(s, open, end),
         NEW from \in Int, NEW to \in Int, open <= from, from < to
  PROVE  LET used == LastBy(s, from)..LastBy(s, to - 1) IN
         SumFunctionOnSet(Prices(s, from, to), from..(to - 1))
             = SumFunctionOnSet(Weights(s, from, to), used)
<1> DEFINE m == LastBy(s, from)
           n == LastBy(s, to - 1)
           w == Weights(s, from, to)
           f == Prices(s, from, to)
           u(i) == Until(s, n, to, i)
           v(i) == Since(s, from, i)
<1>0. /\ m \in DOMAIN s /\ n \in DOMAIN s /\ m \in Nat \ {0} /\ n \in Nat /\ m <= n
      /\ Since(s, from, m) = from
      /\ \A i \in DOMAIN s : s[i].at \in Int /\ s[i].yes \in Int
      /\ \A i \in m..n :
           /\ i \in DOMAIN s /\ i \in Nat
           /\ Since(s, from, i) \in Int /\ Until(s, n, to, i) \in Int
           /\ from <= Since(s, from, i) /\ Since(s, from, i) <= Until(s, n, to, i)
           /\ Until(s, n, to, i) <= to
           /\ i < n => i + 1 \in DOMAIN s /\ Until(s, n, to, i) = Since(s, from, i + 1)
           /\ s[i].at <= Since(s, from, i)
      /\ \A i \in DOMAIN s : i > m => s[i].at > from
      /\ \A i \in DOMAIN s : i <= n <=> s[i].at < to
  <2> DEFINE Is(a, b) ==
            /\ a \in DOMAIN s /\ b \in DOMAIN s /\ a \in Nat \ {0} /\ b \in Nat /\ a <= b
            /\ Since(s, from, a) = from
            /\ \A i \in DOMAIN s : s[i].at \in Int /\ s[i].yes \in Int
            /\ \A i \in a..b : /\ i \in DOMAIN s /\ i \in Nat
                               /\ Since(s, from, i) \in Int /\ Until(s, b, to, i) \in Int
                               /\ from <= Since(s, from, i)
                               /\ Since(s, from, i) <= Until(s, b, to, i)
                               /\ Until(s, b, to, i) <= to
                               /\ i < b => /\ i + 1 \in DOMAIN s
                                           /\ Until(s, b, to, i) = Since(s, from, i + 1)
                               /\ s[i].at <= Since(s, from, i)
            /\ \A i \in DOMAIN s : i > a => s[i].at > from
            /\ \A i \in DOMAIN s : i <= b <=> s[i].at < to
  <2>1. Is(m, n)
    BY PeriodIs, Zenon
  <2> HIDE DEF m, n
  <2>2. QED
    BY <2>1
<1>1. /\ m \in DOMAIN s /\ n \in DOMAIN s /\ m \in Nat \ {0} /\ n \in Nat /\ m <= n
      /\ v(m) = from
      /\ \A i \in DOMAIN s : s[i].at \in Int /\ s[i].yes \in Int
      /\ \A i \in m..n : /\ i \in DOMAIN s /\ i \in Nat /\ v(i) \in Int /\ u(i) \in Int
                         /\ from <= v(i) /\ v(i) <= u(i) /\ u(i) <= to
                         /\ i < n => i + 1 \in DOMAIN s /\ u(i) = v(i + 1)
                         /\ s[i].at <= v(i)
      /\ \A i \in DOMAIN s : i > m => s[i].at > from
      /\ \A i \in DOMAIN s : i <= n <=> s[i].at < to
  <2> HIDE DEF m, n
  <2> QED BY <1>0
<1>2. \A i \in m..n : i = n => u(i) = to
  BY <1>1 DEF Until
<1>3. \A i \in m..n : i < n => u(i) = s[i + 1].at
  BY DEF Until
<1>4. \A i \in m..n : w[i] = s[i].yes * (u(i) - v(i))
  BY DEF Weights
<1>5. \A t \in from..(to - 1) : f[t] = s[LastBy(s, t)].yes
  BY DEF Prices
<1>6. \A t \in from..(to - 1) : /\ t \in Int /\ LastBy(s, t) \in DOMAIN s /\ LastBy(s, t) \in Nat
                                /\ \A i \in DOMAIN s : i <= LastBy(s, t) <=> s[i].at <= t
  <2> SUFFICES ASSUME NEW t \in from..(to - 1)
               PROVE  /\ t \in Int /\ LastBy(s, t) \in DOMAIN s /\ LastBy(s, t) \in Nat
                      /\ \A i \in DOMAIN s : i <= LastBy(s, t) <=> s[i].at <= t
    OBVIOUS
  <2>1. t \in Int /\ open <= t
    OBVIOUS
  <2>2. QED
    BY <2>1, LastByIs
<1> HIDE DEF m, n, w, f, u, v
<1>7. \A t \in from..(to - 1) : f[t] \in Int
  BY <1>1, <1>5, <1>6
<1>8. ASSUME NEW i \in m..n, NEW t \in v(i)..(u(i) - 1)
      PROVE  t \in from..(to - 1) /\ f[t] = s[i].yes
  <2>1. /\ i \in DOMAIN s /\ i \in Nat /\ v(i) \in Int /\ u(i) \in Int
        /\ from <= v(i) /\ u(i) <= to /\ s[i].at <= v(i) /\ s[i].at \in Int
    BY <1>1
  <2>2. t \in Int /\ v(i) <= t /\ t < u(i) /\ t \in from..(to - 1)
    BY <2>1
  <2> DEFINE l == LastBy(s, t)
  <2>3. l \in DOMAIN s /\ l \in Nat /\ \A j \in DOMAIN s : j <= l <=> s[j].at <= t
    BY <1>6, <2>2
  <2> HIDE DEF l
  <2>4. i <= l
    BY <2>1, <2>2, <2>3
  <2>5. l <= i
    <3>1. CASE i < n
      <4>1. i + 1 \in DOMAIN s /\ s[i + 1].at = u(i)
        BY <1>1, <1>3, <3>1
      <4>2. ~(i + 1 <= l)
        BY <2>1, <2>2, <2>3, <4>1
      <4>3. QED
        BY <2>1, <2>3, <4>2
    <3>2. CASE ~(i < n)
      <4>1. s[l].at <= t /\ s[l].at \in Int
        BY <1>1, <2>3
      <4>2. s[l].at < to
        BY <2>2, <4>1
      <4>3. l <= n
        BY <1>1, <2>3, <4>2
      <4>4. QED
        BY <1>1, <2>1, <2>3, <3>2, <4>3
    <3>3. QED
      BY <3>1, <3>2
  <2>6. l = i
    BY <2>1, <2>3, <2>4, <2>5
  <2>7. QED
    BY <1>5, <2>2, <2>6 DEF l
(* One sample's stretch. *)
<1>9. ASSUME NEW i \in m..n
      PROVE  /\ SumFunctionOnSet(f, v(i)..(u(i) - 1)) = w[i] /\ w[i] \in Int
             /\ IsFiniteSet(v(i)..(u(i) - 1))
  <2> DEFINE S == v(i)..(u(i) - 1)
             c == s[i].yes
  <2>1. v(i) \in Int /\ u(i) \in Int /\ v(i) <= u(i) /\ c \in Int
    BY <1>1
  <2>2. u(i) - 1 \in Int
    BY <2>1
  <2>3. IsFiniteSet(S) /\ Cardinality(S) = IF v(i) > u(i) - 1 THEN 0 ELSE (u(i) - 1) - v(i) + 1
    BY <2>1, <2>2, FS_Interval
  <2>4. \A t \in S : f[t] = c
    BY <1>8
  <2> HIDE DEF S
  <2>5. Cardinality(S) = u(i) - v(i)
    BY <2>1, <2>3
  <2> HIDE DEF c
  <2>6. SumFunctionOnSet(f, S) = c * Cardinality(S)
    BY <2>1, <2>3, <2>4, SumConst
  <2>7. w[i] = c * (u(i) - v(i))
    BY <1>4 DEF c
  <2>8. \A a, b, d \in Int : a * (b - d) \in Int
    OBVIOUS
  <2>9. QED
    BY <2>1, <2>3, <2>5, <2>6, <2>7, <2>8 DEF S
<1> DEFINE Done(j) == SumFunctionOnSet(f, from..(u(j) - 1)) = SumFunctionOnSet(w, m..j)
<1>10. Done(m)
  <2>1. m \in m..n /\ m..m = {m}
    BY <1>1
  <2>2. SumFunctionOnSet(w, {m}) = w[m]
    BY <1>9, <2>1, SumSingleton
  <2>3. SumFunctionOnSet(f, v(m)..(u(m) - 1)) = w[m]
    BY <1>9, <2>1
  <2>4. QED
    BY <1>1, <2>1, <2>2, <2>3
<1>11. ASSUME NEW j \in m..n, j < n, Done(j) PROVE Done(j + 1)
  <2>1. j \in Nat /\ j + 1 \in m..n /\ j \in Int
    BY <1>1, <1>11
  <2>2. /\ v(j) \in Int /\ u(j) \in Int /\ v(j + 1) = u(j) /\ u(j + 1) \in Int
        /\ from <= u(j) /\ u(j) <= u(j + 1) /\ u(j + 1) <= to
    <3>1. v(j) \in Int /\ u(j) \in Int /\ v(j + 1) = u(j) /\ from <= v(j) /\ v(j) <= u(j)
      BY <1>1, <1>11
    <3>2. u(j + 1) \in Int /\ v(j + 1) <= u(j + 1) /\ u(j + 1) <= to
      BY <1>1, <2>1
    <3>3. QED
      BY <3>1, <3>2
  <2> DEFINE A == from..(u(j) - 1)
             B == u(j)..(u(j + 1) - 1)
             C == from..(u(j + 1) - 1)
             D == m..j
             E == m..(j + 1)
  <2>3. A \cup B = C /\ A \cap B = {} /\ \A t \in C : t \in from..(to - 1)
    BY <2>2
  <2>4. IsFiniteSet(A) /\ IsFiniteSet(B) /\ IsFiniteSet(D)
    <3>1. u(j) - 1 \in Int /\ u(j + 1) - 1 \in Int /\ m \in Int
      BY <1>1, <2>2
    <3>2. QED
      BY <2>1, <2>2, <3>1, FS_Interval
  <2>5. \A t \in A \cup B : f[t] \in Int
    BY <1>7, <2>3
  <2>6. SumFunctionOnSet(f, B) = w[j + 1] /\ w[j + 1] \in Int
    BY <1>9, <2>1, <2>2
  <2>7. SumFunctionOnSet(f, A) = SumFunctionOnSet(w, D)
    BY <1>11
  <2>8. D \cup {j + 1} = E /\ D \cap {j + 1} = {} /\ \A i \in E : w[i] \in Int
    <3>1. D \cup {j + 1} = E /\ D \cap {j + 1} = {} /\ \A i \in E : i \in m..n
      BY <1>1, <1>11, <2>1
    <3>2. QED
      BY <1>9, <3>1
  <2>9. SumFunctionOnSet(w, {j + 1}) = w[j + 1] /\ IsFiniteSet({j + 1})
    BY <2>6, SumSingleton, FS_Singleton
  <2> HIDE DEF A, B, C, D, E
  <2>10. SumFunctionOnSet(f, C) = SumFunctionOnSet(f, A) + SumFunctionOnSet(f, B)
    BY <2>3, <2>4, <2>5, SumUnion
  <2>11. SumFunctionOnSet(w, E) = SumFunctionOnSet(w, D) + SumFunctionOnSet(w, {j + 1})
    BY <2>4, <2>8, <2>9, SumUnion
  <2>12. SumFunctionOnSet(f, C) = SumFunctionOnSet(w, E)
    BY <2>6, <2>7, <2>9, <2>10, <2>11
  <2>13. QED
    BY <2>12 DEF C, E
<1> HIDE DEF Done
<1>12. Done(n)
  <2> DEFINE T == {j \in m..n : ~Done(j)}
  <2>1. SUFFICES ASSUME T # {} PROVE FALSE
    <3>1. n \in m..n
      BY <1>1
    <3>2. QED
      BY <3>1
  <2>2. T \subseteq Nat
    BY <1>1
  <2>3. Min(T) \in T /\ \A y \in T : Min(T) <= y
    <3> HIDE DEF T
    <3> QED BY <2>1, <2>2, LeastNatural
  <2> DEFINE j == Min(T)
  <2>4. j \in m..n /\ ~Done(j) /\ j \in Nat
    BY <2>2, <2>3
  <2>5. \A y \in m..n : ~Done(y) => j <= y
    BY <2>3
  <2> HIDE DEF j, T
  <2>6. j # m
    BY <1>10, <2>4
  <2>7. j - 1 \in m..n /\ j - 1 < n /\ (j - 1) + 1 = j /\ ~(j <= j - 1)
    BY <1>1, <2>4, <2>6
  <2>8. Done(j - 1)
    BY <2>5, <2>7
  <2>9. Done((j - 1) + 1)
    BY <1>11, <2>7, <2>8
  <2>10. QED
    BY <2>4, <2>7, <2>9
<1>13. u(n) = to
  <2>1. n \in m..n
    BY <1>1
  <2>2. QED
    BY <1>2, <2>1
<1>14. QED
  BY <1>12, <1>13 DEF Done, m, n, w, f

LEMMA RoundedNear ==
  ASSUME NEW a \in Int, NEW d \in Nat \ {0}
  PROVE  /\ RoundDiv(a, d) \in Int
         /\ Distance(2 * d * RoundDiv(a, d), 2 * a) <= d
<1> DEFINE x == 2 * a + d
           y == 2 * d
           q == x \div y
<1>1. x \in Int /\ y \in Nat \ {0}
  OBVIOUS
<1> HIDE DEF x, y
<1>2. q \in Int /\ y * q <= x /\ x < y * q + y
  BY <1>1
<1> HIDE DEF q
<1>3. PICK z \in Int : z = y * q
  BY <1>1, <1>2
<1>4. z <= 2 * a + d /\ 2 * a + d < z + 2 * d
  BY <1>2, <1>3 DEF x, y
<1>5. Distance(z, 2 * a) <= d
  BY <1>4 DEF Distance
<1>6. RoundDiv(a, d) = q
  BY DEF RoundDiv, q, x, y
<1>7. 2 * d * q = z
  BY <1>3 DEF y
<1>8. QED
  BY <1>2, <1>5, <1>6, <1>7

LEMMA WindowIs ==
    ClosingWindow(Live) \in Nat /\ ClosingWindow(Live) <= Live
<1>1. WindowMin \in Nat /\ WindowMax \in Nat /\ WindowMin <= Live /\ Live \in Nat \ {0}
  BY RoomBookAssumption, BookPitAssumption DEF RoomBookAssumption, BookPitAssumption
<1> DEFINE x == Live \div 5
           y == Min({WindowMax, x})
<1>2. x \in Nat /\ x <= Live
  BY <1>1
<1> HIDE DEF x
<1>3. y \in Nat /\ y <= Live
  BY <1>1, <1>2, MinIs
<1> HIDE DEF y
<1>4. Max({WindowMin, y}) \in Nat /\ Max({WindowMin, y}) <= Live
  BY <1>1, <1>3, MaxIs
<1>5. QED
  BY <1>4 DEF ClosingWindow, x, y

(* The average, rounded, is nowhere further than half a cent from the true one. *)
LEMMA TwapNear ==
  ASSUME NEW s, NEW open \in Int, NEW end \in Int, TapeOk(s, open, end),
         NEW from \in Int, NEW to \in Int, open <= from, from <= to, NEW fallback \in Int
  PROVE  /\ Twap(s, from, to, fallback) \in Int
         /\ Distance(2 * (to - from) * Twap(s, from, to, fallback),
                     2 * SumFunctionOnSet(Prices(s, from, to), from..(to - 1))) <= to - from
<1> DEFINE f == Prices(s, from, to)
           d == to - from
           x == Twap(s, from, to, fallback)
           a == SumFunctionOnSet(f, from..(to - 1))
<1>1. CASE from = to
  <2>1. x = fallback /\ d = 0
    BY <1>1 DEF Twap
  <2>2. from..(to - 1) = {}
    BY <1>1
  <2>3. a = 0
    <3> HIDE DEF f
    <3> QED BY <2>2, SumEmpty
  <2> HIDE DEF x, a, d
  <2>4. 2 * d * x = 0 /\ 2 * a = 0
    BY <2>1, <2>3
  <2>5. Distance(2 * d * x, 2 * a) <= d
    BY <2>1, <2>4 DEF Distance
  <2>6. QED
    BY <2>1, <2>5 DEF x, a, d
<1>2. CASE from # to
  <2> DEFINE w == Weights(s, from, to)
             used == LastBy(s, from)..LastBy(s, to - 1)
             b == SumFunctionOnSet(w, used)
  <2>1. from < to /\ d \in Nat \ {0}
    BY <1>2
  <2>2. x = RoundDiv(b, d) /\ IsFiniteSet(used) /\ \A i \in used : w[i] \in Int
    BY <2>1, TwapIs
  <2>3. a = b
    BY <2>1, PeriodAdds
  <2> HIDE DEF w, used, f, d, x
  <2>4. b \in Int
    BY <2>2, SumInt
  <2> HIDE DEF b, a
  <2>5. x \in Int /\ Distance(2 * d * x, 2 * b) <= d
    BY <2>1, <2>2, <2>4, RoundedNear
  <2>6. QED
    BY <2>3, <2>5 DEF a, d, x, f
<1>3. QED
  BY <1>1, <1>2

-----------------------------------------------------------------------------
(* The keeper. *)

TypedTrade(t) ==
    /\ t.wallet \in Human
    /\ t.action = "buy" => t.side \in Side /\ t.usdc \in Amounts

PitInv ==
    /\ Room \in Rooms /\ now \in Int
    /\ Trading => TapeOk(tape, round.deadline - Live, now)
    /\ \A t \in trades : TypedTrade(t)

LEMMA RoomIs ==
  /\ Room.round = round /\ Room.es = entrants /\ Room.book = book /\ Room.tape = tape
  /\ Room.botAt = botAt
  /\ Room \in Rooms <=> /\ round \in Rounds /\ entrants \in [Entrant -> Ents] /\ book \in Books
                        /\ tape \in Seq(Samples) /\ botAt \in Int
BY DEF Room, Rooms

LEMMA ConstantsAre ==
  /\ Vault \in Nat /\ Live \in Nat \ {0} /\ Live \in Int
  /\ Cutoff \in Nat /\ BotGap \in Nat /\ TapeGap \in Nat /\ Slippage \in Nat
  /\ \A line \in Lines : line \in Int
  /\ \A usdc \in Amounts : usdc \in Nat
  /\ MinB \in MinB..MaxB
<1>1. /\ Vault \in Nat /\ Live \in Nat \ {0}
      /\ {Cutoff, BotGap, TapeGap, Slippage, MaxTrades, Late} \subseteq Nat
      /\ Lines \subseteq 1..99 /\ Amounts \subseteq Nat
  BY BookPitAssumption DEF BookPitAssumption
<1>2. MinB \in Nat /\ MaxB \in Nat /\ MinB <= MaxB
  BY RoomBookAssumption DEF RoomBookAssumption
<1>3. \A x \in 1..99 : x \in Int
  OBVIOUS
<1>4. MinB \in MinB..MaxB
  BY <1>2
<1>5. Cutoff \in Nat /\ BotGap \in Nat /\ TapeGap \in Nat /\ Slippage \in Nat
  BY <1>1
<1>6. \A line \in Lines : line \in Int
  BY <1>1, <1>3
<1>7. Live \in Int
  BY <1>1
<1>8. QED
  BY <1>1, <1>4, <1>5, <1>6, <1>7

LEMMA NewTape ==
  ASSUME NEW at \in Int, NEW yes \in Int
  PROVE  /\ TapeOk(<<[at |-> at, yes |-> yes]>>, at, at)
         /\ Last(<<[at |-> at, yes |-> yes]>>).yes = yes
<1> DEFINE x == [at |-> at, yes |-> yes]
           s == <<x>>
<1>1. x \in Samples /\ x.at = at /\ x.yes = yes
  BY DEF Samples
<1> HIDE DEF x
<1>2. s \in Seq(Samples) /\ Len(s) = 1 /\ s[1] = x /\ s # <<>> /\ DOMAIN s = 1..1
  BY <1>1
<1> HIDE DEF s
<1>3. Ordered(s)
  BY <1>2 DEF Ordered
<1>4. TapeOk(s, at, at)
  BY <1>1, <1>2, <1>3 DEF TapeOk
<1>5. Last(s).yes = yes
  BY <1>1, <1>2, TapesAre
<1>6. QED
  BY <1>4, <1>5 DEF s, x

LEMMA AuctionLocks ==
  ASSUME Unbounded, Room \in Rooms, now \in Int, NEW line \in Lines
  PROVE  LET r == Locked(line) IN
         /\ r \in Rooms /\ r.round.status = "live" /\ r.round.deadline = now + Live
         /\ r.round.number = round.number
         /\ TapeOk(r.tape, now, now) /\ Last(r.tape).yes = BookCents(r.book)
         /\ r.book.line = line
         /\ Unheld(r.book, r.es) = <<SeedLead(r.book.b, line), 0>>
         /\ \A p \in Entrant : /\ r.es[p].out = entrants[p].out
                               /\ entrants[p].out # StillIn => r.es[p].cash = entrants[p].cash
<1> DEFINE es == PlaceOpeningCalls(entrants, line)
           b == LiquidityFor(Cardinality(Entrant) * Vault)
           seed == SeedBook(line, b)
           y == SharesOn(es, "YES")
           n == SharesOn(es, "NO")
           mid == AddShares(seed, "YES", y)
           k == AddShares(mid, "NO", n)
           t == RecordTape(<<[at |-> now, yes |-> line]>>, now, BookCents(k), 0)
           d == now + Live
           round2 == [round EXCEPT !.status = "live", !.deadline = d]
           r == [Room EXCEPT !.round = round2, !.es = es, !.book = k, !.tape = t]
<1>1. line \in Int /\ d \in Int
  BY ConstantsAre
<1>2. /\ es \in [Entrant -> Ents]
      /\ \A p \in Entrant : /\ es[p].out = entrants[p].out
                            /\ entrants[p].out # StillIn => es[p].cash = entrants[p].cash
  BY <1>1, RoomIs, CallsPlaced
<1>3. y \in Nat /\ n \in Nat
  <2> HIDE DEF es
  <2> QED BY <1>2, SharesAreHeld, SidesDiffer
<1>4. b \in MinB..MaxB
  <2> DEFINE v == Cardinality(Entrant) * Vault
  <2>1. v \in Int
    <3>1. Cardinality(Entrant) \in Nat /\ Vault \in Nat
      BY EntrantsAre, FS_CardinalityType, ConstantsAre
    <3>2. QED
      BY <3>1
  <2> HIDE DEF v
  <2>2. QED
    BY <2>1, LiquidityIs DEF v
<1> HIDE DEF es, b, y, n, d
<1>5. seed \in Books /\ SeedLead(b, line) \in Int
  BY <1>1, <1>4, SeedIs
<1>6. seed.b = b /\ seed.yes = SeedLead(b, line) /\ seed.no = 0 /\ seed.line = line
  BY DEF SeedBook
<1> HIDE DEF seed
<1>7. /\ mid \in Books /\ mid.b = b /\ mid.line = line
      /\ mid.yes = seed.yes + y /\ mid.no = seed.no + 0
  <2>1. "YES" \in Side /\ y \in Int
    BY <1>3, SidesDiffer
  <2>2. /\ mid \in Books /\ mid.b = seed.b /\ mid.line = seed.line
        /\ mid.yes = seed.yes + IF "YES" = "YES" THEN y ELSE 0
        /\ mid.no = seed.no + IF "YES" = "NO" THEN y ELSE 0
    BY <1>5, <2>1, SharesAdded
  <2>3. QED
    BY <1>6, <2>2, SidesDiffer
<1> HIDE DEF mid
<1>8. /\ k \in Books /\ k.b = b /\ k.line = line
      /\ k.yes = mid.yes + 0 /\ k.no = mid.no + n
  <2>1. "NO" \in Side /\ n \in Int
    BY <1>3, SidesDiffer
  <2>2. /\ k \in Books /\ k.b = mid.b /\ k.line = mid.line
        /\ k.yes = mid.yes + IF "NO" = "YES" THEN n ELSE 0
        /\ k.no = mid.no + IF "NO" = "NO" THEN n ELSE 0
    BY <1>7, <2>1, SharesAdded
  <2>3. QED
    BY <1>7, <2>2, SidesDiffer
<1> HIDE DEF k
<1>9. BookCents(k) \in Int
  <2>1. \A x \in 1..99 : x \in Int
    OBVIOUS
  <2>2. QED
    BY <1>8, <2>1, CostsAre
<1>10. TapeOk(t, now, now) /\ Last(t).yes = BookCents(k)
  BY <1>1, <1>9, NewTape, TapeRecorded
<1> HIDE DEF t
<1>11. k.yes - SharesOn(es, "YES") = SeedLead(b, line) /\ k.no - SharesOn(es, "NO") = 0
  BY <1>3, <1>5, <1>6, <1>7, <1>8 DEF y, n
<1>12. /\ round2 \in Rounds /\ round2.status = "live" /\ round2.deadline = d
       /\ round2.number = round.number
  BY <1>1, RoomIs DEF Rounds
<1> HIDE DEF round2
<1>13. /\ r \in Rooms /\ r.round = round2 /\ r.es = es /\ r.book = k /\ r.tape = t
  <2>1. t \in Seq(Samples)
    BY <1>10 DEF TapeOk
  <2>2. QED
    BY <1>2, <1>8, <1>12, <2>1, RoomIs DEF Room, Rooms
<1>14. Locked(line) = r
  BY DEF Locked, Room, es, b, y, n, seed, mid, k, t, d, round2, AbsorbOpening
<1> HIDE DEF r
<1>15. QED
  BY <1>2, <1>8, <1>10, <1>11, <1>12, <1>13, <1>14 DEF Unheld, d

LEMMA CloseIs ==
  ASSUME Unbounded, NEW r \in Rooms, NEW end \in Int,
         TapeOk(r.tape, r.round.deadline - Live, end), NEW outcome
  PROVE  ClosePrice(r, outcome) \in Int
<1> DEFINE to == r.round.deadline
           from == to - ClosingWindow(Live)
           open == to - Live
           x == Twap(r.tape, from, to, BookCents(r.book))
<1>1. to \in Int /\ r.book \in Books
  BY DEF Rooms, Rounds
<1>2. open \in Int /\ from \in Int /\ open <= from /\ from <= to
  BY <1>1, ConstantsAre, WindowIs
<1>3. BookCents(r.book) \in Int
  <2>1. \A c \in 1..99 : c \in Int
    OBVIOUS
  <2>2. QED
    BY <1>1, <2>1, CostsAre
<1>4. x \in Int
  <2> HIDE DEF from, to, open
  <2>1. TapeOk(r.tape, open, end)
    BY DEF open, to
  <2>2. QED
    BY <1>1, <1>2, <1>3, <2>1, TwapNear
<1>5. ClosePrice(r, outcome) = IF outcome = "YES" THEN 100 ELSE IF outcome = "NO" THEN 0 ELSE x
  BY DEF ClosePrice
<1> HIDE DEF x
<1>6. QED
  BY <1>4, <1>5

(* A round settles: the pit is over, or the next round opens with nobody holding anything. *)
LEMMA BellRings ==
  ASSUME Unbounded, now \in Int, NEW r \in Rooms, r.round.status = "live", NEW end \in Int,
         TapeOk(r.tape, r.round.deadline - Live, end), NEW outcome
  PROVE  LET s == Settled(r, outcome) IN
         /\ s \in Rooms
         /\ \A p \in Entrant : r.es[p].out # StillIn => s.es[p].cash = r.es[p].cash
         /\ \/ s.round.status = "complete" /\ s.book.close = ClosePrice(r, outcome)
            \/ /\ s.round.status = "live" /\ s.round.number = r.round.number + 1
               /\ s.round.deadline = now + Live
               /\ TapeOk(s.tape, now, now) /\ Last(s.tape).yes = BookCents(s.book)
               /\ Unheld(s.book, s.es) = <<s.book.yes, 0>>
<1> DEFINE close == ClosePrice(r, outcome)
           number == r.round.number
           limit == IF outcome = "none" THEN r.round.limit ELSE number
           es == SettleVaults(r.es, close, number)
           k == [r.book EXCEPT !.close = close]
           round1 == [r.round EXCEPT !.limit = limit]
           done == [r EXCEPT !.book.close = close, !.round.limit = limit,
                             !.es = SettleVaults(@, close, number)]
           s == Settled(r, outcome)
<1>1. close \in Int
  BY CloseIs
<1>2. /\ r.round \in Rounds /\ number \in Nat \ {0} /\ r.round.limit \in Int /\ limit \in Int
      /\ r.book \in Books /\ r.es \in [Entrant -> Ents]
      /\ r.tape \in Seq(Samples) /\ r.botAt \in Int
  BY DEF Rooms, Rounds
<1> HIDE DEF close
<1>3. /\ es \in [Entrant -> Ents]
      /\ \A p \in Entrant : r.es[p].out # StillIn => es[p] = r.es[p]
  BY <1>1, <1>2, VaultsSettled
<1> HIDE DEF es, limit
<1>4. k \in Books /\ k.close = close /\ k.line = r.book.line /\ k.last = r.book.last
  BY <1>1, <1>2 DEF Books
<1>5. round1 \in Rounds /\ round1.status = "live" /\ round1.number = number
  BY <1>2 DEF Rounds
<1>6. /\ done \in Rooms /\ done.round = round1 /\ done.es = es /\ done.book = k
      /\ done.tape = r.tape /\ done.botAt = r.botAt
  <2> DEFINE rec == [round |-> round1, es |-> es, book |-> k, tape |-> r.tape, botAt |-> r.botAt]
             other == [r EXCEPT !.book.close = close, !.round.limit = limit, !.es = es]
  <2>1. DOMAIN r = {"round", "es", "book", "tape", "botAt"}
    BY DEF Rooms
  <2>2. other = rec
    <3>1. other = [[[r EXCEPT !.book = k] EXCEPT !.round = round1] EXCEPT !.es = es]
      BY <2>1 DEF k, round1
    <3> HIDE DEF other, k, round1
    <3>2. QED
      BY <2>1, <3>1
  <2>3. done = other
    BY <2>1 DEF es
  <2> HIDE DEF done, other, k, round1
  <2>4. rec \in Rooms
    BY <1>2, <1>3, <1>4, <1>5 DEF Rooms
  <2>5. QED
    BY <2>2, <2>3, <2>4
<1> HIDE DEF k, round1
<1>8. s = IF IsFinal(done.es, number, limit) THEN [done EXCEPT !.round.status = "complete"]
          ELSE NextRound(done)
  BY DEF Settled, close, limit
<1> HIDE DEF done, s
<1>9. CASE IsFinal(done.es, number, limit)
  <2> DEFINE round2 == [round1 EXCEPT !.status = "complete"]
             t == [done EXCEPT !.round = round2]
  <2>1. s = t
    BY <1>6, <1>8, <1>9
  <2>2. round2 \in Rounds /\ round2.status = "complete"
    BY <1>5 DEF Rounds
  <2> HIDE DEF round2
  <2>3. t \in Rooms /\ t.round = round2 /\ t.book = k /\ t.es = es
    BY <1>6, <2>2 DEF Rooms
  <2> HIDE DEF t
  <2>4. QED
    BY <1>3, <1>4, <2>1, <2>2, <2>3 DEF s, close
<1>10. CASE ~IsFinal(done.es, number, limit)
  <2> DEFINE alive == Alive(done.es)
             purse == [p \in alive |-> done.es[p].cash]
             v == SumFunction(purse)
             b == LiquidityFor(v)
             seed == SeedBook(done.book.close, b)
             h == [seed EXCEPT !.line = done.book.line, !.last = done.book.last]
             round2 == [done.round EXCEPT !.number = @ + 1, !.deadline = now + Live]
             fs == CarryOver(done.es)
             t == <<[at |-> now, yes |-> BookCents(h)]>>
             next == [round |-> round2, es |-> fs, book |-> h, tape |-> t, botAt |-> Never]
  <2>1. s = next
    BY <1>8, <1>10 DEF NextRound
  <2>2. b \in MinB..MaxB
    <3>1. alive \subseteq Entrant /\ IsFiniteSet(alive)
      <4>1. alive \subseteq Entrant
        BY <1>3, <1>6 DEF Alive
      <4>2. QED
        BY <4>1, EntrantsAre, FS_Subset
    <3>2. \A p \in alive : purse[p] \in Int
      BY <1>3, <1>6, <3>1, EntsAre
    <3>3. v = SumFunctionOnSet(purse, alive)
      BY DEF SumFunction, SumFunctionOnSet, FoldFunction
    <3> HIDE DEF purse, v, alive
    <3>4. v \in Int
      BY <3>1, <3>2, <3>3, SumInt
    <3>5. QED
      BY <3>4, LiquidityIs
  <2> HIDE DEF b
  <2>3. seed \in Books /\ seed.no = 0
    <3>1. seed \in Books
      BY <1>1, <1>4, <1>6, <2>2, SeedIs
    <3>2. QED
      BY <3>1 DEF SeedBook
  <2> HIDE DEF seed
  <2>4. h \in Books /\ h.no = 0
    <3>1. done.book.line \in Int /\ done.book.last \in Int
      BY <1>4, <1>6 DEF Books
    <3>2. QED
      BY <2>3, <3>1 DEF Books
  <2> HIDE DEF h
  <2>5. /\ fs \in [Entrant -> Ents]
        /\ \A p \in Entrant : fs[p].cash = es[p].cash
        /\ SharesOn(fs, "YES") = 0 /\ SharesOn(fs, "NO") = 0
    BY <1>3, <1>6, VaultsCarried
  <2> HIDE DEF fs
  <2>6. BookCents(h) \in Int
    <3>1. \A c \in 1..99 : c \in Int
      OBVIOUS
    <3>2. QED
      BY <2>4, <3>1, CostsAre
  <2>7. TapeOk(t, now, now) /\ Last(t).yes = BookCents(h)
    BY <2>6, NewTape
  <2> HIDE DEF t
  <2>8. /\ round2 \in Rounds /\ round2.status = "live" /\ round2.number = number + 1
        /\ round2.deadline = now + Live
    <3>1. now + Live \in Int /\ number + 1 \in Nat \ {0}
      BY <1>2, ConstantsAre
    <3>2. QED
      BY <1>5, <1>6, <3>1 DEF Rounds
  <2> HIDE DEF round2
  <2>9. next \in Rooms /\ next.round = round2 /\ next.es = fs /\ next.book = h /\ next.tape = t
    <3>1. Never \in Int
      BY ConstantsAre DEF Never
    <3>2. t \in Seq(Samples)
      BY <2>7 DEF TapeOk
    <3>3. QED
      BY <2>4, <2>5, <2>8, <3>1, <3>2 DEF Rooms
  <2> HIDE DEF next
  <2>10. Unheld(h, fs) = <<h.yes, 0>>
    <3>1. h.yes \in Int
      BY <2>4 DEF Books
    <3>2. h.yes - 0 = h.yes /\ h.no - 0 = 0
      BY <2>4, <3>1
    <3>3. QED
      BY <2>5, <3>2 DEF Unheld
  <2>11. QED
    BY <1>3, <2>1, <2>5, <2>7, <2>8, <2>9, <2>10 DEF s
<1>11. QED
  BY <1>9, <1>10

(* Between the bells a poll lets the bots trade, not in the last call, and records the price. *)
KeptRoom(r, s) ==
    /\ s.round = r.round /\ s.book.b = r.book.b /\ s.book.line = r.book.line
    /\ Unheld(s.book, s.es) = Unheld(r.book, r.es)
    /\ \A p \in Entrant : /\ s.es[p].out = r.es[p].out
                          /\ r.es[p].out # StillIn => s.es[p] = r.es[p]
    /\ now >= r.round.deadline - Cutoff => s.es = r.es

Moved(r, line, moves) ==
    LET told == [r EXCEPT !.book.last = line]
    IN IF BotsAct(r) THEN BotsMove(told, moves) ELSE told

Taped(r) ==
    IF now > r.round.deadline THEN r
    ELSE [r EXCEPT !.tape = RecordTape(@, now, BookCents(r.book), TapeGap)]

LEMMA PollIs ==
  ASSUME NEW r \in Rooms, NEW line, NEW outcome, NEW moves,
         Moved(r, line, moves).round = r.round
  PROVE  TickLive(r, line, outcome, moves) =
             IF now >= r.round.deadline THEN Settled(Taped(Moved(r, line, moves)), outcome)
             ELSE Taped(Moved(r, line, moves))
<1>1. TickLive(r, line, outcome, moves) =
         LET moved == Moved(r, line, moves)
             taped == IF now > r.round.deadline THEN moved
                      ELSE [moved EXCEPT
                              !.tape = RecordTape(@, now, BookCents(moved.book), TapeGap)]
         IN IF now >= r.round.deadline THEN Settled(taped, outcome) ELSE taped
  BY DEF TickLive, Moved
<1> DEFINE m == Moved(r, line, moves)
<1> HIDE DEF m
<1>2. m.round = r.round
  BY DEF m
<1>3. Taped(m) = IF now > r.round.deadline THEN m
                 ELSE [m EXCEPT !.tape = RecordTape(@, now, BookCents(m.book), TapeGap)]
  BY <1>2 DEF Taped
<1>4. QED
  BY <1>1, <1>3 DEF m

LEMMA RoomMoves ==
  ASSUME Unbounded, now \in Int, NEW r \in Rooms, NEW line \in Lines,
         NEW moves \in [Bot -> BotMoves]
  PROVE  LET m == Moved(r, line, moves) IN
         /\ m \in Rooms /\ KeptRoom(r, m) /\ m.tape = r.tape
         /\ now >= r.round.deadline - Cutoff => BookCents(m.book) = BookCents(r.book)
<1> DEFINE k == [r.book EXCEPT !.last = line]
           told == [r EXCEPT !.book = k]
           acted == [told EXCEPT !.botAt = now]
           m == Moved(r, line, moves)
<1>0. r.book \in Books /\ line \in Int /\ r.es \in [Entrant -> Ents]
  BY ConstantsAre DEF Rooms
<1>1. /\ k \in Books /\ k.b = r.book.b /\ k.line = r.book.line /\ k.yes = r.book.yes
      /\ k.no = r.book.no
  BY <1>0 DEF Books
<1>2. BookCents(k) = BookCents(r.book) /\ \A es : Unheld(k, es) = Unheld(r.book, es)
  BY <1>1 DEF BookCents, Lead, Unheld
<1> HIDE DEF k
<1>3. /\ told \in Rooms /\ told.round = r.round /\ told.es = r.es /\ told.book = k
      /\ told.tape = r.tape
  BY <1>1 DEF Rooms
<1>4. m = IF BotsAct(r) THEN BotsMove(told, moves) ELSE told
  BY DEF Moved, told, k
<1> HIDE DEF told
<1>5. CASE BotsAct(r)
  <2> DEFINE s == BotsMove(told, moves)
  <2>1. s \in Rooms /\ Shuffled(acted, s)
    BY <1>3, BotsMoveKeeps
  <2> HIDE DEF s
  <2>2. /\ acted.round = r.round /\ acted.es = r.es /\ acted.book = k /\ acted.tape = r.tape
    BY <1>3 DEF Rooms
  <2> HIDE DEF acted
  <2>3. ~(now >= r.round.deadline - Cutoff)
    <3>1. r.round.deadline \in Int
      BY DEF Rooms, Rounds
    <3>2. QED
      BY <1>5, <3>1, ConstantsAre DEF BotsAct
  <2>4. m = s
    BY <1>4, <1>5 DEF s
  <2> HIDE DEF m
  <2>5. /\ s.round = r.round /\ s.tape = r.tape /\ s.book.b = r.book.b /\ s.book.line = r.book.line
        /\ Unheld(s.book, s.es) = Unheld(r.book, r.es)
        /\ \A p \in Entrant : /\ s.es[p].out = r.es[p].out
                              /\ r.es[p].out # StillIn => s.es[p] = r.es[p]
    BY <1>1, <1>2, <2>1, <2>2 DEF Shuffled
  <2>6. KeptRoom(r, s)
    BY <2>3, <2>5 DEF KeptRoom
  <2>7. QED
    BY <2>1, <2>3, <2>4, <2>5, <2>6 DEF m
<1>6. CASE ~BotsAct(r)
  <2>1. m = told
    BY <1>4, <1>6
  <2> HIDE DEF m
  <2>2. KeptRoom(r, told)
    BY <1>1, <1>2, <1>3 DEF KeptRoom
  <2>3. QED
    BY <1>2, <1>3, <2>1, <2>2 DEF m
<1>7. QED
  BY <1>5, <1>6

LEMMA RoomTapes ==
  ASSUME Unbounded, now \in Int, NEW r \in Rooms, NEW open, TapeOk(r.tape, open, now)
  PROVE  LET s == Taped(r) IN
         /\ s \in Rooms /\ s.round = r.round /\ s.es = r.es /\ s.book = r.book
         /\ TapeOk(s.tape, open, now)
         /\ now <= r.round.deadline => Last(s.tape).yes = BookCents(r.book)
<1> DEFINE t == RecordTape(r.tape, now, BookCents(r.book), TapeGap)
           s == [r EXCEPT !.tape = t]
<1>1. BookCents(r.book) \in Int /\ r.book \in Books /\ r.round.deadline \in Int
  <2>1. \A c \in 1..99 : c \in Int
    OBVIOUS
  <2>2. r.book \in Books /\ r.round.deadline \in Int
    BY DEF Rooms, Rounds
  <2>3. QED
    BY <2>1, <2>2, CostsAre
<1>2. TapeOk(t, open, now) /\ Last(t).yes = BookCents(r.book)
  BY <1>1, ConstantsAre, TapeRecorded
<1> HIDE DEF t
<1>3. /\ s \in Rooms /\ s.round = r.round /\ s.es = r.es /\ s.book = r.book /\ s.tape = t
  BY <1>2 DEF Rooms, TapeOk
<1>4. Taped(r) = IF now > r.round.deadline THEN r ELSE s
  BY DEF Taped, t
<1> HIDE DEF s
<1>5. CASE now > r.round.deadline
  BY <1>1, <1>4, <1>5
<1>6. CASE ~(now > r.round.deadline)
  BY <1>2, <1>3, <1>4, <1>6
<1>7. QED
  BY <1>5, <1>6

LEMMA PollKeeps ==
  ASSUME Unbounded, now \in Int, NEW r \in Rooms, r.round.status = "live",
         TapeOk(r.tape, r.round.deadline - Live, now), NEW line \in Lines, NEW outcome,
         NEW moves \in [Bot -> BotMoves]
  PROVE  LET s == TickLive(r, line, outcome, moves) IN
         /\ s \in Rooms
         /\ \A p \in Entrant : r.es[p].out # StillIn => s.es[p].cash = r.es[p].cash
         /\ now < r.round.deadline =>
                /\ KeptRoom(r, s) /\ TapeOk(s.tape, r.round.deadline - Live, now)
                /\ Last(s.tape).yes = BookCents(s.book)
         /\ now >= r.round.deadline =>
                \/ /\ s.round.status = "complete"
                   /\ s.book.close = ClosePrice(Taped(Moved(r, line, moves)), outcome)
                \/ /\ s.round.status = "live" /\ s.round.number = r.round.number + 1
                   /\ TapeOk(s.tape, s.round.deadline - Live, now)
                   /\ Last(s.tape).yes = BookCents(s.book)
                   /\ Unheld(s.book, s.es) = <<s.book.yes, 0>>
<1> DEFINE m == Moved(r, line, moves)
           t == Taped(m)
           s == TickLive(r, line, outcome, moves)
           open == r.round.deadline - Live
<1>0. r.round.deadline \in Int /\ Live \in Int
  BY ConstantsAre DEF Rooms, Rounds
<1>1. m \in Rooms /\ KeptRoom(r, m) /\ m.tape = r.tape
  BY RoomMoves
<1>2. m.round = r.round
  BY <1>1 DEF KeptRoom
<1>3. s = IF now >= r.round.deadline THEN Settled(t, outcome) ELSE t
  BY <1>2, PollIs
<1> HIDE DEF m, s
<1>4. /\ t \in Rooms /\ t.round = m.round /\ t.es = m.es /\ t.book = m.book
      /\ TapeOk(t.tape, open, now)
      /\ now <= m.round.deadline => Last(t.tape).yes = BookCents(m.book)
  BY <1>1, RoomTapes
<1> HIDE DEF t
<1>5. KeptRoom(r, t)
  BY <1>1, <1>4 DEF KeptRoom
<1>6. \A p \in Entrant : r.es[p].out # StillIn => t.es[p] = r.es[p] /\ t.es[p].out # StillIn
  BY <1>5 DEF KeptRoom
<1>7. CASE now < r.round.deadline
  <2>1. s = t
    BY <1>0, <1>3, <1>7
  <2>2. ~(now >= r.round.deadline) /\ now <= m.round.deadline
    BY <1>0, <1>2, <1>7
  <2>3. QED
    BY <1>4, <1>5, <1>6, <2>1, <2>2 DEF s
<1>8. CASE ~(now < r.round.deadline)
  <2>1. s = Settled(t, outcome)
    BY <1>0, <1>3, <1>8
  <2>2. t.round.status = "live" /\ TapeOk(t.tape, t.round.deadline - Live, now)
    BY <1>2, <1>4
  <2> DEFINE z == Settled(t, outcome)
  <2>3. /\ z \in Rooms
        /\ \A p \in Entrant : t.es[p].out # StillIn => z.es[p].cash = t.es[p].cash
        /\ \/ z.round.status = "complete" /\ z.book.close = ClosePrice(t, outcome)
           \/ /\ z.round.status = "live" /\ z.round.number = t.round.number + 1
              /\ z.round.deadline = now + Live
              /\ TapeOk(z.tape, now, now) /\ Last(z.tape).yes = BookCents(z.book)
              /\ Unheld(z.book, z.es) = <<z.book.yes, 0>>
    BY <1>4, <2>2, BellRings
  <2> HIDE DEF z
  <2>4. s = z
    BY <2>1 DEF z
  <2>5. (now + Live) - Live = now
    BY <1>0
  <2>6. z.round.deadline = now + Live /\ TapeOk(z.tape, now, now)
            => TapeOk(z.tape, z.round.deadline - Live, now)
    BY <2>5
  <2>7. \A p \in Entrant : r.es[p].out # StillIn => z.es[p].cash = r.es[p].cash
    BY <1>6, <2>3
  <2>8. QED
    BY <1>2, <1>4, <1>8, <2>3, <2>4, <2>6, <2>7 DEF s, t, m
<1>9. QED
  BY <1>7, <1>8

-----------------------------------------------------------------------------
(* The steps. *)

Dollars == \A usdc \in Amounts : usdc >= 100

PriceShown == Trading => Last(tape).yes = BookCents(book)

BalanceKept ==
    Trading' => Unheld(book, entrants)' =
        IF ~Trading THEN <<SeedLead(book'.b, book'.line), 0>>
        ELSE IF round'.number = round.number THEN Unheld(book, entrants)
        ELSE <<book'.yes, 0>>

NothingCreated ==
    \A t \in trades \ trades' :
        /\ Worth(book', entrants'[t.wallet]) = Worth(book, entrants[t.wallet])
        /\ \A p \in Entrant \ {t.wallet} : entrants'[p] = entrants[p]

Froze ==
    \A p \in Entrant :
        /\ Frozen(p) /\ Trading' /\ round'.number = round.number => entrants'[p] = entrants[p]
        /\ entrants[p].out # StillIn => entrants'[p].cash = entrants[p].cash

Kept == PitInv' /\ BalanceKept /\ NothingCreated /\ Froze /\ (Dollars /\ PriceShown => PriceShown')

LEMMA NextRoomIs ==
  Room' \in Rooms <=> /\ round' \in Rounds /\ entrants' \in [Entrant -> Ents] /\ book' \in Books
                      /\ tape' \in Seq(Samples) /\ botAt' \in Int
BY DEF Room, Rooms

LEMMA MakersStart == ASSUME Unbounded, BookPitInit PROVE PitInv /\ PriceShown
<1> DEFINE e == MakeEntrant(Vault)
<1>1. e \in Ents
  BY ConstantsAre, SidesDiffer DEF MakeEntrant, Ents, EntRecords, StillIn
<1>2. entrants \in [Entrant -> Ents]
  <2> HIDE DEF e
  <2> QED BY <1>1 DEF BookPitInit, e
<1>3. round \in Rounds /\ round.status = "enrolling"
  <2>1. RoundLimit \in Int
    BY BookPitAssumption DEF BookPitAssumption
  <2>2. QED
    BY <2>1 DEF BookPitInit, Rounds
<1>4. book \in Books
  BY ConstantsAre DEF BookPitInit, NoBook, Books, NoClose
<1>5. tape \in Seq(Samples) /\ botAt \in Int /\ now \in Int /\ trades = {}
  BY ConstantsAre DEF BookPitInit, Never
<1>6. Room \in Rooms
  BY <1>2, <1>3, <1>4, <1>5, RoomIs
<1>7. QED
  BY <1>3, <1>5, <1>6 DEF PitInv, Trading, PriceShown

(* Nothing the room consists of changes; time may pass and a trade be asked for. *)
LEMMA RoomRests ==
  ASSUME PitInv, UNCHANGED <<round, entrants, book, tape, botAt>>, now' \in Int, now <= now',
         trades \subseteq trades', \A t \in trades' : TypedTrade(t)
  PROVE  Kept
<1>1. Room' \in Rooms
  BY NextRoomIs, RoomIs DEF PitInv
<1>2. Trading' => TapeOk(tape', round'.deadline - Live, now')
  <2> SUFFICES ASSUME Trading' PROVE TapeOk(tape', round'.deadline - Live, now')
    OBVIOUS
  <2>1. TapeOk(tape, round.deadline - Live, now) /\ now \in Int
    BY DEF Trading, PitInv
  <2>2. tape[Len(tape)].at \in Int
    <3>1. tape \in Seq(Samples) /\ tape # <<>>
      BY <2>1 DEF TapeOk
    <3>2. QED
      BY <3>1, TapesAre
  <2>3. QED
    BY <2>1, <2>2 DEF TapeOk
<1>3. PitInv'
  BY <1>1, <1>2 DEF PitInv, TypedTrade
<1>4. BalanceKept
  <2>1. Trading' <=> Trading
    BY DEF Trading
  <2>2. round'.number = round.number /\ Unheld(book, entrants)' = Unheld(book, entrants)
    BY DEF Unheld, SharesOn
  <2>3. QED
    BY <2>1, <2>2 DEF BalanceKept
<1>5. NothingCreated /\ Froze
  BY DEF NothingCreated, Froze
<1>6. PriceShown => PriceShown'
  BY DEF PriceShown, Trading, BookCents, Lead
<1>7. QED
  BY <1>3, <1>4, <1>5, <1>6 DEF Kept

LEMMA CallIsChanged ==
  ASSUME PitInv, NEW p \in Human, NEW call \in Side, NEW pct \in CallPcts, ChangeCall(p, call, pct)
  PROVE  Kept
<1> DEFINE f == [entrants[p] EXCEPT !.call = call, !.pct = pct]
<1>1. /\ round' = round /\ book' = book /\ tape' = tape /\ trades' = trades /\ botAt' = botAt
      /\ now' = now /\ entrants' = [entrants EXCEPT ![p] = f] /\ round.status = "enrolling"
  BY DEF ChangeCall, ChangeCallOf
<1>2. entrants \in [Entrant -> Ents] /\ p \in Entrant /\ entrants[p] \in Ents
  BY RoomIs, EntrantsAre DEF PitInv
<1>3. f \in Ents /\ f.cash = entrants[p].cash
  <2>1. pct \in Int
    <3>1. CallPcts \subseteq 1..100 /\ \A x \in 1..100 : x \in Int
      BY VaultsAssumption DEF VaultsAssumption
    <3>2. QED
      BY <3>1
  <2>2. \A e \in Ents : [e EXCEPT !.call = call, !.pct = pct] \in Ents
                        /\ [e EXCEPT !.call = call, !.pct = pct].cash = e.cash
    BY <2>1 DEF Ents, EntRecords
  <2>3. QED
    BY <1>2, <2>2
<1> HIDE DEF f
<1>4. /\ entrants' \in [Entrant -> Ents]
      /\ \A q \in Entrant : entrants'[q].cash = entrants[q].cash
  BY <1>1, <1>2, <1>3
<1>5. Room' \in Rooms
  BY <1>1, <1>4, RoomIs, NextRoomIs DEF PitInv
<1>6. ~Trading /\ ~Trading'
  BY <1>1 DEF Trading
<1>7. PitInv'
  BY <1>1, <1>5, <1>6 DEF PitInv, TypedTrade
<1>8. BalanceKept /\ NothingCreated /\ Froze /\ PriceShown'
  BY <1>1, <1>4, <1>6 DEF BalanceKept, NothingCreated, Froze, Frozen, PriceShown
<1>9. QED
  BY <1>7, <1>8 DEF Kept

LEMMA FillIs ==
  ASSUME Unbounded, Room \in Rooms, NEW t, TypedTrade(t)
  PROVE  LET fill == Fill(t)
             e == entrants[t.wallet]
         IN /\ Exchange(book, e, fill.book, fill.e)
            /\ ~Fillable(t) => fill.book = book /\ fill.e = e
            /\ fill.ok => Fillable(t)
            /\ Dollars /\ ~fill.ok => fill.book = book
<1> DEFINE e == entrants[t.wallet]
           fill == Fill(t)
           buy == BookBuy(book, e, t.side, t.usdc)
           sale == BookSell(book, e)
<1>1. t.wallet \in Entrant /\ e \in Ents /\ book \in Books
  BY RoomIs, EntrantsAre DEF TypedTrade
<1>2. Exchange(book, e, book, e)
  BY <1>1 DEF Exchange
<1>3. CASE fill = Unfilled(t.wallet)
  <2> HIDE DEF fill
  <2>1. fill.ok = FALSE /\ fill.book = book /\ fill.e = e
    BY <1>3 DEF Unfilled
  <2>2. QED
    BY <1>2, <2>1 DEF fill
<1>4. CASE Fillable(t) /\ t.action = "buy" /\ fill = buy
  <2>1. t.side \in Side /\ t.usdc \in Int /\ (Dollars => t.usdc >= 100)
    <3>1. t.side \in Side /\ t.usdc \in Amounts
      BY <1>4 DEF TypedTrade
    <3>2. t.usdc \in Nat
      BY <3>1, ConstantsAre
    <3>3. QED
      BY <3>1, <3>2 DEF Dollars
  <2>2. /\ Exchange(book, e, buy.book, buy.e)
        /\ t.usdc >= 100 /\ ~buy.ok => buy.book = book
    BY <1>1, <2>1, BuyExchanges
  <2> HIDE DEF fill, buy
  <2>3. QED
    BY <1>4, <2>1, <2>2 DEF fill
<1>5. CASE Fillable(t) /\ Holds(e) /\ fill = [ok |-> TRUE, book |-> sale.book, e |-> sale.e]
  <2>1. Exchange(book, e, sale.book, sale.e)
    BY <1>1, <1>5, SaleExchanges
  <2> HIDE DEF fill, sale
  <2>2. fill.ok = TRUE /\ fill.book = sale.book /\ fill.e = sale.e
    BY <1>5
  <2>3. QED
    BY <1>5, <2>1, <2>2 DEF fill
<1>6. QED
  BY <1>3, <1>4, <1>5 DEF Fill

LEMMA TradeIsFilled ==
  ASSUME Unbounded, PitInv, NEW t \in trades, TradeFills(t)
  PROVE  Kept
<1> DEFINE fill == Fill(t)
           p == t.wallet
           e == entrants[p]
           fs == [entrants EXCEPT ![p] = fill.e]
<1>1. /\ round' = round /\ botAt' = botAt /\ now' = now /\ trades' = trades \ {t}
      /\ book' = fill.book /\ entrants' = fs
      /\ tape' = IF fill.ok THEN RecordTape(tape, now, BookCents(fill.book), 0) ELSE tape
  BY DEF TradeFills
<1>2. TypedTrade(t) /\ Room \in Rooms /\ now \in Int
  BY DEF PitInv
<1>3. /\ Exchange(book, e, fill.book, fill.e)
      /\ ~Fillable(t) => fill.book = book /\ fill.e = e
      /\ fill.ok => Fillable(t)
      /\ Dollars /\ ~fill.ok => fill.book = book
  BY <1>2, FillIs
<1> HIDE DEF fill
<1>4. /\ p \in Entrant /\ entrants \in [Entrant -> Ents] /\ e \in Ents /\ book \in Books
      /\ fill.e \in Ents /\ fill.book \in Books
      /\ round \in Rounds /\ tape \in Seq(Samples) /\ botAt \in Int
  <2>1. /\ p \in Human /\ entrants \in [Entrant -> Ents] /\ book \in Books
        /\ round \in Rounds /\ tape \in Seq(Samples) /\ botAt \in Int
    BY <1>2, RoomIs DEF TypedTrade
  <2>2. fill.e \in Ents /\ fill.book \in Books
    <3> HIDE DEF p, e
    <3> QED BY <1>3 DEF Exchange
  <2>3. p \in Entrant
    BY <2>1, EntrantsAre
  <2>4. e \in Ents
    BY <2>1, <2>3
  <2>5. QED
    BY <2>1, <2>2, <2>3, <2>4
<1>5. fs \in [Entrant -> Ents] /\ Unheld(fill.book, fs) = Unheld(book, entrants)
  <2>1. Exchange(book, entrants[p], fill.book, fill.e)
    BY <1>3
  <2>2. fs = Replaced(entrants, p, fill.e)
    BY DEF Replaced
  <2> HIDE DEF p, e, fs
  <2>3. QED
    BY <1>4, <2>1, <2>2, UnheldKept
<1>6. \A q \in Entrant : fs[q] = IF q = p THEN fill.e ELSE entrants[q]
  BY <1>4
<1> HIDE DEF fs
<1>7. Trading' <=> Trading
  BY <1>1 DEF Trading
<1>8. Fillable(t) => /\ Trading /\ ~(now >= round.deadline - Cutoff) /\ e.out = StillIn
  <2>1. round.deadline \in Int
    BY <1>4 DEF Rounds
  <2>2. QED
    BY <1>2, <2>1, ConstantsAre DEF Fillable, TradingOpen
<1>9. BookCents(fill.book) \in Int
  <2>1. \A c \in 1..99 : c \in Int
    OBVIOUS
  <2>2. QED
    BY <1>4, <2>1, CostsAre
<1> DEFINE open == round.deadline - Live
           x == RecordTape(tape, now, BookCents(fill.book), 0)
<1>10. Trading => TapeOk(tape, open, now)
  BY DEF PitInv
<1>11. Trading => TapeOk(x, open, now) /\ Last(x).yes = BookCents(fill.book)
  BY <1>2, <1>9, <1>10, TapeRecorded
<1> HIDE DEF open, x
<1>12. tape' = IF fill.ok THEN x ELSE tape
  BY <1>1 DEF x
<1>13. (Trading => TapeOk(tape', open, now)) /\ tape' \in Seq(Samples)
  BY <1>3, <1>4, <1>8, <1>10, <1>11, <1>12 DEF TapeOk
<1>14. Room' \in Rooms
  BY <1>1, <1>4, <1>5, <1>13, NextRoomIs
<1>15. PitInv'
  <2>1. \A u \in trades' : TypedTrade(u)
    BY <1>1 DEF PitInv
  <2>2. Trading' => TapeOk(tape', round'.deadline - Live, now')
    BY <1>1, <1>7, <1>13 DEF open
  <2>3. QED
    BY <1>1, <1>2, <1>14, <2>1, <2>2 DEF PitInv, TypedTrade
<1>16. BalanceKept
  <2>1. Unheld(book, entrants)' = Unheld(fill.book, fs)
    BY <1>1 DEF Unheld, SharesOn
  <2>2. QED
    BY <1>1, <1>5, <1>7, <2>1 DEF BalanceKept
<1>17. NothingCreated
  <2>1. trades \ trades' = {t}
    BY <1>1
  <2>2. Worth(fill.book, fill.e) = Worth(book, e)
    BY <1>3 DEF Exchange
  <2>3. QED
    BY <1>1, <1>4, <1>6, <2>1, <2>2 DEF NothingCreated
<1>18. Froze
  <2> SUFFICES ASSUME NEW q \in Entrant, Frozen(q) \/ entrants[q].out # StillIn
               PROVE  entrants'[q] = entrants[q]
    BY DEF Froze
  <2>1. q = p => ~Fillable(t)
    BY <1>8 DEF Frozen
  <2>2. QED
    BY <1>1, <1>3, <1>6, <2>1
<1>19. Dollars /\ PriceShown => PriceShown'
  <2> SUFFICES ASSUME Dollars, PriceShown, Trading' PROVE Last(tape').yes = BookCents(book')
    BY DEF PriceShown
  <2>1. Trading
    BY <1>7
  <2>2. CASE fill.ok
    BY <1>1, <1>11, <1>12, <2>1, <2>2
  <2>3. CASE ~fill.ok
    BY <1>1, <1>3, <1>12, <2>1, <2>3 DEF PriceShown
  <2>4. QED
    BY <2>2, <2>3
<1>20. QED
  BY <1>15, <1>16, <1>17, <1>18, <1>19 DEF Kept

LEMMA RoomIsPolled ==
  ASSUME Unbounded, PitInv, NEW line \in Lines, NEW outcome, NEW moves \in [Bot -> BotMoves],
         Poll(line, outcome, moves)
  PROVE  Kept
<1> DEFINE r == IF Trading THEN Room ELSE Locked(line)
           s == TickLive(r, line, outcome, moves)
<1>1. /\ round' = s.round /\ entrants' = s.es /\ book' = s.book /\ tape' = s.tape
      /\ botAt' = s.botAt /\ trades' = trades /\ now' = now /\ round.status # "complete"
  BY DEF Poll
<1>2. /\ Room \in Rooms /\ now \in Int /\ round \in Rounds
      /\ Trading => TapeOk(tape, round.deadline - Live, now)
  BY RoomIs DEF PitInv
<1>3. /\ r \in Rooms /\ r.round.status = "live" /\ TapeOk(r.tape, r.round.deadline - Live, now)
      /\ r.round.number = round.number
      /\ Trading => r.round = round /\ r.es = entrants /\ r.book = book
      /\ ~Trading => /\ now < r.round.deadline
                     /\ Unheld(r.book, r.es) = <<SeedLead(r.book.b, r.book.line), 0>>
      /\ \A p \in Entrant : /\ r.es[p].out = entrants[p].out
                            /\ entrants[p].out # StillIn => r.es[p].cash = entrants[p].cash
  <2>1. CASE Trading
    <3>1. r = Room
      BY <2>1
    <3> HIDE DEF r
    <3>2. r.round = round /\ r.es = entrants /\ r.book = book /\ r.tape = tape
      BY <3>1, RoomIs
    <3>3. QED
      BY <1>2, <2>1, <3>1, <3>2 DEF Trading
  <2>2. CASE ~Trading
    <3> DEFINE q == Locked(line)
    <3>1. r = q
      BY <2>2
    <3>2. /\ q \in Rooms /\ q.round.status = "live" /\ q.round.deadline = now + Live
          /\ q.round.number = round.number
          /\ TapeOk(q.tape, now, now)
          /\ q.book.line = line
          /\ Unheld(q.book, q.es) = <<SeedLead(q.book.b, line), 0>>
          /\ \A p \in Entrant : /\ q.es[p].out = entrants[p].out
                                /\ entrants[p].out # StillIn => q.es[p].cash = entrants[p].cash
      BY <1>2, AuctionLocks
    <3> HIDE DEF r, q
    <3>3. (now + Live) - Live = now /\ now < now + Live
      BY <1>2, ConstantsAre
    <3>4. QED
      BY <2>2, <3>1, <3>2, <3>3
  <2>3. QED
    BY <2>1, <2>2
<1> HIDE DEF r
<1>4. /\ s \in Rooms
      /\ \A p \in Entrant : r.es[p].out # StillIn => s.es[p].cash = r.es[p].cash
      /\ now < r.round.deadline =>
             /\ KeptRoom(r, s) /\ TapeOk(s.tape, r.round.deadline - Live, now)
             /\ Last(s.tape).yes = BookCents(s.book)
      /\ now >= r.round.deadline =>
             \/ s.round.status = "complete"
             \/ /\ s.round.status = "live" /\ s.round.number = r.round.number + 1
                /\ TapeOk(s.tape, s.round.deadline - Live, now)
                /\ Last(s.tape).yes = BookCents(s.book)
                /\ Unheld(s.book, s.es) = <<s.book.yes, 0>>
  BY <1>2, <1>3, PollKeeps
<1> HIDE DEF s
<1>5. r.round.deadline \in Int /\ r.round.number \in Nat /\ r.round \in Rounds
  BY <1>3 DEF Rooms, Rounds
<1>6. Room' \in Rooms
  BY <1>1, <1>4, NextRoomIs DEF Rooms
<1>7. Trading' <=> s.round.status = "live"
  BY <1>1 DEF Trading
<1>8. Unheld(book, entrants)' = Unheld(s.book, s.es)
  BY <1>1 DEF Unheld, SharesOn
<1>9. s.round.status = "live" =>
          TapeOk(s.tape, s.round.deadline - Live, now) /\ Last(s.tape).yes = BookCents(s.book)
  BY <1>2, <1>4, <1>5 DEF KeptRoom
<1>10. PitInv'
  BY <1>1, <1>2, <1>6, <1>7, <1>9 DEF PitInv, TypedTrade
<1>11. PriceShown'
  BY <1>1, <1>7, <1>9 DEF PriceShown
<1>12. NothingCreated
  BY <1>1 DEF NothingCreated
<1>13. BalanceKept
  <2> SUFFICES ASSUME Trading'
               PROVE  Unheld(s.book, s.es) =
                          IF ~Trading THEN <<SeedLead(s.book.b, s.book.line), 0>>
                          ELSE IF s.round.number = round.number THEN Unheld(book, entrants)
                          ELSE <<s.book.yes, 0>>
    BY <1>1, <1>8 DEF BalanceKept
  <2>1. CASE now < r.round.deadline
    BY <1>3, <1>4, <2>1 DEF KeptRoom
  <2>2. CASE ~(now < r.round.deadline)
    <3>1. Trading /\ now >= r.round.deadline /\ s.round.status = "live"
      BY <1>2, <1>3, <1>5, <1>7, <2>2
    <3>2. s.round.number = round.number + 1 /\ Unheld(s.book, s.es) = <<s.book.yes, 0>>
      BY <1>3, <1>4, <3>1
    <3>3. s.round.number # round.number
      BY <1>3, <1>5, <3>2
    <3>4. QED
      BY <3>1, <3>2, <3>3
  <2>3. QED
    BY <2>1, <2>2
<1>14. Froze
  <2>1. ASSUME NEW p \in Entrant, entrants[p].out # StillIn
        PROVE  s.es[p].cash = entrants[p].cash
    BY <1>3, <1>4, <2>1
  <2>2. ASSUME NEW p \in Entrant, Frozen(p), Trading', s.round.number = round.number
        PROVE  s.es[p] = entrants[p]
    <3>1. Trading /\ (entrants[p].out # StillIn \/ now >= round.deadline - Cutoff)
      BY <2>2 DEF Frozen
    <3>2. now < r.round.deadline
      <4>1. s.round.number # r.round.number + 1
        BY <1>3, <1>5, <2>2
      <4>2. QED
        BY <1>2, <1>4, <1>5, <1>7, <2>2, <4>1
    <3>3. QED
      BY <1>3, <1>4, <3>1, <3>2 DEF KeptRoom
  <2>3. QED
    BY <1>1, <2>1, <2>2 DEF Froze
<1>15. QED
  BY <1>10, <1>11, <1>12, <1>13, <1>14 DEF Kept

(* What the bell reads: the tape as it was, but for a sample of the bell's own moment, and the
   price in force again. *)
LEMMA BellReads ==
  ASSUME NEW s, NEW open \in Int, NEW end \in Int, TapeOk(s, open, end),
         NEW from \in Int, NEW to \in Int, open <= from, NEW x \in Samples, x.at >= to
  PROVE  /\ Prices(Append(s, x), from, to) = Prices(s, from, to)
         /\ \A yes : Last(s).yes = yes => [s EXCEPT ![Len(s)].yes = yes] = s
<1> DEFINE n == Len(s)
           more == Append(s, x)
<1>1. s \in Seq(Samples) /\ s # <<>>
  BY DEF TapeOk
<1>2. /\ DOMAIN s = 1..n /\ n \in Nat \ {0} /\ Last(s) = s[n] /\ x.at \in Int
      /\ \A i \in 1..n : s[i] \in Samples
  BY <1>1, TapesAre DEF Samples
<1>3. DOMAIN more = 1..(n + 1) /\ more[n + 1] = x /\ \A i \in 1..n : more[i] = s[i]
  BY <1>1
<1> HIDE DEF n, more
<1>4. ASSUME NEW t \in from..(to - 1)
      PROVE  more[LastBy(more, t)].yes = s[LastBy(s, t)].yes
  <2>1. t \in Int /\ open <= t /\ ~(x.at <= t)
    BY <1>2
  <2>2. {i \in DOMAIN more : more[i].at <= t} = {i \in DOMAIN s : s[i].at <= t}
    <3>1. DOMAIN more = DOMAIN s \cup {n + 1} /\ n + 1 \notin DOMAIN s
      BY <1>2, <1>3
    <3>2. \A i \in DOMAIN s : more[i] = s[i]
      BY <1>2, <1>3
    <3>3. QED
      BY <1>3, <2>1, <3>1, <3>2
  <2>3. LastBy(more, t) = LastBy(s, t)
    BY <2>2 DEF LastBy
  <2>4. LastBy(s, t) \in DOMAIN s
    BY <2>1, LastByIs
  <2>5. QED
    BY <1>2, <1>3, <2>3, <2>4
<1>5. Prices(more, from, to) = Prices(s, from, to)
  BY <1>4 DEF Prices
<1>6. ASSUME NEW yes, Last(s).yes = yes PROVE [s EXCEPT ![n].yes = yes] = s
  <2> DEFINE z == [s EXCEPT ![n].yes = yes]
  <2>1. n \in DOMAIN s /\ s[n] \in Samples /\ s[n].yes = yes
    BY <1>2, <1>6
  <2>2. [s[n] EXCEPT !.yes = yes] = s[n]
    BY <2>1 DEF Samples
  <2>3. z = [s EXCEPT ![n] = [s[n] EXCEPT !.yes = yes]]
    OBVIOUS
  <2>4. \A i \in DOMAIN s : z[i] = s[i]
    BY <2>1, <2>2, <2>3
  <2>5. DOMAIN z = DOMAIN s /\ z = [i \in DOMAIN s |-> z[i]] /\ s = [i \in DOMAIN s |-> s[i]]
    BY <1>1
  <2> HIDE DEF z
  <2>6. z = s
    BY <2>4, <2>5
  <2>7. QED
    BY <2>6 DEF z
<1>7. QED
  BY <1>5, <1>6 DEF n, more

AverageKept ==
    LET from == round.deadline - ClosingWindow(Live)
        span == round.deadline - from
        area == SumFunction([t \in from..(round.deadline - 1) |-> PriceAt(t)])
    IN Trading /\ round'.status = "complete" /\ book'.close \in 1..99 /\ Len(tape) < TapeMax =>
           Distance(2 * span * book'.close, 2 * area) <= span

LEMMA BellAverages ==
  ASSUME Unbounded, PitInv, PriceShown, NEW line \in Lines, NEW outcome,
         NEW moves \in [Bot -> BotMoves], Poll(line, outcome, moves)
  PROVE  AverageKept
<1> DEFINE to == round.deadline
           from == to - ClosingWindow(Live)
           open == to - Live
           m == Moved(Room, line, moves)
           q == Taped(m)
           s == TickLive(Room, line, outcome, moves)
           f == Prices(tape, from, to)
           area == SumFunctionOnSet(f, from..(to - 1))
<1> SUFFICES ASSUME Trading, round'.status = "complete", book'.close \in 1..99, Len(tape) < TapeMax
             PROVE  Distance(2 * (to - from) * book'.close, 2 * area) <= to - from
  <2>1. [t \in from..(to - 1) |-> PriceAt(t)] = f
    BY DEF PriceAt, Prices, LastBy
  <2>2. SumFunction(f) = area
    <3>1. DOMAIN f = from..(to - 1)
      BY DEF Prices
    <3> HIDE DEF f
    <3>2. SumFunction(f) = SumFunctionOnSet(f, DOMAIN f)
      BY DEF SumFunction, SumFunctionOnSet, FoldFunction
    <3>3. QED
      BY <3>1, <3>2
  <2> HIDE DEF f, area
  <2>3. QED
    BY <2>1, <2>2 DEF AverageKept
<1>1. /\ Room \in Rooms /\ now \in Int /\ TapeOk(tape, open, now)
      /\ Last(tape).yes = BookCents(book)
      /\ Room.round = round /\ Room.book = book /\ Room.tape = tape /\ round.status = "live"
  BY RoomIs DEF PitInv, PriceShown, Trading
<1>2. to \in Int /\ from \in Int /\ open \in Int /\ open <= from /\ from <= to
  <2>1. to \in Int
    BY <1>1, RoomIs DEF Rounds
  <2>2. QED
    BY <2>1, ConstantsAre, WindowIs
<1>3. round' = s.round /\ book' = s.book
  BY DEF Poll
<1>4. now >= to /\ book'.close = ClosePrice(q, outcome)
  <2>1. TapeOk(Room.tape, Room.round.deadline - Live, now) /\ Room.round.status = "live"
    BY <1>1
  <2>2. /\ now < Room.round.deadline => KeptRoom(Room, s)
        /\ now >= Room.round.deadline =>
               \/ s.round.status = "complete" /\ s.book.close = ClosePrice(q, outcome)
               \/ s.round.status = "live"
    BY <1>1, <2>1, PollKeeps
  <2> HIDE DEF s, q
  <2>3. ~(now < Room.round.deadline)
    BY <1>1, <1>3, <2>2 DEF KeptRoom
  <2>4. now >= Room.round.deadline
    BY <1>1, <1>2, <2>3
  <2>5. QED
    BY <1>1, <1>3, <2>2, <2>4
<1>5. /\ m \in Rooms /\ m.round = round /\ m.tape = tape /\ BookCents(m.book) = BookCents(book)
  <2>1. now >= Room.round.deadline - Cutoff
    BY <1>1, <1>2, <1>4, ConstantsAre
  <2>2. /\ m \in Rooms /\ KeptRoom(Room, m) /\ m.tape = Room.tape
        /\ BookCents(m.book) = BookCents(Room.book)
    BY <1>1, <2>1, RoomMoves
  <2>3. m.round = Room.round
    BY <2>2 DEF KeptRoom
  <2>4. QED
    BY <1>1, <2>2, <2>3
<1> HIDE DEF m, s
<1>6. q \in Rooms /\ q.round = round /\ TapeOk(q.tape, open, now)
  BY <1>1, <1>5, RoomTapes
<1>7. Prices(q.tape, from, to) = f
  <2>1. CASE now > to
    <3>1. q = m
      BY <1>5, <2>1 DEF Taped
    <3> HIDE DEF q
    <3>2. QED
      BY <1>5, <3>1
  <2>2. CASE ~(now > to)
    <3> DEFINE x == [at |-> now, yes |-> BookCents(book)]
    <3>1. x \in Samples /\ x.at >= to
      <4>1. \A c \in 1..99 : c \in Int
        OBVIOUS
      <4>2. BookCents(m.book) \in 1..99
        <5>1. m.book \in Books
          BY <1>5 DEF Rooms
        <5>2. QED
          BY <5>1, CostsAre
      <4>3. QED
        BY <1>1, <1>4, <1>5, <4>1, <4>2 DEF Samples
    <3>2. q.tape = RecordTape(tape, now, BookCents(book), TapeGap)
      <4>1. q = [m EXCEPT !.tape = RecordTape(@, now, BookCents(m.book), TapeGap)]
        BY <1>5, <2>2 DEF Taped
      <4>2. q = [m EXCEPT !.tape = RecordTape(tape, now, BookCents(book), TapeGap)]
        BY <1>5, <4>1
      <4> HIDE DEF q
      <4>3. QED
        BY <1>5, <4>2 DEF Rooms
    <3>3. /\ Prices(Append(tape, x), from, to) = f
          /\ [tape EXCEPT ![Len(tape)].yes = BookCents(book)] = tape
      <4> HIDE DEF x
      <4> QED BY <1>1, <1>2, <3>1, BellReads
    <3>4. Thinned(Append(tape, x)) = Append(tape, x)
      <4>1. tape \in Seq(Samples) /\ Len(tape) \in Nat
        BY <1>1 DEF TapeOk
      <4> HIDE DEF x
      <4>2. Len(Append(tape, x)) <= TapeMax
        <5>1. Len(Append(tape, x)) = Len(tape) + 1
          BY <3>1, <4>1
        <5>2. TapeMax \in Nat
          BY RoomBookAssumption DEF RoomBookAssumption
        <5>3. QED
          BY <4>1, <5>1, <5>2
      <4>3. QED
        BY <4>2 DEF Thinned
    <3>5. \/ q.tape = [tape EXCEPT ![Len(tape)].yes = BookCents(book)]
          \/ q.tape = Thinned(Append(tape, x))
      BY <3>2 DEF RecordTape
    <3> HIDE DEF x, q, f
    <3>6. QED
      BY <3>3, <3>4, <3>5 DEF f
  <2>3. QED
    BY <2>1, <2>2
<1> HIDE DEF q
<1>8. /\ Twap(q.tape, from, to, BookCents(q.book)) = book'.close
  <2>1. \A y \in 1..99 : y # 100 /\ y # 0
    OBVIOUS
  <2>2. outcome # "YES" /\ outcome # "NO"
    BY <1>4, <2>1 DEF ClosePrice
  <2>3. ClosePrice(q, outcome) = Twap(q.tape, q.round.deadline - ClosingWindow(Live),
                                      q.round.deadline, BookCents(q.book))
    BY <2>2 DEF ClosePrice
  <2>4. QED
    BY <1>4, <1>6, <2>3
<1>9. BookCents(q.book) \in Int
  <2>1. \A c \in 1..99 : c \in Int
    OBVIOUS
  <2>2. q.book \in Books
    BY <1>6 DEF Rooms
  <2>3. QED
    BY <2>1, <2>2, CostsAre
<1> DEFINE tw == Twap(q.tape, from, to, BookCents(q.book))
           pr == Prices(q.tape, from, to)
<1>10. Distance(2 * (to - from) * tw, 2 * SumFunctionOnSet(pr, from..(to - 1))) <= to - from
  <2> HIDE DEF from, to, open
  <2> QED BY <1>1, <1>2, <1>6, <1>9, TwapNear
<1>11. tw = book'.close /\ pr = f
  BY <1>7, <1>8
<1> HIDE DEF tw, pr, f, from, to
<1>12. QED
  BY <1>10, <1>11

LEMMA StepKeeps ==
  ASSUME Unbounded, PitInv, [BookPitNext]_bookPitVars
  PROVE  Kept /\ (PriceShown => AverageKept)
<1>1. ASSUME round' = round, ~Trading \/ round.status = "live" PROVE AverageKept
  BY <1>1 DEF AverageKept, Trading
<1>2. ASSUME NEW p \in Human, NEW call \in Side, NEW pct \in CallPcts, ChangeCall(p, call, pct)
      PROVE  Kept /\ (PriceShown => AverageKept)
  <2>1. Kept
    BY <1>2, CallIsChanged
  <2>2. round' = round
    BY <1>2 DEF ChangeCall
  <2>3. QED
    BY <1>1, <2>1, <2>2 DEF Trading
<1>3. ASSUME NEW p \in Human, NEW action \in {"buy", "sell"}, NEW side, NEW usdc,
             action = "buy" => side \in Side /\ usdc \in Amounts,
             TradePeeks(p, action, side, usdc)
      PROVE  Kept /\ (PriceShown => AverageKept)
  <2> DEFINE t == [wallet |-> p, action |-> action, side |-> side, usdc |-> usdc,
                   quoted |-> BookCents(book), number |-> round.number]
  <2>1. /\ UNCHANGED <<round, entrants, book, tape, botAt, now>> /\ trades' = trades \cup {t}
    BY <1>3 DEF TradePeeks
  <2>2. TypedTrade(t)
    BY <1>3 DEF TypedTrade
  <2> HIDE DEF t
  <2>3. trades \subseteq trades' /\ \A u \in trades' : TypedTrade(u)
    BY <2>1, <2>2 DEF PitInv
  <2>4. UNCHANGED <<round, entrants, book, tape, botAt>> /\ now' \in Int /\ now <= now'
    BY <2>1 DEF PitInv
  <2>5. Kept
    BY <2>3, <2>4, RoomRests
  <2>6. QED
    BY <1>1, <2>1, <2>5 DEF Trading
<1>4. ASSUME NEW t \in trades, TradeFills(t) PROVE Kept /\ (PriceShown => AverageKept)
  <2>1. Kept
    BY <1>4, TradeIsFilled
  <2>2. round' = round
    BY <1>4 DEF TradeFills
  <2>3. QED
    BY <1>1, <2>1, <2>2 DEF Trading
<1>5. ASSUME NEW line \in Lines, NEW outcome \in Outcomes, NEW moves \in Moves,
             Poll(line, outcome, moves)
      PROVE  Kept /\ (PriceShown => AverageKept)
  <2>1. moves \in [Bot -> BotMoves]
    <3>1. "hold" \in BotMoves
      BY DEF BotMoves
    <3>2. [p \in Bot |-> "hold"] \in [Bot -> BotMoves]
      BY <3>1
    <3>3. moves \in [Bot -> BotMoves] \/ moves = [p \in Bot |-> "hold"]
      BY DEF Moves
    <3>4. QED
      BY <3>2, <3>3
  <2>2. Kept
    BY <1>5, <2>1, RoomIsPolled
  <2>3. PriceShown => AverageKept
    BY <1>5, <2>1, BellAverages
  <2>4. QED
    BY <2>2, <2>3
<1>6. CASE PassTime
  <2>1. /\ UNCHANGED <<round, entrants, book, tape, trades, botAt>> /\ now' = now + 1
    BY <1>6 DEF PassTime
  <2>2. now' \in Int /\ now <= now'
    BY <2>1 DEF PitInv
  <2>3. trades \subseteq trades' /\ \A u \in trades' : TypedTrade(u)
    BY <2>1 DEF PitInv
  <2>4. Kept
    BY <2>1, <2>2, <2>3, RoomRests
  <2>5. QED
    BY <1>1, <2>1, <2>4 DEF Trading
<1>7. CASE UNCHANGED bookPitVars
  <2>1. /\ UNCHANGED <<round, entrants, book, tape, trades, botAt, now>>
    BY <1>7 DEF bookPitVars
  <2>2. now' \in Int /\ now <= now'
    BY <2>1 DEF PitInv
  <2>3. trades \subseteq trades' /\ \A u \in trades' : TypedTrade(u)
    BY <2>1 DEF PitInv
  <2>4. Kept
    BY <2>1, <2>2, <2>3, RoomRests
  <2>5. QED
    BY <1>1, <2>1, <2>4 DEF Trading
<1>8. CASE BookPitNext
  <2>1. CASE \E p \in Human, call \in Side, pct \in CallPcts : ChangeCall(p, call, pct)
    BY <1>2, <2>1
  <2>2. CASE \E p \in Human, usdc \in Amounts, side \in Side : TradePeeks(p, "buy", side, usdc)
    <3>1. PICK p \in Human, usdc \in Amounts, side \in Side : TradePeeks(p, "buy", side, usdc)
      BY <2>2
    <3>2. QED
      BY <1>3, <3>1
  <2>3. CASE \E p \in Human : TradePeeks(p, "sell", NoSide, 0)
    <3>1. PICK p \in Human : TradePeeks(p, "sell", NoSide, 0)
      BY <2>3
    <3>2. QED
      BY <1>3, <3>1
  <2>4. CASE \E t \in trades : TradeFills(t)
    BY <1>4, <2>4
  <2>5. CASE \E line \in Lines, outcome \in Outcomes, moves \in Moves : Poll(line, outcome, moves)
    BY <1>5, <2>5
  <2>6. QED
    BY <1>6, <1>8, <2>1, <2>2, <2>3, <2>4, <2>5 DEF BookPitNext
<1>9. QED
  BY <1>7, <1>8

(* What is always so of the room and its book: money, shares and prices are whole numbers, nobody
   holds shares on no side, and a live round's tape runs from its opening, in order. *)
THEOREM PitInvariant == ASSUME Unbounded PROVE BookPitSpec => []PitInv
<1>1. BookPitInit => PitInv
  BY MakersStart
<1>2. PitInv /\ [BookPitNext]_bookPitVars => PitInv'
  BY StepKeeps DEF Kept
<1>3. QED
  BY <1>1, <1>2, PTL DEF BookPitSpec

(* The book has out what the players hold on top of its seed, for any number of players, bots,
   amounts, calls and rounds, and whatever the tables of the scoring rule say. *)
THEOREM BooksAlwaysBalance == ASSUME Unbounded PROVE BookPitSpec => BookBalances
<1>1. PitInv /\ [BookPitNext]_bookPitVars => [BalanceKept]_bookPitVars
  BY StepKeeps DEF Kept
<1>2. QED
  BY <1>1, PitInvariant, PTL DEF BookPitSpec, BookBalances, BalanceKept

(* A player's own trade leaves the vault worth what it was, and the others' vaults alone. *)
THEOREM TradesNeverCreate == ASSUME Unbounded PROVE BookPitSpec => TradesCreateNothing
<1>1. PitInv /\ [BookPitNext]_bookPitVars => [NothingCreated]_bookPitVars
  BY StepKeeps DEF Kept
<1>2. QED
  BY <1>1, PitInvariant, PTL DEF BookPitSpec, TradesCreateNothing, NothingCreated

(* No position changes in the last call, and who was cut keeps the vault of that moment. *)
THEOREM PositionsAlwaysFreeze == ASSUME Unbounded PROVE BookPitSpec => PositionsFreeze
<1>1. PitInv /\ [BookPitNext]_bookPitVars => [Froze]_bookPitVars
  BY StepKeeps DEF Kept
<1>2. QED
  BY <1>1, PitInvariant, PTL DEF BookPitSpec, PositionsFreeze, Froze

(* The tape of a live round ends with the price in force, and the round settles at the average
   of its closing period, when a trade is at least a dollar: a smaller one may sell the other
   side and then buy no whole share. *)
THEOREM AveragesAlwaysTrue ==
  ASSUME Unbounded, Dollars PROVE BookPitSpec => SettledAtTheAverage
<1> DEFINE Shown == [](PitInv /\ PriceShown)
<1>1. BookPitInit => PitInv /\ PriceShown
  BY MakersStart
<1>2. PitInv /\ PriceShown /\ [BookPitNext]_bookPitVars => PitInv' /\ PriceShown'
  BY StepKeeps DEF Kept
<1>3. PitInv /\ PriceShown /\ [BookPitNext]_bookPitVars
          => [AverageKept /\ (Trading' => Last(tape').yes = BookCents(book'))]_bookPitVars
  BY StepKeeps DEF Kept, PriceShown
<1>4. BookPitSpec => Shown
  BY <1>1, <1>2, PTL DEF BookPitSpec
<1>5. QED
  BY <1>3, <1>4, PTL DEF BookPitSpec, SettledAtTheAverage, AverageKept
=============================================================================
