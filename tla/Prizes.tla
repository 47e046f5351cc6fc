------------------------------- MODULE Prizes -------------------------------
(***************************************************************************)
(* One arena's money from the final result to the entitlements: the round  *)
(* completes and awards the prizes (settle and settlePredictions in        *)
(* lib/royale.ts), then the settle route divides what is in the escrow.    *)
(* Player i is the human who finished i-th; bots never take a place.       *)
(***************************************************************************)
EXTENDS Payouts

CONSTANTS
    MaxPlayers,      \* bound on the seats of an arena
    EntryFees,       \* entries an arena may charge
    VaultAmounts,    \* trading vaults an arena may charge
    HostFeePcts,     \* host fees a request may ask for
    Scores,          \* scores of a predictions round
    CashAmounts      \* vault values a player may finish with

ASSUME PrizesAssumption ==
    /\ MaxPlayers \in Nat
    /\ EntryFees \subseteq Nat
    /\ VaultAmounts \subseteq Nat
    /\ HostFeePcts \subseteq Int
    /\ Scores \subseteq Nat
    /\ CashAmounts \subseteq Nat

VARIABLES
    stage,     \* "live", "complete" (prizes awarded), "shared" (entitlements computed)
    arena,     \* what the arena was opened with, and how many players paid in
    score,     \* score[i] in a predictions round; <<>> in the other formats
    hostFee, prize,
    cash,      \* cash[i]: the vault player i finished with
    pot, share \* what settlement divides, and each remaining player's part of it

payVars == <<stage, arena, score, hostFee, prize, cash, pot, share>>

Players == 1..arena.players
Pool == arena.players * arena.entry

PayInit ==
    /\ stage = "live"
    /\ arena \in [players : 1..MaxPlayers, entry : EntryFees, vault : VaultAmounts,
                  hostFeePct : HostFeePcts, host : 0..MaxPlayers]
    /\ arena.host <= arena.players  \* 0: the host took no seat
    /\ score = <<>> /\ prize = <<>> /\ cash = <<>> /\ share = <<>>
    /\ hostFee = 0 /\ pot = 0

(* takeHostFee: only a seated host earns the fee. *)
HostFee == IF arena.host = 0 THEN 0 ELSE HostFeeOf(Pool, arena.hostFeePct)

FinalCash == [Players -> CashAmounts]

Rankings == {s \in [Players -> Scores] : \A i, j \in Players : i < j => s[i] >= s[j]}

(* settle, at the final round *)
Settle ==
    /\ stage = "live"
    /\ stage' = "complete"
    /\ hostFee' = HostFee
    /\ prize' = ComputePayouts(Pool - HostFee, arena.players, arena.players)
    /\ cash' \in FinalCash
    /\ UNCHANGED <<arena, score, pot, share>>

(* settlePredictions: nobody trades, so every vault is worth the same *)
SettlePredictions ==
    /\ stage = "live"
    /\ stage' = "complete"
    /\ score' \in Rankings
    /\ hostFee' = HostFee
    /\ prize' = ComputeGroupPayouts(Pool - HostFee, score', arena.players)
    /\ cash' = [i \in Players |-> arena.vault]
    /\ UNCHANGED <<arena, pot, share>>

(* The host is paid the fee in its own seat. *)
PrizeOf(i) == prize[i] + (IF i = arena.host THEN hostFee ELSE 0)

(* The settle route: seats recovered on chain left the escrow with their money, and the
   players who remain divide what is left. *)
Share(remaining) ==
    /\ stage = "complete"
    /\ stage' = "shared"
    /\ pot' = Cardinality(remaining) * (arena.entry + arena.vault)
    /\ \E slip \in SUBSET {cash[i] : i \in remaining} :
           share' = PayoutShares(Restrict(cash, remaining),
                                 [i \in remaining |-> PrizeOf(i)], pot', slip)
    /\ UNCHANGED <<arena, score, hostFee, prize, cash>>

PayNext ==
    \/ Settle
    \/ SettlePredictions
    \/ \E remaining \in (SUBSET Players) \ {{}} : Share(remaining)

PaySpec == PayInit /\ [][PayNext]_payVars

-----------------------------------------------------------------------------
(* Properties. *)

Awarded == stage \in {"complete", "shared"}
Remaining == DOMAIN share

(* "The parts always re-sum to the pool exactly" (royale.ts:228), and the host takes at most
   MaxHostFeePct of it ("0-5%", fees.ts:5), only from a seat, whatever fee a request asked for.
   Ties across the last paid place included, a better finish never earns less, tied players are
   paid alike up to the odd units, and together they get the advertised percentages of the places
   they cover, to within the rounding of the places below first. *)
PrizesAsAdvertised ==
    Awarded =>
      /\ hostFee + SumFunction(prize) = Pool
      /\ 100 * hostFee <= IF arena.host = 0 THEN 0 ELSE MaxHostFeePct * Pool
      /\ \A i \in Players :
        LET group == IF score = <<>> THEN {i} ELSE TiedWith(score, i)
            paid == Parts * SumFunctionOnSet(prize, group)
            due == (Pool - hostFee) * SumFunctionOnSet(SPLIT_3, group \cap 1..3)
        IN /\ \A j \in i + 1..arena.players : prize[i] >= prize[j]
           /\ \A j \in group : prize[i] - prize[j] < Cardinality(group)
           /\ arena.players >= 3 => paid - due \in -(2 * Parts)..(2 * Parts)

(* payoutShares: "the total always equals potUsdc exactly (nothing is capped away and nothing
   is left locked in escrow)" (royale.ts:280), which is what lets CloseSettlement succeed.
   While the vaults together hold what was paid into them, a player withdraws the vault it
   finished with and its prize, to within the units lost to rounding.  Who finished with at
   least as much of both is not paid less, also when recovered seats have shrunk the pot below
   the prizes; only the best placed vault, which takes the dust, may be ahead of its equals. *)
SharesFollowResults ==
    stage = "shared" =>
        /\ SumFunction(share) = pot
        /\ SumFunction(cash) = arena.players * arena.vault /\ Remaining = Players =>
               \A i \in Remaining :
                   share[i] - (cash[i] + PrizeOf(i)) \in -1..arena.players
        /\ \A i, j \in Remaining :
               /\ cash[i] >= cash[j] /\ PrizeOf(i) >= PrizeOf(j)
               /\ i < j \/ \E k \in Remaining : cash[k] > cash[j]
               => share[i] >= share[j]
=============================================================================
