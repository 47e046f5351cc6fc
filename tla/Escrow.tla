------------------------------- MODULE Escrow -------------------------------
(***************************************************************************)
(* One round vault of the on-chain escrow program (program/src/lib.rs).    *)
(*                                                                         *)
(* The program runs one instruction at a time on the accounts it is given, *)
(* and an instruction that returns an error changes nothing, so every      *)
(* instruction is one action and a refused instruction is a stuttering     *)
(* step.  Accounts of different vaults are disjoint (every address is      *)
(* derived from the vault's key): one vault, its player entries and the    *)
(* token accounts it pays are the whole state.                             *)
(*                                                                         *)
(* The host may sign any SettlePlayer and any close it likes: the module   *)
(* says what the program guarantees against an arbitrary host.  The server *)
(* that is the host in production is module Settlement.                    *)
(***************************************************************************)
EXTENDS Integers, Sequences, FiniteSets, Totals

CONSTANTS
    Player,          \* wallets that may take a seat
    Funds,           \* Funds[p]: the USDC wallet p starts with
    Amounts,         \* entry and vault amounts InitRound may be called with
    Capacities,      \* capacities InitRound may be called with
    Deadlines,       \* settle deadlines InitRound may be called with
    FeeRates,        \* claim fees (bps) InitRoundV2 may be called with
    MaxU64,          \* largest u64; every checked_add fails above it
    MaxClaimFeeBps,  \* MAX_CLAIM_FEE_BPS
    FeeDenominator,  \* the 10_000 of the fee computation
    MaxTime          \* bound of the clock, for model checking

ASSUME PlayerAssumption == IsFiniteSet(Player)
ASSUME FundsAssumption == Funds \in [Player -> Nat]
ASSUME ArgumentsAssumption ==
    /\ MaxU64 \in Nat
    /\ Amounts \subseteq 0..MaxU64
    /\ Capacities \subseteq Nat
    /\ Deadlines \subseteq Nat
    /\ FeeRates \subseteq Nat
    /\ MaxTime \in Nat
ASSUME FeeAssumption ==
    /\ FeeDenominator \in Nat \ {0}
    /\ MaxClaimFeeBps \in Nat
    /\ MaxClaimFeeBps <= FeeDenominator

VARIABLES
    vault,    \* the RoundVault account; status "none" before InitRound
    fee,      \* the FeeConfig of a v2 vault; present is FALSE for a v1 vault
    entry,    \* entry[p]: the PlayerEntry account of p
    held,     \* balance of the escrow token account
    wallet,   \* wallet[p]: balance of p's token account
    feeHeld,  \* balance of the fee recipient's token account
    now       \* the clock sysvar

vars == <<vault, fee, entry, held, wallet, feeHeld, now>>

U64 == 0..MaxU64
Vaults == [status : {"none", "open", "settled"},
           entry_amount : U64, vault_amount : U64, capacity : Nat, deposited : Nat,
           pool_total : U64, total_escrowed : U64,
           settled_total : U64, claimed_total : U64, settle_deadline : Nat]
Fees == [present : BOOLEAN, claim_fee_bps : 0..MaxClaimFeeBps, active : BOOLEAN]
Entries == [is_initialized : BOOLEAN, vault_deposit : U64, entitlement : U64,
            settled : BOOLEAN, claimed : BOOLEAN]

NoVault == [status |-> "none", entry_amount |-> 0, vault_amount |-> 0, capacity |-> 0,
            deposited |-> 0, pool_total |-> 0, total_escrowed |-> 0, settled_total |-> 0,
            claimed_total |-> 0, settle_deadline |-> 0]
NoFee == [present |-> FALSE, claim_fee_bps |-> 0, active |-> FALSE]
NoEntry == [is_initialized |-> FALSE, vault_deposit |-> 0, entitlement |-> 0,
            settled |-> FALSE, claimed |-> FALSE]

Init ==
    /\ vault = NoVault
    /\ fee = NoFee
    /\ entry = [p \in Player |-> NoEntry]
    /\ held = 0
    /\ wallet = Funds
    /\ feeHeld = 0
    /\ now = 0

-----------------------------------------------------------------------------
(* A definition named Faulty... is a deliberately wrong variant of the one below it.  The
   specification never uses it: it shows that a property would notice that mistake. *)

FaultyIsOpen == vault.status # "none"  \* takes a settled vault for an open one

IsOpen == vault.status = "open"

-----------------------------------------------------------------------------
(* InitRound, and InitRoundV2 when f.present. *)

FaultyFeeConfigs == {NoFee} \cup  \* no MAX_CLAIM_FEE_BPS check
    [present : {TRUE}, claim_fee_bps : FeeRates, active : {TRUE}]

FeeConfigs == {NoFee} \cup
    [present : {TRUE}, claim_fee_bps : FeeRates \cap 0..MaxClaimFeeBps, active : {TRUE}]

InitRound(entryAmount, vaultAmount, cap, deadline, f) ==
    /\ vault.status = "none"
    /\ cap >= 2 /\ entryAmount # 0 /\ vaultAmount # 0
    /\ vault' = [NoVault EXCEPT !.status = "open", !.entry_amount = entryAmount,
                                !.vault_amount = vaultAmount, !.capacity = cap,
                                !.settle_deadline = deadline]
    /\ fee' = f
    /\ UNCHANGED <<entry, held, wallet, feeHeld, now>>

-----------------------------------------------------------------------------
(* Deposit: co-signed by the host, one seat per wallet. *)

Seat == vault.entry_amount + vault.vault_amount

Deposit(p) ==
    /\ IsOpen
    /\ vault.deposited < vault.capacity
    /\ ~entry[p].is_initialized
    /\ Seat <= MaxU64
    /\ wallet[p] >= Seat
    /\ vault.pool_total + vault.entry_amount <= MaxU64
    /\ vault.total_escrowed + Seat <= MaxU64
    /\ wallet' = [wallet EXCEPT ![p] = @ - Seat]
    /\ held' = held + Seat
    /\ vault' = [vault EXCEPT !.pool_total = @ + vault.entry_amount,
                              !.total_escrowed = @ + Seat,
                              !.deposited = @ + 1]
    /\ entry' = [entry EXCEPT ![p] = [NoEntry EXCEPT !.is_initialized = TRUE,
                                                     !.vault_deposit = vault.vault_amount]]
    /\ UNCHANGED <<fee, feeHeld, now>>

-----------------------------------------------------------------------------
(* SettlePlayer: assign an entitlement, replacing an earlier one. *)

Prior(p) == IF entry[p].settled THEN entry[p].entitlement ELSE 0

WithinEscrowed(newTotal) == newTotal <= vault.total_escrowed

SettlePlayer(p, entitlement) ==
    LET newTotal == vault.settled_total - Prior(p) + entitlement IN
    /\ IsOpen
    /\ entry[p].is_initialized /\ ~entry[p].claimed
    /\ vault.settled_total >= Prior(p)
    /\ newTotal <= MaxU64
    /\ WithinEscrowed(newTotal)
    /\ vault' = [vault EXCEPT !.settled_total = newTotal]
    /\ entry' = [entry EXCEPT ![p].entitlement = entitlement, ![p].settled = TRUE]
    /\ UNCHANGED <<fee, held, wallet, feeHeld, now>>

-----------------------------------------------------------------------------
(* CloseSettlement, and CloseRefund when refund.  The instruction is given a list of entry
   accounts; the checks below run in the transaction that closes the vault. *)

AccountedFor(p) == entry[p].is_initialized /\ (entry[p].settled \/ entry[p].claimed)

FaultyValidCloseEntries(list) ==  \* no check that the entries are distinct
    /\ Len(list) = vault.deposited
    /\ \A i \in DOMAIN list : AccountedFor(list[i])

ValidCloseEntries(list) ==
    /\ Len(list) = vault.deposited
    /\ \A i, j \in DOMAIN list : i # j => list[i] # list[j]
    /\ \A i \in DOMAIN list : AccountedFor(list[i])

FaultyNoRecovered == vault.settled_total = vault.total_escrowed  \* forgets recoveries

FaultyAtMost ==  \* only the upper bound
    vault.settled_total + vault.claimed_total <= vault.total_escrowed

FullyAllocated == vault.settled_total + vault.claimed_total = vault.total_escrowed

CloseSettlement(list, refund) ==
    /\ IsOpen
    /\ ValidCloseEntries(list)
    /\ FullyAllocated
    /\ vault' = [vault EXCEPT !.status = "settled"]
    /\ fee' = IF refund /\ fee.present THEN [fee EXCEPT !.active = FALSE] ELSE fee
    /\ UNCHANGED <<entry, held, wallet, feeHeld, now>>

-----------------------------------------------------------------------------
(* Claim and Recover share one withdraw path. *)

FeeOn(amount) ==
    IF fee.present /\ fee.active THEN (amount * fee.claim_fee_bps) \div FeeDenominator ELSE 0

ToPlayer(amount) == amount - FeeOn(amount)

MayClaim(p) == vault.status = "settled" /\ entry[p].settled

FaultyMayRecover(p) ==  \* a provisional entitlement blocks the way out
    /\ IsOpen
    /\ now >= vault.settle_deadline
    /\ ~entry[p].settled

MayRecover(p) ==
    /\ IsOpen
    /\ now >= vault.settle_deadline
    /\ vault.settled_total >= Prior(p)

RecoverAmount(p) == vault.entry_amount + entry[p].vault_deposit

(* The checks on amounts both paths share: a live entry, the funds, and u64 arithmetic. *)
FaultyPayable(p, amount) ==  \* a paid entry can be paid again
    /\ entry[p].is_initialized
    /\ amount <= MaxU64
    /\ amount <= held
    /\ vault.claimed_total + amount <= MaxU64

Payable(p, amount) ==
    /\ entry[p].is_initialized /\ ~entry[p].claimed
    /\ amount <= MaxU64
    /\ amount <= held
    /\ vault.claimed_total + amount <= MaxU64

Claim(p) ==
    LET amount == entry[p].entitlement IN
    /\ MayClaim(p)
    /\ Payable(p, amount)
    /\ held' = held - amount
    /\ wallet' = [wallet EXCEPT ![p] = @ + ToPlayer(amount)]
    /\ feeHeld' = feeHeld + FeeOn(amount)
    /\ vault' = [vault EXCEPT !.claimed_total = @ + amount]
    /\ entry' = [entry EXCEPT ![p].claimed = TRUE]
    /\ UNCHANGED <<fee, now>>

FaultyReleased(p) == [entry[p] EXCEPT !.claimed = TRUE]  \* keeps the entitlement

(* A provisional entitlement is given back before a recovered seat is marked claimed. *)
Released(p) == [entry[p] EXCEPT !.entitlement = IF entry[p].settled THEN 0
                                                ELSE entry[p].entitlement,
                                !.settled = FALSE, !.claimed = TRUE]

Recover(p) ==
    LET amount == RecoverAmount(p) IN
    /\ MayRecover(p)
    /\ Payable(p, amount)
    /\ held' = held - amount
    /\ wallet' = [wallet EXCEPT ![p] = @ + amount]
    /\ vault' = [vault EXCEPT !.settled_total = @ - Prior(p), !.claimed_total = @ + amount]
    /\ entry' = [entry EXCEPT ![p] = Released(p)]
    /\ UNCHANGED <<fee, feeHeld, now>>

-----------------------------------------------------------------------------
Tick ==
    /\ now < MaxTime
    /\ now' = now + 1
    /\ UNCHANGED <<vault, fee, entry, held, wallet, feeHeld>>

(* Lists longer than the number of wallets always repeat one, so none is accepted. *)
EntryLists == UNION {[1..n -> Player] : n \in 0..Cardinality(Player)}

Next ==
    \/ \E e, v \in Amounts, c \in Capacities, d \in Deadlines, f \in FeeConfigs :
           InitRound(e, v, c, d, f)
    \/ \E p \in Player : Deposit(p)
    \/ \E p \in Player, x \in U64 : SettlePlayer(p, x)
    \/ \E list \in EntryLists, refund \in BOOLEAN : CloseSettlement(list, refund)
    \/ \E p \in Player : Claim(p)
    \/ \E p \in Player : Recover(p)
    \/ Tick

Spec == Init /\ [][Next]_vars

(* Time passes, and a depositor who can withdraw eventually sends the transaction.  Nothing
   is assumed of the host: it may never settle, or settle and never close. *)
Fairness ==
    /\ WF_vars(Tick)
    /\ \A p \in Player : WF_vars(Claim(p) \/ Recover(p))

FairSpec == Spec /\ Fairness
-----------------------------------------------------------------------------
(* Properties. *)

(* Every account holds values its Rust type can hold. *)
TypeOK ==
    /\ vault \in Vaults
    /\ fee \in Fees
    /\ entry \in [Player -> Entries]
    /\ held \in Nat
    /\ wallet \in [Player -> Nat]
    /\ feeHeld \in Nat
    /\ now \in Nat

Depositors == {p \in Player : entry[p].is_initialized}

(* Wallets whose money is still in the escrow. *)
Inside == {p \in Depositors : ~entry[p].claimed}

(* What each wallet can still take out: its seat while the vault is open, its entitlement once
   it is settled. *)
Owed == [p \in Player |->
            IF p \notin Inside THEN 0
            ELSE IF vault.status = "settled" THEN entry[p].entitlement ELSE Seat]

(* The entitlements SettlePlayer has on record. *)
Provisional == [p \in Player |-> Prior(p)]

(* The vault's running totals, which every instruction updates by differences, are the true
   totals over the player entries: deposited counts them, settled_total is the sum of their
   entitlements however often those were replaced or released, and total_escrowed less
   claimed_total is what the token account holds. *)
BooksBalance ==
    /\ vault.deposited = Cardinality(Depositors)
    /\ vault.settled_total = Total(Provisional)
    /\ vault.total_escrowed - vault.claimed_total = held

(* The escrow token account holds exactly what its depositors can still take out of it:
   lib.rs's "conservation" (SettlePlayer's cap, CloseSettlement's equality and the withdraw
   path together), whatever the host settles and in whatever order players recover. *)
Solvent == held = Total(Owed)

(* What else every reachable state satisfies, so that Solvent is inductive: a vault that was
   never opened is blank, and an entry is blank until its deposit, keeps the vault amount it
   paid, records an entitlement only while it is settled, is released by a recovery, and is
   accounted for once the vault is settled. *)
BlankVault ==
    vault.status = "none" => vault = NoVault /\ \A p \in Player : entry[p] = NoEntry

EntryWellFormed(p) ==
    /\ ~entry[p].is_initialized => entry[p] = NoEntry
    /\ entry[p].is_initialized =>
           /\ vault.status # "none"
           /\ entry[p].vault_deposit = vault.vault_amount
           /\ Seat <= MaxU64
    /\ ~entry[p].settled => entry[p].entitlement = 0
    /\ entry[p].claimed /\ vault.status = "open" => ~entry[p].settled
    /\ entry[p].is_initialized /\ vault.status = "settled" => AccountedFor(p)

IInv ==
    /\ TypeOK
    /\ BlankVault
    /\ \A p \in Player : EntryWellFormed(p)
    /\ BooksBalance
    /\ Solvent

(* A depositor who has not been paid always has a way out that the program will accept: once
   the deadline has passed on an open vault its Recover passes every check, and on a settled
   vault its Claim does.  No account state makes either one fail with Overpay, Overflow or
   PlayerNotSettled (process_withdraw, validate_close_entries). *)
NobodyStranded ==
    \A p \in Inside :
        IF vault.status = "open"
        THEN Payable(p, RecoverAmount(p)) /\ vault.settled_total >= Prior(p)
        ELSE MayClaim(p) /\ Payable(p, entry[p].entitlement)

(* Each wallet's balance is what its entry says: a seat is paid for once and paid out once, a
   recovery and the claim of a refund return every unit, and only the claim of a settled round
   pays the fee (process_deposit, process_withdraw). *)
PaidExactlyOnce ==
    \A p \in Player :
        wallet[p] = Funds[p]
            - (IF p \in Depositors THEN Seat ELSE 0)
            + (IF ~entry[p].claimed THEN 0
               ELSE IF entry[p].settled THEN entry[p].entitlement - FeeOn(entry[p].entitlement)
               ELSE Seat)

(* A settled vault never reopens, takes no further seat, and changes nobody's entitlement:
   what CloseSettlement unlocked is final. *)
SettlementFinal ==
    [][vault.status = "settled" =>
          /\ vault'.status = "settled"
          /\ vault'.total_escrowed = vault.total_escrowed
          /\ \A p \in Player : entry'[p].entitlement = entry[p].entitlement
          /\ fee' = fee]_vars

(* Every depositor eventually has its money back in its wallet, even under a host that never
   settles, or that settles everybody and never closes (lib.rs: "if the host never settles,
   any player can, after the settle deadline, reclaim their own entry + vault"). *)
EveryoneExits == \A p \in Player : p \in Depositors ~> entry[p].claimed

(* The program implements Custody. *)
Promise == INSTANCE Custody WITH
    stage <- CASE vault.status = "none" -> "none"
               [] vault.status = "open" -> "collecting"
               [] vault.status = "settled" -> "paying",
    price <- Seat,
    inside <- Inside,
    gone <- Depositors \ Inside,
    share <- [p \in Player |-> IF vault.status = "settled" THEN Owed[p] ELSE 0],
    pot <- held

(* Every behaviour of the program, seen through that mapping, is one of Custody: provisional
   settlements, deadlines and fees show in none of its promises. *)
ImplementsCustody == Promise!CustodySpec
=============================================================================
