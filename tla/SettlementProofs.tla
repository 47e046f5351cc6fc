--------------------------- MODULE SettlementProofs ---------------------------
(***************************************************************************)
(* Theorems about the escrow program (module Escrow), for every finite set *)
(* of wallets, every u64 width, every fee and every host; and about the    *)
(* server that settles an arena with it (module Settlement), for any       *)
(* players, deadlines and batches and however often the job dies.          *)
(***************************************************************************)
EXTENDS Settlement, PayoutProofs, SequenceTheorems

USE DEF U64

-----------------------------------------------------------------------------
(* The instructions. *)

(* A fee never exceeds the amount it is taken from (claim_fee_bps <= MAX_CLAIM_FEE_BPS). *)
LEMMA FeeBound ==
  ASSUME TypeOK, NEW amount \in Nat
  PROVE  FeeOn(amount) \in 0..amount
<1> DEFINE bps == fee.claim_fee_bps
           q == (amount * bps) \div FeeDenominator
<1>1. bps \in Nat /\ bps <= FeeDenominator /\ FeeDenominator \in Nat \ {0}
  BY FeeAssumption DEF TypeOK, Fees
<1>2. amount * bps \in Nat /\ amount * bps <= amount * FeeDenominator
  <2> HIDE DEF bps
  <2> DEFINE d == FeeDenominator - bps
  <2>1. d \in Nat /\ FeeDenominator = bps + d
    BY <1>1
  <2> HIDE DEF d
  <2>2. amount * FeeDenominator = amount * bps + amount * d
    BY <1>1, <2>1
  <2>3. amount * bps \in Nat /\ amount * d \in Nat
    BY <1>1, <2>1
  <2>4. QED
    BY <2>2, <2>3, <1>1
<1>3. q \in 0..amount
  <2> HIDE DEF bps
  <2>1. \A a, b \in Nat : b # 0 => a \div b \in Nat /\ b * (a \div b) <= a
    OBVIOUS
  <2>2. q \in Nat /\ FeeDenominator * q <= amount * bps
    BY <1>1, <1>2, <2>1
  <2>3. FeeDenominator * q <= FeeDenominator * amount
    BY <1>1, <1>2, <2>2
  <2>4. q <= amount
    BY <1>1, <2>2, <2>3
  <2>5. QED
    BY <2>2, <2>4
<1>4. QED
  BY <1>3 DEF FeeOn

-----------------------------------------------------------------------------
(* What each instruction does to the vault, field by field. *)

LEMMA VaultFields ==
  ASSUME vault \in Vaults
  PROVE  /\ vault.status \in {"none", "open", "settled"}
         /\ vault.entry_amount \in Nat /\ vault.vault_amount \in Nat /\ vault.deposited \in Nat
         /\ vault.total_escrowed \in Nat /\ vault.total_escrowed <= MaxU64
         /\ vault.settled_total \in Nat /\ vault.settled_total <= MaxU64
         /\ vault.claimed_total \in Nat /\ vault.claimed_total <= MaxU64
         /\ vault.settle_deadline \in Nat
         /\ Seat \in Nat
BY ArgumentsAssumption DEF Vaults, Seat

LEMMA EntryFields ==
  ASSUME TypeOK, NEW p \in Player
  PROVE  /\ entry[p].is_initialized \in BOOLEAN
         /\ entry[p].settled \in BOOLEAN
         /\ entry[p].claimed \in BOOLEAN
         /\ entry[p].entitlement \in Nat /\ entry[p].entitlement <= MaxU64
         /\ entry[p].vault_deposit \in Nat /\ entry[p].vault_deposit <= MaxU64
         /\ Prior(p) \in Nat /\ Prior(p) <= MaxU64
         /\ RecoverAmount(p) \in Nat
BY ArgumentsAssumption DEF TypeOK, Entries, Vaults, Prior, RecoverAmount

LEMMA InitRoundVault ==
  ASSUME TypeOK, NEW e \in Amounts, NEW v \in Amounts, NEW c \in Capacities,
         NEW d \in Deadlines, NEW f, InitRound(e, v, c, d, f)
  PROVE  /\ vault' \in Vaults
         /\ vault'.status = "open"
         /\ vault'.entry_amount = e /\ vault'.vault_amount = v
         /\ vault'.deposited = 0 /\ vault'.total_escrowed = 0
         /\ vault'.settled_total = 0 /\ vault'.claimed_total = 0
<1>1. NoVault \in Vaults
  BY ArgumentsAssumption DEF NoVault, Vaults
<1>2. /\ NoVault.deposited = 0 /\ NoVault.total_escrowed = 0
      /\ NoVault.settled_total = 0 /\ NoVault.claimed_total = 0
  BY DEF NoVault
<1>3. vault' = [NoVault EXCEPT !.status = "open", !.entry_amount = e, !.vault_amount = v,
                               !.capacity = c, !.settle_deadline = d]
  BY DEF InitRound
<1>4. e \in U64 /\ v \in U64 /\ c \in Nat /\ d \in Nat
  BY ArgumentsAssumption
<1> HIDE DEF U64
<1>5. QED
  BY <1>1, <1>2, <1>3, <1>4 DEF Vaults

LEMMA DepositVault ==
  ASSUME TypeOK, NEW p \in Player, Deposit(p)
  PROVE  /\ vault' \in Vaults
         /\ vault'.status = vault.status
         /\ vault'.entry_amount = vault.entry_amount
         /\ vault'.vault_amount = vault.vault_amount
         /\ vault'.settled_total = vault.settled_total
         /\ vault'.claimed_total = vault.claimed_total
         /\ vault'.deposited = vault.deposited + 1
         /\ vault'.total_escrowed = vault.total_escrowed + Seat
<1> DEFINE pool == vault.pool_total + vault.entry_amount
           total == vault.total_escrowed + Seat
           count == vault.deposited + 1
<1>1. vault \in Vaults
  BY DEF TypeOK
<1>2. pool \in U64 /\ total \in U64 /\ count \in Nat
  BY <1>1, VaultFields, ArgumentsAssumption DEF Deposit, Vaults
<1>3. vault' = [vault EXCEPT !.pool_total = pool, !.total_escrowed = total, !.deposited = count]
  BY DEF Deposit
<1> HIDE DEF pool, total, count, U64
<1>4. /\ vault' \in Vaults
      /\ vault'.deposited = count /\ vault'.total_escrowed = total
      /\ vault'.status = vault.status
      /\ vault'.entry_amount = vault.entry_amount /\ vault'.vault_amount = vault.vault_amount
      /\ vault'.settled_total = vault.settled_total
      /\ vault'.claimed_total = vault.claimed_total
  BY <1>1, <1>2, <1>3 DEF Vaults
<1>5. QED
  BY <1>4 DEF total, count

LEMMA SettlePlayerVault ==
  ASSUME TypeOK, NEW p \in Player, NEW x \in U64, SettlePlayer(p, x)
  PROVE  /\ vault' \in Vaults
         /\ vault'.status = vault.status
         /\ vault'.entry_amount = vault.entry_amount
         /\ vault'.vault_amount = vault.vault_amount
         /\ vault'.settled_total = vault.settled_total - Prior(p) + x
         /\ vault'.claimed_total = vault.claimed_total
         /\ vault'.deposited = vault.deposited
         /\ vault'.total_escrowed = vault.total_escrowed
<1> DEFINE total == vault.settled_total - Prior(p) + x
<1>1. vault \in Vaults
  BY DEF TypeOK
<1>2. total \in U64
  BY <1>1, VaultFields, EntryFields, ArgumentsAssumption DEF SettlePlayer
<1>3. vault' = [vault EXCEPT !.settled_total = total]
  BY DEF SettlePlayer
<1> HIDE DEF total, U64
<1>4. QED
  BY <1>1, <1>2, <1>3 DEF Vaults, total

LEMMA CloseVault ==
  ASSUME TypeOK, NEW list, NEW refund, CloseSettlement(list, refund)
  PROVE  /\ vault' \in Vaults
         /\ vault'.status = "settled"
         /\ vault'.entry_amount = vault.entry_amount
         /\ vault'.vault_amount = vault.vault_amount
         /\ vault'.settled_total = vault.settled_total
         /\ vault'.claimed_total = vault.claimed_total
         /\ vault'.deposited = vault.deposited
         /\ vault'.total_escrowed = vault.total_escrowed
BY DEF TypeOK, CloseSettlement, Vaults

LEMMA ClaimVault ==
  ASSUME TypeOK, NEW p \in Player, Claim(p)
  PROVE  /\ vault' \in Vaults
         /\ vault'.status = vault.status
         /\ vault'.entry_amount = vault.entry_amount
         /\ vault'.vault_amount = vault.vault_amount
         /\ vault'.settled_total = vault.settled_total
         /\ vault'.claimed_total = vault.claimed_total + entry[p].entitlement
         /\ vault'.deposited = vault.deposited
         /\ vault'.total_escrowed = vault.total_escrowed
<1> DEFINE total == vault.claimed_total + entry[p].entitlement
<1>1. vault \in Vaults
  BY DEF TypeOK
<1>2. total \in U64
  BY <1>1, VaultFields, EntryFields, ArgumentsAssumption DEF Claim, Payable
<1>3. vault' = [vault EXCEPT !.claimed_total = total]
  BY DEF Claim
<1> HIDE DEF total, U64
<1>4. QED
  BY <1>1, <1>2, <1>3 DEF Vaults, total

LEMMA RecoverVault ==
  ASSUME TypeOK, NEW p \in Player, Recover(p)
  PROVE  /\ vault' \in Vaults
         /\ vault'.status = vault.status
         /\ vault'.entry_amount = vault.entry_amount
         /\ vault'.vault_amount = vault.vault_amount
         /\ vault'.settled_total = vault.settled_total - Prior(p)
         /\ vault'.claimed_total = vault.claimed_total + RecoverAmount(p)
         /\ vault'.deposited = vault.deposited
         /\ vault'.total_escrowed = vault.total_escrowed
<1> DEFINE left == vault.settled_total - Prior(p)
           total == vault.claimed_total + RecoverAmount(p)
<1>1. vault \in Vaults
  BY DEF TypeOK
<1>2. left \in U64 /\ total \in U64
  BY <1>1, VaultFields, EntryFields, ArgumentsAssumption DEF Recover, MayRecover, Payable
<1>3. vault' = [vault EXCEPT !.settled_total = left, !.claimed_total = total]
  BY DEF Recover
<1> HIDE DEF left, total, U64
<1>4. QED
  BY <1>1, <1>2, <1>3 DEF Vaults, left, total

-----------------------------------------------------------------------------
(* Type correctness: every checked_add, checked_sub and balance check together keep every
   account within the values of its type. *)
LEMMA TypeInductive == TypeOK /\ [Next]_vars => TypeOK'
<1> SUFFICES ASSUME TypeOK, [Next]_vars
             PROVE  TypeOK'
  OBVIOUS
<1> USE DEF TypeOK
<1>0. vault \in Vaults /\ wallet \in [Player -> Nat] /\ held \in Nat
  OBVIOUS
<1>1. ASSUME NEW e \in Amounts, NEW v \in Amounts, NEW c \in Capacities,
             NEW d \in Deadlines, NEW f \in FeeConfigs, InitRound(e, v, c, d, f)
      PROVE  TypeOK'
  <2>1. NoFee \in Fees
    BY FeeAssumption DEF NoFee, Fees
  <2>2. FeeConfigs \subseteq Fees
    BY <2>1 DEF FeeConfigs, Fees
  <2>3. fee' \in Fees
    BY <1>1, <2>2 DEF InitRound
  <2>4. QED
    BY <1>1, <2>3, InitRoundVault DEF InitRound
<1>2. ASSUME NEW p \in Player, Deposit(p)
      PROVE  TypeOK'
  <2>1. [NoEntry EXCEPT !.is_initialized = TRUE, !.vault_deposit = vault.vault_amount]
          \in Entries
    <3>1. NoEntry \in Entries
      BY ArgumentsAssumption DEF NoEntry, Entries
    <3>2. vault.vault_amount \in U64
      BY DEF Vaults
    <3> HIDE DEF U64
    <3>3. QED
      BY <3>1, <3>2 DEF Entries
  <2>2. entry' \in [Player -> Entries]
    BY <1>2, <2>1 DEF Deposit
  <2>3. Seat \in Nat /\ wallet[p] \in Nat /\ wallet[p] >= Seat
    BY <1>2, VaultFields DEF Deposit
  <2>4. held' = held + Seat /\ wallet' = [wallet EXCEPT ![p] = @ - Seat]
    BY <1>2 DEF Deposit
  <2>5. held' \in Nat /\ wallet' \in [Player -> Nat]
    <3> HIDE DEF TypeOK
    <3> QED BY <1>0, <2>3, <2>4
  <2>6. QED
    BY <1>2, <2>2, <2>5, DepositVault DEF Deposit
<1>3. ASSUME NEW p \in Player, NEW x \in U64, SettlePlayer(p, x)
      PROVE  TypeOK'
  <2>1. [entry[p] EXCEPT !.entitlement = x, !.settled = TRUE] \in Entries
    BY DEF Entries
  <2>2. entry' = [entry EXCEPT ![p] = [entry[p] EXCEPT !.entitlement = x, !.settled = TRUE]]
    BY <1>3 DEF SettlePlayer
  <2>3. entry' \in [Player -> Entries]
    BY <2>1, <2>2
  <2>4. QED
    BY <1>3, <2>3, SettlePlayerVault DEF SettlePlayer
<1>4. ASSUME NEW list \in EntryLists, NEW refund \in BOOLEAN, CloseSettlement(list, refund)
      PROVE  TypeOK'
  <2>1. fee' \in Fees
    BY <1>4 DEF CloseSettlement, Fees
  <2>2. QED
    BY <1>4, <2>1, CloseVault DEF CloseSettlement
<1>5. ASSUME NEW p \in Player, Claim(p)
      PROVE  TypeOK'
  <2>1. FeeOn(entry[p].entitlement) \in 0..entry[p].entitlement
    BY FeeBound, EntryFields
  <2>2. entry' \in [Player -> Entries]
    BY <1>5 DEF Claim, Entries
  <2>3. held' \in Nat /\ feeHeld' \in Nat /\ wallet' \in [Player -> Nat]
    BY <1>5, <2>1, EntryFields DEF Claim, Payable, ToPlayer
  <2>4. QED
    BY <1>5, <2>2, <2>3, ClaimVault DEF Claim
<1>6. ASSUME NEW p \in Player, Recover(p)
      PROVE  TypeOK'
  <2> DEFINE left == IF entry[p].settled THEN 0 ELSE entry[p].entitlement
  <2>1. left \in U64 /\ entry[p] \in Entries
    BY EntryFields, ArgumentsAssumption
  <2>2. Released(p) \in Entries
    <3>1. Released(p) = [entry[p] EXCEPT !.entitlement = left, !.settled = FALSE,
                                         !.claimed = TRUE]
      BY DEF Released
    <3> HIDE DEF left
    <3>2. QED
      BY <2>1, <3>1 DEF Entries
  <2>3. entry' \in [Player -> Entries]
    BY <1>6, <2>2 DEF Recover
  <2>4. held' \in Nat /\ wallet' \in [Player -> Nat]
    BY <1>6, EntryFields DEF Recover, Payable
  <2>5. QED
    BY <1>6, <2>3, <2>4, RecoverVault DEF Recover
<1>7. CASE Tick
  BY <1>7 DEF Tick
<1>8. CASE UNCHANGED vars
  BY <1>8 DEF vars
<1>9. QED
  BY <1>1, <1>2, <1>3, <1>4, <1>5, <1>6, <1>7, <1>8 DEF Next

THEOREM TypeCorrect == Spec => []TypeOK
<1>1. Init => TypeOK
  BY FundsAssumption, FeeAssumption, ArgumentsAssumption
     DEF Init, TypeOK, NoVault, NoFee, NoEntry, Vaults, Fees, Entries
<1>2. QED
  BY <1>1, TypeInductive, PTL DEF Spec
-----------------------------------------------------------------------------
(* What each instruction does to the player entries, field by field. *)

LEMMA DepositEntry ==
  ASSUME TypeOK, NEW p \in Player, Deposit(p)
  PROVE  /\ entry'[p].is_initialized /\ ~entry'[p].settled /\ ~entry'[p].claimed
         /\ entry'[p].entitlement = 0 /\ entry'[p].vault_deposit = vault.vault_amount
         /\ \A q \in Player \ {p} : entry'[q] = entry[q]
BY DEF TypeOK, Deposit, NoEntry

LEMMA SettlePlayerEntry ==
  ASSUME TypeOK, NEW p \in Player, NEW x \in U64, SettlePlayer(p, x)
  PROVE  /\ entry'[p].is_initialized /\ entry'[p].settled /\ ~entry'[p].claimed
         /\ entry'[p].entitlement = x /\ entry'[p].vault_deposit = entry[p].vault_deposit
         /\ \A q \in Player \ {p} : entry'[q] = entry[q]
BY DEF TypeOK, Entries, SettlePlayer

LEMMA ClaimEntry ==
  ASSUME TypeOK, NEW p \in Player, Claim(p)
  PROVE  /\ entry'[p].is_initialized /\ entry'[p].settled /\ entry'[p].claimed
         /\ entry'[p].entitlement = entry[p].entitlement
         /\ entry'[p].vault_deposit = entry[p].vault_deposit
         /\ \A q \in Player \ {p} : entry'[q] = entry[q]
BY DEF TypeOK, Entries, Claim, MayClaim, Payable

LEMMA RecoverEntry ==
  ASSUME TypeOK, NEW p \in Player, Recover(p), EntryWellFormed(p)
  PROVE  /\ entry'[p].is_initialized /\ ~entry'[p].settled /\ entry'[p].claimed
         /\ entry'[p].entitlement = 0
         /\ entry'[p].vault_deposit = entry[p].vault_deposit
         /\ \A q \in Player \ {p} : entry'[q] = entry[q]
<1>1. entry[p] \in Entries /\ entry[p].is_initialized
  BY DEF TypeOK, Recover, Payable
<1>2. Released(p).entitlement = 0
  BY <1>1 DEF Released, Entries, EntryWellFormed
<1>3. entry' = [entry EXCEPT ![p] = Released(p)]
  BY DEF Recover
<1>4. /\ Released(p).is_initialized = entry[p].is_initialized
      /\ Released(p).vault_deposit = entry[p].vault_deposit
      /\ ~Released(p).settled /\ Released(p).claimed
  BY <1>1 DEF Released, Entries
<1>5. QED
  BY <1>1, <1>2, <1>3, <1>4 DEF TypeOK

LEMMA SumTypes ==
  TypeOK => Owed \in [Player -> Nat] /\ Provisional \in [Player -> Nat]
BY EntryFields, VaultFields DEF TypeOK, Owed, Provisional

LEMMA NextSumTypes ==
  (TypeOK => Owed \in [Player -> Nat] /\ Provisional \in [Player -> Nat])'
BY SumTypes, PTL

(* The check in validate_close_entries: as many distinct entries as there are deposits, each
   settled or recovered, are all of the entries. *)
LEMMA CloseCoversAll ==
  ASSUME TypeOK, BooksBalance, NEW list \in EntryLists, ValidCloseEntries(list)
  PROVE  \A p \in Depositors : AccountedFor(p)
<1>1. PICK n \in 0..Cardinality(Player) : list \in [1..n -> Player]
  BY DEF EntryLists
<1>2. n \in Nat
  BY PlayerAssumption, FS_CardinalityType, <1>1
<1>3. DOMAIN list = 1..n /\ Len(list) = n
  BY <1>1, <1>2
<1>4. IsFiniteSet(Depositors)
  BY PlayerAssumption, FS_Subset DEF Depositors
<1>5. list \in Injection(1..n, Depositors)
  BY <1>1, <1>3 DEF ValidCloseEntries, AccountedFor, Depositors, Injection, IsInjective
<1>6. Cardinality(1..n) = n
  BY <1>2, FS_Interval
<1>7. Cardinality(Depositors) = n
  BY <1>3 DEF ValidCloseEntries, BooksBalance
<1>8. list \in Surjection(1..n, Depositors)
  BY <1>4, <1>5, <1>6, <1>7, FS_Injection
<1>9. QED
  BY <1>3, <1>8 DEF Surjection, ValidCloseEntries
-----------------------------------------------------------------------------
(* The inductive invariant, one instruction at a time. *)

LEMMA InitRoundKeeps ==
  ASSUME IInv, NEW e \in Amounts, NEW v \in Amounts, NEW c \in Capacities,
         NEW d \in Deadlines, NEW f \in FeeConfigs, InitRound(e, v, c, d, f), TypeOK'
  PROVE  IInv'
<1>1. /\ TypeOK /\ vault = NoVault /\ \A p \in Player : entry[p] = NoEntry
      /\ entry' = entry /\ held' = held
  BY DEF IInv, BlankVault, InitRound
<1>2. \A p \in Player : /\ ~entry[p].is_initialized /\ ~entry[p].settled
                        /\ ~entry[p].claimed /\ entry[p].entitlement = 0
  BY <1>1 DEF NoEntry
<1>3. vault'.status = "open" /\ vault'.deposited = 0 /\ vault'.total_escrowed = 0
      /\ vault'.settled_total = 0 /\ vault'.claimed_total = 0
  BY <1>1, InitRoundVault
<1>4. BlankVault' /\ \A p \in Player : EntryWellFormed(p)'
  BY <1>1, <1>2, <1>3 DEF BlankVault, EntryWellFormed
<1>5. held' = 0
  BY <1>1, VaultFields DEF IInv, BooksBalance, NoVault, TypeOK
<1>6. Depositors' = {} /\ Inside' = {}
  BY <1>1, <1>2 DEF Depositors, Inside
<1>7. Total(Provisional') = 0
  <2>1. Provisional' \in [Player -> Nat]
    BY NextSumTypes
  <2>2. \A p \in Player : Provisional'[p] = 0
    BY <1>1, <1>2 DEF Provisional, Prior
  <2>3. QED
    BY <2>1, <2>2, TotalZero
<1>8. Total(Owed') = 0
  <2>1. Owed' \in [Player -> Nat]
    BY NextSumTypes
  <2>2. \A p \in Player : Owed'[p] = 0
    BY <1>6 DEF Owed
  <2>3. QED
    BY <2>1, <2>2, TotalZero
<1>9. Cardinality({}) = 0
  BY FS_EmptySet
<1>10. BooksBalance' /\ Solvent'
  BY <1>3, <1>5, <1>6, <1>7, <1>8, <1>9 DEF BooksBalance, Solvent
<1>11. QED
  BY <1>4, <1>10 DEF IInv

LEMMA DepositKeeps ==
  ASSUME IInv, NEW p \in Player, Deposit(p), TypeOK'
  PROVE  IInv'
<1>1. TypeOK /\ vault \in Vaults /\ vault.status = "open" /\ ~entry[p].is_initialized
      /\ Seat \in Nat /\ Seat <= MaxU64 /\ held' = held + Seat
  BY VaultFields DEF IInv, TypeOK, Deposit, IsOpen
<1>2. entry[p] = NoEntry
  BY <1>1 DEF IInv, EntryWellFormed
<1>3. /\ vault'.status = "open" /\ vault'.entry_amount = vault.entry_amount
      /\ vault'.vault_amount = vault.vault_amount /\ Seat' = Seat
      /\ vault'.settled_total = vault.settled_total
      /\ vault'.claimed_total = vault.claimed_total
      /\ vault'.deposited = vault.deposited + 1
      /\ vault'.total_escrowed = vault.total_escrowed + Seat
  BY <1>1, DepositVault DEF Seat
<1>4. /\ entry'[p].is_initialized /\ ~entry'[p].settled /\ ~entry'[p].claimed
      /\ entry'[p].entitlement = 0 /\ entry'[p].vault_deposit = vault.vault_amount
      /\ \A q \in Player \ {p} : entry'[q] = entry[q]
  BY <1>1, DepositEntry
<1>5. BlankVault'
  BY <1>3 DEF BlankVault
<1>6. ASSUME NEW q \in Player
      PROVE  EntryWellFormed(q)'
  <2>1. CASE q = p
    BY <2>1, <1>1, <1>3, <1>4 DEF EntryWellFormed
  <2>2. CASE q # p
    BY <2>2, <1>1, <1>3, <1>4 DEF IInv, EntryWellFormed
  <2>3. QED
    BY <2>1, <2>2
<1>7. BooksBalance'
  <2>1. Depositors' = Depositors \cup {p} /\ p \notin Depositors
    BY <1>1, <1>4 DEF Depositors
  <2>2. IsFiniteSet(Depositors)
    BY PlayerAssumption, FS_Subset DEF Depositors
  <2>3. Cardinality(Depositors') = Cardinality(Depositors) + 1
    BY <2>1, <2>2, FS_AddElement
  <2>4. Provisional' = Provisional
    BY <1>2, <1>4 DEF Provisional, Prior, NoEntry
  <2>5. QED
    BY <1>1, <1>3, <2>3, <2>4, VaultFields DEF IInv, BooksBalance, TypeOK
<1>8. Solvent'
  <2>1. Owed \in [Player -> Nat] /\ Owed' \in [Player -> Nat]
    BY <1>1, SumTypes, NextSumTypes
  <2>2. Owed[p] = 0 /\ Owed'[p] = Seat
    BY <1>1, <1>3, <1>4 DEF Owed, Inside, Depositors
  <2>3. \A q \in Player \ {p} : Owed'[q] = Owed[q]
    BY <1>1, <1>3, <1>4 DEF Owed, Inside, Depositors
  <2>4. Total(Owed') = Total(Owed) - Owed[p] + Seat
    BY <1>1, <2>1, <2>2, <2>3, PlayerAssumption, TotalUpdate
  <2>5. Total(Owed) \in Nat
    BY <2>1, PlayerAssumption, TotalType
  <2>6. QED
    BY <1>1, <2>2, <2>4, <2>5 DEF IInv, Solvent
<1>9. QED
  BY <1>5, <1>6, <1>7, <1>8 DEF IInv

LEMMA SettlePlayerKeeps ==
  ASSUME IInv, NEW p \in Player, NEW x \in U64, SettlePlayer(p, x), TypeOK'
  PROVE  IInv'
<1>1. TypeOK /\ vault \in Vaults /\ vault.status = "open" /\ held' = held
      /\ entry[p].is_initialized /\ ~entry[p].claimed /\ x \in Nat
  BY ArgumentsAssumption DEF IInv, TypeOK, SettlePlayer, IsOpen
<1>2. /\ vault'.status = "open" /\ vault'.entry_amount = vault.entry_amount
      /\ vault'.vault_amount = vault.vault_amount /\ Seat' = Seat
      /\ vault'.settled_total = vault.settled_total - Prior(p) + x
      /\ vault'.claimed_total = vault.claimed_total
      /\ vault'.deposited = vault.deposited
      /\ vault'.total_escrowed = vault.total_escrowed
  BY <1>1, SettlePlayerVault DEF Seat
<1>3. /\ entry'[p].is_initialized /\ entry'[p].settled /\ ~entry'[p].claimed
      /\ entry'[p].entitlement = x /\ entry'[p].vault_deposit = entry[p].vault_deposit
      /\ \A q \in Player \ {p} : entry'[q] = entry[q]
  BY <1>1, SettlePlayerEntry
<1>4. BlankVault'
  BY <1>2 DEF BlankVault
<1>5. ASSUME NEW q \in Player
      PROVE  EntryWellFormed(q)'
  <2>1. CASE q = p
    BY <2>1, <1>1, <1>2, <1>3 DEF IInv, EntryWellFormed
  <2>2. CASE q # p
    BY <2>2, <1>1, <1>2, <1>3 DEF IInv, EntryWellFormed
  <2>3. QED
    BY <2>1, <2>2
<1>6. Depositors' = Depositors /\ Inside' = Inside
  BY <1>1, <1>3 DEF Depositors, Inside
<1>7. BooksBalance'
  <2>1. Provisional \in [Player -> Nat] /\ Provisional' \in [Player -> Nat]
    BY <1>1, SumTypes, NextSumTypes
  <2>2. Provisional[p] = Prior(p) /\ Provisional'[p] = x
    BY <1>3 DEF Provisional, Prior
  <2>3. \A q \in Player \ {p} : Provisional'[q] = Provisional[q]
    BY <1>3 DEF Provisional, Prior
  <2>4. Total(Provisional') = Total(Provisional) - Prior(p) + x
    BY <1>1, <2>1, <2>2, <2>3, PlayerAssumption, TotalUpdate
  <2>5. QED
    BY <1>1, <1>2, <1>6, <2>4 DEF IInv, BooksBalance
<1>8. Solvent'
  <2>1. Owed' = Owed
    BY <1>1, <1>2, <1>6 DEF Owed
  <2>2. QED
    BY <1>1, <2>1 DEF IInv, Solvent
<1>9. QED
  BY <1>4, <1>5, <1>7, <1>8 DEF IInv

LEMMA CloseSettlementKeeps ==
  ASSUME IInv, NEW list \in EntryLists, NEW refund \in BOOLEAN,
         CloseSettlement(list, refund), TypeOK'
  PROVE  IInv'
<1>1. TypeOK /\ vault \in Vaults /\ vault.status = "open" /\ held' = held /\ entry' = entry
      /\ ValidCloseEntries(list) /\ FullyAllocated /\ BooksBalance
  BY DEF IInv, TypeOK, CloseSettlement, IsOpen
<1>2. /\ vault'.status = "settled" /\ vault'.vault_amount = vault.vault_amount /\ Seat' = Seat
      /\ vault'.settled_total = vault.settled_total
      /\ vault'.claimed_total = vault.claimed_total
      /\ vault'.deposited = vault.deposited
      /\ vault'.total_escrowed = vault.total_escrowed
  BY <1>1, CloseVault DEF Seat
<1>3. \A p \in Depositors : AccountedFor(p)
  BY <1>1, CloseCoversAll
<1>4. BlankVault'
  BY <1>2 DEF BlankVault
<1>5. ASSUME NEW q \in Player
      PROVE  EntryWellFormed(q)'
  BY <1>1, <1>2, <1>3 DEF IInv, EntryWellFormed, AccountedFor, Depositors
<1>6. Depositors' = Depositors /\ Inside' = Inside /\ Provisional' = Provisional
  BY <1>1 DEF Depositors, Inside, Provisional, Prior
<1>7. BooksBalance'
  BY <1>1, <1>2, <1>6 DEF BooksBalance
<1>8. Solvent'
  <2>1. ASSUME NEW p \in Player
        PROVE  Owed'[p] = Provisional[p]
    <3>1. CASE p \in Inside
      BY <3>1, <1>1, <1>2, <1>3, <1>6
         DEF Owed, Provisional, Prior, Inside, Depositors, AccountedFor
    <3>2. CASE p \notin Inside
      <4>1. ~entry[p].settled
        BY <3>2, <1>1 DEF IInv, EntryWellFormed, Inside, Depositors, NoEntry
      <4>2. QED
        BY <3>2, <4>1, <1>6 DEF Owed, Provisional, Prior
    <3>3. QED
      BY <3>1, <3>2
  <2>2. Owed' = Provisional
    BY <2>1 DEF Owed, Provisional
  <2>3. QED
    BY <1>1, <2>2, VaultFields DEF BooksBalance, FullyAllocated, Solvent, TypeOK
<1>9. QED
  BY <1>4, <1>5, <1>7, <1>8 DEF IInv

LEMMA ClaimKeeps ==
  ASSUME IInv, NEW p \in Player, Claim(p), TypeOK'
  PROVE  IInv'
<1> DEFINE amount == entry[p].entitlement
<1>1. TypeOK /\ vault \in Vaults /\ vault.status = "settled" /\ held' = held - amount
      /\ entry[p].is_initialized /\ entry[p].settled /\ ~entry[p].claimed /\ amount \in Nat
      /\ held \in Nat
  BY EntryFields DEF IInv, TypeOK, Claim, MayClaim, Payable
<1>2. /\ vault'.status = "settled" /\ vault'.vault_amount = vault.vault_amount /\ Seat' = Seat
      /\ vault'.settled_total = vault.settled_total
      /\ vault'.claimed_total = vault.claimed_total + amount
      /\ vault'.deposited = vault.deposited
      /\ vault'.total_escrowed = vault.total_escrowed
  BY <1>1, ClaimVault DEF Seat
<1>3. /\ entry'[p].is_initialized /\ entry'[p].settled /\ entry'[p].claimed
      /\ entry'[p].entitlement = amount /\ entry'[p].vault_deposit = entry[p].vault_deposit
      /\ \A q \in Player \ {p} : entry'[q] = entry[q]
  BY <1>1, ClaimEntry
<1>4. BlankVault'
  BY <1>2 DEF BlankVault
<1>5. ASSUME NEW q \in Player
      PROVE  EntryWellFormed(q)'
  <2>1. CASE q = p
    BY <2>1, <1>1, <1>2, <1>3 DEF IInv, EntryWellFormed, AccountedFor
  <2>2. CASE q # p
    BY <2>2, <1>1, <1>2, <1>3 DEF IInv, EntryWellFormed, AccountedFor
  <2>3. QED
    BY <2>1, <2>2
<1>6. Depositors' = Depositors /\ Provisional' = Provisional
  BY <1>1, <1>3 DEF Depositors, Provisional, Prior
<1>7. BooksBalance'
  BY <1>1, <1>2, <1>6, VaultFields DEF IInv, BooksBalance
<1>8. Solvent'
  <2>1. Owed \in [Player -> Nat] /\ Owed' \in [Player -> Nat]
    BY <1>1, SumTypes, NextSumTypes
  <2>2. Owed[p] = amount /\ Owed'[p] = 0
    BY <1>1, <1>3 DEF Owed, Inside, Depositors
  <2>3. \A q \in Player \ {p} : Owed'[q] = Owed[q]
    BY <1>1, <1>2, <1>3 DEF Owed, Inside, Depositors
  <2>4. Total(Owed') = Total(Owed) - Owed[p] + 0
    BY <2>1, <2>2, <2>3, PlayerAssumption, TotalUpdate
  <2>5. Total(Owed) \in Nat
    BY <2>1, PlayerAssumption, TotalType
  <2>6. QED
    BY <1>1, <2>2, <2>4, <2>5 DEF IInv, Solvent
<1>9. QED
  BY <1>4, <1>5, <1>7, <1>8 DEF IInv

LEMMA RecoverKeeps ==
  ASSUME IInv, NEW p \in Player, Recover(p), TypeOK'
  PROVE  IInv'
<1>1. TypeOK /\ vault \in Vaults /\ vault.status = "open" /\ held \in Nat
      /\ entry[p].is_initialized /\ ~entry[p].claimed /\ Prior(p) \in Nat /\ Seat \in Nat
      /\ held' = held - RecoverAmount(p) /\ EntryWellFormed(p)
  BY EntryFields, VaultFields DEF IInv, TypeOK, Recover, MayRecover, IsOpen, Payable
<1>2. RecoverAmount(p) = Seat
  BY <1>1 DEF RecoverAmount, Seat, EntryWellFormed
<1>3. /\ vault'.status = "open" /\ vault'.vault_amount = vault.vault_amount /\ Seat' = Seat
      /\ vault'.settled_total = vault.settled_total - Prior(p)
      /\ vault'.claimed_total = vault.claimed_total + Seat
      /\ vault'.deposited = vault.deposited
      /\ vault'.total_escrowed = vault.total_escrowed
  BY <1>1, <1>2, RecoverVault DEF Seat
<1>4. /\ entry'[p].is_initialized /\ ~entry'[p].settled /\ entry'[p].claimed
      /\ entry'[p].entitlement = 0 /\ entry'[p].vault_deposit = entry[p].vault_deposit
      /\ \A q \in Player \ {p} : entry'[q] = entry[q]
  BY <1>1, RecoverEntry
<1>5. BlankVault'
  BY <1>3 DEF BlankVault
<1>6. ASSUME NEW q \in Player
      PROVE  EntryWellFormed(q)'
  <2>1. CASE q = p
    BY <2>1, <1>1, <1>3, <1>4 DEF IInv, EntryWellFormed
  <2>2. CASE q # p
    BY <2>2, <1>1, <1>3, <1>4 DEF IInv, EntryWellFormed
  <2>3. QED
    BY <2>1, <2>2
<1>7. Depositors' = Depositors
  BY <1>1, <1>4 DEF Depositors
<1>8. BooksBalance'
  <2>1. Provisional \in [Player -> Nat] /\ Provisional' \in [Player -> Nat]
    BY <1>1, SumTypes, NextSumTypes
  <2>2. Provisional[p] = Prior(p) /\ Provisional'[p] = 0
    BY <1>4 DEF Provisional, Prior
  <2>3. \A q \in Player \ {p} : Provisional'[q] = Provisional[q]
    BY <1>4 DEF Provisional, Prior
  <2>4. Total(Provisional') = Total(Provisional) - Prior(p) + 0
    BY <2>1, <2>2, <2>3, PlayerAssumption, TotalUpdate
  <2>5. Total(Provisional) \in Nat
    BY <2>1, PlayerAssumption, TotalType
  <2>6. QED
    BY <1>1, <1>2, <1>3, <1>7, <2>4, <2>5, VaultFields DEF IInv, BooksBalance
<1>9. Solvent'
  <2>1. Owed \in [Player -> Nat] /\ Owed' \in [Player -> Nat]
    BY <1>1, SumTypes, NextSumTypes
  <2>2. Owed[p] = Seat /\ Owed'[p] = 0
    BY <1>1, <1>4 DEF Owed, Inside, Depositors
  <2>3. \A q \in Player \ {p} : Owed'[q] = Owed[q]
    BY <1>1, <1>3, <1>4 DEF Owed, Inside, Depositors
  <2>4. Total(Owed') = Total(Owed) - Owed[p] + 0
    BY <2>1, <2>2, <2>3, PlayerAssumption, TotalUpdate
  <2>5. Total(Owed) \in Nat
    BY <2>1, PlayerAssumption, TotalType
  <2>6. QED
    BY <1>1, <1>2, <2>2, <2>4, <2>5 DEF IInv, Solvent
<1>10. QED
  BY <1>5, <1>6, <1>8, <1>9 DEF IInv

LEMMA InitIInv == Init => IInv
<1> SUFFICES ASSUME Init
             PROVE  IInv
  OBVIOUS
<1>1. TypeOK
  BY FundsAssumption, FeeAssumption, ArgumentsAssumption
     DEF Init, TypeOK, NoVault, NoFee, NoEntry, Vaults, Fees, Entries
<1>2. \A p \in Player : entry[p] = NoEntry /\ ~entry[p].is_initialized /\ ~entry[p].settled
                        /\ ~entry[p].claimed /\ entry[p].entitlement = 0
  BY DEF Init, NoEntry
<1>3. BlankVault /\ \A p \in Player : EntryWellFormed(p)
  BY <1>2 DEF Init, BlankVault, EntryWellFormed
<1>4. Depositors = {} /\ Inside = {}
  BY <1>2 DEF Depositors, Inside
<1>5. Owed \in [Player -> Nat] /\ Provisional \in [Player -> Nat]
  BY <1>1, SumTypes
<1>6. \A p \in Player : Owed[p] = 0 /\ Provisional[p] = 0
  BY <1>2, <1>4 DEF Owed, Provisional, Prior
<1>7. Total(Owed) = 0 /\ Total(Provisional) = 0
  BY <1>5, <1>6, TotalZero
<1>8. /\ vault.deposited = 0 /\ vault.settled_total = 0 /\ vault.total_escrowed = 0
      /\ vault.claimed_total = 0 /\ held = 0
  BY DEF Init, NoVault
<1>9. BooksBalance /\ Solvent
  BY <1>4, <1>7, <1>8, FS_EmptySet DEF BooksBalance, Solvent
<1>10. QED
  BY <1>1, <1>3, <1>9 DEF IInv

LEMMA NextIInv == IInv /\ [Next]_vars => IInv'
<1> SUFFICES ASSUME IInv, [Next]_vars
             PROVE  IInv'
  OBVIOUS
<1>0. TypeOK'
  BY TypeInductive DEF IInv
<1>1. ASSUME NEW e \in Amounts, NEW v \in Amounts, NEW c \in Capacities,
             NEW d \in Deadlines, NEW f \in FeeConfigs, InitRound(e, v, c, d, f)
      PROVE  IInv'
  BY <1>0, <1>1, InitRoundKeeps
<1>2. ASSUME NEW p \in Player, Deposit(p)
      PROVE  IInv'
  BY <1>0, <1>2, DepositKeeps
<1>3. ASSUME NEW p \in Player, NEW x \in U64, SettlePlayer(p, x)
      PROVE  IInv'
  BY <1>0, <1>3, SettlePlayerKeeps
<1>4. ASSUME NEW list \in EntryLists, NEW refund \in BOOLEAN, CloseSettlement(list, refund)
      PROVE  IInv'
  BY <1>0, <1>4, CloseSettlementKeeps
<1>5. ASSUME NEW p \in Player, Claim(p)
      PROVE  IInv'
  BY <1>0, <1>5, ClaimKeeps
<1>6. ASSUME NEW p \in Player, Recover(p)
      PROVE  IInv'
  BY <1>0, <1>6, RecoverKeeps
<1>7. ASSUME vault' = vault, entry' = entry, held' = held
      PROVE  IInv'
  <2>1. /\ Depositors' = Depositors /\ Inside' = Inside /\ Seat' = Seat
        /\ Owed' = Owed /\ Provisional' = Provisional
    BY <1>7 DEF Depositors, Inside, Seat, Owed, Provisional, Prior
  <2>2. \A p \in Player : EntryWellFormed(p)'
    BY <1>7, <2>1 DEF IInv, EntryWellFormed, AccountedFor
  <2>3. QED
    BY <1>0, <1>7, <2>1, <2>2 DEF IInv, BlankVault, BooksBalance, Solvent
<1>8. QED
  BY <1>1, <1>2, <1>3, <1>4, <1>5, <1>6, <1>7 DEF Next, Tick, vars

THEOREM InductiveInvariant == Spec => []IInv
BY InitIInv, NextIInv, PTL DEF Spec

-----------------------------------------------------------------------------
(* Whatever the host settles and whoever recovers, the vault's running totals are the true
   totals over its entries, and the token account holds exactly what depositors can still
   withdraw. *)
THEOREM BooksAlwaysBalance == Spec => []BooksBalance
BY InductiveInvariant, PTL DEF IInv

THEOREM AlwaysSolvent == Spec => []Solvent
BY InductiveInvariant, PTL DEF IInv

(* No reachable state makes the program refuse, for want of funds, of arithmetic or of a
   settled entry, the withdrawal a depositor is still owed. *)
THEOREM NeverStranded == Spec => []NobodyStranded
<1>1. IInv => NobodyStranded
  <2> SUFFICES ASSUME IInv, NEW p \in Inside
               PROVE  IF vault.status = "open"
                      THEN Payable(p, RecoverAmount(p)) /\ vault.settled_total >= Prior(p)
                      ELSE MayClaim(p) /\ Payable(p, entry[p].entitlement)
    BY DEF NobodyStranded
  <2>1. /\ TypeOK /\ vault \in Vaults /\ held \in Nat /\ p \in Player
        /\ entry[p].is_initialized /\ ~entry[p].claimed /\ EntryWellFormed(p)
    BY DEF IInv, TypeOK, Inside, Depositors
  <2>2. Owed \in [Player -> Nat] /\ Provisional \in [Player -> Nat]
    BY <2>1, SumTypes
  <2>3. Owed[p] <= held
    BY <2>1, <2>2, PlayerAssumption, SummandBound DEF IInv, Solvent
  <2>4. Prior(p) <= vault.settled_total
    <3>1. Provisional[p] = Prior(p)
      BY <2>1 DEF Provisional
    <3>2. QED
      BY <2>1, <2>2, <3>1, PlayerAssumption, SummandBound DEF IInv, BooksBalance
  <2>5. vault.claimed_total + held = vault.total_escrowed /\ vault.total_escrowed <= MaxU64
    BY <2>1, VaultFields DEF IInv, BooksBalance
  <2>6. CASE vault.status = "open"
    <3>1. RecoverAmount(p) = Seat /\ Owed[p] = Seat /\ Seat <= MaxU64
      BY <2>1, <2>6 DEF RecoverAmount, Seat, EntryWellFormed, Owed, Inside, Depositors
    <3>2. QED
      BY <2>1, <2>3, <2>4, <2>5, <2>6, <3>1, VaultFields, EntryFields, ArgumentsAssumption
         DEF Payable
  <2>7. CASE vault.status # "open"
    <3>1. vault.status = "settled" /\ entry[p].settled
      BY <2>1, <2>7 DEF Vaults, EntryWellFormed, AccountedFor
    <3>2. Owed[p] = entry[p].entitlement
      BY <2>1, <3>1 DEF Owed, Inside, Depositors
    <3>3. QED
      BY <2>1, <2>3, <2>5, <2>7, <3>1, <3>2, VaultFields, EntryFields, ArgumentsAssumption
         DEF Payable, MayClaim
  <2>8. QED
    BY <2>6, <2>7
<1>2. QED
  BY <1>1, InductiveInvariant, PTL
-----------------------------------------------------------------------------
(* What the vault has taken from p less what it has paid p. *)
Paid(p) == IF p \in Depositors THEN Seat ELSE 0
Returned(p) ==
    IF ~entry[p].claimed THEN 0
    ELSE IF entry[p].settled THEN entry[p].entitlement - FeeOn(entry[p].entitlement)
    ELSE Seat

(* A balance stays right when the wallet, the entry and the terms of the vault do not move. *)
LEMMA BalanceKept ==
  ASSUME TypeOK, NEW q \in Player, wallet[q] = Funds[q] - Paid(q) + Returned(q),
         wallet'[q] = wallet[q], entry'[q] = entry[q], Seat' = Seat, fee' = fee
  PROVE  wallet'[q] = Funds[q] - Paid(q)' + Returned(q)'
<1>1. Paid(q)' = Paid(q)
  BY DEF Paid, Depositors
<1>2. Returned(q)' = Returned(q)
  BY DEF Returned, FeeOn
<1>3. QED
  BY <1>1, <1>2

LEMMA BalancesInductive ==
  IInv /\ PaidExactlyOnce /\ [Next]_vars => PaidExactlyOnce'
<1> SUFFICES ASSUME IInv, PaidExactlyOnce, [Next]_vars, NEW q \in Player
             PROVE  wallet'[q] = Funds[q] - Paid(q)' + Returned(q)'
  BY DEF PaidExactlyOnce, Paid, Returned
<1>0. /\ TypeOK /\ vault \in Vaults /\ wallet \in [Player -> Nat]
      /\ wallet[q] = Funds[q] - Paid(q) + Returned(q)
      /\ Seat \in Nat /\ Funds[q] \in Nat
  BY FundsAssumption, VaultFields DEF IInv, TypeOK, PaidExactlyOnce, Paid, Returned
<1>1. ASSUME NEW e \in Amounts, NEW v \in Amounts, NEW c \in Capacities,
             NEW d \in Deadlines, NEW f \in FeeConfigs, InitRound(e, v, c, d, f)
      PROVE  wallet'[q] = Funds[q] - Paid(q)' + Returned(q)'
  <2>1. ~entry[q].is_initialized /\ ~entry[q].claimed /\ entry' = entry /\ wallet' = wallet
    BY <1>1 DEF IInv, BlankVault, InitRound, NoEntry
  <2>2. Paid(q) = 0 /\ Returned(q) = 0 /\ Paid(q)' = 0 /\ Returned(q)' = 0
    BY <2>1 DEF Paid, Returned, Depositors
  <2>3. QED
    BY <1>0, <2>1, <2>2
<1>2. ASSUME NEW p \in Player, Deposit(p)
      PROVE  wallet'[q] = Funds[q] - Paid(q)' + Returned(q)'
  <2>1. /\ Seat' = Seat /\ wallet' = [wallet EXCEPT ![p] = @ - Seat] /\ fee' = fee
        /\ ~entry[p].is_initialized
    BY <1>0, <1>2, DepositVault DEF Deposit, Seat
  <2>2. CASE q = p
    <3>1. ~entry[q].claimed
      BY <2>1, <2>2 DEF IInv, EntryWellFormed, NoEntry
    <3>2. Paid(q) = 0 /\ Returned(q) = 0 /\ Paid(q)' = Seat /\ Returned(q)' = 0
      BY <1>0, <1>2, <2>1, <2>2, <3>1, DepositEntry DEF Paid, Returned, Depositors
    <3>3. QED
      BY <1>0, <2>1, <2>2, <3>2
  <2>3. CASE q # p
    BY <1>0, <1>2, <2>1, <2>3, DepositEntry, BalanceKept
  <2>4. QED
    BY <2>2, <2>3
<1>3. ASSUME NEW p \in Player, NEW x \in U64, SettlePlayer(p, x)
      PROVE  wallet'[q] = Funds[q] - Paid(q)' + Returned(q)'
  <2>1. /\ Seat' = Seat /\ wallet' = wallet /\ fee' = fee
        /\ entry[p].is_initialized /\ ~entry[p].claimed
    BY <1>0, <1>3, SettlePlayerVault DEF SettlePlayer, Seat
  <2>2. CASE q = p
    <3>1. Paid(q)' = Paid(q) /\ Returned(q) = 0 /\ Returned(q)' = 0
      BY <1>0, <1>3, <2>1, <2>2, SettlePlayerEntry DEF Paid, Returned, Depositors
    <3>2. QED
      BY <1>0, <2>1, <3>1
  <2>3. CASE q # p
    BY <1>0, <1>3, <2>1, <2>3, SettlePlayerEntry, BalanceKept
  <2>4. QED
    BY <2>2, <2>3
<1>4. ASSUME NEW list \in EntryLists, NEW refund \in BOOLEAN, CloseSettlement(list, refund)
      PROVE  wallet'[q] = Funds[q] - Paid(q)' + Returned(q)'
  <2>1. /\ Seat' = Seat /\ wallet' = wallet /\ entry' = entry /\ vault.status = "open"
    BY <1>0, <1>4, CloseVault DEF CloseSettlement, IsOpen, Seat
  <2>2. entry[q].claimed => ~entry[q].settled
    BY <2>1 DEF IInv, EntryWellFormed
  <2>3. Paid(q)' = Paid(q) /\ Returned(q)' = Returned(q)
    BY <2>1, <2>2 DEF Paid, Returned, Depositors
  <2>4. QED
    BY <1>0, <2>1, <2>3
<1>5. ASSUME NEW p \in Player, Claim(p)
      PROVE  wallet'[q] = Funds[q] - Paid(q)' + Returned(q)'
  <2> DEFINE amount == entry[p].entitlement
  <2>1. Seat' = Seat /\ fee' = fee /\ ~entry[p].claimed /\ entry[p].is_initialized
    BY <1>0, <1>5, ClaimVault DEF Claim, Payable, Seat
  <2>2. FeeOn(amount) \in 0..amount /\ amount \in Nat
    BY <1>0, FeeBound, EntryFields
  <2>3. CASE q = p
    <3>1. Paid(q)' = Paid(q) /\ Returned(q) = 0 /\ Returned(q)' = amount - FeeOn(amount)
      BY <1>0, <1>5, <2>1, <2>3, ClaimEntry DEF Paid, Returned, Depositors, FeeOn
    <3>2. wallet'[q] = wallet[q] + (amount - FeeOn(amount))
      BY <1>0, <1>5, <2>2, <2>3 DEF Claim, ToPlayer
    <3>3. QED
      BY <1>0, <2>2, <3>1, <3>2 DEF Paid
  <2>4. CASE q # p
    <3>1. wallet'[q] = wallet[q]
      BY <1>0, <1>5, <2>4 DEF Claim
    <3>2. QED
      BY <1>0, <1>5, <2>1, <2>4, <3>1, ClaimEntry, BalanceKept
  <2>5. QED
    BY <2>3, <2>4
<1>6. ASSUME NEW p \in Player, Recover(p)
      PROVE  wallet'[q] = Funds[q] - Paid(q)' + Returned(q)'
  <2>1. /\ Seat' = Seat /\ fee' = fee /\ ~entry[p].claimed /\ entry[p].is_initialized
        /\ EntryWellFormed(p) /\ wallet' = [wallet EXCEPT ![p] = @ + RecoverAmount(p)]
    BY <1>0, <1>6, RecoverVault DEF Recover, Payable, Seat, IInv
  <2>2. RecoverAmount(p) = Seat
    BY <2>1 DEF RecoverAmount, Seat, EntryWellFormed
  <2>3. CASE q = p
    <3>1. Paid(q)' = Paid(q) /\ Returned(q) = 0 /\ Returned(q)' = Seat
      BY <1>0, <1>6, <2>1, <2>3, RecoverEntry DEF Paid, Returned, Depositors
    <3>2. QED
      BY <1>0, <2>1, <2>2, <2>3, <3>1 DEF Paid
  <2>4. CASE q # p
    BY <1>0, <1>6, <2>1, <2>4, RecoverEntry, BalanceKept
  <2>5. QED
    BY <2>3, <2>4
<1>7. ASSUME vault' = vault, entry' = entry, wallet' = wallet, fee' = fee
      PROVE  wallet'[q] = Funds[q] - Paid(q)' + Returned(q)'
  <2>1. Seat' = Seat
    BY <1>7 DEF Seat
  <2>2. QED
    BY <1>0, <1>7, <2>1, BalanceKept
<1>8. QED
  BY <1>1, <1>2, <1>3, <1>4, <1>5, <1>6, <1>7 DEF Next, Tick, vars

(* A seat is paid for once and paid out once, whole when it is recovered and less exactly the
   vault's fee when it is claimed. *)
THEOREM EveryBalanceExact == Spec => []PaidExactlyOnce
<1>1. Init => PaidExactlyOnce
  <2> SUFFICES ASSUME Init, NEW p \in Player
               PROVE  wallet[p] = Funds[p] - Paid(p) + Returned(p)
    BY DEF PaidExactlyOnce, Paid, Returned
  <2>1. ~entry[p].is_initialized /\ ~entry[p].claimed /\ wallet[p] = Funds[p]
    BY DEF Init, NoEntry
  <2>2. Paid(p) = 0 /\ Returned(p) = 0 /\ Funds[p] \in Nat
    BY <2>1, FundsAssumption DEF Paid, Returned, Depositors
  <2>3. QED
    BY <2>1, <2>2
<1>2. QED
  BY <1>1, InductiveInvariant, BalancesInductive, PTL DEF Spec

(* Once CloseSettlement has unlocked the claims, nothing the host or anybody else sends changes
   what anybody may claim. *)
THEOREM ClosedIsFinal == Spec => SettlementFinal
<1> DEFINE Final == vault.status = "settled" =>
                      /\ vault'.status = "settled"
                      /\ vault'.total_escrowed = vault.total_escrowed
                      /\ \A p \in Player : entry'[p].entitlement = entry[p].entitlement
                      /\ fee' = fee
<1>1. IInv /\ [Next]_vars => [Final]_vars
  <2> SUFFICES ASSUME IInv, Next, vault.status = "settled"
               PROVE  Final
    BY DEF vars
  <2>1. TypeOK
    BY DEF IInv
  <2>2. ASSUME NEW p \in Player, Claim(p)
        PROVE  Final
    BY <2>1, <2>2, ClaimVault, ClaimEntry DEF Claim
  <2>3. CASE Tick
    BY <2>3 DEF Tick
  <2>4. QED
    BY <2>2, <2>3
       DEF Next, InitRound, Deposit, SettlePlayer, CloseSettlement, Recover, MayRecover, IsOpen
<1>2. QED
  BY <1>1, InductiveInvariant, PTL DEF Spec, SettlementFinal

-----------------------------------------------------------------------------
(* The program implements Custody: every instruction is a step of the promise, or one that it
   does not show. *)

Stage == CASE vault.status = "none" -> "none"
           [] vault.status = "open" -> "collecting"
           [] vault.status = "settled" -> "paying"
Gone == Depositors \ Inside
Share == [p \in Player |-> IF vault.status = "settled" THEN Owed[p] ELSE 0]

LEMMA Stages ==
  ASSUME TypeOK
  PROVE  /\ Stage = "none" <=> vault.status = "none"
         /\ Stage = "collecting" <=> vault.status = "open"
         /\ Stage = "paying" <=> vault.status = "settled"
<1>1. vault.status \in {"none", "open", "settled"}
  BY VaultFields DEF TypeOK, Vaults
<1>2. QED
  BY <1>1 DEF Stage

LEMMA NextStages ==
  (TypeOK => /\ Stage = "none" <=> vault.status = "none"
             /\ Stage = "collecting" <=> vault.status = "open"
             /\ Stage = "paying" <=> vault.status = "settled")'
BY Stages, PTL

(* The sum of the promise is that of the program. *)
LEMMA SameTotal == \A f : Promise!Total(f) = Total(f)
BY DEF Promise!Total, Promise!Units, Promise!Cardinality, Total, Units, Cardinality

LEMMA InitIsPromised == Init => Promise!CustodyInit
<1> SUFFICES ASSUME Init PROVE Promise!CustodyInit
  OBVIOUS
<1>1. TypeOK /\ \A p \in Player : ~entry[p].is_initialized
  BY InitIInv DEF IInv, Init, NoEntry
<1>2. Depositors = {} /\ Inside = {}
  BY <1>1 DEF Depositors, Inside
<1>3. vault.status = "none" /\ Seat = 0 /\ held = 0
  BY DEF Init, NoVault, Seat
<1>4. Stage = "none"
  BY <1>1, <1>3, Stages
<1>5. Share = [p \in Player |-> 0]
  BY <1>3 DEF Share
<1>6. QED
  BY <1>2, <1>3, <1>4, <1>5 DEF Promise!CustodyInit, Promise!NoShares, Stage, Share

LEMMA InitRoundOpens ==
  ASSUME IInv, TypeOK', NEW e \in Amounts, NEW v \in Amounts, NEW c \in Capacities,
         NEW d \in Deadlines, NEW f \in FeeConfigs, InitRound(e, v, c, d, f)
  PROVE  Promise!Open
<1>1. /\ TypeOK /\ vault = NoVault /\ entry' = entry /\ held' = held
      /\ \A p \in Player : entry[p] = NoEntry
      /\ e # 0 /\ v # 0 /\ e \in Nat /\ v \in Nat
  BY ArgumentsAssumption DEF IInv, BlankVault, InitRound, U64
<1>2. Depositors = {} /\ Depositors' = {} /\ Inside = {} /\ Inside' = {}
  BY <1>1 DEF Depositors, Inside, NoEntry
<1>3. vault.status = "none" /\ vault'.status = "open" /\ Seat' = e + v
  BY <1>1 DEF InitRound, NoVault, Seat
<1>4. Stage = "none" /\ Stage' = "collecting"
  BY <1>1, <1>3, Stages, NextStages
<1>5. Share' = Share
  BY <1>3 DEF Share
<1>6. Seat' \in Nat \ {0}
  BY <1>1, <1>3
<1>7. QED
  BY <1>1, <1>2, <1>4, <1>5, <1>6 DEF Promise!Open, Stage, Share

LEMMA DepositJoins ==
  ASSUME IInv, TypeOK', NEW p \in Player, Deposit(p)
  PROVE  Promise!Join(p)
<1>1. /\ TypeOK /\ vault.status = "open" /\ ~entry[p].is_initialized
      /\ vault'.status = "open" /\ Seat' = Seat /\ held' = held + Seat
  BY DepositVault DEF IInv, Deposit, IsOpen, Seat
<1>2. /\ entry'[p].is_initialized /\ ~entry'[p].claimed
      /\ \A q \in Player \ {p} : entry'[q] = entry[q]
  BY <1>1, DepositEntry
<1>3. Depositors' = Depositors \cup {p} /\ Inside' = Inside \cup {p}
  BY <1>1, <1>2 DEF Depositors, Inside
<1>4. p \notin Inside \cup Gone /\ Gone' = Gone
  BY <1>1, <1>3 DEF Depositors, Inside, Gone
<1>5. Stage = "collecting" /\ Stage' = Stage
  BY <1>1, Stages, NextStages
<1>6. Share' = Share
  BY <1>1 DEF Share
<1>7. QED
  BY <1>1, <1>3, <1>4, <1>5, <1>6 DEF Promise!Join, Stage, Share, Gone

LEMMA CloseDivides ==
  ASSUME IInv, IInv', NEW list \in EntryLists, NEW refund \in BOOLEAN, CloseSettlement(list, refund)
  PROVE  Promise!Divide
<1>1. /\ TypeOK /\ TypeOK' /\ vault.status = "open" /\ entry' = entry /\ held' = held /\ held \in Nat
      /\ vault'.status = "settled" /\ Seat' = Seat
  BY CloseVault DEF IInv, CloseSettlement, IsOpen, Seat, TypeOK
<1>2. Depositors' = Depositors /\ Inside' = Inside /\ Gone' = Gone
  BY <1>1 DEF Depositors, Inside, Gone
<1>3. Stage = "collecting" /\ Stage' = "paying"
  BY <1>1, Stages, NextStages
<1>4. Owed' \in [Player -> Nat] /\ Total(Owed') = held
  BY <1>1, NextSumTypes DEF IInv, Solvent
<1>5. Share' = Owed'
  BY <1>1, <1>4 DEF Share
<1>6. Share' \in [Player -> 0..held]
  <2>1. \A p \in Player : Owed'[p] <= held
    BY <1>4, PlayerAssumption, SummandBound
  <2>2. QED
    BY <1>1, <1>4, <1>5, <2>1
<1>7. \A p \in Player \ Inside : Share'[p] = 0
  BY <1>1, <1>2, <1>5 DEF Owed
<1>8. Promise!Total(Share') = held
  BY <1>4, <1>5, SameTotal
<1>9. QED
  BY <1>1, <1>2, <1>3, <1>6, <1>7, <1>8 DEF Promise!Divide, Stage, Share, Gone

(* A withdrawal takes a wallet and its money out. *)
LEMMA ClaimTakes ==
  ASSUME IInv, TypeOK', NEW p \in Player, Claim(p)
  PROVE  Promise!Take(p)
<1>1. /\ TypeOK /\ vault.status = "settled" /\ entry[p].is_initialized /\ ~entry[p].claimed
      /\ held' = held - entry[p].entitlement
      /\ vault'.status = "settled" /\ Seat' = Seat
  BY ClaimVault DEF IInv, Claim, MayClaim, Payable, Seat
<1>2. /\ entry'[p].is_initialized /\ entry'[p].claimed
      /\ \A q \in Player \ {p} : entry'[q] = entry[q]
  BY <1>1, ClaimEntry
<1>3. Depositors' = Depositors /\ Inside' = Inside \ {p} /\ p \in Inside
  BY <1>1, <1>2 DEF Depositors, Inside
<1>4. Gone' = Gone \cup {p}
  BY <1>3 DEF Gone, Inside
<1>5. Stage = "paying" /\ Stage' = Stage
  BY <1>1, Stages, NextStages
<1>6. Share[p] = entry[p].entitlement
  BY <1>1, <1>3 DEF Share, Owed
<1>7. Share' = [Share EXCEPT ![p] = 0]
  BY <1>1, <1>2, <1>3 DEF Share, Owed
<1>8. QED
  BY <1>1, <1>3, <1>4, <1>5, <1>6, <1>7 DEF Promise!Take, Stage, Share, Gone

LEMMA RecoverLeaves ==
  ASSUME IInv, TypeOK', NEW p \in Player, Recover(p)
  PROVE  Promise!Leave(p)
<1>1. /\ TypeOK /\ vault.status = "open" /\ entry[p].is_initialized /\ ~entry[p].claimed
      /\ EntryWellFormed(p) /\ held' = held - RecoverAmount(p)
  BY DEF IInv, Recover, MayRecover, IsOpen, Payable
<1>2. RecoverAmount(p) = Seat
  BY <1>1 DEF RecoverAmount, Seat, EntryWellFormed
<1>3. vault'.status = "open" /\ Seat' = Seat
  BY <1>1, RecoverVault DEF Seat
<1>4. /\ entry'[p].is_initialized /\ entry'[p].claimed
      /\ \A q \in Player \ {p} : entry'[q] = entry[q]
  BY <1>1, RecoverEntry
<1>5. Depositors' = Depositors /\ Inside' = Inside \ {p} /\ p \in Inside
  BY <1>1, <1>4 DEF Depositors, Inside
<1>6. Gone' = Gone \cup {p}
  BY <1>5 DEF Gone, Inside
<1>7. Stage = "collecting" /\ Stage' = Stage
  BY <1>1, <1>3, Stages, NextStages
<1>8. Share' = Share
  BY <1>1, <1>3 DEF Share
<1>9. QED
  BY <1>1, <1>2, <1>3, <1>5, <1>6, <1>7, <1>8 DEF Promise!Leave, Stage, Share, Gone

(* Provisional settlements and the passing of time are not shown. *)
LEMMA HiddenSteps ==
  ASSUME IInv, TypeOK',
         \/ \E p \in Player, x \in U64 : SettlePlayer(p, x)
         \/ vault' = vault /\ entry' = entry /\ held' = held
  PROVE  UNCHANGED Promise!custodyVars
<1>1. /\ TypeOK /\ vault'.status = vault.status /\ Seat' = Seat /\ held' = held
      /\ \A q \in Player : /\ entry'[q].is_initialized = entry[q].is_initialized
                           /\ entry'[q].claimed = entry[q].claimed
      /\ vault.status = "settled" => entry' = entry
  <2>1. CASE vault' = vault /\ entry' = entry /\ held' = held
    BY <2>1 DEF IInv, Seat
  <2>2. ASSUME NEW p \in Player, NEW x \in U64, SettlePlayer(p, x)
        PROVE  <1>1!:
    <3>1. TypeOK /\ vault.status = "open" /\ held' = held /\ entry[p].is_initialized /\ ~entry[p].claimed
      BY <2>2 DEF IInv, SettlePlayer, IsOpen
    <3>2. vault'.status = vault.status /\ Seat' = Seat
      BY <2>2, <3>1, SettlePlayerVault DEF Seat
    <3>3. \A q \in Player : /\ entry'[q].is_initialized = entry[q].is_initialized
                            /\ entry'[q].claimed = entry[q].claimed
      BY <2>2, <3>1 DEF SettlePlayer, TypeOK, Entries
    <3>4. QED
      BY <3>1, <3>2, <3>3
  <2>3. QED
    BY <2>1, <2>2
<1>2. Depositors' = Depositors /\ Inside' = Inside /\ Gone' = Gone
  BY <1>1 DEF Depositors, Inside, Gone
<1>3. Stage' = Stage
  BY <1>1 DEF Stage
<1>4. Share' = Share
  BY <1>1, <1>2 DEF Share, Owed
<1>5. QED
  BY <1>1, <1>2, <1>3, <1>4 DEF Promise!custodyVars, Stage, Share, Gone

LEMMA StepIsPromised ==
  ASSUME IInv, IInv', [Next]_vars
  PROVE  [Promise!CustodyNext]_(Promise!custodyVars)
<1>0. TypeOK'
  BY DEF IInv
<1>1. ASSUME NEW e \in Amounts, NEW v \in Amounts, NEW c \in Capacities,
             NEW d \in Deadlines, NEW f \in FeeConfigs, InitRound(e, v, c, d, f)
      PROVE  Promise!CustodyNext
  BY <1>0, <1>1, InitRoundOpens DEF Promise!CustodyNext
<1>2. ASSUME NEW p \in Player, Deposit(p)
      PROVE  Promise!CustodyNext
  BY <1>0, <1>2, DepositJoins DEF Promise!CustodyNext
<1>3. ASSUME NEW list \in EntryLists, NEW refund \in BOOLEAN, CloseSettlement(list, refund)
      PROVE  Promise!CustodyNext
  BY <1>3, CloseDivides DEF Promise!CustodyNext
<1>4. ASSUME NEW p \in Player, Claim(p)
      PROVE  Promise!CustodyNext
  BY <1>0, <1>4, ClaimTakes DEF Promise!CustodyNext
<1>5. ASSUME NEW p \in Player, Recover(p)
      PROVE  Promise!CustodyNext
  BY <1>0, <1>5, RecoverLeaves DEF Promise!CustodyNext
<1>6. CASE \/ \E p \in Player, x \in U64 : SettlePlayer(p, x)
           \/ vault' = vault /\ entry' = entry /\ held' = held
  BY <1>0, <1>6, HiddenSteps
<1>7. QED
  BY <1>1, <1>2, <1>3, <1>4, <1>5, <1>6 DEF Next, Tick, vars

(* Every behaviour of the program is one the promise allows: the pot is divided once,
   completely, among those inside, and each of them takes its share once. *)
THEOREM KeepsItsPromise == Spec => ImplementsCustody
<1>1. Init => Promise!CustodyInit
  BY InitIsPromised
<1>2. IInv /\ IInv' /\ [Next]_vars => [Promise!CustodyNext]_(Promise!custodyVars)
  BY StepIsPromised
<1>3. QED
  BY <1>1, <1>2, InductiveInvariant, PTL DEF Spec, ImplementsCustody, Promise!CustodySpec

-----------------------------------------------------------------------------
(* The settlement service.  What the game record says of a settlement is true for good, and every
   seat that is due back comes back whole. *)

(* The records of the state keep the fields Init gives them. *)
RoundShape ==
    round = [status |-> round.status, endedAt |-> round.endedAt, seats |-> round.seats,
             prize |-> round.prize, cash |-> round.cash, recorded |-> round.recorded,
             nothingToRefund |-> round.nothingToRefund]
VaultShape ==
    vault = [status |-> vault.status, entry_amount |-> vault.entry_amount,
             vault_amount |-> vault.vault_amount, capacity |-> vault.capacity,
             deposited |-> vault.deposited, pool_total |-> vault.pool_total,
             total_escrowed |-> vault.total_escrowed, settled_total |-> vault.settled_total,
             claimed_total |-> vault.claimed_total, settle_deadline |-> vault.settle_deadline]
JobShape ==
    job = [at |-> job.at, expect |-> job.expect, escrowed |-> job.escrowed, todo |-> job.todo]
FlightShape ==
    flight = [kind |-> flight.kind, batch |-> flight.batch, list |-> flight.list,
              refund |-> flight.refund, outcome |-> flight.outcome]

TimesOK ==
    /\ now \in Nat
    /\ round.endedAt \in Nat
    /\ signedAt \in [Player -> Nat \cup {Unsigned}]
    /\ \A p \in Player : signedAt[p] <= now

(* A job about to record, or told that its close landed, has seen the vault settled. *)
SettledWhenSaid ==
    \/ round.recorded
    \/ job.at = "record"
    \/ flight.kind = "close" /\ flight.outcome = "confirmed"
    => vault.status = "settled"

(* No deposit is co-signed once the arena is cancelled. *)
SignedBeforeEnd == round.status = "cancelled" => \A p \in Player : signedAt[p] <= round.endedAt

(* The answer "nothing to refund" came when the last of them could not land any more. *)
RefundedLate ==
    round.nothingToRefund =>
        /\ round.status = "cancelled"
        /\ now >= round.endedAt + RefundSafety
        /\ vault.deposited = 0

RecordInv ==
    /\ RoundShape /\ VaultShape /\ JobShape /\ FlightShape
    /\ TimesOK
    /\ SettledWhenSaid
    /\ SignedBeforeEnd
    /\ RefundedLate

-----------------------------------------------------------------------------
(* What a transaction of the job does to the vault: nothing once it is settled, and a close
   settles it. *)
LEMMA ExecuteVault ==
  ASSUME VaultShape, NEW tx, Execute(tx)
  PROVE  /\ vault.status = "open"
         /\ vault'.deposited = vault.deposited
         /\ tx.kind # "settle" => vault'.status = "settled"
         /\ VaultShape'
         /\ now' = now
<1>1. CASE tx.kind = "settle"
  <2>1. BatchPasses(tx.batch) /\ now' = now
    BY <1>1 DEF Execute, SettleBatch
  <2>2. PICK total : vault' = [vault EXCEPT !.settled_total = total]
    BY <1>1 DEF Execute, SettleBatch
  <2>3. QED
    BY <1>1, <2>1, <2>2 DEF BatchPasses, IsOpen, VaultShape
<1>2. CASE tx.kind # "settle"
  BY <1>2 DEF Execute, CloseSettlement, IsOpen, VaultShape
<1>3. QED
  BY <1>1, <1>2

(* The initial state. *)
LEMMA RecordInit == SettlementInit => RecordInv
BY SettlementAssumption
   DEF SettlementInit, Init, NoVault, IdleJob, NoTx, Unsigned, RecordInv, RoundShape, VaultShape,
       JobShape, FlightShape, TimesOK, SettledWhenSaid, SignedBeforeEnd, RefundedLate

-----------------------------------------------------------------------------
(* One lemma for each part of the system. *)

(* The arena until it ends: no record has been made while it enrols or plays. *)
LEMMA ArenaSteps ==
  ASSUME RecordInv,
         \/ OpenArena \/ Cancel \/ Lock \/ Complete
         \/ \E p \in Player : SignDeposit(p) \/ TakeSeat(p)
  PROVE  RecordInv'
<1> USE DEF RecordInv
<1>1. CASE OpenArena
  BY <1>1 DEF OpenArena, InitRound, NoVault, jobVars, RoundShape, VaultShape, JobShape,
              FlightShape, TimesOK, SettledWhenSaid, SignedBeforeEnd, RefundedLate
<1>2. CASE Cancel
  BY <1>2 DEF Cancel, chainVars, jobVars, RoundShape, VaultShape, JobShape,
              FlightShape, TimesOK, SettledWhenSaid, SignedBeforeEnd, RefundedLate
<1>3. CASE Lock
  BY <1>3 DEF Lock, chainVars, jobVars, RoundShape, VaultShape, JobShape,
              FlightShape, TimesOK, SettledWhenSaid, SignedBeforeEnd, RefundedLate
<1>4. CASE Complete
  <2>1. PICK cash, prize : round' = [round EXCEPT !.status = "complete", !.endedAt = now,
                                                  !.cash = cash, !.prize = prize]
    BY <1>4 DEF Complete
  <2>2. round.status = "live" /\ UNCHANGED <<chainVars, signedAt, index, jobVars>>
    BY <1>4 DEF Complete
  <2>3. QED
    BY <2>1, <2>2 DEF chainVars, jobVars, RoundShape, VaultShape, JobShape,
              FlightShape, TimesOK, SettledWhenSaid, SignedBeforeEnd, RefundedLate
<1>5. ASSUME NEW p \in Player, SignDeposit(p) PROVE RecordInv'
  BY <1>5 DEF SignDeposit, chainVars, jobVars, RoundShape, VaultShape, JobShape,
              FlightShape, TimesOK, SettledWhenSaid, SignedBeforeEnd, RefundedLate
<1>6. ASSUME NEW p \in Player, TakeSeat(p) PROVE RecordInv'
  BY <1>6 DEF TakeSeat, chainVars, jobVars, RoundShape, VaultShape, JobShape,
              FlightShape, TimesOK, SettledWhenSaid, SignedBeforeEnd, RefundedLate
<1>7. QED
  BY <1>1, <1>2, <1>3, <1>4, <1>5, <1>6

(* A deposit lands while it may, and so never behind the last answer. *)
LEMMA LandStep ==
  ASSUME RecordInv, NEW p \in Player, LandDeposit(p)
  PROVE  RecordInv'
<1> USE DEF RecordInv
<1>1. ~round.nothingToRefund
  <2>1. SUFFICES ASSUME round.nothingToRefund PROVE FALSE
    OBVIOUS
  <2>2. /\ signedAt[p] \in Nat
        /\ signedAt[p] <= round.endedAt
        /\ now >= round.endedAt + RefundSafety
        /\ now <= signedAt[p] + DepositLife
    BY <2>1 DEF LandDeposit, TimesOK, SignedBeforeEnd, RefundedLate, Unsigned
  <2>3. QED
    BY <2>2, SettlementAssumption, RefundSafetyAssumption DEF TimesOK
<1>2. vault.status = "open" /\ now' = now /\ VaultShape' /\ vault'.status = vault.status
  BY DEF LandDeposit, Deposit, IsOpen, VaultShape
<1>3. QED
  BY <1>1, <1>2 DEF LandDeposit, jobVars, RoundShape, JobShape,
              FlightShape, TimesOK, SettledWhenSaid, SignedBeforeEnd, RefundedLate, Unsigned

(* Recoveries, time and the index. *)
LEMMA WorldSteps ==
  ASSUME RecordInv,
         PassTime \/ IndexCatchesUp \/ \E p \in Player : RecoverSeat(p)
  PROVE  RecordInv'
<1> USE DEF RecordInv
<1>1. CASE PassTime
  BY <1>1, SettlementAssumption DEF PassTime, Tick, jobVars, RoundShape, VaultShape, JobShape,
              FlightShape, TimesOK, SettledWhenSaid, SignedBeforeEnd, RefundedLate, Unsigned
<1>2. CASE IndexCatchesUp
  BY <1>2 DEF IndexCatchesUp, chainVars, jobVars, RoundShape, VaultShape, JobShape,
              FlightShape, TimesOK, SettledWhenSaid, SignedBeforeEnd, RefundedLate
<1>3. ASSUME NEW p \in Player, RecoverSeat(p) PROVE RecordInv'
  <2>1. PICK settled, claimed :
          vault' = [vault EXCEPT !.settled_total = settled, !.claimed_total = claimed]
    BY <1>3 DEF RecoverSeat, Recover
  <2>2. now' = now /\ UNCHANGED <<round, signedAt, index, jobVars>>
    BY <1>3 DEF RecoverSeat, Recover
  <2>3. QED
    BY <2>1, <2>2 DEF jobVars, RoundShape, VaultShape, JobShape,
              FlightShape, TimesOK, SettledWhenSaid, SignedBeforeEnd, RefundedLate
<1>4. QED
  BY <1>1, <1>2, <1>3

(* Transactions, also those nobody waits for: the job is told of a close only when it landed. *)
LEMMA ChainSteps ==
  ASSUME RecordInv, LandFlight \/ \E tx \in stale : LandStale(tx)
  PROVE  RecordInv'
<1> USE DEF RecordInv
<1>1. CASE LandFlight
  <2>1. CASE Passes(flight)
    <3>1. Execute(flight) /\ flight' = [flight EXCEPT !.outcome = "confirmed"]
      BY <1>1, <2>1 DEF LandFlight
    <3>2. UNCHANGED <<round, signedAt, index, job, stale, aborts>>
      BY <1>1 DEF LandFlight
    <3>3. /\ vault.status = "open" /\ vault'.deposited = vault.deposited
          /\ flight.kind # "settle" => vault'.status = "settled"
          /\ VaultShape' /\ now' = now
      BY <3>1, ExecuteVault
    <3>4. QED
      BY <3>1, <3>2, <3>3 DEF RoundShape, JobShape,
              FlightShape, TimesOK, SettledWhenSaid, SignedBeforeEnd, RefundedLate
  <2>2. CASE ~Passes(flight)
    BY <1>1, <2>2 DEF LandFlight, chainVars, RoundShape, VaultShape, JobShape,
              FlightShape, TimesOK, SettledWhenSaid, SignedBeforeEnd, RefundedLate
  <2>3. QED
    BY <2>1, <2>2
<1>2. ASSUME NEW tx \in stale, LandStale(tx) PROVE RecordInv'
  <2>1. UNCHANGED <<round, signedAt, index, job, flight, aborts>>
    BY <1>2 DEF LandStale
  <2>2. CASE Execute(tx)
    <3>1. /\ vault.status = "open" /\ vault'.deposited = vault.deposited
          /\ VaultShape' /\ now' = now
      BY <2>2, ExecuteVault
    <3>2. QED
      BY <2>1, <3>1 DEF RoundShape, JobShape,
              FlightShape, TimesOK, SettledWhenSaid, SignedBeforeEnd, RefundedLate
  <2>3. CASE UNCHANGED chainVars
    BY <2>1, <2>3 DEF chainVars, RoundShape, VaultShape, JobShape,
              FlightShape, TimesOK, SettledWhenSaid, SignedBeforeEnd, RefundedLate
  <2>4. QED
    BY <1>2, <2>2, <2>3 DEF LandStale
<1>3. QED
  BY <1>1, <1>2

(* The job itself moves no money; it records what it has seen settled, or told was. *)
LEMMA JobSteps ==
  ASSUME RecordInv, JobStep \/ Abort
  PROVE  RecordInv'
<1> USE DEF RecordInv
<1>1. CASE StartJob
  BY <1>1 DEF StartJob, ClosedOnChain, RefundDue, IdleJob, chainVars, RoundShape, VaultShape,
              JobShape, FlightShape, TimesOK, SettledWhenSaid, SignedBeforeEnd, RefundedLate
<1>2. CASE ListDepositors
  <2>1. /\ job'.at # "record" /\ JobShape'
        /\ UNCHANGED <<chainVars, round, signedAt, index, flight, stale, aborts>>
    <3>1. CASE job' = IdleJob
      BY <1>2, <3>1 DEF ListDepositors, IdleJob, JobShape
    <3>2. CASE job' # IdleJob
      BY <1>2, <3>2 DEF ListDepositors, GoTo, JobShape
    <3>3. QED
      BY <3>1, <3>2
  <2>2. QED
    BY <2>1 DEF chainVars, RoundShape, VaultShape, FlightShape, TimesOK, SettledWhenSaid,
                SignedBeforeEnd, RefundedLate
<1>3. CASE SendBatch
  <2>1. job' = [[job EXCEPT !.at = "wait"] EXCEPT !.todo = Tail(job.todo)]
    BY <1>3 DEF SendBatch, GoTo, JobShape
  <2>2. PICK batch :
          flight' = [NoTx EXCEPT !.kind = "settle", !.batch = batch, !.outcome = "pending"]
    BY <1>3 DEF SendBatch
  <2>3. UNCHANGED <<chainVars, round, signedAt, index, stale, aborts>>
    BY <1>3 DEF SendBatch
  <2>4. QED
    BY <2>1, <2>2, <2>3 DEF NoTx, chainVars, RoundShape, VaultShape,
              JobShape, FlightShape, TimesOK, SettledWhenSaid, SignedBeforeEnd, RefundedLate
<1>4. CASE Answer
  BY <1>4 DEF Answer, Confirmed, GoTo, IdleJob, NoTx, chainVars, RoundShape, VaultShape,
              JobShape, FlightShape, TimesOK, SettledWhenSaid, SignedBeforeEnd, RefundedLate
<1>5. CASE Recheck
  BY <1>5 DEF Recheck, GoTo, IdleJob, chainVars, RoundShape, VaultShape,
              JobShape, FlightShape, TimesOK, SettledWhenSaid, SignedBeforeEnd, RefundedLate
<1>6. CASE SendClose
  <2>1. /\ job'.at # "record" /\ JobShape'
        /\ \/ UNCHANGED flight
           \/ FlightShape' /\ flight'.outcome = "pending"
        /\ UNCHANGED <<chainVars, round, signedAt, index, stale, aborts>>
    <3>1. CASE UNCHANGED flight
      BY <1>6, <3>1 DEF SendClose, IdleJob, GoTo, JobShape
    <3>2. CASE flight' # flight
      BY <1>6, <3>2 DEF SendClose, NoTx, GoTo, JobShape, FlightShape
    <3>3. QED
      BY <3>1, <3>2
  <2>2. QED
    BY <2>1 DEF chainVars, RoundShape, VaultShape, FlightShape, TimesOK, SettledWhenSaid,
                SignedBeforeEnd, RefundedLate
<1>7. CASE RecordSettlement
  BY <1>7 DEF RecordSettlement, IdleJob, chainVars, RoundShape, VaultShape,
              JobShape, FlightShape, TimesOK, SettledWhenSaid, SignedBeforeEnd, RefundedLate
<1>8. CASE Abort
  BY <1>8 DEF Abort, IdleJob, NoTx, chainVars, RoundShape, VaultShape,
              JobShape, FlightShape, TimesOK, SettledWhenSaid, SignedBeforeEnd, RefundedLate
<1>9. QED
  BY <1>1, <1>2, <1>3, <1>4, <1>5, <1>6, <1>7, <1>8 DEF JobStep

-----------------------------------------------------------------------------
LEMMA RecordStep == RecordInv /\ [SettlementNext]_settlementVars => RecordInv'
<1> SUFFICES ASSUME RecordInv, [SettlementNext]_settlementVars PROVE RecordInv'
  OBVIOUS
<1>1. CASE UNCHANGED settlementVars
  BY <1>1 DEF settlementVars, chainVars, jobVars, RecordInv, RoundShape, VaultShape,
              JobShape, FlightShape, TimesOK, SettledWhenSaid, SignedBeforeEnd, RefundedLate
<1>2. CASE SettlementNext
  BY <1>2, ArenaSteps, LandStep, WorldSteps, ChainSteps, JobSteps DEF SettlementNext, JobStep
<1>3. QED
  BY <1>1, <1>2

(* settleSignatures is only stored for a settled vault, and no deposit lands behind the answer
   "nothing to refund", whatever the job, the chain and the players do: the two records that
   make everybody stop asking stay true. *)
THEOREM RecordsAlwaysTrue == SettlementSpec => []RecordsStayTrue
<1>1. RecordInv => RecordsStayTrue
  BY DEF RecordInv, SettledWhenSaid, RefundedLate, RecordsStayTrue
<1>2. QED
  BY <1>1, RecordInit, RecordStep, PTL DEF SettlementSpec

-----------------------------------------------------------------------------
(* Refunds.  A seat is refunded in full whatever attempts died halfway, because every batch
   ever computed, also one that still waits to land, holds the price of a seat for each wallet
   without one: seats are fixed before the first batch is computed. *)

EntryShape(e) ==
    /\ DOMAIN e = {"is_initialized", "vault_deposit", "entitlement", "settled", "claimed"}
    /\ e.settled \in BOOLEAN

Shapes ==
    /\ entry = [p \in Player |-> entry[p]]
    /\ \A p \in Player : EntryShape(entry[p])
    /\ fee = [present |-> fee.present, claim_fee_bps |-> fee.claim_fee_bps, active |-> fee.active]
    /\ job.todo \in Seq({job.todo[k] : k \in DOMAIN job.todo})

(* The vault is the arena's own, with the seats its deposits paid for. *)
VaultOfArena ==
    IF vault.status = "none" THEN \A p \in Player : ~entry[p].is_initialized
    ELSE /\ vault.entry_amount = EntryAmount /\ vault.vault_amount = VaultAmount
         /\ fee.present = TRUE
         /\ round.status # "none"

CountsDepositors == vault.deposited = Cardinality(Depositors)

(* A vault only settles with every one of its entries accounted for. *)
AllAccounted == vault.status = "settled" => \A p \in Depositors : AccountedFor(p)

(* Nothing is settled before the arena has ended, which fixes its seats. *)
WorkIsLate ==
    \/ job.at # "idle" \/ job.todo # <<>> \/ flight.kind # "none" \/ stale # {}
    \/ vault.status = "settled" \/ \E p \in Player : entry[p].settled
    => Ended

(* The wallets that are due a share instead of their seat. *)
Players == IF round.status = "complete" THEN round.seats ELSE {}

BatchSound(batch) ==
    \A i \in DOMAIN batch :
        batch[i].wallet \in Player \ Players => batch[i].entitlement = SeatPrice

TxSound(tx) ==
    /\ tx.kind \in {"settle", "close"}
    /\ tx.kind = "settle" => BatchSound(tx.batch)
    /\ tx.kind = "close" => tx.refund = IsRefund /\ tx.list \in Seq(Player)

WorkSound ==
    /\ \A k \in DOMAIN job.todo : BatchSound(job.todo[k])
    /\ flight.kind = "none" => flight.outcome = "none"
    /\ flight.kind # "none" => TxSound(flight)
    /\ \A tx \in stale : TxSound(tx)

EntriesSound ==
    /\ \A p \in Player \ Players : entry[p].settled => entry[p].entitlement = SeatPrice
    /\ vault.status = "settled" /\ round.status = "cancelled" => fee.active = FALSE

SeatInv ==
    /\ Shapes /\ VaultOfArena /\ CountsDepositors /\ AllAccounted
    /\ WorkIsLate /\ WorkSound /\ EntriesSound

-----------------------------------------------------------------------------
(* The lemmas the batches need. *)

LEMMA ListIsSeq ==
  ASSUME NEW S, IsFiniteSet(S)
  PROVE  /\ SetToSeq(S) \in [1..Cardinality(S) -> S]
         /\ Cardinality(S) \in Nat
         /\ Len(SetToSeq(S)) = Cardinality(S)
         /\ DOMAIN SetToSeq(S) = 1..Cardinality(S)
<1>1. Cardinality(S) \in Nat /\ ExistsBijection(1..Cardinality(S), S)
  BY FS_CardinalityType
<1>2. PICK f \in [1..Cardinality(S) -> S] : IsInjective(f)
  <2>1. PICK g \in Bijection(1..Cardinality(S), S) : TRUE
    BY <1>1 DEF ExistsBijection
  <2>2. g \in [1..Cardinality(S) -> S] /\ IsInjective(g)
    BY <2>1 DEF Bijection, Injection, IsInjective
  <2>3. QED
    BY <2>2
<1>3. SetToSeq(S) \in [1..Cardinality(S) -> S]
  BY <1>2 DEF SetToSeq
<1>4. QED
  BY <1>1, <1>3

(* A wallet that is not a player's is due its seat. *)
LEMMA EntriesAreSound ==
  ASSUME NEW escrowed, Ended
  PROVE  /\ BatchSound(SettleEntries(escrowed))
         /\ Len(SettleEntries(escrowed)) \in Nat
         /\ DOMAIN SettleEntries(escrowed) = 1..Len(SettleEntries(escrowed))
<1> DEFINE due == Entitlements(escrowed)
           wallets == SetToSeq(Seated) \o SetToSeq(ListedInside \ Seated)
           entries == SettleEntries(escrowed)
<1>1. IsFiniteSet(Seated) /\ IsFiniteSet(ListedInside \ Seated)
  BY PlayerAssumption, FS_Subset DEF Seated, ListedInside, Listed
<1>2. /\ SetToSeq(Seated) \in Seq(Seated)
      /\ SetToSeq(ListedInside \ Seated) \in Seq(ListedInside \ Seated)
  BY <1>1, ListIsSeq
<1>3. wallets \in Seq(ListedInside)
  BY <1>2 DEF Seated
<1>4. entries = [i \in DOMAIN wallets |-> [wallet |-> wallets[i], entitlement |-> due[wallets[i]]]]
  BY DEF SettleEntries
<1>5. \A p \in Player \ Players : due[p] = SeatPrice
  BY DEF Entitlements, Players, Seated, Ended
<1>6. DOMAIN wallets = 1..Len(wallets) /\ Len(wallets) \in Nat
  BY <1>3
<1> HIDE DEF due, wallets
<1>7. BatchSound(entries)
  BY <1>4, <1>5, <1>6 DEF BatchSound
<1>8. DOMAIN entries = 1..Len(wallets)
  BY <1>4, <1>6
<1>9. Len(entries) = Len(wallets)
  BY <1>4, <1>6, <1>8
<1>10. QED
  BY <1>6, <1>7, <1>8, <1>9

(* Cutting a sound list into transactions leaves every one of them sound. *)
LEMMA ChunksAreSound ==
  ASSUME NEW s, Len(s) \in Nat, DOMAIN s = 1..Len(s), BatchSound(s)
  PROVE  /\ \A k \in DOMAIN Chunks(s) : BatchSound(Chunks(s)[k])
         /\ Chunks(s) \in Seq({Chunks(s)[k] : k \in DOMAIN Chunks(s)})
<1> DEFINE n == (Len(s) + PerTx - 1) \div PerTx
           lo(i) == (i - 1) * PerTx + 1
           hi(i) == Min({i * PerTx, Len(s)})
<1>1. n \in Nat
  <2>1. \A a, b \in Nat : b # 0 => a \div b \in Nat
    OBVIOUS
  <2>2. PerTx \in Nat /\ PerTx # 0 /\ Len(s) + PerTx - 1 \in Nat
    BY SettlementAssumption
  <2>3. QED
    BY <2>1, <2>2
<1>2. ASSUME NEW i \in 1..n
      PROVE  lo(i) \in Nat /\ lo(i) >= 1 /\ hi(i) \in Nat /\ hi(i) <= Len(s)
  <2>1. \A a, b \in Nat : a * b \in Nat
    OBVIOUS
  <2>2. (i - 1) * PerTx \in Nat /\ i * PerTx \in Nat
    BY <1>1, <2>1, SettlementAssumption
  <2>3. ASSUME NEW a \in Nat, NEW b \in Nat
        PROVE  Min({a, b}) \in Nat /\ Min({a, b}) <= b
    <3>1. \E x \in {a, b} : \A y \in {a, b} : x <= y
      BY <2>3
    <3>2. QED
      BY <2>3, <3>1 DEF Min
  <2>4. QED
    BY <2>2, <2>3
<1>3. Chunks(s) = [i \in 1..n |-> SubSeq(s, lo(i), hi(i))]
  BY DEF Chunks
<1> HIDE DEF n, lo, hi
<1>4. ASSUME NEW i \in 1..n PROVE BatchSound(SubSeq(s, lo(i), hi(i)))
  <2> DEFINE S == {s[j] : j \in DOMAIN s}
             part == SubSeq(s, lo(i), hi(i))
  <2>1. \A j \in lo(i)..hi(i) : j \in DOMAIN s
    BY <1>2
  <2>2. /\ part \in Seq(S)
        /\ \A j \in 1..(hi(i) - lo(i) + 1) : part[j] = s[lo(i) + j - 1]
        /\ Len(part) = IF lo(i) <= hi(i) THEN hi(i) - lo(i) + 1 ELSE 0
    <3>1. lo(i) \in Int /\ hi(i) \in Int /\ \A j \in lo(i)..hi(i) : s[j] \in S
      BY <1>2, <2>1
    <3> HIDE DEF S
    <3>2. QED
      BY <3>1, SubSeqProperties
  <2>3. ASSUME NEW j \in DOMAIN part PROVE \E k \in DOMAIN s : part[j] = s[k]
    <3>1. DOMAIN part = 1..Len(part)
      BY <2>2
    <3> HIDE DEF part, S
    <3>2. lo(i) <= hi(i) /\ j \in 1..(hi(i) - lo(i) + 1)
      BY <1>2, <2>2, <2>3, <3>1
    <3>3. lo(i) + j - 1 \in DOMAIN s
      BY <1>2, <2>1, <3>2
    <3>4. QED
      BY <2>2, <3>2, <3>3
  <2>4. QED
    BY <2>3 DEF BatchSound
<1>5. DOMAIN Chunks(s) = 1..n
  BY <1>3
<1>6. \A k \in DOMAIN Chunks(s) : BatchSound(Chunks(s)[k])
  BY <1>3, <1>4
<1>7. Chunks(s) \in Seq({Chunks(s)[k] : k \in DOMAIN Chunks(s)})
  <2> DEFINE c == Chunks(s)
             S == {c[k] : k \in DOMAIN c}
  <2>1. c \in [1..n -> S]
    BY <1>3, <1>5
  <2> HIDE DEF c, S
  <2>2. c \in Seq(S)
    BY <1>1, <2>1
  <2>3. QED
    BY <2>2 DEF c, S
<1>8. QED
  BY <1>6, <1>7

-----------------------------------------------------------------------------
(* What each part of the system does to the seats. *)

LEMMA SeatInit == SettlementInit => SeatInv
<1> SUFFICES ASSUME SettlementInit PROVE SeatInv
  OBVIOUS
<1>1. /\ vault = NoVault /\ fee = NoFee /\ entry = [p \in Player |-> NoEntry]
      /\ round.status = "none" /\ job = IdleJob /\ flight = NoTx /\ stale = {}
  BY DEF SettlementInit, Init
<1>2. job.todo = <<>>
  BY <1>1 DEF IdleJob
<1>3. Shapes
  <2>1. job.todo \in Seq({job.todo[k] : k \in DOMAIN job.todo})
    BY <1>2
  <2>2. QED
    BY <1>1, <2>1 DEF Shapes, EntryShape, NoEntry, NoFee
<1>4. VaultOfArena /\ AllAccounted
  BY <1>1 DEF VaultOfArena, AllAccounted, NoVault, NoEntry
<1>5. CountsDepositors
  <2>1. Depositors = {}
    BY <1>1 DEF Depositors, NoEntry
  <2>2. QED
    BY <1>1, <2>1, FS_EmptySet DEF CountsDepositors, NoVault
<1>6. WorkIsLate
  BY <1>1, <1>2 DEF WorkIsLate, NoVault, NoEntry, IdleJob, NoTx
<1>7. EntriesSound
  BY <1>1 DEF EntriesSound, NoVault, NoEntry
<1>8. WorkSound
  BY <1>1, <1>2 DEF WorkSound, NoTx
<1>9. QED
  BY <1>3, <1>4, <1>5, <1>6, <1>7, <1>8 DEF SeatInv

(* The record, the clock and the index may change, as long as an arena that has ended keeps its
   status and its seats. *)
LEMMA SeatFrame ==
  ASSUME SeatInv, UNCHANGED <<vault, fee, entry, jobVars>>,
         Ended => round'.status = round.status /\ round'.seats = round.seats,
         round.status # "none" => round'.status # "none"
  PROVE  SeatInv'
<1>1. UNCHANGED <<vault, fee, entry, job, flight, stale>>
  BY DEF jobVars
<1>2. Shapes' /\ VaultOfArena' /\ CountsDepositors' /\ AllAccounted'
  BY <1>1 DEF SeatInv, Shapes, VaultOfArena, CountsDepositors, AllAccounted, Depositors, AccountedFor
<1>3. CASE Ended
  <2>1. Players' = Players /\ IsRefund' = IsRefund /\ Ended'
    BY <1>3 DEF Players, IsRefund, Ended
  <2>2. WorkIsLate' /\ WorkSound' /\ EntriesSound'
    BY <1>1, <1>3, <2>1 DEF SeatInv, WorkIsLate, WorkSound, EntriesSound, BatchSound, TxSound, Ended,
         SeatPrice
  <2>3. QED
    BY <1>2, <2>2 DEF SeatInv
<1>4. CASE ~Ended
  <2>1. /\ job.at = "idle" /\ job.todo = <<>> /\ flight.kind = "none" /\ stale = {}
        /\ vault.status # "settled" /\ \A p \in Player : ~entry[p].settled
    BY <1>4 DEF SeatInv, WorkIsLate
  <2>2. WorkIsLate' /\ EntriesSound'
    BY <1>1, <2>1 DEF WorkIsLate, EntriesSound, Players
  <2>3. QED
    BY <1>1, <1>2, <2>1, <2>2 DEF SeatInv, WorkSound
<1>5. QED
  BY <1>3, <1>4

(* The arena until it ends, time and the index. *)
LEMMA SeatArenaSteps ==
  ASSUME RecordInv, SeatInv,
         \/ Cancel \/ Lock \/ Complete \/ PassTime \/ IndexCatchesUp
         \/ \E p \in Player : SignDeposit(p) \/ TakeSeat(p)
  PROVE  SeatInv'
<1>1. UNCHANGED <<vault, fee, entry, jobVars>>
  BY DEF Cancel, Lock, Complete, PassTime, Tick, IndexCatchesUp, SignDeposit, TakeSeat, chainVars
<1>2. CASE PassTime \/ IndexCatchesUp \/ \E p \in Player : SignDeposit(p)
  <2>1. round' = round
    BY <1>2 DEF PassTime, IndexCatchesUp, SignDeposit
  <2>2. QED
    BY <1>1, <2>1, SeatFrame
<1>3. CASE Cancel \/ Lock \/ Complete \/ \E p \in Player : TakeSeat(p)
  <2>1. ~Ended
    BY <1>3 DEF Cancel, Lock, Complete, TakeSeat, Ended
  <2>2. round'.status # "none"
    <3>1. CASE Cancel
      BY <3>1 DEF RecordInv, RoundShape, Cancel
    <3>2. CASE Lock
      BY <3>2 DEF RecordInv, RoundShape, Lock
    <3>3. ASSUME NEW p \in Player, TakeSeat(p) PROVE round'.status # "none"
      BY <3>3 DEF RecordInv, RoundShape, TakeSeat
    <3>4. CASE Complete
      <4>1. PICK cash, prize : round' = [round EXCEPT !.status = "complete", !.endedAt = now,
                                                      !.cash = cash, !.prize = prize]
        BY <3>4 DEF Complete
      <4>2. QED
        BY <4>1 DEF RecordInv, RoundShape
    <3>5. QED
      BY <1>3, <3>1, <3>2, <3>3, <3>4
  <2>3. QED
    BY <1>1, <2>1, <2>2, SeatFrame
<1>4. QED
  BY <1>2, <1>3

(* The vault the arena opens is its own and has no seat yet. *)
LEMMA SeatOpen ==
  ASSUME RecordInv, SeatInv, OpenArena
  PROVE  SeatInv'
<1>1. /\ vault.status = "none" /\ round.status = "none"
      /\ vault' = [NoVault EXCEPT !.status = "open", !.entry_amount = EntryAmount,
                       !.vault_amount = VaultAmount, !.capacity = Capacity,
                       !.settle_deadline = Deadline]
      /\ fee' = [present |-> TRUE, claim_fee_bps |-> FeeBps, active |-> TRUE]
      /\ round' = [round EXCEPT !.status = "enrolling"]
      /\ UNCHANGED <<entry, job, flight, stale>>
  BY DEF OpenArena, InitRound, jobVars
<1>2. round'.status = "enrolling"
  BY <1>1 DEF RecordInv, RoundShape
<1>3. /\ vault'.status = "open" /\ vault'.deposited = 0
      /\ vault'.entry_amount = EntryAmount /\ vault'.vault_amount = VaultAmount
  BY <1>1 DEF NoVault
<1>4. /\ job.at = "idle" /\ job.todo = <<>> /\ flight.kind = "none" /\ stale = {}
      /\ \A p \in Player : ~entry[p].settled
  BY <1>1 DEF SeatInv, WorkIsLate, Ended
<1>5. Shapes' /\ VaultOfArena'
  BY <1>1, <1>2, <1>3 DEF SeatInv, Shapes, VaultOfArena
<1>6. CountsDepositors' /\ AllAccounted'
  <2>1. Depositors' = {}
    BY <1>1 DEF SeatInv, VaultOfArena, Depositors
  <2>2. QED
    BY <1>3, <2>1, FS_EmptySet DEF CountsDepositors, AllAccounted
<1>7. WorkIsLate' /\ EntriesSound'
  BY <1>1, <1>3, <1>4 DEF WorkIsLate, EntriesSound
<1>8. WorkSound'
  BY <1>1, <1>4 DEF SeatInv, WorkSound
<1>9. QED
  BY <1>5, <1>6, <1>7, <1>8 DEF SeatInv

(* A deposit adds its seat, with nothing settled on it. *)
LEMMA SeatLand ==
  ASSUME RecordInv, SeatInv, NEW p \in Player, LandDeposit(p)
  PROVE  SeatInv'
<1>1. /\ vault.status = "open" /\ ~entry[p].is_initialized
      /\ UNCHANGED <<fee, round, job, flight, stale>>
  BY DEF LandDeposit, Deposit, IsOpen, jobVars
<1>2. /\ vault'.status = "open" /\ vault'.deposited = vault.deposited + 1
      /\ vault'.entry_amount = vault.entry_amount /\ vault'.vault_amount = vault.vault_amount
  BY <1>1 DEF RecordInv, VaultShape, LandDeposit, Deposit
<1>3. /\ entry' = [entry EXCEPT ![p] = [NoEntry EXCEPT !.is_initialized = TRUE,
                                                       !.vault_deposit = vault.vault_amount]]
  BY DEF LandDeposit, Deposit
<1>4. /\ entry'[p] = [is_initialized |-> TRUE, vault_deposit |-> vault.vault_amount,
                      entitlement |-> 0, settled |-> FALSE, claimed |-> FALSE]
      /\ \A q \in Player : q # p => entry'[q] = entry[q]
      /\ DOMAIN entry = Player /\ DOMAIN entry' = Player
  BY <1>3 DEF SeatInv, Shapes, NoEntry
<1>5. Shapes'
  <2>1. \A q \in Player : EntryShape(entry'[q])
    <3>1. EntryShape(entry'[p])
      BY <1>4 DEF EntryShape
    <3>2. QED
      BY <1>4, <3>1 DEF SeatInv, Shapes
  <2>2. entry' = [q \in Player |-> entry'[q]]
    BY <1>3, <1>4
  <2>3. QED
    BY <1>1, <2>1, <2>2 DEF SeatInv, Shapes
<1>6. VaultOfArena' /\ AllAccounted'
  BY <1>1, <1>2 DEF SeatInv, VaultOfArena, AllAccounted
<1>7. CountsDepositors'
  <2>1. IsFiniteSet(Depositors)
    BY PlayerAssumption, FS_Subset DEF Depositors
  <2>2. p \notin Depositors /\ Depositors' = Depositors \cup {p}
    BY <1>1, <1>4 DEF Depositors
  <2>3. Cardinality(Depositors') = Cardinality(Depositors) + 1
    BY <2>1, <2>2, FS_AddElement
  <2>4. QED
    BY <1>2, <2>3 DEF SeatInv, CountsDepositors
<1>8. WorkIsLate'
  BY <1>1, <1>2, <1>4 DEF SeatInv, WorkIsLate, Ended
<1>9. WorkSound' /\ EntriesSound'
  BY <1>1, <1>2, <1>4 DEF SeatInv, WorkSound, BatchSound, TxSound, EntriesSound, Players, IsRefund,
       SeatPrice
<1>10. QED
  BY <1>5, <1>6, <1>7, <1>8, <1>9 DEF SeatInv

(* A recovery gives its provisional entitlement back. *)
LEMMA SeatRecover ==
  ASSUME RecordInv, SeatInv, NEW p \in Player, RecoverSeat(p)
  PROVE  SeatInv'
<1>1. /\ vault.status = "open" /\ entry[p].is_initialized
      /\ UNCHANGED <<fee, round, job, flight, stale>>
  BY DEF RecoverSeat, Recover, MayRecover, IsOpen, Payable, jobVars
<1>2. PICK settled, claimed :
        vault' = [vault EXCEPT !.settled_total = settled, !.claimed_total = claimed]
  BY DEF RecoverSeat, Recover
<1>3. /\ vault'.status = "open" /\ vault'.deposited = vault.deposited
      /\ vault'.entry_amount = vault.entry_amount /\ vault'.vault_amount = vault.vault_amount
  BY <1>1, <1>2 DEF RecordInv, VaultShape
<1>4. entry' = [entry EXCEPT ![p] = Released(p)]
  BY DEF RecoverSeat, Recover
<1>5. EntryShape(entry[p])
  BY DEF SeatInv, Shapes
<1>6. /\ EntryShape(Released(p))
      /\ Released(p).is_initialized = entry[p].is_initialized /\ ~Released(p).settled
  BY <1>5 DEF EntryShape, Released
<1>7. /\ entry'[p] = Released(p)
      /\ \A q \in Player : q # p => entry'[q] = entry[q]
      /\ DOMAIN entry = Player /\ DOMAIN entry' = Player
  BY <1>4 DEF SeatInv, Shapes
<1>8. Shapes'
  <2>1. entry' = [q \in Player |-> entry'[q]]
    BY <1>4, <1>7
  <2>2. \A q \in Player : EntryShape(entry'[q])
    BY <1>6, <1>7 DEF SeatInv, Shapes
  <2>3. QED
    BY <1>1, <2>1, <2>2 DEF SeatInv, Shapes
<1>9. Depositors' = Depositors
  BY <1>1, <1>6, <1>7 DEF Depositors
<1>10. VaultOfArena' /\ AllAccounted' /\ CountsDepositors'
  BY <1>1, <1>3, <1>9 DEF SeatInv, VaultOfArena, AllAccounted, CountsDepositors
<1>11. WorkIsLate'
  BY <1>1, <1>3, <1>6, <1>7 DEF SeatInv, WorkIsLate, Ended
<1>12. WorkSound' /\ EntriesSound'
  BY <1>1, <1>3, <1>6, <1>7 DEF SeatInv, WorkSound, BatchSound, TxSound, EntriesSound, Players,
       IsRefund, SeatPrice
<1>13. QED
  BY <1>8, <1>10, <1>11, <1>12 DEF SeatInv

(* A batch settles its wallets at what it says. *)
LEMMA BatchEntries ==
  ASSUME RecordInv, SeatInv, NEW batch, SettleBatch(batch)
  PROVE  /\ vault'.status = "open" /\ vault'.deposited = vault.deposited
         /\ vault'.entry_amount = vault.entry_amount /\ vault'.vault_amount = vault.vault_amount
         /\ fee' = fee
         /\ entry' = [q \in Player |-> entry'[q]]
         /\ \A q \in Player :
               /\ EntryShape(entry'[q])
               /\ entry'[q].is_initialized = entry[q].is_initialized
               /\ \/ entry'[q] = entry[q]
                  \/ \E i \in DOMAIN batch :
                        batch[i].wallet = q /\ entry'[q].entitlement = batch[i].entitlement
<1>1. vault.status = "open" /\ fee' = fee
  BY DEF SettleBatch, BatchPasses, IsOpen
<1>2. PICK total : vault' = [vault EXCEPT !.settled_total = total]
  BY DEF SettleBatch
<1>3. /\ vault'.status = "open" /\ vault'.deposited = vault.deposited
      /\ vault'.entry_amount = vault.entry_amount /\ vault'.vault_amount = vault.vault_amount
  BY <1>1, <1>2 DEF RecordInv, VaultShape
<1> DEFINE In(q) == \E i \in DOMAIN batch : batch[i].wallet = q
           at(q) == CHOOSE k \in DOMAIN batch : batch[k].wallet = q
           new(q) == [entry[q] EXCEPT !.entitlement = batch[at(q)].entitlement, !.settled = TRUE]
<1>4. entry' = [q \in Player |-> IF In(q) THEN new(q) ELSE entry[q]]
  BY DEF SettleBatch
<1>5. ASSUME NEW q \in Player, In(q)
      PROVE  at(q) \in DOMAIN batch /\ batch[at(q)].wallet = q
  BY <1>5
<1>6. ASSUME NEW q \in Player
      PROVE  /\ EntryShape(new(q)) /\ new(q).is_initialized = entry[q].is_initialized
             /\ new(q).entitlement = batch[at(q)].entitlement
  <2>1. EntryShape(entry[q])
    BY DEF SeatInv, Shapes
  <2> HIDE DEF at
  <2>2. QED
    BY <2>1 DEF EntryShape
<1> HIDE DEF In, at, new
<1>7. \A q \in Player : entry'[q] = IF In(q) THEN new(q) ELSE entry[q]
  BY <1>4
<1>8. entry' = [q \in Player |-> entry'[q]]
  BY <1>4
<1>9. ASSUME NEW q \in Player
      PROVE  /\ EntryShape(entry'[q])
             /\ entry'[q].is_initialized = entry[q].is_initialized
             /\ \/ entry'[q] = entry[q]
                \/ \E i \in DOMAIN batch :
                      batch[i].wallet = q /\ entry'[q].entitlement = batch[i].entitlement
  <2>1. CASE In(q)
    BY <1>5, <1>6, <1>7, <2>1
  <2>2. CASE ~In(q)
    BY <1>7, <2>2 DEF SeatInv, Shapes
  <2>3. QED
    BY <2>1, <2>2
<1>10. QED
  BY <1>1, <1>3, <1>8, <1>9

(* A list of as many distinct depositors as there are names every one of them. *)
LEMMA CloseListsAll ==
  ASSUME SeatInv, NEW list \in Seq(Player), ValidCloseEntries(list)
  PROVE  \A p \in Depositors : AccountedFor(p)
<1>1. /\ Len(list) \in Nat /\ Len(list) = Cardinality(Depositors)
      /\ DOMAIN list = 1..Len(list)
  BY DEF SeatInv, CountsDepositors, ValidCloseEntries
<1>2. list \in [1..Len(list) -> Depositors]
  <2>1. list \in [1..Len(list) -> Player]
    OBVIOUS
  <2>2. \A i \in 1..Len(list) : entry[list[i]].is_initialized
    BY <1>1 DEF ValidCloseEntries, AccountedFor
  <2>3. QED
    BY <2>1, <2>2 DEF Depositors
<1>3. list \in Injection(1..Len(list), Depositors)
  BY <1>1, <1>2 DEF Injection, IsInjective, ValidCloseEntries
<1>4. IsFiniteSet(Depositors)
  BY PlayerAssumption, FS_Subset DEF Depositors
<1>5. Cardinality(1..Len(list)) = Len(list)
  BY <1>1, FS_Interval
<1>6. list \in Surjection(1..Len(list), Depositors)
  BY <1>1, <1>3, <1>4, <1>5, FS_Injection
<1>7. \A p \in Depositors : \E i \in 1..Len(list) : list[i] = p
  BY <1>6 DEF Surjection
<1>8. QED
  BY <1>1, <1>7 DEF ValidCloseEntries


(* A sound transaction keeps the seats sound whenever it lands. *)
LEMMA SeatExecute ==
  ASSUME RecordInv, SeatInv, NEW tx, TxSound(tx), Ended, Execute(tx), UNCHANGED <<round, job>>
  PROVE  Shapes' /\ VaultOfArena' /\ CountsDepositors' /\ AllAccounted' /\ EntriesSound'
<1>1. Players' = Players /\ IsRefund' = IsRefund
  BY DEF Players, IsRefund
<1>2. CASE tx.kind = "settle"
  <2>1. SettleBatch(tx.batch) /\ BatchSound(tx.batch)
    BY <1>2 DEF Execute, TxSound
  <2>2. /\ vault'.status = "open" /\ vault'.deposited = vault.deposited
        /\ vault'.entry_amount = vault.entry_amount /\ vault'.vault_amount = vault.vault_amount
        /\ fee' = fee
        /\ entry' = [q \in Player |-> entry'[q]]
        /\ \A q \in Player :
               /\ EntryShape(entry'[q])
               /\ entry'[q].is_initialized = entry[q].is_initialized
               /\ \/ entry'[q] = entry[q]
                  \/ \E i \in DOMAIN tx.batch :
                        /\ tx.batch[i].wallet = q
                        /\ entry'[q].entitlement = tx.batch[i].entitlement
    BY <2>1, BatchEntries
  <2>3. vault.status = "open"
    BY <2>1 DEF SettleBatch, BatchPasses, IsOpen
  <2>4. Shapes'
    BY <2>2 DEF SeatInv, Shapes
  <2>5. Depositors' = Depositors
    BY <2>2 DEF Depositors
  <2>6. VaultOfArena' /\ CountsDepositors' /\ AllAccounted'
    BY <2>2, <2>3, <2>5 DEF SeatInv, VaultOfArena, CountsDepositors, AllAccounted
  <2>7. EntriesSound'
    <3>1. ASSUME NEW q \in Player \ Players, entry'[q].settled
          PROVE  entry'[q].entitlement = SeatPrice
      BY <2>1, <2>2, <3>1 DEF SeatInv, EntriesSound, BatchSound
    <3>2. QED
      BY <1>1, <2>2, <3>1 DEF EntriesSound, SeatPrice
  <2>8. QED
    BY <2>4, <2>6, <2>7
<1>3. CASE tx.kind # "settle"
  <2>1. CloseSettlement(tx.list, tx.refund) /\ tx.refund = IsRefund /\ tx.list \in Seq(Player)
    BY <1>3 DEF Execute, TxSound
  <2>2. /\ ValidCloseEntries(tx.list) /\ entry' = entry /\ vault.status = "open"
        /\ vault' = [vault EXCEPT !.status = "settled"]
        /\ fee' = IF tx.refund /\ fee.present THEN [fee EXCEPT !.active = FALSE] ELSE fee
    BY <2>1 DEF CloseSettlement, IsOpen
  <2>3. /\ vault'.status = "settled" /\ vault'.deposited = vault.deposited
        /\ vault'.entry_amount = vault.entry_amount /\ vault'.vault_amount = vault.vault_amount
    BY <2>2 DEF RecordInv, VaultShape
  <2>4. PICK f, g, h : fee = [present |-> f, claim_fee_bps |-> g, active |-> h]
    BY DEF SeatInv, Shapes
  <2>5. fee.present = TRUE
    BY <2>2 DEF SeatInv, VaultOfArena
  <2>6. /\ fee' = [present |-> fee'.present, claim_fee_bps |-> fee'.claim_fee_bps,
                  active |-> fee'.active]
        /\ fee'.present = TRUE
        /\ IsRefund => fee'.active = FALSE
    BY <2>1, <2>2, <2>4, <2>5
  <2>7. Shapes'
    BY <2>2, <2>6 DEF SeatInv, Shapes
  <2>8. VaultOfArena' /\ CountsDepositors'
    BY <2>2, <2>3, <2>6 DEF SeatInv, VaultOfArena, CountsDepositors, Depositors
  <2>9. AllAccounted'
    BY <2>1, <2>2, CloseListsAll DEF AllAccounted, Depositors, AccountedFor
  <2>10. EntriesSound'
    BY <1>1, <2>2, <2>6 DEF SeatInv, EntriesSound, IsRefund, SeatPrice
  <2>11. QED
    BY <2>7, <2>8, <2>9, <2>10
<1>4. QED
  BY <1>2, <1>3

(* So does one that fails. *)
LEMMA SeatsSame ==
  ASSUME SeatInv, UNCHANGED <<vault, fee, entry, round>>, job' = job
  PROVE  Shapes' /\ VaultOfArena' /\ CountsDepositors' /\ AllAccounted' /\ EntriesSound'
BY DEF SeatInv, Shapes, VaultOfArena, CountsDepositors, AllAccounted, EntriesSound, Depositors,
       AccountedFor, Players, SeatPrice

LEMMA SeatChain ==
  ASSUME RecordInv, SeatInv, LandFlight \/ \E tx \in stale : LandStale(tx)
  PROVE  SeatInv'
<1>1. CASE LandFlight
  <2>1. /\ flight.outcome = "pending" /\ UNCHANGED <<round, job, stale>>
    BY <1>1 DEF LandFlight
  <2>2. flight.kind # "none" /\ TxSound(flight) /\ Ended
    BY <2>1 DEF SeatInv, WorkSound, WorkIsLate
  <2>3. PICK o : flight' = [flight EXCEPT !.outcome = o]
    BY <1>1 DEF LandFlight
  <2>4. /\ flight'.kind = flight.kind /\ flight'.batch = flight.batch
        /\ flight'.list = flight.list /\ flight'.refund = flight.refund
    BY <2>3 DEF RecordInv, FlightShape
  <2>5. Players' = Players /\ IsRefund' = IsRefund /\ Ended'
    BY <2>1, <2>2 DEF Players, IsRefund, Ended
  <2>6. WorkIsLate' /\ WorkSound'
    BY <2>1, <2>2, <2>4, <2>5 DEF SeatInv, WorkIsLate, WorkSound, TxSound, BatchSound, SeatPrice
  <2>7. Shapes' /\ VaultOfArena' /\ CountsDepositors' /\ AllAccounted' /\ EntriesSound'
    <3>1. CASE Passes(flight)
      <4>1. Execute(flight)
        BY <1>1, <3>1 DEF LandFlight
      <4>2. QED
        BY <2>1, <2>2, <4>1, SeatExecute
    <3>2. CASE ~Passes(flight)
      <4>1. UNCHANGED <<vault, fee, entry>>
        BY <1>1, <3>2 DEF LandFlight, chainVars
      <4>2. QED
        BY <2>1, <4>1, SeatsSame
    <3>3. QED
      BY <3>1, <3>2
  <2>8. QED
    BY <2>6, <2>7 DEF SeatInv
<1>2. ASSUME NEW tx \in stale, LandStale(tx) PROVE SeatInv'
  <2>1. UNCHANGED <<round, job, flight>> /\ stale' \subseteq stale
    BY <1>2 DEF LandStale
  <2>2. TxSound(tx) /\ Ended
    BY <1>2 DEF SeatInv, WorkSound, WorkIsLate
  <2>3. Players' = Players /\ IsRefund' = IsRefund /\ Ended'
    BY <2>1, <2>2 DEF Players, IsRefund, Ended
  <2>4. WorkIsLate' /\ WorkSound'
    BY <2>1, <2>3 DEF SeatInv, WorkIsLate, WorkSound, TxSound, BatchSound, SeatPrice
  <2>5. Shapes' /\ VaultOfArena' /\ CountsDepositors' /\ AllAccounted' /\ EntriesSound'
    <3>1. CASE Execute(tx)
      BY <2>1, <2>2, <3>1, SeatExecute
    <3>2. CASE UNCHANGED chainVars
      BY <2>1, <3>2, SeatsSame DEF chainVars
    <3>3. QED
      BY <1>2, <3>1, <3>2 DEF LandStale
  <2>6. QED
    BY <2>4, <2>5 DEF SeatInv
<1>3. QED
  BY <1>1, <1>2

LEMMA TailIsSound ==
  ASSUME NEW todo, todo # <<>>, todo \in Seq({todo[k] : k \in DOMAIN todo}),
         \A k \in DOMAIN todo : BatchSound(todo[k])
  PROVE  /\ Tail(todo) \in Seq({Tail(todo)[k] : k \in DOMAIN Tail(todo)})
         /\ \A k \in DOMAIN Tail(todo) : BatchSound(Tail(todo)[k])
<1> DEFINE S == {todo[k] : k \in DOMAIN todo}
           rest == Tail(todo)
           R == {rest[k] : k \in DOMAIN rest}
<1>1. \A b \in S : BatchSound(b)
  OBVIOUS
<1> HIDE DEF S
<1>2. /\ rest \in Seq(S)
      /\ \A k \in DOMAIN rest : rest[k] \in S
  <2>1. todo \in Seq(S)
    BY DEF S
  <2>2. Tail(todo) \in Seq(S)
    BY <2>1, HeadTailProperties
  <2>3. QED
    BY <2>2
<1>3. rest \in [1..Len(rest) -> R] /\ Len(rest) \in Nat
  <2>1. Len(rest) \in Nat /\ DOMAIN rest = 1..Len(rest) /\ rest = [k \in 1..Len(rest) |-> rest[k]]
    <3> HIDE DEF rest
    <3>1. QED BY <1>2
  <2>2. \A k \in 1..Len(rest) : rest[k] \in R
    BY <2>1
  <2> HIDE DEF rest, R
  <2>3. QED
    BY <2>1, <2>2
<1> HIDE DEF rest, R
<1>4. rest \in Seq(R)
  BY <1>3
<1>5. QED
  BY <1>1, <1>2, <1>4 DEF rest, R

(* The job moves nothing itself; what it sends is sound. *)
LEMMA SeatJob ==
  ASSUME RecordInv, SeatInv, JobStep \/ Abort
  PROVE  SeatInv'
<1>1. UNCHANGED <<vault, fee, entry>>
  BY DEF JobStep, StartJob, ListDepositors, SendBatch, Answer, Recheck, SendClose,
         RecordSettlement, Abort, chainVars
<1>2. job.at # "idle" \/ StartJob
  BY DEF JobStep, ListDepositors, SendBatch, Answer, Recheck, SendClose, RecordSettlement, Abort
<1>3. Ended
  BY <1>2 DEF SeatInv, WorkIsLate, StartJob, Ended
<1>4. round'.status = round.status /\ round'.seats = round.seats
  <2>1. CASE round' = round
    BY <2>1
  <2>2. CASE round' = [round EXCEPT !.recorded = TRUE]
    BY <2>2 DEF RecordInv, RoundShape
  <2>3. CASE round' = [round EXCEPT !.nothingToRefund = TRUE]
    BY <2>3 DEF RecordInv, RoundShape
  <2>4. QED
    BY <2>1, <2>2, <2>3 DEF JobStep, StartJob, ListDepositors, SendBatch, Answer, Recheck,
         SendClose, RecordSettlement, Abort
<1>5. Players' = Players /\ IsRefund' = IsRefund /\ Ended'
  BY <1>3, <1>4 DEF Players, IsRefund, Ended
<1>6. VaultOfArena' /\ CountsDepositors' /\ AllAccounted' /\ EntriesSound' /\ WorkIsLate'
  BY <1>1, <1>3, <1>4, <1>5 DEF SeatInv, VaultOfArena, CountsDepositors, AllAccounted,
     EntriesSound, WorkIsLate, Depositors, AccountedFor, SeatPrice, Ended
<1> DEFINE TodoOK(todo) == /\ todo \in Seq({todo[k] : k \in DOMAIN todo})
                           /\ \A k \in DOMAIN todo : BatchSound(todo[k])
           FlightOK(f) == /\ f.kind = "none" => f.outcome = "none"
                          /\ f.kind # "none" => TxSound(f)
<1>7. TodoOK(job.todo) /\ FlightOK(flight)
  BY DEF SeatInv, Shapes, WorkSound
<1>8. TodoOK(<<>>) /\ FlightOK(NoTx)
  BY DEF NoTx
<1>9. TodoOK(job'.todo)
  <2>1. CASE job' = IdleJob
    BY <1>8, <2>1 DEF IdleJob
  <2>2. CASE job'.todo = job.todo
    BY <1>7, <2>2
  <2>3. CASE SendBatch
    <3>1. job.todo # <<>> /\ job'.todo = Tail(job.todo)
      BY <2>3 DEF RecordInv, JobShape, SendBatch, GoTo
    <3>2. QED
      BY <1>7, <3>1, TailIsSound
  <2>4. CASE ListDepositors /\ job' # IdleJob
    <3>1. job'.todo = Chunks(SettleEntries(job.escrowed))
      BY <2>4 DEF RecordInv, JobShape, ListDepositors, GoTo
    <3>2. PICK entries : entries = SettleEntries(job.escrowed)
      OBVIOUS
    <3>3. BatchSound(entries) /\ Len(entries) \in Nat /\ DOMAIN entries = 1..Len(entries)
      BY <1>3, <3>2, EntriesAreSound
    <3>4. TodoOK(Chunks(entries))
      BY <3>3, ChunksAreSound
    <3>5. job'.todo = Chunks(entries)
      BY <3>1, <3>2
    <3> HIDE DEF TodoOK
    <3>6. QED
      BY <3>4, <3>5
  <2>5. CASE StartJob
    <3>1. job'.todo = <<>> \/ job'.todo = job.todo
      BY <2>5 DEF StartJob, IdleJob
    <3> HIDE DEF TodoOK
    <3>2. QED
      BY <1>7, <1>8, <3>1
  <2>6. CASE Answer \/ Recheck \/ SendClose
    <3>1. job' = IdleJob \/ \E at : job' = [job EXCEPT !.at = at]
      BY <2>6 DEF Answer, Recheck, SendClose, GoTo
    <3>2. QED
      BY <2>1, <2>2, <3>1 DEF RecordInv, JobShape
  <2>7. QED
    BY <2>1, <2>3, <2>4, <2>5, <2>6 DEF JobStep, RecordSettlement, Abort
<1>10. ASSUME NEW f, f = flight' PROVE FlightOK(f)
  <2>1. CASE SendBatch
    <3>1. Head(job.todo) = job.todo[1] /\ 1 \in DOMAIN job.todo
      BY <1>7, <2>1 DEF SendBatch
    <3>2. BatchSound(Head(job.todo))
      BY <1>7, <3>1
    <3>3. f.kind = "settle" /\ f.batch = Head(job.todo)
      BY <1>10, <2>1 DEF SendBatch, NoTx
    <3>4. QED
      BY <3>2, <3>3 DEF TxSound
  <2>2. CASE SendClose
    <3>1. SetToSeq(Listed) \in Seq(Player)
      <4>1. IsFiniteSet(Listed) /\ Listed \subseteq Player
        BY PlayerAssumption, FS_Subset DEF Listed
      <4>2. QED
        BY <4>1, ListIsSeq
    <3>2. CASE f = flight
      BY <1>7, <3>2
    <3>3. CASE f # flight
      <4>1. f.kind = "close" /\ f.refund = IsRefund /\ f.list = SetToSeq(Listed)
        BY <1>10, <2>2, <3>3 DEF SendClose, NoTx
      <4>2. QED
        BY <3>1, <4>1 DEF TxSound
    <3>4. QED
      BY <3>2, <3>3
  <2>3. CASE f = flight
    BY <1>7, <2>3
  <2>4. CASE f = NoTx
    BY <1>8, <2>4
  <2>5. QED
    BY <1>10, <2>1, <2>2, <2>3, <2>4 DEF JobStep, StartJob, ListDepositors, Recheck, Answer,
       RecordSettlement, Abort
<1>11. ASSUME NEW tx \in stale' PROVE TxSound(tx)
  <2>1. CASE tx \in stale
    BY <2>1 DEF SeatInv, WorkSound
  <2>2. CASE Abort
    <3>1. CASE flight.outcome = "pending" /\ tx = flight
      BY <1>7, <3>1
    <3>2. QED
      BY <1>11, <2>1, <2>2, <3>1 DEF Abort
  <2>3. QED
    BY <1>11, <2>1, <2>2 DEF JobStep, StartJob, ListDepositors, SendBatch, Answer, Recheck,
       SendClose, RecordSettlement
<1>12. Shapes'
  BY <1>1, <1>9 DEF SeatInv, Shapes
<1>13. WorkSound'
  BY <1>5, <1>9, <1>10, <1>11 DEF WorkSound, TxSound, BatchSound, SeatPrice
<1>14. QED
  BY <1>6, <1>12, <1>13 DEF SeatInv

LEMMA SeatStep == RecordInv /\ SeatInv /\ [SettlementNext]_settlementVars => SeatInv'
<1> SUFFICES ASSUME RecordInv, SeatInv, [SettlementNext]_settlementVars PROVE SeatInv'
  OBVIOUS
<1>1. CASE UNCHANGED settlementVars
  BY <1>1, SeatFrame DEF settlementVars, chainVars
<1>2. CASE SettlementNext
  BY <1>2, SeatOpen, SeatArenaSteps, SeatLand, SeatRecover, SeatChain, SeatJob
     DEF SettlementNext, JobStep
<1>3. QED
  BY <1>1, <1>2

(* What the server's settlement rests on: the vault is the arena's, its counter counts the
   deposits, a settled vault has accounted for each of them, and whatever batch is computed,
   sent or lost on the way gives a wallet without a seat its money back in full. *)
THEOREM SettlementInvariant == SettlementSpec => [](RecordInv /\ SeatInv)
BY RecordInit, RecordStep, SeatInit, SeatStep, PTL DEF SettlementSpec

(* A cancelled arena and a deposit that never got a seat are refunded to the unit, and without
   the fee when the arena was cancelled, through lost transactions, crashes, recoveries and
   deposits that land during the settlement. *)
THEOREM SeatsAlwaysComeBackWhole == SettlementSpec => []SeatsComeBackWhole
<1>1. RecordInv /\ SeatInv => SeatsComeBackWhole
  <2> SUFFICES ASSUME SeatInv, vault.status = "settled"
               PROVE  /\ \A p \in Inside \ (IF round.status = "complete" THEN round.seats ELSE {}) :
                             entry[p].entitlement = Seat
                      /\ round.status = "cancelled" => ~fee.active
    BY DEF SeatsComeBackWhole
  <2>1. Seat = SeatPrice
    BY DEF SeatInv, VaultOfArena, Seat, SeatPrice
  <2>2. ASSUME NEW p \in Inside, p \notin Players PROVE entry[p].entitlement = Seat
    <3>1. p \in Player /\ p \in Depositors /\ ~entry[p].claimed
      BY DEF Inside, Depositors
    <3>2. entry[p].settled
      BY <3>1 DEF SeatInv, AllAccounted, AccountedFor
    <3>3. QED
      BY <2>1, <2>2, <3>1, <3>2 DEF SeatInv, EntriesSound
  <2>3. QED
    BY <2>2 DEF SeatInv, EntriesSound, Players
<1>2. QED
  BY <1>1, SettlementInvariant, PTL
=============================================================================
