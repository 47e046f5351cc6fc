----------------------------- MODULE Settlement -----------------------------
(***************************************************************************)
(* The server settling an arena's vault: the settle route                  *)
(* (app/api/escrow/settle/route.ts) and settleArenaOnChain                 *)
(* (lib/escrow-server.ts) against the escrow program of module Escrow.     *)
(*                                                                         *)
(* The job reads the game record, the vault and the account index at       *)
(* different moments, sends its transactions one after the other, and may  *)
(* die at any await.  A transaction it stopped waiting for may still land. *)
(* Meanwhile co-signed deposits land and players recover their seats.      *)
(* Claims come after all of this and are left to module Escrow.            *)
(***************************************************************************)
EXTENDS Escrow, Payouts, SequencesExt

CONSTANTS
    EntryAmount, VaultAmount, Capacity, Deadline, FeeBps,  \* the arena's InitRoundV2 arguments
    FinalVaults,      \* vault values the players may finish with
    RefundSafety,     \* REFUND_SAFETY_MS
    DepositLife,      \* how long after the route accepted it a deposit can still land
    PerTx,            \* PER_TX, the SettlePlayer instructions of one transaction
    MaxAborts         \* bound on how often a job dies, for model checking

ASSUME SettlementAssumption ==
    /\ Player \subseteq Nat  \* their order is the order of round.entrants, where it decides
    /\ EntryAmount \in 1..MaxU64 /\ VaultAmount \in 1..MaxU64
    /\ Capacity \in Nat /\ Capacity >= 2
    /\ Deadline \in Nat
    /\ FeeBps \in 0..MaxClaimFeeBps
    /\ FinalVaults \subseteq [Player -> Nat]
    /\ RefundSafety \in Nat /\ DepositLife \in Nat
    /\ PerTx \in Nat \ {0}
    /\ MaxAborts \in Nat

(* A refund waits longer than any deposit co-signed before the cancellation can take to land. *)
ASSUME RefundSafetyAssumption == DepositLife < RefundSafety

VARIABLES
    round,      \* the game record
    signedAt,   \* when p's deposit was co-signed, or Unsigned
    index,      \* player entries as the account index last saw them
    job,        \* the settlement job, at most one per arena (the settling set)
    flight,     \* the transaction the job waits for
    stale,      \* transactions no job waits for any more, which may still land
    aborts      \* how often a job died

chainVars == <<vault, fee, entry, held, wallet, feeHeld, now>>
jobVars == <<job, flight, stale, aborts>>
settlementVars == <<chainVars, round, signedAt, index, jobVars>>

Unsigned == -1
IdleJob == [at |-> "idle", expect |-> 0, escrowed |-> 0, todo |-> <<>>]
NoTx == [kind |-> "none", batch |-> <<>>, list |-> <<>>, refund |-> FALSE, outcome |-> "none"]

SettlementInit ==
    /\ Init
    /\ round = [status |-> "none", endedAt |-> 0, seats |-> {}, prize |-> <<>>, cash |-> <<>>,
                recorded |-> FALSE, nothingToRefund |-> FALSE]
    /\ signedAt = [p \in Player |-> Unsigned]
    /\ index = entry
    /\ job = IdleJob /\ flight = NoTx /\ stale = {} /\ aborts = 0

-----------------------------------------------------------------------------
(* The arena until it ends.  Module Escrow has the on-chain half of each step. *)

(* The server opens the vault, then saves the round.  A vault whose round is never saved takes
   no deposits. *)
OpenArena ==
    /\ round.status = "none"
    /\ InitRound(EntryAmount, VaultAmount, Capacity, Deadline,
                 [present |-> TRUE, claim_fee_bps |-> FeeBps, active |-> TRUE])
    /\ round' = [round EXCEPT !.status = "enrolling"]
    /\ UNCHANGED <<signedAt, index, jobVars>>

(* The tx route co-signs a deposit while the arena enrols. *)
SignDeposit(p) ==
    /\ round.status = "enrolling"
    /\ ~entry[p].is_initialized
    /\ signedAt[p] = Unsigned
    /\ Cardinality(round.seats) < Capacity
    /\ signedAt' = [signedAt EXCEPT ![p] = now]
    /\ UNCHANGED <<chainVars, round, index, jobVars>>

(* Whatever has become of the arena meanwhile. *)
LandDeposit(p) ==
    /\ signedAt[p] # Unsigned
    /\ now <= signedAt[p] + DepositLife
    /\ Deposit(p)
    /\ signedAt' = [signedAt EXCEPT ![p] = Unsigned]
    /\ UNCHANGED <<round, index, jobVars>>

VerifiedDeposit(p) == entry[p].is_initialized

(* enroll, or the keeper's seat sync: a seat needs a deposit and an enrolling arena. *)
TakeSeat(p) ==
    /\ round.status = "enrolling"
    /\ VerifiedDeposit(p)
    /\ p \notin round.seats
    /\ Cardinality(round.seats) < Capacity
    /\ round' = [round EXCEPT !.seats = @ \cup {p}]
    /\ UNCHANGED <<chainVars, signedAt, index, jobVars>>

Cancel ==
    /\ round.status = "enrolling"
    /\ now + RefundSafety <= MaxTime  \* bound: the refund falls within the clock's bound
    /\ round' = [round EXCEPT !.status = "cancelled", !.endedAt = now]
    /\ UNCHANGED <<chainVars, signedAt, index, jobVars>>

Lock ==
    /\ round.status = "enrolling"
    /\ round.seats # {}
    /\ round' = [round EXCEPT !.status = "live"]
    /\ UNCHANGED <<chainVars, signedAt, index, jobVars>>

(* The players finish in some order; module Prizes has how the pool is split. *)
Complete ==
    /\ round.status = "live"
    /\ \E order \in SetToSeqs(round.seats), cash \in FinalVaults :
           LET n == Len(order)
               paid == ComputePayouts(n * EntryAmount, n, n)
           IN round' = [round EXCEPT
                !.status = "complete", !.endedAt = now, !.cash = Restrict(cash, round.seats),
                !.prize = [p \in round.seats |-> paid[CHOOSE i \in 1..n : order[i] = p]]]
    /\ UNCHANGED <<chainVars, signedAt, index, jobVars>>

RecoverSeat(p) ==
    /\ Recover(p)
    /\ UNCHANGED <<round, signedAt, index, jobVars>>

PassTime ==
    /\ Tick
    /\ UNCHANGED <<round, signedAt, index, jobVars>>

IndexCatchesUp ==
    /\ index # entry
    /\ index' = entry
    /\ UNCHANGED <<chainVars, round, signedAt, jobVars>>

-----------------------------------------------------------------------------
(* Transactions.  One that fails any check changes nothing. *)

RunningTotal(batch, i) ==
    vault.settled_total
    + SumFunction([k \in 1..i |-> batch[k].entitlement - Prior(batch[k].wallet)])

(* Every SettlePlayer of the batch passes, in order. *)
BatchPasses(batch) ==
    /\ IsOpen
    /\ \A i \in DOMAIN batch :
           /\ entry[batch[i].wallet].is_initialized /\ ~entry[batch[i].wallet].claimed
           /\ RunningTotal(batch, i) \in 0..vault.total_escrowed

SettleBatch(batch) ==
    /\ BatchPasses(batch)
    /\ vault' = [vault EXCEPT !.settled_total = RunningTotal(batch, Len(batch))]
    /\ entry' = [p \in Player |->
                    IF \E i \in DOMAIN batch : batch[i].wallet = p
                    THEN LET i == CHOOSE k \in DOMAIN batch : batch[k].wallet = p
                         IN [entry[p] EXCEPT !.entitlement = batch[i].entitlement,
                                             !.settled = TRUE]
                    ELSE entry[p]]
    /\ UNCHANGED <<fee, held, wallet, feeHeld, now>>

Passes(tx) ==
    IF tx.kind = "settle" THEN BatchPasses(tx.batch)
    ELSE IsOpen /\ ValidCloseEntries(tx.list) /\ FullyAllocated

Execute(tx) ==
    IF tx.kind = "settle" THEN SettleBatch(tx.batch) ELSE CloseSettlement(tx.list, tx.refund)

LandFlight ==
    /\ flight.outcome = "pending"
    /\ IF Passes(flight)
       THEN Execute(flight) /\ flight' = [flight EXCEPT !.outcome = "confirmed"]
       ELSE UNCHANGED chainVars /\ flight' = [flight EXCEPT !.outcome = "failed"]
    /\ UNCHANGED <<round, signedAt, index, job, stale, aborts>>

(* It lands after all, or its blockhash expires. *)
LandStale(tx) ==
    /\ tx \in stale
    /\ stale' = stale \ {tx}
    /\ Execute(tx) \/ UNCHANGED chainVars
    /\ UNCHANGED <<round, signedAt, index, job, flight, aborts>>

-----------------------------------------------------------------------------
(* The job.  Each action is what runs between two awaits. *)

GoTo(at) == [job EXCEPT !.at = at]

FaultyRefundDue == TRUE  \* does not wait for deposits in flight

RefundDue == now >= round.endedAt + RefundSafety

FaultyClosedOnChain == FALSE  \* settles again what is settled

ClosedOnChain == vault.status = "settled"

(* POST: read the game record, then the vault.  Nothing the job reads of the record changes
   any more once the round has ended, except by a job. *)
StartJob ==
    /\ job.at = "idle"
    /\ ~round.recorded
    /\ \/ round.status = "complete"
       \/ round.status = "cancelled" /\ RefundDue
    /\ IF ClosedOnChain
       THEN /\ job' = [IdleJob EXCEPT !.at = "record"]  \* adoptChainSettlement
            /\ UNCHANGED round
       ELSE IF round.status = "cancelled" /\ vault.deposited = 0
       THEN /\ round' = [round EXCEPT !.nothingToRefund = TRUE]  \* only the answer says so
            /\ UNCHANGED job
       ELSE /\ job' = [IdleJob EXCEPT !.at = "list", !.expect = vault.deposited,
                                      !.escrowed = vault.total_escrowed]
            /\ UNCHANGED round
    /\ UNCHANGED <<chainVars, signedAt, index, flight, stale, aborts>>

(* listDepositors. *)
Listed == {p \in Player : index[p].is_initialized}
ListedInside == {p \in Listed : ~index[p].claimed}

SeatPrice == EntryAmount + VaultAmount

FaultyPrizeOf(p) == 0  \* prizes left out of the division

PrizeOf(p) == IF p \in round.seats THEN round.prize[p] ELSE 0

CashOf(p) == IF p \in round.seats THEN round.cash[p] ELSE 0

FaultySeated == ListedInside  \* a deposit is taken for a seat

Seated == ListedInside \cap round.seats

FaultyPlayerPot(escrowed) ==  \* forgets what recovered seats took
    Max({0, escrowed - Cardinality(ListedInside \ Seated) * SeatPrice})

(* What the escrow holds less the refunds of the deposits that never got a seat. *)
PlayerPot(escrowed) ==
    Max({0, escrowed - Cardinality(Listed \ ListedInside) * SeatPrice
                     - Cardinality(ListedInside \ Seated) * SeatPrice})

(* Prize and share of the vault money for the players, the seat back for deposits that never
   got one; a cancelled arena gives everybody the seat back. *)
Entitlements(escrowed) ==
    IF round.status = "cancelled" THEN [p \in Player |-> SeatPrice]
    ELSE LET shares == PayoutShares([p \in Seated |-> CashOf(p)],
                                    [p \in Seated |-> PrizeOf(p)],
                                    PlayerPot(escrowed), {})
         IN [p \in Player |-> IF p \in Seated THEN shares[p] ELSE SeatPrice]

Chunks(seq) ==
    [i \in 1..((Len(seq) + PerTx - 1) \div PerTx) |->
        SubSeq(seq, (i - 1) * PerTx + 1, Min({i * PerTx, Len(seq)}))]

(* Players in the fixed order of the seats, then the refunds in that of the index. *)
SettleEntries(escrowed) ==
    LET due == Entitlements(escrowed)
        wallets == SetToSeq(Seated) \o SetToSeq(ListedInside \ Seated)
    IN [i \in DOMAIN wallets |-> [wallet |-> wallets[i], entitlement |-> due[wallets[i]]]]

ListDepositors ==
    /\ job.at = "list"
    /\ job' = IF Cardinality(Listed) # job.expect THEN IdleJob
              ELSE [GoTo("send") EXCEPT !.todo = Chunks(SettleEntries(job.escrowed))]
    /\ UNCHANGED <<chainVars, round, signedAt, index, flight, stale, aborts>>

SendBatch ==
    /\ job.at = "send" /\ job.todo # <<>>
    /\ job' = [GoTo("wait") EXCEPT !.todo = Tail(@)]
    /\ flight' = [NoTx EXCEPT !.kind = "settle", !.batch = Head(job.todo),
                              !.outcome = "pending"]
    /\ UNCHANGED <<chainVars, round, signedAt, index, stale, aborts>>

FaultyConfirmed == flight.outcome # "pending"  \* an error status passes for a confirmation

Confirmed == flight.outcome = "confirmed"

(* signSendConfirm returns, or throws because the transaction failed. *)
Answer ==
    /\ job.at = "wait" /\ flight.outcome # "pending"
    /\ job' = IF ~Confirmed THEN IdleJob
              ELSE IF flight.kind = "close" THEN GoTo("record") ELSE GoTo("send")
    /\ flight' = NoTx
    /\ UNCHANGED <<chainVars, round, signedAt, index, stale, aborts>>

(* Read the vault again once every entitlement is in. *)
Recheck ==
    /\ job.at = "send" /\ job.todo = <<>>
    /\ job' = IF vault.deposited # job.expect THEN IdleJob ELSE GoTo("relist")
    /\ UNCHANGED <<chainVars, round, signedAt, index, flight, stale, aborts>>

IsRefund == round.status = "cancelled"

SendClose ==
    /\ job.at = "relist"
    /\ IF \/ Cardinality(Listed) # job.expect
          \/ \E p \in Listed : ~index[p].settled /\ ~index[p].claimed
       THEN job' = IdleJob /\ UNCHANGED flight
       ELSE /\ job' = GoTo("wait")
            /\ flight' = [NoTx EXCEPT !.kind = "close", !.list = SetToSeq(Listed),
                                      !.refund = IsRefund, !.outcome = "pending"]
    /\ UNCHANGED <<chainVars, round, signedAt, index, stale, aborts>>

RecordSettlement ==
    /\ job.at = "record"
    /\ round' = [round EXCEPT !.recorded = TRUE]
    /\ job' = IdleJob
    /\ UNCHANGED <<chainVars, signedAt, index, flight, stale, aborts>>

(* An RPC or database error, a confirmation that takes too long, or a restart of the server:
   the job is gone, and a transaction it had sent may still land. *)
Abort ==
    /\ job.at # "idle" /\ aborts < MaxAborts
    /\ aborts' = aborts + 1
    /\ job' = IdleJob /\ flight' = NoTx
    /\ stale' = IF flight.outcome = "pending" THEN stale \cup {flight} ELSE stale
    /\ UNCHANGED <<chainVars, round, signedAt, index>>

JobStep == \/ StartJob \/ ListDepositors \/ SendBatch \/ Answer
           \/ Recheck \/ SendClose \/ RecordSettlement

SettlementNext ==
    \/ \E p \in Player : SignDeposit(p) \/ LandDeposit(p) \/ TakeSeat(p) \/ RecoverSeat(p)
    \/ OpenArena \/ Cancel \/ Lock \/ Complete
    \/ PassTime \/ IndexCatchesUp
    \/ LandFlight \/ (\E tx \in stale : LandStale(tx))
    \/ StartJob \/ ListDepositors \/ SendBatch \/ Answer
    \/ Recheck \/ SendClose \/ RecordSettlement
    \/ Abort

SettlementSpec == SettlementInit /\ [][SettlementNext]_settlementVars

(* The clock runs, the index catches up, a sent transaction is executed, and the pages of the
   arena keep calling the settle route (ArenaView.tsx). *)
SettlementFairSpec ==
    /\ SettlementSpec
    /\ WF_settlementVars(PassTime)
    /\ WF_settlementVars(IndexCatchesUp)
    /\ WF_settlementVars(LandFlight)
    /\ WF_settlementVars(JobStep)

-----------------------------------------------------------------------------
(* Properties. *)

Ended == round.status \in {"complete", "cancelled"}

(* A cancelled arena gives every depositor who has not recovered the whole seat and takes no fee
   of it (route.ts:65-68); so does a completed one for those "paid but never seated"
   (route.ts:142), whatever else landed or was recovered while the job ran. *)
SeatsComeBackWhole ==
    vault.status = "settled" =>
        /\ \A p \in Inside \ (IF round.status = "complete" THEN round.seats ELSE {}) :
               entry[p].entitlement = Seat
        /\ round.status = "cancelled" => ~fee.active

Division(group) ==
    PayoutShares([p \in group |-> round.cash[p]], [p \in group |-> round.prize[p]],
                 Cardinality(group) * Seat, {})

(* What the players can claim is the division of payoutShares among those of them whose money
   was still in the vault: an entitlement computed before a recovery does not survive it, not
   even one that lands late.  The exception is a player who recovers exactly what was due: the
   division that counted them in stays, as the total the program checks is still right. *)
PlayersGetTheirShares ==
    vault.status = "settled" /\ round.status = "complete" =>
        LET players == Inside \cap round.seats IN
        \E group \in SUBSET round.seats :
            /\ players \subseteq group
            /\ \A p \in group :
                   Division(group)[p] = IF p \in players THEN entry[p].entitlement ELSE Seat

(* The two records that make the pages stop asking are true for good: settleSignatures is only
   stored for a vault that is settled on chain, so that Claim, offered from then on, works
   (route.ts:141, adoptChainSettlement); and no deposit lands behind "refund: true,
   depositors: 0", which is what REFUND_SAFETY_MS is for (route.ts:8-13). *)
RecordsStayTrue ==
    /\ round.recorded => vault.status = "settled"
    /\ round.nothingToRefund => vault.deposited = 0

(* No partial settlement paints the vault into a corner: whatever attempts died halfway and
   whoever recovered since, the entitlements of the next attempt pass one by one and add up to
   exactly what CloseSettlement demands. *)
NextAttemptCloses ==
    Ended /\ IsOpen /\ index = entry =>
        LET entries == SettleEntries(vault.total_escrowed) IN
        /\ BatchPasses(entries)
        /\ RunningTotal(entries, Len(entries)) + vault.claimed_total = vault.total_escrowed

(* An arena that has ended with money in its vault is eventually settled and recorded, through
   crashes, late deposits, recoveries and late transactions. *)
EventuallyRecorded == (Ended /\ vault.deposited > 0) ~> round.recorded
=============================================================================
