------------------------------- MODULE Cashier -------------------------------
(***************************************************************************)
(* How one wallet's deposit in one pit comes home: the positions page      *)
(* (app/ArenaPortfolio.tsx), the pit's own page (app/ArenaView.tsx), the   *)
(* portfolio, entry, settle and tx routes they call, and the deposit's     *)
(* entry and vault on chain.                                               *)
(*                                                                         *)
(* The pages act on what they last read; settlement is asked for by pages, *)
(* and its three steps (the entry, the vault, the ledger) may be cut off   *)
(* in between; withdrawals land late, or never.                            *)
(***************************************************************************)
EXTENDS Integers, FiniteSets

CONSTANTS
    MaxFailures,  \* failed calls after which the pit's page stops asking: 12 in the code
    MaxFaults     \* bound: how often something outside the pages goes wrong

ASSUME CashierAssumption == MaxFailures \in Nat \ {0} /\ MaxFaults \in Nat

VARIABLES
    fate,     \* what becomes of the seat: won or lost all, never taken, or the pit is cancelled
    ledger,   \* the round as the server stores it
    chain,    \* the entry, and whether its vault is closed
    due,      \* whether the vault's deadline has passed
    server,   \* the settlement under way, and the page that asked for it
    cache,    \* the server's copy of the wallet's deposits, kept for six seconds
    shown,    \* the pit as the positions page shows it
    pit,      \* the pit's page
    ask,      \* the withdrawal a page waits for: none, asked, sent; one player, one at a time
    flying,   \* kinds of withdrawals built, at the wallet or on their way to the chain
    faults

chainVars == <<chain, due, flying>>
positionsVars == <<cache, shown>>
cashierVars == <<fate, ledger, chainVars, server, positionsVars, pit, ask, faults>>

Page == {"positions", "pit"}
Over == {"complete", "cancelled"}
NoAsk == [page |-> "none", stage |-> "none", kind |-> "none"]
NoCard == [deposited |-> FALSE, settled |-> FALSE, claimed |-> FALSE, amount |-> 0, vault |-> "unread"]
Idle == [stage |-> "idle", by |-> "none", skip |-> FALSE]
NewPit == [view |-> [status |-> "loading", recorded |-> FALSE], card |-> NoCard, read |-> FALSE,
           onChain |-> FALSE, failures |-> 0, nudge |-> "first"]

CashierInit ==
    /\ fate \in {"won", "lost", "unseated", "cancelled"}
    /\ ledger = [status |-> "playing", recorded |-> FALSE]
    /\ chain = [settled |-> FALSE, claimed |-> FALSE, amount |-> 0, closed |-> FALSE]
    /\ due = FALSE
    /\ server = Idle
    /\ cache = {} /\ shown = [status |-> "loading", action |-> "none"]
    /\ pit = NewPit
    /\ ask = NoAsk
    /\ flying = {}
    /\ faults = 0

Fault == faults < MaxFaults /\ faults' = faults + 1
NoFault == UNCHANGED faults

(* A definition named Faulty... is a deliberately wrong variant of the one below it, as in
   module Escrow. *)

-----------------------------------------------------------------------------
(* The round and the vault.  The keeper runs when a page reads the round: the pit's page
   polls it, the positions page loads it when its deadline has passed. *)

RoundEnds ==
    /\ ledger.status = "playing"
    /\ ledger' = [ledger EXCEPT !.status = IF fate = "cancelled" THEN "cancelled" ELSE "complete"]
    /\ UNCHANGED <<fate, chainVars, server, positionsVars, pit, ask, faults>>

DeadlinePasses ==
    /\ ~due
    /\ due' = TRUE
    /\ UNCHANGED <<fate, ledger, chain, flying, server, positionsVars, pit, ask, faults>>

(* A server without a database restarts: the round, the cache and the settlement are gone. *)
LedgerWiped ==
    /\ ledger.status # "unknown"
    /\ Fault
    /\ ledger' = [status |-> "unknown", recorded |-> FALSE]
    /\ server' = Idle /\ cache' = {}
    /\ UNCHANGED <<fate, chainVars, shown, pit, ask>>

-----------------------------------------------------------------------------
(* Settlement, asked for by a page (the settle route). *)

AfterFailure(p) == IF p.failures + 1 < MaxFailures THEN "go" ELSE "stop"

(* What a page makes of an answer; the pit's page reads round and entry again, unless it was
   told meanwhile that there is nothing to wait for. *)
Heard(result) ==
    CASE result = "pending" -> [pit EXCEPT !.nudge = "go"]
      [] result = "ok" -> [pit EXCEPT !.nudge = "stop", !.view = ledger', !.read = TRUE]
      [] result = "error" -> [pit EXCEPT !.nudge = AfterFailure(pit), !.failures = @ + 1,
                                         !.view = ledger', !.read = TRUE]

(* The settle effect of the pit's page, and that of the positions page, which asks for pits it
   shows as settling again and again. *)
PitWaits == pit.view.status \in Over /\ ~pit.view.recorded /\ ~pit.onChain

Asks(page) ==
    IF page = "pit" THEN PitWaits /\ pit.nudge \in {"first", "go"}
    ELSE shown.action = "settling" /\ shown.status # "unknown" /\ server.by # page

FaultyFirstStep == IF chain.settled THEN "recording" ELSE "settling"  \* adopts a paid entry

(* A settlement found on chain is adopted. *)
FirstStep == IF chain.closed THEN "recording" ELSE "settling"

SettleStarts(page) ==
    /\ Asks(page)
    /\ ledger.status \in Over /\ ~ledger.recorded /\ server = Idle
    /\ server' = [stage |-> FirstStep, by |-> page, skip |-> chain.claimed]
    /\ pit' = IF page = "pit" THEN [pit EXCEPT !.nudge = "waiting"] ELSE pit
    /\ UNCHANGED <<fate, ledger, chainVars, positionsVars, ask, faults>>

SettleAnswers(page, result) ==
    /\ Asks(page)
    /\ \/ server # Idle /\ result = "pending" /\ NoFault
       \/ server = Idle /\ ledger.recorded /\ result = "ok" /\ NoFault
       \/ server = Idle /\ ledger.status \notin Over /\ result = "error" /\ NoFault
       \/ result = "pending" /\ Fault  \* a late deposit may still land, or the index lags
       \/ result = "error" /\ Fault    \* a read of the chain, or the request, fails
    /\ UNCHANGED <<fate, ledger, chainVars, server, positionsVars, ask>>
    /\ pit' = IF page = "pit" THEN Heard(result) ELSE pit

Seated == fate \in {"won", "lost"}
Entitlement == IF fate = "lost" THEN 0 ELSE 1

(* SettlePlayer fails for an entry recovered after it was listed. *)
EntrySettled ==
    /\ server.stage = "settling"
    /\ server.skip \/ ~chain.claimed
    /\ server' = [server EXCEPT !.stage = "closing"]
    /\ chain' = IF server.skip \/ chain.settled THEN chain
                ELSE [chain EXCEPT !.settled = TRUE, !.amount = Entitlement]
    /\ UNCHANGED <<fate, ledger, due, flying, positionsVars, pit, ask, faults>>

VaultClosed ==
    /\ server.stage = "closing"
    /\ server' = [server EXCEPT !.stage = "recording"]
    /\ chain' = [chain EXCEPT !.closed = TRUE]
    /\ UNCHANGED <<fate, ledger, due, flying, positionsVars, pit, ask, faults>>

SettlementRecorded ==
    /\ server.stage = "recording"
    /\ ledger' = [ledger EXCEPT !.recorded = TRUE]
    /\ server' = Idle
    /\ pit' = IF pit.nudge = "waiting" THEN Heard("ok") ELSE pit
    /\ UNCHANGED <<fate, chainVars, positionsVars, ask, faults>>

(* A transaction is refused, or the server dies between two steps. *)
SettlementFails ==
    /\ server # Idle
    /\ IF server.stage = "settling" /\ chain.claimed /\ ~server.skip THEN NoFault ELSE Fault
    /\ server' = Idle
    /\ UNCHANGED ledger
    /\ pit' = IF pit.nudge = "waiting" THEN Heard("error") ELSE pit
    /\ UNCHANGED <<fate, chainVars, positionsVars, ask>>

-----------------------------------------------------------------------------
(* The positions page. *)

FaultyActionFor(status, dep) ==  \* leaves a pit without a record to its server
    CASE dep.claimed -> "claimed"
      [] ~dep.claimed /\ dep.closed -> IF dep.settled /\ dep.amount > 0 THEN "claim" ELSE "none"
      [] ~dep.claimed /\ ~dep.closed /\ status \in Over -> IF due THEN "recover" ELSE "settling"
      [] OTHER -> "none"

ActionFor(status, dep) ==
    CASE dep.claimed -> "claimed"
      [] ~dep.claimed /\ dep.closed -> IF dep.settled /\ dep.amount > 0 THEN "claim" ELSE "none"
      [] ~dep.claimed /\ ~dep.closed /\ status = "playing" -> "none"
      [] OTHER -> IF due THEN "recover" ELSE "settling"

(* The portfolio route reads the deposits, from its copy while it has one, and then the
   rounds; a failed read of the chain shows the pit without its deposit, and is not kept. *)
Item(dep) == [status |-> ledger.status, action |-> ActionFor(ledger.status, dep)]

Deposits == IF cache = {} THEN {chain} ELSE cache

Load ==
    /\ \/ \E dep \in Deposits :
              shown' = Item(dep) /\ cache' = {dep} /\ NoFault
       \/ shown' = [Item(chain) EXCEPT !.action = "none"] /\ UNCHANGED cache /\ Fault
    /\ UNCHANGED <<fate, ledger, chainVars, server, pit, ask>>

CacheExpires ==
    /\ cache # {} /\ cache' = {}
    /\ UNCHANGED <<fate, ledger, chainVars, server, shown, pit, ask, faults>>

-----------------------------------------------------------------------------
(* The pit's page. *)

(* The interval timer reads the round; a change of what the page waits for makes it read
   its entry. *)
PitRefreshes ==
    /\ pit.view # ledger
    /\ pit' = [pit EXCEPT !.view = ledger, !.read = @ \/ ledger.status \in Over,
                          !.nudge = IF ledger.recorded THEN "stop" ELSE @]
    /\ UNCHANGED <<fate, ledger, chainVars, server, positionsVars, ask, faults>>

Seen(card) ==
    [pit EXCEPT !.card = card, !.read = FALSE, !.onChain = @ \/ card.vault = "closed",
                !.nudge = IF card.vault = "closed" THEN "stop" ELSE @]

(* The entry route: a failed read of the entry is answered "no deposit", a failed read of the
   vault leaves it out; a lost answer leaves the card. *)
Card == [deposited |-> TRUE, settled |-> chain.settled, claimed |-> chain.claimed,
         amount |-> chain.amount, vault |-> IF chain.closed THEN "closed" ELSE "open"]

EntryArrives ==
    /\ pit.read /\ ~(PitWaits /\ pit.nudge = "first")
    /\ \/ NoFault /\ pit' = Seen(Card)
       \/ Fault /\ pit' \in {Seen(NoCard), Seen([Card EXCEPT !.vault = "unread"]), Seen(pit.card)}
    /\ UNCHANGED <<fate, ledger, chainVars, server, positionsVars, ask>>

(* A seated player is offered its payout, the ledger's figure until the entry is read. *)
ClaimBox ==
    LET amount == IF pit.card.deposited THEN pit.card.amount ELSE Entitlement
    IN IF (pit.view.recorded \/ pit.onChain) /\ amount > 0 /\ ~pit.card.claimed
       THEN {"claim"} ELSE {}

(* Everybody else with a deposit gets it back. *)
RefundCard ==
    IF ~pit.card.deposited \/ pit.card.claimed THEN {}
    ELSE IF pit.card.settled /\ pit.card.vault = "closed" THEN {"claim"}
    ELSE IF pit.card.vault # "unread" /\ due THEN {"recover"} ELSE {}

PitOffers ==
    IF pit.view.status \notin Over THEN {} ELSE IF Seated THEN ClaimBox ELSE RefundCard

(* The player comes back to the pit, by a link or a reload, when its page has come to rest. *)
PitOpened ==
    /\ ask.page # "pit" /\ pit.view = ledger /\ ~(PitWaits /\ pit.nudge # "stop")
    /\ pit' = NewPit
    /\ UNCHANGED <<fate, ledger, chainVars, server, positionsVars, ask, faults>>

-----------------------------------------------------------------------------
(* Withdrawals (claimFromEscrow, the tx route, signAndBroadcastLegacy). *)

Offers == [p \in Page |-> IF p = "pit" THEN PitOffers ELSE {shown.action} \cap {"claim", "recover"}]

Pressed(page, kind) ==
    /\ ask = NoAsk /\ kind \in Offers[page]
    /\ ask' = [page |-> IF page = "positions" /\ shown.status = "unknown" THEN "vault" ELSE page,
               stage |-> "asked", kind |-> kind]
    /\ UNCHANGED <<fate, ledger, chainVars, server, positionsVars, pit, faults>>

(* The tx route for a pit the ledger has: the ledger says whether the vault is closed. *)
Claimable ==
    /\ ledger.status \in Over /\ ledger.recorded
    /\ chain.settled /\ ~chain.claimed /\ chain.amount > 0

(* And for a vault without a pit. *)
ClaimableByVault == chain.closed /\ chain.settled /\ ~chain.claimed /\ chain.amount > 0

Builds(page, kind) ==
    IF page = "vault"
    THEN IF kind = "claim" THEN ClaimableByVault ELSE ~chain.claimed /\ ~chain.closed /\ due
    ELSE ledger.status # "unknown" /\ (IF kind = "claim" THEN Claimable ELSE ledger.status # "complete")

Done ==
    /\ ask' = NoAsk
    /\ pit' = IF ask.page = "pit" THEN [pit EXCEPT !.read = TRUE] ELSE pit

(* What a withdrawal does on chain (module Escrow). *)
Lands(kind) ==
    IF kind = "claim" THEN ClaimableByVault ELSE ~chain.closed /\ due /\ ~chain.claimed

(* buildTx: a dry run keeps back what would fail, when there is a dry run. *)
PassesDryRun(kind) == IF Lands(kind) THEN NoFault ELSE Fault

(* The player signs, a second time when the first took too long, or does not. *)
RouteAnswers ==
    /\ ask.stage = "asked"
    /\ \/ /\ Builds(ask.page, ask.kind)
          /\ PassesDryRun(ask.kind)
          /\ ask' = [ask EXCEPT !.stage = "sent"]
          /\ flying' = flying \cup {ask.kind}
          /\ UNCHANGED pit
       \/ /\ ~Builds(ask.page, ask.kind) \/ ~Lands(ask.kind)
          /\ Done /\ NoFault /\ UNCHANGED flying
       \/ Fault /\ Done /\ UNCHANGED flying  \* a failed read, a lost answer, a refusal
    /\ UNCHANGED <<fate, ledger, chain, due, server, positionsVars>>

(* Confirmed or failed on chain, or dropped; the page may have stopped waiting for it. *)
WithdrawalEnds(kind) ==
    /\ kind \in flying
    /\ flying' = flying \ {kind}
    /\ \/ NoFault /\ chain' = IF Lands(kind) THEN [chain EXCEPT !.claimed = TRUE] ELSE chain
       \/ Fault /\ UNCHANGED chain
    /\ IF ask.stage = "sent" /\ ask.kind = kind THEN Done ELSE UNCHANGED <<ask, pit>>
    /\ UNCHANGED <<fate, ledger, due, server, positionsVars>>

(* After a minute the page goes on as if the withdrawal were confirmed; at once, when the
   broadcast was answered with an error although the withdrawal is on its way. *)
StopsWaiting ==
    /\ ask.stage = "sent"
    /\ Fault /\ Done
    /\ UNCHANGED <<fate, ledger, chainVars, server, positionsVars>>

-----------------------------------------------------------------------------
SettlementSteps == EntrySettled \/ VaultClosed \/ SettlementRecorded
Presses == \E page \in Page, kind \in {"claim", "recover"} : Pressed(page, kind)

CashierNext ==
    \/ RoundEnds \/ DeadlinePasses \/ LedgerWiped
    \/ \E page \in Page : SettleStarts(page)
    \/ \E page \in Page, result \in {"ok", "pending", "error"} : SettleAnswers(page, result)
    \/ SettlementSteps \/ SettlementFails
    \/ Load \/ CacheExpires
    \/ PitRefreshes \/ EntryArrives \/ PitOpened
    \/ Presses
    \/ RouteAnswers \/ StopsWaiting
    \/ \E kind \in flying : WithdrawalEnds(kind)

CashierSpec == CashierInit /\ [][CashierNext]_cashierVars

(* Timers run and requests are answered; the player looks at both pages for ever, and presses
   and signs what they offer. *)
CashierFairSpec ==
    /\ CashierSpec
    /\ WF_cashierVars(RoundEnds) /\ WF_cashierVars(DeadlinePasses)
    /\ \A page \in Page :
           /\ WF_cashierVars(SettleStarts(page) \/ (\E result \in {"ok", "pending", "error"} : SettleAnswers(page, result)))
           /\ \A kind \in {"claim", "recover"} : WF_cashierVars(Pressed(page, kind))
    /\ WF_cashierVars(RouteAnswers)
    /\ WF_cashierVars(SettlementSteps) /\ WF_cashierVars(SettlementFails)
    /\ WF_cashierVars(Load) /\ WF_cashierVars(CacheExpires)
    /\ WF_cashierVars(PitRefreshes) /\ SF_cashierVars(EntryArrives)
    /\ WF_cashierVars(\E kind \in flying : WithdrawalEnds(kind))
    /\ SF_cashierVars(PitOpened)

-----------------------------------------------------------------------------
(* Properties. *)

(* "The wallet is never asked to sign a tx that will predictably fail on-chain"
   (app/api/escrow/tx/route.ts:80-81), for claims: the route trusts the ledger's record that
   the vault is closed, and a claim it built finds its vault closed and its entry settled,
   though settlements are cut off, retried and adopted. *)
ClaimsWillLand ==
    ask.stage = "sent" /\ ask.kind = "claim" => chain.closed /\ chain.settled /\ chain.amount > 0

(* For a player who keeps both pages at hand and presses what they offer, the deposit comes
   home, unless it was settled at nothing: no cut-off settlement, lost ledger, stale read or
   lost withdrawal strands it, and the positions page ends up saying so. *)
MoneyComesHome ==
    <>[](/\ chain.claimed \/ (chain.closed /\ chain.settled /\ chain.amount = 0)
         /\ shown.action = IF chain.claimed THEN "claimed" ELSE "none")

=============================================================================
