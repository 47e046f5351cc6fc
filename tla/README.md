# Oracle Rumble: TLA+ models, checks and proofs

Oracle Rumble runs short, hosted trading games ("arenas", "pits") for USDC.
Players pay an entry and a trading vault into an on-chain escrow, a Next.js
server runs the game (enrolment, rounds, eliminations, final), and then settles
the escrow so that everybody can claim a prize and a share of the vault money.

This directory models the system from the host who pays for a market to the
player who takes the prize home: the Solana program, the payout arithmetic, the
server that runs and settles the games, the games themselves, and the pages that
sign, send, wait and retry.  All paths below are relative to the repository root.

- [Inventory](#inventory): the system's parts, their state, what can go wrong
- [Modules](#modules): how the TLA+ corresponds to the code
- [Runs](#runs): what is model-checked, with which bounds and fairness
- [Proofs](#proofs): what is proved for every instance
- [Disagreements](#disagreements-between-code-and-documentation) and
  [observations](#observations)
- [Abstractions](#abstractions), [what is not modelled](#not-modelled)

## Inventory

### The parts and how they interact

```
 host's page ---quote, build, register---> market routes --> drafts (memory, Postgres) --> Panta
      |
 player pages --poll--> round route --tick--> keeper, royale.ts, room-book.ts, streak.ts
      |   |                  |                   |               \--prices-- exchanges, Panta
      |   +--enrol, cancel, trade, call, picks---+--- round store (Postgres, a lock per arena)
      |   +--purchase--> order routes --> Panta
      |
      +--sign--> escrow tx route --co-sign--> escrow program  <--seat sync reads deposits
      +--settle--> escrow settle route --SettlePlayer.., CloseSettlement--> escrow program
      +--claim, recover (signed by the player alone)----------------------> escrow program
      +--session cookie, X sign-in (Privy), shared by the tabs of a browser
```

| part | code | state it keeps | operations | modelled in |
|---|---|---|---|---|
| Escrow program | `program/src/lib.rs` | RoundVault, FeeConfig, PlayerEntry per wallet, escrow token account | InitRound(V2), Deposit, SettlePlayer, CloseSettlement, CloseRefund, Claim, Recover | `Escrow`, `Custody` |
| Payout arithmetic | `lib/royale.ts`, `lib/fees.ts` | none | host fee, split, ties, division of the escrow | `Payouts`, `Prizes` |
| Settlement service | `app/api/escrow/settle/route.ts`, `lib/escrow-server.ts` | the set of arenas being settled; signatures saved in the game record | settle, refund, adopt an on-chain settlement, batch, confirm, re-check, close | `Settlement` |
| Deposit and withdrawal transactions | `app/api/escrow/tx/route.ts`, `app/api/escrow/entry/route.ts` | none (pending seats) | co-sign deposit, build claim, build recover, read an entry | `Settlement`, `Arena`, `Hosting`, `Cashier` |
| Round store | `lib/round-store.ts` | rounds of an arena code, a row lock per arena | active, latest, save, retire others | `Arena` |
| Keeper, lifecycle | `lib/round-keeper.ts`, `lib/royale.ts`, `app/api/round/route.ts` | the game record | host, poll, tick (enrol, lock, close, advance, complete, cancel), practice bootstrap | `Arena`; what a tick does to the players: `BookPit`, `SpotPit` |
| Enrolment, seat sync | `app/api/round/enroll/route.ts`, `lib/seat-sync.ts` | last check per round | verify deposit, seat, seat paid wallets that never enrolled, hold the lock | `Arena` |
| Cancellation | `app/api/round/cancel/route.ts` | none | cancel an arena nobody else is in | `Arena`, `Hosting` |
| Trading and positions | `app/api/round/trade/route.ts`, `app/api/round/call/route.ts`, `lib/royale.ts` | cash, shares, calls, tape | call, buy, sell, switch sides, mark, cut, advance | `Vaults`, `BookPit`, `SpotPit` |
| Room book | `lib/room-book.ts` | shares issued, price tape | seed, auction, fill, bots, closing average | `RoomBook`, `BookPit` |
| Streak | `lib/streak.ts` | legs, picks, windows | pick, open a leg, judge it, eliminate | `SpotPit`, `Picks` |
| Predictions | `lib/predictions.ts`, `app/api/round/picks/route.ts` | cards, locked answers | pick, lock an answer, score | `Picks`, `SpotPit` |
| Price oracle | `lib/oracle.ts` | last readings | merge readings, value a share, resolve | `Picks`, `SpotPit` |
| Panta markets and drafts | `lib/panta-market.ts`, `app/api/markets/*` | drafts in memory and on disk | quote, build, register, restore | `Hosting` |
| Panta orders | `lib/panta-order.ts`, `lib/panta-client.ts`, order routes | attributed trades | quote, build, sign, submit, verify, report | `Orders` |
| Client join flow | `lib/round-client.ts`, `app/ArenasDirectory.tsx` | the page's step, browser storage | pay for a market, open a pit, deposit, tear down | `Hosting` |
| Player page | `app/ArenaView.tsx` | view, draft click, save queue | poll, click, save, settle, claim | `PlayerPage`, `Cashier` |
| Positions page | `app/ArenaPortfolio.tsx`, `app/api/portfolio/route.ts` | cards, a six-second cache | load, settle, claim, recover | `Cashier` |
| Sessions and identity | `lib/use-wallet.ts`, `lib/session-client.ts`, `lib/privy-client.ts` | cookie, Privy, what each tab remembers | sign in, out, renew, act | `Identity` |

`PROJECT.json` lists the remaining parts with the reason why each has no model.

### What makes it hard

- **Two records of one game.**  Money is on chain, results are in the database,
  and no transaction spans both.  A crash, a lost confirmation or a late landing
  leaves them different for a while; settlement and the pages have to converge
  anyway.
- **Everything is read before it is used.**  Each request peeks at the store, the
  chain and the price feeds without a lock, and takes the arena's lock only to
  apply what it decided; a trade is priced before the lock and filled under it.
- **Transactions outlive the code that sent them.**  A co-signed deposit lands
  after the arena locked or was cancelled; a settlement transaction, a market
  payment, a purchase or a withdrawal whose confirmation timed out lands later;
  and so may one whose broadcast was answered with an error, because the answer
  was lost, of which the page does not even know the signature.
- **Players act on chain without the server.**  Recover shrinks a vault in the
  middle of its settlement.
- **Nothing runs without a visitor.**  The keeper only ticks when a page polls:
  windows end long before anybody notices, and prices may be missing then.
- **Pages are caches with buttons.**  A button shows what was true a while ago,
  clicks overtake saves, polls overtake both, tabs share a cookie they do not own.
- **Running totals.**  The program never sums over entries: every instruction
  adjusts `settled_total`, `claimed_total` and `total_escrowed` by a difference,
  and one wrong difference locks the vault for good.
- **Rounding.**  Prizes and shares have to add up to the last micro-USDC, or
  CloseSettlement is refused for ever; fills must not create value, however many.

Every one of these at its line, with the properties that cover it, is in
`PROJECT.json` under `hazards`.

### What makes each part correct

- *Escrow*: totals are true totals; the account covers what is owed; whoever put
  money in can take it out, once, whatever the host does; a closed settlement is
  final.
- *Payouts*: pool and pot are paid exactly, the split is the advertised one,
  better results never earn less.
- *Settlement*: what the server closes gives each player the right share and each
  refund the whole seat; a recorded settlement is a settled vault; an attempt that
  died halfway never blocks the next; in the end every vault is settled.
- *Arena*: one game at a time per code; a deposit on chain is seated before the
  game locks; rosters and results are fixed; settlement looks where the deposits
  are; every game ends.
- *Pits*: the book issues exactly the shares that players hold, no sequence of
  trades creates money, positions freeze with the round, the market settles at
  its outcome or at the time-weighted average; picks lock on time and are scored
  by the answers at the close.
- *Pages*: no market is paid for again while the page knows of a payment that may
  count; a pit is not torn down when the page has its deposit's signature, nor when
  the cancel route finds a deposit in its vault;
  the last click wins; a claim that was sent lands; the money comes home; what a page
  says of a purchase it has the signature of stays true; tabs agree.

## Modules

| module | what it is |
|---|---|
| `Totals` | the sum of a function over a finite set, used by the books |
| `Custody` | abstract: a pot people pay one price into, and leave with their price before it closes or their share after it |
| `Escrow` | the program, one action per instruction, against an arbitrary host |
| `Payouts` | `fees.ts` and the payout functions of `royale.ts` as operators |
| `Prizes` | an arena's money from the final result to the entitlements, on `Payouts` |
| `Settlement` | the server's job, composed with `Escrow` and `Payouts` |
| `Arena` | one arena code: store, requests, keeper, deposits |
| `Vaults` | a player's position: buy, sell, switch, call, settle, rank, cut, carry |
| `RoomBook` | the pit's market maker and its tape, on `Vaults` |
| `BookPit` | a game on a Panta market: `RoomBook` under trades and polls |
| `Picks` | readings, questions, answers, scores, the closing sample |
| `SpotPit` | a game on spot prices in its three formats, on `Vaults` and `Picks` |
| `Hosting` | creating a market and opening a pit, from the page to the chain |
| `PlayerPage` | picks between page and server |
| `Cashier` | one deposit's way home, through both pages |
| `Orders` | purchases on Panta |
| `Identity` | tabs, cookie and X sign-in |
| `PayoutProofs` | lemmas on sums, and on every operator of `Payouts` |
| `ArenaProofs`, `SpotPitProofs`, `HostingProofs` | lemmas and theorems about the modules they name |
| `RoyaleProofs`, `SettlementProofs`, `PageProofs`, `CashierProofs` | the same about `BookPit` and `Prizes`, `Escrow` and `Settlement`, `Orders` and `PlayerPage`, `Cashier` and `Identity` |
| `MCEscrow`, `MCSettlement`, `MCArena`, `MCBookPit`, `MCSpotPit`, `MCIdentity` | values for the constants |

A definition whose name starts with `Faulty` is a deliberately wrong variant of
the definition under it (a dropped check, a missing reset...).  No specification
uses one.  Substituting it makes a property fail, which shows that the property
can notice that mistake.

### Escrow

`vault`, `fee` and `entry[p]` are the accounts RoundVault, FeeConfig and
PlayerEntry with the fields' own names; `held`, `wallet[p]` and `feeHeld` are
token balances.  Each instruction is one action whose conjuncts are the checks of
its `process_*` function, in u64 arithmetic bounded by `MaxU64`; an instruction
that returns an error changes nothing and is a stuttering step.  `Claim` and
`Recover` share `Payable`, as they share `process_withdraw`.  CloseSettlement and
CloseRefund take *any* list of entry accounts, with repetitions, and check it.
The host signs whatever it likes.  `Promise` maps the state to `Custody`:
entitlements that are on record but not final show in none of its promises.

### Payouts and Prizes

Integers in micro-USDC; 62.5 / 23.4375 / 14.0625 % are 40, 15 and 9 parts in 64.
In `PayoutShares` the code multiplies by a quotient of doubles, and its floor may
fall one unit short of a whole number: `slip` is the set of weights where it
does, and the runs try every set.  `Prizes` takes an arena from live to complete
(`Settle` or `SettlePredictions`) and then divides the escrow among any non-empty
set of players who did not recover.

### Settlement

`round` is the part of the game record the job reads, `index` what
getProgramAccounts answers (an older snapshot of `entry`, until
`IndexCatchesUp`), `job` the program counter and locals of the one job per arena,
`flight` the transaction it waits for, `stale` those it gave up.  The job's
actions are the stretches between two awaits:

| action | code |
|---|---|
| `StartJob` | route.ts 96-131: record, then vault; adopt a settled vault; nothing to refund |
| `ListDepositors` | listDepositors against the counter, then the entitlements |
| `SendBatch`, `LandFlight`, `Answer` | signSendConfirm, six SettlePlayer at a time (`PerTx`) |
| `Recheck`, `SendClose` | read the vault and the entries again, close with that list |
| `RecordSettlement` | save the signatures under the arena's lock |
| `Abort` | an error, a timeout or a restart at any of these points |

`Abort` while a transaction is in flight moves it to `stale`; `LandStale` executes
it at any later time or never.  `Lock`, `Complete` and `Cancel` are the arena's
end as settlement sees it; `Arena` has the detail.

### Arena

`rounds` is the sequence of games saved under one code, `vaults[v]` the recovery
deadline a vault was opened with.  A request is a record in `polls`, `enrolls`,
`cancels` or `hosting` between its two halves: `PollPeeks`/`PollKeeps`,
`EnrollPeeks`/`EnrollSeats`, `CancelPeeks`/`CancelCommits`,
`HostOpens`/`HostSaves`.  The second half runs under the lock, so it is atomic.
`SeatSyncs` is the set of answers `unseatedDepositors` may give: nothing (the
throttle), chain unreadable, or any subset of the depositors with the `failed`
flag when it is short of the vault's counter.  `TickEnrolling` and `TickLive` are
`tick`; bots are a number, since only humans hold seats that are paid for.  A
royale's next round is saved as a new round with the same seats and vault.

### Vaults, RoomBook and BookPit

A position is cash in cents and a whole number of shares of one side; the cents
that do not make up a share stay in cash.  `Buy`, `Sell` and a side switch are
the functions of `royale.ts`, with their refusals.  The book's logarithmic cost
depends on the shares issued only through YES's lead over NO, so `Curve` and
`Line` are tables over leads; `RoomBookAssumption` names what the properties need
of them (a pair of shares costs 100, one more share costs between 1 and 100 more,
the price rises with the lead).

`ChangeCall` is the call route; `TradePeeks` finds the player and prices the trade
outside the lock, `TradeFills` checks round, last call and slippage again and
fills it under the lock.  `Poll` is the keeper's tick: the auction that turns
calls into first positions, a bot's bet, the mark on the tape, and, once the bell
has rung, settlement at Panta's outcome or at the tape's average, the cut and the
advance to the next round or the final.

### Picks and SpotPit

A reading is a price per asset, 0 when it is missing.  `Picks` has what is decided
from readings: the value of a share while time is left, the answers of the card
and of a leg, a card's score with its locked answers, and the keeper's choice of
the closing sample.  `SpotPit` runs one of three formats: a royale on a spot
market (`TradePeeks`, `TradeFills`), predictions (`MakePicks`) or streak
(`PickLeg`), all ticked by `Poll` with whatever the feeds and candles answer.  A
poll's prices come through the cache of `oracle.ts`: per asset Coinbase's, else
Kraken's, else those of an earlier poll (`SpotPrices`).  A trade asks both
exchanges again and is refused when they are further apart than `Divergence`, when
the price jumped since the last sample, or when the share's price left the one on
the page.  `PickMarket` chooses the next round's market from whatever the board
lists at that moment (`Boards`).

### Hosting

`page` is where the host's page is between two awaits, `disk` the browser's
storage, `cache` and `rows` the server's drafts in memory and in the database,
`sessions` Panta's creation sessions, `handlers` the register requests under way,
`txs` the payments sent, `pits` the pits opened with their deposits.  Sending is two
steps, the bytes reaching the chain (`SendPayment`, `SendDeposit`) and the node's
answer (`SaveSignature`, `DepositHeard`), since the page learns the signature from
the answer: when an error comes instead (`BuildFails`, `SeatFails`), the
transaction may be on its way all the same.

| actions | code |
|---|---|
| `Quote`, `Edit`, `StartOver`, `PressCreate` | the form and `createDraft` |
| `BuildAnswers`, `BuildFails`, `SendPayment`, `SaveSignature`, `ConfirmPayment` | panta-client.ts: build, sign, remember the signature, wait |
| `ServerAsks`, `ServerMarks`, `AnswerLost`, `RecordCreated` | register: ask Panta, mark the draft in memory and on disk, answer |
| `PressOpen`, `OpenPit`, `PitRefused`, `BuildDeposit`, `SendDeposit`, `DepositHeard`, `ConfirmDeposit`, `SeatFails`, `FinishSeat` | opening a pit on it, and the host's own seat |
| `CancelPeeks`, `CancelCommits` | tearing it down when the seat failed: the cancel route reads the vault, and then takes the lock |
| `PaymentEnds`, `DepositEnds`, `QuoteExpires`, `Reload`, `Restart` | the chain, Panta, the browser, the server |

### PlayerPage

`view` is the last poll, `draft` the click shown over it, `queue` and `job` the
saves that go out one at a time, `posts` and `polls` the requests under way.  What
the screen shows is `Shown`: the draft if there is one, else the view's pick.

### Cashier

`fate` is what the seat is worth in the end; `chain`, `ledger`, `cache`, `shown`
and `pit` are five copies of the same facts of different age: the entry and its
vault, the round in the store, the server's six-second cache, a card of the
positions page, the pit's page.  The tx route simulates what it is about to sign
(`PassesDryRun`), and sends it all the same when the simulation itself failed.
`SettlementSteps` and `SettlementFails` are the settle route in three steps (entry, vault, ledger), `LedgerWiped` the restart of a
server that keeps its ledger in memory.  `Presses` is a player pressing what a
page offers; `RouteAnswers` is the tx route's check, `WithdrawalEnds` the chain.

### Orders

Each purchase is a record with three views of it: Panta's status, the
transaction, and what the page said in the end (`verdict`).  The steps are
`executePantaOrder` from the pit's fill to the report to `orders/verify`.
`Broadcast` is the wallet's signature and the bytes reaching the chain;
`BroadcastAnswers` the answer, with the `signature` or with an error that says
nothing of the transaction.

### Identity

`cookie` and `privy` are shared by the tabs; `tabs[t]` is what a tab shows, the
account it remembers being signed in as, and the account Privy told it.  `calls`
is the bag of requests under way: a read answers for the cookie it was *sent*
with, a sign-in or sign-out counts when its answer arrives.  `news` are storage
events not yet handled.

## Runs

States are distinct states; times are for two workers.

| run | question | size |
|---|---|---|
| `escrow` | books, solvency, a way out for everyone, exact balances, finality, `Custody`, everyone exits | 41 k, 65 s |
| `prizes` | pool and pot paid exactly, the advertised split, better results never earn less | 121 k, 30 s |
| `settlement` | what is closed and recorded is right, the next attempt can close, every vault is recorded in the end | 120 s |
| `arena` | one game, deposits seated, fixed rosters, final results, settlement at the right vault | 651 k, 100 s |
| `arena_live` | every game ends | 23 k, 15 s |
| `book_pit` | the book balances, trades create nothing, positions freeze, settled at the average | 105 s |
| `spot_pit` | streak standings, scored cards, picks locked on time, trades pay the spread | 615 k, 85 s |
| `hosting` | created is paid and listed, never paid twice, deposited pits stand | 820 k, 50 s |
| `player_page` | the last click wins, the screen settles | 25 s |
| `cashier` | claims that were sent will land, the money comes home | 270 k, 100 s |
| `orders` | what the page says stays true, purchases follow fills | 79 k, 4 s |
| `identity` | tabs agree, acts are served | 1.4 M, 155 s |

### Bounds, and why the interesting cases happen

- **escrow**: three wallets (one recovers, one is settled, one is both), amounts
  0-2, capacities on both sides of the minimum and below the number of wallets,
  a deadline that has passed at once or later, one fee rate that is allowed and
  one that is not.  `MaxU64` is 8: three seats of 1+2 or 2+2 overflow
  `total_escrowed`, so that addition fails for the last depositor.
- **prizes**: up to four players, so a place beyond the paid ones exists; pools
  that do not divide by 64; host fees of 0, 5 and the out-of-range 30 %; ties of
  every shape; every subset of players recovered; vault values of 0 (all weights
  zero) and skewed; every `slip`.
- **settlement**: two seats in transactions of one, so there are two partial
  settlements and a close; one abort at every point; deposits that land late;
  recoveries from the deadline on; the index stale for any length of time.
  `DepositLife` < `RefundSafety`, the relation the route's comment states.
- **arena**: a paid duel that two players fill up, a paid royale of two rounds
  with the bots one short, a practice arena; two overlapping polls, one enrolment
  or cancellation under way, one hosted vault per code, three rounds per code.
  Every timing constant of the keeper is 1 or 2, which keeps their order where the
  code relies on it (`RequestLife <= PreLock`).
- **arena_live**: one player, one poll at a time, a longer lock hold and idle time.
- **book_pit**: two people and a bot, two rounds of three instants with the last
  one closed to trades, the cost table of b = 20 (the code's smallest) for leads
  of up to 60 shares, vaults of $5, one trade of up to $3 per player, which moves
  the price from one side of the line to the other; the bell answered on time or
  one instant late, so that the tape may end before it.
- **spot_pit**: all three formats; two assets and four answers of an exchange, one
  of them empty and one without the second asset, so that the two exchanges may
  disagree and the cache may mix readings; boards with the markets of both assets or
  of one; two legs; a window that ends before its leg;
  polls up to two instants late, so windows pass unpolled.
- **hosting**: two drafts and two payments, so a second fee may be for the same draft
  or for the next one; one pit, since no action looks at two; two reloads and two
  restarts, so that what came back may be lost again; one failed write.  The reloads
  may come at any moment; every answer may be lost, the chain's answer to a
  broadcast included; every transaction may land, fail, or stay
  on its way for ever, which to the page is a dropped one.
- **player_page**: three clicks, two polls that any save overtakes, one lost
  answer, two legs.  `Patient`: a save ends before the next leg opens.
- **cashier**: two failures before a page gives up (12 in the code), two faults
  anywhere.
- **orders**: three purchases, three faults, servers with and without a Panta key.
- **identity**: two tabs and two accounts (symmetric), three events with up to
  three requests under way when one happens.

Clocks stop at a bound (`MaxTime`; in `Arena` a while after the last deadline of
the active round), and a system that has nothing left to do stops: deadlock is
not an error here.  That nothing gets *stuck* is said by the liveness properties,
`NobodyStranded`, `NextAttemptCloses` and `ClaimsWillLand`.

### Fairness

- `Escrow`: time passes, and each depositor who can withdraw eventually sends that
  transaction.  Nothing is assumed of the host.
- `Settlement`: time passes, the index catches up, a transaction that was sent
  executes, and the job moves on.  The pages of an arena that ended call the settle
  route again and again (`app/ArenaView.tsx` 306-348); the assumption is that
  somebody has the page open or comes back.  A stale transaction need never land,
  and a player need never recover.
- `Arena`: polls keep coming and finish, and time passes: somebody has the page
  open.  There is no scheduler on the server, so without a visitor no game ends,
  by design.  Prices, chain and host owe nothing: a poll may find any of them
  missing every time.
- `PlayerPage`: the page's timers run, its queue moves on, requests are answered
  unless they are lost.
- `Cashier`: timers run and requests are answered; the player presses what both
  pages offer, and opens the pit's page again.  Strong fairness is only used where
  the code retries by itself: reading the entry, and reopening the page.

## Proofs

Every theorem is about the specification the runs check, for every value of its
constants that the module's ASSUMEs allow.  A hypothesis of a theorem itself is
named in its row; each is either the value the code has or one the run uses and
explains.

| module | theorem | states | hypothesis |
|---|---|---|---|
| `RoyaleProofs` | `PrizesAdvertised`, `SharesFollow` | `[]PrizesAsAdvertised`, `[]SharesFollowResults` | |
| | `PitInvariant`, `BooksAlwaysBalance` | `BookBalances` | `Unbounded` |
| | `TradesNeverCreate` | `TradesCreateNothing` | `Unbounded` |
| | `PositionsAlwaysFreeze` | `PositionsFreeze` | `Unbounded` |
| | `AveragesAlwaysTrue` | `SettledAtTheAverage` | `Unbounded`, `Dollars` |
| `SettlementProofs` | `TypeCorrect`, `InductiveInvariant` | `Spec => []TypeOK`, `Spec => []IInv` | |
| | `BooksAlwaysBalance`, `AlwaysSolvent` | `[]BooksBalance`, `[]Solvent` | |
| | `NeverStranded`, `EveryBalanceExact` | `[]NobodyStranded`, `[]PaidExactlyOnce` | |
| | `ClosedIsFinal` | `SettlementFinal` | |
| | `KeepsItsPromise` | `ImplementsCustody` | |
| | `RecordsAlwaysTrue` | `[]RecordsStayTrue` | |
| | `SettlementInvariant`, `SeatsAlwaysComeBackWhole` | `[]SeatsComeBackWhole` | |
| `ArenaProofs` | `ArenaInvariant`, `NeverTwoGames` | `[]OneActive` | |
| | `ResultsNeverChange`, `RosterNeverChanges` | `ResultsAreFinal`, `RosterIsFixed` | |
| | `DepositsAlwaysFound` | `[]SettlementFindsDeposits` | `MaxHosts <= 1` |
| | `DepositorsAlwaysSeated` | `LockSeatsDepositors` | `MaxHosts <= 1`, `RequestLife <= PreLock` |
| `SpotPitProofs` | `SpotInvariant`, `StandingsAlwaysTrue` | `[]StreakStandings` | |
| | `PicksAlwaysLockOnTime` | `PicksLockOnTime` | |
| | `CardsAlwaysScoredByRules` | `[]CardsScoredByRules` | |
| | `TradesAlwaysPayTheSpread` | `TradesPayTheSpread` | `Spread <= 1` |
| `HostingProofs` | `HostingInvariant`, `CreatedAlwaysPaidAndListed` | `[]CreatedIsPaidAndListed` | |
| | `DepositedPitsAlwaysStand` | `DepositedPitsStand` | |
| | `NobodyPaysTwice` | `NeverPaysTwice` | |
| `PageProofs` | `OrdersInvariant`, `VerdictsAlwaysTrue` | `[]VerdictsStayTrue` | |
| | `PurchasesNeverExceedFills` | `[]PurchasesFollowFills` | |
| | `LastClickAlwaysWins` | `[]LastClickWins` | `Patient` |
| `CashierProofs` | `CashierInvariant`, `ClaimsAlwaysLand` | `[]ClaimsWillLand` | |
| | `ActsServed` | `ActsAreServed` | |
| | `TabsInAgreement` | `[]TabsAgree` | |

### PayoutProofs, and RoyaleProofs: the prizes

These are the arithmetic of `fees.ts` and of the payout functions of `royale.ts`, for
any number of players, any fee, any ranking with ties of any shape, any vaults,
any subset of players left to share the escrow, and any set of weights whose
quotient of doubles falls short (`slip`).

What a recursive definition computes is proved here without an induction theorem
(the library's take an operator as a parameter): `SubsetInduction` is the
induction over the subsets of a finite set, in the form of its least
counterexample.  With it, a sum written as a fold equals one
defined by its equations (`SumIsFold`), and the rules of sums follow
(`SumSplit`, `SumUnion`, `SumScale`, `SumLeq`).

The pool is paid exactly because the best place takes what the floors leave
(`AmountsAre`), an odd unit of a tie goes to its first (`SharedAlike`), and
the groups of tied players cover each place once (`GroupPayoutsSum`: players are
added to the sum a group at a time).  No group is more than two units
away from its percentages (`GroupPayoutsAsAdvertised`); and a
better finish earns no less although the odd units are handed out within a
group, since a unit of the group above is worth at least one below it
(`GroupPayoutsFollowRank`).  Dividing the escrow, the parts in proportion add up
to at most the amount (`PartsFit`), also when a quotient falls short, and what is
left goes to the one placed best (`TopIs`, `PayoutSharesAre`).

### RoyaleProofs: the pit on a book

For any number of players and bots, any calls, amounts, lines and outcomes, any
liquidity, and any tables that `RoomBookAssumption` admits.  Two hypotheses are
about the model and not about the code:

- `Unbounded`: the tables `Curve` have an entry for every lead, as `cost` of
  `room-book.ts` has a value for every lead; those of a run end at 60 shares.
- `Dollars`: a player puts at least $1 into a trade.  Shares are whole here, so a
  smaller amount may sell the other side and then buy no share; such a trade is
  refused, changes the price and marks no tape (number 10 of the
  [disagreements](#disagreements-between-code-and-documentation)).  In the code
  shares are fractions: only an amount that disappears in the rounding of doubles
  buys none.

`PitInv` is typing and the tape: money, shares and prices are whole numbers,
nobody holds shares on no side, and a live round's tape starts when the round
opened, runs in order and holds nothing later than now.  The action properties
need no more about the state, since each compares a state with the next one;
`AveragesAlwaysTrue` adds `PriceShown`, that the tape ends with the price in force.

- *Trades.*  `Exchange` says of a buy, a sale, a switch or a refusal that the worth
  of the vault stays what it was and that the book and the position change by the
  same shares on each side.  It is transitive, which is how a switch is a sale
  and then a purchase.  The worth stays because the rule has one cost function: what was
  paid for shares is what the book pays back for them.
- *Bots.*  Their turn is a fold over all bots.  Its value is found without
  induction on a definition: `Turns` solves the fold's equation on every subset of
  the bots (`TurnsExist`, by `SubsetInduction`), and what each turn keeps
  (`BotTurnKeeps`) the whole of it keeps.
- *A poll* is a function of the room, taken apart into the lock (`AuctionLocks`),
  the bots (`RoomMoves`), the tape (`RoomTapes`) and the bell (`BellRings`).
  `PollKeeps` has the two outcomes: before the deadline positions of those out, or
  of everyone in the last call, are as they were and the book moved with the
  shares; at it, the round is complete, or the next one has a new book without shares.
- *The average.*  `Twap` weighs each sample by how long it was in force, and
  `SettledAtTheAverage` adds up the price of every instant.  They are the same area
  (`PeriodAdds`): the instants of the period are cut at the samples, one more
  sample at a time, and this takes a tape in order that starts no later than the period, which is
  `WindowMin <= Live`, thirty seconds and at least a minute in the code.  What
  the bell itself adds to the tape is at or after the deadline and weighs nothing
  (`BellReads`).

### SettlementProofs: the program

The theorems rest on the ASSUMEs of `Escrow`: finitely many wallets, natural
amounts within u64, and a maximal fee of at most 100 %.

`Solvent` (the account holds the sum of what is owed) is not inductive: closing
switches what is owed from one seat per depositor to the entitlements, so the sum
of entitlements must be known to equal what is left.  CloseSettlement only checks
counters, so `BooksBalance` has to say that the counters are the sums.  Closing
also requires a list of `deposited` distinct accounted entries; that these are
*all* entries needs `deposited` to be the number of depositors (a list of that
many distinct depositors lists every one).  Finally a recovery must have removed
its provisional entitlement (`EntryWellFormed`), or the sum would count the money
twice.  `IInv` is the conjunction of `TypeOK`, `BlankVault`, `EntryWellFormed`,
`BooksBalance` and `Solvent`; `NextIInv` takes one lemma per instruction.
`NobodyStranded` follows from `IInv` state by state: what is owed to one is at
most the sum, and `claimed_total + held = total_escrowed` keeps every addition
within u64.  The facts on sums come from `PayoutProofs`.

`KeepsItsPromise` is the refinement.  Initial states map to `CustodyInit`; opening
the vault is `Open`, a deposit `Join`, a recovery `Leave`, a close `Divide`, a claim
`Take`, and everything else, a partial settlement too, a stutter.  `Divide` is
where `IInv` is needed: that the shares promised add up to the pot.

### SettlementProofs: the job

A recorded settlement is a settled vault because the job only reaches
`RecordSettlement` after it saw the vault settled (`SettledWhenSaid`) and a vault
never reopens.  "Nothing to refund" is final because a deposit is only signed
before the arena ended (`SignedBeforeEnd`) and lives for `DepositLife`, while the
job says so only `RefundSafety` later: this is where `RefundSafetyAssumption` is
used, and without it the theorem is false.

For `SeatsAlwaysComeBackWhole` it is not enough to look at the job's current
work.  A batch that was given up can land in the middle of a later attempt, so
`WorkSound` says of *every* batch ever computed, to do, in flight or stale, that
it gives wallets without a share their whole seat; that stays true because who
has a seat is fixed before the first batch is computed (`WorkIsLate`).  The close
names `deposited` distinct accounted wallets, which are all of them by counting
(`CloseListsAll`), so nobody is left out of a closed vault.

### ArenaProofs

`ArenaStep` classifies what any step may do to the stored rounds: nothing, save
the active round, or save it and append one; a round enters the store only when
none is active or with the save that ends the active one, and the two action
properties follow.  A request holds a round only by its number, so what it peeked
at cannot bring an ended round back.

`DepositsAlwaysFound`: rounds are saved in the order in which they were created,
so the latest is the last, and every round has the vault of the first
(`RoundsFunded`).  With `MaxHosts <= 1` a code has one vault; re-opening a code
that is in use takes the operator's secret.

`DepositorsAlwaysSeated`: what a request read of the chain has to stay good until
it is used.  `PollsSynced` says that whoever had paid when a poll looked has a
seat by now, is on the poll's list, or the read had failed, or it came more than
`PreLock` before the lock; `CancelsSynced` that a cancellation under way had found
nobody.  A poll that looked too early does not lock, because it is over before the
window ends: this is `RequestLife <= PreLock`, and TLC finds a locked-out
depositor without it.  In the code: the promise that the seats are
always checked again right before the lock (`lib/seat-sync.ts` 9) holds for polls
that take less than PRE_LOCK_MS, four seconds, between reading the vault and
taking the arena's lock.

### SpotPitProofs

A tick is a function of the room and of what a poll brings, so the lemmas are
about that function: one for the lock, one for each format's tick.  `RoomInv` says
that a leg that takes picks has no prices yet and that there are none before the
lock, which is why no pick is made with a price in view, and that the standings
count the legs that are over.  Somebody is always left because the last ones in
go out only if not all of them are wrong.

For the trades, `TradeInv` adds that every price in a room is one that an exchange
gave, so that a share of UP is worth 2 to 98 cents whenever people trade; that
cash and shares are whole numbers, with no shares on no side; and that a quoted
trade is somebody's, at such a price.  Then the limits of 1 and 99 cents never
meet a spread of one cent (`TRADE_SPREAD`, `lib/royale.ts` 679), and the cost of a
purchase, a sale or a switch is the spread times the shares (`FillCosts`),
whatever happened between quote and fill.

`CardsAlwaysScoredByRules`: the final scores are computed in the tick that stores
the closing sample and completes the game, from the cards of that moment, and none
of them moves afterwards (`CardsScored`).  That the count of `scoreCard`
adds up to the rules of the card, points summed over the questions, needs every lock
to be on a question that was answered (`CardOk`), which `MakePicks` sees to.

### HostingProofs, PageProofs, CashierProofs

- *Hosting.*  What is created was paid for because a signature in the page, its
  storage or a request is always one of that draft's payments, a registered draft
  is listed at Panta, and the memory and the database agree until a write fails.
  `LiveIsRemembered` is the invariant of `NobodyPaysTwice`: a payment whose
  signature was saved and that may still count is remembered by the page that would
  pay again, through reloads at any moment but the one named in `Unsaved`.
  `HeardStands` and `DepositKnown` are that of `DepositedPitsAlwaysStand`: the page
  asks for the cancellation of a pit only without its deposit's signature, and once
  it has one no cancel request of its pit has read the vault.
- *PlayerPage.*  One save at a time, clicks in order, and everything not yet saved
  is for the open leg.  It holds as long as no answer is lost, which is part of
  `LastClickWins`; `Patient` is that no save outlives its leg.
- *Cashier.*  A claim is only built when its vault is closed and its entry settled
  with something in it, and the chain never takes that back; a settlement is
  recorded, or adopted, only after its close.
- *Orders.*  What the page says of an order it has the signature of is final only
  for words that Panta never takes back, and Panta's final word is the
  transaction's.
- *Identity: acts.*  A tab acts once at a time, and as long as nothing is signed
  in or out in between (the act is *calm*), every request on its way for
  the act is that wallet's: the one at the proof carries a proof of the account X
  still shows, the second try the session that was made from it (`OneAct`).  So a
  refused act had been disturbed.
- *Identity: tabs.*  `Agree` says what holds of all tabs, requests and storage
  events together while nothing overlapped.  Signed in to X: the session is none or
  that account's, every read and proof under way is of that account, and every
  open tab shows it or still has to hear: a refresh, a storage event,
  a sign-in about to finish, or a sign-out on its way.  Signed out: a session that
  is left over lasts only until a tab that shows it has heard and ends it.  A session that
  ends while another request reads it, makes one or acts with it counts as overlapping;
  a sign-in posted while another tab reads does not, since the proof needs no exception for it.

### Only model-checked

- Liveness, which is outside the prover's reach: `EveryoneExits`,
  `EventuallyRecorded`, `EveryGameEnds`, `ScreenSettles`, `MoneyComesHome`.
- `NextAttemptCloses`.  It is false for amounts of a few units: with five seats of
  1 and a vault that divides into units, a last recovery shifts the odd units of
  the division, an entitlement already on chain is raised before another is
  lowered, and the running total exceeds everything escrowed for a moment, so
  SettlePlayer refuses it.  In the code an entry is at least a dollar, a million units, which the
  constants of `Settlement` do not say.
- `PlayersGetTheirShares`.  It depends on the shape of the run's instance: two seats and at
  most one batch that lands late.  With more, entitlements of several divisions
  can be mixed, each of them a unit off ([observations](#observations)).

## Disagreements between code and documentation

Each is a sentence that promises more than the code does; the models follow the
code.

1. The program's header says the host cannot stop a recovery after the deadline
   (`program/src/lib.rs` 20-21).  CloseSettlement checks no clock (656), so it can,
   with entitlements of its choice.
2. "≤ remaining escrowed" (`program/README.md` 38): SettlePlayer (630) bounds an
   entitlement by everything *ever* escrowed.  The close catches the difference, so
   `Solvent` still holds.
3. `app/api/escrow/tx/route.ts` 25 documents recovery on any unsettled round after
   the deadline; 137 refuses it for a completed round that was never settled on
   chain.
4. A deposit that lands between the vault check of the cancel route (39-46) and
   the lock (48-63) is in an arena that is then cancelled, against the comment at
   20-22.  It is refunded later (`SeatsComeBackWhole`).
5. The recovery deadline (`lib/escrow-server.ts` 152-157) counts one enrolment
   period, and the first seat starts another: with a long enrolment it passes
   while the game runs.
6. "payouts open even if nobody reopens the arena" (`app/ArenaPortfolio.tsx`
   93-94): a vault that is closed on chain but not recorded is shown as claimable
   and not nudged, and the tx route refuses that claim until somebody opens the
   pit's page, or settles it otherwise.
7. "A paid create ... must remain recoverable after reload"
   (`app/ArenasDirectory.tsx` 183): not by a page that dies between the broadcast and
   its answer, nor between `forgetMarketSignature` (`lib/panta-client.ts` 211) and
   `saveHostMarket` with "created" (`ArenasDirectory.tsx` 335).  Then neither is
   stored, and the page offers to pay for the market again.
8. "a creator who paid Panta's fee must still be able to open their pit after a
   deploy" (`lib/panta-market.ts` 205-206): not after the write at 255 failed.
9. "the last click always wins" (`app/ArenaView.tsx` 232): after a lost answer an
   older save may still land over it.
10. "a refused trade changes nothing" (`lib/room-book.ts` 142): one refused after
    switching sides has sold the old position.
11. A market "opens at the asset's spot price when enrollment locks"
    (`lib/oracle.ts` 4-6): after an outage the keeper takes the first price it sees
    as the open, even past the deadline (`lib/round-keeper.ts` 531, 551-561).
12. An X sign-out elsewhere ends "this session too" (`lib/use-wallet.ts` 78-79): one
    heard while the page is loading or busy is ignored until the next event.
13. `signAndSendAs` (`lib/wallet.ts` 164-167) reports every error of
    `sendRawTransaction` as a transaction that was not sent ("Nothing was taken", 124),
    a lost answer included.  So the page keeps no signature of a market payment
    that is on its way (`lib/panta-client.ts` 285-291), and the next press signs a
    second fee, against "For any other post-broadcast error, retain the signature"
    (183-184).  And a host's deposit that is on its way comes
    back without `deposited` (`lib/round-client.ts` 272-276) and its pit is
    cancelled (`ArenasDirectory.tsx` 372), against "A deposit tx was signed and
    sent - never cancel the arena after this" (`lib/round-client.ts` 153); when it
    lands after the cancel route has read the vault it is refunded later, as in 4.
    `NeverPaysTwice` and `DepositedPitsStand` speak of signatures the page has
    received, and of deposits that the route can see.
14. An order whose broadcast was answered with such an error ends as failed
    ("Nothing was taken", `lib/wallet.ts` 124; `lib/panta-order.ts` 123-127) and may
    still be bought; "Transaction status is still unknown" (169) is only said of
    an order that has a signature.  So does `VerdictsStayTrue` speak of those only.

## Observations

Behaviours met while modelling that a maintainer may want to know, and that the
models either contain or name as a bound.

- *Paying twice for a market* (disagreements 7 and 13).  A local signature is known
  before anything is broadcast: remembering it then, and saving "created" before
  `forgetMarketSignature`, would close all of these gaps.
- A creation payment that was dropped leaves the page pending for ever.
- *Cashier.*  A complete, unsettled round past its deadline offers "recover",
  which the tx route refuses; an RPC error swallowed by `readPlayerEntry` reads as
  "no deposit" until the page is reloaded; the pit's page stops asking for
  settlement after twelve failures until it is reloaded.
- *PlayerPage.*  A save names no leg: one that is slower than a leg lands on the
  next one.  With `Patient = FALSE`, `LastClickWins` fails.  A streak's draft is
  not dropped when it was saved, only when a poll shows it or the save fails.
- *Settlement.*  CloseSettlement compares totals only.  When a recovery during a
  settlement takes out exactly what its wallet was due, entitlements from the
  division before it still add up and are closed with; with three or more players
  they can be a rounding unit off the division among those who are left.
  `PlayersGetTheirShares` accepts either division for that reason.
- *BookPit.*  `recordTape` drops every other sample of the older half of a tape that
  exceeds `TAPE_MAX` (`lib/room-book.ts` 199-203).  Trades mark the tape each time, so
  in a round with hundreds of them in its last part the older half reaches into the
  closing period, and the settlement price is the average of what is left.
  `SettledAtTheAverage` speaks of the tape as it is, and not of one that the bell's
  own sample thins.
- *SpotPit.*  A kept older price is stored with the time of the new reading
  (`lib/round-keeper.ts` 387-392, 606-609).
- *Identity.*  Tabs agree only when sign-ins, sign-outs and reads of the session
  did not overlap (`crossed`): a read sent before another tab's sign-out shows a
  signed-in page until the next event; a renewal in flight at sign-out sets the
  cookie again; `set(SIGNED_OUT, true)` is broadcast before the DELETE landed.

## Abstractions

- *Addresses, rent, token accounts and signatures* of the program are left out:
  every address is derived from the vault's key, so vaults are disjoint.  A
  deadline below zero is like 0.  Transfers into the escrow account from outside are
  left out; they raise `held`, which the program only compares as an upper bound.
- *A vault whose round is never saved* (the server died between the two) takes no
  deposits, since the tx route co-signs for saved rounds only.
- *Host fee*: the code multiplies doubles before the floor and may be one unit
  short; the pool is split after the fee, so only the fee itself would differ.
- *In `Settlement`*: claims are in `Escrow` only; the host fee is in `Prizes` only;
  one server process, which is what the `settling` set assumes.  The co-signing of
  a deposit happens where the tx route checks the round.
- *In `Arena`*: prices are "none", "price" or "outcome" for every format, a superset
  of what each format sees; what a tick does to positions, picks and legs is in
  `BookPit` and `SpotPit`; nicknames, X-only filters and pending seats do not
  appear; a request dies when its second half never runs (`RequestLife`).
  Re-opening a code that is in use takes the operator's secret and is left out
  (`MaxHosts` = 1).  The in-memory store of a development server is left out.
- *`LockSeatsDepositors`* speaks of deposits that were on chain before the last
  request began; a poll that peeked before the deposit landed may still lock, which
  the code accepts and settlement repairs (`SeatsComeBackWhole`).
- *In `BookPit` and `SpotPit`*: shares are whole and cash is in cents; logarithms
  and exponentials are tables; at most one poll per instant, pricing is atomic
  with its tick, and the price on a player's screen is the last tick's; seats are
  taken at the start.  The cache in front of the feeds may keep any earlier price:
  a reading carries no time of its own, so the age at which the code stops using one
  does not appear.
- *In `Hosting`*: one wallet in one tab; the form is locked while a request is
  under way; browser storage works; Panta's register is idempotent, as the code
  relies on; Panta test keys and the thirty-day age of drafts are left out; "not
  found" from a confirming RPC retries.
- *In `Cashier`*: one player who waits for one withdrawal at a time; a route reads
  ledger and chain at once; a request's way there is merged with its answer.
- *In `Orders`*: Panta's final word follows the chain; whether the server has a
  Panta key does not change.
- *In `Identity`*: one act per tab at a time; the claim of a profile in `auth/x` is
  part of that route's answer; no request is lost, and Privy's own sign-out does
  not fail; the timeouts of `waitForPrivy` are left out.

## Not modelled

- *Profiles* (names, last-seen): a claim is one transaction and uniqueness is a
  database constraint.
- *Rate limits*: a counter per key and window.
- *Market reads, the AI headline, the activity and arena lists*: they read, cache
  and format.
- *Rendering* of every page, and the docs pages.
- *Claims of Panta positions* (`app/api/claims/build`): Panta builds the transaction
  and the chain checks it; this code passes it on.
- *Pending seats*, a display of deposits on their way.
- *Deployment scripts*: operations outside the running system.
- *The feeds and Panta themselves*: external services, modelled by every answer
  the code handles.
