------------------------------ MODULE BookPit ------------------------------
(***************************************************************************)
(* A pit on a Panta market, from its opening calls to the final            *)
(* (app/api/round/call, app/api/round/trade, the book's branches of        *)
(* lib/round-keeper.ts): players and bots trade against the room's book    *)
(* while page polls run the keeper, and each royale round is settled at    *)
(* Panta's outcome or at the average of the closing period.  A trade is    *)
(* looked up and priced in one step, and filled under the arena's lock in  *)
(* a later one.  Seats are taken when the model starts; enrolment, clocks  *)
(* and cancellation are module Arena's.                                    *)
(***************************************************************************)
EXTENDS RoomBook

CONSTANTS
    Vault,       \* config.startingBankroll
    RoundLimit,  \* config.roundLimit
    Live,        \* config.liveSec
    Cutoff,      \* TRADE_CUTOFF_MS
    BotGap,      \* BOT_TICK_MS
    TapeGap,     \* tapeGap
    Slippage,    \* MAX_SLIPPAGE
    Lines,       \* prices Panta may quote
    Amounts,     \* what a player may put into a trade
    Callers, MaxTrades, Late  \* bounds: who may change their call, trades a player may ask for,
                              \* how late the bell may be answered

ASSUME BookPitAssumption ==
    /\ Vault \in Nat /\ RoundLimit \in Nat \ {0} /\ Live \in Nat \ {0}
    /\ {Cutoff, BotGap, TapeGap, Slippage, MaxTrades, Late} \subseteq Nat
    /\ Lines \subseteq 1..99 /\ Amounts \subseteq Nat /\ Callers \subseteq Human
    /\ WindowMin <= Live  \* 30 s, and at least a minute

VARIABLES
    round,     \* [status, number, limit, deadline]
    entrants,  \* entrants[p]: see MakeEntrant
    book,
    tape,
    trades,    \* trades between their two halves
    asked,     \* how many a player has asked for
    botAt,     \* when bots last acted
    now

bookPitVars == <<round, entrants, book, tape, trades, asked, botAt, now>>

NoBook == [b |-> MinB, yes |-> 0, no |-> 0, line |-> 0, last |-> 0, close |-> NoClose]
Never == -BotGap

BookPitInit ==
    /\ round = [status |-> "enrolling", number |-> 1, limit |-> RoundLimit, deadline |-> 0]
    /\ entrants = [p \in Entrant |-> MakeEntrant(Vault)]
    /\ book = NoBook
    /\ tape = <<>> /\ trades = {} /\ botAt = Never /\ now = 0
    /\ asked = [p \in Human |-> 0]

Trading == round.status = "live"

FaultyTradingOpen == Trading  \* no last call

TradingOpen == Trading /\ now < round.deadline - Cutoff

-----------------------------------------------------------------------------
(* The call route *)

ChangeCall(p, call, pct) ==
    /\ round.status = "enrolling"
    /\ p \in Callers
    /\ entrants' = [entrants EXCEPT ![p] = ChangeCallOf(@, call, pct)]
    /\ UNCHANGED <<round, book, tape, trades, asked, botAt, now>>

-----------------------------------------------------------------------------
(* The trade route, before the lock *)

TradePeeks(p, action, side, usdc) ==
    /\ TradingOpen
    /\ asked[p] < MaxTrades
    /\ asked' = [asked EXCEPT ![p] = @ + 1]
    /\ trades' = trades \cup {[wallet |-> p, action |-> action, side |-> side, usdc |-> usdc,
                               quoted |-> BookCents(book), number |-> round.number]}
    /\ UNCHANGED <<round, entrants, book, tape, botAt, now>>

(* ... and under it *)

Fillable(t) ==
    /\ t.number = round.number
    /\ TradingOpen
    /\ entrants[t.wallet].out = StillIn
    /\ Distance(BookCents(book), t.quoted) <= Slippage

Unfilled(p) == [ok |-> FALSE, book |-> book, e |-> entrants[p]]

Fill(t) ==
    LET e == entrants[t.wallet] IN
    IF ~Fillable(t) THEN Unfilled(t.wallet)
    ELSE IF t.action = "buy" THEN BookBuy(book, e, t.side, t.usdc)
    ELSE IF ~Holds(e) THEN Unfilled(t.wallet)
    ELSE LET sold == BookSell(book, e) IN [ok |-> TRUE, book |-> sold.book, e |-> sold.e]

TradeFills(t) ==
    /\ t \in trades
    /\ trades' = trades \ {t}
    /\ \E fill \in {Fill(t)} :
       /\ book' = fill.book
       /\ entrants' = [entrants EXCEPT ![t.wallet] = fill.e]
       /\ tape' = IF fill.ok THEN RecordTape(tape, now, BookCents(fill.book), 0) ELSE tape
    /\ UNCHANGED <<round, asked, botAt, now>>

-----------------------------------------------------------------------------
(* The keeper.  One poll runs all of it: the lock, then the live round, and the next round if
   this one settles. *)

Room == [round |-> round, es |-> entrants, book |-> book, tape |-> tape, botAt |-> botAt]

(* The opening auction: calls fill at the line, then the book takes over. *)
Locked(line) ==
    LET es == PlaceOpeningCalls(entrants, line)
        k == AbsorbOpening(SeedBook(line, LiquidityFor(Cardinality(Entrant) * Vault)), es)
    IN [Room EXCEPT !.round.status = "live", !.round.deadline = now + Live,
                    !.es = es, !.book = k,
                    !.tape = RecordTape(<<[at |-> now, yes |-> line]>>, now, BookCents(k), 0)]

BotsAct(r) == Bot # {} /\ now - r.botAt >= BotGap /\ now < r.round.deadline - Cutoff

BotTurn(r, p, move) ==
    LET after == BotMove(r.book, r.es[p], move)
    IN [r EXCEPT !.book = after.book, !.es[p] = after.e]

(* The bots move one after the other, the last to join last. *)
BotsMove(r, moves) ==
    MapThenFoldSet(LAMBDA p, acc : BotTurn(acc, p, moves[p]), [r EXCEPT !.botAt = now],
                   LAMBDA p : p, Max, Bot)

ClosePrice(r, outcome) ==
    IF outcome = "YES" THEN 100 ELSE IF outcome = "NO" THEN 0
    ELSE Twap(r.tape, r.round.deadline - ClosingWindow(Live), r.round.deadline, BookCents(r.book))

(* advanceToNext: the book is seeded at the settlement price and sized to the survivors. *)
NextRound(r) ==
    LET vaults == SumFunction([p \in Alive(r.es) |-> r.es[p].cash])
        k == [SeedBook(r.book.close, LiquidityFor(vaults))
                EXCEPT !.line = r.book.line, !.last = r.book.last]
    IN [round |-> [r.round EXCEPT !.number = @ + 1, !.deadline = now + Live],
        es |-> CarryOver(r.es), book |-> k,
        tape |-> <<[at |-> now, yes |-> BookCents(k)]>>, botAt |-> Never]

(* settleBookRound: Panta's outcome also ends the series. *)
Settled(r, outcome) ==
    LET close == ClosePrice(r, outcome)
        limit == IF outcome = "none" THEN r.round.limit ELSE r.round.number
        done == [r EXCEPT !.book.close = close, !.round.limit = limit,
                          !.es = SettleVaults(@, close, r.round.number)]
    IN IF IsFinal(done.es, r.round.number, limit)
       THEN [done EXCEPT !.round.status = "complete"]
       ELSE NextRound(done)

TickLive(r, line, outcome, moves) ==
    LET told == [r EXCEPT !.book.last = line]
        moved == IF BotsAct(r) THEN BotsMove(told, moves) ELSE told
        taped == IF now > r.round.deadline THEN moved
                 ELSE [moved EXCEPT !.tape = RecordTape(@, now, BookCents(moved.book), TapeGap)]
    IN IF now >= r.round.deadline THEN Settled(taped, outcome) ELSE taped

(* What a poll brings: Panta's line, its ruling, which only the bell asks for, and the bots'
   decisions when it may be their turn. *)
Outcomes == IF Trading /\ now >= round.deadline THEN {"none", "YES", "NO"} ELSE {"none"}
Moves == IF now - botAt >= BotGap THEN [Bot -> BotMoves] ELSE {[p \in Bot |-> "hold"]}

Poll(line, outcome, moves) ==
    /\ round.status # "complete"
    /\ \E after \in {TickLive(IF Trading THEN Room ELSE Locked(line), line, outcome, moves)} :
          /\ round' = after.round /\ entrants' = after.es
          /\ book' = after.book /\ tape' = after.tape /\ botAt' = after.botAt
    /\ UNCHANGED <<trades, asked, now>>

(* Bound: the clock stops a while after the bell. *)
PassTime ==
    /\ Trading
    /\ now < round.deadline + Late
    /\ now' = now + 1
    /\ UNCHANGED <<round, entrants, book, tape, trades, asked, botAt>>

BookPitNext ==
    \/ \E p \in Human, call \in Side, pct \in CallPcts : ChangeCall(p, call, pct)
    \/ \E p \in Human, usdc \in Amounts, side \in Side : TradePeeks(p, "buy", side, usdc)
    \/ \E p \in Human : TradePeeks(p, "sell", NoSide, 0)
    \/ \E t \in trades : TradeFills(t)
    \/ \E line \in Lines, outcome \in Outcomes, moves \in Moves : Poll(line, outcome, moves)
    \/ PassTime

BookPitSpec == BookPitInit /\ [][BookPitNext]_bookPitVars

-----------------------------------------------------------------------------
(* Properties. *)

(* After the opening auction and any run of trades, side switches, bot moves and advances, the
   shares the book has out are the ones the players hold, on top of a seed at Panta's line or,
   in later rounds, at the settlement price.  Odds drift away from the room's positions
   otherwise, since every fill is priced off the book alone (absorbOpening, bookBuy,
   bookSell, advanceToNext). *)
Unheld(k, es) == <<k.yes - SharesOn(es, "YES"), k.no - SharesOn(es, "NO")>>

BookBalances ==
    [][Trading' => Unheld(book, entrants)' =
          IF ~Trading THEN <<SeedLead(book'.b, book'.line), 0>>
          ELSE IF round'.number = round.number THEN Unheld(book, entrants)
          ELSE <<book'.yes, 0>>]_bookPitVars

(* A player's own trade never changes what the vault would fetch if it were all sold back:
   any run of trades is paid for to the cent, and the money of the others stays theirs. *)
Worth(k, e) == e.cash + IF Holds(e) THEN ProceedsForSell(k, e.side, e.shares) ELSE 0

TradesCreateNothing ==
    [][\A t \in trades \ trades' :
          /\ Worth(book', entrants'[t.wallet]) = Worth(book, entrants[t.wallet])
          /\ \A p \in Entrant \ {t.wallet} : entrants'[p] = entrants[p]]_bookPitVars

(* Nobody's position changes in the last call, be it by a trade looked up before it or by a
   bot; and a player who was cut keeps the vault of that moment to the end, also when a trade
   of theirs is still under way while the next round opens. *)
Frozen(p) == Trading /\ (entrants[p].out # StillIn \/ now >= round.deadline - Cutoff)

PositionsFreeze ==
    [][\A p \in Entrant :
          /\ Frozen(p) /\ Trading' /\ round'.number = round.number => entrants'[p] = entrants[p]
          /\ entrants[p].out # StillIn => entrants'[p].cash = entrants[p].cash]_bookPitVars

(* Without an outcome the round settles at the time-weighted average of the prices that were
   in force in the closing period, instant by instant (twap, closingWindowMs): whoever moves
   the book, the tape ends with the price in force (recordTape in the trade route and in the
   keeper).  A tape that is full when the bell rings is thinned by the last sample before it is
   averaged, so it may have lost some of them. *)
PriceAt(t) ==
    LET told == {i \in DOMAIN tape : tape[i].at <= t} IN tape[Max(told)].yes

SettledAtTheAverage ==
    [][LET from == round.deadline - ClosingWindow(Live)
           span == round.deadline - from
           area == SumFunction([t \in from..(round.deadline - 1) |-> PriceAt(t)])
       IN /\ Trading /\ round'.status = "complete" /\ book'.close \in 1..99
             /\ Len(tape) < TapeMax =>
                 Distance(2 * span * book'.close, 2 * area) <= span
          /\ Trading' => Last(tape').yes = BookCents(book')]_bookPitVars
=============================================================================
