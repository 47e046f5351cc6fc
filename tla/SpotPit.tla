------------------------------- MODULE SpotPit -------------------------------
(***************************************************************************)
(* A pit on the prices of the board's assets, from the lock to the final:  *)
(* the direction market of a royale, where players and bots trade UP and   *)
(* DOWN (app/api/round/trade), and the two pick formats, predictions and   *)
(* streak (app/api/round/picks, lib/streak.ts), all three run by the       *)
(* keeper's tick on page polls (lib/round-keeper.ts).  Any price may be    *)
(* missing in any poll and nobody may poll for a while.  Seats are taken   *)
(* when the model starts, and the enrolment clock has run out, just now    *)
(* or longer ago than the lock waits for prices.                           *)
(***************************************************************************)
EXTENDS Vaults, Picks

CONSTANTS
    Formats,     \* the formats to start with
    Quotes,      \* what an exchange may answer: a price per asset, 0 for none
    Boards,      \* the markets of a timeframe, as they may be listed: their assets, in order
    Deck,        \* streakQuestion: the question of every leg
    LegMs, PickMs, Live, Cutoff, BotGap,  \* legMs, PICK_MS, liveSec, TRADE_CUTOFF_MS, BOT_TICK_MS
    Jump, JumpWindow, Divergence,  \* JUMP, JUMP_WINDOW_MS, DIVERGENCE
    Slippage, Spread,  \* MAX_SLIPPAGE, TRADE_SPREAD
    Vault, RoundLimit, \* config.startingBankroll, config.roundLimit
    BotStakes,   \* how much of its cash a bot bets, in percent
    CardPicks, BotCards, Locks,  \* bounds: what a card is filled in with by people and bots, and locked
    Actors, Amounts, MaxTrades,  \* bounds: who fills in cards and trades, stakes, trades of each
    Late         \* bound: how late a poll may come

ASSUME SpotPitAssumption ==
    /\ Formats \subseteq {"royale", "predictions", "streak"} /\ Quotes \subseteq [Asset -> Nat]
    /\ Boards \subseteq Seq(Asset) \ {<<>>}
    /\ {LegMs, PickMs, Live, RoundLimit} \subseteq Nat \ {0}
    /\ {Cutoff, BotGap, Jump, JumpWindow, Divergence, Slippage, Spread, Vault, MaxTrades, Late} \subseteq Nat
    /\ Human # {}  \* an arena without people is cancelled at the lock (module Arena)
    /\ Actors \subseteq Human /\ Amounts \subseteq Nat /\ BotStakes \subseteq 30..70
    /\ Len(Deck) > 0
    /\ \A open, spot \in Quotes, a \in Asset :  \* upCents has an answer for every move
           Known(open[a]) /\ Known(spot[a]) => spot[a] - open[a] \in DOMAIN Chance

VARIABLES
    round,     \* [format, status, number, asset, deadline]
    entrants,  \* entrants[p]: see MakeEntrant
    oracle,    \* [open, last, lastAt, close]
    streak,    \* [leg, phase, picks, open]
    cards,     \* predictions: cards[p]
    score,     \* score[p]: points of a card, or legs survived
    trades, asked, botAt,
    polled,    \* bound: one poll an instant
    now

spotPitVars == <<round, entrants, oracle, streak, cards, score, trades, asked, botAt, polled, now>>

Unset == -1  \* no time
NoOracle == [open |-> NoSpots, last |-> NoSpots, lastAt |-> Unset, close |-> NoSpots]
NoPicks == [p \in Entrant |-> NoPick]
MaxLegs == Len(Deck)

(* The first market of another asset than the one just played, if there is one. *)
PickMarket(markets, played) ==
    LET other(i) == markets[i] # played /\ \A j \in 1..(i - 1) : markets[j] = played
    IN IF \E i \in DOMAIN markets : other(i)
       THEN markets[CHOOSE i \in DOMAIN markets : other(i)] ELSE Head(markets)

AnyAsset == "any"  \* the host leaves the asset open

PickMarketForAsset(wanted, markets) ==
    IF wanted = AnyAsset THEN PickMarket(markets, wanted) ELSE wanted

(* Picks cover every asset, and their clock runs on the first one's market. *)
BootstrapRound(format, wanted, markets) ==
    [format |-> format, status |-> "enrolling", number |-> 1, deadline |-> 0,
     asset |-> IF format = "royale" THEN PickMarketForAsset(wanted, markets)
               ELSE CHOOSE a \in Asset : TRUE]

SpotPitInit ==
    /\ \E format \in Formats, wanted \in Asset \cup {AnyAsset}, markets \in Boards,
           ended \in {0, -OracleWait} :
           round = [BootstrapRound(format, wanted, markets) EXCEPT !.deadline = ended]
    /\ \E calls \in [Actors -> IF round.format = "royale" THEN Side \cup {NoSide} ELSE {NoSide}],
          pct \in CallPcts :
           entrants = [p \in Entrant |-> IF p \in Actors THEN ChangeCallOf(MakeEntrant(Vault), calls[p], pct)
                                         ELSE MakeEntrant(Vault)]
    /\ oracle = NoOracle
    /\ streak = [leg |-> 1, phase |-> "picking", picks |-> NoPicks, open |-> NoSpots]
    /\ cards = [p \in Entrant |-> BlankCard]
    /\ score = [p \in Entrant |-> 0]
    /\ trades = {} /\ asked = [p \in Human |-> 0] /\ botAt = Unset
    /\ polled = FALSE /\ now = 0

Playing(format) == round.format = format /\ round.status = "live"

-----------------------------------------------------------------------------
(* The picks route *)

MakePicks(p, picks, locks) ==
    /\ round.format = "predictions" /\ round.status = "enrolling"
    /\ cards' = [cards EXCEPT ![p] = WithLocks(WithPicks(@, picks), locks)]
    /\ UNCHANGED <<round, entrants, oracle, streak, score, trades, asked, botAt, polled, now>>

FaultyCanPick(p) ==  \* until the keeper gets round to opening the leg
    entrants[p].out = StillIn /\ streak.phase = "picking"

CanPick(p) ==
    /\ entrants[p].out = StillIn
    /\ IF round.status = "enrolling" THEN streak.leg = 1
       ELSE round.status = "live" /\ streak.phase = "picking" /\ now < round.deadline

PickLeg(p, option) ==
    /\ round.format = "streak"
    /\ CanPick(p)
    /\ option \in Options(Deck[streak.leg])
    /\ streak' = [streak EXCEPT !.picks[p] = option]
    /\ UNCHANGED <<round, entrants, oracle, cards, score, trades, asked, botAt, polled, now>>

-----------------------------------------------------------------------------
(* Prices.  A poll's come from a cache: an asset that Coinbase has no price for gets Kraken's,
   or else the one of an earlier poll. *)

SpotPrices == {Merged(Merged(kept, kraken), coinbase) : kept, kraken, coinbase \in Quotes}

(* A trade's are taken now, from both. *)
FreshSpot(coinbase, kraken) == IF Known(coinbase) THEN coinbase ELSE kraken

Divergent(coinbase, kraken) ==
    Known(coinbase) /\ Known(kraken) /\ Distance(coinbase, kraken) > Divergence

(* The trade route, up to the lock: refused while the price is unsettled or has left the one
   on the player's page. *)

TradingOpen == Playing("royale") /\ now < round.deadline - Cutoff

YesOf(o, spots) ==
    LET a == round.asset
        spot == IF Known(spots[a]) THEN spots[a] ELSE o.last[a]
    IN UpCents(o.open[a], spot, round.deadline - now)

Paused(fresh, disagree) ==
    LET last == oracle.last[round.asset] IN
    \/ ~Known(fresh) \/ disagree
    \/ Known(last) /\ now - oracle.lastAt < JumpWindow /\ Distance(fresh, last) > Jump

TradePeeks(p, action, side, usdc, coinbase, kraken) ==
    LET fresh == FreshSpot(coinbase, kraken)
        yes == YesOf(oracle, [NoSpots EXCEPT ![round.asset] = fresh]) IN
    /\ TradingOpen
    /\ ~Paused(fresh, Divergent(coinbase, kraken))
    /\ Distance(yes, YesOf(oracle, NoSpots)) <= Slippage
    /\ asked[p] < MaxTrades
    /\ asked' = [asked EXCEPT ![p] = @ + 1]
    /\ trades' = trades \cup {[wallet |-> p, action |-> action, side |-> side, usdc |-> usdc,
                               yes |-> yes, number |-> round.number, asset |-> round.asset]}
    /\ UNCHANGED <<round, entrants, oracle, streak, cards, score, botAt, polled, now>>

(* ... and under it, at the price of the first half *)

BuyPriceOf(cents) == Min({99, cents + Spread})

FaultyFill(t, e) ==  \* sells at the other side's price
    IF t.action = "buy" THEN BuyShares(e, t.side, t.usdc, BuyPriceOf(SideCents(t.side, t.yes)), t.yes, Spread)
    ELSE Liquidate(e, 100 - t.yes, Spread)

Fill(t, e) ==
    IF t.action = "buy" THEN BuyShares(e, t.side, t.usdc, BuyPriceOf(SideCents(t.side, t.yes)), t.yes, Spread)
    ELSE Liquidate(e, t.yes, Spread)

Fillable(t) ==
    /\ t.number = round.number /\ t.asset = round.asset
    /\ TradingOpen
    /\ entrants[t.wallet].out = StillIn

TradeFills(t) ==
    /\ t \in trades
    /\ trades' = trades \ {t}
    /\ entrants' = IF Fillable(t) THEN [entrants EXCEPT ![t.wallet] = Fill(t, @)] ELSE entrants
    /\ UNCHANGED <<round, oracle, streak, cards, score, asked, botAt, polled, now>>

-----------------------------------------------------------------------------
(* The keeper's tick, as a function of the room and of what a poll brings:
   [spots, candles, moves, luck, asset]: prices, those of the deadline if it is long past, what
   bots do and pick, the next round's asset. *)

Room == [round |-> round, es |-> entrants, oracle |-> oracle, streak |-> streak,
         cards |-> cards, score |-> score, botAt |-> botAt]

OpenOracle(spots) == [NoOracle EXCEPT !.open = spots, !.last = spots, !.lastAt = now]

(* The prices of this poll, and the ones before them. *)
Sampled(o, spots) ==
    IF o.lastAt = Unset \/ SomeKnown(o.close) \/ ~SomeKnown(spots) THEN o
    ELSE [o EXCEPT !.last = Merged(@, spots), !.lastAt = now]

PrevSample == [spots |-> oracle.last, at |-> IF oracle.lastAt = Unset THEN now ELSE oracle.lastAt]

OpenedBy(o, spots) == IF ~SomeKnown(o.open) /\ SomeKnown(spots) THEN OpenOracle(spots) ELSE o

NeededAssets ==
    IF round.format = "streak" THEN Deck[streak.leg].assets
    ELSE IF round.format = "predictions" THEN Asset ELSE {round.asset}

(* Enrolment ends.  The open price is the whole bet: wait a while for it, except in a streak. *)
HoldsTheLock(spots) ==
    round.format # "streak" /\ ~AllKnown(spots, NeededAssets) /\ now < round.deadline + OracleWait

Locked(in) ==
    LET live == [Room EXCEPT !.round.status = "live",
                             !.round.deadline = now + IF round.format = "streak" THEN PickMs ELSE Live]
    IN IF round.format = "royale"
       THEN [live EXCEPT !.oracle = IF Known(in.spots[round.asset]) THEN OpenOracle(in.spots) ELSE @,
                         !.es = PlaceOpeningCalls(@, 50)]
       ELSE [live EXCEPT !.oracle = OpenedBy(@, in.spots),
                         !.cards = [p \in Entrant |-> IF p \in Bot /\ round.format = "predictions"
                                        THEN WithPicks(BlankCard, in.luck[p]) ELSE @[p]]]

(* Streak *)

RunLeg(r, in) ==
    LET assets == Deck[r.streak.leg].assets
    IN [r EXCEPT
        !.streak.phase = "running",
        !.streak.open = [a \in Asset |-> IF a \in assets THEN in.spots[a] ELSE Unread],
        !.streak.picks = [p \in Entrant |->
            IF p \in Bot \cap Alive(r.es) /\ @[p] = NoPick THEN in.luck[p] ELSE @[p]],
        !.round.deadline = now + LegMs]

WrongPicks(r, answer) ==
    IF answer = {} THEN {} ELSE {p \in Alive(r.es) : r.streak.picks[p] \notin answer}

FaultyOutOnLeg(r, answer) ==  \* everyone may go out at once
    WrongPicks(r, answer)

OutOnLeg(r, answer) ==
    LET wrong == WrongPicks(r, answer) IN IF wrong = Alive(r.es) THEN {} ELSE wrong

ResolveLeg(r, close) ==
    LET leg == r.streak.leg
        out == OutOnLeg(r, AnswersFor(Deck[leg], r.streak.open, close))
        left == Alive(r.es) \ out
        judged == [r EXCEPT
            !.es = [p \in Entrant |-> IF p \in out THEN [@[p] EXCEPT !.out = leg] ELSE @[p]],
            !.score = [p \in Entrant |-> IF p \in left THEN leg ELSE @[p]]]
    IN IF Cardinality(left) <= 1 \/ left \cap Human = {} \/ leg >= MaxLegs
       THEN [judged EXCEPT !.round.status = "complete", !.streak.phase = "done"]
       ELSE [judged EXCEPT !.round.deadline = now + PickMs,
                           !.streak = [leg |-> leg + 1, phase |-> "picking", picks |-> NoPicks,
                                       open |-> NoSpots]]

TickStreak(r, in) ==
    LET st == r.streak
        close == CloseSample(Deck[st.leg].assets, in.spots, in.candles, PrevSample, now, r.round.deadline)
    IN IF now < r.round.deadline THEN r
       ELSE IF st.phase = "picking"
       THEN IF ~AllKnown(in.spots, Deck[st.leg].assets) /\ now < r.round.deadline + OracleWait THEN r
            ELSE RunLeg(r, in)
       ELSE IF close.ok THEN ResolveLeg(r, close.spots) ELSE r

(* Predictions *)

Scores(r, prices) ==
    [p \in Entrant |-> ScoreCard(r.cards[p], CardAnswers(r.oracle.open, prices))]

TickPredictions(r, in) ==
    LET live == IF SomeKnown(r.oracle.open)
                THEN [r EXCEPT !.score = Scores(r, Merged(r.oracle.last, in.spots))] ELSE r
        close == CloseSample(Asset, in.spots, in.candles, PrevSample, now, r.round.deadline)
    IN IF now < r.round.deadline \/ ~close.ok THEN live
       ELSE [live EXCEPT !.oracle.close = close.spots, !.score = Scores(r, close.spots),
                         !.round.status = "complete"]

(* A direction round: bots trade at the mark, the bell redeems what UP and DOWN are worth. *)

BotMoves == {"hold", "sell"} \cup (Side \X BotStakes)

BotMove(e, move, yes) ==
    IF e.out # StillIn \/ move = "hold" THEN e
    ELSE IF move = "sell" THEN Liquidate(e, yes, 0)
    ELSE IF e.cash <= 100 THEN e
    ELSE BuyShares(e, move[1], (e.cash * move[2]) \div 100, SideCents(move[1], yes), yes, 0)

BotsAct(r) == (r.botAt = Unset \/ now - r.botAt >= BotGap) /\ now < r.round.deadline - Cutoff

BotsMoved(r, in) ==
    LET yes == YesOf(r.oracle, in.spots) IN
    IF ~BotsAct(r) THEN r
    ELSE [r EXCEPT !.botAt = now,
                   !.es = [p \in Entrant |-> IF p \in Bot THEN BotMove(@[p], in.moves[p], yes) ELSE @[p]]]

NextRound(r, in) ==
    [r EXCEPT !.round.number = @ + 1, !.round.asset = in.asset, !.round.deadline = now + Live,
              !.es = CarryOver(@), !.botAt = Unset,
              !.oracle = IF Known(in.spots[in.asset]) THEN OpenOracle(in.spots) ELSE NoOracle]

TickDirection(r, in) ==
    LET a == r.round.asset
        opened == IF ~Known(r.oracle.open[a]) /\ Known(in.spots[a])
                  THEN [r EXCEPT !.oracle = OpenOracle(in.spots)] ELSE r
        moved == BotsMoved(opened, in)
        open == moved.oracle.open[a]
        close == DirectionClose(a, Known(open), in.spots, in.candles, PrevSample, now, r.round.deadline)
        done == [moved EXCEPT !.oracle.close = close.spots,
                              !.es = SettleVaults(@, ResolvedCents(open, close.spots[a]), r.round.number)]
    IN IF now < r.round.deadline \/ ~close.ok THEN moved
       ELSE IF IsFinal(done.es, r.round.number, RoundLimit)
       THEN [done EXCEPT !.round.status = "complete"]
       ELSE NextRound(done, in)

Tick(r, in) ==
    IF r.round.format = "streak" THEN TickStreak([r EXCEPT !.oracle = OpenedBy(@, in.spots)], in)
    ELSE IF r.round.format = "predictions"
    THEN TickPredictions([r EXCEPT !.oracle = OpenedBy(@, in.spots)], in)
    ELSE TickDirection(r, in)

Ticked(in) ==
    LET r == [Room EXCEPT !.oracle = Sampled(@, in.spots)] IN
    IF round.status = "live" THEN Tick(r, in)
    ELSE IF HoldsTheLock(in.spots) THEN r ELSE Tick(Locked(in), in)

(* What a poll may bring *)
Opening == round.status = "live" /\ streak.phase = "picking" /\ now >= round.deadline
Candles == IF round.status = "live" /\ now - round.deadline > CloseFresh
              /\ (round.format = "streak" => ~Opening)
           THEN Quotes ELSE {NoSpots}
Moves == IF round.format = "royale" /\ (round.status = "enrolling" \/ BotsAct(Room))
         THEN [Bot -> BotMoves] ELSE {[p \in Bot |-> "hold"]}
Lucky ==
    IF round.format = "streak" /\ Opening THEN [Bot -> Options(Deck[streak.leg])]
    ELSE IF round.format = "predictions" /\ round.status = "enrolling" THEN [Bot -> BotCards]
    ELSE {NoPicks}
NextAssets == IF round.format = "royale" /\ now >= round.deadline THEN {PickMarket(markets, round.asset) : markets \in Boards} ELSE {round.asset}

Poll(in) ==
    /\ round.status \in {"enrolling", "live"}
    /\ ~polled /\ polled' = TRUE
    /\ \E r \in {Ticked(in)} :
       /\ round' = r.round /\ entrants' = r.es /\ oracle' = r.oracle /\ streak' = r.streak
       /\ cards' = r.cards /\ score' = r.score /\ botAt' = r.botAt
    /\ UNCHANGED <<trades, asked, now>>

(* Bound: nobody stays away for longer than Late after a deadline. *)
PassTime ==
    /\ round.status = "live"
    /\ now < round.deadline + Late
    /\ now' = now + 1 /\ polled' = FALSE
    /\ UNCHANGED <<round, entrants, oracle, streak, cards, score, trades, asked, botAt>>

SpotPitNext ==
    \/ \E p \in Actors, picks \in CardPicks, locks \in Locks : MakePicks(p, picks, locks)
    \/ \E p \in Human, option \in Options(Deck[streak.leg]) : PickLeg(p, option)
    \/ \E p \in Actors, coinbase, kraken \in {quote[round.asset] : quote \in Quotes} :
           \/ \E side \in Side, usdc \in Amounts : TradePeeks(p, "buy", side, usdc, coinbase, kraken)
           \/ TradePeeks(p, "sell", NoSide, 0, coinbase, kraken)
    \/ \E t \in trades : TradeFills(t)
    \/ \E spots \in SpotPrices, candles \in Candles, moves \in Moves, luck \in Lucky,
           asset \in NextAssets :
           Poll([spots |-> spots, candles |-> candles, moves |-> moves, luck |-> luck, asset |-> asset])
    \/ PassTime

SpotPitSpec == SpotPitInit /\ [][SpotPitNext]_spotPitVars

-----------------------------------------------------------------------------
(* Properties. *)

(* However late the keeper opens and judges the legs, and whatever prices it misses, a streak
   never runs out of players; those still in have survived every leg so far, the others all
   legs before the one that took them out (runLeg, resolveLeg). *)
LegsResolved == IF streak.phase = "done" THEN streak.leg ELSE streak.leg - 1

StreakStandings ==
    round.format = "streak" =>
        /\ Alive(entrants) # {}
        /\ \A p \in Entrant :
               score[p] = IF entrants[p].out = StillIn THEN LegsResolved ELSE entrants[p].out - 1

(* Picks are blind: nobody's answer to a leg or a card changes once its window has closed, not
   even between the end of the window and the poll that takes the opening prices. *)
PicksLockOnTime ==
    [][\A p \in Human :
          /\ streak'.leg = streak.leg /\ streak'.picks[p] # streak.picks[p] =>
                 ~SomeKnown(streak.open) /\ (round.status = "enrolling" \/ now < round.deadline)
          /\ cards'[p] # cards[p] => ~SomeKnown(oracle.open) /\ round.status = "enrolling"
      ]_spotPitVars

(* predictions.ts:138-144: a right answer scores a point; locked answers score two if every
   locked answer that was not level is right, and nothing otherwise. *)
CardPoints(card, answers) ==
    LET locked == IF LockActive(card) THEN card.locks ELSE {}
        landed == \A i \in locked : answers[i] = {} \/ card.picks[i] \in answers[i]
        points(i) == IF card.picks[i] \notin answers[i] THEN 0
                     ELSE IF i \notin locked THEN 1 ELSE IF landed THEN 2 ELSE 0
    IN SumFunction([i \in DOMAIN Questions |-> points(i)])

CardsScoredByRules ==
    round.format = "predictions" /\ round.status = "complete" =>
        \A p \in Entrant : score[p] = CardPoints(cards[p], CardAnswers(oracle.open, oracle.close))

(* A single trade costs exactly the spread on every share that changes hands, counted at the
   price it was quoted at, also when it changes sides, and touches nobody else's vault. *)
WorthAt(e, yes) == e.cash + IF Holds(e) THEN e.shares * SideCents(e.side, yes) ELSE 0
Traded(e, f) == IF e.side = f.side THEN f.shares - e.shares ELSE e.shares + f.shares

TradesPayTheSpread ==
    [][\A t \in trades \ trades' :
          LET e == entrants[t.wallet]
              f == entrants'[t.wallet]
          IN /\ WorthAt(e, t.yes) - WorthAt(f, t.yes) = Spread * Traded(e, f)
             /\ \A p \in Entrant \ {t.wallet} : entrants'[p] = entrants[p]]_spotPitVars
=============================================================================
