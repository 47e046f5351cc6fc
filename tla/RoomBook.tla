------------------------------ MODULE RoomBook ------------------------------
(***************************************************************************)
(* The pit's own market maker (lib/room-book.ts): a logarithmic scoring    *)
(* rule seeded at Panta's line, and the tape of its prices that settlement *)
(* averages.  The rule's cost and price depend on the shares the book has  *)
(* issued only through YES's lead over NO, so both are tables over leads,  *)
(* in whole cents; what one share costs moves the price as in the code.    *)
(***************************************************************************)
EXTENDS Vaults

CONSTANTS
    Curve,     \* Curve[b][lead]: cost(b, lead, 0)
    Line,      \* Line[b][lead]: the YES price
    MinB, MaxB,            \* MIN_B, MAX_B
    BotPcts,               \* how much of its cash a bot bets, in percent
    TapeMax,               \* TAPE_MAX
    WindowMin, WindowMax   \* closingWindowMs: 30 s and 10 min

ASSUME RoomBookAssumption ==
    /\ MinB \in Nat /\ MaxB \in Nat /\ MinB <= MaxB
    /\ MinB..MaxB \subseteq DOMAIN Curve \cap DOMAIN Line
    /\ BotPcts \subseteq 8..20
    /\ TapeMax \in Nat \ {0} /\ WindowMin \in Nat /\ WindowMax \in Nat
    /\ \A b \in MinB..MaxB :
           LET leads == DOMAIN Curve[b] IN
           /\ DOMAIN Line[b] = leads
           /\ \A d \in leads : /\ -d \in leads
                               /\ Curve[b][d] - Curve[b][-d] = 100 * d  \* a pair pays 100
                               /\ Line[b][d] \in 1..99 /\ Line[b][d] + Line[b][-d] = 100
           /\ \A d \in leads : d + 1 \in leads =>
                  /\ Line[b][d] <= Line[b][d + 1]
                  /\ Curve[b][d + 1] - Curve[b][d] \in 0..100

Leads(k) == DOMAIN Curve[k.b]
Lead(k) == k.yes - k.no

(* cost *)
Cost(k) == Curve[k.b][Lead(k)] + 100 * k.no

BookCents(k) == Line[k.b][Lead(k)]

LiquidityFor(vaults) == Max({MinB, Min({MaxB, vaults \div 100})})

(* The lead whose price is nearest to the line. *)
SeedLead(b, line) ==
    LET gap == Min({Distance(Line[b][d], line) : d \in DOMAIN Line[b]})
    IN CHOOSE d \in DOMAIN Line[b] : Distance(Line[b][d], line) = gap

NoClose == -1

SeedBook(line, b) ==
    [b |-> b, yes |-> SeedLead(b, line), no |-> 0, line |-> line, last |-> line,
     close |-> NoClose]

-----------------------------------------------------------------------------
(* Buying from the book and selling back to it *)

AddShares(k, side, n) == IF side = "YES" THEN [k EXCEPT !.yes = @ + n] ELSE [k EXCEPT !.no = @ + n]

(* As many whole shares as the money pays for; no share costs less than half the price. *)
SharesForSpend(k, side, usdc) ==
    Max({n \in 0..((2 * usdc) \div SideCents(side, BookCents(k))) :
            LET after == AddShares(k, side, n)
            IN Lead(after) \in Leads(k) /\ Cost(after) - Cost(k) <= usdc})

ProceedsForSell(k, side, n) == Cost(k) - Cost(AddShares(k, side, -n))

BookAvailableFor(k, e, side) ==
    e.cash + IF HoldsOther(e, side) THEN ProceedsForSell(k, e.side, e.shares) ELSE 0

FaultyBookSell(k, e) ==  \* the shares stay outstanding in the book
    [book |-> k, e |-> Sold(e, ProceedsForSell(k, e.side, e.shares))]

BookSell(k, e) ==
    [book |-> AddShares(k, e.side, -e.shares),
     e |-> Sold(e, ProceedsForSell(k, e.side, e.shares))]

FaultyBookBuy(k, e, side, usdc) ==  \* prices the buy before the position is sold
    IF BuyRefused(e, usdc, BookAvailableFor(k, e, side)) THEN [ok |-> FALSE, book |-> k, e |-> e]
    ELSE LET flat == IF HoldsOther(e, side) THEN BookSell(k, e) ELSE [book |-> k, e |-> e]
             n == SharesForSpend(k, side, Min({usdc, flat.e.cash}))
         IN IF n = 0 THEN [ok |-> FALSE, book |-> flat.book, e |-> flat.e]
            ELSE [ok |-> TRUE, book |-> AddShares(flat.book, side, n),
                  e |-> Bought(flat.e, side, n, Cost(AddShares(k, side, n)) - Cost(k))]

(* Switching sides sells the position first, also when the buy then buys nothing. *)
BookBuy(k, e, side, usdc) ==
    IF BuyRefused(e, usdc, BookAvailableFor(k, e, side)) THEN [ok |-> FALSE, book |-> k, e |-> e]
    ELSE LET flat == IF HoldsOther(e, side) THEN BookSell(k, e) ELSE [book |-> k, e |-> e]
             n == SharesForSpend(flat.book, side, Min({usdc, flat.e.cash}))
             after == AddShares(flat.book, side, n)
         IN IF n = 0 THEN [ok |-> FALSE, book |-> flat.book, e |-> flat.e]
            ELSE [ok |-> TRUE, book |-> after,
                  e |-> Bought(flat.e, side, n, Cost(after) - Cost(flat.book))]

SharesOn(es, side) ==
    SumFunction([p \in {q \in DOMAIN es : es[q].side = side} |-> es[p].shares])

(* The opening auction filled at the line; the book takes over what it issued. *)
AbsorbOpening(k, es) ==
    AddShares(AddShares(k, "YES", SharesOn(es, "YES")), "NO", SharesOn(es, "NO"))

(* What a bot may do when it is its turn. *)
BotMoves == {"hold", "sell"} \cup (Side \X BotPcts)

BotMove(k, e, move) ==
    LET still == [book |-> k, e |-> e] IN
    IF e.out # StillIn \/ move = "hold" THEN still
    ELSE IF move = "sell" THEN IF Holds(e) THEN BookSell(k, e) ELSE still
    ELSE IF e.cash <= 100 THEN still
    ELSE LET fill == BookBuy(k, e, move[1], (e.cash * move[2]) \div 100)
         IN [book |-> fill.book, e |-> fill.e]

-----------------------------------------------------------------------------
(* The tape *)

Thinned(tape) ==
    LET half == Len(tape) \div 2 IN
    IF Len(tape) <= TapeMax THEN tape
    ELSE [i \in 1..((half + 1) \div 2) |-> tape[2 * i - 1]] \o SubSeq(tape, half + 1, Len(tape))

RecordTape(tape, at, yes, gap) ==
    IF tape # <<>> /\ at - Last(tape).at < gap THEN [tape EXCEPT ![Len(tape)].yes = yes]
    ELSE Thinned(Append(tape, [at |-> at, yes |-> yes]))

ClosingWindow(live) == Max({WindowMin, Min({WindowMax, live \div 5})})

RoundDiv(n, d) == (2 * n + d) \div (2 * d)

FaultyTwap(tape, from, to, fallback) ==  \* every sample counts the same, however long it held
    LET used == {i \in DOMAIN tape : from < tape[i].at /\ tape[i].at < to}
    IN IF used = {} THEN fallback
       ELSE RoundDiv(SumFunction([i \in used |-> tape[i].yes]), Cardinality(used))

(* Average of the tape's step function; before its first sample there is no price. *)
Twap(tape, from, to, fallback) ==
    LET before == {i \in DOMAIN tape : tape[i].at <= from}
        used == {i \in DOMAIN tape : from < tape[i].at /\ tape[i].at < to}
                    \cup (IF before = {} THEN {} ELSE {Max(before)})
        since(i) == Max({from, tape[i].at})
        until(i) == IF i + 1 \in used THEN tape[i + 1].at ELSE to
        area == SumFunction([i \in used |-> tape[i].yes * (until(i) - since(i))])
    IN IF to <= from \/ used = {} THEN fallback ELSE RoundDiv(area, to - since(Min(used)))
=============================================================================
