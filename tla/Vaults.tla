------------------------------- MODULE Vaults -------------------------------
(***************************************************************************)
(* A player's trading vault and what a round does to it (lib/royale.ts):   *)
(* buying and selling at a quoted price, opening calls, the settlement's   *)
(* ranking and cut, the carry into the next round.  Money is in cents and  *)
(* a share pays 100 of them; shares are whole, and the cents that do not   *)
(* make up a share stay in cash.  The open parlays of old rounds, the      *)
(* average price and the log are left out: nothing here reads them.        *)
(***************************************************************************)
EXTENDS Integers, Sequences, SequencesExt, FiniteSetsExt, Functions

CONSTANTS
    Human, Bot,  \* the entrants, numbered in the order they joined
    CallPcts     \* OPENING_CALL_SIZES

ASSUME VaultsAssumption ==
    /\ Human \cup Bot \subseteq Nat \ {0} /\ Human \cap Bot = {}
    /\ IsFiniteSet(Human \cup Bot)
    /\ CallPcts \subseteq 1..100

Entrant == Human \cup Bot
Side == {"YES", "NO"}
NoSide == "none"
StillIn == 0  \* eliminatedRound = null

(* A definition named Faulty... is a deliberately wrong variant of the one below it, as in
   module Escrow. *)

MakeEntrant(vault) ==
    [cash |-> vault, shares |-> 0, side |-> NoSide, out |-> StillIn, call |-> NoSide, pct |-> 50]

-----------------------------------------------------------------------------
(* Positions *)

Distance(x, y) == IF x < y THEN y - x ELSE x - y

SideCents(side, yes) == IF side = "YES" THEN yes ELSE 100 - yes

Holds(e) == e.side # NoSide /\ e.shares > 0
HoldsOther(e, side) == Holds(e) /\ e.side # side

Sold(e, proceeds) == [e EXCEPT !.cash = @ + proceeds, !.shares = 0, !.side = NoSide]

SaleValue(e, yes, spread) == e.shares * Max({0, SideCents(e.side, yes) - spread})

Liquidate(e, yes, spread) == IF Holds(e) THEN Sold(e, SaleValue(e, yes, spread)) ELSE e

AvailableFor(e, side, yes, spread) ==
    e.cash + IF HoldsOther(e, side) THEN SaleValue(e, yes, spread) ELSE 0

Bought(e, side, n, paid) ==
    [e EXCEPT !.cash = @ - paid, !.shares = @ + n, !.side = side]

BuyRefused(e, usdc, available) == e.out # StillIn \/ usdc <= 0 \/ usdc > available

(* Switching sides sells the position first. *)
BuyShares(e, side, usdc, price, yes, spread) ==
    IF BuyRefused(e, usdc, AvailableFor(e, side, yes, spread)) THEN e
    ELSE LET flat == IF HoldsOther(e, side) THEN Liquidate(e, yes, spread) ELSE e
             at == Max({1, Min({99, price})})
             n == Min({usdc, flat.cash}) \div at
         IN Bought(flat, side, n, n * at)

-----------------------------------------------------------------------------
(* Opening calls, placed with a part of the vault as the round goes live *)

ChangeCallOf(e, call, pct) == [e EXCEPT !.call = call, !.pct = pct]

PlaceCall(e, isBot, yes) ==
    LET open == [e EXCEPT !.call = NoSide]
    IN IF e.call = NoSide \/ isBot \/ e.shares > 0 \/ e.cash <= 0 THEN open
       ELSE BuyShares(open, e.call, (e.cash * e.pct) \div 100, SideCents(e.call, yes), yes, 0)

PlaceOpeningCalls(es, yes) == [p \in DOMAIN es |-> PlaceCall(es[p], p \in Bot, yes)]

-----------------------------------------------------------------------------
(* Settlement and the next round *)

Alive(es) == {p \in DOMAIN es : es[p].out = StillIn}

(* Higher vault first, then who joined earlier. *)
Ahead(es, p, q) == es[p].cash > es[q].cash \/ (es[p].cash = es[q].cash /\ p < q)

Survivors(n) == Max({1, (n + 1) \div 2})

(* Redeem every position, rank, and cut the bottom half. *)
Redeemed(es, yes) ==
    [p \in DOMAIN es |-> IF p \in Alive(es) THEN Liquidate(es[p], yes, 0) ELSE es[p]]

CutLosers(es, number) ==
    LET alive == Alive(es)
        place(p) == 1 + Cardinality({q \in alive : Ahead(es, q, p)})
        kept == {p \in alive : place(p) <= Survivors(Cardinality(alive))}
    IN [p \in DOMAIN es |-> IF p \in alive \ kept THEN [es[p] EXCEPT !.out = number]
                            ELSE es[p]]

(* The same value; TLC computes it once instead of at every use. *)
Once(f) == CHOOSE g \in {f} : TRUE

SettleVaults(es, yes, number) == Once(CutLosers(Once(Redeemed(es, yes)), number))

IsFinal(es, number, limit) == Cardinality(Alive(es)) <= 1 \/ number >= limit

(* advance: everyone keeps the cash they have; nothing else carries over. *)
CarryOver(es) ==
    [p \in DOMAIN es |-> [es[p] EXCEPT !.shares = 0, !.side = NoSide, !.call = NoSide]]
=============================================================================
