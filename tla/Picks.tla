-------------------------------- MODULE Picks --------------------------------
(***************************************************************************)
(* Prices read from the exchanges and what they decide: the value of a     *)
(* direction share (lib/oracle.ts), the answers to the questions of the    *)
(* two pick formats, the score of a predictions card with its lock         *)
(* (lib/predictions.ts), and the choice of the closing sample              *)
(* (lib/round-keeper.ts).  A reading is a price, 0 if there is none.       *)
(***************************************************************************)
EXTENDS Integers, FiniteSets, FiniteSetsExt

CONSTANTS
    Asset,       \* ASSET_SYMBOLS
    Questions,   \* the card: sequence of [kind, assets]
    Chance,      \* Chance[move]: upCents of a move in price, while time is left
    CloseFresh,  \* CLOSE_FRESH_MS
    OracleWait   \* ORACLE_WAIT_MS

ASSUME PicksAssumption ==
    /\ IsFiniteSet(DOMAIN Questions)
    /\ \A i \in DOMAIN Questions :
           /\ Questions[i].kind \in {"direction", "relative"}
           /\ Questions[i].assets \subseteq Asset /\ Questions[i].assets # {}
           /\ Questions[i].kind = "direction" => Cardinality(Questions[i].assets) = 1
    /\ \A move \in DOMAIN Chance : Chance[move] \in 2..98
    /\ CloseFresh \in Nat /\ OracleWait \in Nat /\ CloseFresh <= OracleWait

Unread == 0
Known(reading) == reading > Unread
NoSpots == [a \in Asset |-> Unread]
SomeKnown(spots) == \E a \in Asset : Known(spots[a])
AllKnown(spots, assets) == \A a \in assets : Known(spots[a])

(* Later readings replace the ones they have, and keep the others. *)
Merged(old, spots) == [a \in Asset |-> IF Known(spots[a]) THEN spots[a] ELSE old[a]]

-----------------------------------------------------------------------------
(* What a share of UP is worth *)

Sign(n) == IF n > 0 THEN 1 ELSE IF n < 0 THEN -1 ELSE 0

UpCents(open, spot, left) ==
    IF ~Known(open) \/ ~Known(spot) THEN 50
    ELSE IF left <= 0 THEN 50 + 48 * Sign(spot - open)
    ELSE Chance[spot - open]

ResolvedCents(open, close) ==
    IF ~Known(open) \/ ~Known(close) THEN 50 ELSE 50 + 50 * Sign(close - open)

-----------------------------------------------------------------------------
(* Answers *)

Options(q) == IF q.kind = "direction" THEN {"UP", "DOWN"} ELSE q.assets
NoPick == "none"

(* a moved at least as well as b, as a fraction of its opening price *)
Outdoes(open, now, a, b) == now[a] * open[b] >= now[b] * open[a]

Best(q, open, now) == {a \in q.assets : \A b \in q.assets : Outdoes(open, now, a, b)}

(* answersFor: {} is void, a price is missing or the result is level. *)
AnswersFor(q, open, now) ==
    IF ~AllKnown(open, q.assets) \/ ~AllKnown(now, q.assets) THEN {}
    ELSE IF q.kind = "direction"
    THEN LET a == CHOOSE x \in q.assets : TRUE
             move == Sign(now[a] - open[a])
         IN IF move = 0 THEN {} ELSE IF move = 1 THEN {"UP"} ELSE {"DOWN"}
    ELSE IF Best(q, open, now) = q.assets THEN {} ELSE Best(q, open, now)

CardAnswers(open, now) == [i \in DOMAIN Questions |-> AnswersFor(Questions[i], open, now)]

-----------------------------------------------------------------------------
(* A card: a pick for each question, and a lock on two or three of them *)

BlankCard == [picks |-> [i \in DOMAIN Questions |-> NoPick], locks |-> {}]

LockMin == 2
LockMax == 3

Picked(card) == {i \in DOMAIN Questions : card.picks[i] # NoPick}

(* normalizePicks merged into the card, then normalizeLocks on the result. *)
WithPicks(card, picks) ==
    [card EXCEPT !.picks =
        [i \in DOMAIN Questions |-> IF picks[i] = NoPick THEN card.picks[i] ELSE picks[i]]]

WithLocks(card, locks) ==
    LET firstOf(s) == {i \in s : Cardinality({j \in s : j < i}) < LockMax}
    IN [card EXCEPT !.locks = firstOf(locks \cap DOMAIN Questions) \cap Picked(card)]

Right(card, answers) == {i \in DOMAIN Questions : card.picks[i] \in answers[i]}

LockActive(card) == Cardinality(card.locks \cap Picked(card)) \in LockMin..LockMax

FaultyScoreCard(card, answers) ==  \* a level question misses the lock
    LET n(s) == Cardinality(s) IN
    IF ~LockActive(card) THEN n(Right(card, answers))
    ELSE IF card.locks \subseteq Right(card, answers)
         THEN n(Right(card, answers)) + n(card.locks)
         ELSE n(Right(card, answers) \ card.locks)

ScoreCard(card, answers) ==
    LET right == Right(card, answers)
        live == {i \in card.locks \cap Picked(card) : answers[i] # {}}
        delta == IF live \subseteq right THEN Cardinality(live)
                 ELSE -Cardinality(live \cap right)
    IN Cardinality(right) + IF LockActive(card) THEN delta ELSE 0

-----------------------------------------------------------------------------
(* The closing price: the sample nearest to the deadline, of this poll, of the previous one, or
   the candle if the arena went unwatched. *)

Fresh(at, deadline) == at <= deadline /\ deadline - at <= CloseFresh

Nearest(need, spots, prev, now, deadline) ==
    LET here == AllKnown(spots, need) /\ now - deadline <= CloseFresh
        nearer == prev.at <= deadline => now - deadline <= deadline - prev.at
    IN IF here /\ nearer THEN spots
       ELSE IF AllKnown(prev.spots, need) /\ Fresh(prev.at, deadline) THEN prev.spots
       ELSE IF here THEN spots
       ELSE NoSpots

(* closeSample: NoClose while it is worth waiting; past the wait, whatever is known. *)
CloseSample(need, spots, candles, prev, now, deadline) ==
    LET near == Nearest(need, spots, prev, now, deadline) IN
    IF SomeKnown(near) THEN [ok |-> TRUE, spots |-> near]
    ELSE IF AllKnown(candles, need) THEN [ok |-> TRUE, spots |-> candles]
    ELSE IF now >= deadline + OracleWait
    THEN [ok |-> TRUE, spots |-> IF now - deadline > CloseFresh THEN candles ELSE spots]
    ELSE [ok |-> FALSE, spots |-> NoSpots]

(* The same choice in a direction round, which waits only if it has an opening price. *)
DirectionClose(asset, opened, spots, candles, prev, now, deadline) ==
    LET near == Nearest({asset}, spots, prev, now, deadline)
        close == IF SomeKnown(near) THEN near ELSE candles
    IN [ok |-> Known(close[asset]) \/ ~opened \/ now >= deadline + OracleWait, spots |-> close]
=============================================================================
