---------------------------- MODULE SpotPitProofs ----------------------------
(***************************************************************************)
(* Theorems about module SpotPit, for any players, assets, questions,      *)
(* legs, durations, quotes and polls however late.                         *)
(***************************************************************************)
EXTENDS SpotPit, PayoutProofs

EntrantFields == {"cash", "shares", "side", "out", "call", "pct"}
RoundFields == {"format", "status", "number", "asset", "deadline"}
StreakFields == {"leg", "phase", "picks", "open"}
OracleFields == {"open", "last", "lastAt", "close"}
RoomFields == {"round", "es", "oracle", "streak", "cards", "score", "botAt"}

RoomShape(r) ==
    /\ DOMAIN r = RoomFields
    /\ DOMAIN r.round = RoundFields /\ DOMAIN r.oracle = OracleFields
    /\ DOMAIN r.streak = StreakFields
    /\ DOMAIN r.streak.picks = Entrant /\ DOMAIN r.cards = Entrant
    /\ r.round.format = "streak" =>
           /\ DOMAIN r.score = Entrant /\ DOMAIN r.es = Entrant
           /\ \A p \in Entrant : DOMAIN r.es[p] = EntrantFields

(* In a streak the legs are numbered from 1 and the last one is over when the streak is; who is
   still in has a point for every leg judged so far, the others for the legs before their last. *)
LegsOver(r) == IF r.streak.phase = "done" THEN r.streak.leg ELSE r.streak.leg - 1

Standing(r) ==
    /\ Alive(r.es) # {}
    /\ \A p \in Entrant :
           r.score[p] = IF r.es[p].out = StillIn THEN LegsOver(r) ELSE r.es[p].out - 1

StreakInv(r) ==
    /\ r.streak.leg \in Nat \ {0}
    /\ r.round.status \in {"enrolling", "live"} => r.streak.phase \in {"picking", "running"}
    /\ Standing(r)

(* The invariant of a room: a leg that takes picks has no prices yet, and before the lock there
   are no prices at all. *)
RoomInv(r) ==
    /\ RoomShape(r)
    /\ r.round.status \in {"enrolling", "live", "complete"}
    /\ r.streak.phase = "picking" => r.streak.open = NoSpots
    /\ r.round.status = "enrolling" =>
           r.oracle = NoOracle /\ r.streak.leg = 1 /\ r.streak.phase = "picking"
    /\ r.round.format = "streak" => StreakInv(r)

LEMMA Blind == ~SomeKnown(NoSpots)
BY DEF SomeKnown, NoSpots, Known, Unread

LEMMA PeopleAreNotBots == \A p \in Human : p \in Entrant /\ p \notin Bot
BY VaultsAssumption DEF Entrant

LEMMA RoomFieldsAre ==
  /\ DOMAIN Room = RoomFields
  /\ Room.round = round /\ Room.es = entrants /\ Room.oracle = oracle /\ Room.streak = streak
  /\ Room.cards = cards /\ Room.score = score
BY DEF Room, RoomFields

LEMMA OracleKept ==
  ASSUME NEW o, DOMAIN o = OracleFields, NEW spots
  PROVE  /\ DOMAIN Sampled(o, spots) = OracleFields
         /\ DOMAIN OpenedBy(o, spots) = OracleFields
         /\ DOMAIN OpenOracle(spots) = OracleFields /\ DOMAIN NoOracle = OracleFields
BY DEF Sampled, OpenedBy, OpenOracle, NoOracle, OracleFields

-----------------------------------------------------------------------------
(* What the lock and a tick leave of the streak, the cards and the standings. *)

(* s is r with other prices. *)
OnlyPrices(r, s) ==
    /\ RoomShape(s) /\ s.round = r.round /\ s.es = r.es /\ s.streak = r.streak
    /\ s.cards = r.cards /\ s.score = r.score

LEMMA PricesRead ==
  ASSUME NEW r, RoomShape(r), NEW o, DOMAIN o = OracleFields
  PROVE  OnlyPrices(r, [r EXCEPT !.oracle = o])
BY DEF OnlyPrices, RoomShape, RoomFields

LEMMA LockTaken ==
  ASSUME RoomShape(Room), NEW in
  PROVE  /\ RoomShape(Locked(in)) /\ Locked(in).streak = streak
         /\ Locked(in).round.format = round.format /\ Locked(in).round.status = "live"
         /\ \A p \in Human : Locked(in).cards[p] = cards[p]
         /\ round.format = "streak" => Locked(in).es = entrants /\ Locked(in).score = score
<1> DEFINE deadline == now + IF round.format = "streak" THEN PickMs ELSE Live
           round2 == [round EXCEPT !.status = "live", !.deadline = deadline]
           oracle2 == IF round.format = "royale"
                      THEN IF Known(in.spots[round.asset]) THEN OpenOracle(in.spots) ELSE oracle
                      ELSE OpenedBy(oracle, in.spots)
           es2 == IF round.format = "royale" THEN PlaceOpeningCalls(entrants, 50) ELSE entrants
           cards2 == IF round.format = "royale" THEN cards
                     ELSE [p \in Entrant |-> IF p \in Bot /\ round.format = "predictions"
                                             THEN WithPicks(BlankCard, in.luck[p]) ELSE cards[p]]
<1>1. Locked(in) = [round |-> round2, es |-> es2, oracle |-> oracle2, streak |-> streak,
                    cards |-> cards2, score |-> score, botAt |-> botAt]
  BY DEF Locked, Room
<1>2. /\ DOMAIN round = RoundFields /\ DOMAIN oracle = OracleFields /\ DOMAIN streak = StreakFields
      /\ DOMAIN streak.picks = Entrant /\ DOMAIN cards = Entrant
      /\ round.format = "streak" =>
             /\ DOMAIN score = Entrant /\ DOMAIN entrants = Entrant
             /\ \A p \in Entrant : DOMAIN entrants[p] = EntrantFields
  BY RoomFieldsAre DEF RoomShape
<1>3. DOMAIN round2 = RoundFields /\ round2.format = round.format /\ round2.status = "live"
  BY <1>2 DEF RoundFields
<1>4. DOMAIN oracle2 = OracleFields
  BY <1>2, OracleKept
<1>5. DOMAIN cards2 = Entrant /\ \A p \in Human : cards2[p] = cards[p]
  BY <1>2, PeopleAreNotBots
<1>6. round.format = "streak" => es2 = entrants
  OBVIOUS
<1> HIDE DEF round2, oracle2, es2, cards2
<1>7. /\ Locked(in).round = round2 /\ Locked(in).es = es2 /\ Locked(in).oracle = oracle2
      /\ Locked(in).streak = streak /\ Locked(in).cards = cards2 /\ Locked(in).score = score
      /\ DOMAIN Locked(in) = RoomFields
  BY <1>1 DEF RoomFields
<1>8. QED
  BY <1>2, <1>3, <1>4, <1>5, <1>6, <1>7 DEF RoomShape

(* The other formats never touch the streak, and no tick touches a card. *)
LEMMA OtherTicked ==
  ASSUME NEW r, RoomShape(r), r.round.format # "streak", r.round.status = "live", NEW in
  PROVE  /\ RoomShape(Tick(r, in)) /\ Tick(r, in).streak = r.streak
         /\ Tick(r, in).cards = r.cards /\ Tick(r, in).round.format = r.round.format
         /\ Tick(r, in).round.status \in {"live", "complete"}
<1> DEFINE Good(s) == /\ RoomShape(s) /\ s.streak = r.streak /\ s.cards = r.cards
                      /\ s.round.format = r.round.format
                      /\ s.round.status \in {"live", "complete"}
<1>1. Good(r)
  OBVIOUS
<1>2. ASSUME NEW s, Good(s), NEW o, DOMAIN o = OracleFields PROVE Good([s EXCEPT !.oracle = o])
  BY <1>2, PricesRead DEF OnlyPrices
<1>3. ASSUME NEW s, Good(s), NEW x
      PROVE  Good([s EXCEPT !.score = x]) /\ Good([s EXCEPT !.es = x]) /\ Good([s EXCEPT !.botAt = x])
  BY <1>3 DEF RoomShape, RoomFields
<1>4. ASSUME NEW s, Good(s), NEW x, DOMAIN x = RoundFields, x.format = r.round.format,
             x.status \in {"live", "complete"}
      PROVE  Good([s EXCEPT !.round = x])
  BY <1>4 DEF RoomShape, RoomFields
<1>5. CASE r.round.format = "predictions"
  <2> DEFINE opened == [r EXCEPT !.oracle = OpenedBy(@, in.spots)]
             live == IF SomeKnown(opened.oracle.open)
                     THEN [opened EXCEPT !.score = Scores(opened, Merged(opened.oracle.last, in.spots))]
                     ELSE opened
  <2>1. Good(opened)
    BY <1>1, <1>2, OracleKept DEF RoomShape
  <2>2. Good(live)
    <3> HIDE DEF Good, opened
    <3>1. QED
      BY <1>3, <2>1
  <2> HIDE DEF opened, live
  <2> DEFINE Closed(c, x) ==
               [live EXCEPT !.oracle.close = c, !.score = x, !.round.status = "complete"]
  <2>3. ASSUME NEW c, NEW x PROVE Good(Closed(c, x))
    BY <2>2 DEF RoomShape, RoomFields, RoundFields, OracleFields
  <2>4. \/ Tick(r, in) = live
        \/ \E c, x : Tick(r, in) = Closed(c, x)
    BY <1>5 DEF Tick, TickPredictions, live, opened
  <2> HIDE DEF Good, Closed
  <2>5. Good(Tick(r, in))
    BY <2>2, <2>3, <2>4
  <2>6. QED
    BY <2>5 DEF Good
<1>6. CASE r.round.format # "predictions"
  <2> DEFINE a == r.round.asset
             opened == IF ~Known(r.oracle.open[a]) /\ Known(in.spots[a])
                       THEN [r EXCEPT !.oracle = OpenOracle(in.spots)] ELSE r
             moved == BotsMoved(opened, in)
  <2>1. Good(opened)
    <3> HIDE DEF Good
    <3>1. DOMAIN OpenOracle(in.spots) = OracleFields
      BY OracleKept DEF RoomShape
    <3>2. Good([r EXCEPT !.oracle = OpenOracle(in.spots)])
      BY <1>1, <1>2, <3>1
    <3>3. QED
      BY <1>1, <3>2
  <2> HIDE DEF opened
  <2>2. Good(moved)
    <3>1. ASSUME NEW x, NEW y PROVE Good([opened EXCEPT !.botAt = x, !.es = y])
      BY <2>1 DEF RoomShape, RoomFields
    <3>2. moved = opened \/ \E x, y : moved = [opened EXCEPT !.botAt = x, !.es = y]
      BY DEF BotsMoved
    <3> HIDE DEF Good, moved
    <3>3. ASSUME NEW x, NEW y, moved = [opened EXCEPT !.botAt = x, !.es = y] PROVE Good(moved)
      BY <3>1, <3>3
    <3>4. QED
      BY <2>1, <3>2, <3>3
  <2> HIDE DEF moved
  <2> DEFINE Done(c, x) == [moved EXCEPT !.oracle.close = c, !.es = x]
  <2>3. ASSUME NEW c, NEW x PROVE Good(Done(c, x))
    BY <2>2 DEF RoomShape, RoomFields, OracleFields
  <2>4. ASSUME NEW s, Good(s) PROVE Good([s EXCEPT !.round.status = "complete"]) /\ Good(NextRound(s, in))
    <3>1. Good([s EXCEPT !.round.status = "complete"])
      BY <2>4 DEF RoomShape, RoomFields, RoundFields
    <3> DEFINE o == IF Known(in.spots[in.asset]) THEN OpenOracle(in.spots) ELSE NoOracle
               rd == [s.round EXCEPT !.number = @ + 1, !.asset = in.asset, !.deadline = now + Live]
    <3>2. DOMAIN o = OracleFields
      BY OracleKept DEF RoomShape
    <3>3. DOMAIN rd = RoundFields /\ rd.format = s.round.format /\ rd.status = s.round.status
      BY <2>4 DEF RoomShape, RoundFields
    <3>4. NextRound(s, in) = [s EXCEPT !.round = rd, !.es = CarryOver(s.es), !.botAt = Unset, !.oracle = o]
      BY <2>4 DEF NextRound, RoomShape, RoomFields, RoundFields
    <3> HIDE DEF o, rd
    <3>5. Good(NextRound(s, in))
      BY <2>4, <3>2, <3>3, <3>4 DEF RoomShape, RoomFields
    <3>6. QED
      BY <3>1, <3>5
  <2>5. \/ Tick(r, in) = moved
        \/ \E c, x : \/ Tick(r, in) = [Done(c, x) EXCEPT !.round.status = "complete"]
                    \/ Tick(r, in) = NextRound(Done(c, x), in)
    <3> DEFINE open == moved.oracle.open[a]
               close == DirectionClose(a, Known(open), in.spots, in.candles, PrevSample, now,
                                       r.round.deadline)
               x0 == SettleVaults(moved.es, ResolvedCents(open, close.spots[a]), r.round.number)
    <3>1. Tick(r, in) = TickDirection(r, in)
      BY <1>6 DEF Tick
    <3>2. [moved EXCEPT !.oracle.close = close.spots,
                        !.es = SettleVaults(@, ResolvedCents(open, close.spots[a]), r.round.number)]
          = Done(close.spots, x0)
      BY <2>2 DEF RoomShape, RoomFields
    <3>3. \/ TickDirection(r, in) = moved
          \/ TickDirection(r, in) = [Done(close.spots, x0) EXCEPT !.round.status = "complete"]
          \/ TickDirection(r, in) = NextRound(Done(close.spots, x0), in)
      BY <3>2 DEF TickDirection, opened, moved
    <3> HIDE DEF Done, close, x0
    <3>4. QED
      BY <3>1, <3>3
  <2> HIDE DEF Good, Done
  <2>6. Good(Tick(r, in))
    BY <2>2, <2>3, <2>4, <2>5
  <2>7. QED
    BY <2>6 DEF Good
<1>7. QED
  BY <1>5, <1>6

(* A leg opens: bots make up their picks, people's stay as they are. *)
LEMMA LegRun ==
  ASSUME NEW r, RoomShape(r), r.round.format = "streak", NEW in
  PROVE  /\ RoomShape(RunLeg(r, in))
         /\ RunLeg(r, in).es = r.es /\ RunLeg(r, in).score = r.score
         /\ RunLeg(r, in).cards = r.cards
         /\ RunLeg(r, in).round.format = r.round.format
         /\ RunLeg(r, in).round.status = r.round.status
         /\ RunLeg(r, in).streak.leg = r.streak.leg /\ RunLeg(r, in).streak.phase = "running"
         /\ \A p \in Human : RunLeg(r, in).streak.picks[p] = r.streak.picks[p]
<1> DEFINE picks2 == [p \in Entrant |->
                         IF p \in Bot \cap Alive(r.es) /\ r.streak.picks[p] = NoPick
                         THEN in.luck[p] ELSE r.streak.picks[p]]
           open2 == [a \in Asset |-> IF a \in Deck[r.streak.leg].assets THEN in.spots[a] ELSE Unread]
<1>1. RunLeg(r, in) = [r EXCEPT !.streak.phase = "running", !.streak.open = open2,
                                !.streak.picks = picks2, !.round.deadline = now + LegMs]
  BY DEF RunLeg, RoomShape, RoomFields, StreakFields, RoundFields
<1>2. DOMAIN picks2 = Entrant /\ \A p \in Human : picks2[p] = r.streak.picks[p]
  BY PeopleAreNotBots
<1> HIDE DEF picks2, open2
<1>3. /\ DOMAIN r = RoomFields /\ DOMAIN r.streak = StreakFields /\ DOMAIN r.round = RoundFields
  BY DEF RoomShape
<1> DEFINE s == RunLeg(r, in)
<1> HIDE DEF s
<1>4. s = [r EXCEPT !.streak.phase = "running", !.streak.open = open2,
                    !.streak.picks = picks2, !.round.deadline = now + LegMs]
  BY <1>1 DEF s
<1>5. /\ DOMAIN s = RoomFields /\ s.es = r.es /\ s.score = r.score /\ s.cards = r.cards
      /\ s.oracle = r.oracle
  BY <1>3, <1>4 DEF RoomFields
<1>6. /\ DOMAIN s.round = RoundFields /\ s.round.format = r.round.format
      /\ s.round.status = r.round.status
  BY <1>3, <1>4 DEF RoomFields, RoundFields
<1>7. /\ DOMAIN s.streak = StreakFields /\ s.streak.leg = r.streak.leg
      /\ s.streak.phase = "running" /\ s.streak.picks = picks2
  BY <1>3, <1>4 DEF RoomFields, StreakFields
<1>8. RoomShape(s)
  BY <1>2, <1>5, <1>6, <1>7 DEF RoomShape
<1>9. QED
  BY <1>2, <1>5, <1>6, <1>7, <1>8 DEF s

(* A leg is judged: somebody stays in, whoever goes out scores the legs before it. *)
LEMMA LegResolved ==
  ASSUME NEW r, RoomShape(r), r.round.format = "streak", r.streak.leg \in Nat \ {0},
         Alive(r.es) # {}, NEW close,
         \A p \in Entrant : r.score[p] = IF r.es[p].out = StillIn THEN r.streak.leg - 1
                                         ELSE r.es[p].out - 1
  PROVE  LET s == ResolveLeg(r, close) IN
         /\ RoomShape(s) /\ s.cards = r.cards /\ s.round.format = r.round.format
         /\ Alive(s.es) # {}
         /\ \A p \in Entrant : s.score[p] = IF s.es[p].out = StillIn THEN r.streak.leg
                                            ELSE s.es[p].out - 1
         /\ \/ /\ s.round.status = "complete" /\ s.streak.phase = "done"
               /\ s.streak.leg = r.streak.leg /\ s.streak.picks = r.streak.picks
            \/ /\ s.round.status = r.round.status /\ s.streak.phase = "picking"
               /\ s.streak.leg = r.streak.leg + 1 /\ s.streak.open = NoSpots
<1> DEFINE leg == r.streak.leg
           out == OutOnLeg(r, AnswersFor(Deck[leg], r.streak.open, close))
           left == Alive(r.es) \ out
           es2 == [p \in Entrant |-> IF p \in out THEN [r.es[p] EXCEPT !.out = leg] ELSE r.es[p]]
           score2 == [p \in Entrant |-> IF p \in left THEN leg ELSE r.score[p]]
           judged == [r EXCEPT !.es = es2, !.score = score2]
           over == Cardinality(left) <= 1 \/ left \cap Human = {} \/ leg >= MaxLegs
           next == [leg |-> leg + 1, phase |-> "picking", picks |-> NoPicks, open |-> NoSpots]
           s == ResolveLeg(r, close)
<1>1. s = IF over THEN [judged EXCEPT !.round.status = "complete", !.streak.phase = "done"]
          ELSE [judged EXCEPT !.round.deadline = now + PickMs, !.streak = next]
  BY DEF ResolveLeg, RoomShape, RoomFields
<1>2. out \subseteq Alive(r.es) /\ left # {}
  <2>1. \A answer : WrongPicks(r, answer) \subseteq Alive(r.es)
    BY DEF WrongPicks
  <2>2. QED
    BY <2>1 DEF OutOnLeg
<1>3. Alive(r.es) = {p \in Entrant : r.es[p].out = StillIn} /\ leg # StillIn
  BY DEF Alive, RoomShape, StillIn
<1> HIDE DEF out
<1>4. /\ DOMAIN es2 = Entrant /\ DOMAIN score2 = Entrant
      /\ \A p \in Entrant : DOMAIN es2[p] = EntrantFields
      /\ \A p \in Entrant : es2[p].out = IF p \in out THEN leg ELSE r.es[p].out
  BY DEF RoomShape, EntrantFields
<1>5. Alive(es2) = left
  BY <1>2, <1>3, <1>4 DEF Alive
<1>6. \A p \in Entrant : score2[p] = IF es2[p].out = StillIn THEN leg ELSE es2[p].out - 1
  <2>1. ASSUME NEW p \in Entrant
        PROVE  score2[p] = IF es2[p].out = StillIn THEN leg ELSE es2[p].out - 1
    <3>1. CASE p \in left
      BY <1>3, <1>4, <3>1
    <3>2. CASE p \in out
      <4>1. r.es[p].out = StillIn /\ p \notin left
        BY <1>2, <1>3, <3>2
      <4>2. r.score[p] = leg - 1 /\ score2[p] = r.score[p] /\ es2[p].out = leg
        BY <1>4, <3>2, <4>1
      <4>3. QED
        BY <1>3, <4>2
    <3>3. CASE p \notin left /\ p \notin out
      <4>1. r.es[p].out # StillIn
        BY <1>3, <3>3
      <4>2. QED
        BY <1>4, <3>3, <4>1
    <3>4. QED
      BY <3>1, <3>2, <3>3
  <2>2. QED
    BY <2>1
<1> HIDE DEF left, es2, score2
<1>7. /\ RoomShape(judged) /\ judged.es = es2 /\ judged.score = score2
      /\ judged.round = r.round /\ judged.streak = r.streak /\ judged.cards = r.cards
      /\ judged.oracle = r.oracle
  BY <1>4 DEF RoomShape, RoomFields
<1> HIDE DEF judged, over
<1>8. CASE over
  <2>1. s = [judged EXCEPT !.round.status = "complete", !.streak.phase = "done"]
    BY <1>1, <1>8
  <2> HIDE DEF s
  <2>2. /\ s.es = judged.es /\ s.score = judged.score /\ s.cards = judged.cards
        /\ s.round.status = "complete" /\ s.round.format = judged.round.format
        /\ s.streak.phase = "done" /\ s.streak.leg = judged.streak.leg
        /\ s.streak.picks = judged.streak.picks /\ RoomShape(s)
    BY <1>7, <2>1 DEF RoomShape, RoomFields, RoundFields, StreakFields
  <2>3. QED
    BY <1>2, <1>5, <1>6, <1>7, <2>2 DEF s
<1>9. CASE ~over
  <2>1. s = [judged EXCEPT !.round.deadline = now + PickMs, !.streak = next]
    BY <1>1, <1>9
  <2>2. /\ DOMAIN next = StreakFields /\ DOMAIN next.picks = Entrant /\ next.leg = leg + 1
        /\ next.phase = "picking" /\ next.open = NoSpots
    BY DEF StreakFields, NoPicks
  <2> HIDE DEF s, next
  <2>3. /\ s.es = judged.es /\ s.score = judged.score /\ s.cards = judged.cards
        /\ s.round.status = judged.round.status /\ s.round.format = judged.round.format
        /\ s.streak = next /\ RoomShape(s)
    BY <1>7, <2>1, <2>2 DEF RoomShape, RoomFields, RoundFields
  <2>4. QED
    BY <1>2, <1>5, <1>6, <1>7, <2>2, <2>3 DEF s
<1>10. QED
  BY <1>8, <1>9

-----------------------------------------------------------------------------
(* A tick of a live streak. *)
LEMMA StreakTicked ==
  ASSUME NEW r, RoomShape(r), r.round.format = "streak", r.round.status = "live", StreakInv(r),
         r.streak.phase = "picking" => r.streak.open = NoSpots, NEW in
  PROVE  LET s == TickStreak(r, in) IN
         /\ RoomShape(s) /\ s.cards = r.cards /\ s.round.format = "streak"
         /\ s.round.status \in {"live", "complete"} /\ StreakInv(s)
         /\ s.streak.phase = "picking" => s.streak.open = NoSpots
         /\ s.streak.leg = r.streak.leg =>
                \A p \in Human : s.streak.picks[p] = r.streak.picks[p]
<1> DEFINE Good(s) == /\ RoomShape(s) /\ s.cards = r.cards /\ s.round.format = "streak"
                      /\ s.round.status \in {"live", "complete"} /\ StreakInv(s)
                      /\ s.streak.phase = "picking" => s.streak.open = NoSpots
                      /\ s.streak.leg = r.streak.leg =>
                             \A p \in Human : s.streak.picks[p] = r.streak.picks[p]
<1>1. Good(r)
  OBVIOUS
<1>2. Good(RunLeg(r, in)) \/ r.streak.phase # "picking"
  <2> SUFFICES ASSUME r.streak.phase = "picking" PROVE Good(RunLeg(r, in))
    OBVIOUS
  <2> DEFINE s == RunLeg(r, in)
  <2> HIDE DEF s
  <2>1. /\ RoomShape(s) /\ s.es = r.es /\ s.score = r.score /\ s.cards = r.cards
        /\ s.round.format = r.round.format /\ s.round.status = r.round.status
        /\ s.streak.leg = r.streak.leg /\ s.streak.phase = "running"
        /\ \A p \in Human : s.streak.picks[p] = r.streak.picks[p]
    BY LegRun DEF s
  <2>2. LegsOver(s) = LegsOver(r)
    BY <2>1 DEF LegsOver
  <2>3. StreakInv(s)
    BY <2>1, <2>2 DEF StreakInv, Standing
  <2>4. QED
    BY <2>1, <2>3 DEF s
<1>3. ASSUME NEW close, r.streak.phase = "running" PROVE Good(ResolveLeg(r, close))
  <2> DEFINE s == ResolveLeg(r, close)
  <2>1. Alive(r.es) # {} /\ r.streak.leg \in Nat \ {0}
    BY DEF StreakInv, Standing
  <2>2. \A p \in Entrant : r.score[p] = IF r.es[p].out = StillIn THEN r.streak.leg - 1
                                        ELSE r.es[p].out - 1
    BY <1>3 DEF StreakInv, Standing, LegsOver
  <2> HIDE DEF s
  <2>3. /\ RoomShape(s) /\ s.cards = r.cards /\ s.round.format = r.round.format
        /\ Alive(s.es) # {}
        /\ \A p \in Entrant : s.score[p] = IF s.es[p].out = StillIn THEN r.streak.leg
                                           ELSE s.es[p].out - 1
        /\ \/ /\ s.round.status = "complete" /\ s.streak.phase = "done"
              /\ s.streak.leg = r.streak.leg /\ s.streak.picks = r.streak.picks
           \/ /\ s.round.status = r.round.status /\ s.streak.phase = "picking"
              /\ s.streak.leg = r.streak.leg + 1 /\ s.streak.open = NoSpots
    BY <2>1, <2>2, LegResolved DEF s
  <2>4. CASE s.streak.phase = "done"
    <3>1. /\ s.round.status = "complete" /\ s.streak.leg = r.streak.leg
          /\ s.streak.picks = r.streak.picks
      BY <2>3, <2>4
    <3>2. StreakInv(s)
      BY <2>1, <2>3, <2>4, <3>1 DEF StreakInv, Standing, LegsOver
    <3>3. QED
      BY <2>3, <2>4, <3>1, <3>2 DEF s
  <2>5. CASE s.streak.phase # "done"
    <3>1. /\ s.round.status = "live" /\ s.streak.phase = "picking"
          /\ s.streak.leg = r.streak.leg + 1 /\ s.streak.open = NoSpots
      BY <2>3, <2>5
    <3>2. s.streak.leg \in Nat \ {0} /\ s.streak.leg - 1 = r.streak.leg
          /\ s.streak.leg # r.streak.leg
      BY <2>1, <3>1
    <3>3. StreakInv(s)
      BY <2>3, <2>5, <3>1, <3>2 DEF StreakInv, Standing, LegsOver
    <3>4. QED
      BY <2>3, <3>1, <3>2, <3>3 DEF s
  <2>6. QED
    BY <2>4, <2>5
<1>4. r.streak.phase \in {"picking", "running"}
  BY DEF StreakInv
<1>5. \/ TickStreak(r, in) = r
      \/ r.streak.phase = "picking" /\ TickStreak(r, in) = RunLeg(r, in)
      \/ r.streak.phase = "running" /\ \E close : TickStreak(r, in) = ResolveLeg(r, close)
  BY <1>4 DEF TickStreak
<1> HIDE DEF Good
<1>6. Good(TickStreak(r, in))
  BY <1>1, <1>2, <1>3, <1>5
<1>7. QED
  BY <1>6 DEF Good

-----------------------------------------------------------------------------
(* A poll. *)

(* s is a later state of r: no answer of a leg or a card of theirs has changed. *)
PicksKept(r, s) ==
    \A p \in Human : /\ s.streak.leg = r.streak.leg => s.streak.picks[p] = r.streak.picks[p]
                     /\ s.cards[p] = r.cards[p]

LEMMA LiveTicked ==
  ASSUME NEW r, RoomInv(r), r.round.status = "live", NEW in
  PROVE  RoomInv(Tick(r, in)) /\ PicksKept(r, Tick(r, in))
<1>1. CASE r.round.format # "streak"
  <2> DEFINE s == Tick(r, in)
  <2> HIDE DEF s
  <2>1. /\ RoomShape(s) /\ s.streak = r.streak /\ s.cards = r.cards
        /\ s.round.format = r.round.format /\ s.round.status \in {"live", "complete"}
    BY <1>1, OtherTicked DEF RoomInv, s
  <2>2. QED
    BY <1>1, <2>1 DEF RoomInv, PicksKept, s
<1>2. CASE r.round.format = "streak"
  <2> DEFINE q == [r EXCEPT !.oracle = OpenedBy(@, in.spots)]
             s == TickStreak(q, in)
  <2>1. OnlyPrices(r, q)
    BY PricesRead, OracleKept DEF RoomInv, RoomShape
  <2>2. Tick(r, in) = s
    BY <1>2 DEF Tick
  <2> HIDE DEF q
  <2>3. RoomShape(q) /\ q.round = r.round /\ q.es = r.es /\ q.streak = r.streak
        /\ q.cards = r.cards /\ q.score = r.score
    BY <2>1 DEF OnlyPrices
  <2>4. StreakInv(q)
    BY <1>2, <2>3 DEF RoomInv, StreakInv, Standing, LegsOver
  <2> HIDE DEF s
  <2>5. /\ RoomShape(s) /\ s.cards = q.cards /\ s.round.format = "streak"
        /\ s.round.status \in {"live", "complete"} /\ StreakInv(s)
        /\ s.streak.phase = "picking" => s.streak.open = NoSpots
        /\ s.streak.leg = q.streak.leg =>
               \A p \in Human : s.streak.picks[p] = q.streak.picks[p]
    BY <1>2, <2>3, <2>4, StreakTicked DEF RoomInv, s
  <2>6. RoomInv(s) /\ PicksKept(r, s)
    BY <2>3, <2>5 DEF RoomInv, PicksKept
  <2>7. QED
    BY <2>2, <2>6
<1>3. QED
  BY <1>1, <1>2

LEMMA PollKeeps ==
  ASSUME RoomInv(Room), NEW in, round.status \in {"enrolling", "live"}
  PROVE  RoomInv(Ticked(in)) /\ PicksKept(Room, Ticked(in))
<1> DEFINE r == [Room EXCEPT !.oracle = Sampled(@, in.spots)]
<1>1. OnlyPrices(Room, r)
  BY PricesRead, OracleKept DEF RoomInv, RoomShape
<1>2. r.oracle = Sampled(oracle, in.spots)
  BY DEF Room
<1>3. round.status = "enrolling" => r.oracle = NoOracle
  BY <1>2, RoomFieldsAre DEF RoomInv, Sampled, NoOracle, Unset
<1> HIDE DEF r
<1>4. RoomShape(r) /\ r.round = round /\ r.es = entrants /\ r.streak = streak
      /\ r.cards = cards /\ r.score = score
  BY <1>1, RoomFieldsAre DEF OnlyPrices
<1>5. RoomInv(r) /\ PicksKept(Room, r)
  BY <1>3, <1>4, RoomFieldsAre DEF RoomInv, PicksKept, StreakInv, Standing, LegsOver
<1>6. CASE round.status = "live"
  <2>1. Ticked(in) = Tick(r, in)
    BY <1>6 DEF Ticked, r
  <2>2. RoomInv(Tick(r, in)) /\ PicksKept(r, Tick(r, in))
    BY <1>4, <1>5, <1>6, LiveTicked
  <2>3. QED
    BY <1>4, <2>1, <2>2, RoomFieldsAre DEF PicksKept
<1>7. CASE round.status = "enrolling"
  <2> DEFINE l == Locked(in)
  <2>1. Ticked(in) = IF HoldsTheLock(in.spots) THEN r ELSE Tick(l, in)
    BY <1>7 DEF Ticked, r
  <2> HIDE DEF l
  <2>2. /\ RoomShape(l) /\ l.streak = streak /\ l.round.format = round.format
        /\ l.round.status = "live" /\ \A p \in Human : l.cards[p] = cards[p]
        /\ round.format = "streak" => l.es = entrants /\ l.score = score
    BY LockTaken DEF l, RoomInv
  <2>3. RoomInv(l) /\ PicksKept(Room, l)
    BY <1>7, <2>2, RoomFieldsAre DEF RoomInv, PicksKept, StreakInv, Standing, LegsOver
  <2>4. RoomInv(Tick(l, in)) /\ PicksKept(l, Tick(l, in))
    BY <2>2, <2>3, LiveTicked
  <2>5. PicksKept(Room, Tick(l, in))
    BY <2>2, <2>4, RoomFieldsAre DEF PicksKept
  <2>6. QED
    BY <1>5, <2>1, <2>4, <2>5
<1>8. QED
  BY <1>6, <1>7

-----------------------------------------------------------------------------
(* The steps. *)

SpotInv == RoomInv(Room)

LEMMA SpotInit == SpotPitInit => SpotInv
<1> SUFFICES ASSUME SpotPitInit PROVE SpotInv
  OBVIOUS
<1>1. PICK format \in Formats, wanted \in Asset \cup {AnyAsset}, markets \in Boards,
           ended \in {0, -OracleWait} :
           round = [BootstrapRound(format, wanted, markets) EXCEPT !.deadline = ended]
  BY DEF SpotPitInit
<1>2. DOMAIN round = RoundFields /\ round.status = "enrolling"
  BY <1>1 DEF BootstrapRound, RoundFields
<1>3. PICK calls, pct :
           entrants = [p \in Entrant |-> IF p \in Actors THEN ChangeCallOf(MakeEntrant(Vault), calls[p], pct)
                                         ELSE MakeEntrant(Vault)]
  BY DEF SpotPitInit
<1>4. /\ DOMAIN MakeEntrant(Vault) = EntrantFields /\ MakeEntrant(Vault).out = StillIn
      /\ \A c, q : /\ DOMAIN ChangeCallOf(MakeEntrant(Vault), c, q) = EntrantFields
                   /\ ChangeCallOf(MakeEntrant(Vault), c, q).out = StillIn
  BY DEF MakeEntrant, ChangeCallOf, EntrantFields
<1>5. DOMAIN entrants = Entrant
      /\ \A p \in Entrant : DOMAIN entrants[p] = EntrantFields /\ entrants[p].out = StillIn
  BY <1>3, <1>4
<1>6. Alive(entrants) # {}
  BY <1>5, SpotPitAssumption DEF Alive, Entrant
<1>7. /\ oracle = NoOracle
      /\ streak = [leg |-> 1, phase |-> "picking", picks |-> NoPicks, open |-> NoSpots]
      /\ cards = [p \in Entrant |-> BlankCard] /\ score = [p \in Entrant |-> 0]
  BY DEF SpotPitInit
<1>8. /\ DOMAIN streak = StreakFields /\ DOMAIN streak.picks = Entrant /\ streak.leg = 1
      /\ streak.phase = "picking" /\ streak.open = NoSpots
  BY <1>7 DEF StreakFields, NoPicks
<1>9. DOMAIN oracle = OracleFields
  BY <1>7 DEF NoOracle, OracleFields
<1>10. StreakInv(Room)
  BY <1>5, <1>6, <1>7, <1>8, RoomFieldsAre DEF StreakInv, Standing, LegsOver
<1>11. RoomShape(Room)
  BY <1>2, <1>5, <1>7, <1>8, <1>9, RoomFieldsAre DEF RoomShape
<1>12. QED
  BY <1>2, <1>7, <1>8, <1>10, <1>11, RoomFieldsAre DEF SpotInv, RoomInv

(* What a step may do to the answers. *)
AnswersChange ==
    \A p \in Human :
        /\ streak'.leg = streak.leg /\ streak'.picks[p] # streak.picks[p] =>
               ~SomeKnown(streak.open) /\ (round.status = "enrolling" \/ now < round.deadline)
        /\ cards'[p] # cards[p] => ~SomeKnown(oracle.open) /\ round.status = "enrolling"

LEMMA PicksAreMade ==
  ASSUME SpotInv, NEW p \in Actors, NEW picks, NEW locks, MakePicks(p, picks, locks)
  PROVE  SpotInv' /\ AnswersChange
<1>1. round.status = "enrolling" /\ oracle = NoOracle
  BY RoomFieldsAre DEF SpotInv, RoomInv, MakePicks
<1>2. DOMAIN cards = Entrant
  BY RoomFieldsAre DEF SpotInv, RoomInv, RoomShape
<1>3. /\ round' = round /\ entrants' = entrants /\ oracle' = oracle /\ streak' = streak
      /\ score' = score /\ DOMAIN cards' = Entrant
  BY <1>2 DEF MakePicks
<1>4. /\ DOMAIN Room' = RoomFields
      /\ Room'.round = round' /\ Room'.es = entrants' /\ Room'.oracle = oracle'
      /\ Room'.streak = streak' /\ Room'.cards = cards' /\ Room'.score = score'
  BY DEF Room, RoomFields
<1>5. SpotInv'
  BY <1>3, <1>4, RoomFieldsAre DEF SpotInv, RoomInv, RoomShape, StreakInv, Standing, LegsOver
<1>6. AnswersChange
  BY <1>1, <1>3, Blind DEF AnswersChange, NoOracle
<1>7. QED
  BY <1>5, <1>6

LEMMA LegIsPicked ==
  ASSUME SpotInv, NEW p \in Human, NEW option, PickLeg(p, option)
  PROVE  SpotInv' /\ AnswersChange
<1>1. /\ DOMAIN streak = StreakFields /\ DOMAIN streak.picks = Entrant
  BY RoomFieldsAre DEF SpotInv, RoomInv, RoomShape
<1>2. streak' = [streak EXCEPT !.picks[p] = option]
  BY DEF PickLeg
<1>3. /\ round' = round /\ entrants' = entrants /\ oracle' = oracle /\ cards' = cards
      /\ score' = score
  BY DEF PickLeg
<1>4. /\ DOMAIN streak' = StreakFields /\ DOMAIN streak'.picks = Entrant
      /\ streak'.leg = streak.leg /\ streak'.phase = streak.phase /\ streak'.open = streak.open
  BY <1>1, <1>2 DEF StreakFields
<1>5. /\ DOMAIN Room' = RoomFields
      /\ Room'.round = round' /\ Room'.es = entrants' /\ Room'.oracle = oracle'
      /\ Room'.streak = streak' /\ Room'.cards = cards' /\ Room'.score = score'
  BY DEF Room, RoomFields
<1>6. SpotInv'
  BY <1>3, <1>4, <1>5, RoomFieldsAre DEF SpotInv, RoomInv, RoomShape, StreakInv, Standing, LegsOver
<1>7. streak.phase = "picking" /\ (round.status = "enrolling" \/ now < round.deadline)
  BY RoomFieldsAre DEF SpotInv, RoomInv, PickLeg, CanPick
<1>8. ~SomeKnown(streak.open)
  BY <1>7, RoomFieldsAre, Blind DEF SpotInv, RoomInv
<1>9. QED
  BY <1>3, <1>6, <1>7, <1>8 DEF AnswersChange

(* Steps that touch neither answers nor standings. *)
LEMMA RestIsKept ==
  ASSUME SpotInv, UNCHANGED <<round, oracle, streak, cards, score>>,
         round.format = "streak" => UNCHANGED entrants
  PROVE  SpotInv' /\ AnswersChange
<1>1. /\ DOMAIN Room' = RoomFields
      /\ Room'.round = round' /\ Room'.es = entrants' /\ Room'.oracle = oracle'
      /\ Room'.streak = streak' /\ Room'.cards = cards' /\ Room'.score = score'
  BY DEF Room, RoomFields
<1>2. SpotInv'
  BY <1>1, RoomFieldsAre DEF SpotInv, RoomInv, RoomShape, StreakInv, Standing, LegsOver
<1>3. QED
  BY <1>2 DEF AnswersChange

LEMMA PollIsTaken ==
  ASSUME SpotInv, NEW in, Poll(in)
  PROVE  SpotInv' /\ AnswersChange
<1> DEFINE r == Ticked(in)
<1>1. /\ round' = r.round /\ entrants' = r.es /\ oracle' = r.oracle /\ streak' = r.streak
      /\ cards' = r.cards /\ score' = r.score
  BY DEF Poll
<1>2. round.status \in {"enrolling", "live"}
  BY DEF Poll
<1>3. RoomInv(r) /\ PicksKept(Room, r)
  BY <1>2, PollKeeps DEF SpotInv
<1> HIDE DEF r
<1>4. /\ DOMAIN Room' = RoomFields
      /\ Room'.round = r.round /\ Room'.es = r.es /\ Room'.oracle = r.oracle
      /\ Room'.streak = r.streak /\ Room'.cards = r.cards /\ Room'.score = r.score
  BY <1>1 DEF Room, RoomFields
<1>5. RoomInv(Room')
  BY <1>3, <1>4 DEF RoomInv, RoomShape, StreakInv, Standing, LegsOver
<1>6. SpotInv'
  BY <1>5 DEF SpotInv
<1>7. AnswersChange
  BY <1>1, <1>3, RoomFieldsAre DEF PicksKept, AnswersChange
<1>8. QED
  BY <1>6, <1>7

LEMMA SpotStep == SpotInv /\ [SpotPitNext]_spotPitVars => SpotInv' /\ AnswersChange
<1> SUFFICES ASSUME SpotInv, [SpotPitNext]_spotPitVars PROVE SpotInv' /\ AnswersChange
  OBVIOUS
<1>1. ASSUME NEW p \in Actors, NEW picks \in CardPicks, NEW locks \in Locks,
             MakePicks(p, picks, locks)
      PROVE  SpotInv' /\ AnswersChange
  BY <1>1, PicksAreMade
<1>2. ASSUME NEW p \in Human, NEW option, PickLeg(p, option) PROVE SpotInv' /\ AnswersChange
  BY <1>2, LegIsPicked
<1>3. ASSUME NEW p, NEW action, NEW side, NEW usdc, NEW coinbase, NEW kraken,
             TradePeeks(p, action, side, usdc, coinbase, kraken)
      PROVE  SpotInv' /\ AnswersChange
  BY <1>3, RestIsKept DEF TradePeeks
<1>4. ASSUME NEW t, TradeFills(t) PROVE SpotInv' /\ AnswersChange
  <2>1. round.format = "streak" => entrants' = entrants
    BY <1>4 DEF TradeFills, Fillable, TradingOpen, Playing
  <2>2. QED
    BY <1>4, <2>1, RestIsKept DEF TradeFills
<1>5. ASSUME NEW in, Poll(in) PROVE SpotInv' /\ AnswersChange
  BY <1>5, PollIsTaken
<1>6. ASSUME PassTime PROVE SpotInv' /\ AnswersChange
  BY <1>6, RestIsKept DEF PassTime
<1>7. ASSUME UNCHANGED spotPitVars PROVE SpotInv' /\ AnswersChange
  BY <1>7, RestIsKept DEF spotPitVars
<1>8. QED
  BY <1>1, <1>2, <1>3, <1>4, <1>5, <1>6, <1>7 DEF SpotPitNext

(* The keeper's room keeps its invariant on every poll, whatever prices the poll misses. *)
THEOREM SpotInvariant == SpotPitSpec => []SpotInv
<1>1. SpotPitInit => SpotInv
  BY SpotInit
<1>2. SpotInv /\ [SpotPitNext]_spotPitVars => SpotInv'
  BY SpotStep
<1>3. QED
  BY <1>1, <1>2, PTL DEF SpotPitSpec

(* runLeg and resolveLeg: however late the legs are opened and judged, somebody is still in, and
   every standing counts the legs survived. *)
THEOREM StandingsAlwaysTrue == SpotPitSpec => []StreakStandings
<1>1. SpotInv => StreakStandings
  BY RoomFieldsAre DEF SpotInv, RoomInv, StreakInv, Standing, LegsOver, StreakStandings, LegsResolved
<1>2. QED
  BY <1>1, SpotInvariant, PTL

(* The picks route against the keeper: no answer of a player changes once its window has
   closed, nor after the first opening price is known. *)
THEOREM PicksAlwaysLockOnTime == SpotPitSpec => PicksLockOnTime
<1>1. SpotInv /\ [SpotPitNext]_spotPitVars => [AnswersChange]_spotPitVars
  BY SpotStep
<1>2. QED
  BY <1>1, SpotInvariant, PTL DEF SpotPitSpec, PicksLockOnTime, AnswersChange

-----------------------------------------------------------------------------
(* Vaults.  Whatever is bought and sold, cents and shares stay whole numbers, and who is on no
   side holds no shares. *)

VaultOk(e) ==
    /\ DOMAIN e = EntrantFields
    /\ e.cash \in Int /\ e.shares \in Nat /\ e.pct \in Int
    /\ e.side \in Side \cup {NoSide} /\ e.call \in Side \cup {NoSide}
    /\ e.side = NoSide => e.shares = 0

(* Only people's trades wait for the lock, so the vaults of bots do not matter here. *)
VaultsOk(es) == DOMAIN es = Entrant /\ \A p \in Human : VaultOk(es[p])

LEMMA MaxIs == \A a, b \in Int : Max({a, b}) = IF a >= b THEN a ELSE b
<1> SUFFICES ASSUME NEW a \in Int, NEW b \in Int PROVE Max({a, b}) = IF a >= b THEN a ELSE b
  OBVIOUS
<1>1. \E x \in {a, b} : \A y \in {a, b} : x >= y
  BY SMT
<1>2. QED
  BY <1>1 DEF Max

LEMMA MinIs == \A a, b \in Int : Min({a, b}) = IF a <= b THEN a ELSE b
<1> SUFFICES ASSUME NEW a \in Int, NEW b \in Int PROVE Min({a, b}) = IF a <= b THEN a ELSE b
  OBVIOUS
<1>1. \E x \in {a, b} : \A y \in {a, b} : x <= y
  BY SMT
<1>2. QED
  BY <1>1 DEF Min

LEMMA SharesAreCounted == \A x \in Nat, y \in Nat \ {0} : x \div y \in Nat
OBVIOUS

LEMMA CentsAreWhole == \A x, y \in Int : x * y \in Int
OBVIOUS

LEMMA SidesDiffer == NoSide \notin Side
BY DEF NoSide, Side

LEMMA SideCentsAreCents ==
  ASSUME NEW side, NEW yes \in Int
  PROVE  SideCents(side, yes) \in Int
BY DEF SideCents

(* A sale: the position becomes cash. *)
LEMMA LiquidateIs ==
  ASSUME NEW e, VaultOk(e), NEW yes \in Int, NEW spread \in Int
  PROVE  LET f == Liquidate(e, yes, spread) IN
         /\ VaultOk(f) /\ f.out = e.out /\ SaleValue(e, yes, spread) \in Int
         /\ Holds(e) => /\ f.cash = e.cash + SaleValue(e, yes, spread)
                        /\ f.shares = 0 /\ f.side = NoSide
         /\ ~Holds(e) => f = e
<1> DEFINE worth == SaleValue(e, yes, spread)
<1>1. worth \in Int
  <2>1. SideCents(e.side, yes) - spread \in Int /\ 0 \in Int
    BY SideCentsAreCents
  <2>2. Max({0, SideCents(e.side, yes) - spread}) \in Int
    BY <2>1, MaxIs
  <2>3. e.shares \in Int
    BY DEF VaultOk
  <2>4. QED
    BY <2>2, <2>3, CentsAreWhole DEF SaleValue
<1> DEFINE f == [e EXCEPT !.cash = @ + worth, !.shares = 0, !.side = NoSide]
<1> HIDE DEF worth
<1>2. /\ VaultOk(f) /\ f.out = e.out /\ f.cash = e.cash + worth /\ f.shares = 0
      /\ f.side = NoSide
  BY <1>1 DEF VaultOk, EntrantFields
<1>3. Liquidate(e, yes, spread) = IF Holds(e) THEN f ELSE e
  BY DEF Liquidate, Sold, worth
<1> HIDE DEF f
<1>4. QED
  BY <1>1, <1>2, <1>3 DEF worth

(* A purchase: refused, or n shares at a price, after the sale of a position on the other side. *)
FlatFor(e, side, yes, spread) == IF HoldsOther(e, side) THEN Liquidate(e, yes, spread) ELSE e

Purchase(before, f, side, at) ==
    \E n \in Nat : /\ f.cash = before.cash - n * at
                   /\ f.shares = before.shares + n /\ f.side = side

LEMMA BuySharesIs ==
  ASSUME NEW e, VaultOk(e), NEW side \in Side, NEW usdc \in Int, NEW price \in Int,
         NEW yes \in Int, NEW spread \in Int
  PROVE  LET f == BuyShares(e, side, usdc, price, yes, spread) IN
         /\ VaultOk(f) /\ f.out = e.out
         /\ f = e \/ Purchase(FlatFor(e, side, yes, spread), f, side, Max({1, Min({99, price})}))
<1> DEFINE f == BuyShares(e, side, usdc, price, yes, spread)
           flat == FlatFor(e, side, yes, spread)
           at == Max({1, Min({99, price})})
           n == Min({usdc, flat.cash}) \div at
<1>1. CASE BuyRefused(e, usdc, AvailableFor(e, side, yes, spread))
  <2>1. f = e
    BY <1>1 DEF BuyShares
  <2> HIDE DEF f, flat, at
  <2>2. QED
    BY <2>1 DEF f, flat, at
<1>2. CASE ~BuyRefused(e, usdc, AvailableFor(e, side, yes, spread))
  <2>1. at \in Nat \ {0}
    <3>1. Min({99, price}) \in Int
      BY MinIs
    <3>2. 1 \in Int /\ at = IF 1 >= Min({99, price}) THEN 1 ELSE Min({99, price})
      BY <3>1, MaxIs
    <3>3. QED
      BY <3>1, <3>2
  <2>2. VaultOk(flat) /\ flat.out = e.out
    BY LiquidateIs DEF FlatFor
  <2>3. flat.cash = AvailableFor(e, side, yes, spread)
    <3>1. e.cash + 0 = e.cash
      BY DEF VaultOk
    <3>2. QED
      BY <3>1, LiquidateIs DEF FlatFor, AvailableFor, HoldsOther
  <2>4. usdc > 0 /\ usdc <= flat.cash
    <3>1. ~(usdc <= 0) /\ ~(usdc > AvailableFor(e, side, yes, spread))
      BY <1>2 DEF BuyRefused
    <3>2. flat.cash \in Int
      BY <2>2 DEF VaultOk
    <3> HIDE DEF flat
    <3>3. QED
      BY <2>3, <3>1, <3>2
  <2>5. n \in Nat
    <3>1. flat.cash \in Int
      BY <2>2 DEF VaultOk
    <3> HIDE DEF flat, at
    <3>2. Min({usdc, flat.cash}) = usdc
      BY <2>4, <3>1, MinIs
    <3>3. QED
      BY <2>1, <2>4, <3>2, SharesAreCounted
  <2>6. f = [flat EXCEPT !.cash = @ - n * at, !.shares = @ + n, !.side = side]
    BY <1>2 DEF BuyShares, Bought, FlatFor
  <2>7. n * at \in Int /\ side # NoSide
    BY <2>1, <2>5, CentsAreWhole, SidesDiffer
  <2> HIDE DEF f, flat, at, n
  <2>8. /\ VaultOk(f) /\ f.out = flat.out /\ f.cash = flat.cash - n * at
        /\ f.shares = flat.shares + n /\ f.side = side
    BY <2>2, <2>5, <2>6, <2>7 DEF VaultOk, EntrantFields
  <2>9. Purchase(flat, f, side, at)
    BY <2>5, <2>8 DEF Purchase
  <2>10. QED
    BY <2>2, <2>8, <2>9 DEF f, flat, at
<1>3. QED
  BY <1>1, <1>2

(* The opening call of a player is a purchase without a spread. *)
LEMMA CallsPlaced ==
  ASSUME NEW es, VaultsOk(es), NEW yes \in Int
  PROVE  VaultsOk(PlaceOpeningCalls(es, yes))
<1> SUFFICES ASSUME NEW p \in Human PROVE VaultOk(PlaceCall(es[p], p \in Bot, yes))
  BY PeopleAreNotBots DEF PlaceOpeningCalls, VaultsOk
<1> DEFINE e == es[p]
           open == [e EXCEPT !.call = NoSide]
           usdc == (e.cash * e.pct) \div 100
<1>1. VaultOk(e)
  BY DEF VaultsOk
<1> HIDE DEF e
<1>2. VaultOk(open)
  BY <1>1 DEF VaultOk, EntrantFields
<1>3. usdc \in Int
  <2>1. e.cash * e.pct \in Int
    BY <1>1, CentsAreWhole DEF VaultOk
  <2>2. QED
    BY <2>1
<1>4. e.call # NoSide => e.call \in Side /\ SideCents(e.call, yes) \in Int
  BY <1>1, SideCentsAreCents DEF VaultOk
<1>5. CASE e.call = NoSide \/ p \in Bot \/ e.shares > 0 \/ e.cash <= 0
  <2>1. PlaceCall(e, p \in Bot, yes) = open
    BY <1>5 DEF PlaceCall
  <2>2. QED
    BY <1>2, <2>1 DEF e
<1>6. CASE ~(e.call = NoSide \/ p \in Bot \/ e.shares > 0 \/ e.cash <= 0)
  <2> DEFINE side == e.call
             cents == SideCents(side, yes)
  <2>1. PlaceCall(e, p \in Bot, yes) = BuyShares(open, side, usdc, cents, yes, 0)
    BY <1>6 DEF PlaceCall
  <2>2. side \in Side /\ cents \in Int /\ 0 \in Int
    BY <1>4, <1>6
  <2> HIDE DEF open, usdc, side, cents
  <2>3. VaultOk(BuyShares(open, side, usdc, cents, yes, 0))
    BY <1>2, <1>3, <2>2, BuySharesIs
  <2>4. QED
    BY <2>1, <2>3 DEF e
<1>7. QED
  BY <1>5, <1>6

(* The bell redeems every position and puts players out. *)
LEMMA VaultsSettled ==
  ASSUME NEW es, VaultsOk(es), NEW yes \in Int, NEW number
  PROVE  VaultsOk(SettleVaults(es, yes, number))
<1>1. VaultsOk(Redeemed(es, yes))
  BY LiquidateIs, PeopleAreNotBots DEF Redeemed, VaultsOk
<1>2. ASSUME NEW fs, VaultsOk(fs) PROVE VaultsOk(CutLosers(fs, number))
  <2>1. ASSUME NEW e, VaultOk(e) PROVE VaultOk([e EXCEPT !.out = number])
    BY <2>1 DEF VaultOk, EntrantFields
  <2>2. DOMAIN CutLosers(fs, number) = Entrant
    BY <1>2 DEF CutLosers, VaultsOk
  <2>3. \A p \in Entrant : \/ CutLosers(fs, number)[p] = fs[p]
                           \/ CutLosers(fs, number)[p] = [fs[p] EXCEPT !.out = number]
    BY <1>2 DEF CutLosers, VaultsOk
  <2>4. QED
    BY <1>2, <2>1, <2>2, <2>3, PeopleAreNotBots DEF VaultsOk
<1>3. \A f : Once(f) = f
  BY DEF Once
<1>4. QED
  BY <1>1, <1>2, <1>3 DEF SettleVaults

LEMMA VaultsCarried ==
  ASSUME NEW es, VaultsOk(es)
  PROVE  VaultsOk(CarryOver(es))
<1>1. ASSUME NEW e, VaultOk(e)
      PROVE  VaultOk([e EXCEPT !.shares = 0, !.side = NoSide, !.call = NoSide])
  BY <1>1 DEF VaultOk, EntrantFields
<1>2. QED
  BY <1>1, PeopleAreNotBots DEF CarryOver, VaultsOk

-----------------------------------------------------------------------------
(* Prices.  Every price of a room is one that an exchange gave, so that a share of UP is always
   worth from 2 to 98 cents while people trade. *)

PricesOf(a) == {Unread} \cup {quote[a] : quote \in Quotes}
SpotsOk(spots) == \A a \in Asset : spots[a] \in PricesOf(a)

LEMMA PricesAreCounted ==
  ASSUME NEW a \in Asset, NEW x \in PricesOf(a)
  PROVE  x \in Nat
BY SpotPitAssumption DEF PricesOf, Unread

LEMMA MergedOk ==
  ASSUME NEW old, SpotsOk(old), NEW spots, SpotsOk(spots)
  PROVE  SpotsOk(Merged(old, spots))
BY DEF SpotsOk, Merged

LEMMA PolledOk ==
  /\ SpotsOk(NoSpots)
  /\ \A spots \in SpotPrices : SpotsOk(spots)
<1>1. SpotsOk(NoSpots) /\ \A quote \in Quotes : SpotsOk(quote)
  BY DEF SpotsOk, NoSpots, PricesOf
<1>2. ASSUME NEW kept \in Quotes, NEW kraken \in Quotes, NEW coinbase \in Quotes
      PROVE  SpotsOk(Merged(Merged(kept, kraken), coinbase))
  BY <1>1, MergedOk
<1>3. QED
  BY <1>1, <1>2 DEF SpotPrices

LEMMA UpCentsAreChances ==
  ASSUME NEW a \in Asset, NEW open \in PricesOf(a), NEW spot \in PricesOf(a), NEW left
  PROVE  UpCents(open, spot, left) \in 2..98
<1>1. CASE ~Known(open) \/ ~Known(spot)
  BY <1>1 DEF UpCents
<1>2. CASE Known(open) /\ Known(spot) /\ left <= 0
  <2>1. Sign(spot - open) \in {-1, 0, 1}
    BY DEF Sign
  <2>2. UpCents(open, spot, left) = 50 + 48 * Sign(spot - open)
    BY <1>2 DEF UpCents
  <2>3. QED
    BY <2>1, <2>2
<1>3. CASE Known(open) /\ Known(spot) /\ ~(left <= 0)
  <2>1. PICK q1 \in Quotes, q2 \in Quotes : open = q1[a] /\ spot = q2[a]
    BY <1>3 DEF PricesOf, Known, Unread
  <2>2. spot - open \in DOMAIN Chance
    BY <1>3, <2>1, SpotPitAssumption
  <2>3. QED
    BY <1>3, <2>2, PicksAssumption DEF UpCents
<1>4. QED
  BY <1>1, <1>2, <1>3

LEMMA ResolvedCentsAreCents == \A open, close : ResolvedCents(open, close) \in Int
<1> SUFFICES ASSUME NEW open, NEW close PROVE ResolvedCents(open, close) \in Int
  OBVIOUS
<1>1. Sign(close - open) \in {-1, 0, 1}
  BY DEF Sign
<1>2. QED
  BY <1>1 DEF ResolvedCents

-----------------------------------------------------------------------------
(* Every tick keeps vaults and prices. *)

OracleOk(o) == DOMAIN o = OracleFields /\ SpotsOk(o.open) /\ SpotsOk(o.last)

TradeRoom(r) ==
    /\ DOMAIN r = RoomFields /\ DOMAIN r.round = RoundFields
    /\ r.round.asset \in Asset
    /\ OracleOk(r.oracle)
    /\ VaultsOk(r.es)

PollOk(in) == SpotsOk(in.spots) /\ in.asset \in Asset

LEMMA OraclesOk ==
  ASSUME NEW spots, SpotsOk(spots), NEW o, OracleOk(o)
  PROVE  /\ OracleOk(OpenOracle(spots)) /\ OracleOk(NoOracle)
         /\ OracleOk(Sampled(o, spots)) /\ OracleOk(OpenedBy(o, spots))
<1>1. /\ DOMAIN NoOracle = OracleFields
      /\ NoOracle.open = NoSpots /\ NoOracle.last = NoSpots
  BY DEF NoOracle, OracleFields
<1>2. OracleOk(NoOracle)
  BY <1>1, PolledOk DEF OracleOk
<1>3. /\ DOMAIN OpenOracle(spots) = OracleFields
      /\ OpenOracle(spots).open = spots /\ OpenOracle(spots).last = spots
  BY <1>1 DEF OpenOracle, OracleFields
<1>4. OracleOk(OpenOracle(spots))
  BY <1>3 DEF OracleOk
<1> DEFINE s == [o EXCEPT !.last = Merged(o.last, spots), !.lastAt = now]
<1>5. DOMAIN s = OracleFields /\ s.open = o.open /\ s.last = Merged(o.last, spots)
  BY DEF OracleOk, OracleFields
<1>6. OracleOk(s)
  BY <1>5, MergedOk DEF OracleOk
<1>7. Sampled(o, spots) \in {o, s}
  BY DEF Sampled, OracleOk, OracleFields
<1>8. QED
  BY <1>2, <1>4, <1>6, <1>7 DEF OpenedBy

LEMMA OracleReplaced ==
  ASSUME NEW r, TradeRoom(r), NEW o, OracleOk(o)
  PROVE  TradeRoom([r EXCEPT !.oracle = o])
BY DEF TradeRoom, RoomFields

LEMMA VaultsLocked ==
  ASSUME TradeRoom(Room), NEW in, PollOk(in)
  PROVE  TradeRoom(Locked(in))
<1> DEFINE round2 == [round EXCEPT !.status = "live",
                         !.deadline = now + IF round.format = "streak" THEN PickMs ELSE Live]
           oracle2 == IF round.format = "royale"
                      THEN IF Known(in.spots[round.asset]) THEN OpenOracle(in.spots) ELSE oracle
                      ELSE OpenedBy(oracle, in.spots)
           es2 == IF round.format = "royale" THEN PlaceOpeningCalls(entrants, 50) ELSE entrants
           cards2 == IF round.format = "royale" THEN cards
                     ELSE [p \in Entrant |-> IF p \in Bot /\ round.format = "predictions"
                                             THEN WithPicks(BlankCard, in.luck[p]) ELSE cards[p]]
<1>1. Locked(in) = [round |-> round2, es |-> es2, oracle |-> oracle2, streak |-> streak,
                    cards |-> cards2, score |-> score, botAt |-> botAt]
  BY DEF Locked, Room
<1>2. DOMAIN round = RoundFields /\ round.asset \in Asset /\ OracleOk(oracle) /\ VaultsOk(entrants)
  BY RoomFieldsAre DEF TradeRoom
<1>3. DOMAIN round2 = RoundFields /\ round2.asset \in Asset
  BY <1>2 DEF RoundFields
<1>4. OracleOk(oracle2)
  BY <1>2, OraclesOk DEF PollOk
<1>5. VaultsOk(es2)
  BY <1>2, CallsPlaced
<1> HIDE DEF round2, oracle2, es2, cards2
<1>6. /\ Locked(in).round = round2 /\ Locked(in).es = es2 /\ Locked(in).oracle = oracle2
      /\ DOMAIN Locked(in) = RoomFields
  BY <1>1 DEF RoomFields
<1>7. QED
  BY <1>3, <1>4, <1>5, <1>6 DEF TradeRoom

(* A streak changes who is in, its clock and its own record. *)
LEMMA StreakKeepsVaults ==
  ASSUME NEW r, TradeRoom(r), NEW in
  PROVE  TradeRoom(TickStreak(r, in))
<1>1. TradeRoom(RunLeg(r, in))
  <2> DEFINE Ran(a, b, c, d) == [r EXCEPT !.streak.phase = a, !.streak.open = b,
                                          !.streak.picks = c, !.round.deadline = d]
  <2>1. ASSUME NEW a, NEW b, NEW c, NEW d PROVE TradeRoom(Ran(a, b, c, d))
    <3> DEFINE s == Ran(a, b, c, d)
    <3>1. DOMAIN s = RoomFields /\ s.es = r.es /\ s.oracle = r.oracle
      BY DEF TradeRoom, RoomFields
    <3>2. DOMAIN s.round = RoundFields /\ s.round.asset = r.round.asset
      BY DEF TradeRoom, RoomFields, RoundFields
    <3> HIDE DEF s
    <3>3. TradeRoom(s)
      BY <3>1, <3>2 DEF TradeRoom
    <3>4. QED
      BY <3>3 DEF s
  <2>2. \E a, b, c, d : RunLeg(r, in) = Ran(a, b, c, d)
    BY DEF RunLeg
  <2> HIDE DEF Ran
  <2>3. QED
    BY <2>1, <2>2
<1>2. ASSUME NEW close PROVE TradeRoom(ResolveLeg(r, close))
  <2> DEFINE leg == r.streak.leg
             out == OutOnLeg(r, AnswersFor(Deck[leg], r.streak.open, close))
             left == Alive(r.es) \ out
             es2 == [p \in Entrant |-> IF p \in out THEN [r.es[p] EXCEPT !.out = leg] ELSE r.es[p]]
             score2 == [p \in Entrant |-> IF p \in left THEN leg ELSE r.score[p]]
             judged == [r EXCEPT !.es = es2, !.score = score2]
  <2>1. VaultsOk(es2)
    <3>1. ASSUME NEW e, VaultOk(e), NEW x PROVE VaultOk([e EXCEPT !.out = x])
      BY <3>1 DEF VaultOk, EntrantFields
    <3> HIDE DEF out, leg
    <3>2. QED
      BY <3>1, PeopleAreNotBots DEF TradeRoom, VaultsOk
  <2>2. judged = [r EXCEPT
                    !.es = [p \in Entrant |-> IF p \in out THEN [@[p] EXCEPT !.out = leg] ELSE @[p]],
                    !.score = [p \in Entrant |-> IF p \in left THEN leg ELSE @[p]]]
    BY DEF TradeRoom, RoomFields
  <2> HIDE DEF es2, score2
  <2>3. TradeRoom(judged)
    BY <2>1 DEF TradeRoom, RoomFields
  <2> DEFINE Over(c) == [judged EXCEPT !.round.status = "complete", !.streak.phase = c]
             Again(c, d) == [judged EXCEPT !.round.deadline = c, !.streak = d]
  <2>4. ResolveLeg(r, close) = Over("done") \/ \E c, d : ResolveLeg(r, close) = Again(c, d)
    <3>1. ResolveLeg(r, close)
            = IF Cardinality(left) <= 1 \/ left \cap Human = {} \/ leg >= MaxLegs
              THEN Over("done")
              ELSE Again(now + PickMs, [leg |-> leg + 1, phase |-> "picking", picks |-> NoPicks,
                                        open |-> NoSpots])
      BY <2>2 DEF ResolveLeg
    <3> HIDE DEF Over, Again
    <3>2. QED
      BY <3>1
  <2> HIDE DEF judged
  <2>5. ASSUME NEW c, NEW d PROVE TradeRoom(Again(c, d)) /\ TradeRoom(Over(c))
    <3>1. TradeRoom(Again(c, d))
      BY <2>3 DEF TradeRoom, RoomFields, RoundFields
    <3>2. TradeRoom(Over(c))
      BY <2>3 DEF TradeRoom, RoomFields, RoundFields
    <3>3. QED
      BY <3>1, <3>2
  <2> HIDE DEF Over, Again
  <2>6. QED
    BY <2>4, <2>5
<1>3. \/ TickStreak(r, in) = r
      \/ TickStreak(r, in) = RunLeg(r, in)
      \/ \E close : TickStreak(r, in) = ResolveLeg(r, close)
  BY DEF TickStreak
<1>4. QED
  BY <1>1, <1>2, <1>3

LEMMA PredictionsKeepVaults ==
  ASSUME NEW r, TradeRoom(r), NEW in
  PROVE  TradeRoom(TickPredictions(r, in))
<1> DEFINE live == IF SomeKnown(r.oracle.open)
                   THEN [r EXCEPT !.score = Scores(r, Merged(r.oracle.last, in.spots))] ELSE r
           Closed(c, x) == [live EXCEPT !.oracle.close = c, !.score = x, !.round.status = "complete"]
<1>1. TradeRoom(live)
  BY DEF TradeRoom, RoomFields
<1>2. TickPredictions(r, in) = live \/ \E c, x : TickPredictions(r, in) = Closed(c, x)
  BY DEF TickPredictions
<1> HIDE DEF live
<1>3. ASSUME NEW c, NEW x PROVE TradeRoom(Closed(c, x))
  <2> DEFINE s == Closed(c, x)
  <2>1. DOMAIN s = RoomFields /\ s.es = live.es
    BY <1>1 DEF TradeRoom, RoomFields
  <2>2. DOMAIN s.round = RoundFields /\ s.round.asset = live.round.asset
    BY <1>1 DEF TradeRoom, RoomFields, RoundFields
  <2>3. /\ DOMAIN s.oracle = OracleFields
        /\ s.oracle.open = live.oracle.open /\ s.oracle.last = live.oracle.last
    BY <1>1 DEF TradeRoom, RoomFields, OracleOk, OracleFields
  <2> HIDE DEF s
  <2>4. TradeRoom(s)
    BY <1>1, <2>1, <2>2, <2>3 DEF TradeRoom, OracleOk
  <2>5. QED
    BY <2>4 DEF s
<1> HIDE DEF Closed
<1>4. QED
  BY <1>1, <1>2, <1>3

LEMMA YesIsAChance ==
  ASSUME NEW a \in Asset, round.asset = a, NEW o, OracleOk(o), NEW spots, spots[a] \in PricesOf(a)
  PROVE  YesOf(o, spots) \in 2..98
<1> DEFINE spot == IF Known(spots[a]) THEN spots[a] ELSE o.last[a]
<1>1. o.open[a] \in PricesOf(a) /\ spot \in PricesOf(a)
  BY DEF OracleOk, SpotsOk
<1>2. YesOf(o, spots) = UpCents(o.open[a], spot, round.deadline - now)
  BY DEF YesOf
<1> HIDE DEF spot
<1>3. QED
  BY <1>1, <1>2, UpCentsAreChances

(* A direction round: bots trade for themselves, the bell settles, the next round begins flat. *)
LEMMA DirectionKeepsVaults ==
  ASSUME NEW r, TradeRoom(r), NEW in, PollOk(in)
  PROVE  TradeRoom(TickDirection(r, in))
<1> DEFINE a == r.round.asset
           opened == IF ~Known(r.oracle.open[a]) /\ Known(in.spots[a])
                     THEN [r EXCEPT !.oracle = OpenOracle(in.spots)] ELSE r
           moved == BotsMoved(opened, in)
           open == moved.oracle.open[a]
           close == DirectionClose(a, Known(open), in.spots, in.candles, PrevSample, now,
                                   r.round.deadline)
           es2 == SettleVaults(moved.es, ResolvedCents(open, close.spots[a]), r.round.number)
           done == [moved EXCEPT !.oracle.close = close.spots, !.es = es2]
<1>1. TradeRoom(opened)
  <2>1. OracleOk(OpenOracle(in.spots))
    BY OraclesOk DEF TradeRoom, PollOk
  <2>2. TradeRoom([r EXCEPT !.oracle = OpenOracle(in.spots)])
    BY <2>1, OracleReplaced
  <2>3. QED
    BY <2>2
<1> HIDE DEF opened
<1>2. TradeRoom(moved)
  <2> DEFINE yes == YesOf(opened.oracle, in.spots)
             es3 == [p \in Entrant |-> IF p \in Bot THEN BotMove(opened.es[p], in.moves[p], yes)
                                       ELSE opened.es[p]]
  <2>1. VaultsOk(es3)
    BY <1>1, PeopleAreNotBots DEF TradeRoom, VaultsOk
  <2>2. moved \in {opened, [opened EXCEPT !.botAt = now, !.es = es3]}
    BY <1>1 DEF BotsMoved, TradeRoom, RoomFields
  <2> HIDE DEF es3, moved
  <2>3. TradeRoom([opened EXCEPT !.botAt = now, !.es = es3])
    BY <1>1, <2>1 DEF TradeRoom, RoomFields
  <2>4. QED
    BY <1>1, <2>2, <2>3
<1>3. /\ moved.round = r.round
      /\ TickDirection(r, in) =
           IF now < r.round.deadline \/ ~close.ok THEN moved
           ELSE IF IsFinal(done.es, r.round.number, RoundLimit)
           THEN [done EXCEPT !.round.status = "complete"] ELSE NextRound(done, in)
  <2> DEFINE raw == [moved EXCEPT !.oracle.close = close.spots,
                        !.es = SettleVaults(@, ResolvedCents(open, close.spots[a]), r.round.number)]
  <2>1. raw = done
    BY <1>2 DEF TradeRoom, RoomFields
  <2>2. opened.round = r.round
    BY DEF opened, TradeRoom, RoomFields
  <2>3. moved.round = opened.round
    BY <1>1 DEF BotsMoved, TradeRoom, RoomFields
  <2>4. TickDirection(r, in) =
          IF now < r.round.deadline \/ ~close.ok THEN moved
          ELSE IF IsFinal(raw.es, r.round.number, RoundLimit)
          THEN [raw EXCEPT !.round.status = "complete"] ELSE NextRound(raw, in)
    BY DEF TickDirection, opened
  <2> HIDE DEF raw, done, close, moved
  <2>5. QED
    BY <2>1, <2>2, <2>3, <2>4
<1> HIDE DEF moved, close
<1>4. TradeRoom(done)
  <2>1. VaultsOk(es2)
    <3>1. ResolvedCents(open, close.spots[a]) \in Int
      BY ResolvedCentsAreCents
    <3>2. VaultsOk(moved.es)
      BY <1>2 DEF TradeRoom
    <3>3. QED
      BY <3>1, <3>2, VaultsSettled
  <2> HIDE DEF es2
  <2>2. DOMAIN done = RoomFields /\ done.es = es2 /\ done.round = moved.round
    BY <1>2 DEF TradeRoom, RoomFields
  <2>3. /\ DOMAIN done.oracle = OracleFields
        /\ done.oracle.open = moved.oracle.open /\ done.oracle.last = moved.oracle.last
    BY <1>2 DEF TradeRoom, RoomFields, OracleOk, OracleFields
  <2>4. QED
    BY <1>2, <2>1, <2>2, <2>3 DEF TradeRoom, OracleOk
<1> HIDE DEF done
<1>5. TradeRoom([done EXCEPT !.round.status = "complete"])
  BY <1>4 DEF TradeRoom, RoomFields, RoundFields
<1>6. TradeRoom(NextRound(done, in))
  <2> DEFINE s == NextRound(done, in)
             o == IF Known(in.spots[in.asset]) THEN OpenOracle(in.spots) ELSE NoOracle
             rd == [done.round EXCEPT !.number = @ + 1, !.asset = in.asset, !.deadline = now + Live]
             es4 == CarryOver(done.es)
  <2>1. OracleOk(o)
    BY <1>4, OraclesOk DEF TradeRoom, PollOk
  <2>2. DOMAIN rd = RoundFields /\ rd.asset \in Asset
    BY <1>4 DEF TradeRoom, RoundFields, PollOk
  <2>3. VaultsOk(es4)
    BY <1>4, VaultsCarried DEF TradeRoom
  <2>4. s = [done EXCEPT !.round = rd, !.es = es4, !.botAt = Unset, !.oracle = o]
    BY <1>4 DEF NextRound, TradeRoom, RoomFields, RoundFields
  <2> HIDE DEF s, o, rd, es4
  <2>5. TradeRoom(s)
    BY <1>4, <2>1, <2>2, <2>3, <2>4 DEF TradeRoom, RoomFields
  <2>6. QED
    BY <2>5 DEF s
<1>7. QED
  BY <1>2, <1>3, <1>4, <1>5, <1>6

LEMMA PollKeepsVaults ==
  ASSUME TradeRoom(Room), NEW in, PollOk(in)
  PROVE  TradeRoom(Ticked(in))
<1>1. ASSUME NEW r, TradeRoom(r) PROVE TradeRoom(Tick(r, in))
  <2> DEFINE q == [r EXCEPT !.oracle = OpenedBy(@, in.spots)]
  <2>1. OracleOk(OpenedBy(r.oracle, in.spots))
    BY <1>1, OraclesOk DEF TradeRoom, PollOk
  <2>2. TradeRoom([r EXCEPT !.oracle = OpenedBy(r.oracle, in.spots)])
    BY <1>1, <2>1, OracleReplaced
  <2>3. TradeRoom(q)
    BY <1>1, <2>2 DEF TradeRoom, RoomFields
  <2> HIDE DEF q
  <2>4. TradeRoom(TickStreak(q, in)) /\ TradeRoom(TickPredictions(q, in))
    BY <2>3, StreakKeepsVaults, PredictionsKeepVaults
  <2>5. TradeRoom(TickDirection(r, in))
    BY <1>1, DirectionKeepsVaults
  <2>6. Tick(r, in) \in {TickStreak(q, in), TickPredictions(q, in), TickDirection(r, in)}
    BY DEF Tick, q
  <2>7. QED
    BY <2>4, <2>5, <2>6
<1> DEFINE r == [Room EXCEPT !.oracle = Sampled(@, in.spots)]
<1>2. TradeRoom(r)
  <2>1. OracleOk(Sampled(Room.oracle, in.spots))
    BY OraclesOk DEF TradeRoom, PollOk
  <2>2. TradeRoom([Room EXCEPT !.oracle = Sampled(Room.oracle, in.spots)])
    BY <2>1, OracleReplaced
  <2>3. r = [Room EXCEPT !.oracle = Sampled(Room.oracle, in.spots)]
    BY DEF Room
  <2>4. QED
    BY <2>2, <2>3
<1>3. TradeRoom(Locked(in))
  BY VaultsLocked
<1>4. Ticked(in) \in {r, Tick(r, in), Tick(Locked(in), in)}
  BY DEF Ticked
<1> HIDE DEF r
<1>5. QED
  BY <1>1, <1>2, <1>3, <1>4

-----------------------------------------------------------------------------
(* Trades.  What the first half of the trade route leaves for the second is a player's, at a
   price from 2 to 98 cents. *)

TradeOk(t) ==
    /\ t.wallet \in Human /\ t.yes \in 2..98
    /\ t.action = "buy" => t.side \in Side /\ t.usdc \in Int

TradeInv == TradeRoom(Room) /\ \A t \in trades : TradeOk(t)

LEMMA RoomOf ==
  /\ TradeRoom(Room) <=> /\ DOMAIN round = RoundFields /\ round.asset \in Asset
                         /\ OracleOk(oracle) /\ VaultsOk(entrants)
  /\ TradeRoom(Room)' <=> /\ DOMAIN round' = RoundFields /\ round'.asset \in Asset
                          /\ OracleOk(oracle') /\ VaultsOk(entrants')
<1>1. /\ DOMAIN Room' = RoomFields /\ Room'.round = round' /\ Room'.es = entrants'
      /\ Room'.oracle = oracle'
  BY DEF Room, RoomFields
<1>2. QED
  BY <1>1, RoomFieldsAre DEF TradeRoom, OracleOk, SpotsOk, PricesOf, VaultsOk, VaultOk

(* A trade at a price from 2 to 98 costs the spread, which is at most a cent, on every share. *)
LEMMA FillCosts ==
  ASSUME Spread <= 1, NEW t, TradeOk(t), NEW e, VaultOk(e)
  PROVE  /\ VaultOk(Fill(t, e))
         /\ WorthAt(e, t.yes) - WorthAt(Fill(t, e), t.yes) = Spread * Traded(e, Fill(t, e))
<1> DEFINE f == Fill(t, e)
           m == e.shares
           c(side) == SideCents(side, t.yes)
<1>1. /\ t.yes \in Int /\ Spread \in Nat /\ Spread \in {0, 1}
      /\ m \in Nat /\ e.cash \in Int /\ NoSide \notin Side
  <2>1. Spread \in Nat
    BY SpotPitAssumption
  <2>2. Spread \in {0, 1}
    BY <2>1
  <2>3. t.yes \in Int /\ m \in Nat /\ e.cash \in Int
    BY DEF TradeOk, VaultOk
  <2>4. QED
    BY <2>1, <2>2, <2>3, SidesDiffer
<1>2. \A side : c(side) \in 2..98
  BY DEF SideCents, TradeOk
<1>3. ASSUME Holds(e) PROVE SaleValue(e, t.yes, Spread) = m * (c(e.side) - Spread)
  <2>1. c(e.side) - Spread \in Int /\ c(e.side) - Spread >= 0 /\ 0 \in Int
    BY <1>1, <1>2
  <2> HIDE DEF c
  <2>2. Max({0, c(e.side) - Spread}) = c(e.side) - Spread
    BY <2>1, MaxIs
  <2>3. QED
    BY <2>2 DEF SaleValue, c
<1>4. WorthAt(e, t.yes) = e.cash + IF Holds(e) THEN m * c(e.side) ELSE 0
  BY DEF WorthAt
<1>5. ASSUME NEW k \in Int, NEW n \in Int
      PROVE  n * (k - Spread) = n * k - Spread * n /\ n * (k + Spread) = n * k + Spread * n
  BY <1>1
<1>6. ASSUME f = e PROVE WorthAt(e, t.yes) - WorthAt(f, t.yes) = Spread * Traded(e, f)
  <2>1. e.side = f.side /\ f.shares - e.shares = 0 /\ Traded(e, f) = 0
    BY <1>1, <1>6 DEF Traded
  <2>2. m * c(e.side) \in Int
    <3> HIDE DEF c
    <3>1. QED
      BY <1>1, <1>2, CentsAreWhole
  <2> HIDE DEF c, m, f
  <2>3. WorthAt(e, t.yes) \in Int
    BY <1>1, <1>4, <2>2
  <2>4. QED
    BY <1>1, <1>6, <2>1, <2>3
<1>7. CASE t.action # "buy"
  <2>1. f = Liquidate(e, t.yes, Spread)
    BY <1>7 DEF Fill
  <2>2. VaultOk(f)
    BY <1>1, <2>1, LiquidateIs
  <2>3. CASE ~Holds(e)
    <3>1. f = e
      BY <1>1, <2>1, <2>3, LiquidateIs
    <3>2. QED
      BY <1>6, <2>2, <3>1
  <2>4. CASE Holds(e)
    <3>1. f.cash = e.cash + m * (c(e.side) - Spread) /\ f.shares = 0 /\ f.side = NoSide
      BY <1>1, <1>3, <2>1, <2>4, LiquidateIs
    <3>2. Traded(e, f) = m
      BY <1>1, <2>4, <3>1 DEF Traded, Holds
    <3>3. WorthAt(f, t.yes) = f.cash + 0 /\ WorthAt(e, t.yes) = e.cash + m * c(e.side)
      BY <1>4, <2>4, <3>1 DEF WorthAt, Holds
    <3>4. m * (c(e.side) - Spread) = m * c(e.side) - Spread * m
      BY <1>1, <1>2, <1>5
    <3>5. m * c(e.side) \in Int /\ Spread * m \in Int
      <4> HIDE DEF c, m
      <4>1. QED
        BY <1>1, <1>2, CentsAreWhole
    <3> HIDE DEF c, m, f
    <3>6. WorthAt(e, t.yes) - WorthAt(f, t.yes) = Spread * Traded(e, f)
      BY <1>1, <3>1, <3>2, <3>3, <3>4, <3>5
    <3>7. QED
      BY <2>2, <3>6 DEF f
  <2>5. QED
    BY <2>3, <2>4
<1>8. CASE t.action = "buy"
  <2> DEFINE side == t.side
             price == BuyPriceOf(c(side))
             flat == FlatFor(e, side, t.yes, Spread)
  <2>1. side \in Side /\ t.usdc \in Int
    BY <1>8 DEF TradeOk
  <2>2. f = BuyShares(e, side, t.usdc, price, t.yes, Spread)
    BY <1>8 DEF Fill
  <2>3. price = c(side) + Spread /\ price \in 2..99
    <3>1. c(side) + Spread \in 2..99 /\ 99 \in Int
      BY <1>1, <1>2
    <3> HIDE DEF c
    <3>2. Min({99, c(side) + Spread}) = c(side) + Spread
      BY <3>1, MinIs
    <3>3. QED
      BY <3>1, <3>2 DEF BuyPriceOf
  <2> HIDE DEF price
  <2>4. Max({1, Min({99, price})}) = price
    <3>1. 99 \in Int /\ 1 \in Int /\ price \in Int /\ price <= 99 /\ price >= 1
      BY <2>3
    <3>2. Min({99, price}) = price
      BY <3>1, MinIs
    <3>3. Max({1, price}) = price
      BY <3>1, MaxIs
    <3>4. QED
      BY <3>2, <3>3
  <2>5. VaultOk(f) /\ (f = e \/ Purchase(flat, f, side, price))
    <3> DEFINE g == BuyShares(e, side, t.usdc, price, t.yes, Spread)
    <3>1. price \in Int /\ Spread \in Int /\ t.yes \in Int
      BY <1>1, <2>3
    <3>2. /\ VaultOk(g)
          /\ g = e \/ Purchase(FlatFor(e, side, t.yes, Spread), g, side, Max({1, Min({99, price})}))
      BY <2>1, <3>1, BuySharesIs
    <3> HIDE DEF f, g
    <3>3. f = g
      BY <2>2 DEF g
    <3>4. QED
      BY <2>4, <3>2, <3>3
  <2> HIDE DEF f
  <2>6. ASSUME NEW n \in Nat, f.cash = flat.cash - n * price,
               f.shares = flat.shares + n, f.side = side
        PROVE  WorthAt(e, t.yes) - WorthAt(f, t.yes) = Spread * Traded(e, f)
    <3>1. n * price = n * c(side) + Spread * n
      <4>1. n \in Int /\ c(side) \in Int
        BY <1>2
      <4> HIDE DEF c
      <4>2. n * (c(side) + Spread) = n * c(side) + Spread * n
        BY <1>5, <4>1
      <4>3. QED
        BY <2>3, <4>2
    <3>2. /\ n * c(side) \in Int /\ Spread * n \in Int
          /\ m * c(e.side) \in Int /\ m * c(side) \in Int /\ Spread * m \in Int
      <4>1. c(side) \in Int /\ c(e.side) \in Int /\ m \in Int /\ n \in Int /\ Spread \in Int
        BY <1>1, <1>2
      <4> HIDE DEF c, m
      <4>2. QED
        BY <4>1, CentsAreWhole
    <3>3. CASE HoldsOther(e, side)
      <4>1. flat.cash = e.cash + m * (c(e.side) - Spread) /\ flat.shares = 0
        BY <1>1, <1>3, <3>3, LiquidateIs DEF HoldsOther, FlatFor
      <4>2. f.shares = n /\ Traded(e, f) = m + n
        BY <1>1, <2>6, <3>3, <4>1 DEF Traded, HoldsOther
      <4>3. m * (c(e.side) - Spread) = m * c(e.side) - Spread * m
        BY <1>1, <1>2, <1>5
      <4>4. WorthAt(f, t.yes) = f.cash + n * c(side)
        <5>1. n = 0 => n * c(side) = 0
          BY <1>2
        <5>2. n > 0 => Holds(f)
          BY <1>1, <2>1, <2>6, <4>2 DEF Holds
        <5>3. n = 0 => ~Holds(f)
          BY <4>2 DEF Holds
        <5> HIDE DEF c
        <5>4. QED
          BY <2>6, <4>2, <5>1, <5>2, <5>3 DEF WorthAt, c
      <4>5. WorthAt(e, t.yes) = e.cash + m * c(e.side)
        BY <1>4, <3>3 DEF HoldsOther
      <4>6. Spread * (m + n) = Spread * m + Spread * n
        BY <1>1
      <4> HIDE DEF c, m, flat
      <4>7. QED
        BY <1>1, <2>6, <3>1, <3>2, <4>1, <4>2, <4>3, <4>4, <4>5, <4>6
    <3>4. CASE ~HoldsOther(e, side)
      <4>1. flat = e
        BY <3>4 DEF FlatFor
      <4>2. m = 0 \/ e.side = side
        BY <1>1, <3>4 DEF HoldsOther, Holds, VaultOk
      <4>3. f.shares = m + n /\ Traded(e, f) = n
        BY <1>1, <2>6, <4>1, <4>2 DEF Traded
      <4>4. WorthAt(e, t.yes) = e.cash + m * c(side)
        <5>1. m = 0 => m * c(side) = 0 /\ ~Holds(e)
          BY <1>2 DEF Holds
        <5>2. m > 0 => Holds(e) /\ e.side = side
          BY <1>1, <2>1, <4>2 DEF Holds
        <5> HIDE DEF c, m
        <5>3. QED
          BY <1>1, <1>4, <5>1, <5>2
      <4>5. WorthAt(f, t.yes) = f.cash + (m + n) * c(side)
        <5>1. m + n = 0 => (m + n) * c(side) = 0
          BY <1>2
        <5>2. m + n > 0 => Holds(f)
          BY <1>1, <2>1, <2>6, <4>3 DEF Holds
        <5>3. m + n = 0 => ~Holds(f)
          BY <4>3 DEF Holds
        <5>4. m + n = 0 \/ m + n > 0
          BY <1>1
        <5> HIDE DEF c, m
        <5>5. QED
          BY <2>6, <4>3, <5>1, <5>2, <5>3, <5>4 DEF WorthAt, c
      <4>6. (m + n) * c(side) = m * c(side) + n * c(side)
        BY <1>1, <1>2
      <4> HIDE DEF c, m, flat
      <4>7. QED
        BY <1>1, <2>6, <3>1, <3>2, <4>1, <4>3, <4>4, <4>5, <4>6
    <3>5. QED
      BY <3>3, <3>4
  <2>7. QED
    BY <1>6, <2>5, <2>6 DEF f, Purchase
<1>9. QED
  BY <1>7, <1>8

LEMMA PickMarketIsListed ==
  ASSUME NEW markets \in Boards, NEW played
  PROVE  PickMarket(markets, played) \in Asset
<1>1. markets \in Seq(Asset) /\ markets # <<>>
  BY SpotPitAssumption
<1>2. \A i \in DOMAIN markets : markets[i] \in Asset
  BY <1>1
<1>3. Head(markets) \in Asset
  BY <1>1
<1>4. QED
  BY <1>2, <1>3 DEF PickMarket

LEMMA TradesBegin == SpotPitInit => TradeInv
<1> SUFFICES ASSUME SpotPitInit PROVE TradeInv
  OBVIOUS
<1>1. PICK format \in Formats, wanted \in Asset \cup {AnyAsset}, markets \in Boards,
           ended \in {0, -OracleWait} :
           round = [BootstrapRound(format, wanted, markets) EXCEPT !.deadline = ended]
  BY DEF SpotPitInit
<1>2. \A played : PickMarket(markets, played) \in Asset
  BY PickMarketIsListed
<1>3. DOMAIN round = RoundFields /\ round.asset \in Asset
  <2>1. (CHOOSE a \in Asset : TRUE) \in Asset
    BY <1>2
  <2>2. wanted # AnyAsset => wanted \in Asset
    OBVIOUS
  <2>3. PickMarketForAsset(wanted, markets) \in Asset
    BY <1>2, <2>2 DEF PickMarketForAsset
  <2>4. /\ DOMAIN BootstrapRound(format, wanted, markets) = RoundFields
        /\ BootstrapRound(format, wanted, markets).asset \in Asset
    BY <2>1, <2>3 DEF BootstrapRound, RoundFields
  <2>5. QED
    BY <1>1, <2>4 DEF RoundFields
<1>4. OracleOk(oracle) /\ trades = {}
  BY OraclesOk, PolledOk DEF SpotPitInit, OracleOk, NoOracle, OracleFields
<1>5. VaultsOk(entrants)
  <2>1. PICK calls \in [Actors -> IF round.format = "royale" THEN Side \cup {NoSide} ELSE {NoSide}],
             pct \in CallPcts :
             entrants = [p \in Entrant |-> IF p \in Actors THEN ChangeCallOf(MakeEntrant(Vault), calls[p], pct)
                                           ELSE MakeEntrant(Vault)]
    BY DEF SpotPitInit
  <2>2. VaultOk(MakeEntrant(Vault))
    <3>1. Vault \in Int
      BY SpotPitAssumption
    <3>2. QED
      BY <3>1 DEF MakeEntrant, VaultOk, EntrantFields
  <2>3. pct \in Int
    BY VaultsAssumption
  <2>4. \A p \in Actors : calls[p] \in Side \cup {NoSide}
    OBVIOUS
  <2>5. ASSUME NEW call \in Side \cup {NoSide} PROVE VaultOk(ChangeCallOf(MakeEntrant(Vault), call, pct))
    BY <2>2, <2>3, <2>5 DEF ChangeCallOf, VaultOk, EntrantFields
  <2>6. QED
    BY <2>1, <2>2, <2>4, <2>5, PeopleAreNotBots DEF VaultsOk
<1>6. QED
  BY <1>3, <1>4, <1>5, RoomOf DEF TradeInv

(* What a trade that fills costs. *)
SpreadPaid ==
    \A t \in trades \ trades' :
        LET e == entrants[t.wallet]
            f == entrants'[t.wallet]
        IN /\ WorthAt(e, t.yes) - WorthAt(f, t.yes) = Spread * Traded(e, f)
           /\ \A p \in Entrant \ {t.wallet} : entrants'[p] = entrants[p]

LEMMA TradeIsPeeked ==
  ASSUME TradeInv, NEW p \in Actors, NEW action, NEW side, NEW usdc,
         action = "buy" => side \in Side /\ usdc \in Int,
         NEW coinbase \in {quote[round.asset] : quote \in Quotes},
         NEW kraken \in {quote[round.asset] : quote \in Quotes},
         TradePeeks(p, action, side, usdc, coinbase, kraken)
  PROVE  TradeInv' /\ SpreadPaid
<1> DEFINE fresh == FreshSpot(coinbase, kraken)
           spots == [NoSpots EXCEPT ![round.asset] = fresh]
           yes == YesOf(oracle, spots)
           t == [wallet |-> p, action |-> action, side |-> side, usdc |-> usdc,
                 yes |-> yes, number |-> round.number, asset |-> round.asset]
<1>1. round.asset \in Asset /\ OracleOk(oracle)
  BY RoomOf DEF TradeInv
<1>2. yes \in 2..98
  <2>1. spots[round.asset] \in PricesOf(round.asset)
    BY <1>1 DEF NoSpots, FreshSpot, PricesOf
  <2> HIDE DEF spots
  <2>2. QED
    BY <1>1, <2>1, YesIsAChance
<1>3. trades' = trades \cup {t} /\ UNCHANGED <<round, entrants, oracle>>
  BY DEF TradePeeks
<1> HIDE DEF yes
<1>4. TradeOk(t)
  BY <1>2, SpotPitAssumption DEF TradeOk
<1> HIDE DEF t
<1>5. TradeRoom(Room)'
  BY <1>3, RoomOf DEF TradeInv
<1>6. \A x \in trades' : TradeOk(x)
  BY <1>3, <1>4 DEF TradeInv
<1>7. trades \ trades' = {}
  BY <1>3
<1>8. QED
  BY <1>5, <1>6, <1>7 DEF TradeInv, SpreadPaid, TradeOk

LEMMA TradeIsFilled ==
  ASSUME Spread <= 1, TradeInv, NEW t, TradeFills(t)
  PROVE  TradeInv' /\ SpreadPaid
<1> DEFINE e == entrants[t.wallet]
<1>1. t \in trades /\ trades' = trades \ {t} /\ UNCHANGED <<round, oracle>>
  BY DEF TradeFills
<1>2. TradeOk(t) /\ t.wallet \in Entrant /\ VaultOk(e) /\ VaultsOk(entrants)
  <2>1. TradeOk(t) /\ VaultsOk(entrants)
    BY <1>1, RoomOf DEF TradeInv
  <2>2. QED
    BY <2>1, PeopleAreNotBots DEF TradeOk, VaultsOk
<1>3. entrants' = entrants \/ entrants' = [entrants EXCEPT ![t.wallet] = Fill(t, e)]
  BY <1>2 DEF TradeFills, VaultsOk
<1>4. /\ VaultOk(Fill(t, e))
      /\ WorthAt(e, t.yes) - WorthAt(Fill(t, e), t.yes) = Spread * Traded(e, Fill(t, e))
  BY <1>2, FillCosts
<1>5. VaultsOk(entrants') /\ \A p \in Entrant \ {t.wallet} : entrants'[p] = entrants[p]
  BY <1>2, <1>3, <1>4, PeopleAreNotBots DEF VaultsOk
<1>6. entrants'[t.wallet] \in {e, Fill(t, e)}
  BY <1>2, <1>3 DEF VaultsOk
<1>7. WorthAt(e, t.yes) - WorthAt(e, t.yes) = Spread * Traded(e, e)
  <2>1. t.yes \in Int /\ e.cash \in Int /\ e.shares \in Int /\ SideCents(e.side, t.yes) \in Int
    BY <1>2, SideCentsAreCents DEF TradeOk, VaultOk
  <2> HIDE DEF e
  <2>2. WorthAt(e, t.yes) \in Int
    BY <2>1, CentsAreWhole DEF WorthAt
  <2>3. Traded(e, e) = 0 /\ Spread \in Int
    BY <2>1, SpotPitAssumption DEF Traded
  <2>4. QED
    BY <2>2, <2>3
<1> HIDE DEF e
<1>8. WorthAt(e, t.yes) - WorthAt(entrants'[t.wallet], t.yes) = Spread * Traded(e, entrants'[t.wallet])
  BY <1>4, <1>6, <1>7
<1>9. trades \ trades' = {t}
  BY <1>1
<1>10. SpreadPaid
  BY <1>5, <1>8, <1>9 DEF SpreadPaid, e
<1>11. TradeRoom(Room)'
  BY <1>1, <1>5, RoomOf DEF TradeInv
<1>12. \A x \in trades' : TradeOk(x)
  BY <1>1 DEF TradeInv
<1>13. TradeInv'
  BY <1>11, <1>12 DEF TradeInv, TradeOk
<1>14. QED
  BY <1>10, <1>13

LEMMA TradesAreLeft ==
  ASSUME TradeInv, UNCHANGED <<round, entrants, oracle, trades>>
  PROVE  TradeInv' /\ SpreadPaid
<1>1. TradeRoom(Room)'
  BY RoomOf DEF TradeInv
<1>2. QED
  BY <1>1 DEF TradeInv, TradeOk, SpreadPaid

LEMMA PollLeavesTrades ==
  ASSUME TradeInv, NEW in, PollOk(in), Poll(in)
  PROVE  TradeInv' /\ SpreadPaid
<1> DEFINE r == Ticked(in)
<1>1. round' = r.round /\ entrants' = r.es /\ oracle' = r.oracle /\ trades' = trades
  BY DEF Poll
<1>2. TradeRoom(r)
  BY PollKeepsVaults DEF TradeInv
<1> HIDE DEF r
<1>3. TradeRoom(Room)'
  BY <1>1, <1>2, RoomOf DEF TradeRoom
<1>4. QED
  BY <1>1, <1>3 DEF TradeInv, TradeOk, SpreadPaid

LEMMA TradeStep ==
  ASSUME Spread <= 1, TradeInv, [SpotPitNext]_spotPitVars
  PROVE  TradeInv' /\ SpreadPaid
<1>1. ASSUME NEW p, NEW picks, NEW locks, MakePicks(p, picks, locks) PROVE TradeInv' /\ SpreadPaid
  BY <1>1, TradesAreLeft DEF MakePicks
<1>2. ASSUME NEW p, NEW option, PickLeg(p, option) PROVE TradeInv' /\ SpreadPaid
  BY <1>2, TradesAreLeft DEF PickLeg
<1>3. ASSUME NEW p \in Actors,
             NEW coinbase \in {quote[round.asset] : quote \in Quotes},
             NEW kraken \in {quote[round.asset] : quote \in Quotes},
             \/ \E side \in Side, usdc \in Amounts : TradePeeks(p, "buy", side, usdc, coinbase, kraken)
             \/ TradePeeks(p, "sell", NoSide, 0, coinbase, kraken)
      PROVE  TradeInv' /\ SpreadPaid
  <2>1. Amounts \subseteq Int
    BY SpotPitAssumption
  <2>2. QED
    BY <1>3, <2>1, TradeIsPeeked
<1>4. ASSUME NEW t, TradeFills(t) PROVE TradeInv' /\ SpreadPaid
  BY <1>4, TradeIsFilled
<1>5. ASSUME NEW spots \in SpotPrices, NEW candles, NEW moves, NEW luck, NEW asset \in NextAssets,
             Poll([spots |-> spots, candles |-> candles, moves |-> moves, luck |-> luck,
                   asset |-> asset])
      PROVE  TradeInv' /\ SpreadPaid
  <2> DEFINE in == [spots |-> spots, candles |-> candles, moves |-> moves, luck |-> luck,
                    asset |-> asset]
  <2>1. asset \in Asset
    BY PickMarketIsListed, RoomOf DEF NextAssets, TradeInv
  <2>2. PollOk(in)
    BY <2>1, PolledOk DEF PollOk
  <2> HIDE DEF in
  <2>3. Poll(in)
    BY <1>5 DEF in
  <2>4. QED
    BY <2>2, <2>3, PollLeavesTrades
<1>6. ASSUME PassTime PROVE TradeInv' /\ SpreadPaid
  BY <1>6, TradesAreLeft DEF PassTime
<1>7. ASSUME UNCHANGED spotPitVars PROVE TradeInv' /\ SpreadPaid
  BY <1>7, TradesAreLeft DEF spotPitVars
<1>8. QED
  BY <1>1, <1>2, <1>3, <1>4, <1>5, <1>6, <1>7 DEF SpotPitNext

(* The trade route, with a spread of at most a cent (TRADE_SPREAD is one): between a trade's
   quote and its fill anything may happen to the round and to the vault, and still the trade
   costs the spread on the shares that change hands, no more and no less, and nobody else
   anything.  The price of a share is from 2 to 98 cents then, so that the spread never meets
   the limits of 1 and 99. *)
THEOREM TradesAlwaysPayTheSpread ==
  ASSUME Spread <= 1
  PROVE  SpotPitSpec => TradesPayTheSpread
<1>1. SpotPitInit => TradeInv
  BY TradesBegin
<1>2. TradeInv /\ [SpotPitNext]_spotPitVars => TradeInv' /\ [SpreadPaid]_spotPitVars
  BY TradeStep
<1>3. QED
  BY <1>1, <1>2, PTL DEF SpotPitSpec, TradesPayTheSpread, SpreadPaid

-----------------------------------------------------------------------------
(* Predictions.  A lock is on a question the card has an answer to, so that the count of
   scoreCard and the rules of the card add up to the same points. *)

CardOk(card) == DOMAIN card = {"picks", "locks"} /\ card.locks \subseteq Picked(card)

Ones(S) == [i \in DOMAIN Questions |-> IF i \in S THEN 1 ELSE 0]

LEMMA OnesAreCounted ==
  ASSUME NEW S \in SUBSET (DOMAIN Questions)
  PROVE  /\ SumFunctionOnSet(Ones(S), DOMAIN Questions) = Cardinality(S)
         /\ IsFiniteSet(S) /\ Cardinality(S) \in Nat
<1> DEFINE D == DOMAIN Questions
           f == Ones(S)
<1>1. IsFiniteSet(D) /\ S \in SUBSET D
  BY PicksAssumption
<1>2. IsFiniteSet(S)
  BY ONLY <1>1, FS_Subset
<1>3. Cardinality(S) \in Nat
  BY <1>2, FS_CardinalityType
<1>4. /\ \A i \in D : f[i] \in Int
      /\ \A i \in D \ S : f[i] = 0
      /\ \A i \in S : f[i] = 1
  BY <1>1 DEF Ones
<1> HIDE DEF f, D
<1>5. SumFunctionOnSet(f, D) = SumFunctionOnSet(f, S)
  BY ONLY <1>1, <1>4, SumSupport
<1>6. SumFunctionOnSet(f, S) = 1 * Cardinality(S)
  <2>1. 1 \in Int
    OBVIOUS
  <2>2. QED
    BY ONLY <1>2, <1>4, <2>1, SumConst
<1>7. QED
  BY <1>2, <1>3, <1>5, <1>6 DEF f, D

LEMMA CardScored ==
  ASSUME NEW card, CardOk(card), NEW answers
  PROVE  ScoreCard(card, answers) = CardPoints(card, answers)
<1> DEFINE D == DOMAIN Questions
           R == Right(card, answers)
           L == card.locks
           live == {i \in L \cap Picked(card) : answers[i] # {}}
           locked == IF LockActive(card) THEN L ELSE {}
           landed == \A i \in locked : answers[i] = {} \/ card.picks[i] \in answers[i]
           points == [i \in D |-> IF card.picks[i] \notin answers[i] THEN 0
                                  ELSE IF i \notin locked THEN 1 ELSE IF landed THEN 2 ELSE 0]
<1>1. CardPoints(card, answers) = SumFunctionOnSet(points, D)
  <2>1. CardPoints(card, answers) = SumFunction(points)
    BY DEF CardPoints
  <2>2. QED
    BY <2>1 DEF SumFunction
<1>2. R \in SUBSET D /\ L \in SUBSET D /\ L = L \cap Picked(card)
  BY DEF Right, CardOk, Picked
<1>3. \A i \in D : i \in R <=> card.picks[i] \in answers[i]
  BY DEF Right
<1>4. ScoreCard(card, answers) =
         Cardinality(R) + IF LockActive(card)
                          THEN IF live \subseteq R THEN Cardinality(live) ELSE -Cardinality(live \cap R)
                          ELSE 0
  BY DEF ScoreCard
<1>5. live \cap R = R \cap L
  BY <1>2, <1>3
<1>6. \A i \in D : points[i] = IF i \notin R THEN 0
                               ELSE IF i \notin locked THEN 1 ELSE IF landed THEN 2 ELSE 0
  BY <1>3
<1>7. IsFiniteSet(D)
  BY PicksAssumption
<1>8. /\ SumFunctionOnSet(Ones(R), D) = Cardinality(R) /\ Cardinality(R) \in Nat /\ IsFiniteSet(R)
      /\ SumFunctionOnSet(Ones(R \cap L), D) = Cardinality(R \cap L) /\ Cardinality(R \cap L) \in Nat
      /\ SumFunctionOnSet(Ones(R \ L), D) = Cardinality(R \ L)
  <2> HIDE DEF R, L
  <2>1. R \cap L \in SUBSET D /\ R \ L \in SUBSET D
    BY <1>2
  <2>2. QED
    BY <1>2, <2>1, OnesAreCounted
<1>9. Cardinality(R \ L) = Cardinality(R) - Cardinality(R \cap L)
  BY <1>8, FS_Difference
<1>10. CASE ~LockActive(card)
  <2>1. locked = {}
    BY <1>10
  <2>2. \A i \in D : Ones(R)[i] \in Int /\ points[i] = Ones(R)[i]
    <3> HIDE DEF points, R, locked, landed
    <3> QED BY <1>6, <2>1 DEF Ones
  <2> HIDE DEF points, R, D, L, live
  <2>3. SumFunctionOnSet(points, D) = SumFunctionOnSet(Ones(R), D)
    BY ONLY <1>7, <2>2, SumCong
  <2>4. QED
    BY <1>1, <1>4, <1>8, <1>10, <2>3
<1>11. CASE LockActive(card) /\ live \subseteq R
  <2>1. locked = L
    BY <1>11
  <2>2. landed
    BY <1>2, <1>3, <1>11, <2>1
  <2>3. live = R \cap L
    BY <1>5, <1>11
  <2>4. \A i \in D : /\ Ones(R)[i] \in Int /\ Ones(R \cap L)[i] \in Int
                     /\ points[i] = Ones(R)[i] + Ones(R \cap L)[i]
    <3> HIDE DEF points, R, locked, landed, L
    <3> QED BY <1>6, <2>1, <2>2 DEF Ones
  <2> DEFINE f == Ones(R)
             g == Ones(R \cap L)
  <2> HIDE DEF points, R, D, L, live
  <2>5. SumFunctionOnSet(points, D) = SumFunctionOnSet(f, D) + SumFunctionOnSet(g, D)
    <3>1. \A i \in D : f[i] \in Int /\ g[i] \in Int /\ points[i] = f[i] + g[i]
      BY <2>4
    <3> HIDE DEF f, g
    <3>2. QED
      BY ONLY <1>7, <3>1, SumAdd
  <2>6. QED
    BY <1>1, <1>4, <1>8, <1>11, <2>3, <2>5
<1>12. CASE LockActive(card) /\ ~(live \subseteq R)
  <2>1. locked = L
    BY <1>12
  <2>2. ~landed
    BY <1>2, <1>3, <1>12, <2>1
  <2>3. \A i \in D : Ones(R \ L)[i] \in Int /\ points[i] = Ones(R \ L)[i]
    <3> HIDE DEF points, R, locked, landed, L
    <3> QED BY <1>6, <2>1, <2>2 DEF Ones
  <2> HIDE DEF points, R, D, L, live
  <2>4. SumFunctionOnSet(points, D) = SumFunctionOnSet(Ones(R \ L), D)
    BY ONLY <1>7, <2>3, SumCong
  <2>5. QED
    BY <1>1, <1>4, <1>5, <1>8, <1>9, <1>12, <2>4
<1>13. QED
  BY <1>10, <1>11, <1>12

(* What the route and the lock do to a card. *)
LEMMA CardsStayOk ==
  ASSUME NEW card, CardOk(card), NEW picks, NEW locks
  PROVE  CardOk(WithPicks(card, picks)) /\ CardOk(WithLocks(card, locks))
<1>1. CardOk(WithPicks(card, picks))
  <2> DEFINE new == [i \in DOMAIN Questions |-> IF picks[i] = NoPick THEN card.picks[i] ELSE picks[i]]
             c == WithPicks(card, picks)
  <2>1. c = [card EXCEPT !.picks = new]
    BY DEF WithPicks
  <2>2. DOMAIN c = {"picks", "locks"} /\ c.picks = new /\ c.locks = card.locks
    BY <2>1 DEF CardOk
  <2> HIDE DEF c
  <2>3. Picked(card) \subseteq Picked(c)
    BY <2>2 DEF Picked
  <2>4. QED
    BY <2>2, <2>3 DEF CardOk, c
<1>2. CardOk(WithLocks(card, locks))
  <2> DEFINE c == WithLocks(card, locks)
  <2>1. \E s : c = [card EXCEPT !.locks = s \cap Picked(card)]
    BY DEF WithLocks
  <2>2. PICK s : c = [card EXCEPT !.locks = s \cap Picked(card)]
    BY <2>1
  <2> HIDE DEF c
  <2>3. DOMAIN c = {"picks", "locks"} /\ c.picks = card.picks /\ c.locks = s \cap Picked(card)
    BY <2>2 DEF CardOk
  <2>4. Picked(c) = Picked(card)
    BY <2>3 DEF Picked
  <2>5. QED
    BY <2>3, <2>4 DEF CardOk, c
<1>3. QED
  BY <1>1, <1>2

LEMMA BlankCardOk == CardOk(BlankCard)
BY DEF CardOk, BlankCard, Picked

CardsScored(r) ==
    /\ \A p \in Entrant : CardOk(r.cards[p])
    /\ r.round.format = "predictions" /\ r.round.status = "complete" =>
         \A p \in Entrant :
            r.score[p] = ScoreCard(r.cards[p], CardAnswers(r.oracle.open, r.oracle.close))

(* The score is computed from the prices the tick stores. *)
LEMMA PredictionsScored ==
  ASSUME NEW r, RoomShape(r), r.round.format = "predictions", r.round.status = "live", NEW in,
         \A p \in Entrant : CardOk(r.cards[p])
  PROVE  CardsScored(Tick(r, in))
<1> DEFINE s == Tick(r, in)
           o == OpenedBy(r.oracle, in.spots)
           opened == [r EXCEPT !.oracle = o]
           live == IF SomeKnown(opened.oracle.open)
                   THEN [opened EXCEPT !.score = Scores(opened, Merged(opened.oracle.last, in.spots))]
                   ELSE opened
           close == CloseSample(Asset, in.spots, in.candles, PrevSample, now, r.round.deadline)
           points == Scores(opened, close.spots)
           closed == [live EXCEPT !.oracle.close = close.spots, !.score = points,
                                  !.round.status = "complete"]
<1>1. s.cards = r.cards
  BY OtherTicked
<1>2. DOMAIN o = OracleFields
  BY OracleKept DEF RoomShape
<1>3. /\ DOMAIN opened = RoomFields /\ opened.oracle = o /\ opened.cards = r.cards
      /\ opened.round = r.round
  BY <1>2 DEF RoomShape, RoomFields
<1>4. s = live \/ s = closed
  <2>1. s = TickPredictions(opened, in)
    BY DEF Tick
  <2>2. opened.round.deadline = r.round.deadline
    BY <1>3
  <2> HIDE DEF opened
  <2>3. QED
    BY <2>1, <2>2 DEF TickPredictions
<1> HIDE DEF s, o, opened, close
<1>5. DOMAIN live = RoomFields /\ live.oracle = o /\ live.cards = r.cards /\ live.round = r.round
  BY <1>3 DEF RoomFields
<1> HIDE DEF live
<1>6. \A p \in Entrant : points[p] = ScoreCard(r.cards[p], CardAnswers(o.open, close.spots))
  BY <1>3 DEF Scores
<1> HIDE DEF points
<1>7. closed.score = points /\ closed.oracle = [o EXCEPT !.close = close.spots]
  BY <1>5 DEF RoomFields
<1>8. closed.oracle.open = o.open /\ closed.oracle.close = close.spots
  BY <1>2, <1>7 DEF OracleFields
<1>9. s.round.status = "complete" => s = closed
  BY <1>4, <1>5
<1>10. s.round.status = "complete" =>
         \A p \in Entrant : s.score[p] = ScoreCard(s.cards[p], CardAnswers(s.oracle.open, s.oracle.close))
  BY <1>1, <1>6, <1>7, <1>8, <1>9
<1>11. \A p \in Entrant : CardOk(s.cards[p])
  BY <1>1
<1>12. QED
  BY <1>10, <1>11 DEF CardsScored, s

LEMMA LiveScored ==
  ASSUME NEW r, RoomInv(r), r.round.status = "live", NEW in, \A p \in Entrant : CardOk(r.cards[p])
  PROVE  CardsScored(Tick(r, in))
<1>1. CASE r.round.format = "predictions"
  BY <1>1, PredictionsScored DEF RoomInv
<1>2. CASE r.round.format \notin {"predictions", "streak"}
  <2> DEFINE s == Tick(r, in)
  <2> HIDE DEF s
  <2>1. s.cards = r.cards /\ s.round.format = r.round.format
    BY <1>2, OtherTicked DEF RoomInv, s
  <2>2. QED
    BY <1>2, <2>1 DEF CardsScored, s
<1>3. CASE r.round.format = "streak"
  <2> DEFINE q == [r EXCEPT !.oracle = OpenedBy(@, in.spots)]
             s == TickStreak(q, in)
  <2>1. OnlyPrices(r, q)
    BY PricesRead, OracleKept DEF RoomInv, RoomShape
  <2>2. Tick(r, in) = s
    BY <1>3 DEF Tick
  <2> HIDE DEF q
  <2>3. RoomShape(q) /\ q.round = r.round /\ q.es = r.es /\ q.streak = r.streak
        /\ q.cards = r.cards /\ q.score = r.score
    BY <2>1 DEF OnlyPrices
  <2>4. StreakInv(q)
    BY <1>3, <2>3 DEF RoomInv, StreakInv, Standing, LegsOver
  <2> HIDE DEF s
  <2>5. s.cards = q.cards /\ s.round.format = "streak"
    BY <1>3, <2>3, <2>4, StreakTicked DEF RoomInv, s
  <2>6. QED
    BY <2>2, <2>3, <2>5 DEF CardsScored
<1>4. QED
  BY <1>1, <1>2, <1>3

LEMMA PollScores ==
  ASSUME RoomInv(Room), CardsScored(Room), NEW in, round.status \in {"enrolling", "live"}
  PROVE  CardsScored(Ticked(in))
<1> DEFINE r == [Room EXCEPT !.oracle = Sampled(@, in.spots)]
<1>1. OnlyPrices(Room, r)
  BY PricesRead, OracleKept DEF RoomInv, RoomShape
<1>2. r.oracle = Sampled(oracle, in.spots)
  BY DEF Room
<1>3. round.status = "enrolling" => r.oracle = NoOracle
  BY <1>2, RoomFieldsAre DEF RoomInv, Sampled, NoOracle, Unset
<1> HIDE DEF r
<1>4. RoomShape(r) /\ r.round = round /\ r.es = entrants /\ r.streak = streak
      /\ r.cards = cards /\ r.score = score
  BY <1>1, RoomFieldsAre DEF OnlyPrices
<1>5. RoomInv(r) /\ \A p \in Entrant : CardOk(cards[p])
  BY <1>3, <1>4, RoomFieldsAre DEF RoomInv, CardsScored, StreakInv, Standing, LegsOver
<1>6. CASE round.status = "live"
  <2>1. Ticked(in) = Tick(r, in)
    BY <1>6 DEF Ticked, r
  <2>2. QED
    BY <1>4, <1>5, <1>6, <2>1, LiveScored
<1>7. CASE round.status = "enrolling"
  <2> DEFINE l == Locked(in)
  <2>1. Ticked(in) = IF HoldsTheLock(in.spots) THEN r ELSE Tick(l, in)
    BY <1>7 DEF Ticked, r
  <2>2. \A p \in Entrant : CardOk(l.cards[p])
    <3>1. \/ l.cards = cards
          \/ l.cards = [p \in Entrant |-> IF p \in Bot /\ round.format = "predictions"
                                          THEN WithPicks(BlankCard, in.luck[p]) ELSE cards[p]]
      BY DEF Locked, Room
    <3> HIDE DEF l
    <3>2. QED
      BY <1>5, <3>1, BlankCardOk, CardsStayOk
  <2> HIDE DEF l
  <2>3. /\ RoomShape(l) /\ l.streak = streak /\ l.round.format = round.format
        /\ l.round.status = "live"
        /\ round.format = "streak" => l.es = entrants /\ l.score = score
    BY LockTaken DEF l, RoomInv
  <2>4. RoomInv(l)
    BY <1>7, <2>3, RoomFieldsAre DEF RoomInv, StreakInv, Standing, LegsOver
  <2>5. CardsScored(Tick(l, in))
    BY <2>2, <2>3, <2>4, LiveScored
  <2>6. CardsScored(r)
    BY <1>4, <1>5, <1>7 DEF CardsScored
  <2>7. QED
    BY <2>1, <2>5, <2>6
<1>8. QED
  BY <1>6, <1>7

CardInv == SpotInv /\ CardsScored(Room)

LEMMA CardStep == CardInv /\ [SpotPitNext]_spotPitVars => CardInv'
<1> SUFFICES ASSUME CardInv, [SpotPitNext]_spotPitVars PROVE CardInv'
  OBVIOUS
<1>1. SpotInv /\ CardsScored(Room) /\ SpotInv'
  BY SpotStep DEF CardInv
<1>2. /\ \A p \in Entrant : CardOk(cards[p])
      /\ round.format = "predictions" /\ round.status = "complete" =>
            \A p \in Entrant : score[p] = ScoreCard(cards[p], CardAnswers(oracle.open, oracle.close))
  BY <1>1, RoomFieldsAre DEF CardsScored
<1>3. /\ Room'.round = round' /\ Room'.oracle = oracle' /\ Room'.cards = cards'
      /\ Room'.score = score'
  BY DEF Room
<1>4. ASSUME UNCHANGED <<round, oracle, cards, score>> PROVE CardInv'
  <2>1. CardsScored(Room)'
    BY <1>2, <1>3, <1>4 DEF CardsScored
  <2>2. QED
    BY <1>1, <2>1 DEF CardInv
<1>5. ASSUME NEW p \in Actors, NEW picks \in CardPicks, NEW locks \in Locks,
             MakePicks(p, picks, locks)
      PROVE  CardInv'
  <2>1. /\ cards' = [cards EXCEPT ![p] = WithLocks(WithPicks(@, picks), locks)]
        /\ round' = round /\ round.status = "enrolling"
    BY <1>5 DEF MakePicks
  <2>2. \A q \in Entrant : CardOk(cards'[q])
    <3>1. p \in Entrant /\ CardOk(cards[p])
      BY <1>2, SpotPitAssumption, PeopleAreNotBots
    <3>2. CardOk(WithLocks(WithPicks(cards[p], picks), locks))
      BY <3>1, CardsStayOk
    <3>3. DOMAIN cards = Entrant
      BY <1>1, RoomFieldsAre DEF SpotInv, RoomInv, RoomShape
    <3>4. \A q \in Entrant :
             cards'[q] = IF q = p THEN WithLocks(WithPicks(cards[p], picks), locks) ELSE cards[q]
      BY <2>1, <3>3
    <3>5. QED
      BY <1>2, <3>2, <3>4
  <2>3. CardsScored(Room)'
    BY <1>3, <2>1, <2>2 DEF CardsScored
  <2>4. QED
    BY <1>1, <2>3 DEF CardInv
<1>6. ASSUME NEW p \in Human, NEW option, PickLeg(p, option) PROVE CardInv'
  BY <1>4, <1>6 DEF PickLeg
<1>7. ASSUME NEW p, NEW action, NEW side, NEW usdc, NEW coinbase, NEW kraken,
             TradePeeks(p, action, side, usdc, coinbase, kraken)
      PROVE  CardInv'
  BY <1>4, <1>7 DEF TradePeeks
<1>8. ASSUME NEW t, TradeFills(t) PROVE CardInv'
  BY <1>4, <1>8 DEF TradeFills
<1>9. ASSUME NEW in, Poll(in) PROVE CardInv'
  <2> DEFINE r == Ticked(in)
  <2>1. CardsScored(r)
    BY <1>1, <1>9, PollScores DEF Poll, SpotInv
  <2>2. round' = r.round /\ oracle' = r.oracle /\ cards' = r.cards /\ score' = r.score
    BY <1>9 DEF Poll
  <2> HIDE DEF r
  <2>3. CardsScored(Room)'
    BY <1>3, <2>1, <2>2 DEF CardsScored
  <2>4. QED
    BY <1>1, <2>3 DEF CardInv
<1>10. ASSUME PassTime PROVE CardInv'
  BY <1>4, <1>10 DEF PassTime
<1>11. ASSUME UNCHANGED spotPitVars PROVE CardInv'
  BY <1>4, <1>11 DEF spotPitVars
<1>12. QED
  BY <1>5, <1>6, <1>7, <1>8, <1>9, <1>10, <1>11 DEF SpotPitNext

(* scoreCard: however late the final poll and whatever prices it found, every player and bot has
   the points the rules give its card for the prices the arena closed with; the lock doubles or
   voids exactly the answers under it, level questions aside. *)
THEOREM CardsAlwaysScoredByRules == SpotPitSpec => []CardsScoredByRules
<1>1. SpotPitInit => CardInv
  <2> SUFFICES ASSUME SpotPitInit PROVE CardInv
    OBVIOUS
  <2>1. /\ cards = [p \in Entrant |-> BlankCard]
        /\ \E format, wanted, markets, ended :
              round = [BootstrapRound(format, wanted, markets) EXCEPT !.deadline = ended]
    BY DEF SpotPitInit
  <2>2. round.status = "enrolling"
    BY <2>1 DEF BootstrapRound
  <2>3. QED
    BY <2>1, <2>2, SpotInit, BlankCardOk, RoomFieldsAre DEF CardInv, CardsScored
<1>2. CardInv => CardsScoredByRules
  <2>1. ASSUME CardInv, NEW p \in Entrant, round.format = "predictions", round.status = "complete"
        PROVE  score[p] = CardPoints(cards[p], CardAnswers(oracle.open, oracle.close))
    BY <2>1, CardScored, RoomFieldsAre DEF CardInv, CardsScored
  <2>2. QED
    BY <2>1 DEF CardsScoredByRules
<1>3. QED
  BY <1>1, <1>2, CardStep, PTL DEF SpotPitSpec
=============================================================================
