------------------------------ MODULE ArenaProofs ------------------------------
(***************************************************************************)
(* Theorems about module Arena, for any players, rules and durations, any  *)
(* number of polls and requests under way, and whatever the price feeds    *)
(* and the chain answer.                                                   *)
(***************************************************************************)
EXTENDS Arena, FiniteSetTheorems, TLAPS

RoundRecords ==
    [status : ActiveStatus \cup {"complete", "cancelled"}, number : Nat, seats : SUBSET Player,
     alive : Int, vault : Nat, createdAt : Int, enrollDeadline : Int, liveDeadline : Int,
     endedAt : Int]

(* Rounds that were created but not saved yet are first rounds. *)
NewRounds == {r \in RoundRecords : r.status = "enrolling" /\ r.number = 1}

Deposits == [wallet : Player, vault : Nat, at : Nat]

ArenaTypes ==
    /\ game \in Games /\ now \in Nat
    /\ rounds \in Seq(RoundRecords) /\ Len(vaults) \in Nat
    /\ hosting \subseteq NewRounds
    /\ \A q \in polls : q.at \in Int /\ q.sync.wallets \subseteq Player
    /\ \A e \in enrolls : e.wallet \in Player
    /\ signed \subseteq Deposits /\ deposits \subseteq Deposits

AtMostOne == \A i, j \in Active : i = j

ArenaInv == ArenaTypes /\ AtMostOne

-----------------------------------------------------------------------------
(* The store. *)

LEMMA MinMax == \A a, b \in Int : Min({a, b}) \in Int /\ Max({a, b}) \in Int
<1> SUFFICES ASSUME NEW a \in Int, NEW b \in Int PROVE Min({a, b}) \in Int /\ Max({a, b}) \in Int
  OBVIOUS
<1>1. CASE a <= b
  <2>1. \E x \in {a, b} : \A y \in {a, b} : x <= y
    BY <1>1
  <2>2. \E x \in {a, b} : \A y \in {a, b} : x >= y
    BY <1>1
  <2>3. QED
    BY <2>1, <2>2 DEF Min, Max
<1>2. CASE b <= a
  <2>1. \E x \in {a, b} : \A y \in {a, b} : x <= y
    BY <1>2
  <2>2. \E x \in {a, b} : \A y \in {a, b} : x >= y
    BY <1>2
  <2>3. QED
    BY <2>1, <2>2 DEF Min, Max
<1>3. QED
  BY <1>1, <1>2

(* The newest of at most one active round is that round. *)
LEMMA ActiveRound ==
  ASSUME ArenaInv
  PROVE  /\ ActiveId = NoRound => Active = {}
         /\ ActiveId # NoRound => ActiveId \in DOMAIN rounds /\ Active = {ActiveId}
<1> USE DEF ArenaInv, ArenaTypes
<1>1. NoRound \notin DOMAIN rounds
  BY DEF NoRound
<1>2. CASE Active = {}
  BY <1>2 DEF ActiveId, Newest
<1>3. CASE Active # {}
  <2>1. PICK k \in Active : Active = {k}
    BY <1>3 DEF AtMostOne
  <2>2. ActiveId = k
    BY <2>1 DEF ActiveId, Newest
  <2>3. k \in DOMAIN rounds
    BY DEF Active
  <2>4. QED
    BY <1>1, <2>1, <2>2, <2>3
<1>4. QED
  BY <1>2, <1>3

(* s is a later record of round r: same vault, same age. *)
SameRound(r, s) == s.vault = r.vault /\ s.createdAt = r.createdAt

LEMMA EndedRecord ==
  ASSUME NEW r \in RoundRecords, NEW s \in {"complete", "cancelled"}, now \in Nat
  PROVE  /\ EndedAs(r, s) \in RoundRecords
         /\ EndedAs(r, s).status = s
         /\ EndedAs(r, s).seats = r.seats /\ SameRound(r, EndedAs(r, s))
<1>1. s \in ActiveStatus \cup {"complete", "cancelled"} /\ now \in Int
  OBVIOUS
<1>2. EndedAs(r, s) = [r EXCEPT !.status = s, !.endedAt = now]
  BY DEF EndedAs
<1>3. QED
  BY <1>1, <1>2 DEF RoundRecords, SameRound

(* Saving a new round leaves no other active, and ended ones as they were. *)
LEMMA NewRound ==
  ASSUME NEW rs \in Seq(RoundRecords), NEW r \in RoundRecords, now \in Nat
  PROVE  /\ SaveNew(rs, r) \in Seq(RoundRecords)
         /\ Len(SaveNew(rs, r)) = Len(rs) + 1
         /\ SaveNew(rs, r)[Len(rs) + 1] = r
         /\ \A i \in 1..Len(rs) :
                /\ rs[i].status \notin ActiveStatus => SaveNew(rs, r)[i] = rs[i]
                /\ SaveNew(rs, r)[i].status \notin ActiveStatus
                /\ SaveNew(rs, r)[i].seats = rs[i].seats
                /\ SaveNew(rs, r)[i].vault = rs[i].vault
                /\ SaveNew(rs, r)[i].createdAt = rs[i].createdAt
<1> DEFINE all == Append(rs, r)
           new == Len(rs) + 1
<1>1. /\ all \in Seq(RoundRecords) /\ Len(all) = new /\ DOMAIN all = 1..new
      /\ all[new] = r /\ new \in Nat
      /\ \A i \in 1..Len(rs) : all[i] = rs[i] /\ i # new /\ i \in 1..new /\ all[i] \in RoundRecords
  OBVIOUS
<1>2. SaveNew(rs, r) =
        [i \in 1..new |-> IF i # new /\ all[i].status \in ActiveStatus
                          THEN EndedAs(all[i], "cancelled") ELSE all[i]]
  <2>1. SaveNew(rs, r) = Retire(all, {i \in DOMAIN all \ {new} : all[i].status \in ActiveStatus})
    BY DEF SaveNew, CancelOtherActive
  <2> HIDE DEF all, new
  <2>2. QED
    BY <1>1, <2>1 DEF Retire
<1> HIDE DEF all, new
<1>3. \A i \in 1..new :
        EndedAs(all[i], "cancelled") \in RoundRecords /\ all[i] \in RoundRecords
        /\ EndedAs(all[i], "cancelled").status = "cancelled"
        /\ EndedAs(all[i], "cancelled").seats = all[i].seats
        /\ SameRound(all[i], EndedAs(all[i], "cancelled"))
  BY <1>1, EndedRecord
<1>4. SaveNew(rs, r) \in Seq(RoundRecords) /\ Len(SaveNew(rs, r)) = new
  BY <1>1, <1>2, <1>3
<1>5. QED
  BY <1>1, <1>2, <1>3, <1>4 DEF ActiveStatus, SameRound, new
-----------------------------------------------------------------------------
(* What any step may do to the rounds of the arena. *)
RoundsStep ==
    /\ rounds' \in Seq(RoundRecords)
    /\ Len(rounds') \in {Len(rounds), Len(rounds) + 1}
    /\ \A i \in DOMAIN rounds :
           /\ i \notin Active => rounds'[i] = rounds[i]
           /\ rounds[i].status # "enrolling" => rounds'[i].seats = rounds[i].seats
           /\ SameRound(rounds[i], rounds'[i])
    /\ Len(rounds') = Len(rounds) + 1 =>
           /\ \A i \in DOMAIN rounds : rounds'[i].status \notin ActiveStatus
           /\ rounds'[Len(rounds) + 1].number > 1 =>
                  /\ rounds'[Len(rounds) + 1].seats = rounds[ActiveId].seats
                  /\ rounds'[Len(rounds) + 1].vault = rounds[ActiveId].vault
                  /\ rounds'[Len(rounds) + 1].createdAt = now

LEMMA NothingSaved ==
  ASSUME ArenaInv, rounds' = rounds
  PROVE  RoundsStep
BY DEF ArenaInv, ArenaTypes, RoundsStep, SameRound

LEMMA RoundSaved ==
  ASSUME ArenaInv, ActiveId # NoRound, NEW r \in RoundRecords,
         rounds[ActiveId].status # "enrolling" => r.seats = rounds[ActiveId].seats,
         SameRound(rounds[ActiveId], r),
         rounds' = Save(rounds, ActiveId, r)
  PROVE  RoundsStep
<1>1. ActiveId \in DOMAIN rounds /\ Active = {ActiveId} /\ rounds \in Seq(RoundRecords)
  BY ActiveRound DEF ArenaInv, ArenaTypes
<1> DEFINE k == ActiveId
<1>2. /\ k \in DOMAIN rounds /\ Active = {k} /\ rounds' = [rounds EXCEPT ![k] = r]
      /\ rounds[k].status # "enrolling" => r.seats = rounds[k].seats
      /\ SameRound(rounds[k], r)
  BY <1>1 DEF Save
<1> HIDE DEF k
<1>3. /\ rounds' \in Seq(RoundRecords) /\ Len(rounds') = Len(rounds) /\ Len(rounds) \in Nat
      /\ \A i \in DOMAIN rounds : rounds'[i] = IF i = k THEN r ELSE rounds[i]
  BY <1>1, <1>2
<1>4. Len(rounds') # Len(rounds) + 1
  BY <1>3
<1>5. \A i \in DOMAIN rounds :
        /\ i \notin Active => rounds'[i] = rounds[i]
        /\ rounds[i].status # "enrolling" => rounds'[i].seats = rounds[i].seats
        /\ SameRound(rounds[i], rounds'[i])
  BY <1>2, <1>3 DEF SameRound
<1>6. QED
  BY <1>3, <1>4, <1>5 DEF RoundsStep

(* A first round, when whatever is active is given up. *)
LEMMA FirstRoundSaved ==
  ASSUME ArenaInv, NEW n \in RoundRecords, n.number = 1, rounds' = SaveNew(rounds, n)
  PROVE  RoundsStep
<1>1. rounds \in Seq(RoundRecords) /\ now \in Nat /\ DOMAIN rounds = 1..Len(rounds)
  BY DEF ArenaInv, ArenaTypes
<1>2. \A i \in DOMAIN rounds : i \notin Active => rounds[i].status \notin ActiveStatus
  BY DEF Active
<1> DEFINE new == SaveNew(rounds, n)
<1>3. /\ new \in Seq(RoundRecords) /\ Len(new) = Len(rounds) + 1 /\ new[Len(rounds) + 1] = n
      /\ \A i \in 1..Len(rounds) :
             /\ rounds[i].status \notin ActiveStatus => new[i] = rounds[i]
             /\ new[i].status \notin ActiveStatus /\ new[i].seats = rounds[i].seats
             /\ SameRound(rounds[i], new[i])
  <2>1. now \in Nat /\ rounds \in Seq(RoundRecords)
    BY <1>1
  <2> DEFINE rs == rounds
  <2> HIDE DEF rs
  <2>2. now \in Nat /\ rs \in Seq(RoundRecords)
    BY <2>1 DEF rs
  <2>3. /\ SaveNew(rs, n) \in Seq(RoundRecords) /\ Len(SaveNew(rs, n)) = Len(rs) + 1
        /\ SaveNew(rs, n)[Len(rs) + 1] = n
        /\ \A i \in 1..Len(rs) :
               /\ rs[i].status \notin ActiveStatus => SaveNew(rs, n)[i] = rs[i]
               /\ SaveNew(rs, n)[i].status \notin ActiveStatus
               /\ SaveNew(rs, n)[i].seats = rs[i].seats
               /\ SameRound(rs[i], SaveNew(rs, n)[i])
    BY <2>2, NewRound DEF SameRound
  <2>4. QED
    BY <2>3 DEF rs
<1>4. rounds' = new
  OBVIOUS
<1> HIDE DEF new
<1>5. rounds'[Len(rounds) + 1].number = 1
  BY <1>3, <1>4
<1>6. \A i \in DOMAIN rounds :
        /\ i \notin Active => new[i] = rounds[i]
        /\ new[i].status \notin ActiveStatus /\ new[i].seats = rounds[i].seats
        /\ SameRound(rounds[i], new[i])
  BY <1>1, <1>2, <1>3
<1>7. QED
  BY <1>3, <1>4, <1>5, <1>6 DEF RoundsStep

(* The next round of a royale, after the active one. *)
LEMMA NextRoundSaved ==
  ASSUME ArenaInv, ActiveId # NoRound, NEW r \in RoundRecords, NEW n \in RoundRecords,
         rounds[ActiveId].status # "enrolling", r.seats = rounds[ActiveId].seats,
         SameRound(rounds[ActiveId], r), n.createdAt = now,
         n.seats = rounds[ActiveId].seats, n.vault = rounds[ActiveId].vault,
         rounds' = SaveNew(Save(rounds, ActiveId, r), n)
  PROVE  RoundsStep
<1>1. /\ ActiveId \in DOMAIN rounds /\ Active = {ActiveId} /\ rounds \in Seq(RoundRecords)
      /\ now \in Nat /\ DOMAIN rounds = 1..Len(rounds) /\ Len(rounds) \in Nat
  BY ActiveRound DEF ArenaInv, ArenaTypes
<1> DEFINE rs == Save(rounds, ActiveId, r)
<1>2. /\ rs \in Seq(RoundRecords) /\ Len(rs) = Len(rounds)
      /\ \A i \in DOMAIN rounds : i # ActiveId => rs[i] = rounds[i]
      /\ rs[ActiveId] = r
  BY <1>1 DEF Save
<1>3. rounds' = SaveNew(rs, n)
  OBVIOUS
<1> HIDE DEF rs
<1>4. \A i \in DOMAIN rounds :
        /\ i # ActiveId => rounds[i].status \notin ActiveStatus
        /\ rs[i].seats = rounds[i].seats /\ SameRound(rounds[i], rs[i])
  BY <1>1, <1>2 DEF Active, SameRound
<1> DEFINE new == SaveNew(rs, n)
<1>5. /\ new \in Seq(RoundRecords) /\ Len(new) = Len(rs) + 1 /\ new[Len(rs) + 1] = n
      /\ \A i \in 1..Len(rs) :
             /\ rs[i].status \notin ActiveStatus => new[i] = rs[i]
             /\ new[i].status \notin ActiveStatus /\ new[i].seats = rs[i].seats
             /\ SameRound(rs[i], new[i])
  <2>1. now \in Nat /\ rs \in Seq(RoundRecords)
    BY <1>1, <1>2
  <2>2. QED
    BY <2>1, NewRound DEF SameRound
<1>6. rounds' = new
  BY <1>3
<1> HIDE DEF new
<1>7. \A i \in DOMAIN rounds :
        /\ i \notin Active => new[i] = rounds[i]
        /\ new[i].status \notin ActiveStatus /\ new[i].seats = rounds[i].seats
        /\ SameRound(rounds[i], new[i])
  BY <1>1, <1>2, <1>4, <1>5 DEF SameRound
<1>8. QED
  BY <1>1, <1>2, <1>5, <1>6, <1>7 DEF RoundsStep

(* Such steps keep the arena at one game at most. *)
LEMMA StillOne ==
  ASSUME ArenaInv, RoundsStep
  PROVE  AtMostOne'
<1> USE DEF ArenaInv, ArenaTypes
<1>1. /\ DOMAIN rounds = 1..Len(rounds) /\ DOMAIN rounds' = 1..Len(rounds')
      /\ Len(rounds) \in Nat
  BY DEF RoundsStep
<1>2. CASE Len(rounds') = Len(rounds)
  <2>1. Active' \subseteq Active
    BY <1>1, <1>2 DEF RoundsStep, Active
  <2>2. QED
    BY <2>1 DEF AtMostOne
<1>3. CASE Len(rounds') = Len(rounds) + 1
  <2>1. Active' \subseteq {Len(rounds) + 1}
    BY <1>1, <1>3 DEF RoundsStep, Active
  <2>2. QED
    BY <2>1 DEF AtMostOne
<1>4. QED
  BY <1>2, <1>3 DEF RoundsStep
-----------------------------------------------------------------------------
(* The functions of the keeper and the seats keep records what they are. *)

LEMMA CountsAreNumbers ==
  ASSUME NEW S \in SUBSET Player
  PROVE  Cardinality(S) \in Nat
BY ArenaAssumption, FS_Subset, FS_CardinalityType

LEMMA Durations ==
  Enrollment \in Nat /\ Grace \in Nat /\ Live \in Nat /\ BotNames \in Nat
<1>1. /\ {Enrollment, Grace, Live} \subseteq Nat \ {0}
      /\ {BotNames, RequestLife, DepositLife} \subseteq Nat
  BY ArenaAssumption
<1>2. QED
  BY <1>1

LEMMA Rules ==
  ASSUME ArenaInv
  PROVE  game.minEntrants \in Nat /\ game.capacity \in Nat /\ game.roundLimit \in Nat /\ now \in Nat
<1>1. game \in Games /\ now \in Nat
  BY DEF ArenaInv, ArenaTypes
<1>2. \A g \in Games : g.minEntrants \in Nat /\ g.capacity \in Nat /\ g.roundLimit \in Nat
  BY ArenaAssumption
<1>3. QED
  BY <1>1, <1>2

LEMMA SeatGiven ==
  ASSUME ArenaInv, NEW r \in RoundRecords, NEW p \in Player
  PROVE  /\ SeatPlayer(r, p) \in RoundRecords
         /\ SameRound(r, SeatPlayer(r, p)) /\ SeatPlayer(r, p).seats \subseteq r.seats \cup {p}
         /\ r.status # "enrolling" => SeatPlayer(r, p) = r
<1>1. now + Enrollment \in Int /\ now \in Nat
  BY Durations, Rules
<1>2. Max({r.enrollDeadline, now + Enrollment}) \in Int
  BY <1>1, MinMax DEF RoundRecords
<1> DEFINE due == IF r.seats # {} THEN r.enrollDeadline
                  ELSE IF Practice THEN now + Enrollment
                  ELSE Max({r.enrollDeadline, now + Enrollment})
<1>3. due \in Int
  BY <1>1, <1>2 DEF RoundRecords
<1>4. r.seats \cup {p} \in SUBSET Player
  BY DEF RoundRecords
<1>5. SeatPlayer(r, p) = IF ~CanSeat(r, p) THEN r
                         ELSE [r EXCEPT !.seats = @ \cup {p}, !.enrollDeadline = due]
  BY DEF SeatPlayer
<1> HIDE DEF due
<1>6. /\ SeatPlayer(r, p) \in RoundRecords
      /\ SameRound(r, SeatPlayer(r, p)) /\ SeatPlayer(r, p).seats \subseteq r.seats \cup {p}
  BY <1>3, <1>4, <1>5 DEF RoundRecords, SameRound
<1>7. r.status # "enrolling" => SeatPlayer(r, p) = r
  BY DEF SeatPlayer, CanSeat
<1>8. QED
  BY <1>6, <1>7

LEMMA DepositorsSeated ==
  ASSUME ArenaInv, NEW r \in RoundRecords, NEW wallets \in SUBSET Player,
         NEW s \in SeatDepositors(r, wallets)
  PROVE  /\ s \in RoundRecords /\ s.status = r.status
         /\ SameRound(r, s) /\ s.seats \subseteq r.seats \cup wallets
<1>1. PICK seats \in SUBSET (r.seats \cup wallets) : s = [r EXCEPT !.seats = seats]
  BY DEF SeatDepositors
<1>2. seats \in SUBSET Player
  BY DEF RoundRecords
<1>3. QED
  BY <1>1, <1>2 DEF RoundRecords, SameRound

LEMMA EnrollingTicked ==
  ASSUME ArenaInv, NEW r \in RoundRecords, r.status = "enrolling", NEW quote
  PROVE  /\ TickEnrolling(r, quote) \in RoundRecords
         /\ TickEnrolling(r, quote).status # "advancing"
         /\ TickEnrolling(r, quote).seats = r.seats /\ SameRound(r, TickEnrolling(r, quote))
<1>1. /\ now \in Nat /\ now + Enrollment \in Int /\ now + Live \in Int
      /\ BotNames \in Int /\ game.minEntrants \in Int /\ Grace \in Int
  BY Durations, Rules
<1>2. /\ Extended(r) \in RoundRecords /\ Extended(r).status = "enrolling"
      /\ Extended(r).seats = r.seats /\ SameRound(r, Extended(r))
  <2>1. Max({r.enrollDeadline, r.createdAt + Grace}) \in Int
    <3>1. r.enrollDeadline \in Int /\ r.createdAt \in Int
      BY DEF RoundRecords
    <3>2. r.createdAt + Grace \in Int
      BY <1>1, <3>1
    <3>3. QED
      BY <3>1, <3>2, MinMax
  <2>2. \A d \in Int : /\ [r EXCEPT !.enrollDeadline = d] \in RoundRecords
                       /\ [r EXCEPT !.enrollDeadline = d].status = r.status
                       /\ [r EXCEPT !.enrollDeadline = d].seats = r.seats
                       /\ SameRound(r, [r EXCEPT !.enrollDeadline = d])
    BY DEF RoundRecords, SameRound
  <2>3. r.enrollDeadline \in Int
    BY DEF RoundRecords
  <2>4. QED
    BY <1>1, <2>1, <2>2, <2>3 DEF Extended, SameRound
<1> DEFINE e == Extended(r)
           humans == Cardinality(e.seats)
<1>3. humans \in Nat
  <2>1. e.seats \in SUBSET Player
    BY <1>2 DEF RoundRecords
  <2>2. QED
    BY <2>1, CountsAreNumbers
<1>4. WithBots(humans) \in Int
  <2> HIDE DEF humans
  <2>1. Max({game.minEntrants, humans}) - humans \in Int
    <3>1. humans \in Int
      BY <1>3
    <3>2. Max({game.minEntrants, humans}) \in Int
      BY <1>1, <3>1, MinMax
    <3>3. QED
      BY <3>1, <3>2
  <2>2. Min({BotNames, Max({game.minEntrants, humans}) - humans}) \in Int
    BY <1>1, <2>1, MinMax
  <2>3. QED
    BY <1>3, <2>2 DEF WithBots
<1> DEFINE started == [e EXCEPT !.status = "live", !.alive = WithBots(humans),
                                !.liveDeadline = now + Live]
<1>5. /\ started \in RoundRecords /\ started.status = "live"
      /\ started.seats = e.seats /\ SameRound(e, started)
  <2> HIDE DEF humans, e
  <2>1. e \in RoundRecords
    BY <1>2 DEF e
  <2>2. "live" \in ActiveStatus \cup {"complete", "cancelled"}
    BY DEF ActiveStatus
  <2>3. QED
    BY <1>1, <1>4, <2>1, <2>2 DEF RoundRecords, SameRound
<1>6. TickEnrolling(r, quote) \in {e, EndedAs(e, "cancelled"), started}
  BY DEF TickEnrolling
<1>7. /\ EndedAs(e, "cancelled") \in RoundRecords /\ EndedAs(e, "cancelled").status = "cancelled"
      /\ EndedAs(e, "cancelled").seats = e.seats /\ SameRound(e, EndedAs(e, "cancelled"))
  BY <1>1, <1>2, EndedRecord
<1>8. QED
  BY <1>2, <1>5, <1>6, <1>7 DEF SameRound

LEMMA LiveTicked ==
  ASSUME ArenaInv, NEW r \in RoundRecords, NEW quote
  PROVE  /\ TickLive(r, quote) \in RoundRecords
         /\ TickLive(r, quote).seats = r.seats /\ SameRound(r, TickLive(r, quote))
         /\ r.status # "enrolling" => TickLive(r, quote).status # "enrolling"
<1> DEFINE survivors == (r.alive + 1) \div 2
           left == [r EXCEPT !.alive = survivors]
           next == [r EXCEPT !.status = "advancing", !.alive = survivors]
<1>1. now \in Nat
  BY DEF ArenaInv, ArenaTypes
<1>2. r.alive \in Int
  BY DEF RoundRecords
<1>3. survivors \in Int
  BY <1>2
<1>4. "advancing" \in ActiveStatus
  BY DEF ActiveStatus
<1>5. TickLive(r, quote) \in {r, EndedAs(left, "complete"), next}
  BY DEF TickLive, Settled
<1> HIDE DEF survivors
<1>6. left \in RoundRecords /\ left.seats = r.seats /\ SameRound(r, left)
  BY <1>3 DEF RoundRecords, SameRound
<1>7. /\ next \in RoundRecords /\ next.seats = r.seats /\ SameRound(r, next)
      /\ next.status = "advancing"
  BY <1>3, <1>4 DEF RoundRecords, SameRound
<1> HIDE DEF left
<1>8. /\ EndedAs(left, "complete") \in RoundRecords
      /\ EndedAs(left, "complete").status = "complete"
      /\ EndedAs(left, "complete").seats = r.seats /\ SameRound(r, EndedAs(left, "complete"))
  BY <1>1, <1>6, EndedRecord DEF SameRound
<1>9. QED
  BY <1>5, <1>7, <1>8 DEF SameRound

LEMMA NextRound ==
  ASSUME ArenaInv, NEW r \in RoundRecords
  PROVE  /\ Advance(r) \in RoundRecords
         /\ Advance(r).seats = r.seats /\ Advance(r).vault = r.vault
         /\ Advance(r).createdAt = now
<1>1. now \in Int /\ now + Live \in Int
  BY Durations, Rules
<1>2. "live" \in ActiveStatus
  BY DEF ActiveStatus
<1>3. r.number + 1 \in Nat
  BY DEF RoundRecords
<1>4. QED
  BY <1>1, <1>2, <1>3 DEF Advance, RoundRecords
-----------------------------------------------------------------------------
(* Every action keeps the types and takes such a step. *)

Kept == ArenaTypes' /\ RoundsStep

LEMMA RoundCreated ==
  ASSUME ArenaInv, NEW v \in Nat
  PROVE  CreateRound(v) \in NewRounds
<1>1. now \in Int /\ now + Enrollment \in Int
  BY Durations, Rules
<1>2. "enrolling" \in ActiveStatus
  BY DEF ActiveStatus
<1>3. {} \in SUBSET Player
  OBVIOUS
<1>4. QED
  BY <1>1, <1>2, <1>3 DEF CreateRound, NewRounds, RoundRecords

LEMMA HostSteps ==
  ASSUME ArenaInv, HostOpens \/ \E r \in hosting : HostSaves(r)
  PROVE  Kept
<1>1. CASE HostOpens
  <2>1. Len(vaults) + 1 \in Nat
    BY DEF ArenaInv, ArenaTypes
  <2>2. Len(vaults') \in Nat
    BY <1>1, <2>1 DEF HostOpens
  <2>3. hosting' \subseteq NewRounds
    BY <1>1, <2>1, RoundCreated DEF HostOpens, ArenaInv, ArenaTypes
  <2>4. RoundsStep
    BY <1>1, NothingSaved DEF HostOpens
  <2>5. QED
    BY <1>1, <2>2, <2>3, <2>4 DEF HostOpens, Kept, ArenaInv, ArenaTypes
<1>2. ASSUME NEW r \in hosting, HostSaves(r) PROVE Kept
  <2>1. r \in RoundRecords /\ r.number = 1
    BY DEF ArenaInv, ArenaTypes, NewRounds
  <2>2. rounds' = rounds \/ rounds' = SaveNew(rounds, r)
    BY <1>2 DEF HostSaves
  <2>3. RoundsStep
    BY <2>1, <2>2, NothingSaved, FirstRoundSaved
  <2>4. QED
    BY <1>2, <2>3 DEF HostSaves, Kept, ArenaInv, ArenaTypes, RoundsStep
<1>3. QED
  BY <1>1, <1>2

LEMMA DepositSteps ==
  ASSUME ArenaInv,
         (\E p \in Player : SignDeposit(p)) \/ (\E d \in signed : LandDeposit(d))
  PROVE  Kept
<1>1. RoundsStep
  <2>1. rounds' = rounds
    BY DEF SignDeposit, LandDeposit
  <2>2. QED
    BY <2>1, NothingSaved
<1>2. now \in Nat /\ signed \subseteq Deposits /\ deposits \subseteq Deposits
  BY DEF ArenaInv, ArenaTypes
<1>3. ASSUME NEW p \in Player, SignDeposit(p) PROVE ArenaTypes'
  <2>1. ActiveId # NoRound
    BY <1>3 DEF SignDeposit
  <2>2. rounds[ActiveId] \in RoundRecords
    BY <2>1, ActiveRound DEF ArenaInv, ArenaTypes
  <2>3. rounds[ActiveId].vault \in Nat
    BY <2>2 DEF RoundRecords
  <2>4. [wallet |-> p, vault |-> rounds[ActiveId].vault, at |-> now] \in Deposits
    BY <1>2, <2>3 DEF Deposits
  <2>5. signed' \subseteq Deposits
    <3>1. signed' = signed \cup {[wallet |-> p, vault |-> rounds[ActiveId].vault, at |-> now]}
      BY <1>3 DEF SignDeposit
    <3>2. QED
      BY <1>2, <2>4, <3>1
  <2>6. QED
    BY <1>3, <2>5 DEF SignDeposit, requestVars, ArenaInv, ArenaTypes
<1>4. ASSUME NEW d \in signed, LandDeposit(d) PROVE ArenaTypes'
  <2>1. [d EXCEPT !.at = now] \in Deposits
    BY <1>2 DEF Deposits
  <2>2. signed' \subseteq signed /\ deposits' \subseteq deposits \cup {[d EXCEPT !.at = now]}
    BY <1>4 DEF LandDeposit
  <2>3. signed' \subseteq Deposits /\ deposits' \subseteq Deposits
    BY <1>2, <2>1, <2>2
  <2>4. QED
    BY <1>4, <2>3 DEF LandDeposit, requestVars, ArenaInv, ArenaTypes
<1>5. QED
  BY <1>1, <1>3, <1>4 DEF Kept

LEMMA RequestSteps ==
  ASSUME ArenaInv,
         \/ \E p \in Player : EnrollPeeks(p)
         \/ \E e \in enrolls : EnrollSeats(e)
         \/ CancelPeeks
         \/ \E c \in cancels : CancelCommits(c)
  PROVE  Kept
<1>1. ASSUME NEW p \in Player, EnrollPeeks(p) PROVE Kept
  <2>1. RoundsStep
    BY <1>1, NothingSaved DEF EnrollPeeks
  <2>2. QED
    BY <1>1, <2>1 DEF EnrollPeeks, Kept, ArenaInv, ArenaTypes
<1>2. ASSUME NEW e \in enrolls, EnrollSeats(e) PROVE Kept
  <2>1. e.wallet \in Player
    BY DEF ArenaInv, ArenaTypes
  <2>2. ASSUME ActiveId # NoRound PROVE RoundsStep
    <3>1. rounds[ActiveId] \in RoundRecords
      BY <2>2, ActiveRound DEF ArenaInv, ArenaTypes
    <3>2. QED
      BY <1>2, <2>1, <2>2, <3>1, SeatGiven, RoundSaved DEF EnrollSeats
  <2>3. RoundsStep
    BY <1>2, <2>2, NothingSaved DEF EnrollSeats
  <2>4. QED
    BY <1>2, <2>3 DEF EnrollSeats, Kept, ArenaInv, ArenaTypes, RoundsStep
<1>3. CASE CancelPeeks
  <2>1. RoundsStep
    BY <1>3, NothingSaved DEF CancelPeeks
  <2>2. QED
    BY <1>3, <2>1 DEF CancelPeeks, Kept, ArenaInv, ArenaTypes
<1>4. ASSUME NEW c \in cancels, CancelCommits(c) PROVE Kept
  <2>1. rounds' = rounds => RoundsStep
    BY NothingSaved
  <2>2. ASSUME ActiveId # NoRound,
               rounds' = Save(rounds, ActiveId, EndedAs(rounds[ActiveId], "cancelled"))
        PROVE  RoundsStep
    <3>1. rounds[ActiveId] \in RoundRecords /\ now \in Nat
      BY <2>2, ActiveRound DEF ArenaInv, ArenaTypes
    <3>2. QED
      BY <2>2, <3>1, EndedRecord, RoundSaved
  <2>3. RoundsStep
    BY <1>4, <2>1, <2>2 DEF CancelCommits
  <2>4. QED
    BY <1>4, <2>3 DEF CancelCommits, Kept, ArenaInv, ArenaTypes, RoundsStep
<1>5. QED
  BY <1>1, <1>2, <1>3, <1>4
LEMMA Synced ==
  ASSUME ArenaInv, NEW sync \in SeatSyncs
  PROVE  sync.wallets \subseteq Player
<1>1. Depositors(rounds[ActiveId].vault) \subseteq Player
  BY DEF Depositors, Deposits, ArenaInv, ArenaTypes
<1>2. CASE sync.wallets = {}
  BY <1>2
<1>3. ASSUME NEW listed \in SUBSET Depositors(rounds[ActiveId].vault),
             sync.wallets = listed \ rounds[ActiveId].seats
      PROVE  sync.wallets \subseteq Player
  BY <1>1, <1>3
<1>4. QED
  BY <1>2, <1>3 DEF SeatSyncs, NothingToSeat, ChainUnread

(* What a poll makes of the active round: a later record of the same round, with seats for
   some of the wallets it found, and the next round after it if one is due. *)
LEMMA RoundMade ==
  ASSUME ArenaInv, ActiveId # NoRound, NEW q \in polls, NEW quote,
         rounds' \in Keep(q, quote)
  PROVE  \E r \in RoundRecords :
           /\ SameRound(rounds[ActiveId], r)
           /\ r.seats \subseteq rounds[ActiveId].seats \cup q.sync.wallets
           /\ rounds[ActiveId].status # "enrolling" =>
                  r.seats = rounds[ActiveId].seats /\ r.status # "enrolling"
           /\ \/ rounds' = Save(rounds, ActiveId, r)
              \/ /\ rounds[ActiveId].status # "enrolling"
                 /\ rounds' = SaveNew(Save(rounds, ActiveId, r), Advance(r))
<1> DEFINE id == ActiveId
           r0 == rounds[id]
           enrolling == q.id = id /\ r0.status = "enrolling"
<1>1. /\ id \in DOMAIN rounds /\ Active = {id} /\ r0 \in RoundRecords
      /\ rounds \in Seq(RoundRecords) /\ q.sync.wallets \subseteq Player
  BY ActiveRound DEF ArenaInv, ArenaTypes
<1>2. CancelOtherActive(rounds, id) = rounds
  <2>1. {i \in DOMAIN rounds \ {id} : rounds[i].status \in ActiveStatus} = {}
    BY <1>1 DEF Active
  <2>2. rounds = [i \in DOMAIN rounds |-> rounds[i]]
    BY <1>1
  <2>3. QED
    BY <2>1, <2>2 DEF CancelOtherActive, Retire
<1>3. PICK seated \in IF enrolling THEN SeatDepositors(r0, q.sync.wallets) ELSE {r0} :
        rounds' = LET r == Ticked(seated, quote)
                  IN IF enrolling /\ HoldLock(seated, q.sync) THEN Save(rounds, id, seated)
                     ELSE IF r.status = "advancing" THEN SaveNew(Save(rounds, id, r), Advance(r))
                     ELSE Save(rounds, id, r)
  BY <1>2 DEF Keep
<1> DEFINE r == Ticked(seated, quote)
<1>4. /\ seated \in RoundRecords /\ seated.status = r0.status /\ SameRound(r0, seated)
      /\ seated.seats \subseteq r0.seats \cup q.sync.wallets
      /\ r0.status # "enrolling" => seated = r0
  BY <1>1, <1>3, DepositorsSeated DEF SameRound
<1>5. /\ r \in RoundRecords /\ SameRound(r0, r) /\ r.seats = seated.seats
      /\ r0.status = "enrolling" => r.status # "advancing"
      /\ r0.status # "enrolling" => r.status # "enrolling"
  <2>1. CASE r0.status = "enrolling"
    BY <1>4, <2>1, EnrollingTicked DEF Ticked, SameRound
  <2>2. CASE r0.status # "enrolling"
    BY <1>4, <2>2, LiveTicked DEF Ticked, SameRound
  <2>3. QED
    BY <2>1, <2>2
<1> HIDE DEF r
<1>6. CASE rounds' = Save(rounds, id, seated)
  <2>1. seated \in RoundRecords
    BY <1>4
  <2> WITNESS seated \in RoundRecords
  <2>2. QED
    BY <1>4, <1>6
<1>7. CASE rounds' = Save(rounds, id, r)
  <2>1. r \in RoundRecords
    BY <1>5
  <2> WITNESS r \in RoundRecords
  <2>2. QED
    BY <1>4, <1>5, <1>7
<1>8. CASE r.status = "advancing" /\ rounds' = SaveNew(Save(rounds, id, r), Advance(r))
  <2>1. r \in RoundRecords
    BY <1>5
  <2> WITNESS r \in RoundRecords
  <2>2. QED
    BY <1>4, <1>5, <1>8
<1>9. QED
  BY <1>3, <1>6, <1>7, <1>8 DEF r

LEMMA RoundKept ==
  ASSUME ArenaInv, ActiveId # NoRound, NEW q \in polls, NEW quote,
         rounds' \in Keep(q, quote)
  PROVE  RoundsStep
<1>1. PICK r \in RoundRecords :
           /\ SameRound(rounds[ActiveId], r)
           /\ rounds[ActiveId].status # "enrolling" => r.seats = rounds[ActiveId].seats
           /\ \/ rounds' = Save(rounds, ActiveId, r)
              \/ /\ rounds[ActiveId].status # "enrolling"
                 /\ rounds' = SaveNew(Save(rounds, ActiveId, r), Advance(r))
  BY RoundMade
<1>2. CASE rounds' = Save(rounds, ActiveId, r)
  BY <1>1, <1>2, RoundSaved
<1>3. CASE /\ rounds[ActiveId].status # "enrolling"
           /\ rounds' = SaveNew(Save(rounds, ActiveId, r), Advance(r))
  <2>1. /\ Advance(r) \in RoundRecords /\ Advance(r).seats = r.seats
        /\ Advance(r).vault = r.vault /\ Advance(r).createdAt = now
    BY NextRound
  <2>2. r.seats = rounds[ActiveId].seats /\ r.vault = rounds[ActiveId].vault
    BY <1>1, <1>3 DEF SameRound
  <2>3. QED
    BY <1>1, <1>3, <2>1, <2>2, NextRoundSaved
<1>4. QED
  BY <1>1, <1>2, <1>3

LEMMA PollSteps ==
  ASSUME ArenaInv,
         PollPeeks \/ \E q \in polls, quote \in Quotes : PollKeeps(q, quote)
  PROVE  Kept
<1>1. CASE PollPeeks
  <2>1. RoundsStep
    BY <1>1, NothingSaved DEF PollPeeks
  <2>2. PICK sync \in SeatSyncs : polls' = polls \cup {[id |-> ActiveId, sync |-> sync, at |-> now]}
    BY <1>1 DEF PollPeeks
  <2>3. now \in Int /\ sync.wallets \subseteq Player
    BY Synced DEF ArenaInv, ArenaTypes
  <2>4. \A q \in polls' : q.at \in Int /\ q.sync.wallets \subseteq Player
    BY <2>2, <2>3 DEF ArenaInv, ArenaTypes
  <2>5. QED
    BY <1>1, <2>1, <2>4 DEF PollPeeks, Kept, ArenaInv, ArenaTypes
<1>2. ASSUME NEW q \in polls, NEW quote \in Quotes, PollKeeps(q, quote) PROVE Kept
  <2>1. rounds' = rounds => RoundsStep
    BY NothingSaved
  <2> DEFINE n == [CreateRound(NoVault) EXCEPT !.createdAt = q.at,
                                               !.enrollDeadline = q.at + Enrollment]
  <2>2. ASSUME rounds' = SaveNew(rounds, n) PROVE RoundsStep
    <3>1. CreateRound(NoVault) \in RoundRecords /\ CreateRound(NoVault).number = 1
      BY RoundCreated DEF NoVault, NewRounds
    <3>2. q.at \in Int /\ q.at + Enrollment \in Int
      BY Durations DEF ArenaInv, ArenaTypes
    <3>3. n \in RoundRecords /\ n.number = 1
      BY <3>1, <3>2 DEF RoundRecords
    <3>4. QED
      BY <2>2, <3>3, FirstRoundSaved
  <2>3. ActiveId # NoRound /\ rounds' \in Keep(q, quote) => RoundsStep
    BY RoundKept
  <2>4. RoundsStep
    BY <1>2, <2>1, <2>2, <2>3 DEF PollKeeps, Boot
  <2>5. QED
    BY <1>2, <2>4 DEF PollKeeps, Kept, ArenaInv, ArenaTypes, RoundsStep
<1>3. QED
  BY <1>1, <1>2

LEMMA TimeStep ==
  ASSUME ArenaInv, PassTime
  PROVE  Kept
<1>1. RoundsStep
  BY NothingSaved DEF PassTime
<1>2. /\ polls' \subseteq polls /\ enrolls' \subseteq enrolls
      /\ hosting' \subseteq hosting /\ signed' \subseteq signed
  BY DEF PassTime, Running
<1>3. now + 1 \in Nat
  BY DEF ArenaInv, ArenaTypes
<1>4. QED
  BY <1>1, <1>2, <1>3 DEF PassTime, Kept, ArenaInv, ArenaTypes

LEMMA ArenaStep ==
  ASSUME ArenaInv, [ArenaNext]_arenaVars
  PROVE  ArenaInv' /\ RoundsStep
<1>1. CASE ArenaNext
  <2>1. Kept
    BY <1>1, HostSteps, DepositSteps, RequestSteps, PollSteps, TimeStep DEF ArenaNext
  <2>2. QED
    BY <2>1, StillOne DEF Kept, ArenaInv
<1>2. CASE UNCHANGED arenaVars
  <2>1. ArenaInv' /\ rounds' = rounds
    BY <1>2 DEF arenaVars, requestVars, ArenaInv, ArenaTypes, AtMostOne, Active
  <2>2. QED
    BY <2>1, NothingSaved
<1>3. QED
  BY <1>1, <1>2

-----------------------------------------------------------------------------
(* The state keeps its shape, and never more than one round of the arena is active. *)
THEOREM ArenaInvariant == ArenaSpec => []ArenaInv
<1>1. ArenaInit => ArenaInv
  BY DEF ArenaInit, ArenaInv, ArenaTypes, AtMostOne, Active
<1>2. ArenaInv /\ [ArenaNext]_arenaVars => ArenaInv'
  BY ArenaStep
<1>3. QED
  BY <1>1, <1>2, PTL DEF ArenaSpec

(* However polls, hosts, enrolments and cancellations interleave, an arena never runs two
   games at once. *)
THEOREM NeverTwoGames == ArenaSpec => []OneActive
<1>1. ASSUME ArenaInv PROVE OneActive
  <2>1. CASE ActiveId = NoRound
    BY <1>1, <2>1, ActiveRound, FS_EmptySet DEF OneActive
  <2>2. CASE ActiveId # NoRound
    BY <1>1, <2>2, ActiveRound, FS_Singleton DEF OneActive
  <2>3. QED
    BY <2>1, <2>2
<1>2. QED
  BY <1>1, ArenaInvariant, PTL

(* No step changes the record of a finished round. *)
THEOREM ResultsNeverChange == ArenaSpec => ResultsAreFinal
<1>1. ASSUME ArenaInv, [ArenaNext]_arenaVars
      PROVE  \A i \in DOMAIN rounds : Ended(i) => rounds'[i] = rounds[i]
  <2>1. RoundsStep
    BY <1>1, ArenaStep
  <2>2. \A i \in DOMAIN rounds : Ended(i) => i \notin Active
    BY DEF Ended, Active, ActiveStatus
  <2>3. QED
    BY <2>1, <2>2 DEF RoundsStep
<1>2. QED
  BY <1>1, ArenaInvariant, PTL DEF ArenaSpec, ResultsAreFinal

LEMMA LastOne ==
  ASSUME NEW m \in Nat, NEW n \in {m, m + 1}, NEW i \in (1..n) \ (1..m)
  PROVE  i = m + 1 /\ n = m + 1
OBVIOUS

(* No step changes who plays once a game is live, and the next round of a royale has the same
   players and the same vault. *)
THEOREM RosterNeverChanges == ArenaSpec => RosterIsFixed
<1> DEFINE Fixed ==
      /\ \A i \in DOMAIN rounds :
             rounds[i].status = "live" => rounds'[i].seats = rounds[i].seats
      /\ \A i \in DOMAIN rounds' \ DOMAIN rounds :
             rounds'[i].number > 1 =>
                 /\ rounds'[i].seats = rounds[ActiveId].seats
                 /\ rounds'[i].vault = rounds[ActiveId].vault
<1>1. ASSUME ArenaInv, [ArenaNext]_arenaVars PROVE Fixed
  <2>1. RoundsStep
    BY <1>1, ArenaStep
  <2>2. /\ DOMAIN rounds = 1..Len(rounds) /\ DOMAIN rounds' = 1..Len(rounds')
        /\ Len(rounds) \in Nat
    BY <1>1, <2>1 DEF RoundsStep, ArenaInv, ArenaTypes
  <2>3. \A i \in DOMAIN rounds : rounds[i].status = "live" => rounds'[i].seats = rounds[i].seats
    BY <2>1 DEF RoundsStep
  <2>4. ASSUME NEW i \in DOMAIN rounds' \ DOMAIN rounds
        PROVE  i = Len(rounds) + 1 /\ Len(rounds') = Len(rounds) + 1
    <3>1. Len(rounds') \in {Len(rounds), Len(rounds) + 1}
      BY <2>1 DEF RoundsStep
    <3>2. i \in (1..Len(rounds')) \ (1..Len(rounds))
      BY <2>2
    <3>3. QED
      BY <2>2, <3>1, <3>2, LastOne
  <2>5. QED
    BY <2>1, <2>3, <2>4 DEF RoundsStep
<1>2. QED
  BY <1>1, ArenaInvariant, PTL DEF ArenaSpec, RosterIsFixed
-----------------------------------------------------------------------------
(* With one vault per arena code (opening a code again takes the operator's secret), every
   deposit, every seat and every request under way is about that vault, and rounds are saved
   in the order they were created. *)

Purse == 1

OneVault ==
    /\ Len(vaults) <= 1
    /\ hosting # {} \/ rounds # <<>> => Len(vaults) = 1
    /\ hosting = {} \/ rounds = <<>>

HostingFunded ==
    /\ \A r, s \in hosting : r = s
    /\ \A r \in hosting : r.vault = Purse /\ r.seats = {} /\ r.createdAt <= now

RoundsFunded ==
    \A i \in DOMAIN rounds :
        /\ rounds[i].vault = Purse /\ rounds[i].seats \subseteq Depositors(Purse)
        /\ rounds[i].createdAt <= now
        /\ \A j \in DOMAIN rounds : i <= j => rounds[i].createdAt <= rounds[j].createdAt

DepositsFunded == \A d \in signed \cup deposits : d.vault = Purse /\ rounds # <<>>

RequestsFunded ==
    /\ \A e \in enrolls : e.wallet \in Depositors(Purse)
    /\ \A q \in polls : q.sync.wallets \subseteq Depositors(Purse)

Funded == OneVault /\ HostingFunded /\ RoundsFunded /\ DepositsFunded /\ RequestsFunded

FundsInv == IF Paid THEN Funded ELSE signed = {} /\ deposits = {}

(* The round a step appends has the vault, and is the youngest. *)
Appended(n) ==
    /\ n.vault = Purse /\ n.seats \subseteq Depositors(Purse) /\ n.createdAt <= now
    /\ \A i \in DOMAIN rounds : rounds[i].createdAt <= n.createdAt

LEMMA RoundsStayFunded ==
  ASSUME ArenaInv, Funded, RoundsStep, now' = now, deposits' = deposits,
         \A i \in DOMAIN rounds : rounds'[i].seats \subseteq Depositors(Purse),
         Len(rounds') = Len(rounds) + 1 => Appended(rounds'[Len(rounds) + 1])
  PROVE  RoundsFunded'
<1>1. /\ DOMAIN rounds = 1..Len(rounds) /\ DOMAIN rounds' = 1..Len(rounds')
      /\ Len(rounds) \in Nat /\ Len(rounds') \in {Len(rounds), Len(rounds) + 1}
      /\ Len(rounds') \in Nat
  BY DEF RoundsStep, ArenaInv, ArenaTypes
<1>2. Depositors(Purse)' = Depositors(Purse)
  BY DEF Depositors, Purse
<1>3. \A i \in DOMAIN rounds :
        /\ rounds'[i].vault = Purse /\ rounds'[i].createdAt = rounds[i].createdAt
        /\ rounds[i].createdAt <= now
        /\ \A j \in DOMAIN rounds : i <= j => rounds[i].createdAt <= rounds[j].createdAt
  BY DEF Funded, RoundsFunded, RoundsStep, SameRound
<1>4. ASSUME NEW i \in DOMAIN rounds' \ DOMAIN rounds
      PROVE  i = Len(rounds) + 1 /\ Appended(rounds'[i])
  <2>1. i \in (1..Len(rounds')) \ (1..Len(rounds))
    BY <1>1
  <2>2. i = Len(rounds) + 1 /\ Len(rounds') = Len(rounds) + 1
    BY <1>1, <2>1, LastOne
  <2>3. QED
    BY <2>2
<1>5. \A i \in DOMAIN rounds' : rounds'[i].createdAt \in Int
  <2>1. \A s \in Seq(RoundRecords) : \A i \in DOMAIN s : s[i] \in RoundRecords
    OBVIOUS
  <2>2. \A r \in RoundRecords : r.createdAt \in Int
    BY DEF RoundRecords
  <2>3. rounds' \in Seq(RoundRecords)
    BY DEF RoundsStep
  <2>4. QED
    BY <2>1, <2>2, <2>3
<1>6. ASSUME NEW i \in DOMAIN rounds'
      PROVE  /\ rounds'[i].vault = Purse /\ rounds'[i].seats \subseteq Depositors(Purse)
             /\ rounds'[i].createdAt <= now
  BY <1>3, <1>4 DEF Appended
<1>7. ASSUME NEW i \in DOMAIN rounds', NEW j \in DOMAIN rounds', i <= j
      PROVE  rounds'[i].createdAt <= rounds'[j].createdAt
  <2>1. CASE j \in DOMAIN rounds
    <3>1. i \in 1..Len(rounds') /\ j \in 1..Len(rounds)
      BY <1>1, <2>1
    <3>2. \A m, n \in Nat : \A k \in 1..n, l \in 1..m : k <= l => k \in 1..m
      OBVIOUS
    <3>3. i \in DOMAIN rounds
      BY <1>1, <1>7, <3>1, <3>2
    <3>4. QED
      BY <1>3, <1>7, <2>1, <3>3
  <2>2. CASE j \notin DOMAIN rounds /\ i \in DOMAIN rounds
    BY <1>3, <1>4, <2>2 DEF Appended
  <2>3. CASE j \notin DOMAIN rounds /\ i \notin DOMAIN rounds
    <3>1. i = j
      BY <1>4, <2>3
    <3>2. QED
      BY <1>5, <3>1
  <2>4. QED
    BY <2>1, <2>2, <2>3
<1>8. QED
  BY <1>2, <1>6, <1>7 DEF RoundsFunded

(* Saving a record of the active round, and perhaps the next round after it. *)
LEMMA SaveFunded ==
  ASSUME ArenaInv, Funded, RoundsStep, ActiveId # NoRound, now' = now, deposits' = deposits,
         NEW r \in RoundRecords, r.seats \subseteq Depositors(Purse), SameRound(rounds[ActiveId], r),
         \/ rounds' = Save(rounds, ActiveId, r)
         \/ rounds' = SaveNew(Save(rounds, ActiveId, r), Advance(r))
  PROVE  RoundsFunded'
<1>1. /\ ActiveId \in DOMAIN rounds /\ rounds \in Seq(RoundRecords) /\ now \in Nat
      /\ DOMAIN rounds = 1..Len(rounds) /\ Len(rounds) \in Nat
  BY ActiveRound DEF ArenaInv, ArenaTypes
<1> DEFINE rs == Save(rounds, ActiveId, r)
<1>2. /\ rs \in Seq(RoundRecords) /\ Len(rs) = Len(rounds)
      /\ \A i \in DOMAIN rounds : rs[i] = IF i = ActiveId THEN r ELSE rounds[i]
  BY <1>1 DEF Save
<1>3. rounds' = rs \/ rounds' = SaveNew(rs, Advance(r))
  OBVIOUS
<1> HIDE DEF rs
<1>4. \A i \in DOMAIN rounds : rs[i].seats \subseteq Depositors(Purse)
  BY <1>2 DEF Funded, RoundsFunded
<1>5. CASE rounds' = rs
  BY <1>1, <1>2, <1>4, <1>5, RoundsStayFunded
<1>6. CASE rounds' = SaveNew(rs, Advance(r))
  <2>1. /\ Advance(r) \in RoundRecords /\ Advance(r).seats = r.seats
        /\ Advance(r).vault = r.vault /\ Advance(r).createdAt = now
    BY NextRound
  <2> DEFINE n == Advance(r)
  <2> HIDE DEF n
  <2>2. /\ Len(SaveNew(rs, n)) = Len(rs) + 1 /\ SaveNew(rs, n)[Len(rs) + 1] = n
        /\ \A i \in 1..Len(rs) : SaveNew(rs, n)[i].seats = rs[i].seats
    <3>1. rs \in Seq(RoundRecords) /\ n \in RoundRecords /\ now \in Nat
      BY <1>1, <1>2, <2>1 DEF n
    <3>2. QED
      BY <3>1, NewRound
  <2>3. rounds' = SaveNew(rs, n)
    BY <1>6 DEF n
  <2>4. \A i \in DOMAIN rounds : rounds'[i].seats \subseteq Depositors(Purse)
    BY <1>1, <1>2, <1>4, <2>2, <2>3
  <2>5. rounds'[Len(rounds) + 1] = n
    BY <1>2, <2>2, <2>3
  <2>6. Appended(n)
    BY <1>1, <2>1 DEF n, Appended, Funded, RoundsFunded, SameRound
  <2>7. QED
    BY <2>4, <2>5, <2>6, RoundsStayFunded
<1>7. QED
  BY <1>3, <1>5, <1>6

LEMMA StoreFunded ==
  ASSUME ArenaInv, Paid, Funded, RoundsStep,
         \/ \E e \in enrolls : EnrollSeats(e)
         \/ \E c \in cancels : CancelCommits(c)
         \/ \E q \in polls, quote \in Quotes : PollKeeps(q, quote)
  PROVE  Funded'
<1>1. /\ now' = now /\ deposits' = deposits /\ signed' = signed /\ vaults' = vaults
      /\ hosting' = hosting /\ enrolls' \subseteq enrolls /\ polls' \subseteq polls
  BY DEF EnrollSeats, CancelCommits, PollKeeps
<1>2. ASSUME ActiveId # NoRound PROVE rounds[ActiveId] \in RoundRecords /\ ActiveId \in DOMAIN rounds
  BY <1>2, ActiveRound DEF ArenaInv, ArenaTypes
<1>3. ASSUME ActiveId # NoRound PROVE rounds[ActiveId].seats \subseteq Depositors(Purse)
  BY <1>2, <1>3 DEF Funded, RoundsFunded
<1>4. RoundsFunded'
  <2>1. CASE rounds' = rounds
    BY <1>1, <2>1 DEF RoundsFunded, Funded, Depositors, Purse
  <2>2. ASSUME NEW e \in enrolls, EnrollSeats(e), ActiveId # NoRound PROVE RoundsFunded'
    <3>1. e.wallet \in Player /\ e.wallet \in Depositors(Purse)
      BY DEF ArenaInv, ArenaTypes, Funded, RequestsFunded
    <3> DEFINE s == SeatPlayer(rounds[ActiveId], e.wallet)
    <3>2. /\ s \in RoundRecords /\ SameRound(rounds[ActiveId], s)
          /\ s.seats \subseteq rounds[ActiveId].seats \cup {e.wallet}
      BY <1>2, <2>2, <3>1, SeatGiven
    <3>3. rounds' = Save(rounds, ActiveId, s)
      BY <2>2 DEF EnrollSeats
    <3> HIDE DEF s
    <3>4. s.seats \subseteq Depositors(Purse)
      BY <1>3, <2>2, <3>1, <3>2
    <3>5. QED
      BY <1>1, <2>2, <3>2, <3>3, <3>4, SaveFunded
  <2>3. ASSUME NEW c \in cancels, CancelCommits(c), rounds' # rounds PROVE RoundsFunded'
    <3> DEFINE s == EndedAs(rounds[ActiveId], "cancelled")
    <3>1. ActiveId # NoRound /\ rounds' = Save(rounds, ActiveId, s)
      BY <2>3 DEF CancelCommits
    <3>2. /\ s \in RoundRecords /\ SameRound(rounds[ActiveId], s)
          /\ s.seats = rounds[ActiveId].seats
      BY <1>2, <3>1, EndedRecord DEF ArenaInv, ArenaTypes
    <3> HIDE DEF s
    <3>3. QED
      BY <1>1, <1>3, <3>1, <3>2, SaveFunded
  <2>4. ASSUME NEW q \in polls, NEW quote \in Quotes, PollKeeps(q, quote), rounds' # rounds
        PROVE  RoundsFunded'
    <3>1. ActiveId # NoRound /\ rounds' \in Keep(q, quote)
      BY <2>4 DEF PollKeeps, Boot, Practice, Paid
    <3>2. PICK r \in RoundRecords :
             /\ SameRound(rounds[ActiveId], r)
             /\ r.seats \subseteq rounds[ActiveId].seats \cup q.sync.wallets
             /\ \/ rounds' = Save(rounds, ActiveId, r)
                \/ rounds' = SaveNew(Save(rounds, ActiveId, r), Advance(r))
      BY <3>1, RoundMade
    <3>3. r.seats \subseteq Depositors(Purse)
      BY <1>3, <3>1, <3>2 DEF Funded, RequestsFunded
    <3>4. QED
      BY <1>1, <3>1, <3>2, <3>3, SaveFunded
  <2>5. QED
    BY <2>1, <2>2, <2>3, <2>4 DEF EnrollSeats
<1>5. rounds' = <<>> <=> rounds = <<>>
  <2>1. CASE rounds = <<>>
    <3>1. Active = {}
      BY <2>1 DEF Active
    <3>2. ActiveId = NoRound
      BY <3>1 DEF ActiveId, Newest
    <3>3. QED
      BY <2>1, <3>2 DEF EnrollSeats, CancelCommits, PollKeeps, Boot, Practice, Paid
  <2>2. CASE rounds # <<>>
    <3>1. Len(rounds) > 0 /\ Len(rounds) \in Nat /\ Len(rounds') \in {Len(rounds), Len(rounds) + 1}
      BY <2>2 DEF ArenaInv, ArenaTypes, RoundsStep
    <3>2. QED
      BY <2>2, <3>1 DEF RoundsStep
  <2>3. QED
    BY <2>1, <2>2
<1>6. QED
  BY <1>1, <1>4, <1>5 DEF Funded, OneVault, HostingFunded, DepositsFunded, RequestsFunded,
                          Depositors, Purse

LEMMA HostFunded ==
  ASSUME ArenaInv, Paid, Funded, MaxHosts <= 1, HostOpens \/ \E r \in hosting : HostSaves(r)
  PROVE  Funded'
<1>1. Len(vaults) \in Nat /\ MaxHosts \in Nat /\ now \in Nat
  BY ArenaAssumption DEF ArenaInv, ArenaTypes
<1>2. CASE HostOpens
  <2>1. /\ Len(vaults) = 0 /\ hosting = {} /\ rounds = <<>>
    <3>1. Len(vaults) < MaxHosts
      BY <1>2 DEF HostOpens
    <3>2. Len(vaults) = 0
      BY <1>1, <3>1
    <3>3. QED
      BY <3>2 DEF Funded, OneVault
  <2>2. /\ rounds' = rounds /\ now' = now /\ deposits' = deposits /\ signed' = signed
        /\ enrolls' = enrolls /\ polls' = polls /\ vaults' = Append(vaults, SettleDeadline)
        /\ hosting' = {CreateRound(Purse)}
    BY <1>2, <2>1 DEF HostOpens, Purse
  <2>3. Len(vaults') = 1
    BY <2>1, <2>2
  <2>4. CreateRound(Purse).vault = Purse /\ CreateRound(Purse).seats = {}
        /\ CreateRound(Purse).createdAt <= now
    BY <1>1 DEF CreateRound
  <2>5. OneVault' /\ HostingFunded'
    BY <2>1, <2>2, <2>3, <2>4 DEF OneVault, HostingFunded
  <2>6. RoundsFunded' /\ DepositsFunded' /\ RequestsFunded'
    BY <2>2 DEF Funded, RoundsFunded, DepositsFunded, RequestsFunded, Depositors, Purse
  <2>7. QED
    BY <2>5, <2>6 DEF Funded
<1>3. ASSUME NEW r \in hosting, HostSaves(r) PROVE Funded'
  <2>1. /\ rounds = <<>> /\ hosting = {r} /\ Len(vaults) = 1
        /\ r.vault = Purse /\ r.seats = {} /\ r.createdAt <= now
    BY DEF Funded, OneVault, HostingFunded
  <2>2. /\ now' = now /\ deposits' = deposits /\ signed' = signed
        /\ enrolls' = enrolls /\ polls' = polls /\ vaults' = vaults /\ hosting' = {}
    BY <1>3, <2>1 DEF HostSaves
  <2>3. ActiveId = NoRound
    BY <2>1 DEF ActiveId, Newest, Active
  <2>4. rounds' = SaveNew(<<>>, r)
    BY <1>3, <2>1, <2>3 DEF HostSaves
  <2>5. r \in RoundRecords
    BY DEF ArenaInv, ArenaTypes, NewRounds
  <2> DEFINE none == <<>>
  <2>6. none \in Seq(RoundRecords) /\ Len(none) = 0
    OBVIOUS
  <2> HIDE DEF none
  <2>7. Len(SaveNew(none, r)) = 1 /\ SaveNew(none, r)[1] = r
    <3>1. Len(SaveNew(none, r)) = Len(none) + 1 /\ SaveNew(none, r)[Len(none) + 1] = r
      BY <1>1, <2>5, <2>6, NewRound
    <3>2. Len(none) + 1 = 1
      BY <2>6
    <3>3. QED
      BY <3>1, <3>2
  <2>8. RoundsStep
    BY <1>3, HostSteps DEF Kept
  <2>9. /\ Len(rounds') = Len(rounds) + 1 /\ rounds'[Len(rounds) + 1] = r /\ DOMAIN rounds = {}
    BY <2>1, <2>4, <2>7 DEF none
  <2>10. Appended(r)
    BY <2>1, <2>9 DEF Appended
  <2>11. RoundsFunded'
    BY <2>2, <2>8, <2>9, <2>10, RoundsStayFunded
  <2>12. OneVault' /\ HostingFunded' /\ DepositsFunded' /\ RequestsFunded'
    BY <2>1, <2>2 DEF Funded, OneVault, HostingFunded, DepositsFunded, RequestsFunded,
                      Depositors, Purse
  <2>13. QED
    BY <2>11, <2>12 DEF Funded
<1>4. QED
  BY <1>2, <1>3

LEMMA DepositsStayFunded ==
  ASSUME ArenaInv, Paid, Funded,
         (\E p \in Player : SignDeposit(p)) \/ (\E d \in signed : LandDeposit(d))
  PROVE  Funded'
<1>1. /\ rounds' = rounds /\ vaults' = vaults /\ hosting' = hosting /\ now' = now
      /\ enrolls' = enrolls /\ polls' = polls
  BY DEF SignDeposit, LandDeposit, requestVars
<1>2. \A d \in signed' \cup deposits' : d.vault = Purse /\ rounds # <<>>
  <2>1. ASSUME NEW p \in Player, SignDeposit(p)
        PROVE  \A d \in signed' \cup deposits' : d.vault = Purse /\ rounds # <<>>
    <3>1. ActiveId \in DOMAIN rounds
      BY <2>1, ActiveRound DEF SignDeposit
    <3>2. rounds[ActiveId].vault = Purse /\ rounds # <<>>
      BY <3>1 DEF Funded, RoundsFunded
    <3>3. deposits' = deposits
          /\ signed' = signed \cup {[wallet |-> p, vault |-> rounds[ActiveId].vault, at |-> now]}
      BY <2>1 DEF SignDeposit
    <3>4. QED
      BY <3>2, <3>3 DEF Funded, DepositsFunded
  <2>2. ASSUME NEW d \in signed, LandDeposit(d)
        PROVE  \A e \in signed' \cup deposits' : e.vault = Purse /\ rounds # <<>>
    <3>1. d \in Deposits
      BY DEF ArenaInv, ArenaTypes
    <3>2. [d EXCEPT !.at = now].vault = d.vault
      BY <3>1 DEF Deposits
    <3>3. signed' \subseteq signed /\ deposits' \subseteq deposits \cup {[d EXCEPT !.at = now]}
      BY <2>2 DEF LandDeposit
    <3>4. QED
      BY <3>2, <3>3 DEF Funded, DepositsFunded
  <2>3. QED
    BY <2>1, <2>2
<1>3. Depositors(Purse) \subseteq Depositors(Purse)'
  BY DEF SignDeposit, LandDeposit, Depositors, Purse
<1>4. OneVault' /\ HostingFunded' /\ DepositsFunded'
  BY <1>1, <1>2 DEF Funded, OneVault, HostingFunded, DepositsFunded
<1>5. RoundsFunded' /\ RequestsFunded'
  BY <1>1, <1>3 DEF Funded, RoundsFunded, RequestsFunded
<1>6. QED
  BY <1>4, <1>5 DEF Funded

LEMMA PeeksFunded ==
  ASSUME ArenaInv, Paid, Funded,
         (\E p \in Player : EnrollPeeks(p)) \/ CancelPeeks \/ PollPeeks \/ PassTime
  PROVE  Funded'
<1>1. /\ rounds' = rounds /\ vaults' = vaults /\ deposits' = deposits
      /\ signed' \subseteq signed /\ hosting' \subseteq hosting /\ now' \in {now, now + 1}
  BY DEF EnrollPeeks, CancelPeeks, PollPeeks, PassTime
<1>2. now \in Nat
  BY DEF ArenaInv, ArenaTypes
<1>3. ASSUME ActiveId # NoRound PROVE rounds[ActiveId].vault = Purse
  BY <1>3, ActiveRound DEF Funded, RoundsFunded
<1>4. RequestsFunded'
  <2>1. ASSUME NEW p \in Player, EnrollPeeks(p) PROVE RequestsFunded'
    BY <1>1, <1>3, <2>1 DEF EnrollPeeks, Verified, Funded, RequestsFunded, Depositors, Purse
  <2>2. CASE PollPeeks
    <3>1. PICK sync \in SeatSyncs :
            polls' = polls \cup {[id |-> ActiveId, sync |-> sync, at |-> now]}
      BY <2>2 DEF PollPeeks
    <3>2. sync.wallets \subseteq Depositors(Purse)
      <4>1. CASE sync.wallets = {}
        BY <4>1
      <4>2. ASSUME ActiveId # NoRound, NEW listed \in SUBSET Depositors(rounds[ActiveId].vault),
                   sync.wallets = listed \ rounds[ActiveId].seats
            PROVE  sync.wallets \subseteq Depositors(Purse)
        BY <1>3, <4>2
      <4>3. QED
        BY <4>1, <4>2 DEF SeatSyncs, NothingToSeat, ChainUnread
    <3>3. \A q \in polls' : q.sync.wallets \subseteq Depositors(Purse)
      BY <3>1, <3>2 DEF Funded, RequestsFunded
    <3>4. enrolls' = enrolls
      BY <2>2 DEF PollPeeks
    <3>5. QED
      BY <1>1, <3>3, <3>4 DEF Funded, RequestsFunded, Depositors, Purse
  <2>3. CASE CancelPeeks \/ PassTime
    BY <1>1, <2>3 DEF CancelPeeks, PassTime, Running, Funded, RequestsFunded, Depositors, Purse
  <2>4. QED
    BY <2>1, <2>2, <2>3
<1>5. OneVault' /\ DepositsFunded'
  BY <1>1 DEF Funded, OneVault, DepositsFunded
<1>6. HostingFunded'
  <2>1. \A r \in hosting : r.createdAt \in Int
    BY DEF ArenaInv, ArenaTypes, NewRounds, RoundRecords
  <2>2. QED
    BY <1>1, <1>2, <2>1 DEF Funded, HostingFunded
<1>7. RoundsFunded'
  <2>1. \A i \in DOMAIN rounds : rounds[i].createdAt \in Int
    <3>1. \A i \in DOMAIN rounds : rounds[i] \in RoundRecords
      BY DEF ArenaInv, ArenaTypes
    <3>2. QED
      BY <3>1 DEF RoundRecords
  <2>2. QED
    BY <1>1, <1>2, <2>1 DEF Funded, RoundsFunded, Depositors, Purse
<1>8. QED
  BY <1>4, <1>5, <1>6, <1>7 DEF Funded

LEMMA FundsStep ==
  ASSUME ArenaInv, FundsInv, MaxHosts <= 1, [ArenaNext]_arenaVars
  PROVE  FundsInv'
<1>1. CASE ArenaNext
  <2>1. game' = game
    BY <1>1 DEF ArenaNext, HostOpens, HostSaves, SignDeposit, LandDeposit, EnrollPeeks,
                EnrollSeats, CancelPeeks, CancelCommits, PollPeeks, PollKeeps, PassTime
  <2>2. Paid' <=> Paid
    BY <2>1 DEF Paid
  <2>3. CASE Paid
    <3>1. RoundsStep
      BY <1>1, ArenaStep
    <3>2. Funded
      BY <2>3 DEF FundsInv
    <3>3. Funded'
      BY <1>1, <2>3, <3>1, <3>2, HostFunded, DepositsStayFunded, PeeksFunded, StoreFunded
      DEF ArenaNext
    <3>4. QED
      BY <2>2, <2>3, <3>3 DEF FundsInv
  <2>4. CASE ~Paid
    <3>1. signed = {} /\ deposits = {}
      BY <2>4 DEF FundsInv
    <3>2. signed' = {} /\ deposits' = {}
      BY <1>1, <2>4, <3>1 DEF ArenaNext, HostOpens, HostSaves, SignDeposit, LandDeposit,
                EnrollPeeks, EnrollSeats, CancelPeeks, CancelCommits, PollPeeks, PollKeeps, PassTime
    <3>3. QED
      BY <2>2, <2>4, <3>2 DEF FundsInv
  <2>5. QED
    BY <2>3, <2>4
<1>2. CASE UNCHANGED arenaVars
  BY <1>2 DEF arenaVars, requestVars, FundsInv, Funded, OneVault, HostingFunded, RoundsFunded,
              DepositsFunded, RequestsFunded, Depositors, Paid, Purse
<1>3. QED
  BY <1>1, <1>2

(* The latest round is the last one saved. *)
LEMMA LastIsLatest ==
  ASSUME ArenaInv, RoundsFunded, rounds # <<>>
  PROVE  LatestId \in DOMAIN rounds
<1>1. /\ Len(rounds) \in Nat \ {0} /\ DOMAIN rounds = 1..Len(rounds)
      /\ \A i \in DOMAIN rounds : rounds[i] \in RoundRecords
  BY DEF ArenaInv, ArenaTypes
<1>2. \A i \in DOMAIN rounds : rounds[i].createdAt \in Int
  BY <1>1 DEF RoundRecords
<1> DEFINE last == Len(rounds)
<1>3. last \in DOMAIN rounds /\ \A j \in DOMAIN rounds \ {last} : j < last
  BY <1>1
<1>4. \A j \in DOMAIN rounds \ {last} :
        \/ rounds[j].createdAt < rounds[last].createdAt
        \/ rounds[j].createdAt = rounds[last].createdAt /\ j < last
  <2>1. ASSUME NEW j \in DOMAIN rounds \ {last}
        PROVE  j < last /\ rounds[j].createdAt <= rounds[last].createdAt
    <3>1. j < last /\ j <= last
      BY <1>1, <1>3
    <3>2. QED
      BY <1>3, <3>1 DEF RoundsFunded
  <2>2. QED
    BY <1>2, <1>3, <2>1
<1>5. QED
  BY <1>3, <1>4 DEF LatestId, Newest

(* Where one code has one vault, the round that the settle route looks up is the one whose
   vault holds every deposit, and nobody sits in a paid round without a deposit there. *)
THEOREM DepositsAlwaysFound ==
  ASSUME MaxHosts <= 1
  PROVE  ArenaSpec => []SettlementFindsDeposits
<1>1. ArenaInit => FundsInv
  BY DEF ArenaInit, FundsInv, Funded, OneVault, HostingFunded, RoundsFunded, DepositsFunded,
         RequestsFunded
<1>2. ArenaInv /\ FundsInv /\ [ArenaNext]_arenaVars => FundsInv'
  BY FundsStep
<1>3. ArenaInv /\ FundsInv => SettlementFindsDeposits
  <2> SUFFICES ASSUME ArenaInv, FundsInv PROVE SettlementFindsDeposits
    OBVIOUS
  <2>1. CASE Paid
    <3>1. RoundsFunded /\ DepositsFunded
      BY <2>1 DEF FundsInv, Funded
    <3>2. \A d \in deposits : LatestId # NoRound /\ rounds[LatestId].vault = d.vault
      <4> SUFFICES ASSUME NEW d \in deposits
                   PROVE  LatestId # NoRound /\ rounds[LatestId].vault = d.vault
        OBVIOUS
      <4>1. d.vault = Purse /\ LatestId \in DOMAIN rounds
        BY <3>1, LastIsLatest DEF DepositsFunded
      <4>2. NoRound \notin DOMAIN rounds
        BY DEF NoRound, ArenaInv, ArenaTypes
      <4>3. QED
        BY <3>1, <4>1, <4>2 DEF RoundsFunded
    <3>3. \A i \in DOMAIN rounds : rounds[i].seats \subseteq Depositors(rounds[i].vault)
      BY <3>1 DEF RoundsFunded
    <3>4. QED
      BY <3>2, <3>3 DEF SettlementFindsDeposits
  <2>2. CASE ~Paid
    BY <2>2 DEF FundsInv, SettlementFindsDeposits
  <2>3. QED
    BY <2>1, <2>2
<1>4. QED
  BY <1>1, <1>2, <1>3, ArenaInvariant, PTL DEF ArenaSpec
-----------------------------------------------------------------------------
(* What a poll or a cancellation read of the chain stays good enough until it uses it: whoever
   had paid when a poll looked has a seat, is on its list, or keeps the poll from locking; and a
   cancellation found nobody who had paid.  Everybody who paid has room. *)

FirstEnrolls == \A i \in DOMAIN rounds : rounds[i].status = "enrolling" => Len(rounds) = 1

RoomForAll == Cardinality(Depositors(Purse)) <= game.capacity

Fresh(q) == q.at \in Int /\ q.at <= now /\ now <= q.at + RequestLife

(* Who has paid since then, unless the game is over. *)
PaidSince(q) == \A d \in deposits : d.at < q.at => Active = {}

CancelsSynced == \A c \in cancels : Fresh(c) /\ PaidSince(c)

Found(q, d, r) ==
    \/ d.wallet \in r.seats \cup q.sync.wallets
    \/ q.sync.failed
    \/ q.at < r.enrollDeadline - PreLock

PollsSynced ==
    \A q \in polls :
        /\ Fresh(q)
        /\ q.id \in DOMAIN rounds \cup {NoRound}
        /\ q.id = NoRound => PaidSince(q)
        /\ q.id # NoRound /\ rounds[q.id].status = "enrolling" =>
               \A d \in deposits : d.at < q.at => Found(q, d, rounds[q.id])

SyncInv == FirstEnrolls /\ RoomForAll /\ CancelsSynced /\ PollsSynced

LEMMA Timing ==
  /\ RequestLife \in Nat /\ PreLock \in Nat /\ HoldMax \in Nat /\ Enrollment \in Nat
  /\ Grace \in Nat
<1>1. /\ {Enrollment, Grace, Live} \subseteq Nat \ {0}
      /\ {PreLock, HoldMax, OracleWait, Hold, RoundSlack, SettleSlack} \subseteq Nat
      /\ {BotNames, RequestLife, DepositLife} \subseteq Nat
  BY ArenaAssumption
<1>2. QED
  BY <1>1

LEMMA MaxAtLeast == \A a, b \in Int : Max({a, b}) >= a
<1> SUFFICES ASSUME NEW a \in Int, NEW b \in Int PROVE Max({a, b}) >= a
  OBVIOUS
<1>1. \E x \in {a, b} : \A y \in {a, b} : x >= y
  BY SMT
<1>2. QED
  BY <1>1 DEF Max

LEMMA MinOfSmaller == \A a, b \in Int : a <= b => Min({a, b}) = a
<1> SUFFICES ASSUME NEW a \in Int, NEW b \in Int, a <= b PROVE Min({a, b}) = a
  OBVIOUS
<1>1. \E x \in {a, b} : \A y \in {a, b} : x <= y
  BY SMT
<1>2. QED
  BY <1>1 DEF Min

LEMMA WhoPaid ==
  ASSUME ArenaInv, Funded
  PROVE  /\ Depositors(Purse) \subseteq Player /\ IsFiniteSet(Depositors(Purse))
         /\ Cardinality(Depositors(Purse)) \in Nat
         /\ \A d \in deposits : d \in Deposits /\ d.wallet \in Depositors(Purse)
<1>1. \A d \in deposits : d \in Deposits /\ d.vault = Purse
  BY DEF ArenaInv, ArenaTypes, Funded, DepositsFunded
<1>2. Depositors(Purse) \subseteq Player
  BY <1>1 DEF Depositors, Deposits
<1>3. IsFiniteSet(Depositors(Purse)) /\ Cardinality(Depositors(Purse)) \in Nat
  BY <1>2, ArenaAssumption, FS_Subset, FS_CardinalityType
<1>4. QED
  BY <1>1, <1>2, <1>3 DEF Depositors

(* As many of those who paid as there are, are all of them. *)
LEMMA AllWhoPaid ==
  ASSUME ArenaInv, Funded, NEW S \in SUBSET Depositors(Purse),
         Cardinality(S) >= Cardinality(Depositors(Purse))
  PROVE  S = Depositors(Purse)
<1>1. IsFiniteSet(Depositors(Purse)) /\ Cardinality(Depositors(Purse)) \in Nat
  BY WhoPaid
<1>2. Cardinality(S) <= Cardinality(Depositors(Purse)) /\ Cardinality(S) \in Nat
  BY <1>1, FS_Subset, FS_CardinalityType
<1>3. Cardinality(S) = Cardinality(Depositors(Purse))
  BY <1>1, <1>2
<1>4. QED
  BY <1>1, <1>3, FS_Subset

(* s is a later record of r: no seat is lost, and an enrolment only gets longer. *)
Grows(r, s) ==
    /\ s.status = "enrolling" => r.status = "enrolling" /\ s.enrollDeadline >= r.enrollDeadline
    /\ r.seats \subseteq s.seats

(* If r's enrolment is over in s, nobody who had paid by then is without a seat. *)
Locks(r, s) ==
    r.status = "enrolling" /\ s.status # "enrolling" =>
        \A d \in deposits : d.at + RequestLife < now =>
            d.wallet \in s.seats \/ now >= r.enrollDeadline + HoldMax

LEMMA EnrollingGrows ==
  ASSUME ArenaInv, Paid, NEW r \in RoundRecords, r.status = "enrolling", NEW quote
  PROVE  LET s == TickEnrolling(r, quote) IN
         /\ s.status = "enrolling" => s.enrollDeadline >= r.enrollDeadline
         /\ s.status # "enrolling" =>
                now >= r.enrollDeadline \/ Cardinality(r.seats) >= game.capacity
<1>1. r.enrollDeadline \in Int /\ r.createdAt + Grace \in Int /\ now \in Nat
  BY Timing, Rules DEF RoundRecords
<1>2. ~Practice
  BY DEF Paid, Practice
<1> DEFINE e == Extended(r)
           humans == Cardinality(e.seats)
<1>3. /\ e.enrollDeadline >= r.enrollDeadline /\ e.enrollDeadline \in Int
      /\ e.status = "enrolling" /\ e.seats = r.seats
  <2>1. \A d : /\ [r EXCEPT !.enrollDeadline = d].status = r.status
               /\ [r EXCEPT !.enrollDeadline = d].seats = r.seats
               /\ [r EXCEPT !.enrollDeadline = d].enrollDeadline = d
    BY DEF RoundRecords
  <2>2. Max({r.enrollDeadline, r.createdAt + Grace}) >= r.enrollDeadline
        /\ Max({r.enrollDeadline, r.createdAt + Grace}) \in Int
    BY <1>1, MaxAtLeast, MinMax
  <2>3. QED
    BY <1>1, <1>2, <2>1, <2>2 DEF Extended
<1>4. CASE now < e.enrollDeadline /\ humans < game.capacity
  <2>1. TickEnrolling(r, quote) = e
    BY <1>4 DEF TickEnrolling
  <2>2. QED
    BY <1>3, <2>1
<1>5. CASE ~(now < e.enrollDeadline /\ humans < game.capacity)
  <2>1. humans \in Nat /\ game.capacity \in Nat
    BY <1>3, CountsAreNumbers, Rules DEF RoundRecords
  <2>2. now >= r.enrollDeadline \/ Cardinality(r.seats) >= game.capacity
    <3> HIDE DEF e
    <3>1. now >= e.enrollDeadline \/ humans >= game.capacity
      BY <1>1, <1>3, <1>5, <2>1
    <3>2. QED
      BY <1>1, <1>3, <3>1
  <2>3. TickEnrolling(r, quote).status = "enrolling" => TickEnrolling(r, quote) = e
    <3> DEFINE started == [e EXCEPT !.status = "live", !.alive = WithBots(humans),
                                    !.liveDeadline = now + Live]
    <3>1. TickEnrolling(r, quote) \in {e, EndedAs(e, "cancelled"), started}
      BY DEF TickEnrolling
    <3>2. e \in RoundRecords
      <4>1. e \in {r} \cup {[r EXCEPT !.enrollDeadline = d] : d \in Int}
        <5>1. Max({r.enrollDeadline, r.createdAt + Grace}) \in Int
          BY <1>1, MinMax
        <5>2. e = r \/ e = [r EXCEPT !.enrollDeadline = Max({r.enrollDeadline, r.createdAt + Grace})]
              \/ e = [r EXCEPT !.enrollDeadline = r.enrollDeadline]
          BY <1>2 DEF Extended
        <5>3. QED
          BY <1>1, <5>1, <5>2
      <4>2. QED
        BY <4>1 DEF RoundRecords
    <3>3. EndedAs(e, "cancelled").status = "cancelled"
      BY <1>1, <3>2, EndedRecord
    <3>4. started.status = "live"
      <4> HIDE DEF e, humans
      <4>1. QED
        BY <3>2 DEF RoundRecords
    <3>5. QED
      BY <3>1, <3>3, <3>4
  <2>4. QED
    BY <1>3, <2>2, <2>3
<1>6. QED
  BY <1>4, <1>5

(* Everybody a poll found gets a seat. *)
LEMMA AllFoundSeated ==
  ASSUME ArenaInv, Funded, RoomForAll, NEW r \in RoundRecords, r.seats \subseteq Depositors(Purse),
         NEW q \in polls, NEW s \in SeatDepositors(r, q.sync.wallets)
  PROVE  /\ s.seats = r.seats \cup q.sync.wallets /\ s.enrollDeadline = r.enrollDeadline
         /\ s.seats \subseteq Depositors(Purse)
<1> DEFINE all == r.seats \cup q.sync.wallets
<1>1. all \subseteq Depositors(Purse)
  BY DEF Funded, RequestsFunded
<1>2. IsFiniteSet(all) /\ Cardinality(all) \in Nat /\ Cardinality(all) <= game.capacity
  <2>1. /\ IsFiniteSet(all) /\ Cardinality(all) <= Cardinality(Depositors(Purse))
        /\ Cardinality(all) \in Nat
    BY <1>1, WhoPaid, FS_Subset, FS_CardinalityType
  <2>2. game.capacity \in Nat /\ Cardinality(Depositors(Purse)) \in Nat
    BY Rules, WhoPaid
  <2>3. QED
    BY <2>1, <2>2 DEF RoomForAll
<1>3. PICK seats \in SUBSET all :
        s = [r EXCEPT !.seats = seats] /\ Cardinality(seats) = Min({Cardinality(all), game.capacity})
  BY DEF SeatDepositors
<1>4. Min({Cardinality(all), game.capacity}) = Cardinality(all)
  <2>1. Cardinality(all) \in Int /\ game.capacity \in Int
    BY <1>2, Rules
  <2>2. QED
    BY <1>2, <2>1, MinOfSmaller
<1>5. seats = all
  BY <1>2, <1>3, <1>4, FS_Subset
<1>6. QED
  BY <1>1, <1>3, <1>5 DEF RoundRecords

(* The heart of it: the poll that ends an enrolment. *)
LEMMA PollLocks ==
  ASSUME ArenaInv, Paid, Funded, SyncInv, RequestLife <= PreLock, ActiveId # NoRound,
         rounds[ActiveId].status = "enrolling",
         NEW q \in polls, NEW quote,
         NEW seated, ActiveId = q.id => seated \in SeatDepositors(rounds[ActiveId], q.sync.wallets),
         ActiveId # q.id => seated = rounds[ActiveId],
         ActiveId = q.id => ~HoldLock(seated, q.sync)
  PROVE  /\ Grows(rounds[ActiveId], TickEnrolling(seated, quote))
         /\ Locks(rounds[ActiveId], TickEnrolling(seated, quote))
<1> DEFINE r == rounds[ActiveId]
           s == TickEnrolling(seated, quote)
<1>1. r \in RoundRecords /\ ActiveId \in DOMAIN rounds /\ Active = {ActiveId}
  BY ActiveRound DEF ArenaInv, ArenaTypes
<1>2. r.seats \subseteq Depositors(Purse)
  BY <1>1 DEF Funded, RoundsFunded
<1>3. /\ seated \in RoundRecords /\ seated.status = "enrolling"
      /\ seated.enrollDeadline = r.enrollDeadline /\ seated.seats \subseteq Depositors(Purse)
      /\ r.seats \subseteq seated.seats
      /\ ActiveId = q.id => seated.seats = r.seats \cup q.sync.wallets
  <2>1. CASE ActiveId = q.id
    <3>1. q.sync.wallets \in SUBSET Player
      BY DEF ArenaInv, ArenaTypes
    <3>2. seated \in SeatDepositors(r, q.sync.wallets)
      BY <2>1
    <3> HIDE DEF r
    <3>3. /\ seated.seats = r.seats \cup q.sync.wallets
          /\ seated.enrollDeadline = r.enrollDeadline /\ seated.seats \subseteq Depositors(Purse)
      BY <1>1, <1>2, <3>2, AllFoundSeated DEF SyncInv
    <3>4. seated \in RoundRecords /\ seated.status = r.status
      BY <1>1, <3>1, <3>2, DepositorsSeated
    <3>5. QED
      BY <3>3, <3>4 DEF r
  <2>2. CASE ActiveId # q.id
    BY <1>1, <1>2, <2>2
  <2>3. QED
    BY <2>1, <2>2
<1> HIDE DEF r
<1>4. s.seats = seated.seats
  BY <1>3, EnrollingTicked
<1>5. /\ s.status = "enrolling" => s.enrollDeadline >= seated.enrollDeadline
      /\ s.status # "enrolling" =>
             now >= seated.enrollDeadline \/ Cardinality(seated.seats) >= game.capacity
  BY <1>3, EnrollingGrows
<1>6. r.status = "enrolling"
  BY DEF r
<1> HIDE DEF s
<1>7. Grows(r, s)
  BY <1>3, <1>4, <1>5, <1>6 DEF Grows
<1>8. ASSUME s.status # "enrolling", NEW d \in deposits, d.at + RequestLife < now
      PROVE  d.wallet \in s.seats \/ now >= r.enrollDeadline + HoldMax
  <2>1. d.wallet \in Depositors(Purse) /\ d.at \in Nat
    BY WhoPaid DEF Deposits
  <2>2. CASE Cardinality(seated.seats) >= game.capacity
    <3>1. Cardinality(Depositors(Purse)) <= game.capacity
      BY DEF SyncInv, RoomForAll
    <3>2. /\ Cardinality(seated.seats) \in Nat /\ game.capacity \in Nat
          /\ Cardinality(Depositors(Purse)) \in Nat
      BY <1>3, WhoPaid, Rules, CountsAreNumbers DEF RoundRecords
    <3>3. Cardinality(seated.seats) >= Cardinality(Depositors(Purse))
      BY <2>2, <3>1, <3>2
    <3>4. seated.seats = Depositors(Purse)
      BY <1>3, <3>3, AllWhoPaid
    <3>5. QED
      BY <1>4, <2>1, <3>4
  <2>3. CASE now >= seated.enrollDeadline
    <3>1. /\ q.at \in Int /\ now <= q.at + RequestLife /\ now \in Nat
          /\ RequestLife \in Nat /\ PreLock \in Nat /\ HoldMax \in Nat
          /\ r.enrollDeadline \in Int
      BY <1>1, Timing, Rules DEF SyncInv, PollsSynced, Fresh, r, RoundRecords
    <3>2. d.at < q.at
      BY <1>8, <2>1, <3>1
    <3>3. q.id \in DOMAIN rounds \cup {NoRound}
          /\ (q.id = NoRound => PaidSince(q))
          /\ (q.id # NoRound /\ rounds[q.id].status = "enrolling" =>
                 \A x \in deposits : x.at < q.at => Found(q, x, rounds[q.id]))
      BY DEF SyncInv, PollsSynced
    <3>4. q.id # NoRound
      BY <1>1, <3>2, <3>3 DEF PaidSince
    <3>5. q.id = ActiveId
      <4>1. Len(rounds) = 1 /\ DOMAIN rounds = 1..Len(rounds)
        BY <1>1, <1>6 DEF SyncInv, FirstEnrolls, ArenaInv, ArenaTypes, r
      <4>2. q.id \in 1..1 /\ ActiveId \in 1..1
        BY <1>1, <3>3, <3>4, <4>1
      <4>3. QED
        BY <4>2
    <3>6. Found(q, d, r)
      BY <1>6, <3>2, <3>3, <3>4, <3>5 DEF r
    <3>7. CASE d.wallet \in r.seats \cup q.sync.wallets
      BY <1>3, <1>4, <3>5, <3>7
    <3>8. CASE q.sync.failed
      <4>1. ~HoldLock(seated, q.sync)
        BY <3>5
      <4>2. ~(now < seated.enrollDeadline + HoldMax)
        BY <2>3, <3>8, <4>1 DEF HoldLock
      <4>3. QED
        BY <1>3, <3>1, <4>2
    <3>9. CASE q.at < r.enrollDeadline - PreLock
      BY <1>3, <2>3, <3>1, <3>9
    <3>10. QED
      BY <3>6, <3>7, <3>8, <3>9 DEF Found
  <2>4. QED
    BY <1>5, <1>8, <2>2, <2>3
<1>9. Locks(r, s)
  BY <1>8 DEF Locks
<1>10. QED
  BY <1>7, <1>9 DEF r, s

(* What any step on the store may do to a paid arena's rounds. *)
RoundsGrow ==
    /\ \A i \in DOMAIN rounds :
           i \in DOMAIN rounds' /\ Grows(rounds[i], rounds'[i]) /\ Locks(rounds[i], rounds'[i])
    /\ FirstEnrolls'
    /\ rounds # <<>> /\ Active = {} => Active' = {}

LEMMA SameGrows ==
  ASSUME NEW r \in RoundRecords
  PROVE  Grows(r, r) /\ Locks(r, r)
<1>1. r.enrollDeadline \in Int
  BY DEF RoundRecords
<1>2. QED
  BY <1>1 DEF Grows, Locks

LEMMA NothingGrows ==
  ASSUME ArenaInv, FirstEnrolls, rounds' = rounds
  PROVE  RoundsGrow
<1>1. \A i \in DOMAIN rounds : rounds[i] \in RoundRecords
  BY DEF ArenaInv, ArenaTypes
<1>2. QED
  BY <1>1, SameGrows DEF RoundsGrow, FirstEnrolls, Active

LEMMA SaveGrows ==
  ASSUME ArenaInv, FirstEnrolls, ActiveId # NoRound, NEW s,
         Grows(rounds[ActiveId], s), Locks(rounds[ActiveId], s),
         rounds' = Save(rounds, ActiveId, s)
  PROVE  RoundsGrow
<1>1. /\ ActiveId \in DOMAIN rounds /\ Active = {ActiveId} /\ rounds \in Seq(RoundRecords)
      /\ \A i \in DOMAIN rounds : rounds[i] \in RoundRecords
  BY ActiveRound DEF ArenaInv, ArenaTypes
<1>2. /\ DOMAIN rounds' = DOMAIN rounds /\ Len(rounds') = Len(rounds)
      /\ \A i \in DOMAIN rounds : rounds'[i] = IF i = ActiveId THEN s ELSE rounds[i]
  BY <1>1 DEF Save
<1>3. \A i \in DOMAIN rounds : Grows(rounds[i], rounds'[i]) /\ Locks(rounds[i], rounds'[i])
  BY <1>1, <1>2, SameGrows
<1>4. FirstEnrolls'
  BY <1>2, <1>3 DEF FirstEnrolls, Grows
<1>5. QED
  BY <1>1, <1>2, <1>3, <1>4 DEF RoundsGrow

LEMMA NextGrows ==
  ASSUME ArenaInv, RoundsStep, ActiveId # NoRound, rounds[ActiveId].status # "enrolling",
         NEW s \in RoundRecords, rounds' = SaveNew(Save(rounds, ActiveId, s), Advance(s))
  PROVE  RoundsGrow
<1>1. /\ ActiveId \in DOMAIN rounds /\ Active = {ActiveId} /\ rounds \in Seq(RoundRecords)
      /\ now \in Nat /\ DOMAIN rounds = 1..Len(rounds) /\ Len(rounds) \in Nat
  BY ActiveRound DEF ArenaInv, ArenaTypes
<1> DEFINE rs == Save(rounds, ActiveId, s)
           n == Advance(s)
<1>2. rs \in Seq(RoundRecords) /\ Len(rs) = Len(rounds)
  BY <1>1 DEF Save
<1>3. n \in RoundRecords /\ n.status = "live"
  BY NextRound DEF Advance, RoundRecords
<1>4. rounds' = SaveNew(rs, n)
  OBVIOUS
<1> HIDE DEF rs, n
<1>5. Len(rounds') = Len(rounds) + 1 /\ rounds'[Len(rounds) + 1] = n
  <2>1. Len(SaveNew(rs, n)) = Len(rs) + 1 /\ SaveNew(rs, n)[Len(rs) + 1] = n
    <3>1. rs \in Seq(RoundRecords) /\ n \in RoundRecords /\ now \in Nat
      BY <1>1, <1>2, <1>3
    <3>2. QED
      BY <3>1, NewRound
  <2>2. QED
    BY <1>2, <1>4, <2>1
<1>6. DOMAIN rounds' = 1..(Len(rounds) + 1)
  BY <1>5 DEF RoundsStep
<1>7. \A i \in DOMAIN rounds : rounds[i].status # "enrolling"
  BY <1>1 DEF Active, ActiveStatus
<1>8. \A i \in DOMAIN rounds :
        /\ rounds'[i].status \notin ActiveStatus /\ rounds'[i].seats = rounds[i].seats
        /\ i \in DOMAIN rounds'
  BY <1>1, <1>5, <1>6, <1>7 DEF RoundsStep
<1>9. \A i \in DOMAIN rounds : Grows(rounds[i], rounds'[i]) /\ Locks(rounds[i], rounds'[i])
  BY <1>7, <1>8 DEF Grows, Locks, ActiveStatus
<1>10. \A i \in DOMAIN rounds' : i \in DOMAIN rounds \/ i = Len(rounds) + 1
  BY <1>1, <1>6
<1>11. FirstEnrolls'
  BY <1>3, <1>5, <1>8, <1>10 DEF FirstEnrolls, ActiveStatus
<1>12. QED
  BY <1>1, <1>8, <1>9, <1>11 DEF RoundsGrow

LEMMA PollGrows ==
  ASSUME ArenaInv, Paid, Funded, SyncInv, RoundsStep, RequestLife <= PreLock, ActiveId # NoRound,
         NEW q \in polls, NEW quote, rounds' \in Keep(q, quote)
  PROVE  RoundsGrow
<1>1. /\ ActiveId \in DOMAIN rounds /\ Active = {ActiveId} /\ rounds[ActiveId] \in RoundRecords
      /\ rounds \in Seq(RoundRecords) /\ q.sync.wallets \in SUBSET Player
  BY ActiveRound DEF ArenaInv, ArenaTypes
<1>2. FirstEnrolls
  BY DEF SyncInv
<1>3. CASE rounds[ActiveId].status # "enrolling"
  <2>1. PICK r \in RoundRecords :
           /\ r.seats = rounds[ActiveId].seats /\ r.status # "enrolling"
           /\ \/ rounds' = Save(rounds, ActiveId, r)
              \/ rounds' = SaveNew(Save(rounds, ActiveId, r), Advance(r))
    BY <1>3, RoundMade
  <2>2. Grows(rounds[ActiveId], r) /\ Locks(rounds[ActiveId], r)
    BY <1>3, <2>1 DEF Grows, Locks
  <2>3. QED
    BY <1>2, <1>3, <2>1, <2>2, SaveGrows, NextGrows
<1>4. CASE rounds[ActiveId].status = "enrolling"
  <2> DEFINE id == ActiveId
             r0 == rounds[id]
             enrolling == q.id = id /\ r0.status = "enrolling"
  <2>1. CancelOtherActive(rounds, id) = rounds
    <3>1. {i \in DOMAIN rounds \ {id} : rounds[i].status \in ActiveStatus} = {}
      BY <1>1 DEF Active
    <3>2. rounds = [i \in DOMAIN rounds |-> rounds[i]]
      BY <1>1
    <3>3. QED
      BY <3>1, <3>2 DEF CancelOtherActive, Retire
  <2>2. PICK seated \in IF enrolling THEN SeatDepositors(r0, q.sync.wallets) ELSE {r0} :
          rounds' = LET r == Ticked(seated, quote)
                    IN IF enrolling /\ HoldLock(seated, q.sync) THEN Save(rounds, id, seated)
                       ELSE IF r.status = "advancing" THEN SaveNew(Save(rounds, id, r), Advance(r))
                       ELSE Save(rounds, id, r)
    BY <2>1 DEF Keep
  <2>3. /\ ActiveId = q.id => seated \in SeatDepositors(rounds[ActiveId], q.sync.wallets)
        /\ ActiveId # q.id => seated = rounds[ActiveId]
    BY <1>4, <2>2
  <2>4. seated \in RoundRecords /\ seated.status = "enrolling"
    BY <1>1, <1>4, <2>3, DepositorsSeated
  <2> DEFINE s == TickEnrolling(seated, quote)
  <2>5. s.status # "advancing"
    BY <2>4, EnrollingTicked
  <2>6. Ticked(seated, quote) = s
    BY <2>4 DEF Ticked
  <2> HIDE DEF s
  <2>7. rounds' = IF ActiveId = q.id /\ HoldLock(seated, q.sync) THEN Save(rounds, ActiveId, seated)
                  ELSE Save(rounds, ActiveId, s)
    BY <1>4, <2>2, <2>5, <2>6
  <2>8. CASE ActiveId = q.id /\ HoldLock(seated, q.sync)
    <3>1. rounds[ActiveId].seats \subseteq Depositors(Purse)
      BY <1>1 DEF Funded, RoundsFunded
    <3>2. /\ seated.seats = rounds[ActiveId].seats \cup q.sync.wallets
          /\ seated.enrollDeadline = rounds[ActiveId].enrollDeadline
      BY <1>1, <2>3, <2>8, <3>1, AllFoundSeated DEF SyncInv
    <3>3. rounds[ActiveId].enrollDeadline \in Int
      BY <1>1 DEF RoundRecords
    <3>4. Grows(rounds[ActiveId], seated) /\ Locks(rounds[ActiveId], seated)
      BY <1>4, <2>4, <3>2, <3>3 DEF Grows, Locks
    <3>5. rounds' = Save(rounds, ActiveId, seated)
      BY <2>7, <2>8
    <3>6. QED
      BY <1>2, <3>4, <3>5, SaveGrows
  <2>9. CASE ~(ActiveId = q.id /\ HoldLock(seated, q.sync))
    <3>1. Grows(rounds[ActiveId], s) /\ Locks(rounds[ActiveId], s)
      BY <1>4, <2>3, <2>9, PollLocks DEF s
    <3>2. rounds' = Save(rounds, ActiveId, s)
      BY <2>7, <2>9
    <3>3. QED
      BY <1>2, <3>1, <3>2, SaveGrows
  <2>10. QED
    BY <2>8, <2>9
<1>5. QED
  BY <1>3, <1>4

LEMMA StoreGrows ==
  ASSUME ArenaInv, Paid, Funded, SyncInv, RoundsStep, RequestLife <= PreLock,
         \/ \E r \in hosting : HostSaves(r)
         \/ \E e \in enrolls : EnrollSeats(e)
         \/ \E c \in cancels : CancelCommits(c)
         \/ \E q \in polls, quote \in Quotes : PollKeeps(q, quote)
  PROVE  RoundsGrow
<1>1. FirstEnrolls
  BY DEF SyncInv
<1>2. ASSUME ActiveId # NoRound
      PROVE  /\ rounds[ActiveId] \in RoundRecords /\ ActiveId \in DOMAIN rounds
             /\ Active = {ActiveId}
  BY <1>2, ActiveRound DEF ArenaInv, ArenaTypes
<1>3. ASSUME NEW r \in hosting, HostSaves(r) PROVE RoundsGrow
  <2>1. rounds = <<>>
    BY DEF Funded, OneVault
  <2>2. /\ Len(rounds') \in {0, 1} /\ DOMAIN rounds' = 1..Len(rounds')
    BY <2>1 DEF RoundsStep
  <2>3. QED
    BY <2>1, <2>2 DEF RoundsGrow, FirstEnrolls
<1>4. ASSUME NEW e \in enrolls, EnrollSeats(e) PROVE RoundsGrow
  <2>1. CASE ActiveId = NoRound
    BY <1>1, <1>4, <2>1, NothingGrows DEF EnrollSeats
  <2>2. CASE ActiveId # NoRound
    <3> DEFINE r == rounds[ActiveId]
               s == SeatPlayer(r, e.wallet)
               later == Max({r.enrollDeadline, now + Enrollment})
               due == IF r.seats # {} THEN r.enrollDeadline ELSE later
    <3>1. rounds' = Save(rounds, ActiveId, s)
      BY <1>4, <2>2 DEF EnrollSeats
    <3>2. r \in RoundRecords
      BY <1>2, <2>2
    <3>3. s = r \/ s = [r EXCEPT !.seats = @ \cup {e.wallet}, !.enrollDeadline = due]
      BY DEF SeatPlayer, Paid, Practice
    <3> HIDE DEF r
    <3>4. due >= r.enrollDeadline
      <4>1. r.enrollDeadline \in Int /\ now + Enrollment \in Int
        BY <3>2, Timing, Rules DEF RoundRecords
      <4>2. later >= r.enrollDeadline
        BY <4>1, MaxAtLeast
      <4>3. QED
        BY <4>1, <4>2
    <3> HIDE DEF s, due
    <3>5. s.status = r.status /\ s.enrollDeadline >= r.enrollDeadline /\ r.seats \subseteq s.seats
      <4>1. r.enrollDeadline \in Int
        BY <3>2 DEF RoundRecords
      <4>2. CASE s = r
        BY <4>1, <4>2
      <4>3. CASE s = [r EXCEPT !.seats = @ \cup {e.wallet}, !.enrollDeadline = due]
        <5>1. /\ s.status = r.status /\ s.enrollDeadline = due
              /\ s.seats = r.seats \cup {e.wallet}
          BY <3>2, <4>3 DEF RoundRecords
        <5>2. QED
          BY <3>4, <5>1
      <4>4. QED
        BY <3>3, <4>2, <4>3
    <3>6. Grows(r, s) /\ Locks(r, s)
      BY <3>5 DEF Grows, Locks
    <3>7. QED
      BY <1>1, <2>2, <3>1, <3>6, SaveGrows DEF r
  <2>3. QED
    BY <2>1, <2>2
<1>5. ASSUME NEW c \in cancels, CancelCommits(c) PROVE RoundsGrow
  <2>1. CASE rounds' = rounds
    BY <1>1, <2>1, NothingGrows
  <2>2. CASE rounds' # rounds
    <3> DEFINE s == EndedAs(rounds[ActiveId], "cancelled")
    <3>1. ActiveId # NoRound /\ rounds' = Save(rounds, ActiveId, s)
      BY <1>5, <2>2 DEF CancelCommits
    <3>2. s.status = "cancelled" /\ s.seats = rounds[ActiveId].seats
      BY <1>2, <3>1, EndedRecord, Rules
    <3> HIDE DEF s
    <3>3. ASSUME NEW d \in deposits, d.at + RequestLife < now PROVE FALSE
      <4>1. /\ c.at \in Int /\ now <= c.at + RequestLife /\ RequestLife \in Nat /\ now \in Nat
            /\ d.at \in Nat
        BY Timing, Rules, WhoPaid DEF SyncInv, CancelsSynced, Fresh, Deposits
      <4>2. d.at < c.at
        BY <3>3, <4>1
      <4>3. QED
        BY <1>2, <3>1, <4>2 DEF SyncInv, CancelsSynced, PaidSince
    <3>4. Grows(rounds[ActiveId], s) /\ Locks(rounds[ActiveId], s)
      BY <3>2, <3>3 DEF Grows, Locks
    <3>5. QED
      BY <1>1, <3>1, <3>4, SaveGrows
  <2>3. QED
    BY <2>1, <2>2
<1>6. ASSUME NEW q \in polls, NEW quote \in Quotes, PollKeeps(q, quote) PROVE RoundsGrow
  <2>1. CASE rounds' = rounds
    BY <1>1, <2>1, NothingGrows
  <2>2. CASE rounds' # rounds
    <3>1. ActiveId # NoRound /\ rounds' \in Keep(q, quote)
      BY <1>6, <2>2 DEF PollKeeps, Boot, Practice, Paid
    <3>2. QED
      BY <3>1, PollGrows
  <2>3. QED
    BY <2>1, <2>2
<1>7. QED
  BY <1>3, <1>4, <1>5, <1>6

LEMMA StoreSynced ==
  ASSUME ArenaInv, RoundsStep, Funded, SyncInv, RoundsGrow, now' = now, deposits' = deposits,
         game' = game, polls' \subseteq polls, cancels' \subseteq cancels
  PROVE  SyncInv'
<1>1. \A i \in DOMAIN rounds :
        /\ i \in DOMAIN rounds' /\ Grows(rounds[i], rounds'[i])
        /\ rounds[i].enrollDeadline \in Int /\ rounds'[i].enrollDeadline \in Int
  <2>1. \A s \in Seq(RoundRecords) : \A i \in DOMAIN s : s[i] \in RoundRecords
    OBVIOUS
  <2>2. \A r \in RoundRecords : r.enrollDeadline \in Int
    BY DEF RoundRecords
  <2>3. rounds \in Seq(RoundRecords) /\ rounds' \in Seq(RoundRecords)
    BY DEF ArenaInv, ArenaTypes, RoundsStep
  <2>4. QED
    BY <2>1, <2>2, <2>3 DEF RoundsGrow
<1>2. \A q : PaidSince(q) => PaidSince(q)'
  BY DEF PaidSince, Funded, DepositsFunded, RoundsGrow
<1>3. RoomForAll'
  BY DEF SyncInv, RoomForAll, Depositors, Purse
<1>4. CancelsSynced'
  BY <1>2 DEF SyncInv, CancelsSynced, Fresh
<1>5. ASSUME NEW q \in polls
      PROVE  /\ Fresh(q)'
             /\ q.id \in DOMAIN rounds' \cup {NoRound}
             /\ q.id = NoRound => PaidSince(q)'
             /\ q.id # NoRound /\ rounds'[q.id].status = "enrolling" =>
                    \A d \in deposits : d.at < q.at => Found(q, d, rounds'[q.id])
  <2>1. Fresh(q)' /\ q.at \in Int
    BY DEF SyncInv, PollsSynced, Fresh
  <2>2. CASE q.id = NoRound
    BY <1>2, <2>1, <2>2 DEF SyncInv, PollsSynced
  <2>3. CASE q.id # NoRound
    <3>1. q.id \in DOMAIN rounds
      BY <2>3 DEF SyncInv, PollsSynced
    <3>2. ASSUME rounds'[q.id].status = "enrolling", NEW d \in deposits, d.at < q.at
          PROVE  Found(q, d, rounds'[q.id])
      <4>1. /\ rounds[q.id].status = "enrolling"
            /\ rounds[q.id].seats \subseteq rounds'[q.id].seats
            /\ rounds'[q.id].enrollDeadline >= rounds[q.id].enrollDeadline
        BY <1>1, <3>1, <3>2 DEF Grows
      <4>2. Found(q, d, rounds[q.id])
        BY <2>3, <3>2, <4>1 DEF SyncInv, PollsSynced
      <4>3. CASE q.at < rounds[q.id].enrollDeadline - PreLock
        <5>1. PreLock \in Nat
          BY Timing
        <5>2. q.at < rounds'[q.id].enrollDeadline - PreLock
          BY <1>1, <2>1, <3>1, <4>1, <4>3, <5>1
        <5>3. QED
          BY <5>2 DEF Found
      <4>4. QED
        BY <4>1, <4>2, <4>3 DEF Found
    <3>3. QED
      BY <1>1, <2>1, <2>3, <3>1, <3>2
  <2>4. QED
    BY <2>2, <2>3
<1>6. PollsSynced'
  BY <1>5 DEF PollsSynced, Found
<1>7. FirstEnrolls'
  BY DEF RoundsGrow
<1>8. QED
  BY <1>3, <1>4, <1>6, <1>7 DEF SyncInv

(* A deposit lands: it is later than whatever the requests under way have read. *)
LEMMA DepositSynced ==
  ASSUME ArenaInv, Funded, SyncInv, NEW d \in signed, LandDeposit(d)
  PROVE  SyncInv'
<1>1. /\ rounds' = rounds /\ polls' = polls /\ cancels' = cancels /\ now' = now /\ game' = game
  BY DEF LandDeposit, requestVars
<1>2. /\ d \in Deposits /\ d.vault = Purse /\ now \in Nat
  BY DEF ArenaInv, ArenaTypes, Funded, DepositsFunded
<1> DEFINE new == [d EXCEPT !.at = now]
<1>3. new.at = now /\ new.wallet = d.wallet /\ new.vault = Purse
  BY <1>2 DEF Deposits
<1>4. deposits' = IF Cardinality(Depositors(Purse)) < game.capacity
                  THEN deposits \cup {new} ELSE deposits
  BY <1>2 DEF LandDeposit
<1> HIDE DEF new
<1>5. \A x \in deposits' : x \in deposits \/ x.at = now
  BY <1>3, <1>4
<1>6. RoomForAll'
  <2>1. CASE deposits' = deposits
    BY <1>1, <2>1 DEF SyncInv, RoomForAll, Depositors, Purse
  <2>2. CASE Cardinality(Depositors(Purse)) < game.capacity /\ deposits' = deposits \cup {new}
    <3>1. Depositors(Purse)' = Depositors(Purse) \cup {d.wallet}
      BY <1>3, <2>2 DEF Depositors, Purse
    <3>2. /\ IsFiniteSet(Depositors(Purse)) /\ Cardinality(Depositors(Purse)) \in Nat
          /\ game.capacity \in Nat
      BY WhoPaid, Rules
    <3>3. Cardinality(Depositors(Purse) \cup {d.wallet}) <= Cardinality(Depositors(Purse)) + 1
      BY <3>2, FS_AddElement
    <3>4. Cardinality(Depositors(Purse) \cup {d.wallet}) \in Nat
      BY <3>2, FS_AddElement, FS_CardinalityType
    <3>5. Cardinality(Depositors(Purse) \cup {d.wallet}) <= game.capacity
      BY <2>2, <3>2, <3>3, <3>4
    <3>6. QED
      BY <1>1, <3>1, <3>5 DEF RoomForAll
  <2>3. QED
    BY <1>4, <2>1, <2>2
<1>7. \A q : Fresh(q) /\ PaidSince(q) => PaidSince(q)'
  BY <1>1, <1>2, <1>5 DEF Fresh, PaidSince, Active
<1>8. \A q : Fresh(q) => Fresh(q)'
  BY <1>1 DEF Fresh
<1>9. CancelsSynced'
  BY <1>1, <1>7, <1>8 DEF SyncInv, CancelsSynced
<1>10. ASSUME NEW q \in polls, q.id # NoRound, rounds[q.id].status = "enrolling",
              NEW x \in deposits', x.at < q.at
       PROVE  Found(q, x, rounds[q.id])
  <2>1. q.at \in Int /\ q.at <= now
    BY DEF SyncInv, PollsSynced, Fresh
  <2>2. x \in deposits
    BY <1>2, <1>5, <1>10, <2>1
  <2>3. QED
    BY <1>10, <2>2 DEF SyncInv, PollsSynced
<1>11. PollsSynced'
  <2>1. \A q \in polls : Fresh(q)' /\ q.id \in DOMAIN rounds \cup {NoRound}
                         /\ (q.id = NoRound => PaidSince(q)')
    BY <1>7, <1>8 DEF SyncInv, PollsSynced
  <2>2. QED
    BY <1>1, <1>10, <2>1 DEF PollsSynced, Found
<1>12. FirstEnrolls'
  BY <1>1 DEF SyncInv, FirstEnrolls
<1>13. QED
  BY <1>6, <1>9, <1>11, <1>12 DEF SyncInv

(* A poll looks at the chain. *)
LEMMA PollFinds ==
  ASSUME ArenaInv, Paid, Funded, SyncInv, NEW sync \in SeatSyncs, ActiveId # NoRound,
         rounds[ActiveId].status = "enrolling", NEW d \in deposits,
         NEW q, q = [id |-> ActiveId, sync |-> sync, at |-> now]
  PROVE  Found(q, d, rounds[ActiveId])
<1> DEFINE r == rounds[ActiveId]
           paid == Depositors(Purse)
<1>1. r \in RoundRecords /\ ActiveId \in DOMAIN rounds
  BY ActiveRound DEF ArenaInv, ArenaTypes
<1>2. r.vault = Purse /\ r.seats \subseteq paid
  BY <1>1 DEF Funded, RoundsFunded
<1>3. /\ d.wallet \in paid /\ IsFiniteSet(paid) /\ Cardinality(paid) \in Nat
  BY WhoPaid
<1>4. q.sync = sync /\ q.at = now
  OBVIOUS
<1>5. CASE sync.failed
  BY <1>4, <1>5 DEF Found
<1>6. CASE ~AboutToLock(r)
  <2>1. ~(now >= r.enrollDeadline - PreLock)
    BY <1>6 DEF AboutToLock
  <2>2. now \in Nat /\ PreLock \in Nat /\ r.enrollDeadline \in Int
    BY <1>1, Timing, Rules DEF RoundRecords
  <2>3. now < r.enrollDeadline - PreLock
    BY <2>1, <2>2
  <2>4. QED
    BY <1>4, <2>3 DEF Found
<1>7. CASE Cardinality(paid) <= Cardinality(r.seats)
  <2>1. Cardinality(r.seats) \in Nat
    BY <1>1, CountsAreNumbers DEF RoundRecords
  <2>2. r.seats = paid
    BY <1>2, <1>3, <1>7, <2>1, AllWhoPaid
  <2>3. QED
    BY <1>3, <2>2 DEF Found
<1>8. ASSUME NEW listed \in SUBSET paid, sync.wallets = listed \ r.seats,
             ~(Cardinality(listed) < Cardinality(paid))
      PROVE  Found(q, d, r)
  <2>1. Cardinality(listed) \in Nat
    BY <1>3, FS_Subset, FS_CardinalityType
  <2>2. listed = paid
    BY <1>3, <1>8, <2>1, AllWhoPaid
  <2>3. QED
    BY <1>3, <1>4, <1>8, <2>2 DEF Found
<1>9. \/ sync.failed \/ ~AboutToLock(r) \/ Cardinality(paid) <= Cardinality(r.seats)
      \/ \E listed \in SUBSET paid : /\ sync.wallets = listed \ r.seats
                                     /\ sync.failed = (Cardinality(listed) < Cardinality(paid))
  <2> HIDE DEF paid
  <2>1. Depositors(r.vault) = paid
    BY <1>2 DEF paid
  <2>2. sync \in (IF AboutToLock(r) THEN {} ELSE {NothingToSeat}) \cup {ChainUnread} \cup
                 (IF Cardinality(paid) <= Cardinality(r.seats) THEN {NothingToSeat}
                  ELSE {[wallets |-> listed \ r.seats,
                         failed |-> Cardinality(listed) < Cardinality(paid)] :
                            listed \in SUBSET paid})
    <3> HIDE DEF AboutToLock
    <3>1. QED
      BY <2>1 DEF SeatSyncs, Paid, Practice
  <2>3. ChainUnread.failed
    BY DEF ChainUnread
  <2>4. QED
    BY <2>2, <2>3
<1>10. QED
  BY <1>5, <1>6, <1>7, <1>8, <1>9

LEMMA RequestSynced ==
  ASSUME ArenaInv, Paid, Funded, SyncInv,
         \/ HostOpens \/ (\E p \in Player : SignDeposit(p)) \/ (\E p \in Player : EnrollPeeks(p))
         \/ CancelPeeks \/ PollPeeks
  PROVE  SyncInv'
<1>1. /\ rounds' = rounds /\ deposits' = deposits /\ now' = now /\ game' = game
  BY DEF HostOpens, SignDeposit, EnrollPeeks, CancelPeeks, PollPeeks
<1>2. now \in Nat /\ RequestLife \in Nat
  BY Rules, Timing
<1>3. ActiveId = NoRound => Active = {}
  BY ActiveRound
<1>4. \A q : (Fresh(q) => Fresh(q)') /\ (PaidSince(q) => PaidSince(q)')
  BY <1>1 DEF Fresh, PaidSince, Active
<1>5. \A q : q.at = now => Fresh(q)'
  BY <1>1, <1>2 DEF Fresh
<1>6. FirstEnrolls' /\ RoomForAll'
  BY <1>1 DEF SyncInv, FirstEnrolls, RoomForAll, Depositors, Purse
<1>7. CancelsSynced'
  <2>1. CASE cancels' = cancels
    BY <1>4, <2>1 DEF SyncInv, CancelsSynced
  <2>2. CASE cancels' # cancels
    <3>1. CancelPeeks
      BY <2>2 DEF HostOpens, SignDeposit, EnrollPeeks, PollPeeks, requestVars
    <3> DEFINE c == [at |-> now]
    <3>2. cancels' = cancels \cup {c} /\ c.at = now
      BY <3>1 DEF CancelPeeks
    <3> HIDE DEF c
    <3>3. ASSUME ActiveId # NoRound PROVE deposits = {}
      <4>1. rounds[ActiveId].vault = Purse
        BY <3>3, ActiveRound DEF Funded, RoundsFunded
      <4>2. Depositors(Purse) = {}
        BY <3>1, <3>3, <4>1 DEF CancelPeeks
      <4>3. QED
        BY <4>2, WhoPaid
    <3>4. PaidSince(c)
      BY <1>3, <3>3 DEF PaidSince
    <3>5. \A x \in cancels' : Fresh(x)' /\ PaidSince(x)'
      BY <1>4, <1>5, <3>2, <3>4 DEF SyncInv, CancelsSynced
    <3>6. QED
      BY <3>5 DEF CancelsSynced
  <2>3. QED
    BY <2>1, <2>2
<1>8. PollsSynced'
  <2> DEFINE Good(q) == /\ Fresh(q)' /\ q.id \in DOMAIN rounds \cup {NoRound}
                        /\ q.id = NoRound => PaidSince(q)'
                        /\ q.id # NoRound /\ rounds[q.id].status = "enrolling" =>
                               \A d \in deposits : d.at < q.at => Found(q, d, rounds[q.id])
  <2>1. \A q \in polls : Good(q)
    BY <1>4 DEF SyncInv, PollsSynced
  <2>2. ASSUME PollPeeks, NEW q \in polls' PROVE Good(q)
    <3>1. PICK sync \in SeatSyncs : polls' = polls \cup {[id |-> ActiveId, sync |-> sync, at |-> now]}
      BY <2>2 DEF PollPeeks
    <3>2. CASE q \in polls
      BY <2>1, <3>2
    <3>3. CASE q = [id |-> ActiveId, sync |-> sync, at |-> now]
      <4>1. q.id = ActiveId /\ q.at = now
        BY <3>3
      <4>2. q.id \in DOMAIN rounds \cup {NoRound}
        BY <4>1, ActiveRound
      <4>3. q.id = NoRound => PaidSince(q)'
        BY <1>3, <1>4, <4>1 DEF PaidSince
      <4>4. ASSUME q.id # NoRound, rounds[q.id].status = "enrolling", NEW d \in deposits
            PROVE  Found(q, d, rounds[q.id])
        BY <3>3, <4>1, <4>4, PollFinds
      <4>5. QED
        BY <1>5, <4>1, <4>2, <4>3, <4>4
    <3>4. QED
      BY <3>1, <3>2, <3>3
  <2>3. polls' = polls \/ PollPeeks
    BY DEF HostOpens, SignDeposit, EnrollPeeks, CancelPeeks, requestVars
  <2>4. \A q \in polls' : Good(q)
    BY <2>1, <2>2, <2>3
  <2>5. QED
    BY <1>1, <2>4 DEF PollsSynced, Found
<1>9. QED
  BY <1>6, <1>7, <1>8 DEF SyncInv

LEMMA TimeSynced ==
  ASSUME ArenaInv, SyncInv, PassTime
  PROVE  SyncInv'
<1>1. /\ rounds' = rounds /\ deposits' = deposits /\ game' = game /\ now' = now + 1
      /\ polls' = Running(polls) /\ cancels' = Running(cancels)
  BY DEF PassTime
<1>2. now \in Nat /\ RequestLife \in Nat
  BY Rules, Timing
<1>3. ASSUME NEW q, Fresh(q), now < q.at + RequestLife PROVE Fresh(q)'
  BY <1>1, <1>2, <1>3 DEF Fresh
<1>4. \A q : PaidSince(q) => PaidSince(q)'
  BY <1>1 DEF PaidSince, Active
<1>5. \A q \in cancels' : q \in cancels /\ now < q.at + RequestLife
  BY <1>1 DEF Running
<1>6. \A q \in polls' : q \in polls /\ now < q.at + RequestLife
  BY <1>1 DEF Running
<1>7. FirstEnrolls' /\ RoomForAll'
  BY <1>1 DEF SyncInv, FirstEnrolls, RoomForAll, Depositors, Purse
<1>8. CancelsSynced'
  BY <1>3, <1>4, <1>5 DEF SyncInv, CancelsSynced
<1>9. \A q \in polls' : /\ Fresh(q)' /\ q.id \in DOMAIN rounds \cup {NoRound}
                        /\ q.id = NoRound => PaidSince(q)'
  BY <1>3, <1>4, <1>6 DEF SyncInv, PollsSynced
<1>10. \A q \in polls' : q.id # NoRound /\ rounds[q.id].status = "enrolling" =>
                             \A d \in deposits : d.at < q.at => Found(q, d, rounds[q.id])
  BY <1>6 DEF SyncInv, PollsSynced
<1>11. PollsSynced'
  BY <1>1, <1>9, <1>10 DEF PollsSynced, Found
<1>12. QED
  BY <1>7, <1>8, <1>11 DEF SyncInv

LEMMA SyncStep ==
  ASSUME ArenaInv, Paid, Funded, SyncInv, RequestLife <= PreLock, [ArenaNext]_arenaVars
  PROVE  /\ SyncInv'
         /\ \A i \in DOMAIN rounds : Locks(rounds[i], rounds'[i])
<1>1. RoundsStep
  BY ArenaStep
<1>2. \A i \in DOMAIN rounds : rounds[i] \in RoundRecords
  BY DEF ArenaInv, ArenaTypes
<1>3. rounds' = rounds => \A i \in DOMAIN rounds : Locks(rounds[i], rounds'[i])
  BY <1>2, SameGrows
<1>4. CASE \/ \E r \in hosting : HostSaves(r)
           \/ \E e \in enrolls : EnrollSeats(e)
           \/ \E c \in cancels : CancelCommits(c)
           \/ \E q \in polls, quote \in Quotes : PollKeeps(q, quote)
  <2>1. RoundsGrow
    BY <1>1, <1>4, StoreGrows
  <2>2. /\ now' = now /\ deposits' = deposits /\ game' = game /\ polls' \subseteq polls
        /\ cancels' \subseteq cancels
    BY <1>4 DEF HostSaves, EnrollSeats, CancelCommits, PollKeeps
  <2>3. SyncInv'
    BY <1>1, <2>1, <2>2, StoreSynced
  <2>4. QED
    BY <2>1, <2>3 DEF RoundsGrow
<1>5. ASSUME NEW d \in signed, LandDeposit(d)
      PROVE  SyncInv' /\ \A i \in DOMAIN rounds : Locks(rounds[i], rounds'[i])
  BY <1>3, <1>5, DepositSynced DEF LandDeposit
<1>6. CASE \/ HostOpens \/ (\E p \in Player : SignDeposit(p))
           \/ (\E p \in Player : EnrollPeeks(p)) \/ CancelPeeks \/ PollPeeks
  <2>1. rounds' = rounds
    BY <1>6 DEF HostOpens, SignDeposit, EnrollPeeks, CancelPeeks, PollPeeks
  <2>2. QED
    BY <1>3, <1>6, <2>1, RequestSynced
<1>7. CASE PassTime
  BY <1>3, <1>7, TimeSynced DEF PassTime
<1>8. CASE UNCHANGED arenaVars
  <2>1. SyncInv' /\ rounds' = rounds
    BY <1>8 DEF arenaVars, requestVars, SyncInv, FirstEnrolls, RoomForAll, CancelsSynced,
                PollsSynced, Fresh, PaidSince, Found, Active, Depositors, Purse
  <2>2. QED
    BY <1>3, <2>1
<1>9. QED
  BY <1>4, <1>5, <1>6, <1>7, <1>8 DEF ArenaNext

(* seat-sync.ts:9, the check right before the lock: where one code has one vault and no request
   lives longer than PRE_LOCK_MS, a game never starts, and an arena is never cancelled, without
   a player who had paid before the last request began, unless the chain stayed unreadable for
   LOCK_HOLD_MAX_MS. *)
THEOREM DepositorsAlwaysSeated ==
  ASSUME MaxHosts <= 1, RequestLife <= PreLock
  PROVE  ArenaSpec => LockSeatsDepositors
<1> DEFINE Seated ==
      \A i \in DOMAIN rounds :
          LET r == rounds[i] IN
          r.status = "enrolling" /\ rounds'[i].status # "enrolling" =>
              \A d \in deposits :
                  d.vault = r.vault /\ d.at + RequestLife < now =>
                      \/ d.wallet \in rounds'[i].seats
                      \/ now >= r.enrollDeadline + HoldMax
           Inv == FundsInv /\ (Paid => SyncInv)
<1>1. ArenaInit => Inv
  <2> SUFFICES ASSUME ArenaInit PROVE Inv
    OBVIOUS
  <2>1. FundsInv
    BY DEF ArenaInit, FundsInv, Funded, OneVault, HostingFunded, RoundsFunded, DepositsFunded,
           RequestsFunded
  <2>2. FirstEnrolls /\ CancelsSynced /\ PollsSynced
    BY DEF ArenaInit, FirstEnrolls, CancelsSynced, PollsSynced
  <2>3. RoomForAll
    <3>1. Depositors(Purse) = {}
      BY DEF ArenaInit, Depositors
    <3>2. game.capacity \in Nat
      BY ArenaAssumption DEF ArenaInit
    <3>3. QED
      BY <3>1, <3>2, FS_EmptySet DEF RoomForAll
  <2>4. QED
    BY <2>1, <2>2, <2>3 DEF SyncInv
<1>2. ASSUME ArenaInv, Inv, [ArenaNext]_arenaVars PROVE Inv' /\ Seated
  <2>1. FundsInv'
    BY <1>2, FundsStep
  <2>2. Paid' <=> Paid
    BY <1>2 DEF Paid, ArenaNext, HostOpens, HostSaves, SignDeposit, LandDeposit, EnrollPeeks,
                EnrollSeats, CancelPeeks, CancelCommits, PollPeeks, PollKeeps, PassTime, arenaVars
  <2>3. CASE Paid
    <3>1. Funded /\ SyncInv
      BY <1>2, <2>3 DEF FundsInv
    <3>2. SyncInv' /\ \A i \in DOMAIN rounds : Locks(rounds[i], rounds'[i])
      BY <1>2, <2>3, <3>1, SyncStep
    <3>3. QED
      BY <2>1, <3>2 DEF Locks
  <2>4. CASE ~Paid
    BY <1>2, <2>1, <2>2, <2>4 DEF FundsInv
  <2>5. QED
    BY <2>3, <2>4
<1> HIDE DEF Inv
<1>3. QED
  BY <1>1, <1>2, ArenaInvariant, PTL DEF ArenaSpec, LockSeatsDepositors
=============================================================================
