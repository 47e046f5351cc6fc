-------------------------------- MODULE Arena --------------------------------
(***************************************************************************)
(* One arena code: its rounds in the store (lib/round-store.ts), and the   *)
(* requests that change them: page polls, which run the keeper             *)
(* (app/api/round/route.ts, lib/round-keeper.ts), hosting, enrolling and   *)
(* cancelling, while seat deposits land on chain.                          *)
(*                                                                         *)
(* Every request first reads the store, the chain and the price feeds      *)
(* without a lock, and later changes the store in one transaction under    *)
(* the arena's lock.  The first half is an action that leaves a record of  *)
(* what was read, the second an action that uses it, whatever the rest of  *)
(* the system did in between.  A request that dies in between is one whose *)
(* second half never runs.                                                 *)
(***************************************************************************)
EXTENDS Integers, Sequences, FiniteSets, FiniteSetsExt

CONSTANTS
    Player,
    Host,        \* the wallet that hosts, when the arena is hosted
    Games,       \* rules an arena may run under: [kind, capacity, minEntrants, roundLimit]
    Enrollment,  \* config.enrollmentSec
    Grace,       \* HOST_SEAT_GRACE_MS
    PreLock,     \* PRE_LOCK_MS
    HoldMax,     \* LOCK_HOLD_MAX_MS
    OracleWait,  \* ORACLE_WAIT_MS
    Live,        \* config.liveSec
    Hold,        \* HOLD_MS
    RoundSlack,  \* the 120 s per round, and
    SettleSlack, \* the hour for settlement, in the vault's recovery deadline
    BotNames,    \* how many names BOT_NAMES has
    RequestLife, \* how long a request runs at most
    DepositLife, \* how long after it was co-signed a deposit can still land
    MaxPolls, MaxRequests, MaxHosts, MaxRounds, MaxIdle  \* bounds for model checking

ASSUME ArenaAssumption ==
    /\ IsFiniteSet(Player) /\ Host \in Player
    /\ \A g \in Games :
           /\ g.kind \in {"paid", "practice"}
           /\ g.minEntrants \in Nat /\ g.capacity \in Nat
           /\ 2 <= g.minEntrants /\ g.minEntrants <= g.capacity
           /\ g.roundLimit \in Nat \ {0}
    /\ {Enrollment, Grace, Live} \subseteq Nat \ {0}
    /\ {PreLock, HoldMax, OracleWait, Hold, RoundSlack, SettleSlack} \subseteq Nat
    /\ {BotNames, RequestLife, DepositLife} \subseteq Nat
    /\ {MaxPolls, MaxRequests, MaxHosts, MaxRounds, MaxIdle} \subseteq Nat

VARIABLES
    game,      \* the rules of this arena; they never change
    rounds,    \* rounds[i]: the i-th round saved under the arena's code
    vaults,    \* vaults[v]: when players may recover their seats from vault v
    deposits,  \* seats paid on chain
    signed,    \* co-signed deposits that may still land
    hosting,   \* rounds opened by a host and not saved yet
    polls,     \* polls between their two halves, and likewise
    enrolls,
    cancels,
    now

requestVars == <<hosting, polls, enrolls, cancels>>
arenaVars == <<game, rounds, vaults, deposits, signed, requestVars, now>>

NoVault == 0
NoRound == 0
Paid == game.kind = "paid"
Practice == game.kind = "practice"

ArenaInit ==
    /\ game \in Games
    /\ rounds = <<>> /\ vaults = <<>>
    /\ deposits = {} /\ signed = {}
    /\ hosting = {} /\ polls = {} /\ enrolls = {} /\ cancels = {}
    /\ now = 0

(* Bound: enrolments and cancellations under way at once. *)
RoomForRequest == Cardinality(enrolls) + Cardinality(cancels) < MaxRequests

(* A definition named Faulty... is a deliberately wrong variant of the one below it, as in
   module Escrow. *)

-----------------------------------------------------------------------------
(* The store. *)

ActiveStatus == {"enrolling", "live", "settling", "advancing"}

Newest(ids) ==
    IF ids = {} THEN NoRound
    ELSE CHOOSE i \in ids : \A j \in ids \ {i} :
             \/ rounds[j].createdAt < rounds[i].createdAt
             \/ rounds[j].createdAt = rounds[i].createdAt /\ j < i

Active == {i \in DOMAIN rounds : rounds[i].status \in ActiveStatus}

ActiveId == Newest(Active)
LatestId == Newest(DOMAIN rounds)

EndedAs(r, status) == [r EXCEPT !.status = status, !.endedAt = now]

FaultyKeepOthers(rs, keepId) == rs  \* retires nobody

Retire(rs, ids) ==
    [i \in DOMAIN rs |-> IF i \in ids THEN EndedAs(rs[i], "cancelled") ELSE rs[i]]

FaultyCancelOthers(rs, keepId) == Retire(rs, DOMAIN rs \ {keepId})  \* finished rounds too

CancelOtherActive(rs, keepId) ==
    Retire(rs, {i \in DOMAIN rs \ {keepId} : rs[i].status \in ActiveStatus})

Save(rs, i, r) == [rs EXCEPT ![i] = r]

(* Save a new round and retire whatever else is active. *)
SaveNew(rs, r) == CancelOtherActive(Append(rs, r), Len(rs) + 1)

CreateRound(v) ==
    [status |-> "enrolling", number |-> 1, seats |-> {}, alive |-> 0, vault |-> v,
     createdAt |-> now, enrollDeadline |-> now + Enrollment, liveDeadline |-> 0,
     endedAt |-> 0]

-----------------------------------------------------------------------------
(* Hosting: the vault is opened on chain before the round is saved. *)

SettleDeadline == now + Grace + Enrollment + game.roundLimit * (Live + RoundSlack) + SettleSlack

HostOpens ==
    /\ Paid
    /\ Len(vaults) < MaxHosts
    /\ vaults' = Append(vaults, SettleDeadline)
    /\ hosting' = hosting \cup {CreateRound(Len(vaults) + 1)}
    /\ UNCHANGED <<game, rounds, deposits, signed, polls, enrolls, cancels, now>>

HostSaves(r) ==
    /\ r \in hosting
    /\ Len(rounds) < MaxRounds
    /\ hosting' = hosting \ {r}
    /\ rounds' = IF \/ ActiveId = NoRound
                    \/ rounds[ActiveId].status = "enrolling" /\ rounds[ActiveId].seats = {}
                 THEN SaveNew(rounds, r)
                 ELSE rounds  \* "a game is already in progress"
    /\ UNCHANGED <<game, vaults, deposits, signed, polls, enrolls, cancels, now>>

-----------------------------------------------------------------------------
(* Deposits: the tx route co-signs one while the arena enrols; it may land much later. *)

Depositors(v) == {d.wallet : d \in {x \in deposits : x.vault = v}}

SignDeposit(p) ==
    /\ Paid /\ ActiveId # NoRound
    /\ LET r == rounds[ActiveId] IN
       /\ r.status = "enrolling"
       /\ p \notin Depositors(r.vault)
       /\ Cardinality(r.seats) < game.capacity
       /\ ~\E d \in signed : d.wallet = p /\ d.vault = r.vault
       /\ signed' = signed \cup {[wallet |-> p, vault |-> r.vault, at |-> now]}
    /\ UNCHANGED <<game, rounds, vaults, deposits, requestVars, now>>

LandDeposit(d) ==
    /\ d \in signed
    /\ signed' = signed \ {d}
    /\ deposits' = IF Cardinality(Depositors(d.vault)) < game.capacity
                   THEN deposits \cup {[d EXCEPT !.at = now]}
                   ELSE deposits
    /\ UNCHANGED <<game, rounds, vaults, requestVars, now>>

-----------------------------------------------------------------------------
(* Seats (seatPlayer). *)

FaultyCanSeat(r, p) ==  \* no check that the round still enrols
    p \notin r.seats /\ Cardinality(r.seats) < game.capacity

CanSeat(r, p) ==
    /\ r.status = "enrolling"
    /\ p \notin r.seats
    /\ Cardinality(r.seats) < game.capacity

(* The first player's own seat starts the enrolment clock. *)
SeatPlayer(r, p) ==
    IF ~CanSeat(r, p) THEN r
    ELSE [r EXCEPT
            !.seats = @ \cup {p},
            !.enrollDeadline =
                IF r.seats # {} THEN @
                ELSE IF Practice THEN now + Enrollment
                ELSE Max({@, now + Enrollment})]

Verified(p, v) == p \in Depositors(v)

(* enroll: peek, and wait until the deposit shows on chain. *)
EnrollPeeks(p) ==
    /\ RoomForRequest
    /\ ActiveId # NoRound
    /\ p \notin rounds[ActiveId].seats
    /\ Paid => Verified(p, rounds[ActiveId].vault)
    /\ enrolls' = enrolls \cup {[wallet |-> p, at |-> now]}
    /\ UNCHANGED <<game, rounds, vaults, deposits, signed, hosting, polls, cancels, now>>

(* Under the lock: whatever round is active by then. *)
EnrollSeats(e) ==
    /\ e \in enrolls
    /\ enrolls' = enrolls \ {e}
    /\ rounds' = IF ActiveId = NoRound THEN rounds
                 ELSE Save(rounds, ActiveId, SeatPlayer(rounds[ActiveId], e.wallet))
    /\ UNCHANGED <<game, vaults, deposits, signed, hosting, polls, cancels, now>>

-----------------------------------------------------------------------------
(* cancel: only the host asks, and only while nobody else is in. *)

CancelPeeks ==
    /\ Paid
    /\ RoomForRequest
    /\ rounds # <<>>  \* the host has the arena's code once its round is saved
    /\ ActiveId # NoRound => Depositors(rounds[ActiveId].vault) = {}
    /\ cancels' = cancels \cup {[at |-> now]}
    /\ UNCHANGED <<game, rounds, vaults, deposits, signed, hosting, polls, enrolls, now>>

CancelCommits(c) ==
    /\ c \in cancels
    /\ cancels' = cancels \ {c}
    /\ rounds' = IF /\ ActiveId # NoRound
                    /\ rounds[ActiveId].status = "enrolling"
                    /\ rounds[ActiveId].seats \subseteq {Host}
                 THEN Save(rounds, ActiveId, EndedAs(rounds[ActiveId], "cancelled"))
                 ELSE rounds
    /\ UNCHANGED <<game, vaults, deposits, signed, hosting, polls, enrolls, now>>

-----------------------------------------------------------------------------
(* The keeper (tick).  quote says what the price feeds gave: nothing yet, a price, or, for a
   pit on a Panta market, the market's outcome. *)

Quotes == IF Paid THEN {"none", "price", "outcome"} ELSE {"none", "price"}

(* An empty practice arena waits for its first player, a new hosted one for its host. *)
Extended(r) ==
    IF r.seats # {} THEN r
    ELSE IF Practice
    THEN [r EXCEPT !.enrollDeadline = IF now >= @ THEN now + Enrollment ELSE @]
    ELSE [r EXCEPT !.enrollDeadline =
                       IF now < r.createdAt + Grace THEN Max({@, r.createdAt + Grace}) ELSE @]

(* Bots only up to the minimum that a game needs. *)
WithBots(humans) == humans + Min({BotNames, Max({game.minEntrants, humans}) - humans})

TickEnrolling(old, quote) ==
    LET r == Extended(old)
        humans == Cardinality(r.seats)
    IN IF now < r.enrollDeadline /\ humans < game.capacity THEN r
       ELSE IF humans = 0 THEN EndedAs(r, "cancelled")
       ELSE IF quote = "none" /\ now < r.enrollDeadline + OracleWait THEN r
       ELSE IF WithBots(humans) < game.minEntrants THEN EndedAs(r, "cancelled")
       ELSE [r EXCEPT !.status = "live", !.alive = WithBots(humans),
                      !.liveDeadline = now + Live]

(* settle: the bottom half is out, and the last round of the series is the final. *)
Settled(r, quote) ==
    LET survivors == (r.alive + 1) \div 2
        final == survivors <= 1 \/ r.number >= game.roundLimit \/ quote = "outcome"
    IN IF final THEN EndedAs([r EXCEPT !.alive = survivors], "complete")
       ELSE [r EXCEPT !.status = "advancing", !.alive = survivors]

TickLive(r, quote) ==
    IF now < r.liveDeadline \/ (quote = "none" /\ now < r.liveDeadline + OracleWait) THEN r
    ELSE Settled(r, quote)

Ticked(r, quote) == IF r.status = "enrolling" THEN TickEnrolling(r, quote)
                    ELSE TickLive(r, quote)

FaultyAdvance(r) ==  \* the next round has no escrow record
    [r EXCEPT !.status = "live", !.number = @ + 1, !.createdAt = now, !.enrollDeadline = now,
              !.liveDeadline = now + Live, !.vault = NoVault]

(* The next round of a royale: same players, same vault. *)
Advance(r) ==
    [r EXCEPT !.status = "live", !.number = @ + 1, !.createdAt = now, !.enrollDeadline = now,
              !.liveDeadline = now + Live]

-----------------------------------------------------------------------------
(* A poll's first half: peek, and look for deposits without a seat. *)

FaultyAboutToLock(r) == FALSE  \* may skip the check right before the lock

AboutToLock(r) == now >= r.enrollDeadline - PreLock \/ Cardinality(r.seats) >= game.capacity

NothingToSeat == [wallets |-> {}, failed |-> FALSE]
ChainUnread == [wallets |-> {}, failed |-> TRUE]

(* The answers unseatedDepositors may give: the last check may be recent enough, the chain
   unreadable, and the account index behind the vault's counter. *)
SeatSyncs ==
    IF ActiveId = NoRound \/ Practice THEN {NothingToSeat}
    ELSE LET r == rounds[ActiveId]
             paid == Depositors(r.vault)
         IN IF r.status # "enrolling" THEN {NothingToSeat}
            ELSE (IF AboutToLock(r) THEN {} ELSE {NothingToSeat}) \cup {ChainUnread} \cup
                 (IF Cardinality(paid) <= Cardinality(r.seats) THEN {NothingToSeat}
                  ELSE {[wallets |-> listed \ r.seats,
                         failed |-> Cardinality(listed) < Cardinality(paid)] :
                            listed \in SUBSET paid})

PollPeeks ==
    /\ Cardinality(polls) < MaxPolls
    /\ \E sync \in SeatSyncs :
           polls' = polls \cup {[id |-> ActiveId, sync |-> sync, at |-> now]}
    /\ UNCHANGED <<game, rounds, vaults, deposits, signed, hosting, enrolls, cancels, now>>

-----------------------------------------------------------------------------
(* A poll's second half, under the lock. *)

FaultyHoldLock(r, sync) ==  \* waits for the chain as long as it takes
    sync.failed /\ now >= r.enrollDeadline

HoldLock(r, sync) ==
    sync.failed /\ now >= r.enrollDeadline /\ now < r.enrollDeadline + HoldMax

(* One by one (seatPlayer), in the chain's order, while there is room; practice arenas have no
   deposits.  The rounds that may come of it. *)
SeatDepositors(r, wallets) ==
    {[r EXCEPT !.seats = seats] :
        seats \in {s \in SUBSET (r.seats \cup wallets) :
            /\ r.seats \subseteq s
            /\ Cardinality(s) = Min({Cardinality(r.seats \cup wallets), game.capacity})}}

(* A finished round stays on screen for a while, unless it is an empty practice round. *)
OnScreen ==
    /\ LatestId # NoRound
    /\ ~(Practice /\ rounds[LatestId].seats = {})
    /\ rounds[LatestId].status \in {"complete", "cancelled"}
    /\ now - rounds[LatestId].endedAt < Hold

(* bootstrapRound ran in the first half of the poll. *)
Boot(q) ==
    IF OnScreen \/ q.id # NoRound \/ ~Practice \/ Len(rounds) >= MaxRounds THEN rounds
    ELSE SaveNew(rounds, [CreateRound(NoVault) EXCEPT
                              !.createdAt = q.at, !.enrollDeadline = q.at + Enrollment])

(* The rounds a poll may leave.  Its deposits count only if the round it read them for is still
   the one that enrols. *)
Keep(q, quote) ==
    LET id == ActiveId
        rs == CancelOtherActive(rounds, id)
        enrolling == q.id = id /\ rs[id].status = "enrolling"
        Kept(seated) ==
            LET r == Ticked(seated, quote)
            IN IF enrolling /\ HoldLock(seated, q.sync) THEN Save(rs, id, seated)
               ELSE IF r.status = "advancing" THEN SaveNew(Save(rs, id, r), Advance(r))
               ELSE Save(rs, id, r)
    IN {Kept(seated) :
            seated \in IF enrolling THEN SeatDepositors(rs[id], q.sync.wallets) ELSE {rs[id]}}

PollKeeps(q, quote) ==
    /\ q \in polls
    /\ polls' = polls \ {q}
    /\ rounds' \in IF ActiveId = NoRound THEN {Boot(q)} ELSE Keep(q, quote)
    /\ UNCHANGED <<game, vaults, deposits, signed, hosting, enrolls, cancels, now>>

-----------------------------------------------------------------------------
(* A request that runs too long is given up, and a deposit that did not land in time never
   does.  The clock stops a while after the last deadline of the active round, and at MaxIdle
   when nothing is due. *)

Slack == Max({HoldMax, OracleWait})

Horizon ==
    IF ActiveId = NoRound THEN MaxIdle
    ELSE LET r == rounds[ActiveId] IN
         IF r.status # "enrolling" THEN r.liveDeadline + Slack
         ELSE IF Practice /\ r.seats = {} THEN MaxIdle
         ELSE r.enrollDeadline + Slack

Running(requests) == {q \in requests : now < q.at + RequestLife}

PassTime ==
    /\ now < Horizon
    /\ now' = now + 1
    /\ polls' = Running(polls) /\ enrolls' = Running(enrolls) /\ cancels' = Running(cancels)
    /\ hosting' = {r \in hosting : now < r.createdAt + RequestLife}
    /\ signed' = {d \in signed : now < d.at + DepositLife}
    /\ UNCHANGED <<game, rounds, vaults, deposits>>

ArenaNext ==
    \/ HostOpens
    \/ \E r \in hosting : HostSaves(r)
    \/ \E p \in Player : SignDeposit(p)
    \/ \E d \in signed : LandDeposit(d)
    \/ \E p \in Player : EnrollPeeks(p)
    \/ \E e \in enrolls : EnrollSeats(e)
    \/ CancelPeeks
    \/ \E c \in cancels : CancelCommits(c)
    \/ PollPeeks
    \/ \E q \in polls, quote \in Quotes : PollKeeps(q, quote)
    \/ PassTime

ArenaSpec == ArenaInit /\ [][ArenaNext]_arenaVars

(* Somebody has the page open, so polls keep coming, and the clock runs. *)
ArenaFairSpec ==
    /\ ArenaSpec
    /\ WF_arenaVars(PollPeeks)
    /\ WF_arenaVars(\E q \in polls, quote \in Quotes : PollKeeps(q, quote))
    /\ WF_arenaVars(PassTime)

-----------------------------------------------------------------------------
(* Properties. *)

Ended(i) == rounds[i].status \in {"complete", "cancelled"}

(* Whatever polls, hosts and cancellations interleave, an arena never runs two games at once:
   otherwise enrolments and trades would go to one and the keeper's ticks to the other
   (withKeeperLock, cancelOtherActive). *)
OneActive == Cardinality(Active) <= 1

(* A finished round is history: no late poll, enrolment, cancellation or clean-up of other
   rounds changes its result, its roster or its end.  Settlement pays from that record long
   after (settle/route.ts). *)
ResultsAreFinal ==
    [][\A i \in DOMAIN rounds : Ended(i) => rounds'[i] = rounds[i]]_arenaVars

(* "always re-checks right before the round locks" (seat-sync.ts:9): nobody whose deposit was
   on chain before the last request began is left out of a game that starts, nor sees the
   arena cancelled without a seat, unless the chain stayed unreadable for LOCK_HOLD_MAX_MS. *)
LockSeatsDepositors ==
    [][\A i \in DOMAIN rounds :
          LET r == rounds[i] IN
          r.status = "enrolling" /\ rounds'[i].status # "enrolling" =>
              \A d \in deposits :
                  d.vault = r.vault /\ d.at + RequestLife < now =>
                      \/ d.wallet \in rounds'[i].seats
                      \/ now >= r.enrollDeadline + HoldMax]_arenaVars

(* Once a game has started its roster is fixed, also across the rounds of a royale: a survivor
   is never dropped and nobody slips in, so prizes, vault shares and refunds all speak of the
   same players (seatPlayer, advance). *)
RosterIsFixed ==
    [][/\ \A i \in DOMAIN rounds :
              rounds[i].status = "live" => rounds'[i].seats = rounds[i].seats
       /\ \A i \in DOMAIN rounds' \ DOMAIN rounds :
              rounds'[i].number > 1 =>
                  /\ rounds'[i].seats = rounds[ActiveId].seats
                  /\ rounds'[i].vault = rounds[ActiveId].vault]_arenaVars

(* The settle route settles the latest round of the arena code.  When no game is on, that
   round is the one whose vault holds the deposits, so none of them depends on Recover
   (settle/route.ts:109, advance); and every seat it pays is one of them, since seats are only
   taken for deposits in the vault the round settles (enroll/route.ts, seat-sync.ts). *)
SettlementFindsDeposits ==
    /\ \A d \in deposits :
           /\ LatestId # NoRound
           /\ rounds[LatestId].vault = d.vault
    /\ \A i \in DOMAIN rounds : Paid => rounds[i].seats \subseteq Depositors(rounds[i].vault)

(* While the page is polled every game ends: no price outage, unreadable chain or missing
   host keeps an arena enrolling or live for ever.  Only an empty practice arena waits. *)
Playing == ActiveId # NoRound /\ (Paid \/ rounds[ActiveId].seats # {})

EveryGameEnds == Playing ~> ~Playing
=============================================================================
