------------------------------ MODULE PageProofs ------------------------------
(***************************************************************************)
(* Theorems about what the pages of a player do: the picks of a prediction *)
(* arena (module PlayerPage), for any answers, legs, clicks and polls, and *)
(* the purchases on Panta (module Orders), for any number of purchases and *)
(* faults.                                                                 *)
(***************************************************************************)
EXTENDS PlayerPage, Orders, SequenceTheorems, FiniteSetTheorems, TLAPS

-----------------------------------------------------------------------------
(* Picks: while no answer is lost, the last click wins. *)

Clicks == [id : Nat, n : Int, pick : Option \cup {NoPick}]

PageTypes ==
    /\ losses \in Nat /\ queue \in Seq(Clicks)
    /\ DOMAIN round.picks = Leg /\ round.leg \in Leg
    /\ DOMAIN round = {"leg", "open", "picks"} /\ round.open \in BOOLEAN
    /\ DOMAIN job = {"stage", "click", "answer"}
    /\ last.click \in Clicks /\ DOMAIN last = {"click", "saved"}
    /\ last.saved \in BOOLEAN

(* One save at a time: the request on its way is the one the page waits for. *)
OneSave ==
    /\ \A post \in posts : post = [click |-> job.click, mine |-> TRUE]
    /\ posts # {} => job.stage = "posting"
    /\ job.stage = "posting" => job.click \in Clicks

(* Clicks leave the queue in the order they were made, and the last one is the last. *)
InOrder ==
    /\ \A i, j \in DOMAIN queue : i < j => queue[i].id < queue[j].id
    /\ posts # {} => \A i \in DOMAIN queue : job.click.id < queue[i].id
    /\ queue # <<>> => last.click = queue[Len(queue)]
    /\ posts # {} /\ queue = <<>> => last.click = job.click

(* What is not saved yet is for the leg that is open. *)
ForThisLeg ==
    /\ \A i \in DOMAIN queue : queue[i].n = round.leg
    /\ \A post \in posts : post.click.n = round.leg

(* Once the last click was saved nothing is left to send, and the server holds it. *)
SavedStays ==
    last.saved => queue = <<>> /\ posts = {} /\ round.picks[last.click.n] = last.click.pick

PageInv ==
    /\ PageTypes
    /\ losses = 0 => OneSave /\ InOrder /\ ForThisLeg /\ SavedStays

LEMMA LegsAreNumbers == Leg \subseteq Int
BY PlayerPageAssumption DEF Leg

LEMMA NewClick ==
  ASSUME PageInv, Patient, NEW option \in Option, Click(option)
  PROVE  PageInv'
<1> DEFINE click == [id |-> last.click.id + 1, n |-> view.leg, pick |-> option]
<1>1. /\ queue' = Append(queue, click) /\ last' = [click |-> click, saved |-> FALSE]
      /\ click.n = round.leg /\ click.id = last.click.id + 1
      /\ round' = round /\ job' = job /\ posts' = posts /\ losses' = losses /\ format' = format
  BY DEF Click
<1>2. click \in Clicks /\ last.click.id \in Nat
  <2>1. round.leg \in Int /\ last.click.id \in Nat
    BY LegsAreNumbers DEF Clicks, PageInv, PageTypes
  <2>2. view.leg \in Int /\ last.click.id + 1 \in Nat
    BY <1>1, <2>1
  <2>3. QED
    BY <2>1, <2>2 DEF Clicks
<1> HIDE DEF click
<1>3. /\ queue' \in Seq(Clicks) /\ Len(queue') = Len(queue) + 1 /\ queue'[Len(queue')] = click
      /\ queue' # <<>> /\ Len(queue) \in Nat /\ DOMAIN queue' = 1..Len(queue) + 1
      /\ DOMAIN queue = 1..Len(queue) /\ \A i \in DOMAIN queue : queue'[i] = queue[i]
  <2>1. queue \in Seq(Clicks)
    BY DEF PageInv, PageTypes
  <2>2. /\ Append(queue, click) \in Seq(Clicks)
        /\ Len(Append(queue, click)) = Len(queue) + 1 /\ Len(queue) \in Nat
        /\ Append(queue, click)[Len(queue) + 1] = click
        /\ \A i \in 1..Len(queue) : Append(queue, click)[i] = queue[i]
    BY <1>2, <2>1, AppendProperties
  <2>3. DOMAIN queue = 1..Len(queue) /\ DOMAIN queue' = 1..Len(queue')
    BY <1>1, <2>1, <2>2, LenProperties
  <2>4. queue' # <<>>
    BY <1>1, <2>2
  <2>5. QED
    BY <1>1, <2>2, <2>3, <2>4
<1>4. PageTypes'
  BY <1>1, <1>2, <1>3 DEF PageInv, PageTypes, Leg
<1>5. ASSUME losses = 0 PROVE OneSave' /\ InOrder' /\ ForThisLeg' /\ SavedStays'
  <2>1. OneSave' /\ SavedStays'
    BY <1>1, <1>5 DEF PageInv, OneSave, SavedStays
  <2>2. \A i \in DOMAIN queue' :
          (i \in DOMAIN queue /\ queue'[i] = queue[i]) \/ (i = Len(queue) + 1 /\ queue'[i] = click)
    <3>1. \A m \in Nat : \A i \in 1..m + 1 : i \in 1..m \/ i = m + 1
      OBVIOUS
    <3>2. \A i \in DOMAIN queue' : i \in 1..Len(queue) \/ i = Len(queue) + 1
      BY <1>3, <3>1
    <3>3. queue'[Len(queue) + 1] = click
      BY <1>3
    <3>4. QED
      BY <1>3, <3>2, <3>3
  <2>3. \A i \in DOMAIN queue : queue[i].id \in Nat /\ queue[i].id <= last.click.id
    <3>1. ASSUME NEW i \in DOMAIN queue PROVE queue[i].id \in Nat /\ queue[i].id <= last.click.id
      <4>1. queue[i] \in Clicks /\ queue # <<>>
        BY DEF PageInv, PageTypes
      <4>2. Len(queue) \in DOMAIN queue /\ last.click = queue[Len(queue)]
        BY <1>3, <1>5, <4>1 DEF PageInv, InOrder
      <4>3. i = Len(queue) \/ i < Len(queue)
        BY <1>3
      <4>4. i < Len(queue) => queue[i].id < queue[Len(queue)].id
        BY <1>5, <4>2 DEF PageInv, InOrder
      <4>5. QED
        BY <1>2, <4>1, <4>2, <4>3, <4>4 DEF Clicks
    <3>2. QED
      BY <3>1
  <2>4. ASSUME posts # {} PROVE job.click.id \in Nat /\ job.click.id <= last.click.id
    <3>1. job.click \in Clicks
      BY <1>5, <2>4 DEF PageInv, OneSave
    <3>2. CASE queue = <<>>
      BY <1>2, <1>5, <2>4, <3>2 DEF PageInv, InOrder, Clicks
    <3>3. CASE queue # <<>>
      <4>1. Len(queue) \in DOMAIN queue /\ last.click = queue[Len(queue)]
        BY <1>3, <1>5, <3>3 DEF PageInv, InOrder
      <4>2. job.click.id < last.click.id
        BY <1>5, <2>4, <4>1 DEF PageInv, InOrder
      <4>3. QED
        BY <1>2, <3>1, <4>2 DEF Clicks
    <3>4. QED
      BY <3>2, <3>3
  <2>5. \A i, j \in DOMAIN queue' : i < j => queue'[i].id < queue'[j].id
    <3>1. ASSUME NEW i \in DOMAIN queue', NEW j \in DOMAIN queue', i < j
          PROVE  queue'[i].id < queue'[j].id
      <4>1. i \in DOMAIN queue /\ queue'[i] = queue[i]
        BY <1>3, <3>1
      <4>2. CASE j \in DOMAIN queue
        BY <1>3, <1>5, <3>1, <4>1, <4>2 DEF PageInv, InOrder
      <4>3. CASE queue'[j] = click
        BY <1>1, <1>2, <2>3, <4>1, <4>3
      <4>4. QED
        BY <2>2, <4>2, <4>3
    <3>2. QED
      BY <3>1
  <2>6. posts' # {} => \A i \in DOMAIN queue' : job'.click.id < queue'[i].id
    <3>1. ASSUME posts # {}, NEW i \in DOMAIN queue' PROVE job.click.id < queue'[i].id
      <4>1. CASE i \in DOMAIN queue /\ queue'[i] = queue[i]
        BY <1>5, <3>1, <4>1 DEF PageInv, InOrder
      <4>2. CASE queue'[i] = click
        BY <1>1, <1>2, <2>4, <3>1, <4>2
      <4>3. QED
        BY <2>2, <4>1, <4>2
    <3>2. QED
      BY <1>1, <3>1
  <2>7. InOrder'
    BY <1>1, <1>3, <2>5, <2>6 DEF InOrder
  <2>8. ForThisLeg'
    BY <1>1, <1>5, <2>2 DEF PageInv, ForThisLeg
  <2>9. QED
    BY <2>1, <2>7, <2>8
<1>6. QED
  BY <1>1, <1>4, <1>5 DEF PageInv

LEMMA NextSave ==
  ASSUME PageInv, SendSave
  PROVE  PageInv'
<1> DEFINE click == Head(queue)
<1>1. /\ queue # <<>> /\ job = NoJob /\ queue' = Tail(queue)
      /\ job' = [NoJob EXCEPT !.stage = "posting", !.click = click]
      /\ posts' = posts \cup {[click |-> click, mine |-> TRUE]}
      /\ round' = round /\ last' = last /\ losses' = losses /\ format' = format
  BY DEF SendSave, MaySend
<1>2. /\ click = queue[1] /\ click \in Clicks /\ Len(queue) \in Nat \ {0}
      /\ Tail(queue) \in Seq(Clicks) /\ Len(Tail(queue)) = Len(queue) - 1
      /\ DOMAIN queue = 1..Len(queue) /\ DOMAIN Tail(queue) = 1..Len(queue) - 1
      /\ \A i \in 1..Len(queue) - 1 : Tail(queue)[i] = queue[i + 1]
  BY <1>1, HeadTailProperties DEF PageInv, PageTypes
<1> HIDE DEF click
<1>3. /\ DOMAIN job' = {"stage", "click", "answer"}
      /\ job'.stage = "posting" /\ job'.click = click
  BY <1>1 DEF NoJob
<1>4. PageTypes'
  BY <1>1, <1>2, <1>3 DEF PageInv, PageTypes, Leg
<1>5. ASSUME losses = 0 PROVE OneSave' /\ InOrder' /\ ForThisLeg' /\ SavedStays'
  <2>1. posts = {}
    BY <1>1, <1>5 DEF PageInv, OneSave, NoJob
  <2>2. posts' = {[click |-> click, mine |-> TRUE]}
    BY <1>1, <2>1
  <2>3. OneSave'
    BY <1>2, <1>3, <2>2 DEF OneSave
  <2>4. \A i \in DOMAIN queue' :
          i + 1 \in DOMAIN queue /\ 1 < i + 1 /\ 1 \in DOMAIN queue /\ queue'[i] = queue[i + 1]
    BY <1>1, <1>2
  <2>5. ForThisLeg'
    BY <1>1, <1>2, <1>5, <2>2, <2>4 DEF PageInv, ForThisLeg
  <2>6. SavedStays'
    BY <1>1, <1>5 DEF PageInv, SavedStays
  <2>7. InOrder'
    <3>1. \A i, j \in DOMAIN queue' : i < j => i + 1 < j + 1 /\ i + 1 \in DOMAIN queue /\ j + 1 \in DOMAIN queue
      BY <1>1, <1>2
    <3>2. \A i, j \in DOMAIN queue' : i < j => queue'[i].id < queue'[j].id
      BY <1>5, <2>4, <3>1 DEF PageInv, InOrder
    <3>3. \A i \in DOMAIN queue' : job'.click.id < queue'[i].id
      BY <1>2, <1>3, <1>5, <2>4 DEF PageInv, InOrder
    <3>4. last.click = queue[Len(queue)]
      BY <1>1, <1>5 DEF PageInv, InOrder
    <3>5. CASE Len(queue) = 1
      <4>1. queue' = <<>> /\ last'.click = job'.click
        BY <1>1, <1>2, <1>3, <3>4, <3>5
      <4>2. QED
        BY <3>2, <3>3, <4>1 DEF InOrder
    <3>6. CASE Len(queue) # 1
      <4>1. Len(queue) - 1 \in 1..Len(queue) - 1 /\ Len(queue) - 1 + 1 = Len(queue)
        BY <1>2, <3>6
      <4>2. queue' # <<>> /\ queue'[Len(queue')] = queue[Len(queue)]
        BY <1>1, <1>2, <4>1
      <4>3. QED
        BY <1>1, <3>2, <3>3, <3>4, <4>2 DEF InOrder
    <3>7. QED
      BY <3>5, <3>6
  <2>8. QED
    BY <2>3, <2>5, <2>6, <2>7
<1>6. QED
  BY <1>1, <1>4, <1>5 DEF PageInv

LEMMA Answered ==
  ASSUME PageInv, NEW post \in posts, NEW answered \in BOOLEAN, ServerSaves(post, answered)
  PROVE  PageInv'
<1> DEFINE landed == [round EXCEPT !.picks[round.leg] = post.click.pick]
<1>1. /\ posts' = posts \ {post} /\ queue' = queue /\ format' = format
      /\ round' = IF round.open THEN landed ELSE round
  BY DEF ServerSaves
<1>2. /\ DOMAIN landed = {"leg", "open", "picks"} /\ landed.leg = round.leg
      /\ landed.open \in BOOLEAN /\ DOMAIN landed.picks = Leg /\ landed.picks[round.leg] = post.click.pick
  BY DEF PageInv, PageTypes
<1> HIDE DEF landed
<1>3. losses' \in Nat /\ (losses' = 0 => losses = 0 /\ answered)
  BY DEF ServerSaves, PageInv, PageTypes
<1>4. last' \in {last, [last EXCEPT !.saved = round.open /\ answered]}
  BY DEF ServerSaves, Heard
<1>5. /\ last'.click \in Clicks /\ DOMAIN last' = {"click", "saved"} /\ last'.saved \in BOOLEAN
      /\ last'.click = last.click
  BY <1>4 DEF PageInv, PageTypes
<1>6. DOMAIN job' = {"stage", "click", "answer"}
  BY DEF ServerSaves, Heard, PageInv, PageTypes
<1>7. PageTypes'
  BY <1>1, <1>2, <1>3, <1>5, <1>6 DEF PageInv, PageTypes, Leg
<1>8. ASSUME losses' = 0 PROVE OneSave' /\ InOrder' /\ ForThisLeg' /\ SavedStays'
  <2>1. losses = 0 /\ answered
    BY <1>3, <1>8
  <2>2. /\ post = [click |-> job.click, mine |-> TRUE] /\ posts = {post}
    BY <2>1 DEF PageInv, OneSave
  <2>3. /\ posts' = {} /\ job'.stage = "saved"
        /\ last' = IF last.click = post.click THEN [last EXCEPT !.saved = round.open] ELSE last
    <3>1. post.mine
      BY <2>2
    <3>2. Heard(post.click, round.open /\ answered)
      BY <3>1 DEF ServerSaves
    <3>3. job' = [job EXCEPT !.stage = "saved"] /\ "stage" \in DOMAIN job
      BY <3>2 DEF Heard, PageInv, PageTypes
    <3>4. last' = IF last.click = post.click THEN [last EXCEPT !.saved = round.open /\ answered] ELSE last
      BY <3>2 DEF Heard
    <3>5. (round.open /\ answered) = round.open
      BY <2>1 DEF PageInv, PageTypes
    <3>6. QED
      BY <1>1, <2>2, <3>3, <3>4, <3>5
  <2>4. OneSave' /\ ForThisLeg'
    BY <1>1, <1>2, <2>1, <2>3 DEF PageInv, OneSave, ForThisLeg
  <2>5. InOrder'
    BY <1>1, <1>5, <2>1, <2>3 DEF PageInv, InOrder
  <2>6. ~last.saved
    BY <2>1, <2>2 DEF PageInv, SavedStays, PageTypes
  <2>7. SavedStays'
    <3>1. CASE queue = <<>>
      <4>1. last.click = post.click /\ post.click.n = round.leg
        BY <2>1, <2>2, <3>1 DEF PageInv, InOrder, ForThisLeg
      <4>2. last'.saved => round.open
        BY <2>3, <4>1 DEF PageInv, PageTypes
      <4>3. last'.saved => round'.picks[last'.click.n] = last'.click.pick
        BY <1>1, <1>2, <1>5, <4>1, <4>2
      <4>4. QED
        BY <1>1, <2>3, <3>1, <4>3 DEF SavedStays
    <3>2. CASE queue # <<>>
      <4>1. Len(queue) \in DOMAIN queue /\ last.click = queue[Len(queue)]
        BY <2>1, <3>2 DEF PageInv, PageTypes, InOrder
      <4>2. post.click.id < last.click.id /\ post.click.id \in Nat
        BY <2>1, <2>2, <4>1 DEF PageInv, InOrder, OneSave, Clicks
      <4>3. last.click # post.click
        BY <4>2
      <4>4. QED
        BY <2>3, <2>6, <4>3 DEF SavedStays
    <3>3. QED
      BY <3>1, <3>2
  <2>8. QED
    BY <2>4, <2>5, <2>7
<1>9. QED
  BY <1>7, <1>8 DEF PageInv

(* A lost answer voids the promise, not the shape of the state. *)
LEMMA Lost ==
  ASSUME PageInv,
         (\E post \in posts : SaveLost(post)) \/ (\E answer \in polls : PollLost(answer))
  PROVE  PageInv'
<1>1. /\ losses' = losses + 1 /\ round' = round /\ queue' = queue /\ format' = format
  BY DEF SaveLost, PollLost, pageVars
<1>2. losses' \in Nat /\ losses' # 0
  BY <1>1 DEF PageInv, PageTypes
<1>3. /\ last'.click \in Clicks /\ DOMAIN last' = {"click", "saved"} /\ last'.saved \in BOOLEAN
      /\ DOMAIN job' = {"stage", "click", "answer"}
  BY DEF SaveLost, PollLost, Heard, pageVars, PageInv, PageTypes
<1>4. QED
  BY <1>1, <1>2, <1>3 DEF PageInv, PageTypes, Leg

(* Windows and legs: a leg only opens while nothing is under way. *)
LEMMA ServerMoves ==
  ASSUME PageInv, Patient, CloseWindow \/ OpenNextLeg
  PROVE  PageInv'
<1>1. /\ losses' = losses /\ queue' = queue /\ posts' = posts /\ job' = job /\ last' = last
      /\ format' = format /\ round'.picks = round.picks
      /\ DOMAIN round' = {"leg", "open", "picks"} /\ round'.leg \in Leg /\ round'.open \in BOOLEAN
      /\ round'.leg = round.leg \/ ~SaveUnderWay
  BY DEF CloseWindow, OpenNextLeg, pageVars, PageInv, PageTypes
<1>2. PageTypes'
  BY <1>1 DEF PageInv, PageTypes, Leg
<1>3. losses = 0 => OneSave' /\ InOrder' /\ SavedStays'
  BY <1>1 DEF PageInv, OneSave, InOrder, SavedStays
<1>4. losses = 0 => ForThisLeg'
  BY <1>1 DEF PageInv, ForThisLeg, SaveUnderWay
<1>5. QED
  BY <1>1, <1>2, <1>3, <1>4 DEF PageInv

LEMMA PageReads ==
  ASSUME PageInv,
         \/ Poll \/ ReadAfterSave \/ SaveEnds
         \/ \E answer \in polls : PollArrives(answer)
  PROVE  PageInv'
<1>1. /\ losses' = losses /\ queue' = queue /\ posts' = posts /\ last' = last
      /\ format' = format /\ round' = round
      /\ \/ job' = job
         \/ /\ job.stage # "posting" /\ job'.stage # "posting"
            /\ DOMAIN job' = {"stage", "click", "answer"}
  <2>1. CASE Poll \/ \E answer \in polls : PollArrives(answer)
    BY <2>1 DEF Poll, PollArrives, pageVars
  <2>2. CASE ReadAfterSave
    <3>1. job' = [job EXCEPT !.stage = "reading", !.answer = {round}] /\ job.stage = "saved"
      BY <2>2 DEF ReadAfterSave
    <3>2. DOMAIN job' = {"stage", "click", "answer"} /\ job'.stage = "reading"
      BY <3>1 DEF PageInv, PageTypes
    <3>3. QED
      BY <2>2, <3>1, <3>2 DEF ReadAfterSave
  <2>3. CASE SaveEnds
    BY <2>3 DEF SaveEnds, NoJob
  <2>4. QED
    BY <2>1, <2>2, <2>3
<1>2. PageTypes'
  BY <1>1 DEF PageInv, PageTypes, Leg
<1>3. ASSUME losses = 0 PROVE OneSave' /\ InOrder' /\ ForThisLeg' /\ SavedStays'
  <2>1. posts # {} => job.stage = "posting"
    BY <1>3 DEF PageInv, OneSave
  <2>2. CASE job' = job
    BY <1>1, <1>3, <2>2 DEF PageInv, OneSave, InOrder, ForThisLeg, SavedStays
  <2>3. CASE job.stage # "posting" /\ job'.stage # "posting"
    <3>1. posts = {}
      BY <2>1, <2>3
    <3>2. QED
      BY <1>1, <1>3, <2>3, <3>1 DEF PageInv, OneSave, InOrder, ForThisLeg, SavedStays
  <2>4. QED
    BY <1>1, <2>2, <2>3
<1>4. QED
  BY <1>1, <1>2, <1>3 DEF PageInv

LEMMA PlayerPageStep ==
  ASSUME PageInv, Patient, [PlayerPageNext]_playerVars
  PROVE  PageInv'
<1>1. CASE PlayerPageNext
  BY <1>1, NewClick, NextSave, Answered, Lost, ServerMoves, PageReads DEF PlayerPageNext
<1>2. CASE UNCHANGED playerVars
  BY <1>2 DEF playerVars, pageVars, PageInv, PageTypes, OneSave, InOrder, ForThisLeg,
              SavedStays, Leg
<1>3. QED
  BY <1>1, <1>2

(* Saves go out one at a time and none outlives its leg: unless an answer was lost, once
   nothing is under way the last click that was saved is the pick the server holds, for any
   number of clicks, polls and legs. *)
THEOREM LastClickAlwaysWins ==
  ASSUME Patient
  PROVE  PlayerPageSpec => []LastClickWins
<1>1. PlayerPageInit => PageInv
  <2> SUFFICES ASSUME PlayerPageInit PROVE PageInv
    OBVIOUS
  <2>1. 1 \in Leg /\ NoClick \in Clicks /\ 0 \in Nat
    BY PlayerPageAssumption DEF Leg, NoClick, Clicks
  <2>2. PageTypes
    BY <2>1 DEF PlayerPageInit, PageTypes, NoJob
  <2>3. OneSave /\ InOrder /\ ForThisLeg /\ SavedStays
    BY DEF PlayerPageInit, OneSave, InOrder, ForThisLeg, SavedStays, NoJob
  <2>4. QED
    BY <2>2, <2>3 DEF PageInv
<1>2. PageInv /\ [PlayerPageNext]_playerVars => PageInv'
  BY PlayerPageStep
<1>3. PageInv => LastClickWins
  BY DEF PageInv, SavedStays, LastClickWins
<1>4. QED
  BY <1>1, <1>2, <1>3, PTL DEF PlayerPageSpec

-----------------------------------------------------------------------------
(* Purchases. *)

Statuses == {"quoted", "built", "submitted", "confirmed", "failed", "expired"}
TxStates == {"none", "sent", "landed", "failed", "dropped"}
OrderRecords == [panta : Statuses, tx : TxStates, signature : BOOLEAN,
                 verdict : {"none", "done", "failed", "unknown"}]
Unsent == {"quoting", "building", "signing"}
Buying == Unsent \cup {"broadcasting", "landing", "submitting", "verifying", "reporting"}

OrdersTypeOK ==
    /\ mode \in {"panta", "mock"}
    /\ orders \in Seq(OrderRecords)
    /\ stage \in {"idle", "trading"} \cup Buying
    /\ fills \in Nat /\ counted \in Nat

(* The page works on its last order only, and that one has no verdict yet; nothing has been
   sent before the wallet signed, and its signature is unknown until the broadcast is answered. *)
UnderWay ==
    stage \in Buying =>
        /\ orders # <<>>
        /\ orders[This].verdict = "none"
        /\ stage \in Unsent => orders[This].tx = "none"
        /\ stage \in Unsent \cup {"broadcasting"} => ~orders[This].signature
        /\ mode = "panta" /\ stage = "reporting" => orders[This].panta = "confirmed"

(* Panta's final word is the transaction's. *)
PantaKnows ==
    \A n \in Order :
        /\ orders[n].panta = "confirmed" => orders[n].tx = "landed"
        /\ orders[n].panta \in {"failed", "expired"} => orders[n].tx \in {"failed", "dropped"}

DoneOrders == {n \in Order : orders[n].verdict = "done"}

(* One order for a fill at most; the count is of orders the page has finished. *)
CountsFollow ==
    /\ Len(orders) <= fills
    /\ counted <= Cardinality(DoneOrders)

OrdersInv == OrdersTypeOK /\ UnderWay /\ PantaKnows /\ VerdictsStayTrue /\ CountsFollow

-----------------------------------------------------------------------------
(* Sets of orders are finite, and no larger than the number of orders. *)
LEMMA OrdersFinite ==
  ASSUME orders \in Seq(OrderRecords), NEW S \in SUBSET Order
  PROVE  IsFiniteSet(S) /\ Cardinality(S) \in Nat /\ Cardinality(S) <= Len(orders)
<1>1. Order = 1..Len(orders) /\ Len(orders) \in Nat
  BY DEF Order
<1>2. IsFiniteSet(Order) /\ Cardinality(Order) = Len(orders)
  <2>1. IsFiniteSet(1..Len(orders)) /\ Cardinality(1..Len(orders)) = Len(orders)
    BY <1>1, FS_Interval
  <2>2. QED
    BY <1>1, <2>1
<1>3. QED
  BY <1>1, <1>2, FS_Subset, FS_CardinalityType

(* Writing the page's order leaves the others, and the other fields. *)
OnlyThis(tx, panta, verdict, signature) ==
    /\ orders' \in Seq(OrderRecords)
    /\ Len(orders') = Len(orders) /\ Order' = Order /\ This' = This
    /\ \A m \in Order : m # This => orders'[m] = orders[m]
    /\ orders'[This].tx = tx /\ orders'[This].panta = panta /\ orders'[This].verdict = verdict
    /\ orders'[This].signature = signature

LEMMA OrderWritten ==
  ASSUME orders \in Seq(OrderRecords), This \in Order, NEW o \in OrderRecords,
         orders' = [orders EXCEPT ![This] = o]
  PROVE  OnlyThis(o.tx, o.panta, o.verdict, o.signature)
BY DEF OnlyThis, Order, This

LEMMA FieldWritten ==
  ASSUME orders \in Seq(OrderRecords), This \in Order,
         NEW b, b = orders[This]
  PROVE  /\ orders' = orders => OnlyThis(b.tx, b.panta, b.verdict, b.signature)
         /\ \A v \in TxStates : orders' = Set("tx", v) => OnlyThis(v, b.panta, b.verdict, b.signature)
         /\ \A v \in Statuses : orders' = Set("panta", v) => OnlyThis(b.tx, v, b.verdict, b.signature)
         /\ \A v \in {"none", "done", "failed", "unknown"} :
                orders' = Set("verdict", v) => OnlyThis(b.tx, b.panta, v, b.signature)
         /\ orders' = Set("signature", TRUE) => OnlyThis(b.tx, b.panta, b.verdict, TRUE)
         /\ orders' = [Set("panta", "built") EXCEPT ![This].verdict = "failed"] =>
                OnlyThis(b.tx, "built", "failed", b.signature)
<1>0. b \in OrderRecords
  BY DEF Order
<1>1. ASSUME orders' = orders PROVE OnlyThis(b.tx, b.panta, b.verdict, b.signature)
  BY <1>0, <1>1 DEF OnlyThis, Order, This
<1>2. ASSUME NEW v \in TxStates, orders' = Set("tx", v) PROVE OnlyThis(v, b.panta, b.verdict, b.signature)
  <2>1. [b EXCEPT !.tx = v] \in OrderRecords
    BY <1>0, <1>2 DEF OrderRecords
  <2>2. orders' = [orders EXCEPT ![This] = [b EXCEPT !.tx = v]]
    BY <1>2 DEF Set
  <2>3. QED
    BY <1>0, <2>1, <2>2, OrderWritten DEF OrderRecords
<1>3. ASSUME NEW v \in Statuses, orders' = Set("panta", v) PROVE OnlyThis(b.tx, v, b.verdict, b.signature)
  <2>1. [b EXCEPT !.panta = v] \in OrderRecords
    BY <1>0, <1>3 DEF OrderRecords
  <2>2. orders' = [orders EXCEPT ![This] = [b EXCEPT !.panta = v]]
    BY <1>3 DEF Set
  <2>3. QED
    BY <1>0, <2>1, <2>2, OrderWritten DEF OrderRecords
<1>4. ASSUME NEW v \in {"none", "done", "failed", "unknown"}, orders' = Set("verdict", v)
      PROVE  OnlyThis(b.tx, b.panta, v, b.signature)
  <2>1. [b EXCEPT !.verdict = v] \in OrderRecords
    BY <1>0, <1>4 DEF OrderRecords
  <2>2. orders' = [orders EXCEPT ![This] = [b EXCEPT !.verdict = v]]
    BY <1>4 DEF Set
  <2>3. QED
    BY <1>0, <2>1, <2>2, OrderWritten DEF OrderRecords
<1>5. ASSUME orders' = [Set("panta", "built") EXCEPT ![This].verdict = "failed"]
      PROVE  OnlyThis(b.tx, "built", "failed", b.signature)
  <2>1. [b EXCEPT !.panta = "built", !.verdict = "failed"] \in OrderRecords
    BY <1>0 DEF OrderRecords, Statuses
  <2>2. orders' = [orders EXCEPT ![This] = [b EXCEPT !.panta = "built", !.verdict = "failed"]]
    BY <1>5 DEF Set
  <2>3. QED
    BY <1>0, <2>1, <2>2, OrderWritten DEF OrderRecords
<1>6. ASSUME orders' = Set("signature", TRUE) PROVE OnlyThis(b.tx, b.panta, b.verdict, TRUE)
  <2>1. [b EXCEPT !.signature = TRUE] \in OrderRecords
    BY <1>0 DEF OrderRecords
  <2>2. orders' = [orders EXCEPT ![This] = [b EXCEPT !.signature = TRUE]]
    BY <1>6 DEF Set
  <2>3. QED
    BY <1>0, <2>1, <2>2, OrderWritten DEF OrderRecords
<1>7. QED
  BY <1>1, <1>2, <1>3, <1>4, <1>5, <1>6

(* What a page may make of its order, and with what it may go on then. *)
Sound(tx, panta, verdict, signature) ==
    /\ panta = "confirmed" => tx = "landed"
    /\ panta \in {"failed", "expired"} => tx \in {"failed", "dropped"}
    /\ mode = "panta" /\ verdict = "done" => tx = "landed"
    /\ mode = "panta" /\ verdict = "failed" /\ signature => tx \notin {"sent", "landed"}

GoesOn(tx, panta, verdict, signature, next) ==
    next \in Buying =>
        /\ verdict = "none"
        /\ next \in Unsent => tx = "none"
        /\ next \in Unsent \cup {"broadcasting"} => ~signature
        /\ mode = "panta" /\ next = "reporting" => panta = "confirmed"

LEMMA PageWrites ==
  ASSUME OrdersInv, stage \in Buying,
         NEW tx, NEW panta, NEW verdict, NEW signature \in BOOLEAN, OnlyThis(tx, panta, verdict, signature),
         stage' \in {"idle"} \cup Buying,
         Sound(tx, panta, verdict, signature), GoesOn(tx, panta, verdict, signature, stage'),
         mode' = mode, fills' = fills,
         verdict # "done" => counted' = counted,
         counted' \in {counted, counted + 1}
  PROVE  OrdersInv'
<1> USE DEF OrdersInv, OrdersTypeOK
<1>1. This \in Order /\ orders[This].verdict = "none"
  BY DEF UnderWay, This, Order
<1>2. /\ orders' \in Seq(OrderRecords) /\ Len(orders') = Len(orders) /\ Order' = Order
      /\ This' = This
      /\ \A m \in Order : m # This => orders'[m] = orders[m]
      /\ orders'[This].tx = tx /\ orders'[This].panta = panta /\ orders'[This].verdict = verdict
      /\ orders'[This].signature = signature
  BY DEF OnlyThis
<1>3. OrdersTypeOK'
  BY <1>2
<1>4. UnderWay'
  BY <1>1, <1>2 DEF UnderWay, GoesOn, Unsent, Buying, Order
<1>5. PantaKnows' /\ VerdictsStayTrue'
  BY <1>1, <1>2 DEF PantaKnows, VerdictsStayTrue, Purchases, Sound
<1>6. CountsFollow'
  <2>1. DoneOrders' = IF verdict = "done" THEN DoneOrders \cup {This} ELSE DoneOrders
    BY <1>1, <1>2 DEF DoneOrders
  <2>2. IsFiniteSet(DoneOrders) /\ This \notin DoneOrders /\ Cardinality(DoneOrders) \in Nat
    BY <1>1, OrdersFinite DEF DoneOrders
  <2>3. Cardinality(DoneOrders') = IF verdict = "done" THEN Cardinality(DoneOrders) + 1
                                   ELSE Cardinality(DoneOrders)
    BY <2>1, <2>2, FS_AddElement
  <2>4. QED
    BY <1>2, <2>2, <2>3 DEF CountsFollow
<1>7. QED
  BY <1>3, <1>4, <1>5, <1>6

-----------------------------------------------------------------------------
LEMMA OrdersInitially == OrdersInit => OrdersInv
<1> SUFFICES ASSUME OrdersInit PROVE OrdersInv
  OBVIOUS
<1>1. Order = {} /\ Len(orders) = 0 /\ orders \in Seq(OrderRecords)
  BY DEF OrdersInit, Order
<1>2. DoneOrders = {} /\ Cardinality(DoneOrders) = 0
  BY <1>1, FS_EmptySet DEF DoneOrders
<1>3. QED
  BY <1>1, <1>2, OrdersAssumption
     DEF OrdersInit, OrdersInv, OrdersTypeOK, UnderWay, PantaKnows, VerdictsStayTrue,
         CountsFollow, Unsent, Buying

(* The pit's trade: an order only starts with a fill. *)
LEMMA TradeSteps ==
  ASSUME OrdersInv,
         Buy \/ \E filled, heard, fillOnPanta \in BOOLEAN : TradeEnds(filled, heard, fillOnPanta)
  PROVE  OrdersInv'
<1> USE DEF OrdersInv, OrdersTypeOK
<1>1. CASE Buy
  BY <1>1 DEF Buy, UnderWay, PantaKnows, VerdictsStayTrue, Purchases, CountsFollow, DoneOrders,
              Unsent, Buying, Order, This
<1>2. ASSUME NEW filled \in BOOLEAN, NEW heard \in BOOLEAN, NEW fillOnPanta \in BOOLEAN,
             TradeEnds(filled, heard, fillOnPanta)
      PROVE  OrdersInv'
  <2>1. CASE orders' = orders /\ stage' = "idle"
    BY <1>2, <2>1 DEF TradeEnds, UnderWay, PantaKnows, VerdictsStayTrue, Purchases, CountsFollow,
                      DoneOrders, Unsent, Buying, Order, This
  <2>2. CASE filled /\ orders' = Append(orders, NoOrder) /\ stage' = "quoting"
    <3>1. /\ NoOrder \in OrderRecords
          /\ NoOrder.panta = "quoted" /\ NoOrder.tx = "none" /\ NoOrder.verdict = "none"
          /\ ~NoOrder.signature
      BY DEF NoOrder, OrderRecords, Statuses, TxStates
    <3>2. /\ orders' \in Seq(OrderRecords) /\ Len(orders') = Len(orders) + 1
          /\ Len(orders) \in Nat
          /\ orders'[Len(orders) + 1] = NoOrder
          /\ \A m \in 1..Len(orders) : orders'[m] = orders[m]
      BY <2>2, <3>1
    <3>3. /\ Order = 1..Len(orders) /\ Order' = 1..(Len(orders) + 1)
          /\ This' = Len(orders) + 1
      BY <3>2 DEF Order, This
    <3>4. fills' = fills + 1 /\ mode' = mode /\ counted' = counted
      BY <1>2, <2>2 DEF TradeEnds
    <3>5. DoneOrders' = DoneOrders
      BY <3>1, <3>2, <3>3 DEF DoneOrders
    <3>6. OrdersTypeOK' /\ UnderWay'
      BY <2>2, <3>1, <3>2, <3>3, <3>4 DEF UnderWay, Unsent, Buying
    <3>7. PantaKnows' /\ VerdictsStayTrue'
      BY <3>1, <3>2, <3>3, <3>4 DEF PantaKnows, VerdictsStayTrue, Purchases
    <3>8. CountsFollow'
      BY <3>2, <3>4, <3>5 DEF CountsFollow
    <3>9. QED
      BY <3>6, <3>7, <3>8
  <2>3. QED
    BY <1>2, <2>1, <2>2 DEF TradeEnds, StartsOrder
<1>3. QED
  BY <1>1, <1>2

(* The page and its order. *)
PageStep ==
    Quoted \/ Built \/ Signed \/ BroadcastAnswers \/ Polled \/ Submitted \/ Verified \/ Reported
    \/ PageClosed

LEMMA PageSteps ==
  ASSUME OrdersInv, PageStep
  PROVE  OrdersInv'
<1> USE DEF OrdersInv, OrdersTypeOK
<1>0. CASE PageClosed /\ stage = "trading"
  BY <1>0 DEF PageClosed, UnderWay, PantaKnows, VerdictsStayTrue, Purchases, CountsFollow,
              DoneOrders, Unsent, Buying, Order, This
<1>1. CASE stage \in Buying
  <2> DEFINE b == orders[This]
  <2>1. /\ This \in Order /\ b.verdict = "none"
        /\ b.signature \in BOOLEAN
        /\ stage \in Unsent => b.tx = "none"
        /\ stage \in Unsent \cup {"broadcasting"} => ~b.signature
        /\ mode = "panta" /\ stage = "reporting" => b.panta = "confirmed"
        /\ b.panta = "confirmed" => b.tx = "landed"
        /\ b.panta \in {"failed", "expired"} => b.tx \in {"failed", "dropped"}
    <3>1. This \in Order
      BY <1>1 DEF UnderWay, This, Order
    <3>2. b.signature \in BOOLEAN
      <4>1. \A o \in OrderRecords : o.signature \in BOOLEAN
        BY DEF OrderRecords
      <4>2. b \in OrderRecords
        BY <3>1 DEF Order
      <4>3. QED
        BY <4>1, <4>2
    <3>3. QED
      BY <1>1, <3>1, <3>2 DEF UnderWay, PantaKnows
  <2>2. mode' = mode /\ fills' = fills
    BY DEF PageStep, Quoted, Built, Signed, Broadcast, BroadcastAnswers, Attributed, Polled,
           Submitted, Verified, Reported, PageClosed
  <2>3. /\ orders' = orders => OnlyThis(b.tx, b.panta, b.verdict, b.signature)
        /\ \A v \in TxStates : orders' = Set("tx", v) => OnlyThis(v, b.panta, b.verdict, b.signature)
        /\ \A v \in Statuses : orders' = Set("panta", v) => OnlyThis(b.tx, v, b.verdict, b.signature)
        /\ orders' = Set("signature", TRUE) => OnlyThis(b.tx, b.panta, b.verdict, TRUE)
        /\ \A v \in {"none", "done", "failed", "unknown"} :
               orders' = Set("verdict", v) => OnlyThis(b.tx, b.panta, v, b.signature)
        /\ orders' = [Set("panta", "built") EXCEPT ![This].verdict = "failed"] =>
               OnlyThis(b.tx, "built", "failed", b.signature)
    BY <2>1, FieldWritten
  <2> DEFINE Leaves(tx, panta, verdict, signature) ==
        /\ OnlyThis(tx, panta, verdict, signature)
        /\ stage' \in {"idle"} \cup Buying
        /\ Sound(tx, panta, verdict, signature) /\ GoesOn(tx, panta, verdict, signature, stage')
        /\ verdict # "done" => counted' = counted
        /\ counted' \in {counted, counted + 1}
  <2>4. ASSUME NEW tx, NEW panta, NEW verdict, NEW signature \in {TRUE, b.signature},
               Leaves(tx, panta, verdict, signature)
        PROVE  OrdersInv'
    BY <1>1, <2>1, <2>2, <2>4, PageWrites
  <2> USE DEF Sound, GoesOn, Unsent, Buying, Says, Statuses, TxStates
  <2>5. CASE Quoted \/ Polled
    <3>1. \/ Leaves(b.tx, b.panta, b.verdict, b.signature)
          \/ Leaves(b.tx, b.panta, "failed", b.signature)
      BY <2>1, <2>3, <2>5 DEF Quoted, Polled
    <3>2. QED
      BY <2>4, <3>1
  <2>6. CASE Built
    <3>1. \/ Leaves(b.tx, "built", b.verdict, b.signature)
          \/ Leaves(b.tx, "built", "failed", b.signature)
          \/ Leaves(b.tx, b.panta, "failed", b.signature)
      BY <2>1, <2>3, <2>6 DEF Built
    <3>2. QED
      BY <2>4, <3>1
  <2>7. CASE Signed
    <3>1. \/ Leaves(b.tx, b.panta, b.verdict, b.signature)
          \/ Leaves("sent", b.panta, b.verdict, b.signature)
          \/ Leaves(b.tx, b.panta, "failed", b.signature)
      BY <2>1, <2>3, <2>7 DEF Signed, Broadcast
    <3>2. QED
      BY <2>4, <3>1
  <2>8. CASE BroadcastAnswers
    <3>1. \/ Leaves(b.tx, b.panta, b.verdict, TRUE)
          \/ Leaves(b.tx, b.panta, "failed", b.signature)
      BY <2>1, <2>3, <2>8 DEF BroadcastAnswers
    <3>2. QED
      BY <2>4, <3>1
  <2>9. CASE Submitted
    <3>1. \/ Leaves(b.tx, b.panta, b.verdict, b.signature)
          \/ b.panta = "built" /\ Leaves(b.tx, "submitted", b.verdict, b.signature)
      BY <2>1, <2>3, <2>9 DEF Submitted, Told
    <3>2. QED
      BY <2>4, <3>1
  <2>10. CASE Verified
    <3>1. \/ Leaves(b.tx, b.panta, b.verdict, b.signature)
          \/ b.panta = "built" /\ Leaves(b.tx, "submitted", b.verdict, b.signature)
          \/ Leaves(b.tx, b.panta, "failed", b.signature)
          \/ Leaves(b.tx, b.panta, "unknown", b.signature)
      BY <2>1, <2>3, <2>10 DEF Verified, Told, Ends, Outcome
    <3>2. QED
      BY <2>4, <3>1
  <2>11. CASE Reported
    <3>1. Leaves(b.tx, b.panta, "done", b.signature)
      BY <2>1, <2>3, <2>11 DEF Reported, Attributed
    <3>2. QED
      BY <2>4, <3>1
  <2>12. CASE PageClosed
    <3>1. Leaves(b.tx, b.panta, b.verdict, b.signature)
      BY <2>1, <2>3, <2>12 DEF PageClosed
    <3>2. QED
      BY <2>4, <3>1
  <2>13. QED
    BY <2>5, <2>6, <2>7, <2>8, <2>9, <2>10, <2>11, <2>12 DEF PageStep
<1>2. QED
  BY <1>0, <1>1 DEF PageStep, Quoted, Built, Signed, Broadcast, BroadcastAnswers, Attributed, Polled,
                    Submitted, Verified, Reported, PageClosed, Unsent, Buying

(* The chain and Panta, on any order, whenever they like. *)
LEMMA WorldSteps ==
  ASSUME OrdersInv,
         \E n \in Order : PantaFollows(n) \/ (\E how \in DOMAIN FinalWord : TxEnds(n, how))
  PROVE  OrdersInv'
<1> USE DEF OrdersInv, OrdersTypeOK
<1>1. DOMAIN FinalWord = {"landed", "failed", "dropped"}
      /\ FinalWord["landed"] = "confirmed" /\ FinalWord["failed"] = "failed"
      /\ FinalWord["dropped"] = "expired"
  BY DEF FinalWord
<1>2. PICK n \in Order : PantaFollows(n) \/ (\E how \in DOMAIN FinalWord : TxEnds(n, how))
  OBVIOUS
<1> DEFINE b == orders[n]
<1>3. b \in OrderRecords
  BY <1>2 DEF Order
<1>4. UNCHANGED <<mode, fills, stage, counted>>
  BY <1>2 DEF PantaFollows, TxEnds
<1>5. PICK o \in OrderRecords :
        /\ orders' = [orders EXCEPT ![n] = o]
        /\ o.verdict = b.verdict /\ o.signature = b.signature
        /\ \/ /\ o.tx = b.tx /\ o.tx \in DOMAIN FinalWord
              /\ b.panta = "submitted" /\ o.panta = FinalWord[o.tx]
           \/ b.tx = "sent" /\ o.tx \in DOMAIN FinalWord /\ o.panta = b.panta
  <2>1. CASE PantaFollows(n)
    <3>1. [b EXCEPT !.panta = FinalWord[b.tx]] \in OrderRecords /\ b.tx \in DOMAIN FinalWord
      BY <1>1, <1>3, <2>1 DEF PantaFollows, OrderRecords, Statuses
    <3>2. orders' = [orders EXCEPT ![n] = [b EXCEPT !.panta = FinalWord[b.tx]]]
      BY <2>1 DEF PantaFollows
    <3>3. QED
      BY <1>3, <2>1, <3>1, <3>2 DEF PantaFollows, OrderRecords
  <2>2. ASSUME NEW how \in DOMAIN FinalWord, TxEnds(n, how)
        PROVE  [b EXCEPT !.tx = how] \in OrderRecords
               /\ orders' = [orders EXCEPT ![n] = [b EXCEPT !.tx = how]]
               /\ b.tx = "sent"
    BY <1>1, <1>3, <2>2 DEF TxEnds, OrderRecords, TxStates
  <2>3. QED
    BY <1>2, <1>3, <2>1, <2>2 DEF OrderRecords
<1> HIDE DEF b
<1>6. /\ orders' \in Seq(OrderRecords) /\ Len(orders') = Len(orders) /\ Order' = Order
      /\ This' = This
      /\ orders'[n] = o
      /\ \A m \in Order : m # n => orders'[m] = orders[m]
  BY <1>2, <1>5 DEF Order, This
<1>7. OrdersTypeOK' /\ DoneOrders' = DoneOrders
  BY <1>2, <1>4, <1>5, <1>6 DEF DoneOrders, b
<1>8. UnderWay'
  <2>1. stage \in Buying => This \in Order
    BY DEF UnderWay, This, Order
  <2>2. CASE This = n
    BY <1>1, <1>4, <1>5, <1>6, <2>1, <2>2 DEF UnderWay, b, PantaKnows
  <2>3. CASE This # n
    BY <1>4, <1>6, <2>1, <2>3 DEF UnderWay, Order
  <2>4. QED
    BY <2>2, <2>3
<1>9. PantaKnows' /\ VerdictsStayTrue'
  BY <1>1, <1>2, <1>4, <1>5, <1>6 DEF PantaKnows, VerdictsStayTrue, Purchases, b
<1>10. CountsFollow'
  BY <1>4, <1>6, <1>7 DEF CountsFollow
<1>11. QED
  BY <1>7, <1>8, <1>9, <1>10

LEMMA OrdersStep == OrdersInv /\ [OrdersNext]_ordersVars => OrdersInv'
<1> SUFFICES ASSUME OrdersInv, [OrdersNext]_ordersVars PROVE OrdersInv'
  OBVIOUS
<1>1. CASE UNCHANGED ordersVars
  BY <1>1 DEF ordersVars, OrdersInv, OrdersTypeOK, UnderWay, PantaKnows, VerdictsStayTrue,
              Purchases, CountsFollow, DoneOrders, Order, This
<1>2. CASE OrdersNext
  BY <1>2, TradeSteps, PageSteps, WorldSteps DEF OrdersNext, PageStep
<1>3. QED
  BY <1>1, <1>2

(* The state keeps its shape, the page works on its last order only, and Panta's final word is
   the transaction's. *)
THEOREM OrdersInvariant == OrdersSpec => []OrdersInv
BY OrdersInitially, OrdersStep, PTL DEF OrdersSpec

(* Whatever lands, fails or is dropped after the page stopped waiting, "done" is only ever said
   of a purchase, and an error other than "unknown" never of one, or of one on its way, whose
   signature the page has. *)
THEOREM VerdictsAlwaysTrue == OrdersSpec => []VerdictsStayTrue
<1>1. OrdersInv => VerdictsStayTrue
  BY DEF OrdersInv
<1>2. QED
  BY <1>1, OrdersInvariant, PTL

(* Never more purchases than fills, nor more counted trades than purchases. *)
THEOREM PurchasesNeverExceedFills == OrdersSpec => []PurchasesFollowFills
<1>1. ASSUME OrdersInv PROVE PurchasesFollowFills
  <2> USE <1>1 DEF OrdersInv, OrdersTypeOK
  <2>1. Purchases \in SUBSET Order /\ IsFiniteSet(Purchases)
        /\ Cardinality(Purchases) \in Nat /\ Cardinality(Purchases) <= Len(orders)
    BY OrdersFinite DEF Purchases
  <2>2. ASSUME mode = "panta" PROVE DoneOrders \subseteq Purchases
    BY <2>2 DEF DoneOrders, VerdictsStayTrue
  <2>3. ASSUME mode = "panta" PROVE Cardinality(DoneOrders) <= Cardinality(Purchases)
    BY <2>1, <2>2, <2>3, FS_Subset
  <2>4. Cardinality(DoneOrders) \in Nat /\ Len(orders) \in Nat
    BY OrdersFinite DEF DoneOrders
  <2>5. QED
    BY <2>1, <2>3, <2>4 DEF CountsFollow, PurchasesFollowFills
<1>2. QED
  BY <1>1, OrdersInvariant, PTL
=============================================================================
