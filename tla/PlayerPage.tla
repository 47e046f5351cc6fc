----------------------------- MODULE PlayerPage -----------------------------
(***************************************************************************)
(* A player's page in a pit played by picks (app/ArenaView.tsx), the round *)
(* on the server and the requests between them: the page polls the round,  *)
(* shows a click at once, and saves clicks one request at a time; answers  *)
(* come late and in any order, and some never come.                        *)
(*                                                                         *)
(* One question is enough: saves of different questions never touch the    *)
(* same answer.  A predictions game is one leg, open until it locks; a     *)
(* streak is several, each with its window.                                *)
(***************************************************************************)
EXTENDS Integers, Sequences, FiniteSets

CONSTANTS
    Formats,   \* formats a pit may have
    Option,    \* answers of the question
    Legs,      \* legs of a streak
    Patient,   \* whether every save and poll ends before the next leg opens
    MaxClicks, MaxPolls, MaxLosses  \* bounds

ASSUME PlayerPageAssumption ==
    /\ Formats \subseteq {"predictions", "streak"}
    /\ Legs \in Nat \ {0} /\ Patient \in BOOLEAN
    /\ {MaxClicks, MaxPolls, MaxLosses} \subseteq Nat

VARIABLES
    format,
    round,    \* the server's round: the leg, whether its window is open, the saved picks
    view,     \* the round as the page last received it
    draft,    \* the click shown before the server has it, or none
    queue,    \* clicks not sent yet
    job,      \* the click being saved: posting, then reading the round
    posts,    \* saves on their way to the server
    polls,    \* rounds on their way to the page
    last,     \* the player's last click, and whether the page heard that it was saved
    losses    \* answers that never came

pageVars == <<view, draft, queue, job, last>>
playerVars == <<format, round, pageVars, posts, polls, losses>>

NoPick == "none"
NoClick == [id |-> 0, n |-> 0, pick |-> NoPick]
NoJob == [stage |-> "none", click |-> NoClick, answer |-> {}]
Leg == IF format = "streak" THEN 1..Legs ELSE {1}

PlayerPageInit ==
    /\ format \in Formats
    /\ round = [leg |-> 1, open |-> TRUE, picks |-> [n \in Leg |-> NoPick]]
    /\ view = round
    /\ draft = NoClick /\ queue = <<>> /\ job = NoJob
    /\ posts = {} /\ polls = {}
    /\ last = [click |-> NoClick, saved |-> FALSE]
    /\ losses = 0

(* A definition named Faulty... is a deliberately wrong variant of the one below it, as in
   module Escrow. *)

-----------------------------------------------------------------------------
(* The round on the server: a window closes, and a streak opens the next leg. *)

SaveUnderWay == queue # <<>> \/ job # NoJob \/ posts # {}

CloseWindow ==
    /\ round.open
    /\ round' = [round EXCEPT !.open = FALSE]
    /\ UNCHANGED <<format, pageVars, posts, polls, losses>>

OpenNextLeg ==
    /\ ~round.open /\ round.leg + 1 \in Leg
    /\ ~(Patient /\ SaveUnderWay)
    /\ round' = [round EXCEPT !.leg = @ + 1, !.open = TRUE]
    /\ UNCHANGED <<format, pageVars, posts, polls, losses>>

-----------------------------------------------------------------------------
(* Polling: every answer replaces the view, however old it is. *)

Poll ==
    /\ Cardinality(polls) < MaxPolls
    /\ polls' = polls \cup {round}
    /\ UNCHANGED <<format, round, pageVars, posts, losses>>

PollArrives(answer) ==
    /\ answer \in polls
    /\ polls' = polls \ {answer}
    /\ view' = answer
    /\ UNCHANGED <<format, round, draft, queue, job, last, posts, losses>>

PollLost(answer) ==
    /\ answer \in polls /\ losses < MaxLosses
    /\ losses' = losses + 1
    /\ polls' = polls \ {answer}
    /\ UNCHANGED <<format, round, pageVars, posts>>

-----------------------------------------------------------------------------
(* Clicks: shown at once, saved one at a time.  The page closes a window by its own clock
   (canPick), so a view that is a leg old takes no clicks. *)

Click(option) ==
    LET click == [id |-> last.click.id + 1, n |-> view.leg, pick |-> option] IN
    /\ view.open /\ (Patient => view.leg = round.leg)
    /\ click.id <= MaxClicks
    /\ draft' = click
    /\ last' = [click |-> click, saved |-> FALSE]
    /\ queue' = Append(queue, click)
    /\ UNCHANGED <<format, round, view, job, posts, polls, losses>>

FaultyMaySend == queue # <<>>  \* does not wait for the save before it

MaySend == queue # <<>> /\ job = NoJob

(* The request names the pick, not the leg. *)
SendSave ==
    /\ MaySend
    /\ job' = [NoJob EXCEPT !.stage = "posting", !.click = Head(queue)]
    /\ queue' = Tail(queue)
    /\ posts' = posts \cup {[click |-> Head(queue), mine |-> TRUE]}
    /\ UNCHANGED <<format, round, view, draft, last, polls, losses>>

(* A draft is compared by its value. *)
Undrafted(click) == IF draft.n = click.n /\ draft.pick = click.pick THEN NoClick ELSE draft

FaultyAfterRefusal(click) == draft  \* a refused pick stays on screen

(* A streak drops the draft when its pick is refused. *)
AfterRefusal(click) == IF format = "streak" THEN Undrafted(click) ELSE draft

Heard(click, saved) ==
    /\ job' = [job EXCEPT !.stage = "saved"]
    /\ last' = IF last.click = click THEN [last EXCEPT !.saved = saved] ELSE last
    /\ draft' = IF saved THEN draft ELSE AfterRefusal(click)

(* The picks route, under the lock: the pick is for whatever leg is open by then. *)
ServerSaves(post, answered) ==
    /\ post \in posts
    /\ posts' = posts \ {post}
    /\ round' = IF round.open THEN [round EXCEPT !.picks[round.leg] = post.click.pick] ELSE round
    /\ IF post.mine THEN Heard(post.click, round.open /\ answered)
                    ELSE UNCHANGED <<job, last, draft>>
    /\ ~answered => post.mine /\ losses < MaxLosses
    /\ losses' = IF answered THEN losses ELSE losses + 1
    /\ UNCHANGED <<format, view, queue, polls>>

(* "Network error" before the server has handled the request, which it still may. *)
SaveLost(post) ==
    /\ post \in posts /\ post.mine /\ losses < MaxLosses
    /\ losses' = losses + 1
    /\ posts' = (posts \ {post}) \cup {[post EXCEPT !.mine = FALSE]}
    /\ Heard(post.click, FALSE)
    /\ UNCHANGED <<format, round, view, queue, polls>>

(* The queue waits for a read of the round before the next save. *)
ReadAfterSave ==
    /\ job.stage = "saved"
    /\ job' = [job EXCEPT !.stage = "reading", !.answer = {round}]
    /\ UNCHANGED <<format, round, view, draft, queue, last, posts, polls, losses>>

(* A predictions edit goes once the server's copy has been read, saved or refused. *)
SaveEnds ==
    /\ job.stage = "reading"
    /\ view' \in job.answer
    /\ job' = NoJob
    /\ draft' = IF format = "predictions" THEN Undrafted(job.click) ELSE draft
    /\ UNCHANGED <<format, round, queue, last, posts, polls, losses>>

-----------------------------------------------------------------------------
PlayerPageNext ==
    \/ CloseWindow \/ OpenNextLeg \/ Poll
    \/ \E answer \in polls : PollArrives(answer) \/ PollLost(answer)
    \/ \E option \in Option : Click(option)
    \/ SendSave
    \/ \E post \in posts : SaveLost(post) \/ (\E answered \in BOOLEAN : ServerSaves(post, answered))
    \/ ReadAfterSave \/ SaveEnds

PlayerPageSpec == PlayerPageInit /\ [][PlayerPageNext]_playerVars

(* The interval timer polls for ever; requests are answered unless lost. *)
Views == [leg : 1..Legs, open : BOOLEAN, picks : UNION {[1..n -> Option \cup {NoPick}] : n \in {1, Legs}}]
Posts == [click : [id : 1..MaxClicks, n : 1..Legs, pick : Option], mine : {TRUE}]

PlayerPageFairSpec ==
    /\ PlayerPageSpec
    /\ WF_playerVars(Poll) /\ WF_playerVars(SendSave)
    /\ WF_playerVars(ReadAfterSave) /\ WF_playerVars(SaveEnds)
    /\ \A answer \in Views : WF_playerVars(PollArrives(answer))
    /\ \A post \in Posts : WF_playerVars(ServerSaves(post, TRUE))

-----------------------------------------------------------------------------
(* Properties. *)

(* What the page shows as the player's pick for the leg it shows. *)
Shown == IF draft.n = view.leg THEN draft.pick ELSE view.picks[view.leg]

(* "Pick and lock saves go out one at a time, so the last click always wins"
   (app/ArenaView.tsx:232): unless an answer was lost, once the page has no save under way
   the last click the server accepted is the pick of the leg it was made for. *)
LastClickWins ==
    losses = 0 /\ last.saved /\ ~SaveUnderWay => round.picks[last.click.n] = last.click.pick

(* Drafts, old polls and refused or lost saves pass: in the end the page shows the pick the
   server holds, in a streak unless an answer was lost. *)
ScreenSettles ==
    <>[](format = "predictions" \/ losses = 0 =>
             view.leg = round.leg /\ Shown = round.picks[round.leg])
=============================================================================
