------------------------------- MODULE Identity -------------------------------
(***************************************************************************)
(* Who the player is, in the tabs of one browser (lib/use-wallet.ts,       *)
(* lib/session-client.ts, lib/privy-client.ts): the session cookie and     *)
(* Privy's X sign-in, which the tabs share, and what each tab shows and    *)
(* remembers of them.                                                      *)
(*                                                                         *)
(* Sessions lapse and are renewed from X's tokens, tabs follow one another *)
(* by storage events and hear of Privy in their own time, and every step   *)
(* is a request: a read answers for the cookie it was sent with, and a     *)
(* sign-in or sign-out counts from the moment its answer arrives.          *)
(***************************************************************************)
EXTENDS Integers, Bags, BagsExt

CONSTANTS
    Tab, Account,
    MaxEvents,  \* bound: sign-ins, sign-outs and acts pressed, sessions that lapse or end in X
    MaxCalls    \* bound: requests under way when one of those happens

VARIABLES
    cookie,    \* the account of the browser's session
    privy,     \* the account signed in to X
    tabs,      \* what each tab shows, and remembers of the session (signedInAs) and of Privy
    acts,      \* the act of each tab: as whom, and whether nothing has come in between
    calls,     \* what the tabs wait for, a bag
    news,      \* tabs with a storage event they have not handled
    crossed,   \* whether sign-ins and sign-outs have overlapped other requests
    events

sharedVars == <<cookie, privy>>
identityVars == <<sharedVars, tabs, acts, calls, news, crossed, events>>

None == "none"
Loading == "loading"  \* Privy, until it has told the tab who is signed in

ASSUME IdentityAssumption ==
    /\ None \notin Account /\ Loading \notin Account
    /\ MaxEvents \in Nat /\ MaxCalls \in Nat

Closed == [status |-> "closed", shown |-> None, cache |-> None, bridge |-> Loading]
NoAct == [as |-> None, calm |-> FALSE]

IdentityInit ==
    /\ cookie \in Account \cup {None}
    /\ privy = cookie
    /\ tabs = [t \in Tab |-> Closed]
    /\ acts = [t \in Tab |-> NoAct]
    /\ calls = EmptyBag /\ news = {}
    /\ crossed = FALSE
    /\ events = 0

Event == events < MaxEvents /\ BagCardinality(calls) < MaxCalls /\ events' = events + 1

(* A definition named Faulty... is a deliberately wrong variant of the one below it, as in
   module Escrow. *)

-----------------------------------------------------------------------------
(* What a tab does. *)

Out(tab) == [tab EXCEPT !.status = "out", !.shown = None]
In(tab, a) == [tab EXCEPT !.status = "in", !.shown = a, !.cache = a]

Call(t, for, step, account) == [tab |-> t, for |-> for, step |-> step, account |-> account, tries |-> 1]
Calls == BagToSet(calls)

FaultyBroadcast(t) == news' = news  \* the tabs are told nothing

(* set(..., true): the other tabs get an event, and events not yet handled are one. *)
Broadcast(t) == news' = news \cup {u \in Tab \ {t} : tabs[u].status # "closed"}

(* A session ends while one is read, made or acted with. *)
Overlapping(all) == \E c, d \in all : c.for = "end" /\ d.for # "end"

Calm(a) == [t \in Tab |-> IF acts[t].as = a THEN acts[t] ELSE [acts[t] EXCEPT !.calm = FALSE]]

-----------------------------------------------------------------------------
(* Reading the session, and proving the X account when there is none (refreshFromServer,
   renew, sessionFromX). *)

Opened(t) ==
    /\ tabs[t].status = "closed"
    /\ tabs' = [tabs EXCEPT ![t] = [Closed EXCEPT !.status = "loading"]]
    /\ calls' = BagAdd(calls, Call(t, "refresh", "reading", cookie))
    /\ UNCHANGED <<sharedVars, acts, news, events>>

Follows(t) ==
    /\ t \in news
    /\ news' = news \ {t}
    /\ calls' = BagAdd(calls, Call(t, "refresh", "reading", cookie))
    /\ UNCHANGED <<sharedVars, tabs, acts, events>>

Becomes(c, next) == calls' = BagAdd(BagRemove(calls, c), next)
Returns(c) == calls' = BagRemove(calls, c)
Goes(c, step, account) == Becomes(c, [c EXCEPT !.step = step, !.account = account])
ActEnds(c) == Returns(c) /\ acts' = [acts EXCEPT ![c.tab] = NoAct]

(* No session: renewed, if this tab has Privy signed in. *)
Proves(c) ==
    LET tab == [tabs[c.tab] EXCEPT !.cache = c.account] IN
    IF tab.bridge # None
    THEN /\ Goes(c, "proving", tab.bridge) /\ tabs' = [tabs EXCEPT ![c.tab] = tab]
         /\ UNCHANGED acts
    ELSE IF c.for = "act" THEN ActEnds(c) /\ tabs' = [tabs EXCEPT ![c.tab] = tab]
    ELSE Returns(c) /\ tabs' = [tabs EXCEPT ![c.tab] = Out(tab)] /\ UNCHANGED acts

(* refreshFromServer: a session there is shown. *)
Refreshes(c) ==
    IF c.account = None THEN tabs[c.tab].bridge # Loading /\ Proves(c)
    ELSE Returns(c) /\ tabs' = [tabs EXCEPT ![c.tab] = In(@, c.account)] /\ UNCHANGED acts

(* renew: a session of the wallet that acts is enough. *)
Renews(c) ==
    IF c.account # acts[c.tab].as THEN tabs[c.tab].bridge # Loading /\ Proves(c)
    ELSE /\ Goes(c, "sending", cookie) /\ tabs' = [tabs EXCEPT ![c.tab].cache = c.account]
         /\ UNCHANGED acts

ReadArrives(c) ==
    /\ c.step = "reading"
    /\ IF c.for = "act" THEN Renews(c) ELSE Refreshes(c)
    /\ UNCHANGED <<sharedVars, news, events>>

(* The wallet was this tab's, the tokens are the browser's: the server wants them to match. *)
ProvenBy(wallet, tokens) == IF tokens = wallet THEN wallet ELSE None

ProofTaken(c) ==
    /\ c.step = "proving" /\ tabs[c.tab].bridge # Loading
    /\ Goes(c, "posting", ProvenBy(c.account, privy))
    /\ UNCHANGED <<sharedVars, tabs, acts, news, events>>

(* The auth/x route's answer sets the cookie. *)
SessionMade(account) == cookie' = IF account = None THEN cookie ELSE account

Disturbed(c) == IF c.account = None THEN acts ELSE Calm(c.account)

(* An act goes on as the wallet it started as, or not at all. *)
Renewed(c) ==
    /\ tabs' = [tabs EXCEPT ![c.tab].cache = IF c.account = None THEN @ ELSE c.account]
    /\ IF c.account = acts[c.tab].as
       THEN Goes(c, "sending", c.account) /\ acts' = Disturbed(c)
       ELSE Returns(c) /\ acts' = [Disturbed(c) EXCEPT ![c.tab] = NoAct]
    /\ UNCHANGED news

(* A sign-in that finishes is told to the other tabs, a renewal is not. *)
SignInFinished(c) ==
    /\ Returns(c)
    /\ tabs' = [tabs EXCEPT ![c.tab] = IF c.account = None THEN Out(@) ELSE In(@, c.account)]
    /\ acts' = Disturbed(c)
    /\ IF c.for = "finish" /\ c.account # None THEN Broadcast(c.tab) ELSE UNCHANGED news

PostArrives(c) ==
    /\ c.step = "posting"
    /\ SessionMade(c.account)
    /\ IF c.for = "act" THEN Renewed(c) ELSE SignInFinished(c)
    /\ UNCHANGED <<privy, events>>

-----------------------------------------------------------------------------
(* Acting as the wallet shown (postAsWallet, ensureSession, requireWallet): one act at a time. *)

Acting(t) == \E c \in Calls : c.tab = t /\ c.for = "act"

ActPressed(t) ==
    LET a == tabs[t].shown IN
    /\ tabs[t].status = "in" /\ ~Acting(t)
    /\ Event
    /\ acts' = [acts EXCEPT ![t] = [as |-> a, calm |-> privy = a /\ tabs[t].bridge = a]]
    /\ calls' = BagAdd(calls, Call(t, "act", IF tabs[t].cache = a THEN "sending" ELSE "reading", cookie))
    /\ UNCHANGED <<sharedVars, tabs, news>>

FaultySessionLost(tab) == tab  \* goes on trusting what it remembers

SessionLost(tab) == [tab EXCEPT !.cache = None]

(* requireWallet: the request carries the cookie it was sent with. *)
Serves(c) == c.for = "act" /\ c.step = "sending" /\ c.account = acts[c.tab].as

(* A 401 is followed by a renewal and one more try. *)
ActAnswered(c) ==
    LET a == acts[c.tab].as
        tab == SessionLost(tabs[c.tab])
    IN
    /\ c.step = "sending"
    /\ IF Serves(c) \/ c.tries = 2 THEN ActEnds(c) /\ UNCHANGED tabs
       ELSE /\ tabs' = [tabs EXCEPT ![c.tab] = tab]
            /\ Becomes(c, [c EXCEPT !.tries = 2, !.account = cookie,
                                    !.step = IF tab.cache = a THEN "sending" ELSE "reading"])
            /\ UNCHANGED acts
    /\ UNCHANGED <<sharedVars, news, events>>

-----------------------------------------------------------------------------
(* Signing in and out. *)

(* Already signed in to X: only a session is missing. *)
SignInPressed(t) ==
    /\ tabs[t].status = "out" /\ tabs[t].bridge \in Account
    /\ Event
    /\ tabs' = [tabs EXCEPT ![t].status = "busy"]
    /\ calls' = BagAdd(calls, Call(t, "finish", "proving", tabs[t].bridge))
    /\ UNCHANGED <<sharedVars, acts, news>>

(* The page leaves for X and comes back: a new page, which reads the session as any other and
   finishes the sign-in. *)
SignedInWithX(t, a) ==
    LET others == [c \in {d \in Calls : d.tab # t} |-> calls[c]] IN
    /\ tabs[t].status = "out" /\ tabs[t].bridge = None /\ privy = None
    /\ Event
    /\ privy' = a
    /\ tabs' = [tabs EXCEPT ![t] = [Closed EXCEPT !.status = "loading"]]
    /\ calls' = others (+) SetToBag({Call(t, "refresh", "reading", cookie), Call(t, "finish", "proving", a)})
    /\ acts' = [Calm(a) EXCEPT ![t] = NoAct] /\ news' = news \ {t}
    /\ UNCHANGED cookie

SignOutPressed(t) ==
    /\ tabs[t].status = "in" /\ ~Acting(t)
    /\ Event
    /\ tabs' = [tabs EXCEPT ![t].status = "busy", ![t].cache = None]
    /\ calls' = calls (+) SetToBag({Call(t, "end", "deleting", None), Call(t, "end", "leaving", None)})
    /\ UNCHANGED <<sharedVars, acts, news>>

(* Out once the session and Privy's sign-in have both ended, and then the others are told. *)
SignedOut(c) ==
    IF tabs[c.tab].status = "busy" /\ ~\E d \in BagToSet(BagRemove(calls, c)) : d.tab = c.tab /\ d.for = "end"
    THEN tabs' = [tabs EXCEPT ![c.tab] = Out(@)] /\ Broadcast(c.tab)
    ELSE UNCHANGED <<tabs, news>>

SessionEnds(c) ==
    /\ c.step = "deleting"
    /\ cookie' = None /\ acts' = Calm(None)
    /\ Returns(c) /\ SignedOut(c)
    /\ UNCHANGED <<privy, events>>

PrivyLoggedOut(c) ==
    /\ c.step = "leaving"
    /\ privy' = None /\ acts' = Calm(None)
    /\ Returns(c) /\ SignedOut(c)
    /\ UNCHANGED <<cookie, events>>

(* A tab hears of Privy (setPrivyBridge) ... *)
Hears(t) == [tabs[t] EXCEPT !.bridge = privy]

(* ... and signed out there, it ends the session too, if it shows one by then. *)
PrivyNoticed(t) ==
    LET tab == Hears(t) IN
    /\ tabs[t].status # "closed" /\ tabs[t].bridge # privy
    /\ acts' = [acts EXCEPT ![t].calm = FALSE]
    /\ IF privy = None /\ tab.status = "in"
       THEN /\ tabs' = [tabs EXCEPT ![t] = [Out(tab) EXCEPT !.cache = None]]
            /\ calls' = BagAdd(calls, Call(t, "end", "deleting", None))
            /\ Broadcast(t)
       ELSE tabs' = [tabs EXCEPT ![t] = tab] /\ UNCHANGED <<calls, news>>
    /\ UNCHANGED <<sharedVars, events>>

-----------------------------------------------------------------------------
(* Time: sessions lapse, after a week, and so not again in the middle of an act; Privy's ends
   when it will. *)

SessionLapses ==
    /\ cookie # None /\ \A c \in Calls : c.tries = 1
    /\ Event
    /\ cookie' = None
    /\ UNCHANGED <<privy, tabs, acts, calls, news>>

PrivyEnds ==
    /\ privy # None
    /\ Event
    /\ privy' = None /\ acts' = Calm(None)
    /\ UNCHANGED <<cookie, tabs, calls, news>>

-----------------------------------------------------------------------------
AtRest ==
    /\ calls = EmptyBag /\ news = {}
    /\ \A t \in Tab : tabs[t].status # "closed" => tabs[t].bridge = privy

(* The end of X's sign-in is heard while the tab does not show a session yet. *)
Unheard(t) == privy = None /\ \E c \in Calls : c.tab = t /\ c.for # "end"

Changes ==
    \/ SessionLapses \/ PrivyEnds
    \/ \E t \in Tab : SignInPressed(t) \/ SignOutPressed(t) \/ (\E a \in Account : SignedInWithX(t, a))

Moves ==
    \/ \E t \in Tab : Opened(t) \/ Follows(t) \/ ActPressed(t)
    \/ \E c \in Calls :
           \/ ReadArrives(c) \/ ProofTaken(c) \/ PostArrives(c) \/ ActAnswered(c)
           \/ SessionEnds(c) \/ PrivyLoggedOut(c)

IdentityNext ==
    \/ Changes /\ crossed' = (crossed \/ ~AtRest \/ Overlapping(Calls'))
    \/ Moves /\ crossed' = (crossed \/ Overlapping(Calls'))
    \/ \E t \in Tab : PrivyNoticed(t) /\ crossed' = (crossed \/ Unheard(t) \/ Overlapping(Calls'))

IdentitySpec == IdentityInit /\ [][IdentityNext]_identityVars

-----------------------------------------------------------------------------
(* Properties. *)

(* "When it lapses while Privy still has the player signed in to X, it is renewed from Privy's
   tokens" (lib/session-client.ts:5-6): an act is refused only if X or the session was signed
   out, or changed hands, while it was under way, whatever the other tabs do. *)
ActsAreServed ==
    [][\A t \in Tab : Acting(t) /\ ~Acting(t)' /\ acts[t].calm => \E c \in Calls : c.tab = t /\ Serves(c)]_identityVars

(* "Bumped on sign-in/out so other tabs follow" (lib/use-wallet.ts:25): when everything has been
   heard, every tab shows the account signed in to X, and the session is that account's or has
   lapsed, unless a sign-in or a sign-out overlapped another request. *)
TabsAgree ==
    AtRest /\ ~crossed =>
        \A t \in Tab : tabs[t].status # "closed" => tabs[t].shown = privy /\ cookie \in {None, privy}
=============================================================================
