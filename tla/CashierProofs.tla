---------------------------- MODULE CashierProofs ----------------------------
(***************************************************************************)
(* Theorems about what a player relies on in the pages of a browser: that  *)
(* a deposit comes home (module Cashier), for any number of faults and of  *)
(* failed calls after which a page stops asking; and that the tabs act as, *)
(* and show, the account that is signed in (module Identity), for any      *)
(* tabs, accounts and events.                                              *)
(***************************************************************************)
EXTENDS Cashier, Identity, TLAPS

Kinds == {"claim", "recover"}
Ledgers == [status : {"playing", "unknown"} \cup Over, recorded : BOOLEAN]
Chains == [settled : BOOLEAN, claimed : BOOLEAN, amount : {0, 1}, closed : BOOLEAN]
Servers == [stage : {"idle", "settling", "closing", "recording"},
            by : {"none"} \cup Page, skip : BOOLEAN]
Asked == [page : {"none", "vault"} \cup Page, stage : {"none", "asked", "sent"},
          kind : {"none"} \cup Kinds]

CashierTypeOK ==
    /\ ledger \in Ledgers
    /\ chain \in Chains
    /\ server \in Servers
    /\ ask \in Asked
    /\ flying \in SUBSET Kinds

(* A settlement that is about to be recorded, or was, has closed its vault: the settlement of
   an earlier attempt is adopted only once its close landed, and a wiped ledger records
   nothing. *)
RecordedIsClosed == ledger.recorded \/ server.stage = "recording" => chain.closed

(* What the claim of a page that waits for it depends on. *)
ClaimGood == chain.closed /\ chain.settled /\ chain.amount > 0

(* A claim is good from the moment the route built it: whether or not the page still waits
   for it, its vault stays closed and its entry settled. *)
ClaimsStayGood == "claim" \in flying => ClaimGood

(* The page asks for a withdrawal, and waits for one that is under way. *)
WaitsForOne ==
    /\ ask.stage # "none" => ask.kind \in Kinds
    /\ ask.stage = "sent" => ask.kind \in flying

CashierInv == CashierTypeOK /\ RecordedIsClosed /\ ClaimsStayGood /\ WaitsForOne

-----------------------------------------------------------------------------
(* The chain only goes forward: what a claim needs is never taken back.  An entry is settled
   again only before the vault is closed, and the first settlement of an entry stands. *)
ChainForward ==
    /\ chain.closed => chain'.closed
    /\ chain.settled => chain'.settled /\ chain'.amount = chain.amount
    /\ chain.claimed => chain'.claimed

(* What a step leaves alone: most steps only change what the pages know. *)
LEMMA Undisturbed ==
  ASSUME CashierInv, UNCHANGED <<ledger, chain, server, ask, flying>>
  PROVE  CashierInv' /\ ChainForward
BY DEF CashierInv, CashierTypeOK, RecordedIsClosed, ClaimsStayGood, ClaimGood, WaitsForOne,
       ChainForward

(* A finished withdrawal, or one the page stops waiting for. *)
LEMMA NoneAsked == NoAsk \in Asked /\ NoAsk.stage = "none"
BY DEF NoAsk, Asked, Page

LEMMA LedgerKeeps ==
  ASSUME CashierInv, RoundEnds \/ LedgerWiped
  PROVE  CashierInv' /\ ChainForward
<1>1. UNCHANGED <<chain, ask, flying>>
  BY DEF RoundEnds, LedgerWiped, chainVars
<1>2. CASE RoundEnds
  <2>1. ledger' \in Ledgers /\ ledger'.recorded = ledger.recorded /\ UNCHANGED server
    BY <1>2 DEF RoundEnds, CashierInv, CashierTypeOK, Ledgers, Over
  <2>2. QED
    BY <1>1, <2>1 DEF CashierInv, CashierTypeOK, RecordedIsClosed, ClaimsStayGood, ClaimGood,
                      WaitsForOne, ChainForward
<1>3. CASE LedgerWiped
  <2>1. ledger' \in Ledgers /\ ~ledger'.recorded /\ server' \in Servers /\ server'.stage = "idle"
    BY <1>3 DEF LedgerWiped, Ledgers, Servers, Idle
  <2>2. QED
    BY <1>1, <2>1 DEF CashierInv, CashierTypeOK, RecordedIsClosed, ClaimsStayGood, ClaimGood,
                      WaitsForOne, ChainForward
<1>4. QED
  BY <1>2, <1>3

(* A settlement starts, goes one step further, or is cut off. *)
LEMMA SettlementKeeps ==
  ASSUME CashierInv, (\E page \in Page : SettleStarts(page)) \/ SettlementSteps \/ SettlementFails
  PROVE  CashierInv' /\ ChainForward
<1>1. UNCHANGED <<ask, flying>>
  BY DEF SettleStarts, SettlementSteps, EntrySettled, VaultClosed, SettlementRecorded,
         SettlementFails, chainVars
<1> DEFINE Good == /\ ledger' \in Ledgers /\ chain' \in Chains /\ server' \in Servers
                   /\ RecordedIsClosed'
                   /\ ChainForward
<1>2. SUFFICES Good
  BY <1>1 DEF CashierInv, CashierTypeOK, ClaimsStayGood, ClaimGood, WaitsForOne, ChainForward
<1>3. /\ ledger \in Ledgers /\ chain \in Chains /\ server \in Servers
      /\ RecordedIsClosed
  BY DEF CashierInv, CashierTypeOK
<1>4. ASSUME NEW page \in Page, SettleStarts(page)
      PROVE  Good
  <2>1. UNCHANGED <<ledger, chain>> /\ server' = [stage |-> FirstStep, by |-> page, skip |-> chain.claimed]
    BY <1>4 DEF SettleStarts, chainVars
  <2>2. server' \in Servers /\ (server'.stage = "recording" => chain.closed)
    BY <2>1, <1>3 DEF FirstStep, Servers, Chains
  <2>3. QED
    BY <1>3, <2>1, <2>2 DEF RecordedIsClosed, ChainForward
<1>5. CASE EntrySettled
  <2>1. /\ UNCHANGED ledger
        /\ server' = [server EXCEPT !.stage = "closing"]
        /\ \/ chain' = chain
           \/ ~chain.settled /\ chain' = [chain EXCEPT !.settled = TRUE, !.amount = Entitlement]
    BY <1>5 DEF EntrySettled
  <2>2. server' \in Servers /\ server'.stage # "recording"
    BY <1>3, <2>1 DEF Servers
  <2>3. chain' \in Chains /\ chain'.closed = chain.closed /\ ChainForward
    BY <1>3, <2>1 DEF Chains, Entitlement, ChainForward
  <2>4. QED
    BY <1>3, <2>1, <2>2, <2>3 DEF RecordedIsClosed
<1>6. CASE VaultClosed
  <2>1. /\ UNCHANGED ledger
        /\ server' = [server EXCEPT !.stage = "recording"]
        /\ chain' = [chain EXCEPT !.closed = TRUE]
    BY <1>6 DEF VaultClosed
  <2>2. server' \in Servers /\ chain' \in Chains /\ chain'.closed /\ ChainForward
    BY <1>3, <2>1 DEF Servers, Chains, ChainForward
  <2>3. QED
    BY <1>3, <2>1, <2>2 DEF RecordedIsClosed
<1>7. CASE SettlementRecorded
  <2>1. /\ server.stage = "recording"
        /\ ledger' = [ledger EXCEPT !.recorded = TRUE]
        /\ server' = Idle
        /\ UNCHANGED chain
    BY <1>7 DEF SettlementRecorded, chainVars
  <2>2. ledger' \in Ledgers /\ server' \in Servers
    BY <1>3, <2>1 DEF Ledgers, Servers, Idle
  <2>3. QED
    BY <1>3, <2>1, <2>2 DEF RecordedIsClosed, ChainForward
<1>8. CASE SettlementFails
  <2>1. UNCHANGED <<ledger, chain>> /\ server' = Idle
    BY <1>8 DEF SettlementFails, chainVars
  <2>2. server' \in Servers /\ server'.stage = "idle"
    BY <2>1 DEF Servers, Idle
  <2>3. QED
    BY <1>3, <2>1, <2>2 DEF RecordedIsClosed, ChainForward
<1>9. QED
  BY <1>4, <1>5, <1>6, <1>7, <1>8 DEF SettlementSteps

-----------------------------------------------------------------------------
(* Withdrawals.  The routes build a claim that is good: the one for a pit the ledger has goes
   by the record, and what is recorded is closed. *)
LEMMA BuiltClaimsAreGood ==
  ASSUME CashierInv, NEW page, Builds(page, "claim")
  PROVE  ClaimGood
<1>1. CASE page = "vault"
  BY <1>1 DEF Builds, ClaimableByVault, ClaimGood
<1>2. CASE page # "vault"
  <2>1. ledger.recorded /\ chain.settled /\ chain.amount > 0
    BY <1>2 DEF Builds, Claimable
  <2>2. QED
    BY <2>1 DEF CashierInv, RecordedIsClosed, ClaimGood
<1>3. QED
  BY <1>1, <1>2

LEMMA WithdrawalKeeps ==
  ASSUME CashierInv,
         \/ \E page \in Page, kind \in Kinds : Pressed(page, kind)
         \/ RouteAnswers \/ StopsWaiting
         \/ \E kind \in flying : WithdrawalEnds(kind)
  PROVE  CashierInv' /\ ChainForward
<1>1. UNCHANGED <<ledger, server>>
  BY DEF Pressed, RouteAnswers, StopsWaiting, WithdrawalEnds
<1>2. /\ chain \in Chains /\ ask \in Asked /\ flying \in SUBSET Kinds
      /\ ClaimsStayGood /\ WaitsForOne /\ RecordedIsClosed
  BY DEF CashierInv, CashierTypeOK
<1> DEFINE Good == /\ chain' \in Chains /\ ask' \in Asked /\ flying' \in SUBSET Kinds
                   /\ ChainForward /\ ClaimsStayGood' /\ WaitsForOne'
<1>3. SUFFICES Good
  BY <1>1 DEF CashierInv, CashierTypeOK, RecordedIsClosed, ChainForward
<1>4. ASSUME NEW page \in Page, NEW kind \in Kinds, Pressed(page, kind)
      PROVE  Good
  <2>1. /\ UNCHANGED <<chain, flying>>
        /\ ask' = [page |-> IF page = "positions" /\ shown.status = "unknown" THEN "vault" ELSE page,
                   stage |-> "asked", kind |-> kind]
    BY <1>4 DEF Pressed, chainVars
  <2>2. ask' \in Asked /\ ask'.stage = "asked"
    BY <2>1 DEF Asked
  <2>3. QED
    BY <1>2, <2>1, <2>2 DEF ClaimsStayGood, ClaimGood, WaitsForOne, ChainForward
<1>5. CASE RouteAnswers
  <2>1. UNCHANGED chain
    BY <1>5 DEF RouteAnswers
  <2>2. CASE /\ Builds(ask.page, ask.kind)
             /\ ask' = [ask EXCEPT !.stage = "sent"]
             /\ flying' = flying \cup {ask.kind}
    <3>1. ask.kind \in Kinds
      BY <1>2, <1>5 DEF RouteAnswers, WaitsForOne
    <3>2. ask' \in Asked /\ ask'.kind = ask.kind /\ flying' \in SUBSET Kinds
      BY <1>2, <2>2, <3>1 DEF Asked
    <3>3. ask.kind = "claim" => ClaimGood
      BY <2>2, BuiltClaimsAreGood
    <3>4. ClaimsStayGood'
      BY <1>2, <2>1, <2>2, <3>3 DEF ClaimsStayGood, ClaimGood
    <3>5. QED
      BY <1>2, <2>1, <2>2, <3>2, <3>4 DEF WaitsForOne, ChainForward
  <2>3. CASE ask' = NoAsk /\ UNCHANGED flying
    BY <1>2, <2>1, <2>3, NoneAsked DEF ClaimsStayGood, ClaimGood, WaitsForOne, ChainForward
  <2>4. QED
    BY <1>5, <2>2, <2>3 DEF RouteAnswers, Done
<1>6. CASE StopsWaiting
  <2>1. ask' = NoAsk /\ UNCHANGED <<chain, flying>>
    BY <1>6 DEF StopsWaiting, Done, chainVars
  <2>2. QED
    BY <1>2, <2>1, NoneAsked DEF ClaimsStayGood, ClaimGood, WaitsForOne, ChainForward
<1>7. ASSUME NEW kind \in flying, WithdrawalEnds(kind)
      PROVE  Good
  <2>1. flying' = flying \ {kind}
    BY <1>7 DEF WithdrawalEnds
  <2>2. chain' = chain \/ chain' = [chain EXCEPT !.claimed = TRUE]
    BY <1>7 DEF WithdrawalEnds
  <2>3. \/ ask.stage = "sent" /\ ask.kind = kind /\ ask' = NoAsk
        \/ ~(ask.stage = "sent" /\ ask.kind = kind) /\ UNCHANGED ask
    BY <1>7 DEF WithdrawalEnds, Done
  <2>4. chain' \in Chains /\ ChainForward /\ (ClaimGood => ClaimGood')
    BY <1>2, <2>2 DEF Chains, ChainForward, ClaimGood
  <2>5. ask' \in Asked /\ WaitsForOne'
    BY <1>2, <2>1, <2>3, NoneAsked DEF WaitsForOne
  <2>6. QED
    BY <1>2, <2>1, <2>4, <2>5 DEF ClaimsStayGood
<1>8. QED
  BY <1>4, <1>5, <1>6, <1>7

-----------------------------------------------------------------------------
LEMMA InitCashierInv == CashierInit => CashierInv
<1> SUFFICES ASSUME CashierInit PROVE CashierInv
  OBVIOUS
<1>1. CashierTypeOK
  BY DEF CashierInit, CashierTypeOK, Ledgers, Chains, Servers, Asked, Idle, NoAsk
<1>2. QED
  BY <1>1 DEF CashierInit, CashierInv, RecordedIsClosed, ClaimsStayGood, WaitsForOne, Idle, NoAsk

LEMMA NextCashierInv ==
  ASSUME CashierInv, [CashierNext]_cashierVars
  PROVE  CashierInv' /\ ChainForward
<1>1. CASE RoundEnds \/ LedgerWiped
  BY <1>1, LedgerKeeps
<1>2. CASE (\E page \in Page : SettleStarts(page)) \/ SettlementSteps \/ SettlementFails
  BY <1>2, SettlementKeeps
<1>3. CASE \/ Presses \/ RouteAnswers \/ StopsWaiting
           \/ \E kind \in flying : WithdrawalEnds(kind)
  BY <1>3, WithdrawalKeeps DEF Presses, Kinds
<1>4. CASE \/ DeadlinePasses \/ Load \/ CacheExpires \/ PitRefreshes \/ EntryArrives \/ PitOpened
           \/ \E page \in Page, result \in {"ok", "pending", "error"} : SettleAnswers(page, result)
           \/ UNCHANGED cashierVars
  <2>1. UNCHANGED <<ledger, chain, server, ask, flying>>
    BY <1>4 DEF DeadlinePasses, Load, CacheExpires, PitRefreshes, EntryArrives, PitOpened,
                SettleAnswers, chainVars, cashierVars
  <2>2. QED
    BY <2>1, Undisturbed
<1>5. QED
  BY <1>1, <1>2, <1>3, <1>4 DEF CashierNext

(* The inductive invariant: what is recorded is closed, and a claim under way is good. *)
THEOREM CashierInvariant == CashierSpec => []CashierInv
<1>1. CashierInv /\ [CashierNext]_cashierVars => CashierInv'
  BY NextCashierInv
<1>2. QED
  BY <1>1, InitCashierInv, PTL DEF CashierSpec

(* No wallet is asked to sign a claim that fails on chain because its vault is open or its
   entry unsettled, however often settlements are cut off and withdrawals lost. *)
THEOREM ClaimsAlwaysLand == CashierSpec => []ClaimsWillLand
<1>1. CashierInv => ClaimsWillLand
  BY DEF CashierInv, ClaimsStayGood, WaitsForOne, ClaimGood, ClaimsWillLand
<1>2. QED
  BY <1>1, CashierInvariant, PTL

-----------------------------------------------------------------------------
(* Who the player is in each tab: acts are served, and the tabs agree. *)

Names == Account \cup {None}

TabRecords ==
    [status : {"closed", "loading", "out", "in", "busy"},
     shown : Names, cache : Names, bridge : Names \cup {Loading}]

ActRecords == [as : Names, calm : BOOLEAN]

CallRecords ==
    [tab : Tab, for : {"refresh", "act", "finish", "end"},
     step : {"reading", "proving", "posting", "sending", "deleting", "leaving"},
     account : Names, tries : {1, 2}]

Open(t) == tabs[t].status # "closed"

CallTyped(c) ==
    /\ c \in CallRecords
    /\ c.for = "end" <=> c.step \in {"deleting", "leaving"}
    /\ c.step = "sending" => c.for = "act"
    /\ c.for = "finish" => c.step \in {"proving", "posting"}
    /\ c.step = "proving" => c.account # None

CallsTyped == IsABag(calls) /\ \A c \in Calls : CallTyped(c)

TabSound(r) ==
    /\ r \in TabRecords
    /\ r.status = "in" => r.shown # None
    /\ r.status \in {"closed", "loading", "out"} => r.shown = None

TabsTyped ==
    /\ tabs \in [Tab -> TabRecords]
    /\ \A t \in Tab : TabSound(tabs[t])
    /\ \A c \in Calls : Open(c.tab)
    /\ news \subseteq {t \in Tab : Open(t)}

SharedTyped == cookie \in Names /\ privy \in Names /\ acts \in [Tab -> ActRecords]

IdentityTypes == SharedTyped /\ CallsTyped /\ TabsTyped

(* What becomes of the bag of calls: one is added, one is answered, one is followed by another. *)
Adds(x) ==
    /\ IsABag(calls') /\ Calls' = Calls \cup {x}
    /\ x \notin Calls => calls'[x] = 1
    /\ \A d \in Calls : d # x => calls'[d] = calls[d]

Drops(c) ==
    /\ IsABag(calls') /\ Calls' \subseteq Calls /\ Calls \ {c} \subseteq Calls'
    /\ calls[c] = 1 => c \notin Calls'
    /\ \A d \in Calls : d # c => calls'[d] = calls[d]

Turns(c, x) ==
    /\ IsABag(calls') /\ Calls' \subseteq Calls \cup {x} /\ (Calls \ {c}) \cup {x} \subseteq Calls'
    /\ calls[c] = 1 => c \notin Calls'
    /\ x \notin Calls => calls'[x] = 1
    /\ \A d \in Calls : d # c /\ d # x => calls'[d] = calls[d]

LEMMA BagAdded ==
    ASSUME IsABag(calls), NEW x, calls' = BagAdd(calls, x)
    PROVE  Adds(x)
BY DEF Adds, IsABag, BagAdd, Calls, BagToSet

LEMMA BagDropped ==
    ASSUME IsABag(calls), NEW c \in Calls, calls' = BagRemove(calls, c)
    PROVE  Drops(c)
BY DEF Drops, IsABag, BagRemove, Calls, BagToSet

LEMMA BagTurned ==
    ASSUME IsABag(calls), NEW c \in Calls, NEW x, x # c, Becomes(c, x)
    PROVE  Turns(c, x)
<1> DEFINE B == BagRemove(calls, c)
<1>1. /\ IsABag(B) /\ DOMAIN B \subseteq DOMAIN calls /\ DOMAIN calls \ {c} \subseteq DOMAIN B
      /\ calls[c] = 1 => c \notin DOMAIN B
      /\ \A d \in DOMAIN calls : d # c => B[d] = calls[d]
  BY DEF IsABag, BagRemove, Calls, BagToSet
<1>2. calls' = BagAdd(B, x)  BY DEF Becomes
<1> HIDE DEF B
<1>3. /\ IsABag(calls') /\ DOMAIN calls' = DOMAIN B \cup {x}
      /\ x \notin DOMAIN B => calls'[x] = 1
      /\ \A d \in DOMAIN B : d # x => calls'[d] = B[d]
  BY <1>1, <1>2 DEF IsABag, BagAdd
<1>4. QED  BY <1>1, <1>3 DEF Turns, Calls, BagToSet

LEMMA BagOfTwo ==
    ASSUME NEW x, NEW y, IsABag(calls), calls' = calls (+) SetToBag({x, y})
    PROVE  /\ IsABag(calls') /\ Calls' = Calls \cup {x, y}
           /\ \A d \in Calls : d \notin {x, y} => calls'[d] = calls[d]
BY DEF IsABag, Calls, BagToSet, SetToBag, (+)

LEMMA CallsStayTyped ==
    /\ CallsTyped /\ UNCHANGED calls => CallsTyped'
    /\ \A x : CallsTyped /\ Adds(x) /\ CallTyped(x) => CallsTyped'
    /\ \A c : CallsTyped /\ Drops(c) => CallsTyped'
    /\ \A c, x : CallsTyped /\ Turns(c, x) /\ CallTyped(x) => CallsTyped'
BY DEF CallsTyped, Adds, Drops, Turns, Calls, BagToSet

(* What the answer to a read of the session does. *)
ReadProves(c) ==
    /\ tabs[c.tab].bridge \notin {None, Loading}
    /\ Turns(c, [c EXCEPT !.step = "proving", !.account = tabs[c.tab].bridge])
    /\ tabs' = [tabs EXCEPT ![c.tab].cache = c.account]
    /\ UNCHANGED acts

ReadEndsAct(c) ==
    /\ c.for = "act" /\ tabs[c.tab].bridge = None
    /\ Drops(c) /\ acts' = [acts EXCEPT ![c.tab] = NoAct]
    /\ tabs' = [tabs EXCEPT ![c.tab].cache = c.account]

ReadShowsOut(c) ==
    /\ c.for = "refresh" /\ tabs[c.tab].bridge = None
    /\ c.account = None
    /\ Drops(c) /\ tabs' = [tabs EXCEPT ![c.tab] = Out([@ EXCEPT !.cache = None])]
    /\ UNCHANGED acts

ReadShowsIn(c) ==
    /\ c.for = "refresh" /\ c.account # None
    /\ Drops(c) /\ tabs' = [tabs EXCEPT ![c.tab] = In(@, c.account)]
    /\ UNCHANGED acts

ReadSends(c) ==
    /\ c.for = "act" /\ c.account = acts[c.tab].as
    /\ Turns(c, [c EXCEPT !.step = "sending", !.account = cookie])
    /\ tabs' = [tabs EXCEPT ![c.tab].cache = c.account]
    /\ UNCHANGED acts

ReadDoes(c) ==
    /\ c.step = "reading"
    /\ UNCHANGED <<sharedVars, news, events>>
    /\ \/ ReadProves(c) /\ (c.for = "act" => c.account # acts[c.tab].as) /\ (c.for = "refresh" => c.account = None)
       \/ ReadEndsAct(c) \/ ReadShowsOut(c) \/ ReadShowsIn(c) \/ ReadSends(c)

LEMMA ReadDoesSo ==
    ASSUME IdentityTypes, NEW c \in Calls, ReadArrives(c)
    PROVE  ReadDoes(c)
<1>1. IsABag(calls) /\ CallTyped(c) /\ c.step = "reading"  BY DEF IdentityTypes, CallsTyped, ReadArrives
<1>2. c.for \in {"refresh", "act"}  BY <1>1 DEF CallTyped, CallRecords
<1>3. UNCHANGED <<sharedVars, news, events>>  BY DEF ReadArrives
<1>4. c.tab \in Tab /\ tabs \in [Tab -> TabRecords]  BY <1>1 DEF CallTyped, CallRecords, IdentityTypes, TabsTyped
<1>5. ASSUME Proves(c), tabs[c.tab].bridge # Loading
      PROVE  ReadProves(c) \/ ReadEndsAct(c) \/ (c.for = "refresh" /\ (c.account = None => ReadShowsOut(c)))
  <2> DEFINE p == [c EXCEPT !.step = "proving", !.account = tabs[c.tab].bridge]
  <2>1. CASE tabs[c.tab].bridge # None
    <3>1. p # c  BY <1>1 DEF CallTyped, CallRecords
    <3>2. Turns(c, p)
      <4>1. Becomes(c, p)  BY <1>5, <2>1 DEF Proves, Goes
      <4> HIDE DEF p
      <4>2. QED  BY <1>1, <3>1, <4>1, BagTurned
    <3>3. QED  BY <1>5, <2>1, <3>2, <1>4 DEF Proves, ReadProves
  <2>2. CASE tabs[c.tab].bridge = None /\ c.for = "act"
    <3>1. Drops(c)  BY <1>1, <1>5, <2>2, BagDropped DEF Proves, ActEnds, Returns
    <3>2. QED  BY <1>5, <2>2, <3>1 DEF Proves, ActEnds, ReadEndsAct
  <2>3. CASE tabs[c.tab].bridge = None /\ c.for # "act"
    <3>1. Drops(c)  BY <1>1, <1>5, <2>3, BagDropped DEF Proves, Returns
    <3>2. QED  BY <1>2, <1>5, <2>3, <3>1 DEF Proves, ReadShowsOut
  <2>4. QED  BY <2>1, <2>2, <2>3
<1>6. CASE c.for = "act"
  <2>1. CASE c.account # acts[c.tab].as
    BY <1>1, <1>3, <1>5, <1>6, <2>1 DEF ReadArrives, Renews, ReadDoes
  <2>2. CASE c.account = acts[c.tab].as
    <3> DEFINE s == [c EXCEPT !.step = "sending", !.account = cookie]
    <3>1. s # c  BY <1>1 DEF CallTyped, CallRecords
    <3>2. Turns(c, s)
      <4>1. Becomes(c, s)  BY <1>6, <2>2 DEF ReadArrives, Renews, Goes
      <4> HIDE DEF s
      <4>2. QED  BY <1>1, <3>1, <4>1, BagTurned
    <3>3. QED  BY <1>1, <1>3, <1>6, <2>2, <3>2 DEF ReadArrives, Renews, ReadDoes, ReadSends
  <2>3. QED  BY <2>1, <2>2
<1>7. CASE c.for = "refresh"
  <2>1. CASE c.account = None
    BY <1>1, <1>3, <1>5, <1>7, <2>1 DEF ReadArrives, Refreshes, ReadDoes
  <2>2. CASE c.account # None
    <3>1. Drops(c)  BY <1>1, <1>7, <2>2, BagDropped DEF ReadArrives, Refreshes, Returns
    <3>2. QED  BY <1>1, <1>3, <1>7, <2>2, <3>1 DEF ReadArrives, Refreshes, ReadDoes, ReadShowsIn
  <2>3. QED  BY <2>1, <2>2
<1>8. QED  BY <1>2, <1>6, <1>7

(* What the answer to a proof does, and the answer to an act. *)
PostRenews(c) ==
    /\ c.for = "act" /\ c.account = acts[c.tab].as
    /\ Turns(c, [c EXCEPT !.step = "sending"]) /\ acts' = Disturbed(c)
    /\ tabs' = [tabs EXCEPT ![c.tab].cache = IF c.account = None THEN @ ELSE c.account]
    /\ UNCHANGED news

PostEndsAct(c) ==
    /\ c.for = "act" /\ c.account # acts[c.tab].as
    /\ Drops(c) /\ acts' = [Disturbed(c) EXCEPT ![c.tab] = NoAct]
    /\ tabs' = [tabs EXCEPT ![c.tab].cache = IF c.account = None THEN @ ELSE c.account]
    /\ UNCHANGED news

PostSignsIn(c) ==
    /\ c.for \in {"refresh", "finish"} /\ c.account # None
    /\ Drops(c) /\ acts' = Disturbed(c) /\ tabs' = [tabs EXCEPT ![c.tab] = In(@, c.account)]
    /\ IF c.for = "finish" THEN Broadcast(c.tab) ELSE UNCHANGED news

PostSignsOut(c) ==
    /\ c.for \in {"refresh", "finish"} /\ c.account = None
    /\ Drops(c) /\ acts' = Disturbed(c) /\ tabs' = [tabs EXCEPT ![c.tab] = Out(@)]
    /\ UNCHANGED news

PostDoes(c) ==
    /\ c.step = "posting" /\ SessionMade(c.account)
    /\ UNCHANGED <<privy, events>>
    /\ PostRenews(c) \/ PostEndsAct(c) \/ PostSignsIn(c) \/ PostSignsOut(c)

LEMMA PostDoesSo ==
    ASSUME IdentityTypes, NEW c \in Calls, PostArrives(c)
    PROVE  PostDoes(c)
<1>1. IsABag(calls) /\ CallTyped(c) /\ c.step = "posting"  BY DEF IdentityTypes, CallsTyped, PostArrives
<1>2. c.for \in {"refresh", "act", "finish"}  BY <1>1 DEF CallTyped, CallRecords
<1>3. SessionMade(c.account) /\ UNCHANGED <<privy, events>>  BY DEF PostArrives
<1>4. CASE c.for = "act" /\ c.account = acts[c.tab].as
  <2> DEFINE s == [c EXCEPT !.step = "sending"]
  <2>1. s # c  BY <1>1 DEF CallTyped, CallRecords
  <2>2. s = [c EXCEPT !.step = "sending", !.account = c.account]  BY <1>1 DEF CallTyped, CallRecords
  <2>3. Becomes(c, s)
    <3> HIDE DEF s
    <3>1. QED  BY <1>4, <2>2 DEF PostArrives, Renewed, Goes
  <2>4. Turns(c, s)
    <3> HIDE DEF s
    <3>1. QED  BY <1>1, <2>1, <2>3, BagTurned
  <2>5. QED  BY <1>1, <1>3, <1>4, <2>4 DEF PostArrives, Renewed, PostDoes, PostRenews
<1>5. CASE ~(c.for = "act" /\ c.account = acts[c.tab].as)
  <2>1. Drops(c)  BY <1>1, <1>5, BagDropped DEF PostArrives, Renewed, SignInFinished, Returns
  <2>2. CASE c.for = "act"
    BY <1>1, <1>3, <1>5, <2>1, <2>2 DEF PostArrives, Renewed, PostDoes, PostEndsAct
  <2>3. CASE c.for # "act" /\ c.account = None
    BY <1>1, <1>2, <1>3, <2>1, <2>3 DEF PostArrives, SignInFinished, PostDoes, PostSignsOut
  <2>4. CASE c.for # "act" /\ c.account # None
    BY <1>1, <1>2, <1>3, <2>1, <2>4 DEF PostArrives, SignInFinished, PostDoes, PostSignsIn
  <2>5. QED  BY <2>2, <2>3, <2>4
<1>6. QED  BY <1>4, <1>5

ProofDoes(c) ==
    /\ c.step = "proving"
    /\ Turns(c, [c EXCEPT !.step = "posting", !.account = ProvenBy(c.account, privy)])
    /\ UNCHANGED <<sharedVars, tabs, acts, news, events>>

LEMMA ProofDoesSo ==
    ASSUME IdentityTypes, NEW c \in Calls, ProofTaken(c)
    PROVE  ProofDoes(c)
<1> DEFINE p == [c EXCEPT !.step = "posting", !.account = ProvenBy(c.account, privy)]
<1>1. IsABag(calls) /\ CallTyped(c) /\ c.step = "proving"  BY DEF IdentityTypes, CallsTyped, ProofTaken
<1>2. p # c  BY <1>1 DEF CallTyped, CallRecords
<1>3. Becomes(c, p)  BY DEF ProofTaken, Goes
<1>4. Turns(c, p)
  <2> HIDE DEF p
  <2>1. QED  BY <1>1, <1>2, <1>3, BagTurned
<1>5. QED  BY <1>1, <1>4 DEF ProofTaken, ProofDoes

AnswerEnds(c) ==
    /\ Serves(c) \/ c.tries = 2
    /\ Drops(c) /\ acts' = [acts EXCEPT ![c.tab] = NoAct]
    /\ UNCHANGED tabs

AnswerRetries(c) ==
    /\ ~Serves(c) /\ c.tries = 1
    /\ \E step \in {"sending", "reading"} :
          /\ step = "sending" => acts[c.tab].as = None
          /\ Turns(c, [c EXCEPT !.tries = 2, !.account = cookie, !.step = step])
    /\ tabs' = [tabs EXCEPT ![c.tab] = SessionLost(@)]
    /\ UNCHANGED acts

AnswerDoes(c) ==
    /\ c.step = "sending"
    /\ UNCHANGED <<sharedVars, news, events>>
    /\ AnswerEnds(c) \/ AnswerRetries(c)

LEMMA AnswerDoesSo ==
    ASSUME IdentityTypes, NEW c \in Calls, ActAnswered(c)
    PROVE  AnswerDoes(c)
<1>1. IsABag(calls) /\ CallTyped(c) /\ c.step = "sending"  BY DEF IdentityTypes, CallsTyped, ActAnswered
<1>2. c.tab \in Tab /\ tabs \in [Tab -> TabRecords] /\ c.tries \in {1, 2}
  BY <1>1 DEF CallTyped, CallRecords, IdentityTypes, TabsTyped
<1>3. UNCHANGED <<sharedVars, news, events>>  BY DEF ActAnswered
<1>4. CASE Serves(c) \/ c.tries = 2
  <2>1. calls' = BagRemove(calls, c)  BY <1>4 DEF ActAnswered, ActEnds, Returns
  <2>2. Drops(c)  BY <1>1, <2>1, BagDropped
  <2>3. QED  BY <1>1, <1>3, <1>4, <2>2 DEF ActAnswered, ActEnds, AnswerDoes, AnswerEnds
<1>5. CASE ~Serves(c) /\ c.tries = 1
  <2> DEFINE step == IF acts[c.tab].as = None THEN "sending" ELSE "reading"
             r == [c EXCEPT !.tries = 2, !.account = cookie, !.step = step]
  <2>1. r # c
    <3> HIDE DEF step
    <3>1. r.tries = 2  BY <1>1 DEF CallTyped, CallRecords
    <3> HIDE DEF r
    <3>2. QED  BY <3>1, <1>5
  <2>2. SessionLost(tabs[c.tab]).cache = None  BY <1>2 DEF SessionLost, TabRecords
  <2>3. Becomes(c, [c EXCEPT !.tries = 2, !.account = cookie,
                             !.step = IF SessionLost(tabs[c.tab]).cache = acts[c.tab].as
                                      THEN "sending" ELSE "reading"])
    BY <1>5 DEF ActAnswered
  <2>4. Becomes(c, r)  BY <2>2, <2>3
  <2>5. Turns(c, r)
    <3> HIDE DEF r
    <3>1. QED  BY <1>1, <2>1, <2>4, BagTurned
  <2>6. tabs' = [tabs EXCEPT ![c.tab] = SessionLost(@)] /\ UNCHANGED acts
    BY <1>2, <1>5 DEF ActAnswered
  <2>7. QED  BY <1>1, <1>3, <1>5, <2>5, <2>6 DEF AnswerDoes, AnswerRetries
<1>6. QED  BY <1>2, <1>4, <1>5

(* A session or a sign-in to X has ended. *)
EndShows(c) ==
    \/ /\ tabs[c.tab].status = "busy" /\ \A d \in Calls' : ~(d.tab = c.tab /\ d.for = "end")
       /\ tabs' = [tabs EXCEPT ![c.tab] = Out(@)] /\ Broadcast(c.tab)
    \/ /\ tabs[c.tab].status = "busy" => \E d \in Calls' : d.tab = c.tab /\ d.for = "end"
       /\ UNCHANGED <<tabs, news>>

EndDoes(c) == acts' = Calm(None) /\ Drops(c) /\ EndShows(c)

LEMMA EndDoesSo ==
    ASSUME IdentityTypes, NEW c \in Calls, SessionEnds(c) \/ PrivyLoggedOut(c)
    PROVE  EndDoes(c)
<1>1. IsABag(calls)  BY DEF IdentityTypes, CallsTyped
<1>2. calls' = BagRemove(calls, c)  BY DEF SessionEnds, PrivyLoggedOut, Returns
<1>3. Drops(c)  BY <1>1, <1>2, BagDropped
<1>4. BagToSet(BagRemove(calls, c)) = Calls'  BY <1>2 DEF Calls
<1>5. SignedOut(c) /\ acts' = Calm(None)  BY DEF SessionEnds, PrivyLoggedOut
<1>6. EndShows(c)  BY <1>4, <1>5 DEF SignedOut, EndShows
<1>7. QED  BY <1>3, <1>5, <1>6 DEF EndDoes

LEMMA ActsStayTyped ==
    /\ \A a : SharedTyped => Calm(a) \in [Tab -> ActRecords]
    /\ \A c : SharedTyped => Disturbed(c) \in [Tab -> ActRecords]
    /\ \A t, f : f \in [Tab -> ActRecords] => [f EXCEPT ![t] = NoAct] \in [Tab -> ActRecords]
    /\ \A t : SharedTyped => [acts EXCEPT ![t].calm = FALSE] \in [Tab -> ActRecords]
BY DEF SharedTyped, Calm, Disturbed, NoAct, ActRecords, Names

LEMMA TabRecordsMade ==
    /\ \A r : TabSound(r) => TabSound(Out(r)) /\ Out(r).status # "closed"
    /\ \A r, a : TabSound(r) /\ a \in Account => TabSound(In(r, a)) /\ In(r, a).status # "closed"
    /\ \A r, a : TabSound(r) /\ a \in Names =>
          TabSound([r EXCEPT !.cache = a]) /\ [r EXCEPT !.cache = a].status = r.status
    /\ \A r, a : TabSound(r) /\ a \in Names =>
          TabSound([r EXCEPT !.bridge = a]) /\ [r EXCEPT !.bridge = a].status = r.status
    /\ \A r : TabSound(r) =>
          TabSound([r EXCEPT !.status = "busy"]) /\ [r EXCEPT !.status = "busy"].status # "closed"
    /\ TabSound([Closed EXCEPT !.status = "loading"]) /\ [Closed EXCEPT !.status = "loading"].status # "closed"
<1> USE IdentityAssumption DEF TabSound, TabRecords, Names
<1>1. \A r : TabSound(r) => TabSound(Out(r)) /\ Out(r).status # "closed"
  BY DEF Out
<1>2. \A r, a : TabSound(r) /\ a \in Account => TabSound(In(r, a)) /\ In(r, a).status # "closed"
  BY DEF In
<1>3. \A r, a : TabSound(r) /\ a \in Names =>
          TabSound([r EXCEPT !.cache = a]) /\ [r EXCEPT !.cache = a].status = r.status
  OBVIOUS
<1>4. \A r, a : TabSound(r) /\ a \in Names =>
          TabSound([r EXCEPT !.bridge = a]) /\ [r EXCEPT !.bridge = a].status = r.status
  OBVIOUS
<1>5. \A r : TabSound(r) =>
          TabSound([r EXCEPT !.status = "busy"]) /\ [r EXCEPT !.status = "busy"].status # "closed"
  OBVIOUS
<1>6. TabSound([Closed EXCEPT !.status = "loading"]) /\ [Closed EXCEPT !.status = "loading"].status # "closed"
  BY DEF Closed
<1>7. QED  BY <1>1, <1>2, <1>3, <1>4, <1>5, <1>6

(* One tab changes, to the record of an open tab, and no call or news comes to a closed one. *)
LEMMA TabsStayTyped ==
    ASSUME TabsTyped, CallsTyped', NEW t \in Tab, NEW r,
           tabs' = [tabs EXCEPT ![t] = r], TabSound(r), r.status # "closed",
           \A c \in Calls' : c \in Calls \/ c.tab = t \/ Open(c.tab),
           news' \subseteq news \cup {t} \cup {u \in Tab : Open(u)}
    PROVE  TabsTyped'
<1>1. \A u \in Tab : tabs'[u] = IF u = t THEN r ELSE tabs[u]  BY DEF TabsTyped
<1>2. tabs' \in [Tab -> TabRecords]  BY DEF TabsTyped, TabSound
<1>3. \A u \in Tab : TabSound(tabs'[u])  BY <1>1 DEF TabsTyped
<1>4. \A u \in Tab : u = t \/ Open(u) => Open(u)'  BY <1>1 DEF Open
<1>5. \A c \in Calls' : c.tab \in Tab  BY DEF CallsTyped, CallTyped, CallRecords
<1>6. \A c \in Calls' : Open(c.tab)'  BY <1>4, <1>5 DEF TabsTyped
<1>7. news' \subseteq {u \in Tab : Open(u)'}  BY <1>4 DEF TabsTyped
<1>8. QED  BY <1>2, <1>3, <1>6, <1>7 DEF TabsTyped

LEMMA TabsKeepTyped ==
    ASSUME TabsTyped, UNCHANGED tabs,
           \A c \in Calls' : c \in Calls \/ Open(c.tab), news' \subseteq news \cup {u \in Tab : Open(u)}
    PROVE  TabsTyped'
BY DEF TabsTyped, Open, Calls

LEMMA OpenedTyped ==
    ASSUME IdentityTypes, NEW t \in Tab, Opened(t)
    PROVE  IdentityTypes' /\ Adds(Call(t, "refresh", "reading", cookie))
<1> DEFINE x == Call(t, "refresh", "reading", cookie)
<1>1. SharedTyped /\ CallsTyped /\ TabsTyped  BY DEF IdentityTypes
<1>2. CallTyped(x)  BY <1>1 DEF Call, CallTyped, CallRecords, SharedTyped
<1>3. calls' = BagAdd(calls, x)  BY DEF Opened
<1>4. x.tab = t  BY DEF Call
<1> HIDE DEF x
<1>5. Adds(x)  BY <1>1, <1>3, BagAdded DEF CallsTyped
<1>6. CallsTyped'  BY <1>1, <1>2, <1>5, CallsStayTyped
<1>7. TabsTyped'
  <2> DEFINE r == [Closed EXCEPT !.status = "loading"]
  <2>1. tabs' = [tabs EXCEPT ![t] = r] /\ news' = news  BY DEF Opened
  <2>2. TabSound(r) /\ r.status # "closed"  BY TabRecordsMade
  <2> HIDE DEF r
  <2>3. \A c \in Calls' : c \in Calls \/ c.tab = t  BY <1>4, <1>5 DEF Adds
  <2>4. QED  BY <1>1, <1>6, <2>1, <2>2, <2>3, TabsStayTyped
<1>8. SharedTyped'  BY <1>1 DEF Opened, sharedVars, SharedTyped
<1>9. QED  BY <1>5, <1>6, <1>7, <1>8 DEF IdentityTypes, x

LEMMA FollowsTyped ==
    ASSUME IdentityTypes, NEW t \in Tab, Follows(t)
    PROVE  IdentityTypes' /\ Adds(Call(t, "refresh", "reading", cookie))
<1> DEFINE x == Call(t, "refresh", "reading", cookie)
<1>1. SharedTyped /\ CallsTyped /\ TabsTyped  BY DEF IdentityTypes
<1>2. CallTyped(x)  BY <1>1 DEF Call, CallTyped, CallRecords, SharedTyped
<1>3. calls' = BagAdd(calls, x)  BY DEF Follows
<1>4. x.tab = t  BY DEF Call
<1> HIDE DEF x
<1>5. Adds(x)  BY <1>1, <1>3, BagAdded DEF CallsTyped
<1>6. CallsTyped'  BY <1>1, <1>2, <1>5, CallsStayTyped
<1>7. TabsTyped'
  <2>1. Open(t) /\ UNCHANGED tabs /\ news' \subseteq news  BY <1>1 DEF Follows, TabsTyped
  <2>2. \A c \in Calls' : c \in Calls \/ Open(c.tab)  BY <1>4, <1>5, <2>1 DEF Adds
  <2>3. QED  BY <1>1, <2>1, <2>2, TabsKeepTyped
<1>8. SharedTyped'  BY <1>1 DEF Follows, sharedVars, SharedTyped
<1>9. QED  BY <1>5, <1>6, <1>7, <1>8 DEF IdentityTypes, x

LEMMA ReadTyped ==
    ASSUME IdentityTypes, NEW c \in Calls, ReadDoes(c)
    PROVE  IdentityTypes'
<1> DEFINE cached == [tabs[c.tab] EXCEPT !.cache = c.account]
<1>1. SharedTyped /\ CallsTyped /\ TabsTyped  BY DEF IdentityTypes
<1>2. CallTyped(c) /\ c.tab \in Tab /\ c.account \in Names /\ Open(c.tab)
  BY <1>1 DEF CallsTyped, CallTyped, CallRecords, TabsTyped
<1>3. TabSound(tabs[c.tab]) /\ tabs[c.tab].bridge \in Names \cup {Loading}
  BY <1>1, <1>2 DEF TabsTyped, TabSound, TabRecords
<1>4. TabSound(cached) /\ cached.status # "closed"  BY <1>2, <1>3, TabRecordsMade DEF Open
<1>5. UNCHANGED <<cookie, privy, news>>  BY DEF ReadDoes, sharedVars
<1>6. CASE ReadProves(c)
  <2> DEFINE x == [c EXCEPT !.step = "proving", !.account = tabs[c.tab].bridge]
  <2>1. CallTyped(x) /\ x.tab = c.tab  BY <1>2, <1>3, <1>6 DEF ReadProves, ReadDoes, CallTyped, CallRecords
  <2>2. Turns(c, x)  BY <1>6 DEF ReadProves
  <2>3. tabs' = [tabs EXCEPT ![c.tab] = cached] /\ UNCHANGED acts  BY <1>6 DEF ReadProves
  <2> HIDE DEF x, cached
  <2>4. CallsTyped'  BY <1>1, <2>1, <2>2, CallsStayTyped
  <2>5. \A d \in Calls' : d \in Calls \/ d.tab = c.tab  BY <2>1, <2>2 DEF Turns
  <2>6. TabsTyped'  BY <1>1, <1>2, <1>4, <1>5, <2>3, <2>4, <2>5, TabsStayTyped
  <2>7. QED  BY <1>1, <1>5, <2>3, <2>4, <2>6 DEF IdentityTypes, SharedTyped
<1>7. CASE ReadSends(c)
  <2> DEFINE x == [c EXCEPT !.step = "sending", !.account = cookie]
  <2>1. CallTyped(x) /\ x.tab = c.tab
    BY <1>1, <1>2, <1>3, <1>7 DEF ReadSends, ReadDoes, CallTyped, CallRecords, SharedTyped
  <2>2. Turns(c, x)  BY <1>7 DEF ReadSends
  <2>3. tabs' = [tabs EXCEPT ![c.tab] = cached] /\ UNCHANGED acts  BY <1>7 DEF ReadSends
  <2> HIDE DEF x, cached
  <2>4. CallsTyped'  BY <1>1, <2>1, <2>2, CallsStayTyped
  <2>5. \A d \in Calls' : d \in Calls \/ d.tab = c.tab  BY <2>1, <2>2 DEF Turns
  <2>6. TabsTyped'  BY <1>1, <1>2, <1>4, <1>5, <2>3, <2>4, <2>5, TabsStayTyped
  <2>7. QED  BY <1>1, <1>5, <2>3, <2>4, <2>6 DEF IdentityTypes, SharedTyped
<1>8. ASSUME Drops(c), NEW r, TabSound(r), r.status # "closed", tabs' = [tabs EXCEPT ![c.tab] = r],
             acts' \in [Tab -> ActRecords]
      PROVE  IdentityTypes'
  <2>1. CallsTyped'  BY <1>1, <1>8, CallsStayTyped
  <2>2. \A d \in Calls' : d \in Calls  BY <1>8 DEF Drops
  <2>3. TabsTyped'  BY <1>1, <1>2, <1>5, <1>8, <2>1, <2>2, TabsStayTyped
  <2>4. QED  BY <1>1, <1>5, <1>8, <2>1, <2>3 DEF IdentityTypes, SharedTyped
<1>9. acts \in [Tab -> ActRecords]  BY <1>1 DEF SharedTyped
<1>10. CASE ReadEndsAct(c)
  <2>1. acts' \in [Tab -> ActRecords]  BY <1>9, <1>10, ActsStayTyped DEF ReadEndsAct
  <2>2. tabs' = [tabs EXCEPT ![c.tab] = cached]  BY <1>10 DEF ReadEndsAct
  <2> HIDE DEF cached
  <2>3. QED  BY <1>4, <1>8, <1>10, <2>1, <2>2 DEF ReadEndsAct
<1>11. CASE ReadShowsOut(c)
  <2>1. c.account = None /\ acts' = acts  BY <1>11 DEF ReadShowsOut
  <2>2. tabs' = [tabs EXCEPT ![c.tab] = Out(cached)]  BY <1>11, <2>1 DEF ReadShowsOut
  <2> HIDE DEF cached
  <2>3. TabSound(Out(cached)) /\ Out(cached).status # "closed"  BY <1>4, TabRecordsMade
  <2>4. QED  BY <1>8, <1>9, <1>11, <2>1, <2>2, <2>3 DEF ReadShowsOut
<1>12. CASE ReadShowsIn(c)
  <2> DEFINE r == In(tabs[c.tab], c.account)
  <2>1. c.account \in Account /\ acts' = acts  BY <1>2, <1>12 DEF ReadShowsIn, Names
  <2>2. tabs' = [tabs EXCEPT ![c.tab] = r]  BY <1>12 DEF ReadShowsIn
  <2>3. TabSound(r) /\ r.status # "closed"  BY <1>3, <2>1, TabRecordsMade
  <2> HIDE DEF r
  <2>4. QED  BY <1>8, <1>9, <1>12, <2>1, <2>2, <2>3 DEF ReadShowsIn
<1>13. QED  BY <1>6, <1>7, <1>10, <1>11, <1>12 DEF ReadDoes

LEMMA ProofTyped ==
    ASSUME IdentityTypes, NEW c \in Calls, ProofDoes(c)
    PROVE  IdentityTypes'
<1> DEFINE x == [c EXCEPT !.step = "posting", !.account = ProvenBy(c.account, privy)]
<1>1. SharedTyped /\ CallsTyped /\ TabsTyped  BY DEF IdentityTypes
<1>2. CallTyped(c) /\ Open(c.tab)  BY <1>1 DEF CallsTyped, TabsTyped
<1>3. ProvenBy(c.account, privy) \in Names  BY <1>2 DEF ProvenBy, CallTyped, CallRecords, Names
<1>4. CallTyped(x) /\ x.tab = c.tab  BY <1>2, <1>3 DEF ProofDoes, CallTyped, CallRecords
<1>5. Turns(c, x) /\ UNCHANGED <<cookie, privy, tabs, acts, news>>  BY DEF ProofDoes, sharedVars
<1> HIDE DEF x
<1>6. CallsTyped'  BY <1>1, <1>4, <1>5, CallsStayTyped
<1>7. \A d \in Calls' : d \in Calls \/ Open(d.tab)  BY <1>2, <1>4, <1>5 DEF Turns
<1>8. TabsTyped'  BY <1>1, <1>5, <1>7, TabsKeepTyped
<1>9. QED  BY <1>1, <1>5, <1>6, <1>8 DEF IdentityTypes, SharedTyped

LEMMA PostTyped ==
    ASSUME IdentityTypes, NEW c \in Calls, PostDoes(c)
    PROVE  IdentityTypes'
<1> DEFINE cached == [tabs[c.tab] EXCEPT !.cache = IF c.account = None THEN @ ELSE c.account]
<1>1. SharedTyped /\ CallsTyped /\ TabsTyped  BY DEF IdentityTypes
<1>2. CallTyped(c) /\ c.tab \in Tab /\ c.account \in Names /\ Open(c.tab)
  BY <1>1 DEF CallsTyped, CallTyped, CallRecords, TabsTyped
<1>3. TabSound(tabs[c.tab]) /\ tabs[c.tab].cache \in Names
  BY <1>1, <1>2 DEF TabsTyped, TabSound, TabRecords
<1>4. TabSound(cached) /\ cached.status # "closed"  BY <1>2, <1>3, TabRecordsMade DEF Open
<1>5. cookie' \in Names /\ privy' \in Names  BY <1>1, <1>2 DEF PostDoes, SessionMade, SharedTyped
<1>6. Disturbed(c) \in [Tab -> ActRecords]  BY <1>1, ActsStayTyped
<1>7. CASE PostRenews(c)
  <2> DEFINE x == [c EXCEPT !.step = "sending"]
  <2>1. CallTyped(x) /\ x.tab = c.tab  BY <1>2, <1>7 DEF PostRenews, PostDoes, CallTyped, CallRecords
  <2>2. Turns(c, x) /\ acts' = Disturbed(c) /\ news' = news  BY <1>7 DEF PostRenews
  <2>3. tabs' = [tabs EXCEPT ![c.tab] = cached]  BY <1>7 DEF PostRenews
  <2> HIDE DEF x, cached
  <2>4. CallsTyped'  BY <1>1, <2>1, <2>2, CallsStayTyped
  <2>5. \A d \in Calls' : d \in Calls \/ d.tab = c.tab  BY <2>1, <2>2 DEF Turns
  <2>6. TabsTyped'  BY <1>1, <1>2, <1>4, <2>2, <2>3, <2>4, <2>5, TabsStayTyped
  <2>7. QED  BY <1>5, <1>6, <2>2, <2>4, <2>6 DEF IdentityTypes, SharedTyped
<1>8. ASSUME Drops(c), NEW r, TabSound(r), r.status # "closed", tabs' = [tabs EXCEPT ![c.tab] = r],
             acts' \in [Tab -> ActRecords], news' \subseteq news \cup {u \in Tab : Open(u)}
      PROVE  IdentityTypes'
  <2>1. CallsTyped'  BY <1>1, <1>8, CallsStayTyped
  <2>2. \A d \in Calls' : d \in Calls  BY <1>8 DEF Drops
  <2>3. TabsTyped'  BY <1>1, <1>2, <1>8, <2>1, <2>2, TabsStayTyped
  <2>4. QED  BY <1>5, <1>8, <2>1, <2>3 DEF IdentityTypes, SharedTyped
<1>9. CASE PostEndsAct(c)
  <2>1. acts' \in [Tab -> ActRecords]  BY <1>6, <1>9, ActsStayTyped DEF PostEndsAct
  <2>2. tabs' = [tabs EXCEPT ![c.tab] = cached] /\ news' = news /\ Drops(c)  BY <1>9 DEF PostEndsAct
  <2> HIDE DEF cached
  <2>3. QED  BY <1>4, <1>8, <2>1, <2>2
<1>10. CASE PostSignsIn(c)
  <2> DEFINE r == In(tabs[c.tab], c.account)
  <2>1. c.account \in Account /\ acts' = Disturbed(c) /\ Drops(c)  BY <1>2, <1>10 DEF PostSignsIn, Names
  <2>2. tabs' = [tabs EXCEPT ![c.tab] = r]  BY <1>10 DEF PostSignsIn
  <2>3. TabSound(r) /\ r.status # "closed"  BY <1>3, <2>1, TabRecordsMade
  <2>4. news' \subseteq news \cup {u \in Tab : Open(u)}  BY <1>10 DEF PostSignsIn, Broadcast, Open
  <2> HIDE DEF r
  <2>5. QED  BY <1>6, <1>8, <2>1, <2>2, <2>3, <2>4
<1>11. CASE PostSignsOut(c)
  <2> DEFINE r == Out(tabs[c.tab])
  <2>1. acts' = Disturbed(c) /\ Drops(c) /\ news' = news  BY <1>11 DEF PostSignsOut
  <2>2. tabs' = [tabs EXCEPT ![c.tab] = r]  BY <1>11 DEF PostSignsOut
  <2>3. TabSound(r) /\ r.status # "closed"  BY <1>3, TabRecordsMade
  <2> HIDE DEF r
  <2>4. QED  BY <1>6, <1>8, <2>1, <2>2, <2>3
<1>12. QED  BY <1>7, <1>9, <1>10, <1>11 DEF PostDoes

LEMMA AnswerTyped ==
    ASSUME IdentityTypes, NEW c \in Calls, AnswerDoes(c)
    PROVE  IdentityTypes'
<1>1. SharedTyped /\ CallsTyped /\ TabsTyped  BY DEF IdentityTypes
<1>2. CallTyped(c) /\ c.tab \in Tab /\ Open(c.tab)
  BY <1>1 DEF CallsTyped, CallTyped, CallRecords, TabsTyped
<1>3. UNCHANGED <<cookie, privy, news>>  BY DEF AnswerDoes, sharedVars
<1>4. CASE AnswerEnds(c)
  <2>1. acts' \in [Tab -> ActRecords]  BY <1>1, <1>4, ActsStayTyped DEF AnswerEnds, SharedTyped
  <2>2. Drops(c) /\ UNCHANGED tabs  BY <1>4 DEF AnswerEnds
  <2>3. CallsTyped'  BY <1>1, <2>2, CallsStayTyped
  <2>4. \A d \in Calls' : d \in Calls  BY <2>2 DEF Drops
  <2>5. TabsTyped'  BY <1>1, <1>3, <2>2, <2>4, TabsKeepTyped
  <2>6. QED  BY <1>1, <1>3, <2>1, <2>3, <2>5 DEF IdentityTypes, SharedTyped
<1>5. CASE AnswerRetries(c)
  <2>1. PICK step \in {"sending", "reading"} :
            Turns(c, [c EXCEPT !.tries = 2, !.account = cookie, !.step = step])
    BY <1>5 DEF AnswerRetries
  <2> DEFINE x == [c EXCEPT !.tries = 2, !.account = cookie, !.step = step]
             r == [tabs[c.tab] EXCEPT !.cache = None]
  <2>2. CallTyped(x) /\ x.tab = c.tab
    BY <1>1, <1>2 DEF AnswerDoes, CallTyped, CallRecords, SharedTyped
  <2>3. Turns(c, x) /\ UNCHANGED acts  BY <1>5, <2>1 DEF AnswerRetries
  <2>4. tabs' = [tabs EXCEPT ![c.tab] = r]  BY <1>5 DEF AnswerRetries, SessionLost
  <2>5. TabSound(r) /\ r.status # "closed"  BY <1>1, <1>2, TabRecordsMade DEF TabsTyped, Names, Open
  <2> HIDE DEF x, r
  <2>6. CallsTyped'  BY <1>1, <2>2, <2>3, CallsStayTyped
  <2>7. \A d \in Calls' : d \in Calls \/ d.tab = c.tab  BY <2>2, <2>3 DEF Turns
  <2>8. TabsTyped'  BY <1>1, <1>2, <1>3, <2>4, <2>5, <2>6, <2>7, TabsStayTyped
  <2>9. QED  BY <1>1, <1>3, <2>3, <2>6, <2>8 DEF IdentityTypes, SharedTyped
<1>6. QED  BY <1>4, <1>5 DEF AnswerDoes

LEMMA EndTyped ==
    ASSUME IdentityTypes, NEW c \in Calls, EndDoes(c), cookie' \in Names, privy' \in Names
    PROVE  IdentityTypes'
<1>1. SharedTyped /\ CallsTyped /\ TabsTyped  BY DEF IdentityTypes
<1>2. c.tab \in Tab  BY <1>1 DEF CallsTyped, CallTyped, CallRecords
<1>3. acts' \in [Tab -> ActRecords]  BY <1>1, ActsStayTyped DEF EndDoes
<1>4. Drops(c) /\ CallsTyped'  BY <1>1, CallsStayTyped DEF EndDoes
<1>5. \A d \in Calls' : d \in Calls  BY <1>4 DEF Drops
<1>6. TabsTyped'
  <2> DEFINE r == Out(tabs[c.tab])
  <2>1. CASE tabs' = [tabs EXCEPT ![c.tab] = r] /\ Broadcast(c.tab)
    <3>1. TabSound(r) /\ r.status # "closed"  BY <1>1, <1>2, TabRecordsMade DEF TabsTyped
    <3>2. news' \subseteq news \cup {u \in Tab : Open(u)}  BY <2>1 DEF Broadcast, Open
    <3> HIDE DEF r
    <3>3. QED  BY <1>1, <1>2, <1>4, <1>5, <2>1, <3>1, <3>2, TabsStayTyped
  <2>2. CASE UNCHANGED <<tabs, news>>
    BY <1>1, <1>5, <2>2, TabsKeepTyped
  <2>3. QED  BY <2>1, <2>2 DEF EndDoes, EndShows
<1>7. QED  BY <1>3, <1>4, <1>6 DEF IdentityTypes, SharedTyped

LEMMA ActPressedTyped ==
    ASSUME IdentityTypes, NEW t \in Tab, ActPressed(t)
    PROVE  /\ IdentityTypes'
           /\ \E step \in {"sending", "reading"} : Adds(Call(t, "act", step, cookie))
<1> DEFINE step == IF tabs[t].cache = tabs[t].shown THEN "sending" ELSE "reading"
           x == Call(t, "act", step, cookie)
<1>1. SharedTyped /\ CallsTyped /\ TabsTyped  BY DEF IdentityTypes
<1>2. CallTyped(x) /\ x.tab = t  BY <1>1 DEF Call, CallTyped, CallRecords, SharedTyped
<1>3. calls' = BagAdd(calls, x)  BY DEF ActPressed
<1>4. Open(t) /\ tabs[t].shown \in Names  BY <1>1 DEF ActPressed, Open, TabsTyped, TabRecords
<1>5. step \in {"sending", "reading"}  OBVIOUS
<1> HIDE DEF x
<1>6. Adds(x)  BY <1>1, <1>3, BagAdded DEF CallsTyped
<1>7. CallsTyped'  BY <1>1, <1>2, <1>6, CallsStayTyped
<1>8. UNCHANGED <<cookie, privy, tabs, news>>  BY DEF ActPressed, sharedVars
<1>9. \A c \in Calls' : c \in Calls \/ Open(c.tab)  BY <1>2, <1>4, <1>6 DEF Adds
<1>10. TabsTyped'  BY <1>1, <1>8, <1>9, TabsKeepTyped
<1>11. acts' \in [Tab -> ActRecords]  BY <1>1, <1>4 DEF ActPressed, SharedTyped, ActRecords
<1>12. IdentityTypes'  BY <1>1, <1>7, <1>8, <1>10, <1>11 DEF IdentityTypes, SharedTyped
<1>13. QED  BY <1>5, <1>6, <1>12 DEF x

LEMMA SignInPressedTyped ==
    ASSUME IdentityTypes, NEW t \in Tab, SignInPressed(t)
    PROVE  IdentityTypes' /\ Adds(Call(t, "finish", "proving", tabs[t].bridge))
<1> DEFINE x == Call(t, "finish", "proving", tabs[t].bridge)
           r == [tabs[t] EXCEPT !.status = "busy"]
<1>1. SharedTyped /\ CallsTyped /\ TabsTyped  BY DEF IdentityTypes
<1>2. CallTyped(x) /\ x.tab = t
  BY <1>1, IdentityAssumption DEF SignInPressed, Call, CallTyped, CallRecords, Names
<1>3. calls' = BagAdd(calls, x)  BY DEF SignInPressed
<1>4. tabs' = [tabs EXCEPT ![t] = r] /\ UNCHANGED <<cookie, privy, acts, news>>
  BY DEF SignInPressed, sharedVars
<1>5. TabSound(r) /\ r.status # "closed"  BY <1>1, TabRecordsMade DEF TabsTyped
<1> HIDE DEF x, r
<1>6. Adds(x)  BY <1>1, <1>3, BagAdded DEF CallsTyped
<1>7. CallsTyped'  BY <1>1, <1>2, <1>6, CallsStayTyped
<1>8. \A c \in Calls' : c \in Calls \/ c.tab = t  BY <1>2, <1>6 DEF Adds
<1>9. TabsTyped'  BY <1>1, <1>4, <1>5, <1>7, <1>8, TabsStayTyped
<1>10. QED  BY <1>1, <1>4, <1>6, <1>7, <1>9 DEF IdentityTypes, SharedTyped, x

LEMMA SignOutPressedTyped ==
    ASSUME IdentityTypes, NEW t \in Tab, SignOutPressed(t)
    PROVE  /\ IdentityTypes'
           /\ Calls' = Calls \cup {Call(t, "end", "deleting", None), Call(t, "end", "leaving", None)}
           /\ \A d \in Calls : d.for # "end" => calls'[d] = calls[d]
<1> DEFINE x == Call(t, "end", "deleting", None)
           y == Call(t, "end", "leaving", None)
           r == [[tabs[t] EXCEPT !.cache = None] EXCEPT !.status = "busy"]
<1>1. SharedTyped /\ CallsTyped /\ TabsTyped  BY DEF IdentityTypes
<1>2. /\ CallTyped(x) /\ x.tab = t /\ x.for = "end"
      /\ CallTyped(y) /\ y.tab = t /\ y.for = "end"
  BY DEF Call, CallTyped, CallRecords, Names
<1>3. calls' = calls (+) SetToBag({x, y})  BY DEF SignOutPressed
<1>4. tabs' = [tabs EXCEPT ![t] = r] /\ UNCHANGED <<cookie, privy, acts, news>>
  BY <1>1 DEF SignOutPressed, sharedVars, TabsTyped, TabRecords
<1>5. TabSound(r) /\ r.status # "closed"  BY <1>1, TabRecordsMade DEF TabsTyped, Names
<1> HIDE DEF x, y, r
<1>6. /\ IsABag(calls') /\ Calls' = Calls \cup {x, y}
      /\ \A d \in Calls : d \notin {x, y} => calls'[d] = calls[d]
  BY <1>1, <1>3, BagOfTwo DEF CallsTyped
<1>7. CallsTyped'  BY <1>1, <1>2, <1>6 DEF CallsTyped
<1>8. \A c \in Calls' : c \in Calls \/ c.tab = t  BY <1>2, <1>6
<1>9. TabsTyped'  BY <1>1, <1>4, <1>5, <1>7, <1>8, TabsStayTyped
<1>10. IdentityTypes'  BY <1>1, <1>4, <1>7, <1>9 DEF IdentityTypes, SharedTyped
<1>11. QED  BY <1>2, <1>6, <1>10 DEF x, y

LEMMA SignedInWithXTyped ==
    ASSUME IdentityTypes, NEW t \in Tab, NEW a \in Account, SignedInWithX(t, a)
    PROVE  /\ IdentityTypes'
           /\ Calls' = {d \in Calls : d.tab # t}
                         \cup {Call(t, "refresh", "reading", cookie), Call(t, "finish", "proving", a)}
           /\ \A d \in Calls : d.for = "act" /\ d.tab # t => calls'[d] = calls[d]
<1> DEFINE x == Call(t, "refresh", "reading", cookie)
           y == Call(t, "finish", "proving", a)
           r == [Closed EXCEPT !.status = "loading"]
<1>1. SharedTyped /\ CallsTyped /\ TabsTyped  BY DEF IdentityTypes
<1>2. /\ CallTyped(x) /\ x.tab = t /\ x.for # "act"
      /\ CallTyped(y) /\ y.tab = t /\ y.for # "act"
  BY <1>1, IdentityAssumption DEF Call, CallTyped, CallRecords, SharedTyped, Names
<1>3. calls' = [c \in {d \in Calls : d.tab # t} |-> calls[c]] (+) SetToBag({x, y})
  BY DEF SignedInWithX
<1>4. tabs' = [tabs EXCEPT ![t] = r] /\ news' \subseteq news /\ cookie' = cookie /\ privy' = a
  BY DEF SignedInWithX
<1>5. TabSound(r) /\ r.status # "closed"  BY TabRecordsMade
<1>6. acts' \in [Tab -> ActRecords]
  <2>1. Calm(a) \in [Tab -> ActRecords]  BY <1>1, ActsStayTyped
  <2>2. acts' = [Calm(a) EXCEPT ![t] = NoAct]  BY DEF SignedInWithX
  <2>3. QED  BY <2>1, <2>2, ActsStayTyped
<1> HIDE DEF x, y, r
<1>7. /\ IsABag(calls') /\ Calls' = {d \in Calls : d.tab # t} \cup {x, y}
      /\ \A d \in Calls : d.tab # t /\ d \notin {x, y} => calls'[d] = calls[d]
  <2>1. IsABag(calls)  BY <1>1 DEF CallsTyped
  <2>2. QED  BY <1>3, <2>1 DEF IsABag, Calls, BagToSet, SetToBag, (+)
<1>8. CallsTyped'  BY <1>1, <1>2, <1>7 DEF CallsTyped
<1>9. \A c \in Calls' : c \in Calls \/ c.tab = t  BY <1>2, <1>7
<1>10. TabsTyped'  BY <1>1, <1>4, <1>5, <1>8, <1>9, TabsStayTyped
<1>11. IdentityTypes'  BY <1>1, <1>4, <1>6, <1>8, <1>10 DEF IdentityTypes, SharedTyped, Names
<1>12. QED  BY <1>2, <1>7, <1>11 DEF x, y

LEMMA PrivyNoticedTyped ==
    ASSUME IdentityTypes, NEW t \in Tab, PrivyNoticed(t)
    PROVE  /\ IdentityTypes'
           /\ \/ /\ privy = None /\ tabs[t].status = "in"
                 /\ Adds(Call(t, "end", "deleting", None)) /\ Broadcast(t)
                 /\ tabs'[t].status = "out"
              \/ /\ ~(privy = None /\ tabs[t].status = "in")
                 /\ UNCHANGED <<calls, news>>
                 /\ tabs'[t].status = tabs[t].status /\ tabs'[t].shown = tabs[t].shown
           /\ tabs'[t].bridge = privy
           /\ \A u \in Tab : u # t => tabs'[u] = tabs[u]
<1> DEFINE x == Call(t, "end", "deleting", None)
           h == [tabs[t] EXCEPT !.bridge = privy]
           r == [Out(h) EXCEPT !.cache = None]
<1>1. SharedTyped /\ CallsTyped /\ TabsTyped  BY DEF IdentityTypes
<1>2. Open(t) /\ UNCHANGED <<cookie, privy>> /\ acts' \in [Tab -> ActRecords]
  BY <1>1, ActsStayTyped DEF PrivyNoticed, Open, sharedVars
<1>3. TabSound(h) /\ h.status = tabs[t].status
  BY <1>1, TabRecordsMade DEF TabsTyped, SharedTyped
<1>4. TabSound(r) /\ r.status # "closed"  BY <1>3, TabRecordsMade DEF Names
<1>5. tabs[t] \in TabRecords /\ h \in TabRecords  BY <1>1, <1>3 DEF TabsTyped, TabSound
<1>6. /\ h.bridge = privy /\ h.shown = tabs[t].shown
      /\ r.bridge = privy /\ r.status = "out"
  BY <1>5 DEF TabRecords, Out
<1>7. CASE privy = None /\ tabs[t].status = "in"
  <2>1. CallTyped(x) /\ x.tab = t  BY DEF Call, CallTyped, CallRecords, Names
  <2>2. calls' = BagAdd(calls, x) /\ Broadcast(t)  BY <1>3, <1>7 DEF PrivyNoticed, Hears
  <2>3. tabs' = [tabs EXCEPT ![t] = r]  BY <1>3, <1>7 DEF PrivyNoticed, Hears
  <2> HIDE DEF x, r
  <2>4. Adds(x)  BY <1>1, <2>2, BagAdded DEF CallsTyped
  <2>5. CallsTyped'  BY <1>1, <2>1, <2>4, CallsStayTyped
  <2>6. \A c \in Calls' : c \in Calls \/ c.tab = t  BY <2>1, <2>4 DEF Adds
  <2>7. news' \subseteq news \cup {u \in Tab : Open(u)}  BY <2>2 DEF Broadcast, Open
  <2>8. TabsTyped'  BY <1>1, <1>4, <2>3, <2>5, <2>6, <2>7, TabsStayTyped
  <2>9. IdentityTypes'  BY <1>1, <1>2, <2>5, <2>8 DEF IdentityTypes, SharedTyped
  <2>10. tabs'[t] = r /\ \A u \in Tab : u # t => tabs'[u] = tabs[u]  BY <1>1, <2>3 DEF TabsTyped
  <2>11. QED  BY <1>6, <1>7, <2>2, <2>4, <2>9, <2>10 DEF x
<1>8. CASE ~(privy = None /\ tabs[t].status = "in")
  <2>1. tabs' = [tabs EXCEPT ![t] = h] /\ UNCHANGED <<calls, news>>
    BY <1>3, <1>8 DEF PrivyNoticed, Hears
  <2> HIDE DEF h
  <2>2. CallsTyped'  BY <1>1, <2>1, CallsStayTyped
  <2>3. Calls' = Calls  BY <2>1 DEF Calls, BagToSet
  <2>4. TabsTyped'  BY <1>1, <1>2, <1>3, <2>1, <2>2, <2>3, TabsStayTyped DEF Open
  <2>5. IdentityTypes'  BY <1>1, <1>2, <2>2, <2>4 DEF IdentityTypes, SharedTyped
  <2>6. tabs'[t] = h /\ \A u \in Tab : u # t => tabs'[u] = tabs[u]  BY <1>1, <2>1 DEF TabsTyped
  <2>7. QED  BY <1>3, <1>6, <1>8, <2>1, <2>5, <2>6
<1>9. QED  BY <1>7, <1>8

LEMMA LapseTyped ==
    ASSUME IdentityTypes, SessionLapses \/ PrivyEnds
    PROVE  IdentityTypes'
<1>1. SharedTyped /\ CallsTyped /\ TabsTyped  BY DEF IdentityTypes
<1>2. UNCHANGED <<tabs, calls, news>>  BY DEF SessionLapses, PrivyEnds
<1>3. CallsTyped'  BY <1>1, <1>2, CallsStayTyped
<1>4. \A c \in Calls' : c \in Calls  BY <1>2 DEF Calls, BagToSet
<1>5. TabsTyped'  BY <1>1, <1>2, <1>4, TabsKeepTyped
<1>6. cookie' \in Names /\ privy' \in Names  BY <1>1 DEF SessionLapses, PrivyEnds, SharedTyped, Names
<1>7. acts' \in [Tab -> ActRecords]  BY <1>1, ActsStayTyped DEF SessionLapses, PrivyEnds, SharedTyped
<1>8. QED  BY <1>3, <1>5, <1>6, <1>7 DEF IdentityTypes, SharedTyped

(* A tab acts once at a time, and while nothing comes in between, its act is on its way to be served. *)
CalmCall(c) ==
    LET a == acts[c.tab].as IN
    /\ privy = a /\ tabs[c.tab].bridge = a
    /\ c.step \in {"proving", "posting"} => c.account = a
    /\ c.tries = 2 /\ c.step = "sending" => c.account = a
    /\ c.tries = 2 /\ c.step = "reading" /\ c.account = a => cookie = a

OneAct ==
    \A c \in Calls : c.for = "act" =>
        /\ calls[c] = 1
        /\ \A d \in Calls : d.for = "act" /\ d.tab = c.tab => d = c
        /\ acts[c.tab].as # None
        /\ acts[c.tab].calm => CalmCall(c)

Served ==
    \A t \in Tab :
        Acting(t) /\ ~Acting(t)' /\ acts[t].calm => \E c \in Calls : c.tab = t /\ Serves(c)

(* The act of call d is not disturbed, or no longer calm. *)
Uninterrupted(d) ==
    /\ acts'[d.tab].as = acts[d.tab].as
    /\ acts'[d.tab].calm =>
        /\ acts[d.tab].calm
        /\ privy' = privy /\ tabs'[d.tab].bridge = tabs[d.tab].bridge
        /\ d.tries = 2 => cookie' \in {cookie, acts[d.tab].as}

LEMMA CalmCallKept ==
    \A d : Uninterrupted(d) /\ acts'[d.tab].calm /\ CalmCall(d) => CalmCall(d)'
BY DEF Uninterrupted, CalmCall

LEMMA ActsKept ==
    ASSUME OneAct,
           \A c \in Calls : c.for = "act" => c \in Calls',
           \A d \in Calls' : d.for = "act" => d \in Calls /\ calls'[d] = calls[d] /\ Uninterrupted(d)
    PROVE  OneAct' /\ Served
<1>1. Served  BY DEF Served, Acting
<1>2. ASSUME NEW c \in Calls', c.for = "act"
      PROVE  /\ calls'[c] = 1
             /\ \A d \in Calls' : d.for = "act" /\ d.tab = c.tab => d = c
             /\ acts'[c.tab].as # None
             /\ acts'[c.tab].calm => CalmCall(c)'
  <2>1. c \in Calls /\ calls'[c] = calls[c] /\ Uninterrupted(c)  BY <1>2
  <2>2. acts'[c.tab].calm => CalmCall(c)'  BY <1>2, <2>1, CalmCallKept DEF OneAct, Uninterrupted
  <2>3. QED  BY <1>2, <2>1, <2>2 DEF OneAct, Uninterrupted
<1>3. OneAct'  BY <1>2 DEF OneAct
<1>4. QED  BY <1>1, <1>3

LEMMA ActTurns ==
    ASSUME OneAct, NEW c \in Calls, NEW x, Turns(c, x),
           c.for = "act", x.for = "act", x.tab = c.tab, x # c,
           acts'[c.tab].as = acts[c.tab].as, acts'[c.tab].calm => CalmCall(x)',
           \A d \in Calls : d.for = "act" /\ d # c => Uninterrupted(d)
    PROVE  OneAct' /\ Served
<1>1. c \notin Calls' /\ x \in Calls'  BY DEF OneAct, Turns
<1>2. x \notin Calls  BY DEF OneAct
<1>3. Served  BY <1>1 DEF Served, Acting, Turns
<1>4. ASSUME NEW b \in Calls', b.for = "act"
      PROVE  /\ calls'[b] = 1
             /\ \A d \in Calls' : d.for = "act" /\ d.tab = b.tab => d = b
             /\ acts'[b.tab].as # None
             /\ acts'[b.tab].calm => CalmCall(b)'
  <2>1. CASE b = x  BY <1>1, <1>2, <2>1 DEF OneAct, Turns
  <2>2. CASE b # x
    <3>1. b \in Calls /\ b # c /\ calls'[b] = calls[b] /\ Uninterrupted(b)  BY <1>1, <1>4, <2>2 DEF Turns
    <3>2. acts'[b.tab].calm => CalmCall(b)'  BY <1>4, <3>1, CalmCallKept DEF OneAct, Uninterrupted
    <3>3. QED  BY <1>1, <1>4, <3>1, <3>2 DEF OneAct, Uninterrupted, Turns
  <2>3. QED  BY <2>1, <2>2
<1>5. OneAct'  BY <1>4 DEF OneAct
<1>6. QED  BY <1>3, <1>5

LEMMA ActDrops ==
    ASSUME OneAct, NEW c \in Calls, Drops(c), c.for = "act", acts[c.tab].calm => Serves(c),
           \A d \in Calls : d.for = "act" /\ d # c => Uninterrupted(d)
    PROVE  OneAct' /\ Served
<1>1. c \notin Calls'  BY DEF OneAct, Drops
<1>2. Served  BY <1>1 DEF Served, Acting, Drops, OneAct
<1>3. ASSUME NEW b \in Calls', b.for = "act"
      PROVE  /\ calls'[b] = 1
             /\ \A d \in Calls' : d.for = "act" /\ d.tab = b.tab => d = b
             /\ acts'[b.tab].as # None
             /\ acts'[b.tab].calm => CalmCall(b)'
  <2>1. b \in Calls /\ b # c /\ calls'[b] = calls[b] /\ Uninterrupted(b)  BY <1>1, <1>3 DEF Drops
  <2>2. acts'[b.tab].calm => CalmCall(b)'  BY <1>3, <2>1, CalmCallKept DEF OneAct, Uninterrupted
  <2>3. QED  BY <1>1, <1>3, <2>1, <2>2 DEF OneAct, Uninterrupted, Drops
<1>4. OneAct'  BY <1>3 DEF OneAct
<1>5. QED  BY <1>2, <1>4

LEMMA OpenedServes ==
    ASSUME IdentityTypes, OneAct, NEW t \in Tab, Opened(t)
    PROVE  OneAct' /\ Served
<1> DEFINE x == Call(t, "refresh", "reading", cookie)
<1>1. Adds(x)  BY OpenedTyped
<1>2. x.for = "refresh"  BY DEF Call
<1> HIDE DEF x
<1>3. \A d \in Calls : d.tab # t  BY DEF IdentityTypes, TabsTyped, Open, Opened
<1>4. \A d \in Calls : d.tab \in Tab  BY DEF IdentityTypes, CallsTyped, CallTyped, CallRecords
<1>5. \A d \in Calls : Uninterrupted(d)
  BY <1>3, <1>4 DEF Opened, Uninterrupted, sharedVars, IdentityTypes, TabsTyped
<1>6. QED  BY <1>1, <1>2, <1>5, ActsKept DEF Adds

LEMMA FollowsServes ==
    ASSUME IdentityTypes, OneAct, NEW t \in Tab, Follows(t)
    PROVE  OneAct' /\ Served
<1> DEFINE x == Call(t, "refresh", "reading", cookie)
<1>1. Adds(x)  BY FollowsTyped
<1>2. x.for = "refresh"  BY DEF Call
<1> HIDE DEF x
<1>3. \A d \in Calls : Uninterrupted(d)  BY DEF Follows, Uninterrupted, sharedVars
<1>4. QED  BY <1>1, <1>2, <1>3, ActsKept DEF Adds

LEMMA ReadServes ==
    ASSUME IdentityTypes, OneAct, NEW c \in Calls, ReadDoes(c)
    PROVE  OneAct' /\ Served
<1>1. /\ tabs \in [Tab -> TabRecords] /\ acts \in [Tab -> ActRecords]
      /\ \A d \in Calls : CallTyped(d) /\ d.tab \in Tab
  BY DEF IdentityTypes, SharedTyped, TabsTyped, CallsTyped, CallTyped, CallRecords
<1>2. c.step = "reading" /\ UNCHANGED <<cookie, privy>>  BY DEF ReadDoes, sharedVars
<1>3. CallTyped(c) /\ c.for \in {"refresh", "act"}  BY <1>1, <1>2 DEF CallTyped, CallRecords
<1>4. \A u \in Tab : tabs'[u].bridge = tabs[u].bridge
  <2>1. CASE tabs' = [tabs EXCEPT ![c.tab].cache = c.account]  BY <1>1, <2>1 DEF TabRecords
  <2>2. CASE tabs' = [tabs EXCEPT ![c.tab] = Out([@ EXCEPT !.cache = None])]
    BY <1>1, <2>2 DEF TabRecords, Out
  <2>3. CASE tabs' = [tabs EXCEPT ![c.tab] = In(@, c.account)]  BY <1>1, <2>3 DEF TabRecords, In
  <2>4. QED
    BY <2>1, <2>2, <2>3 DEF ReadDoes, ReadProves, ReadEndsAct, ReadShowsOut, ReadShowsIn, ReadSends
<1>5. CASE c.for = "refresh"
  <2>1. acts' = acts
    BY <1>5 DEF ReadDoes, ReadProves, ReadEndsAct, ReadShowsOut, ReadShowsIn, ReadSends
  <2>2. \A d \in Calls : Uninterrupted(d)  BY <1>1, <1>2, <1>4, <2>1 DEF Uninterrupted
  <2>3. CASE ReadProves(c)
    <3> DEFINE x == [c EXCEPT !.step = "proving", !.account = tabs[c.tab].bridge]
    <3>1. x.for = "refresh"  BY <1>3, <1>5 DEF CallTyped, CallRecords
    <3>2. Turns(c, x)  BY <2>3 DEF ReadProves
    <3> HIDE DEF x
    <3>3. QED  BY <1>5, <2>2, <3>1, <3>2, ActsKept DEF Turns
  <2>4. CASE Drops(c)  BY <1>5, <2>2, <2>4, ActsKept DEF Drops
  <2>5. QED  BY <1>5, <2>3, <2>4 DEF ReadDoes, ReadEndsAct, ReadShowsOut, ReadShowsIn, ReadSends
<1>6. CASE c.for = "act"
  <2>1. \A d \in Calls : d.for = "act" /\ d # c => d.tab # c.tab  BY <1>6 DEF OneAct
  <2>2. acts[c.tab].as # None /\ (acts[c.tab].calm => CalmCall(c))  BY <1>6 DEF OneAct
  <2>3. CASE ReadProves(c)
    <3> PICK x : x = [c EXCEPT !.step = "proving", !.account = tabs[c.tab].bridge]  OBVIOUS
    <3>1. /\ x.for = "act" /\ x.tab = c.tab /\ x.step = "proving" /\ x.account = tabs[c.tab].bridge
      BY <1>3, <1>6 DEF CallTyped, CallRecords
    <3>2. Turns(c, x) /\ acts' = acts  BY <2>3 DEF ReadProves
    <3>3. acts'[c.tab].calm => CalmCall(x)'  BY <1>1, <1>2, <1>4, <2>2, <3>1, <3>2 DEF CalmCall
    <3>4. \A d \in Calls : Uninterrupted(d)  BY <1>1, <1>2, <1>4, <3>2 DEF Uninterrupted
    <3>5. x # c  BY <1>2, <3>1
    <3>6. QED  BY <1>6, <3>1, <3>2, <3>3, <3>4, <3>5, ActTurns
  <2>4. CASE ReadSends(c)
    <3> PICK x : x = [c EXCEPT !.step = "sending", !.account = cookie]  OBVIOUS
    <3>1. /\ x.for = "act" /\ x.tab = c.tab /\ x.step = "sending" /\ x.account = cookie /\ x.tries = c.tries
      BY <1>3, <1>6 DEF CallTyped, CallRecords
    <3>2. Turns(c, x) /\ acts' = acts /\ c.account = acts[c.tab].as  BY <2>4 DEF ReadSends
    <3>3. acts'[c.tab].calm => CalmCall(x)'  BY <1>1, <1>2, <1>4, <2>2, <3>1, <3>2 DEF CalmCall
    <3>4. \A d \in Calls : Uninterrupted(d)  BY <1>1, <1>2, <1>4, <3>2 DEF Uninterrupted
    <3>5. x # c  BY <1>2, <3>1
    <3>6. QED  BY <1>6, <3>1, <3>2, <3>3, <3>4, <3>5, ActTurns
  <2>5. CASE ReadEndsAct(c)
    <3>1. ~acts[c.tab].calm  BY <2>2, <2>5 DEF ReadEndsAct, CalmCall
    <3>2. \A d \in Calls : d.for = "act" /\ d # c => Uninterrupted(d)
      BY <1>1, <1>2, <1>4, <2>1, <2>5 DEF ReadEndsAct, Uninterrupted
    <3>3. Drops(c)  BY <2>5 DEF ReadEndsAct
    <3>4. QED  BY <1>6, <3>1, <3>2, <3>3, ActDrops
  <2>6. QED  BY <1>6, <2>3, <2>4, <2>5 DEF ReadDoes, ReadShowsOut, ReadShowsIn
<1>7. QED  BY <1>3, <1>5, <1>6

LEMMA ProofServes ==
    ASSUME IdentityTypes, OneAct, NEW c \in Calls, ProofDoes(c)
    PROVE  OneAct' /\ Served
<1> PICK x : x = [c EXCEPT !.step = "posting", !.account = ProvenBy(c.account, privy)]  OBVIOUS
<1>1. CallTyped(c)  BY DEF IdentityTypes, CallsTyped
<1>2. /\ x.for = c.for /\ x.tab = c.tab /\ x.step = "posting"
      /\ x.account = ProvenBy(c.account, privy)
  BY <1>1 DEF CallTyped, CallRecords
<1>3. Turns(c, x) /\ UNCHANGED <<cookie, privy, tabs, acts>> /\ c.step = "proving"
  BY DEF ProofDoes, sharedVars
<1>4. \A d \in Calls : Uninterrupted(d)  BY <1>3 DEF Uninterrupted
<1>5. CASE c.for = "act"
  <2>1. acts'[c.tab].calm => CalmCall(x)'  BY <1>2, <1>3, <1>5 DEF OneAct, CalmCall, ProvenBy
  <2>2. QED  BY <1>2, <1>3, <1>4, <1>5, <2>1, ActTurns
<1>6. CASE c.for # "act"  BY <1>2, <1>3, <1>4, <1>6, ActsKept DEF Turns
<1>7. QED  BY <1>5, <1>6

LEMMA PostServes ==
    ASSUME IdentityTypes, OneAct, NEW c \in Calls, PostDoes(c)
    PROVE  OneAct' /\ Served
<1>1. /\ tabs \in [Tab -> TabRecords] /\ acts \in [Tab -> ActRecords]
      /\ \A d \in Calls : CallTyped(d) /\ d.tab \in Tab
  BY DEF IdentityTypes, SharedTyped, TabsTyped, CallsTyped, CallTyped, CallRecords
<1>2. c.step = "posting" /\ UNCHANGED privy /\ SessionMade(c.account)  BY DEF PostDoes
<1>3. CallTyped(c)  BY <1>1
<1>4. \A u \in Tab : tabs'[u].bridge = tabs[u].bridge
  <2>1. CASE tabs' = [tabs EXCEPT ![c.tab].cache = IF c.account = None THEN @ ELSE c.account]
    BY <1>1, <2>1 DEF TabRecords
  <2>2. CASE tabs' = [tabs EXCEPT ![c.tab] = Out(@)]  BY <1>1, <2>2 DEF TabRecords, Out
  <2>3. CASE tabs' = [tabs EXCEPT ![c.tab] = In(@, c.account)]  BY <1>1, <2>3 DEF TabRecords, In
  <2>4. QED  BY <2>1, <2>2, <2>3 DEF PostDoes, PostRenews, PostEndsAct, PostSignsIn, PostSignsOut
<1>5. \A u \in Tab :
          /\ Disturbed(c)[u].as = acts[u].as
          /\ Disturbed(c)[u].calm => acts[u].calm /\ cookie' \in {cookie, acts[u].as}
  BY <1>1, <1>2 DEF Disturbed, Calm, SessionMade, ActRecords
<1>6. ASSUME NEW d \in Calls, acts'[d.tab] = Disturbed(c)[d.tab]
      PROVE  Uninterrupted(d)
  BY <1>1, <1>2, <1>4, <1>5, <1>6 DEF Uninterrupted
<1>7. CASE c.for # "act"
  <2>1. acts' = Disturbed(c) /\ Drops(c)  BY <1>7 DEF PostDoes, PostRenews, PostEndsAct, PostSignsIn, PostSignsOut
  <2>2. \A d \in Calls : Uninterrupted(d)  BY <1>6, <2>1
  <2>3. QED  BY <1>7, <2>1, <2>2, ActsKept DEF Drops
<1>8. CASE c.for = "act"
  <2>1. \A d \in Calls : d.for = "act" /\ d # c => d.tab # c.tab  BY <1>8 DEF OneAct
  <2>2. acts[c.tab].as # None /\ (acts[c.tab].calm => CalmCall(c))  BY <1>8 DEF OneAct
  <2>3. CASE PostRenews(c)
    <3> PICK x : x = [c EXCEPT !.step = "sending"]  OBVIOUS
    <3>1. x.for = "act" /\ x.tab = c.tab /\ x.step = "sending" /\ x.account = c.account
      BY <1>3, <1>8 DEF CallTyped, CallRecords
    <3>2. Turns(c, x) /\ acts' = Disturbed(c) /\ c.account = acts[c.tab].as  BY <2>3 DEF PostRenews
    <3>3. acts'[c.tab].as = acts[c.tab].as /\ (acts'[c.tab].calm => acts[c.tab].calm)
      BY <1>1, <1>5, <3>2
    <3>4. acts'[c.tab].calm => CalmCall(x)'
      BY <1>1, <1>2, <1>4, <2>2, <3>1, <3>2, <3>3 DEF CalmCall
    <3>5. \A d \in Calls : Uninterrupted(d)  BY <1>6, <3>2
    <3>6. x # c  BY <1>2, <3>1
    <3>7. QED  BY <1>8, <3>1, <3>2, <3>3, <3>4, <3>5, <3>6, ActTurns
  <2>4. CASE PostEndsAct(c)
    <3>1. ~acts[c.tab].calm  BY <1>2, <2>2, <2>4 DEF PostEndsAct, CalmCall
    <3>2. \A d \in Calls : d.for = "act" /\ d # c => acts'[d.tab] = Disturbed(c)[d.tab]
      BY <1>1, <2>1, <2>4 DEF PostEndsAct
    <3>3. \A d \in Calls : d.for = "act" /\ d # c => Uninterrupted(d)  BY <1>6, <3>2
    <3>4. Drops(c)  BY <2>4 DEF PostEndsAct
    <3>5. QED  BY <1>8, <3>1, <3>3, <3>4, ActDrops
  <2>5. QED  BY <1>8, <2>3, <2>4 DEF PostDoes, PostSignsIn, PostSignsOut
<1>9. QED  BY <1>7, <1>8

LEMMA AnswerServes ==
    ASSUME IdentityTypes, OneAct, NEW c \in Calls, AnswerDoes(c)
    PROVE  OneAct' /\ Served
<1>1. /\ tabs \in [Tab -> TabRecords] /\ acts \in [Tab -> ActRecords]
      /\ \A d \in Calls : CallTyped(d) /\ d.tab \in Tab
  BY DEF IdentityTypes, SharedTyped, TabsTyped, CallsTyped, CallTyped, CallRecords
<1>2. c.step = "sending" /\ UNCHANGED <<cookie, privy>>  BY DEF AnswerDoes, sharedVars
<1>3. CallTyped(c) /\ c.for = "act"  BY <1>1, <1>2 DEF CallTyped
<1>4. \A u \in Tab : tabs'[u].bridge = tabs[u].bridge
  BY <1>1 DEF AnswerDoes, AnswerEnds, AnswerRetries, SessionLost, TabRecords
<1>5. \A d \in Calls : d.for = "act" /\ d # c => d.tab # c.tab  BY <1>3 DEF OneAct
<1>6. acts[c.tab].as # None /\ (acts[c.tab].calm => CalmCall(c))  BY <1>3 DEF OneAct
<1>7. CASE AnswerEnds(c)
  <2>1. acts[c.tab].calm => Serves(c)  BY <1>2, <1>3, <1>6, <1>7 DEF AnswerEnds, Serves, CalmCall
  <2>2. \A d \in Calls : d.for = "act" /\ d # c => Uninterrupted(d)
    BY <1>1, <1>2, <1>4, <1>5, <1>7 DEF AnswerEnds, Uninterrupted
  <2>3. Drops(c)  BY <1>7 DEF AnswerEnds
  <2>4. QED  BY <1>3, <2>1, <2>2, <2>3, ActDrops
<1>8. CASE AnswerRetries(c)
  <2>1. Turns(c, [c EXCEPT !.tries = 2, !.account = cookie, !.step = "reading"])
    BY <1>6, <1>8 DEF AnswerRetries
  <2> PICK x : x = [c EXCEPT !.tries = 2, !.account = cookie, !.step = "reading"]  OBVIOUS
  <2>2. x.for = "act" /\ x.tab = c.tab /\ x.step = "reading" /\ x.account = cookie
    BY <1>3 DEF CallTyped, CallRecords
  <2>3. Turns(c, x) /\ acts' = acts  BY <1>8, <2>1 DEF AnswerRetries
  <2>4. acts'[c.tab].calm => CalmCall(x)'  BY <1>1, <1>2, <1>4, <1>6, <2>2, <2>3 DEF CalmCall
  <2>5. \A d \in Calls : Uninterrupted(d)  BY <1>1, <1>2, <1>4, <2>3 DEF Uninterrupted
  <2>6. x # c  BY <1>2, <2>2
  <2>7. QED  BY <1>3, <2>2, <2>3, <2>4, <2>5, <2>6, ActTurns
<1>9. QED  BY <1>7, <1>8 DEF AnswerDoes

LEMMA AllInterrupted ==
    ASSUME IdentityTypes, OneAct, acts' = Calm(None), NEW d \in Calls, d.for = "act"
    PROVE  Uninterrupted(d)
<1>1. d.tab \in Tab /\ acts \in [Tab -> ActRecords]
  BY DEF IdentityTypes, SharedTyped, CallsTyped, CallTyped, CallRecords
<1>2. acts[d.tab].as # None  BY DEF OneAct
<1>3. QED  BY <1>1, <1>2 DEF Uninterrupted, Calm, ActRecords

LEMMA EndServes ==
    ASSUME IdentityTypes, OneAct, NEW c \in Calls, c.for = "end", EndDoes(c)
    PROVE  OneAct' /\ Served
<1>1. \A d \in Calls : d.for = "act" => Uninterrupted(d)  BY AllInterrupted DEF EndDoes
<1>2. QED  BY <1>1, ActsKept DEF EndDoes, Drops

LEMMA ActPressedServes ==
    ASSUME IdentityTypes, OneAct, NEW t \in Tab, ActPressed(t)
    PROVE  OneAct' /\ Served
<1>1. PICK step \in {"sending", "reading"} : Adds(Call(t, "act", step, cookie))  BY ActPressedTyped
<1> PICK x : x = Call(t, "act", step, cookie)  OBVIOUS
<1>2. x.for = "act" /\ x.tab = t /\ x.tries = 1 /\ x.step \in {"sending", "reading"}  BY DEF Call
<1>3. Adds(x) /\ \A c \in Calls : c.for = "act" => c.tab # t  BY <1>1 DEF ActPressed, Acting
<1>4. /\ tabs \in [Tab -> TabRecords] /\ acts \in [Tab -> ActRecords]
      /\ \A d \in Calls : d.tab \in Tab
      /\ tabs[t].shown # None
  BY DEF IdentityTypes, SharedTyped, TabsTyped, CallsTyped, CallTyped, CallRecords, TabSound, ActPressed
<1>5. UNCHANGED <<cookie, privy, tabs>>  BY DEF ActPressed, sharedVars
<1>6. /\ acts'[t].as = tabs[t].shown
      /\ acts'[t].calm => privy = tabs[t].shown /\ tabs[t].bridge = tabs[t].shown
      /\ \A u \in Tab : u # t => acts'[u] = acts[u]
  BY <1>4 DEF ActPressed
<1>7. \A d \in Calls : d.for = "act" => Uninterrupted(d)  BY <1>3, <1>4, <1>5, <1>6 DEF Uninterrupted
<1>8. Served  BY <1>3 DEF Served, Acting, Adds
<1>9. ASSUME NEW b \in Calls', b.for = "act"
      PROVE  /\ calls'[b] = 1
             /\ \A d \in Calls' : d.for = "act" /\ d.tab = b.tab => d = b
             /\ acts'[b.tab].as # None
             /\ acts'[b.tab].calm => CalmCall(b)'
  <2>1. CASE b = x
    <3>1. acts'[b.tab].calm => CalmCall(b)'  BY <1>2, <1>5, <1>6, <2>1 DEF CalmCall
    <3>2. QED  BY <1>2, <1>3, <1>4, <1>6, <2>1, <3>1 DEF Adds
  <2>2. CASE b # x
    <3>1. b \in Calls /\ calls'[b] = calls[b] /\ Uninterrupted(b)  BY <1>3, <1>7, <1>9, <2>2 DEF Adds
    <3>2. acts'[b.tab].calm => CalmCall(b)'  BY <1>9, <3>1, CalmCallKept DEF OneAct, Uninterrupted
    <3>3. QED  BY <1>2, <1>3, <1>9, <3>1, <3>2 DEF OneAct, Uninterrupted, Adds
  <2>3. QED  BY <2>1, <2>2
<1>10. OneAct'  BY <1>9 DEF OneAct
<1>11. QED  BY <1>8, <1>10

LEMMA SignInPressedServes ==
    ASSUME IdentityTypes, OneAct, NEW t \in Tab, SignInPressed(t)
    PROVE  OneAct' /\ Served
<1> PICK x : x = Call(t, "finish", "proving", tabs[t].bridge)  OBVIOUS
<1>1. Adds(x)  BY SignInPressedTyped
<1>2. x.for = "finish"  BY DEF Call
<1>3. \A d \in Calls : tabs'[d.tab].bridge = tabs[d.tab].bridge
  BY DEF SignInPressed, IdentityTypes, TabsTyped, TabRecords, CallsTyped, CallTyped, CallRecords
<1>4. \A d \in Calls : Uninterrupted(d)  BY <1>3 DEF SignInPressed, Uninterrupted, sharedVars
<1>5. QED  BY <1>1, <1>2, <1>4, ActsKept DEF Adds

LEMMA SignOutPressedServes ==
    ASSUME IdentityTypes, OneAct, NEW t \in Tab, SignOutPressed(t)
    PROVE  OneAct' /\ Served
<1>1. /\ Calls' = Calls \cup {Call(t, "end", "deleting", None), Call(t, "end", "leaving", None)}
      /\ \A d \in Calls : d.for # "end" => calls'[d] = calls[d]
  BY SignOutPressedTyped
<1>2. Call(t, "end", "deleting", None).for = "end" /\ Call(t, "end", "leaving", None).for = "end"
  BY DEF Call
<1>3. \A d \in Calls : tabs'[d.tab].bridge = tabs[d.tab].bridge
  BY DEF SignOutPressed, IdentityTypes, TabsTyped, TabRecords, CallsTyped, CallTyped, CallRecords
<1>4. \A d \in Calls : Uninterrupted(d)  BY <1>3 DEF SignOutPressed, Uninterrupted, sharedVars
<1>5. QED  BY <1>1, <1>2, <1>4, ActsKept

LEMMA PrivyNoticedServes ==
    ASSUME IdentityTypes, OneAct, NEW t \in Tab, PrivyNoticed(t)
    PROVE  OneAct' /\ Served
<1> PICK x : x = Call(t, "end", "deleting", None)  OBVIOUS
<1>1. /\ Adds(x) \/ UNCHANGED calls
      /\ \A u \in Tab : u # t => tabs'[u] = tabs[u]
  BY PrivyNoticedTyped
<1>2. x.for = "end"  BY DEF Call
<1>3. /\ acts \in [Tab -> ActRecords] /\ \A d \in Calls : d.tab \in Tab
      /\ UNCHANGED <<cookie, privy>> /\ acts' = [acts EXCEPT ![t].calm = FALSE]
  BY DEF PrivyNoticed, sharedVars, IdentityTypes, SharedTyped, CallsTyped, CallTyped, CallRecords
<1>4. \A d \in Calls : Uninterrupted(d)  BY <1>1, <1>3 DEF Uninterrupted, ActRecords
<1>5. CASE Adds(x)  BY <1>2, <1>4, <1>5, ActsKept DEF Adds
<1>6. CASE UNCHANGED calls
  <2>1. Calls' = Calls  BY <1>6 DEF Calls, BagToSet
  <2>2. QED  BY <1>4, <1>6, <2>1, ActsKept
<1>7. QED  BY <1>1, <1>5, <1>6

LEMMA LapseServes ==
    ASSUME IdentityTypes, OneAct, SessionLapses \/ PrivyEnds
    PROVE  OneAct' /\ Served
<1>1. UNCHANGED <<tabs, calls>>  BY DEF SessionLapses, PrivyEnds
<1>2. Calls' = Calls  BY <1>1 DEF Calls, BagToSet
<1>3. ASSUME NEW d \in Calls, d.for = "act"
      PROVE  Uninterrupted(d)
  <2>1. CASE SessionLapses  BY <2>1 DEF SessionLapses, Uninterrupted
  <2>2. CASE PrivyEnds  BY <1>3, <2>2, AllInterrupted DEF PrivyEnds
  <2>3. QED  BY <2>1, <2>2
<1>4. QED  BY <1>1, <1>2, <1>3, ActsKept

(* Signing in with X is only for a browser signed out of it, where no act is calm. *)
LEMMA SignedInWithXServes ==
    ASSUME IdentityTypes, OneAct, NEW t \in Tab, NEW a \in Account, SignedInWithX(t, a)
    PROVE  OneAct' /\ Served
<1> PICK x, y : x = Call(t, "refresh", "reading", cookie) /\ y = Call(t, "finish", "proving", a)  OBVIOUS
<1>1. /\ Calls' = {d \in Calls : d.tab # t} \cup {x, y}
      /\ \A d \in Calls : d.for = "act" /\ d.tab # t => calls'[d] = calls[d]
  BY SignedInWithXTyped
<1>2. x.for # "act" /\ y.for # "act"  BY DEF Call
<1>3. /\ acts \in [Tab -> ActRecords] /\ privy = None
      /\ acts' = [Calm(a) EXCEPT ![t] = NoAct] /\ \A d \in Calls : d.tab \in Tab
  BY DEF SignedInWithX, IdentityTypes, SharedTyped, CallsTyped, CallTyped, CallRecords
<1>4. \A c \in Calls : c.for = "act" => ~acts[c.tab].calm  BY <1>3 DEF OneAct, CalmCall
<1>5. Served  BY <1>4 DEF Served, Acting
<1>6. ASSUME NEW b \in Calls', b.for = "act"
      PROVE  /\ b \in Calls /\ calls'[b] = calls[b]
             /\ acts'[b.tab].as = acts[b.tab].as /\ ~acts'[b.tab].calm
  <2>1. b \in Calls /\ b.tab # t /\ calls'[b] = calls[b]  BY <1>1, <1>2, <1>6
  <2>2. acts'[b.tab] = Calm(a)[b.tab]  BY <1>3, <2>1 DEF Calm
  <2>3. QED  BY <1>3, <1>4, <1>6, <2>1, <2>2 DEF Calm, ActRecords
<1>7. OneAct'  BY <1>6 DEF OneAct
<1>8. QED  BY <1>5, <1>7

(* What the tabs, the session and X's sign-in agree on while nothing overlaps. *)
Has(t, for) == \E c \in Calls : c.tab = t /\ c.for = for
Pending(step) == \E c \in Calls : c.step = step

BusyWaits == \A t \in Tab : tabs[t].status = "busy" => Has(t, "end") \/ Has(t, "finish")

ReadsAgree == \A c \in Calls : c.step = "reading" => c.account \in {None, cookie}

LeavingAgrees == Pending("leaving") => cookie = None \/ Pending("deleting")

SignedInAgree ==
    /\ cookie \in {None, privy}
    /\ \A c \in Calls :
        /\ c.step \in {"proving", "posting"} => c.account = privy
        /\ c.for = "refresh" /\ c.step = "reading" =>
              c.account = privy \/ tabs[c.tab].bridge \in {Loading, privy}
        /\ c.for = "end" => Pending("leaving") /\ \A t \in Tab : Open(t) => tabs[t].bridge = privy
    /\ \A t \in Tab : Open(t) =>
        /\ tabs[t].bridge \in {None, Loading, privy}
        /\ \/ tabs[t].shown = privy \/ Has(t, "refresh") \/ t \in news
           \/ Pending("leaving") \/ \E u \in Tab : Has(u, "finish")
        /\ tabs[t].status = "busy" => \E c \in Calls : c.tab = t /\ c.step = "leaving"
        /\ t \in news => cookie = privy \/ tabs[t].bridge \in {Loading, privy}

(* Signed out of X, a session is left over until the tabs have heard. *)
Leftover ==
    /\ \A c \in Calls :
        /\ c.for # "finish"
        /\ c.for = "refresh" => c.step = "reading" /\ c.account = cookie
    /\ \A t \in Tab : Open(t) =>
        tabs[t].bridge # None /\ (tabs[t].status = "in" \/ Has(t, "refresh"))

SignedOutAgree ==
    /\ \A c \in Calls : c.step = "posting" => c.account = None
    /\ cookie = None \/ Pending("deleting") \/ Leftover
    /\ \A t \in Tab : Open(t) =>
        tabs[t].shown = None \/ tabs[t].bridge # None \/ (tabs[t].status = "busy" /\ Has(t, "end"))

Agree ==
    /\ ~Overlapping(Calls)
    /\ BusyWaits /\ ReadsAgree /\ LeavingAgrees
    /\ privy # None => SignedInAgree
    /\ privy = None => SignedOutAgree

(* The same while no session ends. *)
Quiet == \A c \in Calls : c.for # "end" /\ c.step \notin {"deleting", "leaving"}

Finishing == \E u \in Tab : Has(u, "finish")

QuietCall(c) ==
    /\ c.step \in {"proving", "posting"} => c.account = privy
    /\ c.for = "refresh" /\ c.step = "reading" =>
          c.account = privy \/ tabs[c.tab].bridge \in {Loading, privy}

QuietTab(t) ==
    /\ tabs[t].bridge \in {None, Loading, privy}
    /\ tabs[t].shown = privy \/ Has(t, "refresh") \/ t \in news \/ Finishing
    /\ tabs[t].status # "busy"
    /\ t \in news => cookie = privy \/ tabs[t].bridge \in {Loading, privy}

QuietIn ==
    /\ cookie \in {None, privy}
    /\ \A c \in Calls : QuietCall(c)
    /\ \A t \in Tab : Open(t) => QuietTab(t)

QuietOut ==
    /\ \A c \in Calls : c.step = "posting" => c.account = None
    /\ cookie = None \/ Leftover
    /\ \A t \in Tab : Open(t) => tabs[t].shown = None \/ tabs[t].bridge # None

QuietBusy == \A t \in Tab : tabs[t].status = "busy" => Has(t, "finish")

QuietAgree ==
    /\ QuietBusy /\ ReadsAgree
    /\ privy # None => QuietIn
    /\ privy = None => QuietOut

LEMMA QuietAgrees == Quiet => (QuietAgree <=> Agree)
<1> SUFFICES ASSUME Quiet  PROVE QuietAgree <=> Agree
  OBVIOUS
<1>1. ~Overlapping(Calls) /\ ~Pending("leaving") /\ ~Pending("deleting") /\ \A t \in Tab : ~Has(t, "end")
  BY DEF Quiet, Overlapping, Pending, Has
<1>2. QuietBusy <=> BusyWaits  BY <1>1 DEF QuietBusy, BusyWaits
<1>3. LeavingAgrees  BY <1>1 DEF LeavingAgrees
<1>4. QuietIn <=> SignedInAgree
  BY <1>1 DEF Quiet, QuietIn, QuietCall, QuietTab, Finishing, SignedInAgree
<1>5. QuietOut <=> SignedOutAgree  BY <1>1 DEF QuietOut, SignedOutAgree
<1>6. QED  BY <1>1, <1>2, <1>3, <1>4, <1>5 DEF QuietAgree, Agree

LEMMA QuietWith ==
    \A c \in Calls : IdentityTypes /\ ~Overlapping(Calls) /\ c.for # "end" => Quiet
BY DEF Quiet, Overlapping, IdentityTypes, CallsTyped, CallTyped

LEMMA QuietBefore ==
    ASSUME IdentityTypes', ~Overlapping(Calls)', NEW x \in Calls', x.for # "end", Calls \subseteq Calls'
    PROVE  Quiet /\ Quiet'
BY DEF Quiet, Overlapping, IdentityTypes, CallsTyped, CallTyped

LEMMA OpenedAgrees ==
    ASSUME IdentityTypes, Agree, NEW t \in Tab, Opened(t), ~Overlapping(Calls)'
    PROVE  Agree'
<1> PICK x : x = Call(t, "refresh", "reading", cookie)  OBVIOUS
<1>1. Calls' = Calls \cup {x}  BY OpenedTyped DEF Adds
<1>2. x.tab = t /\ x.for = "refresh" /\ x.step = "reading" /\ x.account = cookie  BY DEF Call
<1>3. Quiet /\ Quiet'  BY <1>1, <1>2, OpenedTyped, QuietBefore
<1>4. QuietAgree  BY <1>3, QuietAgrees
<1>5. \A u \in Tab : u # t => tabs'[u] = tabs[u]  BY DEF Opened, IdentityTypes, TabsTyped
<1>6. /\ tabs'[t].status = "loading" /\ tabs'[t].shown = None /\ tabs'[t].bridge = Loading
      /\ Loading # None /\ ~Open(t)
  BY DEF Opened, IdentityTypes, TabsTyped, Closed, Open, None, Loading
<1>7. UNCHANGED <<cookie, privy, news>>  BY DEF Opened, sharedVars
<1>8. \A c \in Calls : c.tab \in Tab /\ c.tab # t
  BY <1>6 DEF IdentityTypes, TabsTyped, CallsTyped, CallTyped, CallRecords
<1>9. \A u \in Tab, for \in {"refresh", "finish"} : Has(u, for) => Has(u, for)'  BY <1>1 DEF Has
<1>10. Has(t, "refresh")' /\ (Finishing => Finishing')  BY <1>1, <1>2, <1>9 DEF Has, Finishing
<1>11. QuietBusy'  BY <1>4, <1>5, <1>6, <1>9 DEF QuietAgree, QuietBusy
<1>12. ReadsAgree'  BY <1>1, <1>2, <1>4, <1>7 DEF QuietAgree, ReadsAgree
<1>13. ASSUME privy # None  PROVE QuietIn'
  <2>1. QuietIn  BY <1>4, <1>13 DEF QuietAgree
  <2>2. cookie' \in {None, privy'}  BY <1>7, <2>1 DEF QuietIn
  <2>3. \A c \in Calls' : QuietCall(c)'
    BY <1>1, <1>2, <1>5, <1>6, <1>7, <1>8, <2>1 DEF QuietIn, QuietCall
  <2>4. ASSUME NEW u \in Tab, Open(u)'  PROVE QuietTab(u)'
    <3>1. CASE u = t  BY <1>3, <1>5, <1>6, <1>7, <1>10, <3>1, <2>1 DEF QuietTab, IdentityTypes, TabsTyped, Open
    <3>2. CASE u # t  BY <1>5, <1>7, <1>9, <1>10, <2>1, <2>4, <3>2 DEF QuietIn, QuietTab, Open
    <3>3. QED  BY <3>1, <3>2
  <2>5. QED  BY <2>2, <2>3, <2>4 DEF QuietIn
<1>14. ASSUME privy = None  PROVE QuietOut'
  <2>1. QuietOut  BY <1>4, <1>14 DEF QuietAgree
  <2>2. Leftover => Leftover'
    BY <1>1, <1>2, <1>5, <1>6, <1>7, <1>9, <1>10 DEF Leftover, Open
  <2>3. \A c \in Calls' : c.step = "posting" => c.account = None
    BY <1>1, <1>2, <2>1 DEF QuietOut
  <2>4. \A u \in Tab : Open(u)' => tabs'[u].shown = None \/ tabs'[u].bridge # None
    BY <1>5, <1>6, <2>1 DEF QuietOut, Open
  <2>5. QED  BY <1>7, <2>1, <2>2, <2>3, <2>4 DEF QuietOut
<1>15. QuietAgree'  BY <1>7, <1>11, <1>12, <1>13, <1>14 DEF QuietAgree
<1>16. QED  BY <1>3, <1>15, QuietAgrees, PTL

LEMMA FollowsAgrees ==
    ASSUME IdentityTypes, Agree, NEW t \in Tab, Follows(t), ~Overlapping(Calls)'
    PROVE  Agree'
<1> PICK x : x = Call(t, "refresh", "reading", cookie)  OBVIOUS
<1>1. Calls' = Calls \cup {x}  BY FollowsTyped DEF Adds
<1>2. x.tab = t /\ x.for = "refresh" /\ x.step = "reading" /\ x.account = cookie  BY DEF Call
<1>3. Quiet /\ Quiet'  BY <1>1, <1>2, FollowsTyped, QuietBefore
<1>4. QuietAgree  BY <1>3, QuietAgrees
<1>5. UNCHANGED <<cookie, privy, tabs>> /\ news' = news \ {t} /\ t \in news  BY DEF Follows, sharedVars
<1>6. Open(t)  BY <1>5 DEF IdentityTypes, TabsTyped
<1>7. \A u \in Tab, for \in {"refresh", "finish"} : Has(u, for) => Has(u, for)'  BY <1>1 DEF Has
<1>8. Has(t, "refresh")' /\ (Finishing => Finishing')  BY <1>1, <1>2, <1>7 DEF Has, Finishing
<1>9. QuietBusy'  BY <1>4, <1>5, <1>7 DEF QuietAgree, QuietBusy
<1>10. ReadsAgree'  BY <1>1, <1>2, <1>4, <1>5 DEF QuietAgree, ReadsAgree
<1>11. ASSUME privy # None  PROVE QuietIn'
  <2>1. QuietIn  BY <1>4, <1>11 DEF QuietAgree
  <2>2. QuietCall(x)  BY <1>2, <1>5, <1>6, <2>1 DEF QuietIn, QuietTab, QuietCall
  <2>3. \A c \in Calls' : QuietCall(c)'  BY <1>1, <1>5, <2>1, <2>2 DEF QuietIn, QuietCall
  <2>4. \A u \in Tab : Open(u)' => QuietTab(u)'  BY <1>5, <1>7, <1>8, <2>1 DEF QuietIn, QuietTab, Open
  <2>5. QED  BY <1>5, <2>1, <2>3, <2>4 DEF QuietIn
<1>12. ASSUME privy = None  PROVE QuietOut'
  <2>1. QuietOut  BY <1>4, <1>12 DEF QuietAgree
  <2>2. Leftover => Leftover'  BY <1>1, <1>2, <1>5, <1>7 DEF Leftover, Open
  <2>3. \A c \in Calls' : c.step = "posting" => c.account = None  BY <1>1, <1>2, <2>1 DEF QuietOut
  <2>4. QED  BY <1>5, <2>1, <2>2, <2>3 DEF QuietOut, Open
<1>13. QuietAgree'  BY <1>5, <1>9, <1>10, <1>11, <1>12 DEF QuietAgree
<1>14. QED  BY <1>3, <1>13, QuietAgrees, PTL

(* Every tab looks the same, and no refresh or sign-in is over. *)
LEMMA LooksAgree ==
    ASSUME IdentityTypes, QuietAgree,
           \A u \in Tab : /\ tabs'[u].status = tabs[u].status /\ tabs'[u].shown = tabs[u].shown
                         /\ tabs'[u].bridge = tabs[u].bridge,
           privy' = privy, news' = news, cookie' = cookie \/ (privy # None /\ cookie' = privy),
           \A u \in Tab, for \in {"refresh", "finish"} : Has(u, for) => Has(u, for)',
           \A x \in Calls' : x \in Calls \/
               /\ x.tab \in Tab
               /\ x.step = "reading" => x.account \in {None, cookie'}
               /\ privy # None => QuietCall(x)
               /\ privy = None /\ x.step = "posting" => x.account = None
               /\ Leftover /\ cookie # None =>
                      x.for # "finish" /\ (x.for = "refresh" => x.step = "reading" /\ x.account = cookie)
    PROVE  QuietAgree'
<1>1. Finishing => Finishing'  BY DEF Finishing
<1>2. QuietBusy'  BY DEF QuietAgree, QuietBusy
<1>3. ReadsAgree'
  <2>1. \A c \in Calls : c.step = "reading" => c.account \in {None, cookie}  BY DEF QuietAgree, ReadsAgree
  <2>2. privy # None => cookie \in {None, privy}  BY DEF QuietAgree, QuietIn
  <2>3. QED  BY <2>1, <2>2 DEF ReadsAgree
<1>4. \A c \in Calls : c.tab \in Tab  BY DEF IdentityTypes, CallsTyped, CallTyped, CallRecords
<1>5. ASSUME privy # None  PROVE QuietIn'
  <2>1. QuietIn  BY <1>5 DEF QuietAgree
  <2>2. \A c \in Calls' : QuietCall(c)'  BY <1>4, <1>5, <2>1 DEF QuietIn, QuietCall
  <2>3. \A u \in Tab : Open(u)' => QuietTab(u)'  BY <1>1, <2>1 DEF QuietIn, QuietTab, Open
  <2>4. QED  BY <2>1, <2>2, <2>3 DEF QuietIn
<1>6. ASSUME privy = None  PROVE QuietOut'
  <2>1. QuietOut /\ cookie' = cookie  BY <1>6 DEF QuietAgree
  <2>2. Leftover /\ cookie # None => Leftover'  BY <2>1 DEF Leftover, Open
  <2>3. \A c \in Calls' : c.step = "posting" => c.account = None  BY <1>6, <2>1 DEF QuietOut
  <2>4. QED  BY <2>1, <2>2, <2>3 DEF QuietOut, Open
<1>7. QED  BY <1>2, <1>3, <1>5, <1>6 DEF QuietAgree

(* A refresh or a sign-in of one tab is over, and the tab shows what it brought. *)
LEMMA ShownAgrees ==
    ASSUME IdentityTypes, QuietAgree, NEW c \in Calls, Drops(c), c.for \in {"refresh", "finish"},
           \A u \in Tab : u # c.tab => tabs'[u] = tabs[u],
           tabs'[c.tab].status \notin {"busy", "closed"}, tabs'[c.tab].bridge = tabs[c.tab].bridge,
           privy' = privy, cookie' = cookie \/ (privy # None /\ cookie' = privy),
           privy # None => tabs'[c.tab].shown = privy,
           privy = None => tabs'[c.tab].shown = None \/ tabs[c.tab].bridge # None,
           privy = None /\ cookie # None => tabs'[c.tab].status = "in",
           \/ news' = news /\ (c.for = "refresh" \/ privy = None)
           \/ /\ privy # None /\ cookie' = privy
              /\ \A u \in Tab : Open(u) /\ u # c.tab => u \in news'
    PROVE  QuietAgree'
<1>1. \A d \in Calls : d.tab \in Tab /\ Open(d.tab)
  BY DEF IdentityTypes, TabsTyped, CallsTyped, CallTyped, CallRecords
<1>2. Calls' \subseteq Calls /\ Calls \ {c} \subseteq Calls'  BY DEF Drops
<1>3. \A u \in Tab, for \in {"refresh", "finish"} : u # c.tab /\ Has(u, for) => Has(u, for)'
  BY <1>2 DEF Has
<1>4. QuietBusy'  BY <1>3 DEF QuietAgree, QuietBusy
<1>5. ReadsAgree'
  <2>1. \A d \in Calls : d.step = "reading" => d.account \in {None, cookie}  BY DEF QuietAgree, ReadsAgree
  <2>2. privy # None => cookie \in {None, privy}  BY DEF QuietAgree, QuietIn
  <2>3. QED  BY <1>2, <2>1, <2>2 DEF ReadsAgree
<1>6. ASSUME privy # None  PROVE QuietIn'
  <2>1. QuietIn  BY <1>6 DEF QuietAgree
  <2>2. \A d \in Calls' : QuietCall(d)'  BY <1>1, <1>2, <2>1 DEF QuietIn, QuietCall
  <2>3. c.for = "refresh" /\ Finishing => Finishing'  BY <1>2 DEF Finishing, Has
  <2>4. ASSUME NEW u \in Tab, Open(u)'  PROVE QuietTab(u)'
    <3>1. Open(u)  BY <1>1, <2>4 DEF Open
    <3>2. CASE u = c.tab  BY <1>6, <2>1, <3>1, <3>2 DEF QuietIn, QuietTab
    <3>3. CASE u # c.tab  BY <1>3, <1>6, <2>1, <2>3, <3>1, <3>3 DEF QuietIn, QuietTab
    <3>4. QED  BY <3>2, <3>3
  <2>5. QED  BY <2>1, <2>2, <2>4 DEF QuietIn
<1>7. ASSUME privy = None  PROVE QuietOut'
  <2>1. QuietOut /\ cookie' = cookie  BY <1>7 DEF QuietAgree
  <2>2. Leftover /\ cookie # None => Leftover'
    <3>1. ASSUME Leftover, cookie # None, NEW u \in Tab, Open(u)'
          PROVE  tabs'[u].bridge # None /\ (tabs'[u].status = "in" \/ Has(u, "refresh")')
      BY <1>1, <1>3, <1>7, <3>1 DEF Leftover, Open
    <3>2. QED  BY <1>2, <2>1, <3>1 DEF Leftover
  <2>3. \A d \in Calls' : d.step = "posting" => d.account = None  BY <1>2, <2>1 DEF QuietOut
  <2>4. \A u \in Tab : Open(u)' => tabs'[u].shown = None \/ tabs'[u].bridge # None
    BY <1>7, <2>1 DEF QuietOut, Open
  <2>5. QED  BY <2>1, <2>2, <2>3, <2>4 DEF QuietOut
<1>8. QED  BY <1>4, <1>5, <1>6, <1>7 DEF QuietAgree

LEMMA QuietKept ==
    ASSUME Quiet, NEW c \in Calls,
           Drops(c) \/ \E x : Turns(c, x) /\ x.for # "end" /\ x.step \notin {"deleting", "leaving"}
    PROVE  Quiet'
BY DEF Quiet, Drops, Turns

(* A call that is followed by another of the same kind, and other than a refresh or a sign-in ends. *)
LEMMA HasKept ==
    ASSUME NEW c \in Calls,
           \/ Drops(c) /\ c.for \notin {"refresh", "finish"}
           \/ \E x : Turns(c, x) /\ x.for = c.for /\ x.tab = c.tab
    PROVE  \A u \in Tab, for \in {"refresh", "finish"} : Has(u, for) => Has(u, for)'
BY DEF Has, Drops, Turns

LEMMA ReadAgrees ==
    ASSUME IdentityTypes, Agree, NEW c \in Calls, ReadDoes(c)
    PROVE  Agree'
<1>1. /\ tabs \in [Tab -> TabRecords] /\ c.tab \in Tab /\ CallTyped(c) /\ Open(c.tab) /\ cookie \in Names
  BY DEF IdentityTypes, SharedTyped, TabsTyped, CallsTyped, CallTyped, CallRecords
<1>2. c.step = "reading" /\ UNCHANGED <<cookie, privy, news>>  BY DEF ReadDoes, sharedVars
<1>3. c.for \in {"refresh", "act"}  BY <1>1, <1>2 DEF CallTyped, CallRecords
<1>4. Quiet /\ QuietAgree
  <2>1. Quiet  BY <1>3, QuietWith DEF Agree
  <2>2. QED  BY <2>1, QuietAgrees
<1>5. c.account \in {None, cookie}  BY <1>2, <1>4 DEF QuietAgree, ReadsAgree
<1>6. privy # None => QuietIn /\ QuietCall(c) /\ QuietTab(c.tab)  BY <1>1, <1>4 DEF QuietAgree, QuietIn
<1>7. privy = None => QuietOut  BY <1>4 DEF QuietAgree
<1>8. ASSUME tabs' = [tabs EXCEPT ![c.tab].cache = c.account]
      PROVE  \A u \in Tab : /\ tabs'[u].status = tabs[u].status /\ tabs'[u].shown = tabs[u].shown
                            /\ tabs'[u].bridge = tabs[u].bridge
  BY <1>1, <1>8 DEF TabRecords
<1>9. CASE ReadProves(c) /\ (c.for = "refresh" => c.account = None)
  <2> PICK x : x = [c EXCEPT !.step = "proving", !.account = tabs[c.tab].bridge]  OBVIOUS
  <2>1. x.for = c.for /\ x.tab = c.tab /\ x.step = "proving" /\ x.account = tabs[c.tab].bridge
    BY <1>1 DEF CallTyped, CallRecords
  <2>2. Turns(c, x) /\ tabs[c.tab].bridge \notin {None, Loading}  BY <1>9 DEF ReadProves
  <2>3. privy # None => QuietCall(x)  BY <1>6, <2>1, <2>2 DEF QuietTab, QuietCall
  <2>4. Leftover /\ c.for = "refresh" => cookie = None  BY <1>9 DEF Leftover
  <2>5. Quiet'  BY <1>3, <1>4, <2>1, <2>2, QuietKept
  <2>6. \A u \in Tab, for \in {"refresh", "finish"} : Has(u, for) => Has(u, for)'  BY <2>1, <2>2, HasKept
  <2>7. \A d \in Calls' : d \in Calls \/ d = x  BY <2>2 DEF Turns
  <2>8. QuietAgree'  BY <1>1, <1>2, <1>3, <1>4, <1>8, <1>9, <2>1, <2>3, <2>4, <2>6, <2>7, LooksAgree DEF ReadProves
  <2>9. QED  BY <2>5, <2>8, QuietAgrees, PTL
<1>10. CASE ReadSends(c)
  <2> PICK x : x = [c EXCEPT !.step = "sending", !.account = cookie]  OBVIOUS
  <2>1. x.for = "act" /\ c.for = "act" /\ x.tab = c.tab /\ x.step = "sending"
    BY <1>1, <1>10 DEF ReadSends, CallTyped, CallRecords
  <2>2. Turns(c, x)  BY <1>10 DEF ReadSends
  <2>3. privy # None => QuietCall(x)  BY <2>1 DEF QuietCall
  <2>4. Quiet'  BY <1>3, <1>4, <2>1, <2>2, QuietKept
  <2>5. \A u \in Tab, for \in {"refresh", "finish"} : Has(u, for) => Has(u, for)'  BY <2>1, <2>2, HasKept
  <2>6. \A d \in Calls' : d \in Calls \/ d = x  BY <2>2 DEF Turns
  <2>7. QuietAgree'  BY <1>1, <1>2, <1>4, <1>8, <1>10, <2>1, <2>3, <2>5, <2>6, LooksAgree DEF ReadSends
  <2>8. QED  BY <2>4, <2>7, QuietAgrees, PTL
<1>11. CASE ReadEndsAct(c)
  <2>1. Drops(c) /\ c.for = "act"  BY <1>11 DEF ReadEndsAct
  <2>2. Quiet'  BY <1>4, <2>1, QuietKept
  <2>3. \A u \in Tab, for \in {"refresh", "finish"} : Has(u, for) => Has(u, for)'  BY <2>1, HasKept
  <2>4. \A d \in Calls' : d \in Calls  BY <2>1 DEF Drops
  <2>5. QuietAgree'  BY <1>2, <1>4, <1>8, <1>11, <2>3, <2>4, LooksAgree DEF ReadEndsAct
  <2>6. QED  BY <2>2, <2>5, QuietAgrees, PTL
<1>12. CASE ReadShowsOut(c)
  <2>1. privy = None
    <3>1. privy # None => privy # Loading  BY IdentityAssumption DEF IdentityTypes, SharedTyped, Names
    <3>2. None # Loading  BY DEF None, Loading
    <3>3. QED  BY <1>2, <1>6, <1>12, <3>1, <3>2 DEF ReadShowsOut, QuietCall
  <2>2. cookie = None \/ ~(privy = None /\ cookie # None)
    BY <1>2, <1>4, <1>7, <1>12, <2>1 DEF ReadShowsOut, QuietOut, Leftover
  <2>3. /\ tabs'[c.tab].status = "out" /\ tabs'[c.tab].shown = None
        /\ tabs'[c.tab].bridge = tabs[c.tab].bridge
        /\ \A u \in Tab : u # c.tab => tabs'[u] = tabs[u]
    BY <1>1, <1>12 DEF ReadShowsOut, Out, TabRecords
  <2>4. Drops(c) /\ c.for = "refresh"  BY <1>12 DEF ReadShowsOut
  <2>5. Quiet'  BY <1>4, <2>4, QuietKept
  <2>6. QuietAgree'  BY <1>2, <1>4, <2>1, <2>2, <2>3, <2>4, ShownAgrees
  <2>7. QED  BY <2>5, <2>6, QuietAgrees, PTL
<1>13. CASE ReadShowsIn(c)
  <2>1. /\ tabs'[c.tab].status = "in" /\ tabs'[c.tab].shown = c.account
        /\ tabs'[c.tab].bridge = tabs[c.tab].bridge
        /\ \A u \in Tab : u # c.tab => tabs'[u] = tabs[u]
    BY <1>1, <1>13 DEF ReadShowsIn, In, TabRecords
  <2>2. Drops(c) /\ c.for = "refresh" /\ c.account # None  BY <1>13 DEF ReadShowsIn
  <2>3. privy # None => c.account = privy  BY <1>5, <1>6, <2>2 DEF QuietIn
  <2>4. privy = None => tabs[c.tab].bridge # None  BY <1>1, <1>5, <1>7, <2>2 DEF QuietOut, Leftover
  <2>5. Quiet'  BY <1>4, <2>2, QuietKept
  <2>6. QuietAgree'  BY <1>2, <1>4, <2>1, <2>2, <2>3, <2>4, ShownAgrees
  <2>7. QED  BY <2>5, <2>6, QuietAgrees, PTL
<1>14. QED  BY <1>9, <1>10, <1>11, <1>12, <1>13 DEF ReadDoes

LEMMA ProofAgrees ==
    ASSUME IdentityTypes, Agree, NEW c \in Calls, ProofDoes(c)
    PROVE  Agree'
<1> PICK x : x = [c EXCEPT !.step = "posting", !.account = ProvenBy(c.account, privy)]  OBVIOUS
<1>1. c.tab \in Tab /\ CallTyped(c)  BY DEF IdentityTypes, CallsTyped, CallTyped, CallRecords
<1>2. c.step = "proving" /\ UNCHANGED <<cookie, privy, news, tabs>>  BY DEF ProofDoes, sharedVars
<1>3. c.for \in {"refresh", "act", "finish"} /\ c.account # None  BY <1>1, <1>2 DEF CallTyped, CallRecords
<1>4. Quiet /\ QuietAgree
  <2>1. Quiet  BY <1>3, QuietWith DEF Agree
  <2>2. QED  BY <2>1, QuietAgrees
<1>5. /\ x.for = c.for /\ x.tab = c.tab /\ x.step = "posting"
      /\ x.account = ProvenBy(c.account, privy)
  BY <1>1 DEF CallTyped, CallRecords
<1>6. Turns(c, x)  BY DEF ProofDoes
<1>7. privy # None => QuietCall(x)  BY <1>2, <1>4, <1>5 DEF QuietAgree, QuietIn, QuietCall, ProvenBy
<1>8. privy = None => x.account = None  BY <1>3, <1>5 DEF ProvenBy
<1>9. Leftover => c.for = "act"  BY <1>2, <1>3 DEF Leftover
<1>10. Quiet'  BY <1>3, <1>4, <1>5, <1>6, QuietKept
<1>11. \A u \in Tab, for \in {"refresh", "finish"} : Has(u, for) => Has(u, for)'  BY <1>5, <1>6, HasKept
<1>12. \A d \in Calls' : d \in Calls \/ d = x  BY <1>6 DEF Turns
<1>13. QuietAgree'  BY <1>1, <1>2, <1>4, <1>5, <1>7, <1>8, <1>9, <1>11, <1>12, LooksAgree
<1>14. QED  BY <1>10, <1>13, QuietAgrees, PTL

LEMMA PostAgrees ==
    ASSUME IdentityTypes, Agree, NEW c \in Calls, PostDoes(c)
    PROVE  Agree'
<1>1. /\ tabs \in [Tab -> TabRecords] /\ c.tab \in Tab /\ CallTyped(c) /\ Open(c.tab) /\ cookie \in Names
  BY DEF IdentityTypes, SharedTyped, TabsTyped, CallsTyped, CallTyped, CallRecords
<1>2. c.step = "posting" /\ privy' = privy /\ cookie' = IF c.account = None THEN cookie ELSE c.account
  BY DEF PostDoes, SessionMade
<1>3. c.for \in {"refresh", "act", "finish"}  BY <1>1, <1>2 DEF CallTyped, CallRecords
<1>4. Quiet /\ QuietAgree
  <2>1. Quiet  BY <1>3, QuietWith DEF Agree
  <2>2. QED  BY <2>1, QuietAgrees
<1>5. c.account = privy  BY <1>2, <1>4 DEF QuietAgree, QuietIn, QuietCall, QuietOut
<1>6. cookie' = cookie \/ (privy # None /\ cookie' = privy)  BY <1>2, <1>5
<1>7. CASE c.for = "act"
  <2>1. \A u \in Tab : /\ tabs'[u].status = tabs[u].status /\ tabs'[u].shown = tabs[u].shown
                       /\ tabs'[u].bridge = tabs[u].bridge
    <3>1. tabs' = [tabs EXCEPT ![c.tab].cache = IF c.account = None THEN @ ELSE c.account]
      BY <1>7 DEF PostDoes, PostRenews, PostEndsAct, PostSignsIn, PostSignsOut
    <3>2. QED  BY <1>1, <3>1 DEF TabRecords
  <2>2. news' = news  BY <1>7 DEF PostDoes, PostRenews, PostEndsAct, PostSignsIn, PostSignsOut
  <2> PICK x : x = [c EXCEPT !.step = "sending"]  OBVIOUS
  <2>3. x.for = "act" /\ x.tab = c.tab /\ x.step = "sending"  BY <1>1, <1>7 DEF CallTyped, CallRecords
  <2>4. Turns(c, x) \/ Drops(c)  BY <1>7 DEF PostDoes, PostRenews, PostEndsAct, PostSignsIn, PostSignsOut
  <2>5. privy # None => QuietCall(x)  BY <2>3 DEF QuietCall
  <2>6. Quiet'  BY <1>4, <2>3, <2>4, QuietKept
  <2>7. \A u \in Tab, for \in {"refresh", "finish"} : Has(u, for) => Has(u, for)'
    BY <1>7, <2>3, <2>4, HasKept
  <2>8. \A d \in Calls' : d \in Calls \/ d = x  BY <2>4 DEF Turns, Drops
  <2>9. QuietAgree'  BY <1>1, <1>2, <1>4, <1>6, <2>1, <2>2, <2>3, <2>5, <2>7, <2>8, LooksAgree
  <2>10. QED  BY <2>6, <2>9, QuietAgrees, PTL
<1>8. CASE PostSignsIn(c)
  <2>1. /\ tabs'[c.tab].status = "in" /\ tabs'[c.tab].shown = c.account
        /\ tabs'[c.tab].bridge = tabs[c.tab].bridge
        /\ \A u \in Tab : u # c.tab => tabs'[u] = tabs[u]
    BY <1>1, <1>8 DEF PostSignsIn, In, TabRecords
  <2>2. Drops(c) /\ c.for \in {"refresh", "finish"} /\ privy # None /\ cookie' = privy
    BY <1>2, <1>5, <1>8 DEF PostSignsIn
  <2>3. \/ news' = news /\ c.for = "refresh"
        \/ \A u \in Tab : Open(u) /\ u # c.tab => u \in news'
    BY <1>8 DEF PostSignsIn, Broadcast, Open
  <2>4. Quiet'  BY <1>4, <2>2, QuietKept
  <2>5. QuietAgree'  BY <1>2, <1>4, <1>5, <2>1, <2>2, <2>3, ShownAgrees
  <2>6. QED  BY <2>4, <2>5, QuietAgrees, PTL
<1>9. CASE PostSignsOut(c)
  <2>1. /\ tabs'[c.tab].status = "out" /\ tabs'[c.tab].shown = None
        /\ tabs'[c.tab].bridge = tabs[c.tab].bridge
        /\ \A u \in Tab : u # c.tab => tabs'[u] = tabs[u]
    BY <1>1, <1>9 DEF PostSignsOut, Out, TabRecords
  <2>2. Drops(c) /\ c.for \in {"refresh", "finish"} /\ privy = None /\ cookie' = cookie /\ news' = news
    BY <1>2, <1>5, <1>9 DEF PostSignsOut
  <2>3. cookie = None  BY <1>2, <1>4, <2>2 DEF QuietAgree, QuietOut, Leftover
  <2>4. Quiet'  BY <1>4, <2>2, QuietKept
  <2>5. QuietAgree'  BY <1>2, <1>4, <2>1, <2>2, <2>3, ShownAgrees
  <2>6. QED  BY <2>4, <2>5, QuietAgrees, PTL
<1>10. QED  BY <1>3, <1>7, <1>8, <1>9 DEF PostDoes, PostRenews, PostEndsAct

LEMMA AnswerAgrees ==
    ASSUME IdentityTypes, Agree, NEW c \in Calls, AnswerDoes(c)
    PROVE  Agree'
<1>1. /\ tabs \in [Tab -> TabRecords] /\ c.tab \in Tab /\ CallTyped(c)
  BY DEF IdentityTypes, SharedTyped, TabsTyped, CallsTyped, CallTyped, CallRecords
<1>2. c.step = "sending" /\ UNCHANGED <<cookie, privy, news>>  BY DEF AnswerDoes, sharedVars
<1>3. c.for = "act"  BY <1>1, <1>2 DEF CallTyped
<1>4. Quiet /\ QuietAgree
  <2>1. Quiet  BY <1>3, QuietWith DEF Agree
  <2>2. QED  BY <2>1, QuietAgrees
<1>5. \A u \in Tab : /\ tabs'[u].status = tabs[u].status /\ tabs'[u].shown = tabs[u].shown
                     /\ tabs'[u].bridge = tabs[u].bridge
  BY <1>1 DEF AnswerDoes, AnswerEnds, AnswerRetries, SessionLost, TabRecords
<1>6. PICK step \in {"sending", "reading"} :
          Drops(c) \/ Turns(c, [c EXCEPT !.tries = 2, !.account = cookie, !.step = step])
  BY DEF AnswerDoes, AnswerEnds, AnswerRetries
<1> PICK x : x = [c EXCEPT !.tries = 2, !.account = cookie, !.step = step]  OBVIOUS
<1>7. x.for = "act" /\ x.tab = c.tab /\ x.step \in {"sending", "reading"} /\ x.account = cookie
  BY <1>1, <1>3 DEF CallTyped, CallRecords
<1>8. Drops(c) \/ Turns(c, x)  BY <1>6
<1>9. privy # None => QuietCall(x)  BY <1>7 DEF QuietCall
<1>10. Quiet'  BY <1>4, <1>7, <1>8, QuietKept
<1>11. \A u \in Tab, for \in {"refresh", "finish"} : Has(u, for) => Has(u, for)'
  BY <1>3, <1>7, <1>8, HasKept
<1>12. \A d \in Calls' : d \in Calls \/ d = x  BY <1>8 DEF Turns, Drops
<1>13. QuietAgree'  BY <1>1, <1>2, <1>4, <1>5, <1>7, <1>9, <1>11, <1>12, LooksAgree
<1>14. QED  BY <1>10, <1>13, QuietAgrees, PTL

LEMMA ActPressedAgrees ==
    ASSUME IdentityTypes, Agree, NEW t \in Tab, ActPressed(t), ~Overlapping(Calls)'
    PROVE  Agree'
<1>1. PICK step \in {"sending", "reading"} : Adds(Call(t, "act", step, cookie))  BY ActPressedTyped
<1> PICK x : x = Call(t, "act", step, cookie)  OBVIOUS
<1>2. x.tab = t /\ x.for = "act" /\ x.step \in {"sending", "reading"} /\ x.account = cookie  BY DEF Call
<1>3. Calls' = Calls \cup {x}  BY <1>1 DEF Adds
<1>4. Quiet /\ Quiet'  BY <1>2, <1>3, ActPressedTyped, QuietBefore
<1>5. QuietAgree  BY <1>4, QuietAgrees
<1>6. UNCHANGED <<cookie, privy, tabs, news>>  BY DEF ActPressed, sharedVars
<1>7. privy # None => QuietCall(x)  BY <1>2 DEF QuietCall
<1>8. \A u \in Tab, for \in {"refresh", "finish"} : Has(u, for) => Has(u, for)'  BY <1>3 DEF Has
<1>9. QuietAgree'  BY <1>2, <1>3, <1>5, <1>6, <1>7, <1>8, LooksAgree
<1>10. QED  BY <1>4, <1>9, QuietAgrees, PTL

LEMMA EndAgrees ==
    ASSUME IdentityTypes, IdentityTypes', Agree, NEW c \in Calls, EndDoes(c),
           \/ c.step = "deleting" /\ cookie' = None /\ privy' = privy
           \/ c.step = "leaving" /\ cookie' = cookie /\ privy' = None
    PROVE  Agree'
<1>1. c.tab \in Tab /\ CallTyped(c) /\ c.for = "end" /\ tabs \in [Tab -> TabRecords]
  BY DEF IdentityTypes, TabsTyped, CallsTyped, CallTyped, CallRecords
<1>2. \A d \in Calls : d.for = "end" /\ d.step \in {"deleting", "leaving"}
  <2>1. \A d \in Calls : d.for = "end"  BY <1>1 DEF Agree, Overlapping
  <2>2. QED  BY <2>1 DEF IdentityTypes, CallsTyped, CallTyped
<1>3. Calls' \subseteq Calls /\ Calls \ {c} \subseteq Calls'  BY DEF EndDoes, Drops
<1>4. ~Overlapping(Calls)' /\ ReadsAgree'  BY <1>2, <1>3 DEF Overlapping, ReadsAgree
<1>5. \A u \in Tab : u # c.tab => tabs'[u] = tabs[u]  BY <1>1 DEF EndDoes, EndShows
<1>6. \/ /\ tabs[c.tab].status = "busy" /\ \A d \in Calls' : ~(d.tab = c.tab /\ d.for = "end")
         /\ tabs'[c.tab].status = "out" /\ tabs'[c.tab].shown = None
         /\ tabs'[c.tab].bridge = tabs[c.tab].bridge
      \/ /\ tabs[c.tab].status = "busy" => Has(c.tab, "end")'
         /\ UNCHANGED <<tabs, news>>
  BY <1>1 DEF EndDoes, EndShows, Out, TabRecords, Has
<1>7. BusyWaits'
  <2>1. ASSUME NEW u \in Tab, tabs'[u].status = "busy"  PROVE Has(u, "end")'
    <3>1. CASE u = c.tab  BY <1>6, <2>1, <3>1
    <3>2. CASE u # c.tab
      <4>1. Has(u, "end")  BY <1>2, <1>5, <2>1, <3>2 DEF Agree, BusyWaits, Has
      <4>2. QED  BY <1>3, <3>2, <4>1 DEF Has
    <3>3. QED  BY <3>1, <3>2
  <2>2. QED  BY <2>1 DEF BusyWaits
<1>8. c.step = "leaving" => cookie = None \/ Pending("deleting")'
  BY <1>3 DEF Agree, LeavingAgrees, Pending
<1>9. LeavingAgrees'
  <2>1. CASE c.step = "leaving"  BY <1>8, <2>1 DEF LeavingAgrees
  <2>2. CASE c.step = "deleting"  BY <2>2 DEF LeavingAgrees
  <2>3. QED  BY <2>1, <2>2
<1>10. ASSUME privy' # None  PROVE SignedInAgree'
  <2>1. privy' = privy /\ cookie' = None /\ c.step = "deleting" /\ SignedInAgree  BY <1>10 DEF Agree
  <2>2. Pending("leaving")' /\ \A u \in Tab : Open(u) => tabs[u].bridge = privy
    BY <1>1, <1>3, <2>1 DEF SignedInAgree, Pending
  <2>3. UNCHANGED <<tabs, news>>
    <3>1. ASSUME tabs[c.tab].status = "busy"
          PROVE  \E d \in Calls' : d.tab = c.tab /\ d.for = "end"
      <4>1. Open(c.tab)  BY <3>1 DEF Open
      <4>2. PICK d \in Calls : d.tab = c.tab /\ d.step = "leaving"
        BY <1>1, <2>1, <3>1, <4>1 DEF SignedInAgree
      <4>3. QED  BY <1>2, <1>3, <2>1, <4>2
    <3>2. QED  BY <1>6, <3>1
  <2>4. \A d \in Calls' : d.for = "end" /\ d.step \notin {"reading", "proving", "posting"}  BY <1>2, <1>3
  <2>5. ASSUME NEW u \in Tab, Open(u)'
        PROVE  /\ tabs'[u].bridge = privy'
               /\ tabs'[u].status = "busy" => \E d \in Calls' : d.tab = u /\ d.step = "leaving"
    BY <1>3, <2>1, <2>2, <2>3, <2>5 DEF SignedInAgree, Open
  <2>6. QED  BY <2>1, <2>2, <2>4, <2>5 DEF SignedInAgree
<1>11. ASSUME privy' = None  PROVE SignedOutAgree'
  <2>1. \A d \in Calls' : d.step # "posting"  BY <1>2, <1>3
  <2>2. cookie' = None \/ Pending("deleting")'  BY <1>8
  <2>3. ASSUME NEW u \in Tab, Open(u)'
        PROVE  tabs'[u].shown = None \/ tabs'[u].bridge # None \/ (tabs'[u].status = "busy" /\ Has(u, "end")')
    <3>1. CASE privy # None
      <4>1. SignedInAgree  BY <3>1 DEF Agree
      <4>2. Open(u) => tabs[u].bridge = privy  BY <1>1, <4>1 DEF SignedInAgree
      <4>3. QED  BY <1>5, <1>6, <2>3, <3>1, <4>2 DEF Open
    <3>2. CASE privy = None
      <4>1. Open(u) => tabs[u].shown = None \/ tabs[u].bridge # None \/ (tabs[u].status = "busy" /\ Has(u, "end"))
        BY <3>2 DEF Agree, SignedOutAgree
      <4>2. u # c.tab /\ Has(u, "end") => Has(u, "end")'  BY <1>3 DEF Has
      <4>3. QED  BY <1>5, <1>6, <2>3, <4>1, <4>2 DEF Open
    <3>3. QED  BY <3>1, <3>2
  <2>4. QED  BY <2>1, <2>2, <2>3 DEF SignedOutAgree
<1>12. QED  BY <1>4, <1>7, <1>9, <1>10, <1>11 DEF Agree

LEMMA PrivyNoticedAgrees ==
    ASSUME IdentityTypes, Agree, NEW t \in Tab, PrivyNoticed(t), ~Unheard(t), ~Overlapping(Calls)'
    PROVE  Agree'
<1> PICK x : x = Call(t, "end", "deleting", None)  OBVIOUS
<1>1. x.tab = t /\ x.for = "end" /\ x.step = "deleting"  BY DEF Call
<1>2. /\ UNCHANGED <<cookie, privy>> /\ tabs'[t].bridge = privy
      /\ \A u \in Tab : u # t => tabs'[u] = tabs[u]
      /\ IdentityTypes' /\ Open(t) /\ TabSound(tabs[t]) /\ TabSound(tabs'[t])
  BY PrivyNoticedTyped DEF PrivyNoticed, sharedVars, Open, IdentityTypes, TabsTyped
<1>3. \/ /\ privy = None /\ Adds(x) /\ tabs'[t].status = "out"
      \/ /\ ~(privy = None /\ tabs[t].status = "in") /\ UNCHANGED <<calls, news>>
         /\ tabs'[t].status = tabs[t].status /\ tabs'[t].shown = tabs[t].shown
  BY PrivyNoticedTyped
<1>4. CASE privy = None /\ Adds(x) /\ tabs'[t].status = "out"
  <2>1. Calls' = Calls \cup {x} /\ Pending("deleting")'  BY <1>1, <1>4 DEF Adds, Pending
  <2>2. \A u \in Tab, for \in {"refresh", "finish", "end"} : Has(u, for) => Has(u, for)'  BY <2>1 DEF Has
  <2>3. BusyWaits'  BY <1>2, <1>4, <2>2 DEF Agree, BusyWaits
  <2>4. ReadsAgree'  BY <1>1, <1>2, <2>1 DEF Agree, ReadsAgree
  <2>5. LeavingAgrees'  BY <2>1 DEF LeavingAgrees
  <2>6. SignedOutAgree  BY <1>4 DEF Agree
  <2>7. tabs'[t].shown = None  BY <1>2, <1>4 DEF TabSound
  <2>8. SignedOutAgree'  BY <1>1, <1>2, <2>1, <2>2, <2>6, <2>7 DEF SignedOutAgree, Open
  <2>9. QED  BY <1>2, <1>4, <2>3, <2>4, <2>5, <2>8 DEF Agree
<1>5. CASE /\ ~(privy = None /\ tabs[t].status = "in") /\ UNCHANGED <<calls, news>>
           /\ tabs'[t].status = tabs[t].status /\ tabs'[t].shown = tabs[t].shown
  <2>1. Calls' = Calls  BY <1>5 DEF Calls, BagToSet
  <2>2. \A u \in Tab, for \in {"refresh", "finish", "end"} : Has(u, for)' <=> Has(u, for)  BY <2>1 DEF Has
  <2>3. \A step \in {"leaving", "deleting"} : Pending(step)' <=> Pending(step)  BY <2>1 DEF Pending
  <2>4. BusyWaits'  BY <1>2, <1>5, <2>2 DEF Agree, BusyWaits
  <2>5. ReadsAgree' /\ LeavingAgrees'  BY <1>2, <2>1, <2>3 DEF Agree, ReadsAgree, LeavingAgrees
  <2>6. ASSUME privy # None  PROVE SignedInAgree'
    <3>1. SignedInAgree  BY <2>6 DEF Agree
    <3>2. \A c \in Calls : c.tab \in Tab  BY DEF IdentityTypes, CallsTyped, CallTyped, CallRecords
    <3>3. \A c \in Calls' :
            /\ c.step \in {"proving", "posting"} => c.account = privy'
            /\ c.for = "refresh" /\ c.step = "reading" =>
                  c.account = privy' \/ tabs'[c.tab].bridge \in {Loading, privy'}
            /\ c.for = "end" => Pending("leaving")' /\ \A u \in Tab : Open(u)' => tabs'[u].bridge = privy'
      BY <1>2, <1>5, <2>1, <2>3, <3>1, <3>2 DEF SignedInAgree, Open
    <3>4. \A u \in Tab : Open(u)' =>
            /\ tabs'[u].bridge \in {None, Loading, privy'}
            /\ \/ tabs'[u].shown = privy' \/ Has(u, "refresh")' \/ u \in news'
               \/ Pending("leaving")' \/ \E v \in Tab : Has(v, "finish")'
            /\ tabs'[u].status = "busy" => \E c \in Calls' : c.tab = u /\ c.step = "leaving"
            /\ u \in news' => cookie' = privy' \/ tabs'[u].bridge \in {Loading, privy'}
      BY <1>2, <1>5, <2>1, <2>2, <2>3, <3>1 DEF SignedInAgree, Open
    <3>5. QED  BY <1>2, <3>1, <3>3, <3>4 DEF SignedInAgree
  <2>7. ASSUME privy = None  PROVE SignedOutAgree'
    <3>1. SignedOutAgree  BY <2>7 DEF Agree
    <3>2. ~Has(t, "refresh") /\ ~Has(t, "finish")  BY <2>7 DEF Unheard, Has
    <3>3. ~Leftover  BY <1>2, <1>5, <2>7, <3>2 DEF Leftover
    <3>4. tabs'[t].shown = None \/ (tabs'[t].status = "busy" /\ Has(t, "end")')
      <4>1. tabs[t].status = "busy" => Has(t, "end")  BY <3>2 DEF Agree, BusyWaits
      <4>2. tabs[t].status # "busy" => tabs[t].shown = None
        BY <1>2, <1>5, <2>7 DEF TabSound, TabRecords, Open
      <4>3. QED  BY <1>5, <2>2, <4>1, <4>2
    <3>5. \A u \in Tab : Open(u)' =>
            tabs'[u].shown = None \/ tabs'[u].bridge # None \/ (tabs'[u].status = "busy" /\ Has(u, "end")')
      BY <1>2, <2>2, <3>1, <3>4 DEF SignedOutAgree, Open
    <3>6. QED  BY <1>2, <2>1, <2>3, <3>1, <3>3, <3>5 DEF SignedOutAgree
  <2>8. QED  BY <1>2, <2>4, <2>5, <2>6, <2>7 DEF Agree
<1>6. QED  BY <1>3, <1>4, <1>5

(* At rest, every tab shows who is signed in to X. *)
LEMMA RestAgrees ==
    ASSUME IdentityTypes, Agree, AtRest
    PROVE  /\ Calls = {} /\ news = {}
           /\ \A t \in Tab : tabs[t].status # "busy"
           /\ \A t \in Tab : Open(t) =>
                /\ tabs[t].bridge = privy /\ tabs[t].shown = privy
                /\ cookie \in {None, privy}
           /\ privy # None => cookie \in {None, privy}
<1>1. Calls = {}  BY DEF AtRest, Calls, EmptyBag, SetToBag, BagToSet
<1>2. /\ \A t \in Tab, for \in {"refresh", "finish", "end"} : ~Has(t, for)
      /\ ~Pending("leaving") /\ ~Pending("deleting")
  BY <1>1 DEF Has, Pending
<1>3. \A t \in Tab : tabs[t].status # "busy"  BY <1>2 DEF Agree, BusyWaits
<1>4. news = {} /\ \A t \in Tab : Open(t) => tabs[t].bridge = privy  BY DEF AtRest, Open
<1>5. ASSUME NEW t \in Tab, Open(t)  PROVE tabs[t].shown = privy /\ cookie \in {None, privy}
  <2>1. CASE privy # None
    <3>1. SignedInAgree  BY <2>1 DEF Agree
    <3>2. QED  BY <1>2, <1>4, <1>5, <3>1 DEF SignedInAgree
  <2>2. CASE privy = None
    <3>1. SignedOutAgree  BY <2>2 DEF Agree
    <3>2. QED  BY <1>2, <1>3, <1>4, <1>5, <2>2, <3>1 DEF SignedOutAgree, Leftover
  <2>3. QED  BY <2>1, <2>2
<1>6. privy # None => cookie \in {None, privy}  BY DEF Agree, SignedInAgree
<1>7. QED  BY <1>1, <1>3, <1>4, <1>5, <1>6

LEMMA LapseAgrees ==
    ASSUME IdentityTypes, Agree, AtRest, SessionLapses \/ PrivyEnds
    PROVE  Agree'
<1>1. UNCHANGED <<tabs, news>> /\ Calls' = {}  BY RestAgrees DEF SessionLapses, PrivyEnds, Calls, BagToSet
<1>2. /\ news = {} /\ \A t \in Tab : tabs[t].status # "busy"
      /\ \A t \in Tab : Open(t) => tabs[t].bridge = privy /\ tabs[t].shown = privy
      /\ privy # None => cookie \in {None, privy}
  BY RestAgrees
<1>3. ~Overlapping(Calls)' /\ BusyWaits' /\ ReadsAgree' /\ LeavingAgrees'
  BY <1>1, <1>2 DEF Overlapping, BusyWaits, ReadsAgree, LeavingAgrees, Pending
<1>4. CASE SessionLapses
  <2>1. cookie' = None /\ privy' = privy  BY <1>4 DEF SessionLapses
  <2>2. ASSUME privy # None  PROVE SignedInAgree'
    BY <1>1, <1>2, <2>1, <2>2 DEF SignedInAgree, Open
  <2>3. ASSUME privy = None  PROVE SignedOutAgree'
    BY <1>1, <1>2, <2>1, <2>3 DEF SignedOutAgree, Open
  <2>4. QED  BY <1>3, <2>1, <2>2, <2>3 DEF Agree
<1>5. CASE PrivyEnds
  <2>1. privy' = None /\ privy # None /\ cookie' = cookie  BY <1>5 DEF PrivyEnds
  <2>2. \A t \in Tab : Open(t)' => tabs'[t].bridge # None  BY <1>1, <1>2, <2>1 DEF Open
  <2>3. \A t \in Tab : Open(t)' => tabs'[t].status = "in"
    BY <1>1, <1>2, <2>1 DEF Open, IdentityTypes, TabsTyped, TabSound, TabRecords
  <2>4. Leftover'  BY <1>1, <2>2, <2>3 DEF Leftover
  <2>5. SignedOutAgree'  BY <1>1, <2>2, <2>4 DEF SignedOutAgree
  <2>6. QED  BY <1>3, <2>1, <2>5 DEF Agree
<1>6. QED  BY <1>4, <1>5

LEMMA SignInNotPressed ==
    ASSUME IdentityTypes, Agree, AtRest, NEW t \in Tab
    PROVE  ~SignInPressed(t)
<1> SUFFICES ASSUME SignInPressed(t)  PROVE FALSE
  OBVIOUS
<1>1. tabs[t].status = "out" /\ tabs[t].bridge \in Account  BY DEF SignInPressed
<1>2. tabs[t].bridge = privy /\ tabs[t].shown = privy  BY <1>1, RestAgrees DEF Open
<1>3. tabs[t].shown = None  BY <1>1 DEF IdentityTypes, TabsTyped, TabSound
<1>4. QED  BY <1>1, <1>2, <1>3, IdentityAssumption

LEMMA SignOutPressedAgrees ==
    ASSUME IdentityTypes, Agree, AtRest, NEW t \in Tab, SignOutPressed(t)
    PROVE  Agree'
<1> PICK x, y : x = Call(t, "end", "deleting", None) /\ y = Call(t, "end", "leaving", None)  OBVIOUS
<1>1. /\ x.tab = t /\ x.for = "end" /\ x.step = "deleting"
      /\ y.tab = t /\ y.for = "end" /\ y.step = "leaving"
  BY DEF Call
<1>2. /\ news = {} /\ \A u \in Tab : tabs[u].status # "busy"
      /\ \A u \in Tab : Open(u) => tabs[u].bridge = privy /\ tabs[u].shown = privy
      /\ privy # None => cookie \in {None, privy}
  BY RestAgrees
<1>3. Calls' = {x, y}  BY SignOutPressedTyped, RestAgrees
<1>4. UNCHANGED <<cookie, privy, news>>  BY DEF SignOutPressed, sharedVars
<1>5. Open(t) /\ tabs[t].shown # None  BY DEF SignOutPressed, Open, IdentityTypes, TabsTyped, TabSound
<1>6. privy # None  BY <1>2, <1>5
<1>7. /\ \A u \in Tab : u # t => tabs'[u] = tabs[u]
      /\ tabs'[t].bridge = tabs[t].bridge /\ tabs'[t].shown = tabs[t].shown
  BY DEF SignOutPressed, IdentityTypes, TabsTyped, TabRecords
<1>8. Pending("leaving")' /\ Pending("deleting")' /\ Has(t, "end")'  BY <1>1, <1>3 DEF Pending, Has
<1>9. ~Overlapping(Calls)' /\ ReadsAgree' /\ LeavingAgrees'
  BY <1>1, <1>3, <1>8 DEF Overlapping, ReadsAgree, LeavingAgrees
<1>10. BusyWaits'  BY <1>2, <1>7, <1>8 DEF BusyWaits
<1>11. \A u \in Tab : Open(u)' => tabs'[u].bridge = privy' /\ tabs'[u].shown = privy'
  BY <1>2, <1>4, <1>5, <1>7 DEF Open
<1>12. \A u \in Tab : tabs'[u].status = "busy" => u = t  BY <1>2, <1>7
<1>13. SignedInAgree'  BY <1>1, <1>2, <1>3, <1>4, <1>6, <1>8, <1>11, <1>12 DEF SignedInAgree
<1>14. QED  BY <1>4, <1>6, <1>9, <1>10, <1>13 DEF Agree

LEMMA SignedInWithXAgrees ==
    ASSUME IdentityTypes, Agree, AtRest, NEW t \in Tab, NEW a \in Account, SignedInWithX(t, a)
    PROVE  Agree'
<1> PICK x, y : x = Call(t, "refresh", "reading", cookie) /\ y = Call(t, "finish", "proving", a)  OBVIOUS
<1>1. /\ x.tab = t /\ x.for = "refresh" /\ x.step = "reading" /\ x.account = cookie
      /\ y.tab = t /\ y.for = "finish" /\ y.step = "proving" /\ y.account = a
  BY DEF Call
<1>2. /\ Calls = {} /\ news = {} /\ \A u \in Tab : tabs[u].status # "busy"
      /\ \A u \in Tab : Open(u) => tabs[u].bridge = privy /\ cookie \in {None, privy}
  BY RestAgrees
<1>3. Calls' = {x, y}  BY <1>2, SignedInWithXTyped
<1>4. Open(t) /\ privy = None /\ privy' = a /\ cookie' = cookie /\ news' = {}
  BY <1>2 DEF SignedInWithX, Open
<1>5. cookie' = None /\ privy' # None  BY <1>2, <1>4, IdentityAssumption
<1>6. /\ \A u \in Tab : u # t => tabs'[u] = tabs[u]
      /\ tabs'[t].bridge = Loading /\ tabs'[t].status = "loading"
  BY DEF SignedInWithX, IdentityTypes, TabsTyped, Closed
<1>7. Has(t, "finish")'  BY <1>1, <1>3 DEF Has
<1>8. ~Overlapping(Calls)' /\ ReadsAgree' /\ LeavingAgrees' /\ BusyWaits'
  BY <1>1, <1>2, <1>3, <1>4, <1>5, <1>6 DEF Overlapping, ReadsAgree, LeavingAgrees, Pending, BusyWaits
<1>9. \A u \in Tab : Open(u)' => tabs'[u].bridge \in {None, Loading} /\ tabs'[u].status # "busy"
  BY <1>2, <1>4, <1>6 DEF Open
<1>10. SignedInAgree'  BY <1>1, <1>3, <1>4, <1>5, <1>6, <1>7, <1>9 DEF SignedInAgree
<1>11. QED  BY <1>5, <1>8, <1>10 DEF Agree

-----------------------------------------------------------------------------
(* The steps, and the theorems. *)

LEMMA IdentityStarts ==
    IdentityInit => IdentityTypes /\ OneAct /\ Agree
<1> SUFFICES ASSUME IdentityInit  PROVE IdentityTypes /\ OneAct /\ Agree
  OBVIOUS
<1>1. Calls = {} /\ IsABag(calls)  BY DEF IdentityInit, Calls, EmptyBag, SetToBag, BagToSet, IsABag
<1>2. CallsTyped  BY <1>1 DEF CallsTyped
<1>3. TabsTyped
  BY <1>1, IdentityAssumption DEF IdentityInit, TabsTyped, TabSound, TabRecords, Closed, Names
<1>4. SharedTyped  BY DEF IdentityInit, SharedTyped, ActRecords, NoAct, Names
<1>5. OneAct  BY <1>1 DEF OneAct
<1>6. \A t \in Tab : ~Open(t) /\ tabs[t].status # "busy"  BY DEF IdentityInit, Open, Closed
<1>7. ~Overlapping(Calls) /\ BusyWaits /\ ReadsAgree /\ LeavingAgrees
  BY <1>1, <1>6 DEF Overlapping, BusyWaits, ReadsAgree, LeavingAgrees, Pending
<1>8. privy = None => SignedOutAgree  BY <1>1, <1>6 DEF IdentityInit, SignedOutAgree
<1>9. privy # None => SignedInAgree  BY <1>1, <1>6 DEF IdentityInit, SignedInAgree
<1>10. QED  BY <1>2, <1>3, <1>4, <1>5, <1>7, <1>8, <1>9 DEF IdentityTypes, Agree

IdentityInv == crossed \in BOOLEAN /\ IdentityTypes /\ OneAct /\ (~crossed => Agree)

LEMMA ChangesStep ==
    ASSUME IdentityTypes, OneAct, Changes
    PROVE  /\ IdentityTypes' /\ OneAct' /\ Served
           /\ AtRest /\ Agree => Agree'
<1>1. CASE SessionLapses \/ PrivyEnds  BY <1>1, LapseTyped, LapseServes, LapseAgrees
<1>2. ASSUME NEW t \in Tab, SignInPressed(t)
      PROVE  /\ IdentityTypes' /\ OneAct' /\ Served
             /\ AtRest /\ Agree => Agree'
  BY <1>2, SignInPressedTyped, SignInPressedServes, SignInNotPressed
<1>3. ASSUME NEW t \in Tab, SignOutPressed(t)
      PROVE  /\ IdentityTypes' /\ OneAct' /\ Served
             /\ AtRest /\ Agree => Agree'
  BY <1>3, SignOutPressedTyped, SignOutPressedServes, SignOutPressedAgrees
<1>4. ASSUME NEW t \in Tab, NEW a \in Account, SignedInWithX(t, a)
      PROVE  /\ IdentityTypes' /\ OneAct' /\ Served
             /\ AtRest /\ Agree => Agree'
  BY <1>4, SignedInWithXTyped, SignedInWithXServes, SignedInWithXAgrees
<1>5. QED  BY <1>1, <1>2, <1>3, <1>4 DEF Changes

LEMMA MovesStep ==
    ASSUME IdentityTypes, OneAct, Moves
    PROVE  /\ IdentityTypes' /\ OneAct' /\ Served
           /\ Agree /\ ~Overlapping(Calls)' => Agree'
<1> DEFINE Goal == /\ IdentityTypes' /\ OneAct' /\ Served
                   /\ Agree /\ ~Overlapping(Calls)' => Agree'
<1>1. ASSUME NEW t \in Tab, Opened(t)  PROVE Goal
  BY <1>1, OpenedTyped, OpenedServes, OpenedAgrees
<1>2. ASSUME NEW t \in Tab, Follows(t)  PROVE Goal
  BY <1>2, FollowsTyped, FollowsServes, FollowsAgrees
<1>3. ASSUME NEW t \in Tab, ActPressed(t)  PROVE Goal
  BY <1>3, ActPressedTyped, ActPressedServes, ActPressedAgrees
<1>4. ASSUME NEW c \in Calls, ReadArrives(c)  PROVE Goal
  <2>1. ReadDoes(c)  BY <1>4, ReadDoesSo
  <2>2. QED  BY <2>1, ReadTyped, ReadServes, ReadAgrees
<1>5. ASSUME NEW c \in Calls, ProofTaken(c)  PROVE Goal
  <2>1. ProofDoes(c)  BY <1>5, ProofDoesSo
  <2>2. QED  BY <2>1, ProofTyped, ProofServes, ProofAgrees
<1>6. ASSUME NEW c \in Calls, PostArrives(c)  PROVE Goal
  <2>1. PostDoes(c)  BY <1>6, PostDoesSo
  <2>2. QED  BY <2>1, PostTyped, PostServes, PostAgrees
<1>7. ASSUME NEW c \in Calls, ActAnswered(c)  PROVE Goal
  <2>1. AnswerDoes(c)  BY <1>7, AnswerDoesSo
  <2>2. QED  BY <2>1, AnswerTyped, AnswerServes, AnswerAgrees
<1>8. ASSUME NEW c \in Calls, SessionEnds(c) \/ PrivyLoggedOut(c)  PROVE Goal
  <2>1. EndDoes(c)  BY <1>8, EndDoesSo
  <2>2. c.for = "end"  BY <1>8 DEF SessionEnds, PrivyLoggedOut, IdentityTypes, CallsTyped, CallTyped
  <2>3. \/ c.step = "deleting" /\ cookie' = None /\ privy' = privy
        \/ c.step = "leaving" /\ cookie' = cookie /\ privy' = None
    BY <1>8 DEF SessionEnds, PrivyLoggedOut
  <2>4. cookie' \in Names /\ privy' \in Names  BY <2>3 DEF IdentityTypes, SharedTyped, Names
  <2>5. IdentityTypes'  BY <2>1, <2>4, EndTyped
  <2>6. QED  BY <2>1, <2>2, <2>3, <2>5, EndServes, EndAgrees
<1>9. QED  BY <1>1, <1>2, <1>3, <1>4, <1>5, <1>6, <1>7, <1>8 DEF Moves

LEMMA IdentityStep ==
    IdentityInv /\ [IdentityNext]_identityVars => IdentityInv' /\ [Served]_identityVars
<1> SUFFICES ASSUME IdentityInv, [IdentityNext]_identityVars
             PROVE  IdentityInv' /\ [Served]_identityVars
  OBVIOUS
<1>1. crossed \in BOOLEAN /\ IdentityTypes /\ OneAct /\ (~crossed => Agree)  BY DEF IdentityInv
<1>2. CASE Changes /\ crossed' = (crossed \/ ~AtRest \/ Overlapping(Calls'))
  <2>1. crossed' \in BOOLEAN /\ (~crossed' => ~crossed /\ AtRest)  BY <1>1, <1>2, Zenon
  <2>2. QED  BY <1>1, <1>2, <2>1, ChangesStep DEF IdentityInv
<1>3. CASE Moves /\ crossed' = (crossed \/ Overlapping(Calls'))
  <2>1. crossed' \in BOOLEAN /\ (~crossed' => ~crossed /\ ~Overlapping(Calls)')
    BY <1>1, <1>3, Zenon DEF Overlapping
  <2>2. QED  BY <1>1, <1>3, <2>1, MovesStep DEF IdentityInv
<1>4. ASSUME NEW t \in Tab, PrivyNoticed(t), crossed' = (crossed \/ Unheard(t) \/ Overlapping(Calls'))
      PROVE  IdentityInv' /\ Served
  <2>1. crossed' \in BOOLEAN /\ (~crossed' => ~crossed /\ ~Unheard(t) /\ ~Overlapping(Calls)')
    BY <1>1, <1>4, Zenon DEF Overlapping
  <2>2. QED
    BY <1>1, <1>4, <2>1, PrivyNoticedTyped, PrivyNoticedServes, PrivyNoticedAgrees DEF IdentityInv
<1>5. CASE UNCHANGED identityVars
  <2>1. UNCHANGED <<cookie, privy, tabs, acts, calls, news, crossed>>  BY <1>5 DEF identityVars, sharedVars
  <2>2. Calls' = Calls  BY <2>1 DEF Calls, BagToSet
  <2>3. SharedTyped' /\ CallsTyped' /\ TabsTyped'
    BY <1>1, <2>1, <2>2 DEF IdentityTypes, SharedTyped, CallsTyped, TabsTyped, Open
  <2>4. OneAct'  BY <1>1, <2>1, <2>2 DEF OneAct, CalmCall
  <2>5. Agree => Agree'
    BY <2>1, <2>2 DEF Agree, BusyWaits, ReadsAgree, LeavingAgrees, SignedInAgree, SignedOutAgree, Leftover,
                      Has, Pending, Open, Overlapping
  <2>6. QED  BY <1>1, <1>5, <2>1, <2>3, <2>4, <2>5 DEF IdentityInv, IdentityTypes
<1>6. QED  BY <1>2, <1>3, <1>4, <1>5 DEF IdentityNext

(* An act is refused only if X or the session was signed out, or changed hands, while it was under
   way, for any tabs and accounts and any number of calls: as long as neither happens, X and the tab
   stay the acting wallet's, and each answer leaves the act with a session or with a proof of that
   wallet (postAsWallet, renew, sessionFromX). *)
THEOREM ActsServed == IdentitySpec => ActsAreServed
<1>1. IdentityInit => IdentityInv  BY IdentityStarts DEF IdentityInv, IdentityInit
<1>2. QED  BY <1>1, IdentityStep, PTL DEF IdentitySpec, ActsAreServed, Served

(* The tabs follow sign-ins and sign-outs, for any tabs and accounts and any number of calls: when
   everything has been heard and nothing overlapped, every tab shows the account signed in to X, and
   the session is that account's or has lapsed (use-wallet.ts refresh, finishSignIn, signOut). *)
THEOREM TabsInAgreement == IdentitySpec => []TabsAgree
<1>1. IdentityInit => IdentityInv  BY IdentityStarts DEF IdentityInv, IdentityInit
<1>2. IdentityInv => TabsAgree  BY RestAgrees DEF IdentityInv, TabsAgree, Open
<1>3. QED  BY <1>1, <1>2, IdentityStep, PTL DEF IdentitySpec
=============================================================================
