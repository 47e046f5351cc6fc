------------------------------- MODULE Hosting -------------------------------
(***************************************************************************)
(* A host creates a market on Panta, pays for it, and opens a pit on it:   *)
(* the host's page (app/ArenasDirectory.tsx, lib/panta-client.ts,          *)
(* lib/round-client.ts), the server's drafts in memory and in the database *)
(* (lib/panta-market.ts and the market routes), Panta and the chain.       *)
(*                                                                         *)
(* The page may be reloaded, the server restarted, a database write may    *)
(* fail, any answer may be lost, the chain's to a broadcast included, and  *)
(* a transaction may land late, fail, or never end.  Drafts are numbered   *)
(* in the order they are quoted; a signature is the index of its           *)
(* transaction.  A market has its draft's number.                          *)
(***************************************************************************)
EXTENDS Integers, Sequences, FiniteSets

CONSTANTS
    MaxDrafts, MaxTxs, MaxPits, MaxReloads, MaxRestarts, MaxBadWrites  \* bounds

ASSUME HostingAssumption ==
    {MaxDrafts, MaxTxs, MaxPits, MaxReloads, MaxRestarts, MaxBadWrites} \subseteq Nat

VARIABLES
    sessions,  \* sessions[d]: Panta's creation session: none, open, expired, listed
    cache,     \* cache[d]: the draft in the server's memory: none, quoted, registered
    rows,      \* rows[d]: its row in the database, likewise
    handlers,  \* register requests under way on the server
    txs,       \* creation payments sent; known: its signature was saved, and not lost since
    pits,      \* pits opened by this host; heard: the page has the signature of its
               \* deposit, which has not failed; closing: the cancel route has read its vault,
               \* without a deposit in it
    page,      \* where the page is, and its quote
    disk,      \* the browser's storage: the saved market and the sent signatures
    faults     \* how often each fault happened

serverVars == <<cache, rows, handlers>>
hostingVars == <<sessions, serverVars, txs, pits, page, disk, faults>>

NoDraft == 0
NoSig == 0
Draft == 1..MaxDrafts
Blank == [at |-> "idle", quote |-> NoDraft, created |-> FALSE, sig |-> NoSig, pit |-> 0]

HostingInit ==
    /\ sessions = [d \in Draft |-> "none"]
    /\ cache = sessions /\ rows = sessions
    /\ handlers = {}
    /\ txs = <<>> /\ pits = <<>>
    /\ page = Blank
    /\ disk = [quote |-> NoDraft, created |-> FALSE, sigs |-> [d \in Draft |-> NoSig]]
    /\ faults = [reloads |-> 0, restarts |-> 0, writes |-> 0]

(* pendingMarketSignature *)
Pending(d) == d # NoDraft /\ disk.sigs[d] # NoSig

Quoting ==
    /\ ~Pending(page.quote)
    /\ page.quote # NoDraft => ~page.created /\ sessions[page.quote] = "expired"

To(at) == [page EXCEPT !.at = at]
Idle == [page EXCEPT !.at = "idle", !.sig = NoSig, !.pit = 0]  \* what is on screen stays
Requoted == [Idle EXCEPT !.quote = NoDraft, !.created = FALSE]
ClearHostMarket(s) == [s EXCEPT !.quote = NoDraft, !.created = FALSE]
SaveHostMarket(s, d, created) == [s EXCEPT !.quote = d, !.created = created]
Remember(s, d, sig) == [s EXCEPT !.sigs[d] = sig]
Forget(s, d) == Remember(s, d, NoSig)

(* A definition named Faulty... is a deliberately wrong variant of the one below it, as in
   module Escrow. *)

-----------------------------------------------------------------------------
(* Drafts on the server. *)

(* getDraft: memory first, then the row, which it keeps in memory. *)
GetDraft(d) == IF cache[d] # "none" THEN cache[d] ELSE rows[d]
Cached(d) == [cache EXCEPT ![d] = GetDraft(d)]

(* saveDraft and markDraftRegistered change the memory first, and do not take it back when
   the write fails. *)
Persist(d, value, ok) ==
    /\ cache' = [cache EXCEPT ![d] = value]
    /\ \/ ok /\ rows' = [rows EXCEPT ![d] = value] /\ UNCHANGED faults
       \/ /\ ~ok /\ faults.writes < MaxBadWrites
          /\ faults' = [faults EXCEPT !.writes = @ + 1]
          /\ UNCHANGED rows

-----------------------------------------------------------------------------
(* Quote: the first press, which stops for the host to see the fee. *)

Quote(ok, answered) ==
    LET d == 1 + Cardinality({x \in Draft : sessions[x] # "none"}) IN
    /\ page.at = "idle" /\ Quoting
    /\ d \in Draft
    /\ sessions' = [sessions EXCEPT ![d] = "open"]
    /\ Persist(d, "quoted", ok)
    /\ IF ok /\ answered
       THEN /\ page' = [page EXCEPT !.quote = d, !.created = FALSE]
            /\ disk' = SaveHostMarket(disk, d, FALSE)
       ELSE UNCHANGED <<page, disk>>
    /\ UNCHANGED <<handlers, txs, pits>>

(* An edit drops the quote, until it is paid for: then the form is locked. *)
Edit ==
    /\ page.at = "idle" /\ page.quote # NoDraft
    /\ ~page.created /\ ~Pending(page.quote)
    /\ page' = Requoted
    /\ disk' = ClearHostMarket(disk)
    /\ UNCHANGED <<sessions, serverVars, txs, pits, faults>>

Spend(d) == [t \in DOMAIN txs |-> IF txs[t].draft = d THEN [txs[t] EXCEPT !.spent = TRUE] ELSE txs[t]]

(* "Write a different market": the host gives up a created one. *)
StartOver ==
    /\ page.at = "idle" /\ page.created
    /\ page' = Requoted
    /\ disk' = ClearHostMarket(disk)
    /\ txs' = Spend(page.quote)
    /\ UNCHANGED <<sessions, serverVars, pits, faults>>

-----------------------------------------------------------------------------
(* finishMarket: build, sign, wait, register. *)

(* The page posts the signature to the register route and waits. *)
Register(d, sig) == handlers' = handlers \cup {[draft |-> d, sig |-> sig, stage |-> "asked", mine |-> TRUE]}

PressCreate ==
    /\ page.at = "idle" /\ page.quote # NoDraft
    /\ ~page.created /\ ~Quoting
    /\ IF Pending(page.quote)
       THEN /\ page' = [To("registering") EXCEPT !.sig = disk.sigs[page.quote]]
            /\ Register(page.quote, disk.sigs[page.quote])
            /\ UNCHANGED disk
       ELSE /\ page' = To("building")
            /\ disk' = SaveHostMarket(disk, page.quote, FALSE)
            /\ UNCHANGED handlers
    /\ UNCHANGED <<sessions, cache, rows, txs, pits, faults>>

(* The build route; any other failure of it, or of the page's request, is BuildFails. *)
BuildAnswers ==
    LET d == page.quote IN
    /\ page.at = "building"
    /\ cache' = Cached(d)
    /\ \/ /\ GetDraft(d) # "registered"
          /\ GetDraft(d) = "none" \/ sessions[d] = "expired"
          /\ page' = Requoted
          /\ disk' = ClearHostMarket(disk)
       \/ GetDraft(d) = "registered" /\ page' = Idle /\ UNCHANGED disk
       \/ /\ GetDraft(d) = "quoted" /\ sessions[d] # "expired"
          /\ page' = To("signing") /\ UNCHANGED disk
    /\ UNCHANGED <<sessions, rows, handlers, txs, pits, faults>>

(* ... or the wallet refuses, or the broadcast is answered with an error; the last may
   happen to a transaction that is on its way, and then nothing is remembered of it. *)
BuildFails ==
    /\ page.at \in {"building", "signing", "sending"}
    /\ page' = Idle
    /\ UNCHANGED <<sessions, serverVars, txs, pits, disk, faults>>

(* The signed bytes reach the chain; the page waits for the answer. *)
SendPayment ==
    /\ page.at = "signing" /\ Len(txs) < MaxTxs
    /\ txs' = Append(txs, [draft |-> page.quote, status |-> "sent", spent |-> FALSE, known |-> FALSE])
    /\ page' = [To("sending") EXCEPT !.sig = Len(txs) + 1]
    /\ UNCHANGED <<sessions, serverVars, pits, disk, faults>>

(* The answer is there, and onBroadcast: remembered before the page waits for the confirmation. *)
SaveSignature ==
    /\ page.at = "sending"
    /\ page' = To("confirming")
    /\ disk' = Remember(disk, page.quote, page.sig)
    /\ txs' = [txs EXCEPT ![page.sig].known = TRUE]
    /\ UNCHANGED <<sessions, serverVars, pits, faults>>

FaultyConfirmed(status) ==  \* a confirmed payment is taken for a registered market
    IF status = "landed" THEN page' = To("recording") /\ UNCHANGED handlers
    ELSE page' = To("registering") /\ Register(page.quote, page.sig)

Confirmed(status) == page' = To("registering") /\ Register(page.quote, page.sig)

(* pollConfirmation: it saw the failure, or it saw it land or gave up waiting. *)
ConfirmPayment ==
    LET status == txs[page.sig].status IN
    /\ page.at = "confirming"
    /\ \/ /\ status = "failed"
          /\ page' = Idle
          /\ disk' = Forget(disk, page.quote)
          /\ UNCHANGED handlers
       \/ Confirmed(status) /\ UNCHANGED disk
    /\ UNCHANGED <<sessions, cache, rows, txs, pits, faults>>

FaultyKept(answer) == FALSE  \* forgets the signature whatever the answer

(* Answers after which the page keeps the signature and offers to register again. *)
Kept(answer) == answer \in {"TX_NOT_FOUND", "CREATE_EXPIRED", "error"}

(* What the page makes of the answer; the retries after TX_NOT_FOUND are left open. *)
Reply(h, answer) ==
    IF ~h.mine THEN handlers' = handlers \ {h} /\ UNCHANGED <<page, disk>>
    ELSE \/ /\ answer = "ok"
            /\ handlers' = handlers \ {h}
            /\ page' = To("recording")
            /\ disk' = Forget(disk, h.draft)
         \/ /\ answer = "TX_NOT_FOUND"
            /\ UNCHANGED <<handlers, page, disk>>
         \/ /\ answer # "ok" /\ Kept(answer)
            /\ handlers' = handlers \ {h}
            /\ page' = Idle /\ UNCHANGED disk
         \/ /\ answer # "ok" /\ ~Kept(answer)
            /\ handlers' = handlers \ {h}
            /\ page' = Requoted
            /\ disk' = ClearHostMarket(Forget(disk, h.draft))

(* The register route up to Panta's answer. *)
ServerAsks(h) ==
    LET d == h.draft
        status == txs[h.sig].status
    IN
    /\ h \in handlers /\ h.stage = "asked"
    /\ cache' = Cached(d)
    /\ \/ GetDraft(d) = "none" /\ Reply(h, "error") /\ UNCHANGED sessions
       \/ GetDraft(d) = "registered" /\ Reply(h, "ok") /\ UNCHANGED sessions
       \/ /\ GetDraft(d) = "quoted"
          /\ \/ /\ status = "landed" /\ sessions[d] # "expired"
                /\ sessions' = [sessions EXCEPT ![d] = "listed"]
                /\ handlers' = (handlers \ {h}) \cup {[h EXCEPT !.stage = "listed"]}
                /\ UNCHANGED <<page, disk>>
             \/ /\ UNCHANGED sessions
                /\ \/ status # "failed" /\ Reply(h, "TX_NOT_FOUND")
                   \/ status = "failed" /\ Reply(h, "TX_FAILED")
                   \/ sessions[d] = "expired" /\ Reply(h, "CREATE_EXPIRED")
                   \/ Reply(h, "error")
    /\ UNCHANGED <<rows, txs, pits, faults>>

(* markDraftRegistered, and the answer. *)
ServerMarks(h, ok) ==
    /\ h \in handlers /\ h.stage = "listed"
    /\ Persist(h.draft, "registered", ok)
    /\ Reply(h, IF ok THEN "ok" ELSE "error")
    /\ UNCHANGED <<sessions, txs, pits>>

(* The page's request fails; a server that has it goes on with it. *)
AnswerLost ==
    /\ page.at \in {"registering", "cancelling"}
    /\ page' = Idle
    /\ handlers' = {[h EXCEPT !.mine = FALSE] : h \in handlers}
    /\ UNCHANGED <<sessions, cache, rows, txs, pits, disk, faults>>

(* finishMarket has forgotten the signature; now the page saves the market as created. *)
RecordCreated ==
    /\ page.at = "recording"
    /\ page' = [To("opening") EXCEPT !.created = TRUE, !.sig = NoSig]
    /\ disk' = SaveHostMarket(disk, page.quote, TRUE)
    /\ UNCHANGED <<sessions, serverVars, txs, pits, faults>>

-----------------------------------------------------------------------------
(* Opening the pit, and the host's own seat. *)

PressOpen ==
    /\ page.at = "idle" /\ page.created
    /\ page' = To("opening")
    /\ UNCHANGED <<sessions, serverVars, txs, pits, disk, faults>>

Hostable(d) == GetDraft(d) = "registered"

(* newRound: the round route checks the draft, and Panta the market. *)
OpenPit(answered) ==
    /\ page.at = "opening"
    /\ cache' = Cached(page.quote)
    /\ Hostable(page.quote)
    /\ Len(pits) < MaxPits
    /\ pits' = Append(pits, [draft |-> page.quote, status |-> "open", deposit |-> "none",
                             heard |-> FALSE, closing |-> FALSE])
    /\ page' = IF answered THEN [To("seating") EXCEPT !.pit = Len(pits) + 1] ELSE Idle
    /\ UNCHANGED <<sessions, rows, handlers, txs, disk, faults>>

(* The draft is unknown or unregistered, Panta has no price yet, or the vault failed. *)
PitRefused ==
    /\ page.at = "opening"
    /\ cache' = Cached(page.quote)
    /\ page' = Idle
    /\ UNCHANGED <<sessions, rows, handlers, txs, pits, disk, faults>>

(* enrollWithEscrow: the first request, then the deposit to sign. *)
BuildDeposit ==
    /\ page.at = "seating"
    /\ page' = To("depositing")
    /\ UNCHANGED <<sessions, serverVars, txs, pits, disk, faults>>

SendDeposit ==
    /\ page.at = "depositing"
    /\ pits' = [pits EXCEPT ![page.pit].deposit = "sent"]
    /\ page' = To("depositSending")
    /\ UNCHANGED <<sessions, serverVars, txs, disk, faults>>

DepositHeard ==
    /\ page.at = "depositSending"
    /\ pits' = [pits EXCEPT ![page.pit].heard = pits[page.pit].deposit # "failed"]
    /\ page' = To("depositConfirming")
    /\ UNCHANGED <<sessions, serverVars, txs, disk, faults>>

(* A request fails or stays pending, the wallet refuses, or the broadcast is answered with
   an error: to the page all of them are a deposit that was not made. *)
SeatFails ==
    /\ page.at \in {"seating", "depositing", "depositSending"}
    /\ page' = To("cancelling")
    /\ UNCHANGED <<sessions, serverVars, txs, pits, disk, faults>>

(* It saw the deposit fail, or saw it land or gave up waiting. *)
ConfirmDeposit ==
    /\ page.at = "depositConfirming"
    /\ \/ pits[page.pit].deposit = "failed" /\ page' = To("cancelling")
       \/ page' = To("finishing")
    /\ UNCHANGED <<sessions, serverVars, txs, pits, disk, faults>>

FaultySeatUnfinished == To("cancelling")  \* the deposit that was sent is forgotten

(* The deposit was sent: the pit stands, and the page goes there. *)
SeatUnfinished == Idle

(* finishSeat: eight tries. *)
FinishSeat ==
    /\ page.at = "finishing"
    /\ \/ /\ pits[page.pit].deposit = "landed" /\ pits[page.pit].status = "open"
          /\ page' = Requoted
          /\ disk' = ClearHostMarket(disk)
          /\ txs' = Spend(page.quote)
       \/ page' = SeatUnfinished /\ UNCHANGED <<disk, txs>>
    /\ UNCHANGED <<sessions, serverVars, pits, faults>>

(* cancelArena: the route reads the vault, and refuses one with a deposit in it, or one it
   cannot read ... *)
CancelPeeks ==
    /\ page.at = "cancelling" /\ ~pits[page.pit].closing
    /\ \/ /\ pits[page.pit].deposit # "landed"
          /\ pits' = [pits EXCEPT ![page.pit].closing = TRUE]
          /\ UNCHANGED page
       \/ page' = Idle /\ UNCHANGED pits
    /\ UNCHANGED <<sessions, serverVars, txs, disk, faults>>

(* ... and then, under the lock, cancels the pit, unless others have joined or it has begun. *)
CancelCommits(i) ==
    /\ i \in DOMAIN pits /\ pits[i].closing
    /\ \E status \in {"open", "cancelled"} :
           pits' = [pits EXCEPT ![i].closing = FALSE, ![i].status = status]
    /\ page' = IF page.at = "cancelling" /\ page.pit = i THEN Idle ELSE page
    /\ UNCHANGED <<sessions, serverVars, txs, disk, faults>>

-----------------------------------------------------------------------------
(* The rest of the world. *)

(* One that is dropped stays "sent": nobody here can tell it from one on its way. *)
Fates == {"landed", "failed"}

PaymentEnds(t, fate) ==
    /\ t \in DOMAIN txs /\ txs[t].status = "sent"
    /\ txs' = [txs EXCEPT ![t].status = fate]
    /\ UNCHANGED <<sessions, serverVars, pits, page, disk, faults>>

DepositEnds(i, fate) ==
    /\ i \in DOMAIN pits /\ pits[i].deposit = "sent"
    /\ pits' = [pits EXCEPT ![i].deposit = fate, ![i].heard = @ /\ fate # "failed"]
    /\ UNCHANGED <<sessions, serverVars, txs, page, disk, faults>>

QuoteExpires(d) ==
    /\ sessions[d] = "open"
    /\ sessions' = [sessions EXCEPT ![d] = "expired"]
    /\ UNCHANGED <<serverVars, txs, pits, page, disk, faults>>

(* The page is reloaded; what was paid for or created comes back from the storage. *)
Restored ==
    IF disk.created \/ Pending(disk.quote)
    THEN [Blank EXCEPT !.quote = disk.quote, !.created = disk.created]
    ELSE Blank

(* The signature of a market just registered is forgotten, and the page dies before it has
   saved the market as created: now nobody knows what was paid for it. *)
Unsaved == [t \in DOMAIN txs |-> IF page.at = "recording" /\ txs[t].draft = page.quote
                                 THEN [txs[t] EXCEPT !.known = FALSE] ELSE txs[t]]

Reload ==
    /\ faults.reloads < MaxReloads
    /\ page # Blank
    /\ faults' = [faults EXCEPT !.reloads = @ + 1]
    /\ page' = Restored
    /\ handlers' = {[h EXCEPT !.mine = FALSE] : h \in handlers}
    /\ txs' = Unsaved
    /\ UNCHANGED <<sessions, cache, rows, pits, disk>>

(* The requests under way on the server fail. *)
Restart ==
    /\ faults.restarts < MaxRestarts
    /\ faults' = [faults EXCEPT !.restarts = @ + 1]
    /\ cache' = [d \in Draft |-> "none"]
    /\ handlers' = {}
    /\ pits' = [i \in DOMAIN pits |-> [pits[i] EXCEPT !.closing = FALSE]]
    /\ page' = IF \/ page.at = "registering"
                  \/ page.at = "cancelling" /\ pits[page.pit].closing
               THEN Idle ELSE page
    /\ UNCHANGED <<sessions, rows, txs, disk>>

-----------------------------------------------------------------------------
HostingNext ==
    \/ \E ok, answered \in BOOLEAN : Quote(ok, answered)
    \/ Edit \/ StartOver \/ PressCreate
    \/ BuildAnswers \/ BuildFails \/ SendPayment \/ SaveSignature \/ ConfirmPayment
    \/ \E h \in handlers : ServerAsks(h) \/ (\E ok \in BOOLEAN : ServerMarks(h, ok))
    \/ AnswerLost \/ RecordCreated
    \/ PressOpen \/ (\E answered \in BOOLEAN : OpenPit(answered)) \/ PitRefused
    \/ BuildDeposit \/ SendDeposit \/ DepositHeard \/ SeatFails \/ ConfirmDeposit
    \/ FinishSeat \/ CancelPeeks \/ (\E i \in DOMAIN pits : CancelCommits(i))
    \/ \E fate \in Fates : \/ \E t \in DOMAIN txs : PaymentEnds(t, fate)
                           \/ \E i \in DOMAIN pits : DepositEnds(i, fate)
    \/ \E d \in Draft : QuoteExpires(d)
    \/ Reload \/ Restart

HostingSpec == HostingInit /\ [][HostingNext]_hostingVars

-----------------------------------------------------------------------------
(* Properties. *)

(* "Creation transaction sent ... No second market fee will be signed"
   (app/ArenasDirectory.tsx:802): once the page has saved the signature of a payment, no other
   payment is sent while that one has landed or may still land, unless the host has used the
   market it paid for or has given it up.  Outside the promise, and unknown here, are a
   payment whose broadcast was never answered with its signature (lib/panta-client.ts:287),
   and one forgotten by a page that died before it saved the market as created
   (lib/panta-client.ts:211): the README's disagreements 7 and 13. *)
NeverPaysTwice ==
    [][Len(txs') > Len(txs) =>
           \A t \in DOMAIN txs : txs[t].known =>
               txs[t].spent \/ txs[t].status = "failed"]_hostingVars

(* A market that the page, or the browser's storage, calls created, and every market a pit
   runs on, is listed by Panta and was paid for by a payment that landed.  Unless writing the
   registration down failed, its creator can "still ... open their pit after a deploy"
   (lib/panta-market.ts:205), whenever the server restarted. *)
CreatedIsPaidAndListed ==
    LET Claimed == {pits[i].draft : i \in DOMAIN pits}
                   \cup (IF page.created THEN {page.quote} ELSE {})
                   \cup (IF disk.created THEN {disk.quote} ELSE {})
    IN \A d \in Claimed :
           /\ sessions[d] = "listed"
           /\ \E t \in DOMAIN txs : txs[t].draft = d /\ txs[t].status = "landed"
           /\ faults.writes = 0 => Hostable(d)

(* "A deposit tx was signed and sent - never cancel the arena after this"
   (lib/round-client.ts:153): no pit is cancelled whose deposit has landed or may still land,
   once the page has its signature.  And "a funded arena must never be torn down from the
   client" (api/round/cancel/route.ts:21): nor one whose deposit has landed before the route
   read the vault, whatever the page knows.  What is left is a deposit whose broadcast was
   answered with an error and that lands after that reading: disagreement 13 of the README. *)
DepositedPitsStand ==
    [][\A i \in DOMAIN pits : pits[i].status = "open" /\ pits'[i].status = "cancelled" =>
           /\ ~pits[i].heard
           /\ pits[i].deposit = "landed" => pits[i].closing]_hostingVars
=============================================================================
