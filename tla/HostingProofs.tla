---------------------------- MODULE HostingProofs ----------------------------
(***************************************************************************)
(* Theorems about module Hosting, for any number of drafts, payments,      *)
(* pits, reloads, restarts and failed writes.                              *)
(***************************************************************************)
EXTENDS Hosting, FiniteSetTheorems, TLAPS

Sessions == {"none", "open", "expired", "listed"}
Drafts == {"none", "quoted", "registered"}
Handlers == [draft : Draft, sig : Nat \ {0}, stage : {"asked", "listed"}, mine : BOOLEAN]
Txs == [draft : Draft, status : {"sent"} \cup Fates, spent : BOOLEAN, known : BOOLEAN]
Pits == [draft : Draft, status : {"open", "cancelled"}, deposit : {"none", "sent"} \cup Fates,
         heard : BOOLEAN, closing : BOOLEAN]
Creating == {"building", "signing", "sending", "confirming", "registering", "recording"}
Seating == {"seating", "depositing", "depositSending", "depositConfirming", "finishing", "cancelling"}
Pages == [at : {"idle", "opening"} \cup Creating \cup Seating, quote : {NoDraft} \cup Draft,
          created : BOOLEAN, sig : Nat, pit : Nat]
Disks == [quote : {NoDraft} \cup Draft, created : BOOLEAN, sigs : [Draft -> Nat]]

ServerTypeOK ==
    /\ sessions \in [Draft -> Sessions]
    /\ cache \in [Draft -> Drafts] /\ rows \in [Draft -> Drafts]
    /\ handlers \in SUBSET Handlers
    /\ faults \in [reloads : Nat, restarts : Nat, writes : Nat]

ClientTypeOK ==
    /\ txs \in Seq(Txs) /\ pits \in Seq(Pits)
    /\ page \in Pages /\ disk \in Disks

(* Drafts are quoted in order. *)
InOrder == \A d, e \in Draft : e < d /\ sessions[d] # "none" => sessions[e] # "none"

Paid(d) == \E t \in DOMAIN txs : txs[t].draft = d /\ txs[t].status = "landed"
PaidAndListed(d) == sessions[d] = "listed" /\ Paid(d)

(* A pit can be opened on d, after a restart too unless a write failed. *)
Hosted(d) == d \in Draft /\ PaidAndListed(d) /\ (faults.writes = 0 => Hostable(d))

(* What the server registers was paid for, a draft it knows has had a session at Panta, and the
   memory and the database agree until a write fails. *)
RegisteredIsPaid ==
    /\ \A d \in Draft : "registered" \in {cache[d], rows[d]} => PaidAndListed(d)
    /\ \A d \in Draft : cache[d] # "none" \/ rows[d] # "none" => sessions[d] # "none"
    /\ faults.writes = 0 => \A d \in Draft : cache[d] \in {"none", rows[d]}

(* A signature in the browser's storage, or in a request, is one of its draft's payments; a
   request the page waits for is about its quote, and there is one at most. *)
SignaturesKnown ==
    \A d \in Draft : disk.sigs[d] # NoSig =>
        disk.sigs[d] \in DOMAIN txs /\ txs[disk.sigs[d]].draft = d

RequestsKnown ==
    /\ \A h \in handlers :
           /\ h.sig \in DOMAIN txs /\ txs[h.sig].draft = h.draft
           /\ h.stage = "listed" => PaidAndListed(h.draft)
           /\ h.mine => page.at = "registering" /\ h.draft = page.quote /\ h.sig = page.sig
    /\ \A g, h \in handlers : g.mine /\ h.mine => g = h

(* What the page knows at each of its stages; its quote is the one in the storage. *)
PageInStep ==
    /\ page.quote # NoDraft => disk.quote = page.quote /\ disk.created = page.created
    /\ page.at \in Creating => page.quote # NoDraft /\ ~page.created
    /\ page.created \/ page.at = "opening" => page.quote # NoDraft
    /\ page.at = "sending" => page.sig \in DOMAIN txs /\ txs[page.sig].draft = page.quote
    /\ page.at \in {"confirming", "registering"} => page.sig # NoSig /\ disk.sigs[page.quote] = page.sig
    /\ page.at = "recording" => Hosted(page.quote)

CreatedIsHosted ==
    /\ \A i \in DOMAIN pits : Hosted(pits[i].draft)
    /\ page.created => Hosted(page.quote)
    /\ disk.created => Hosted(disk.quote)

(* A deposit whose signature the page has did not fail, and the cancel route has not begun
   with its pit; the page cancels a pit only without such a signature. *)
HeardStands == \A i \in DOMAIN pits : pits[i].heard => pits[i].deposit # "failed" /\ ~pits[i].closing

DepositKnown ==
    page.at \in Seating =>
        /\ page.pit \in DOMAIN pits
        /\ page.at \in {"seating", "depositing"} => pits[page.pit].deposit = "none"
        /\ page.at # "cancelling" => ~pits[page.pit].closing
        /\ page.at \notin {"depositConfirming", "finishing"} => ~pits[page.pit].heard

(* A payment whose signature was saved, that has landed or may still land, for a market not
   yet used or given up. *)
Live(t) == txs[t].known /\ ~txs[t].spent /\ txs[t].status \in {"sent", "landed"}

(* The page always remembers it. *)
LiveIsRemembered ==
    \A t \in DOMAIN txs : Live(t) =>
        /\ page.quote = txs[t].draft
        /\ page.at \notin {"building", "signing", "sending"}
        /\ page.at # "recording" => page.created \/ disk.sigs[page.quote] = t

HostingInv ==
    /\ ServerTypeOK /\ ClientTypeOK /\ InOrder
    /\ RegisteredIsPaid /\ SignaturesKnown /\ RequestsKnown
    /\ PageInStep /\ CreatedIsHosted /\ HeardStands /\ DepositKnown

-----------------------------------------------------------------------------
(* The forms a page takes. *)
SameQuote(p) == p.quote = page.quote /\ p.created = page.created

LEMMA PageForms ==
  ASSUME page \in Pages
  PROVE  /\ \A at \in {"idle", "opening"} \cup Creating \cup Seating :
                /\ To(at) \in Pages /\ To(at).at = at /\ SameQuote(To(at))
                /\ To(at).sig = page.sig /\ To(at).pit = page.pit
         /\ Idle \in Pages /\ Idle.at = "idle" /\ SameQuote(Idle)
         /\ Requoted \in Pages /\ Requoted.at = "idle"
         /\ Requoted.quote = NoDraft /\ ~Requoted.created
BY DEF Pages, To, Idle, Requoted, SameQuote, NoSig, NoDraft

LEMMA DiskForms ==
  ASSUME disk \in Disks, NEW d \in Draft, NEW sig \in Nat, NEW created \in BOOLEAN
  PROVE  /\ ClearHostMarket(disk) = [disk EXCEPT !.quote = NoDraft, !.created = FALSE]
         /\ ClearHostMarket(disk) \in Disks
         /\ SaveHostMarket(disk, d, created) \in Disks
         /\ Remember(disk, d, sig) \in Disks
         /\ Forget(disk, d) \in Disks
         /\ ClearHostMarket(Forget(disk, d)) \in Disks
BY DEF Disks, ClearHostMarket, SaveHostMarket, Remember, Forget, NoDraft, NoSig

-----------------------------------------------------------------------------
(* Types. *)

LEMMA CachedType ==
  ASSUME ServerTypeOK, NEW d \in Draft
  PROVE  GetDraft(d) \in Drafts /\ Cached(d) \in [Draft -> Drafts]
BY DEF ServerTypeOK, GetDraft, Cached

LEMMA PersistType ==
  ASSUME ServerTypeOK, NEW d \in Draft, NEW value \in Drafts, NEW ok, Persist(d, value, ok)
  PROVE  /\ cache' \in [Draft -> Drafts] /\ rows' \in [Draft -> Drafts]
         /\ faults' \in [reloads : Nat, restarts : Nat, writes : Nat]
BY DEF ServerTypeOK, Persist

LEMMA RegisterType ==
  ASSUME ServerTypeOK, NEW d \in Draft, NEW sig \in Nat \ {0}, Register(d, sig)
  PROVE  handlers' \in SUBSET Handlers
<1>1. [draft |-> d, sig |-> sig, stage |-> "asked", mine |-> TRUE] \in Handlers
  BY DEF Handlers
<1>2. QED
  BY <1>1 DEF ServerTypeOK, Register

LEMMA ReplyType ==
  ASSUME ServerTypeOK, ClientTypeOK, NEW h \in handlers, NEW answer, Reply(h, answer)
  PROVE  handlers' \in SUBSET Handlers /\ page' \in Pages /\ disk' \in Disks
<1>1. h.draft \in Draft
  BY DEF ServerTypeOK, Handlers
<1>2. handlers' = handlers \/ handlers' = handlers \ {h}
  BY DEF Reply
<1>3. page' \in {page, To("recording"), Idle, Requoted}
  BY DEF Reply
<1>4. disk' \in {disk, Forget(disk, h.draft), ClearHostMarket(Forget(disk, h.draft))}
  BY DEF Reply
<1>5. page' \in Pages
  BY <1>3, PageForms DEF ClientTypeOK, Creating
<1>6. disk' \in Disks
  BY <1>1, <1>4, DiskForms DEF ClientTypeOK, NoSig
<1>7. QED
  BY <1>2, <1>5, <1>6 DEF ServerTypeOK

(* The server's next draft is one that Panta has no session for. *)
NextDraft == 1 + Cardinality({x \in Draft : sessions[x] # "none"})

LEMMA NextDraftIsNew ==
  ASSUME ServerTypeOK, InOrder, NextDraft \in Draft
  PROVE  sessions[NextDraft] = "none" /\ \A e \in Draft : e < NextDraft => sessions[e] # "none"
<1> DEFINE Known == {x \in Draft : sessions[x] # "none"}
<1>1. MaxDrafts \in Nat /\ Draft = 1..MaxDrafts
  BY HostingAssumption DEF Draft
<1>2. IsFiniteSet(Known) /\ Cardinality(Known) \in Nat
  <2>1. IsFiniteSet(1..MaxDrafts)
    BY <1>1, FS_Interval
  <2>2. IsFiniteSet(Known)
    BY <1>1, <2>1, FS_Subset
  <2>3. QED
    BY <2>2, FS_CardinalityType
<1> DEFINE n == NextDraft
<1>3. n \in Draft /\ n = 1 + Cardinality(Known)
  BY DEF NextDraft
<1> HIDE DEF Known, n
<1>4. ASSUME sessions[n] # "none" PROVE FALSE
  <2>1. 1..n \subseteq Known
    <3>1. ASSUME NEW x \in 1..n PROVE x \in Draft /\ sessions[x] # "none"
      <4>1. x \in Draft /\ (x = n \/ x < n)
        BY <1>1, <1>3
      <4>2. QED
        BY <1>3, <1>4, <4>1 DEF InOrder
    <3>2. QED
      BY <3>1 DEF Known
  <2>2. Cardinality(1..n) = n
    BY <1>1, <1>3, FS_Interval
  <2>3. Cardinality(1..n) <= Cardinality(Known)
    BY <1>2, <2>1, FS_Subset
  <2>4. QED
    BY <1>1, <1>2, <1>3, <2>2, <2>3
<1>5. ASSUME NEW e \in Draft, e < n, sessions[e] = "none" PROVE FALSE
  <2>1. Known \subseteq 1..(e - 1)
    BY <1>1, <1>5 DEF Known, InOrder
  <2>2. IsFiniteSet(1..(e - 1)) /\ Cardinality(1..(e - 1)) = e - 1
    BY <1>1, <1>5, FS_Interval
  <2>3. Cardinality(Known) <= e - 1
    BY <2>1, <2>2, FS_Subset
  <2>4. QED
    BY <1>1, <1>2, <1>3, <1>5, <2>3
<1>6. QED
  BY <1>4, <1>5 DEF n

(* Steps of the host's page, the wallet and the chain that the server does not notice. *)
ServerUnaware ==
    \/ Edit \/ StartOver \/ BuildFails \/ SendPayment \/ SaveSignature \/ RecordCreated
    \/ PressOpen \/ BuildDeposit \/ SeatFails \/ SendDeposit \/ DepositHeard \/ ConfirmDeposit
    \/ FinishSeat \/ CancelPeeks \/ (\E i \in DOMAIN pits : CancelCommits(i))
    \/ (\E fate \in Fates : \/ \E t \in DOMAIN txs : PaymentEnds(t, fate)
                            \/ \E i \in DOMAIN pits : DepositEnds(i, fate))

(* Steps that look a draft up. *)
LooksUp == BuildAnswers \/ (\E answered \in BOOLEAN : OpenPit(answered)) \/ PitRefused

LEMMA Unaware == ServerUnaware => UNCHANGED <<sessions, serverVars, faults>>
BY DEF ServerUnaware, Edit, StartOver, BuildFails, SendPayment, SaveSignature, RecordCreated,
       PressOpen, BuildDeposit, SeatFails, SendDeposit, DepositHeard, ConfirmDeposit, FinishSeat,
       CancelPeeks, CancelCommits, PaymentEnds, DepositEnds, serverVars

LEMMA LookUp ==
  ASSUME HostingInv, LooksUp
  PROVE  /\ page.quote \in Draft /\ cache' = Cached(page.quote)
         /\ UNCHANGED <<sessions, rows, handlers, txs, faults>>
<1>1. cache' = Cached(page.quote) /\ UNCHANGED <<sessions, rows, handlers, txs, faults>>
  BY DEF LooksUp, BuildAnswers, OpenPit, PitRefused
<1>2. page.quote \in Draft
  BY DEF LooksUp, BuildAnswers, OpenPit, PitRefused, HostingInv, PageInStep, Creating,
         ClientTypeOK, Pages
<1>3. QED
  BY <1>1, <1>2

(* The requests after a step: the page's own may be disowned. *)
Disowned == {[h EXCEPT !.mine = FALSE] : h \in handlers}

LEMMA DisownedType ==
  ASSUME ServerTypeOK
  PROVE  /\ Disowned \in SUBSET Handlers
         /\ \A g \in Disowned : /\ ~g.mine
                                /\ \E h \in handlers : /\ g.draft = h.draft /\ g.sig = h.sig
                                                       /\ g.stage = h.stage
<1>1. ASSUME NEW h \in handlers
      PROVE  /\ [h EXCEPT !.mine = FALSE] \in Handlers
             /\ ~[h EXCEPT !.mine = FALSE].mine
             /\ [h EXCEPT !.mine = FALSE].draft = h.draft
             /\ [h EXCEPT !.mine = FALSE].sig = h.sig
             /\ [h EXCEPT !.mine = FALSE].stage = h.stage
  BY <1>1 DEF ServerTypeOK, Handlers
<1>2. QED
  BY <1>1 DEF Disowned

LEMMA ServerTypes ==
  ASSUME HostingInv, [HostingNext]_hostingVars
  PROVE  ServerTypeOK'
<1>1. ServerTypeOK /\ ClientTypeOK /\ SignaturesKnown /\ RequestsKnown /\ PageInStep
  BY DEF HostingInv
<1>2. CASE ServerUnaware \/ UNCHANGED hostingVars
  BY <1>1, <1>2, Unaware DEF serverVars, hostingVars, ServerTypeOK
<1>3. CASE LooksUp
  BY <1>1, <1>3, LookUp, CachedType DEF ServerTypeOK
<1>4. ASSUME NEW ok \in BOOLEAN, NEW answered \in BOOLEAN, Quote(ok, answered)
      PROVE  ServerTypeOK'
  <2>1. /\ NextDraft \in Draft
        /\ sessions' = [sessions EXCEPT ![NextDraft] = "open"]
        /\ Persist(NextDraft, "quoted", ok)
        /\ UNCHANGED handlers
    BY <1>4 DEF Quote, NextDraft
  <2>2. "quoted" \in Drafts /\ "open" \in Sessions
    BY DEF Drafts, Sessions
  <2>3. QED
    BY <1>1, <2>1, <2>2, PersistType DEF ServerTypeOK
<1>5. CASE PressCreate
  <2>1. UNCHANGED <<sessions, cache, rows, faults>>
    BY <1>5 DEF PressCreate
  <2>2. page.quote \in Draft
    BY <1>1, <1>5 DEF PressCreate, ClientTypeOK, Pages
  <2>3. UNCHANGED handlers \/ (disk.sigs[page.quote] # NoSig /\ Register(page.quote, disk.sigs[page.quote]))
    BY <1>5 DEF PressCreate, Pending
  <2>4. disk.sigs[page.quote] \in Nat
    BY <1>1, <2>2 DEF ClientTypeOK, Disks
  <2>5. QED
    BY <1>1, <2>1, <2>2, <2>3, <2>4, RegisterType DEF ServerTypeOK, NoSig
<1>6. CASE ConfirmPayment
  <2>1. UNCHANGED <<sessions, cache, rows, faults>>
    BY <1>6 DEF ConfirmPayment
  <2>2. page.quote \in Draft /\ page.sig \in Nat \ {0}
    BY <1>1, <1>6 DEF ConfirmPayment, ClientTypeOK, Pages, PageInStep, Creating, NoSig
  <2>3. UNCHANGED handlers \/ Register(page.quote, page.sig)
    BY <1>6 DEF ConfirmPayment, Confirmed
  <2>4. QED
    BY <1>1, <2>1, <2>2, <2>3, RegisterType DEF ServerTypeOK
<1>7. ASSUME NEW h \in handlers, ServerAsks(h)
      PROVE  ServerTypeOK'
  <2>1. h \in Handlers /\ h.draft \in Draft
    BY <1>1 DEF ServerTypeOK, Handlers
  <2>2. /\ cache' = Cached(h.draft) /\ UNCHANGED <<rows, faults>>
        /\ sessions' \in {sessions, [sessions EXCEPT ![h.draft] = "listed"]}
    BY <1>7 DEF ServerAsks
  <2>3. \/ handlers' = (handlers \ {h}) \cup {[h EXCEPT !.stage = "listed"]}
        \/ \E answer \in {"ok", "error", "TX_NOT_FOUND", "TX_FAILED", "CREATE_EXPIRED"} : Reply(h, answer)
    BY <1>7 DEF ServerAsks
  <2>4. [h EXCEPT !.stage = "listed"] \in Handlers
    BY <2>1 DEF Handlers
  <2>5. handlers' \in SUBSET Handlers
    BY <1>1, <2>3, <2>4, ReplyType DEF ServerTypeOK
  <2>6. sessions' \in [Draft -> Sessions]
    BY <1>1, <2>1, <2>2 DEF ServerTypeOK, Sessions
  <2>7. QED
    BY <1>1, <2>1, <2>2, <2>5, <2>6, CachedType DEF ServerTypeOK
<1>8. ASSUME NEW h \in handlers, NEW ok \in BOOLEAN, ServerMarks(h, ok)
      PROVE  ServerTypeOK'
  <2>1. h.draft \in Draft /\ "registered" \in Drafts
    BY <1>1 DEF ServerTypeOK, Handlers, Drafts
  <2>2. Persist(h.draft, "registered", ok) /\ UNCHANGED sessions
    BY <1>8 DEF ServerMarks
  <2>3. \E answer : Reply(h, answer)
    BY <1>8 DEF ServerMarks
  <2>4. QED
    BY <1>1, <2>1, <2>2, <2>3, PersistType, ReplyType DEF ServerTypeOK
<1>9. CASE AnswerLost \/ Reload
  <2>1. /\ UNCHANGED <<sessions, cache, rows>> /\ handlers' = Disowned
        /\ faults' \in {faults, [faults EXCEPT !.reloads = @ + 1]}
    BY <1>9 DEF AnswerLost, Reload, Disowned
  <2>2. QED
    BY <1>1, <2>1, DisownedType DEF ServerTypeOK
<1>10. ASSUME NEW d \in Draft, QuoteExpires(d)
       PROVE  ServerTypeOK'
  BY <1>1, <1>10 DEF QuoteExpires, ServerTypeOK, serverVars, Sessions
<1>11. CASE Restart
  <2>1. /\ cache' = [d \in Draft |-> "none"] /\ handlers' = {} /\ UNCHANGED <<sessions, rows>>
        /\ faults' = [faults EXCEPT !.restarts = @ + 1]
    BY <1>11 DEF Restart
  <2>2. QED
    BY <1>1, <2>1 DEF ServerTypeOK, Drafts
<1>12. QED
  BY <1>2, <1>3, <1>4, <1>5, <1>6, <1>7, <1>8, <1>9, <1>10, <1>11
     DEF HostingNext, ServerUnaware, LooksUp

(* Payments and pits are only added to, or get further. *)
LEMMA SpendKeeps ==
  ASSUME ClientTypeOK, NEW d
  PROVE  /\ Spend(d) \in Seq(Txs) /\ DOMAIN Spend(d) = DOMAIN txs
         /\ \A t \in DOMAIN txs : /\ Spend(d)[t].draft = txs[t].draft
                                  /\ Spend(d)[t].status = txs[t].status
                                  /\ Spend(d)[t].known = txs[t].known
                                  /\ txs[t].spent => Spend(d)[t].spent
                                  /\ txs[t].draft = d => Spend(d)[t].spent
<1>1. txs \in Seq(Txs)
  BY DEF ClientTypeOK
<1>2. ASSUME NEW t \in DOMAIN txs
      PROVE  /\ Spend(d)[t] \in Txs
             /\ Spend(d)[t].draft = txs[t].draft
             /\ Spend(d)[t].status = txs[t].status
             /\ Spend(d)[t].known = txs[t].known
             /\ txs[t].spent => Spend(d)[t].spent
             /\ txs[t].draft = d => Spend(d)[t].spent
  <2>1. txs[t] \in Txs
    BY <1>1
  <2>2. Spend(d)[t] = IF txs[t].draft = d THEN [txs[t] EXCEPT !.spent = TRUE] ELSE txs[t]
    BY DEF Spend
  <2>3. QED
    BY <2>1, <2>2 DEF Txs
<1>3. DOMAIN Spend(d) = 1..Len(txs) /\ Len(txs) \in Nat
  BY <1>1 DEF Spend
<1>4. Spend(d) \in [1..Len(txs) -> Txs]
  BY <1>1, <1>2, <1>3 DEF Spend
<1>5. QED
  BY <1>1, <1>2, <1>3, <1>4

LEMMA UnsavedKeeps ==
  ASSUME ClientTypeOK
  PROVE  /\ Unsaved \in Seq(Txs) /\ DOMAIN Unsaved = DOMAIN txs
         /\ \A t \in DOMAIN txs : /\ Unsaved[t].draft = txs[t].draft
                                  /\ Unsaved[t].status = txs[t].status
                                  /\ Unsaved[t].spent = txs[t].spent
                                  /\ Unsaved[t].known =>
                                         txs[t].known /\ ~(page.at = "recording" /\ txs[t].draft = page.quote)
<1>1. txs \in Seq(Txs)
  BY DEF ClientTypeOK
<1> DEFINE dies(t) == page.at = "recording" /\ txs[t].draft = page.quote
<1>2. ASSUME NEW t \in DOMAIN txs
      PROVE  /\ Unsaved[t] \in Txs
             /\ Unsaved[t].draft = txs[t].draft
             /\ Unsaved[t].status = txs[t].status
             /\ Unsaved[t].spent = txs[t].spent
             /\ Unsaved[t].known => txs[t].known /\ ~dies(t)
  <2>1. txs[t] \in Txs
    BY <1>1
  <2>2. Unsaved[t] = IF dies(t) THEN [txs[t] EXCEPT !.known = FALSE] ELSE txs[t]
    BY DEF Unsaved
  <2>3. QED
    BY <2>1, <2>2 DEF Txs
<1>3. DOMAIN Unsaved = 1..Len(txs) /\ Len(txs) \in Nat
  BY <1>1 DEF Unsaved
<1>4. Unsaved \in [1..Len(txs) -> Txs]
  BY <1>1, <1>2, <1>3 DEF Unsaved
<1>5. QED
  BY <1>1, <1>2, <1>3, <1>4

PaymentsGoOn ==
    /\ txs' \in Seq(Txs)
    /\ DOMAIN txs \subseteq DOMAIN txs'
    /\ \A t \in DOMAIN txs : /\ txs'[t].draft = txs[t].draft
                             /\ txs[t].status # "sent" => txs'[t].status = txs[t].status
                             /\ txs[t].spent => txs'[t].spent
                             /\ txs'[t].known => txs[t].known \/ (SaveSignature /\ t = page.sig)
    /\ \A t \in DOMAIN txs' : t \notin DOMAIN txs => ~txs'[t].known

(* A payment's record, rewritten. *)
LEMMA PaymentWritten ==
  ASSUME txs \in Seq(Txs), NEW t \in DOMAIN txs, NEW p \in Txs, txs' = [txs EXCEPT ![t] = p],
         p.draft = txs[t].draft, p.status = txs[t].status \/ txs[t].status = "sent",
         p.spent = txs[t].spent, p.known => txs[t].known \/ (SaveSignature /\ t = page.sig)
  PROVE  PaymentsGoOn
<1>1. /\ txs' \in Seq(Txs) /\ DOMAIN txs' = DOMAIN txs /\ txs'[t] = p
      /\ \A u \in DOMAIN txs : u # t => txs'[u] = txs[u]
  OBVIOUS
<1>2. QED
  BY <1>1 DEF PaymentsGoOn

LEMMA PaymentsForward ==
  ASSUME HostingInv, [HostingNext]_hostingVars
  PROVE  PaymentsGoOn
<1>1. ClientTypeOK /\ PageInStep /\ txs \in Seq(Txs)
  BY DEF HostingInv, ClientTypeOK
<1>2. CASE UNCHANGED txs
  BY <1>1, <1>2 DEF PaymentsGoOn
<1>3. CASE (\E d : txs' = Spend(d)) \/ txs' = Unsaved
  BY <1>1, <1>3, SpendKeeps, UnsavedKeeps DEF PaymentsGoOn
<1>4. CASE SendPayment
  <2> DEFINE p == [draft |-> page.quote, status |-> "sent", spent |-> FALSE, known |-> FALSE]
  <2>1. txs' = Append(txs, p)
    BY <1>4 DEF SendPayment
  <2>2. page.quote \in Draft
    BY <1>1, <1>4 DEF SendPayment, ClientTypeOK, Pages, PageInStep, Creating
  <2>3. p \in Txs /\ ~p.known
    BY <2>2 DEF Txs
  <2> HIDE DEF p
  <2>4. /\ txs' \in Seq(Txs) /\ DOMAIN txs' = DOMAIN txs \cup {Len(txs) + 1}
        /\ txs'[Len(txs) + 1] = p /\ \A t \in DOMAIN txs : txs'[t] = txs[t]
    BY <1>1, <2>1, <2>3
  <2>5. QED
    BY <2>3, <2>4 DEF PaymentsGoOn
<1>5. ASSUME NEW t \in DOMAIN txs, NEW fate \in Fates, PaymentEnds(t, fate)
      PROVE  PaymentsGoOn
  <2> DEFINE p == [txs[t] EXCEPT !.status = fate]
  <2>1. txs[t].status = "sent" /\ txs' = [txs EXCEPT ![t] = p]
    BY <1>5 DEF PaymentEnds
  <2>2. txs[t] \in Txs
    BY <1>1
  <2>3. p \in Txs /\ p.draft = txs[t].draft /\ p.spent = txs[t].spent /\ p.known = txs[t].known
    BY <2>2 DEF Txs
  <2> HIDE DEF p
  <2>4. QED
    BY <1>1, <2>1, <2>3, PaymentWritten
<1>6. CASE SaveSignature
  <2> DEFINE p == [txs[page.sig] EXCEPT !.known = TRUE]
  <2>1. page.sig \in DOMAIN txs /\ txs' = [txs EXCEPT ![page.sig] = p]
    BY <1>1, <1>6 DEF SaveSignature, PageInStep
  <2>2. txs[page.sig] \in Txs
    BY <1>1, <2>1
  <2>3. /\ p \in Txs /\ p.draft = txs[page.sig].draft
        /\ p.status = txs[page.sig].status /\ p.spent = txs[page.sig].spent
    BY <2>2 DEF Txs
  <2> HIDE DEF p
  <2>4. QED
    BY <1>1, <1>6, <2>1, <2>3, PaymentWritten
<1>7. QED
  <2>1. CASE UNCHANGED hostingVars
    BY <1>2, <2>1 DEF hostingVars
  <2>2. CASE HostingNext
    <3>1. CASE StartOver \/ FinishSeat \/ Reload
      BY <1>2, <1>3, <3>1 DEF StartOver, FinishSeat, Reload
    <3>2. CASE ~(StartOver \/ FinishSeat \/ Reload \/ SendPayment \/ SaveSignature)
               /\ ~ \E fate \in Fates, t \in DOMAIN txs : PaymentEnds(t, fate)
      BY <1>2, <2>2, <3>2 DEF HostingNext, Quote, Edit, PressCreate, BuildAnswers, BuildFails,
           ConfirmPayment, ServerAsks, ServerMarks, AnswerLost, RecordCreated,
           PressOpen, OpenPit, PitRefused, BuildDeposit, SeatFails, SendDeposit, DepositHeard,
           ConfirmDeposit, CancelPeeks, CancelCommits, DepositEnds, QuoteExpires, Restart
    <3>3. QED
      BY <1>4, <1>5, <1>6, <3>1, <3>2
  <2>3. QED
    BY <2>1, <2>2

PitsGoOn ==
    /\ pits' \in Seq(Pits)
    /\ DOMAIN pits \subseteq DOMAIN pits'
    /\ \A i \in DOMAIN pits :
           /\ pits'[i].draft = pits[i].draft
           /\ pits'[i].status # pits[i].status => pits[i].closing
           /\ pits[i].deposit = "none" /\ ~SendDeposit => pits'[i].deposit = "none"
           /\ pits'[i].closing => pits[i].closing \/ (page.at = "cancelling" /\ i = page.pit)
           /\ pits'[i].heard => /\ pits[i].heard \/ (DepositHeard /\ i = page.pit)
                               /\ pits'[i].deposit # "failed"
    /\ \A i \in DOMAIN pits' : i \notin DOMAIN pits =>
           ~pits'[i].heard /\ ~pits'[i].closing /\ pits'[i].deposit = "none"

(* A pit's record, rewritten. *)
LEMMA PitWritten ==
  ASSUME pits \in Seq(Pits), HeardStands, NEW i \in DOMAIN pits, NEW p \in Pits,
         pits' = [pits EXCEPT ![i] = p],
         p.draft = pits[i].draft, p.status = pits[i].status \/ pits[i].closing,
         pits[i].deposit = "none" /\ ~SendDeposit => p.deposit = "none",
         p.closing => pits[i].closing \/ (page.at = "cancelling" /\ i = page.pit),
         p.heard => (pits[i].heard \/ (DepositHeard /\ i = page.pit)) /\ p.deposit # "failed"
  PROVE  PitsGoOn
<1>1. /\ pits' \in Seq(Pits) /\ DOMAIN pits' = DOMAIN pits /\ pits'[i] = p
      /\ \A j \in DOMAIN pits : j # i => pits'[j] = pits[j]
  OBVIOUS
<1>2. QED
  BY <1>1 DEF PitsGoOn, HeardStands

LEMMA PitsForward ==
  ASSUME HostingInv, [HostingNext]_hostingVars
  PROVE  PitsGoOn
<1>1. /\ ClientTypeOK /\ PageInStep /\ DepositKnown /\ HeardStands /\ pits \in Seq(Pits)
      /\ \A i \in DOMAIN pits : pits[i] \in Pits
  BY DEF HostingInv, ClientTypeOK
<1>2. CASE UNCHANGED pits
  BY <1>1, <1>2 DEF PitsGoOn, HeardStands
<1>3. ASSUME NEW answered \in BOOLEAN, OpenPit(answered)
      PROVE  PitsGoOn
  <2> DEFINE p == [draft |-> page.quote, status |-> "open", deposit |-> "none",
                   heard |-> FALSE, closing |-> FALSE]
  <2>1. pits' = Append(pits, p)
    BY <1>3 DEF OpenPit
  <2>2. page.quote \in Draft
    BY <1>1, <1>3 DEF OpenPit, ClientTypeOK, Pages, PageInStep
  <2>3. p \in Pits /\ ~p.heard /\ ~p.closing /\ p.deposit = "none"
    BY <2>2 DEF Pits
  <2> HIDE DEF p
  <2>4. /\ pits' \in Seq(Pits) /\ DOMAIN pits' = DOMAIN pits \cup {Len(pits) + 1}
        /\ pits'[Len(pits) + 1] = p /\ \A i \in DOMAIN pits : pits'[i] = pits[i]
    BY <1>1, <2>1, <2>3
  <2>5. QED
    BY <1>1, <2>3, <2>4 DEF PitsGoOn, HeardStands
<1>4. CASE SendDeposit
  <2> DEFINE p == [pits[page.pit] EXCEPT !.deposit = "sent"]
  <2>1. page.pit \in DOMAIN pits /\ pits' = [pits EXCEPT ![page.pit] = p]
    BY <1>1, <1>4 DEF SendDeposit, DepositKnown, Seating
  <2>2. /\ p \in Pits /\ p.draft = pits[page.pit].draft /\ p.status = pits[page.pit].status
        /\ p.deposit = "sent" /\ p.heard = pits[page.pit].heard /\ p.closing = pits[page.pit].closing
    BY <1>1, <2>1 DEF Pits
  <2> HIDE DEF p
  <2>3. QED
    BY <1>1, <1>4, <2>1, <2>2, PitWritten
<1>5. CASE DepositHeard
  <2> DEFINE p == [pits[page.pit] EXCEPT !.heard = pits[page.pit].deposit # "failed"]
  <2>1. page.pit \in DOMAIN pits /\ pits' = [pits EXCEPT ![page.pit] = p]
    BY <1>1, <1>5 DEF DepositHeard, DepositKnown, Seating
  <2>2. /\ p \in Pits /\ p.draft = pits[page.pit].draft /\ p.status = pits[page.pit].status
        /\ p.deposit = pits[page.pit].deposit /\ p.closing = pits[page.pit].closing
        /\ p.heard => p.deposit # "failed"
    BY <1>1, <2>1 DEF Pits
  <2> HIDE DEF p
  <2>3. QED
    BY <1>1, <1>5, <2>1, <2>2, PitWritten
<1>6. CASE CancelPeeks
  <2>1. CASE pits' = [pits EXCEPT ![page.pit].closing = TRUE]
    <3> DEFINE p == [pits[page.pit] EXCEPT !.closing = TRUE]
    <3>1. /\ page.pit \in DOMAIN pits /\ page.at = "cancelling" /\ ~pits[page.pit].heard
          /\ pits' = [pits EXCEPT ![page.pit] = p]
      BY <1>1, <1>6, <2>1 DEF CancelPeeks, DepositKnown, Seating
    <3>2. /\ p \in Pits /\ p.draft = pits[page.pit].draft /\ p.status = pits[page.pit].status
          /\ p.deposit = pits[page.pit].deposit /\ p.heard = pits[page.pit].heard
      BY <1>1, <3>1 DEF Pits
    <3> HIDE DEF p
    <3>3. QED
      BY <1>1, <3>1, <3>2, PitWritten
  <2>2. QED
    BY <1>2, <1>6, <2>1 DEF CancelPeeks
<1>7. ASSUME NEW i \in DOMAIN pits, CancelCommits(i)
      PROVE  PitsGoOn
  <2>1. PICK status \in {"open", "cancelled"} :
            pits' = [pits EXCEPT ![i].closing = FALSE, ![i].status = status]
    BY <1>7 DEF CancelCommits
  <2> DEFINE p == [pits[i] EXCEPT !.closing = FALSE, !.status = status]
  <2>2. pits' = [pits EXCEPT ![i] = p] /\ pits[i].closing
    BY <1>1, <1>7, <2>1 DEF CancelCommits
  <2>3. /\ p \in Pits /\ p.draft = pits[i].draft /\ p.deposit = pits[i].deposit
        /\ p.heard = pits[i].heard /\ ~p.closing
    BY <1>1 DEF Pits
  <2> HIDE DEF p
  <2>4. pits[i].heard => pits[i].deposit # "failed"
    BY <1>1 DEF HeardStands
  <2>5. QED
    BY <1>1, <2>2, <2>3, <2>4, PitWritten
<1>8. ASSUME NEW i \in DOMAIN pits, NEW fate \in Fates, DepositEnds(i, fate)
      PROVE  PitsGoOn
  <2> DEFINE p == [pits[i] EXCEPT !.deposit = fate, !.heard = pits[i].heard /\ fate # "failed"]
  <2>1. pits' = [pits EXCEPT ![i] = p] /\ pits[i].deposit = "sent"
    BY <1>1, <1>8 DEF DepositEnds
  <2>2. /\ p \in Pits /\ p.draft = pits[i].draft /\ p.status = pits[i].status
        /\ p.closing = pits[i].closing /\ p.deposit = fate
        /\ p.heard => pits[i].heard /\ fate # "failed"
    BY <1>1 DEF Pits
  <2> HIDE DEF p
  <2>3. QED
    BY <1>1, <2>1, <2>2, PitWritten
<1>9. CASE Restart
  <2> DEFINE p(i) == [pits[i] EXCEPT !.closing = FALSE]
  <2>1. pits' = [i \in DOMAIN pits |-> p(i)]
    BY <1>9 DEF Restart
  <2>2. ASSUME NEW i \in DOMAIN pits
        PROVE  /\ p(i) \in Pits /\ p(i).draft = pits[i].draft /\ p(i).status = pits[i].status
               /\ p(i).deposit = pits[i].deposit /\ p(i).heard = pits[i].heard /\ ~p(i).closing
    BY <1>1 DEF Pits
  <2> HIDE DEF p
  <2>3. pits' \in Seq(Pits) /\ DOMAIN pits' = DOMAIN pits /\ \A i \in DOMAIN pits : pits'[i] = p(i)
    <3>1. DOMAIN pits = 1..Len(pits) /\ Len(pits) \in Nat
      BY <1>1
    <3>2. pits' \in [1..Len(pits) -> Pits]
      BY <2>1, <2>2, <3>1
    <3>3. QED
      BY <2>1, <3>1, <3>2
  <2>4. QED
    BY <1>1, <2>2, <2>3 DEF PitsGoOn, HeardStands
<1>10. QED
  <2>1. CASE UNCHANGED hostingVars
    BY <1>2, <2>1 DEF hostingVars
  <2>2. CASE HostingNext
    <3>1. CASE /\ ~(SendDeposit \/ DepositHeard \/ CancelPeeks \/ Restart)
               /\ ~ \E answered \in BOOLEAN : OpenPit(answered)
               /\ ~ \E i \in DOMAIN pits : CancelCommits(i)
               /\ ~ \E fate \in Fates, i \in DOMAIN pits : DepositEnds(i, fate)
      BY <1>2, <2>2, <3>1 DEF HostingNext, Quote, Edit, StartOver, PressCreate, BuildAnswers,
           BuildFails, SendPayment, SaveSignature, ConfirmPayment, ServerAsks, ServerMarks,
           AnswerLost, RecordCreated, PressOpen, PitRefused, BuildDeposit, SeatFails,
           ConfirmDeposit, FinishSeat, PaymentEnds, QuoteExpires, Reload
    <3>2. QED
      BY <1>3, <1>4, <1>5, <1>6, <1>7, <1>8, <1>9, <3>1
  <2>3. QED
    BY <2>1, <2>2

(* The page a reload finds in the storage. *)
LEMMA RestoredForm ==
  ASSUME disk \in Disks
  PROVE  /\ Restored \in Pages /\ Restored.at = "idle"
         /\ Restored.quote # NoDraft => Restored.quote = disk.quote /\ Restored.created = disk.created
         /\ Restored.created => disk.created /\ Restored.quote = disk.quote
         /\ disk.created \/ Pending(disk.quote) =>
                Restored.quote = disk.quote /\ Restored.created = disk.created
BY DEF Restored, Blank, Disks, Pages, NoDraft, NoSig

(* Steps that leave the page where it is, or its quote and the storage as they are. *)
PageStays ==
    \/ BuildFails \/ AnswerLost \/ PressOpen \/ PitRefused \/ BuildDeposit
    \/ SeatFails \/ SendDeposit \/ DepositHeard \/ ConfirmDeposit \/ Restart
    \/ CancelPeeks \/ (\E i \in DOMAIN pits : CancelCommits(i)) \/ UNCHANGED hostingVars
    \/ (\E fate \in Fates : \/ \E t \in DOMAIN txs : PaymentEnds(t, fate)
                            \/ \E i \in DOMAIN pits : DepositEnds(i, fate))
    \/ (\E d \in Draft : QuoteExpires(d))

LEMMA PageStaysForm ==
  ASSUME PageStays
  PROVE  /\ UNCHANGED disk
         /\ page' \in {page, Idle, To("opening"), To("depositing"), To("cancelling"),
                       To("depositSending"), To("depositConfirming"),
                       To("finishing")}
BY DEF PageStays, BuildFails, AnswerLost, PressOpen, PitRefused, BuildDeposit,
       SeatFails, SendDeposit, DepositHeard, ConfirmDeposit, Restart, CancelPeeks, CancelCommits, PaymentEnds, DepositEnds,
       QuoteExpires, hostingVars

(* A page that is done with its quote clears the storage as well. *)
PageClears == page' = Requoted /\ disk' = ClearHostMarket(disk)

LEMMA ClientTypes ==
  ASSUME HostingInv, [HostingNext]_hostingVars
  PROVE  ClientTypeOK'
<1>1. /\ ServerTypeOK /\ ClientTypeOK /\ PageInStep /\ SignaturesKnown
      /\ page \in Pages /\ disk \in Disks /\ txs \in Seq(Txs) /\ pits \in Seq(Pits)
  BY DEF HostingInv, ClientTypeOK
<1>2. txs' \in Seq(Txs) /\ pits' \in Seq(Pits)
  BY PaymentsForward, PitsForward DEF PaymentsGoOn, PitsGoOn
<1> DEFINE Good == page' \in Pages /\ disk' \in Disks
<1>3. SUFFICES Good
  BY <1>2 DEF ClientTypeOK
<1>4. page.quote # NoDraft => page.quote \in Draft
  BY <1>1 DEF Pages
<1>5. CASE PageStays
  BY <1>1, <1>5, PageStaysForm, PageForms DEF Seating
<1>6. CASE PageClears
  <2>1. disk' = [disk EXCEPT !.quote = NoDraft, !.created = FALSE]
    BY <1>6 DEF PageClears, ClearHostMarket
  <2>2. QED
    BY <1>1, <1>6, <2>1, PageForms DEF PageClears, Disks, NoDraft
<1>7. ASSUME NEW ok \in BOOLEAN, NEW answered \in BOOLEAN, Quote(ok, answered)
      PROVE  Good
  <2>1. CASE UNCHANGED <<page, disk>>
    BY <1>1, <2>1
  <2>2. CASE /\ NextDraft \in Draft
             /\ page' = [page EXCEPT !.quote = NextDraft, !.created = FALSE]
             /\ disk' = SaveHostMarket(disk, NextDraft, FALSE)
    <3>1. disk' \in Disks
      BY <1>1, <2>2, DiskForms, 0 \in Nat
    <3>2. QED
      BY <1>1, <2>2, <3>1 DEF Pages
  <2>3. QED
    BY <1>7, <2>1, <2>2 DEF Quote, NextDraft
<1>8. CASE PressCreate
  <2>1. page.quote \in Draft
    BY <1>4, <1>8 DEF PressCreate
  <2>2. To("registering") \in Pages /\ To("building") \in Pages
    BY <1>1, PageForms DEF Creating
  <2>3. CASE page' = [To("registering") EXCEPT !.sig = disk.sigs[page.quote]] /\ UNCHANGED disk
    <3>1. disk.sigs[page.quote] \in Nat
      BY <1>1, <2>1 DEF Disks
    <3>2. QED
      BY <1>1, <2>2, <2>3, <3>1 DEF Pages
  <2>4. CASE page' = To("building") /\ disk' = SaveHostMarket(disk, page.quote, FALSE)
    BY <1>1, <2>1, <2>2, <2>4, DiskForms, 0 \in Nat
  <2>5. QED
    BY <1>8, <2>3, <2>4 DEF PressCreate
<1>9. CASE BuildAnswers
  <2>1. PageClears \/ (page' \in {Idle, To("signing")} /\ UNCHANGED disk)
    BY <1>9 DEF BuildAnswers, PageClears
  <2>2. QED
    BY <1>1, <1>6, <2>1, PageForms DEF Creating
<1>10. CASE SendPayment
  <2>1. To("sending") \in Pages /\ Len(txs) + 1 \in Nat
    BY <1>1, PageForms DEF Creating
  <2>2. QED
    BY <1>1, <1>10, <2>1 DEF SendPayment, Pages
<1>11. CASE SaveSignature
  <2>1. page.quote \in Draft /\ page.sig \in Nat
    BY <1>1, <1>4, <1>11 DEF SaveSignature, Creating, PageInStep, Pages
  <2>2. QED
    BY <1>1, <1>11, <2>1, PageForms, DiskForms DEF SaveSignature, Creating
<1>12. CASE ConfirmPayment
  <2>1. page.quote \in Draft
    BY <1>1, <1>4, <1>12 DEF ConfirmPayment, Creating, PageInStep
  <2>2. page' \in {Idle, To("registering")} /\ disk' \in {disk, Forget(disk, page.quote)}
    BY <1>12 DEF ConfirmPayment, Confirmed
  <2>3. QED
    BY <1>1, <2>1, <2>2, PageForms, DiskForms, 0 \in Nat DEF Creating
<1>13. ASSUME NEW h \in handlers, NEW answer, Reply(h, answer)
       PROVE  Good
  BY <1>1, <1>13, ReplyType
<1>14. ASSUME NEW h \in handlers, ServerAsks(h) \/ \E ok \in BOOLEAN : ServerMarks(h, ok)
       PROVE  Good
  <2>1. (\E answer : Reply(h, answer)) \/ UNCHANGED <<page, disk>>
    BY <1>14 DEF ServerAsks, ServerMarks
  <2>2. QED
    BY <1>1, <1>13, <2>1
<1>15. CASE RecordCreated
  <2>1. page.quote \in Draft
    BY <1>1, <1>4, <1>15 DEF RecordCreated, Creating, PageInStep
  <2>2. To("opening") \in Pages
    BY <1>1, PageForms
  <2>3. disk' \in Disks
    BY <1>1, <1>15, <2>1, DiskForms, 0 \in Nat DEF RecordCreated
  <2>4. QED
    BY <1>15, <2>2, <2>3 DEF RecordCreated, Pages, NoSig
<1>16. ASSUME NEW answered \in BOOLEAN, OpenPit(answered)
       PROVE  Good
  <2>1. To("seating") \in Pages /\ Idle \in Pages /\ Len(pits) + 1 \in Nat
    BY <1>1, PageForms DEF Seating
  <2>2. [To("seating") EXCEPT !.pit = Len(pits) + 1] \in Pages
    BY <2>1 DEF Pages
  <2>3. QED
    BY <1>1, <1>16, <2>1, <2>2 DEF OpenPit
<1>17. CASE FinishSeat
  <2>1. PageClears \/ (page' = Idle /\ UNCHANGED disk)
    BY <1>17 DEF FinishSeat, PageClears, SeatUnfinished
  <2>2. QED
    BY <1>1, <1>6, <2>1, PageForms
<1>18. CASE Reload
  BY <1>1, <1>18, RestoredForm DEF Reload
<1>19. CASE Edit \/ StartOver
  BY <1>6, <1>19 DEF Edit, StartOver, PageClears
<1>20. QED
  BY <1>5, <1>7, <1>8, <1>9, <1>10, <1>11, <1>12, <1>14, <1>15, <1>16, <1>17, <1>18, <1>19
     DEF HostingNext, PageStays

-----------------------------------------------------------------------------
(* What was paid for and listed stays so, and so does a registration. *)

SessionsGoOn ==
    \A d \in Draft : /\ sessions[d] = "listed" => sessions'[d] = "listed"
                     /\ sessions[d] # "none" => sessions'[d] # "none"

LEMMA SessionsForward ==
  ASSUME HostingInv, [HostingNext]_hostingVars
  PROVE  InOrder' /\ SessionsGoOn
<1>1. ServerTypeOK /\ InOrder /\ RegisteredIsPaid /\ sessions \in [Draft -> Sessions]
  BY DEF HostingInv, ServerTypeOK
<1>2. CASE UNCHANGED sessions
  BY <1>1, <1>2 DEF InOrder, SessionsGoOn
<1>3. ASSUME NEW ok \in BOOLEAN, NEW answered \in BOOLEAN, Quote(ok, answered)
      PROVE  InOrder' /\ SessionsGoOn
  <2>1. NextDraft \in Draft /\ sessions' = [sessions EXCEPT ![NextDraft] = "open"]
    BY <1>3 DEF Quote, NextDraft
  <2>2. /\ sessions[NextDraft] = "none"
        /\ \A e \in Draft : e < NextDraft => sessions[e] # "none"
    BY <1>1, <2>1, NextDraftIsNew
  <2>3. QED
    BY <1>1, <2>1, <2>2 DEF InOrder, SessionsGoOn
<1>4. ASSUME NEW h \in handlers, ServerAsks(h)
      PROVE  InOrder' /\ SessionsGoOn
  <2>1. h.draft \in Draft
    BY <1>1 DEF ServerTypeOK, Handlers
  <2>2. UNCHANGED sessions \/ sessions' = [sessions EXCEPT ![h.draft] = "listed"]
    BY <1>4 DEF ServerAsks
  <2>3. sessions[h.draft] # "none" \/ UNCHANGED sessions
    BY <1>1, <1>4, <2>1 DEF ServerAsks, GetDraft, RegisteredIsPaid
  <2>4. QED
    BY <1>1, <1>2, <2>1, <2>2, <2>3 DEF InOrder, SessionsGoOn
<1>5. ASSUME NEW d \in Draft, QuoteExpires(d)
      PROVE  InOrder' /\ SessionsGoOn
  BY <1>1, <1>5 DEF QuoteExpires, InOrder, SessionsGoOn
<1>6. QED
  <2>1. CASE ServerUnaware \/ LooksUp \/ UNCHANGED hostingVars
    BY <1>2, <2>1, Unaware, LookUp DEF hostingVars
  <2>2. CASE \/ PressCreate \/ ConfirmPayment \/ AnswerLost \/ Reload \/ Restart
             \/ \E h \in handlers, ok \in BOOLEAN : ServerMarks(h, ok)
    BY <1>2, <2>2 DEF PressCreate, ConfirmPayment, AnswerLost, Reload, Restart, ServerMarks
  <2>3. QED
    BY <1>3, <1>4, <1>5, <2>1, <2>2 DEF HostingNext, ServerUnaware, LooksUp

LEMMA PaidStays ==
  ASSUME HostingInv, [HostingNext]_hostingVars, NEW d \in Draft, PaidAndListed(d)
  PROVE  PaidAndListed(d)'
<1>1. PICK t \in DOMAIN txs : txs[t].draft = d /\ txs[t].status = "landed"
  BY DEF PaidAndListed, Paid
<1>2. t \in DOMAIN txs' /\ txs'[t].draft = d /\ txs'[t].status = "landed"
  BY <1>1, PaymentsForward DEF PaymentsGoOn
<1>3. sessions'[d] = "listed"
  BY SessionsForward DEF PaidAndListed, SessionsGoOn
<1>4. QED
  BY <1>2, <1>3 DEF PaidAndListed, Paid

(* The memory and the database, after a step. *)
RegistrationGoesOn ==
    /\ \A d \in Draft : "registered" \in {cache'[d], rows'[d]} =>
           "registered" \in {cache[d], rows[d]} \/ PaidAndListed(d)
    /\ \A d \in Draft : cache'[d] # "none" \/ rows'[d] # "none" =>
           cache[d] # "none" \/ rows[d] # "none" \/ sessions'[d] # "none"
    /\ faults'.writes = 0 =>
           /\ faults.writes = 0
           /\ \A d \in Draft :
                  /\ cache'[d] \in {"none", rows'[d]}
                  /\ rows[d] = "registered" => rows'[d] = "registered"

LEMMA RegistrationForward ==
  ASSUME HostingInv, [HostingNext]_hostingVars
  PROVE  RegistrationGoesOn
<1>1. /\ ServerTypeOK /\ InOrder /\ RegisteredIsPaid /\ RequestsKnown
      /\ cache \in [Draft -> Drafts] /\ rows \in [Draft -> Drafts]
      /\ faults \in [reloads : Nat, restarts : Nat, writes : Nat]
  BY DEF HostingInv, ServerTypeOK
<1>2. CASE UNCHANGED <<cache, rows>> /\ faults'.writes = faults.writes
  BY <1>1, <1>2 DEF RegisteredIsPaid, RegistrationGoesOn
<1>3. ASSUME NEW d \in Draft, cache' = Cached(d), UNCHANGED <<rows, faults>>
      PROVE  RegistrationGoesOn
  <2>1. cache' = [cache EXCEPT ![d] = GetDraft(d)] /\ GetDraft(d) \in {cache[d], rows[d]}
    BY <1>3 DEF Cached, GetDraft
  <2>2. \A e \in Draft : cache'[e] \in {cache[e], rows[e]}
    BY <1>1, <2>1
  <2>3. QED
    BY <1>3, <2>2, <1>1 DEF RegisteredIsPaid, RegistrationGoesOn
<1>4. ASSUME NEW d \in Draft, NEW value \in Drafts, NEW ok \in BOOLEAN, Persist(d, value, ok),
             value = "registered" => PaidAndListed(d), sessions'[d] # "none",
             rows[d] = "registered" => value = "registered"
      PROVE  RegistrationGoesOn
  <2>1. cache' = [cache EXCEPT ![d] = value]
    BY <1>4 DEF Persist
  <2>2. CASE ok /\ rows' = [rows EXCEPT ![d] = value] /\ UNCHANGED faults
    BY <1>1, <1>4, <2>1, <2>2 DEF RegisteredIsPaid, RegistrationGoesOn
  <2>3. CASE UNCHANGED rows /\ faults' = [faults EXCEPT !.writes = @ + 1]
    <3>1. faults'.writes # 0
      BY <1>1, <2>3
    <3>2. QED
      BY <1>1, <1>4, <2>1, <2>3, <3>1 DEF RegistrationGoesOn
  <2>4. QED
    BY <1>4, <2>2, <2>3 DEF Persist
<1>5. ASSUME NEW ok \in BOOLEAN, NEW answered \in BOOLEAN, Quote(ok, answered)
      PROVE  RegistrationGoesOn
  <2>1. NextDraft \in Draft /\ Persist(NextDraft, "quoted", ok)
    BY <1>5 DEF Quote, NextDraft
  <2>2. sessions[NextDraft] = "none"
    BY <1>1, <2>1, NextDraftIsNew
  <2>3. rows[NextDraft] # "registered"
    BY <1>1, <2>1, <2>2 DEF RegisteredIsPaid, PaidAndListed
  <2>4. sessions'[NextDraft] # "none"
    BY <1>1, <1>5, <2>1 DEF Quote, NextDraft, ServerTypeOK
  <2>5. QED
    BY <1>4, <2>1, <2>3, <2>4 DEF Drafts
<1>6. ASSUME NEW h \in handlers, NEW ok \in BOOLEAN, ServerMarks(h, ok)
      PROVE  RegistrationGoesOn
  <2>1. h.draft \in Draft /\ PaidAndListed(h.draft)
    BY <1>1, <1>6 DEF ServerMarks, RequestsKnown, ServerTypeOK, Handlers
  <2>2. Persist(h.draft, "registered", ok)
    BY <1>6 DEF ServerMarks
  <2>3. sessions'[h.draft] # "none"
    BY <2>1, SessionsForward DEF SessionsGoOn, PaidAndListed
  <2>4. QED
    BY <1>4, <2>1, <2>2, <2>3 DEF Drafts
<1>7. ASSUME NEW h \in handlers, ServerAsks(h)
      PROVE  RegistrationGoesOn
  <2>1. h.draft \in Draft
    BY <1>1 DEF ServerTypeOK, Handlers
  <2>2. QED
    BY <1>3, <1>7, <2>1 DEF ServerAsks
<1>8. CASE Restart
  <2>1. cache' = [d \in Draft |-> "none"] /\ UNCHANGED rows /\ faults' = [faults EXCEPT !.restarts = @ + 1]
    BY <1>8 DEF Restart
  <2>2. faults'.writes = faults.writes
    BY <1>1, <2>1
  <2>3. QED
    BY <1>1, <2>1, <2>2 DEF RegistrationGoesOn
<1>9. CASE Reload
  BY <1>1, <1>2, <1>9 DEF Reload
<1>10. CASE LooksUp
  BY <1>3, <1>10, LookUp
<1>11. QED
  <2>1. CASE ServerUnaware \/ UNCHANGED hostingVars
    BY <1>2, <2>1, Unaware DEF hostingVars, serverVars
  <2>2. CASE PressCreate \/ ConfirmPayment \/ AnswerLost \/ \E d \in Draft : QuoteExpires(d)
    BY <1>2, <2>2 DEF PressCreate, ConfirmPayment, AnswerLost, QuoteExpires, serverVars
  <2>3. QED
    BY <1>5, <1>6, <1>7, <1>8, <1>9, <1>10, <2>1, <2>2 DEF HostingNext, ServerUnaware, LooksUp

LEMMA RegisteredKept ==
  ASSUME HostingInv, [HostingNext]_hostingVars
  PROVE  RegisteredIsPaid' /\ \A d : Hosted(d) => Hosted(d)'
<1>1. RegisteredIsPaid /\ RegistrationGoesOn
  BY RegistrationForward DEF HostingInv
<1>2. \A d \in Draft : PaidAndListed(d) => PaidAndListed(d)'
  BY PaidStays
<1>3. RegisteredIsPaid'
  BY <1>1, <1>2, SessionsForward DEF SessionsGoOn, RegisteredIsPaid, RegistrationGoesOn
<1>4. ASSUME NEW d, Hosted(d) PROVE Hosted(d)'
  <2>1. d \in Draft /\ PaidAndListed(d)'
    BY <1>2, <1>4 DEF Hosted
  <2>2. ASSUME faults'.writes = 0 PROVE Hostable(d)'
    <3>1. rows[d] = "registered"
      BY <1>1, <1>4, <2>1, <2>2 DEF RegistrationGoesOn, RegisteredIsPaid, Hosted, Hostable, GetDraft
    <3>2. rows'[d] = "registered" /\ cache'[d] \in {"none", rows'[d]}
      BY <1>1, <2>1, <2>2, <3>1 DEF RegistrationGoesOn
    <3>3. QED
      BY <3>2 DEF Hostable, GetDraft
  <2>3. QED
    BY <2>1, <2>2 DEF Hosted
<1>5. QED
  BY <1>3, <1>4

-----------------------------------------------------------------------------
(* Signatures and requests. *)

LEMMA SignaturesKept ==
  ASSUME HostingInv, [HostingNext]_hostingVars
  PROVE  SignaturesKnown'
<1>1. /\ ServerTypeOK /\ ClientTypeOK /\ SignaturesKnown /\ PageInStep
      /\ disk \in Disks /\ disk.sigs \in [Draft -> Nat] /\ page \in Pages
  BY DEF HostingInv, ClientTypeOK, Disks
<1>2. PaymentsGoOn
  BY PaymentsForward
<1>3. CASE disk'.sigs = disk.sigs
  BY <1>1, <1>2, <1>3 DEF SignaturesKnown, PaymentsGoOn
<1>4. ASSUME NEW d \in Draft, disk'.sigs = [disk.sigs EXCEPT ![d] = NoSig]
      PROVE  SignaturesKnown'
  BY <1>1, <1>2, <1>4 DEF SignaturesKnown, PaymentsGoOn
<1>5. CASE UNCHANGED disk \/ disk' = ClearHostMarket(disk)
  BY <1>1, <1>3, <1>5 DEF ClearHostMarket, Disks
<1>6. ASSUME NEW d \in Draft, NEW created \in BOOLEAN, disk' = SaveHostMarket(disk, d, created)
      PROVE  SignaturesKnown'
  BY <1>1, <1>3, <1>6 DEF SaveHostMarket, Disks
<1>7. ASSUME NEW d \in Draft, disk' \in {Forget(disk, d), ClearHostMarket(Forget(disk, d))}
      PROVE  SignaturesKnown'
  BY <1>1, <1>4, <1>7 DEF Forget, Remember, ClearHostMarket, Disks
<1>8. CASE SaveSignature
  <2>1. /\ page.quote \in Draft /\ page.sig \in DOMAIN txs /\ txs[page.sig].draft = page.quote
        /\ disk'.sigs = [disk.sigs EXCEPT ![page.quote] = page.sig]
    BY <1>1, <1>8 DEF SaveSignature, PageInStep, Creating, Pages, Remember, Disks
  <2>2. QED
    BY <1>1, <1>2, <2>1 DEF SignaturesKnown, PaymentsGoOn
<1>9. ASSUME NEW h \in handlers, ServerAsks(h) \/ \E ok \in BOOLEAN : ServerMarks(h, ok)
      PROVE  SignaturesKnown'
  <2>1. h.draft \in Draft
    BY <1>1 DEF ServerTypeOK, Handlers
  <2>2. (\E answer : Reply(h, answer)) \/ UNCHANGED disk
    BY <1>9 DEF ServerAsks, ServerMarks
  <2>3. disk' \in {disk, Forget(disk, h.draft), ClearHostMarket(Forget(disk, h.draft))}
    BY <2>2 DEF Reply
  <2>4. QED
    BY <1>5, <1>7, <2>1, <2>3
<1>10. ASSUME NEW ok \in BOOLEAN, NEW answered \in BOOLEAN, Quote(ok, answered)
       PROVE  SignaturesKnown'
  BY <1>5, <1>6, <1>10 DEF Quote
<1>11. CASE PressCreate \/ ConfirmPayment \/ RecordCreated
  <2>1. page.quote \in Draft
    BY <1>1, <1>11 DEF PressCreate, ConfirmPayment, RecordCreated, PageInStep, Creating, Pages
  <2>2. QED
    BY <1>5, <1>6, <1>7, <1>11, <2>1 DEF PressCreate, ConfirmPayment, RecordCreated
<1>12. CASE \/ Edit \/ StartOver \/ BuildAnswers \/ SendPayment \/ FinishSeat \/ Reload
            \/ \E answered \in BOOLEAN : OpenPit(answered)
  BY <1>5, <1>12 DEF Edit, StartOver, BuildAnswers, SendPayment, FinishSeat, Reload, OpenPit
<1>13. CASE PageStays
  BY <1>5, <1>13, PageStaysForm
<1>14. QED
  BY <1>8, <1>9, <1>10, <1>11, <1>12, <1>13 DEF HostingNext, PageStays

(* What a request says of itself, whoever waits for it. *)
RequestKnown(h) ==
    /\ h.sig \in DOMAIN txs /\ txs[h.sig].draft = h.draft
    /\ h.stage = "listed" => PaidAndListed(h.draft)

LEMMA RequestStaysKnown ==
  ASSUME HostingInv, [HostingNext]_hostingVars, NEW h \in Handlers, RequestKnown(h)
  PROVE  RequestKnown(h)'
<1>1. PaymentsGoOn /\ h.draft \in Draft
  BY PaymentsForward DEF Handlers
<1>2. h.stage = "listed" => PaidAndListed(h.draft)'
  BY <1>1, PaidStays DEF RequestKnown
<1>3. QED
  BY <1>1, <1>2 DEF RequestKnown, PaymentsGoOn

(* The page's own request is about its quote, and it has one at most. *)
OneRequest ==
    /\ \A h \in handlers :
           h.mine => page.at = "registering" /\ h.draft = page.quote /\ h.sig = page.sig
    /\ \A g, h \in handlers : g.mine /\ h.mine => g = h

LEMMA RequestsSplit ==
  /\ RequestsKnown <=> (\A h \in handlers : RequestKnown(h)) /\ OneRequest
  /\ RequestsKnown' <=> (\A h \in handlers' : RequestKnown(h)') /\ OneRequest'
BY DEF RequestsKnown, RequestKnown, OneRequest

LEMMA ReplyRequests ==
  ASSUME HostingInv, NEW h \in handlers, NEW answer, Reply(h, answer)
  PROVE  handlers' \subseteq handlers /\ OneRequest'
<1>1. OneRequest /\ ServerTypeOK
  BY RequestsSplit DEF HostingInv
<1>2. CASE ~h.mine
  BY <1>1, <1>2 DEF Reply, OneRequest
<1>3. CASE h.mine /\ handlers' = handlers \ {h}
  <2>1. \A g \in handlers' : ~g.mine
    BY <1>1, <1>3 DEF OneRequest
  <2>2. QED
    BY <1>3, <2>1 DEF OneRequest
<1>4. CASE UNCHANGED <<handlers, page>>
  BY <1>1, <1>4 DEF OneRequest
<1>5. QED
  BY <1>2, <1>3, <1>4 DEF Reply

LEMMA RequestsKept ==
  ASSUME HostingInv, [HostingNext]_hostingVars
  PROVE  RequestsKnown'
<1>1. /\ ServerTypeOK /\ ClientTypeOK /\ PageInStep /\ SignaturesKnown
      /\ handlers \in SUBSET Handlers /\ page \in Pages /\ disk \in Disks
      /\ (\A h \in handlers : RequestKnown(h)) /\ OneRequest
  BY RequestsSplit DEF HostingInv, ServerTypeOK, ClientTypeOK
<1>2. \A h \in Handlers : RequestKnown(h) => RequestKnown(h)'
  BY RequestStaysKnown
<1>3. ASSUME handlers' \subseteq handlers, OneRequest' PROVE RequestsKnown'
  BY <1>1, <1>2, <1>3, RequestsSplit
<1>4. CASE UNCHANGED handlers /\ (page.at = "registering" => UNCHANGED page)
  BY <1>1, <1>3, <1>4 DEF OneRequest
<1>5. ASSUME page.at # "registering", page.quote \in Draft, NEW sig \in Nat \ {0},
             Register(page.quote, sig), page'.at = "registering", page'.quote = page.quote,
             page'.sig = sig, sig \in DOMAIN txs, txs[sig].draft = page.quote
      PROVE  RequestsKnown'
  <2> DEFINE r == [draft |-> page.quote, sig |-> sig, stage |-> "asked", mine |-> TRUE]
  <2>1. handlers' = handlers \cup {r}
    BY <1>5 DEF Register
  <2>2. r \in Handlers /\ RequestKnown(r)
    BY <1>5 DEF Handlers, RequestKnown
  <2>3. \A h \in handlers : ~h.mine
    BY <1>1, <1>5 DEF OneRequest
  <2>4. r.mine /\ r.draft = page.quote /\ r.sig = sig
    OBVIOUS
  <2> HIDE DEF r
  <2>5. OneRequest'
    BY <1>5, <2>1, <2>3, <2>4 DEF OneRequest
  <2>6. \A h \in handlers' : RequestKnown(h)'
    BY <1>1, <1>2, <2>1, <2>2
  <2>7. QED
    BY <2>5, <2>6, RequestsSplit
<1>6. CASE PressCreate
  <2>1. page.at # "registering" /\ page.quote \in Draft
    BY <1>1, <1>6 DEF PressCreate, Pages
  <2>2. To("registering") \in Pages /\ To("registering").at = "registering"
        /\ To("registering").quote = page.quote
    BY <1>1, PageForms DEF Creating, SameQuote
  <2>3. CASE /\ Pending(page.quote)
             /\ page' = [To("registering") EXCEPT !.sig = disk.sigs[page.quote]]
             /\ Register(page.quote, disk.sigs[page.quote])
    <3>1. disk.sigs[page.quote] \in Nat \ {0}
      BY <1>1, <2>1, <2>3 DEF Pending, Disks, NoSig
    <3>2. disk.sigs[page.quote] \in DOMAIN txs /\ txs[disk.sigs[page.quote]].draft = page.quote
      BY <1>1, <2>1, <2>3 DEF Pending, SignaturesKnown
    <3>3. page'.at = "registering" /\ page'.quote = page.quote /\ page'.sig = disk.sigs[page.quote]
      BY <2>2, <2>3 DEF Pages
    <3>4. QED
      BY <1>5, <2>1, <2>3, <3>1, <3>2, <3>3
  <2>4. CASE UNCHANGED handlers
    BY <1>4, <2>1, <2>4
  <2>5. QED
    BY <1>6, <2>3, <2>4 DEF PressCreate
<1>7. CASE ConfirmPayment
  <2>1. /\ page.at = "confirming" /\ page.quote \in Draft /\ page.sig \in Nat \ {0}
        /\ page.sig \in DOMAIN txs /\ txs[page.sig].draft = page.quote
    BY <1>1, <1>7 DEF ConfirmPayment, PageInStep, Creating, Pages, NoSig, SignaturesKnown
  <2>2. CASE page' = To("registering") /\ Register(page.quote, page.sig)
    <3>1. page'.at = "registering" /\ page'.quote = page.quote /\ page'.sig = page.sig
      BY <1>1, <2>2, PageForms DEF Creating, SameQuote
    <3>2. QED
      BY <1>5, <2>1, <2>2, <3>1
  <2>3. CASE UNCHANGED handlers
    BY <1>4, <2>1, <2>3
  <2>4. QED
    BY <1>7, <2>2, <2>3 DEF ConfirmPayment, Confirmed
<1>8. ASSUME NEW h \in handlers, NEW answer, Reply(h, answer)
      PROVE  RequestsKnown'
  BY <1>3, <1>8, ReplyRequests
<1>9. ASSUME NEW h \in handlers, ServerAsks(h)
      PROVE  RequestsKnown'
  <2> DEFINE l == [h EXCEPT !.stage = "listed"]
  <2>1. CASE /\ txs[h.sig].status = "landed"
             /\ sessions' = [sessions EXCEPT ![h.draft] = "listed"]
             /\ handlers' = (handlers \ {h}) \cup {l}
             /\ UNCHANGED page
    <3>1. h \in Handlers /\ h.draft \in Draft
      BY <1>1 DEF Handlers
    <3>2. /\ l \in Handlers /\ l.stage = "listed"
          /\ l.mine = h.mine /\ l.draft = h.draft /\ l.sig = h.sig
      BY <3>1 DEF Handlers
    <3> HIDE DEF l
    <3>3. UNCHANGED txs
      BY <1>9 DEF ServerAsks
    <3>4. sessions'[h.draft] = "listed"
      BY <1>1, <2>1, <3>1 DEF ServerTypeOK
    <3>5. RequestKnown(l)'
      BY <1>1, <2>1, <3>2, <3>3, <3>4 DEF RequestKnown, PaidAndListed, Paid
    <3>6. \A g \in handlers' : RequestKnown(g)'
      BY <1>1, <1>2, <2>1, <3>5
    <3>7. OneRequest'
      BY <1>1, <2>1, <3>2 DEF OneRequest
    <3>8. QED
      BY <3>6, <3>7, RequestsSplit
  <2>2. CASE \E answer : Reply(h, answer)
    BY <1>8, <2>2
  <2>3. QED
    BY <1>9, <2>1, <2>2 DEF ServerAsks
<1>10. ASSUME NEW h \in handlers, NEW ok \in BOOLEAN, ServerMarks(h, ok)
       PROVE  RequestsKnown'
  BY <1>8, <1>10 DEF ServerMarks
<1>11. CASE handlers' = Disowned
  <2>1. \A g \in handlers' : ~g.mine /\ RequestKnown(g)
    BY <1>1, <1>11, DisownedType DEF RequestKnown
  <2>2. handlers' \subseteq Handlers
    BY <1>1, <1>11, DisownedType
  <2>3. QED
    BY <1>2, <2>1, <2>2, RequestsSplit DEF OneRequest
<1>12. CASE AnswerLost \/ Reload
  BY <1>11, <1>12 DEF AnswerLost, Reload, Disowned
<1>13. CASE Restart
  <2>1. handlers' = {}
    BY <1>13 DEF Restart
  <2>2. QED
    BY <2>1 DEF RequestsKnown
<1>14. CASE \/ Edit \/ StartOver \/ BuildAnswers \/ BuildFails \/ SendPayment \/ SaveSignature
            \/ RecordCreated \/ PressOpen \/ PitRefused \/ BuildDeposit \/ SeatFails
            \/ SendDeposit \/ DepositHeard \/ ConfirmDeposit \/ FinishSeat \/ CancelPeeks
  BY <1>4, <1>14 DEF Edit, StartOver, BuildAnswers, BuildFails, SendPayment, SaveSignature,
       RecordCreated, PressOpen, PitRefused, BuildDeposit, SeatFails, SendDeposit, DepositHeard,
       ConfirmDeposit, FinishSeat, CancelPeeks, serverVars
<1>15. CASE \/ \E i \in DOMAIN pits : CancelCommits(i)
            \/ \E b, c \in BOOLEAN : Quote(b, c) \/ OpenPit(b)
  BY <1>4, <1>15 DEF CancelCommits, Quote, OpenPit, serverVars
<1>16. CASE \/ UNCHANGED hostingVars
            \/ \E fate \in Fates : \/ \E t \in DOMAIN txs : PaymentEnds(t, fate)
                                   \/ \E i \in DOMAIN pits : DepositEnds(i, fate)
            \/ \E d \in Draft : QuoteExpires(d)
  BY <1>4, <1>16 DEF hostingVars, PaymentEnds, DepositEnds, QuoteExpires, serverVars
<1>17. QED
  BY <1>6, <1>7, <1>9, <1>10, <1>12, <1>13, <1>14, <1>15, <1>16 DEF HostingNext

-----------------------------------------------------------------------------
(* The page and its quote. *)

(* Hosted, after the step. *)
HostedThen(d) ==
    /\ d \in Draft /\ sessions'[d] = "listed"
    /\ \E t \in DOMAIN txs' : txs'[t].draft = d /\ txs'[t].status = "landed"
    /\ faults'.writes = 0 => (IF cache'[d] # "none" THEN cache'[d] ELSE rows'[d]) = "registered"

LEMMA HostedAfter ==
  /\ \A d : Hosted(d)' <=> HostedThen(d)
  /\ Hosted(page.quote)' <=> HostedThen(page'.quote)
  /\ Hosted(disk.quote)' <=> HostedThen(disk'.quote)
  /\ \A i : Hosted(pits[i].draft)' <=> HostedThen(pits'[i].draft)
BY DEF HostedThen, Hosted, PaidAndListed, Paid, Hostable, GetDraft

LEMMA HostedStays ==
  ASSUME HostingInv, [HostingNext]_hostingVars
  PROVE  \A d : Hosted(d) => HostedThen(d)
BY RegisteredKept, HostedAfter

(* A page at rest, or on its way to a seat, has nothing to remember but its quote. *)
LEMMA RestingPage ==
  ASSUME HostingInv, UNCHANGED disk, SameQuote(page'),
         page'.at \notin Creating, page'.at = "opening" => page.quote # NoDraft
  PROVE  PageInStep'
BY DEF HostingInv, PageInStep, SameQuote, Creating

LEMMA ClearedPage ==
  ASSUME page \in Pages, PageClears
  PROVE  PageInStep'
<1>1. page'.at = "idle" /\ page'.quote = NoDraft /\ ~page'.created
  BY PageForms DEF PageClears
<1>2. QED
  BY <1>1 DEF PageInStep, Creating

LEMMA PageStaysInStep ==
  ASSUME HostingInv, [HostingNext]_hostingVars, PageStays
  PROVE  PageInStep'
<1>1. PageInStep /\ page \in Pages /\ UNCHANGED disk /\ PaymentsGoOn
  BY PageStaysForm, PaymentsForward DEF HostingInv, ClientTypeOK
<1>2. CASE UNCHANGED page
  <2>1. page'.at = "recording" => HostedThen(page'.quote)
    BY <1>1, <1>2, HostedStays DEF PageInStep
  <2>2. QED
    BY <1>1, <1>2, <2>1, HostedAfter DEF PageInStep, PaymentsGoOn
<1>3. CASE page' = To("opening") /\ ~UNCHANGED page
  <2>1. PressOpen
    BY <1>1, <1>3, PageForms DEF PageStays, BuildFails, AnswerLost, PressOpen, PitRefused,
       BuildDeposit, SeatFails, SendDeposit, DepositHeard, ConfirmDeposit, Restart, CancelPeeks, CancelCommits, PaymentEnds,
       DepositEnds, QuoteExpires, hostingVars, To, Idle, Pages
  <2>2. page.quote # NoDraft
    BY <1>1, <2>1 DEF PressOpen, PageInStep
  <2>3. QED
    BY <1>1, <1>3, <2>2, RestingPage, PageForms DEF Creating
<1>4. CASE page' \in {Idle, To("depositing"), To("cancelling"), To("depositSending"), To("depositConfirming"),
                       To("finishing")}
  BY <1>1, <1>4, RestingPage, PageForms DEF Creating, Seating
<1>5. QED
  BY <1>2, <1>3, <1>4, PageStaysForm

LEMMA ReplyInStep ==
  ASSUME HostingInv, [HostingNext]_hostingVars, NEW h \in handlers, NEW answer,
         Reply(h, answer), answer = "ok" /\ h.mine => HostedThen(h.draft)
  PROVE  PageInStep'
<1>1. PageInStep /\ page \in Pages /\ disk \in Disks /\ PaymentsGoOn /\ OneRequest
  BY PaymentsForward, RequestsSplit DEF HostingInv, ClientTypeOK
<1>2. h.mine => page.at = "registering" /\ h.draft = page.quote
  BY <1>1 DEF OneRequest
<1>3. CASE UNCHANGED <<page, disk>>
  <2>1. page'.at = "recording" => HostedThen(page'.quote)
    BY <1>1, <1>3, HostedStays DEF PageInStep
  <2>2. QED
    BY <1>1, <1>3, <2>1, HostedAfter DEF PageInStep, PaymentsGoOn
<1>4. CASE h.mine /\ page' = Idle /\ UNCHANGED disk
  BY <1>1, <1>4, RestingPage, PageForms DEF Creating
<1>5. CASE h.mine /\ page' = Requoted /\ disk' = ClearHostMarket(Forget(disk, h.draft))
  <2>1. page'.at = "idle" /\ page'.quote = NoDraft /\ ~page'.created
    BY <1>1, <1>5, PageForms
  <2>2. QED
    BY <2>1 DEF PageInStep, Creating
<1>6. CASE /\ h.mine /\ answer = "ok"
           /\ page' = To("recording") /\ disk' = Forget(disk, h.draft)
  <2>1. page'.at = "recording" /\ page'.quote = page.quote /\ page'.created = page.created
    BY <1>1, <1>6, PageForms DEF Creating, SameQuote
  <2>2. disk'.quote = disk.quote /\ disk'.created = disk.created
    BY <1>1, <1>6 DEF Forget, Remember, Disks
  <2>3. page.quote # NoDraft /\ ~page.created
    BY <1>1, <1>2, <1>6 DEF PageInStep, Creating
  <2>4. HostedThen(page'.quote)
    BY <1>2, <1>6, <2>1
  <2>5. QED
    BY <1>1, <2>1, <2>2, <2>3, <2>4, HostedAfter DEF PageInStep
<1>7. QED
  BY <1>3, <1>4, <1>5, <1>6 DEF Reply

LEMMA PageKept ==
  ASSUME HostingInv, [HostingNext]_hostingVars
  PROVE  PageInStep'
<1>1. /\ PageInStep /\ ServerTypeOK /\ ClientTypeOK /\ SignaturesKnown
      /\ page \in Pages /\ disk \in Disks /\ PaymentsGoOn
  BY PaymentsForward DEF HostingInv, ClientTypeOK
<1>2. page.quote # NoDraft => page.quote \in Draft
  BY <1>1 DEF Pages
<1>3. CASE PageStays
  BY <1>3, PageStaysInStep
<1>4. CASE PageClears
  BY <1>1, <1>4, ClearedPage
<1>5. ASSUME NEW ok \in BOOLEAN, NEW answered \in BOOLEAN, Quote(ok, answered)
      PROVE  PageInStep'
  <2>1. page.at = "idle"
    BY <1>5 DEF Quote
  <2>2. CASE UNCHANGED <<page, disk>>
    BY <1>1, <2>1, <2>2, RestingPage DEF SameQuote, Creating
  <2>3. CASE /\ NextDraft \in Draft
             /\ page' = [page EXCEPT !.quote = NextDraft, !.created = FALSE]
             /\ disk' = SaveHostMarket(disk, NextDraft, FALSE)
    <3>1. page'.at = "idle" /\ page'.quote = NextDraft /\ page'.created = FALSE
      BY <1>1, <2>1, <2>3 DEF Pages
    <3>2. disk'.quote = NextDraft /\ disk'.created = FALSE
      BY <1>1, <2>3 DEF SaveHostMarket, Disks
    <3>3. NextDraft # NoDraft
      BY <2>3 DEF Draft, NoDraft
    <3>4. QED
      BY <3>1, <3>2, <3>3 DEF PageInStep, Creating
  <2>4. QED
    BY <1>5, <2>2, <2>3 DEF Quote, NextDraft
<1>6. CASE PressCreate
  <2>1. page.quote \in Draft /\ page.quote # NoDraft /\ ~page.created
    BY <1>2, <1>6 DEF PressCreate
  <2>2. CASE /\ Pending(page.quote)
             /\ page' = [To("registering") EXCEPT !.sig = disk.sigs[page.quote]]
             /\ UNCHANGED disk
    <3>1. To("registering") \in Pages /\ To("registering").at = "registering" /\ SameQuote(To("registering"))
      BY <1>1, PageForms DEF Creating
    <3>2. page'.at = "registering" /\ SameQuote(page') /\ page'.sig = disk.sigs[page.quote]
      BY <2>2, <3>1 DEF Pages, SameQuote
    <3>3. disk.sigs[page.quote] # NoSig
      BY <2>2 DEF Pending
    <3>4. QED
      BY <1>1, <2>1, <2>2, <3>2, <3>3 DEF PageInStep, Creating, SameQuote
  <2>3. CASE page' = To("building") /\ disk' = SaveHostMarket(disk, page.quote, FALSE)
    <3>1. page'.at = "building" /\ SameQuote(page')
      BY <1>1, <2>3, PageForms DEF Creating
    <3>2. disk'.quote = page.quote /\ disk'.created = FALSE
      BY <1>1, <2>3 DEF SaveHostMarket, Disks
    <3>3. page.created = FALSE
      BY <1>1, <2>1 DEF Pages
    <3>4. QED
      BY <2>1, <3>1, <3>2, <3>3 DEF PageInStep, Creating, SameQuote
  <2>4. QED
    BY <1>6, <2>2, <2>3 DEF PressCreate
<1>7. CASE BuildAnswers
  <2>1. CASE page' = Idle /\ UNCHANGED disk
    BY <1>1, <2>1, RestingPage, PageForms DEF Creating
  <2>2. CASE page' = To("signing") /\ UNCHANGED disk
    <3>1. page'.at = "signing" /\ SameQuote(page')
      BY <1>1, <2>2, PageForms DEF Creating
    <3>2. page.at = "building"
      BY <1>7 DEF BuildAnswers
    <3>3. QED
      BY <1>1, <2>2, <3>1, <3>2 DEF PageInStep, Creating, SameQuote
  <2>3. QED
    BY <1>4, <1>7, <2>1, <2>2 DEF BuildAnswers, PageClears
<1>8. CASE SendPayment
  <2>1. page.at = "signing" /\ UNCHANGED disk /\ page' = [To("sending") EXCEPT !.sig = Len(txs) + 1]
    BY <1>8 DEF SendPayment
  <2>2. To("sending") \in Pages /\ To("sending").at = "sending" /\ SameQuote(To("sending"))
    BY <1>1, PageForms DEF Creating
  <2>3. page'.at = "sending" /\ SameQuote(page') /\ page'.sig = Len(txs) + 1
    BY <2>1, <2>2 DEF Pages, SameQuote
  <2>4. /\ txs' = Append(txs, [draft |-> page.quote, status |-> "sent",
                              spent |-> FALSE, known |-> FALSE])
        /\ txs \in Seq(Txs)
    BY <1>1, <1>8 DEF SendPayment, ClientTypeOK
  <2>5. Len(txs) + 1 \in DOMAIN txs' /\ txs'[Len(txs) + 1].draft = page.quote
    BY <2>4
  <2>6. QED
    BY <1>1, <2>1, <2>3, <2>5 DEF PageInStep, Creating, SameQuote
<1>9. CASE SaveSignature
  <2>1. /\ page.at = "sending"
        /\ page' = To("confirming") /\ disk' = Remember(disk, page.quote, page.sig)
    BY <1>9 DEF SaveSignature
  <2>2. page.quote \in Draft /\ page.sig # NoSig /\ ~page.created /\ page.quote # NoDraft
    <3>1. page.sig \in DOMAIN txs /\ DOMAIN txs = 1..Len(txs) /\ Len(txs) \in Nat
      BY <1>1, <2>1 DEF PageInStep, ClientTypeOK
    <3>2. QED
      BY <1>1, <1>2, <2>1, <3>1 DEF PageInStep, Creating, NoSig
  <2>3. page'.at = "confirming" /\ SameQuote(page') /\ page'.sig = page.sig
    BY <1>1, <2>1, PageForms DEF Creating
  <2>4. /\ disk'.quote = disk.quote /\ disk'.created = disk.created
        /\ disk'.sigs[page.quote] = page.sig
    BY <1>1, <2>1, <2>2 DEF Remember, Disks
  <2>5. QED
    BY <1>1, <2>2, <2>3, <2>4 DEF PageInStep, SameQuote
<1>10. CASE ConfirmPayment
  <2>1. page.at = "confirming" /\ page.quote \in Draft
    BY <1>1, <1>2, <1>10 DEF ConfirmPayment, PageInStep, Creating
  <2>2. CASE page' = Idle /\ disk' = Forget(disk, page.quote)
    <3>1. page'.at = "idle" /\ SameQuote(page')
      BY <1>1, <2>2, PageForms
    <3>2. disk'.quote = disk.quote /\ disk'.created = disk.created
      BY <1>1, <2>2 DEF Forget, Remember, Disks
    <3>3. QED
      BY <1>1, <3>1, <3>2 DEF PageInStep, Creating, SameQuote
  <2>3. CASE page' = To("registering") /\ UNCHANGED disk
    <3>1. page'.at = "registering" /\ SameQuote(page') /\ page'.sig = page.sig
      BY <1>1, <2>3, PageForms DEF Creating
    <3>2. QED
      BY <1>1, <2>1, <2>3, <3>1 DEF PageInStep, Creating, SameQuote
  <2>4. QED
    BY <1>10, <2>2, <2>3 DEF ConfirmPayment, Confirmed
<1>11. ASSUME NEW h \in handlers, ServerAsks(h)
       PROVE  PageInStep'
  <2>1. h.draft \in Draft
    BY <1>1 DEF ServerTypeOK, Handlers
  <2>2. CASE UNCHANGED <<page, disk>>
    <3>1. page'.at = "recording" => HostedThen(page'.quote)
      BY <1>1, <2>2, HostedStays DEF PageInStep
    <3>2. QED
      BY <1>1, <2>2, <3>1, HostedAfter DEF PageInStep, PaymentsGoOn
  <2>3. CASE GetDraft(h.draft) = "registered" /\ Reply(h, "ok")
    <3>1. Hosted(h.draft)
      BY <2>1, <2>3 DEF HostingInv, RegisteredIsPaid, GetDraft, Hosted, Hostable
    <3>2. QED
      BY <2>3, <3>1, HostedStays, ReplyInStep
  <2>4. CASE \E answer : answer # "ok" /\ Reply(h, answer)
    BY <2>4, ReplyInStep
  <2>5. QED
    BY <1>11, <2>2, <2>3, <2>4 DEF ServerAsks
<1>12. ASSUME NEW h \in handlers, NEW ok \in BOOLEAN, ServerMarks(h, ok)
       PROVE  PageInStep'
  <2>1. h.draft \in Draft /\ PaidAndListed(h.draft)
    BY <1>12 DEF ServerMarks, HostingInv, RequestsKnown, ServerTypeOK, Handlers
  <2>2. CASE ok
    <3>1. cache'[h.draft] = "registered"
      BY <1>1, <1>12, <2>1 DEF ServerMarks, Persist, ServerTypeOK
    <3>2. Hosted(h.draft)'
      BY <2>1, <3>1, PaidStays DEF Hosted, Hostable, GetDraft
    <3>3. Reply(h, "ok")
      BY <1>12, <2>2 DEF ServerMarks
    <3>4. QED
      BY <3>2, <3>3, HostedAfter, ReplyInStep
  <2>3. CASE ~ok
    BY <1>12, <2>3, ReplyInStep DEF ServerMarks
  <2>4. QED
    BY <2>2, <2>3
<1>13. CASE RecordCreated
  <2>1. page.quote \in Draft /\ page.quote # NoDraft
    BY <1>1, <1>2, <1>13 DEF RecordCreated, PageInStep, Creating
  <2>2. To("opening") \in Pages /\ To("opening").at = "opening" /\ SameQuote(To("opening"))
    BY <1>1, PageForms
  <2>3. page'.at = "opening" /\ page'.quote = page.quote /\ page'.created
    BY <1>13, <2>2 DEF RecordCreated, Pages, SameQuote
  <2>4. disk'.quote = page.quote /\ disk'.created
    BY <1>1, <1>13, <2>1 DEF RecordCreated, SaveHostMarket, Disks
  <2>5. QED
    BY <2>1, <2>3, <2>4 DEF PageInStep, Creating
<1>14. ASSUME NEW answered \in BOOLEAN, OpenPit(answered)
       PROVE  PageInStep'
  <2>1. CASE page' = Idle
    BY <1>1, <1>14, <2>1, RestingPage, PageForms DEF OpenPit, Creating
  <2>2. CASE page' = [To("seating") EXCEPT !.pit = Len(pits) + 1]
    <3>1. To("seating") \in Pages /\ To("seating").at = "seating" /\ SameQuote(To("seating"))
      BY <1>1, PageForms DEF Seating
    <3>2. page'.at = "seating" /\ SameQuote(page')
      BY <2>2, <3>1 DEF Pages, SameQuote
    <3>3. QED
      BY <1>14, <3>2, RestingPage DEF OpenPit, Creating
  <2>3. QED
    BY <1>14, <2>1, <2>2 DEF OpenPit
<1>15. CASE FinishSeat
  <2>1. CASE page' = Idle /\ UNCHANGED disk
    BY <1>1, <2>1, RestingPage, PageForms DEF Creating
  <2>2. QED
    BY <1>4, <1>15, <2>1 DEF FinishSeat, PageClears, SeatUnfinished
<1>16. CASE Edit \/ StartOver
  BY <1>4, <1>16 DEF Edit, StartOver, PageClears
<1>17. CASE Reload
  <2>1. page' = Restored /\ UNCHANGED disk
    BY <1>17 DEF Reload
  <2>2. disk.created => disk.quote # NoDraft
    BY DEF HostingInv, CreatedIsHosted, Hosted, Draft, NoDraft
  <2>3. QED
    BY <1>1, <2>1, <2>2, RestoredForm DEF PageInStep, Creating
<1>18. QED
  BY <1>3, <1>5, <1>6, <1>7, <1>8, <1>9, <1>10, <1>11, <1>12, <1>13, <1>14, <1>15, <1>16, <1>17
     DEF HostingNext, PageStays

(* Whatever is called created after a step was so before, or the page was recording it. *)
CreatedBefore(d) ==
    \/ page.created /\ d = page.quote
    \/ disk.created /\ d = disk.quote
    \/ page.at = "recording" /\ d = page.quote

CreatedComesFrom ==
    /\ page'.created => CreatedBefore(page'.quote)
    /\ disk'.created => CreatedBefore(disk'.quote)

LEMMA SameIsCreatedBefore ==
  ASSUME SameQuote(page') \/ ~page'.created,
         (disk'.quote = disk.quote /\ disk'.created = disk.created) \/ ~disk'.created
  PROVE  CreatedComesFrom
BY DEF SameQuote, CreatedComesFrom, CreatedBefore

LEMMA NothingNewIsCreated ==
  ASSUME HostingInv, [HostingNext]_hostingVars
  PROVE  CreatedComesFrom
<1>1. /\ PageInStep /\ ServerTypeOK /\ ClientTypeOK /\ page \in Pages /\ disk \in Disks
  BY DEF HostingInv, ClientTypeOK
<1>2. page.quote # NoDraft => page.quote \in Draft
  BY <1>1 DEF Pages
<1>3. CASE PageStays
  <2>1. UNCHANGED disk /\ SameQuote(page')
    BY <1>1, <1>3, PageStaysForm, PageForms DEF SameQuote, Seating
  <2>2. QED
    BY <2>1, SameIsCreatedBefore
<1>4. CASE PageClears
  <2>1. ~page'.created /\ ~disk'.created
    BY <1>1, <1>4, PageForms DEF PageClears, ClearHostMarket, Disks
  <2>2. QED
    BY <2>1, SameIsCreatedBefore
<1>5. ASSUME NEW d \in Draft, disk' \in {disk, Forget(disk, d), Remember(disk, d, page.sig)},
             page' \in {page, Idle} \cup {To(at) : at \in Creating}
      PROVE  CreatedComesFrom
  <2>1. disk'.quote = disk.quote /\ disk'.created = disk.created
    BY <1>1, <1>5 DEF Forget, Remember, Disks
  <2>2. SameQuote(page) /\ SameQuote(Idle) /\ \A at \in Creating : SameQuote(To(at))
    BY <1>1, PageForms DEF SameQuote
  <2>3. SameQuote(page')
    BY <1>5, <2>2
  <2>4. QED
    BY <2>1, <2>3, SameIsCreatedBefore
<1>6. ASSUME NEW ok \in BOOLEAN, NEW answered \in BOOLEAN, Quote(ok, answered)
      PROVE  CreatedComesFrom
  <2>1. CASE UNCHANGED <<page, disk>>
    BY <2>1, SameIsCreatedBefore DEF SameQuote
  <2>2. CASE /\ page' = [page EXCEPT !.quote = NextDraft, !.created = FALSE]
             /\ disk' = SaveHostMarket(disk, NextDraft, FALSE)
    <3>1. ~page'.created /\ ~disk'.created
      BY <1>1, <2>2 DEF Pages, SaveHostMarket, Disks
    <3>2. QED
      BY <3>1, SameIsCreatedBefore
  <2>3. QED
    BY <1>6, <2>1, <2>2 DEF Quote, NextDraft
<1>7. CASE PressCreate
  <2>1. ~page.created
    BY <1>7 DEF PressCreate
  <2>2. page' = To("building") \/ page' = [To("registering") EXCEPT !.sig = disk.sigs[page.quote]]
    BY <1>7 DEF PressCreate
  <2>3. page'.created = page.created
    <3>1. \A at \in {"building", "registering"} : To(at) \in Pages /\ To(at).created = page.created
      BY <1>1, PageForms DEF Creating, SameQuote
    <3>2. QED
      BY <2>2, <3>1 DEF Pages
  <2>4. UNCHANGED disk \/ ~disk'.created
    BY <1>1, <1>7 DEF PressCreate, SaveHostMarket, Disks
  <2>5. QED
    BY <2>1, <2>3, <2>4, SameIsCreatedBefore
<1>8. CASE BuildAnswers
  <2>1. page.at = "building" /\ page.quote \in Draft
    BY <1>1, <1>2, <1>8 DEF BuildAnswers, PageInStep, Creating
  <2>2. PageClears \/ (page' \in {Idle, To("signing")} /\ UNCHANGED disk)
    BY <1>8 DEF BuildAnswers, PageClears
  <2>3. QED
    BY <1>4, <1>5, <2>1, <2>2 DEF Creating
<1>9. CASE SendPayment
  <2>1. To("sending") \in Pages /\ SameQuote(To("sending"))
    BY <1>1, PageForms DEF Creating
  <2>2. UNCHANGED disk /\ SameQuote(page')
    BY <1>9, <2>1 DEF SendPayment, Pages, SameQuote
  <2>3. QED
    BY <2>2, SameIsCreatedBefore
<1>10. CASE SaveSignature \/ ConfirmPayment
  <2>1. page.quote \in Draft
    BY <1>1, <1>2, <1>10 DEF SaveSignature, ConfirmPayment, PageInStep, Creating
  <2>2. /\ page' \in {Idle, To("confirming"), To("registering")}
        /\ disk' \in {disk, Forget(disk, page.quote), Remember(disk, page.quote, page.sig)}
    BY <1>10 DEF SaveSignature, ConfirmPayment, Confirmed
  <2>3. QED
    BY <1>5, <2>1, <2>2 DEF Creating
<1>11. ASSUME NEW h \in handlers, NEW answer, Reply(h, answer)
       PROVE  CreatedComesFrom
  <2>1. h.draft \in Draft
    BY <1>1 DEF ServerTypeOK, Handlers
  <2>2. CASE page' = Requoted /\ disk' = ClearHostMarket(Forget(disk, h.draft))
    <3>1. Forget(disk, h.draft) \in Disks
      BY <1>1, <2>1, DiskForms
    <3>2. ~page'.created /\ ~disk'.created
      BY <1>1, <2>2, <3>1, PageForms DEF ClearHostMarket, Disks
    <3>3. QED
      BY <3>2, SameIsCreatedBefore
  <2>3. QED
    BY <1>5, <1>11, <2>1, <2>2 DEF Reply, Creating
<1>12. ASSUME NEW h \in handlers, ServerAsks(h) \/ \E ok \in BOOLEAN : ServerMarks(h, ok)
       PROVE  CreatedComesFrom
  <2>1. (\E answer : Reply(h, answer)) \/ UNCHANGED <<page, disk>>
    BY <1>12 DEF ServerAsks, ServerMarks
  <2>2. QED
    BY <1>11, <2>1, SameIsCreatedBefore DEF SameQuote
<1>13. CASE RecordCreated
  <2>1. page.at = "recording" /\ page.quote \in Draft
    BY <1>1, <1>2, <1>13 DEF RecordCreated, PageInStep, Creating
  <2>2. To("opening") \in Pages /\ SameQuote(To("opening"))
    BY <1>1, PageForms
  <2>3. page'.quote = page.quote
    BY <1>13, <2>2 DEF RecordCreated, Pages, SameQuote
  <2>4. disk'.quote = page.quote
    BY <1>1, <1>13, <2>1 DEF RecordCreated, SaveHostMarket, Disks
  <2>5. QED
    BY <2>1, <2>3, <2>4 DEF CreatedComesFrom, CreatedBefore
<1>14. ASSUME NEW answered \in BOOLEAN, OpenPit(answered)
       PROVE  CreatedComesFrom
  <2>1. To("seating") \in Pages /\ SameQuote(To("seating")) /\ SameQuote(Idle)
    BY <1>1, PageForms DEF Seating
  <2>2. UNCHANGED disk /\ SameQuote(page')
    BY <1>14, <2>1 DEF OpenPit, Pages, SameQuote
  <2>3. QED
    BY <2>2, SameIsCreatedBefore
<1>15. CASE FinishSeat
  <2>1. CASE page' = Idle /\ UNCHANGED disk
    <3>1. SameQuote(page')
      BY <1>1, <2>1, PageForms
    <3>2. QED
      BY <2>1, <3>1, SameIsCreatedBefore
  <2>2. QED
    BY <1>4, <1>15, <2>1 DEF FinishSeat, PageClears, SeatUnfinished
<1>16. CASE Edit \/ StartOver
  BY <1>4, <1>16 DEF Edit, StartOver, PageClears
<1>17. CASE Reload
  BY <1>1, <1>17, RestoredForm DEF Reload, CreatedComesFrom, CreatedBefore
<1>18. QED
  BY <1>3, <1>6, <1>7, <1>8, <1>9, <1>10, <1>12, <1>13, <1>14, <1>15, <1>16, <1>17
     DEF HostingNext, PageStays

-----------------------------------------------------------------------------
(* Pits. *)

(* A pit that is new after a step is the one OpenPit added. *)
LEMMA OldPits ==
  ASSUME HostingInv, [HostingNext]_hostingVars, ~ \E answered \in BOOLEAN : OpenPit(answered)
  PROVE  DOMAIN pits' = DOMAIN pits
<1>1. ClientTypeOK /\ pits \in Seq(Pits)
  BY DEF HostingInv, ClientTypeOK
<1>2. UNCHANGED pits \/ DOMAIN pits' = DOMAIN pits
  <2>1. CASE SendDeposit \/ DepositHeard \/ CancelPeeks \/ Restart
    BY <2>1 DEF SendDeposit, DepositHeard, CancelPeeks, Restart
  <2>2. CASE \/ \E fate \in Fates, i \in DOMAIN pits : DepositEnds(i, fate)
             \/ \E i \in DOMAIN pits : CancelCommits(i)
    BY <2>2 DEF DepositEnds, CancelCommits
  <2>3. CASE /\ ~(SendDeposit \/ DepositHeard \/ CancelPeeks \/ Restart)
             /\ ~ \E i \in DOMAIN pits : CancelCommits(i)
             /\ ~ \E fate \in Fates, i \in DOMAIN pits : DepositEnds(i, fate)
    BY <2>3 DEF HostingNext, Quote, Edit, StartOver, PressCreate, BuildAnswers,
         BuildFails, SendPayment, SaveSignature, ConfirmPayment, ServerAsks, ServerMarks,
         AnswerLost, RecordCreated, PressOpen, PitRefused, BuildDeposit, SeatFails,
         ConfirmDeposit, FinishSeat, PaymentEnds, QuoteExpires, Reload, hostingVars
  <2>4. QED
    BY <2>1, <2>2, <2>3
<1>3. QED
  BY <1>1, <1>2

LEMMA CreatedKept ==
  ASSUME HostingInv, [HostingNext]_hostingVars
  PROVE  CreatedIsHosted'
<1>1. /\ CreatedIsHosted /\ PageInStep /\ RegisteredIsPaid /\ PitsGoOn
      /\ \A d : Hosted(d) => HostedThen(d)
  BY PitsForward, HostedStays DEF HostingInv
<1>2. \A d : CreatedBefore(d) => HostedThen(d)
  BY <1>1 DEF CreatedBefore, CreatedIsHosted, PageInStep
<1>3. /\ page'.created => HostedThen(page'.quote)
      /\ disk'.created => HostedThen(disk'.quote)
  BY <1>2, NothingNewIsCreated DEF CreatedComesFrom
<1>4. \A i \in DOMAIN pits : HostedThen(pits'[i].draft)
  BY <1>1 DEF CreatedIsHosted, PitsGoOn
<1>5. \A i \in DOMAIN pits' : HostedThen(pits'[i].draft)
  <2>1. ASSUME NEW answered \in BOOLEAN, OpenPit(answered), NEW i \in DOMAIN pits'
        PROVE  HostedThen(pits'[i].draft)
    <3>1. /\ pits' = Append(pits, [draft |-> page.quote, status |-> "open", deposit |-> "none",
                                   heard |-> FALSE, closing |-> FALSE])
          /\ Hostable(page.quote)
      BY <2>1 DEF OpenPit
    <3>2. page.quote \in Draft
      BY <1>1, <2>1 DEF OpenPit, PageInStep, HostingInv, ClientTypeOK, Pages
    <3>3. Hosted(page.quote)
      BY <1>1, <3>1, <3>2 DEF Hosted, Hostable, GetDraft, RegisteredIsPaid
    <3>4. i \in DOMAIN pits \/ pits'[i].draft = page.quote
      BY <3>1 DEF HostingInv, ClientTypeOK
    <3>5. QED
      BY <1>1, <1>4, <3>3, <3>4
  <2>2. QED
    BY <1>4, <2>1, OldPits
<1>6. QED
  BY <1>3, <1>5, HostedAfter DEF CreatedIsHosted

LEMMA HeardKept ==
  ASSUME HostingInv, [HostingNext]_hostingVars
  PROVE  HeardStands'
<1>1. HeardStands /\ DepositKnown /\ PitsGoOn
  BY PitsForward DEF HostingInv
<1>2. ASSUME NEW i \in DOMAIN pits', pits'[i].heard
      PROVE  pits'[i].deposit # "failed" /\ ~pits'[i].closing
  <2>1. /\ i \in DOMAIN pits /\ pits'[i].deposit # "failed"
        /\ pits[i].heard \/ (DepositHeard /\ i = page.pit)
        /\ pits'[i].closing => pits[i].closing \/ (page.at = "cancelling" /\ i = page.pit)
    BY <1>1, <1>2 DEF PitsGoOn
  <2>2. CASE pits[i].heard
    BY <1>1, <2>1, <2>2 DEF HeardStands, DepositKnown, Seating
  <2>3. CASE DepositHeard /\ i = page.pit
    BY <1>1, <2>1, <2>3 DEF DepositHeard, DepositKnown, Seating
  <2>4. QED
    BY <2>1, <2>2, <2>3
<1>3. QED
  BY <1>2 DEF HeardStands

(* The stages of a seat that follow one another. *)
SeatingGoesOn ==
    /\ page.at \in Seating /\ page'.pit = page.pit
    /\ \/ page'.at = page.at /\ ~SendDeposit /\ ~DepositHeard
       \/ page.at = "seating" /\ page'.at = "depositing" /\ ~SendDeposit /\ ~DepositHeard
       \/ page.at = "depositing" /\ page'.at = "depositSending" /\ ~DepositHeard
       \/ page.at = "depositSending" /\ page'.at = "depositConfirming"
       \/ page.at = "depositConfirming" /\ page'.at = "finishing"
       \/ /\ page.at \in {"seating", "depositing", "depositSending"} /\ ~DepositHeard
          /\ page'.at = "cancelling"
       \/ /\ page.at = "depositConfirming" /\ pits[page.pit].deposit = "failed" /\ ~DepositHeard
          /\ page'.at = "cancelling"

LEMMA SeatStays ==
  ASSUME HostingInv, [HostingNext]_hostingVars, SeatingGoesOn
  PROVE  DepositKnown'
<1>1. HeardStands /\ DepositKnown /\ PitsGoOn
  BY PitsForward DEF HostingInv
<1> DEFINE i == page.pit
<1>2. /\ i \in DOMAIN pits /\ i \in DOMAIN pits' /\ page'.pit = i
      /\ pits'[i].closing => pits[i].closing \/ page.at = "cancelling"
      /\ pits'[i].heard => pits[i].heard \/ DepositHeard
      /\ pits[i].deposit = "none" /\ ~SendDeposit => pits'[i].deposit = "none"
      /\ pits[i].heard => pits[i].deposit # "failed"
      /\ page.at # "cancelling" => ~pits[i].closing
      /\ page.at \in {"seating", "depositing"} => pits[i].deposit = "none"
      /\ page.at \notin {"depositConfirming", "finishing"} => ~pits[i].heard
  BY <1>1 DEF SeatingGoesOn, DepositKnown, PitsGoOn, HeardStands
<1> HIDE DEF i
<1>3. /\ page'.at \in {"seating", "depositing"} => pits'[i].deposit = "none"
      /\ page'.at # "cancelling" => ~pits'[i].closing
      /\ page'.at \notin {"depositConfirming", "finishing"} => ~pits'[i].heard
  BY <1>2 DEF SeatingGoesOn, i
<1>4. QED
  BY <1>2, <1>3 DEF DepositKnown

LEMMA DepositKept ==
  ASSUME HostingInv, [HostingNext]_hostingVars
  PROVE  DepositKnown'
<1>1. /\ DepositKnown /\ ClientTypeOK /\ page \in Pages /\ disk \in Disks /\ pits \in Seq(Pits) /\ PitsGoOn
  BY PitsForward DEF HostingInv, ClientTypeOK
<1>2. CASE page'.at \notin Seating
  BY <1>2 DEF DepositKnown
<1>3. CASE UNCHANGED page /\ ~SendDeposit /\ ~DepositHeard
  BY <1>2, <1>3, SeatStays DEF SeatingGoesOn
<1>4. ASSUME NEW answered \in BOOLEAN, OpenPit(answered)
      PROVE  DepositKnown'
  <2>1. CASE page' = Idle
    BY <1>1, <1>2, <2>1, PageForms DEF Seating, Creating
  <2>2. CASE page' = [To("seating") EXCEPT !.pit = Len(pits) + 1]
    <3>1. To("seating") \in Pages /\ To("seating").at = "seating"
      BY <1>1, PageForms DEF Seating
    <3>2. page'.at = "seating" /\ page'.pit = Len(pits) + 1
      BY <1>1, <2>2, <3>1 DEF Pages
    <3>3. Len(pits) + 1 \in DOMAIN pits' /\ Len(pits) + 1 \notin DOMAIN pits
      BY <1>1, <1>4 DEF OpenPit
    <3>4. QED
      BY <1>1, <3>2, <3>3 DEF DepositKnown, PitsGoOn
  <2>3. QED
    BY <1>4, <2>1, <2>2 DEF OpenPit
<1>5. CASE BuildDeposit \/ SeatFails \/ SendDeposit \/ DepositHeard \/ ConfirmDeposit
  <2>1. \A at \in Seating : To(at).at = at /\ To(at).pit = page.pit
    BY <1>1, PageForms
  <2>2. SeatingGoesOn
    BY <1>5, <2>1 DEF BuildDeposit, SeatFails, SendDeposit, DepositHeard, ConfirmDeposit,
         SeatingGoesOn, Seating
  <2>3. QED
    BY <2>2, SeatStays
<1>6. ASSUME NEW h \in handlers, ServerAsks(h) \/ \E ok \in BOOLEAN : ServerMarks(h, ok)
      PROVE  DepositKnown'
  <2>1. UNCHANGED pits /\ ((\E answer : Reply(h, answer)) \/ UNCHANGED page)
    BY <1>6 DEF ServerAsks, ServerMarks
  <2>2. page' \in {page, To("recording"), Idle, Requoted}
    BY <2>1 DEF Reply
  <2>3. UNCHANGED <<page, pits>> \/ page'.at \in {"recording", "idle"}
    BY <1>1, <2>1, <2>2, PageForms DEF Creating
  <2>4. QED
    BY <1>1, <1>2, <2>3 DEF Seating, DepositKnown
<1>7. CASE \/ UNCHANGED hostingVars \/ (\E d \in Draft : QuoteExpires(d))
           \/ (\E fate \in Fates, t \in DOMAIN txs : PaymentEnds(t, fate))
  BY <1>1, <1>7 DEF hostingVars, QuoteExpires, PaymentEnds, DepositKnown
<1>8. CASE \/ Restart \/ CancelPeeks \/ (\E i \in DOMAIN pits : CancelCommits(i))
           \/ (\E fate \in Fates, i \in DOMAIN pits : DepositEnds(i, fate))
  <2>1. UNCHANGED page \/ page' = Idle
    BY <1>8 DEF Restart, CancelPeeks, CancelCommits, DepositEnds
  <2>2. CASE page' = Idle
    BY <1>1, <1>2, <2>2, PageForms DEF Seating
  <2>3. CASE UNCHANGED page /\ (SendDeposit \/ DepositHeard)
    <3>1. page.at \in Seating /\ page'.at # page.at
      BY <1>1, <2>3, PageForms DEF SendDeposit, DepositHeard, Seating
    <3>2. QED
      BY <2>3, <3>1
  <2>4. QED
    BY <1>3, <2>1, <2>2, <2>3
<1>9. CASE \/ Edit \/ StartOver \/ BuildAnswers \/ BuildFails \/ SaveSignature \/ ConfirmPayment
           \/ AnswerLost \/ PressOpen \/ PitRefused \/ FinishSeat \/ Reload
  <2>1. page' \in {Idle, Requoted, Restored} \cup {To(at) : at \in {"opening"} \cup Creating}
    BY <1>9 DEF Edit, StartOver, BuildAnswers, BuildFails, SaveSignature, ConfirmPayment, Confirmed,
         AnswerLost, PressOpen, PitRefused, FinishSeat, SeatUnfinished, Reload, Creating
  <2>2. \A at \in {"opening"} \cup Creating : To(at).at = at
    BY <1>1, PageForms
  <2>3. page'.at \in {"idle", "opening"} \cup Creating
    BY <1>1, <2>1, <2>2, PageForms, RestoredForm
  <2>4. QED
    BY <1>2, <2>3 DEF Seating, Creating
<1>10. CASE PressCreate \/ SendPayment \/ RecordCreated
  <2>1. \A at \in {"opening", "registering", "building", "sending"} : To(at) \in Pages /\ To(at).at = at
    BY <1>1, PageForms DEF Creating
  <2>2. page'.at \in {"opening", "registering", "building", "sending"}
    BY <1>10, <2>1 DEF PressCreate, SendPayment, RecordCreated, Pages
  <2>3. QED
    BY <1>2, <2>2 DEF Seating
<1>11. ASSUME NEW ok \in BOOLEAN, NEW answered \in BOOLEAN, Quote(ok, answered)
       PROVE  DepositKnown'
  <2>1. page'.at = "idle"
    BY <1>1, <1>11 DEF Quote, Pages
  <2>2. QED
    BY <1>2, <2>1 DEF Seating
<1>12. QED
  BY <1>4, <1>5, <1>6, <1>7, <1>8, <1>9, <1>10, <1>11 DEF HostingNext

-----------------------------------------------------------------------------
(* The invariant. *)

LEMMA InitHostingInv == HostingInit => HostingInv
<1> SUFFICES ASSUME HostingInit PROVE HostingInv
  OBVIOUS
<1>1. ServerTypeOK
  BY DEF HostingInit, ServerTypeOK, Sessions, Drafts
<1>2. ClientTypeOK
  BY DEF HostingInit, ClientTypeOK, Blank, Pages, Disks, NoDraft, NoSig
<1>3. InOrder /\ RegisteredIsPaid /\ RequestsKnown
  BY DEF HostingInit, InOrder, RegisteredIsPaid, RequestsKnown
<1>4. SignaturesKnown
  BY DEF HostingInit, SignaturesKnown
<1>5. PageInStep /\ CreatedIsHosted /\ HeardStands /\ DepositKnown
  BY DEF HostingInit, PageInStep, CreatedIsHosted, HeardStands, DepositKnown, Blank, Creating, Seating
<1>6. QED
  BY <1>1, <1>2, <1>3, <1>4, <1>5 DEF HostingInv

LEMMA NextHostingInv == HostingInv /\ [HostingNext]_hostingVars => HostingInv'
BY ServerTypes, ClientTypes, SessionsForward, RegisteredKept, SignaturesKept, RequestsKept,
   PageKept, CreatedKept, HeardKept, DepositKept DEF HostingInv

(* The inductive invariant: drafts, sessions, payments and registrations agree, the page's
   quote is the storage's, what is called created is hosted, and a pit that the page or the
   cancel route is about to cancel is not one whose deposit the page has the signature of. *)
THEOREM HostingInvariant == HostingSpec => []HostingInv
BY InitHostingInv, NextHostingInv, PTL DEF HostingSpec

(* What a page, the storage or a pit takes for created was paid for and is listed, and the
   server can open a pit on it after any number of restarts, unless a write failed. *)
THEOREM CreatedAlwaysPaidAndListed == HostingSpec => []CreatedIsPaidAndListed
<1>1. HostingInv => CreatedIsPaidAndListed
  <2> SUFFICES ASSUME HostingInv PROVE CreatedIsPaidAndListed
    OBVIOUS
  <2>1. ASSUME NEW d, Hosted(d)
        PROVE  /\ sessions[d] = "listed"
               /\ \E t \in DOMAIN txs : txs[t].draft = d /\ txs[t].status = "landed"
               /\ faults.writes = 0 => Hostable(d)
    BY <2>1 DEF Hosted, PaidAndListed, Paid
  <2>2. QED
    BY <2>1 DEF HostingInv, CreatedIsHosted, CreatedIsPaidAndListed
<1>2. QED
  BY <1>1, HostingInvariant, PTL

(* No pit is cancelled whose deposit has landed or may still land once the page has its
   signature, nor one whose deposit landed before the cancel route read the vault, whatever
   answers are lost and however often the page is reloaded or the server restarted. *)
THEOREM DepositedPitsAlwaysStand == HostingSpec => DepositedPitsStand
<1> DEFINE Stands == \A i \in DOMAIN pits : pits[i].status = "open" /\ pits'[i].status = "cancelled" =>
                         /\ ~pits[i].heard
                         /\ pits[i].deposit = "landed" => pits[i].closing
<1>1. HostingInv /\ [HostingNext]_hostingVars => [Stands]_hostingVars
  <2> SUFFICES ASSUME HostingInv, [HostingNext]_hostingVars PROVE Stands
    OBVIOUS
  <2>1. HeardStands /\ PitsGoOn
    BY PitsForward DEF HostingInv
  <2>2. ASSUME NEW i \in DOMAIN pits, pits[i].status = "open", pits'[i].status = "cancelled"
        PROVE  ~pits[i].heard /\ pits[i].closing
    BY <2>1, <2>2 DEF PitsGoOn, HeardStands
  <2>3. QED
    BY <2>2
<1>2. QED
  BY <1>1, HostingInvariant, PTL DEF HostingSpec, DepositedPitsStand

-----------------------------------------------------------------------------
(* Payments that still count. *)

LEMMA LiveBefore ==
  ASSUME HostingInv, [HostingNext]_hostingVars, ~SaveSignature, NEW t \in DOMAIN txs', Live(t)'
  PROVE  t \in DOMAIN txs /\ Live(t) /\ txs'[t].draft = txs[t].draft
<1>1. PaymentsGoOn /\ \A u \in DOMAIN txs : txs[u] \in Txs
  BY PaymentsForward DEF HostingInv, ClientTypeOK
<1>2. t \in DOMAIN txs /\ txs[t].known /\ ~txs[t].spent /\ txs'[t].draft = txs[t].draft
  BY <1>1 DEF PaymentsGoOn, Live, Txs
<1>3. txs[t].status \in {"sent", "landed"}
  BY <1>1, <1>2 DEF PaymentsGoOn, Live
<1>4. QED
  BY <1>2, <1>3 DEF Live

(* Payments are only added by SendPayment. *)
LEMMA OldPayments ==
  ASSUME HostingInv, [HostingNext]_hostingVars, ~SendPayment
  PROVE  DOMAIN txs' = DOMAIN txs
<1>1. ClientTypeOK /\ txs \in Seq(Txs)
  BY DEF HostingInv, ClientTypeOK
<1>2. \/ UNCHANGED txs \/ (\E d : txs' = Spend(d)) \/ txs' = Unsaved
      \/ DOMAIN txs' = DOMAIN txs
  <2>1. CASE StartOver \/ FinishSeat \/ Reload \/ SaveSignature
    BY <2>1 DEF StartOver, FinishSeat, Reload, SaveSignature
  <2>2. CASE \E fate \in Fates, t \in DOMAIN txs : PaymentEnds(t, fate)
    BY <2>2 DEF PaymentEnds
  <2>3. CASE ~(StartOver \/ FinishSeat \/ Reload \/ SaveSignature)
             /\ ~ \E fate \in Fates, t \in DOMAIN txs : PaymentEnds(t, fate)
    BY <2>3 DEF HostingNext, Quote, Edit, PressCreate, BuildAnswers, BuildFails,
         ConfirmPayment, ServerAsks, ServerMarks, AnswerLost, RecordCreated,
         PressOpen, OpenPit, PitRefused, BuildDeposit, SeatFails, SendDeposit, DepositHeard,
         ConfirmDeposit, CancelPeeks, CancelCommits, DepositEnds, QuoteExpires, Restart, hostingVars
  <2>4. QED
    BY <2>1, <2>2, <2>3
<1>3. QED
  BY <1>1, <1>2, SpendKeeps, UnsavedKeeps

NoneLive == \A t \in DOMAIN txs : ~Live(t)

LEMMA NoneLiveKept ==
  ASSUME HostingInv, [HostingNext]_hostingVars, ~SaveSignature, NoneLive
  PROVE  LiveIsRemembered'
<1>1. ASSUME NEW t \in DOMAIN txs' PROVE ~(Live(t)')
  BY <1>1, LiveBefore DEF NoneLive
<1>2. QED
  BY <1>1 DEF LiveIsRemembered

(* The page's quote and the signatures stay; a page that stood still remembers as well. *)
LEMMA StillRemembered ==
  ASSUME HostingInv, [HostingNext]_hostingVars, LiveIsRemembered, ~SaveSignature,
         SameQuote(page'), disk'.sigs = disk.sigs,
         \/ UNCHANGED page
         \/ /\ page.at # "recording"
            /\ page'.at \notin {"building", "signing", "sending", "recording"}
  PROVE  LiveIsRemembered'
<1>1. ASSUME NEW t \in DOMAIN txs', Live(t)'
      PROVE  /\ page'.quote = txs'[t].draft
             /\ page'.at \notin {"building", "signing", "sending"}
             /\ page'.at # "recording" => page'.created \/ disk'.sigs[page'.quote] = t
  <2>1. t \in DOMAIN txs /\ Live(t) /\ txs'[t].draft = txs[t].draft
    BY <1>1, LiveBefore
  <2>2. QED
    BY <2>1 DEF LiveIsRemembered, SameQuote
<1>2. QED
  BY <1>1 DEF LiveIsRemembered

(* A host who may ask for a new quote, edit the form or pay has no payment that counts. *)
LEMMA NoneLiveWhenFree ==
  ASSUME HostingInv, LiveIsRemembered,
         \/ page.at \in {"building", "signing", "sending"}
         \/ page.at = "idle" /\ ~page.created /\ ~Pending(page.quote)
  PROVE  NoneLive
<1>1. ASSUME NEW t \in DOMAIN txs, Live(t) PROVE FALSE
  <2>1. page.at = "idle" /\ ~page.created /\ ~Pending(page.quote) /\ disk.sigs[page.quote] = t
        /\ page.quote = txs[t].draft
    BY <1>1 DEF LiveIsRemembered
  <2>2. txs[t] \in Txs /\ t # NoSig
    BY DEF HostingInv, ClientTypeOK, NoSig
  <2>3. page.quote # NoDraft
    BY <2>1, <2>2 DEF Txs, Draft, NoDraft
  <2>4. QED
    BY <2>1, <2>2, <2>3 DEF Pending
<1>2. QED
  BY <1>1 DEF NoneLive

LEMMA ReplyRemembers ==
  ASSUME HostingInv, [HostingNext]_hostingVars, ~SaveSignature, LiveIsRemembered,
         NEW h \in handlers, NEW answer, Reply(h, answer),
         answer \in {"ok", "TX_NOT_FOUND", "CREATE_EXPIRED", "error"}
            \/ (answer = "TX_FAILED" /\ txs[h.sig].status = "failed")
  PROVE  LiveIsRemembered'
<1>1. /\ PageInStep /\ page \in Pages /\ disk \in Disks /\ OneRequest /\ ServerTypeOK
  BY RequestsSplit DEF HostingInv, ClientTypeOK
<1>2. CASE UNCHANGED <<page, disk>>
  BY <1>1, <1>2, StillRemembered DEF SameQuote
<1>3. CASE h.mine /\ page' = Idle /\ UNCHANGED disk
  BY <1>1, <1>3, StillRemembered, PageForms DEF OneRequest
<1>4. CASE h.mine /\ answer = "ok" /\ page' = To("recording") /\ disk' = Forget(disk, h.draft)
  <2>1. page'.at = "recording" /\ page'.quote = page.quote
    BY <1>1, <1>4, PageForms DEF Creating, SameQuote
  <2>2. ASSUME NEW t \in DOMAIN txs', Live(t)' PROVE page'.quote = txs'[t].draft
    BY <2>1, <2>2, LiveBefore DEF LiveIsRemembered
  <2>3. QED
    BY <2>1, <2>2 DEF LiveIsRemembered
<1>5. CASE h.mine /\ answer # "ok" /\ ~Kept(answer)
  <2>1. txs[h.sig].status = "failed"
    BY <1>5 DEF Kept
  <2>2. page.at = "registering" /\ ~page.created /\ disk.sigs[page.quote] = h.sig
    BY <1>1, <1>5 DEF OneRequest, PageInStep, Creating
  <2>3. NoneLive
    BY <2>1, <2>2 DEF NoneLive, LiveIsRemembered, Live
  <2>4. QED
    BY <2>3, NoneLiveKept
<1>6. QED
  BY <1>2, <1>3, <1>4, <1>5 DEF Reply

LEMMA RemembersPayments ==
  ASSUME HostingInv, [HostingNext]_hostingVars, LiveIsRemembered
  PROVE  LiveIsRemembered'
<1>1. /\ PageInStep /\ page \in Pages /\ disk \in Disks /\ txs \in Seq(Txs)
      /\ CreatedIsHosted /\ ClientTypeOK
  BY DEF HostingInv, ClientTypeOK
<1>2. CASE SaveSignature
  <2>1. /\ page.at = "sending" /\ page' = To("confirming")
        /\ disk' = Remember(disk, page.quote, page.sig)
    BY <1>2 DEF SaveSignature
  <2>2. page.quote \in Draft /\ page.sig \in DOMAIN txs /\ txs[page.sig].draft = page.quote
    BY <1>1, <2>1 DEF PageInStep, Creating, Pages
  <2>3. page'.at = "confirming" /\ page'.quote = page.quote /\ disk'.sigs[page.quote] = page.sig
    BY <1>1, <2>1, <2>2, PageForms DEF Creating, SameQuote, Remember, Disks
  <2>4. NoneLive
    BY <2>1, NoneLiveWhenFree
  <2>5. /\ DOMAIN txs' = DOMAIN txs /\ txs'[page.sig].draft = page.quote
        /\ \A t \in DOMAIN txs : t # page.sig => txs'[t] = txs[t]
    <3>1. txs' = [txs EXCEPT ![page.sig] = [txs[page.sig] EXCEPT !.known = TRUE]]
      BY <1>2 DEF SaveSignature
    <3>2. txs'[page.sig].draft = txs[page.sig].draft
      BY <2>2, PaymentsForward DEF PaymentsGoOn
    <3>3. QED
      BY <1>1, <2>2, <3>1, <3>2
  <2>6. ASSUME NEW t \in DOMAIN txs', Live(t)'
        PROVE  t = page.sig /\ page'.quote = txs'[t].draft
    BY <2>3, <2>4, <2>5, <2>6 DEF NoneLive, Live
  <2>7. QED
    BY <2>3, <2>6 DEF LiveIsRemembered
<1> SUFFICES ASSUME ~SaveSignature PROVE LiveIsRemembered'
  BY <1>2
<1>3. CASE PageStays /\ ~BuildFails
  <2>1. UNCHANGED disk /\ SameQuote(page')
    BY <1>1, <1>3, PageStaysForm, PageForms DEF SameQuote, Seating
  <2>2. \/ UNCHANGED page
        \/ /\ page.at # "recording"
           /\ page' \in {Idle, To("opening"), To("depositing"), To("cancelling"),
                         To("depositSending"), To("depositConfirming"), To("finishing")}
    BY <1>3 DEF PageStays, AnswerLost, PressOpen, PitRefused, BuildDeposit,
       SeatFails, SendDeposit, DepositHeard, ConfirmDeposit, Restart, CancelPeeks, CancelCommits,
       PaymentEnds, DepositEnds, QuoteExpires, hostingVars
  <2>3. \/ UNCHANGED page
        \/ /\ page.at # "recording"
           /\ page'.at \notin {"building", "signing", "sending", "recording"}
    BY <1>1, <2>2, PageForms DEF Seating
  <2>4. QED
    BY <2>1, <2>3, StillRemembered
<1>4. CASE \/ Edit \/ BuildAnswers \/ BuildFails \/ SendPayment
           \/ \E ok, answered \in BOOLEAN : Quote(ok, answered)
  <2>1. \/ page.at \in {"building", "signing", "sending"}
        \/ page.at = "idle" /\ ~page.created /\ ~Pending(page.quote)
    BY <1>1, <1>4 DEF Edit, BuildAnswers, BuildFails, SendPayment, Quote, Quoting, PageInStep
  <2>2. QED
    BY <2>1, NoneLiveWhenFree, NoneLiveKept
<1>5. CASE PressCreate
  <2>1. CASE ~Pending(page.quote)
    BY <1>5, <2>1, NoneLiveWhenFree, NoneLiveKept DEF PressCreate
  <2>2. CASE Pending(page.quote)
    <3>1. To("registering") \in Pages /\ To("registering").at = "registering" /\ SameQuote(To("registering"))
      BY <1>1, PageForms DEF Creating
    <3>2. page'.at = "registering" /\ SameQuote(page') /\ UNCHANGED disk /\ page.at = "idle"
      BY <1>5, <2>2, <3>1 DEF PressCreate, Pages, SameQuote
    <3>3. QED
      BY <3>2, StillRemembered
  <2>3. QED
    BY <2>1, <2>2
<1>6. CASE StartOver \/ (FinishSeat /\ txs' = Spend(page.quote))
  <2>1. txs' = Spend(page.quote)
    BY <1>6 DEF StartOver
  <2>2. ASSUME NEW t \in DOMAIN txs' PROVE ~(Live(t)')
    <3>1. Live(t)' => t \in DOMAIN txs /\ Live(t)
      BY LiveBefore
    <3>2. t \in DOMAIN txs /\ Live(t) => txs'[t].spent
      BY <1>1, <2>1, SpendKeeps DEF LiveIsRemembered
    <3>3. QED
      BY <3>1, <3>2 DEF Live
  <2>3. QED
    BY <2>2 DEF LiveIsRemembered
<1>8. CASE ConfirmPayment
  <2>1. page.at = "confirming" /\ ~page.created /\ disk.sigs[page.quote] = page.sig
    BY <1>1, <1>8 DEF ConfirmPayment, PageInStep, Creating
  <2>2. CASE txs[page.sig].status = "failed"
    <3>1. NoneLive
      BY <2>1, <2>2 DEF NoneLive, LiveIsRemembered, Live
    <3>2. QED
      BY <3>1, NoneLiveKept
  <2>3. CASE page' = To("registering") /\ UNCHANGED disk
    BY <1>1, <2>1, <2>3, StillRemembered, PageForms DEF Creating
  <2>4. QED
    BY <1>8, <2>2, <2>3 DEF ConfirmPayment, Confirmed
<1>9. ASSUME NEW h \in handlers, ServerAsks(h) \/ \E ok \in BOOLEAN : ServerMarks(h, ok)
      PROVE  LiveIsRemembered'
  <2>1. \/ UNCHANGED <<page, disk>>
        \/ \E answer : /\ Reply(h, answer)
                       /\ \/ answer \in {"ok", "TX_NOT_FOUND", "CREATE_EXPIRED", "error"}
                          \/ answer = "TX_FAILED" /\ txs[h.sig].status = "failed"
    BY <1>9 DEF ServerAsks, ServerMarks
  <2>2. QED
    BY <2>1, ReplyRemembers, StillRemembered DEF SameQuote
<1>10. CASE RecordCreated
  <2>1. page.at = "recording"
    BY <1>10 DEF RecordCreated
  <2>2. To("opening") \in Pages /\ To("opening").at = "opening" /\ SameQuote(To("opening"))
    BY <1>1, PageForms
  <2>3. page'.at = "opening" /\ page'.quote = page.quote /\ page'.created
    BY <1>10, <2>2 DEF RecordCreated, Pages, SameQuote
  <2>4. ASSUME NEW t \in DOMAIN txs', Live(t)' PROVE page'.quote = txs'[t].draft
    BY <2>1, <2>3, <2>4, LiveBefore DEF LiveIsRemembered
  <2>5. QED
    BY <2>3, <2>4 DEF LiveIsRemembered
<1>11. ASSUME NEW answered \in BOOLEAN, OpenPit(answered)
       PROVE  LiveIsRemembered'
  <2>1. To("seating") \in Pages /\ To("seating").at = "seating" /\ SameQuote(To("seating"))
    BY <1>1, PageForms DEF Seating
  <2>2. page.at = "opening" /\ UNCHANGED disk /\ page'.at \in {"idle", "seating"} /\ SameQuote(page')
    BY <1>1, <1>11, <2>1, PageForms DEF OpenPit, Pages, SameQuote
  <2>3. QED
    BY <2>2, StillRemembered
<1>12. CASE FinishSeat /\ page' = Idle /\ UNCHANGED disk
  BY <1>1, <1>12, StillRemembered, PageForms DEF FinishSeat
<1>13. CASE Reload
  <2>1. page' = Restored /\ UNCHANGED disk /\ txs' = Unsaved
    BY <1>13 DEF Reload
  <2>2. page'.at = "idle"
    BY <1>1, <2>1, RestoredForm
  <2>3. ASSUME NEW t \in DOMAIN txs', Live(t)'
        PROVE  page'.quote = txs'[t].draft /\ (page'.created \/ disk.sigs[page'.quote] = t)
    <3>1. t \in DOMAIN txs /\ Live(t) /\ txs'[t].draft = txs[t].draft /\ page.quote = txs[t].draft
      BY <2>3, LiveBefore DEF LiveIsRemembered
    <3>2. page.at # "recording"
      BY <1>1, <2>1, <2>3, <3>1, UnsavedKeeps DEF Live
    <3>3. page.created \/ disk.sigs[page.quote] = t
      BY <3>1, <3>2 DEF LiveIsRemembered
    <3>4. txs[t] \in Txs /\ t # NoSig
      BY <1>1, <3>1 DEF NoSig
    <3>5. page.quote # NoDraft
      BY <3>1, <3>4 DEF Txs, Draft, NoDraft
    <3>6. disk.quote = page.quote /\ disk.created = page.created
      BY <1>1, <3>5 DEF PageInStep
    <3>7. disk.created \/ Pending(disk.quote)
      BY <3>3, <3>4, <3>5, <3>6 DEF Pending
    <3>8. QED
      BY <1>1, <2>1, <3>1, <3>3, <3>6, <3>7, RestoredForm
  <2>4. QED
    BY <2>1, <2>2, <2>3 DEF LiveIsRemembered
<1>14. QED
  BY <1>3, <1>4, <1>5, <1>6, <1>8, <1>9, <1>10, <1>11, <1>12, <1>13
     DEF HostingNext, PageStays, FinishSeat, SeatUnfinished

(* Once the page has saved the signature of a payment, no other payment is sent while that one
   counts, through reloads, restarts, failed writes and lost answers; but for a payment whose
   signature never came, or that was forgotten and not yet recorded when the page died. *)
THEOREM NobodyPaysTwice == HostingSpec => NeverPaysTwice
<1> DEFINE Once == Len(txs') > Len(txs) =>
               \A t \in DOMAIN txs : txs[t].known => txs[t].spent \/ txs[t].status = "failed"
           Inv == HostingInv /\ LiveIsRemembered
<1>1. HostingInit => Inv
  BY InitHostingInv DEF HostingInit, LiveIsRemembered
<1>2. Inv /\ [HostingNext]_hostingVars => Inv'
  BY NextHostingInv, RemembersPayments
<1>3. Inv /\ [HostingNext]_hostingVars => [Once]_hostingVars
  <2> SUFFICES ASSUME Inv, [HostingNext]_hostingVars PROVE Once
    OBVIOUS
  <2>1. txs \in Seq(Txs) /\ txs' \in Seq(Txs)
    BY PaymentsForward DEF HostingInv, ClientTypeOK, PaymentsGoOn
  <2>2. CASE SendPayment
    <3>1. NoneLive
      BY <2>2, NoneLiveWhenFree DEF SendPayment
    <3>2. ASSUME NEW t \in DOMAIN txs
          PROVE  txs[t].known => txs[t].spent \/ txs[t].status = "failed"
      <4>1. txs[t] \in Txs /\ ~Live(t)
        BY <2>1, <3>1 DEF NoneLive
      <4>2. QED
        BY <4>1 DEF Live, Txs, Fates
    <3>3. QED
      BY <3>2
  <2>3. CASE ~SendPayment
    <3>1. DOMAIN txs' = DOMAIN txs
      BY <2>3, OldPayments
    <3>2. Len(txs') = Len(txs)
      BY <2>1, <3>1
    <3>3. QED
      BY <2>1, <3>2
  <2>4. QED
    BY <2>2, <2>3
<1>4. QED
  BY <1>1, <1>2, <1>3, PTL DEF HostingSpec, NeverPaysTwice
=============================================================================
