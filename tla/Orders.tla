-------------------------------- MODULE Orders --------------------------------
(***************************************************************************)
(* Buying on Panta what was bought in the pit: a player's page             *)
(* (doBuy in app/ArenaView.tsx, executePantaOrder in lib/panta-order.ts,   *)
(* signAndBroadcastFromInstructions in lib/panta-client.ts), the order     *)
(* routes, Panta and the chain.                                            *)
(*                                                                         *)
(* A purchase crosses all of them: answers are lost, the page stops        *)
(* waiting for the chain and for Panta, or is closed, and the transaction  *)
(* lands, fails or is dropped whenever it does.                            *)
(***************************************************************************)
EXTENDS Integers, Sequences, FiniteSets

CONSTANTS
    Modes,               \* servers with a Panta key, and without: "panta", "mock"
    MaxBuys, MaxFaults   \* bounds

ASSUME OrdersAssumption ==
    /\ Modes \subseteq {"panta", "mock"}
    /\ {MaxBuys, MaxFaults} \subseteq Nat

VARIABLES
    mode,
    buys,     \* buys pressed
    fills,    \* buys filled in the pit
    orders,   \* orders started: Panta's status, the transaction, whether the page has its
              \* signature, what the page said in the end
    stage,    \* what the page waits for, about its last order
    counted,  \* the server's count of trades attributed to it
    faults

ordersVars == <<mode, buys, fills, orders, stage, counted, faults>>

NoOrder == [panta |-> "quoted", tx |-> "none", signature |-> FALSE, verdict |-> "none"]

OrdersInit ==
    /\ mode \in Modes
    /\ buys = 0 /\ fills = 0 /\ counted = 0 /\ faults = 0
    /\ orders = <<>> /\ stage = "idle"

Order == DOMAIN orders
This == Len(orders)
Set(field, value) == [orders EXCEPT ![This][field] = value]

Fault == faults < MaxFaults /\ faults' = faults + 1
NoFault == UNCHANGED faults

(* A definition named Faulty... is a deliberately wrong variant of the one below it, as in
   module Escrow. *)

-----------------------------------------------------------------------------
(* The pit's trade comes first, and the order only when the page heard that it was filled. *)

Buy ==
    /\ stage = "idle" /\ buys < MaxBuys
    /\ buys' = buys + 1
    /\ stage' = "trading"
    /\ UNCHANGED <<mode, fills, orders, counted, faults>>

FaultyStartsOrder(filled, heard) == heard  \* a refusal is an answer too

StartsOrder(filled, heard) == filled /\ heard

TradeEnds(filled, heard, fillOnPanta) ==
    /\ stage = "trading"
    /\ fills' = IF filled THEN fills + 1 ELSE fills
    /\ IF heard THEN NoFault ELSE Fault
    /\ IF StartsOrder(filled, heard) /\ fillOnPanta
       THEN orders' = Append(orders, NoOrder) /\ stage' = "quoting"
       ELSE UNCHANGED orders /\ stage' = "idle"
    /\ UNCHANGED <<mode, buys, counted>>

-----------------------------------------------------------------------------
(* The order on the page. *)

Says(verdict) == orders' = Set("verdict", verdict) /\ stage' = "idle"

Quoted ==
    /\ stage = "quoting"
    /\ \/ stage' = "building" /\ NoFault /\ UNCHANGED orders
       \/ Says("failed") /\ Fault
    /\ UNCHANGED <<mode, buys, fills, counted>>

(* The order may be built and the answer lost, or come without instructions. *)
Built ==
    /\ stage = "building"
    /\ \/ orders' = Set("panta", "built") /\ stage' = "signing" /\ NoFault
       \/ Says("failed") /\ Fault
       \/ orders' = [Set("panta", "built") EXCEPT ![This].verdict = "failed"] /\ stage' = "idle" /\ Fault
    /\ UNCHANGED <<mode, buys, fills, counted>>

(* The wallet refuses, or the signed bytes reach the chain. *)
Broadcast ==
    \/ orders' = Set("tx", "sent") /\ stage' = "broadcasting" /\ NoFault
    \/ Says("failed") /\ Fault

(* Without a Panta key nothing is signed. *)
Signed ==
    /\ stage = "signing"
    /\ IF mode = "panta" THEN Broadcast
       ELSE stage' = "submitting" /\ NoFault /\ UNCHANGED orders
    /\ UNCHANGED <<mode, buys, fills, counted>>

(* sendRawTransaction answers with the signature; or with an error, or not at all, and what
   is on its way is taken for an order that was never sent. *)
BroadcastAnswers ==
    /\ stage = "broadcasting"
    /\ \/ orders' = Set("signature", TRUE) /\ stage' = "landing" /\ NoFault
       \/ Says("failed") /\ Fault
    /\ UNCHANGED <<mode, buys, fills, counted>>

(* pollConfirmation: landed, failed, or a minute has passed, which is not looked at. *)
Polled ==
    /\ stage = "landing"
    /\ \/ orders[This].tx = "landed" /\ stage' = "submitting" /\ NoFault /\ UNCHANGED orders
       \/ orders[This].tx = "failed" /\ Says("failed") /\ NoFault
       \/ orders[This].tx # "failed" /\ stage' = "submitting" /\ Fault /\ UNCHANGED orders
    /\ UNCHANGED <<mode, buys, fills, counted>>

Told == IF orders[This].panta = "built" THEN Set("panta", "submitted") ELSE orders

(* A failed submit is only a warning. *)
Submitted ==
    /\ stage = "submitting"
    /\ stage' = "verifying"
    /\ \/ mode = "panta" /\ orders' = Told /\ NoFault
       \/ mode = "mock" /\ UNCHANGED orders /\ NoFault
       \/ UNCHANGED orders /\ Fault
    /\ UNCHANGED <<mode, buys, fills, counted>>

FaultyOutcome(status) == IF status \in {"failed", "expired"} THEN "failed" ELSE "reporting"

Outcome(status) ==
    CASE status = "confirmed" -> "reporting"
      [] status \in {"failed", "expired"} -> "failed"
      [] OTHER -> "unknown"

Ends(outcome) == IF outcome = "reporting" THEN stage' = outcome /\ UNCHANGED orders ELSE Says(outcome)

(* Every poll names the signature; a terminal status ends the polls, or half a minute. *)
Verified ==
    LET status == IF mode = "mock" THEN "confirmed" ELSE orders[This].panta IN
    /\ stage = "verifying"
    /\ \/ Outcome(status) # "unknown" /\ Ends(Outcome(status)) /\ NoFault
       \/ status \in {"built", "submitted"} /\ orders' = Told /\ NoFault /\ UNCHANGED stage
       \/ Ends(Outcome("submitted")) /\ Fault
    /\ UNCHANGED <<mode, buys, fills, counted>>

(* The server counts what Panta has attributed ... *)
Attributed == mode = "mock" \/ orders[This].panta = "confirmed"

(* ... heard or not; the page is done either way. *)
Reported ==
    /\ stage = "reporting"
    /\ Says("done")
    /\ UNCHANGED counted \/ (Attributed /\ counted' = counted + 1)
    /\ NoFault
    /\ UNCHANGED <<mode, buys, fills>>

PageClosed ==
    /\ stage # "idle"
    /\ stage' = "idle" /\ Fault
    /\ UNCHANGED <<mode, buys, fills, orders, counted>>

-----------------------------------------------------------------------------
(* The chain, and Panta, which follows it for the transactions it was told of. *)

TxEnds(n, how) ==
    /\ orders[n].tx = "sent"
    /\ orders' = [orders EXCEPT ![n].tx = how]
    /\ UNCHANGED <<mode, buys, fills, stage, counted, faults>>

FinalWord == [landed |-> "confirmed", failed |-> "failed", dropped |-> "expired"]

PantaFollows(n) ==
    /\ orders[n].panta = "submitted" /\ orders[n].tx \in DOMAIN FinalWord
    /\ orders' = [orders EXCEPT ![n].panta = FinalWord[orders[n].tx]]
    /\ UNCHANGED <<mode, buys, fills, stage, counted, faults>>

-----------------------------------------------------------------------------
OrdersNext ==
    \/ Buy
    \/ \E filled, heard, fillOnPanta \in BOOLEAN : TradeEnds(filled, heard, fillOnPanta)
    \/ Quoted \/ Built \/ Signed \/ BroadcastAnswers \/ Polled \/ Submitted \/ Verified \/ Reported
    \/ PageClosed
    \/ \E n \in Order : PantaFollows(n) \/ (\E how \in DOMAIN FinalWord : TxEnds(n, how))

OrdersSpec == OrdersInit /\ [][OrdersNext]_ordersVars

-----------------------------------------------------------------------------
(* Properties. *)

Purchases == {n \in Order : orders[n].tx = "landed"}

(* What the page says of an order stays true, whatever lands after it stopped waiting: "done"
   of one that was bought, an error other than "unknown" of one that never is; "unknown" is
   the only word for an order still on its way (lib/panta-order.ts:164-171) - once the page
   has its signature.  Of an order whose broadcast was answered with an error it says "failed"
   (lib/panta-order.ts:123-127), and that one may still land: disagreement 14 of the README. *)
VerdictsStayTrue ==
    mode = "panta" =>
        \A n \in Order :
            /\ orders[n].verdict = "done" => n \in Purchases
            /\ orders[n].verdict = "failed" /\ orders[n].signature =>
                   orders[n].tx \notin {"sent", "landed"}

(* "A real Panta purchase only starts after the pit trade succeeds" (app/ArenaView.tsx:397):
   through lost answers, closed pages and retries there is never a purchase more than there
   are fills, nor a trade counted as attributed that is not a purchase. *)
PurchasesFollowFills ==
    /\ Cardinality(Purchases) <= fills
    /\ mode = "panta" => counted <= Cardinality(Purchases)
=============================================================================
