------------------------------ MODULE Custody -------------------------------
(***************************************************************************)
(* What an escrow promises, without deadlines, provisional entitlements or *)
(* running totals.  Wallets join by paying the price of a seat into a pot. *)
(* While it is collecting, a wallet may leave with its seat.  The pot is   *)
(* then divided once, completely, among the wallets still inside, and each *)
(* of them takes its share once.                                           *)
(***************************************************************************)
EXTENDS Totals

CONSTANT Player

VARIABLES
    stage,   \* "none", "collecting" or "paying"
    price,   \* the price of a seat
    inside,  \* wallets whose money is in the pot
    gone,    \* wallets that took their money out; they never come back
    share,   \* share[p]: what p may still take, once the pot is divided
    pot

custodyVars == <<stage, price, inside, gone, share, pot>>

NoShares == [p \in Player |-> 0]

CustodyInit ==
    /\ stage = "none"
    /\ price = 0
    /\ inside = {} /\ gone = {}
    /\ share = NoShares
    /\ pot = 0

Open ==
    /\ stage = "none"
    /\ stage' = "collecting"
    /\ price' \in Nat \ {0}
    /\ UNCHANGED <<inside, gone, share, pot>>

Join(p) ==
    /\ stage = "collecting"
    /\ p \notin inside \cup gone
    /\ inside' = inside \cup {p}
    /\ pot' = pot + price
    /\ UNCHANGED <<stage, price, gone, share>>

Leave(p) ==
    /\ stage = "collecting"
    /\ p \in inside
    /\ inside' = inside \ {p}
    /\ gone' = gone \cup {p}
    /\ pot' = pot - price
    /\ UNCHANGED <<stage, price, share>>

Divide ==
    /\ stage = "collecting"
    /\ stage' = "paying"
    /\ share' \in [Player -> 0..pot]
    /\ \A p \in Player \ inside : share'[p] = 0
    /\ Total(share') = pot
    /\ UNCHANGED <<price, inside, gone, pot>>

Take(p) ==
    /\ stage = "paying"
    /\ p \in inside
    /\ inside' = inside \ {p}
    /\ gone' = gone \cup {p}
    /\ pot' = pot - share[p]
    /\ share' = [share EXCEPT ![p] = 0]
    /\ UNCHANGED <<stage, price>>

CustodyNext ==
    \/ Open
    \/ Divide
    \/ \E p \in Player : Join(p) \/ Leave(p) \/ Take(p)

CustodySpec == CustodyInit /\ [][CustodyNext]_custodyVars
=============================================================================
