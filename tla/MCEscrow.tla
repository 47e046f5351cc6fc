------------------------------ MODULE MCEscrow ------------------------------
(* Escrow on a small instance: every wallet starts with the same funds. *)
EXTENDS Escrow, Functions, TLC

CONSTANT WalletFunds

MCFunds == [p \in Player |-> WalletFunds]

(* Total is the sum: it agrees with the fold over the function's values. *)
ASSUME TotalIsSum ==
    \A f \in [Player -> 0..3] : Total(f) = FoldFunction(+, 0, f)
=============================================================================
