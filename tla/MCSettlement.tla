---------------------------- MODULE MCSettlement ----------------------------
(* Settlement on a small instance: every wallet can afford one seat. *)
EXTENDS Settlement

CONSTANT WalletFunds

MCPairVaults == {<<3, 1>>, <<0, 0>>}
MCFunds == [p \in Player |-> WalletFunds]
=============================================================================
