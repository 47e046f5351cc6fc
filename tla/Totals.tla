------------------------------- MODULE Totals -------------------------------
(***************************************************************************)
(* The sum of an amount per wallet, counted: Units(f) holds one element    *)
(* for every base unit f assigns, so its cardinality is the sum of f.      *)
(* Stated this way, every fact about sums that the proofs need follows     *)
(* from facts about cardinalities, without induction.  MCEscrow checks     *)
(* that it agrees with the fold of the community modules.                  *)
(***************************************************************************)
EXTENDS Integers, FiniteSets

Units(f) == UNION {{x} \X (1..f[x]) : x \in DOMAIN f}

Total(f) == Cardinality(Units(f))
=============================================================================
