------------------------------ MODULE MCBookPit ------------------------------
(* The book's tables for the smallest liquidity the code uses, b = 20: twenty times
   100 ln(e^(lead/20) + 1) cents, and the price of YES, for leads of up to 60 shares. *)
EXTENDS BookPit

Reach == 60

CostAhead ==
    << 1386, 1437, 1489, 1542, 1596, 1652, 1709, 1767, 1826, 1886, 1948, 2011, 2075, 2140,
        2206, 2274, 2342, 2412, 2482, 2554, 2627, 2700, 2775, 2850, 2927, 3004, 3082, 3161,
        3241, 3321, 3403, 3485, 3568, 3651, 3736, 3820, 3906, 3992, 4079, 4166, 4254, 4342,
        4431, 4520, 4610, 4700, 4791, 4882, 4974, 5066, 5158, 5250, 5343, 5437, 5530, 5624,
        5718, 5812, 5907, 6002, 6097 >>

PriceAhead ==
    << 50, 51, 52, 54, 55, 56, 57, 59, 60, 61, 62, 63, 65, 66, 67, 68, 69, 70, 71, 72, 73, 74,
        75, 76, 77, 78, 79, 79, 80, 81, 82, 82, 83, 84, 85, 85, 86, 86, 87, 88, 88, 89, 89, 90,
        90, 90, 91, 91, 92, 92, 92, 93, 93, 93, 94, 94, 94, 95, 95, 95, 95 >>

MCCurve == [b \in {20} |-> [d \in -Reach..Reach |->
    IF d >= 0 THEN CostAhead[d + 1] ELSE CostAhead[1 - d] + 100 * d]]

MCLine == [b \in {20} |-> [d \in -Reach..Reach |->
    IF d >= 0 THEN PriceAhead[d + 1] ELSE 100 - PriceAhead[1 - d]]]
=============================================================================
