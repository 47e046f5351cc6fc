------------------------------ MODULE MCArena ------------------------------
(* Arena on small instances: a paid duel that two players fill up, a paid royale that one
   player and the bots are too few for, and a practice arena. *)
EXTENDS Arena

Rules(kind, capacity, minEntrants, roundLimit) ==
    [kind |-> kind, capacity |-> capacity, minEntrants |-> minEntrants,
     roundLimit |-> roundLimit]

MCGames == {Rules("paid", 2, 2, 1), Rules("paid", 3, 3, 2), Rules("practice", 2, 2, 1)}

MCSolo == {Rules("paid", 3, 3, 2), Rules("practice", 2, 2, 1)}
=============================================================================
