------------------------------ MODULE MCSpotPit ------------------------------
(* A board of two assets, with a move of one price step worth 5 cents of chance. *)
EXTENDS SpotPit

Up(a) == [kind |-> "direction", assets |-> {a}]
Better == [kind |-> "relative", assets |-> Asset]

MCQuestions == << Up("BTC"), Up("ETH"), Better >>
MCDeck == << Better, Up("BTC") >>
MCChance == [move \in -2..2 |-> 50 + 5 * move]

MCQuotes == { [BTC |-> 0, ETH |-> 0], [BTC |-> 1, ETH |-> 1], [BTC |-> 2, ETH |-> 1],
              [BTC |-> 3, ETH |-> 0] }

(* Both assets' markets, or those of one. *)
MCBoards == { <<"BTC", "ETH">>, <<"BTC">>, <<"ETH">> }

(* Full cards, and one with a question left out. *)
MCCardPicks == { <<"UP", "DOWN", "BTC">>, <<"UP", "UP", NoPick>> }
MCBotCards == { <<"DOWN", "UP", "ETH">>, <<"UP", "UP", "BTC">> }
MCLocks == { {}, {1, 3}, {1, 2, 3} }
=============================================================================
