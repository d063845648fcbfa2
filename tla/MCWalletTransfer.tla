--------------------------- MODULE MCWalletTransfer ---------------------------
(* Small amounts for WalletTransfer: two outputs of 40 and 27 that can be  *)
(* spent, integers that wrap at 100, payments that need one or both of     *)
(* them, leave change with and without dust, or overflow.                  *)
EXTENDS WalletTransfer

MCTransfers == {[amount |-> 40, index |-> 2], [amount |-> 27, index |-> 3]}

Pay(a, amount) == [addr |-> a, amount |-> amount]
MCDestinations ==
  {<<>>, <<Pay("bob", 0)>>, <<Pay("bob", 12)>>, <<Pay("bob", 26)>>,
   <<Pay("bob", 12), Pay(Own, 31)>>,
   <<Pay("bob", 98), Pay("eve", 3)>>, <<Pay("bob", 60), Pay("eve", 60)>>}

(* The daemon's lists: too short, in order, out of order, with one of the  *)
(* wallet's outputs or both, with repetitions, longer than asked for.      *)
MCAnswers ==
  {<<1>>, <<1, 4>>, <<4, 1>>, <<1, 2>>, <<3, 4, 2>>, <<4, 1, 4>>, <<2, 2, 3>>,
   <<3, 3, 5>>, <<5, 4, 3, 1>>}
=============================================================================
