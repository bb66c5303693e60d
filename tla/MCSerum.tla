------------------------------- MODULE MCSerum -------------------------------
(***************************************************************************)
(* A small instance of Serum: a market whose books are empty, at most as   *)
(* long as the ticks, and longer; a market whose queues cannot be read and *)
(* whose base token has no account; a market with a book that cannot be    *)
(* read; and accounts that are no markets.  A base lot is three quote      *)
(* lots, so that prices are not whole, nor decimals.                       *)
(***************************************************************************)
EXTENDS Serum
SomeAccounts == [m |-> "market", n |-> "market", k |-> "market", o |-> "orders", f |-> "foreign",
                 x |-> "other"]
ThreeMarkets == [m |-> [base |-> "SOL", quote |-> "USDC", bids |-> "mb", asks |-> "ma"],
               n |-> [base |-> "MSOL", quote |-> "USDC", bids |-> "nb", asks |-> "na"],
               k |-> [base |-> "ETH", quote |-> "USDC", bids |-> "kb", asks |-> "ka"]]
At(p, q) == [price |-> p, quantity |-> q]
SomeBooks ==
  [mb |-> {<<>>, <<At(90, 2)>>,
           <<At(1, 2), At(95, 1), At(100, 2)>>},
   ma |-> {<<>>, <<At(105, 1), At(120, 2)>>,
           <<At(103, 2), At(104, 1), At(200, 2)>>},
   nb |-> {<<At(5, 1)>>},
   na |-> {<<At(6, 1)>>},
   kb |-> {<<>>}, ka |-> {<<>>}]
SomeMultipliers == [SOL |-> 10, USDC |-> 100, MSOL |-> 10, ETH |-> 10]
SomeUsers == [SOL |-> "uSOL", USDC |-> "uUSDC", MSOL |-> "zero", ETH |-> "uETH"]
\* The books of bids have the small keys deep in the tree, those of asks the large ones.
SomeSplit(orders, first, last) == IF orders[1].price < 100 THEN last - 1 ELSE first
=============================================================================
