---------------------------- MODULE MCPathSearch ----------------------------
(***************************************************************************)
(* Small instances of PathSearch: two pools between USDC and another       *)
(* token, and pools that close a cycle over a third one.                   *)
(***************************************************************************)
EXTENDS PathSearch, TLC
CONSTANTS usdc, sol, ray, pool1, pool2, pool3, pool4

MCPair == pool1 :> <<usdc, sol>> @@ pool2 :> <<sol, usdc>>
          @@ pool3 :> <<sol, ray>> @@ pool4 :> <<ray, usdc>>

\* Cyclic asks from USDC to USDC, price() from a token to USDC, Serum from what the
\* market gives to what it takes.
MCAsked == {<<usdc, usdc>>, <<sol, usdc>>, <<sol, ray>>}

Table(a, b, c) == [x \in 0..3 |-> <<0, a, b, c>>[x + 1]]
\* A pool that gains one way and loses the other, its reverse, and a book that
\* gives nothing for much.
MCQuotes == {<<Table(2, 3, 3), Table(0, 1, 2)>>, <<Table(0, 1, 2), Table(2, 3, 3)>>,
             <<Table(2, 3, 0), Table(1, 2, 3)>>}
=============================================================================
