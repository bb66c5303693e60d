----------------------------- MODULE PathSearch -----------------------------
(***************************************************************************)
(* The search of calculator/adjacency_matrix.go.  AddItem enters a model   *)
(* (a pool) into a matrix of tokens; Search builds the tree of paths from  *)
(* one token to another, with the best model on every edge (bsf), and      *)
(* returns the node of the other token with the largest amount (target).   *)
(* Cyclic looks for the way from USDC to USDC, Serum for the way back from *)
(* what a market bought to what it sold.                                   *)
(*                                                                         *)
(* A node of the tree is named by its path.  What a pool gives is a table  *)
(* in `quote`; an error counts as 0, for bsf skips a model that fails and  *)
(* one that gives 0 alike.                                                 *)
(***************************************************************************)
EXTENDS Integers, Sequences, FiniteSets

CONSTANTS
  Tokens,
  USDC,
  Models,
  Pair,      \* [Models -> Tokens \X Tokens]: TokenPair() of each model
  MaxAmount, \* bound: no pool gives more
  Quotes,    \* the tables a pool may have, one for each token it takes
  Asked,     \* the pairs <<src, dst>> the calculator searches for
  Depth      \* 4 for Cyclic, 3 for Serum and for price()

Amounts == 0 .. MaxAmount

ASSUME PathAssumption ==
  /\ USDC \in Tokens /\ "none" \notin Tokens
  /\ Pair \in [Models -> Tokens \X Tokens] /\ \A m \in Models : Pair[m][1] # Pair[m][2]
  /\ MaxAmount \in Nat /\ Depth \in Nat /\ Depth >= 2
  /\ Quotes \subseteq [1..2 -> [Amounts -> Amounts]]
  /\ \A q \in Quotes : q[1][0] = 0 /\ q[2][0] = 0
  /\ Asked \subseteq Tokens \X Tokens

VARIABLES
  indexes,   \* am.Indexes
  usdcIndex, \* am.UsdcIndex; indexes start with 1 here
  matrix,    \* am.Matrices: the models between two indexes
  added,     \* history: the models entered, in order
  quote      \* what each model gives for its first and for its second token

vars == <<indexes, usdcIndex, matrix, added, quote>>

At(idx, token) == CHOOSE i \in DOMAIN idx : idx[i] = token
Has(idx, token) == \E i \in DOMAIN idx : idx[i] = token

\* model.Swap: the output for an amount of a token of the pair.
Swap(m, token, amount) == quote[m][IF token = Pair[m][1] THEN 1 ELSE 2][amount]

-----------------------------------------------------------------------------
(* Faulty variants of some of the definitions below, which show that the   *)
(* properties tell them from the code.                                     *)

\* The model is entered in one direction only.
EnteredOneWay(mx, i, j, m) == [mx EXCEPT ![i][j] = Append(@, m)]
\* The last model wins instead of the best.
BestLast(items, token, amount) ==
  LET giving == {k \in DOMAIN items : Swap(items[k], token, amount) > 0}
  IN IF giving = {} THEN [amount |-> 0, model |-> "nil"]
     ELSE LET k == CHOOSE k \in giving : \A l \in giving : l <= k
          IN [amount |-> Swap(items[k], token, amount), model |-> items[k]]
\* The amount of USDC is the one of the first visit.
PricedFirst(parent, i, amount) ==
  IF i = usdcIndex /\ parent.usdc = 0 THEN amount ELSE parent.usdc

-----------------------------------------------------------------------------
(* AddItem.                                                                *)

Init ==
  /\ indexes = <<>>
  /\ usdcIndex = 1
  /\ matrix = <<>>
  /\ added = <<>>
  /\ quote \in [Models -> Quotes]

Entered(mx, i, j, m) == [mx EXCEPT ![i][j] = Append(@, m), ![j][i] = Append(@, m)]

\* A row and a column for each token that is not there yet.
WithToken(idx, token) == IF Has(idx, token) THEN idx ELSE Append(idx, token)
Grown(mx, new) ==
  [i \in DOMAIN new |-> [j \in DOMAIN new |->
     IF i \in DOMAIN mx /\ j \in DOMAIN mx THEN mx[i][j] ELSE <<>>]]

AddItem(m) ==
  LET idx == WithToken(WithToken(indexes, Pair[m][1]), Pair[m][2])
  IN /\ \A k \in DOMAIN added : added[k] # m
     /\ indexes' = idx
     /\ usdcIndex' = IF Has(idx, USDC) THEN At(idx, USDC) ELSE usdcIndex
     /\ matrix' = Entered(Grown(matrix, idx), At(idx, Pair[m][1]), At(idx, Pair[m][2]), m)
     /\ added' = Append(added, m)
     /\ UNCHANGED quote

Done ==
  /\ \A m \in Models : \E k \in DOMAIN added : added[k] = m
  /\ UNCHANGED vars

Next == (\E m \in Models : AddItem(m)) \/ Done

Spec == Init /\ [][Next]_vars

-----------------------------------------------------------------------------
(* Search.                                                                 *)

\* The best model of an edge, the first of them when several give as much, and
\* what it gives.
Best(items, token, amount) ==
  LET out(k) == Swap(items[k], token, amount)
      giving == {k \in DOMAIN items : out(k) > 0}
  IN IF giving = {} THEN [amount |-> 0, model |-> "nil"]
     ELSE LET k == CHOOSE k \in giving :
                     \A l \in giving : out(l) < out(k) \/ (out(l) = out(k) /\ k <= l)
          IN [amount |-> out(k), model |-> items[k]]

\* usdcAmount: the amount at the last visit of USDC, carried along the path.
Priced(parent, i, amount) == IF i = usdcIndex THEN amount ELSE parent.usdc

\* NodeData of a child.
Root(src, amount) ==
  [path |-> <<src>>, models |-> <<>>, amount |-> amount,
   usdc |-> IF src = usdcIndex THEN amount ELSE 0]
Child(parent, i) ==
  LET at == parent.path[Len(parent.path)]
      best == Best(matrix[at][i], indexes[at], parent.amount)
  IN [path |-> Append(parent.path, i), models |-> Append(parent.models, best.model),
      amount |-> best.amount, usdc |-> Priced(parent, i, best.amount)]

\* The search does not go on below a node: the path came back to a token, arrived,
\* is as long as it may be, or is worth nothing.
Ends(path, amount, dst) ==
  \/ \E k \in 1 .. Len(path) - 1 : path[k] = path[Len(path)]
  \/ path[Len(path)] = dst
  \/ Len(path) = Depth
  \/ amount = 0

\* The nodes of the tree by the length of their paths (bsf).
Children(node) ==
  LET at == node.path[Len(node.path)]
  IN {Child(node, i) : i \in {i \in DOMAIN indexes : i # at /\ matrix[at][i] # <<>>}}
Level(src, amount, dst) ==
  LET level[n \in 1 .. Depth] ==
        IF n = 1 THEN {Root(src, amount)}
        ELSE UNION {Children(node) : node \in {x \in level[n-1] :
                      n = 2 \/ ~Ends(x.path, x.amount, dst)}}
  IN level

\* The tree is walked in the order of the indexes: p is met before q.
Before(p, q) ==
  \E k \in DOMAIN p : k \in DOMAIN q /\ p[k] < q[k] /\ \A l \in 1 .. k-1 : p[l] = q[l]

\* The first leaf with the largest amount at dst (target), if it is not 0.
Arrived(src, amount, dst) ==
  LET level == Level(src, amount, dst)
  IN {x \in UNION {level[n] : n \in 2 .. Depth} : x.path[Len(x.path)] = dst /\ x.amount > 0}
NoResult == [amount |-> 0]
Search(src, amount, dst) ==
  LET arrived == Arrived(At(indexes, src), amount, At(indexes, dst))
  IN IF ~Has(indexes, src) \/ ~Has(indexes, dst) \/ arrived = {} THEN NoResult
     ELSE CHOOSE x \in arrived :
            \A y \in arrived : y.amount < x.amount
                               \/ (y.amount = x.amount /\ ~Before(y.path, x.path))

-----------------------------------------------------------------------------
(* Properties.                                                             *)

TypeOK ==
  /\ indexes \in Seq(Tokens)
  /\ usdcIndex \in Nat \ {0}
  /\ matrix \in [DOMAIN indexes -> [DOMAIN indexes -> Seq(Models)]]
  /\ added \in Seq(Models)
  /\ quote \in [Models -> Quotes]

\* However the rows and columns grew, the matrix holds under two tokens the models
\* that trade them, in the order they were added, and every token once.
Trading(models, a, b) ==
  LET first[n \in 0 .. Len(models)] ==
        IF n = 0 THEN <<>>
        ELSE IF {a, b} = {Pair[models[n]][1], Pair[models[n]][2]}
             THEN Append(first[n-1], models[n]) ELSE first[n-1]
  IN first[Len(models)]
Between(a, b) == Trading(added, a, b)
MatrixHolds ==
  /\ \A i, j \in DOMAIN indexes :
       /\ indexes[i] = indexes[j] => i = j
       /\ i # j => matrix[i][j] = Between(indexes[i], indexes[j])
       /\ i = j => matrix[i][j] = <<>>
  /\ Has(indexes, USDC) => usdcIndex \in DOMAIN indexes /\ indexes[usdcIndex] = USDC

\* The reference: the sequences of models that lead from src to dst in at most
\* Depth - 1 swaps without coming to a token twice, except back to src.
Other(m, token) == IF token = Pair[m][1] THEN Pair[m][2] ELSE Pair[m][1]
Route(models, src) ==
  LET state[k \in 0 .. Len(models)] ==
        IF k = 0 THEN src
        ELSE IF state[k-1] \in {Pair[models[k]][1], Pair[models[k]][2]}
             THEN Other(models[k], state[k-1]) ELSE "none"
  IN state
Worth(models, src, amount) ==
  LET token == Route(models, src)
      worth[k \in 0 .. Len(models)] ==
        IF k = 0 THEN amount ELSE Swap(models[k], token[k-1], worth[k-1])
  IN worth
Routes(src, dst) ==
  {models \in UNION {[1..n -> {added[k] : k \in DOMAIN added}] : n \in 1 .. Depth - 1} :
     LET token == Route(models, src)
         n == Len(models)
     IN /\ token[n] = dst
        /\ \A j, k \in 1..n : j < k => token[j] # token[k]
        /\ \A k \in 1 .. n-1 : token[k] \notin {"none", src, dst}}

Searched(src, dst) == <<src, dst>> \in Asked /\ Has(indexes, src) /\ Has(indexes, dst)
Monotone ==
  \A m \in Models, d \in 1..2 : \A x, y \in Amounts : x <= y => quote[m][d][x] <= quote[m][d][y]

\* To keep the best model of every edge, and to stop at a node that is worth
\* nothing, loses no better path as long as a pool gives more for more.
FindsBest ==
  Monotone =>
    \A src, dst \in Tokens, amount \in Amounts \ {0} : Searched(src, dst) =>
      LET found == Search(src, amount, dst)
          worths == {Worth(r, src, amount)[Len(r)] : r \in Routes(src, dst)}
      IN /\ \A w \in worths : w <= found.amount
         /\ found.amount > 0 => found.amount \in worths

\* What the search returns can be carried out: the models lead along the path from
\* src to dst, none is nil, and swapped one after the other they give the
\* amount.  Arbitrage recomputes it so and orders its instructions by it.
CarriedOut ==
  \A src, dst \in Tokens, amount \in Amounts \ {0} : Searched(src, dst) =>
    LET found == Search(src, amount, dst)
    IN found # NoResult =>
         /\ found.models \in Routes(src, dst)
         /\ \A k \in DOMAIN found.path :
              indexes[found.path[k]] = Route(found.models, src)[k-1]
         /\ Worth(found.models, src, amount)[Len(found.models)] = found.amount

\* The amount of USDC, by which Arbitrage limits and sizes the trade, is what the
\* path last turned into USDC, and 0 when it never did.
UsdcOnPath ==
  Has(indexes, USDC) =>
    \A src, dst \in Tokens, amount \in Amounts \ {0} : Searched(src, dst) =>
      LET found == Search(src, amount, dst)
      IN found # NoResult =>
           LET token == Route(found.models, src)
               worth == Worth(found.models, src, amount)
               visits == {k \in DOMAIN token : token[k] = USDC}
           IN IF visits = {} THEN found.usdc = 0
              ELSE \E k \in visits : (\A l \in visits : l <= k) /\ found.usdc = worth[k]

\* The matrix is well-formed and holds every model under its two tokens, after any order
\* of additions.
MatrixSound == TypeOK /\ MatrixHolds

\* What the search returns can be carried out and is priced in USDC as it will be.
PathSound == CarriedOut /\ UsdcOnPath
=============================================================================
