----------------------------- MODULE TradersProofs -----------------------------
(***************************************************************************)
(* Proofs about the random and the single-purpose traders: what a trader   *)
(* has and tells of its balance is the account's, no two transactions of   *)
(* the last NonceMod are equal, and the transaction of a route or a case   *)
(* is made right.                                                          *)
(*                                                                         *)
(* The nonces.  Every commit of a trader other than cases takes the next   *)
(* one, so that the i-th transaction of the last NonceMod has the nonce    *)
(* that lies as many before the newest as there were commits since,        *)
(* counted with a wrap (Sequenced); these are all different, and the data  *)
(* of every trader's instructions tell which one it was (NonceOf).         *)
(*                                                                         *)
(* The routes.  All of their legs over Saber are among eight; they agree   *)
(* pair by pair.                                                           *)
(***************************************************************************)
EXTENDS Traders, TLAPS

Steps == {"ok", "err", "absent"}

\* The number that a transaction of this trader carries.
NonceOf(p, tx) ==
  IF p = "saber" THEN tx.data[1][Len(tx.data[1])]
  ELSE IF p = "orca" THEN tx.data[1][2]
  ELSE IF p = "msol" THEN tx.data[1][1] - 105
  ELSE tx.data[1][1] - 5

\* What the loop is at fits the program, and the nonce its modulus.
Fitting ==
  /\ loop.at \in {"calm", "throttle"} => app \in Throttled
  /\ loop.at = "fetch" => app \in Watches
  /\ loop.at = "call" => app = "saber"
  /\ loop.at = "case" => app = "cases"
  /\ app # "cases" => nonce < NonceMod
  /\ \E T : recent \in Seq(T)

\* The nonces of the last transactions go back from the newest, one by one.
Distance(n, k, s) == k = n - s \/ k = n - s + NonceMod
Sequenced ==
  app # "cases" =>
    \A i \in DOMAIN recent :
      /\ NonceOf(app, recent[i].tx) \in 0 .. NonceMod - 1
      /\ Distance(nonce, NonceOf(app, recent[i].tx), Len(recent) - i)

\* What is on its way to the trader is the newest.
Newest == feed # Idle => feed.new = amount

IInv ==
  /\ TypeOK /\ Fitting /\ Sequenced /\ Newest
  /\ KnownIsCurrent /\ DifferencesAddUp /\ CasesWhole

-----------------------------------------------------------------------------
(* The routes.                                                             *)

AllRoutes ==
  {Arbitrage_saber_mercurl_usdc_ust, Arbitrage_mercurl_saber_usdc_ust,
   Arbitrage_saber_mercurl_usdc_usdt, Arbitrage_mercurl_saber_usdc_usdt,
   Arbitrage_mercurl_saber_sol_msol, Arbitrage_saber_mercurl_sol_msol,
   Arbitrage_mercurl_saber_sol_stsol, Arbitrage_saber_mercurl_sol_stsol,
   Arbitrage_saber_mercurl_usdc_usdt_3pool, Arbitrage_mercurl_saber_usdc_usdt_3pool,
   Arbitrage_orca_raydium_sol_usdc, Arbitrage_orca_raydium_gst_usdc, Arbitrage_orca_raydium_gmt_usdc,
   Arbitrage_whirl_saber_usdc_ust, Arbitrage_orca_whirl_sol_usdc, Arbitrage_whirl_orca_sol_usdc,
   Arbitrage_serum_whirl_sol_usdc, Arbitrage_whirl_serum_sol_usdc}

\* The calls of a tick are routes.
LEMMA CallsAreRoutes == Calls \in Seq(AllRoutes)
<1> DEFINE If(flag, routes) == IF flag \in flags THEN routes ELSE <<>>
<1> HIDE DEF If
<1>0. \A flag, routes : routes \in Seq(AllRoutes) => If(flag, routes) \in Seq(AllRoutes)
  BY DEF If
<1>a. \A x \in AllRoutes : <<x>> \in Seq(AllRoutes)
  OBVIOUS
<1>b. \A x, y \in AllRoutes : <<x, y>> \in Seq(AllRoutes)
  OBVIOUS
<1>1. If("USTUSDC", <<Arbitrage_saber_mercurl_usdc_ust, Arbitrage_mercurl_saber_usdc_ust>>) \in Seq(AllRoutes)
  BY <1>0, <1>b DEF AllRoutes
<1>2. If("USDTUSDC", <<Arbitrage_saber_mercurl_usdc_usdt, Arbitrage_mercurl_saber_usdc_usdt>>) \in Seq(AllRoutes)
  BY <1>0, <1>b DEF AllRoutes
<1>3. If("SOLMSOL", <<Arbitrage_mercurl_saber_sol_msol, Arbitrage_saber_mercurl_sol_msol>>) \in Seq(AllRoutes)
  BY <1>0, <1>b DEF AllRoutes
<1>4. If("SOLSTSOL", <<Arbitrage_mercurl_saber_sol_stsol, Arbitrage_saber_mercurl_sol_stsol>>) \in Seq(AllRoutes)
  BY <1>0, <1>b DEF AllRoutes
<1>5. If("USDTUSDC3POOL", <<Arbitrage_saber_mercurl_usdc_usdt_3pool,
                            Arbitrage_mercurl_saber_usdc_usdt_3pool>>) \in Seq(AllRoutes)
  BY <1>0, <1>b DEF AllRoutes
<1>6. If("SOLUSDC", <<Arbitrage_orca_raydium_sol_usdc>>) \in Seq(AllRoutes)
  BY <1>0, <1>a DEF AllRoutes
<1>7. If("GSTUSDC", <<Arbitrage_orca_raydium_gst_usdc>>) \in Seq(AllRoutes)
  BY <1>0, <1>a DEF AllRoutes
<1>8. If("GMTUSDC", <<Arbitrage_orca_raydium_gmt_usdc>>) \in Seq(AllRoutes)
  BY <1>0, <1>a DEF AllRoutes
<1>9. If("WhirlUSTUSDC", <<Arbitrage_whirl_saber_usdc_ust>>) \in Seq(AllRoutes)
  BY <1>0, <1>a DEF AllRoutes
<1>10. If("WhirlSOLUSDC", <<Arbitrage_orca_whirl_sol_usdc, Arbitrage_whirl_orca_sol_usdc>>) \in Seq(AllRoutes)
  BY <1>0, <1>b DEF AllRoutes
<1>11. If("SerumWhirl", <<Arbitrage_serum_whirl_sol_usdc, Arbitrage_whirl_serum_sol_usdc>>) \in Seq(AllRoutes)
  BY <1>0, <1>b DEF AllRoutes
<1>12. \A s, t \in Seq(AllRoutes) : s \o t \in Seq(AllRoutes)
  OBVIOUS
<1>13. Calls =
         If("USTUSDC", <<Arbitrage_saber_mercurl_usdc_ust, Arbitrage_mercurl_saber_usdc_ust>>)
         \o If("USDTUSDC", <<Arbitrage_saber_mercurl_usdc_usdt, Arbitrage_mercurl_saber_usdc_usdt>>)
         \o If("SOLMSOL", <<Arbitrage_mercurl_saber_sol_msol, Arbitrage_saber_mercurl_sol_msol>>)
         \o If("SOLSTSOL", <<Arbitrage_mercurl_saber_sol_stsol, Arbitrage_saber_mercurl_sol_stsol>>)
         \o If("USDTUSDC3POOL", <<Arbitrage_saber_mercurl_usdc_usdt_3pool,
                                  Arbitrage_mercurl_saber_usdc_usdt_3pool>>)
         \o If("SOLUSDC", <<Arbitrage_orca_raydium_sol_usdc>>)
         \o If("GSTUSDC", <<Arbitrage_orca_raydium_gst_usdc>>)
         \o If("GMTUSDC", <<Arbitrage_orca_raydium_gmt_usdc>>)
         \o If("WhirlUSTUSDC", <<Arbitrage_whirl_saber_usdc_ust>>)
         \o If("WhirlSOLUSDC", <<Arbitrage_orca_whirl_sol_usdc, Arbitrage_whirl_orca_sol_usdc>>)
         \o If("SerumWhirl", <<Arbitrage_serum_whirl_sol_usdc, Arbitrage_whirl_serum_sol_usdc>>)
  BY Zenon DEF Calls, If
<1> QED
  BY <1>1, <1>2, <1>3, <1>4, <1>5, <1>6, <1>7, <1>8, <1>9, <1>10, <1>11, <1>12, <1>13, Zenon

\* A route has instructions, numbered or not.
LEMMA RouteSizes == \A r \in AllRoutes : r.size \in Nat \ {0} /\ r.numbered \in BOOLEAN
<1> DEFINE Fit(r) == r.size \in Nat \ {0} /\ r.numbered \in BOOLEAN
<1>0. \A op, legs, users : Fit(Route(op, legs, users))
  BY RoutesAssumption DEF Route
<1> SUFFICES \A r \in AllRoutes : Fit(r)
  OBVIOUS
<1>1. Fit(Arbitrage_saber_mercurl_usdc_ust)
  BY <1>0, Zenon DEF Arbitrage_saber_mercurl_usdc_ust
<1>2. Fit(Arbitrage_mercurl_saber_usdc_ust)
  BY <1>0, Zenon DEF Arbitrage_mercurl_saber_usdc_ust
<1>3. Fit(Arbitrage_saber_mercurl_usdc_usdt)
  BY <1>0, Zenon DEF Arbitrage_saber_mercurl_usdc_usdt
<1>4. Fit(Arbitrage_mercurl_saber_usdc_usdt)
  BY <1>0, Zenon DEF Arbitrage_mercurl_saber_usdc_usdt
<1>5. Fit(Arbitrage_mercurl_saber_sol_msol)
  BY <1>0, Zenon DEF Arbitrage_mercurl_saber_sol_msol
<1>6. Fit(Arbitrage_saber_mercurl_sol_msol)
  BY <1>0, Zenon DEF Arbitrage_saber_mercurl_sol_msol
<1>7. Fit(Arbitrage_mercurl_saber_sol_stsol)
  BY <1>0, Zenon DEF Arbitrage_mercurl_saber_sol_stsol
<1>8. Fit(Arbitrage_saber_mercurl_sol_stsol)
  BY <1>0, Zenon DEF Arbitrage_saber_mercurl_sol_stsol
<1>9. Fit(Arbitrage_saber_mercurl_usdc_usdt_3pool)
  BY <1>0, Zenon DEF Arbitrage_saber_mercurl_usdc_usdt_3pool
<1>10. Fit(Arbitrage_mercurl_saber_usdc_usdt_3pool)
  BY <1>0, Zenon DEF Arbitrage_mercurl_saber_usdc_usdt_3pool
<1>11. Fit(Arbitrage_orca_raydium_sol_usdc)
  BY RoutesAssumption DEF Arbitrage_orca_raydium_sol_usdc
<1>12. Fit(Arbitrage_orca_raydium_gst_usdc)
  BY <1>0, Zenon DEF Arbitrage_orca_raydium_gst_usdc
<1>13. Fit(Arbitrage_orca_raydium_gmt_usdc)
  BY <1>0, Zenon DEF Arbitrage_orca_raydium_gmt_usdc
<1>14. Fit(Arbitrage_whirl_saber_usdc_ust)
  BY <1>0, Zenon DEF Arbitrage_whirl_saber_usdc_ust
<1>15. Fit(Arbitrage_orca_whirl_sol_usdc)
  BY <1>0, Zenon DEF Arbitrage_orca_whirl_sol_usdc
<1>16. Fit(Arbitrage_whirl_orca_sol_usdc)
  BY <1>0, Zenon DEF Arbitrage_whirl_orca_sol_usdc
<1>17. Fit(Arbitrage_serum_whirl_sol_usdc)
  BY RoutesAssumption DEF Arbitrage_serum_whirl_sol_usdc
<1>18. Fit(Arbitrage_whirl_serum_sol_usdc)
  BY RoutesAssumption DEF Arbitrage_whirl_serum_sol_usdc
<1> HIDE DEF Fit
<1> QED
  BY <1>1, <1>2, <1>3, <1>4, <1>5, <1>6, <1>7, <1>8, <1>9, <1>10, <1>11, <1>12, <1>13, <1>14, <1>15, <1>16, <1>17, <1>18
     DEF AllRoutes

\* The legs of the routes that swap on Saber.
SaberLegs ==
  {<<"Saber", "KwnjU", "9osV5", "BnKQt", "J63v6", "BYgyV">>,
   <<"Saber", "KwnjU", "9osV5", "J63v6", "BnKQt", "G9nt2">>,
   <<"Saber", "YAkoN", "5C1k9", "CfWX7", "EnTrd", "63aJY">>,
   <<"Saber", "YAkoN", "5C1k9", "EnTrd", "CfWX7", "XZuQG">>,
   <<"Saber", "Lee1X", "2Sj4M", "9DgFS", "2hNHZ", "3oebZ">>,
   <<"Saber", "Lee1X", "2Sj4M", "2hNHZ", "9DgFS", "HzZRD">>,
   <<"Saber", "Lid8S", "8eyi3", "4Pgzy", "Atymw", "Cv3YN">>,
   <<"Saber", "Lid8S", "8eyi3", "Atymw", "4Pgzy", "2AbLY">>}

\* The legs on Saber of a route with two or three legs are legs of it.
LEMMA SwapsOf ==
  ASSUME NEW r
  PROVE  /\ \A a, b : r.legs = <<a, b>> => \A x \in Swaps(r) : x \in {a, b} /\ x[1] = "Saber" /\ Len(x) = 6
         /\ \A a, b, c : r.legs = <<a, b, c>> => \A x \in Swaps(r) : x \in {a, b, c} /\ x[1] = "Saber" /\ Len(x) = 6
BY DEF Swaps

\* Whatever a route swaps on Saber is one of them.
LEMMA SwapsAre == \A r \in AllRoutes : Swaps(r) \subseteq SaberLegs
<1>1. Swaps(Arbitrage_saber_mercurl_usdc_ust) \subseteq SaberLegs
  <2>1. Arbitrage_saber_mercurl_usdc_ust.legs =
          <<<<"Saber", "KwnjU", "9osV5", "BnKQt", "J63v6", "BYgyV">>,
            <<"Mercurial", "UST3i", "44K7k", "65sR8", "G5Q7d", "EZd87">>>>
    BY DEF Arbitrage_saber_mercurl_usdc_ust, Route
  <2> QED
    BY <2>1, SwapsOf DEF SaberLegs
<1>2. Swaps(Arbitrage_mercurl_saber_usdc_ust) \subseteq SaberLegs
  <2>1. Arbitrage_mercurl_saber_usdc_ust.legs =
          <<<<"Saber", "KwnjU", "9osV5", "J63v6", "BnKQt", "G9nt2">>,
            <<"Mercurial", "UST3i", "44K7k", "65sR8", "G5Q7d", "EZd87">>>>
    BY DEF Arbitrage_mercurl_saber_usdc_ust, Route
  <2> QED
    BY <2>1, SwapsOf DEF SaberLegs
<1>3. Swaps(Arbitrage_saber_mercurl_usdc_usdt) \subseteq SaberLegs
  <2>1. Arbitrage_saber_mercurl_usdc_usdt.legs =
          <<<<"Saber", "YAkoN", "5C1k9", "CfWX7", "EnTrd", "63aJY">>,
            <<"Mercurial", "UST3i", "44K7k", "65sR8", "G5Q7d", "EZd87">>>>
    BY DEF Arbitrage_saber_mercurl_usdc_usdt, Route
  <2> QED
    BY <2>1, SwapsOf DEF SaberLegs
<1>4. Swaps(Arbitrage_mercurl_saber_usdc_usdt) \subseteq SaberLegs
  <2>1. Arbitrage_mercurl_saber_usdc_usdt.legs =
          <<<<"Saber", "YAkoN", "5C1k9", "EnTrd", "CfWX7", "XZuQG">>,
            <<"Mercurial", "UST3i", "44K7k", "65sR8", "G5Q7d", "EZd87">>>>
    BY DEF Arbitrage_mercurl_saber_usdc_usdt, Route
  <2> QED
    BY <2>1, SwapsOf DEF SaberLegs
<1>5. Swaps(Arbitrage_mercurl_saber_sol_msol) \subseteq SaberLegs
  <2>1. Arbitrage_mercurl_saber_sol_msol.legs =
          <<<<"Saber", "Lee1X", "2Sj4M", "9DgFS", "2hNHZ", "3oebZ">>,
            <<"Mercurial", "MAR1z", "GcJck", "EWy2h", "GM48q">>>>
    BY DEF Arbitrage_mercurl_saber_sol_msol, Route
  <2> QED
    BY <2>1, SwapsOf DEF SaberLegs
<1>6. Swaps(Arbitrage_saber_mercurl_sol_msol) \subseteq SaberLegs
  <2>1. Arbitrage_saber_mercurl_sol_msol.legs =
          <<<<"Saber", "Lee1X", "2Sj4M", "2hNHZ", "9DgFS", "HzZRD">>,
            <<"Mercurial", "MAR1z", "GcJck", "EWy2h", "GM48q">>>>
    BY DEF Arbitrage_saber_mercurl_sol_msol, Route
  <2> QED
    BY <2>1, SwapsOf DEF SaberLegs
<1>7. Swaps(Arbitrage_mercurl_saber_sol_stsol) \subseteq SaberLegs
  <2>1. Arbitrage_mercurl_saber_sol_stsol.legs =
          <<<<"Saber", "Lid8S", "8eyi3", "4Pgzy", "Atymw", "Cv3YN">>,
            <<"Mercurial", "LiDoU", "pG6no", "FqLtq", "9gizz">>>>
    BY DEF Arbitrage_mercurl_saber_sol_stsol, Route
  <2> QED
    BY <2>1, SwapsOf DEF SaberLegs
<1>8. Swaps(Arbitrage_saber_mercurl_sol_stsol) \subseteq SaberLegs
  <2>1. Arbitrage_saber_mercurl_sol_stsol.legs =
          <<<<"Saber", "Lid8S", "8eyi3", "Atymw", "4Pgzy", "2AbLY">>,
            <<"Mercurial", "LiDoU", "pG6no", "FqLtq", "9gizz">>>>
    BY DEF Arbitrage_saber_mercurl_sol_stsol, Route
  <2> QED
    BY <2>1, SwapsOf DEF SaberLegs
<1>9. Swaps(Arbitrage_saber_mercurl_usdc_usdt_3pool) \subseteq SaberLegs
  <2>1. Arbitrage_saber_mercurl_usdc_usdt_3pool.legs =
          <<<<"Saber", "YAkoN", "5C1k9", "CfWX7", "EnTrd", "63aJY">>,
            <<"Mercurial", "SWABt", "2dc3U", "J7xkQ", "bqPxs", "Epehb">>>>
    BY DEF Arbitrage_saber_mercurl_usdc_usdt_3pool, Route
  <2> QED
    BY <2>1, SwapsOf DEF SaberLegs
<1>10. Swaps(Arbitrage_mercurl_saber_usdc_usdt_3pool) \subseteq SaberLegs
  <2>1. Arbitrage_mercurl_saber_usdc_usdt_3pool.legs =
          <<<<"Saber", "YAkoN", "5C1k9", "EnTrd", "CfWX7", "XZuQG">>,
            <<"Mercurial", "SWABt", "2dc3U", "J7xkQ", "bqPxs", "Epehb">>>>
    BY DEF Arbitrage_mercurl_saber_usdc_usdt_3pool, Route
  <2> QED
    BY <2>1, SwapsOf DEF SaberLegs
<1>11. Swaps(Arbitrage_orca_raydium_sol_usdc) \subseteq SaberLegs
  <2>1. Arbitrage_orca_raydium_sol_usdc.legs =
          <<<<"Raydium", "58oQC", "5Q544", "HRk9C", "CZza3", "DQyrA", "HLmqe">>,
            <<"SerumV22", "9wFFy", "14ivt", "CEQdA", "5KKsL", "36c6Y", "8CFo8", "F8Vyq">>,
            <<"OrcaV2", "EGZ7t", "JU8km", "ANP74", "75Hgn", "APDFR", "8JnSi">>>>
    BY DEF Arbitrage_orca_raydium_sol_usdc, Route
  <2> QED
    BY <2>1, SwapsOf DEF SaberLegs
<1>12. Swaps(Arbitrage_orca_raydium_gst_usdc) \subseteq SaberLegs
  <2>1. Arbitrage_orca_raydium_gst_usdc.legs =
          <<<<"Saber", "KwnjU", "9osV5", "J63v6", "BnKQt", "G9nt2">>,
            <<"Mercurial", "UST3i", "44K7k", "65sR8", "G5Q7d", "EZd87">>>>
    BY DEF Arbitrage_orca_raydium_gst_usdc, Route
  <2> QED
    BY <2>1, SwapsOf DEF SaberLegs
<1>13. Swaps(Arbitrage_orca_raydium_gmt_usdc) \subseteq SaberLegs
  <2>1. Arbitrage_orca_raydium_gmt_usdc.legs =
          <<<<"Saber", "KwnjU", "9osV5", "J63v6", "BnKQt", "G9nt2">>,
            <<"Mercurial", "UST3i", "44K7k", "65sR8", "G5Q7d", "EZd87">>>>
    BY DEF Arbitrage_orca_raydium_gmt_usdc, Route
  <2> QED
    BY <2>1, SwapsOf DEF SaberLegs
<1>14. Swaps(Arbitrage_whirl_saber_usdc_ust) \subseteq SaberLegs
  <2>1. Arbitrage_whirl_saber_usdc_ust.legs =
          <<<<"Saber", "KwnjU", "9osV5", "J63v6", "BnKQt", "G9nt2">>,
            <<"Whirl", "HyBtx", "CWArX", "8ahvz", "jPBxU", "3Jb2d">>>>
    BY DEF Arbitrage_whirl_saber_usdc_ust, Route
  <2> QED
    BY <2>1, SwapsOf DEF SaberLegs
<1>15. Swaps(Arbitrage_orca_whirl_sol_usdc) \subseteq SaberLegs
  <2>1. Arbitrage_orca_whirl_sol_usdc.legs =
          <<<<"OrcaV2", "EGZ7t", "JU8km", "ANP74", "75Hgn", "APDFR", "8JnSi">>,
            <<"Whirl", "HJPjo", "3YQm7", "2JTw1", "2Eh8H", "4GkRb">>>>
    BY DEF Arbitrage_orca_whirl_sol_usdc, Route
  <2> QED
    BY <2>1, SwapsOf DEF SaberLegs
<1>16. Swaps(Arbitrage_whirl_orca_sol_usdc) \subseteq SaberLegs
  <2>1. Arbitrage_whirl_orca_sol_usdc.legs =
          <<<<"OrcaV2", "EGZ7t", "JU8km", "ANP74", "75Hgn", "APDFR", "8JnSi">>,
            <<"Whirl", "HJPjo", "3YQm7", "2JTw1", "2Eh8H", "4GkRb">>>>
    BY DEF Arbitrage_whirl_orca_sol_usdc, Route
  <2> QED
    BY <2>1, SwapsOf DEF SaberLegs
<1>17. Swaps(Arbitrage_serum_whirl_sol_usdc) \subseteq SaberLegs
  <2>1. Arbitrage_serum_whirl_sol_usdc.legs =
          <<<<"SerumV22", "9wFFy", "fYaDi", "AZG3t", "5KKsL", "14ivt", "CEQdA", "36c6Y", "8CFo8", "F8Vyq">>,
            <<"Saber", "Lid8S", "8eyi3", "Atymw", "4Pgzy", "Cv3YN", "2AbLY">>,
            <<"Whirl", "AXtdS", "5GXtH", "7HxXm", "HJzLn", "AENaN">>>>
    BY DEF Arbitrage_serum_whirl_sol_usdc, Route
  <2> QED
    BY <2>1, SwapsOf DEF SaberLegs
<1>18. Swaps(Arbitrage_whirl_serum_sol_usdc) \subseteq SaberLegs
  <2>1. Arbitrage_whirl_serum_sol_usdc.legs =
          <<<<"SerumV22", "9wFFy", "fYaDi", "AZG3t", "5KKsL", "14ivt", "CEQdA", "36c6Y", "8CFo8", "F8Vyq">>,
            <<"Saber", "Lid8S", "8eyi3", "Atymw", "4Pgzy", "Cv3YN", "2AbLY">>,
            <<"Whirl", "AXtdS", "5GXtH", "7HxXm", "HJzLn", "AENaN">>>>
    BY DEF Arbitrage_whirl_serum_sol_usdc, Route
  <2> QED
    BY <2>1, SwapsOf DEF SaberLegs
<1> QED
  BY <1>1, <1>2, <1>3, <1>4, <1>5, <1>6, <1>7, <1>8, <1>9, <1>10, <1>11, <1>12, <1>13, <1>14, <1>15, <1>16, <1>17, <1>18
     DEF AllRoutes

\* Legs over the same pool agree.
LEMMA LegsAgree ==
  \A a, b \in SaberLegs :
    a[2] = b[2] =>
      /\ a[3] = b[3] /\ {a[4], a[5]} = {b[4], b[5]}
      /\ a[4] = b[4] <=> a[6] = b[6]
BY DEF SaberLegs

-----------------------------------------------------------------------------
(* Nonces.                                                                 *)

\* A transaction carries the nonce it was made with.
LEMMA NonceIs ==
  /\ \A r \in AllRoutes, n \in Nat : NonceOf("saber", Transaction(r, n)) = n
  /\ \A n \in Nat : \A l : NonceOf("orca", [data |-> OrcaData(n), legs |-> l]) = n
  /\ \A n \in Nat : \A l : NonceOf("msol", [data |-> MsolData(n), legs |-> l]) = n
  /\ \A n \in Nat : \A l : NonceOf("usdt", [data |-> UsdtData(n), legs |-> l]) = n
<1>1. ASSUME NEW r \in AllRoutes, NEW n \in Nat PROVE NonceOf("saber", Transaction(r, n)) = n
  <2>1. r.size \in Nat \ {0} /\ r.numbered \in BOOLEAN
    BY RouteSizes
  <2> DEFINE d == [i \in 1 .. r.size |->
                     IF ~r.numbered THEN <<r.op, n>>
                     ELSE <<r.op, IF i = r.size THEN 100 ELSE i - 1, n>>]
  <2>2. Transaction(r, n).data = d
    BY DEF Transaction
  <2>3. 1 \in 1 .. r.size
    BY <2>1
  <2>4. d[1] = IF ~r.numbered THEN <<r.op, n>>
               ELSE <<r.op, IF 1 = r.size THEN 100 ELSE 1 - 1, n>>
    BY <2>3
  <2> HIDE DEF d
  <2>5. \E x : d[1] = <<r.op, n>> \/ d[1] = <<r.op, x, n>>
    BY <2>4
  <2>6. d[1][Len(d[1])] = n
    <3>1. \A a, b : Len(<<a, b>>) = 2 /\ <<a, b>>[2] = b
      OBVIOUS
    <3>2. \A a, b, c : Len(<<a, b, c>>) = 3 /\ <<a, b, c>>[3] = c
      OBVIOUS
    <3>3. PICK y : d[1] = <<r.op, n>> \/ d[1] = <<r.op, y, n>>
      BY <2>5
    <3>4. ASSUME d[1] = <<r.op, n>> PROVE d[1][Len(d[1])] = n
      BY ONLY <3>4, <3>1
    <3>5. ASSUME d[1] = <<r.op, y, n>> PROVE d[1][Len(d[1])] = n
      BY ONLY <3>5, <3>2
    <3> QED
      BY <3>3, <3>4, <3>5
  <2> QED
    BY <2>2, <2>6 DEF NonceOf
<1>2. InstructionSize \in Nat \ {0} /\ 1 \in 1 .. InstructionSize
  BY RoutesAssumption
<1>3. ASSUME NEW n \in Nat, NEW l PROVE NonceOf("orca", [data |-> OrcaData(n), legs |-> l]) = n
  <2>1. OrcaData(n)[1] = <<1, n, IF 1 = InstructionSize THEN 100 ELSE 1 - 1>>
    BY <1>2, Zenon DEF OrcaData
  <2> QED
    BY <2>1 DEF NonceOf
<1>4. ASSUME NEW n \in Nat, NEW l PROVE NonceOf("msol", [data |-> MsolData(n), legs |-> l]) = n
  <2>1. MsolData(n)[1] = <<n + 105>>
    BY <1>2, Zenon DEF MsolData
  <2> QED
    BY <2>1 DEF NonceOf
<1>5. ASSUME NEW n \in Nat, NEW l PROVE NonceOf("usdt", [data |-> UsdtData(n), legs |-> l]) = n
  <2>1. UsdtData(n)[1] = <<n + 5>>
    BY <1>2, Zenon DEF UsdtData
  <2> QED
    BY <2>1 DEF NonceOf
<1> QED
  BY <1>1, <1>3, <1>4, <1>5

\* The next nonce is one more, with a wrap.
LEMMA NextIs ==
  ASSUME NEW n \in Nat, n < NonceMod
  PROVE  /\ (n + 1) % NonceMod \in 0 .. NonceMod - 1
         /\ (n + 1) % NonceMod = n + 1 \/ (n + 1 = NonceMod /\ (n + 1) % NonceMod = 0)
<1>1. NonceMod \in Nat \ {0}
  BY TradersAssumption
<1>2. \A m \in Nat \ {0} : \A k \in Nat : k < m => k % m = k
  OBVIOUS
<1>3. \A m \in Nat \ {0} : m % m = 0
  OBVIOUS
<1>4. CASE n + 1 < NonceMod
  BY <1>1, <1>2, <1>4
<1>5. CASE n + 1 = NonceMod
  BY <1>1, <1>3, <1>5
<1> QED
  BY <1>1, <1>4, <1>5

\* One more commit keeps the nonces apart: each is one further from the newest.
LEMMA CommitKeeps ==
  ASSUME NEW tx, NEW level,
         TypeOK, Fitting, Sequenced, app # "cases", app' = app,
         nonce' = NextNonce, NonceOf(app, tx) = nonce', Commit(tx, level)
  PROVE  /\ nonce' \in 0 .. NonceMod - 1 /\ Sequenced'
         /\ Len(recent') <= NonceMod /\ \E T : recent' \in Seq(T)
<1>m. NonceMod \in Nat \ {0} /\ nonce \in Nat /\ nonce < NonceMod
  BY TradersAssumption DEF TypeOK, Fitting
<1>n. /\ nonce' \in 0 .. NonceMod - 1
      /\ nonce' = nonce + 1 \/ (nonce + 1 = NonceMod /\ nonce' = 0)
  BY <1>m, NextIs DEF NextNonce
<1>1. PICK T : recent \in Seq(T)
  BY DEF Fitting
<1> DEFINE x == [tx |-> tx, level |-> level]
           all == Append(recent, x)
           L == Len(recent)
<1>2. L \in Nat /\ L <= NonceMod /\ DOMAIN recent = 1 .. L
  BY <1>1 DEF TypeOK
<1>3. x.tx = tx
  OBVIOUS
<1> HIDE DEF x
<1>4. /\ all \in Seq(T \cup {x}) /\ Len(all) = L + 1 /\ DOMAIN all = 1 .. L + 1
      /\ \A i \in 1 .. L : all[i] = recent[i]
      /\ all[L + 1] = x
  BY <1>1
<1> HIDE DEF all
<1>5. recent' = Latest(all)
  BY DEF Commit, x, all
<1>l. L = Len(recent)
  OBVIOUS
<1> HIDE DEF L

\* How far a transaction was, and is.
<1>6. ASSUME NEW k \in 0 .. NonceMod - 1, NEW d \in Nat, d < NonceMod,
             Distance(nonce, k, d), d + 1 < NonceMod
      PROVE  Distance(nonce', k, d + 1)
  BY <1>6, <1>m, <1>n DEF Distance
<1>7. Distance(nonce', nonce', 0)
  BY <1>n DEF Distance
<1>8. \A i \in 1 .. L : /\ NonceOf(app, recent[i].tx) \in 0 .. NonceMod - 1
                        /\ Distance(nonce, NonceOf(app, recent[i].tx), L - i)
  BY <1>2, <1>l DEF Sequenced
<1>9. \A i \in 1 .. L + 1 :
        /\ NonceOf(app, all[i].tx) \in 0 .. NonceMod - 1
        /\ L + 1 - i < NonceMod => Distance(nonce', NonceOf(app, all[i].tx), L + 1 - i)
  <2> SUFFICES ASSUME NEW i \in 1 .. L + 1
               PROVE  /\ NonceOf(app, all[i].tx) \in 0 .. NonceMod - 1
                      /\ L + 1 - i < NonceMod => Distance(nonce', NonceOf(app, all[i].tx), L + 1 - i)
    OBVIOUS
  <2>1. CASE i = L + 1
    <3>1. all[i] = x /\ L + 1 - i = 0
      BY <2>1, <1>2, <1>4
    <3>2. NonceOf(app, all[i].tx) = nonce'
      BY <3>1, <1>3
    <3> QED
      BY <3>1, <3>2, <1>7, <1>n
  <2>2. CASE i # L + 1
    <3>1. i \in 1 .. L /\ all[i] = recent[i]
      BY <2>2, <1>2, <1>4
    <3> DEFINE k == NonceOf(app, recent[i].tx)
               d == L - i
    <3>2. k \in 0 .. NonceMod - 1 /\ Distance(nonce, k, d)
      BY <3>1, <1>8
    <3>3. d \in Nat /\ d < NonceMod /\ L + 1 - i = d + 1
      BY ONLY <3>1, <1>2, <1>m
    <3> HIDE DEF k, d
    <3>4. d + 1 < NonceMod => Distance(nonce', k, d + 1)
      BY <3>2, <3>3, <1>6
    <3>5. NonceOf(app, all[i].tx) = k
      BY <3>1 DEF k
    <3> QED
      BY <3>2, <3>3, <3>4, <3>5
  <2> QED
    BY <2>1, <2>2
<1>10. CASE L + 1 <= NonceMod
  <2>0. PICK K \in Nat : K = L + 1
    BY <1>2
  <2>1. recent' = all
    BY ONLY <1>2, <1>m, <1>5, <1>4, <1>10 DEF Latest
  <2>2. \A i \in 1 .. L + 1 : L + 1 - i < NonceMod
    BY ONLY <1>2, <1>m, <1>10
  <2>3. Len(recent') = K /\ DOMAIN recent' = 1 .. K
    BY <2>0, <2>1, <1>4
  <2>4. \A i \in 1 .. K : /\ NonceOf(app, recent'[i].tx) \in 0 .. NonceMod - 1
                          /\ Distance(nonce', NonceOf(app, recent'[i].tx), K - i)
    <3> SUFFICES ASSUME NEW i \in 1 .. K
                 PROVE  /\ NonceOf(app, recent'[i].tx) \in 0 .. NonceMod - 1
                        /\ Distance(nonce', NonceOf(app, recent'[i].tx), K - i)
      OBVIOUS
    <3>1. i \in 1 .. L + 1 /\ K - i = L + 1 - i /\ L + 1 - i < NonceMod
      BY <1>2, <2>0, <2>2
    <3>2. /\ NonceOf(app, all[i].tx) \in 0 .. NonceMod - 1
          /\ Distance(nonce', NonceOf(app, all[i].tx), L + 1 - i)
      BY ONLY <3>1, <1>9
    <3> QED
      BY ONLY <3>1, <3>2, <2>1
  <2>5. Sequenced'
    BY <2>3, <2>4 DEF Sequenced
  <2> QED
    BY <2>0, <2>1, <2>3, <2>5, <1>4, <1>n, <1>10
<1>11. CASE L + 1 > NonceMod
  <2>1. recent' = Tail(all)
    BY <1>5, <1>4, <1>11 DEF Latest
  <2>2. L = NonceMod
    BY ONLY <1>2, <1>m, <1>11
  <2>3. /\ recent' \in Seq(T \cup {x}) /\ Len(recent') = L /\ DOMAIN recent' = 1 .. L
        /\ \A i \in 1 .. L : recent'[i] = all[i + 1]
    BY <2>1, <1>2, <1>4
  <2>4. \A i \in 1 .. L : i + 1 \in 1 .. L + 1 /\ L + 1 - (i + 1) = L - i /\ L - i < NonceMod
    BY <1>2, <2>2
  <2>5. \A i \in 1 .. L : /\ NonceOf(app, recent'[i].tx) \in 0 .. NonceMod - 1
                          /\ Distance(nonce', NonceOf(app, recent'[i].tx), L - i)
    <3> SUFFICES ASSUME NEW i \in 1 .. L
                 PROVE  /\ NonceOf(app, recent'[i].tx) \in 0 .. NonceMod - 1
                        /\ Distance(nonce', NonceOf(app, recent'[i].tx), L - i)
      OBVIOUS
    <3>1. recent'[i] = all[i + 1] /\ i + 1 \in 1 .. L + 1 /\ L + 1 - (i + 1) = L - i /\ L - i < NonceMod
      BY <2>3, <2>4
    <3>2. /\ NonceOf(app, all[i + 1].tx) \in 0 .. NonceMod - 1
          /\ Distance(nonce', NonceOf(app, all[i + 1].tx), L + 1 - (i + 1))
      BY <3>1, <1>9
    <3> QED
      BY <3>1, <3>2
  <2>6. Sequenced'
    BY <2>3, <2>5 DEF Sequenced
  <2> QED
    BY <2>2, <2>3, <2>6, <1>n, <1>m
<1> QED
  BY <1>2, <1>m, <1>10, <1>11

\* Nonces that lie differently far from the newest, less than NonceMod, are different.
LEMMA Apart ==
  ASSUME NEW n \in Nat, NEW k \in Nat, NEW d \in Nat, NEW e \in Nat, d < NonceMod, e < NonceMod,
         Distance(n, k, d), Distance(n, k, e)
  PROVE  d = e
BY TradersAssumption DEF Distance

-----------------------------------------------------------------------------
(* The loop.                                                               *)

\* The program and its flags stay, and with them what it asks for and calls.
LEMMA ConfigStays ==
  ASSUME [Next]_vars
  PROVE  /\ app' = app /\ Requests' = Requests /\ Calls' = Calls
         /\ Asked' = Asked /\ Called' = Called /\ Loops' = Loops
<1>1. app' = app /\ flags' = flags
  BY DEF Next, vars, StartUp, SaberStart, OrcaStart, MsolStart, UsdtStart, CasesStart, Start, Cancel, Rewrite, Stop,
         Leave, Loop, Tick, Count, Calm, Throttle, Fetch, Missing, CommitRoute, CommitMarkets, ReadCases, CommitCase,
         CaseFails, SplUpdate, Feed, Compare, Stamp, Report, config
<1>2. Requests' = Requests /\ Calls' = Calls
  BY <1>1 DEF Requests, Calls
<1> QED
  BY <1>1, <1>2 DEF Asked, Called, Loops

\* What a trader asks for and calls are sequences.
LEMMA SequencesAre == Requests \in Seq(Asked) /\ Calls \in Seq(Called)
<1>1. \A s, T : s \in Seq(T) => s \in Seq({s[i] : i \in DOMAIN s})
  OBVIOUS
<1>2. \E T : Requests \in Seq(T)
  <2>1. \A a, b, c : <<a, b, c>> \in Seq({a, b, c})
    OBVIOUS
  <2>2. \A a, b : <<a, b>> \in Seq({a, b})
    OBVIOUS
  <2>3. <<>> \in Seq({})
    OBVIOUS
  <2>4. \E T : OrcaRequests \in Seq(T)
    BY <2>2, Zenon DEF OrcaRequests
  <2>5. \E T : MsolRequests \in Seq(T)
    BY <2>1, Zenon DEF MsolRequests
  <2>6. \E T : UsdtRequests \in Seq(T)
    BY <2>1, Zenon DEF UsdtRequests
  <2>7. Requests \in {OrcaRequests, MsolRequests, UsdtRequests, <<>>}
    BY DEF Requests
  <2> QED
    BY <2>3, <2>4, <2>5, <2>6, <2>7
<1> QED
  BY <1>1, <1>2, CallsAreRoutes, Zenon DEF Asked, Called

\* What the loop may be at.
LEMMA LoopsAre ==
  /\ \A x \in {"idle", "calm", "throttle", "left"} : [at |-> x] \in Loops
  /\ \A s \in Seq(Asked) : [at |-> "fetch", left |-> s] \in Loops
  /\ \A s \in Seq(Called) \ {<<>>} : [at |-> "call", left |-> s] \in Loops
  /\ \A s \in Seq(Seq(Steps)) \ {<<>>} : [at |-> "case", left |-> s] \in Loops
BY DEF Loops, Steps

\* What the loop has left, and how it goes on.
LEMMA LoopIs ==
  ASSUME TypeOK
  PROVE  /\ loop.at \in {"idle", "calm", "throttle", "left", "fetch", "call", "case"}
         /\ loop.at = "fetch" => /\ loop.left \in Seq(Asked)
                                 /\ \A s : [loop EXCEPT !.left = s] = [at |-> "fetch", left |-> s]
         /\ loop.at = "call" => /\ loop.left \in Seq(Called) \ {<<>>}
                                /\ \A s : [loop EXCEPT !.left = s] = [at |-> "call", left |-> s]
         /\ loop.at = "case" => /\ loop.left \in Seq(Seq(Steps)) \ {<<>>}
                                /\ \A s : [loop EXCEPT !.left = s] = [at |-> "case", left |-> s]
<1>1. \/ loop \in [at : {"idle", "calm", "throttle", "left"}]
      \/ loop \in [at : {"fetch"}, left : Seq(Asked)]
      \/ loop \in [at : {"call"}, left : Seq(Called) \ {<<>>}]
      \/ loop \in [at : {"case"}, left : Seq(Seq(Steps)) \ {<<>>}]
  BY DEF TypeOK, Loops, Steps
<1>2. CASE loop \in [at : {"idle", "calm", "throttle", "left"}]
  BY <1>2
<1>3. CASE loop \in [at : {"fetch"}, left : Seq(Asked)]
  BY <1>3
<1>4. CASE loop \in [at : {"call"}, left : Seq(Called) \ {<<>>}]
  BY <1>4
<1>5. CASE loop \in [at : {"case"}, left : Seq(Seq(Steps)) \ {<<>>}]
  BY <1>5
<1> QED
  BY <1>1, <1>2, <1>3, <1>4, <1>5

\* The loop stays well-formed, and at what its program does.
LEMMA LoopStep ==
  ASSUME IInv, [Next]_vars
  PROVE  /\ loop' \in Loops
         /\ loop'.at \in {"calm", "throttle"} => app \in Throttled
         /\ loop'.at = "fetch" => app \in Watches
         /\ loop'.at = "call" => app = "saber"
         /\ loop'.at = "case" => app = "cases"
         /\ traded' \subseteq Called
         /\ file' \in Texts
<1> DEFINE Fits(l) == /\ l \in Loops
                      /\ l.at \in {"calm", "throttle"} => app \in Throttled
                      /\ l.at = "fetch" => app \in Watches
                      /\ l.at = "call" => app = "saber"
                      /\ l.at = "case" => app = "cases"
<1>t. TypeOK
  BY DEF IInv
<1>f. Fits(loop) /\ traded \subseteq Called /\ file \in Texts
  BY DEF IInv, TypeOK, Fitting
<1>w. Throttled \subseteq Watches
  BY DEF Throttled, Watches
<1>a. \A x \in {"idle", "left"} : Fits([at |-> x])
  BY LoopsAre
<1>b. \A x \in {"calm", "throttle"} : app \in Throttled => Fits([at |-> x])
  BY LoopsAre
<1>c. \A s \in Seq(Asked) : app \in Watches => Fits([at |-> "fetch", left |-> s])
  BY LoopsAre
<1>d. \A s \in Seq(Called) \ {<<>>} : app = "saber" => Fits([at |-> "call", left |-> s])
  BY LoopsAre
<1>e. \A s \in Seq(Seq(Steps)) \ {<<>>} : app = "cases" => Fits([at |-> "case", left |-> s])
  BY LoopsAre
<1>i. Fits(Idle)
  BY <1>a DEF Idle
<1>g. /\ loop.at \in {"calm", "throttle"} => app \in Throttled
      /\ loop.at = "fetch" => app \in Watches
      /\ loop.at = "call" => app = "saber"
      /\ loop.at = "case" => app = "cases"
  BY <1>f
<1> HIDE DEF Fits
<1>s. SUFFICES Fits(loop') /\ traded' \subseteq Called /\ file' \in Texts
  BY DEF Fits
<1>1. CASE Leave
  BY <1>1, <1>a, <1>f DEF Leave, trading
<1>2. CASE Tick
  <2>1. app = "orca" \/ app = "saber"
    BY <1>2 DEF Tick
  <2>2. \/ app = "orca" /\ loop' = [at |-> "fetch", left |-> Requests]
        \/ loop' = Idle
        \/ app = "saber" /\ Calls # <<>> /\ loop' = [at |-> "call", left |-> Calls]
    BY <1>2 DEF Tick
  <2>3. Fits(loop')
    BY <2>2, <1>c, <1>d, <1>i, SequencesAre DEF Watches
  <2> QED
    BY <1>2, <2>3, <1>f DEF Tick, trading
<1>3. CASE Count
  <2>1. app \in Throttled /\ (loop' = [at |-> "calm"] \/ loop' = [at |-> "throttle"])
    BY <1>3 DEF Count
  <2> QED
    BY <1>3, <2>1, <1>b, <1>f DEF Count, trading
<1>4. CASE Calm
  <2>1. app \in Throttled /\ loop' = [at |-> "throttle"]
    BY <1>4, <1>g DEF Calm
  <2> QED
    BY <1>4, <2>1, <1>b, <1>f DEF Calm, trading
<1>5. CASE Throttle
  <2>1. app \in Watches /\ (loop' = [at |-> "fetch", left |-> Requests] \/ loop' = Idle)
    BY <1>5, <1>g, <1>w DEF Throttle
  <2> QED
    BY <1>5, <2>1, <1>c, <1>i, <1>f, SequencesAre DEF Throttle, trading
<1>6. CASE Fetch
  <2>1. loop.left \in Seq(Asked) /\ loop.left # <<>>
    BY <1>6, <1>t, LoopIs DEF Fetch
  <2>2. Tail(loop.left) \in Seq(Asked)
    BY <2>1
  <2>3. app \in Watches /\ loop' = [at |-> "fetch", left |-> Tail(loop.left)]
    BY <1>6, <1>t, <1>g, LoopIs DEF Fetch
  <2> QED
    BY <1>6, <2>2, <2>3, <1>c, <1>f DEF Fetch, trading
<1>7. CASE Missing \/ CommitMarkets
  BY <1>7, <1>i, <1>f DEF Missing, CommitMarkets, trading
<1>8. CASE CommitRoute
  <2>1. loop.left \in Seq(Called) /\ loop.left # <<>> /\ app = "saber"
    BY <1>8, <1>t, <1>g, LoopIs DEF CommitRoute
  <2>2. Tail(loop.left) \in Seq(Called) /\ Head(loop.left) \in Called
    BY <2>1
  <2>3. loop' = Idle \/ (Tail(loop.left) # <<>> /\ loop' = [at |-> "call", left |-> Tail(loop.left)])
    BY <1>8, <1>t, LoopIs DEF CommitRoute
  <2> QED
    BY <1>8, <2>1, <2>2, <2>3, <1>d, <1>i, <1>f DEF CommitRoute
<1>9. CASE ReadCases
  <2>1. \A f \in Files : f \in Seq(Seq(Steps))
    BY TradersAssumption DEF Steps
  <2>2. file.there => \E f \in Files : file.cases = f
    BY <1>f DEF Texts, NoFile
  <2>3. file.cases \in Seq(Seq(Steps)) /\ app = "cases"
    BY <1>9, <2>1, <2>2 DEF ReadCases
  <2>4. loop' = Idle \/ (file.cases # <<>> /\ loop' = [at |-> "case", left |-> file.cases])
    BY <1>9 DEF ReadCases
  <2> QED
    BY <1>9, <2>3, <2>4, <1>e, <1>i, <1>f DEF ReadCases
<1>10. CASE CommitCase
  <2>1. loop.left \in Seq(Seq(Steps)) /\ loop.left # <<>> /\ app = "cases"
    BY <1>10, <1>t, <1>g, LoopIs DEF CommitCase
  <2>2. loop' = Idle \/ (Tail(loop.left) # <<>> /\ loop' = [at |-> "case", left |-> Tail(loop.left)])
    BY <1>10, <1>t, LoopIs DEF CommitCase
  <2>3. Tail(loop.left) \in Seq(Seq(Steps))
    BY <2>1
  <2> QED
    BY <1>10, <2>1, <2>2, <2>3, <1>e, <1>i, <1>f DEF CommitCase
<1>11. CASE CaseFails
  <2>1. loop' = [at |-> "idle"] \/ loop' = [at |-> "left"]
    BY <1>11 DEF CaseFails
  <2> QED
    BY <1>11, <2>1, <1>a, <1>f DEF CaseFails, trading
<1>12. CASE UNCHANGED <<loop, traded>> /\ file' \in Texts
  BY <1>12, <1>f
<1>13. StartUp \/ Cancel \/ Rewrite \/ Stop \/ (\E new \in Amounts : SplUpdate(new)) \/ Feed \/ UNCHANGED vars
       => UNCHANGED <<loop, traded>> /\ file' \in Texts
  BY <1>f DEF StartUp, SaberStart, OrcaStart, MsolStart, UsdtStart, CasesStart, Start, Cancel, Rewrite, Stop, SplUpdate,
         Feed, Compare, Stamp, Report, vars, trading
<1> QED
  BY <1>1, <1>2, <1>3, <1>4, <1>5, <1>6, <1>7, <1>8, <1>9, <1>10, <1>11, <1>12, <1>13 DEF Next, Loop

-----------------------------------------------------------------------------
(* What is committed.                                                      *)

\* Every other step leaves the nonce, the hash level and the transactions alone.
LEMMA TradingOnly ==
  ASSUME [Next]_vars
  PROVE  CommitRoute \/ CommitMarkets \/ ReadCases \/ CommitCase \/ UNCHANGED <<nonce, blockHash, recent>>
BY DEF Next, vars, StartUp, SaberStart, OrcaStart, MsolStart, UsdtStart, CasesStart, Start, Cancel, Rewrite, Stop,
       Leave, Loop, Tick, Count, Calm, Throttle, Fetch, Missing, CaseFails, SplUpdate, Feed, Compare, Stamp, Report,
       trading

\* A commit of a route or of markets has the next nonce.
LEMMA CommitIs ==
  ASSUME IInv, CommitRoute \/ CommitMarkets
  PROVE  /\ app # "cases" /\ nonce' = NextNonce /\ blockHash' = (blockHash + 1) % Levels
         /\ \E tx, level : Commit(tx, level) /\ (nonce' \in Nat => NonceOf(app, tx) = nonce')
<1>t. TypeOK
  BY DEF IInv
<1>1. CASE CommitRoute
  <2>1. app = "saber" /\ loop.left \in Seq(Called) \ {<<>>}
    BY <1>1, <1>t, LoopIs DEF IInv, Fitting, CommitRoute
  <2>2. Head(loop.left) \in Called
    BY <2>1
  <2>3. Called \subseteq AllRoutes
    BY CallsAreRoutes DEF Called
  <2>4. nonce' \in Nat => NonceOf(app, Transaction(Head(loop.left), nonce')) = nonce'
    BY <2>1, <2>2, <2>3, NonceIs, Zenon
  <2>5. Commit(Transaction(Head(loop.left), nonce'), blockHash)
    BY <1>1 DEF CommitRoute
  <2>6. app # "cases" /\ nonce' = NextNonce /\ blockHash' = (blockHash + 1) % Levels
    BY <1>1, <2>1 DEF CommitRoute
  <2> QED
    BY <2>4, <2>5, <2>6, Zenon
<1>2. CASE CommitMarkets
  <2>1. app \in Watches
    BY <1>2 DEF IInv, Fitting, CommitMarkets
  <2>2. nonce' = NextNonce /\ blockHash' = (blockHash + 1) % Levels
    BY <1>2 DEF CommitMarkets
  <2>3. CASE app = "orca"
    <3>1. Commit([data |-> OrcaData(nonce'), legs |-> Requests], blockHash)
      BY <1>2, <2>3 DEF CommitMarkets
    <3>2. nonce' \in Nat => NonceOf("orca", [data |-> OrcaData(nonce'), legs |-> Requests]) = nonce'
      BY NonceIs, Zenon
    <3> QED
      BY <2>2, <2>3, <3>1, <3>2
  <2>4. CASE app = "msol"
    <3>1. Commit([data |-> MsolData(nonce'), legs |-> Requests], blockHash)
      BY <1>2, <2>4 DEF CommitMarkets
    <3>2. nonce' \in Nat => NonceOf("msol", [data |-> MsolData(nonce'), legs |-> Requests]) = nonce'
      BY NonceIs, Zenon
    <3> QED
      BY <2>2, <2>4, <3>1, <3>2
  <2>5. CASE app = "usdt"
    <3>1. Commit([data |-> UsdtData(nonce'), legs |-> Requests], blockHash)
      BY <1>2, <2>5 DEF CommitMarkets
    <3>2. nonce' \in Nat => NonceOf("usdt", [data |-> UsdtData(nonce'), legs |-> Requests]) = nonce'
      BY NonceIs, Zenon
    <3> QED
      BY <2>2, <2>5, <3>1, <3>2
  <2> QED
    BY <2>1, <2>3, <2>4, <2>5 DEF Watches
<1> QED
  BY <1>1, <1>2

\* What a case becomes.
Whole(tx) ==
  /\ Len(tx.data) = Len(tx.of)
  /\ \A j \in DOMAIN tx.data : (tx.data[j][1] = 0 <=> j = 1)
                               /\ (tx.data[j][1] = 2 <=> j = Len(tx.of) /\ j > 1)

\* A case is committed with all its steps, the first and the last of them marked.
LEMMA CaseIs ==
  ASSUME IInv, CommitCase
  PROVE  /\ app = "cases" /\ UNCHANGED <<nonce, blockHash>>
         /\ \E tx, level : Commit(tx, level) /\ Whole(tx)
<1> DEFINE case == Head(loop.left)
           data == [j \in DOMAIN case |-> <<Flag(case, j), nonce>>]
           tx == [data |-> data, of |-> case]
<1>1. app = "cases" /\ loop.left \in Seq(Seq(Steps)) \ {<<>>}
  BY LoopIs DEF IInv, Fitting, CommitCase
<1>2. case \in Seq(Steps)
  BY <1>1
<1>3. Commit(tx, 0) /\ UNCHANGED <<nonce, blockHash>>
  BY DEF CommitCase, CaseSteps
<1> HIDE DEF case
<1>4. Len(case) \in Nat /\ DOMAIN case = 1 .. Len(case)
  BY <1>2
<1>5. Len(data) = Len(case) /\ DOMAIN data = 1 .. Len(case)
  BY <1>4
<1>6. \A j \in 1 .. Len(case) : data[j][1] = Flag(case, j)
  BY <1>4
<1>7. \A j \in 1 .. Len(case) : /\ (Flag(case, j) = 0 <=> j = 1)
                                /\ (Flag(case, j) = 2 <=> (j = Len(case) /\ j > 1))
  <2> SUFFICES ASSUME NEW j \in 1 .. Len(case)
               PROVE  /\ (Flag(case, j) = 0 <=> j = 1)
                      /\ (Flag(case, j) = 2 <=> (j = Len(case) /\ j > 1))
    OBVIOUS
  <2>1. Flag(case, j) = IF j = 1 THEN 0 ELSE IF j = Len(case) THEN 2 ELSE 1
    BY DEF Flag
  <2>2. j \in Nat /\ j >= 1
    BY <1>4
  <2> QED
    BY ONLY <2>1, <2>2
<1>8. tx.data = data /\ tx.of = case
  OBVIOUS
<1> HIDE DEF data, tx
<1>9. Whole(tx)
  <2>1. \A j \in 1 .. Len(case) : /\ (data[j][1] = 0 <=> j = 1)
                                  /\ (data[j][1] = 2 <=> (j = Len(case) /\ j > 1))
    <3> SUFFICES ASSUME NEW j \in 1 .. Len(case)
                 PROVE  /\ (data[j][1] = 0 <=> j = 1)
                        /\ (data[j][1] = 2 <=> (j = Len(case) /\ j > 1))
      OBVIOUS
    <3>1. data[j][1] = Flag(case, j)
      BY <1>6
    <3> QED
      BY <1>7, <3>1
  <2> QED
    BY ONLY <1>5, <1>8, <2>1 DEF Whole
<1> QED
  BY <1>1, <1>3, <1>9

\* The nonces go on one by one, and the transactions of cases are whole.
LEMMA TradeStep ==
  ASSUME IInv, [Next]_vars
  PROVE  /\ nonce' \in 0 .. NonceMod /\ blockHash' \in 0 .. Levels - 1
         /\ app # "cases" => nonce' < NonceMod
         /\ Len(recent') <= NonceMod /\ \E T : recent' \in Seq(T)
         /\ Sequenced' /\ CasesWhole'
<1>t. TypeOK /\ Fitting /\ Sequenced /\ CasesWhole
  BY DEF IInv
<1>m. NonceMod \in Nat \ {0} /\ nonce \in Nat /\ nonce \in 0 .. NonceMod /\ blockHash \in 0 .. 2
  BY <1>t, TradersAssumption DEF TypeOK, Levels
<1>h. \A n \in 0 .. 2 : (n + 1) % 3 \in 0 .. 2
  OBVIOUS
<1>k. app' = app
  BY ConfigStays
<1>1. CASE CommitRoute \/ CommitMarkets
  <2>1. app # "cases" /\ nonce' = NextNonce /\ blockHash' \in 0 .. Levels - 1
    BY <1>1, <1>m, <1>h, CommitIs DEF Levels
  <2>2. PICK tx, level : Commit(tx, level) /\ (nonce' \in Nat => NonceOf(app, tx) = nonce')
    BY <1>1, CommitIs
  <2>3. nonce < NonceMod
    BY <1>t, <2>1 DEF Fitting
  <2>4. nonce' \in Nat
    BY <2>1, <2>3, <1>m, NextIs DEF NextNonce
  <2>5. /\ nonce' \in 0 .. NonceMod - 1 /\ Sequenced'
        /\ Len(recent') <= NonceMod /\ \E T : recent' \in Seq(T)
    BY <1>t, <1>k, <2>1, <2>2, <2>4, CommitKeeps
  <2>6. CasesWhole'
    BY <2>1, <1>k DEF CasesWhole
  <2> QED
    BY <2>1, <2>5, <2>6, <1>m
<1>2. CASE CommitCase
  <2>1. app = "cases" /\ UNCHANGED <<nonce, blockHash>>
    BY <1>2, CaseIs
  <2>2. PICK tx, level : Commit(tx, level) /\ Whole(tx)
    BY <1>2, CaseIs
  <2>3. PICK T : recent \in Seq(T)
    BY <1>t DEF Fitting
  <2> DEFINE x == [tx |-> tx, level |-> level]
             all == Append(recent, x)
  <2>4. x.tx = tx
    OBVIOUS
  <2> HIDE DEF x
  <2>5. /\ all \in Seq(T \cup {x}) /\ Len(all) = Len(recent) + 1
        /\ \A i \in DOMAIN all : all[i] = x \/ (i \in DOMAIN recent /\ all[i] = recent[i])
    BY <2>3
  <2>6. Len(recent) \in Nat /\ Len(recent) <= NonceMod
    BY <2>3, <1>t DEF TypeOK
  <2>7. recent' = Latest(all)
    BY <2>2 DEF Commit, x
  <2>8. \A i \in DOMAIN all : Whole(all[i].tx)
    <3>1. \A i \in DOMAIN recent : Whole(recent[i].tx)
      BY <1>t, <2>1 DEF CasesWhole, Whole
    <3> QED
      BY <2>2, <2>4, <2>5, <3>1
  <2> HIDE DEF all
  <2>9. CASE Len(all) > NonceMod
    <3>1. recent' = Tail(all) /\ all # <<>>
      BY <2>5, <2>6, <2>7, <2>9, <1>m DEF Latest
    <3>2. /\ recent' \in Seq(T \cup {x}) /\ Len(recent') = Len(recent)
          /\ \A i \in DOMAIN recent' : i + 1 \in DOMAIN all /\ recent'[i] = all[i + 1]
      BY <2>5, <3>1
    <3>3. \A i \in DOMAIN recent' : Whole(recent'[i].tx)
      BY <2>8, <3>2
    <3> QED
      BY <2>1, <2>6, <3>2, <3>3, <1>k, <1>m, <1>t DEF CasesWhole, Whole, Sequenced, TypeOK
  <2>10. CASE ~(Len(all) > NonceMod)
    <3>1. recent' = all
      BY <2>7, <2>10 DEF Latest
    <3>2. \A i \in DOMAIN recent' : Whole(recent'[i].tx)
      BY <2>8, <3>1
    <3>3. Len(recent') <= NonceMod
      BY <2>5, <2>6, <2>10, <3>1, <1>m
    <3> QED
      BY <2>1, <2>5, <3>1, <3>2, <3>3, <1>k, <1>m, <1>t DEF CasesWhole, Whole, Sequenced, TypeOK
  <2> QED
    BY <2>9, <2>10
<1>3. CASE ReadCases
  <2>1. app = "cases" /\ UNCHANGED <<blockHash, recent>> /\ nonce' = (nonce % NonceMod) + 1
    BY <1>3 DEF ReadCases, NextNonce
  <2>2. \A m \in Nat \ {0}, n \in Nat : n % m \in 0 .. m - 1
    OBVIOUS
  <2>3. nonce % NonceMod \in 0 .. NonceMod - 1
    BY <2>2, <1>m
  <2>4. nonce' \in 0 .. NonceMod
    BY <2>1, <2>3, <1>m
  <2>5. Sequenced' /\ CasesWhole'
    BY <2>1, <1>k, <1>t DEF Sequenced, CasesWhole
  <2> QED
    BY <2>1, <2>4, <2>5, <1>t DEF TypeOK, Fitting
<1>4. CASE UNCHANGED <<nonce, blockHash, recent>>
  BY <1>4, <1>t, <1>k DEF TypeOK, Fitting, Sequenced, CasesWhole
<1> QED
  BY <1>1, <1>2, <1>3, <1>4, TradingOnly

-----------------------------------------------------------------------------
(* The balances.                                                           *)

\* What is on its way to a trader is the newest balance, and what it has told adds up.
LEMMA BalanceStep ==
  ASSUME IInv, [Next]_vars
  PROVE  /\ amount' \in Amounts /\ balances' \in Amounts /\ base' \in Amounts /\ told' \in Int
         /\ feed' \in Feeds /\ Newest' /\ KnownIsCurrent' /\ DifferencesAddUp'
<1>t. /\ amount \in Amounts /\ balances \in Amounts /\ base \in Amounts /\ told \in Int
      /\ feed \in Feeds
      /\ feed # Idle => feed.new = amount
      /\ feed = Idle /\ balances # 0 => balances = amount
      /\ balances # 0 => told = balances - base
  BY DEF IInv, TypeOK, Newest, KnownIsCurrent, DifferencesAddUp
<1>a. Amounts \subseteq Nat
  BY TradersAssumption
<1>f. /\ \A x \in {"compare", "stamp", "report"}, n \in Amounts :
            /\ [at |-> x, new |-> n] \in Feeds /\ [at |-> x, new |-> n] # Idle /\ [at |-> x, new |-> n].new = n
      /\ Idle \in Feeds
      /\ feed # Idle => /\ feed.new \in Amounts /\ feed \in [at : {"compare", "stamp", "report"}, new : Amounts]
                        /\ \A x : [feed EXCEPT !.at = x] = [at |-> x, new |-> feed.new]
  BY <1>t DEF Feeds, Idle
<1>g. feed.at \in {"compare", "stamp", "report"} => feed # Idle
  BY DEF Idle
<1> HIDE DEF Feeds
<1>s. SUFFICES /\ amount' \in Amounts /\ balances' \in Amounts /\ base' \in Amounts /\ told' \in Int
               /\ feed' \in Feeds
               /\ feed' # Idle => feed'.new = amount'
               /\ feed' = Idle /\ balances' # 0 => balances' = amount'
               /\ balances' # 0 => told' = balances' - base'
  BY DEF Newest, KnownIsCurrent, DifferencesAddUp, Feeds, Idle
<1>1. ASSUME NEW new \in Amounts, SplUpdate(new)
      PROVE  /\ amount' \in Amounts /\ balances' \in Amounts /\ base' \in Amounts /\ told' \in Int
             /\ feed' \in Feeds
             /\ feed' # Idle => feed'.new = amount'
             /\ feed' = Idle /\ balances' # 0 => balances' = amount'
             /\ balances' # 0 => told' = balances' - base'
  <2>1. /\ feed = Idle /\ amount' = new /\ UNCHANGED <<balances, base, told>>
        /\ feed' = IF amount # 0 THEN [at |-> "compare", new |-> new] ELSE Idle
    BY <1>1 DEF SplUpdate
  <2> QED
    BY <2>1, <1>t, <1>f
<1>2. CASE Compare
  <2>1. /\ feed # Idle /\ UNCHANGED <<amount, balances, base, told>>
        /\ \/ feed.new = balances /\ feed' = Idle
           \/ feed' = [at |-> "stamp", new |-> feed.new]
           \/ feed' = [at |-> "report", new |-> feed.new]
    BY <1>2, <1>f, <1>g DEF Compare
  <2> QED
    BY <2>1, <1>t, <1>f
<1>3. CASE Stamp
  <2>1. /\ feed # Idle /\ UNCHANGED <<amount, balances, base, told>>
        /\ feed' = [at |-> "report", new |-> feed.new]
    BY <1>3, <1>f, <1>g DEF Stamp
  <2> QED
    BY <2>1, <1>t, <1>f
<1>4. CASE Report
  <2>1. /\ feed # Idle /\ feed' = Idle /\ amount' = amount /\ balances' = feed.new
        /\ base' = IF balances = 0 THEN feed.new ELSE base
        /\ told' = IF balances = 0 THEN 0 ELSE told + (feed.new - balances)
    BY <1>4, <1>g DEF Report, Difference
  <2>2. feed.new = amount /\ amount \in Nat /\ balances \in Nat /\ base \in Nat
    BY <2>1, <1>t, <1>a
  <2>3. told' \in Int /\ (balances' # 0 => told' = balances' - base')
    BY <2>1, <2>2, <1>t
  <2> QED
    BY <2>1, <2>2, <2>3, <1>t, <1>f
<1>5. CASE UNCHANGED spl
  BY <1>5, <1>t DEF spl
<1>6. StartUp \/ Cancel \/ Rewrite \/ Stop \/ Leave \/ Loop \/ UNCHANGED vars => UNCHANGED spl
  BY DEF StartUp, SaberStart, OrcaStart, MsolStart, UsdtStart, CasesStart, Start, Cancel, Rewrite, Stop, Leave, Loop,
         Tick, Count, Calm, Throttle, Fetch, Missing, CommitRoute, CommitMarkets, ReadCases, CommitCase, CaseFails,
         vars, spl
<1> QED
  BY <1>1, <1>2, <1>3, <1>4, <1>5, <1>6 DEF Next, Feed

\* The rest of the types: what the program is at, and the clock.
LEMMA ClockStep ==
  ASSUME IInv, [Next]_vars
  PROVE  /\ app' \in Apps /\ phase' \in {"new", "running", "stopped", "crashed"} /\ ctx' \in {"open", "done"}
         /\ served' \subseteq Asked
         /\ tick' \in 0 .. Slow - 1 /\ age' \in 0 .. Quiet + 1 /\ frequency' \in {Slow, Fast}
<1>t. /\ app \in Apps /\ phase \in {"new", "running", "stopped", "crashed"} /\ ctx \in {"open", "done"}
      /\ served \subseteq Asked
      /\ tick \in 0 .. Slow - 1 /\ age \in 0 .. Quiet + 1 /\ frequency \in {Slow, Fast}
  BY DEF IInv, TypeOK
<1>m. Slow \in Nat \ {0} /\ Quiet \in Nat
  BY TradersAssumption
<1>1. CASE StartUp
  <2>1. ASSUME NEW r, r = Requests, Start(r), \E T : r \in Seq(T) PROVE served' \subseteq Asked
    <3>1. PICK k \in 0 .. Len(r) : served' = {r[i] : i \in 1 .. k}
      BY <2>1 DEF Start
    <3>2. 1 .. k \subseteq DOMAIN r
      BY <2>1
    <3> QED
      BY <2>1, <3>1, <3>2 DEF Asked
  <2>2. /\ app \in {"saber", "cases"} => Requests = <<>>
        /\ app = "orca" => Requests = OrcaRequests
        /\ app = "msol" => Requests = MsolRequests
        /\ app = "usdt" => Requests = UsdtRequests
    BY DEF Requests
  <2>3. \E r : r = Requests /\ Start(r)
    BY <1>1, <2>2 DEF StartUp, SaberStart, OrcaStart, MsolStart, UsdtStart, CasesStart
  <2>4. served' \subseteq Asked
    BY <2>1, <2>3, SequencesAre
  <2>5. phase' = "running" /\ UNCHANGED <<app, ctx, clock>>
    BY <1>1 DEF StartUp, SaberStart, OrcaStart, MsolStart, UsdtStart, CasesStart, Start
  <2> QED
    BY <2>4, <2>5, <1>t DEF clock
<1>2. CASE Cancel \/ Stop \/ CaseFails
  BY <1>2, <1>t DEF Cancel, Stop, CaseFails, config, clock
<1>3. CASE Count
  <2>1. tick' = (tick + 1) % Slow /\ age' = (IF age > Quiet THEN age ELSE age + 1) /\ UNCHANGED <<config, phase, ctx, frequency>>
    BY <1>3 DEF Count
  <2>2. \A m \in Nat \ {0}, n \in Nat : n % m \in 0 .. m - 1
    OBVIOUS
  <2>3. tick' \in 0 .. Slow - 1
    BY <2>1, <2>2, <1>t, <1>m
  <2>4. age' \in 0 .. Quiet + 1
    BY <2>1, <1>t, <1>m
  <2> QED
    BY <2>1, <2>3, <2>4, <1>t DEF config
<1>4. CASE Calm \/ Compare
  BY <1>4, <1>t DEF Calm, Compare, config
<1>5. CASE Stamp
  BY <1>5, <1>t, <1>m DEF Stamp, config
<1>6. CASE UNCHANGED <<config, phase, ctx, clock>>
  BY <1>6, <1>t DEF config, clock
<1>7. /\ Rewrite \/ Leave \/ Tick \/ Throttle \/ Fetch \/ Missing \/ CommitRoute \/ CommitMarkets \/ ReadCases \/ CommitCase
           \/ (\E new \in Amounts : SplUpdate(new)) \/ Report \/ UNCHANGED vars
         => UNCHANGED <<config, phase, ctx, clock>>
  BY DEF Rewrite, Leave, Tick, Throttle, Fetch, Missing, CommitRoute, CommitMarkets, ReadCases, CommitCase, SplUpdate,
         Report, vars, config, clock
<1> QED
  BY <1>1, <1>2, <1>3, <1>4, <1>5, <1>6, <1>7 DEF Next, Loop, Feed

-----------------------------------------------------------------------------
(* The theorems.                                                           *)

\* A trader begins with its invariant.
LEMMA Initially == Init => IInv
<1> SUFFICES ASSUME Init PROVE IInv
  OBVIOUS
<1>m. NonceMod \in Nat \ {0} /\ Slow \in Nat \ {0} /\ Quiet \in Nat /\ 0 \in Amounts
  BY TradersAssumption
<1>1. /\ app \in Apps /\ phase = "new" /\ ctx = "open" /\ served = {} /\ loop = [at |-> "idle"]
      /\ nonce = 0 /\ blockHash \in {0, 2} /\ tick = 0 /\ age = 0 /\ frequency = Slow
      /\ file \in Texts /\ amount \in Amounts /\ balances = 0 /\ feed = Idle /\ base = 0 /\ told = 0
      /\ recent = <<>> /\ traded = {}
  BY <1>m DEF Init, Texts, Idle
<1>2. loop \in Loops
  BY <1>1, LoopsAre
<1>3. Len(recent) = 0 /\ recent \in Seq({}) /\ DOMAIN recent = {}
  BY <1>1
<1>4. TypeOK
  BY <1>m, <1>1, <1>2, <1>3 DEF TypeOK, Levels, Feeds
<1>5. Fitting
  BY <1>m, <1>1, <1>3 DEF Fitting
<1>6. Sequenced /\ CasesWhole
  BY <1>3 DEF Sequenced, CasesWhole
<1>7. Newest /\ KnownIsCurrent /\ DifferencesAddUp
  BY <1>1 DEF Newest, KnownIsCurrent, DifferencesAddUp
<1> QED
  BY <1>4, <1>5, <1>6, <1>7 DEF IInv

\* The invariant holds in all behaviours.
THEOREM Invariant == SafeSpec => []IInv
<1>1. IInv /\ [Next]_vars => IInv'
  <2> SUFFICES ASSUME IInv, [Next]_vars PROVE IInv'
    OBVIOUS
  <2>1. /\ app' = app /\ Asked' = Asked /\ Called' = Called /\ Loops' = Loops
        /\ Texts' = Texts /\ Feeds' = Feeds
    BY ConfigStays DEF Texts, Feeds, Idle, NoFile
  <2>2. TypeOK'
    BY <2>1, LoopStep, TradeStep, BalanceStep, ClockStep DEF TypeOK
  <2>3. Fitting'
    BY <2>1, LoopStep, TradeStep DEF Fitting, Throttled, Watches
  <2> QED
    BY <2>2, <2>3, TradeStep, BalanceStep DEF IInv
<1> QED
  BY Initially, <1>1, PTL DEF SafeSpec

\* What a trader has and tells of its balance is the account's.
THEOREM BalancesSoundAlways == SafeSpec => []BalancesSound
<1>1. IInv => BalancesSound
  BY DEF IInv, BalancesSound
<1> QED
  BY <1>1, Invariant, PTL

\* Of the last NonceMod transactions of a trader no two are equal.
THEOREM TwinsApartAlways == SafeSpec => []TwinsApart
<1>1. ASSUME IInv PROVE TwinsApart
  <2> SUFFICES ASSUME app # "cases", NEW i \in DOMAIN recent, NEW j \in DOMAIN recent, recent[i] = recent[j]
               PROVE  i = j
    BY DEF TwinsApart
  <2>1. PICK T : recent \in Seq(T)
    BY <1>1 DEF IInv, Fitting
  <2>2. Len(recent) \in Nat /\ Len(recent) <= NonceMod /\ i \in 1 .. Len(recent) /\ j \in 1 .. Len(recent)
    BY <1>1, <2>1 DEF IInv, TypeOK
  <2>3. NonceMod \in Nat \ {0} /\ nonce \in Nat
    BY <1>1, TradersAssumption DEF IInv, TypeOK
  <2> DEFINE k == NonceOf(app, recent[i].tx)
             d == Len(recent) - i
             e == Len(recent) - j
  <2>4. d \in Nat /\ d < NonceMod /\ e \in Nat /\ e < NonceMod
    BY <2>2, <2>3
  <2>5. k \in Nat /\ Distance(nonce, k, d) /\ Distance(nonce, k, e)
    <3>1. /\ k \in 0 .. NonceMod - 1 /\ Distance(nonce, k, d)
          /\ Distance(nonce, NonceOf(app, recent[j].tx), e)
      BY <1>1 DEF IInv, Sequenced
    <3> QED
      BY <2>3, <3>1
  <2>6. d = e
    BY <2>3, <2>4, <2>5, Apart
  <2> QED
    BY <2>2, <2>6
<1> QED
  BY <1>1, Invariant, PTL

\* The accounts of every route, which pools they share, and the steps of every case are
\* right.
THEOREM TransactionsSoundAlways == SafeSpec => []TransactionsSound
<1>1. ASSUME IInv PROVE TransactionsSound
  <2>1. Called \subseteq AllRoutes
    BY CallsAreRoutes DEF Called
  <2>2. \A r \in traded : Swaps(r) \subseteq SaberLegs
    BY <1>1, <2>1, SwapsAre DEF IInv, TypeOK
  <2>3. SaberPoolsAgree
    BY <2>2, LegsAgree, Zenon DEF SaberPoolsAgree
  <2> QED
    BY <1>1, <2>3 DEF IInv, TransactionsSound
<1> QED
  BY <1>1, Invariant, PTL
=============================================================================
