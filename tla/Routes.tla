-------------------------------- MODULE Routes --------------------------------
(***************************************************************************)
(* The routes of the trader random_saber_mercurl_usdc_ust: what each of    *)
(* the functions Arbitrage_... it calls puts into the instructions of its  *)
(* transaction.  A route is a record                                       *)
(*   op    - data[0], which tells the contract what to do                  *)
(*   legs  - the accounts of its exchanges, each with the exchange first   *)
(*   users - the tokens whose accounts are used (env.TokenUser)            *)
(*   size  - how many instructions, numbered if data[1] is a number        *)
(* An account is named by the first characters of its key.  Left out: the  *)
(* accounts that all routes name (Exchange, the user, Token, the clock),   *)
(* and which of them are writable.                                         *)
(***************************************************************************)
EXTENDS Integers, Sequences

CONSTANTS
  InstructionSize,   \* instructions of a transaction (config.InstructionSize)
  InstructionSize2   \* the same for Orca and Raydium (config.InstructionSize2)

ASSUME RoutesAssumption ==
  /\ InstructionSize \in Nat \ {0}
  /\ InstructionSize2 \in Nat \ {0}

Route(op, legs, users) ==
  [op |-> op, legs |-> legs, users |-> users, size |-> InstructionSize, numbered |-> TRUE]

-----------------------------------------------------------------------------
(* Saber against Mercurial.  A leg of Saber: the pool, its authority, the  *)
(* vault paid into, the vault paid from, the fee account.                  *)

\* Faulty: the fee account of the opposite direction, left from the copy.
Arbitrage_mercurl_saber_sol_msol_copied ==
  Route(81, <<<<"Saber", "Lee1X", "2Sj4M", "9DgFS", "2hNHZ", "HzZRD">>,
              <<"Mercurial", "MAR1z", "GcJck", "EWy2h", "GM48q">>>>, <<"SOL", "MSOL">>)

Arbitrage_saber_mercurl_usdc_ust ==
  Route(31, <<<<"Saber", "KwnjU", "9osV5", "BnKQt", "J63v6", "BYgyV">>,
              <<"Mercurial", "UST3i", "44K7k", "65sR8", "G5Q7d", "EZd87">>>>, <<"USDC", "UST">>)
Arbitrage_mercurl_saber_usdc_ust ==
  Route(41, <<<<"Saber", "KwnjU", "9osV5", "J63v6", "BnKQt", "G9nt2">>,
              <<"Mercurial", "UST3i", "44K7k", "65sR8", "G5Q7d", "EZd87">>>>, <<"USDC", "UST">>)
Arbitrage_saber_mercurl_usdc_usdt ==
  Route(51, <<<<"Saber", "YAkoN", "5C1k9", "CfWX7", "EnTrd", "63aJY">>,
              <<"Mercurial", "UST3i", "44K7k", "65sR8", "G5Q7d", "EZd87">>>>, <<"USDC", "USDT">>)
Arbitrage_mercurl_saber_usdc_usdt ==
  Route(61, <<<<"Saber", "YAkoN", "5C1k9", "EnTrd", "CfWX7", "XZuQG">>,
              <<"Mercurial", "UST3i", "44K7k", "65sR8", "G5Q7d", "EZd87">>>>, <<"USDC", "USDT">>)
Arbitrage_saber_mercurl_usdc_usdt_3pool ==
  Route(51, <<<<"Saber", "YAkoN", "5C1k9", "CfWX7", "EnTrd", "63aJY">>,
              <<"Mercurial", "SWABt", "2dc3U", "J7xkQ", "bqPxs", "Epehb">>>>, <<"USDC", "USDT">>)
Arbitrage_mercurl_saber_usdc_usdt_3pool ==
  Route(61, <<<<"Saber", "YAkoN", "5C1k9", "EnTrd", "CfWX7", "XZuQG">>,
              <<"Mercurial", "SWABt", "2dc3U", "J7xkQ", "bqPxs", "Epehb">>>>, <<"USDC", "USDT">>)
Arbitrage_saber_mercurl_sol_msol ==
  Route(71, <<<<"Saber", "Lee1X", "2Sj4M", "2hNHZ", "9DgFS", "HzZRD">>,
              <<"Mercurial", "MAR1z", "GcJck", "EWy2h", "GM48q">>>>, <<"SOL", "MSOL">>)
Arbitrage_mercurl_saber_sol_msol ==
  Route(81, <<<<"Saber", "Lee1X", "2Sj4M", "9DgFS", "2hNHZ", "3oebZ">>,
              <<"Mercurial", "MAR1z", "GcJck", "EWy2h", "GM48q">>>>, <<"SOL", "MSOL">>)
Arbitrage_saber_mercurl_sol_stsol ==
  Route(91, <<<<"Saber", "Lid8S", "8eyi3", "Atymw", "4Pgzy", "2AbLY">>,
              <<"Mercurial", "LiDoU", "pG6no", "FqLtq", "9gizz">>>>, <<"SOL", "STSOL">>)
Arbitrage_mercurl_saber_sol_stsol ==
  Route(101, <<<<"Saber", "Lid8S", "8eyi3", "4Pgzy", "Atymw", "Cv3YN">>,
               <<"Mercurial", "LiDoU", "pG6no", "FqLtq", "9gizz">>>>, <<"SOL", "STSOL">>)

\* The trades of GST and GMT are those of UST still: the copies were never changed.
Arbitrage_orca_raydium_gst_usdc ==
  Route(41, <<<<"Saber", "KwnjU", "9osV5", "J63v6", "BnKQt", "G9nt2">>,
              <<"Mercurial", "UST3i", "44K7k", "65sR8", "G5Q7d", "EZd87">>>>, <<"USDC", "UST">>)
Arbitrage_orca_raydium_gmt_usdc ==
  Route(41, <<<<"Saber", "KwnjU", "9osV5", "J63v6", "BnKQt", "G9nt2">>,
              <<"Mercurial", "UST3i", "44K7k", "65sR8", "G5Q7d", "EZd87">>>>, <<"USDC", "UST">>)

-----------------------------------------------------------------------------
(* Saber, Orca and Serum against a Whirlpool; the Whirlpool's leg ends     *)
(* with its tick array and its oracle.                                     *)

Arbitrage_whirl_saber_usdc_ust ==
  Route(152, <<<<"Saber", "KwnjU", "9osV5", "J63v6", "BnKQt", "G9nt2">>,
               <<"Whirl", "HyBtx", "CWArX", "8ahvz", "jPBxU", "3Jb2d">>>>, <<"USDC", "UST">>)
Arbitrage_orca_whirl_sol_usdc ==
  Route(167, <<<<"OrcaV2", "EGZ7t", "JU8km", "ANP74", "75Hgn", "APDFR", "8JnSi">>,
               <<"Whirl", "HJPjo", "3YQm7", "2JTw1", "2Eh8H", "4GkRb">>>>, <<"USDC", "SOL">>)
Arbitrage_whirl_orca_sol_usdc ==
  Route(168, <<<<"OrcaV2", "EGZ7t", "JU8km", "ANP74", "75Hgn", "APDFR", "8JnSi">>,
               <<"Whirl", "HJPjo", "3YQm7", "2JTw1", "2Eh8H", "4GkRb">>>>, <<"USDC", "SOL">>)

\* Three exchanges: the leg of Saber names the fee accounts of both directions.  Two
\* equal instructions without a number.
Arbitrage_serum_whirl_sol_usdc ==
  [op |-> 12,
   legs |-> <<<<"SerumV22", "9wFFy", "fYaDi", "AZG3t", "5KKsL", "14ivt", "CEQdA", "36c6Y", "8CFo8", "F8Vyq">>,
              <<"Saber", "Lid8S", "8eyi3", "Atymw", "4Pgzy", "Cv3YN", "2AbLY">>,
              <<"Whirl", "AXtdS", "5GXtH", "7HxXm", "HJzLn", "AENaN">>>>,
   users |-> <<"USDC", "STSOL", "SOL">>, size |-> 2, numbered |-> FALSE]
Arbitrage_whirl_serum_sol_usdc ==
  [op |-> 13,
   legs |-> <<<<"SerumV22", "9wFFy", "fYaDi", "AZG3t", "5KKsL", "14ivt", "CEQdA", "36c6Y", "8CFo8", "F8Vyq">>,
              <<"Saber", "Lid8S", "8eyi3", "Atymw", "4Pgzy", "Cv3YN", "2AbLY">>,
              <<"Whirl", "AXtdS", "5GXtH", "7HxXm", "HJzLn", "AENaN">>>>,
   users |-> <<"USDC", "STSOL", "SOL">>, size |-> 1, numbered |-> FALSE]

Arbitrage_orca_raydium_sol_usdc ==
  [op |-> 1,
   legs |-> <<<<"Raydium", "58oQC", "5Q544", "HRk9C", "CZza3", "DQyrA", "HLmqe">>,
              <<"SerumV22", "9wFFy", "14ivt", "CEQdA", "5KKsL", "36c6Y", "8CFo8", "F8Vyq">>,
              <<"OrcaV2", "EGZ7t", "JU8km", "ANP74", "75Hgn", "APDFR", "8JnSi">>>>,
   users |-> <<"USDC", "SOL">>, size |-> InstructionSize2, numbered |-> TRUE]

-----------------------------------------------------------------------------
\* The transaction of a route: the data of its instructions, and the accounts they all
\* name.  The last instruction has 100 in place of its number.
Transaction(r, nonce) ==
  [data |-> [i \in 1 .. r.size |->
               IF ~r.numbered THEN <<r.op, nonce>>
               ELSE <<r.op, IF i = r.size THEN 100 ELSE i - 1, nonce>>],
   legs |-> r.legs, users |-> r.users]

\* The legs that swap two tokens on Saber: the pool, and the direction.
Swaps(r) == {r.legs[i] : i \in {k \in DOMAIN r.legs : r.legs[k][1] = "Saber" /\ Len(r.legs[k]) = 6}}
=============================================================================
