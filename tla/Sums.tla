--------------------------------- MODULE Sums ---------------------------------
(***************************************************************************)
(* Sums over finite sets, for the bytes of Traffic and Ledger.             *)
(***************************************************************************)
EXTENDS Integers, FiniteSetsExt

SumOf(f, S) == MapThenSumSet(LAMBDA x : f[x], S)

=============================================================================
