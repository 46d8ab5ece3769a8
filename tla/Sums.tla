-------------------------------- MODULE Sums --------------------------------
(***************************************************************************)
(* The sum of a function's values over a finite part of its domain.  The   *)
(* program totals principals, deposits and promo balances that live in     *)
(* separate accounts and never adds them up itself, so the sum is a notion *)
(* of the properties.  It is written as a recursive function of sets, so   *)
(* that modules with proofs can use it.                                    *)
(***************************************************************************)
EXTENDS Integers, FiniteSets

\* Some element of T, the same whenever T is.
Pick(T) == CHOOSE y \in T : TRUE

\* f[x] summed over x in S; S is a finite subset of DOMAIN f.
SumOver(f, S) ==
    LET sum[T \in SUBSET S] == IF T = {} THEN 0 ELSE f[Pick(T)] + sum[T \ {Pick(T)}]
    IN  sum[S]
=============================================================================
