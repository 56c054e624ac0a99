---------------------------- MODULE MCWatchlist ----------------------------
(* A small instance of Watchlist. *)
EXTENDS Watchlist, TLC

CONSTANTS alice, author, number, draft, paper

\* The draft has both; the paper only the number.
MCAuthorsIn == [i \in Item |-> IF i = draft THEN {author} ELSE {}]
MCNumberOf == [i \in Item |-> number]

\* Bolt's threads are alike.
HandlerSymmetry == Permutations(Handler)
=============================================================================
