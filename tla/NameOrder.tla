------------------------------ MODULE NameOrder ------------------------------
(***************************************************************************)
(* The names of the files of a directory in their order and around its     *)
(* ends.  Names are numbers.                                               *)
(***************************************************************************)
EXTENDS Integers

First(S) == CHOOSE n \in S : \A m \in S : n <= m
Last(S)  == CHOOSE n \in S : \A m \in S : m <= n

After(S, n)  == {m \in S : m > n}
Before(S, n) == {m \in S : m < n}

Successor(S, n)   == IF After(S, n) = {} THEN First(S) ELSE First(After(S, n))
Predecessor(S, n) == IF Before(S, n) = {} THEN Last(S) ELSE Last(Before(S, n))

=============================================================================
