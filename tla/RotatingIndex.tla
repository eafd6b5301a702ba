---------------------------- MODULE RotatingIndex ----------------------------
(***************************************************************************)
(* util/RotatingIndex: a position in a ring of max places, from 0 on.  The *)
(* catalog walks its files with one and the loader an animation's frames.  *)
(***************************************************************************)
EXTENDS Integers

RotatingIndices == {r \in [index: Nat, max: Nat \ {0}] : r.index < r.max}

Rotating(initial, max) == [index |-> initial, max |-> max]

\* set refuses an initial value outside the ring, the empty ring included, and
\* leaves the index as it was.
SetIndex(r, initial, max) == IF initial < max THEN Rotating(initial, max) ELSE r

\* The operator ++, applied n times.
Advance(r, n) == [r EXCEPT !.index = (@ + n) % r.max]

\* The operator ++ without its modulus.
IncrementOn(r) == [r EXCEPT !.index = @ + 1]

Increment(r) == Advance(r, 1)

\* The operator -- without its case for 0: the index is an unsigned number of
\* 64 bits, here of 8 to the same effect, and 255 is not -1 in every ring.
DecrementUnsigned(r) == [r EXCEPT !.index = ((@ + 255) % 256) % r.max]

Decrement(r) == [r EXCEPT !.index = (IF @ = 0 THEN r.max ELSE @) - 1]

=============================================================================
