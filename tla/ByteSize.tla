------------------------------ MODULE ByteSize ------------------------------
(***************************************************************************)
(* util/ByteSize: a file's size as the status bar tells it, in the largest *)
(* unit that it reaches and in tenths of that unit, rounded up.            *)
(***************************************************************************)
EXTENDS Integers

CONSTANTS Base,  \* units of one kind in the next one, 1024
          Scale  \* the bytes in each unit, and in one that would come next

Units == 5       \* B, kB, MB, GB, TB

ASSUME SizeAssumption ==
    /\ Base \in Nat /\ Base > 1
    /\ Scale \in [0..Units -> Nat]
    /\ Scale[0] = 1
    /\ \A i \in 0..(Units - 1) : Scale[i + 1] = Base * Scale[i]

\* The sizes that the table has a unit for.  A larger one reads past its end.
Sizes == 0..(Scale[Units] - 1)

\* The loop divides as long as the whole part of the mantissa, which llrint
\* takes downwards, reaches the next unit.
UnitOf(size) ==
    CHOOSE i \in 0..(Units - 1) :
        size < Scale[i + 1] /\ \A j \in 1..i : Scale[j] <= size

\* Rounding to the nearest tenth.
RoundDiv(n, d) == (2 * n + d) \div (2 * d)

CeilDiv(n, d) == (n + d - 1) \div d

\* humanReadableSize
HumanReadable(size) ==
    [unit |-> UnitOf(size), tenths |-> CeilDiv(10 * size, Scale[UnitOf(size)])]

\* What is shown is the size rounded up to a tenth of its unit, at most a full
\* next unit (1024 kB for 1048575 bytes), and never 0.x of a larger unit.
RoundedUp(size) ==
    LET label == HumanReadable(size)
        unit  == Scale[label.unit]
    IN  /\ 10 * size <= label.tenths * unit
        /\ label.tenths * unit < 10 * size + unit
        /\ label.tenths <= 10 * Base
        /\ label.unit > 0 => label.tenths >= 10

=============================================================================
