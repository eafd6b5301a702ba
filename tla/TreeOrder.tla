------------------------------ MODULE TreeOrder ------------------------------
(***************************************************************************)
(* model/FileSystemSortFilterProxyModel: the order of the navigation tree, *)
(* sorted by name.  Names are numbers in their order.                      *)
(***************************************************************************)
EXTENDS Integers

Infos == [isDir: BOOLEAN, name: Nat]

\* lessThan, which is told in which order the result will be used.
LessThan(left, right, ascending) ==
    IF left.isDir = right.isDir THEN left.name < right.name
    ELSE IF left.isDir THEN ascending ELSE ~ascending

\* How the proxy model of Qt sorts with it: a descending order asks whether the
\* right one is the lesser.
Precedes(left, right, ascending) ==
    IF ascending THEN LessThan(left, right, TRUE) ELSE LessThan(right, left, FALSE)

=============================================================================
