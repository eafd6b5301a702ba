------------------------------ MODULE MCViewer ------------------------------
(* Viewer with two directories of the same three names, of which files come  *)
(* and go.  One has an animation of two frames, a damaged file and a still   *)
(* picture, the other a still picture and two files that are no pictures.    *)
(* Units are four of the one before.  The order of the tree is also checked  *)
(* by itself.                                                                *)
EXTENDS Viewer, TreeOrder

CONSTANTS d1, d2, other

MCNames    == 1..3
MCListings == {<<>>, <<1, 2, 3>>}

File(d, n) == [dir |-> d, name |-> n]

MCDecodable == {File(d1, 1), File(d1, 3), File(d2, 2)}
MCReadable  == MCDecodable \cup {File(d1, 2)}
MCFrames    == [f \in MCReadable |-> IF f = File(d1, 1) THEN 2 ELSE 1]

MCDelayed   == [file: {File(d1, 1)}, n: 0..1]

\* Sizes at a border of units, between them, and of nothing.
MCFileSize == [f \in Files |-> IF f.dir = d1 THEN 4 ^ f.name - 1 ELSE 7 * (f.name - 1)]

MCScale == [i \in 0..Units |-> 4 ^ i]

\* The rows before each row: all directories, or none but the lesser ones.
ASSUME \A right \in [isDir: BOOLEAN, name: 1..3] :
    /\ {left \in [isDir: BOOLEAN, name: 1..3] : Precedes(left, right, TRUE)}
           = {left \in [isDir: BOOLEAN, name: 1..3] :
                 \/ left.isDir /\ ~right.isDir
                 \/ left.isDir = right.isDir /\ left.name < right.name}
    /\ {left \in [isDir: BOOLEAN, name: 1..3] : Precedes(left, right, FALSE)}
           = {left \in [isDir: BOOLEAN, name: 1..3] :
                 \/ left.isDir /\ ~right.isDir
                 \/ left.isDir = right.isDir /\ left.name > right.name}

=============================================================================
