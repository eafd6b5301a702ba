--------------------------- MODULE MCImageCatalog ---------------------------
(* ImageCatalog with two directories, of three files at most each, and a     *)
(* file that the filter does not list.                                       *)
EXTENDS ImageCatalog, SequencesExt

CONSTANTS d1, d2, other

MCNames == 1..3
MCListings == {SetToSortSeq(S, <) : S \in SUBSET MCNames}

=============================================================================
