--------------------------- MODULE MCCorpusStore ---------------------------
(* Sections and texts are interchangeable in the store.                     *)
EXTENDS CorpusStore, TLC

MCSymmetry == Permutations(Sections) \cup Permutations(Texts)
=============================================================================
