------------------------------ MODULE MCReleases ------------------------------
(* Small instances of Releases. Publishers are interchangeable, and so are *)
(* metric keys.                                                            *)
EXTENDS Releases, TLC

Symmetry == Permutations(Publisher) \cup Permutations(Operator) \cup Permutations(Key)
=============================================================================
