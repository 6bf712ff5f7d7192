--------------------------- MODULE MCKeepAlived ---------------------------
(* Instances of KeepAlived for TLC: the objects are interchangeable.        *)
EXTENDS KeepAlived, TLC

Symmetry == Permutations(KeepAliveds)

===========================================================================
