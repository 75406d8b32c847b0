------------------------------ MODULE MCGroup ------------------------------
(* Names and group variables are interchangeable: no operation and no        *)
(* property tells one from another.                                          *)
EXTENDS H5Group, TLC

Symmetry == Permutations(Names) \cup Permutations(Handles)
=============================================================================
