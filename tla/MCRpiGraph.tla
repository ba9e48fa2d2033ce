----------------------------- MODULE MCRpiGraph -----------------------------
(* RpiGraph on a few teams, which are interchangeable.                     *)
EXTENDS RpiGraph, TLC

MCScoreLines == {<<1, 0>>, <<0, 1>>, <<0, 0>>}

Symmetry == Permutations(Teams)
=============================================================================
