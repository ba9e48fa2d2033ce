----------------------------- MODULE MCRpiTable -----------------------------
(* RpiTable, and the graph under it, on a few interchangeable teams.       *)
EXTENDS RpiTable

\* A decided match, a tie, and a match that shows one score only. That the away side
\* wins is the same match with the sides exchanged.
MCScoreLines == {<<1, 0>>, <<0, 0>>, <<1, None>>}

Symmetry == Permutations(Teams)
=============================================================================
