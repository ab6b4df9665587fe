--------------------------- MODULE MCCollectives ---------------------------
(* Instances of Collectives for TLC. *)
EXTENDS Collectives
\* Buffers with an empty part for one or two of the three processes, buffers
\* that are cut evenly and buffers of which some parts are larger by one.
MCDataCounts == 1 .. 5
Anywhere == {0, 1, 2}
=============================================================================
