-------------------------- MODULE MCTeamPartition --------------------------
(* An instance of TeamPartition for TLC. *)
EXTENDS TeamPartition
\* Buffers smaller than the team, multiples of it and everything between.
MCTeamSizes == 1 .. 5
MCDataCounts == 0 .. 11
MCDataSizes == {1, 3}
=============================================================================
