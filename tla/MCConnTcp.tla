----------------------------- MODULE MCConnTcp -----------------------------
(* Instances of ConnTcp for TLC. *)
EXTENDS ConnTcp, TLC

\* Handles, places and threads are interchangeable; sound for safety
\* properties only.
Symmetry == Permutations(Handle) \cup Permutations(User) \cup Permutations(Thread)

=============================================================================
