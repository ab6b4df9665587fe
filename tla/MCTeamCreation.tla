--------------------------- MODULE MCTeamCreation ---------------------------
(* Instances of TeamCreation for TLC. *)
EXTENDS TeamCreation, TLC

CONSTANTS a, b, c, ta, tb, tc, ta2, x, y, z

\* Team x is rooted at a, team y at b and team z, which the configuration file
\* does not know, at c.
Roots == x :> a @@ y :> b @@ z :> c
Orderings == x :> <<c, b>> @@ y :> <<a, c>> @@ z :> <<b>>
Bad == {z}

\* One thread for each process, all in the same order.  Calls are repeated:
\* after a success, and after a connection that failed.
Hosts == ta :> a @@ tb :> b @@ tc :> c
Calls == ta :> <<x, y, x>> @@ tb :> <<z, x, x, y>> @@ tc :> <<x, x, y>>

\* Two threads of a process are roots of two teams.
TwoHosts == ta :> a @@ ta2 :> a @@ tb :> b
TwoRoots == x :> a @@ y :> a
TwoOrderings == x :> <<b>> @@ y :> <<b>>
TwoCalls == ta :> <<x>> @@ ta2 :> <<y>> @@ tb :> <<x, y>>

None == {}

=============================================================================
