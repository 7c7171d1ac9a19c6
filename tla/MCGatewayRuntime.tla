--------------------------- MODULE MCGatewayRuntime ---------------------------
(* Small instances of GatewayRuntime for TLC. *)
EXTENDS GatewayRuntime

CONSTANTS u1, u2, n1, n2, p1, p2

N(i, u, p, a) == [id |-> i, uid |-> u, profile |-> p, active |-> a]

\* Two nodes, an exchange of their short ids in which one is reflashed too, and
\* one node out of service with the other gone.
Moves == {
    {N(n1, u1, p1, TRUE), N(n2, u2, p1, TRUE)},
    {N(n1, u2, p1, TRUE), N(n2, u1, p2, TRUE)},
    {N(n1, u1, p1, FALSE)} }

\* One node, in and out of service.
Switch == { {N(n1, u1, p1, TRUE)}, {N(n1, u1, p1, FALSE)} }

\* Two active nodes, one with a profile the manifest of the cfg lacks.
Mixed == { {N(n1, u1, p1, TRUE), N(n2, u2, p2, TRUE)} }

=============================================================================
