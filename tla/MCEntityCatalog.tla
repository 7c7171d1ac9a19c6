---------------------------- MODULE MCEntityCatalog ----------------------------
(* Two nodes: a pulse counter that may be reflashed to a climate or a contact *)
(* profile, or to one the manifest does not know, and a climate node.         *)
EXTENDS EntityCatalog, TLC

CONSTANTS u1, u2, counter, climate, unknown

N(u, p, a) == [uid |-> u, profile |-> p, active |-> a]

MCKeys ==
    [p \in Platform |->
        IF p = "sensor"
        THEN (counter :> {"count"} @@ climate :> {"value"} @@ unknown :> {})
        ELSE (counter :> {} @@ climate :> {"alarm"} @@ unknown :> {})]

MCTables ==
    { {N(u1, p, TRUE)} : p \in Profile }
      \cup { {N(u1, counter, FALSE)}, {}, {N(u2, climate, TRUE)} }
      \cup { {N(u1, counter, TRUE), N(u2, climate, a)} : a \in BOOLEAN }
=============================================================================
