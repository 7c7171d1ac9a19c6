------------------------------ MODULE GatewayView ------------------------------
(***************************************************************************)
(* What the runtime promises the entities, told without sockets, tasks or  *)
(* messages: a registry that only moves forward, readings that belong to   *)
(* it and are only replaced by later ones, and a view that is kept as it   *)
(* is while the gateway is out of reach.  GatewayRuntime implements it.    *)
(***************************************************************************)
EXTENDS Naturals

CONSTANT Registries    \* the registries a gateway may have

VARIABLES connected, registry, latest

view == <<connected, registry, latest>>

\* The events of the devices a registry holds, with the profile it gives them.
Belonging(events, r) ==
    {e \in events : \E n \in r.nodes : n.uid = e.node.uid /\ n.profile = e.node.profile}

\* No device goes back to an earlier reading.
Forward(before, after) ==
    \A d \in before, e \in after : d.node.uid = e.node.uid => d.at <= e.at

Init == connected = FALSE /\ registry \in Registries /\ latest = {}

\* A session opens: the view may jump, but only forward.
Resume ==
    /\ ~connected /\ connected' = TRUE
    /\ registry' \in Registries
    /\ registry.generation <= registry'.generation
    /\ registry.generation = registry'.generation => registry' = registry
    /\ latest' = Belonging(latest', registry')
    /\ Forward(latest, latest')

\* The registry is edited: devices that left, or changed profile, are dropped.
Change ==
    /\ connected /\ connected' = TRUE
    /\ registry' \in Registries
    /\ registry.generation < registry'.generation
    /\ latest' = Belonging(latest, registry')

\* One active node's own, later reading takes the place of the one before.
Learn ==
    /\ connected /\ connected' = TRUE
    /\ registry' = registry
    /\ \E e \in latest' :
         /\ e.node \in registry.nodes /\ e.node.active
         /\ e.payload = e.node.uid
         /\ \A d \in latest : d.node.uid = e.node.uid => d.at < e.at
         /\ latest' = {d \in latest : d.node.uid # e.node.uid} \cup {e}

\* The session ends: the view stays.
Lose == connected /\ connected' = FALSE /\ UNCHANGED <<registry, latest>>

Next == Resume \/ Change \/ Learn \/ Lose

Spec == Init /\ [][Next]_view
=============================================================================
