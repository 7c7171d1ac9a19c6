----------------------------- MODULE EntityCatalog -----------------------------
(***************************************************************************)
(* The devices and entities Home Assistant has for the nodes of a gateway  *)
(* (__init__.py, sensor.py, binary_sensor.py).  Three listeners of the     *)
(* runtime reconcile them with the registry: one registers devices, one    *)
(* for each platform adds and removes entities.  The runtime keeps its     *)
(* listeners in a set, so a notification runs them in any order; what they *)
(* leave in Home Assistant's registries outlives unloads and restarts,     *)
(* what they remember (tracked) does not.                                  *)
(*                                                                         *)
(* Home Assistant's registries are external: adding an entity is taken to  *)
(* be done when async_add_entities returns.                                *)
(***************************************************************************)
EXTENDS FiniteSets, Naturals

CONSTANTS
    Uid, Profile,
    Tables,       \* the node tables the runtime may hold
    Key,          \* telemetry fields and the other entity keys
    Keys,         \* the keys the manifest gives a profile, by platform
    MaxLoads      \* bound on loads of the config entry

Platform == {"sensor", "binary_sensor"}
Listener == Platform \cup {"devices"}

ASSUME CatalogAssumption ==
    /\ Keys \in [Platform -> [Profile -> SUBSET Key]]
    /\ {"radio", "count", "converted_total"} \subseteq Key
    /\ \A t \in Tables : t \subseteq [uid : Uid, profile : Profile, active : BOOLEAN]
    /\ \A t \in Tables : \A m, n \in t : m.uid = n.uid => m = n
    /\ MaxLoads \in Nat

VARIABLES
    nodes,       \* runtime.registry.nodes
    options,     \* nodes with a pulse-counter conversion in entry.options
    loads,       \* how often the entry was loaded
    loaded,      \* is the entry set up?
    reload,      \* has the options flow scheduled a reload?
    subscribed,  \* the listeners added to the runtime so far
    todo,        \* the listeners a notification has still to call
    registered,  \* the registry the devices were last registered from
    tracked,     \* the entities the platforms remember
    entities,    \* Home Assistant's entity registry
    devices      \* Home Assistant's device registry, the gateway left out

vars == <<nodes, options, loads, loaded, reload, subscribed, todo, registered,
          tracked, entities, devices>>

Entity == [platform : Platform, uid : Uid, key : Key]

TypeOK ==
    /\ nodes \in Tables /\ registered \in Tables
    /\ options \subseteq Uid /\ devices \subseteq Uid
    /\ loads \in 0 .. MaxLoads /\ loaded \in BOOLEAN /\ reload \in BOOLEAN
    /\ subscribed \subseteq Listener /\ todo \subseteq Listener
    /\ tracked \subseteq Entity /\ entities \subseteq Entity
    /\ ~loaded => subscribed = {} /\ todo = {} /\ tracked = {}

Init ==
    /\ nodes \in Tables /\ registered = nodes
    /\ options = {} /\ loads = 0 /\ loaded = FALSE /\ reload = FALSE
    /\ subscribed = {} /\ todo = {}
    /\ tracked = {} /\ entities = {} /\ devices = {}

----------------------------------------------------------------------------
(* _async_register_devices. *)

Uids(table) == {n.uid : n \in table}
ActiveUids(table) == {n.uid : n \in {m \in table : m.active}}

\* Active nodes get a device; a device whose node is gone is removed, and its
\* entities with it.
KeptEntities(gone) == entities    \* mutant: a device's entities stay behind
EntitiesWithout(gone) == {e \in entities : e.uid \notin gone}

ActiveOnly(table) == ActiveUids(table)    \* mutant: inactive nodes are removed too
Present(table) == Uids(table)

RegisterDevices(table) ==
    LET gone == (devices \cup ActiveUids(table)) \ Present(table)
    IN  /\ devices' = (devices \cup ActiveUids(table)) \ gone
        /\ entities' = EntitiesWithout(gone)
        /\ registered' = table

----------------------------------------------------------------------------
(* reconcile_entities of either platform. *)

\* Every active node has the fields of its profile and, on the sensor
\* platform, the radio diagnostics and a converted total if it counts pulses
\* and a conversion is configured.
NodeKeys(p, n) ==
    LET fields == Keys[p][n.profile]
    IN  fields \cup
        (IF p = "sensor"
         THEN {"radio"} \cup
              (IF "count" \in fields /\ n.uid \in options THEN {"converted_total"} ELSE {})
         ELSE {})

Desired(p) ==
    {e \in Entity : e.platform = p /\
        \E n \in nodes : n.active /\ n.uid = e.uid /\ e.key \in NodeKeys(p, n)}

\* An entity goes when its node has, or is active without that field.
KeepsField(e) == e.uid \in Uids(nodes)    \* mutant: the profile is not looked at
Keeps(e) ==
    \E n \in nodes : n.uid = e.uid /\ (~n.active \/ e \in Desired(e.platform))

\* async_add_entities registers the new entities and, if need be, their device.
Reconcile(p) ==
    LET gone  == {e \in tracked : e.platform = p /\ ~Keeps(e)}
        added == Desired(p) \ tracked
    IN  /\ tracked' = (tracked \ gone) \cup added
        /\ entities' = (entities \ gone) \cup added
        /\ devices' = devices \cup {e.uid : e \in added}

----------------------------------------------------------------------------
Quiet == loaded /\ todo = {}

\* async_setup_entry up to the platforms: a bootstrap is read, the devices
\* are registered, the first listener is added.
Load ==
    /\ ~loaded /\ loads < MaxLoads
    /\ loads' = loads + 1 /\ loaded' = TRUE
    /\ nodes' \in Tables
    /\ RegisterDevices(nodes')
    /\ subscribed' = {"devices"}
    /\ UNCHANGED <<options, reload, todo, tracked>>

\* A platform's async_setup_entry: the first reconciliation, and its listener.
\* The stream may already be running, and notify before it.
SetUpPlatform(p) ==
    /\ Quiet /\ p \notin subscribed
    /\ Reconcile(p)
    /\ subscribed' = subscribed \cup {p}
    /\ UNCHANGED <<nodes, options, loads, loaded, reload, todo, registered>>

\* The runtime has a new registry and calls its listeners.
NewRegistry(table) ==
    /\ Quiet /\ table # nodes
    /\ nodes' = table
    /\ todo' = subscribed
    /\ UNCHANGED <<options, loads, loaded, reload, subscribed, registered, tracked, entities, devices>>

\* async_refresh_devices does nothing unless something changed.
CallDevices ==
    /\ "devices" \in todo
    /\ todo' = todo \ {"devices"}
    /\ IF nodes # registered THEN RegisterDevices(nodes)
       ELSE UNCHANGED <<devices, entities, registered>>
    /\ UNCHANGED <<nodes, options, loads, loaded, reload, subscribed, tracked>>

CallPlatform(p) ==
    /\ p \in todo
    /\ todo' = todo \ {p}
    /\ Reconcile(p)
    /\ UNCHANGED <<nodes, options, loads, loaded, reload, subscribed, registered>>

\* The options flow configures a pulse counter that is active now, and
\* schedules a reload.
Configure(n) ==
    /\ Quiet /\ subscribed = Listener
    /\ n.active /\ "count" \in Keys["sensor"][n.profile]
    /\ n.uid \notin options
    /\ options' = options \cup {n.uid}
    /\ reload' = TRUE
    /\ UNCHANGED <<nodes, loads, loaded, subscribed, todo, registered, tracked,
                   entities, devices>>

\* What the entry's on-unload callbacks and its platforms' end take with them.
ListenersStay == tracked' = {} /\ UNCHANGED subscribed    \* mutant
Released == tracked' = {} /\ subscribed' = {}

\* The entry is unloaded: for a reload, after the options flow for one, or
\* because Home Assistant stops.
Unload ==
    /\ Quiet /\ subscribed = Listener
    /\ loaded' = FALSE /\ reload' = FALSE
    /\ Released
    /\ UNCHANGED <<nodes, options, loads, todo, registered, entities, devices>>

Next ==
    \/ Load
    \/ \E p \in Platform : SetUpPlatform(p)
    \/ \E t \in Tables : NewRegistry(t)
    \/ CallDevices
    \/ \E p \in Platform : CallPlatform(p)
    \/ \E n \in nodes : Configure(n)
    \/ Unload

Spec == Init /\ [][Next]_vars

----------------------------------------------------------------------------
(* Properties. *)

\* Set up, with no listener left to call and no reload to come.
Settled == Quiet /\ subscribed = Listener /\ ~reload

\* "Deleting a node from the gateway removes its Home Assistant device and
\* entities.", whether it was deleted while Home Assistant watched or while
\* the entry was not loaded, and in whatever order the listeners ran.
DeletedNodesLeaveNothing ==
    Settled => devices \cup {e.uid : e \in entities} \subseteq Uids(nodes)

\* Every active node has its device and an entity for each of its keys, the
\* converted total of a configured pulse counter included.
ActiveNodesAreComplete ==
    Settled => \A n \in nodes : n.active =>
        /\ n.uid \in devices
        /\ \A p \in Platform : \A k \in NodeKeys(p, n) :
             [platform |-> p, uid |-> n.uid, key |-> k] \in entities

\* "Pending or disabled nodes that were previously active remain registered":
\* no step removes the device or an entity of a node that is only inactive.
DormantNodesStay ==
    [][\A n \in nodes' : ~n.active =>
         /\ n.uid \in devices => n.uid \in devices'
         /\ \A e \in entities : e.uid = n.uid => e \in entities']_vars

\* "If the profile changes, entities follow its supported measurements": an
\* active node has no entity of another profile's fields.
FieldsFollowProfile ==
    Settled => \A e \in entities : \A n \in nodes :
        n.active /\ n.uid = e.uid => e.key \in NodeKeys(e.platform, n)

\* That holds for as long as the entry stays loaded, when the platforms still
\* remember every entity they made.
FieldsFollowWhileLoaded == loads = 1 => FieldsFollowProfile
=============================================================================
