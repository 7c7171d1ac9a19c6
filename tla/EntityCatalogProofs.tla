-------------------------- MODULE EntityCatalogProofs --------------------------
(***************************************************************************)
(* The devices and entities of the nodes, for every set of nodes, profiles *)
(* and keys, every order of the listeners and any number of loads.         *)
(***************************************************************************)
EXTENDS EntityCatalog, TLAPS

\* The keys of a node are keys.
LEMMA KeysOfNode ==
    ASSUME nodes \in Tables, NEW n \in nodes, NEW p \in Platform
    PROVE  /\ n.uid \in Uid /\ n.profile \in Profile /\ n.active \in BOOLEAN
           /\ NodeKeys(p, n) \subseteq Key
<1>1. n \in [uid : Uid, profile : Profile, active : BOOLEAN]
  BY CatalogAssumption
<1>2. n.uid \in Uid /\ n.profile \in Profile /\ n.active \in BOOLEAN
  BY <1>1
<1>3. Keys[p][n.profile] \subseteq Key
  BY <1>2, CatalogAssumption
<1> QED
  BY <1>2, <1>3, CatalogAssumption DEF NodeKeys

\* A table names its nodes by permanent identities.
LEMMA NodesOfTable ==
    ASSUME NEW t \in Tables
    PROVE  Uids(t) \subseteq Uid /\ ActiveUids(t) \subseteq Uids(t)
BY CatalogAssumption DEF Uids, ActiveUids

\* What is desired on a platform is an entity of a node there is.
LEMMA DesiredEntities ==
    ASSUME NEW p \in Platform
    PROVE  /\ Desired(p) \subseteq Entity
           /\ \A e \in Desired(p) : e.platform = p /\ e.uid \in Uids(nodes) /\ e.uid \in Uid
BY DEF Desired, Entity, Uids

LEMMA RegisterTypes ==
    ASSUME NEW t \in Tables, devices \subseteq Uid, entities \subseteq Entity, RegisterDevices(t)
    PROVE  devices' \subseteq Uid /\ entities' \subseteq Entity /\ registered' \in Tables
BY NodesOfTable DEF RegisterDevices, EntitiesWithout

LEMMA ReconcileTypes ==
    ASSUME TypeOK, NEW p \in Platform, Reconcile(p)
    PROVE  devices' \subseteq Uid /\ entities' \subseteq Entity /\ tracked' \subseteq Entity
BY DesiredEntities DEF TypeOK, Reconcile

LEMMA StepTypes == TypeOK /\ [Next]_vars => TypeOK'
<1> SUFFICES ASSUME TypeOK, [Next]_vars PROVE TypeOK'
  OBVIOUS
<1> USE DEF TypeOK, Listener
<1>1. CASE Load
  BY <1>1, RegisterTypes, CatalogAssumption DEF Load
<1>2. ASSUME NEW p \in Platform, SetUpPlatform(p) PROVE TypeOK'
  BY <1>2, ReconcileTypes DEF SetUpPlatform, Quiet
<1>3. ASSUME NEW t \in Tables, NewRegistry(t) PROVE TypeOK'
  BY <1>3 DEF NewRegistry, Quiet
<1>4. CASE CallDevices
  BY <1>4, RegisterTypes DEF CallDevices
<1>5. ASSUME NEW p \in Platform, CallPlatform(p) PROVE TypeOK'
  BY <1>5, ReconcileTypes DEF CallPlatform
<1>6. ASSUME NEW n \in nodes, Configure(n) PROVE TypeOK'
  <2>1. n.uid \in Uid
    BY KeysOfNode DEF Platform
  <2> QED
    BY <1>6, <2>1 DEF Configure, Quiet
<1>7. CASE Unload
  BY <1>7 DEF Unload, Released, Quiet
<1>8. CASE UNCHANGED vars
  BY <1>8 DEF vars
<1> QED
  BY <1>1, <1>2, <1>3, <1>4, <1>5, <1>6, <1>7, <1>8 DEF Next

\* Every variable of the catalogue keeps its type, and what the listeners and
\* the platforms remember ends with an unload (__init__.py, sensor.py).
THEOREM CatalogTypeCorrect == Spec => []TypeOK
<1>1. 0 \in 0 .. MaxLoads
  BY CatalogAssumption
<1>2. Init => TypeOK
  BY <1>1 DEF Init, TypeOK
<1> QED
  BY <1>2, StepTypes, PTL DEF Spec

----------------------------------------------------------------------------
(***************************************************************************)
(* Nothing stays of a deleted node.  While a listener is still to be       *)
(* called, something may stay of the nodes of the registry that the        *)
(* devices were last registered from, and something come of those of the   *)
(* next one.                                                               *)
(***************************************************************************)
EntityUids(S) == {e.uid : e \in S}

RegistrationInv ==
    /\ loaded => "devices" \in subscribed
    /\ loaded /\ "devices" \notin todo => registered = nodes
    /\ EntityUids(entities) \subseteq devices
    /\ devices \subseteq Uids(registered) \cup Uids(nodes)

\* A registration leaves the devices of the table, and entities of devices.
LEMMA RegisterLeaves ==
    ASSUME NEW t \in Tables, EntityUids(entities) \subseteq devices, RegisterDevices(t)
    PROVE  /\ EntityUids(entities') \subseteq devices'
           /\ devices' \subseteq Uids(t) /\ registered' = t
<1>1. registered' = t
  BY DEF RegisterDevices
<1>2. devices' \subseteq Uids(t)
  BY DEF RegisterDevices, Present
<1>3. EntityUids(entities') \subseteq devices'
  BY DEF RegisterDevices, EntitiesWithout, EntityUids
<1> QED
  BY <1>1, <1>2, <1>3

\* A reconciliation adds entities of nodes there are, and their devices.
LEMMA ReconcileLeaves ==
    ASSUME NEW p \in Platform, EntityUids(entities) \subseteq devices, Reconcile(p)
    PROVE  /\ EntityUids(entities') \subseteq devices'
           /\ devices \subseteq devices' /\ devices' \subseteq devices \cup Uids(nodes)
<1> DEFINE added == Desired(p) \ tracked
<1>1. EntityUids(added) \subseteq Uids(nodes)
  BY DesiredEntities DEF EntityUids
<1>2. devices' = devices \cup EntityUids(added)
  BY DEF Reconcile, EntityUids
<1>3. entities' \subseteq entities \cup added
  BY DEF Reconcile
<1> QED
  BY <1>1, <1>2, <1>3 DEF EntityUids

LEMMA RegistrationStep == TypeOK /\ RegistrationInv /\ [Next]_vars => RegistrationInv'
<1> SUFFICES ASSUME TypeOK, RegistrationInv, [Next]_vars PROVE RegistrationInv'
  OBVIOUS
<1> USE DEF RegistrationInv
<1>1. CASE Load
  <2>1. PICK t \in Tables : nodes' = t /\ RegisterDevices(t)
    BY <1>1 DEF Load
  <2> QED
    BY <1>1, <2>1, RegisterLeaves DEF Load
<1>2. ASSUME NEW p \in Platform, SetUpPlatform(p) PROVE RegistrationInv'
  <2>1. Reconcile(p) /\ UNCHANGED <<nodes, loaded, todo, registered>>
        /\ subscribed \subseteq subscribed'
    BY <1>2 DEF SetUpPlatform
  <2> QED
    BY <2>1, ReconcileLeaves
<1>3. ASSUME NEW t \in Tables, NewRegistry(t) PROVE RegistrationInv'
  BY <1>3 DEF NewRegistry, Quiet
<1>4. CASE CallDevices
  <2>1. nodes \in Tables
    BY DEF TypeOK
  <2> QED
    BY <1>4, <2>1, RegisterLeaves DEF CallDevices
<1>5. ASSUME NEW p \in Platform, CallPlatform(p) PROVE RegistrationInv'
  <2>1. Reconcile(p) /\ UNCHANGED <<nodes, loaded, subscribed, registered>>
    BY <1>5 DEF CallPlatform
  <2>2. "devices" \notin todo' => "devices" \notin todo
    BY <1>5 DEF CallPlatform, Platform
  <2> QED
    BY <2>1, <2>2, ReconcileLeaves
<1>6. ASSUME NEW n \in nodes, Configure(n) PROVE RegistrationInv'
  BY <1>6 DEF Configure
<1>7. CASE Unload
  BY <1>7 DEF Unload
<1>8. CASE UNCHANGED vars
  BY <1>8 DEF vars
<1> QED
  BY <1>1, <1>2, <1>3, <1>4, <1>5, <1>6, <1>7, <1>8 DEF Next

\* What is registered of devices and entities belongs to nodes of the gateway,
\* up to the listeners that are still to be called (__init__.py).
THEOREM Registration == Spec => []RegistrationInv
<1>1. Init => RegistrationInv
  BY DEF Init, RegistrationInv, EntityUids
<1> QED
  BY <1>1, RegistrationStep, CatalogTypeCorrect, PTL DEF Spec

\* "Deleting a node from the gateway removes its Home Assistant device and
\* entities", however the listeners are ordered and whenever the entry was
\* loaded (__init__.py, _async_register_devices).
THEOREM NothingStays == Spec => []DeletedNodesLeaveNothing
<1>1. RegistrationInv => DeletedNodesLeaveNothing
  BY DEF RegistrationInv, DeletedNodesLeaveNothing, Settled, Quiet, EntityUids
<1> QED
  BY <1>1, Registration, PTL

----------------------------------------------------------------------------
(***************************************************************************)
(* What a platform remembers.  Once its listener has been called, that is  *)
(* what the registry and the options call for; an entity it remembers is   *)
(* in the entity registry unless its device is gone, and before the first  *)
(* unload every entity there is remembered.                                *)
(***************************************************************************)
Reconciled(p) == p \in subscribed /\ p \notin todo

MemoryInv ==
    /\ todo \subseteq subscribed
    /\ \A e \in tracked : e.platform \in subscribed
    /\ \A e \in tracked : e.platform \notin todo => Keeps(e)
    /\ \A e \in tracked : e \in entities \/ e.uid \notin Uids(nodes)
    /\ \A p \in Platform : Reconciled(p) /\ ~reload => Desired(p) \subseteq tracked
    /\ loads = 0 => ~loaded /\ entities = {}
    /\ loads = 1 /\ loaded => entities \subseteq tracked

\* A desired entity is kept.
LEMMA DesiredIsKept ==
    ASSUME NEW p \in Platform, NEW e \in Desired(p)
    PROVE  Keeps(e)
BY DEF Desired, Keeps

LEMMA KeptIsPresent ==
    ASSUME NEW e, Keeps(e)
    PROVE  e.uid \in Uids(nodes)
BY DEF Keeps, Uids

\* The options only make more entities desired, and kept.
LEMMA OptionsAdd ==
    ASSUME UNCHANGED nodes, options \subseteq options', NEW p \in Platform
    PROVE  Desired(p) \subseteq Desired(p)'
BY DEF Desired, NodeKeys

LEMMA OptionsKeep ==
    ASSUME UNCHANGED nodes, options \subseteq options', NEW e \in Entity, Keeps(e)
    PROVE  Keeps(e)'
<1>1. e.platform \in Platform
  BY DEF Entity
<1> QED
  BY <1>1, OptionsAdd DEF Keeps

\* A platform's listener, at its first call or at a later one.
LEMMA ReconcileRemembers ==
    ASSUME TypeOK, MemoryInv, NEW p \in Platform, Reconcile(p),
           UNCHANGED <<nodes, options, loads, loaded, reload>>, loaded,
           subscribed' = subscribed \cup {p}, todo' = todo \ {p}
    PROVE  MemoryInv'
<1> DEFINE gone == {e \in tracked : e.platform = p /\ ~Keeps(e)}
           added == Desired(p) \ tracked
<1>1. /\ tracked' = (tracked \ gone) \cup added
      /\ entities' = (entities \ gone) \cup added
  BY DEF Reconcile
<1>2. /\ \A e \in added : e.platform = p /\ Keeps(e)
      /\ \A e \in tracked \ gone : e.platform = p => Keeps(e)
  BY DesiredEntities, DesiredIsKept
<1>3. Desired(p) \subseteq tracked'
  BY <1>1, DesiredIsKept
<1>4. \A q \in Platform : q # p => {e \in tracked : e.platform = q} \subseteq tracked'
  BY <1>1
<1>5. /\ \A q \in Platform : Desired(q)' = Desired(q)
      /\ \A e \in tracked' : Keeps(e)' <=> Keeps(e)
  BY DEF Desired, NodeKeys, Keeps
<1> HIDE DEF gone, added
<1>6. \A e \in tracked' : e.platform \in subscribed'
  BY <1>1, <1>2 DEF MemoryInv
<1>7. \A e \in tracked' : e.platform \notin todo' => Keeps(e)'
  BY <1>1, <1>2, <1>5 DEF MemoryInv
<1>8. \A e \in tracked' : e \in entities' \/ e.uid \notin Uids(nodes')
  BY <1>1 DEF MemoryInv
<1>9. ASSUME NEW q \in Platform, Reconciled(q)', ~reload' PROVE Desired(q)' \subseteq tracked'
  <2>1. CASE q = p
    BY <1>3, <1>5, <2>1
  <2>2. CASE q # p
    <3>1. Desired(q) \subseteq tracked
      BY <1>9, <2>2 DEF MemoryInv, Reconciled
    <3> QED
      BY <1>4, <1>5, <2>2, <3>1, DesiredEntities
  <2> QED
    BY <2>1, <2>2
<1>10. todo' \subseteq subscribed'
  BY DEF MemoryInv
<1>11. loads' # 0 /\ (loads' = 1 /\ loaded' => entities' \subseteq tracked')
  BY <1>1 DEF MemoryInv
<1> QED
  BY <1>6, <1>7, <1>8, <1>9, <1>10, <1>11 DEF MemoryInv

LEMMA MemoryStep == TypeOK /\ RegistrationInv /\ MemoryInv /\ [Next]_vars => MemoryInv'
<1> SUFFICES ASSUME TypeOK, RegistrationInv, MemoryInv, [Next]_vars PROVE MemoryInv'
  OBVIOUS
<1>1. CASE Load
  <2>1. tracked' = {} /\ todo' = {} /\ subscribed' = {"devices"} /\ loads' = loads + 1
    BY <1>1 DEF Load, TypeOK
  <2>2. loads' # 0 /\ (loads' = 1 => entities' = {})
    BY <1>1, <2>1 DEF Load, MemoryInv, TypeOK, RegisterDevices, EntitiesWithout
  <2> QED
    BY <2>1, <2>2 DEF MemoryInv, Reconciled, Platform
<1>2. ASSUME NEW p \in Platform, SetUpPlatform(p) PROVE MemoryInv'
  BY <1>2, ReconcileRemembers DEF SetUpPlatform, Quiet
<1>3. ASSUME NEW t \in Tables, NewRegistry(t) PROVE MemoryInv'
  <2>1. /\ todo = {} /\ loaded /\ todo' = subscribed
        /\ UNCHANGED <<loads, loaded, subscribed, tracked, entities>>
    BY <1>3 DEF NewRegistry, Quiet
  <2>2. \A e \in tracked : e \in entities
    BY <2>1, KeptIsPresent DEF MemoryInv
  <2> QED
    BY <2>1, <2>2 DEF MemoryInv, Reconciled
<1>4. CASE CallDevices
  <2>1. /\ UNCHANGED <<nodes, options, loads, loaded, reload, subscribed, tracked>>
        /\ todo' = todo \ {"devices"}
    BY <1>4 DEF CallDevices
  <2>2. entities' \subseteq entities /\ \A e \in entities \ entities' : e.uid \notin Uids(nodes)
    BY <1>4 DEF CallDevices, RegisterDevices, EntitiesWithout, Present
  <2>3. /\ \A q \in Platform : Desired(q)' = Desired(q) /\ (Reconciled(q)' => Reconciled(q))
        /\ \A e \in tracked : Keeps(e)' <=> Keeps(e)
    BY <2>1 DEF Desired, NodeKeys, Keeps, Reconciled, Platform
  <2>4. \A e \in tracked : e.platform \in Platform
    BY DEF TypeOK, Entity
  <2>5. \A e \in tracked : e.platform \notin todo' => e.platform \notin todo
    BY <2>1, <2>4 DEF Platform
  <2> QED
    BY <2>1, <2>2, <2>3, <2>5 DEF MemoryInv
<1>5. ASSUME NEW p \in Platform, CallPlatform(p) PROVE MemoryInv'
  <2>1. p \in subscribed /\ loaded
    BY <1>5 DEF CallPlatform, TypeOK, MemoryInv
  <2> QED
    BY <1>5, <2>1, ReconcileRemembers DEF CallPlatform
<1>6. ASSUME NEW n \in nodes, Configure(n) PROVE MemoryInv'
  <2>1. /\ UNCHANGED <<nodes, loads, loaded, subscribed, todo, tracked, entities>>
        /\ reload' /\ options \subseteq options'
    BY <1>6 DEF Configure
  <2>2. \A e \in tracked : Keeps(e) => Keeps(e)'
    BY <2>1, OptionsKeep DEF TypeOK
  <2> QED
    BY <2>1, <2>2 DEF MemoryInv
<1>7. CASE Unload
  BY <1>7 DEF Unload, Quiet, Released, MemoryInv, Reconciled
<1>8. CASE UNCHANGED vars
  BY <1>8 DEF vars, MemoryInv, Reconciled, Keeps, Desired, NodeKeys
<1> QED
  BY <1>1, <1>2, <1>3, <1>4, <1>5, <1>6, <1>7, <1>8 DEF Next

\* What a platform remembers is registered, and after its listener has run it
\* is what reconcile_entities would make of the nodes again.
THEOREM Memory == Spec => []MemoryInv
<1>1. Init => MemoryInv
  BY DEF Init, MemoryInv, Reconciled
<1> QED
  BY <1>1, MemoryStep, CatalogTypeCorrect, Registration, PTL DEF Spec

\* Every active node has its device and all its entities, the converted total
\* of a configured pulse counter included (reconcile_entities).
THEOREM ActiveNodesComplete == Spec => []ActiveNodesAreComplete
<1>1. TypeOK /\ RegistrationInv /\ MemoryInv => ActiveNodesAreComplete
  <2> SUFFICES ASSUME TypeOK, RegistrationInv, MemoryInv, Settled, NEW n \in nodes, n.active
               PROVE  /\ n.uid \in devices
                      /\ \A p \in Platform : \A k \in NodeKeys(p, n) :
                             [platform |-> p, uid |-> n.uid, key |-> k] \in entities
    BY DEF ActiveNodesAreComplete
  <2>1. n.uid \in Uids(nodes) /\ nodes \in Tables
    BY DEF Uids, TypeOK
  <2>2. ASSUME NEW p \in Platform, NEW k \in NodeKeys(p, n)
        PROVE  [platform |-> p, uid |-> n.uid, key |-> k] \in entities
    <3> DEFINE e == [platform |-> p, uid |-> n.uid, key |-> k]
    <3>1. e \in Entity
      BY <2>1, KeysOfNode DEF Entity
    <3>2. e \in Desired(p)
      BY <3>1 DEF Desired
    <3>3. e \in tracked
      BY <3>2 DEF MemoryInv, Reconciled, Settled, Quiet, Listener
    <3> QED
      BY <2>1, <3>3 DEF MemoryInv
  <2>3. n.uid \in devices
    <3>1. [platform |-> "sensor", uid |-> n.uid, key |-> "radio"] \in entities
      BY <2>2 DEF Platform, NodeKeys
    <3> QED
      BY <3>1 DEF RegistrationInv, EntityUids
  <2> QED
    BY <2>2, <2>3
<1> QED
  BY <1>1, CatalogTypeCorrect, Registration, Memory, PTL

\* "If the profile changes, entities follow its supported measurements", until
\* the first unload makes the platforms forget (reconcile_entities).
THEOREM FieldsFollow == Spec => []FieldsFollowWhileLoaded
<1>1. TypeOK /\ MemoryInv => FieldsFollowWhileLoaded
  <2> SUFFICES ASSUME TypeOK, MemoryInv, loads = 1, Settled,
                      NEW e \in entities, NEW n \in nodes, n.active, n.uid = e.uid
               PROVE  e.key \in NodeKeys(e.platform, n)
    BY DEF FieldsFollowWhileLoaded, FieldsFollowProfile
  <2>1. e \in tracked /\ Keeps(e)
    BY DEF MemoryInv, Settled, Quiet
  <2>2. \A m \in nodes : m.uid = n.uid => m = n
    BY CatalogAssumption DEF TypeOK
  <2>3. e \in Desired(e.platform)
    BY <2>1, <2>2 DEF Keeps
  <2> QED
    BY <2>2, <2>3 DEF Desired
<1> QED
  BY <1>1, CatalogTypeCorrect, Memory, PTL

\* "Pending or disabled nodes that were previously active remain registered":
\* no step of any listener, load or unload takes something of an inactive node.
THEOREM DormantStay == Spec => DormantNodesStay
<1> DEFINE Stays == \A n \in nodes' : ~n.active =>
                      /\ n.uid \in devices => n.uid \in devices'
                      /\ \A e \in entities : e.uid = n.uid => e \in entities'
<1>1. ASSUME NEW t, RegisterDevices(t), nodes' = t PROVE Stays
  <2>1. \A n \in nodes' : n.uid \in Uids(t)
    BY <1>1 DEF Uids
  <2> QED
    BY <1>1, <2>1 DEF RegisterDevices, EntitiesWithout, Present
<1>2. ASSUME NEW p \in Platform, Reconcile(p), UNCHANGED nodes PROVE Stays
  BY <1>2 DEF Reconcile, Keeps
<1>3. [Next]_vars => [Stays]_vars
  <2> SUFFICES ASSUME Next PROVE Stays
    OBVIOUS
  <2>1. CASE Load
    BY <1>1, <2>1 DEF Load
  <2>2. ASSUME NEW p \in Platform, SetUpPlatform(p) \/ CallPlatform(p) PROVE Stays
    BY <1>2, <2>2 DEF SetUpPlatform, CallPlatform
  <2>3. CASE CallDevices
    BY <1>1, <2>3 DEF CallDevices
  <2>4. ASSUME NEW t \in Tables, NewRegistry(t) PROVE Stays
    BY <2>4 DEF NewRegistry
  <2>5. ASSUME NEW n \in nodes, Configure(n) PROVE Stays
    BY <2>5 DEF Configure
  <2>6. CASE Unload
    BY <2>6 DEF Unload
  <2> QED
    BY <2>1, <2>2, <2>3, <2>4, <2>5, <2>6 DEF Next
<1> QED
  BY <1>3, PTL DEF Spec, DormantNodesStay
=============================================================================
