# A verification of OSK Sense for Home Assistant

TLA+ models of the integration in `custom_components/osk_sense`, the TLC runs
that check them on small instances, and TLAPS proofs of their main invariants.

## The system

One config entry stands for one OSK Sense gateway. The integration reads the
gateway's node registry over REST, follows its telemetry over a WebSocket, and
shows what it learns as Home Assistant devices and entities.

| Component | Code | State | Operations |
|---|---|---|---|
| Gateway (external) | used by `stream.py`, `api.py` | durable registry with a generation, boot id, last readings, sequence, one session | edits, reports, HELLO, snapshot, live messages, restarts |
| REST and WebSocket client | `api.py` | none | `async_get_info`, `async_get_nodes`, `async_bootstrap`, `async_open_stream` |
| Stream client | `stream.py` | the stream's registry, its snapshot, the socket | `async_read_snapshot`, `async_receive`, `async_close` |
| Gateway runtime | `runtime.py` | `bootstrap`, `registry`, `latest`, `connected`, `reconnect_count`, `_stopping`, `_stream`, listeners, uptime anchor | `async_run`, `async_stop`, `_apply_snapshot`, `_apply_event`, `_notify` |
| Entry lifecycle | `__init__.py` | the last registered state | set-up, deferred start of the task, unload, `_async_register_devices` |
| Entity catalogue | `sensor.py`, `binary_sensor.py` | `tracked` per platform; Home Assistant's registries | `reconcile_entities` |
| Node entities | `entity.py`, the entity classes | availability, value, stale timer | `_handle_update`, `_async_mark_stale` |
| Gateway health | `runtime.py`, the gateway's entities in `sensor.py`, `binary_sensor.py`, `entity.py` | the uptime anchor, the restart time, the last message; the states shown | `_apply_bootstrap`, `gateway_uptime_seconds`, `_update_value` |
| Flows | `config_flow.py` | the flow's address and gateway, pending discoveries; config entries | zeroconf, user, reauth, options |
| Protocol decoder | `protocol.py` | the validated manifest | `decode_stream`, `decode_telemetry` |
| Diagnostics | `diagnostics.py` | none | a redacted read |

The runtime's task calls the client, the client constructs the stream, the
stream calls the client back for a registry. The runtime calls its listeners:
the device registration, the two platforms, and every entity. Home Assistant
starts, stops and cancels the task, sets entries up again, and runs the flows,
which create entries, change their address or key, and have them reloaded.

### What is hard here

* **Two sources of one registry.** The registry comes over REST, its
  generation over the WebSocket, and a node's short id may pass to another
  device between the two. Only generation checks at HELLO, SNAPSHOT_BEGIN,
  SNAPSHOT_END and REGISTRY_CHANGED keep a reading with its device.
* **Order.** A reading may come in the snapshot and again live; sequence
  numbers wrap and start again when the gateway restarts.
* **Every await is a cut.** The task may be stopped or cancelled, the token
  refused, the link lost, the gateway restarted at any of them, a stop may run
  while a stream is being opened, and a close may itself be cancelled.
* **Time.** An entity compares its node's last report with the clock now and
  sets a timer for later; reports, edits, removals and the timer come in any order.
* **Addresses are borrowed.** Flows and set-ups ask an address twice and the
  user in between; the gateway behind it may be another one each time.
* **Memory of different length.** What the platforms remember ends with an
  unload; Home Assistant's registries do not.

### What makes each component correct

* Stream client: a reading is never decoded for the wrong device or profile;
  a stream of another boot is refused; whatever fails, the socket is closed.
* Runtime: the view belongs to the registry shown, only moves forward, is
  complete when nothing is in flight; every lost session is followed by
  another one unless the runtime is stopped or refused; counters are exact.
* Catalogue: deleted nodes leave nothing behind, active nodes are complete,
  inactive ones stay, fields follow the profile.
* Node entities: unavailable exactly when disconnected, inactive or stale.
* Gateway health: estimates err on one side, do not drift, and are about the boot
  they are shown for.
* Flows: one entry per gateway identity, whatever the order of discoveries; a key
  and an address from nowhere but that gateway; the entry follows it to another address.
* Decoder: the fields say what the bytes say, and a frame is refused for no
  reason but the manifest's.

## The modules

| Module | Models | Notes |
|---|---|---|
| `StreamSequence` | `sequence_is_newer` | the modulus 2^32 is the constant `SeqMod` |
| `Gateway` | the gateway and the link | external, see the assumptions below |
| `GatewayStream` | `stream.py`, the requests of `api.py` | EXTENDS `Gateway` |
| `GatewayRuntime` | `runtime.py`, start and unload of `__init__.py` | EXTENDS `GatewayStream`; all the properties of the core |
| `GatewayView` | what the runtime promises the entities | abstract; `GatewayRuntime` implements it |
| `EntityCatalog` | devices and entities of the nodes | `__init__.py`, both platforms, the options flow's effect |
| `NodeEntity` | one entity of one node: `entity.py`, `_update_value` of both platforms | the runtime's view told for one device, see below |
| `GatewayHealth` | uptime, last restart, connection, reconnects | the supervisor reduced to the places where these change |
| `EntryFlows` | `config_flow.py`, the set-up of `__init__.py` | entries and flows of several gateways, interleaved |
| `ProtocolDecode` | `protocol.py` | one frame per behaviour, one step per field |
| `MCGatewayRuntime`, `MCEntityCatalog`, `MCEntryFlows`, `MCProtocolDecode` | tables, profiles, the symmetry of gateways and frames for TLC | |
| `GatewayRuntimeSafety`, `GatewayRuntimeReadings`, `GatewayRuntimeOrder` | theorems about `GatewayRuntime`, `StreamSequence` | `GatewayRuntimeOrder` EXTENDS the others |
| `EntityCatalogProofs`, `NodeEntityProofs`, `GatewayHealthProofs`, `EntryFlowsProofs`, `ProtocolDecodeProofs` | theorems about the module named | |

### How the runtime's model corresponds to the code

asyncio switches tasks only at an await. `pc` names the await the supervisor's
task is suspended at, and an action is the code from one await to the next.

| `pc` | Suspended in | Next action |
|---|---|---|
| `idle` | not started; `async_at_started` waits for Home Assistant | `Start` |
| `info`, `nodes` | the two requests of `async_bootstrap` | `FetchInfo`, `FetchNodes` |
| `connect` | `ws_connect` | `Connect` |
| `hello`, `begin`, `snapshot` | `receive()` in `async_read_snapshot` | `ReceiveHello`, `ReceiveBegin`, `ReceiveRecord`, `OpenStream` |
| `reconcile` | the registry request after HELLO | `Reconcile` |
| `abort` | `websocket.close()` in `async_open_stream` | `AbortDone` |
| `live` | `receive()` in `async_receive` | `ReceiveLive` |
| `refresh` | the registry request after REGISTRY_CHANGED | `Refresh` |
| `yield` | the fairness sleep | `Yield` |
| `close` | `_stream.async_close()` in `finally` | `CloseDone` |
| `backoff` | the back-off sleep, of either place in `async_run` | `BackoffDone` |
| `done` | returned or cancelled | |

`OpenStream` is long because the code is: from SNAPSHOT_END on,
`async_read_snapshot` and `async_open_stream` return, and `async_run` stores
the stream, the bootstrap and the snapshot, notifies and goes on to the next
receive without an await. `Stop` is `async_stop` up to its await, `StopClosed`
the rest; `Cancel` is the cancellation of the task at its current await. It is
possible at any time, as Home Assistant cancels the entry's background tasks
after an unload, whatever `async_stop` did, and when it shuts down.

`stream` is whether `self._stream` is set. `outcome` is the exception on its
way (`retry` for a caught one, `auth`, `cancel`). `opened`, `reauths` and
`shown` are what an observer counts and sees: sessions opened, calls of
`authentication_failed`, the view at the last `_notify`.

### How the entity's model corresponds to the code

`connected`, `node`, `fits` and `event` are what the runtime's view says of one
device; `Opened`, `Delivered`, `Other`, `Edited` and `Lost` change them as the
actions of `GatewayRuntime` do and call the listeners in the same step, as
`_notify` does. `heard` and `held` are on the gateway's side: when the node
last reported, and whether the gateway still has that report. `coming` are the
reports the gateway has sent and the stream has not delivered; they arrive in
order, so one that is already too old may be applied while a later one is on
its way, and those left when the session ends are lost. An event is the
time the gateway received it, which all an entity does depends on; `value` is
the event the shown value was copied from.

The handlers are operators (`HandleUpdate`, `Schedule`, `CancelTimer`) that
speak of the view as the step leaves it. Construction, `async_added_to_hass`
and the first write are one action, `Add`: Home Assistant runs them in a task
it starts eagerly, and nothing in them waits. A notification can reach an
entity its platform has just removed, because `_notify` iterates a copy;
`Notified` allows both orders of the two listeners. `timers` are the callbacks
Home Assistant holds, `handle` the one the entity could cancel. A timer fires at
its time or later: Home Assistant arms it again when it would be early.

### How the flows' model corresponds to the code

A flow is suspended in a form, or in the first or second request of
`async_bootstrap` (`step`); a discovery before its card is one request
(`checks`). Each answer and the code up to the next await are one action:

| Code | Actions |
|---|---|
| `async_step_zeroconf` | `Announce` up to the request, `Verify` from the answer: an address update, or a card that takes the place of stale ones |
| `async_step_zeroconf_confirm`, `async_step_reauth_confirm` | `Submit`, `InfoAnswer`, `NodesAnswer` |
| `async_step_user` | `SubmitUser`, `InfoAnswer`, `NodesAnswer` |
| `async_setup_entry` | `SetUpInfo`, `SetUpNodes`; `SetUpAgain` when Home Assistant calls it again |
| `async_run` of the runtime, as far as the entry's state goes | `Redial`: its gateway has answered `/api/info`; `Dialled`: the answer to the key |

`async_create_entry`, `async_set_unique_id` and the other calls the flows make
are modelled by what Home Assistant does: an entry that exists is replaced
(`replaced` counts that), flows about the gateway are aborted, a manual flow
gives way to one in progress. `_abort_if_unique_id_configured` with `updates`
writes the address and schedules a reload of an entry that is loaded and changes, or
that is retrying; one that is being set up keeps its client with the old
address (`late`), one that has failed for good stays so. A flow's token is a
gateway and the number of keys withdrawn before it.

`async_bootstrap` checks the identity in its first answer, which needs no key, and
takes the second from whoever has the address then; `Move` may give it to another
gateway at any time. So the second answer is judged by the key alone
(`Accepted`, `Admitted`): another gateway refuses the key of the first, which
starts a reauthentication (`Refused`), or accepts its own. The same holds of the
supervisor's requests (`dialling`), whose refusal ends it (`halted`); HELLO names the
gateway, so a session with another one is a failure that is retried.

### How the health model corresponds to the code

`Read` is the first request of `async_bootstrap`, in the set-up or before a
session; any time may pass before `Construct` or `Open` uses the answer, and the
gateway may boot again meanwhile. `Open` is refused to a boot that is not the one
read, as `_validate_hello` does. `Show` is a listener of `_notify`, which runs in
the same step. One clock stands for `time.time` and `time.monotonic`.

### How the decoder's model corresponds to the code

`input` is a frame with a profile that `_validate_telemetry_fields` lets through, or
a stream message. `Begin` is what `decode_telemetry` and `decode_stream` do before
their loop, `ReadField` a turn of it (`_read_field`, then `_field_value` or the bit
fields), `Finish` what follows it. `result` has the dictionaries `raw` and
`values` as functions, and a code, which is that of the `DecodeError` if there is one;
an `UnknownStreamMessage` is the code `unknown`. A mask is the set of its bits, so that
`mask <= type_max` says which bits it may have, and `covered & mask` is an intersection.

`ManifestAssumption` is what the model takes of `protocol-manifest.json` and nothing
in the code checks: types of the entries, strings only in messages (or of a fixed
length), a length that an unsigned field before it tells, and messages whose last field
ends where their size says. All of these hold of the file: HELLO is 42 bytes with a
fixed last field, TELEMETRY is 20 and `payload_size` with the payload at offset 20, the
others are 10, and the fields of the profiles are numbers.

### Data abstractions

* A reading's payload is the uid of the device that measured it, so that a
  wrong attribution is visible; `at` is the tick at which the gateway received
  it. The value `0` of `received_at_unix_ms` (use the local clock) is left out.
* A message is `unknown` (a kind the manifest does not have; skipped after
  HELLO), `bad` (undecodable, of another version, or not binary) or one of the
  five kinds. The bytes are in `ProtocolDecode`, where `Width` is the size of a byte:
  with two bits all frames can be enumerated. In the run a number is one or two
  bytes, in the theorems any number of them. Scaling
  and hex formatting, which change no decision, are left out. `decode_stream`
  applies none of the limits the manifest gives for the fields of a message, and
  neither does the model.
* A registry read gives a well-formed registry (`_parse_node_registry` refuses
  others), a refusal, or a failure; `/api/info` is not authenticated, so it is
  never refused. A gateway of another identity or version is a failed request.
* A node is id, uid, profile and whether its state is `active`.
* Time in `NodeEntity` counts in units; `Step` is how far a clock read is
  after the one before. In `GatewayHealth` it counts in fractions of a second.
  The clock does not go back.
* In `EntryFlows` an address is a normalized base URL; a hostname only names
  cards and entries and is left out. `Foreign` addresses are answered by another
  device (HTTP errors, not JSON) when no gateway has them. It is taken not to answer
  with 401 or 403, which the client would read as a refused key.
* Delays count in units of the first one; the code's cap is `MaxDelay`.

### What is assumed of the gateway

Its firmware is in another repository. `Gateway` assumes what the code relies
on, and nothing in favour of the properties beyond it: messages of one session
arrive in order or not at all; SNAPSHOT_BEGIN, SNAPSHOT_END and HELLO carry the
generation at the moment they are sent; a telemetry message carries the id its
device has at that moment; an edit is announced to a session that has its
snapshot, before any later telemetry; live telemetry is sent in order of
reception, and not before the snapshot it follows is complete; a reading
received while a snapshot is being sent may be in the snapshot and be sent
live too; an edit drops the readings of devices that left, were deactivated or
changed profile; a restart changes the boot id, drops the readings and starts
the sequence again.

## The runs

All runs have `CHECK_DEADLOCK FALSE`: the supervisor really ends (`done`), an
entity is removed for good, and with the bounds reached the rest may have
nothing left to do.

| Run | Asks | Bounds |
|---|---|---|
| `runtime_view` | is the view right, does it only go forward, and does the runtime implement `GatewayView`? | two devices, two ids, two profiles, three tables; 3 generations, 3 readings, 2 boots, 1 fault, 2 messages in flight |
| `runtime_control` | are sockets, counters, refusals, stops and back-off right? Does the supervisor recover, and does a stop end it? | one device in or out of service; 2 boots, 2 faults, a revocable token, delays 1, 2, 4 |
| `runtime_unknown_profile` | does a node with an unknown profile leave the others alone? (no) | two devices, one profile known |
| `catalog` | are devices and entities right across loads? | two nodes, three profiles, one not in the manifest, 3 loads |
| `catalog_fields` | do fields follow a profile changed while unloaded? (no) | 2 loads |
| `entity` | do entities show what the view calls for, and does silence show? | stale after 3, clock steps of 2, up to 10 |
| `entity_silent` | is a silent node unavailable, whatever the gateway does? (no) | stale after 3, clock steps of 2, up to 6 |
| `flows` | do flows and set-ups keep one entry per gateway, with what is its own? | two gateways, two addresses, one also answered by another device; 2 changes; one manual flow (`MaxManual`), one announcement of a gateway at a time (`MaxPending`) |
| `flows_reconnect` | does an entry follow its gateway? | the same, with entries set up from cards only (`MaxManual` 0) |
| `flows_moved` | does every announcement reconnect a moved gateway? (no) | one gateway, otherwise as `flows` |
| `gateway_health` | are uptime, restart, reconnects and connection right? | 2 ticks to a second, up to 7; 3 boots, 2 lost sessions |
| `decode` | do the decoded fields say what the bytes say? | bytes of 2 bits; profiles of 1 or 2 of 13 fields, frames up to 4 bytes, messages up to 7 |

Why the bounds are enough. In `entity` every event is at an even time and every
deadline at an odd one, so that no clock read falls on a deadline: reads of
one clock are not equal to a deadline in milliseconds but by accident. What that
accident does can be seen with `Stale` 2 and `Step` 1: an age equal to the stale
time is still available (`entity.py:48`), a deadline that is not ahead gets no
timer (`entity.py:88`), and the entity stays available until the next
notification; `SilenceShows` fails there. Ten units are three stale times:
a report may go stale, be followed by another, and that one go stale too. The races of the view take one snapshot with an edit
in it (a generation before, one after) and a second edit during the refresh
that answers the first: 3 generations. An older reading can only follow a newer
one when a device has reported before a snapshot and twice during it:
3 readings. Two messages in flight let a message overtake a REST read
and one wait behind it. The tables have two nodes, an exchange of their short ids in
which one of them changes profile, and one of them out of service with the other
gone; any may follow any. One fault is enough to lose a session and two to fail
within the recovery; the view and the control meet a restart too. `SeqMod` is
8, more than twice the readings of any run, and the sequence starts at 0 or at
the last number, so that it wraps; the order over the full range is proved.

In `flows` two changes (`MaxChanges`) let one gateway leave an address and another
take it, or a move meet a withdrawn key, a restart of Home Assistant, an ignored
card or a removed entry; every one of those counts. `flows` takes the two gateways
for interchangeable (`GatewaySymmetry`), which is sound because it checks safety only
and follows none (`Watched`). `flows_reconnect` follows one of them and lets the
other take its address; entries that were set up by hand differ in nothing
from those set up from a card, so it leaves the manual flows to `flows`. In `gateway_health` seven ticks of half a
second let a read be rounded, used late, and overtaken by two boots. In `decode` the
thirteen fields have reserved numbers inside, at the end of and outside the allowed
ones, signs, overlaps, masks with gaps, offsets beyond the end and one string; a frame one byte
too long and too short is among the inputs of each.

### What the properties say

* `Attribution`, `LatestMatchesRegistry`: the view is about the devices it
  names. `Synced`: when a live session has received all
  that was sent, the view is the gateway's. `FreshestWins`: no device goes back
  to an earlier reading, over reconnects and restarts. `KeepsPromise`:
  `GatewayRuntime` implements `GatewayView` under `Registries <- Registry`; the
  mapped variables are the runtime's own.
* `BootMatches`, `NoLeakedSocket`, `ReconnectsCounted`, `AuthHalts`,
  `StopClosesStream`, `ListenersUpToDate`, `BackoffResets`: the supervisor.
  `ReconnectsCounted` has two halves: while no stop was asked for, the counter is the
  number of sessions that were opened and have ended; from a stop on it stays as it is.
* `Recovers`, `RefusalReported`, `StopEnds`: liveness. `AuthHalts` says what holds after a
  refusal was reported, `RefusalReported` that it is reported.
* `UptimeNotAhead`, `RestartIsItsBoot`, `RestartIsStable`, `ConnectionIsShown`: the
  estimates against the gateway's own clock and boots.
* `EntriesAreKept`, `CardsAreDistinct`: the flows against each other.
  `OwnKeysUnlessPassed`: a flow stores the key of its own gateway, or else that
  gateway gave the first answer and had lost the address before the second; no
  open form, other flow, move or ignored card is a reason. `AddressesAreHeard`: an
  entry is moved only to where its gateway announced itself and answered, so a
  reauthentication that began at the old address does not put it back.
* `Reconnects`: an entry with a good key works again, wherever its gateway moves,
  unless it was stranded (`Stranded`): its set-up failed for good, or was under way with
  the old address when the new one came, or its supervisor was refused by another
  gateway that had the address for a while, and the gateway has come back to it.
* `FieldsTellTheFrame`, `RefusedForAReason`: the decoder against a reading of the
  manifest from the bytes' side: which bytes write which number, which bits are
  covered, how long a message is. `TypeOK` of the module adds that a value is missing
  exactly for the number reserved for that, in every field of an accepted profile.
* `DeletedNodesLeaveNothing`, `ActiveNodesAreComplete`, `DormantNodesStay`,
  `FieldsFollowWhileLoaded`: the catalogue, whenever it is set up and no
  listener is left to call.

* `Honest`: what an entity shows, availability and value, agrees with the view.
  `SilenceIsTimed`, `NoStrayTimer`: an available entity has a timer for the
  deadline of the event it shows, and no entity has another one. `SilenceShows`:
  an event that has become too old makes its entity unavailable.

Every property has a mutant: an operator beside the one it replaces, commented
as such, that changes it as a plausible bug would, and under which TLC finds
the property violated. Mutants are used nowhere else.

### Fairness

`Fairness` is weak fairness of four things. `Start`: Home Assistant starts.
`TaskStep`: asyncio resumes a task whose await is over, requests have timeouts,
sleeps end, and a close ends (aiohttp bounds it). `StopClosed`: so does the close
of `async_stop`. `GatewaySends`: a gateway with a connected client sends what it
has; a link that stops carrying anything is turned into an error by the 30 s
heartbeat (`LinkLost`). A gateway that answers pings and never sends HELLO is
thereby excluded, and would be waited for indefinitely: the code has no timeout
for it. Nothing obliges anybody to fail, edit, report, stop or cancel. Faults
are finite by `MaxFaults`, which is what "recovers once the faults end" needs.

`NodeEntity` has weak fairness of `MarkStale` alone: Home Assistant's event
loop calls a timer that is due. Nothing obliges a node to report or a session
to open, so `SilenceShows` rests on the timer and on nothing else.

`EntryFlows` has it of three things, for the gateway that is followed. `Announce`: a
gateway with an address keeps announcing itself. `Verifies`: the request that verifies
an announcement is answered or times out. `SetsUp`: so are those of a set-up, and
Home Assistant retries and reloads. The user owes nothing, and changes end by
`MaxChanges`.

### Where the code and its documentation differ

1. `runtime_unknown_profile`: README.md:20 names two reasons for a node to be
   unavailable. A third one is that any active node of the gateway reports
   with a profile the manifest does not have: `_decode_telemetry` raises, the
   session ends, and the next snapshot ends the next session.
2. `catalog_fields`: "If the profile changes, entities follow its supported
   measurements" (README.md:24) holds while the entry stays loaded
   (`FieldsFollowWhileLoaded`); after a change while it was not, `tracked` is
   empty and the old fields' registry entries stay.
3. `entity_silent`: README.md:20 makes a node unavailable that "has not
   reported for 2 hours 15 minutes". What the entity measures is the age of the
   event it has; without one it takes an active node as available
   (`entity.py:45`, intended for nodes that have not reported yet by
   `test_no_snapshot_telemetry_is_unknown_but_available`). After a restart the gateway has
   no telemetry to send, so a node that had gone silent comes back as
   available with an unknown value, and stays so without a timer.
4. `flows_moved`: "If the gateway's IP address changes, a verified mDNS announcement
   updates the existing integration entry and reconnects it" (README.md:14). When
   the entry's set-up meets another device at the old address, it ends in
   `ConfigEntryError` (`__init__.py:56`), which Home Assistant does not retry. The
   announcement that follows updates the address, but only loaded and retrying
   entries are reloaded, so the entry stays failed.

Not runs, but seen while modelling:

* `async_stop` closes a stream only once `async_open_stream` has returned it
  (`runtime.py:155`). A stop during the opening leaves the receive blocked, and the
  cancellation of the task, which follows an unload, ends it; `StopEnds` holds.
* The exception in `OwnKeysUnlessPassed` is reached: when the entry's gateway answers
  `/api/info` and another one, whose key the user has typed, takes the address
  before `/api/nodes`, the unique id matches (`config_flow.py:286`), the key is
  stored (`config_flow.py:287`), and the next request of the entry is refused.
  The property without the exception fails in the instance of `flows`. The test
  that a key cannot move an entry to another gateway
  (`tests/test_config_flow.py:559`) answers a bootstrap as a whole.

## The proofs

All theorems are for every value of the constants that satisfies the named
assumptions of the modules (`SeqModAssumption`, `TablesAssumption`,
`BoundsAssumption`, `SupportedAssumption`, `RuntimeAssumption`,
`TimeAssumption`, `HealthAssumption`, `FlowsAssumption`, `CatalogAssumption`,
`ManifestAssumption`), which TLC evaluates in the runs. Where a theorem has a further hypothesis it is named
in it and explained below.

* `GatewayRuntimeSafety`: `TypeCorrect`. The gateway, the calls, the stream,
  the live session and Home Assistant's steps have a lemma each. Types carry
  more than sets: registries are well formed, `delay` is within its cap.
  Three inductive invariants rest on it:
  * `ControlInv` adds to the control properties that `stream` and `connected`
    are set exactly from the opened snapshot to the end of the close. Without it
    none is inductive: `SessionsCounted` needs that a session is
    opened only from a disconnected state, `StopClosesStream` that a stop in
    a session finds a stream to close. It gives `NoLeak`,
    `AuthenticationHalts`, `StopCloses` and, as action properties,
    `ReconnectAccounting` and `BackoffDiscipline`.
  * `ViewInv` adds that a snapshot holds only nodes of the stream's registry,
    one record per id, and that the view's registry is the stream's while it
    serves. It gives `ViewMatchesRegistry` and `ListenersSeeView`. That an id names one device is the well-formedness
    `_parse_node_registry` enforces.
  * `BootInv` follows HELLO through the channel: one still in flight names
    the current boot, as does the bootstrap it was compared with. It gives
    `BootsMatch`.
* `GatewayRuntimeReadings`: `ReadingsAreOwn`, that `Attribution` holds. It says
  nothing of what is on the way, so two invariants do:
  * `RegistryInv`: whatever was read of the registry, at whatever time, precedes the
    gateway's, and equal generations are equal tables. This is what lets the code
    compare generations instead of tables.
  * `LineInv` speaks of positions on the channel. Position 0 is the context: what the
    task acts on already (`begun` while it reads a snapshot, `target` while it
    refreshes, the stream's generation while it serves). A message is under the last announcement before it (`Under`).
    `AnnouncedInv`: what has been announced at last in a live session is the
    gateway's generation. `FlightInv`: a message under a generation names the device
    that has its id in the registry of that generation, but for a snapshot that
    an edit has fallen into (`Spoiled`); no end of that generation follows such a
    snapshot. `SnapshotInv`: a snapshot that is being collected is one of these or right.
    The gateway's moves and the task's are lemmas of their own (`Remains`: a step
    takes a message or none, loses a tail or none, adds one or none).
* `GatewayRuntimeOrder` begins with the wrapping order, for every even modulus:
  `NewerIsLater` (two positions of a stream less than half the range apart are ordered
  as they are) and `NewerIsAsymmetric`. The order of readings has four invariants:
  * `TimesInv`: no reading in flight, collected or shown is later than the last of
    its device, and a session tells nothing older than the one before it showed.
  * `NumbersInv`: there is an offset such that the number of each reading of this boot
    is offset plus time, modulo `SeqMod`; while the task is in a session it is the same
    for the gateway, the channel and the view, as the session is that boot's
    (`BootInv`), and a snapshot has taken the place of what another boot numbered.
  * `KeptInv` and `CopiesAgree`: the gateway keeps readings of registered devices, and
    every copy of the last one has the profile it was reported with.
  * `CompleteInv`: during a session the last reading of every device is still to be sent,
    in flight, or held by the task.

  With these, `FreshInRange` (`FreshestWins`), `PromiseInRange` (`KeepsPromise`) and
  `SyncedInRange` (`Synced`) are proved. They have the hypothesis `[]InRange`:
  a live reading that arrives is less than half the range of sequence numbers (2^31)
  from the one shown of its device. The code needs it, since `sequence_is_newer`
  can tell no more, and no bound on how long a node may be quiet guarantees it (see
  `runtime.py:29` under hazards). It holds in every behaviour with at most
  half a range of readings: `FreshReadings`, `PromiseKept` and `SessionsCatchUp` have
  `MaxClock <= SeqMod \div 2` in its place, which all the runs satisfy.

  The refinement goes step by step: `OpenStream` implements `Resume`, `Refresh`
  `Change` or a stutter, `ReceiveLive` `Learn` or a stutter, the end of a session
  `Lose`; all else leaves the view alone (`GatewayView` names these actions). That a
  resumed view is not older than the one before it is `SessionIsLater`, that its
  registry is not is `RegistryInv`.
* `EntityCatalogProofs`: `RegistrationInv` bounds what is registered by the nodes of the
  table last registered and the current one, as the listener that removes devices may still
  be waiting; it gives `NothingStays`. `MemoryInv` relates what the platforms remember to
  what is registered, for a platform whose listener has run; it gives
  `ActiveNodesComplete` and `FieldsFollow`, which is about the first load because what is
  remembered ends with it. `DormantStay` is an action property: registrations
  spare the nodes of the table and `Keeps` spares inactive ones.
* `NodeEntityProofs`: `EntityTypeCorrect` and `TimersAreHeld` are one inductive
  invariant: that at most one timer runs follows from the handle being its
  type and from no timer being outside it, and neither is inductive alone. On
  top of the types, `AvailabilityIsHonest` needs that the
  value copied is that of the event (`Copied`), because the timer writes a value
  it does not update.
  `SilenceTimed` is proved for a `Step` and a `Stale` of which no multiple of the first
  is the second (`NoneOnTheDot`), for the reason given under the runs: on
  the dot the code sets no timer, and `SilenceIsTimed` is false then.
* `GatewayHealthProofs`: the invariant `HealthInv` carries what was read to where it
  is used: a boot was at least so old when it was read (`ReadIsTrue`), when it was
  anchored (`InfoIsTrue`), and the start that was computed is not before it
  (`StartedInBoot`). `UptimeNotAhead` follows by the arithmetic of whole seconds
  (`WholeSeconds`), for every resolution of the clock.
* `EntryFlowsProofs`: the invariant `FlowsInv` says of each flow what it knows
  (`FlowGood`: a flow that awaits the second answer has the identity of the gateway
  that gave the first, the announced one if it is a card; a card has no entry), of
  each entry what it keeps (`EntryGood`). `EntriesAreNeverReplaced` and
  `CardsStayDistinct` follow from it. `KeysAreOwnUnlessPassed` and
  `AddressesStayHeard` are about steps: all but the second answer of a flow
  leave the keys of the entries alone (`Kept`, `VerifyFits`), and for that one `StoredKeyFits`
  uses that an address has one holder, so whoever accepts the key is either the
  gateway the flow is about or has taken the address from it. Nothing is
  assumed of when addresses pass.

* `ProtocolDecodeProofs`: what `decode` checks for bytes of two bits holds for bytes of
  any width, all numbers, all masks and all manifests of `ManifestAssumption`. The module
  goes up in levels:
  * Induction. `Pow2` and the sum of `Composed` are recursive functions. The library's
    induction theorems take an operator, which the provers cannot instantiate, but
    `WFMin` takes a set: `LeastNumber` follows from it for a set of numbers, `Induction`
    from that, and each fact is proved for the set of the numbers it holds for. That
    the recursive definitions define something is proved first (`Pow2Equation`,
    `ComposedSum`).
  * Digits. The digits of a number can be read back (`DigitsRead`), its digits make
    the number up again (`DigitsComposed`), and what is added above them does not change
    them (`LowerDigits`). Digits are bytes, and with a width of one they are bits.
  * Fields. `NumberIsWritten`: the number that is read has the bytes of the field, and no
    other number of the type has; the second half is needed because `RefusedForAReason`
    says that *no* allowed number is written there. `BitsOfField`: a bit field has the
    bits of its mask. `TelemetryStep`, `StreamStep`: one turn of the loops.
  * The invariant. The properties speak of accepted and refused frames; `DecodeInvariant`
    says of a frame that is being decoded that each field read so far is kept as its
    bytes say (`Kept`) and was legal (`Judged`). That a later field does not
    take the place of an earlier one is the distinctness of names, which
    `_validate_telemetry_fields` checks; and a length is still the one that was read when
    its string is.

  It gives `DecodeTypeCorrect`, `FieldsTell` and `RefusalsHaveReasons`. TLC has checked
  the invariant under the constants of `decode`.

Only model-checked: `Recovers`, `RefusalReported`, `StopEnds`, `SilenceShows` and `Reconnects`, which are
liveness under fairness and beyond the prover. Every other property of the passing runs
is a theorem.

## Not modelled

* A system clock that is set back or forward: `gateway_started_at_unix_ms` would keep
  the difference until the next boot. Which field of an event a value is computed
  from, and the conversion of a pulse count.
* The validation of each REST field, the scaling of values, the indexes of the manifest
  and the check that a field's quantity and unit agree between profiles.
* Exceptions of listeners: `_notify` runs Home Assistant callbacks, which the
  model takes to return.
* What an entry does after a reauthentication that ended with `wrong_gateway`: it waits
  for a reload to ask again, which `EntryFlows` models and no property is about.
* In `EntityCatalog`, adding an entity is done when `async_add_entities`
  returns; Home Assistant does it in a task of its own.
* Diagnostics, constants, packaging and scripts: they keep no state.

## Plan

1. Done: `Gateway`, `GatewayStream`, `GatewayRuntime`, `GatewayView`,
   `EntityCatalog`, and their theorems above.
2. Done: `NodeEntity` and its theorems. Left of it: `GatewayRuntime` shown to change one
   device's view as `NodeEntity` assumes.
3. Done: `GatewayHealth`, `EntryFlows`, `ProtocolDecode`, and their theorems.
4. Done: `Attribution`, `FreshestWins`, `KeepsPromise`, `Synced` and the catalogue's
   properties as theorems. Left: the scaling of values, and what the platforms make
   of a value.
