------------------------------ MODULE NodeEntity ------------------------------
(***************************************************************************)
(* One entity of one node (entity.py, and the value updates of sensor.py   *)
(* and binary_sensor.py): its availability, its stale timer and the value  *)
(* it shows, as the runtime's view of that node changes and time passes.   *)
(*                                                                         *)
(* The view changes as module GatewayRuntime lets it, told for one device; *)
(* an event, a report and a timer are their times, in sets of at most one. *)
(* Home Assistant constructs an entity, runs async_added_to_hass and       *)
(* writes its state without a pause, and so it removes one: its tasks are  *)
(* started eagerly and nothing in them waits.                              *)
(***************************************************************************)
EXTENDS Integers

CONSTANTS
    Stale,     \* STALE_AFTER_SECONDS
    Step,      \* how far a clock read is after the one before
    MaxTime    \* bound on time

ASSUME TimeAssumption == Stale \in Nat \ {0} /\ Step \in Nat \ {0} /\ MaxTime \in Nat

VARIABLES
    now,        \* time.time()
    heard,      \* the node's last report since it was edited
    held,       \* that report, if the gateway still has it
    coming,     \* the reports sent to the runtime and not delivered yet
    connected,  \* runtime.connected
    node,       \* the node's state in runtime.registry
    fits,       \* does the node's profile have this entity's field?
    event,      \* runtime.latest of the device
    phase,      \* "none", "added" or "removed"
    available,  \* _attr_available
    value,      \* the event the value was copied from
    handle,     \* _cancel_stale_timer
    timers,     \* the timers Home Assistant has for this entity
    shown       \* the state Home Assistant shows

gatewayvars == <<now, heard, held, coming>>
viewvars    == <<connected, node, fits, event>>
entityvars  == <<phase, available, value, handle, timers, shown>>
vars == <<gatewayvars, viewvars, entityvars>>

Time == 0 .. MaxTime
AtMostOne == {{}} \cup {{t} : t \in Time}
States == {"active", "inactive", "absent"}

TypeOK ==
    /\ now \in Time
    /\ heard \in AtMostOne /\ held \subseteq heard /\ coming \subseteq Time
    /\ connected \in BOOLEAN /\ node \in States /\ fits \in BOOLEAN
    /\ event \in AtMostOne
    /\ phase \in {"none", "added", "removed"}
    /\ available \in BOOLEAN /\ value \in AtMostOne
    /\ timers \subseteq Nat /\ handle \subseteq timers /\ \A c, d \in handle : c = d
    /\ shown \in [available : BOOLEAN, value : AtMostOne]

\* The entry is set up; the stream has not been opened.
Init ==
    /\ now = 0
    /\ heard \in {{}, {0}} /\ held = heard /\ coming = {}
    /\ connected = FALSE /\ node \in States /\ fits \in BOOLEAN /\ event = {}
    /\ phase = "none" /\ available = FALSE /\ value = {}
    /\ handle = {} /\ timers = {}
    /\ shown = [available |-> FALSE, value |-> {}]

----------------------------------------------------------------------------
(* What the entity does. *)

\* _calculate_available: on the view as it has just become.
AnyState == connected' /\ \A t \in event' : now - t <= Stale    \* mutant
IsAvailable ==
    /\ connected' /\ node' = "active"
    /\ \A t \in event' : now - t <= Stale

\* _async_schedule_stale_timer: the timer set before is cancelled first; none
\* is set without an event, or for a deadline that is not ahead.
Deadline == {t + Stale : t \in event'}
Ahead == {d \in Deadline : d > now}

FirstOnly == IF handle = {} THEN handle' = Ahead /\ timers' = timers \cup Ahead
             ELSE UNCHANGED <<handle, timers>>    \* mutant: a timer is kept
Uncancelled == handle' = Ahead /\ timers' = timers \cup Ahead    \* mutant
Schedule == handle' = Ahead /\ timers' = (timers \ handle) \cup Ahead

\* _update_value
UpdateValue == value' = event'

Write == shown' = [available |-> available', value |-> value']

\* _handle_update
HandleUpdate == available' = IsAvailable /\ UpdateValue /\ Schedule /\ Write

\* async_on_remove's callbacks: unsubscribe, cancel the timer.
CancelTimer == handle' = {} /\ timers' = timers \ handle

\* The platform keeps the entity unless its node is gone, or active without
\* the field (module EntityCatalog).
Kept == node' = "inactive" \/ (node' = "active" /\ fits')

\* A notification.  The platform's listener may remove the entity before its
\* own is called: it is called all the same, from the copy _notify iterates.
Notified ==
    \/ /\ phase = "added" /\ Kept
       /\ HandleUpdate
       /\ UNCHANGED phase
    \/ /\ phase = "added" /\ ~Kept
       /\ phase' = "removed"
       /\ available' = IsAvailable /\ UpdateValue
       /\ CancelTimer \/ Schedule
       /\ UNCHANGED shown
    \/ /\ phase # "added"
       /\ UNCHANGED entityvars

\* The platform adds the entity of an active node.
Add ==
    /\ phase = "none"
    /\ node = "active" /\ fits
    /\ UNCHANGED <<gatewayvars, viewvars>>
    /\ phase' = "added"
    /\ HandleUpdate

\* _async_mark_stale, at its time or later.
KeepHandle == UNCHANGED handle    \* mutant
ClearHandle == handle' = {}

MarkStale ==
    \E d \in timers :
        /\ d <= now
        /\ UNCHANGED <<gatewayvars, viewvars, phase, value>>
        /\ timers' = timers \ {d}
        /\ ClearHandle
        /\ available' = IsAvailable
        /\ IF phase = "added" THEN Write ELSE UNCHANGED shown

\* The entry is unloaded.
Unload ==
    /\ phase = "added" /\ phase' = "removed"
    /\ CancelTimer
    /\ UNCHANGED <<gatewayvars, viewvars, available, value, shown>>

----------------------------------------------------------------------------
(* What happens around it. *)

Tick ==
    /\ now + Step <= MaxTime
    /\ now' = now + Step
    /\ UNCHANGED <<heard, held, coming, viewvars, entityvars>>

\* The node reports to the gateway, which tells its sessions.
Report ==
    /\ node = "active"
    /\ heard' = {now} /\ held' = {now}
    /\ coming' = IF connected THEN coming \cup {now} ELSE {}
    /\ UNCHANGED <<now, viewvars, entityvars>>

\* The gateway restarts: the report is gone.  A session of it ends first.
Restart ==
    /\ ~connected /\ held # {}
    /\ held' = {}
    /\ UNCHANGED <<now, heard, coming, viewvars, entityvars>>

\* The operator edits the node: a deactivation, or another profile, drops what
\* was heard of it before.
EditNode ==
    /\ node' \in States /\ fits' \in BOOLEAN
    /\ held' \in {{}, held}
    /\ node' # "active" => held' = {}
    /\ heard' = held'

\* A session opens: the node may have been edited, and have reported since;
\* the snapshot has what the gateway holds of it.
Opened ==
    /\ ~connected /\ connected' = TRUE
    /\ EditNode \/ UNCHANGED <<node, fits, held, heard>>
    /\ event' = IF node' = "active" THEN held' ELSE {}
    /\ UNCHANGED <<now, coming>>
    /\ Notified

\* The stream delivers the oldest report on its way.
Delivered ==
    /\ connected /\ node = "active"
    /\ \E t \in coming :
        /\ \A s \in coming : t <= s
        /\ event' = {t} /\ coming' = coming \ {t}
    /\ UNCHANGED <<now, heard, held, connected, node, fits>>
    /\ Notified

\* Another node's message: every listener is called.
Other ==
    /\ connected
    /\ UNCHANGED <<gatewayvars, viewvars>>
    /\ Notified

\* The registry changes during a session; the event stays if the node is still
\* there with its profile (_apply_event).
Edited ==
    /\ connected /\ UNCHANGED <<connected, now>>
    /\ EditNode
    /\ event' \in {{}, event}
    /\ node' = "absent" \/ fits' # fits => event' = {}
    /\ fits' # fits \/ event' # event => held' = {}
    /\ coming' = IF held' = {} THEN {} ELSE coming
    /\ Notified

\* The session ends, and what was on its way with it.
Lost ==
    /\ connected /\ connected' = FALSE
    /\ coming' = {}
    /\ UNCHANGED <<now, heard, held, node, fits, event>>
    /\ Notified

Next ==
    \/ Add \/ MarkStale \/ Unload
    \/ Tick \/ Report \/ Restart \/ Opened \/ Delivered \/ Other \/ Edited \/ Lost

Spec == Init /\ [][Next]_vars

\* Home Assistant's event loop calls a timer that is due.
FairSpec == Spec /\ WF_vars(MarkStale)

----------------------------------------------------------------------------
(* Properties. *)

Overdue == \E t \in event : now > t + Stale

\* An entity is shown as available only while its gateway is connected and
\* its node active, and as unavailable only for one of the three reasons:
\* disconnected, not active, or silent for too long; and the value shown was
\* measured by the event the runtime holds (_handle_update, _async_mark_stale).
Honest ==
    phase = "added" =>
        /\ shown.available => connected /\ node = "active"
        /\ ~shown.available => ~connected \/ node # "active" \/ Overdue
        /\ shown.value = event

\* An available entity that has an event has a timer for the deadline of that
\* very event, so that silence cannot go unnoticed.
SilenceIsTimed ==
    phase = "added" /\ shown.available => timers = {t + Stale : t \in event}

\* No timer runs that the entity could not cancel: a later report never leaves
\* the deadline of an earlier one behind.
NoStrayTimer == timers \subseteq handle

\* "Node entities become unavailable when the gateway disconnects or a node
\* has not reported for 2 hours 15 minutes": once the event is too old, the
\* entity becomes unavailable, unless a newer one comes.
SilenceShows ==
    (phase = "added" /\ Overdue) ~> (phase # "added" \/ ~Overdue \/ ~shown.available)

\* The same sentence, of the node rather than of the event the runtime has: a
\* node whose last report is too long ago is not available, once all reports
\* are delivered and the timers that are due have run.
Settled == held \subseteq event /\ \A d \in timers : d > now

SilentNodesUnavailable ==
    phase = "added" /\ Settled /\ (\E t \in heard : now > t + Stale) => ~shown.available
=============================================================================
