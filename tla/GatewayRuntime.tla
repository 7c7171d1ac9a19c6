---------------------------- MODULE GatewayRuntime ----------------------------
(***************************************************************************)
(* The long-lived supervisor of one gateway (runtime.py): async_run,       *)
(* async_stop, and the view it keeps for the entities, run against the     *)
(* gateway of module Gateway over the stream of module GatewayStream.      *)
(* asyncio switches tasks only at an await, so one action is the code from *)
(* one await of a task to its next; Home Assistant's start, stop and       *)
(* cancellation of the task (__init__.py) come between any two of them.    *)
(***************************************************************************)
EXTENDS GatewayStream

CONSTANTS
    MaxDelay,   \* _MAX_RECONNECT_DELAY, in units of the first delay
    Unloads     \* may Home Assistant stop and cancel the task?

ASSUME RuntimeAssumption == MaxDelay \in Nat \ {0} /\ Unloads \in BOOLEAN

VARIABLES
    bootstrap,   \* boot id of self.bootstrap
    registry,    \* self.registry
    latest,      \* self.latest: the events by device, one for each device
    connected,   \* self.connected
    stream,      \* is self._stream set?
    reconnects,  \* self.reconnect_count
    delay,       \* the next back-off delay
    stopping,    \* self._stopping
    stop,        \* the progress of async_stop: "no", "closing", "returned"
    cancelled,   \* has Home Assistant cancelled the task?
    reauths,     \* how often authentication_failed was called
    opened,      \* how many sessions were opened
    shown        \* what the listeners last saw

viewvars    == <<bootstrap, registry, latest, connected, shown>>
controlvars == <<stream, reconnects, delay, stopping, stop, cancelled, reauths, opened>>
runvars == <<viewvars, controlvars>>
vars == <<gwvars, streamvars, runvars>>

View == [connected : BOOLEAN, registry : Registry, latest : SUBSET Event]

TypeOK ==
    /\ GatewayTypeOK
    /\ StreamTypeOK
    /\ bootstrap \in Nat
    /\ registry \in Registry
    /\ latest \subseteq Event
    /\ connected \in BOOLEAN /\ stream \in BOOLEAN
    /\ reconnects \in Nat /\ opened \in Nat /\ reauths \in Nat
    /\ delay \in 1 .. MaxDelay
    /\ stopping \in BOOLEAN /\ cancelled \in BOOLEAN
    /\ stop \in {"no", "closing", "returned"}
    /\ shown \in View

\* async_setup_entry has read the bootstrap; the runtime is constructed from
\* it, and the task starts once Home Assistant has.
Init ==
    /\ GatewayInit
    /\ StreamInit
    /\ bootstrap = boot /\ registry = reg /\ latest = {}
    /\ connected = FALSE /\ stream = FALSE
    /\ reconnects = 0 /\ delay = 1 /\ opened = 0 /\ reauths = 0
    /\ stopping = FALSE /\ stop = "no" /\ cancelled = FALSE
    /\ shown = [connected |-> FALSE, registry |-> reg, latest |-> {}]

----------------------------------------------------------------------------
\* _notify: every listener runs before the next await.
Notify == shown' = [connected |-> connected', registry |-> registry', latest |-> latest']

\* `while not self._stopping` and `if self._stopping: break`.
Unless(next) == pc' = IF stopping THEN "done" ELSE next

\* The task runs once Home Assistant has started.
Start ==
    /\ pc = "idle"
    /\ Unless("connect")
    /\ UNCHANGED <<gwvars, outcome, cur, sock, sreg, target, begun, snap, runvars>>

----------------------------------------------------------------------------
\* async_bootstrap: GET /api/info, then GET /api/nodes.
FetchInfo ==
    /\ pc = "info"
    /\ \/ /\ pc' = "nodes" /\ cur' = [cur EXCEPT !.boot = boot]
          /\ UNCHANGED gwvars
       \/ /\ RequestFails
          /\ pc' = "backoff" /\ cur' = cur
    /\ UNCHANGED <<outcome, sock, sreg, target, begun, snap, runvars>>

\* A refused token ends the supervisor, which has told Home Assistant.
Retried == pc' = "backoff" /\ cur' = NoBootstrap /\ UNCHANGED reauths    \* mutant
Reported == pc' = "done" /\ cur' = NoBootstrap /\ reauths' = reauths + 1

FetchNodes ==
    /\ pc = "nodes"
    /\ \/ /\ NodesRead
          /\ pc' = "connect" /\ cur' = [cur EXCEPT !.registry = reg]
          /\ UNCHANGED reauths
       \/ /\ NodesRefused
          /\ Reported
       \/ /\ RequestFails
          /\ pc' = "backoff" /\ cur' = NoBootstrap
          /\ UNCHANGED reauths
    /\ UNCHANGED <<outcome, sock, sreg, target, begun, snap, viewvars,
                   stream, reconnects, delay, stopping, stop, cancelled, opened>>

\* ws_connect: a stream on the bootstrap's registry, a refused token, or a
\* failure that ends the session before there is a socket.
Connect ==
    /\ pc = "connect"
    /\ \/ /\ ~revoked
          /\ OpenSession
          /\ sock' = TRUE /\ sreg' = cur.registry
          /\ pc' = "hello"
          /\ UNCHANGED <<reg, boot, last, clock, seq, revoked, faults, reauths>>
       \/ /\ NodesRefused
          /\ pc' = "done" /\ reauths' = reauths + 1
          /\ UNCHANGED <<sock, sreg>>
       \/ /\ RequestFails
          /\ Unless("backoff")
          /\ UNCHANGED <<sock, sreg, reauths>>
    /\ UNCHANGED <<outcome, cur, target, begun, snap, viewvars,
                   stream, reconnects, delay, stopping, stop, cancelled, opened>>

\* The stream is open: its snapshot replaces the view.
OpenStream ==
    /\ ReceiveEnd
    /\ stream' = TRUE
    /\ bootstrap' = cur.boot
    /\ registry' = sreg
    /\ latest' = snap
    /\ connected' = TRUE
    /\ Notify
    /\ delay' = 1
    /\ opened' = opened + 1
    /\ pc' = IF stopping THEN "close" ELSE "live"
    /\ outcome' = "retry"
    /\ begun' = 0 /\ snap' = {}
    /\ UNCHANGED <<cur, sock, sreg, target,
                   reconnects, stopping, stop, cancelled, reauths>>

\* websocket.close() in async_open_stream is done and the exception reaches
\* async_run, whose handlers and finally run to the next await.
KeepSocket == UNCHANGED <<sess, pend, due, chan, sock>>    \* mutant: not closed
CloseSocket == CloseSession /\ sock' = FALSE

AbortEndsRun == pc' = "done"    \* mutant: a bad session ends the supervisor
AbortRetries == IF outcome = "cancel" THEN pc' = "done" ELSE Unless("backoff")    \* mutant
AfterSession == IF outcome = "retry" THEN Unless("backoff") ELSE pc' = "done"

AbortDone ==
    /\ pc = "abort"
    /\ CloseSocket
    /\ sreg' = NoRegistry
    /\ AfterSession
    /\ reauths' = IF outcome = "auth" THEN reauths + 1 ELSE reauths
    /\ outcome' = "retry"
    /\ UNCHANGED <<reg, boot, last, clock, seq, revoked, faults,
                   cur, target, begun, snap, viewvars,
                   stream, reconnects, delay, stopping, stop, cancelled, opened>>

----------------------------------------------------------------------------
\* _apply_event.

\* A new registry keeps the events of the devices it still holds with the
\* profile they were decoded with.
RetainedByUid(events, nodes) ==    \* mutant: the profile is not compared
    {e \in events : \E n \in nodes : n.uid = e.node.uid}
Retained(events, nodes) ==
    {e \in events : \E n \in nodes : n.uid = e.node.uid /\ n.profile = e.node.profile}

ApplyUnseen ==    \* mutant: the listeners are not called
    /\ registry' = reg
    /\ latest' = Retained(latest, reg.nodes)
    /\ UNCHANGED <<bootstrap, connected, shown>>
ApplyRegistry ==
    /\ registry' = reg
    /\ latest' = Retained(latest, reg.nodes)
    /\ UNCHANGED <<bootstrap, connected>>
    /\ Notify

\* An event is dropped, silently, unless its sequence is newer than that of
\* the event it would replace.
NeverSuperseded(e) == FALSE    \* mutant: the sequences are not compared
Superseded(e) ==
    \E old \in latest : old.node.uid = e.node.uid /\ ~SequenceIsNewer(e.seq, old.seq)

Stored(e) == {old \in latest : old.node.uid # e.node.uid} \cup {e}

ApplyTelemetry(e) ==
    /\ latest' = IF Superseded(e) THEN latest ELSE Stored(e)
    /\ UNCHANGED <<bootstrap, registry, connected>>
    /\ IF Superseded(e) THEN shown' = shown ELSE Notify

\* The session ends: `finally` closes the stream next.
EndSession(how) ==
    /\ pc' = "close" /\ outcome' = how
    /\ target' = 0
    /\ UNCHANGED <<cur, sock, sreg, begun, snap>>

\* async_receive and what is done with its event.
LiveKind(m) == m.kind \in {"unknown", "registry_changed"} \/ TelemetryEvents(m) # {}

ReceiveLive ==
    /\ pc = "live"
    /\ Receive
    /\ \/ Incoming.kind = "unknown" /\ UNCHANGED <<streamvars, viewvars>>
       \/ /\ \E e \in TelemetryEvents(Incoming) : ApplyTelemetry(e)
          /\ pc' = "yield"
          /\ UNCHANGED <<outcome, cur, sock, sreg, target, begun, snap>>
       \/ /\ Incoming.kind = "registry_changed"
          /\ pc' = "refresh" /\ target' = Incoming.generation
          /\ UNCHANGED <<outcome, cur, sock, sreg, begun, snap, viewvars>>
       \/ /\ ~LiveKind(Incoming)
          /\ EndSession("retry")
          /\ UNCHANGED viewvars
    /\ UNCHANGED controlvars

\* GET /api/nodes after REGISTRY_CHANGED.
Refresh ==
    /\ pc = "refresh"
    /\ \/ /\ NodesRead /\ reg.generation = target
          /\ sreg' = reg /\ target' = 0 /\ pc' = "yield"
          /\ ApplyRegistry
          /\ UNCHANGED <<outcome, cur, sock, begun, snap, reauths>>
       \/ /\ NodesRead /\ reg.generation # target
          /\ EndSession("retry")
          /\ UNCHANGED <<viewvars, reauths>>
       \/ /\ NodesRefused
          /\ EndSession("auth")
          /\ reauths' = reauths + 1
          /\ UNCHANGED viewvars
       \/ /\ RequestFails
          /\ EndSession("retry")
          /\ UNCHANGED <<viewvars, reauths>>
    /\ UNCHANGED <<stream, reconnects, delay, stopping, stop, cancelled, opened>>

\* The fairness sleep is over.
Yield ==
    /\ pc = "yield"
    /\ pc' = IF stopping THEN "close" ELSE "live"
    /\ UNCHANGED <<gwvars, outcome, cur, sock, sreg, target, begun, snap, runvars>>

\* stream.async_close() in `finally` is done; the rest of it runs, and then
\* the code after the try.
EveryEnd == connected    \* mutant: the flag is not tested
Reconnecting == connected /\ ~stopping

CloseDone ==
    /\ pc = "close"
    /\ CloseSession /\ sock' = FALSE
    /\ sreg' = NoRegistry
    /\ stream' = FALSE
    /\ reconnects' = IF Reconnecting THEN reconnects + 1 ELSE reconnects
    /\ connected' = FALSE
    /\ AfterSession
    /\ outcome' = "retry"
    /\ UNCHANGED <<reg, boot, last, clock, seq, revoked, faults,
                   cur, target, begun, snap, bootstrap, registry, latest,
                   delay, stopping, stop, cancelled, reauths, opened>>
    /\ IF connected THEN Notify ELSE shown' = shown

\* The back-off sleep is over: the next round starts with a new bootstrap.
UncappedDelay == 2 * delay    \* mutant
WrappedDelay == IF 2 * delay <= MaxDelay THEN 2 * delay ELSE 1    \* mutant
NextDelay == IF 2 * delay < MaxDelay THEN 2 * delay ELSE MaxDelay

BackoffDone ==
    /\ pc = "backoff"
    /\ delay' = NextDelay
    /\ cur' = NoBootstrap
    /\ Unless("info")
    /\ UNCHANGED <<gwvars, outcome, sock, sreg, target, begun, snap, viewvars,
                   stream, reconnects, stopping, stop, cancelled, reauths, opened>>

----------------------------------------------------------------------------
\* async_stop, called by async_unload_entry: it returns at once unless a
\* stream is set.
NoClose == "returned"    \* mutant: async_stop only sets the flag
Stopped == IF stream THEN "closing" ELSE "returned"

Stop ==
    /\ Unloads
    /\ stop = "no"
    /\ stopping' = TRUE
    /\ stop' = Stopped
    /\ UNCHANGED <<gwvars, streamvars, viewvars,
                   stream, reconnects, delay, cancelled, reauths, opened>>

\* Its await of stream.async_close() is done; a receive that is blocked on
\* the socket wakes up with CLOSING.
StopClosed ==
    /\ stop = "closing"
    /\ stop' = "returned"
    /\ IF sock THEN sess' = "none" /\ pend' = {} /\ due' = {} /\ chan' = <<Closed>>
       ELSE UNCHANGED <<sess, pend, due, chan>>
    /\ sock' = FALSE
    /\ UNCHANGED <<reg, boot, last, clock, seq, revoked, faults,
                   pc, outcome, cur, sreg, target, begun, snap, viewvars,
                   stream, reconnects, delay, stopping, cancelled, reauths, opened>>

\* Home Assistant cancels the task, after an unload or when it shuts down:
\* CancelledError is raised at the task's await.  An open or a live session
\* still closes its socket; a close that is itself cancelled drops it and
\* skips the rest of `finally`.
Cancel ==
    /\ Unloads
    /\ ~cancelled /\ cancelled' = TRUE
    /\ pc # "done"
    /\ \/ /\ pc \in Opening
          /\ Raise("cancel")
          /\ UNCHANGED gwvars
       \/ /\ pc \in Serving
          /\ EndSession("cancel")
          /\ UNCHANGED gwvars
       \/ /\ pc \in {"idle", "info", "nodes", "connect", "backoff"}
          /\ pc' = "done"
          /\ UNCHANGED <<gwvars, outcome, cur, sock, sreg, target, begun, snap>>
       \/ /\ pc \in {"abort", "close"}
          /\ pc' = "done" /\ sock' = FALSE /\ sreg' = NoRegistry
          /\ CloseSession
          /\ UNCHANGED <<reg, boot, last, clock, seq, revoked, faults,
                         outcome, cur, target, begun, snap>>
    /\ UNCHANGED <<viewvars, stream, reconnects, delay, stopping, stop, reauths, opened>>

----------------------------------------------------------------------------
\* The steps of the supervisor task, at each of its awaits.
StreamStep ==
    /\ ReceiveHello \/ Reconcile \/ ReceiveBegin \/ ReceiveRecord
    /\ UNCHANGED runvars

TaskStep ==
    \/ FetchInfo \/ FetchNodes \/ Connect
    \/ StreamStep \/ OpenStream \/ AbortDone
    \/ ReceiveLive \/ Refresh \/ Yield \/ CloseDone \/ BackoffDone

GatewayStep == GatewayNext /\ UNCHANGED <<streamvars, runvars>>

Next == GatewayStep \/ Start \/ TaskStep \/ Stop \/ StopClosed \/ Cancel

Spec == Init /\ [][Next]_vars

\* asyncio resumes a task whose await is over; sleeps and requests end, the
\* latter at their timeout; Home Assistant starts; the gateway sends what it
\* has to a connected client.  Nothing obliges anybody to fail, to edit the
\* registry, to report, to stop or to cancel.
Fairness ==
    /\ WF_vars(Start)
    /\ WF_vars(TaskStep)
    /\ WF_vars(StopClosed)
    /\ WF_vars(GatewaySends /\ UNCHANGED <<streamvars, runvars>>)

FairSpec == Spec /\ Fairness

----------------------------------------------------------------------------
(* Safety.                                                                 *)

\* What a device is shown to have measured, it has measured itself: a reading
\* is never attributed to the device that took over its short node id, or had
\* it before, whatever edits and reconnects come between (stream.py,
\* _decode_telemetry and the generation checks of async_read_snapshot).
Attribution == \A e \in latest : e.payload = e.node.uid

\* Every event shown belongs to a device of the registry shown, decoded with
\* the profile it has there (runtime.py, _apply_snapshot and _apply_event).
LatestMatchesRegistry ==
    \A e \in latest : \E n \in registry.nodes :
        n.uid = e.node.uid /\ n.profile = e.node.profile

\* A live session that has received all that was sent shows the gateway's
\* registry and, of every device the gateway has a reading of, that reading.
Drained == sess = "live" /\ pc \in {"live", "yield"} /\ chan = <<>> /\ due = {}
Shown(r) == \E e \in latest : e.node.uid = r.uid /\ e.at = r.at
UpToDate == registry = reg /\ \A r \in last : Shown(r)
Synced == Drained => UpToDate

\* The bootstrap kept beside a live session is of the boot that serves it:
\* a gateway that restarted between the REST reads and HELLO, or later, never
\* goes on under the old boot id (stream.py, _validate_hello).
BootMatches == sess = "live" /\ pc \in Serving => bootstrap = boot

\* A task that is not in a session holds no socket and keeps no session open
\* at the gateway (api.py, async_open_stream; runtime.py, finally).
NoLeakedSocket ==
    pc \in {"idle", "info", "nodes", "connect", "backoff", "done"} =>
        ~sock /\ sess = "none"

\* A refused token is reported once and ends the supervisor: no retry, no
\* second report (runtime.py, the two AuthenticationError handlers).
AuthHalts ==
    /\ reauths <= 1
    /\ reauths = 1 => pc = "done" \/ (pc = "close" /\ outcome # "retry")

\* At every await the listeners have seen the view as it is.
ListenersUpToDate ==
    shown = [connected |-> connected, registry |-> registry, latest |-> latest]

\* Once async_stop has returned, an established session is closed: no receive
\* of it is blocked on an open socket.
StopClosesStream == stop = "returned" /\ pc \in Serving => ~sock

----------------------------------------------------------------------------
(* Action properties.                                                      *)

\* The event shown of a device is only ever replaced by a later reading, in
\* live order, across reconnects and gateway restarts.
NeverOlder ==
    \A d \in latest, e \in latest' : d.node.uid = e.node.uid => d.at <= e.at
FreshestWins == [][NeverOlder]_vars

\* The back-off is reset by a session that got through its snapshot, and by
\* nothing else: not by a connection, nor by HELLO (runtime.py, async_run).
BackoffResets == [][delay' < delay => connected']_vars

\* reconnect_count counts the sessions that ended while the integration was
\* to run, no failed attempt, and from a stop on nothing: neither the session
\* whose stream the stop closes nor one that was being opened (runtime.py,
\* finally).
SessionsCounted == opened = IF connected THEN reconnects + 1 ELSE reconnects
Counted == IF stopping THEN reconnects' = reconnects ELSE stopping' \/ SessionsCounted'
ReconnectsCounted == [][Counted]_vars

\* The runtime keeps the promises of module GatewayView: whatever faults,
\* restarts, edits, stops and cancellations occur, each step of it is a step
\* of that specification or leaves the view alone.
Promise == INSTANCE GatewayView WITH Registries <- Registry
KeepsPromise == Promise!Spec

----------------------------------------------------------------------------
(* Liveness.                                                               *)

Current == connected /\ pc \in Serving /\ UpToDate

\* The supervisor survives bad sessions: unless it is stopped, cancelled or
\* refused, the view ends up showing the gateway's state (runtime.py,
\* async_run, "Connect forever, backing off after any failed stream session").
Recovers == <>[](stopping \/ cancelled \/ revoked \/ Current)

\* A refused token does not go unreported: unless it is stopped or cancelled,
\* the supervisor asks for a new one, or is still in a session that it opened
\* before (runtime.py, async_run, the AuthenticationError handlers).
RefusalReported == revoked ~> (stopping \/ cancelled \/ reauths = 1 \/ pc \in Serving)

\* "Node entities become unavailable when the gateway disconnects or a node
\* has not reported for 2 hours 15 minutes" (README): a node that has
\* reported, with a profile the manifest knows, ends up shown over a live
\* connection, whatever profiles the other nodes run.
SupportedNodesShown ==
    <>[](connected /\ \A r \in last : r.profile \in Supported => Shown(r))

\* A stop ends the task, wherever it is suspended.
StopEnds == stopping ~> pc = "done"
=============================================================================
