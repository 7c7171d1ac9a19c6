----------------------------- MODULE GatewayStream -----------------------------
(***************************************************************************)
(* One identity-checked WebSocket stream (stream.py, and async_open_stream *)
(* in api.py): HELLO, the reconciliation of the registry, the snapshot,    *)
(* and the decoding of live messages.  The stream's methods run in the     *)
(* supervisor's task, so pc, the await at which that task is suspended, is *)
(* declared here; each action is the code from one await to the next.      *)
(***************************************************************************)
EXTENDS Gateway

CONSTANT Supported    \* the profiles of the integration's protocol manifest
ASSUME SupportedAssumption == Supported \subseteq Profile

VARIABLES
    pc,       \* the await the supervisor task is suspended at
    outcome,  \* how the session ends: "retry", "auth" or "cancel"
    cur,      \* current_bootstrap: boot id and registry read over REST
    sock,     \* is the client's WebSocket open?
    sreg,     \* the stream's registry
    target,   \* the generation a registry read must have
    begun,    \* the generation of SNAPSHOT_BEGIN
    snap      \* the snapshot's telemetry so far

streamvars == <<pc, outcome, cur, sock, sreg, target, begun, snap>>

NoRegistry == [generation |-> 0, nodes |-> {}]
NoBootstrap == [boot |-> 0, registry |-> NoRegistry]

Event == [node : Node, seq : SeqNum, at : Nat, payload : Uid]

Opening == {"hello", "reconcile", "begin", "snapshot"}
Serving == {"live", "refresh", "yield"}
Awaits  == Opening \cup Serving
             \cup {"idle", "info", "nodes", "connect", "abort", "close", "backoff", "done"}

StreamTypeOK ==
    /\ pc \in Awaits
    /\ outcome \in {"retry", "auth", "cancel"}
    /\ cur \in [boot : Nat, registry : Registry]
    /\ sock \in BOOLEAN
    /\ sreg \in Registry
    /\ target \in Nat /\ begun \in Nat
    /\ snap \subseteq Event

StreamInit ==
    /\ pc = "idle" /\ outcome = "retry"
    /\ cur = [boot |-> boot, registry |-> reg]
    /\ sock = FALSE
    /\ sreg = NoRegistry /\ target = 0 /\ begun = 0 /\ snap = {}

----------------------------------------------------------------------------
\* websocket.receive(): the oldest message is taken off the channel.
Incoming == Head(chan)

Receive ==
    /\ chan # <<>>
    /\ chan' = Tail(chan)
    /\ UNCHANGED <<reg, boot, last, clock, seq, sess, pend, due, revoked, faults>>

\* The active node a telemetry message names, if the message's profile is the
\* registered one and the manifest knows it (_decode_telemetry).
Decodes(m, n) ==
    /\ n.id = m.id /\ n.active
    /\ n.profile = m.profile
    /\ m.profile \in Supported

EventOf(m, n) == [node |-> n, seq |-> m.seq, at |-> m.at, payload |-> m.payload]

TelemetryEvents(m) ==
    IF m.kind = "telemetry" THEN {EventOf(m, n) : n \in {k \in sreg.nodes : Decodes(m, k)}}
    ELSE {}

\* GET /api/nodes: the registry of one moment, a refused token, or no answer.
NodesRead == ~revoked /\ UNCHANGED gwvars

NodesRefused == revoked /\ UNCHANGED gwvars

RequestFails == Fault /\ UNCHANGED <<reg, boot, last, clock, seq, sess, pend, due, chan, revoked>>

\* async_open_stream: any exception first closes the socket, then propagates.
Raise(how) ==
    /\ pc' = "abort" /\ outcome' = how
    /\ target' = 0 /\ begun' = 0 /\ snap' = {}
    /\ UNCHANGED <<cur, sock, sreg>>

----------------------------------------------------------------------------
\* async_read_snapshot, await by await.

AnyHello(m) == m.kind = "hello"    \* mutant: the boot id is not compared
HelloValid(m) == m.kind = "hello" /\ m.boot = cur.boot

\* HELLO must be first and name the boot read over REST.  A generation other
\* than the one read over REST has the registry read again.
ReceiveHello ==
    /\ pc = "hello"
    /\ Receive
    /\ \/ /\ ~HelloValid(Incoming)
          /\ Raise("retry")
       \/ /\ HelloValid(Incoming)
          /\ IF Incoming.generation = sreg.generation
             THEN pc' = "begin" /\ target' = target
             ELSE pc' = "reconcile" /\ target' = Incoming.generation
          /\ UNCHANGED <<outcome, cur, sock, sreg, begun, snap>>

Reconcile ==
    /\ pc = "reconcile"
    /\ \/ /\ NodesRead
          /\ IF reg.generation = target
             THEN /\ sreg' = reg /\ pc' = "begin" /\ target' = 0
                  /\ UNCHANGED <<outcome, cur, sock, begun, snap>>
             ELSE Raise("retry")
       \/ NodesRefused /\ Raise("auth")
       \/ RequestFails /\ Raise("retry")

AnyBegin(m) == m.kind = "begin"    \* mutant: the generation is not compared
BeginValid(m) == m.kind = "begin" /\ m.generation = sreg.generation

\* Messages of unknown kinds are skipped from here on.
ReceiveBegin ==
    /\ pc = "begin"
    /\ Receive
    /\ \/ Incoming.kind = "unknown" /\ UNCHANGED streamvars
       \/ /\ Incoming.kind # "unknown" /\ ~BeginValid(Incoming)
          /\ Raise("retry")
       \/ /\ BeginValid(Incoming)
          /\ pc' = "snapshot" /\ begun' = Incoming.generation
          /\ UNCHANGED <<outcome, cur, sock, sreg, target, snap>>

\* Telemetry of a node the snapshot does not hold yet.
RecordValid(m) ==
    /\ TelemetryEvents(m) # {}
    /\ \A e \in snap : e.node.id # m.id

AnyEnd(m) == m.kind = "end"    \* mutant: the generation is not compared
EndValid(m) == m.kind = "end" /\ m.generation = begun

ReceiveRecord ==
    /\ pc = "snapshot"
    /\ Receive
    /\ \/ Incoming.kind = "unknown" /\ UNCHANGED streamvars
       \/ /\ RecordValid(Incoming)
          /\ snap' = snap \cup TelemetryEvents(Incoming)
          /\ UNCHANGED <<pc, outcome, cur, sock, sreg, target, begun>>
       \/ /\ Incoming.kind # "unknown" /\ ~RecordValid(Incoming) /\ ~EndValid(Incoming)
          /\ Raise("retry")

\* SNAPSHOT_END: async_read_snapshot and async_open_stream return, and the
\* supervisor goes on in the same step (GatewayRuntime, OpenStream).
ReceiveEnd ==
    /\ pc = "snapshot"
    /\ Receive
    /\ EndValid(Incoming)
=============================================================================
