------------------------- MODULE GatewayRuntimeSafety -------------------------
(***************************************************************************)
(* What holds of GatewayRuntime for every set of devices, ids, profiles    *)
(* and tables, every modulus and every bound: its types, the safety of the *)
(* supervisor (sockets, counters, refused tokens and stops: ControlInv),   *)
(* what the view holds (ViewInv) and which boot serves it (BootInv).       *)
(***************************************************************************)
EXTENDS GatewayRuntime, SequenceTheorems, TLAPS

----------------------------------------------------------------------------
\* Types.

\* Every message put on the channel, and every message left on it when a
\* session breaks, is a message.
LEMMA ChannelTypes ==
    ASSUME chan \in Seq(Message)
    PROVE  /\ \A m \in Message : Append(chan, m) \in Seq(Message)
           /\ \A k \in 0 .. Len(chan) : Append(SubSeq(chan, 1, k), Closed) \in Seq(Message)
           /\ chan # <<>> => Head(chan) \in Message /\ Tail(chan) \in Seq(Message)
           /\ <<Closed>> \in Seq(Message) /\ <<>> \in Seq(Message)
<1>1. Closed \in Message
  BY DEF Closed, Message
<1>2. ASSUME NEW k \in 0 .. Len(chan)
      PROVE  Append(SubSeq(chan, 1, k), Closed) \in Seq(Message)
  <2>1. SubSeq(chan, 1, k) \in Seq(Message)
    BY SubSeqProperties
  <2> QED
    BY <1>1, <2>1
<1> QED
  BY <1>1, <1>2

LEMMA SequenceNumbers ==
    /\ 0 \in SeqNum /\ SeqMod - 1 \in SeqNum
    /\ \A s \in SeqNum : (s + 1) % SeqMod \in SeqNum
  BY SeqModAssumption DEF SeqNum

LEMMA BrokenSessionTypes ==
    ASSUME chan \in Seq(Message), BreakSession
    PROVE  /\ chan' \in Seq(Message)
           /\ sess' = "none" /\ pend' = {} /\ due' = {}
<1>1. CASE sess = "none"
  BY <1>1 DEF BreakSession
<1>2. CASE sess # "none"
  BY <1>2, ChannelTypes DEF BreakSession
<1> QED
  BY <1>1, <1>2

\* The gateway's own steps keep its state well typed.
LEMMA GatewayTypes == GatewayTypeOK /\ GatewayNext => GatewayTypeOK'
<1> SUFFICES ASSUME GatewayTypeOK, GatewayNext PROVE GatewayTypeOK'
  OBVIOUS
<1> USE ChannelTypes, SequenceNumbers, TablesAssumption DEF GatewayTypeOK
<1>1. ASSUME NEW t \in Tables, Edit(t) PROVE GatewayTypeOK'
  <2>1. RegistryChanged(reg.generation + 1) \in Message
    BY DEF RegistryChanged, Message, Registry
  <2>2. reg' \in Registry
    BY <1>1 DEF Edit, Registry
  <2> QED
    BY <1>1, <2>1, <2>2 DEF Edit, Kept, Send
<1>2. ASSUME NEW n \in reg.nodes, Report(n) PROVE GatewayTypeOK'
  <2>1. [uid |-> n.uid, profile |-> n.profile, seq |-> seq, at |-> clock + 1] \in Reading
    BY DEF Registry, Node, Reading
  <2> QED
    BY <1>2, <2>1 DEF Report
<1>3. CASE SendHello
  <2>1. Hello(boot, reg.generation) \in Message
    BY DEF Hello, Message, Registry
  <2> QED
    BY <1>3, <2>1 DEF SendHello, Send
<1>4. CASE SendBegin
  <2>1. Begin(reg.generation) \in Message
    BY DEF Begin, Message, Registry
  <2> QED
    BY <1>4, <2>1 DEF SendBegin, Send, Reading
<1>5. ASSUME NEW r \in Reading, NEW n \in reg.nodes PROVE Telemetry(n.id, r) \in Message
  BY DEF Telemetry, Message, Registry, Node, Reading
<1>6. ASSUME NEW r \in last, SendRecord(r) PROVE GatewayTypeOK'
  BY <1>5, <1>6 DEF SendRecord, Send
<1>7. CASE SendEnd
  <2>1. End(reg.generation) \in Message
    BY DEF End, Message, Registry
  <2> QED
    BY <1>7, <2>1 DEF SendEnd, Send
<1>8. ASSUME NEW r \in due, SendLive(r) PROVE GatewayTypeOK'
  BY <1>5, <1>8 DEF SendLive, Send
<1>9. CASE Reboot
  BY <1>9, BrokenSessionTypes DEF Reboot
<1>10. CASE LinkLost
  BY <1>10, BrokenSessionTypes DEF LinkLost, Fault
<1>11. CASE Noise
  <2>1. Unknown \in Message /\ Bad \in Message
    BY DEF Unknown, Bad, Message
  <2> QED
    BY <1>11, <2>1 DEF Noise, Send, Fault
<1>12. CASE Revoke
  BY <1>12 DEF Revoke
<1> QED
  BY <1>1, <1>2, <1>3, <1>4, <1>6, <1>7, <1>8, <1>9, <1>10, <1>11, <1>12 DEF GatewayNext

----------------------------------------------------------------------------
LEMMA Defaults ==
    /\ NoRegistry \in Registry
    /\ NoBootstrap \in [boot : Nat, registry : Registry]
BY DEF NoRegistry, NoBootstrap, Registry, WellFormed

\* What is received is a message; its telemetry decodes to events; a
\* generation it announces is a number.
LEMMA Received ==
    ASSUME TypeOK, Receive
    PROVE  /\ GatewayTypeOK'
           /\ Incoming \in Message
           /\ TelemetryEvents(Incoming) \subseteq Event
           /\ Incoming.kind \in {"hello", "begin", "end", "registry_changed"} =>
                Incoming.generation \in Nat
<1>1. GatewayTypeOK' /\ Incoming \in Message
  BY ChannelTypes DEF TypeOK, GatewayTypeOK, Receive, Incoming
<1>2. Incoming.kind \in {"hello", "begin", "end", "registry_changed"} =>
        Incoming.generation \in Nat
  BY <1>1 DEF Message
<1>3. ASSUME NEW n \in sreg.nodes, Incoming.kind = "telemetry"
      PROVE  EventOf(Incoming, n) \in Event
  <2>1. n \in Node
    BY DEF TypeOK, StreamTypeOK, Registry
  <2>2. Incoming.seq \in SeqNum /\ Incoming.at \in Nat /\ Incoming.payload \in Uid
    BY <1>1, <1>3 DEF Message
  <2> QED
    BY <2>1, <2>2 DEF EventOf, Event
<1> QED
  BY <1>1, <1>2, <1>3 DEF TelemetryEvents

LEMMA NotifyTypes ==
    ASSUME registry' \in Registry, latest' \subseteq Event, connected' \in BOOLEAN, Notify
    PROVE  shown' \in View
BY DEF Notify, View

\* Sessions opened, closed and answered leave the gateway well typed.
LEMMA CallTypes ==
    ASSUME GatewayTypeOK
    PROVE  /\ RequestFails => GatewayTypeOK'
           /\ UNCHANGED gwvars => GatewayTypeOK'
           /\ NodesRead \/ NodesRefused => GatewayTypeOK'
           /\ (OpenSession \/ CloseSession)
                /\ UNCHANGED <<reg, boot, last, clock, seq, revoked, faults>> => GatewayTypeOK'
<1>1. RequestFails => GatewayTypeOK'
  BY DEF GatewayTypeOK, RequestFails, Fault
<1>2. UNCHANGED gwvars => GatewayTypeOK'
  BY DEF GatewayTypeOK, gwvars
<1>3. NodesRead \/ NodesRefused => GatewayTypeOK'
  BY <1>2 DEF NodesRead, NodesRefused
<1>4. ASSUME OpenSession \/ CloseSession,
             UNCHANGED <<reg, boot, last, clock, seq, revoked, faults>>
      PROVE  GatewayTypeOK'
  <2>1. chan' \in Seq(Message)
    BY <1>4, ChannelTypes DEF GatewayTypeOK, OpenSession, CloseSession
  <2> QED
    BY <1>4, <2>1 DEF GatewayTypeOK, OpenSession, CloseSession
<1> QED
  BY <1>1, <1>2, <1>3, <1>4

LEMMA StreamStepTypes == TypeOK /\ StreamStep => TypeOK'
<1> SUFFICES ASSUME TypeOK, StreamStep PROVE TypeOK'
  OBVIOUS
<1> USE DEF TypeOK, StreamTypeOK, Awaits, Opening, Serving
<1>1. UNCHANGED runvars
  BY DEF StreamStep
<1>2. CASE ReceiveHello
  BY <1>1, <1>2, Received
     DEF ReceiveHello, HelloValid, Raise, runvars, viewvars, controlvars
<1>3. CASE Reconcile
  <2>1. reg \in Registry
    BY DEF GatewayTypeOK
  <2> QED
    BY <1>1, <1>3, <2>1, CallTypes DEF Reconcile, Raise, runvars, viewvars, controlvars
<1>4. CASE ReceiveBegin
  BY <1>1, <1>4, Received
     DEF ReceiveBegin, BeginValid, Raise, streamvars, runvars, viewvars, controlvars
<1>5. CASE ReceiveRecord
  BY <1>1, <1>5, Received
     DEF ReceiveRecord, RecordValid, Raise, streamvars, runvars, viewvars, controlvars
<1> QED
  BY <1>2, <1>3, <1>4, <1>5 DEF StreamStep

LEMMA LiveTypes == TypeOK /\ (ReceiveLive \/ Refresh) => TypeOK'
<1> SUFFICES ASSUME TypeOK, ReceiveLive \/ Refresh PROVE TypeOK'
  OBVIOUS
<1> USE DEF TypeOK, StreamTypeOK, Awaits, Opening, Serving
<1>1. CASE ReceiveLive
  <2> USE <1>1, Received DEF ReceiveLive, controlvars
  <2>1. CASE Incoming.kind = "unknown" /\ UNCHANGED <<streamvars, viewvars>>
    BY <2>1 DEF streamvars, viewvars
  <2>2. CASE /\ \E e \in TelemetryEvents(Incoming) : ApplyTelemetry(e)
             /\ pc' = "yield"
             /\ UNCHANGED <<outcome, cur, sock, sreg, target, begun, snap>>
    BY <2>2, NotifyTypes DEF ApplyTelemetry, Stored
  <2>3. CASE /\ Incoming.kind = "registry_changed"
             /\ pc' = "refresh" /\ target' = Incoming.generation
             /\ UNCHANGED <<outcome, cur, sock, sreg, begun, snap, viewvars>>
    BY <2>3 DEF viewvars
  <2>4. CASE EndSession("retry") /\ UNCHANGED viewvars
    BY <2>4 DEF EndSession, viewvars
  <2> QED
    BY <2>1, <2>2, <2>3, <2>4
<1>2. CASE Refresh
  <2>1. reg \in Registry
    BY DEF GatewayTypeOK
  <2> QED
    BY <1>2, <2>1, CallTypes, NotifyTypes
       DEF Refresh, ApplyRegistry, Retained, EndSession, viewvars
<1> QED
  BY <1>1, <1>2

LEMMA TaskTypes == TypeOK /\ TaskStep => TypeOK'
<1> SUFFICES ASSUME TypeOK, TaskStep PROVE TypeOK'
  OBVIOUS
<1> USE CallTypes, Defaults, RuntimeAssumption
    DEF TypeOK, StreamTypeOK, Awaits, Opening, Serving, Unless, runvars, viewvars, controlvars
<1>1. CASE FetchInfo
  <2>1. boot \in Nat
    BY DEF GatewayTypeOK
  <2> QED
    BY <1>1, <2>1 DEF FetchInfo
<1>2. CASE FetchNodes
  <2>1. reg \in Registry
    BY DEF GatewayTypeOK
  <2> QED
    BY <1>2, <2>1 DEF FetchNodes, Reported
<1>3. CASE Connect
  <2>1. GatewayTypeOK'
    BY <1>3 DEF Connect
  <2>2. StreamTypeOK'
    BY <1>3 DEF Connect
  <2> QED
    BY <1>3, <2>1, <2>2 DEF Connect
<1>4. CASE StreamStep
  BY <1>4, StreamStepTypes
<1>5. CASE OpenStream
  BY <1>5, Received, NotifyTypes DEF OpenStream, ReceiveEnd
<1>6. CASE AbortDone
  <2>1. GatewayTypeOK'
    BY <1>6 DEF AbortDone, CloseSocket
  <2>2. StreamTypeOK'
    BY <1>6 DEF AbortDone, CloseSocket, AfterSession
  <2> QED
    BY <1>6, <2>1, <2>2 DEF AbortDone, CloseSocket, AfterSession
<1>7. CASE ReceiveLive \/ Refresh
  BY <1>7, LiveTypes
<1>8. CASE Yield
  BY <1>8 DEF Yield
<1>9. CASE CloseDone
  <2>1. GatewayTypeOK'
    BY <1>9 DEF CloseDone
  <2>2. shown' \in View
    BY <1>9, NotifyTypes DEF CloseDone
  <2>3. StreamTypeOK'
    BY <1>9 DEF CloseDone, AfterSession
  <2>4. reconnects' \in Nat
    BY <1>9 DEF CloseDone, Reconnecting
  <2> HIDE DEF StreamTypeOK
  <2> QED
    BY <1>9, <2>1, <2>2, <2>3, <2>4 DEF CloseDone
<1>10. CASE BackoffDone
  BY <1>10 DEF BackoffDone, NextDelay
<1> QED
  BY <1>1, <1>2, <1>3, <1>4, <1>5, <1>6, <1>7, <1>8, <1>9, <1>10 DEF TaskStep

LEMMA HomeAssistantTypes == TypeOK /\ (Start \/ Stop \/ StopClosed \/ Cancel) => TypeOK'
<1> SUFFICES ASSUME TypeOK, Start \/ Stop \/ StopClosed \/ Cancel PROVE TypeOK'
  OBVIOUS
<1> USE CallTypes, Defaults
    DEF TypeOK, StreamTypeOK, Awaits, Opening, Serving, runvars, viewvars, streamvars
<1>1. CASE Start
  BY <1>1 DEF Start, Unless, controlvars
<1>2. CASE Stop
  BY <1>2 DEF Stop, Stopped
<1>3. CASE StopClosed
  <2>1. chan' \in Seq(Message)
    BY <1>3, ChannelTypes DEF StopClosed, GatewayTypeOK
  <2>2. GatewayTypeOK'
    BY <1>3, <2>1 DEF StopClosed, GatewayTypeOK
  <2> QED
    BY <1>3, <2>2 DEF StopClosed
<1>4. CASE Cancel
  <2>1. GatewayTypeOK'
    BY <1>4 DEF Cancel
  <2>2. CASE pc \in Opening
    BY <1>4, <2>2 DEF Cancel, Raise
  <2>3. CASE pc \in Serving
    BY <1>4, <2>3 DEF Cancel, EndSession
  <2>4. CASE pc \in {"idle", "info", "nodes", "connect", "backoff"}
    BY <1>4, <2>4 DEF Cancel
  <2>5. CASE pc \in {"abort", "close"}
    BY <1>4, <2>1, <2>5 DEF Cancel
  <2> QED
    BY <1>4, <2>2, <2>3, <2>4, <2>5 DEF Cancel
<1> QED
  BY <1>1, <1>2, <1>3, <1>4

LEMMA InitialTypes == Init => TypeOK
<1> SUFFICES ASSUME Init PROVE TypeOK
  OBVIOUS
<1>1. GatewayTypeOK
  <2>1. PICK t \in Tables : reg = [generation |-> 1, nodes |-> t]
    BY DEF Init, GatewayInit
  <2>2. reg \in Registry
    BY <2>1, TablesAssumption DEF Registry
  <2>3. seq \in SeqNum
    BY SequenceNumbers DEF Init, GatewayInit
  <2>4. chan \in Seq(Message)
    BY DEF Init, GatewayInit
  <2> QED
    BY <2>2, <2>3, <2>4 DEF Init, GatewayInit, GatewayTypeOK
<1>2. StreamTypeOK
  BY <1>1, Defaults DEF Init, StreamInit, StreamTypeOK, Awaits, Opening, Serving, GatewayTypeOK
<1>3. /\ shown \in View /\ registry \in Registry /\ bootstrap \in Nat
      /\ delay \in 1 .. MaxDelay
  BY <1>1, RuntimeAssumption DEF Init, GatewayTypeOK, View
<1> QED
  BY <1>1, <1>2, <1>3 DEF Init, TypeOK

LEMMA StepTypes == TypeOK /\ [Next]_vars => TypeOK'
<1> SUFFICES ASSUME TypeOK, [Next]_vars PROVE TypeOK'
  OBVIOUS
<1>1. CASE GatewayStep
  BY <1>1, GatewayTypes
     DEF GatewayStep, TypeOK, StreamTypeOK, streamvars, runvars, viewvars, controlvars
<1>2. CASE UNCHANGED vars
  BY <1>2 DEF vars, gwvars, streamvars, runvars, viewvars, controlvars,
              TypeOK, GatewayTypeOK, StreamTypeOK
<1> QED
  BY <1>1, <1>2, TaskTypes, HomeAssistantTypes DEF Next

\* Every variable keeps its type, whatever the gateway, the link and Home
\* Assistant do.
THEOREM TypeCorrect == Spec => []TypeOK
BY InitialTypes, StepTypes, PTL DEF Spec

----------------------------------------------------------------------------
\* The supervisor.
\* A stream is set, and the runtime connected, exactly from the opened
\* snapshot to the end of the close; only a cancelled close leaves them set.
ControlInv ==
    /\ pc \in Serving \cup {"close"} => stream /\ connected
    /\ pc \notin Serving \cup {"close", "done"} => ~stream /\ ~connected
    /\ stop # "no" => stopping
    /\ NoLeakedSocket
    /\ ~stopping => SessionsCounted
    /\ AuthHalts
    /\ StopClosesStream

LEMMA ControlInitially == Init => ControlInv
<1> SUFFICES ASSUME Init PROVE ControlInv
  OBVIOUS
<1>1. /\ pc = "idle" /\ sess = "none" /\ ~sock /\ stop = "no" /\ ~stream /\ ~connected
      /\ reauths = 0 /\ reconnects = 0 /\ opened = 0
  BY DEF Init, GatewayInit, StreamInit
<1>2. SessionsCounted
  BY <1>1 DEF SessionsCounted
<1>3. AuthHalts
  BY <1>1 DEF AuthHalts
<1> QED
  BY <1>1, <1>2, <1>3 DEF ControlInv, Serving, NoLeakedSocket, StopClosesStream

\* The gateway only ever ends a session; it never begins one.
LEMMA GatewayControl == ControlInv /\ GatewayStep => ControlInv'
<1> SUFFICES ASSUME ControlInv, GatewayStep PROVE ControlInv'
  OBVIOUS
<1>1. sess = "none" => sess' = "none"
  BY DEF GatewayStep, GatewayNext, Edit, Report, SendHello, SendBegin, SendRecord, SendEnd,
         SendLive, Reboot, LinkLost, Noise, Revoke, BreakSession
<1> QED
  BY <1>1 DEF GatewayStep, streamvars, runvars, viewvars, controlvars, ControlInv,
              NoLeakedSocket, SessionsCounted, AuthHalts, StopClosesStream

LEMMA TaskControl == TypeOK /\ ControlInv /\ TaskStep => ControlInv'
<1> SUFFICES ASSUME TypeOK, ControlInv, TaskStep PROVE ControlInv'
  OBVIOUS
<1> USE DEF ControlInv, Serving, Opening, NoLeakedSocket, SessionsCounted, AuthHalts,
            StopClosesStream, Unless, runvars, viewvars, controlvars
<1>0. reauths \in Nat /\ reconnects \in Nat /\ opened \in Nat /\ connected \in BOOLEAN
  BY DEF TypeOK
<1>1. CASE FetchInfo
  BY <1>1 DEF FetchInfo, gwvars, RequestFails
<1>2. CASE FetchNodes
  BY <1>0, <1>2 DEF FetchNodes, Reported, NodesRead, NodesRefused, gwvars, RequestFails
<1>3. CASE Connect
  BY <1>0, <1>3 DEF Connect, NodesRefused, gwvars, RequestFails
<1>4. CASE StreamStep
  BY <1>4 DEF StreamStep, ReceiveHello, Reconcile, ReceiveBegin, ReceiveRecord, Raise, streamvars
<1>5. CASE OpenStream
  BY <1>0, <1>5 DEF OpenStream, ReceiveEnd
<1>6. CASE AbortDone
  BY <1>0, <1>6 DEF AbortDone, CloseSocket, CloseSession, AfterSession
<1>7. CASE ReceiveLive
  <2>1. /\ UNCHANGED <<sock, sess>> /\ UNCHANGED controlvars
        /\ UNCHANGED connected
    BY <1>7 DEF ReceiveLive, Receive, ApplyTelemetry, EndSession, streamvars
  <2>2. /\ pc = "live" /\ pc' \in {"live", "yield", "refresh", "close"}
    BY <1>7 DEF ReceiveLive, EndSession, streamvars
  <2> QED
    BY <2>1, <2>2
<1>8. CASE Refresh
  <2>1. UNCHANGED <<sock, connected, stream, stopping, stop, reconnects, opened>>
    BY <1>8 DEF Refresh, ApplyRegistry, EndSession
  <2>2. /\ pc = "refresh"
        /\ \/ pc' \in {"yield", "close"} /\ reauths' = reauths
           \/ pc' = "close" /\ outcome' = "auth" /\ reauths' = reauths + 1
    BY <1>8 DEF Refresh, EndSession
  <2> QED
    BY <1>0, <2>1, <2>2
<1>9. CASE Yield
  BY <1>9 DEF Yield
<1>10. CASE CloseDone
  BY <1>0, <1>10 DEF CloseDone, CloseSession, AfterSession, Reconnecting
<1>11. CASE BackoffDone
  BY <1>11 DEF BackoffDone, gwvars
<1> QED
  BY <1>1, <1>2, <1>3, <1>4, <1>5, <1>6, <1>7, <1>8, <1>9, <1>10, <1>11 DEF TaskStep

LEMMA HomeAssistantControl ==
    TypeOK /\ ControlInv /\ (Start \/ Stop \/ StopClosed \/ Cancel) => ControlInv'
<1> SUFFICES ASSUME TypeOK, ControlInv, Start \/ Stop \/ StopClosed \/ Cancel
             PROVE  ControlInv'
  OBVIOUS
<1> USE DEF ControlInv, Serving, Opening, NoLeakedSocket, SessionsCounted, AuthHalts,
            StopClosesStream, runvars, viewvars, controlvars
<1>1. CASE Start
  BY <1>1 DEF Start, Unless, gwvars
<1>2. CASE Stop
  BY <1>2 DEF Stop, Stopped, gwvars, streamvars
<1>3. CASE StopClosed
  BY <1>3 DEF StopClosed
<1>4. CASE Cancel
  <2>1. CASE pc \in Opening \cup Serving
    BY <1>4, <2>1 DEF Cancel, Raise, EndSession
  <2>2. CASE pc \in {"idle", "info", "nodes", "connect", "backoff"}
    BY <1>4, <2>2 DEF Cancel, gwvars
  <2>3. CASE pc \in {"abort", "close"}
    BY <1>4, <2>3 DEF Cancel, CloseSession
  <2> QED
    BY <1>4, <2>1, <2>2, <2>3 DEF Cancel
<1> QED
  BY <1>1, <1>2, <1>3, <1>4

THEOREM ControlInvariant == Spec => []ControlInv
<1>1. TypeOK /\ ControlInv /\ [Next]_vars => ControlInv'
  <2>1. ControlInv /\ UNCHANGED vars => ControlInv'
    BY DEF vars, gwvars, streamvars, runvars, viewvars, controlvars, ControlInv,
           NoLeakedSocket, SessionsCounted, AuthHalts, StopClosesStream
  <2> QED
    BY <2>1, GatewayControl, TaskControl, HomeAssistantControl DEF Next
<1> QED
  BY <1>1, ControlInitially, TypeCorrect, PTL DEF Spec

\* No task that is out of session holds a socket or a session at the gateway.
THEOREM NoLeak == Spec => []NoLeakedSocket
<1>1. ControlInv => NoLeakedSocket
  BY DEF ControlInv
<1> QED
  BY <1>1, ControlInvariant, PTL

\* The reconnect counter counts the lost sessions, and not those a stop ended.
THEOREM ReconnectAccounting == Spec => ReconnectsCounted
<1>1. ControlInv' => stopping' \/ SessionsCounted'
  BY DEF ControlInv
<1>2. ControlInv /\ stopping /\ [Next]_vars => UNCHANGED reconnects
  BY DEF Next, GatewayStep, Start, TaskStep, StreamStep, FetchInfo, FetchNodes, Reported, Connect,
         OpenStream, AbortDone, ReceiveLive, Refresh, Yield, CloseDone, Reconnecting, BackoffDone,
         Stop, StopClosed, Cancel, vars, runvars, controlvars
<1>3. ControlInv /\ ControlInv' /\ [Next]_vars => [Counted]_vars
  BY <1>1, <1>2 DEF Counted
<1> QED
  BY <1>3, ControlInvariant, PTL DEF Spec, ReconnectsCounted

\* A refused token is reported once and ends the supervisor.
THEOREM AuthenticationHalts == Spec => []AuthHalts
<1>1. ControlInv => AuthHalts
  BY DEF ControlInv
<1> QED
  BY <1>1, ControlInvariant, PTL

\* A stop that has returned has closed the established session.
THEOREM StopCloses == Spec => []StopClosesStream
<1>1. ControlInv => StopClosesStream
  BY DEF ControlInv
<1> QED
  BY <1>1, ControlInvariant, PTL

\* Only a session that got through its snapshot resets the back-off.
THEOREM BackoffDiscipline == Spec => BackoffResets
<1>1. TypeOK /\ [Next]_vars => [delay' < delay => connected']_vars
  <2> SUFFICES ASSUME TypeOK, Next, delay' < delay PROVE connected'
    OBVIOUS
  <2>1. delay \in 1 .. MaxDelay /\ MaxDelay \in Nat
    BY RuntimeAssumption DEF TypeOK
  <2>2. CASE OpenStream
    BY <2>2 DEF OpenStream
  <2>3. CASE BackoffDone
    BY <2>1, <2>3 DEF BackoffDone, NextDelay
  <2>4. delay' = delay \/ OpenStream \/ BackoffDone
    BY DEF Next, GatewayStep, Start, TaskStep, StreamStep, FetchInfo, FetchNodes, Reported, Connect,
           AbortDone, ReceiveLive, Refresh, Yield, CloseDone, Stop, StopClosed, Cancel,
           runvars, controlvars
  <2> QED
    BY <2>1, <2>2, <2>3, <2>4
<1> QED
  BY <1>1, TypeCorrect, PTL DEF Spec, BackoffResets

----------------------------------------------------------------------------
\* latest models a dict: one event for each device.
OneEventPerDevice == \A d, e \in latest : d.node.uid = e.node.uid => d = e

\* The snapshot is read against the stream's registry, one record for each
\* device; the view follows that registry for as long as the stream serves.
ViewInv ==
    /\ pc # "snapshot" => snap = {}
    /\ \A e \in snap : e.node \in sreg.nodes
    /\ \A d, e \in snap : d.node.id = e.node.id => d = e
    /\ pc \in Serving => registry = sreg
    /\ LatestMatchesRegistry
    /\ OneEventPerDevice
    /\ ListenersUpToDate

\* A message decodes to one event at most, of a node of the registry.
LEMMA DecodedNode ==
    ASSUME TypeOK, NEW m, NEW e \in TelemetryEvents(m)
    PROVE  /\ e.node \in sreg.nodes /\ e.node.id = m.id
           /\ \A d \in TelemetryEvents(m) : d = e
<1>1. WellFormed(sreg.nodes)
  BY DEF TypeOK, StreamTypeOK, Registry
<1>2. ASSUME NEW d \in TelemetryEvents(m)
      PROVE  \E n \in sreg.nodes : Decodes(m, n) /\ d = EventOf(m, n) /\ d.node = n
  BY <1>2 DEF TelemetryEvents, EventOf
<1> QED
  BY <1>1, <1>2 DEF Decodes, WellFormed

LEMMA ViewUnchanged ==
    ASSUME ViewInv, UNCHANGED viewvars, UNCHANGED sreg,
           snap' = snap \/ snap' = {}, pc' # "snapshot" => snap' = {},
           pc' \in Serving => pc \in Serving
    PROVE  ViewInv'
BY DEF ViewInv, viewvars, LatestMatchesRegistry, OneEventPerDevice, ListenersUpToDate

LEMMA ViewOutOfSession ==
    ASSUME ViewInv, UNCHANGED <<registry, latest>>, ListenersUpToDate',
           snap' = {}, pc' \notin Serving
    PROVE  ViewInv'
BY DEF ViewInv, LatestMatchesRegistry, OneEventPerDevice

LEMMA ReceivedRecordView == TypeOK /\ ViewInv /\ ReceiveRecord /\ UNCHANGED runvars => ViewInv'
<1> SUFFICES ASSUME TypeOK, ViewInv, ReceiveRecord, UNCHANGED runvars PROVE ViewInv'
  OBVIOUS
<1>1. CASE RecordValid(Incoming) /\ pc' = pc /\ snap' = snap \cup TelemetryEvents(Incoming)
                                /\ sreg' = sreg
  <2>1. \A e \in snap' : e.node \in sreg'.nodes
    BY <1>1, DecodedNode DEF ViewInv
  <2>2. ASSUME NEW d \in snap', NEW e \in snap', d.node.id = e.node.id PROVE d = e
    BY <1>1, <2>2, DecodedNode DEF ViewInv, RecordValid
  <2>3. UNCHANGED viewvars /\ pc = "snapshot" /\ pc' \notin Serving
    BY <1>1 DEF runvars, ReceiveRecord, Serving
  <2> QED
    BY <1>1, <2>1, <2>2, <2>3
       DEF ViewInv, viewvars, LatestMatchesRegistry, OneEventPerDevice, ListenersUpToDate
<1>2. CASE UNCHANGED streamvars \/ Raise("retry")
  BY <1>2, ViewUnchanged DEF streamvars, Raise, runvars, Serving, ViewInv
<1> QED
  BY <1>1, <1>2 DEF ReceiveRecord

\* A complete snapshot becomes the view.
LEMMA OpenedView == TypeOK /\ ViewInv /\ OpenStream => ViewInv'
<1> SUFFICES ASSUME TypeOK, ViewInv, OpenStream PROVE ViewInv'
  OBVIOUS
<1>1. /\ registry' = sreg /\ sreg' = sreg /\ latest' = snap /\ snap' = {}
      /\ pc' # "snapshot"
  BY DEF OpenStream
<1>2. LatestMatchesRegistry'
  BY <1>1 DEF ViewInv, LatestMatchesRegistry
<1>3. WellFormed(sreg.nodes)
  BY DEF TypeOK, StreamTypeOK, Registry
<1>4. OneEventPerDevice'
  BY <1>1, <1>3 DEF ViewInv, OneEventPerDevice, WellFormed
<1> QED
  BY <1>1, <1>2, <1>4 DEF ViewInv, OpenStream, Notify, ListenersUpToDate

LEMMA LiveView == TypeOK /\ ViewInv /\ ReceiveLive => ViewInv'
<1> SUFFICES ASSUME TypeOK, ViewInv, ReceiveLive PROVE ViewInv'
  OBVIOUS
<1>1. ASSUME NEW e \in TelemetryEvents(Incoming), ApplyTelemetry(e), pc' = "yield",
             UNCHANGED <<sreg, snap>>
      PROVE  ViewInv'
  <2>1. pc = "live" /\ snap = {} /\ registry = sreg
    BY DEF ReceiveLive, ViewInv, Serving
  <2>2. e.node \in registry.nodes
    BY <2>1, DecodedNode
  <2>3. LatestMatchesRegistry'
    BY <1>1, <2>2 DEF ViewInv, LatestMatchesRegistry, ApplyTelemetry, Stored
  <2>4. OneEventPerDevice'
    BY <1>1 DEF ViewInv, OneEventPerDevice, ApplyTelemetry, Stored
  <2>5. ListenersUpToDate'
    BY <1>1 DEF ViewInv, ListenersUpToDate, ApplyTelemetry, Notify
  <2> QED
    BY <1>1, <2>1, <2>3, <2>4, <2>5 DEF ViewInv, ApplyTelemetry
<1>2. CASE UNCHANGED viewvars
  BY <1>2, ViewUnchanged DEF ReceiveLive, EndSession, streamvars, Serving, ViewInv
<1> QED
  BY <1>1, <1>2 DEF ReceiveLive, viewvars

LEMMA RefreshedView == TypeOK /\ ViewInv /\ Refresh => ViewInv'
<1> SUFFICES ASSUME TypeOK, ViewInv, Refresh PROVE ViewInv'
  OBVIOUS
<1>1. CASE ApplyRegistry /\ sreg' = reg /\ pc' = "yield" /\ snap' = snap
  <2>1. LatestMatchesRegistry'
    BY <1>1 DEF LatestMatchesRegistry, ApplyRegistry, Retained
  <2>2. OneEventPerDevice'
    BY <1>1 DEF ViewInv, OneEventPerDevice, ApplyRegistry, Retained
  <2>3. ListenersUpToDate'
    BY <1>1 DEF ListenersUpToDate, ApplyRegistry, Notify
  <2> QED
    BY <1>1, <2>1, <2>2, <2>3 DEF ViewInv, Refresh, ApplyRegistry
<1>2. CASE UNCHANGED viewvars /\ (EndSession("retry") \/ EndSession("auth"))
  BY <1>2, ViewUnchanged DEF Refresh, EndSession, Serving, ViewInv
<1> QED
  BY <1>1, <1>2 DEF Refresh

LEMMA ViewStep == TypeOK /\ ViewInv /\ [Next]_vars => ViewInv'
<1> SUFFICES ASSUME TypeOK, ViewInv, [Next]_vars PROVE ViewInv'
  OBVIOUS
<1>1. CASE UNCHANGED vars
  BY <1>1, ViewUnchanged DEF vars, streamvars, runvars, ViewInv
<1>2. CASE GatewayStep
  BY <1>2, ViewUnchanged DEF GatewayStep, streamvars, runvars, ViewInv
<1>3. CASE Start \/ FetchInfo \/ FetchNodes \/ BackoffDone
  BY <1>3, ViewUnchanged
     DEF Start, FetchInfo, FetchNodes, Reported, BackoffDone, Unless, runvars, Serving, ViewInv
<1>4. CASE Stop \/ StopClosed \/ Yield
  BY <1>4, ViewUnchanged
     DEF Stop, StopClosed, Yield, streamvars, runvars, Serving, ViewInv
<1>5. CASE StreamStep
  <2>1. CASE ReceiveHello \/ ReceiveBegin
    BY <1>5, <2>1, ViewUnchanged
       DEF StreamStep, ReceiveHello, ReceiveBegin, Raise, streamvars, runvars, Serving, ViewInv
  <2>2. CASE Reconcile
    <3>1. snap' = {} /\ pc' \notin Serving /\ UNCHANGED viewvars
      BY <1>5, <2>2 DEF StreamStep, Reconcile, Raise, runvars, Serving, ViewInv
    <3> QED
      BY <3>1, ViewOutOfSession DEF viewvars, ViewInv, ListenersUpToDate
  <2> QED
    BY <1>5, <2>1, <2>2, ReceivedRecordView DEF StreamStep
<1>6. CASE Connect \/ AbortDone
  <2>1. snap' = {} /\ pc' \notin Serving /\ UNCHANGED viewvars
    BY <1>6 DEF Connect, AbortDone, AfterSession, Unless, Serving, ViewInv
  <2> QED
    BY <2>1, ViewOutOfSession DEF viewvars, ViewInv, ListenersUpToDate
<1>7. CASE CloseDone
  <2>1. snap' = {} /\ pc' \notin Serving /\ UNCHANGED <<registry, latest>>
    BY <1>7 DEF CloseDone, AfterSession, Unless, Serving, ViewInv
  <2>2. ListenersUpToDate'
    BY <1>7 DEF CloseDone, Notify, ViewInv, ListenersUpToDate, TypeOK
  <2> QED
    BY <2>1, <2>2, ViewOutOfSession
<1>8. CASE Cancel
  <2>1. snap' = {} /\ pc' \notin Serving /\ UNCHANGED viewvars
    BY <1>8 DEF Cancel, Raise, EndSession, Serving, Opening, ViewInv
  <2> QED
    BY <2>1, ViewOutOfSession DEF viewvars, ViewInv, ListenersUpToDate
<1> QED
  BY <1>1, <1>2, <1>3, <1>4, <1>5, <1>6, <1>7, <1>8,
     OpenedView, LiveView, RefreshedView DEF Next, TaskStep

THEOREM ViewInvariant == Spec => []ViewInv
<1>1. Init => ViewInv
  BY DEF Init, StreamInit, ViewInv, Serving, LatestMatchesRegistry, OneEventPerDevice,
         ListenersUpToDate
<1> QED
  BY <1>1, ViewStep, TypeCorrect, PTL DEF Spec

\* Every event shown is of a device, and of a profile, of the registry shown.
THEOREM ViewMatchesRegistry == Spec => []LatestMatchesRegistry
<1>1. ViewInv => LatestMatchesRegistry
  BY DEF ViewInv
<1> QED
  BY <1>1, ViewInvariant, PTL

\* The listeners are never behind the view.
THEOREM ListenersSeeView == Spec => []ListenersUpToDate
<1>1. ViewInv => ListenersUpToDate
  BY DEF ViewInv
<1> QED
  BY <1>1, ViewInvariant, PTL

----------------------------------------------------------------------------
\* While the gateway serves a session every HELLO of it still in flight names
\* the current boot, and so does the bootstrap it was compared with.
HelloInFlight == \A i \in 1 .. Len(chan) : chan[i].kind = "hello" => chan[i].boot = boot

BootInv ==
    sess # "none" =>
        /\ HelloInFlight
        /\ pc \in {"reconcile", "begin", "snapshot"} => cur.boot = boot
        /\ pc \in Serving => bootstrap = boot

LEMMA GatewayBoot == TypeOK /\ BootInv /\ GatewayStep => BootInv'
<1> SUFFICES ASSUME TypeOK, BootInv, GatewayStep, sess' # "none" PROVE BootInv'
  BY DEF BootInv
<1>1. sess # "none" /\ boot' = boot
  BY DEF GatewayStep, GatewayNext, Edit, Report, SendHello, SendBegin, SendRecord, SendEnd,
         SendLive, Reboot, LinkLost, Noise, Revoke, BreakSession
<1>2. ASSUME NEW m \in Message, m.kind = "hello" => m.boot = boot, Send(m)
      PROVE  HelloInFlight'
  <2>1. chan \in Seq(Message) /\ chan' = Append(chan, m) /\ HelloInFlight
    BY <1>1, <1>2 DEF TypeOK, GatewayTypeOK, Send, BootInv
  <2>2. Len(chan') = Len(chan) + 1 /\ chan'[Len(chan) + 1] = m
        /\ \A i \in 1 .. Len(chan) : chan'[i] = chan[i]
    BY <2>1, AppendProperties
  <2> QED
    BY <1>1, <1>2, <2>1, <2>2, LenProperties DEF HelloInFlight
<1>3. HelloInFlight'
  <2>1. CASE UNCHANGED chan
    BY <1>1, <2>1 DEF BootInv, HelloInFlight
  <2>2. CASE SendHello
    <3>1. Hello(boot, reg.generation) \in Message
      BY DEF Hello, Message, TypeOK, GatewayTypeOK, Registry
    <3> QED
      BY <1>2, <2>2, <3>1 DEF SendHello, Hello
  <2>3. CASE \E m \in Message : m.kind # "hello" /\ Send(m)
    BY <1>2, <2>3
  <2>4. reg \in Registry /\ reg.generation \in Nat
    BY DEF TypeOK, GatewayTypeOK, Registry
  <2>5. ASSUME NEW t, Edit(t) PROVE UNCHANGED chan \/ Send(RegistryChanged(reg.generation + 1))
    BY <2>5 DEF Edit
  <2>6. ASSUME NEW r \in Reading, NEW n \in reg.nodes
        PROVE  Telemetry(n.id, r) \in Message /\ Telemetry(n.id, r).kind # "hello"
    BY <2>4 DEF Telemetry, Message, Registry, Node, Reading
  <2>7. /\ RegistryChanged(reg.generation + 1) \in Message
        /\ Begin(reg.generation) \in Message /\ End(reg.generation) \in Message
        /\ Unknown \in Message /\ Bad \in Message
        /\ RegistryChanged(reg.generation + 1).kind # "hello"
        /\ Begin(reg.generation).kind # "hello" /\ End(reg.generation).kind # "hello"
        /\ Unknown.kind # "hello" /\ Bad.kind # "hello"
    BY <2>4 DEF RegistryChanged, Begin, End, Unknown, Bad, Message
  <2>8. last \subseteq Reading /\ due \subseteq Reading
    BY DEF TypeOK, GatewayTypeOK
  <2>9. ASSUME NEW r \in last, SendRecord(r)
        PROVE  \E n \in reg.nodes : Send(Telemetry(n.id, r))
    BY <2>9 DEF SendRecord
  <2>10. ASSUME NEW r \in due, SendLive(r)
         PROVE  \E n \in reg.nodes : Send(Telemetry(n.id, r))
    BY <2>10 DEF SendLive
  <2>11. SendBegin => Send(Begin(reg.generation))
    BY DEF SendBegin
  <2>12. SendEnd => Send(End(reg.generation))
    BY DEF SendEnd
  <2>13. Noise => Send(Unknown) \/ Send(Bad)
    BY DEF Noise
  <2>14. ~Reboot /\ ~LinkLost
    BY <1>1 DEF Reboot, LinkLost, BreakSession
  <2>15. ASSUME NEW n, Report(n) PROVE UNCHANGED chan
    BY <2>15 DEF Report
  <2>16. Revoke => UNCHANGED chan
    BY DEF Revoke
  <2> QED
    BY <2>1, <2>2, <2>3, <2>5, <2>6, <2>7, <2>8, <2>9, <2>10, <2>11, <2>12, <2>13,
       <2>14, <2>15, <2>16 DEF GatewayStep, GatewayNext
<1> QED
  BY <1>1, <1>3 DEF BootInv, GatewayStep, streamvars, runvars, viewvars

LEMMA ReceivedBoot ==
    ASSUME TypeOK, BootInv, Receive, sess # "none"
    PROVE  /\ HelloInFlight'
           /\ Incoming.kind = "hello" => Incoming.boot = boot
<1>1. chan \in Seq(Message) /\ chan # <<>> /\ chan' = Tail(chan) /\ HelloInFlight /\ boot' = boot
  BY DEF TypeOK, GatewayTypeOK, Receive, BootInv
<1>2. /\ Incoming = chan[1]
      /\ Len(chan) \in Nat \ {0}
      /\ Len(chan') = Len(chan) - 1
      /\ \A i \in 1 .. Len(chan') : chan'[i] = chan[i + 1]
  BY <1>1, HeadTailProperties, LenProperties, EmptySeq DEF Incoming
<1> QED
  BY <1>1, <1>2 DEF HelloInFlight

LEMMA BootUnchanged ==
    ASSUME BootInv, UNCHANGED <<boot, bootstrap>>, sess' = sess, UNCHANGED chan,
           pc' \in {"reconcile", "begin", "snapshot"} =>
               pc \in {"reconcile", "begin", "snapshot"} /\ cur' = cur,
           pc' \in Serving => pc \in Serving
    PROVE  BootInv'
BY DEF BootInv, HelloInFlight

LEMMA BootStep == TypeOK /\ ControlInv /\ BootInv /\ [Next]_vars => BootInv'
<1> SUFFICES ASSUME TypeOK, ControlInv, BootInv, [Next]_vars PROVE BootInv'
  OBVIOUS
<1>1. CASE UNCHANGED vars
  BY <1>1, BootUnchanged DEF vars, gwvars, streamvars, runvars, viewvars
<1>2. CASE ReceiveHello /\ UNCHANGED runvars
  BY <1>2, ReceivedBoot
     DEF ReceiveHello, Receive, HelloValid, Raise, runvars, viewvars, Serving, BootInv
<1>3. CASE (ReceiveBegin \/ ReceiveRecord) /\ UNCHANGED runvars
  BY <1>3, ReceivedBoot
     DEF ReceiveBegin, ReceiveRecord, Receive, Raise, streamvars, runvars, viewvars, Serving,
         BootInv
<1>4. CASE OpenStream
  BY <1>4, ReceivedBoot DEF OpenStream, ReceiveEnd, Receive, Serving, BootInv
<1>5. CASE ReceiveLive
  BY <1>5, ReceivedBoot
     DEF ReceiveLive, Receive, ApplyTelemetry, EndSession, streamvars, viewvars, Serving, BootInv
<1>6. CASE Connect
  <2>1. CASE sess' = "none"
    BY <2>1 DEF BootInv
  <2>2. CASE chan' = <<>> /\ pc' = "hello"
    BY <2>2, EmptySeq DEF BootInv, HelloInFlight, Serving
  <2> QED
    BY <1>6, <2>1, <2>2 DEF Connect, OpenSession, NodesRefused, RequestFails, gwvars,
       ControlInv, NoLeakedSocket
<1>7. CASE AbortDone \/ CloseDone
  BY <1>7 DEF AbortDone, CloseDone, CloseSocket, CloseSession, BootInv
<1>8. CASE FetchInfo \/ FetchNodes
  BY <1>8, BootUnchanged
     DEF FetchInfo, FetchNodes, Reported, NodesRead, NodesRefused, RequestFails, gwvars, runvars, viewvars,
         Serving
<1>9. CASE (Reconcile /\ UNCHANGED runvars) \/ Refresh
  <2>1. /\ UNCHANGED <<boot, sess, chan, bootstrap, cur>>
        /\ pc' \in {"reconcile", "begin", "snapshot"} => pc = "reconcile"
        /\ pc' \in Serving => pc \in Serving
    BY <1>9 DEF Reconcile, Refresh, NodesRead, NodesRefused, RequestFails, gwvars, Raise,
       EndSession, ApplyRegistry, runvars, viewvars, Serving
  <2> QED
    BY <2>1, BootUnchanged
<1>10. CASE Start \/ Yield \/ BackoffDone \/ Stop
  BY <1>10, BootUnchanged
     DEF Start, Yield, BackoffDone, Stop, Unless, gwvars, streamvars, runvars, viewvars, Serving
<1>11. CASE StopClosed
  <2>1. CASE sock
    BY <1>11, <2>1 DEF StopClosed, BootInv
  <2>2. CASE ~sock
    BY <1>11, <2>2, BootUnchanged DEF StopClosed, viewvars
  <2> QED
    BY <2>1, <2>2
<1>12. CASE Cancel
  <2>1. CASE sess' = "none"
    BY <2>1 DEF BootInv
  <2>2. CASE sess' # "none"
    BY <1>12, <2>2, BootUnchanged
       DEF Cancel, Raise, EndSession, CloseSession, gwvars, viewvars, Serving, Opening
  <2> QED
    BY <2>1, <2>2
<1> QED
  BY <1>1, <1>2, <1>3, <1>4, <1>5, <1>6, <1>7, <1>8, <1>9, <1>10, <1>11, <1>12,
     GatewayBoot DEF Next, TaskStep, StreamStep

\* A live session is always of the boot the bootstrap names.
THEOREM BootsMatch == Spec => []BootMatches
<1>1. Init => BootInv
  BY DEF Init, GatewayInit, BootInv
<1>2. BootInv => BootMatches
  BY DEF BootInv, BootMatches
<1> QED
  BY <1>1, <1>2, BootStep, TypeCorrect, ControlInvariant, PTL DEF Spec
=============================================================================
