-------------------------- MODULE GatewayRuntimeOrder --------------------------
(***************************************************************************)
(* That a device is never shown an earlier reading than before, that none  *)
(* is missing once a session has caught up, and that the runtime keeps the *)
(* promises of GatewayView, proved for every instance.  First, what the    *)
(* wrapping order of StreamSequence means.                                 *)
(***************************************************************************)
EXTENDS GatewayRuntimeReadings

----------------------------------------------------------------------------
\* The wrapping order is the order of the positions in the stream, for every even
\* modulus, as long as the two positions are less than half the modulus apart; and
\* it never holds both ways.

LEMMA Modulus ==
    ASSUME NEW x \in Int
    PROVE  \E q \in Int, r \in 0 .. SeqMod - 1 :
               x % SeqMod = r /\ x = SeqMod * q + r
<1>1. SeqMod \in Int /\ SeqMod > 0
  BY SeqModAssumption
<1>2. x % SeqMod \in 0 .. SeqMod - 1 /\ x \div SeqMod \in Int
  BY <1>1
<1>3. ASSUME NEW q \in Int, NEW r \in Int, q = x \div SeqMod, r = x % SeqMod
      PROVE  x = SeqMod * q + r
  BY <1>1, <1>3, SMT
<1> QED
  BY <1>2, <1>3

LEMMA HalfRange == SeqMod \div 2 \in Nat /\ SeqMod = 2 * (SeqMod \div 2)
BY SeqModAssumption, SMT

\* Only two multiples of m lie strictly between -(3/2)m and m/2.
LEMMA SmallMultiple ==
    ASSUME NEW m \in Nat \ {0}, NEW k \in Int, 2 * (m * k) < m, 2 * (m * k) > -3 * m
    PROVE  k \in {-1, 0}
<1>1. CASE k >= 1
  <2>1. m * k >= m
    BY <1>1, SMT
  <2> QED
    BY <2>1
<1>2. CASE k <= -2
  <2>1. m * k <= -2 * m
    BY <1>2, SMT
  <2> QED
    BY <2>1
<1> QED
  BY <1>1, <1>2

\* The difference the code computes is that of the positions, modulo SeqMod.
LEMMA DifferenceOfPositions ==
    ASSUME NEW a \in Int, NEW b \in Int
    PROVE  /\ Difference(b % SeqMod, a % SeqMod) \in 0 .. SeqMod - 1
           /\ \E k \in Int : b - a = SeqMod * k + Difference(b % SeqMod, a % SeqMod)
<1>1. PICK qa \in Int, ra \in 0 .. SeqMod - 1 :
          a % SeqMod = ra /\ a = SeqMod * qa + ra
  BY Modulus
<1>2. PICK qb \in Int, rb \in 0 .. SeqMod - 1 :
          b % SeqMod = rb /\ b = SeqMod * qb + rb
  BY Modulus
<1>3. SeqMod \in Int /\ ra \in Int /\ rb \in Int /\ rb - ra \in Int
  BY SeqModAssumption
<1>4. PICK qd \in Int, d \in 0 .. SeqMod - 1 :
          (rb - ra) % SeqMod = d /\ rb - ra = SeqMod * qd + d
  BY <1>3, Modulus
<1>5. b - a = SeqMod * (qb - qa + qd) + d
  BY <1>1, <1>2, <1>3, <1>4, SMT
<1>6. qb - qa + qd \in Int
  OBVIOUS
<1>7. Difference(b % SeqMod, a % SeqMod) = d
  BY <1>1, <1>2, <1>4 DEF Difference
<1> QED
  BY <1>5, <1>6, <1>7

\* Counting on from a sequence number is counting on from its position.
LEMMA NextNumber ==
    ASSUME NEW x \in Int
    PROVE  ((x % SeqMod) + 1) % SeqMod = (x + 1) % SeqMod
<1>1. SeqMod \in Nat \ {0} /\ x + 1 \in Int
  BY SeqModAssumption
<1>2. PICK q \in Int, r \in 0 .. SeqMod - 1 : x % SeqMod = r /\ x = SeqMod * q + r
  BY Modulus
<1>3. PICK p \in Int, s \in 0 .. SeqMod - 1 :
          (x + 1) % SeqMod = s /\ x + 1 = SeqMod * p + s
  BY <1>1, Modulus
<1>4. r + 1 \in Int /\ s \in Int /\ r \in Int
  BY <1>1
<1>5. PICK u \in Int, t \in 0 .. SeqMod - 1 :
          (r + 1) % SeqMod = t /\ r + 1 = SeqMod * u + t
  BY <1>4, Modulus
<1>6. PICK k \in Int : k = p - q - u
  OBVIOUS
<1>7. SeqMod * k = t - s
  BY <1>1, <1>2, <1>3, <1>5, <1>6, SMT
<1>8. k >= 1 => SeqMod * k >= SeqMod
  BY <1>1, SMT
<1>9. k <= -1 => SeqMod * k <= -SeqMod
  BY <1>1, SMT
<1>10. k = 0
  BY <1>1, <1>7, <1>8, <1>9
<1>11. t = s
  BY <1>1, <1>7, <1>10
<1> QED
  BY <1>2, <1>3, <1>5, <1>11

\* A later position is newer, and an earlier or the same one is not, whatever
\* the wraps between them (runtime.py, sequence_is_newer).
THEOREM NewerIsLater ==
    ASSUME NEW a \in Int, NEW b \in Int,
           b - a < SeqMod \div 2, a - b < SeqMod \div 2
    PROVE  SequenceIsNewer(b % SeqMod, a % SeqMod) <=> b > a
<1> DEFINE d == Difference(b % SeqMod, a % SeqMod)
<1>1. PICK k \in Int : b - a = SeqMod * k + d
  BY DifferenceOfPositions
<1>2. d \in 0 .. SeqMod - 1 /\ SeqMod \in Nat \ {0}
  BY DifferenceOfPositions, SeqModAssumption
<1> HIDE DEF d
<1>3. SeqMod * k \in Int
  BY <1>2
<1>4. k \in {-1, 0}
  <2>1. 2 * (SeqMod * k) < SeqMod /\ 2 * (SeqMod * k) > -3 * SeqMod
    BY <1>1, <1>2, <1>3, HalfRange
  <2> QED
    BY <1>2, <2>1, SmallMultiple
<1>5. CASE k = 0
  <2>1. b - a = d
    BY <1>1, <1>2, <1>5
  <2> QED
    BY <1>2, <2>1, HalfRange DEF SequenceIsNewer, d
<1>6. CASE k = -1
  <2>1. b - a = d - SeqMod
    BY <1>1, <1>2, <1>6
  <2>2. d > SeqMod \div 2 /\ b < a
    BY <1>2, <2>1, HalfRange
  <2> QED
    BY <1>2, <2>1, <2>2, HalfRange DEF SequenceIsNewer, d
<1> QED
  BY <1>4, <1>5, <1>6

\* Of two sequence numbers at most one is newer than the other.
THEOREM NewerIsAsymmetric ==
    ASSUME NEW p \in SeqNum, NEW c \in SeqNum, SequenceIsNewer(c, p)
    PROVE  ~SequenceIsNewer(p, c)
<1>1. SeqMod \in Nat \ {0} /\ p \in Int /\ c \in Int
  BY SeqModAssumption DEF SeqNum
<1>2. CASE c >= p
  <2>1. (c - p) % SeqMod = c - p
    BY <1>1, <1>2, SMT DEF SeqNum
  <2>2. c # p => (p - c) % SeqMod = p - c + SeqMod
    BY <1>1, <1>2, SMT DEF SeqNum
  <2> QED
    BY <1>1, <1>2, <2>1, <2>2, HalfRange DEF SequenceIsNewer, Difference, SeqNum
<1>3. CASE c < p
  <2>1. (c - p) % SeqMod = c - p + SeqMod
    BY <1>1, <1>3, SMT DEF SeqNum
  <2>2. (p - c) % SeqMod = p - c
    BY <1>1, <1>3, SMT DEF SeqNum
  <2> QED
    BY <1>1, <1>3, <2>1, <2>2, HalfRange DEF SequenceIsNewer, Difference, SeqNum
<1> QED
  BY <1>1, <1>2, <1>3

----------------------------------------------------------------------------
\* What a message and the event read from it tell.

\* An event that was read from a message, and a message that tells a reading.
ReadFrom(e, m) ==
    e.at = m.at /\ e.seq = m.seq /\ e.payload = m.payload /\ e.node.profile = m.profile
Tells(m, r) ==
    m.at = r.at /\ m.seq = r.seq /\ m.payload = r.uid /\ m.profile = r.profile

\* A device's new reading.
ReadingOf(node) == [uid |-> node.uid, profile |-> node.profile, seq |-> seq, at |-> clock + 1]

----------------------------------------------------------------------------
\* How readings move: from the device through last and due to the channel.
LEMMA ReportedReadings ==
    ASSUME TypeOK, NEW node \in reg.nodes, Report(node)
    PROVE  /\ ReadingOf(node) \in Reading
           /\ clock' = clock + 1 /\ clock < MaxClock /\ seq' = (seq + 1) % SeqMod
           /\ last' = {s \in last : s.uid # node.uid} \cup {ReadingOf(node)}
           /\ due' = IF sess \in {"snap", "live"} THEN due \cup {ReadingOf(node)} ELSE due
           /\ UNCHANGED <<reg, sess, pend, chan, Told>>
<1>1. ReadingOf(node) \in Reading
  BY DEF ReadingOf, Reading, TypeOK, GatewayTypeOK, Registry, Node
<1> QED
  BY <1>1 DEF Report, ReadingOf, Told

LEMMA SentReadings ==
    ASSUME TypeOK, GatewayNext, \A n \in reg.nodes : ~Report(n)
    PROVE  /\ clock' = clock /\ last' \subseteq last /\ due' \subseteq due
           /\ \/ seq' = seq
              \/ seq' = 0 /\ last' = {} /\ due' = {} /\ sess' = "none"
           /\ sess' # "none" => sess # "none"
           /\ \A m \in Told' :
                \/ m \in Told
                \/ sess = "snap" /\ \E r \in last : Tells(m, r)
                \/ sess = "live" /\ \E r \in due : Tells(m, r)
<1>1. ASSUME NEW t, Edit(t)
      PROVE  /\ UNCHANGED <<clock, seq, sess>> /\ last' \subseteq last /\ due' \subseteq due
             /\ Told' = Told
  <2>1. UNCHANGED chan \/ Send(RegistryChanged(reg.generation + 1))
    BY <1>1 DEF Edit
  <2>2. RegistryChanged(reg.generation + 1) \in Message
        /\ RegistryChanged(reg.generation + 1).kind # "telemetry"
    <3>1. reg.generation \in Nat
      BY DEF TypeOK, GatewayTypeOK, Registry
    <3> QED
      BY <3>1 DEF RegistryChanged, Message
  <2>3. UNCHANGED chan => Told' = Told
    BY DEF Told
  <2> HIDE DEF RegistryChanged
  <2> QED
    BY <1>1, <2>1, <2>2, <2>3, SentTold DEF Edit, Kept
<1>2. CASE SendHello \/ SendBegin \/ SendEnd \/ Noise
  <2>1. boot \in Nat /\ reg.generation \in Nat
    BY DEF TypeOK, GatewayTypeOK, Registry
  <2>2. PICK m \in {Hello(boot, reg.generation), Begin(reg.generation), End(reg.generation),
                    Unknown, Bad} :
             Send(m) /\ UNCHANGED <<clock, last, due, seq>> /\ sess # "none"
    BY <1>2 DEF SendHello, SendBegin, SendEnd, Noise
  <2>3. m \in Message /\ m.kind # "telemetry"
    BY <2>1, <2>2 DEF Hello, Begin, End, Unknown, Bad, Message
  <2>4. Told' = Told
    BY <2>2, <2>3, SentTold
  <2> QED
    BY <2>2, <2>4
<1>3. ASSUME NEW r \in last \cup due, SendRecord(r) \/ SendLive(r)
      PROVE  /\ UNCHANGED <<clock, seq, sess, last>> /\ due' \subseteq due
             /\ \E m \in Message : m.kind = "telemetry" /\ Tells(m, r) /\ Told' = Told \cup {m}
  <2>1. r \in Reading
    BY DEF TypeOK, GatewayTypeOK
  <2>2. PICK n \in reg.nodes : n.uid = r.uid /\ Send(Telemetry(n.id, r))
    BY <1>3 DEF SendRecord, SendLive
  <2>3. PICK m : m = Telemetry(n.id, r)
    OBVIOUS
  <2>4. m \in Message /\ m.kind = "telemetry" /\ Tells(m, r)
    BY <2>1, <2>3 DEF Telemetry, Message, Tells, TypeOK, GatewayTypeOK, Registry, Node, Reading
  <2>5. Told' = Told \cup {m}
    BY <2>2, <2>3, <2>4, SentTold
  <2> QED
    BY <1>3, <2>4, <2>5 DEF SendRecord, SendLive
<1>4. CASE Reboot \/ LinkLost
  <2>1. BreakSession /\ clock' = clock
        /\ ((seq' = seq /\ last' = last) \/ (seq' = 0 /\ last' = {}))
    BY <1>4 DEF Reboot, LinkLost
  <2>2. Told' \subseteq Told
    BY <2>1, BrokenTold
  <2> QED
    BY <2>1, <2>2 DEF BreakSession
<1>5. CASE Revoke
  BY <1>5 DEF Revoke, Told
<1>6. ASSUME NEW r \in last, SendRecord(r) PROVE sess = "snap"
  BY <1>6 DEF SendRecord
<1>7. ASSUME NEW r \in due, SendLive(r) PROVE sess = "live"
  BY <1>7 DEF SendLive
<1>8. ASSUME NEW r \in last, SendRecord(r)
      PROVE  /\ UNCHANGED <<clock, seq, sess, last>> /\ due' \subseteq due
             /\ \A m \in Told' : m \in Told \/ (sess = "snap" /\ Tells(m, r))
  BY <1>3, <1>6, <1>8
<1>9. ASSUME NEW r \in due, SendLive(r)
      PROVE  /\ UNCHANGED <<clock, seq, sess, last>> /\ due' \subseteq due
             /\ \A m \in Told' : m \in Told \/ (sess = "live" /\ Tells(m, r))
  BY <1>3, <1>7, <1>9
<1> QED
  BY <1>1, <1>2, <1>4, <1>5, <1>8, <1>9 DEF GatewayNext

\* ... and from the channel through the snapshot, or live, to the view.
LEMMA DecodedReading ==
    ASSUME TypeOK, Receive, NEW e \in TelemetryEvents(Incoming)
    PROVE  Incoming \in Told /\ ReadFrom(e, Incoming)
BY ReceivedTold DEF TelemetryEvents, EventOf, Decodes, ReadFrom

RuntimeStep == TaskStep \/ Start \/ Stop \/ StopClosed \/ Cancel \/ UNCHANGED vars

LEMMA RuntimeChannel ==
    ASSUME TypeOK, ViewInv, RuntimeStep
    PROVE  /\ UNCHANGED <<reg, clock, last, seq>> /\ due' \subseteq due
           /\ \/ Told' \subseteq Told /\ (sess' # "none" => sess # "none" /\ sess' = sess)
              \/ /\ Connect /\ pc' = "hello" /\ sess' = "hello" /\ Told' = {} /\ snap' = {}
                 /\ UNCHANGED latest
<1> DEFINE Goal == /\ UNCHANGED <<reg, clock, last, seq>> /\ due' \subseteq due
                   /\ Told' \subseteq Told /\ (sess' # "none" => sess # "none" /\ sess' = sess)
<1>1. chan' = chan => Told' = Told
  BY DEF Told
<1>2. chan' = <<>> => Told' = {}
  BY DEF Told
<1>3. chan' = <<Closed>> => Told' = {}
  <2>1. <<Closed>>[1].kind # "telemetry" /\ Len(<<Closed>>) = 1
    BY DEF Closed
  <2>2. ASSUME chan' = <<Closed>>, NEW i \in 1 .. Len(chan'), chan'[i].kind = "telemetry"
        PROVE  FALSE
    BY <2>1, <2>2
  <2> QED
    BY <2>2 DEF Told
<1>4. Receive => Goal
  BY ReceivedWord, ReceivedTold
<1>5. CASE ReceiveHello \/ ReceiveBegin \/ ReceiveRecord \/ OpenStream \/ ReceiveLive
  BY <1>4, <1>5 DEF ReceiveHello, ReceiveBegin, ReceiveRecord, OpenStream, ReceiveEnd, ReceiveLive
<1>6. CASE Reconcile \/ Refresh \/ FetchInfo \/ FetchNodes
  BY <1>1, <1>6 DEF Reconcile, Refresh, FetchInfo, FetchNodes, Reported, NodesRead, NodesRefused,
                   RequestFails, gwvars
<1>7. CASE Connect
  <2>1. CASE OpenSession
    <3>1. snap' = {} /\ pc = "connect"
      BY <1>7 DEF Connect, ViewInv
    <3>2. pc' = "hello" \/ UNCHANGED <<chan, sess, due, reg, clock, last, seq>>
      BY <1>7 DEF Connect, NodesRefused, RequestFails, gwvars
    <3> QED
      BY <1>1, <1>2, <1>7, <2>1, <3>1, <3>2 DEF Connect, OpenSession, viewvars, NodesRefused, RequestFails, gwvars, Unless
  <2>2. CASE ~OpenSession
    BY <1>1, <1>7, <2>2 DEF Connect, NodesRefused, RequestFails, gwvars
  <2> QED
    BY <2>1, <2>2
<1>8. CASE AbortDone \/ CloseDone
  BY <1>2, <1>8 DEF AbortDone, CloseDone, CloseSocket, CloseSession
<1>9. CASE Start \/ Yield \/ BackoffDone \/ Stop \/ UNCHANGED vars
  BY <1>1, <1>9 DEF Start, Yield, BackoffDone, Stop, vars, gwvars
<1>10. CASE StopClosed
  BY <1>1, <1>3, <1>10 DEF StopClosed
<1>11. CASE Cancel
  BY <1>1, <1>2, <1>11 DEF Cancel, CloseSession, gwvars
<1> QED
  BY <1>5, <1>6, <1>7, <1>8, <1>9, <1>10, <1>11 DEF RuntimeStep, TaskStep, StreamStep

LEMMA RuntimeView ==
    ASSUME TypeOK, ViewInv, RuntimeStep
    PROVE  /\ \A e \in snap' : e \in snap \/ \E m \in Told : ReadFrom(e, m)
           /\ \/ latest' \subseteq latest
              \/ OpenStream /\ latest' = snap
              \/ pc = "live" /\ \A e \in latest' : e \in latest \/ \E m \in Told : ReadFrom(e, m)
           /\ pc' \in Opening => latest' = latest /\ (pc \in Opening \/ Connect)
           /\ pc' \in Serving => pc \in Serving \/ OpenStream
<1>1. CASE OpenStream
  BY <1>1 DEF OpenStream, Opening
<1>2. CASE ReceiveLive
  <2>1. ASSUME NEW e \in TelemetryEvents(Incoming), ApplyTelemetry(e), Receive
        PROVE  \A x \in latest' : x \in latest \/ \E m \in Told : ReadFrom(x, m)
    BY <2>1, DecodedReading DEF ApplyTelemetry, Stored
  <2>2. snap' = snap /\ pc' \notin Opening /\ pc \in Serving /\ pc = "live"
    BY <1>2 DEF ReceiveLive, EndSession, streamvars, Opening, Serving
  <2>3. \A x \in latest' : x \in latest \/ \E m \in Told : ReadFrom(x, m)
    BY <1>2, <2>1 DEF ReceiveLive, viewvars
  <2> QED
    BY <2>2, <2>3
<1>3. CASE ReceiveRecord /\ UNCHANGED runvars
  <2>1. \A e \in snap' : e \in snap \/ \E m \in Told : ReadFrom(e, m)
    BY <1>3, DecodedReading DEF ReceiveRecord, Raise, streamvars
  <2>2. latest' = latest /\ pc \in Opening /\ pc' \notin Serving
    BY <1>3 DEF ReceiveRecord, Raise, streamvars, runvars, viewvars, Opening, Serving
  <2> QED
    BY <2>1, <2>2
<1>4. CASE Refresh
  BY <1>4 DEF Refresh, ApplyRegistry, Retained, EndSession, viewvars, Opening, Serving
<1>5. CASE (ReceiveHello \/ Reconcile \/ ReceiveBegin) /\ UNCHANGED runvars
  BY <1>5 DEF ReceiveHello, Reconcile, ReceiveBegin, Raise, streamvars, runvars, viewvars, Opening,
     Serving
<1>6. CASE Connect
  BY <1>6 DEF Connect, Unless, viewvars, Opening, Serving
<1>7. CASE AbortDone \/ CloseDone \/ Start \/ BackoffDone \/ FetchInfo \/ FetchNodes
  BY <1>7 DEF AbortDone, CloseDone, Start, BackoffDone, FetchInfo, FetchNodes, Reported, AfterSession, Unless,
     runvars, viewvars, Opening, Serving
<1>8. CASE Stop \/ StopClosed \/ Yield \/ UNCHANGED vars
  BY <1>8 DEF Stop, StopClosed, Yield, vars, streamvars, runvars, viewvars, Opening, Serving
<1>9. CASE Cancel
  BY <1>9 DEF Cancel, Raise, EndSession, viewvars, Opening, Serving
<1> QED
  BY <1>1, <1>2, <1>3, <1>4, <1>5, <1>6, <1>7, <1>8, <1>9 DEF RuntimeStep, TaskStep, StreamStep

----------------------------------------------------------------------------
\* Every reading was received before now, and the last one of a device is the
\* latest of them, wherever the others are by now.
NotAfterClock ==
    /\ clock <= MaxClock
    /\ \A x \in last \cup due \cup Told \cup snap \cup latest : 0 < x.at /\ x.at <= clock

LastIsLatest ==
    \A r \in last :
        /\ \A q \in last : q.uid = r.uid => q = r
        /\ \A d \in due : d.uid = r.uid => d.at <= r.at
        /\ \A x \in Told \cup snap \cup latest : x.payload = r.uid => x.at <= r.at

\* What a session that is opening has to tell is no older than what the
\* session before it showed.
SessionIsLater ==
    pc \in Opening => \A e \in latest :
        /\ \A d \in due : d.uid = e.payload => e.at <= d.at
        /\ \A x \in Told \cup snap : x.payload = e.payload => e.at <= x.at

TimesInv == NotAfterClock /\ LastIsLatest /\ SessionIsLater

LEMMA Times ==
    ASSUME TypeOK
    PROVE  /\ clock \in Nat /\ MaxClock \in Nat
           /\ \A x \in last \cup due \cup Told \cup snap \cup latest : x.at \in Nat
<1>1. \A i \in 1 .. Len(chan) : chan[i] \in Message
  BY ElementOfSeq DEF TypeOK, GatewayTypeOK
<1>2. \A m \in Told : m.at \in Nat
  BY <1>1 DEF Told, Message
<1>3. \A x \in last \cup due \cup snap \cup latest : x.at \in Nat
  BY DEF TypeOK, GatewayTypeOK, StreamTypeOK, Reading, Event
<1> QED
  BY <1>2, <1>3, BoundsAssumption DEF TypeOK, GatewayTypeOK

LEMMA TimesInitially == Init => TimesInv
<1> SUFFICES ASSUME Init PROVE TimesInv
  OBVIOUS
<1>1. last = {} /\ due = {} /\ snap = {} /\ latest = {} /\ chan = <<>> /\ clock = 0
  BY DEF Init, GatewayInit, StreamInit
<1>2. Told = {}
  BY <1>1 DEF Told
<1> QED
  BY <1>1, <1>2, BoundsAssumption DEF TimesInv, NotAfterClock, LastIsLatest, SessionIsLater

LEMMA ReportTimes ==
    ASSUME TypeOK, TimesInv, UNCHANGED <<pc, snap, latest>>, NEW n \in reg.nodes, Report(n)
    PROVE  TimesInv'
<1> DEFINE r == ReadingOf(n)
<1>1. r.at = clock + 1 /\ r.uid = n.uid
  BY DEF ReadingOf
<1> HIDE DEF r
<1>2. /\ clock' = clock + 1 /\ clock < MaxClock
      /\ last' = {s \in last : s.uid # n.uid} \cup {r}
      /\ due' \subseteq due \cup {r} /\ Told' = Told
  BY ReportedReadings DEF r
<1>3. NotAfterClock'
  BY <1>1, <1>2, Times DEF TimesInv, NotAfterClock
<1>4. LastIsLatest'
  <2>1. ASSUME NEW s \in last', NEW d \in due', d.uid = s.uid PROVE d.at <= s.at
    <3>1. CASE s = r
      BY <1>1, <1>2, <3>1, Times DEF TimesInv, NotAfterClock
    <3>2. CASE s # r
      <4>1. s \in last /\ s.uid # n.uid /\ d \in due
        BY <1>1, <1>2, <2>1, <3>2
      <4> QED
        BY <2>1, <4>1 DEF TimesInv, LastIsLatest
    <3> QED
      BY <3>1, <3>2
  <2>2. ASSUME NEW s \in last', NEW x \in (Told \cup snap \cup latest)', x.payload = s.uid
        PROVE  x.at <= s.at
    <3>1. x \in Told \cup snap \cup latest
      BY <1>2
    <3>2. CASE s = r
      BY <1>1, <3>1, <3>2, Times DEF TimesInv, NotAfterClock
    <3>3. CASE s # r
      BY <1>2, <2>2, <3>1, <3>3 DEF TimesInv, LastIsLatest
    <3> QED
      BY <3>2, <3>3
  <2>3. ASSUME NEW s \in last', NEW q \in last', q.uid = s.uid PROVE q = s
    BY <1>1, <1>2, <2>3 DEF TimesInv, LastIsLatest
  <2> QED
    BY <2>1, <2>2, <2>3 DEF LastIsLatest
<1>5. SessionIsLater'
  <2>1. ASSUME pc \in Opening, NEW e \in latest, NEW d \in due', d.uid = e.payload
        PROVE  e.at <= d.at
    BY <1>1, <1>2, <2>1, Times DEF TimesInv, NotAfterClock, SessionIsLater
  <2> QED
    BY <1>2, <2>1 DEF TimesInv, SessionIsLater
<1> QED
  BY <1>3, <1>4, <1>5 DEF TimesInv

LEMMA SendTimes ==
    ASSUME TypeOK, TimesInv, UNCHANGED <<pc, snap, latest>>,
           GatewayNext, \A n \in reg.nodes : ~Report(n)
    PROVE  TimesInv'
<1>1. /\ clock' = clock /\ last' \subseteq last /\ due' \subseteq due
      /\ \A m \in Told' : m \in Told \/ \E r \in last \cup due : m.at = r.at /\ m.payload = r.uid
  BY SentReadings DEF Tells
<1>2. NotAfterClock'
  BY <1>1 DEF TimesInv, NotAfterClock
<1>3. LastIsLatest'
  <2>1. ASSUME NEW s \in last', NEW m \in Told', m.payload = s.uid PROVE m.at <= s.at
    <3>1. s \in last /\ s.at \in Nat
      BY <1>1, Times
    <3>2. \A r \in last : r.uid = s.uid => r.at <= s.at
      BY <3>1 DEF TimesInv, LastIsLatest
    <3> QED
      BY <1>1, <2>1, <3>1, <3>2 DEF TimesInv, LastIsLatest
  <2> QED
    BY <1>1, <2>1 DEF TimesInv, LastIsLatest
<1>4. SessionIsLater'
  BY <1>1 DEF TimesInv, LastIsLatest, SessionIsLater
<1> QED
  BY <1>2, <1>3, <1>4 DEF TimesInv

LEMMA RuntimeTimes == ASSUME TypeOK, ViewInv, TimesInv, RuntimeStep PROVE TimesInv'
<1>1. UNCHANGED <<clock, last>> /\ due' \subseteq due /\ Told' \subseteq Told
  BY RuntimeChannel
<1>2. \A x \in (Told \cup snap \cup latest)' :
        \E y \in Told \cup snap \cup latest : x.at = y.at /\ x.payload = y.payload
  BY <1>1, RuntimeView DEF ReadFrom
<1>3. NotAfterClock'
  <2>1. ASSUME NEW x \in (Told \cup snap \cup latest)' PROVE 0 < x.at /\ x.at <= clock
    BY <1>2 DEF TimesInv, NotAfterClock
  <2> QED
    BY <1>1, <2>1 DEF TimesInv, NotAfterClock
<1>4. LastIsLatest'
  <2>1. ASSUME NEW r \in last, NEW x \in (Told \cup snap \cup latest)', x.payload = r.uid
        PROVE  x.at <= r.at
    BY <1>2, <2>1 DEF TimesInv, LastIsLatest
  <2> QED
    BY <1>1, <2>1 DEF TimesInv, LastIsLatest
<1>5. SessionIsLater'
  <2> SUFFICES ASSUME pc' \in Opening PROVE SessionIsLater'
    BY DEF SessionIsLater
  <2>1. latest' = latest /\ (pc \in Opening \/ Connect)
    BY RuntimeView
  <2>2. CASE pc \in Opening
    <3>1. \A x \in (Told \cup snap)' : \E y \in Told \cup snap :
            x.at = y.at /\ x.payload = y.payload
      BY <1>1, RuntimeView DEF ReadFrom
    <3> QED
      BY <1>1, <2>1, <2>2, <3>1 DEF TimesInv, SessionIsLater
  <2>3. CASE Connect
    <3>1. chan' = <<>> /\ due' = {} /\ snap' = {}
      BY <2>3 DEF Connect, OpenSession, Unless, Opening, ViewInv
    <3>2. Told' = {}
      BY <3>1 DEF Told
    <3> QED
      BY <3>1, <3>2 DEF SessionIsLater
  <2> QED
    BY <2>1, <2>2, <2>3
<1> QED
  BY <1>3, <1>4, <1>5 DEF TimesInv

LEMMA NextSteps == [Next]_vars => RuntimeStep \/ (GatewayNext /\ UNCHANGED <<streamvars, runvars>>)
BY DEF Next, GatewayStep, RuntimeStep

LEMMA TimesStep == TypeOK /\ ViewInv /\ TimesInv /\ [Next]_vars => TimesInv'
<1> SUFFICES ASSUME TypeOK, ViewInv, TimesInv, GatewayNext, UNCHANGED <<streamvars, runvars>>
             PROVE  TimesInv'
  BY NextSteps, RuntimeTimes
<1>1. UNCHANGED <<pc, snap, latest>>
  BY DEF streamvars, runvars, viewvars
<1> QED
  BY <1>1, ReportTimes, SendTimes

\* No reading anywhere is later than the gateway's clock or than the last one
\* of its device, and those to be sent to this session are later than those
\* of earlier ones (the order in which stream.py receives telemetry).
THEOREM TimesInvariant == Spec => []TimesInv
BY TimesInitially, TimesStep, TypeCorrect, ViewInvariant, PTL DEF Spec

----------------------------------------------------------------------------
\* The gateway numbers the readings of a boot one after the other, and a
\* session is of one boot: within it, a reading's sequence number tells its
\* position.
Numbered(x, o) == x.seq = (x.at + o) % SeqMod

GatewayNumbers(o) ==
    seq = (clock + 1 + o) % SeqMod /\ \A r \in last \cup due : Numbered(r, o)

SessionNumbers(o) ==
    /\ \A x \in Told \cup snap : Numbered(x, o)
    /\ pc \in Serving => \A e \in latest : Numbered(e, o)
    /\ sess # "none" => GatewayNumbers(o)

NumbersInv ==
    /\ \E o \in Int : GatewayNumbers(o)
    /\ InSession => \E o \in Int : SessionNumbers(o)

LEMMA Numbers ==
    ASSUME TypeOK
    PROVE  clock \in Nat /\ SeqMod \in Nat \ {0} /\ seq \in SeqNum
BY SeqModAssumption DEF TypeOK, GatewayTypeOK

LEMMA NumbersInitially == Init => NumbersInv
<1> SUFFICES ASSUME Init PROVE NumbersInv
  OBVIOUS
<1>1. clock = 0 /\ last = {} /\ due = {} /\ pc = "idle" /\ seq \in {0, SeqMod - 1}
  BY DEF Init, GatewayInit, StreamInit
<1>2. SeqMod \in Nat \ {0} /\ seq \in 0 .. SeqMod - 1 /\ seq - 1 \in Int
  BY <1>1, SeqModAssumption
<1>3. seq = (clock + 1 + (seq - 1)) % SeqMod
  <2>1. clock + 1 + (seq - 1) = seq
    BY <1>1, <1>2
  <2>2. seq % SeqMod = seq
    BY <1>2, SMT
  <2> QED
    BY <2>1, <2>2
<1>4. GatewayNumbers(seq - 1)
  BY <1>1, <1>3 DEF GatewayNumbers
<1>5. ~InSession
  BY <1>1 DEF InSession, Opening, Serving
<1> QED
  BY <1>2, <1>4, <1>5 DEF NumbersInv

LEMMA ReportNumbers ==
    ASSUME TypeOK, NEW n \in reg.nodes, Report(n), NEW o \in Int, GatewayNumbers(o)
    PROVE  GatewayNumbers(o)'
<1>1. clock \in Nat /\ clock + 1 + o \in Int /\ clock + 1 + o + 1 = clock' + 1 + o
  BY Numbers, ReportedReadings
<1>2. seq' = (clock' + 1 + o) % SeqMod
  BY <1>1, NextNumber, ReportedReadings DEF GatewayNumbers
<1>3. Numbered(ReadingOf(n), o)
  BY DEF Numbered, ReadingOf, GatewayNumbers
<1> HIDE DEF ReadingOf
<1>4. \A r \in (last \cup due)' : r \in last \cup due \/ r = ReadingOf(n)
  BY ReportedReadings
<1> QED
  BY <1>2, <1>3, <1>4 DEF GatewayNumbers

LEMMA SendNumbers ==
    ASSUME TypeOK, GatewayNext, \A n \in reg.nodes : ~Report(n), NEW o \in Int, GatewayNumbers(o)
    PROVE  /\ \E p \in Int : GatewayNumbers(p)'
           /\ sess' # "none" => sess # "none" /\ GatewayNumbers(o)'
<1>1. UNCHANGED clock /\ last' \subseteq last /\ due' \subseteq due
  BY SentReadings
<1>2. CASE seq' = seq
  BY <1>1, <1>2, SentReadings DEF GatewayNumbers
<1>3. CASE seq' = 0 /\ last' = {} /\ due' = {} /\ sess' = "none"
  <2>1. -(clock + 1) \in Int /\ clock' + 1 + (-(clock + 1)) = 0
    BY <1>1, Numbers
  <2>2. 0 % SeqMod = 0
    BY Numbers, SMT
  <2>3. PICK p \in Int : p = -(clock + 1)
    BY <2>1
  <2>4. GatewayNumbers(p)'
    BY <1>3, <2>1, <2>2, <2>3 DEF GatewayNumbers
  <2> QED
    BY <1>3, <2>4
<1> QED
  BY <1>2, <1>3, SentReadings

LEMMA GatewaySession ==
    ASSUME TypeOK, GatewayNext, UNCHANGED <<streamvars, runvars>>, InSession,
           NEW o \in Int, SessionNumbers(o)
    PROVE  SessionNumbers(o)'
<1>1. UNCHANGED <<pc, snap, latest>>
  BY DEF streamvars, runvars, viewvars
<1>2. CASE \E n \in reg.nodes : Report(n)
  <2>1. UNCHANGED <<sess, Told>>
    BY <1>2, ReportedReadings
  <2>2. GatewayNumbers(o) => GatewayNumbers(o)'
    BY <1>2, ReportNumbers
  <2> QED
    BY <1>1, <2>1, <2>2 DEF SessionNumbers
<1>3. CASE \A n \in reg.nodes : ~Report(n)
  <2>1. \A m \in Told' : m \in Told \/ (sess # "none" /\ \E r \in last \cup due : m.at = r.at /\ m.seq = r.seq)
    BY <1>3, SentReadings DEF Tells
  <2>2. \A m \in Told' : Numbered(m, o)
    BY <2>1 DEF SessionNumbers, GatewayNumbers, Numbered
  <2>3. sess' # "none" => sess # "none"
    BY <1>3, SentReadings
  <2>4. sess' # "none" => GatewayNumbers(o)'
    BY <1>3, <2>3, SendNumbers DEF SessionNumbers
  <2> QED
    BY <1>1, <2>2, <2>4 DEF SessionNumbers
<1> QED
  BY <1>2, <1>3

LEMMA RuntimeNumbers == ASSUME TypeOK, ViewInv, NumbersInv, RuntimeStep PROVE NumbersInv'
<1>1. UNCHANGED <<clock, last, seq>> /\ due' \subseteq due
  BY RuntimeChannel
<1>2. \A o : GatewayNumbers(o) => GatewayNumbers(o)'
  BY <1>1 DEF GatewayNumbers
<1>3. ASSUME InSession', ~Connect PROVE \E o \in Int : SessionNumbers(o)'
  <2>1. InSession
    BY <1>3, RuntimeView DEF InSession, Opening, OpenStream, ReceiveEnd
  <2>2. PICK o \in Int : SessionNumbers(o)
    BY <2>1 DEF NumbersInv
  <2>3. Told' \subseteq Told /\ (sess' # "none" => sess # "none")
    BY <1>3, RuntimeChannel
  <2>4. \A x \in (Told \cup snap)' : Numbered(x, o)
    BY <2>2, <2>3, RuntimeView DEF ReadFrom, SessionNumbers, Numbered
  <2>5. ASSUME pc' \in Serving, NEW e \in latest' PROVE Numbered(e, o)
    <3>1. CASE pc \in Serving
      <4>1. ~OpenStream
        BY <3>1 DEF OpenStream, ReceiveEnd, Serving
      <4>2. e \in latest \/ \E m \in Told : ReadFrom(e, m)
        BY <2>5, <4>1, RuntimeView
      <4> QED
        BY <2>2, <3>1, <4>2 DEF ReadFrom, SessionNumbers, Numbered
    <3>2. CASE OpenStream
      <4>1. latest' = snap
        BY <3>2 DEF OpenStream
      <4> QED
        BY <2>2, <2>5, <4>1 DEF SessionNumbers
    <3> QED
      BY <2>5, <3>1, <3>2, RuntimeView
  <2>6. SessionNumbers(o)'
    BY <1>2, <2>2, <2>3, <2>4, <2>5 DEF SessionNumbers
  <2> QED
    BY <2>6
<1>4. ASSUME InSession', Connect PROVE \E o \in Int : SessionNumbers(o)'
  <2>1. chan' = <<>> /\ snap' = {} /\ pc' \notin Serving
    BY <1>4 DEF Connect, OpenSession, Unless, InSession, Opening, Serving, ViewInv
  <2>2. Told' = {}
    BY <2>1 DEF Told
  <2>3. PICK o \in Int : GatewayNumbers(o)
    BY DEF NumbersInv
  <2>4. SessionNumbers(o)'
    BY <1>2, <2>1, <2>2, <2>3 DEF SessionNumbers
  <2> QED
    BY <2>4
<1>5. \E o \in Int : GatewayNumbers(o)'
  BY <1>2 DEF NumbersInv
<1> QED
  BY <1>3, <1>4, <1>5 DEF NumbersInv

LEMMA NumbersStep == TypeOK /\ ViewInv /\ NumbersInv /\ [Next]_vars => NumbersInv'
<1> SUFFICES ASSUME TypeOK, ViewInv, NumbersInv, GatewayNext, UNCHANGED <<streamvars, runvars>>
             PROVE  NumbersInv'
  BY NextSteps, RuntimeNumbers
<1>1. InSession' <=> InSession
  BY DEF streamvars, InSession
<1>2. \E o \in Int : GatewayNumbers(o)'
  BY ReportNumbers, SendNumbers DEF NumbersInv
<1>3. InSession => \E o \in Int : SessionNumbers(o)'
  BY GatewaySession DEF NumbersInv
<1> QED
  BY <1>1, <1>2, <1>3 DEF NumbersInv

\* Within one boot of the gateway sequence numbers count its readings, modulo
\* their range: two of them are as far apart as the readings they number.
THEOREM NumbersInvariant == Spec => []NumbersInv
BY NumbersInitially, NumbersStep, TypeCorrect, ViewInvariant, PTL DEF Spec

----------------------------------------------------------------------------
\* The code compares 32-bit numbers: it can tell the order of two readings of
\* a device that are less than half the range of numbers apart.
InRange ==
    pc \in Serving => \A d \in latest, m \in Told : m.payload = d.payload =>
        m.at - d.at < SeqMod \div 2 /\ d.at - m.at < SeqMod \div 2

LEMMA OrderIsTold ==
    ASSUME TypeOK, LineInv, Attribution, NumbersInv, InRange, pc = "live", Receive,
           NEW e \in TelemetryEvents(Incoming), NEW d \in latest, d.node.uid = e.node.uid
    PROVE  SequenceIsNewer(e.seq, d.seq) <=> e.at > d.at
<1>1. e.payload = e.node.uid /\ d.payload = d.node.uid
  BY DecodedOwn DEF Attribution
<1>2. Incoming \in Told /\ e.at = Incoming.at /\ e.seq = Incoming.seq /\ e.payload = Incoming.payload
  BY DecodedReading DEF ReadFrom
<1>3. PICK o \in Int : Numbered(Incoming, o) /\ Numbered(d, o)
  BY <1>2 DEF NumbersInv, SessionNumbers, InSession, Serving
<1>4. e.at \in Nat /\ d.at \in Nat
  BY <1>2, Times
<1>5. PICK a \in Int, b \in Int : a = d.at + o /\ b = e.at + o
  BY <1>4
<1>6. d.seq = a % SeqMod /\ e.seq = b % SeqMod
  BY <1>2, <1>3, <1>5 DEF Numbered
<1>7. e.at - d.at < SeqMod \div 2 /\ d.at - e.at < SeqMod \div 2
  BY <1>1, <1>2 DEF InRange, Serving
<1>8. SeqMod \div 2 \in Nat
  BY HalfRange
<1>9. b - a < SeqMod \div 2 /\ a - b < SeqMod \div 2 /\ (b > a <=> e.at > d.at)
  BY <1>4, <1>5, <1>7, <1>8
<1> QED
  BY <1>6, <1>9, NewerIsLater

\* Sequence numbers decide as the times of the readings would.
LEMMA AppliedIsLater ==
    ASSUME TypeOK, ViewInv, LineInv, Attribution, NumbersInv, InRange, pc = "live", Receive,
           NEW e \in TelemetryEvents(Incoming)
    PROVE  Superseded(e) <=> \E d \in latest : d.node.uid = e.node.uid /\ e.at <= d.at
<1>1. \A d \in latest : d.at \in Nat /\ e.at \in Nat
  BY DecodedReading, Times DEF ReadFrom
<1>2. \A d \in latest : d.node.uid = e.node.uid =>
        (SequenceIsNewer(e.seq, d.seq) <=> e.at > d.at)
  BY OrderIsTold
<1>3. \A d \in latest : d.node.uid = e.node.uid =>
        (~SequenceIsNewer(e.seq, d.seq) <=> e.at <= d.at)
  BY <1>1, <1>2
<1> QED
  BY <1>3 DEF Superseded

LEMMA FreshStep ==
    ASSUME TypeOK, TypeOK', ViewInv, LineInv, Attribution, Attribution', TimesInv, NumbersInv,
           InRange, [Next]_vars
    PROVE  NeverOlder
<1>1. \A d, e \in latest : d.node.uid = e.node.uid => d.at <= e.at
  BY Times DEF ViewInv, OneEventPerDevice
<1>2. CASE latest' \subseteq latest
  BY <1>1, <1>2 DEF NeverOlder
<1>3. CASE OpenStream /\ latest' = snap
  <2>1. pc \in Opening
    BY <1>3 DEF OpenStream, ReceiveEnd, Opening
  <2>2. ASSUME NEW d \in latest, NEW e \in snap, d.node.uid = e.node.uid PROVE d.at <= e.at
    <3>1. d.payload = e.payload
      BY <1>3, <2>2 DEF Attribution
    <3> QED
      BY <2>1, <2>2, <3>1 DEF TimesInv, SessionIsLater
  <2> QED
    BY <1>3, <2>2 DEF NeverOlder
<1>4. CASE ReceiveLive
  <2>1. ASSUME NEW e \in TelemetryEvents(Incoming), ApplyTelemetry(e) PROVE NeverOlder
    <3>1. CASE Superseded(e)
      BY <1>1, <2>1, <3>1 DEF ApplyTelemetry, NeverOlder
    <3>2. CASE ~Superseded(e)
      <4>1. \A d \in latest : d.node.uid = e.node.uid => d.at <= e.at
        BY <1>4, <3>2, AppliedIsLater, DecodedReading, Times DEF ReceiveLive, ReadFrom
      <4> QED
        BY <1>1, <2>1, <3>2, <4>1 DEF ApplyTelemetry, Stored, NeverOlder
    <3> QED
      BY <3>1, <3>2
  <2>2. CASE UNCHANGED viewvars
    BY <1>1, <2>2 DEF viewvars, NeverOlder
  <2> QED
    BY <1>4, <2>1, <2>2 DEF ReceiveLive, viewvars
<1>5. RuntimeStep => latest' \subseteq latest \/ (OpenStream /\ latest' = snap) \/ pc = "live"
  BY RuntimeView
<1>6. RuntimeStep /\ pc = "live" /\ ~ReceiveLive => latest' = latest
  BY DEF RuntimeStep, TaskStep, StreamStep, FetchInfo, FetchNodes, Reported, Connect, ReceiveHello, Reconcile,
         ReceiveBegin, ReceiveRecord, OpenStream, ReceiveEnd, AbortDone, Refresh, Yield, CloseDone,
         BackoffDone, Start, Stop, StopClosed, Cancel, vars, runvars, viewvars
<1>7. ~RuntimeStep => latest' = latest
  BY NextSteps DEF runvars, viewvars
<1> QED
  BY <1>2, <1>3, <1>4, <1>5, <1>6, <1>7

\* Whenever the readings of a device that are compared are in range, the one
\* shown is only ever replaced by a later one (runtime.py, _apply_event and
\* sequence_is_newer).
THEOREM FreshInRange == Spec /\ []InRange => FreshestWins
<1>1. /\ TypeOK /\ TypeOK' /\ ViewInv /\ LineInv /\ Attribution /\ Attribution'
      /\ TimesInv /\ NumbersInv /\ InRange /\ [Next]_vars
      => [NeverOlder]_vars
  BY FreshStep
<1> QED
  BY <1>1, TypeCorrect, ViewInvariant, LineInvariant, ReadingsAreOwn, TimesInvariant,
     NumbersInvariant, PTL DEF Spec, FreshestWins

LEMMA AlwaysInRange == MaxClock <= SeqMod \div 2 /\ TypeOK /\ TimesInv => InRange
<1> SUFFICES ASSUME MaxClock <= SeqMod \div 2, TypeOK, TimesInv,
                    NEW d \in latest, NEW m \in Told
             PROVE  m.at - d.at < SeqMod \div 2 /\ d.at - m.at < SeqMod \div 2
  BY DEF InRange
<1>1. /\ d.at \in Nat /\ m.at \in Nat /\ clock \in Nat /\ MaxClock \in Nat
      /\ SeqMod \div 2 \in Nat
  BY Times, HalfRange
<1>2. 0 < d.at /\ d.at <= clock /\ 0 < m.at /\ m.at <= clock /\ clock <= MaxClock
  BY DEF TimesInv, NotAfterClock
<1> QED
  BY <1>1, <1>2

\* With no more readings than half the range has numbers, they all are.
THEOREM FreshReadings == ASSUME MaxClock <= SeqMod \div 2 PROVE Spec => FreshestWins
<1>1. TypeOK /\ TimesInv => InRange
  BY AlwaysInRange
<1> QED
  BY <1>1, TypeCorrect, TimesInvariant, FreshInRange, PTL

----------------------------------------------------------------------------
\* The view that the runtime keeps is the one that GatewayView promises.
LEMMA PromiseInitially == Init => Promise!Init
BY InitialTypes DEF Init, Promise!Init, TypeOK

LEMMA OpenedPromise ==
    ASSUME TypeOK, ViewInv', ControlInv, RegistryInv, NeverOlder, OpenStream
    PROVE  Promise!Resume
<1>1. pc = "snapshot" /\ ~connected /\ connected' = TRUE /\ registry' = sreg
  BY DEF OpenStream, ReceiveEnd, ControlInv, Serving
<1>2. sreg \in Registry /\ Follows(registry, sreg)
  BY <1>1 DEF TypeOK, StreamTypeOK, RegistryInv, Opening
<1>3. latest' = Promise!Belonging(latest', registry')
  BY DEF ViewInv, LatestMatchesRegistry, Promise!Belonging
<1>4. Promise!Forward(latest, latest')
  BY DEF NeverOlder, Promise!Forward
<1> QED
  BY <1>1, <1>2, <1>3, <1>4 DEF Promise!Resume, Follows

LEMMA AppliedPromise ==
    ASSUME TypeOK, ViewInv, ControlInv, LineInv, Attribution, NumbersInv, InRange, pc = "live",
           Receive, NEW e \in TelemetryEvents(Incoming), ApplyTelemetry(e)
    PROVE  Promise!Learn \/ UNCHANGED Promise!view
<1>1. CASE Superseded(e)
  BY <1>1 DEF ApplyTelemetry, Promise!view
<1>2. CASE ~Superseded(e)
  <2>1. connected /\ connected' = TRUE /\ registry' = registry /\ latest' = Stored(e)
    BY <1>2 DEF ApplyTelemetry, ControlInv, Serving, TypeOK
  <2>2. e.node \in registry.nodes /\ e.node.active
    <3>1. e.node \in sreg.nodes /\ e.node.active
      BY DecodedNode DEF TelemetryEvents, EventOf, Decodes
    <3> QED
      BY <3>1 DEF ViewInv, Serving
  <2>3. e.payload = e.node.uid
    BY DecodedOwn
  <2>4. \A d \in latest : d.node.uid = e.node.uid => d.at < e.at
    <3>1. \A d \in latest : d.at \in Nat /\ e.at \in Nat
      BY DecodedReading, Times DEF ReadFrom
    <3> QED
      BY <1>2, <3>1, AppliedIsLater
  <2> QED
    BY <2>1, <2>2, <2>3, <2>4 DEF Stored, Promise!Learn
<1> QED
  BY <1>1, <1>2

LEMMA RefreshedPromise ==
    ASSUME TypeOK, ViewInv, ControlInv, RegistryInv, Refresh
    PROVE  Promise!Change \/ UNCHANGED Promise!view
<1>1. CASE UNCHANGED viewvars
  BY <1>1 DEF viewvars, Promise!view
<1>2. CASE ApplyRegistry
  <2>1. connected /\ connected' = TRUE /\ registry' = reg /\ latest' = Retained(latest, reg.nodes)
    BY <1>2 DEF Refresh, ApplyRegistry, ControlInv, Serving, TypeOK
  <2>2. /\ reg \in Registry /\ Follows(registry, reg)
        /\ reg.generation \in Nat /\ registry.generation \in Nat
    BY DEF TypeOK, GatewayTypeOK, Registry, RegistryInv
  <2>3. latest' = Promise!Belonging(latest, reg)
    BY <2>1 DEF Retained, Promise!Belonging
  <2>4. CASE registry.generation = reg.generation
    <3>1. registry = reg
      BY <2>2, <2>4 DEF Follows
    <3>2. Promise!Belonging(latest, registry) = latest
      BY DEF ViewInv, LatestMatchesRegistry, Promise!Belonging
    <3> QED
      BY <2>1, <2>3, <3>1, <3>2 DEF TypeOK, Promise!view
  <2>5. CASE registry.generation < reg.generation
    BY <2>1, <2>2, <2>3, <2>5 DEF Promise!Change
  <2> QED
    BY <2>2, <2>4, <2>5 DEF Follows
<1> QED
  BY <1>1, <1>2 DEF Refresh, viewvars

LEMMA PromiseStep ==
    ASSUME TypeOK, TypeOK', ViewInv, ViewInv', ControlInv, RegistryInv, LineInv,
           Attribution, Attribution', TimesInv, NumbersInv, InRange, [Next]_vars
    PROVE  [Promise!Next]_(Promise!view)
<1>1. CASE OpenStream
  BY <1>1, FreshStep, OpenedPromise DEF Promise!Next
<1>2. CASE ReceiveLive
  <2>1. CASE \E e \in TelemetryEvents(Incoming) : ApplyTelemetry(e)
    BY <1>2, <2>1, AppliedPromise DEF ReceiveLive, Promise!Next
  <2>2. CASE UNCHANGED viewvars
    BY <2>2 DEF viewvars, Promise!view
  <2> QED
    BY <1>2, <2>1, <2>2 DEF ReceiveLive, viewvars
<1>3. CASE Refresh
  BY <1>3, RefreshedPromise DEF Promise!Next
<1>4. CASE CloseDone
  BY <1>4 DEF CloseDone, ControlInv, Promise!Next, Promise!Lose
<1>5. CASE UNCHANGED <<connected, registry, latest>>
  BY <1>5 DEF Promise!view
<1>6. \/ OpenStream \/ ReceiveLive \/ Refresh \/ CloseDone
      \/ UNCHANGED <<connected, registry, latest>>
  BY DEF Next, GatewayStep, TaskStep, StreamStep, FetchInfo, FetchNodes, Reported, Connect, AbortDone, Yield,
         BackoffDone, Start, Stop, StopClosed, Cancel, vars, runvars, viewvars
<1> QED
  BY <1>1, <1>2, <1>3, <1>4, <1>5, <1>6

\* The runtime implements GatewayView: every step of it is one of that
\* specification's, or leaves the view alone.
THEOREM PromiseInRange == Spec /\ []InRange => KeepsPromise
<1>1. /\ TypeOK /\ TypeOK' /\ ViewInv /\ ViewInv' /\ ControlInv /\ RegistryInv /\ LineInv
      /\ Attribution /\ Attribution' /\ TimesInv /\ NumbersInv /\ InRange /\ [Next]_vars
      => [Promise!Next]_(Promise!view)
  BY PromiseStep
<1> QED
  BY <1>1, PromiseInitially, TypeCorrect, ViewInvariant, ControlInvariant, RegistryInvariant,
     LineInvariant, ReadingsAreOwn, TimesInvariant, NumbersInvariant, PTL
     DEF Spec, KeepsPromise, Promise!Spec

\* With no more readings than half the range has numbers, it always does.
THEOREM PromiseKept == ASSUME MaxClock <= SeqMod \div 2 PROVE Spec => KeepsPromise
<1>1. TypeOK /\ TimesInv => InRange
  BY AlwaysInRange
<1> QED
  BY <1>1, TypeCorrect, TimesInvariant, PromiseInRange, PTL

----------------------------------------------------------------------------
\* The last readings are of devices of the registry, with the profile it has.
KeptInv == \A r \in last : \E n \in reg.nodes : n.uid = r.uid /\ n.profile = r.profile

\* All there is of a device's last reading was told with its profile.
CopiesAgree ==
    \A r \in last :
        /\ \A d \in due : d.uid = r.uid /\ d.at = r.at => d.profile = r.profile
        /\ \A m \in Told : m.payload = r.uid /\ m.at = r.at => m.profile = r.profile
        /\ \A e \in snap \cup latest : e.payload = r.uid /\ e.at = r.at => e.node.profile = r.profile

LEMMA LastInitially == Init => KeptInv /\ CopiesAgree
BY DEF Init, GatewayInit, KeptInv, CopiesAgree

LEMMA KeptStep == TypeOK /\ ViewInv /\ KeptInv /\ [Next]_vars => KeptInv'
<1> SUFFICES ASSUME TypeOK, ViewInv, KeptInv, [Next]_vars PROVE KeptInv'
  OBVIOUS
<1>1. CASE RuntimeStep
  BY <1>1, RuntimeChannel DEF KeptInv
<1>2. CASE GatewayNext
  <2>1. ASSUME NEW t, Edit(t) PROVE KeptInv'
    BY <2>1 DEF Edit, Kept, KeptInv
  <2>2. ASSUME NEW n \in reg.nodes, Report(n) PROVE KeptInv'
    <3>1. ReadingOf(n).uid = n.uid /\ ReadingOf(n).profile = n.profile
      BY DEF ReadingOf
    <3>2. reg' = reg /\ \A r \in last' : r \in last \/ r = ReadingOf(n)
      BY <2>2, ReportedReadings
    <3> HIDE DEF ReadingOf
    <3> QED
      BY <3>1, <3>2 DEF KeptInv
  <2>3. CASE reg' = reg /\ last' \subseteq last
    BY <2>3 DEF KeptInv
  <2>4. (reg' = reg /\ last' \subseteq last) \/ (\E t \in Tables : Edit(t)) \/ (\E n \in reg.nodes : Report(n))
    BY <1>2 DEF GatewayNext, SendHello, SendBegin, SendRecord, SendEnd, SendLive, Reboot, LinkLost,
       Noise, Revoke
  <2> QED
    BY <2>1, <2>2, <2>3, <2>4
<1> QED
  BY <1>1, <1>2, NextSteps

LEMMA ReportCopies ==
    ASSUME TypeOK, TimesInv, CopiesAgree, UNCHANGED <<snap, latest>>,
           NEW n \in reg.nodes, Report(n)
    PROVE  CopiesAgree'
<1> DEFINE r == ReadingOf(n)
<1>1. r.at = clock + 1
  BY DEF ReadingOf
<1>2. /\ last' = {s \in last : s.uid # n.uid} \cup {r}
      /\ due' \subseteq due \cup {r} /\ Told' = Told
  BY ReportedReadings
<1> HIDE DEF r
<1>3. \A x \in last \cup due \cup Told \cup snap \cup latest : x.at # r.at
  BY <1>1, Times DEF TimesInv, NotAfterClock
<1>4. ASSUME NEW s \in last', NEW d \in due', d.uid = s.uid, d.at = s.at PROVE d.profile = s.profile
  BY <1>2, <1>3, <1>4 DEF CopiesAgree
<1>5. ASSUME NEW s \in last', NEW m \in Told', m.payload = s.uid, m.at = s.at
      PROVE  m.profile = s.profile
  BY <1>2, <1>3, <1>5 DEF CopiesAgree
<1>6. ASSUME NEW s \in last', NEW e \in snap \cup latest, e.payload = s.uid, e.at = s.at
      PROVE  e.node.profile = s.profile
  BY <1>2, <1>3, <1>6 DEF CopiesAgree
<1> QED
  BY <1>4, <1>5, <1>6 DEF CopiesAgree

LEMMA SendCopies ==
    ASSUME TypeOK, TimesInv, CopiesAgree, UNCHANGED <<snap, latest>>,
           GatewayNext, \A n \in reg.nodes : ~Report(n)
    PROVE  CopiesAgree'
<1>1. /\ last' \subseteq last /\ due' \subseteq due
      /\ \A m \in Told' : m \in Told \/ \E r \in last \cup due :
           m.at = r.at /\ m.payload = r.uid /\ m.profile = r.profile
  BY SentReadings DEF Tells
<1>2. ASSUME NEW s \in last', NEW m \in Told', m.payload = s.uid, m.at = s.at
      PROVE  m.profile = s.profile
  <2>1. \A r \in last : r.uid = s.uid => r = s
    BY <1>1 DEF TimesInv, LastIsLatest
  <2> QED
    BY <1>1, <1>2, <2>1 DEF CopiesAgree
<1> QED
  BY <1>1, <1>2 DEF CopiesAgree

LEMMA RuntimeCopies == ASSUME TypeOK, ViewInv, CopiesAgree, RuntimeStep PROVE CopiesAgree'
<1>1. UNCHANGED last /\ due' \subseteq due /\ Told' \subseteq Told
  BY RuntimeChannel
<1>2. \A e \in (snap \cup latest)' : e \in snap \cup latest \/ \E m \in Told : ReadFrom(e, m)
  BY RuntimeView
<1>3. ASSUME NEW r \in last, NEW e \in (snap \cup latest)', e.payload = r.uid, e.at = r.at
      PROVE  e.node.profile = r.profile
  BY <1>2, <1>3 DEF CopiesAgree, ReadFrom
<1> QED
  BY <1>1, <1>3 DEF CopiesAgree

LEMMA CopiesStep == TypeOK /\ ViewInv /\ TimesInv /\ CopiesAgree /\ [Next]_vars => CopiesAgree'
<1> SUFFICES ASSUME TypeOK, ViewInv, TimesInv, CopiesAgree, GatewayNext,
                    UNCHANGED <<streamvars, runvars>>
             PROVE  CopiesAgree'
  BY NextSteps, RuntimeCopies
<1>1. UNCHANGED <<snap, latest>>
  BY DEF streamvars, runvars, viewvars
<1> QED
  BY <1>1, ReportCopies, SendCopies

\* The gateway keeps the last reading of registered devices only, with their
\* profile, and every copy of it anywhere is the same reading.
THEOREM LastInvariant == Spec => [](KeptInv /\ CopiesAgree)
BY LastInitially, KeptStep, CopiesStep, TypeCorrect, ViewInvariant, TimesInvariant, PTL DEF Spec

----------------------------------------------------------------------------
\* While a session tells the last readings, each of them is still to be sent,
\* in flight, or held by what the task has read.
Held == IF pc \in Serving THEN latest ELSE snap
Holds(e, r) == e.payload = r.uid /\ e.at = r.at /\ e.node.profile = r.profile
Carried(r) == (\E m \in Told : Tells(m, r)) \/ (\E e \in Held : Holds(e, r))

CompleteInv ==
    InSession /\ sess \in {"snap", "live"} => \A r \in last :
        (sess = "snap" /\ r.uid \in pend) \/ r \in due \/ Carried(r)

\* Nothing that is in flight is lost while the session lasts.
LEMMA SentStays ==
    ASSUME TypeOK, GatewayNext, sess' # "none"
    PROVE  Told \subseteq Told'
<1>1. CASE UNCHANGED chan
  BY <1>1 DEF Told
<1>2. ASSUME NEW m \in Message, Send(m) PROVE Told \subseteq Told'
  BY <1>2, SentTold
<1>3. reg.generation \in Nat /\ boot \in Nat /\ last \cup due \subseteq Reading
  BY DEF TypeOK, GatewayTypeOK, Registry
<1>4. ASSUME NEW t, Edit(t) PROVE UNCHANGED chan \/ \E m \in Message : Send(m)
  <2>1. RegistryChanged(reg.generation + 1) \in Message
    BY <1>3 DEF RegistryChanged, Message
  <2> QED
    BY <1>4, <2>1 DEF Edit
<1>5. CASE SendHello \/ SendBegin \/ SendEnd \/ Noise
  <2>1. {Hello(boot, reg.generation), Begin(reg.generation), End(reg.generation), Unknown, Bad}
           \subseteq Message
    BY <1>3 DEF Hello, Begin, End, Unknown, Bad, Message
  <2> QED
    BY <1>2, <1>5, <2>1 DEF SendHello, SendBegin, SendEnd, Noise
<1>6. ASSUME NEW r \in Reading, NEW n \in reg.nodes PROVE Telemetry(n.id, r) \in Message
  BY DEF Telemetry, Message, TypeOK, GatewayTypeOK, Registry, Node, Reading
<1>7. ASSUME NEW r \in last \cup due, SendRecord(r) \/ SendLive(r)
      PROVE  \E m \in Message : Send(m)
  BY <1>3, <1>6, <1>7 DEF SendRecord, SendLive
<1>8. ~Reboot /\ ~LinkLost
  BY DEF Reboot, LinkLost, BreakSession
<1>9. (\E n \in reg.nodes : Report(n)) \/ Revoke => UNCHANGED chan
  BY DEF Report, Revoke
<1> QED
  BY <1>1, <1>2, <1>4, <1>5, <1>7, <1>8, <1>9 DEF GatewayNext

LEMMA SentComplete ==
    ASSUME TypeOK, NEW r \in last \cup due, SendRecord(r) \/ SendLive(r)
    PROVE  \E m \in Told' : Tells(m, r)
<1>1. r \in Reading
  BY DEF TypeOK, GatewayTypeOK
<1>2. PICK n \in reg.nodes : n.uid = r.uid /\ Send(Telemetry(n.id, r))
  BY DEF SendRecord, SendLive
<1>3. PICK m : m = Telemetry(n.id, r)
  OBVIOUS
<1>4. m \in Message /\ m.kind = "telemetry" /\ Tells(m, r)
  BY <1>1, <1>3 DEF Telemetry, Message, Tells, TypeOK, GatewayTypeOK, Registry, Node, Reading
<1> QED
  BY <1>2, <1>3, <1>4, SentTold

LEMMA GatewayComplete ==
    ASSUME TypeOK, TimesInv, CompleteInv, GatewayNext, UNCHANGED <<streamvars, runvars>>
    PROVE  CompleteInv'
<1> SUFFICES ASSUME InSession', sess' \in {"snap", "live"}, NEW r \in last'
             PROVE  (sess' = "snap" /\ r.uid \in pend') \/ r \in due' \/ Carried(r)'
  BY DEF CompleteInv
<1>1. InSession /\ UNCHANGED Held
  BY DEF streamvars, runvars, viewvars, InSession, Held
<1>2. Told \subseteq Told'
  BY SentStays
<1>3. Carried(r) => Carried(r)'
  BY <1>1, <1>2 DEF Carried
<1>4. ASSUME NEW t, Edit(t) PROVE (sess' = "snap" /\ r.uid \in pend') \/ r \in due' \/ Carried(r)'
  BY <1>1, <1>3, <1>4 DEF Edit, Kept, CompleteInv
<1>5. ASSUME NEW n \in reg.nodes, Report(n)
      PROVE  (sess' = "snap" /\ r.uid \in pend') \/ r \in due' \/ Carried(r)'
  BY <1>1, <1>3, <1>5, ReportedReadings DEF CompleteInv
<1>6. CASE SendBegin
  BY <1>6 DEF SendBegin
<1>7. ASSUME NEW s \in last, SendRecord(s)
      PROVE  (sess' = "snap" /\ r.uid \in pend') \/ r \in due' \/ Carried(r)'
  <2>1. r \in last /\ due' = due /\ sess = "snap" /\ sess' = sess /\ pend' = pend \ {s.uid}
    BY <1>7 DEF SendRecord
  <2>2. CASE r.uid = s.uid
    <3>1. r = s
      BY <2>1, <2>2 DEF TimesInv, LastIsLatest
    <3> QED
      BY <1>7, <3>1, SentComplete DEF Carried
  <2>3. CASE r.uid # s.uid
    BY <1>1, <1>3, <2>1, <2>3 DEF CompleteInv
  <2> QED
    BY <2>2, <2>3
<1>8. CASE SendEnd
  BY <1>1, <1>3, <1>8 DEF SendEnd, CompleteInv
<1>9. ASSUME NEW s \in due, SendLive(s)
      PROVE  (sess' = "snap" /\ r.uid \in pend') \/ r \in due' \/ Carried(r)'
  <2>1. r \in last /\ sess = "live" /\ due' = due \ {s}
    BY <1>9 DEF SendLive
  <2>2. CASE r = s
    BY <1>9, <2>2, SentComplete DEF Carried
  <2>3. CASE r # s
    BY <1>1, <1>3, <2>1, <2>3 DEF CompleteInv
  <2> QED
    BY <2>2, <2>3
<1>10. CASE Noise \/ Revoke
  BY <1>1, <1>3, <1>10 DEF Noise, Revoke, CompleteInv
<1>11. ~SendHello /\ ~Reboot /\ ~LinkLost
  BY DEF SendHello, Reboot, LinkLost, BreakSession
<1> QED
  BY <1>4, <1>5, <1>6, <1>7, <1>8, <1>9, <1>10, <1>11 DEF GatewayNext

\* What the task does with a session that it stays in.
LEMMA SessionStays ==
    ASSUME TypeOK, RuntimeStep, InSession', sess' \in {"snap", "live"}
    PROVE  /\ InSession /\ UNCHANGED <<reg, last, sess, pend, due>>
           /\ UNCHANGED chan \/ Receive
<1>1. ~Connect
  BY DEF Connect, OpenSession, Unless, InSession, Opening, Serving
<1>2. ~(Start \/ FetchInfo \/ FetchNodes \/ AbortDone \/ CloseDone \/ BackoffDone \/ Cancel)
  <2>1. ~(Start \/ FetchInfo \/ FetchNodes \/ AbortDone \/ CloseDone \/ BackoffDone)
    BY DEF Start, FetchInfo, FetchNodes, Reported, AbortDone, CloseDone, BackoffDone, AfterSession, Unless,
       InSession, Opening, Serving
  <2>2. ~Cancel
    BY DEF Cancel, Raise, EndSession, InSession, Opening, Serving
  <2> QED
    BY <2>1, <2>2
<1>3. CASE ReceiveHello \/ ReceiveBegin \/ ReceiveRecord \/ OpenStream \/ ReceiveLive
  <2>1. Receive /\ pc \in Opening \cup Serving
    BY <1>3 DEF ReceiveHello, ReceiveBegin, ReceiveRecord, OpenStream, ReceiveEnd, ReceiveLive,
       Opening, Serving
  <2> QED
    BY <2>1 DEF Receive, InSession
<1>4. CASE Reconcile \/ Refresh
  BY <1>4 DEF Reconcile, Refresh, NodesRead, NodesRefused, RequestFails, gwvars, InSession, Opening,
     Serving
<1>5. CASE Yield \/ Stop \/ UNCHANGED vars
  BY <1>5 DEF Yield, Stop, vars, gwvars, streamvars, InSession, Opening, Serving
<1>6. CASE StopClosed
  BY <1>6 DEF StopClosed, InSession
<1> QED
  BY <1>1, <1>2, <1>3, <1>4, <1>5, <1>6 DEF RuntimeStep, TaskStep, StreamStep

LEMMA CarriedOn ==
    ASSUME NEW r, Carried(r),
           \A m \in Told : m \in Told' \/ \E e \in Held' : ReadFrom(e, m),
           \A e \in Held : Holds(e, r) => \E f \in Held' : Holds(f, r)
    PROVE  Carried(r)'
<1>1. CASE \E m \in Told : Tells(m, r)
  BY <1>1 DEF Carried, Tells, Holds, ReadFrom
<1>2. CASE \E e \in Held : Holds(e, r)
  BY <1>2 DEF Carried
<1> QED
  BY <1>1, <1>2 DEF Carried

\* A live reading that is dropped is held already, and one that is taken
\* drops no device's last reading.
LEMMA LiveComplete ==
    ASSUME TypeOK, ViewInv, LineInv, Attribution, TimesInv, NumbersInv, InRange, CopiesAgree,
           pc = "live", Receive, pc' \in Serving, NEW r \in last, Carried(r),
           NEW e \in TelemetryEvents(Incoming), ApplyTelemetry(e)
    PROVE  Carried(r)'
<1>1. Held = latest /\ Held' = latest'
  BY DEF Held, Serving
<1>2. ReadFrom(e, Incoming) /\ Incoming \in Told /\ \A m \in Told : m = Incoming \/ m \in Told'
  BY DecodedReading, ReceivedTold
<1>3. e.payload = e.node.uid /\ \A d \in latest : d.payload = d.node.uid
  BY DecodedOwn DEF Attribution
<1>4. r.at \in Nat /\ e.at \in Nat /\ \A d \in latest : d.at \in Nat
  BY <1>2, Times DEF ReadFrom
<1>5. e.payload = r.uid => e.at <= r.at
  BY <1>2 DEF TimesInv, LastIsLatest, ReadFrom
<1>6. \A d \in latest : d.payload = r.uid => d.at <= r.at
  BY DEF TimesInv, LastIsLatest
<1>7. CASE Superseded(e)
  <2>1. latest' = latest
    BY <1>7 DEF ApplyTelemetry
  <2>2. PICK d \in latest : d.node.uid = e.node.uid /\ e.at <= d.at
    BY <1>7, AppliedIsLater
  <2>3. ASSUME Tells(Incoming, r) PROVE Holds(d, r)
    <3>1. e.payload = r.uid /\ e.at = r.at
      BY <1>2, <2>3 DEF Tells, ReadFrom
    <3>2. d.payload = r.uid
      BY <1>3, <2>2, <3>1
    <3>3. d.at <= r.at /\ r.at <= d.at
      BY <1>6, <2>2, <3>1, <3>2
    <3>4. d.at = r.at
      BY <1>4, <3>3
    <3> QED
      BY <3>2, <3>4 DEF CopiesAgree, Holds
  <2> QED
    BY <1>1, <1>2, <2>1, <2>3 DEF Carried
<1>8. CASE ~Superseded(e)
  <2>1. latest' = Stored(e) /\ \A d \in latest : d.node.uid = e.node.uid => ~(e.at <= d.at)
    BY <1>8, AppliedIsLater DEF ApplyTelemetry
  <2>2. e \in latest' /\ \A d \in latest : d \in latest' \/ d.node.uid = e.node.uid
    BY <2>1 DEF Stored
  <2>3. ASSUME NEW d \in latest, Holds(d, r) PROVE d \in latest'
    <3>1. d.node.uid # e.node.uid
      BY <1>3, <1>4, <1>5, <2>1, <2>3 DEF Holds
    <3> QED
      BY <2>2, <3>1
  <2>4. \A m \in Told : m \in Told' \/ \E f \in Held' : ReadFrom(f, m)
    BY <1>1, <1>2, <2>2
  <2> QED
    BY <1>1, <2>3, <2>4, CarriedOn
<1> QED
  BY <1>7, <1>8

\* Reading the registry again drops no device's last reading.
LEMMA RefreshComplete ==
    ASSUME ViewInv, Attribution, KeptInv, UNCHANGED <<chan, reg>>,
           Refresh, pc' \in Serving, NEW r \in last, Carried(r)
    PROVE  Carried(r)'
<1>1. pc = "refresh" /\ latest' = Retained(latest, reg.nodes) /\ Told' = Told
  BY DEF Refresh, EndSession, ApplyRegistry, Serving, Told
<1>2. Held = latest /\ Held' = latest'
  BY <1>1 DEF Held, Serving
<1>3. ASSUME NEW e \in latest, Holds(e, r) PROVE e \in latest'
  <2>1. PICK n \in reg.nodes : n.uid = r.uid /\ n.profile = r.profile
    BY DEF KeptInv
  <2>2. n.uid = e.node.uid /\ n.profile = e.node.profile
    BY <1>3, <2>1 DEF Holds, Attribution
  <2> QED
    BY <1>1, <2>2 DEF Retained
<1> QED
  BY <1>1, <1>2, <1>3, CarriedOn

LEMMA RuntimeComplete ==
    ASSUME TypeOK, ViewInv, LineInv, Attribution, TimesInv, NumbersInv, InRange,
           KeptInv, CopiesAgree, CompleteInv, RuntimeStep
    PROVE  CompleteInv'
<1> SUFFICES ASSUME InSession', sess' \in {"snap", "live"}, NEW r \in last',
                    Carried(r)
             PROVE  Carried(r)'
  BY SessionStays DEF CompleteInv
<1>1. /\ InSession /\ UNCHANGED <<reg, last>> /\ (UNCHANGED chan \/ Receive) /\ r \in last
  BY SessionStays
<1>2. CASE ReceiveLive
  <2>1. pc' \in Serving /\ pc = "live" /\ Receive
    BY <1>2 DEF ReceiveLive, EndSession, streamvars, Serving, InSession, Opening
  <2>2. CASE \E e \in TelemetryEvents(Incoming) : ApplyTelemetry(e)
    BY <1>1, <2>1, <2>2, LiveComplete
  <2>3. CASE Incoming.kind # "telemetry" /\ UNCHANGED viewvars
    <3>1. \A m \in Told : m \in Told'
      BY <2>1, <2>3, ReceivedTold DEF Told
    <3>2. Held = latest /\ Held' = latest
      BY <2>1, <2>3 DEF Held, viewvars, Serving
    <3> QED
      BY <3>1, <3>2, CarriedOn
  <2>4. pc' # "close"
    BY <2>1 DEF Serving
  <2> QED
    BY <1>2, <2>2, <2>3, <2>4 DEF ReceiveLive, EndSession, streamvars, viewvars
<1>3. CASE Refresh
  <2>1. pc' \in Serving /\ UNCHANGED chan
    BY <1>3 DEF Refresh, NodesRead, NodesRefused, RequestFails, EndSession, gwvars, Serving,
       InSession, Opening
  <2> QED
    BY <1>1, <1>3, <2>1, RefreshComplete
<1>4. CASE OpenStream
  <2>1. Receive /\ Incoming.kind = "end" /\ Held = snap /\ Held' = snap
    BY <1>4 DEF OpenStream, ReceiveEnd, EndValid, Held, Serving, InSession, Opening
  <2>2. \A m \in Told : m \in Told'
    BY <2>1, ReceivedTold DEF Told
  <2> QED
    BY <2>1, <2>2, CarriedOn
<1>5. CASE ReceiveRecord
  <2>1. /\ Receive /\ Held = snap /\ Held' = snap'
        /\ \/ Incoming.kind = "unknown" /\ snap' = snap
           \/ RecordValid(Incoming) /\ snap' = snap \cup TelemetryEvents(Incoming)
    BY <1>5 DEF ReceiveRecord, Raise, streamvars, Held, Serving, InSession, Opening
  <2>2. \A m \in Told : m \in Told' \/ \E e \in Held' : ReadFrom(e, m)
    BY <2>1, ReceivedTold, DecodedReading DEF Told, RecordValid
  <2>3. \A e \in Held : e \in Held'
    BY <2>1
  <2> QED
    BY <2>2, <2>3, CarriedOn
<1>6. CASE ReceiveHello \/ ReceiveBegin
  <2>1. Receive /\ Incoming.kind # "telemetry" /\ Held = snap /\ Held' = snap
    BY <1>6 DEF ReceiveHello, HelloValid, ReceiveBegin, BeginValid, Raise, streamvars, Held, Serving,
       InSession, Opening
  <2>2. \A m \in Told : m \in Told'
    BY <2>1, ReceivedTold DEF Told
  <2> QED
    BY <2>1, <2>2, CarriedOn
<1>7. CASE Reconcile
  <2>1. UNCHANGED chan /\ Held = snap /\ Held' = snap
    BY <1>7 DEF Reconcile, NodesRead, NodesRefused, RequestFails, Raise, gwvars, Held, Serving,
       InSession, Opening
  <2> QED
    BY <2>1, CarriedOn DEF Told
<1>8. CASE Yield \/ Stop \/ StopClosed \/ UNCHANGED vars
  <2>1. UNCHANGED <<chan, snap, latest>> /\ (pc' \in Serving <=> pc \in Serving)
    BY <1>8 DEF Yield, Stop, StopClosed, vars, gwvars, streamvars, runvars, viewvars, InSession,
       Opening, Serving
  <2>2. Told' = Told /\ Held' = Held
    BY <2>1 DEF Told, Held
  <2> QED
    BY <2>2, CarriedOn
<1>9. ~(Start \/ FetchInfo \/ FetchNodes \/ Connect \/ AbortDone \/ CloseDone \/ BackoffDone)
  BY <1>1 DEF Start, FetchInfo, FetchNodes, Reported, Connect, AbortDone, CloseDone, BackoffDone, InSession,
     Opening, Serving
<1>10. ~Cancel
  BY DEF Cancel, Raise, EndSession, InSession, Opening, Serving
<1> QED
  BY <1>2, <1>3, <1>4, <1>5, <1>6, <1>7, <1>8, <1>9, <1>10 DEF RuntimeStep, TaskStep, StreamStep

LEMMA CompleteStep ==
    /\ TypeOK /\ ViewInv /\ LineInv /\ Attribution /\ TimesInv /\ NumbersInv /\ InRange
    /\ KeptInv /\ CopiesAgree /\ CompleteInv /\ [Next]_vars
    => CompleteInv'
BY NextSteps, GatewayComplete, RuntimeComplete

LEMMA CompleteIsSynced ==
    TypeOK /\ ViewInv /\ RegistryInv /\ LineInv /\ Attribution /\ CompleteInv => Synced
<1> SUFFICES ASSUME TypeOK, ViewInv, RegistryInv, LineInv, Attribution, CompleteInv, Drained
             PROVE  UpToDate
  BY DEF Synced
<1>1. pc \in {"live", "yield"} /\ sess = "live" /\ chan = <<>> /\ due = {} /\ InSession
  BY DEF Drained, InSession, Opening, Serving
<1>2. Pos = {0} /\ Told = {}
  BY <1>1 DEF Pos, Told
<1>3. IsLast(0) /\ Gen(0) = sreg.generation
  BY <1>1, <1>2 DEF IsLast, Announces, Announcement, Kind, Gen, ContextKind, ContextGen
<1>4. sreg.generation = reg.generation
  BY <1>1, <1>2, <1>3 DEF LineInv, AnnouncedInv
<1>5. registry = reg
  BY <1>1, <1>4 DEF RegistryInv, Follows, ViewInv, Serving
<1>6. ASSUME NEW r \in last PROVE Shown(r)
  <2>1. Carried(r) /\ Held = latest
    BY <1>1, <1>6 DEF CompleteInv, Held, Serving
  <2>2. PICK e \in latest : Holds(e, r)
    BY <1>2, <2>1 DEF Carried
  <2> QED
    BY <2>2 DEF Holds, Attribution, Shown
<1> QED
  BY <1>5, <1>6 DEF UpToDate

\* A live session that has received all that was sent shows the gateway's
\* registry and the last reading of every device (stream.py, from HELLO to
\* live decoding; runtime.py, _apply_event).
THEOREM SyncedInRange == Spec /\ []InRange => []Synced
<1>1. Init => CompleteInv
  BY DEF Init, GatewayInit, CompleteInv
<1> QED
  BY <1>1, CompleteStep, CompleteIsSynced, TypeCorrect, ViewInvariant, RegistryInvariant,
     LineInvariant, ReadingsAreOwn, TimesInvariant, NumbersInvariant, LastInvariant, PTL DEF Spec

\* With no more readings than half the range has numbers, it always does.
THEOREM SessionsCatchUp == ASSUME MaxClock <= SeqMod \div 2 PROVE Spec => []Synced
<1>1. TypeOK /\ TimesInv => InRange
  BY AlwaysInRange
<1> QED
  BY <1>1, TypeCorrect, TimesInvariant, SyncedInRange, PTL
=============================================================================
