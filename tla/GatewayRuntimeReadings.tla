------------------------ MODULE GatewayRuntimeReadings ------------------------
(***************************************************************************)
(* That the view shows each device its own readings, proved for every      *)
(* instance, whatever edits, faults and restarts come between a reading    *)
(* and its delivery.                                                       *)
(***************************************************************************)
EXTENDS GatewayRuntimeSafety

\* A registry is followed by a later one, or by itself: a generation has one
\* table.
Follows(a, b) ==
    a.generation <= b.generation /\ (a.generation = b.generation => a = b)

\* Whatever was read of the registry, at whatever time, precedes it; and what
\* the next session starts from is no older than what the view shows.
RegistryInv ==
    /\ reg.generation > 0
    /\ Follows(sreg, reg) /\ Follows(cur.registry, reg) /\ Follows(registry, reg)
    /\ pc \in {"idle", "connect"} => Follows(registry, cur.registry)
    /\ pc \in Opening => Follows(registry, sreg)

LEMMA RegistriesInitially == Init => RegistryInv
BY DEF Init, GatewayInit, StreamInit, RegistryInv, Follows, NoRegistry, Opening

\* The gateway's edits move the registry ahead of everything read before.
LEMMA GatewayRegistries == TypeOK /\ RegistryInv /\ GatewayStep => RegistryInv'
<1> SUFFICES ASSUME TypeOK, RegistryInv, GatewayStep PROVE RegistryInv'
  OBVIOUS
<1>1. /\ reg.generation \in Nat /\ sreg.generation \in Nat
      /\ cur.registry.generation \in Nat /\ registry.generation \in Nat
  BY DEF TypeOK, GatewayTypeOK, StreamTypeOK, Registry
<1>2. reg' = reg \/ reg'.generation = reg.generation + 1
  BY DEF GatewayStep, GatewayNext, Edit, Report, SendHello, SendBegin, SendRecord, SendEnd,
         SendLive, Reboot, LinkLost, Noise, Revoke
<1>3. UNCHANGED <<pc, sreg, cur, registry>>
  BY DEF GatewayStep, streamvars, runvars, viewvars
<1> QED
  BY <1>1, <1>2, <1>3 DEF RegistryInv, Follows

LEMMA RegistryStep == TypeOK /\ ViewInv /\ RegistryInv /\ [Next]_vars => RegistryInv'
<1> SUFFICES ASSUME TypeOK, ViewInv, RegistryInv, [Next]_vars PROVE RegistryInv'
  OBVIOUS
<1> USE DEF RegistryInv
<1>0. Follows(NoRegistry, reg) /\ Follows(reg, reg)
  BY DEF Follows, NoRegistry, TypeOK, GatewayTypeOK, Registry
<1>1. CASE UNCHANGED vars
  BY <1>1 DEF vars, gwvars, streamvars, runvars, viewvars
<1>2. CASE Start \/ FetchInfo
  BY <1>2 DEF Start, FetchInfo, Unless, RequestFails, gwvars, runvars, viewvars, Opening, TypeOK,
              StreamTypeOK
<1>3. CASE FetchNodes
  BY <1>0, <1>3 DEF FetchNodes, Reported, NodesRead, NodesRefused, RequestFails, gwvars, viewvars, Opening,
     NoBootstrap, TypeOK, StreamTypeOK
<1>4. CASE Connect
  BY <1>4 DEF Connect, NodesRefused, RequestFails, Unless, gwvars, viewvars, Opening
<1>5. CASE StreamStep
  <2>1. UNCHANGED <<registry, cur, reg>> /\ pc \in Opening /\ pc' \notin {"idle", "connect"}
    BY <1>5 DEF StreamStep, ReceiveHello, Reconcile, ReceiveBegin, ReceiveRecord, Receive,
       NodesRead, NodesRefused, RequestFails, Raise, gwvars, streamvars, runvars, viewvars, Opening
  <2>2. sreg' = sreg \/ sreg' = reg
    BY <1>5 DEF StreamStep, ReceiveHello, Reconcile, ReceiveBegin, ReceiveRecord, Raise, streamvars
  <2> QED
    BY <1>0, <2>1, <2>2
<1>6. CASE OpenStream
  BY <1>6 DEF OpenStream, ReceiveEnd, Receive, Opening
<1>7. CASE AbortDone \/ CloseDone
  BY <1>0, <1>7 DEF AbortDone, CloseDone, AfterSession, Unless, viewvars, Opening
<1>8. CASE ReceiveLive
  BY <1>8 DEF ReceiveLive, Receive, ApplyTelemetry, EndSession, streamvars, viewvars, Opening
<1>9. CASE Refresh
  BY <1>0, <1>9 DEF Refresh, NodesRead, NodesRefused, RequestFails, ApplyRegistry, EndSession,
     gwvars, viewvars, Opening
<1>10. CASE BackoffDone
  BY <1>0, <1>10 DEF BackoffDone, Unless, NoBootstrap, gwvars, viewvars, Opening
<1>11. CASE Yield \/ Stop \/ StopClosed
  BY <1>11 DEF Yield, Stop, StopClosed, gwvars, streamvars, runvars, viewvars, Opening
<1>12. CASE Cancel
  <2>1. UNCHANGED <<reg, cur, registry>> /\ (sreg' = sreg \/ sreg' = NoRegistry)
    BY <1>12 DEF Cancel, Raise, EndSession, gwvars, viewvars
  <2>2. pc' \notin Opening \cup {"idle", "connect"}
    BY <1>12 DEF Cancel, Raise, EndSession, Opening
  <2> QED
    BY <1>0, <2>1, <2>2
<1> QED
  BY <1>1, <1>2, <1>3, <1>4, <1>5, <1>6, <1>7, <1>8, <1>9, <1>10, <1>11, <1>12,
     GatewayRegistries DEF Next, TaskStep

\* Whatever was read of the registry precedes it, and equal generations are
\* one table (runtime.py and stream.py compare generations, never tables).
THEOREM RegistryInvariant == Spec => []RegistryInv
BY RegistriesInitially, RegistryStep, TypeCorrect, ViewInvariant, PTL DEF Spec

----------------------------------------------------------------------------
(***************************************************************************)
(* The generations announced on the channel.  Position 0 is the            *)
(* announcement the task has already received and acts on: SNAPSHOT_BEGIN  *)
(* while it reads the snapshot, the end of it while it serves, and         *)
(* REGISTRY_CHANGED while it refreshes.                                    *)
(***************************************************************************)
InSession == pc \in Opening \cup Serving

ContextKind ==
    IF pc = "snapshot" THEN "begin"
    ELSE IF pc \in {"live", "yield"} THEN "end"
    ELSE IF pc = "refresh" THEN "registry_changed"
    ELSE "unknown"

ContextGen ==
    IF pc = "snapshot" THEN begun ELSE IF pc = "refresh" THEN target ELSE sreg.generation

Pos == 0 .. Len(chan)
Kind(i) == IF i = 0 THEN ContextKind ELSE chan[i].kind
Gen(i)  == IF i = 0 THEN ContextGen ELSE chan[i].generation

Announcement == {"begin", "end", "registry_changed"}
Announces(i) == Kind(i) \in Announcement
IsLast(i) == Announces(i) /\ \A j \in Pos : j > i => ~Announces(j)

\* The telemetry at k is decoded, if it is, under the announcement at i.
Under(i, k) ==
    /\ i < k /\ Announces(i) /\ Kind(k) = "telemetry"
    /\ \A j \in Pos : i < j /\ j < k => ~Announces(j)

\* What has been announced of the session that the task is in: nothing before
\* its snapshot, only the beginning during it, and the current generation at
\* last once it is complete.
AnnouncedInv ==
    InSession =>
        /\ \A i \in Pos : Announces(i) => Gen(i) <= reg.generation
        /\ sess \in {"hello", "begin"} => \A i \in Pos : ~Announces(i)
        /\ sess = "snap" => \A i \in Pos : Announces(i) => Kind(i) = "begin"
        /\ sess = "live" => \A i \in Pos : IsLast(i) => Kind(i) # "begin" /\ Gen(i) = reg.generation

\* A message names the device that has its id in a registry, or none does.
Fits(m, r) == \A n \in r.nodes : n.id = m.id => n.uid = m.payload

\* The snapshot begun at i cannot end with the generation it began with.
Spoiled(i) ==
    /\ sess = "snap" => reg.generation > Gen(i)
    /\ \A j \in Pos : j > i /\ Kind(j) = "end" => Gen(j) # Gen(i)

\* A message that was sent under the generation of the stream's registry, or
\* of the gateway's, fits it, but for snapshots that an edit has spoiled.
FlightInv ==
    InSession => \A i, k \in Pos : Under(i, k) =>
        \A r \in {sreg, reg} : r.generation = Gen(i) =>
            Fits(chan[k], r) \/ (Kind(i) = "begin" /\ Spoiled(i))

SnapshotInv ==
    pc = "snapshot" =>
        /\ begun = sreg.generation
        /\ Spoiled(0) \/ \A e \in snap : e.payload = e.node.uid

\* The telemetry in flight.
Told == {chan[i] : i \in {j \in 1 .. Len(chan) : chan[j].kind = "telemetry"}}

LEMMA ReceivedWord ==
    ASSUME TypeOK, Receive
    PROVE  /\ Len(chan) \in Nat \ {0} /\ Len(chan') = Len(chan) - 1
           /\ Incoming = chan[1] /\ Incoming \in Message
           /\ \A i \in 1 .. Len(chan') : chan'[i] = chan[i + 1]
           /\ UNCHANGED <<reg, boot, last, clock, seq, sess, pend, due, revoked, faults>>
<1>1. chan \in Seq(Message) /\ chan # <<>> /\ chan' = Tail(chan)
  BY DEF TypeOK, GatewayTypeOK, Receive
<1> QED
  BY <1>1, HeadTailProperties, LenProperties, EmptySeq DEF Incoming, Receive

LEMMA ReceivedTold ==
    ASSUME TypeOK, Receive
    PROVE  /\ Told' \subseteq Told
           /\ \A m \in Told : m = Incoming \/ m \in Told'
           /\ Incoming.kind = "telemetry" => Incoming \in Told
<1>1. ASSUME NEW i \in 1 .. Len(chan), i # 1 PROVE i - 1 \in 1 .. Len(chan') /\ chan'[i - 1] = chan[i]
  BY <1>1, ReceivedWord
<1>2. ASSUME NEW i \in 1 .. Len(chan') PROVE i + 1 \in 1 .. Len(chan) /\ chan'[i] = chan[i + 1]
  BY ReceivedWord
<1>3. 1 \in 1 .. Len(chan)
  BY ReceivedWord
<1>4. Told' \subseteq Told
  BY <1>2 DEF Told
<1>5. ASSUME NEW m \in Told PROVE m = Incoming \/ m \in Told'
  <2>1. PICK i \in 1 .. Len(chan) : chan[i].kind = "telemetry" /\ m = chan[i]
    BY DEF Told
  <2>2. CASE i = 1
    BY <2>1, <2>2, ReceivedWord
  <2>3. CASE i # 1
    BY <2>1, <2>3, <1>1 DEF Told
  <2> QED
    BY <2>2, <2>3
<1>6. Incoming.kind = "telemetry" => Incoming \in Told
  BY <1>3, ReceivedWord DEF Told
<1> QED
  BY <1>4, <1>5, <1>6

LEMMA SentWord ==
    ASSUME TypeOK, NEW m \in Message, Send(m)
    PROVE  /\ Len(chan) \in Nat /\ Len(chan') = Len(chan) + 1
           /\ chan'[Len(chan) + 1] = m
           /\ \A i \in 1 .. Len(chan) : chan'[i] = chan[i]
<1>1. chan \in Seq(Message) /\ chan' = Append(chan, m)
  BY DEF TypeOK, GatewayTypeOK, Send
<1> QED
  BY <1>1, AppendProperties, LenProperties

LEMMA SentTold ==
    ASSUME TypeOK, NEW m \in Message, Send(m)
    PROVE  Told' = IF m.kind = "telemetry" THEN Told \cup {m} ELSE Told
<1>1. \A i \in 1 .. Len(chan') : i = Len(chan) + 1 \/ i \in 1 .. Len(chan)
  BY SentWord
<1>2. 1 .. Len(chan) \subseteq 1 .. Len(chan') /\ Len(chan) + 1 \in 1 .. Len(chan')
  BY SentWord
<1> QED
  BY <1>1, <1>2, SentWord DEF Told

\* A session that breaks leaves the first messages, and then CLOSED.
LEMMA BrokenWord ==
    ASSUME TypeOK, BreakSession, sess # "none"
    PROVE  \E k \in 0 .. Len(chan) :
               /\ Len(chan') = k + 1 /\ chan'[k + 1].kind = "closed"
               /\ \A i \in 1 .. k : chan'[i] = chan[i]
<1>1. PICK k \in 0 .. Len(chan) : chan' = Append(SubSeq(chan, 1, k), Closed)
  BY DEF BreakSession
<1>2. chan \in Seq(Message) /\ Closed \in Message /\ Closed.kind = "closed"
  BY DEF TypeOK, GatewayTypeOK, Closed, Message
<1>3. Len(chan) \in Nat /\ \A i \in 1 .. k : chan[i] \in Message
  BY <1>2, LenProperties, ElementOfSeq
<1>4. /\ SubSeq(chan, 1, k) \in Seq(Message) /\ Len(SubSeq(chan, 1, k)) = k
      /\ \A i \in 1 .. k : SubSeq(chan, 1, k)[i] = chan[i]
  BY <1>3, SubSeqProperties
<1> HIDE DEF Closed
<1>5. /\ Len(chan') = k + 1 /\ chan'[k + 1] = Closed
      /\ \A i \in 1 .. k : chan'[i] = chan[i]
  BY <1>1, <1>2, <1>4, AppendProperties
<1> QED
  BY <1>2, <1>3, <1>5

LEMMA BrokenTold ==
    ASSUME TypeOK, BreakSession
    PROVE  Told' \subseteq Told
<1>1. CASE sess = "none"
  BY <1>1 DEF BreakSession, Told
<1>2. CASE sess # "none"
  <2>1. PICK k \in 0 .. Len(chan) :
              /\ Len(chan') = k + 1 /\ chan'[k + 1].kind = "closed"
              /\ \A i \in 1 .. k : chan'[i] = chan[i]
    BY <1>2, BrokenWord
  <2>2. Len(chan) \in Nat
    BY LenProperties DEF TypeOK, GatewayTypeOK
  <2>3. ASSUME NEW i \in 1 .. Len(chan'), chan'[i].kind = "telemetry"
        PROVE  i \in 1 .. Len(chan) /\ chan'[i] = chan[i]
    BY <2>1, <2>2, <2>3
  <2> QED
    BY <2>3 DEF Told
<1> QED
  BY <1>1, <1>2

----------------------------------------------------------------------------
\* Positions 0 .. n are, after the step, what e and d + 1 .. d + n were: a
\* message is received with d = 1, and becomes the context with e = 1.
Before(i, e, d) == IF i = 0 THEN e ELSE i + d

Remains(e, d, n) ==
    /\ d \in {0, 1} /\ e \in {0, d} /\ n \in Nat
    /\ Len(chan) \in Nat /\ Len(chan') \in Nat
    /\ n <= Len(chan') /\ n + d <= Len(chan)
    /\ \/ ContextKind' = Kind(e)
       \/ Kind(e) = "registry_changed" /\ ContextKind' = "end"
    /\ Announces(e) => ContextGen' = Gen(e)
    /\ e < d => ~Announces(d)
    /\ \A i \in 1 .. n : chan'[i] = chan[i + d]

LEMMA RemainsBefore ==
    ASSUME NEW e, NEW d, NEW n, Remains(e, d, n), NEW i \in 0 .. n
    PROVE  /\ i \in Pos' /\ Before(i, e, d) \in Pos
           /\ Announces(i)' <=> Announces(Before(i, e, d))
           /\ Announces(i)' => Gen(i)' = Gen(Before(i, e, d))
           /\ Kind(i)' = "begin" <=> Kind(Before(i, e, d)) = "begin"
           /\ i > 0 => chan'[i] = chan[i + d]
<1>1. CASE i = 0
  BY <1>1 DEF Remains, Before, Pos, Announces, Announcement, Kind, Gen
<1>2. CASE i # 0
  BY <1>2 DEF Remains, Before, Pos, Announces, Announcement, Kind, Gen
<1> QED
  BY <1>1, <1>2

LEMMA RemainsUnder ==
    ASSUME NEW e, NEW d, NEW n, Remains(e, d, n),
           NEW i \in 0 .. n, NEW k \in 0 .. n, Under(i, k)'
    PROVE  Under(Before(i, e, d), Before(k, e, d)) /\ k > 0
<1>1. i < k /\ i \in Int /\ k \in Int /\ k > 0 /\ d \in {0, 1} /\ e \in {0, d}
  BY DEF Under, Remains
<1>2. Before(i, e, d) < Before(k, e, d) /\ Before(i, e, d) \in Int /\ Before(k, e, d) = k + d
  BY <1>1 DEF Before
<1>3. Announces(Before(i, e, d))
  BY RemainsBefore DEF Under
<1>4. Kind(Before(k, e, d)) = "telemetry"
  BY <1>1, <1>2, RemainsBefore DEF Under, Kind
<1>5. ASSUME NEW j \in Pos, Before(i, e, d) < j, j < k + d PROVE ~Announces(j)
  <2>1. CASE j - d \in 1 .. n
    <3>1. i < j - d /\ j - d < k /\ Before(j - d, e, d) = j
      BY <1>1, <1>5, <2>1 DEF Before, Remains, Pos
    <3>2. j - d \in 0 .. n /\ j - d \in Pos'
      BY <2>1, RemainsBefore
    <3> QED
      BY <3>1, <3>2, RemainsBefore DEF Under
  <2>2. CASE j - d \notin 1 .. n
    <3>1. e < d /\ j = d
      BY <1>1, <1>2, <1>5, <2>2 DEF Before, Remains, Pos
    <3> QED
      BY <3>1 DEF Remains
  <2> QED
    BY <2>1, <2>2
<1> QED
  BY <1>1, <1>2, <1>3, <1>4, <1>5 DEF Under

\* A snapshot that is spoiled stays so while no end of it is sent.
LEMMA RemainsSpoiled ==
    ASSUME NEW e, NEW d, NEW n, Remains(e, d, n), NEW i \in 0 .. n,
           Announces(i)', Spoiled(Before(i, e, d)),
           sess' = "snap" => sess = "snap", reg'.generation >= reg.generation,
           reg.generation \in Nat, reg'.generation \in Nat, Gen(Before(i, e, d)) \in Nat,
           \A j \in Pos' : j > n /\ Kind(j)' = "end" => Gen(j)' # Gen(i)'
    PROVE  Spoiled(i)'
<1>1. sess' = "snap" => reg'.generation > Gen(i)'
  BY RemainsBefore DEF Spoiled
<1>2. ASSUME NEW j \in Pos', j > i, Kind(j)' = "end" PROVE Gen(j)' # Gen(i)'
  <2>1. CASE j > n
    BY <1>2, <2>1
  <2>2. CASE j <= n
    <3>1. j \in 0 .. n /\ j > 0
      BY <1>2, <2>2 DEF Pos, Remains
    <3>2. Before(j, e, d) > Before(i, e, d) /\ Before(j, e, d) \in Pos /\ Before(j, e, d) > 0
      <4>1. Before(j, e, d) \in Pos
        BY <3>1, RemainsBefore
      <4> QED
        BY <1>2, <3>1, <4>1 DEF Before, Remains
    <3>3. Kind(Before(j, e, d)) = "end"
      BY <1>2, <3>1, <3>2, RemainsBefore DEF Kind, Before
    <3>4. Gen(j)' = Gen(Before(j, e, d))
      BY <1>2, <3>1, RemainsBefore DEF Announces, Announcement
    <3> QED
      BY <3>2, <3>3, <3>4, RemainsBefore DEF Spoiled
  <2> QED
    BY <2>1, <2>2 DEF Pos, Remains
<1> QED
  BY <1>1, <1>2 DEF Spoiled

LEMMA AnnouncedNumber == ASSUME TypeOK, NEW i \in Pos, Announces(i) PROVE Gen(i) \in Nat
<1>1. CASE i = 0
  BY <1>1 DEF TypeOK, StreamTypeOK, Registry, Gen, ContextGen
<1>2. CASE i # 0
  <2>1. chan \in Seq(Message) /\ i \in 1 .. Len(chan)
    BY <1>2, LenProperties DEF TypeOK, GatewayTypeOK, Pos
  <2>2. chan[i] \in Message /\ chan[i].kind \in Announcement
    BY <1>2, <2>1, ElementOfSeq DEF Announces, Kind
  <2> QED
    BY <1>2, <2>2 DEF Message, Announcement, Gen
<1> QED
  BY <1>1, <1>2

\* A step that announces nothing leaves the announcements of the session as
\* they were, or loses the last of them when the session breaks.
LEMMA AnnouncedRemains ==
    ASSUME AnnouncedInv, InSession, NEW e, NEW d, NEW n, Remains(e, d, n),
           reg' = reg,
           sess' \in {sess, "none"} \/ (sess = "hello" /\ sess' = "begin"),
           sess' # "none" => n + d = Len(chan),
           \A j \in Pos' : j > n => ~Announces(j)'
    PROVE  AnnouncedInv'
<1>1. ASSUME NEW i \in Pos', Announces(i)' PROVE i \in 0 .. n
  BY <1>1 DEF Pos, Remains
<1>2. ASSUME NEW i \in Pos', IsLast(i)', sess' # "none"
      PROVE  i \in 0 .. n /\ IsLast(Before(i, e, d))
  <2>1. i \in 0 .. n /\ Announces(Before(i, e, d))
    BY <1>1, <1>2, RemainsBefore DEF IsLast
  <2>2. ASSUME NEW j \in Pos, j > Before(i, e, d), Announces(j) PROVE FALSE
    <3>1. j - d \in 1 .. n /\ j - d > i /\ Before(j - d, e, d) = j
      BY <1>2, <2>1, <2>2 DEF Before, Remains, Pos
    <3>2. j - d \in 0 .. n /\ j - d \in Pos'
      BY <3>1, RemainsBefore
    <3> QED
      BY <1>2, <2>2, <3>1, <3>2, RemainsBefore DEF IsLast
  <2> QED
    BY <2>1, <2>2 DEF IsLast
<1>3. ASSUME NEW i \in Pos', Announces(i)' PROVE Gen(i)' <= reg'.generation
  BY <1>1, <1>3, RemainsBefore DEF AnnouncedInv
<1>4. ASSUME sess' \in {"hello", "begin"}, NEW i \in Pos' PROVE ~Announces(i)'
  BY <1>1, <1>4, RemainsBefore DEF AnnouncedInv
<1>5. ASSUME sess' = "snap", NEW i \in Pos', Announces(i)' PROVE Kind(i)' = "begin"
  BY <1>1, <1>5, RemainsBefore DEF AnnouncedInv
<1>6. ASSUME sess' = "live", NEW i \in Pos', IsLast(i)'
      PROVE  Kind(i)' # "begin" /\ Gen(i)' = reg'.generation
  BY <1>2, <1>6, RemainsBefore DEF AnnouncedInv, IsLast
<1> QED
  BY <1>3, <1>4, <1>5, <1>6 DEF AnnouncedInv

\* What was in flight before the step fits the registries as it did.
LEMMA FlightRemains ==
    ASSUME TypeOK, TypeOK', AnnouncedInv, FlightInv, InSession,
           NEW e, NEW d, NEW n, Remains(e, d, n),
           reg' = reg \/ reg'.generation = reg.generation + 1, sreg' \in {sreg, reg},
           sess' = "snap" => sess = "snap",
           \A j \in Pos' : j > n /\ Kind(j)' = "end" => sess = "snap" /\ Gen(j)' = reg.generation,
           NEW i \in 0 .. n, NEW k \in 0 .. n, Under(i, k)',
           NEW r \in {sreg', reg'}, r.generation = Gen(i)'
    PROVE  Fits(chan'[k], r) \/ (Kind(i)' = "begin" /\ Spoiled(i)')
<1> DEFINE b == Before(i, e, d)
<1>1. reg.generation \in Nat /\ reg'.generation \in Nat
  BY DEF TypeOK, GatewayTypeOK, Registry
<1>2. b \in Pos /\ Announces(b) /\ Announces(i)' /\ Gen(i)' = Gen(b) /\ Gen(b) \in Nat
  BY RemainsBefore, AnnouncedNumber DEF Under
<1>3. Gen(b) <= reg.generation
  BY <1>2 DEF AnnouncedInv
<1>4. r \in {sreg, reg}
  BY <1>1, <1>2, <1>3
<1>5. Under(b, k + d) /\ chan'[k] = chan[k + d] /\ k + d \in Pos /\ Kind(k + d) = "telemetry"
      /\ k > 0
  <2>1. Under(b, Before(k, e, d)) /\ k > 0
    BY RemainsUnder
  <2>2. Before(k, e, d) = k + d
    BY <2>1 DEF Before
  <2> QED
    BY <2>1, <2>2, RemainsBefore DEF Under
<1>6. k + d > 0
  BY <1>5 DEF Remains
<1>7. Fits(chan[k + d], r) \/ (Kind(b) = "begin" /\ Spoiled(b))
  BY <1>2, <1>4, <1>5 DEF FlightInv
<1>8. ASSUME Kind(b) = "begin", Spoiled(b) PROVE Kind(i)' = "begin" /\ Spoiled(i)'
  <2>1. \A j \in Pos' : j > n /\ Kind(j)' = "end" => Gen(j)' # Gen(i)'
    BY <1>1, <1>2, <1>8 DEF Spoiled
  <2>2. reg'.generation >= reg.generation
    BY <1>1
  <2> QED
    BY <1>1, <1>2, <1>8, <2>1, <2>2, RemainsBefore, RemainsSpoiled
<1> QED
  BY <1>5, <1>7, <1>8

LEMMA QuietStep ==
    ASSUME TypeOK, TypeOK', AnnouncedInv, FlightInv, InSession,
           NEW e, NEW d, NEW n, Remains(e, d, n),
           reg' = reg, sreg' \in {sreg, reg},
           sess' \in {sess, "none"} \/ (sess = "hello" /\ sess' = "begin"),
           sess' # "none" => n + d = Len(chan),
           \A j \in Pos' : j > n => Kind(j)' \notin Announcement \cup {"telemetry"}
    PROVE  AnnouncedInv' /\ FlightInv'
<1>1. AnnouncedInv'
  BY AnnouncedRemains DEF Announces
<1>2. \A j \in Pos' : j \in 0 .. n \/ j > n
  BY DEF Pos, Remains
<1>3. ASSUME NEW i \in Pos', NEW k \in Pos', Under(i, k)' PROVE i \in 0 .. n /\ k \in 0 .. n
  BY <1>2, <1>3 DEF Under, Announces
<1>4. \A j \in Pos' : j > n => Kind(j)' # "end"
  BY DEF Announcement
<1> QED
  BY <1>1, <1>3, <1>4, FlightRemains DEF FlightInv

----------------------------------------------------------------------------
\* How the steps move the channel and the context.
LEMMA KeptWord ==
    ASSUME TypeOK, UNCHANGED <<chan, pc, sreg, target, begun>>
    PROVE  Remains(0, 0, Len(chan)) /\ Len(chan') = Len(chan)
<1>1. Len(chan) \in Nat
  BY LenProperties DEF TypeOK, GatewayTypeOK
<1>2. UNCHANGED <<ContextKind, ContextGen>>
  BY DEF ContextKind, ContextGen
<1> QED
  BY <1>1, <1>2 DEF Remains, Kind, Gen

LEMMA GrownWord ==
    ASSUME TypeOK, NEW m \in Message, Send(m), UNCHANGED <<pc, sreg, target, begun>>
    PROVE  /\ Remains(0, 0, Len(chan))
           /\ Len(chan) \in Nat /\ Pos' = Pos \cup {Len(chan) + 1}
           /\ \A j \in Pos' : j > Len(chan) =>
                j = Len(chan) + 1 /\ Kind(j)' = m.kind /\ Gen(j)' = m.generation /\ chan'[j] = m
<1>1. /\ Len(chan) \in Nat /\ Len(chan') = Len(chan) + 1 /\ chan'[Len(chan) + 1] = m
      /\ \A i \in 1 .. Len(chan) : chan'[i] = chan[i]
  BY SentWord
<1>2. UNCHANGED <<ContextKind, ContextGen>>
  BY DEF ContextKind, ContextGen
<1>3. Remains(0, 0, Len(chan))
  BY <1>1, <1>2 DEF Remains, Kind, Gen
<1>4. Pos' = Pos \cup {Len(chan) + 1}
  BY <1>1 DEF Pos
<1>5. ASSUME NEW j \in Pos', j > Len(chan)
      PROVE  j = Len(chan) + 1 /\ Kind(j)' = m.kind /\ Gen(j)' = m.generation /\ chan'[j] = m
  <2>1. j = Len(chan) + 1 /\ j # 0
    BY <1>1, <1>5 DEF Pos
  <2> QED
    BY <1>1, <2>1 DEF Kind, Gen
<1> QED
  BY <1>1, <1>3, <1>4, <1>5

LEMMA CutWord ==
    ASSUME TypeOK, BreakSession, UNCHANGED <<pc, sreg, target, begun>>
    PROVE  \E n \in Nat :
               Remains(0, 0, n) /\ \A j \in Pos' : j > n => Kind(j)' = "closed"
<1>1. CASE sess = "none"
  <2>1. Remains(0, 0, Len(chan)) /\ Len(chan') = Len(chan) /\ Len(chan) \in Nat
    BY <1>1, KeptWord DEF BreakSession, Remains
  <2> QED
    BY <2>1 DEF Pos
<1>2. CASE sess # "none"
  <2>1. PICK k \in 0 .. Len(chan) :
              /\ Len(chan') = k + 1 /\ chan'[k + 1].kind = "closed"
              /\ \A i \in 1 .. k : chan'[i] = chan[i]
    BY <1>2, BrokenWord
  <2>2. Len(chan) \in Nat
    BY LenProperties DEF TypeOK, GatewayTypeOK
  <2>3. UNCHANGED <<ContextKind, ContextGen>>
    BY DEF ContextKind, ContextGen
  <2>4. Remains(0, 0, k)
    BY <2>1, <2>2, <2>3 DEF Remains, Kind, Gen
  <2>5. ASSUME NEW j \in Pos', j > k PROVE Kind(j)' = "closed"
    BY <2>1, <2>2, <2>5 DEF Pos, Kind
  <2> QED
    BY <2>2, <2>4, <2>5
<1> QED
  BY <1>1, <1>2

\* A snapshot that is being read stays spoiled, or what it was, while the
\* gateway acts.
LEMMA StaysSpoiled ==
    ASSUME TypeOK, TypeOK', pc = "snapshot", Spoiled(0), NEW d, NEW n, Remains(0, d, n),
           reg' = reg \/ reg'.generation = reg.generation + 1,
           sess' = "snap" => sess = "snap",
           \A j \in Pos' : j > n /\ Kind(j)' = "end" => sess = "snap" /\ Gen(j)' = reg.generation,
           UNCHANGED <<pc, begun>>
    PROVE  Spoiled(0)'
<1>1. reg.generation \in Nat /\ reg'.generation \in Nat /\ begun \in Nat
  BY DEF TypeOK, GatewayTypeOK, StreamTypeOK, Registry
<1>2. 0 \in 0 .. n /\ Before(0, 0, d) = 0 /\ 0 \in Pos
  BY DEF Remains, Before, Pos
<1>3. Announces(0) /\ Gen(0) = begun /\ Announces(0)' /\ Gen(0)' = begun
  BY DEF Announces, Announcement, Kind, Gen, ContextKind, ContextGen
<1>4. ASSUME NEW j \in Pos', j > n, Kind(j)' = "end" PROVE Gen(j)' # Gen(0)'
  BY <1>1, <1>3, <1>4 DEF Spoiled
<1>5. reg'.generation >= reg.generation
  BY <1>1
<1> QED
  BY <1>1, <1>2, <1>3, <1>4, <1>5, RemainsSpoiled

LEMMA SnapshotRemains ==
    ASSUME TypeOK, TypeOK', SnapshotInv, NEW d, NEW n, Remains(0, d, n),
           reg' = reg \/ reg'.generation = reg.generation + 1,
           sess' = "snap" => sess = "snap",
           \A j \in Pos' : j > n /\ Kind(j)' = "end" => sess = "snap" /\ Gen(j)' = reg.generation,
           UNCHANGED <<pc, sreg, begun, snap>>
    PROVE  SnapshotInv'
BY StaysSpoiled DEF SnapshotInv

LineInv == AnnouncedInv /\ FlightInv /\ SnapshotInv

\* Steps of the gateway that neither announce nor report anything.
LEMMA QuietGateway ==
    ASSUME TypeOK, TypeOK', LineInv, UNCHANGED <<pc, sreg, target, begun, snap>>,
           NEW n, Remains(0, 0, n), reg' = reg,
           sess' \in {sess, "none"} \/ (sess = "hello" /\ sess' = "begin"),
           sess' # "none" => n = Len(chan),
           \A j \in Pos' : j > n => Kind(j)' \notin Announcement \cup {"telemetry"}
    PROVE  LineInv'
<1>1. CASE InSession
  <2>1. sess' # "none" => n + 0 = Len(chan)
    BY DEF Remains
  <2>2. AnnouncedInv' /\ FlightInv'
    BY <1>1, <2>1, QuietStep DEF LineInv
  <2>3. SnapshotInv'
    BY SnapshotRemains DEF LineInv, Announcement
  <2> QED
    BY <2>2, <2>3 DEF LineInv
<1>2. CASE ~InSession
  BY <1>2 DEF InSession, LineInv, AnnouncedInv, FlightInv, SnapshotInv, Opening
<1> QED
  BY <1>1, <1>2

\* A message that is neither an announcement nor telemetry.
LEMMA QuietSend ==
    ASSUME TypeOK, TypeOK', LineInv, UNCHANGED <<pc, sreg, target, begun, snap>>, reg' = reg,
           NEW m \in Message, Send(m), m.kind \notin Announcement \cup {"telemetry"},
           sess' = sess \/ (sess = "hello" /\ sess' = "begin")
    PROVE  LineInv'
BY GrownWord, QuietGateway

\* The announcement of the current generation becomes the last one.
LEMMA AnnouncingSend ==
    ASSUME TypeOK, LineInv, InSession, UNCHANGED <<pc, sreg, target, begun>>,
           NEW m \in Message, Send(m), m.kind \in Announcement, m.generation = reg'.generation,
           reg' = reg \/ reg'.generation = reg.generation + 1,
           \/ sess = "begin" /\ sess' = "snap" /\ m.kind = "begin"
           \/ sess' = "live" /\ m.kind # "begin"
    PROVE  AnnouncedInv'
<1>1. reg.generation \in Nat
  BY DEF TypeOK, GatewayTypeOK, Registry
<1>2. /\ Remains(0, 0, Len(chan)) /\ Len(chan) \in Nat
      /\ Pos' = Pos \cup {Len(chan) + 1}
      /\ \A j \in Pos' : j > Len(chan) => Kind(j)' = m.kind /\ Gen(j)' = m.generation
  BY GrownWord
<1>3. \A j \in Pos' : j \in 0 .. Len(chan) \/ j > Len(chan)
  BY <1>2 DEF Pos
<1>4. ASSUME NEW i \in 0 .. Len(chan)
      PROVE  /\ Announces(i)' <=> Announces(i)
             /\ Announces(i)' => Gen(i)' = Gen(i)
             /\ i \in Pos
  <2>1. Before(i, 0, 0) = i
    BY <1>2 DEF Before
  <2> QED
    BY <1>2, <2>1, RemainsBefore
<1>5. ASSUME NEW i \in Pos', Announces(i)' PROVE Gen(i)' <= reg'.generation
  <2>1. CASE i \in 0 .. Len(chan)
    BY <1>1, <1>4, <1>5, <2>1, AnnouncedNumber DEF LineInv, AnnouncedInv
  <2>2. CASE i > Len(chan)
    BY <1>1, <1>2, <2>2
  <2> QED
    BY <1>3, <2>1, <2>2
<1>6. ASSUME sess' = "snap", NEW i \in Pos', Announces(i)' PROVE Kind(i)' = "begin"
  <2>1. i > Len(chan)
    BY <1>3, <1>4, <1>6 DEF LineInv, AnnouncedInv
  <2> QED
    BY <1>2, <1>6, <2>1
<1>7. ASSUME sess' = "live", NEW i \in Pos', IsLast(i)'
      PROVE  Kind(i)' # "begin" /\ Gen(i)' = reg'.generation
  <2>1. PICK p \in Pos' : p = Len(chan) + 1 /\ p > Len(chan)
    BY <1>2
  <2>2. Announces(p)'
    BY <1>2, <2>1 DEF Announces
  <2>3. ~(p > i)
    BY <1>7, <2>2 DEF IsLast
  <2>4. i > Len(chan)
    BY <1>2, <1>3, <2>1, <2>3
  <2> QED
    BY <1>2, <1>7, <2>4
<1> QED
  BY <1>5, <1>6, <1>7 DEF AnnouncedInv

LEMMA SendBeginLine ==
    ASSUME TypeOK, TypeOK', LineInv, InSession, UNCHANGED <<pc, sreg, target, begun, snap>>,
           SendBegin
    PROVE  LineInv'
<1>1. Begin(reg.generation) \in Message /\ Begin(reg.generation).kind = "begin"
      /\ Begin(reg.generation).generation = reg.generation
  <2>1. reg.generation \in Nat
    BY DEF TypeOK, GatewayTypeOK, Registry
  <2> QED
    BY <2>1 DEF Begin, Message
<1>2. Send(Begin(reg.generation)) /\ sess = "begin" /\ sess' = "snap" /\ reg' = reg
  BY DEF SendBegin
<1> HIDE DEF Begin
<1>3. AnnouncedInv'
  BY <1>1, <1>2, AnnouncingSend DEF Announcement
<1>4. /\ Remains(0, 0, Len(chan)) /\ Len(chan) \in Nat
      /\ \A j \in Pos' : j > Len(chan) => j = Len(chan) + 1 /\ Kind(j)' = "begin"
  BY <1>1, <1>2, GrownWord
<1>5. FlightInv'
  <2>1. ASSUME NEW i \in Pos', NEW k \in Pos', Under(i, k)' PROVE FALSE
    <3>1. k \in 0 .. Len(chan) /\ i \in 0 .. Len(chan)
      BY <1>4, <2>1 DEF Under, Pos
    <3>2. Announces(Before(i, 0, 0)) /\ Before(i, 0, 0) \in Pos
      BY <1>4, <2>1, <3>1, RemainsBefore DEF Under
    <3> QED
      BY <1>2, <3>2 DEF LineInv, AnnouncedInv
  <2> QED
    BY <2>1 DEF FlightInv
<1>6. SnapshotInv'
  <2>1. pc # "snapshot"
    <3>1. 0 \in Pos
      BY <1>4 DEF Pos
    <3> QED
      BY <1>2, <3>1
         DEF LineInv, AnnouncedInv, Announces, Announcement, Kind, ContextKind
  <2> QED
    BY <2>1 DEF SnapshotInv
<1> QED
  BY <1>3, <1>5, <1>6 DEF LineInv

LEMMA SendEndLine ==
    ASSUME TypeOK, TypeOK', LineInv, InSession, UNCHANGED <<pc, sreg, target, begun, snap>>,
           SendEnd
    PROVE  LineInv'
<1>1. End(reg.generation) \in Message /\ End(reg.generation).kind = "end"
      /\ End(reg.generation).generation = reg.generation
  <2>1. reg.generation \in Nat
    BY DEF TypeOK, GatewayTypeOK, Registry
  <2> QED
    BY <2>1 DEF End, Message
<1>2. Send(End(reg.generation)) /\ sess = "snap" /\ sess' = "live" /\ reg' = reg
  BY DEF SendEnd
<1> HIDE DEF End
<1>3. AnnouncedInv'
  BY <1>1, <1>2, AnnouncingSend DEF Announcement
<1>4. /\ Remains(0, 0, Len(chan)) /\ Len(chan) \in Nat
      /\ \A j \in Pos' : j > Len(chan) => Kind(j)' = "end" /\ Gen(j)' = reg.generation
  BY <1>1, <1>2, GrownWord
<1>5. FlightInv'
  <2>1. ASSUME NEW i \in Pos', NEW k \in Pos', Under(i, k)'
        PROVE  i \in 0 .. Len(chan) /\ k \in 0 .. Len(chan)
    BY <1>4, <2>1 DEF Under, Pos
  <2> QED
    BY <1>2, <1>4, <2>1, FlightRemains DEF FlightInv, LineInv
<1>6. SnapshotInv'
  BY <1>2, <1>4, SnapshotRemains DEF LineInv
<1> QED
  BY <1>3, <1>5, <1>6 DEF LineInv

\* The operator's edit is announced to a live session.
LEMMA EditLine ==
    ASSUME TypeOK, TypeOK', LineInv, InSession, UNCHANGED <<pc, sreg, target, begun, snap>>,
           NEW t, Edit(t)
    PROVE  LineInv'
<1>1. /\ reg'.generation = reg.generation + 1 /\ sess' = sess
      /\ IF sess = "live" THEN Send(RegistryChanged(reg.generation + 1)) ELSE chan' = chan
  BY DEF Edit
<1>2. reg.generation \in Nat /\ RegistryChanged(reg.generation + 1) \in Message
  <2>1. reg.generation \in Nat
    BY DEF TypeOK, GatewayTypeOK, Registry
  <2> QED
    BY <2>1 DEF RegistryChanged, Message
<1>3. /\ Remains(0, 0, Len(chan)) /\ Len(chan) \in Nat
      /\ \A j \in Pos' : j > Len(chan) => sess = "live" /\ Kind(j)' = "registry_changed"
      /\ sess # "live" => Pos' = Pos
  <2>1. CASE sess = "live"
    BY <1>1, <1>2, <2>1, GrownWord DEF RegistryChanged
  <2>2. CASE sess # "live"
    BY <1>1, <2>2, KeptWord DEF Pos, Remains
  <2> QED
    BY <2>1, <2>2
<1>4. \A j \in Pos' : j \in 0 .. Len(chan) \/ j > Len(chan)
  BY <1>3 DEF Pos
<1>6. AnnouncedInv'
  <2>1. CASE sess = "live"
    BY <1>1, <1>2, <2>1, AnnouncingSend DEF RegistryChanged, Announcement
  <2>2. CASE sess # "live"
    <3>1. \A i \in Pos' : i \in 0 .. Len(chan) /\ Before(i, 0, 0) = i
      BY <1>3, <2>2 DEF Pos, Before
    <3> QED
      BY <1>1, <1>2, <1>3, <2>2, <3>1, RemainsBefore, AnnouncedNumber DEF LineInv, AnnouncedInv
  <2> QED
    BY <2>1, <2>2
<1>7. FlightInv'
  <2>1. ASSUME NEW i \in Pos', NEW k \in Pos', Under(i, k)'
        PROVE  i \in 0 .. Len(chan) /\ k \in 0 .. Len(chan)
    <3>1. ~(k > Len(chan))
      BY <1>3, <2>1 DEF Under
    <3>2. k \in 0 .. Len(chan) /\ i < k
      BY <1>4, <3>1, <2>1 DEF Under
    <3> QED
      BY <1>3, <1>4, <3>2
  <2>2. \A j \in Pos' : j > Len(chan) => Kind(j)' # "end"
    BY <1>3
  <2> QED
    BY <1>1, <1>3, <2>1, <2>2, FlightRemains DEF FlightInv, LineInv
<1>8. SnapshotInv'
  BY <1>1, <1>3, SnapshotRemains DEF LineInv
<1> QED
  BY <1>6, <1>7, <1>8 DEF LineInv

\* Telemetry is sent under the id that the registry of the moment gives the
\* device, and so it fits the registry announced last, unless that is of a
\* snapshot in which the registry was edited.
LEMMA TelemetrySend ==
    ASSUME TypeOK, TypeOK', RegistryInv, LineInv, InSession,
           UNCHANGED <<pc, sreg, target, begun, snap>>,
           NEW r \in Reading, NEW node \in reg.nodes, node.uid = r.uid,
           Send(Telemetry(node.id, r)),
           sess \in {"snap", "live"}, sess' = sess, reg' = reg
    PROVE  LineInv'
<1> DEFINE m == Telemetry(node.id, r)
<1>1. m \in Message /\ m.kind = "telemetry" /\ m.id = node.id /\ m.payload = node.uid
  BY DEF Telemetry, Message, TypeOK, GatewayTypeOK, Registry, Node, Reading
<1>2. /\ Remains(0, 0, Len(chan)) /\ Len(chan) \in Nat
      /\ \A j \in Pos' : j > Len(chan) =>
           j = Len(chan) + 1 /\ Kind(j)' = "telemetry" /\ chan'[j] = m
  <2> HIDE DEF m
  <2> QED
    BY <1>1, GrownWord DEF m
<1>3. AnnouncedInv'
  BY <1>2, AnnouncedRemains DEF LineInv, Announces, Announcement
<1>4. SnapshotInv'
  BY <1>2, SnapshotRemains DEF LineInv
<1>5. ASSUME NEW i \in Pos', NEW k \in Pos', Under(i, k)', NEW q \in {sreg', reg'},
             q.generation = Gen(i)'
      PROVE  Fits(chan'[k], q) \/ (Kind(i)' = "begin" /\ Spoiled(i)')
  <2>1. i \in 0 .. Len(chan) /\ (k \in 0 .. Len(chan) \/ k = Len(chan) + 1)
    BY <1>2, <1>5 DEF Under, Announces, Announcement, Pos
  <2>2. CASE k \in 0 .. Len(chan)
    <3>1. \A j \in Pos' : j > Len(chan) => Kind(j)' # "end"
      BY <1>2
    <3> QED
      BY <1>2, <1>5, <2>1, <2>2, <3>1, FlightRemains DEF LineInv
  <2>3. CASE k = Len(chan) + 1
    <3>1. Before(i, 0, 0) = i /\ i \in Pos
      BY <2>1 DEF Before, Pos
    <3>2. Announces(i) /\ Gen(i)' = Gen(i) /\ (Kind(i)' = "begin" <=> Kind(i) = "begin")
      BY <1>2, <1>5, <2>1, <3>1, RemainsBefore DEF Under
    <3>3. Fits(m, reg) /\ chan'[k] = m
      <4>1. WellFormed(reg.nodes)
        BY DEF TypeOK, GatewayTypeOK, Registry
      <4> HIDE DEF m
      <4> QED
        BY <1>1, <1>2, <2>3, <4>1 DEF Fits, WellFormed
    <3>4. reg.generation \in Nat /\ Gen(i) \in Nat /\ Gen(i) <= reg.generation
      BY <3>1, <3>2, AnnouncedNumber DEF TypeOK, GatewayTypeOK, Registry, LineInv, AnnouncedInv
    <3>5. CASE q = reg
      BY <3>3, <3>5
    <3>6. CASE q = sreg /\ Gen(i) = reg.generation
      BY <1>5, <3>2, <3>3, <3>6 DEF RegistryInv, Follows
    <3>7. CASE Gen(i) < reg.generation
      <4>1. ASSUME NEW j \in Pos, j > i PROVE ~Announces(j)
        <5>1. j \in Pos' /\ j \in 0 .. Len(chan) /\ Before(j, 0, 0) = j /\ j < k
          BY <1>2, <2>3, <4>1 DEF Pos, Before, Remains
        <5> QED
          BY <1>2, <1>5, <4>1, <5>1, RemainsBefore DEF Under
      <4>2. ~(sess = "live")
        BY <3>1, <3>2, <3>4, <3>7, <4>1 DEF IsLast, LineInv, AnnouncedInv
      <4>3. Kind(i) = "begin"
        BY <3>1, <3>2, <4>2 DEF LineInv, AnnouncedInv
      <4>4. ASSUME NEW j \in Pos', j > i PROVE Kind(j)' # "end"
        <5>1. CASE j > Len(chan)
          BY <1>2, <5>1
        <5>2. CASE j \in 0 .. Len(chan)
          <6>1. j \in Pos /\ Before(j, 0, 0) = j
            BY <5>2 DEF Pos, Before
          <6> QED
            BY <1>2, <4>1, <4>4, <5>2, <6>1, RemainsBefore DEF Announces, Announcement
        <5> QED
          BY <1>2, <5>1, <5>2 DEF Pos
      <4> QED
        BY <3>2, <3>7, <4>3, <4>4 DEF Spoiled
    <3> QED
      BY <1>5, <3>4, <3>5, <3>6, <3>7
  <2> QED
    BY <2>1, <2>2, <2>3
<1> QED
  BY <1>3, <1>4, <1>5 DEF LineInv, FlightInv

LEMMA GatewayLine ==
    ASSUME TypeOK, TypeOK', RegistryInv, LineInv, GatewayStep
    PROVE  LineInv'
<1>1. UNCHANGED <<pc, sreg, target, begun, snap>>
  BY DEF GatewayStep, streamvars
<1>2. CASE ~InSession
  BY <1>1, <1>2 DEF InSession, LineInv, AnnouncedInv, FlightInv, SnapshotInv, Opening
<1>3. CASE InSession
  <2> USE <1>1, <1>3
  <2>1. ASSUME NEW t, Edit(t) PROVE LineInv'
    BY <2>1, EditLine
  <2>2. CASE (\E n \in reg.nodes : Report(n)) \/ Revoke
    <3>1. UNCHANGED <<reg, sess, chan>>
      BY <2>2 DEF Report, Revoke
    <3>2. Remains(0, 0, Len(chan)) /\ Len(chan') = Len(chan) /\ Len(chan) \in Nat
      BY <3>1, KeptWord DEF Remains
    <3> QED
      BY <3>1, <3>2, QuietGateway DEF Pos
  <2>3. CASE SendHello \/ Noise
    <3>1. boot \in Nat /\ reg.generation \in Nat
      BY DEF TypeOK, GatewayTypeOK, Registry
    <3>2. PICK m \in {Hello(boot, reg.generation), Unknown, Bad} :
               Send(m) /\ reg' = reg /\ (sess' = sess \/ (sess = "hello" /\ sess' = "begin"))
      BY <2>3 DEF SendHello, Noise
    <3>3. m \in Message /\ m.kind \notin Announcement \cup {"telemetry"}
      BY <3>1, <3>2 DEF Hello, Unknown, Bad, Message, Announcement
    <3> QED
      BY <3>2, <3>3, QuietSend
  <2>4. CASE SendBegin
    BY <2>4, SendBeginLine
  <2>5. CASE SendEnd
    BY <2>5, SendEndLine
  <2>6. ASSUME NEW r \in last \cup due, SendRecord(r) \/ SendLive(r) PROVE LineInv'
    <3>1. r \in Reading
      BY DEF TypeOK, GatewayTypeOK
    <3>2. PICK n \in reg.nodes : n.uid = r.uid /\ Send(Telemetry(n.id, r))
      BY <2>6 DEF SendRecord, SendLive
    <3>3. sess \in {"snap", "live"} /\ sess' = sess /\ reg' = reg
      BY <2>6 DEF SendRecord, SendLive
    <3> QED
      BY <3>1, <3>2, <3>3, TelemetrySend
  <2>7. CASE Reboot \/ LinkLost
    <3>1. BreakSession /\ reg' = reg /\ sess' = "none"
      BY <2>7 DEF Reboot, LinkLost, BreakSession
    <3>2. PICK n \in Nat :
               Remains(0, 0, n) /\ \A j \in Pos' : j > n => Kind(j)' = "closed"
      BY <3>1, CutWord
    <3> QED
      BY <3>1, <3>2, QuietGateway DEF Announcement
  <2> QED
    BY <2>1, <2>2, <2>3, <2>4, <2>5, <2>6, <2>7 DEF GatewayStep, GatewayNext
<1> QED
  BY <1>2, <1>3

----------------------------------------------------------------------------
\* A message is taken off the channel: it is passed over, or becomes the
\* announcement that the task acts on.
LEMMA TakenWord ==
    ASSUME TypeOK, Receive,
           \/ /\ Incoming.kind \notin Announcement
              /\ ContextKind' = ContextKind
              /\ ContextKind \in Announcement => ContextGen' = ContextGen
           \/ /\ ContextKind' = Incoming.kind
              /\ ContextGen' = Incoming.generation
    PROVE  /\ Pos' = 0 .. Len(chan) - 1
           /\ \/ Incoming.kind \notin Announcement /\ Remains(0, 1, Len(chan) - 1)
              \/ Incoming.kind = ContextKind' /\ Remains(1, 1, Len(chan) - 1)
<1>1. /\ Len(chan) \in Nat \ {0} /\ Len(chan') = Len(chan) - 1
      /\ Incoming = chan[1] /\ \A i \in 1 .. Len(chan') : chan'[i] = chan[i + 1]
  BY ReceivedWord
<1>2. Kind(1) = Incoming.kind /\ Gen(1) = Incoming.generation
      /\ Kind(0) = ContextKind /\ Gen(0) = ContextGen
  BY <1>1 DEF Kind, Gen
<1>3. Pos' = 0 .. Len(chan) - 1
  BY <1>1 DEF Pos
<1>4. CASE /\ Incoming.kind \notin Announcement
           /\ ContextKind' = ContextKind
           /\ ContextKind \in Announcement => ContextGen' = ContextGen
  BY <1>1, <1>2, <1>3, <1>4 DEF Remains, Announces
<1>5. CASE ContextKind' = Incoming.kind /\ ContextGen' = Incoming.generation
  BY <1>1, <1>2, <1>3, <1>5 DEF Remains
<1> QED
  BY <1>3, <1>4, <1>5

LEMMA TakenLine ==
    ASSUME TypeOK, TypeOK', LineInv, InSession, Receive, sreg' = sreg,
           \/ /\ Incoming.kind \notin Announcement
              /\ ContextKind' = ContextKind
              /\ ContextKind \in Announcement => ContextGen' = ContextGen
           \/ /\ ContextKind' = Incoming.kind
              /\ ContextGen' = Incoming.generation
    PROVE  AnnouncedInv' /\ FlightInv'
<1>1. Len(chan) \in Nat \ {0} /\ UNCHANGED <<reg, sess>>
  BY ReceivedWord
<1>2. PICK e \in {0, 1} : Remains(e, 1, Len(chan) - 1)
  BY TakenWord
<1>3. \A j \in Pos' : ~(j > Len(chan) - 1)
  BY <1>1, TakenWord
<1>4. Len(chan) - 1 + 1 = Len(chan)
  BY <1>1
<1> QED
  BY <1>1, <1>2, <1>3, <1>4, QuietStep DEF LineInv

\* What a message decodes to is the device's own.
LEMMA DecodedOwn ==
    ASSUME TypeOK, LineInv, Receive, pc \in {"snapshot", "live"},
           NEW event \in TelemetryEvents(Incoming),
           event.payload # event.node.uid
    PROVE  pc = "snapshot" /\ Spoiled(0)
<1>1. PICK n \in sreg.nodes : Incoming.kind = "telemetry" /\ n.id = Incoming.id
                              /\ event.node = n /\ event.payload = Incoming.payload
  BY DEF TelemetryEvents, EventOf, Decodes
<1>2. Len(chan) \in Nat \ {0} /\ Incoming = chan[1]
  BY ReceivedWord
<1>3. 0 \in Pos /\ 1 \in Pos /\ Kind(1) = "telemetry" /\ chan[1] = Incoming
  BY <1>1, <1>2 DEF Pos, Kind
<1>4. Announces(0) /\ Gen(0) = sreg.generation /\ (Kind(0) = "begin" => pc = "snapshot")
  BY DEF Announces, Announcement, Kind, Gen, ContextKind, ContextGen, LineInv, SnapshotInv
<1>5. Under(0, 1)
  BY <1>3, <1>4 DEF Under, Pos
<1>6. InSession
  BY DEF InSession, Opening, Serving
<1>7. Fits(Incoming, sreg) \/ (Kind(0) = "begin" /\ Spoiled(0))
  BY <1>3, <1>4, <1>5, <1>6 DEF LineInv, FlightInv
<1>8. ~Fits(Incoming, sreg)
  BY <1>1 DEF Fits
<1> QED
  BY <1>4, <1>7, <1>8

LEMMA ReceivedRecordLine ==
    ASSUME TypeOK, TypeOK', LineInv, ReceiveRecord, pc' = "snapshot"
    PROVE  LineInv'
<1>1. /\ pc = "snapshot" /\ Receive /\ UNCHANGED <<pc, sreg, target, begun>>
      /\ \/ Incoming.kind = "unknown" /\ snap' = snap
         \/ RecordValid(Incoming) /\ snap' = snap \cup TelemetryEvents(Incoming)
  BY DEF ReceiveRecord, Raise, streamvars
<1>2. Incoming.kind \notin Announcement
  BY <1>1 DEF RecordValid, TelemetryEvents, Announcement
<1>3. UNCHANGED <<ContextKind, ContextGen>> /\ InSession
  BY <1>1 DEF ContextKind, ContextGen, InSession, Opening
<1>4. AnnouncedInv' /\ FlightInv'
  BY <1>1, <1>2, <1>3, TakenLine
<1>5. Spoiled(0) => Spoiled(0)'
  <2>1. UNCHANGED <<reg, sess>> /\ Len(chan) \in Nat
    BY <1>1, ReceivedWord
  <2>2. Remains(0, 1, Len(chan) - 1) /\ Pos' = 0 .. Len(chan) - 1
    BY <1>1, <1>2, <1>3, TakenWord DEF ContextKind, Announcement
  <2> QED
    BY <1>1, <2>1, <2>2, StaysSpoiled
<1>6. SnapshotInv'
  BY <1>1, <1>5, DecodedOwn DEF SnapshotInv, LineInv
<1> QED
  BY <1>4, <1>6 DEF LineInv

LEMMA OutOfSessionLine == ASSUME ~InSession' PROVE LineInv'
BY DEF InSession, LineInv, AnnouncedInv, FlightInv, SnapshotInv, Opening

\* A message received outside the snapshot: passed over, or acted on.
LEMMA ReceivedLine ==
    ASSUME TypeOK, TypeOK', ViewInv, LineInv, InSession',
           \/ ReceiveHello \/ ReceiveBegin \/ OpenStream \/ ReceiveLive
    PROVE  LineInv'
<1>1. CASE ReceiveHello
  <2>1. /\ Receive /\ pc = "hello" /\ pc' \in {"begin", "reconcile"} /\ sreg' = sreg
        /\ Incoming.kind = "hello"
    BY <1>1 DEF ReceiveHello, Raise, HelloValid, InSession, Opening, Serving
  <2>2. ContextKind = "unknown" /\ ContextKind' = "unknown" /\ InSession
    BY <2>1 DEF ContextKind, InSession, Opening
  <2>3. AnnouncedInv' /\ FlightInv'
    BY <2>1, <2>2, TakenLine DEF Announcement
  <2> QED
    BY <2>1, <2>3 DEF LineInv, SnapshotInv
<1>2. CASE ReceiveBegin
  <2>1. /\ Receive /\ pc = "begin" /\ sreg' = sreg /\ InSession
        /\ \/ Incoming.kind = "unknown" /\ pc' = "begin"
           \/ /\ BeginValid(Incoming) /\ pc' = "snapshot"
              /\ begun' = Incoming.generation /\ snap' = snap
    BY <1>2 DEF ReceiveBegin, Raise, InSession, Opening, Serving, streamvars
  <2>2. CASE Incoming.kind = "unknown" /\ pc' = "begin"
    <3>1. ContextKind = "unknown" /\ ContextKind' = "unknown"
      BY <2>1, <2>2 DEF ContextKind
    <3>2. AnnouncedInv' /\ FlightInv'
      BY <2>1, <2>2, <3>1, TakenLine DEF Announcement
    <3> QED
      BY <2>2, <3>2 DEF LineInv, SnapshotInv
  <2>3. CASE BeginValid(Incoming) /\ pc' = "snapshot" /\ begun' = Incoming.generation /\ snap' = snap
    <3>1. ContextKind' = Incoming.kind /\ ContextGen' = Incoming.generation
      BY <2>3 DEF ContextKind, ContextGen, BeginValid
    <3>2. AnnouncedInv' /\ FlightInv'
      BY <2>1, <3>1, TakenLine
    <3>3. SnapshotInv'
      BY <2>1, <2>3 DEF SnapshotInv, BeginValid, ViewInv
    <3> QED
      BY <3>2, <3>3 DEF LineInv
  <2> QED
    BY <2>1, <2>2, <2>3
<1>3. CASE OpenStream
  <2>1. /\ Receive /\ pc = "snapshot" /\ pc' = "live" /\ sreg' = sreg /\ InSession
        /\ Incoming.kind = "end" /\ Incoming.generation = begun
    BY <1>3 DEF OpenStream, ReceiveEnd, EndValid, InSession, Opening, Serving
  <2>2. ContextKind' = Incoming.kind /\ ContextGen' = Incoming.generation
    BY <2>1 DEF ContextKind, ContextGen, LineInv, SnapshotInv
  <2>3. AnnouncedInv' /\ FlightInv'
    BY <2>1, <2>2, TakenLine
  <2> QED
    BY <2>1, <2>3 DEF LineInv, SnapshotInv
<1>4. CASE ReceiveLive
  <2>1. /\ Receive /\ pc = "live" /\ sreg' = sreg /\ InSession
        /\ \/ Incoming.kind = "unknown" /\ pc' = "live"
           \/ Incoming.kind = "telemetry" /\ pc' = "yield"
           \/ Incoming.kind = "registry_changed" /\ pc' = "refresh" /\ target' = Incoming.generation
    BY <1>4 DEF ReceiveLive, TelemetryEvents, EndSession, InSession, Opening, Serving, streamvars
  <2>2. CASE Incoming.kind \in {"unknown", "telemetry"} /\ pc' \in {"live", "yield"}
    <3>1. UNCHANGED <<ContextKind, ContextGen>>
      BY <2>1, <2>2 DEF ContextKind, ContextGen
    <3>2. AnnouncedInv' /\ FlightInv'
      BY <2>1, <2>2, <3>1, TakenLine DEF Announcement
    <3> QED
      BY <2>2, <3>2 DEF LineInv, SnapshotInv
  <2>3. CASE Incoming.kind = "registry_changed" /\ pc' = "refresh" /\ target' = Incoming.generation
    <3>1. ContextKind' = Incoming.kind /\ ContextGen' = Incoming.generation
      BY <2>3 DEF ContextKind, ContextGen
    <3>2. AnnouncedInv' /\ FlightInv'
      BY <2>1, <3>1, TakenLine
    <3> QED
      BY <2>3, <3>2 DEF LineInv, SnapshotInv
  <2> QED
    BY <2>1, <2>2, <2>3
<1> QED
  BY <1>1, <1>2, <1>3, <1>4

\* The registry is read again: the channel stays as it is.
LEMMA RereadLine ==
    ASSUME TypeOK, TypeOK', LineInv, InSession', Reconcile \/ Refresh
    PROVE  LineInv'
<1>1. /\ UNCHANGED <<chan, sess, reg>> /\ sreg' = reg /\ InSession
      /\ \/ pc = "reconcile" /\ pc' = "begin"
         \/ pc = "refresh" /\ pc' = "yield" /\ target = reg.generation
  BY DEF Reconcile, Refresh, NodesRead, NodesRefused, RequestFails, Raise, EndSession, gwvars,
         InSession, Opening, Serving
<1>2. Len(chan) \in Nat /\ Len(chan') = Len(chan)
  BY <1>1, LenProperties DEF TypeOK, GatewayTypeOK
<1>3. Remains(0, 0, Len(chan))
  BY <1>1, <1>2 DEF Remains, Kind, Gen, Announces, Announcement, ContextKind, ContextGen
<1>4. \A j \in Pos' : ~(j > Len(chan))
  BY <1>2 DEF Pos
<1>5. Len(chan) + 0 = Len(chan)
  BY <1>2
<1>6. AnnouncedInv' /\ FlightInv'
  BY <1>1, <1>3, <1>4, <1>5, QuietStep DEF LineInv
<1> QED
  BY <1>1, <1>6 DEF LineInv, SnapshotInv

LEMMA StayedLine ==
    ASSUME TypeOK, TypeOK', LineInv, InSession',
           \/ UNCHANGED vars \/ Stop \/ Yield \/ (StopClosed /\ ~sock)
    PROVE  LineInv'
<1>1. UNCHANGED <<chan, sess, reg, sreg, target, begun, snap>> /\ InSession
  BY DEF vars, gwvars, streamvars, Stop, Yield, StopClosed, InSession, Opening, Serving
<1>2. pc' = pc \/ (pc = "yield" /\ pc' \in {"live", "close"})
  BY DEF vars, streamvars, Stop, Yield, StopClosed
<1>3. pc' = pc \/ (pc = "yield" /\ pc' = "live")
  BY <1>2 DEF InSession, Opening, Serving
<1>4. Len(chan) \in Nat /\ Len(chan') = Len(chan)
  BY <1>1, LenProperties DEF TypeOK, GatewayTypeOK
<1>5. UNCHANGED <<ContextKind, ContextGen>>
  BY <1>1, <1>3 DEF ContextKind, ContextGen
<1>6. Remains(0, 0, Len(chan))
  BY <1>1, <1>4, <1>5 DEF Remains, Kind, Gen
<1>7. \A j \in Pos' : ~(j > Len(chan))
  BY <1>4 DEF Pos
<1>8. Len(chan) + 0 = Len(chan)
  BY <1>4
<1>9. AnnouncedInv' /\ FlightInv'
  BY <1>1, <1>6, <1>7, <1>8, QuietStep DEF LineInv
<1>10. CASE pc' = pc
  BY <1>1, <1>6, <1>7, <1>9, <1>10, SnapshotRemains DEF LineInv
<1>11. CASE pc' = "live"
  BY <1>9, <1>11 DEF LineInv, SnapshotInv
<1> QED
  BY <1>3, <1>10, <1>11

LEMMA StopClosedLine ==
    ASSUME TypeOK, TypeOK', LineInv, InSession', StopClosed, sock
    PROVE  LineInv'
<1>1. UNCHANGED <<pc, reg, sreg, target, begun, snap>> /\ chan' = <<Closed>> /\ sess' = "none"
  BY DEF StopClosed
<1>2. Len(chan) \in Nat /\ Len(chan') = 1 /\ chan'[1] = Closed
  BY <1>1, LenProperties DEF TypeOK, GatewayTypeOK
<1>3. UNCHANGED <<ContextKind, ContextGen>>
  BY <1>1 DEF ContextKind, ContextGen
<1>4. Remains(0, 0, 0)
  BY <1>2, <1>3 DEF Remains, Kind, Gen
<1>5. ASSUME NEW j \in Pos', j > 0 PROVE Kind(j)' = "closed"
  BY <1>2, <1>5 DEF Pos, Kind, Closed
<1> QED
  BY <1>1, <1>4, <1>5, QuietGateway DEF Announcement

LEMMA ConnectLine == ASSUME InSession', Connect PROVE LineInv'
<1>1. chan' = <<>> /\ pc' = "hello" /\ Len(chan') = 0
  BY DEF Connect, Unless, OpenSession, InSession, Opening, Serving
<1>2. Pos' = {0} /\ \A i \in Pos' : ~Announces(i)'
  BY <1>1 DEF Pos, Announces, Announcement, Kind, ContextKind
<1>3. AnnouncedInv'
  BY <1>2 DEF AnnouncedInv, IsLast
<1>4. FlightInv'
  BY <1>2 DEF FlightInv, Under
<1> QED
  BY <1>1, <1>3, <1>4 DEF LineInv, SnapshotInv

LEMMA LineStep ==
    TypeOK /\ TypeOK' /\ RegistryInv /\ ViewInv /\ LineInv /\ [Next]_vars => LineInv'
<1> SUFFICES ASSUME TypeOK, TypeOK', RegistryInv, ViewInv, LineInv, [Next]_vars, InSession'
             PROVE  LineInv'
  BY OutOfSessionLine
<1>1. CASE Connect
  BY <1>1, ConnectLine
<1>2. CASE StreamStep
  <2>1. CASE ReceiveRecord
    <3>1. pc' = "snapshot"
      BY <2>1 DEF ReceiveRecord, Raise, streamvars, InSession, Opening, Serving
    <3> QED
      BY <2>1, <3>1, ReceivedRecordLine
  <2> QED
    BY <1>2, <2>1, ReceivedLine, RereadLine DEF StreamStep
<1>3. CASE OpenStream \/ ReceiveLive
  BY <1>3, ReceivedLine
<1>4. CASE Refresh
  BY <1>4, RereadLine
<1>5. CASE UNCHANGED vars \/ Yield \/ Stop
  BY <1>5, StayedLine
<1>6. CASE StopClosed
  BY <1>6, StayedLine, StopClosedLine
<1>7. ~(Start \/ FetchInfo \/ FetchNodes \/ AbortDone \/ CloseDone \/ BackoffDone \/ Cancel)
  <2>1. ~(Start \/ FetchInfo \/ FetchNodes \/ AbortDone \/ CloseDone \/ BackoffDone)
    BY DEF Start, FetchInfo, FetchNodes, Reported, AbortDone, CloseDone, BackoffDone, AfterSession, Unless,
       InSession, Opening, Serving
  <2>2. ~Cancel
    BY DEF Cancel, Raise, EndSession, InSession, Opening, Serving
  <2> QED
    BY <2>1, <2>2
<1> QED
  BY <1>1, <1>2, <1>3, <1>4, <1>5, <1>6, <1>7, GatewayLine DEF Next, TaskStep

LEMMA LineInitially == Init => LineInv
BY DEF Init, StreamInit, LineInv, AnnouncedInv, FlightInv, SnapshotInv, InSession, Opening, Serving

\* What a message on the line means is what the session will take it for when
\* it arrives: the generation it was sent under is the session's registry by
\* then, or the snapshot it belongs to will be refused (stream.py).
THEOREM LineInvariant == Spec => []LineInv
BY LineInitially, LineStep, TypeCorrect, RegistryInvariant, ViewInvariant, PTL DEF Spec

LEMMA AttributionStep == TypeOK /\ LineInv /\ Attribution /\ [Next]_vars => Attribution'
<1> SUFFICES ASSUME TypeOK, LineInv, Attribution, [Next]_vars PROVE Attribution'
  OBVIOUS
<1>1. CASE OpenStream
  <2>1. /\ Receive /\ pc = "snapshot" /\ latest' = snap
        /\ Incoming.kind = "end" /\ Incoming.generation = begun
    BY <1>1 DEF OpenStream, ReceiveEnd, EndValid
  <2>2. Len(chan) \in Nat \ {0} /\ Incoming = chan[1]
    BY <2>1, ReceivedWord
  <2>3. 1 \in Pos /\ Kind(1) = "end" /\ Gen(1) = begun /\ Gen(0) = begun
    BY <2>1, <2>2 DEF Pos, Kind, Gen, ContextGen
  <2>4. ~Spoiled(0)
    BY <2>3 DEF Spoiled
  <2> QED
    BY <2>1, <2>4 DEF Attribution, LineInv, SnapshotInv
<1>2. CASE ReceiveLive
  <2>1. ASSUME NEW e \in TelemetryEvents(Incoming), ApplyTelemetry(e) PROVE Attribution'
    <3>1. e.payload = e.node.uid
      BY <1>2, DecodedOwn DEF ReceiveLive
    <3> QED
      BY <2>1, <3>1 DEF ApplyTelemetry, Stored, Attribution
  <2>2. CASE UNCHANGED viewvars
    BY <2>2 DEF viewvars, Attribution
  <2> QED
    BY <1>2, <2>1, <2>2 DEF ReceiveLive, viewvars
<1>3. CASE Refresh
  BY <1>3 DEF Refresh, ApplyRegistry, Retained, viewvars, Attribution
<1>4. latest' = latest \/ OpenStream \/ ReceiveLive \/ Refresh
  BY DEF Next, GatewayStep, Start, TaskStep, StreamStep, FetchInfo, FetchNodes, Reported, Connect,
         AbortDone, Yield, CloseDone, BackoffDone, Stop, StopClosed, Cancel, vars, runvars, viewvars
<1> QED
  BY <1>1, <1>2, <1>3, <1>4 DEF Attribution

\* A reading is never shown of a device that did not measure it, whatever
\* edits and reconnects come between (stream.py, _decode_telemetry and the
\* generation checks of async_read_snapshot).
THEOREM ReadingsAreOwn == Spec => []Attribution
<1>1. Init => Attribution
  BY DEF Init, Attribution
<1> QED
  BY <1>1, AttributionStep, TypeCorrect, LineInvariant, PTL DEF Spec
=============================================================================
