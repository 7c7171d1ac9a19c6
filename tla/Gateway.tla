------------------------------- MODULE Gateway -------------------------------
(***************************************************************************)
(* The OSK Sense gateway as the integration sees it: a durable node        *)
(* registry with a generation, the last reading of every active node, one  *)
(* WebSocket session that sends HELLO, a snapshot and then live messages,  *)
(* and the faults of the device and of the link.  The gateway's firmware   *)
(* is not in the repository: what is assumed of it is what stream.py and   *)
(* api.py rely on, and every such assumption is named at its action.       *)
(*                                                                         *)
(* A reading's payload is abstracted to the uid of the device that         *)
(* measured it, its receive time to the tick of a clock nobody else ticks. *)
(***************************************************************************)
EXTENDS StreamSequence, Sequences, FiniteSets

CONSTANTS
    Uid,            \* permanent device identities (device_uid)
    NodeId,         \* short identities, reused after a node is removed
    Profile,        \* telemetry profiles a node may run
    Tables,         \* the node tables an operator may configure
    MaxGeneration,  \* bound on registry edits
    MaxClock,       \* bound on readings
    MaxBoot,        \* bound on boots
    MaxFaults,      \* bound on lost links, failed requests and odd messages
    MaxChan,        \* bound on messages in flight
    Revocable       \* may the API token be revoked?

Node == [id : NodeId, uid : Uid, profile : Profile, active : BOOLEAN]

\* A registry never holds two nodes with one id or one uid; the parser of
\* GET /api/nodes (api.py, _parse_node_registry) refuses one that does.
WellFormed(table) ==
    \A m, n \in table : (m.id = n.id \/ m.uid = n.uid) => m = n

ASSUME TablesAssumption == \A t \in Tables : t \subseteq Node /\ WellFormed(t)

ASSUME BoundsAssumption ==
    /\ {MaxGeneration, MaxClock, MaxBoot, MaxFaults, MaxChan} \subseteq Nat
    /\ Revocable \in BOOLEAN

VARIABLES
    reg,      \* the durable registry: generation and nodes
    boot,     \* boot_id
    last,     \* the last reading of each active node
    clock,    \* receive time of the last reading
    seq,      \* next stream sequence number
    sess,     \* what the WebSocket session sends next
    pend,     \* nodes whose snapshot record is still to be sent
    due,      \* readings of this session still to be sent live
    chan,     \* messages in flight to the integration, oldest first
    revoked,  \* the API token is no longer valid
    faults    \* faults so far

gwvars == <<reg, boot, last, clock, seq, sess, pend, due, chan, revoked, faults>>

Registry == {r \in [generation : Nat, nodes : SUBSET Node] : WellFormed(r.nodes)}
Reading  == [uid : Uid, profile : Profile, seq : SeqNum, at : Nat]

Hello(b, g)       == [kind |-> "hello", boot |-> b, generation |-> g]
Begin(g)          == [kind |-> "begin", generation |-> g]
End(g)            == [kind |-> "end", generation |-> g]
RegistryChanged(g) == [kind |-> "registry_changed", generation |-> g]
Telemetry(id, r)  == [kind |-> "telemetry", id |-> id, profile |-> r.profile,
                      seq |-> r.seq, at |-> r.at, payload |-> r.uid]
Unknown           == [kind |-> "unknown"]   \* a message kind of a later version
Bad               == [kind |-> "bad"]       \* undecodable, or not binary
Closed            == [kind |-> "closed"]    \* CLOSE, CLOSED, CLOSING or ERROR

Message ==
    [kind : {"hello"}, boot : Nat, generation : Nat]
      \cup [kind : {"begin", "end", "registry_changed"}, generation : Nat]
      \cup [kind : {"telemetry"}, id : NodeId, profile : Profile,
            seq : SeqNum, at : Nat, payload : Uid]
      \cup [kind : {"unknown", "bad", "closed"}]

GatewayTypeOK ==
    /\ reg \in Registry
    /\ boot \in Nat
    /\ last \subseteq Reading
    /\ clock \in Nat
    /\ seq \in SeqNum
    /\ sess \in {"none", "hello", "begin", "snap", "live"}
    /\ pend \subseteq Uid
    /\ due \subseteq Reading
    /\ chan \in Seq(Message)
    /\ revoked \in BOOLEAN
    /\ faults \in Nat

GatewayInit ==
    /\ \E t \in Tables : reg = [generation |-> 1, nodes |-> t]
    /\ boot = 1 /\ last = {} /\ clock = 0 /\ seq \in {0, SeqMod - 1}
    /\ sess = "none" /\ pend = {} /\ due = {} /\ chan = <<>>
    /\ revoked = FALSE /\ faults = 0

----------------------------------------------------------------------------
Send(m) == Len(chan) < MaxChan /\ chan' = Append(chan, m)

\* The session ends at the gateway; whatever was still in flight may be lost.
BreakSession ==
    /\ sess' = "none" /\ pend' = {} /\ due' = {}
    /\ IF sess = "none" THEN chan' = chan
       ELSE \E k \in 0 .. Len(chan) : chan' = Append(SubSeq(chan, 1, k), Closed)

\* A reading survives an edit if its device is still active with its profile.
Kept(readings, table) ==
    {r \in readings : \E n \in table : n.uid = r.uid /\ n.profile = r.profile /\ n.active}

\* The operator edits the node table: a new durable generation, announced to
\* a session that has its snapshot.
Edit(table) ==
    /\ reg.generation < MaxGeneration
    /\ table # reg.nodes
    /\ reg' = [generation |-> reg.generation + 1, nodes |-> table]
    /\ last' = Kept(last, table)
    /\ due' = Kept(due, table)
    /\ IF sess = "live" THEN Send(RegistryChanged(reg.generation + 1)) ELSE chan' = chan
    /\ UNCHANGED <<boot, clock, seq, sess, pend, revoked, faults>>

\* An active node's radio message arrives.
Report(node) ==
    LET r == [uid |-> node.uid, profile |-> node.profile, seq |-> seq, at |-> clock + 1]
    IN  /\ node.active
        /\ clock < MaxClock
        /\ clock' = clock + 1
        /\ seq' = (seq + 1) % SeqMod
        /\ last' = {s \in last : s.uid # node.uid} \cup {r}
        /\ due' = IF sess \in {"snap", "live"} THEN due \cup {r} ELSE due
        /\ UNCHANGED <<reg, boot, sess, pend, chan, revoked, faults>>

SendHello ==
    /\ sess = "hello"
    /\ Send(Hello(boot, reg.generation))
    /\ sess' = "begin"
    /\ UNCHANGED <<reg, boot, last, clock, seq, pend, due, revoked, faults>>

SendBegin ==
    /\ sess = "begin"
    /\ Send(Begin(reg.generation))
    /\ sess' = "snap"
    /\ pend' = {r.uid : r \in last}
    /\ UNCHANGED <<reg, boot, last, clock, seq, due, revoked, faults>>

\* One snapshot record: the device's last reading now, under its id now.
SendRecord(r) ==
    /\ sess = "snap" /\ r.uid \in pend
    /\ \E n \in reg.nodes : n.uid = r.uid /\ Send(Telemetry(n.id, r))
    /\ pend' = pend \ {r.uid}
    /\ UNCHANGED <<reg, boot, last, clock, seq, sess, due, revoked, faults>>

SendEnd ==
    /\ sess = "snap"
    /\ \A r \in last : r.uid \notin pend
    /\ Send(End(reg.generation))
    /\ sess' = "live" /\ pend' = {}
    /\ UNCHANGED <<reg, boot, last, clock, seq, due, revoked, faults>>

\* Live telemetry, in order of arrival at the gateway.
SendLive(r) ==
    /\ sess = "live"
    /\ \A s \in due : r.at <= s.at
    /\ \E n \in reg.nodes : n.uid = r.uid /\ Send(Telemetry(n.id, r))
    /\ due' = due \ {r}
    /\ UNCHANGED <<reg, boot, last, clock, seq, sess, pend, revoked, faults>>

\* A restart loses the readings and the sequence, and changes the boot id.
Reboot ==
    /\ boot < MaxBoot
    /\ boot' = boot + 1
    /\ last' = {} /\ seq' = 0
    /\ BreakSession
    /\ UNCHANGED <<reg, clock, revoked, faults>>

Fault == faults < MaxFaults /\ faults' = faults + 1

LinkLost ==
    /\ sess # "none"
    /\ Fault
    /\ BreakSession
    /\ UNCHANGED <<reg, boot, last, clock, seq, revoked>>

\* A message the integration does not expect: of a later protocol version,
\* or one it cannot decode.
Noise ==
    /\ sess # "none"
    /\ Fault
    /\ \E m \in {Unknown, Bad} : Send(m)
    /\ UNCHANGED <<reg, boot, last, clock, seq, sess, pend, due, revoked>>

Revoke ==
    /\ Revocable /\ ~revoked
    /\ revoked' = TRUE
    /\ UNCHANGED <<reg, boot, last, clock, seq, sess, pend, due, chan, faults>>

GatewayNext ==
    \/ \E t \in Tables : Edit(t)
    \/ \E n \in reg.nodes : Report(n)
    \/ SendHello
    \/ SendBegin
    \/ \E r \in last : SendRecord(r)
    \/ SendEnd
    \/ \E r \in due : SendLive(r)
    \/ Reboot
    \/ LinkLost
    \/ Noise
    \/ Revoke

\* What the gateway owes a connected client: to send what it has.
GatewaySends ==
    \/ SendHello
    \/ SendBegin
    \/ \E r \in last : SendRecord(r)
    \/ SendEnd
    \/ \E r \in due : SendLive(r)

----------------------------------------------------------------------------
\* What the integration's calls do at the gateway.
OpenSession == sess' = "hello" /\ pend' = {} /\ due' = {} /\ chan' = <<>>

CloseSession == sess' = "none" /\ pend' = {} /\ due' = {} /\ chan' = <<>>
=============================================================================
