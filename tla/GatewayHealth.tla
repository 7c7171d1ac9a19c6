---------------------------- MODULE GatewayHealth ----------------------------
(***************************************************************************)
(* What Home Assistant says of the gateway itself: its connection, its     *)
(* last restart, its reconnects and its uptime.  They are estimates: the   *)
(* gateway gives whole seconds since its boot, which the runtime reads     *)
(* over REST and anchors to its own clock later.                           *)
(*                                                                         *)
(* The supervisor is reduced to the places where these values change; the  *)
(* wall clock and the monotonic clock of the host are one.                 *)
(***************************************************************************)
EXTENDS Integers, Sequences

CONSTANTS
    Second,        \* ticks of the clock in a second
    MaxTime,       \* bound on the clock
    MaxBoots,      \* bound on the gateway's boots
    MaxReconnects  \* bound on sessions that are lost

ASSUME HealthAssumption == Second \in Nat \ {0} /\ MaxTime \in Nat /\ MaxBoots \in Nat \ {0}
                               /\ MaxReconnects \in Nat

VARIABLES
    now,        \* the clock
    boots,      \* when the gateway booted; the latest is its boot id
    phase,      \* of the entry: set-up has asked, has read; the supervisor
                \* waits, opens a session, serves it
    read,       \* the information async_bootstrap has returned last
    info,       \* runtime.bootstrap.info
    started,    \* gateway_started_at_unix_ms
    anchor,     \* _uptime_observed_at; the base is info.uptime
    message,    \* last_stream_message_at_unix_ms
    reconnects, \* reconnect_count
    connected,
    shown       \* the states of the gateway's entities

clocks == <<now, boots>>
runtime == <<info, started, anchor, message, reconnects, connected>>
vars == <<clocks, phase, read, runtime, shown>>

Info == [boot : 1 .. MaxBoots, uptime : 0 .. MaxTime]
Never == -1
Time == {Never} \cup 0 .. MaxTime
NoInfo == [boot |-> 1, uptime |-> 0]

TypeOK ==
    /\ now \in 0 .. MaxTime
    /\ boots \in Seq(0 .. now) /\ Len(boots) \in 1 .. MaxBoots
    /\ phase \in {"asking", "read", "waiting", "opening", "serving"}
    /\ read \in Info /\ info \in Info
    /\ started \in Time /\ anchor \in Time /\ message \in Time
    /\ reconnects \in 0 .. MaxReconnects
    /\ connected \in BOOLEAN /\ (connected <=> phase = "serving")
    /\ shown \in [boot : 1 .. MaxBoots, restart : Time, message : Time,
                  reconnects : 0 .. MaxReconnects, connected : BOOLEAN]

Init ==
    /\ now = 0 /\ boots = <<0>>
    /\ phase = "asking" /\ read = NoInfo
    /\ info = NoInfo /\ started = Never /\ anchor = Never
    /\ message = Never /\ reconnects = 0 /\ connected = FALSE
    /\ shown = [boot |-> 1, restart |-> Never, message |-> Never,
                reconnects |-> 0, connected |-> FALSE]

----------------------------------------------------------------------------
(* The gateway and the clock. *)

Tick ==
    /\ now < MaxTime
    /\ now' = now + 1
    /\ UNCHANGED <<boots, phase, read, runtime, shown>>

Reboot ==
    /\ Len(boots) < MaxBoots
    /\ boots' = Append(boots, now)
    /\ UNCHANGED <<now, phase, read, runtime, shown>>

Boot == Len(boots)
UptimeOf(b) == (now - boots[b]) \div Second

----------------------------------------------------------------------------
(* The runtime. *)

\* _notify, and the constructors of the entities: each copies its value.
EarlyConnection == connected    \* mutant: the listeners run before the change
ShownConnection == connected'
Show ==
    shown' = [boot |-> info'.boot, restart |-> started', message |-> message',
              reconnects |-> reconnects', connected |-> ShownConnection]

\* async_bootstrap reads the information: at set-up, and before a session that
\* is not the first.
Read ==
    /\ phase \in {"asking", "waiting"}
    /\ read' = [boot |-> Boot, uptime |-> UptimeOf(Boot)]
    /\ phase' = IF phase = "asking" THEN "read" ELSE "opening"
    /\ UNCHANGED <<clocks, runtime, shown>>

TwiceScaled(i) == now - i.uptime * Second * Second    \* mutant
StartedAt(i) == now - i.uptime * Second

\* GatewayRuntime.__init__, and the entities: the first session opens with the
\* information that was read for it, whenever Home Assistant has started.
Construct ==
    /\ phase = "read"
    /\ info' = read /\ started' = StartedAt(read) /\ anchor' = now
    /\ phase' = "opening"
    /\ UNCHANGED <<clocks, read, message, reconnects, connected>>
    /\ Show

\* _apply_bootstrap.
Recomputed == StartedAt(read)    \* mutant
Unchanged == started             \* mutant
RestartTime == IF read.boot # info.boot THEN StartedAt(read) ELSE started
OldAnchor == anchor              \* mutant
Anchor == now

\* A session is open: HELLO came from the boot that was read.
Open ==
    /\ phase = "opening" /\ read.boot = Boot
    /\ info' = read /\ started' = RestartTime /\ anchor' = Anchor
    /\ message' = now /\ connected' = TRUE
    /\ phase' = "serving"
    /\ UNCHANGED <<clocks, read, reconnects>>
    /\ Show

\* It does not open.
Fail ==
    /\ phase = "opening"
    /\ phase' = "waiting"
    /\ UNCHANGED <<clocks, read, runtime, shown>>

\* A message; telemetry that is not newer notifies nobody.
Message(notifies) ==
    /\ phase = "serving"
    /\ message' = now
    /\ UNCHANGED <<clocks, phase, read, info, started, anchor, reconnects, connected>>
    /\ IF notifies THEN Show ELSE UNCHANGED shown

\* The finally of async_run.
Lost ==
    /\ phase = "serving" /\ reconnects < MaxReconnects
    /\ reconnects' = reconnects + 1 /\ connected' = FALSE
    /\ phase' = "waiting"
    /\ UNCHANGED <<clocks, read, info, started, anchor, message>>
    /\ Show

Next ==
    \/ Tick \/ Reboot
    \/ Read \/ Construct \/ Open \/ Fail \/ Lost
    \/ \E notifies \in BOOLEAN : Message(notifies)

Spec == Init /\ [][Next]_vars

----------------------------------------------------------------------------
(* Properties. *)

Constructed == phase \notin {"asking", "read"}

\* gateway_uptime_seconds.
Uptime == info.uptime + (now - anchor) \div Second

\* The estimated uptime is never ahead of the gateway's, as long as it has not
\* booted again: what was read is anchored late, never early (runtime.py:81).
UptimeNotAhead == Constructed /\ info.boot = Boot => Uptime <= UptimeOf(Boot)

\* The last restart that is shown is not earlier than the boot it is about, and
\* not older than the session: the time of an earlier boot is never shown for
\* the current one (runtime.py:76).
RestartIsItsBoot ==
    Constructed => shown.boot = info.boot /\ shown.restart >= boots[shown.boot]

\* Reading the uptime anew, in whole seconds and some time before it is used,
\* never moves the last restart of one boot (runtime.py:76, sensor.py:322).
RestartIsStable ==
    [][Constructed /\ shown'.boot = shown.boot => shown'.restart = shown.restart]_vars

\* The connection and the reconnects on display are the runtime's after every
\* step: no session ends or begins unseen (runtime.py:143).
ConnectionIsShown == shown.connected = connected /\ shown.reconnects = reconnects
=============================================================================
