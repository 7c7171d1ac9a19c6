--------------------------- MODULE NodeEntityProofs ---------------------------
(***************************************************************************)
(* An entity is shown as available and with the value that the view calls  *)
(* for, and none of its timers is beyond its reach, whatever the order of  *)
(* notifications, timers and removals, for every stale time and clock.     *)
(***************************************************************************)
EXTENDS NodeEntity, TLAPS

\* A decision on the view of this step has the types of what it decides.
LEMMA DecisionTypes ==
    ASSUME TypeOK, event' \in AtMostOne
    PROVE  /\ IsAvailable \in BOOLEAN
           /\ Ahead \subseteq Nat /\ \A c, d \in Ahead : c = d
<1>1. IsAvailable \in BOOLEAN
  BY DEF IsAvailable
<1>2. Stale \in Nat
  BY TimeAssumption
<1>3. \A t \in event' : t \in Nat
  BY TimeAssumption DEF AtMostOne, Time
<1>4. \A s, t \in event' : s = t
  BY DEF AtMostOne
<1> QED
  BY <1>1, <1>2, <1>3, <1>4 DEF Ahead, Deadline

\* The part of the invariant that is about the entity alone.
EntityTypeOK ==
    /\ phase \in {"none", "added", "removed"}
    /\ available \in BOOLEAN /\ value \in AtMostOne
    /\ timers \subseteq Nat /\ handle \subseteq timers /\ \A c, d \in handle : c = d
    /\ shown \in [available : BOOLEAN, value : AtMostOne]

LEMMA HandlerTypes ==
    ASSUME TypeOK, NoStrayTimer, event' \in AtMostOne,
           phase' \in {"none", "added", "removed"}, HandleUpdate
    PROVE  EntityTypeOK' /\ NoStrayTimer'
<1>1. available' \in BOOLEAN /\ value' \in AtMostOne
  BY DecisionTypes DEF HandleUpdate, UpdateValue
<1>2. shown' \in [available : BOOLEAN, value : AtMostOne]
  BY <1>1 DEF HandleUpdate, Write
<1>3. handle' = Ahead /\ timers' = Ahead
  BY DEF HandleUpdate, Schedule, NoStrayTimer, TypeOK
<1> QED
  BY <1>1, <1>2, <1>3, DecisionTypes DEF EntityTypeOK, NoStrayTimer

LEMMA NotifiedTypes ==
    ASSUME TypeOK, NoStrayTimer, event' \in AtMostOne, Notified
    PROVE  EntityTypeOK' /\ NoStrayTimer'
<1>1. CASE phase = "added" /\ Kept /\ HandleUpdate /\ UNCHANGED phase
  BY <1>1, HandlerTypes
<1>2. CASE /\ phase' = "removed"
           /\ available' = IsAvailable /\ UpdateValue
           /\ CancelTimer \/ Schedule
           /\ UNCHANGED shown
  <2>1. available' \in BOOLEAN /\ value' \in AtMostOne
    BY <1>2, DecisionTypes DEF UpdateValue
  <2>2. (handle' = {} \/ handle' = Ahead) /\ timers' = handle'
    BY <1>2 DEF CancelTimer, Schedule, NoStrayTimer, TypeOK
  <2> QED
    BY <1>2, <2>1, <2>2, DecisionTypes DEF EntityTypeOK, NoStrayTimer, TypeOK
<1>3. CASE UNCHANGED entityvars
  BY <1>3 DEF entityvars, EntityTypeOK, NoStrayTimer, TypeOK
<1> QED
  BY <1>1, <1>2, <1>3 DEF Notified

\* The types of the gateway's and the runtime's side, step by step.
ViewTypeOK ==
    /\ now \in Time
    /\ heard \in AtMostOne /\ held \subseteq heard /\ coming \subseteq Time
    /\ connected \in BOOLEAN /\ node \in States /\ fits \in BOOLEAN
    /\ event \in AtMostOne

LEMMA ViewTypes == TypeOK /\ [Next]_vars => ViewTypeOK'
<1> SUFFICES ASSUME TypeOK, [Next]_vars PROVE ViewTypeOK'
  OBVIOUS
<1> USE DEF TypeOK, ViewTypeOK
<1>1. {} \in AtMostOne /\ {now} \in AtMostOne /\ held \in AtMostOne
  BY DEF AtMostOne
<1>2. CASE Add \/ MarkStale \/ Unload \/ UNCHANGED vars
  BY <1>2 DEF Add, MarkStale, Unload, vars, gatewayvars, viewvars
<1>3. CASE Tick
  BY <1>3, TimeAssumption DEF Tick, viewvars, Time
<1>4. CASE Report \/ Restart
  BY <1>1, <1>4 DEF Report, Restart, viewvars
<1>5. CASE Opened
  BY <1>1, <1>5 DEF Opened, EditNode
<1>6. CASE Edited
  BY <1>1, <1>6 DEF Edited, EditNode
<1>7. CASE Delivered \/ Other \/ Lost
  <2>1. \A t \in coming : {t} \in AtMostOne
    BY DEF AtMostOne
  <2> QED
    BY <1>7, <2>1 DEF Delivered, Other, Lost, gatewayvars, viewvars
<1> QED
  BY <1>2, <1>3, <1>4, <1>5, <1>6, <1>7 DEF Next

TimerInv == TypeOK /\ NoStrayTimer

LEMMA TimerStep == TimerInv /\ [Next]_vars => TimerInv'
<1> SUFFICES ASSUME TypeOK, NoStrayTimer, [Next]_vars PROVE EntityTypeOK' /\ NoStrayTimer'
  BY ViewTypes DEF TimerInv, TypeOK, ViewTypeOK, EntityTypeOK
<1>1. event' \in AtMostOne
  BY ViewTypes DEF ViewTypeOK
<1>2. CASE Add
  BY <1>1, <1>2, HandlerTypes DEF Add
<1>3. CASE MarkStale
  <2>1. PICK d \in timers : /\ timers' = timers \ {d} /\ handle' = {}
                            /\ available' = IsAvailable /\ UNCHANGED <<phase, value>>
                            /\ shown' = shown \/ Write
    BY <1>3 DEF MarkStale, ClearHandle
  <2>2. timers' = {}
    BY <2>1 DEF NoStrayTimer, TypeOK
  <2> QED
    BY <1>1, <2>1, <2>2, DecisionTypes DEF EntityTypeOK, NoStrayTimer, TypeOK, Write
<1>4. CASE Unload
  BY <1>4 DEF Unload, CancelTimer, EntityTypeOK, NoStrayTimer, TypeOK
<1>5. CASE Opened \/ Delivered \/ Other \/ Edited \/ Lost
  BY <1>1, <1>5, NotifiedTypes DEF Opened, Delivered, Other, Edited, Lost
<1>6. CASE Tick \/ Report \/ Restart \/ UNCHANGED vars
  BY <1>6 DEF Tick, Report, Restart, vars, entityvars, EntityTypeOK, NoStrayTimer, TypeOK
<1> QED
  BY <1>2, <1>3, <1>4, <1>5, <1>6 DEF Next

LEMMA TimerInitially == Init => TimerInv
<1> SUFFICES ASSUME Init PROVE TimerInv
  OBVIOUS
<1>1. 0 \in Time
  BY TimeAssumption DEF Time
<1>2. {} \in AtMostOne /\ {0} \in AtMostOne
  BY <1>1 DEF AtMostOne
<1>3. heard \in AtMostOne /\ held \subseteq heard /\ coming \subseteq Time
  BY <1>2 DEF Init
<1>4. shown \in [available : BOOLEAN, value : AtMostOne]
  BY <1>2 DEF Init
<1>5. now \in Time /\ connected \in BOOLEAN /\ node \in States /\ fits \in BOOLEAN
  BY <1>1 DEF Init
<1>6. event \in AtMostOne /\ value \in AtMostOne /\ timers = {} /\ handle = {}
  BY <1>2 DEF Init
<1>7. phase \in {"none", "added", "removed"} /\ available \in BOOLEAN
  BY DEF Init
<1> QED
  BY <1>3, <1>4, <1>5, <1>6, <1>7 DEF TimerInv, TypeOK, NoStrayTimer

\* Every variable of the entity and of its surroundings keeps its type, and
\* a handle is always one of a timer that runs (entity.py).
THEOREM EntityTypeCorrect == Spec => []TypeOK
<1>1. TimerInv => TypeOK
  BY DEF TimerInv
<1> QED
  BY <1>1, TimerInitially, TimerStep, PTL DEF Spec

\* Every timer is one the entity can cancel (_async_schedule_stale_timer).
THEOREM TimersAreHeld == Spec => []NoStrayTimer
<1>1. TimerInv => NoStrayTimer
  BY DEF TimerInv
<1> QED
  BY <1>1, TimerInitially, TimerStep, PTL DEF Spec

(***************************************************************************)
(* What is shown was decided on the view as it still is: a step that       *)
(* changes the view either calls the handler or removes the entity, and    *)
(* the clock alone can only make an event too old.                         *)
(***************************************************************************)

\* The stale timer writes the value copied by the handler before it.
Copied == phase = "added" => value = event

Shown == Honest /\ Copied

\* A write shows what the view of this step calls for.
LEMMA WriteShows ==
    ASSUME TypeOK, ViewTypeOK', now' = now, available' = IsAvailable, value' = event', Write
    PROVE  Shown'
<1>1. Stale \in Nat /\ now \in Nat /\ \A t \in event' : t \in Nat
  BY TimeAssumption DEF TypeOK, ViewTypeOK, AtMostOne, Time
<1>2. shown'.available = IsAvailable /\ shown'.value = event' /\ Copied'
  BY DEF Write, Copied
<1>3. ~IsAvailable => ~connected' \/ node' # "active" \/ Overdue'
  BY <1>1 DEF IsAvailable, Overdue
<1>4. IsAvailable => connected' /\ node' = "active"
  BY DEF IsAvailable
<1> QED
  BY <1>2, <1>3, <1>4 DEF Shown, Honest

LEMMA NotifiedShows ==
    ASSUME TypeOK, ViewTypeOK', now' = now, Notified
    PROVE  Shown'
<1>1. CASE HandleUpdate
  BY <1>1, WriteShows DEF HandleUpdate, UpdateValue
<1>2. CASE phase' # "added"
  BY <1>2 DEF Shown, Honest, Copied
<1> QED
  BY <1>1, <1>2 DEF Notified, entityvars

ShownInv == TypeOK /\ Shown

LEMMA ShownStep == ShownInv /\ TypeOK' /\ [Next]_vars => Shown'
<1> SUFFICES ASSUME TypeOK, Shown, [Next]_vars PROVE Shown'
  BY DEF ShownInv
<1>0. ViewTypeOK'
  BY ViewTypes
<1>1. CASE Add
  BY <1>0, <1>1, WriteShows DEF Add, HandleUpdate, UpdateValue, gatewayvars
<1>2. CASE MarkStale
  <2>1. now' = now /\ event' = event /\ phase' = phase /\ value' = value
    BY <1>2 DEF MarkStale, gatewayvars, viewvars
  <2>2. available' = IsAvailable /\ (phase = "added" => Write)
    BY <1>2 DEF MarkStale
  <2> QED
    BY <1>0, <2>1, <2>2, WriteShows DEF Shown, Honest, Copied
<1>3. CASE Unload
  BY <1>3 DEF Unload, Shown, Honest, Copied
<1>4. CASE Tick
  <2>1. Overdue => Overdue'
    BY <1>4, TimeAssumption DEF Tick, viewvars, Overdue, TypeOK, AtMostOne, Time
  <2> QED
    BY <1>4, <2>1 DEF Tick, viewvars, entityvars, Shown, Honest, Copied
<1>5. CASE Report \/ Restart \/ UNCHANGED vars
  BY <1>5 DEF Report, Restart, vars, gatewayvars, viewvars, entityvars,
              Shown, Honest, Copied, Overdue
<1>6. CASE Opened \/ Delivered \/ Other \/ Edited \/ Lost
  BY <1>0, <1>6, NotifiedShows DEF Opened, Delivered, Other, Edited, Lost, gatewayvars
<1> QED
  BY <1>1, <1>2, <1>3, <1>4, <1>5, <1>6 DEF Next

\* An entity is available only for a connected gateway and an active node, and
\* unavailable for no other reason than these or silence, and its value is of the
\* event the runtime has (_calculate_available, _update_value and all that call them).
THEOREM AvailabilityIsHonest == Spec => []Honest
<1>1. Init => Shown
  BY DEF Init, Shown, Honest, Copied
<1>2. Shown => Honest
  BY DEF Shown
<1> QED
  BY <1>1, <1>2, EntityTypeCorrect, ShownStep, PTL DEF Spec, ShownInv

(***************************************************************************)
(* Silence is timed as long as no clock read falls on a deadline: reads    *)
(* are multiples of Step apart, and an event is a clock read too.  A clock *)
(* that is read in seconds with a fraction, and events in milliseconds of  *)
(* another clock, meet on a deadline by accident only; what the code does  *)
(* then is no timer for an entity that is still available.                 *)
(***************************************************************************)
NoneOnTheDot == \A k \in Nat : k * Step # Stale

IsRead(t) == \E k \in Nat : t = k * Step

Reads == IsRead(now) /\ \A t \in heard \cup coming \cup event : IsRead(t)

LEMMA ReadsStep == TypeOK /\ Reads /\ [Next]_vars => Reads'
<1> SUFFICES ASSUME TypeOK, Reads, [Next]_vars PROVE Reads'
  OBVIOUS
<1> USE DEF Reads
<1>1. \A t \in held : IsRead(t)
  BY DEF TypeOK
<1>2. CASE Tick
  <2>1. PICK k \in Nat : now = k * Step
    BY DEF IsRead
  <2>2. now' = (k + 1) * Step /\ k + 1 \in Nat
    BY <1>2, <2>1, TimeAssumption DEF Tick
  <2>3. IsRead(now')
    BY <2>2 DEF IsRead
  <2> QED
    BY <1>2, <2>3 DEF Tick, viewvars, IsRead
<1>3. CASE Opened \/ Edited
  BY <1>1, <1>3 DEF Opened, Edited, EditNode, IsRead
<1>4. CASE Delivered
  BY <1>4 DEF Delivered, IsRead
<1>5. CASE Report \/ Restart
  BY <1>5 DEF Report, Restart, viewvars, IsRead
<1>6. CASE Add \/ MarkStale \/ Unload \/ Other \/ Lost \/ UNCHANGED vars
  BY <1>6 DEF Add, MarkStale, Unload, Other, Lost, vars, gatewayvars, viewvars, IsRead
<1> QED
  BY <1>2, <1>3, <1>4, <1>5, <1>6 DEF Next

\* The age of an event is never the stale time.
LEMMA NeverOnTheDot ==
    ASSUME NoneOnTheDot, TypeOK, NEW t \in Nat, IsRead(now), IsRead(t)
    PROVE  t + Stale # now
<1> SUFFICES ASSUME t + Stale = now PROVE FALSE
  OBVIOUS
<1>1. PICK i \in Nat, j \in Nat : now = i * Step /\ t = j * Step
  BY DEF IsRead
<1>2. Stale \in Nat \ {0} /\ Step \in Nat \ {0}
  BY TimeAssumption
<1>3. Stale = (i - j) * Step
  <2>1. i * Step - j * Step = (i - j) * Step
    BY <1>2
  <2> QED
    BY <1>1, <1>2, <2>1
<1>4. i - j \in Nat
  <2> SUFFICES ASSUME i < j PROVE FALSE
    OBVIOUS
  <2>1. i * Step <= j * Step
    BY <1>2
  <2> QED
    BY <1>1, <1>2, <2>1
<1> QED
  BY <1>3, <1>4 DEF NoneOnTheDot

\* An entity's timer is for its event, whether or not it is available.
TimersOfEvent == phase = "added" => timers \subseteq {t + Stale : t \in event}

LEMMA HandlerTimes ==
    ASSUME NoneOnTheDot, TypeOK, NoStrayTimer, ViewTypeOK', Reads', now' = now, HandleUpdate
    PROVE  SilenceIsTimed' /\ TimersOfEvent'
<1>1. handle' = Ahead /\ timers' = Ahead
  BY DEF HandleUpdate, Schedule, NoStrayTimer, TypeOK
<1>2. shown'.available = IsAvailable
  BY DEF HandleUpdate, Write
<1>3. ASSUME IsAvailable, NEW t \in event' PROVE t + Stale > now
  <2>1. now \in Nat /\ t \in Nat /\ Stale \in Nat
    BY TimeAssumption DEF TypeOK, ViewTypeOK, AtMostOne, Time
  <2>2. t + Stale # now
    BY <2>1, NeverOnTheDot DEF Reads
  <2> QED
    BY <1>3, <2>1, <2>2 DEF IsAvailable
<1> QED
  BY <1>1, <1>2, <1>3 DEF SilenceIsTimed, TimersOfEvent, Ahead, Deadline

TimedInv == SilenceIsTimed /\ TimersOfEvent

LEMMA TimedStep ==
    NoneOnTheDot /\ TimerInv /\ Reads /\ Reads' /\ TimedInv /\ [Next]_vars => TimedInv'
<1> SUFFICES ASSUME NoneOnTheDot, TypeOK, NoStrayTimer, Reads, Reads', TimedInv, [Next]_vars
             PROVE  TimedInv'
  BY DEF TimerInv
<1> USE DEF TimedInv
<1>0. ViewTypeOK'
  BY ViewTypes
<1>1. CASE Add
  BY <1>0, <1>1, HandlerTimes DEF Add, gatewayvars
<1>2. CASE MarkStale
  <2>1. PICK d \in timers : d <= now /\ timers' = timers \ {d} /\ available' = IsAvailable
    BY <1>2 DEF MarkStale
  <2>2. UNCHANGED <<now, event, phase>> /\ (phase = "added" => Write)
    BY <1>2 DEF MarkStale, gatewayvars, viewvars
  <2>3. ASSUME phase = "added" PROVE ~IsAvailable
    <3>1. PICK t \in event : d = t + Stale
      BY <2>3 DEF TimersOfEvent
    <3>2. t \in Nat /\ now \in Nat /\ Stale \in Nat
      BY TimeAssumption DEF TypeOK, AtMostOne, Time
    <3>3. t + Stale # now
      BY <3>2, NeverOnTheDot DEF Reads
    <3> QED
      BY <2>1, <2>2, <3>1, <3>2, <3>3 DEF IsAvailable
  <2> QED
    BY <2>1, <2>2, <2>3 DEF SilenceIsTimed, TimersOfEvent, Write
<1>3. CASE Unload
  BY <1>3 DEF Unload, SilenceIsTimed, TimersOfEvent
<1>4. CASE Opened \/ Delivered \/ Other \/ Edited \/ Lost
  <2>1. now' = now /\ Notified
    BY <1>4 DEF Opened, Delivered, Other, Edited, Lost, gatewayvars
  <2>2. CASE HandleUpdate
    BY <1>0, <2>1, <2>2, HandlerTimes
  <2>3. CASE phase' # "added"
    BY <2>3 DEF SilenceIsTimed, TimersOfEvent
  <2> QED
    BY <2>1, <2>2, <2>3 DEF Notified, entityvars
<1>5. CASE Tick \/ Report \/ Restart \/ UNCHANGED vars
  BY <1>5 DEF Tick, Report, Restart, vars, viewvars, entityvars, SilenceIsTimed, TimersOfEvent
<1> QED
  BY <1>1, <1>2, <1>3, <1>4, <1>5 DEF Next

\* An available entity with an event has a timer for the deadline of that
\* event, and no other, so that silence cannot go unnoticed (entity.py,
\* _async_schedule_stale_timer and _async_mark_stale).
THEOREM SilenceTimed ==
    ASSUME NoneOnTheDot
    PROVE  Spec => []SilenceIsTimed
<1>1. Init => Reads
  <2>1. 0 = 0 * Step
    BY TimeAssumption
  <2>2. IsRead(0)
    BY <2>1 DEF IsRead
  <2> QED
    BY <2>2 DEF Init, Reads
<1>2. Init => TimedInv
  BY DEF Init, TimedInv, SilenceIsTimed, TimersOfEvent
<1>3. TimerInv /\ Reads /\ TimedInv /\ [Next]_vars => TimedInv'
  BY ReadsStep, TimedStep DEF TimerInv
<1>4. TimedInv => SilenceIsTimed
  BY DEF TimedInv
<1> QED
  BY <1>1, <1>2, <1>3, <1>4, TimerInitially, TimerStep, ReadsStep, PTL DEF Spec, TimerInv
=============================================================================
