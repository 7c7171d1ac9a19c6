-------------------------- MODULE GatewayHealthProofs --------------------------
(* The invariants of GatewayHealth, for every second, every length of time and *)
(* any number of boots.                                                         *)
EXTENDS GatewayHealth, TLAPS

\* Whole seconds are the largest number that fits.
LEMMA WholeSeconds ==
    ASSUME NEW x \in Nat, NEW s \in Nat \ {0}
    PROVE  /\ x \div s \in Nat
           /\ (x \div s) * s <= x
           /\ x \div s <= x
           /\ \A k \in Nat : k * s <= x => k <= x \div s
<1> DEFINE q == x \div s
<1>1. q \in Int
  OBVIOUS
<1>2. s * q <= x /\ x < s * (q + 1)
  BY SMTT(30)
<1>3. q >= 0
  BY <1>2, <1>1, SMTT(30)
<1>4. q <= x
  BY <1>2, <1>3, <1>1, SMTT(30)
<1>5. ASSUME NEW k \in Nat, k * s <= x PROVE k <= q
  <2>1. k * s < s * (q + 1)
    BY <1>1, <1>2, <1>5, SMTT(30)
  <2> HIDE DEF q
  <2>2. ~(k >= q + 1)
    <3> SUFFICES ASSUME k >= q + 1 PROVE FALSE
      OBVIOUS
    <3>1. s * (k - (q + 1)) >= 0
      BY <1>1, SMTT(30)
    <3> QED  BY <1>1, <2>1, <3>1, SMTT(30)
  <2> QED  BY <1>1, <2>2
<1> QED  BY <1>1, <1>2, <1>3, <1>4, <1>5

----------------------------------------------------------------------------
(* What was read was true when it was read, and stays true: the boot it names  *)
(* is at least so old.                                                         *)

AtLeast(i, time) == i.boot \in DOMAIN boots /\ i.uptime * Second <= time - boots[i.boot]

ReadIsTrue == AtLeast(read, now)
InfoIsTrue == Constructed => anchor \in Nat /\ anchor <= now /\ AtLeast(info, anchor)
StartedInBoot == Constructed => started >= boots[info.boot]
RestartShown == Constructed => shown.boot = info.boot /\ shown.restart = started

HealthInv ==
    /\ TypeOK
    /\ ReadIsTrue /\ InfoIsTrue /\ StartedInBoot /\ RestartShown
    /\ ConnectionIsShown

\* A boot that is at least u seconds old is so by its own uptime.
LEMMA UptimeBounds ==
    ASSUME HealthAssumption, NEW u \in Nat, NEW t \in Nat, NEW b \in Nat, NEW n \in Nat,
           t <= n, u * Second <= t - b
    PROVE  u + (n - t) \div Second <= (n - b) \div Second
<1> DEFINE d == (n - t) \div Second
<1>1. u * Second >= 0
  BY SMTT(30) DEF HealthAssumption
<1>2. d \in Nat /\ d * Second <= n - t
  BY WholeSeconds DEF HealthAssumption
<1>3. (u + d) * Second <= n - b
  BY <1>1, <1>2, SMTT(30) DEF HealthAssumption
<1>4. n - b \in Nat
  BY <1>1
<1> QED  BY <1>2, <1>3, <1>4, WholeSeconds DEF HealthAssumption

\* The boot that is read, and when it was, by what is read.
LEMMA ReadTells ==
    ASSUME HealthAssumption, TypeOK
    PROVE  LET i == [boot |-> Boot, uptime |-> UptimeOf(Boot)]
           IN i \in Info /\ AtLeast(i, now)
<1>1. Boot \in 1 .. MaxBoots /\ boots[Boot] \in 0 .. now /\ Boot \in DOMAIN boots
  BY DEF TypeOK, Boot, HealthAssumption
<1>2. now - boots[Boot] \in Nat /\ now - boots[Boot] <= MaxTime
  BY <1>1 DEF TypeOK, HealthAssumption
<1>3. UptimeOf(Boot) \in 0 .. MaxTime /\ UptimeOf(Boot) * Second <= now - boots[Boot]
  BY <1>2, WholeSeconds DEF UptimeOf, HealthAssumption
<1> QED  BY <1>1, <1>3 DEF Info, AtLeast

\* The start that is computed from what was read is a time after the boot.
LEMMA StartIsLater ==
    ASSUME HealthAssumption, TypeOK, NEW i \in Info, AtLeast(i, now)
    PROVE  StartedAt(i) \in Time /\ StartedAt(i) >= boots[i.boot]
<1>1. boots[i.boot] \in Nat
  BY DEF AtLeast, TypeOK, HealthAssumption
<1>2. i.uptime * Second \in Nat
  BY SMTT(30) DEF Info, HealthAssumption
<1> DEFINE w == i.uptime * Second
<1>3. now - w >= boots[i.boot] /\ now - w <= now
  <2>1. w <= now - boots[i.boot] /\ now \in Nat
    BY DEF AtLeast, TypeOK, HealthAssumption
  <2> HIDE DEF w
  <2> QED  BY <1>1, <1>2, <2>1 DEF w
<1>4. now - w \in 0 .. MaxTime
  <2>1. now \in 0 .. MaxTime /\ MaxTime \in Nat
    BY DEF TypeOK, HealthAssumption
  <2> HIDE DEF w
  <2> QED  BY <1>1, <1>2, <1>3, <2>1 DEF w
<1> QED  BY <1>3, <1>4 DEF StartedAt, Time

THEOREM HealthInit == HealthAssumption /\ Init => HealthInv
<1> SUFFICES ASSUME HealthAssumption, Init PROVE HealthInv
  OBVIOUS
<1>1. boots = <<0>> /\ boots \in Seq(0 .. now) /\ Len(boots) = 1 /\ DOMAIN boots = {1} /\ boots[1] = 0
  BY DEF Init
<1>2. TypeOK
  <2>1. NoInfo \in Info /\ 1 \in 1 .. MaxBoots /\ now \in 0 .. MaxTime
    BY DEF Init, HealthAssumption, NoInfo, Info
  <2>2. 0 \in 0 .. MaxReconnects /\ -1 \in Time /\ 1 \in 1 .. MaxBoots
    BY <2>1 DEF HealthAssumption, Time, Never
  <2>3. shown \in [boot : 1 .. MaxBoots, restart : Time, message : Time,
                   reconnects : 0 .. MaxReconnects, connected : BOOLEAN]
    BY <2>2 DEF Init, Never
  <2>4. Len(boots) \in 1 .. MaxBoots
    BY <1>1, <2>1
  <2>5. /\ phase = "asking" /\ read \in Info /\ info \in Info
        /\ started \in Time /\ anchor \in Time /\ message \in Time
        /\ reconnects \in 0 .. MaxReconnects /\ connected = FALSE
    BY <2>1, <2>2 DEF Init, Never
  <2> QED  BY <1>1, <2>1, <2>3, <2>4, <2>5 DEF TypeOK
<1>3. ReadIsTrue
  BY <1>1, SMTT(30) DEF Init, HealthAssumption, ReadIsTrue, AtLeast, NoInfo
<1>4. ~Constructed /\ ConnectionIsShown
  BY DEF Init, Constructed, ConnectionIsShown
<1> QED  BY <1>2, <1>3, <1>4 DEF HealthInv, InfoIsTrue, StartedInBoot, RestartShown

----------------------------------------------------------------------------
(* The steps. *)

\* The clock goes on and boots are added: what was true stays true.
LEMMA TruthStays ==
    ASSUME HealthAssumption, TypeOK,
           Tick \/ Reboot, NEW i \in Info, NEW t \in Nat, NEW u \in Nat, t <= u, AtLeast(i, t)
    PROVE  AtLeast(i, u)' /\ boots'[i.boot] = boots[i.boot]
<1>1. \A b \in DOMAIN boots : b \in DOMAIN boots' /\ boots'[b] = boots[b] /\ boots[b] \in Nat
  BY DEF Tick, Reboot, TypeOK, HealthAssumption
<1>2. i.uptime * Second \in Nat
  BY SMTT(30) DEF Info, HealthAssumption
<1> QED  BY <1>1, <1>2 DEF AtLeast

LEMMA ClockStep ==
    ASSUME HealthAssumption, HealthInv, Tick \/ Reboot
    PROVE  HealthInv'
<1> USE DEF HealthInv
<1>1. TypeOK'
  <2>1. CASE Tick
    <3>1. now' \in 0 .. MaxTime /\ now' = now + 1 /\ now \in Nat
      BY <2>1 DEF Tick, TypeOK, HealthAssumption
    <3>2. boots' \in Seq(0 .. now') /\ Len(boots') = Len(boots)
      BY <2>1, <3>1 DEF Tick, TypeOK
    <3> QED  BY <2>1, <3>1, <3>2 DEF Tick, TypeOK, runtime
  <2>2. CASE Reboot
    <3>1. boots' \in Seq(0 .. now) /\ Len(boots') \in 1 .. MaxBoots
      BY <2>2 DEF Reboot, TypeOK, HealthAssumption
    <3> QED  BY <2>2, <3>1 DEF Reboot, TypeOK, runtime
  <2> QED  BY <2>1, <2>2
<1>2. UNCHANGED <<phase, read, runtime, shown>> /\ now' >= now /\ now \in Nat /\ now' \in Nat
  BY DEF Tick, Reboot, TypeOK, HealthAssumption
<1>3. ReadIsTrue'
  BY <1>2, TruthStays DEF ReadIsTrue, TypeOK, AtLeast
<1>4. InfoIsTrue' /\ StartedInBoot' /\ RestartShown'
  <2> SUFFICES ASSUME Constructed' PROVE InfoIsTrue' /\ StartedInBoot' /\ RestartShown'
    BY DEF InfoIsTrue, StartedInBoot, RestartShown
  <2>1. Constructed /\ anchor \in Nat /\ anchor <= now /\ AtLeast(info, anchor)
    BY <1>2 DEF Constructed, InfoIsTrue
  <2>2. info \in Info
    BY DEF TypeOK
  <2>3. AtLeast(info, anchor)' /\ boots'[info.boot] = boots[info.boot]
    <3>1. AtLeast(info, anchor)' <=> info.boot \in DOMAIN boots' /\ info.uptime * Second <= anchor - boots'[info.boot]
      BY <1>2 DEF AtLeast, runtime
    <3>2. \A b \in DOMAIN boots : b \in DOMAIN boots' /\ boots'[b] = boots[b]
      BY DEF Tick, Reboot, TypeOK, HealthAssumption
    <3> QED  BY <2>1, <3>1, <3>2 DEF AtLeast
  <2> QED  BY <1>2, <2>1, <2>3 DEF InfoIsTrue, StartedInBoot, RestartShown, runtime
<1>5. ConnectionIsShown'
  BY <1>2 DEF ConnectionIsShown, runtime
<1> QED  BY <1>1, <1>3, <1>4, <1>5

LEMMA ReadStep ==
    ASSUME HealthAssumption, HealthInv, Read
    PROVE  HealthInv'
<1> USE DEF HealthInv
<1>1. read' \in Info /\ AtLeast(read', now)
  BY ReadTells DEF Read
<1>2. UNCHANGED <<now, boots, info, started, anchor, message, reconnects, connected, shown>>
  BY DEF Read, clocks, runtime
<1>3. phase' \in {"read", "opening"} /\ phase # "serving" /\ (Constructed' => Constructed)
  BY DEF Read, Constructed
<1>4. TypeOK'
  BY <1>1, <1>2, <1>3 DEF TypeOK
<1> QED  BY <1>1, <1>2, <1>3, <1>4
         DEF ReadIsTrue, AtLeast, InfoIsTrue, StartedInBoot, RestartShown, ConnectionIsShown

\* The entities show what the step has made of the runtime.
LEMMA ShowTells ==
    ASSUME TypeOK, Show, info' \in Info, started' \in Time, message' \in Time,
           reconnects' \in 0 .. MaxReconnects, connected' \in BOOLEAN
    PROVE  /\ shown' \in [boot : 1 .. MaxBoots, restart : Time, message : Time,
                          reconnects : 0 .. MaxReconnects, connected : BOOLEAN]
           /\ shown'.boot = info'.boot /\ shown'.restart = started'
           /\ ConnectionIsShown'
  BY DEF Show, ShownConnection, ConnectionIsShown, Info

\* The runtime is constructed, or a session opens, with what was read; the start
\* is computed, or is that of the same boot.
LEMMA AnchorStep ==
    ASSUME HealthAssumption, HealthInv, Show,
           info' = read, anchor' = now, UNCHANGED <<clocks, read>>,
           message' \in Time, reconnects' \in 0 .. MaxReconnects, connected' \in BOOLEAN,
           started' = StartedAt(read) \/ (started' = started /\ read.boot = info.boot /\ Constructed),
           phase' \in {"opening", "serving"}, connected' <=> phase' = "serving"
    PROVE  HealthInv'
<1> USE DEF HealthInv
<1>1. now \in Nat /\ now \in Time /\ read \in Info /\ AtLeast(read, now)
  BY DEF TypeOK, Time, ReadIsTrue, HealthAssumption
<1>2. started' \in Time /\ started' >= boots[read.boot]
  <2>1. StartedAt(read) \in Time /\ StartedAt(read) >= boots[read.boot]
    BY <1>1, StartIsLater
  <2>2. Constructed => started \in Time /\ started >= boots[info.boot]
    BY DEF TypeOK, StartedInBoot
  <2> QED  BY <2>1, <2>2
<1>3. UNCHANGED <<now, boots>>
  BY DEF clocks
<1>4. TypeOK'
  BY <1>1, <1>2, <1>3, ShowTells DEF TypeOK
<1>5. ReadIsTrue' /\ InfoIsTrue' /\ StartedInBoot'
  BY <1>1, <1>2, <1>3 DEF ReadIsTrue, InfoIsTrue, StartedInBoot, AtLeast
<1>6. RestartShown' /\ ConnectionIsShown'
  BY <1>1, <1>2, ShowTells DEF RestartShown
<1> QED  BY <1>4, <1>5, <1>6

LEMMA ConstructStep ==
    ASSUME HealthAssumption, HealthInv, Construct
    PROVE  HealthInv'
<1>1. TypeOK
  BY DEF HealthInv
<1> QED  BY <1>1, AnchorStep DEF Construct, TypeOK

LEMMA OpenStep ==
    ASSUME HealthAssumption, HealthInv, Open
    PROVE  HealthInv'
<1>1. TypeOK /\ Constructed /\ now \in Time
  BY DEF HealthInv, Open, Constructed, TypeOK, Time
<1> QED  BY <1>1, AnchorStep DEF Open, TypeOK, RestartTime, Anchor

\* The other steps of the runtime leave what is read, anchored and started.
LEMMA RuntimeStep ==
    ASSUME HealthAssumption, HealthInv, Fail \/ Lost \/ \E n \in BOOLEAN : Message(n)
    PROVE  HealthInv'
<1> USE DEF HealthInv
<1>1. /\ UNCHANGED <<now, boots, read, info, started, anchor>>
      /\ Constructed
  BY DEF Fail, Lost, Message, clocks, runtime, Constructed
<1>2. /\ message' \in Time /\ reconnects' \in 0 .. MaxReconnects /\ connected' \in BOOLEAN
      /\ phase' \in {"waiting", "serving"} /\ (connected' <=> phase' = "serving")
  <2>1. now \in Time
    BY DEF TypeOK, Time
  <2>2. CASE Fail
    BY <2>2 DEF Fail, runtime, TypeOK
  <2>3. CASE Lost
    <3>1. reconnects' \in 0 .. MaxReconnects
      BY <2>3, HealthAssumption DEF Lost, TypeOK, HealthAssumption
    <3> QED  BY <2>3, <3>1 DEF Lost, TypeOK
  <2>4. CASE \E n \in BOOLEAN : Message(n)
    BY <2>1, <2>4 DEF Message, TypeOK
  <2> QED  BY <2>2, <2>3, <2>4
<1>3. Show \/ (UNCHANGED <<shown, connected, reconnects>>)
  BY DEF Fail, Lost, Message, runtime
<1>4. /\ shown' \in [boot : 1 .. MaxBoots, restart : Time, message : Time,
                     reconnects : 0 .. MaxReconnects, connected : BOOLEAN]
      /\ shown'.boot = info'.boot /\ shown'.restart = started'
      /\ ConnectionIsShown'
  <2>1. CASE Show
    BY <2>1, <1>1, <1>2, ShowTells DEF TypeOK
  <2>2. CASE UNCHANGED <<shown, connected, reconnects>>
    BY <2>2, <1>1 DEF TypeOK, RestartShown, ConnectionIsShown
  <2> QED  BY <1>3, <2>1, <2>2
<1>5. TypeOK'
  BY <1>1, <1>2, <1>4 DEF TypeOK
<1> QED  BY <1>1, <1>4, <1>5
         DEF ReadIsTrue, AtLeast, InfoIsTrue, StartedInBoot, RestartShown, Constructed

THEOREM HealthStep == HealthAssumption /\ HealthInv /\ [Next]_vars => HealthInv'
<1> SUFFICES ASSUME HealthAssumption, HealthInv, [Next]_vars PROVE HealthInv'
  OBVIOUS
<1>1. CASE UNCHANGED vars
  BY <1>1 DEF vars, clocks, runtime, HealthInv, TypeOK, ReadIsTrue, AtLeast, InfoIsTrue,
              StartedInBoot, RestartShown, ConnectionIsShown, Constructed
<1> QED  BY <1>1, ClockStep, ReadStep, ConstructStep, OpenStep, RuntimeStep DEF Next

----------------------------------------------------------------------------
(* The theorems. *)

\* HealthInv is an invariant of every instance.
THEOREM HealthIsInvariant == Spec => []HealthInv
<1>1. Init => HealthInv
  BY HealthInit, HealthAssumption
<1>2. HealthInv /\ [Next]_vars => HealthInv'
  BY HealthStep, HealthAssumption
<1> QED  BY <1>1, <1>2, PTL DEF Spec

\* Every variable keeps its type; above all, no time is before the host's clock
\* began or after what it shows.
THEOREM HealthTypeCorrect == Spec => []TypeOK
<1>1. HealthInv => TypeOK
  BY DEF HealthInv
<1> QED  BY <1>1, HealthIsInvariant, PTL

\* The estimated uptime is never ahead of the gateway's (runtime.py:72).
THEOREM UptimeIsNeverAhead == Spec => []UptimeNotAhead
<1>1. HealthInv => UptimeNotAhead
  <2> SUFFICES ASSUME HealthInv, Constructed, info.boot = Boot
               PROVE  Uptime <= UptimeOf(Boot)
    BY DEF UptimeNotAhead
  <2>1. anchor \in Nat /\ anchor <= now /\ now \in Nat /\ info.uptime \in Nat
    BY HealthAssumption DEF HealthInv, InfoIsTrue, TypeOK, Info
  <2>2. boots[Boot] \in Nat /\ info.uptime * Second <= anchor - boots[Boot]
    BY HealthAssumption DEF HealthInv, InfoIsTrue, AtLeast, TypeOK
  <2> QED  BY <2>1, <2>2, UptimeBounds, HealthAssumption DEF Uptime, UptimeOf
<1> QED  BY <1>1, HealthIsInvariant, PTL

\* The last restart shown belongs to the boot shown (runtime.py:76).
THEOREM RestartBelongs == Spec => []RestartIsItsBoot
<1>1. HealthInv => RestartIsItsBoot
  BY DEF HealthInv, RestartShown, StartedInBoot, RestartIsItsBoot
<1> QED  BY <1>1, HealthIsInvariant, PTL

\* The last restart of one boot does not move (runtime.py:76).
THEOREM RestartStays == Spec => RestartIsStable
<1>1. HealthInv /\ [Next]_vars =>
          [Constructed /\ shown'.boot = shown.boot => shown'.restart = shown.restart]_vars
  <2> SUFFICES ASSUME HealthInv, Next, Constructed, shown'.boot = shown.boot
               PROVE  shown'.restart = shown.restart
    OBVIOUS
  <2>1. shown.boot = info.boot /\ shown.restart = started
    BY DEF HealthInv, RestartShown
  <2>2. CASE Open
    BY <2>1, <2>2 DEF Open, Show, RestartTime
  <2>3. CASE Lost \/ \E n \in BOOLEAN : Message(n)
    BY <2>1, <2>3 DEF Lost, Message, Show
  <2>4. CASE Tick \/ Reboot \/ Read \/ Fail
    BY <2>4 DEF Tick, Reboot, Read, Fail
  <2>5. CASE Construct
    BY <2>5 DEF Construct, Constructed
  <2> QED  BY <2>2, <2>3, <2>4, <2>5 DEF Next
<1> QED  BY <1>1, HealthIsInvariant, PTL DEF Spec, RestartIsStable

\* No session begins or ends unseen (runtime.py:143).
THEOREM ConnectionIsAlwaysShown == Spec => []ConnectionIsShown
<1>1. HealthInv => ConnectionIsShown
  BY DEF HealthInv
<1> QED  BY <1>1, HealthIsInvariant, PTL
================================================================================
