--------------------------- MODULE EntryFlowsProofs ---------------------------
(* The safety of EntryFlows for any number of gateways, addresses, flows and    *)
(* changes, and what a flow may do to the entry of its gateway.                 *)
EXTENDS EntryFlows, TLAPS

\* What holds of one flow.  A flow that awaits the nodes has the answer of a
\* gateway, the announced one if it is a card; a card has no entry.
FlowGood(f) ==
    /\ f \in Flow /\ FlowOk(f)
    /\ f.step # "form" \/ f.source = "zeroconf" => f.host \in Address
    /\ f.step = "nodes" =>
           f.seen \in Gateway /\ (f.source = "zeroconf" => f.seen = f.uid)
    /\ f.source = "zeroconf" => entry[f.uid].state = "none"

\* What holds of one entry.
EntryGood(g) ==
    /\ entry[g] \in Entry
    /\ entry[g].reload => Configured(g)
    /\ Configured(g) => entry[g].data.host \in Address /\ entry[g].client.host \in Address

OneHolder == \A g, h \in Gateway : at[g] = at[h] => g = h \/ at[g] = Nobody
Surrounded ==
    /\ at \in [Gateway -> Host] /\ OneHolder
    /\ key \in [Gateway -> 0 .. MaxChanges]
    /\ changes \in 0 .. MaxChanges /\ \A g \in Gateway : key[g] <= changes
    /\ checks \subseteq [uid : Gateway, host : Address]
FlowsGood == \A f \in flows : FlowGood(f)
OneCard == \A c, k \in Cards : (k.uid = c.uid \/ k.host = c.host) => k = c
EntriesGood == DOMAIN entry = Gateway /\ entry = [g \in Gateway |-> entry[g]]
                   /\ \A g \in Gateway : EntryGood(g)

FlowsInv == Surrounded /\ FlowsGood /\ OneCard /\ EntriesGood /\ replaced = {}

LEMMA FlowsInvImplies ==
    ASSUME FlowsInv
    PROVE  TypeOK /\ EntriesAreKept /\ CardsAreDistinct
<1>1. TypeOK
  BY DEF FlowsInv, Surrounded, OneHolder, FlowsGood, FlowGood, EntriesGood, EntryGood, TypeOK
<1>2. CardsAreDistinct
  BY DEF FlowsInv, FlowsGood, FlowGood, OneCard, Cards, CardsAreDistinct
<1> QED  BY <1>1, <1>2 DEF FlowsInv, EntriesAreKept

LEMMA FlowsInit == FlowsAssumption /\ Init => FlowsInv
<1> SUFFICES ASSUME FlowsAssumption, Init PROVE FlowsInv
  OBVIOUS
<1>1. Surrounded /\ FlowsGood /\ OneCard /\ replaced = {}
  BY DEF Init, Surrounded, OneHolder, FlowsGood, OneCard, Cards, FlowsAssumption
<1>2. NoEntry \in Entry /\ NoEntry.reload = FALSE /\ NoEntry.state = "none"
  BY DEF NoEntry, Entry, NoClient, Client, NoToken, Token, Host
<1>3. EntriesGood
  BY <1>2 DEF Init, EntriesGood, EntryGood, Configured
<1> QED  BY <1>1, <1>3 DEF FlowsInv

----------------------------------------------------------------------------
(* Steps by what they change. *)

\* A flow stays good while its own entry is no more and no less than it was.
LEMMA FlowStays ==
    ASSUME NEW f, FlowGood(f),
           f.uid \in Gateway =>
               /\ Configured(f.uid)' <=> Configured(f.uid)
               /\ entry'[f.uid].state = "none" <=> entry[f.uid].state = "none"
    PROVE  FlowGood(f)'
<1>1. f.uid \in Gateway \cup {Nobody}
  BY DEF FlowGood, Flow
<1>2. f.source = "zeroconf" \/ f.source = "reauth" => f.uid \in Gateway
  BY <1>1 DEF FlowGood, FlowOk
<1> QED  BY <1>2 DEF FlowGood, FlowOk

\* A card of the flows after the step is one of before, or takes its place.
LEMMA CardsStay ==
    ASSUME OneCard, NEW old, NEW new,
           old \in flows, new.source = old.source, new.uid = old.uid,
           new.source = "zeroconf" => new.host = old.host,
           flows' \subseteq (flows \ {old}) \cup {new}
    PROVE  OneCard'
  BY DEF OneCard, Cards

LEMMA FewerCards ==
    ASSUME OneCard, \A f \in flows' : f.source = "zeroconf" => f \in flows
    PROVE  OneCard'
  BY DEF OneCard, Cards

\* Entries whose state changes, but not whether they are entries, nor their key.
Gentle ==
    /\ DOMAIN entry' = Gateway /\ entry' = [g \in Gateway |-> entry'[g]]
    /\ \A g \in Gateway :
           /\ entry'[g] \in Entry
           /\ Configured(g)' <=> Configured(g)
           /\ entry'[g].state = "none" <=> entry[g].state = "none"
           /\ entry'[g].reload => Configured(g)
           /\ entry'[g].data.token = entry[g].data.token
           /\ Configured(g) => entry'[g].data.host \in Address /\ entry'[g].client.host \in Address

LEMMA GentleKeeps ==
    ASSUME FlowsInv, Gentle
    PROVE  EntriesGood' /\ \A f \in flows : FlowGood(f)'
<1>1. EntriesGood'
  BY DEF FlowsInv, EntriesGood, EntryGood, Gentle
<1>2. ASSUME NEW f \in flows PROVE FlowGood(f)'
  BY <1>2, FlowStays DEF FlowsInv, FlowsGood, Gentle
<1> QED  BY <1>1, <1>2

LEMMA EntersIsGentle ==
    ASSUME FlowsInv, NEW g \in Gateway, Configured(g),
           NEW s \in {"info", "nodes", "live", "dialling", "halted", "retry", "error"}, Enters(g, s)
    PROVE  Gentle
<1>1. \A h \in Gateway : entry[h] \in Entry /\ EntryGood(h)
  BY DEF FlowsInv, EntriesGood, EntryGood
<1>2. entry'[g] = [entry[g] EXCEPT !.state = s] /\ \A h \in Gateway : h # g => entry'[h] = entry[h]
  BY DEF Enters, FlowsInv, EntriesGood
<1>3. /\ entry'[g] \in Entry /\ entry'[g].data = entry[g].data /\ entry'[g].client = entry[g].client
      /\ entry'[g].state = s /\ entry'[g].reload = entry[g].reload
  BY <1>1, <1>2 DEF Entry
<1>4. DOMAIN entry' = Gateway /\ entry' = [h \in Gateway |-> entry'[h]]
  BY DEF Enters, FlowsInv, EntriesGood
<1> QED  BY <1>1, <1>2, <1>3, <1>4 DEF Gentle, EntryGood, Configured

\* Another reauthentication of an entry.
LEMMA ReauthIsGood ==
    ASSUME NEW g \in Gateway, Configured(g)', StartReauth(g), FlowsInv,
           \A f \in flows : FlowGood(f)'
    PROVE  FlowsGood' /\ OneCard'
<1> DEFINE new == Form("reauth", g, Nobody)
<1>1. FlowGood(new)'
  <2>1. /\ new.source = "reauth" /\ new.uid = g /\ new.step = "form" /\ new \in Flow
    BY DEF Form, Flow, Host, Token, NoToken
  <2> HIDE DEF new
  <2> QED  BY <2>1, FlowsAssumption DEF FlowGood, FlowOk, FlowsAssumption
<1>2. \A f \in flows' : f \in flows \/ f = new
  BY DEF StartReauth
<1>3. new.source = "reauth"
  BY DEF Form
<1> QED  BY <1>1, <1>2, <1>3, FewerCards DEF FlowsGood, FlowsInv

LEMMA SetUpStep ==
    ASSUME FlowsAssumption, FlowsInv, NEW g \in Gateway, SetsUp(g) \/ Redial(g) \/ Dialled(g)
    PROVE  FlowsInv'
<1>1. UNCHANGED <<at, key, changes, checks, replaced>>
  BY DEF SetsUp, SetUpInfo, SetUpNodes, SetUpAgain, Redial, Dialled
<1>2. Surrounded' /\ replaced' = {}
  BY <1>1 DEF Surrounded, OneHolder, FlowsInv
<1>3. Configured(g)
  BY DEF SetsUp, SetUpInfo, SetUpNodes, SetUpAgain, Redial, Dialled, Configured,
         FlowsInv, EntriesGood, EntryGood
<1>4. Gentle
  <2>1. CASE SetUpAgain(g)
    <3>1. entry'[g] = SetUpOf(entry[g].data) /\ \A h \in Gateway : h # g => entry'[h] = entry[h]
      BY <2>1 DEF SetUpAgain, FlowsInv, EntriesGood
    <3>2. \A h \in Gateway : entry[h] \in Entry /\ EntryGood(h)
      BY DEF FlowsInv, EntriesGood, EntryGood
    <3>3. /\ entry'[g] \in Entry /\ entry'[g].data = entry[g].data /\ entry'[g].client = entry[g].data
          /\ entry'[g].state = "info" /\ entry'[g].reload = FALSE
      BY <3>1, <3>2 DEF SetUpOf, Entry
    <3>4. DOMAIN entry' = Gateway /\ entry' = [h \in Gateway |-> entry'[h]]
      BY <2>1 DEF SetUpAgain, FlowsInv, EntriesGood
    <3> QED  BY <1>3, <3>1, <3>2, <3>3, <3>4 DEF Gentle, EntryGood, Configured
  <2>2. CASE SetUpInfo(g) \/ SetUpNodes(g) \/ Redial(g) \/ Dialled(g)
    <3>1. \E s \in {"info", "nodes", "live", "dialling", "halted", "retry", "error"} : Enters(g, s)
      BY <2>2 DEF SetUpInfo, SetUpNodes, Redial, Dialled, Unreached
    <3> QED  BY <1>3, <3>1, EntersIsGentle
  <2> QED  BY <2>1, <2>2 DEF SetsUp
<1>5. EntriesGood' /\ \A f \in flows : FlowGood(f)'
  BY <1>1, <1>4, GentleKeeps
<1>6. Configured(g)'
  BY <1>3, <1>4 DEF Gentle
<1>7. StartReauth(g) \/ UNCHANGED flows
  BY DEF SetsUp, SetUpInfo, SetUpNodes, SetUpAgain, Redial, Dialled, Refused, Unreached
<1>8. FlowsGood' /\ OneCard'
  <2>1. CASE UNCHANGED flows
    BY <1>5, <2>1, FewerCards DEF FlowsGood, FlowsInv
  <2> QED  BY <1>5, <1>6, <1>7, <2>1, ReauthIsGood
<1> QED  BY <1>2, <1>5, <1>8 DEF FlowsInv

----------------------------------------------------------------------------
(* Discovery. *)

LEMMA AnnounceStep ==
    ASSUME FlowsAssumption, FlowsInv, NEW g \in Gateway, Announce(g)
    PROVE  FlowsInv'
<1>1. UNCHANGED <<at, key, changes, flows, entry, replaced>>
  BY DEF Announce
<1>2. [uid |-> g, host |-> at[g]] \in [uid : Gateway, host : Address]
  BY DEF Announce, FlowsInv, Surrounded, Host
<1>3. Surrounded'
  BY <1>1, <1>2 DEF Announce, Surrounded, OneHolder, FlowsInv
<1>4. EntriesGood' /\ FlowsGood' /\ OneCard'
  BY <1>1 DEF FlowsInv, EntriesGood, EntryGood, FlowsGood, FlowGood, FlowOk, OneCard, Cards, Configured
<1> QED  BY <1>1, <1>3, <1>4 DEF FlowsInv

LEMMA UpdateIsGentle ==
    ASSUME FlowsInv, NEW c \in checks, Configured(c.uid), UpdateAddress(c)
    PROVE  Gentle
<1> DEFINE g == c.uid
           e == entry[g]
<1>1. g \in Gateway /\ c.host \in Address
  BY DEF FlowsInv, Surrounded
<1>2. \A h \in Gateway : entry[h] \in Entry /\ EntryGood(h)
  BY DEF FlowsInv, EntriesGood, EntryGood
<1>3. e \in Entry /\ e.data \in Client
  BY <1>1, <1>2 DEF Entry
<1> DEFINE late == e.late \/ (e.data.host # c.host /\ e.state \in {"info", "nodes"})
           reload == \/ e.reload \/ e.state = "retry"
                     \/ e.data.host # c.host /\ e.state \in {"live", "dialling", "halted"}
           d == [e.data EXCEPT !.host = c.host]
           n == [e EXCEPT !.data = d, !.late = late, !.reload = reload]
<1>4. d \in Client /\ d.token = e.data.token /\ d.host = c.host
  BY <1>1, <1>3 DEF Client, Host
<1>5. late \in BOOLEAN /\ reload \in BOOLEAN
  BY <1>3 DEF Entry
<1>6. entry' = [entry EXCEPT ![g] = n]
  <2>1. DOMAIN entry = Gateway /\ entry = [h \in Gateway |-> entry[h]]
    BY DEF FlowsInv, EntriesGood
  <2> QED  BY <1>1, <1>3, <2>1 DEF UpdateAddress, Loaded, Entry, Client
<1> HIDE DEF d, late, reload
<1>7. n \in Entry /\ n.data = d /\ n.client = e.client /\ n.state = e.state
  BY <1>3, <1>4, <1>5 DEF Entry
<1> HIDE DEF n
<1>8. DOMAIN entry' = Gateway /\ entry' = [h \in Gateway |-> entry'[h]]
  BY <1>6 DEF FlowsInv, EntriesGood
<1>9. entry'[g] = n /\ \A h \in Gateway : h # g => entry'[h] = entry[h]
  BY <1>1, <1>6 DEF FlowsInv, EntriesGood
<1> QED  BY <1>1, <1>2, <1>4, <1>7, <1>8, <1>9 DEF Gentle, EntryGood, Configured

\* A card takes the place of those of its gateway and of its address.
LEMMA ReplaceStaleStep ==
    ASSUME FlowsAssumption, FlowsInv, NEW c \in checks, entry[c.uid].state = "none", ReplaceStale(c),
           UNCHANGED <<at, entry>>
    PROVE  FlowsGood' /\ OneCard'
<1> DEFINE new == Form("zeroconf", c.uid, c.host)
<1>1. c.uid \in Gateway /\ c.host \in Address
  BY DEF FlowsInv, Surrounded
<1>2. /\ new.source = "zeroconf" /\ new.uid = c.uid /\ new.host = c.host /\ new.step = "form"
      /\ new \in Flow
  BY <1>1 DEF Form, Flow, Host, Token, NoToken
<1> HIDE DEF new
<1>3. FlowGood(new)'
  BY <1>1, <1>2, FlowsAssumption DEF FlowGood, FlowOk, FlowsAssumption
<1>4. \A f \in flows : FlowGood(f)'
  BY FlowStays DEF FlowsInv, FlowsGood, Configured
<1>5. CASE UNCHANGED flows
  BY <1>4, <1>5, FewerCards DEF FlowsGood, FlowsInv
<1>6. CASE flows' = (flows \ StaleCards(c)) \cup {new}
  <2>1. \A f \in flows : f \in flows' /\ f.source = "zeroconf" /\ f # new =>
            f \in Cards /\ f.uid # c.uid /\ f.host # c.host
    BY <1>6 DEF StaleCards, Cards
  <2>2. OneCard'
    BY <1>2, <1>6, <2>1 DEF OneCard, Cards, FlowsInv
  <2> QED  BY <1>3, <1>4, <1>6, <2>2 DEF FlowsGood
<1> QED  BY <1>5, <1>6 DEF ReplaceStale, new

LEMMA VerifyStep ==
    ASSUME FlowsAssumption, FlowsInv, NEW c \in checks, Verify(c)
    PROVE  FlowsInv'
<1>1. UNCHANGED <<at, key, changes, replaced>> /\ checks' \subseteq checks
  BY DEF Verify
<1>2. Surrounded' /\ replaced' = {}
  BY <1>1 DEF Surrounded, OneHolder, FlowsInv
<1>3. CASE entry[c.uid].state = "none" /\ ReplaceStale(c) /\ UNCHANGED entry
  BY <1>1, <1>2, <1>3, ReplaceStaleStep DEF FlowsInv, EntriesGood, EntryGood, Configured
<1>4. CASE UNCHANGED <<flows, entry>>
  BY <1>1, <1>2, <1>4 DEF FlowsInv, EntriesGood, EntryGood, FlowsGood, FlowGood, FlowOk, OneCard,
                          Cards, Configured
<1>5. CASE Configured(c.uid) /\ UpdateAddress(c) /\ UNCHANGED flows
  BY <1>1, <1>2, <1>5, UpdateIsGentle, GentleKeeps, FewerCards DEF FlowsInv, FlowsGood
<1> QED  BY <1>3, <1>4, <1>5 DEF Verify

----------------------------------------------------------------------------
(* The steps of a flow. *)

\* A flow goes on as a good one, or ends, and nothing else happens.
LEMMA FlowGoesOn ==
    ASSUME FlowsAssumption, FlowsInv, UNCHANGED <<at, key, changes, checks, entry, replaced>>,
           NEW f \in flows, NEW F, Becomes(f, F),
           \A n \in F : /\ FlowGood(n)
                        /\ n.source = f.source /\ n.uid = f.uid
                        /\ f.source = "zeroconf" => n.host = f.host,
           \A n, o \in F : n = o
    PROVE  FlowsInv'
<1>1. Surrounded' /\ EntriesGood' /\ replaced' = {}
  BY DEF FlowsInv, Surrounded, OneHolder, EntriesGood, EntryGood, Configured
<1>2. \A n : FlowGood(n) => FlowGood(n)'
  BY FlowStays DEF Configured
<1>3. FlowsGood'
  BY <1>2 DEF FlowsGood, FlowsInv, Becomes
<1>4. OneCard'
  <2>1. CASE F = {}
    BY <2>1, FewerCards DEF Becomes, FlowsInv
  <2>2. CASE F # {}
    <3>1. PICK n \in F : F = {n}
      BY <2>2
    <3> QED  BY <3>1, CardsStay DEF Becomes, FlowsInv
  <2> QED  BY <2>1, <2>2
<1> QED  BY <1>1, <1>3, <1>4 DEF FlowsInv

LEMMA BackIsGood ==
    ASSUME FlowsAssumption, FlowsInv, NEW f \in flows
    PROVE  /\ \A n \in Back(f) : /\ FlowGood(n) /\ n.source = f.source /\ n.uid = f.uid
                                 /\ f.source = "zeroconf" => n.host = f.host
           /\ \A n, o \in Back(f) : n = o
<1>1. FlowGood(f) /\ f \in Flow /\ FlowOk(f)
  BY DEF FlowsInv, FlowsGood, FlowGood
<1>2. CASE f.source = "user"
  BY <1>2 DEF Back
<1>3. CASE f.source # "user"
  <2> DEFINE n == Form(f.source, f.uid, IF f.source = "reauth" THEN Nobody ELSE f.host)
  <2>1. Back(f) = {n}
    BY <1>3 DEF Back
  <2>2. /\ n.source = f.source /\ n.uid = f.uid /\ n.step = "form" /\ n \in Flow
        /\ f.source = "zeroconf" => n.host = f.host
    BY <1>1 DEF Form, Flow, Host, Token, NoToken
  <2> HIDE DEF n
  <2>3. FlowGood(n)
    BY <1>1, <1>3, <2>2 DEF FlowGood, FlowOk
  <2> QED  BY <2>1, <2>2, <2>3
<1> QED  BY <1>2, <1>3

LEMMA SubmitStep ==
    ASSUME FlowsAssumption, FlowsInv, NEW f \in flows, NEW h \in Gateway, Submit(f, <<h, key[h]>>)
    PROVE  FlowsInv'
<1> DEFINE a == IF f.source = "reauth" THEN entry[f.uid].data.host ELSE f.host
           n == [f EXCEPT !.step = "info", !.token = <<h, key[h]>>, !.host = a]
<1>1. f \in Flow /\ FlowGood(f) /\ FlowOk(f) /\ f.step = "form"
  BY DEF Submit, FlowsInv, FlowsGood, FlowGood
<1>2. <<h, key[h]>> \in Token
  BY DEF FlowsInv, Surrounded, Token
<1>3. a \in Address
  <2>1. f.source = "zeroconf" => f.host \in Address
    BY <1>1 DEF FlowGood
  <2>2. f.source = "reauth" => entry[f.uid].data.host \in Address
    BY <1>1 DEF FlowOk, Flow, FlowsInv, EntriesGood, EntryGood
  <2> QED  BY <1>1, <2>1, <2>2 DEF FlowOk, Flow
<1>4. Becomes(f, {n})
  BY <1>1 DEF Submit, Flow
<1> HIDE DEF a
<1>5. /\ n \in Flow /\ n.source = f.source /\ n.uid = f.uid /\ n.step = "info" /\ n.host = a
  BY <1>1, <1>2, <1>3 DEF Flow, Host
<1>6. f.source = "zeroconf" => n.host = f.host
  BY <1>5 DEF a
<1> HIDE DEF n
<1>7. FlowGood(n)
  BY <1>1, <1>3, <1>5 DEF FlowGood, FlowOk
<1>8. UNCHANGED <<at, key, changes, checks, entry, replaced>>
  BY DEF Submit
<1> QED  BY <1>4, <1>5, <1>6, <1>7, <1>8, FlowGoesOn

LEMMA SubmitUserStep ==
    ASSUME FlowsAssumption, FlowsInv, NEW a \in Address, NEW h \in Gateway,
           SubmitUser(a, <<h, key[h]>>)
    PROVE  FlowsInv'
<1> DEFINE n == [Form("user", Nobody, a) EXCEPT !.step = "info", !.token = <<h, key[h]>>]
<1>1. <<h, key[h]>> \in Token
  BY DEF FlowsInv, Surrounded, Token
<1>2. n \in Flow /\ n.source = "user" /\ n.uid = Nobody /\ n.step = "info" /\ n.host = a
  BY <1>1 DEF Form, Flow, Host
<1>3. flows' = flows \cup {n} /\ UNCHANGED <<at, key, changes, checks, entry, replaced>>
  BY DEF SubmitUser
<1> HIDE DEF n
<1>4. FlowGood(n)
  BY <1>2 DEF FlowGood, FlowOk
<1>5. \A f : FlowGood(f) => FlowGood(f)'
  BY <1>3, FlowStays DEF Configured
<1>6. FlowsGood' /\ OneCard'
  BY <1>2, <1>3, <1>4, <1>5, FewerCards DEF FlowsGood, FlowsInv
<1>7. Surrounded' /\ EntriesGood' /\ replaced' = {}
  BY <1>3 DEF FlowsInv, Surrounded, OneHolder, EntriesGood, EntryGood, Configured
<1> QED  BY <1>6, <1>7 DEF FlowsInv

LEMMA InfoAnswerStep ==
    ASSUME FlowsAssumption, FlowsInv, NEW f \in flows, InfoAnswer(f)
    PROVE  FlowsInv'
<1>1. UNCHANGED <<at, key, changes, checks, entry, replaced>> /\ f.step = "info"
  BY DEF InfoAnswer
<1>2. FlowGood(f) /\ f \in Flow /\ FlowOk(f) /\ f.host \in Address
  BY <1>1 DEF FlowsInv, FlowsGood, FlowGood
<1>3. CASE Becomes(f, Back(f))
  BY <1>1, <1>3, BackIsGood, FlowGoesOn
<1>4. ASSUME NEW g \in Gateway, Expected(f, g), Becomes(f, {[f EXCEPT !.step = "nodes", !.seen = g]})
      PROVE  FlowsInv'
  <2> DEFINE n == [f EXCEPT !.step = "nodes", !.seen = g]
  <2>1. /\ n \in Flow /\ n.source = f.source /\ n.uid = f.uid /\ n.host = f.host
        /\ n.step = "nodes" /\ n.seen = g
    BY <1>2 DEF Flow
  <2> HIDE DEF n
  <2>5. Becomes(f, {n})
    BY <1>4 DEF n
  <2>3. f.source = "zeroconf" => g = f.uid
    BY <1>4 DEF Expected
  <2>4. FlowGood(n)
    BY <1>2, <2>1, <2>3 DEF FlowGood, FlowOk
  <2> QED  BY <1>1, <2>1, <2>4, <2>5, FlowGoesOn
<1> QED  BY <1>3, <1>4 DEF InfoAnswer

\* One entry is another one.  Flows about it may not be good any more.
LEMMA OneEntryStep ==
    ASSUME FlowsInv, NEW g \in Gateway, NEW e \in Entry,
           entry' = [entry EXCEPT ![g] = e],
           e.reload => e.state \notin {"none", "ignored"},
           e.state \notin {"none", "ignored"} =>
               e.data.host \in Address /\ e.client.host \in Address
    PROVE  EntriesGood' /\ \A f \in flows : f.uid # g => FlowGood(f)'
<1>1. entry'[g] = e /\ \A h \in Gateway : h # g => entry'[h] = entry[h]
  BY DEF FlowsInv, EntriesGood
<1>2. DOMAIN entry' = Gateway /\ entry' = [h \in Gateway |-> entry'[h]]
  BY DEF FlowsInv, EntriesGood
<1>3. EntriesGood'
  BY <1>1, <1>2 DEF FlowsInv, EntriesGood, EntryGood, Configured
<1>4. ASSUME NEW f \in flows, f.uid # g PROVE FlowGood(f)'
  BY <1>1, <1>4, FlowStays DEF FlowsInv, FlowsGood, Configured
<1> QED  BY <1>3, <1>4

\* What a flow has when its key is accepted.
LEMMA AcceptedIsStored ==
    ASSUME FlowsInv, NEW f \in flows, f.step = "nodes", Accepted(f)
    PROVE  f.seen \in Gateway /\ f.token \in Token /\ f.host \in Address
<1>1. FlowGood(f) /\ f \in Flow
  BY DEF FlowsInv, FlowsGood, FlowGood
<1> QED  BY <1>1 DEF FlowGood, Flow

LEMMA CreateStep ==
    ASSUME FlowsAssumption, FlowsInv, NEW f \in flows, f.step = "nodes", Accepted(f),
           f.source # "reauth", Eligible(f), CreateEntry(NewEntry(f), f),
           UNCHANGED <<at, key, changes, checks>>
    PROVE  FlowsInv'
<1> DEFINE g == NewEntry(f)
           e == SetUpOf([host |-> f.host, token |-> f.token])
<1>1. FlowGood(f) /\ f \in Flow /\ FlowOk(f)
  BY DEF FlowsInv, FlowsGood, FlowGood
<1>2. f.seen \in Gateway /\ f.token \in Token /\ f.host \in Address
  BY AcceptedIsStored
<1>3. g = f.seen /\ g \in Gateway
  BY <1>1, <1>2 DEF NewEntry, FlowGood, Flow
<1>4. /\ e \in Entry /\ e.reload = FALSE /\ e.state = "info"
      /\ e.data.token = f.token /\ e.data.host = f.host /\ e.client.host = f.host
  BY <1>2 DEF SetUpOf, Entry, Client, Host
<1>5. entry' = [entry EXCEPT ![g] = e] /\ replaced' = replaced
      /\ flows' = flows \ (FlowsOf(g) \cup {f})
  BY DEF CreateEntry, Eligible
<1> HIDE DEF e, g
<1>6. EntriesGood' /\ \A k \in flows : k.uid # g => FlowGood(k)'
  BY <1>2, <1>3, <1>4, <1>5, OneEntryStep
<1>7. FlowsGood' /\ OneCard'
  BY <1>5, <1>6, FewerCards DEF FlowsGood, FlowsOf, FlowsInv
<1>8. Surrounded' /\ replaced' = {}
  BY <1>5 DEF FlowsInv, Surrounded, OneHolder
<1> QED  BY <1>6, <1>7, <1>8 DEF FlowsInv

LEMMA ReauthStep ==
    ASSUME FlowsAssumption, FlowsInv, NEW f \in flows, f.step = "nodes", Accepted(f),
           f.source = "reauth", Matches(f), Becomes(f, {}),
           entry' = Reauthenticated(f),
           UNCHANGED <<at, key, changes, checks, replaced>>
    PROVE  FlowsInv'
<1> DEFINE g == f.uid
           d == [entry[g].data EXCEPT !.token = f.token]
           e == [entry[g] EXCEPT !.data = d, !.reload = TRUE]
<1>1. FlowGood(f) /\ f \in Flow /\ FlowOk(f)
  BY DEF FlowsInv, FlowsGood, FlowGood
<1>2. f.token \in Token /\ g \in Gateway /\ Configured(g)
  BY <1>1, AcceptedIsStored DEF Matches, FlowOk
<1>3. EntryGood(g) /\ entry[g] \in Entry /\ entry[g].data \in Client
  BY <1>2 DEF FlowsInv, EntriesGood, EntryGood, Entry
<1>4. d \in Client /\ d.token = f.token /\ d.host = entry[g].data.host
  BY <1>2, <1>3 DEF Client
<1>5. entry' = [entry EXCEPT ![g] = e]
  <2>1. DOMAIN entry = Gateway /\ entry = [h \in Gateway |-> entry[h]]
    BY DEF FlowsInv, EntriesGood
  <2> QED  BY <1>2, <1>3, <2>1 DEF Reauthenticated, Entry, Client
<1> HIDE DEF d
<1>6. /\ e \in Entry /\ e.data = d /\ e.client = entry[g].client /\ e.state = entry[g].state
      /\ e.reload
  BY <1>3, <1>4 DEF Entry
<1> HIDE DEF e, g
<1>7. EntriesGood' /\ \A k \in flows : k.uid # g => FlowGood(k)'
  BY <1>2, <1>3, <1>4, <1>5, <1>6, OneEntryStep DEF EntryGood, Configured
<1>8. FlowsGood' /\ OneCard'
  BY <1>7, FewerCards DEF FlowsGood, FlowsOf, FlowsInv, Becomes, Matches, g
<1>9. Surrounded' /\ replaced' = {}
  BY DEF FlowsInv, Surrounded, OneHolder
<1> QED  BY <1>7, <1>8, <1>9 DEF FlowsInv

LEMMA NodesAnswerStep ==
    ASSUME FlowsAssumption, FlowsInv, NEW f \in flows, NodesAnswer(f)
    PROVE  FlowsInv'
<1>1. UNCHANGED <<at, key, changes, checks>> /\ f.step = "nodes"
  BY DEF NodesAnswer
<1>2. CASE Becomes(f, Back(f)) /\ UNCHANGED <<entry, replaced>>
  BY <1>1, <1>2, BackIsGood, FlowGoesOn
<1>3. CASE Becomes(f, {}) /\ UNCHANGED <<entry, replaced>>
  BY <1>1, <1>3, FlowGoesOn
<1>4. CASE Accepted(f) /\ f.source # "reauth" /\ Eligible(f) /\ CreateEntry(NewEntry(f), f)
  BY <1>1, <1>4, CreateStep
<1>5. CASE /\ Accepted(f) /\ f.source = "reauth" /\ Matches(f) /\ Becomes(f, {})
           /\ entry' = Reauthenticated(f)
           /\ UNCHANGED replaced
  BY <1>1, <1>5, ReauthStep
<1> QED  BY <1>2, <1>3, <1>4, <1>5 DEF NodesAnswer

LEMMA FlowStep ==
    ASSUME FlowsAssumption, FlowsInv, FlowNext
    PROVE  FlowsInv'
  BY VerifyStep, SubmitStep, SubmitUserStep, InfoAnswerStep, NodesAnswerStep DEF FlowNext

----------------------------------------------------------------------------
(* The surroundings. *)

\* A gateway moves; what its flows have been told, they have been told.
LEMMA MoveStep ==
    ASSUME FlowsAssumption, FlowsInv, NEW g \in Gateway, NEW a \in Host, Move(g, a)
    PROVE  FlowsInv'
<1>1. UNCHANGED <<key, checks, flows, entry, replaced>> /\ changes' \in 0 .. MaxChanges
      /\ changes' >= changes
  BY FlowsAssumption DEF Move, Change, FlowsInv, Surrounded, FlowsAssumption
<1>2. at' = [h \in Gateway |-> IF h = g THEN a ELSE IF at[h] = a THEN Nobody ELSE at[h]]
  BY DEF Move
<1>3. at' \in [Gateway -> Host] /\ OneHolder'
  BY <1>2 DEF FlowsInv, Surrounded, OneHolder, Host
<1>4. Surrounded'
  <2>1. \A h \in Gateway : key[h] \in 0 .. MaxChanges /\ key[h] <= changes'
    BY <1>1, FlowsAssumption DEF FlowsInv, Surrounded, FlowsAssumption
  <2> QED  BY <1>1, <1>3, <2>1 DEF FlowsInv, Surrounded
<1>5. ASSUME NEW f \in flows PROVE FlowGood(f)'
  <2>1. FlowGood(f)
    BY DEF FlowsInv, FlowsGood
  <2> QED  BY <1>1, <2>1 DEF FlowGood, FlowOk, Configured
<1>6. EntriesGood' /\ FlowsGood' /\ OneCard'
  BY <1>1, <1>5 DEF FlowsInv, EntriesGood, EntryGood, Configured, FlowsGood, OneCard, Cards
<1> QED  BY <1>1, <1>4, <1>6 DEF FlowsInv

LEMMA WithdrawStep ==
    ASSUME FlowsAssumption, FlowsInv, NEW g \in Gateway, Withdraw(g)
    PROVE  FlowsInv'
<1>1. UNCHANGED <<at, checks, flows, entry, replaced>>
  BY DEF Withdraw
<1>2. Surrounded'
  <2>1. changes' \in 0 .. MaxChanges /\ changes' = changes + 1
    BY FlowsAssumption DEF Withdraw, Change, FlowsInv, Surrounded, FlowsAssumption
  <2>2. \A h \in Gateway : key'[h] \in 0 .. MaxChanges /\ key'[h] <= changes'
    BY <2>1, FlowsAssumption DEF Withdraw, FlowsInv, Surrounded, FlowsAssumption
  <2>3. key' = [h \in Gateway |-> key'[h]]
    BY DEF Withdraw, FlowsInv, Surrounded
  <2> QED  BY <1>1, <2>1, <2>2, <2>3 DEF FlowsInv, Surrounded, OneHolder
<1>3. EntriesGood' /\ FlowsGood' /\ OneCard'
  BY <1>1 DEF FlowsInv, EntriesGood, EntryGood, Configured, FlowsGood, FlowGood, FlowOk, OneCard, Cards
<1> QED  BY <1>1, <1>2, <1>3 DEF FlowsInv

\* The changes count on.
LEMMA ChangeStays ==
    ASSUME FlowsAssumption, FlowsInv, Change, UNCHANGED <<at, key>>, checks' \subseteq checks
    PROVE  Surrounded'
<1>1. changes' \in 0 .. MaxChanges /\ changes' = changes + 1
  BY FlowsAssumption DEF Change, FlowsInv, Surrounded, FlowsAssumption
<1>2. \A h \in Gateway : key[h] <= changes'
  BY <1>1, FlowsAssumption DEF FlowsInv, Surrounded, FlowsAssumption
<1> QED  BY <1>1, <1>2 DEF FlowsInv, Surrounded, OneHolder

LEMMA RestartStep ==
    ASSUME FlowsAssumption, FlowsInv, RestartHA
    PROVE  FlowsInv'
<1>1. Change /\ UNCHANGED <<at, key, replaced>> /\ checks' = {} /\ flows' = {}
  BY DEF RestartHA
<1>2. Surrounded' /\ FlowsGood' /\ OneCard' /\ replaced' = {}
  BY <1>1, ChangeStays DEF FlowsGood, OneCard, Cards, FlowsInv
<1>3. ASSUME NEW g \in Gateway PROVE EntryGood(g)'
  <2>1. entry[g] \in Entry /\ EntryGood(g)
    BY DEF FlowsInv, EntriesGood, EntryGood
  <2>2. CASE Configured(g)
    <3>1. entry'[g] = SetUpOf(entry[g].data)
      BY <2>2 DEF RestartHA
    <3>2. /\ entry'[g] \in Entry /\ entry'[g].data = entry[g].data /\ entry'[g].client = entry[g].data
          /\ entry'[g].reload = FALSE
      BY <2>1, <3>1 DEF SetUpOf, Entry
    <3> QED  BY <2>1, <2>2, <3>2 DEF EntryGood
  <2>3. CASE ~Configured(g)
    <3>1. entry'[g] = entry[g]
      BY <2>3 DEF RestartHA
    <3> QED  BY <2>1, <3>1 DEF EntryGood, Configured
  <2> QED  BY <2>2, <2>3
<1>4. EntriesGood'
  BY <1>3 DEF RestartHA, EntriesGood
<1> QED  BY <1>2, <1>4 DEF FlowsInv

\* An ignored entry, or none: the flows about the gateway are gone.
LEMMA EntryGoesStep ==
    ASSUME FlowsAssumption, FlowsInv, Change, UNCHANGED <<at, key, checks, replaced>>,
           NEW g \in Gateway, NEW e \in Entry, entry' = [entry EXCEPT ![g] = e],
           e.state \in {"none", "ignored"}, ~e.reload, flows' = flows \ FlowsOf(g)
    PROVE  FlowsInv'
<1>1. EntriesGood' /\ \A f \in flows : f.uid # g => FlowGood(f)'
  BY OneEntryStep
<1>2. FlowsGood' /\ OneCard'
  BY <1>1, FewerCards DEF FlowsGood, FlowsOf, FlowsInv
<1> QED  BY <1>1, <1>2, ChangeStays DEF FlowsInv

LEMMA IgnoreStep ==
    ASSUME FlowsAssumption, FlowsInv, NEW c \in flows, Ignore(c)
    PROVE  FlowsInv'
<1> DEFINE e == [entry[c.uid] EXCEPT !.state = "ignored"]
<1>1. c.uid \in Gateway /\ entry[c.uid] \in Entry /\ entry[c.uid].reload = FALSE
  BY DEF Ignore, Cards, FlowsInv, FlowsGood, FlowGood, FlowOk, Flow, EntriesGood, EntryGood, Entry,
         Configured
<1>2. e \in Entry /\ e.state = "ignored" /\ e.reload = FALSE
  BY <1>1 DEF Entry
<1>3. entry' = [entry EXCEPT ![c.uid] = e]
  BY DEF Ignore, Enters
<1> HIDE DEF e
<1> QED  BY <1>1, <1>2, <1>3, EntryGoesStep DEF Ignore

LEMMA RemoveStep ==
    ASSUME FlowsAssumption, FlowsInv, NEW g \in Gateway, RemoveEntry(g)
    PROVE  FlowsInv'
<1>1. NoEntry \in Entry /\ NoEntry.reload = FALSE /\ NoEntry.state = "none"
  BY DEF NoEntry, Entry, NoClient, Client, NoToken, Token, Host
<1> QED  BY <1>1, EntryGoesStep DEF RemoveEntry

THEOREM FlowsStep == FlowsAssumption /\ FlowsInv /\ [Next]_vars => FlowsInv'
<1> SUFFICES ASSUME FlowsAssumption, FlowsInv, [Next]_vars PROVE FlowsInv'
  OBVIOUS
<1>1. CASE UNCHANGED vars
  BY <1>1 DEF vars, FlowsInv, Surrounded, OneHolder, EntriesGood, EntryGood, Configured, FlowsGood,
              FlowGood, FlowOk, OneCard, Cards
<1>2. CASE Surroundings
  BY <1>2, AnnounceStep, WithdrawStep, RemoveStep, MoveStep, IgnoreStep, RestartStep DEF Surroundings
<1> QED  BY <1>1, <1>2, FlowStep, SetUpStep DEF Next

----------------------------------------------------------------------------
(* The theorems. *)

\* FlowsInv is an invariant of every instance.
THEOREM FlowsIsInvariant == Spec => []FlowsInv
<1>1. Init => FlowsInv
  BY FlowsInit, FlowsAssumption
<1>2. FlowsInv /\ [Next]_vars => FlowsInv'
  BY FlowsStep, FlowsAssumption
<1> QED  BY <1>1, <1>2, PTL DEF Spec

\* Every variable keeps its type: above all, a reauthentication always has its
\* entry, and no two gateways one address.
THEOREM FlowsTypeCorrect == Spec => []TypeOK
<1>1. FlowsInv => TypeOK
  BY FlowsInvImplies
<1> QED  BY <1>1, FlowsIsInvariant, PTL

\* No flow replaces an entry (config_flow.py:193, 236).
THEOREM EntriesAreNeverReplaced == Spec => []EntriesAreKept
<1>1. FlowsInv => EntriesAreKept
  BY FlowsInvImplies
<1> QED  BY <1>1, FlowsIsInvariant, PTL

\* Cards are for gateways without an entry, one for each and for each address
\* (config_flow.py:133).
THEOREM CardsStayDistinct == Spec => []CardsAreDistinct
<1>1. FlowsInv => CardsAreDistinct
  BY FlowsInvImplies
<1> QED  BY <1>1, FlowsIsInvariant, PTL

----------------------------------------------------------------------------
(* What a step may do to the data of an entry. *)

\* Entries are what they were told to be, or are none.
Kept == \A g \in Gateway : Configured(g)' => Configured(g) /\ entry'[g].data = entry[g].data

LEMMA KeptFits ==
    ASSUME Kept
    PROVE  KeysFit /\ AddressHeard
  BY DEF Kept, KeysFit, AddressHeard, Rekeyed, Readdressed

LEMMA SetUpKeeps ==
    ASSUME FlowsInv, NEW g \in Gateway, SetsUp(g) \/ Redial(g) \/ Dialled(g)
    PROVE  Kept
<1>1. entry[g] \in Entry /\ DOMAIN entry = Gateway
  BY DEF FlowsInv, EntriesGood, EntryGood
<1>2. Configured(g)
  BY DEF SetsUp, SetUpInfo, SetUpNodes, SetUpAgain, Redial, Dialled, Configured,
         FlowsInv, EntriesGood, EntryGood
<1>3. /\ entry'[g].data = entry[g].data
      /\ \A h \in Gateway : h # g => entry'[h] = entry[h]
  <2>1. CASE SetUpAgain(g)
    BY <1>1, <2>1 DEF SetUpAgain, SetUpOf
  <2>2. CASE SetUpInfo(g) \/ SetUpNodes(g) \/ Redial(g) \/ Dialled(g)
    <3>1. \E s : Enters(g, s)
      BY <2>2 DEF SetUpInfo, SetUpNodes, Redial, Dialled, Unreached
    <3>2. PICK s : entry' = [entry EXCEPT ![g].state = s]
      BY <3>1 DEF Enters
    <3>3. entry'[g] = [entry[g] EXCEPT !.state = s]
      BY <1>1, <3>2
    <3> QED  BY <1>1, <3>2, <3>3 DEF Entry
  <2> QED  BY <2>1, <2>2 DEF SetsUp
<1> QED  BY <1>2, <1>3 DEF Kept, Configured

LEMMA SurroundingsKeep ==
    ASSUME FlowsInv, Surroundings
    PROVE  Kept
<1>1. DOMAIN entry = Gateway
  BY DEF FlowsInv, EntriesGood
<1>2. CASE UNCHANGED entry
  BY <1>2 DEF Kept, Configured
<1>3. ASSUME NEW c \in flows, Ignore(c) PROVE Kept
  BY <1>1, <1>3 DEF Ignore, Enters, Kept, Configured
<1>4. ASSUME NEW g \in Gateway, RemoveEntry(g) PROVE Kept
  BY <1>1, <1>4 DEF RemoveEntry, NoEntry, Kept, Configured
<1>5. CASE RestartHA
  <2>1. \A g \in Gateway : entry'[g] = IF Configured(g) THEN SetUpOf(entry[g].data) ELSE entry[g]
    BY <1>5 DEF RestartHA
  <2>2. ASSUME NEW g \in Gateway, Configured(g)'
        PROVE  Configured(g) /\ entry'[g].data = entry[g].data
    <3>1. Configured(g)
      BY <2>1, <2>2 DEF Configured
    <3>2. entry'[g] = SetUpOf(entry[g].data)
      BY <2>1, <3>1
    <3> QED  BY <3>1, <3>2 DEF SetUpOf
  <2> QED  BY <2>2 DEF Kept
<1> QED  BY <1>2, <1>3, <1>4, <1>5 DEF Surroundings, Announce, Withdraw, Move

\* An answered announcement gives the entry its address, and no key.
LEMMA VerifyFits ==
    ASSUME FlowsAssumption, FlowsInv, NEW c \in checks, Verify(c)
    PROVE  KeysFit /\ AddressHeard
<1>1. CASE UNCHANGED entry
  BY <1>1, KeptFits DEF Kept, Configured
<1>2. CASE Configured(c.uid) /\ UpdateAddress(c)
  <2>1. c.uid \in Gateway /\ c = [uid |-> c.uid, host |-> c.host]
    BY DEF FlowsInv, Surrounded
  <2>2. Gentle
    BY <1>2, UpdateIsGentle
  <2>3. KeysFit
    BY <2>2 DEF Gentle, KeysFit, Rekeyed
  <2>4. DOMAIN entry = Gateway /\ entry[c.uid] \in Entry /\ entry[c.uid].data \in Client
    BY <2>1 DEF FlowsInv, EntriesGood, EntryGood, Entry
  <2>5. \A g \in Gateway : g # c.uid => entry'[g] = entry[g]
    BY <1>2, <2>4 DEF UpdateAddress
  <2>6. entry'[c.uid].data.host = c.host
    BY <1>2, <2>1, <2>4 DEF UpdateAddress, Entry, Client
  <2>7. AddressHeard
    BY <2>1, <2>5, <2>6 DEF AddressHeard, Readdressed
  <2> QED  BY <2>3, <2>7
<1> QED  BY <1>1, <1>2 DEF Verify

\* The key a flow stores is of the gateway that answered its first request,
\* unless that one has lost the address to the one that accepts the key.
LEMMA StoredKeyFits ==
    ASSUME FlowsAssumption, FlowsInv, NEW f \in flows, f.step = "nodes", Accepted(f),
           flows' \subseteq flows \ {f}, NEW g \in Gateway, g = f.seen,
           entry'[g].data.token = f.token,
           \A h \in Gateway : h # g => entry'[h] = entry[h]
    PROVE  KeysFit
<1>1. f.host \in Address /\ f.host # Nobody
  BY AcceptedIsStored, FlowsAssumption DEF FlowsAssumption
<1>2. PICK h \in Gateway : at[h] = f.host /\ f.token = <<h, key[h]>>
  BY DEF Accepted, Accepts, Answers
<1>3. h = g \/ ~Answers(g, f.host)
  BY <1>1, <1>2 DEF Answers, FlowsInv, Surrounded, OneHolder
<1> QED  BY <1>2, <1>3 DEF KeysFit, Rekeyed

LEMMA NodesAnswerFits ==
    ASSUME FlowsAssumption, FlowsInv, NEW f \in flows, NodesAnswer(f)
    PROVE  KeysFit /\ AddressHeard
<1>1. f.step = "nodes" /\ FlowGood(f) /\ f \in Flow /\ FlowOk(f) /\ DOMAIN entry = Gateway
  BY DEF NodesAnswer, FlowsInv, FlowsGood, FlowGood, EntriesGood
<1>2. CASE UNCHANGED entry
  BY <1>2, KeptFits DEF Kept, Configured
<1>3. CASE Accepted(f) /\ f.source # "reauth" /\ Eligible(f) /\ CreateEntry(NewEntry(f), f)
  <2>1. f.seen \in Gateway /\ NewEntry(f) = f.seen
    BY <1>1, <1>3 DEF NewEntry, FlowGood, Flow
  <2>2. entry'[f.seen].data.token = f.token /\ \A h \in Gateway : h # f.seen => entry'[h] = entry[h]
    BY <1>1, <1>3, <2>1 DEF CreateEntry, SetUpOf
  <2>3. flows' \subseteq flows \ {f}
    BY <1>3 DEF CreateEntry
  <2>4. KeysFit
    BY <1>1, <1>3, <2>1, <2>2, <2>3, StoredKeyFits
  <2>5. AddressHeard
    BY <1>3, <2>1, <2>2 DEF AddressHeard, Readdressed, Eligible
  <2> QED  BY <2>4, <2>5
<1>4. CASE /\ Accepted(f) /\ f.source = "reauth" /\ Matches(f) /\ Becomes(f, {})
           /\ entry' = Reauthenticated(f)
  <2>1. f.seen = f.uid /\ f.seen \in Gateway /\ flows' \subseteq flows \ {f}
    BY <1>1, <1>4 DEF Matches, FlowGood, Becomes
  <2>2. entry[f.seen] \in Entry /\ entry[f.seen].data \in Client
    BY <2>1 DEF FlowsInv, EntriesGood, EntryGood, Entry
  <2>3. /\ entry'[f.seen].data.token = f.token
        /\ entry'[f.seen].data.host = entry[f.seen].data.host
        /\ \A h \in Gateway : h # f.seen => entry'[h] = entry[h]
    BY <1>1, <1>4, <2>1, <2>2 DEF Reauthenticated, Entry, Client
  <2>4. KeysFit
    BY <1>1, <1>4, <2>1, <2>3, StoredKeyFits
  <2>5. AddressHeard
    BY <2>1, <2>3 DEF AddressHeard, Readdressed
  <2> QED  BY <2>4, <2>5
<1> QED  BY <1>2, <1>3, <1>4 DEF NodesAnswer

LEMMA DataFits ==
    ASSUME FlowsAssumption, FlowsInv, [Next]_vars
    PROVE  KeysFit /\ AddressHeard
<1>1. CASE UNCHANGED vars
  BY <1>1, KeptFits DEF Kept, Configured, vars
<1>2. CASE Surroundings
  BY <1>2, SurroundingsKeep, KeptFits
<1>3. ASSUME NEW g \in Gateway, SetsUp(g) \/ Redial(g) \/ Dialled(g) PROVE KeysFit /\ AddressHeard
  BY <1>3, SetUpKeeps, KeptFits
<1>4. CASE FlowNext
  <2>1. CASE UNCHANGED entry
    BY <2>1, KeptFits DEF Kept, Configured
  <2> QED  BY <1>4, <2>1, VerifyFits, NodesAnswerFits DEF FlowNext, Submit, SubmitUser, InfoAnswer
<1> QED  BY <1>1, <1>2, <1>3, <1>4 DEF Next

\* An entry gets the key of another gateway only when its own answered the
\* first request of a flow and lost the address before the second
\* (api.py:214, config_flow.py:190, config_flow.py:286).
THEOREM KeysAreOwnUnlessPassed == Spec => OwnKeysUnlessPassed
<1>1. FlowsInv /\ [Next]_vars => [KeysFit]_vars
  BY DataFits, FlowsAssumption
<1> QED  BY <1>1, FlowsIsInvariant, PTL DEF Spec, OwnKeysUnlessPassed

\* An entry is moved only to where its gateway was heard (config_flow.py:125,
\* config_flow.py:287).
THEOREM AddressesStayHeard == Spec => AddressesAreHeard
<1>1. FlowsInv /\ [Next]_vars => [AddressHeard]_vars
  BY DataFits, FlowsAssumption
<1> QED  BY <1>1, FlowsIsInvariant, PTL DEF Spec, AddressesAreHeard
=============================================================================
