------------------------------ MODULE EntryFlows ------------------------------
(***************************************************************************)
(* How config entries come to be and stay in touch with their gateways:    *)
(* the flows of config_flow.py and the set-up of an entry in __init__.py,  *)
(* interleaved at their requests, over gateways that change address, lend  *)
(* theirs to others and withdraw keys.                                     *)
(*                                                                         *)
(* A flow shows its "form" or awaits "info" or "nodes", the two requests   *)
(* of async_bootstrap.  A hostname only names things and is left out.      *)
(***************************************************************************)
EXTENDS Integers, FiniteSets

CONSTANTS
    Gateway,    \* gateway ids
    Watched,    \* gateways whose reconnection is followed: nothing tells them apart
    Address,    \* base URLs
    Nobody,     \* no gateway, no address
    Foreign,    \* addresses where another device answers if no gateway does
    MaxChanges, \* bound on what the surroundings and the user do now and then
    MaxPending, \* bound on announcements of a gateway at a time
    MaxManual   \* bound on manual set-ups at a time

ASSUME FlowsAssumption ==
    /\ Watched \subseteq Gateway /\ Nobody \notin Gateway \cup Address /\ Foreign \subseteq Address
    /\ {MaxChanges, MaxPending, MaxManual} \subseteq Nat

VARIABLES
    at,       \* the address of each gateway
    key,      \* the key each gateway accepts; earlier ones are withdrawn
    changes,  \* moves, withdrawn keys, restarts, ignored cards, removed entries
    checks,   \* verified announcements whose answer is on its way
    flows,    \* flows in progress
    entry,    \* the entry of each gateway
    replaced  \* gateways whose entry a flow has replaced by another

vars == <<at, key, changes, checks, flows, entry, replaced>>

Host == Address \cup {Nobody}
NoToken == <<Nobody, 0>>
Token == Gateway \X (0 .. MaxChanges) \cup {NoToken}
Client == [host : Host, token : Token]
NoClient == [host |-> Nobody, token |-> NoToken]

\* Discovered ("zeroconf", a card), manual ("user") and "reauth" flows.  uid is
\* the gateway the flow is about, seen the one that answered.
Flow == [source : {"zeroconf", "user", "reauth"}, uid : Gateway \cup {Nobody}, host : Host,
         token : Token, step : {"form", "info", "nodes"}, seen : Gateway \cup {Nobody}]
Form(source, g, a) == [source |-> source, uid |-> g, host |-> a,
                       token |-> NoToken, step |-> "form", seen |-> Nobody]

\* An entry's state: its set-up awaits "info" or "nodes"; LOADED is "dialling"
\* when the supervisor knows its gateway is there and awaits the answer to the
\* key, "halted" when it has ended, and "live" otherwise; SETUP_RETRY,
\* SETUP_ERROR.  A new address came "late" for the set-up that was in progress.
Entry == [data : Client, client : Client, reload : BOOLEAN, late : BOOLEAN,
          state : {"none", "ignored", "info", "nodes", "live", "dialling", "halted",
                   "retry", "error"}]
NoEntry == [data |-> NoClient, client |-> NoClient, reload |-> FALSE, late |-> FALSE,
            state |-> "none"]
Configured(g) == entry[g].state \notin {"none", "ignored"}
Loaded(g) == entry[g].state \in {"live", "dialling", "halted"}

FlowOk(f) ==
    /\ f.source = "user" => f.uid = Nobody /\ f.step # "form"
    /\ f.source = "zeroconf" => f.uid # Nobody
    /\ f.source = "reauth" => f.uid # Nobody /\ Configured(f.uid)

TypeOK ==
    /\ at \in [Gateway -> Host] /\ key \in [Gateway -> 0 .. MaxChanges]
    /\ \A g, h \in Gateway : at[g] = at[h] => g = h \/ at[g] = Nobody
    /\ changes \in 0 .. MaxChanges /\ \A g \in Gateway : key[g] <= changes
    /\ checks \subseteq [uid : Gateway, host : Address]
    /\ flows \subseteq Flow /\ \A f \in flows : FlowOk(f)
    /\ entry \in [Gateway -> Entry]
    /\ \A g \in Gateway : Configured(g) => {entry[g].data.host, entry[g].client.host} \subseteq Address
    /\ replaced \subseteq Gateway

\* Home Assistant has started, no entry exists.
Init ==
    /\ at \in [Gateway -> Host] /\ \A g, h \in Gateway : at[g] = at[h] => g = h \/ at[g] = Nobody
    /\ key = [g \in Gateway |-> 0] /\ changes = 0
    /\ checks = {} /\ flows = {}
    /\ entry = [g \in Gateway |-> NoEntry] /\ replaced = {}

----------------------------------------------------------------------------
(* What a gateway answers, and what Home Assistant does with flows. *)

Answers(g, a) == at[g] = a
Silent(a) == \A g \in Gateway : at[g] # a
Accepts(g, a, token) == Answers(g, a) /\ token = <<g, key[g]>>
Accepted(f) == \E g \in Gateway : Accepts(g, f.host, f.token)

\* A failed request shows the form again; the manual form is a new flow then.
Back(f) ==
    IF f.source = "user" THEN {}
    ELSE {Form(f.source, f.uid, IF f.source = "reauth" THEN Nobody ELSE f.host)}
Becomes(f, F) == flows' = (flows \ {f}) \cup F
FlowsOf(g) == {f \in flows : f.uid = g}

\* async_create_entry: an entry of the same gateway is replaced, other flows
\* about it are aborted, and the new entry is set up.
SetUpOf(data) ==
    [data |-> data, client |-> data, reload |-> FALSE, late |-> FALSE, state |-> "info"]
CreateEntry(g, f) ==
    /\ entry' = [entry EXCEPT ![g] = SetUpOf([host |-> f.host, token |-> f.token])]
    /\ replaced' = IF Configured(g) THEN replaced \cup {g} ELSE replaced
    /\ flows' = flows \ (FlowsOf(g) \cup {f})

StartReauth(g) ==
    IF \E f \in FlowsOf(g) : f.source = "reauth" THEN UNCHANGED flows
    ELSE flows' = flows \cup {Form("reauth", g, Nobody)}

----------------------------------------------------------------------------
(* Discovery. *)

\* The gateway is announced and answers at its address: the one request of
\* async_step_zeroconf.  An announcement that is not verified changes nothing.
Announce(g) ==
    /\ at[g] # Nobody /\ Cardinality({c \in checks : c.uid = g}) < MaxPending
    /\ checks' = checks \cup {[uid |-> g, host |-> at[g]]}
    /\ UNCHANGED <<at, key, changes, flows, entry, replaced>>

UpdateOnly(c) == entry' = [entry EXCEPT ![c.uid].data.host = c.host]    \* mutant
\* _abort_if_unique_id_configured(updates=...): Home Assistant schedules a
\* reload of a loaded entry whose data changes, and of one that is retrying.
UpdateAddress(c) ==
    LET e == entry[c.uid]
        moved == e.data.host # c.host
    IN entry' = [entry EXCEPT
           ![c.uid].data.host = c.host,
           ![c.uid].late = e.late \/ (moved /\ e.state \in {"info", "nodes"}),
           ![c.uid].reload = \/ e.reload \/ e.state = "retry"
                             \/ moved /\ Loaded(c.uid)]

\* _replace_stale_discovery.
Cards == {f \in flows : f.source = "zeroconf"}
OwnCards(c) == Cards \cap FlowsOf(c.uid)    \* mutant
StaleCards(c) == {f \in Cards : f.uid = c.uid \/ f.host = c.host}

ReplaceStale(c) ==
    IF \E f \in Cards : f.uid = c.uid /\ f.host = c.host
    THEN UNCHANGED flows
    ELSE flows' = (flows \ StaleCards(c)) \cup {Form("zeroconf", c.uid, c.host)}

\* The rest of async_step_zeroconf, when the answer is received.
Verify(c) ==
    /\ checks' = checks \ {c}
    /\ \/ entry[c.uid].state = "none" /\ ReplaceStale(c) /\ UNCHANGED entry
       \/ entry[c.uid].state = "ignored" /\ UNCHANGED <<flows, entry>>
       \/ Configured(c.uid) /\ UpdateAddress(c) /\ UNCHANGED flows
    /\ UNCHANGED <<at, key, changes, replaced>>

----------------------------------------------------------------------------
(* The forms. *)

\* The user gives a key the form asks for.  A reauthentication reads the
\* address from the entry.
Submit(f, t) ==
    /\ f.step = "form"
    /\ Becomes(f, {[f EXCEPT !.step = "info", !.token = t,
                             !.host = IF f.source = "reauth" THEN entry[f.uid].data.host ELSE @]})
    /\ UNCHANGED <<at, key, changes, checks, entry, replaced>>

\* The user gives an address and a key: async_step_user.
SubmitUser(a, t) ==
    /\ Cardinality({f \in flows : f.source = "user"}) < MaxManual
    /\ flows' = flows \cup {[Form("user", Nobody, a) EXCEPT !.step = "info", !.token = t]}
    /\ UNCHANGED <<at, key, changes, checks, entry, replaced>>

\* async_bootstrap has its first answer.  Only the confirmation of a card
\* expects a gateway.
AnyGateway(f, g) == Answers(g, f.host)    \* mutant: the identity is not checked
Expected(f, g) == Answers(g, f.host) /\ (f.source = "zeroconf" => g = f.uid)

InfoAnswer(f) ==
    /\ f.step = "info"
    /\ \/ \E g \in Gateway :
             Expected(f, g) /\ Becomes(f, {[f EXCEPT !.step = "nodes", !.seen = g]})
       \/ (\A g \in Gateway : ~Expected(f, g)) /\ Becomes(f, Back(f))
    /\ UNCHANGED <<at, key, changes, checks, entry, replaced>>

\* The unique id of the flow: of the discovery, or set last by
\* async_set_unique_id (a manual flow: no other flow may be about the gateway)
\* and _abort_if_unique_id_configured; the user may set up an ignored gateway.
NewEntry(f) == IF f.source = "user" THEN f.seen ELSE f.uid
NotInProgress(f) == f.source = "user" => FlowsOf(f.seen) = {}    \* alone, a mutant of Eligible
Eligible(f) == ~Configured(NewEntry(f)) /\ NotInProgress(f)
\* async_set_unique_id, _abort_if_unique_id_mismatch.
Matches(f) == f.seen = f.uid /\ FlowsOf(f.seen) = {f}

\* async_update_reload_and_abort, with data_updates.
OnlyToken(f) ==    \* mutant: the data is replaced, not updated
    [entry EXCEPT ![f.uid].data = [NoClient EXCEPT !.token = f.token], ![f.uid].reload = TRUE]
AllOfFlow(f) ==    \* mutant: the address the flow began with is stored with the key
    [entry EXCEPT ![f.uid].data = [host |-> f.host, token |-> f.token], ![f.uid].reload = TRUE]
Reauthenticated(f) ==
    [entry EXCEPT ![f.uid].data.token = f.token, ![f.uid].reload = TRUE]

\* The second answer, and the rest of the step.  Whoever answers now is not
\* asked who it is: the address may have passed to another since.
NodesAnswer(f) ==
    /\ f.step = "nodes"
    /\ \/ /\ ~Accepted(f)
          /\ Becomes(f, Back(f)) /\ UNCHANGED <<entry, replaced>>
       \/ /\ Accepted(f) /\ f.source # "reauth"
          /\ IF Eligible(f) THEN CreateEntry(NewEntry(f), f)
             ELSE Becomes(f, {}) /\ UNCHANGED <<entry, replaced>>
       \/ /\ Accepted(f) /\ f.source = "reauth"
          /\ Becomes(f, {})
          /\ entry' = IF Matches(f) THEN Reauthenticated(f) ELSE entry
          /\ UNCHANGED replaced
    /\ UNCHANGED <<at, key, changes, checks>>

----------------------------------------------------------------------------
(* The set-up of an entry, and what ends it. *)

Enters(g, state) == entry' = [entry EXCEPT ![g].state = state]

\* No answer: ConfigEntryNotReady.  Another device's: ConfigEntryError.
Unreached(g, a) ==
    Silent(a) /\ Enters(g, IF a \in Foreign THEN "error" ELSE "retry") /\ UNCHANGED flows

\* A gateway that is not this one: ConfigEntryError.
SetUpInfo(g) ==
    LET a == entry[g].client.host
    IN /\ entry[g].state = "info"
       /\ \/ Answers(g, a) /\ Enters(g, "nodes") /\ UNCHANGED flows
          \/ ~Answers(g, a) /\ ~Silent(a) /\ Enters(g, "error") /\ UNCHANGED flows
          \/ Unreached(g, a)
       /\ UNCHANGED <<at, key, changes, checks, replaced>>

\* What a request with the key meets, whichever gateway answers it by now: a
\* refusal is ConfigEntryAuthFailed in the set-up, or ends the supervisor.
Admitted(client) == \E h \in Gateway : Accepts(h, client.host, client.token)
Refused(g) ==
    LET client == entry[g].client
    IN ~Silent(client.host) /\ ~Admitted(client) /\ StartReauth(g)

SetUpNodes(g) ==
    LET client == entry[g].client
    IN /\ entry[g].state = "nodes"
       /\ \/ Admitted(client) /\ Enters(g, "dialling") /\ UNCHANGED flows
          \/ Refused(g) /\ Enters(g, "error")
          \/ Unreached(g, client.host)
       /\ UNCHANGED <<at, key, changes, checks, replaced>>

\* The supervisor reconnects, and its gateway answers GET /api/info.
Redial(g) ==
    /\ entry[g].state = "live" /\ Answers(g, entry[g].client.host)
    /\ Enters(g, "dialling")
    /\ UNCHANGED <<at, key, changes, checks, flows, replaced>>

\* The answer to GET /api/nodes or to the WebSocket request: a refusal, or a
\* session, or a failure to be retried (HELLO of another gateway is one).
Dialled(g) ==
    /\ entry[g].state = "dialling"
    /\ \/ Refused(g) /\ Enters(g, "halted")
       \/ /\ Silent(entry[g].client.host) \/ Admitted(entry[g].client)
          /\ Enters(g, "live") /\ UNCHANGED flows
    /\ UNCHANGED <<at, key, changes, checks, replaced>>

\* Home Assistant sets an entry up again: after ConfigEntryNotReady, or as a
\* flow has asked, which waits for a set-up in progress.
SetUpAgain(g) ==
    /\ IF entry[g].reload THEN entry[g].state \notin {"info", "nodes"} ELSE entry[g].state = "retry"
    /\ entry' = [entry EXCEPT ![g] = SetUpOf(@.data)]
    /\ UNCHANGED <<at, key, changes, checks, flows, replaced>>

----------------------------------------------------------------------------
(* The surroundings. *)

Change == changes < MaxChanges /\ changes' = changes + 1

\* A gateway takes an address, and its holder is left without one.
Move(g, a) ==
    /\ Change
    /\ a # at[g]
    /\ at' = [h \in Gateway |-> IF h = g THEN a ELSE IF at[h] = a THEN Nobody ELSE at[h]]
    /\ UNCHANGED <<key, checks, flows, entry, replaced>>

Withdraw(g) ==
    /\ Change
    /\ key' = [key EXCEPT ![g] = @ + 1]
    /\ UNCHANGED <<at, checks, flows, entry, replaced>>

\* Flows are not kept; every entry is set up again.
RestartHA ==
    /\ Change
    /\ checks' = {} /\ flows' = {}
    /\ entry' = [g \in Gateway |-> IF Configured(g) THEN SetUpOf(entry[g].data) ELSE entry[g]]
    /\ UNCHANGED <<at, key, replaced>>

\* The user ignores a card: Home Assistant's own flow makes an ignored entry.
Ignore(c) ==
    /\ Change
    /\ c \in Cards /\ entry[c.uid].state = "none"
    /\ Enters(c.uid, "ignored")
    /\ flows' = flows \ FlowsOf(c.uid)
    /\ UNCHANGED <<at, key, checks, replaced>>

RemoveEntry(g) ==
    /\ Change
    /\ entry[g].state # "none"
    /\ entry' = [entry EXCEPT ![g] = NoEntry]
    /\ flows' = flows \ FlowsOf(g)
    /\ UNCHANGED <<at, key, checks, replaced>>

----------------------------------------------------------------------------

FlowNext ==
    \/ \E c \in checks : Verify(c)
    \/ \E f \in flows, h \in Gateway : Submit(f, <<h, key[h]>>)
    \/ \E a \in Address, h \in Gateway : SubmitUser(a, <<h, key[h]>>)
    \/ \E f \in flows : InfoAnswer(f) \/ NodesAnswer(f)

Surroundings ==
    \/ \E g \in Gateway : Announce(g) \/ Withdraw(g) \/ RemoveEntry(g) \/ \E a \in Host : Move(g, a)
    \/ \E c \in flows : Ignore(c)
    \/ RestartHA

SetsUp(g) == SetUpInfo(g) \/ SetUpNodes(g) \/ SetUpAgain(g)

Next ==
    \/ FlowNext
    \/ \E g \in Gateway : SetsUp(g) \/ Redial(g) \/ Dialled(g)
    \/ Surroundings

Spec == Init /\ [][Next]_vars

\* Gateways keep announcing themselves, requests are answered or time out, and
\* Home Assistant retries and reloads.  The user owes nothing.
Verifies(g) == \E c \in checks : c.uid = g /\ Verify(c)
Fairness ==
    \A g \in Watched : WF_vars(Announce(g)) /\ WF_vars(Verifies(g)) /\ WF_vars(SetsUp(g))

FairSpec == Spec /\ Fairness

----------------------------------------------------------------------------
(* Properties. *)

\* No flow, in whatever order flows end, replaces an entry that is set up
\* (config_flow.py:193, config_flow.py:236): entities and options are kept.
EntriesAreKept == replaced = {}

\* Discovery shows the user one card per gateway and per address, and none for
\* a gateway that has an entry (config_flow.py:133): every card can be completed
\* as long as its gateway stays.
CardsAreDistinct ==
    \A c \in Cards :
        /\ entry[c.uid].state = "none"
        /\ \A k \in Cards : (k.uid = c.uid \/ k.host = c.host) => k = c

\* The entry is given another key, or another address.
Rekeyed(g) == Configured(g)' /\ entry'[g].data.token # entry[g].data.token
Readdressed(g) == Configured(g) /\ Configured(g)' /\ entry'[g].data.host # entry[g].data.host

\* An entry gets the key of another gateway only if its own gateway answered
\* the first request of the flow and had lost the address before the second
\* (api.py:214, config_flow.py:190, config_flow.py:286): no flow about one
\* gateway stores what was meant for another because of anything else.
KeysFit ==
    \A g \in Gateway : Rekeyed(g) =>
        \/ entry'[g].data.token[1] = g
        \/ \E f \in flows \ flows' : /\ f.step = "nodes" /\ f.token = entry'[g].data.token
                                    /\ f.seen = g /\ ~Answers(g, f.host)
OwnKeysUnlessPassed == [][KeysFit]_vars

\* An entry changes its address only for one at which its gateway announced
\* itself and answered: a reauthentication that began at the old address does
\* not put it back (config_flow.py:125, config_flow.py:287).
AddressHeard == \A g \in Gateway :
    Readdressed(g) => [uid |-> g, host |-> entry'[g].data.host] \in checks
AddressesAreHeard == [][AddressHeard]_vars

\* A gateway whose entry can be set up: it is there, and the key is good.
Ready(g) == Configured(g) /\ at[g] # Nobody /\ entry[g].data.token = <<g, key[g]>>
Works(g) ==
    /\ entry[g].state \in {"live", "dialling"}
    /\ Accepts(g, entry[g].client.host, entry[g].client.token)

\* Home Assistant does not end by itself a set-up that failed for good, nor one
\* that has loaded with the address of before, nor does it start a supervisor
\* again that another gateway refused at the address it passed by.
Stranded(g) ==
    \/ entry[g].state = "error"
    \/ entry[g].data.host = at[g] /\ (entry[g].late \/ entry[g].state = "halted")

\* A gateway with a good key is reached again wherever it moves
\* (config_flow.py:125), unless its set-up was stranded on the way.
Reconnects == \A g \in Watched : []<>(~Ready(g) \/ Works(g) \/ Stranded(g))

\* src/README.md:14: "If the gateway's IP address changes, a verified mDNS
\* announcement updates the existing integration entry and reconnects it".
MovedGatewaysReconnect == \A g \in Watched : []<>(~Ready(g) \/ Works(g))
=============================================================================
