------------------------------- MODULE ConfigFlow -------------------------------
(***************************************************************************)
(* How the connection data of a gateway's entry comes about: the forms     *)
(* that add, reconfigure or reauthenticate it, with the review of a        *)
(* certificate (config_flow.py), the adoption of a discovered address      *)
(* (async_step_zeroconf), and the search for the gateway of an entry of    *)
(* the former MQTT setup (__init__.py, discovery.py).                      *)
(*                                                                         *)
(* "home" is the gateway the entry is for, "other" stands for those with   *)
(* another identifier.  A host is an IP address of the local network: an   *)
(* input that is none leaves the form as it is.  A certificate is a        *)
(* number, 0 is none.  A password is the vendor's default of Home (its     *)
(* identifier), the user's own, or one that nobody enters here: the        *)
(* vendor's default of another gateway is its own identifier.              *)
(***************************************************************************)
EXTENDS Integers, FiniteSets

CONSTANTS Hosts,       \* addresses
          MaxChanges   \* bound: changes of the gateway and of what is where

ASSUME FlowAssumption == MaxChanges \in Nat /\ IsFiniteSet(Hosts) /\ Cardinality(Hosts) > 1

Generations  == {"legacy", "webui"}
Passwords    == {"default", "own"}
Ports        == {"http", "https"}       \* DEFAULT_PORT, WEBUI_2026_PORT
Certificates == 1..(MaxChanges + 2)     \* the last is that of the other gateway
Gateways     == [generation : Generations, certificate : Certificates,
                 password : Passwords \cup {"foreign"}]

\* What may answer at the hosts: Home at one of them, or nowhere.
Networks == {w \in [Hosts -> {"home", "other", "nothing"}] :
                \A g, h \in Hosts : w[g] = "home" /\ w[h] = "home" => g = h}

\* The connection data of an entry: generation and certificate are "legacy", 0 in
\* an entry that has neither key.
Connections == [host : Hosts, port : Ports, password : Passwords,
                generation : Generations, certificate : Certificates \cup {0}]
NoConnection == [host |-> "none"]       \* an entry of the former MQTT setup
NoEntry      == [host |-> "no entry"]
Entries      == Connections \cup {NoConnection, NoEntry}
Connected(e) == e \notin {NoConnection, NoEntry}

VARIABLES
    at,          \* the network: which gateway answers at each host
    gateway,     \* "home" and "other": [generation, certificate, password]
    changes,     \* changes so far
    entry,       \* its entry
    form,        \* the flow with the forms
    discovery,   \* the flow of an announcement
    search,      \* _async_locate_legacy_gateway
    verified,    \* history: connections Home answered to with its identifier
    confirmed,   \* history: certificates the user confirmed
    guessed      \* history: hosts that rejected the default password and were the only one announced

FlowVars == <<at, gateway, changes, entry, form, discovery, search, verified, confirmed, guessed>>
worldVars == <<at, gateway, changes>>

Inputs == [host : Hosts, port : Ports, password : Passwords]
Kinds  == {"user", "change"}            \* change: reauthentication, reconfiguration
Closed == [stage |-> "closed"]
Quiet  == [stage |-> "idle"]

FlowTypeOK ==
    /\ at \in Networks
    /\ gateway \in [{"home", "other"} -> Gateways]
    /\ changes \in 0..MaxChanges
    /\ entry \in Entries
    /\ form.stage \in {"closed", "shown", "detecting", "review", "reading"}
    /\ form.stage # "closed" => form.kind \in Kinds /\ form.trusted \in Certificates \cup {0}
    /\ form.stage \in {"detecting", "review"} => form.input \in Inputs
    /\ discovery.stage \in {"idle", "asking", "answered"}
    /\ search.stage \in {"idle", "asking", "answered"}
    /\ verified \subseteq Connections
    /\ confirmed \subseteq Certificates
    /\ guessed \subseteq Hosts

Connection(input, generation, certificate) ==
    [host |-> input.host, port |-> IF generation = "webui" THEN "https" ELSE input.port,
     password |-> input.password, generation |-> generation, certificate |-> certificate]

\* default_connection.
DefaultAt(host) == Connection([host |-> host, port |-> "http", password |-> "default"], "legacy", 0)

FlowInit ==
    /\ at \in Networks
    /\ gateway \in [{"home", "other"} -> Gateways]
    /\ gateway["home"].certificate = 1 /\ gateway["home"].password \in Passwords
    /\ gateway["other"].certificate = MaxChanges + 2 /\ gateway["other"].password # "default"
    /\ changes = 0
    /\ entry \in {NoEntry, NoConnection}
    /\ form = Closed /\ discovery = Quiet /\ search = Quiet
    /\ verified = {} /\ confirmed = {} /\ guessed = {}

--------------------------------------------------------------------------------
(* The gateways                                                             *)

\* Gateways come, go and move, or Home changes its generation, is reset to another
\* certificate, or gets another password.
WorldChanges ==
    /\ changes < MaxChanges
    /\ changes' = changes + 1
    /\ \/ at' \in Networks \ {at} /\ UNCHANGED gateway
       \/ /\ \/ \E g \in Generations : gateway' = [gateway EXCEPT !["home"].generation = g]
             \/ gateway' = [gateway EXCEPT !["home"].certificate = @ + 1]
             \/ \E p \in Passwords : gateway' = [gateway EXCEPT !["home"].password = p]
          /\ gateway' # gateway
          /\ UNCHANGED at
    /\ UNCHANGED <<entry, form, discovery, search, verified, confirmed, guessed>>

\* async_read_gateway_id: which gateway answers, "home" or "other", or how it fails.
\* Each generation answers only its own protocol and port, one with a certificate
\* only who knows that one, and any gateway only with its own password.
AnswerTo(c) ==
    LET g == gateway[at[c.host]]
    IN  IF \/ at[c.host] = "nothing"
           \/ c.generation # g.generation \/ (c.port = "https") # (c.generation = "webui")
           \/ c.generation = "webui" /\ c.certificate # g.certificate
        THEN "unreachable"
        ELSE IF c.password # g.password THEN "auth" ELSE at[c.host]

Verify(c) == verified' = IF AnswerTo(c) = "home" THEN verified \cup {c} ELSE verified

\* async_detect_webui_2026: the certificate of the gateway there, or 0.
Detected(host) ==
    IF at[host] # "nothing" /\ gateway[at[host]].generation = "webui"
    THEN gateway[at[host]].certificate ELSE 0

--------------------------------------------------------------------------------
(* The forms                                                                *)

ShowForm(kind, trusted) == [stage |-> "shown", kind |-> kind, trusted |-> trusted]

OpenForm(kind) ==
    /\ form = Closed
    /\ kind = "user" \/ entry # NoEntry
    /\ form' = ShowForm(kind, 0)
    /\ UNCHANGED <<worldVars, entry, discovery, search, verified, confirmed, guessed>>

\* What _async_validate is told of the configured gateway: its entry, or for a
\* new gateway the entry at the same host.
Known(kind, host) ==
    IF Connected(entry) /\ (kind # "user" \/ entry.host = host) THEN entry ELSE NoEntry

Submitted(kind, input, trusted) ==
    [stage |-> "detecting", kind |-> kind, input |-> input, trusted |-> trusted,
     known |-> Known(kind, input.host)]

Submit(input) ==
    /\ form.stage = "shown"
    /\ form' = Submitted(form.kind, input, form.trusted)
    /\ UNCHANGED <<worldVars, entry, discovery, search, verified, confirmed, guessed>>

\* webui_port: never asked over plain HTTP.
OnlyTls(f) ==
    \/ f.input.port = "https"
    \/ Connected(f.known) /\ f.known.generation = "webui" /\ f.known.port = f.input.port

\* Variation: one confirmation is enough for the whole flow.
TrustsAny(f, certificate) ==
    f.trusted # 0 \/ (Connected(f.known) /\ certificate = f.known.certificate)

\* The remembered certificate, or the one the user confirmed in this flow.
Trusts(f, certificate) ==
    certificate = f.trusted \/ (Connected(f.known) /\ certificate = f.known.certificate)

\* _async_validate and _async_validate_webui_2026 until the request.
Detect ==
    /\ form.stage = "detecting"
    /\ LET certificate == Detected(form.input.host)
           reading(c) == [stage |-> "reading", kind |-> form.kind, trusted |-> form.trusted,
                          connection |-> c]
       IN  form' = IF certificate # 0
                   THEN IF Trusts(form, certificate)
                        THEN reading(Connection(form.input, "webui", certificate))
                        ELSE [stage |-> "review", kind |-> form.kind, trusted |-> form.trusted,
                              input |-> form.input, certificate |-> certificate]
                   ELSE IF OnlyTls(form) THEN ShowForm(form.kind, form.trusted)
                        ELSE reading(Connection(form.input, "legacy", 0))
    /\ UNCHANGED <<worldVars, entry, discovery, search, verified, confirmed, guessed>>

\* _async_confirm_certificate: the whole step is run again.
ConfirmCertificate ==
    /\ form.stage = "review"
    /\ confirmed' = confirmed \cup {form.certificate}
    /\ form' = Submitted(form.kind, form.input, form.certificate)
    /\ UNCHANGED <<worldVars, entry, discovery, search, verified, guessed>>

\* Variation: the entry keeps the generation and certificate it has.
MergedInto(e, c) ==
    IF Connected(e) /\ c.generation = "legacy"
    THEN [c EXCEPT !.generation = e.generation, !.certificate = e.certificate] ELSE c

\* The generation and certificate are those of the gateway just validated.
StoredBy(e, c) == c

\* Home answers: the entry is created or updated, and the flow ends.  Another
\* gateway, or none, shows the form again (a new gateway gets its own entry).
Validated ==
    /\ form.stage = "reading"
    /\ LET c == form.connection
           found == AnswerTo(c)
       IN  /\ IF found = "home"
              THEN entry' = StoredBy(entry, c) /\ form' = Closed
              ELSE /\ UNCHANGED entry
                   /\ form' = IF found = "other" /\ form.kind = "user" THEN Closed
                              ELSE ShowForm(form.kind, form.trusted)
           /\ Verify(c)
    /\ UNCHANGED <<worldVars, discovery, search, confirmed, guessed>>

CloseForm ==
    /\ form # Closed
    /\ form' = Closed
    /\ UNCHANGED <<worldVars, entry, discovery, search, verified, confirmed, guessed>>

--------------------------------------------------------------------------------
(* A discovered address                                                     *)

\* async_step_zeroconf and _async_adopt_address until the request.
Announced(host) ==
    /\ at[host] # "nothing" /\ discovery = Quiet
    /\ entry # NoEntry
    /\ entry = NoConnection \/ entry.host # host
    /\ discovery' = [stage |-> "asking", known |-> entry,
                     connection |-> IF Connected(entry) THEN [entry EXCEPT !.host = host]
                                    ELSE DefaultAt(host)]
    /\ UNCHANGED <<worldVars, entry, form, search, verified, confirmed, guessed>>

DiscoveryAnswered ==
    /\ discovery.stage = "asking"
    /\ discovery' = [stage |-> "answered", known |-> discovery.known,
                     connection |-> discovery.connection,
                     found |-> AnswerTo(discovery.connection)]
    /\ Verify(discovery.connection)
    /\ UNCHANGED <<worldVars, entry, form, search, confirmed, guessed>>

\* Only the gateway with the identifier of the entry.
Adopts(found) == found = "home"

\* The keys the connection has are stored over those the entry has by now.
StoredOver(e, c) ==
    IF Connected(e) /\ c.generation = "legacy"
    THEN [c EXCEPT !.generation = e.generation, !.certificate = e.certificate] ELSE c

AdoptAddress ==
    /\ discovery.stage = "answered"
    /\ discovery' = Quiet
    /\ IF Adopts(discovery.found)
       THEN entry' = StoredOver(entry, discovery.connection)
       ELSE UNCHANGED entry
    /\ UNCHANGED <<worldVars, form, search, verified, confirmed, guessed>>

--------------------------------------------------------------------------------
(* An entry of the former MQTT setup                                        *)

\* async_setup_entry, for an entry without an address.
SearchStarts ==
    /\ entry = NoConnection /\ search = Quiet
    /\ search' = [stage |-> "asking"]
    /\ UNCHANGED <<worldVars, entry, form, discovery, verified, confirmed, guessed>>

\* async_locate_gateway: the announced address that answered as Home, or the only
\* one announced when it rejected the default password, whichever gateway it is.
Confirming(announced) == {h \in announced : AnswerTo(DefaultAt(h)) = "home"}
Rejecting(announced)  == {h \in announced : AnswerTo(DefaultAt(h)) = "auth" /\ announced = {h}}
Located(announced)    == Confirming(announced) \cup Rejecting(announced)

\* Browsing may miss a gateway, or find one that no longer answers.
SearchAnswered ==
    /\ search.stage = "asking"
    /\ \E announced \in SUBSET Hosts :
          /\ search' = [stage |-> "answered", located |-> Located(announced)]
          /\ verified' = verified \cup {DefaultAt(h) : h \in Confirming(announced)}
          /\ guessed' = guessed \cup Rejecting(announced)
    /\ UNCHANGED <<worldVars, entry, form, discovery, confirmed>>

\* The located address is stored with the default credentials.
SearchEnds ==
    /\ search.stage = "answered"
    /\ search' = Quiet
    /\ IF search.located = {} THEN UNCHANGED entry
       ELSE \E h \in search.located : entry' = StoredOver(entry, DefaultAt(h))
    /\ UNCHANGED <<worldVars, form, discovery, verified, confirmed, guessed>>

--------------------------------------------------------------------------------
FormStep == \/ \E kind \in Kinds : OpenForm(kind)
            \/ \E input \in Inputs : Submit(input)
            \/ Detect \/ ConfirmCertificate \/ Validated \/ CloseForm

FlowNext == \/ WorldChanges \/ FormStep
            \/ \E h \in Hosts : Announced(h)
            \/ DiscoveryAnswered \/ AdoptAddress
            \/ SearchStarts \/ SearchAnswered \/ SearchEnds

FlowSpec == FlowInit /\ [][FlowNext]_FlowVars

--------------------------------------------------------------------------------
(* Properties                                                               *)

\* An answer is about to be stored over an entry that another flow has changed
\* since the question (the entry an announcement read; for the search, none).
Crosses ==
    \/ discovery.stage = "answered" /\ entry # discovery.known
    \/ search.stage = "answered" /\ entry # NoConnection

\* What becomes the connection of an entry is a connection to which its gateway
\* answered as a whole, or, for an entry without one, the default credentials at
\* the only address announced (a guess: another gateway may have rejected them).
\* Only an answer that crosses another flow's update may store a guess over a
\* connection, or put a new address and password beside the old generation and
\* certificate, and no answer mixes more than that (_async_step_connection,
\* async_step_user, _async_adopt_address, _async_locate_legacy_gateway).
StoredAsAnswered ==
    [][Connected(entry') =>
          \/ entry' \in verified'
          \/ entry = NoConnection /\ \E h \in guessed : entry' = DefaultAt(h)
          \/ /\ Crosses
             /\ \E c \in verified \cup {DefaultAt(h) : h \in guessed} :
                   entry' \in {c, [c EXCEPT !.generation = entry.generation,
                                            !.certificate = entry.certificate]}]_entry

\* A certificate is remembered only after the user confirmed that very
\* certificate, although it may change between its review and the request that
\* follows the confirmation (_async_validate_webui_2026).
OnlyConfirmedCertificates ==
    /\ Connected(entry) => entry.certificate \in confirmed \cup {0}
    /\ form.stage = "reading" => form.connection.certificate \in confirmed \cup {0}
================================================================================
