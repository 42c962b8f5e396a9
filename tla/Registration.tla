---------------------------- MODULE Registration ----------------------------
(***************************************************************************)
(* SIP registration end to end: the outbound registration of one device    *)
(* (outbound_registration.rs), a network that loses, delays and reorders,  *)
(* and the registrar behind the digest check (registrar.rs and             *)
(* SipEventHandler::handle_register).  Other devices register under the    *)
(* same address of record.                                                 *)
(*                                                                         *)
(* The contacts of the AoR are a sequence from the least to the most       *)
(* recently refreshed; the code keeps a list and compares registered_at.   *)
(* A duplicated REGISTER is absorbed by its server transaction (SipServer),*)
(* so only responses are repeated.                                         *)
(***************************************************************************)
EXTENDS Naturals, Sequences, FiniteSets, Functions

CONSTANTS
  Others,        \* contact URIs of the other devices
  OtherRequests, \* what the other devices REGISTER: lists of Contacts
  Expiration,    \* config.expiration of the device
  RefreshPoint,  \* 90% of it
  Timeout,       \* the 32 s wait for a response
  max_retries,
  forbidden_retry_interval, auth_rejection_permanent,
  minimum_expiration, maximum_expiration, max_contacts,
  MaxDelay,      \* bound: how long a datagram is under way
  MaxNet,        \* bound: datagrams under way in each direction
  MaxClock       \* bound: clocks stop here, beyond every timer

VARIABLES
  policy,    \* remove_existing of the AoR; whether endpoints need digest auth
  contacts,  \* the bindings: [uri, expiration, age]
  agent,     \* the OutboundRegistration
  up, down,  \* requests and responses under way
  ticked,    \* tick() has run in this unit of time
  history    \* the device was told to stop; another REGISTER unbound it

regVars == <<policy, contacts, agent, up, down, ticked, history>>

\* Contact: *, with the Expires header of the request.
Wildcard(e) == << [uri |-> "*", expires |-> e] >>

\* "*" is no device's contact, and a limit of 0 is none the registrar can keep.
ASSUME RegAssumption ==
  /\ Others \cap {"me", "*"} = {}
  /\ \A cs \in OtherRequests :
       \/ cs \in Seq([uri: Others, expires: Nat])
       \/ cs \in Seq([uri: {"*"}, expires: Nat]) /\ Len(cs) = 1
  /\ {Expiration, RefreshPoint, Timeout, max_retries, forbidden_retry_interval,
      minimum_expiration, maximum_expiration, MaxDelay, MaxNet, MaxClock} \subseteq Nat
  /\ max_contacts \in Nat \ {0} /\ auth_rejection_permanent \in BOOLEAN

-----------------------------------------------------------------------------
\* A datagram is sent; one too many is lost.
Put(ms, m) == IF Cardinality(ms) < MaxNet THEN ms \cup {m} ELSE ms

(* The registrar                                                            *)

Me == "me"
Uris == Others \cup {Me}
is_expired(r) == r.age >= r.expiration

\* Vec::retain.
retain(cs, keep) ==
  LET kept[n \in 0 .. Len(cs)] ==
        IF n = 0 THEN <<>>
        ELSE IF cs[n] \in keep THEN Append(kept[n - 1], cs[n])
        ELSE kept[n - 1]
  IN kept[Len(cs)]

Live(cs) == retain(cs, {r \in Range(cs) : ~ is_expired(r)})
Bound_to(cs, uri) == \E i \in DOMAIN cs : cs[i].uri = uri

\* determine_expiration, for a contact that carries one.
determine_expiration(raw) ==
  LET least == IF raw < minimum_expiration THEN minimum_expiration ELSE raw
  IN IF raw = 0 THEN 0
     ELSE IF least > maximum_expiration THEN maximum_expiration ELSE least

unregister(cs, uri) == retain(cs, {r \in Range(cs) : r.uri # uri})

\* Mutant: a refresh keeps the old registered_at.
register_stale(cs, uri, e) ==
  IF Bound_to(cs, uri) THEN cs
  ELSE Append(cs, [uri |-> uri, expiration |-> e, age |-> 0])

\* register: replace the binding of uri or add one.
register(cs, uri, e) ==
  Append(unregister(cs, uri), [uri |-> uri, expiration |-> e, age |-> 0])

\* Mutant: one binding too many fits.
bind_over(acc, c) ==
  LET e == determine_expiration(c.expires)
      fresh == ~ Bound_to(acc.contacts, c.uri)
      full == Len(acc.contacts) > max_contacts
  IN IF ~ acc.ok THEN acc
     ELSE IF e = 0 THEN [acc EXCEPT !.contacts = unregister(@, c.uri)]
     ELSE IF fresh /\ full /\ ~ policy.remove_existing
     THEN [acc EXCEPT !.ok = FALSE]
     ELSE [acc EXCEPT !.contacts =
             register(IF fresh /\ full THEN Tail(@) ELSE @, c.uri, e)]

\* One Contact of a REGISTER: unbind, refuse when full, or bind, evicting
\* the oldest binding first when remove_existing says so.
bind(acc, c) ==
  LET e == determine_expiration(c.expires)
      fresh == ~ Bound_to(acc.contacts, c.uri)
      full == Len(acc.contacts) >= max_contacts
  IN IF ~ acc.ok THEN acc
     ELSE IF e = 0 THEN [acc EXCEPT !.contacts = unregister(@, c.uri)]
     ELSE IF fresh /\ full /\ ~ policy.remove_existing
     THEN [acc EXCEPT !.ok = FALSE]
     ELSE [acc EXCEPT !.contacts =
             register(IF fresh /\ full THEN Tail(@) ELSE @, c.uri, e)]

\* Registrar::handle_register of a list of Contacts, "*" alone or none at
\* all; "*" is a bad request unless it expires at once, a 200 purges the AoR's
\* expired bindings, a 403 keeps what the Contacts before it did.
handle_register(cs) ==
  LET bound[n \in 0 .. Len(cs)] ==
        IF n = 0 THEN [contacts |-> contacts, ok |-> TRUE]
        ELSE bind(bound[n - 1], cs[n])
      r == bound[Len(cs)]
  IN IF Bound_to(cs, "*")
     THEN IF cs = Wildcard(0) THEN [status |-> "200", contacts |-> <<>>]
          ELSE [status |-> "400", contacts |-> contacts]
     ELSE IF r.ok THEN [status |-> "200", contacts |-> Live(r.contacts)]
     ELSE [status |-> "403", contacts |-> r.contacts]

\* A REGISTER of another device that is allowed to bind the AoR; one that is
\* not changes nothing.
OtherRegisters(cs) ==
  LET r == handle_register(cs)
  IN /\ contacts' = r.contacts
     /\ history' = [history EXCEPT !.unbound =
                      @ \/ (Bound_to(contacts, Me)
                            /\ ~ Bound_to(r.contacts, Me))]
     /\ UNCHANGED <<policy, agent, up, down, ticked>>

\* The device's REGISTER arrives: digest challenge first, then the registrar.
RegisterArrives(m) ==
  LET r == handle_register(<< [uri |-> Me, expires |-> m.expires] >>)
      challenged == policy.auth /\ ~ m.auth
  IN /\ m \in up
     /\ up' = up \ {m}
     /\ down' = Put(down, [status |-> IF challenged THEN "401" ELSE r.status,
                           age |-> 0])
     /\ contacts' = IF challenged THEN contacts ELSE r.contacts
     /\ history' = [history EXCEPT !.unbound =
                      @ /\ ~ (~ challenged /\ Bound_to(r.contacts, Me))]
     /\ UNCHANGED <<policy, agent, ticked>>

\* Its source is outside the configured CIDRs, or the user whose credentials it
\* carries may not bind the AoR: both are the configuration's choice.
RegisterForbidden(m) ==
  /\ m \in up
  /\ up' = up \ {m}
  /\ down' = Put(down, [status |-> "403", age |-> 0])
  /\ UNCHANGED <<policy, contacts, agent, ticked, history>>

\* A proxy or the server's transport answers for it, in a way that the device
\* takes for a failure: 503 stands for every other final status and for a
\* challenge that cannot be parsed.
ServerFails(m) ==
  /\ m \in up
  /\ up' = up \ {m}
  /\ down' = Put(down, [status |-> "503", age |-> 0])
  /\ UNCHANGED <<policy, contacts, agent, ticked, history>>

-----------------------------------------------------------------------------
(* The device                                                               *)

NewAgent ==
  [state |-> "Unregistered", retries |-> 0, challenged |-> FALSE,
   last_sent |-> {}]

\* build_register: the request goes out, its time is noted.
build_register(a, e, auth) ==
  /\ agent' = [a EXCEPT !.last_sent = {0}]
  /\ up' = Put(up, [expires |-> e, auth |-> auth, age |-> 0])

Quiet(a) == agent' = a /\ UNCHANGED up

\* Mutant: the attempts are not counted.
handle_failure_free(a) ==
  [a EXCEPT !.state = "Unregistered", !.last_sent = {0}]

\* handle_failure; beyond max_retries the count no longer matters.
handle_failure(a) ==
  [a EXCEPT !.retries = IF @ < max_retries THEN @ + 1 ELSE @,
            !.state = IF max_retries > 0 /\ a.retries + 1 >= max_retries
                      THEN "Rejected" ELSE "Unregistered",
            !.last_sent = {0}]

\* tick()
Due(n) == \E s \in agent.last_sent : s >= n
tick ==
  LET to(s) == [agent EXCEPT !.state = s]
  IN CASE agent.state = "Unregistered" ->
            build_register(to("Registering"), Expiration, FALSE)
       [] agent.state \in {"Registering", "Refreshing"} ->
            Quiet(IF Due(Timeout + 1) THEN handle_failure(agent) ELSE agent)
       [] agent.state = "Registered" /\ Due(RefreshPoint) ->
            build_register(to("Refreshing"), Expiration, FALSE)
       [] agent.state = "Rejected" /\ forbidden_retry_interval > 0
          /\ Due(forbidden_retry_interval) ->
            build_register(to("Registering"), Expiration, FALSE)
       [] OTHER -> Quiet(agent)

AgentTicks ==
  /\ ~ ticked
  /\ ticked' = TRUE
  /\ tick
  /\ UNCHANGED <<policy, contacts, down, history>>

\* on_response: a status is taken as the answer to whatever was sent last.
on_response(status) ==
  CASE status = "200" ->
         Quiet([agent EXCEPT !.state = "Registered", !.retries = 0,
                             !.challenged = FALSE])
    [] status = "401" /\ agent.challenged /\ auth_rejection_permanent ->
         Quiet([agent EXCEPT !.state = "Rejected", !.last_sent = {0}])
    [] status = "401" /\ ~ (agent.challenged /\ auth_rejection_permanent) ->
         build_register([agent EXCEPT !.challenged = TRUE], Expiration, TRUE)
    [] status = "403" ->
         Quiet([agent EXCEPT !.state = "Rejected", !.last_sent = {0}])
    [] OTHER -> Quiet(handle_failure(agent))

\* A response arrives, and perhaps once more later.
ResponseArrives(m) ==
  /\ m \in down
  /\ \/ down' = down \ {m}
     \/ UNCHANGED down
  /\ on_response(m.status)
  /\ UNCHANGED <<policy, contacts, ticked, history>>

\* build_unregister: the owner shuts the registration down.
build_unregister ==
  /\ ~ history.stopped
  /\ history' = [history EXCEPT !.stopped = TRUE]
  /\ build_register([agent EXCEPT !.state = "Stopping"], 0, FALSE)
  /\ UNCHANGED <<policy, contacts, down, ticked>>

\* Time passes once tick() has run; what was under way too long is lost, and how
\* long ago a binding expired does not matter.
Older(n) == IF n < MaxClock THEN n + 1 ELSE n
Aged(r) == [r EXCEPT !.age = IF is_expired(r) THEN @ ELSE Older(@)]
UnderWay(ms) == {[m EXCEPT !.age = @ + 1] : m \in {x \in ms : x.age < MaxDelay}}
TimePasses ==
  /\ ticked
  /\ ticked' = FALSE
  /\ contacts' = [i \in DOMAIN contacts |-> Aged(contacts[i])]
  /\ agent' = [agent EXCEPT !.last_sent = {Older(s) : s \in @}]
  /\ up' = UnderWay(up) /\ down' = UnderWay(down)
  /\ UNCHANGED <<policy, history>>

RegInit ==
  /\ policy \in [remove_existing: BOOLEAN, auth: BOOLEAN]
  /\ contacts = <<>>
  /\ agent = NewAgent
  /\ up = {} /\ down = {}
  /\ ticked = FALSE
  /\ history = [stopped |-> FALSE, unbound |-> FALSE]

RegNext ==
  \/ \E cs \in OtherRequests : OtherRegisters(cs)
  \/ \E m \in up : RegisterArrives(m) \/ RegisterForbidden(m) \/ ServerFails(m)
  \/ \E m \in down : ResponseArrives(m)
  \/ AgentTicks \/ build_unregister \/ TimePasses

\* The owner calls tick() periodically; the network owes nothing.
RegFairness == WF_regVars(AgentTicks) /\ WF_regVars(TimePasses)
RegSpec == RegInit /\ [][RegNext]_regVars /\ RegFairness

-----------------------------------------------------------------------------
(* Properties                                                               *)

RegTypeOK ==
  /\ Range(contacts) \subseteq
       [uri: Uris, expiration: 1 .. maximum_expiration, age: 0 .. MaxClock]
  /\ agent \in [state: {"Unregistered", "Registering", "Registered",
                        "Refreshing", "Rejected", "Stopping"},
                retries: 0 .. max_retries, challenged: BOOLEAN,
                last_sent: SUBSET (0 .. MaxClock)]
  /\ up \subseteq [expires: {0, Expiration}, auth: BOOLEAN, age: 0 .. MaxDelay]
  /\ down \subseteq [status: {"200", "401", "403", "503"}, age: 0 .. MaxDelay]

\* The AoR never holds more than max_contacts bindings, nor two for one URI,
\* however refreshes, evictions and multi-contact REGISTERs mix.
ContactsBounded ==
  /\ Len(contacts) <= max_contacts
  /\ \A i, j \in DOMAIN contacts :
       contacts[i].uri = contacts[j].uri => i = j

\* A device that takes itself for registered is registered: the registrar
\* holds a live binding for it, whatever was lost, delayed or answered out of
\* order, unless it was told to stop or another REGISTER removed it (the
\* 90% refresh of tick against the expiry in is_expired).
RegisteredIsBound ==
  agent.state = "Registered" /\ ~ history.stopped /\ ~ history.unbound
    => Bound_to(Live(contacts), Me)

\* The device does not try for ever: each attempt ends in a registration or
\* in a rejection (handle_failure counts the attempts, a second challenge is
\* permanent where auth_rejection_permanent says so).
RegistrationSettles ==
  agent.state = "Registering"
    ~> agent.state \in {"Registered", "Rejected", "Stopping"}

\* "a REGISTER that binds and later expires/unregisters must return this to
\* its pre-test value (no leaked registration state)": an expired binding
\* leaves the table (purge_expired has no caller, so this one fails).
ExpiredIsRemoved ==
  \A u \in Others :
    (\E i \in DOMAIN contacts : contacts[i].uri = u /\ is_expired(contacts[i]))
      ~> ~ (\E i \in DOMAIN contacts :
              contacts[i].uri = u /\ is_expired(contacts[i]))
=============================================================================
