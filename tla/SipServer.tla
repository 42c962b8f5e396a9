------------------------------ MODULE SipServer ------------------------------
(***************************************************************************)
(* The server half of the SIP transaction layer of asterisk-sip: the       *)
(* INVITE and non-INVITE server transactions (transaction/mod.rs), the     *)
(* response cache, the receive/timer loop and the bounded event queue to   *)
(* the transaction user (stack.rs).                                        *)
(*                                                                         *)
(* Three actors share the transaction maps: the stack loop (one task, so   *)
(* its handlers never overlap each other), the tasks of the transaction    *)
(* user (TU), which record final responses at any time, and the peer,      *)
(* whose datagrams may be duplicated, delayed and reordered.  Time is the  *)
(* action Tick; it may pass between any two steps.                         *)
(***************************************************************************)
EXTENDS Naturals, Sequences, FiniteSets

CONSTANTS
  Call,          \* INVITEs, identified by branch, Call-ID, CSeq and From tag
  Req,           \* other requests (BYE, OPTIONS, INFO...), one branch each
  Answerable,    \* the requests whose method the event consumer answers
  Src,           \* packet source addresses
  MaxInst,       \* bound: sessions created for one INVITE identity
  EventQueueCapacity,
  TimerInterval, \* idle time after which the loop runs its timer pass
  T1, T2, TIMER_H, TIMER_I, TIMER_J,
  MaxAge,        \* bound: elapsed times are counted up to this value
  LateTU         \* may the TU answer after its transaction was reaped?

ASSUME Durations ==
  /\ {MaxInst, EventQueueCapacity, TimerInterval, T1, T2} \subseteq Nat \ {0}
  /\ {TIMER_H, TIMER_I, TIMER_J, MaxAge} \subseteq Nat \ {0}
  /\ T1 <= T2
  /\ \A d \in {TimerInterval, T2, TIMER_H, TIMER_I, TIMER_J} : d <= MaxAge

ASSUME Sets ==
  /\ Answerable \subseteq Req
  /\ Call \cap Req = {}
  /\ Src # {}
  /\ LateTU \in BOOLEAN

VARIABLES
  stxn,    \* invite_server_txns
  ntxn,    \* non_invite_server_txns; a CANCEL is keyed by its INVITE
  cache,   \* invite_final_cache
  loop,    \* the stack loop: in select!, or in the tail of a timer pass
  sleep,   \* how long the current select! has been waiting
  outbox,  \* events the running handler still has to emit
  events,  \* the bounded event queue
  inst,    \* sessions created so far for each INVITE identity
  tu,      \* what the TU does with each session
  wire,    \* history: final responses put on the wire for each session
  since    \* history: time since the TU, or a CANCEL, settled a request

vars ==
  <<stxn, ntxn, cache, loop, sleep, outbox, events, inst, tu, wire, since>>

-----------------------------------------------------------------------------
Inst == 1 .. MaxInst
Age == 0 .. MaxAge
Older(a) == IF a < MaxAge THEN a + 1 ELSE a
Least(a, b) == IF a <= b THEN a ELSE b

\* Statuses of finals: 2xx, a 3xx-6xx chosen by the TU, the CANCEL's 487.
TUFinal == {"200", "fail"}
Final == TUFinal \cup {"487"}

InviteServerState ==
  {"Proceeding", "Completed", "Accepted", "Confirmed", "Terminated"}

\* ServerTransaction.  n is the session created with the transaction, tag
\* the session whose tag is in the To header of the last response.
ServerTransaction ==
  [state: InviteServerState \cup {"Absent"}, src: Src, n: 0 .. MaxInst,
   st: Final \cup {"none"}, tag: 0 .. MaxInst,
   final: Age, confirmed: Age, g: 1 .. T2, retx: Age]

NonInviteServerTransaction ==
  [state: {"Absent", "Trying", "Completed", "Terminated"}, src: Src,
   st: {"none", "200", "481"}, completed: Age]

CachedInviteFinal ==
  [st: TUFinal \cup {"none"}, src: Src, tag: 0 .. MaxInst, age: Age]

Event ==
  [kind: {"IncomingInvite", "IncomingAck", "IncomingCancel",
          "TransactionTimeout", "InviteAckTimeout"},
   c: Call, n: Inst, src: Src]
  \cup [kind: {"IncomingRequest"}, c: Req, n: {0}, src: Src]

TypeOK ==
  /\ stxn \in [Call -> ServerTransaction]
  /\ ntxn \in [Call \cup Req -> NonInviteServerTransaction]
  /\ cache \in [Call -> CachedInviteFinal]
  /\ loop \in {"select", "reap"}
  /\ sleep \in Age
  /\ outbox \in SUBSET Event
  /\ events \in Seq(Event)
  /\ inst \in [Call -> 0 .. MaxInst]
  /\ tu \in [Call -> [Inst -> {"idle", "active", "done"} \cup TUFinal]]
  /\ wire \in [Call -> [Inst -> SUBSET Final]]
  /\ since \in [Call \cup Req -> [tu: Age, cancel: Age]]

-----------------------------------------------------------------------------
\* ServerTransaction::new
NewServerTransaction(src, n) ==
  [state |-> "Proceeding", src |-> src, n |-> n, st |-> "none", tag |-> 0,
   final |-> 0, confirmed |-> 0, g |-> T1, retx |-> 0]

\* ServerTransaction::send_final: no test of the state it leaves.
send_final(t, st, tag) ==
  [t EXCEPT !.st = st, !.tag = tag, !.final = 0, !.retx = 0,
            !.state = IF st = "200" THEN "Accepted" ELSE "Completed"]

\* ServerTransaction::on_ack
on_ack(t) ==
  CASE t.state = "Completed" -> [t EXCEPT !.state = "Confirmed", !.confirmed = 0]
    [] t.state = "Accepted" -> [t EXCEPT !.state = "Terminated"]
    [] OTHER -> t

AwaitsAck(t) == t.state \in {"Completed", "Accepted"}

\* Mutant: Timer G doubles without the T2 cap.
advance_uncapped(t) == [t EXCEPT !.g = 2 * @, !.retx = 0]

\* ServerTransaction::needs_retransmit, advance_retransmit_timer (Timer G)
needs_retransmit(t) == AwaitsAck(t) /\ t.retx >= t.g
advance_retransmit_timer(t) == [t EXCEPT !.g = Least(2 * @, T2), !.retx = 0]

\* Mutant: Timer H guards only non-2xx finals.
timer_h_completed(t) == t.state = "Completed" /\ t.final >= TIMER_H

timer_h_expired(t) == AwaitsAck(t) /\ t.final >= TIMER_H
timer_i_expired(t) == t.state = "Confirmed" /\ t.confirmed >= TIMER_I
timer_j_expired(t) == t.state = "Completed" /\ t.completed >= TIMER_J

\* NonInviteServerTransaction::new, and send_final on it
NewNonInvite(src) ==
  [state |-> "Trying", src |-> src, st |-> "none", completed |-> 0]
\* Mutant: the response is recorded but Timer J is not armed.
complete_unarmed(t, st) == [t EXCEPT !.st = st, !.completed = 0]
complete(t, st) == [t EXCEPT !.state = "Completed", !.st = st, !.completed = 0]

\* Mutant: the cache lives no longer than Timer I.
CacheHitShort(c, src) ==
  cache[c].st # "none" /\ cache[c].age < TIMER_I /\ cache[c].src = src

\* The cache holds an entry until it is reaped, but an expired entry no
\* longer matches.
CacheHit(c, src) ==
  cache[c].st # "none" /\ cache[c].age < TIMER_H /\ cache[c].src = src

\* matched_retransmission: same branch, method, identity and source.
MatchesInvite(c, src) == stxn[c].state # "Absent" /\ stxn[c].src = src
MatchesNonInvite(q, src) == ntxn[q].state # "Absent" /\ ntxn[q].src = src

\* A final response leaves the host.
OnWire(w, c, st, tag) ==
  IF st = "none" THEN w ELSE [w EXCEPT ![c][tag] = @ \cup {st}]

SomeSrc == CHOOSE s \in Src : TRUE

\* Keys with no entry in the maps.
NoServerTransaction ==
  [NewServerTransaction(SomeSrc, 0) EXCEPT !.state = "Absent"]
NoNonInvite == [NewNonInvite(SomeSrc) EXCEPT !.state = "Absent"]
NoCachedFinal == [st |-> "none", src |-> SomeSrc, tag |-> 0, age |-> 0]

\* TransactionLayer::new, and a TU that knows of no session.
Init ==
  /\ stxn = [c \in Call |-> NoServerTransaction]
  /\ ntxn = [q \in Call \cup Req |-> NoNonInvite]
  /\ cache = [c \in Call |-> NoCachedFinal]
  /\ loop = "select"
  /\ sleep = 0
  /\ outbox = {}
  /\ events = <<>>
  /\ inst = [c \in Call |-> 0]
  /\ tu = [c \in Call |-> [n \in Inst |-> "idle"]]
  /\ wire = [c \in Call |-> [n \in Inst |-> {}]]
  /\ since = [q \in Call \cup Req |-> [tu |-> MaxAge, cancel |-> MaxAge]]

-----------------------------------------------------------------------------
(* The stack loop: one datagram or one timer pass at a time (run).          *)

\* The loop is back in select!, with nothing left to emit.
Selecting == loop = "select" /\ outbox = {}

\* Every handler returns to a fresh select!, with a fresh 50 ms sleep.
Handled == sleep' = 0 /\ loop' = "select"

EventOf(kind, c, n, src) == [kind |-> kind, c |-> c, n |-> n, src |-> src]

\* handle_request, retransmission branch: replay what was last answered.
ReplayInvite(c, src) ==
  /\ Selecting
  /\ \/ /\ MatchesInvite(c, src)
        /\ wire' = OnWire(wire, c, stxn[c].st, stxn[c].tag)
     \/ /\ ~ MatchesInvite(c, src)
        /\ CacheHit(c, src)
        /\ wire' = OnWire(wire, c, cache[c].st, cache[c].tag)
  /\ Handled
  /\ UNCHANGED <<stxn, ntxn, cache, outbox, events, inst, tu, since>>

\* handle_request, INVITE: insert the transaction, then emit the session.
\* (new_inbound makes a session of every INVITE that has a Call-ID, and an
\* identity of Call has one.)
RecvInvite(c, src) ==
  /\ Selecting
  /\ ~ MatchesInvite(c, src)
  /\ ~ CacheHit(c, src)
  /\ inst[c] < MaxInst
  /\ inst' = [inst EXCEPT ![c] = @ + 1]
  /\ stxn' = [stxn EXCEPT ![c] = NewServerTransaction(src, inst[c] + 1)]
  /\ outbox' = {EventOf("IncomingInvite", c, inst[c] + 1, src)}
  /\ Handled
  /\ UNCHANGED <<ntxn, cache, events, tu, wire, since>>

\* handle_request, ACK of a 2xx: matched by dialog identity, from any source.
RecvAck2xx(c, tag, src) ==
  /\ Selecting
  /\ "200" \in wire[c][tag]
  /\ stxn[c].state = "Accepted"
  /\ stxn[c].tag = tag
  /\ stxn' = [stxn EXCEPT ![c] = on_ack(@)]
  /\ outbox' = {EventOf("IncomingAck", c, tag, src)}
  /\ Handled
  /\ UNCHANGED <<ntxn, cache, events, inst, tu, wire, since>>

\* handle_request, ACK of a non-2xx: matched by branch, source and CSeq.
RecvAckNon2xx(c, src) ==
  /\ Selecting
  /\ \E n \in Inst : wire[c][n] \cap {"fail", "487"} # {}
  /\ MatchesInvite(c, src)
  /\ stxn' = [stxn EXCEPT ![c] = on_ack(@)]
  /\ Handled
  /\ UNCHANGED <<ntxn, cache, outbox, events, inst, tu, wire, since>>

\* A datagram that changes nothing: a retransmitted CANCEL or request that
\* only replays a response, an ACK that matches no transaction, a keepalive.
RecvAbsorbed ==
  /\ Selecting
  /\ Handled
  /\ UNCHANGED <<stxn, ntxn, cache, outbox, events, inst, tu, wire, since>>

\* handle_cancel_request: one lock for both transactions, then the sends.
RecvCancel(c, src) ==
  LET found == stxn[c].state # "Absent"
      pending == stxn[c].state = "Proceeding"
      n == stxn[c].n
  IN /\ Selecting
     /\ ~ MatchesNonInvite(c, src)
     /\ ntxn' = [ntxn EXCEPT ![c] =
                   complete(NewNonInvite(src), IF found THEN "200" ELSE "481")]
     /\ IF pending
        THEN /\ stxn' = [stxn EXCEPT ![c] = send_final(@, "487", n)]
             /\ wire' = OnWire(wire, c, "487", n)
             /\ outbox' = {EventOf("IncomingCancel", c, n, src)}
             /\ since' = [since EXCEPT ![c].cancel = 0]
        ELSE UNCHANGED <<stxn, wire, outbox, since>>
     /\ Handled
     /\ UNCHANGED <<cache, events, inst, tu>>

\* handle_request, BYE and the other methods.
RecvRequest(r, src) ==
  /\ Selecting
  /\ ~ MatchesNonInvite(r, src)
  /\ ntxn' = [ntxn EXCEPT ![r] = NewNonInvite(src)]
  /\ outbox' = {EventOf("IncomingRequest", r, 0, src)}
  /\ Handled
  /\ UNCHANGED <<stxn, cache, events, inst, tu, wire, since>>

\* expire_timers, for one INVITE server transaction
expire(t) ==
  IF timer_h_expired(t) \/ timer_i_expired(t)
  THEN [t EXCEPT !.state = "Terminated"] ELSE t

\* Mutant: an unacknowledged 2xx is not reported as such.
TimeoutEventsPlain(c) ==
  IF ~ timer_h_expired(stxn[c]) THEN {}
  ELSE {EventOf("TransactionTimeout", c, stxn[c].n, stxn[c].src)}

\* The events one expired transaction owes the TU: Timer H is abnormal, and
\* ends the dialog when it was a 2xx that nobody acknowledged.
TimeoutEvents(c) ==
  IF ~ timer_h_expired(stxn[c]) THEN {}
  ELSE {EventOf(k, c, stxn[c].n, stxn[c].src) :
          k \in {"TransactionTimeout"} \cup
                (IF stxn[c].state = "Accepted" THEN {"InviteAckTimeout"} ELSE {})}

\* handle_timers up to its first emit: Timer G, then the expiry of H, I, J.
\* Only the loop writes a transaction that has a final response, so nothing
\* another task does between these two parts is visible to either.
TimerPass ==
  /\ Selecting
  /\ sleep >= TimerInterval
  /\ wire' = [c \in Call |->
       IF needs_retransmit(stxn[c])
       THEN [wire[c] EXCEPT ![stxn[c].tag] = @ \cup {stxn[c].st}] ELSE wire[c]]
  /\ stxn' = [c \in Call |->
       expire(IF needs_retransmit(stxn[c])
              THEN advance_retransmit_timer(stxn[c]) ELSE stxn[c])]
  /\ ntxn' = [q \in Call \cup Req |->
       IF timer_j_expired(ntxn[q])
       THEN [ntxn[q] EXCEPT !.state = "Terminated"] ELSE ntxn[q]]
  /\ outbox' = UNION {TimeoutEvents(c) : c \in Call}
  /\ loop' = "reap"
  /\ UNCHANGED <<cache, sleep, events, inst, tu, since>>

\* Mutant: an event that finds the queue full is dropped (issue #26).
EmitOrDrop ==
  /\ \E e \in outbox :
       /\ events' = IF Len(events) < EventQueueCapacity
                    THEN Append(events, e) ELSE events
       /\ outbox' = outbox \ {e}
  /\ UNCHANGED <<stxn, ntxn, cache, loop, sleep, inst, tu, wire, since>>

\* emit_event: a full queue blocks the loop, nothing is dropped.  A
\* TransactionTimeout is emitted before the InviteAckTimeout of its branch.
EmitEvent ==
  /\ Len(events) < EventQueueCapacity
  /\ \E e \in outbox :
       /\ e.kind = "InviteAckTimeout" =>
            [e EXCEPT !.kind = "TransactionTimeout"] \notin outbox
       /\ events' = Append(events, e)
       /\ outbox' = outbox \ {e}
  /\ UNCHANGED <<stxn, ntxn, cache, loop, sleep, inst, tu, wire, since>>

\* The tail of handle_timers: drop what is terminated or expired.
Reap ==
  /\ loop = "reap"
  /\ outbox = {}
  /\ stxn' = [c \in Call |->
       IF stxn[c].state = "Terminated" THEN NoServerTransaction ELSE stxn[c]]
  /\ ntxn' = [q \in Call \cup Req |->
       IF ntxn[q].state = "Terminated" THEN NoNonInvite ELSE ntxn[q]]
  /\ cache' = [c \in Call |->
       IF cache[c].age >= TIMER_H THEN NoCachedFinal ELSE cache[c]]
  /\ Handled
  /\ UNCHANGED <<outbox, events, inst, tu, wire, since>>

-----------------------------------------------------------------------------
(* The transaction user.  One task consumes the events in order; each call  *)
(* has a task of its own that answers when it likes.                        *)

\* send_response to a non-INVITE request: record_non_invite_response, send.
record_non_invite_response(r, src) ==
  IF MatchesNonInvite(r, src)
  THEN /\ ntxn' = [ntxn EXCEPT ![r] = complete(@, "200")]
       /\ since' = [since EXCEPT ![r].tu = 0]
  ELSE UNCHANGED <<ntxn, since>>

\* The event consumer of main.rs.  It answers a request before it takes the
\* next event; a method outside Answerable is dropped without a response.
DeliverEvent ==
  /\ events # <<>>
  /\ events' = Tail(events)
  /\ LET e == Head(events)
     IN /\ tu' = IF e.kind = "IncomingInvite"
                 THEN [tu EXCEPT ![e.c][e.n] = "active"] ELSE tu
        /\ IF e.kind = "IncomingRequest" /\ e.c \in Answerable
           THEN record_non_invite_response(e.c, e.src)
           ELSE UNCHANGED <<ntxn, since>>
  /\ UNCHANGED <<stxn, cache, loop, sleep, outbox, inst, wire>>

\* Mutant: any live transaction accepts a final.
MayRecordAnyState(c) == stxn[c].state # "Absent"

\* The state in which a final may be recorded.
MayRecord(c) == stxn[c].state = "Proceeding"

\* record_invite_final.  Called with a transaction past Proceeding it returns
\* false and changes nothing; with no transaction it returns true and records
\* nothing.  The caller sends only after true.
record_invite_final(c, n, st) ==
  /\ tu[c][n] = "active"
  /\ \/ /\ MayRecord(c)
        /\ LateTU \/ stxn[c].n = n
        /\ stxn' = [stxn EXCEPT ![c] = send_final(@, st, n)]
        /\ cache' = [cache EXCEPT ![c] =
                       [st |-> st, src |-> stxn[c].src, tag |-> n, age |-> 0]]
        /\ since' = [since EXCEPT ![c].tu = 0]
     \/ /\ stxn[c].state = "Absent"
        /\ LateTU
        /\ UNCHANGED <<stxn, cache, since>>
  /\ tu' = [tu EXCEPT ![c][n] = st]
  /\ UNCHANGED <<ntxn, loop, sleep, outbox, events, inst, wire>>

\* transport.send of an allowed final, which may fail.
SendFinal(c, n) ==
  /\ tu[c][n] \in TUFinal
  /\ tu' = [tu EXCEPT ![c][n] = "done"]
  /\ \/ wire' = OnWire(wire, c, tu[c][n], n)
     \/ UNCHANGED wire
  /\ UNCHANGED <<stxn, ntxn, cache, loop, sleep, outbox, events, inst, since>>

-----------------------------------------------------------------------------
\* A quantum of time: every running timer is one older.
Tick ==
  /\ stxn' = [c \in Call |->
       [stxn[c] EXCEPT !.final = IF AwaitsAck(stxn[c]) THEN Older(@) ELSE @,
                       !.retx = IF AwaitsAck(stxn[c]) THEN Older(@) ELSE @,
                       !.confirmed =
                          IF stxn[c].state = "Confirmed" THEN Older(@) ELSE @]]
  /\ ntxn' = [q \in Call \cup Req |->
       [ntxn[q] EXCEPT !.completed =
                          IF ntxn[q].state = "Completed" THEN Older(@) ELSE @]]
  /\ cache' = [c \in Call |->
       [cache[c] EXCEPT !.age = IF cache[c].st # "none" THEN Older(@) ELSE @]]
  /\ sleep' = IF Selecting THEN Least(sleep + 1, TimerInterval) ELSE sleep
  /\ since' = [q \in Call \cup Req |->
       [tu |-> Older(since[q].tu), cancel |-> Older(since[q].cancel)]]
  /\ UNCHANGED <<loop, outbox, events, inst, tu, wire>>

Datagram ==
  \/ \E c \in Call, src \in Src :
       \/ ReplayInvite(c, src)
       \/ RecvInvite(c, src)
       \/ \E n \in Inst : RecvAck2xx(c, n, src)
       \/ RecvAckNon2xx(c, src)
       \/ RecvCancel(c, src)
  \/ \E r \in Req, src \in Src : RecvRequest(r, src)
  \/ RecvAbsorbed

TUAction ==
  \/ DeliverEvent
  \/ \E c \in Call, n \in Inst :
       \/ \E st \in TUFinal : record_invite_final(c, n, st)
       \/ SendFinal(c, n)

Next ==
  \/ Datagram
  \/ TimerPass
  \/ EmitEvent
  \/ Reap
  \/ TUAction
  \/ Tick

Spec == Init /\ [][Next]_vars

\* The runtime keeps polling the loop and the event consumer, and time passes.
\* TimerPass is ready only when a whole sleep went by without a datagram:
\* nothing here makes that happen.  When it happens again and again it is
\* taken in the end, because select! polls its branches in random order.
FairSpec ==
  /\ Spec
  /\ WF_vars(Tick)
  /\ SF_vars(TimerPass)
  /\ WF_vars(EmitEvent)
  /\ WF_vars(Reap)
  /\ WF_vars(DeliverEvent)

-----------------------------------------------------------------------------
(* Properties.                                                              *)

\* An INVITE is answered once: whatever the order of CANCEL, Answer() and
\* failure, and however often the loop retransmits or replays, at most one
\* final response is ever put on the wire for a session (record_invite_final,
\* handle_cancel_request).
SingleFinal ==
  \A c \in Call, n \in Inst : \A a, b \in wire[c][n] : a = b

\* The layer implements the service it promises: sessions are created in
\* order, and each shows the wire one answer that never changes.
Service == INSTANCE InviteService WITH created <- inst, answer <- wire
ImplementsService == Service!Spec

\* The TU hears of a session before it hears anything else about it, also
\* when the queue was full in between (emit_event, the IncomingInvite of
\* handle_request against the events of ACK, CANCEL and Timer H).
EventOrder ==
  \A e \in outbox \cup {events[i] : i \in 1 .. Len(events)} :
    e.kind \notin {"IncomingInvite", "IncomingRequest"} =>
      \/ tu[e.c][e.n] # "idle"
      \/ \E i \in 1 .. Len(events) :
           /\ events[i] = [e EXCEPT !.kind = "IncomingInvite", !.src = events[i].src]
           /\ \A j \in 1 .. i : events[j] # e

\* A retransmission never reaches the TU as a new call, or as a new request,
\* while the answer the TU gave it is younger than Timer H, or J: the
\* transaction and then the cache absorb it (matched_retransmission).
NoSecondDelivery ==
  [][/\ \A c \in Call : inst'[c] # inst[c] => since[c].tu >= TIMER_H
     /\ \A r \in Req : ntxn'[r].state = "Trying" /\ ntxn[r].state # "Trying"
                        => since[r].tu >= TIMER_J]_vars

\* As above, but for every final the layer sends, the CANCEL's 487 included:
\* "a late UDP retransmission cannot create a second call" (stack.rs:172).
NoSecondCall ==
  [][\A c \in Call : inst'[c] # inst[c] =>
       since[c].tu >= TIMER_H /\ since[c].cancel >= TIMER_H]_vars

\* A 2xx stays with its transaction, which retransmits it, until the TU is
\* told that its ACK came or that Timer H gave up waiting (send_final,
\* accepted_ack_branch, expire_timers).
AcceptedEndIsReported ==
  [][\A c \in Call :
       stxn[c].state = "Accepted" /\ stxn'[c].state # "Accepted" =>
         \E e \in outbox' :
           /\ e.c = c
           /\ \/ e.kind = "InviteAckTimeout"
              \/ e.kind = "IncomingAck" /\ e.n = stxn[c].tag]_vars

\* Traffic pauses: again and again a whole timer interval passes in which
\* no datagram restarts the sleep of select! (run).
TrafficPauses == []<>(sleep >= TimerInterval)

\* If traffic pauses, every transaction with a final response is eventually
\* reaped, by its ACK and Timer I, or by Timer H (handle_timers), whatever
\* arrives between the pauses.
FinalIsReaped ==
  TrafficPauses => \A c \in Call : stxn[c].st # "none" ~> stxn[c].st = "none"

\* Every session the layer creates eventually reaches the TU: a full queue
\* delays the loop and never loses an event (emit_event).
SessionIsDelivered ==
  \A c \in Call, n \in Inst : inst[c] >= n ~> tu[c][n] # "idle"

\* If traffic pauses, every request of a method the event consumer knows is
\* answered, and then reaped (Timer J), also when the queue is full of
\* requests it drops; and so is every CANCEL (handle_timers, DeliverEvent).
AnsweredIsReaped ==
  TrafficPauses =>
    \A q \in Call \cup Answerable :
      ntxn[q].state # "Absent" ~> ntxn[q].state = "Absent"

\* Every request's transaction is eventually reaped, so the transaction maps
\* "return to baseline after a call" (event_handler.rs:2690).
RequestIsReaped ==
  TrafficPauses =>
    \A r \in Req : ntxn[r].state # "Absent" ~> ntxn[r].state = "Absent"
=============================================================================
