--------------------------- MODULE SipServerProofs ---------------------------
(***************************************************************************)
(* Proofs about SipServer, for any number of INVITEs, requests, sources    *)
(* and sessions, any queue capacity and any durations: the types, that     *)
(* nothing settled is delivered a second time (from one source), and that  *)
(* a session is announced before anything else about it.                   *)
(***************************************************************************)
EXTENDS SipServer, TLAPS

\* The constants are positive numbers, and no timer outlasts MaxAge.
LEMMA Numbers ==
  /\ MaxInst \in Nat /\ MaxInst >= 1
  /\ T1 \in Nat /\ T1 >= 1 /\ T2 \in Nat /\ T1 <= T2
  /\ MaxAge \in Nat /\ MaxAge >= 1 /\ T2 <= MaxAge
  /\ TimerInterval \in Nat /\ TimerInterval <= MaxAge
  BY Durations

\* What a transaction and a cache entry say about themselves.
TxnInv(c) ==
  /\ stxn[c].n <= inst[c]
  /\ stxn[c].state # "Absent" => stxn[c].n >= 1
  /\ stxn[c].state \in {"Absent", "Proceeding"} <=> stxn[c].st = "none"
  /\ stxn[c].st # "none" => stxn[c].tag >= 1
  /\ cache[c].st # "none" => cache[c].tag >= 1

IndType == TypeOK /\ \A c \in Call : TxnInv(c)

\* The empty map entries are values of their types.
LEMMA EmptyEntries ==
  /\ NoServerTransaction \in ServerTransaction
  /\ NoNonInvite \in NonInviteServerTransaction
  /\ NoCachedFinal \in CachedInviteFinal
  <1>1. SomeSrc \in Src
    BY Sets, Zenon DEF SomeSrc
  <1> HIDE DEF SomeSrc
  <1>2. NoServerTransaction \in ServerTransaction
    BY <1>1, Numbers DEF NoServerTransaction, NewServerTransaction,
      ServerTransaction, Age
  <1>3. NoNonInvite \in NonInviteServerTransaction
    BY <1>1, Numbers DEF NoNonInvite, NewNonInvite,
      NonInviteServerTransaction, Age
  <1>4. NoCachedFinal \in CachedInviteFinal
    BY <1>1, Numbers DEF NoCachedFinal, CachedInviteFinal, Age
  <1> QED
    BY <1>2, <1>3, <1>4, Zenon

\* A fresh stack, with no transaction and no session, satisfies the invariant.
LEMMA InitType == Init => IndType
  <1> SUFFICES ASSUME Init PROVE IndType
    BY Zenon
  <1>2. TypeOK
    <2>1. since \in [Call \cup Req -> [tu: Age, cancel: Age]]
      BY Numbers DEF Init, Age
    <2>2. tu \in [Call -> [Inst -> {"idle", "active", "done"} \cup TUFinal]]
      BY Zenon DEF Init
    <2>3. inst \in [Call -> 0 .. MaxInst] /\ wire \in [Call -> [Inst -> SUBSET Final]]
      BY Numbers DEF Init
    <2>4. events \in Seq(Event) /\ outbox \in SUBSET Event /\ sleep \in Age
      BY Numbers DEF Init, Age
    <2> QED
      BY <2>1, <2>2, <2>3, <2>4, EmptyEntries, Zenon DEF Init, TypeOK
  <1>3. \A c \in Call : TxnInv(c)
    BY DEF Init, TxnInv, NoServerTransaction, NoCachedFinal,
      NewServerTransaction
  <1> QED
    BY <1>2, <1>3, Zenon DEF IndType

\* The transaction operations keep a transaction a transaction, and only a
\* final response takes it out of Proceeding.
LEMMA SendFinalOp ==
  ASSUME NEW t \in ServerTransaction, NEW st \in Final, NEW n \in Inst
  PROVE  /\ send_final(t, st, n) \in ServerTransaction
         /\ send_final(t, st, n).n = t.n
         /\ send_final(t, st, n).st = st
         /\ send_final(t, st, n).tag = n
         /\ send_final(t, st, n).state \notin {"Absent", "Proceeding"}
  <1>1. 0 \in Age /\ Inst \subseteq 0 .. MaxInst
    BY Numbers DEF Age, Inst
  <1> QED
    BY Zenon, <1>1 DEF ServerTransaction, send_final, InviteServerState

\* ServerTransaction::on_ack changes only the state and the timers.
LEMMA OnAckOp ==
  ASSUME NEW t \in ServerTransaction
  PROVE  /\ on_ack(t) \in ServerTransaction
         /\ \/ on_ack(t) = t
            \/ /\ t.state \notin {"Absent", "Proceeding"}
               /\ on_ack(t).state \notin {"Absent", "Proceeding"}
         /\ on_ack(t).n = t.n /\ on_ack(t).st = t.st /\ on_ack(t).tag = t.tag
  <1>1. 0 \in Age
    BY Numbers DEF Age
  <1>3. on_ack(t) \in ServerTransaction
    BY Zenon, <1>1 DEF ServerTransaction, on_ack, InviteServerState
  <1>4. /\ \/ on_ack(t) = t
           \/ /\ t.state \notin {"Absent", "Proceeding"}
              /\ on_ack(t).state \notin {"Absent", "Proceeding"}
        /\ on_ack(t).n = t.n /\ on_ack(t).st = t.st /\ on_ack(t).tag = t.tag
    BY Zenon DEF ServerTransaction, on_ack, InviteServerState
  <1> QED
    BY <1>3, <1>4, Zenon

\* One step of the timers on one transaction, and one quantum of its time.
TimerStep(t) ==
  expire(IF needs_retransmit(t) THEN advance_retransmit_timer(t) ELSE t)
Aged(t) ==
  [t EXCEPT !.final = IF AwaitsAck(t) THEN Older(@) ELSE @,
            !.retx = IF AwaitsAck(t) THEN Older(@) ELSE @,
            !.confirmed = IF t.state = "Confirmed" THEN Older(@) ELSE @]

\* Timers change neither the session nor the response of a transaction, and
\* end only a transaction that has one.
LEMMA TimerOps ==
  ASSUME NEW t \in ServerTransaction
  PROVE  /\ TimerStep(t) \in ServerTransaction
         /\ TimerStep(t).n = t.n /\ TimerStep(t).st = t.st
         /\ TimerStep(t).tag = t.tag
         /\ \/ TimerStep(t).state = t.state
            \/ /\ t.state \notin {"Absent", "Proceeding"}
               /\ TimerStep(t).state = "Terminated"
         /\ Aged(t) \in ServerTransaction
         /\ Aged(t).n = t.n /\ Aged(t).st = t.st /\ Aged(t).tag = t.tag
         /\ Aged(t).state = t.state
  <1> DEFINE u == IF needs_retransmit(t) THEN advance_retransmit_timer(t) ELSE t
  <1>1. /\ u \in ServerTransaction
        /\ u.n = t.n /\ u.st = t.st /\ u.tag = t.tag /\ u.state = t.state
    <2>1. t.g \in 1 .. T2
      BY Zenon DEF ServerTransaction
    <2>2. 0 \in Age /\ Least(2 * t.g, T2) \in 1 .. T2
      BY <2>1, Numbers DEF Least, Age
    <2> QED
      BY Zenon, <2>2 DEF ServerTransaction, advance_retransmit_timer
  <1> HIDE DEF u
  <1>2. /\ expire(u) \in ServerTransaction
        /\ expire(u).n = u.n /\ expire(u).st = u.st /\ expire(u).tag = u.tag
        /\ \/ expire(u).state = u.state
           \/ /\ u.state \notin {"Absent", "Proceeding"}
              /\ expire(u).state = "Terminated"
    BY <1>1, Zenon DEF ServerTransaction, expire, timer_h_expired, timer_i_expired,
      AwaitsAck, InviteServerState
  <1>3. TimerStep(t) = expire(u)
    BY Zenon DEF TimerStep, u
  <1>4. /\ Aged(t) \in ServerTransaction
        /\ Aged(t).n = t.n /\ Aged(t).st = t.st /\ Aged(t).tag = t.tag
        /\ Aged(t).state = t.state
    <2>1. /\ t.final \in Age /\ t.retx \in Age /\ t.confirmed \in Age
          /\ \A a \in Age : Older(a) \in Age
      BY Numbers DEF ServerTransaction, Older, Age
    <2> QED
      BY Zenon, <2>1 DEF ServerTransaction, Aged
  <1> QED
    BY <1>1, <1>2, <1>3, <1>4, Zenon

\* The same for the non-INVITE transactions, and for events.
LEMMA RequestOps ==
  /\ \A src \in Src : NewNonInvite(src) \in NonInviteServerTransaction
  /\ \A t \in NonInviteServerTransaction, st \in {"200", "481"} :
       complete(t, st) \in NonInviteServerTransaction
  /\ \A k \in {"IncomingInvite", "IncomingAck", "IncomingCancel",
               "TransactionTimeout", "InviteAckTimeout"},
        c \in Call, n \in Inst, src \in Src : EventOf(k, c, n, src) \in Event
  /\ \A r \in Req, src \in Src : EventOf("IncomingRequest", r, 0, src) \in Event
  <1>1. 0 \in Age
    BY Numbers DEF Age
  <1>2. \A src \in Src : NewNonInvite(src) \in NonInviteServerTransaction
    BY <1>1, Zenon DEF NewNonInvite, NonInviteServerTransaction
  <1>3. \A t \in NonInviteServerTransaction, st \in {"200", "481"} :
          complete(t, st) \in NonInviteServerTransaction
    BY Zenon, <1>1 DEF complete, NonInviteServerTransaction
  <1>4. \A k \in {"IncomingInvite", "IncomingAck", "IncomingCancel",
                  "TransactionTimeout", "InviteAckTimeout"},
           c \in Call, n \in Inst, src \in Src : EventOf(k, c, n, src) \in Event
    BY Zenon DEF EventOf, Event
  <1>5. \A r \in Req, src \in Src :
          EventOf("IncomingRequest", r, 0, src) \in Event
    BY Zenon DEF EventOf, Event
  <1> QED
    BY <1>2, <1>3, <1>4, <1>5, Zenon

\* A response on the wire is added to one session and leaves the others.
LEMMA WireOps ==
  ASSUME NEW w \in [Call -> [Inst -> SUBSET Final]], NEW c \in Call,
         NEW tag, NEW st \in Final \cup {"none"}
  PROVE  OnWire(w, c, st, tag) \in [Call -> [Inst -> SUBSET Final]]
  <1>1. CASE st = "none"
    BY <1>1, Zenon DEF OnWire
  <1>2. CASE st # "none"
    <2> DEFINE f == [w[c] EXCEPT ![tag] = @ \cup {st}]
    <2>1. /\ f \in [Inst -> SUBSET Final]
          /\ \A n \in Inst : f[n] = IF n = tag THEN w[c][n] \cup {st} ELSE w[c][n]
      BY Zenon, <1>2
    <2>2. OnWire(w, c, st, tag) = [w EXCEPT ![c] = f]
      BY <1>2, Zenon DEF OnWire
    <2> HIDE DEF f
    <2> QED
      BY <1>2, <2>1, <2>2, Zenon
  <1> QED
    BY <1>1, <1>2, Zenon

\* Resetting one of the elapsed times keeps their types.
LEMMA SinceOps ==
  ASSUME TypeOK, NEW q \in Call \cup Req
  PROVE  /\ [since EXCEPT ![q].tu = 0] \in [Call \cup Req -> [tu: Age, cancel: Age]]
         /\ [since EXCEPT ![q].cancel = 0]
              \in [Call \cup Req -> [tu: Age, cancel: Age]]
         /\ \A a \in Age : Older(a) \in Age
  <1>1. 0 \in Age /\ since \in [Call \cup Req -> [tu: Age, cancel: Age]]
    BY Numbers DEF TypeOK, Age
  <1>2. \A a \in Age : Older(a) \in Age
    BY Numbers DEF Age, Older
  <1> QED
    BY <1>1, <1>2, Zenon

\* A timer that has just been started has a legal age.
LEMMA ZeroAge == 0 \in Age
  BY Numbers DEF Age

\* Each action keeps the types.
USE DEF IndType

\* Replaying a cached final to a repeated INVITE keeps the types.
LEMMA ReplayInviteType ==
  ASSUME IndType,
         NEW c \in Call, NEW src \in Src, ReplayInvite(c, src)
  PROVE  IndType'
  <1>1. wire' \in [Call -> [Inst -> SUBSET Final]]
    <2>1. /\ stxn[c].st \in Final \cup {"none"}
          /\ cache[c].st \in Final \cup {"none"}
      BY Zenon DEF TypeOK, ServerTransaction, CachedInviteFinal, Final
    <2>2. /\ OnWire(wire, c, stxn[c].st, stxn[c].tag)
               \in [Call -> [Inst -> SUBSET Final]]
          /\ OnWire(wire, c, cache[c].st, cache[c].tag)
               \in [Call -> [Inst -> SUBSET Final]]
      BY Zenon, <2>1, WireOps DEF TypeOK
    <2> QED
      BY <2>2, Zenon DEF ReplayInvite
  <1>2. TypeOK'
    BY <1>1, ZeroAge, Zenon DEF ReplayInvite, Handled, TypeOK
  <1> QED
    BY <1>2, Zenon DEF ReplayInvite, TxnInv

\* Creating a transaction for a new INVITE keeps the types.
LEMMA RecvInviteType ==
  ASSUME IndType,
         NEW c \in Call, NEW src \in Src, RecvInvite(c, src)
  PROVE  IndType'
  <1> DEFINE t == NewServerTransaction(src, inst[c] + 1)
  <1>1. inst[c] + 1 \in Inst /\ 0 \in Age
    <2>1. inst[c] \in 0 .. MaxInst /\ inst[c] < MaxInst
      BY Zenon DEF RecvInvite, TypeOK
    <2> QED
      BY <2>1, Numbers DEF Inst, Age
  <1>2. t \in ServerTransaction /\ t.n = inst[c] + 1 /\ t.st = "none"
        /\ t.state = "Proceeding"
    BY <1>1, Numbers DEF NewServerTransaction, ServerTransaction,
      InviteServerState, Inst, Age
  <1>3. outbox' \in SUBSET Event
    BY <1>1, RequestOps, Zenon DEF RecvInvite
  <1>4. stxn' = [stxn EXCEPT ![c] = t] /\ inst' = [inst EXCEPT ![c] = @ + 1]
    BY Zenon DEF RecvInvite
  <1> HIDE DEF t
  <1>5. TypeOK'
    BY <1>1, <1>2, <1>3, <1>4 DEF RecvInvite, Handled, TypeOK, Inst
  <1>6. ASSUME NEW d \in Call PROVE TxnInv(d)'
    <2>1. CASE d = c
      <3>1. /\ stxn'[c] = t /\ inst'[c] = inst[c] + 1 /\ inst[c] \in Nat
            /\ cache'[c] = cache[c] /\ cache[c].tag \in Nat
        BY <1>4, Numbers DEF RecvInvite, TypeOK, CachedInviteFinal
      <3> QED
        BY <2>1, <3>1, <1>2 DEF TxnInv
    <2>2. CASE d # c
      BY <1>4, <2>2, Zenon DEF RecvInvite, TypeOK, TxnInv
    <2> QED
      BY <2>1, <2>2, Zenon
  <1> QED
    BY <1>5, <1>6, Zenon

\* An ACK of a 2xx keeps the types.
LEMMA RecvAck2xxType ==
  ASSUME IndType,
         NEW c \in Call, NEW n \in Inst, NEW src \in Src, RecvAck2xx(c, n, src)
  PROVE  IndType'
  <1> DEFINE t == on_ack(stxn[c])
  <1>1. /\ t \in ServerTransaction
        /\ \/ t = stxn[c]
           \/ /\ stxn[c].state \notin {"Absent", "Proceeding"}
              /\ t.state \notin {"Absent", "Proceeding"}
        /\ t.n = stxn[c].n /\ t.st = stxn[c].st /\ t.tag = stxn[c].tag
    BY OnAckOp, Zenon DEF TypeOK
  <1>2. stxn' = [stxn EXCEPT ![c] = t]
    BY Zenon DEF RecvAck2xx
  <1> HIDE DEF t
  <1>3. outbox' \in SUBSET Event
    BY RequestOps DEF RecvAck2xx
  <1>4. TypeOK'
    BY <1>1, <1>2, <1>3, ZeroAge DEF RecvAck2xx, Handled, TypeOK
  <1>5. ASSUME NEW d \in Call PROVE TxnInv(d)'
    BY <1>1, <1>2 DEF RecvAck2xx, TypeOK, TxnInv
  <1> QED
    BY <1>4, <1>5, Zenon

\* An ACK of a refusal keeps the types.
LEMMA RecvAckNon2xxType ==
  ASSUME IndType,
         NEW c \in Call, NEW src \in Src, RecvAckNon2xx(c, src)
  PROVE  IndType'
  <1> DEFINE t == on_ack(stxn[c])
  <1>1. /\ t \in ServerTransaction
        /\ \/ t = stxn[c]
           \/ /\ stxn[c].state \notin {"Absent", "Proceeding"}
              /\ t.state \notin {"Absent", "Proceeding"}
        /\ t.n = stxn[c].n /\ t.st = stxn[c].st /\ t.tag = stxn[c].tag
    BY OnAckOp, Zenon DEF TypeOK
  <1>2. stxn' = [stxn EXCEPT ![c] = t]
    BY Zenon DEF RecvAckNon2xx
  <1> HIDE DEF t
  <1>4. TypeOK'
    BY <1>1, <1>2, ZeroAge DEF RecvAckNon2xx, Handled, TypeOK
  <1>5. ASSUME NEW d \in Call PROVE TxnInv(d)'
    BY <1>1, <1>2 DEF RecvAckNon2xx, TypeOK, TxnInv
  <1> QED
    BY <1>4, <1>5

\* handle_cancel_request, with its 487, keeps the types.
LEMMA RecvCancelType ==
  ASSUME IndType,
         NEW c \in Call, NEW src \in Src, RecvCancel(c, src)
  PROVE  IndType'
  <1> DEFINE t == send_final(stxn[c], "487", stxn[c].n)
  <1>1. ntxn' \in [Call \cup Req -> NonInviteServerTransaction]
    BY RequestOps, Zenon DEF RecvCancel, TypeOK
  <1>2. CASE stxn[c].state = "Proceeding"
    <2>1. stxn[c].n \in Inst /\ stxn[c] \in ServerTransaction
      BY <1>2, Numbers DEF TypeOK, TxnInv, ServerTransaction, Inst
    <2>2. /\ t \in ServerTransaction
          /\ t.n = stxn[c].n /\ t.st = "487" /\ t.tag = stxn[c].n
          /\ t.state \notin {"Absent", "Proceeding"}
      <3>1. "487" \in Final
        BY Zenon DEF Final
      <3> QED
        BY <2>1, <3>1, SendFinalOp
    <2>3. wire' \in [Call -> [Inst -> SUBSET Final]]
      <3>1. OnWire(wire, c, "487", stxn[c].n) \in [Call -> [Inst -> SUBSET Final]]
        <4>1. "487" \in Final \cup {"none"}
          BY Zenon DEF Final
        <4> QED
          BY <4>1, WireOps, Zenon DEF TypeOK
      <3> QED
        BY <1>2, <3>1, Zenon DEF RecvCancel
    <2>4. outbox' \in SUBSET Event
      BY <1>2, <2>1, RequestOps DEF RecvCancel
    <2>5. stxn' = [stxn EXCEPT ![c] = t]
      BY <1>2, Zenon DEF RecvCancel
    <2>6. since' \in [Call \cup Req -> [tu: Age, cancel: Age]]
      <3>1. since' = [since EXCEPT ![c].cancel = 0]
        BY <1>2, Zenon DEF RecvCancel
      <3> QED
        BY Zenon, <3>1, SinceOps
    <2>9. UNCHANGED <<cache, events, inst, tu>> /\ sleep' = 0 /\ loop' = "select"
      BY Zenon DEF RecvCancel, Handled
    <2> HIDE DEF t
    <2>7. TypeOK'
      BY Zenon, <1>1, <2>2, <2>3, <2>4, <2>5, <2>6, <2>9, ZeroAge DEF TypeOK
    <2>8. ASSUME NEW d \in Call PROVE TxnInv(d)'
      BY <2>1, <2>2, <2>5, Numbers
        DEF RecvCancel, TypeOK, TxnInv, Inst
    <2> QED
      BY <2>7, <2>8
  <1>3. CASE stxn[c].state # "Proceeding"
    BY <1>1, <1>3, ZeroAge, Zenon DEF RecvCancel, Handled, TypeOK, TxnInv
  <1> QED
    BY <1>2, <1>3, Zenon

\* A non-INVITE request, new or repeated, keeps the types.
LEMMA RecvRequestType ==
  ASSUME IndType,
         NEW r \in Req, NEW src \in Src, RecvRequest(r, src)
  PROVE  IndType'
  <1>1. /\ ntxn' \in [Call \cup Req -> NonInviteServerTransaction]
        /\ outbox' \in SUBSET Event
    BY RequestOps, Zenon DEF RecvRequest, TypeOK
  <1>2. TypeOK'
    BY <1>1, ZeroAge, Zenon DEF RecvRequest, Handled, TypeOK
  <1> QED
    BY <1>2, Zenon DEF RecvRequest, TxnInv

\* One pass of handle_timers over all transactions keeps the types.
LEMMA TimerPassType ==
  ASSUME IndType,
         TimerPass
  PROVE  IndType'
  <1>1. stxn' = [c \in Call |-> TimerStep(stxn[c])]
    BY Zenon DEF TimerPass, TimerStep
  <1>2. stxn' \in [Call -> ServerTransaction]
    BY <1>1, TimerOps, Zenon DEF TypeOK
  <1>3. ntxn' \in [Call \cup Req -> NonInviteServerTransaction]
    <2>1. \A t \in NonInviteServerTransaction :
            [t EXCEPT !.state = "Terminated"] \in NonInviteServerTransaction
      BY Zenon DEF NonInviteServerTransaction
    <2>2. ntxn \in [Call \cup Req -> NonInviteServerTransaction]
      BY Zenon DEF TypeOK
    <2> QED
      BY <2>1, <2>2, Zenon DEF TimerPass
  <1>4. wire' \in [Call -> [Inst -> SUBSET Final]]
    <2>1. ASSUME NEW c \in Call, needs_retransmit(stxn[c])
          PROVE  [wire[c] EXCEPT ![stxn[c].tag] = @ \cup {stxn[c].st}]
                   \in [Inst -> SUBSET Final]
      <3>1. stxn[c].st \in Final
        BY Zenon, <2>1 DEF needs_retransmit, AwaitsAck, TypeOK, TxnInv,
          ServerTransaction
      <3>2. wire[c] \in [Inst -> SUBSET Final]
        BY Zenon DEF TypeOK
      <3> QED
        BY Zenon, <3>1, <3>2
    <2> QED
      BY <2>1, Zenon DEF TimerPass, TypeOK
  <1>5. outbox' \in SUBSET Event
    <2>1. ASSUME NEW c \in Call PROVE TimeoutEvents(c) \in SUBSET Event
      <3>1. CASE timer_h_expired(stxn[c])
        <4>1. stxn[c].n \in Inst /\ stxn[c].src \in Src
          BY <3>1, Numbers DEF timer_h_expired, AwaitsAck, TypeOK, TxnInv,
            ServerTransaction, Inst
        <4> QED
          BY <4>1, RequestOps DEF TimeoutEvents
      <3>2. CASE ~ timer_h_expired(stxn[c])
        BY <3>2, Zenon DEF TimeoutEvents
      <3> QED
        BY <3>1, <3>2, Zenon
    <2> QED
      BY <2>1, Zenon DEF TimerPass
  <1>6. TypeOK'
    BY <1>2, <1>3, <1>4, <1>5, Zenon DEF TimerPass, TypeOK
  <1>7. ASSUME NEW c \in Call PROVE TxnInv(c)'
    <2>1. stxn'[c] = TimerStep(stxn[c]) /\ stxn[c] \in ServerTransaction
      BY <1>1, Zenon DEF TypeOK
    <2> QED
      BY <2>1, TimerOps DEF TimerPass, TxnInv
  <1> QED
    BY <1>6, <1>7, Zenon

\* Removing terminated transactions keeps the types.
LEMMA ReapType ==
  ASSUME IndType,
         Reap
  PROVE  IndType'
  <1>1. TypeOK'
    BY EmptyEntries, ZeroAge, Zenon DEF Reap, Handled, TypeOK
  <1>2. ASSUME NEW c \in Call PROVE TxnInv(c)'
    <2>1. /\ NoServerTransaction.n = 0 /\ NoServerTransaction.st = "none"
          /\ NoServerTransaction.state = "Absent"
          /\ NoCachedFinal.tag = 0 /\ NoCachedFinal.st = "none"
      BY Zenon DEF NoServerTransaction, NoCachedFinal, NewServerTransaction
    <2>2. 0 <= inst[c]
      BY Numbers DEF TypeOK
    <2> QED
      BY <2>1, <2>2, Zenon DEF Reap, TxnInv
  <1> QED
    BY <1>1, <1>2

\* Handing an event to the TU keeps the types.
LEMMA DeliverEventType ==
  ASSUME IndType,
         DeliverEvent
  PROVE  IndType'
  <1> DEFINE e == Head(events)
  <1>1. e \in Event /\ events' \in Seq(Event)
    BY DEF DeliverEvent, TypeOK
  <1>2. e.kind = "IncomingInvite" => e.c \in Call /\ e.n \in Inst
    BY <1>1, Zenon DEF Event
  <1> HIDE DEF e
  <1>3. tu' \in [Call -> [Inst -> {"idle", "active", "done"} \cup TUFinal]]
    BY <1>2, Zenon DEF DeliverEvent, TypeOK, e
  <1>4. /\ ntxn' \in [Call \cup Req -> NonInviteServerTransaction]
        /\ since' \in [Call \cup Req -> [tu: Age, cancel: Age]]
    <2>1. CASE e.kind = "IncomingRequest" /\ e.c \in Answerable
      <3>1. record_non_invite_response(e.c, e.src) /\ e.c \in Call \cup Req
        BY <2>1, Sets, Zenon DEF DeliverEvent, e
      <3> QED
        <4>1. CASE MatchesNonInvite(e.c, e.src)
          <5>1. /\ ntxn' = [ntxn EXCEPT ![e.c] = complete(@, "200")]
                /\ since' = [since EXCEPT ![e.c].tu = 0]
            BY <3>1, <4>1, Zenon DEF record_non_invite_response
          <5>2. ntxn' \in [Call \cup Req -> NonInviteServerTransaction]
            BY Zenon, <5>1, RequestOps DEF TypeOK
          <5> QED
            BY Zenon, <3>1, <5>1, <5>2, SinceOps
        <4>2. CASE ~ MatchesNonInvite(e.c, e.src)
          BY <3>1, <4>2, Zenon DEF record_non_invite_response, TypeOK
        <4> QED
          BY <4>1, <4>2, Zenon
    <2>2. CASE ~ (e.kind = "IncomingRequest" /\ e.c \in Answerable)
      BY <2>2, Zenon DEF DeliverEvent, TypeOK, e
    <2> QED
      BY <2>1, <2>2, Zenon
  <1> QED
    BY Zenon, <1>1, <1>3, <1>4 DEF DeliverEvent, TypeOK, TxnInv

\* record_invite_final keeps the types.
LEMMA RecordFinalType ==
  ASSUME IndType,
         NEW c \in Call, NEW n \in Inst, NEW st \in TUFinal, record_invite_final(c, n, st)
  PROVE  IndType'
  <1>1. tu' \in [Call -> [Inst -> {"idle", "active", "done"} \cup TUFinal]]
    BY Zenon DEF record_invite_final, TypeOK
  <1>2. CASE MayRecord(c)
    <2> DEFINE t == send_final(stxn[c], st, n)
               e == [st |-> st, src |-> stxn[c].src, tag |-> n, age |-> 0]
    <2>1. /\ t \in ServerTransaction
          /\ t.n = stxn[c].n /\ t.st = st /\ t.tag = n
          /\ t.state \notin {"Absent", "Proceeding"}
      <3>1. st \in Final /\ stxn[c] \in ServerTransaction
        BY Zenon DEF Final, TypeOK
      <3> QED
        BY <3>1, SendFinalOp
    <2>2. e \in CachedInviteFinal /\ e.tag = n /\ e.st = st
      BY Numbers DEF CachedInviteFinal, TypeOK, ServerTransaction, Inst, Age
    <2>3. /\ stxn' = [stxn EXCEPT ![c] = t]
          /\ cache' = [cache EXCEPT ![c] = e]
      BY <1>2, Zenon DEF record_invite_final, MayRecord
    <2>4. since' \in [Call \cup Req -> [tu: Age, cancel: Age]]
      <3>1. since' = [since EXCEPT ![c].tu = 0]
        BY <1>2, Zenon DEF record_invite_final, MayRecord
      <3> QED
        BY Zenon, <3>1, SinceOps
    <2> HIDE DEF t, e
    <2>5. TypeOK'
      BY <1>1, <2>1, <2>2, <2>3, <2>4, Zenon DEF record_invite_final, TypeOK
    <2>6. ASSUME NEW d \in Call PROVE TxnInv(d)'
      <3>1. n >= 1 /\ st # "none"
        BY Numbers DEF Inst, TUFinal
      <3> QED
        <4>1. inst' = inst /\ TxnInv(d)
          BY Zenon DEF record_invite_final
        <4>2. CASE d = c
          <5>1. stxn'[d] = t /\ cache'[d] = e
            BY <4>2, <2>3, Zenon DEF TypeOK
          <5> QED
            BY <1>2, <4>1, <4>2, <5>1, <2>1, <2>2, <3>1, Zenon DEF TxnInv, MayRecord
        <4>3. CASE d # c
          <5>1. stxn'[d] = stxn[d] /\ cache'[d] = cache[d]
            BY <4>3, <2>3, Zenon DEF TypeOK
          <5> QED
            BY <4>1, <5>1, Zenon DEF TxnInv
        <4> QED
          BY <4>2, <4>3, Zenon
    <2> QED
      BY <2>5, <2>6, Zenon
  <1>3. CASE ~ MayRecord(c)
    BY <1>1, <1>3 DEF record_invite_final, TypeOK, TxnInv
  <1> QED
    BY <1>2, <1>3, Zenon

\* Sending the recorded final keeps the types.
LEMMA SendFinalType ==
  ASSUME IndType,
         NEW c \in Call, NEW n \in Inst, SendFinal(c, n)
  PROVE  IndType'
  <1>1. wire' \in [Call -> [Inst -> SUBSET Final]]
    <2>1. tu[c][n] \in Final \cup {"none"}
      BY Zenon DEF SendFinal, Final
    <2>2. OnWire(wire, c, tu[c][n], n) \in [Call -> [Inst -> SUBSET Final]]
      BY <2>1, WireOps, Zenon DEF TypeOK
    <2> QED
      BY <2>2, Zenon DEF SendFinal, TypeOK
  <1> QED
    BY Zenon, <1>1 DEF SendFinal, TypeOK, TxnInv

\* The passing of time keeps the types.
LEMMA TickType ==
  ASSUME IndType,
         Tick
  PROVE  IndType'
  <1>1. stxn' = [c \in Call |-> Aged(stxn[c])]
    BY Zenon DEF Tick, Aged
  <1>2. stxn' \in [Call -> ServerTransaction]
    BY <1>1, TimerOps, Zenon DEF TypeOK
  <1>3. \A a \in Age : Older(a) \in Age
    BY Numbers DEF Age, Older
  <1> HIDE DEF Older
  <1>4. /\ ntxn' \in [Call \cup Req -> NonInviteServerTransaction]
        /\ cache' \in [Call -> CachedInviteFinal]
        /\ since' \in [Call \cup Req -> [tu: Age, cancel: Age]]
    <2>1. ntxn' \in [Call \cup Req -> NonInviteServerTransaction]
      <3>1. \A t \in NonInviteServerTransaction, a \in Age :
              [t EXCEPT !.completed = a] \in NonInviteServerTransaction
        BY Zenon DEF NonInviteServerTransaction
      <3>2. \A q \in Call \cup Req : /\ ntxn[q] \in NonInviteServerTransaction
                                     /\ ntxn[q].completed \in Age
        BY Zenon DEF TypeOK, NonInviteServerTransaction
      <3> QED
        BY Zenon, <1>3, <3>1, <3>2 DEF Tick
    <2>2. cache' \in [Call -> CachedInviteFinal]
      <3>1. \A t \in CachedInviteFinal, a \in Age :
              [t EXCEPT !.age = a] \in CachedInviteFinal
        BY Zenon DEF CachedInviteFinal
      <3>2. \A c \in Call : cache[c] \in CachedInviteFinal /\ cache[c].age \in Age
        BY Zenon DEF TypeOK, CachedInviteFinal
      <3> QED
        BY Zenon, <1>3, <3>1, <3>2 DEF Tick
    <2>3. since' \in [Call \cup Req -> [tu: Age, cancel: Age]]
      BY Zenon, <1>3 DEF Tick, TypeOK
    <2> QED
      BY <2>1, <2>2, <2>3, Zenon
  <1>5. sleep' \in Age
    <2>1. /\ sleep \in Nat /\ sleep <= MaxAge
          /\ TimerInterval \in Nat /\ TimerInterval <= MaxAge /\ MaxAge \in Nat
      BY Numbers DEF TypeOK, Age
    <2>2. sleep' = sleep \/ sleep' = Least(sleep + 1, TimerInterval)
      BY Zenon DEF Tick
    <2> QED
      BY <2>1, <2>2 DEF Least, Age
  <1>6. TypeOK'
    BY Zenon, <1>2, <1>4, <1>5 DEF Tick, TypeOK
  <1>7. ASSUME NEW c \in Call PROVE TxnInv(c)'
    <2>1. stxn'[c] = Aged(stxn[c]) /\ stxn[c] \in ServerTransaction
      BY <1>1 DEF TypeOK
    <2>2. cache'[c].tag = cache[c].tag /\ cache'[c].st = cache[c].st
      BY Zenon DEF Tick, TypeOK, CachedInviteFinal
    <2> QED
      <3>1. /\ stxn'[c].n = stxn[c].n /\ stxn'[c].st = stxn[c].st
            /\ stxn'[c].tag = stxn[c].tag /\ stxn'[c].state = stxn[c].state
        BY <2>1, TimerOps
      <3> QED
        BY Zenon, <3>1, <2>2 DEF Tick, TxnInv
  <1> QED
    BY <1>6, <1>7

\* Every step of the layer preserves the invariant.
LEMMA StepType == IndType /\ [Next]_vars => IndType'
  <1> SUFFICES ASSUME IndType, [Next]_vars PROVE IndType'
    BY Zenon
  <1>1. CASE RecvAbsorbed
    BY <1>1, ZeroAge, Zenon DEF RecvAbsorbed, Handled, TypeOK, TxnInv
  <1>2. CASE EmitEvent
    BY <1>2 DEF EmitEvent, TypeOK, TxnInv
  <1>3. CASE UNCHANGED vars
    BY <1>3, Zenon DEF vars, TypeOK, TxnInv
  <1>4. CASE Datagram
    BY <1>1, <1>4, ReplayInviteType, RecvInviteType, RecvAck2xxType,
      RecvAckNon2xxType, RecvCancelType, RecvRequestType, Zenon DEF Datagram
  <1>5. CASE TUAction
    BY <1>5, DeliverEventType, RecordFinalType, SendFinalType, Zenon DEF TUAction
  <1> QED
    BY <1>2, <1>3, <1>4, <1>5, TimerPassType, ReapType, TickType, Zenon DEF Next

HIDE DEF IndType

\* Every value of the server's maps, queues and histories keeps its type,
\* and a transaction past Proceeding always has a final response to replay
\* (send_final, on_ack, expire_timers, record_invite_final).
THEOREM TypeCorrect == Spec => []TypeOK
  <1>1. Spec => []IndType
    BY InitType, StepType, PTL DEF Spec
  <1>2. IndType => TypeOK
    BY Zenon DEF IndType
  <1> QED
    BY <1>1, <1>2, PTL

-----------------------------------------------------------------------------
(* No second delivery: what the TU settled is absorbed.                     *)

\* As long as an answer of the TU is young, something younger than it still
\* holds it: the cache for an INVITE, the transaction for another request.
Settled ==
  /\ \A c \in Call : since[c].tu < TIMER_H =>
       cache[c].st # "none" /\ cache[c].age <= since[c].tu
  /\ \A r \in Req : since[r].tu < TIMER_J =>
       ntxn[r].state = "Completed" /\ ntxn[r].completed <= since[r].tu

\* Ages, and the timers they are compared with, are numbers.
LEMMA Ages ==
  ASSUME TypeOK
  PROVE  /\ \A q \in Call \cup Req : since[q].tu \in Nat /\ since[q].tu <= MaxAge
         /\ \A c \in Call : cache[c].age \in Nat
         /\ \A q \in Call \cup Req : ntxn[q].completed \in Nat
         /\ MaxAge \in Nat /\ TIMER_H \in Nat /\ TIMER_H >= 1 /\ TIMER_H <= MaxAge
         /\ TIMER_J \in Nat /\ TIMER_J >= 1 /\ TIMER_J <= MaxAge
  <1>1. /\ MaxAge \in Nat /\ TIMER_H \in Nat /\ TIMER_H >= 1 /\ TIMER_H <= MaxAge
        /\ TIMER_J \in Nat /\ TIMER_J >= 1 /\ TIMER_J <= MaxAge
    BY Durations
  <1>2. \A q \in Call \cup Req : since[q].tu \in Age /\ ntxn[q].completed \in Age
    BY Zenon DEF TypeOK, NonInviteServerTransaction
  <1>3. \A c \in Call : cache[c].age \in Age
    BY Zenon DEF TypeOK, CachedInviteFinal
  <1> QED BY <1>1, <1>2, <1>3 DEF Age

\* Nothing has been answered yet.
LEMMA InitSettled == Init => Settled
  BY Durations DEF Init, Settled

\* A step that forgets nothing the TU settled keeps it settled.
LEMMA StaysSettled ==
  ASSUME TypeOK, Settled,
         \A c \in Call : \/ since'[c].tu = since[c].tu /\ cache'[c] = cache[c]
                         \/ since'[c].tu = 0 /\ cache'[c].st # "none" /\ cache'[c].age = 0,
         \A r \in Req : \/ since'[r].tu = since[r].tu /\ ntxn'[r] = ntxn[r]
                        \/ since'[r].tu = since[r].tu /\ since[r].tu >= TIMER_J
                        \/ /\ since'[r].tu = 0 /\ ntxn'[r].state = "Completed"
                           /\ ntxn'[r].completed = 0
  PROVE  Settled'
  <1>1. ASSUME NEW c \in Call, since'[c].tu < TIMER_H
        PROVE  cache'[c].st # "none" /\ cache'[c].age <= since'[c].tu
    BY <1>1 DEF Settled
  <1>2. ASSUME NEW r \in Req, since'[r].tu < TIMER_J
        PROVE  ntxn'[r].state = "Completed" /\ ntxn'[r].completed <= since'[r].tu
    BY <1>2, Ages DEF Settled
  <1> QED BY <1>1, <1>2, Zenon DEF Settled

\* Every step keeps what the TU settled, as long as requests come from one
\* address.
LEMMA StepSettled ==
  ASSUME NEW s, Src = {s}, TypeOK, Settled, [Next]_vars
  PROVE  Settled'
  <1>1. CASE UNCHANGED <<cache, since>> /\ \A r \in Req : ntxn'[r] = ntxn[r]
    BY <1>1, StaysSettled, Zenon
  <1>2. ASSUME NEW c \in Call, NEW src \in Src, RecvCancel(c, src) PROVE Settled'
    <2>1. \A r \in Req : ntxn'[r] = ntxn[r]
      BY <1>2, Sets, Zenon DEF RecvCancel, TypeOK
    <2>2. \A q \in Call \cup Req : since'[q].tu = since[q].tu
      <3>1. since' = since \/ since' = [since EXCEPT ![c].cancel = 0]
        BY <1>2, Zenon DEF RecvCancel
      <3>2. since \in [Call \cup Req -> [tu: Age, cancel: Age]]
        BY Zenon DEF TypeOK
      <3> QED BY <3>1, <3>2
    <2>3. UNCHANGED cache
      BY <1>2, Zenon DEF RecvCancel
    <2> QED BY <2>1, <2>2, <2>3, StaysSettled, Zenon
  <1>3. ASSUME NEW r \in Req, NEW src \in Src, RecvRequest(r, src) PROVE Settled'
    <2>1. UNCHANGED <<cache, since>> /\ \A q \in Req \ {r} : ntxn'[q] = ntxn[q]
      BY <1>3, Zenon DEF RecvRequest, TypeOK
    <2>2. ntxn[r].state = "Absent"
      BY <1>3, ZenonT(60) DEF RecvRequest, MatchesNonInvite, TypeOK, NonInviteServerTransaction
    <2>3. since[r].tu >= TIMER_J
      BY <2>2, Ages DEF Settled
    <2> QED BY <2>1, <2>3, StaysSettled, Zenon
  <1>4. CASE TimerPass
    <2>1. UNCHANGED <<cache, since>>
      BY <1>4, Zenon DEF TimerPass
    <2>2. ASSUME NEW r \in Req PROVE ntxn'[r] = ntxn[r] \/ since[r].tu >= TIMER_J
      <3>1. ntxn'[r] = ntxn[r] \/ timer_j_expired(ntxn[r])
        BY <1>4, Zenon DEF TimerPass
      <3>2. timer_j_expired(ntxn[r]) => since[r].tu >= TIMER_J
        BY Ages DEF timer_j_expired, Settled
      <3> QED BY <3>1, <3>2, Zenon
    <2> QED BY <2>1, <2>2, StaysSettled, Zenon
  <1>5. CASE Reap
    <2>1. UNCHANGED since
      BY <1>5, Zenon DEF Reap
    <2>2. ASSUME NEW c \in Call, since'[c].tu < TIMER_H
          PROVE  cache'[c].st # "none" /\ cache'[c].age <= since'[c].tu
      <3>1. cache[c].st # "none" /\ cache[c].age <= since[c].tu /\ cache[c].age < TIMER_H
        BY <2>1, <2>2, Ages DEF Settled
      <3>2. cache'[c] = cache[c]
        BY <1>5, <3>1, Ages DEF Reap
      <3> QED BY <2>1, <3>1, <3>2
    <2>3. ASSUME NEW r \in Req, since'[r].tu < TIMER_J
          PROVE  ntxn'[r].state = "Completed" /\ ntxn'[r].completed <= since'[r].tu
      <3>1. ntxn[r].state = "Completed" /\ ntxn[r].completed <= since[r].tu
        BY <2>1, <2>3, Zenon DEF Settled
      <3>2. ntxn'[r] = ntxn[r]
        BY <1>5, <3>1, Zenon DEF Reap
      <3> QED BY <2>1, <3>1, <3>2, Zenon
    <2> QED BY <2>2, <2>3, Zenon DEF Settled
  <1>6. CASE DeliverEvent
    <2>1. UNCHANGED cache
      BY <1>6, Zenon DEF DeliverEvent
    <2>2. \/ UNCHANGED <<ntxn, since>>
          \/ \E r \in Req : /\ ntxn' = [ntxn EXCEPT ![r] = complete(@, "200")]
                            /\ since' = [since EXCEPT ![r].tu = 0]
      <3>1. \/ UNCHANGED <<ntxn, since>>
            \/ \E r \in Answerable : /\ ntxn' = [ntxn EXCEPT ![r] = complete(@, "200")]
                                     /\ since' = [since EXCEPT ![r].tu = 0]
        BY <1>6, Zenon DEF DeliverEvent, record_non_invite_response
      <3> QED BY <3>1, Sets, Zenon
    <2>3. CASE UNCHANGED <<ntxn, since>>
      BY <2>1, <2>3, StaysSettled, Zenon
    <2>4. ASSUME NEW r \in Req, ntxn' = [ntxn EXCEPT ![r] = complete(@, "200")],
                 since' = [since EXCEPT ![r].tu = 0]
          PROVE  Settled'
      <3>1. /\ ntxn \in [Call \cup Req -> NonInviteServerTransaction]
            /\ since \in [Call \cup Req -> [tu: Age, cancel: Age]]
        BY Zenon DEF TypeOK
      <3>2. /\ since'[r].tu = 0 /\ ntxn'[r].state = "Completed" /\ ntxn'[r].completed = 0
        BY <2>4, <3>1 DEF complete, NonInviteServerTransaction
      <3>3. \A q \in Call \cup Req : q # r => since'[q] = since[q] /\ ntxn'[q] = ntxn[q]
        BY <2>4, <3>1, Zenon
      <3> QED BY <2>1, <3>2, <3>3, Sets, StaysSettled, Zenon
    <2> QED BY <2>2, <2>3, <2>4, Zenon
  <1>7. ASSUME NEW c \in Call, NEW n \in Inst, NEW st \in TUFinal, record_invite_final(c, n, st)
        PROVE  Settled'
    <2>1. UNCHANGED ntxn
      BY <1>7, Zenon DEF record_invite_final
    <2>2. \/ UNCHANGED <<cache, since>>
          \/ /\ cache' = [cache EXCEPT ![c] =
                            [st |-> st, src |-> stxn[c].src, tag |-> n, age |-> 0]]
             /\ since' = [since EXCEPT ![c].tu = 0]
      BY <1>7, Zenon DEF record_invite_final
    <2>3. CASE UNCHANGED <<cache, since>>
      BY <2>1, <2>3, StaysSettled, Zenon
    <2>4. CASE /\ cache' = [cache EXCEPT ![c] =
                              [st |-> st, src |-> stxn[c].src, tag |-> n, age |-> 0]]
               /\ since' = [since EXCEPT ![c].tu = 0]
      <3>1. cache \in [Call -> CachedInviteFinal] /\ since \in [Call \cup Req -> [tu: Age, cancel: Age]]
        BY Zenon DEF TypeOK
      <3>2. since'[c].tu = 0 /\ cache'[c].st # "none" /\ cache'[c].age = 0
        BY <1>7, <2>4, <3>1, Zenon DEF TUFinal
      <3>3. \A q \in Call \cup Req : q # c => since'[q] = since[q]
        BY <2>4, <3>1, Zenon
      <3>4. \A d \in Call \ {c} : cache'[d] = cache[d]
        BY <2>4, <3>1, Zenon
      <3> QED BY <2>1, <3>2, <3>3, <3>4, Sets, StaysSettled, Zenon
    <2> QED BY <2>2, <2>3, <2>4, Zenon
  <1>8. CASE Tick
    <2>1. ASSUME NEW q \in Call \cup Req PROVE since'[q].tu = Older(since[q].tu)
      BY <1>8, Zenon DEF Tick
    <2>2. ASSUME NEW c \in Call, since'[c].tu < TIMER_H
          PROVE  cache'[c].st # "none" /\ cache'[c].age <= since'[c].tu
      <3>1. since[c].tu < TIMER_H /\ since'[c].tu = since[c].tu + 1
        BY <2>1, <2>2, Ages DEF Older
      <3>2. cache[c].st # "none" /\ cache[c].age <= since[c].tu
        BY <3>1, Zenon DEF Settled
      <3>3. cache'[c] = [cache[c] EXCEPT !.age = Older(@)] /\ cache[c] \in CachedInviteFinal
        BY <1>8, <3>2, Zenon DEF Tick, TypeOK
      <3>4. cache'[c].st = cache[c].st /\ cache'[c].age = Older(cache[c].age)
        BY <3>3, Zenon DEF CachedInviteFinal
      <3> QED BY <3>1, <3>2, <3>4, Ages DEF Older
    <2>3. ASSUME NEW r \in Req, since'[r].tu < TIMER_J
          PROVE  ntxn'[r].state = "Completed" /\ ntxn'[r].completed <= since'[r].tu
      <3>1. since[r].tu < TIMER_J /\ since'[r].tu = since[r].tu + 1
        BY <2>1, <2>3, Ages DEF Older
      <3>2. ntxn[r].state = "Completed" /\ ntxn[r].completed <= since[r].tu
        BY <3>1, Zenon DEF Settled
      <3>3. /\ ntxn'[r] = [ntxn[r] EXCEPT !.completed = Older(@)]
            /\ ntxn[r] \in NonInviteServerTransaction
        BY <1>8, <3>2, Zenon DEF Tick, TypeOK
      <3>4. ntxn'[r].state = ntxn[r].state /\ ntxn'[r].completed = Older(ntxn[r].completed)
        BY <3>3, Zenon DEF NonInviteServerTransaction
      <3> QED BY <3>1, <3>2, <3>4, Ages DEF Older
    <2> QED BY <2>2, <2>3 DEF Settled
  <1>9. ASSUME NEW c \in Call, NEW src \in Src,
               \/ ReplayInvite(c, src) \/ RecvInvite(c, src) \/ RecvAckNon2xx(c, src)
               \/ \E n \in Inst : RecvAck2xx(c, n, src)
        PROVE  Settled'
    BY <1>1, <1>9, Zenon DEF ReplayInvite, RecvInvite, RecvAckNon2xx, RecvAck2xx
  <1>10. CASE RecvAbsorbed \/ EmitEvent \/ UNCHANGED vars
    BY <1>1, <1>10, Zenon DEF RecvAbsorbed, EmitEvent, vars
  <1>11. ASSUME NEW c \in Call, NEW n \in Inst, SendFinal(c, n) PROVE Settled'
    BY <1>1, <1>11, Zenon DEF SendFinal
  <1> QED
    BY <1>2, <1>3, <1>4, <1>5, <1>6, <1>7, <1>8, <1>9, <1>10, <1>11, Zenon
    DEF Next, Datagram, TUAction

\* A step creates a session only when its INVITE finds neither transaction nor
\* cached answer, and a request only when it finds no transaction.
LEMMA NewIsUnsettled ==
  ASSUME NEW s, Src = {s}, TypeOK, Settled, [Next]_vars
  PROVE  /\ \A c \in Call : inst'[c] # inst[c] => since[c].tu >= TIMER_H
         /\ \A r \in Req : ntxn'[r].state = "Trying" /\ ntxn[r].state # "Trying"
                             => since[r].tu >= TIMER_J
  <1>1. ASSUME NEW c \in Call, inst'[c] # inst[c] PROVE since[c].tu >= TIMER_H
    <2>1. PICK d \in Call, src \in Src : RecvInvite(d, src)
      BY ZenonT(60), <1>1 DEF Next, Datagram, TUAction, ReplayInvite, RecvCancel, RecvAck2xx,
        RecvAckNon2xx, RecvRequest, RecvAbsorbed, EmitEvent, Reap, DeliverEvent,
        record_invite_final, SendFinal, TimerPass, Tick, vars
    <2>2. d = c
      BY <1>1, <2>1, Zenon DEF RecvInvite, TypeOK
    <2>3. cache[c].st = "none" \/ cache[c].age >= TIMER_H
      BY <2>1, <2>2, Ages, SMTT(30) DEF RecvInvite, CacheHit, TypeOK, CachedInviteFinal
    <2> QED BY <2>3, Ages DEF Settled
  <1>2. ASSUME NEW r \in Req, ntxn'[r].state = "Trying", ntxn[r].state # "Trying"
        PROVE  since[r].tu >= TIMER_J
    <2>1. \/ \E src \in Src : RecvRequest(r, src)
          \/ ntxn'[r].state # "Trying" \/ ntxn'[r].state = ntxn[r].state
      <3>1. CASE UNCHANGED ntxn
        BY <3>1, Zenon
      <3>2. ASSUME NEW c \in Call, NEW src \in Src, RecvCancel(c, src)
            PROVE  ntxn'[r] = ntxn[r]
        BY <3>2, Sets, Zenon DEF RecvCancel, TypeOK
      <3>3. ASSUME NEW q \in Req, NEW src \in Src, RecvRequest(q, src), q # r
            PROVE  ntxn'[r] = ntxn[r]
        BY <3>3, Zenon DEF RecvRequest, TypeOK
      <3>4. CASE TimerPass
        <4>1. ntxn'[r] = IF timer_j_expired(ntxn[r])
                         THEN [ntxn[r] EXCEPT !.state = "Terminated"] ELSE ntxn[r]
          BY <3>4, Zenon DEF TimerPass
        <4> QED BY <4>1, Zenon DEF TypeOK, NonInviteServerTransaction
      <3>5. CASE Reap
        <4>1. ntxn'[r] = ntxn[r] \/ ntxn'[r] = NoNonInvite
          BY <3>5, Zenon DEF Reap
        <4> QED BY <4>1, Zenon DEF NoNonInvite, NewNonInvite
      <3>6. CASE DeliverEvent
        <4>1. ntxn' = ntxn \/ \E q : ntxn' = [ntxn EXCEPT ![q] = complete(@, "200")]
          BY <3>6, Zenon DEF DeliverEvent, record_non_invite_response
        <4>2. ASSUME NEW t \in NonInviteServerTransaction
              PROVE  complete(t, "200").state = "Completed"
          BY Zenon DEF complete, NonInviteServerTransaction
        <4> QED BY <4>1, <4>2, Zenon DEF TypeOK
      <3>7. CASE Tick
        <4>1. ntxn'[r] = [ntxn[r] EXCEPT !.completed =
                            IF ntxn[r].state = "Completed" THEN Older(@) ELSE @]
          BY <3>7, Zenon DEF Tick
        <4> QED BY <4>1 DEF TypeOK, NonInviteServerTransaction
      <3>8. CASE \/ \E c \in Call, src \in Src :
                      \/ ReplayInvite(c, src) \/ RecvInvite(c, src) \/ RecvAckNon2xx(c, src)
                      \/ \E n \in Inst : RecvAck2xx(c, n, src)
                 \/ RecvAbsorbed \/ EmitEvent \/ UNCHANGED vars
                 \/ \E c \in Call, n \in Inst : \/ SendFinal(c, n)
                      \/ \E st \in TUFinal : record_invite_final(c, n, st)
        BY <3>1, <3>8, ZenonT(60) DEF ReplayInvite, RecvInvite, RecvAckNon2xx, RecvAck2xx,
          RecvAbsorbed, EmitEvent, vars, SendFinal, record_invite_final
      <3> QED BY <3>2, <3>3, <3>4, <3>5, <3>6, <3>7, <3>8, ZenonT(60) DEF Next, Datagram, TUAction
    <2>2. \E src \in Src : RecvRequest(r, src)
      BY <1>2, <2>1, Zenon
    <2>3. ntxn[r].state = "Absent"
      BY <2>2, Zenon DEF RecvRequest, MatchesNonInvite, TypeOK, NonInviteServerTransaction
    <2> QED BY <2>3, Ages DEF Settled
  <1> QED BY <1>1, <1>2, Zenon

\* A retransmission never reaches the TU as a new call, or as a new request,
\* while the answer the TU gave it is younger than Timer H, or J, for a peer
\* that keeps its address (matched_retransmission, invite_final_cache).
THEOREM NothingDeliveredTwice ==
  ASSUME NEW s, Src = {s}
  PROVE  Spec => NoSecondDelivery
  <1> DEFINE Quiet ==
        /\ \A c \in Call : inst'[c] # inst[c] => since[c].tu >= TIMER_H
        /\ \A r \in Req : ntxn'[r].state = "Trying" /\ ntxn[r].state # "Trying"
                            => since[r].tu >= TIMER_J
  <1>1. Spec => []TypeOK
    BY TypeCorrect, Zenon
  <1>2. Init => Settled
    BY InitSettled, Zenon
  <1>3. TypeOK /\ Settled /\ [Next]_vars => Settled'
    BY StepSettled, Zenon
  <1>4. TypeOK /\ Settled /\ [Next]_vars => [Quiet]_vars
    BY NewIsUnsettled, Zenon
  <1> HIDE DEF Quiet
  <1>5. Spec => [][Quiet]_vars
    BY <1>1, <1>2, <1>3, <1>4, PTL DEF Spec
  <1> QED
    BY <1>5, Zenon DEF Quiet, NoSecondDelivery

-----------------------------------------------------------------------------
(* Event order: a session is announced before anything else about it.       *)

About(e, c, n) == e.c = c /\ e.n = n
Announces(e, c, n) == e.kind = "IncomingInvite" /\ About(e, c, n)
Queue == 1 .. Len(events)

\* Tags and the TU know only sessions that were created.
Known ==
  \A c \in Call : /\ stxn[c].tag <= inst[c]
                  /\ \A n \in Inst : tu[c][n] # "idle" => n <= inst[c]

\* Nothing is said about a session that does not exist yet,
Unheard ==
  \A c \in Call, n \in Inst : n > inst[c] =>
    /\ \A e \in outbox : ~ About(e, c, n)
    /\ \A i \in Queue : ~ About(events[i], c, n)

\* nor while its announcement waits to be emitted, alone.
First ==
  \A e \in outbox : e.kind = "IncomingInvite" =>
    outbox = {e} /\ \A i \in Queue : ~ About(events[i], e.c, e.n)

\* A session waits to be announced, or the queue announces it before it says
\* anything else about it, or the TU has heard of it.
Queued(c, n) ==
  \E i \in Queue : /\ Announces(events[i], c, n)
                   /\ \A j \in Queue : j < i => ~ About(events[j], c, n)

Announced ==
  \A c \in Call, n \in Inst : n <= inst[c] =>
    \/ \E e \in outbox : Announces(e, c, n)
    \/ tu[c][n] # "idle"
    \/ Queued(c, n)

OrderInv == Known /\ Unheard /\ First /\ Announced

\* No session, and nothing said.
LEMMA InitOrder == Init => OrderInv
  <1> SUFFICES ASSUME Init PROVE OrderInv
    OBVIOUS
  <1>1. outbox = {} /\ Queue = {}
    BY DEF Init, Queue
  <1>2. \A c \in Call : inst[c] = 0 /\ stxn[c].tag = 0 /\ \A n \in Inst : tu[c][n] = "idle"
    BY Zenon DEF Init, NoServerTransaction, NewServerTransaction
  <1>3. \A n \in Inst : n \in Nat /\ n >= 1
    BY Numbers DEF Inst
  <1>4. Known
    BY <1>2 DEF Known
  <1>5. Announced
    BY <1>2, <1>3 DEF Announced
  <1> QED BY <1>1, <1>4, <1>5, Zenon DEF OrderInv, Unheard, First

\* Sessions are counted in numbers.
LEMMA Counts ==
  ASSUME TypeOK
  PROVE  /\ \A c \in Call : inst[c] \in Nat
         /\ \A n \in Inst : n \in Nat /\ n >= 1
         /\ \A c \in Call : stxn[c] \in ServerTransaction /\ stxn[c].tag \in Nat
         /\ Len(events) \in Nat
  BY Numbers DEF TypeOK, ServerTransaction, Inst

\* A step that says nothing keeps the order of what was said.
LEMMA SilentOrder ==
  ASSUME OrderInv, Known', UNCHANGED <<outbox, events, inst>>,
         \A c \in Call, n \in Inst : tu[c][n] # "idle" => tu'[c][n] # "idle"
  PROVE  OrderInv'
  <1>1. Queue' = Queue /\ \A c, n : Queued(c, n) <=> Queued(c, n)'
    BY ZenonT(60) DEF Queue, Queued
  <1>2. Unheard' /\ First'
    BY <1>1, Zenon DEF OrderInv, Unheard, First
  <1>3. Announced'
    BY <1>1, Zenon DEF OrderInv, Announced
  <1> QED BY <1>2, <1>3, Zenon DEF OrderInv

\* A handler may speak of the sessions that exist.
LEMMA SpokenOrder ==
  ASSUME TypeOK, OrderInv, Known', outbox = {}, UNCHANGED <<events, inst, tu>>,
         \A e \in outbox' : /\ e.kind # "IncomingInvite"
                            /\ \A c \in Call, n \in Inst : About(e, c, n) => n <= inst[c]
  PROVE  OrderInv'
  <1>1. Queue' = Queue /\ \A c, n : Queued(c, n) <=> Queued(c, n)'
    BY Zenon DEF Queue, Queued
  <1>2. Unheard'
    BY <1>1, Counts DEF OrderInv, Unheard
  <1>3. First' /\ Announced'
    BY <1>1, Zenon DEF OrderInv, First, Announced
  <1> QED BY <1>2, <1>3, Zenon DEF OrderInv

\* Tags and the TU keep to the sessions that exist.
LEMMA StepKnown ==
  ASSUME IndType, OrderInv, [Next]_vars
  PROVE  Known'
  <1> USE DEF IndType
  <1>1. ASSUME UNCHANGED <<inst, tu>>,
               \A c \in Call : stxn'[c].tag \in {0, stxn[c].tag, stxn[c].n}
        PROVE  Known'
    <2>1. \A c \in Call : stxn[c].n <= inst[c] /\ 0 <= inst[c]
      BY Counts DEF TxnInv
    <2> QED BY <1>1, <2>1, Zenon DEF OrderInv, Known
  <1>2. ASSUME UNCHANGED <<inst, tu, stxn>> PROVE Known'
    BY <1>2, Zenon DEF OrderInv, Known
  <1>3. ASSUME NEW c \in Call, NEW src \in Src, RecvInvite(c, src) PROVE Known'
    <2>1. /\ stxn'[c].tag = 0 /\ inst'[c] = inst[c] + 1 /\ UNCHANGED tu
          /\ \A d \in Call \ {c} : stxn'[d] = stxn[d] /\ inst'[d] = inst[d]
      BY <1>3, Zenon DEF RecvInvite, NewServerTransaction, TypeOK
    <2>2. \A x, y \in Nat : 0 <= y /\ (x <= y => x <= y + 1)
      OBVIOUS
    <2>3. ASSUME NEW d \in Call
          PROVE  /\ stxn'[d].tag <= inst'[d]
                 /\ \A n \in Inst : n <= inst[d] => n <= inst'[d]
      <3>1. inst[d] \in Nat /\ stxn[d].tag \in Nat /\ \A n \in Inst : n \in Nat
        BY Counts, Zenon
      <3>2. stxn[d].tag <= inst[d]
        BY Zenon DEF OrderInv, Known
      <3>3. CASE d = c
        BY <2>1, <2>2, <3>1, <3>3
      <3>4. CASE d # c
        BY <2>1, <3>2, <3>4, Zenon
      <3> QED BY <3>3, <3>4, Zenon
    <2> QED BY <2>1, <2>3, Zenon DEF OrderInv, Known
  <1>4. ASSUME NEW c \in Call, stxn' = [stxn EXCEPT ![c] = on_ack(@)], UNCHANGED <<inst, tu>>
        PROVE  Known'
    <2>1. \A d \in Call : stxn'[d].tag = stxn[d].tag
      BY <1>4, Counts, OnAckOp DEF TypeOK
    <2> QED BY <1>1, <1>4, <2>1, Zenon
  <1>5. ASSUME NEW c \in Call, NEW src \in Src, RecvCancel(c, src) PROVE Known'
    <2>1. UNCHANGED <<inst, tu>>
      BY <1>5, Zenon DEF RecvCancel
    <2>2. CASE stxn' = stxn
      BY <1>2, <2>1, <2>2, Zenon
    <2>3. CASE stxn' # stxn
      <3>1. stxn' = [stxn EXCEPT ![c] = send_final(@, "487", stxn[c].n)]
        BY <1>5, <2>3, Zenon DEF RecvCancel
      <3>2. send_final(stxn[c], "487", stxn[c].n).tag = stxn[c].n
        BY Counts, Zenon DEF send_final, ServerTransaction
      <3>3. \A d \in Call : stxn'[d].tag \in {stxn[d].tag, stxn[d].n}
        BY <3>1, <3>2, Zenon DEF TypeOK
      <3> QED BY <1>1, <2>1, <3>3, Zenon
    <2> QED BY <2>2, <2>3, Zenon
  <1>6. CASE TimerPass
    <2>1. stxn' = [c \in Call |-> TimerStep(stxn[c])] /\ UNCHANGED <<inst, tu>>
      BY <1>6, ZenonT(60) DEF TimerPass, TimerStep
    <2>2. \A c \in Call : stxn'[c].tag = stxn[c].tag
      BY <2>1, Counts, TimerOps, Zenon
    <2> QED BY <1>1, <2>1, <2>2, Zenon
  <1>7. CASE Reap
    <2>1. /\ \A c \in Call : stxn'[c] = stxn[c] \/ stxn'[c] = NoServerTransaction
          /\ UNCHANGED <<inst, tu>>
      BY <1>7, Zenon DEF Reap
    <2>2. NoServerTransaction.tag = 0
      BY Zenon DEF NoServerTransaction, NewServerTransaction
    <2>3. \A c \in Call : stxn'[c].tag \in {0, stxn[c].tag, stxn[c].n}
      BY <2>1, <2>2, Zenon
    <2> QED BY <1>1, <2>1, <2>3, Zenon
  <1>8. CASE DeliverEvent
    <2>1. UNCHANGED <<stxn, inst>> /\ events # <<>>
      BY <1>8, Zenon DEF DeliverEvent
    <2>2. 1 \in Queue /\ Head(events) = events[1] /\ Head(events) \in Event
      BY <2>1 DEF Queue, TypeOK
    <2>3. CASE tu' = tu
      BY <1>2, <2>1, <2>3, Zenon
    <2>4. CASE tu' # tu
      <3> DEFINE e == events[1]
      <3>1. e.kind = "IncomingInvite" /\ tu' = [tu EXCEPT ![e.c][e.n] = "active"]
        BY <1>8, <2>2, <2>4, Zenon DEF DeliverEvent
      <3>2. e.c \in Call /\ e.n \in Inst
        BY <2>2, <3>1, Zenon DEF Event
      <3>3. e.n <= inst[e.c]
        BY <2>2, <3>2, Counts DEF OrderInv, Unheard, About
      <3> HIDE DEF e
      <3>4. \A c \in Call, n \in Inst : tu'[c][n] = tu[c][n] \/ (c = e.c /\ n = e.n)
        BY <3>1, <3>2, Zenon DEF TypeOK
      <3> QED BY <2>1, <3>3, <3>4 DEF OrderInv, Known
    <2> QED BY <2>3, <2>4, Zenon
  <1>9. ASSUME NEW c \in Call, NEW n \in Inst, NEW st \in TUFinal, record_invite_final(c, n, st)
        PROVE  Known'
    <2>1. /\ tu[c][n] = "active" /\ tu' = [tu EXCEPT ![c][n] = st] /\ UNCHANGED inst
          /\ stxn' = stxn \/ stxn' = [stxn EXCEPT ![c] = send_final(@, st, n)]
      BY <1>9, Zenon DEF record_invite_final
    <2>2. n <= inst[c]
      BY <2>1, Zenon DEF OrderInv, Known
    <2>3. send_final(stxn[c], st, n).tag = n
      BY Counts, SendFinalOp DEF Final
    <2>4. \A d \in Call : stxn'[d].tag = stxn[d].tag \/ (d = c /\ stxn'[d].tag = n)
      BY <2>1, <2>3, Zenon DEF TypeOK
    <2>5. \A d \in Call, m \in Inst : tu'[d][m] = tu[d][m] \/ (d = c /\ m = n)
      BY <2>1 DEF TypeOK
    <2> QED BY <2>1, <2>2, <2>4, <2>5, Zenon DEF OrderInv, Known
  <1>10. ASSUME NEW c \in Call, NEW n \in Inst, SendFinal(c, n) PROVE Known'
    <2>1. /\ tu[c][n] # "idle" /\ tu' = [tu EXCEPT ![c][n] = "done"]
          /\ UNCHANGED <<stxn, inst>>
      BY <1>10, Zenon DEF SendFinal, TUFinal
    <2>2. \A d \in Call, m \in Inst : tu'[d][m] = tu[d][m] \/ (d = c /\ m = n)
      BY <2>1, Zenon DEF TypeOK
    <2> QED BY <2>1, <2>2, Zenon DEF OrderInv, Known
  <1>11. CASE Tick
    <2>1. stxn' = [c \in Call |-> Aged(stxn[c])] /\ UNCHANGED <<inst, tu>>
      BY ZenonT(60), <1>11 DEF Tick, Aged
    <2>2. \A c \in Call : stxn'[c].tag = stxn[c].tag
      BY <2>1, Counts, TimerOps, Zenon
    <2> QED BY <1>1, <2>1, <2>2
  <1>12. ASSUME NEW c \in Call, NEW src \in Src,
                \/ ReplayInvite(c, src) \/ RecvAckNon2xx(c, src)
                \/ \E n \in Inst : RecvAck2xx(c, n, src)
         PROVE  Known'
    BY <1>2, <1>4, <1>12, Zenon DEF ReplayInvite, RecvAckNon2xx, RecvAck2xx
  <1>13. CASE \/ RecvAbsorbed \/ EmitEvent \/ UNCHANGED vars
              \/ \E r \in Req, src \in Src : RecvRequest(r, src)
    BY <1>2, <1>13, Zenon DEF RecvAbsorbed, EmitEvent, vars, RecvRequest
  <1> QED
    BY <1>3, <1>5, <1>6, <1>7, <1>8, <1>9, <1>10, <1>11, <1>12, <1>13, ZenonT(60)
    DEF Next, Datagram, TUAction

\* An event goes to the end of the queue.
LEMMA EmitOrder ==
  ASSUME TypeOK, OrderInv, Known', EmitEvent
  PROVE  OrderInv'
  <1>1. PICK e \in outbox : events' = Append(events, e) /\ outbox' = outbox \ {e}
    BY Zenon DEF EmitEvent
  <1>2. UNCHANGED <<inst, tu>>
    BY Zenon DEF EmitEvent
  <1>3. e \in Event /\ events \in Seq(Event)
    BY Zenon DEF TypeOK
  <1> DEFINE l == Len(events) + 1
  <1>4. /\ Queue' = Queue \cup {l} /\ l \notin Queue /\ events'[l] = e
        /\ \A i \in Queue : events'[i] = events[i] /\ i < l
    BY <1>1, <1>3 DEF Queue
  <1>5. l \in Nat /\ \A i \in Queue : i \in Nat
    BY <1>3 DEF Queue
  <1> HIDE DEF l
  <1>6. Unheard'
    BY <1>1, <1>2, <1>4, Zenon DEF OrderInv, Unheard
  <1>7. First'
    <2>1. ASSUME NEW f \in outbox', f.kind = "IncomingInvite" PROVE FALSE
      BY <1>1, <2>1, Zenon DEF OrderInv, First
    <2> QED BY <2>1, Zenon DEF First
  <1>8. ASSUME NEW c \in Call, NEW n \in Inst, n <= inst'[c]
        PROVE  \/ \E f \in outbox' : Announces(f, c, n)
               \/ tu'[c][n] # "idle"
               \/ Queued(c, n)'
    <2>1. CASE Announces(e, c, n)
      <3>1. \A i \in Queue : ~ About(events[i], c, n)
        BY <1>1, <2>1, Zenon DEF OrderInv, First, Announces, About
      <3>2. \A j \in Queue' : j < l => ~ About(events'[j], c, n)
        BY <1>4, <1>5, <3>1
      <3> QED BY <1>4, <2>1, <3>2, Zenon DEF Queued
    <2>2. ASSUME NEW f \in outbox, Announces(f, c, n), ~ Announces(e, c, n)
          PROVE  f \in outbox'
      BY <1>1, <2>2, Zenon
    <2>3. CASE Queued(c, n)
      <3>1. PICK i \in Queue : /\ Announces(events[i], c, n)
                               /\ \A j \in Queue : j < i => ~ About(events[j], c, n)
        BY <2>3, Zenon DEF Queued
      <3>2. i \in Queue' /\ Announces(events'[i], c, n)
        BY <1>4, <3>1, Zenon
      <3>3. \A j \in Queue' : j < i => ~ About(events'[j], c, n)
        BY <1>4, <1>5, <3>1
      <3> QED BY <3>2, <3>3, Zenon DEF Queued
    <2> QED BY <1>2, <1>8, <2>1, <2>2, <2>3, Zenon DEF OrderInv, Announced
  <1> QED BY <1>6, <1>7, <1>8, Zenon DEF OrderInv, Announced

\* The TU takes the first event of the queue.
LEMMA DeliverOrder ==
  ASSUME TypeOK, OrderInv, Known', DeliverEvent
  PROVE  OrderInv'
  <1> DEFINE e == events[1]
  <1>1. events # <<>> /\ events' = Tail(events) /\ UNCHANGED <<outbox, inst>>
    BY Zenon DEF DeliverEvent
  <1>2. events \in Seq(Event)
    BY Zenon DEF TypeOK
  <1>3. /\ 1 \in Queue /\ e \in Event /\ Head(events) = e
        /\ \A i \in Queue : i \in Nat /\ (i # 1 => (i - 1) \in Queue' /\ events'[i - 1] = events[i])
        /\ \A i \in Queue' : i \in Nat /\ i + 1 \in Queue /\ events'[i] = events[i + 1]
    BY <1>1, <1>2 DEF Queue
  <1>4. tu' = IF e.kind = "IncomingInvite" THEN [tu EXCEPT ![e.c][e.n] = "active"] ELSE tu
    BY <1>3, Zenon DEF DeliverEvent
  <1> HIDE DEF e
  <1>5. \A c \in Call, n \in Inst : /\ tu[c][n] # "idle" => tu'[c][n] # "idle"
                                    /\ Announces(e, c, n) => tu'[c][n] # "idle"
    BY <1>4 DEF TypeOK, Announces, About
  <1>6. Unheard' /\ First'
    BY <1>1, <1>3, ZenonT(60) DEF OrderInv, Unheard, First
  <1>7. ASSUME NEW c \in Call, NEW n \in Inst, Queued(c, n)
        PROVE  tu'[c][n] # "idle" \/ Queued(c, n)'
    <2>1. PICK i \in Queue : /\ Announces(events[i], c, n)
                             /\ \A j \in Queue : j < i => ~ About(events[j], c, n)
      BY <1>7, Zenon DEF Queued
    <2>2. CASE i = 1
      BY <1>5, <2>1, <2>2, Zenon DEF e
    <2>3. CASE i # 1
      <3>1. i - 1 \in Queue' /\ Announces(events'[i - 1], c, n)
        BY <1>3, <2>1, <2>3, Zenon
      <3>2. ASSUME NEW j \in Queue', j < i - 1 PROVE ~ About(events'[j], c, n)
        <4>1. j + 1 \in Queue /\ events'[j] = events[j + 1]
          BY <1>3, Zenon
        <4>2. j + 1 < i
          BY <1>3, <2>1, <3>2
        <4> QED BY <2>1, <4>1, <4>2, Zenon
      <3> QED BY <3>1, <3>2, Zenon DEF Queued
    <2> QED BY <2>2, <2>3, Zenon
  <1>8. Announced'
    BY <1>1, <1>5, <1>7, Zenon DEF OrderInv, Announced
  <1> QED BY <1>6, <1>8, Zenon DEF OrderInv

\* Every step keeps the order.
LEMMA StepOrder ==
  ASSUME IndType, OrderInv, [Next]_vars
  PROVE  OrderInv'
  <1>1. TypeOK /\ Known' /\ \A c \in Call : TxnInv(c)
    BY StepKnown, Zenon DEF IndType
  <1>2. ASSUME UNCHANGED <<outbox, events, inst, tu>> PROVE OrderInv'
    BY <1>1, <1>2, SilentOrder, Zenon
  <1>3. ASSUME NEW c \in Call, NEW src \in Src, RecvInvite(c, src) PROVE OrderInv'
    <2> DEFINE m == inst[c] + 1
               f == EventOf("IncomingInvite", c, m, src)
    <2>1. /\ outbox = {} /\ outbox' = {f} /\ UNCHANGED <<events, tu>>
          /\ inst'[c] = m /\ \A d \in Call \ {c} : inst'[d] = inst[d]
      BY <1>1, <1>3, Zenon DEF RecvInvite, Selecting, TypeOK
    <2>2. f.kind = "IncomingInvite" /\ f.c = c /\ f.n = m
      BY Zenon DEF EventOf
    <2>3. inst[c] \in Nat /\ m > inst[c] /\ m \in Inst
      <3>1. inst[c] \in Nat /\ inst[c] < MaxInst
        BY <1>1, <1>3, Counts, Zenon DEF RecvInvite
      <3> QED BY <3>1, Numbers DEF Inst
    <2>4. \A i \in Queue : ~ About(events[i], c, m)
      BY <2>3, ZenonT(60) DEF OrderInv, Unheard
    <2> HIDE DEF f
    <2>5. Queue' = Queue /\ \A d, n : Queued(d, n) <=> Queued(d, n)'
      BY <2>1, Zenon DEF Queue, Queued
    <2>6. First'
      BY <2>1, <2>2, <2>4, <2>5, ZenonT(60) DEF First
    <2>7. ASSUME NEW d \in Call, NEW n \in Inst PROVE n > inst'[d] => n > inst[d] /\ ~ About(f, d, n)
      BY <1>1, <2>1, <2>2, <2>3, Counts DEF About
    <2>8. Unheard'
      BY <2>1, <2>5, <2>7, Zenon DEF OrderInv, Unheard
    <2>9. ASSUME NEW d \in Call, NEW n \in Inst, n <= inst'[d]
          PROVE  n <= inst[d] \/ Announces(f, d, n)
      <3>1. CASE d # c
        BY <2>1, <2>9, <3>1, Zenon
      <3>2. CASE d = c
        <4>1. n \in Nat /\ n <= m
          BY <1>1, <2>1, <2>9, <3>2, Counts, Zenon
        <4>2. n <= inst[c] \/ n = m
          BY <2>3, <4>1
        <4> QED BY <2>2, <3>2, <4>2, Zenon DEF Announces, About
      <3> QED BY <3>1, <3>2, Zenon
    <2>10. Announced'
      BY <2>1, <2>5, <2>9, Zenon DEF OrderInv, Announced
    <2> QED BY <1>1, <2>6, <2>8, <2>10, Zenon DEF OrderInv
  <1>4. ASSUME NEW c \in Call, NEW n \in Inst, NEW src \in Src, RecvAck2xx(c, n, src)
        PROVE  OrderInv'
    <2>1. /\ outbox = {} /\ UNCHANGED <<events, inst, tu>>
          /\ outbox' = {EventOf("IncomingAck", c, n, src)} /\ stxn[c].tag = n
      BY <1>4, Zenon DEF RecvAck2xx, Selecting
    <2>2. n <= inst[c]
      BY <2>1, ZenonT(60) DEF OrderInv, Known
    <2> QED BY <1>1, <2>1, <2>2, SpokenOrder DEF EventOf, About
  <1>5. ASSUME NEW c \in Call, NEW src \in Src, RecvCancel(c, src) PROVE OrderInv'
    <2>1. /\ outbox = {} /\ UNCHANGED <<events, inst, tu>>
          /\ outbox' = outbox \/ outbox' = {EventOf("IncomingCancel", c, stxn[c].n, src)}
      BY <1>5, Zenon DEF RecvCancel, Selecting
    <2>2. stxn[c].n <= inst[c]
      BY <1>1, Zenon DEF TxnInv
    <2> QED BY <1>1, <2>1, <2>2, SpokenOrder DEF EventOf, About
  <1>6. ASSUME NEW r \in Req, NEW src \in Src, RecvRequest(r, src) PROVE OrderInv'
    <2>1. /\ outbox = {} /\ UNCHANGED <<events, inst, tu>>
          /\ outbox' = {EventOf("IncomingRequest", r, 0, src)}
      BY <1>6, Zenon DEF RecvRequest, Selecting
    <2> QED BY <1>1, <2>1, Sets, SpokenOrder DEF EventOf, About
  <1>7. CASE TimerPass
    <2>1. /\ outbox = {} /\ UNCHANGED <<events, inst, tu>>
          /\ outbox' = UNION {TimeoutEvents(c) : c \in Call}
      BY <1>7, Zenon DEF TimerPass, Selecting
    <2>2. ASSUME NEW c \in Call, NEW e \in TimeoutEvents(c)
          PROVE  e.kind # "IncomingInvite" /\ e.c = c /\ e.n = stxn[c].n
      BY <2>2 DEF TimeoutEvents, EventOf
    <2>3. \A c \in Call : stxn[c].n <= inst[c]
      BY <1>1, Zenon DEF TxnInv
    <2>4. \A e \in outbox' : /\ e.kind # "IncomingInvite"
                             /\ \A c \in Call, n \in Inst : About(e, c, n) => n <= inst[c]
      BY <2>1, <2>2, <2>3 DEF About
    <2> QED BY <1>1, <2>1, <2>4, SpokenOrder, Zenon
  <1>8. ASSUME NEW c \in Call, NEW n \in Inst,
               SendFinal(c, n) \/ \E st \in TUFinal : record_invite_final(c, n, st)
        PROVE  OrderInv'
    <2>1. UNCHANGED <<outbox, events, inst>>
      BY <1>8, Zenon DEF SendFinal, record_invite_final
    <2>2. \E st \in TUFinal \cup {"done"} : tu' = [tu EXCEPT ![c][n] = st]
      BY <1>8, Zenon DEF SendFinal, record_invite_final
    <2>3. \A d \in Call, m \in Inst : tu[d][m] # "idle" => tu'[d][m] # "idle"
      BY <1>1, <2>2 DEF TypeOK, TUFinal
    <2> QED BY <1>1, <2>1, <2>3, SilentOrder, Zenon
  <1>9. ASSUME NEW c \in Call, NEW src \in Src, ReplayInvite(c, src) \/ RecvAckNon2xx(c, src)
        PROVE  OrderInv'
    BY <1>2, <1>9, Zenon DEF ReplayInvite, RecvAckNon2xx
  <1>10. CASE RecvAbsorbed \/ Reap \/ Tick \/ UNCHANGED vars
    BY <1>2, <1>10, Zenon DEF RecvAbsorbed, Reap, Tick, vars
  <1>11. CASE EmitEvent
    BY <1>1, <1>11, EmitOrder, Zenon
  <1>12. CASE DeliverEvent
    BY <1>1, <1>12, DeliverOrder
  <1> QED
    BY <1>3, <1>4, <1>5, <1>6, <1>7, <1>8, <1>9, <1>10, <1>11, <1>12, Zenon
    DEF Next, Datagram, TUAction

\* The TU hears of a session before it hears anything else about it, for any
\* capacity of the queue and however late the TU takes its events (emit_event,
\* the IncomingInvite of handle_request against ACK, CANCEL and Timer H).
THEOREM EventsInOrder == Spec => []EventOrder
  <1>1. Init => IndType /\ OrderInv
    BY InitType, InitOrder, Zenon
  <1>2. IndType /\ OrderInv /\ [Next]_vars => (IndType /\ OrderInv)'
    BY StepType, StepOrder, Zenon
  <1>3. IndType /\ OrderInv => EventOrder
    <2> SUFFICES ASSUME IndType, OrderInv,
                        NEW e \in outbox \cup {events[i] : i \in 1 .. Len(events)},
                        e.kind \notin {"IncomingInvite", "IncomingRequest"}, tu[e.c][e.n] = "idle"
                 PROVE  \E i \in 1 .. Len(events) :
                          /\ events[i] = [e EXCEPT !.kind = "IncomingInvite", !.src = events[i].src]
                          /\ \A j \in 1 .. i : events[j] # e
      BY Zenon DEF EventOrder
    <2>1. TypeOK
      BY Zenon DEF IndType
    <2>2. e \in Event
      BY <2>1 DEF TypeOK
    <2>3. e.c \in Call /\ e.n \in Inst
      BY <2>2, Zenon DEF Event
    <2>4. ~ \E f \in outbox : Announces(f, e.c, e.n)
      BY DEF OrderInv, First, Announces, About, Queue
    <2>5. e.n <= inst[e.c]
      <3>1. ~ (e.n > inst[e.c])
        BY <2>3, Zenon DEF OrderInv, Unheard, About, Queue
      <3>2. e.n \in Nat /\ inst[e.c] \in Nat
        BY <2>1, <2>3, Counts, Zenon
      <3> QED BY <3>1, <3>2
    <2>6. PICK i \in Queue : /\ Announces(events[i], e.c, e.n)
                             /\ \A j \in Queue : j < i => ~ About(events[j], e.c, e.n)
      BY <2>3, <2>4, <2>5, Zenon DEF OrderInv, Announced, Queued
    <2>7. events[i] \in Event /\ i \in 1 .. Len(events) /\ i \in Nat
      <3>1. events \in Seq(Event) /\ i \in 1 .. Len(events)
        BY <2>1, <2>6, Zenon DEF TypeOK, Queue
      <3> QED BY <3>1
    <2>8. events[i] = [e EXCEPT !.kind = "IncomingInvite", !.src = events[i].src]
      BY <2>2, <2>6, <2>7, Zenon DEF Event, Announces, About
    <2>9. \A j \in 1 .. i : events[j] # e
      BY <2>1, <2>6, <2>7 DEF Announces, About, Queue
    <2> QED BY <2>7, <2>8, <2>9, Zenon
  <1> QED BY <1>1, <1>2, <1>3, PTL DEF Spec
=============================================================================
