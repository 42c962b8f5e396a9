-------------------------- MODULE SipServerAnswers --------------------------
(***************************************************************************)
(* The answers of SipServer: at most one final response on the wire for a  *)
(* session, so that it implements InviteService, for a TU that answers its *)
(* own transaction (~ LateTU), and that the end of a 2xx is reported.      *)
(***************************************************************************)
EXTENDS SipServerProofs

\* The answer of session n is that of whoever still holds it: transaction t,
\* cache entry k, and the TU between record_invite_final and its send (u)
\* agree with each other and with what the wire has seen (w).  i is the
\* number of sessions created.
Held(u, w, a) == w \subseteq {a} /\ (u \in TUFinal => u = a)
Silent(u, w) == w = {} /\ u \notin TUFinal

OneAnswer(t, k, i, u, w, n) ==
  /\ n > i => Silent(u, w)
  /\ \E a \in Final : Held(u, w, a)
  /\ t.state = "Proceeding" /\ t.n = n => Silent(u, w)
  /\ t.st # "none" /\ t.n = n => Held(u, w, t.st)
  /\ k.st # "none" /\ k.tag = n =>
       /\ n <= i
       /\ Held(u, w, k.st)
       /\ t.state # "Absent" /\ t.n = n => t.st = k.st

SessionInv(c, n) == OneAnswer(stxn[c], cache[c], inst[c], tu[c][n], wire[c][n], n)

TagInv(c) == stxn[c].st # "none" => stxn[c].tag = stxn[c].n

AnswerInv == \A c \in Call : TagInv(c) /\ \A n \in Inst : SessionInv(c, n)

IndAnswer == IndType /\ AnswerInv

\* Whoever holds the answer may repeat it.
LEMMA RepeatAnswer ==
  ASSUME NEW t \in ServerTransaction, NEW k \in CachedInviteFinal, NEW i \in Nat,
         NEW u, NEW w, NEW n \in Inst, NEW a \in Final,
         OneAnswer(t, k, i, u, w, n),
         t.n <= i,
         t.state \in {"Absent", "Proceeding"} <=> t.st = "none",
         \/ t.st = a /\ t.n = n
         \/ k.st = a /\ k.tag = n
         \/ u = a /\ u \in TUFinal
  PROVE  OneAnswer(t, k, i, u, w \cup {a}, n)
  <1>1. a # "none" /\ i \in Nat /\ n \in Nat /\ t.n \in Nat
    BY Numbers DEF Final, TUFinal, Inst, ServerTransaction
  <1>2. Held(u, w, a) /\ n <= i
    BY <1>1 DEF OneAnswer, Held, Silent
  <1>3. t.n = n => t.state # "Proceeding"
    BY <1>1, Zenon DEF OneAnswer, Silent
  <1>4. t.st # "none" /\ t.n = n => t.st = a
    BY <1>1, Zenon DEF OneAnswer, Held
  <1>5. k.st # "none" /\ k.tag = n => k.st = a
    BY <1>1, Zenon DEF OneAnswer, Held
  <1>6. Held(u, w \cup {a}, a)
    BY <1>2, Zenon DEF Held
  <1>7. ~ (n > i)
    BY <1>1, <1>2
  <1> QED
    BY <1>2, <1>3, <1>4, <1>5, <1>6, <1>7, Zenon DEF OneAnswer

\* What OneAnswer sees of a transaction: its session, its response, and
\* whether it is absent or proceeding.
SameView(t, v) ==
  /\ v.n = t.n /\ v.st = t.st
  /\ \/ v.state = t.state
     \/ /\ t.state \notin {"Absent", "Proceeding"}
        /\ v.state \notin {"Absent", "Proceeding"}

\* Agreement on one answer survives a change the sessions cannot see.
LEMMA KeepAnswer ==
  ASSUME NEW t, NEW v, NEW k, NEW i, NEW u, NEW w, NEW n,
         SameView(t, v), OneAnswer(t, k, i, u, w, n)
  PROVE  OneAnswer(v, k, i, u, w, n)
  BY Zenon DEF SameView, OneAnswer

\* A fresh stack has answered nothing.
LEMMA InitAnswer == Init => IndAnswer
  <1> SUFFICES ASSUME Init PROVE AnswerInv
    BY InitType, Zenon DEF IndAnswer
  <1> SUFFICES ASSUME NEW c \in Call PROVE TagInv(c) /\ \A n \in Inst : SessionInv(c, n)
    BY Zenon DEF AnswerInv
  <1>1. /\ stxn[c] = NoServerTransaction /\ cache[c] = NoCachedFinal
        /\ inst[c] = 0 /\ \A n \in Inst : tu[c][n] = "idle" /\ wire[c][n] = {}
    BY Zenon DEF Init
  <1>2. /\ NoServerTransaction.st = "none" /\ NoServerTransaction.state = "Absent"
        /\ NoCachedFinal.st = "none"
    BY Zenon DEF NoServerTransaction, NoCachedFinal, NewServerTransaction
  <1> QED
    BY <1>1, <1>2, Zenon DEF TagInv, SessionInv, OneAnswer, TUFinal, Final, Held, Silent

\* What the invariant says of one session, in the form the steps use it.
LEMMA SessionFacts ==
  ASSUME ~ LateTU, IndType, AnswerInv,
         NEW d \in Call
  PROVE  /\ stxn[d] \in ServerTransaction /\ cache[d] \in CachedInviteFinal
         /\ inst[d] \in Nat /\ TagInv(d) /\ TxnInv(d)
         /\ \A n \in Inst : SessionInv(d, n)
         /\ wire \in [Call -> [Inst -> SUBSET Final]]
         /\ stxn[d].st \in Final \cup {"none"}
         /\ cache[d].st \in Final \cup {"none"}
  <1>1. /\ stxn[d] \in ServerTransaction /\ cache[d] \in CachedInviteFinal
        /\ inst[d] \in Nat /\ wire \in [Call -> [Inst -> SUBSET Final]]
    BY Numbers DEF IndType, TypeOK
  <1>2. TagInv(d) /\ TxnInv(d) /\ \A n \in Inst : SessionInv(d, n)
    BY Zenon DEF IndType, AnswerInv
  <1>3. stxn[d].st \in Final \cup {"none"} /\ cache[d].st \in Final \cup {"none"}
    BY <1>1, Zenon DEF ServerTransaction, CachedInviteFinal, Final
  <1> QED
    BY <1>1, <1>2, <1>3, Zenon

\* Sending again an answer that is already on record adds no second one.
LEMMA RepeatStep ==
  ASSUME ~ LateTU, IndType, AnswerInv,
         NEW d \in Call, NEW n \in Inst, NEW a \in Final,
         UNCHANGED <<stxn, cache, inst>>, tu'[d][n] = tu[d][n],
         wire'[d][n] = wire[d][n] \cup {a},
         \/ stxn[d].st = a /\ stxn[d].n = n
         \/ cache[d].st = a /\ cache[d].tag = n
         \/ tu[d][n] = a /\ tu[d][n] \in TUFinal
  PROVE  SessionInv(d, n)'
  <1>1. OneAnswer(stxn[d], cache[d], inst[d], tu[d][n], wire[d][n], n)
    BY SessionFacts, Zenon DEF SessionInv
  <1>2. /\ stxn[d].n <= inst[d]
        /\ stxn[d].state \in {"Absent", "Proceeding"} <=> stxn[d].st = "none"
    BY SessionFacts, Zenon DEF TxnInv
  <1>3. OneAnswer(stxn[d], cache[d], inst[d], tu[d][n], wire[d][n] \cup {a}, n)
    BY SessionFacts, <1>1, <1>2, RepeatAnswer, Zenon
  <1> QED
    BY <1>3, Zenon DEF SessionInv

\* The replay of a cached final repeats the session's one answer.
LEMMA ReplayInviteAnswer ==
  ASSUME ~ LateTU, IndType, AnswerInv,
         NEW c \in Call, NEW src \in Src, ReplayInvite(c, src)
  PROVE  AnswerInv'
  <1> SUFFICES ASSUME NEW d \in Call, NEW n \in Inst PROVE SessionInv(d, n)'
    BY SessionFacts, Zenon DEF AnswerInv, TagInv, ReplayInvite
  <1>1. UNCHANGED <<stxn, cache, inst, tu>>
    BY Zenon DEF ReplayInvite
  <1>2. \/ wire' = OnWire(wire, c, stxn[c].st, stxn[c].tag)
        \/ wire' = OnWire(wire, c, cache[c].st, cache[c].tag)
    BY Zenon DEF ReplayInvite
  <1>3. CASE wire'[d][n] = wire[d][n]
    BY SessionFacts, <1>1, <1>3, Zenon DEF SessionInv
  <1>4. CASE wire'[d][n] # wire[d][n]
    <2>1. \/ /\ stxn[d].st \in Final /\ stxn[d].tag = n
             /\ wire'[d][n] = wire[d][n] \cup {stxn[d].st}
          \/ /\ cache[d].st \in Final /\ cache[d].tag = n
             /\ wire'[d][n] = wire[d][n] \cup {cache[d].st}
      <3>1. CASE wire' = OnWire(wire, c, stxn[c].st, stxn[c].tag)
        <4>1. wire'[d][n] = IF stxn[c].st # "none" /\ d = c /\ n = stxn[c].tag
                            THEN wire[d][n] \cup {stxn[c].st} ELSE wire[d][n]
          <5>1. OnWire(wire, c, stxn[c].st, stxn[c].tag)[d][n] =
                  IF stxn[c].st # "none" /\ d = c /\ n = stxn[c].tag
                  THEN wire[d][n] \cup {stxn[c].st} ELSE wire[d][n]
            <6>1. wire \in [Call -> [Inst -> SUBSET Final]]
              BY SessionFacts, Zenon
            <6> QED
              BY Zenon, <6>1 DEF OnWire
          <5> QED
            BY <3>1, <5>1, Zenon
        <4> QED
          BY SessionFacts, <1>4, <4>1, Zenon
      <3>2. CASE wire' = OnWire(wire, c, cache[c].st, cache[c].tag)
        <4>1. wire'[d][n] = IF cache[c].st # "none" /\ d = c /\ n = cache[c].tag
                            THEN wire[d][n] \cup {cache[c].st} ELSE wire[d][n]
          <5>1. OnWire(wire, c, cache[c].st, cache[c].tag)[d][n] =
                  IF cache[c].st # "none" /\ d = c /\ n = cache[c].tag
                  THEN wire[d][n] \cup {cache[c].st} ELSE wire[d][n]
            <6>1. wire \in [Call -> [Inst -> SUBSET Final]]
              BY SessionFacts
            <6> QED
              BY Zenon, <6>1 DEF OnWire
          <5> QED
            BY <3>2, <5>1
        <4> QED
          BY SessionFacts, <1>4, <4>1, Zenon
      <3> QED
        BY <1>2, <3>1, <3>2, Zenon
    <2>2. stxn[d].st \in Final => stxn[d].tag = stxn[d].n
      BY SessionFacts, Zenon DEF TagInv, Final, TUFinal
    <2> QED
      BY RepeatStep, <1>1, <2>1, <2>2, Zenon
  <1> QED
    BY <1>3, <1>4, Zenon

\* A new INVITE opens a session that holds no answer.
LEMMA RecvInviteAnswer ==
  ASSUME ~ LateTU, IndType, AnswerInv,
         NEW c \in Call, NEW src \in Src, RecvInvite(c, src)
  PROVE  AnswerInv'
  <1>1. /\ UNCHANGED <<cache, tu, wire>>
        /\ inst' = [inst EXCEPT ![c] = @ + 1]
        /\ stxn' = [stxn EXCEPT ![c] = NewServerTransaction(src, inst[c] + 1)]
    BY Zenon DEF RecvInvite
  <1> SUFFICES ASSUME NEW d \in Call
               PROVE  TagInv(d)' /\ \A n \in Inst : SessionInv(d, n)'
    BY Zenon DEF AnswerInv
  <1>2. CASE d = c
    <2>1. /\ stxn'[d].state = "Proceeding" /\ stxn'[d].n = inst[d] + 1
          /\ stxn'[d].st = "none" /\ inst'[d] = inst[d] + 1
      BY <1>1, <1>2, Zenon DEF NewServerTransaction, IndType, TypeOK
    <2>2. ASSUME NEW n \in Inst PROVE SessionInv(d, n)'
      <3>1. n \in Nat /\ inst[d] \in Nat /\ SessionInv(d, n)
        BY SessionFacts, Numbers DEF Inst
      <3>2. /\ n > inst'[d] => n > inst[d]
            /\ stxn'[d].n = n => n > inst[d]
            /\ n <= inst[d] => n <= inst'[d] /\ stxn'[d].n # n
        BY <2>1, <3>1
      <3> QED
        BY <1>1, <2>1, <3>1, <3>2, Zenon DEF SessionInv, OneAnswer
    <2> QED
      BY <2>1, <2>2, Zenon DEF TagInv
  <1>3. CASE d # c
    BY SessionFacts, <1>1, <1>3, Zenon DEF TagInv, SessionInv, IndType, TypeOK
  <1> QED
    BY <1>2, <1>3, Zenon

\* A step that changes only states and timers of transactions changes no answer.
LEMMA KeepStep ==
  ASSUME ~ LateTU, IndType, AnswerInv,
         UNCHANGED <<cache, inst, tu, wire>>,
         \A d \in Call : SameView(stxn[d], stxn'[d]) /\ stxn'[d].tag = stxn[d].tag
  PROVE  AnswerInv'
  <1> SUFFICES ASSUME NEW d \in Call
               PROVE  TagInv(d)' /\ \A n \in Inst : SessionInv(d, n)'
    BY Zenon DEF AnswerInv
  <1>1. TagInv(d)'
    BY SessionFacts, Zenon DEF TagInv, SameView
  <1>2. ASSUME NEW n \in Inst PROVE SessionInv(d, n)'
    BY SessionFacts, KeepAnswer, Zenon DEF SessionInv
  <1> QED
    BY <1>1, <1>2, Zenon

\* on_ack leaves the recorded final of every transaction alone.
LEMMA AckView ==
  ASSUME ~ LateTU, IndType, AnswerInv,
         NEW c \in Call, stxn' = [stxn EXCEPT ![c] = on_ack(@)],
         NEW d \in Call
  PROVE  SameView(stxn[d], stxn'[d]) /\ stxn'[d].tag = stxn[d].tag
  <1>1. CASE d = c
    BY SessionFacts, <1>1, OnAckOp, Zenon DEF SameView, IndType, TypeOK
  <1>2. CASE d # c
    BY <1>2, Zenon DEF SameView, IndType, TypeOK
  <1> QED
    BY <1>1, <1>2, Zenon

\* An ACK of a 2xx changes no answer.
LEMMA RecvAck2xxAnswer ==
  ASSUME ~ LateTU, IndType, AnswerInv,
         NEW c \in Call, NEW n \in Inst, NEW src \in Src,
         RecvAck2xx(c, n, src)
  PROVE  AnswerInv'
  BY Zenon, AckView, KeepStep DEF RecvAck2xx

\* An ACK of a refusal changes no answer.
LEMMA RecvAckNon2xxAnswer ==
  ASSUME ~ LateTU, IndType, AnswerInv,
         NEW c \in Call, NEW src \in Src, RecvAckNon2xx(c, src)
  PROVE  AnswerInv'
  BY Zenon, AckView, KeepStep DEF RecvAckNon2xx

\* The 487 of handle_cancel_request is given only to an unanswered session.
LEMMA RecvCancelAnswer ==
  ASSUME ~ LateTU, IndType, AnswerInv,
         NEW c \in Call, NEW src \in Src, RecvCancel(c, src)
  PROVE  AnswerInv'
  <1>1. CASE stxn[c].state = "Proceeding"
    <2> DEFINE m == stxn[c].n
               t == send_final(stxn[c], "487", m)
    <2>1. m \in Inst /\ "487" \in Final /\ m <= inst[c]
      BY SessionFacts, <1>1, Numbers DEF TxnInv, ServerTransaction, Inst, Final
    <2>2. t.n = m /\ t.st = "487" /\ t.tag = m
          /\ t.state \notin {"Absent", "Proceeding"}
      BY SessionFacts, <2>1, SendFinalOp
    <2>3. /\ UNCHANGED <<cache, inst, tu>>
          /\ stxn' = [stxn EXCEPT ![c] = t]
          /\ wire' = OnWire(wire, c, "487", m)
      BY <1>1, Zenon DEF RecvCancel
    <2> HIDE DEF t
    <2> SUFFICES ASSUME NEW d \in Call
                 PROVE  TagInv(d)' /\ \A n \in Inst : SessionInv(d, n)'
      BY DEF AnswerInv
    <2>4. \A n \in Inst : wire'[d][n] = IF d = c /\ n = m
                                       THEN wire[d][n] \cup {"487"} ELSE wire[d][n]
      <3>1. ASSUME NEW n \in Inst
            PROVE  OnWire(wire, c, "487", m)[d][n] =
                     IF "487" # "none" /\ d = c /\ n = m
                     THEN wire[d][n] \cup {"487"} ELSE wire[d][n]
        <4>1. wire \in [Call -> [Inst -> SUBSET Final]]
          BY SessionFacts
        <4> QED
          BY ZenonT(60), <4>1 DEF OnWire
      <3> QED
        BY <2>3, <3>1, Zenon
    <2>5. CASE d # c
      BY SessionFacts, <2>3, <2>4, <2>5, Zenon DEF TagInv, SessionInv, IndType, TypeOK
    <2>6. CASE d = c
      <3>1. stxn'[d] = t
        BY <2>3, <2>6, Zenon DEF IndType, TypeOK
      <3>2. ASSUME NEW n \in Inst, n = m PROVE SessionInv(d, n)'
        <4>1. SessionInv(d, n) /\ stxn[d].st = "none"
          BY SessionFacts, <1>1, <2>6, ZenonT(60) DEF TxnInv
        <4>2. /\ Silent(tu[d][n], wire[d][n])
              /\ ~ (cache[d].st # "none" /\ cache[d].tag = n)
          BY <4>1, <3>2, <2>6, <1>1, Zenon DEF SessionInv, OneAnswer
        <4>3. Held(tu'[d][n], wire'[d][n], "487")
          BY Zenon, <4>2, <2>3, <2>4, <2>6, <3>2 DEF Silent, Held
        <4>4. ~ (n > inst'[d])
          <5>1. m <= inst[c] /\ inst'[d] = inst[c] /\ inst[c] \in Nat
            BY <2>1, <2>3, <2>6, SessionFacts, Zenon
          <5>2. m \in Nat
            BY <3>2, Numbers DEF Inst
          <5> QED BY <3>2, <5>1, <5>2
        <4> QED
          BY Zenon, <4>2, <4>3, <4>4, <3>1, <3>2, <2>1, <2>2, <2>3
            DEF SessionInv, OneAnswer
      <3>3. ASSUME NEW n \in Inst, n # m PROVE SessionInv(d, n)'
        <4>1. SessionInv(d, n) /\ wire'[d][n] = wire[d][n]
          BY Zenon, SessionFacts, <2>4, <3>3
        <4> QED
          BY <4>1, <3>1, <3>3, <2>2, <2>3, Zenon DEF SessionInv, OneAnswer
      <3>4. TagInv(d)'
        BY <3>1, <2>2, Zenon DEF TagInv
      <3> QED
        BY <3>2, <3>3, <3>4, Zenon
    <2> QED
      BY <2>5, <2>6, Zenon
  <1>2. CASE stxn[c].state # "Proceeding"
    BY SessionFacts, <1>2, Zenon DEF RecvCancel, AnswerInv, TagInv, SessionInv
  <1> QED
    BY <1>1, <1>2, Zenon

\* A step that leaves transactions, caches and wire alone changes no answer.
LEMMA InvisibleAnswer ==
  ASSUME ~ LateTU, IndType, AnswerInv,
         UNCHANGED <<stxn, cache, inst, tu, wire>>
  PROVE  AnswerInv'
  BY SessionFacts, Zenon DEF AnswerInv, TagInv, SessionInv

\* handle_timers repeats only the final each transaction has recorded.
LEMMA TimerPassAnswer ==
  ASSUME ~ LateTU, IndType, AnswerInv,
         TimerPass
  PROVE  AnswerInv'
  <1>1. stxn' = [c \in Call |-> TimerStep(stxn[c])] /\ UNCHANGED <<cache, inst, tu>>
    BY Zenon DEF TimerPass, TimerStep
  <1> SUFFICES ASSUME NEW d \in Call
               PROVE  TagInv(d)' /\ \A n \in Inst : SessionInv(d, n)'
    BY Zenon DEF AnswerInv
  <1>2. SameView(stxn[d], stxn'[d]) /\ stxn'[d].tag = stxn[d].tag
    BY <1>1, SessionFacts, TimerOps, Zenon DEF SameView
  <1>3. wire'[d] = IF needs_retransmit(stxn[d])
                   THEN [wire[d] EXCEPT ![stxn[d].tag] = @ \cup {stxn[d].st}]
                   ELSE wire[d]
    BY Zenon DEF TimerPass
  <1>4. ASSUME NEW n \in Inst PROVE SessionInv(d, n)'
    <2>1. CASE needs_retransmit(stxn[d]) /\ n = stxn[d].tag
      <3>1. stxn[d].st \in Final /\ stxn[d].n = n
        BY SessionFacts, <2>1, ZenonT(60) DEF needs_retransmit, AwaitsAck, TxnInv, TagInv
      <3>2. wire'[d][n] = wire[d][n] \cup {stxn[d].st}
        BY SessionFacts, <1>3, <2>1
      <3>3. OneAnswer(stxn[d], cache[d], inst[d], tu[d][n], wire[d][n], n)
        BY SessionFacts, Zenon DEF SessionInv
      <3>4. OneAnswer(stxn[d], cache[d], inst[d], tu[d][n], wire'[d][n], n)
        <4>1. /\ stxn[d].n <= inst[d]
              /\ stxn[d].state \in {"Absent", "Proceeding"} <=> stxn[d].st = "none"
          BY SessionFacts, Zenon DEF TxnInv
        <4>2. /\ stxn[d] \in ServerTransaction /\ cache[d] \in CachedInviteFinal
              /\ inst[d] \in Nat
          BY SessionFacts, Zenon
        <4> QED
          BY <3>1, <3>2, <3>3, <4>1, <4>2, RepeatAnswer
      <3> QED
        BY <1>1, <1>2, <3>4, KeepAnswer, Zenon DEF SessionInv
    <2>2. CASE ~ (needs_retransmit(stxn[d]) /\ n = stxn[d].tag)
      <3>1. wire'[d][n] = wire[d][n] /\ SessionInv(d, n)
        BY SessionFacts, <1>3, <2>2, Zenon
      <3> QED
        BY <1>1, <1>2, <3>1, KeepAnswer, Zenon DEF SessionInv
    <2> QED
      BY <2>1, <2>2, Zenon
  <1>5. TagInv(d)'
    BY SessionFacts, <1>2, Zenon DEF SameView, TagInv
  <1> QED
    BY <1>4, <1>5, Zenon

\* Removing terminated transactions and old cache entries changes no answer given.
LEMMA ReapAnswer ==
  ASSUME ~ LateTU, IndType, AnswerInv,
         Reap
  PROVE  AnswerInv'
  <1> SUFFICES ASSUME NEW d \in Call
               PROVE  TagInv(d)' /\ \A n \in Inst : SessionInv(d, n)'
    BY DEF AnswerInv
  <1>1. /\ stxn'[d] = stxn[d] \/ stxn'[d] = NoServerTransaction
        /\ cache'[d] = cache[d] \/ cache'[d] = NoCachedFinal
        /\ UNCHANGED <<inst, tu, wire>>
    BY Zenon DEF Reap
  <1>2. /\ NoServerTransaction.st = "none" /\ NoServerTransaction.state = "Absent"
        /\ NoCachedFinal.st = "none"
    BY Zenon DEF NoServerTransaction, NoCachedFinal, NewServerTransaction
  <1>3. TagInv(d)'
    BY SessionFacts, <1>1, <1>2, ZenonT(60) DEF TagInv
  <1>4. ASSUME NEW n \in Inst PROVE SessionInv(d, n)'
    <2>1. SessionInv(d, n)
      BY SessionFacts, Zenon
    <2> QED
      BY <2>1, <1>1, <1>2, Zenon DEF SessionInv, OneAnswer
  <1> QED
    BY <1>3, <1>4, Zenon

\* The passing of time changes no answer.
LEMMA TickAnswer ==
  ASSUME ~ LateTU, IndType, AnswerInv,
         Tick
  PROVE  AnswerInv'
  <1>1. stxn' = [c \in Call |-> Aged(stxn[c])] /\ UNCHANGED <<inst, tu, wire>>
    BY ZenonT(60) DEF Tick, Aged
  <1> SUFFICES ASSUME NEW d \in Call
               PROVE  TagInv(d)' /\ \A n \in Inst : SessionInv(d, n)'
    BY DEF AnswerInv
  <1>2. SameView(stxn[d], stxn'[d]) /\ stxn'[d].tag = stxn[d].tag
    BY <1>1, SessionFacts, TimerOps, Zenon DEF SameView
  <1>3. cache'[d].st = cache[d].st /\ cache'[d].tag = cache[d].tag
    BY ZenonT(60), SessionFacts DEF Tick, CachedInviteFinal
  <1>4. ASSUME NEW n \in Inst PROVE SessionInv(d, n)'
    <2>1. OneAnswer(stxn'[d], cache[d], inst[d], tu[d][n], wire[d][n], n)
      BY SessionFacts, <1>2, KeepAnswer, ZenonT(60) DEF SessionInv
    <2> QED
      BY <2>1, <1>1, <1>3, Zenon DEF SessionInv, OneAnswer
  <1> QED
    BY SessionFacts, <1>2, <1>4, Zenon DEF TagInv, SameView

\* Handing an event to the TU changes no answer.
LEMMA DeliverEventAnswer ==
  ASSUME ~ LateTU, IndType, AnswerInv,
         DeliverEvent
  PROVE  AnswerInv'
  <1> DEFINE e == Head(events)
  <1>1. /\ UNCHANGED <<stxn, cache, inst, wire>>
        /\ tu' = IF e.kind = "IncomingInvite"
                 THEN [tu EXCEPT ![e.c][e.n] = "active"] ELSE tu
    BY Zenon DEF DeliverEvent
  <1> HIDE DEF e
  <1> SUFFICES ASSUME NEW d \in Call, NEW n \in Inst PROVE SessionInv(d, n)'
    BY <1>1, SessionFacts, Zenon DEF AnswerInv, TagInv
  <1>2. tu'[d][n] = tu[d][n] \/ tu'[d][n] \notin TUFinal
    BY <1>1 DEF IndType, TypeOK, TUFinal
  <1>3. SessionInv(d, n)
    BY SessionFacts
  <1>4. /\ \A a : Held(tu[d][n], wire[d][n], a) => Held(tu'[d][n], wire[d][n], a)
        /\ Silent(tu[d][n], wire[d][n]) => Silent(tu'[d][n], wire[d][n])
    BY <1>2, Zenon DEF Held, Silent
  <1> QED
    BY <1>1, <1>3, <1>4, Zenon DEF SessionInv, OneAnswer

\* record_invite_final accepts a final only for an unanswered session.
LEMMA RecordFinalAnswer ==
  ASSUME ~ LateTU, IndType, AnswerInv,
         NEW c \in Call, NEW m \in Inst, NEW st \in TUFinal,
         record_invite_final(c, m, st)
  PROVE  AnswerInv'
  <1> DEFINE t == send_final(stxn[c], st, m)
             e == [st |-> st, src |-> stxn[c].src, tag |-> m, age |-> 0]
  <1>1. stxn[c].state = "Proceeding" /\ stxn[c].n = m
    BY Zenon DEF record_invite_final, MayRecord
  <1>2. /\ UNCHANGED <<inst, wire>>
        /\ tu' = [tu EXCEPT ![c][m] = st]
        /\ stxn' = [stxn EXCEPT ![c] = t]
        /\ cache' = [cache EXCEPT ![c] = e]
    BY <1>1, Zenon DEF record_invite_final
  <1>3. st \in Final /\ st # "none" /\ m <= inst[c]
    BY SessionFacts, <1>1, Zenon DEF TxnInv, Final, TUFinal
  <1>4. t.n = m /\ t.st = st /\ t.tag = m
        /\ t.state \notin {"Absent", "Proceeding"}
    <2>1. stxn[c] \in ServerTransaction
      BY SessionFacts, Zenon
    <2> QED
      BY <1>1, <1>3, <2>1, SendFinalOp
  <1>5. e.st = st /\ e.tag = m
    BY Zenon
  <1> HIDE DEF t, e
  <1> SUFFICES ASSUME NEW d \in Call
               PROVE  TagInv(d)' /\ \A n \in Inst : SessionInv(d, n)'
    BY Zenon DEF AnswerInv
  <1>6. CASE d # c
    BY Zenon, SessionFacts, <1>2, <1>6 DEF TagInv, SessionInv, IndType, TypeOK
  <1>7. CASE d = c
    <2>1. /\ stxn'[d] = t /\ cache'[d] = e
          /\ \A n \in Inst : tu'[d][n] = IF n = m THEN st ELSE tu[d][n]
      BY <1>2, <1>7, Zenon DEF IndType, TypeOK
    <2>2. ASSUME NEW n \in Inst, n = m PROVE SessionInv(d, n)'
      <3>0. SessionInv(d, n) /\ tu'[d][n] = st
        BY SessionFacts, <2>1, <2>2, Zenon
      <3>1. wire'[d][n] = {}
        BY <3>0, <1>1, <1>2, <1>7, <2>2, Zenon DEF SessionInv, OneAnswer, Silent
      <3>2. Held(tu'[d][n], wire'[d][n], st)
        BY <3>0, <3>1, Zenon DEF Held
      <3>3. ~ (n > inst'[d]) /\ n <= inst'[d]
        <4>1. m <= inst[c] /\ inst'[d] = inst[c] /\ inst[c] \in Nat
          BY <1>2, <1>3, <1>7, SessionFacts, Zenon
        <4>2. m \in Nat
          BY Numbers DEF Inst
        <4> QED BY <2>2, <4>1, <4>2
      <3> QED
        BY <3>2, <3>3, <1>3, <1>4, <1>5, <2>1, <2>2, ZenonT(60) DEF SessionInv, OneAnswer
    <2>3. ASSUME NEW n \in Inst, n # m PROVE SessionInv(d, n)'
      <3>1. SessionInv(d, n) /\ tu'[d][n] = tu[d][n]
        BY SessionFacts, <2>1, <2>3, Zenon
      <3> QED
        BY <3>1, <1>2, <1>4, <1>5, <2>1, <2>3, Zenon DEF SessionInv, OneAnswer
    <2>4. TagInv(d)'
      BY <2>1, <1>4, Zenon DEF TagInv
    <2> QED
      BY <2>2, <2>3, <2>4, Zenon
  <1> QED
    BY <1>6, <1>7, Zenon

\* The TU puts on the wire only the final it was allowed to record.
LEMMA SendFinalAnswer ==
  ASSUME ~ LateTU, IndType, AnswerInv,
         NEW c \in Call, NEW m \in Inst, SendFinal(c, m)
  PROVE  AnswerInv'
  <1> DEFINE a == tu[c][m]
  <1>1. /\ a \in TUFinal /\ a \in Final \cup {"none"} /\ a \in Final /\ a # "none"
        /\ tu' = [tu EXCEPT ![c][m] = "done"]
        /\ wire' = OnWire(wire, c, a, m) \/ wire' = wire
        /\ UNCHANGED <<stxn, cache, inst>>
    BY Zenon DEF SendFinal, Final, TUFinal
  <1> HIDE DEF a
  <1> SUFFICES ASSUME NEW d \in Call, NEW n \in Inst PROVE SessionInv(d, n)'
    BY <1>1, SessionFacts, Zenon DEF AnswerInv, TagInv
  <1>2. tu'[d][n] = IF d = c /\ n = m THEN "done" ELSE tu[d][n]
    BY <1>1, Zenon DEF IndType, TypeOK
  <1>3. \/ wire'[d][n] = wire[d][n]
        \/ d = c /\ n = m /\ wire'[d][n] = wire[d][n] \cup {a}
    <2>1. OnWire(wire, c, a, m)[d][n] =
            IF a # "none" /\ d = c /\ n = m THEN wire[d][n] \cup {a} ELSE wire[d][n]
      <3>1. wire \in [Call -> [Inst -> SUBSET Final]]
        BY SessionFacts, Zenon
      <3> QED
        BY Zenon, <3>1 DEF OnWire
    <2>2. CASE wire' = wire
      BY <2>2, Zenon
    <2>3. CASE wire' = OnWire(wire, c, a, m)
      <3>1. wire'[d][n] = OnWire(wire, c, a, m)[d][n]
        BY <2>3, Zenon
      <3> QED
        BY <2>1, <3>1, Zenon
    <2> QED
      BY <1>1, <2>2, <2>3, Zenon
  <1>4. OneAnswer(stxn[d], cache[d], inst[d], tu[d][n], wire'[d][n], n)
    <2>1. CASE wire'[d][n] = wire[d][n]
      BY SessionFacts, <2>1, Zenon DEF SessionInv
    <2>2. CASE d = c /\ n = m /\ wire'[d][n] = wire[d][n] \cup {a}
      <3>1. OneAnswer(stxn[d], cache[d], inst[d], tu[d][n], wire[d][n], n)
        BY SessionFacts, Zenon DEF SessionInv
      <3> QED
        <4>1. /\ stxn[d].n <= inst[d]
              /\ stxn[d].state \in {"Absent", "Proceeding"} <=> stxn[d].st = "none"
          BY SessionFacts, Zenon DEF TxnInv
        <4>2. /\ stxn[d] \in ServerTransaction /\ cache[d] \in CachedInviteFinal
              /\ inst[d] \in Nat /\ tu[d][n] = a
          BY SessionFacts, <2>2, Zenon DEF a
        <4>3. OneAnswer(stxn[d], cache[d], inst[d], tu[d][n], wire[d][n] \cup {a}, n)
          BY <1>1, <3>1, <4>1, <4>2, RepeatAnswer, ZenonT(60)
        <4> QED
          BY <2>2, <4>3, Zenon
    <2> QED
      BY <1>3, <2>1, <2>2, ZenonT(60)
  <1>5. /\ \A b : Held(tu[d][n], wire'[d][n], b) => Held(tu'[d][n], wire'[d][n], b)
        /\ Silent(tu[d][n], wire'[d][n]) => Silent(tu'[d][n], wire'[d][n])
    BY <1>2, Zenon DEF Held, Silent, TUFinal
  <1> QED
    BY <1>1, <1>4, <1>5, Zenon DEF SessionInv, OneAnswer

\* Every step of the layer preserves the agreement on one answer.
LEMMA StepAnswer == ~ LateTU /\ IndAnswer /\ [Next]_vars => IndAnswer'
  <1> SUFFICES ASSUME ~ LateTU, IndType, AnswerInv, [Next]_vars
               PROVE  AnswerInv'
    BY StepType, Zenon DEF IndAnswer
  <1>1. CASE Datagram
    BY <1>1, ReplayInviteAnswer, RecvInviteAnswer, RecvAck2xxAnswer,
      RecvAckNon2xxAnswer, RecvCancelAnswer, InvisibleAnswer, Zenon
      DEF Datagram, RecvRequest, RecvAbsorbed
  <1>2. CASE TUAction
    BY <1>2, DeliverEventAnswer, RecordFinalAnswer, SendFinalAnswer, Zenon DEF TUAction
  <1> QED
    BY <1>1, <1>2, TimerPassAnswer, ReapAnswer, TickAnswer, InvisibleAnswer, Zenon
      DEF Next, EmitEvent, vars

\* At most one final response is ever put on the wire for a session, for
\* any number of calls, sources and sessions, as long as the TU answers the
\* transaction its session was created with (record_invite_final against
\* handle_cancel_request, handle_timers and the replay of handle_request).
THEOREM AnsweredOnce ==
  ASSUME ~ LateTU
  PROVE  Spec => []SingleFinal
  <1>1. IndAnswer /\ [Next]_vars => IndAnswer'
    BY StepAnswer, Zenon
  <1>2. IndAnswer => SingleFinal
    <2> SUFFICES ASSUME IndAnswer, NEW c \in Call, NEW n \in Inst
                 PROVE  \A a, b \in wire[c][n] : a = b
      BY ZenonT(60) DEF SingleFinal
    <2>1. PICK a \in Final : Held(tu[c][n], wire[c][n], a)
      BY Zenon DEF IndAnswer, AnswerInv, SessionInv, OneAnswer
    <2> QED
      BY <2>1, Zenon DEF Held
  <1> QED
    BY InitAnswer, <1>1, <1>2, PTL DEF Spec

\* No response leaves the wire's history.
LEMMA WireGrows ==
  ASSUME IndType, [Next]_vars, NEW c \in Call, NEW n \in Inst
  PROVE  wire[c][n] \subseteq wire'[c][n]
  <1>0. wire \in [Call -> [Inst -> SUBSET Final]]
    BY Zenon DEF IndType, TypeOK
  <1>1. ASSUME NEW d \in Call, NEW st, NEW tag
        PROVE  wire[c][n] \subseteq OnWire(wire, d, st, tag)[c][n]
    BY <1>0, Zenon DEF OnWire
  <1>2. CASE TimerPass
    BY <1>0, <1>2, Zenon DEF TimerPass
  <1>3. CASE wire' = wire
    BY <1>3, Zenon
  <1>4. ASSUME NEW d \in Call, NEW src \in Src, ReplayInvite(d, src)
        PROVE  wire[c][n] \subseteq wire'[c][n]
    BY <1>1, <1>4, Zenon DEF ReplayInvite
  <1>5. ASSUME NEW d \in Call, NEW src \in Src, RecvCancel(d, src)
        PROVE  wire[c][n] \subseteq wire'[c][n]
    BY <1>1, <1>5, Zenon DEF RecvCancel
  <1>6. ASSUME NEW d \in Call, NEW m \in Inst, SendFinal(d, m)
        PROVE  wire[c][n] \subseteq wire'[c][n]
    BY <1>1, <1>6, Zenon DEF SendFinal
  <1>7. CASE wire' # wire
    <2>1. \/ TimerPass
          \/ \E d \in Call, src \in Src : ReplayInvite(d, src) \/ RecvCancel(d, src)
          \/ \E d \in Call, m \in Inst : SendFinal(d, m)
      BY ZenonT(60), <1>7 DEF Next, Datagram, TUAction, RecvInvite, RecvAck2xx, RecvAckNon2xx,
        RecvRequest, RecvAbsorbed, EmitEvent, Reap, DeliverEvent,
        record_invite_final, Tick, vars
    <2> QED
      BY <1>2, <1>4, <1>5, <1>6, <2>1, ZenonT(60)
  <1> QED
    BY <1>3, <1>7, Zenon

\* The layer implements the service it promises: every step creates the next
\* session of one INVITE, gives unanswered sessions their one answer, or is
\* invisible (record_invite_final, handle_cancel_request, handle_timers).
THEOREM LayerImplementsService ==
  ASSUME ~ LateTU
  PROVE  Spec => ImplementsService
  <1>1. Init => Service!Init
    BY Zenon DEF Init, Service!Init, Service!Inst, Inst
  <1>2. IndAnswer /\ [Next]_vars => IndAnswer'
    BY StepAnswer
  <1>3. IndAnswer /\ IndAnswer' /\ [Next]_vars => [Service!Next]_(Service!vars)
    <2> SUFFICES ASSUME IndAnswer, IndAnswer', [Next]_vars
                 PROVE  Service!Next \/ UNCHANGED <<inst, wire>>
      BY Zenon DEF Service!vars
    <2>1. CASE inst' = inst
      <3>1. wire' \in [Call -> [Inst -> SUBSET Final]]
        BY Zenon DEF IndAnswer, IndType, TypeOK
      <3>2. ASSUME NEW c \in Call, NEW n \in Inst, wire'[c][n] # wire[c][n]
            PROVE  /\ wire[c][n] = {} /\ n <= inst[c]
                   /\ \E st \in Final : wire'[c][n] = {st}
        <4>1. wire[c][n] \subseteq wire'[c][n]
          BY WireGrows, Zenon DEF IndAnswer
        <4>0. SessionInv(c, n)'
          BY Zenon DEF IndAnswer, AnswerInv
        <4>2. PICK a \in Final : wire'[c][n] \subseteq {a}
          BY <4>0, Zenon DEF SessionInv, OneAnswer, Held
        <4>3. wire'[c][n] = {a} /\ wire[c][n] = {}
          BY <3>2, <4>1, <4>2, Zenon
        <4>4. ~ (n > inst[c])
          BY <2>1, <4>0, <4>3, Zenon DEF SessionInv, OneAnswer, Silent
        <4>5. inst \in [Call -> 0 .. MaxInst]
          BY Zenon DEF IndAnswer, IndType, TypeOK
        <4> QED
          BY <4>3, <4>4, <4>5, Numbers DEF Inst
      <3> QED
        BY <2>1, <3>1, <3>2, Zenon DEF Service!Next, Service!Answer, Service!Inst, Inst
    <2>2. CASE inst' # inst
      <3>1. PICK c \in Call, src \in Src : RecvInvite(c, src)
        BY ZenonT(60), <2>2 DEF Next, Datagram, TUAction, ReplayInvite, RecvCancel, RecvAck2xx,
          RecvAckNon2xx, RecvRequest, RecvAbsorbed, EmitEvent, Reap, DeliverEvent,
          record_invite_final, SendFinal, TimerPass, Tick, vars
      <3> QED
        BY Zenon, <3>1 DEF RecvInvite, Service!Next, Service!Create
    <2> QED
      BY <2>1, <2>2, Zenon
  <1> QED
    BY InitAnswer, <1>1, <1>2, <1>3, PTL DEF Spec, ImplementsService, Service!Spec

-----------------------------------------------------------------------------
(* The end of a 2xx.                                                        *)

\* Accepted is the state of a 2xx.
AcceptedInv == \A c \in Call : stxn[c].state = "Accepted" => stxn[c].st = "200"

\* What becomes of a transaction in one step.
LEMMA TransactionSteps ==
  ASSUME IndType, [Next]_vars, NEW c \in Call
  PROVE  \/ /\ stxn'[c].st = stxn[c].st
            /\ stxn'[c].state = stxn[c].state
         \/ stxn[c].state = "Proceeding" /\ stxn'[c].state = "Accepted" /\ stxn'[c].st = "200"
         \/ stxn[c].state = "Proceeding" /\ stxn'[c].state = "Completed"
         \/ /\ \E src \in Src : RecvInvite(c, src)
            /\ stxn'[c].state = "Proceeding"
         \/ /\ stxn' = [stxn EXCEPT ![c] = on_ack(@)]
            /\ \/ \E n \in Inst, src \in Src : RecvAck2xx(c, n, src)
               \/ \E src \in Src : RecvAckNon2xx(c, src)
         \/ TimerPass /\ timer_h_expired(stxn[c]) /\ stxn'[c].state = "Terminated"
         \/ stxn[c].state # "Accepted" /\ stxn'[c].state \in {"Terminated", "Absent"}
  <1> USE DEF IndType
  <1>0. stxn \in [Call -> ServerTransaction] /\ stxn[c] \in ServerTransaction
    BY Zenon DEF TypeOK
  <1>1. CASE stxn' = stxn
    BY <1>1, Zenon
  <1>2. ASSUME NEW d \in Call, NEW src \in Src, RecvInvite(d, src)
        PROVE  IF d = c THEN stxn'[c].state = "Proceeding" ELSE stxn'[c] = stxn[c]
    BY <1>0, <1>2, Zenon DEF RecvInvite, NewServerTransaction
  <1>3. ASSUME NEW d \in Call, stxn' = [stxn EXCEPT ![d] = on_ack(@)], d # c
        PROVE  stxn'[c] = stxn[c]
    BY <1>0, <1>3, Zenon
  <1>4. ASSUME NEW d \in Call, NEW src \in Src, RecvCancel(d, src), stxn' # stxn
        PROVE  \/ stxn'[c] = stxn[c]
               \/ stxn[c].state = "Proceeding" /\ stxn'[c].state = "Completed"
    <2>1. /\ stxn' = [stxn EXCEPT ![d] = send_final(@, "487", stxn[d].n)]
          /\ stxn[d].state = "Proceeding"
      BY <1>4, Zenon DEF RecvCancel
    <2>2. send_final(stxn[c], "487", stxn[c].n).state = "Completed"
      BY <1>0, Zenon DEF send_final, ServerTransaction
    <2> QED BY <1>0, <2>1, <2>2, Zenon
  <1>5. CASE TimerPass
    <2>1. stxn'[c] = TimerStep(stxn[c])
      BY <1>5, Zenon DEF TimerPass, TimerStep
    <2>2. TimerStep(stxn[c]).st = stxn[c].st
      BY <1>0, TimerOps, Zenon
    <2>3. \/ TimerStep(stxn[c]).state = stxn[c].state
          \/ /\ TimerStep(stxn[c]).state = "Terminated"
             /\ timer_h_expired(stxn[c]) \/ stxn[c].state # "Accepted"
      <3> DEFINE u == IF needs_retransmit(stxn[c]) THEN advance_retransmit_timer(stxn[c])
                      ELSE stxn[c]
      <3>1. /\ u.state = stxn[c].state /\ u.final = stxn[c].final
            /\ [u EXCEPT !.state = "Terminated"].state = "Terminated"
        BY <1>0, Zenon DEF advance_retransmit_timer, ServerTransaction
      <3> HIDE DEF u
      <3>2. \/ expire(u) = u
            \/ /\ expire(u).state = "Terminated"
               /\ timer_h_expired(u) \/ timer_i_expired(u)
        BY <3>1, Zenon DEF expire
      <3>3. timer_h_expired(u) => timer_h_expired(stxn[c])
        BY <3>1, Zenon DEF timer_h_expired, AwaitsAck
      <3>4. timer_i_expired(u) => stxn[c].state # "Accepted"
        BY <3>1, Zenon DEF timer_i_expired
      <3> QED BY <3>1, <3>2, <3>3, <3>4, ZenonT(60) DEF TimerStep, u
    <2> QED BY <1>5, <2>1, <2>2, <2>3, Zenon
  <1>6. CASE Reap
    <2>1. stxn'[c] = stxn[c] \/ (stxn[c].state = "Terminated" /\ stxn'[c] = NoServerTransaction)
      BY <1>6, Zenon DEF Reap
    <2>2. NoServerTransaction.state = "Absent"
      BY Zenon DEF NoServerTransaction, NewServerTransaction
    <2> QED BY <2>1, <2>2, ZenonT(60)
  <1>7. ASSUME NEW d \in Call, NEW n \in Inst, NEW st \in TUFinal,
               record_invite_final(d, n, st), stxn' # stxn
        PROVE  \/ stxn'[c] = stxn[c]
               \/ /\ stxn[c].state = "Proceeding"
                  /\ \/ stxn'[c].state = "Accepted" /\ stxn'[c].st = "200"
                     \/ stxn'[c].state = "Completed"
    <2>1. stxn' = [stxn EXCEPT ![d] = send_final(@, st, n)] /\ stxn[d].state = "Proceeding"
      BY <1>7, Zenon DEF record_invite_final, MayRecord
    <2>2. \/ send_final(stxn[c], st, n).state = "Completed"
          \/ /\ send_final(stxn[c], st, n).state = "Accepted"
             /\ send_final(stxn[c], st, n).st = "200"
      BY <1>0, Zenon DEF send_final, ServerTransaction
    <2> QED BY <1>0, <2>1, <2>2, Zenon
  <1>8. CASE Tick
    <2>1. stxn' = [d \in Call |-> Aged(stxn[d])]
      BY Zenon, <1>8 DEF Tick, Aged
    <2> QED BY <1>0, <2>1, TimerOps, Zenon
  <1>9. CASE \/ \E d \in Call, src \in Src : ReplayInvite(d, src)
             \/ RecvAbsorbed \/ EmitEvent \/ DeliverEvent \/ UNCHANGED vars
             \/ \E r \in Req, src \in Src : RecvRequest(r, src)
             \/ \E d \in Call, n \in Inst : SendFinal(d, n)
    BY <1>1, <1>9, Zenon DEF ReplayInvite, RecvAbsorbed, EmitEvent, DeliverEvent, vars,
      RecvRequest, SendFinal
  <1>10. ASSUME NEW d \in Call, NEW src \in Src,
                RecvAckNon2xx(d, src) \/ \E n \in Inst : RecvAck2xx(d, n, src)
         PROVE  stxn' = [stxn EXCEPT ![d] = on_ack(@)]
    BY <1>10, Zenon DEF RecvAckNon2xx, RecvAck2xx
  <1>11. CASE \E d \in Call, src \in Src : RecvInvite(d, src)
    BY <1>2, <1>11, Zenon
  <1>12. CASE \E d \in Call, src \in Src :
                RecvAckNon2xx(d, src) \/ \E n \in Inst : RecvAck2xx(d, n, src)
    <2>1. PICK d \in Call, src \in Src :
                 RecvAckNon2xx(d, src) \/ \E n \in Inst : RecvAck2xx(d, n, src)
      BY <1>12, Zenon
    <2>2. stxn' = [stxn EXCEPT ![d] = on_ack(@)]
      BY <1>10, <2>1, Zenon
    <2>3. CASE d = c
      BY <2>1, <2>2, <2>3, Zenon
    <2>4. CASE d # c
      BY <1>3, <2>2, <2>4, ZenonT(60)
    <2> QED BY <2>3, <2>4, Zenon
  <1>13. CASE \E d \in Call, src \in Src : RecvCancel(d, src)
    BY <1>1, <1>4, <1>13, ZenonT(60)
  <1>14. CASE \E d \in Call, n \in Inst, st \in TUFinal : record_invite_final(d, n, st)
    BY <1>1, <1>7, <1>14, Zenon
  <1> QED
    BY <1>5, <1>6, <1>8, <1>9, <1>11, <1>12, <1>13, <1>14, Zenon DEF Next, Datagram, TUAction

\* Every step keeps it.
LEMMA StepAccepted ==
  ASSUME IndType, AcceptedInv, [Next]_vars
  PROVE  AcceptedInv'
  <1> SUFFICES ASSUME NEW c \in Call, stxn'[c].state = "Accepted"
               PROVE  stxn'[c].st = "200"
    BY ZenonT(60) DEF AcceptedInv
  <1>1. stxn[c] \in ServerTransaction /\ stxn \in [Call -> ServerTransaction]
    BY Zenon DEF IndType, TypeOK
  <1>2. on_ack(stxn[c]).state # "Accepted"
    BY <1>1, Zenon DEF on_ack, ServerTransaction
  <1>3. stxn' = [stxn EXCEPT ![c] = on_ack(@)] => stxn'[c] = on_ack(stxn[c])
    BY <1>1, Zenon
  <1> QED BY <1>2, <1>3, TransactionSteps, Zenon DEF AcceptedInv

\* A 2xx ends with its ACK or with Timer H, and the TU is told which.
LEMMA EndReported ==
  ASSUME ~ LateTU, MaxInst = 1, NEW s, Src = {s},
         IndAnswer, AcceptedInv, [Next]_vars,
         NEW c \in Call, stxn[c].state = "Accepted", stxn'[c].state # "Accepted"
  PROVE  \E e \in outbox' : /\ e.c = c
                            /\ \/ e.kind = "InviteAckTimeout"
                               \/ e.kind = "IncomingAck" /\ e.n = stxn[c].tag
  <1>1. IndType /\ AnswerInv /\ stxn[c] \in ServerTransaction
    BY Zenon DEF IndAnswer, IndType, TypeOK
  <1>2. stxn[c].src \in Src
    BY <1>1, Zenon DEF ServerTransaction
  <1>3. ASSUME NEW src \in Src PROVE ~ RecvInvite(c, src)
    BY <1>2, ZenonT(60) DEF RecvInvite, MatchesInvite
  <1>4. ASSUME NEW src \in Src PROVE ~ RecvAckNon2xx(c, src)
    <2>1. Inst = {1} /\ stxn[c].n = 1
      <3>1. stxn[c].n >= 1 /\ stxn[c].n \in 0 .. MaxInst
        BY <1>1, Zenon DEF IndType, TxnInv, ServerTransaction
      <3>2. 1 .. 1 = {1} /\ \A n \in 0 .. 1 : n >= 1 => n = 1
        OBVIOUS
      <3> QED BY <3>1, <3>2, Zenon DEF Inst
    <2>2. SessionInv(c, 1) /\ stxn[c].st = "200"
      BY <1>1, <2>1, ZenonT(60) DEF AnswerInv, AcceptedInv
    <2>3. wire[c][1] \subseteq {"200"}
      BY <2>1, <2>2, Zenon DEF SessionInv, OneAnswer, Held
    <2> QED BY <2>1, <2>3, Zenon DEF RecvAckNon2xx
  <1>5. CASE \E n \in Inst, src \in Src : RecvAck2xx(c, n, src)
    <2>1. PICK n \in Inst, src \in Src : RecvAck2xx(c, n, src)
      BY <1>5, ZenonT(60)
    <2>2. EventOf("IncomingAck", c, n, src) \in outbox' /\ stxn[c].tag = n
      BY <2>1, Zenon DEF RecvAck2xx
    <2> QED BY <2>2, Zenon DEF EventOf
  <1>6. CASE TimerPass /\ timer_h_expired(stxn[c])
    <2>1. EventOf("InviteAckTimeout", c, stxn[c].n, stxn[c].src) \in TimeoutEvents(c)
      BY <1>6, Zenon DEF TimeoutEvents
    <2>2. EventOf("InviteAckTimeout", c, stxn[c].n, stxn[c].src) \in outbox'
      BY <1>6, <2>1, Zenon DEF TimerPass
    <2> QED BY <2>2, Zenon DEF EventOf
  <1> QED BY <1>1, <1>3, <1>4, <1>5, <1>6, TransactionSteps, ZenonT(60)

\* A 2xx stays with its transaction, which retransmits it, until the TU is told
\* that its ACK came or that Timer H gave up waiting, for the one session of an
\* INVITE that comes from one address (send_final, accepted_ack_branch,
\* expire_timers).
THEOREM AcceptedEnds ==
  ASSUME ~ LateTU, MaxInst = 1, NEW s, Src = {s}
  PROVE  Spec => AcceptedEndIsReported
  <1> DEFINE Reported ==
        \A c \in Call :
          stxn[c].state = "Accepted" /\ stxn'[c].state # "Accepted" =>
            \E e \in outbox' :
              /\ e.c = c
              /\ \/ e.kind = "InviteAckTimeout"
                 \/ e.kind = "IncomingAck" /\ e.n = stxn[c].tag
  <1>1. Init => IndAnswer /\ AcceptedInv
    BY InitAnswer DEF Init, AcceptedInv, NoServerTransaction, NewServerTransaction
  <1>2. IndAnswer /\ AcceptedInv /\ [Next]_vars => (IndAnswer /\ AcceptedInv)'
    BY StepAnswer, StepAccepted, Zenon DEF IndAnswer
  <1>3. IndAnswer /\ AcceptedInv /\ [Next]_vars => [Reported]_vars
    BY EndReported, Zenon
  <1> HIDE DEF Reported
  <1>4. Spec => [][Reported]_vars
    BY <1>1, <1>2, <1>3, PTL DEF Spec
  <1> QED BY <1>4, Zenon DEF Reported, AcceptedEndIsReported
=============================================================================
