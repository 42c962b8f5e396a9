----------------------------- MODULE SipClient ------------------------------
(***************************************************************************)
(* The client transactions of asterisk-sip: the INVITE and the non-INVITE  *)
(* client state machines (transaction/mod.rs) as the stack drives them     *)
(* (stack.rs): tasks send requests, the single loop of SipStack::run takes *)
(* responses and makes timer passes, the peer answers over a network that  *)
(* loses, reorders and repeats.                                            *)
(*                                                                         *)
(* A request is identified by its branch and the map it lives in, so an    *)
(* INVITE and its CANCEL are two requests.  The queue to the application   *)
(* is modelled in SipServer; here an emitted event is told at once.        *)
(***************************************************************************)
EXTENDS Naturals, FiniteSets

CONSTANTS
  Branch,     \* client requests
  T1, T2,     \* RFC 3261 timers, in units of the model's clock
  TIMER_B,    \* and TIMER_F, 64 * T1
  TIMER_D,    \* TIMER_D_UDP
  TIMER_K,    \* TIMER_K_UDP
  MaxAge,     \* bound: clocks stop here, beyond every timer
  MaxSends    \* bound: responses a peer sends to one request

\* Every timer is set, and its clock runs long enough to expire it.
ASSUME ClientTimers ==
  /\ {T1, T2, TIMER_B, TIMER_D, TIMER_K} \subseteq Nat \ {0}
  /\ MaxAge \in Nat /\ MaxSends \in Nat
  /\ \A d \in {T1, T2, TIMER_B, TIMER_D, TIMER_K} : d <= MaxAge

VARIABLES
  kind,   \* of a request: "invite" or "other"
  txn,    \* invite_client_txns and non_invite_client_txns, {} if absent
  loop,   \* SipStack::run: where it stands, and the branches left to do
  asked,  \* the task in send_invite or send_request
  reached,   \* a copy of the request reached the peer
  net,    \* how many of each response are under way
  sends,  \* responses sent so far
  final,  \* the peer's final status, "none" at first
  told    \* history: what the application was told, and what was matched

clientVars == <<kind, txn, loop, asked, reached, net, sends, final, told>>

-----------------------------------------------------------------------------
Status == {"1xx", "2xx", "fail"}
Source == {"remote_addr", "elsewhere"}
Response == [status: Status, src: Source]
Waiting == {"Calling", "Trying", "Proceeding"}
Limit(n) == IF n > MaxAge THEN MaxAge + 1 ELSE n

\* ClientTransaction::new, NonInviteClientTransaction::new
NewTxn(k) ==
  [state |-> IF k = "invite" THEN "Calling" ELSE "Trying",
   interval |-> T1, started |-> 0, completed |-> {}, retransmitted |-> 0]

\* Mutant: completed_at is not set for a refused INVITE.
on_invite_response_unset(t, s) ==
  IF t.state \notin Waiting THEN t
  ELSE [t EXCEPT !.state = CASE s = "1xx" -> "Proceeding"
                             [] s = "2xx" -> "Terminated"
                             [] OTHER -> "Completed"]

\* ClientTransaction::on_response
on_invite_response(t, s) ==
  IF t.state \notin Waiting THEN t
  ELSE CASE s = "1xx" -> [t EXCEPT !.state = "Proceeding"]
         [] s = "2xx" -> [t EXCEPT !.state = "Terminated"]
         [] OTHER -> [t EXCEPT !.state = "Completed", !.completed = {0}]

\* NonInviteClientTransaction::on_response
on_other_response(t, s) ==
  CASE t.state = "Trying" /\ s = "1xx" ->
         [t EXCEPT !.state = "Proceeding", !.interval = T2]
    [] t.state \in Waiting /\ s # "1xx" ->
         [t EXCEPT !.state = "Completed", !.completed = {0}]
    [] OTHER -> t

\* needs_retransmit: only a silent INVITE, but any request still waiting.
needs_retransmit(t, k) ==
  /\ t.state \in (IF k = "invite" THEN {"Calling"} ELSE Waiting)
  /\ t.retransmitted >= t.interval

\* advance_retransmit_timer: Timer A doubles, Timer E up to T2.
advance_retransmit_timer(t, k) ==
  LET twice == Limit(2 * t.interval)
  IN [t EXCEPT !.interval = IF k = "other" /\ twice > T2 THEN T2 ELSE twice,
               !.retransmitted = 0]

\* Mutant: the timeout is not disarmed by a final response.
timeout_expired_armed(t) == t.started >= TIMER_B /\ t.state # "Terminated"

\* Mutant: a provisional response disarms the timeout for good.
timeout_expired_silent(t) ==
  t.state \in {"Calling", "Trying"} /\ t.started >= TIMER_B

\* timer_b_expired, timer_f_expired
timeout_expired(t) == t.state \in Waiting /\ t.started >= TIMER_B

\* timer_d_expired, timer_k_expired
absorbed(t, k) ==
  /\ t.state = "Completed"
  /\ \E at \in t.completed : at >= (IF k = "invite" THEN TIMER_D ELSE TIMER_K)

-----------------------------------------------------------------------------
ClientInit ==
  /\ kind \in [Branch -> {"invite", "other"}]
  /\ txn = [b \in Branch |-> {}]
  /\ loop = [at |-> "select", todo |-> {}]
  /\ asked = [b \in Branch |-> "idle"]
  /\ reached = [b \in Branch |-> FALSE]
  /\ net = [b \in Branch |-> [m \in Response |-> 0]]
  /\ sends = [b \in Branch |-> 0]
  /\ final = [b \in Branch |-> "none"]
  /\ told = [b \in Branch |->
               [finals |-> 0, timeouts |-> 0, error |-> FALSE,
                matched |-> 0]]

\* send_invite, send_request: publish the transaction, start the send.
send_request(b) ==
  /\ asked[b] = "idle"
  /\ asked' = [asked EXCEPT ![b] = "sending"]
  /\ txn' = [txn EXCEPT ![b] = {NewTxn(kind[b])}]
  /\ UNCHANGED <<kind, loop, reached, net, sends, final, told>>

\* The datagram leaves; the peer may answer before the send returns.
Transmit(b) ==
  /\ asked[b] = "sending" /\ ~ reached[b]
  /\ reached' = [reached EXCEPT ![b] = TRUE]
  /\ UNCHANGED <<kind, txn, loop, asked, net, sends, final, told>>

\* The send returns; the datagram may still be lost.
SendOk(b) ==
  /\ asked[b] = "sending"
  /\ asked' = [asked EXCEPT ![b] = "sent"]
  /\ UNCHANGED <<kind, txn, loop, reached, net, sends, final, told>>

\* The send fails: the transaction is removed and the caller gets the error.
SendErr(b) ==
  /\ asked[b] = "sending" /\ ~ reached[b]
  /\ asked' = [asked EXCEPT ![b] = "failed"]
  /\ txn' = [txn EXCEPT ![b] = {}]
  /\ told' = [told EXCEPT ![b].error = TRUE]
  /\ UNCHANGED <<kind, loop, reached, net, sends, final>>

\* The peer answers, or repeats its answer, from the address the request was
\* sent to or from another one.
PeerAnswers(b, m) ==
  /\ reached[b] /\ sends[b] < MaxSends
  /\ m.status # "1xx" => final[b] \in {"none", m.status}
  /\ final' = [final EXCEPT ![b] = IF m.status = "1xx" THEN @ ELSE m.status]
  /\ net' = [net EXCEPT ![b][m] = @ + 1]
  /\ sends' = [sends EXCEPT ![b] = @ + 1]
  /\ UNCHANGED <<kind, txn, loop, asked, reached, told>>

\* handle_response, process_response: a response is matched by branch and
\* source, and goes to the application whether it was matched or not.
handle_response(b, m) ==
  LET matches == m.src = "remote_addr"
  IN /\ loop.at = "select"
     /\ net[b][m] > 0
     /\ net' = [net EXCEPT ![b][m] = @ - 1]
     /\ txn' = [txn EXCEPT ![b] =
                  IF ~ matches THEN @
                  ELSE {IF kind[b] = "invite"
                        THEN on_invite_response(t, m.status)
                        ELSE on_other_response(t, m.status) : t \in @}]
     /\ told' = [told EXCEPT
                   ![b].finals = IF m.status = "1xx" THEN @ ELSE @ + 1,
                   ![b].matched =
                      IF m.status # "1xx" /\ matches /\ txn[b] # {}
                      THEN @ + 1 ELSE @]
     /\ UNCHANGED <<kind, loop, asked, reached, sends, final>>

\* The 50 ms sleep of the select wins: handle_timers collects what is due.
handle_timers ==
  /\ loop.at = "select"
  /\ \E b \in Branch : txn[b] # {}
  /\ loop' = [at |-> "retransmit",
              todo |-> {b \in Branch :
                          \E t \in txn[b] : needs_retransmit(t, kind[b])}]
  /\ UNCHANGED <<kind, txn, asked, reached, net, sends, final, told>>

\* One retransmission; the transaction may be gone by the time it is sent.
SendAgain(b) ==
  /\ loop.at = "retransmit" /\ b \in loop.todo
  /\ loop' = [loop EXCEPT !.todo = @ \ {b}]
  /\ txn' = [txn EXCEPT ![b] = {advance_retransmit_timer(t, kind[b]) : t \in @}]
  /\ \/ reached' = [reached EXCEPT ![b] = TRUE]
     \/ UNCHANGED reached
  /\ UNCHANGED <<kind, asked, net, sends, final, told>>

\* expire_timers: B and F are reported, D and K are silent.
expire_timers ==
  /\ loop.at = "retransmit" /\ loop.todo = {}
  /\ txn' = [b \in Branch |->
               {IF timeout_expired(t) \/ absorbed(t, kind[b])
                THEN [t EXCEPT !.state = "Terminated"] ELSE t : t \in txn[b]}]
  /\ loop' = [at |-> "emit",
              todo |-> {b \in Branch : \E t \in txn[b] : timeout_expired(t)}]
  /\ UNCHANGED <<kind, asked, reached, net, sends, final, told>>

\* TransactionTimeout goes to the application.
EmitTimeout(b) ==
  /\ loop.at = "emit" /\ b \in loop.todo
  /\ loop' = [loop EXCEPT !.todo = @ \ {b}]
  /\ told' = [told EXCEPT ![b].timeouts = @ + 1]
  /\ UNCHANGED <<kind, txn, asked, reached, net, sends, final>>

\* The end of handle_timers: terminated transactions are dropped.
Reap ==
  /\ loop.at = "emit" /\ loop.todo = {}
  /\ txn' = [b \in Branch |-> {t \in txn[b] : t.state # "Terminated"}]
  /\ loop' = [at |-> "select", todo |-> {}]
  /\ UNCHANGED <<kind, asked, reached, net, sends, final, told>>

\* Time passes.
Later(n) == IF n < MaxAge THEN n + 1 ELSE n
Tick ==
  /\ \E b \in Branch : \E t \in txn[b] :
       \/ t.started < MaxAge \/ t.retransmitted < MaxAge
       \/ \E at \in t.completed : at < MaxAge
  /\ txn' = [b \in Branch |->
               {[t EXCEPT !.started = Later(@), !.retransmitted = Later(@),
                          !.completed = {Later(at) : at \in @}] : t \in txn[b]}]
  /\ UNCHANGED <<kind, loop, asked, reached, net, sends, final, told>>

ClientNext ==
  \/ \E b \in Branch :
       \/ send_request(b) \/ Transmit(b) \/ SendOk(b) \/ SendErr(b)
       \/ \E m \in Response : PeerAnswers(b, m) \/ handle_response(b, m)
       \/ SendAgain(b) \/ EmitTimeout(b)
  \/ handle_timers \/ expire_timers \/ Reap \/ Tick

\* The runtime schedules the loop and the senders, and time passes.  The peer
\* and the network owe nothing.
ClientFairness ==
  /\ WF_clientVars(Tick) /\ WF_clientVars(handle_timers)
  /\ WF_clientVars(expire_timers) /\ WF_clientVars(Reap)
  /\ \A b \in Branch :
       /\ WF_clientVars(SendOk(b))
       /\ WF_clientVars(SendAgain(b)) /\ WF_clientVars(EmitTimeout(b))

ClientSpec == ClientInit /\ [][ClientNext]_clientVars /\ ClientFairness

-----------------------------------------------------------------------------
(* Properties                                                               *)

ClientTypeOK ==
  /\ \A b \in Branch :
       /\ Cardinality(txn[b]) <= 1
       /\ \A t \in txn[b] :
            /\ t.state \in Waiting \cup {"Completed", "Terminated"}
            /\ t.interval \in 1 .. MaxAge + 1
            /\ t.completed \subseteq 0 .. MaxAge
  /\ loop \in [at: {"select", "retransmit", "emit"}, todo: SUBSET Branch]
  /\ net \in [Branch -> [Response -> 0 .. MaxSends]]

\* A request is timed out at most once, and never after its transaction took
\* a final response from the peer (timer_b_expired, timer_f_expired against
\* on_response; the tests of the application rely on one outcome).
NoTimeoutAfterFinal ==
  \A b \in Branch :
    told[b].timeouts <= 1 /\ ~ (told[b].matched > 0 /\ told[b].timeouts > 0)

\* Every request has an outcome: its sender sees an error, or the application
\* hears of a final response or of a timeout, whatever the network loses and
\* however the answer races the send.
OutcomeIsReported ==
  \A b \in Branch :
    asked[b] = "sending" ~>
      told[b].error \/ told[b].finals > 0 \/ told[b].timeouts > 0

\* "Timer D absorbs retransmitted non-2xx finals after the ACK was sent": the
\* application hears of a refusal of its INVITE once (handle_response emits
\* every copy, so this one fails).
RefusalIsAbsorbed ==
  \A b \in Branch :
    kind[b] = "invite" /\ final[b] = "fail" => told[b].matched <= 1

\* No client transaction stays in the maps for ever (expire_timers with the
\* retain at the end of handle_timers).
ClientIsReaped == \A b \in Branch : txn[b] # {} ~> txn[b] = {}
=============================================================================
