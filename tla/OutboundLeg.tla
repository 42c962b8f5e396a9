---------------------------- MODULE OutboundLeg ----------------------------
(***************************************************************************)
(* One outbound SIP leg, from the INVITE its owner sends to the moment      *)
(* every registry has forgotten it.  Four parties meet on it:               *)
(*                                                                          *)
(*  - the owner task: Dial() (asterisk-apps/src/dial.rs) or the AMI         *)
(*    Originate action (asterisk-ami/src/actions.rs), which calls the       *)
(*    driver, polls the leg's channel in the global store, and ends the leg *)
(*    through the event handler;                                            *)
(*  - the event consumer (rustisk-cli/src/main.rs), which handles one SIP   *)
(*    event after the other: responses, a BYE of the callee, timer events;  *)
(*  - the client transactions of the stack (stack.rs, transaction/mod.rs);  *)
(*  - the grace-period tasks that reap what is kept for a crossing answer.  *)
(*                                                                          *)
(* The callee and the network are external.                                 *)
(***************************************************************************)
EXTENDS Naturals, Sequences, FiniteSets

CONSTANTS
    Owner,            \* "Dial" or "Originate"
    MaxAuthAttempts,  \* MAX_OUTBOUND_AUTH_ATTEMPTS, 0 for a leg without outbound_auth
    MaxNet,           \* bound on the messages on their way from the callee
    Env               \* which of the optional behaviours below the surroundings show

(***************************************************************************)
(* "abandon"    the owner's timeout, or its caller, ends the wait           *)
(* "untagged"   the callee may send provisional responses without a To tag  *)
(* "challenge"  the callee may answer 401; "early": even after ringing      *)
(* "hangup"     the callee may end an acknowledged call                     *)
(* "badsdp"     the 200 may carry an answer that cannot be used             *)
(* "dup"        the network may duplicate; "reorder": and reorder           *)
(* "fast"       a response may arrive before driver.call() has returned     *)
(* "slow"       the callee may answer after Timer B                         *)
(* "unsent"     the transport may refuse an INVITE                          *)
(***************************************************************************)
Surroundings == {"abandon", "untagged", "challenge", "early", "hangup", "badsdp",
                 "dup", "reorder", "fast", "slow", "unsent"}

ASSUME LegAssumption ==
    /\ Owner \in {"Dial", "Originate"}
    /\ MaxAuthAttempts \in Nat
    /\ MaxNet \in Nat \ {0}
    /\ Env \subseteq Surroundings

\* CSeq numbers of the INVITEs of this leg: the first and one for each retry.
Seqs == 1 .. MaxAuthAttempts + 1

VARIABLES
    owner,   \* where the owner task is
    chan,    \* the store's channel: state, and whether softhangup was called
    held,    \* which registries still hold the leg
    cs,      \* CallState: the session, its INVITE, its dialog, abandoned
    lock,    \* the CallState mutex: free, or kept by the owner across its send
    con,     \* the event consumer: what it is doing, and to which event
    events,  \* the event queue between stack and consumer
    txn,     \* the INVITE client transaction of each CSeq
    bye,     \* the BYE client transaction
    reap,    \* the CSeqs a grace period was started for; {} when none runs
    net,     \* messages on their way from the callee
    out,     \* requests on their way to the callee
    uas,     \* the callee's side of each INVITE
    acked,   \* an ACK for a 2xx was sent
    ended    \* who has sent a BYE

vars == <<owner, chan, held, cs, lock, con, events, txn, bye, reap, net, out,
          uas, acked, ended>>

Registries == {"cmap", "states", "store", "driver", "notify"}
Media == {"store", "driver", "notify"}

\* "100" stands for a provisional response without a To tag, "180" for one with
\* a To tag, "4xx" for every failure but 486, and "401" for 407 as well.
Codes == {"100", "180", "200", "3xx", "401", "486", "4xx"}

Response(code, s) == [kind |-> "response", code |-> code, seq |-> s]
ByeResponse(s) == [kind |-> "byeok", seq |-> s]
Request == [kind |-> "bye"]
Timer(t) == [kind |-> t]
Idle == [pc |-> "idle", msg |-> Request]

Messages == {Response(c, s) : c \in Codes, s \in Seqs}
            \union {ByeResponse(s) : s \in 2 .. MaxAuthAttempts + 3}
            \union {Request, Timer("B"), Timer("F")}

OwnerStates == {"new", "sent", "mapped", "registered", "called", "waiting",
                "abandon", "cancel", "preserve", "release", "bridged", "bye",
                "sendbye", "done"}

\* The owner is inside driver.call(), or about to copy its result.
Calling == {"sent", "mapped", "registered", "called"}

TypeOK ==
    /\ owner \in OwnerStates
    /\ chan \in [state : {"Down", "Dialing", "Ringing", "Up", "Busy"}, soft : BOOLEAN]
    /\ held \subseteq Registries
    /\ cs \in [sess : {"Initiated", "Early", "Established", "Terminating", "Terminated"},
               seq : Seqs, dlg : 0 .. MaxAuthAttempts + 3,
               abandoned : BOOLEAN, tries : 0 .. MaxAuthAttempts]
    /\ lock \in {"free", "owner"}
    /\ lock = "owner" <=> owner \in {"preserve", "release"}
    /\ con \in [pc : {"idle", "match", "handle", "bye", "hangup"}, msg : Messages]
    /\ events \in Seq(Messages) /\ net \in Seq(Messages)
    /\ txn \in [Seqs -> {"None", "Calling", "Proceeding", "Completed", "Terminated"}]
    /\ bye \in {"None", "Trying", "Completed", "Terminated"}
    /\ reap \subseteq Seqs
    /\ out \subseteq [m : {"INVITE", "CANCEL", "ACK", "BYE"}, seq : 1 .. MaxAuthAttempts + 3]
    /\ uas \in [Seqs -> {"none", "trying", "early", "challenged", "redirected",
                         "failed", "answered", "acked", "over"}]
    /\ acked \in BOOLEAN
    /\ ended \subseteq {"us", "callee"}

Init ==
    /\ owner = "new"
    /\ chan = [state |-> "Down", soft |-> FALSE]
    /\ held = {"store", "driver"}
    /\ cs = [sess |-> "Initiated", seq |-> 1, dlg |-> 0, abandoned |-> FALSE, tries |-> 0]
    /\ lock = "free" /\ con = Idle /\ events = <<>>
    /\ txn = [s \in Seqs |-> "None"] /\ bye = "None" /\ reap = {}
    /\ net = <<>> /\ out = {} /\ uas = [s \in Seqs |-> "none"]
    /\ acked = FALSE /\ ended = {}

------------------------------------------------------------------------------
(* The callee and the network (external).                                   *)

pending == {s \in Seqs : txn[s] \in {"Calling", "Proceeding"}}

Says(s, code, state) ==
    /\ Len(net) < MaxNet
    /\ uas' = [uas EXCEPT ![s] = state]
    /\ net' = Append(net, Response(code, s))
    /\ UNCHANGED <<owner, chan, held, cs, lock, con, events, txn, bye, reap, out,
                   acked, ended>>

GetsInvite(s) ==
    /\ [m |-> "INVITE", seq |-> s] \in out
    /\ out' = out \ {[m |-> "INVITE", seq |-> s]}
    /\ uas' = [uas EXCEPT ![s] = "trying"]
    /\ UNCHANGED <<owner, chan, held, cs, lock, con, events, txn, bye, reap, net,
                   acked, ended>>

Proceeds(s) ==
    /\ "untagged" \in Env
    /\ uas[s] = "trying"
    /\ Says(s, "100", "trying")

Rings(s) == uas[s] = "trying" /\ Says(s, "180", "early")

Redirects(s) == uas[s] \in {"trying", "early"} /\ Says(s, "3xx", "redirected")

Challenges(s) ==
    /\ "challenge" \in Env
    /\ uas[s] = "trying" \/ (uas[s] = "early" /\ "early" \in Env)
    /\ Says(s, "401", "challenged")

Answers(s) ==
    /\ uas[s] \in {"trying", "early"}
    /\ s \in pending \/ "slow" \in Env
    /\ Says(s, "200", "answered")

Refuses(s) ==
    /\ uas[s] \in {"trying", "early"}
    /\ \E code \in {"486", "4xx"} : Says(s, code, "failed")

GetsCancel(s) ==
    /\ [m |-> "CANCEL", seq |-> s] \in out
    /\ uas[s] # "none"
    /\ out' = out \ {[m |-> "CANCEL", seq |-> s]}
    /\ IF uas[s] \in {"trying", "early"}
       THEN /\ uas' = [uas EXCEPT ![s] = "failed"]
            /\ net' = Append(net, Response("4xx", s))
       ELSE UNCHANGED <<uas, net>>
    /\ UNCHANGED <<owner, chan, held, cs, lock, con, events, txn, bye, reap, acked, ended>>

GetsAck(s) ==
    /\ [m |-> "ACK", seq |-> s] \in out
    /\ out' = out \ {[m |-> "ACK", seq |-> s]}
    /\ uas' = [uas EXCEPT ![s] = IF @ = "answered" THEN "acked" ELSE @]
    /\ UNCHANGED <<owner, chan, held, cs, lock, con, events, txn, bye, reap, net,
                   acked, ended>>

GetsBye ==
    \E r \in out :
        /\ r.m = "BYE"
        /\ out' = out \ {r}
        /\ uas' = [s \in Seqs |-> IF uas[s] \in {"answered", "acked"} THEN "over" ELSE uas[s]]
        /\ net' = Append(net, ByeResponse(r.seq))
        /\ UNCHANGED <<owner, chan, held, cs, lock, con, events, txn, bye, reap,
                       acked, ended>>

HangsUp(s) ==
    /\ "hangup" \in Env
    /\ uas[s] = "acked"
    /\ uas' = [uas EXCEPT ![s] = "over"]
    /\ net' = Append(net, Request)
    /\ ended' = ended \union {"callee"}
    /\ UNCHANGED <<owner, chan, held, cs, lock, con, events, txn, bye, reap, out, acked>>

\* A 200 is sent again until its ACK arrives.
Repeats(s) ==
    /\ uas[s] = "answered"
    /\ \A q \in {net, events} : \A i \in 1 .. Len(q) : q[i] # Response("200", s)
    /\ Says(s, "200", "answered")

------------------------------------------------------------------------------
(* The client transactions of the stack.                                    *)

\* ClientTransaction::on_response.
on_response(state, code) ==
    IF state \notin {"Calling", "Proceeding"} THEN state
    ELSE CASE code \in {"100", "180"} -> "Proceeding"
           [] code = "200" -> "Terminated"
           [] OTHER -> "Completed"

\* The network without its i-th message.
Without(q, i) == [j \in 1 .. Len(q) - 1 |-> IF j < i THEN q[j] ELSE q[j + 1]]

\* handle_response of the stack: the transaction takes its step, a non-2xx
\* final is acknowledged there (that ACK ends at the callee's transaction), and
\* the response is reported to the consumer whether or not it matched.
\* A datagram the network has duplicated stays on its way.
Arrive(i, copied) ==
    /\ copied => "dup" \in Env
    /\ i \in 1 .. Len(net)
    /\ i = 1 \/ "reorder" \in Env
    /\ owner \notin Calling \/ "fast" \in Env
    /\ Len(events) < MaxNet
    /\ LET m == net[i] IN
        /\ txn' = IF m.kind = "response"
                  THEN [txn EXCEPT ![m.seq] = on_response(@, m.code)] ELSE txn
        /\ bye' = IF m.kind = "byeok" /\ bye = "Trying" THEN "Completed" ELSE bye
        /\ events' = Append(events, m)
        /\ net' = IF copied THEN net ELSE Without(net, i)
    /\ UNCHANGED <<owner, chan, held, cs, lock, con, reap, out, uas, acked, ended>>

\* Timer B covers Calling and Proceeding alike.
TimerB(s) ==
    /\ s \in pending
    /\ owner \notin Calling
    /\ uas[s] \notin {"answered", "acked"} \/ "slow" \in Env
    /\ txn' = [txn EXCEPT ![s] = "Terminated"]
    /\ events' = Append(events, Timer("B"))
    /\ UNCHANGED <<owner, chan, held, cs, lock, con, bye, reap, net, out, uas, acked, ended>>

TimerF ==
    /\ bye = "Trying"
    /\ bye' = "Terminated"
    /\ events' = Append(events, Timer("F"))
    /\ UNCHANGED <<owner, chan, held, cs, lock, con, txn, reap, net, out, uas, acked, ended>>
------------------------------------------------------------------------------
(* Releasing.                                                               *)

\* release_outbound_leg: the Call-ID is found by channel name, and only then
\* are the two signalling maps cleared; the media side always is.
Released(h) == IF "cmap" \in h THEN h \ Registries ELSE h \ Media

softhangup == IF "store" \in held THEN [chan EXCEPT !.soft = TRUE] ELSE chan

set_state(state) == IF "store" \in held THEN [chan EXCEPT !.state = state] ELSE chan

\* build_bye on a session with a dialog, and send_client_request for it.
ByeSent(c) == [c EXCEPT !.sess = "Terminating", !.dlg = @ + 1]
SendBye(c, also) ==
    /\ out' = out \union also \union {[m |-> "BYE", seq |-> c.dlg + 1]}
    /\ bye' = "Trying"
    /\ ended' = ended \union {"us"}

------------------------------------------------------------------------------
(* The event consumer.                                                      *)

Took == events # <<>> /\ events' = Tail(events)

\* handle_response looks the Call-ID up before it waits for the CallState, and
\* drops the response when there is none.
TakeResponse ==
    /\ con.pc = "idle" /\ Took /\ Head(events).kind \in {"response", "byeok"}
    /\ con' = IF {"cmap", "states"} \subseteq held
              THEN [pc |-> "match", msg |-> Head(events)] ELSE Idle
    /\ UNCHANGED <<owner, chan, held, cs, lock, txn, bye, reap, net, out, uas, acked, ended>>

\* Mutant: the CSeq of a response is not compared.
matches_any(m) == TRUE

\* response_matches_dialog: the tags and the CSeq of the dialog where there is
\* one, else the CSeq of the current INVITE.
response_matches_dialog(m) ==
    /\ m.seq = IF cs.dlg # 0 THEN cs.dlg ELSE cs.seq
    /\ m = Response("100", m.seq) => cs.dlg = 0

\* A final response to the BYE clears the two signalling maps; a response to the
\* INVITE goes on if the CallState is still registered.
MatchResponse ==
    /\ con.pc = "match" /\ lock = "free"
    /\ IF ~response_matches_dialog(con.msg)
       THEN con' = Idle /\ UNCHANGED held
       ELSE IF con.msg.kind = "byeok"
       THEN con' = Idle /\ held' = held \ {"cmap", "states"}
       ELSE /\ con' = IF "states" \in held THEN [con EXCEPT !.pc = "handle"] ELSE Idle
            /\ UNCHANGED held
    /\ UNCHANGED <<owner, chan, cs, lock, events, txn, bye, reap, net, out, uas, acked, ended>>

Handling(code) ==
    /\ con.pc = "handle" /\ lock = "free"
    /\ con.msg.code = code
    /\ con' = Idle
    /\ UNCHANGED <<owner, lock, events, reap, net, uas>>

\* The end of a leg that was refused: an abandoned one is released, else the
\* channel is soft-hung-up.
FailLeg ==
    IF cs.abandoned THEN held' = Released(held) /\ UNCHANGED chan
                    ELSE chan' = softhangup /\ UNCHANGED held

\* The session after build_auth_retry_invite.
Retried == [cs EXCEPT !.tries = @ + 1, !.seq = @ + 1, !.sess = "Initiated"]

\* A 401/407 is answered with a new INVITE while attempts are left, whether or
\* not the leg was abandoned.  The leg fails when there is no attempt left or the
\* challenge cannot be answered (build_auth_retry_invite returns None), and when
\* the transport refuses the new INVITE, which is the session's by then.
Challenged ==
    /\ Handling("401")
    /\ \/ /\ cs.tries < MaxAuthAttempts
          /\ cs' = Retried
          /\ out' = out \union {[m |-> "INVITE", seq |-> cs.seq + 1]}
          /\ txn' = [txn EXCEPT ![cs.seq + 1] = "Calling"]
          /\ UNCHANGED <<chan, held>>
       \/ /\ \/ cs' = cs
             \/ cs.tries < MaxAuthAttempts /\ "unsent" \in Env /\ cs' = Retried
          /\ FailLeg
          /\ UNCHANGED <<out, txn>>
    /\ UNCHANGED <<bye, acked, ended>>

\* A provisional response makes the session Early, whatever it was; a To tag
\* creates the dialog if there is none.  180 and 183 ring, the others leave the
\* channel alone.
Provisional ==
    \E code \in {"100", "180"} :
        /\ Handling(code)
        /\ cs' = [cs EXCEPT !.sess = "Early",
                            !.dlg = IF @ = 0 /\ code = "180" THEN cs.seq ELSE @]
        /\ chan' \in {chan, set_state("Ringing")}
        /\ UNCHANGED <<held, txn, bye, out, acked, ended>>

\* A 2xx is acknowledged first.  An abandoned leg then gets its BYE and is
\* released; an unusable answer gets a BYE; else the channel is up.
Answered ==
    /\ Handling("200")
    /\ acked' = TRUE
    /\ UNCHANGED txn
    /\ LET c == [cs EXCEPT !.sess = "Established", !.dlg = IF @ = 0 THEN cs.seq ELSE @]
           ack == {[m |-> "ACK", seq |-> cs.seq]}
       IN  \/ /\ cs.abandoned
              /\ SendBye(c, ack)
              /\ cs' = ByeSent(c)
              /\ held' = Released(held)
              /\ UNCHANGED chan
           \/ /\ ~cs.abandoned
              /\ "driver" \in held
              /\ chan' = set_state("Up")
              /\ cs' = c
              /\ out' = out \union ack
              /\ UNCHANGED <<held, bye, ended>>
           \/ /\ ~cs.abandoned
              /\ "driver" \in held => "badsdp" \in Env
              /\ SendBye(c, ack)
              /\ cs' = ByeSent(c)
              /\ chan' = softhangup
              /\ UNCHANGED held

\* Mutant: a failure does not touch the channel either.
FailedSilently ==
    \E code \in {"3xx", "486", "4xx"} :
        /\ Handling(code)
        /\ cs' = [cs EXCEPT !.sess = "Terminated"]
        /\ held' = IF cs.abandoned THEN Released(held) ELSE held
        /\ UNCHANGED <<chan, txn, bye, out, acked, ended>>

\* 486 makes the channel Busy, a failure of 400 or more soft-hangs it up, and a
\* redirection leaves it as it is.
Failed ==
    \E code \in {"3xx", "486", "4xx"} :
        /\ Handling(code)
        /\ cs' = [cs EXCEPT !.sess = "Terminated"]
        /\ \/ /\ cs.abandoned \/ code = "4xx"
              /\ FailLeg
           \/ /\ ~cs.abandoned /\ code # "4xx"
              /\ chan' = IF code = "486" THEN set_state("Busy") ELSE chan
              /\ UNCHANGED held
        /\ UNCHANGED <<txn, bye, out, acked, ended>>

\* handle_bye: the request is validated against the dialog under the lock, and
\* rejected when the leg is no longer known.
TakeBye ==
    /\ con.pc = "idle" /\ Took /\ Head(events).kind = "bye"
    /\ con' = IF "states" \in held THEN [pc |-> "bye", msg |-> Head(events)] ELSE Idle
    /\ UNCHANGED <<owner, chan, held, cs, lock, txn, bye, reap, net, out, uas, acked, ended>>

AcceptBye ==
    /\ con.pc = "bye" /\ lock = "free"
    /\ con' = IF cs.dlg = 0 THEN Idle ELSE [con EXCEPT !.pc = "hangup"]
    /\ UNCHANGED <<owner, chan, held, cs, lock, events, txn, bye, reap, net, out, uas,
                   acked, ended>>

\* The rest of handle_bye: soft hangup, release, and the maps once more.
FinishBye ==
    /\ con.pc = "hangup" /\ lock = "free"
    /\ con' = Idle
    /\ chan' = IF "cmap" \in held THEN softhangup ELSE chan
    /\ held' = (IF {"cmap", "states"} \subseteq held THEN Released(held)
                ELSE IF "cmap" \in held THEN held \ {"driver", "notify"}
                ELSE held) \ {"cmap", "states"}
    /\ UNCHANGED <<owner, cs, lock, events, txn, bye, reap, net, out, uas, acked, ended>>

\* handle_client_transaction_timeout.
TakeTimer ==
    /\ con.pc = "idle" /\ Took /\ Head(events).kind \in {"B", "F"}
    /\ IF Head(events).kind = "B" /\ "cmap" \in held
       THEN chan' = softhangup /\ held' = Released(held)
       ELSE chan' = chan /\ held' = held \ {"cmap", "states"}
    /\ UNCHANGED <<owner, cs, lock, con, txn, bye, reap, net, out, uas, acked, ended>>

------------------------------------------------------------------------------
(* The grace periods.                                                       *)

\* schedule_abandoned_signaling_reap and schedule_outbound_bye_signaling_reap.
\* They last as long as Timers B and F, so whatever was on its way when they
\* started is over when they end.
Reap ==
    /\ reap # {}
    /\ reap \intersect pending = {}
    /\ bye # "Trying" /\ events = <<>> /\ con = Idle
    /\ \A i \in 1 .. Len(net) : net[i].kind = "response" => net[i].seq \notin reap
    /\ reap' = {}
    /\ held' = IF "states" \in held THEN held \ {"cmap", "states"} ELSE held
    /\ UNCHANGED <<owner, chan, cs, lock, con, events, txn, bye, net, out, uas, acked, ended>>

------------------------------------------------------------------------------
(* The owner: driver.call().                                                *)

Quiet == UNCHANGED <<con, events, net, uas, acked>>

\* send_invite, and the error of a transport that refuses it.  Dial marks the
\* leg HungUp and its clean-up then skips it; Originate hangs the driver
\* channel up and releases the leg.
SendInvite ==
    /\ owner = "new"
    /\ \/ /\ owner' = "sent"
          /\ out' = out \union {[m |-> "INVITE", seq |-> 1]}
          /\ txn' = [txn EXCEPT ![1] = "Calling"]
          /\ UNCHANGED held
       \/ /\ "unsent" \in Env
          /\ owner' = "done"
          /\ held' = IF Owner = "Dial" THEN held ELSE held \ Media
          /\ UNCHANGED <<out, txn>>
    /\ Quiet /\ UNCHANGED <<chan, cs, lock, bye, reap, ended>>

\* register_outbound_callid, register_outbound_session and the registration
\* with the NOTIFY service.
Register(from, to, registry) ==
    /\ owner = from
    /\ owner' = to
    /\ held' = held \union {registry}
    /\ Quiet /\ UNCHANGED <<chan, cs, lock, txn, bye, reap, out, ended>>

RegisterCallId == Register("sent", "mapped", "cmap")
RegisterSession == Register("mapped", "registered", "states")
RegisterNotify == Register("registered", "called", "notify")

\* The owner copies the state driver.call() left in its own channel, Dialing,
\* over the store's: Dial by name, Originate through the channel it holds.
SyncState ==
    /\ owner = "called"
    /\ owner' = "waiting"
    /\ chan' = IF Owner = "Originate" THEN [chan EXCEPT !.state = "Dialing"]
               ELSE set_state("Dialing")
    /\ Quiet /\ UNCHANGED <<held, cs, lock, txn, bye, reap, out, ended>>

------------------------------------------------------------------------------
(* The owner: waiting for the answer, and the call.                          *)

\* Mutant: the owner looks only at its own copy of the channel.
own_state == "Dialing"

\* What the owner sees of the leg.  Dial falls back on its own copy when the
\* store no longer has the channel; Originate keeps the store's channel.
effective_state == IF Owner = "Dial" /\ "store" \notin held THEN "Dialing" ELSE chan.state

refused ==
    \/ effective_state \in {"Busy", "Down"}
    \/ Owner = "Originate" /\ chan.soft

Waits(to) ==
    /\ owner = "waiting"
    /\ owner' = to
    /\ Quiet /\ UNCHANGED <<chan, held, cs, lock, txn, bye, reap, out, ended>>

SeesAnswer == effective_state = "Up" /\ Waits("bridged")
SeesRefusal == effective_state # "Up" /\ refused /\ Waits("abandon")
GivesUp == "abandon" \in Env /\ Waits("abandon")

\* The bridge ends with either party, the Originate's application by itself.
BridgeEnds ==
    /\ owner = "bridged"
    /\ owner' = "bye"
    /\ Quiet /\ UNCHANGED <<chan, held, cs, lock, txn, bye, reap, out, ended>>

\* The lookups before the lock, in all three ways to end a leg: a leg that is no
\* longer registered is only released.
Lookup ==
    /\ owner \in {"abandon", "bye"}
    /\ IF {"cmap", "states"} \subseteq held
       THEN owner' = (IF owner = "abandon" THEN "cancel" ELSE "sendbye") /\ UNCHANGED held
       ELSE owner' = "done" /\ held' = Released(held)
    /\ Quiet /\ UNCHANGED <<chan, cs, lock, txn, bye, reap, out, ended>>

\* Mutant: an established dialog gets no BYE.
CancelKeepingBye ==
    /\ owner = "cancel" /\ lock = "free"
    /\ lock' = "owner"
    /\ owner' = IF cs.sess \in {"Initiated", "Early"} THEN "preserve" ELSE "release"
    /\ cs' = [cs EXCEPT !.abandoned = TRUE]
    /\ out' = IF cs.sess \in {"Initiated", "Early"}
              THEN out \union {[m |-> "CANCEL", seq |-> cs.seq]} ELSE out
    /\ Quiet /\ UNCHANGED <<chan, held, txn, bye, reap, ended>>

\* Mutant: the choice between CANCEL and BYE is made by the dialog, which a
\* provisional response already creates, and not by the session state.
CancelByDialog ==
    /\ owner = "cancel" /\ lock = "free"
    /\ lock' = "owner" /\ owner' = "release"
    /\ IF cs.dlg # 0
       THEN SendBye(cs, {}) /\ cs' = [ByeSent(cs) EXCEPT !.abandoned = TRUE]
       ELSE /\ out' = out \union {[m |-> "CANCEL", seq |-> cs.seq]}
            /\ cs' = [cs EXCEPT !.abandoned = TRUE]
            /\ UNCHANGED <<bye, ended>>
    /\ Quiet /\ UNCHANGED <<chan, held, txn, reap>>

\* cancel_or_bye_outbound_leg under the lock: CANCEL for a pending INVITE, BYE
\* for an established dialog, nothing for one that is over.
Cancel ==
    /\ owner = "cancel" /\ lock = "free"
    /\ lock' = "owner"
    /\ owner' = IF cs.sess \in {"Initiated", "Early"} THEN "preserve" ELSE "release"
    /\ LET c == [cs EXCEPT !.abandoned = TRUE] IN
        \/ /\ cs.sess \in {"Initiated", "Early"}
           /\ out' = out \union {[m |-> "CANCEL", seq |-> cs.seq]}
           /\ cs' = c
           /\ UNCHANGED <<bye, ended>>
        \/ /\ cs.sess = "Established"
           /\ SendBye(c, {})
           /\ cs' = ByeSent(c)
        \/ /\ cs.sess \in {"Terminating", "Terminated"}
           /\ cs' = c
           /\ UNCHANGED <<bye, out, ended>>
    /\ Quiet /\ UNCHANGED <<chan, held, txn, reap>>

\* Mutant: nothing is kept for a crossing 2xx.
PreserveNothing ==
    /\ owner = "preserve"
    /\ lock' = "free" /\ owner' = "done"
    /\ held' = Released(held)
    /\ Quiet /\ UNCHANGED <<chan, cs, txn, bye, reap, out, ended>>

\* Mutant: the CallState mutex is not released.
PreserveLocked ==
    /\ owner = "preserve"
    /\ owner' = "done"
    /\ reap' = 1 .. cs.seq
    /\ held' = held \ Media
    /\ Quiet /\ UNCHANGED <<chan, cs, lock, txn, bye, out, ended>>

\* A pending INVITE keeps its signalling state for the grace period.  Originate
\* goes on to release_originate_leg, which releases that state as well.
Preserve ==
    /\ owner = "preserve"
    /\ lock' = "free" /\ owner' = "done"
    /\ reap' = 1 .. cs.seq
    /\ held' = IF Owner = "Dial" THEN held \ Media ELSE Released(held)
    /\ Quiet /\ UNCHANGED <<chan, cs, txn, bye, out, ended>>

Release ==
    /\ owner = "release"
    /\ lock' = "free" /\ owner' = "done"
    /\ held' = Released(held)
    /\ Quiet /\ UNCHANGED <<chan, cs, txn, bye, reap, out, ended>>

\* Mutant: the signalling state kept for the BYE has no grace period.
EndCallForgetting ==
    /\ owner = "sendbye" /\ lock = "free"
    /\ owner' = "done"
    /\ SendBye(cs, {}) /\ cs' = ByeSent(cs)
    /\ held' = held \ Media
    /\ Quiet /\ UNCHANGED <<chan, lock, txn, reap>>

\* send_bye_for_channel and finish_outbound_originate: the latter keeps the
\* signalling state for the BYE's final response.
EndCall ==
    /\ owner = "sendbye" /\ lock = "free"
    /\ owner' = "done"
    /\ IF cs.dlg # 0
       THEN SendBye(cs, {}) /\ cs' = ByeSent(cs)
       ELSE UNCHANGED <<cs, out, bye, ended>>
    /\ IF Owner = "Originate" /\ cs.dlg # 0
       THEN held' = held \ Media /\ reap' = 1 .. cs.seq
       ELSE held' = Released(held) /\ UNCHANGED reap
    /\ Quiet /\ UNCHANGED <<chan, lock, txn>>

------------------------------------------------------------------------------
Callee == \/ \E s \in Seqs : \/ GetsInvite(s) \/ Proceeds(s) \/ Rings(s) \/ Challenges(s)
                             \/ Answers(s) \/ Redirects(s) \/ Refuses(s) \/ GetsCancel(s) \/ GetsAck(s) \/ HangsUp(s)
                             \/ Repeats(s)
          \/ GetsBye

Stack == \/ \E i \in 1 .. MaxNet, copied \in BOOLEAN : Arrive(i, copied)
         \/ \E s \in Seqs : TimerB(s)
         \/ TimerF

Consumer == \/ TakeResponse \/ MatchResponse \/ Challenged \/ Provisional \/ Answered
            \/ Failed \/ TakeBye \/ AcceptBye \/ FinishBye \/ TakeTimer

OwnerTask == \/ SendInvite \/ RegisterCallId \/ RegisterSession \/ RegisterNotify
             \/ SyncState \/ SeesAnswer \/ SeesRefusal \/ GivesUp \/ BridgeEnds
             \/ Lookup \/ Cancel \/ Preserve \/ Release \/ EndCall

Next == Callee \/ Stack \/ Consumer \/ OwnerTask \/ Reap

Spec == Init /\ [][Next]_vars

\* The runtime polls every task that can go on, timers fire, and a datagram that
\* is sent again until it is answered arrives (a network that duplicates does so
\* finitely often, hence the strong fairness of Arrive); what the callee decides to say,
\* and when a call or the owner's patience ends, is nobody's obligation.
Fairness ==
    /\ WF_vars(Consumer)
    /\ WF_vars(Reap)
    /\ SF_vars(\E i \in 1 .. MaxNet : Arrive(i, FALSE))
    /\ \A s \in Seqs : /\ WF_vars(GetsInvite(s)) /\ WF_vars(GetsCancel(s))
                       /\ WF_vars(GetsAck(s)) /\ WF_vars(Repeats(s)) /\ WF_vars(TimerB(s))
    /\ WF_vars(GetsBye) /\ WF_vars(TimerF)
    /\ WF_vars(\/ SendInvite \/ RegisterCallId \/ RegisterSession \/ RegisterNotify
               \/ SyncState \/ SeesAnswer \/ SeesRefusal
               \/ Lookup \/ Cancel \/ Preserve \/ Release \/ EndCall)

FairSpec == Spec /\ Fairness

------------------------------------------------------------------------------
(* Properties.                                                              *)

\* A dialog that was acknowledged is never forgotten without a BYE: once the
\* CallState is unregistered, one of the two sides has sent one.  It is what the
\* mutex kept across the sends in handle_response is there for.
AckedIsEnded == acked /\ "states" \notin held => ended # {}

\* No BYE is sent on a dialog whose 2xx has not been acknowledged, by whichever
\* of the paths that send one (handle_response, cancel_or_bye_outbound_leg,
\* send_bye_for_channel, finish_outbound_originate).
AckBeforeBye == "us" \in ended => acked

\* Every INVITE after the first answers a challenge of its own: a repeated 401,
\* or a 401 crossing the retry, is not answered twice.
OneRetryPerChallenge == cs.seq - 1 <= Cardinality({s \in Seqs : uas[s] = "challenged"})

\* Once the owner is through with the leg and no grace period runs, no registry
\* holds any of it: Call-ID map, CallState, store channel, driver entry with its
\* RTP socket, NOTIFY registration.
NoLeak == owner = "done" /\ reap = {} => held = {}

\* An abandoned leg sends no further INVITE.
NoInviteAfterAbandon == [][cs.abandoned => cs'.seq = cs.seq]_vars

\* Every answer of the callee is acknowledged in the end, also one that crosses
\* the CANCEL of an owner that has given up.
AnswerIsAcked == \A s \in Seqs : (uas[s] = "answered") ~> acked

\* The owner no longer waits for an answer.
Stopped == owner \notin Calling \union {"waiting"}

\* When the 2xx was acknowledged, the owner stops waiting for it.
AnswerEndsWait == acked ~> Stopped

\* The last INVITE that reached the callee was answered with one of these.
LastWord(answers) ==
    \E s \in Seqs : uas[s] \in answers /\ \A t \in Seqs : t > s => uas[t] = "none"

\* When the callee has refused the INVITE with 4xx or above, the owner stops
\* waiting; when it has challenged it, the owner stops waiting or another INVITE
\* reaches the callee (handle_response, and the poll of the Originate action).
RefusalEndsWait ==
    LastWord({"failed", "challenged"}) ~> (Stopped \/ ~LastWord({"failed", "challenged"}))

\* When the callee has answered 3xx, the owner stops waiting.
RedirectEndsWait == LastWord({"redirected"}) ~> Stopped
==============================================================================
