----------------------------- MODULE InboundCall -----------------------------
(***************************************************************************)
(* The life of inbound calls in event_handler.rs: handle_incoming_invite,  *)
(* the per-call task it spawns, the dialplan that task runs, the cleanup   *)
(* task, and handle_bye, handle_cancel and handle_invite_ack_timeout.      *)
(*                                                                         *)
(* The module follows one Call-ID, because the two maps that all handlers  *)
(* share (callid_map, call_states) are keyed by it.  INVITE i and the      *)
(* session, channel and task made for it are all called i; a number above  *)
(* 1 is a later INVITE that carries the same Call-ID (a forked request, a  *)
(* retry, a retransmission the transaction layer took for a new request).  *)
(*                                                                         *)
(* Actors: the event consumer (one task, handlers run one after another),  *)
(* one task and one dialplan per call, the peer, and the transaction layer *)
(* below, of which only what InviteService promises is used: one final per *)
(* INVITE, decided by whoever records it first.  Sleeps may end at any     *)
(* time.                                                                   *)
(***************************************************************************)
EXTENDS Naturals, Sequences

CONSTANTS
  MaxInvites,  \* bound: INVITEs that carry the Call-ID
  Fails,       \* the messages whose transport.send may return an error
  Deaf         \* may the dialplan run an app that polls only its own copy of
               \* the channel, such as Dial() while it waits for an answer?

ASSUME InboundAssumption ==
  MaxInvites \in Nat \ {0} /\ Fails \subseteq {"200", "BYE"} /\ Deaf \in BOOLEAN

VARIABLES
  tx,      \* the INVITE server transaction: its recorded final, if any
  ack,     \* the 2xx of each INVITE: "no" ACK yet, ACKed, or given up on
  wire,    \* history: what each caller was sent
  bye,     \* history: the callers that sent BYE
  events,  \* the event queue
  con,     \* the event consumer: where it is, and the calls it holds
  states,  \* call_states[Call-ID]: the session stored there, or 0
  cmap,    \* callid_map[Call-ID]: the channel stored there, or 0
  lock,    \* the task that holds the mutex of each CallState, or 0
  sess,    \* SessionState of each CallState
  chan,    \* the global store's copy of each channel
  media,   \* channels with an entry in the driver (and an RTP socket)
  notify,  \* channels registered with the NOTIFY service
  task,    \* the per-call task: where it is, and the CallState it holds
  est,     \* its local `established`
  pbx,     \* the dialplan: inside an app (which holds the channel copy's
           \* lock), between two apps, or ended
  copy,    \* the dialplan's detached copy of the channel
  permit   \* the stored permit of answer_notify

peerVars == <<tx, ack, wire, bye, events>>
mapVars == <<states, cmap>>
resVars == <<chan, media, notify>>
taskVars == <<task, est>>
pbxVars == <<pbx, copy, permit>>
vars == <<peerVars, con, mapVars, lock, sess, resVars, taskVars, pbxVars>>

-----------------------------------------------------------------------------
Inv == 1 .. MaxInvites
InvOrNone == 0 .. MaxInvites

TypeOK ==
  /\ tx \in [Inv -> {"idle", "Proceeding", "200", "487", "fail"}]
  /\ ack \in [Inv -> {"no", "acked", "timeout"}]
  /\ wire \in [Inv -> SUBSET {"200", "BYE"}]
  /\ bye \in SUBSET Inv
  /\ events \in Seq([kind: {"IncomingInvite", "IncomingCancel", "IncomingBye",
                            "InviteAckTimeout"}, i: Inv])
  /\ con \in [at: {"idle", "alloc", "bye", "release"}, i: InvOrNone, k: InvOrNone]
  /\ states \in InvOrNone
  /\ cmap \in InvOrNone
  /\ lock \in [Inv -> InvOrNone]
  /\ sess \in [Inv -> {"Initiated", "Established", "Terminating"}]
  /\ chan \in [Inv -> [reg: BOOLEAN, soft: BOOLEAN, up: BOOLEAN]]
  /\ media \in SUBSET Inv
  /\ notify \in SUBSET Inv
  /\ task \in [Inv -> [at: {"none", "select", "expire", "answer", "lock",
                            "send200", "waitpbx", "unwind", "hangup", "bye",
                            "sendbye", "fail", "sendfail", "cleanup", "done"},
                       k: InvOrNone]]
  /\ est \in [Inv -> BOOLEAN]
  /\ pbx \in [Inv -> {"none", "app", "gap", "ended"}]
  /\ copy \in [Inv -> [soft: BOOLEAN, up: BOOLEAN]]
  /\ permit \in [Inv -> BOOLEAN]
  /\ \A k \in Inv : lock[k] # 0 =>
       task[lock[k]].at \in {"send200", "sendbye", "sendfail"}

Init ==
  /\ tx = [i \in Inv |-> "idle"]
  /\ ack = [i \in Inv |-> "no"]
  /\ wire = [i \in Inv |-> {}]
  /\ bye = {}
  /\ events = <<>>
  /\ con = [at |-> "idle", i |-> 0, k |-> 0]
  /\ states = 0
  /\ cmap = 0
  /\ lock = [i \in Inv |-> 0]
  /\ sess = [i \in Inv |-> "Initiated"]
  /\ chan = [i \in Inv |-> [reg |-> FALSE, soft |-> FALSE, up |-> FALSE]]
  /\ media = {}
  /\ notify = {}
  /\ task = [i \in Inv |-> [at |-> "none", k |-> 0]]
  /\ est = [i \in Inv |-> FALSE]
  /\ pbx = [i \in Inv |-> "none"]
  /\ copy = [i \in Inv |-> [soft |-> FALSE, up |-> FALSE]]
  /\ permit = [i \in Inv |-> FALSE]

-----------------------------------------------------------------------------
(* The peer and the transaction layer.                                      *)

Emit(kind, i) == events' = Append(events, [kind |-> kind, i |-> i])

PeerInvite(i) ==
  /\ tx[i] = "idle"
  /\ i > 1 => tx[i - 1] # "idle"
  /\ tx' = [tx EXCEPT ![i] = "Proceeding"]
  /\ Emit("IncomingInvite", i)
  /\ UNCHANGED <<ack, wire, bye, con, mapVars, lock, sess, resVars, taskVars, pbxVars>>

\* A CANCEL of a pending INVITE; any other only gets its 200 or 481.
PeerCancel(i) ==
  /\ tx[i] = "Proceeding"
  /\ tx' = [tx EXCEPT ![i] = "487"]
  /\ Emit("IncomingCancel", i)
  /\ UNCHANGED <<ack, wire, bye, con, mapVars, lock, sess, resVars, taskVars, pbxVars>>

\* Timer G sends a recorded 2xx again until its ACK.
Retransmit(i) ==
  /\ tx[i] = "200" /\ ack[i] = "no"
  /\ "200" \notin wire[i]
  /\ wire' = [wire EXCEPT ![i] = @ \cup {"200"}]
  /\ UNCHANGED <<tx, ack, bye, events, con, mapVars, lock, sess, resVars, taskVars, pbxVars>>

PeerAck(i) ==
  /\ "200" \in wire[i] /\ ack[i] = "no"
  /\ ack' = [ack EXCEPT ![i] = "acked"]
  /\ UNCHANGED <<tx, wire, bye, events, con, mapVars, lock, sess, resVars, taskVars, pbxVars>>

AckTimeout(i) ==
  /\ tx[i] = "200" /\ ack[i] = "no"
  /\ ack' = [ack EXCEPT ![i] = "timeout"]
  /\ Emit("InviteAckTimeout", i)
  /\ UNCHANGED <<tx, wire, bye, con, mapVars, lock, sess, resVars, taskVars, pbxVars>>

\* The caller learns the tag a BYE needs from the 200.
PeerBye(i) ==
  /\ "200" \in wire[i] /\ i \notin bye
  /\ bye' = bye \cup {i}
  /\ Emit("IncomingBye", i)
  /\ UNCHANGED <<tx, ack, wire, con, mapVars, lock, sess, resVars, taskVars, pbxVars>>

\* record_invite_final, as InviteService promises it: the first final wins.
MayRecord(i) == tx[i] = "Proceeding"
Record(i, st) == tx' = IF MayRecord(i) THEN [tx EXCEPT ![i] = st] ELSE tx

-----------------------------------------------------------------------------
(* The event consumer (main.rs) and the handlers it awaits.                 *)

Idle == [at |-> "idle", i |-> 0, k |-> 0]

Taken(kind, i) ==
  /\ con.at = "idle"
  /\ events # <<>>
  /\ Head(events) = [kind |-> kind, i |-> i]
  /\ events' = Tail(events)

SoftHangup(c, k) ==
  IF k # 0 /\ c[k].reg THEN [c EXCEPT ![k].soft = TRUE] ELSE c

\* handle_incoming_invite refuses: source ACL, credentials, dialplan, SDP.
RejectInvite(i) ==
  /\ Taken("IncomingInvite", i)
  /\ Record(i, "fail")
  /\ UNCHANGED <<ack, wire, bye, con, mapVars, lock, sess, resVars, taskVars, pbxVars>>

\* It accepts: 100 Trying, register the channel, map the Call-ID to it, then
\* wait for an RTP socket.
AcceptInvite(i) ==
  /\ Taken("IncomingInvite", i)
  /\ chan' = [chan EXCEPT ![i].reg = TRUE]
  /\ cmap' = i
  /\ con' = [at |-> "alloc", i |-> i, k |-> 0]
  /\ UNCHANGED <<tx, ack, wire, bye, states, lock, sess, media, notify, taskVars, pbxVars>>

\* No RTP socket, or no address to advertise: undo and refuse.
AllocFails ==
  /\ con.at = "alloc"
  /\ chan' = [chan EXCEPT ![con.i].reg = FALSE]
  /\ cmap' = 0
  /\ Record(con.i, "fail")
  /\ con' = Idle
  /\ UNCHANGED <<ack, wire, bye, events, states, lock, sess, media, notify, taskVars, pbxVars>>

\* Attach the media, store the session, start the call's task and dialplan.
StartCall ==
  LET i == con.i
  IN /\ con.at = "alloc"
     /\ media' = media \cup {i}
     /\ notify' = notify \cup {i}
     /\ states' = i
     /\ task' = [task EXCEPT ![i].at = "select"]
     /\ pbx' = [pbx EXCEPT ![i] = "app"]
     /\ con' = Idle
     /\ UNCHANGED <<peerVars, cmap, lock, sess, chan, est, copy, permit>>

\* The mutex of the stored CallState is free, or there is none.
StateUnlocked == states # 0 => lock[states] = 0

\* handle_bye, BYE outside the stored dialog: 481.
RejectBye(i) ==
  /\ Taken("IncomingBye", i)
  /\ StateUnlocked
  /\ states # i
  /\ UNCHANGED <<tx, ack, wire, bye, con, mapVars, lock, sess, resVars, taskVars, pbxVars>>

\* handle_bye: validate and answer 200; look up the channel; then, once it
\* has the CallState again, hang up and release that channel, clear the maps.
AcceptBye(i) ==
  /\ Taken("IncomingBye", i)
  /\ StateUnlocked
  /\ states = i
  /\ con' = [at |-> "bye", i |-> i, k |-> 0]
  /\ UNCHANGED <<tx, ack, wire, bye, mapVars, lock, sess, resVars, taskVars, pbxVars>>

LookupBye ==
  /\ con.at = "bye"
  /\ con' = [con EXCEPT !.at = "release", !.k = cmap]
  /\ UNCHANGED <<peerVars, mapVars, lock, sess, resVars, taskVars, pbxVars>>

FinishBye ==
  /\ con.at = "release"
  /\ StateUnlocked
  /\ chan' = SoftHangup(chan, con.k)
  /\ media' = media \ {con.k}
  /\ notify' = notify \ {con.k}
  /\ states' = 0
  /\ cmap' = 0
  /\ con' = Idle
  /\ UNCHANGED <<peerVars, lock, sess, taskVars, pbxVars>>

\* Mutant: a CANCEL drops the session but leaves the dialplan running.
CancelSilently(i) ==
  /\ Taken("IncomingCancel", i)
  /\ StateUnlocked
  /\ media' = media \ {cmap}
  /\ notify' = notify \ {cmap}
  /\ states' = 0
  /\ cmap' = 0
  /\ UNCHANGED <<tx, ack, wire, bye, con, lock, sess, chan, taskVars, pbxVars>>

\* handle_cancel: no effect on an established session.
HandleCancel(i) ==
  /\ Taken("IncomingCancel", i)
  /\ StateUnlocked
  /\ IF states # 0 /\ sess[states] = "Established"
     THEN UNCHANGED <<resVars, mapVars>>
     ELSE /\ chan' = SoftHangup(chan, cmap)
          /\ media' = media \ {cmap}
          /\ notify' = notify \ {cmap}
          /\ states' = 0
          /\ cmap' = 0
  /\ UNCHANGED <<tx, ack, wire, bye, con, lock, sess, taskVars, pbxVars>>

\* handle_invite_ack_timeout
HandleAckTimeout(i) ==
  /\ Taken("InviteAckTimeout", i)
  /\ chan' = SoftHangup(chan, cmap)
  /\ states' = 0
  /\ cmap' = 0
  /\ UNCHANGED <<tx, ack, wire, bye, con, lock, sess, media, notify, taskVars, pbxVars>>

-----------------------------------------------------------------------------
(* The dialplan (pbx_run on a detached copy of the channel).                *)

\* An app answers: Answer(), or Dial() once a callee has answered.
AppAnswers(i) ==
  /\ pbx[i] = "app"
  /\ ~ copy[i].up
  /\ copy' = [copy EXCEPT ![i].up = TRUE]
  /\ permit' = [permit EXCEPT ![i] = TRUE]
  /\ UNCHANGED <<peerVars, con, mapVars, lock, sess, resVars, taskVars, pbx>>

\* An app returns, perhaps after flagging its own copy (Hangup(), Echo()): the
\* dialplan then ends, and nothing reads that flag again.
AppReturns(i) ==
  /\ pbx[i] = "app"
  /\ \E soft \in BOOLEAN :
       pbx' = [pbx EXCEPT ![i] = IF soft \/ copy[i].soft THEN "ended" ELSE "gap"]
  /\ UNCHANGED <<peerVars, con, mapVars, lock, sess, resVars, taskVars, copy, permit>>

NextPriority(i) ==
  /\ pbx[i] = "gap"
  /\ pbx' = [pbx EXCEPT ![i] = "app"]
  /\ UNCHANGED <<peerVars, con, mapVars, lock, sess, resVars, taskVars, copy, permit>>

\* The last priority, a failed app, or an app that saw the hangup.
PbxEnds(i) ==
  /\ pbx[i] \in {"app", "gap"}
  /\ pbx' = [pbx EXCEPT ![i] = "ended"]
  /\ UNCHANGED <<peerVars, con, mapVars, lock, sess, resVars, taskVars, copy, permit>>

-----------------------------------------------------------------------------
(* The per-call task.                                                       *)

Goto(i, at) == task' = [task EXCEPT ![i].at = at]
GotoWith(i, at, k) == task' = [task EXCEPT ![i] = [at |-> at, k |-> k]]
Unlock(k) == lock' = [lock EXCEPT ![k] = 0]

\* Mutant: select! without `biased`.
SelectEndedUnbiased(i) ==
  /\ task[i].at = "select"
  /\ pbx[i] = "ended"
  /\ Goto(i, "hangup")
  /\ UNCHANGED <<peerVars, con, mapVars, lock, sess, resVars, est, pbxVars>>

\* The select!, biased: the answer, then the end of the dialplan, then 30 s.
SelectAnswered(i) ==
  /\ task[i].at = "select"
  /\ permit[i]
  /\ permit' = [permit EXCEPT ![i] = FALSE]
  /\ Goto(i, "answer")
  /\ UNCHANGED <<peerVars, con, mapVars, lock, sess, resVars, est, pbx, copy>>

SelectEnded(i) ==
  /\ task[i].at = "select"
  /\ ~ permit[i]
  /\ pbx[i] = "ended"
  /\ Goto(i, "hangup")
  /\ UNCHANGED <<peerVars, con, mapVars, lock, sess, resVars, est, pbxVars>>

SelectTimeout(i) ==
  /\ task[i].at = "select"
  /\ ~ permit[i]
  /\ pbx[i] # "ended"
  /\ Goto(i, "expire")
  /\ UNCHANGED <<peerVars, con, mapVars, lock, sess, resVars, est, pbxVars>>

\* The timeout branch waits for the lock of the dialplan's channel copy.
Expire(i) ==
  /\ task[i].at = "expire"
  /\ pbx[i] # "app"
  /\ copy' = [copy EXCEPT ![i].soft = TRUE]
  /\ chan' = SoftHangup(chan, i)
  /\ Goto(i, "waitpbx")
  /\ UNCHANGED <<peerVars, con, mapVars, lock, sess, media, notify, est, pbx, permit>>

\* Answer: is the Call-ID still known? then lock the session and record.
StillActive(i) ==
  /\ task[i].at = "answer"
  /\ Goto(i, IF states # 0 THEN "lock" ELSE "waitpbx")
  /\ UNCHANGED <<peerVars, con, mapVars, lock, sess, resVars, est, pbxVars>>

\* Mutant: the 200 is sent whether or not it was the final recorded.
Record200Anyway(i) ==
  /\ task[i].at = "lock"
  /\ lock[i] = 0
  /\ Record(i, "200")
  /\ lock' = [lock EXCEPT ![i] = i]
  /\ Goto(i, "send200")
  /\ UNCHANGED <<ack, wire, bye, events, con, mapVars, sess, resVars, est, pbxVars>>

Record200(i) ==
  /\ task[i].at = "lock"
  /\ lock[i] = 0
  /\ Record(i, "200")
  /\ IF MayRecord(i)
     THEN lock' = [lock EXCEPT ![i] = i] /\ Goto(i, "send200")
     ELSE UNCHANGED lock /\ Goto(i, "waitpbx")
  /\ UNCHANGED <<ack, wire, bye, events, con, mapVars, sess, resVars, est, pbxVars>>

\* The 200 leaves the host: established here, in the session, in the store.
Send200(i) ==
  /\ task[i].at = "send200"
  /\ wire' = [wire EXCEPT ![i] = @ \cup {"200"}]
  /\ sess' = [sess EXCEPT ![i] = "Established"]
  /\ est' = [est EXCEPT ![i] = TRUE]
  /\ chan' = IF chan[i].reg THEN [chan EXCEPT ![i].up = TRUE] ELSE chan
  /\ Unlock(i)
  /\ Goto(i, "waitpbx")
  /\ UNCHANGED <<tx, ack, bye, events, con, mapVars, media, notify, pbxVars>>

Send200Fails(i) ==
  /\ "200" \in Fails
  /\ task[i].at = "send200"
  /\ Unlock(i)
  /\ Goto(i, "waitpbx")
  /\ UNCHANGED <<peerVars, con, mapVars, sess, resVars, est, pbxVars>>

\* The RTP inactivity watchdog of an established call.
Watchdog(i) ==
  /\ task[i].at = "waitpbx"
  /\ est[i]
  /\ pbx[i] # "ended"
  /\ i \in media
  /\ chan' = SoftHangup(chan, i)
  /\ Goto(i, "unwind")
  /\ UNCHANGED <<peerVars, con, mapVars, lock, sess, media, notify, est, pbxVars>>

PbxJoined(i) ==
  /\ task[i].at \in {"waitpbx", "unwind"}
  /\ pbx[i] = "ended"
  /\ Goto(i, "hangup")
  /\ UNCHANGED <<peerVars, con, mapVars, lock, sess, resVars, est, pbxVars>>

\* Mutant: the end of the dialplan is not signalled to the caller.
TeardownQuiet(i) ==
  /\ task[i].at = "hangup"
  /\ Goto(i, "cleanup")
  /\ UNCHANGED <<peerVars, con, mapVars, lock, sess, resVars, est, pbxVars>>

\* After the hangup callback: whatever session the Call-ID now names.
Teardown(i) ==
  /\ task[i].at = "hangup"
  /\ IF states = 0 THEN Goto(i, "cleanup")
     ELSE GotoWith(i, IF est[i] THEN "bye" ELSE "fail", states)
  /\ UNCHANGED <<peerVars, con, mapVars, lock, sess, resVars, est, pbxVars>>

BuildBye(i) ==
  LET k == task[i].k
  IN /\ task[i].at = "bye"
     /\ lock[k] = 0
     /\ lock' = [lock EXCEPT ![k] = i]
     /\ sess' = [sess EXCEPT ![k] = "Terminating"]
     /\ Goto(i, "sendbye")
     /\ UNCHANGED <<peerVars, con, mapVars, resVars, est, pbxVars>>

\* Mutant: the session's mutex is not released with the BYE.
SendByeLocked(i) ==
  LET k == task[i].k
  IN /\ task[i].at = "sendbye"
     /\ wire' = [wire EXCEPT ![k] = @ \cup {"BYE"}]
     /\ GotoWith(i, "cleanup", 0)
     /\ UNCHANGED <<tx, ack, bye, events, con, mapVars, lock, sess, resVars, est, pbxVars>>

\* transport.send, not a client transaction: one datagram.
SendBye(i) ==
  LET k == task[i].k
  IN /\ task[i].at = "sendbye"
     /\ \/ wire' = [wire EXCEPT ![k] = @ \cup {"BYE"}]
        \/ "BYE" \in Fails /\ UNCHANGED wire
     /\ Unlock(k)
     /\ GotoWith(i, "cleanup", 0)
     /\ UNCHANGED <<tx, ack, bye, events, con, mapVars, sess, resVars, est, pbxVars>>

\* Never answered: record a failure, send it, forget the Call-ID.
RecordFail(i) ==
  LET k == task[i].k
  IN /\ task[i].at = "fail"
     /\ lock[k] = 0
     /\ Record(k, "fail")
     /\ lock' = [lock EXCEPT ![k] = i]
     /\ Goto(i, "sendfail")
     /\ UNCHANGED <<ack, wire, bye, events, con, mapVars, sess, resVars, est, pbxVars>>

SendFail(i) ==
  /\ task[i].at = "sendfail"
  /\ Unlock(task[i].k)
  /\ states' = 0
  /\ cmap' = 0
  /\ GotoWith(i, "cleanup", 0)
  /\ UNCHANGED <<peerVars, con, sess, resVars, est, pbxVars>>

\* Mutant: the NOTIFY registration is left behind (the former leak).
FinalizeKeepingNotify(i) ==
  /\ chan' = [chan EXCEPT ![i].reg = FALSE]
  /\ media' = media \ {i}
  /\ UNCHANGED notify

\* finalize_inbound_teardown
Finalize(i) ==
  /\ chan' = [chan EXCEPT ![i].reg = FALSE]
  /\ media' = media \ {i}
  /\ notify' = notify \ {i}

\* The cleanup task: poll until the Call-ID is forgotten, or for 32 s.
CleanupPoll(i) ==
  /\ task[i].at = "cleanup"
  /\ states = 0
  /\ Finalize(i)
  /\ Goto(i, "done")
  /\ UNCHANGED <<peerVars, con, mapVars, lock, sess, est, pbxVars>>

CleanupDeadline(i) ==
  /\ task[i].at = "cleanup"
  /\ states # 0
  /\ states' = 0
  /\ cmap' = 0
  /\ Finalize(i)
  /\ Goto(i, "done")
  /\ UNCHANGED <<peerVars, con, lock, sess, est, pbxVars>>

-----------------------------------------------------------------------------
Peer(i) ==
  \/ PeerInvite(i) \/ PeerCancel(i) \/ PeerAck(i) \/ PeerBye(i)
  \/ Retransmit(i) \/ AckTimeout(i)

Consumer ==
  \/ \E i \in Inv :
       \/ RejectInvite(i) \/ AcceptInvite(i)
       \/ RejectBye(i) \/ AcceptBye(i)
       \/ HandleCancel(i) \/ HandleAckTimeout(i)
  \/ AllocFails \/ StartCall
  \/ LookupBye \/ FinishBye

Dialplan(i) ==
  AppAnswers(i) \/ AppReturns(i) \/ NextPriority(i) \/ PbxEnds(i)

\* The steps of the per-call task that wait for no timer of their own.
Task(i) ==
  \/ SelectAnswered(i) \/ SelectEnded(i) \/ Expire(i)
  \/ StillActive(i) \/ Record200(i) \/ Send200(i) \/ Send200Fails(i)
  \/ PbxJoined(i) \/ Teardown(i)
  \/ BuildBye(i) \/ SendBye(i) \/ RecordFail(i) \/ SendFail(i)
  \/ CleanupPoll(i) \/ CleanupDeadline(i)

Next ==
  \/ Consumer
  \/ \E i \in Inv :
       Peer(i) \/ Dialplan(i) \/ Task(i) \/ SelectTimeout(i) \/ Watchdog(i)

Spec == Init /\ [][Next]_vars

\* The dialplan of a channel that was hung up comes to its end: every app
\* looks at its own copy of the channel, and all but the deaf ones also at
\* the store's copy.
HungUp(i) == copy[i].soft \/ (~ Deaf /\ chan[i].soft)
Unwinds(i) == HungUp(i) /\ PbxEnds(i)

\* PBX_MAX_ITERATIONS: a dialplan does not go from app to app for ever.
RunsOut(i) == pbx[i] = "gap" /\ PbxEnds(i)

\* The runtime keeps polling the consumer and the tasks; the lock Expire
\* waits for is granted in FIFO order; a dialplan that was hung up unwinds.
\* Nothing makes the peer act or an app return.
InboundFairness ==
  /\ WF_vars(Consumer)
  /\ \A i \in Inv :
       /\ WF_vars(Task(i))
       /\ SF_vars(Expire(i))
       /\ WF_vars(Unwinds(i))
       /\ SF_vars(RunsOut(i))

FairSpec == Spec /\ InboundFairness

-----------------------------------------------------------------------------
(* Properties.                                                              *)

\* A call that is over has answered its INVITE: "the still-open INVITE must
\* get a final response" (event_handler.rs:1226), whichever of CANCEL, BYE,
\* timeout, dialplan end and Answer() came first.
InviteIsAnswered ==
  \A i \in Inv : task[i].at \in {"cleanup", "done"} => tx[i] # "Proceeding"

\* A dialog the caller was told of is ended on both sides: when the task is
\* over, a caller that was sent a 200 was sent BYE, sent one, or never ACKed
\* ("selects BYE vs. final-failure teardown", event_handler.rs:1070).
DialogIsEnded ==
  \A i \in Inv :
    task[i].at = "done" /\ "200" \in wire[i] =>
      "BYE" \in wire[i] \/ i \in bye \/ ack[i] = "timeout"

\* An answer and a CANCEL never both take effect: a call whose INVITE ended
\* in 487 or a failure is never established, shown as Up, or sent BYE
\* (record_invite_final against handle_cancel and the per-call task).
OnlyAnsweredIsUp ==
  \A i \in Inv :
    est[i] \/ chan[i].up \/ sess[i] # "Initiated" \/ "BYE" \in wire[i]
      => tx[i] = "200" /\ "200" \in wire[i]

\* Nothing leaks: a store entry, media plane, NOTIFY registration or map
\* entry of a call belongs to the handler still setting it up or to a task
\* that has yet to finish (finalize_inbound_teardown, AllocFails).
NoLeak ==
  \A i \in Inv :
    chan[i].reg \/ i \in media \/ i \in notify \/ cmap = i \/ states = i
      => (con.at = "alloc" /\ con.i = i) \/ task[i].at \notin {"none", "done"}

\* A dialplan that answered fails its INVITE only if the call was hung up:
\* when Answer() and the end of the dialplan come together, "the stored
\* Notify permit must win so the call is answered" (event_handler.rs:1038).
AnswerWins ==
  \A i \in Inv : copy[i].up /\ tx[i] = "fail" => chan[i].soft

\* An established call keeps the session stored "for later signaling (200
\* OK, BYE)" (event_handler.rs:892): until its dialplan ends, only the
\* caller's BYE or a missing ACK removes it.
SessionIsKept ==
  \A i \in Inv :
    task[i].at = "waitpbx" /\ est[i] =>
      states = i \/ i \in bye \/ ack[i] = "timeout"

\* A call that was cancelled, hung up by its caller or never ACKed releases
\* everything it holds (handle_cancel, handle_bye, the cleanup task).
EndIsReleased ==
  \A i \in Inv :
    (tx[i] = "487" \/ i \in bye \/ ack[i] = "timeout")
      ~> ~ (chan[i].reg \/ i \in media \/ i \in notify)

\* After 30 s without an answer the INVITE "gets its final failure response
\* now, instead of staying open indefinitely" (event_handler.rs:1054).
TimeoutIsFinal ==
  \A i \in Inv : task[i].at = "expire" ~> tx[i] # "Proceeding"
=============================================================================
