----------------------------- MODULE InboundProofs -----------------------------
(***************************************************************************)
(* Inbound calls, for any number of INVITEs that carry the same Call-ID,   *)
(* any failures of transport.send and any apps: nothing leaks, the mutex   *)
(* of a CallState is held by a task that is sending, and only an answered  *)
(* INVITE makes a call established or Up.                                  *)
(*                                                                         *)
(* NoLeak is not inductive.  It needs to know that an INVITE is announced  *)
(* once and has no task before the consumer has taken it (Arrival), that   *)
(* the session a task sends on is the one it locked (Locked), and that the *)
(* two maps change together, so that the channel the Call-ID names is the  *)
(* one being set up or the one whose session is stored (Named).            *)
(*                                                                         *)
(* What a call owes its caller (a final, the end of an answered dialog, an *)
(* Answer() that counts) holds for a Call-ID with one INVITE.  It needs    *)
(* that the consumer's events have happened (Reported) and what each place *)
(* of the per-call task implies (Course, Closing).                         *)
(***************************************************************************)
EXTENDS InboundCall, TLAPS

-----------------------------------------------------------------------------
(* The invariants.                                                          *)

\* What the queue, the tasks and the channels are made of.

Kinds == {"IncomingInvite", "IncomingCancel", "IncomingBye", "InviteAckTimeout"}
Event == [kind : Kinds, i : Inv]
Invited(i) == [kind |-> "IncomingInvite", i |-> i]

Chans == [reg : BOOLEAN, soft : BOOLEAN, up : BOOLEAN]
Copies == [soft : BOOLEAN, up : BOOLEAN]
Sending == {"send200", "sendbye", "sendfail"}
Ats == {"none", "select", "expire", "answer", "lock", "waitpbx", "unwind", "hangup",
        "bye", "fail", "cleanup", "done"} \cup Sending
Tasks == [at : Ats, k : InvOrNone]
Cons == [at : {"idle", "alloc", "bye", "release"}, i : InvOrNone, k : InvOrNone]

\* The INVITEs that wait in the event queue.
Queued == {i \in Inv : \E p \in 1 .. Len(events) : events[p] = Invited(i)}

\* An INVITE is announced once, and its task starts only after the consumer has
\* taken it: until then nothing of the call exists.
Arrival ==
  /\ \A i \in Inv : tx[i] = "idle" => i \notin Queued /\ task[i].at = "none"
  /\ \A i \in Queued : task[i].at = "none"
  /\ \A i \in Inv, p, q \in 1 .. Len(events) :
       events[p] = Invited(i) /\ events[q] = Invited(i) => p = q
  /\ con.at = "alloc" =>
       con.i \in Inv /\ tx[con.i] # "idle" /\ con.i \notin Queued
       /\ task[con.i].at = "none"

\* The mutex of a CallState is held by the task that sends on its dialog.
Locked ==
  /\ \A k \in Inv : lock[k] # 0 =>
       \/ task[lock[k]].at = "send200" /\ lock[k] = k
       \/ task[lock[k]].at \in {"sendbye", "sendfail"} /\ task[lock[k]].k = k
  /\ \A i \in Inv :
       task[i].at \in {"bye", "sendbye", "fail", "sendfail"} => task[i].k \in Inv

\* The Call-ID names the channel being set up or the session that is stored,
\* and a call that has no task holds nothing else.
Named ==
  /\ cmap # 0 => (con.at = "alloc" /\ con.i = cmap) \/ states = cmap
  /\ con.at = "alloc" => cmap \in {0, con.i}
  /\ \A i \in Inv : task[i].at = "none" => i \notin media \cup notify /\ states # i

\* The inductive invariant.
InboundInv == TypeOK /\ Arrival /\ Locked /\ Named /\ NoLeak

\* What a 200 on the wire, an established session and a BYE rest on.
Answers ==
  \A i \in Inv :
    /\ task[i].at = "send200" => tx[i] = "200"
    /\ est[i] \/ chan[i].up \/ sess[i] = "Established" =>
         tx[i] = "200" /\ "200" \in wire[i]
    /\ task[i].at \in {"bye", "sendbye"} => est[i]
    /\ sess[i] = "Terminating" \/ "BYE" \in wire[i] => \E j \in Inv : est[j]

-----------------------------------------------------------------------------
(* The steps of a task and the flags of a channel.                          *)

\* Only the task of call i moves, to a place and perhaps to another session.
Moved(i, at, k) ==
  /\ task' \in [Inv -> Tasks]
  /\ task'[i].at = at /\ task'[i].k = k
  /\ \A j \in Inv \ {i} : task'[j] = task[j]

Holders == \A k \in Inv : lock[k] # 0 => task[lock[k]].at \in Sending

\* Events and consumer positions are what TypeOK says they are.
LEMMA Shapes ==
  ASSUME TypeOK
  PROVE  /\ events \in Seq(Event)
         /\ \A kd \in Kinds, i \in Inv : [kind |-> kd, i |-> i] \in Event
         /\ Idle \in Cons
         /\ task \in [Inv -> Tasks] /\ chan \in [Inv -> Chans] /\ Holders
  <1>1. events \in Seq(Event)
    BY Zenon DEF TypeOK, Event, Kinds
  <1>2. task \in [Inv -> Tasks] /\ chan \in [Inv -> Chans] /\ Holders
    BY DEF TypeOK, Tasks, Ats, Sending, Chans, Holders
  <1>3. 0 \in InvOrNone
    BY InboundAssumption DEF InvOrNone
  <1> QED BY <1>1, <1>2, <1>3, Zenon DEF Idle, Cons, Event, Kinds

\* The same types under names of their own, which the steps leave closed.
Fields ==
  /\ tx \in [Inv -> {"idle", "Proceeding", "200", "487", "fail"}]
  /\ ack \in [Inv -> {"no", "acked", "timeout"}]
  /\ wire \in [Inv -> SUBSET {"200", "BYE"}]
  /\ bye \in SUBSET Inv
  /\ events \in Seq(Event) /\ con \in Cons
  /\ states \in InvOrNone /\ cmap \in InvOrNone
  /\ lock \in [Inv -> InvOrNone]
  /\ sess \in [Inv -> {"Initiated", "Established", "Terminating"}]
  /\ chan \in [Inv -> Chans]
  /\ media \in SUBSET Inv /\ notify \in SUBSET Inv
  /\ task \in [Inv -> Tasks]
  /\ est \in [Inv -> BOOLEAN] /\ pbx \in [Inv -> {"none", "app", "gap", "ended"}]
  /\ copy \in [Inv -> Copies] /\ permit \in [Inv -> BOOLEAN]
  /\ Holders

LEMMA Shaped == (TypeOK <=> Fields) /\ (TypeOK' <=> Fields')
  <1>1. Ats = {"none", "select", "expire", "answer", "lock", "send200", "waitpbx", "unwind",
               "hangup", "bye", "sendbye", "fail", "sendfail", "cleanup", "done"}
    BY Zenon DEF Ats, Sending
  <1>2. TypeOK <=> Fields
    BY <1>1, Zenon DEF TypeOK, Fields, Event, Kinds, Cons, Chans, Tasks, Copies, Holders, Sending
  <1>3. TypeOK' <=> Fields'
    BY <1>1, Zenon DEF TypeOK, Fields, Event, Kinds, Cons, Chans, Tasks, Copies, Holders, Sending
  <1> QED BY <1>2, <1>3, Zenon

\* Calls are numbered from 1: 0 stands for none.
LEMMA Numbers == 0 \in InvOrNone /\ InvOrNone = Inv \cup {0} /\ 0 \notin Inv
  BY InboundAssumption DEF Inv, InvOrNone

\* A task goes to its next place.
LEMMA Goes ==
  ASSUME TypeOK, NEW i \in Inv, NEW at \in Ats, Goto(i, at)
  PROVE  Moved(i, at, task[i].k) /\ task[i].k \in InvOrNone
  BY Shapes, Zenon DEF Goto, Moved, Tasks

\* A task goes to its next place, with a session it looked up.
LEMMA GoesWith ==
  ASSUME TypeOK, NEW i \in Inv, NEW at \in Ats, NEW k \in InvOrNone, GotoWith(i, at, k)
  PROVE  Moved(i, at, k)
  BY Shapes, Zenon DEF GotoWith, Moved, Tasks

\* One flag of the dialplan's copy is set.
LEMMA CopyChanges ==
  ASSUME TypeOK, NEW i \in Inv
  PROVE  /\ [copy EXCEPT ![i].up = TRUE] \in [Inv -> Copies]
         /\ [copy EXCEPT ![i].soft = TRUE] \in [Inv -> Copies]
  <1>1. copy \in [Inv -> Copies]
    BY Zenon DEF TypeOK, Copies
  <1>2. [copy[i] EXCEPT !.up = TRUE] \in Copies /\ [copy[i] EXCEPT !.soft = TRUE] \in Copies
    BY <1>1, Zenon DEF Copies
  <1> QED BY <1>1, <1>2, Zenon

\* One field of a channel is set: it is registered, removed or answered.
LEMMA ChanChanges ==
  ASSUME TypeOK, NEW i \in Inv
  PROVE  /\ [chan EXCEPT ![i].reg = TRUE] \in [Inv -> Chans]
         /\ [chan EXCEPT ![i].reg = FALSE] \in [Inv -> Chans]
         /\ [chan EXCEPT ![i].up = TRUE] \in [Inv -> Chans]
  <1>1. chan \in [Inv -> Chans]
    BY Shapes, Zenon
  <1>2. /\ [chan[i] EXCEPT !.reg = TRUE] \in Chans /\ [chan[i] EXCEPT !.reg = FALSE] \in Chans
        /\ [chan[i] EXCEPT !.up = TRUE] \in Chans
    BY <1>1, Zenon DEF Chans
  <1> QED BY <1>1, <1>2, Zenon

\* A soft hangup only sets a flag.
LEMMA Flagged ==
  ASSUME TypeOK, NEW k \in InvOrNone
  PROVE  /\ SoftHangup(chan, k) \in [Inv -> Chans]
         /\ \A i \in Inv : /\ SoftHangup(chan, k)[i].reg <=> chan[i].reg
                           /\ SoftHangup(chan, k)[i].up <=> chan[i].up
                           /\ chan[i].soft => SoftHangup(chan, k)[i].soft
  <1>1. CASE k # 0 /\ chan[k].reg
    <2>1. SoftHangup(chan, k) = [chan EXCEPT ![k].soft = TRUE]
      BY <1>1, Zenon DEF SoftHangup
    <2>2. k \in Inv /\ chan \in [Inv -> Chans]
      BY <1>1, Shapes, Numbers, Zenon
    <2>3. [chan[k] EXCEPT !.soft = TRUE] \in Chans
      BY <2>2, Zenon DEF Chans
    <2>4. /\ SoftHangup(chan, k) \in [Inv -> Chans]
          /\ \A i \in Inv \ {k} : SoftHangup(chan, k)[i] = chan[i]
          /\ SoftHangup(chan, k)[k] = [chan[k] EXCEPT !.soft = TRUE]
      BY <2>1, <2>2, <2>3, Zenon
    <2>5. /\ SoftHangup(chan, k)[k].reg = chan[k].reg
          /\ SoftHangup(chan, k)[k].up = chan[k].up
          /\ SoftHangup(chan, k)[k].soft = TRUE
      BY <2>2, <2>4 DEF Chans
    <2> QED BY <2>4, <2>5, Zenon
  <1>2. CASE ~ (k # 0 /\ chan[k].reg)
    <2>1. SoftHangup(chan, k) = chan
      BY <1>2, Zenon DEF SoftHangup
    <2> QED BY <2>1, Shapes, Zenon
  <1> QED BY <1>1, <1>2, Zenon

\* A task that holds no mutex moves without one.
LEMMA Unheld ==
  ASSUME TypeOK, NEW i \in Inv, NEW at, NEW k, Moved(i, at, k),
         task[i].at \notin Sending, UNCHANGED lock
  PROVE  Holders'
  <1> SUFFICES ASSUME NEW c \in Inv, lock[c] # 0 PROVE task'[lock[c]].at \in Sending
    BY Zenon DEF Holders
  <1>1. lock[c] \in Inv /\ task[lock[c]].at \in Sending
    BY Shapes, Numbers DEF Holders, TypeOK
  <1> QED BY <1>1, Zenon DEF Moved

\* A task that lets its mutex go holds no other.
LEMMA LetGo ==
  ASSUME TypeOK, Locked, NEW i \in Inv, NEW at, NEW k, Moved(i, at, k), NEW c \in Inv,
         \/ task[i].at = "send200" /\ c = i
         \/ task[i].at \in {"sendbye", "sendfail"} /\ c = task[i].k,
         Unlock(c)
  PROVE  lock' \in [Inv -> InvOrNone] /\ Holders'
  <1>1. /\ lock' \in [Inv -> InvOrNone] /\ lock'[c] = 0
        /\ \A d \in Inv \ {c} : lock'[d] = lock[d]
    BY Numbers DEF Unlock, TypeOK
  <1> SUFFICES ASSUME NEW d \in Inv, lock'[d] # 0 PROVE task'[lock'[d]].at \in Sending
    BY <1>1, Zenon DEF Holders
  <1>2. d # c /\ lock'[d] = lock[d] /\ lock[d] \in Inv
    BY <1>1, Numbers DEF TypeOK
  <1>3. lock[d] # i
    BY <1>2 DEF Locked
  <1> QED BY <1>2, <1>3, Shapes, Zenon DEF Moved, Holders

\* A task that takes a free mutex goes on to send.
LEMMA Takes ==
  ASSUME TypeOK, NEW i \in Inv, NEW at \in Sending, NEW k, Moved(i, at, k), NEW c \in Inv,
         lock' = [lock EXCEPT ![c] = i]
  PROVE  lock' \in [Inv -> InvOrNone] /\ Holders'
  <1>1. /\ lock' \in [Inv -> InvOrNone] /\ lock'[c] = i
        /\ \A d \in Inv \ {c} : lock'[d] = lock[d]
    BY Numbers DEF TypeOK
  <1> SUFFICES ASSUME NEW d \in Inv, lock'[d] # 0 PROVE task'[lock'[d]].at \in Sending
    BY <1>1, Zenon DEF Holders
  <1>2. CASE lock'[d] = i
    BY <1>2, Zenon DEF Moved
  <1>3. CASE lock'[d] # i
    <2>1. lock'[d] = lock[d] /\ lock[d] \in Inv
      BY <1>1, <1>3, Numbers DEF TypeOK
    <2> QED BY <1>3, <2>1, Shapes, Zenon DEF Moved, Holders
  <1> QED BY <1>2, <1>3, Zenon

\* Where the steps of a task lead.  Most touch no lock and send nothing.
QuietStep(i) ==
  \/ SelectAnswered(i) \/ SelectEnded(i) \/ SelectTimeout(i) \/ Expire(i)
  \/ StillActive(i) \/ Watchdog(i) \/ PbxJoined(i)

\* From the select to the end of the dialplan (the per-call task).
LEMMA QuietSteps ==
  ASSUME TypeOK, NEW i \in Inv, QuietStep(i)
  PROVE  /\ task[i].at \in {"select", "expire", "answer", "waitpbx", "unwind"}
         /\ task'[i].at \in {"answer", "hangup", "expire", "waitpbx", "lock", "unwind"}
         /\ Moved(i, task'[i].at, task[i].k)
  <1> USE DEF Ats, Sending
  <1>1. CASE SelectAnswered(i)
    <2>1. task[i].at = "select" /\ Moved(i, "answer", task[i].k)
      BY <1>1, Goes, Zenon DEF SelectAnswered
    <2> QED BY <2>1, Zenon DEF Moved
  <1>2. CASE SelectEnded(i)
    <2>1. task[i].at = "select" /\ Moved(i, "hangup", task[i].k)
      BY <1>2, Goes, Zenon DEF SelectEnded
    <2> QED BY <2>1, Zenon DEF Moved
  <1>3. CASE SelectTimeout(i)
    <2>1. task[i].at = "select" /\ Moved(i, "expire", task[i].k)
      BY <1>3, Goes, Zenon DEF SelectTimeout
    <2> QED BY <2>1, Zenon DEF Moved
  <1>4. CASE Expire(i)
    <2>1. task[i].at = "expire" /\ Moved(i, "waitpbx", task[i].k)
      BY <1>4, Goes, Zenon DEF Expire
    <2> QED BY <2>1, Zenon DEF Moved
  <1>5. CASE StillActive(i)
    <2>1. /\ task[i].at = "answer"
          /\ Moved(i, IF states # 0 THEN "lock" ELSE "waitpbx", task[i].k)
      BY <1>5, Goes, Zenon DEF StillActive
    <2> QED BY <2>1, Zenon DEF Moved
  <1>6. CASE Watchdog(i)
    <2>1. task[i].at = "waitpbx" /\ Moved(i, "unwind", task[i].k)
      BY <1>6, Goes, Zenon DEF Watchdog
    <2> QED BY <2>1, Zenon DEF Moved
  <1>7. CASE PbxJoined(i)
    <2>1. task[i].at \in {"waitpbx", "unwind"} /\ Moved(i, "hangup", task[i].k)
      BY <1>7, Goes, Zenon DEF PbxJoined
    <2> QED BY <2>1, Zenon DEF Moved
  <1> QED BY <1>1, <1>2, <1>3, <1>4, <1>5, <1>6, <1>7, Zenon DEF QuietStep

\* Where record_invite_final and the send of the 200 lead.
LEMMA AnswerSteps ==
  ASSUME TypeOK, NEW i \in Inv
  PROVE  /\ Record200(i) => task[i].at = "lock"
         /\ Record200(i) /\ MayRecord(i) => Moved(i, "send200", task[i].k)
         /\ Record200(i) /\ ~ MayRecord(i) => Moved(i, "waitpbx", task[i].k)
         /\ Send200(i) \/ Send200Fails(i) =>
              task[i].at = "send200" /\ Moved(i, "waitpbx", task[i].k)
  <1> USE DEF Ats, Sending
  <1>1. ASSUME Record200(i) PROVE task[i].at = "lock"
    BY <1>1, Zenon DEF Record200
  <1>2. ASSUME Record200(i), MayRecord(i) PROVE Moved(i, "send200", task[i].k)
    BY <1>2, Goes, Zenon DEF Record200
  <1>3. ASSUME Record200(i), ~ MayRecord(i) PROVE Moved(i, "waitpbx", task[i].k)
    BY <1>3, Goes, Zenon DEF Record200
  <1>4. ASSUME Send200(i) \/ Send200Fails(i)
        PROVE  task[i].at = "send200" /\ Moved(i, "waitpbx", task[i].k)
    BY <1>4, Goes, Zenon DEF Send200, Send200Fails
  <1> QED BY <1>1, <1>2, <1>3, <1>4, Zenon

\* Where the choice between BYE and a failure leads.
LEMMA TeardownSteps ==
  ASSUME TypeOK, NEW i \in Inv, Teardown(i)
  PROVE  /\ task[i].at = "hangup"
         /\ \E k : \/ Moved(i, "bye", k) /\ est[i] /\ k \in Inv
                   \/ Moved(i, "fail", k) /\ k \in Inv
                   \/ Moved(i, "cleanup", k)
  <1> USE DEF Ats, Sending
  <1>1. task[i].at = "hangup"
    BY Zenon DEF Teardown
  <1>2. CASE states = 0
    <2>1. Moved(i, "cleanup", task[i].k)
      BY <1>2, Goes, Zenon DEF Teardown
    <2> QED BY <1>1, <2>1, Zenon
  <1>3. CASE states # 0
    <2>1. states \in InvOrNone /\ states \in Inv
      BY <1>3, Numbers, Zenon DEF TypeOK
    <2>2. est[i] => Moved(i, "bye", states)
      BY <1>3, <2>1, GoesWith, Zenon DEF Teardown
    <2>3. ~ est[i] => Moved(i, "fail", states)
      BY <1>3, <2>1, GoesWith, Zenon DEF Teardown
    <2> QED BY <1>1, <2>1, <2>2, <2>3, Zenon
  <1> QED BY <1>2, <1>3, Zenon

\* Where BYE and failure lead, once their session is chosen.
LEMMA EndSteps ==
  ASSUME TypeOK, Locked, NEW i \in Inv
  PROVE  /\ BuildBye(i) => /\ task[i].at = "bye" /\ task[i].k \in Inv
                           /\ Moved(i, "sendbye", task[i].k)
         /\ RecordFail(i) => /\ task[i].at = "fail" /\ task[i].k \in Inv
                             /\ Moved(i, "sendfail", task[i].k)
         /\ SendBye(i) =>
              task[i].at = "sendbye" /\ task[i].k \in Inv /\ Moved(i, "cleanup", 0)
         /\ SendFail(i) =>
              task[i].at = "sendfail" /\ task[i].k \in Inv /\ Moved(i, "cleanup", 0)
         /\ CleanupPoll(i) \/ CleanupDeadline(i) =>
              task[i].at = "cleanup" /\ Moved(i, "done", task[i].k)
  <1> USE DEF Ats, Sending
  <1>1. \/ BuildBye(i) \/ RecordFail(i) \/ SendBye(i) \/ SendFail(i)
        => task[i].k \in Inv
    BY Zenon DEF BuildBye, RecordFail, SendBye, SendFail, Locked
  <1>2. ASSUME BuildBye(i) PROVE task[i].at = "bye" /\ Moved(i, "sendbye", task[i].k)
    BY <1>2, Goes, Zenon DEF BuildBye
  <1>3. ASSUME RecordFail(i) PROVE task[i].at = "fail" /\ Moved(i, "sendfail", task[i].k)
    BY <1>3, Goes, Zenon DEF RecordFail
  <1>4. ASSUME SendBye(i) PROVE task[i].at = "sendbye" /\ Moved(i, "cleanup", 0)
    BY <1>4, GoesWith, Numbers, Zenon DEF SendBye
  <1>5. ASSUME SendFail(i) PROVE task[i].at = "sendfail" /\ Moved(i, "cleanup", 0)
    BY <1>5, GoesWith, Numbers, Zenon DEF SendFail
  <1>6. ASSUME CleanupPoll(i) \/ CleanupDeadline(i)
        PROVE  task[i].at = "cleanup" /\ Moved(i, "done", task[i].k)
    BY <1>6, Goes, Zenon DEF CleanupPoll, CleanupDeadline
  <1> QED BY <1>1, <1>2, <1>3, <1>4, <1>5, <1>6, Zenon

\* Every step keeps the shape of the state.
LEMMA Typed ==
  ASSUME InboundInv, [Next]_vars
  PROVE  TypeOK'
  <1> USE InboundAssumption, Shapes DEF InboundInv, Cons
  <1> SUFFICES Fields'
    BY Shaped, Zenon
  <1>0. Fields
    BY Shaped, Zenon
  <1> USE <1>0
  <1>1. ASSUME NEW i \in Inv, PeerInvite(i) PROVE Fields'
    BY <1>1
    DEF Fields, Holders, PeerInvite, Emit, mapVars, resVars, taskVars, pbxVars, Kinds
  <1>2. ASSUME NEW i \in Inv, PeerCancel(i) PROVE Fields'
    BY <1>2
    DEF Fields, Holders, PeerCancel, Emit, mapVars, resVars, taskVars, pbxVars, Kinds
  <1>3. ASSUME NEW i \in Inv, PeerAck(i) PROVE Fields'
    BY <1>3, Zenon
    DEF Fields, Holders, PeerAck, mapVars, resVars, taskVars, pbxVars
  <1>4. ASSUME NEW i \in Inv, PeerBye(i) PROVE Fields'
    BY <1>4
    DEF Fields, Holders, PeerBye, Emit, mapVars, resVars, taskVars, pbxVars, Kinds
  <1>5. ASSUME NEW i \in Inv, Retransmit(i) PROVE Fields'
    BY <1>5, Zenon
    DEF Fields, Holders, Retransmit, mapVars, resVars, taskVars, pbxVars
  <1>6. ASSUME NEW i \in Inv, AckTimeout(i) PROVE Fields'
    BY <1>6
    DEF Fields, Holders, AckTimeout, Emit, mapVars, resVars, taskVars, pbxVars, Kinds
  <1>7. ASSUME NEW i \in Inv, RejectInvite(i) PROVE Fields'
    BY <1>7
    DEF Fields, Holders, RejectInvite, Taken, Record, mapVars, resVars, taskVars, pbxVars
  <1>8. ASSUME NEW i \in Inv, AcceptInvite(i) PROVE Fields'
    <2>1. chan' \in [Inv -> Chans]
      BY <1>8, ChanChanges, Zenon DEF AcceptInvite
    <2> QED BY <1>8, <2>1, Numbers
        DEF Fields, Holders, AcceptInvite, Taken, taskVars, pbxVars
  <1>9. ASSUME NEW i \in Inv, RejectBye(i) PROVE Fields'
    BY <1>9
    DEF Fields, Holders, RejectBye, Taken, mapVars, resVars, taskVars, pbxVars
  <1>10. ASSUME NEW i \in Inv, AcceptBye(i) PROVE Fields'
    <2>1. con' \in Cons
      BY <1>10, Numbers, Zenon DEF AcceptBye
    <2> QED BY <1>10, <2>1 DEF Fields, Holders, AcceptBye, Taken, mapVars, resVars, taskVars, pbxVars
  <1>11. ASSUME NEW i \in Inv, HandleCancel(i) PROVE Fields'
    <2>1. cmap \in InvOrNone
      BY Zenon DEF TypeOK
    <2>2. chan' \in [Inv -> Chans]
      BY <1>11, <2>1, Flagged DEF HandleCancel, mapVars, resVars, taskVars, pbxVars
    <2> QED BY <1>11, <2>2, Numbers
        DEF Fields, Holders, HandleCancel, Taken, mapVars, resVars, taskVars, pbxVars
  <1>12. ASSUME NEW i \in Inv, HandleAckTimeout(i) PROVE Fields'
    <2>1. cmap \in InvOrNone
      BY DEF TypeOK
    <2>2. chan' \in [Inv -> Chans]
      BY <1>12, <2>1, Flagged, Zenon DEF HandleAckTimeout, taskVars, pbxVars
    <2> QED BY <1>12, <2>2, Numbers
        DEF Fields, Holders, HandleAckTimeout, Taken, taskVars, pbxVars
  <1>13. CASE AllocFails
    <2>1. chan' \in [Inv -> Chans]
      BY <1>13, ChanChanges, Zenon DEF AllocFails, Arrival
    <2> QED BY <1>13, <2>1, Numbers, Zenon DEF Fields, Holders, AllocFails, Record, taskVars, pbxVars
  <1>14. CASE StartCall
    <2>1. con.i \in Inv /\ task[con.i].at = "none"
      BY <1>14, Zenon DEF StartCall, Arrival
    <2>2. Moved(con.i, "select", task[con.i].k)
      BY <1>14, <2>1, Goes, Zenon DEF StartCall, Goto, Ats
    <2>3. Holders'
      BY <1>14, <2>1, <2>2, Unheld, Zenon DEF StartCall, Sending
    <2> QED BY <1>14, <2>1, <2>2, <2>3, Numbers
        DEF Fields, StartCall, peerVars, Moved
  <1>15. CASE LookupBye
    BY <1>15, Zenon
    DEF Fields, Holders, LookupBye, peerVars, mapVars, resVars, taskVars, pbxVars
  <1>16. CASE FinishBye
    <2>1. con.k \in InvOrNone
      BY Zenon DEF TypeOK
    <2>2. chan' \in [Inv -> Chans]
      BY <1>16, <2>1, Flagged, Zenon DEF FinishBye, peerVars, taskVars, pbxVars
    <2> QED BY <1>16, <2>2, Numbers, Zenon
        DEF Fields, Holders, FinishBye, Idle, peerVars, taskVars, pbxVars
  <1>17. ASSUME NEW i \in Inv, AppAnswers(i) PROVE Fields'
    <2>1. copy' \in [Inv -> Copies]
      BY <1>17, CopyChanges, Zenon DEF AppAnswers
    <2>2. permit' \in [Inv -> BOOLEAN]
      BY <1>17, Zenon DEF AppAnswers, TypeOK
    <2> QED BY <1>17, <2>1, <2>2, Zenon
        DEF Fields, Holders, AppAnswers, peerVars, mapVars, resVars, taskVars
  <1>18. ASSUME NEW i \in Inv, AppReturns(i) PROVE Fields'
    BY <1>18
    DEF Fields, Holders, AppReturns, peerVars, mapVars, resVars, taskVars
  <1>19. ASSUME NEW i \in Inv, NextPriority(i) PROVE Fields'
    BY <1>19, Zenon
    DEF Fields, Holders, NextPriority, peerVars, mapVars, resVars, taskVars
  <1>20. ASSUME NEW i \in Inv, PbxEnds(i) PROVE Fields'
    BY <1>20, Zenon
    DEF Fields, Holders, PbxEnds, peerVars, mapVars, resVars, taskVars
  <1>21. ASSUME NEW i \in Inv, SelectAnswered(i) PROVE Fields'
    <2>1. Moved(i, "answer", task[i].k)
      BY <1>21, Goes, Zenon DEF SelectAnswered, Ats
    <2>2. Holders'
      BY <1>21, <2>1, Unheld, Zenon DEF SelectAnswered, Sending
    <2>3. permit' \in [Inv -> BOOLEAN]
      BY <1>21, Zenon DEF SelectAnswered, TypeOK
    <2> QED BY <1>21, <2>1, <2>2, <2>3, Zenon
        DEF Fields, SelectAnswered, peerVars, mapVars, resVars, Moved
  <1>22. ASSUME NEW i \in Inv, SelectEnded(i) PROVE Fields'
    <2>1. Moved(i, "hangup", task[i].k)
      BY <1>22, Goes, ZenonT(60) DEF SelectEnded, Ats
    <2>2. Holders'
      BY <1>22, <2>1, Unheld, Zenon DEF SelectEnded, Sending
    <2> QED BY <1>22, <2>1, <2>2, Zenon
        DEF Fields, SelectEnded, peerVars, mapVars, resVars, pbxVars, Moved
  <1>23. ASSUME NEW i \in Inv, Expire(i) PROVE Fields'
    <2>1. Moved(i, "waitpbx", task[i].k)
      BY <1>23, Goes, Zenon DEF Expire, Ats
    <2>2. Holders'
      BY <1>23, <2>1, Unheld, Zenon DEF Expire, Sending
    <2>3. chan' \in [Inv -> Chans]
      BY <1>23, Flagged, Numbers, Zenon DEF Expire
    <2>4. copy' \in [Inv -> Copies]
      BY <1>23, CopyChanges, Zenon DEF Expire
    <2> QED BY <1>23, <2>1, <2>2, <2>3, <2>4, Zenon
        DEF Fields, Expire, peerVars, mapVars, Moved
  <1>24. ASSUME NEW i \in Inv, StillActive(i) PROVE Fields'
    <2>1. \E at \in Ats : Moved(i, at, task[i].k)
      BY <1>24, Goes, Zenon DEF StillActive, Ats
    <2>2. Holders' /\ task' \in [Inv -> Tasks]
      BY <1>24, <2>1, Unheld, Zenon DEF StillActive, Sending, Moved
    <2> QED BY <1>24, <2>2, Zenon
        DEF Fields, StillActive, peerVars, mapVars, resVars, pbxVars
  <1>25. ASSUME NEW i \in Inv, Record200(i) PROVE Fields'
    <2>1. CASE MayRecord(i)
      <3>1. Moved(i, "send200", task[i].k)
        BY <1>25, <2>1, Goes, Zenon DEF Record200, Ats, Sending
      <3>2. lock' \in [Inv -> InvOrNone] /\ Holders'
        BY <1>25, <2>1, <3>1, Takes, Zenon DEF Record200, Sending
      <3> QED BY <1>25, <3>1, <3>2, Zenon
          DEF Fields, Record200, Record, mapVars, resVars, pbxVars, Moved
    <2>2. CASE ~ MayRecord(i)
      <3>1. Moved(i, "waitpbx", task[i].k)
        BY <1>25, <2>2, Goes, Zenon DEF Record200, Ats
      <3>2. Holders'
        BY <1>25, <2>2, <3>1, Unheld, Zenon DEF Record200, Sending
      <3> QED BY <1>25, <2>2, <3>1, <3>2
          DEF Fields, Record200, Record, mapVars, resVars, pbxVars, Moved
    <2> QED BY <2>1, <2>2, Zenon
  <1>26. ASSUME NEW i \in Inv, Send200(i) PROVE Fields'
    <2>1. Moved(i, "waitpbx", task[i].k) /\ i \in Inv
      BY <1>26, Goes, Zenon DEF Send200, Ats, Locked
    <2>2. lock' \in [Inv -> InvOrNone] /\ Holders'
      BY <1>26, <2>1, LetGo, Zenon DEF Send200
    <2>3. chan' \in [Inv -> Chans]
      BY <1>26, ChanChanges, Shapes, Zenon DEF Send200
    <2>4. wire' \in [Inv -> SUBSET {"200", "BYE"}]
      BY <1>26, Zenon DEF Send200, TypeOK
    <2>5. /\ sess' \in [Inv -> {"Initiated", "Established", "Terminating"}]
          /\ est' \in [Inv -> BOOLEAN]
      BY <1>26, Zenon DEF Send200, TypeOK
    <2> QED BY <1>26, <2>1, <2>2, <2>3, <2>4, <2>5, Numbers, Zenon
        DEF Fields, Send200, mapVars, pbxVars, Moved
  <1>27. ASSUME NEW i \in Inv, Send200Fails(i) PROVE Fields'
    <2>1. Moved(i, "waitpbx", task[i].k) /\ i \in Inv
      BY <1>27, Goes, Zenon DEF Send200Fails, Ats, Locked
    <2>2. lock' \in [Inv -> InvOrNone] /\ Holders'
      BY <1>27, <2>1, LetGo, Zenon DEF Send200Fails
    <2> QED BY <1>27, <2>1, <2>2, Numbers, Zenon
        DEF Fields, Send200Fails, peerVars, mapVars, resVars, pbxVars, Moved
  <1>28. ASSUME NEW i \in Inv, PbxJoined(i) PROVE Fields'
    <2>1. Moved(i, "hangup", task[i].k)
      BY <1>28, Goes, Zenon DEF PbxJoined, Ats
    <2>2. Holders'
      BY <1>28, <2>1, Unheld, Zenon DEF PbxJoined, Sending
    <2> QED BY <1>28, <2>1, <2>2, Zenon
        DEF Fields, PbxJoined, peerVars, mapVars, resVars, pbxVars, Moved
  <1>29. ASSUME NEW i \in Inv, Teardown(i) PROVE Fields'
    <2>1. \E at \in Ats, k \in InvOrNone : Moved(i, at, k)
      <3>1. CASE states = 0
        BY <1>29, <3>1, Goes, Zenon DEF Teardown, Ats
      <3>2. CASE states # 0
        BY <1>29, <3>2, GoesWith, Zenon DEF Teardown, Ats, TypeOK
      <3> QED BY <3>1, <3>2, Zenon
    <2>2. Holders' /\ task' \in [Inv -> Tasks]
      BY <1>29, <2>1, Unheld, Zenon DEF Teardown, Sending, Moved
    <2> QED BY <1>29, <2>2, Zenon
        DEF Fields, Teardown, peerVars, mapVars, resVars, pbxVars
  <1>30. ASSUME NEW i \in Inv, BuildBye(i) PROVE Fields'
    <2>1. Moved(i, "sendbye", task[i].k) /\ task[i].k \in Inv
      BY <1>30, Goes, Zenon DEF BuildBye, Ats, Sending, Locked
    <2>2. lock' \in [Inv -> InvOrNone] /\ Holders'
      BY <1>30, <2>1, Takes, ZenonT(60) DEF BuildBye, Sending
    <2> QED BY <1>30, <2>1, <2>2, Zenon
        DEF Fields, BuildBye, peerVars, mapVars, resVars, pbxVars, Moved
  <1>31. ASSUME NEW i \in Inv, SendBye(i) PROVE Fields'
    <2>1. Moved(i, "cleanup", 0) /\ task[i].k \in Inv
      BY <1>31, GoesWith, Numbers, ZenonT(60) DEF SendBye, Ats, Locked
    <2>2. lock' \in [Inv -> InvOrNone] /\ Holders'
      BY <1>31, <2>1, LetGo, Zenon DEF SendBye
    <2>3. wire' \in [Inv -> SUBSET {"200", "BYE"}]
      <3>1. wire' = wire \/ wire' = [wire EXCEPT ![task[i].k] = @ \cup {"BYE"}]
        BY <1>31, Zenon DEF SendBye
      <3>2. wire \in [Inv -> SUBSET {"200", "BYE"}]
        BY Zenon DEF TypeOK
      <3> QED BY <2>1, <3>1, <3>2
    <2> QED BY <1>31, <2>1, <2>2, <2>3, Numbers, Zenon
        DEF Fields, SendBye, mapVars, resVars, pbxVars, Moved
  <1>32. ASSUME NEW i \in Inv, RecordFail(i) PROVE Fields'
    <2>1. Moved(i, "sendfail", task[i].k) /\ task[i].k \in Inv
      BY <1>32, Goes, Zenon DEF RecordFail, Ats, Sending, Locked
    <2>2. lock' \in [Inv -> InvOrNone] /\ Holders'
      BY <1>32, <2>1, Takes, Zenon DEF RecordFail, Sending
    <2> QED BY <1>32, <2>1, <2>2, Zenon
        DEF Fields, RecordFail, Record, mapVars, resVars, pbxVars, Moved
  <1>33. ASSUME NEW i \in Inv, SendFail(i) PROVE Fields'
    <2>1. Moved(i, "cleanup", 0) /\ task[i].k \in Inv
      BY <1>33, GoesWith, Numbers, ZenonT(60) DEF SendFail, Ats, Locked
    <2>2. lock' \in [Inv -> InvOrNone] /\ Holders'
      BY <1>33, <2>1, LetGo, Zenon DEF SendFail
    <2> QED BY <1>33, <2>1, <2>2, Numbers, Zenon
        DEF Fields, SendFail, peerVars, resVars, pbxVars, Moved
  <1>34. ASSUME NEW i \in Inv, CleanupPoll(i) PROVE Fields'
    <2>1. Moved(i, "done", task[i].k)
      BY <1>34, Goes, Zenon DEF CleanupPoll, Ats
    <2>2. Holders'
      BY <1>34, <2>1, Unheld, Zenon DEF CleanupPoll, Sending
    <2>3. chan' \in [Inv -> Chans]
      BY <1>34, ChanChanges, Zenon DEF CleanupPoll, Finalize
    <2> QED BY <1>34, <2>1, <2>2, <2>3, Numbers, Zenon
        DEF Fields, CleanupPoll, Finalize, peerVars, mapVars, pbxVars, Moved
  <1>35. ASSUME NEW i \in Inv, CleanupDeadline(i) PROVE Fields'
    <2>1. Moved(i, "done", task[i].k)
      BY <1>35, Goes, Zenon DEF CleanupDeadline, Ats
    <2>2. Holders'
      BY <1>35, <2>1, Unheld, Zenon DEF CleanupDeadline, Sending
    <2>3. chan' \in [Inv -> Chans]
      BY <1>35, ChanChanges, Zenon DEF CleanupDeadline, Finalize
    <2> QED BY <1>35, <2>1, <2>2, <2>3, Numbers, Zenon
        DEF Fields, CleanupDeadline, Finalize, peerVars, pbxVars, Moved
  <1>36. ASSUME NEW i \in Inv, SelectTimeout(i) PROVE Fields'
    <2>1. Moved(i, "expire", task[i].k)
      BY <1>36, Goes, Zenon DEF SelectTimeout, Ats
    <2>2. Holders'
      BY <1>36, <2>1, Unheld, Zenon DEF SelectTimeout, Sending
    <2> QED BY <1>36, <2>1, <2>2, Zenon
        DEF Fields, SelectTimeout, peerVars, mapVars, resVars, pbxVars, Moved
  <1>37. ASSUME NEW i \in Inv, Watchdog(i) PROVE Fields'
    <2>1. Moved(i, "unwind", task[i].k)
      BY <1>37, Goes, Zenon DEF Watchdog, Ats
    <2>2. Holders'
      BY <1>37, <2>1, Unheld, Zenon DEF Watchdog, Sending
    <2>3. chan' \in [Inv -> Chans]
      BY <1>37, Flagged, Numbers, Zenon DEF Watchdog
    <2> QED BY <1>37, <2>1, <2>2, <2>3, Zenon
        DEF Fields, Watchdog, peerVars, mapVars, pbxVars, Moved
  <1>38. CASE UNCHANGED vars
    BY <1>38, Zenon
    DEF Fields, Holders, vars, peerVars, mapVars, resVars, taskVars, pbxVars
  <1> QED
    BY <1>1, <1>2, <1>3, <1>4, <1>5, <1>6, <1>7, <1>8, <1>9, <1>10, <1>11, <1>12, <1>13,
        <1>14, <1>15, <1>16, <1>17, <1>18, <1>19, <1>20, <1>21, <1>22, <1>23, <1>24,
        <1>25, <1>26, <1>27, <1>28, <1>29, <1>30, <1>31, <1>32, <1>33, <1>34, <1>35,
        <1>36, <1>37, <1>38, ZenonT(60)
    DEF Next, Consumer, Peer, Dialplan, Task

-----------------------------------------------------------------------------
(* The event queue.                                                         *)

\* At most one IncomingInvite of each call.
Once ==
  \A i \in Inv, p, q \in 1 .. Len(events) :
    events[p] = Invited(i) /\ events[q] = Invited(i) => p = q

\* An event joins the queue: an INVITE that was not announced yet, or another.
LEMMA Emitted ==
  ASSUME TypeOK, Once, NEW kd \in Kinds, NEW i \in Inv, Emit(kd, i),
         kd = "IncomingInvite" => i \notin Queued
  PROVE  /\ Queued' = Queued \cup (IF kd = "IncomingInvite" THEN {i} ELSE {})
         /\ Once'
  <1> DEFINE e == [kind |-> kd, i |-> i]
             n == Len(events)
  <1>1. e \in Event /\ events \in Seq(Event) /\ events' = Append(events, e)
    BY Shapes, Zenon DEF Emit
  <1>2. /\ n \in Nat /\ Len(events') = n + 1 /\ events'[n + 1] = e
        /\ \A p \in 1 .. n : events'[p] = events[p]
    <2> HIDE DEF e
    <2> QED BY <1>1
  <1>3. \A j \in Inv : e = Invited(j) <=> kd = "IncomingInvite" /\ j = i
    BY Zenon DEF Invited
  <1> HIDE DEF e, n
  <1>4. \A p \in 1 .. n + 1 : p \in 1 .. n \/ p = n + 1
    BY <1>2
  <1>5. 1 .. n \subseteq 1 .. n + 1 /\ n + 1 \in 1 .. n + 1
    BY <1>2
  <1>6. Queued' = Queued \cup (IF kd = "IncomingInvite" THEN {i} ELSE {})
    <2>1. ASSUME NEW j \in Queued' PROVE j \in Queued \/ (kd = "IncomingInvite" /\ j = i)
      BY <1>2, <1>3, <1>4, <2>1, Zenon DEF Queued, n
    <2>2. Queued \subseteq Queued'
      BY <1>2, <1>5, Zenon DEF Queued, n
    <2>3. kd = "IncomingInvite" => i \in Queued'
      BY <1>2, <1>3, <1>5, Zenon DEF Queued
    <2> QED BY <2>1, <2>2, <2>3, Zenon
  <1>7. Once'
    <2> SUFFICES ASSUME NEW j \in Inv, NEW p \in 1 .. n + 1, NEW q \in 1 .. n + 1,
                        events'[p] = Invited(j), events'[q] = Invited(j)
                 PROVE  p = q
      BY <1>2, Zenon DEF Once
    <2>1. CASE p \in 1 .. n /\ q \in 1 .. n
      BY <1>2, <2>1, Zenon DEF Once, n
    <2>2. CASE p = n + 1 /\ q \in 1 .. n
      BY <1>2, <1>3, <2>2, Zenon DEF Queued, n
    <2>3. CASE q = n + 1 /\ p \in 1 .. n
      BY <1>2, <1>3, <2>3, Zenon DEF Queued, n
    <2> QED BY <1>4, <2>1, <2>2, <2>3, Zenon
  <1> QED BY <1>6, <1>7, Zenon

\* The consumer takes the first event: an INVITE is no longer in the queue.
LEMMA TakenOff ==
  ASSUME TypeOK, Once, NEW kd, NEW i \in Inv, Taken(kd, i)
  PROVE  /\ Queued' \subseteq Queued /\ Once'
         /\ kd = "IncomingInvite" => i \in Queued /\ i \notin Queued'
  <1> DEFINE n == Len(events)
  <1>1. events \in Seq(Event) /\ events # <<>> /\ events' = Tail(events)
        /\ Head(events) = [kind |-> kd, i |-> i]
    BY Shapes, Zenon DEF Taken
  <1>2. /\ n \in Nat \ {0} /\ Len(events') = n - 1 /\ Head(events) = events[1]
        /\ \A p \in 1 .. n - 1 : events'[p] = events[p + 1]
    BY <1>1
  <1> HIDE DEF n
  <1>3. 1 \in 1 .. n /\ \A p \in 1 .. n - 1 : p + 1 \in 1 .. n /\ p + 1 # 1
    BY <1>2
  <1>4. Queued' \subseteq Queued
    BY <1>2, <1>3, Zenon DEF Queued, n
  <1>5. Once'
    <2> SUFFICES ASSUME NEW j \in Inv, NEW p \in 1 .. n - 1, NEW q \in 1 .. n - 1,
                        events'[p] = Invited(j), events'[q] = Invited(j)
                 PROVE  p = q
      BY <1>2, Zenon DEF Once
    <2>1. p + 1 = q + 1
      BY <1>2, <1>3 DEF Once, n
    <2> QED BY <1>2, <2>1
  <1>6. ASSUME kd = "IncomingInvite" PROVE i \in Queued /\ i \notin Queued'
    <2>1. events[1] = Invited(i)
      BY <1>1, <1>2, <1>6, Zenon DEF Invited
    <2>2. i \in Queued
      BY <1>3, <2>1, Zenon DEF Queued, n
    <2>3. ASSUME NEW p \in 1 .. n - 1, events'[p] = Invited(i) PROVE FALSE
      BY <1>2, <1>3, <2>1, <2>3, Zenon DEF Once, n
    <2> QED BY <1>2, <2>2, <2>3, Zenon DEF Queued
  <1> QED BY <1>4, <1>5, <1>6, Zenon

\* The steps that leave the tasks, the mutexes and what the calls hold alone.
LEMMA Aside ==
  ASSUME NEW i \in Inv, Peer(i) \/ Dialplan(i)
  PROVE  UNCHANGED <<con, mapVars, lock, sess, resVars, taskVars>>
  <1>1. CASE Peer(i)
    BY <1>1, Zenon DEF Peer, PeerInvite, PeerCancel, PeerAck, PeerBye, Retransmit,
                       AckTimeout
  <1>2. CASE Dialplan(i)
    BY <1>2, Zenon DEF Dialplan, AppAnswers, AppReturns, NextPriority, PbxEnds
  <1> QED BY <1>1, <1>2, Zenon

\* A task does not touch the queue or the consumer, and only ever moves on.
LEMMA TaskMoves ==
  ASSUME TypeOK, Locked, NEW i \in Inv, Task(i) \/ SelectTimeout(i) \/ Watchdog(i)
  PROVE  /\ UNCHANGED <<events, con, ack, bye>>
         /\ task[i].at \notin {"none", "done"}
         /\ Moved(i, task'[i].at, task'[i].k) /\ task'[i].at # "none"
         /\ task'[i].at = "done" => CleanupPoll(i) \/ CleanupDeadline(i)
         /\ task'[i].at = "send200" => Record200(i)
         /\ task'[i].at = "bye" => Teardown(i)
         /\ task'[i].at = "sendbye" => BuildBye(i)
  <1> DEFINE Moves ==
               /\ task[i].at \notin {"none", "done"}
               /\ Moved(i, task'[i].at, task'[i].k) /\ task'[i].at # "none"
               /\ task'[i].at = "done" => CleanupPoll(i) \/ CleanupDeadline(i)
               /\ task'[i].at = "send200" => Record200(i)
               /\ task'[i].at = "bye" => Teardown(i)
               /\ task'[i].at = "sendbye" => BuildBye(i)
  <1>1. Moves
    <2>1. CASE QuietStep(i)
      BY <2>1, QuietSteps, Zenon DEF Moved
    <2>2. CASE Record200(i) \/ Send200(i) \/ Send200Fails(i)
      BY <2>2, AnswerSteps, Zenon DEF Moved
    <2>3. CASE Teardown(i)
      BY <2>3, TeardownSteps, Zenon DEF Moved
    <2>4. CASE BuildBye(i)
      BY <2>4, EndSteps, Zenon DEF Moved
    <2>5. CASE RecordFail(i) \/ SendBye(i) \/ SendFail(i)
      BY <2>5, EndSteps, Zenon DEF Moved
    <2>6. CASE CleanupPoll(i) \/ CleanupDeadline(i)
      BY <2>6, EndSteps, Zenon DEF Moved
    <2> HIDE DEF Moves
    <2> QED BY <2>1, <2>2, <2>3, <2>4, <2>5, <2>6, Zenon DEF Task, QuietStep
  <1>2. UNCHANGED <<events, con, ack, bye>>
    BY Zenon DEF Task, SelectTimeout, Watchdog, SelectAnswered, SelectEnded, Expire,
       StillActive, Record200, Send200, Send200Fails, PbxJoined, Teardown, BuildBye,
       SendBye, RecordFail, SendFail, CleanupPoll, CleanupDeadline, peerVars
  <1> QED BY <1>1, <1>2, Zenon

\* record_invite_final changes one transaction, and that only while it is open.
LEMMA Recorded ==
  ASSUME TypeOK, NEW k \in Inv, NEW st, Record(k, st)
  PROVE  /\ \A j \in Inv : tx'[j] # tx[j] => j = k /\ tx[j] = "Proceeding" /\ tx'[j] = st
         /\ st # "Proceeding" => tx'[k] # "Proceeding"
         /\ tx[k] = "Proceeding" => tx'[k] = st
  BY DEF Record, MayRecord, TypeOK

\* A task records a final in a transaction that is open, and in no other.
LEMMA Transactions ==
  ASSUME TypeOK, Locked, NEW i \in Inv, Task(i) \/ SelectTimeout(i) \/ Watchdog(i)
  PROVE  \A j \in Inv : tx'[j] # tx[j] => tx[j] = "Proceeding" /\ tx'[j] \in {"200", "fail"}
  <1>1. CASE Record200(i)
    BY <1>1, Recorded DEF Record200
  <1>2. CASE RecordFail(i)
    <2>1. task[i].k \in Inv /\ Record(task[i].k, "fail")
      BY <1>2, EndSteps, Zenon DEF RecordFail
    <2> QED BY <2>1, Recorded
  <1>3. CASE ~ Record200(i) /\ ~ RecordFail(i)
    <2>1. UNCHANGED tx
      BY <1>3, Zenon DEF Task, SelectTimeout, Watchdog, SelectAnswered, SelectEnded, Expire,
         StillActive, Send200, Send200Fails, PbxJoined, Teardown, BuildBye,
         SendBye, SendFail, CleanupPoll, CleanupDeadline, peerVars
    <2> QED BY <2>1, Zenon
  <1> QED BY <1>1, <1>2, <1>3, Zenon

-----------------------------------------------------------------------------
(* The invariants, step by step.                                            *)

\* The consumer starts a task only for an INVITE it has just taken.
LEMMA ArrivalKept ==
  ASSUME InboundInv, [Next]_vars
  PROVE  Arrival'
  <1> USE DEF InboundInv
  <1>1. Once
    BY Zenon DEF Arrival, Once
  <1>2. ASSUME Once', Queued' \subseteq Queued,
               con' = con \/ con'.at # "alloc",
               \A j \in Inv : /\ tx'[j] = "idle" <=> tx[j] = "idle"
                              /\ task[j].at = "none" => task'[j].at = "none"
        PROVE  Arrival'
    <2>1. Queued \subseteq Inv /\ Queued' \subseteq Inv
      BY Zenon DEF Queued
    <2> QED BY <1>2, <2>1, Zenon DEF Arrival, Once
  <1>3. UNCHANGED events => Once' /\ Queued' = Queued
    BY <1>1, Zenon DEF Once, Queued
  <1>4. ASSUME NEW i \in Inv, Dialplan(i) \/ PeerAck(i) \/ Retransmit(i) PROVE Arrival'
    <2>1. UNCHANGED <<events, con, tx, task>>
      BY <1>4, Zenon DEF Dialplan, AppAnswers, AppReturns, NextPriority, PbxEnds,
                         PeerAck, Retransmit, peerVars, taskVars
    <2> QED BY <1>2, <1>3, <2>1, Zenon
  <1>5. ASSUME NEW i \in Inv, PeerInvite(i) PROVE Arrival'
    <2>1. i \notin Queued /\ task[i].at = "none" /\ tx[i] = "idle"
      BY <1>5, Zenon DEF PeerInvite, Arrival
    <2>2. Queued' = Queued \cup {i} /\ Once'
      BY <1>1, <1>5, <2>1, Emitted, Zenon DEF PeerInvite, Kinds
    <2>3. UNCHANGED <<con, task>> /\ tx' = [tx EXCEPT ![i] = "Proceeding"]
      BY <1>5, Zenon DEF PeerInvite, taskVars
    <2>4. tx'[i] = "Proceeding" /\ \A j \in Inv \ {i} : tx'[j] = tx[j]
      BY <2>3 DEF TypeOK
    <2> QED BY <2>1, <2>2, <2>3, <2>4, ZenonT(60) DEF Arrival, Once
  <1>6. ASSUME NEW i \in Inv, PeerCancel(i) \/ PeerBye(i) \/ AckTimeout(i) PROVE Arrival'
    <2>1. Queued' = Queued /\ Once'
      BY <1>1, <1>6, Emitted DEF PeerCancel, PeerBye, AckTimeout, Kinds
    <2>2. UNCHANGED <<con, task>>
      BY <1>6, Zenon DEF PeerCancel, PeerBye, AckTimeout, taskVars
    <2>3. \A j \in Inv : tx'[j] = "idle" <=> tx[j] = "idle"
      BY <1>6 DEF PeerCancel, PeerBye, AckTimeout, TypeOK
    <2> QED BY <1>2, <2>1, <2>2, <2>3, Zenon
  <1>7. ASSUME NEW i \in Inv, RejectInvite(i) PROVE Arrival'
    <2>1. Queued' \subseteq Queued /\ Once' /\ UNCHANGED <<con, task>>
      BY <1>1, <1>7, TakenOff, Zenon DEF RejectInvite, taskVars
    <2>2. \A j \in Inv : tx'[j] = "idle" <=> tx[j] = "idle"
      BY <1>7, Recorded, Zenon DEF RejectInvite
    <2> QED BY <1>2, <2>1, <2>2, Zenon
  <1>8. ASSUME NEW i \in Inv, AcceptInvite(i) PROVE Arrival'
    <2>1. /\ Queued' \subseteq Queued /\ Once' /\ UNCHANGED <<tx, task>>
          /\ i \in Queued /\ i \notin Queued' /\ con'.i = i
      BY <1>1, <1>8, TakenOff, Zenon DEF AcceptInvite, taskVars
    <2>2. task[i].at = "none" /\ tx[i] # "idle"
      BY <2>1, Zenon DEF Arrival
    <2> QED BY <2>1, <2>2, Zenon DEF Arrival, Once
  <1>9. ASSUME NEW i \in Inv,
               RejectBye(i) \/ AcceptBye(i) \/ HandleCancel(i) \/ HandleAckTimeout(i)
        PROVE  Arrival'
    <2>1. Queued' \subseteq Queued /\ Once'
      BY <1>1, <1>9, TakenOff, Zenon DEF RejectBye, AcceptBye, HandleCancel, HandleAckTimeout
    <2>2. UNCHANGED <<tx, task>> /\ (con' = con \/ con'.at # "alloc")
      BY <1>9 DEF RejectBye, AcceptBye, HandleCancel, HandleAckTimeout, taskVars
    <2> QED BY <1>2, <2>1, <2>2, Zenon
  <1>10. CASE AllocFails
    <2>1. UNCHANGED <<events, task>> /\ con'.at # "alloc" /\ con.i \in Inv
      BY <1>10, Zenon DEF AllocFails, Idle, taskVars, Arrival
    <2>2. \A j \in Inv : tx'[j] = "idle" <=> tx[j] = "idle"
      BY <1>10, <2>1, Recorded DEF AllocFails
    <2> QED BY <1>2, <1>3, <2>1, <2>2, Zenon
  <1>11. CASE StartCall
    <2>1. /\ con.i \in Inv /\ con.i \notin Queued /\ tx[con.i] # "idle"
          /\ UNCHANGED <<events, tx>> /\ con'.at # "alloc"
      BY <1>11, Zenon DEF StartCall, Idle, peerVars, Arrival
    <2>2. \A j \in Inv \ {con.i} : task'[j] = task[j]
      BY <1>11, <2>1, Goes, Zenon DEF StartCall, Goto, Ats, Moved
    <2>3. Queued' = Queued /\ Queued \subseteq Inv /\ Once'
      BY <1>3, <2>1, Zenon DEF Queued
    <2> QED BY <2>1, <2>2, <2>3, ZenonT(60) DEF Arrival, Once
  <1>12. CASE LookupBye \/ FinishBye
    <2>1. UNCHANGED <<events, tx, task>>
      BY <1>12, Zenon DEF LookupBye, FinishBye, peerVars, taskVars
    <2>2. con'.at # "alloc"
      <3>1. CASE LookupBye
        <4>1. con' = [con EXCEPT !.at = "release", !.k = cmap]
          BY <3>1, Zenon DEF LookupBye
        <4>2. con \in Cons
          BY Zenon DEF TypeOK, Cons
        <4> QED BY <4>1, <4>2, Zenon DEF Cons
      <3>2. CASE FinishBye
        BY <3>2, Zenon DEF FinishBye, Idle
      <3> QED BY <1>12, <3>1, <3>2, Zenon
    <2> QED BY <1>2, <1>3, <2>1, <2>2, Zenon
  <1>13. ASSUME NEW i \in Inv, Task(i) \/ SelectTimeout(i) \/ Watchdog(i) PROVE Arrival'
    <2>1. UNCHANGED <<events, con>> /\ task[i].at # "none"
          /\ \A j \in Inv \ {i} : task'[j] = task[j]
      BY <1>13, TaskMoves, Zenon DEF Moved
    <2>2. \A j \in Inv : tx'[j] = "idle" <=> tx[j] = "idle"
      BY <1>13, Transactions, Zenon
    <2> QED BY <1>2, <1>3, <2>1, <2>2, ZenonT(60)
  <1>14. CASE UNCHANGED vars
    <2>1. UNCHANGED <<events, tx, task, con>>
      BY <1>14, Zenon DEF vars, peerVars, taskVars
    <2> QED BY <1>2, <1>3, <2>1, Zenon
  <1> QED
    BY <1>4, <1>5, <1>6, <1>7, <1>8, <1>9, <1>10, <1>11, <1>12, <1>13, <1>14, Zenon
    DEF Next, Consumer, Peer

\* A task waits for the mutex of the session it sends on and lets that one go.
LEMMA LockedKept ==
  ASSUME InboundInv, [Next]_vars
  PROVE  Locked'
  <1> USE DEF InboundInv
  <1>1. \A k \in Inv : lock[k] # 0 => lock[k] \in Inv
    BY Numbers DEF TypeOK
  <1>2. ASSUME NEW i \in Inv, NEW at, NEW k, Moved(i, at, k), task[i].at \notin Sending,
               UNCHANGED lock, at \notin {"sendbye", "sendfail"},
               at \in {"bye", "fail"} => k \in Inv
        PROVE  Locked'
    BY <1>1, <1>2, ZenonT(60) DEF Locked, Moved, Sending
  <1>3. ASSUME NEW i \in Inv, NEW at, NEW k, Moved(i, at, k), NEW c \in Inv,
               \/ task[i].at = "send200" /\ c = i
               \/ task[i].at \in {"sendbye", "sendfail"} /\ c = task[i].k,
               at \in {"waitpbx", "cleanup"}, Unlock(c)
        PROVE  Locked'
    <2>1. lock'[c] = 0 /\ \A d \in Inv \ {c} : lock'[d] = lock[d]
      BY <1>3 DEF Unlock, TypeOK
    <2>2. \A d \in Inv \ {c} : lock[d] # i
      BY <1>3, Numbers DEF Locked
    <2> QED BY <1>1, <1>3, <2>1, <2>2 DEF Locked, Moved
  <1>4. ASSUME NEW i \in Inv, NEW at, NEW k, Moved(i, at, k), NEW c \in Inv,
               task[i].at \notin Sending, lock' = [lock EXCEPT ![c] = i],
               \/ at = "send200" /\ c = i
               \/ at \in {"sendbye", "sendfail"} /\ c = k
        PROVE  Locked'
    <2>1. lock'[c] = i /\ \A d \in Inv \ {c} : lock'[d] = lock[d]
      BY <1>4 DEF TypeOK
    <2>2. \A d \in Inv : lock[d] # i
      BY <1>4, Numbers DEF Locked, Sending
    <2> QED BY <1>1, <1>4, <2>1, <2>2 DEF Locked, Moved
  <1>5. ASSUME NEW i \in Inv, Peer(i) \/ Dialplan(i) PROVE Locked'
    BY <1>5, Aside, Zenon DEF Locked, taskVars
  <1>6. ASSUME NEW i \in Inv,
               RejectInvite(i) \/ AcceptInvite(i) \/ RejectBye(i) \/ AcceptBye(i)
                 \/ HandleCancel(i) \/ HandleAckTimeout(i)
        PROVE  Locked'
    <2>1. UNCHANGED <<lock, task>>
      BY <1>6, Zenon DEF RejectInvite, AcceptInvite, RejectBye, AcceptBye, HandleCancel,
                         HandleAckTimeout, taskVars
    <2> QED BY <2>1, Zenon DEF Locked
  <1>7. CASE AllocFails \/ LookupBye \/ FinishBye \/ UNCHANGED vars
    <2>1. UNCHANGED <<lock, task>>
      BY <1>7, Zenon DEF AllocFails, LookupBye, FinishBye, taskVars, vars
    <2> QED BY <2>1, Zenon DEF Locked
  <1>8. CASE StartCall
    <2>1. con.i \in Inv /\ task[con.i].at = "none"
      BY <1>8, Zenon DEF StartCall, Arrival
    <2>2. Moved(con.i, "select", task[con.i].k) /\ UNCHANGED lock
      BY <1>8, <2>1, Goes, Zenon DEF StartCall, Goto, Ats
    <2> QED BY <1>2, <2>1, <2>2 DEF Sending
  <1>9. ASSUME NEW i \in Inv,
               SelectAnswered(i) \/ SelectEnded(i) \/ SelectTimeout(i) \/ Expire(i)
                 \/ Watchdog(i) \/ PbxJoined(i) \/ CleanupPoll(i) \/ CleanupDeadline(i)
                 \/ StillActive(i)
        PROVE  Locked'
    <2>1. /\ Moved(i, task'[i].at, task[i].k) /\ task[i].at \notin Sending
          /\ task'[i].at \notin {"sendbye", "sendfail", "bye", "fail"}
      <3>1. CASE QuietStep(i)
        BY <3>1, QuietSteps, Zenon DEF Sending
      <3>2. CASE CleanupPoll(i) \/ CleanupDeadline(i)
        <4>1. task[i].at = "cleanup" /\ Moved(i, "done", task[i].k)
          BY <3>2, EndSteps, Zenon
        <4> QED BY <4>1, Zenon DEF Sending, Moved
      <3> QED BY <1>9, <3>1, <3>2, Zenon DEF QuietStep
    <2>2. UNCHANGED lock
      BY <1>9, Zenon DEF SelectAnswered, SelectEnded, SelectTimeout, Expire, Watchdog,
                         PbxJoined, CleanupPoll, CleanupDeadline, StillActive
    <2> QED BY <1>2, <2>1, <2>2, Zenon
  <1>10. ASSUME NEW i \in Inv, Teardown(i) PROVE Locked'
    <2>1. PICK k : \/ Moved(i, "bye", k) /\ k \in Inv
                   \/ Moved(i, "fail", k) /\ k \in Inv
                   \/ Moved(i, "cleanup", k)
      BY <1>10, TeardownSteps, Zenon
    <2>2. task[i].at = "hangup" /\ task[i].at \notin Sending /\ UNCHANGED lock
      BY <1>10, Zenon DEF Teardown, Sending
    <2> QED BY <1>2, <2>1, <2>2, Zenon
  <1>11. ASSUME NEW i \in Inv, Record200(i) PROVE Locked'
    <2>1. CASE MayRecord(i)
      <3>1. Moved(i, "send200", task[i].k) /\ task[i].at \notin Sending
        BY <1>11, <2>1, AnswerSteps, Zenon DEF Sending
      <3> QED BY <1>4, <1>11, <2>1, <3>1, Zenon DEF Record200
    <2>2. CASE ~ MayRecord(i)
      <3>1. Moved(i, "waitpbx", task[i].k) /\ task[i].at \notin Sending
        BY <1>11, <2>2, AnswerSteps, Zenon DEF Sending
      <3> QED BY <1>2, <1>11, <2>2, <3>1 DEF Record200
    <2> QED BY <2>1, <2>2, ZenonT(60)
  <1>12. ASSUME NEW i \in Inv, Send200(i) \/ Send200Fails(i) PROVE Locked'
    <2>1. Moved(i, "waitpbx", task[i].k) /\ task[i].at = "send200"
      BY <1>12, AnswerSteps, Zenon
    <2>2. Unlock(i)
      BY <1>12, Zenon DEF Send200, Send200Fails
    <2> QED BY <1>3, <2>1, <2>2, Zenon
  <1>13. ASSUME NEW i \in Inv, BuildBye(i) \/ RecordFail(i) PROVE Locked'
    <2>1. /\ \E at \in {"sendbye", "sendfail"} : Moved(i, at, task[i].k)
          /\ task[i].at \notin Sending /\ task[i].k \in Inv
      BY <1>13, EndSteps, Zenon DEF Sending
    <2>2. lock' = [lock EXCEPT ![task[i].k] = i]
      BY <1>13, Zenon DEF BuildBye, RecordFail
    <2> QED BY <1>4, <2>1, <2>2, Zenon
  <1>14. ASSUME NEW i \in Inv, SendBye(i) \/ SendFail(i) PROVE Locked'
    <2>1. /\ Moved(i, "cleanup", 0) /\ task[i].at \in {"sendbye", "sendfail"}
          /\ task[i].k \in Inv
      BY <1>14, EndSteps, Zenon
    <2>2. Unlock(task[i].k)
      BY <1>14, Zenon DEF SendBye, SendFail
    <2> QED BY <1>3, <2>1, <2>2, Zenon
  <1> QED
    BY <1>5, <1>6, <1>7, <1>8, <1>9, <1>10, <1>11, <1>12, <1>13, <1>14, Zenon
    DEF Next, Consumer, Task

\* What a call holds belongs to whoever must still release it, as long as a
\* step takes up nothing, keeps the two maps in step and ends no task that holds.
LEMMA Holds ==
  ASSUME InboundInv,
         con' = con \/ (con.at # "alloc" /\ con'.at # "alloc"),
         UNCHANGED mapVars \/ (states' = 0 /\ cmap' = 0),
         media' \subseteq media, notify' \subseteq notify,
         \A j \in Inv :
           /\ chan'[j].reg => chan[j].reg
           /\ task'[j].at = "none" <=> task[j].at = "none"
           /\ task'[j].at = "done" =>
                \/ task[j].at = "done"
                \/ /\ ~ chan'[j].reg /\ j \notin media' /\ j \notin notify'
                   /\ cmap' # j /\ states' # j
  PROVE  Named' /\ NoLeak'
  <1> USE DEF InboundInv, mapVars
  <1>1. Named'
    <2>1. cmap' # 0 => (con'.at = "alloc" /\ con'.i = cmap') \/ states' = cmap'
      BY Zenon DEF Named
    <2>2. con'.at = "alloc" => cmap' \in {0, con'.i}
      BY Zenon DEF Named
    <2>3. \A j \in Inv : task'[j].at = "none" => j \notin media' \cup notify' /\ states' # j
      BY Numbers DEF Named
    <2> QED BY <2>1, <2>2, <2>3, Zenon DEF Named
  <1>2. NoLeak'
    <2> SUFFICES ASSUME NEW j \in Inv,
                        chan'[j].reg \/ j \in media' \/ j \in notify' \/ cmap' = j \/ states' = j
                 PROVE  (con'.at = "alloc" /\ con'.i = j) \/ task'[j].at \notin {"none", "done"}
      BY Zenon DEF NoLeak
    <2>1. chan[j].reg \/ j \in media \/ j \in notify \/ cmap = j \/ states = j
      BY Numbers, Zenon
    <2>2. (con.at = "alloc" /\ con.i = j) \/ task[j].at \notin {"none", "done"}
      BY <2>1, Zenon DEF NoLeak
    <2> QED BY <2>2, Zenon
  <1> QED BY <1>1, <1>2, Zenon

\* Whatever a handler or a task takes up, someone is left to release it
\* (finalize_inbound_teardown, AllocFails), and the two maps change together.
LEMMA HoldingsKept ==
  ASSUME InboundInv, [Next]_vars
  PROVE  Named' /\ NoLeak'
  <1> USE DEF InboundInv
  <1>1. \A k \in InvOrNone, j \in Inv : SoftHangup(chan, k)[j].reg => chan[j].reg
    BY Flagged, Zenon
  <1>2. cmap \in InvOrNone /\ con.k \in InvOrNone
    BY Zenon DEF TypeOK
  <1>3. ASSUME NEW i \in Inv, Peer(i) \/ Dialplan(i) PROVE Named' /\ NoLeak'
    <2>1. UNCHANGED <<con, mapVars, resVars, task>>
      BY <1>3, Aside, Zenon DEF taskVars
    <2> QED BY <2>1, Holds, Zenon DEF resVars
  <1>4. CASE UNCHANGED vars
    BY <1>4, Holds, Zenon DEF vars, resVars, taskVars
  <1>5. ASSUME NEW i \in Inv,
               RejectInvite(i) \/ RejectBye(i) \/ AcceptBye(i) \/ HandleCancel(i)
                 \/ HandleAckTimeout(i)
        PROVE  Named' /\ NoLeak'
    <2>1. UNCHANGED task /\ con.at = "idle" /\ (con' = con \/ con'.at # "alloc")
      BY <1>5 DEF RejectInvite, RejectBye, AcceptBye, HandleCancel, HandleAckTimeout,
                  Taken, taskVars
    <2>2. /\ UNCHANGED mapVars \/ (states' = 0 /\ cmap' = 0)
          /\ media' \subseteq media /\ notify' \subseteq notify
      BY <1>5, Zenon DEF RejectInvite, RejectBye, AcceptBye, HandleCancel, HandleAckTimeout,
                  resVars
    <2>3. chan' = chan \/ chan' = SoftHangup(chan, cmap)
      BY <1>5, Zenon DEF RejectInvite, RejectBye, AcceptBye, HandleCancel,
                         HandleAckTimeout, resVars
    <2>4. \A j \in Inv : chan'[j].reg => chan[j].reg
      BY <1>1, <1>2, <2>3, Zenon
    <2> QED BY <2>1, <2>2, <2>4, Holds, Zenon
  <1>6. CASE LookupBye
    <2>1. UNCHANGED <<mapVars, resVars, task>> /\ con.at = "bye" /\ con'.at # "alloc"
      <3>1. con' = [con EXCEPT !.at = "release", !.k = cmap]
        BY <1>6 DEF LookupBye
      <3>2. con \in Cons
        BY DEF TypeOK, Cons
      <3> QED BY <1>6, <3>1, <3>2, Zenon DEF LookupBye, taskVars, Cons
    <2> QED BY <2>1, Holds, Zenon DEF resVars
  <1>7. CASE FinishBye
    <2>1. /\ UNCHANGED task /\ con.at # "alloc" /\ con'.at # "alloc" /\ states' = 0 /\ cmap' = 0
          /\ media' \subseteq media /\ notify' \subseteq notify
      BY <1>7, Zenon DEF FinishBye, Idle, taskVars
    <2>2. \A j \in Inv : chan'[j].reg => chan[j].reg
      BY <1>1, <1>2, <1>7, Zenon DEF FinishBye
    <2> QED BY <2>1, <2>2, Holds, Zenon
  <1>8. ASSUME NEW i \in Inv, AcceptInvite(i) PROVE Named' /\ NoLeak'
    <2>1. /\ con.at = "idle" /\ con'.at = "alloc" /\ con'.i = i /\ cmap' = i
          /\ UNCHANGED <<states, media, notify, task>>
      BY <1>8, Zenon DEF AcceptInvite, Taken, taskVars
    <2>2. \A j \in Inv \ {i} : chan'[j] = chan[j]
      BY <1>8, Shapes, Zenon DEF AcceptInvite
    <2> QED BY <2>1, <2>2, Zenon DEF Named, NoLeak
  <1>9. CASE AllocFails
    <2>1. /\ con.at = "alloc" /\ con'.at = "idle" /\ cmap' = 0
          /\ con.i \in Inv /\ task[con.i].at = "none"
          /\ UNCHANGED <<states, media, notify, task>>
      BY <1>9, Zenon DEF AllocFails, Idle, taskVars, Arrival
    <2>2. chan' = [chan EXCEPT ![con.i].reg = FALSE]
      BY <1>9, Zenon DEF AllocFails
    <2>3. ~ chan'[con.i].reg /\ \A j \in Inv \ {con.i} : chan'[j] = chan[j]
      BY <2>1, <2>2, Shapes, Zenon DEF Chans
    <2> QED BY <2>1, <2>3, Numbers, Zenon DEF Named, NoLeak
  <1>10. CASE StartCall
    <2>1. /\ con.at = "alloc" /\ con'.at = "idle" /\ states' = con.i /\ con.i \in Inv
          /\ UNCHANGED <<cmap, chan>>
          /\ media' = media \cup {con.i} /\ notify' = notify \cup {con.i}
      BY <1>10, Zenon DEF StartCall, Idle, Arrival
    <2>2. Moved(con.i, "select", task[con.i].k)
      BY <1>10, <2>1, Goes, Zenon DEF StartCall, Goto, Ats
    <2>3. task'[con.i].at = "select" /\ \A j \in Inv \ {con.i} : task'[j] = task[j]
      BY <2>2, Zenon DEF Moved
    <2>4. Named'
      BY <2>1, <2>3, Zenon DEF Named
    <2>5. NoLeak'
      BY <2>1, <2>3, Numbers, Zenon DEF NoLeak, Named
    <2> QED BY <2>4, <2>5, Zenon
  <1>11. ASSUME NEW i \in Inv, Task(i) \/ SelectTimeout(i) \/ Watchdog(i),
                ~ CleanupPoll(i), ~ CleanupDeadline(i)
         PROVE  Named' /\ NoLeak'
    <2>1. /\ UNCHANGED con /\ task[i].at \notin {"none", "done"}
          /\ task'[i].at \notin {"none", "done"}
          /\ \A j \in Inv \ {i} : task'[j] = task[j]
      BY <1>11, TaskMoves, Zenon DEF Moved
    <2>2. UNCHANGED mapVars \/ (states' = 0 /\ cmap' = 0)
      BY <1>11, Zenon
      DEF Task, SelectTimeout, Watchdog, SelectAnswered, SelectEnded, Expire,
         StillActive, Record200, Send200, Send200Fails, PbxJoined, Teardown, BuildBye,
         SendBye, RecordFail, SendFail
    <2>3. UNCHANGED <<media, notify>>
      BY <1>11, Zenon
      DEF Task, SelectTimeout, Watchdog, SelectAnswered, SelectEnded, Expire,
         StillActive, Record200, Send200, Send200Fails, PbxJoined, Teardown, BuildBye,
         SendBye, RecordFail, SendFail, resVars
    <2>4. \/ chan' = chan \/ chan' = SoftHangup(chan, i)
          \/ chan' = [chan EXCEPT ![i].up = TRUE]
      BY <1>11, Zenon
      DEF Task, SelectTimeout, Watchdog, SelectAnswered, SelectEnded, Expire,
         StillActive, Record200, Send200, Send200Fails, PbxJoined, Teardown, BuildBye,
         SendBye, RecordFail, SendFail, resVars
    <2>5. \A j \in Inv : chan'[j].reg => chan[j].reg
      <3>1. CASE chan' = chan \/ chan' = SoftHangup(chan, i)
        BY <1>1, <3>1, Numbers, Zenon
      <3>2. CASE chan' = [chan EXCEPT ![i].up = TRUE]
        BY <3>2, Shapes, Zenon DEF Chans
      <3> QED BY <2>4, <3>1, <3>2, Zenon
    <2> QED BY <2>1, <2>2, <2>3, <2>5, Holds, Zenon
  <1>12. ASSUME NEW i \in Inv, CleanupPoll(i) \/ CleanupDeadline(i) PROVE Named' /\ NoLeak'
    <2>1. Moved(i, "done", task[i].k) /\ task[i].at = "cleanup" /\ Finalize(i) /\ UNCHANGED con
      BY <1>12, EndSteps, Zenon DEF CleanupPoll, CleanupDeadline
    <2>2. /\ ~ chan'[i].reg /\ i \notin media' /\ i \notin notify'
          /\ media' \subseteq media /\ notify' \subseteq notify
          /\ \A j \in Inv \ {i} : chan'[j] = chan[j]
      BY <2>1, Shapes, Zenon DEF Finalize, Chans
    <2>3. states' = 0 /\ (cmap' = 0 \/ UNCHANGED mapVars)
      BY <1>12, Zenon DEF CleanupPoll, CleanupDeadline, mapVars
    <2>4. cmap' # i
      BY <2>1, <2>3, Numbers, Zenon DEF Named, Arrival, mapVars
    <2> QED BY <2>1, <2>2, <2>3, <2>4, Holds, Numbers, Zenon DEF Moved
  <1> QED
    BY <1>3, <1>4, <1>5, <1>6, <1>7, <1>8, <1>9, <1>10, <1>11, <1>12, Zenon DEF Next, Consumer

\* The calls start with nothing, and every step keeps what the proofs rest on.
THEOREM InboundInvariant == Spec => []InboundInv
  <1>1. Init => InboundInv
    <2> SUFFICES ASSUME Init PROVE InboundInv
      BY Zenon
    <2>1. TypeOK
      BY Numbers DEF Init, TypeOK
    <2>2. Len(events) = 0 /\ Queued = {}
      <3>1. events = <<>>
        BY Zenon DEF Init
      <3>2. Len(<<>>) = 0 /\ 1 .. 0 = {}
        OBVIOUS
      <3> QED BY <3>1, <3>2, Zenon DEF Queued
    <2>3. Arrival
      <3>1. 1 .. Len(events) = {}
        BY <2>2
      <3>2. con.at = "idle" /\ \A i \in Inv : task[i].at = "none"
        BY Zenon DEF Init
      <3> QED BY <2>2, <3>1, <3>2, Zenon DEF Arrival
    <2>4. Locked /\ Named /\ NoLeak
      BY Numbers, Zenon DEF Init, Locked, Named, NoLeak
    <2> QED BY <2>1, <2>3, <2>4, Zenon DEF InboundInv
  <1>2. InboundInv /\ [Next]_vars => InboundInv'
    BY Typed, ArrivalKept, LockedKept, HoldingsKept, Zenon DEF InboundInv
  <1> QED BY <1>1, <1>2, PTL DEF Spec

\* Every variable keeps its type, and a mutex is held only by a task that sends:
\* no path out of Record200, BuildBye or RecordFail forgets its lock.
THEOREM InboundTyped == Spec => []TypeOK
  <1>1. InboundInv => TypeOK
    BY Zenon DEF InboundInv
  <1> QED BY <1>1, InboundInvariant, PTL

\* Nothing leaks, however many INVITEs share the Call-ID and whichever of CANCEL,
\* BYE, missing ACK, timeout and end of the dialplan come in whichever order
\* (finalize_inbound_teardown, handle_bye, handle_cancel, the cleanup task).
THEOREM InboundNoLeak == Spec => []NoLeak
  <1>1. InboundInv => NoLeak
    BY Zenon DEF InboundInv
  <1> QED BY <1>1, InboundInvariant, PTL

-----------------------------------------------------------------------------
(* Answers.                                                                 *)

\* A step that records no 200, establishes nothing and sends no BYE.
LEMMA NoAnswer ==
  ASSUME TypeOK, Answers, UNCHANGED <<sess, est>>,
         \A j \in Inv :
           /\ tx[j] = "200" => tx'[j] = "200"
           /\ wire[j] \subseteq wire'[j]
           /\ "BYE" \in wire'[j] => "BYE" \in wire[j]
           /\ chan'[j].up => chan[j].up
           /\ task'[j].at = "send200" => task[j].at = "send200"
           /\ task'[j].at \in {"bye", "sendbye"} => task[j].at \in {"bye", "sendbye"}
  PROVE  Answers'
  <1> SUFFICES ASSUME NEW i \in Inv
               PROVE  /\ task'[i].at = "send200" => tx'[i] = "200"
                      /\ est[i] \/ chan'[i].up \/ sess[i] = "Established" =>
                           tx'[i] = "200" /\ "200" \in wire'[i]
                      /\ task'[i].at \in {"bye", "sendbye"} => est[i]
                      /\ sess[i] = "Terminating" \/ "BYE" \in wire'[i] => \E j \in Inv : est[j]
    BY Zenon DEF Answers
  <1> QED BY Zenon DEF Answers

\* Only Send200 establishes a call, after record_invite_final took its 200.
LEMMA AnswersKept ==
  ASSUME InboundInv, Answers, [Next]_vars
  PROVE  Answers'
  <1> USE DEF InboundInv
  <1>1. \A k \in InvOrNone, j \in Inv : SoftHangup(chan, k)[j].up => chan[j].up
    BY Flagged, Zenon
  <1>2. cmap \in InvOrNone /\ con.k \in InvOrNone
    BY Zenon DEF TypeOK
  <1>3. ASSUME NEW i \in Inv, Peer(i) \/ Dialplan(i) PROVE Answers'
    <2>1. UNCHANGED <<sess, est, chan, task>>
      BY <1>3, Aside, Zenon DEF taskVars, resVars
    <2>2. \A j \in Inv : tx[j] = "200" => tx'[j] = "200"
      <3>1. \/ tx' = tx
            \/ tx[i] \in {"idle", "Proceeding"} /\ \E st : tx' = [tx EXCEPT ![i] = st]
        BY <1>3, Zenon DEF Peer, PeerInvite, PeerCancel, PeerAck, PeerBye, Retransmit, AckTimeout,
                    Dialplan, AppAnswers, AppReturns, NextPriority, PbxEnds, peerVars
      <3> QED BY <3>1 DEF TypeOK
    <2>3. \A j \in Inv : wire[j] \subseteq wire'[j] /\ ("BYE" \in wire'[j] => "BYE" \in wire[j])
      <3>1. wire' = wire \/ wire' = [wire EXCEPT ![i] = @ \cup {"200"}]
        BY <1>3, Zenon DEF Peer, PeerInvite, PeerCancel, PeerAck, PeerBye, Retransmit,
           AckTimeout, Dialplan, AppAnswers, AppReturns, NextPriority, PbxEnds, peerVars
      <3>2. wire \in [Inv -> SUBSET {"200", "BYE"}]
        BY Zenon DEF TypeOK
      <3> QED BY <3>1, <3>2, Zenon
    <2> QED BY <2>1, <2>2, <2>3, NoAnswer, Zenon
  <1>4. ASSUME NEW i \in Inv,
               RejectInvite(i) \/ AcceptInvite(i) \/ RejectBye(i) \/ AcceptBye(i)
                 \/ HandleCancel(i) \/ HandleAckTimeout(i)
        PROVE  Answers'
    <2>1. UNCHANGED <<sess, est, wire, task>>
      BY <1>4, Zenon DEF RejectInvite, AcceptInvite, RejectBye, AcceptBye, HandleCancel,
                         HandleAckTimeout, taskVars
    <2>2. tx' = tx \/ Record(i, "fail")
      BY <1>4, Zenon DEF RejectInvite, AcceptInvite, RejectBye, AcceptBye, HandleCancel,
                         HandleAckTimeout
    <2>3. \A j \in Inv : tx[j] = "200" => tx'[j] = "200"
      BY <2>2, Recorded, Zenon
    <2>4. \/ chan' = chan \/ chan' = SoftHangup(chan, cmap)
          \/ chan' = [chan EXCEPT ![i].reg = TRUE]
      BY <1>4, Zenon DEF RejectInvite, AcceptInvite, RejectBye, AcceptBye, HandleCancel,
                         HandleAckTimeout, resVars
    <2>5. \A j \in Inv : chan'[j].up => chan[j].up
      <3>1. CASE chan' = chan \/ chan' = SoftHangup(chan, cmap)
        BY <1>1, <1>2, <3>1, Zenon
      <3>2. CASE chan' = [chan EXCEPT ![i].reg = TRUE]
        BY <3>2, Shapes, Zenon DEF Chans
      <3> QED BY <2>4, <3>1, <3>2, Zenon
    <2> QED BY <2>1, <2>3, <2>5, NoAnswer, Zenon
  <1>5. CASE AllocFails
    <2>1. UNCHANGED <<sess, est, wire, task>> /\ con.i \in Inv
      BY <1>5, Zenon DEF AllocFails, taskVars, Arrival
    <2>2. \A j \in Inv : tx[j] = "200" => tx'[j] = "200"
      BY <1>5, <2>1, Recorded, Zenon DEF AllocFails
    <2>3. \A j \in Inv : chan'[j].up => chan[j].up
      BY <1>5, <2>1, Shapes, Zenon DEF AllocFails, Chans
    <2> QED BY <2>1, <2>2, <2>3, NoAnswer, Zenon
  <1>6. CASE StartCall
    <2>1. UNCHANGED <<sess, est, wire, tx, chan>> /\ con.i \in Inv
      BY <1>6, Zenon DEF StartCall, peerVars, Arrival
    <2>2. Moved(con.i, "select", task[con.i].k)
      BY <1>6, <2>1, Goes, Zenon DEF StartCall, Goto, Ats
    <2> QED BY <2>1, <2>2, NoAnswer, Zenon DEF Moved
  <1>7. CASE LookupBye \/ FinishBye \/ UNCHANGED vars
    <2>1. UNCHANGED <<sess, est, wire, tx, task>>
      BY <1>7, Zenon DEF LookupBye, FinishBye, vars, peerVars, taskVars
    <2>2. chan' = chan \/ chan' = SoftHangup(chan, con.k)
      BY <1>7, Zenon DEF LookupBye, FinishBye, vars, resVars
    <2>3. \A j \in Inv : chan'[j].up => chan[j].up
      BY <1>1, <1>2, <2>2, Zenon
    <2> QED BY <2>1, <2>3, NoAnswer, Zenon
  <1>8. ASSUME NEW i \in Inv, Record200(i) PROVE Answers'
    <2>1. /\ UNCHANGED <<sess, est, wire, chan>>
          /\ \A j \in Inv : tx[j] = "200" => tx'[j] = "200"
      BY <1>8, Recorded, Zenon DEF Record200, resVars
    <2>2. CASE MayRecord(i)
      <3>1. Moved(i, "send200", task[i].k) /\ tx'[i] = "200"
        <4>1. Record(i, "200") /\ tx[i] = "Proceeding"
          BY <1>8, <2>2, ZenonT(60) DEF Record200, MayRecord
        <4> QED BY <1>8, <2>2, <4>1, AnswerSteps, Recorded, Zenon
      <3> QED BY <2>1, <3>1, ZenonT(60) DEF Answers, Moved
    <2>3. CASE ~ MayRecord(i)
      <3>1. Moved(i, "waitpbx", task[i].k)
        BY <1>8, <2>3, AnswerSteps, Zenon
      <3> QED BY <2>1, <3>1, NoAnswer, Zenon DEF Moved
    <2> QED BY <2>2, <2>3, ZenonT(60)
  <1>9. ASSUME NEW i \in Inv, Send200(i) PROVE Answers'
    <2>1. /\ Moved(i, "waitpbx", task[i].k) /\ tx[i] = "200" /\ UNCHANGED tx
      BY <1>9, AnswerSteps, Zenon DEF Send200, Answers
    <2>2. /\ est'[i] /\ sess'[i] = "Established"
          /\ \A j \in Inv \ {i} : est'[j] = est[j] /\ sess'[j] = sess[j]
      BY <1>9 DEF Send200, TypeOK
    <2>3. /\ "200" \in wire'[i] /\ ("BYE" \in wire'[i] => "BYE" \in wire[i])
          /\ \A j \in Inv \ {i} : wire'[j] = wire[j]
      <3>1. wire \in [Inv -> SUBSET {"200", "BYE"}]
        BY DEF TypeOK
      <3> QED BY <1>9, <3>1, Zenon DEF Send200
    <2>4. \A j \in Inv \ {i} : chan'[j] = chan[j]
      BY <1>9, Shapes, Zenon DEF Send200
    <2>5. \E j \in Inv : est'[j]
      BY <2>2, Zenon
    <2> QED BY <2>1, <2>2, <2>3, <2>4, <2>5, ZenonT(60) DEF Answers, Moved
  <1>10. ASSUME NEW i \in Inv, Teardown(i) PROVE Answers'
    <2>1. /\ UNCHANGED <<sess, est, wire, chan, tx>>
          /\ \E k : \/ Moved(i, "bye", k) /\ est[i]
                    \/ Moved(i, "fail", k) \/ Moved(i, "cleanup", k)
      BY <1>10, TeardownSteps, Zenon DEF Teardown, peerVars, resVars
    <2> QED BY <2>1, Zenon DEF Answers, Moved
  <1>11. ASSUME NEW i \in Inv, BuildBye(i) PROVE Answers'
    <2>1. /\ UNCHANGED <<est, wire, chan, tx>> /\ Moved(i, "sendbye", task[i].k)
          /\ est[i] /\ task[i].k \in Inv
      BY <1>11, EndSteps, Zenon DEF BuildBye, peerVars, resVars, Answers
    <2>2. sess'[task[i].k] = "Terminating" /\ \A j \in Inv \ {task[i].k} : sess'[j] = sess[j]
      BY <1>11, <2>1, ZenonT(60) DEF BuildBye, TypeOK
    <2> QED BY <2>1, <2>2, ZenonT(60) DEF Answers, Moved
  <1>12. ASSUME NEW i \in Inv, SendBye(i) PROVE Answers'
    <2>1. /\ UNCHANGED <<est, sess, chan, tx>> /\ Moved(i, "cleanup", 0)
          /\ est[i] /\ task[i].k \in Inv
      BY <1>12, EndSteps, Zenon DEF SendBye, resVars, Answers
    <2>2. \A j \in Inv : wire[j] \subseteq wire'[j]
      <3>1. wire' = wire \/ wire' = [wire EXCEPT ![task[i].k] = @ \cup {"BYE"}]
        BY <1>12, Zenon DEF SendBye
      <3>2. wire \in [Inv -> SUBSET {"200", "BYE"}]
        BY DEF TypeOK
      <3> QED BY <2>1, <3>1, <3>2, Zenon
    <2> QED BY <2>1, <2>2, Zenon DEF Answers, Moved
  <1>13. ASSUME NEW i \in Inv, Task(i) \/ SelectTimeout(i) \/ Watchdog(i),
                ~ Record200(i), ~ Send200(i), ~ Teardown(i), ~ BuildBye(i), ~ SendBye(i)
         PROVE  Answers'
    <2>1. /\ Moved(i, task'[i].at, task'[i].k)
          /\ task'[i].at \notin {"send200", "bye", "sendbye"}
      BY <1>13, TaskMoves, Zenon
    <2>2. UNCHANGED <<sess, est, wire>>
      BY <1>13, Zenon
      DEF Task, SelectTimeout, Watchdog, SelectAnswered, SelectEnded, Expire,
         StillActive, Send200Fails, PbxJoined, RecordFail, SendFail, CleanupPoll,
         CleanupDeadline, peerVars
    <2>3. \A j \in Inv : tx[j] = "200" => tx'[j] = "200"
      BY <1>13, Transactions, Zenon
    <2>4. \/ chan' = chan \/ chan' = SoftHangup(chan, i)
          \/ chan' = [chan EXCEPT ![i].reg = FALSE]
      BY <1>13, Zenon
      DEF Task, SelectTimeout, Watchdog, SelectAnswered, SelectEnded, Expire,
         StillActive, Send200Fails, PbxJoined, RecordFail, SendFail, CleanupPoll,
         CleanupDeadline, Finalize, resVars
    <2>5. \A j \in Inv : chan'[j].up => chan[j].up
      <3>1. CASE chan' = chan \/ chan' = SoftHangup(chan, i)
        BY <1>1, <3>1, Numbers, Zenon
      <3>2. CASE chan' = [chan EXCEPT ![i].reg = FALSE]
        BY <3>2, Shapes DEF Chans
      <3> QED BY <2>4, <3>1, <3>2, Zenon
    <2> QED BY <2>1, <2>2, <2>3, <2>5, NoAnswer, Zenon DEF Moved
  <1> QED
    BY <1>3, <1>4, <1>5, <1>6, <1>7, <1>8, <1>9, <1>10, <1>11, <1>12, <1>13, Zenon
    DEF Next, Consumer

\* A call is established, its channel Up or its session Established only if its
\* own INVITE ended in a 200 that was sent, however many INVITEs share the
\* Call-ID; and a BYE is sent only if some call of the Call-ID was established
\* (record_invite_final against handle_cancel and the per-call task).
THEOREM InboundAnswers == Spec => []Answers
  <1>1. Init => Answers
    BY DEF Init, Answers
  <1>2. InboundInv /\ Answers /\ [Next]_vars => Answers'
    BY AnswersKept, Zenon
  <1> QED BY <1>1, <1>2, InboundInvariant, PTL DEF Spec

\* Where the Call-ID has one INVITE, the BYE is its own: an answer and a CANCEL
\* never both take effect.
THEOREM InboundOnlyAnsweredIsUp == MaxInvites = 1 => (Spec => []OnlyAnsweredIsUp)
  <1> SUFFICES ASSUME MaxInvites = 1 PROVE Spec => []OnlyAnsweredIsUp
    BY Zenon
  <1>1. \A i, j \in Inv : i = j
    <2>1. 1 .. 1 = {1}
      OBVIOUS
    <2> QED BY <2>1, Zenon DEF Inv
  <1>2. TypeOK /\ Answers => OnlyAnsweredIsUp
    <2> SUFFICES ASSUME TypeOK, Answers, NEW i \in Inv,
                        est[i] \/ chan[i].up \/ sess[i] # "Initiated" \/ "BYE" \in wire[i]
                 PROVE  tx[i] = "200" /\ "200" \in wire[i]
      BY Zenon DEF OnlyAnsweredIsUp
    <2>1. sess[i] \in {"Initiated", "Established", "Terminating"}
      BY Zenon DEF TypeOK
    <2>2. est[i] \/ chan[i].up \/ sess[i] = "Established"
      BY <1>1, <2>1, Zenon DEF Answers
    <2> QED BY <2>2, Zenon DEF Answers
  <1> QED BY <1>2, InboundTyped, InboundAnswers, PTL
-----------------------------------------------------------------------------
(* A Call-ID with one INVITE.                                               *)

\* What the queue and the consumer say of the call has happened, and only an
\* INVITE that was answered is acknowledged, given up on or ended by its caller.
Happened ==
  {e \in Event : /\ e.kind = "IncomingCancel" => tx[1] = "487"
                 /\ e.kind = "IncomingBye" => 1 \in bye
                 /\ e.kind = "InviteAckTimeout" => ack[1] = "timeout"}

Reported ==
  /\ \A p \in 1 .. Len(events) : events[p] \in Happened
  /\ con.at \in {"bye", "release"} => 1 \in bye
  /\ 1 \in bye \/ ack[1] = "timeout" \/ "200" \in wire[1] => tx[1] = "200"

\* What each place of the per-call task implies.  While the INVITE is open the
\* session is stored; a task that gives up on an open INVITE has flagged the
\* channel, or its dialplan never answered.
Course ==
  LET at == task[1].at
  IN /\ at = "none" => pbx[1] = "none" /\ ~ copy[1].up
     /\ at \notin {"none", "done"} \/ con.at = "alloc" => chan[1].reg
     /\ at \in {"hangup", "bye", "sendbye", "fail", "sendfail", "cleanup", "done"} =>
          pbx[1] = "ended"
     /\ at # "none" /\ tx[1] = "Proceeding" => states = 1
     /\ at \in {"sendfail", "cleanup", "done"} => tx[1] # "Proceeding"
     /\ tx[1] = "fail" => at \in {"none", "sendfail", "cleanup", "done"}
     /\ 1 \in Queued \/ con.at = "alloc" => tx[1] # "fail"
     /\ at = "select" /\ copy[1].up => permit[1]
     /\ at \in {"waitpbx", "unwind"} /\ tx[1] = "Proceeding" => chan[1].soft
     /\ at \in {"hangup", "fail"} /\ tx[1] = "Proceeding" /\ copy[1].up => chan[1].soft
     /\ tx[1] = "fail" /\ copy[1].up => chan[1].soft

\* A 200 that was recorded establishes the call, and the session is dropped, or
\* the task past its teardown, only once one side has ended the dialog.
Ended == "BYE" \in wire[1] \/ 1 \in bye \/ ack[1] = "timeout"
Closing ==
  /\ tx[1] = "200" => est[1] \/ task[1].at = "send200"
  /\ task[1].at \in {"fail", "sendfail"} => ~ est[1]
  /\ tx[1] = "200" /\ (states = 0 \/ task[1].at \in {"cleanup", "done"}) => Ended

\* The calls are numbered from 1.
LEMMA Sole ==
  ASSUME MaxInvites = 1
  PROVE  1 \in Inv /\ (\A i \in Inv : i = 1) /\ InvOrNone = {0, 1} /\ 0 # 1
  <1>1. 1 .. 1 = {1} /\ 0 .. 1 = {0, 1} /\ 0 # 1
    OBVIOUS
  <1> QED BY <1>1, Zenon DEF Inv, InvOrNone

\* A step is one of the peer, the dialplan, the consumer or the task of the call.
Handled ==
  \/ RejectInvite(1) \/ AcceptInvite(1) \/ RejectBye(1) \/ AcceptBye(1)
  \/ HandleCancel(1) \/ HandleAckTimeout(1)
Moves1 == Task(1) \/ SelectTimeout(1) \/ Watchdog(1)

LEMMA SoleSteps ==
  ASSUME MaxInvites = 1, [Next]_vars
  PROVE  \/ Peer(1) \/ Dialplan(1) \/ Handled \/ Moves1
         \/ AllocFails \/ StartCall \/ LookupBye \/ FinishBye \/ UNCHANGED vars
  BY Sole, Zenon DEF Next, Consumer, Handled, Moves1

\* A final, a BYE and a missing ACK are never taken back.
LEMMA Lasting ==
  ASSUME MaxInvites = 1, InboundInv, [Next]_vars
  PROVE  /\ tx[1] \in {"200", "487", "fail"} => tx'[1] = tx[1]
         /\ 1 \in bye => 1 \in bye'
         /\ ack[1] = "timeout" => ack'[1] = "timeout"
  <1> USE Sole DEF InboundInv
  <1>0. tx \in [Inv -> {"idle", "Proceeding", "200", "487", "fail"}]
        /\ ack \in [Inv -> {"no", "acked", "timeout"}]
    BY Zenon DEF TypeOK
  <1>1. CASE Peer(1)
    BY <1>0, <1>1
    DEF Peer, PeerInvite, PeerCancel, PeerAck, PeerBye, Retransmit, AckTimeout
  <1>2. ASSUME NEW st, Record(1, st) PROVE tx[1] \in {"200", "487", "fail"} => tx'[1] = tx[1]
    BY <1>2, Zenon DEF Record, MayRecord
  <1>3. CASE Handled
    BY <1>2, <1>3, Zenon
    DEF Handled, RejectInvite, AcceptInvite, RejectBye, AcceptBye, HandleCancel, HandleAckTimeout
  <1>4. CASE AllocFails
    <2>1. con.i = 1
      BY <1>4, Zenon DEF AllocFails, Arrival
    <2> QED BY <1>2, <1>4, <2>1, Zenon DEF AllocFails
  <1>5. CASE Moves1
    <2>1. UNCHANGED <<ack, bye>>
      BY <1>5, TaskMoves, Zenon DEF Moves1
    <2>2. tx'[1] # tx[1] => tx[1] = "Proceeding"
      BY <1>5, Transactions, Zenon DEF Moves1
    <2> QED BY <2>1, <2>2, Zenon
  <1>6. CASE Dialplan(1) \/ StartCall \/ LookupBye \/ FinishBye \/ UNCHANGED vars
    BY <1>6, Zenon
    DEF Dialplan, AppAnswers, AppReturns, NextPriority, PbxEnds, StartCall, LookupBye, FinishBye,
        vars, peerVars
  <1> QED BY <1>1, <1>3, <1>4, <1>5, <1>6, SoleSteps, Zenon

\* What happened is not undone, so what the queue says stays true.
LEMMA StillHappened ==
  ASSUME MaxInvites = 1, InboundInv, [Next]_vars
  PROVE  Happened \subseteq Happened'
  BY Lasting, Zenon DEF Happened

\* The event the consumer takes has happened.
LEMMA TakenHappened ==
  ASSUME TypeOK, Reported, NEW kd, Taken(kd, 1)
  PROVE  /\ kd = "IncomingCancel" => tx[1] = "487"
         /\ kd = "IncomingBye" => 1 \in bye
         /\ kd = "InviteAckTimeout" => ack[1] = "timeout"
  <1>1. events \in Seq(Event) /\ events # <<>> /\ Head(events) = [kind |-> kd, i |-> 1]
    BY Shapes, Zenon DEF Taken
  <1>2. 1 \in 1 .. Len(events) /\ Head(events) = events[1]
    BY <1>1
  <1>3. [kind |-> kd, i |-> 1] \in Happened
    BY <1>1, <1>2, Zenon DEF Reported
  <1> QED BY <1>3, Zenon DEF Happened

\* The queue goes on telling what happened.
LEMMA QueueTells ==
  ASSUME MaxInvites = 1, InboundInv, Reported, [Next]_vars
  PROVE  \A p \in 1 .. Len(events') : events'[p] \in Happened'
  <1> USE Sole DEF InboundInv
  <1> DEFINE n == Len(events)
  <1>0. events \in Seq(Event) /\ n \in Nat
    BY Shapes
  <1>1. \A p \in 1 .. n : events[p] \in Happened'
    BY StillHappened, Zenon DEF Reported
  <1>2. CASE UNCHANGED events
    BY <1>1, <1>2, Zenon
  <1>3. ASSUME NEW kd \in Kinds, Emit(kd, 1), [kind |-> kd, i |-> 1] \in Happened'
        PROVE  \A p \in 1 .. Len(events') : events'[p] \in Happened'
    <2> DEFINE e == [kind |-> kd, i |-> 1]
    <2>1. events' = Append(events, e) /\ e \in Event /\ e \in Happened'
      BY <1>3, Shapes, Zenon DEF Emit
    <2> HIDE DEF e
    <2>2. /\ Len(events') = n + 1 /\ events'[n + 1] = e
          /\ \A p \in 1 .. n : events'[p] = events[p]
      BY <1>0, <2>1
    <2>3. \A p \in 1 .. n + 1 : p \in 1 .. n \/ p = n + 1
      BY <1>0
    <2> HIDE DEF n
    <2> QED BY <1>1, <2>1, <2>2, <2>3, Zenon
  <1>4. ASSUME NEW kd, Taken(kd, 1) PROVE \A p \in 1 .. Len(events') : events'[p] \in Happened'
    <2>1. events # <<>> /\ events' = Tail(events)
      BY <1>4, Zenon DEF Taken
    <2>2. Len(events') = n - 1 /\ \A p \in 1 .. n - 1 : events'[p] = events[p + 1]
      BY <1>0, <2>1
    <2>3. \A p \in 1 .. n - 1 : p + 1 \in 1 .. n
      BY <1>0
    <2> HIDE DEF n
    <2> QED BY <1>1, <2>2, <2>3, Zenon
  <1>5. CASE Peer(1)
    <2>1. tx \in [Inv -> {"idle", "Proceeding", "200", "487", "fail"}]
          /\ ack \in [Inv -> {"no", "acked", "timeout"}]
      BY Zenon DEF TypeOK
    <2>2. \/ UNCHANGED events
          \/ Emit("IncomingInvite", 1)
          \/ Emit("IncomingCancel", 1) /\ tx'[1] = "487"
          \/ Emit("IncomingBye", 1) /\ 1 \in bye'
          \/ Emit("InviteAckTimeout", 1) /\ ack'[1] = "timeout"
      BY <1>5, <2>1, Zenon
      DEF Peer, PeerInvite, PeerCancel, PeerAck, PeerBye, Retransmit, AckTimeout
    <2>3. \A kd \in Kinds : [kind |-> kd, i |-> 1] \in Event
      BY Zenon DEF Event
    <2> QED BY <1>2, <1>3, <2>2, <2>3, Zenon DEF Happened, Kinds
  <1>6. CASE Handled
    BY <1>4, <1>6, Zenon
    DEF Handled, RejectInvite, AcceptInvite, RejectBye, AcceptBye, HandleCancel, HandleAckTimeout
  <1>7. CASE Moves1
    BY <1>2, <1>7, TaskMoves, Zenon DEF Moves1
  <1>8. CASE AllocFails \/ Dialplan(1) \/ StartCall \/ LookupBye \/ FinishBye \/ UNCHANGED vars
    BY <1>2, <1>8, Zenon
    DEF AllocFails, Dialplan, AppAnswers, AppReturns, NextPriority, PbxEnds, StartCall, LookupBye,
        FinishBye, vars, peerVars
  <1> QED BY <1>5, <1>6, <1>7, <1>8, SoleSteps, Zenon

\* The consumer acts on events that happened, and only an answered call is
\* acknowledged, given up on or ended.
LEMMA ReportedKept ==
  ASSUME MaxInvites = 1, InboundInv, Answers, Reported, [Next]_vars
  PROVE  Reported'
  <1> USE Sole DEF InboundInv
  <1>1. con'.at \in {"bye", "release"} => 1 \in bye'
    <2>1. con'.at \in {"bye", "release"} => con.at \in {"bye", "release"} \/ AcceptBye(1)
      <3>1. CASE Handled
        <4>1. con' = con \/ AcceptInvite(1) \/ AcceptBye(1)
          BY <3>1, Zenon DEF Handled, RejectInvite, RejectBye, HandleCancel, HandleAckTimeout
        <4>2. AcceptInvite(1) => con'.at = "alloc"
          BY DEF AcceptInvite
        <4> QED BY <4>1, <4>2, Zenon
      <3>2. CASE Moves1
        BY <3>2, TaskMoves, Zenon DEF Moves1
      <3>3. CASE Peer(1) \/ Dialplan(1)
        BY <3>3, Aside, Zenon
      <3>4. CASE AllocFails \/ StartCall \/ LookupBye \/ FinishBye \/ UNCHANGED vars
        <4>1. con' = con \/ con.at = "bye" \/ con' = Idle
          BY <3>4, Zenon DEF AllocFails, StartCall, LookupBye, FinishBye, vars
        <4>2. Idle.at = "idle"
          BY Zenon DEF Idle
        <4> QED BY <4>1, <4>2, Zenon
      <3> QED BY <3>1, <3>2, <3>3, <3>4, SoleSteps, Zenon
    <2>2. AcceptBye(1) => 1 \in bye
      BY TakenHappened, Zenon DEF AcceptBye
    <2> QED BY <2>1, <2>2, Lasting, Zenon DEF Reported
  <1>2. 1 \in bye' \/ ack'[1] = "timeout" \/ "200" \in wire'[1] => tx[1] = "200"
    <2>1. /\ ack \in [Inv -> {"no", "acked", "timeout"}]
          /\ wire \in [Inv -> SUBSET {"200", "BYE"}]
      BY Zenon DEF TypeOK
    <2>2. CASE Peer(1)
      BY <2>1, <2>2, Zenon
      DEF Peer, PeerInvite, PeerCancel, PeerAck, PeerBye, Retransmit, AckTimeout, Reported
    <2>3. CASE Moves1
      <3>1. UNCHANGED <<ack, bye>>
        BY <2>3, TaskMoves, Zenon DEF Moves1
      <3>2. \/ UNCHANGED wire \/ Send200(1)
            \/ wire' = [wire EXCEPT ![task[1].k] = @ \cup {"BYE"}] /\ task[1].k \in Inv
        BY <2>3, EndSteps, Zenon
        DEF Moves1, Task, SelectTimeout, Watchdog, SelectAnswered, SelectEnded, Expire, StillActive,
            Record200, Send200Fails, PbxJoined, Teardown, BuildBye, SendBye, RecordFail, SendFail,
            CleanupPoll, CleanupDeadline, peerVars
      <3>3. Send200(1) => tx[1] = "200"
        BY Zenon DEF Send200, Answers
      <3>4. wire' = [wire EXCEPT ![1] = @ \cup {"BYE"}] /\ "200" \in wire'[1] => "200" \in wire[1]
        BY <2>1
      <3> QED BY <3>1, <3>2, <3>3, <3>4, Zenon DEF Reported
    <2>4. CASE Handled \/ AllocFails \/ Dialplan(1) \/ StartCall \/ LookupBye \/ FinishBye
               \/ UNCHANGED vars
      <3>1. UNCHANGED <<ack, bye, wire>>
        BY <2>4, Zenon
        DEF Handled, RejectInvite, AcceptInvite, RejectBye, AcceptBye, HandleCancel,
            HandleAckTimeout, AllocFails, Dialplan, AppAnswers, AppReturns, NextPriority, PbxEnds,
            StartCall, LookupBye, FinishBye, vars, peerVars
      <3> QED BY <3>1, Zenon DEF Reported
    <2> QED BY <2>2, <2>3, <2>4, SoleSteps, Zenon
  <1>3. tx[1] = "200" => tx'[1] = "200"
    BY Lasting, Zenon
  <1>4. \A p \in 1 .. Len(events') : events'[p] \in Happened'
    BY QueueTells, Zenon
  <1> QED BY <1>1, <1>2, <1>3, <1>4, Zenon DEF Reported

\* Only the peer's INVITE adds to the INVITEs in the queue.
LEMMA QueuedKept ==
  ASSUME MaxInvites = 1, InboundInv, [Next]_vars, 1 \in Queued'
  PROVE  /\ 1 \in Queued \/ PeerInvite(1)
         /\ ~ RejectInvite(1) /\ ~ AcceptInvite(1)
  <1> USE Sole DEF InboundInv
  <1>0. Once /\ (UNCHANGED events => Queued' = Queued)
    BY ZenonT(60) DEF Arrival, Once, Queued
  <1>1. ASSUME NEW kd, Taken(kd, 1) PROVE 1 \in Queued /\ kd # "IncomingInvite"
    BY <1>0, <1>1, TakenOff, Zenon
  <1>2. ASSUME NEW kd \in Kinds, Emit(kd, 1), kd # "IncomingInvite" PROVE 1 \in Queued
    BY <1>0, <1>2, Emitted, Zenon
  <1>3. ASSUME Peer(1) PROVE 1 \in Queued \/ PeerInvite(1)
    BY <1>0, <1>2, <1>3, Zenon
    DEF Peer, PeerCancel, PeerAck, PeerBye, Retransmit, AckTimeout, Kinds
  <1>4. ASSUME Handled PROVE 1 \in Queued \/ PeerInvite(1)
    BY <1>1, <1>4, Zenon
    DEF Handled, RejectInvite, AcceptInvite, RejectBye, AcceptBye, HandleCancel, HandleAckTimeout
  <1>5. ASSUME Moves1 PROVE 1 \in Queued \/ PeerInvite(1)
    BY <1>0, <1>5, TaskMoves, Zenon DEF Moves1
  <1>6. ASSUME AllocFails \/ Dialplan(1) \/ StartCall \/ LookupBye \/ FinishBye \/ UNCHANGED vars
        PROVE  1 \in Queued \/ PeerInvite(1)
    BY <1>0, <1>6, Zenon
    DEF AllocFails, Dialplan, AppAnswers, AppReturns, NextPriority, PbxEnds, StartCall, LookupBye,
        FinishBye, vars, peerVars
  <1>7. ~ RejectInvite(1) /\ ~ AcceptInvite(1)
    BY <1>1, Zenon DEF RejectInvite, AcceptInvite
  <1> QED BY <1>3, <1>4, <1>5, <1>6, <1>7, SoleSteps, Zenon

\* What a soft hangup does to the one channel.
LEMMA SoleFlag ==
  ASSUME MaxInvites = 1, TypeOK, NEW k \in InvOrNone, chan' = SoftHangup(chan, k)
  PROVE  /\ chan'[1].reg <=> chan[1].reg
         /\ chan[1].soft => chan'[1].soft
         /\ k = 1 /\ chan[1].reg => chan'[1].soft
  <1>1. (chan'[1].reg <=> chan[1].reg) /\ (chan[1].soft => chan'[1].soft)
    BY Sole, Flagged, Zenon
  <1>2. chan \in [Inv -> Chans]
    BY Shapes, Zenon
  <1>3. ASSUME k = 1, chan[1].reg PROVE chan'[1].soft
    <2>1. chan' = [chan EXCEPT ![1].soft = TRUE]
      BY <1>3, Sole, Zenon DEF SoftHangup
    <2> QED BY <1>2, <2>1, Sole, ZenonT(60) DEF Chans
  <1> QED BY <1>1, <1>3, Zenon

\* A step of the peer, the dialplan or the consumer keeps the course.
LEMMA CourseOutside ==
  ASSUME MaxInvites = 1, InboundInv, Answers, Reported, Course, [Next]_vars, ~ Moves1
  PROVE  Course'
  <1> USE Sole DEF InboundInv
  <1>0. /\ tx \in [Inv -> {"idle", "Proceeding", "200", "487", "fail"}]
        /\ chan \in [Inv -> Chans] /\ copy \in [Inv -> Copies]
        /\ pbx \in [Inv -> {"none", "app", "gap", "ended"}] /\ permit \in [Inv -> BOOLEAN]
    BY Shaped, Zenon DEF Fields
  <1>1. ASSUME NEW st, Record(1, st) PROVE tx'[1] = tx[1] \/ (tx'[1] = st /\ tx[1] = "Proceeding")
    BY <1>1, Recorded, Zenon
  <1>2. cmap \in InvOrNone /\ con.k \in InvOrNone
    BY Zenon DEF TypeOK
  <1>3. CASE Peer(1)
    <2>1. UNCHANGED <<con, states, chan, task, pbx, copy, permit>>
      BY <1>3, Aside, Zenon DEF mapVars, resVars, taskVars, pbxVars,
         Peer, PeerInvite, PeerCancel, PeerAck, PeerBye, Retransmit, AckTimeout
    <2>2. \/ PeerInvite(1) /\ tx'[1] = "Proceeding" /\ tx[1] = "idle"
          \/ ~ PeerInvite(1) /\ (tx'[1] = tx[1] \/ tx'[1] = "487")
      BY <1>0, <1>3, Zenon DEF Peer, PeerInvite, PeerCancel, PeerAck, PeerBye, Retransmit, AckTimeout
    <2>3. tx[1] = "idle" => task[1].at = "none"
      BY Zenon DEF Arrival
    <2> QED BY <2>1, <2>2, <2>3, QueuedKept, Zenon DEF Course
  <1>4. CASE Dialplan(1)
    <2>1. UNCHANGED <<tx, con, states, chan, task>>
      BY <1>4, Aside, Zenon DEF mapVars, resVars, taskVars, peerVars,
         Dialplan, AppAnswers, AppReturns, NextPriority, PbxEnds
    <2>2. pbx[1] \in {"app", "gap"}
      BY <1>4, Zenon DEF Dialplan, AppAnswers, AppReturns, NextPriority, PbxEnds
    <2>3. (copy'[1].up = copy[1].up /\ permit'[1] = permit[1]) \/ permit'[1]
      BY <1>0, <1>4, Zenon DEF Dialplan, AppAnswers, AppReturns, NextPriority, PbxEnds, Copies
    <2>4. ~ PeerInvite(1)
      BY <2>1, <1>0, Zenon DEF PeerInvite
    <2>5. 1 \in Queued' => 1 \in Queued
      BY <2>4, QueuedKept, Zenon
    <2> QED BY <2>1, <2>2, <2>3, <2>5, Zenon DEF Course
  <1>5. CASE Handled
    <2>1. UNCHANGED <<task, pbx, copy, permit>>
      BY <1>5, Zenon DEF pbxVars, taskVars,
         Handled, RejectInvite, AcceptInvite, RejectBye, AcceptBye, HandleCancel, HandleAckTimeout
    <2>2. /\ chan[1].reg => chan'[1].reg
          /\ chan[1].soft => chan'[1].soft
      <3>1. CASE chan' = chan \/ chan' = SoftHangup(chan, cmap)
        BY <1>2, <3>1, SoleFlag, Zenon
      <3>2. CASE chan' = [chan EXCEPT ![1].reg = TRUE]
        BY <1>0, <3>2 DEF Chans
      <3> QED
        BY <1>5, <3>1, <3>2, Zenon
        DEF resVars, Handled, RejectInvite, AcceptInvite, RejectBye, AcceptBye, HandleCancel,
            HandleAckTimeout
    <2>3. con'.at = "alloc" => AcceptInvite(1) /\ chan'[1].reg
      <3>1. chan' = [chan EXCEPT ![1].reg = TRUE] => chan'[1].reg
        BY <1>0 DEF Chans
      <3>2. AcceptInvite(1) => chan'[1].reg
        BY <3>1, Zenon DEF AcceptInvite
      <3>3. con.at = "idle"
        BY <1>5, Zenon
        DEF Taken, Handled, RejectInvite, AcceptInvite, RejectBye, AcceptBye, HandleCancel,
            HandleAckTimeout
      <3>4. AcceptBye(1) => con'.at = "bye"
        BY DEF AcceptBye
      <3>5. con' = con \/ AcceptInvite(1) \/ AcceptBye(1)
        BY <1>5, Zenon DEF Handled, RejectInvite, RejectBye, HandleCancel, HandleAckTimeout
      <3> QED BY <3>2, <3>3, <3>4, <3>5, Zenon
    <2>4. RejectInvite(1) \/ AcceptInvite(1) => 1 \in Queued /\ task[1].at = "none"
      <3>1. Once
        BY Zenon DEF Arrival, Once
      <3> QED BY <3>1, TakenOff, Zenon DEF RejectInvite, AcceptInvite, Arrival
    <2>5. tx'[1] = tx[1] \/ (RejectInvite(1) /\ tx'[1] = "fail")
      BY <1>1, <1>5, Zenon
      DEF Handled, RejectInvite, AcceptInvite, RejectBye, AcceptBye, HandleCancel, HandleAckTimeout
    <2>6. states' = states \/ tx[1] \in {"487", "200"}
      <3>1. HandleCancel(1) => tx[1] = "487"
        BY TakenHappened, Zenon DEF HandleCancel
      <3>2. HandleAckTimeout(1) => tx[1] = "200"
        BY TakenHappened, Zenon DEF HandleAckTimeout, Reported
      <3> QED
        BY <1>5, <3>1, <3>2, Zenon
        DEF mapVars, Handled, RejectInvite, AcceptInvite, RejectBye, AcceptBye
    <2>7. ~ PeerInvite(1)
      BY <1>0, <2>5, Zenon DEF PeerInvite
    <2>8. 1 \in Queued' => 1 \in Queued /\ ~ RejectInvite(1)
      BY <2>7, QueuedKept, Zenon
    <2>9. AcceptInvite(1) => tx'[1] = tx[1]
      BY Zenon DEF AcceptInvite
    <2> QED BY <2>1, <2>2, <2>3, <2>4, <2>5, <2>6, <2>8, <2>9, Zenon DEF Course
  <1>6. CASE AllocFails
    <2>1. con.at = "alloc" /\ con.i = 1 /\ task[1].at = "none" /\ con'.at = "idle"
      BY <1>6, Zenon DEF AllocFails, Arrival, Idle
    <2>2. UNCHANGED <<events, states, task, pbx, copy, permit>>
      BY <1>6, Zenon DEF AllocFails, taskVars, pbxVars
    <2>3. Queued' = Queued /\ 1 \notin Queued
      BY <2>1, <2>2, Zenon DEF Queued, Arrival
    <2> QED BY <2>1, <2>2, <2>3, Zenon DEF Course
  <1>7. CASE StartCall
    <2>1. con.at = "alloc" /\ con.i = 1 /\ tx[1] # "idle" /\ con'.at = "idle" /\ 1 \notin Queued
      BY <1>7, Zenon DEF StartCall, Arrival, Idle
    <2>2. UNCHANGED <<events, tx, chan, copy, permit>> /\ states' = 1
      BY <1>7, <2>1, Zenon DEF StartCall, peerVars
    <2>3. task'[1].at = "select"
      BY <1>7, <2>1, Goes, Zenon DEF StartCall, Goto, Ats, Moved
    <2>4. Queued' = Queued /\ task[1].at = "none"
      BY <2>1, <2>2, Zenon DEF Queued, Arrival
    <2> QED BY <2>1, <2>2, <2>3, <2>4, Zenon DEF Course
  <1>8. CASE LookupBye \/ FinishBye \/ UNCHANGED vars
    <2>1. UNCHANGED <<events, tx, task, pbx, copy, permit>>
      BY <1>8, Zenon DEF LookupBye, FinishBye, vars, peerVars, taskVars, pbxVars
    <2>2. UNCHANGED states \/ tx[1] = "200"
      BY <1>8, Zenon DEF LookupBye, FinishBye, vars, mapVars, Reported
    <2>3. /\ chan[1].reg => chan'[1].reg
          /\ chan[1].soft => chan'[1].soft
      <3>1. chan' = chan \/ chan' = SoftHangup(chan, con.k)
        BY <1>8, Zenon DEF LookupBye, FinishBye, vars, resVars
      <3> QED BY <1>2, <3>1, SoleFlag, Zenon
    <2>4. con'.at = "alloc" => con.at = "alloc"
      <3>1. con' = con \/ con' = [con EXCEPT !.at = "release", !.k = cmap] \/ con' = Idle
        BY <1>8, Zenon DEF LookupBye, FinishBye, vars
      <3>2. con \in Cons
        BY Zenon DEF TypeOK, Cons
      <3>3. CASE con' = [con EXCEPT !.at = "release", !.k = cmap]
        <4>1. con'.at = "release"
          BY <3>2, <3>3 DEF Cons
        <4> QED BY <4>1
      <3>4. CASE con' = Idle
        BY <3>4 DEF Idle
      <3> QED BY <3>1, <3>3, <3>4, Zenon
    <2>5. Queued' = Queued
      BY <2>1, Zenon DEF Queued
    <2> QED BY <2>1, <2>2, <2>3, <2>4, <2>5, Zenon DEF Course
  <1> QED BY <1>3, <1>4, <1>5, <1>6, <1>7, <1>8, SoleSteps, Zenon

\* What a move of the task leaves alone, and what it does to the channel.
LEMMA TaskAside ==
  ASSUME MaxInvites = 1, InboundInv, Moves1
  PROVE  /\ UNCHANGED <<con, pbx, ack, bye>> /\ Queued' = Queued
         /\ copy'[1].up = copy[1].up
         /\ permit'[1] = permit[1] \/ (task[1].at = "select" /\ task'[1].at = "answer")
         /\ chan[1].soft => chan'[1].soft
         /\ chan[1].reg => chan'[1].reg \/ task[1].at = "cleanup"
         /\ task[1].at = "expire" /\ chan[1].reg => chan'[1].soft
         /\ states' = states \/ task[1].at \in {"sendfail", "cleanup"}
         /\ tx'[1] = tx[1] \/ task[1].at \in {"lock", "fail"}
         /\ wire'[1] = wire[1] \/ task[1].at \in {"send200", "sendbye"}
         /\ wire[1] \subseteq wire'[1]
         /\ est'[1] = est[1] \/ task[1].at = "send200"
         /\ task[1].at \notin {"none", "done"} /\ con.at # "alloc" /\ 1 \notin Queued
  <1> USE Sole DEF InboundInv, Moves1
  <1>0. /\ chan \in [Inv -> Chans] /\ copy \in [Inv -> Copies]
    BY Shaped, Zenon DEF Fields
  <1>1. UNCHANGED <<events, con, ack, bye>> /\ task[1].at \notin {"none", "done"}
    BY TaskMoves, Zenon
  <1>2. Queued' = Queued /\ con.at # "alloc" /\ 1 \notin Queued
    BY <1>1, Zenon DEF Queued, Arrival
  <1>3. UNCHANGED pbx /\ (UNCHANGED permit \/ SelectAnswered(1))
    BY Zenon
    DEF Task, SelectTimeout, Watchdog, SelectAnswered, SelectEnded, Expire, StillActive, Record200,
        Send200, Send200Fails, PbxJoined, Teardown, BuildBye, SendBye, RecordFail, SendFail,
        CleanupPoll, CleanupDeadline, pbxVars
  <1>4. UNCHANGED copy \/ copy' = [copy EXCEPT ![1].soft = TRUE]
    BY Zenon
    DEF Task, SelectTimeout, Watchdog, SelectAnswered, SelectEnded, Expire, StillActive, Record200,
        Send200, Send200Fails, PbxJoined, Teardown, BuildBye, SendBye, RecordFail, SendFail,
        CleanupPoll, CleanupDeadline, pbxVars
  <1>5. copy'[1].up = copy[1].up
    <2>1. CASE copy' = [copy EXCEPT ![1].soft = TRUE]
      BY <1>0, <2>1 DEF Copies
    <2> QED BY <1>4, <2>1, Zenon
  <1>6. \/ UNCHANGED chan \/ chan' = SoftHangup(chan, 1)
        \/ chan' = [chan EXCEPT ![1].up = TRUE]
        \/ chan' = [chan EXCEPT ![1].reg = FALSE] /\ task[1].at = "cleanup"
    BY Zenon
    DEF Task, SelectTimeout, Watchdog, SelectAnswered, SelectEnded, Expire, StillActive, Record200,
        Send200, Send200Fails, PbxJoined, Teardown, BuildBye, SendBye, RecordFail, SendFail,
        CleanupPoll, CleanupDeadline, Finalize, resVars
  <1>7. /\ chan[1].soft => chan'[1].soft
        /\ chan[1].reg => chan'[1].reg \/ task[1].at = "cleanup"
    <2>1. CASE chan' = [chan EXCEPT ![1].up = TRUE]
      BY <1>0, <2>1 DEF Chans
    <2>2. CASE chan' = [chan EXCEPT ![1].reg = FALSE] /\ task[1].at = "cleanup"
      <3>1. chan'[1].soft = chan[1].soft
        BY <1>0, <2>2 DEF Chans
      <3> QED BY <2>2, <3>1, Zenon
    <2> QED BY <1>6, <2>1, <2>2, SoleFlag, Zenon
  <1>8. task[1].at = "expire" /\ chan[1].reg => chan'[1].soft
    <2>1. task[1].at = "expire" => Expire(1)
      BY Zenon
      DEF Task, SelectTimeout, Watchdog, SelectAnswered, SelectEnded, StillActive, Record200,
          Send200, Send200Fails, PbxJoined, Teardown, BuildBye, SendBye, RecordFail, SendFail,
          CleanupPoll, CleanupDeadline
    <2>2. 1 \in InvOrNone
      BY Zenon
    <2> QED BY <2>1, <2>2, SoleFlag, Zenon DEF Expire
  <1>9. UNCHANGED states \/ task[1].at \in {"sendfail", "cleanup"}
    BY Zenon
    DEF Task, SelectTimeout, Watchdog, SelectAnswered, SelectEnded, Expire, StillActive, Record200,
        Send200, Send200Fails, PbxJoined, Teardown, BuildBye, SendBye, RecordFail, SendFail,
        CleanupPoll, CleanupDeadline, mapVars
  <1>10. /\ UNCHANGED tx \/ task[1].at \in {"lock", "fail"}
         /\ UNCHANGED wire \/ task[1].at \in {"send200", "sendbye"}
    BY Zenon
    DEF Task, SelectTimeout, Watchdog, SelectAnswered, SelectEnded, Expire, StillActive, Record200,
        Send200, Send200Fails, PbxJoined, Teardown, BuildBye, SendBye, RecordFail, SendFail,
        CleanupPoll, CleanupDeadline, peerVars
  <1>11. UNCHANGED est \/ task[1].at = "send200"
    BY Zenon
    DEF Task, SelectTimeout, Watchdog, SelectAnswered, SelectEnded, Expire, StillActive, Record200,
        Send200, Send200Fails, PbxJoined, Teardown, BuildBye, SendBye, RecordFail, SendFail,
        CleanupPoll, CleanupDeadline
  <1>12. SelectAnswered(1) => task[1].at = "select" /\ task'[1].at = "answer"
    BY Goes, Zenon DEF SelectAnswered, Ats, Moved
  <1>13. wire[1] \subseteq wire'[1]
    <2>1. task[1].at \in {"bye", "sendbye", "fail", "sendfail"} => task[1].k = 1
      BY Zenon DEF Locked
    <2>2. \/ UNCHANGED wire \/ wire' = [wire EXCEPT ![1] = @ \cup {"200"}]
          \/ wire' = [wire EXCEPT ![1] = @ \cup {"BYE"}]
      BY <2>1, Zenon
      DEF Task, SelectTimeout, Watchdog, SelectAnswered, SelectEnded, Expire, StillActive, Record200,
          Send200, Send200Fails, PbxJoined, Teardown, BuildBye, SendBye, RecordFail, SendFail,
          CleanupPoll, CleanupDeadline, peerVars
    <2>3. wire \in [Inv -> SUBSET {"200", "BYE"}]
      BY Zenon DEF TypeOK
    <2> QED BY <2>2, <2>3, Zenon
  <1> QED BY <1>1, <1>2, <1>3, <1>5, <1>7, <1>8, <1>9, <1>10, <1>11, <1>12, <1>13, Zenon

\* Where the task goes, and from where.
LEMMA Places ==
  ASSUME MaxInvites = 1, InboundInv, Moves1
  PROVE  LET at == task[1].at
             to == task'[1].at
         IN \/ at = "select" /\ to \in {"answer", "expire"}
            \/ at = "select" /\ ~ permit[1] /\ pbx[1] = "ended" /\ to = "hangup"
            \/ at = "expire" /\ to = "waitpbx"
            \/ at = "answer" /\ (to = "lock" \/ (to = "waitpbx" /\ states = 0))
            \/ at = "lock" /\ tx[1] = "Proceeding" /\ tx'[1] = "200" /\ to = "send200"
            \/ at = "lock" /\ tx[1] # "Proceeding" /\ tx'[1] = tx[1] /\ to = "waitpbx"
            \/ at = "send200" /\ to = "waitpbx"
            \/ at = "waitpbx" /\ est[1] /\ to = "unwind"
            \/ at \in {"waitpbx", "unwind"} /\ pbx[1] = "ended" /\ to = "hangup"
            \/ at = "hangup" /\ states = 0 /\ to = "cleanup"
            \/ at = "hangup" /\ est[1] /\ to = "bye"
            \/ at = "hangup" /\ ~ est[1] /\ to = "fail"
            \/ at = "bye" /\ to = "sendbye"
            \/ at = "sendbye" /\ to = "cleanup"
            \/ at = "fail" /\ tx[1] = "Proceeding" /\ tx'[1] = "fail" /\ to = "sendfail"
            \/ at = "fail" /\ tx[1] # "Proceeding" /\ tx'[1] = tx[1] /\ to = "sendfail"
            \/ at = "sendfail" /\ to = "cleanup"
            \/ at = "cleanup" /\ to = "done"
  <1> USE Sole DEF InboundInv
  <1>0. task \in [Inv -> Tasks]
    BY Shaped, Zenon DEF Fields
  <1>1. ASSUME NEW at, Goto(1, at) PROVE task'[1].at = at
    BY <1>0, <1>1 DEF Goto, Tasks
  <1>2. ASSUME NEW at, NEW k, GotoWith(1, at, k) PROVE task'[1].at = at
    BY <1>0, <1>2, Zenon DEF GotoWith
  <1>3. CASE SelectAnswered(1) \/ SelectEnded(1) \/ SelectTimeout(1) \/ Expire(1)
    BY <1>1, <1>3, Zenon DEF SelectAnswered, SelectEnded, SelectTimeout, Expire
  <1>4. CASE StillActive(1)
    <2>1. task[1].at = "answer" /\ Goto(1, IF states # 0 THEN "lock" ELSE "waitpbx")
      BY <1>4, Zenon DEF StillActive
    <2>2. task'[1].at = IF states # 0 THEN "lock" ELSE "waitpbx"
      BY <1>1, <2>1, Zenon
    <2> QED BY <2>1, <2>2, Zenon
  <1>5. CASE Record200(1)
    <2>1. task[1].at = "lock" /\ Record(1, "200")
      BY <1>5, Zenon DEF Record200
    <2>2. tx[1] = "Proceeding" => tx'[1] = "200" /\ task'[1].at = "send200"
      BY <1>1, <1>5, <2>1, Recorded, ZenonT(60) DEF Record200, MayRecord
    <2>3. tx[1] # "Proceeding" => tx'[1] = tx[1] /\ task'[1].at = "waitpbx"
      BY <1>1, <1>5, <2>1, Recorded, Zenon DEF Record200, MayRecord
    <2> QED BY <2>1, <2>2, <2>3, Zenon
  <1>6. CASE Send200(1) \/ Send200Fails(1) \/ Watchdog(1) \/ PbxJoined(1)
    BY <1>1, <1>6, Zenon DEF Send200, Send200Fails, Watchdog, PbxJoined
  <1>7. CASE Teardown(1)
    <2>1. task[1].at = "hangup"
      BY <1>7, Zenon DEF Teardown
    <2>2. CASE states = 0
      BY <1>1, <1>7, <2>1, <2>2, Zenon DEF Teardown
    <2>3. CASE states # 0
      <3>1. GotoWith(1, IF est[1] THEN "bye" ELSE "fail", states)
        BY <1>7, <2>3, Zenon DEF Teardown
      <3>2. task'[1].at = IF est[1] THEN "bye" ELSE "fail"
        BY <1>2, <3>1, Zenon
      <3> QED BY <2>1, <2>3, <3>2, Zenon
    <2> QED BY <2>2, <2>3, Zenon
  <1>8. CASE BuildBye(1) \/ SendBye(1)
    BY <1>1, <1>2, <1>8, Zenon DEF BuildBye, SendBye
  <1>9. CASE RecordFail(1)
    <2>1. task[1].at = "fail" /\ task[1].k = 1 /\ Record(task[1].k, "fail") /\ task'[1].at = "sendfail"
      BY <1>1, <1>9, EndSteps, Zenon DEF RecordFail
    <2>2. (tx[1] = "Proceeding" => tx'[1] = "fail") /\ (tx[1] # "Proceeding" => tx'[1] = tx[1])
      BY <2>1, Recorded, Zenon
    <2> QED BY <2>1, <2>2, Zenon
  <1>10. CASE SendFail(1) \/ CleanupPoll(1) \/ CleanupDeadline(1)
    BY <1>1, <1>2, <1>10, ZenonT(60) DEF SendFail, CleanupPoll, CleanupDeadline
  <1> QED
    BY <1>3, <1>4, <1>5, <1>6, <1>7, <1>8, <1>9, <1>10, Zenon DEF Moves1, Task

\* A step of the task keeps the course.
LEMMA CourseTask ==
  ASSUME MaxInvites = 1, InboundInv, Answers, Course, Moves1
  PROVE  Course'
  <1>1. task[1].at \in {"send200", "bye", "sendbye"} \/ est[1] => tx[1] = "200"
    BY Sole, Zenon DEF Answers
  <1>2. tx'[1] = "Proceeding" => tx[1] = "Proceeding" /\ task'[1].at \notin {"sendfail", "cleanup", "done"}
    BY <1>1, Places, TaskAside DEF Course
  <1>3. /\ task[1].at \notin {"none", "done"} /\ task'[1].at # "none"
        /\ task'[1].at # "done" \/ task[1].at = "cleanup"
    BY Places, TaskAside
  <1>4. task'[1].at # "done" \/ con'.at = "alloc" => chan'[1].reg
    BY <1>3, Places, TaskAside DEF Course
  <1>5. task'[1].at \in {"hangup", "bye", "sendbye", "fail", "sendfail", "cleanup", "done"} =>
          pbx'[1] = "ended"
    BY Places, TaskAside DEF Course
  <1>6. tx'[1] = "Proceeding" => states' = 1
    BY <1>2, <1>3, Places, TaskAside DEF Course
  <1>7. tx'[1] = "fail" => task'[1].at \in {"none", "sendfail", "cleanup", "done"}
    BY <1>1, Places, TaskAside DEF Course
  <1>8. task'[1].at = "select" => FALSE
    BY Places
  <1>9. 1 \notin Queued' /\ con'.at # "alloc"
    BY TaskAside
  <1>10. /\ task'[1].at \in {"waitpbx", "unwind"} /\ tx'[1] = "Proceeding" => chan'[1].soft
         /\ task'[1].at \in {"hangup", "fail"} /\ tx'[1] = "Proceeding" /\ copy'[1].up => chan'[1].soft
         /\ tx'[1] = "fail" /\ copy'[1].up => chan'[1].soft
    BY <1>1, <1>2, Places, TaskAside DEF Course
  <1> QED BY <1>2, <1>3, <1>4, <1>5, <1>6, <1>7, <1>8, <1>9, <1>10, Zenon DEF Course

LEMMA CourseKept ==
  ASSUME MaxInvites = 1, InboundInv, Answers, Reported, Course, [Next]_vars
  PROVE  Course'
  BY CourseOutside, CourseTask, Zenon

\* Every way to drop the session of an answered call is one side's end of it,
\* as long as the transport takes what it is given.
LEMMA ClosingKept ==
  ASSUME MaxInvites = 1, Fails = {}, InboundInv, Answers, Reported, Course, Closing, [Next]_vars
  PROVE  Closing'
  <1> USE Sole DEF InboundInv
  <1>0. /\ wire \in [Inv -> SUBSET {"200", "BYE"}] /\ est \in [Inv -> BOOLEAN]
    BY Zenon DEF TypeOK
  <1>1. CASE Moves1
    <2>1. task[1].at = "sendbye" => "BYE" \in wire'[1]
      <3> SUFFICES ASSUME task[1].at = "sendbye" PROVE "BYE" \in wire'[1]
        BY Zenon
      <3>1. SendBye(1)
        BY <1>1, Zenon
        DEF Moves1, Task, SelectTimeout, Watchdog, SelectAnswered, SelectEnded, Expire, StillActive,
            Record200, Send200, Send200Fails, PbxJoined, Teardown, BuildBye, RecordFail, SendFail,
            CleanupPoll, CleanupDeadline
      <3>2. task[1].k = 1 /\ wire' = [wire EXCEPT ![task[1].k] = @ \cup {"BYE"}]
        BY <3>1, EndSteps, Zenon DEF SendBye
      <3> QED BY <1>0, <3>2, Zenon
    <2>2. task[1].at = "send200" => est'[1]
      <3> SUFFICES ASSUME task[1].at = "send200" PROVE est'[1]
        BY Zenon
      <3>1. Send200(1)
        BY <1>1, Zenon
        DEF Moves1, Task, SelectTimeout, Watchdog, SelectAnswered, SelectEnded, Expire, StillActive,
            Record200, Send200Fails, PbxJoined, Teardown, BuildBye, SendBye, RecordFail, SendFail,
            CleanupPoll, CleanupDeadline
      <3> QED BY <1>0, <3>1, Zenon DEF Send200
    <2>3. "BYE" \in wire[1] => "BYE" \in wire'[1]
      BY <1>1, TaskAside, Zenon
    <2>4. Ended => Ended'
      BY <1>1, <2>3, TaskAside, Zenon DEF Ended
    <2>5. est[1] => tx[1] = "200"
      BY Zenon DEF Answers
    <2> QED BY <1>1, <2>1, <2>2, <2>4, <2>5, Places, TaskAside, ZenonT(60) DEF Closing, Course, Ended
  <1>2. CASE ~ Moves1
    <2>1. /\ UNCHANGED est
          /\ UNCHANGED task \/ (task[1].at = "none" /\ task'[1].at = "select")
      <3>1. StartCall => task[1].at = "none" /\ task'[1].at = "select"
        <4>1. StartCall => con.i = 1 /\ Goto(1, "select")
          BY Zenon DEF StartCall, Arrival, Goto
        <4>2. StartCall => task[1].at = "none"
          BY <4>1, Zenon DEF StartCall, Arrival
        <4> QED BY <4>1, <4>2, Goes, Zenon DEF Ats, Moved
      <3> QED
        BY <1>2, <3>1, SoleSteps, Aside, Zenon
        DEF Handled, RejectInvite, AcceptInvite, RejectBye, AcceptBye, HandleCancel,
            HandleAckTimeout, AllocFails, StartCall, LookupBye, FinishBye, vars, taskVars
    <2>2. tx'[1] = "200" => tx[1] = "200"
      <3>1. tx \in [Inv -> {"idle", "Proceeding", "200", "487", "fail"}]
        BY Zenon DEF TypeOK
      <3>2. Record(1, "fail") /\ tx'[1] = "200" => tx[1] = "200"
        BY <3>1 DEF Record, MayRecord
      <3>3. CASE Peer(1)
        BY <3>1, <3>3, Zenon
        DEF Peer, PeerInvite, PeerCancel, PeerAck, PeerBye, Retransmit, AckTimeout
      <3>4. CASE AllocFails
        BY <3>2, <3>4, Zenon DEF AllocFails, Arrival
      <3> QED
        BY <1>2, <3>2, <3>3, <3>4, SoleSteps, Zenon
        DEF Handled, RejectInvite, AcceptInvite, RejectBye, AcceptBye, HandleCancel,
            HandleAckTimeout, Dialplan, AppAnswers, AppReturns, NextPriority, PbxEnds,
            StartCall, LookupBye, FinishBye, vars, peerVars
    <2>3. tx[1] = "200" /\ states' = 0 => states = 0 \/ Ended
      <3>1. HandleCancel(1) => tx[1] = "487"
        BY TakenHappened, Zenon DEF HandleCancel
      <3>2. HandleAckTimeout(1) => ack[1] = "timeout"
        BY TakenHappened, Zenon DEF HandleAckTimeout
      <3>3. FinishBye => 1 \in bye
        BY Zenon DEF FinishBye, Reported
      <3>4. StartCall => states' = 1
        BY Zenon DEF StartCall, Arrival
      <3> QED
        BY <1>2, <3>1, <3>2, <3>3, <3>4, SoleSteps, Aside, Zenon
        DEF Handled, RejectInvite, AcceptInvite, RejectBye, AcceptBye, AllocFails, LookupBye, vars,
            mapVars, Ended
    <2>4. Ended => Ended'
      <3>1. "BYE" \in wire[1] => "BYE" \in wire'[1]
        <4>1. CASE Peer(1)
          BY <1>0, <4>1, ZenonT(60)
          DEF Peer, PeerInvite, PeerCancel, PeerAck, PeerBye, Retransmit, AckTimeout
        <4>2. UNCHANGED wire \/ Peer(1)
          BY <1>2, SoleSteps, Zenon
          DEF Handled, RejectInvite, AcceptInvite, RejectBye, AcceptBye, HandleCancel,
              HandleAckTimeout, Dialplan, AppAnswers, AppReturns, NextPriority, PbxEnds,
              AllocFails, StartCall, LookupBye, FinishBye, vars, peerVars
        <4> QED BY <4>1, <4>2, Zenon
      <3> QED BY <3>1, Lasting, Zenon DEF Ended
    <2> QED BY <2>1, <2>2, <2>3, <2>4, Zenon DEF Closing
  <1> QED BY <1>1, <1>2, Zenon

\* The one INVITE of a Call-ID starts out with no call.
LEMMA InitSole ==
  ASSUME MaxInvites = 1, Init
  PROVE  Reported /\ Course /\ Closing
  <1>1. Len(events) = 0 /\ events = <<>>
    BY DEF Init
  <1>2. 1 .. Len(events) = {} /\ Queued = {}
    <2>1. 1 .. 0 = {}
      OBVIOUS
    <2> QED BY <1>1, <2>1, Zenon DEF Queued
  <1> QED BY <1>2, Sole, Zenon DEF Init, Reported, Course, Closing

\* What is proved of the one call, whatever the transport refuses.
LEMMA SoleInvariant == MaxInvites = 1 => (Spec => [](Reported /\ Course))
  <1> SUFFICES ASSUME MaxInvites = 1 PROVE Spec => [](Reported /\ Course)
    BY Zenon
  <1>1. Init => Reported /\ Course
    BY InitSole, Zenon
  <1>2. InboundInv /\ Answers /\ (Reported /\ Course) /\ [Next]_vars => (Reported /\ Course)'
    BY ReportedKept, CourseKept, Zenon
  <1> QED BY <1>1, <1>2, InboundInvariant, InboundAnswers, PTL DEF Spec

\* Where the Call-ID has one INVITE, a call that is over has answered it,
\* whichever of CANCEL, BYE, timeout, dialplan end and Answer() came first and
\* whatever the transport refused (the per-call task, handle_cancel).
THEOREM InboundIsAnswered == MaxInvites = 1 => (Spec => []InviteIsAnswered)
  <1> SUFFICES ASSUME MaxInvites = 1 PROVE Spec => []InviteIsAnswered
    BY Zenon
  <1>1. Course => InviteIsAnswered
    BY Sole, Zenon DEF Course, InviteIsAnswered
  <1> QED BY <1>1, SoleInvariant, PTL

\* Where the Call-ID has one INVITE, a dialplan that answered fails it only if
\* the call was hung up (the biased select! of the per-call task).
THEOREM InboundAnswerWins == MaxInvites = 1 => (Spec => []AnswerWins)
  <1> SUFFICES ASSUME MaxInvites = 1 PROVE Spec => []AnswerWins
    BY Zenon
  <1>1. Course => AnswerWins
    BY Sole, Zenon DEF Course, AnswerWins
  <1> QED BY <1>1, SoleInvariant, PTL

\* Where the Call-ID has one INVITE and the transport takes what it is given, a
\* call that was answered is over only when one side has ended the dialog, or
\* the ACK never came (the teardown of the per-call task, handle_bye,
\* handle_invite_ack_timeout).
THEOREM InboundDialogIsEnded ==
  MaxInvites = 1 /\ Fails = {} => (Spec => []DialogIsEnded)
  <1> SUFFICES ASSUME MaxInvites = 1, Fails = {} PROVE Spec => []DialogIsEnded
    BY Zenon
  <1>1. Init => Closing
    BY InitSole, Zenon
  <1>2. InboundInv /\ Answers /\ (Reported /\ Course) /\ Closing /\ [Next]_vars => Closing'
    BY ClosingKept, Zenon
  <1>3. Reported /\ Closing => DialogIsEnded
    BY Sole, Zenon DEF Reported, Closing, DialogIsEnded, Ended
  <1> QED BY <1>1, <1>2, <1>3, InboundInvariant, InboundAnswers, SoleInvariant, PTL DEF Spec
=============================================================================
