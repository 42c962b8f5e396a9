------------------------------ MODULE LegProofs ------------------------------
(***************************************************************************)
(* The outbound leg, for any number of authentication attempts, either     *)
(* owner and any surroundings: no BYE is sent before the 2xx is            *)
(* acknowledged; a leg that is over holds nothing; an acknowledged leg is  *)
(* not forgotten without a BYE; and every INVITE after the first answers   *)
(* a challenge of its own.                                                 *)
(*                                                                         *)
(* All four rest on LegInv: what is under way (on the network, in the      *)
(* event queue, in the consumer's hands) says only what its sender did,    *)
(* and the CSeq of the session and of its dialog are tied to the INVITE    *)
(* the callee answered.  The proofs of the last three add an invariant of  *)
(* their own: Holding, Retries, and Ordered with TimerOrder and Ending.    *)
(***************************************************************************)
EXTENDS OutboundLeg, TLAPS

-----------------------------------------------------------------------------
(* What is under way says what was done.                                    *)

\* The callee has answered the INVITE with a 200.
Ans == {"answered", "acked", "over"}

\* The messages in a queue.
Elems(q) == {q[i] : i \in 1 .. Len(q)}

\* The messages of the leg that are under way: on the network, in the event
\* queue, or in the consumer's hands.
taken == IF con.pc = "idle" THEN {} ELSE {con.msg}
underway == Elems(net) \cup Elems(events) \cup taken

\* What a message under way tells of its sender.
Justified(m) ==
  /\ m.kind = "response" =>
       /\ m.code = "100" => uas[m.seq] # "none"
       /\ m.code = "180" => uas[m.seq] \notin {"none", "trying"}
       /\ m.code = "401" => uas[m.seq] = "challenged"
       /\ m.code = "200" => uas[m.seq] \in Ans
       /\ m.code = "3xx" => uas[m.seq] = "redirected"
       /\ m.code \in {"486", "4xx"} => uas[m.seq] = "failed"
  /\ m.kind = "bye" => "callee" \in ended
  /\ m.kind \in {"byeok", "F"} => "us" \in ended
  /\ m.kind = "B" => owner \notin Calling \cup {"new"}

Told == \A m \in underway : Justified(m)

\* Requests come from an INVITE that was sent and from a BYE that was.
Asked ==
  /\ \A s \in Seqs : /\ uas[s] # "none" => s <= cs.seq
                     /\ [m |-> "INVITE", seq |-> s] \in out =>
                          uas[s] = "none" /\ s <= cs.seq
  /\ \A r \in out : r.m = "BYE" => r.seq >= 2 /\ "us" \in ended
  /\ bye # "None" => "us" \in ended
  /\ owner = "new" => out = {} /\ uas[1] = "none" /\ pending = {}

-----------------------------------------------------------------------------
(* The dialog.                                                              *)

\* Before the 2xx is acknowledged nobody takes the leg for answered, and the
\* dialog, if there is one, is that of the last INVITE or of a challenged one.
Before ==
  /\ cs.dlg # 0 => cs.dlg <= cs.seq /\ (cs.dlg = cs.seq \/ uas[cs.dlg] = "challenged")
  /\ cs.sess \notin {"Established", "Terminating"}
  /\ "us" \notin ended
  /\ chan.state # "Up"
  /\ owner \notin {"bridged", "bye", "sendbye"}
  /\ con.pc = "handle" =>
       /\ con.msg.seq = IF cs.dlg # 0 THEN cs.dlg ELSE cs.seq
       /\ con.msg.code = "100" => cs.dlg = 0

\* Afterwards the dialog is that of the last INVITE, advanced by one for each
\* BYE: one of the owner, which is through then, and one of the consumer.
After ==
  /\ uas[cs.seq] \in Ans
  /\ cs.dlg \in cs.seq .. cs.seq + 2
  /\ con.pc = "handle" =>
       /\ con.msg.seq = cs.seq /\ con.msg.code # "100"
       /\ cs.dlg # cs.seq => cs.dlg = cs.seq + 1 /\ owner \in {"release", "done"}
  /\ cs.dlg = cs.seq + 2 => owner \in {"release", "done"}
  /\ owner \notin {"new", "sent", "mapped"}

Dialog ==
  /\ cs.seq = cs.tries + 1
  /\ IF acked THEN After ELSE Before
  /\ con.pc = "match" => con.msg.kind \in {"response", "byeok"}
  /\ con.pc = "handle" => con.msg.kind = "response"
  /\ con.pc # "idle" => owner \notin {"new", "sent", "mapped"}
  /\ owner \in {"new", "sent", "mapped"} => "states" \notin held

LegInv == TypeOK /\ Told /\ Asked /\ Dialog

-----------------------------------------------------------------------------
(* One retry per challenge.                                                 *)

\* Every INVITE but the last was challenged, and nothing says otherwise.
Retries ==
  /\ \A s \in Seqs : s < cs.seq => uas[s] = "challenged"
  /\ \A s \in Seqs : Response("180", s) \in underway =>
                       uas[s] \notin {"none", "trying", "challenged"}
  /\ cs.dlg # 0 /\ ~ acked =>
       cs.dlg = cs.seq /\ uas[cs.dlg] \notin {"none", "trying", "challenged"}

-----------------------------------------------------------------------------
(* What is held.                                                            *)

\* The two signalling maps are filled and cleared together.
Both == "cmap" \in held <=> "states" \in held

\* How far driver.call() has come tells what is held, and so does the end.
Holding ==
  /\ reap # {} => owner = "done"
  /\ owner = "new" => held = {"store", "driver"}
  /\ owner = "sent" => {"cmap", "states"} \cap held = {}
  /\ owner = "mapped" => "cmap" \in held
  /\ owner \notin {"new", "sent", "mapped"} => Both
  /\ owner = "done" /\ (Owner = "Dial" => "unsent" \notin Env) =>
       /\ held \subseteq {"cmap", "states"}
       /\ reap = {} => held = {}

-----------------------------------------------------------------------------
(* Order.                                                                   *)

\* In q no 180 comes after the 200 of the same INVITE.
InOrder(q) ==
  \A i, j \in 1 .. Len(q) : \A s \in Seqs :
     i < j /\ q[i] = Response("200", s) => q[j] # Response("180", s)

\* The response in the consumer's hands.
handling == IF con.pc \in {"match", "handle"} THEN {con.msg} ELSE {}

\* A 200 overtakes no 180 on its way to the session.
Ordered ==
  /\ InOrder(net) /\ InOrder(events)
  /\ \A s \in Seqs :
       /\ Response("200", s) \in Elems(events) \cup handling =>
            Response("180", s) \notin Elems(net)
       /\ Response("200", s) \in handling => Response("180", s) \notin Elems(events)
       /\ acked /\ s = cs.seq => Response("180", s) \notin underway

\* A final response to the INVITE with CSeq s.
Final(m, s) == m.kind = "response" /\ m.seq = s /\ m.code \notin {"100", "180"}

\* Timer B and a final response to the same INVITE exclude each other.
TimerOrder ==
  /\ Timer("B") \notin Elems(net)
  /\ \A m \in Elems(events) \cup handling :
       m.kind = "response" /\ m.code \notin {"100", "180"} => m.seq \notin pending
  /\ acked => pending = {} /\ Timer("B") \notin Elems(events)
  /\ ~ acked /\ cs.dlg \in {0, cs.seq} =>
       /\ pending \subseteq {cs.seq}
       /\ \A j \in 1 .. Len(events) : events[j] = Timer("B") =>
            /\ \A m \in handling : ~ Final(m, cs.seq)
            /\ \A i \in 1 .. j - 1 : ~ Final(events[i], cs.seq)
  /\ owner = "new" => cs.seq = 1 /\ ~ acked

\* Who ends an acknowledged leg says so to the other side.
Ending ==
  /\ acked => cs.sess \in {"Established", "Terminating"}
  /\ cs.sess = "Terminating" => "us" \in ended
  /\ acked /\ ended = {} => ~ cs.abandoned
  /\ owner \in {"preserve", "release"} => cs.abandoned
  /\ con.pc = "handle" /\ "states" \notin held => cs.abandoned \/ ended # {}
  /\ con.pc \in {"bye", "hangup"} => con.msg.kind = "bye"
  /\ reap # {} => cs.abandoned \/ ended # {}
  /\ AckedIsEnded

-----------------------------------------------------------------------------
(* Sequences and messages.                                                  *)

\* What a queue holds after one more message.
LEMMA Appended ==
  ASSUME NEW q \in Seq(Messages), NEW e \in Messages
  PROVE  /\ Append(q, e) \in Seq(Messages)
         /\ Elems(Append(q, e)) = Elems(q) \cup {e}
         /\ Len(Append(q, e)) = Len(q) + 1
         /\ \A i \in 1 .. Len(q) : Append(q, e)[i] = q[i]
         /\ Append(q, e)[Len(q) + 1] = e
  <1> DEFINE r == Append(q, e)
  <1>1. /\ r \in Seq(Messages) /\ Len(r) = Len(q) + 1 /\ Len(q) \in Nat
        /\ \A i \in 1 .. Len(q) : r[i] = q[i]
        /\ r[Len(q) + 1] = e
    OBVIOUS
  <1> HIDE DEF r
  <1>2. Elems(r) \subseteq Elems(q) \cup {e}
    <2> SUFFICES ASSUME NEW i \in 1 .. Len(q) + 1 PROVE r[i] \in Elems(q) \cup {e}
      BY <1>1, Zenon DEF Elems
    <2> QED BY <1>1 DEF Elems
  <1>3. Elems(q) \subseteq Elems(r)
    BY <1>1 DEF Elems
  <1>4. e \in Elems(r)
    BY <1>1 DEF Elems
  <1> QED BY <1>1, <1>2, <1>3, <1>4, Zenon DEF r

\* What a queue holds without its first message.
LEMMA Shortened ==
  ASSUME NEW q \in Seq(Messages), q # <<>>
  PROVE  /\ Tail(q) \in Seq(Messages)
         /\ Head(q) \in Messages /\ Head(q) \in Elems(q)
         /\ Elems(Tail(q)) \subseteq Elems(q)
         /\ Len(q) \in Nat \ {0} /\ Len(Tail(q)) = Len(q) - 1 /\ Head(q) = q[1]
         /\ \A i \in 1 .. Len(q) - 1 : Tail(q)[i] = q[i + 1]
  <1>1. /\ Tail(q) \in Seq(Messages) /\ Head(q) \in Messages
        /\ Len(q) \in Nat \ {0} /\ Len(Tail(q)) = Len(q) - 1 /\ Head(q) = q[1]
        /\ \A i \in 1 .. Len(q) - 1 : Tail(q)[i] = q[i + 1]
    OBVIOUS
  <1>2. Head(q) \in Elems(q) /\ Elems(Tail(q)) \subseteq Elems(q)
    BY <1>1 DEF Elems
  <1> QED BY <1>1, <1>2, Zenon

\* What the network holds after its i-th message arrived.
LEMMA Removed ==
  ASSUME NEW q \in Seq(Messages), NEW i \in 1 .. Len(q)
  PROVE  /\ Without(q, i) \in Seq(Messages)
         /\ Len(Without(q, i)) = Len(q) - 1
         /\ \A j \in 1 .. Len(q) - 1 : Without(q, i)[j] = IF j < i THEN q[j] ELSE q[j + 1]
         /\ Elems(Without(q, i)) \subseteq Elems(q)
         /\ q[i] \in Messages /\ q[i] \in Elems(q)
  <1>1. /\ Without(q, i) \in Seq(Messages)
        /\ Len(Without(q, i)) = Len(q) - 1
        /\ \A j \in 1 .. Len(q) - 1 : Without(q, i)[j] = IF j < i THEN q[j] ELSE q[j + 1]
    BY DEF Without
  <1>2. Elems(Without(q, i)) \subseteq Elems(q)
    BY <1>1, SMTT(30) DEF Elems
  <1> QED BY <1>1, <1>2 DEF Elems

\* The messages of the leg, kind by kind.
LEMMA Kinds ==
  ASSUME NEW m \in Messages
  PROVE  /\ m.kind \in {"response", "byeok", "bye", "B", "F"}
         /\ m.kind = "response" => m.code \in Codes /\ m.seq \in Seqs
                                   /\ m = Response(m.code, m.seq)
         /\ m.kind = "byeok" => m.seq \in 2 .. MaxAuthAttempts + 3
         /\ m.kind = "bye" => m = Request
         /\ m.kind \in {"B", "F"} => m = Timer(m.kind)
  BY DEF Messages, Response, ByeResponse, Request, Timer

\* The constructors make messages of their kind.
LEMMA Made ==
  /\ \A c \in Codes, s \in Seqs : /\ Response(c, s) \in Messages
                                  /\ Response(c, s).kind = "response"
                                  /\ Response(c, s).code = c
                                  /\ Response(c, s).seq = s
  /\ \A s \in 2 .. MaxAuthAttempts + 3 : /\ ByeResponse(s) \in Messages
                                         /\ ByeResponse(s).kind = "byeok"
  /\ Request \in Messages /\ Request.kind = "bye"
  /\ \A t \in {"B", "F"} : Timer(t) \in Messages /\ Timer(t).kind = t
  <1>1. \A c \in Codes, s \in Seqs : Response(c, s) \in Messages
    BY DEF Messages
  <1>2. \A s \in 2 .. MaxAuthAttempts + 3 : ByeResponse(s) \in Messages
    BY DEF Messages
  <1>3. Request \in Messages /\ Timer("B") \in Messages /\ Timer("F") \in Messages
    BY DEF Messages
  <1> QED BY <1>1, <1>2, <1>3, Zenon DEF Response, ByeResponse, Request, Timer

-----------------------------------------------------------------------------
(* Every step keeps the leg well typed and only adds to what was done.      *)

\* The record types of TypeOK.
Channels == [state : {"Down", "Dialing", "Ringing", "Up", "Busy"}, soft : BOOLEAN]
CallStates ==
  [sess : {"Initiated", "Early", "Established", "Terminating", "Terminated"},
   seq : Seqs, dlg : 0 .. MaxAuthAttempts + 3,
   abandoned : BOOLEAN, tries : 0 .. MaxAuthAttempts]
Consumers == [pc : {"idle", "match", "handle", "bye", "hangup"}, msg : Messages]

\* softhangup and set_state change one field of the channel, release_outbound_leg
\* clears registries.
LEMMA Helpers ==
  ASSUME TypeOK
  PROVE  /\ softhangup \in Channels /\ softhangup.state = chan.state
         /\ \A st \in {"Ringing", "Up", "Busy", "Dialing"} :
              set_state(st) \in Channels /\ set_state(st).state \in {st, chan.state}
         /\ \A h \in SUBSET Registries :
              Released(h) = IF "cmap" \in h THEN {} ELSE h \ Media
         /\ Idle \in Consumers /\ Idle.pc = "idle"
  <1>1. Idle \in Consumers /\ Idle.pc = "idle"
    BY Made, Zenon DEF Idle, Consumers
  <1>2. softhangup \in Channels /\ softhangup.state = chan.state
    BY Zenon DEF TypeOK, softhangup, Channels
  <1>3. ASSUME NEW st \in {"Ringing", "Up", "Busy", "Dialing"}
        PROVE  set_state(st) \in Channels /\ set_state(st).state \in {st, chan.state}
    BY Zenon DEF TypeOK, set_state, Channels
  <1>4. \A h \in SUBSET Registries :
          Released(h) = IF "cmap" \in h THEN {} ELSE h \ Media
    BY Zenon DEF Released
  <1> QED BY <1>1, <1>2, <1>3, <1>4, Zenon

\* What the session is after a BYE.
LEMMA Byes ==
  ASSUME NEW c \in CallStates
  PROVE  /\ ByeSent(c).sess = "Terminating" /\ ByeSent(c).dlg = c.dlg + 1
         /\ ByeSent(c).seq = c.seq /\ ByeSent(c).tries = c.tries
         /\ ByeSent(c).abandoned = c.abandoned
         /\ c.dlg + 1 \in 0 .. MaxAuthAttempts + 3 => ByeSent(c) \in CallStates
  BY Zenon DEF ByeSent, CallStates

\* The new INVITE is on its way.
Resent ==
  /\ cs.tries < MaxAuthAttempts
  /\ cs' = Retried
  /\ out' = out \cup {[m |-> "INVITE", seq |-> cs.seq + 1]}
  /\ txn' = [txn EXCEPT ![cs.seq + 1] = "Calling"]
  /\ UNCHANGED <<chan, held>>

\* There is no new INVITE, or it was not sent.
Unanswered ==
  /\ cs' = cs \/ (cs.tries < MaxAuthAttempts /\ cs' = Retried)
  /\ FailLeg
  /\ UNCHANGED <<out, txn>>

\* handle_response answers a challenge with a new INVITE, or fails the leg.
LEMMA ChallengedCases ==
  ASSUME Challenged
  PROVE  /\ Handling("401") /\ UNCHANGED <<bye, acked, ended>>
         /\ Resent \/ Unanswered
  BY Zenon DEF Challenged, FailLeg, Resent, Unanswered

\* A provisional response makes the session Early, and a 180 its dialog.
LEMMA ProvisionalCases ==
  ASSUME TypeOK, Provisional
  PROVE  /\ con.pc = "handle" /\ con' = Idle /\ con.msg.code \in {"100", "180"}
         /\ \/ con.msg.code = "180"
               /\ cs' = [cs EXCEPT !.sess = "Early", !.dlg = IF @ = 0 THEN cs.seq ELSE @]
            \/ con.msg.code = "100" /\ cs' = [cs EXCEPT !.sess = "Early"]
         /\ chan' \in Channels /\ chan'.state \in {"Ringing", chan.state}
         /\ UNCHANGED <<owner, held, lock, events, txn, bye, reap, net, out, uas, acked, ended>>
  <1>1. PICK code \in {"100", "180"} :
          /\ Handling(code)
          /\ cs' = [cs EXCEPT !.sess = "Early",
                              !.dlg = IF @ = 0 /\ code = "180" THEN cs.seq ELSE @]
          /\ chan' \in {chan, set_state("Ringing")}
          /\ UNCHANGED <<held, txn, bye, out, acked, ended>>
    BY Zenon DEF Provisional
  <1>2. chan' \in Channels /\ chan'.state \in {"Ringing", chan.state}
    BY <1>1, Helpers, Zenon DEF TypeOK, Channels
  <1>3. CASE code = "180"
    BY <1>1, <1>2, <1>3, Zenon DEF Handling
  <1>4. CASE code = "100"
    <2>1. cs' = [cs EXCEPT !.sess = "Early"]
      BY <1>1, <1>4 DEF TypeOK
    <2> QED BY <1>1, <1>2, <1>4, <2>1, Zenon DEF Handling
  <1> QED BY <1>3, <1>4, Zenon

\* The types are kept; the bounds on the CSeqs come from Dialog.
LEMMA Typed ==
  ASSUME LegInv, [Next]_vars
  PROVE  TypeOK'
  <1> USE LegAssumption DEF LegInv
  <1>1. cs \in CallStates /\ con \in Consumers /\ chan \in Channels
    BY Zenon DEF TypeOK, CallStates, Consumers, Channels
  <1>2. ASSUME NEW s \in Seqs, GetsInvite(s) PROVE TypeOK'
    BY <1>2, SMTT(30)
    DEF TypeOK, Seqs, GetsInvite
  <1>3. ASSUME NEW s \in Seqs, NEW c \in Codes,
               NEW u \in {"trying", "early", "answered", "challenged", "redirected",
                          "failed"},
               Says(s, c, u)
        PROVE  TypeOK'
    <2>1. Response(c, s) \in Messages /\ net \in Seq(Messages)
      BY Made, Zenon DEF TypeOK
    <2>2. net' \in Seq(Messages)
      BY <1>3, <2>1, Appended, Zenon DEF Says
    <2>3. /\ uas' = [uas EXCEPT ![s] = u]
          /\ UNCHANGED <<owner, chan, held, cs, lock, con, events, txn, bye, reap, out,
                         acked, ended>>
      BY <1>3, Zenon DEF Says
    <2> QED BY <2>2, <2>3 DEF TypeOK
  <1>4. ASSUME NEW s \in Seqs, Proceeds(s) \/ Rings(s) \/ Redirects(s) PROVE TypeOK'
    BY <1>3, <1>4, Zenon DEF Proceeds, Rings, Redirects, Codes
  <1>5. ASSUME NEW s \in Seqs, Challenges(s) PROVE TypeOK'
    BY <1>3, <1>5, Zenon DEF Challenges, Codes
  <1>6. ASSUME NEW s \in Seqs, Answers(s) PROVE TypeOK'
    BY <1>3, <1>6, Zenon DEF Answers, Codes
  <1>7. ASSUME NEW s \in Seqs, Refuses(s) PROVE TypeOK'
    BY <1>3, <1>7, Zenon DEF Refuses, Codes
  <1>8. ASSUME NEW s \in Seqs, GetsCancel(s) PROVE TypeOK'
    <2>1. CASE uas[s] \in {"trying", "early"}
      <3>1. Response("4xx", s) \in Messages /\ net \in Seq(Messages)
        BY Made, Zenon DEF Codes, TypeOK
      <3>2. net' = Append(net, Response("4xx", s)) /\ uas' = [uas EXCEPT ![s] = "failed"]
        BY <1>8, <2>1, Zenon DEF GetsCancel
      <3>3. net' \in Seq(Messages)
        BY <3>1, <3>2, Appended, Zenon
      <3> QED BY <1>8, <3>2, <3>3 DEF TypeOK, GetsCancel
    <2>2. CASE uas[s] \notin {"trying", "early"}
      BY <1>8, <2>2 DEF TypeOK, GetsCancel
    <2> QED BY <2>1, <2>2, Zenon
  <1>9. ASSUME NEW s \in Seqs, GetsAck(s) PROVE TypeOK'
    BY <1>9, SMTT(30)
    DEF TypeOK, Seqs, GetsAck
  <1>10. ASSUME NEW s \in Seqs, HangsUp(s) PROVE TypeOK'
    <2>1. net' \in Seq(Messages)
      BY <1>10, Made, Appended, Zenon DEF HangsUp, TypeOK
    <2> QED BY <1>10, <2>1 DEF TypeOK, HangsUp
  <1>11. ASSUME NEW s \in Seqs, Repeats(s) PROVE TypeOK'
    BY <1>3, <1>11, Zenon DEF Repeats, Codes
  <1>12. ASSUME NEW s \in Seqs, TimerB(s) PROVE TypeOK'
    <2>1. events' \in Seq(Messages)
      BY <1>12, Made, Appended, Zenon DEF TimerB, TypeOK
    <2> QED BY <1>12, <2>1 DEF TimerB, TypeOK
  <1>13. ASSUME NEW i \in 1 .. MaxNet, NEW copied \in BOOLEAN, Arrive(i, copied)
        PROVE  TypeOK'
    <2>1. /\ net[i] \in Messages
          /\ Without(net, i) \in Seq(Messages)
          /\ Append(events, net[i]) \in Seq(Messages)
      BY <1>13, Removed, Appended, Zenon DEF TypeOK, Arrive
    <2>2. CASE net[i].kind = "response"
      BY <1>13, <2>1, <2>2, Kinds, SMTT(30) DEF TypeOK, Arrive, on_response, Codes
    <2>3. CASE net[i].kind # "response"
      BY <1>13, <2>1, <2>3, SMTT(30) DEF TypeOK, Arrive
    <2> QED BY <2>2, <2>3, Zenon
  <1>14. CASE GetsBye
    BY <1>14, Made, Appended, SMTT(30)
    DEF TypeOK, Seqs, GetsBye, Asked
  <1>15. CASE TimerF
    BY <1>15, Made, Appended
    DEF TypeOK, Seqs, TimerF, Codes, pending
  <1>16. CASE TakeResponse
    BY <1>16, Made, Shortened, SMTT(30)
    DEF TypeOK, Seqs, TakeResponse, Took, Idle, Released, Registries, Media
  <1>17. CASE MatchResponse
    <2>1. con' \in {Idle, [con EXCEPT !.pc = "handle"]} /\ held' \subseteq held
      BY <1>17, Zenon DEF MatchResponse
    <2>2. con' \in Consumers
      BY <2>1, <1>1, Helpers, Zenon DEF Consumers
    <2> QED BY <1>17, <2>1, <2>2 DEF TypeOK, MatchResponse, Consumers
  <1>18. CASE Challenged
    <2>1. con' \in Consumers /\ UNCHANGED <<owner, lock, events, reap, net, uas, bye, acked, ended>>
      BY <1>18, ChallengedCases, Helpers, Zenon DEF Handling
    <2>2. CASE Resent
      <3>1. /\ cs.seq + 1 \in Seqs /\ cs.seq + 1 \in 1 .. MaxAuthAttempts + 3
            /\ cs.tries + 1 \in 0 .. MaxAuthAttempts
        BY <2>2 DEF TypeOK, Dialog, Seqs, Resent
      <3>2. cs' \in CallStates
        BY <2>2, <3>1, <1>1, Zenon DEF CallStates, Resent, Retried
      <3>3. [m |-> "INVITE", seq |-> cs.seq + 1] \in
              [m : {"INVITE", "CANCEL", "ACK", "BYE"}, seq : 1 .. MaxAuthAttempts + 3]
        BY <3>1, Zenon
      <3>4. txn' \in [Seqs -> {"None", "Calling", "Proceeding", "Completed", "Terminated"}]
        BY <2>2, <3>1, ZenonT(40) DEF Resent, TypeOK
      <3> QED
        BY <2>2, <2>1, <3>2, <3>3, <3>4
        DEF TypeOK, Resent, CallStates, Consumers
    <2>3. CASE Unanswered
      <3>1. chan' \in Channels /\ held' \subseteq held
        BY <2>3, <1>1, Helpers, Zenon DEF Unanswered, FailLeg, Released
      <3>2. cs' \in CallStates
        <4>1. CASE cs' = cs
          BY <4>1, <1>1, Zenon
        <4>2. CASE cs.tries < MaxAuthAttempts /\ cs' = Retried
          <5>1. cs.seq + 1 \in Seqs /\ cs.tries + 1 \in 0 .. MaxAuthAttempts
            BY <4>2 DEF TypeOK, Dialog, Seqs
          <5> QED BY <4>2, <5>1, <1>1, Zenon DEF CallStates, Retried
        <4> QED BY <2>3, <4>1, <4>2, Zenon DEF Unanswered
      <3>3. UNCHANGED <<out, txn>>
        BY <2>3, Zenon DEF Unanswered
      <3> QED BY <2>1, <3>1, <3>2, <3>3 DEF TypeOK, Channels, CallStates, Consumers
    <2> QED BY <1>18, <2>2, <2>3, ChallengedCases, Zenon
  <1>19. CASE Provisional
    <2>1. cs' \in CallStates
      <3>1. \/ cs' = [cs EXCEPT !.sess = "Early", !.dlg = IF @ = 0 THEN cs.seq ELSE @]
            \/ cs' = [cs EXCEPT !.sess = "Early"]
        BY <1>19, ProvisionalCases, Zenon
      <3>2. cs.seq \in 0 .. MaxAuthAttempts + 3
        BY <1>1 DEF CallStates, Seqs
      <3> QED BY <1>1, <3>1, <3>2, Zenon DEF CallStates
    <2>2. /\ con' \in Consumers /\ chan' \in Channels
          /\ UNCHANGED <<owner, held, lock, events, txn, bye, reap, net, out, uas, acked, ended>>
      BY <1>19, Helpers, ProvisionalCases, Zenon
    <2> QED BY <2>1, <2>2 DEF TypeOK, CallStates, Consumers, Channels
  <1>20. CASE Answered
    <2>1. /\ con.msg \in Messages /\ con.msg.kind = "response" /\ con.msg.code = "200"
          /\ con.msg \in underway /\ owner # "release" /\ con.pc = "handle"
      BY <1>20, Zenon DEF Answered, Handling, Dialog, TypeOK, underway, taken
    <2>2. con.msg.seq \in Seqs /\ uas[con.msg.seq] \in Ans
      BY <2>1, Kinds, Zenon DEF Told, Justified
    <2>3. /\ cs.dlg \in {0, cs.seq, cs.seq + 1} /\ (cs.dlg = cs.seq + 1 => owner = "done" /\ acked)
          /\ uas[cs.seq] \in Ans
      BY <2>1, <2>2 DEF Dialog, Before, After, Ans, TypeOK, Seqs
    <2> DEFINE c == [cs EXCEPT !.sess = "Established", !.dlg = IF @ = 0 THEN cs.seq ELSE @]
    <2>4. /\ c \in CallStates /\ c.dlg \in cs.seq .. cs.seq + 1
          /\ c.dlg + 1 \in 2 .. MaxAuthAttempts + 3
      <3>1. cs.seq \in 1 .. MaxAuthAttempts + 1 /\ cs.dlg \in Nat
        BY <1>1 DEF CallStates, Seqs
      <3>2. c.dlg = IF cs.dlg = 0 THEN cs.seq ELSE cs.dlg
        BY <1>1, Zenon DEF CallStates
      <3>3. c.dlg \in cs.seq .. cs.seq + 1 /\ c.dlg + 1 \in 2 .. MaxAuthAttempts + 3
        BY <2>3, <3>1, <3>2
      <3>4. c \in CallStates
        <4>1. cs.seq \in 0 .. MaxAuthAttempts + 3
          BY <3>1
        <4> QED BY <1>1, <4>1, Zenon DEF CallStates
      <3> QED BY <3>3, <3>4, Zenon
    <2>5. cs' \in CallStates
      <3>1. cs' = c \/ cs' = ByeSent(c)
        BY <1>20, Zenon DEF Answered
      <3> HIDE DEF c
      <3>2. ByeSent(c) \in CallStates
        BY <2>4, Byes
      <3> QED BY <2>4, <3>1, <3>2, Zenon
    <2>6. out' \subseteq [m : {"INVITE", "CANCEL", "ACK", "BYE"}, seq : 1 .. MaxAuthAttempts + 3]
      <3>1. /\ [m |-> "ACK", seq |-> cs.seq] \in
                 [m : {"INVITE", "CANCEL", "ACK", "BYE"}, seq : 1 .. MaxAuthAttempts + 3]
            /\ [m |-> "BYE", seq |-> c.dlg + 1] \in
                 [m : {"INVITE", "CANCEL", "ACK", "BYE"}, seq : 1 .. MaxAuthAttempts + 3]
        BY <2>4, SMTT(30) DEF TypeOK, Seqs
      <3>2. out' \subseteq out \cup {[m |-> "ACK", seq |-> cs.seq], [m |-> "BYE", seq |-> c.dlg + 1]}
        BY <1>20, Zenon DEF Answered, SendBye
      <3> HIDE DEF c
      <3> QED BY <3>1, <3>2 DEF TypeOK
    <2>7. chan' \in Channels /\ held' \subseteq held
      BY <1>20, <1>1, Helpers, Zenon DEF Answered, Released
    <2>8. ended' \subseteq {"us", "callee"} /\ bye' \in {bye, "Trying"}
      BY <1>20, Zenon DEF Answered, SendBye, TypeOK
    <2> QED
      BY <1>20, <2>5, <2>6, <2>7, <2>8, Helpers
      DEF TypeOK, Answered, Handling, CallStates, Consumers, Channels
  <1>21. CASE Failed
    <2>1. cs' \in CallStates
      BY <1>21, <1>1, Zenon DEF Failed, FailLeg, CallStates
    <2>2. chan' \in Channels /\ held' \subseteq held
      BY <1>21, <1>1, Helpers, Zenon DEF Failed, FailLeg, Released
    <2> QED
      BY <1>21, <2>1, <2>2, Helpers, SMTT(30)
      DEF TypeOK, Failed, FailLeg, Handling, CallStates, Consumers, Channels
  <1>22. CASE TakeBye
    BY <1>22, Made, Shortened, SMTT(30)
    DEF TypeOK, Seqs, TakeBye, Took, Idle, Released, Registries, Media
  <1>23. CASE AcceptBye
    <2>1. con' \in Consumers
      BY <1>1, <1>23, Helpers, Zenon DEF AcceptBye, Consumers
    <2> QED BY <1>23, <2>1 DEF TypeOK, AcceptBye, Consumers
  <1>24. CASE FinishBye
    <2>1. chan' \in Channels /\ held' \subseteq held
      BY <1>24, <1>1, Helpers, Zenon DEF FinishBye, Released
    <2> QED BY <1>24, <2>1, Helpers, SMTT(30) DEF TypeOK, FinishBye, Channels, Consumers
  <1>25. CASE TakeTimer
    <2>1. chan' \in Channels /\ held' \subseteq held
      BY <1>25, <1>1, Helpers, Zenon DEF TakeTimer, Released
    <2> QED BY <1>25, <2>1, Shortened DEF TypeOK, TakeTimer, Took, Channels
  <1>26. CASE SendInvite
    <2>1. 1 \in Seqs /\ [m |-> "INVITE", seq |-> 1] \in
            [m : {"INVITE", "CANCEL", "ACK", "BYE"}, seq : 1 .. MaxAuthAttempts + 3]
      BY DEF Seqs
    <2>2. held' \subseteq Registries
      BY <1>26 DEF SendInvite, TypeOK
    <2>3. /\ out' \subseteq [m : {"INVITE", "CANCEL", "ACK", "BYE"},
                             seq : 1 .. MaxAuthAttempts + 3]
          /\ txn' \in [Seqs -> {"None", "Calling", "Proceeding", "Completed", "Terminated"}]
      BY <1>26, <2>1 DEF SendInvite, TypeOK
    <2> QED BY <1>26, <2>2, <2>3 DEF SendInvite, TypeOK, Quiet, OwnerStates
  <1>27. CASE RegisterCallId
    BY <1>27
    DEF TypeOK, Seqs, RegisterCallId, Register, Quiet, OwnerStates, Registries
  <1>28. CASE RegisterSession
    BY <1>28
    DEF TypeOK, Seqs, RegisterSession, Register, Quiet, OwnerStates,
        Registries
  <1>29. CASE RegisterNotify
    BY <1>29
    DEF TypeOK, Seqs, RegisterNotify, Register, Quiet, OwnerStates, Registries
  <1>30. CASE SyncState
    <2>1. chan' \in Channels
      BY <1>30, <1>1, Helpers, Zenon DEF SyncState, Channels
    <2> QED BY <1>30, <2>1 DEF TypeOK, SyncState, Quiet, OwnerStates, Channels
  <1>31. CASE SeesAnswer
    BY <1>31
    DEF TypeOK, Seqs, SeesAnswer, Waits, Quiet, OwnerStates, Registries
  <1>32. CASE SeesRefusal
    BY <1>32
    DEF TypeOK, Seqs, SeesRefusal, Waits, Quiet, OwnerStates, Registries
  <1>33. CASE GivesUp
    BY <1>33
    DEF TypeOK, Seqs, GivesUp, Waits, Quiet, OwnerStates, Registries
  <1>34. CASE BridgeEnds
    BY <1>34
    DEF TypeOK, Seqs, BridgeEnds, Quiet, OwnerStates, Registries
  <1>35. CASE Lookup
    <2>1. held' \subseteq held /\ owner' \in {"cancel", "sendbye", "done"}
      BY <1>35, Zenon DEF Lookup, Released
    <2> QED BY <1>35, <2>1 DEF TypeOK, Lookup, Quiet, OwnerStates
  <1>36. CASE Cancel
    <2> DEFINE c == [cs EXCEPT !.abandoned = TRUE]
    <2>1. /\ cs.sess = "Established" => cs.dlg \in cs.seq .. cs.seq + 1
          /\ cs.seq \in 1 .. MaxAuthAttempts + 1
      BY <1>36, SMTT(30) DEF Cancel, Dialog, Before, After, TypeOK, Seqs
    <2>2. c \in CallStates /\ c.dlg = cs.dlg
      BY <1>1, Zenon DEF CallStates
    <2>3. cs' \in CallStates
      <3>1. /\ cs.sess # "Established" => cs' = c
            /\ cs.sess = "Established" => cs' = ByeSent(c)
        BY <1>36, Zenon DEF Cancel
      <3> HIDE DEF c
      <3>2. cs.sess = "Established" => ByeSent(c) \in CallStates
        BY <2>1, <2>2, Byes
      <3> QED BY <2>2, <3>1, <3>2, Zenon
    <2>4. out' \subseteq [m : {"INVITE", "CANCEL", "ACK", "BYE"}, seq : 1 .. MaxAuthAttempts + 3]
      BY <1>36, <2>1, <2>2, SMTT(30) DEF Cancel, SendBye, TypeOK, Seqs
    <2> QED BY <1>36, <2>3, <2>4
            DEF TypeOK, Cancel, Quiet, SendBye, CallStates, OwnerStates
  <1>37. CASE Preserve
    BY <1>37
    DEF TypeOK, Seqs, Preserve, Quiet, Released, Media, Registries,
        OwnerStates
  <1>38. CASE Release
    BY <1>38
    DEF TypeOK, Seqs, Release, Quiet, Released, Registries, Media, OwnerStates
  <1>39. CASE EndCall
    <2>1. acked /\ cs.dlg \in cs.seq .. cs.seq + 1 /\ cs.seq \in 1 .. MaxAuthAttempts + 1
      BY <1>39, SMTT(30) DEF EndCall, Dialog, Before, After, TypeOK, Seqs
    <2>2. cs' \in CallStates
      <3>1. cs' = ByeSent(cs)
        BY <1>39, <2>1 DEF EndCall
      <3> QED BY <1>1, <2>1, <3>1, Byes
    <2>3. out' \subseteq [m : {"INVITE", "CANCEL", "ACK", "BYE"}, seq : 1 .. MaxAuthAttempts + 3]
      BY <1>39, <2>1 DEF EndCall, SendBye, TypeOK, Seqs
    <2>4. held' \subseteq held /\ reap' \in {reap, 1 .. cs.seq}
      BY <1>39, <2>1, Zenon DEF EndCall, Released
    <2>5. bye' = "Trying" /\ ended' = ended \cup {"us"}
      <3>1. cs.dlg # 0
        BY <2>1
      <3> QED BY <1>39, <3>1, Zenon DEF EndCall, SendBye
    <2>6. 1 .. cs.seq \subseteq Seqs
      BY <2>1 DEF Seqs
    <2> QED
      BY <1>39, <2>2, <2>3, <2>4, <2>5, <2>6, ZenonT(40)
      DEF TypeOK, EndCall, Quiet, CallStates, OwnerStates
  <1>40. CASE Reap
    BY <1>40, SMTT(30)
    DEF TypeOK, Seqs, Reap
  <1>41. CASE UNCHANGED vars
    BY <1>41, SMTT(30)
    DEF TypeOK, Seqs, vars
  <1> QED
    BY <1>2, <1>4, <1>5, <1>6, <1>7, <1>8, <1>9, <1>10, <1>11, <1>12, <1>13,
        <1>14, <1>15, <1>16, <1>17, <1>18, <1>19, <1>20, <1>21, <1>22, <1>23,
        <1>24, <1>25, <1>26, <1>27, <1>28, <1>29, <1>30, <1>31, <1>32, <1>33,
        <1>34, <1>35, <1>36, <1>37, <1>38, <1>39, <1>40, <1>41, ZenonT(60)
    DEF Next, Callee, Stack, Consumer, OwnerTask

\* What the callee has said and who has ended the call is never taken back, and
\* the owner does not call again.
Onward ==
  /\ \A s \in Seqs :
       /\ uas[s] # "none" => uas'[s] # "none"
       /\ uas[s] \notin {"none", "trying"} => uas'[s] \notin {"none", "trying"}
       /\ uas[s] \in {"challenged", "redirected", "failed"} => uas'[s] = uas[s]
       /\ uas[s] \in Ans => uas'[s] \in Ans
  /\ ended \subseteq ended'
  /\ owner \notin Calling \cup {"new"} => owner' \notin Calling \cup {"new"}

\* Every step of the code, the callee or the network only moves on.
LEMMA Advances ==
  ASSUME LegInv, [Next]_vars
  PROVE  Onward
  <1> USE DEF LegInv
  <1>1. uas \in [Seqs -> {"none", "trying", "early", "challenged", "redirected",
                          "failed", "answered", "acked", "over"}]
    BY Zenon DEF TypeOK
  <1>2. ASSUME NEW s \in Seqs, NEW code, NEW state, Says(s, code, state),
               \/ uas[s] \in {"trying", "early"} /\ state \notin {"none", "trying"}
               \/ state = uas[s] /\ state \in {"trying", "answered"}
        PROVE  Onward
    BY <1>1, <1>2, Zenon DEF Says, Onward, Ans
  <1>3. ASSUME NEW s \in Seqs, GetsInvite(s)
        PROVE  Onward
    BY <1>1, <1>3, Zenon DEF GetsInvite, Asked, Onward, Ans
  <1>4. ASSUME NEW s \in Seqs, Proceeds(s) \/ Rings(s) \/ Challenges(s)
               \/ Answers(s) \/ Redirects(s) \/ Repeats(s)
        PROVE  Onward
    BY <1>2, <1>4, Zenon DEF Proceeds, Rings, Challenges, Answers, Redirects, Repeats
  <1>5. ASSUME NEW s \in Seqs, Refuses(s)
        PROVE  Onward
    BY <1>2, <1>5, Zenon DEF Refuses
  <1>6. ASSUME NEW s \in Seqs, GetsCancel(s)
        PROVE  Onward
    BY <1>1, <1>6, Zenon DEF GetsCancel, Onward, Ans
  <1>7. ASSUME NEW s \in Seqs, GetsAck(s) \/ HangsUp(s)
        PROVE  Onward
    BY <1>1, <1>7 DEF GetsAck, HangsUp, Onward, Ans
  <1>8. CASE GetsBye
    BY <1>1, <1>8, Zenon DEF GetsBye, Onward, Ans
  <1>9. CASE Stack \/ Consumer \/ Reap \/ UNCHANGED vars
    <2>1. UNCHANGED <<uas, owner>> /\ ended \subseteq ended'
      BY <1>9, Zenon
      DEF Stack, Arrive, TimerB, TimerF, Consumer, TakeResponse, MatchResponse,
          Handling, Challenged, FailLeg, Provisional, Answered, Failed, TakeBye, AcceptBye,
          FinishBye, TakeTimer, Reap, SendBye, vars
    <2> QED BY <2>1, ZenonT(40) DEF Onward
  <1>10. CASE OwnerTask
    <2>1. UNCHANGED uas /\ ended \subseteq ended'
      BY <1>10, Zenon
      DEF OwnerTask, Quiet, SendInvite, Register, RegisterCallId, RegisterSession,
          RegisterNotify, SyncState, Waits, SeesAnswer, SeesRefusal, GivesUp,
          BridgeEnds, Lookup, Cancel, Preserve, Release, EndCall, SendBye
    <2>2. owner \notin Calling \cup {"new"} => owner' \notin Calling \cup {"new"}
      BY <1>10, Zenon
      DEF OwnerTask, Calling, SendInvite, Register, RegisterCallId, RegisterSession,
          RegisterNotify, SyncState, Waits, SeesAnswer, SeesRefusal, GivesUp,
          BridgeEnds, Lookup, Cancel, Preserve, Release, EndCall
    <2> QED BY <2>1, <2>2, Zenon DEF Onward
  <1> QED
    BY <1>3, <1>4, <1>5, <1>6, <1>7, <1>8, <1>9, <1>10, Zenon DEF Next, Callee

\* What a message says of its sender stays true.
LEMMA StillJustified ==
  ASSUME TypeOK, Onward, NEW m \in Messages, Justified(m)
  PROVE  Justified(m)'
  BY Kinds, Zenon DEF Justified, Onward, Codes, Ans

\* What is under way are messages.
LEMMA UnderwayTyped == TypeOK => underway \subseteq Messages
  BY DEF TypeOK, underway, taken, Elems

-----------------------------------------------------------------------------
(* Sent and asked.                                                          *)

\* A message that a step puts under way is justified by that step, and a 180 by a
\* callee that rings.
LEMMA Fresh ==
  ASSUME LegInv, [Next]_vars, NEW m \in underway', m \notin underway
  PROVE  /\ Justified(m)'
         /\ m.kind = "response" /\ m.code = "180" => uas'[m.seq] = "early"
  <1> USE DEF LegInv
  <1> DEFINE Said == /\ Justified(m)'
                     /\ m.kind = "response" /\ m.code = "180" => uas'[m.seq] = "early"
  <1>1. ASSUME NEW s \in Seqs, NEW code \in Codes, NEW state, Says(s, code, state)
        PROVE  m = Response(code, s) /\ uas'[s] = state
    <2>1. Elems(net') = Elems(net) \cup {Response(code, s)}
      BY <1>1, Made, Appended DEF Says, TypeOK
    <2> QED BY <1>1, <2>1, ZenonT(40) DEF Says, TypeOK, underway, taken
  <1>2. ASSUME NEW s \in Seqs, GetsInvite(s) \/ GetsAck(s)
        PROVE  FALSE
    BY <1>2, Zenon DEF GetsInvite, GetsAck, underway, taken
  <1>3. ASSUME NEW s \in Seqs, Proceeds(s) \/ Rings(s) \/ Challenges(s)
               \/ Answers(s) \/ Redirects(s) \/ Repeats(s)
        PROVE  Said
    <2>1. \/ m = Response("100", s) /\ uas'[s] = "trying"
          \/ m = Response("180", s) /\ uas'[s] = "early"
          \/ m = Response("3xx", s) /\ uas'[s] = "redirected"
          \/ m = Response("401", s) /\ uas'[s] = "challenged"
          \/ m = Response("200", s) /\ uas'[s] = "answered"
      BY <1>1, <1>3, Zenon DEF Proceeds, Rings, Challenges, Answers, Redirects, Repeats, Codes
    <2> QED BY <2>1, Made DEF Justified, Codes, Ans
  <1>4. ASSUME NEW s \in Seqs, Refuses(s)
        PROVE  Said
    <2>1. PICK code \in {"486", "4xx"} : m = Response(code, s) /\ uas'[s] = "failed"
      BY <1>1, <1>4, Zenon DEF Refuses, Codes
    <2> QED BY <2>1, Made DEF Justified, Codes
  <1>5. ASSUME NEW s \in Seqs, GetsCancel(s)
        PROVE  Said
    <2>1. Elems(net') = Elems(net) \cup {Response("4xx", s)} /\ uas'[s] = "failed"
      <3>1. uas[s] \in {"trying", "early"}
        BY <1>5, Zenon DEF GetsCancel, underway, taken
      <3>2. Response("4xx", s) \in Messages /\ net \in Seq(Messages)
        BY Made, Zenon DEF TypeOK, Codes
      <3>3. net' = Append(net, Response("4xx", s)) /\ uas'[s] = "failed"
        BY <1>5, <3>1 DEF GetsCancel, TypeOK
      <3> QED BY <3>2, <3>3, Appended, Zenon
    <2>2. m = Response("4xx", s)
      BY <1>5, <2>1, Zenon DEF GetsCancel, underway, taken
    <2> QED BY <2>1, <2>2, Made DEF Justified, Codes
  <1>6. ASSUME NEW s \in Seqs, HangsUp(s)
        PROVE  Said
    <2>1. Elems(net') = Elems(net) \cup {Request} /\ "callee" \in ended'
      BY <1>6, Made, Appended DEF HangsUp, TypeOK
    <2>2. m = Request
      BY <1>6, <2>1, ZenonT(60) DEF HangsUp, underway, taken
    <2> QED BY <2>1, <2>2, Made, ZenonT(60) DEF Justified
  <1>7. CASE GetsBye
    <2>1. PICK r \in out : r.m = "BYE" /\ net' = Append(net, ByeResponse(r.seq))
      BY <1>7, Zenon DEF GetsBye
    <2>2. r.seq \in 2 .. MaxAuthAttempts + 3 /\ "us" \in ended
      BY <2>1, SMTT(30) DEF Asked, TypeOK
    <2>3. Elems(net') = Elems(net) \cup {ByeResponse(r.seq)}
      BY <2>1, <2>2, Made, Appended DEF TypeOK
    <2>4. m = ByeResponse(r.seq) /\ ended' = ended
      BY <1>7, <2>3, Zenon DEF GetsBye, underway, taken
    <2> QED BY <2>2, <2>4, Made, Zenon DEF Justified
  <1>8. ASSUME NEW i \in 1 .. MaxNet, NEW copied \in BOOLEAN, Arrive(i, copied)
        PROVE  FALSE
    <2>1. /\ net[i] \in Messages /\ net[i] \in Elems(net)
          /\ Elems(Without(net, i)) \subseteq Elems(net)
      BY <1>8, Removed, ZenonT(60) DEF Arrive, TypeOK
    <2>2. Elems(events') = Elems(events) \cup {net[i]}
      BY <1>8, <2>1, Appended DEF Arrive, TypeOK
    <2> QED BY <1>8, <2>1, <2>2, Zenon DEF Arrive, underway, taken
  <1>9. ASSUME NEW t \in {"B", "F"}, events' = Append(events, Timer(t)), UNCHANGED <<net, con>>
         PROVE  m = Timer(t)
    <2>1. Elems(events') = Elems(events) \cup {Timer(t)}
      BY <1>9, Made, Appended, SMTT(30) DEF TypeOK
    <2> QED BY <1>9, <2>1, Zenon DEF underway, taken
  <1>10. ASSUME NEW s \in Seqs, TimerB(s)
         PROVE  Said
    <2>1. m = Timer("B") /\ owner' \notin Calling /\ owner' = owner
      BY <1>9, <1>10, Zenon DEF TimerB
    <2>2. owner # "new"
      BY <1>10, Zenon DEF TimerB, Asked
    <2> QED BY <2>1, <2>2, Made, Zenon DEF Justified
  <1>11. CASE TimerF
    <2>1. m = Timer("F") /\ "us" \in ended'
      BY <1>9, <1>11, Zenon DEF TimerF, Asked
    <2> QED BY <2>1, Made, Zenon DEF Justified
  <1>12. CASE TakeResponse \/ TakeBye \/ TakeTimer
    <2>1. Elems(events') \subseteq Elems(events) /\ Head(events) \in Elems(events)
      BY <1>12, Shortened, ZenonT(60) DEF TakeResponse, TakeBye, TakeTimer, Took, TypeOK
    <2>2. net' = net /\ taken' \subseteq {Head(events)}
      BY <1>12, Helpers, SMTT(30) DEF TakeResponse, TakeBye, TakeTimer, taken
    <2> QED BY <2>1, <2>2, Zenon DEF underway
  <1>13. CASE MatchResponse \/ Challenged \/ Provisional \/ Answered \/ Failed
              \/ AcceptBye \/ FinishBye
    <2>1. UNCHANGED <<net, events>> /\ con.pc # "idle"
      BY <1>13, Zenon
      DEF MatchResponse, Handling, Challenged, FailLeg, Provisional, Answered, Failed, AcceptBye,
          FinishBye
    <2>2. con' = Idle \/ con'.msg = con.msg
      BY <1>13
      DEF MatchResponse, Handling, Challenged, FailLeg, Provisional, Answered, Failed, AcceptBye,
          FinishBye, TypeOK
    <2> QED BY <2>1, <2>2, Helpers, Zenon DEF underway, taken
  <1>14. CASE OwnerTask \/ Reap \/ UNCHANGED vars
    <2>1. UNCHANGED <<net, events, con>>
      BY <1>14, Zenon
      DEF OwnerTask, Quiet, SendInvite, Register, RegisterCallId, RegisterSession,
          RegisterNotify, SyncState, Waits, SeesAnswer, SeesRefusal, GivesUp,
          BridgeEnds, Lookup, Cancel, Preserve, Release, EndCall, Reap, vars
    <2> QED BY <2>1, Zenon DEF underway, taken
  <1> QED
    BY <1>2, <1>3, <1>4, <1>5, <1>6, <1>7, <1>8, <1>10, <1>11, <1>12, <1>13, <1>14, Zenon
    DEF Next, Callee, Stack, Consumer

\* No handler, timer or delivery makes a message under way tell a lie.
LEMMA ToldKept ==
  ASSUME LegInv, [Next]_vars
  PROVE  Told'
  <1>1. ASSUME NEW m \in underway
        PROVE  Justified(m)'
    BY Advances, StillJustified, UnderwayTyped, Zenon DEF LegInv, Told
  <1> QED BY <1>1, Fresh, Zenon DEF Told

\* Requests are sent, and answered, once.
LEMMA AskedKept ==
  ASSUME LegInv, [Next]_vars
  PROVE  Asked'
  <1> USE LegAssumption DEF LegInv
  <1>1. cs \in CallStates /\ con \in Consumers /\ chan \in Channels
    BY DEF TypeOK, CallStates, Consumers, Channels
  <1>2. ASSUME NEW s \in Seqs, GetsInvite(s) PROVE Asked'
    BY <1>2, SMTT(30) DEF GetsInvite, Asked, TypeOK, pending
  <1>3. ASSUME NEW s \in Seqs, NEW c, NEW u, uas[s] # "none", u # "none", Says(s, c, u)
        PROVE  Asked'
    BY <1>3, SMTT(30) DEF Asked, TypeOK, pending, Says
  <1>4. ASSUME NEW s \in Seqs, Proceeds(s) \/ Rings(s) \/ Redirects(s) PROVE Asked'
    BY <1>3, <1>4, Zenon DEF Proceeds, Rings, Redirects
  <1>5. ASSUME NEW s \in Seqs, Challenges(s) \/ Answers(s) PROVE Asked'
    BY <1>3, <1>5, Zenon DEF Challenges, Answers
  <1>6. ASSUME NEW s \in Seqs, Refuses(s) PROVE Asked'
    BY <1>3, <1>6, Zenon DEF Refuses
  <1>7. ASSUME NEW s \in Seqs, GetsCancel(s) PROVE Asked'
    BY <1>7, SMTT(30)
    DEF Asked, TypeOK, pending, GetsCancel
  <1>8. ASSUME NEW s \in Seqs, GetsAck(s) PROVE Asked'
    BY <1>8, SMTT(30)
    DEF Asked, TypeOK, pending, GetsAck
  <1>9. ASSUME NEW s \in Seqs, HangsUp(s) PROVE Asked'
    BY <1>9, SMTT(30)
    DEF Asked, TypeOK, pending, HangsUp
  <1>10. ASSUME NEW s \in Seqs, Repeats(s) PROVE Asked'
    BY <1>10
    DEF Asked, TypeOK, pending, Repeats, Says
  <1>11. ASSUME NEW s \in Seqs, TimerB(s) PROVE Asked'
    BY <1>11, ZenonT(40)
    DEF Asked, TypeOK, pending, TimerB
  <1>12. ASSUME NEW i \in 1 .. MaxNet, NEW copied \in BOOLEAN, Arrive(i, copied)
        PROVE  Asked'
    <2>1. owner = "new" => pending' = {}
      BY <1>12, SMTT(30) DEF Arrive, Asked, TypeOK, pending, on_response
    <2>2. bye' # "None" => bye # "None"
      BY <1>12, Zenon DEF Arrive
    <2> QED BY <1>12, <2>1, <2>2, Zenon DEF Arrive, Asked
  <1>13. CASE GetsBye
    BY <1>13
    DEF Asked, TypeOK, pending, GetsBye
  <1>14. CASE TimerF
    BY <1>14, ZenonT(40)
    DEF Asked, TypeOK, pending, TimerF
  <1>15. CASE TakeResponse
    BY <1>15
    DEF Asked, TypeOK, pending, TakeResponse, Took, Idle
  <1>16. CASE MatchResponse
    BY <1>16, SMTT(30)
    DEF Asked, TypeOK, pending, MatchResponse, response_matches_dialog, Idle
  <1>17. CASE Challenged
    <2>1. UNCHANGED <<uas, owner, ended, bye>> /\ owner # "new"
      BY <1>17, ChallengedCases, Zenon DEF Handling, Dialog
    <2>2. CASE Resent
      <3>1. cs'.seq = cs.seq + 1 /\ cs.seq \in Nat
        BY <2>2, <1>1 DEF Resent, Retried, CallStates, Seqs
      <3>2. out' = out \cup {[m |-> "INVITE", seq |-> cs.seq + 1]}
        BY <2>2, Zenon DEF Resent
      <3>3. cs.seq + 1 \in Seqs => uas[cs.seq + 1] = "none"
        <4>1. ~ (cs.seq + 1 <= cs.seq)
          BY <3>1
        <4> QED BY <4>1, Zenon DEF Asked
      <3>4. ASSUME NEW s \in Seqs PROVE (uas[s] # "none" => s <= cs.seq + 1)
              /\ ([m |-> "INVITE", seq |-> s] \in out' => uas[s] = "none" /\ s <= cs.seq + 1)
        BY <3>1, <3>2, <3>3 DEF Asked, Seqs
      <3> QED BY <2>1, <3>1, <3>2, <3>4 DEF Asked
    <2>3. CASE Unanswered
      <3>1. cs'.seq \in {cs.seq, cs.seq + 1} /\ cs.seq \in Nat
        <4>1. cs.seq \in Nat /\ Retried.seq = cs.seq + 1
          BY <1>1 DEF Retried, CallStates, Seqs
        <4> QED BY <2>3, <4>1, Zenon DEF Unanswered
      <3>2. \A s \in Seqs : s \in Nat /\ (s <= cs.seq => s <= cs'.seq)
        BY <3>1 DEF Seqs
      <3>3. UNCHANGED out
        BY <2>3, Zenon DEF Unanswered
      <3> QED BY <2>1, <3>2, <3>3, Zenon DEF Asked
    <2> QED BY <1>17, <2>2, <2>3, ChallengedCases, Zenon
  <1>18. CASE Provisional
    <2>1. cs'.seq = cs.seq /\ UNCHANGED <<uas, owner, ended, bye, out, txn>>
      BY <1>18, <1>1, ProvisionalCases, Zenon DEF CallStates
    <2> QED BY <2>1, Zenon DEF Asked, pending
  <1>19. CASE Answered
    <2>1. /\ \A r \in out' : \/ r \in out \/ r = [m |-> "ACK", seq |-> cs.seq]
                             \/ r.m = "BYE" /\ r.seq >= 2 /\ "us" \in ended'
      <3> DEFINE c == [cs EXCEPT !.sess = "Established", !.dlg = IF @ = 0 THEN cs.seq ELSE @]
      <3>1. c.dlg \in Nat /\ c.dlg + 1 >= 2
        BY <1>1 DEF CallStates, Seqs
      <3>2. \/ out' = out \cup {[m |-> "ACK", seq |-> cs.seq]}
            \/ /\ out' = out \cup {[m |-> "ACK", seq |-> cs.seq]}
                             \cup {[m |-> "BYE", seq |-> c.dlg + 1]}
               /\ "us" \in ended'
        BY <1>19, Zenon DEF Answered, SendBye
      <3> HIDE DEF c
      <3> QED BY <3>1, <3>2
    <2>2. ended \subseteq ended' /\ (bye' # bye => "us" \in ended') /\ UNCHANGED <<uas, owner>>
      BY <1>19, Zenon DEF Answered, SendBye, Handling
    <2>3. cs'.seq = cs.seq
      BY <1>19, <1>1, Byes, ZenonT(40) DEF Answered, ByeSent, CallStates
    <2>4. owner # "new"
      BY <1>19, Zenon DEF Answered, Handling, Dialog
    <2> QED BY <2>1, <2>2, <2>3, <2>4, SMTT(30) DEF Asked
  <1>20. CASE Failed
    <2>1. cs'.seq = cs.seq /\ UNCHANGED <<uas, owner, ended, bye, out, txn>>
      BY <1>20, <1>1, Zenon DEF Failed, FailLeg, Handling, CallStates
    <2> QED BY <2>1 DEF Asked, pending
  <1>21. CASE TakeBye
    BY <1>21
    DEF Asked, TypeOK, pending, TakeBye, Took, Idle
  <1>22. CASE AcceptBye
    BY <1>22
    DEF Asked, TypeOK, pending, AcceptBye, Idle
  <1>23. CASE FinishBye
    BY <1>23
    DEF Asked, TypeOK, pending, FinishBye, softhangup, Released, Idle
  <1>24. CASE TakeTimer
    BY <1>24, SMTT(30)
    DEF Asked, TypeOK, pending, TakeTimer, Took, softhangup, Released
  <1>25. CASE SendInvite
    <2>1. 1 \in Seqs /\ cs.seq >= 1
      BY SMTT(30) DEF TypeOK, Seqs
    <2> QED BY <1>25, <2>1 DEF SendInvite, Quiet, Asked, TypeOK
  <1>26. CASE RegisterCallId
    BY <1>26, Zenon
    DEF Asked, TypeOK, pending, RegisterCallId, Register, Quiet
  <1>27. CASE RegisterSession
    BY <1>27, Zenon
    DEF Asked, TypeOK, pending, RegisterSession, Register, Quiet
  <1>28. CASE RegisterNotify
    BY <1>28, Zenon
    DEF Asked, TypeOK, pending, RegisterNotify, Register, Quiet
  <1>29. CASE SyncState
    BY <1>29, Zenon
    DEF Asked, TypeOK, pending, SyncState, Quiet, set_state
  <1>30. CASE SeesAnswer
    BY <1>30, Zenon
    DEF Asked, TypeOK, pending, SeesAnswer, Waits, Quiet
  <1>31. CASE SeesRefusal
    BY <1>31, Zenon
    DEF Asked, TypeOK, pending, SeesRefusal, Waits, Quiet
  <1>32. CASE GivesUp
    BY <1>32, Zenon
    DEF Asked, TypeOK, pending, GivesUp, Waits, Quiet
  <1>33. CASE BridgeEnds
    BY <1>33, Zenon
    DEF Asked, TypeOK, pending, BridgeEnds, Quiet
  <1>34. CASE Lookup
    BY <1>34, ZenonT(40)
    DEF Asked, TypeOK, pending, Lookup, Quiet, Released
  <1>35. CASE Cancel
    <2>1. cs'.seq = cs.seq /\ ended \subseteq ended' /\ uas' = uas /\ owner' # "new"
          /\ (bye' # bye => "us" \in ended')
      BY <1>35, <1>1, Zenon DEF Cancel, ByeSent, CallStates, SendBye, Quiet
    <2>2. \A r \in out' : \/ r \in out \/ r = [m |-> "CANCEL", seq |-> cs.seq]
                          \/ r.m = "BYE" /\ r.seq >= 2 /\ "us" \in ended'
      <3>1. cs.sess = "Established" => cs.dlg + 1 >= 2 /\ cs.dlg \in Nat
        BY <1>1 DEF Dialog, Before, After, CallStates, Seqs
      <3>2. [cs EXCEPT !.abandoned = TRUE].dlg = cs.dlg
        BY <1>1, Zenon DEF CallStates
      <3> QED BY <1>35, <3>1, <3>2, SMTT(30) DEF Cancel, SendBye
    <2> QED BY <2>1, <2>2 DEF Asked
  <1>36. CASE Preserve
    BY <1>36, Zenon
    DEF Asked, TypeOK, pending, Preserve, Quiet, Released, Media
  <1>37. CASE Release
    BY <1>37, Zenon
    DEF Asked, TypeOK, pending, Release, Quiet, Released
  <1>38. CASE EndCall
    <2>1. cs'.seq = cs.seq /\ ended \subseteq ended' /\ uas' = uas /\ owner' # "new"
          /\ (bye' # bye => "us" \in ended')
      BY <1>38, <1>1, Zenon DEF EndCall, ByeSent, CallStates, SendBye, Quiet
    <2>2. \A r \in out' : r \in out \/ (r.m = "BYE" /\ r.seq >= 2 /\ "us" \in ended')
      <3>1. cs.dlg \in Nat /\ (cs.dlg # 0 => cs.dlg + 1 >= 2)
        BY <1>1 DEF CallStates
      <3>2. \/ out' = out
            \/ cs.dlg # 0 /\ out' = out \cup {[m |-> "BYE", seq |-> cs.dlg + 1]} /\ "us" \in ended'
        BY <1>38, Zenon DEF EndCall, SendBye
      <3>3. ASSUME NEW r \in out', r \notin out
            PROVE  r.m = "BYE" /\ r.seq >= 2 /\ "us" \in ended'
        <4>1. r = [m |-> "BYE", seq |-> cs.dlg + 1] /\ cs.dlg # 0 /\ "us" \in ended'
          BY <3>2, <3>3, Zenon
        <4>2. r.m = "BYE" /\ r.seq = cs.dlg + 1
          BY <4>1, Zenon
        <4> QED BY <3>1, <4>1, <4>2, Zenon
      <3> QED BY <3>3, Zenon
    <2> QED BY <2>1, <2>2, Zenon DEF Asked
  <1>39. CASE Reap
    BY <1>39, ZenonT(40)
    DEF Asked, TypeOK, pending, Reap
  <1>40. CASE UNCHANGED vars
    BY <1>40, ZenonT(40)
    DEF Asked, TypeOK, pending, vars
  <1> QED
    BY <1>2, <1>3, <1>4, <1>5, <1>6, <1>7, <1>8, <1>9, <1>10, <1>11, <1>12,
        <1>13, <1>14, <1>15, <1>16, <1>17, <1>18, <1>19, <1>20, <1>21, <1>22,
        <1>23, <1>24, <1>25, <1>26, <1>27, <1>28, <1>29, <1>30, <1>31, <1>32,
        <1>33, <1>34, <1>35, <1>36, <1>37, <1>38, <1>39, <1>40, ZenonT(60)
    DEF Next, Callee, Stack, Consumer, OwnerTask

\* While a response to the INVITE is being handled, it answers an INVITE that
\* was sent, and what it says was said.
LEMMA InHand ==
  ASSUME LegInv, con.pc \in {"match", "handle"}, con.msg.kind = "response"
  PROVE  /\ con.msg.code \in Codes /\ con.msg.seq \in Seqs
         /\ con.msg.seq <= cs.seq
         /\ Justified(con.msg)
         /\ con.msg \in underway
  <1>1. con.msg \in Messages /\ con.msg \in underway
    BY Zenon DEF LegInv, TypeOK, underway, taken
  <1>2. con.msg.code \in Codes /\ con.msg.seq \in Seqs /\ Justified(con.msg)
    BY <1>1, Kinds, Zenon DEF LegInv, Told
  <1>3. uas[con.msg.seq] # "none"
    BY <1>2, Zenon DEF Justified, Codes, Ans
  <1> QED BY <1>1, <1>2, <1>3, Zenon DEF LegInv, Asked

\* After the acknowledgement only a 180 or a 200 is handled.
LEMMA NoFailure ==
  ASSUME LegInv, con.pc = "handle", con.msg.code \in {"100", "3xx", "401", "486", "4xx"}
  PROVE  ~ acked
  <1>1. /\ con.msg.kind = "response"
        /\ acked => con.msg.seq = cs.seq /\ uas[cs.seq] \in Ans /\ con.msg.code # "100"
    BY Zenon DEF LegInv, Dialog, After
  <1>2. Justified(con.msg)
    BY <1>1, InHand, Zenon
  <1> QED BY <1>1, <1>2, Zenon DEF Justified, Ans

\* handle_response and the owner's ways to end a leg keep the dialog of the
\* last INVITE, and one BYE each.
LEMMA DialogKept ==
  ASSUME LegInv, [Next]_vars
  PROVE  Dialog'
  <1> USE LegAssumption DEF LegInv
  <1>1. /\ cs \in CallStates /\ con \in Consumers /\ chan \in Channels
        /\ cs.seq \in Seqs /\ cs.seq \in Nat /\ cs.dlg \in Nat
    BY DEF TypeOK, CallStates, Consumers, Channels, Seqs
  <1>2. Onward
    BY Advances, Zenon
  <1>3. /\ uas[cs.seq] \in Ans => uas'[cs.seq] \in Ans
        /\ cs.dlg # 0 /\ cs.dlg <= cs.seq /\ uas[cs.dlg] = "challenged"
             => uas'[cs.dlg] = "challenged"
    BY <1>1, <1>2, SMTT(30) DEF Onward, Seqs
  <1>4. ASSUME UNCHANGED <<owner, chan, held, cs, con, acked>>,
               "us" \in ended' => "us" \in ended
        PROVE  Dialog'
    BY <1>1, <1>3, <1>4, Zenon DEF Dialog, Before, After
  <1>5. CASE Callee
    <2>1. /\ UNCHANGED <<owner, chan, held, cs, con, acked>>
          /\ "us" \in ended' => "us" \in ended
      BY <1>5, Zenon
      DEF Callee, GetsInvite, Proceeds, Rings, Challenges, Answers, Redirects, Refuses, GetsCancel,
          GetsAck,
          HangsUp, Repeats, Says, GetsBye
    <2> QED BY <1>4, <2>1, Zenon
  <1>6. CASE Stack \/ UNCHANGED vars
    <2>1. UNCHANGED <<owner, chan, held, cs, con, acked, ended>>
      BY <1>6, ZenonT(40) DEF Stack, Arrive, TimerB, TimerF, vars
    <2> QED BY <1>4, <2>1, Zenon
  <1>7. ASSUME UNCHANGED <<owner, cs, acked, ended, uas>>, held' \subseteq held,
               chan'.state = chan.state, con'.pc # "handle",
               con'.pc = "match" => con'.msg.kind \in {"response", "byeok"},
               con'.pc # "idle" => owner \notin {"new", "sent", "mapped"}
        PROVE  Dialog'
    BY <1>1, <1>7, Zenon DEF Dialog, Before, After
  <1>8. CASE TakeResponse \/ TakeBye \/ TakeTimer
    <2>1. /\ UNCHANGED <<owner, cs, acked, ended, uas>> /\ held' \subseteq held
          /\ chan'.state = chan.state
      BY <1>8, Helpers, Zenon DEF TakeResponse, TakeBye, TakeTimer, Released
    <2>2. con'.pc \in {"idle", "match", "bye"}
      <3>1. CASE TakeResponse
        BY <3>1, Helpers, Zenon DEF TakeResponse
      <3>2. CASE TakeBye
        BY <3>2, Helpers, Zenon DEF TakeBye
      <3>3. CASE TakeTimer
        BY <1>8, <3>3, Helpers, Zenon DEF TakeTimer
      <3> QED BY <1>8, <3>1, <3>2, <3>3, Zenon
    <2>3. con'.pc = "match" => con'.msg.kind \in {"response", "byeok"}
      BY <1>8, Helpers DEF TakeResponse, TakeBye, TakeTimer
    <2>4. con'.pc # "idle" => "states" \in held
      BY <1>8, Helpers, ZenonT(40) DEF TakeResponse, TakeBye, TakeTimer
    <2> QED BY <1>7, <2>1, <2>2, <2>3, <2>4, Zenon DEF Dialog
  <1>9. CASE AcceptBye \/ FinishBye \/ Reap
    <2>1. /\ UNCHANGED <<owner, cs, acked, ended, uas>> /\ held' \subseteq held
          /\ chan'.state = chan.state
      BY <1>9, Helpers, Zenon DEF AcceptBye, FinishBye, Reap, Released
    <2>2. con'.pc \in {"idle", "hangup"} /\ (con'.pc = "hangup" => con.pc # "idle")
      BY <1>9, <1>1, Helpers, Zenon DEF AcceptBye, FinishBye, Reap, Consumers
    <2> QED BY <1>7, <2>1, <2>2, Zenon DEF Dialog
  <1>10. CASE MatchResponse
    <2>1. /\ UNCHANGED <<owner, cs, acked, ended, uas, chan>> /\ held' \subseteq held
      BY <1>10, ZenonT(40) DEF MatchResponse
    <2>2. CASE con' = Idle
      BY <1>7, <2>1, <2>2, Helpers, Zenon
    <2>3. CASE con' # Idle
      <3>1. /\ con' = [con EXCEPT !.pc = "handle"] /\ con.msg.kind # "byeok"
            /\ con.msg.seq = IF cs.dlg # 0 THEN cs.dlg ELSE cs.seq
            /\ con.msg = Response("100", con.msg.seq) => cs.dlg = 0
            /\ con.pc = "match"
        BY <1>10, <2>3, Zenon DEF MatchResponse, response_matches_dialog
      <3>2. con'.pc = "handle" /\ con'.msg = con.msg
        BY <1>1, <3>1, Zenon DEF Consumers
      <3>3. con.msg.kind = "response" /\ con.msg.seq <= cs.seq
        BY <3>1, InHand, Zenon DEF Dialog
      <3>4. con.msg.code = "100" => cs.dlg = 0
        BY <1>1, <3>1, <3>3, Kinds, Zenon DEF Consumers
      <3>5. acked => con.msg.seq = cs.seq /\ cs.dlg = cs.seq /\ cs.dlg # 0
        BY <1>1, <3>1, <3>3 DEF Dialog, After, Seqs
      <3> QED BY <1>1, <2>1, <3>1, <3>2, <3>3, <3>4, <3>5, Zenon DEF Dialog, Before, After
    <2> QED BY <2>2, <2>3, Zenon
  <1>11. CASE Challenged
    <2>1. /\ con.pc = "handle" /\ con.msg.code = "401" /\ con.msg.kind = "response"
          /\ con' = Idle /\ UNCHANGED <<owner, acked, ended, uas>>
      BY <1>11, ZenonT(60) DEF Challenged, FailLeg, Handling, Dialog
    <2>2. ~ acked /\ uas[con.msg.seq] = "challenged"
      BY <2>1, NoFailure, InHand, Zenon DEF Justified
    <2>3. held' \subseteq held /\ chan'.state = chan.state
      BY <1>11, ChallengedCases, Helpers, Zenon DEF Resent, Unanswered, FailLeg, Released
    <2>4. CASE cs' = Retried
      <3>1. /\ cs'.tries = cs.tries + 1 /\ cs'.seq = cs.seq + 1 /\ cs'.dlg = cs.dlg
            /\ cs'.sess = "Initiated" /\ cs.tries \in Nat
        BY <1>1, <2>4 DEF CallStates, Retried
      <3>2. cs.dlg # 0 => uas[cs.dlg] = "challenged" /\ cs.dlg <= cs.seq
        BY <2>1, <2>2, ZenonT(60) DEF Dialog, Before
      <3> QED BY <1>1, <2>1, <2>2, <2>3, <3>1, <3>2, Helpers DEF Dialog, Before
    <2>5. CASE cs' = cs
      BY <1>7, <2>1, <2>3, <2>5, Helpers, Zenon
    <2> QED BY <1>11, <2>4, <2>5, ChallengedCases, Zenon DEF Resent, Unanswered
  <1>12. CASE Provisional
    <2>1. /\ con.pc = "handle" /\ con' = Idle
          /\ UNCHANGED <<owner, acked, ended, uas, held>>
          /\ chan'.state \in {"Ringing", chan.state}
      BY <1>12, ProvisionalCases, Zenon
    <2>2. /\ cs'.dlg \in {IF cs.dlg = 0 THEN cs.seq ELSE cs.dlg, cs.dlg}
          /\ cs'.seq = cs.seq /\ cs'.tries = cs.tries /\ cs'.sess = "Early"
      BY <1>1, <1>12, ProvisionalCases, ZenonT(40) DEF CallStates
    <2> QED BY <1>1, <2>1, <2>2, Helpers DEF Dialog, Before, After, Seqs
  <1>13. CASE Answered
    <2>1. /\ con.pc = "handle" /\ con.msg.code = "200" /\ con.msg.kind = "response"
          /\ con' = Idle /\ UNCHANGED <<owner, uas>> /\ acked' = TRUE
          /\ owner \notin {"new", "sent", "mapped"}
      BY <1>13, Zenon DEF Answered, Handling, Dialog
    <2>2. con.msg.seq \in Seqs /\ uas[con.msg.seq] \in Ans
      BY <2>1, InHand, ZenonT(40) DEF Justified
    <2>3. /\ cs.dlg \in {0, cs.seq, cs.seq + 1} /\ uas[cs.seq] \in Ans
          /\ cs.dlg = cs.seq + 1 => owner \in {"release", "done"}
      <3>1. CASE acked
        BY <1>1, <2>1, <3>1, SMTT(30) DEF Dialog, After
      <3>2. CASE ~ acked
        <4>1. Before
          BY <3>2, Zenon DEF Dialog
        <4> QED BY <1>1, <2>1, <2>2, <4>1 DEF Before, Ans
      <3> QED BY <3>1, <3>2, Zenon
    <2>4. /\ cs'.seq = cs.seq /\ cs'.tries = cs.tries
          /\ cs'.dlg \in {IF cs.dlg = 0 THEN cs.seq ELSE cs.dlg,
                          IF cs.dlg = 0 THEN cs.seq + 1 ELSE cs.dlg + 1}
      <3> DEFINE c == [cs EXCEPT !.sess = "Established", !.dlg = IF @ = 0 THEN cs.seq ELSE @]
      <3>1. cs' = c \/ cs' = ByeSent(c)
        BY <1>13, Zenon DEF Answered
      <3>2. /\ c.dlg = (IF cs.dlg = 0 THEN cs.seq ELSE cs.dlg) /\ c.seq = cs.seq
            /\ c.tries = cs.tries
        BY <1>1, Zenon DEF CallStates
      <3>3. c \in CallStates
        <4>1. cs.seq \in 0 .. MaxAuthAttempts + 3
          BY <1>1 DEF Seqs
        <4> QED BY <1>1, <4>1, Zenon DEF CallStates
      <3> HIDE DEF c
      <3> QED BY <3>1, <3>2, <3>3, Byes, Zenon
    <2>5. /\ cs'.dlg \in cs'.seq .. cs'.seq + 2
          /\ cs'.dlg = cs'.seq + 2 => owner \in {"release", "done"}
      BY <1>1, <2>3, <2>4
    <2> QED BY <2>1, <2>3, <2>4, <2>5, Helpers, Zenon DEF Dialog, After
  <1>14. CASE Failed
    <2>1. /\ con.pc = "handle" /\ con.msg.code \in {"3xx", "486", "4xx"}
          /\ con' = Idle /\ UNCHANGED <<owner, acked, ended, uas>>
          /\ cs' = [cs EXCEPT !.sess = "Terminated"] /\ held' \subseteq held
      BY <1>14, Zenon DEF Failed, FailLeg, Handling, Released
    <2>2. chan'.state \in {"Busy", chan.state}
      BY <1>14, Helpers, Zenon DEF Failed, FailLeg
    <2>3. /\ cs'.sess = "Terminated" /\ cs'.seq = cs.seq /\ cs'.dlg = cs.dlg
          /\ cs'.tries = cs.tries
      BY <1>1, <2>1, Zenon DEF CallStates
    <2>4. ~ acked
      BY <2>1, NoFailure, Zenon
    <2> QED BY <1>1, <2>1, <2>2, <2>3, <2>4, Helpers, Zenon DEF Dialog, Before
  <1>15. CASE SendInvite
    <2>1. /\ UNCHANGED <<cs, acked, ended, uas, chan, con>> /\ owner = "new"
          /\ owner' \in {"sent", "done"} /\ held' \subseteq held
      BY <1>15, Zenon DEF SendInvite, Quiet
    <2> QED BY <1>1, <2>1, Zenon DEF Dialog, Before, After
  <1>16. CASE RegisterCallId \/ RegisterSession \/ RegisterNotify \/ SyncState
    <2>1. UNCHANGED <<cs, acked, ended, uas, con>> /\ chan'.state \in {chan.state, "Dialing"}
      BY <1>16, Helpers
      DEF RegisterCallId, RegisterSession, RegisterNotify, Register, SyncState, Quiet,
          TypeOK
    <2>2. \/ owner = "sent" /\ owner' = "mapped" /\ held' = held \cup {"cmap"}
          \/ owner \in {"mapped", "registered", "called"}
             /\ owner' \in {"registered", "called", "waiting"}
      BY <1>16, Zenon
      DEF RegisterCallId, RegisterSession, RegisterNotify, Register, SyncState
    <2> QED BY <1>1, <2>1, <2>2, Zenon DEF Dialog, Before, After
  <1>17. CASE SeesAnswer \/ SeesRefusal \/ GivesUp \/ BridgeEnds \/ Lookup
              \/ Preserve \/ Release
    <2>1. UNCHANGED <<cs, acked, ended, uas, con, chan>> /\ held' \subseteq held
      BY <1>17, Zenon
      DEF SeesAnswer, SeesRefusal, GivesUp, Waits, BridgeEnds, Lookup, Preserve, Release,
          Quiet, Released
    <2>2. /\ owner \notin {"new", "sent", "mapped", "sendbye", "done"}
          /\ owner' \in {"bridged", "abandon", "bye", "cancel", "sendbye", "done"}
          /\ owner = "release" => owner' = "done"
          /\ owner' \in {"bye", "sendbye"} => owner \in {"bridged", "bye"}
      BY <1>17, ZenonT(40)
      DEF SeesAnswer, SeesRefusal, GivesUp, Waits, BridgeEnds, Lookup, Preserve, Release
    <2>3. owner' = "bridged" => acked
      BY <1>17, Zenon
      DEF SeesAnswer, SeesRefusal, GivesUp, Waits, BridgeEnds, Lookup, Preserve, Release,
          effective_state, Dialog, Before
    <2> QED BY <1>1, <2>1, <2>2, <2>3, ZenonT(40) DEF Dialog, Before, After
  <1>18. CASE Cancel
    <2>1. /\ UNCHANGED <<acked, uas, con, chan, held>> /\ owner = "cancel"
          /\ owner' \in {"preserve", "release"}
      BY <1>18, Zenon DEF Cancel, Quiet
    <2> DEFINE c == [cs EXCEPT !.abandoned = TRUE]
    <2>2. /\ c \in CallStates /\ c.sess = cs.sess /\ c.dlg = cs.dlg /\ c.seq = cs.seq
          /\ c.tries = cs.tries
      BY <1>1, Zenon DEF CallStates
    <2>3. /\ cs.sess # "Established" => cs' = c /\ ended' = ended
          /\ cs.sess = "Established" => cs' = ByeSent(c) /\ owner' = "release"
      BY <1>18, Zenon DEF Cancel
    <2> HIDE DEF c
    <2>4. CASE cs.sess # "Established"
      BY <1>1, <2>1, <2>2, <2>3, <2>4, Zenon DEF Dialog, Before, After
    <2>5. CASE cs.sess = "Established"
      <3>1. acked /\ After
        BY <2>5, Zenon DEF Dialog, Before
      <3>2. cs'.dlg = cs.dlg + 1 /\ cs'.seq = cs.seq /\ cs'.tries = cs.tries
        BY <2>2, <2>3, <2>5, Byes, Zenon
      <3>3. /\ cs.dlg \in cs.seq .. cs.seq + 1
            /\ con.pc = "handle" => cs.dlg = cs.seq /\ con.msg.seq = cs.seq
        <4>1. cs.dlg \in cs.seq .. cs.seq + 2 /\ cs.dlg # cs.seq + 2
          BY <2>1, <3>1, Zenon DEF After
        <4>2. con.pc = "handle" => cs.dlg = cs.seq /\ con.msg.seq = cs.seq
          BY <2>1, <3>1, Zenon DEF After
        <4> QED BY <1>1, <4>1, <4>2
      <3>4. cs'.dlg \in cs.seq .. cs.seq + 2 /\ (cs.dlg = cs.seq => cs'.dlg = cs.seq + 1)
        BY <1>1, <3>2, <3>3
      <3>5. After'
        BY <2>1, <2>3, <2>5, <3>1, <3>2, <3>3, <3>4, Zenon DEF After
      <3> QED BY <2>1, <3>1, <3>2, <3>5, Zenon DEF Dialog
    <2> QED BY <2>4, <2>5, Zenon
  <1>19. CASE EndCall
    <2>1. /\ UNCHANGED <<acked, uas, con, chan>> /\ owner = "sendbye" /\ owner' = "done"
          /\ held' \subseteq held
      BY <1>19, Zenon DEF EndCall, Quiet, Released
    <2>2. acked /\ After /\ cs.dlg # 0
      <3>1. acked /\ After
        BY <2>1, Zenon DEF Dialog, Before
      <3>2. cs.dlg \in cs.seq .. cs.seq + 2
        BY <3>1, Zenon DEF After
      <3>3. cs.seq \in Nat \ {0}
        BY <1>1 DEF Seqs
      <3> QED BY <3>1, <3>2, <3>3
    <2>3. cs' = ByeSent(cs)
      BY <1>19, <2>2, Zenon DEF EndCall
    <2>4. cs'.dlg = cs.dlg + 1 /\ cs'.seq = cs.seq /\ cs'.tries = cs.tries
      BY <1>1, <2>3, Byes, Zenon
    <2>5. cs.dlg \in cs.seq .. cs.seq + 1 /\ (con.pc = "handle" => cs.dlg = cs.seq)
      <3>1. cs.dlg \in cs.seq .. cs.seq + 2 /\ cs.dlg # cs.seq + 2
        BY <2>1, <2>2, Zenon DEF After
      <3>2. con.pc = "handle" => cs.dlg = cs.seq
        BY <2>1, <2>2, Zenon DEF After
      <3> QED BY <1>1, <3>1, <3>2
    <2>6. cs'.dlg \in cs.seq .. cs.seq + 2 /\ (cs.dlg = cs.seq => cs'.dlg = cs.seq + 1)
      BY <1>1, <2>4, <2>5
    <2>7. After'
      BY <2>1, <2>2, <2>4, <2>5, <2>6, Zenon DEF After
    <2> QED BY <2>1, <2>2, <2>4, <2>7, Zenon DEF Dialog
  <1> QED
    BY <1>5, <1>6, <1>8, <1>9, <1>10, <1>11, <1>12, <1>13, <1>14, <1>15, <1>16, <1>17,
       <1>18, <1>19, ZenonT(40)
    DEF Next, Consumer, OwnerTask

\* A leg starts before driver.call(): nothing sent, nothing under way.
LEMMA LegInit == Init => LegInv
  <1> SUFFICES ASSUME Init PROVE LegInv
    BY Zenon
  <1>1. TypeOK
    <2>1. con \in Consumers
      BY Made, Zenon DEF Init, Idle, Consumers
    <2>2. cs \in CallStates /\ chan \in Channels
      BY LegAssumption, SMTT(30) DEF Init, CallStates, Channels, Seqs
    <2>3. /\ txn \in [Seqs -> {"None", "Calling", "Proceeding", "Completed", "Terminated"}]
          /\ uas \in [Seqs -> {"none", "trying", "early", "challenged", "redirected",
                               "failed", "answered", "acked", "over"}]
          /\ events \in Seq(Messages) /\ net \in Seq(Messages)
      BY DEF Init
    <2>4. owner \in OwnerStates /\ held \subseteq Registries
      BY Zenon DEF Init, OwnerStates, Registries
    <2> QED
      BY <2>1, <2>2, <2>3, <2>4, Zenon
      DEF Init, TypeOK, CallStates, Channels, Consumers
  <1>2. Told
    BY SMTT(30) DEF Init, Told, underway, taken, Elems, Idle
  <1>3. Asked
    BY LegAssumption, SMTT(30) DEF Init, Asked, Seqs, pending
  <1>4. Dialog
    BY DEF Init, Dialog, Before, Idle
  <1> QED BY <1>1, <1>2, <1>3, <1>4, Zenon DEF LegInv

\* The invariant everything below rests on holds throughout.
THEOREM LegInvariant == Spec => []LegInv
  <1>1. LegInv /\ [Next]_vars => LegInv'
    BY Typed, ToldKept, AskedKept, DialogKept, Zenon DEF LegInv
  <1> QED BY LegInit, <1>1, PTL DEF Spec

\* Every variable keeps its type; in particular the CSeqs of the session and of its
\* dialog stay within MaxAuthAttempts + 3.
THEOREM LegTyped == Spec => []TypeOK
  BY LegInvariant, PTL DEF LegInv

\* No BYE is sent before the 2xx was acknowledged, by whichever of the paths that
\* send one (handle_response, cancel_or_bye_outbound_leg, send_bye_for_channel,
\* finish_outbound_originate).
THEOREM LegAckBeforeBye == Spec => []AckBeforeBye
  <1>1. LegInv => AckBeforeBye
    BY Zenon DEF LegInv, Dialog, Before, AckBeforeBye
  <1> QED BY LegInvariant, <1>1, PTL

-----------------------------------------------------------------------------
(* One retry per challenge.                                                 *)

\* A callee that challenges only before it rings challenges an INVITE it has
\* said nothing about.
LEMMA ChallengesTrying ==
  ASSUME LegInv, [Next]_vars, "early" \notin Env,
         NEW s \in Seqs, uas'[s] = "challenged", uas[s] # "challenged"
  PROVE  uas[s] = "trying"
  <1>1. uas \in [Seqs -> {"none", "trying", "early", "challenged", "redirected",
                          "failed", "answered", "acked", "over"}]
    BY Zenon DEF LegInv, TypeOK
  <1>2. uas' # uas
    BY Zenon
  <1>3. ~ (Stack \/ Consumer \/ Reap \/ UNCHANGED vars \/ OwnerTask)
    BY <1>2, Zenon
    DEF Stack, Arrive, TimerB, TimerF, Consumer, TakeResponse, MatchResponse,
        Handling, Challenged, FailLeg, Provisional, Answered, Failed, TakeBye, AcceptBye,
        FinishBye, TakeTimer, Reap, vars, OwnerTask, Quiet, SendInvite, Register,
        RegisterCallId, RegisterSession, RegisterNotify, SyncState, Waits, SeesAnswer,
        SeesRefusal, GivesUp, BridgeEnds, Lookup, Cancel, Preserve, Release, EndCall
  <1>4. ASSUME NEW r \in Seqs,
               \/ GetsInvite(r) \/ Proceeds(r) \/ Rings(r) \/ Answers(r) \/ Redirects(r) \/ GetsAck(r) \/ HangsUp(r)
               \/ Repeats(r)
        PROVE  FALSE
    BY <1>1, <1>4, Zenon DEF GetsInvite, Proceeds, Rings, Answers, Redirects, GetsAck, HangsUp, Repeats, Says
  <1>5. ASSUME NEW r \in Seqs, Refuses(r) \/ GetsCancel(r)
        PROVE  FALSE
    BY <1>1, <1>5, Zenon DEF Refuses, GetsCancel, Says
  <1>6. ~ GetsBye
    BY <1>1, Zenon DEF GetsBye
  <1>7. ASSUME NEW r \in Seqs, Challenges(r)
        PROVE  uas[s] = "trying"
    BY <1>1, <1>7, Zenon DEF Challenges, Says
  <1> QED BY <1>3, <1>4, <1>5, <1>6, <1>7, Zenon DEF Next, Callee

\* The steps that change the session's CSeqs.
LEMMA SessionSteps ==
  ASSUME LegInv, [Next]_vars
  PROVE  \/ Challenged \/ Provisional \/ Answered \/ EndCall
         \/ acked /\ acked' /\ cs'.seq = cs.seq
         \/ cs'.seq = cs.seq /\ cs'.dlg = cs.dlg /\ acked' = acked
  <1>1. cs \in CallStates
    BY ZenonT(40) DEF LegInv, TypeOK, CallStates
  <1>2. CASE Callee \/ Stack \/ Reap \/ UNCHANGED vars
    <2>1. CASE Callee
      BY <2>1, ZenonT(40)
      DEF Callee, GetsInvite, Proceeds, Rings, Challenges, Answers, Redirects, Refuses, GetsCancel,
          GetsAck,
          HangsUp, Repeats, Says, GetsBye
    <2>2. CASE Stack \/ Reap \/ UNCHANGED vars
      BY <2>2, Zenon DEF Stack, Arrive, TimerB, TimerF, Reap, vars
    <2> QED BY <1>2, <2>1, <2>2, Zenon
  <1>3. CASE TakeResponse \/ MatchResponse \/ TakeBye \/ AcceptBye \/ FinishBye \/ TakeTimer
    BY <1>3, Zenon DEF TakeResponse, MatchResponse, TakeBye, AcceptBye, FinishBye, TakeTimer
  <1>4. CASE Failed
    BY <1>1, <1>4, Zenon DEF Failed, FailLeg, CallStates
  <1>5. CASE Cancel
    <2> DEFINE c == [cs EXCEPT !.abandoned = TRUE]
    <2>1. c \in CallStates /\ c.dlg = cs.dlg /\ c.seq = cs.seq
      BY <1>1, Zenon DEF CallStates
    <2>2. /\ cs.sess # "Established" => cs' = c
          /\ cs.sess = "Established" => cs' = ByeSent(c)
          /\ acked' = acked
      BY <1>5, Zenon DEF Cancel, Quiet
    <2>3. cs.sess = "Established" => acked
      BY Zenon DEF LegInv, Dialog, Before
    <2> HIDE DEF c
    <2> QED BY <2>1, <2>2, <2>3, Byes, Zenon
  <1>6. CASE \/ SendInvite \/ RegisterCallId \/ RegisterSession \/ RegisterNotify
             \/ SyncState \/ SeesAnswer \/ SeesRefusal \/ GivesUp \/ BridgeEnds
             \/ Lookup \/ Preserve \/ Release
    BY <1>6, Zenon
    DEF Quiet, SendInvite, Register, RegisterCallId, RegisterSession, RegisterNotify,
        SyncState, Waits, SeesAnswer, SeesRefusal, GivesUp, BridgeEnds, Lookup, Preserve,
        Release
  <1> QED BY <1>2, <1>3, <1>4, <1>5, <1>6, Zenon DEF Next, Consumer, OwnerTask

\* handle_response sends another INVITE only for the challenge of the last one,
\* as long as the callee does not challenge an INVITE it has rung for.
LEMMA RetriesKept ==
  ASSUME LegInv, "early" \notin Env, Retries, [Next]_vars
  PROVE  Retries'
  <1>1. /\ cs \in CallStates /\ cs.seq \in Seqs /\ cs.seq \in Nat /\ cs.dlg \in Nat
        /\ \A s \in Seqs : s \in Nat
    BY DEF LegInv, TypeOK, CallStates, Seqs
  <1>2. Onward
    BY Advances, Zenon
  \* An INVITE the callee has rung for stays unchallenged.
  <1>3. ASSUME NEW s \in Seqs, uas[s] \notin {"none", "trying", "challenged"}
        PROVE  uas'[s] \notin {"none", "trying", "challenged"}
    BY <1>2, <1>3, ChallengesTrying, Zenon DEF Onward
  <1>4. ASSUME NEW s \in Seqs, Response("180", s) \in underway'
        PROVE  uas'[s] \notin {"none", "trying", "challenged"}
    <2>1. CASE Response("180", s) \in underway
      BY <1>3, <2>1, ZenonT(40) DEF Retries
    <2>2. CASE Response("180", s) \notin underway
      BY <1>4, <2>2, Fresh, Made, SMTT(30) DEF Codes
    <2> QED BY <2>1, <2>2, Zenon
  <1>5. ASSUME NEW s \in Seqs, s < cs.seq
        PROVE  uas'[s] = "challenged"
    BY <1>2, <1>5, Zenon DEF Retries, Onward
  <1>6. CASE Challenged
    <2>1. /\ con.pc = "handle" /\ con.msg.code = "401" /\ con.msg.kind = "response"
          /\ UNCHANGED <<uas, acked>>
      BY <1>6, Zenon DEF Challenged, FailLeg, Handling, LegInv, Dialog
    <2>2. ~ acked /\ uas[con.msg.seq] = "challenged"
      BY <2>1, NoFailure, InHand, ZenonT(60) DEF Justified
    <2>3. cs.dlg = 0 /\ uas[cs.seq] = "challenged"
      BY <2>1, <2>2, Zenon DEF LegInv, Dialog, Before, Retries
    <2>4. cs'.dlg = 0 /\ cs'.seq \in {cs.seq, cs.seq + 1}
      BY <1>1, <1>6, <2>3, ChallengedCases, Zenon
      DEF Resent, Unanswered, Retried, CallStates
    <2>5. ASSUME NEW s \in Seqs, s < cs'.seq
          PROVE  uas'[s] = "challenged"
      BY <1>1, <1>5, <2>1, <2>3, <2>4, <2>5, SMTT(30)
    <2> QED BY <1>4, <2>4, <2>5, Zenon DEF Retries
  <1>7. CASE Provisional
    <2>1. /\ con.pc = "handle" /\ con.msg.kind = "response" /\ UNCHANGED <<uas, acked>>
      BY <1>7, ProvisionalCases, Zenon DEF LegInv, Dialog
    <2>2. CASE con.msg.code = "180"
      <3>1. con.msg = Response("180", con.msg.seq) /\ con.msg.seq \in Seqs /\ con.msg \in underway
        BY <2>1, <2>2, InHand, Kinds, SMTT(30) DEF LegInv, TypeOK
      <3>2. uas[con.msg.seq] \notin {"none", "trying", "challenged"}
        BY <3>1, Zenon DEF Retries
      <3>3. /\ cs'.seq = cs.seq /\ cs'.dlg = IF cs.dlg = 0 THEN cs.seq ELSE cs.dlg
        BY <1>1, <1>7, <2>2, ProvisionalCases, Zenon DEF LegInv, CallStates
      <3>4. ~ acked /\ cs.dlg = 0 => con.msg.seq = cs.seq
        BY <2>1, Zenon DEF LegInv, Dialog, Before
      <3> QED BY <1>1, <1>4, <1>5, <2>1, <3>2, <3>3, <3>4, Zenon DEF Retries
    <2>3. CASE con.msg.code # "180"
      <3>1. cs'.seq = cs.seq /\ cs'.dlg = cs.dlg
        BY <1>1, <1>7, <2>3, ProvisionalCases, Zenon DEF LegInv, CallStates
      <3> QED BY <1>1, <1>3, <1>4, <1>5, <2>1, <3>1, Zenon DEF Retries
    <2> QED BY <2>2, <2>3, Zenon
  <1>8. CASE Answered
    <2>1. acked' /\ cs'.seq = cs.seq
      <3> DEFINE c == [cs EXCEPT !.sess = "Established", !.dlg = IF @ = 0 THEN cs.seq ELSE @]
      <3>1. acked' /\ (cs' = c \/ cs' = [c EXCEPT !.sess = "Terminating", !.dlg = @ + 1])
        BY <1>8, Zenon DEF Answered, ByeSent
      <3> QED BY <1>1, <3>1, Zenon DEF CallStates
    <2> QED BY <1>4, <1>5, <2>1, Zenon DEF Retries
  <1>9. CASE EndCall
    <2>1. acked' /\ cs'.seq = cs.seq
      BY <1>1, <1>9, Byes, Zenon DEF EndCall, Quiet, LegInv, Dialog, Before
    <2> QED BY <1>4, <1>5, <2>1 DEF Retries
  <1>10. CASE acked /\ acked' /\ cs'.seq = cs.seq
    BY <1>4, <1>5, <1>10, Zenon DEF Retries
  <1>11. CASE cs'.seq = cs.seq /\ cs'.dlg = cs.dlg /\ acked' = acked
    <2>1. cs'.dlg # 0 /\ ~ acked' =>
            cs'.dlg = cs'.seq /\ uas'[cs'.dlg] \notin {"none", "trying", "challenged"}
      BY <1>1, <1>3, <1>11, Zenon DEF Retries
    <2> QED BY <1>4, <1>5, <1>11, <2>1, Zenon DEF Retries
  <1> QED BY <1>6, <1>7, <1>8, <1>9, <1>10, <1>11, SessionSteps, Zenon

-----------------------------------------------------------------------------
(* What is held.                                                            *)

\* Each way to end a leg, and each reaper, releases what is still held.
LEMMA HoldingKept ==
  ASSUME LegInv, Holding, [Next]_vars
  PROVE  Holding'
  <1> USE LegAssumption DEF LegInv
  <1>1. /\ held \subseteq Registries
        /\ Released(held) = IF "cmap" \in held THEN {} ELSE held \ Media
    BY Helpers, Zenon DEF TypeOK
  <1>2. ASSUME UNCHANGED <<owner, held, reap>>
        PROVE  Holding'
    BY <1>2, Zenon DEF Holding, Both
  <1>3. CASE Callee \/ Stack \/ UNCHANGED vars \/ TakeResponse \/ TakeBye \/ AcceptBye
             \/ Provisional
    <2>1. UNCHANGED <<owner, held, reap>>
      BY <1>3, Zenon
      DEF Callee, GetsInvite, Proceeds, Rings, Challenges, Answers, Redirects, Refuses, GetsCancel,
          GetsAck,
          HangsUp, Repeats, Says, GetsBye, Stack, Arrive, TimerB, TimerF, vars,
          TakeResponse, TakeBye, AcceptBye, Provisional, Handling
    <2> QED BY <1>2, <2>1, Zenon
  \* The consumer only takes away, and from both signalling maps.
  <1>4. ASSUME UNCHANGED <<owner, reap>>, owner \notin {"new", "sent", "mapped"},
               held' \in {held, Released(held), {}, held \ {"cmap", "states"}}
        PROVE  Holding'
    BY <1>1, <1>4, Zenon DEF Holding, Both
  <1>5. CASE MatchResponse \/ Challenged \/ Answered \/ Failed
    <2>1. /\ UNCHANGED <<owner, reap>> /\ con.pc # "idle"
          /\ held' \in {held, Released(held), held \ {"cmap", "states"}}
      BY <1>5, Zenon DEF MatchResponse, Handling, Challenged, FailLeg, Answered, Failed
    <2> QED BY <1>4, <2>1, Zenon DEF Dialog
  <1>6. CASE FinishBye
    <2>1. UNCHANGED <<owner, reap>> /\ owner \notin {"new", "sent", "mapped"}
      BY <1>6, Zenon DEF FinishBye, Dialog
    <2>2. held' \in {{}, held \ {"cmap", "states"}}
      BY <1>1, <1>6, <2>1, Zenon DEF FinishBye, Holding, Both
    <2> QED BY <1>4, <2>1, <2>2, Zenon
  <1>7. CASE TakeTimer
    <2>1. /\ UNCHANGED <<owner, reap>>
          /\ held' \in {Released(held), held \ {"cmap", "states"}}
      BY <1>7, Zenon DEF TakeTimer
    <2>2. Head(events) \in underway /\ Head(events).kind \in {"B", "F"}
      BY <1>7, Shortened, Zenon DEF TakeTimer, Took, underway, TypeOK
    <2>3. owner \notin Calling \cup {"new"} \/ "us" \in ended
      BY <2>2, Zenon DEF Told, Justified
    <2>4. owner \notin {"new", "sent", "mapped"}
      BY <2>3, ZenonT(40) DEF Calling, Dialog, Before, After
    <2> QED BY <1>4, <2>1, <2>4, Zenon
  <1>8. CASE Reap
    BY <1>1, <1>8, Zenon DEF Reap, Holding, Both
  <1>9. CASE SendInvite
    BY <1>9, ZenonT(40) DEF SendInvite, Holding, Both, Media
  <1>10. CASE RegisterCallId \/ RegisterSession
    BY <1>10, Zenon
    DEF RegisterCallId, RegisterSession, Register, Holding, Both, Dialog
  <1>11. CASE RegisterNotify
    BY <1>11, Zenon DEF RegisterNotify, Register, Holding, Both
  <1>12. CASE SyncState \/ SeesAnswer \/ SeesRefusal \/ GivesUp \/ BridgeEnds \/ Cancel
    <2>1. UNCHANGED <<held, reap>> /\ owner \notin {"new", "sent", "mapped", "done"}
          /\ owner' \notin {"new", "sent", "mapped", "done"}
      BY <1>12, Zenon
      DEF SyncState, SeesAnswer, SeesRefusal, GivesUp, Waits, BridgeEnds, Cancel
    <2> QED BY <2>1, Zenon DEF Holding, Both
  <1>13. CASE Lookup
    <2>1. CASE {"cmap", "states"} \subseteq held
      BY <1>13, <2>1, Zenon DEF Lookup, Holding, Both
    <2>2. CASE ~ ({"cmap", "states"} \subseteq held)
      <3>1. "cmap" \notin held /\ "states" \notin held /\ reap = {}
        BY <1>13, <2>2, Zenon DEF Lookup, Holding, Both
      <3>2. owner' = "done" /\ held' = held \ Media /\ reap' = {}
        BY <1>1, <1>13, <2>2, <3>1, Zenon DEF Lookup
      <3>3. held \ Media = {}
        BY <1>1, <3>1, Zenon DEF Registries, Media
      <3> QED BY <3>2, <3>3, Zenon DEF Holding, Both
    <2> QED BY <2>1, <2>2, Zenon
  \* Releasing leaves nothing.
  <1>14. owner \notin {"new", "sent", "mapped"} => Released(held) = {}
    <2>1. "cmap" \notin held /\ "states" \notin held => held \ Media = {}
      BY <1>1, Zenon DEF Registries, Media
    <2> QED BY <1>1, <2>1, Zenon DEF Holding, Both
  <1>15. owner \notin {"new", "sent", "mapped"} =>
           /\ held \ Media \subseteq {"cmap", "states"}
           /\ "cmap" \in held \ Media <=> "states" \in held \ Media
    BY <1>1, Zenon DEF Holding, Both, Registries, Media
  <1>16. 1 .. cs.seq # {}
    BY DEF TypeOK, Seqs
  <1>17. CASE Preserve \/ Release
    <2>1. /\ owner' = "done" /\ owner \notin {"new", "sent", "mapped"}
          /\ held' = Released(held) \/ (held' = held \ Media /\ reap' = 1 .. cs.seq)
      BY <1>17, Zenon DEF Preserve, Release
    <2> QED BY <1>1, <1>14, <1>15, <1>16, <2>1, Zenon DEF Holding, Both
  <1>18. CASE EndCall
    <2>1. /\ owner' = "done" /\ owner \notin {"new", "sent", "mapped"}
          /\ held' = Released(held) \/ (held' = held \ Media /\ reap' = 1 .. cs.seq)
      BY <1>18, Zenon DEF EndCall
    <2> QED BY <1>1, <1>14, <1>15, <1>16, <2>1, Zenon DEF Holding, Both
  <1> QED
    BY <1>3, <1>5, <1>6, <1>7, <1>8, <1>9, <1>10, <1>11, <1>12, <1>13, <1>17, <1>18,
       ZenonT(40)
    DEF Next, Consumer, OwnerTask

\* A leg that is over holds no registry entry, media or notification, except the
\* Dial leg whose first INVITE the transport refused: Dial's clean-up skips it.
THEOREM LegNoLeak ==
  (Owner = "Dial" => "unsent" \notin Env) => (Spec => []NoLeak)
  <1> SUFFICES ASSUME Owner = "Dial" => "unsent" \notin Env PROVE Spec => []NoLeak
    BY Zenon
  <1>1. Init => Holding
    BY Zenon DEF Init, Holding
  <1>2. LegInv /\ Holding /\ [Next]_vars => Holding'
    BY HoldingKept, Zenon
  <1>3. Holding => NoLeak
    BY ZenonT(40) DEF Holding, NoLeak
  <1> QED BY <1>1, <1>2, <1>3, LegInvariant, PTL DEF Spec

-----------------------------------------------------------------------------
(* Order.                                                                   *)

\* A queue stays in order with a message that may come last.
LEMMA AppendInOrder ==
  ASSUME NEW q \in Seq(Messages), NEW e \in Messages, InOrder(q),
         \A s \in Seqs : e = Response("180", s) => Response("200", s) \notin Elems(q)
  PROVE  InOrder(Append(q, e))
  <1> DEFINE r == Append(q, e)
  <1>1. /\ Len(q) \in Nat /\ Len(r) = Len(q) + 1 /\ r[Len(q) + 1] = e
        /\ \A i \in 1 .. Len(q) : r[i] = q[i]
    BY Appended
  <1> HIDE DEF r
  <1> SUFFICES ASSUME NEW i \in 1 .. Len(r), NEW j \in 1 .. Len(r), NEW s \in Seqs,
                      i < j, r[i] = Response("200", s)
               PROVE  r[j] # Response("180", s)
    BY Zenon DEF InOrder, r
  <1>2. i \in 1 .. Len(q) /\ q[i] = Response("200", s) /\ q[i] \in Elems(q)
    BY <1>1 DEF Elems
  <1>3. CASE j \in 1 .. Len(q)
    BY <1>1, <1>2, <1>3, Zenon DEF InOrder
  <1>4. CASE j = Len(q) + 1
    BY <1>1, <1>2, <1>4, Zenon
  <1>5. j \in 1 .. Len(q) \/ j = Len(q) + 1
    BY <1>1
  <1> QED BY <1>3, <1>4, <1>5, ZenonT(60)

\* A queue stays in order without its first message, and after the 200 of an
\* INVITE no 180 of it is left.
LEMMA TailInOrder ==
  ASSUME NEW q \in Seq(Messages), q # <<>>, InOrder(q)
  PROVE  /\ InOrder(Tail(q))
         /\ \A s \in Seqs : Head(q) = Response("200", s) => Response("180", s) \notin Elems(Tail(q))
  <1> DEFINE r == Tail(q)
  <1>1. /\ Len(q) \in Nat \ {0} /\ Len(r) = Len(q) - 1 /\ Head(q) = q[1]
        /\ \A i \in 1 .. Len(q) - 1 : r[i] = q[i + 1]
    BY Shortened, Zenon
  <1> HIDE DEF r
  <1>2. ASSUME NEW i \in 1 .. Len(r), NEW j \in 1 .. Len(r), NEW s \in Seqs,
               i < j, r[i] = Response("200", s)
        PROVE  r[j] # Response("180", s)
    <2>1. /\ i + 1 \in 1 .. Len(q) /\ j + 1 \in 1 .. Len(q) /\ i + 1 < j + 1
          /\ r[i] = q[i + 1] /\ r[j] = q[j + 1]
      BY <1>1, <1>2
    <2> QED BY <1>2, <2>1, Zenon DEF InOrder
  <1>3. ASSUME NEW j \in 1 .. Len(r), NEW s \in Seqs, Head(q) = Response("200", s)
        PROVE  r[j] # Response("180", s)
    <2>1. /\ 1 \in 1 .. Len(q) /\ j + 1 \in 1 .. Len(q) /\ 1 < j + 1
          /\ r[j] = q[j + 1] /\ q[1] = Response("200", s)
      BY <1>1, <1>3
    <2> QED BY <2>1, Zenon DEF InOrder
  <1> QED BY <1>2, <1>3, Zenon DEF InOrder, Elems, r

\* Where messages do not overtake, the one that arrives is the first.
LEMMA FirstInOrder ==
  ASSUME NEW q \in Seq(Messages), q # <<>>, InOrder(q)
  PROVE  /\ InOrder(Without(q, 1))
         /\ \A s \in Seqs : q[1] = Response("200", s) => Response("180", s) \notin Elems(q)
  <1> DEFINE r == Tail(q)
  <1>1. /\ Len(q) \in Nat \ {0} /\ Len(r) = Len(q) - 1 /\ Head(q) = q[1]
        /\ \A i \in 1 .. Len(q) - 1 : r[i] = q[i + 1]
    BY Shortened
  <1>2. /\ Len(Without(q, 1)) = Len(q) - 1
        /\ \A j \in 1 .. Len(q) - 1 : Without(q, 1)[j] = q[j + 1]
    <2>1. 1 \in 1 .. Len(q)
      BY <1>1
    <2>2. /\ Len(Without(q, 1)) = Len(q) - 1
          /\ \A j \in 1 .. Len(q) - 1 : Without(q, 1)[j] = IF j < 1 THEN q[j] ELSE q[j + 1]
      BY <2>1, Removed, Zenon
    <2>3. \A j \in 1 .. Len(q) - 1 : ~ (j < 1)
      BY <1>1
    <2> QED BY <2>2, <2>3, Zenon
  <1>3. InOrder(r) /\ \A s \in Seqs : q[1] = Response("200", s) => Response("180", s) \notin Elems(r)
    BY <1>1, TailInOrder, Zenon
  <1> HIDE DEF r
  <1>4. InOrder(Without(q, 1))
    BY <1>1, <1>2, <1>3 DEF InOrder
  <1>5. ASSUME NEW s \in Seqs, q[1] = Response("200", s), NEW j \in 1 .. Len(q)
        PROVE  q[j] # Response("180", s)
    <2>1. Response("200", s) # Response("180", s)
      BY Made DEF Codes
    <2>2. CASE j = 1
      BY <1>5, <2>1, <2>2, Zenon
    <2>3. CASE j # 1
      <3>1. j - 1 \in 1 .. Len(r) /\ r[j - 1] = q[j]
        BY <1>1, <2>3
      <3> QED BY <1>3, <1>5, <3>1, Zenon DEF Elems
    <2> QED BY <2>2, <2>3, Zenon
  <1> QED BY <1>4, <1>5, Zenon DEF Elems

\* What a step does to the queues: nothing, a message of the callee, an arrival,
\* a timer, or the consumer taking the next event.
LEMMA QueueSteps ==
  ASSUME LegInv, [Next]_vars
  PROVE  \/ UNCHANGED <<net, events>> /\ handling' \subseteq handling /\ taken' \subseteq taken
         \/ \E e \in Messages :
               /\ net' = Append(net, e) /\ UNCHANGED <<events, con, cs, acked>>
               /\ e.kind # "B"
               /\ \A s \in Seqs : e = Response("180", s) => uas[s] = "trying"
         \/ \E i \in 1 .. MaxNet, copied \in BOOLEAN : Arrive(i, copied)
         \/ \E s \in Seqs : TimerB(s)
         \/ TimerF
         \/ /\ Took /\ UNCHANGED net /\ con.pc = "idle"
            /\ handling' \subseteq {Head(events)} /\ taken' \subseteq {Head(events)}
  <1> USE DEF LegInv
  <1> DEFINE Adds(e) == /\ net' = Append(net, e) /\ UNCHANGED <<events, con, cs, acked>>
                        /\ e.kind # "B"
                        /\ \A s \in Seqs : e = Response("180", s) => uas[s] = "trying"
  <1>1. ASSUME NEW s \in Seqs, NEW code \in Codes, NEW state, Says(s, code, state),
               code = "180" => uas[s] = "trying"
        PROVE  Adds(Response(code, s)) /\ Response(code, s) \in Messages
    BY <1>1, Made, SMTT(30) DEF Says, Codes
  <1>2. ASSUME NEW s \in Seqs, Proceeds(s) \/ Rings(s) \/ Challenges(s)
               \/ Answers(s) \/ Redirects(s) \/ Repeats(s)
        PROVE  \E e \in Messages : Adds(e)
    BY <1>1, <1>2, Zenon DEF Proceeds, Rings, Challenges, Answers, Redirects, Repeats, Codes
  <1>3. ASSUME NEW s \in Seqs, Refuses(s)
        PROVE  \E e \in Messages : Adds(e)
    BY <1>1, <1>3, Zenon DEF Refuses, Codes
  <1>4. ASSUME NEW s \in Seqs, GetsCancel(s)
        PROVE  UNCHANGED <<net, events, con>> \/ \E e \in Messages : Adds(e)
    <2>1. CASE uas[s] \in {"trying", "early"}
      <3>1. net' = Append(net, Response("4xx", s)) /\ UNCHANGED <<events, con, cs, acked>>
        BY <1>4, <2>1, Zenon DEF GetsCancel
      <3>2. /\ Response("4xx", s) \in Messages /\ Response("4xx", s).kind # "B"
            /\ \A r \in Seqs : Response("4xx", s) # Response("180", r)
        BY Made, SMTT(30) DEF Codes
      <3> QED BY <3>1, <3>2, Zenon
    <2>2. CASE uas[s] \notin {"trying", "early"}
      BY <1>4, <2>2, Zenon DEF GetsCancel
    <2> QED BY <2>1, <2>2, Zenon
  <1>5. ASSUME NEW s \in Seqs, HangsUp(s)
        PROVE  \E e \in Messages : Adds(e)
    <2>1. net' = Append(net, Request) /\ UNCHANGED <<events, con, cs, acked>>
      BY <1>5, Zenon DEF HangsUp
    <2>2. Request \in Messages /\ Request.kind # "B" /\ \A r \in Seqs : Request # Response("180", r)
      BY Made DEF Codes
    <2> QED BY <2>1, <2>2, Zenon
  <1>6. ASSUME GetsBye
        PROVE  \E e \in Messages : Adds(e)
    <2>1. PICK r \in out : r.m = "BYE" /\ net' = Append(net, ByeResponse(r.seq))
                           /\ UNCHANGED <<events, con, cs, acked>>
      BY <1>6, ZenonT(60) DEF GetsBye
    <2>2. r.seq \in 2 .. MaxAuthAttempts + 3
      BY <2>1, SMTT(30) DEF Asked, TypeOK
    <2>3. /\ ByeResponse(r.seq) \in Messages /\ ByeResponse(r.seq).kind # "B"
          /\ \A s \in Seqs : ByeResponse(r.seq) # Response("180", s)
      BY <2>2, Made DEF Codes
    <2> QED BY <2>1, <2>3, Zenon
  <1>7. CASE TakeResponse \/ TakeBye \/ TakeTimer
    <2>1. Took /\ UNCHANGED net /\ con.pc = "idle"
      BY <1>7, Zenon DEF TakeResponse, TakeBye, TakeTimer
    <2>2. con' = Idle \/ con' = con \/ con'.msg = Head(events)
      <3>1. CASE TakeResponse
        BY <3>1, Zenon DEF TakeResponse
      <3>2. CASE TakeBye
        BY <3>2, Zenon DEF TakeBye
      <3>3. CASE TakeTimer
        BY <3>3, Zenon DEF TakeTimer
      <3> QED BY <1>7, <3>1, <3>2, <3>3, Zenon
    <2>3. handling' \subseteq {Head(events)} /\ taken' \subseteq {Head(events)}
      BY <2>1, <2>2, Helpers, Zenon DEF handling, taken
    <2> QED BY <2>1, <2>3, Zenon
  <1>8. CASE MatchResponse \/ Challenged \/ Provisional \/ Answered \/ Failed
             \/ AcceptBye \/ FinishBye
    <2>1. UNCHANGED <<net, events>> /\ con.pc # "idle"
      BY <1>8, Zenon
      DEF MatchResponse, Handling, Challenged, FailLeg, Provisional, Answered, Failed, AcceptBye,
          FinishBye
    <2>2. \/ con' = Idle
          \/ con.pc = "match" /\ con' = [con EXCEPT !.pc = "handle"]
          \/ con' = [con EXCEPT !.pc = "hangup"]
      BY <1>8, Zenon
      DEF MatchResponse, Handling, Challenged, FailLeg, Provisional, Answered, Failed, AcceptBye,
          FinishBye
    <2>3. \/ con'.pc = "idle"
          \/ con.pc = "match" /\ con'.pc = "handle" /\ con'.msg = con.msg
          \/ con'.pc = "hangup" /\ con'.msg = con.msg
      BY <2>2, Helpers, SMTT(30) DEF TypeOK
    <2>4. handling' \subseteq handling /\ taken' \subseteq taken
      BY <2>1, <2>3, Zenon DEF handling, taken
    <2> QED BY <2>1, <2>4, Zenon
  <1>9. CASE OwnerTask \/ Reap \/ UNCHANGED vars
    <2>1. UNCHANGED <<net, events, con>>
      BY <1>9, ZenonT(60)
      DEF OwnerTask, Quiet, SendInvite, Register, RegisterCallId, RegisterSession,
          RegisterNotify, SyncState, Waits, SeesAnswer, SeesRefusal, GivesUp,
          BridgeEnds, Lookup, Cancel, Preserve, Release, EndCall, Reap, vars
    <2> QED BY <2>1, Zenon DEF handling, taken
  <1>10. ASSUME NEW s \in Seqs, GetsInvite(s) \/ GetsAck(s)
         PROVE  UNCHANGED <<net, events, con>>
    BY <1>10, Zenon DEF GetsInvite, GetsAck
  <1>11. UNCHANGED <<net, events, con>> =>
           UNCHANGED <<net, events>> /\ handling' \subseteq handling /\ taken' \subseteq taken
    BY Zenon DEF handling, taken
  <1>12. CASE Callee
    <2>1. UNCHANGED <<net, events, con>> \/ \E e \in Messages : Adds(e)
      <3> HIDE DEF Adds
      <3> QED BY <1>2, <1>3, <1>4, <1>5, <1>6, <1>10, <1>12, Zenon DEF Callee
    <2> QED BY <1>11, <2>1, Zenon
  <1>13. CASE Stack
    BY <1>13, ZenonT(40) DEF Stack
  <1> QED BY <1>7, <1>8, <1>9, <1>12, <1>13, ZenonT(40) DEF Next, Consumer

\* An INVITE that nobody has answered has no 200 under way.
LEMMA NoAnswerYet ==
  ASSUME LegInv, NEW s \in Seqs, Response("200", s) \in underway
  PROVE  uas[s] \in Ans
  BY Made DEF LegInv, Told, Justified, Codes

\* The last INVITE is the one a 200 being handled answers.
LEMMA AnswerOfLast ==
  ASSUME LegInv, con.pc = "handle", con.msg.code = "200"
  PROVE  /\ con.msg = Response("200", cs.seq)
         /\ ~ acked => cs.dlg \in {0, cs.seq}
  <1>1. con.msg.kind = "response" /\ con.msg \in Messages
    BY Zenon DEF LegInv, Dialog, TypeOK
  <1>2. uas[con.msg.seq] \in Ans /\ con.msg = Response("200", con.msg.seq)
    BY <1>1, InHand, Kinds, Zenon DEF Justified
  <1>3. con.msg.seq = cs.seq /\ (~ acked => cs.dlg \in {0, cs.seq})
    BY <1>2, Zenon DEF LegInv, Dialog, Before, After, Ans
  <1> QED BY <1>2, <1>3, Zenon

\* Where the network does not reorder, a 180 never follows the 200 it preceded
\* into handle_response.
LEMMA OrderedKept ==
  ASSUME LegInv, "reorder" \notin Env, Ordered, [Next]_vars
  PROVE  Ordered'
  <1>1. /\ net \in Seq(Messages) /\ events \in Seq(Messages) /\ cs.seq \in Seqs
        /\ \A s \in Seqs : Response("180", s) # Response("200", s)
        /\ acked => uas[cs.seq] \in Ans
    BY Made, SMTT(30) DEF LegInv, TypeOK, Codes, Dialog, After
  \* The acknowledgement of the last INVITE comes with its 200, after its 180s.
  <1>2. ASSUME acked'
        PROVE  Response("180", cs'.seq) \notin underway
    <2>1. cs \in CallStates
      BY Zenon DEF LegInv, TypeOK, CallStates
    <2>2. CASE Answered
      <3>1. con.pc = "handle" /\ con.msg = Response("200", cs.seq)
        BY <2>2, AnswerOfLast, Zenon DEF Answered, Handling
      <3>2. cs'.seq = cs.seq
        <4> DEFINE c == [cs EXCEPT !.sess = "Established", !.dlg = IF @ = 0 THEN cs.seq ELSE @]
        <4>1. cs' = c \/ cs' = [c EXCEPT !.sess = "Terminating", !.dlg = @ + 1]
          BY <2>2, Zenon DEF Answered, ByeSent
        <4> QED BY <2>1, <4>1, Zenon DEF CallStates
      <3>3. Response("200", cs.seq) \in handling
        BY <3>1, Zenon DEF handling
      <3> QED BY <1>1, <3>1, <3>2, <3>3, Zenon DEF Ordered, underway, taken
    <2>3. CASE ~ Answered
      <3>1. ~ Challenged
        BY <1>2, NoFailure, Zenon DEF Challenged, FailLeg, Handling
      <3>2. EndCall \/ Provisional => acked /\ cs'.seq = cs.seq
        <4>1. EndCall => acked /\ cs'.seq = cs.seq
          BY <1>2, <2>1, Byes, Zenon DEF EndCall, Quiet, CallStates
        <4>2. Provisional => acked /\ cs'.seq = cs.seq
          BY <1>2, <2>1, ProvisionalCases, Zenon DEF LegInv, CallStates
        <4> QED BY <4>1, <4>2, Zenon
      <3> QED BY <1>1, <1>2, <2>3, <3>1, <3>2, SessionSteps, Zenon DEF Ordered
    <2> QED BY <2>2, <2>3, Zenon
  <1>3. CASE UNCHANGED <<net, events>> /\ handling' \subseteq handling /\ taken' \subseteq taken
    BY <1>2, <1>3, Zenon DEF Ordered, underway
  <1>4. ASSUME NEW e \in Messages, net' = Append(net, e),
               UNCHANGED <<events, con, cs, acked>>,
               \A s \in Seqs : e = Response("180", s) => uas[s] = "trying"
        PROVE  Ordered'
    <2>1. Elems(net') = Elems(net) \cup {e}
      BY <1>1, <1>4, Appended, Zenon
    <2>2. \A s \in Seqs : e = Response("180", s) => Response("200", s) \notin underway
      BY <1>4, NoAnswerYet, Zenon DEF Ans
    <2>3. InOrder(net')
      BY <1>1, <1>4, <2>2, AppendInOrder, Zenon DEF Ordered, underway
    <2>4. handling' = handling /\ taken' = taken /\ handling \subseteq taken
      BY <1>4, Zenon DEF handling, taken
    <2>5. acked => e # Response("180", cs.seq)
      BY <1>1, <1>4, Zenon DEF Ans
    <2> QED BY <1>2, <1>4, <2>1, <2>2, <2>3, <2>4, <2>5, Zenon DEF Ordered, underway
  <1>5. ASSUME NEW i \in 1 .. MaxNet, NEW copied \in BOOLEAN, Arrive(i, copied)
        PROVE  Ordered'
    <2>1. i = 1 /\ 1 \in 1 .. Len(net) /\ net # <<>> /\ UNCHANGED <<con, acked, cs>>
      <3>1. i = 1 /\ i \in 1 .. Len(net) /\ UNCHANGED <<con, acked, cs>>
        BY <1>5, Zenon DEF Arrive
      <3>2. net \in Seq(Messages)
        BY <1>1, Zenon
      <3> QED BY <3>1, <3>2
    <2>2. /\ net' = net \/ net' = Without(net, 1)
          /\ events' = Append(events, net[1])
      BY <1>5, <2>1, Zenon DEF Arrive
    <2>3. /\ net[1] \in Messages /\ net[1] \in Elems(net) /\ Elems(net') \subseteq Elems(net)
          /\ Elems(events') = Elems(events) \cup {net[1]}
      BY <1>1, <2>1, <2>2, Removed, Appended, Zenon
    <2>4. /\ InOrder(net')
          /\ \A s \in Seqs : net[1] = Response("200", s) => Response("180", s) \notin Elems(net)
      BY <1>1, <2>1, <2>2, FirstInOrder, Zenon DEF Ordered
    <2>5. InOrder(events')
      BY <1>1, <2>2, <2>3, AppendInOrder, Zenon DEF Ordered
    <2>6. handling' = handling /\ taken' = taken /\ handling \subseteq taken
      BY <2>1, Zenon DEF handling, taken
    <2> QED BY <2>1, <2>3, <2>4, <2>5, <2>6, ZenonT(40) DEF Ordered, underway
  <1>6. ASSUME NEW t \in {"B", "F"}, events' = Append(events, Timer(t)),
               UNCHANGED <<net, con, acked, cs>>
        PROVE  Ordered'
    <2>1. /\ Timer(t) \in Messages
          /\ \A s \in Seqs, c \in {"180", "200"} : Timer(t) # Response(c, s)
      BY Made DEF Codes
    <2>2. Elems(events') = Elems(events) \cup {Timer(t)} /\ InOrder(events')
      BY <1>1, <1>6, <2>1, Appended, AppendInOrder, Zenon DEF Ordered
    <2>3. handling' = handling /\ taken' = taken
      BY <1>6, Zenon DEF handling, taken
    <2> QED BY <1>6, <2>1, <2>2, <2>3, Zenon DEF Ordered, underway
  <1>7. ASSUME NEW s \in Seqs, TimerB(s)
        PROVE  Ordered'
    BY <1>6, <1>7, Zenon DEF TimerB
  <1>8. CASE TimerF
    BY <1>6, <1>8, Zenon DEF TimerF
  <1>9. CASE /\ Took /\ UNCHANGED net /\ con.pc = "idle"
             /\ handling' \subseteq {Head(events)} /\ taken' \subseteq {Head(events)}
    <2>1. /\ events # <<>> /\ events' = Tail(events)
          /\ Head(events) \in Elems(events) /\ Elems(events') \subseteq Elems(events)
      BY <1>1, <1>9, Shortened, Zenon DEF Took
    <2>2. /\ InOrder(events')
          /\ \A s \in Seqs : Head(events) = Response("200", s) =>
                               Response("180", s) \notin Elems(events')
      BY <1>1, <2>1, TailInOrder, Zenon DEF Ordered
    <2> QED BY <1>2, <1>9, <2>1, <2>2, Zenon DEF Ordered, underway
  <1> QED BY <1>3, <1>4, <1>5, <1>7, <1>8, <1>9, QueueSteps, ZenonT(60)

\* Apart from a challenge and an answer, a step leaves the CSeq, the dialog and
\* the acknowledgement of an unacknowledged leg alone; a 180 may create the dialog.
LEMMA Steady ==
  ASSUME LegInv, [Next]_vars, ~ Challenged, ~ Answered
  PROVE  /\ acked' = acked /\ cs'.seq = cs.seq
         /\ ~ acked => cs'.dlg = cs.dlg \/ (cs.dlg = 0 /\ cs'.dlg = cs.seq)
  <1>1. cs \in CallStates /\ acked \in BOOLEAN /\ acked' \in BOOLEAN
    BY Typed, Zenon DEF LegInv, TypeOK, CallStates
  <1>2. CASE Provisional
    BY <1>1, <1>2, ProvisionalCases, Zenon DEF LegInv, CallStates
  <1>3. CASE EndCall
    <2>1. acked
      BY <1>3, Zenon DEF EndCall, LegInv, Dialog, Before
    <2> QED BY <1>1, <1>3, <2>1, Byes, Zenon DEF EndCall, Quiet
  <1> QED BY <1>1, <1>2, <1>3, SessionSteps, ZenonT(40)

\* Only an INVITE that is sent makes a transaction pending.
LEMMA PendingShrinks ==
  ASSUME LegInv, [Next]_vars, ~ Challenged, ~ SendInvite
  PROVE  pending' \subseteq pending
  <1>1. txn \in [Seqs -> {"None", "Calling", "Proceeding", "Completed", "Terminated"}]
    BY Zenon DEF LegInv, TypeOK
  <1>2. ASSUME NEW i \in 1 .. MaxNet, NEW copied \in BOOLEAN, Arrive(i, copied)
        PROVE  pending' \subseteq pending
    BY <1>1, <1>2, Zenon DEF Arrive, pending, on_response
  <1>3. ASSUME NEW s \in Seqs, TimerB(s)
        PROVE  pending' \subseteq pending
    BY <1>1, <1>3, Zenon DEF TimerB, pending
  <1>4. CASE Callee \/ TimerF \/ Reap \/ UNCHANGED vars
    BY <1>4, Zenon
    DEF Callee, GetsInvite, Proceeds, Rings, Challenges, Answers, Redirects, Refuses, GetsCancel,
          GetsAck,
        HangsUp, Repeats, Says, GetsBye, TimerF, Reap, vars, pending
  <1>5. CASE Consumer
    <2>1. txn' = txn
      BY <1>5, Zenon
      DEF Consumer, TakeResponse, MatchResponse, Provisional, Answered, Failed, TakeBye,
          AcceptBye, FinishBye, TakeTimer
    <2> QED BY <2>1, Zenon DEF pending
  <1>6. CASE OwnerTask
    <2>1. txn' = txn
      BY <1>6, Zenon
      DEF OwnerTask, Quiet, Register, RegisterCallId, RegisterSession, RegisterNotify,
          SyncState, Waits, SeesAnswer, SeesRefusal, GivesUp, BridgeEnds, Lookup, Cancel,
          Preserve, Release, EndCall
    <2> QED BY <2>1 DEF pending
  <1> QED BY <1>2, <1>3, <1>4, <1>5, <1>6, Zenon DEF Next, Stack

\* driver.call() is entered once.
LEMMA NewIsFirst ==
  ASSUME LegInv, [Next]_vars
  PROVE  owner' = "new" => owner = "new"
  <1>1. CASE OwnerTask
    BY <1>1, Zenon
    DEF OwnerTask, SendInvite, Register, RegisterCallId, RegisterSession, RegisterNotify,
        SyncState, Waits, SeesAnswer, SeesRefusal, GivesUp, BridgeEnds, Lookup, Cancel,
        Preserve, Release, EndCall
  <1>2. CASE Callee \/ Stack \/ Consumer \/ Reap \/ UNCHANGED vars
    BY <1>2, Zenon
    DEF Callee, GetsInvite, Proceeds, Rings, Challenges, Answers, Redirects, Refuses, GetsCancel,
          GetsAck,
        HangsUp, Repeats, Says, GetsBye, Stack, Arrive, TimerB, TimerF, Consumer,
        TakeResponse, MatchResponse, Handling, Challenged, FailLeg, Provisional, Answered, Failed,
        TakeBye, AcceptBye, FinishBye, TakeTimer, Reap, vars
  <1> QED BY <1>1, <1>2, Zenon DEF Next

\* A final response names an INVITE that was sent.
LEMMA FinalSent ==
  ASSUME LegInv, NEW m \in underway, m.kind = "response"
  PROVE  m.seq \in Seqs /\ uas[m.seq] # "none" /\ m.seq <= cs.seq
  <1>1. m \in Messages /\ Justified(m)
    BY UnderwayTyped, Zenon DEF LegInv, Told
  <1>2. m.seq \in Seqs /\ m.code \in Codes
    BY <1>1, Kinds, ZenonT(60)
  <1>3. uas[m.seq] # "none"
    BY <1>1, <1>2, Zenon DEF Justified, Codes, Ans
  <1> QED BY <1>2, <1>3, Zenon DEF LegInv, Asked

\* Timer B fires for an INVITE without a final response, so the consumer handles
\* no Timer B of an acknowledged leg.
LEMMA TimerOrderKept ==
  ASSUME LegInv, "reorder" \notin Env, TimerOrder, [Next]_vars
  PROVE  TimerOrder'
  <1> DEFINE NoFinals(j) == /\ \A m \in handling : ~ Final(m, cs.seq)
                            /\ \A i \in 1 .. j - 1 : ~ Final(events[i], cs.seq)
  <1>1. /\ net \in Seq(Messages) /\ events \in Seq(Messages) /\ cs.seq \in Seqs
        /\ cs \in CallStates /\ cs.seq \in Nat /\ cs.dlg \in Nat /\ Len(events) \in Nat
        /\ txn \in [Seqs -> {"None", "Calling", "Proceeding", "Completed", "Terminated"}]
        /\ handling \subseteq underway /\ Elems(events) \subseteq underway
    BY SMTT(30) DEF LegInv, TypeOK, CallStates, Seqs, handling, underway, taken
  \* The steps that are neither a challenge, nor an answer, nor the first INVITE.
  <1>2. ASSUME ~ Challenged, ~ Answered, ~ SendInvite
        PROVE  TimerOrder'
    <2>1. /\ acked' = acked /\ cs'.seq = cs.seq
          /\ ~ acked /\ cs'.dlg \in {0, cs'.seq} => cs.dlg \in {0, cs.seq}
      BY <1>2, Steady, Zenon
    <2>2. pending' \subseteq pending /\ (owner' = "new" => owner = "new")
      BY <1>2, PendingShrinks, NewIsFirst, Zenon
    <2>3. CASE UNCHANGED <<net, events>> /\ handling' \subseteq handling
      BY <2>1, <2>2, <2>3, Zenon DEF TimerOrder
    <2>4. ASSUME NEW e \in Messages, net' = Append(net, e), UNCHANGED <<events, con>>,
                 e.kind # "B"
          PROVE  TimerOrder'
      <3>1. net \in Seq(Messages) /\ Timer("B").kind = "B"
        BY <1>1, Made, Zenon
      <3>2. Elems(net') = Elems(net) \cup {e} /\ e # Timer("B")
        BY <2>4, <3>1, Appended, Zenon
      <3>3. handling' = handling
        BY <2>4, Zenon DEF handling
      <3> QED BY <2>1, <2>2, <2>4, <3>2, <3>3, Zenon DEF TimerOrder
    <2>5. ASSUME NEW e \in Messages, events' = Append(events, e), con' = con,
                 Elems(net') \subseteq Elems(net),
                 e.kind = "response" /\ e.code \notin {"100", "180"} => e.seq \notin pending',
                 e = Timer("B") => \E s \in pending : s \notin pending'
          PROVE  TimerOrder'
      <3>1. /\ Elems(events') = Elems(events) \cup {e} /\ Len(events') = Len(events) + 1
            /\ \A i \in 1 .. Len(events) : events'[i] = events[i]
            /\ events'[Len(events) + 1] = e
        <4>1. events \in Seq(Messages)
          BY <1>1, Zenon
        <4> QED BY <2>5, <4>1, Appended, SMTT(30)
      <3>2. handling' = handling
        BY <2>5, Zenon DEF handling
      <3>3. Timer("B") \notin Elems(net')
        BY <2>5, Zenon DEF TimerOrder
      <3>4. \A m \in Elems(events') \cup handling' :
              m.kind = "response" /\ m.code \notin {"100", "180"} => m.seq \notin pending'
        BY <2>2, <2>5, <3>1, <3>2, Zenon DEF TimerOrder
      <3>5. acked' => pending' = {} /\ Timer("B") \notin Elems(events')
        BY <2>1, <2>2, <2>5, <3>1, Zenon DEF TimerOrder
      <3>6. ASSUME ~ acked', cs'.dlg \in {0, cs'.seq}
            PROVE  /\ pending' \subseteq {cs'.seq}
                   /\ \A j \in 1 .. Len(events') : events'[j] = Timer("B") =>
                        /\ \A m \in handling' : ~ Final(m, cs'.seq)
                        /\ \A i \in 1 .. j - 1 : ~ Final(events'[i], cs'.seq)
        <4>1. pending \subseteq {cs.seq} /\ ~ acked /\ cs.dlg \in {0, cs.seq}
          BY <2>1, <3>6, Zenon DEF TimerOrder
        <4>2. ASSUME NEW j \in 1 .. Len(events), events'[j] = Timer("B")
              PROVE  /\ \A m \in handling' : ~ Final(m, cs'.seq)
                     /\ \A i \in 1 .. j - 1 : ~ Final(events'[i], cs'.seq)
          <5>1. NoFinals(j)
            BY <3>1, <4>1, <4>2, Zenon DEF TimerOrder
          <5>2. \A i \in 1 .. j - 1 : i \in 1 .. Len(events)
            BY <1>1
          <5> QED BY <2>1, <3>1, <3>2, <5>1, <5>2, Zenon
        <4>3. ASSUME e = Timer("B")
              PROVE  /\ \A m \in handling' : ~ Final(m, cs'.seq)
                     /\ \A i \in 1 .. Len(events) : ~ Final(events'[i], cs'.seq)
          <5>1. cs.seq \in pending
            BY <2>5, <4>1, <4>3, Zenon
          <5>2. \A m \in Elems(events) \cup handling : ~ Final(m, cs.seq)
            BY <5>1, Zenon DEF TimerOrder, Final
          <5>3. \A i \in 1 .. Len(events) : events[i] \in Elems(events)
            BY Zenon DEF Elems
          <5> QED BY <2>1, <3>1, <3>2, <5>2, <5>3, Zenon
        <4>4. ASSUME NEW j \in 1 .. Len(events'), events'[j] = Timer("B")
              PROVE  /\ \A m \in handling' : ~ Final(m, cs'.seq)
                     /\ \A i \in 1 .. j - 1 : ~ Final(events'[i], cs'.seq)
          <5>1. j \in 1 .. Len(events) \/ (j = Len(events) + 1 /\ e = Timer("B"))
            BY <1>1, <3>1, <4>4
          <5>2. j = Len(events) + 1 => j - 1 = Len(events)
            BY <1>1
          <5> QED BY <4>2, <4>3, <4>4, <5>1, <5>2, ZenonT(60)
        <4> QED BY <2>1, <2>2, <4>1, <4>4, Zenon
      <3>7. owner' = "new" => cs'.seq = 1 /\ ~ acked'
        BY <2>1, <2>2, Zenon DEF TimerOrder
      <3> QED BY <3>3, <3>4, <3>5, <3>6, <3>7, ZenonT(40) DEF TimerOrder
    <2>6. ASSUME NEW i \in 1 .. MaxNet, NEW copied \in BOOLEAN, Arrive(i, copied)
          PROVE  TimerOrder'
      <3>1. /\ net[i] \in Messages /\ net[i] \in Elems(net) /\ Elems(net') \subseteq Elems(net)
            /\ events' = Append(events, net[i]) /\ con' = con
        BY <1>1, <2>6, Removed, Zenon DEF Arrive
      <3>2. net[i].kind = "response" /\ net[i].code \notin {"100", "180"} =>
              net[i].seq \notin pending'
        BY <1>1, <2>6, <3>1, Kinds, ZenonT(40) DEF Arrive, pending, on_response, Codes
      <3>3. net[i] # Timer("B")
        BY <3>1, Zenon DEF TimerOrder
      <3> QED BY <2>5, <3>1, <3>2, <3>3, Zenon
    <2>7. ASSUME NEW s \in Seqs, TimerB(s)
          PROVE  TimerOrder'
      <3>1. /\ Timer("B") \in Messages /\ Timer("B").kind # "response"
            /\ events' = Append(events, Timer("B")) /\ UNCHANGED <<net, con>>
        BY <2>7, Made, ZenonT(60) DEF TimerB
      <3>2. s \in pending /\ s \notin pending'
        BY <1>1, <2>7, Zenon DEF TimerB, pending
      <3> QED BY <2>5, <3>1, <3>2, Zenon
    <2>8. CASE TimerF
      <3>1. /\ Timer("F") \in Messages /\ Timer("F").kind = "F" /\ Timer("B").kind = "B"
            /\ events' = Append(events, Timer("F")) /\ UNCHANGED <<net, con>>
        BY <2>8, Made, Zenon DEF TimerF
      <3> QED BY <2>5, <3>1, Zenon
    <2>9. CASE /\ Took /\ UNCHANGED net /\ con.pc = "idle"
                /\ handling' \subseteq {Head(events)}
      <3>1. /\ events # <<>> /\ events' = Tail(events)
            /\ Head(events) \in Elems(events) /\ Elems(events') \subseteq Elems(events)
            /\ Len(events) \in Nat \ {0} /\ Len(events') = Len(events) - 1
            /\ Head(events) = events[1]
            /\ \A i \in 1 .. Len(events) - 1 : events'[i] = events[i + 1]
        BY <1>1, <2>9, Shortened, Zenon DEF Took
      <3>2. ASSUME ~ acked', cs'.dlg \in {0, cs'.seq},
                   NEW j \in 1 .. Len(events'), events'[j] = Timer("B")
            PROVE  /\ \A m \in handling' : ~ Final(m, cs'.seq)
                   /\ \A i \in 1 .. j - 1 : ~ Final(events'[i], cs'.seq)
        <4>1. j + 1 \in 1 .. Len(events) /\ events[j + 1] = Timer("B")
          BY <3>1, <3>2
        <4>2. \A i \in 1 .. j : ~ Final(events[i], cs.seq)
          <5>1. NoFinals(j + 1)
            BY <2>1, <3>2, <4>1, Zenon DEF TimerOrder
          <5>2. (j + 1) - 1 = j
            BY <3>1
          <5> QED BY <5>1, <5>2, ZenonT(40)
        <4>3. \A m \in handling' : ~ Final(m, cs.seq)
          <5>1. 1 \in 1 .. j
            BY <3>2, SMTT(30)
          <5> QED BY <2>9, <3>1, <4>2, <5>1
        <4>4. ASSUME NEW i \in 1 .. j - 1
              PROVE  ~ Final(events'[i], cs.seq)
          <5>1. i + 1 \in 1 .. j /\ i \in 1 .. Len(events) - 1
            BY <3>1, <4>1
          <5> QED BY <3>1, <4>2, <5>1, Zenon
        <4> QED BY <2>1, <4>3, <4>4, Zenon
      <3> QED BY <2>1, <2>2, <2>9, <3>1, <3>2, Zenon DEF TimerOrder
    <2> QED BY <2>3, <2>4, <2>6, <2>7, <2>8, <2>9, QueueSteps, Zenon
  <1>3. CASE Challenged
    <2>1. /\ con.pc = "handle" /\ con.msg.code = "401" /\ con.msg.kind = "response"
          /\ con' = Idle /\ UNCHANGED <<net, events, acked, owner>>
          /\ owner # "new"
      BY <1>3, Zenon DEF Challenged, FailLeg, Handling, LegInv, Dialog
    <2>2. ~ acked /\ handling' = {} /\ con.msg \in handling
      BY <2>1, NoFailure, Helpers, Zenon DEF handling, LegInv
    <2>3. CASE cs' = Retried
      <3>1. txn' \in {txn, [txn EXCEPT ![cs.seq + 1] = "Calling"]}
        BY <1>3, ChallengedCases, Zenon DEF Resent, Unanswered
      <3>2. cs'.seq = cs.seq + 1 /\ cs'.dlg = cs.dlg /\ pending' \subseteq pending \cup {cs.seq + 1}
        <4>1. cs'.seq = cs.seq + 1 /\ cs'.dlg = cs.dlg
          BY <1>1, <2>3, Zenon DEF CallStates, Retried
        <4>2. pending' \subseteq pending \cup {cs.seq + 1}
          BY <1>1, <3>1, Zenon DEF pending
        <4> QED BY <4>1, <4>2, Zenon
      <3>3. \A m \in underway : m.kind = "response" => m.seq \in Seqs /\ m.seq # cs.seq + 1
        BY <1>1, FinalSent DEF Seqs
      <3>4. \A m \in Elems(events') \cup handling' :
              m.kind = "response" /\ m.code \notin {"100", "180"} => m.seq \notin pending'
        BY <1>1, <2>1, <2>2, <3>2, <3>3, Zenon DEF TimerOrder
      <3>5. ASSUME cs'.dlg \in {0, cs'.seq}
            PROVE  pending' \subseteq {cs'.seq}
        <4>1. cs.dlg = 0 /\ con.msg.seq = cs.seq
          <5>1. /\ cs.dlg # 0 => cs.dlg <= cs.seq
                /\ con.msg.seq = IF cs.dlg # 0 THEN cs.dlg ELSE cs.seq
            BY <2>1, <2>2, Zenon DEF LegInv, Dialog, Before
          <5>2. cs.dlg \in {0, cs.seq + 1}
            BY <3>2, <3>5, Zenon
          <5>3. cs.seq \in Nat
            BY <1>1 DEF CallStates, Seqs
          <5> QED BY <5>1, <5>2, <5>3
        <4>2. pending = {}
          BY <2>1, <2>2, <4>1, Zenon DEF TimerOrder
        <4> QED BY <3>2, <4>2, ZenonT(40)
      <3>6. \A m \in underway : ~ Final(m, cs'.seq)
        BY <3>2, <3>3, Zenon DEF Final
      <3>7. \A j \in 1 .. Len(events') : \A i \in 1 .. j - 1 : ~ Final(events'[i], cs'.seq)
        <4>1. \A j \in 1 .. Len(events) : \A i \in 1 .. j - 1 : events[i] \in underway
          BY <1>1 DEF Elems
        <4> QED BY <2>1, <3>6, <4>1, Zenon
      <3> QED BY <2>1, <2>2, <3>4, <3>5, <3>7, Zenon DEF TimerOrder
    <2>4. CASE cs' = cs /\ txn' = txn
      BY <2>1, <2>2, <2>4, Zenon DEF TimerOrder, Final, pending
    <2> QED BY <1>3, <2>3, <2>4, ChallengedCases, Zenon DEF Resent, Unanswered
  <1>4. CASE Answered
    <2>1. /\ con.pc = "handle" /\ con.msg = Response("200", cs.seq)
          /\ ~ acked => cs.dlg \in {0, cs.seq}
      BY <1>4, AnswerOfLast, Zenon DEF Answered, Handling
    <2>2. /\ con' = Idle /\ UNCHANGED <<net, events, owner, txn>> /\ acked' /\ owner # "new"
      BY <1>4, Zenon DEF Answered, Handling, LegInv, Dialog
    <2>3. con.msg \in handling /\ handling' = {} /\ pending' = pending
      BY <2>1, <2>2, Helpers, ZenonT(40) DEF handling, pending, LegInv
    <2>4. /\ con.msg.kind = "response" /\ con.msg.code = "200" /\ con.msg.seq = cs.seq
          /\ Final(con.msg, cs.seq)
      <3>1. con.msg.kind = "response" /\ con.msg.code = "200" /\ con.msg.seq = cs.seq
        <4>1. cs.seq \in Seqs /\ "200" \in Codes
          BY <1>1, Zenon DEF Codes
        <4>2. /\ Response("200", cs.seq).kind = "response"
              /\ Response("200", cs.seq).code = "200"
              /\ Response("200", cs.seq).seq = cs.seq
          BY <4>1, Made, Zenon
        <4> QED BY <2>1, <4>2, Zenon
      <3> QED BY <3>1, Zenon DEF Final
    <2>5. pending = {}
      BY <2>1, <2>3, <2>4, Zenon DEF TimerOrder
    <2>6. Timer("B") \notin Elems(events)
      BY <2>1, <2>3, <2>4, Zenon DEF TimerOrder, Elems
    <2> QED BY <2>2, <2>3, <2>5, <2>6, Zenon DEF TimerOrder
  <1>5. CASE SendInvite
    <2>1. /\ owner = "new" /\ UNCHANGED <<net, events, con, cs, acked>> /\ owner' # "new"
          /\ cs.seq = 1 /\ ~ acked /\ pending = {} /\ uas[1] = "none"
      BY <1>5, ZenonT(40) DEF SendInvite, Quiet, TimerOrder, LegInv, Asked
    <2>2. pending' \subseteq {1}
      BY <1>1, <1>5, <2>1, Zenon DEF SendInvite, pending
    <2>3. \A m \in underway : m.kind # "response"
      BY <2>1, FinalSent DEF Seqs
    <2>4. handling' = handling
      BY <2>1, Zenon DEF handling
    <2>5. \A m \in underway : ~ Final(m, cs'.seq)
      BY <2>3, Zenon DEF Final
    <2>6. \A j \in 1 .. Len(events') : \A i \in 1 .. j - 1 : ~ Final(events'[i], cs'.seq)
      <3>1. \A j \in 1 .. Len(events) : \A i \in 1 .. j - 1 : events[i] \in underway
        BY <1>1 DEF Elems
      <3> QED BY <2>1, <2>5, <3>1, Zenon
    <2> QED BY <1>1, <2>1, <2>2, <2>3, <2>4, <2>5, <2>6, Zenon DEF TimerOrder
  <1> QED BY <1>2, <1>3, <1>4, <1>5, ZenonT(40)

\* The session only changes where it is written: who sends a BYE says so.
LEMMA EndingKept ==
  ASSUME LegInv, Ordered, TimerOrder, Ending, [Next]_vars
  PROVE  Ending'
  <1> USE DEF LegInv
  <1>1. /\ cs \in CallStates /\ con \in Consumers /\ ended \subseteq ended'
        /\ cs.seq \in Seqs
    BY Advances, Zenon DEF TypeOK, CallStates, Consumers, Onward
  <1>2. ASSUME UNCHANGED <<cs, acked>>, held' = held,
               con'.pc = "handle" => con.pc = "handle" \/ "states" \in held,
               con'.pc \in {"bye", "hangup"} => con'.msg.kind = "bye",
               owner' \in {"preserve", "release"} => owner \in {"preserve", "release"},
               reap' = reap
        PROVE  Ending'
    BY <1>1, <1>2, Zenon DEF Ending, AckedIsEnded
  \* The CallState may go once somebody has ended the call, or when it was not
  \* acknowledged and the consumer holds no answer.
  <1>3. ASSUME UNCHANGED <<cs, acked>>, held' \subseteq held,
               con'.pc # "handle",
               con'.pc \in {"bye", "hangup"} => con'.msg.kind = "bye",
               owner' \in {"preserve", "release"} => owner \in {"preserve", "release"},
               reap' \subseteq reap,
               acked /\ "states" \in held /\ "states" \notin held' => ended # {}
        PROVE  Ending'
    BY <1>1, <1>3, Zenon DEF Ending, AckedIsEnded
  <1>4. CASE Callee \/ Stack \/ UNCHANGED vars
    <2>1. UNCHANGED <<cs, acked, held, con, owner, reap>>
      BY <1>4, Zenon
      DEF Callee, GetsInvite, Proceeds, Rings, Challenges, Answers, Redirects, Refuses, GetsCancel,
          GetsAck,
          HangsUp, Repeats, Says, GetsBye, Stack, Arrive, TimerB, TimerF, vars
    <2> QED BY <1>2, <2>1, Zenon DEF Ending
  <1>5. CASE TakeResponse \/ TakeBye \/ AcceptBye
    <2>1. UNCHANGED <<cs, acked, held, owner, reap>>
      BY <1>5, Zenon DEF TakeResponse, TakeBye, AcceptBye
    <2>2. con'.pc # "handle" /\ (con'.pc \in {"bye", "hangup"} => con'.msg.kind = "bye")
      BY <1>1, <1>5, Helpers DEF TakeResponse, TakeBye, AcceptBye, Consumers, Ending
    <2> QED BY <1>2, <2>1, <2>2, Zenon
  <1>6. CASE MatchResponse
    <2>1. UNCHANGED <<cs, acked, owner, reap>> /\ con.pc = "match"
      BY <1>6, Zenon DEF MatchResponse
    <2>2. CASE con' = Idle
      <3>1. held' = held \/ (con.msg.kind = "byeok" /\ held' = held \ {"cmap", "states"})
        BY <1>6, Zenon DEF MatchResponse
      <3>2. con.msg.kind = "byeok" => ended # {}
        BY <2>1, Zenon DEF Told, Justified, underway, taken
      <3>3. held' \subseteq held /\ (held' # held => ended # {})
        BY <3>1, <3>2, Zenon
      <3> QED BY <1>3, <2>1, <2>2, <3>3, Helpers, Zenon
    <2>3. CASE con' # Idle
      <3>1. con' = [con EXCEPT !.pc = "handle"] /\ held' = held /\ "states" \in held
        BY <1>6, <2>3, Zenon DEF MatchResponse
      <3>2. con'.pc = "handle"
        BY <1>1, <3>1, Zenon DEF Consumers
      <3> QED BY <1>2, <2>1, <3>1, <3>2, Zenon
    <2> QED BY <2>2, <2>3, Zenon
  \* A challenge or a failure is handled before the acknowledgement.
  <1>7. CASE Challenged \/ Failed
    <2>1. /\ con.pc = "handle" /\ con.msg.code \in {"3xx", "401", "486", "4xx"}
          /\ con' = Idle /\ UNCHANGED <<acked, owner, reap, ended>>
      BY <1>7, Zenon DEF Challenged, Failed, Handling
    <2>2. cs'.abandoned = cs.abandoned /\ (cs'.sess = "Terminating" => cs.sess = "Terminating")
      <3>1. CASE Challenged
        BY <1>1, <3>1, ChallengedCases, ZenonT(60) DEF Resent, Unanswered, Retried, CallStates
      <3>2. CASE Failed
        BY <1>1, <3>2, ZenonT(60) DEF Failed, CallStates
      <3> QED BY <1>7, <3>1, <3>2, Zenon
    <2>3. ~ acked
      BY <2>1, NoFailure, Zenon
    <2> QED BY <2>1, <2>2, <2>3, Helpers, Zenon DEF Ending, AckedIsEnded
  <1>8. CASE Provisional
    <2>1. /\ con.pc = "handle" /\ con.msg.code \in {"100", "180"} /\ con' = Idle
          /\ UNCHANGED <<acked, owner, reap, ended, held>>
      BY <1>8, ProvisionalCases, Zenon
    <2>2. cs'.abandoned = cs.abandoned /\ cs'.sess = "Early"
      BY <1>1, <1>8, ProvisionalCases, Zenon DEF CallStates
    <2>3. ~ acked
      <3>1. con.msg.kind = "response" /\ (acked => con.msg.seq = cs.seq /\ con.msg.code = "180")
        BY <2>1, Zenon DEF Dialog, After
      <3>2. con.msg \in underway /\ con.msg = Response(con.msg.code, con.msg.seq)
        BY <2>1, <3>1, InHand, Kinds, ZenonT(40) DEF TypeOK
      <3> QED BY <1>1, <3>1, <3>2, Zenon DEF Ordered
    <2> QED BY <2>1, <2>2, <2>3, Helpers, Zenon DEF Ending, AckedIsEnded
  <1>9. CASE Answered
    <2>1. con.pc = "handle" /\ con' = Idle /\ UNCHANGED <<owner, reap>> /\ acked'
      BY <1>9, Zenon DEF Answered, Handling
    <2> DEFINE c == [cs EXCEPT !.sess = "Established", !.dlg = IF @ = 0 THEN cs.seq ELSE @]
    <2>2. c.sess = "Established" /\ c.abandoned = cs.abandoned
      BY <1>1, Zenon DEF CallStates
    <2>3. /\ ByeSent(c).sess = "Terminating" /\ ByeSent(c).abandoned = cs.abandoned
      BY <1>1, Zenon DEF CallStates, ByeSent
    <2>4. \/ cs' = ByeSent(c) /\ "us" \in ended'
          \/ cs' = c /\ ~ cs.abandoned /\ held' = held /\ ended' = ended
      BY <1>9, Zenon DEF Answered, SendBye
    <2> HIDE DEF c
    <2>5. /\ cs'.abandoned = cs.abandoned /\ cs'.sess \in {"Established", "Terminating"}
          /\ cs'.sess = "Terminating" => "us" \in ended'
          /\ \/ "us" \in ended'
             \/ ~ cs.abandoned /\ held' = held /\ ended' = ended
      BY <2>2, <2>3, <2>4, ZenonT(40)
    <2> QED BY <2>1, <2>5, Helpers, Zenon DEF Ending, AckedIsEnded
  <1>10. CASE FinishBye
    <2>1. UNCHANGED <<cs, acked, owner, reap>> /\ con.pc = "hangup" /\ con' = Idle
      BY <1>10, ZenonT(40) DEF FinishBye
    <2>2. ended # {}
      BY <2>1, Zenon DEF Ending, Told, Justified, underway, taken
    <2>3. held' \subseteq held
      BY <1>10, Zenon DEF FinishBye, Released
    <2> QED BY <1>3, <2>1, <2>2, <2>3, Helpers, Zenon
  <1>11. CASE TakeTimer
    <2>1. UNCHANGED <<cs, acked, owner, reap, con>> /\ con.pc = "idle" /\ held' \subseteq held
      BY <1>11, Zenon DEF TakeTimer, Released
    <2>2. /\ Head(events) \in Elems(events) /\ Head(events) \in Messages
          /\ Head(events).kind \in {"B", "F"}
      BY <1>11, Shortened, Zenon DEF TakeTimer, Took, TypeOK
    <2>3. Head(events).kind = "F" => "us" \in ended
      BY <2>2, Zenon DEF Told, Justified, underway
    <2>4. Head(events).kind = "B" => ~ acked
      BY <2>2, Kinds, Zenon DEF TimerOrder
    <2> QED BY <1>3, <2>1, <2>2, <2>3, <2>4, Zenon
  <1>12. CASE Reap
    <2>1. /\ UNCHANGED <<cs, acked, owner, con>> /\ reap # {} /\ reap' = {} /\ con = Idle
          /\ held' \subseteq held
      BY <1>12, Zenon DEF Reap
    <2>2. acked => ended # {}
      BY <2>1, Zenon DEF Ending
    <2> QED BY <1>3, <2>1, <2>2, Helpers, Zenon
  <1>13. CASE SendInvite
    <2>1. UNCHANGED <<cs, acked, reap, con>> /\ owner' \in {"sent", "done"} /\ held' \subseteq held
          /\ owner = "new"
      BY <1>13, Zenon DEF SendInvite, Quiet
    <2>2. ~ acked /\ con.pc = "idle"
      BY <2>1, Zenon DEF Dialog, After, TypeOK
    <2> QED BY <1>3, <2>1, <2>2, Zenon
  <1>14. CASE RegisterCallId \/ RegisterSession \/ RegisterNotify \/ SyncState
              \/ SeesAnswer \/ SeesRefusal \/ GivesUp \/ BridgeEnds
    <2>1. /\ UNCHANGED <<cs, acked, reap, con>> /\ held \subseteq held'
          /\ owner' \notin {"preserve", "release"}
      BY <1>14, Zenon
      DEF RegisterCallId, RegisterSession, RegisterNotify, Register, SyncState, SeesAnswer,
          SeesRefusal, GivesUp, Waits, BridgeEnds, Quiet
    <2> QED BY <1>1, <2>1, Zenon DEF Ending, AckedIsEnded
  <1>15. CASE Lookup
    <2>1. /\ UNCHANGED <<cs, acked, reap, con>> /\ owner' \notin {"preserve", "release"}
          /\ "states" \in held' <=> "states" \in held
      BY <1>15, Zenon DEF Lookup, Quiet, Released, Registries, Media
    <2> QED BY <1>1, <2>1, Zenon DEF Ending, AckedIsEnded
  <1>16. CASE Cancel
    <2>1. UNCHANGED <<acked, reap, con, held>>
      BY <1>16, Zenon DEF Cancel, Quiet
    <2> DEFINE c == [cs EXCEPT !.abandoned = TRUE]
    <2>2. c.abandoned /\ c.sess = cs.sess
      BY <1>1, Zenon DEF CallStates
    <2>3. ByeSent(c).abandoned /\ ByeSent(c).sess = "Terminating"
      BY <1>1, Zenon DEF CallStates, ByeSent
    <2>4. \/ cs.sess # "Established" /\ cs' = c /\ ended' = ended
          \/ cs.sess = "Established" /\ cs' = ByeSent(c) /\ "us" \in ended'
      BY <1>16, Zenon DEF Cancel, SendBye
    <2> HIDE DEF c
    <2>5. /\ cs'.abandoned
          /\ \/ "us" \in ended' /\ cs'.sess = "Terminating"
             \/ cs.sess # "Established" /\ cs'.sess = cs.sess /\ ended' = ended
      BY <2>2, <2>3, <2>4, Zenon
    <2> QED BY <1>1, <2>1, <2>5, Zenon DEF Ending, AckedIsEnded
  <1>17. CASE Preserve \/ Release
    <2>1. UNCHANGED <<cs, acked, con, ended>> /\ owner' = "done"
          /\ owner \in {"preserve", "release"}
      BY <1>17, Zenon DEF Preserve, Release, Quiet
    <2>2. cs.abandoned /\ (acked => ended # {})
      BY <2>1, Zenon DEF Ending
    <2> QED BY <2>1, <2>2, Zenon DEF Ending, AckedIsEnded
  <1>18. CASE EndCall
    <2>1. UNCHANGED <<acked, con>> /\ owner' = "done" /\ owner = "sendbye"
      BY <1>18, Zenon DEF EndCall, Quiet
    <2>2. acked
      BY <2>1, ZenonT(40) DEF Dialog, Before
    <2>3. acked /\ cs.dlg # 0
      BY <1>1, <2>2, SMTT(30) DEF Dialog, After, Seqs
    <2>4. cs' = ByeSent(cs) /\ "us" \in ended'
      BY <1>18, <2>3, Zenon DEF EndCall, SendBye
    <2>5. cs'.sess = "Terminating"
      BY <1>1, <2>4, Byes, Zenon
    <2> QED BY <2>1, <2>4, <2>5, Zenon DEF Ending, AckedIsEnded
  <1> QED
    BY <1>4, <1>5, <1>6, <1>7, <1>8, <1>9, <1>10, <1>11, <1>12, <1>13, <1>14, <1>15,
       <1>16,
       <1>17, <1>18, ZenonT(60)
    DEF Next, Consumer, OwnerTask

\* Where the network does not reorder, the CallState of a leg whose 2xx was
\* acknowledged is removed only once one side has sent BYE (handle_response,
\* handle_bye, handle_client_transaction_timeout, the owner and the reapers, in
\* any order).
THEOREM LegAckedIsEnded ==
  "reorder" \notin Env => (Spec => []AckedIsEnded)
  <1> SUFFICES ASSUME "reorder" \notin Env PROVE Spec => []AckedIsEnded
    BY Zenon
  <1> DEFINE Inv == Ordered /\ TimerOrder /\ Ending
  <1>1. Init => Inv
    <2> SUFFICES ASSUME Init PROVE Inv
      BY ZenonT(60)
    <2>1. net = <<>> /\ events = <<>> /\ handling = {} /\ taken = {}
      BY Zenon DEF Init, Idle, handling, taken
    <2>2. Elems(net) = {} /\ Elems(events) = {}
      BY <2>1 DEF Elems
    <2>3. Ordered
      <3>1. InOrder(<<>>)
        <4>1. 1 .. Len(<<>>) = {}
          OBVIOUS
        <4> QED BY <4>1, Zenon DEF InOrder
      <3>2. underway = {} /\ ~ acked
        BY <2>1, <2>2, Zenon DEF underway, Init
      <3> QED BY <2>1, <2>2, <3>1, <3>2, Zenon DEF Ordered
    <2>4. TimerOrder
      <3>1. pending = {} /\ ~ acked /\ cs.seq = 1 /\ Len(events) = 0
        BY <2>1, Zenon DEF Init, pending
      <3>2. 1 .. Len(events) = {} /\ Elems(events) \cup handling = {}
        BY <2>1, <2>2, <3>1
      <3> QED BY <2>2, <3>1, <3>2, Zenon DEF TimerOrder
    <2>5. Ending
      BY Zenon DEF Init, Ending, AckedIsEnded, Idle
    <2> QED BY <2>3, <2>4, <2>5, Zenon
  <1>2. LegInv /\ Inv /\ [Next]_vars => Inv'
    BY OrderedKept, TimerOrderKept, EndingKept, Zenon
  <1>3. Inv => AckedIsEnded
    BY Zenon DEF Ending
  <1> QED BY <1>1, <1>2, <1>3, LegInvariant, PTL DEF Spec

-----------------------------------------------------------------------------
(* Counting the challenges.                                                 *)

INSTANCE FiniteSetTheorems

\* A retry per challenge: the INVITEs before the last were all challenged, as long
\* as the callee does not challenge an INVITE it has rung for (the dialog a 180
\* creates otherwise lets the same 401 match twice).
THEOREM LegOneRetryPerChallenge ==
  "early" \notin Env => (Spec => []OneRetryPerChallenge)
  <1> SUFFICES ASSUME "early" \notin Env PROVE Spec => []OneRetryPerChallenge
    BY Zenon
  <1>1. Init => Retries
    <2> SUFFICES ASSUME Init PROVE Retries
      BY ZenonT(60)
    <2>1. underway = {}
      <3>1. net = <<>> /\ events = <<>> /\ taken = {}
        BY Zenon DEF Init, taken, Idle
      <3>2. 1 .. Len(<<>>) = {}
        OBVIOUS
      <3>3. Elems(net) = {} /\ Elems(events) = {}
        BY <3>1, <3>2, ZenonT(60) DEF Elems
      <3> QED BY <3>1, <3>3, Zenon DEF underway
    <2>2. cs.seq = 1 /\ cs.dlg = 0 /\ \A s \in Seqs : ~ (s < 1)
      BY LegAssumption DEF Init, Seqs
    <2> QED BY <2>1, <2>2, Zenon DEF Retries
  <1>2. LegInv /\ Retries /\ [Next]_vars => Retries'
    BY RetriesKept, Zenon
  <1>3. LegInv /\ Retries => OneRetryPerChallenge
    <2> SUFFICES ASSUME LegInv, Retries PROVE OneRetryPerChallenge
      BY Zenon
    <2> DEFINE C == {s \in Seqs : uas[s] = "challenged"}
    <2>1. cs.seq \in 1 .. MaxAuthAttempts + 1 /\ cs.seq - 1 \in Nat
      BY LegAssumption, SMTT(30) DEF LegInv, TypeOK, Seqs
    <2>2. 1 .. cs.seq - 1 \subseteq C
      BY <2>1, LegAssumption, SMTT(30) DEF Retries, Seqs
    <2>3. IsFiniteSet(1 .. MaxAuthAttempts + 1)
      BY LegAssumption, FS_Interval
    <2>4. IsFiniteSet(C)
      BY <2>3, FS_Subset, ZenonT(60) DEF Seqs
    <2>5. Cardinality(1 .. cs.seq - 1) = cs.seq - 1
      BY <2>1, FS_Interval
    <2>6. Cardinality(1 .. cs.seq - 1) <= Cardinality(C)
      BY <2>2, <2>4, FS_Subset, Zenon
    <2> QED BY <2>5, <2>6, Zenon DEF OneRetryPerChallenge
  <1> QED BY <1>1, <1>2, <1>3, LegInvariant, PTL DEF Spec

====
