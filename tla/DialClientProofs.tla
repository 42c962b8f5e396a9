-------------------------- MODULE DialClientProofs --------------------------
(***************************************************************************)
(* Proofs about two parts that share no state: the Dial application        *)
(* (DialApp) and the client transactions (SipClient).                      *)
(***************************************************************************)
EXTENDS DialApp, SipClient, TLAPS

(***************************************************************************)
(* For every number of destinations: Dial leaves no phone ringing or       *)
(* talking but the one it bridges, and reports BUSY only when all were.    *)
(*                                                                         *)
(* ForkIsResolved is not inductive: while the losers are hung up one by    *)
(* one it says nothing, and a leg that the loop skips is safe only because *)
(* a leg that is HungUp has a phone that is in no call.  The strengthening *)
(* says what holds for the legs behind and ahead of each of the two loops. *)
(* BUSY is tied to the phones through the leg states, and those through    *)
(* the store's copies.                                                     *)
(***************************************************************************)

LegStates == {"Dialing", "Ringing", "Answered", "Busy", "Unavailable", "HungUp"}
ChanStates == {"Down", "Dialing", "Ring", "Ringing", "Busy", "Up"}
Phones == {"idle", "alerting", "talking", "busy", "refused", "over"}

Flags == {"dev", "goto", "timeout"}

\* The shape of the state, as far as the argument looks at it.
Shape ==
  /\ tech \in [Dest -> Technologies]
  /\ turn \in Nat
  /\ dial \in {"calling", "called", "hanging up"} => turn \in Dest
  /\ leg \in [Dest -> LegStates]
  /\ own \in [Dest -> ChanStates]
  /\ phone \in [Dest -> Phones]

StoreShape ==
  store \in [Dest -> [here : BOOLEAN, state : ChanStates, flags : SUBSET Flags]]

\* The calls are made in order: what is ahead of the loop is untouched.
Ahead(d) == \/ dial = "calling" /\ d >= turn
            \/ dial = "called" /\ d > turn
Untouched == /\ \A d \in Dest : Ahead(d) => phone[d] = "idle" /\ leg[d] = "Dialing"
             /\ dial \in {"calling", "called", "waiting"} => dialstatus = "none"

\* A leg that is hung up, for whatever reason, has a phone in no call.
HungUpIsQuiet == \A d \in Sip : leg[d] = "HungUp" => ~InCall(d)

\* The loop over the losers has dealt with what is behind it.
Behind == dial = "hanging up" =>
            \A d \in Sip : d < turn /\ d # winner => ~InCall(d)

\* A leg is busy only when its phone said so.
BusyIsTold ==
  \A d \in Dest :
    /\ own[d] # "Busy"
    /\ store[d].state = "Busy" => phone[d] = "busy"
    /\ leg[d] = "Busy" => phone[d] = "busy"

DialInv == /\ Shape /\ StoreShape /\ Untouched /\ HungUpIsQuiet /\ Behind
           /\ ForkIsResolved /\ BusyIsTold /\ BusyMeansAllBusy

-------------------------------------------------------------------------------
\* What the loops need to know of the positions.
LEMMA DestPositive ==
  Dest \subseteq Nat /\ 1 \in Dest /\ \A d \in Dest : d # 0 /\ ~ (d < 1)
  BY DialAssumption DEF Dest

\* The positions before the next one are those up to this one.
LEMMA DestStep ==
  ASSUME NEW t \in Dest
  PROVE  /\ t + 1 \in Nat
         /\ \A e \in Dest : (e <= t => e < t \/ e = t) /\ (e < t + 1 => e <= t)
  BY DialAssumption DEF Dest

\* The last turn of a loop has covered every destination.
LEMMA DestLast ==
  ASSUME NEW t \in Dest, t + 1 \notin Dest PROVE \A d \in Dest : d <= t
  BY DialAssumption DEF Dest

\* What a write of one field leaves of the store's copies.
LEMMA WriteFlags ==
  ASSUME StoreShape, NEW d, NEW v,
         d \in Dest => v \in SUBSET Flags,
         store' = [store EXCEPT ![d].flags = v]
  PROVE  StoreShape' /\ \A e \in Dest : store'[e].state = store[e].state
  <1>1. CASE d \in Dest
    <2>1. store'[d] = [here |-> store[d].here, state |-> store[d].state, flags |-> v]
      BY <1>1, Zenon DEF StoreShape
    <2>2. \A e \in Dest : e # d => store'[e] = store[e]
      BY Zenon DEF StoreShape
    <2>3. store' = [e \in Dest |-> store'[e]]
      BY Zenon DEF StoreShape
    <2> QED BY <1>1, <2>1, <2>2, <2>3 DEF StoreShape
  <1>2. CASE d \notin Dest
    BY <1>2, Zenon DEF StoreShape
  <1> QED BY <1>1, <1>2, Zenon

\* The same for the state of one channel.
LEMMA WriteState ==
  ASSUME StoreShape, NEW d \in Dest, NEW v \in ChanStates,
         store' = [store EXCEPT ![d].state = v]
  PROVE  /\ StoreShape'
         /\ store'[d].state = v
         /\ \A e \in Dest : e # d => store'[e].state = store[e].state
  <1>1. store'[d] = [here |-> store[d].here, state |-> v, flags |-> store[d].flags]
    BY Zenon DEF StoreShape
  <1>2. \A e \in Dest : e # d => store'[e] = store[e]
    BY Zenon DEF StoreShape
  <1>3. store' = [e \in Dest |-> store'[e]]
    BY Zenon DEF StoreShape
  <1> QED BY <1>1, <1>2, <1>3 DEF StoreShape

\* A soft hangup writes a flag and no state.
LEMMA ToldKeeps ==
  ASSUME StoreShape, NEW d, NEW flag \in Flags, Told(d, flag)
  PROVE  StoreShape' /\ \A e \in Dest : store'[e].state = store[e].state
  <1> DEFINE v == IF store[d].here THEN store[d].flags \cup {flag} ELSE store[d].flags
  <1>1. d \in Dest => v \in SUBSET Flags
    BY Zenon DEF StoreShape
  <1>2. store' = [store EXCEPT ![d].flags = v]
    BY Zenon DEF Told
  <1> QED BY <1>1, <1>2, WriteFlags, Zenon

\* The event handler writes the state of one channel, if it is still there.
LEMMA SetWrites ==
  ASSUME StoreShape, NEW d \in Dest, NEW s \in ChanStates, store' = Set(d, s)
  PROVE  /\ StoreShape'
         /\ store'[d].state \in {s, store[d].state}
         /\ \A e \in Dest : e # d => store'[e].state = store[e].state
  <1> DEFINE v == IF store[d].here THEN s ELSE store[d].state
  <1>1. v \in ChanStates
    BY Zenon DEF StoreShape
  <1>2. store' = [store EXCEPT ![d].state = v]
    BY Zenon DEF Set
  <1> QED BY <1>1, <1>2, WriteState, ZenonT(60)
\* The initial states satisfy the invariant.
LEMMA DialInitInv == DialInit => DialInv
  BY DestPositive
  DEF DialInit, DialInv, Shape, StoreShape, Untouched, Ahead, HungUpIsQuiet,
      Behind, ForkIsResolved, BusyIsTold, BusyMeansAllBusy, InCall, Absent, Sip,
      LegStates, ChanStates, Phones, Flags

\* Every step of Dial and of its surroundings keeps it.
LEMMA DialNextInv == DialInv /\ [DialNext]_dialVars => DialInv'
  <1> SUFFICES ASSUME DialInv, [DialNext]_dialVars PROVE DialInv'
      BY Zenon
  <1> USE DEF DialInv, Sip, Local, InCall
  <1>1. CASE CallLeg
    <2> DEFINE new == [Absent EXCEPT !.here = TRUE]
    <2>0. /\ dial = "calling" /\ turn \in Dest /\ tech' = tech
          /\ store' = [store EXCEPT ![turn] = new]
          /\ new \in [here : BOOLEAN, state : {"Down"}, flags : {{}}]
      BY <1>1, Zenon DEF Shape, CallLeg, Absent
    <2> HIDE DEF new
    <2>a. leg[turn] = "Dialing" /\ phone[turn] = "idle"
      BY <1>1, <2>0, DestPositive DEF Untouched, Ahead, CallLeg
    <2>b. /\ \A e \in Dest : e # turn => phone'[e] = phone[e] /\ leg'[e] = leg[e]
          /\ leg'[turn] = "HungUp" => phone'[turn] = "idle"
      BY <1>1, <2>0, <2>a DEF Shape, CallLeg
    <2>1. Shape'
      <3>1. CASE dial' = "called"
        BY <1>1, <2>0, <3>1 DEF Shape, CallLeg, ChanStates, Phones
      <3>2. CASE dial' # "called"
        <4>1. /\ leg' = [leg EXCEPT ![turn] = "HungUp"] /\ turn' = turn + 1
              /\ dial' = IF turn + 1 \in Dest THEN "calling" ELSE "waiting"
              /\ UNCHANGED <<own, phone, tech>>
          BY <1>1, <3>2, Zenon DEF CallLeg
        <4> QED BY <2>0, <4>1 DEF Shape, LegStates
      <3> QED BY <3>1, <3>2, Zenon
    <2>2. StoreShape'
      BY <2>0, Zenon DEF StoreShape, ChanStates
    <2>3. Untouched' /\ HungUpIsQuiet'
      <3>1. Untouched'
        <4>1. dialstatus' = dialstatus /\ dial' \in {"calling", "called", "waiting"}
          BY <1>1, Zenon DEF CallLeg
        <4>2. \A e \in Dest : Ahead(e)' => Ahead(e) /\ e # turn
          BY <1>1, <2>0, DestPositive DEF Ahead, CallLeg
        <4> QED BY <2>0, <2>b, <4>1, <4>2 DEF Untouched
      <3>2. HungUpIsQuiet'
        BY <2>0, <2>b, Zenon DEF HungUpIsQuiet
      <3> QED BY <3>1, <3>2, Zenon
    <2>4. Behind' /\ ForkIsResolved'
      BY <1>1 DEF Behind, ForkIsResolved, CallLeg
    <2>5. BusyIsTold'
      <3>1. own'[turn] # "Busy" /\ leg'[turn] # "Busy" /\ store'[turn].state # "Busy"
        BY <1>1, <2>0, <2>a DEF Shape, StoreShape, BusyIsTold, CallLeg
      <3>2. \A e \in Dest : e # turn => /\ own'[e] = own[e] /\ leg'[e] = leg[e]
                                       /\ phone'[e] = phone[e] /\ store'[e] = store[e]
        BY <1>1, <2>0 DEF Shape, StoreShape, CallLeg
      <3> QED BY <3>1, <3>2, Zenon DEF BusyIsTold
    <2>6. BusyMeansAllBusy'
      BY <1>1, Zenon DEF Shape, Untouched, BusyIsTold, BusyMeansAllBusy, CallLeg, Absent
    <2> QED BY <2>1, <2>2, <2>3, <2>4, <2>5, <2>6, Zenon
  <1>2. CASE SyncLeg
    <2>0. turn \in Dest
      BY <1>2, Zenon DEF Shape, SyncLeg
    <2> DEFINE v == IF store[turn].here THEN own[turn] ELSE store[turn].state
    <2>a. v \in ChanStates /\ store' = [store EXCEPT ![turn].state = v]
      BY <1>2, <2>0, Zenon DEF Shape, StoreShape, SyncLeg
    <2> HIDE DEF v
    <2>1. Shape'
      BY <1>2, <2>0, DestPositive DEF Shape, SyncLeg
    <2>2. StoreShape'
      BY <2>0, <2>a, WriteState, Zenon
    <2>3. Untouched' /\ HungUpIsQuiet'
      BY <1>2, <2>0, DestPositive DEF Shape, Untouched, Ahead, HungUpIsQuiet, SyncLeg
    <2>4. Behind' /\ ForkIsResolved'
      BY <1>2, Zenon DEF Shape, Behind, ForkIsResolved, SyncLeg
    <2>5. BusyIsTold'
      <3>1. v = "Busy" => store[turn].state = "Busy"
        BY <2>0, Zenon DEF v, BusyIsTold
      <3> QED BY <1>2, <2>0, <2>a, <3>1, WriteState DEF BusyIsTold, SyncLeg
    <2>6. BusyMeansAllBusy'
      BY <1>2, Zenon DEF Shape, Untouched, BusyIsTold, BusyMeansAllBusy, SyncLeg
    <2> QED BY <2>1, <2>2, <2>3, <2>4, <2>5, <2>6
  <1>3. CASE PassAnswered
    <2>1. Shape'
      BY <1>3, DestPositive DEF Shape, LegStates, PassAnswered, Resolved, seen,
         effective_state, Trying
    <2>2. StoreShape'
      BY <1>3 DEF StoreShape, ChanStates, Flags, PassAnswered, Resolved, seen,
         effective_state, Trying
    <2>3. Untouched' /\ HungUpIsQuiet'
      BY <1>3 DEF Shape, Untouched, Ahead, HungUpIsQuiet, PassAnswered, Resolved,
         seen, effective_state, Trying
    <2>4. Behind' /\ ForkIsResolved'
      <3>1. turn' = 1 /\ dial' = "hanging up" /\ tech' = tech
        BY <1>3 DEF PassAnswered, Resolved
      <3> QED BY <3>1, DestPositive DEF Behind, ForkIsResolved
    <2>5. BusyIsTold'
      BY <1>3 DEF Shape, StoreShape, Untouched, Ahead, BusyIsTold, PassAnswered,
         Resolved, seen, effective_state, Trying
    <2>6. BusyMeansAllBusy'
      BY <1>3 DEF Shape, Untouched, BusyIsTold, BusyMeansAllBusy, PassAnswered,
         Resolved, seen, effective_state, Trying
    <2> QED BY <2>1, <2>2, <2>3, <2>4, <2>5, <2>6
  <1>4. CASE Pass
    <2>1. Shape'
      BY <1>4, Zenon DEF Shape, LegStates, ChanStates, Phones, Pass, seen, effective_state,
         Trying
    <2>2. StoreShape'
      BY <1>4, Zenon DEF StoreShape, ChanStates, Flags, Pass, seen, effective_state, Trying
    <2>3. Untouched' /\ HungUpIsQuiet'
      BY <1>4, Zenon DEF Shape, Untouched, Ahead, HungUpIsQuiet, Pass, seen, effective_state,
         Trying
    <2>4. Behind' /\ ForkIsResolved'
      BY <1>4, Zenon DEF Shape, Behind, ForkIsResolved, Pass, seen, effective_state, Trying
    <2>5. BusyIsTold'
      BY <1>4, Zenon DEF Shape, StoreShape, Untouched, Ahead, BusyIsTold, Pass, seen,
         effective_state, Trying
    <2>6. BusyMeansAllBusy'
      BY <1>4, Zenon DEF Shape, Untouched, BusyIsTold, BusyMeansAllBusy, Pass, seen,
         effective_state, Trying
    <2> QED BY <2>1, <2>2, <2>3, <2>4, <2>5, <2>6
  <1>5. CASE NoneTrying
    <2>1. Shape'
      BY <1>5, DestPositive DEF Shape, LegStates, NoneTrying, Resolved, all_busy
    <2>2. StoreShape'
      BY <1>5 DEF StoreShape, ChanStates, Flags, NoneTrying, Resolved, all_busy
    <2>3. Untouched' /\ HungUpIsQuiet'
      BY <1>5 DEF Shape, Untouched, Ahead, HungUpIsQuiet, NoneTrying, Resolved, all_busy
    <2>4. Behind' /\ ForkIsResolved'
      <3>1. turn' = 1 /\ dial' = "hanging up" /\ tech' = tech
        BY <1>5 DEF NoneTrying, Resolved
      <3> QED BY <3>1, DestPositive DEF Behind, ForkIsResolved
    <2>5. BusyIsTold'
      BY <1>5 DEF Shape, StoreShape, Untouched, Ahead, BusyIsTold, NoneTrying,
         Resolved, all_busy
    <2>6. BusyMeansAllBusy'
      BY <1>5 DEF Shape, Untouched, BusyIsTold, BusyMeansAllBusy, NoneTrying,
         Resolved, all_busy
    <2> QED BY <2>1, <2>2, <2>3, <2>4, <2>5, <2>6
  <1>6. CASE HangUpLeg
    <2>0. /\ dial = "hanging up" /\ turn \in Dest /\ tech' = tech /\ winner' = winner
          /\ turn' = turn + 1
      BY <1>6 DEF Shape, HangUpLeg
    <2>a. \A e \in Dest : e # turn => /\ own'[e] = own[e] /\ leg'[e] = leg[e]
                                     /\ phone'[e] = phone[e] /\ store'[e] = store[e]
      BY <1>6, <2>0 DEF Shape, StoreShape, HangUpLeg
    <2>b. /\ spared(turn) => UNCHANGED <<leg, own, store, phone>>
          /\ ~spared(turn) =>
               /\ leg'[turn] = "HungUp" /\ own'[turn] = "Down"
               /\ store'[turn] = Absent /\ phone'[turn] = ended(turn)
      <3>1. ASSUME spared(turn) PROVE UNCHANGED <<leg, own, store, phone>>
        BY <1>6, <3>1 DEF HangUpLeg
      <3>2. ASSUME ~spared(turn)
            PROVE  /\ leg' = [leg EXCEPT ![turn] = "HungUp"]
                   /\ own' = [own EXCEPT ![turn] = "Down"]
                   /\ store' = [store EXCEPT ![turn] = Absent]
                   /\ phone' = [phone EXCEPT ![turn] = ended(turn)]
        BY <1>6, <3>2 DEF HangUpLeg
      <3> QED BY <2>0, <3>1, <3>2 DEF Shape, StoreShape
    <2>c. turn \in Sip /\ turn # winner => phone'[turn] \notin {"alerting", "talking"}
      BY <1>6, <2>0, <2>b DEF HungUpIsQuiet, spared, ended
    <2>d. phone'[turn] \in {phone[turn], "over"} /\ (phone[turn] = "busy" =>
       phone'[turn] = "busy")
      BY <2>b, Zenon DEF ended
    <2>1. Shape'
      <3>1. leg' \in [Dest -> LegStates] /\ own' \in [Dest -> ChanStates]
        BY <1>6 DEF Shape, HangUpLeg, LegStates, ChanStates
      <3>2. phone' \in [Dest -> Phones]
        BY <1>6 DEF Shape, HangUpLeg, ended, Phones
      <3>3. dial' = "hanging up" => turn' \in Dest
        BY <1>6, <2>0 DEF HangUpLeg
      <3>4. dial' \notin {"calling", "called"}
        BY <1>6 DEF HangUpLeg
      <3> QED BY <2>0, <3>1, <3>2, <3>3, <3>4, DestStep DEF Shape
    <2>2. StoreShape'
      <3>1. CASE spared(turn)
        BY <1>6, <3>1 DEF StoreShape, HangUpLeg
      <3>2. CASE ~spared(turn)
        <4>1. store' = [store EXCEPT ![turn] = Absent]
          BY <1>6, <3>2 DEF HangUpLeg
        <4> QED BY <4>1, Zenon DEF StoreShape, Absent, ChanStates
      <3> QED BY <3>1, <3>2, Zenon
    <2>3. Untouched' /\ HungUpIsQuiet'
      <3>1. Untouched'
        BY <1>6 DEF Untouched, Ahead, HangUpLeg
      <3>2. HungUpIsQuiet'
        <4>1. turn \in Sip /\ leg'[turn] = "HungUp" => phone'[turn] \notin
           {"alerting", "talking"}
          BY <2>0, <2>b DEF HungUpIsQuiet, ended
        <4> QED BY <1>6, <2>a, <4>1 DEF HungUpIsQuiet, HangUpLeg
      <3> QED BY <3>1, <3>2
    <2>4. Behind' /\ ForkIsResolved'
      <3>1. \A e \in Sip : e <= turn /\ e # winner => phone'[e] \notin {"alerting",
         "talking"}
        <4>1. \A e \in Dest : e <= turn => e < turn \/ e = turn
          BY <2>0, DestStep
        <4> QED BY <2>0, <2>a, <2>c, <4>1 DEF Behind
      <3>2. Behind'
        <4>1. \A e \in Dest : e < turn + 1 => e <= turn
          BY <2>0, DestStep
        <4> QED BY <2>0, <3>1, <4>1 DEF Behind
      <3>3. CASE turn + 1 \in Dest
        <4>1. dial' = "hanging up"
          BY <1>6, <3>3 DEF HangUpLeg
        <4> QED BY <3>2, <4>1 DEF ForkIsResolved
      <3>4. CASE turn + 1 \notin Dest
        <4>1. \A e \in Sip : e <= turn
          BY <2>0, <3>4, DestLast
        <4>2. \A e \in Sip : winner = 0 => e # winner
          BY DestPositive, Zenon
        <4> QED BY <1>6, <3>1, <3>2, <3>4, <4>1, <4>2 DEF ForkIsResolved, HangUpLeg
      <3> QED BY <3>2, <3>3, <3>4, Zenon
    <2>5. BusyIsTold'
      <3>1. CASE spared(turn)
        BY <1>6, <3>1 DEF BusyIsTold, HangUpLeg
      <3>2. CASE ~spared(turn)
        <4>1. own'[turn] # "Busy" /\ leg'[turn] # "Busy" /\ store'[turn].state # "Busy"
          BY <2>b, <3>2 DEF Absent
        <4> QED BY <2>a, <4>1, Zenon DEF BusyIsTold
      <3> QED BY <3>1, <3>2, Zenon
    <2>6. BusyMeansAllBusy'
      BY <1>6, <2>a, <2>d DEF BusyMeansAllBusy, HangUpLeg
    <2> QED BY <2>1, <2>2, <2>3, <2>4, <2>5, <2>6
  <1>7. CASE StartBridge
    <2>1. Shape'
      BY <1>7, Zenon DEF Shape, LegStates, ChanStates, Phones, StartBridge
    <2>2. StoreShape'
      BY <1>7 DEF StoreShape, ChanStates, Flags, StartBridge
    <2>3. Untouched' /\ HungUpIsQuiet'
      BY <1>7, Zenon DEF Shape, Untouched, Ahead, HungUpIsQuiet, StartBridge
    <2>4. Behind' /\ ForkIsResolved'
      BY <1>7, Zenon DEF Shape, Behind, ForkIsResolved, StartBridge
    <2>5. BusyIsTold'
      BY <1>7 DEF Shape, StoreShape, Untouched, Ahead, BusyIsTold, StartBridge
    <2>6. BusyMeansAllBusy'
      BY <1>7, Zenon DEF Shape, Untouched, BusyIsTold, BusyMeansAllBusy, StartBridge
    <2> QED BY <2>1, <2>2, <2>3, <2>4, <2>5, <2>6
  <1>8. CASE BridgeEnds
    <2>1. Shape'
      BY <1>8, Zenon DEF Shape, LegStates, ChanStates, Phones, BridgeEnds
    <2>2. StoreShape'
      BY <1>8, Zenon DEF StoreShape, ChanStates, Flags, BridgeEnds
    <2>3. Untouched' /\ HungUpIsQuiet'
      BY <1>8, Zenon DEF Shape, Untouched, Ahead, HungUpIsQuiet, BridgeEnds
    <2>4. Behind' /\ ForkIsResolved'
      BY <1>8, Zenon DEF Shape, Behind, ForkIsResolved, BridgeEnds
    <2>5. BusyIsTold'
      BY <1>8, Zenon DEF Shape, StoreShape, Untouched, Ahead, BusyIsTold, BridgeEnds
    <2>6. BusyMeansAllBusy'
      BY <1>8, Zenon DEF Shape, Untouched, BusyIsTold, BusyMeansAllBusy, BridgeEnds
    <2> QED BY <2>1, <2>2, <2>3, <2>4, <2>5, <2>6
  <1>9. CASE RunRedirected
    <2>0. StoreShape' /\ \A e \in Dest : store'[e].state = store[e].state
      <3>1. CASE store' = store
        BY <3>1, Zenon DEF StoreShape
      <3>2. CASE store' = [store EXCEPT ![winner].flags = @ \ {"goto"}]
        <4>1. winner \in Dest => store[winner].flags \ {"goto"} \in SUBSET Flags
          BY Zenon DEF StoreShape
        <4> DEFINE v == store[winner].flags \ {"goto"}
        <4>2. store' = [store EXCEPT ![winner].flags = v] /\ (winner \in Dest => v \in
           SUBSET Flags)
          BY <3>2, <4>1, Zenon
        <4>3. StoreShape
          BY Zenon
        <4> HIDE DEF v
        <4> QED BY <4>2, <4>3, WriteFlags, Zenon
      <3> QED BY <1>9, <3>1, <3>2, Zenon DEF RunRedirected
    <2>1. Shape'
      BY <1>9, Zenon DEF Shape, LegStates, ChanStates, Phones, RunRedirected
    <2>2. StoreShape'
      BY <1>9, <2>0, Zenon DEF RunRedirected
    <2>3. Untouched' /\ HungUpIsQuiet'
      BY <1>9, Zenon DEF Shape, Untouched, Ahead, HungUpIsQuiet, RunRedirected
    <2>4. Behind' /\ ForkIsResolved'
      BY <1>9, Zenon DEF Shape, Behind, ForkIsResolved, RunRedirected
    <2>5. BusyIsTold'
      BY <1>9, <2>0, Zenon DEF BusyIsTold, RunRedirected
    <2>6. BusyMeansAllBusy'
      BY <1>9, Zenon DEF Shape, Untouched, BusyIsTold, BusyMeansAllBusy, RunRedirected
    <2> QED BY <2>1, <2>2, <2>3, <2>4, <2>5, <2>6
  <1>10. CASE ByeCallee
    <2>1. Shape'
      BY <1>10, Zenon DEF Shape, LegStates, ChanStates, Phones, ByeCallee, ended, Absent
    <2>2. StoreShape'
      BY <1>10, Zenon DEF StoreShape, ChanStates, Flags, ByeCallee, ended, Absent
    <2>3. Untouched' /\ HungUpIsQuiet'
      BY <1>10, Zenon DEF Shape, Untouched, Ahead, HungUpIsQuiet, ByeCallee, ended, Absent
    <2>4. Behind' /\ ForkIsResolved'
      BY <1>10, Zenon DEF Shape, Behind, ForkIsResolved, ByeCallee, ended, Absent
    <2>5. BusyIsTold'
      BY <1>10, Zenon DEF Shape, StoreShape, Untouched, Ahead, BusyIsTold, ByeCallee, ended,
         Absent
    <2>6. BusyMeansAllBusy'
      BY <1>10, Zenon DEF Shape, Untouched, BusyIsTold, BusyMeansAllBusy, ByeCallee, ended,
         Absent
    <2> QED BY <2>1, <2>2, <2>3, <2>4, <2>5, <2>6
  <1>11. CASE DialTimeout
    <2>1. Shape'
      BY <1>11, DestPositive DEF Shape, LegStates, DialTimeout, Resolved
    <2>2. StoreShape'
      BY <1>11 DEF StoreShape, ChanStates, Flags, DialTimeout, Resolved
    <2>3. Untouched' /\ HungUpIsQuiet'
      BY <1>11 DEF Shape, Untouched, Ahead, HungUpIsQuiet, DialTimeout, Resolved
    <2>4. Behind' /\ ForkIsResolved'
      <3>1. turn' = 1 /\ dial' = "hanging up" /\ tech' = tech
        BY <1>11 DEF DialTimeout, Resolved
      <3> QED BY <3>1, DestPositive DEF Behind, ForkIsResolved
    <2>5. BusyIsTold'
      BY <1>11 DEF Shape, StoreShape, Untouched, Ahead, BusyIsTold, DialTimeout,
         Resolved
    <2>6. BusyMeansAllBusy'
      BY <1>11 DEF Shape, Untouched, BusyIsTold, BusyMeansAllBusy, DialTimeout, Resolved
    <2> QED BY <2>1, <2>2, <2>3, <2>4, <2>5, <2>6
  <1>12. CASE BridgeDeadline
    <2>1. Shape'
      BY <1>12, Zenon DEF Shape, LegStates, ChanStates, Phones, BridgeDeadline, Told
    <2>2. StoreShape'
      BY <1>12, ToldKeeps, Zenon DEF Flags, BridgeDeadline
    <2>3. Untouched' /\ HungUpIsQuiet'
      BY <1>12, Zenon DEF Shape, Untouched, Ahead, HungUpIsQuiet, BridgeDeadline, Told
    <2>4. Behind' /\ ForkIsResolved'
      BY <1>12, Zenon DEF Shape, Behind, ForkIsResolved, BridgeDeadline, Told
    <2>5. BusyIsTold'
      <3>1. \A e \in Dest : store'[e].state = store[e].state
        BY <1>12, ToldKeeps, Zenon DEF Flags, BridgeDeadline
      <3> QED BY <1>12, <3>1, Zenon DEF Shape, BusyIsTold, BridgeDeadline
    <2>6. BusyMeansAllBusy'
      BY <1>12, Zenon DEF Shape, Untouched, BusyIsTold, BusyMeansAllBusy, BridgeDeadline, Told
    <2> QED BY <2>1, <2>2, <2>3, <2>4, <2>5, <2>6
  <1>13. CASE RedirectedEnds
    <2>1. Shape'
      BY <1>13 DEF Shape, LegStates, ChanStates, Phones, RedirectedEnds, ended, Absent
    <2>2. StoreShape'
      BY <1>13, Zenon DEF StoreShape, ChanStates, Flags, RedirectedEnds, ended, Absent
    <2>3. Untouched' /\ HungUpIsQuiet'
      BY <1>13 DEF Shape, Untouched, Ahead, HungUpIsQuiet, RedirectedEnds, ended, Absent
    <2>4. Behind' /\ ForkIsResolved'
      BY <1>13 DEF Shape, Behind, ForkIsResolved, RedirectedEnds, ended, Absent
    <2>5. BusyIsTold'
      BY <1>13 DEF Shape, StoreShape, Untouched, Ahead, BusyIsTold, RedirectedEnds,
         ended, Absent
    <2>6. BusyMeansAllBusy'
      BY <1>13 DEF Shape, Untouched, BusyIsTold, BusyMeansAllBusy, RedirectedEnds,
         ended, Absent
    <2> QED BY <2>1, <2>2, <2>3, <2>4, <2>5, <2>6
  <1>14. ASSUME NEW d \in Dest, Rings(d) PROVE DialInv'
    <2>1. Shape'
      BY <1>14 DEF Shape, LegStates, ChanStates, Phones, Rings, Set, Elsewhere
    <2>2. StoreShape'
      BY <1>14, SetWrites, Zenon DEF ChanStates, Rings, Elsewhere
    <2>3. Untouched' /\ HungUpIsQuiet'
      BY <1>14 DEF Shape, Untouched, Ahead, HungUpIsQuiet, Rings, Set, Elsewhere
    <2>4. Behind' /\ ForkIsResolved'
      BY <1>14 DEF Shape, Behind, ForkIsResolved, Rings, Set, Elsewhere
    <2>5. BusyIsTold'
      <3>1. /\ store'[d].state \in {"Ringing", store[d].state}
            /\ \A e \in Dest : e # d => store'[e].state = store[e].state
        BY <1>14, SetWrites, Zenon DEF ChanStates, Rings, Elsewhere
      <3> QED BY <1>14, <3>1 DEF Shape, BusyIsTold, Rings, Elsewhere
    <2>6. BusyMeansAllBusy'
      BY <1>14 DEF Shape, Untouched, BusyIsTold, BusyMeansAllBusy, Rings, Set, Elsewhere
    <2> QED BY <2>1, <2>2, <2>3, <2>4, <2>5, <2>6, Zenon
  <1>15. ASSUME NEW d \in Dest, Answers(d) PROVE DialInv'
    <2>1. Shape'
      BY <1>15 DEF Shape, LegStates, ChanStates, Phones, Answers, Set, Elsewhere
    <2>2. StoreShape'
      BY <1>15, SetWrites, Zenon DEF StoreShape, ChanStates, Answers, Elsewhere
    <2>3. Untouched' /\ HungUpIsQuiet'
      BY <1>15 DEF Shape, Untouched, Ahead, HungUpIsQuiet, Answers, Set, Elsewhere
    <2>4. Behind' /\ ForkIsResolved'
      BY <1>15 DEF Shape, Behind, ForkIsResolved, Answers, Set, Elsewhere
    <2>5. BusyIsTold'
      <3>1. /\ store'[d].state \in {"Up", store[d].state}
            /\ \A e \in Dest : e # d => store'[e].state = store[e].state
        BY <1>15, SetWrites, Zenon DEF ChanStates, Answers, Elsewhere
      <3> QED BY <1>15, <3>1 DEF Shape, BusyIsTold, Answers, Elsewhere
    <2>6. BusyMeansAllBusy'
      BY <1>15 DEF Shape, Untouched, BusyIsTold, BusyMeansAllBusy, Answers, Set,
         Elsewhere
    <2> QED BY <2>1, <2>2, <2>3, <2>4, <2>5, <2>6
  <1>16. ASSUME NEW d \in Dest, Refuses(d) PROVE DialInv'
    <2>1. Shape'
      BY <1>16 DEF Shape, LegStates, ChanStates, Phones, Refuses, Set, Told, Elsewhere
    <2>2. StoreShape'
      <3>1. CASE UNCHANGED store
        BY <3>1, Zenon DEF StoreShape
      <3>2. CASE store' = Set(d, "Busy") \/ Told(d, "dev")
        BY <3>2, SetWrites, ToldKeeps, Zenon DEF ChanStates, Flags
      <3> QED BY <1>16, <3>1, <3>2, Zenon DEF Refuses
    <2>3. Untouched' /\ HungUpIsQuiet'
      BY <1>16 DEF Shape, Untouched, Ahead, HungUpIsQuiet, Refuses, Set, Told, Elsewhere
    <2>4. Behind' /\ ForkIsResolved'
      BY <1>16 DEF Shape, Behind, ForkIsResolved, Refuses, Set, Told, Elsewhere
    <2>5. BusyIsTold'
      <3>1. /\ store'[d].state # store[d].state => phone'[d] = "busy"
            /\ \A e \in Dest : e # d => store'[e].state = store[e].state
        BY <1>16, SetWrites, ToldKeeps DEF ChanStates, Flags, Shape, Refuses, Elsewhere
      <3> QED BY <1>16, <3>1 DEF Shape, BusyIsTold, Refuses, Elsewhere
    <2>6. BusyMeansAllBusy'
      BY <1>16 DEF Shape, Untouched, BusyIsTold, BusyMeansAllBusy, Refuses, Set, Told,
         Elsewhere
    <2> QED BY <2>1, <2>2, <2>3, <2>4, <2>5, <2>6
  <1>17. ASSUME NEW d \in Dest, CalleeHangsUp(d) PROVE DialInv'
    <2>1. Shape'
      BY <1>17 DEF Shape, LegStates, ChanStates, Phones, CalleeHangsUp, Told, Elsewhere
    <2>2. StoreShape'
      BY <1>17, ToldKeeps, Zenon DEF Flags, CalleeHangsUp, Elsewhere
    <2>3. Untouched' /\ HungUpIsQuiet'
      BY <1>17 DEF Shape, Untouched, Ahead, HungUpIsQuiet, CalleeHangsUp, Told,
         Elsewhere
    <2>4. Behind' /\ ForkIsResolved'
      BY <1>17 DEF Shape, Behind, ForkIsResolved, CalleeHangsUp, Told, Elsewhere
    <2>5. BusyIsTold'
      <3>1. \A e \in Dest : store'[e].state = store[e].state
        BY <1>17, ToldKeeps, Zenon DEF Flags, CalleeHangsUp, Elsewhere
      <3> QED BY <1>17, <3>1 DEF Shape, BusyIsTold, CalleeHangsUp, Elsewhere
    <2>6. BusyMeansAllBusy'
      BY <1>17 DEF Shape, Untouched, BusyIsTold, BusyMeansAllBusy, CalleeHangsUp,
         Told, Elsewhere
    <2> QED BY <2>1, <2>2, <2>3, <2>4, <2>5, <2>6
  <1>18. ASSUME NEW d \in Dest, LocalEnds(d) PROVE DialInv'
    <2>1. Shape'
      BY <1>18 DEF Shape, LegStates, ChanStates, Phones, LocalEnds, Set, Elsewhere
    <2>2. StoreShape'
      BY <1>18, SetWrites, Zenon DEF ChanStates, LocalEnds, Elsewhere
    <2>3. Untouched' /\ HungUpIsQuiet'
      BY <1>18 DEF Shape, Untouched, Ahead, HungUpIsQuiet, LocalEnds, Set, Elsewhere
    <2>4. Behind' /\ ForkIsResolved'
      BY <1>18 DEF Shape, Behind, ForkIsResolved, LocalEnds, Set, Elsewhere
    <2>5. BusyIsTold'
      <3>1. /\ store'[d].state \in {"Down", store[d].state}
            /\ \A e \in Dest : e # d => store'[e].state = store[e].state
        BY <1>18, SetWrites, Zenon DEF ChanStates, LocalEnds, Elsewhere
      <3> QED BY <1>18, <3>1 DEF Shape, BusyIsTold, LocalEnds, Elsewhere
    <2>6. BusyMeansAllBusy'
      BY <1>18 DEF Shape, Untouched, BusyIsTold, BusyMeansAllBusy, LocalEnds, Set,
         Elsewhere
    <2> QED BY <2>1, <2>2, <2>3, <2>4, <2>5, <2>6
  <1>19. ASSUME NEW d \in Dest, LocalLeaves(d) PROVE DialInv'
    <2>1. Shape'
      BY <1>19 DEF Shape, LegStates, ChanStates, Phones, LocalLeaves, Elsewhere, Absent
    <2>2. StoreShape'
      BY <1>19, Zenon DEF StoreShape, ChanStates, Flags, LocalLeaves, Elsewhere, Absent
    <2>3. Untouched' /\ HungUpIsQuiet'
      BY <1>19 DEF Shape, Untouched, Ahead, HungUpIsQuiet, LocalLeaves, Elsewhere, Absent
    <2>4. Behind' /\ ForkIsResolved'
      BY <1>19 DEF Shape, Behind, ForkIsResolved, LocalLeaves, Elsewhere, Absent
    <2>5. BusyIsTold'
      BY <1>19 DEF Shape, StoreShape, Untouched, Ahead, BusyIsTold, LocalLeaves,
         Elsewhere, Absent
    <2>6. BusyMeansAllBusy'
      BY <1>19 DEF Shape, Untouched, BusyIsTold, BusyMeansAllBusy, LocalLeaves,
         Elsewhere, Absent
    <2> QED BY <2>1, <2>2, <2>3, <2>4, <2>5, <2>6
  <1>20. ASSUME NEW d \in Dest, RedirectCallee(d) PROVE DialInv'
    <2>1. Shape'
      BY <1>20 DEF Shape, LegStates, ChanStates, Phones, RedirectCallee, Told, Elsewhere
    <2>2. StoreShape'
      BY <1>20, ToldKeeps, Zenon DEF Flags, RedirectCallee, Elsewhere
    <2>3. Untouched' /\ HungUpIsQuiet'
      BY <1>20 DEF Shape, Untouched, Ahead, HungUpIsQuiet, RedirectCallee, Told,
         Elsewhere
    <2>4. Behind' /\ ForkIsResolved'
      BY <1>20 DEF Shape, Behind, ForkIsResolved, RedirectCallee, Told, Elsewhere
    <2>5. BusyIsTold'
      <3>1. \A e \in Dest : store'[e].state = store[e].state
        BY <1>20, ToldKeeps, Zenon DEF Flags, RedirectCallee, Elsewhere
      <3> QED BY <1>20, <3>1 DEF Shape, BusyIsTold, RedirectCallee, Elsewhere
    <2>6. BusyMeansAllBusy'
      BY <1>20 DEF Shape, Untouched, BusyIsTold, BusyMeansAllBusy, RedirectCallee,
         Told, Elsewhere
    <2> QED BY <2>1, <2>2, <2>3, <2>4, <2>5, <2>6
  <1>21. ASSUME NEW flag \in {"dev", "goto"}, CallerTold(flag) PROVE DialInv'
      BY <1>21 DEF CallerTold, Shape, StoreShape, Untouched, Ahead, HungUpIsQuiet,
        Behind, ForkIsResolved, BusyIsTold, BusyMeansAllBusy
  <1>22. CASE UNCHANGED dialVars
      BY <1>22 DEF dialVars, Shape, StoreShape, Untouched, Ahead, HungUpIsQuiet,
        Behind, ForkIsResolved, BusyIsTold, BusyMeansAllBusy
  <1> QED
      BY <1>1, <1>2, <1>3, <1>4, <1>5, <1>6, <1>7, <1>8, <1>9, <1>10, <1>11, <1>12,
         <1>13, <1>14, <1>15, <1>16, <1>17, <1>18, <1>19, <1>20, <1>21, <1>22, Zenon DEF
         DialNext, DialTask

-------------------------------------------------------------------------------
\* For any number of destinations, exec's loop over the losing legs leaves no SIP
\* phone ringing or talking but the winner's once the bridge starts, and none at
\* all once Dial is through.
THEOREM ForkResolves == DialSpec => []ForkIsResolved
  <1>1. DialInv => ForkIsResolved
    BY Zenon DEF DialInv
  <1> QED BY <1>1, DialInitInv, DialNextInv, PTL DEF DialSpec

\* For any number of destinations, wait_for_answer reports BUSY only when every
\* one of them was refused as busy.
THEOREM BusyIsUnanimous == DialSpec => []BusyMeansAllBusy
  <1>1. DialInv => BusyMeansAllBusy
    BY Zenon DEF DialInv
  <1> QED BY <1>1, DialInitInv, DialNextInv, PTL DEF DialSpec

-----------------------------------------------------------------------------
(***************************************************************************)
(* Proofs about SipClient, for any number of requests, any timers and any  *)
(* number of responses.                                                    *)
(***************************************************************************)

ClientState == Waiting \cup {"Completed", "Terminated"}

\* ClientTransaction, NonInviteClientTransaction
ClientTransaction ==
  [state: ClientState, interval: Nat, started: Nat, completed: SUBSET Nat,
   retransmitted: Nat]

Report == [finals: Nat, timeouts: Nat, error: BOOLEAN, matched: Nat]

\* A request has at most one transaction.
ClientShape ==
  /\ txn \in [Branch -> SUBSET ClientTransaction]
  /\ \A b \in Branch : \A t, u \in txn[b] : t = u
  /\ loop \in [at: {"select", "retransmit", "emit"}, todo: SUBSET Branch]
  /\ asked \in [Branch -> {"idle", "sending", "sent", "failed"}]
  /\ told \in [Branch -> Report]

\* A timeout the loop has collected and not yet reported.
Owed(b) == loop.at = "emit" /\ b \in loop.todo

\* One outcome: a request that was not sent has none; one that took a final
\* response waits for nothing; one whose timeout is due or reported took none,
\* and its transaction is terminated, and gone once the timer pass is over.
Outcome(b) ==
  /\ asked[b] = "idle" =>
       txn[b] = {} /\ told[b].timeouts = 0 /\ told[b].matched = 0 /\ ~ Owed(b)
  /\ told[b].matched > 0 =>
       told[b].timeouts = 0 /\ \A t \in txn[b] : t.state \notin Waiting
  /\ Owed(b) => told[b].timeouts = 0 /\ told[b].matched = 0
  /\ Owed(b) \/ told[b].timeouts > 0 => \A t \in txn[b] : t.state = "Terminated"
  /\ told[b].timeouts > 0 /\ loop.at # "emit" => txn[b] = {}
  /\ told[b].timeouts <= 1

ClientInv == ClientShape /\ \A b \in Branch : Outcome(b)
-----------------------------------------------------------------------------
(* The operations on one transaction.                                       *)

\* The timers are numbers.
LEMMA Timers == T1 \in Nat /\ T2 \in Nat /\ MaxAge \in Nat
  BY ClientTimers, Zenon

\* A new transaction waits.
LEMMA NewOp ==
  ASSUME NEW k
  PROVE  NewTxn(k) \in ClientTransaction
  BY Timers, Zenon DEF NewTxn, ClientTransaction, ClientState, Waiting

\* Fields are set one by one.
LEMMA SetState ==
  ASSUME NEW t \in ClientTransaction, NEW st \in ClientState
  PROVE  /\ [t EXCEPT !.state = st] \in ClientTransaction
         /\ [t EXCEPT !.state = st].state = st
  BY Zenon DEF ClientTransaction

LEMMA SetInterval ==
  ASSUME NEW t \in ClientTransaction, NEW st \in ClientState, NEW n \in Nat
  PROVE  [t EXCEPT !.state = st, !.interval = n] \in ClientTransaction
  BY Zenon DEF ClientTransaction

LEMMA SetCompleted ==
  ASSUME NEW t \in ClientTransaction, NEW st \in ClientState
  PROVE  /\ [t EXCEPT !.state = st, !.completed = {0}] \in ClientTransaction
         /\ [t EXCEPT !.state = st, !.completed = {0}].state = st
  <1>1. {0} \in SUBSET Nat
    OBVIOUS
  <1> QED BY <1>1, Zenon DEF ClientTransaction

LEMMA SetRetransmitted ==
  ASSUME NEW t \in ClientTransaction, NEW n \in Nat
  PROVE  /\ [t EXCEPT !.interval = n, !.retransmitted = 0] \in ClientTransaction
         /\ [t EXCEPT !.interval = n, !.retransmitted = 0].state = t.state
  <1>1. 0 \in Nat
    BY Zenon
  <1> QED BY <1>1, Zenon DEF ClientTransaction

\* on_response: a final response ends the wait, and nothing starts it again.
LEMMA ResponseOps ==
  ASSUME NEW t \in ClientTransaction, NEW s \in Status
  PROVE  /\ on_invite_response(t, s) \in ClientTransaction
         /\ on_other_response(t, s) \in ClientTransaction
         /\ s # "1xx" => /\ on_invite_response(t, s).state \notin Waiting
                         /\ on_other_response(t, s).state \notin Waiting
         /\ t.state \notin Waiting => on_invite_response(t, s) = t /\ on_other_response(t, s) = t
  <1>2. {"Proceeding", "Terminated", "Completed"} \subseteq ClientState
    BY Zenon DEF ClientState, Waiting
  <1>3. on_invite_response(t, s) \in
          {t, [t EXCEPT !.state = "Proceeding"], [t EXCEPT !.state = "Terminated"],
           [t EXCEPT !.state = "Completed", !.completed = {0}]}
    BY Zenon DEF on_invite_response, Status
  <1>4. on_other_response(t, s) \in
          {t, [t EXCEPT !.state = "Proceeding", !.interval = T2],
           [t EXCEPT !.state = "Completed", !.completed = {0}]}
    BY Zenon DEF on_other_response
  <1>5. /\ on_invite_response(t, s) \in ClientTransaction
        /\ on_other_response(t, s) \in ClientTransaction
    <2>1. "Proceeding" \in ClientState /\ "Terminated" \in ClientState /\ "Completed" \in ClientState
      BY <1>2, Zenon
    <2>2. /\ [t EXCEPT !.state = "Proceeding"] \in ClientTransaction
          /\ [t EXCEPT !.state = "Terminated"] \in ClientTransaction
      BY <2>1, SetState, Zenon
    <2>3. [t EXCEPT !.state = "Completed", !.completed = {0}] \in ClientTransaction
      BY <2>1, SetCompleted, Zenon
    <2>4. [t EXCEPT !.state = "Proceeding", !.interval = T2] \in ClientTransaction
      BY <2>1, SetInterval, Timers, Zenon
    <2> QED BY <1>3, <1>4, <2>2, <2>3, <2>4, Zenon
  <1>6. t.state \notin Waiting => on_invite_response(t, s) = t /\ on_other_response(t, s) = t
    BY Zenon DEF on_invite_response, on_other_response, Waiting
  <1>7. ASSUME s # "1xx", t.state \in Waiting
        PROVE  /\ on_invite_response(t, s).state \notin Waiting
               /\ on_other_response(t, s).state \notin Waiting
    <2>1. /\ on_invite_response(t, s) \in
               {[t EXCEPT !.state = "Terminated"],
                [t EXCEPT !.state = "Completed", !.completed = {0}]}
          /\ on_other_response(t, s) = [t EXCEPT !.state = "Completed", !.completed = {0}]
      BY <1>7, Zenon DEF on_invite_response, on_other_response, Status
    <2>2. /\ [t EXCEPT !.state = "Terminated"].state = "Terminated"
          /\ [t EXCEPT !.state = "Completed", !.completed = {0}].state = "Completed"
      <3>1. "Terminated" \in ClientState /\ "Completed" \in ClientState
        BY <1>2, Zenon
      <3> QED BY <3>1, SetState, SetCompleted, Zenon
    <2> QED BY <2>1, <2>2, Zenon DEF Waiting
  <1> QED BY <1>5, <1>6, <1>7, Zenon

\* advance_retransmit_timer moves no state.
LEMMA AdvanceOp ==
  ASSUME NEW t \in ClientTransaction, NEW k
  PROVE  /\ advance_retransmit_timer(t, k) \in ClientTransaction
         /\ advance_retransmit_timer(t, k).state = t.state
  <1>1. Limit(2 * t.interval) \in Nat
    BY Timers DEF Limit, ClientTransaction
  <1> DEFINE n == IF k = "other" /\ Limit(2 * t.interval) > T2 THEN T2 ELSE Limit(2 * t.interval)
  <1>3. n \in Nat
    BY <1>1, Timers, Zenon
  <1>4. advance_retransmit_timer(t, k) = [t EXCEPT !.interval = n, !.retransmitted = 0]
    BY Zenon DEF advance_retransmit_timer
  <1> HIDE DEF n
  <1> QED BY <1>3, <1>4, SetRetransmitted, Zenon

\* One pass of expire_timers, and one quantum of time, over one transaction.
Expired(t, k) ==
  IF timeout_expired(t) \/ absorbed(t, k) THEN [t EXCEPT !.state = "Terminated"] ELSE t
Aged(t) ==
  [t EXCEPT !.started = Later(@), !.retransmitted = Later(@),
            !.completed = {Later(at) : at \in @}]

\* Only a request that waits times out, and time alone moves no state.
LEMMA TimerOps ==
  ASSUME NEW t \in ClientTransaction, NEW k
  PROVE  /\ Expired(t, k) \in ClientTransaction
         /\ Expired(t, k).state \in {t.state, "Terminated"}
         /\ timeout_expired(t) => t.state \in Waiting /\ Expired(t, k).state = "Terminated"
         /\ Aged(t) \in ClientTransaction /\ Aged(t).state = t.state
  <1>1. "Terminated" \in ClientState
    BY Zenon DEF ClientState
  <1>2. /\ [t EXCEPT !.state = "Terminated"] \in ClientTransaction
        /\ [t EXCEPT !.state = "Terminated"].state = "Terminated"
    BY <1>1, SetState, Zenon
  <1>3. \A n \in Nat : Later(n) \in Nat
    BY Timers DEF Later
  <1>4. /\ t.started \in Nat /\ t.retransmitted \in Nat /\ t.completed \in SUBSET Nat
        /\ {Later(at) : at \in t.completed} \in SUBSET Nat
    BY <1>3, Zenon DEF ClientTransaction
  <1>5. Aged(t) \in ClientTransaction /\ Aged(t).state = t.state
    <2> DEFINE n == Later(t.started)
               m == Later(t.retransmitted)
               S == {Later(at) : at \in t.completed}
    <2>1. n \in Nat /\ m \in Nat /\ S \in SUBSET Nat
      BY <1>3, <1>4, Zenon
    <2>2. Aged(t) = [t EXCEPT !.started = n, !.retransmitted = m, !.completed = S]
      BY Zenon DEF Aged
    <2> HIDE DEF n, m, S
    <2>3. /\ [t EXCEPT !.started = n, !.retransmitted = m, !.completed = S] \in ClientTransaction
          /\ [t EXCEPT !.started = n, !.retransmitted = m, !.completed = S].state = t.state
      BY <2>1, Zenon DEF ClientTransaction
    <2> QED BY <2>2, <2>3, Zenon
  <1> QED BY <1>2, <1>5, Zenon DEF Expired, timeout_expired
-----------------------------------------------------------------------------
(* The invariant, step by step.                                             *)

\* The history of one request is written.
LEMMA WriteTold ==
  ASSUME told \in [Branch -> Report], NEW b \in Branch, NEW n \in Nat, NEW k \in Nat
  PROVE  /\ [told EXCEPT ![b].error = TRUE] \in [Branch -> Report]
         /\ [told EXCEPT ![b].timeouts = k] \in [Branch -> Report]
         /\ [told EXCEPT ![b].finals = n, ![b].matched = k] \in [Branch -> Report]
  BY Zenon DEF Report

LEMMA ReadTold ==
  ASSUME told \in [Branch -> Report], NEW b \in Branch, NEW k
  PROVE  /\ [told EXCEPT ![b].error = TRUE][b].timeouts = told[b].timeouts
         /\ [told EXCEPT ![b].error = TRUE][b].matched = told[b].matched
         /\ [told EXCEPT ![b].timeouts = k][b].timeouts = k
         /\ [told EXCEPT ![b].timeouts = k][b].matched = told[b].matched
  BY Zenon DEF Report

LEMMA OthersTold ==
  ASSUME told \in [Branch -> Report], NEW b \in Branch, NEW n, NEW k, NEW c \in Branch \ {b}
  PROVE  /\ [told EXCEPT ![b].error = TRUE][c] = told[c]
         /\ [told EXCEPT ![b].timeouts = k][c] = told[c]
         /\ [told EXCEPT ![b].finals = n, ![b].matched = k][c] = told[c]
  BY Zenon DEF Report

\* Nothing was asked.
LEMMA InitClient == ClientInit => ClientInv
  <1> SUFFICES ASSUME ClientInit PROVE ClientInv
    BY Zenon
  <1>1. ClientShape
    BY Zenon DEF ClientInit, ClientShape, Report
  <1>2. \A b \in Branch : /\ told[b].timeouts = 0 /\ told[b].matched = 0 /\ txn[b] = {}
                          /\ ~ Owed(b)
    BY Zenon DEF ClientInit, Owed
  <1> QED BY <1>1, <1>2 DEF ClientInv, Outcome

\* What the invariant says of one request, with its counters as numbers.
LEMMA Facts ==
  ASSUME ClientInv, NEW b \in Branch
  PROVE  /\ Outcome(b) /\ txn[b] \subseteq ClientTransaction
         /\ \A t, u \in txn[b] : t = u
         /\ told[b] \in Report /\ told[b].timeouts \in Nat /\ told[b].matched \in Nat
         /\ loop.at \in {"select", "retransmit", "emit"} /\ loop.todo \subseteq Branch
  BY Zenon DEF ClientInv, ClientShape, Report

\* A request that a step does not touch keeps its outcome.
LEMMA UntouchedBranch ==
  ASSUME NEW b \in Branch, Outcome(b), asked'[b] = asked[b], told'[b] = told[b],
         loop' = loop, txn'[b] \subseteq txn[b]
  PROVE  Outcome(b)'
  BY Zenon DEF Outcome, Owed

\* A step keeps the outcome of a request whose transaction keeps its state.
LEMMA SameStates ==
  ASSUME NEW b \in Branch, Outcome(b), asked'[b] = asked[b], told'[b] = told[b],
         Owed(b)' => Owed(b), loop'.at = loop.at,
         txn[b] = {} => txn'[b] = {},
         \A t \in txn'[b] : \E u \in txn[b] : t.state = u.state
  PROVE  Outcome(b)'
  <1>1. told[b].matched > 0 => \A t \in txn'[b] : t.state \notin Waiting
    BY Zenon DEF Outcome
  <1>2. Owed(b) \/ told[b].timeouts > 0 => \A t \in txn'[b] : t.state = "Terminated"
    BY Zenon DEF Outcome
  <1> QED BY <1>1, <1>2, Zenon DEF Outcome

\* send_request starts a transaction for a request that had none.
LEMMA SendRequestKept ==
  ASSUME ClientInv, NEW b \in Branch, send_request(b)
  PROVE  ClientInv'
  <1>1. /\ asked[b] = "idle" /\ UNCHANGED <<loop, told>>
        /\ asked' = [asked EXCEPT ![b] = "sending"]
        /\ txn' = [txn EXCEPT ![b] = {NewTxn(kind[b])}]
    BY Zenon DEF send_request
  <1>2. NewTxn(kind[b]) \in ClientTransaction
    BY NewOp, Zenon
  <1>3. /\ txn'[b] = {NewTxn(kind[b])} /\ asked'[b] = "sending"
        /\ \A c \in Branch \ {b} : txn'[c] = txn[c] /\ asked'[c] = asked[c]
    BY <1>1, Zenon DEF ClientInv, ClientShape
  <1>4. ClientShape'
    <2>1. ClientShape
      BY Zenon DEF ClientInv
    <2>2. txn' \in [Branch -> SUBSET ClientTransaction]
      BY <1>1, <1>2, <2>1 DEF ClientShape
    <2>3. asked' \in [Branch -> {"idle", "sending", "sent", "failed"}]
      BY <1>1, <2>1, Zenon DEF ClientShape
    <2>4. \A c \in Branch : \A t, u \in txn'[c] : t = u
      <3> SUFFICES ASSUME NEW c \in Branch, NEW t \in txn'[c], NEW u \in txn'[c] PROVE t = u
        BY Zenon
      <3>1. CASE c = b
        BY <1>3, <3>1, Zenon
      <3>2. CASE c # b
        BY <1>3, <2>1, <3>2, Zenon DEF ClientShape
      <3> QED BY <3>1, <3>2, Zenon
    <2> QED BY <1>1, <2>1, <2>2, <2>3, <2>4, Zenon DEF ClientShape
  <1>5. ASSUME NEW c \in Branch \ {b} PROVE Outcome(c)'
    BY <1>1, <1>3, Facts, UntouchedBranch, Zenon
  <1>6. Outcome(b)'
    <2>1. told[b].timeouts = 0 /\ told[b].matched = 0 /\ ~ Owed(b)
      BY <1>1, Facts, Zenon DEF Outcome
    <2>2. told'[b].timeouts = 0 /\ told'[b].matched = 0 /\ ~ Owed(b)'
      BY <1>1, <2>1, Zenon DEF Owed
    <2>3. ~ (0 > 0) /\ 0 <= 1
      OBVIOUS
    <2> QED BY <1>3, <2>2, <2>3, Zenon DEF Outcome
  <1> QED BY <1>4, <1>5, <1>6, Zenon DEF ClientInv

\* Transmit, SendOk and SendErr end no wait with an outcome.
LEMMA SendKept ==
  ASSUME ClientInv, NEW b \in Branch, Transmit(b) \/ SendOk(b) \/ SendErr(b)
  PROVE  ClientInv'
  <1>1. /\ UNCHANGED loop
        /\ asked' = asked \/ (asked[b] = "sending" /\ asked' = [asked EXCEPT ![b] = "sent"])
                          \/ (asked[b] = "sending" /\ asked' = [asked EXCEPT ![b] = "failed"])
        /\ txn' = txn \/ txn' = [txn EXCEPT ![b] = {}]
        /\ told' = told \/ told' = [told EXCEPT ![b].error = TRUE]
    BY Zenon DEF Transmit, SendOk, SendErr
  <1>2. /\ \A c \in Branch : txn'[c] = txn[c] \/ txn'[c] = {}
        /\ txn' \in [Branch -> SUBSET ClientTransaction]
    BY <1>1, Zenon DEF ClientInv, ClientShape
  <1>3. /\ \A c \in Branch : told'[c].timeouts = told[c].timeouts /\ told'[c].matched = told[c].matched
        /\ told' \in [Branch -> Report]
    <2>1. told \in [Branch -> Report] /\ 0 \in Nat
      BY Zenon DEF ClientInv, ClientShape
    <2>2. CASE told' = told
      BY <2>1, <2>2, Zenon
    <2>3. CASE told' = [told EXCEPT ![b].error = TRUE]
      <3>1. told' \in [Branch -> Report]
        BY <2>1, <2>3, WriteTold, Zenon
      <3>2. told'[b].timeouts = told[b].timeouts /\ told'[b].matched = told[b].matched
        BY <2>1, <2>3, ReadTold, Zenon
      <3>3. \A c \in Branch \ {b} : told'[c] = told[c]
        BY <2>1, <2>3, OthersTold, Zenon
      <3> QED BY <3>1, <3>2, <3>3, Zenon
    <2> QED BY <1>1, <2>2, <2>3, Zenon
  <1>4. /\ \A c \in Branch : asked'[c] = "idle" => asked[c] = "idle"
        /\ asked' \in [Branch -> {"idle", "sending", "sent", "failed"}]
    BY <1>1, Zenon DEF ClientInv, ClientShape
  <1>5. ClientShape'
    BY <1>1, <1>2, <1>3, <1>4, ZenonT(60) DEF ClientInv, ClientShape
  <1>6. ASSUME NEW c \in Branch PROVE Outcome(c)'
    <2>1. Outcome(c) /\ (Owed(c)' <=> Owed(c))
      BY <1>1, Facts, Zenon DEF Owed
    <2>2. asked'[c] = "idle" => asked[c] = "idle"
      BY <1>4, Zenon
    <2>3. told'[c].timeouts = told[c].timeouts /\ told'[c].matched = told[c].matched
      BY <1>3, Zenon
    <2>4. txn'[c] \subseteq txn[c] /\ loop' = loop
      BY <1>1, <1>2, Zenon
    <2> QED BY <2>1, <2>2, <2>3, <2>4, Zenon DEF Outcome
  <1> QED BY <1>5, <1>6, Zenon DEF ClientInv

\* handle_response: a final response is matched only by a transaction, and
\* leaves it waiting for nothing.
LEMMA HandleResponseKept ==
  ASSUME ClientInv, NEW b \in Branch, NEW m \in Response, handle_response(b, m)
  PROVE  ClientInv'
  <1> DEFINE f(t) == IF kind[b] = "invite" THEN on_invite_response(t, m.status)
                     ELSE on_other_response(t, m.status)
             hit == m.status # "1xx" /\ m.src = "remote_addr" /\ txn[b] # {}
  <1>1. loop.at = "select" /\ UNCHANGED <<loop, asked>>
    BY Zenon DEF handle_response
  <1>2. m.status \in Status
    BY Zenon DEF Response
  <1>3. /\ \A c \in Branch \ {b} : txn'[c] = txn[c]
        /\ txn'[b] = IF m.src = "remote_addr" THEN {f(t) : t \in txn[b]} ELSE txn[b]
    BY ZenonT(60) DEF handle_response, ClientInv, ClientShape
  <1>4. ASSUME NEW t \in txn[b]
        PROVE  /\ f(t) \in ClientTransaction
               /\ m.status # "1xx" => f(t).state \notin Waiting
               /\ t.state \notin Waiting => f(t) = t
    BY <1>2, Facts, ResponseOps, Zenon
  <1>5. /\ \A c \in Branch \ {b} : told'[c] = told[c]
        /\ told'[b].timeouts = told[b].timeouts
        /\ told'[b].matched = IF hit THEN told[b].matched + 1 ELSE told[b].matched
        /\ told' \in [Branch -> Report]
    <2> DEFINE n == IF m.status = "1xx" THEN told[b].finals ELSE told[b].finals + 1
               k == IF hit THEN told[b].matched + 1 ELSE told[b].matched
    <2>1. told \in [Branch -> Report]
      BY Zenon DEF ClientInv, ClientShape
    <2>2. n \in Nat /\ k \in Nat
      BY <2>1 DEF Report
    <2>3. told' = [told EXCEPT ![b].finals = n, ![b].matched = k]
      <3>1. [told EXCEPT ![b].finals = n][b].matched = told[b].matched
        BY <2>1, Zenon DEF Report
      <3> QED BY <3>1, Zenon DEF handle_response
    <2> HIDE DEF n, k
    <2>4. told' \in [Branch -> Report]
      BY <2>1, <2>2, <2>3, WriteTold, Zenon
    <2>5. told'[b].timeouts = told[b].timeouts /\ told'[b].matched = k
      <3>1. told'[b].timeouts = told[b].timeouts
        BY <2>1, <2>3, Zenon DEF Report
      <3>2. told'[b].matched = k
        BY <2>1, <2>3, Zenon DEF Report
      <3> QED BY <3>1, <3>2, Zenon
    <2>6. \A c \in Branch \ {b} : told'[c] = told[c]
      BY <2>1, <2>3, OthersTold, ZenonT(60)
    <2> QED BY <2>4, <2>5, <2>6, Zenon DEF k
  <1> HIDE DEF f
  <1>6. txn' \in [Branch -> SUBSET ClientTransaction] /\ \A t, u \in txn'[b] : t = u
    <2>1. txn'[b] \subseteq ClientTransaction /\ \A t, u \in txn'[b] : t = u
      BY <1>3, <1>4, Facts
    <2>2. \E S : txn' = [txn EXCEPT ![b] = S]
      BY Zenon DEF handle_response
    <2> QED BY <1>3, <2>1, <2>2, Zenon DEF ClientInv, ClientShape
  <1>7. ClientShape'
    BY <1>1, <1>3, <1>5, <1>6, ZenonT(60) DEF ClientInv, ClientShape
  <1>8. ASSUME NEW c \in Branch \ {b} PROVE Outcome(c)'
    BY <1>1, <1>3, <1>5, Facts, UntouchedBranch, Zenon
  <1>9. Outcome(b)'
    <2>1. ~ Owed(b) /\ ~ Owed(b)' /\ Outcome(b) /\ loop' = loop
      BY <1>1, Facts, Zenon DEF Owed
    <2>2. CASE txn[b] = {}
      <3>1. txn'[b] = {} /\ told'[b].matched = told[b].matched
        BY <1>3, <1>5, <2>2, Zenon
      <3> HIDE DEF hit
      <3>2. told'[b].timeouts = told[b].timeouts /\ asked'[b] = asked[b]
        BY <1>1, <1>5, Zenon
      <3>3. /\ asked[b] = "idle" => told[b].timeouts = 0 /\ told[b].matched = 0
            /\ told[b].matched > 0 => told[b].timeouts = 0
            /\ told[b].timeouts <= 1
        BY <2>1, Zenon DEF Outcome
      <3>4. ~ Owed(b)'
        BY <2>1, Zenon
      <3>5. \A t \in txn'[b] : t.state = "Terminated" /\ t.state \notin Waiting
        BY <3>1, Zenon
      <3> QED BY <3>1, <3>2, <3>3, <3>4, <3>5, Zenon DEF Outcome
    <2>3. CASE txn[b] # {}
      <3>1. told[b].timeouts = 0 /\ asked[b] # "idle"
        <4>1. ~ (told[b].timeouts > 0) /\ asked[b] # "idle"
          BY <1>1, <2>1, <2>3, Zenon DEF Outcome
        <4> QED BY <4>1, Facts
      <3>2. told'[b].matched > 0 => \A t \in txn'[b] : t.state \notin Waiting
        <4>1. CASE hit
          BY <1>3, <1>4, <4>1
        <4>2. CASE ~ hit
          <5>1. told[b].matched > 0 => \A t \in txn[b] : t.state \notin Waiting
            BY <2>1, Zenon DEF Outcome
          <5>2. told'[b].matched = told[b].matched
            BY <1>5, <4>2, Zenon
          <5>3. ASSUME told[b].matched > 0, NEW t \in txn'[b] PROVE t.state \notin Waiting
            <6>1. PICK u \in txn[b] : t \in {u, f(u)}
              BY <1>3, <5>3, Zenon
            <6>2. u.state \notin Waiting /\ f(u) = u
              BY <1>4, <5>1, <5>3, Zenon
            <6> QED BY <6>1, <6>2, Zenon
          <5> QED BY <5>2, <5>3, Zenon
        <4> QED BY <4>1, <4>2, ZenonT(60)
      <3>3. told'[b].timeouts = 0 /\ asked'[b] # "idle"
        BY <1>1, <1>5, <3>1, Zenon
      <3>4. ~ (0 > 0) /\ 0 <= 1
        OBVIOUS
      <3> QED BY <2>1, <3>2, <3>3, <3>4, Zenon DEF Outcome
    <2> QED BY <2>2, <2>3, Zenon
  <1> QED BY <1>7, <1>8, <1>9, Zenon DEF ClientInv
\* A retransmission changes no outcome.
LEMMA SendAgainKept ==
  ASSUME ClientInv, NEW b \in Branch, SendAgain(b)
  PROVE  ClientInv'
  <1> DEFINE S == {advance_retransmit_timer(t, kind[b]) : t \in txn[b]}
  <1>1. /\ loop.at = "retransmit" /\ loop' = [loop EXCEPT !.todo = @ \ {b}]
        /\ txn' = [txn EXCEPT ![b] = S] /\ UNCHANGED <<asked, told>>
    BY Zenon DEF SendAgain
  <1>2. /\ S \subseteq ClientTransaction /\ \A t, u \in S : t = u
        /\ txn[b] = {} => S = {}
        /\ \A t \in S : \E u \in txn[b] : t.state = u.state
    <2>1. \A t \in txn[b] : /\ advance_retransmit_timer(t, kind[b]) \in ClientTransaction
                            /\ advance_retransmit_timer(t, kind[b]).state = t.state
      BY Facts, AdvanceOp, Zenon
    <2>2. \A t, u \in txn[b] : t = u
      BY Facts, Zenon
    <2> QED BY <2>1, <2>2, ZenonT(60)
  <1> HIDE DEF S
  <1>3. /\ txn'[b] = S /\ \A c \in Branch \ {b} : txn'[c] = txn[c]
        /\ txn' \in [Branch -> SUBSET ClientTransaction]
    BY <1>1, <1>2 DEF ClientInv, ClientShape
  <1>4. /\ loop' \in [at: {"select", "retransmit", "emit"}, todo: SUBSET Branch]
        /\ loop'.at = "retransmit"
    BY <1>1, Zenon DEF ClientInv, ClientShape
  <1>5. ClientShape'
    BY <1>1, <1>2, <1>3, <1>4 DEF ClientInv, ClientShape
  <1>6. ASSUME NEW c \in Branch PROVE Outcome(c)'
    <2>1. ~ Owed(c)' /\ loop'.at = loop.at /\ Outcome(c)
      BY <1>1, <1>4, Facts, Zenon DEF Owed
    <2>2. txn[c] = {} => txn'[c] = {}
      BY <1>2, <1>3, Zenon
    <2>3. \A t \in txn'[c] : \E u \in txn[c] : t.state = u.state
      BY <1>2, <1>3, Zenon
    <2> QED BY <1>1, <2>1, <2>2, <2>3, SameStates, Zenon
  <1> QED BY <1>5, <1>6, Zenon DEF ClientInv

\* The passing of time changes no outcome.
LEMMA TickKept ==
  ASSUME ClientInv, Tick
  PROVE  ClientInv'
  <1>1. txn' = [b \in Branch |-> {Aged(t) : t \in txn[b]}] /\ UNCHANGED <<loop, asked, told>>
    BY Zenon DEF Tick, Aged
  <1>2. ASSUME NEW b \in Branch
        PROVE  /\ txn'[b] \subseteq ClientTransaction /\ \A t, u \in txn'[b] : t = u
               /\ txn[b] = {} => txn'[b] = {}
               /\ \A t \in txn'[b] : \E u \in txn[b] : t.state = u.state
    <2>1. txn'[b] = {Aged(t) : t \in txn[b]}
      BY <1>1, ZenonT(60)
    <2>2. \A t \in txn[b] : Aged(t) \in ClientTransaction /\ Aged(t).state = t.state
      BY Facts, TimerOps, Zenon
    <2>3. \A t, u \in txn[b] : t = u
      BY Facts, Zenon
    <2> QED BY <2>1, <2>2, <2>3, Zenon
  <1>3. ClientShape'
    <2>1. txn' \in [Branch -> SUBSET ClientTransaction]
      BY <1>1, <1>2, ZenonT(60)
    <2> QED BY <1>1, <1>2, <2>1, Zenon DEF ClientInv, ClientShape
  <1>4. ASSUME NEW b \in Branch PROVE Outcome(b)'
    BY <1>1, <1>2, Facts, SameStates, Zenon DEF Owed
  <1> QED BY <1>3, <1>4, Zenon DEF ClientInv

\* handle_timers only looks.
LEMMA HandleTimersKept ==
  ASSUME ClientInv, handle_timers
  PROVE  ClientInv'
  <1>1. /\ loop.at = "select" /\ UNCHANGED <<txn, asked, told>>
        /\ loop'.at = "retransmit" /\ loop'.todo \subseteq Branch
        /\ loop' \in [at: {"select", "retransmit", "emit"}, todo: SUBSET Branch]
    BY Zenon DEF handle_timers
  <1>2. ClientShape'
    BY <1>1, Zenon DEF ClientInv, ClientShape
  <1>3. ASSUME NEW b \in Branch PROVE Outcome(b)'
    <2>1. Outcome(b) /\ ~ Owed(b)' /\ ~ Owed(b)
      BY <1>1, Facts, Zenon DEF Owed
    <2> QED BY <1>1, <2>1, Zenon DEF Outcome
  <1> QED BY <1>2, <1>3 DEF ClientInv

\* expire_timers: who is timed out was still waiting, so took no final.
LEMMA ExpireTimersKept ==
  ASSUME ClientInv, expire_timers
  PROVE  ClientInv'
  <1> DEFINE due == {b \in Branch : \E t \in txn[b] : timeout_expired(t)}
  <1>1. /\ loop.at = "retransmit" /\ UNCHANGED <<asked, told>>
        /\ loop' = [at |-> "emit", todo |-> due]
        /\ txn' = [b \in Branch |-> {Expired(t, kind[b]) : t \in txn[b]}]
    BY ZenonT(60) DEF expire_timers, Expired
  <1>2. loop'.at = "emit" /\ loop'.todo = due
        /\ loop' \in [at: {"select", "retransmit", "emit"}, todo: SUBSET Branch]
    BY <1>1, Zenon
  <1>3. ASSUME NEW b \in Branch
        PROVE  /\ txn'[b] \subseteq ClientTransaction /\ \A t, u \in txn'[b] : t = u
               /\ txn[b] = {} => txn'[b] = {}
               /\ \A t \in txn'[b] : \E u \in txn[b] : t.state \in {u.state, "Terminated"}
               /\ b \in due => /\ \E u \in txn[b] : u.state \in Waiting
                               /\ \A t \in txn'[b] : t.state = "Terminated"
    <2>1. txn'[b] = {Expired(t, kind[b]) : t \in txn[b]}
      BY <1>1, ZenonT(60)
    <2>2. \A t \in txn[b] :
            /\ Expired(t, kind[b]) \in ClientTransaction
            /\ Expired(t, kind[b]).state \in {t.state, "Terminated"}
            /\ timeout_expired(t) => /\ t.state \in Waiting
                                     /\ Expired(t, kind[b]).state = "Terminated"
      BY Facts, TimerOps
    <2>3. \A t, u \in txn[b] : t = u
      BY Facts
    <2>4. /\ txn'[b] \subseteq ClientTransaction /\ \A t, u \in txn'[b] : t = u
          /\ txn[b] = {} => txn'[b] = {}
      BY <2>1, <2>2, <2>3, Zenon
    <2>5. \A t \in txn'[b] : \E u \in txn[b] : t.state \in {u.state, "Terminated"}
      BY <2>1, <2>2, Zenon
    <2>6. ASSUME b \in due PROVE /\ \E u \in txn[b] : u.state \in Waiting
                                 /\ \A t \in txn'[b] : t.state = "Terminated"
      <3>1. PICK u \in txn[b] : timeout_expired(u)
        BY <2>6, Zenon
      <3>2. \A t \in txn[b] : Expired(t, kind[b]).state = "Terminated"
        BY <2>2, <2>3, <3>1, ZenonT(60)
      <3> QED BY <2>1, <2>2, <3>1, <3>2, Zenon
    <2> QED BY <2>4, <2>5, <2>6, Zenon
  <1> HIDE DEF due
  <1>4. ClientShape'
    <2>1. txn' \in [Branch -> SUBSET ClientTransaction]
      BY <1>1, <1>3, Zenon
    <2> QED BY <1>1, <1>2, <1>3, <2>1, Zenon DEF ClientInv, ClientShape
  <1>5. ASSUME NEW b \in Branch PROVE Outcome(b)'
    <2>1. Outcome(b) /\ ~ Owed(b) /\ (Owed(b)' <=> b \in due)
      BY <1>1, <1>2, Facts, Zenon DEF Owed
    <2>2. told[b].timeouts \in Nat /\ told[b].matched \in Nat
      BY Facts, Zenon
    <2>3. told[b].timeouts > 0 => txn'[b] = {} /\ b \notin due
      BY <1>1, <1>3, <2>1, Zenon DEF Outcome
    <2>4. told[b].matched > 0 => b \notin due /\ \A t \in txn'[b] : t.state \notin Waiting
      <3>1. told[b].matched > 0 => \A u \in txn[b] : u.state \notin Waiting
        BY <2>1, Zenon DEF Outcome
      <3>2. "Terminated" \notin Waiting
        BY Zenon DEF Waiting
      <3> QED BY <1>3, <3>1, <3>2, Zenon
    <2>5. asked[b] = "idle" => b \notin due /\ txn'[b] = {}
      BY <1>3, <2>1, Zenon DEF Outcome
    <2>6. told'[b] = told[b] /\ asked'[b] = asked[b] /\ loop'.at = "emit"
      BY <1>1, <1>2, Zenon
    <2>7. b \in due => told[b].timeouts = 0 /\ told[b].matched = 0
      BY <2>2, <2>3, <2>4
    <2>8. b \in due \/ told[b].timeouts > 0 => \A t \in txn'[b] : t.state = "Terminated"
      BY <1>3, <2>3, Zenon
    <2>9. /\ asked[b] = "idle" => told[b].timeouts = 0 /\ told[b].matched = 0
          /\ told[b].matched > 0 => told[b].timeouts = 0
          /\ told[b].timeouts <= 1
      BY <2>1, Zenon DEF Outcome
    <2> QED BY <2>1, <2>4, <2>5, <2>6, <2>7, <2>8, <2>9, Zenon DEF Outcome
  <1> QED BY <1>4, <1>5 DEF ClientInv

\* A timeout is reported once.
LEMMA EmitTimeoutKept ==
  ASSUME ClientInv, NEW b \in Branch, EmitTimeout(b)
  PROVE  ClientInv'
  <1>1. /\ Owed(b) /\ loop.at = "emit" /\ UNCHANGED <<txn, asked>>
        /\ loop' = [loop EXCEPT !.todo = @ \ {b}]
        /\ told' = [told EXCEPT ![b].timeouts = @ + 1]
    BY Zenon DEF EmitTimeout, Owed
  <1>2. /\ loop' \in [at: {"select", "retransmit", "emit"}, todo: SUBSET Branch]
        /\ loop'.at = "emit" /\ loop'.todo = loop.todo \ {b}
    BY <1>1, Zenon DEF ClientInv, ClientShape
  <1>3. /\ told' \in [Branch -> Report] /\ \A c \in Branch \ {b} : told'[c] = told[c]
        /\ told'[b].timeouts = told[b].timeouts + 1 /\ told'[b].matched = told[b].matched
    <2> DEFINE k == told[b].timeouts + 1
    <2>1. told \in [Branch -> Report] /\ k \in Nat /\ 0 \in Nat
      BY Facts DEF ClientInv, ClientShape
    <2>2. told' = [told EXCEPT ![b].timeouts = k]
      BY <1>1, Zenon
    <2> HIDE DEF k
    <2>3. told' \in [Branch -> Report]
      BY <2>1, <2>2, WriteTold, Zenon
    <2>4. told'[b].timeouts = k /\ told'[b].matched = told[b].matched
      BY <2>1, <2>2, ReadTold, Zenon
    <2>5. \A c \in Branch \ {b} : told'[c] = told[c]
      BY <2>1, <2>2, OthersTold, Zenon
    <2> QED BY <2>3, <2>4, <2>5, ZenonT(60) DEF k
  <1>4. ClientShape'
    BY <1>1, <1>2, <1>3 DEF ClientInv, ClientShape
  <1>5. ASSUME NEW c \in Branch \ {b} PROVE Outcome(c)'
    <2>1. Outcome(c) /\ (Owed(c)' <=> Owed(c)) /\ told'[c] = told[c]
      BY <1>1, <1>2, <1>3, Facts, Zenon DEF Owed
    <2> QED BY <1>1, <1>2, <2>1, Zenon DEF Outcome
  <1>6. Outcome(b)'
    <2>1. Outcome(b) /\ ~ Owed(b)'
      BY <1>2, Facts, Zenon DEF Owed
    <2>2. told[b].timeouts = 0 /\ told[b].matched = 0 /\ \A t \in txn[b] : t.state = "Terminated"
      BY <1>1, <2>1, Zenon DEF Outcome
    <2>3. asked[b] # "idle"
      BY <1>1, <2>1, Zenon DEF Outcome
    <2>4. told'[b].timeouts = 1 /\ told'[b].matched = 0
      BY <1>3, <2>2
    <2> QED BY <1>1, <1>2, <2>1, <2>2, <2>3, <2>4 DEF Outcome
  <1> QED BY <1>4, <1>5, <1>6 DEF ClientInv

\* What was timed out is dropped at the end of the pass.
LEMMA ReapKept ==
  ASSUME ClientInv, Reap
  PROVE  ClientInv'
  <1>1. /\ loop.todo = {} /\ loop' = [at |-> "select", todo |-> {}] /\ UNCHANGED <<asked, told>>
        /\ txn' = [b \in Branch |-> {t \in txn[b] : t.state # "Terminated"}]
    BY Zenon DEF Reap
  <1>2. ASSUME NEW b \in Branch
        PROVE  /\ txn'[b] \subseteq txn[b] /\ \A t \in txn'[b] : t.state # "Terminated"
    BY <1>1, Zenon
  <1>3. /\ loop'.at = "select"
        /\ loop' \in [at: {"select", "retransmit", "emit"}, todo: SUBSET Branch]
    BY <1>1, ZenonT(60)
  <1>4. ClientShape'
    <2>1. txn' \in [Branch -> SUBSET ClientTransaction]
      BY <1>1, <1>2, Zenon DEF ClientInv, ClientShape
    <2> QED BY <1>1, <1>2, <1>3, <2>1 DEF ClientInv, ClientShape
  <1>5. ASSUME NEW b \in Branch PROVE Outcome(b)'
    <2>1. Outcome(b) /\ ~ Owed(b)'
      BY <1>3, Facts, Zenon DEF Owed
    <2>2. told[b].timeouts > 0 => txn'[b] = {}
      BY <1>2, <2>1, Zenon DEF Outcome
    <2> QED BY <1>1, <1>2, <2>1, <2>2, Zenon DEF Outcome
  <1> QED BY <1>4, <1>5 DEF ClientInv

\* Every step keeps the invariant.
LEMMA StepClient == ClientInv /\ [ClientNext]_clientVars => ClientInv'
  <1> SUFFICES ASSUME ClientInv, [ClientNext]_clientVars PROVE ClientInv'
    OBVIOUS
  <1>1. ASSUME UNCHANGED <<txn, loop, asked, told>> PROVE ClientInv'
    BY <1>1 DEF ClientInv, ClientShape, Outcome, Owed
  <1>2. ASSUME NEW b \in Branch, NEW m \in Response, PeerAnswers(b, m) PROVE ClientInv'
    BY <1>1, <1>2, Zenon DEF PeerAnswers
  <1>3. CASE UNCHANGED clientVars
    BY <1>1, <1>3, Zenon DEF clientVars
  <1> QED
    BY <1>2, <1>3, SendRequestKept, SendKept, HandleResponseKept, SendAgainKept, EmitTimeoutKept,
      HandleTimersKept, ExpireTimersKept, ReapKept, TickKept, ZenonT(60) DEF ClientNext

\* A request is timed out at most once, and never after its transaction took a
\* final response, whatever the network loses, repeats or delays
\* (timer_b_expired, timer_f_expired against on_response, handle_timers).
THEOREM ClientOneOutcome == ClientSpec => []NoTimeoutAfterFinal
  <1>1. ClientInv => NoTimeoutAfterFinal
    <2> SUFFICES ASSUME ClientInv, NEW b \in Branch
                 PROVE  told[b].timeouts <= 1 /\ ~ (told[b].matched > 0 /\ told[b].timeouts > 0)
      BY Zenon DEF NoTimeoutAfterFinal
    <2> QED BY Facts DEF Outcome
  <1> QED BY InitClient, StepClient, <1>1, PTL DEF ClientSpec
=============================================================================
