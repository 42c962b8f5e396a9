------------------------------- MODULE DialApp -------------------------------
(***************************************************************************)
(* The Dial application (dial.rs): one caller, several destinations called *)
(* in parallel, and the bridge with the one that answers.  A destination   *)
(* is a SIP phone, the ;1 half of a Local channel, whose ;2 half runs a    *)
(* dialplan of its own (local.rs), or of a technology without a driver.    *)
(*                                                                         *)
(* Dial keeps a copy of every channel it creates; the channel store holds  *)
(* another one, which the SIP event handler, the Local driver, AMI and the *)
(* callback of an answer write.  OutboundLeg has the signalling of one SIP *)
(* leg; here a leg is what its phone does and what reaches the store, and  *)
(* the interest is in several legs, the bridge and its ends.               *)
(***************************************************************************)
EXTENDS Naturals, FiniteSets, FiniteSetsExt

CONSTANT Destinations   \* how many destinations the argument names

ASSUME DialAssumption == Destinations \in Nat \ {0}

VARIABLES tech,         \* the technology of each destination
          dial,         \* where Dial is
          turn,         \* the leg a loop of it is at
          leg,          \* DialLegState
          own,          \* the state of Dial's copy of each leg
          store,        \* the store's copy of each leg
          phone,        \* the phone of a SIP leg, the dialplan of a Local ;2
          caller,       \* what the store's copy of the caller was told
          lifetime,     \* the BridgeLifetime of the bridge
          winner,       \* the leg that answered
          dialstatus,   \* DIALSTATUS
          second        \* the dialplan of a redirected callee

dialVars == <<tech, dial, turn, leg, own, store, phone, caller, lifetime, winner,
              dialstatus, second>>

Dest == 1..Destinations
Sip == {d \in Dest : tech[d] = "SIP"}
Local == {d \in Dest : tech[d] = "Local"}

Absent == [here |-> FALSE, state |-> "Down", flags |-> {}]

Trying == {"Dialing", "Ringing"}

Technologies == {"SIP", "Local", "unknown"}

DialInit ==
  /\ tech \in [Dest -> Technologies]
  /\ dial = "calling" /\ turn = 1
  /\ leg = [d \in Dest |-> "Dialing"]
  /\ own = [d \in Dest |-> "Down"]
  /\ store = [d \in Dest |-> Absent]
  /\ phone = [d \in Dest |-> "idle"]
  /\ caller = {}
  /\ lifetime = "none"
  /\ winner = 0
  /\ dialstatus = "none"
  /\ second = "none"

-----------------------------------------------------------------------------
(* exec: the legs are called one after the other *)

\* The store's copy is registered and driver.call starts the call: an INVITE, or
\* the dialplan of ;2 in a task of its own.  Without a driver nothing is called,
\* and the leg is dialing all the same.
CallLeg ==
  /\ dial = "calling"
  /\ LET d == turn
     IN /\ store' = [store EXCEPT ![d] = [Absent EXCEPT !.here = TRUE]]
        /\ \/ /\ own' = [own EXCEPT ![d] = IF d \in Local THEN "Ring" ELSE "Dialing"]
              /\ phone' = [phone EXCEPT ![d] = IF d \in Sip \cup Local THEN "alerting" ELSE @]
              /\ dial' = "called"
              /\ UNCHANGED <<leg, turn>>
           \/ \* no transport takes the INVITE, or the Local driver has no such pair
              /\ d \in Sip \cup Local
              /\ leg' = [leg EXCEPT ![d] = "HungUp"]
              /\ turn' = d + 1
              /\ dial' = IF d + 1 \in Dest THEN "calling" ELSE "waiting"
              /\ UNCHANGED <<own, phone>>
  /\ UNCHANGED <<tech, caller, lifetime, winner, dialstatus, second>>

\* The state driver.call left in Dial's copy goes over the store's copy, if it
\* is still there.
SyncLeg ==
  /\ dial = "called"
  /\ store' = [store EXCEPT ![turn].state = IF store[turn].here THEN own[turn] ELSE @]
  /\ turn' = turn + 1
  /\ dial' = IF turn + 1 \in Dest THEN "calling" ELSE "waiting"
  /\ UNCHANGED <<tech, leg, own, phone, caller, lifetime, winner, dialstatus, second>>

-----------------------------------------------------------------------------
(* The far ends: the event handler's writes for SIP, local.rs for Local *)

Elsewhere == UNCHANGED <<tech, dial, turn, leg, own, winner, dialstatus, second>>

Set(d, state) == [store EXCEPT ![d].state = IF store[d].here THEN state ELSE @]

\* A soft hangup cancels the bridge the channel is registered with.
Told(d, flag) ==
  /\ store' = [store EXCEPT ![d].flags = IF store[d].here THEN @ \cup {flag} ELSE @]
  /\ lifetime' = IF store[d].here /\ lifetime = "live" /\ d = winner
                 THEN "cancelled" ELSE lifetime

Rings(d) ==
  /\ d \in Sip /\ phone[d] = "alerting" /\ store[d].state # "Ringing"
  /\ store' = Set(d, "Ringing")
  /\ Elsewhere /\ UNCHANGED <<phone, caller, lifetime>>

\* A 2xx; or Answer() on ;2, whose callback leaves a ;1 that is down alone.
Answers(d) ==
  /\ phone[d] = "alerting"
  /\ phone' = [phone EXCEPT ![d] = "talking"]
  /\ store' = IF d \in Local /\ store[d].state = "Down" THEN store ELSE Set(d, "Up")
  /\ Elsewhere /\ UNCHANGED <<caller, lifetime>>

\* 486 marks the channel busy, any other failure only flags it, and of a 3xx the
\* channel hears nothing.
Refuses(d) ==
  /\ d \in Sip /\ phone[d] = "alerting"
  /\ \/ /\ phone' = [phone EXCEPT ![d] = "busy"]
        /\ store' = Set(d, "Busy")
        /\ UNCHANGED lifetime
     \/ /\ phone' = [phone EXCEPT ![d] = "refused"]
        /\ Told(d, "dev") \/ UNCHANGED <<store, lifetime>>
  /\ Elsewhere /\ UNCHANGED caller

\* The callee's BYE; a channel AMI's Hangup action asks for is the same here.
CalleeHangsUp(d) ==
  /\ d \in Sip /\ phone[d] = "talking"
  /\ phone' = [phone EXCEPT ![d] = "over"]
  /\ Told(d, "dev")
  /\ Elsewhere /\ UNCHANGED caller

\* The dialplan of ;2 ends: ;1 is hung up and, once it is unlocked, taken out
\* of the store.
LocalEnds(d) ==
  /\ d \in Local /\ phone[d] \in {"alerting", "talking"}
  /\ phone' = [phone EXCEPT ![d] = "over"]
  /\ store' = Set(d, "Down")
  /\ Elsewhere /\ UNCHANGED <<caller, lifetime>>

LocalLeaves(d) ==
  /\ d \in Local /\ phone[d] = "over" /\ store[d].here
  /\ store' = [store EXCEPT ![d] = Absent]
  /\ Elsewhere /\ UNCHANGED <<phone, caller, lifetime>>

\* The caller's BYE, or a Redirect of the caller, reaches the store's copy of the
\* caller; Dial's own copy is told nothing.
CallerTold(flag) ==
  /\ caller = {}
  /\ caller' = {flag}
  /\ lifetime' = IF lifetime = "live" THEN "cancelled" ELSE lifetime
  /\ UNCHANGED <<tech, dial, turn, leg, own, store, phone, winner, dialstatus, second>>

\* AMI Redirect of the callee: a new location and the async-goto flag.
RedirectCallee(d) ==
  /\ d = winner /\ store[d].here /\ phone[d] = "talking"
  /\ store[d].flags = {}
  /\ Told(d, "goto")
  /\ Elsewhere /\ UNCHANGED <<phone, caller>>

-----------------------------------------------------------------------------
(* wait_for_answer *)

effective_state(d) == IF store[d].here THEN store[d].state ELSE own[d]

\* What a pass makes of a leg that was still trying.  The cause of a leg that is
\* down is read from Dial's copy, which nobody else writes.
seen(d) ==
  LET s == effective_state(d)
  IN CASE leg[d] \notin Trying -> leg[d]
       [] s = "Up" -> "Answered"
       [] s = "Ringing" -> "Ringing"
       [] s = "Busy" -> "Busy"
       [] s = "Down" -> "Unavailable"
       [] OTHER -> leg[d]

answered == {d \in Dest : leg[d] \in Trying /\ effective_state(d) = "Up"}

Resolved(result) ==
  /\ dialstatus' = result
  /\ turn' = 1
  /\ dial' = "hanging up"

\* A pass up to the first answered leg; the legs behind it are not looked at.
PassAnswered ==
  /\ dial = "waiting" /\ answered # {}
  /\ LET w == Min(answered)
     IN /\ leg' = [d \in Dest |-> IF d <= w THEN seen(d) ELSE leg[d]]
        /\ winner' = w
  /\ Resolved("ANSWER")
  /\ UNCHANGED <<tech, own, store, phone, caller, lifetime, second>>

Pass ==
  /\ dial = "waiting" /\ answered = {}
  /\ \E d \in Dest : leg[d] \in Trying /\ seen(d) # leg[d]
  /\ leg' = [d \in Dest |-> seen(d)]
  /\ UNCHANGED <<tech, dial, turn, own, store, phone, caller, lifetime, winner,
                 dialstatus, second>>

\* Mutant: a leg that could not be called counts as busy.
all_busy_or_dead == \A d \in Dest : leg[d] \in {"Busy", "HungUp"}

\* No leg is ever set to Congestion: what is not all busy is unavailable.
all_busy == \A d \in Dest : leg[d] = "Busy"

NoneTrying ==
  /\ dial = "waiting"
  /\ \A d \in Dest : leg[d] \notin Trying
  /\ Resolved(IF all_busy THEN "BUSY" ELSE "CHANUNAVAIL")
  /\ UNCHANGED <<tech, leg, own, store, phone, caller, lifetime, winner, second>>

DialTimeout ==
  /\ dial = "waiting"
  /\ Resolved("NOANSWER")
  /\ UNCHANGED <<tech, leg, own, store, phone, caller, lifetime, winner, second>>

-----------------------------------------------------------------------------
(* The losing legs *)

\* cancel_or_bye_outbound_leg: a ringing phone is cancelled, one that answered
\* gets a BYE, and the leg leaves the store.  The dialplan of a ;2 hears nothing.
ended(d) == IF d \in Sip /\ phone[d] \in {"alerting", "talking"} THEN "over" ELSE phone[d]

\* Mutant: a leg that answered meanwhile is not hung up.
spared_up(d) == d = winner \/ leg[d] = "HungUp" \/ effective_state(d) = "Up"

\* The legs the loop leaves alone: a failed call is HungUp from the start.
spared(d) == d = winner \/ leg[d] = "HungUp"

HangUpLeg ==
  /\ dial = "hanging up"
  /\ IF spared(turn) THEN UNCHANGED <<leg, own, store, phone>>
     ELSE /\ leg' = [leg EXCEPT ![turn] = "HungUp"]
          /\ own' = [own EXCEPT ![turn] = "Down"]
          /\ store' = [store EXCEPT ![turn] = Absent]
          /\ phone' = [phone EXCEPT ![turn] = ended(turn)]
  /\ turn' = turn + 1
  /\ dial' = IF turn + 1 \in Dest THEN "hanging up"
             ELSE IF winner # 0 THEN "bridging" ELSE "done"
  /\ UNCHANGED <<tech, caller, lifetime, winner, dialstatus, second>>

-----------------------------------------------------------------------------
(* bridge_channels *)

\* The lifetime is registered for both channels; without a common codec both
\* are hung up and the lifetime cancelled.
StartBridge ==
  /\ dial = "bridging"
  /\ dial' = "bridged"
  /\ \/ /\ lifetime' = "live"
        /\ UNCHANGED <<store, caller>>
     \/ /\ lifetime' = "cancelled"
        /\ store' = [store EXCEPT ![winner].flags = IF store[winner].here
                                                    THEN @ \cup {"dev"} ELSE @]
        /\ caller' = caller \cup {"dev"}
  /\ UNCHANGED <<tech, turn, leg, own, phone, winner, dialstatus, second>>

\* The absolute deadline of the L and S options.
BridgeDeadline ==
  /\ dial = "bridged"
  /\ Told(winner, "timeout")
  /\ dial' = "unbridged"
  /\ UNCHANGED <<tech, turn, leg, own, phone, caller, winner, dialstatus, second>>

\* Mutant: the loop waits for the cancellation only.
over_cancelled == lifetime = "cancelled"

\* The loop wakes up when the lifetime is cancelled and polls both channels
\* every 50 ms.
over == \/ lifetime = "cancelled"
        \/ ~store[winner].here
        \/ store[winner].state = "Down" \/ store[winner].flags # {}
        \/ caller # {}

BridgeEnds ==
  /\ dial = "bridged" /\ over
  /\ lifetime' = "none"
  /\ dial' = "unbridged"
  /\ UNCHANGED <<tech, turn, leg, own, store, phone, caller, winner, dialstatus, second>>

\* A redirected callee gets a dialplan of its own, run in a task on a copy.  The
\* global dialplan it needs is set before any channel exists and never unset.
RunRedirected ==
  /\ dial = "unbridged"
  /\ IF store[winner].here /\ "goto" \in store[winner].flags
     THEN /\ store' = [store EXCEPT ![winner].flags = @ \ {"goto"}]
          /\ second' = "running"
     ELSE UNCHANGED <<store, second>>
  /\ dial' = "bye"
  /\ lifetime' = "none"
  /\ UNCHANGED <<tech, turn, leg, own, phone, caller, winner, dialstatus>>

\* send_bye_for_channel, for every callee.
ByeCallee ==
  /\ dial = "bye"
  /\ phone' = [phone EXCEPT ![winner] = ended(winner)]
  /\ store' = [store EXCEPT ![winner] = Absent]
  /\ dial' = "done"
  /\ UNCHANGED <<tech, turn, leg, own, caller, lifetime, winner, dialstatus, second>>

\* The redirected dialplan ends and sends a BYE of its own.
RedirectedEnds ==
  /\ second = "running"
  /\ second' = "over"
  /\ phone' = [phone EXCEPT ![winner] = ended(winner)]
  /\ store' = [store EXCEPT ![winner] = Absent]
  /\ UNCHANGED <<tech, dial, turn, leg, own, caller, lifetime, winner, dialstatus>>

-----------------------------------------------------------------------------
DialTask ==
  \/ CallLeg \/ SyncLeg \/ PassAnswered \/ Pass \/ NoneTrying
  \/ HangUpLeg \/ StartBridge \/ BridgeEnds \/ RunRedirected \/ ByeCallee

DialNext ==
  \/ DialTask \/ DialTimeout \/ BridgeDeadline \/ RedirectedEnds
  \/ \E d \in Dest : \/ Rings(d) \/ Answers(d) \/ Refuses(d) \/ CalleeHangsUp(d)
                     \/ LocalEnds(d) \/ LocalLeaves(d) \/ RedirectCallee(d)
  \/ \E flag \in {"dev", "goto"} : CallerTold(flag)

\* Dial's task is polled and its loops have timers; when a phone answers, a
\* party hangs up or the timeouts come is nobody's obligation.
DialFairness ==
  /\ WF_dialVars(DialTask)
  /\ \A d \in Dest : WF_dialVars(LocalLeaves(d))

DialSpec == DialInit /\ [][DialNext]_dialVars /\ DialFairness

-----------------------------------------------------------------------------
DialTypeOK ==
  /\ tech \in [Dest -> Technologies]
  /\ dial \in {"calling", "called", "waiting", "hanging up", "bridging", "bridged",
               "unbridged", "bye", "done"}
  /\ leg \in [Dest -> {"Dialing", "Ringing", "Answered", "Busy", "Unavailable",
                       "HungUp"}]
  /\ store \in [Dest -> [here : BOOLEAN,
                         state : {"Down", "Dialing", "Ring", "Ringing", "Busy", "Up"},
                         flags : SUBSET {"dev", "goto", "timeout"}]]
  /\ phone \in [Dest -> {"idle", "alerting", "talking", "busy", "refused", "over"}]
  /\ caller \subseteq {"dev", "goto"}
  /\ winner \in Dest \cup {0}

\* Once the bridge is up no other phone rings or talks, and once Dial is through
\* none does at all: a leg that answered in the pass that chose another, or while
\* the losers were hung up, is not forgotten (exec: "Cancel a still-ringing fork
\* (or BYE an answer-race winner)").
InCall(d) == phone[d] \in {"alerting", "talking"}
ForkIsResolved ==
  \A d \in Sip :
    /\ dial \in {"bridging", "bridged", "unbridged", "bye"} /\ d # winner => ~InCall(d)
    /\ dial = "done" => ~InCall(d)

\* BUSY is reported only when every phone said so, whatever the order the
\* refusals, failed calls and passes came in.
BusyMeansAllBusy == dialstatus = "BUSY" => \A d \in Dest : phone[d] = "busy"

\* When the caller or the callee goes, the call is over for the other one too,
\* also when they go before the bridge is registered for cancellation.
PartyEndsCall ==
  (dial \in {"bridging", "bridged"} /\ (caller # {} \/ ~InCall(winner)))
    ~> (dial = "done" /\ (winner \in Sip => ~InCall(winner)))

\* A callee that was redirected is not sent a BYE while the dialplan it was
\* redirected to runs (bridge_channels: "Send BYE for the callee if it wasn't
\* redirected (normal hangup)").
RedirectedIsKept ==
  dial = "done" /\ second = "running" /\ winner \in Sip => store[winner].here

\* When ;2 of a Local leg answers, Dial stops waiting (LocalPairState: "Set to
\* true when ;2 side calls Answer(), so ;1 side (Dial app) can detect it").
LocalAnswerIsSeen ==
  \A d \in Dest : (d \in Local /\ phone[d] = "talking" /\ store[d].here)
    ~> (dial \notin {"calling", "called", "waiting"} \/ ~store[d].here)
=============================================================================
