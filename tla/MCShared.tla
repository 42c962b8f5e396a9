------------------------------ MODULE MCShared ------------------------------
(***************************************************************************)
(* Two tables that several parties change, checked side by side: a         *)
(* conference with its legs and mixers, and the bindings of an address of  *)
(* record with a registering device.  They share no state.  Each behaviour *)
(* exercises one of them and leaves the other as it starts.                *)
(***************************************************************************)
EXTENDS ConfBridge, Registration

\* What the other devices ask for: nothing, "*" with and without an Expires, one
\* Contact bound or unbound, two bound.
MCOtherRequests ==
  {<<>>, Wildcard(0), Wildcard(1),
   << [uri |-> "o2", expires |-> 1], [uri |-> "o1", expires |-> 1] >>} \cup
  {<< [uri |-> "o1", expires |-> e] >> : e \in {0, 1}}

VARIABLE part   \* the part a behaviour exercises

\* What the registrar may start from is enumerated only where it is exercised.
SharedInit ==
  /\ part \in {"conference", "registration"}
  /\ ConfInit /\ RegInit
  /\ part # "registration" => policy = [remove_existing |-> FALSE, auth |-> FALSE]

SharedNext ==
  \/ part = "conference" /\ ConfNext /\ UNCHANGED <<part, regVars>>
  \/ part = "registration" /\ RegNext /\ UNCHANGED <<part, confVars>>

\* The device ticks from the start, and owes nothing in a behaviour of the other
\* part; nothing the mixers owe is enabled before a conference exists.
SharedSpec ==
  /\ SharedInit /\ [][SharedNext]_<<part, confVars, regVars>>
  /\ ConfFairness
  /\ WF_regVars(part = "registration" /\ AgentTicks)
  /\ WF_regVars(part = "registration" /\ TimePasses)
=============================================================================
