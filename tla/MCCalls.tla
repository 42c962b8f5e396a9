------------------------------ MODULE MCCalls ------------------------------
(***************************************************************************)
(* Three parts of a call that share no state, checked side by side: the    *)
(* inbound call, the Dial application with its legs, and the client        *)
(* transactions.  Each behaviour exercises one of them and leaves the      *)
(* others as they start, so the states are those of the three taken apart. *)
(***************************************************************************)
EXTENDS InboundCall, DialApp, SipClient

VARIABLE part   \* the part a behaviour exercises

calls == <<part, vars, dialVars, clientVars>>

\* What a part may start from is enumerated only where the part is exercised.
CallsInit ==
  /\ part \in {"inbound", "dial", "client"}
  /\ Init /\ DialInit /\ ClientInit
  /\ part # "dial" => tech = [d \in Dest |-> "SIP"]
  /\ part # "client" => kind = [b \in Branch |-> "invite"]

CallsNext ==
  \/ part = "inbound" /\ Next /\ UNCHANGED <<part, dialVars, clientVars>>
  \/ part = "dial" /\ DialNext /\ UNCHANGED <<part, vars, clientVars>>
  \/ part = "client" /\ ClientNext /\ UNCHANGED <<part, vars, dialVars>>

\* The fairness of the three parts.  Dial's task is enabled from the start, and
\* owes nothing in a behaviour of another part; nothing the other two are
\* fair to is enabled before their first step.
CallsSpec ==
  /\ CallsInit /\ [][CallsNext]_calls
  /\ InboundFairness /\ ClientFairness
  /\ WF_dialVars(part = "dial" /\ DialTask)
  /\ \A d \in Dest : WF_dialVars(part = "dial" /\ LocalLeaves(d))
=============================================================================
