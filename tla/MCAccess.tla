------------------------------ MODULE MCAccess ------------------------------
(***************************************************************************)
(* The two parts that let someone in or keep them out, which share no      *)
(* state, checked side by side: the connections of the manager interface,  *)
(* and SRTP.  Each behaviour exercises one of them and leaves the other as *)
(* it starts.                                                              *)
(***************************************************************************)
EXTENDS AmiServer, Srtp

VARIABLE part   \* the part a behaviour exercises

\* What a part may start from is enumerated only where the part is exercised.
AccessInit ==
  /\ part \in {"ami", "srtp"}
  /\ AmiInit /\ SrtpInit
  /\ part # "srtp" => first = CHOOSE s \in Starts : TRUE

AccessNext ==
  \/ part = "ami" /\ AmiNext /\ UNCHANGED <<part, srtpVars>>
  \/ part = "srtp" /\ SrtpNext /\ UNCHANGED <<part, amiVars>>

\* Nothing AMI is fair to is enabled before a client connects.
AccessSpec ==
  AccessInit /\ [][AccessNext]_<<part, amiVars, srtpVars>> /\ AmiFairness
=============================================================================
