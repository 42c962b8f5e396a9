---------------------------- MODULE InviteService ----------------------------
(***************************************************************************)
(* What the server half of the transaction layer promises its peer and its *)
(* transaction user, without transactions, timers or queues: sessions are  *)
(* created one after the other for an INVITE identity, each is answered by *)
(* at most one final response, and that answer never changes.              *)
(***************************************************************************)
EXTENDS Naturals

CONSTANTS Call, MaxInst, Final

VARIABLES
  created,  \* sessions created so far for each INVITE identity
  answer    \* the set of final responses seen on the wire for each session

vars == <<created, answer>>

Inst == 1 .. MaxInst

Init ==
  /\ created = [c \in Call |-> 0]
  /\ answer = [c \in Call |-> [n \in Inst |-> {}]]

\* An INVITE that is not a retransmission creates the next session.
Create(c) ==
  /\ created[c] < MaxInst
  /\ created' = [created EXCEPT ![c] = @ + 1]
  /\ UNCHANGED answer

\* Some of the sessions created so far, still unanswered, are answered.
Answer ==
  /\ UNCHANGED created
  /\ answer' \in [Call -> [Inst -> SUBSET Final]]
  /\ \A c \in Call, n \in Inst :
       answer'[c][n] # answer[c][n] =>
         /\ answer[c][n] = {}
         /\ n <= created[c]
         /\ \E st \in Final : answer'[c][n] = {st}

Next == Answer \/ \E c \in Call : Create(c)

Spec == Init /\ [][Next]_vars
=============================================================================
