----------------------------- MODULE AmiServer ------------------------------
(***************************************************************************)
(* The connection handling of the Asterisk Manager Interface               *)
(* (asterisk-ami/src/server.rs, session.rs and the Login and Logoff        *)
(* handlers of actions.rs): a bounded number of unauthenticated            *)
(* connections, a deadline for the login, a bounded queue of output per    *)
(* client, clients that may stop reading at any time.                      *)
(*                                                                         *)
(* Whether a login succeeds is the client's choice here; the login rate    *)
(* limiter and the actions other than Login and Logoff answer and change   *)
(* nothing that is modelled.                                               *)
(***************************************************************************)
EXTENDS Naturals, FiniteSets

CONSTANTS
  Conn,          \* connections, each used again after it is closed
  auth_limit,    \* unauthenticated connections allowed, 0 for any number
  auth_timeout,  \* seconds the login may take, 0 for any time
  Capacity       \* of a session's output queue, 256 in the code

ASSUME AmiAssumption ==
  /\ IsFiniteSet(Conn) /\ auth_limit \in Nat /\ auth_timeout \in Nat
  /\ Capacity \in Nat \ {0}

VARIABLES
  at,            \* where handle_connection stands
  session,       \* authenticated, slot_held, the action being answered
  sessions,      \* the table of sessions
  unauth_count,  \* unauth_sessions
  output,        \* lines queued for a client
  overdue,       \* auth_deadline has passed
  gone,          \* the client closed its socket
  goodbye        \* history: a Logoff was read, and its answer queued

amiVars == <<at, session, sessions, unauth_count, output, overdue, gone, goodbye>>

NewSession == [authenticated |-> FALSE, slot_held |-> FALSE, action |-> "none"]

AmiInit ==
  /\ at = [c \in Conn |-> "closed"]
  /\ session = [c \in Conn |-> NewSession]
  /\ sessions = {}
  /\ unauth_count = 0
  /\ output = [c \in Conn |-> 0]
  /\ overdue = [c \in Conn |-> FALSE]
  /\ gone = [c \in Conn |-> FALSE]
  /\ goodbye = [c \in Conn |-> "none"]

Move(c, from, to) == at[c] = from /\ at' = [at EXCEPT ![c] = to]

-----------------------------------------------------------------------------
\* A client connects: fetch_add, then the limit is compared with the value
\* before it.
Gate(c) ==
  LET refused == auth_limit > 0 /\ unauth_count >= auth_limit
  IN /\ Move(c, "closed", IF refused THEN "refused" ELSE "accepted")
     /\ unauth_count' = unauth_count + 1
     /\ session' = [session EXCEPT ![c] =
                      [NewSession EXCEPT !.slot_held = ~ refused]]
     /\ output' = [output EXCEPT ![c] = 0]
     /\ overdue' = [overdue EXCEPT ![c] = FALSE]
     /\ gone' = [gone EXCEPT ![c] = FALSE]
     /\ goodbye' = [goodbye EXCEPT ![c] = "none"]
     /\ UNCHANGED sessions

\* The refused connection takes its increment back and closes.
Refuse(c) ==
  /\ Move(c, "refused", "closed")
  /\ unauth_count' = unauth_count - 1
  /\ UNCHANGED <<session, sessions, output, overdue, gone, goodbye>>

\* The session enters the table and the banner is queued; the deadline runs.
Open(c) ==
  /\ Move(c, "accepted", "top")
  /\ sessions' = sessions \cup {c}
  /\ output' = [output EXCEPT ![c] = 1]
  /\ UNCHANGED <<session, unauth_count, overdue, gone, goodbye>>

\* The writer is already dead when the banner is sent: the early return.
BannerFails(c) ==
  /\ gone[c]
  /\ Move(c, "accepted", "closed")
  /\ unauth_count' = unauth_count - 1
  /\ session' = [session EXCEPT ![c].slot_held = FALSE]
  /\ UNCHANGED <<sessions, output, overdue, gone, goodbye>>

\* Mutant: the slot is released again on every turn of the loop.
LoopTop_every(c) ==
  /\ Move(c, "top", "select")
  /\ IF session[c].authenticated
     THEN /\ unauth_count' = unauth_count - 1
          /\ session' = [session EXCEPT ![c].slot_held = FALSE]
     ELSE UNCHANGED <<unauth_count, session>>
  /\ UNCHANGED <<sessions, output, overdue, gone, goodbye>>

\* The top of the loop: an authenticated session gives its slot back, once.
LoopTop(c) ==
  /\ Move(c, "top", "select")
  /\ IF session[c].authenticated /\ session[c].slot_held
     THEN /\ unauth_count' = unauth_count - 1
          /\ session' = [session EXCEPT ![c].slot_held = FALSE]
     ELSE UNCHANGED <<unauth_count, session>>
  /\ UNCHANGED <<sessions, output, overdue, gone, goodbye>>

\* handle_login with the right credentials; with others it is an "Other".
handle_login(s) == [s EXCEPT !.authenticated = TRUE]

\* handle_logoff
handle_logoff(s) == [s EXCEPT !.authenticated = FALSE]

\* dispatch: what the action does to the session.  Every action but Login is
\* refused without authentication, which leaves the session as it was.
Dispatch(s, action) ==
  LET t == [s EXCEPT !.action = action]
  IN CASE action = "Login" -> handle_login(t)
       [] action = "Logoff" /\ s.authenticated -> handle_logoff(t)
       [] OTHER -> t

\* A whole message was read and dispatched; its answer is still to be sent.  What
\* a client sent before it left is read all the same.
ReadAction(c, action) ==
  /\ Move(c, "select", "respond")
  /\ session' = [session EXCEPT ![c] = Dispatch(@, action)]
  /\ goodbye' = [goodbye EXCEPT ![c] =
                   IF action = "Logoff" /\ session[c].authenticated
                   THEN "owed" ELSE @]
  /\ UNCHANGED <<sessions, unauth_count, output, overdue, gone>>

\* End of file, a read error, or a line or message beyond the pre-auth caps;
\* the best-effort error line (try_send) is left out, here and below.
ReadFails(c) ==
  /\ gone[c] \/ ~ session[c].authenticated
  /\ Move(c, "select", "cleanup")
  /\ UNCHANGED <<session, sessions, unauth_count, output, overdue, gone, goodbye>>

\* The deadline arm of the read, armed while unauthenticated.
AuthTimeout(c) ==
  /\ overdue[c] /\ ~ session[c].authenticated
  /\ Move(c, "select", "cleanup")
  /\ UNCHANGED <<session, sessions, unauth_count, output, overdue, gone, goodbye>>

\* send_tx.send of the answer; Logoff ends the loop.
Answer(c) ==
  /\ output[c] < Capacity
  /\ Move(c, "respond",
          IF session[c].action = "Logoff" THEN "cleanup" ELSE "top")
  /\ output' = [output EXCEPT ![c] = @ + 1]
  /\ goodbye' = [goodbye EXCEPT ![c] = IF @ = "owed" THEN "queued" ELSE @]
  /\ UNCHANGED <<session, sessions, unauth_count, overdue, gone>>

\* Mutant: the deadline bounds only the reads.
AnswerTimeout_never(c) ==
  /\ gone[c] /\ overdue[c] /\ ~ session[c].authenticated
  /\ Move(c, "respond", "cleanup")
  /\ UNCHANGED <<session, sessions, unauth_count, output, overdue, gone, goodbye>>

\* The deadline arm of the send, present while unauthenticated.
AnswerTimeout(c) ==
  /\ overdue[c] /\ ~ session[c].authenticated
  /\ Move(c, "respond", "cleanup")
  /\ UNCHANGED <<session, sessions, unauth_count, output, overdue, gone, goodbye>>

\* The writer stopped on a dead socket, so the send fails.
AnswerFails(c) ==
  /\ gone[c]
  /\ Move(c, "respond", "cleanup")
  /\ UNCHANGED <<session, sessions, unauth_count, output, overdue, gone, goodbye>>

\* Mutant: teardown forgets the slot of a connection that never logged in.
Cleanup_keep(c) ==
  /\ Move(c, "cleanup", "grace")
  /\ sessions' = sessions \ {c}
  /\ session' = [session EXCEPT ![c].slot_held = FALSE]
  /\ UNCHANGED <<unauth_count, output, overdue, gone, goodbye>>

\* Teardown: the table entry goes, and the slot if it is still held.
Cleanup(c) ==
  /\ Move(c, "cleanup", "grace")
  /\ sessions' = sessions \ {c}
  /\ unauth_count' = IF session[c].slot_held THEN unauth_count - 1
                     ELSE unauth_count
  /\ session' = [session EXCEPT ![c].slot_held = FALSE]
  /\ UNCHANGED <<output, overdue, gone, goodbye>>

\* 500 ms of grace for the writer, then it is aborted and the socket closed.
Close(c) ==
  /\ Move(c, "grace", "closed")
  /\ UNCHANGED <<session, sessions, unauth_count, output, overdue, gone, goodbye>>

\* An event is forwarded to an authenticated session.
ForwardEvent(c) ==
  /\ at[c] \in {"top", "select", "respond"}
  /\ session[c].authenticated /\ output[c] < Capacity
  /\ output' = [output EXCEPT ![c] = @ + 1]
  /\ UNCHANGED <<at, session, sessions, unauth_count, overdue, gone, goodbye>>

\* The writer sends a line; the client has to read for that.
Write(c) ==
  /\ at[c] \notin {"closed", "refused", "accepted"} /\ ~ gone[c] /\ output[c] > 0
  /\ output' = [output EXCEPT ![c] = @ - 1]
  /\ UNCHANGED <<at, session, sessions, unauth_count, overdue, gone, goodbye>>

ClientLeaves(c) ==
  /\ at[c] \notin {"closed", "refused"} /\ ~ gone[c]
  /\ gone' = [gone EXCEPT ![c] = TRUE]
  /\ UNCHANGED <<at, session, sessions, unauth_count, output, overdue, goodbye>>

\* How long the login may take is not counted; a disabled deadline is 30 years
\* away and does not come.
DeadlinePasses(c) ==
  /\ auth_timeout > 0
  /\ at[c] \notin {"closed", "refused", "accepted"} /\ ~ overdue[c]
  /\ overdue' = [overdue EXCEPT ![c] = TRUE]
  /\ UNCHANGED <<at, session, sessions, unauth_count, output, gone, goodbye>>

AmiNext ==
  \E c \in Conn :
    \/ Gate(c) \/ Refuse(c) \/ Open(c) \/ BannerFails(c) \/ LoopTop(c)
    \/ \E action \in {"Login", "Logoff", "Other"} : ReadAction(c, action)
    \/ ReadFails(c) \/ AuthTimeout(c)
    \/ Answer(c) \/ AnswerTimeout(c) \/ AnswerFails(c)
    \/ Cleanup(c) \/ Close(c)
    \/ ForwardEvent(c) \/ Write(c) \/ ClientLeaves(c) \/ DeadlinePasses(c)

\* The runtime schedules the connection's task and time passes; clients owe
\* nothing, neither to read nor to leave.  tokio's select polls its arms in
\* random order, so an arm that is ready again and again is taken: strong
\* fairness for the two deadline arms.
AmiFairness ==
  \A c \in Conn :
    /\ WF_amiVars(Refuse(c)) /\ WF_amiVars(Open(c)) /\ WF_amiVars(LoopTop(c))
    /\ SF_amiVars(AuthTimeout(c)) /\ SF_amiVars(AnswerTimeout(c))
    /\ WF_amiVars(Cleanup(c)) /\ WF_amiVars(Close(c))
    /\ WF_amiVars(DeadlinePasses(c))

AmiSpec == AmiInit /\ [][AmiNext]_amiVars /\ AmiFairness

-----------------------------------------------------------------------------
(* Properties                                                               *)

AmiTypeOK ==
  /\ at \in [Conn -> {"closed", "refused", "accepted", "top", "select",
                      "respond", "cleanup", "grace"}]
  /\ session \in [Conn -> [authenticated: BOOLEAN, slot_held: BOOLEAN,
                           action: {"none", "Login", "Logoff", "Other"}]]
  /\ sessions \subseteq Conn
  /\ output \in [Conn -> 0 .. Capacity]

Holders == {c \in Conn : session[c].slot_held}

\* The lock-free counter is exact and the limit holds: unauth_sessions counts
\* the connections that hold a slot and the ones being refused, at most
\* auth_limit hold one, every session that is not logged in and not logging
\* off holds one, and a session that waits for its next action after its
\* login holds none (handle_connection, "release it exactly once").
SlotAccounting ==
  /\ unauth_count = Cardinality(Holders)
                    + Cardinality({c \in Conn : at[c] = "refused"})
  /\ auth_limit > 0 => Cardinality(Holders) <= auth_limit
  /\ \A c \in sessions :
       /\ ~ session[c].authenticated /\ session[c].action # "Logoff"
            => session[c].slot_held
       /\ session[c].authenticated /\ at[c] = "select"
            => ~ session[c].slot_held

\* "the auth deadline must bound the WHOLE unauthenticated phase, not just
\* reads": a connection that was let in logs in or is closed, even if its
\* client floods it with actions and never reads an answer.  With an auth_timeout
\* of 0 nothing is promised.
PreAuthIsBounded ==
  auth_timeout > 0 =>
    \A c \in Conn :
      at[c] = "accepted" ~> session[c].authenticated \/ at[c] = "closed"

\* A Logoff is answered before the connection is torn down, as handle_logoff
\* promises its clients ("Real Asterisk returns `Response: Goodbye`"): only a
\* client that left goes without.  Logoff clears authenticated, so the answer
\* races the deadline of the login, and this one fails.
LogoffIsAnswered ==
  \A c \in Conn : at[c] = "grace" /\ ~ gone[c] => goodbye[c] # "owed"
=============================================================================
