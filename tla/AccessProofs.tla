---------------------------- MODULE AccessProofs ----------------------------
(***************************************************************************)
(* The two parts that let someone in or keep them out, which share no      *)
(* state: the connections of the manager interface, and SRTP.              *)
(*                                                                         *)
(* For any finite set of connections and any limit, the counter of         *)
(* unauthenticated sessions is exact and the limit is kept, though gate,   *)
(* login and teardown of the connections interleave freely.                *)
(* SlotAccounting is not inductive: the strengthening AmiInv says where in *)
(* handle_connection a slot may be held and that a Logoff only leads to    *)
(* the teardown.                                                           *)
(*                                                                         *)
(* The replay protection of Srtp is proved for every width of the sequence *)
(* number, of the rollover counter and of the window, and for sessions of  *)
(* any length.  That a key stream protects one packet only is proved for   *)
(* PureRustSrtp, whose RTP and SRTCP have session keys of their own.       *)
(***************************************************************************)
EXTENDS AmiServer, Srtp, FiniteSetTheorems, TLAPS

-----------------------------------------------------------------------------
(* The manager interface                                                    *)

Shape ==
  /\ at \in [Conn -> {"closed", "refused", "accepted", "top", "select",
                      "respond", "cleanup", "grace"}]
  /\ session \in [Conn -> [authenticated : BOOLEAN, slot_held : BOOLEAN,
                           action : {"none", "Login", "Logoff", "Other"}]]
  /\ sessions \subseteq Conn
  /\ unauth_count \in Nat

Refused == {c \in Conn : at[c] = "refused"}

Exact == unauth_count = Cardinality(Holders) + Cardinality(Refused)

Limited == auth_limit > 0 => Cardinality(Holders) <= auth_limit

\* Where a connection stands, and what it then holds.
Inside == {"top", "select", "respond", "cleanup"}
Standing(c) ==
  /\ at[c] \in {"closed", "refused", "grace"} => ~ session[c].slot_held
  /\ at[c] = "accepted" => session[c].slot_held /\ session[c].action = "none"
                           /\ ~ session[c].authenticated
  /\ c \in sessions <=> at[c] \in Inside
  /\ session[c].action = "Logoff" => at[c] \notin {"top", "select"}
  /\ at[c] \in Inside /\ ~ session[c].authenticated /\ session[c].action # "Logoff"
       => session[c].slot_held
  /\ session[c].authenticated /\ at[c] = "select" => ~ session[c].slot_held

AmiInv == Shape /\ Exact /\ Limited /\ \A c \in Conn : Standing(c)

-------------------------------------------------------------------------------
\* One connection takes or gives back its slot, and the others keep theirs.
LEMMA Counting ==
  ASSUME NEW S, NEW T, NEW c, IsFiniteSet(S)
  PROVE  /\ Cardinality(S) \in Nat
         /\ c \notin S /\ T = S \cup {c} => Cardinality(T) = Cardinality(S) + 1
         /\ c \in S /\ T = S \ {c} => Cardinality(S) = Cardinality(T) + 1
  <1>1. Cardinality(S) \in Nat
    BY FS_CardinalityType, Zenon
  <1>2. ASSUME c \notin S, T = S \cup {c} PROVE Cardinality(T) = Cardinality(S) + 1
    BY <1>2, FS_AddElement, Zenon
  <1>3. ASSUME c \in S, T = S \ {c} PROVE Cardinality(S) = Cardinality(T) + 1
    <2>1. Cardinality(T) = Cardinality(S) - 1
      BY <1>3, FS_RemoveElement, Zenon
    <2> QED BY <1>1, <2>1
  <1> QED BY <1>1, <1>2, <1>3, Zenon

\* Both sets are finite.
LEMMA Finite == IsFiniteSet(Holders) /\ IsFiniteSet(Refused)
  <1>1. Holders \subseteq Conn /\ Refused \subseteq Conn
    BY Zenon DEF Holders, Refused
  <1> QED BY <1>1, AmiAssumption, FS_Subset, Zenon

\* Before any client connects the invariant holds.
LEMMA AmiInitInv == AmiInit => AmiInv
  <1> SUFFICES ASSUME AmiInit PROVE AmiInv
    BY Zenon
  <1>1. Shape /\ \A c \in Conn : Standing(c)
    BY Zenon DEF AmiInit, NewSession, Shape, Standing, Inside
  <1>2. Holders = {} /\ Refused = {}
    BY Zenon DEF AmiInit, NewSession, Holders, Refused
  <1>3. Cardinality({}) = 0
    BY FS_EmptySet, Zenon
  <1> QED BY <1>1, <1>2, <1>3, AmiAssumption DEF AmiInit, AmiInv, Exact, Limited

\* A step that moves no slot.
LEMMA SameSlots ==
  ASSUME AmiInv, unauth_count' = unauth_count,
         \A e \in Conn : /\ session'[e].slot_held = session[e].slot_held
                         /\ at'[e] = "refused" <=> at[e] = "refused"
  PROVE  Exact' /\ Limited'
  <1>1. Holders' = Holders /\ Refused' = Refused
    BY Zenon DEF Holders, Refused
  <1> QED BY <1>1, Zenon DEF AmiInv, Exact, Limited

\* A step that gives one slot back.
LEMMA SlotReleased ==
  ASSUME AmiInv, NEW c \in Conn, session[c].slot_held, ~ session'[c].slot_held,
         unauth_count' = unauth_count - 1,
         \A e \in Conn : /\ e # c => session'[e].slot_held = session[e].slot_held
                         /\ at'[e] = "refused" <=> at[e] = "refused"
  PROVE  unauth_count' \in Nat /\ Exact' /\ Limited'
  <1>1. Refused' = Refused /\ c \in Holders /\ Holders' = Holders \ {c}
    BY Zenon DEF Holders, Refused
  <1>2. /\ Cardinality(Holders) = Cardinality(Holders') + 1
        /\ Cardinality(Refused) \in Nat
    BY <1>1, Finite, Counting, Zenon
  <1>3. Cardinality(Holders') \in Nat
    BY Finite, FS_CardinalityType, FS_RemoveElement, <1>1, Zenon
  <1> QED BY <1>1, <1>2, <1>3, AmiAssumption DEF AmiInv, Exact, Limited

\* What happens to the other connections: nothing that Standing looks at.
Apart(c) ==
  \A e \in Conn \ {c} : /\ at'[e] = at[e] /\ session'[e] = session[e]
                        /\ e \in sessions' <=> e \in sessions

\* A step of one connection's task leaves the others where they stand.
LEMMA OthersStand ==
  ASSUME AmiInv, NEW c \in Conn, Apart(c), Standing(c)'
  PROVE  \A e \in Conn : Standing(e)'
  BY DEF AmiInv, Apart, Standing

\* Every step of every connection keeps the invariant.
LEMMA AmiNextInv == AmiInv /\ [AmiNext]_amiVars => AmiInv'
  <1> SUFFICES ASSUME AmiInv, [AmiNext]_amiVars PROVE AmiInv'
    BY Zenon
  <1>0. Shape /\ \A c \in Conn : Standing(c)
    BY Zenon DEF AmiInv
  <1>1. ASSUME NEW c \in Conn, Gate(c) PROVE AmiInv'
    <2> DEFINE refused == auth_limit > 0 /\ unauth_count >= auth_limit
    <2>0. /\ at[c] = "closed" /\ ~ session[c].slot_held
          /\ at' = [at EXCEPT ![c] = IF refused THEN "refused" ELSE "accepted"]
          /\ session' = [session EXCEPT ![c] = [NewSession EXCEPT !.slot_held = ~ refused]]
          /\ unauth_count' = unauth_count + 1 /\ sessions' = sessions
      BY <1>0, <1>1, Zenon DEF Gate, Move, Standing
    <2>a. refused \in BOOLEAN
      BY Zenon
    <2>b. refused <=> (auth_limit > 0 /\ unauth_count >= auth_limit)
      BY Zenon
    <2> HIDE DEF refused
    <2>1. Shape' /\ Apart(c)
      <3>1. [NewSession EXCEPT !.slot_held = ~ refused] \in
              [authenticated : BOOLEAN, slot_held : BOOLEAN,
               action : {"none", "Login", "Logoff", "Other"}]
        BY <2>a, Zenon DEF NewSession
      <3> QED BY <1>0, <2>0, <3>1 DEF Shape, Apart
    <2>2. Standing(c)'
      BY <1>0, <2>0, <2>a, Zenon DEF Shape, Standing, Inside, NewSession
    <2>3. CASE refused
      <3>1. Holders' = Holders /\ c \notin Refused /\ Refused' = Refused \cup {c}
        BY <1>0, <2>0, <2>3 DEF Shape, Holders, Refused, NewSession
      <3>2. /\ Cardinality(Refused') = Cardinality(Refused) + 1
            /\ Cardinality(Holders) \in Nat /\ Cardinality(Refused) \in Nat
        BY <3>1, Finite, Counting, Zenon
      <3>3. Exact' /\ Limited'
        BY <2>0, <3>1, <3>2 DEF AmiInv, Exact, Limited
      <3> QED BY <2>1, <2>2, <3>3, OthersStand, Zenon DEF AmiInv
    <2>4. CASE ~ refused
      <3>1. Refused' = Refused /\ c \notin Holders /\ Holders' = Holders \cup {c}
        BY <1>0, <2>0, <2>4, Zenon DEF Shape, Holders, Refused, NewSession
      <3>2. /\ Cardinality(Holders') = Cardinality(Holders) + 1
            /\ Cardinality(Holders) \in Nat /\ Cardinality(Refused) \in Nat
        BY <3>1, Finite, Counting, Zenon
      <3>3. Exact' /\ Limited'
        <4>1. Exact'
          BY <2>0, <3>1, <3>2 DEF AmiInv, Exact
        <4>2. auth_limit > 0 => Cardinality(Holders) < auth_limit
          BY <2>b, <2>4, <3>2, AmiAssumption DEF AmiInv, Exact
        <4> QED BY <3>2, <4>1, <4>2, AmiAssumption DEF Limited
      <3> QED BY <2>1, <2>2, <3>3, OthersStand DEF AmiInv
    <2> QED BY <2>3, <2>4, Zenon
  <1>2. ASSUME NEW c \in Conn, Refuse(c) PROVE AmiInv'
    <2>1. Holders' = Holders /\ c \in Refused /\ Refused' = Refused \ {c}
      BY <1>0, <1>2, Zenon DEF Shape, Refuse, Move, Holders, Refused
    <2>2. /\ Cardinality(Refused) = Cardinality(Refused') + 1
          /\ Cardinality(Holders) \in Nat
      BY <2>1, Finite, Counting, Zenon
    <2>3. Cardinality(Refused') \in Nat
      BY <2>1, Finite, FS_CardinalityType, FS_RemoveElement, Zenon
    <2>4. Exact' /\ Limited' /\ unauth_count' \in Nat
      BY <1>2, <2>1, <2>2, <2>3 DEF AmiInv, Exact, Limited, Refuse
    <2>5. Shape' /\ Apart(c)
      BY <1>0, <1>2, <2>4, Zenon DEF Shape, Apart, Refuse, Move
    <2>6. Standing(c)'
      BY <1>0, <1>2, Zenon DEF Shape, Standing, Inside, Refuse, Move
    <2> QED BY <2>4, <2>5, <2>6, OthersStand, Zenon DEF AmiInv
  <1>3. ASSUME NEW c \in Conn, BannerFails(c) PROVE AmiInv'
    <2>1. Apart(c)
      BY <1>0, <1>3, Zenon DEF Shape, Apart, BannerFails, Move
    <2>2. Standing(c)'
      BY <1>0, <1>3 DEF Shape, Standing, Inside, BannerFails, Move
    <2>3. unauth_count' \in Nat /\ Exact' /\ Limited'
      <3>1. \A e \in Conn : /\ e # c => session'[e].slot_held = session[e].slot_held
                            /\ at'[e] = "refused" <=> at[e] = "refused"
        BY <1>0, <1>3, Zenon DEF Shape, BannerFails, Move
      <3>2. \/ unauth_count' = unauth_count - 1 /\ session[c].slot_held
               /\ ~ session'[c].slot_held
            \/ unauth_count' = unauth_count
               /\ session'[c].slot_held = session[c].slot_held
        BY <1>0, <1>3, Zenon DEF Shape, Standing, BannerFails, Move
      <3> QED BY <1>0, <3>1, <3>2, SlotReleased, SameSlots DEF Shape
    <2>4. Shape'
      BY <1>0, <1>3, <2>3, Zenon DEF Shape, BannerFails, Move
    <2> QED BY <2>1, <2>2, <2>3, <2>4, OthersStand, Zenon DEF AmiInv
  <1>4. ASSUME NEW c \in Conn, LoopTop(c) PROVE AmiInv'
    <2>1. Apart(c)
      BY <1>0, <1>4, Zenon DEF Shape, Apart, LoopTop, Move
    <2>2. Standing(c)'
      BY <1>0, <1>4 DEF Shape, Standing, Inside, LoopTop, Move
    <2>3. unauth_count' \in Nat /\ Exact' /\ Limited'
      <3>1. \A e \in Conn : /\ e # c => session'[e].slot_held = session[e].slot_held
                            /\ at'[e] = "refused" <=> at[e] = "refused"
        BY <1>0, <1>4, Zenon DEF Shape, LoopTop, Move
      <3>2. \/ unauth_count' = unauth_count - 1 /\ session[c].slot_held
               /\ ~ session'[c].slot_held
            \/ unauth_count' = unauth_count
               /\ session'[c].slot_held = session[c].slot_held
        BY <1>0, <1>4 DEF Shape, Standing, LoopTop, Move
      <3> QED BY <1>0, <3>1, <3>2, SlotReleased, SameSlots DEF Shape
    <2>4. Shape'
      <3>1. \/ session' = session
            \/ session' = [session EXCEPT ![c].slot_held = FALSE]
        BY <1>4, Zenon DEF LoopTop
      <3>2. session' \in [Conn -> [authenticated : BOOLEAN, slot_held : BOOLEAN,
                                   action : {"none", "Login", "Logoff", "Other"}]]
        <4>1. CASE session' = session
          BY <1>0, <4>1, Zenon DEF Shape
        <4>2. CASE session' = [session EXCEPT ![c].slot_held = FALSE]
          BY <1>0, <4>2, Zenon DEF Shape
        <4> QED BY <3>1, <4>1, <4>2, Zenon
      <3> QED BY <1>0, <1>4, <2>3, <3>2, Zenon DEF Shape, LoopTop, Move
    <2> QED BY <2>1, <2>2, <2>3, <2>4, OthersStand DEF AmiInv
  <1>5. ASSUME NEW c \in Conn, Cleanup(c) PROVE AmiInv'
    <2>1. Apart(c)
      BY <1>0, <1>5, Zenon DEF Shape, Apart, Cleanup, Move
    <2>2. Standing(c)'
      BY <1>0, <1>5, Zenon DEF Shape, Standing, Inside, Cleanup, Move
    <2>3. unauth_count' \in Nat /\ Exact' /\ Limited'
      <3>1. \A e \in Conn : /\ e # c => session'[e].slot_held = session[e].slot_held
                            /\ at'[e] = "refused" <=> at[e] = "refused"
        BY <1>0, <1>5, Zenon DEF Shape, Cleanup, Move
      <3>2. \/ unauth_count' = unauth_count - 1 /\ session[c].slot_held
               /\ ~ session'[c].slot_held
            \/ unauth_count' = unauth_count
               /\ session'[c].slot_held = session[c].slot_held
        BY <1>0, <1>5, Zenon DEF Shape, Standing, Cleanup, Move
      <3> QED BY <1>0, <3>1, <3>2, SlotReleased, SameSlots DEF Shape
    <2>4. Shape'
      BY <1>0, <1>5, <2>3, Zenon DEF Shape, Cleanup, Move
    <2> QED BY <2>1, <2>2, <2>3, <2>4, OthersStand DEF AmiInv
  <1>6. ASSUME NEW c \in Conn, NEW action \in {"Login", "Logoff", "Other"},
               ReadAction(c, action)
        PROVE  AmiInv'
    <2>1. Shape' /\ Apart(c)
      BY <1>0, <1>6, ZenonT(60) DEF Shape, Apart, ReadAction, Move, Dispatch,
          handle_login, handle_logoff
    <2>2. Standing(c)'
      BY <1>0, <1>6 DEF Shape, Standing, Inside, ReadAction, Move, Dispatch,
          handle_login, handle_logoff
    <2>3. Exact' /\ Limited'
      <3>1. \A e \in Conn : /\ session'[e].slot_held = session[e].slot_held
                            /\ at'[e] = "refused" <=> at[e] = "refused"
        BY <1>0, <1>6, Zenon DEF Shape, ReadAction, Move, Dispatch,
          handle_login, handle_logoff
      <3> QED BY <1>6, <3>1, SameSlots, Zenon DEF ReadAction
    <2> QED BY <2>1, <2>2, <2>3, OthersStand, Zenon DEF AmiInv
  <1>7. ASSUME NEW c \in Conn, Open(c) PROVE AmiInv'
    <2>1. Shape' /\ Apart(c)
      BY <1>0, <1>7, Zenon DEF Shape, Apart, Open, Move
    <2>2. Standing(c)'
      BY <1>0, <1>7, Zenon DEF Shape, Standing, Inside, Open, Move
    <2>3. Exact' /\ Limited'
      <3>1. \A e \in Conn : /\ session'[e].slot_held = session[e].slot_held
                            /\ at'[e] = "refused" <=> at[e] = "refused"
        BY <1>0, <1>7, Zenon DEF Shape, Open, Move
      <3> QED BY <1>7, <3>1, SameSlots, Zenon DEF Open
    <2> QED BY <2>1, <2>2, <2>3, OthersStand DEF AmiInv
  <1>8. ASSUME NEW c \in Conn, ReadFails(c) PROVE AmiInv'
    <2>1. Shape' /\ Apart(c)
      BY <1>0, <1>8, Zenon DEF Shape, Apart, ReadFails, Move
    <2>2. Standing(c)'
      BY <1>0, <1>8, Zenon DEF Shape, Standing, Inside, ReadFails, Move
    <2>3. Exact' /\ Limited'
      <3>1. \A e \in Conn : /\ session'[e].slot_held = session[e].slot_held
                            /\ at'[e] = "refused" <=> at[e] = "refused"
        BY <1>0, <1>8, Zenon DEF Shape, ReadFails, Move
      <3> QED BY <1>8, <3>1, SameSlots, Zenon DEF ReadFails
    <2> QED BY <2>1, <2>2, <2>3, OthersStand DEF AmiInv
  <1>9. ASSUME NEW c \in Conn, AuthTimeout(c) PROVE AmiInv'
    <2>1. Shape' /\ Apart(c)
      BY <1>0, <1>9, Zenon DEF Shape, Apart, AuthTimeout, Move
    <2>2. Standing(c)'
      BY <1>0, <1>9, Zenon DEF Shape, Standing, Inside, AuthTimeout, Move
    <2>3. Exact' /\ Limited'
      <3>1. \A e \in Conn : /\ session'[e].slot_held = session[e].slot_held
                            /\ at'[e] = "refused" <=> at[e] = "refused"
        BY <1>0, <1>9, Zenon DEF Shape, AuthTimeout, Move
      <3> QED BY <1>9, <3>1, SameSlots, Zenon DEF AuthTimeout
    <2> QED BY <2>1, <2>2, <2>3, OthersStand DEF AmiInv
  <1>10. ASSUME NEW c \in Conn, Answer(c) PROVE AmiInv'
    <2>1. Shape' /\ Apart(c)
      BY <1>0, <1>10, Zenon DEF Shape, Apart, Answer, Move
    <2>2. Standing(c)'
      BY <1>0, <1>10, Zenon DEF Shape, Standing, Inside, Answer, Move
    <2>3. Exact' /\ Limited'
      <3>1. \A e \in Conn : /\ session'[e].slot_held = session[e].slot_held
                            /\ at'[e] = "refused" <=> at[e] = "refused"
        BY <1>0, <1>10, Zenon DEF Shape, Answer, Move
      <3> QED BY <1>10, <3>1, SameSlots, Zenon DEF Answer
    <2> QED BY <2>1, <2>2, <2>3, OthersStand DEF AmiInv
  <1>11. ASSUME NEW c \in Conn, AnswerTimeout(c) PROVE AmiInv'
    <2>1. Shape' /\ Apart(c)
      BY <1>0, <1>11, Zenon DEF Shape, Apart, AnswerTimeout, Move
    <2>2. Standing(c)'
      BY <1>0, <1>11, Zenon DEF Shape, Standing, Inside, AnswerTimeout, Move
    <2>3. Exact' /\ Limited'
      <3>1. \A e \in Conn : /\ session'[e].slot_held = session[e].slot_held
                            /\ at'[e] = "refused" <=> at[e] = "refused"
        BY <1>0, <1>11, Zenon DEF Shape, AnswerTimeout, Move
      <3> QED BY <1>11, <3>1, SameSlots, Zenon DEF AnswerTimeout
    <2> QED BY <2>1, <2>2, <2>3, OthersStand DEF AmiInv
  <1>12. ASSUME NEW c \in Conn, AnswerFails(c) PROVE AmiInv'
    <2>1. Shape' /\ Apart(c)
      BY <1>0, <1>12, Zenon DEF Shape, Apart, AnswerFails, Move
    <2>2. Standing(c)'
      BY <1>0, <1>12, Zenon DEF Shape, Standing, Inside, AnswerFails, Move
    <2>3. Exact' /\ Limited'
      <3>1. \A e \in Conn : /\ session'[e].slot_held = session[e].slot_held
                            /\ at'[e] = "refused" <=> at[e] = "refused"
        BY <1>0, <1>12, Zenon DEF Shape, AnswerFails, Move
      <3> QED BY <1>12, <3>1, SameSlots, Zenon DEF AnswerFails
    <2> QED BY <2>1, <2>2, <2>3, OthersStand DEF AmiInv
  <1>13. ASSUME NEW c \in Conn, Close(c) PROVE AmiInv'
    <2>1. Shape' /\ Apart(c)
      BY <1>0, <1>13, Zenon DEF Shape, Apart, Close, Move
    <2>2. Standing(c)'
      BY <1>0, <1>13, Zenon DEF Shape, Standing, Inside, Close, Move
    <2>3. Exact' /\ Limited'
      <3>1. \A e \in Conn : /\ session'[e].slot_held = session[e].slot_held
                            /\ at'[e] = "refused" <=> at[e] = "refused"
        BY <1>0, <1>13, Zenon DEF Shape, Close, Move
      <3> QED BY <1>13, <3>1, SameSlots, Zenon DEF Close
    <2> QED BY <2>1, <2>2, <2>3, OthersStand DEF AmiInv
  <1>14. ASSUME NEW c \in Conn, ForwardEvent(c) PROVE AmiInv'
    <2>1. Shape' /\ Apart(c)
      BY <1>0, <1>14, Zenon DEF Shape, Apart, ForwardEvent, Move
    <2>2. Standing(c)'
      BY <1>0, <1>14, Zenon DEF Shape, Standing, Inside, ForwardEvent, Move
    <2>3. Exact' /\ Limited'
      <3>1. \A e \in Conn : /\ session'[e].slot_held = session[e].slot_held
                            /\ at'[e] = "refused" <=> at[e] = "refused"
        BY <1>0, <1>14, Zenon DEF Shape, ForwardEvent, Move
      <3> QED BY <1>14, <3>1, SameSlots, Zenon DEF ForwardEvent
    <2> QED BY <2>1, <2>2, <2>3, OthersStand DEF AmiInv
  <1>15. ASSUME NEW c \in Conn, Write(c) PROVE AmiInv'
    <2>1. Shape' /\ Apart(c)
      BY <1>0, <1>15, Zenon DEF Shape, Apart, Write, Move
    <2>2. Standing(c)'
      BY <1>0, <1>15, Zenon DEF Shape, Standing, Inside, Write, Move
    <2>3. Exact' /\ Limited'
      <3>1. \A e \in Conn : /\ session'[e].slot_held = session[e].slot_held
                            /\ at'[e] = "refused" <=> at[e] = "refused"
        BY <1>0, <1>15, Zenon DEF Shape, Write, Move
      <3> QED BY <1>15, <3>1, SameSlots, Zenon DEF Write
    <2> QED BY <2>1, <2>2, <2>3, OthersStand DEF AmiInv
  <1>16. ASSUME NEW c \in Conn, ClientLeaves(c) PROVE AmiInv'
    <2>1. Shape' /\ Apart(c)
      BY <1>0, <1>16, Zenon DEF Shape, Apart, ClientLeaves, Move
    <2>2. Standing(c)'
      BY <1>0, <1>16, Zenon DEF Shape, Standing, Inside, ClientLeaves, Move
    <2>3. Exact' /\ Limited'
      <3>1. \A e \in Conn : /\ session'[e].slot_held = session[e].slot_held
                            /\ at'[e] = "refused" <=> at[e] = "refused"
        BY <1>0, <1>16, Zenon DEF Shape, ClientLeaves, Move
      <3> QED BY <1>16, <3>1, SameSlots, Zenon DEF ClientLeaves
    <2> QED BY <2>1, <2>2, <2>3, OthersStand DEF AmiInv
  <1>17. ASSUME NEW c \in Conn, DeadlinePasses(c) PROVE AmiInv'
    <2>1. Shape' /\ Apart(c)
      BY <1>0, <1>17, Zenon DEF Shape, Apart, DeadlinePasses, Move
    <2>2. Standing(c)'
      BY <1>0, <1>17, Zenon DEF Shape, Standing, Inside, DeadlinePasses, Move
    <2>3. Exact' /\ Limited'
      <3>1. \A e \in Conn : /\ session'[e].slot_held = session[e].slot_held
                            /\ at'[e] = "refused" <=> at[e] = "refused"
        BY <1>0, <1>17, Zenon DEF Shape, DeadlinePasses, Move
      <3> QED BY <1>17, <3>1, SameSlots, Zenon DEF DeadlinePasses
    <2> QED BY <2>1, <2>2, <2>3, OthersStand DEF AmiInv
  <1>18. CASE UNCHANGED amiVars
    BY <1>0, <1>18, Zenon DEF amiVars, AmiInv, Shape, Exact, Limited, Holders, Refused, Standing
  <1> QED
    BY <1>1, <1>2, <1>3, <1>4, <1>5, <1>6, <1>7, <1>8, <1>9,
       <1>10, <1>11, <1>12, <1>13, <1>14, <1>15, <1>16, <1>17, <1>18, ZenonT(60) DEF AmiNext

-------------------------------------------------------------------------------
\* For any number of connections handle_connection's atomic counter is exact, the
\* pre-authentication limit holds, and slots are held by whom they should be.
THEOREM SlotsAreExact == AmiSpec => []SlotAccounting
  <1>1. AmiInv => SlotAccounting
    BY Zenon DEF AmiInv, SlotAccounting, Shape, Exact, Limited, Refused, Standing
  <1> QED BY <1>1, AmiInitInv, AmiNextInv, PTL DEF AmiSpec

-----------------------------------------------------------------------------
(* SRTP                                                                     *)

WindowType ==
  [highest: Nat, bitmap: SUBSET (0 .. Window - 1), initialized: BOOLEAN]
ContextType == [roc: Rocs, last_seq: Seqs, seq_initialized: BOOLEAN]

-----------------------------------------------------------------------------
(* The replay window on its own.                                            *)

\* ReplayWindow::update keeps the window's type.
LEMMA UpdateType ==
  ASSUME NEW w \in WindowType, NEW i \in Nat
  PROVE  update(w, i) \in WindowType
<1>1. Window \in Nat /\ Window > 0
  BY SrtpConstants
<1>2. CASE ~ w.initialized
  BY <1>1, <1>2 DEF update, WindowType
<1>3. CASE w.initialized /\ i > w.highest
  <2>1. {0} \cup {d \in 1 .. Window - 1 :
                    d >= i - w.highest /\ d - (i - w.highest) \in w.bitmap}
          \in SUBSET (0 .. Window - 1)
    BY <1>1
  <2> QED
    BY <1>3, <2>1, Zenon DEF update, WindowType
<1>4. CASE w.initialized /\ ~ (i > w.highest)
  <2>1. w.bitmap \cup ({w.highest - i} \cap 0 .. Window - 1)
          \in SUBSET (0 .. Window - 1)
    BY Zenon DEF WindowType
  <2> QED
    BY <1>4, <2>1, Zenon DEF update, WindowType
<1> QED
  BY <1>2, <1>3, <1>4, Zenon

\* ReplayWindow::check refuses the index that was just recorded.
LEMMA UpdateRefuses ==
  ASSUME NEW w \in WindowType, NEW i \in Nat
  PROVE  ~ check(update(w, i), i)
  BY SrtpConstants DEF update, check, WindowType

\* What the window refuses it goes on refusing: an update shifts the bitmap
\* but loses only indices that are then too old.
LEMMA UpdateKeepsRefusing ==
  ASSUME NEW w \in WindowType, NEW i \in Nat, NEW j \in Nat,
         ~ check(w, j)
  PROVE  ~ check(update(w, i), j)
  BY SrtpConstants DEF update, check, WindowType

-----------------------------------------------------------------------------
(* Types                                                                    *)

\* A ROC estimate is a rollover counter (estimate_roc_standard wraps).
LEMMA EstimateType ==
  ASSUME NEW c \in ContextType, NEW seq \in Nat
  PROVE  estimated_roc(c, seq) \in Rocs
<1>1. /\ c.roc \in Nat /\ c.roc < RocMod /\ RocMod \in Nat /\ RocMod > 0
  BY SrtpConstants DEF ContextType, Rocs
<1>2. (c.roc + 1) % RocMod \in 0 .. RocMod - 1
  BY <1>1
<1>3. (c.roc + RocMod - 1) % RocMod \in 0 .. RocMod - 1
  BY <1>1
<1>4. 0 \in Rocs /\ c.roc \in Rocs
  BY <1>1 DEF Rocs
<1> QED
  BY <1>2, <1>3, <1>4, Zenon DEF estimated_roc, estimate_roc_standard, Rocs

\* update_roc keeps a context a context.
LEMMA ContextUpdateType ==
  ASSUME NEW c \in ContextType, NEW seq \in Seqs, NEW roc \in Rocs
  PROVE  update_roc(c, seq, roc) \in ContextType
<1>1. 0 \in Rocs
  BY SrtpConstants DEF Rocs
<1> QED
  BY <1>1, Zenon DEF update_roc, ContextType

\* The inductive invariant behind AcceptedOnce: what was accepted was sent,
\* and the receiver's window refuses its index from then on.
Seen ==
  /\ got = [k \in Stream |-> got[k]]
  /\ \A n \in 1 .. Len(sent["rtp"]) : sent["rtp"][n].seq \in Seqs
  /\ \A k \in Stream : \A n \in 1 .. Bound[k] :
       got[k][n] # 0 =>
         /\ got[k][n] = 1
         /\ n <= Len(sent[k])
         /\ ~ check(window[k], IndexOf(k, sent[k][n]))
SrtpInv == SrtpTypeOK /\ Seen

\* Indices are natural numbers.
LEMMA IndexType ==
  ASSUME NEW k \in Stream, NEW p \in Packet
  PROVE  IndexOf(k, p) \in Nat
<1>1. p.roc * SeqMod \in Nat
  BY SrtpConstants DEF Packet
<1> QED
  BY <1>1 DEF IndexOf, Index, Packet

\* A new session: nothing was sent, so nothing was accepted.
LEMMA InitInv == SrtpInit => SrtpInv
<1> SUFFICES ASSUME SrtpInit PROVE SrtpInv
  BY Zenon
<1>1. 0 \in Rocs /\ 0 \in Seqs /\ Starts \subseteq Seqs
  BY SrtpConstants DEF Rocs, Seqs
<1>2. tx \in ContextType /\ rx \in ContextType
  BY <1>1, Zenon DEF SrtpInit, NewContext, ContextType
<1>3. window \in [Stream -> WindowType]
  BY Zenon DEF SrtpInit, NewWindow, WindowType
<1>4. sent \in [Stream -> Seq(Packet)] /\ \A k \in Stream : Len(sent[k]) = 0
  BY DEF SrtpInit
<1>5. \A k \in Stream : Bound[k] \in Nat
  BY SrtpConstants, Zenon DEF Bound, Stream
<1>6. \A k \in Stream : got[k] \in [1 .. Bound[k] -> Nat]
  BY Zenon DEF SrtpInit
<1>7. SrtpTypeOK
  BY <1>1, <1>2, <1>3, <1>4, <1>5, <1>6
  DEF SrtpTypeOK, SrtpInit, ContextType, WindowType
<1>8. Seen
  BY DEF Seen, SrtpInit, Stream
<1> QED
  BY <1>7, <1>8, Zenon DEF SrtpInv

\* Accepting the n-th packet p of a stream k, which check let through,
\* preserves the invariant on got and window.
LEMMA AcceptKeepsSeen ==
  ASSUME SrtpInv,
         NEW k \in Stream, NEW n \in 1 .. Len(sent[k]),
         check(window[k], IndexOf(k, sent[k][n])),
         window' = [window EXCEPT ![k] = update(@, IndexOf(k, sent[k][n]))],
         got' = [got EXCEPT ![k][n] = @ + 1],
         sent' = sent
  PROVE  /\ Seen'
         /\ window' \in [Stream -> WindowType]
         /\ \A j \in Stream : got'[j] \in [1 .. Bound[j] -> Nat]
<1> DEFINE p == sent[k][n]
           i == IndexOf(k, p)
<1>1. /\ window \in [Stream -> WindowType]
      /\ sent \in [Stream -> Seq(Packet)]
      /\ \A j \in Stream : Len(sent[j]) <= Bound[j]
      /\ \A j \in Stream : got[j] \in [1 .. Bound[j] -> Nat]
      /\ got = [j \in Stream |-> got[j]]
  BY Zenon DEF SrtpInv, SrtpTypeOK, Seen, WindowType
<1>2. \A j \in Stream : \A m \in 1 .. Len(sent[j]) : sent[j][m] \in Packet
  BY <1>1
<1>3. i \in Nat
  BY <1>2, IndexType, Zenon
<1>4. n \in 1 .. Bound[k] /\ \A j \in Stream : Bound[j] \in Nat
  BY <1>1, SrtpConstants, SMTT(30) DEF Bound, Stream
<1>5. window[k] \in WindowType
  BY <1>1, Zenon
<1>6. window' \in [Stream -> WindowType]
  BY <1>1, <1>3, <1>5, UpdateType, Zenon
<1>7. got[k][n] = 0
  BY <1>4, Zenon DEF SrtpInv, Seen
<1>8. got' = [j \in Stream |->
               IF j = k THEN [got[k] EXCEPT ![n] = 1] ELSE got[j]]
  <2> DEFINE g == [got[k] EXCEPT ![n] = @ + 1]
  <2>1. g = [got[k] EXCEPT ![n] = 1]
    <3>1. got[k][n] + 1 = 1
      BY <1>7
    <3> QED
      BY <3>1, Zenon
  <2>2. got' = [got EXCEPT ![k] = g]
    BY Zenon
  <2> HIDE DEF g
  <2>3. got' = [j \in Stream |-> IF j = k THEN g ELSE got[j]]
    BY <1>1, <2>2, Zenon
  <2> QED
    BY <2>1, <2>3, Zenon
<1>9. \A j \in Stream : got'[j] \in [1 .. Bound[j] -> Nat]
  BY <1>1, <1>4, <1>8
<1>10. Seen'
  <2>1. got' = [j \in Stream |-> got'[j]]
    BY <1>8, Zenon
  <2>2. ASSUME NEW j \in Stream, NEW m \in 1 .. Bound[j], got'[j][m] # 0
        PROVE  /\ got'[j][m] = 1
               /\ m <= Len(sent[j])
               /\ ~ check(window'[j], IndexOf(j, sent[j][m]))
    <3>1. CASE j = k /\ m = n
      <4>1. ~ check(update(window[k], i), i)
        BY <1>3, <1>5, UpdateRefuses, Zenon
      <4> QED
        BY <3>1, <4>1, <1>1, <1>4, <1>8
    <3>2. CASE j = k /\ m # n
      <4>1. got'[j][m] = got[j][m]
        BY <3>2, <1>1, <1>4, <1>8
      <4>2. /\ got[j][m] = 1 /\ m <= Len(sent[j])
            /\ ~ check(window[k], IndexOf(k, sent[k][m]))
        BY <4>1, <2>2, <3>2, Zenon DEF SrtpInv, Seen
      <4>3. IndexOf(k, sent[k][m]) \in Nat
        BY <1>1, <1>2, <1>4, <3>2, <4>2, IndexType, SMTT(30)
      <4>4. ~ check(update(window[k], i), IndexOf(k, sent[k][m]))
        BY <4>2, <4>3, <1>3, <1>5, UpdateKeepsRefusing, Zenon
      <4>5. window'[k] = update(window[k], i)
        BY <1>1, Zenon
      <4> QED
        BY <4>1, <4>2, <4>4, <4>5, <3>2, Zenon
    <3>3. CASE j # k
      <4>1. got'[j] = got[j] /\ window'[j] = window[j]
        BY <3>3, <1>1, <1>8, Zenon
      <4> QED
        BY <4>1, <2>2 DEF SrtpInv, Seen
    <3> QED
      BY <3>1, <3>2, <3>3, Zenon
  <2>3. \A m \in 1 .. Len(sent'["rtp"]) : sent'["rtp"][m].seq \in Seqs
    BY Zenon DEF SrtpInv, Seen
  <2> QED
    BY <2>1, <2>2, <2>3, Zenon DEF Seen
<1> QED
  BY <1>6, <1>9, <1>10, Zenon

\* Every step of the two peers preserves the invariant.
LEMMA NextInv == SrtpInv /\ [SrtpNext]_srtpVars => SrtpInv'
<1> SUFFICES ASSUME SrtpInv, [SrtpNext]_srtpVars PROVE SrtpInv'
  BY Zenon
<1>1. /\ tx \in ContextType /\ rx \in ContextType
      /\ window \in [Stream -> WindowType]
      /\ next \in Seqs /\ first \in Seqs
      /\ sent \in [Stream -> Seq(Packet)]
      /\ \A k \in Stream : Len(sent[k]) <= Bound[k]
      /\ \A k \in Stream : got[k] \in [1 .. Bound[k] -> Nat]
      /\ \A k \in Stream : Len(sent[k]) \in Nat
  BY DEF SrtpInv, SrtpTypeOK, ContextType, WindowType
<1>2. /\ Seqs \subseteq Nat /\ Rocs \subseteq Nat
      /\ \A k \in Stream : Bound[k] \in Nat
      /\ Bound["rtp"] = MaxRtp /\ Bound["rtcp"] = MaxRtcp
      /\ "rtp" \in Stream /\ "rtcp" \in Stream /\ "rtp" # "rtcp"
  BY SrtpConstants DEF Seqs, Rocs, Bound, Stream
\* A packet is appended to a stream: what was accepted is where it was.
<1>3. ASSUME NEW k \in Stream, NEW p \in Packet,
             Len(sent[k]) < Bound[k], k = "rtp" => p.seq \in Seqs,
             sent' = [sent EXCEPT ![k] = Append(@, p)],
             UNCHANGED <<window, got>>
      PROVE  /\ Seen'
             /\ sent' \in [Stream -> Seq(Packet)]
             /\ \A j \in Stream : Len(sent'[j]) <= Bound[j]
  <2>1. sent' \in [Stream -> Seq(Packet)]
    BY <1>1, <1>3
  <2>2. \A j \in Stream : Len(sent'[j]) <= Bound[j]
    BY <1>1, <1>2, <1>3
  <2>3. ASSUME NEW j \in Stream, NEW m \in 1 .. Len(sent[j])
        PROVE  m <= Len(sent'[j]) /\ sent'[j][m] = sent[j][m]
    BY <1>1, <1>3
  <2>4. ASSUME NEW j \in Stream, NEW m \in 1 .. Bound[j], got[j][m] # 0
        PROVE  /\ got[j][m] = 1 /\ m <= Len(sent'[j])
               /\ ~ check(window[j], IndexOf(j, sent'[j][m]))
    <3>1. /\ got[j][m] = 1 /\ m <= Len(sent[j])
          /\ ~ check(window[j], IndexOf(j, sent[j][m]))
      BY <2>4, Zenon DEF SrtpInv, Seen
    <3>2. m \in 1 .. Len(sent[j])
      BY <3>1, <1>1, <1>2
    <3> QED
      BY <2>3, <3>1, <3>2, Zenon
  <2>5. \A m \in 1 .. Len(sent'["rtp"]) : sent'["rtp"][m].seq \in Seqs
    <3>1. \A m \in 1 .. Len(sent["rtp"]) : sent["rtp"][m].seq \in Seqs
      BY Zenon DEF SrtpInv, Seen
    <3>2. CASE k = "rtp"
      BY <1>1, <1>2, <1>3, <3>1, <3>2
    <3>3. CASE k # "rtp"
      BY <1>1, <1>2, <1>3, <3>1, <3>3, Zenon
    <3> QED
      BY <3>2, <3>3, Zenon
  <2>6. Seen'
    BY <2>4, <2>5, <1>3, Zenon DEF SrtpInv, Seen
  <2> QED
    BY <2>1, <2>2, <2>6, Zenon
<1>4. CASE protect_rtp
  <2> DEFINE r == estimated_roc(tx, next)
             p == [seq |-> next, roc |-> r]
  <2>1. r \in Rocs
    BY <1>1, <1>2, EstimateType, Zenon
  <2>2. p \in Packet
    BY <2>1, <1>1, <1>2, Zenon DEF Packet
  <2>3. tx' \in ContextType
    BY <1>4, <1>1, <2>1, ContextUpdateType, Zenon DEF protect_rtp
  <2>4. next' \in Seqs
    <3>1. next + 1 \in Nat /\ SeqMod \in Nat /\ SeqMod > 0
      BY <1>1, <1>2, SrtpConstants, SMTT(30)
    <3>2. (next + 1) % SeqMod \in 0 .. SeqMod - 1
      BY <3>1
    <3> QED
      BY <1>4, <3>2, Zenon DEF protect_rtp, Seqs
  <2>5. /\ sent' = [sent EXCEPT !["rtp"] = Append(@, p)]
        /\ Len(sent["rtp"]) < Bound["rtp"]
        /\ UNCHANGED <<rx, window, first, got>>
    BY <1>4, <1>2, Zenon DEF protect_rtp
  <2>7. p.seq \in Seqs
    BY <1>1, Zenon
  <2> HIDE DEF p
  <2>6. /\ Seen' /\ sent' \in [Stream -> Seq(Packet)]
        /\ \A j \in Stream : Len(sent'[j]) <= Bound[j]
    BY <1>3, <1>2, <2>2, <2>5, <2>7, Zenon
  <2> QED
    BY <1>1, <2>3, <2>4, <2>5, <2>6, Zenon
    DEF SrtpInv, SrtpTypeOK, ContextType, WindowType
<1>5. CASE protect_rtcp
  <2> DEFINE p == [seq |-> Len(sent["rtcp"]) % RtcpMod, roc |-> 0]
  <2>1. p \in Packet
    <3>1. Len(sent["rtcp"]) \in Nat /\ RtcpMod \in Nat \ {0}
      BY <1>1, <1>2, SrtpConstants, Zenon
    <3>2. \A a \in Nat, b \in Nat \ {0} : a % b \in Nat
      OBVIOUS
    <3>3. Len(sent["rtcp"]) % RtcpMod \in Nat
      BY ONLY <3>1, <3>2, Zenon
    <3> QED
      BY <3>3, Zenon DEF Packet
  <2>2. /\ sent' = [sent EXCEPT !["rtcp"] = Append(@, p)]
        /\ Len(sent["rtcp"]) < Bound["rtcp"]
        /\ UNCHANGED <<tx, rx, window, next, first, got>>
    BY <1>5, <1>2, <1>1, Zenon DEF protect_rtcp
  <2> HIDE DEF p
  <2>3. /\ Seen' /\ sent' \in [Stream -> Seq(Packet)]
        /\ \A j \in Stream : Len(sent'[j]) <= Bound[j]
    BY <1>3, <1>2, <2>1, <2>2, Zenon
  <2> QED
    BY <1>1, <2>2, <2>3, Zenon DEF SrtpInv, SrtpTypeOK, ContextType, WindowType
<1>6. ASSUME NEW n \in 1 .. Len(sent["rtp"]),
             unprotect_rtp(sent["rtp"][n], n), AcceptsRtp(sent["rtp"][n])
      PROVE  SrtpInv'
  <2> DEFINE p == sent["rtp"][n]
  <2>1. p \in Packet
    BY <1>1, <1>2
  <2>2. /\ p.roc = estimated_roc(rx, p.seq)
        /\ check(window["rtp"], IndexOf("rtp", p))
        /\ p.seq \in Nat
    BY <1>6, <2>1, Zenon DEF AcceptsRtp, IndexOf, Packet
  <2>3. p.roc \in Rocs
    BY <1>1, <2>2, EstimateType, Zenon
  <2>4. p.seq \in Seqs
    BY Zenon DEF SrtpInv, Seen
  <2>5. /\ window' = [window EXCEPT !["rtp"] = update(@, IndexOf("rtp", p))]
        /\ got' = [got EXCEPT !["rtp"][n] = @ + 1]
        /\ rx' = update_roc(rx, p.seq, p.roc)
        /\ UNCHANGED <<tx, next, first, sent>>
    BY <1>6, Zenon DEF unprotect_rtp, IndexOf
  <2>6. rx' \in ContextType
    BY <1>1, <2>3, <2>4, <2>5, ContextUpdateType, Zenon
  <2>7. /\ Seen' /\ window' \in [Stream -> WindowType]
        /\ \A j \in Stream : got'[j] \in [1 .. Bound[j] -> Nat]
    BY <1>2, <2>2, <2>5, AcceptKeepsSeen, Zenon
  <2> QED
    BY <1>1, <2>5, <2>6, <2>7, Zenon
    DEF SrtpInv, SrtpTypeOK, ContextType, WindowType
<1>7. ASSUME NEW p \in Damaged
      PROVE  ~ AcceptsRtp(p)
  <2>1. p.seq \in Nat /\ p.roc = RocMod
    BY <1>2, Zenon DEF Damaged
  <2>2. estimated_roc(rx, p.seq) \in Rocs
    BY <1>1, <2>1, EstimateType, Zenon
  <2> QED
    BY <2>1, <2>2, SrtpConstants DEF AcceptsRtp, Rocs
<1>8. ASSUME NEW n \in 1 .. Len(sent["rtcp"]),
             unprotect_rtcp(sent["rtcp"][n], n), AcceptsRtcp(sent["rtcp"][n])
      PROVE  SrtpInv'
  <2> DEFINE p == sent["rtcp"][n]
  <2>1. check(window["rtcp"], IndexOf("rtcp", p))
    BY <1>8, <1>2, Zenon DEF AcceptsRtcp, IndexOf
  <2>2. /\ window' = [window EXCEPT !["rtcp"] = update(@, IndexOf("rtcp", p))]
        /\ got' = [got EXCEPT !["rtcp"][n] = @ + 1]
        /\ UNCHANGED <<tx, rx, next, first, sent>>
    BY <1>8, <1>2, Zenon DEF unprotect_rtcp, IndexOf
  <2>3. /\ Seen' /\ window' \in [Stream -> WindowType]
        /\ \A j \in Stream : got'[j] \in [1 .. Bound[j] -> Nat]
    BY <1>2, <2>1, <2>2, AcceptKeepsSeen, Zenon
  <2> QED
    BY <1>1, <2>2, <2>3, Zenon DEF SrtpInv, SrtpTypeOK, ContextType, WindowType
\* A refused packet, like a stuttering step, changes nothing.
<1>9. CASE UNCHANGED srtpVars
  BY <1>9 DEF SrtpInv, SrtpTypeOK, Seen, srtpVars, check
<1> QED
  BY <1>4, <1>5, <1>6, <1>7, <1>8, <1>9, Zenon
  DEF SrtpNext, unprotect_rtp, unprotect_rtcp

\* The context keeps its types for every width of the numbers.
THEOREM SrtpTypesHold == SrtpSpec => []SrtpTypeOK
<1>1. SrtpInv => SrtpTypeOK
  BY Zenon DEF SrtpInv
<1> QED
  BY InitInv, NextInv, <1>1, PTL DEF SrtpSpec

\* The replay window behind the index estimate accepts no packet twice, for
\* every width of the sequence number, of the rollover counter and of the
\* window, however the network duplicates, reorders and damages packets and
\* however often the sequence number wraps (unprotect_rtp, unprotect_rtcp).
THEOREM NoReplay == SrtpSpec => []AcceptedOnce
<1>1. SrtpInv => AcceptedOnce
  <2> SUFFICES ASSUME SrtpInv, NEW k \in Stream, NEW n \in 1 .. Bound[k]
               PROVE  got[k][n] <= 1
    BY Zenon DEF AcceptedOnce
  <2>1. got[k][n] # 0 => got[k][n] = 1
    BY Zenon DEF SrtpInv, Seen
  <2> QED
    BY <2>1
<1> QED
  BY InitInv, NextInv, <1>1, PTL DEF SrtpSpec

-----------------------------------------------------------------------------
(* The sender's indices: within a session's lifetime the ROC estimate makes *)
(* of every sequence number the position of its packet.                     *)

Successor(seq) == IF seq = SeqMod - 1 THEN 0 ELSE seq + 1

\* Context c has moved on to seq and roc.
Moved(c, seq, roc) == c.seq_initialized /\ c.last_seq = seq /\ c.roc = roc

InStep ==
  /\ IF Len(sent["rtp"]) = 0
     THEN next = first /\ ~ tx.seq_initialized
     ELSE /\ tx.seq_initialized
          /\ next = Successor(tx.last_seq)
          /\ Index(tx.roc, tx.last_seq) = first + Len(sent["rtp"]) - 1
  /\ \A n \in 1 .. Len(sent["rtp"]) :
       IndexOf("rtp", sent["rtp"][n]) = first + n - 1
  /\ \A n \in 1 .. Len(sent["rtcp"]) : IndexOf("rtcp", sent["rtcp"][n]) = n - 1
SenderInv == SrtpInv /\ InStep

\* The number after the last one is one ahead, and its index one more, also
\* when the sequence number wraps.
LEMMA NextIndex ==
  ASSUME NEW c \in ContextType, c.seq_initialized,
         Index(c.roc, c.last_seq) + 1 < SeqMod * RocMod
  PROVE  LET seq == Successor(c.last_seq)
             roc == estimated_roc(c, seq)
         IN /\ Index(roc, seq) = Index(c.roc, c.last_seq) + 1
            /\ Moved(update_roc(c, seq, roc), seq, roc)
<1> DEFINE s == Successor(c.last_seq)
           r == estimated_roc(c, s)
<1>1. /\ SeqMod \in Nat /\ SeqMod >= 4 /\ RocMod \in Nat
      /\ c.roc \in Nat /\ c.last_seq \in Nat /\ c.last_seq < SeqMod
  BY SrtpConstants, SrtpLifetime DEF ContextType, Rocs, Seqs
<1>2. /\ 1 % SeqMod = 1 /\ (SeqMod + 1) % SeqMod = 1
      /\ 1 < SeqMod \div 2
  BY <1>1
<1>3. Ahead(c, s) = 1
  <2>1. CASE c.last_seq = SeqMod - 1
    <3>1. s + SeqMod - c.last_seq = 1
      BY <1>1, <2>1 DEF Successor
    <3> QED
      BY <3>1, <1>2, Zenon DEF Ahead
  <2>2. CASE c.last_seq # SeqMod - 1
    <3>1. s + SeqMod - c.last_seq = SeqMod + 1
      BY <1>1, <2>2 DEF Successor
    <3> QED
      BY <3>1, <1>2, Zenon DEF Ahead
  <2> QED
    BY <2>1, <2>2, Zenon
<1>4. r = IF s < c.last_seq THEN (c.roc + 1) % RocMod ELSE c.roc
  BY <1>2, <1>3, <1>1 DEF estimated_roc, estimate_roc_standard, Successor
<1>5. ASSUME NEW q \in Nat, NEW o \in Nat,
             o > c.roc \/ (o = c.roc /\ q > c.last_seq)
      PROVE  Moved(update_roc(c, q, o), q, o)
  BY <1>5, Zenon DEF update_roc, ContextType, Moved
<1>6. CASE c.last_seq = SeqMod - 1
  <2>1. s = 0 /\ s < c.last_seq
    BY <1>1, <1>6 DEF Successor
  <2>2. (c.roc + 1) * SeqMod = c.roc * SeqMod + SeqMod
    BY <1>1
  <2>3. Index(c.roc, c.last_seq) + 1 = (c.roc + 1) * SeqMod
    <3>1. c.roc * SeqMod \in Nat
      BY <1>1
    <3> QED
      BY <1>1, <1>6, <2>2, <3>1 DEF Index
  <2>4. c.roc + 1 < RocMod
    <3>1. (c.roc + 1) * SeqMod < SeqMod * RocMod
      BY <2>3, Zenon
    <3> QED
      BY <1>1, <3>1
  <2>5. (c.roc + 1) % RocMod = c.roc + 1
    BY <1>1, <2>4
  <2>6. r = c.roc + 1
    BY <1>4, <2>1, <2>5, Zenon
  <2>7. Index(r, s) = (c.roc + 1) * SeqMod
    BY <2>1, <2>6, <1>1 DEF Index
  <2> HIDE DEF r, s
  <2>8. Moved(update_roc(c, s, r), s, r)
    BY <1>1, <1>5, <2>1, <2>6
  <2> QED
    BY <2>3, <2>7, <2>8, Zenon DEF r, s
<1>7. CASE c.last_seq # SeqMod - 1
  <2>1. s = c.last_seq + 1 /\ ~ (s < c.last_seq)
    BY <1>1, <1>7 DEF Successor
  <2>2. r = c.roc
    BY <1>4, <2>1, Zenon
  <2>3. Index(r, s) = Index(c.roc, c.last_seq) + 1
    <3>1. c.roc * SeqMod \in Nat
      BY <1>1
    <3> QED
      BY <1>1, <2>1, <2>2, <3>1 DEF Index
  <2> HIDE DEF r, s
  <2>4. Moved(update_roc(c, s, r), s, r)
    BY <1>1, <1>5, <2>1, <2>2
  <2> QED
    BY <2>3, <2>4, Zenon DEF r, s
<1> QED
  BY <1>6, <1>7, Zenon

\* Every step keeps the sender in step with the stream.
LEMMA NextInStep == SenderInv /\ [SrtpNext]_srtpVars => InStep'
<1> SUFFICES ASSUME SenderInv, [SrtpNext]_srtpVars PROVE InStep'
  BY Zenon
<1>1. /\ tx \in ContextType
      /\ next \in Seqs /\ first \in Seqs
      /\ sent \in [Stream -> Seq(Packet)]
      /\ Len(sent["rtp"]) \in Nat /\ Len(sent["rtcp"]) \in Nat
      /\ Len(sent["rtp"]) <= MaxRtp /\ Len(sent["rtcp"]) <= MaxRtcp
  BY DEF SenderInv, SrtpInv, SrtpTypeOK, ContextType, Stream, Bound
<1>2. /\ SeqMod \in Nat /\ SeqMod >= 4 /\ RocMod \in Nat /\ RtcpMod \in Nat
      /\ MaxRtp \in Nat /\ MaxRtcp \in Nat
      /\ first \in Nat /\ next \in Nat /\ first < SeqMod /\ next < SeqMod
      /\ "rtp" \in Stream /\ "rtcp" \in Stream /\ "rtp" # "rtcp"
  BY <1>1, SrtpConstants, SrtpLifetime, SMTT(30) DEF Seqs, Stream
<1>3. CASE protect_rtp
  <2> DEFINE L == Len(sent["rtp"])
             r == estimated_roc(tx, next)
             p == [seq |-> next, roc |-> r]
  <2>1. /\ L < MaxRtp
        /\ sent' = [sent EXCEPT !["rtp"] = Append(@, p)]
        /\ tx' = update_roc(tx, next, r)
        /\ next' = (next + 1) % SeqMod
        /\ first' = first
    BY <1>3, Zenon DEF protect_rtp
  <2>2. r \in Nat
    BY <1>1, <1>2, EstimateType DEF Rocs
  <2>3. Index(r, next) = first + L /\ Moved(tx', next, r)
    <3>1. CASE L = 0
      <4>1. next = first /\ ~ tx.seq_initialized /\ r = 0
        BY <3>1, Zenon DEF SenderInv, InStep, estimated_roc
      <4>2. 0 * SeqMod + next = next
        BY <1>2
      <4> QED
        BY <2>1, <3>1, <4>1, <4>2, <1>2 DEF Index, update_roc, Moved
    <3>2. CASE L # 0
      <4>1. /\ tx.seq_initialized /\ next = Successor(tx.last_seq)
            /\ Index(tx.roc, tx.last_seq) = first + L - 1
        BY <3>2, Zenon DEF SenderInv, InStep
      <4>2. Index(tx.roc, tx.last_seq) + 1 = first + L
        BY <4>1, <1>1, <1>2
      <4>3. first + L < SeqMod * RocMod
        <5>1. SeqMod * RocMod \in Nat /\ MaxRtp + SeqMod <= SeqMod * RocMod
          BY <1>2, SrtpLifetime
        <5> QED
          BY <5>1, <1>1, <1>2, <2>1
      <4> QED
        BY <4>1, <4>2, <4>3, <1>1, <2>1, NextIndex, Zenon
    <3> QED
      BY <3>1, <3>2, Zenon
  <2>4. next' = Successor(next)
    <3>1. CASE next = SeqMod - 1
      <4>1. next + 1 = SeqMod /\ SeqMod % SeqMod = 0
        BY <1>2, <3>1
      <4> QED
        BY <4>1, <2>1, <3>1, Zenon DEF Successor
    <3>2. CASE next # SeqMod - 1
      <4>1. (next + 1) % SeqMod = next + 1
        BY <1>2, <3>2
      <4> QED
        BY <4>1, <2>1, <3>2, Zenon DEF Successor
    <3> QED
      BY <3>1, <3>2, Zenon
  <2>5. p \in Packet /\ IndexOf("rtp", p) = first + L
    BY <1>2, <2>2, <2>3, Zenon DEF Packet, IndexOf
  <2> HIDE DEF p, r
  <2>6. /\ Len(sent'["rtp"]) = L + 1 /\ sent'["rtcp"] = sent["rtcp"]
        /\ sent'["rtp"][L + 1] = p
        /\ \A n \in 1 .. L : sent'["rtp"][n] = sent["rtp"][n]
    BY <1>1, <1>2, <2>1, <2>5
  <2>7. \A n \in 1 .. L + 1 : IndexOf("rtp", sent'["rtp"][n]) = first + n - 1
    <3>1. ASSUME NEW n \in 1 .. L
          PROVE  IndexOf("rtp", sent'["rtp"][n]) = first + n - 1
      BY <2>6, Zenon DEF SenderInv, InStep
    <3>2. first + L = first + (L + 1) - 1
      BY <1>1, <1>2
    <3> QED
      BY <3>1, <3>2, <2>5, <2>6, <1>1
  <2>8. Index(tx'.roc, tx'.last_seq) = first + (L + 1) - 1
    BY <2>3, <1>1, <1>2 DEF Moved
  <2>9. L + 1 # 0 /\ next' = Successor(tx'.last_seq) /\ tx'.seq_initialized
    BY <1>1, <2>3, <2>4 DEF Moved
  <2>10. \A n \in 1 .. Len(sent["rtcp"]) :
           IndexOf("rtcp", sent["rtcp"][n]) = n - 1
    BY Zenon DEF SenderInv, InStep
  <2> QED
    BY <2>1, <2>6, <2>7, <2>8, <2>9, <2>10, Zenon DEF InStep
<1>4. CASE protect_rtcp
  <2> DEFINE L == Len(sent["rtcp"])
             p == [seq |-> L % RtcpMod, roc |-> 0]
  <2>1. /\ L < MaxRtcp
        /\ sent' = [sent EXCEPT !["rtcp"] = Append(@, p)]
        /\ UNCHANGED <<tx, next, first>>
    BY <1>4, <1>1, <1>2, Zenon DEF protect_rtcp
  <2>2. L % RtcpMod = L
    <3>1. \A a \in Nat, b \in Nat : a < b => a % b = a
      OBVIOUS
    <3>2. L < RtcpMod
      BY <1>1, <1>2, <2>1, SrtpLifetime
    <3> QED
      BY <1>1, <1>2, <3>1, <3>2, Zenon
  <2>3. p \in Packet /\ IndexOf("rtcp", p) = L
    BY <1>1, <1>2, <2>2, Zenon DEF Packet, IndexOf
  <2> HIDE DEF p
  <2>4. /\ Len(sent'["rtcp"]) = L + 1 /\ sent'["rtp"] = sent["rtp"]
        /\ sent'["rtcp"][L + 1] = p
        /\ \A n \in 1 .. L : sent'["rtcp"][n] = sent["rtcp"][n]
    BY <1>1, <1>2, <2>1, <2>3
  <2>5. \A n \in 1 .. L + 1 : IndexOf("rtcp", sent'["rtcp"][n]) = n - 1
    <3>1. ASSUME NEW n \in 1 .. L
          PROVE  IndexOf("rtcp", sent'["rtcp"][n]) = n - 1
      BY <2>4, Zenon DEF SenderInv, InStep
    <3>2. L = (L + 1) - 1
      BY <1>1
    <3> QED
      BY <3>1, <3>2, <2>3, <2>4, <1>1
  <2> QED
    BY <2>1, <2>4, <2>5, Zenon DEF SenderInv, InStep
<1>5. CASE UNCHANGED <<tx, next, first, sent>>
  BY <1>5, Zenon DEF SenderInv, InStep
<1> QED
  BY <1>3, <1>4, <1>5, Zenon
  DEF SrtpNext, unprotect_rtp, unprotect_rtcp, srtpVars

\* Within a session's lifetime neither stream uses an index twice, for both
\* back ends, every width of the sequence number and of the rollover counter
\* and however often the sequence number wraps (protect_rtp, protect_rtcp).
THEOREM NoIndexReuse == SrtpSpec => []IndexFresh
<1>1. SrtpInit => SenderInv
  BY InitInv DEF SrtpInit, SenderInv, InStep, Stream, NewContext
<1>2. SenderInv /\ [SrtpNext]_srtpVars => SenderInv'
  BY NextInv, NextInStep, Zenon DEF SenderInv
<1>3. SenderInv => IndexFresh
  <2> SUFFICES ASSUME SenderInv, NEW k \in Stream,
                      NEW m \in 1 .. Len(sent[k]), NEW n \in 1 .. Len(sent[k]),
                      m # n
               PROVE  IndexOf(k, sent[k][m]) # IndexOf(k, sent[k][n])
    BY Zenon DEF IndexFresh
  <2>1. first \in Nat /\ Len(sent[k]) \in Nat
    BY SrtpConstants DEF SenderInv, SrtpInv, SrtpTypeOK, Seqs
  <2>2. CASE k = "rtp"
    BY <2>1, <2>2 DEF SenderInv, InStep
  <2>3. CASE k = "rtcp"
    BY <2>1, <2>3 DEF SenderInv, InStep
  <2> QED
    BY <2>2, <2>3, Zenon DEF Stream
<1> QED
  BY <1>1, <1>2, <1>3, PTL DEF SrtpSpec

\* Where each stream has a session key of its own, as PureRustSrtp derives
\* them, no key stream encrypts two packets of the session, RTP or RTCP
\* (DerivedKeys::derive, protect_rtp, protect_rtcp).
THEOREM NoKeystreamReuse ==
  ASSUME Backend = "PureRustSrtp"
  PROVE  SrtpSpec => []KeystreamFresh
<1>1. IndexFresh => KeystreamFresh
  <2> SUFFICES ASSUME IndexFresh, NEW k \in Stream, NEW l \in Stream,
                      NEW m \in 1 .. Len(sent[k]), NEW n \in 1 .. Len(sent[l]),
                      <<k, m>> # <<l, n>>
               PROVE  Keystream(k, sent[k][m]) # Keystream(l, sent[l][n])
    BY Zenon DEF KeystreamFresh
  <2>1. CASE k = l
    BY <2>1, Zenon DEF IndexFresh, Keystream
  <2>2. CASE k # l
    BY <2>2 DEF Keystream, SessionKey
  <2> QED
    BY <2>1, <2>2
<1> QED
  BY <1>1, NoIndexReuse, PTL

-----------------------------------------------------------------------------
(* The receiver: within half the sequence range of the newest packet its     *)
(* estimate is exact, and the window refuses only what was accepted or is    *)
(* too old.                                                                 *)

\* Indices with another counter are a whole sequence range apart.
LEMMA Rollover ==
  ASSUME NEW q \in Nat, NEW r \in Nat
  PROVE  /\ q * SeqMod \in Nat /\ SeqMod \in Nat
         /\ q = r + 1 => q * SeqMod = r * SeqMod + SeqMod
         /\ q >= r + 2 => q * SeqMod >= r * SeqMod + 2 * SeqMod
  <1>1. SeqMod \in Nat
    BY SrtpConstants, Zenon
  <1>2. \A m \in Nat : q * m \in Nat /\ r * m \in Nat
    OBVIOUS
  <1>3. \A m \in Nat : q = r + 1 => q * m = r * m + m
    OBVIOUS
  <1>4. ASSUME NEW m \in Nat, q >= r + 2 PROVE q * m >= r * m + 2 * m
    <2>1. PICK k \in Nat : q = r + 2 + k
      <3>1. q - (r + 2) \in Nat /\ q = r + 2 + (q - (r + 2))
        BY <1>4
      <3> QED BY <3>1, Zenon
    <2>2. q * m = r * m + 2 * m + k * m
      BY <2>1
    <2>3. k * m \in Nat /\ r * m \in Nat /\ 2 * m \in Nat
      OBVIOUS
    <2> QED BY <2>2, <2>3
  <1> QED BY <1>1, <1>2, <1>3, <1>4, Zenon

\* Indices are ordered by counter, then by sequence number.
LEMMA IndexOrder ==
  ASSUME NEW q \in Nat, NEW r \in Nat, NEW s \in Seqs, NEW l \in Seqs
  PROVE  Index(q, s) > Index(r, l) <=> q > r \/ (q = r /\ s > l)
  <1>1. s \in Nat /\ l \in Nat /\ s < SeqMod /\ l < SeqMod /\ SeqMod \in Nat
    BY SrtpConstants DEF Seqs
  <1>2. q * SeqMod \in Nat /\ r * SeqMod \in Nat
    BY Rollover, Zenon
  <1>3. ASSUME NEW a \in Nat, NEW b \in Nat, a > b
        PROVE  a * SeqMod >= b * SeqMod + SeqMod
    <2>1. CASE a = b + 1
      <3>1. a * SeqMod = b * SeqMod + SeqMod /\ a * SeqMod \in Nat
        BY <2>1, Rollover, Zenon
      <3> QED BY <3>1
    <2>2. CASE a >= b + 2
      <3>1. a * SeqMod >= b * SeqMod + 2 * SeqMod /\ b * SeqMod \in Nat
        BY <2>2, Rollover, Zenon
      <3> QED BY <1>1, <3>1
    <2> QED BY <1>3, <2>1, <2>2
  <1>4. q > r => q * SeqMod >= r * SeqMod + SeqMod
    BY <1>3, Zenon
  <1>5. r > q => r * SeqMod >= q * SeqMod + SeqMod
    BY <1>3, Zenon
  <1> DEFINE x == q * SeqMod
             y == r * SeqMod
  <1>6. x \in Nat /\ y \in Nat /\ (q > r => x >= y + SeqMod) /\ (r > q => y >= x + SeqMod)
        /\ (q = r => x = y)
    BY <1>2, <1>4, <1>5, Zenon
  <1>7. Index(q, s) = x + s /\ Index(r, l) = y + l
    BY Zenon DEF Index
  <1> HIDE DEF x, y
  <1> QED BY <1>1, <1>6, <1>7

\* update_roc moves a context to the larger of its own index and the packet's.
LEMMA UpdateIndex ==
  ASSUME NEW c \in ContextType, NEW seq \in Seqs, NEW roc \in Rocs
  PROVE  LET d == update_roc(c, seq, roc)
         IN /\ d.seq_initialized
            /\ ~ c.seq_initialized => d.roc = 0 /\ d.last_seq = seq
            /\ c.seq_initialized =>
                 Index(d.roc, d.last_seq) =
                   IF Index(roc, seq) > Index(c.roc, c.last_seq)
                   THEN Index(roc, seq) ELSE Index(c.roc, c.last_seq)
  <1> DEFINE ahead == roc > c.roc \/ (roc = c.roc /\ seq > c.last_seq)
             d == update_roc(c, seq, roc)
  <1>1. roc \in Nat /\ c.roc \in Nat /\ c.last_seq \in Seqs
    BY DEF ContextType, Rocs
  <1>2. Index(roc, seq) > Index(c.roc, c.last_seq) <=> ahead
    BY <1>1, IndexOrder, Zenon
  <1>3. CASE ~ c.seq_initialized
    BY <1>3, Zenon DEF update_roc
  <1>4. CASE c.seq_initialized /\ ahead
    <2>1. d.seq_initialized /\ d.roc = roc /\ d.last_seq = seq
      BY <1>4, Zenon DEF update_roc, ContextType
    <2> HIDE DEF d
    <2> QED BY <1>2, <1>4, <2>1, Zenon DEF d
  <1>5. CASE c.seq_initialized /\ ~ ahead
    <2>1. d = c
      BY <1>5, Zenon DEF update_roc
    <2> HIDE DEF d
    <2> QED BY <1>2, <1>5, <2>1, Zenon DEF d
  <1> QED BY <1>3, <1>4, <1>5, Zenon

\* ReplayWindow::update records one index: what it now refuses as seen, it
\* refused before, or is that index.
LEMMA UpdateRecords ==
  ASSUME NEW w \in WindowType, NEW i \in Nat, NEW j \in Nat
  PROVE  LET v == update(w, i)
         IN /\ v.initialized
            /\ ~ w.initialized => v.highest = i /\ v.bitmap = {0}
            /\ w.initialized => v.highest = IF i > w.highest THEN i ELSE w.highest
            /\ w.initialized /\ j <= v.highest /\ v.highest - j \in v.bitmap =>
                 j = i \/ (j <= w.highest /\ w.highest - j \in w.bitmap)
  <1> DEFINE v == update(w, i)
  <1>1. w.highest \in Nat /\ w.bitmap \subseteq Nat
    BY DEF WindowType
  <1>2. CASE ~ w.initialized
    BY <1>2, Zenon DEF update
  <1>3. CASE w.initialized /\ i > w.highest
    <2> DEFINE B == {0} \cup {d \in 1 .. Window - 1 :
                                d >= i - w.highest /\ d - (i - w.highest) \in w.bitmap}
    <2>1. v.initialized /\ v.highest = i /\ v.bitmap = B
      BY <1>3, Zenon DEF update, WindowType
    <2>2. ASSUME j <= i, i - j \in B, j # i
          PROVE  j <= w.highest /\ w.highest - j \in w.bitmap
      <3>1. i - j # 0
        BY <2>2
      <3>2. i - j >= i - w.highest /\ (i - j) - (i - w.highest) \in w.bitmap
        BY <2>2, <3>1, Zenon
      <3>3. (i - j) - (i - w.highest) = w.highest - j
        BY <1>1
      <3>4. j <= w.highest
        BY <1>1, <3>2
      <3> QED BY <3>2, <3>3, <3>4, Zenon
    <2> HIDE DEF B, v
    <2> QED BY <1>3, <2>1, <2>2, Zenon DEF v
  <1>4. CASE w.initialized /\ ~ (i > w.highest)
    <2>1. /\ v.initialized /\ v.highest = w.highest
          /\ v.bitmap = w.bitmap \cup ({w.highest - i} \cap 0 .. Window - 1)
      BY <1>4, Zenon DEF update, WindowType
    <2>2. w.highest - j = w.highest - i => j = i
      BY <1>1
    <2> HIDE DEF v
    <2> QED BY <1>4, <2>1, <2>2, Zenon DEF v
  <1> QED BY <1>2, <1>3, <1>4, Zenon

\* estimate_roc_standard finds the counter of every packet whose index is less
\* than half the range ahead of the context, or at most half the range behind.
LEMMA EstimateExact ==
  ASSUME NEW c \in ContextType, c.seq_initialized, NEW q \in Rocs, NEW s \in Seqs,
         Index(q, s) < Index(c.roc, c.last_seq) + SeqMod \div 2,
         Index(c.roc, c.last_seq) <= Index(q, s) + SeqMod \div 2
  PROVE  estimated_roc(c, s) = q
  <1> DEFINE r == c.roc
             l == c.last_seq
             x == q * SeqMod
             y == r * SeqMod
             half == SeqMod \div 2
  <1>1. /\ q \in Nat /\ r \in Nat /\ q < RocMod /\ r < RocMod /\ RocMod \in Nat
        /\ s \in Nat /\ l \in Nat /\ s < SeqMod /\ l < SeqMod
        /\ SeqMod \in Nat /\ SeqMod >= 4
    BY SrtpConstants, SrtpLifetime DEF ContextType, Rocs, Seqs
  <1>2. half \in Nat /\ 2 * half <= SeqMod /\ half >= 1
    BY <1>1
  <1>3. x \in Nat /\ y \in Nat
    BY <1>1, Rollover, Zenon
  <1>4. x + s < y + l + half /\ y + l <= x + s + half
    BY Zenon DEF Index
  <1>5. estimated_roc(c, s) =
          IF 0 < Ahead(c, s) /\ Ahead(c, s) < half /\ s < l THEN (r + 1) % RocMod
          ELSE IF Ahead(c, s) >= half /\ s > l THEN (r + RocMod - 1) % RocMod
          ELSE r
    BY Zenon DEF estimated_roc, estimate_roc_standard
  <1>6. Ahead(c, s) = IF s >= l THEN s - l ELSE s + SeqMod - l
    <2>1. CASE s >= l
      <3>1. s + SeqMod - l = (s - l) + SeqMod /\ s - l \in Nat /\ s - l < SeqMod
        BY <1>1, <2>1
      <3>2. \A a, m \in Nat : a < m => (a + m) % m = a
        OBVIOUS
      <3> QED BY <1>1, <2>1, <3>1, <3>2 DEF Ahead
    <2>2. CASE s < l
      <3>1. s + SeqMod - l \in Nat /\ s + SeqMod - l < SeqMod
        BY <1>1, <2>2
      <3>2. \A a, m \in Nat : a < m => a % m = a
        OBVIOUS
      <3> QED BY <1>1, <2>2, <3>1, <3>2 DEF Ahead
    <2> QED BY <1>1, <2>1, <2>2
  <1>7. q = r + 1 => x = y + SeqMod
    BY <1>1, Rollover, Zenon
  <1>8. r = q + 1 => y = x + SeqMod
    BY <1>1, Rollover, Zenon
  <1>9. q >= r + 2 => x >= y + 2 * SeqMod
    BY <1>1, Rollover, Zenon
  <1>10. r >= q + 2 => y >= x + 2 * SeqMod
    BY <1>1, Rollover, Zenon
  <1>11. q = r => x = y
    BY Zenon
  <1> HIDE DEF r, l, x, y, half
  <1>12. CASE q = r
    BY <1>1, <1>2, <1>3, <1>4, <1>5, <1>6, <1>11, <1>12
  <1>13. CASE q = r + 1
    <2>1. s < l /\ Ahead(c, s) = s + SeqMod - l /\ 0 < Ahead(c, s) /\ Ahead(c, s) < half
      BY <1>1, <1>2, <1>3, <1>4, <1>6, <1>7, <1>13
    <2>2. (r + 1) % RocMod = r + 1
      BY <1>1, <1>13
    <2> QED BY <1>5, <1>13, <2>1, <2>2, Zenon
  <1>14. CASE r = q + 1
    <2>1. s > l /\ Ahead(c, s) = s - l /\ Ahead(c, s) >= half
      BY <1>1, <1>2, <1>3, <1>4, <1>6, <1>8, <1>14, SMTT(30)
    <2>2. (r + RocMod - 1) % RocMod = q
      <3>1. r + RocMod - 1 = q + RocMod
        BY <1>1, <1>14
      <3>2. \A a, m \in Nat : a < m => (a + m) % m = a
        OBVIOUS
      <3> QED BY <1>1, <3>1, <3>2, Zenon
    <2>3. ~ (s < l)
      BY <1>1, <2>1
    <2> QED BY <1>5, <2>1, <2>2, <2>3, Zenon
  <1>15. ~ (q >= r + 2) /\ ~ (r >= q + 2)
    BY <1>1, <1>2, <1>3, <1>4, <1>9, <1>10
  <1> QED BY <1>1, <1>12, <1>13, <1>14, <1>15

\* The receiver stands at the newest packet it accepted, and its window marks
\* only packets it accepted.
Received(n) == got["rtp"][n] # 0
Following ==
  LET w == window["rtp"]
  IN IF rx.seq_initialized
     THEN /\ w.initialized
          /\ Index(rx.roc, rx.last_seq) = w.highest
          /\ \E h \in 1 .. Len(sent["rtp"]) : Received(h) /\ Position(h) = w.highest
          /\ \A n \in 1 .. Len(sent["rtp"]) :
               /\ Received(n) => Position(n) <= w.highest
               /\ Position(n) <= w.highest /\ w.highest - Position(n) \in w.bitmap => Received(n)
     ELSE ~ w.initialized /\ \A n \in 1 .. MaxRtp : ~ Received(n)
ReceiverInv == SenderInv /\ Following

\* What the invariants say of the RTP stream.
LEMMA Streams ==
  ASSUME SenderInv
  PROVE  /\ rx \in ContextType /\ window \in [Stream -> WindowType]
         /\ window["rtp"] \in WindowType /\ "rtp" \in Stream
         /\ first \in Nat /\ Len(sent["rtp"]) \in Nat /\ MaxRtp \in Nat
         /\ Len(sent["rtp"]) <= MaxRtp
         /\ sent \in [Stream -> Seq(Packet)] /\ sent["rtp"] \in Seq(Packet)
         /\ \A n \in 1 .. Len(sent["rtp"]) :
              LET p == sent["rtp"][n]
              IN /\ p.seq \in Seqs /\ p.roc \in Rocs
                 /\ Index(p.roc, p.seq) = Position(n) /\ Position(n) \in Nat
         /\ \A n \in 1 .. MaxRtp : Received(n) => n <= Len(sent["rtp"])
  <1>1. /\ rx \in ContextType /\ window \in [Stream -> WindowType] /\ first \in Seqs
        /\ sent \in [Stream -> Seq(Packet)] /\ Seen /\ InStep
        /\ \A k \in Stream : Len(sent[k]) <= Bound[k]
    BY Zenon DEF SenderInv, SrtpInv, SrtpTypeOK, ContextType, WindowType
  <1>2. /\ "rtp" \in Stream /\ Bound["rtp"] = MaxRtp /\ MaxRtp \in Nat
        /\ SeqMod \in Nat /\ RocMod \in Nat /\ MaxRtp + SeqMod <= SeqMod * RocMod
        /\ SeqMod > 0
    BY SrtpConstants, SrtpLifetime DEF Stream, Bound
  <1>3. /\ window["rtp"] \in WindowType /\ sent["rtp"] \in Seq(Packet)
        /\ Len(sent["rtp"]) \in Nat /\ Len(sent["rtp"]) <= MaxRtp
    BY <1>1, <1>2
  <1>4. first \in Nat /\ first < SeqMod
    BY <1>1, <1>2 DEF Seqs
  <1>5. \A n \in 1 .. MaxRtp : Received(n) => n <= Len(sent["rtp"])
    BY <1>1, <1>2, Zenon DEF Seen, Received
  <1>6. ASSUME NEW n \in 1 .. Len(sent["rtp"])
        PROVE  LET p == sent["rtp"][n]
               IN /\ p.seq \in Seqs /\ p.roc \in Rocs
                  /\ Index(p.roc, p.seq) = Position(n) /\ Position(n) \in Nat
    <2> DEFINE p == sent["rtp"][n]
    <2>1. p \in Packet /\ p.seq \in Seqs
      BY <1>1, <1>3 DEF Seen
    <2>2. p.roc \in Nat
      BY <2>1, Zenon DEF Packet
    <2>3. IndexOf("rtp", p) = first + n - 1
      BY <1>1, Zenon DEF InStep
    <2>4. Index(p.roc, p.seq) = Position(n)
      BY <2>3, Zenon DEF IndexOf, Position
    <2>5. Position(n) \in Nat /\ Position(n) < SeqMod * RocMod
      <3>1. SeqMod * RocMod \in Nat
        BY <1>2
      <3>2. n \in Nat /\ n >= 1 /\ n <= MaxRtp
        BY <1>2, <1>3
      <3> QED BY <1>2, <1>4, <3>1, <3>2 DEF Position
    <2>6. p.roc < RocMod
      <3>1. p.roc * SeqMod <= Position(n)
        <4>1. p.roc * SeqMod \in Nat /\ p.seq \in Nat
          BY <1>2, <2>1, <2>2 DEF Seqs
        <4> QED BY <2>4, <4>1 DEF Index
      <3>2. p.roc * SeqMod < SeqMod * RocMod
        <4>1. p.roc * SeqMod \in Nat /\ SeqMod * RocMod \in Nat
          BY <1>2, <2>2
        <4> QED BY <2>5, <3>1, <4>1
      <3> HIDE DEF p
      <3> QED BY <1>2, <2>2, <3>2
    <2>7. p.roc \in Rocs
      BY <1>2, <2>2, <2>6 DEF Rocs
    <2> QED BY <2>1, <2>4, <2>5, <2>7, Zenon
  <1> QED BY <1>1, <1>2, <1>3, <1>4, <1>5, <1>6, Zenon

\* A packet that is protected is newer than all that were accepted.
LEMMA ProtectFollows ==
  ASSUME ReceiverInv, SenderInv', UNCHANGED <<rx, window, first, got>>,
         Len(sent'["rtp"]) >= Len(sent["rtp"])
  PROVE  Following'
  <1> DEFINE L == Len(sent["rtp"])
             M == Len(sent'["rtp"])
             w == window["rtp"]
  <1>1. SenderInv /\ Following
    BY Zenon DEF ReceiverInv
  <1>2. /\ L \in Nat /\ first \in Nat /\ M \in Nat /\ M <= MaxRtp /\ MaxRtp \in Nat
        /\ w.highest \in Nat
        /\ \A n \in 1 .. MaxRtp : Received(n) => n <= L
    <2>1. M \in Nat /\ M <= MaxRtp
      <3>1. sent' \in [Stream -> Seq(Packet)] /\ \A k \in Stream : Len(sent'[k]) <= Bound[k]
        BY Zenon DEF SenderInv, SrtpInv, SrtpTypeOK
      <3> QED BY <3>1 DEF Stream, Bound
    <2> QED BY <1>1, <2>1, Streams, Zenon DEF WindowType
  <1>3. \A n : Received(n)' <=> Received(n)
    BY Zenon DEF Received
  <1>4. \A n : Position(n)' = Position(n)
    BY Zenon DEF Position
  <1>5. CASE ~ rx.seq_initialized
    BY <1>1, <1>3, <1>5, Zenon DEF Following
  <1>6. CASE rx.seq_initialized
    <2>1. PICK h \in 1 .. L : Received(h) /\ Position(h) = w.highest
      BY <1>1, <1>6, Zenon DEF Following
    <2>2. h \in 1 .. M
      BY <1>2, <2>1
    <2>3. ASSUME NEW n \in 1 .. M
          PROVE  /\ Received(n) => Position(n) <= w.highest
                 /\ Position(n) <= w.highest /\ w.highest - Position(n) \in w.bitmap => Received(n)
      <3>1. CASE n <= L
        <4>1. n \in 1 .. L
          BY <1>2, <3>1
        <4> QED BY <1>1, <1>6, <4>1, Zenon DEF Following
      <3>2. CASE n > L
        <4>1. n \in 1 .. MaxRtp /\ ~ (n <= L)
          BY <1>2, <3>2
        <4>2. ~ Received(n)
          BY <1>2, <4>1, Zenon
        <4>3. Position(n) > w.highest /\ Position(n) \in Nat
          BY <1>2, <2>1, <3>2 DEF Position
        <4> QED BY <1>2, <4>2, <4>3
      <3> QED BY <1>2, <3>1, <3>2
    <2>4. /\ w.initialized /\ Index(rx.roc, rx.last_seq) = w.highest
      BY <1>1, <1>6, Zenon DEF Following
    <2> QED BY <1>3, <1>4, <1>6, <2>1, <2>2, <2>3, <2>4, Zenon DEF Following
  <1> QED BY <1>5, <1>6, Zenon

\* Accepting a packet moves the receiver to the newer of the two.
LEMMA AcceptFollows ==
  ASSUME ReceiverInv, NEW n \in 1 .. Len(sent["rtp"]),
         unprotect_rtp(sent["rtp"][n], n), AcceptsRtp(sent["rtp"][n])
  PROVE  Following'
  <1> DEFINE p == sent["rtp"][n]
             i == Position(n)
             w == window["rtp"]
             v == window'["rtp"]
             L == Len(sent["rtp"])
  <1>1. SenderInv /\ Following
    BY Zenon DEF ReceiverInv
  <1>2. /\ p.seq \in Seqs /\ p.roc \in Rocs /\ Index(p.roc, p.seq) = i /\ i \in Nat
        /\ \A m \in 1 .. L : Position(m) \in Nat
    BY <1>1, Streams, Zenon
  <1>3. /\ rx \in ContextType /\ w \in WindowType /\ window \in [Stream -> WindowType]
        /\ "rtp" \in Stream /\ L \in Nat /\ L <= MaxRtp /\ MaxRtp \in Nat /\ first \in Nat
        /\ \A m \in 1 .. MaxRtp : Received(m) => m <= L
    BY <1>1, Streams, Zenon
  <1>4. /\ window' = [window EXCEPT !["rtp"] = update(@, i)]
        /\ rx' = update_roc(rx, p.seq, p.roc)
        /\ got' = [got EXCEPT !["rtp"][n] = @ + 1]
        /\ UNCHANGED <<first, sent>>
    BY <1>2, Zenon DEF unprotect_rtp
  <1>5. v = update(w, i)
    BY <1>3, <1>4, Zenon
  <1>6. \A m \in 1 .. MaxRtp : Received(m)' <=> m = n \/ Received(m)
    <2>1. /\ got = [k \in Stream |-> got[k]] /\ got["rtp"] \in [1 .. MaxRtp -> Nat]
          /\ n \in 1 .. MaxRtp
      <3>1. Bound["rtp"] = MaxRtp
        BY Zenon DEF Bound, Stream
      <3>2. got = [k \in Stream |-> got[k]] /\ got["rtp"] \in [1 .. Bound["rtp"] -> Nat]
        BY <1>1, <1>3, Zenon DEF SenderInv, SrtpInv, SrtpTypeOK, Seen
      <3> QED BY <1>3, <3>1, <3>2
    <2> DEFINE g == [got["rtp"] EXCEPT ![n] = @ + 1]
    <2>2. got'["rtp"] = g
      BY <1>3, <1>4, <2>1, Zenon
    <2>3. g[n] # 0
      <3>1. g[n] = got["rtp"][n] + 1
        BY <2>1, Zenon
      <3>2. got["rtp"][n] \in Nat
        BY <2>1, Zenon
      <3> HIDE DEF g
      <3> QED BY <3>1, <3>2
    <2>4. \A m \in 1 .. MaxRtp : m # n => g[m] = got["rtp"][m]
      BY <2>1, Zenon
    <2> HIDE DEF g
    <2> QED BY <2>2, <2>3, <2>4, Zenon DEF Received
  <1>7. \A m : Position(m)' = Position(m)
    BY <1>4, Zenon DEF Position
  <1>8. \A m \in 1 .. L : m \in 1 .. MaxRtp /\ (Position(m) = i => m = n)
    BY <1>3, SMTT(30) DEF Position
  <1>9. /\ rx'.seq_initialized
        /\ ~ rx.seq_initialized => rx'.roc = 0 /\ rx'.last_seq = p.seq
        /\ rx.seq_initialized =>
             Index(rx'.roc, rx'.last_seq) =
               IF i > Index(rx.roc, rx.last_seq) THEN i ELSE Index(rx.roc, rx.last_seq)
    BY <1>2, <1>3, <1>4, UpdateIndex, SMTT(30)
  <1>10. /\ v.initialized
         /\ ~ w.initialized => v.highest = i /\ v.bitmap = {0}
         /\ w.initialized => v.highest = IF i > w.highest THEN i ELSE w.highest
    BY <1>2, <1>3, <1>5, UpdateRecords
  <1>11. \A j \in Nat : w.initialized /\ j <= v.highest /\ v.highest - j \in v.bitmap =>
                          j = i \/ (j <= w.highest /\ w.highest - j \in w.bitmap)
    BY <1>2, <1>3, <1>5, UpdateRecords, ZenonT(60)
  <1> HIDE DEF p, i, w, v, L
  <1>12. CASE ~ rx.seq_initialized
    <2>1. ~ w.initialized /\ \A m \in 1 .. MaxRtp : ~ Received(m)
      BY <1>1, <1>12, Zenon DEF Following, w
    <2>2. v.highest = i /\ v.bitmap = {0}
      BY <1>10, <2>1, Zenon
    <2>3. Index(rx'.roc, rx'.last_seq) = v.highest
      <3>1. p.roc = 0
        BY <1>12, ZenonT(60) DEF AcceptsRtp, estimated_roc, p
      <3> QED BY <1>2, <1>9, <1>12, <2>2, <3>1, Zenon
    <2>4. ASSUME NEW m \in 1 .. L
          PROVE  /\ Received(m)' => Position(m) <= v.highest
                 /\ Position(m) <= v.highest /\ v.highest - Position(m) \in v.bitmap => Received(m)'
      <3>1. Received(m)' <=> m = n
        BY <1>6, <1>8, <2>1, Zenon
      <3>2. Position(m) \in Nat /\ (Position(m) = i <=> m = n)
        BY <1>2, <1>8, Zenon DEF i
      <3> QED BY <1>2, <2>2, <3>1, <3>2
    <2>5. n \in 1 .. L /\ Received(n)' /\ Position(n) = v.highest
      BY <1>6, <1>8, <2>2, Zenon DEF L, i
    <2> QED BY <1>4, <1>7, <1>9, <1>10, <2>3, <2>4, <2>5, Zenon DEF Following, v, L
  <1>13. CASE rx.seq_initialized
    <2>1. /\ w.initialized /\ Index(rx.roc, rx.last_seq) = w.highest /\ w.highest \in Nat
          /\ \A m \in 1 .. L :
               /\ Received(m) => Position(m) <= w.highest
               /\ Position(m) <= w.highest /\ w.highest - Position(m) \in w.bitmap => Received(m)
      <3>1. w.highest \in Nat
        BY <1>3, Zenon DEF WindowType
      <3> QED BY <1>1, <1>13, <3>1, Zenon DEF Following, w, L
    <2>2. PICK h \in 1 .. L : Received(h) /\ Position(h) = w.highest
      BY <1>1, <1>13, Zenon DEF Following, w, L
    <2>3. v.highest = IF i > w.highest THEN i ELSE w.highest
      BY <1>10, <2>1, Zenon
    <2>4. Index(rx'.roc, rx'.last_seq) = v.highest
      <3>1. CASE i > w.highest
        BY <1>9, <1>13, <2>1, <2>3, <3>1, Zenon
      <3>2. CASE ~ (i > w.highest)
        BY <1>9, <1>13, <2>1, <2>3, <3>2, ZenonT(60)
      <3> QED BY <3>1, <3>2, Zenon
    <2>5. v.highest \in Nat /\ v.highest >= i /\ v.highest >= w.highest
      BY <1>2, <2>1, <2>3
    <2>6. \E m \in 1 .. L : Received(m)' /\ Position(m) = v.highest
      <3>1. CASE i > w.highest
        <4>1. n \in 1 .. L /\ Received(n)' /\ Position(n) = v.highest
          BY <1>6, <1>8, <2>3, <3>1, Zenon DEF L, i
        <4> QED BY <4>1, Zenon
      <3>2. CASE ~ (i > w.highest)
        <4>1. Received(h)' /\ Position(h) = v.highest
          BY <1>6, <1>8, <2>2, <2>3, <3>2, Zenon
        <4> QED BY <4>1, Zenon
      <3> QED BY <3>1, <3>2, Zenon
    <2>7. ASSUME NEW m \in 1 .. L
          PROVE  /\ Received(m)' => Position(m) <= v.highest
                 /\ Position(m) <= v.highest /\ v.highest - Position(m) \in v.bitmap => Received(m)'
      <3>1. Received(m)' <=> m = n \/ Received(m)
        BY <1>6, <1>8, Zenon
      <3>2. Position(m) \in Nat /\ (Position(m) = i <=> m = n)
        BY <1>2, <1>8, Zenon DEF i
      <3>3. Received(m)' => Position(m) <= v.highest
        BY <1>2, <2>1, <2>5, <3>1, <3>2
      <3>4. Position(m) <= v.highest /\ v.highest - Position(m) \in v.bitmap => Received(m)'
        BY <1>11, <2>1, <3>1, <3>2, Zenon
      <3> QED BY <3>3, <3>4, Zenon
    <2> QED BY <1>4, <1>7, <1>9, <1>10, <2>4, <2>6, <2>7, ZenonT(60) DEF Following, v, L
  <1> QED BY <1>12, <1>13, Zenon

\* Every step keeps the receiver at the newest packet.
LEMMA NextFollowing == ReceiverInv /\ SenderInv' /\ [SrtpNext]_srtpVars => Following'
  <1> SUFFICES ASSUME ReceiverInv, SenderInv', [SrtpNext]_srtpVars PROVE Following'
    BY Zenon
  <1>0. SenderInv
    BY Zenon DEF ReceiverInv
  <1>1. /\ sent \in [Stream -> Seq(Packet)] /\ Len(sent["rtp"]) \in Nat
        /\ "rtp" \in Stream /\ "rtcp" \in Stream /\ "rtp" # "rtcp"
    BY <1>0, Streams, Zenon DEF Stream
  <1>2. CASE protect_rtp
    <2>1. Len(sent'["rtp"]) >= Len(sent["rtp"])
      <3>1. PICK q : sent' = [sent EXCEPT !["rtp"] = Append(@, q)]
        BY <1>2, Zenon DEF protect_rtp
      <3>2. sent'["rtp"] = Append(sent["rtp"], q) /\ sent'["rtp"] \in Seq(Packet)
        <4>1. sent' \in [Stream -> Seq(Packet)]
          BY Zenon DEF SenderInv, SrtpInv, SrtpTypeOK
        <4> QED BY <1>1, <3>1, <4>1, Zenon
      <3>3. sent["rtp"] \in Seq(Packet)
        BY <1>1, Zenon
      <3> QED BY <1>1, <3>2, <3>3
    <2> QED BY <1>2, <2>1, ProtectFollows, Zenon DEF protect_rtp
  <1>3. CASE protect_rtcp
    <2>1. sent'["rtp"] = sent["rtp"] /\ UNCHANGED <<rx, window, first, got>>
      BY <1>1, <1>3, Zenon DEF protect_rtcp
    <2>2. Len(sent'["rtp"]) >= Len(sent["rtp"])
      BY <1>1, <2>1
    <2> QED BY <2>1, <2>2, ProtectFollows, Zenon
  <1>4. CASE UNCHANGED srtpVars
    BY <1>4, Zenon DEF srtpVars, ReceiverInv, Following, Received, Position
  <1>5. ASSUME NEW p \in Damaged PROVE ~ AcceptsRtp(p)
    <2>1. p.seq \in Nat /\ p.roc = RocMod /\ rx \in ContextType
      BY <1>0, Streams, SrtpConstants DEF Damaged, Seqs
    <2>2. estimated_roc(rx, p.seq) \in Rocs
      BY <2>1, EstimateType, Zenon
    <2> QED BY <2>1, <2>2, SrtpConstants DEF AcceptsRtp, Rocs
  <1>6. ASSUME NEW n \in 1 .. Len(sent["rtcp"]), unprotect_rtcp(sent["rtcp"][n], n),
               ~ UNCHANGED srtpVars
        PROVE  Following'
    <2>1. /\ window' = [window EXCEPT !["rtcp"] = update(@, sent["rtcp"][n].seq)]
          /\ got' = [got EXCEPT !["rtcp"][n] = @ + 1]
          /\ UNCHANGED <<tx, rx, next, first, sent>>
      BY <1>6, Zenon DEF unprotect_rtcp
    <2>2. window'["rtp"] = window["rtp"]
      BY <1>0, <1>1, <2>1, Streams, Zenon
    <2>3. got'["rtp"] = got["rtp"]
      <3>1. got = [k \in Stream |-> got[k]]
        BY <1>0, Zenon DEF SenderInv, SrtpInv, Seen
      <3> QED BY <1>1, <2>1, <3>1, Zenon
    <2> QED BY <2>1, <2>2, <2>3, Zenon DEF ReceiverInv, Following, Received, Position
  <1>7. ASSUME NEW n \in 1 .. Len(sent["rtp"]), unprotect_rtp(sent["rtp"][n], n)
        PROVE  Following'
    BY <1>4, <1>7, AcceptFollows, Zenon DEF unprotect_rtp
  <1>8. ASSUME NEW p \in Damaged, unprotect_rtp(p, 0) PROVE Following'
    BY <1>4, <1>5, <1>8, Zenon DEF unprotect_rtp
  <1> QED BY <1>2, <1>3, <1>4, <1>6, <1>7, <1>8, Zenon DEF SrtpNext

\* Once the receiver is in step, it refuses no packet that arrives in time, for
\* every width of the sequence number, of the counter and of the window,
\* whatever was lost, reordered, repeated or damaged before and however often
\* the sequence number wrapped (estimate_roc_standard, update_roc,
\* ReplayWindow::check and update).
THEOREM InTimeArrives == SrtpSpec => []InTimeIsAccepted
  <1>1. SrtpInit => ReceiverInv
    <2>1. SrtpInit => SenderInv
      BY InitInv DEF SrtpInit, SenderInv, InStep, Stream, NewContext
    <2>2. SrtpInit => Following
      <3>1. Bound["rtp"] = MaxRtp /\ "rtp" \in Stream
        BY Zenon DEF Bound, Stream
      <3> QED BY <3>1 DEF SrtpInit, Following, NewContext, NewWindow, Received
    <2> QED BY <2>1, <2>2, Zenon DEF ReceiverInv
  <1>2. ReceiverInv /\ [SrtpNext]_srtpVars => ReceiverInv'
    BY NextInv, NextInStep, NextFollowing, Zenon DEF ReceiverInv, SenderInv
  <1>3. ReceiverInv => InTimeIsAccepted
    <2> SUFFICES ASSUME ReceiverInv,
                        NEW h \in 1 .. Len(sent["rtp"]), Newest(h),
                        NEW n \in 1 .. Len(sent["rtp"]), got["rtp"][n] = 0,
                        Position(h) < Position(n) + Window,
                        Position(n) < Position(h) + SeqMod \div 2,
                        Position(h) <= Position(n) + SeqMod \div 2
                 PROVE  AcceptsRtp(sent["rtp"][n])
      BY Zenon DEF InTimeIsAccepted
    <2> DEFINE p == sent["rtp"][n]
               w == window["rtp"]
    <2>1. SenderInv /\ Following
      BY Zenon DEF ReceiverInv
    <2>2. /\ p.seq \in Seqs /\ p.roc \in Rocs /\ Index(p.roc, p.seq) = Position(n)
          /\ Position(n) \in Nat /\ Position(h) \in Nat /\ rx \in ContextType
          /\ Len(sent["rtp"]) \in Nat /\ Len(sent["rtp"]) <= MaxRtp /\ MaxRtp \in Nat
          /\ first \in Nat
      BY <2>1, Streams, Zenon
    <2>3. Received(h) /\ ~ Received(n) /\ h \in 1 .. MaxRtp
      BY <2>2 DEF Newest, Received
    <2>4. rx.seq_initialized
      BY <2>1, <2>3, Zenon DEF Following
    <2>5. PICK g \in 1 .. Len(sent["rtp"]) : Received(g) /\ Position(g) = w.highest
      BY <2>1, <2>4, Zenon DEF Following
    <2>6. Position(h) <= w.highest /\ (Position(n) <= w.highest => w.highest - Position(n) \notin w.bitmap)
      BY <2>1, <2>3, <2>4, Zenon DEF Following
    <2>7. ~ (g > h)
      <3>1. g > h => g \in h + 1 .. MaxRtp
        BY <2>2
      <3> QED BY <2>5, <3>1, Zenon DEF Newest, Received
    <2>8. w.highest = Position(h)
      <3>1. g \in Nat /\ h \in Nat /\ g <= h
        BY <2>2, <2>3, <2>5, <2>7, SMTT(30)
      <3>2. Position(g) <= Position(h) /\ Position(g) \in Nat
        BY <2>2, <3>1 DEF Position
      <3> QED BY <2>2, <2>5, <2>6, <3>2, SMTT(30)
    <2>9. Index(rx.roc, rx.last_seq) = Position(h)
      BY <2>1, <2>4, <2>8, Zenon DEF Following
    <2>10. estimated_roc(rx, p.seq) = p.roc
      BY <2>2, <2>4, <2>9, EstimateExact, ZenonT(60)
    <2>11. check(w, Position(n))
      <3>1. Window \in Nat
        BY SrtpConstants, Zenon
      <3> HIDE DEF w
      <3> QED BY <2>2, <2>6, <2>8, <3>1 DEF check
    <2> QED BY <2>2, <2>10, <2>11, Zenon DEF AcceptsRtp
  <1> QED BY <1>1, <1>2, <1>3, PTL DEF SrtpSpec
=============================================================================
