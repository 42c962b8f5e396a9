------------------------------ MODULE ConfProofs ------------------------------
(***************************************************************************)
(* For every set of legs, whatever joins, leaves, mutes, kicks and ticks   *)
(* interleave: the conferences, their users and their mixers keep their    *)
(* shape, a user is in a conference only while its leg holds it, and a     *)
(* mixer lets only those talk that were added to it.                       *)
(*                                                                         *)
(* ConfTypeOK is not inductive: that a user's leg holds the conference     *)
(* rests on where each leg stands in the application (Placed), and that a  *)
(* Conference can be numbered on how many numbers the legs hold.           *)
(***************************************************************************)
EXTENDS ConfBridge, TLAPS

Users == [present : BOOLEAN, muted : BOOLEAN]
Objects == [locked : BOOLEAN, all_muted : BOOLEAN]
Outside == {"out", "creating"}
Inside == {"joined", "starting", "attaching", "in", "leaving"}
Stages == Outside \cup Inside \cup
          {"found", "checked", "detaching", "detaching last", "destroying",
           "removing", "gone"}

\* The shape of the conferences and of their users.
Typed ==
  /\ CONFERENCES \in Conference \cup {0}
  /\ conf \in [Conference -> Objects]
  /\ user \in [Leg -> Users]
  /\ mine \in [Leg -> Conference \cup {0}]
  /\ stage \in [Leg -> Stages]

\* A leg holds a Conference from the lookup that found it, or the creation, to
\* its leave, and is among its users only from join to leave.
Placed ==
  \A l \in Leg : /\ stage[l] \in Outside <=> mine[l] = 0
                 /\ user[l].present => stage[l] \in Inside

Readings == [stage : {"idle", "nothing", "flags"}, legs : SUBSET Leg,
             quiet : SUBSET Leg]
MixerObjects == [running : BOOLEAN, parts : SUBSET Leg, talking : SUBSET Leg,
                 seen : Readings]

\* The shape of the mixers: only who was added to a mixer talks there.
Mixing ==
  /\ MIXERS \in Mixers \cup {"none"}
  /\ held \in [Leg -> Mixers \cup {"none"}]
  /\ mixer \in [Mixers -> MixerObjects]
  /\ \A m \in Mixers : mixer[m].talking \subseteq mixer[m].parts

ConfInv == Typed /\ Placed /\ Mixing

-----------------------------------------------------------------------------
\* Conferences are numbered from 1: 0 stands for none.
LEMMA Numbers == 0 \notin Conference
  BY DEF Conference

\* A leg that creates a Conference finds a number that nobody has.
Numbered == \A l \in Leg : stage[l] = "creating" => Unnamed # {}

\* Every step keeps the shape and the places.
LEMMA PlacedKept ==
  ASSUME Typed, Placed, Numbered, [ConfNext]_confVars
  PROVE  Typed' /\ Placed'
  <1> USE Numbers DEF Typed, Placed
  <1>1. ASSUME NEW l \in Leg, LookUp(l) PROVE Typed' /\ Placed'
    BY <1>1 DEF LookUp, Go, Stages, Outside, Inside
  <1>2. ASSUME NEW l \in Leg, Create(l) PROVE Typed' /\ Placed'
    <2> DEFINE k == CHOOSE n \in Unnamed : TRUE
    <2>1. k \in Conference /\ stage[l] = "creating"
      BY <1>2, Zenon DEF Create, Numbered, Unnamed
    <2>2. NewConference \in Objects
      BY Zenon DEF NewConference, Objects
    <2>3. /\ conf' = [conf EXCEPT ![k] = NewConference]
          /\ CONFERENCES' = k /\ mine' = [mine EXCEPT ![l] = k]
          /\ stage' = [stage EXCEPT ![l] = "found"]
          /\ UNCHANGED user
      BY <1>2, Zenon DEF Create, Go
    <2> HIDE DEF k
    <2> QED BY <1>2, <2>1, <2>2, <2>3 DEF Stages, Outside, Inside
  <1>3. ASSUME NEW l \in Leg, CheckEntry(l) PROVE Typed' /\ Placed'
    BY <1>3 DEF CheckEntry, Go, Stages, Outside, Inside
  <1>4. ASSUME NEW l \in Leg, AddUser(l) PROVE Typed' /\ Placed'
    <2>1. stage[l] = "checked"
      BY <1>4 DEF AddUser
    <2>2. /\ user' \in [Leg -> Users]
          /\ \A x \in Leg \ {l} : user'[x].present = user[x].present
      BY <1>4, Zenon DEF AddUser, Users
    <2> QED BY <1>4, <2>1, <2>2 DEF AddUser, Go, Stages, Outside, Inside
  <1>5. ASSUME NEW l \in Leg, FindMixer(l) PROVE Typed' /\ Placed'
    BY <1>5 DEF FindMixer, Go, Stages, Outside, Inside
  <1>6. ASSUME NEW l \in Leg, StartMixer(l) PROVE Typed' /\ Placed'
    BY <1>6 DEF StartMixer, Go, Stages, Outside, Inside
  <1>7. ASSUME NEW l \in Leg, Attach(l) PROVE Typed' /\ Placed'
    BY <1>7 DEF Attach, Go, Stages, Outside, Inside
  <1>8. ASSUME NEW l \in Leg, HangUp(l) PROVE Typed' /\ Placed'
    BY <1>8 DEF HangUp, Go, Stages, Outside, Inside
  <1>9. ASSUME NEW l \in Leg, RemoveUser(l) PROVE Typed' /\ Placed'
    <2> DEFINE next == After(user[l].present, participants(mine[l]) \ {l} = {})
    <2>1. /\ user' = [user EXCEPT ![l] = NoUser]
          /\ stage' = [stage EXCEPT ![l] = next] /\ stage[l] = "leaving"
          /\ UNCHANGED <<CONFERENCES, conf, mine>>
      BY <1>9, Zenon DEF RemoveUser, Go
    <2>2. next \in {"detaching last", "detaching", "destroying", "gone"}
      BY Zenon DEF After
    <2>3. NoUser \in Users /\ ~NoUser.present
      BY Zenon DEF NoUser, Users
    <2> HIDE DEF next
    <2> QED BY <2>1, <2>2, <2>3 DEF Stages, Outside, Inside
  <1>11. ASSUME NEW l \in Leg, Detach(l) PROVE Typed' /\ Placed'
    BY <1>11 DEF Detach, Go, Stages, Outside, Inside
  <1>12. ASSUME NEW l \in Leg, ShutdownMixer(l) PROVE Typed' /\ Placed'
    BY <1>12 DEF ShutdownMixer, Go, Stages, Outside, Inside
  <1>13. ASSUME NEW l \in Leg, Leave(l) PROVE Typed' /\ Placed'
    BY <1>13 DEF Leave, Go, Stages, Outside, Inside
  <1>14. ASSUME NEW l \in Leg, ToggleMute(l) PROVE Typed' /\ Placed'
    <2>1. /\ user' \in [Leg -> Users]
          /\ \A x \in Leg : user'[x].present = user[x].present
      BY <1>14, Zenon DEF ToggleMute, Users
    <2> QED BY <1>14, <2>1, Zenon DEF ToggleMute
  <1>15. ASSUME NEW ls \in SUBSET here, Kick(ls) PROVE Typed' /\ Placed'
    <2>1. /\ user' \in [Leg -> Users]
          /\ \A x \in Leg : user'[x].present => user[x].present
      BY <1>15, Zenon DEF Kick, NoUser, Users
    <2> QED BY <1>15, <2>1, Zenon DEF Kick
  <1>16. CASE ToggleMuteParticipants
    <2>1. CONFERENCES \in Conference /\ conf[CONFERENCES].all_muted \in BOOLEAN
      BY <1>16, Zenon DEF ToggleMuteParticipants, Objects
    <2>2. /\ user' \in [Leg -> Users]
          /\ \A x \in Leg : user'[x].present = user[x].present
      BY <1>16, <2>1, Zenon DEF ToggleMuteParticipants, Users
    <2>3. conf' \in [Conference -> Objects]
      <3> DEFINE muted == ~conf[CONFERENCES].all_muted
      <3>1. conf' = [conf EXCEPT ![CONFERENCES].all_muted = muted]
        BY <1>16, Zenon DEF ToggleMuteParticipants
      <3>2. muted \in BOOLEAN
        BY Zenon
      <3> HIDE DEF muted
      <3> QED BY <2>1, <3>1, <3>2 DEF Objects
    <2> QED BY <1>16, <2>2, <2>3, Zenon DEF ToggleMuteParticipants
  <1>17. CASE ToggleLock
    BY <1>17, ZenonT(60) DEF ToggleLock, Objects
  <1>18. ASSUME NEW m \in Mixers, ReadFlags(m) \/ Mix(m) PROVE Typed' /\ Placed'
    BY <1>18, Zenon DEF ReadFlags, Mix
  <1>19. CASE UNCHANGED confVars
    BY <1>19, Zenon DEF confVars
  <1> QED
    <2>1. ASSUME NEW l \in Leg, KickUser(l) PROVE Typed' /\ Placed'
      BY <2>1, <1>15, Zenon DEF KickUser
    <2>2. CASE KickAll
      BY <2>2, <1>15, Zenon DEF KickAll
    <2> QED
      BY <1>1, <1>2, <1>3, <1>4, <1>5, <1>6, <1>7, <1>8, <1>9, <1>11, <1>12,
         <1>13, <1>14, <1>16, <1>17, <1>18, <1>19, <2>1, <2>2, Zenon DEF ConfNext

-----------------------------------------------------------------------------
\* The mixers keep their shape.
LEMMA MixingKept ==
  ASSUME Mixing, Typed, [ConfNext]_confVars
  PROVE  Mixing'
  <1> USE DEF Mixing
  <1>0. /\ NewMixer \in MixerObjects /\ NewMixer.talking = {}
        /\ NoMixer \in MixerObjects /\ NoMixer.talking = {}
    <2>1. NotSeen \in Readings
      BY Zenon DEF NotSeen, Readings
    <2> QED BY <2>1, Zenon DEF NewMixer, NoMixer, MixerObjects
  <1>1. ASSUME NEW l \in Leg,
               LookUp(l) \/ Create(l) \/ CheckEntry(l) \/ AddUser(l) \/ HangUp(l)
                 \/ RemoveUser(l) \/ Leave(l) \/ ToggleMute(l)
                 \/ KickUser(l)
        PROVE Mixing'
    BY <1>1, Zenon DEF LookUp, Create, CheckEntry, AddUser, HangUp, RemoveUser,
                Leave, ToggleMute, KickUser, Kick
  <1>2. CASE ToggleMuteParticipants \/ ToggleLock \/ KickAll \/ UNCHANGED confVars
    BY <1>2, Zenon DEF ToggleMuteParticipants, ToggleLock, KickAll, Kick, confVars
  <1>3. ASSUME NEW l \in Leg, FindMixer(l) PROVE Mixing'
    BY <1>3, Zenon DEF FindMixer
  <1>4. ASSUME NEW l \in Leg, StartMixer(l) PROVE Mixing'
    <2> DEFINE m == CHOOSE n \in Unused : TRUE
    <2>1. m \in Mixers
      BY <1>4, Zenon DEF StartMixer, Unused
    <2>2. /\ mixer' = [mixer EXCEPT ![m] = NewMixer] /\ MIXERS' = m
          /\ held' = [held EXCEPT ![l] = m]
      BY <1>4, Zenon DEF StartMixer
    <2> HIDE DEF m
    <2> QED BY <1>0, <2>1, <2>2, Zenon
  <1>5. ASSUME NEW l \in Leg, Attach(l) PROVE Mixing'
    <2>1. /\ mixer' = [mixer EXCEPT ![held[l]].parts = @ \cup {l},
                                    ![held[l]].talking = @ \cup {l}]
          /\ held' = [held EXCEPT ![l] = "none"] /\ UNCHANGED MIXERS
      BY <1>5, Zenon DEF Attach
    <2>2. CASE held[l] \in Mixers
      <3> DEFINE o == mixer[held[l]]
                 p == [o EXCEPT !.parts = @ \cup {l}, !.talking = @ \cup {l}]
      <3>1. p \in MixerObjects /\ p.talking \subseteq p.parts
        BY <2>2, ZenonT(60) DEF MixerObjects
      <3>2. mixer' = [mixer EXCEPT ![held[l]] = p]
        BY <2>1, <2>2, Zenon DEF MixerObjects
      <3> HIDE DEF p
      <3> QED BY <2>1, <3>1, <3>2, Zenon
    <2>3. CASE held[l] \notin Mixers
      <3>1. mixer' = mixer
        BY <2>1, <2>3, Zenon
      <3> QED BY <2>1, <3>1, Zenon
    <2> QED BY <2>2, <2>3, Zenon
  <1>6. ASSUME NEW l \in Leg, Detach(l) PROVE Mixing'
    <2>1. CASE MIXERS = "none"
      BY <1>6, <2>1 DEF Detach
    <2>2. CASE MIXERS # "none"
      <3> DEFINE p == Without(mixer[MIXERS], {l})
      <3>1. p \in MixerObjects /\ p.talking \subseteq p.parts
        BY <2>2, Zenon DEF Without, MixerObjects
      <3>2. mixer' = [mixer EXCEPT ![MIXERS] = p] /\ UNCHANGED <<MIXERS, held>>
        BY <1>6, <2>2 DEF Detach
      <3> HIDE DEF p
      <3> QED BY <2>2, <3>1, <3>2, Zenon
    <2> QED BY <2>1, <2>2, Zenon
  <1>7. ASSUME NEW l \in Leg, ShutdownMixer(l) PROVE Mixing'
    <2>1. CASE MIXERS = "none"
      BY <1>7, <2>1, Zenon DEF ShutdownMixer
    <2>2. CASE MIXERS # "none"
      BY <1>0, <1>7, <2>2, Zenon DEF ShutdownMixer
    <2> QED BY <2>1, <2>2
  <1>8. ASSUME NEW m \in Mixers, ReadFlags(m) PROVE Mixing'
    <2>1. here \subseteq Leg
      BY Zenon DEF here, participants
    <2> DEFINE seen == [stage |-> IF CONFERENCES = 0 THEN "nothing" ELSE "flags",
                        legs |-> here,
                        quiet |-> {l \in here : user[l].muted}]
    <2>2. seen \in Readings
      BY <2>1, Zenon DEF Readings
    <2>3. mixer' = [mixer EXCEPT ![m].seen = seen] /\ UNCHANGED <<MIXERS, held>>
      BY <1>8, Zenon DEF ReadFlags
    <2> HIDE DEF seen
    <2> QED BY <2>2, <2>3 DEF MixerObjects
  <1>9. ASSUME NEW m \in Mixers, Mix(m) PROVE Mixing'
    <2>1. mixed(m) \in MixerObjects /\ mixed(m).talking \subseteq mixed(m).parts
      <3> DEFINE seen == mixer[m].seen
                 parts == mixer[m].parts \cap seen.legs
      <3>1. /\ mixer[m] \in MixerObjects /\ mixer[m].talking \subseteq mixer[m].parts
            /\ parts \subseteq Leg
        BY Zenon DEF MixerObjects
      <3>2. NotSeen \in Readings
        BY Zenon DEF NotSeen, Readings
      <3>3. CASE seen.stage = "nothing"
        <4>1. mixed(m) = [mixer[m] EXCEPT !.seen = NotSeen]
          BY <3>3, Zenon DEF mixed
        <4> QED BY <3>1, <3>2, <4>1, Zenon DEF MixerObjects
      <3>4. CASE seen.stage # "nothing"
        <4>1. mixed(m) = [mixer[m] EXCEPT !.parts = parts, !.talking = parts \ seen.quiet,
                                          !.seen = NotSeen]
          BY <3>4, Zenon DEF mixed
        <4> HIDE DEF seen, parts
        <4> QED BY <3>1, <3>2, <4>1, ZenonT(60) DEF MixerObjects
      <3> QED BY <3>3, <3>4, Zenon
    <2>2. mixer' = [mixer EXCEPT ![m] = mixed(m)] /\ UNCHANGED <<MIXERS, held>>
      BY <1>9, Zenon DEF Mix
    <2> QED BY <2>1, <2>2, Zenon
  <1> QED
    BY <1>1, <1>2, <1>3, <1>4, <1>5, <1>6, <1>7, <1>8, <1>9, Zenon DEF ConfNext

-----------------------------------------------------------------------------
INSTANCE FiniteSetTheorems

\* There are more numbers than legs, and the leg that creates has none yet.
LEMMA NumberIsFree ==
  ASSUME Typed, Placed
  PROVE  Numbered
  <1>2. ASSUME NEW l \in Leg, stage[l] = "creating", Unnamed = {} PROVE FALSE
    <2> DEFINE f == [x \in Leg |-> IF x = l THEN CONFERENCES ELSE mine[x]]
               T == {f[x] : x \in Leg}
               n == Cardinality(Leg)
    <2>1. mine[l] \notin Conference
      BY <1>2, Numbers, Zenon DEF Placed, Outside
    <2>2. Conference \subseteq T
      BY <1>2, <2>1, Zenon DEF Unnamed
    <2>3. f \in Surjection(Leg, T)
      BY Zenon DEF Surjection
    <2> HIDE DEF f, T
    <2>4. IsFiniteSet(T) /\ Cardinality(T) <= n
      BY <2>3, ConfAssumption, FS_Surjection, Zenon
    <2>5. n \in Nat
      BY ConfAssumption, FS_CardinalityType, Zenon
    <2>6. Cardinality(Conference) = n + 1
      <3> HIDE DEF n
      <3>1. 1 \in Int /\ n + 1 \in Int /\ ~ (1 > n + 1)
        BY <2>5
      <3> QED BY <2>5, <3>1, FS_Interval DEF Conference, n
    <2>7. Cardinality(Conference) <= Cardinality(T) /\ Cardinality(T) \in Nat
      BY <2>2, <2>4, FS_Subset, FS_CardinalityType, Zenon
    <2> HIDE DEF n
    <2> QED BY <2>4, <2>5, <2>6, <2>7
  <1> QED BY <1>2, Zenon DEF Numbered

-----------------------------------------------------------------------------
\* No conference exists at first, and everybody is out.
LEMMA ConfStarts ==
  ASSUME ConfInit
  PROVE  ConfInv
  <1> USE DEF ConfInit
  <1>1. NewConference \in Objects /\ NoUser \in Users /\ ~NoUser.present
    BY Zenon DEF NewConference, Objects, NoUser, Users
  <1>2. Typed /\ Placed
    BY <1>1, Zenon DEF Typed, Placed, Stages, Outside
  <1>3. NoMixer \in MixerObjects /\ NoMixer.talking = {}
    <2>1. NotSeen \in Readings
      BY Zenon DEF NotSeen, Readings
    <2> QED BY <2>1, Zenon DEF NewMixer, NoMixer, MixerObjects
  <1>4. Mixing
    BY <1>3, Zenon DEF Mixing
  <1> QED BY <1>2, <1>4, Zenon DEF ConfInv

\* The conferences, their users and their mixers keep their shape, and a user
\* is present only in a conference it holds: the type invariant of ConfBridge.
THEOREM ConfTypes == ConfSpec => []ConfTypeOK
  <1>1. ConfInit => ConfInv
    BY ConfStarts, Zenon
  <1>2. ConfInv /\ [ConfNext]_confVars => ConfInv'
    BY NumberIsFree, PlacedKept, MixingKept, Zenon DEF ConfInv
  <1>3. ConfInv => ConfTypeOK
    BY Zenon DEF ConfInv, Typed, Placed, Mixing, ConfTypeOK, Objects, Users, Outside, Inside
  <1> QED BY <1>1, <1>2, <1>3, PTL DEF ConfSpec
=============================================================================
