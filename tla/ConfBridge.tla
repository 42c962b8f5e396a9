------------------------------ MODULE ConfBridge ------------------------------
(***************************************************************************)
(* The conferences of asterisk-apps (confbridge.rs) and their audio mixers *)
(* (confbridge_mix.rs), for the legs that dial one conference name.        *)
(*                                                                         *)
(* Both are found by name in a global map, CONFERENCES and MIXERS, that is *)
(* looked up and filled in separate steps; a conference's own state is     *)
(* behind a lock that a join takes twice and a leave takes twice.  A leg   *)
(* runs the application in its own task and every mixer has a task that    *)
(* ticks, so each lock section is one action here and all of them          *)
(* interleave.  What enters the mix is kept as the set of legs a mixer     *)
(* adds up; the samples, the announcements, the menus' prompts and the     *)
(* video re-INVITEs are left out.                                          *)
(*                                                                         *)
(* wait_for_marked and end_when_marked_leaves are FALSE in every           *)
(* ConferenceSettings the program makes: the default leaves them so, and   *)
(* neither from_bridge_profile nor anything else sets them.  The blocks    *)
(* they guard cannot run, marked_count decides nothing else and no user    *)
(* ever waits, so all of that is left out.                                 *)
(***************************************************************************)
EXTENDS Naturals, FiniteSets

CONSTANTS Leg,          \* the channels that may enter the conference
          Admin,        \* the legs whose user profile is admin
          start_muted,  \* the legs whose user profile starts them muted
          max_members,  \* 0 for no limit
          Mixers,       \* names for ConferenceMixer objects, a bound
          MaxJoins,     \* bound on the joins
          MaxCommands   \* bound on the management commands

ASSUME ConfAssumption ==
  /\ IsFiniteSet(Leg)
  /\ Admin \subseteq Leg /\ start_muted \subseteq Leg
  /\ max_members \in Nat /\ MaxJoins \in Nat /\ MaxCommands \in Nat
  /\ "none" \notin Mixers

VARIABLES CONFERENCES,  \* the conference the name maps to, 0 for none
          conf,         \* the Conference objects, by number
          user,         \* the ConferenceUser of each leg in its conference
          stage,        \* how far each leg is in the application
          mine,         \* the Conference a leg holds a reference to
          MIXERS,       \* the mixer the name maps to, "none" for none
          mixer,        \* the ConferenceMixer objects
          held,         \* the mixer a joining leg was handed
          events        \* how many joins and how many commands there were

confVars == <<CONFERENCES, conf, user, stage, mine, MIXERS, mixer, held, events>>

Conference == 1..(Cardinality(Leg) + 1)

NewConference == [locked |-> FALSE, all_muted |-> FALSE]

NoUser == [present |-> FALSE, muted |-> FALSE]

\* A tick reads the conference before it locks the mixer: seen holds what it
\* read until it applies it.
NotSeen == [stage |-> "idle", legs |-> {}, quiet |-> {}]
NewMixer == [running |-> TRUE, parts |-> {}, talking |-> {}, seen |-> NotSeen]
NoMixer == [NewMixer EXCEPT !.running = FALSE]

participants(k) == {l \in Leg : mine[l] = k /\ user[l].present}

ConfInit ==
  /\ CONFERENCES = 0
  /\ conf = [k \in Conference |-> NewConference]
  /\ user = [l \in Leg |-> NoUser]
  /\ stage = [l \in Leg |-> "out"]
  /\ mine = [l \in Leg |-> 0]
  /\ MIXERS = "none"
  /\ mixer = [m \in Mixers |-> NoMixer]
  /\ held = [l \in Leg |-> "none"]
  /\ events = [joins |-> 0, commands |-> 0]

Command == /\ events.commands < MaxCommands
           /\ events' = [events EXCEPT !.commands = @ + 1]

Go(l, s) == stage' = [stage EXCEPT ![l] = s]

-----------------------------------------------------------------------------
(* exec and join_conference *)

\* get_or_create_conference looks the name up; only a failed lookup goes on to
\* create and insert, without looking again.
LookUp(l) ==
  /\ events.joins < MaxJoins
  /\ events' = [events EXCEPT !.joins = @ + 1]
  /\ stage[l] = "out"
  /\ mine' = [mine EXCEPT ![l] = CONFERENCES]
  /\ Go(l, IF CONFERENCES = 0 THEN "creating" ELSE "found")
  /\ UNCHANGED <<CONFERENCES, conf, user, MIXERS, mixer, held>>

\* Numbers of conferences that are gone: not in the map, and no leg's any more.
Unnamed == {n \in Conference : n # CONFERENCES /\ \A x \in Leg : mine[x] # n}

Create(l) ==
  /\ stage[l] = "creating"
  /\ LET k == CHOOSE n \in Unnamed : TRUE
     IN /\ conf' = [conf EXCEPT ![k] = NewConference]
        /\ CONFERENCES' = k
        /\ mine' = [mine EXCEPT ![l] = k]
  /\ Go(l, "found")
  /\ UNCHANGED <<user, MIXERS, mixer, held, events>>

\* The lock and size checks, under the read lock.  A refused leg still goes
\* through leave_conference.
CheckEntry(l) ==
  /\ stage[l] = "found"
  /\ LET k == mine[l]
         refused == \/ conf[k].locked /\ l \notin Admin
                    \/ max_members > 0 /\ Cardinality(participants(k)) >= max_members
     IN Go(l, IF refused THEN "leaving" ELSE "checked")
  /\ UNCHANGED <<CONFERENCES, conf, user, mine, MIXERS, mixer, held, events>>

\* The user is added under the write lock, muted where its profile says so or
\* where everybody but the admins is.
AddUser(l) ==
  /\ stage[l] = "checked"
  /\ user' = [user EXCEPT ![l] =
       [present |-> TRUE,
        muted |-> \/ l \in start_muted
                  \/ conf[mine[l]].all_muted /\ l \notin Admin]]
  /\ Go(l, "joined")
  /\ UNCHANGED <<CONFERENCES, conf, mine, MIXERS, mixer, held, events>>

\* get_or_create_mixer: a mixer found running is used, any other case goes on
\* to start one and to insert it over whatever the map holds by then.
FindMixer(l) ==
  /\ stage[l] = "joined"
  /\ IF MIXERS # "none" /\ mixer[MIXERS].running
     THEN held' = [held EXCEPT ![l] = MIXERS] /\ Go(l, "attaching")
     ELSE held' = held /\ Go(l, "starting")
  /\ UNCHANGED <<CONFERENCES, conf, user, mine, MIXERS, mixer, events>>

Unused == {m \in Mixers : /\ ~mixer[m].running /\ m # MIXERS
                          /\ mixer[m].parts = {}
                          /\ \A l \in Leg : held[l] # m}

StartMixer(l) ==
  /\ stage[l] = "starting"
  /\ Unused # {}
  /\ LET m == CHOOSE n \in Unused : TRUE
     IN /\ mixer' = [mixer EXCEPT ![m] = NewMixer]
        /\ MIXERS' = m
        /\ held' = [held EXCEPT ![l] = m]
  /\ Go(l, "attaching")
  /\ UNCHANGED <<CONFERENCES, conf, user, mine, events>>

\* add_participant, after it asked the driver for the leg's format; a leg is
\* added unmuted.
Attach(l) ==
  /\ stage[l] = "attaching"
  /\ mixer' = [mixer EXCEPT ![held[l]].parts = @ \cup {l},
                            ![held[l]].talking = @ \cup {l}]
  /\ held' = [held EXCEPT ![l] = "none"]
  /\ Go(l, "in")
  /\ UNCHANGED <<CONFERENCES, conf, user, mine, MIXERS, events>>

\* The channel hangs up; a kicked leg stays in the application until it does.
HangUp(l) ==
  /\ stage[l] = "in"
  /\ Go(l, "leaving")
  /\ UNCHANGED <<CONFERENCES, conf, user, mine, MIXERS, mixer, held, events>>

-----------------------------------------------------------------------------
(* leave_conference *)

\* The stage that follows, which carries whether a user was found and
\* should_destroy.
After(found, destroy) ==
  CASE found /\ destroy -> "detaching last"
    [] found /\ ~destroy -> "detaching"
    [] ~found /\ destroy -> "destroying"
    [] OTHER -> "gone"

\* The write lock, under which the user is removed.  A refused or kicked leg has
\* none, and empties the conference all the same when nobody is left.
RemoveUser(l) ==
  /\ stage[l] = "leaving"
  /\ user' = [user EXCEPT ![l] = NoUser]
  /\ Go(l, After(user[l].present, participants(mine[l]) \ {l} = {}))
  /\ UNCHANGED <<CONFERENCES, conf, mine, MIXERS, mixer, held, events>>

Without(m, ls) == [m EXCEPT !.parts = @ \ ls, !.talking = @ \ ls]

Detach(l) ==
  /\ stage[l] \in {"detaching", "detaching last"}
  /\ mixer' = IF MIXERS = "none" THEN mixer
              ELSE [mixer EXCEPT ![MIXERS] = Without(@, {l})]
  /\ Go(l, IF stage[l] = "detaching last" THEN "destroying" ELSE "gone")
  /\ UNCHANGED <<CONFERENCES, conf, user, mine, MIXERS, held, events>>

\* shutdown_mixer: the entry is taken out, its task and its readers aborted.
ShutdownMixer(l) ==
  /\ stage[l] = "destroying"
  /\ mixer' = IF MIXERS = "none" THEN mixer
              ELSE [mixer EXCEPT ![MIXERS] = NoMixer]
  /\ MIXERS' = "none"
  /\ Go(l, "removing")
  /\ UNCHANGED <<CONFERENCES, conf, user, mine, held, events>>

\* CONFERENCES.remove by name, whichever conference is there by now.
Leave(l) ==
  /\ stage[l] \in {"removing", "gone"}
  /\ CONFERENCES' = IF stage[l] = "removing" THEN 0 ELSE CONFERENCES
  /\ mine' = [mine EXCEPT ![l] = 0]
  /\ Go(l, "out")
  /\ UNCHANGED <<conf, user, MIXERS, mixer, held, events>>

-----------------------------------------------------------------------------
(* The management operations, which find the conference by its name: the    *)
(* application's public interface, which only its own tests call so far     *)

here == IF CONFERENCES = 0 THEN {} ELSE participants(CONFERENCES)

\* mute_user, unmute_user and toggle_mute.
ToggleMute(l) ==
  /\ Command
  /\ l \in here
  /\ user' = [user EXCEPT ![l].muted = ~@]
  /\ UNCHANGED <<CONFERENCES, conf, stage, mine, MIXERS, mixer, held>>

ToggleMuteParticipants ==
  /\ Command
  /\ CONFERENCES # 0
  /\ LET muted == ~conf[CONFERENCES].all_muted
     IN /\ conf' = [conf EXCEPT ![CONFERENCES].all_muted = muted]
        /\ user' = [l \in Leg |-> IF l \in here \ Admin
                                  THEN [user[l] EXCEPT !.muted = muted]
                                  ELSE user[l]]
  /\ UNCHANGED <<CONFERENCES, stage, mine, MIXERS, mixer, held>>

\* lock_conference, unlock_conference and toggle_lock.
ToggleLock ==
  /\ Command
  /\ CONFERENCES # 0
  /\ conf' = [conf EXCEPT ![CONFERENCES].locked = ~@]
  /\ UNCHANGED <<CONFERENCES, user, stage, mine, MIXERS, mixer, held>>

Kick(ls) ==
  /\ Command
  /\ ls # {}
  /\ user' = [l \in Leg |-> IF l \in ls THEN NoUser ELSE user[l]]
  /\ UNCHANGED <<CONFERENCES, conf, stage, mine, MIXERS, mixer, held>>

\* kick_user; kick_last is the same for the user that joined last.
KickUser(l) == l \in here /\ Kick({l})

KickAll == Kick(here \ Admin)

-----------------------------------------------------------------------------
(* run_ticks and mix_tick *)

\* conference_participant_flags: what the registered conference says, or
\* nothing when no conference has the name.
ReadFlags(m) ==
  /\ mixer[m].running /\ mixer[m].seen.stage = "idle"
  /\ mixer' = [mixer EXCEPT ![m].seen =
       [stage |-> IF CONFERENCES = 0 THEN "nothing" ELSE "flags",
        legs |-> here,
        quiet |-> {l \in here : user[l].muted}]]
  /\ UNCHANGED <<CONFERENCES, conf, user, stage, mine, MIXERS, held, events>>

\* Mutant: the mixer keeps the legs the conference no longer has.
mixed_kept(m) ==
  LET seen == mixer[m].seen
      heard == (mixer[m].talking \ seen.legs)
               \cup ((mixer[m].parts \cap seen.legs) \ seen.quiet)
  IN IF seen.stage = "nothing"
     THEN [mixer[m] EXCEPT !.seen = NotSeen]
     ELSE [mixer[m] EXCEPT !.talking = heard, !.seen = NotSeen]

\* Under the mixer's lock: legs the conference no longer has are dropped, the
\* others take its flags, and what is left talking is mixed.
mixed(m) ==
  LET seen == mixer[m].seen
      parts == mixer[m].parts \cap seen.legs
  IN IF seen.stage = "nothing"
     THEN [mixer[m] EXCEPT !.seen = NotSeen]
     ELSE [mixer[m] EXCEPT !.parts = parts, !.talking = parts \ seen.quiet,
                           !.seen = NotSeen]

Mix(m) ==
  /\ mixer[m].running /\ mixer[m].seen.stage # "idle"
  /\ mixer' = [mixer EXCEPT ![m] = mixed(m)]
  /\ UNCHANGED <<CONFERENCES, conf, user, stage, mine, MIXERS, held, events>>

-----------------------------------------------------------------------------
ConfNext ==
  \/ \E l \in Leg :
       \/ LookUp(l) \/ Create(l) \/ CheckEntry(l) \/ AddUser(l)
       \/ FindMixer(l) \/ StartMixer(l) \/ Attach(l) \/ HangUp(l)
       \/ RemoveUser(l) \/ Detach(l) \/ ShutdownMixer(l)
       \/ Leave(l) \/ ToggleMute(l) \/ KickUser(l)
  \/ ToggleMuteParticipants \/ ToggleLock \/ KickAll
  \/ \E m \in Mixers : ReadFlags(m) \/ Mix(m)

\* Every mixer has an interval task of its own, which nothing blocks.
ConfFairness == \A m \in Mixers : WF_confVars(ReadFlags(m) \/ Mix(m))

ConfSpec == ConfInit /\ [][ConfNext]_confVars /\ ConfFairness

-----------------------------------------------------------------------------
ConfTypeOK ==
  /\ CONFERENCES \in Conference \cup {0}
  /\ conf \in [Conference -> [locked : BOOLEAN, all_muted : BOOLEAN]]
  /\ user \in [Leg -> [present : BOOLEAN, muted : BOOLEAN]]
  /\ mine \in [Leg -> Conference \cup {0}]
  /\ MIXERS \in Mixers \cup {"none"}
  /\ held \in [Leg -> Mixers \cup {"none"}]
  /\ \A l \in Leg : user[l].present => mine[l] # 0
  /\ \A m \in Mixers : mixer[m].talking \subseteq mixer[m].parts

\* A leg that leaves, starts muted, is muted or is kicked is out of the mix some
\* ticks later, unless it is let talk again or no conference has the name (mix_tick
\* takes the flags and the participants anew on every tick).
MayTalk(l) == l \in here /\ ~user[l].muted
Heard(l, m) == mixer[m].running /\ l \in mixer[m].talking
SilencedIsUnheard ==
  \A m \in Mixers, l \in Leg :
    (Heard(l, m) /\ ~MayTalk(l))
      ~> (~Heard(l, m) \/ MayTalk(l) \/ CONFERENCES = 0)

\* A tick drops no leg that is in the conference (mix_tick: "Drop legs no longer
\* in the conference").
TickKeepsJoined ==
  [][\A m \in Mixers :
       Mix(m) => mixer[m].parts \cap here \subseteq mixer'[m].parts]_confVars

\* Once every leg is out and the conference is gone no mixer runs
\* (leave_conference: "stop the mixing task and abort all readers so no task or
\* socket reference outlives the conference").
MixerEndsWithConference ==
  (CONFERENCES = 0 /\ \A l \in Leg : stage[l] = "out")
    => \A m \in Mixers : ~mixer[m].running
=============================================================================
