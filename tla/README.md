# A TLA+ model of Rustisk

Rustisk (`asterisk-rs`) is a PBX written in Rust on the tokio runtime. This
directory holds a formal model of the parts of it where concurrency, timers or
an unreliable network decide whether it works: the SIP transaction layers,
inbound calls, outbound legs, the Dial application, registration, conferences,
the manager interface's connections, and SRTP. TLC checks the models on small
instances. TLAPS proves the main safety results of the server and the
client transactions, of inbound calls, outbound legs and Dial, of registration, of
the manager interface and of SRTP for every size of them, and the types of the conferences.

`EH` below stands for `src/crates/asterisk-sip/src/event_handler.rs`; other
paths are relative to `src/crates/`.

## 1. The system

### 1.1 Inventory

| Crate | Lines | What it holds | Here |
|---|---:|---|---|
| asterisk-sip | 47k | SIP stack, transactions, dialogs, event handler, SDP, RTP, registrar | core |
| asterisk-apps | 35k | dialplan applications: Dial, ConfBridge, Queue, ... | Dial, ConfBridge |
| asterisk-core | 13k | channels, channel store, bridges, dialplan execution, scheduler | as the call path uses it |
| asterisk-ami | 6k | manager interface; Originate | connections, Originate's leg |
| rustisk-cli | 3k | the server's main: wiring and the SIP event consumer | the consumer |
| asterisk-res | 27k | AGI, parking, realtime, music on hold, ... | no |
| asterisk-funcs | 12k | dialplan functions | no |
| pjsip-shim | 10k | a C ABI for the PJSIP test programs | no |
| asterisk-codecs, -formats | 12k | signal processing, file formats | no |
| asterisk-channels | 7k | IAX2, Local, WebSocket and other drivers | Local under Dial |
| asterisk-ari | 6k | REST interface | no |
| asterisk-cdr | 3k | call records | no |
| asterisk-config, -types, -utils | 5k | INI parser, data types, tools | no |
| asterisk-test-framework, -integration-tests | 34k | tests, read as statements of intent | no |

`PROJECT.json` lists 36 components with their status, the source lines of every
definition, and 40 hazards at the lines where they bite.

### 1.2 How the parts interact on a call

One task runs the stack loop (`asterisk-sip/src/stack.rs`, `run`). It waits in
`select!` for a datagram or for 50 ms of silence, in which case it runs the
timers. It keeps the transactions in maps and pushes events into a bounded
queue. When the queue is full, the loop itself waits.

A second task (`rustisk-cli/src/main.rs`) consumes the events and awaits one
handler after the other. The handlers (`EH`) keep two maps keyed by Call-ID:
`callid_map` (to a channel) and `call_states` (to a `CallState` behind a mutex).

An INVITE makes the handler spawn a **per-call task**. It runs the dialplan on
a *detached copy* of the channel. The global channel store holds another copy,
and each reader looks at one of them, or at both. The task answers through
`record_invite_final`, which is where it races with a CANCEL that the stack
loop handles.

`Dial()` and AMI `Originate` create an outbound channel, let the driver send
the INVITE, and poll the stored channel. The responses are handled by the
event consumer. A leg that is given up keeps its signalling state for a grace
period, so that an answer that crosses the CANCEL can be acknowledged and ended.

Around the calls stand parts that share no state with each other. The
registrar keeps the bindings of an address of record, and the outbound
registration agent keeps one alive elsewhere. A conference and its mixer are
found by name in two global maps, and every leg and every mixer tick is a task
of its own. The manager interface runs a task per connection and a writer per
client. SRTP is a context per direction that a sender and a receiver advance
on their own.

Nothing is persisted, so there is no crash recovery to model.

## 2. The modules

| Module | Models | Source |
|---|---|---|
| `SipServer` | server transactions, response cache, stack loop, event queue, the answering side of the transaction user (TU) | stack.rs, transaction/mod.rs, main.rs |
| `InviteService` | what that layer promises its users: one answer per session | abstract specification |
| `InboundCall` | inbound calls that share a Call-ID | EH, dial.rs and pbx as the apps behave |
| `OutboundLeg` | one outbound leg and its owner | EH, channel_driver.rs, dial.rs, actions.rs, session, dialog |
| `SipClient` | client transactions, their timers and what their owner hears | stack.rs, transaction/mod.rs |
| `DialApp` | Dial() over several destinations, SIP, Local or without a driver, and the bridge | dial.rs, local.rs, bridge/lifetime.rs |
| `Registration` | the registrar and a registering agent, over a network | registrar.rs, outbound_registration.rs |
| `ConfBridge` | conferences and their mixers | confbridge.rs, confbridge_mix.rs |
| `AmiServer` | the connections of the manager interface | asterisk-ami server.rs, session.rs, actions.rs |
| `Srtp` | packet index, rollover counter, session keys, replay window | srtp.rs |
| `MCCalls`, `MCAccess`, `MCShared` | TLC: modules that share no state, side by side | |
| `SipServerProofs` | TLAPS: types of `SipServer`, nothing delivered twice, events in order | |
| `SipServerAnswers` | TLAPS: one answer per session, the refinement of `InviteService`, the end of a 2xx is reported | |
| `InboundProofs` | TLAPS: nothing of an inbound call leaks, only an answered one is up, every INVITE gets its final and every answered dialog its end | |
| `LegProofs` | TLAPS: the BYE of a leg waits for the ACK, an acknowledged leg is ended, nothing of it leaks, one retry per challenge | |
| `DialClientProofs` | TLAPS: the fork is resolved, BUSY is unanimous (`DialApp`); a request has one outcome (`SipClient`) | |
| `ConfProofs` | TLAPS: types of `ConfBridge` | |
| `AccessProofs` | TLAPS: the count of unauthenticated connections is exact (`AmiServer`); no packet is accepted twice, no index used twice, no key stream of `PureRustSrtp` used twice, what arrives in time is accepted (`Srtp`) | |
| `RegistrationProofs` | TLAPS: the contact limit holds, a device that takes itself for registered is bound | |

`InboundCall` uses the transaction layer only through what `InviteService`
promises: the first final recorded for an INVITE is the one final it gets
(`tx`, `MayRecord`). `SipServer` is shown to implement `InviteService`, by TLC
and by proof, so the two modules compose through the abstract specification.

### 2.1 SipServer

State: `stxn` and `ntxn` are `invite_server_txns` and `non_invite_server_txns`;
`cache` is `invite_final_cache`; `loop`, `sleep` and `outbox` are the program
counter of the loop, the age of the current `select!` sleep, and the events
the running handler still has to emit; `events` is the bounded queue; `tu` is
what the TU does with each session. `wire`, `inst` and `since` are histories.

| Action | Code |
|---|---|
| `ReplayInvite`, `RecvInvite` | `handle_request` for an INVITE: cache hit, repeated, new |
| `RecvAck2xx`, `RecvAckNon2xx`, `RecvAbsorbed` | `handle_request` for an ACK, and what is dropped |
| `RecvCancel` | `handle_cancel_request`: 200 or 481 to the CANCEL, 487 to the INVITE, event |
| `RecvRequest` | `handle_request` for any other method |
| `TimerPass`, `EmitEvent`, `Reap` | `handle_timers`: timers G, H, I, J; the events; the removal |
| `DeliverEvent` | the consumer takes an event; it answers the requests it answers inline |
| `record_invite_final`, `SendFinal` | `record_invite_final`, then the send outside the lock |
| `Tick` | time passes |

Datagrams are chosen freely, so the peer may send, lose, repeat, delay or
reorder anything. A sent response is added to `wire`. Every INVITE has a Call-ID: without one
`new_inbound` makes no session and no event is emitted (stack.rs:852).

`sleep` restarts with every iteration of `select!`, as the code's `sleep(50 ms)` does (stack.rs:764), so
`TimerPass` is possible only after a whole interval without a datagram. Nothing in the module makes such a
pause happen; the properties that need one name it (`TrafficPauses`).

### 2.2 InboundCall

All the state of one Call-ID: the two maps, the mutex of each `CallState`, the
session state, both copies of each channel, the media and NOTIFY
registrations, and the program counters of the consumer, of the per-call task
and of the dialplan. A handler that awaits (a lock, a send) is split into
actions at the await and nowhere else. Two handlers take several locks one after the other without an
await, and are one step here. `HandleCancel` tests the session (EH:1890) and later empties the maps (EH:1910); in between
the session cannot become Established, because a CANCEL is announced only after its 487 was recorded, and
`record_invite_final` refuses a 200 from then on. `Send200` sets the session Established and then the stored channel Up
(EH:1099, EH:1113); a BYE handled in between would find the session Established and the channel not yet Up.

| Actions | Code |
|---|---|
| `PeerInvite`, `PeerCancel`, `PeerAck`, `PeerBye`, `Retransmit`, `AckTimeout` | the peer and the layer below |
| `RejectInvite`, `AcceptInvite`, `AllocFails`, `StartCall` | `handle_incoming_invite` |
| `RejectBye`, `AcceptBye`, `LookupBye`, `FinishBye` | `handle_bye` |
| `HandleCancel`, `HandleAckTimeout` | `handle_cancel`, `handle_invite_ack_timeout` |
| `AppAnswers`, `AppReturns`, `NextPriority`, `PbxEnds` | the dialplan on its channel copy |
| `SelectAnswered`, `SelectEnded`, `SelectTimeout`, `Expire` | the per-call task's `select!` and its 30 s branch |
| `StillActive`, `Record200`, `Send200`, `Send200Fails`, `Watchdog`, `PbxJoined` | the answer, and the wait for the end |
| `Teardown`, `BuildBye`, `SendBye`, `RecordFail`, `SendFail`, `Finalize` | the teardown branches |
| `CleanupPoll`, `CleanupDeadline` | the cleanup task |

### 2.3 OutboundLeg

State: the owner's program counter, the stored channel, `held` (which of the
five registries still hold the leg), `cs` (the `CallState`: session state,
CSeq, dialog CSeq, `abandoned`) with its mutex, the consumer, the event queue, the
client transactions, the running grace periods, and the callee with the network.

| Actions | Code |
|---|---|
| `SendInvite`, `RegisterCallId`, `RegisterSession`, `RegisterNotify`, `SyncState` | `driver.call()` and the owner's copy of the state |
| `SeesAnswer`, `SeesRefusal`, `GivesUp`, `BridgeEnds` | the owner's polling loop, and the end of the bridge or application |
| `Lookup`, `Cancel`, `Preserve`, `Release`, `EndCall` | `cancel_or_bye_outbound_leg`, `release_outbound_leg`, `release_originate_leg` |
| `TakeResponse`, `MatchResponse`, `Challenged`, `Provisional`, `Answered`, `Failed` | `handle_response` |
| `TakeBye`, `AcceptBye`, `FinishBye`, `TakeTimer`, `Reap` | `handle_bye`, the timer events, the grace-period task |
| `Arrive`, `TimerB`, `TimerF` | the client transactions |
| `GetsInvite`, `Proceeds`, `Rings`, `Redirects`, `Challenges`, `Answers`, `Refuses`, `GetsCancel`, `GetsAck`, `GetsBye`, `HangsUp`, `Repeats` | the callee (external) |

Responses are told apart as `handle_response` does: a provisional one without a To tag ("100") moves the
transaction and makes no dialog; "180" stands for one with a tag, which makes the dialog and may set the channel Ringing
(180 and 183 do, 181 does not); 401 and 407 are a challenge; 486 sets the channel Busy, any
other 4xx to 6xx flags it, and a 3xx does nothing to it (EH:1546). A challenge is answered, or fails the leg: because
the retries are used up, there are no credentials, or the retry could not be sent.

The constant `Env` says which optional behaviours the surroundings show. Most
of the known defects need one of them, so a run can tell what holds without it
from what breaks with it.

### 2.4 SipClient

State: for each branch the transaction (`InviteClientState` or
`NonInviteClientState`, the age of its timers, the retransmission interval), the
request's own progress, the event under way, and the histories `told` (what the
owner heard) and `final` (what the peer said). `send_request`, `SendOk` and
`SendErr` are `send_invite` and `send_request` with the send that may fail after the
transaction was entered; `handle_response` is the stack's, with every copy of a
final emitted; `handle_timers`, `SendAgain`, `expire_timers`, `EmitTimeout` and
`Reap` are one pass of the timers in the code's order.

### 2.5 DialApp

State: where Dial is, the leg its loops are at, `leg` (`DialLegState`), Dial's own
copy and the store's copy of each leg's channel, the phone or the ;2 dialplan at the
far end, what the caller was told, the `BridgeLifetime`, DIALSTATUS, and the
dialplan of a redirected callee.

| Actions | Code |
|---|---|
| `CallLeg`, `SyncLeg` | `exec`: registration, `driver.call()`, and the copy of its state to the store |
| `PassAnswered`, `Pass`, `NoneTrying`, `DialTimeout` | `wait_for_answer` |
| `HangUpLeg` | the loop over the losing legs, and `hangup_all_legs` |
| `StartBridge`, `BridgeDeadline`, `BridgeEnds`, `RunRedirected`, `ByeCallee` | `bridge_channels` |
| `Rings`, `Answers`, `Refuses`, `CalleeHangsUp`, `CallerTold` | what `EH` writes to the store for the far ends |
| `Answers`, `LocalEnds`, `LocalLeaves` | the task of a Local ;2 half |
| `RedirectCallee`, `RedirectedEnds` | AMI Redirect, and the dialplan it starts |

A destination whose technology has no driver is registered and set Dialing, and nothing is called (dial.rs:1269).
A refusal with a 3xx leaves the store untouched, as in `OutboundLeg`. `RunRedirected` takes the global dialplan as given: it is
set before the stack starts (main.rs:2029) and only ever replaced.

`OutboundLeg` models the signalling of one leg in full; `DialApp` keeps of a SIP leg what
reaches the store and whether the phone still rings or talks.

### 2.6 Registration

The registrar (`handle_register` with its three forms: refresh or add, remove,
wildcard, the last one refused with 400 unless its Expires is 0; `is_expired`; the bounds on the expiration; the 403 of
`EH` for a source or a user that may not register, `RegisterForbidden`) and one agent
(`tick`, `on_response`, `build_unregister`) exchange requests and answers that
are delayed by up to `MaxDelay`, lost, or repeated. Other devices register and
unregister at the same address of record, several contacts in one request
included; what they ask for is the constant `OtherRequests`. The list of bindings is
scanned as the code scans it (`retain` is `Vec::retain`). The agent runs against any registrar policy: authentication or not,
`remove_existing` or not, a proxy that fails. Whether a refused authentication is final is the constant
`auth_rejection_permanent`. A challenge that cannot be parsed is a failure to the agent like an answer of 5xx, and is not told apart from it.

### 2.7 ConfBridge

Each lock section is an action: `LookUp` and `Create` of the conference,
`CheckEntry` (read lock) and `AddUser` (write lock), `FindMixer`, `StartMixer` and
`Attach`; then `RemoveUser`, `Detach`, `ShutdownMixer`, `Leave`. A mixer tick reads the conference (`ReadFlags`) and
later applies what it read (`Mix`). The mix is the set of legs that enter it.

Only the user profile the program has is modelled. `wait_for_marked` and `end_when_marked_leaves` are FALSE by default
(confbridge.rs:790-791) and are not taken from a bridge profile (805-818), so nobody ever waits for a marked user, and the
blocks that act on the two flags (1368-1374, 1623-1639) are left out.

The management operations are `ToggleMute`, `ToggleMuteParticipants`, `ToggleLock`,
`KickUser` and `KickAll` (confbridge.rs:1697-1948). The program reaches them only through `execute_menu_action`, which
nothing but tests calls so far. `MaxCommands` bounds how many of them come; with 0 the module is the program as it is wired today.

### 2.8 AmiServer

Each connection is at a point of `handle_connection`: `Gate` and `Refuse` (the
counter and the limit), `Open` or `BannerFails`, `LoopTop` (which gives the slot
back), `ReadAction` with `Dispatch`, `AuthTimeout`, `Answer`, `AnswerTimeout`,
`Cleanup`, `Close`. `ForwardEvent` and `Write` are its event task and its writer.
The client chooses what to send, when to read and when to leave. With `auth_timeout = 0` there is no deadline (server.rs:372).

### 2.9 Srtp

One sender and one receiver with their contexts, both windows, and a history of
what was sent and accepted. Any sent packet may arrive at any time, any number of
times or never, and so may damaged ones. Both back ends (`PureRustSrtp`: AES-CM with HMAC, and
`AeadGcmSrtp`: AES-GCM) keep this state the same way; encryption is the index a packet was encrypted
under, and a tag verifies when the receiver works with that index.

They differ in their keys, and `Backend` says which one is meant. `PureRustSrtp` derives one session key for RTP and another for
RTCP (srtp.rs:365). `AeadGcmSrtp` uses the master key and salt for both (srtp.rs:1065) and builds its IVs for both in the same way
(1082-1118). What protects a packet is the pair of session key and index (`Keystream`).

## 3. What the runs check

`tlc -config <cfg> <module>` in this directory repeats a run.

### 3.1 Runs that pass

| Run | Distinct states | Shows |
|---|---:|---|
| `server_race` | 262,213 | One INVITE identity with up to two sessions, one other request. CANCEL, answers, failures, ACKs, retransmissions and timers in every order. One answer per session (`SingleFinal`); events of a session in order, also through a full queue (`EventOrder`); what the TU answered is not delivered again before Timer H or J (`NoSecondDelivery`); the layer implements `InviteService` (`ImplementsService`). |
| `server_live` | 27,264 | If the traffic pauses for a timer interval again and again, every transaction with a final is reaped (`FinalIsReaped`), and so is every CANCEL and every request of a method the consumer answers, beside one of a method it drops (`AnsweredIsReaped`); a 2xx is retransmitted until its ACK, or Timer H, was reported to the TU (`AcceptedEndIsReported`); every session reaches the TU through a queue of capacity one (`SessionIsDelivered`). |
| `calls` | 43,912 | *Inbound:* one call under every order of CANCEL, BYE, missing ACK, 30 s timeout, RTP watchdog, Answer() and dialplan end: the INVITE has its final (`InviteIsAnswered`), an answered dialog is ended (`DialogIsEnded`), a cancelled call is never shown as up (`OnlyAnsweredIsUp`), Answer() wins over a simultaneous end (`AnswerWins`), every end releases the call's resources (`EndIsReleased`). *Dial:* two destinations of any kind; no losing phone rings or talks once the bridge starts, and none once Dial is through (`ForkIsResolved`); BUSY only if all were busy (`BusyMeansAllBusy`); when a party goes, also before the bridge is registered, the call ends for both (`PartyEndsCall`). *Client:* no timeout is reported after a final (`NoTimeoutAfterFinal`), every request has an outcome (`OutcomeIsReported`), every transaction leaves the table (`ClientIsReaped`). |
| `inbound_shared` | 990,098 | Two INVITEs with one Call-ID overwrite and remove each other's map entries, and still nothing outlives its task (`NoLeak`). |
| `leg_dial` | 30,543 | A Dial() leg, with a network that duplicates, a callee that may proceed without a tag and a Dial that may give up: every answer is acknowledged (`AnswerIsAcked`) and, once acknowledged, ended before it is forgotten (`AckedIsEnded`); a waiting Dial notices it (`AnswerEndsWait`); nothing stays registered (`NoLeak`). |
| `leg_originate` | 151,687 | An Originate leg with up to two digest retries, BYEs, unusable SDP, a transport that refuses the INVITE: no BYE before the ACK (`AckBeforeBye`), one retry per challenge (`OneRetryPerChallenge`); when the callee's last word is a refusal of 4xx or above, or a challenge that is not answered, Originate stops waiting (`RefusalEndsWait`; a 3xx goes unnoticed, 3.3). |
| `access` | 90,249 | *AMI:* two connections around a limit of one; the lock-free counter is exact and the limit holds (`SlotAccounting`), and a connection that was let in logs in or is closed, even if its client never reads (`PreAuthIsBounded`, for an `auth_timeout` above 0). *SRTP:* a stream that wraps; no packet is accepted twice (`AcceptedOnce`), no key stream protects two packets, RTP or RTCP, with the keys of `PureRustSrtp` (`KeystreamFresh`), a genuine packet within the window of what was accepted is accepted the first time it arrives (`InTimeIsAccepted`). |
| `shared` | 156,187 | *Conference:* who was kicked or muted leaves the mix (`SilencedIsUnheard`). *Registration:* the contact limit holds (`ContactsBounded`); the agent calls itself registered only while it is bound (`RegisteredIsBound`); an attempt ends registered or given up (`RegistrationSettles`). |

`calls`, `access` and `shared` each check modules that share no state side by side: a behaviour
exercises one module and leaves the others in an initial state. The states are the sum of
the modules' states, not their product, and a property of one module is checked over
exactly that module's behaviours.

The `TypeOK` of the call modules is checked in `server_race`, `inbound_shared` and
`leg_dial`. The type invariants of the other modules (`ClientTypeOK`, `DialTypeOK`,
`RegTypeOK`, `ConfTypeOK`, `AmiTypeOK`, `SrtpTypeOK`) hold on the instances above; add them to
the cfg to see it. Each property of these runs has a mutant in `PROJECT.json`: a
plausible slip in the code (a dropped guard, a lock not held across a send, a
missing cleanup) under which TLC reports that property violated. The mutants
stand beside the definition they change and are marked `Mutant:`.

### 3.2 Runs that find a disagreement with the code's own comments

| Run | Property | What happens |
|---|---|---|
| `server_cancelled` | `NoSecondCall` | `handle_cancel_request` (stack.rs:971) does not cache its 487. An INVITE retransmission after Timer I starts a second call, which the comment at stack.rs:172 rules out. |
| `inbound_timeout` | `TimeoutIsFinal` | The 30 s branch (EH:1058) waits for the lock that a running app holds. The INVITE stays open as long as the app runs. |
| `leg_tombstone` | `AnswerIsAcked` | Originate (actions.rs:850) releases at once the state that was kept for a crossing 200. The 200 is neither acknowledged nor ended. |
| `dial_redirected` | `RedirectedIsKept` | `bridge_channels` starts the dialplan of a callee that AMI redirected, and then sends it a BYE like any other (dial.rs:1988), which the comment at dial.rs:1982 rules out. |

### 3.3 Further counterexamples

These use a property of the modules with other constants. They are the boundary
of what the passing runs claim. Constants not named are as in the run given.

| Property | Start from | Change | Where it bites |
|---|---|---|---|
| `SingleFinal` | `server_race` | `LateTU = TRUE` | stack.rs:708: `record_invite_final` says yes when the transaction is gone |
| `FinalIsReaped` without its premise `TrafficPauses` | `server_live` | `Req = {}`, `Answerable = {}` | stack.rs:764: each iteration restarts the 50 ms sleep, so steady traffic starves the timers |
| `AcceptedEndIsReported` | `server_live` | `Src = {s1, s2}`, `MaxInst = 2` | stack.rs:845: a retransmission from a new address overwrites the transaction |
| `RequestIsReaped` | `server_live` | `Call = {}` | main.rs:2321: a request nobody answers keeps its transaction for ever |
| `InviteIsAnswered` | `calls` | `MaxInvites = 2` | EH:1898: handlers find the session by Call-ID alone |
| `SessionIsKept` | `calls` | `MaxInvites = 2` | EH:928: a second INVITE replaces the session of a live call |
| `EndIsReleased` | `calls` | `Deaf = TRUE` | dial.rs:1540: a waiting Dial() polls only its own channel copy |
| `NoInviteAfterAbandon` | `leg_dial` | `Env = {"abandon", "challenge"}`, `MaxAuthAttempts = 1` | EH:1415: a 401 that crosses the CANCEL is retried |
| `AnswerIsAcked` | `leg_dial` | `Env = {"challenge", "early"}`, `MaxAuthAttempts = 1` | EH:376: the dialog keeps the CSeq of the first INVITE |
| `AnswerIsAcked` | `leg_dial` | `Env = {"slow"}` | transaction/mod.rs:201: Timer B also runs in Proceeding |
| `AnswerEndsWait` | `leg_dial` | `Env = {"fast"}` | dial.rs:1255: the owner's Dialing overwrites Up |
| `AnswerEndsWait` | `leg_dial` | `Env = {"hangup"}` | dial.rs:1587: answer and BYE between two polls |
| `AckedIsEnded` | `leg_dial` | `Env = {"abandon", "reorder"}` | session/mod.rs:320: a late 180 sets an Established session back |
| `OneRetryPerChallenge` | `leg_originate` | `Env = {"challenge", "early", "dup"}` | EH:376: the dialog a 180 made keeps the CSeq of a challenged INVITE, so a repeated 401 of it matches again |
| `DialogIsEnded` | `calls` | `Fails = {"200"}`, `Deaf = TRUE` | EH:1095: the send of a recorded 200 fails, Timer G delivers it all the same, and the call is torn down without a BYE |
| `RefusalEndsWait` | `leg_dial` | `Env = {}` | dial.rs:1591: a leg refused with anything but 486, or by Timer B, counts as ringing until the dial timeout |
| `RedirectEndsWait` | `leg_dial` | `Env = {}` | EH:1546: a 3xx leaves the channel as it is, and Dial waits until its timeout |
| `RedirectEndsWait` | `leg_originate` | `Env = {}`, `MaxAuthAttempts = 0` | EH:1546: the same for Originate, whose comment says that a rejection or failure ends the wait (actions.rs:825) |
| `NoLeak` | `leg_dial` | `Env = {"unsent"}` | dial.rs:1266: a leg whose INVITE could not be sent is HungUp, and the cleanup skips such legs |
| `LocalAnswerIsSeen` | `DialApp`, `DialSpec` | `Destinations = 1` | local.rs:312: ;2 answers before Dial has written ;1's state, the callback leaves a ;1 that is Down alone, and Dial waits until its timeout |
| `RefusalIsAbsorbed` | `calls` | | stack.rs:780: every copy of a refusal is emitted, though transaction/mod.rs:205 says Timer D absorbs them |
| `LogoffIsAnswered` | `access` | | server.rs:483: Logoff clears `authenticated`, so its answer races a login deadline that has passed |
| `MixerEndsWithConference` | `shared` | | confbridge.rs:1660: a leg that looked the conference up before it was destroyed starts a mixer after it |
| `TickKeepsJoined` | `shared` | | confbridge_mix.rs:387: a tick that read the conference before a leg joined drops that leg from the mixer it has been attached to since ("Drop legs no longer in the conference") |
| `KeystreamFresh` | `access` | `Backend = "AeadGcmSrtp"` | srtp.rs:1065: one key and salt for both streams, so RTP index i and SRTCP index i share a key stream |
| `ExpiredIsRemoved` | `shared` | | registrar.rs:137: `purge_expired` has no caller, so expired bindings stay until their URI registers again |
| `AcceptedEndIsReported` | `server_live` | `MaxInst = 2` | stack.rs:845: a repeated ACK of the first session's refusal acknowledges the second session's 2xx |

### 3.4 Bounds, and why they are enough

- **Time.** Durations are counted in ticks. In `server_live` the loop's interval is two of them, so that a datagram
  can arrive within a sleep and restart it; in `server_race`, which has no liveness, it is one. The
  values keep the order that matters (T1 < T2, Timer I < Timer H), so a timer
  can be before, at and after its limit, and a retransmission interval doubles
  and meets its cap. `MaxAge` is the largest of them; counting further would
  change no comparison.
- **Sessions.** `MaxInst = 2` is the first value at which a late
  retransmission can create a second session. Different INVITEs share only the
  loop and the queue, and a queue of capacity one with one INVITE and one
  request is already contended. The proofs cover every number of both.
- **INVITEs per Call-ID.** Two are enough for one to overwrite, remove or
  use the map entries of the other, which is the only way they interact.
- **Network.** `MaxNet = 2` lets a message be overtaken or repeated. Datagrams
  to the server in `SipServer` are not bounded at all.
- **Retries.** `MaxAuthAttempts = 2` is the code's MAX_OUTBOUND_AUTH_ATTEMPTS.

- **Destinations.** Two, each SIP, Local or without a driver, are enough for a winner and a loser that
  answer, fail and are hung up in every order. The proofs cover any number.
- **Client transactions.** They share nothing but the loop, so one branch, of either kind.
  Timer B outlasts three retransmissions, so the interval doubles and meets T2.
- **Registration.** The agent, two other devices and one contact allowed: every
  registration evicts or is refused. A message is delayed by up to one unit. What matters of the
  90% refresh is the slack it leaves, and `RegisteredIsBound` needs
  `RefreshPoint + 3 * MaxDelay` to be less than what the registrar grants: a request, a challenge and its answer, and
  one more delivery fit before the binding lapses. The bound is exact: with `RefreshPoint = 2` and the rest
  as in the run, where the two sides are equal, TLC finds a violation. With `MaxNet = 2` (two messages under way in each
  direction) and no joins the composition has 581,410 states and the same properties hold; the run keeps 1 for time.
- **Conference.** Two legs, one of which starts muted, and two mixers, with two joins and one command: enough for a leg to
  leave and come back while another is in between two locks, for a leg to be kicked or muted between the two halves of a
  tick, and for a second mixer to start beside the first.
- **AMI.** Two connections for a limit of one, so one is refused or not as the other
  comes and goes; a queue of capacity one is full after one line. The proof covers any number.
- **SRTP.** A sequence space of 8 with a window of 3 keeps the order of the real ones
  (2^16 and 128): the window is less than half the space. Nine packets that start at 0, 5
  or 7 wrap after eight, three or one of them. The proofs cover every size.

Symmetry is not used: the instances have one call each, or an order among them.

Deadlock is checked in the `SipServer` runs. The other modules stop when
their calls or their bounds are over, and say `CHECK_DEADLOCK FALSE`.

### 3.5 Fairness

- `SipServer`: weak fairness of time, of the handler's own steps and of the
  consumer, because tokio polls every ready task. Strong fairness of
  `TimerPass`, because `select!` polls its branches in random order, so a sleep
  that completes again and again is taken in the end. That it does complete is not assumed of the code: a
  datagram restarts it, and `TrafficPauses` is a premise of the properties that need the timers. No fairness of the peer or of
  the TU's decisions.
- `InboundCall`: weak fairness of the consumer and of the per-call task. Strong
  fairness of `Expire`, which waits for a FIFO mutex. A dialplan whose channel
  was hung up unwinds, and one that only goes from app to app ends
  (PBX_MAX_ITERATIONS). Nothing makes a peer act or an app return.
- `OutboundLeg`: weak fairness of the consumer, the timers, the grace period and
  the owner's own steps, except for giving up and for the end of the call, which
  are decisions. A datagram that is repeated until answered arrives (strong
  fairness of `Arrive` without duplication). The callee receives what was sent
  to it and retransmits its finals, but need not say anything.
- `SipClient`: weak fairness of time, of the loop's timer pass and of its emissions. The peer owes
  nothing. The datagrams of an instance are finite, so the restarted 50 ms sleep (3.3) does not bite.
- `DialApp`: weak fairness of Dial's own task, whose loops poll, and of the end of a Local ;2 task.
  Phones, parties and the dial timeout owe nothing.
- `Registration`: the owner calls `tick` and time passes. The network owes nothing.
- `ConfBridge`: weak fairness of each mixer's interval task.
- `AmiServer`: weak fairness of the connection's task and of the deadline; strong fairness of
  the two `select!` branches that wait for the deadline, which are ready again and again beside
  a flood of input. Clients owe nothing.

## 4. What is proved

All proofs are checked by `tlapm` to the last leaf. Those about `SipServer` hold for any sets of
INVITEs, requests and source addresses, any number of sessions, any queue
capacity and any durations that satisfy its two assumptions:
`Durations` (durations are positive, T1 <= T2, none exceeds `MaxAge`) and
`Sets` (`Answerable` is a subset of `Req`, INVITEs are not other requests, there is a source).

| Theorem | States |
|---|---|
| `TypeCorrect` (SipServerProofs) | `Spec => []TypeOK` |
| `NothingDeliveredTwice` (SipServerProofs) | if there is one source address: `Spec => NoSecondDelivery` |
| `EventsInOrder` (SipServerProofs) | `Spec => []EventOrder` |
| `AnsweredOnce` (SipServerAnswers) | if `~LateTU`: `Spec => []SingleFinal` |
| `LayerImplementsService` (SipServerAnswers) | if `~LateTU`: `Spec => ImplementsService` |
| `AcceptedEnds` (SipServerAnswers) | if `~LateTU`, `MaxInst = 1` and there is one source: `Spec => AcceptedEndIsReported` |
| `ForkResolves` (DialClientProofs) | `DialSpec => []ForkIsResolved`, any number of destinations |
| `BusyIsUnanimous` (DialClientProofs) | `DialSpec => []BusyMeansAllBusy` |
| `ClientOneOutcome` (DialClientProofs) | `ClientSpec => []NoTimeoutAfterFinal`, any set of requests, any timers |
| `SlotsAreExact` (AccessProofs) | `AmiSpec => []SlotAccounting`, any finite set of connections, any limit |
| `InboundTyped` (InboundProofs) | `Spec => []TypeOK`, any number of INVITEs with one Call-ID, any failing sends, any apps |
| `InboundNoLeak` (InboundProofs) | `Spec => []NoLeak`, the same |
| `InboundAnswers` (InboundProofs) | `Spec => []Answers`, the same |
| `InboundOnlyAnsweredIsUp` (InboundProofs) | if `MaxInvites = 1`: `Spec => []OnlyAnsweredIsUp` |
| `InboundIsAnswered` (InboundProofs) | if `MaxInvites = 1`: `Spec => []InviteIsAnswered`, any failing sends, any apps |
| `InboundAnswerWins` (InboundProofs) | if `MaxInvites = 1`: `Spec => []AnswerWins`, the same |
| `InboundDialogIsEnded` (InboundProofs) | if `MaxInvites = 1` and `Fails = {}`: `Spec => []DialogIsEnded` |
| `LegTyped` (LegProofs) | `Spec => []TypeOK`, any `MaxAuthAttempts`, `MaxNet`, owner and surroundings |
| `LegAckBeforeBye` (LegProofs) | `Spec => []AckBeforeBye`, the same |
| `LegNoLeak` (LegProofs) | if a Dial leg's INVITE is taken by the transport: `Spec => []NoLeak` |
| `LegAckedIsEnded` (LegProofs) | if the network does not reorder: `Spec => []AckedIsEnded` |
| `LegOneRetryPerChallenge` (LegProofs) | if no INVITE is challenged after its 180: `Spec => []OneRetryPerChallenge` |
| `ConfTypes` (ConfProofs) | `ConfSpec => []ConfTypeOK`, any number of legs and mixers |
| `RegistrationTypes` (RegistrationProofs) | `RegSpec => []RegTypeOK`, any devices, parameters and requests of any number of contacts |
| `RegistrarWithinLimit` (RegistrationProofs) | `RegSpec => []ContactsBounded`, the same |
| `RegisteredHasBinding` (RegistrationProofs) | if the refresh is in time (`RefreshInTime`) and `auth_rejection_permanent`: `RegSpec => []RegisteredIsBound` |
| `NoReplay` (AccessProofs) | `SrtpSpec => []AcceptedOnce`, any widths of sequence number, counter and window |
| `NoIndexReuse` (AccessProofs) | `SrtpSpec => []IndexFresh`, the same, both back ends |
| `NoKeystreamReuse` (AccessProofs) | if `Backend = "PureRustSrtp"`: `SrtpSpec => []KeystreamFresh`, the same |
| `InTimeArrives` (AccessProofs) | `SrtpSpec => []InTimeIsAccepted`, the same |

**TypeCorrect.** `TypeOK` is not inductive: a response put on the wire is filed
under the session of its tag, so a final with tag 0 would leave the type. The
inductive invariant `IndType` adds `TxnInv`: a transaction belongs to a session
that was created, has a recorded final exactly when it is past Proceeding, and
its final and its cache entry carry the tag of a real session. There is one lemma per action.

**NothingDeliveredTwice.** What the TU settled must be held by something that outlives the age `NoSecondDelivery`
speaks of. `Settled` says by what: while the answer to an INVITE is younger than Timer H its cache entry is there, and is younger
still; while the answer to another request is younger than Timer J its transaction is Completed, and younger still. The cache must
be what absorbs an INVITE, because `matched_retransmission` looks at the transaction, which an ACK and Timer I remove
earlier. A retransmission from a new address does not match (stack.rs:845), hence one source.

**EventsInOrder.** An event waits in the loop's hands (`outbox`), then in the bounded queue, then with the TU, and the loop may be
blocked on a full queue in between. `OrderInv` follows a session through the three: nothing is said of a session that does not exist
(`Unheard`, `Known`), an announcement that waits to be emitted waits alone (`First`), and a session that exists is
waiting to be announced, announced in the queue before anything else about it, or known to the TU (`Announced`).

**AnsweredOnce.** `SingleFinal` speaks only of the wire, but four parties can
put a final there: the TU that has recorded and not yet sent, the loop that
retransmits (Timer G), the replay of a cached final, and `handle_cancel_request`.
`IndAnswer` adds `OneAnswer`: for each session, whichever of transaction, cache
entry, TU and wire hold an answer hold the same one, and while the transaction
is still in Proceeding nobody holds any. `TagInv` ties a transaction's answer to the session it
was created with. Two lemmas carry the argument: an answer that is held may be
repeated (`RepeatAnswer`), and a session that nobody has answered may be answered.

**LayerImplementsService.** The refinement maps `inst` to `created` and `wire`
to `answer`. Every step creates one session, adds a first answer to unanswered
sessions, repeats one (invisible), or touches neither. It uses `IndAnswer` and that `wire` only grows.

**AcceptedEnds.** `AcceptedInv` says that Accepted is the state of a 2xx. The rest is a lemma on what one step can do to a transaction
(`TransactionSteps`): it leaves state and final alone, records a final, or belongs to one of the steps that remove or
replace it. Of these only the ACK and Timer H apply to a 2xx, and both put their event into `outbox` in the same step. A second session
or a second source adds ways that report nothing of the kind: an overwriting INVITE, the ACK of another session's refusal (3.3).

**The assumption `~LateTU`.** It says that a TU answers the transaction its
session was created with, while that transaction exists. The code does not
enforce it. A task that calls `record_invite_final` after CANCEL, ACK and Timer
I have removed the transaction is told it may send (stack.rs:708). With `LateTU = TRUE` TLC
finds two finals for one session (3.3). The window opens after Timer I, 5 s
after the ACK of the 487, so it takes a per-call task delayed that long.

**ForkResolves, BusyIsUnanimous.** `ForkIsResolved` says nothing while the losers are being
hung up, and a leg that the loop skips is safe only because a leg that is HungUp has a phone
in no call. `DialInv` adds that (`HungUpIsQuiet`), that the legs behind the loop are dealt with
(`Behind`), that the legs ahead of the calling loop are untouched (`Untouched`), and that a
leg, and the store's copy of it, is Busy only if its phone said so (`BusyIsTold`). The assumption
is that there is at least one destination.

**ClientOneOutcome.** A timeout is decided in `handle_timers`, which collects the branches, and told later, event by event, while
responses keep arriving. `Outcome` covers the time between: a branch whose timeout is still owed to the owner, or was told,
has no transaction that a response could match, only a Terminated one that the same pass removes. The assumption,
`ClientTimers`, is that every timer is a positive number.

**InboundNoLeak, InboundTyped.** `NoLeak` is not inductive: whether a map entry belongs to
somebody depends on which handler or task will remove it. `InboundInv` adds that an INVITE is announced once
and has no task before the consumer has taken it (`Arrival`), that a mutex is held by the task that sends on
that session (`Locked`), and that the two maps change together, so that the Call-ID names the call being set up or the one
whose session is stored (`Named`). This covers every number of INVITEs that overwrite each other's entries,
and every set of failing sends; nothing is assumed of them but that there is at least one INVITE.

**InboundAnswers, InboundOnlyAnsweredIsUp.** `OnlyAnsweredIsUp` is false for two INVITEs with one Call-ID: a
task may build its BYE on the session of the other. `Answers` is the part that survives: a call is established or Up only
if its *own* INVITE ended in a 200 that was sent, and a BYE is sent only if *some* call of the Call-ID was established.
With one INVITE, some call is that call, and `OnlyAnsweredIsUp` follows.

**InboundIsAnswered, InboundAnswerWins, InboundDialogIsEnded.** These hold for one INVITE of a Call-ID only (3.3). `Reported` says that the
consumer never acts on something that has not happened: an event in the queue is of a CANCEL that was answered 487, a BYE that was
received or an ACK that was given up on. `Course` says what each place of the per-call task implies: while the INVITE is open the
session is stored, so no place skips the final for want of one; a task that gave up on an open INVITE has flagged the channel, or its
dialplan ended without Answer(). `Closing` adds what becomes of a 200: it is about to be sent or the call is established, and the session is dropped
only when one side has ended the dialog. It is false where a send fails (3.3), hence `Fails = {}`.

**The outbound leg.** Everything rests on `LegInv`. What is under way (on the network, in the event queue, in
the consumer's hands) says only what its sender did (`Told`), requests come from an INVITE or a BYE that was sent
(`Asked`), and `Dialog` ties the CSeqs together: before the ACK nobody takes the leg for answered and the dialog, if
there is one, is that of the last INVITE or of a challenged one; afterwards it is that of the last INVITE, advanced by
one for each BYE. `LegTyped` and `LegAckBeforeBye` follow from it with no assumption on the surroundings.
- *LegNoLeak* adds `Holding`: how far `driver.call()` has come tells what is held, and the two signalling maps are filled and cleared
  together. The assumption excludes the Dial leg whose INVITE the transport refuses, which does leak (3.3).
- *LegAckedIsEnded* adds `Ordered` (a 200 overtakes no 180 on its way to the session), `TimerOrder` (Timer B and a
  final of the same INVITE exclude each other) and `Ending` (who ends an acknowledged leg says so to the other side).
  Without order it is false: a late 180 sets the session back (3.3).
- *LegOneRetryPerChallenge* adds `Retries`: every INVITE but the last was challenged, and a dialog that exists
  before the ACK is that of the last one. The latter is what a challenge after a 180 breaks (3.3). The count is taken over a finite set of CSeqs.

**ConfTypes.** `ConfTypeOK` says that a user is in a conference only while its leg holds that conference, and that a mixer lets only
those talk that were added to it. The first rests on where each leg stands in the application (`Placed`), and that a new conference can
always be numbered on how many numbers the legs hold. It needs finitely many legs, and nothing else.

**SlotsAreExact.** `AmiInv` says for each connection what it holds at each point of
`handle_connection` (`Standing`): for instance that a Logoff never returns to the top of the loop,
which is why its cleared `authenticated` cannot leave a session without a slot. Three lemmas count:
a step that moves no slot, one that takes one, one that gives one back. The connections are a
finite set and the queue has room for at least one line; the limit may be 0, which means no limit.

**RegistrarWithinLimit.** A REGISTER is a scan of its contacts, and each contact scans the list of bindings. What a scan computes takes
induction over its length. The library's induction theorems cannot be instantiated by the provers, so `Induct` derives it
for a set of naturals from the least element of its complement, and `Iterate` builds from it the function a recursion
defines. `RetainKeeps` then says what `Vec::retain` returns, `BindOne` what one contact does, and `RegisterKeeps` that a whole
request keeps the limit, keeps one binding for each URI and touches no URI but those it names, also when it is refused half
way. The limit must not be 0: `RegAssumption` excludes `max_contacts = 0`, with which the code's eviction finds
nothing to evict and binds all the same.

**RegisteredHasBinding.** `RefreshInTime` is `RefreshPoint >= 1` and `RefreshPoint + 3 * MaxDelay` less than the
granted expiration, `determine_expiration(Expiration)`. With the defaults of both sides (3600 s asked for and granted, refresh
at 3240 s) it allows a datagram just under two minutes; where the registrar's maximum is below 90% of what the device asks for, nothing
satisfies it, because the refresh goes by the configured expiration. The device does not know how old its binding is, only when it sent last,
and it takes any status for the answer to whatever it sent last. The inductive invariant `Timely` bounds the
one by the other. `Asking`: what is under way was sent no later than the device's clock says, and a response at most one
delivery after. `Answered`: a 200 under way is no older than the binding it reports. `Trusted`: the binding of a device
in Registered is at most one delivery older than its clock, three after a challenge, which restarts
the clock and not the binding; and either the device has just been told, or its refresh is not yet due. TLC checked
`Timely` on small instances before it was proved.

**NoReplay.** The window is treated on its own first: it refuses what it has just recorded
(`UpdateRefuses`), and goes on refusing what it refuses, because shifting the bitmap loses only
indices that are then too old (`UpdateKeepsRefusing`). `Seen` then says that every accepted packet has an index
the window refuses. It needs nothing of the index estimate except that the tag ties a packet to
one index.

**NoIndexReuse, NoKeystreamReuse.** `InStep` says that the sender's estimate is exact: packet n has the
index `first + n - 1`, and the context stands at the last one sent. Indices are then distinct because positions are.
This one needs `SrtpLifetime`: a session ends before its indices wrap, about 2^48 RTP or 2^31 RTCP packets.
Nothing in srtp.rs enforces it (both counters are `wrapping_add`).
Across the two streams indices do repeat, and only the session keys keep them apart: hence the assumption on the back end. With `AeadGcmSrtp`
the statement is false (3.3).

**InTimeArrives.** `EstimateExact` is the arithmetic: `estimate_roc_standard` finds the counter of every packet whose index is less than half the
sequence range ahead of the context or at most half of it behind. `Following` ties the receiver to the sender: its
context stands at the newest packet it accepted, that index is the window's highest, and the window marks only packets that were
accepted. Then a packet that is in time has its true index estimated, and neither limit of the window refuses it. It uses `SrtpLifetime` as well.

**Only model-checked:**
- All liveness (`~>` and fairness): it is out of the prover's reach.

## 5. What is not modelled

- **Inside the modelled parts.** Message text, header syntax, SDP content and
  codecs, digest values, addresses other than the packet source, logging.
  Whether an INVITE is accepted, whether SDP is usable and whether a
  transport send fails are choices. INVITE provisional responses of the server
  side carry no state and are left out. Re-INVITE, UPDATE, PRACK, REFER, session
  timers and in-dialog INFO are not modelled.
- **Client transactions.** Proxied and CANCEL transactions are not told apart from other
  non-INVITE ones, and `OutboundLeg` uses the transactions through its own smaller copy.
- **The media plane** is one bit per call, because what can go wrong with it in
  the call path is a leak. ICE, DTLS and codecs are arithmetic or cryptography. `Srtp` starts behind the parsing of a packet's header: on the
  AES-GCM path header lengths taken from the packet index slices unchecked (srtp.rs:1271, 1280), so a header damaged there does not
  end in the refusal that `AcceptsRtp` models.
- **A lost BYE.** The BYE of an inbound call is one datagram outside any client
  transaction (EH:1216). `DialogIsEnded` counts it as sent.
- **Dial.** Call forwarding, screening, announcements, DTMF features and the G and g options. Local legs
  are followed as far as Dial sees them.
- **Conferences.** Marked users (2.7), deafness, volume, recording, menus, video re-INVITEs and `last_joined`.
- **The manager interface.** Framing, password checks, the login rate limiter, and the actions other than Login
  and Logoff (`DialApp` has Redirect as an event).
- **Queue.** `attempt_connect` dials no one and the wait loop leaves after one turn ("For the
  stub, break out quickly"), so there is no behaviour yet to check.
- **Parking, scheduler, task processor.** Nothing in the call path uses them.
- **Adapters** (ARI, AGI, realtime, CDR backends, file formats, functions):
  request and reply or pure text, with no protocol of their own.
- **Configuration, CLI, tests, the PJSIP shim**: not part of a running call.

## 6. Observations

What the modelling showed beside the properties, for whoever changes the code:

- *SRTP* is not wired to the RTP path: `create_srtp_crypto` (srtp.rs:1446) has no caller outside
  its file. A receiver that has accepted nothing assumes counter 0, so one that joins after the sender's first wrap
  rejects everything.
- *Registration.* The refresh uses the configured expiration, not the granted one.
  `max_retries = 0` retries for ever, though its comment says it stops after the first failure. An un-REGISTER
  that is answered with 2xx makes the agent Registered again. The contact limit counts expired bindings,
  and a REGISTER with several contacts is refused after its first ones were bound. The agent is
  used only by its own tests.
- *AMI.* A client can be refused by a connection that is itself being refused, because the counter is raised
  before the test. A session that logged in and does not read keeps its slot while the
  answer to its Login is parked.
- *ConfBridge.* `max_members` and the lock are tested before the join, so two legs can pass
  together. Two first callers create two conferences of one name. A leg that is kicked stays in the application until it hangs
  up. `wait_for_marked` and `end_when_marked_leaves` are never set, though the code that acts on them is there.
- *Dial.* The caller's hangup is not seen while Dial waits, because Dial polls its own copy. The dialplan of a
  losing Local leg keeps running. A ;2 half that ends unanswered takes ;1 out of the store, and Dial
  falls back on its own copy of the state and waits until its timeout. No leg is ever set to Congestion, because the cause is read from Dial's own copy too.

## 7. What could follow

- `SipWire`: an outbound leg against an inbound call over a lossy network: a lost BYE, and a
  forked INVITE that is answered twice.
- An abstract `InviteClient` (one outcome per INVITE) that `SipClient` implements and `OutboundLeg` uses.
- `ChannelStore`: the two indexes after a rename (channel/store.rs:63), and the check-then-register of an
  id that ARI supplies (line 173).
- `Bridge`: the check in `bridge_join`, whose locks are released before the channel is added
  (asterisk-core/src/bridge/mod.rs:308, 333), and the order in
  which the channel loops take their locks (bridge/event_loop.rs:242).
