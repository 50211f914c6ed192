--------------------------- MODULE DesktopSession --------------------------
(***************************************************************************)
(* The session module of the desktop broker                                *)
(* (src/src/modules/desktop_session.rs, desktop_interaction.rs,            *)
(* desktop_subscription.rs).  It owns the native leases of the sessions it *)
(* opened and, per session, the latest observation: the frame whose pixel  *)
(* coordinates a click may refer to.  The module runs on one thread; the   *)
(* desktop does not wait for it.  An absolute pointing device may be       *)
(* paused, replaced or resized between any two steps, which advances the   *)
(* lease's generation, so the operations that look at the device more than *)
(* once are split into one step per look.                                  *)
(*                                                                         *)
(* A request that is refused before it has an effect (arguments, consent,  *)
(* an unknown session, a limit, an output path) changes nothing and is a   *)
(* step not taken.                                                         *)
(***************************************************************************)
EXTENDS Naturals, FiniteSets

CONSTANTS SessionIds,           \* public session identities
          Leases,               \* native leases the port can hand out
          Consents,             \* the consent fields that requests carry
          MaximumLiveSessions,  \* MAXIMUM_LIVE_SESSIONS
          MaximumFrames,        \* bound of the model: observations started
          MaximumGeneration,    \* bound of the model: device changes
          MaximumSteps,         \* most steps in one interaction
          None

ConsentFields == {"yes", "no", "omitted"}

\* DesktopConsent: each field is given or omitted.
DesktopConsent ==
    [confirmed : ConsentFields, foreground : ConsentFields, strict : ConsentFields]

Scopes == {"operation", "session"}

Frames == 1..MaximumFrames

Generations == 1..MaximumGeneration

\* A FrameMapping, or None where the captured stream has no absolute input region.
Mappings == Generations \cup {None}

Observation == [id : Frames, mapping : Mappings]

DesktopSessionEntry ==
    [lease : Leases, scope : Scopes, observation : Observation \cup {None}]

Operation ==
    [session : SessionIds, frame : Frames \cup {None}, mapping : Mappings,
     points : 0..MaximumSteps, keys : 0..MaximumSteps, observe : BOOLEAN]

Phases == {"idle", "mapping-before", "capture", "mapping-after",
           "interact-mapping", "interact-step", "dropped"}

ASSUME SessionAssumption ==
    /\ IsFiniteSet(SessionIds)
    /\ Consents \subseteq DesktopConsent
    /\ MaximumLiveSessions \in Nat
    /\ MaximumFrames \in Nat
    /\ MaximumGeneration \in Nat \ {0}
    /\ MaximumSteps \in Nat
    /\ None \notin DesktopSessionEntry
    /\ None \notin Observation
    /\ None \notin Operation
    /\ None \notin Nat

VARIABLES
    sessions,      \* DesktopSessionModule.sessions
    leases,        \* what became of each native lease
    subscription,  \* LiveEvidence.subscription: leases with a subscription worker
    generation,    \* absolute_generation of each lease
    mapped,        \* leases with an absolute device for the captured stream
    phase,         \* where the running operation is
    op,            \* the running operation
    started,       \* observations started: frame identities used up
    newest,        \* history: the observation started last on each lease
    capturedIn,    \* history: the generation in which each frame was captured
    clicks         \* history: [lease, frame, generation] of every click sent

vars == <<sessions, leases, subscription, generation, mapped, phase, op, started,
          newest, capturedIn, clicks>>

historyVars == <<newest, capturedIn, clicks>>

LeaseStates == {"unopened", "open", "closed", "unconfirmed"}

TypeOK ==
    /\ sessions \in [SessionIds -> DesktopSessionEntry \cup {None}]
    /\ leases \in [Leases -> LeaseStates]
    /\ subscription \subseteq Leases
    /\ generation \in [Leases -> Generations]
    /\ mapped \subseteq Leases
    /\ phase \in Phases
    /\ op \in Operation \cup {None}
    /\ op = None <=> phase \in {"idle", "dropped"}
    /\ started \in 0..MaximumFrames
    /\ newest \in [Leases -> Frames \cup {None}]
    /\ capturedIn \in [Frames -> Generations \cup {None}]
    /\ clicks \subseteq [lease : Leases, frame : Frames, generation : Generations]

Init ==
    /\ sessions = [s \in SessionIds |-> None]
    /\ leases = [l \in Leases |-> "unopened"]
    /\ subscription = {}
    /\ generation = [l \in Leases |-> 1]
    /\ mapped = Leases
    /\ phase = "idle"
    /\ op = None
    /\ started = 0
    /\ newest = [l \in Leases |-> None]
    /\ capturedIn = [f \in Frames |-> None]
    /\ clicks = {}

----------------------------------------------------------------------------
Live == {s \in SessionIds : sessions[s] # None}

\* frame_mapping: the mapping of the absolute device as the lease knows it.
FrameMapping(l) == IF l \in mapped THEN generation[l] ELSE None

LeaseOf(s) == sessions[s].lease

\* inherit_session_consent: an omitted field is inherited from a live session that
\* was opened with session scope.
InheritSessionConsent(s) == sessions[s] # None /\ sessions[s].scope = "session"

\* resolve_input_consent: an explicit refusal is final, whatever the scope.
ResolveInputConsent(s, consent) ==
    /\ consent.confirmed # "no"
    /\ consent.strict # "yes"
    /\ consent.foreground # "no"
    /\ \/ "omitted" \notin {consent.confirmed, consent.foreground, consent.strict}
       \/ InheritSessionConsent(s)

\* resolve_capture_consent: the same, without the foreground field.
ResolveCaptureConsent(s, consent) ==
    /\ consent.confirmed # "no"
    /\ consent.strict # "yes"
    /\ \/ "omitted" \notin {consent.confirmed, consent.strict}
       \/ InheritSessionConsent(s)

\* Mutant of Idle: the operation is over and its state is kept.
IdleKeepsOperation == phase' = "idle" /\ UNCHANGED op

\* The running operation returns to the broker.
Idle == phase' = "idle" /\ op' = None

\* Mutant of Discard: the entry is dropped and its lease stays open.
DiscardLeaky(s) ==
    /\ sessions' = [sessions EXCEPT ![s] = None]
    /\ UNCHANGED <<leases, subscription>>

\* sessions.remove(..) followed by lease.close(): the identity is stale first, the
\* subscription worker ends with its lease, and the close may be unconfirmed.
Discard(s) ==
    /\ sessions' = [sessions EXCEPT ![s] = None]
    /\ \E ended \in {"closed", "unconfirmed"} :
          leases' = [leases EXCEPT ![LeaseOf(s)] = ended]
    /\ subscription' = subscription \ {LeaseOf(s)}

----------------------------------------------------------------------------
(* Opening and closing.                                                    *)

\* open: the port hands out a lease.  It is closed again when its facts are not
\* valid or the identity is taken.
Open(s, l, scope, valid) ==
    /\ phase = "idle"
    /\ Cardinality(Live) < MaximumLiveSessions
    /\ leases[l] = "unopened"
    /\ IF valid /\ sessions[s] = None
       THEN /\ sessions' = [sessions EXCEPT ![s] =
                  [lease |-> l, scope |-> scope, observation |-> None]]
            /\ leases' = [leases EXCEPT ![l] = "open"]
       ELSE /\ \E ended \in {"closed", "unconfirmed"} :
                  leases' = [leases EXCEPT ![l] = ended]
            /\ UNCHANGED sessions
    /\ UNCHANGED <<subscription, generation, mapped, phase, op, started, historyVars>>

Close(s) ==
    /\ phase = "idle"
    /\ sessions[s] # None
    /\ Discard(s)
    /\ UNCHANGED <<generation, mapped, phase, op, started, historyVars>>

\* Every live session is removed and its lease closed, confirmed or not.
DiscardAll ==
    /\ sessions' = [s \in SessionIds |-> None]
    /\ leases' \in [Leases -> LeaseStates]
    /\ \A l \in Leases : IF \E s \in Live : LeaseOf(s) = l
                         THEN leases'[l] \in {"closed", "unconfirmed"}
                         ELSE leases'[l] = leases[l]
    /\ subscription' = {}

\* forget_authorization: whatever the authorization store answers afterwards, the
\* sessions are gone.
ForgetAuthorization ==
    /\ phase = "idle"
    /\ DiscardAll
    /\ UNCHANGED <<generation, mapped, phase, op, started, historyVars>>

\* Drop of the module, when the broker's owner returns.
Drop ==
    /\ phase = "idle"
    /\ DiscardAll
    /\ phase' = "dropped"
    /\ UNCHANGED <<generation, mapped, op, started, historyVars>>

----------------------------------------------------------------------------
(* Keyboard and relative pointer input.                                    *)

\* send_keyboard and send_pointer: a failed dispatch ends the session.
SendInput(s, consent) ==
    /\ phase = "idle"
    /\ ResolveInputConsent(s, consent)
    /\ sessions[s] # None
    /\ \/ UNCHANGED <<sessions, leases, subscription>>
       \/ Discard(s)
    /\ UNCHANGED <<generation, mapped, phase, op, started, newest, capturedIn, clicks>>

----------------------------------------------------------------------------
(* Observation: observe_with_changes.                                      *)

BeginObservation(s) ==
    /\ started < MaximumFrames
    /\ started' = started + 1
    /\ op' = [session |-> s, frame |-> started + 1, mapping |-> None,
              points |-> 0, keys |-> 0, observe |-> FALSE]
    /\ phase' = "mapping-before"
    /\ newest' = [newest EXCEPT ![LeaseOf(s)] = started + 1]

\* Mutant of TakeObservation: the old observation stays until a new one replaces it.
KeepObservation(s) == UNCHANGED sessions

\* entry.observation.take(): from here on the old frame is no longer valid.
TakeObservation(s) == sessions' = [sessions EXCEPT ![s].observation = None]

\* A request that compares with a baseline must name the session's latest frame.
Observe(s, consent, baseline) ==
    /\ phase = "idle"
    /\ ResolveCaptureConsent(s, consent)
    /\ sessions[s] # None
    /\ baseline = None \/ (sessions[s].observation # None
                           /\ sessions[s].observation.id = baseline)
    /\ BeginObservation(s)
    /\ TakeObservation(s)
    /\ UNCHANGED <<leases, subscription, generation, mapped, capturedIn, clicks>>

\* checked_mapping fails: the lease is no longer usable and the session ends.
MappingLost ==
    /\ phase \in {"mapping-before", "mapping-after", "interact-mapping"}
    /\ Discard(op.session)
    /\ Idle
    /\ UNCHANGED <<generation, mapped, started, historyVars>>

MappingBefore ==
    /\ phase = "mapping-before"
    /\ op' = [op EXCEPT !.mapping = FrameMapping(LeaseOf(op.session))]
    /\ phase' = "capture"
    /\ UNCHANGED <<sessions, leases, subscription, generation, mapped, started, historyVars>>

\* capture_frame inside an observation: the frame is captured and committed, or the
\* output fails, or the capture does, with or without the session.
CaptureObserved ==
    /\ phase = "capture"
    /\ capturedIn' = [capturedIn EXCEPT ![op.frame] = generation[LeaseOf(op.session)]]
    /\ \/ phase' = "mapping-after" /\ UNCHANGED op
       \/ Idle
    /\ UNCHANGED <<sessions, leases, subscription, generation, mapped, started,
                   newest, clicks>>

CaptureFails ==
    /\ phase = "capture"
    /\ \/ Discard(op.session)
       \/ UNCHANGED <<sessions, leases, subscription>>
    /\ Idle
    /\ UNCHANGED <<generation, mapped, started, historyVars>>

\* before.filter(|m| Some(*m) == after).
StableMapping(l) == IF op.mapping = FrameMapping(l) THEN op.mapping ELSE None

\* The frame becomes the session's observation; a failed comparison leaves none.
MappingAfter ==
    /\ phase = "mapping-after"
    /\ \/ sessions' = [sessions EXCEPT ![op.session].observation =
              [id |-> op.frame, mapping |-> StableMapping(LeaseOf(op.session))]]
       \/ UNCHANGED sessions
    /\ Idle
    /\ UNCHANGED <<leases, subscription, generation, mapped, started, historyVars>>

\* capture_frame as a request of its own: only a failure can change the sessions.
CaptureFrame(s, consent) ==
    /\ phase = "idle"
    /\ ResolveCaptureConsent(s, consent)
    /\ sessions[s] # None
    /\ Discard(s)
    /\ UNCHANGED <<generation, mapped, phase, op, started, historyVars>>

----------------------------------------------------------------------------
(* Interaction: interact, with the broker's optional observation after it. *)

Interact(s, consent, frame, points, keys, observe) ==
    /\ phase = "idle"
    /\ observe => ResolveCaptureConsent(s, consent)  \* preflight_observation
    /\ ResolveInputConsent(s, consent)
    /\ sessions[s] # None
    /\ points = 0 =>
          frame = None \/ (sessions[s].observation # None
                           /\ sessions[s].observation.id = frame)
    /\ op' = [session |-> s, frame |-> frame, mapping |-> None,
              points |-> points, keys |-> keys, observe |-> observe]
    /\ phase' = IF points > 0 THEN "interact-mapping" ELSE "interact-step"
    /\ UNCHANGED <<sessions, leases, subscription, generation, mapped, started, historyVars>>

\* The frame a click refers to is the session's latest, and its mapping is current.
ObservationUsable ==
    LET observation == sessions[op.session].observation
        current == FrameMapping(LeaseOf(op.session))
    IN  /\ observation # None
        /\ op.frame = observation.id
        /\ observation.mapping # None
        /\ observation.mapping = current

InteractMapping ==
    /\ phase = "interact-mapping"
    /\ IF ObservationUsable
       THEN /\ op' = [op EXCEPT !.mapping = sessions[op.session].observation.mapping]
            /\ phase' = "interact-step"
       ELSE Idle
    /\ UNCHANGED <<sessions, leases, subscription, generation, mapped, started, historyVars>>

\* Mutant of PointIsCurrent: the mapping is only compared once, before the batch.
PointIsAssumedCurrent(l) == TRUE

\* send_frame_point compares the mapping again, ensure_absolute_live the generation.
PointIsCurrent(l) == FrameMapping(l) = op.mapping

ClickStep ==
    /\ phase = "interact-step"
    /\ op.points > 0
    /\ LET l == LeaseOf(op.session)
       IN  /\ PointIsCurrent(l)
           /\ clicks' = clicks \cup
                 {[lease |-> l, frame |-> op.frame, generation |-> generation[l]]}
    /\ op' = [op EXCEPT !.points = @ - 1]
    /\ UNCHANGED <<sessions, leases, subscription, generation, mapped, phase, started,
                   newest, capturedIn>>

KeyStep ==
    /\ phase = "interact-step"
    /\ op.keys > 0
    /\ op' = [op EXCEPT !.keys = @ - 1]
    /\ UNCHANGED <<sessions, leases, subscription, generation, mapped, phase, started,
                   historyVars>>

\* A step fails (cancelled, late, stale mapping, lost device), or the batch cannot be
\* finished: the session ends.
InteractFails ==
    /\ phase = "interact-step"
    /\ Discard(op.session)
    /\ Idle
    /\ UNCHANGED <<generation, mapped, started, newest, capturedIn, clicks>>

\* All steps are done and finish_frame_points succeeded.
InteractCompletes ==
    /\ phase = "interact-step"
    /\ op.points = 0 /\ op.keys = 0
    /\ \/ /\ Idle
          /\ UNCHANGED <<sessions, started, newest>>
       \/ /\ op.observe  \* and the token is not set
          /\ BeginObservation(op.session)
          /\ TakeObservation(op.session)
    /\ UNCHANGED <<leases, subscription, generation, mapped, capturedIn, clicks>>

----------------------------------------------------------------------------
(* Subscriptions: at most one worker per lease.                            *)

Subscribe(s, consent) ==
    /\ phase = "idle"
    /\ ResolveCaptureConsent(s, consent)
    /\ sessions[s] # None
    /\ \/ /\ LeaseOf(s) \notin subscription
          /\ subscription' = subscription \cup {LeaseOf(s)}
          /\ UNCHANGED <<sessions, leases>>
       \/ /\ LeaseOf(s) \notin subscription
          /\ Discard(s)
    /\ UNCHANGED <<generation, mapped, phase, op, started, historyVars>>

\* next_frame_update finds the session gone; an update or none changes nothing here.
NextUpdateFails(s, consent) ==
    /\ phase = "idle"
    /\ ResolveCaptureConsent(s, consent)
    /\ sessions[s] # None
    /\ Discard(s)
    /\ UNCHANGED <<generation, mapped, phase, op, started, historyVars>>

Unsubscribe(s) ==
    /\ phase = "idle"
    /\ sessions[s] # None
    /\ LeaseOf(s) \in subscription
    /\ subscription' = subscription \ {LeaseOf(s)}
    /\ UNCHANGED <<sessions, leases, generation, mapped, phase, op, started, historyVars>>

----------------------------------------------------------------------------
\* The desktop pauses, resumes, removes or adds an absolute device of a lease.
DeviceChange(l) ==
    /\ leases[l] = "open"
    /\ generation[l] < MaximumGeneration
    /\ generation' = [generation EXCEPT ![l] = @ + 1]
    /\ \/ mapped' = mapped \cup {l}
       \/ mapped' = mapped \ {l}
    /\ UNCHANGED <<sessions, leases, subscription, phase, op, started, historyVars>>

Request(s) ==
    \/ \E l \in Leases, scope \in Scopes, valid \in BOOLEAN : Open(s, l, scope, valid)
    \/ Close(s)
    \/ Unsubscribe(s)
    \/ \E consent \in Consents :
          \/ SendInput(s, consent)
          \/ CaptureFrame(s, consent)
          \/ Subscribe(s, consent)
          \/ NextUpdateFails(s, consent)
          \/ \E baseline \in Frames \cup {None} : Observe(s, consent, baseline)
          \/ \E frame \in Frames \cup {None}, points, keys \in 0..MaximumSteps,
                observe \in BOOLEAN :
                /\ points + keys \in 1..MaximumSteps
                /\ Interact(s, consent, frame, points, keys, observe)

Continue ==
    \/ MappingLost \/ MappingBefore \/ CaptureObserved \/ CaptureFails \/ MappingAfter
    \/ InteractMapping \/ ClickStep \/ KeyStep \/ InteractFails \/ InteractCompletes

Dropped == phase = "dropped" /\ UNCHANGED vars

Next ==
    \/ \E s \in SessionIds : Request(s)
    \/ Continue
    \/ ForgetAuthorization
    \/ Drop
    \/ \E l \in Leases : DeviceChange(l)
    \/ Dropped

Spec == Init /\ [][Next]_vars

----------------------------------------------------------------------------
\* Leases are neither leaked nor shared: the open ones are exactly those of the live
\* sessions, one each, whichever operation failed on the way, and a subscription
\* worker does not outlive its lease.
LeaseOwnership ==
    /\ \A l \in Leases : leases[l] = "open" <=> \E s \in Live : LeaseOf(s) = l
    /\ \A s, t \in Live : LeaseOf(s) = LeaseOf(t) => s = t
    /\ \A l \in subscription : leases[l] = "open"

\* A click lands where the caller saw it: it is sent in the device generation in
\* which its frame was captured, though the device may change at any moment.
ClicksHitTheirFrame ==
    \A click \in clicks : capturedIn[click.frame] = click.generation

\* The frame a session accepts clicks for is the one whose observation was started
\* last: an observation that failed on the way revives no older frame.
OnlyLatestFrame ==
    \A s \in Live :
        sessions[s].observation # None =>
            sessions[s].observation.id = newest[LeaseOf(s)]
============================================================================
