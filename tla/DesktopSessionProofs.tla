------------------------ MODULE DesktopSessionProofs -----------------------
(***************************************************************************)
(* Proofs about the session module, for any number of sessions, leases,    *)
(* frames and device changes.  The two facts behind the safety of clicks   *)
(* are that a lease's generation never goes back, so two equal looks at    *)
(* the mapping enclose a capture of the same generation, and that a frame  *)
(* is captured at most once, before any session can refer to it.           *)
(***************************************************************************)
EXTENDS DesktopSession, TLAPS

Observing == {"mapping-before", "capture", "mapping-after"}

\* The session of the running operation stays live until the operation is over.
OpInv ==
    op # None => sessions[op.session] # None

\* Observations carry a mapping only when their frame was captured in it.
ObservationInv ==
    \A s \in SessionIds :
        sessions[s] # None /\ sessions[s].observation # None =>
            /\ capturedIn[sessions[s].observation.id] # None
            /\ sessions[s].observation.mapping # None =>
                  capturedIn[sessions[s].observation.id] = sessions[s].observation.mapping
            /\ sessions[s].observation.id = newest[LeaseOf(s)]

\* A frame that is being observed, and what is known of its mapping so far.
FrameInv ==
    /\ \A f \in Frames : f > started => capturedIn[f] = None
    /\ phase \in Observing =>
          /\ op.frame \in 1..started
          /\ op.frame = newest[LeaseOf(op.session)]
    /\ phase \in {"mapping-before", "capture"} => capturedIn[op.frame] = None
    /\ phase = "capture" /\ op.mapping # None =>
          op.mapping <= generation[LeaseOf(op.session)]
    /\ phase = "mapping-after" =>
          /\ capturedIn[op.frame] # None
          /\ capturedIn[op.frame] <= generation[LeaseOf(op.session)]
          /\ op.mapping # None => op.mapping <= capturedIn[op.frame]

\* The clicks of a batch, sent and to be sent, refer to a captured frame.
ClickInv ==
    /\ phase = "interact-step" /\ op.points > 0 =>
          /\ op.frame \in Frames
          /\ op.mapping # None
          /\ capturedIn[op.frame] = op.mapping
    /\ \A click \in clicks : capturedIn[click.frame] # None

IInv ==
    /\ TypeOK
    /\ LeaseOwnership
    /\ OpInv
    /\ ObservationInv
    /\ FrameInv
    /\ ClickInv
    /\ ClicksHitTheirFrame

----------------------------------------------------------------------------
\* While an operation runs, its session is live and its lease known.
LEMMA OpLive ==
    ASSUME IInv, phase \notin {"idle", "dropped"}
    PROVE  /\ op \in Operation
           /\ op.session \in SessionIds
           /\ sessions[op.session] \in DesktopSessionEntry
           /\ LeaseOf(op.session) \in Leases
<1>1. op \in Operation
  BY DEF IInv, TypeOK
<1>2. op.session \in SessionIds
  BY <1>1 DEF Operation
<1>3. sessions[op.session] # None
  BY <1>1, SessionAssumption DEF IInv, OpInv
<1>4. sessions[op.session] \in DesktopSessionEntry
  BY <1>2, <1>3 DEF IInv, TypeOK
<1> QED
  BY <1>1, <1>2, <1>4 DEF DesktopSessionEntry, LeaseOf

\* Every step keeps the types.
LEMMA TypeStep ==
    ASSUME IInv, Next PROVE TypeOK'
<1> USE SessionAssumption DEF IInv, TypeOK, DesktopSessionEntry, Observation,
      Operation, Mappings, Phases, LeaseStates, historyVars
<1>1. ASSUME NEW s \in SessionIds, NEW l \in Leases, NEW scope \in Scopes,
             NEW valid \in BOOLEAN, Open(s, l, scope, valid)
      PROVE  TypeOK'
  BY <1>1 DEF Open
<1>2. ASSUME NEW s \in SessionIds, Close(s)
      PROVE  TypeOK'
  BY <1>2 DEF Close, Discard, LeaseOf
<1>3. ASSUME NEW s \in SessionIds, Unsubscribe(s)
      PROVE  TypeOK'
  BY <1>3 DEF Unsubscribe, LeaseOf
<1>4. ASSUME NEW s \in SessionIds, NEW consent \in Consents, SendInput(s, consent)
      PROVE  TypeOK'
  BY <1>4 DEF SendInput, Discard, LeaseOf
<1>5. ASSUME NEW s \in SessionIds, NEW consent \in Consents, CaptureFrame(s, consent)
      PROVE  TypeOK'
  BY <1>5 DEF CaptureFrame, Discard, LeaseOf
<1>6. ASSUME NEW s \in SessionIds, NEW consent \in Consents, Subscribe(s, consent)
      PROVE  TypeOK'
  BY <1>6 DEF Subscribe, Discard, LeaseOf
<1>7. ASSUME NEW s \in SessionIds, NEW consent \in Consents, NextUpdateFails(s, consent)
      PROVE  TypeOK'
  BY <1>7 DEF NextUpdateFails, Discard, LeaseOf
<1>8. ASSUME NEW s \in SessionIds, NEW consent \in Consents,
             NEW baseline \in Frames \cup {None}, Observe(s, consent, baseline)
      PROVE  TypeOK'
  <2>1. started' \in 0..MaximumFrames /\ started + 1 \in Frames
    BY <1>8 DEF Observe, BeginObservation, Frames
  <2>2. op' \in Operation /\ phase' = "mapping-before"
    BY <1>8, <2>1 DEF Observe, BeginObservation, Operation
  <2>3. sessions' \in [SessionIds -> DesktopSessionEntry \cup {None}]
    BY <1>8 DEF Observe, TakeObservation, DesktopSessionEntry
  <2>4. newest' \in [Leases -> Frames \cup {None}]
    BY <1>8, <2>1 DEF Observe, BeginObservation
  <2> QED
    BY <1>8, <2>1, <2>2, <2>3, <2>4 DEF Observe
<1>9. ASSUME NEW s \in SessionIds, NEW consent \in Consents, NEW frame \in Frames \cup {None},
             NEW points \in 0..MaximumSteps, NEW keys \in 0..MaximumSteps,
             NEW observe \in BOOLEAN, Interact(s, consent, frame, points, keys, observe)
      PROVE  TypeOK'
  BY <1>9 DEF Interact, LeaseOf
<1>10. CASE MappingLost
  <2>1. op \in Operation /\ op.session \in SessionIds /\ LeaseOf(op.session) \in Leases
    BY <1>10, OpLive DEF MappingLost
  <2> QED
    BY <1>10, <2>1 DEF MappingLost, Discard, Idle
<1>11. CASE MappingBefore
  BY <1>11 DEF MappingBefore, FrameMapping, LeaseOf
<1>12. CASE CaptureObserved
  <2>1. op \in Operation /\ op.frame \in Frames /\ LeaseOf(op.session) \in Leases
    BY <1>12, OpLive DEF CaptureObserved, FrameInv, Observing
  <2>2. capturedIn' \in [Frames -> Generations \cup {None}]
    BY <1>12, <2>1 DEF CaptureObserved
  <2>3. phase' \in Phases /\ op' \in Operation \cup {None}
    BY <1>12, <2>1 DEF CaptureObserved, Idle
  <2>4. op' = None <=> phase' \in {"idle", "dropped"}
    BY <1>12, <2>1 DEF CaptureObserved, Idle
  <2> QED
    BY <1>12, <2>2, <2>3, <2>4 DEF CaptureObserved
<1>13. CASE CaptureFails
  BY <1>13 DEF CaptureFails, Discard, Idle, LeaseOf
<1>14. CASE MappingAfter
  <2>1. /\ op \in Operation /\ op.frame \in Frames
        /\ op.session \in SessionIds /\ LeaseOf(op.session) \in Leases
        /\ sessions[op.session] \in DesktopSessionEntry
    BY <1>14, OpLive DEF MappingAfter, FrameInv, Observing
  <2>2. StableMapping(LeaseOf(op.session)) \in Mappings
    BY <2>1 DEF StableMapping, Operation, Mappings
  <2>3. sessions' \in [SessionIds -> DesktopSessionEntry \cup {None}]
    BY <1>14, <2>1, <2>2 DEF MappingAfter, DesktopSessionEntry, Observation
  <2> QED
    BY <1>14, <2>3 DEF MappingAfter, Idle
<1>15. CASE InteractMapping
  BY <1>15 DEF InteractMapping, ObservationUsable, FrameMapping, Idle, LeaseOf
<1>16. CASE ClickStep
  <2>1. op \in Operation /\ op.frame \in Frames /\ LeaseOf(op.session) \in Leases
    BY <1>16, OpLive DEF ClickStep, ClickInv
  <2>2. op.points \in 0..MaximumSteps /\ op.points > 0
    BY <1>16, <2>1 DEF ClickStep, Operation
  <2>3. op.points - 1 \in 0..MaximumSteps
    BY <2>2
  <2>4. op' \in Operation
    BY <1>16, <2>1, <2>3 DEF ClickStep, Operation
  <2>5. clicks' \subseteq [lease : Leases, frame : Frames, generation : Generations]
    BY <1>16, <2>1 DEF ClickStep
  <2>7. UNCHANGED <<sessions, leases, subscription, generation, mapped, phase, started,
                    newest, capturedIn>>
    BY <1>16 DEF ClickStep
  <2>8. phase \notin {"idle", "dropped"}
    BY <1>16 DEF ClickStep
  <2> QED
    BY <2>4, <2>5, <2>7, <2>8
<1>17. CASE KeyStep
  BY <1>17 DEF KeyStep, LeaseOf
<1>18. CASE InteractFails
  <2>1. /\ op \in Operation /\ op.session \in SessionIds
        /\ LeaseOf(op.session) \in Leases
        /\ sessions[op.session] \in DesktopSessionEntry
    BY <1>18, OpLive DEF InteractFails
  <2> QED
    BY <1>18, <2>1 DEF InteractFails, Discard, Idle
<1>19. CASE InteractCompletes
  <2>1. /\ op \in Operation /\ op.session \in SessionIds
        /\ LeaseOf(op.session) \in Leases
        /\ sessions[op.session] \in DesktopSessionEntry
    BY <1>19, OpLive DEF InteractCompletes
  <2>3. CASE Idle /\ UNCHANGED <<sessions, started, newest>>
    BY <1>19, <2>3 DEF InteractCompletes, Idle
  <2>4. CASE BeginObservation(op.session) /\ TakeObservation(op.session)
    <3>1. started' \in 0..MaximumFrames /\ started + 1 \in Frames
      BY <2>4 DEF BeginObservation, Frames
    <3>2. op' \in Operation /\ phase' = "mapping-before"
      BY <2>1, <2>4, <3>1 DEF BeginObservation, Operation
    <3>3. sessions' \in [SessionIds -> DesktopSessionEntry \cup {None}]
      BY <2>1, <2>4 DEF TakeObservation, DesktopSessionEntry
    <3>4. newest' \in [Leases -> Frames \cup {None}]
      BY <2>4, <3>1 DEF BeginObservation
    <3> QED
      BY <1>19, <3>1, <3>2, <3>3, <3>4 DEF InteractCompletes
  <2> QED
    BY <1>19, <2>3, <2>4 DEF InteractCompletes
<1>20. CASE ForgetAuthorization
  BY <1>20 DEF ForgetAuthorization, DiscardAll, Live, LeaseOf
<1>21. CASE Drop
  BY <1>21 DEF Drop, DiscardAll, Live, LeaseOf
<1>22. ASSUME NEW l \in Leases, DeviceChange(l)
      PROVE  TypeOK'
  <2>1. generation' \in [Leases -> Generations]
    BY <1>22 DEF DeviceChange, Generations
  <2>2. mapped' \subseteq Leases
    BY <1>22 DEF DeviceChange
  <2> QED
    BY <1>22, <2>1, <2>2 DEF DeviceChange
<1>23. CASE Dropped
  BY <1>23 DEF Dropped, vars
<1> HIDE DEF IInv, TypeOK
<1>24. ASSUME NEW s \in SessionIds, Request(s)
      PROVE  TypeOK'
  BY <1>1, <1>2, <1>3, <1>4, <1>5, <1>6, <1>7, <1>8, <1>9, <1>24 DEF Request
<1>25. CASE Continue
  BY <1>10, <1>11, <1>12, <1>13, <1>14, <1>15, <1>16, <1>17, <1>18, <1>19, <1>25
     DEF Continue
<1> QED
  BY <1>20, <1>21, <1>22, <1>23, <1>24, <1>25 DEF Next

\* Every step keeps leases and live sessions in step with each other.
LEMMA OwnershipStep ==
    ASSUME IInv, Next PROVE LeaseOwnership' /\ OpInv'
<1> USE SessionAssumption DEF IInv, TypeOK, DesktopSessionEntry, Operation,
      LeaseOwnership, OpInv, Live, LeaseOf, historyVars
<1>1. ASSUME NEW s \in SessionIds, NEW l \in Leases, NEW scope \in Scopes,
             NEW valid \in BOOLEAN, Open(s, l, scope, valid)
      PROVE  LeaseOwnership' /\ OpInv'
  BY <1>1 DEF Open
<1>2. ASSUME NEW s \in SessionIds, Close(s)
      PROVE  LeaseOwnership' /\ OpInv'
  BY <1>2 DEF Close, Discard
<1>3. ASSUME NEW s \in SessionIds, Unsubscribe(s)
      PROVE  LeaseOwnership' /\ OpInv'
  BY <1>3 DEF Unsubscribe
<1>4. ASSUME NEW s \in SessionIds, NEW consent \in Consents, SendInput(s, consent)
      PROVE  LeaseOwnership' /\ OpInv'
  BY <1>4 DEF SendInput, Discard
<1>5. ASSUME NEW s \in SessionIds, NEW consent \in Consents, CaptureFrame(s, consent)
      PROVE  LeaseOwnership' /\ OpInv'
  BY <1>5 DEF CaptureFrame, Discard
<1>6. ASSUME NEW s \in SessionIds, NEW consent \in Consents, Subscribe(s, consent)
      PROVE  LeaseOwnership' /\ OpInv'
  BY <1>6 DEF Subscribe, Discard
<1>7. ASSUME NEW s \in SessionIds, NEW consent \in Consents, NextUpdateFails(s, consent)
      PROVE  LeaseOwnership' /\ OpInv'
  BY <1>7 DEF NextUpdateFails, Discard
<1>8. ASSUME NEW s \in SessionIds, NEW consent \in Consents,
             NEW baseline \in Frames \cup {None}, Observe(s, consent, baseline)
      PROVE  LeaseOwnership' /\ OpInv'
  BY <1>8 DEF Observe, BeginObservation, TakeObservation
<1>9. ASSUME NEW s \in SessionIds, NEW consent \in Consents, NEW frame \in Frames \cup {None},
             NEW points \in 0..MaximumSteps, NEW keys \in 0..MaximumSteps,
             NEW observe \in BOOLEAN, Interact(s, consent, frame, points, keys, observe)
      PROVE  LeaseOwnership' /\ OpInv'
  BY <1>9 DEF Interact
<1>10. CASE MappingLost
  BY <1>10 DEF MappingLost, Discard, Idle
<1>11. CASE MappingBefore
  BY <1>11 DEF MappingBefore, FrameMapping
<1>12. CASE CaptureObserved
  BY <1>12 DEF CaptureObserved, Idle
<1>13. CASE CaptureFails
  BY <1>13 DEF CaptureFails, Discard, Idle
<1>14. CASE MappingAfter
  <2>1. /\ op \in Operation /\ op.session \in SessionIds
        /\ sessions[op.session] \in DesktopSessionEntry
    BY <1>14, OpLive DEF MappingAfter
  <2>2. CASE UNCHANGED sessions
    BY <1>14, <2>2 DEF MappingAfter, Idle
  <2>3. ASSUME NEW x \in Observation, sessions' = [sessions EXCEPT ![op.session].observation = x]
        PROVE  LeaseOwnership' /\ OpInv'
    <3>1. /\ sessions'[op.session] = [sessions[op.session] EXCEPT !.observation = x]
          /\ \A s \in SessionIds \ {op.session} : sessions'[s] = sessions[s]
      BY <2>1, <2>3
    <3>2. /\ sessions'[op.session].lease = sessions[op.session].lease
          /\ sessions'[op.session] # None
      BY <2>1, <3>1
    <3>3. Live' = Live /\ \A s \in Live : LeaseOf(s)' = LeaseOf(s)
      BY <2>1, <3>1, <3>2
    <3>4. leases' = leases /\ subscription' = subscription /\ op' = None
      BY <1>14 DEF MappingAfter, Idle
    <3> HIDE DEF Live, LeaseOf
    <3> QED
      BY <3>3, <3>4
  <2>4. [id |-> op.frame, mapping |-> StableMapping(LeaseOf(op.session))] \in Observation
    <3>1. op.frame \in Frames
      BY <1>14, <2>1, SessionAssumption DEF MappingAfter, FrameInv, Observing, Frames
    <3>2. StableMapping(LeaseOf(op.session)) \in Mappings
      BY <2>1, SessionAssumption DEF StableMapping, Mappings
    <3> QED
      BY <3>1, <3>2 DEF Observation
  <2> QED
    BY <1>14, <2>2, <2>3, <2>4 DEF MappingAfter
<1>15. CASE InteractMapping
  BY <1>15 DEF InteractMapping, ObservationUsable, FrameMapping, Idle
<1>16. CASE ClickStep
  BY <1>16 DEF ClickStep, PointIsCurrent, FrameMapping
<1>17. CASE KeyStep
  BY <1>17 DEF KeyStep
<1>18. CASE InteractFails
  BY <1>18 DEF InteractFails, Discard, Idle
<1>19. CASE InteractCompletes
  BY <1>19 DEF InteractCompletes, BeginObservation, TakeObservation, Idle
<1>20. CASE ForgetAuthorization
  BY <1>20 DEF ForgetAuthorization, DiscardAll
<1>21. CASE Drop
  BY <1>21 DEF Drop, DiscardAll
<1>22. ASSUME NEW l \in Leases, DeviceChange(l)
      PROVE  LeaseOwnership' /\ OpInv'
  BY <1>22 DEF DeviceChange
<1>23. CASE Dropped
  BY <1>23 DEF Dropped, vars
<1> HIDE DEF IInv, TypeOK, LeaseOwnership, OpInv
<1>24. ASSUME NEW s \in SessionIds, Request(s)
      PROVE  LeaseOwnership' /\ OpInv'
  BY <1>1, <1>2, <1>3, <1>4, <1>5, <1>6, <1>7, <1>8, <1>9, <1>24 DEF Request
<1>25. CASE Continue
  BY <1>10, <1>11, <1>12, <1>13, <1>14, <1>15, <1>16, <1>17, <1>18, <1>19, <1>25
     DEF Continue
<1> QED
  BY <1>20, <1>21, <1>22, <1>23, <1>24, <1>25 DEF Next

\* Every step keeps what is known of the frames that sessions accept.
LEMMA ObservationStep ==
    ASSUME IInv, Next PROVE ObservationInv'
<1> USE SessionAssumption DEF IInv, TypeOK, DesktopSessionEntry, Operation,
      Observation, LeaseOwnership, OpInv, ObservationInv, FrameInv, Observing, Live,
      LeaseOf, Mappings, Generations, Frames, historyVars
<1>1. ASSUME NEW s \in SessionIds, NEW l \in Leases, NEW scope \in Scopes,
             NEW valid \in BOOLEAN, Open(s, l, scope, valid)
      PROVE  ObservationInv'
  <2>1. UNCHANGED <<capturedIn, newest>>
    BY <1>1 DEF Open
  <2>2. \A t \in SessionIds :
           sessions'[t] = sessions[t] \/ sessions'[t].observation = None
    BY <1>1 DEF Open
  <2> QED
    BY <2>1, <2>2
<1>2. ASSUME NEW s \in SessionIds, Close(s)
      PROVE  ObservationInv'
  BY <1>2 DEF Close, Discard
<1>3. ASSUME NEW s \in SessionIds, Unsubscribe(s)
      PROVE  ObservationInv'
  BY <1>3 DEF Unsubscribe
<1>4. ASSUME NEW s \in SessionIds, NEW consent \in Consents, SendInput(s, consent)
      PROVE  ObservationInv'
  BY <1>4 DEF SendInput, Discard
<1>5. ASSUME NEW s \in SessionIds, NEW consent \in Consents, CaptureFrame(s, consent)
      PROVE  ObservationInv'
  BY <1>5 DEF CaptureFrame, Discard
<1>6. ASSUME NEW s \in SessionIds, NEW consent \in Consents, Subscribe(s, consent)
      PROVE  ObservationInv'
  BY <1>6 DEF Subscribe, Discard
<1>7. ASSUME NEW s \in SessionIds, NEW consent \in Consents, NextUpdateFails(s, consent)
      PROVE  ObservationInv'
  BY <1>7 DEF NextUpdateFails, Discard
<1>8. ASSUME NEW s \in SessionIds, NEW consent \in Consents,
             NEW baseline \in Frames \cup {None}, Observe(s, consent, baseline)
      PROVE  ObservationInv'
  BY <1>8 DEF Observe, BeginObservation, TakeObservation
<1>9. ASSUME NEW s \in SessionIds, NEW consent \in Consents, NEW frame \in Frames \cup {None},
             NEW points \in 0..MaximumSteps, NEW keys \in 0..MaximumSteps,
             NEW observe \in BOOLEAN, Interact(s, consent, frame, points, keys, observe)
      PROVE  ObservationInv'
  BY <1>9 DEF Interact
<1>10. CASE MappingLost
  BY <1>10 DEF MappingLost, Discard, Idle
<1>11. CASE MappingBefore
  BY <1>11 DEF MappingBefore, FrameMapping
<1>12. CASE CaptureObserved
  BY <1>12 DEF CaptureObserved, Idle
<1>13. CASE CaptureFails
  BY <1>13 DEF CaptureFails, Discard, Idle
<1>14. CASE MappingAfter
  <2>1. /\ op \in Operation /\ op.session \in SessionIds
        /\ sessions[op.session] \in DesktopSessionEntry
    BY <1>14, OpLive DEF MappingAfter
  <2>2. UNCHANGED <<capturedIn, newest, generation>>
    BY <1>14 DEF MappingAfter, historyVars
  <2>3. CASE UNCHANGED sessions
    BY <2>2, <2>3
  <2>4. CASE sessions' = [sessions EXCEPT ![op.session].observation =
               [id |-> op.frame, mapping |-> StableMapping(LeaseOf(op.session))]]
    <3>0. /\ sessions'[op.session] = [sessions[op.session] EXCEPT !.observation =
                [id |-> op.frame, mapping |-> StableMapping(LeaseOf(op.session))]]
          /\ \A s \in SessionIds \ {op.session} : sessions'[s] = sessions[s]
      BY <2>1, <2>4
    <3> DEFINE entry == sessions'[op.session]
    <3>1. /\ entry.observation.id = op.frame
          /\ entry.observation.mapping = StableMapping(LeaseOf(op.session))
          /\ entry.lease = LeaseOf(op.session)
      BY <2>1, <3>0
    <3>2. /\ op.frame \in Frames /\ capturedIn[op.frame] # None
          /\ op.frame = newest[LeaseOf(op.session)]
      BY <1>14 DEF MappingAfter
    <3>3. ASSUME StableMapping(LeaseOf(op.session)) # None
          PROVE  capturedIn[op.frame] = StableMapping(LeaseOf(op.session))
      <4>1. /\ op.mapping # None
            /\ StableMapping(LeaseOf(op.session)) = op.mapping
            /\ op.mapping = generation[LeaseOf(op.session)]
        BY <3>3 DEF StableMapping, FrameMapping
      <4>2. /\ op.mapping <= capturedIn[op.frame]
            /\ capturedIn[op.frame] <= generation[LeaseOf(op.session)]
        BY <1>14, <4>1 DEF MappingAfter
      <4>3. /\ generation[LeaseOf(op.session)] \in Nat
            /\ capturedIn[op.frame] \in Nat
        BY <1>14, <3>2, OpLive DEF MappingAfter, Generations
      <4> QED
        BY <4>1, <4>2, <4>3
    <3>4. SUFFICES ASSUME NEW s \in SessionIds,
                          sessions'[s] # None, sessions'[s].observation # None
                   PROVE  /\ capturedIn[sessions'[s].observation.id] # None
                          /\ sessions'[s].observation.mapping # None =>
                                capturedIn[sessions'[s].observation.id]
                                    = sessions'[s].observation.mapping
                          /\ sessions'[s].observation.id = newest[sessions'[s].lease]
      BY <2>2
    <3>5. CASE s = op.session
      BY <3>1, <3>2, <3>3, <3>5
    <3>6. CASE s # op.session
      BY <3>0, <3>4, <3>6
    <3> QED
      BY <3>5, <3>6
  <2> QED
    BY <1>14, <2>3, <2>4 DEF MappingAfter
<1>15. CASE InteractMapping
  BY <1>15 DEF InteractMapping, ObservationUsable, FrameMapping, Idle
<1>16. CASE ClickStep
  BY <1>16 DEF ClickStep, PointIsCurrent, FrameMapping
<1>17. CASE KeyStep
  BY <1>17 DEF KeyStep
<1>18. CASE InteractFails
  BY <1>18 DEF InteractFails, Discard, Idle
<1>19. CASE InteractCompletes
  <2>1. /\ op \in Operation /\ op.session \in SessionIds
        /\ sessions[op.session] \in DesktopSessionEntry
    BY <1>19, OpLive DEF InteractCompletes
  <2>2. CASE Idle /\ UNCHANGED <<sessions, started, newest>>
    BY <1>19, <2>2 DEF InteractCompletes
  <2>3. CASE BeginObservation(op.session) /\ TakeObservation(op.session)
    <3>1. \A s \in SessionIds : s # op.session => sessions'[s] = sessions[s]
      BY <2>1, <2>3 DEF TakeObservation
    <3>2. sessions'[op.session].observation = None
      BY <2>1, <2>3 DEF TakeObservation
    <3>3. \A s \in SessionIds : s # op.session /\ sessions[s] # None =>
             newest'[sessions[s].lease] = newest[sessions[s].lease]
      BY <2>1, <2>3, OpLive DEF BeginObservation
    <3>4. UNCHANGED capturedIn
      BY <1>19 DEF InteractCompletes
    <3>5. ObservationInv
      OBVIOUS
    <3> SUFFICES ASSUME NEW s \in SessionIds, s # op.session,
                        sessions'[s] # None, sessions'[s].observation # None
                 PROVE  /\ capturedIn'[sessions'[s].observation.id] # None
                        /\ sessions'[s].observation.mapping # None =>
                              capturedIn'[sessions'[s].observation.id]
                                = sessions'[s].observation.mapping
                        /\ sessions'[s].observation.id = newest'[sessions'[s].lease]
      BY <3>2
    <3> HIDE DEF IInv, TypeOK, LeaseOwnership, OpInv, FrameInv
    <3> QED
      BY <3>1, <3>3, <3>4, <3>5
  <2> QED
    BY <1>19, <2>2, <2>3 DEF InteractCompletes
<1>20. CASE ForgetAuthorization
  BY <1>20 DEF ForgetAuthorization, DiscardAll
<1>21. CASE Drop
  BY <1>21 DEF Drop, DiscardAll
<1>22. ASSUME NEW l \in Leases, DeviceChange(l)
      PROVE  ObservationInv'
  BY <1>22 DEF DeviceChange
<1>23. CASE Dropped
  BY <1>23 DEF Dropped, vars
<1> HIDE DEF IInv, TypeOK, LeaseOwnership, ObservationInv
<1>24. ASSUME NEW s \in SessionIds, Request(s)
      PROVE  ObservationInv'
  BY <1>1, <1>2, <1>3, <1>4, <1>5, <1>6, <1>7, <1>8, <1>9, <1>24 DEF Request
<1>25. CASE Continue
  BY <1>10, <1>11, <1>12, <1>13, <1>14, <1>15, <1>16, <1>17, <1>18, <1>19, <1>25
     DEF Continue
<1> QED
  BY <1>20, <1>21, <1>22, <1>23, <1>24, <1>25 DEF Next

\* Every step keeps what is known of the frame being observed.
LEMMA FrameStep ==
    ASSUME IInv, Next PROVE FrameInv'
<1> USE SessionAssumption DEF IInv, TypeOK, DesktopSessionEntry, Operation, OpInv,
      FrameInv, Observing, LeaseOf, Mappings, Generations, Frames, historyVars
<1>1. ASSUME NEW s \in SessionIds, NEW l \in Leases, NEW scope \in Scopes,
             NEW valid \in BOOLEAN, Open(s, l, scope, valid)
      PROVE  FrameInv'
  BY <1>1 DEF Open
<1>2. ASSUME NEW s \in SessionIds, Close(s)
      PROVE  FrameInv'
  BY <1>2 DEF Close, Discard
<1>3. ASSUME NEW s \in SessionIds, Unsubscribe(s)
      PROVE  FrameInv'
  BY <1>3 DEF Unsubscribe
<1>4. ASSUME NEW s \in SessionIds, NEW consent \in Consents, SendInput(s, consent)
      PROVE  FrameInv'
  BY <1>4 DEF SendInput, Discard
<1>5. ASSUME NEW s \in SessionIds, NEW consent \in Consents, CaptureFrame(s, consent)
      PROVE  FrameInv'
  BY <1>5 DEF CaptureFrame, Discard
<1>6. ASSUME NEW s \in SessionIds, NEW consent \in Consents, Subscribe(s, consent)
      PROVE  FrameInv'
  BY <1>6 DEF Subscribe, Discard
<1>7. ASSUME NEW s \in SessionIds, NEW consent \in Consents, NextUpdateFails(s, consent)
      PROVE  FrameInv'
  BY <1>7 DEF NextUpdateFails, Discard
<1>8. ASSUME NEW s \in SessionIds, NEW consent \in Consents,
             NEW baseline \in Frames \cup {None}, Observe(s, consent, baseline)
      PROVE  FrameInv'
  BY <1>8 DEF Observe, BeginObservation, TakeObservation
<1>9. ASSUME NEW s \in SessionIds, NEW consent \in Consents, NEW frame \in Frames \cup {None},
             NEW points \in 0..MaximumSteps, NEW keys \in 0..MaximumSteps,
             NEW observe \in BOOLEAN, Interact(s, consent, frame, points, keys, observe)
      PROVE  FrameInv'
  BY <1>9 DEF Interact
<1>10. CASE MappingLost
  BY <1>10 DEF MappingLost, Discard, Idle
<1>11. CASE MappingBefore
  BY <1>11 DEF MappingBefore, FrameMapping
<1>12. CASE CaptureObserved
  <2>1. /\ op \in Operation /\ op.frame \in Frames /\ LeaseOf(op.session) \in Leases
        /\ capturedIn[op.frame] = None
    BY <1>12, OpLive DEF CaptureObserved
  <2>2. capturedIn' = [capturedIn EXCEPT ![op.frame] = generation[LeaseOf(op.session)]]
    BY <1>12 DEF CaptureObserved
  <2>3. UNCHANGED <<sessions, generation, newest, started>>
    BY <1>12 DEF CaptureObserved
  <2>4. generation[LeaseOf(op.session)] \in Nat
    BY <2>1 DEF Generations
  <2>5. op.frame <= started
    BY <1>12, <2>1 DEF CaptureObserved
  <2>6. \A f \in Frames : f > started' => capturedIn'[f] = None
    BY <2>1, <2>2, <2>3, <2>5 DEF Frames
  <2>7. CASE phase' = "mapping-after" /\ UNCHANGED op
    BY <1>12, <2>1, <2>2, <2>3, <2>4, <2>6, <2>7 DEF CaptureObserved
  <2>8. CASE Idle
    BY <2>6, <2>8 DEF Idle
  <2> QED
    BY <1>12, <2>7, <2>8 DEF CaptureObserved
<1>13. CASE CaptureFails
  BY <1>13 DEF CaptureFails, Discard, Idle
<1>14. CASE MappingAfter
  BY <1>14 DEF MappingAfter, StableMapping, FrameMapping, Idle
<1>15. CASE InteractMapping
  BY <1>15 DEF InteractMapping, ObservationUsable, FrameMapping, Idle
<1>16. CASE ClickStep
  BY <1>16 DEF ClickStep, PointIsCurrent, FrameMapping
<1>17. CASE KeyStep
  BY <1>17 DEF KeyStep
<1>18. CASE InteractFails
  BY <1>18 DEF InteractFails, Discard, Idle
<1>19. CASE InteractCompletes
  <2>1. CASE Idle /\ UNCHANGED <<sessions, started, newest>>
    BY <1>19, <2>1 DEF InteractCompletes, Idle
  <2>2. CASE BeginObservation(op.session) /\ TakeObservation(op.session)
    <3>1. /\ op \in Operation /\ op.session \in SessionIds
          /\ sessions[op.session] \in DesktopSessionEntry
          /\ LeaseOf(op.session) \in Leases
      BY <1>19, OpLive DEF InteractCompletes
    <3>2. /\ op'.session = op.session /\ op'.frame = started + 1
          /\ phase' = "mapping-before" /\ started' = started + 1
          /\ started + 1 \in Frames
          /\ newest' = [newest EXCEPT ![LeaseOf(op.session)] = started + 1]
      BY <2>2 DEF BeginObservation
    <3>3. sessions'[op.session].lease = LeaseOf(op.session)
      BY <2>2, <3>1 DEF TakeObservation
    <3>4. capturedIn' = capturedIn
      BY <1>19 DEF InteractCompletes
    <3>5. capturedIn[started + 1] = None
      BY <3>2
    <3>6. newest'[LeaseOf(op.session)] = started + 1
      BY <3>1, <3>2
    <3> QED
      BY <3>2, <3>3, <3>4, <3>5, <3>6
  <2> QED
    BY <1>19, <2>1, <2>2 DEF InteractCompletes
<1>20. CASE ForgetAuthorization
  BY <1>20 DEF ForgetAuthorization, DiscardAll, Live
<1>21. CASE Drop
  BY <1>21 DEF Drop, DiscardAll, Live
<1>22. ASSUME NEW l \in Leases, DeviceChange(l)
      PROVE  FrameInv'
  BY <1>22 DEF DeviceChange
<1>23. CASE Dropped
  BY <1>23 DEF Dropped, vars
<1> HIDE DEF IInv, TypeOK, FrameInv
<1>24. ASSUME NEW s \in SessionIds, Request(s)
      PROVE  FrameInv'
  BY <1>1, <1>2, <1>3, <1>4, <1>5, <1>6, <1>7, <1>8, <1>9, <1>24 DEF Request
<1>25. CASE Continue
  BY <1>10, <1>11, <1>12, <1>13, <1>14, <1>15, <1>16, <1>17, <1>18, <1>19, <1>25
     DEF Continue
<1> QED
  BY <1>20, <1>21, <1>22, <1>23, <1>24, <1>25 DEF Next

\* Every step keeps the clicks on their frames.
LEMMA ClickStepSafe ==
    ASSUME IInv, Next PROVE ClickInv' /\ ClicksHitTheirFrame'
<1> USE SessionAssumption DEF IInv, TypeOK, DesktopSessionEntry, Operation,
      Observation, OpInv, ObservationInv, FrameInv, ClickInv, ClicksHitTheirFrame,
      Observing, LeaseOf, Mappings, Generations, Frames, historyVars
<1>1. ASSUME NEW s \in SessionIds, NEW l \in Leases, NEW scope \in Scopes,
             NEW valid \in BOOLEAN, Open(s, l, scope, valid)
      PROVE  ClickInv' /\ ClicksHitTheirFrame'
  BY <1>1 DEF Open
<1>2. ASSUME NEW s \in SessionIds, Close(s)
      PROVE  ClickInv' /\ ClicksHitTheirFrame'
  BY <1>2 DEF Close, Discard
<1>3. ASSUME NEW s \in SessionIds, Unsubscribe(s)
      PROVE  ClickInv' /\ ClicksHitTheirFrame'
  BY <1>3 DEF Unsubscribe
<1>4. ASSUME NEW s \in SessionIds, NEW consent \in Consents, SendInput(s, consent)
      PROVE  ClickInv' /\ ClicksHitTheirFrame'
  BY <1>4 DEF SendInput, Discard
<1>5. ASSUME NEW s \in SessionIds, NEW consent \in Consents, CaptureFrame(s, consent)
      PROVE  ClickInv' /\ ClicksHitTheirFrame'
  BY <1>5 DEF CaptureFrame, Discard
<1>6. ASSUME NEW s \in SessionIds, NEW consent \in Consents, Subscribe(s, consent)
      PROVE  ClickInv' /\ ClicksHitTheirFrame'
  BY <1>6 DEF Subscribe, Discard
<1>7. ASSUME NEW s \in SessionIds, NEW consent \in Consents, NextUpdateFails(s, consent)
      PROVE  ClickInv' /\ ClicksHitTheirFrame'
  BY <1>7 DEF NextUpdateFails, Discard
<1>8. ASSUME NEW s \in SessionIds, NEW consent \in Consents,
             NEW baseline \in Frames \cup {None}, Observe(s, consent, baseline)
      PROVE  ClickInv' /\ ClicksHitTheirFrame'
  BY <1>8 DEF Observe, BeginObservation, TakeObservation
<1>9. ASSUME NEW s \in SessionIds, NEW consent \in Consents, NEW frame \in Frames \cup {None},
             NEW points \in 0..MaximumSteps, NEW keys \in 0..MaximumSteps,
             NEW observe \in BOOLEAN, Interact(s, consent, frame, points, keys, observe)
      PROVE  ClickInv' /\ ClicksHitTheirFrame'
  BY <1>9 DEF Interact
<1>10. CASE MappingLost
  BY <1>10 DEF MappingLost, Discard, Idle
<1>11. CASE MappingBefore
  BY <1>11 DEF MappingBefore, FrameMapping
<1>12. CASE CaptureObserved
  BY <1>12 DEF CaptureObserved, Idle
<1>13. CASE CaptureFails
  BY <1>13 DEF CaptureFails, Discard, Idle
<1>14. CASE MappingAfter
  BY <1>14 DEF MappingAfter, StableMapping, FrameMapping, Idle
<1>15. CASE InteractMapping
  <2>1. /\ op \in Operation /\ op.session \in SessionIds
        /\ sessions[op.session] \in DesktopSessionEntry
    BY <1>15, OpLive DEF InteractMapping
  <2>2. ClickInv /\ ClicksHitTheirFrame /\ UNCHANGED <<clicks, capturedIn>>
    BY <1>15 DEF InteractMapping
  <2>3. CASE ObservationUsable
    <3> DEFINE seen == sessions[op.session].observation
    <3>1. /\ seen # None /\ seen \in Observation /\ seen.mapping # None
          /\ op.frame = seen.id
          /\ capturedIn[seen.id] = seen.mapping
      BY <2>1, <2>3 DEF ObservationUsable
    <3>2. op' = [op EXCEPT !.mapping = seen.mapping]
      BY <1>15, <2>3 DEF InteractMapping
    <3>3. op'.frame = op.frame /\ op'.mapping = seen.mapping
      BY <2>1, <3>2
    <3>4. op.frame \in Frames
      BY <3>1
    <3> HIDE DEF seen, IInv, TypeOK, OpInv, ObservationInv, FrameInv
    <3> QED
      BY <2>2, <3>1, <3>3, <3>4
  <2>4. CASE ~ObservationUsable
    <3>1. phase' = "idle"
      BY <1>15, <2>4 DEF InteractMapping, Idle
    <3> HIDE DEF IInv, TypeOK, OpInv, ObservationInv, FrameInv
    <3> QED
      BY <2>2, <3>1
  <2> QED
    BY <2>3, <2>4
<1>16. CASE ClickStep
  <2>1. op \in Operation /\ op.points \in 0..MaximumSteps
    BY <1>16, OpLive DEF ClickStep
  <2>2. /\ op.frame \in Frames
        /\ op.mapping # None
        /\ capturedIn[op.frame] = op.mapping
    BY <1>16 DEF ClickStep
  <2>3. generation[LeaseOf(op.session)] = op.mapping
    BY <1>16, <2>2 DEF ClickStep, PointIsCurrent, FrameMapping
  <2>4. /\ clicks' = clicks \cup {[lease |-> LeaseOf(op.session), frame |-> op.frame,
                                   generation |-> generation[LeaseOf(op.session)]]}
        /\ op' = [op EXCEPT !.points = @ - 1]
        /\ UNCHANGED <<capturedIn, phase>>
    BY <1>16 DEF ClickStep
  <2>5. op'.frame = op.frame /\ op'.mapping = op.mapping
    BY <2>1, <2>4
  <2>6. ClickInv /\ ClicksHitTheirFrame
    OBVIOUS
  <2> HIDE DEF IInv, TypeOK, OpInv, ObservationInv, FrameInv, LeaseOf
  <2>7. ClickInv'
    BY <2>2, <2>4, <2>5, <2>6
  <2>8. ClicksHitTheirFrame'
    BY <2>2, <2>3, <2>4, <2>6
  <2> QED
    BY <2>7, <2>8
<1>17. CASE KeyStep
  BY <1>17 DEF KeyStep
<1>18. CASE InteractFails
  BY <1>18 DEF InteractFails, Discard, Idle
<1>19. CASE InteractCompletes
  BY <1>19 DEF InteractCompletes, BeginObservation, TakeObservation, Idle
<1>20. CASE ForgetAuthorization
  BY <1>20 DEF ForgetAuthorization, DiscardAll, Live
<1>21. CASE Drop
  BY <1>21 DEF Drop, DiscardAll, Live
<1>22. ASSUME NEW l \in Leases, DeviceChange(l)
      PROVE  ClickInv' /\ ClicksHitTheirFrame'
  BY <1>22 DEF DeviceChange
<1>23. CASE Dropped
  BY <1>23 DEF Dropped, vars
<1> HIDE DEF IInv, TypeOK, ObservationInv, FrameInv, ClickInv,
      ClicksHitTheirFrame
<1>24. ASSUME NEW s \in SessionIds, Request(s)
      PROVE  ClickInv' /\ ClicksHitTheirFrame'
  BY <1>1, <1>2, <1>3, <1>4, <1>5, <1>6, <1>7, <1>8, <1>9, <1>24 DEF Request
<1>25. CASE Continue
  BY <1>10, <1>11, <1>12, <1>13, <1>14, <1>15, <1>16, <1>17, <1>18, <1>19, <1>25
     DEF Continue
<1> QED
  BY <1>20, <1>21, <1>22, <1>23, <1>24, <1>25 DEF Next

----------------------------------------------------------------------------
\* The inductive invariant holds in every reachable state: what the session module
\* knows of leases, frames and mappings stays true while devices come and go.
THEOREM SessionInvariant == Spec => []IInv
<1>1. Init => IInv
  <2> SUFFICES ASSUME Init PROVE IInv
    OBVIOUS
  <2> USE SessionAssumption DEF Init
  <2>1. TypeOK
    <3>1. /\ sessions \in [SessionIds -> DesktopSessionEntry \cup {None}]
          /\ leases \in [Leases -> LeaseStates]
          /\ generation \in [Leases -> Generations]
      BY DEF LeaseStates, Generations
    <3>2. /\ newest \in [Leases -> Frames \cup {None}]
          /\ capturedIn \in [Frames -> Generations \cup {None}]
      OBVIOUS
    <3>3. phase \in Phases /\ started \in 0..MaximumFrames
      BY DEF Phases
    <3>4. clicks \subseteq [lease : Leases, frame : Frames, generation : Generations]
      OBVIOUS
    <3> QED
      BY <3>1, <3>2, <3>3, <3>4, Zenon DEF TypeOK
  <2>2. LeaseOwnership /\ OpInv
    BY DEF LeaseOwnership, OpInv, Live
  <2>3. ObservationInv /\ FrameInv
    BY DEF ObservationInv, FrameInv, Observing
  <2>4. ClickInv /\ ClicksHitTheirFrame
    BY DEF ClickInv, ClicksHitTheirFrame
  <2> QED
    BY <2>1, <2>2, <2>3, <2>4 DEF IInv
<1>2. IInv /\ [Next]_vars => IInv'
  <2>1. ASSUME IInv, Next PROVE IInv'
    BY <2>1, TypeStep, OwnershipStep, ObservationStep, FrameStep, ClickStepSafe DEF IInv
  <2>2. ASSUME IInv, UNCHANGED vars PROVE IInv'
    BY <2>2 DEF IInv, TypeOK, LeaseOwnership, OpInv, ObservationInv, FrameInv, ClickInv,
       ClicksHitTheirFrame, Live, LeaseOf, vars
  <2> QED
    BY <2>1, <2>2
<1> QED
  BY <1>1, <1>2, PTL DEF Spec

\* The variables keep their types, and an operation is running exactly when the
\* module is neither idle nor dropped.
THEOREM SessionTypeCorrect == Spec => []TypeOK
<1>1. IInv => TypeOK
  BY DEF IInv
<1> QED
  BY <1>1, SessionInvariant, PTL

\* No operation of the session module, whichever step of it fails, leaks a native
\* lease, shares one between sessions, or leaves a subscription worker behind.
THEOREM LeasesAreOwned == Spec => []LeaseOwnership
<1>1. IInv => LeaseOwnership
  BY DEF IInv
<1> QED
  BY <1>1, SessionInvariant, PTL

\* A click is sent only in the device generation in which its frame was captured,
\* for any number of device changes at any moment of observe and interact.
THEOREM ClicksAreSafe == Spec => []ClicksHitTheirFrame
<1>1. IInv => ClicksHitTheirFrame
  BY DEF IInv
<1> QED
  BY <1>1, SessionInvariant, PTL

\* A failed or interrupted observation revives no older frame.
THEOREM LatestFrameOnly == Spec => []OnlyLatestFrame
<1>1. IInv => OnlyLatestFrame
  BY DEF IInv, ObservationInv, OnlyLatestFrame, Live
<1> QED
  BY <1>1, SessionInvariant, PTL
============================================================================
