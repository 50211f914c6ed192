------------------------- MODULE DesktopBrokerProofs ------------------------
(***************************************************************************)
(* Proofs about the stdio broker, for any set of requests, any sizes of    *)
(* ledger, registry and queue, and any number of frames.  What the owner   *)
(* and its readers keep together is in BrokerOwnerProofs; here every       *)
(* action of the transport is shown to be a step of one of its kinds.      *)
(***************************************************************************)
EXTENDS DesktopBroker, BrokerOwnerProofs

\* The states of an owner that takes no more requests.
Over == {"exited"}

\* What the owner leaves to the transport.
TransportTypeOK ==
    /\ owner \in OwnerStates
    /\ owner = "recheck" => current \in Requests
    /\ reader \in ReaderStates
    /\ held \in Requests \cup {None}
    /\ reader = "enqueue" => held \in Requests
    /\ queue \in Seq(Requests \cup {Eof})
    /\ terminal \in 0..3
    /\ exit \in Exits
    /\ frames \in Nat

\* The end of the input is the last thing in the queue, and a request that a full queue
\* turned away the last one read.
QueueInv ==
    /\ \A i \in 1..Len(queue) : queue[i] = Eof => i = Len(queue) /\ reader = "done"
    /\ terminal = 3 => reader \in {"stop-all", "done"}

\* The reader's table is the ledger after the pending requests.
AgreeInv == terminal # 3 /\ owner # "exited" => Leads(OwnerJudged, Pending, Table)

IInv == SharedInv(Over) /\ TransportTypeOK /\ QueueInv /\ AgreeInv

\* The two parts of the type invariant.
LEMMA TypeParts == TypeOK <=> OwnerTypes /\ SemanticsTypeOK /\ TransportTypeOK
BY DEF TypeOK, OwnerTypes, OwnerTypeOK, SemanticsTypeOK, TransportTypeOK

\* Every step of the reader is a judgement, a stop of the running input, or nothing to
\* the owner.
LEMMA ReaderShared ==
    ASSUME IInv, ReaderNext PROVE SharedInv(Over)'
<1>1. ASSUME NEW request \in Requests, ReadRequest(request) PROVE SharedInv(Over)'
  BY <1>1, PrepareKeeps DEF ReadRequest, IInv
<1>2. CASE StopAll
  BY <1>2, StopAllKeeps DEF StopAll, IInv
<1>3. ASSUME UNCHANGED <<entries, ownerVars, fingerprints, readerReserve>>
      PROVE  SharedInv(Over)'
  BY <1>3, OtherKeeps DEF IInv
<1>4. CASE (\E code \in {1, 2} : ReadBadFrame(code)) \/ Enqueue \/ ReadEof \/ SendEof
  BY <1>3, <1>4 DEF ReadBadFrame, Enqueue, ReadEof, SendEof
<1> QED
  BY <1>1, <1>2, <1>4 DEF ReaderNext

\* Every step of the owner is one of handle, an answer, or a move between two requests.
LEMMA OwnerShared ==
    ASSUME IInv, OwnerNext PROVE SharedInv(Over)'
<1> USE DEF Over, HandlingStates
<1>1. CASE HandleRequest
  BY <1>1, HandleKeeps DEF HandleRequest, readerVars, IInv
<1>2. CASE Respond
  BY <1>2, ReplyKeeps DEF Respond, IsShutdown, Leave, readerVars, IInv
<1>3. CASE WriteReady \/ CheckTerminal \/ ReceiveEnd \/ RecheckTerminal
  <2>1. current \in Requests \cup {None}
    BY DEF IInv, SharedInv, OwnerInv, OwnerTypes, OwnerTypeOK
  <2>2. owner' = "handle" => current' \in Requests
    BY <1>3 DEF WriteReady, CheckTerminal, ReceiveEnd, RecheckTerminal, Leave, IInv,
       TransportTypeOK
  <2> QED
    BY <1>3, <2>1, <2>2, IdleKeeps
       DEF WriteReady, CheckTerminal, ReceiveEnd, RecheckTerminal, Leave, readerVars, IInv
<1>4. CASE ReceiveRequest
  <2>1. current' \in Requests
    BY <1>4 DEF ReceiveRequest, IInv, TransportTypeOK
  <2> QED
    BY <1>4, <2>1, IdleKeeps DEF ReceiveRequest, readerVars, IInv
<1> QED
  BY <1>1, <1>2, <1>3, <1>4 DEF OwnerNext

\* Every step keeps the types of the transport.
LEMMA TransportTypeStep ==
    ASSUME IInv, Next PROVE TransportTypeOK'
<1> USE DEF IInv, TransportTypeOK, ReaderStates, Exits, OwnerStates, HandlingStates
<1>1. ASSUME NEW request \in Requests, ReadRequest(request) PROVE TransportTypeOK'
  BY <1>1 DEF ReadRequest, ownerVars
<1>2. ASSUME NEW code \in {1, 2}, ReadBadFrame(code) PROVE TransportTypeOK'
  BY <1>2 DEF ReadBadFrame, ownerVars
<1>3. CASE Enqueue
  <2>1. queue' \in Seq(Requests \cup {Eof})
    BY <1>3 DEF Enqueue
  <2>2. terminal' \in 0..3 /\ reader' \in {"read", "stop-all", "done"} /\ held' = None
    BY <1>3 DEF Enqueue
  <2> QED
    BY <1>3, <2>1, <2>2 DEF Enqueue, ownerVars
<1>4. CASE StopAll
  BY <1>4 DEF StopAll, ownerVars
<1>5. CASE ReadEof
  BY <1>5 DEF ReadEof, ownerVars
<1>6. CASE SendEof
  BY <1>6 DEF SendEof, ownerVars
<1>7. CASE WriteReady \/ CheckTerminal \/ ReceiveEnd \/ RecheckTerminal
  BY <1>7 DEF WriteReady, CheckTerminal, ReceiveEnd, RecheckTerminal, Leave, readerVars
<1>8. CASE ReceiveRequest
  BY <1>8 DEF ReceiveRequest, readerVars
<1>9. CASE Respond
  BY <1>9 DEF Respond, Leave, readerVars
<1>10. CASE HandleRequest
  BY <1>10, HandleFrame DEF HandleRequest, readerVars
<1>11. CASE Exited
  BY <1>11 DEF Exited, vars, ownerVars, readerVars
<1> HIDE DEF IInv, TransportTypeOK
<1> QED
  BY <1>1, <1>2, <1>3, <1>4, <1>5, <1>6, <1>7, <1>8, <1>9, <1>10, <1>11
     DEF Next, ReaderNext, OwnerNext

----------------------------------------------------------------------------
\* The three parts of the line of pending requests.
LEMMA PendingType ==
    ASSUME TransportTypeOK, QueueInv,
           owner = "handle" => current \in Requests
    PROVE  /\ InHand \in Seq(Requests) /\ Waiting \in Seq(Requests)
           /\ JustJudged \in Seq(Requests) /\ Pending \in Seq(Requests)
<1>1. InHand \in Seq(Requests) /\ JustJudged \in Seq(Requests)
  BY DEF InHand, JustJudged, TransportTypeOK
<1>2. Waiting \in Seq(Requests)
  <2>1. CASE queue # <<>> /\ Last(queue) = Eof
    <3>1. Waiting = [i \in 1..Len(queue) - 1 |-> queue[i]] /\ Len(queue) - 1 \in Nat
      BY <2>1 DEF Waiting, Front, TransportTypeOK
    <3>2. \A i \in 1..Len(queue) - 1 : queue[i] \in Requests
      BY DEF TransportTypeOK, QueueInv
    <3> QED
      BY <3>1, <3>2, IsASeq
  <2>2. CASE ~(queue # <<>> /\ Last(queue) = Eof)
    <3>1. Waiting = queue
      BY <2>2 DEF Waiting
    <3>2. \A i \in 1..Len(queue) : queue[i] \in Requests
      BY <2>2 DEF TransportTypeOK, QueueInv, Last
    <3> QED
      BY <3>1, <3>2 DEF TransportTypeOK
  <2> QED
    BY <2>1, <2>2
<1> QED
  BY <1>1, <1>2, ConcatProperties DEF Pending

\* Every step keeps the end of the input at the end of the queue.
LEMMA QueueStep ==
    ASSUME IInv, Next PROVE QueueInv'
<1> USE DEF IInv, TransportTypeOK, QueueInv
<1>1. ASSUME NEW request \in Requests, ReadRequest(request) PROVE QueueInv'
  BY <1>1 DEF ReadRequest
<1>2. ASSUME NEW code \in {1, 2}, ReadBadFrame(code) PROVE QueueInv'
  BY <1>2 DEF ReadBadFrame
<1>3. CASE Enqueue
  BY <1>3, TransportAssumption DEF Enqueue
<1>4. CASE StopAll \/ ReadEof
  BY <1>4 DEF StopAll, ReadEof
<1>5. CASE SendEof
  BY <1>5 DEF SendEof
<1>6. CASE WriteReady \/ CheckTerminal \/ ReceiveEnd \/ RecheckTerminal \/ Respond
              \/ HandleRequest
  BY <1>6 DEF WriteReady, CheckTerminal, ReceiveEnd, RecheckTerminal, Respond, HandleRequest,
     readerVars
<1>7. CASE ReceiveRequest
  BY <1>7 DEF ReceiveRequest, readerVars
<1>8. CASE Exited
  BY <1>8 DEF Exited, vars, readerVars
<1> QED
  BY <1>1, <1>2, <1>3, <1>4, <1>5, <1>6, <1>7, <1>8 DEF Next, ReaderNext, OwnerNext

\* Every step keeps the reader's table in agreement with the ledger.
LEMMA AgreeStep ==
    ASSUME IInv, Next PROVE AgreeInv'
<1> SUFFICES ASSUME terminal' # 3, owner' # "exited"
             PROVE  Leads(OwnerJudged', Pending', Table')
  BY DEF AgreeInv
<1>1. terminal # 3 /\ owner # "exited"
  BY DEF Next, ReaderNext, ReadRequest, Enqueue, ReadBadFrame, StopAll, ReadEof, SendEof,
     OwnerNext, WriteReady, CheckTerminal, ReceiveRequest, ReceiveEnd, RecheckTerminal,
     HandleRequest, HandleStep, Handle, ExecuteCancel, ExecuteOther, PreflightFails, BeginInput,
     Checkpoint, Emit, EmitFails, Release, PostObserve, Record, Respond, Exited, vars, ownerVars,
     IInv, QueueInv
<1>2. Leads(OwnerJudged, Pending, Table)
  BY <1>1 DEF IInv, AgreeInv
<1>3. owner = "handle" => current \in Requests
  BY DEF IInv, SharedInv, OwnerInv, OwnerTypes, OwnerTypeOK, HandlingStates
<1>4. /\ InHand \in Seq(Requests) /\ Waiting \in Seq(Requests)
      /\ JustJudged \in Seq(Requests) /\ Pending \in Seq(Requests)
  BY <1>3, PendingType DEF IInv
<1>5. ASSUME UNCHANGED <<OwnerJudged, Pending, Table>>
      PROVE  Leads(OwnerJudged', Pending', Table')
  BY <1>2, <1>5
<1>6. ASSUME UNCHANGED ownerVars PROVE UNCHANGED <<OwnerJudged, InHand>>
  BY <1>6 DEF ownerVars, OwnerJudged, InHand
<1>7. ASSUME NEW request \in Requests, ReadRequest(request)
      PROVE  Leads(OwnerJudged', Pending', Table')
  <2>1. UNCHANGED <<OwnerJudged, InHand, Waiting>>
    BY <1>6, <1>7 DEF ReadRequest, Waiting
  <2>2. JustJudged = <<>> /\ JustJudged' = <<request>>
    BY <1>7 DEF ReadRequest, JustJudged
  <2>3. Pending' = Append(Pending, request)
    BY <1>4, <2>1, <2>2, ConcatAppend DEF Pending
  <2>4. Table' = JudgeNext(Table, request)
    BY <1>7, PrepareJudges DEF ReadRequest
  <2> QED
    BY <1>2, <1>4, <2>1, <2>3, <2>4, LeadsAppend
<1>8. CASE Enqueue
  <2>1. /\ reader = "enqueue" /\ reader' = "read" /\ queue' = Append(queue, held)
        /\ held \in Requests /\ queue \in Seq(Requests \cup {Eof})
        /\ UNCHANGED <<ownerVars, Table>>
    BY <1>1, <1>8 DEF Enqueue, ownerVars, Table, IInv, TransportTypeOK
  <2>2. Waiting = queue /\ Waiting' = Append(queue, held)
    <3>1. queue # <<>> => Last(queue) # Eof
      BY <2>1 DEF IInv, QueueInv, Last
    <3>2. Last(Append(queue, held)) = held
      BY <2>1 DEF Last
    <3> QED
      BY <2>1, <3>1, <3>2, TransportAssumption DEF Waiting
  <2>3. JustJudged = <<held>> /\ JustJudged' = <<>>
    BY <2>1 DEF JustJudged
  <2>4. Pending' = Pending
    BY <1>4, <1>6, <2>1, <2>2, <2>3, ConcatAppend DEF Pending
  <2> QED
    BY <1>5, <1>6, <2>1, <2>4
<1>9. CASE (\E code \in {1, 2} : ReadBadFrame(code)) \/ StopAll \/ ReadEof
  <2>1. UNCHANGED <<OwnerJudged, InHand, Waiting, JustJudged, Table>>
    BY <1>6, <1>9 DEF ReadBadFrame, StopAll, ReadEof, Waiting, JustJudged, Table
  <2> QED
    BY <1>5, <2>1 DEF Pending
<1>10. CASE SendEof
  <2>1. /\ reader = "eof" /\ queue' = Append(queue, Eof) /\ reader' = "done"
        /\ queue \in Seq(Requests \cup {Eof})
        /\ UNCHANGED <<ownerVars, Table>>
    BY <1>1, <1>10 DEF SendEof, Table, IInv, TransportTypeOK
  <2>2. Waiting = queue /\ Waiting' = queue
    <3>1. queue # <<>> => Last(queue) # Eof
      BY <2>1 DEF IInv, QueueInv, Last
    <3>2. Last(Append(queue, Eof)) = Eof /\ Append(queue, Eof) # <<>>
      BY <2>1 DEF Last
    <3>3. Front(Append(queue, Eof)) = queue
      <4>1. Front(Append(queue, Eof)) = [i \in 1..Len(queue) |-> queue[i]]
        BY <2>1 DEF Front
      <4> QED
        BY <2>1, <4>1
    <3> QED
      BY <2>1, <3>1, <3>2, <3>3 DEF Waiting
  <2>3. UNCHANGED JustJudged
    BY <2>1 DEF JustJudged
  <2> QED
    BY <1>5, <1>6, <2>1, <2>2, <2>3 DEF Pending
<1>11. CASE WriteReady \/ CheckTerminal \/ RecheckTerminal \/ ReceiveEnd
  <2>1. UNCHANGED <<OwnerJudged, InHand, Waiting, JustJudged, Table>>
    BY <1>11 DEF WriteReady, CheckTerminal, RecheckTerminal, ReceiveEnd, Leave, OwnerJudged,
       InHand, Waiting, JustJudged, Table, readerVars
  <2> QED
    BY <1>5, <2>1 DEF Pending
<1>12. CASE ReceiveRequest
  <2>1. /\ queue # <<>> /\ Head(queue) # Eof /\ queue' = Tail(queue)
        /\ queue \in Seq(Requests \cup {Eof})
        /\ UNCHANGED <<JustJudged, OwnerJudged, Table>>
    BY <1>12 DEF ReceiveRequest, IInv, TransportTypeOK, JustJudged, OwnerJudged, Table,
       readerVars
  <2>2. InHand = <<>> /\ InHand' = <<Head(queue)>>
    BY <1>12 DEF ReceiveRequest, InHand
  <2>3. Waiting # <<>> /\ Head(Waiting) = Head(queue) /\ Waiting' = Tail(Waiting)
    <3>1. Len(queue) \in Nat \ {0} /\ Head(queue) = queue[1]
      BY <2>1
    <3>2. CASE Last(queue) = Eof
      <4>1. Len(queue) >= 2
        BY <2>1, <3>1, <3>2 DEF Last
      <4>2. Waiting = [i \in 1..Len(queue) - 1 |-> queue[i]]
        BY <2>1, <3>2 DEF Waiting, Front
      <4>3. Last(Tail(queue)) = Eof /\ Tail(queue) # <<>>
        <5>1. /\ Len(Tail(queue)) = Len(queue) - 1
              /\ Tail(queue)[Len(queue) - 1] = queue[Len(queue)]
          BY <2>1, <3>1, <4>1
        <5> QED
          BY <3>1, <3>2, <4>1, <5>1 DEF Last
      <4>4. Waiting' = [i \in 1..Len(queue) - 2 |-> queue[i + 1]]
        BY <2>1, <4>1, <4>3 DEF Waiting, Front
      <4>5. Len(Waiting) = Len(queue) - 1 /\ Waiting[1] = queue[1]
        BY <3>1, <4>1, <4>2
      <4>6. Tail(Waiting) = [i \in 1..Len(queue) - 2 |-> queue[i + 1]]
        BY <1>4, <3>1, <4>1, <4>2, <4>5
      <4> QED
        BY <1>4, <3>1, <4>1, <4>4, <4>5, <4>6
    <3>3. CASE Last(queue) # Eof
      <4>1. Waiting = queue
        BY <3>3 DEF Waiting
      <4>2. Tail(queue) # <<>> => Last(Tail(queue)) = Last(queue)
        BY <2>1, <3>1 DEF Last
      <4>3. Waiting' = Tail(queue)
        BY <2>1, <3>3, <4>2 DEF Waiting
      <4> QED
        BY <2>1, <4>1, <4>3
    <3> QED
      BY <3>2, <3>3
  <2>4. InHand \o Waiting = InHand' \o Waiting'
    BY <1>4, <2>2, <2>3, ConcatMove
  <2> QED
    BY <1>5, <2>1, <2>4 DEF Pending
<1>13. CASE Respond
  <2>1. UNCHANGED <<OwnerJudged, InHand, Waiting, JustJudged, Table>>
    BY <1>13 DEF Respond, Leave, OwnerJudged, InHand, Waiting, JustJudged, Table,
       readerVars
  <2> QED
    BY <1>5, <2>1 DEF Pending
<1>14. CASE HandleRequest
  <2>1. UNCHANGED <<Waiting, JustJudged, Table>>
    BY <1>14 DEF HandleRequest, Waiting, JustJudged, Table, readerVars
  <2>2. InHand' = <<>>
    BY <1>14 DEF HandleRequest, HandleStep, Handle, Invalid, Replay, Conflict, LedgerFull, Accept,
       Reply, ExecuteCancel, ExecuteOther, PreflightFails, BeginInput, Checkpoint, Emit,
       EmitFails, Release, PostObserve, Record, Conclude, CutShort, InHand
  <2>3. CASE owner = "handle"
    <3>1. Handle
      BY <1>14, <2>3 DEF HandleRequest, HandleStep, ExecuteCancel, ExecuteOther, PreflightFails,
         BeginInput, Checkpoint, Emit, EmitFails, Release, PostObserve, Record
    <3>2. InHand = <<current>> /\ current \in Requests
      BY <1>3, <2>3 DEF InHand
    <3>3. Head(Pending) = current /\ Pending # <<>> /\ Tail(Pending) = Pending'
      BY <1>4, <2>1, <2>2, <3>2, ConcatHead DEF Pending
    <3>4. OwnerJudged' = JudgeNext(OwnerJudged, Head(Pending))
      BY <3>1, <3>3, HandleJudges DEF IInv, SharedInv
    <3> QED
      BY <1>2, <1>4, <2>1, <3>3, <3>4, LeadsTail
  <2>4. CASE owner # "handle"
    <3>1. InHand = <<>>
      BY <1>14, <2>4, HandleFrame, <1>1 DEF HandleRequest, InHand, HandlingStates
    <3>2. OwnerJudged' = OwnerJudged
      BY <1>14, <2>4, ExecutionJudgesNothing DEF HandleRequest, IInv, SharedInv
    <3> QED
      BY <1>5, <2>1, <2>2, <3>1, <3>2 DEF Pending
  <2> QED
    BY <2>3, <2>4
<1>15. CASE Exited
  BY <1>1, <1>15 DEF Exited
<1> QED
  BY <1>7, <1>8, <1>9, <1>10, <1>11, <1>12, <1>13, <1>14, <1>15
     DEF Next, ReaderNext, OwnerNext

----------------------------------------------------------------------------
\* The inductive invariant holds in every reachable state of the stdio broker.
THEOREM BrokerInvariant == Spec => []IInv
<1>1. Init => IInv
  <2> SUFFICES ASSUME Init PROVE IInv
    OBVIOUS
  <2>1. SharedInv(Over)
    BY InitShared DEF Init, HandlingStates
  <2>2. TransportTypeOK
    BY DEF Init, OwnerInit, TransportTypeOK, OwnerStates, ReaderStates, Exits
  <2>3. QueueInv
    BY DEF Init, QueueInv
  <2>4. AgreeInv
    <3>1. Pending = <<>> /\ OwnerJudged = Table
      BY DEF Init, OwnerInit, SemanticsInit, Pending, InHand, Waiting, JustJudged, OwnerJudged,
         Table
    <3> QED
      BY <3>1, LeadsNowhere DEF AgreeInv
  <2> QED
    BY <2>1, <2>2, <2>3, <2>4 DEF IInv
<1>2. IInv /\ [Next]_vars => IInv'
  <2>1. ASSUME IInv, UNCHANGED vars PROVE IInv'
    <3>1. SharedInv(Over)'
      BY <2>1, OtherKeeps DEF IInv, vars, ownerVars, readerVars
    <3>2. TransportTypeOK' /\ QueueInv'
      BY <2>1 DEF IInv, TransportTypeOK, QueueInv, vars, ownerVars, readerVars
    <3>3. AgreeInv'
      BY <2>1 DEF IInv, AgreeInv, OwnerJudged, Pending, InHand, Waiting, JustJudged, Table, vars,
         ownerVars, readerVars
    <3> QED
      BY <3>1, <3>2, <3>3 DEF IInv
  <2>2. ASSUME IInv, Next PROVE IInv'
    <3>1. TransportTypeOK' /\ QueueInv' /\ AgreeInv'
      BY <2>2, TransportTypeStep, QueueStep, AgreeStep
    <3> QED
      BY <2>1, <2>2, <3>1, ReaderShared, OwnerShared DEF Next, Exited, IInv
  <2> QED
    BY <2>1, <2>2
<1> QED
  BY <1>1, <1>2, PTL DEF Spec

\* Both threads keep the types of what they share and of what they own; the
\* events an input counts as sent stay within the limit of one request.
THEOREM BrokerTypeCorrect == Spec => []TypeOK
<1>1. IInv => TypeOK
  BY TypeParts DEF IInv, SharedInv, OwnerInv
<1> QED
  BY <1>1, BrokerInvariant, PTL

\* A cancel that arrives while its target runs lets at most one more write through, a
\* cancel that arrives before its target nothing, however reader and owner interleave;
\* and an input that confirms its releases has left no key down.
THEOREM CancelsStopInputs == Spec => []CancelStopsInput
<1>1. IInv => CancelStopsInput
  BY DEF IInv, SharedInv, OwnerInv
<1> QED
  BY <1>1, BrokerInvariant, PTL

\* What the broker answers to a cancel agrees with what it answered to the target.
THEOREM CancelStatusesAreTruthful == Spec => []CancelStatusTruthful
<1>1. IInv => CancelStatusTruthful
  BY DEF IInv, SharedInv, OwnerInv
<1> QED
  BY <1>1, BrokerInvariant, PTL

\* However full the ledger is, a shutdown that is new to it is admitted.
THEOREM ShutdownsAreAdmitted == Spec => []ShutdownAlwaysAdmitted
<1>1. IInv => ShutdownAlwaysAdmitted
  BY DEF IInv, SharedInv
<1> QED
  BY <1>1, BrokerInvariant, PTL

\* A cancel that the reader has accepted is on the token of its target when the target
\* runs, whichever of the two came first; only an input that found no room in the
\* registry runs without.
THEOREM AcceptedCancelsReachInputs == Spec => []CancelReachesInput
<1>1. IInv => CancelReachesInput
  BY HeardReaches DEF IInv
<1> QED
  BY <1>1, BrokerInvariant, PTL

\* The reader judges every request as the owner will: its table is the ledger with the
\* pending requests judged in turn, until a full queue turns a request away.
THEOREM ReaderJudgesAsOwner == Spec => []ReaderAgreesWithOwner
<1>1. IInv => ReaderAgreesWithOwner
  <2> SUFFICES ASSUME IInv, terminal # 3, owner # "exited"
               PROVE  JudgeAll(OwnerJudged, Pending) = Table
    BY DEF ReaderAgreesWithOwner, Table
  <2>1. owner = "handle" => current \in Requests
    BY DEF IInv, SharedInv, OwnerInv, OwnerTypes, OwnerTypeOK, HandlingStates
  <2>2. Pending \in Seq(Requests)
    BY <2>1, PendingType DEF IInv
  <2> QED
    BY <2>2, LeadsMeans DEF IInv, AgreeInv
<1> QED
  BY <1>1, BrokerInvariant, PTL

----------------------------------------------------------------------------
\* Every step of the broker is a step of OncePerNonce or changes nothing of it.
LEMMA RefinementStep ==
    ASSUME IInv, Next PROVE [Abstract!Next]_Abstract!vars
<1> USE DEF Abstract!vars
<1>1. ASSUME UNCHANGED <<ledger, effects, releases, replies>>
      PROVE  [Abstract!Next]_Abstract!vars
  BY <1>1
<1>2. CASE ReaderNext
  <2>1. UNCHANGED ownerVars
    BY <1>2 DEF ReaderNext, ReadRequest, ReadBadFrame, Enqueue, StopAll, ReadEof, SendEof
  <2> QED
    BY <1>1, <2>1 DEF ownerVars
<1>3. CASE WriteReady \/ CheckTerminal \/ ReceiveRequest \/ ReceiveEnd \/ RecheckTerminal
  BY <1>1, <1>3 DEF WriteReady, CheckTerminal, ReceiveRequest, ReceiveEnd, RecheckTerminal
<1>4. CASE HandleRequest
  BY <1>4, HandleRefines DEF HandleRequest, IInv, SharedInv
<1>5. CASE Respond
  <2>1. CASE UNCHANGED replies
    BY <1>1, <1>5, <2>1 DEF Respond
  <2>2. CASE replies' = replies \cup {<<current, response>>}
    BY <1>5, <2>2, ReplyRefines DEF Respond, Abstract!Next, IInv, SharedInv
  <2> QED
    BY <1>5, <2>1, <2>2 DEF Respond
<1>6. CASE Exited
  BY <1>1, <1>6 DEF Exited, vars, ownerVars
<1> QED
  BY <1>2, <1>3, <1>4, <1>5, <1>6 DEF Next, OwnerNext

\* The stdio broker implements OncePerNonce: a nonce is executed once, its recorded
\* response never denies an event that left, and replays give that response again.
THEOREM BrokerExecutesOncePerNonce == Spec => RefinesOncePerNonce
<1>1. Init => Abstract!Init
  BY DEF Init, OwnerInit, SemanticsInit, Abstract!Init
<1>2. IInv /\ [Next]_vars => [Abstract!Next]_Abstract!vars
  <2>1. ASSUME UNCHANGED vars PROVE UNCHANGED Abstract!vars
    BY <2>1 DEF vars, ownerVars, Abstract!vars
  <2> QED
    BY <2>1, RefinementStep
<1> QED
  BY <1>1, <1>2, BrokerInvariant, PTL DEF Spec, RefinesOncePerNonce, Abstract!Spec
============================================================================
