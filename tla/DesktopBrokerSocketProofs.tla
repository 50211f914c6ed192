--------------------- MODULE DesktopBrokerSocketProofs ---------------------
(***************************************************************************)
(* Proofs about the socket broker and its clients, for any set of calls    *)
(* and requests, any limit of readers and any size of queue, ledger and    *)
(* registry.  What the owner and its readers keep together is in           *)
(* BrokerOwnerProofs; here every action of the transport is shown to be a  *)
(* step of one of its kinds, and a request is followed from the call that  *)
(* sent it to the response that the call reports.                          *)
(***************************************************************************)
EXTENDS DesktopBrokerSocket, BrokerOwnerProofs

\* The states of an owner that takes no more requests.
Over == {"stop", "wake", "join", "exited"}

ConnectionStates ==
    {"none", "backlog", "accepted", "reading", "judged", "queued", "serving", "closed"}

\* The types of the clients and of the transport.
TransportTypeOK ==
    /\ owner \in OwnerStates
    /\ call \in [Calls -> {"new", "sent", "done"}]
    /\ asked \in [Calls -> Requests \cup {None}]
    /\ result \in [Calls -> Response \cup {None, Failed, Unknown}]
    /\ conn \in [Calls -> ConnectionStates]
    /\ answer \in [Calls -> Response \cup TerminalErrors \cup {None}]
    /\ backlog \in Seq(Calls \cup {Wake})
    /\ acceptor \in {"check", "accept", "admit", "done"}
    /\ accepted \in Calls \cup {Wake, None}
    /\ queue \in Seq(Calls)
    /\ Len(queue) <= MaximumPendingFrames
    /\ serving \in Calls \cup {None}
    /\ owner \in HandlingStates => serving \in Calls /\ asked[serving] = current
    /\ stopping \in BOOLEAN
    /\ turnedAway \subseteq Calls

\* The readers never outnumber their limit.
ReadersInv == IsFiniteSet(Readers) /\ Cardinality(Readers) <= ConnectionLimit

\* A connection belongs to a call that has been made, and what a reader has judged is a
\* request until the owner has answered it.
ConnectionInv ==
    /\ \A c \in Calls : call[c] = "new" => conn[c] = "none" /\ answer[c] = None
    /\ \A c \in Calls : call[c] # "done" => result[c] = None
    /\ \A i \in DOMAIN backlog : backlog[i] \in Calls => call[backlog[i]] # "new"
    /\ accepted \in Calls => call[accepted] # "new"
    /\ \A c \in Calls : conn[c] = "judged" => asked[c] \in Requests
    /\ \A i \in DOMAIN queue : call[queue[i]] # "new" /\ asked[queue[i]] \in Requests
    /\ owner \in HandlingStates => call[serving] # "new"

\* The response r is the one that these records hold for the request.
OnRecord(request, records, r) ==
    r \in Response /\ r.outcome \notin Refusals =>
        /\ request \in Requests
        /\ records[request.nonce] = [fingerprint |-> request, response |-> r]

\* What a connection carries back and what its client reports is on record.
AnswerInv ==
    \A c \in Calls : /\ OnRecord(asked[c], ledger, answer[c])
                     /\ OnRecord(asked[c], ledger, result[c])

\* A connection that a reader has passed on.
Passed == {"queued", "serving", "closed"}

\* A connection is in one place of the transport at a time, and one reader at most is
\* between its judgement and try_send.
PlaceInv ==
    owner # "exited" =>
        /\ \A i \in DOMAIN backlog : backlog[i] \in Calls => conn[backlog[i]] = "backlog"
        /\ \A i, j \in DOMAIN backlog :
              backlog[i] \in Calls /\ backlog[i] = backlog[j] => i = j
        /\ accepted \in Calls => conn[accepted] = "accepted"
        /\ \A i \in DOMAIN queue : conn[queue[i]] \in Passed
        /\ owner \in HandlingStates => conn[serving] \in Passed
        /\ \A c, d \in Judging : c = d

\* The table of the readers is the ledger with the pending requests judged in turn.
AgreeInv ==
    turnedAway = {} /\ owner # "exited" => Leads(OwnerJudged, Pending, Table)

IInv ==
    /\ SharedInv(Over) /\ TransportTypeOK /\ ReadersInv /\ ConnectionInv /\ AnswerInv
    /\ PlaceInv /\ AgreeInv

\* The parts of the type invariant.
LEMMA TypeParts ==
    ASSUME OwnerTypes, SemanticsTypeOK, TransportTypeOK, ReadersInv PROVE TypeOK
BY DEF TypeOK, OwnerTypes, OwnerTypeOK, TransportTypeOK, ConnectionStates, ReadersInv,
   Readers

----------------------------------------------------------------------------
\* Steps of clients, of the accept loop and of the readers.
LEMMA OthersShared ==
    ASSUME IInv, ClientNext \/ AcceptorNext \/ ReaderNext PROVE SharedInv(Over)'
<1>1. ASSUME UNCHANGED <<entries, ownerVars, fingerprints, readerReserve>>
      PROVE  SharedInv(Over)'
  BY <1>1, OtherKeeps DEF IInv
<1>2. CASE ClientNext \/ AcceptorNext
  BY <1>1, <1>2 DEF ClientNext, Exchange, ReadResponse, AcceptorNext, AcceptLoop, Accept1,
     AcceptFails, AdmitConnection, semanticsVars
<1>3. ASSUME NEW c \in Calls, ReadFails(c) \/ TrySend(c) PROVE SharedInv(Over)'
  BY <1>1, <1>3 DEF ReadFails, TrySend, semanticsVars
<1>4. ASSUME NEW c \in Calls, Judge(c) PROVE SharedInv(Over)'
  <2>1. asked[c] \in Requests
    BY <1>4 DEF Judge, IInv, TransportTypeOK
  <2> QED
    BY <1>4, <2>1, PrepareKeeps DEF Judge, IInv
<1> QED
  BY <1>2, <1>3, <1>4 DEF ReaderNext

\* Steps of the owner.
LEMMA OwnerShared ==
    ASSUME IInv, OwnerNext PROVE SharedInv(Over)'
<1> USE DEF Over, HandlingStates
<1>1. CASE HandleStep /\ UNCHANGED <<semanticsVars, clientVars, transportVars>>
  BY <1>1, HandleKeeps DEF semanticsVars, IInv
<1>2. CASE Respond
  <2>1. owner' \in {"stop", "receive"}
    BY <1>2 DEF Respond
  <2> QED
    BY <1>2, <2>1, ReplyKeeps DEF Respond, semanticsVars, IInv
<1>3. CASE WriteReady \/ SendersGone \/ SetStopping \/ WakeAcceptor \/ Join
  <2>1. current \in Requests \cup {None}
    BY DEF IInv, SharedInv, OwnerInv, OwnerTypes, OwnerTypeOK
  <2> QED
    BY <1>3, <2>1, IdleKeeps DEF WriteReady, SendersGone, SetStopping, WakeAcceptor, Join,
       handlingVars, semanticsVars, IInv
<1>4. CASE Receive
  <2>1. current' \in Requests
    BY <1>4 DEF Receive, IInv, TransportTypeOK, ConnectionInv
  <2> QED
    BY <1>4, <2>1, IdleKeeps DEF Receive, handlingVars, semanticsVars, IInv
<1> QED
  BY <1>1, <1>2, <1>3, <1>4 DEF OwnerNext

----------------------------------------------------------------------------
\* The elements of a sequence with one appended.
LEMMA AppendFacts ==
    ASSUME NEW S, NEW s \in Seq(S), NEW x \in S
    PROVE  /\ Append(s, x) \in Seq(S)
           /\ Len(Append(s, x)) = Len(s) + 1
           /\ \A i \in DOMAIN Append(s, x) :
                 \/ i \in DOMAIN s /\ Append(s, x)[i] = s[i]
                 \/ Append(s, x)[i] = x
OBVIOUS

\* The elements of a sequence without its first.
LEMMA TailFacts ==
    ASSUME NEW S, NEW s \in Seq(S), s # <<>>
    PROVE  /\ Head(s) \in S /\ Tail(s) \in Seq(S)
           /\ Len(Tail(s)) = Len(s) - 1 /\ Len(s) \in Nat
           /\ 1 \in DOMAIN s /\ Head(s) = s[1]
           /\ \A i \in DOMAIN Tail(s) : i + 1 \in DOMAIN s /\ Tail(s)[i] = s[i + 1]
OBVIOUS

\* What the end of the accept loop leaves.
LEMMA CloseFacts ==
    ASSUME conn \in [Calls -> ConnectionStates], CloseListener
    PROVE  /\ conn' \in [Calls -> ConnectionStates]
           /\ backlog' = <<>> /\ backlog' \in Seq(Calls \cup {Wake})
           /\ acceptor' = "done" /\ accepted' = None
           /\ \A c \in Calls : conn'[c] \in {conn[c], "closed"}
           /\ \A c \in Calls : conn[c] = "none" => conn'[c] = "none"
BY DEF CloseListener, ConnectionStates

\* Every step of the clients, the accept loop and the readers keeps the types.
LEMMA OthersTypeStep ==
    ASSUME IInv, ClientNext \/ AcceptorNext \/ ReaderNext PROVE TransportTypeOK'
<1> USE DEF IInv, TransportTypeOK, transportVars, clientVars, ownerVars, TerminalErrors,
        OwnerStates, HandlingStates, ConnectionStates
<1>1. ASSUME NEW c \in Calls, Exchange(c) PROVE TransportTypeOK'
  <2>1. backlog' \in Seq(Calls \cup {Wake})
    <3>1. backlog' \in {backlog, Append(backlog, c)}
      BY <1>1 DEF Exchange, Report
    <3>2. backlog \in Seq(Calls \cup {Wake}) /\ c \in Calls \cup {Wake}
      OBVIOUS
    <3>3. Append(backlog, c) \in Seq(Calls \cup {Wake})
      BY <3>2, AppendFacts
    <3> QED
      BY <3>1, <3>2, <3>3
  <2>2. asked' \in [Calls -> Requests \cup {None}]
    BY <1>1, SocketAssumption DEF Exchange, Report
  <2>3. owner \in HandlingStates => asked'[serving] = current
    BY <1>1 DEF Exchange, Report, ConnectionInv
  <2>4. /\ call' \in [Calls -> {"new", "sent", "done"}]
        /\ result' \in [Calls -> Response \cup {None, Failed, Unknown}]
    BY <1>1 DEF Exchange, Report
  <2>5. conn' \in [Calls -> ConnectionStates]
    BY <1>1 DEF Exchange, Report
  <2> QED
    BY <1>1, <2>1, <2>2, <2>3, <2>4, <2>5 DEF Exchange
<1>2. ASSUME NEW c \in Calls, ReadResponse(c) PROVE TransportTypeOK'
  <2>1. /\ call' \in [Calls -> {"new", "sent", "done"}]
        /\ result' \in [Calls -> Response \cup {None, Failed, Unknown}]
    BY <1>2 DEF ReadResponse, Report
  <2> QED
    BY <1>2, <2>1 DEF ReadResponse
<1>3. CASE AcceptLoop
  <2>1. CASE stopping
    BY <1>3, <2>1, CloseFacts DEF AcceptLoop
  <2>2. CASE ~stopping
    BY <1>3, <2>2 DEF AcceptLoop
  <2> QED
    BY <2>1, <2>2
<1>4. CASE Accept1
  <2>1. Head(backlog) \in Calls \cup {Wake} /\ backlog' \in Seq(Calls \cup {Wake})
    BY <1>4, TailFacts DEF Accept1
  <2>2. conn' \in [Calls -> ConnectionStates]
    BY <1>4 DEF Accept1
  <2> QED
    BY <1>4, <2>1, <2>2 DEF Accept1
<1>5. CASE AcceptFails
  BY <1>5, CloseFacts DEF AcceptFails
<1>6. CASE AdmitConnection
  <2>1. CASE stopping
    BY <1>6, <2>1, CloseFacts DEF AdmitConnection
  <2>2. CASE ~stopping
    <3>1. /\ conn' \in [Calls -> ConnectionStates]
          /\ answer' \in [Calls -> Response \cup TerminalErrors \cup {None}]
      BY <1>6, <2>2 DEF AdmitConnection
    <3> QED
      BY <1>6, <2>2, <3>1 DEF AdmitConnection
  <2> QED
    BY <2>1, <2>2
<1>7. ASSUME NEW c \in Calls, ReadFails(c) PROVE TransportTypeOK'
  BY <1>7 DEF ReadFails
<1>8. ASSUME NEW c \in Calls, Judge(c) PROVE TransportTypeOK'
  BY <1>8 DEF Judge
<1>9. ASSUME NEW c \in Calls, TrySend(c) PROVE TransportTypeOK'
  <2>1. queue' \in Seq(Calls) /\ Len(queue') <= MaximumPendingFrames
    <3>1. Len(queue) \in Nat /\ queue \in Seq(Calls)
      OBVIOUS
    <3>2. CASE Len(queue) < MaximumPendingFrames
      <4>1. queue' = Append(queue, c)
        BY <1>9, <3>2 DEF TrySend
      <4> QED
        BY <3>1, <3>2, <4>1, AppendFacts, SocketAssumption
    <3>3. CASE ~(Len(queue) < MaximumPendingFrames)
      BY <1>9, <3>3 DEF TrySend
    <3> QED
      BY <3>2, <3>3
  <2>2. /\ conn' \in [Calls -> ConnectionStates]
        /\ answer' \in [Calls -> Response \cup TerminalErrors \cup {None}]
        /\ turnedAway' \subseteq Calls
    BY <1>9 DEF TrySend
  <2> QED
    BY <1>9, <2>1, <2>2 DEF TrySend
<1> HIDE DEF IInv, TransportTypeOK
<1> QED
  BY <1>1, <1>2, <1>3, <1>4, <1>5, <1>6, <1>7, <1>8, <1>9
     DEF ClientNext, AcceptorNext, ReaderNext

\* Every step of the owner keeps the types.
LEMMA OwnerTypesStep ==
    ASSUME IInv, OwnerNext PROVE TransportTypeOK'
<1> USE DEF IInv, TransportTypeOK, transportVars, clientVars, TerminalErrors, OwnerStates,
        handlingVars, HandlingStates, ConnectionStates
<1>1. CASE HandleStep /\ UNCHANGED <<semanticsVars, clientVars, transportVars>>
  BY <1>1, HandleFrame
<1>2. CASE WriteReady \/ SendersGone \/ SetStopping
  BY <1>2 DEF WriteReady, SendersGone, SetStopping
<1>3. CASE WakeAcceptor
  <2>1. backlog' \in Seq(Calls \cup {Wake})
    BY <1>3, AppendFacts DEF WakeAcceptor, WakeListener
  <2> QED
    BY <1>3, <2>1 DEF WakeAcceptor
<1>4. CASE Join
  BY <1>4 DEF Join
<1>5. CASE Receive
  <2>1. /\ Head(queue) \in Calls /\ queue' \in Seq(Calls)
        /\ Len(queue') <= MaximumPendingFrames
    BY <1>5, TailFacts, SocketAssumption DEF Receive
  <2>2. conn' \in [Calls -> ConnectionStates]
    BY <1>5 DEF Receive
  <2> QED
    BY <1>5, <2>1, <2>2 DEF Receive
<1>6. CASE Respond
  <2>1. response \in Response
    BY <1>6 DEF Respond, SharedInv, OwnerInv, OwnerTypes, OwnerTypeOK
  <2>2. /\ conn' \in [Calls -> ConnectionStates]
        /\ answer' \in [Calls -> Response \cup TerminalErrors \cup {None}]
        /\ owner' \in {"stop", "receive"}
    BY <1>6, <2>1 DEF Respond
  <2> QED
    BY <1>6, <2>2 DEF Respond
<1> HIDE DEF IInv, TransportTypeOK
<1> QED
  BY <1>1, <1>2, <1>3, <1>4, <1>5, <1>6 DEF OwnerNext

----------------------------------------------------------------------------
\* Readers that end leave at most as many.
LEMMA FewerReaders ==
    ASSUME ReadersInv, Readers' \subseteq Readers, SocketAssumption
    PROVE  ReadersInv'
<1>1. IsFiniteSet(Readers') /\ Cardinality(Readers') <= Cardinality(Readers)
  BY FS_Subset DEF ReadersInv
<1>2. Cardinality(Readers) \in Nat /\ Cardinality(Readers') \in Nat
  BY <1>1, FS_CardinalityType DEF ReadersInv
<1> QED
  BY <1>1, <1>2, SocketAssumption DEF ReadersInv

\* Every step keeps the readers within their limit.
LEMMA ReadersStep ==
    ASSUME IInv, Next PROVE ReadersInv'
<1> USE DEF IInv, TransportTypeOK, transportVars, clientVars
<1>1. ASSUME UNCHANGED conn PROVE ReadersInv'
  BY <1>1, FewerReaders, SocketAssumption DEF Readers
<1>2. CASE ClientNext
  BY <1>2, FewerReaders, SocketAssumption
     DEF ClientNext, Exchange, ReadResponse, ConnectionInv, Readers
<1>3. CASE AcceptLoop \/ Accept1 \/ AcceptFails
  <2>1. Readers' \subseteq Readers
    BY <1>3 DEF AcceptLoop, Accept1, AcceptFails, CloseListener, Readers
  <2> QED
    BY <2>1, FewerReaders, SocketAssumption
<1>4. CASE AdmitConnection
  <2>1. CASE stopping \/ AtLimit
    <3>1. Readers' \subseteq Readers
      BY <1>4, <2>1 DEF AdmitConnection, CloseListener, Readers
    <3> QED
      BY <3>1, FewerReaders, SocketAssumption
  <2>2. CASE ~stopping /\ ~AtLimit
    <3>1. Readers' \subseteq Readers \cup {accepted}
      BY <1>4, <2>2 DEF AdmitConnection, Readers
    <3>0. Cardinality(Readers) \in Nat
      BY FS_CardinalityType DEF ReadersInv
    <3>2. IsFiniteSet(Readers \cup {accepted})
          /\ Cardinality(Readers \cup {accepted}) <= Cardinality(Readers) + 1
      <4>1. IsFiniteSet(Readers)
        BY DEF ReadersInv
      <4>2. Cardinality(Readers \cup {accepted})
                \in {Cardinality(Readers), Cardinality(Readers) + 1}
        BY <4>1, FS_AddElement
      <4> QED
        BY <3>0, <4>1, <4>2, FS_AddElement
    <3>3. IsFiniteSet(Readers') /\ Cardinality(Readers') <= Cardinality(Readers) + 1
      <4>1. IsFiniteSet(Readers')
            /\ Cardinality(Readers') <= Cardinality(Readers \cup {accepted})
        BY <3>1, <3>2, FS_Subset
      <4>2. Cardinality(Readers') \in Nat /\ Cardinality(Readers \cup {accepted}) \in Nat
        BY <3>2, <4>1, FS_CardinalityType
      <4> QED
        BY <3>0, <3>2, <4>1, <4>2
    <3>4. Cardinality(Readers) < ConnectionLimit
      BY <2>2, <3>0, SocketAssumption DEF AtLimit
    <3>5. Cardinality(Readers') \in Nat
      BY <3>3, FS_CardinalityType
    <3> QED
      BY <3>0, <3>3, <3>4, <3>5, SocketAssumption DEF ReadersInv
  <2> QED
    BY <2>1, <2>2
<1>5. CASE ReaderNext
  <2>1. Readers' \subseteq Readers
    BY <1>5 DEF ReaderNext, ReadFails, Judge, TrySend, Readers
  <2> QED
    BY <2>1, FewerReaders, SocketAssumption
<1>6. CASE WriteReady \/ SendersGone \/ SetStopping \/ WakeAcceptor
              \/ (HandleStep /\ UNCHANGED <<semanticsVars, clientVars, transportVars>>)
  BY <1>1, <1>6 DEF WriteReady, SendersGone, SetStopping, WakeAcceptor
<1>7. CASE Receive \/ Respond \/ Join
  <2>1. Readers' \subseteq Readers
    BY <1>7 DEF Receive, Respond, Join, Readers
  <2> QED
    BY <2>1, FewerReaders, SocketAssumption
<1> QED
  BY <1>2, <1>3, <1>4, <1>5, <1>6, <1>7 DEF Next, ServerNext, AcceptorNext, OwnerNext

----------------------------------------------------------------------------
\* What a request has reached stays with the call that sent it, whatever clients, the
\* accept loop and the readers do.
LEMMA OthersConnectionStep ==
    ASSUME IInv, ClientNext \/ AcceptorNext \/ ReaderNext PROVE ConnectionInv'
<1> USE DEF IInv, TransportTypeOK, ConnectionInv, transportVars, clientVars, ownerVars
<1>1. ASSUME NEW c \in Calls, Exchange(c) PROVE ConnectionInv'
  <2>1. /\ \A d \in Calls \ {c} : call'[d] = call[d] /\ asked'[d] = asked[d]
                                  /\ conn'[d] = conn[d] /\ result'[d] = result[d]
        /\ call[c] = "new" /\ call'[c] \in {"sent", "done"}
        /\ conn[c] = "none" /\ conn'[c] \in {"none", "backlog"}
        /\ call'[c] = "sent" => result'[c] = result[c]
        /\ UNCHANGED <<answer, accepted, queue, owner, serving>>
    BY <1>1 DEF Exchange, Report
  <2>2. \A i \in DOMAIN backlog' : backlog'[i] \in Calls => call'[backlog'[i]] # "new"
    <3>1. CASE backlog' = backlog
      BY <2>1, <3>1
    <3>2. CASE backlog' = Append(backlog, c)
      BY <2>1, <3>2, AppendFacts
    <3> QED
      BY <1>1, <3>1, <3>2 DEF Exchange
  <2>3. \A i \in DOMAIN queue : queue[i] \in Calls \ {c}
    BY <2>1
  <2>4. owner \in HandlingStates => serving \in Calls \ {c}
    BY <2>1
  <2> QED
    BY <2>1, <2>2, <2>3, <2>4
<1>2. ASSUME NEW c \in Calls, ReadResponse(c) PROVE ConnectionInv'
  BY <1>2 DEF ReadResponse, Report
<1>3. CASE AcceptLoop
  <2>1. CASE stopping
    BY <1>3, <2>1, CloseFacts, SocketAssumption DEF AcceptLoop
  <2>2. CASE ~stopping
    BY <1>3, <2>2 DEF AcceptLoop
  <2> QED
    BY <2>1, <2>2
<1>4. CASE Accept1
  <2>1. /\ Head(backlog) \in Calls => call[Head(backlog)] # "new"
        /\ \A i \in DOMAIN backlog' : backlog'[i] \in Calls => call[backlog'[i]] # "new"
    BY <1>4, TailFacts DEF Accept1
  <2> QED
    BY <1>4, <2>1 DEF Accept1
<1>5. CASE AcceptFails
  BY <1>5, CloseFacts, SocketAssumption DEF AcceptFails
<1>6. CASE AdmitConnection
  <2>1. CASE stopping
    BY <1>6, <2>1, CloseFacts, SocketAssumption DEF AdmitConnection
  <2>2. CASE ~stopping
    BY <1>6, <2>2, SocketAssumption DEF AdmitConnection
  <2> QED
    BY <2>1, <2>2
<1>7. ASSUME NEW c \in Calls, ReadFails(c) PROVE ConnectionInv'
  BY <1>7 DEF ReadFails
<1>8. ASSUME NEW c \in Calls, Judge(c) PROVE ConnectionInv'
  BY <1>8 DEF Judge
<1>9. ASSUME NEW c \in Calls, TrySend(c) PROVE ConnectionInv'
  <2>1. \A i \in DOMAIN queue' : call[queue'[i]] # "new" /\ asked[queue'[i]] \in Requests
    <3>1. CASE queue' = Append(queue, c)
      BY <1>9, <3>1, AppendFacts DEF TrySend
    <3>2. CASE queue' = queue
      BY <3>2
    <3> QED
      BY <1>9, <3>1, <3>2 DEF TrySend
  <2> QED
    BY <1>9, <2>1 DEF TrySend
<1> HIDE DEF IInv, ConnectionInv
<1> QED
  BY <1>1, <1>2, <1>3, <1>4, <1>5, <1>6, <1>7, <1>8, <1>9
     DEF ClientNext, AcceptorNext, ReaderNext

\* The same for the steps of the owner.
LEMMA OwnerConnectionStep ==
    ASSUME IInv, OwnerNext PROVE ConnectionInv'
<1> USE DEF IInv, TransportTypeOK, ConnectionInv, transportVars, clientVars, handlingVars,
        HandlingStates
<1>1. CASE HandleStep /\ UNCHANGED <<semanticsVars, clientVars, transportVars>>
  BY <1>1, HandleFrame
<1>2. CASE WriteReady \/ SendersGone \/ SetStopping
  BY <1>2 DEF WriteReady, SendersGone, SetStopping
<1>3. CASE WakeAcceptor
  <2>1. \A i \in DOMAIN backlog' : backlog'[i] \in Calls => call[backlog'[i]] # "new"
    <3>1. CASE backlog' = Append(backlog, Wake)
      BY <3>1, AppendFacts, SocketAssumption
    <3>2. CASE backlog' = backlog
      BY <3>2
    <3> QED
      BY <1>3, <3>1, <3>2 DEF WakeAcceptor, WakeListener
  <2> QED
    BY <1>3, <2>1 DEF WakeAcceptor
<1>4. CASE Join
  BY <1>4 DEF Join
<1>5. CASE Receive
  <2>1. /\ Head(queue) \in Calls /\ call[Head(queue)] # "new"
        /\ \A i \in DOMAIN queue' : call[queue'[i]] # "new" /\ asked[queue'[i]] \in Requests
    BY <1>5, TailFacts DEF Receive
  <2> QED
    BY <1>5, <2>1 DEF Receive
<1>6. CASE Respond
  <2>1. call[serving] # "new" /\ serving \in Calls
    BY <1>6 DEF Respond
  <2>2. \A c \in Calls : call[c] = "new" => conn'[c] = "none" /\ answer'[c] = None
    BY <1>6, <2>1 DEF Respond
  <2>3. \A c \in Calls : conn'[c] = "judged" => conn[c] = "judged"
    BY <1>6, <2>1 DEF Respond
  <2>4. owner' \notin HandlingStates
    BY <1>6 DEF Respond
  <2> QED
    BY <1>6, <2>2, <2>3, <2>4 DEF Respond
<1> HIDE DEF IInv, ConnectionInv
<1> QED
  BY <1>1, <1>2, <1>3, <1>4, <1>5, <1>6 DEF OwnerNext

----------------------------------------------------------------------------
\* Every step leaves each connection in one place.
LEMMA PlaceStep ==
    ASSUME IInv, Next PROVE PlaceInv'
<1> SUFFICES ASSUME owner' # "exited" PROVE PlaceInv'
  BY DEF PlaceInv
<1> USE DEF IInv, TransportTypeOK, PlaceInv, Passed, Judging, transportVars, clientVars, ownerVars
<1>1. owner # "exited"
  BY DEF Next, ClientNext, Exchange, ReadResponse, ServerNext, AcceptorNext, AcceptLoop, Accept1,
     AcceptFails, AdmitConnection, ReaderNext, ReadFails, Judge, TrySend, OwnerNext, WriteReady,
     Receive, SendersGone, Respond, SetStopping, WakeAcceptor, Join, HandleStep, Handle,
     ExecuteCancel, ExecuteOther, PreflightFails, BeginInput, Checkpoint, Emit, EmitFails,
     Release, PostObserve, Record
<1>2. ASSUME NEW c \in Calls, Exchange(c) PROVE PlaceInv'
  <2>1. /\ conn[c] = "none" /\ call[c] = "new"
        /\ \A d \in Calls \ {c} : conn'[d] = conn[d]
        /\ UNCHANGED <<accepted, queue, owner, serving>>
    BY <1>2 DEF Exchange, Report, ConnectionInv
  <2>2. /\ \A i \in DOMAIN backlog : backlog[i] # c
        /\ \A i \in DOMAIN queue : queue[i] \in Calls \ {c}
        /\ accepted # c /\ (owner \in HandlingStates => serving \in Calls \ {c})
    BY <2>1 DEF ConnectionInv
  <2>3. conn'[c] # "judged"
    BY <1>2, <2>1 DEF Exchange, Report
  <2>4. \/ backlog' = backlog
        \/ backlog' = Append(backlog, c) /\ conn'[c] = "backlog"
    BY <1>2 DEF Exchange, Report
  <2>5. /\ \A i \in DOMAIN backlog' : backlog'[i] \in Calls => conn'[backlog'[i]] = "backlog"
        /\ \A i, j \in DOMAIN backlog' :
              backlog'[i] \in Calls /\ backlog'[i] = backlog'[j] => i = j
    <3>1. CASE backlog' = backlog
      BY <1>1, <2>1, <2>2, <3>1
    <3>2. CASE backlog' = Append(backlog, c) /\ conn'[c] = "backlog"
      BY <1>1, <2>1, <2>2, <3>2, AppendFacts
    <3> QED
      BY <2>4, <3>1, <3>2
  <2> QED
    BY <1>1, <2>1, <2>2, <2>3, <2>5
<1>3. ASSUME NEW c \in Calls, ReadResponse(c) PROVE PlaceInv'
  BY <1>1, <1>3 DEF ReadResponse, Report
<1>4. ASSUME CloseListener, UNCHANGED <<queue, owner, serving>> PROVE PlaceInv'
  BY <1>1, <1>4, SocketAssumption DEF CloseListener
<1>5. CASE AcceptLoop \/ AcceptFails
  BY <1>1, <1>4, <1>5 DEF AcceptLoop, AcceptFails
<1>6. CASE Accept1
  <2>1. /\ Head(backlog) \in Calls => conn[Head(backlog)] = "backlog"
        /\ \A i \in DOMAIN backlog' :
              backlog'[i] \in Calls => conn[backlog'[i]] = "backlog"
                                       /\ backlog'[i] # Head(backlog)
        /\ \A i, j \in DOMAIN backlog' :
              backlog'[i] \in Calls /\ backlog'[i] = backlog'[j] => i = j
    BY <1>1, <1>6, TailFacts DEF Accept1
  <2> QED
    BY <1>1, <1>6, <2>1 DEF Accept1
<1>7. CASE AdmitConnection
  <2>1. CASE stopping
    BY <1>4, <1>7, <2>1 DEF AdmitConnection
  <2>2. CASE ~stopping
    <3>1. /\ accepted \in Calls => conn'[accepted] \in {"closed", "reading"}
          /\ \A c \in Calls \ {accepted} : conn'[c] = conn[c]
      BY <1>7, <2>2 DEF AdmitConnection
    <3>2. accepted' = None /\ UNCHANGED <<backlog, queue, owner, serving>>
      BY <1>7, <2>2 DEF AdmitConnection
    <3>3. accepted \in Calls => conn[accepted] = "accepted"
      BY <1>1
    <3> QED
      BY <1>1, <3>1, <3>2, <3>3, SocketAssumption
  <2> QED
    BY <2>1, <2>2
<1>8. ASSUME NEW c \in Calls, ReadFails(c) PROVE PlaceInv'
  BY <1>1, <1>8 DEF ReadFails
<1>9. ASSUME NEW c \in Calls, Judge(c) PROVE PlaceInv'
  BY <1>1, <1>9 DEF Judge, SemanticsFree
<1>10. ASSUME NEW c \in Calls, TrySend(c) PROVE PlaceInv'
  <2>1. \A i \in DOMAIN queue' : conn'[queue'[i]] \in Passed
    <3>1. CASE queue' = Append(queue, c) /\ conn' = [conn EXCEPT ![c] = "queued"]
      BY <1>1, <3>1, AppendFacts
    <3>2. CASE queue' = queue /\ conn' = [conn EXCEPT ![c] = "closed"]
      BY <1>1, <3>2
    <3> QED
      BY <1>10, <3>1, <3>2 DEF TrySend
  <2>2. /\ conn[c] = "judged" /\ conn'[c] \in Passed
        /\ \A d \in Calls \ {c} : conn'[d] = conn[d]
        /\ UNCHANGED <<backlog, accepted, owner, serving>>
    BY <1>10 DEF TrySend
  <2> QED
    BY <1>1, <2>1, <2>2
<1>11. CASE WriteReady \/ SendersGone \/ SetStopping
  BY <1>1, <1>11 DEF WriteReady, SendersGone, SetStopping, HandlingStates
<1>12. CASE WakeAcceptor
  <2>1. \A i \in DOMAIN backlog' :
           backlog'[i] \in Calls => i \in DOMAIN backlog /\ backlog'[i] = backlog[i]
    <3>1. CASE backlog' = Append(backlog, Wake)
      BY <3>1, AppendFacts, SocketAssumption
    <3>2. CASE backlog' = backlog
      BY <3>2
    <3> QED
      BY <1>12, <3>1, <3>2 DEF WakeAcceptor, WakeListener
  <2> QED
    BY <1>1, <1>12, <2>1 DEF WakeAcceptor, HandlingStates
<1>13. CASE Receive
  <2>1. /\ Head(queue) \in Calls /\ conn[Head(queue)] \in Passed
        /\ \A i \in DOMAIN queue' : queue'[i] \in Calls /\ conn[queue'[i]] \in Passed
    BY <1>1, <1>13, TailFacts DEF Receive
  <2>2. /\ conn'[Head(queue)] = "serving" /\ serving' = Head(queue)
        /\ \A d \in Calls \ {Head(queue)} : conn'[d] = conn[d]
        /\ UNCHANGED <<backlog, accepted>>
    BY <1>13, <2>1 DEF Receive
  <2> QED
    BY <1>1, <2>1, <2>2
<1>14. CASE Respond
  <2>1. owner' \notin HandlingStates /\ serving \in Calls /\ conn[serving] \in Passed
    BY <1>1, <1>14 DEF Respond, HandlingStates
  <2>2. /\ conn'[serving] = "closed"
        /\ \A d \in Calls \ {serving} : conn'[d] = conn[d]
        /\ UNCHANGED <<backlog, accepted, queue>>
    BY <1>14, <2>1 DEF Respond
  <2> QED
    BY <1>1, <2>1, <2>2
<1>15. CASE Join
  BY <1>15 DEF Join
<1>16. CASE HandleStep /\ UNCHANGED <<semanticsVars, clientVars, transportVars>>
  BY <1>1, <1>16, HandleFrame
<1> HIDE DEF IInv, PlaceInv
<1> QED
  BY <1>2, <1>3, <1>5, <1>6, <1>7, <1>8, <1>9, <1>10, <1>11, <1>12, <1>13, <1>14, <1>15, <1>16
     DEF Next, ClientNext, ServerNext, AcceptorNext, ReaderNext, OwnerNext

----------------------------------------------------------------------------
\* The request of the one reader that holds the semantics mutex.
LEMMA JudgedOne ==
    ASSUME NEW c \in Calls
    PROVE  /\ Judging = {c} => JustJudged = <<asked[c]>>
           /\ Judging' = {c} => JustJudged' = <<asked'[c]>>
           /\ Judging = {} => JustJudged = <<>>
           /\ Judging' = {} => JustJudged' = <<>>
BY DEF JustJudged

\* The three parts of the line of pending requests.
LEMMA PendingType ==
    ASSUME IInv, owner # "exited"
    PROVE  /\ InHand \in Seq(Requests) /\ Waiting \in Seq(Requests)
           /\ JustJudged \in Seq(Requests) /\ Pending \in Seq(Requests)
<1>1. InHand \in Seq(Requests)
  BY DEF InHand, IInv, SharedInv, OwnerInv, OwnerTypes, OwnerTypeOK, HandlingStates
<1>2. Waiting \in Seq(Requests)
  <2>1. Len(queue) \in Nat /\ DOMAIN queue = 1..Len(queue)
    BY DEF IInv, TransportTypeOK
  <2>2. \A i \in 1..Len(queue) : asked[queue[i]] \in Requests
    BY <2>1 DEF IInv, ConnectionInv
  <2>3. Waiting = [i \in 1..Len(queue) |-> asked[queue[i]]]
    BY <2>1 DEF Waiting
  <2> QED
    BY <2>1, <2>2, <2>3, IsASeq
<1>3. JustJudged \in Seq(Requests)
  <2>1. CASE Judging = {}
    BY <2>1 DEF JustJudged
  <2>2. CASE Judging # {}
    <3>1. (CHOOSE c \in Judging : TRUE) \in Judging
      BY <2>2
    <3>2. asked[CHOOSE c \in Judging : TRUE] \in Requests
      BY <3>1 DEF Judging, IInv, ConnectionInv
    <3> QED
      BY <2>2, <3>2 DEF JustJudged
  <2> QED
    BY <2>1, <2>2
<1> QED
  BY <1>1, <1>2, <1>3, ConcatProperties DEF Pending

\* A step that leaves the line of requests as it is.
LEMMA LineStays ==
    ASSUME IInv, UNCHANGED <<queue, Judging>>,
           \A c \in Calls : call[c] # "new" => asked'[c] = asked[c]
    PROVE  UNCHANGED <<Waiting, JustJudged>>
<1>1. UNCHANGED Waiting
  <2>1. \A i \in DOMAIN queue : asked'[queue[i]] = asked[queue[i]]
    BY DEF IInv, ConnectionInv, TransportTypeOK
  <2> QED
    BY <2>1 DEF Waiting
<1>2. UNCHANGED JustJudged
  <2>1. CASE Judging = {}
    BY <2>1 DEF JustJudged
  <2>2. CASE Judging # {}
    <3> DEFINE c == CHOOSE d \in Judging : TRUE
    <3>1. c \in Judging
      BY <2>2
    <3>2. asked'[c] = asked[c]
      BY <3>1 DEF Judging, IInv, ConnectionInv
    <3> QED
      BY <2>2, <3>2 DEF JustJudged
  <2> QED
    BY <2>1, <2>2
<1> QED
  BY <1>1, <1>2

\* Every step keeps the table of the readers in agreement with the ledger.
LEMMA AgreeStep ==
    ASSUME IInv, Next PROVE AgreeInv'
<1> SUFFICES ASSUME turnedAway' = {}, owner' # "exited"
             PROVE  Leads(OwnerJudged', Pending', Table')
  BY DEF AgreeInv
<1>1. turnedAway = {} /\ owner # "exited"
  <2>1. turnedAway = {}
    BY DEF Next, ClientNext, Exchange, ReadResponse, ServerNext, AcceptorNext, AcceptLoop,
       Accept1, AcceptFails, AdmitConnection, ReaderNext, ReadFails, Judge, TrySend, OwnerNext,
       WriteReady, Receive, SendersGone, Respond, SetStopping, WakeAcceptor, Join, transportVars
  <2>2. owner # "exited"
    BY DEF Next, ClientNext, Exchange, ReadResponse, ServerNext, AcceptorNext, AcceptLoop,
       Accept1, AcceptFails, AdmitConnection, ReaderNext, ReadFails, Judge, TrySend, OwnerNext,
       WriteReady, Receive, SendersGone, Respond, SetStopping, WakeAcceptor, Join, HandleStep,
       Handle, ExecuteCancel, ExecuteOther, PreflightFails, BeginInput, Checkpoint, Emit,
       EmitFails, Release, PostObserve, Record, ownerVars
  <2> QED
    BY <2>1, <2>2
<1>2. Leads(OwnerJudged, Pending, Table)
  BY <1>1 DEF IInv, AgreeInv
<1>3. owner = "handle" => current \in Requests
  BY DEF IInv, SharedInv, OwnerInv, OwnerTypes, OwnerTypeOK, HandlingStates
<1>4. /\ InHand \in Seq(Requests) /\ Waiting \in Seq(Requests)
      /\ JustJudged \in Seq(Requests) /\ Pending \in Seq(Requests)
  BY <1>1, PendingType
<1>5. ASSUME UNCHANGED <<OwnerJudged, InHand, Table, queue, Judging>>,
             \A c \in Calls : call[c] # "new" => asked'[c] = asked[c]
      PROVE  Leads(OwnerJudged', Pending', Table')
  <2>1. UNCHANGED Pending
    BY <1>5, LineStays DEF Pending
  <2> QED
    BY <1>2, <1>5, <2>1
<1>6. ASSUME UNCHANGED ownerVars PROVE UNCHANGED <<OwnerJudged, InHand>>
  BY <1>6 DEF ownerVars, OwnerJudged, InHand
<1>7. ASSUME NEW c \in Calls, Exchange(c) PROVE Leads(OwnerJudged', Pending', Table')
  <2>1. \A d \in Calls : call[d] # "new" => asked'[d] = asked[d]
    BY <1>7 DEF Exchange, IInv, TransportTypeOK
  <2>2. UNCHANGED Judging
    BY <1>7 DEF Exchange, Report, Judging, IInv, TransportTypeOK, ConnectionInv
  <2> QED
    BY <1>5, <1>6, <1>7, <2>1, <2>2 DEF Exchange, Table, semanticsVars
<1>8. ASSUME NEW c \in Calls, ReadResponse(c) PROVE Leads(OwnerJudged', Pending', Table')
  BY <1>5, <1>6, <1>8 DEF ReadResponse, Table, semanticsVars, transportVars, Judging
<1>9. CASE AcceptorNext
  <2>1. UNCHANGED Judging
    <3>1. ASSUME CloseListener PROVE UNCHANGED Judging
      BY <3>1 DEF CloseListener, Judging
    <3>2. CASE Accept1
      BY <1>1, <3>2, TailFacts DEF Accept1, Judging, IInv, TransportTypeOK, PlaceInv
    <3>3. CASE AdmitConnection
      BY <1>1, <3>1, <3>3 DEF AdmitConnection, Judging, IInv, TransportTypeOK, PlaceInv
    <3> QED
      BY <1>9, <3>1, <3>2, <3>3 DEF AcceptorNext, AcceptLoop, AcceptFails, Judging
  <2> QED
    BY <1>5, <1>6, <1>9, <2>1 DEF AcceptorNext, AcceptLoop, Accept1, AcceptFails,
       AdmitConnection, Table, semanticsVars, clientVars
<1>10. ASSUME NEW c \in Calls, ReadFails(c) PROVE Leads(OwnerJudged', Pending', Table')
  <2>1. UNCHANGED Judging
    BY <1>10 DEF ReadFails, Judging, IInv, TransportTypeOK
  <2> QED
    BY <1>5, <1>6, <1>10, <2>1 DEF ReadFails, Table, semanticsVars, clientVars
<1>11. ASSUME NEW c \in Calls, Judge(c) PROVE Leads(OwnerJudged', Pending', Table')
  <2>1. Judging = {} /\ Judging' = {c} /\ asked[c] \in Requests
    BY <1>11 DEF Judge, SemanticsFree, Judging, IInv, TransportTypeOK
  <2>2. JustJudged = <<>> /\ JustJudged' = <<asked[c]>>
    BY <1>11, <2>1, JudgedOne DEF Judge, clientVars
  <2>3. UNCHANGED <<OwnerJudged, InHand, Waiting>>
    BY <1>6, <1>11 DEF Judge, Waiting, clientVars
  <2>4. Pending' = Append(Pending, asked[c])
    BY <1>4, <2>1, <2>2, <2>3, ConcatAppend DEF Pending
  <2>5. Table' = JudgeNext(Table, asked[c])
    BY <1>11, <2>1, PrepareJudges DEF Judge
  <2> QED
    BY <1>2, <1>4, <2>1, <2>3, <2>4, <2>5, LeadsAppend
<1>12. ASSUME NEW c \in Calls, TrySend(c) PROVE Leads(OwnerJudged', Pending', Table')
  <2>1. /\ queue' = Append(queue, c) /\ conn[c] = "judged" /\ queue \in Seq(Calls)
        /\ conn' = [conn EXCEPT ![c] = "queued"]
        /\ UNCHANGED <<ownerVars, Table, asked>>
    BY <1>12 DEF TrySend, Table, semanticsVars, clientVars, IInv, TransportTypeOK
  <2>2. Judging = {c} /\ Judging' = {} /\ asked[c] \in Requests
    BY <1>1, <2>1 DEF Judging, IInv, PlaceInv, TransportTypeOK, ConnectionInv
  <2>3. JustJudged = <<asked[c]>> /\ JustJudged' = <<>>
    BY <2>2, JudgedOne
  <2>4. Waiting' = Append(Waiting, asked[c])
    <3>1. /\ Waiting = [i \in 1..Len(queue) |-> asked[queue[i]]] /\ Len(queue) \in Nat
          /\ Waiting' = [i \in 1..Len(queue) + 1 |-> asked[Append(queue, c)[i]]]
      BY <2>1 DEF Waiting
    <3>2. Len(Waiting) = Len(queue)
      BY <3>1
    <3>3. Append(Waiting, asked[c]) =
             [i \in 1..Len(queue) + 1 |-> IF i <= Len(queue) THEN Waiting[i] ELSE asked[c]]
      BY <1>4, <2>2, <3>1, <3>2
    <3>4. \A i \in 1..Len(queue) + 1 :
             asked[Append(queue, c)[i]] = IF i <= Len(queue) THEN Waiting[i] ELSE asked[c]
      BY <2>1, <3>1
    <3> QED
      BY <3>1, <3>3, <3>4
  <2>5. UNCHANGED InHand /\ UNCHANGED OwnerJudged
    BY <1>6, <2>1
  <2>6. Pending' = Pending
    BY <1>4, <2>2, <2>3, <2>4, <2>5, ConcatAppend DEF Pending
  <2> QED
    BY <1>2, <2>1, <2>5, <2>6
<1>13. CASE WriteReady \/ SendersGone \/ SetStopping \/ WakeAcceptor
  <2>1. UNCHANGED <<OwnerJudged, InHand, Table, queue, asked, Judging>>
    BY <1>13 DEF WriteReady, SendersGone, SetStopping, WakeAcceptor, OwnerJudged, InHand, Table,
       Judging, handlingVars, semanticsVars, clientVars, transportVars
  <2> QED
    BY <1>5, <2>1
<1>14. CASE Respond
  <2>1. UNCHANGED <<OwnerJudged, InHand, Table, queue, asked>>
    BY <1>14 DEF Respond, OwnerJudged, InHand, Table, semanticsVars, clientVars
  <2>2. UNCHANGED Judging
    BY <1>1, <1>14
       DEF Respond, Judging, IInv, PlaceInv, TransportTypeOK, HandlingStates, Passed
  <2> QED
    BY <1>5, <2>1, <2>2
<1>15. CASE Receive
  <2>1. /\ queue # <<>> /\ queue \in Seq(Calls) /\ queue' = Tail(queue)
        /\ Head(queue) \in Calls /\ Head(queue) = queue[1]
        /\ UNCHANGED <<OwnerJudged, Table, asked>>
    BY <1>15, TailFacts DEF Receive, OwnerJudged, Table, handlingVars, semanticsVars, clientVars,
       IInv, TransportTypeOK
  <2>2. InHand = <<>> /\ InHand' = <<asked[Head(queue)]>>
    BY <1>15 DEF Receive, InHand
  <2>3. UNCHANGED Judging
    <3>1. conn[Head(queue)] \in Passed
      BY <1>1, <1>15, TailFacts DEF Receive, IInv, TransportTypeOK, PlaceInv
    <3> QED
      BY <1>15, <2>1, <3>1 DEF Receive, Judging, IInv, TransportTypeOK, Passed
  <2>4. UNCHANGED JustJudged
    BY <2>1, <2>3 DEF JustJudged
  <2>5. Waiting # <<>> /\ Head(Waiting) = asked[Head(queue)] /\ Waiting' = Tail(Waiting)
    <3>1. /\ Len(queue) \in Nat \ {0}
          /\ Waiting = [i \in 1..Len(queue) |-> asked[queue[i]]]
          /\ Waiting' = [i \in 1..Len(queue) - 1 |-> asked[Tail(queue)[i]]]
      BY <2>1 DEF Waiting
    <3>2. Len(Waiting) = Len(queue) /\ Waiting[1] = asked[Head(queue)]
      BY <2>1, <3>1
    <3>3. Tail(Waiting) = [i \in 1..Len(queue) - 1 |-> Waiting[i + 1]]
      BY <1>4, <3>1, <3>2
    <3>4. \A i \in 1..Len(queue) - 1 : asked[Tail(queue)[i]] = Waiting[i + 1]
      BY <2>1, <3>1
    <3> QED
      BY <1>4, <3>1, <3>2, <3>3, <3>4
  <2>6. InHand \o Waiting = InHand' \o Waiting'
    BY <1>4, <2>2, <2>5, ConcatMove
  <2>7. UNCHANGED Pending
    BY <2>4, <2>6 DEF Pending
  <2> QED
    BY <1>2, <2>1, <2>7
<1>16. CASE Join
  BY <1>16 DEF Join
<1>17. CASE HandleStep /\ UNCHANGED <<semanticsVars, clientVars, transportVars>>
  <2>1. UNCHANGED <<Waiting, JustJudged, Table, queue, Judging, asked>>
    BY <1>17 DEF Waiting, JustJudged, Table, Judging, semanticsVars, clientVars, transportVars
  <2>2. InHand' = <<>>
    BY <1>17 DEF HandleStep, Handle, Invalid, Replay, Conflict, LedgerFull, Accept, Reply,
       ExecuteCancel, ExecuteOther, PreflightFails, BeginInput, Checkpoint, Emit, EmitFails,
       Release, PostObserve, Record, Conclude, CutShort, InHand
  <2>3. CASE owner = "handle"
    <3>1. Handle
      BY <1>17, <2>3 DEF HandleStep, ExecuteCancel, ExecuteOther, PreflightFails, BeginInput,
         Checkpoint, Emit, EmitFails, Release, PostObserve, Record
    <3>2. InHand = <<current>> /\ current \in Requests
      BY <1>3, <2>3 DEF InHand
    <3>3. Head(Pending) = current /\ Pending # <<>> /\ Tail(Pending) = Pending'
      BY <1>4, <2>1, <2>2, <3>2, ConcatHead DEF Pending
    <3>4. OwnerJudged' = JudgeNext(OwnerJudged, Head(Pending))
      BY <3>1, <3>3, HandleJudges DEF IInv, SharedInv
    <3> QED
      BY <1>2, <1>4, <2>1, <3>3, <3>4, LeadsTail
  <2>4. CASE owner # "handle"
    <3>1. InHand = <<>>
      BY <2>4 DEF InHand
    <3>2. OwnerJudged' = OwnerJudged
      BY <1>17, <2>4, ExecutionJudgesNothing DEF IInv, SharedInv
    <3> QED
      BY <1>5, <2>1, <2>2, <3>1, <3>2
  <2> QED
    BY <2>3, <2>4
<1> QED
  BY <1>7, <1>8, <1>9, <1>10, <1>11, <1>12, <1>13, <1>14, <1>15, <1>16, <1>17
     DEF Next, ClientNext, ServerNext, ReaderNext, OwnerNext

----------------------------------------------------------------------------
\* A record stays on record.
LEMMA RecordsStay ==
    ASSUME IInv, Next, NEW n \in Nonces, ledger[n] # None PROVE ledger'[n] = ledger[n]
<1>1. CASE HandleStep
  <2>1. CASE Record
    BY <2>1 DEF Record, IInv, SharedInv, OwnerInv, LedgerInv, Executing, Running, OwnerTypes,
       OwnerTypeOK
  <2>2. CASE ~Record
    BY <1>1, <2>2 DEF HandleStep, Handle, Invalid, Replay, Conflict, LedgerFull, Accept, Reply,
       ExecuteCancel, ExecuteOther, PreflightFails, BeginInput, Checkpoint, Emit, EmitFails,
       Release, PostObserve
  <2> QED
    BY <2>1, <2>2
<1>2. CASE UNCHANGED ledger
  BY <1>2
<1>3. HandleStep \/ UNCHANGED ledger
  BY DEF Next, ClientNext, Exchange, ReadResponse, ServerNext, AcceptorNext, AcceptLoop, Accept1,
     AcceptFails, AdmitConnection, ReaderNext, ReadFails, Judge, TrySend, OwnerNext, WriteReady,
     Receive, SendersGone, Respond, SetStopping, WakeAcceptor, Join, handlingVars, ownerVars
<1> QED
  BY <1>1, <1>2, <1>3

\* What was on record for a request stays on record for it.
LEMMA OnRecordStays ==
    ASSUME IInv, Next, NEW request, NEW r, OnRecord(request, ledger, r)
    PROVE  OnRecord(request, ledger', r)
<1> SUFFICES ASSUME r \in Response, r.outcome \notin Refusals
             PROVE  /\ request \in Requests
                    /\ ledger'[request.nonce] = [fingerprint |-> request, response |-> r]
  BY DEF OnRecord
<1>1. /\ request \in Requests
      /\ ledger[request.nonce] = [fingerprint |-> request, response |-> r]
  BY DEF OnRecord
<1>2. request.nonce \in Nonces
  BY <1>1, RequestFacts
<1>3. ledger[request.nonce] # None
  <2>1. [fingerprint |-> request, response |-> r] \in LedgerRecord
    BY <1>1 DEF LedgerRecord
  <2> QED
    BY <1>1, <2>1, NoneAssumption
<1> QED
  BY <1>1, <1>2, <1>3, RecordsStay

\* Answers that are no response, and results that are none.
LEMMA NoResponse ==
    ASSUME NEW request, NEW records, NEW r,
           r \in {None, QueueFull, ProtocolFailed, Failed, Unknown}
    PROVE  OnRecord(request, records, r)
BY SocketAssumption, NoneAssumption DEF OnRecord

\* Every step delivers to a call what is on record for its request.
LEMMA AnswerStep ==
    ASSUME IInv, Next PROVE AnswerInv'
<1> USE DEF IInv, TransportTypeOK, transportVars, clientVars
<1>1. ASSUME UNCHANGED <<asked, answer, result>> PROVE AnswerInv'
  BY <1>1, OnRecordStays DEF AnswerInv
<1>2. ASSUME NEW d \in Calls, UNCHANGED <<asked, result>>,
             \A c \in Calls \ {d} : answer'[c] = answer[c],
             OnRecord(asked'[d], ledger', answer'[d])
      PROVE  AnswerInv'
  BY <1>2, OnRecordStays DEF AnswerInv
<1>3. ASSUME NEW d \in Calls, Exchange(d) PROVE AnswerInv'
  <2>1. ASSUME NEW c \in Calls, c # d
        PROVE  /\ OnRecord(asked'[c], ledger', answer'[c])
               /\ OnRecord(asked'[c], ledger', result'[c])
    <3>1. asked'[c] = asked[c] /\ answer'[c] = answer[c] /\ result'[c] = result[c]
      BY <1>3, <2>1 DEF Exchange, Report
    <3> QED
      BY <3>1, OnRecordStays DEF AnswerInv
  <2>2. answer'[d] = None /\ result'[d] \in {None, Failed}
    BY <1>3 DEF Exchange, Report, ConnectionInv
  <2> QED
    BY <2>1, <2>2, NoResponse DEF AnswerInv
<1>4. ASSUME NEW d \in Calls, ReadResponse(d) PROVE AnswerInv'
  <2>1. ASSUME NEW c \in Calls
        PROVE  /\ OnRecord(asked'[c], ledger', answer'[c])
               /\ OnRecord(asked'[c], ledger', result'[c])
    <3>1. asked'[c] = asked[c] /\ answer'[c] = answer[c]
      BY <1>4 DEF ReadResponse
    <3>2. result'[c] \in {result[c], answer[c], Unknown}
      BY <1>4 DEF ReadResponse, Report
    <3> QED
      BY <3>1, <3>2, OnRecordStays, NoResponse DEF AnswerInv
  <2> QED
    BY <2>1 DEF AnswerInv
<1>5. CASE AcceptLoop \/ Accept1 \/ AcceptFails
  BY <1>1, <1>5 DEF AcceptLoop, Accept1, AcceptFails
<1>6. CASE AdmitConnection
  <2>1. CASE UNCHANGED answer
    BY <1>1, <1>6, <2>1 DEF AdmitConnection
  <2>2. CASE answer' = [answer EXCEPT ![accepted] = QueueFull]
    <3>1. CASE accepted \in Calls
      BY <1>2, <1>6, <2>2, <3>1, NoResponse DEF AdmitConnection
    <3>2. CASE accepted \notin Calls
      BY <1>1, <1>6, <2>2, <3>2 DEF AdmitConnection
    <3> QED
      BY <3>1, <3>2
  <2> QED
    BY <1>6, <2>1, <2>2 DEF AdmitConnection
<1>7. ASSUME NEW d \in Calls, ReadFails(d) \/ TrySend(d) PROVE AnswerInv'
  <2>1. CASE UNCHANGED answer
    BY <1>1, <1>7, <2>1 DEF ReadFails, TrySend
  <2>2. CASE answer' \in {[answer EXCEPT ![d] = QueueFull], [answer EXCEPT ![d] = ProtocolFailed]}
    <3>1. answer'[d] \in {QueueFull, ProtocolFailed}
      BY <2>2
    <3> QED
      BY <1>2, <1>7, <2>2, <3>1, NoResponse DEF ReadFails, TrySend
  <2> QED
    BY <1>7, <2>1, <2>2 DEF ReadFails, TrySend
<1>8. ASSUME NEW d \in Calls, Judge(d) PROVE AnswerInv'
  BY <1>1, <1>8 DEF Judge
<1>9. CASE WriteReady \/ Receive \/ SendersGone \/ SetStopping \/ WakeAcceptor \/ Join
              \/ (HandleStep /\ UNCHANGED <<semanticsVars, clientVars, transportVars>>)
  BY <1>1, <1>9 DEF WriteReady, Receive, SendersGone, SetStopping, WakeAcceptor, Join
<1>10. CASE Respond
  <2>1. /\ serving \in Calls /\ asked[serving] = current /\ current \in Requests
        /\ answer' = [answer EXCEPT ![serving] = response]
        /\ UNCHANGED <<asked, result, ledger>>
    BY <1>10 DEF Respond, HandlingStates, SharedInv, OwnerInv, OwnerTypes, OwnerTypeOK
  <2>2. \/ response.outcome \in Refusals
        \/ ledger[current.nonce] = [fingerprint |-> current, response |-> response]
    BY <1>10 DEF Respond, SharedInv, OwnerInv, LedgerInv
  <2>3. OnRecord(asked'[serving], ledger', answer'[serving])
    BY <2>1, <2>2 DEF OnRecord
  <2> QED
    BY <1>2, <2>1, <2>3
<1> QED
  BY <1>3, <1>4, <1>5, <1>6, <1>7, <1>8, <1>9, <1>10
     DEF Next, ClientNext, ServerNext, AcceptorNext, ReaderNext, OwnerNext

----------------------------------------------------------------------------
\* The inductive invariant holds in every reachable state of the socket broker.
THEOREM SocketInvariant == Spec => []IInv
<1>1. Init => IInv
  <2> SUFFICES ASSUME Init PROVE IInv
    OBVIOUS
  <2>1. SharedInv(Over)
    BY InitShared DEF Init, HandlingStates
  <2>2. TransportTypeOK
    <3>1. Len(queue) <= MaximumPendingFrames
      BY SocketAssumption DEF Init
    <3>2. owner \in OwnerStates /\ owner \notin HandlingStates
      BY DEF Init, OwnerInit, OwnerStates, HandlingStates
    <3>3. backlog \in Seq(Calls \cup {Wake}) /\ queue \in Seq(Calls)
      BY DEF Init
    <3>4. /\ call \in [Calls -> {"new", "sent", "done"}]
          /\ conn \in [Calls -> ConnectionStates]
      BY DEF Init, ConnectionStates
    <3>5. /\ asked \in [Calls -> Requests \cup {None}]
          /\ result \in [Calls -> Response \cup {None, Failed, Unknown}]
          /\ answer \in [Calls -> Response \cup TerminalErrors \cup {None}]
      BY DEF Init
    <3> QED
      BY <3>1, <3>2, <3>3, <3>4, <3>5 DEF Init, TransportTypeOK
  <2>3. ReadersInv
    <3>1. Readers = {}
      BY DEF Init, Readers
    <3> QED
      BY <3>1, FS_EmptySet, SocketAssumption DEF ReadersInv
  <2>4. ConnectionInv
    BY SocketAssumption DEF Init, OwnerInit, ConnectionInv, HandlingStates
  <2>5. AnswerInv
    BY NoneAssumption DEF Init, AnswerInv, OnRecord
  <2>6. PlaceInv
    BY SocketAssumption DEF Init, OwnerInit, PlaceInv, HandlingStates, Judging
  <2>7. AgreeInv
    <3>1. Pending = <<>>
      <4>1. InHand = <<>> /\ Waiting = <<>> /\ JustJudged = <<>>
        BY DEF Init, OwnerInit, InHand, Waiting, JustJudged, Judging
      <4> QED
        BY <4>1 DEF Pending
    <3>2. OwnerJudged = Table
      BY DEF Init, OwnerInit, SemanticsInit, OwnerJudged, Table
    <3> QED
      BY <3>1, <3>2, LeadsNowhere DEF AgreeInv
  <2> QED
    BY <2>1, <2>2, <2>3, <2>4, <2>5, <2>6, <2>7 DEF IInv
<1>2. IInv /\ [Next]_vars => IInv'
  <2>1. ASSUME IInv, UNCHANGED vars PROVE IInv'
    <3> USE <2>1 DEF vars, ownerVars, semanticsVars, clientVars, transportVars
    <3>1. SharedInv(Over)'
      BY OtherKeeps DEF IInv
    <3>2. TransportTypeOK' /\ ReadersInv'
      BY DEF IInv, TransportTypeOK, ReadersInv, Readers
    <3>3. ConnectionInv' /\ AnswerInv'
      BY DEF IInv, ConnectionInv, AnswerInv
    <3>4. PlaceInv' /\ AgreeInv'
      BY DEF IInv, PlaceInv, AgreeInv, Judging, OwnerJudged, Pending, InHand, Waiting,
         JustJudged, Table
    <3> QED
      BY <3>1, <3>2, <3>3, <3>4 DEF IInv
  <2>2. ASSUME IInv, Next PROVE IInv'
    <3>1. SharedInv(Over)' /\ TransportTypeOK' /\ ConnectionInv'
      BY <2>2, OthersShared, OwnerShared, OthersTypeStep, OwnerTypesStep, OthersConnectionStep,
         OwnerConnectionStep DEF Next, ServerNext
    <3> QED
      BY <2>2, <3>1, ReadersStep, AnswerStep, PlaceStep, AgreeStep DEF IInv
  <2> QED
    BY <2>1, <2>2
<1> QED
  BY <1>1, <1>2, PTL DEF Spec

\* Every thread and every client keeps the types; the channel and the readers stay
\* within their limits, and the request in hand is the one that its connection sent.
THEOREM SocketTypeCorrect == Spec => []TypeOK
<1>1. IInv => TypeOK
  BY TypeParts DEF IInv, SharedInv, OwnerInv
<1> QED
  BY <1>1, SocketInvariant, PTL

\* A call reports what the ledger holds for exactly its request, whoever else sent the
\* same nonce, however often, and whenever the broker was stopped.
THEOREM CallsGetTheirOwnResponse == Spec => []ResultsMatchLedger
<1>1. IInv => ResultsMatchLedger
  BY DEF IInv, AnswerInv, OnRecord, ResultsMatchLedger
<1> QED
  BY <1>1, SocketInvariant, PTL

\* A cancel that any reader has accepted is on the token of its target when the target
\* runs, even if the channel then turned the cancel away.
THEOREM AcceptedCancelsReachInputs == Spec => []CancelReachesInput
<1>1. IInv => CancelReachesInput
  BY HeardReaches DEF IInv
<1> QED
  BY <1>1, SocketInvariant, PTL

\* The readers share one table, and judge by it what the owner will judge by its ledger:
\* the requests come to the owner in the order of their judgement, since the mutex of the
\* table covers try_send, as long as the channel has turned none of them away.
THEOREM ReadersJudgeAsOwner == Spec => []ReadersAgreeWithOwner
<1>1. IInv => ReadersAgreeWithOwner
  <2> SUFFICES ASSUME IInv, turnedAway = {}, owner # "exited"
               PROVE  JudgeAll(OwnerJudged, Pending) = Table
    BY DEF ReadersAgreeWithOwner, Table
  <2>1. Pending \in Seq(Requests)
    BY PendingType
  <2>2. Leads(OwnerJudged, Pending, Table)
    BY DEF IInv, AgreeInv
  <2> QED
    BY <2>1, <2>2, LeadsMeans
<1> QED
  BY <1>1, SocketInvariant, PTL

\* However many readers there are, a cancel lets at most one more write of a running
\* input through, and nothing of an input it arrived before; and an input that confirms
\* its releases has left no key down.
THEOREM CancelsStopInputs == Spec => []CancelStopsInput
<1>1. IInv => CancelStopsInput
  BY DEF IInv, SharedInv, OwnerInv
<1> QED
  BY <1>1, SocketInvariant, PTL

\* Whichever connection asks, the status of a cancel agrees with the record of its target.
THEOREM CancelStatusesAreTruthful == Spec => []CancelStatusTruthful
<1>1. IInv => CancelStatusTruthful
  BY DEF IInv, SharedInv, OwnerInv
<1> QED
  BY <1>1, SocketInvariant, PTL

\* However full the ledger is, a new shutdown that comes to the owner is admitted.
THEOREM ShutdownsAreAdmitted == Spec => []ShutdownAlwaysAdmitted
<1>1. IInv => ShutdownAlwaysAdmitted
  BY DEF IInv, SharedInv
<1> QED
  BY <1>1, SocketInvariant, PTL

----------------------------------------------------------------------------
\* Every step of the socket broker is a step of OncePerNonce or changes nothing of it.
LEMMA RefinementStep ==
    ASSUME IInv, Next PROVE [Abstract!Next]_Abstract!vars
<1>1. ASSUME UNCHANGED <<ledger, effects, releases, replies>>
      PROVE  [Abstract!Next]_Abstract!vars
  BY <1>1 DEF Abstract!vars
<1>2. CASE ClientNext \/ AcceptorNext \/ ReaderNext
  BY <1>1, <1>2 DEF ClientNext, Exchange, ReadResponse, AcceptorNext, AcceptLoop, Accept1,
     AcceptFails, AdmitConnection, ReaderNext, ReadFails, Judge, TrySend, ownerVars
<1>3. CASE WriteReady \/ Receive \/ SendersGone \/ SetStopping \/ WakeAcceptor \/ Join
  BY <1>1, <1>3 DEF WriteReady, Receive, SendersGone, SetStopping, WakeAcceptor, Join,
     handlingVars
<1>4. CASE HandleStep
  BY <1>4, HandleRefines DEF IInv, SharedInv
<1>5. CASE Respond
  BY <1>5, ReplyRefines DEF Respond, Abstract!Next, IInv, SharedInv
<1> QED
  BY <1>2, <1>3, <1>4, <1>5 DEF Next, ServerNext, OwnerNext

\* The socket broker implements OncePerNonce: concurrent connections that repeat a nonce
\* share one execution and one response.
THEOREM SocketExecutesOncePerNonce == Spec => RefinesOncePerNonce
<1>1. Init => Abstract!Init
  BY DEF Init, OwnerInit, SemanticsInit, Abstract!Init
<1>2. IInv /\ [Next]_vars => [Abstract!Next]_Abstract!vars
  <2>1. ASSUME UNCHANGED vars PROVE UNCHANGED Abstract!vars
    BY <2>1 DEF vars, ownerVars, Abstract!vars
  <2> QED
    BY <2>1, RefinementStep
<1> QED
  BY <1>1, <1>2, SocketInvariant, PTL DEF Spec, RefinesOncePerNonce, Abstract!Spec
============================================================================
