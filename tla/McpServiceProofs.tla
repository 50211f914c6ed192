-------------------------- MODULE McpServiceProofs --------------------------
(***************************************************************************)
(* Proofs about the MCP service and its broker connection, for channels of *)
(* any size and runs of any length.  ConnInv is about the connection:      *)
(* every frame under way, whatever thread, pipe or channel holds it, is    *)
(* one of the responses that the call still waits for (LoadInv), so that a *)
(* call which has got them all leaves nothing behind; the call itself is   *)
(* in one place on its way to its answer (CallInv), so that no event       *)
(* leaves once there is an answer, and what the answer says of the events  *)
(* stays true.  DeskInv is about the owner on top of it: which call is     *)
(* under way in which stage, when the desktop's frame is current, and      *)
(* where a tool may be after an event of it has left.                      *)
(***************************************************************************)
EXTENDS McpService, TLAPS

----------------------------------------------------------------------------
(* Frames in a pipe or a channel.                                          *)

IsCall(r) == r # None /\ r.kind = "call"

HasCall(q) == \E i \in DOMAIN q : IsCall(q[i])

OneCall(q) == \A i, j \in DOMAIN q : IsCall(q[i]) /\ IsCall(q[j]) => i = j

ForOp(q, o) == \A i \in DOMAIN q : q[i].op = o

IsAnAnswer(r) == r # Broken /\ r.kind = "answer"

HasAnswer(q) == \E i \in DOMAIN q : IsAnAnswer(q[i])

\* What an answer says of the events of its call.
Tells(r, movedNow, callMovedNow) ==
    /\ ~r.completed /\ ~r.accepted => ~callMovedNow
    /\ r.frame => ~movedNow

AllTell(q, movedNow, callMovedNow) ==
    \A i \in DOMAIN q : IsAnAnswer(q[i]) => Tells(q[i], movedNow, callMovedNow)

\* An empty pipe has nothing in it.
LEMMA EmptyPipe ==
    ASSUME NEW S, NEW q \in Seq(S)
    PROVE  /\ Len(q) \in Nat
           /\ Len(q) = 0 <=> q = <<>>
OBVIOUS

\* The empty pipe.
LEMMA NothingIn ==
    /\ Len(<<>>) = 0
    /\ \A S : <<>> \in Seq(S)
    /\ ~HasCall(<<>>) /\ OneCall(<<>>) /\ ~HasAnswer(<<>>)
    /\ \A o : ForOp(<<>>, o)
BY DEF HasCall, OneCall, ForOp, HasAnswer

\* Written to a pipe.
LEMMA AppendedCall ==
    ASSUME NEW q \in Seq(Request), NEW r \in Request, NEW o
    PROVE  /\ Append(q, r) \in Seq(Request)
           /\ Len(Append(q, r)) = Len(q) + 1
           /\ HasCall(Append(q, r)) => HasCall(q) \/ IsCall(r)
           /\ OneCall(q) /\ (IsCall(r) => ~HasCall(q)) => OneCall(Append(q, r))
           /\ ForOp(q, o) /\ r.op = o => ForOp(Append(q, r), o)
BY DEF HasCall, OneCall, ForOp

\* Read from a pipe.
LEMMA TakenCall ==
    ASSUME NEW q \in Seq(Request), q # <<>>, NEW o
    PROVE  /\ Head(q) \in Request /\ Tail(q) \in Seq(Request)
           /\ Len(Tail(q)) = Len(q) - 1
           /\ HasCall(Tail(q)) => HasCall(q)
           /\ IsCall(Head(q)) => HasCall(q)
           /\ OneCall(q) => OneCall(Tail(q))
           /\ OneCall(q) /\ IsCall(Head(q)) => ~HasCall(Tail(q))
           /\ ForOp(q, o) => ForOp(Tail(q), o) /\ Head(q).op = o
<1>1. /\ Head(q) = q[1] /\ 1 \in DOMAIN q
      /\ Tail(q) \in Seq(Request) /\ Len(Tail(q)) = Len(q) - 1 /\ Head(q) \in Request
      /\ \A i \in DOMAIN Tail(q) : i + 1 \in DOMAIN q /\ Tail(q)[i] = q[i + 1] /\ i + 1 # 1
  OBVIOUS
<1>2. DOMAIN q = 1..Len(q) /\ DOMAIN Tail(q) = 1..Len(Tail(q))
  BY <1>1
<1> QED
  BY <1>1, <1>2 DEF HasCall, OneCall, ForOp

\* Written to a pipe.
LEMMA AppendedAnswer ==
    ASSUME NEW q \in Seq(Response \cup {Broken}), NEW r \in Response \cup {Broken}, NEW m, NEW c
    PROVE  /\ Append(q, r) \in Seq(Response \cup {Broken})
           /\ Len(Append(q, r)) = Len(q) + 1
           /\ HasAnswer(Append(q, r)) => HasAnswer(q) \/ IsAnAnswer(r)
           /\ AllTell(q, m, c) /\ (IsAnAnswer(r) => Tells(r, m, c)) => AllTell(Append(q, r), m, c)
<1> DEFINE a == Append(q, r)
<1>1. /\ a \in Seq(Response \cup {Broken}) /\ Len(a) = Len(q) + 1
      /\ \A i \in DOMAIN a : (i \in DOMAIN q /\ a[i] = q[i]) \/ a[i] = r
  OBVIOUS
<1> QED
  BY <1>1 DEF HasAnswer, AllTell

\* Read from a pipe.
LEMMA TakenAnswer ==
    ASSUME NEW q \in Seq(Response \cup {Broken}), q # <<>>, NEW m, NEW c
    PROVE  /\ Head(q) \in Response \cup {Broken} /\ Tail(q) \in Seq(Response \cup {Broken})
           /\ Len(Tail(q)) = Len(q) - 1
           /\ HasAnswer(Tail(q)) => HasAnswer(q)
           /\ IsAnAnswer(Head(q)) => HasAnswer(q)
           /\ AllTell(q, m, c) =>
                AllTell(Tail(q), m, c) /\ (IsAnAnswer(Head(q)) => Tells(Head(q), m, c))
<1>1. /\ Head(q) = q[1] /\ 1 \in DOMAIN q
      /\ Tail(q) \in Seq(Response \cup {Broken}) /\ Len(Tail(q)) = Len(q) - 1
      /\ Head(q) \in Response \cup {Broken}
      /\ \A i \in DOMAIN Tail(q) : i + 1 \in DOMAIN q /\ Tail(q)[i] = q[i + 1]
  OBVIOUS
<1> QED
  BY <1>1 DEF HasAnswer, AllTell

\* Where there is no answer, all answers tell.
LEMMA NoAnswer ==
    ASSUME NEW q, ~HasAnswer(q), NEW m, NEW c
    PROVE  AllTell(q, m, c)
BY DEF HasAnswer, AllTell
----------------------------------------------------------------------------
(* The connection.                                                         *)

\* How many frames there are between the two ends of a call.
Load ==
    Len(requests) + Len(stdin) + Len(stdout) + Len(responses)
      + (IF writing = None THEN 0 ELSE 1) + (IF job = None THEN 0 ELSE 1)

\* How many responses a call in its loop still waits for.
Due == (IF original = None THEN 1 ELSE 0) + (IF cancelSent /\ ~cancelAck THEN 1 ELSE 0)

\* No more frames are under way than the call waits for, so none are when it has returned.
LoadInv ==
    /\ line \in {"idle", "send", "returned"} => Load = 0
    /\ line = "send" => original = None /\ ~cancelSent /\ ~cancelAck
    /\ line = "loop" => Load <= Due /\ (cancelAck => cancelSent)

\* A closed broker is dead, and a writer that has ended holds nothing.
ThreadInv ==
    /\ writer # "running" => requests = <<>> /\ writing = None
    /\ closed => child = "dead"
    /\ line = "join" => child = "dead" /\ stdin = <<>> /\ job = None

\* The call is still on its way to the child.
Ahead == HasCall(requests) \/ IsCall(writing) \/ HasCall(stdin)

\* The call is in one place on its way to its answer; from the answer on, no event leaves.
CallInv ==
    line = "loop" =>
      /\ OneCall(requests) /\ OneCall(stdin)
      /\ HasCall(requests) => ~IsCall(writing)
      /\ HasCall(requests) \/ IsCall(writing) => ~HasCall(stdin)
      /\ Ahead => job = None
      /\ HasAnswer(stdout) \/ HasAnswer(responses) \/ original # None => ~Ahead /\ job = None
      /\ AllTell(stdout, moved, callMoved) /\ AllTell(responses, moved, callMoved)
      /\ original # None => Tells(original, moved, callMoved)

\* Every request under way is the call's.
OpInv ==
    /\ ForOp(requests, op) /\ ForOp(stdin, op)
    /\ writing # None => writing.op = op
    /\ job # None => job.op = op

\* What a call returns says the truth about its events.
ReplyInv ==
    /\ line \in {"send", "loop"} => reply = None
    /\ reply # None =>
         /\ reply.result = "failed" /\ ~reply.accepted => ~callMoved
         /\ reply.frame => ~moved
    /\ line \in {"kill", "join"} /\ reply # None => reply.accepted /\ ~reply.frame

ConnInv == ClientTypeOK /\ LoadInv /\ ThreadInv /\ CallInv /\ OpInv /\ ReplyInv

TokenType == cancelled \in BOOLEAN /\ signalled \in BOOLEAN

\* The parts of ClientTypeOK.
ChildType ==
    /\ child \in {"none", "idle", "busy", "dead"}
    /\ job \in Request \cup {None}
    /\ child = "busy" <=> job # None
    /\ stdin \in Seq(Request)
    /\ stdout \in Seq(Response \cup {Broken})
    /\ moved \in BOOLEAN /\ callMoved \in BOOLEAN

ThreadType ==
    /\ requests \in Seq(Request) /\ Len(requests) <= RequestPlaces
    /\ responses \in Seq(Response \cup {Broken}) /\ Len(responses) <= ResponsePlaces
    /\ writer \in {"off", "running", "gone"}
    /\ writing \in Request \cup {None}
    /\ reader \in {"off", "running", "gone"}

CallType ==
    /\ line \in {"idle", "send", "loop", "kill", "join", "returned"}
    /\ op \in Ops
    /\ nonce \in {0, 1}
    /\ original \in Response \cup {None}
    /\ cancelSent \in BOOLEAN /\ cancelAck \in BOOLEAN
    /\ reply \in Reply \cup {None}
    /\ sender \in BOOLEAN /\ closed \in BOOLEAN

\* ClientTypeOK is its parts ...
LEMMA Types == ClientTypeOK <=> ChildType /\ ThreadType /\ CallType /\ TokenType
BY DEF ClientTypeOK, ChildType, ThreadType, CallType, TokenType

\* ... after a step, too.
LEMMA TypesAfter == ChildType' /\ ThreadType' /\ CallType' /\ TokenType' => ClientTypeOK'
BY DEF ClientTypeOK, ChildType, ThreadType, CallType, TokenType

\* What does not change keeps its type.
LEMMA SameTypes ==
    ASSUME ClientTypeOK
    PROVE  /\ UNCHANGED childVars => ChildType'
           /\ UNCHANGED threadVars => ThreadType'
           /\ UNCHANGED <<callVars, sender, closed>> => CallType'
<1>1. ChildType /\ ThreadType /\ CallType
  BY Types
<1>2. ASSUME UNCHANGED childVars PROVE ChildType'
  BY <1>1, <1>2 DEF ChildType, childVars
<1>3. ASSUME UNCHANGED threadVars PROVE ThreadType'
  BY <1>1, <1>3 DEF ThreadType, threadVars
<1>4. ASSUME UNCHANGED <<callVars, sender, closed>> PROVE CallType'
  BY <1>1, <1>4 DEF CallType, callVars
<1> QED
  BY <1>2, <1>3, <1>4

\* A record of the right fields is a reply.
LEMMA Replies ==
    ASSUME NEW result \in {"ok", "failed"}, NEW accepted \in BOOLEAN, NEW f \in BOOLEAN
    PROVE  [result |-> result, accepted |-> accepted, frame |-> f] \in Reply
BY DEF Reply

\* Lengths are numbers.
LEMMA LoadType ==
    ASSUME ClientTypeOK
    PROVE  /\ Len(requests) \in Nat /\ Len(stdin) \in Nat /\ Len(stdout) \in Nat
           /\ Len(responses) \in Nat
           /\ Load \in Nat
           /\ Load = 0 <=> /\ requests = <<>> /\ stdin = <<>> /\ stdout = <<>>
                           /\ responses = <<>> /\ writing = None /\ job = None
<1>1. /\ requests \in Seq(Request) /\ stdin \in Seq(Request)
      /\ stdout \in Seq(Response \cup {Broken}) /\ responses \in Seq(Response \cup {Broken})
  BY DEF ClientTypeOK
<1>2. /\ Len(requests) \in Nat /\ Len(requests) = 0 <=> requests = <<>>
      /\ Len(stdin) \in Nat /\ Len(stdin) = 0 <=> stdin = <<>>
      /\ Len(stdout) \in Nat /\ Len(stdout) = 0 <=> stdout = <<>>
      /\ Len(responses) \in Nat /\ Len(responses) = 0 <=> responses = <<>>
  BY <1>1, EmptyPipe
<1> QED
  BY <1>2 DEF Load

\* Broker::start, from between two calls.
LEMMA StartConn ==
    ASSUME ConnInv, line \in {"idle", "returned"}, StartBroker, TokenType'
    PROVE  ConnInv'
<1>1. ClientTypeOK /\ ChildType /\ CallType /\ TokenType
  BY Types DEF ConnInv
<1>2. ChildType'
  BY <1>1, NothingIn DEF ChildType, StartBroker
<1>3. ThreadType'
  BY NothingIn, ClientAssumption DEF ThreadType, StartBroker
<1>4. CallType'
  BY <1>1 DEF CallType, StartBroker, callVars
<1>5. ClientTypeOK'
  BY <1>2, <1>3, <1>4, TypesAfter
<1>6. Load' = 0 /\ OpInv'
  BY NothingIn DEF Load, OpInv, StartBroker
<1>7. ThreadInv' /\ CallInv' /\ ReplyInv'
  BY DEF ConnInv, ThreadInv, CallInv, ReplyInv, StartBroker, callVars
<1> QED
  BY <1>5, <1>6, <1>7 DEF ConnInv, LoadInv, StartBroker, callVars

\* What holds between two calls, where the step leaves pipes and threads alone.
LEMMA NothingMoves ==
    ASSUME ConnInv, line \in {"idle", "returned"},
           UNCHANGED <<child, job, stdin, stdout, moved, threadVars, sender, closed>>,
           callMoved' \in BOOLEAN, line' # "join"
    PROVE  ChildType' /\ ThreadType' /\ Load' = 0 /\ OpInv' /\ ThreadInv'
<1>1. Load = 0 /\ ChildType /\ ThreadType /\ ClientTypeOK
  BY Types DEF ConnInv, LoadInv
<1>2. /\ requests' = <<>> /\ stdin' = <<>> /\ stdout' = <<>>
      /\ responses' = <<>> /\ writing' = None /\ job' = None
  BY <1>1, LoadType DEF threadVars
<1>3. Load' = 0
  BY <1>2, NothingIn DEF Load
<1>4. OpInv'
  BY <1>2, NothingIn DEF OpInv
<1>5. ThreadInv'
  BY <1>2 DEF ConnInv, ThreadInv, threadVars
<1>6. ChildType'
  BY <1>1 DEF ChildType
<1>7. ThreadType'
  BY <1>1 DEF ThreadType, threadVars
<1> QED
  BY <1>3, <1>4, <1>5, <1>6, <1>7

\* call, from between two calls: nothing is under way yet.
LEMMA BeginConn ==
    ASSUME ConnInv, line \in {"idle", "returned"}, NEW o \in Ops, NEW token, BeginCall(o, token),
           TokenType'
    PROVE  ConnInv'
<1>1. CallType
  BY Types DEF ConnInv
<1>2. /\ UNCHANGED <<child, job, stdin, stdout, moved, threadVars, sender, closed>>
      /\ callMoved' = FALSE /\ line' \in {"returned", "send"}
      /\ op' = o /\ nonce' = 1 - nonce
      /\ original' = None /\ cancelSent' = FALSE /\ cancelAck' = FALSE
  BY DEF BeginCall
<1>3. \/ line' = "send" /\ reply' = None
      \/ /\ line' = "returned"
         /\ reply' = [result |-> "failed", accepted |-> FALSE, frame |-> FALSE]
  BY DEF BeginCall, Returns
<1>4. reply' \in Reply \cup {None}
  BY <1>3, Replies
<1>5. CallType'
  <2>1. nonce' \in {0, 1}
    BY <1>1, <1>2 DEF CallType
  <2>2. op' \in Ops /\ UNCHANGED <<sender, closed>>
    BY <1>2
  <2>3. line' \in {"idle", "send", "loop", "kill", "join", "returned"}
    BY <1>2
  <2> QED
    BY <1>1, <1>2, <1>4, <2>1, <2>2, <2>3 DEF CallType
<1>6. ChildType' /\ ThreadType' /\ Load' = 0 /\ OpInv' /\ ThreadInv'
  BY <1>2, NothingMoves
<1>7. ReplyInv'
  BY <1>2, <1>3 DEF ReplyInv
<1>8. ClientTypeOK'
  BY <1>5, <1>6, TypesAfter
<1> QED
  BY <1>2, <1>6, <1>7, <1>8 DEF ConnInv, LoadInv, CallInv

\* terminate, from between two calls.
LEMMA TerminateConn ==
    ASSUME ConnInv, line \in {"idle", "returned"}, BeginTerminate, TokenType'
    PROVE  ConnInv'
<1>1. ClientTypeOK /\ CallType
  BY Types DEF ConnInv
<1>2. CallType' /\ ChildType' /\ ThreadType'
  BY <1>1, SameTypes DEF CallType, BeginTerminate
<1>3. OpInv' /\ ThreadInv'
  BY DEF ConnInv, OpInv, ThreadInv, BeginTerminate, childVars, threadVars
<1> QED
  BY <1>2, <1>3, TypesAfter DEF ConnInv, LoadInv, CallInv, ReplyInv, BeginTerminate

\* The end of the call's locals.
LEMMA ForgetConn ==
    ASSUME ConnInv, line \in {"idle", "returned"}, ForgetCall, TokenType'
    PROVE  ConnInv'
<1>1. CallType
  BY Types DEF ConnInv
<1>2. CallType'
  BY <1>1 DEF CallType, ForgetCall, Ops
<1>3. ChildType' /\ ThreadType' /\ Load' = 0 /\ OpInv' /\ ThreadInv'
  BY NothingMoves DEF ForgetCall
<1> QED
  BY <1>2, <1>3, TypesAfter DEF ConnInv, LoadInv, CallInv, ReplyInv, ForgetCall

\* Nothing but the token changes.
LEMMA SameConn ==
    ASSUME ConnInv, UNCHANGED clientVars, TokenType'
    PROVE  ConnInv'
<1>1. UNCHANGED <<childVars, threadVars, callVars, sender, closed>>
  BY DEF clientVars
<1>2. ClientTypeOK'
  BY <1>1, SameTypes, TypesAfter DEF ConnInv
<1> QED
  BY <1>1, <1>2 DEF ConnInv, LoadInv, Load, Due, ThreadInv, CallInv, Ahead, OpInv, ReplyInv,
     childVars, threadVars, callVars

----------------------------------------------------------------------------
(* The steps of call and of terminate.                                     *)

\* The frames that call sends.
LEMMA Requested ==
    ASSUME ConnInv, NEW kind \in {"call", "cancel"}
    PROVE  /\ RequestOf(kind) \in Request
           /\ RequestOf(kind).op = op
           /\ IsCall(RequestOf(kind)) <=> kind = "call"
<1>1. op \in Ops /\ nonce \in {0, 1}
  BY Types DEF ConnInv, CallType
<1>2. RequestOf(kind) \in Request
  BY <1>1 DEF RequestOf, Request
<1> QED
  BY <1>2, NoneAssumption DEF RequestOf, IsCall

\* A transport that has failed: the call ends, and its outcome is unknown.
LEMMA FailedConn ==
    ASSUME ConnInv, TransportFailed, TokenType',
           ThreadType', UNCHANGED <<childVars, sender, closed, op, nonce, cancelSent>>,
           original' \in Response \cup {None}, cancelAck' \in BOOLEAN,
           UNCHANGED <<requests, writer, writing>>
    PROVE  ConnInv'
<1>1. line' = "kill" /\ reply' = [result |-> "failed", accepted |-> TRUE, frame |-> FALSE]
  BY DEF TransportFailed, Returns
<1>2. reply' \in Reply
  BY <1>1, Replies
<1>3. CallType /\ ClientTypeOK
  BY Types DEF ConnInv
<1>4. CallType'
  BY <1>1, <1>2, <1>3 DEF CallType
<1>5. ChildType'
  BY <1>3, SameTypes
<1>6. ClientTypeOK'
  BY <1>4, <1>5, TypesAfter
<1>7. ReplyInv'
  BY <1>1 DEF ReplyInv
<1>8. OpInv' /\ ThreadInv'
  BY <1>1 DEF ConnInv, OpInv, ThreadInv, childVars
<1> QED
  BY <1>1, <1>6, <1>7, <1>8 DEF ConnInv, LoadInv, CallInv

\* The request is sent: one frame under way, one response to wait for.
LEMMA DispatchConn ==
    ASSUME ConnInv, Dispatch, TokenType'
    PROVE  ConnInv'
<1> DEFINE r == RequestOf("call")
<1>0. r \in Request /\ r.op = op /\ IsCall(r)
  BY Requested
<1>1. /\ ClientTypeOK /\ ThreadType /\ CallType /\ ThreadInv /\ OpInv /\ ReplyInv
      /\ line = "send" /\ Load = 0 /\ original = None /\ ~cancelSent /\ ~cancelAck
  BY Types DEF ConnInv, Dispatch, LoadInv
<1>2. /\ requests = <<>> /\ stdin = <<>> /\ stdout = <<>>
      /\ responses = <<>> /\ writing = None /\ job = None
  BY <1>1, LoadType
<1>3. /\ UNCHANGED <<op, nonce, original, cancelAck, childVars, responses, writer, writing,
                     reader, sender, closed>>
      /\ \/ /\ writer = "running" /\ Len(requests) < RequestPlaces
            /\ requests' = Append(requests, r) /\ line' = "loop"
            /\ UNCHANGED <<reply, cancelSent>>
         \/ TransportFailed /\ UNCHANGED <<requests, cancelSent>>
  BY DEF Dispatch, TrySend
<1>4. CASE TransportFailed /\ UNCHANGED <<requests, cancelSent>>
  <2>1. ThreadType'
    BY <1>1, <1>3, <1>4, SameTypes DEF threadVars
  <2>2. original' \in Response \cup {None} /\ cancelAck' \in BOOLEAN
    BY <1>1, <1>3 DEF CallType
  <2> QED
    BY <1>3, <1>4, <2>1, <2>2, FailedConn
<1>5. CASE /\ writer = "running" /\ Len(requests) < RequestPlaces
           /\ requests' = Append(requests, r) /\ line' = "loop"
           /\ UNCHANGED <<reply, cancelSent>>
  <2>1. /\ requests' \in Seq(Request) /\ Len(requests') = Len(requests) + 1
        /\ OneCall(requests') /\ ForOp(requests', op)
    BY <1>0, <1>1, <1>2, <1>5, AppendedCall, NothingIn DEF ThreadType, OpInv
  <2>2. ThreadType'
    BY <1>1, <1>3, <1>5, <2>1, LoadType, ClientAssumption DEF ThreadType
  <2>3. CallType'
    BY <1>1, <1>3, <1>5 DEF CallType
  <2>4. ChildType' /\ UNCHANGED <<stdin, stdout, job, child, moved, callMoved>>
    BY <1>1, <1>3, SameTypes DEF childVars
  <2>5. ClientTypeOK'
    BY <2>2, <2>3, <2>4, TypesAfter
  <2>6. LoadInv'
    <3>1. Load' = 1
      BY <1>2, <1>3, <2>1, <2>4, NothingIn DEF Load
    <3>2. Due' = 1
      BY <1>1, <1>3, <1>5 DEF Due
    <3> QED
      BY <1>1, <1>3, <1>5, <3>1, <3>2 DEF LoadInv
  <2>7. CallInv'
    <3>1. /\ ~HasCall(stdin') /\ ~HasAnswer(stdout') /\ ~HasAnswer(responses') /\ OneCall(stdin')
          /\ job' = None /\ ~IsCall(writing') /\ original' = None
      BY <1>1, <1>2, <1>3, <2>4, NothingIn DEF IsCall
    <3> QED
      BY <2>1, <3>1, NoAnswer DEF CallInv
  <2>8. OpInv' /\ ThreadInv' /\ ReplyInv'
    BY <1>1, <1>3, <1>5, <2>1, <2>4 DEF OpInv, ThreadInv, ReplyInv
  <2> QED
    BY <2>5, <2>6, <2>7, <2>8 DEF ConnInv
<1> QED
  BY <1>3, <1>4, <1>5

\* The cancel is sent: one more frame, and one more response to wait for.
LEMMA SendCancelConn ==
    ASSUME ConnInv, SendCancel, TokenType'
    PROVE  ConnInv'
<1> DEFINE r == RequestOf("cancel")
<1>0. r \in Request /\ r.op = op /\ ~IsCall(r)
  BY Requested
<1>1. /\ ClientTypeOK /\ ThreadType /\ CallType /\ ThreadInv /\ OpInv /\ ReplyInv /\ CallInv
      /\ line = "loop" /\ Load <= Due /\ ~cancelSent /\ ~cancelAck
  BY Types DEF ConnInv, SendCancel, LoadInv, CallType
<1>3. /\ UNCHANGED <<op, nonce, original, cancelAck, childVars, responses, writer, writing,
                     reader, sender, closed>>
      /\ \/ /\ writer = "running" /\ Len(requests) < RequestPlaces
            /\ requests' = Append(requests, r) /\ cancelSent' = TRUE
            /\ UNCHANGED <<line, reply>>
         \/ TransportFailed /\ UNCHANGED <<requests, cancelSent>>
  BY DEF SendCancel, TrySend
<1>4. CASE TransportFailed /\ UNCHANGED <<requests, cancelSent>>
  <2>1. ThreadType'
    BY <1>1, <1>3, <1>4, SameTypes DEF threadVars
  <2>2. original' \in Response \cup {None} /\ cancelAck' \in BOOLEAN
    BY <1>1, <1>3 DEF CallType
  <2> QED
    BY <1>3, <1>4, <2>1, <2>2, FailedConn
<1>5. CASE /\ writer = "running" /\ Len(requests) < RequestPlaces
           /\ requests' = Append(requests, r) /\ cancelSent' = TRUE
           /\ UNCHANGED <<line, reply>>
  <2>1. /\ requests' \in Seq(Request) /\ Len(requests') = Len(requests) + 1
        /\ OneCall(requests') /\ ForOp(requests', op) /\ (HasCall(requests') => HasCall(requests))
    BY <1>0, <1>1, <1>5, AppendedCall DEF ThreadType, OpInv, CallInv
  <2>2. ThreadType'
    BY <1>1, <1>3, <1>5, <2>1, LoadType, ClientAssumption DEF ThreadType
  <2>3. CallType'
    BY <1>1, <1>3, <1>5 DEF CallType
  <2>4. ChildType' /\ UNCHANGED <<stdin, stdout, job, child, moved, callMoved>>
    BY <1>1, <1>3, SameTypes DEF childVars
  <2>5. ClientTypeOK'
    BY <2>2, <2>3, <2>4, TypesAfter
  <2>6. LoadInv'
    <3>1. Load' = Load + 1
      BY <1>1, <1>3, <2>1, <2>4, LoadType DEF Load
    <3>2. Due' = Due + 1 /\ Due \in Nat
      BY <1>1, <1>3, <1>5 DEF Due
    <3> QED
      BY <1>1, <1>3, <1>5, <3>1, <3>2, LoadType DEF LoadInv
  <2>7. CallInv'
    BY <1>1, <1>3, <2>1, <2>4 DEF CallInv, Ahead
  <2>8. OpInv' /\ ThreadInv' /\ ReplyInv'
    BY <1>1, <1>3, <1>5, <2>1, <2>4 DEF OpInv, ThreadInv, ReplyInv
  <2> QED
    BY <2>5, <2>6, <2>7, <2>8 DEF ConnInv
<1> QED
  BY <1>3, <1>4, <1>5

\* The deadline of a call.
LEMMA GiveUpConn ==
    ASSUME ConnInv, GiveUp, TokenType'
    PROVE  ConnInv'
<1>1. ClientTypeOK /\ CallType
  BY Types DEF ConnInv
<1>2. ThreadType'
  BY <1>1, SameTypes DEF GiveUp
<1> QED
  BY <1>1, <1>2, FailedConn DEF GiveUp, CallType, threadVars

\* terminate kills the child.
LEMMA KillConn ==
    ASSUME ConnInv, Kill, TokenType'
    PROVE  ConnInv'
<1>1. ClientTypeOK /\ ChildType /\ CallType
  BY Types DEF ConnInv
<1>2. ThreadType'
  BY <1>1, SameTypes DEF Kill
<1>3. ChildType'
  BY <1>1, NothingIn DEF ChildType, Kill, KillChild
<1>4. CallType'
  BY <1>1 DEF CallType, Kill, TakeRequests
<1>5. OpInv'
  BY NothingIn DEF ConnInv, OpInv, Kill, KillChild, threadVars
<1>6. ThreadInv' /\ ReplyInv'
  BY DEF ConnInv, ThreadInv, ReplyInv, Kill, KillChild, threadVars
<1> QED
  BY <1>2, <1>3, <1>4, <1>5, <1>6, TypesAfter DEF ConnInv, LoadInv, CallInv, Kill

\* terminate has joined the threads: pipes and channels are empty.
LEMMA JoinConn ==
    ASSUME ConnInv, Join, TokenType'
    PROVE  ConnInv'
<1>1. ClientTypeOK /\ ChildType /\ ThreadType /\ CallType
  BY Types DEF ConnInv
<1>2. /\ requests' = <<>> /\ stdin' = <<>> /\ stdout' = <<>>
      /\ responses' = <<>> /\ writing' = None /\ job' = None
  BY DEF Join, ConnInv, ThreadInv
<1>3. Load' = 0 /\ OpInv'
  BY <1>2, NothingIn DEF Load, OpInv
<1>4. ChildType' /\ ThreadType'
  BY <1>1, NothingIn, ClientAssumption DEF ChildType, ThreadType, Join
<1>5. CallType'
  BY <1>1 DEF CallType, Join
<1>6. ThreadInv' /\ ReplyInv'
  BY DEF ConnInv, ThreadInv, ReplyInv, Join
<1> QED
  BY <1>3, <1>4, <1>5, <1>6, TypesAfter DEF ConnInv, LoadInv, CallInv, Join

\* A response that is waited for is taken, and any other fails the transport.
LEMMA ReceiveConn ==
    ASSUME ConnInv, ReceiveResponse, TokenType'
    PROVE  ConnInv'
<1> DEFINE r == Head(responses)
<1>1. /\ ClientTypeOK /\ ThreadType /\ CallType /\ ThreadInv /\ OpInv /\ ReplyInv /\ CallInv
      /\ line = "loop" /\ responses # <<>> /\ responses' = Tail(responses)
      /\ Load <= Due /\ (cancelAck => cancelSent)
      /\ UNCHANGED <<op, nonce, cancelSent, childVars, requests, writer, writing, reader, sender,
                     closed>>
  BY Types DEF ConnInv, ReceiveResponse, LoadInv
<1>2. /\ r \in Response \cup {Broken} /\ responses' \in Seq(Response \cup {Broken})
      /\ Len(responses') = Len(responses) - 1
      /\ HasAnswer(responses') => HasAnswer(responses)
      /\ IsAnAnswer(r) => HasAnswer(responses) /\ Tells(r, moved, callMoved)
      /\ AllTell(responses', moved, callMoved)
  BY <1>1, TakenAnswer DEF ThreadType, CallInv
<1>3. ThreadType'
  BY <1>1, <1>2, LoadType, ClientAssumption DEF ThreadType
<1>4. Load' = Load - 1 /\ Load \in Nat /\ Load' \in Nat
  <2>1. Load \in Nat /\ Len(responses) \in Nat /\ Len(responses') \in Nat
    BY <1>1, <1>2, LoadType, EmptyPipe
  <2> QED
    BY <1>1, <1>2, <2>1, LoadType DEF Load, childVars
<1>5. ASSUME NEW answer \in Response \cup {None}, NEW ack \in BOOLEAN, Continue(answer, ack),
             \/ answer = original /\ ack = TRUE /\ cancelSent /\ ~cancelAck
             \/ answer = r /\ r # Broken /\ IsAnAnswer(r) /\ original = None /\ ack = cancelAck
      PROVE  ConnInv'
  <2>1. original' = answer /\ cancelAck' = ack
    BY <1>5 DEF Continue
  <2>2. Due' = Due - 1 /\ Due \in Nat
    BY <1>1, <1>2, <1>5, <2>1, NoneAssumption DEF Due, CallType
  <2>3. answer # None => Tells(answer, moved, callMoved) /\ ~Ahead /\ job = None
    BY <1>1, <1>2, <1>5 DEF CallInv
  <2>4. \/ /\ line' = "returned" /\ answer # None /\ (cancelSent => ack)
           /\ reply' = [result |-> IF answer.completed THEN "ok" ELSE "failed",
                        accepted |-> answer.accepted, frame |-> answer.frame]
        \/ line' = "loop" /\ reply' = reply
    BY <1>1, <1>5 DEF Continue, IsComplete, Settle, Returns
  <2>5. reply' \in Reply \cup {None}
    <3>1. CASE line' = "loop" /\ reply' = reply
      BY <1>1, <3>1 DEF CallType
    <3>2. CASE /\ line' = "returned" /\ answer # None
               /\ reply' = [result |-> IF answer.completed THEN "ok" ELSE "failed",
                            accepted |-> answer.accepted, frame |-> answer.frame]
      <4>1. answer.completed \in BOOLEAN /\ answer.accepted \in BOOLEAN /\ answer.frame \in BOOLEAN
        BY <1>5, <3>2 DEF Response
      <4>2. (IF answer.completed THEN "ok" ELSE "failed") \in {"ok", "failed"}
        BY <4>1
      <4> QED
        BY <3>2, <4>1, <4>2, Replies
    <3> QED
      BY <2>4, <3>1, <3>2
  <2>6. CallType'
    BY <1>1, <1>5, <2>1, <2>4, <2>5 DEF CallType
  <2>7. ChildType' /\ UNCHANGED <<stdin, stdout, job, child, moved, callMoved>>
    BY <1>1, SameTypes DEF childVars
  <2>8. ClientTypeOK'
    BY <1>3, <2>6, <2>7, TypesAfter
  <2>9. LoadInv'
    <3>1. line' = "returned" => Due' = 0
      BY <1>1, <2>1, <2>4, NoneAssumption DEF Due
    <3>2. Load' <= Due'
      BY <1>1, <1>4, <2>2
    <3> QED
      BY <1>1, <1>4, <1>5, <2>1, <2>4, <3>1, <3>2 DEF LoadInv
  <2>10. CallInv'
    BY <1>1, <1>2, <2>1, <2>3, <2>7 DEF CallInv, Ahead
  <2>11. OpInv' /\ ThreadInv'
    BY <1>1, <2>4, <2>7 DEF OpInv, ThreadInv
  <2>12. ReplyInv'
    BY <1>1, <2>3, <2>4, <2>7 DEF ReplyInv, Tells
  <2> QED
    BY <2>8, <2>9, <2>10, <2>11, <2>12 DEF ConnInv
<1>6. CASE r # Broken /\ IsAck(r) /\ ~cancelAck /\ r.completed /\ Continue(original, TRUE)
  <2>1. cancelSent /\ original \in Response \cup {None}
    BY <1>1, <1>6 DEF IsAck, CallType
  <2> QED
    BY <1>5, <1>6, <2>1
<1>7. CASE r # Broken /\ IsAnswer(r) /\ original = None /\ Continue(r, cancelAck)
  <2>1. r \in Response /\ IsAnAnswer(r) /\ cancelAck \in BOOLEAN
    BY <1>1, <1>2, <1>7 DEF IsAnswer, IsAnAnswer, CallType
  <2> QED
    BY <1>5, <1>7, <2>1
<1>8. CASE TransportFailed /\ UNCHANGED <<original, cancelAck>>
  BY <1>1, <1>3, <1>8, FailedConn DEF CallType
<1> QED
  BY <1>6, <1>7, <1>8 DEF ReceiveResponse

\* The steps of call.
LEMMA CallStepConn ==
    ASSUME ConnInv, CallStep, TokenType'
    PROVE  ConnInv'
BY DispatchConn, SendCancelConn, ReceiveConn, GiveUpConn, KillConn, JoinConn DEF CallStep

----------------------------------------------------------------------------
(* The threads.                                                            *)

\* A thread passes a frame on, or loses it.
LEMMA Pushed ==
    ASSUME ConnInv, NEW r \in Response \cup {Broken}, PushResponse(r)
    PROVE  /\ responses' \in Seq(Response \cup {Broken}) /\ Len(responses') <= ResponsePlaces
           /\ Len(responses') \in Nat /\ Len(responses') <= Len(responses) + 1
           /\ HasAnswer(responses') => HasAnswer(responses) \/ IsAnAnswer(r)
           /\ AllTell(responses, moved, callMoved) /\ (IsAnAnswer(r) => Tells(r, moved, callMoved))
                => AllTell(responses', moved, callMoved)
<1>1. responses \in Seq(Response \cup {Broken}) /\ Len(responses) <= ResponsePlaces
  BY Types DEF ConnInv, ThreadType
<1>2. Len(responses) \in Nat
  BY <1>1, EmptyPipe
<1>3. CASE Len(responses) < ResponsePlaces /\ responses' = Append(responses, r)
  <2>1. /\ responses' \in Seq(Response \cup {Broken}) /\ Len(responses') = Len(responses) + 1
        /\ HasAnswer(responses') => HasAnswer(responses) \/ IsAnAnswer(r)
        /\ AllTell(responses, moved, callMoved) /\ (IsAnAnswer(r) => Tells(r, moved, callMoved))
             => AllTell(responses', moved, callMoved)
    BY <1>1, <1>3, AppendedAnswer
  <2> QED
    BY <1>2, <1>3, <2>1, ClientAssumption
<1>4. CASE responses' = responses
  BY <1>1, <1>2, <1>4
<1> QED
  BY <1>3, <1>4 DEF PushResponse

\* A step that leaves the call alone and lets no more frames be under way.
LEMMA StillLoaded ==
    ASSUME ConnInv, UNCHANGED <<callVars, sender, closed>>, Load' <= Load, Load' \in Nat
    PROVE  LoadInv'
<1>1. Load \in Nat /\ Due \in Nat
  BY LoadType DEF ConnInv, Due
<1>2. Due' = Due /\ UNCHANGED <<line, original, cancelSent, cancelAck>>
  BY DEF callVars, Due
<1> QED
  BY <1>1, <1>2 DEF ConnInv, LoadInv

\* The writer passes requests on; on a broken pipe it reports and ends.
LEMMA WriterConn ==
    ASSUME ConnInv, WriterStep, TokenType'
    PROVE  ConnInv'
<1>1. /\ ClientTypeOK /\ ThreadType /\ CallType /\ ChildType
      /\ ThreadInv /\ OpInv /\ ReplyInv /\ CallInv
      /\ UNCHANGED <<child, job, stdout, moved, callMoved, callVars, sender, closed, reader>>
  BY Types DEF ConnInv, WriterStep, WriterTakes, WriterWrites, WriterEnds
<1>2. CallType'
  BY <1>1, SameTypes
<1>3. UNCHANGED <<line, op, original, reply>>
  BY <1>1 DEF callVars
<1>4. /\ Len(requests) \in Nat /\ Len(stdin) \in Nat /\ Len(stdout) \in Nat
      /\ Len(responses) \in Nat /\ Load \in Nat
  BY <1>1, LoadType
<1>5. ReplyInv'
  BY <1>1, <1>3 DEF ReplyInv
<1>6. CASE WriterTakes
  <2>1. /\ writing' = Head(requests) /\ requests' = Tail(requests) /\ requests # <<>>
        /\ UNCHANGED <<responses, writer, stdin>> /\ writer = "running" /\ writing = None
    BY <1>6 DEF WriterTakes
  <2>2. /\ writing' \in Request /\ requests' \in Seq(Request) /\ Len(requests') = Len(requests) - 1
        /\ HasCall(requests') => HasCall(requests)
        /\ IsCall(writing') => HasCall(requests)
        /\ OneCall(requests) => OneCall(requests') /\ (IsCall(writing') => ~HasCall(requests'))
        /\ ForOp(requests', op) /\ writing'.op = op
    BY <1>1, <2>1, TakenCall DEF ThreadType, OpInv
  <2>3. ThreadType' /\ ChildType'
    BY <1>1, <1>4, <2>1, <2>2, ClientAssumption DEF ThreadType, ChildType
  <2>4. Load' = Load
    <3>1. writing' # None
      BY <2>2, NoneAssumption
    <3> QED
      BY <1>1, <1>4, <2>1, <2>2, <3>1 DEF Load
  <2>5. CallInv'
    BY <1>1, <1>3, <2>1, <2>2 DEF CallInv, Ahead, IsCall
  <2>6. OpInv' /\ ThreadInv'
    BY <1>1, <1>3, <2>1, <2>2 DEF OpInv, ThreadInv
  <2> QED
    BY <1>1, <1>2, <1>4, <1>5, <2>3, <2>4, <2>5, <2>6, StillLoaded, TypesAfter DEF ConnInv
<1>7. CASE WriterWrites /\ child # "dead"
  <2>1. /\ writing # None /\ writing' = None /\ stdin' = Append(stdin, writing)
        /\ UNCHANGED <<requests, responses, writer>>
    BY <1>7 DEF WriterWrites
  <2>2. writing \in Request /\ writing.op = op /\ stdin \in Seq(Request)
    BY <1>1, <2>1 DEF ThreadType, ChildType, OpInv
  <2>3. /\ stdin' \in Seq(Request) /\ Len(stdin') = Len(stdin) + 1
        /\ HasCall(stdin') => HasCall(stdin) \/ IsCall(writing)
        /\ OneCall(stdin) /\ (IsCall(writing) => ~HasCall(stdin)) => OneCall(stdin')
        /\ ForOp(stdin', op)
    BY <1>1, <2>1, <2>2, AppendedCall DEF OpInv
  <2>4. ThreadType' /\ ChildType'
    BY <1>1, <2>1, <2>3 DEF ThreadType, ChildType
  <2>5. Load' = Load
    BY <1>1, <1>4, <2>1, <2>3 DEF Load
  <2>6. CallInv'
    BY <1>1, <1>3, <2>1, <2>3 DEF CallInv, Ahead, IsCall
  <2>7. OpInv' /\ ThreadInv'
    BY <1>1, <1>3, <1>7, <2>1, <2>3 DEF OpInv, ThreadInv
  <2> QED
    BY <1>1, <1>2, <1>4, <1>5, <2>4, <2>5, <2>6, <2>7, StillLoaded, TypesAfter DEF ConnInv
<1>8. CASE WriterWrites /\ child = "dead"
  <2>1. /\ writing # None /\ writing' = None /\ PushResponse(Broken) /\ writer' = "gone"
        /\ requests' = <<>> /\ UNCHANGED stdin
    BY <1>8 DEF WriterWrites
  <2>2. /\ responses' \in Seq(Response \cup {Broken}) /\ Len(responses') <= ResponsePlaces
        /\ Len(responses') \in Nat /\ Len(responses') <= Len(responses) + 1
        /\ HasAnswer(responses') => HasAnswer(responses)
        /\ AllTell(responses, moved, callMoved) => AllTell(responses', moved, callMoved)
    BY <2>1, Pushed DEF IsAnAnswer
  <2>3. ThreadType' /\ ChildType'
    BY <1>1, <2>1, <2>2, NothingIn, ClientAssumption DEF ThreadType, ChildType
  <2>4. Load' <= Load /\ Load' \in Nat
    BY <1>1, <1>4, <2>1, <2>2, NothingIn DEF Load
  <2>5. CallInv'
    BY <1>1, <1>3, <2>1, <2>2, NothingIn DEF CallInv, Ahead, IsCall
  <2>6. OpInv' /\ ThreadInv'
    BY <1>1, <1>3, <2>1, <2>2, NothingIn DEF OpInv, ThreadInv
  <2> QED
    BY <1>1, <1>2, <1>4, <1>5, <2>3, <2>4, <2>5, <2>6, StillLoaded, TypesAfter DEF ConnInv
<1>9. CASE WriterEnds
  <2>1. /\ writing = None /\ requests = <<>> /\ writer' = "gone"
        /\ UNCHANGED <<requests, responses, writing, stdin>>
    BY <1>9 DEF WriterEnds
  <2>2. ThreadType' /\ ChildType'
    BY <1>1, <2>1 DEF ThreadType, ChildType
  <2>3. Load' = Load
    BY <1>1, <2>1 DEF Load
  <2>4. CallInv' /\ OpInv' /\ ThreadInv'
    BY <1>1, <1>3, <2>1 DEF CallInv, Ahead, OpInv, ThreadInv
  <2> QED
    BY <1>1, <1>2, <1>4, <1>5, <2>2, <2>3, <2>4, StillLoaded, TypesAfter DEF ConnInv
<1> QED
  BY <1>6, <1>7, <1>8, <1>9 DEF WriterStep

\* The reader passes responses on, or ends.
LEMMA ReaderConn ==
    ASSUME ConnInv, ReaderStep, TokenType'
    PROVE  ConnInv'
<1>1. /\ ClientTypeOK /\ ThreadType /\ CallType /\ ChildType
      /\ ThreadInv /\ OpInv /\ ReplyInv /\ CallInv
      /\ UNCHANGED <<child, job, stdin, moved, callMoved, requests, writer, writing,
                     callVars, sender, closed>>
  BY Types DEF ConnInv, ReaderStep
<1>2. CallType'
  BY <1>1, SameTypes
<1>3. UNCHANGED <<line, op, original, reply>>
  BY <1>1 DEF callVars
<1>4. /\ Len(requests) \in Nat /\ Len(stdin) \in Nat /\ Len(stdout) \in Nat
      /\ Len(responses) \in Nat /\ Load \in Nat
  BY <1>1, LoadType
<1>5. OpInv' /\ ThreadInv' /\ ReplyInv'
  BY <1>1, <1>3 DEF OpInv, ThreadInv, ReplyInv
<1>6. CASE ReaderReads
  <2>1. /\ stdout # <<>> /\ stdout' = Tail(stdout) /\ PushResponse(Head(stdout))
        /\ reader' \in {"gone", "running"}
    BY <1>6 DEF ReaderReads
  <2>2. /\ Head(stdout) \in Response \cup {Broken} /\ stdout' \in Seq(Response \cup {Broken})
        /\ Len(stdout') = Len(stdout) - 1
        /\ HasAnswer(stdout') => HasAnswer(stdout)
        /\ IsAnAnswer(Head(stdout)) => HasAnswer(stdout)
        /\ AllTell(stdout, moved, callMoved) =>
             /\ AllTell(stdout', moved, callMoved)
             /\ IsAnAnswer(Head(stdout)) => Tells(Head(stdout), moved, callMoved)
    BY <1>1, <2>1, TakenAnswer DEF ChildType
  <2>3. Len(stdout') \in Nat
    BY <2>2, EmptyPipe
  <2>4. /\ responses' \in Seq(Response \cup {Broken}) /\ Len(responses') <= ResponsePlaces
        /\ Len(responses') \in Nat /\ Len(responses') <= Len(responses) + 1
        /\ HasAnswer(responses') => HasAnswer(responses) \/ IsAnAnswer(Head(stdout))
        /\ /\ AllTell(responses, moved, callMoved)
           /\ IsAnAnswer(Head(stdout)) => Tells(Head(stdout), moved, callMoved)
           => AllTell(responses', moved, callMoved)
    BY <2>1, <2>2, Pushed
  <2>5. ThreadType' /\ ChildType'
    BY <1>1, <2>1, <2>2, <2>4 DEF ThreadType, ChildType
  <2>6. Load' <= Load /\ Load' \in Nat
    BY <1>1, <1>4, <2>2, <2>3, <2>4 DEF Load
  <2>7. CallInv'
    BY <1>1, <1>3, <2>2, <2>4 DEF CallInv, Ahead
  <2> QED
    BY <1>1, <1>2, <1>5, <2>5, <2>6, <2>7, StillLoaded, TypesAfter DEF ConnInv
<1>7. CASE ReaderEof
  <2>1. reader' = "gone" /\ UNCHANGED <<stdout, responses>>
    BY <1>7 DEF ReaderEof
  <2>2. ThreadType' /\ ChildType'
    BY <1>1, <2>1 DEF ThreadType, ChildType
  <2>3. Load' = Load
    BY <1>1, <2>1 DEF Load
  <2>4. CallInv'
    BY <1>1, <1>3, <2>1 DEF CallInv, Ahead
  <2> QED
    BY <1>1, <1>2, <1>4, <1>5, <2>2, <2>3, <2>4, StillLoaded, TypesAfter DEF ConnInv
<1> QED
  BY <1>6, <1>7 DEF ReaderStep

----------------------------------------------------------------------------
(* The child.                                                              *)

\* A child that is executing a call is executing one of a loop, or of a loop that has failed.
LEMMA BusyChild ==
    ASSUME ConnInv, child = "busy"
    PROVE  /\ job # None /\ job \in Request
           /\ line \in {"loop", "kill"} /\ Load > 0
<1>1. job # None /\ job \in Request /\ ClientTypeOK /\ CallType
  BY Types DEF ConnInv, ChildType
<1>2. Load # 0 /\ Load \in Nat
  BY <1>1, LoadType
<1> QED
  BY <1>1, <1>2 DEF ConnInv, LoadInv, ThreadInv, CallType

\* The child takes a request, moves, answers, or dies.
LEMMA ChildConn ==
    ASSUME ConnInv, ChildStep, TokenType'
    PROVE  ConnInv'
<1>1. /\ ClientTypeOK /\ ThreadType /\ CallType /\ ChildType
      /\ ThreadInv /\ OpInv /\ ReplyInv /\ CallInv
      /\ UNCHANGED <<threadVars, callVars, sender, closed>>
  BY Types DEF ConnInv, ChildStep
<1>2. CallType' /\ ThreadType'
  BY <1>1, SameTypes
<1>3. UNCHANGED <<line, op, original, reply, requests, responses, writer, writing, closed>>
  BY <1>1 DEF callVars, threadVars
<1>4. /\ Len(requests) \in Nat /\ Len(stdin) \in Nat /\ Len(stdout) \in Nat
      /\ Len(responses) \in Nat /\ Load \in Nat
  BY <1>1, LoadType
<1>5. CASE ChildTakes
  <2> DEFINE r == Head(stdin)
             ack == [kind |-> "ack", op |-> r.op, nonce |-> r.nonce,
                     completed |-> TRUE, accepted |-> FALSE, frame |-> FALSE]
  <2>1. /\ child = "idle" /\ stdin # <<>> /\ stdin' = Tail(stdin)
        /\ UNCHANGED <<moved, callMoved>>
        /\ \/ r.kind = "call" /\ child' = "busy" /\ job' = r /\ UNCHANGED stdout
           \/ r.kind # "call" /\ stdout' = Append(stdout, ack) /\ UNCHANGED <<child, job>>
    BY <1>5 DEF ChildTakes, ChildWrites
  <2>2. /\ r \in Request /\ stdin' \in Seq(Request) /\ Len(stdin') = Len(stdin) - 1
        /\ HasCall(stdin') => HasCall(stdin)
        /\ IsCall(r) => HasCall(stdin)
        /\ OneCall(stdin) => OneCall(stdin') /\ (IsCall(r) => ~HasCall(stdin'))
        /\ ForOp(stdin', op) /\ r.op = op
    BY <1>1, <2>1, TakenCall DEF ChildType, OpInv
  <2>3. r # None /\ Len(stdin') \in Nat /\ job = None
    BY <1>1, <2>1, <2>2, EmptyPipe, NoneAssumption DEF ChildType
  <2>4. CASE r.kind = "call" /\ child' = "busy" /\ job' = r /\ UNCHANGED stdout
    <3>1. ChildType'
      BY <1>1, <2>1, <2>2, <2>3, <2>4 DEF ChildType
    <3>2. Load' = Load
      BY <1>3, <1>4, <2>2, <2>3, <2>4 DEF Load
    <3>3. IsCall(r)
      BY <2>3, <2>4 DEF IsCall
    <3>4. CallInv'
      BY <1>1, <1>3, <2>1, <2>2, <2>4, <3>3 DEF CallInv, Ahead
    <3>5. OpInv'
      BY <1>1, <1>3, <2>2, <2>4 DEF OpInv
    <3>6. ThreadInv' /\ ReplyInv'
      BY <1>1, <1>3, <2>1 DEF ThreadInv, ReplyInv
    <3> QED
      BY <1>1, <1>2, <1>4, <3>1, <3>2, <3>4, <3>5, <3>6, StillLoaded, TypesAfter DEF ConnInv
  <2>5. CASE r.kind # "call" /\ stdout' = Append(stdout, ack) /\ UNCHANGED <<child, job>>
    <3>1. ack \in Response /\ ~IsAnAnswer(ack)
      BY <2>2 DEF Request, Response, IsAnAnswer
    <3>2. /\ stdout' \in Seq(Response \cup {Broken}) /\ Len(stdout') = Len(stdout) + 1
          /\ HasAnswer(stdout') => HasAnswer(stdout)
          /\ AllTell(stdout, moved, callMoved) => AllTell(stdout', moved, callMoved)
      BY <1>1, <2>5, <3>1, AppendedAnswer DEF ChildType
    <3> HIDE DEF r, ack
    <3>3. ChildType'
      BY <1>1, <2>1, <2>2, <2>5, <3>2 DEF ChildType
    <3>4. Load' = Load
      BY <1>3, <1>4, <2>2, <2>3, <2>5, <3>2 DEF Load
    <3>5. CallInv'
      BY <1>1, <1>3, <2>1, <2>2, <2>5, <3>2 DEF CallInv, Ahead
    <3>6. OpInv'
      BY <1>1, <1>3, <2>2, <2>5 DEF OpInv
    <3>7. ThreadInv' /\ ReplyInv'
      BY <1>1, <1>3, <2>1, <2>5 DEF ThreadInv, ReplyInv
    <3> QED
      BY <1>1, <1>2, <1>4, <3>3, <3>4, <3>5, <3>6, <3>7, StillLoaded, TypesAfter DEF ConnInv
  <2> QED
    BY <2>1, <2>4, <2>5
<1>6. CASE ChildEvent
  <2>1. /\ child = "busy" /\ moved' = TRUE /\ callMoved' = TRUE
        /\ UNCHANGED <<child, job, stdin, stdout>>
    BY <1>6 DEF ChildEvent
  <2>2. job # None /\ line \in {"loop", "kill"}
    BY <2>1, BusyChild
  <2>3. ChildType'
    BY <1>1, <2>1 DEF ChildType
  <2>4. Load' = Load
    BY <1>3, <2>1 DEF Load
  <2>5. CallInv'
    BY <1>1, <1>3, <2>1, <2>2, NoAnswer DEF CallInv, Ahead
  <2>6. ReplyInv'
    BY <1>1, <1>3, <2>2 DEF ReplyInv
  <2>7. OpInv' /\ ThreadInv'
    BY <1>1, <1>3, <2>1 DEF OpInv, ThreadInv
  <2> QED
    BY <1>1, <1>2, <1>4, <2>3, <2>4, <2>5, <2>6, <2>7, StillLoaded, TypesAfter DEF ConnInv
<1>7. CASE ChildAnswers
  <2>1. PICK r \in Response \cup {Broken}, frameSent \in BOOLEAN :
          /\ stdout' = Append(stdout, r)
          /\ moved' = (moved /\ ~frameSent)
          /\ IsAnAnswer(r) => Tells(r, moved', callMoved)
    <3>1. PICK completed \in BOOLEAN, accepted \in BOOLEAN, frameSent \in BOOLEAN :
            /\ IF completed THEN ~accepted ELSE callMoved => accepted
            /\ moved' = (moved /\ ~frameSent)
            /\ \/ stdout' = Append(stdout, [kind |-> "answer", op |-> job.op, nonce |-> job.nonce,
                                            completed |-> completed, accepted |-> accepted,
                                            frame |-> frameSent])
               \/ stdout' = Append(stdout, Broken)
      BY <1>7 DEF ChildAnswers, ChildWrites
    <3> DEFINE r == [kind |-> "answer", op |-> job.op, nonce |-> job.nonce,
                     completed |-> completed, accepted |-> accepted, frame |-> frameSent]
    <3>2. job \in Request
      BY <1>7, BusyChild DEF ChildAnswers
    <3>3. r \in Response
      BY <3>2 DEF Request, Response
    <3>4. Tells(r, moved', callMoved)
      BY <3>1 DEF Tells
    <3>5. ~IsAnAnswer(Broken)
      BY DEF IsAnAnswer
    <3> HIDE DEF r
    <3>6. CASE stdout' = Append(stdout, r)
      BY <3>1, <3>3, <3>4, <3>6
    <3>7. CASE stdout' = Append(stdout, Broken)
      BY <3>1, <3>5, <3>7
    <3> QED
      BY <3>1, <3>6, <3>7 DEF r
  <2>2. /\ child = "busy" /\ child' \in {"dead", "idle"} /\ job' = None
        /\ UNCHANGED <<stdin, callMoved>>
    BY <1>7 DEF ChildAnswers
  <2>3. job # None /\ line \in {"loop", "kill"}
    BY <2>2, BusyChild
  <2>4. /\ stdout' \in Seq(Response \cup {Broken}) /\ Len(stdout') = Len(stdout) + 1
        /\ ~HasAnswer(stdout) /\ (IsAnAnswer(r) => Tells(r, moved', callMoved))
             => AllTell(stdout', moved', callMoved)
    BY <1>1, <2>1, AppendedAnswer, NoAnswer DEF ChildType
  <2>5. ChildType'
    BY <1>1, <2>1, <2>2, <2>4 DEF ChildType
  <2>6. Load' = Load
    BY <1>3, <1>4, <2>2, <2>3, <2>4 DEF Load
  <2>7. CallInv'
    BY <1>1, <1>3, <2>1, <2>2, <2>3, <2>4, NoAnswer DEF CallInv, Ahead
  <2>8. ReplyInv'
    BY <1>1, <1>3, <2>2, <2>3 DEF ReplyInv
  <2>9. OpInv' /\ ThreadInv'
    BY <1>1, <1>3, <2>2, <2>3 DEF OpInv, ThreadInv
  <2> QED
    BY <1>1, <1>2, <1>4, <2>5, <2>6, <2>7, <2>8, <2>9, StillLoaded, TypesAfter DEF ConnInv
<1>8. CASE ChildDies
  <2>1. /\ child' = "dead" /\ job' = None /\ stdin' = <<>>
        /\ UNCHANGED <<stdout, moved, callMoved>>
    BY <1>8 DEF ChildDies
  <2>2. ChildType'
    BY <1>1, <2>1, NothingIn DEF ChildType
  <2>3. Load' <= Load /\ Load' \in Nat
    BY <1>3, <1>4, <2>1, NothingIn DEF Load
  <2>4. CallInv'
    BY <1>1, <1>3, <2>1, NothingIn DEF CallInv, Ahead
  <2>5. OpInv' /\ ThreadInv' /\ ReplyInv'
    BY <1>1, <1>3, <2>1, NothingIn DEF OpInv, ThreadInv, ReplyInv
  <2> QED
    BY <1>1, <1>2, <1>4, <2>2, <2>3, <2>4, <2>5, StillLoaded, TypesAfter DEF ConnInv
<1> QED
  BY <1>5, <1>6, <1>7, <1>8 DEF ChildStep

----------------------------------------------------------------------------
(* The service.                                                            *)

ServerType ==
    /\ peer \in BOOLEAN
    /\ active \in {"none", "queued", "running", "lost"}
    /\ queued \in Tools \cup {None}
    /\ active = "queued" <=> queued # None
    /\ queuedToken \in BOOLEAN
    /\ toolMoved \in BOOLEAN

DeskType ==
    /\ tool \in Tools
    /\ stage \in Stages
    /\ outcome \in ToolOutcome
    /\ connected \in BOOLEAN /\ frame \in BOOLEAN
    /\ batch \in 0..MaximumRunBatches

InputStages == {"interacting", "pointing", "batching"}

\* Where the owner waits for a call, and where it uses what the call returned.
CallStages ==
    InputStages \cup {"single", "opening", "unopening", "closing", "listing", "observing",
                      "pointed", "authorizing", "borrowing", "filling", "stopping"}

WaitStages == CallStages \cup {"dropping", "stopped"}

\* The owner's place and its call fit.
StageInv ==
    /\ line \in {"send", "loop", "kill", "join"} => stage \in WaitStages
    /\ line \in {"kill", "join", "returned"} /\ stage \in CallStages => reply # None
    /\ op \in InputOps => stage \in InputStages \cup {"batch", "release"}

\* No event has left since the desktop's frame was observed; an input under way has used it up.
FrameInv ==
    /\ frame /\ stage # "batching" => ~moved
    /\ stage \in {"interacting", "pointing"} => ~frame /\ (moved => callMoved)

\* Where the owner may be after an event has left during its tool, and what it then answers.
EventFits ==
    \/ stage \in {"interacting", "pointing"} /\ callMoved
    \/ stage \in {"pointed", "filling", "batch", "batching"}
    \/ stage \in {"release", "emit"} /\ (tool = "run" \/ ~outcome.error \/ outcome.accepted)

MoveInv ==
    /\ stage \in {"filling", "batch", "batching"} => tool = "run"
    /\ toolMoved => EventFits

\* Where the owner may be without a registered call.
LooseStages ==
    {"recv", "emit", "dispose", "exited", "stop", "stopping", "stopWait", "stopped"}

RunInv == stage \notin LooseStages => active = "running"

DeskInv == DeskType /\ StageInv /\ FrameInv /\ MoveInv /\ RunInv

IInv == ConnInv /\ ServerType /\ DeskInv

\* How a step of the desktop uses the connection.
Uses ==
    \/ /\ NoCall /\ stage' \in {"release", "stop", "batch", "stopWait", "exited"}
       /\ op \in InputOps => stage' \in {"release", "batch"}
    \/ StartBroker /\ stage' \in {"started", "borrowed", "stop"} /\ op \notin InputOps
    \/ \E o \in Ops, token \in BOOLEAN :
          BeginCall(o, token) /\ stage' \in CallStages /\ (o \in InputOps => stage' \in InputStages)
    \/ BeginTerminate /\ stage' \in {"dropping", "stopped"} /\ op \notin InputOps

\* What a step of the desktop does to frame, outcome and tool.
Keeps ==
    /\ DeskType'
    /\ frame' => ~moved \/ (frame /\ stage # "batching")
    /\ stage' \in {"interacting", "pointing"} => stage = "tool" /\ ~frame' /\ ~moved
    /\ stage' \in {"filling", "batch", "batching"} => tool' = "run"
    /\ stage' = "release" /\ toolMoved => tool' = "run" \/ ~outcome'.error \/ outcome'.accepted
    /\ toolMoved => stage' \in {"release", "pointed", "filling", "batch", "batching"}
    /\ stage' \in LooseStages \/ stage \notin LooseStages \/ active = "running"

\* A record of the right fields is an outcome.
LEMMA Outcomes ==
    ASSUME NEW error \in BOOLEAN, NEW accepted \in BOOLEAN
    PROVE  [error |-> error, accepted |-> accepted] \in ToolOutcome
BY DEF ToolOutcome

\* How a tool begins a call.
LEMMA BeginUses ==
    ASSUME NEW o \in Ops, NEW token \in BOOLEAN, BeginCall(o, token), stage' \in CallStages,
           o \in InputOps => stage' \in InputStages
    PROVE  Uses
BY DEF Uses

\* Each step of a tool uses the connection between two calls, as Uses says, and Keeps the
\* desktop's books.
LEMMA DeskKeeps ==
    ASSUME IInv, DeskStep, UNCHANGED <<tool, toolMoved>>, cancelled \in BOOLEAN
    PROVE  line \in {"idle", "returned"} /\ Uses /\ Keeps
<1> USE DEF CallStages, WaitStages, InputStages, LooseStages, InputOps
<1>1. /\ line \in {"idle", "send", "loop", "kill", "join", "returned"}
      /\ reply \in Reply \cup {None}
      /\ DeskType /\ ServerType /\ StageInv /\ FrameInv /\ MoveInv /\ RunInv /\ ReplyInv
  BY Types DEF IInv, ConnInv, DeskInv, CallType
<1>2. ASSUME line = "returned", stage \in CallStages
      PROVE  /\ reply.result \in {"ok", "failed"}
             /\ reply.accepted \in BOOLEAN /\ reply.frame \in BOOLEAN
             /\ reply.result = "failed" /\ ~reply.accepted => ~callMoved
             /\ reply.frame => ~moved
  BY <1>1, <1>2 DEF StageInv, ReplyInv, Reply
<1>3. CASE Refuse
  BY <1>1, <1>2, <1>3, Outcomes, RunAssumption
     DEF Refuse, Finish, DeskType, StageInv, FrameInv, MoveInv, EventFits, Uses, Keeps, Stages,
         Ops, ServerType
<1>4. CASE Status
  <2>1. line \in {"idle", "returned"}
    BY <1>1, <1>4 DEF Status, Call, Finish, StageInv
  <2>2. Uses
    BY <1>1, <1>2, <1>4, BeginUses DEF Status, Call, Finish, StageInv, Uses, Ops
  <2>3. Keeps
    BY <1>1, <1>2, <1>4, Outcomes, RunAssumption
       DEF Status, Call, Finish, DeskType, StageInv, FrameInv, MoveInv, EventFits, Keeps, Stages,
           ServerType
  <2> QED
    BY <2>1, <2>2, <2>3
<1>5. CASE StatusReturned
  BY <1>1, <1>2, <1>5, Outcomes, RunAssumption
     DEF StatusReturned, Returned, FinishLikeReply, Finish, DeskType, StageInv, FrameInv, MoveInv,
         EventFits, Uses, Keeps, Stages, Ops, ServerType
<1>6. CASE Connect
  BY <1>1, <1>2, <1>6, Outcomes, RunAssumption
     DEF Connect, StartThen, DeskType, StageInv, FrameInv, MoveInv, EventFits, Uses, Keeps,
         Stages, Ops, ServerType
<1>7. CASE Open
  BY <1>1, <1>2, <1>7, Outcomes, RunAssumption
     DEF Open, Call, DeskType, StageInv, FrameInv, MoveInv, EventFits, Uses, Keeps, Stages, Ops,
         ServerType
<1>8. CASE OpenReturned
  <2>1. line \in {"idle", "returned"}
    BY <1>1, <1>8 DEF OpenReturned, Returned, StopThen, Call, Finish, Ok, StageInv
  <2>2. Uses
    BY <1>1, <1>2, <1>8, BeginUses
       DEF OpenReturned, Returned, StopThen, Call, Finish, Ok, StageInv, Uses, Ops
  <2>3. Keeps
    BY <1>1, <1>2, <1>8, Outcomes, RunAssumption
       DEF OpenReturned, Returned, StopThen, Call, Finish, Ok, DeskType, StageInv, FrameInv,
           MoveInv, EventFits, Keeps, Stages, ServerType
  <2> QED
    BY <2>1, <2>2, <2>3
<1>9. CASE DropReturned
  BY <1>1, <1>2, <1>9, Outcomes, RunAssumption
     DEF DropReturned, Returned, DeskType, StageInv, FrameInv, MoveInv, EventFits, Uses, Keeps,
         Stages, Ops, ServerType
<1>10. CASE CloseAgainReturned
  BY <1>1, <1>2, <1>10, Outcomes, RunAssumption
     DEF CloseAgainReturned, Returned, StopThen, DeskType, StageInv, FrameInv, MoveInv, EventFits,
         Uses, Keeps, Stages, Ops, ServerType
<1>11. CASE Disconnect
  <2>1. line \in {"idle", "returned"}
    BY <1>1, <1>11 DEF Disconnect, Call, StageInv
  <2>2. Uses
    BY <1>1, <1>2, <1>11, BeginUses DEF Disconnect, Call, StageInv, Uses, Ops
  <2>3. Keeps
    BY <1>1, <1>2, <1>11, Outcomes, RunAssumption
       DEF Disconnect, Call, DeskType, StageInv, FrameInv, MoveInv, EventFits, Keeps, Stages,
           ServerType
  <2> QED
    BY <2>1, <2>2, <2>3
<1>12. CASE CloseReturned
  <2>1. line \in {"idle", "returned"}
    BY <1>1, <1>12 DEF CloseReturned, Returned, Call, StopThen, Ok, StageInv
  <2>2. Uses
    BY <1>1, <1>2, <1>12, BeginUses
       DEF CloseReturned, Returned, Call, StopThen, Ok, StageInv, Uses, Ops
  <2>3. Keeps
    BY <1>1, <1>2, <1>12, Outcomes, RunAssumption
       DEF CloseReturned, Returned, Call, StopThen, Ok, DeskType, StageInv, FrameInv, MoveInv,
           EventFits, Keeps, Stages, ServerType
  <2> QED
    BY <2>1, <2>2, <2>3
<1>13. CASE ListReturned
  BY <1>1, <1>2, <1>13, Outcomes, RunAssumption
     DEF ListReturned, Returned, StopThen, Ok, DeskType, StageInv, FrameInv, MoveInv, EventFits,
         Uses, Keeps, Stages, Ops, ServerType
<1>14. CASE Authorization
  <2>1. line \in {"idle", "returned"}
    BY <1>1, <1>14 DEF Authorization, Call, StartThen, AuthorizationOp, StageInv
  <2>2. Uses
    BY <1>1, <1>2, <1>14, BeginUses
       DEF Authorization, Call, StartThen, AuthorizationOp, StageInv, Uses, Ops
  <2>3. Keeps
    BY <1>1, <1>2, <1>14, Outcomes, RunAssumption
       DEF Authorization, Call, StartThen, AuthorizationOp, DeskType, StageInv, FrameInv, MoveInv,
           EventFits, Keeps, Stages, ServerType
  <2> QED
    BY <2>1, <2>2, <2>3
<1>15. CASE Borrow
  <2>1. line \in {"idle", "returned"}
    BY <1>1, <1>15 DEF Borrow, AuthorizationOp, StageInv
  <2>2. Uses
    BY <1>1, <1>2, <1>15, BeginUses DEF Borrow, AuthorizationOp, StageInv, Uses, Ops
  <2>3. Keeps
    BY <1>1, <1>2, <1>15, Outcomes, RunAssumption
       DEF Borrow, AuthorizationOp, DeskType, StageInv, FrameInv, MoveInv, EventFits, Keeps,
           Stages, ServerType
  <2> QED
    BY <2>1, <2>2, <2>3
<1>16. CASE BorrowReturned
  BY <1>1, <1>2, <1>16, Outcomes, RunAssumption
     DEF BorrowReturned, Returned, StopThen, Ok, DeskType, StageInv, FrameInv, MoveInv, EventFits,
         Uses, Keeps, Stages, Ops, ServerType
<1>17. CASE AuthorizationReturned
  BY <1>1, <1>2, <1>17, Outcomes, RunAssumption
     DEF AuthorizationReturned, Returned, StopThen, FinishLikeReply, Finish, Ok, DeskType,
         StageInv, FrameInv, MoveInv, EventFits, Uses, Keeps, Stages, Ops, ServerType
<1>18. CASE Observe
  <2>1. line \in {"idle", "returned"}
    BY <1>1, <1>18 DEF Observe, Call, StageInv
  <2>2. Uses
    BY <1>1, <1>2, <1>18, BeginUses DEF Observe, Call, StageInv, Uses, Ops
  <2>3. Keeps
    BY <1>1, <1>2, <1>18, Outcomes, RunAssumption
       DEF Observe, Call, DeskType, StageInv, FrameInv, MoveInv, EventFits, Keeps, Stages,
           ServerType
  <2> QED
    BY <2>1, <2>2, <2>3
<1>19. CASE ObserveReturned
  BY <1>1, <1>2, <1>19, Outcomes, RunAssumption
     DEF ObserveReturned, Returned, ImageResult, FinishLikeReply, Finish, Ok, DeskType, StageInv,
         FrameInv, MoveInv, EventFits, Uses, Keeps, Stages, Ops, ServerType
<1>20. CASE Input
  BY <1>1, <1>2, <1>20, Outcomes, RunAssumption
     DEF Input, Call, DeskType, StageInv, FrameInv, MoveInv, EventFits, Uses, Keeps, Stages, Ops,
         ServerType
<1>21. CASE InteractReturned
  <2>1. line \in {"idle", "returned"}
    BY <1>1, <1>21
       DEF InteractReturned, Returned, ImageResult, FinishLikeReply, RestoreUndelivered, Finish,
           Ok, StageInv
  <2>2. Uses
    BY <1>1, <1>2, <1>21, BeginUses
       DEF InteractReturned, Returned, ImageResult, FinishLikeReply, RestoreUndelivered, Finish,
           Ok, StageInv, Uses, Ops
  <2>3. DeskType'
    BY <1>1, <1>2, <1>21, Outcomes, RunAssumption
       DEF InteractReturned, Returned, ImageResult, FinishLikeReply, RestoreUndelivered, Finish,
           Ok, DeskType, StageInv, Stages
  <2>4. Keeps
    BY <1>1, <1>2, <1>21, <2>3
       DEF InteractReturned, Returned, ImageResult, FinishLikeReply, RestoreUndelivered, Finish,
           Ok, StageInv, FrameInv, MoveInv, EventFits, Keeps
  <2> QED
    BY <2>1, <2>2, <2>4
<1>22. CASE PointerReturned
  <2>1. line \in {"idle", "returned"}
    BY <1>1, <1>22
       DEF PointerReturned, Returned, Call, FinishLikeReply, RestoreUndelivered, Finish, Ok,
           StageInv
  <2>2. Uses
    BY <1>1, <1>2, <1>22, BeginUses
       DEF PointerReturned, Returned, Call, FinishLikeReply, RestoreUndelivered, Finish, Ok,
           StageInv, Uses, Ops
  <2>3. DeskType'
    BY <1>1, <1>2, <1>22, Outcomes, RunAssumption
       DEF PointerReturned, Returned, Call, FinishLikeReply, RestoreUndelivered, Finish, Ok,
           DeskType, StageInv, Stages
  <2>4. Keeps
    BY <1>1, <1>2, <1>22, <2>3
       DEF PointerReturned, Returned, Call, FinishLikeReply, RestoreUndelivered, Finish, Ok,
           StageInv, FrameInv, MoveInv, EventFits, Keeps
  <2> QED
    BY <2>1, <2>2, <2>4
<1>23. CASE PointerObserved
  <2>1. line \in {"idle", "returned"}
    BY <1>1, <1>23
       DEF PointerObserved, Returned, ImageResult, ObservationFailed, Finish, Ok, StageInv
  <2>2. Uses
    BY <1>1, <1>2, <1>23, BeginUses
       DEF PointerObserved, Returned, ImageResult, ObservationFailed, Finish, Ok, StageInv, Uses,
           Ops
  <2>3. DeskType'
    BY <1>1, <1>2, <1>23, Outcomes, RunAssumption
       DEF PointerObserved, Returned, ImageResult, ObservationFailed, Finish, Ok, DeskType,
           StageInv, Stages
  <2>4. Keeps
    BY <1>1, <1>2, <1>23, <2>3
       DEF PointerObserved, Returned, ImageResult, ObservationFailed, Finish, Ok, StageInv,
           FrameInv, MoveInv, EventFits, Keeps
  <2> QED
    BY <2>1, <2>2, <2>4
<1>24. CASE Run
  <2>1. line \in {"idle", "returned"}
    BY <1>1, <1>24 DEF Run, Call, StageInv
  <2>2. Uses
    BY <1>1, <1>2, <1>24, BeginUses DEF Run, Call, StageInv, Uses, Ops
  <2>3. DeskType'
    <3>1. /\ frame' = FALSE /\ batch' = 0 /\ stage' = "filling"
          /\ UNCHANGED <<outcome, connected>>
      BY <1>24 DEF Run, Call
    <3>2. 0 \in 0..MaximumRunBatches
      BY RunAssumption
    <3> QED
      BY <1>1, <3>1, <3>2 DEF DeskType, Stages
  <2>4. Keeps
    BY <1>1, <1>2, <1>24, <2>3 DEF Run, Call, StageInv, FrameInv, MoveInv, EventFits, Keeps
  <2> QED
    BY <2>1, <2>2, <2>4
<1>25. CASE FillReturned
  BY <1>1, <1>2, <1>25, Outcomes, RunAssumption
     DEF FillReturned, Returned, Finish, Ok, DeskType, StageInv, FrameInv, MoveInv, EventFits,
         Uses, Keeps, Stages, Ops, ServerType
<1>26. CASE RunEnds
  BY <1>1, <1>2, <1>26, Outcomes, RunAssumption
     DEF RunEnds, Finish, DeskType, StageInv, FrameInv, MoveInv, EventFits, Uses, Keeps, Stages,
         Ops, ServerType
<1>27. CASE SendBatch
  BY <1>1, <1>2, <1>27, Outcomes, RunAssumption
     DEF SendBatch, Call, DeskType, StageInv, FrameInv, MoveInv, EventFits, Uses, Keeps, Stages,
         Ops, ServerType
<1>28. CASE BatchReturned
  <2>1. line \in {"idle", "returned"}
    BY <1>1, <1>28 DEF BatchReturned, Returned, Call, Finish, Ok, StageInv
  <2>2. Uses
    BY <1>1, <1>2, <1>28, BeginUses
       DEF BatchReturned, Returned, Call, Finish, Ok, StageInv, Uses, Ops
  <2>3. Keeps
    BY <1>1, <1>2, <1>28, Outcomes, RunAssumption
       DEF BatchReturned, Returned, Call, Finish, Ok, DeskType, StageInv, FrameInv, MoveInv,
           EventFits, Keeps, Stages, ServerType
  <2> QED
    BY <2>1, <2>2, <2>3
<1>29. CASE Stop
  BY <1>1, <1>2, <1>29, Outcomes, RunAssumption
     DEF Stop, Call, DeskType, StageInv, FrameInv, MoveInv, EventFits, Uses, Keeps, Stages, Ops,
         ServerType
<1>30. CASE StopReturned
  BY <1>1, <1>2, <1>30, Outcomes, RunAssumption
     DEF StopReturned, Returned, DeskType, StageInv, FrameInv, MoveInv, EventFits, Uses, Keeps,
         Stages, Ops, ServerType
<1>31. CASE StopWaited
  BY <1>1, <1>2, <1>31, Outcomes, RunAssumption
     DEF StopWaited, DeskType, StageInv, FrameInv, MoveInv, EventFits, Uses, Keeps, Stages, Ops,
         ServerType
<1>32. CASE Stopped
  BY <1>1, <1>2, <1>32, Outcomes, RunAssumption
     DEF Stopped, Returned, DeskType, StageInv, FrameInv, MoveInv, EventFits, Uses, Keeps, Stages,
         Ops, ServerType
<1> QED
  BY <1>3, <1>4, <1>5, <1>6, <1>7, <1>8, <1>9, <1>10, <1>11, <1>12, <1>13, <1>14, <1>15,
     <1>16, <1>17, <1>18, <1>19, <1>20, <1>21, <1>22, <1>23, <1>24, <1>25, <1>26, <1>27, <1>28,
     <1>29, <1>30, <1>31, <1>32
     DEF DeskStep

\* The steps of the tools keep the invariant.
LEMMA DeskStepInv ==
    ASSUME IInv, DeskStep, UNCHANGED <<cancelled, signalled, serverVars, tool, toolMoved>>
    PROVE  IInv'
<1>1. ConnInv /\ ServerType /\ DeskInv /\ TokenType
  BY Types DEF IInv, ConnInv
<1>2. TokenType' /\ ServerType'
  BY <1>1 DEF TokenType, ServerType, serverVars
<1>3. line \in {"idle", "returned"} /\ Uses /\ Keeps
  BY <1>1, DeskKeeps DEF TokenType
<1>8. RunInv'
  BY <1>1, <1>3 DEF Keeps, DeskInv, RunInv, serverVars
<1>4. CASE /\ NoCall /\ stage' \in {"release", "stop", "batch", "stopWait", "exited"}
           /\ op \in InputOps => stage' \in {"release", "batch"}
  <2>1. ConnInv'
    BY <1>1, <1>2, <1>4, SameConn DEF NoCall
  <2>2. UNCHANGED <<line, op, moved, callMoved>>
    BY <1>4 DEF NoCall, clientVars, callVars, childVars
  <2>3. StageInv'
    BY <1>3, <1>4, <2>2 DEF StageInv, CallStages, InputStages
  <2>4. FrameInv' /\ MoveInv'
    BY <1>1, <1>3, <1>4, <2>2 DEF Keeps, DeskInv, FrameInv, MoveInv, EventFits
  <2> QED
    BY <1>2, <1>3, <1>8, <2>1, <2>3, <2>4 DEF IInv, DeskInv, Keeps
<1>5. CASE StartBroker /\ stage' \in {"started", "borrowed", "stop"} /\ op \notin InputOps
  <2>1. ConnInv'
    BY <1>1, <1>2, <1>3, <1>5, StartConn
  <2>2. UNCHANGED <<line, op, moved, callMoved>>
    BY <1>5 DEF StartBroker, callVars
  <2>3. StageInv'
    BY <1>3, <1>5, <2>2 DEF StageInv, CallStages, InputStages
  <2>4. FrameInv' /\ MoveInv'
    BY <1>1, <1>3, <1>5, <2>2 DEF Keeps, DeskInv, FrameInv, MoveInv, EventFits
  <2> QED
    BY <1>2, <1>3, <1>8, <2>1, <2>3, <2>4 DEF IInv, DeskInv, Keeps
<1>6. ASSUME NEW o \in Ops, NEW token \in BOOLEAN, BeginCall(o, token), stage' \in CallStages,
             o \in InputOps => stage' \in InputStages
      PROVE  IInv'
  <2>1. ConnInv'
    BY <1>1, <1>2, <1>3, <1>6, BeginConn
  <2>2. /\ op' = o /\ line' \in {"send", "returned"} /\ moved' = moved /\ callMoved' = FALSE
        /\ line' = "returned" =>
              reply' = [result |-> "failed", accepted |-> FALSE, frame |-> FALSE]
    BY <1>6 DEF BeginCall, Returns
  <2>3. line' = "returned" => reply' # None
    BY <2>2, Replies, NoneAssumption
  <2>4. StageInv'
    BY <1>6, <2>2, <2>3 DEF StageInv, WaitStages
  <2>5. FrameInv' /\ MoveInv'
    BY <1>1, <1>3, <1>6, <2>2 DEF Keeps, DeskInv, FrameInv, MoveInv, EventFits, CallStages,
       InputStages
  <2> QED
    BY <1>2, <1>3, <1>8, <2>1, <2>4, <2>5 DEF IInv, DeskInv, Keeps
<1>7. CASE BeginTerminate /\ stage' \in {"dropping", "stopped"} /\ op \notin InputOps
  <2>1. ConnInv'
    BY <1>1, <1>2, <1>3, <1>7, TerminateConn
  <2>2. UNCHANGED <<op, moved, callMoved>>
    BY <1>7 DEF BeginTerminate, childVars
  <2>3. StageInv'
    BY <1>3, <1>7, <2>2 DEF StageInv, CallStages, InputStages, WaitStages
  <2>4. FrameInv' /\ MoveInv'
    BY <1>1, <1>3, <1>7, <2>2 DEF Keeps, DeskInv, FrameInv, MoveInv, EventFits
  <2> QED
    BY <1>2, <1>3, <1>8, <2>1, <2>3, <2>4 DEF IInv, DeskInv, Keeps
<1> QED
  BY <1>3, <1>4, <1>5, <1>6, <1>7 DEF Uses

\* The owner's steps between two tools.
LEMMA LoopInv ==
    ASSUME IInv, Take \/ LeaveLoop \/ Release \/ Emit \/ Dispose
    PROVE  IInv'
<1>1. ConnInv /\ ServerType /\ DeskInv /\ TokenType /\ CallType
  BY Types DEF IInv, ConnInv
<1>2. line \in {"idle", "returned"}
  BY <1>1 DEF DeskInv, StageInv, WaitStages, CallStages, InputStages, CallType, Take, LeaveLoop,
     Release, Emit, Dispose
<1>3. CASE Take \/ LeaveLoop \/ Emit \/ Dispose
  <2>1. TokenType' /\ ServerType'
    <3>1. CASE Take
      BY <1>1, <3>1, RunAssumption DEF TokenType, ServerType, Take
    <3>2. CASE LeaveLoop
      BY <1>1, <3>2 DEF TokenType, ServerType, LeaveLoop, CancelActive
    <3>3. CASE Emit \/ Dispose
      BY <1>1, <3>3 DEF TokenType, ServerType, Emit, Dispose, serverVars
    <3> QED
      BY <1>3, <3>1, <3>2, <3>3
  <2>2. UNCHANGED clientVars
    BY <1>3 DEF Take, LeaveLoop, Emit, Dispose
  <2>3. ConnInv' /\ UNCHANGED <<line, op, reply, moved, callMoved>>
    BY <1>1, <2>1, <2>2, SameConn DEF clientVars, callVars, childVars
  <2>4. DeskType'
    <3>1. CASE Take
      BY <1>1, <3>1 DEF DeskInv, DeskType, ServerType, Take, Stages
    <3>2. CASE LeaveLoop
      BY <1>1, <3>2 DEF DeskInv, DeskType, LeaveLoop, Stages
    <3>3. CASE Emit
      <4>1. 0 \in 0..MaximumRunBatches
        BY RunAssumption
      <4>2. outcome' \in ToolOutcome
        BY <3>3, Outcomes DEF Emit
      <4> QED
        BY <1>1, <3>3, <4>1, <4>2 DEF DeskInv, DeskType, Emit, Stages, Tools
    <3>4. CASE Dispose
      BY <1>1, <3>4 DEF DeskInv, DeskType, Dispose, Stages
    <3> QED
      BY <1>3, <3>1, <3>2, <3>3, <3>4
  <2>5. StageInv'
    BY <1>1, <1>2, <1>3, <2>3 DEF DeskInv, StageInv, WaitStages, CallStages, InputStages, Take,
       LeaveLoop, Emit, Dispose
  <2>6. FrameInv' /\ MoveInv'
    BY <1>1, <1>3, <2>3 DEF DeskInv, FrameInv, MoveInv, EventFits, Take, LeaveLoop, Emit,
       Dispose
  <2>7. RunInv'
    BY <1>3 DEF RunInv, LooseStages, Take, LeaveLoop, Emit, Dispose
  <2> QED
    BY <2>1, <2>3, <2>4, <2>5, <2>6, <2>7 DEF IInv, DeskInv
<1>4. CASE Release
  <2>1. TokenType' /\ ServerType'
    BY <1>1, <1>4, RunAssumption
       DEF TokenType, ServerType, Release, DeskInv, RunInv, LooseStages
  <2>2. ConnInv'
    BY <1>1, <1>2, <1>4, <2>1, ForgetConn DEF Release
  <2>3. line' = "idle" /\ op' = "sessions" /\ moved' = moved
    BY <1>4 DEF Release, ForgetCall
  <2>4. DeskType'
    BY <1>1, <1>4 DEF DeskInv, DeskType, Release, Stages
  <2>5. StageInv'
    BY <1>4, <2>3 DEF StageInv, Release, InputOps
  <2>6. FrameInv' /\ MoveInv'
    BY <1>1, <1>4, <2>3 DEF DeskInv, FrameInv, MoveInv, EventFits, Release
  <2>7. RunInv'
    BY <1>4 DEF RunInv, LooseStages, Release
  <2> QED
    BY <2>1, <2>2, <2>4, <2>5, <2>6, <2>7 DEF IInv, DeskInv
<1> QED
  BY <1>3, <1>4

\* The other threads of the service, and signals.
LEMMA ServerInv ==
    ASSUME IInv, ServerReader \/ Signal
    PROVE  IInv'
<1>1. ConnInv /\ ServerType /\ DeskInv /\ TokenType
  BY Types DEF IInv, ConnInv
<1>2. UNCHANGED <<clientVars, deskVars, toolMoved>>
  BY DEF ServerReader, Signal
<1>3. TokenType' /\ ServerType'
  BY <1>1, RunAssumption DEF TokenType, ServerType, ServerReader, Signal, RegisterCall,
     RouteCancel, EndOfInput, ChannelFull, CancelActive, serverVars
<1>4. ConnInv'
  BY <1>1, <1>2, <1>3, SameConn
<1>5. DeskType' /\ StageInv' /\ FrameInv' /\ MoveInv'
  BY <1>1, <1>2 DEF DeskInv, DeskType, StageInv, FrameInv, MoveInv, EventFits, deskVars,
     clientVars, callVars, childVars
<1>6. RunInv'
  BY <1>1, <1>2 DEF DeskInv, RunInv, deskVars, serverVars, ServerReader, Signal, RegisterCall,
     RouteCancel, EndOfInput, ChannelFull
<1> QED
  BY <1>3, <1>4, <1>5, <1>6 DEF IInv, DeskInv

\* A call moves on, and has an answer for the tool when it returns.
LEMMA CallMoves ==
    ASSUME IInv, CallStep
    PROVE  /\ line \in {"send", "loop", "kill", "join"}
           /\ UNCHANGED <<op, moved, callMoved>>
           /\ line' \in {"kill", "join", "returned"} =>
                \/ reply' # None
                \/ line \in {"kill", "join"} /\ reply' = reply
<1>1. ASSUME NEW result \in {"ok", "failed"}, NEW accepted \in BOOLEAN, NEW f \in BOOLEAN,
             Returns(result, accepted, f)
      PROVE  reply' # None
  BY <1>1, Replies, NoneAssumption DEF Returns
<1>2. TransportFailed => reply' # None
  BY <1>1 DEF TransportFailed
<1>3. CASE Dispatch \/ SendCancel \/ GiveUp
  BY <1>2, <1>3 DEF Dispatch, SendCancel, GiveUp, TrySend, childVars
<1>4. CASE Kill \/ Join
  BY <1>4 DEF Kill, Join
<1>5. CASE ReceiveResponse
  <2>1. /\ original \in Response \cup {None}
        /\ responses \in Seq(Response \cup {Broken})
    BY Types DEF IInv, ConnInv, CallType, ThreadType
  <2>2. /\ line = "loop" /\ UNCHANGED <<op, moved, callMoved>> /\ responses # <<>>
    BY <1>5 DEF ReceiveResponse, childVars
  <2>3. Head(responses) \in Response \cup {Broken}
    BY <2>1, <2>2, TakenAnswer
  <2>4. ASSUME NEW answer \in Response \cup {None}, NEW ack, Continue(answer, ack)
        PROVE  line' \in {"kill", "join", "returned"} => reply' # None
    <3>1. CASE UNCHANGED <<line, reply>>
      BY <2>2, <3>1
    <3>2. CASE IsComplete(answer, ack) /\ Settle(answer)
      <4>1. answer.completed \in BOOLEAN /\ answer.accepted \in BOOLEAN /\ answer.frame \in BOOLEAN
        BY <2>4, <3>2 DEF IsComplete, Response
      <4>2. (IF answer.completed THEN "ok" ELSE "failed") \in {"ok", "failed"}
        BY <4>1
      <4> QED
        BY <1>1, <3>2, <4>1, <4>2 DEF Settle
    <3> QED
      BY <2>4, <3>1, <3>2 DEF Continue
  <2> QED
    BY <1>2, <1>5, <2>1, <2>2, <2>3, <2>4 DEF ReceiveResponse
<1> QED
  BY <1>3, <1>4, <1>5 DEF CallStep

\* Steps of the connection's own threads and of the child.
LEMMA ConnectionInv ==
    ASSUME IInv,
           \/ CallStep /\ UNCHANGED <<cancelled, signalled, serverVars, deskVars, toolMoved>>
           \/ Writer \/ Reader \/ Child
    PROVE  IInv'
<1>1. ConnInv /\ ServerType /\ DeskInv /\ TokenType
  BY Types DEF IInv, ConnInv
<1>2. UNCHANGED <<cancelled, signalled, serverVars, deskVars>>
  BY DEF Writer, Reader, Child
<1>3. TokenType' /\ UNCHANGED <<stage, frame, tool, outcome>>
  BY <1>1, <1>2 DEF TokenType, deskVars
<1>4. DeskType' /\ RunInv'
  BY <1>1, <1>2 DEF DeskInv, DeskType, RunInv, deskVars, serverVars
<1>5. CASE CallStep /\ UNCHANGED <<cancelled, signalled, serverVars, deskVars, toolMoved>>
  <2>1. ConnInv'
    BY <1>1, <1>3, <1>5, CallStepConn
  <2>2. /\ line \in {"send", "loop", "kill", "join"} /\ UNCHANGED <<op, moved, callMoved>>
        /\ line' \in {"kill", "join", "returned"} =>
             reply' # None \/ (line \in {"kill", "join"} /\ reply' = reply)
    BY <1>5, CallMoves
  <2>3. ServerType'
    BY <1>1, <1>5 DEF ServerType, serverVars
  <2>4. StageInv' /\ FrameInv' /\ MoveInv'
    BY <1>1, <1>3, <1>5, <2>2 DEF DeskInv, StageInv, FrameInv, MoveInv, EventFits
  <2> QED
    BY <1>4, <2>1, <2>3, <2>4 DEF IInv, DeskInv
<1>6. CASE Writer \/ Reader
  <2>1. ConnInv'
    BY <1>1, <1>3, <1>6, WriterConn, ReaderConn DEF Writer, Reader
  <2>2. UNCHANGED <<line, op, reply, moved, callMoved, toolMoved>>
    BY <1>6 DEF Writer, Reader, WriterStep, ReaderStep, callVars
  <2>3. ServerType'
    BY <1>1, <1>2, <2>2 DEF ServerType, serverVars
  <2>4. StageInv' /\ FrameInv' /\ MoveInv'
    BY <1>1, <1>3, <2>2 DEF DeskInv, StageInv, FrameInv, MoveInv, EventFits
  <2> QED
    BY <1>4, <2>1, <2>3, <2>4 DEF IInv, DeskInv
<1>7. CASE Child
  <2>1. ConnInv'
    BY <1>1, <1>3, <1>7, ChildConn DEF Child
  <2>2. /\ UNCHANGED <<line, op, reply>> /\ toolMoved' = (toolMoved \/ (callMoved' /\ ~callMoved))
        /\ callMoved \in BOOLEAN /\ callMoved' \in BOOLEAN /\ toolMoved \in BOOLEAN
        /\ moved \in BOOLEAN
    <3>1. ClientTypeOK /\ ClientTypeOK'
      BY <1>1, <2>1 DEF ConnInv
    <3>2. callMoved \in BOOLEAN /\ callMoved' \in BOOLEAN /\ moved \in BOOLEAN
      BY <3>1 DEF ClientTypeOK
    <3> QED
      BY <1>1, <1>7, <3>2 DEF Child, ChildStep, callVars, ServerType
  <2>3. \/ callMoved' = callMoved /\ (moved' => moved)
        \/ callMoved' /\ stage \in InputStages
    <3>1. CASE ChildEvent
      <4>1. child = "busy" /\ job.op \in InputOps /\ callMoved'
        BY <3>1 DEF ChildEvent
      <4>2. job # None /\ line \in {"loop", "kill"}
        BY <1>1, <4>1, BusyChild
      <4>3. op \in InputOps /\ stage \in WaitStages
        BY <1>1, <4>1, <4>2 DEF ConnInv, OpInv, DeskInv, StageInv
      <4> QED
        BY <1>1, <4>1, <4>3 DEF DeskInv, StageInv, WaitStages, CallStages, InputStages
    <3>2. CASE ChildTakes \/ ChildDies
      BY <3>2 DEF ChildTakes, ChildDies
    <3>3. CASE ChildAnswers
      BY <3>3 DEF ChildAnswers
    <3> QED
      BY <1>7, <3>1, <3>2, <3>3 DEF Child, ChildStep
  <2>4. ServerType'
    BY <1>1, <1>2, <2>2 DEF ServerType, serverVars
  <2>5. StageInv'
    BY <1>1, <1>3, <2>2 DEF DeskInv, StageInv
  <2>6. FrameInv' /\ MoveInv'
    BY <1>1, <1>3, <2>2, <2>3 DEF DeskInv, FrameInv, MoveInv, EventFits, InputStages
  <2> QED
    BY <1>4, <2>1, <2>4, <2>5, <2>6 DEF IInv, DeskInv
<1> QED
  BY <1>5, <1>6, <1>7

\* IInv is inductive.
LEMMA NextInv ==
    ASSUME IInv, [Next]_vars
    PROVE  IInv'
<1>1. CASE UNCHANGED vars
  <2>1. UNCHANGED <<clientVars, cancelled, signalled, peer, active, queued, queuedToken, tool,
                    stage, outcome, connected, frame, batch, toolMoved>>
    BY <1>1 DEF vars, serverVars, deskVars
  <2>2. TokenType'
    BY <2>1, Types DEF IInv, ConnInv, TokenType
  <2>3. ConnInv'
    BY <2>1, <2>2, SameConn DEF IInv
  <2>4. ServerType' /\ DeskInv'
    BY <2>1 DEF IInv, ServerType, DeskInv, DeskType, StageInv, FrameInv, MoveInv, RunInv,
       EventFits, clientVars, callVars, childVars
  <2> QED
    BY <2>3, <2>4 DEF IInv
<1> QED
  BY <1>1, DeskStepInv, LoopInv, ServerInv, ConnectionInv DEF Next, Owner

\* IInv holds at first.
LEMMA InitInv ==
    ASSUME Init
    PROVE  IInv
<1>1. ClientTypeOK
  <2>1. ChildType
    BY NothingIn DEF Init, ClientInit, ChildType
  <2>2. ThreadType
    BY NothingIn, ClientAssumption DEF Init, ClientInit, ThreadType
  <2>3. CallType /\ TokenType
    BY DEF Init, ClientInit, CallType, TokenType, Ops
  <2> QED
    BY <2>1, <2>2, <2>3, Types
<1>2. Load = 0 /\ OpInv
  BY NothingIn DEF Init, ClientInit, Load, OpInv
<1>3. LoadInv /\ ThreadInv /\ CallInv /\ ReplyInv
  BY <1>2 DEF Init, ClientInit, LoadInv, ThreadInv, CallInv, ReplyInv
<1>4. ServerType
  BY DEF Init, ServerType
<1>5. DeskType
  <2>1. 0 \in 0..MaximumRunBatches
    BY RunAssumption
  <2>2. outcome \in ToolOutcome
    BY Outcomes DEF Init
  <2> QED
    BY <2>1, <2>2 DEF Init, DeskType, Tools, Stages
<1>6. StageInv /\ FrameInv /\ MoveInv /\ RunInv
  BY
     DEF Init, ClientInit, StageInv, FrameInv, MoveInv, RunInv, LooseStages, InputOps,
         InputStages, CallStages
<1> QED
  BY <1>1, <1>2, <1>3, <1>4, <1>5, <1>6 DEF IInv, ConnInv, DeskInv

----------------------------------------------------------------------------
\* The inductive invariant.
THEOREM ServiceInvariant == Spec => []IInv
<1> QED
  BY InitInv, NextInv, PTL DEF Spec

\* Whatever channels, threads, child and client do, every variable of the service and of its
\* connection has its type, and no channel holds more than its places.
THEOREM ServiceTypeCorrect == Spec => []TypeOK
<1>1. IInv => TypeOK
  BY DEF IInv, ConnInv, ServerType, DeskInv, DeskType, TypeOK
<1> QED
  BY <1>1, ServiceInvariant, PTL

\* A call that has returned leaves nothing of it on a live connection, and a closed connection
\* has no live child: no later call can take an earlier one's answer, though a nonce is a bit.
THEOREM NothingIsLeftBehind == Spec => []NothingLeftBehind
<1>1. IInv => NothingLeftBehind
  <2> SUFFICES ASSUME IInv, line \in {"idle", "returned"}
               PROVE  /\ child # "busy"
                      /\ closed => child = "dead"
                      /\ stdin = <<>> /\ requests = <<>> /\ writing = None
                      /\ stdout = <<>> /\ responses = <<>>
    BY DEF NothingLeftBehind
  <2>1. ClientTypeOK /\ Load = 0 /\ ThreadInv
    BY DEF IInv, ConnInv, LoadInv
  <2>2. /\ requests = <<>> /\ stdin = <<>> /\ stdout = <<>>
        /\ responses = <<>> /\ writing = None /\ job = None
    BY <2>1, LoadType
  <2> QED
    BY <2>1, <2>2, Types DEF ChildType, ThreadInv
<1> QED
  BY <1>1, ServiceInvariant, PTL

\* A call that fails and denies that its input was accepted tells the truth, also when a
\* cancel crosses the answer or the child dies between event and answer.
THEOREM CallsAreTruthful == Spec => []CallTruthful
<1>1. IInv => CallTruthful
  BY DEF IInv, ConnInv, ReplyInv, CallTruthful
<1> QED
  BY <1>1, ServiceInvariant, PTL

\* No event has left since the frame was observed that the desktop still accepts.
THEOREM FramesAreCurrent == Spec => []FrameCurrent
<1>1. IInv => FrameCurrent
  BY DEF IInv, DeskInv, FrameInv, FrameCurrent
<1> QED
  BY <1>1, ServiceInvariant, PTL

\* interact and pointer, and the tools without input, never deny an event that has left.
THEOREM InputToolsAreTruthful == Spec => []InputTruthful
<1>1. IInv => InputTruthful
  BY DEF IInv, DeskInv, MoveInv, EventFits, InputTruthful, ToolTruthful
<1> QED
  BY <1>1, ServiceInvariant, PTL
============================================================================
