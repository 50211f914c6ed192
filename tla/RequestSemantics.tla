-------------------------- MODULE RequestSemantics -------------------------
(***************************************************************************)
(* What the readers of a desktop session broker know of its requests       *)
(* (RequestSemantics and prepare_control_request in                        *)
(* src/src/desktop_session_broker.rs): a table of fingerprints and a       *)
(* reserve that mirror the owner's ledger, so that a cancel can be applied *)
(* before the owner comes to it.  Both transports use it.                  *)
(***************************************************************************)
EXTENDS BrokerOwner, Sequences

VARIABLES
    fingerprints,  \* RequestSemantics.fingerprints
    readerReserve  \* RequestSemantics.reserve

SemanticsTypeOK ==
    /\ fingerprints \in [Nonces -> Requests \cup {None}]
    /\ readerReserve \in [ReserveClasses -> Nat]

SemanticsInit ==
    /\ fingerprints = [n \in Nonces |-> None]
    /\ readerReserve = [c \in ReserveClasses |-> 0]

----------------------------------------------------------------------------
ReaderRecorded == {n \in Nonces : fingerprints[n] # None}

\* Mutant of IsNew: the reader does not know the reserve of a full ledger.
IsNewUnreserved(request) ==
    /\ request.valid
    /\ fingerprints[request.nonce] = None
    /\ Cardinality(ReaderRecorded) < MaximumLedgerEntries

\* prepare_control_request, the case of a nonce the reader has not seen.
IsNew(request) ==
    /\ request.valid
    /\ fingerprints[request.nonce] = None
    /\ Admits(readerReserve, request, Cardinality(ReaderRecorded))

\* prepare_control_request: may this request's cancel be applied at once?
PassesSemantics(request) ==
    request.valid /\ (IsNew(request) \/ fingerprints[request.nonce] = request)

PrepareControlRequest(request) ==
    /\ IF IsNew(request)
       THEN /\ fingerprints' = [fingerprints EXCEPT ![request.nonce] = request]
            /\ readerReserve' = Admit(readerReserve, request, Cardinality(ReaderRecorded))
       ELSE UNCHANGED <<fingerprints, readerReserve>>
    /\ entries' = IF PassesSemantics(request) /\ CancellationTarget(request) # {}
                  THEN RequestCancel(entries, request.target)
                  ELSE entries

\* What handle's ledger would hold, and its reserve, had it judged one request more.
JudgeNext(judged, request) ==
    IF /\ request.valid
       /\ judged.known[request.nonce] = None
       /\ Admits(judged.reserve, request,
                 Cardinality({n \in Nonces : judged.known[n] # None}))
    THEN [known   |-> [judged.known EXCEPT ![request.nonce] = request],
          reserve |-> Admit(judged.reserve, request,
                            Cardinality({n \in Nonces : judged.known[n] # None}))]
    ELSE judged

\* What handle's ledger would hold, and its reserve, had it judged these requests in turn.
JudgeAll(judged, requests) ==
    LET after[i \in 0..Len(requests)] ==
            IF i = 0 THEN judged ELSE JudgeNext(after[i - 1], requests[i])
    IN  after[Len(requests)]

OwnerJudged ==
    [known |-> [n \in Nonces |->
        IF ledger[n] # None THEN ledger[n].fingerprint
        ELSE IF /\ owner \in {"execute", "checkpoint", "emit", "release", "observe",
                              "record"}
                /\ current.nonce = n
        THEN current ELSE None],
     reserve |-> ledgerReserve]

----------------------------------------------------------------------------
(* The promise of exactly one execution per nonce.                         *)

Abstract == INSTANCE OncePerNonce WITH
    Responses <- Response, Open <- None, Chord <- MaximumChord,
    settled <- ledger, events <- effects

\* Repeated frames: the broker implements OncePerNonce.  A nonce is executed
\* once, its response never denies an event that left, and a replay of the frame
\* by handle's ledger lookup gets the first response.
RefinesOncePerNonce == Abstract!Spec

\* A set token stops a running input at the next check.  Of its steps at most one write
\* (an event, or the keys of one chord) leaves after it, the one between a check and
\* its emit.  Nothing at all leaves for an input whose token was set before
\* prepare_input (cancel before target).  Being stopped leaves no key down: when the
\* response confirms the releases, every key put down by a flushed write is up again.
CancelStopsInput ==
    /\ \A n \in Nonces : late[n] <= 1
    /\ \A n \in tombstoned : effects[n] = 0 /\ releases[n] = 0
    /\ \A n \in Recorded : ledger[n].response.released => down[n] = 0

\* The reader has accepted a cancel of the input that the owner is running.
CancelAccepted ==
    /\ owner \in {"checkpoint", "emit"}
    /\ \E n \in Nonces :
          /\ fingerprints[n] # None
          /\ current.nonce \in CancellationTarget(fingerprints[n])

\* A cancel that the reader accepts gets through to its target, whether it came before
\* or after the target began: the running input finds its token set.  The exception is
\* an input for which prepare_input found no room in the registry.
CancelReachesInput == CancelAccepted /\ registered => TokenSet

\* What a cancel response says about its target agrees with the target's own
\* response: "cancelled" and "too-late" are given for settled targets only, and
\* match how they ended; nobody is left with "cancellation-requested".
CancelStatusTruthful ==
    \A n \in Recorded :
        LET record == ledger[n]
            target == ledger[record.fingerprint.target]
        IN  record.fingerprint.operation = "input-cancel" =>
              /\ record.response.outcome # "cancellation-requested"
              /\ record.response.outcome = "cancelled" =>
                    target # None /\ target.response.outcome = "cancelled"
              /\ record.response.outcome = "too-late" =>
                    target # None /\ target.response.outcome # "cancelled"

\* The quota kept for shutdown: a full ledger never refuses to shut the broker down.
ShutdownAlwaysAdmitted ==
    \A reply \in replies :
        reply[1].operation = "shutdown" => reply[2].outcome # "ledger-full"
============================================================================
