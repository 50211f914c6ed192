# Verification of the desktop automation brokers

`ai-computer-toolkit` lets a program drive a desktop: it opens Portal sessions,
captures frames, sends keyboard and pointer input, and answers over a small
framed protocol.  On Linux a long-lived **broker process** owns the sessions, an
**MCP service** runs one as its child, and a journaled **installer** puts
releases in place; on Windows a second broker runs **long operations**.
This directory models these parts in TLA+, model-checks the models with TLC and
proves every safety property of the models, on every size of instance, with TLAPS.

Paths below are relative to the repository root; the repository's crate is in
`src/`.

## 1. The system

| Component | State | Operations | Hard part |
|---|---|---|---|
| Input cancellation registry `src/components/desktop_session_input_cancellation.rs` | nonce → (token, seen, final state), at most `maximum_entries` | `prepare_input`, `request_cancel`, `finish`, `status`, `cancel_all_active` | shared by the reader and the owner; cancel before target; full registry |
| Broker, request handling `src/desktop_session_broker.rs`, `request.rs`, `interaction.rs` | ledger nonce → (fingerprint, response), reserve quotas | `handle`, `execute` | repeated frames, conflicts, the ledger's limit, partial input |
| Broker, stdio transport `src/desktop_session_broker.rs` | reader's table of semantics, bounded queue, terminal code | `read_inbound_frames`, `prepare_control_request`, `serve_inbound` | two threads that decide about the same request; bad frames; end of input |
| Broker, socket transport `src/desktop_session_broker/transport.rs` | one thread per connection, shared table of semantics, queue | accept loop, `receive_request`, owner loop | queue full after the table was changed; slow clients |
| Session module `src/modules/desktop_session.rs`, `desktop_interaction.rs`, `desktop_subscription.rs` | identity → (lease, scope, observation) | open, close, send input, capture, observe, interact, subscribe, forget | failure half-way through an operation; devices that change meanwhile |
| EIS input adapter `src/adapters/linux/desktop_input_eis*.rs` | devices, absolute generation, emulation | send events, `frame_mapping`, `send_frame_point` | token checked before each write, releases sent after it is set; flush failures |
| Portal authorization store `src/adapters/linux/desktop_portal_authorization_store.rs` | token file, lock file | lock, read, save, discard, forget | several processes; process death; unlink of a held lock |
| MCP service `src/mcp/server.rs`, `desktop.rs`, `broker.rs` | the registered tool call and its token, session and frame, the child broker with two threads and two bounded queues | nine tools, cancel, end of input; start, call, stop of the child | timeouts against late answers; a cancel behind a full queue; an error that must admit what was delivered |
| Linux release installer `src/linux_release/install.rs`, `install/transaction.rs` | journal, lock, managed root with two links, launcher | install, rollback, uninstall, recovery | process death or power loss between any two file operations, also during recovery |
| Long operation broker `src/long_operation_broker.rs`, `src/modules/long_operation*.rs`, `src/components/long_operation_journal.rs` | records in memory and on file, a thread per operation, the pipe instance that makes the process the only one | submit, status, cancel, shutdown, recovery | crash between journal and effect; a write that fails; cancel against completion; a second broker |
| Frame stream and subscription worker | bounded buffer of updates | publish, next, stop | a worker thread that outlives its request |
| Sequence execution | journal on disk | not wired into the service yet | – |
| Browser session broker | execution ledger, revisions, cancel receipts | execute, replay, cancel | repeated and superseded requests |
| Workers (capture, recording, AT-SPI, media, browser pages), CLI, catalogues | little shared state | one call per process, tables, parsing | mostly I/O |

`PROJECT.json` lists all of them with their status and, under `hazards`, the
places where a test would hardly reach what can go wrong.

How they interact.  A client writes frames to the broker.  The **reader thread**
parses each one, applies an `input-cancel` to the registry *at once* (the
**owner thread** may be in the middle of the input that is to be cancelled) and
queues the request.  The owner takes requests one at a time, looks each nonce
up in its ledger, executes new ones through the session module and records the
response.  The session module holds one native lease per session; the EIS
adapter behind it reads the cancellation token before every write.  Opening a
session with "remember" goes through the authorization store, which all broker
processes of one user share.

On the socket transport each connection has a thread that reads one frame, judges
it against one shared table and queues it; the owner answers on that connection.
The MCP service talks to a broker of its own over stdio: its owner thread makes
one call at a time, a writer and a reader thread move lines, and a cancel that the
client sends is forwarded while the call is under way.  The long operation broker
is started by a client that finds none; it recovers the journal, serves
connections one after another, and its worker threads change the same records.

## 2. Modules

| Module | Models | Uses |
|---|---|---|
| `InputCancellation` | the registry: one operator per method | – |
| `BrokerOwner` | `Broker::handle` and `execute`, with the writes and releases of an input | `InputCancellation` |
| `RequestSemantics` | the readers' table of requests and `prepare_control_request`, and what it makes of a line of requests (`JudgeAll`); the properties that both transports share | `BrokerOwner` |
| `DesktopBroker` | the stdio transport: reader, queue, terminal code, owner loop | `RequestSemantics` |
| `DesktopBrokerSocket` | the socket transport: clients, accept loop, a thread per connection, queue, owner loop | `RequestSemantics` |
| `OncePerNonce` | abstract specification: what a client that repeats frames is promised | – |
| `DesktopSession` | the session module with changing devices | – |
| `AuthorizationStore` | lock file, token file, opens, forgets and deaths of several processes | – |
| `McpBrokerClient` | the MCP service's connection to its child broker: call, cancel, terminate, writer and reader threads, the child | – |
| `McpService` | the server's reader and owner and the desktop tools | `McpBrokerClient` |
| `ReleaseInstaller` | install, rollback, uninstall and recovery over a file system with power loss | – |
| `LongOperation` | the record of a long operation and its transitions | – |
| `LongOperationBroker` | registry, journal, worker threads, server loop and restarts | `LongOperation` |
| `OperationLifecycle` | abstract specification: what a handle's holder is promised | – |
| `MC*` | small instances for TLC | the module they are named after |
| `BrokerOwnerProofs` | what the owner and its readers keep together on either transport | `RequestSemantics` |
| `*Proofs` | theorems and their proofs; those of both transports also extend `BrokerOwnerProofs` | the module they are named after |

Names follow the code; `PROJECT.json` maps each definition to the lines it
stands for.  Operators introduced as "Mutant of X" are plausible bugs of X; they
are used by nothing, and serve to show that a property would notice the bug.

### Broker

The registry's methods hold its mutex throughout, so each is one atomic
operator.  `entries` is the only variable that both threads write.

The reader is `reader \in {"read", "enqueue", "stop-all", "eof", "done"}`:
parsing a frame together with `prepare_control_request` is one step (it touches
the shared registry once), `try_send` is the next.  Storing the terminal code and
`cancel_all_active` are two steps, because the owner reads the code between
them.

The owner is `owner`: greeting, terminal check, `recv`, second terminal check,
`handle`, then for an input `checkpoint` and `emit` in turn, `release`, `observe`,
`record`, `respond`.  The unit between two checks of the token is a **write**: one
event, or all keys of a chord, which `DesktopEisInput::emit` sends in one frame.  A
check and the write it lets through are two steps, so the reader can set the token
between them.  A write is represented by what it does to the keys and buttons held
(`Writes`): it puts down or releases up to `MaximumChord` of them, or leaves them
alone.  What a request puts down its own steps also release.

`progress` is `DispatchProgress`: `sent` and `held` are raised after the flush, as in
the code, and `unflushed` are the events of a write whose flush failed, of which some
may still leave.  An input that is cut short (a set token, a deadline, a failed flush)
goes through `release` if it holds anything: `best_effort_stop` sends a `Released` for
each held key *whatever the token says*, and these are not in `sent`.  The device may be
gone (nothing is sent, it is neutral by itself) and the flush may fail
(`releasesConfirmed` is false, some releases may have left).  `released` in a response is
`releasesConfirmed`, or true where the response has no such field.

What the session module decides (success, failure, whether a failed operation had been
accepted) is a choice.  A request's fingerprint is its whole content, so it is the request
record itself.

History variables: `effects` counts the events of its own steps that left on behalf of a
nonce, `releases` the releases sent when it was stopped, `late` the writes that left with
the token set, `down` the keys that completed writes put down and nothing released;
`tombstoned` are the inputs cancelled before they began; `replies` are the responses
written.

### Session module

The module runs on the owner thread, so one operation runs at a time (`phase`,
`op`).  Devices do not wait: `DeviceChange` may happen between any two steps, and
the operations that look at the device repeatedly (`observe`, `interact`) have a
step per look.  A request refused before any effect is a step not taken.  A
mapping is represented by the generation of its device.

### Authorization store

A flock belongs to an inode; `lockFile` is the inode behind the path, `file[p]`
the one process p has open, `holder` who holds each.  A process goes through
`waiting`, `locked`, `planned`, `submitted`, `started`, `retained`, and may `Die`
anywhere.  `StartUnusable` is the early return between Start and
`retain_restore_token`: the answer is late, cannot be read, or `project_start` refuses
it.  Two histories say why a used-up token may be on file: `cutShort` (its open ended
before `retain_restore_token`) and `unremoved` (its removal failed).

### Socket transport

A call is a client with one frame and one connection: `conn[c]` says where the
connection is (in the backlog, being read, judged, queued, served, closed) and
`result[c]` what its client reports.  Judging and queueing happen under the mutex of
the shared table and are two steps with the mutex held between them
(`SemanticsFree`).  `turnedAway` remembers requests that were judged and then met a
full queue.  A shutdown sets `stopping`, wakes the accept loop by a connection of its
own and joins it.

### MCP service

`McpBrokerClient` is the connection: `line` is where the caller is in `call` or
`terminate`, `requests` and `responses` are the two bounded channels, `stdin` and
`stdout` the pipes, `child` and `job` the broker process, of which only what its
client can tell is kept (it takes requests in order, sends events, answers once,
may die or write rubbish at any time).  `McpService` puts the tools on top: a tool is
a sequence of calls and `stage` is where it goes on when the call has returned.
Every early return, `?` and drop of a broker on the way is a branch.  `moved`,
`callMoved` and `toolMoved` are histories: an input event left since the last frame,
during this call, during this tool.

### Installer

A step is one file-system mutation, one fsync or one decision.  `fs` is what
processes see; `images` holds, for each durability domain, the contents that a power
loss may leave, and an fsync collapses it to the current one.  `Domains` is a
parameter: `{Dirs}` is a file system whose metadata journal keeps the order of all
updates (ext4 or btrfs on one volume), and is what the runs use; section 3 says what
happens under the weaker promise of POSIX.  A process may be killed anywhere, which
also stands for every I/O error: the code returns from there without a further step.

`create_managed_directory` is two mutations, mkdir and chmod, with a fault possible
between them.  The mode of a directory is `loose` (writable by group or others, what
mkdir leaves under a umask like 0002), `fresh` (not so, but not final) or `set`;
`NewModes` says which modes mkdir may leave.  Every check of the code that looks at modes
is there: `validate_recoverable_directory` in recovery, `validate_optional_user_directory`
for the launcher's directories, the exact mode in `validate_prefix_at`.  A command has the
version of its installer, a release the one it was built with, and
`validate_installed_manifest_policy` accepts a release only if they agree (`Own`,
`OnlyOwn`).

### Long operations

The registry's mutex makes a method one step.  Every method is given a time that was
read *before* the mutex was taken, so reading it is a step of its own (`now` of the
broker and of each task).  An operator of the registry is the set of its outcomes:
records, files, success.  With `JournalFails` every write and removal may fail.
`Crash` ends a process with its threads; the journal stays.  `ran` is the history of
operations that have begun to act on the window, `told` of what callers were told.
`mark_outcome_unknown` is called by tests only and has no action.

## 3. What is checked

### Runs that pass

**stdio_broker** (`MCDesktopBroker.cfg`, about 590 000 states).  Three frames in
every order out of seven requests on three nonces, bad frames and end of input
at any point, a queue of two, and a ledger and a registry of one entry each so
that both limits are reached.  The longest input has four events, in any division into
writes of one event and chords of two.

- `CancelStopsInput`: of an input's own steps at most one write leaves after its token
  is set, and nothing at all when it was set before the input began; an input that
  confirms its releases has left no key down that a completed write put down.
- `CancelReachesInput`: a cancel the reader accepted finds its target, before or
  after it began, if the target had a place in the registry.
- `CancelStatusTruthful`: the answer to a cancel agrees with the recorded outcome
  of its target.
- `ReaderAgreesWithOwner`: reader and owner, who judge the same requests at
  different times from different tables, come to the same decisions.
- `ShutdownAlwaysAdmitted`: a full ledger refuses no shutdown.
- `RefinesOncePerNonce`: the broker implements `OncePerNonce`.  A nonce is executed
  once; its response admits acceptance if anything left, releases included; its count
  of events is exact but for the one write whose flush failed (at most a chord); and no
  more is released than was sent.
- `OwnerFollowsReader` (liveness): once the reader has ended, the owner returns.

**desktop_session** (`MCDesktopSession.cfg`, about 900 000 states).  Two
identities, two leases, two observations, two device generations, batches of up to
two steps, three kinds of consent.

- `LeaseOwnership`: open leases are exactly those of live sessions, one each.
- `ClicksHitTheirFrame`: a click is sent in the device generation in which its
  frame was captured.
- `OnlyLatestFrame`: a session accepts clicks for the observation started last,
  never for an older one that a failed observation revived.

**authorization_store** (`MCAuthorizationStore.cfg`, about 593 000 states).  Three
processes, two lock files, three tokens.

- `SerializedUnlessUndermined`: the flock serializes opens until `forget` unlinks
  a lock file under a running open.
- `ConsumedTokenIsReplaced`: once `retain_restore_token` has run, a used-up token is on
  file only if its removal failed.  Otherwise it is there because the open that used it
  up is still before that, or ended before that: it died, or Start's answer was of no
  use (see the deviations).

**socket_broker** (`MCDesktopBrokerSocket.cfg`, about 274 000 states).  Three clients
(an input or a bad frame; a cancel of it or another request under its nonce; the
input again or a shutdown), two connection threads, a queue, ledger and registry of
one.  The input is of one event: several writes, chords and releases are the same steps
of the owner as in the stdio run, and the proofs cover them for both transports.

- `CancelReachesInput`, `RefinesOncePerNonce`: as above, now with several readers.
- `ReadersAgreeWithOwner`: the shared table is the ledger with the pending requests
  judged in turn, as long as no request was turned away by the full queue.
- `ResultsMatchLedger`: what a client reports is what the ledger holds for exactly its
  request, whoever else used the nonce.
- `ConnectionsEnd` (liveness): every connection is closed in the end, and a shutdown
  does not hang on an accept loop that nobody wakes.

**mcp_service** (`MCMcpService.cfg`, about 225 000 states).  Any number of tool calls,
cancels, timeouts, signals and failures of the child, with the channel sizes of the
code; runs of two batches.

- `NothingLeftBehind`: between two calls no request, acknowledgement or answer of the
  last one is left on a live connection; after a transport failure the child is dead.
- `CallTruthful`, `InputTruthful`: a call, or a tool that sends one input, that denies
  acceptance has sent no event.
- `FrameCurrent`: a frame the service still accepts was observed after the last event
  that left.
- `EofReleases` (liveness): once the client has gone, the service ends and the child
  with it.

**release_installer** (`MCReleaseInstaller.cfg`, about 427 000 states).  Two releases of
one version, two processes with installers of two versions, directories that mkdir leaves
loose or fresh, any number of commands, kills and power losses.

- `NeverRefused`: a command or recovery meets a state that its checks reject only if a
  directory was left open between mkdir and chmod, or a release of another version is on
  file.  Both reasons are real (see the deviations); nothing else is.
- `Settled`: without a journal the installation is whole or gone.
- `OldOrNew`: a journal goes away only over the complete old or the complete new pair
  of links, also when a fault takes it.
- `ReportSurvives`: a reported success is still there after any later fault.
- `DeletesOnlyBuried`: a release is taken apart only under a committing uninstall, after
  the rename to the tombstone.
- `PendingIsRecovered` (liveness): if commands keep coming and are no longer cut short,
  the journal goes away.  A refused recovery counts as cut short, since the two reasons
  of `NeverRefused` last until someone removes them by hand.

**long_operation** (`MCLongOperationBroker.cfg`, about 246 000 states).  One broker process
at a time, restarted any number of times, two operations of which one may be active,
a clock of two values with a retention of one (so that records expire), failing
writes.  `MaximumActive = 2` passes too (374 000 states).

- `RetrySafeIsTrue`: an operation whose caller was told "failed, retry-safe" has not
  acted and never will.
- `JournalAgrees`: memory never runs ahead of the file, and every file can be loaded.
- `RefinesLifecycle`: through all restarts a handle goes one way through its states
  and ends once (`OperationLifecycle`).
- `ShutdownEnds`, `OperationsSettle` (liveness): a broker that was asked to stop or
  could not record something ends; an operation with a thread reaches an end on file
  or is left to the next broker.

Each run also checks its module's `TypeOK`, which includes the limits of the code:
the events of an input, connections at a time, one registered tool call, one owner of
the install lock, active and tracked records.

### Runs that show a disagreement

| Run | Documented | Code |
|---|---|---|
| `forget_lock` | flock keeps one token from being used twice (`desktop_portal_authorization_store.rs:4-5`) | `forget` unlinks the lock file without the lock, and two opens submit the same token |
| `removed_report` | a recovered uninstall leaves nothing (`tests/linux/linux_release_p1.rs:542`) | `uninstall` after one that died before committing drops the journal, removes nothing and answers `"removed": true` (`install.rs:144`) |
| `run_truthful` | a failing run keeps the facts (`src/mcp/desktop.rs:909`), a denial of acceptance means that nothing was delivered (`docs/computer-control-mcp.md:68`) | after a delivered batch, a refused one and a failing observation, the tool's error denies acceptance (`desktop.rs:1014`) |
| `completion_wins` | proof of completion wins against a cancel (`contracts/v1/long-operation.md:46`) | the worker reads the time before it waits for the registry; a cancel stamped later makes the completion a "clock regression", it is dropped and the broker closes (`long_operation_recording.rs:437`) |
| `second_broker` | a second broker cannot recover live records (`contracts/v1/long-operation.md:106`) | between two connections the broker holds no pipe instance (`long_operation_broker.rs:850`); a second one then recovers an accepted operation as retry-safe, which the first goes on to run |

### Known deviations without a run

Found on the same models or while writing them.  A property that would fail by one of them
names it as an exception, or is not stated.

- A bad frame while the stdio owner waits in `recv` closes the channel, and
  `serve_inbound` returns 0 without the terminal error that
  `contracts/v1/linux-desktop-session-broker-v1.md:67-68` describes
  (`src/desktop_session_broker.rs:729`).
- The same frame does not stop an input that is between the second terminal check and
  `prepare_input` when `cancel_all_active` runs.
- Tombstones that the reader inserts ahead of the owner can leave the last admitted
  input without a place in the registry, so that its token is out of reach.
- Successful input leaves its observation in place, and the broker accepts the same
  frame again (`docs/desktop-interact-observe.md:45` says it is used up; the MCP
  service does use it up).
- With one durability domain per directory, which is all that POSIX promises, recovery
  may roll a link change forward without an fsync of the managed root
  (`replace_release_link` returns early when the link is already in place) and then
  remove the journal durably; a power loss can undo the link.
- Under a umask like 0002, a kill or a power loss between the mkdir and the chmod of
  `create_managed_directory` (`install.rs:385-388`) leaves a directory of mode 0775.
  `validate_recoverable_directory` (`install.rs:1173-1182`), or
  `validate_optional_user_directory` for `~/.local/bin`, then refuses every later command
  until the mode is changed by hand, though the interrupted step is one that the journal
  is there to recover.
- `validate_installed_manifest_policy` (`install.rs:496`) demands the installer's own
  version of every release in the root, so an installer of a new version refuses a whole
  installation of the old one, and cannot recover its journal either.
- The comment at `desktop_session_portal.rs:912` says that the token is rotated as soon as
  Start has succeeded.  `project_start(..)?` one line above can return first (not all
  devices granted, no stream, no mapping id), as can an answer that comes too late; the
  token that Start used up then stays on file, with no death and no failed removal.
- `contracts/v1/long-operation.md:57-58` wants `outcome-unknown` for a timeout or a lost
  worker after dispatch; a worker that fails after dispatch records `failed`.
  `OperationLifecycle` admits both ends, so `RefinesLifecycle` does not decide it.
- `releasesConfirmed` speaks for the keys in `held`.  The keys of a write whose flush failed
  are not in it, and if they left, only `stop_emulating` puts them up; `CancelStopsInput`
  speaks of completed writes for that reason.

### Bounds

Every bound is a constant: `MaximumFrames` (frames a client sends), `MaximumEvents` and
`MaximumChord` of an input, the frame and generation bounds of the session module,
`MaximumInodes` and `MaximumTokens` of the store.  The limits of the code (`MaximumEntries`, `MaximumLedgerEntries`,
`MaximumPendingFrames`, `MaximumLiveSessions`, `ReserveLimit`) are constants too,
with small values that make the limit reachable.  Three frames suffice for the
broker because its hard cases involve an input, a cancel of it and one frame that
fills a table, repeats or conflicts; four events and chords of two are enough for an
input that is stopped with nothing, one key or a chord held, before and after a failed
write; two generations suffice for a device that
changes during an operation; three processes are what it takes to undermine a
lock (one holds it, one forgets, one locks the new file).  Three calls suffice for the
socket transport because a cancel, its target and one competing request are all that
the table and the ledger relate; two releases are what the links can tell apart (old
and new), two processes what a lock can, and two installer versions what the version check
can; one operation is followed through its
life in the long operation broker while a second one competes for the active place
and expires.  The MCP service needs no bound but the batches of a run, the installer
none but its releases, processes, versions and modes.  Limits of these parts are constants as well:
`ConnectionLimit`, `RequestPlaces`, `ResponsePlaces`, `MaximumRunBatches`,
`MaximumActive`, `MaximumTracked`, `Retention`; `MaximumTime` bounds the clock.  The
proofs remove the bounds for the properties listed in section 4.

### Fairness

*Stdio broker* (`OwnerFollowsReader`).  `WF_vars(OwnerNext)`: the owner thread is
scheduled by the operating system and every wait inside an input has a deadline.
`WF_vars(Enqueue \/ StopAll \/ SendEof)`: so is the reader, once it has a frame.
Reading is *not* fair: a client may keep its end open and send nothing.

*Socket broker* (`ConnectionsEnd`).  Weak fairness of the owner, of the accept loop
when a connection is there, and of each connection thread: a read has a socket
timeout, the mutex is held for a bounded time.  Nothing is assumed of clients.

*MCP service* (`EofReleases`).  Weak fairness of the owner, the writer and the reader
thread; every wait of the owner has a deadline and `terminate` kills the child.  Nothing
is assumed of the child, the client or signals.

*Installer* (`PendingIsRecovered`).  Weak fairness of a command that has the lock: it is
straight-line code over local files.  That commands come and are no longer killed is
a premise of the property, not an assumption.

*Long operation broker* (`ShutdownEnds`, `OperationsSettle`).  Weak fairness of the
broker thread and of each worker: a connection has a deadline, a recording a length,
and threads are scheduled.  Launching, connecting, signals, crashes and the clock
are not fair.

## 4. What is proved

All theorems are for every value of the constants that satisfies the named
assumptions of the modules: finite `Nonces`, positive sizes where the code has them, a
quota of at least one shutdown (which `LedgerReserve::admit` has), no model value that
stands for two things.  Two of them rest on more, stated in the theorem itself:
`OneJournal` for the installer and `OneServing` for the long operation broker (below).

Every invariant that a passing run checks is a theorem, and so are the action properties
and refinements.  Each proof has one inductive invariant `IInv`, which TLC also checked on the
run's instance (but for `AgreeInv` of the two transports, which quantifies over functions
and restates the checked agreement), and shows that it holds at the start and is kept by
every action.

**`BrokerOwnerProofs`** holds what both transports share (`SharedInv`).  The owner thread
and the readers meet in the registry and nowhere else, so the argument goes by kinds of
steps, with one lemma for each: a step of `Broker::handle`, a cancel judged by a reader,
a move of the owner between two requests, an answer to a request.  The parts:

- `LedgerInv`: a nonce that is being executed is not recorded, a recorded response
  is no refusal, and what is about to be written is in the ledger.
- `EffectInv`: a nonce that is neither recorded nor running has no events, releases or
  keys down; during an input `effects` equals `sent` and `down` equals `held`, and what
  is held was sent, which ties the histories to what the response will admit and confirm.
  After a failed flush `unflushed` bounds by how much they may differ.
- `TokenInv`: a set token is an entry's and stays set, so an input that made a write late,
  or was cancelled before it began, finds it at its next check and goes on to release.
- `StatusInv`: an entry an input has seen is active exactly while that input
  runs, and afterwards settled the way the ledger says.  This is why a status
  taken from the registry can be trusted against the ledger.
- `HeardInv`: once a reader has accepted a cancel, its target is recorded, or has its
  token set, or the registry is full and stays full.  `CancelReachesInput` follows.
- `ShutdownInv`: the shutdown quota is untouched until the shutdown that ends the
  owner loop.

Its last part is about the line of requests that are judged and not yet handled:
`Leads` says that judging them in turn leads from the ledger to the readers' table.  A
request that joins the line and one that leaves it keep this.  Both need an induction on
the line, done as a search for the least place where two judgements would differ.

**`DesktopBrokerProofs`** sorts the actions of the stdio transport into those kinds and
adds the order of its queue (`QueueInv`: the end of the input comes last) and `AgreeInv`
(`Leads` for the request in hand, the queue and the one just judged).  From
`BrokerInvariant` follow `BrokerTypeCorrect`, `CancelsStopInputs`,
`AcceptedCancelsReachInputs`, `CancelStatusesAreTruthful`, `ReaderJudgesAsOwner`,
`ShutdownsAreAdmitted` and the refinement `BrokerExecutesOncePerNonce`.

**`DesktopBrokerSocketProofs`** does the same for the socket transport, for any set of
calls, also an infinite one.  `ReadersInv` counts the readers; `PlaceInv` says that a
connection is in one place (backlog, accept loop, reader, queue, owner) and that at most
one reader is between its judgement and `try_send`; `ConnectionInv` and `AnswerInv` follow a request from the
call that sent it to the response it reports.  From `SocketInvariant` follow
`SocketTypeCorrect`, `CallsGetTheirOwnResponse`, `ReadersJudgeAsOwner`,
`AcceptedCancelsReachInputs`, `CancelsStopInputs`, `CancelStatusesAreTruthful`,
`ShutdownsAreAdmitted` and `SocketExecutesOncePerNonce`.  The three about cancels and
shutdowns are checked by the stdio run only; the proof gives them here as well.

**`DesktopSessionProofs`.**  `SessionInvariant`, with `SessionTypeCorrect`,
`LeasesAreOwned`, `ClicksAreSafe`, `LatestFrameOnly`.  The key parts are `FrameInv`
(the mapping taken before a capture is at most the generation captured in, which
is at most the current one, so two equal looks enclose a capture of the same
generation) and `ClickInv` (clicks still to be sent refer to a mapping in which
their frame was captured).

**`AuthorizationStoreProofs`.**  `StoreInvariant`, with `StoreTypeCorrect`,
`OpensAreSerialized`, `ConsumedTokensAreReplaced`.  `LockInv` ties every holder to
its open file and, until the lock is undermined, every open file to the path;
`TokenInv` says that a granted token is known to its process alone until saved, so it is
not one that was used up, and that the token of an open past Start is.

**`McpServiceProofs`**, for channels of any size and runs of any length.  The invariant has
two layers.  `ConnInv` is about the connection: `LoadInv` counts the frames under way in
threads, pipes and channels and bounds them by the answers the call still waits for
(so none is left when it has them all), and `CallInv` says that the call itself is in one
place on its way, so no event leaves once there is an answer.  `DeskInv` is about the
tools: which call is under way in which stage, when the frame is current, and where a
tool may be after an event of it has left.  From `ServiceInvariant` follow
`ServiceTypeCorrect`, `NothingIsLeftBehind`, `CallsAreTruthful`, `FramesAreCurrent` and
`InputToolsAreTruthful`.

**`LongOperationBrokerProofs`** first shows what each method of the registry does to one
handle, whichever of its writes fails, and then three layers.  `MemoryInv` is about each
process alone and needs no assumption; it gives `TypeCorrect` with the limits of the
records.  `AgreeInv` (memory is the file, up to expired records) and `FileInv` (the file
keeps to what was done and told) need `[]OneServing`: at most one process has opened the
journal and not ended.  Nothing in the journal enforces that; the run `second_broker`
shows that the endpoint does not either.  Under that premise hold
`RetrySafeHolds`, `JournalHolds` and the refinement `ImplementsLifecycle`, which maps
every step to one action of `OperationLifecycle` per handle.
`AloneImplementsLifecycle` discharges the premise for one broker process, restarted at
will, which is the instance of the run.

**`ReleaseInstallerProofs`**, for any releases, processes, commands, kills and power
losses.  Assumed is `OneJournal`, a file system that makes updates durable in their order,
as in the run; without it the deviation of section 3 about one domain per directory can
occur.  A content of the directories is acceptable (`FileOK`) if recovery takes it, modes
and versions aside: with no journal it is a complete installation or none, and each journal
fixes what may lie beside it (`StagingOf` before the release has its name, `LinkingOf`
while the links move, `RemovalOf` while an installation goes away).

- `FilesInv`: *every* content that a power loss may bring back is acceptable.
- `ProcInv`: a process is where the content before it says (`Local`, one part for each
  phase of a command).
- `HistoryInv`: what a power loss may undo.  Before the effects of a transaction begin,
  and after its journal is gone, falling back changes neither link nor launcher; a
  fall-back to no journal at all restores the old links; no release comes back in
  pieces that was whole.
- `ReportInv`: every content that may come back shows what was reported, and so does its
  recovery.

A lemma for each kind of step (decision, fsync, mutation within a transaction, write and
removal of the journal) reduces an action to facts about one content.  From
`InstallerInvariant` follow `TypeCorrect`, `RecoveryAcceptsAll`, `SettledWithoutJournal`,
`ReportsSurvive` and the action properties `PairIsOldOrNew` and `ReleasesGoOnlyBuried`.

Only model-checked: the liveness properties (`OwnerFollowsReader`, `ConnectionsEnd`,
`EofReleases`, `PendingIsRecovered`, `ShutdownEnds`, `OperationsSettle`), since liveness
under fairness is outside the prover.  The five runs that show a disagreement are
counterexamples, with nothing to prove.

## 5. What is not modelled

Data formats, JSON parsing, error wording and redaction; pixels and image
comparison; D-Bus and PipeWire exchanges below the order in which the portal
adapter makes them; key codes and coordinate arithmetic; views and evidence
returned to the client; consent fields and tool schemas of the MCP service; archive
parsing and digests of the installer; peer authentication of the long operation
broker.  The session module's decisions appear in `BrokerOwner` and in
`McpBrokerClient` as choices and in `DesktopSession` in full; they are not composed.
Crashes are modelled where something is persisted (store, installer, long operation
journal); the desktop broker keeps its ledger in memory, and a new process has a new
epoch.

Components left out, with the reason:

- *Frame stream and subscription worker*: the worker's lifetime is part of
  `DesktopSession`; its bounded buffer of updates is not modelled yet.
- *Browser session broker*: an in-memory ledger with revisions and cancel receipts; a
  candidate for a module on the pattern of `BrokerOwner`.
- *Sequence execution*: journal and transition code that no service calls yet
  (`src/service/sequence.rs`), so there is no order of calls to check.
- *Window generation registry, interactive session broker, atomic file, output guard,
  task control*: small single-owner tables, or a few system calls in a row.
- *Capture, recording, observation, browser page, AT-SPI and media workers*: one request
  per process, almost all of it native or protocol I/O.
- *Catalogues, capabilities, methods, policy, CLI*: tables and argument parsing without
  state.

Most of the repository's lines are in the last two groups and in Windows and Linux
adapters that translate one call into native ones, so the models cover a small share
of the lines, and the parts in which threads, processes and faults meet.

## 6. Plan

Done: registry, owner, both transports, session module, authorization store, MCP
service, installer, long operation broker; their safety properties and refinements are
proved.  Next, in this order:

1. `FrameStream`: updates in order, gaps marked, the worker ends.
2. `BrowserLedger` on the pattern of `BrokerOwner`.
3. Composition of `DesktopBroker` with `DesktopSession`: the owner's choices replaced by
   the session module's decisions.
4. Proofs: the installer under one domain per directory, for the properties that do not
   depend on the order of updates; `OneServing` from the endpoint for a broker that keeps
   an instance open, which is what the contract describes.
