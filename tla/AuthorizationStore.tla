------------------------- MODULE AuthorizationStore ------------------------
(***************************************************************************)
(* The saved Portal authorization: one restore token in a file that every  *)
(* broker process of the user shares                                       *)
(* (src/src/adapters/linux/desktop_portal_authorization_store.rs) and the  *)
(* part of opening a session that uses it                                  *)
(* (src/src/adapters/linux/desktop_session_portal.rs).  A token restores   *)
(* one session: the Portal's answer to Start consumes it and may grant the *)
(* next.  Opening with "remember" holds an exclusive flock on a lock file  *)
(* from before the token is read until the open ends.  A flock belongs to  *)
(* the inode behind the open file, not to the path.                        *)
(*                                                                         *)
(* Any process may die between two steps; the kernel releases its flock.   *)
(***************************************************************************)
EXTENDS Naturals

CONSTANTS Processes,      \* broker processes of one user
          MaximumInodes,  \* bound of the model: lock files ever created
          MaximumTokens,  \* bound of the model: tokens the Portal grants
          None

ASSUME StoreAssumption ==
    /\ MaximumInodes \in Nat
    /\ MaximumTokens \in Nat
    /\ None \notin Nat
    /\ None \notin Processes

Inodes == 1..MaximumInodes
Tokens == 1..MaximumTokens

VARIABLES
    lockFile,   \* the inode behind LOCK_FILE_NAME
    created,    \* lock files created so far
    holder,     \* the process whose flock each inode carries
    tokenFile,  \* the token behind TOKEN_FILE_NAME
    granted,    \* tokens granted by the Portal so far
    pc,         \* where each process is
    file,       \* the lock file each process has open
    plan,       \* RememberedAuthorizationPlan.restore_token
    next,       \* the token the Portal granted to the running open
    consumed,   \* history: tokens a successful Start has used up
    cutShort,   \* history: consumed tokens whose open ended before retain_restore_token
    unremoved,  \* history: consumed tokens whose file could not be removed
    undermined  \* history: a lock file was unlinked with an open in progress

vars == <<lockFile, created, holder, tokenFile, granted, pc, file, plan, next,
          consumed, cutShort, unremoved, undermined>>

Steps == {"idle", "waiting", "locked", "planned", "submitted", "started", "retained",
          "forgetting"}

\* The steps between a successful flock and the end of the open.
Holding == {"locked", "planned", "submitted", "started", "retained"}

TypeOK ==
    /\ lockFile \in Inodes \cup {None}
    /\ created \in 0..MaximumInodes
    /\ holder \in [Inodes -> Processes \cup {None}]
    /\ tokenFile \in Tokens \cup {None}
    /\ granted \in 0..MaximumTokens
    /\ pc \in [Processes -> Steps]
    /\ file \in [Processes -> Inodes \cup {None}]
    /\ \A p \in Processes : file[p] # None <=> pc[p] \in Holding \cup {"waiting"}
    /\ plan \in [Processes -> Tokens \cup {None}]
    /\ next \in [Processes -> Tokens \cup {None}]
    /\ consumed \subseteq Tokens
    /\ cutShort \subseteq consumed /\ unremoved \subseteq consumed
    /\ undermined \in BOOLEAN

\* Whether an authorization was saved by an earlier run is open.
Init ==
    /\ lockFile = None
    /\ created = 0
    /\ holder = [i \in Inodes |-> None]
    /\ \/ tokenFile = None /\ granted = 0
       \/ tokenFile = 1 /\ granted = 1 /\ MaximumTokens > 0
    /\ pc = [p \in Processes |-> "idle"]
    /\ file = [p \in Processes |-> None]
    /\ plan = [p \in Processes |-> None]
    /\ next = [p \in Processes |-> None]
    /\ consumed = {}
    /\ cutShort = {}
    /\ unremoved = {}
    /\ undermined = FALSE

----------------------------------------------------------------------------
Goto(p, step) == pc' = [pc EXCEPT ![p] = step]

\* Mutant of Leave: the lock file stays open, and locked, after the open is over.
LeaveUnclosed(p) ==
    /\ Goto(p, "idle")
    /\ UNCHANGED <<holder, file>>
    /\ plan' = [plan EXCEPT ![p] = None]
    /\ next' = [next EXCEPT ![p] = None]

\* The process leaves the open: its plan is dropped, its file closed, its flock released.
Leave(p) ==
    /\ Goto(p, "idle")
    /\ holder' = [i \in Inodes |-> IF holder[i] = p THEN None ELSE holder[i]]
    /\ file' = [file EXCEPT ![p] = None]
    /\ plan' = [plan EXCEPT ![p] = None]
    /\ next' = [next EXCEPT ![p] = None]

\* lock_exclusive: open the lock file by its path, creating it when it is not there.
OpenLockFile(p) ==
    /\ pc[p] = "idle"
    /\ \/ /\ lockFile # None
          /\ file' = [file EXCEPT ![p] = lockFile]
          /\ UNCHANGED <<lockFile, created>>
       \/ /\ lockFile = None
          /\ created < MaximumInodes
          /\ created' = created + 1
          /\ lockFile' = created + 1
          /\ file' = [file EXCEPT ![p] = created + 1]
    /\ Goto(p, "waiting")
    /\ UNCHANGED <<holder, tokenFile, granted, plan, next, consumed, cutShort, unremoved,
                   undermined>>

\* Mutant of LockIsFree: a shared lock does not exclude the other holders.
LockIsShared(i) == TRUE

\* flock(NonBlockingLockExclusive) succeeds.
LockIsFree(i) == holder[i] = None

Lock(p) ==
    /\ pc[p] = "waiting"
    /\ LockIsFree(file[p])
    /\ holder' = [holder EXCEPT ![file[p]] = p]
    /\ Goto(p, "locked")
    /\ UNCHANGED <<lockFile, created, tokenFile, granted, file, plan, next,
                   consumed, cutShort, unremoved, undermined>>

\* lock_exclusive gives up at the deadline (LockBusy).
LockBusy(p) ==
    /\ pc[p] = "waiting"
    /\ Leave(p)
    /\ UNCHANGED <<lockFile, created, tokenFile, granted, consumed, cutShort, unremoved,
                   undermined>>

ReadToken(p) ==
    /\ pc[p] = "locked"
    /\ plan' = [plan EXCEPT ![p] = tokenFile]
    /\ Goto(p, "planned")
    /\ UNCHANGED <<lockFile, created, holder, tokenFile, granted, file, next,
                   consumed, cutShort, unremoved, undermined>>

\* select_devices hands the token that was read to the Portal.
SelectDevices(p) ==
    /\ pc[p] = "planned"
    /\ Goto(p, "submitted")
    /\ UNCHANGED <<lockFile, created, holder, tokenFile, granted, file, plan, next,
                   consumed, cutShort, unremoved, undermined>>

\* Any failure up to Start ends the open and leaves the saved token alone.
FailBeforeStart(p) ==
    /\ pc[p] \in {"locked", "planned", "submitted"}
    /\ Leave(p)
    /\ UNCHANGED <<lockFile, created, tokenFile, granted, consumed, cutShort, unremoved,
                   undermined>>

\* The Portal answers Start: the submitted token is used up, the next may be granted.
Start(p) ==
    /\ pc[p] = "submitted"
    /\ consumed' = IF plan[p] = None THEN consumed ELSE consumed \cup {plan[p]}
    /\ \/ /\ granted < MaximumTokens
          /\ granted' = granted + 1
          /\ next' = [next EXCEPT ![p] = granted + 1]
       \/ UNCHANGED <<granted, next>>
    /\ Goto(p, "started")
    /\ UNCHANGED <<lockFile, created, holder, tokenFile, file, plan, cutShort, unremoved,
                   undermined>>

\* The open of p ends with the token its Start has consumed still in the file.
CutShort(p) ==
    /\ cutShort' = IF plan[p] # None THEN cutShort \cup {plan[p]} ELSE cutShort
    /\ Leave(p)

\* The answer to Start does not arrive in time, cannot be read, or is one that
\* project_start refuses (devices, streams or mapping ids are missing): the open ends
\* before retain_restore_token, and the granted token is lost with it.
StartUnusable(p) ==
    /\ pc[p] = "started"
    /\ CutShort(p)
    /\ UNCHANGED <<lockFile, created, tokenFile, granted, consumed, unremoved, undermined>>

\* discard_token: the file is removed, or the removal fails and nobody notices.
DiscardToken ==
    \/ tokenFile' = None /\ UNCHANGED unremoved
    \/ /\ UNCHANGED tokenFile
       /\ unremoved' = IF tokenFile \in consumed
                       THEN unremoved \cup {tokenFile}
                       ELSE unremoved

\* save_token: staged and renamed over the old record.
SaveToken(p) == tokenFile' = next[p] /\ UNCHANGED unremoved

\* Mutant of NoTokenGranted: the old record is kept when no token is granted.
NoTokenGrantedKeeps(p) ==
    /\ next[p] = None
    /\ UNCHANGED <<tokenFile, unremoved>>

\* retain_restore_token without a grant: a token that was submitted is not kept.
NoTokenGranted(p) ==
    /\ next[p] = None
    /\ IF plan[p] # None
       THEN DiscardToken
       ELSE UNCHANGED <<tokenFile, unremoved>>

\* retain_restore_token: save the granted token; discard the old one when that fails
\* or when none was granted.
RetainRestoreToken(p) ==
    /\ pc[p] = "started"
    /\ \/ next[p] # None /\ SaveToken(p)
       \/ next[p] # None /\ DiscardToken
       \/ NoTokenGranted(p)
    /\ Goto(p, "retained")
    /\ UNCHANGED <<lockFile, created, holder, granted, file, plan, next, consumed,
                   cutShort, undermined>>

\* The rest of the open succeeds or fails; the lock goes with the stack frame.
EndOpen(p) ==
    /\ pc[p] = "retained"
    /\ Leave(p)
    /\ UNCHANGED <<lockFile, created, tokenFile, granted, consumed, cutShort, unremoved,
                   undermined>>

\* forget: remove the token file, without the lock.  When a saved token cannot be
\* removed, forget returns an error here and nothing has changed.
ForgetToken(p) ==
    /\ pc[p] = "idle"
    /\ tokenFile' = None
    /\ Goto(p, "forgetting")
    /\ UNCHANGED <<lockFile, created, holder, granted, file, plan, next,
                   consumed, cutShort, unremoved, undermined>>

\* forget: remove the lock file.
ForgetLockFile(p) ==
    /\ pc[p] = "forgetting"
    /\ undermined' = (undermined \/ \E q \in Processes : file[q] # None)
    /\ lockFile' = None
    /\ Goto(p, "idle")
    /\ UNCHANGED <<created, holder, tokenFile, granted, file, plan, next, consumed, cutShort,
                   unremoved>>

\* The process dies.  A token its Start had consumed stays in the file.
Die(p) ==
    /\ pc[p] # "idle"
    /\ IF pc[p] = "started" THEN CutShort(p) ELSE Leave(p) /\ UNCHANGED cutShort
    /\ UNCHANGED <<lockFile, created, tokenFile, granted, consumed, unremoved, undermined>>

Next ==
    \E p \in Processes :
        \/ OpenLockFile(p) \/ Lock(p) \/ LockBusy(p) \/ ReadToken(p) \/ SelectDevices(p)
        \/ FailBeforeStart(p) \/ Start(p) \/ StartUnusable(p) \/ RetainRestoreToken(p)
        \/ EndOpen(p) \/ ForgetToken(p) \/ ForgetLockFile(p) \/ Die(p)

Spec == Init /\ [][Next]_vars

----------------------------------------------------------------------------
\* The token an open has given to the Portal and not accounted for yet.
InUse(p) == pc[p] \in {"submitted", "started"} /\ plan[p] # None

\* The promise of the store: no two connections use the same saved token at once.
NoConcurrentRestore ==
    \A p, q \in Processes :
        p # q /\ InUse(p) /\ InUse(q) => plan[p] # plan[q]

\* The lock does what it is there for as long as forget unlinks no lock file under
\* a running open: the opens are serialized, hence no token is used twice at once.
SerializedUnlessUndermined ==
    ~undermined => \A p, q \in Processes :
        pc[p] \in Holding /\ pc[q] \in Holding => p = q

\* A token that was used up does not stay on file once retain_restore_token has run,
\* unless its removal failed, whatever other processes open, forget or leave meanwhile.
\* It is there only while the open that consumed it has yet to come to that, or because
\* that open ended before: it died, or the answer to Start was of no use.
ConsumedTokenIsReplaced ==
    tokenFile \in consumed =>
        \/ tokenFile \in cutShort \cup unremoved
        \/ \E p \in Processes : pc[p] = "started" /\ plan[p] = tokenFile
============================================================================
