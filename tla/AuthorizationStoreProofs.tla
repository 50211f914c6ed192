---------------------- MODULE AuthorizationStoreProofs ---------------------
(***************************************************************************)
(* Proofs about the saved Portal authorization, for any set of processes.  *)
(* The lock: a process between flock and the end of its open is the one    *)
(* its lock file names, and until a lock file is unlinked under a running  *)
(* open all open files are the one behind the path.  The token: one that   *)
(* was granted and not saved yet is nowhere else.                          *)
(***************************************************************************)
EXTENDS AuthorizationStore, TLAPS

LockInv ==
    /\ \A p \in Processes : pc[p] \in Holding => holder[file[p]] = p
    /\ \A i \in Inodes : holder[i] # None =>
          pc[holder[i]] \in Holding /\ file[holder[i]] = i
    /\ ~undermined => \A p \in Processes : file[p] # None => file[p] = lockFile

\* A granted token, while it waits to be saved, is known to its process alone.
Fresh(t) ==
    /\ tokenFile # t
    /\ t \notin consumed
    /\ \A q \in Processes : plan[q] # t

TokenInv ==
    /\ tokenFile # None => tokenFile <= granted
    /\ \A t \in consumed : t <= granted
    /\ \A p \in Processes :
          /\ plan[p] # None => plan[p] <= granted
          /\ next[p] # None => next[p] <= granted
          /\ pc[p] \notin {"started", "retained"} => next[p] = None
          /\ pc[p] = "started" /\ next[p] # None =>
                /\ Fresh(next[p])
                /\ \A q \in Processes : q # p => next[q] # next[p]
          /\ pc[p] = "started" /\ plan[p] # None => plan[p] \in consumed

IInv == TypeOK /\ LockInv /\ TokenInv /\ ConsumedTokenIsReplaced

----------------------------------------------------------------------------
\* Every step keeps the types, by whichever process it is taken.
LEMMA TypeStep ==
    ASSUME TypeOK, TokenInv, NEW p \in Processes,
           \/ OpenLockFile(p) \/ Lock(p) \/ LockBusy(p) \/ ReadToken(p) \/ SelectDevices(p)
           \/ FailBeforeStart(p) \/ Start(p) \/ StartUnusable(p) \/ RetainRestoreToken(p)
           \/ EndOpen(p) \/ ForgetToken(p) \/ ForgetLockFile(p) \/ Die(p)
    PROVE  TypeOK'
<1>1. CASE OpenLockFile(p)
  BY <1>1, StoreAssumption DEF OpenLockFile, Goto, TypeOK, Steps, Holding, Inodes, Tokens,
     TokenInv
<1>2. CASE Lock(p)
  BY <1>2, StoreAssumption DEF Lock, Goto, LockIsFree, TypeOK, Steps, Holding, Inodes,
     Tokens, TokenInv
<1>3. CASE LockBusy(p)
  BY <1>3, StoreAssumption DEF LockBusy, Goto, Leave, TypeOK, Steps, Holding, Inodes,
     Tokens, TokenInv
<1>4. CASE ReadToken(p)
  BY <1>4, StoreAssumption DEF ReadToken, Goto, TypeOK, Steps, Holding, Inodes, Tokens,
     TokenInv
<1>5. CASE SelectDevices(p)
  BY <1>5, StoreAssumption DEF SelectDevices, Goto, TypeOK, Steps, Holding, Inodes, Tokens,
     TokenInv
<1>6. CASE FailBeforeStart(p)
  BY <1>6, StoreAssumption DEF FailBeforeStart, Goto, Leave, TypeOK, Steps, Holding,
     Inodes, Tokens, TokenInv
<1>7. CASE Start(p)
  <2>1. /\ consumed' \subseteq Tokens
        /\ cutShort' \subseteq consumed' /\ unremoved' \subseteq consumed'
    BY <1>7 DEF Start, TypeOK
  <2>2. granted' \in 0..MaximumTokens /\ next' \in [Processes -> Tokens \cup {None}]
    BY <1>7, StoreAssumption DEF Start, TypeOK, Tokens
  <2>3. pc' \in [Processes -> Steps]
    BY <1>7 DEF Start, Goto, TypeOK, Steps
  <2>4. \A q \in Processes : file'[q] # None <=> pc'[q] \in Holding \cup {"waiting"}
    BY <1>7 DEF Start, Goto, TypeOK, Steps, Holding
  <2> QED
    BY <1>7, <2>1, <2>2, <2>3, <2>4 DEF Start, TypeOK
<1>8. CASE RetainRestoreToken(p)
  BY <1>8, StoreAssumption DEF RetainRestoreToken, Goto, SaveToken, DiscardToken,
     NoTokenGranted, TypeOK, Steps, Holding, Inodes, Tokens, TokenInv
<1>9. CASE EndOpen(p)
  BY <1>9, StoreAssumption DEF EndOpen, Goto, Leave, TypeOK, Steps, Holding, Inodes,
     Tokens, TokenInv
<1>10. CASE ForgetToken(p)
  BY <1>10, StoreAssumption DEF ForgetToken, Goto, TypeOK, Steps, Holding, Inodes, Tokens,
     TokenInv
<1>11. CASE ForgetLockFile(p)
  BY <1>11, StoreAssumption DEF ForgetLockFile, Goto, TypeOK, Steps, Holding, Inodes,
     Tokens, TokenInv
<1>12. CASE StartUnusable(p)
  BY <1>12, StoreAssumption DEF StartUnusable, CutShort, Goto, Leave, TypeOK, Steps, Holding,
     Inodes, Tokens, TokenInv
<1>13. CASE Die(p)
  <2>1. CASE pc[p] = "started"
    <3>1. StartUnusable(p)
      BY <1>13, <2>1 DEF Die, StartUnusable
    <3> QED
      BY <1>12, <3>1
  <2>2. CASE pc[p] # "started"
    <3>1. Leave(p) /\ UNCHANGED cutShort
      BY <1>13, <2>2, Zenon DEF Die
    <3> QED
      BY <1>13, <2>2, <3>1, StoreAssumption
         DEF Die, Goto, Leave, TypeOK, Steps, Holding, Inodes, Tokens, TokenInv
  <2> QED
    BY <2>1, <2>2
<1>q. QED
  BY <1>1, <1>2, <1>3, <1>4, <1>5, <1>6, <1>7, <1>8, <1>9, <1>10, <1>11, <1>12, <1>13

\* Every step keeps the correspondence between flocks and open lock files.
LEMMA LockStep ==
    ASSUME TypeOK, TypeOK', LockInv, NEW p \in Processes,
           \/ OpenLockFile(p) \/ Lock(p) \/ LockBusy(p) \/ ReadToken(p) \/ SelectDevices(p)
           \/ FailBeforeStart(p) \/ Start(p) \/ StartUnusable(p) \/ RetainRestoreToken(p)
           \/ EndOpen(p) \/ ForgetToken(p) \/ ForgetLockFile(p) \/ Die(p)
    PROVE  LockInv'
<1>1. CASE OpenLockFile(p)
  BY <1>1, StoreAssumption DEF OpenLockFile, Goto, TypeOK, Steps, Holding, Inodes, Tokens,
     LockInv
<1>2. CASE Lock(p)
  BY <1>2, StoreAssumption DEF Lock, Goto, LockIsFree, TypeOK, Steps, Holding, Inodes,
     Tokens, LockInv
<1>3. CASE LockBusy(p)
  BY <1>3, StoreAssumption DEF LockBusy, Goto, Leave, TypeOK, Steps, Holding, Inodes,
     Tokens, LockInv
<1>4. CASE ReadToken(p)
  BY <1>4, StoreAssumption DEF ReadToken, Goto, TypeOK, Steps, Holding, Inodes, Tokens,
     LockInv
<1>5. CASE SelectDevices(p)
  BY <1>5, StoreAssumption DEF SelectDevices, Goto, TypeOK, Steps, Holding, Inodes, Tokens,
     LockInv
<1>6. CASE FailBeforeStart(p)
  BY <1>6, StoreAssumption DEF FailBeforeStart, Goto, Leave, TypeOK, Steps, Holding,
     Inodes, Tokens, LockInv
<1>7. CASE Start(p)
  BY <1>7, StoreAssumption DEF Start, Goto, TypeOK, Steps, Holding, Inodes, Tokens, LockInv
<1>8. CASE RetainRestoreToken(p)
  BY <1>8, StoreAssumption DEF RetainRestoreToken, Goto, SaveToken, DiscardToken,
     NoTokenGranted, TypeOK, Steps, Holding, Inodes, Tokens, LockInv
<1>9. CASE EndOpen(p)
  BY <1>9, StoreAssumption DEF EndOpen, Goto, Leave, TypeOK, Steps, Holding, Inodes,
     Tokens, LockInv
<1>10. CASE ForgetToken(p)
  BY <1>10, StoreAssumption DEF ForgetToken, Goto, TypeOK, Steps, Holding, Inodes, Tokens,
     LockInv
<1>11. CASE ForgetLockFile(p)
  <2>1. ~undermined' => \A q \in Processes : file'[q] = None
    BY <1>11, Zenon DEF ForgetLockFile
  <2>2. UNCHANGED <<holder, file>> /\ \A q \in Processes : pc'[q] \in Holding <=> pc[q] \in Holding
    BY <1>11 DEF ForgetLockFile, Goto, TypeOK, Holding
  <2>3. \A i \in Inodes : holder[i] # None => holder[i] \in Processes
    BY DEF TypeOK
  <2> QED
    BY <2>1, <2>2, <2>3 DEF LockInv
<1>12. CASE StartUnusable(p)
  BY <1>12, StoreAssumption DEF StartUnusable, CutShort, Goto, Leave, TypeOK, Steps, Holding,
     Inodes, Tokens, LockInv
<1>13. CASE Die(p)
  <2>1. CASE pc[p] = "started"
    <3>1. StartUnusable(p)
      BY <1>13, <2>1 DEF Die, StartUnusable
    <3> QED
      BY <1>12, <3>1
  <2>2. CASE pc[p] # "started"
    <3>1. Leave(p) /\ UNCHANGED cutShort
      BY <1>13, <2>2, Zenon DEF Die
    <3> QED
      BY <1>13, <2>2, <3>1, StoreAssumption
         DEF Die, Goto, Leave, TypeOK, Steps, Holding, Inodes, Tokens, LockInv
  <2> QED
    BY <2>1, <2>2
<1>q. QED
  BY <1>1, <1>2, <1>3, <1>4, <1>5, <1>6, <1>7, <1>8, <1>9, <1>10, <1>11, <1>12, <1>13

\* Every step keeps granted tokens fresh and accounts for the consumed ones.
LEMMA TokenStep ==
    ASSUME TypeOK, TypeOK', TokenInv, ConsumedTokenIsReplaced, NEW p \in Processes,
           \/ OpenLockFile(p) \/ Lock(p) \/ LockBusy(p) \/ ReadToken(p) \/ SelectDevices(p)
           \/ FailBeforeStart(p) \/ Start(p) \/ StartUnusable(p) \/ RetainRestoreToken(p)
           \/ EndOpen(p) \/ ForgetToken(p) \/ ForgetLockFile(p) \/ Die(p)
    PROVE  TokenInv' /\ ConsumedTokenIsReplaced'
<1>1. CASE OpenLockFile(p)
  BY <1>1, StoreAssumption DEF OpenLockFile, Goto, TypeOK, Steps, Holding, Inodes, Tokens,
     TokenInv, Fresh, ConsumedTokenIsReplaced
<1>2. CASE Lock(p)
  BY <1>2, StoreAssumption DEF Lock, Goto, LockIsFree, TypeOK, Steps, Holding, Inodes,
     Tokens, TokenInv, Fresh, ConsumedTokenIsReplaced
<1>3. CASE LockBusy(p)
  BY <1>3, StoreAssumption DEF LockBusy, Goto, Leave, TypeOK, Steps, Holding, Inodes,
     Tokens, TokenInv, Fresh, ConsumedTokenIsReplaced
<1>4. CASE ReadToken(p)
  BY <1>4, StoreAssumption DEF ReadToken, Goto, TypeOK, Steps, Holding, Inodes, Tokens,
     TokenInv, Fresh, ConsumedTokenIsReplaced
<1>5. CASE SelectDevices(p)
  BY <1>5, StoreAssumption DEF SelectDevices, Goto, TypeOK, Steps, Holding, Inodes, Tokens,
     TokenInv, Fresh, ConsumedTokenIsReplaced
<1>6. CASE FailBeforeStart(p)
  BY <1>6, StoreAssumption DEF FailBeforeStart, Goto, Leave, TypeOK, Steps, Holding,
     Inodes, Tokens, TokenInv, Fresh, ConsumedTokenIsReplaced
<1>7. CASE Start(p)
  BY <1>7, StoreAssumption DEF Start, Goto, TypeOK, Steps, Holding, Inodes, Tokens,
     TokenInv, Fresh, ConsumedTokenIsReplaced
<1>8. CASE RetainRestoreToken(p)
  BY <1>8, StoreAssumption DEF RetainRestoreToken, Goto, SaveToken, DiscardToken,
     NoTokenGranted, TypeOK, Steps, Holding, Inodes, Tokens, TokenInv, Fresh,
     ConsumedTokenIsReplaced
<1>9. CASE EndOpen(p)
  BY <1>9, StoreAssumption DEF EndOpen, Goto, Leave, TypeOK, Steps, Holding, Inodes,
     Tokens, TokenInv, Fresh, ConsumedTokenIsReplaced
<1>10. CASE ForgetToken(p)
  BY <1>10, StoreAssumption DEF ForgetToken, Goto, TypeOK, Steps, Holding, Inodes, Tokens,
     TokenInv, Fresh, ConsumedTokenIsReplaced
<1>11. CASE ForgetLockFile(p)
  BY <1>11, StoreAssumption DEF ForgetLockFile, Goto, TypeOK, Steps, Holding, Inodes,
     Tokens, TokenInv, Fresh, ConsumedTokenIsReplaced
<1>12. CASE StartUnusable(p)
  BY <1>12, StoreAssumption DEF StartUnusable, CutShort, Goto, Leave, TypeOK, Steps, Holding,
     Inodes, Tokens, TokenInv, Fresh, ConsumedTokenIsReplaced
<1>13. CASE Die(p)
  <2>1. CASE pc[p] = "started"
    <3>1. StartUnusable(p)
      BY <1>13, <2>1 DEF Die, StartUnusable
    <3> QED
      BY <1>12, <3>1
  <2>2. CASE pc[p] # "started"
    <3>1. Leave(p) /\ UNCHANGED cutShort
      BY <1>13, <2>2, Zenon DEF Die
    <3> QED
      BY <1>13, <2>2, <3>1, StoreAssumption
         DEF Die, Goto, Leave, TypeOK, Steps, Holding, Inodes, Tokens, TokenInv, Fresh,
             ConsumedTokenIsReplaced
  <2> QED
    BY <2>1, <2>2
<1>q. QED
  BY <1>1, <1>2, <1>3, <1>4, <1>5, <1>6, <1>7, <1>8, <1>9, <1>10, <1>11, <1>12, <1>13

----------------------------------------------------------------------------
\* The invariant of every reachable state.
THEOREM StoreInvariant == Spec => []IInv
<1>1. Init => IInv
  <2> SUFFICES ASSUME Init PROVE IInv
    OBVIOUS
  <2>1. TypeOK
    <3>1. lockFile \in Inodes \cup {None} /\ created \in 0..MaximumInodes
      BY StoreAssumption DEF Init
    <3>2. tokenFile \in Tokens \cup {None} /\ granted \in 0..MaximumTokens
      BY StoreAssumption DEF Init, Tokens
    <3>3. /\ holder \in [Inodes -> Processes \cup {None}]
          /\ pc \in [Processes -> Steps]
          /\ file \in [Processes -> Inodes \cup {None}]
          /\ plan \in [Processes -> Tokens \cup {None}]
          /\ next \in [Processes -> Tokens \cup {None}]
      BY DEF Init, Steps
    <3>4. \A p \in Processes : file[p] # None <=> pc[p] \in Holding \cup {"waiting"}
      BY DEF Init, Holding
    <3>5. /\ consumed \subseteq Tokens /\ undermined \in BOOLEAN
          /\ cutShort \subseteq consumed /\ unremoved \subseteq consumed
      BY DEF Init
    <3> QED
      BY <3>1, <3>2, <3>3, <3>4, <3>5 DEF TypeOK
  <2>2. LockInv
    BY DEF Init, LockInv, Holding
  <2>3. TokenInv
    <3>1. tokenFile # None => tokenFile <= granted
      BY DEF Init
    <3>2. \A p \in Processes : pc[p] = "idle" /\ plan[p] = None /\ next[p] = None
      BY DEF Init
    <3>3. consumed = {}
      BY DEF Init
    <3> QED
      BY <3>1, <3>2, <3>3 DEF TokenInv
  <2>4. ConsumedTokenIsReplaced
    BY DEF Init, ConsumedTokenIsReplaced
  <2> QED
    BY <2>1, <2>2, <2>3, <2>4 DEF IInv
<1>2. IInv /\ [Next]_vars => IInv'
  <2> SUFFICES ASSUME IInv, [Next]_vars PROVE IInv'
    OBVIOUS
  <2>1. CASE UNCHANGED vars
    BY <2>1 DEF vars, IInv, TypeOK, LockInv, TokenInv, Fresh, ConsumedTokenIsReplaced
  <2>2. CASE Next
    <3>1. PICK p \in Processes :
            \/ OpenLockFile(p) \/ Lock(p) \/ LockBusy(p) \/ ReadToken(p) \/ SelectDevices(p)
            \/ FailBeforeStart(p) \/ Start(p) \/ StartUnusable(p) \/ RetainRestoreToken(p)
            \/ EndOpen(p) \/ ForgetToken(p) \/ ForgetLockFile(p) \/ Die(p)
      BY <2>2 DEF Next
    <3>2. TypeOK'
      BY <3>1, TypeStep DEF IInv
    <3>3. LockInv'
      BY <3>1, <3>2, LockStep DEF IInv
    <3>4. TokenInv' /\ ConsumedTokenIsReplaced'
      BY <3>1, <3>2, TokenStep DEF IInv
    <3> QED
      BY <3>2, <3>3, <3>4 DEF IInv
  <2> QED
    BY <2>1, <2>2
<1> QED
  BY <1>1, <1>2, PTL DEF Spec

\* Type correctness of the store and its users.
THEOREM StoreTypeCorrect == Spec => []TypeOK
  BY StoreInvariant, PTL DEF IInv

\* lock_exclusive serializes the opens, for any number of processes, as long as
\* forget unlinks no lock file under a running open.
THEOREM OpensAreSerialized == Spec => []SerializedUnlessUndermined
<1>1. IInv => SerializedUnlessUndermined
  BY DEF IInv, TypeOK, LockInv, SerializedUnlessUndermined, Holding
<1> QED
  BY <1>1, StoreInvariant, PTL

\* retain_restore_token: a used-up token stays on file only when its removal failed, or
\* when the open that consumed it ended before, by a death or by an answer to Start that
\* it could not use; whatever other processes and forget do meanwhile.
THEOREM ConsumedTokensAreReplaced == Spec => []ConsumedTokenIsReplaced
  BY StoreInvariant, PTL DEF IInv
============================================================================
