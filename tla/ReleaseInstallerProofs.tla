----------------------- MODULE ReleaseInstallerProofs -----------------------
(***************************************************************************)
(* Proofs about the installer, for any set of releases, of versions, of    *)
(* umasks and of processes, any sequence of commands, kills and power      *)
(* losses, on a file system that makes updates durable in their order (one *)
(* domain, see OneJournal).                                                *)
(*                                                                         *)
(* The argument: whatever content a power loss may bring back, recovery    *)
(* accepts it (FileOK), but for the two reasons that NeverRefused names: a *)
(* directory left open and a release of another version.  A journal fixes  *)
(* which contents it accepts: before a new release has its name, while     *)
(* links move, and while an installation is taken away.  A process is      *)
(* where the content before it says (Local).                               *)
(* What a user was told stays true as long as a content with a journal     *)
(* that was already removed leads recovery to the same links (Ended).      *)
(***************************************************************************)
EXTENDS ReleaseInstaller, TLAPS

\* The updates of all directories become durable in their order.
OneJournal == Domains = {Dirs}

\* The contents that a power loss may leave.
Kept == images[Dirs]

----------------------------------------------------------------------------
(* Contents.                                                               *)

JournalIn(f) == f["data"].journal

RootIn(f, place) == f["data"].root = place

LinkIn(f, name) == IF RootIn(f, "root") THEN f["prefix"][name] ELSE None

TreeIn(f, r) == IF RootIn(f, "root") THEN f["releases"].tree[r] ELSE "absent"

LinksAre(f, c, b) == LinkIn(f, "current") = c /\ LinkIn(f, "rollback") = b

LinksOld(f, j) == LinksAre(f, j.oldCurrent, j.oldRollback)

LinksNew(f, j) == LinksAre(f, j.newCurrent, j.newRollback)

NoNext(f) == f["prefix"].next["current"] = None /\ f["prefix"].next["rollback"] = None

Clean(f) == \A r \in Releases : f["releases"].stage[r] = "absent"

Whole(f, link) == link # None => f["releases"].tree[link] = "whole"

NoBackup(f) == ~f["bin"].backup

\* A managed root with its modes, its marker and no release in pieces.
Managed(f) ==
    /\ RootIn(f, "root")
    /\ f["prefix"].mode = "set" /\ f["releases"].mode = "set"
    /\ f["prefix"].marker /\ ~f["prefix"].markerNext /\ f["prefix"].releases
    /\ \A r \in Releases : f["releases"].tree[r] # "partial"

\* A complete installation.
Installed(f) ==
    /\ Managed(f) /\ NoNext(f) /\ Clean(f)
    /\ Whole(f, f["prefix"].current) /\ Whole(f, f["prefix"].rollback)
    /\ f["prefix"].current # None
    /\ f["bin"].entry /\ ~f["bin"].entryNext /\ NoBackup(f)

\* No installation.
Gone(f) ==
    RootIn(f, "absent") /\ ~f["bin"].entry /\ ~f["bin"].entryNext /\ NoBackup(f)

----------------------------------------------------------------------------
(* Journals.                                                               *)

\* The journals that Journal::install, ::rollback and ::uninstall make.
JournalOK(j) ==
    /\ j \in Journals
    /\ j.op = "install" =>
          /\ j.release \in Releases
          /\ j.newCurrent = j.release /\ j.newRollback = j.oldCurrent
          /\ j.launcher <=> j.oldCurrent # None
          /\ j.oldCurrent = None => j.oldRollback = None
    /\ j.op = "rollback" =>
          /\ j.newCurrent = j.oldRollback /\ j.newRollback = j.oldCurrent
          /\ j.oldCurrent # None /\ j.oldRollback # None /\ j.launcher
    /\ j.op = "uninstall" =>
          /\ j.newCurrent = None /\ j.newRollback = None
          /\ j.oldCurrent # None /\ j.launcher

\* An install whose release has no name yet.
StagingOf(j, f) ==
    /\ j.state # "committed"
    /\ LinksOld(f, j)
    /\ RootIn(f, "absent") \/ RootIn(f, "root")
    /\ ~f["bin"].entryNext /\ NoBackup(f) /\ (f["bin"].entry <=> j.oldCurrent # None)
    /\ j.oldCurrent # None =>
          Managed(f) /\ Whole(f, j.oldCurrent) /\ Whole(f, j.oldRollback)
    /\ RootIn(f, "root") =>
          /\ NoNext(f)
          /\ \A r \in Releases \ {j.release} : f["releases"].stage[r] = "absent"
          /\ j.oldCurrent = None => \A r \in Releases : f["releases"].tree[r] = "absent"

\* Links on their way from the old pair to the new one.
LinkingOf(j, f) ==
    /\ Managed(f) /\ Clean(f) /\ NoBackup(f)
    /\ Whole(f, j.oldCurrent) /\ Whole(f, j.oldRollback)
    /\ Whole(f, j.newCurrent) /\ Whole(f, j.newRollback)
    /\ f["prefix"].current \in {j.oldCurrent, j.newCurrent}
    /\ f["prefix"].rollback \in {j.oldRollback, j.newRollback}
    /\ f["prefix"].next["current"] \in {None, j.newCurrent}
    /\ f["prefix"].next["rollback"] \in {None, j.newRollback}
    /\ j.launcher => f["bin"].entry
    /\ f["bin"].entry => ~f["bin"].entryNext
    /\ j.state = "committed" => LinksNew(f, j) /\ NoNext(f) /\ f["bin"].entry

\* An installation that is taken away: still in place, buried, or gone.
RemovalOf(j, f) ==
    /\ ~f["bin"].entryNext
    /\ \/ /\ Managed(f) /\ NoNext(f) /\ Clean(f)
          /\ LinksOld(f, j) /\ Whole(f, j.oldCurrent) /\ Whole(f, j.oldRollback)
          /\ f["bin"].entry <=> NoBackup(f)
          /\ j.state = "prepared" => f["bin"].entry
          /\ j.state # "committed"
       \/ /\ RootIn(f, "tombstone") /\ j.state = "committing"
          /\ ~f["bin"].entry /\ ~NoBackup(f)
          /\ f["prefix"].mode = "set" /\ f["releases"].mode = "set"
          /\ ~f["prefix"].markerNext /\ NoNext(f) /\ Clean(f)
       \/ /\ RootIn(f, "absent") /\ j.state # "prepared"
          /\ ~f["bin"].entry
          /\ j.state = "committed" => NoBackup(f)

\* The contents that belong to a journal, or to none.
Accepts(j, f) ==
    IF j = None
    THEN Installed(f) \/ Gone(f)
    ELSE /\ JournalOK(j)
         /\ j.op = "install" /\ TreeIn(f, j.release) = "absent" => StagingOf(j, f)
         /\ j.op = "install" /\ TreeIn(f, j.release) # "absent" => LinkingOf(j, f)
         /\ j.op = "rollback" => LinkingOf(j, f)
         /\ j.op = "uninstall" => RemovalOf(j, f)

\* A content that the next command accepts, but for modes and versions.
FileOK(f) ==
    /\ f \in Content
    /\ Accepts(JournalIn(f), f)
    /\ RootIn(f, "absent") => \A r \in Releases : f["releases"].tree[r] = "absent"

\* A transaction that has changed neither link nor launcher, and will go back.
Fresh(j, f) ==
    \/ j.op = "install" /\ TreeIn(f, j.release) = "absent"
    \/ j.op = "uninstall" /\ j.state = "prepared"

\* A transaction whose recovery changes neither link nor launcher.
Ended(j, f) ==
    \/ Fresh(j, f)
    \/ j.op = "uninstall" /\ RootIn(f, "absent")
    \/ j.op # "uninstall" /\ LinksNew(f, j) /\ NoNext(f) /\ f["bin"].entry

Alike(f, g) ==
    /\ LinkIn(f, "current") = LinkIn(g, "current")
    /\ LinkIn(f, "rollback") = LinkIn(g, "rollback")
    /\ f["bin"].entry = g["bin"].entry

\* To fall back from g to f changes neither link nor launcher, now or by recovery.
FallsBack(f, g) ==
    Alike(f, g) /\ (JournalIn(f) # None => Ended(JournalIn(f), f))

\* Two states of the journal of one transaction.
SameTransaction(i, j) ==
    /\ i # None /\ j # None
    /\ i.op = j.op /\ i.release = j.release /\ i.launcher = j.launcher
    /\ i.oldCurrent = j.oldCurrent /\ i.oldRollback = j.oldRollback
    /\ i.newCurrent = j.newCurrent /\ i.newRollback = j.newRollback

----------------------------------------------------------------------------
(* Where a process x with the lock is, when f is the content before it, K  *)
(* what a power loss may leave and told the last report.                   *)

Starting == {"read", "readSync", "pending", "inspect"}

Writing == {"journal", "journalRename", "journalSync"}

Preparing == {"rootMode", "rootSync", "marker", "markerRename", "markerSync", "releases",
              "releasesMode", "releasesSync"}

Extracting == {"stageMode", "stageSync", "stageBin", "stageBinMode", "stageBinSync", "extract",
               "publish"}

Staging == Preparing \cup Extracting \cup {"prepare", "stage", "publishSync"}

LauncherLabels == {"launcherParent", "launcherParentMode", "launcherParentSync", "launcher",
                   "launcherRename", "launcherSync"}

CurrentDone == LauncherLabels \cup {"currentSync"}

RollbackDone == CurrentDone \cup {"current", "currentRename", "rollbackSync"}

Linking == RollbackDone \cup {"validate", "rollback", "rollbackRename"}

RollingBack == {"cleanStage", "cleanReleases", "cleanMarker", "cleanRoot", "cleanRootSync",
                "restored"}

Removing == {"unlink", "unlinkSync", "bury", "burySync", "delete", "deleteSync", "backup",
             "backupSync"}

LocalStart(x, f) ==
    /\ x.at \notin {"read", "journalRename"} => ~f["data"].journalNext
    /\ x.at = "inspect" => JournalIn(f) = None

LocalJournal(x, f, told) ==
    x.at \notin Starting =>
        /\ x.journal # None /\ JournalOK(x.journal)
        /\ ~x.recovering => x.journal.op = x.cmd.op
        /\ ~x.recovering /\ JournalIn(f) # None => told = None
        /\ x.at \notin Writing \cup {"removeSync"} => SameTransaction(x.journal, JournalIn(f))

LocalWrite(x, f) ==
    x.at \in Writing =>
        /\ Accepts(x.journal, f)
        /\ x.recovering => x.journal.state = "committed"
        /\ x.journal.state = "prepared" => Installed(f) \/ Gone(f)
        /\ x.journal.state # "prepared" /\ x.journal.op = "install" =>
              TreeIn(f, x.journal.release) # "absent"
        /\ x.at = "journalSync" => JournalIn(f) = x.journal
        /\ x.at # "journalSync" =>
              IF x.journal.state = "prepared"
              THEN JournalIn(f) = None /\ LinksOld(f, x.journal)
              ELSE SameTransaction(x.journal, JournalIn(f))

LocalStage(x, f, K) ==
    /\ x.at \in Staging =>
          /\ x.journal = JournalIn(f) /\ x.journal.op = "install" /\ ~x.recovering
          /\ \A g \in K : SameTransaction(x.journal, JournalIn(g))
    /\ x.at = "prepare" => Installed(f) \/ Gone(f)
    /\ x.at \in Preparing =>
          /\ RootIn(f, "root") /\ x.journal.oldCurrent = None
          /\ TreeIn(f, x.journal.release) = "absent" /\ Clean(f)
          /\ f["prefix"].markerNext <=> x.at = "markerRename"
          /\ f["prefix"].marker <=>
                x.at \in {"markerSync", "releases", "releasesMode", "releasesSync"}
          /\ x.at # "rootMode" => f["prefix"].mode = "set"
          /\ x.at \in {"releasesMode", "releasesSync"} => f["prefix"].releases
          /\ x.at = "releasesSync" => f["releases"].mode = "set"
    /\ x.at = "stage" => Managed(f) /\ Clean(f)
    /\ x.at \in Extracting => Managed(f) /\ TreeIn(f, x.journal.release) = "absent"
    /\ x.at = "publishSync" => TreeIn(f, x.journal.release) = "whole"

LocalLink(x, f) ==
    /\ x.at \in Linking =>
          x.journal.op # "uninstall" /\ x.journal.state # "committed" /\ LinkingOf(x.journal, f)
    /\ x.at = "rollbackRename" =>
          f["prefix"].next["rollback"] = x.journal.newRollback /\ x.journal.newRollback # None
    /\ x.at \in RollbackDone =>
          f["prefix"].rollback = x.journal.newRollback /\ f["prefix"].next["rollback"] = None
    /\ x.at = "currentRename" => f["prefix"].next["current"] = x.journal.newCurrent
    /\ x.at \in CurrentDone =>
          f["prefix"].current = x.journal.newCurrent /\ f["prefix"].next["current"] = None
    /\ x.at = "launcherRename" => ~f["bin"].entry
    /\ x.at = "launcherSync" => f["bin"].entry

LocalBack(x, f) ==
    /\ x.at \in RollingBack =>
          /\ x.journal.op = "install" /\ x.recovering
          /\ TreeIn(f, x.journal.release) = "absent"
    /\ x.at \in {"cleanReleases", "cleanMarker", "cleanRoot"} =>
          RootIn(f, "root") /\ x.journal.oldCurrent = None /\ Clean(f)
    /\ x.at \in {"cleanMarker", "cleanRoot"} => ~f["prefix"].releases
    /\ x.at = "cleanRoot" => ~f["prefix"].marker /\ ~f["prefix"].markerNext
    /\ x.at = "cleanRootSync" => RootIn(f, "absent")
    /\ x.at = "restored" /\ RootIn(f, "root") => Clean(f) /\ x.journal.oldCurrent # None

LocalRemove(x, f) ==
    /\ x.at \in Removing =>
          /\ x.journal.op = "uninstall" /\ x.journal.state = "committing"
          /\ JournalIn(f).state # "prepared"
    /\ x.at \in Removing \ {"unlink"} => ~f["bin"].entry
    /\ x.at = "burySync" => RootIn(f, "tombstone")
    /\ x.at = "delete" => ~RootIn(f, "root")
    /\ x.at \in {"deleteSync", "backup", "backupSync"} => RootIn(f, "absent")
    /\ x.at = "backupSync" => NoBackup(f)

LocalEnd(x, f, K) ==
    /\ x.at = "remove" => \A g \in K : FallsBack(g, f)
    /\ x.at = "removeSync" => JournalIn(f) = None
    /\ x.at \in {"remove", "removeSync"} =>
          /\ Installed(f) \/ Gone(f)
          /\ LinksOld(f, x.journal) \/ LinksNew(f, x.journal)
          /\ ~x.recovering \/ x.journal.op = "rollback" =>
                LinksNew(f, x.journal) /\ (f["bin"].entry <=> x.journal.op # "uninstall")

Local(x, f, K, told) ==
    /\ LocalStart(x, f) /\ LocalJournal(x, f, told) /\ LocalWrite(x, f)
    /\ LocalStage(x, f, K) /\ LocalLink(x, f) /\ LocalBack(x, f)
    /\ LocalRemove(x, f) /\ LocalEnd(x, f, K)

----------------------------------------------------------------------------
(* The inductive invariant.                                                *)

ProcRecord == [at : Labels, cmd : Commands \cup {None}, journal : Journals \cup {None},
               recovering : BOOLEAN]

ProcTypes ==
    /\ proc \in [Procs -> ProcRecord]
    /\ lock \in Procs \cup {None}
    /\ \A p \in Procs : IF At(p, "idle") THEN proc[p] = Idle
                       ELSE proc[p].cmd # None /\ lock = p

ProcInv == \A p \in Procs : ~At(p, "idle") => Local(proc[p], fs, Kept, report)

FilesInv ==
    /\ images = [m \in Domains |-> Kept]
    /\ fs \in Kept
    /\ \A f \in Kept : FileOK(f)

\* What a power loss may do to the transaction under way.
HistoryInv ==
    \A f \in Kept :
        /\ Journal = None => FallsBack(f, fs)
        /\ Journal # None /\ JournalIn(f) = None => LinksOld(f, Journal)
        /\ Journal # None /\ Fresh(Journal, fs) => FallsBack(f, fs)
        /\ \A r \in Releases :
              f["releases"].tree[r] = "partial" => fs["releases"].tree[r] # "whole"

\* What was reported, but for the uninstall that recovery ended.
Told == report # None /\ ~(report.op = "uninstall" /\ report.recovered)

Reports == [op : {"install", "rollback", "uninstall"}, recovered : BOOLEAN,
            current : Links, rollback : Links]

ReportInv ==
    /\ report \in Reports \cup {None}
    /\ Told => \A f \in Kept :
          /\ LinksAre(f, report.current, report.rollback)
          /\ f["bin"].entry <=> report.op # "uninstall"
          /\ JournalIn(f) # None => Ended(JournalIn(f), f)

IInv == ProcTypes /\ ProcInv /\ FilesInv /\ HistoryInv /\ ReportInv /\ refused = FALSE

----------------------------------------------------------------------------
(* The file system with one metadata journal.                              *)

\* The image of a content in the one domain is the content.
LEMMA ImageIs ==
    ASSUME NEW f \in Content PROVE Image(f, Dirs) = f
BY DEF Content, Image, Dirs

\* A mutation adds its content to what a power loss may leave.
LEMMA WriteFacts ==
    ASSUME OneJournal, NEW f, f \in Content, Write(f)
    PROVE  /\ fs' = f /\ Kept' = Kept \cup {f}
           /\ images' = [m \in Domains |-> Kept']
<1>1. Image(f, Dirs) = f
  BY ImageIs
<1> QED
  BY <1>1 DEF OneJournal, Write, Kept

\* An fsync leaves the current content alone.
LEMMA SyncFacts ==
    ASSUME OneJournal, fs \in Content, NEW ds, ds \subseteq Dirs, ds # {}, Sync(ds)
    PROVE  fs' = fs /\ Kept' = {fs} /\ images' = [m \in Domains |-> Kept']
<1>1. Image(fs, Dirs) = fs
  BY ImageIs
<1>2. ds \cap Dirs # {}
  OBVIOUS
<1> QED
  BY <1>1, <1>2 DEF OneJournal, Sync, Kept

\* A power loss leaves one of these contents.
LEMMA PowerLossFacts ==
    ASSUME OneJournal, FilesInv, PowerLoss
    PROVE  fs' \in Kept /\ Kept' = {fs'} /\ images' = [m \in Domains |-> Kept']
<1>1. \A f \in Kept : f \in Content /\ Image(f, Dirs) = f
  BY ImageIs DEF FilesInv, FileOK
<1>2. fs' \in Kept
  <2> DEFINE pending == {m \in Domains : images[m] # {Image(fs, m)}}
  <2>1. PICK pick \in [pending -> UNION {images[m] : m \in pending}] :
          /\ \A m \in pending : pick[m] \in images[m]
          /\ fs' = [d \in Dirs |->
                      LET m == CHOOSE m \in Domains : d \in m
                      IN  IF m \in pending THEN pick[m][d] ELSE fs[d]]
    BY DEF PowerLoss
  <2>2. \A d \in Dirs : (CHOOSE m \in Domains : d \in m) = Dirs
    BY DEF OneJournal
  <2>3. CASE Dirs \in pending
    <3>1. fs' = [d \in Dirs |-> pick[Dirs][d]]
      BY <2>1, <2>2, <2>3
    <3>2. pick[Dirs] \in Kept
      BY <2>1, <2>3 DEF Kept
    <3> QED
      BY <1>1, <3>1, <3>2 DEF Image
  <2>4. CASE Dirs \notin pending
    <3>1. fs' = [d \in Dirs |-> fs[d]]
      BY <2>1, <2>2, <2>4
    <3>2. fs \in Kept
      BY DEF FilesInv
    <3> QED
      BY <1>1, <3>1, <3>2 DEF Image
  <2> QED
    BY <2>3, <2>4
<1>3. Image(fs', Dirs) = fs'
  BY <1>1, <1>2
<1> QED
  BY <1>2, <1>3 DEF PowerLoss, OneJournal, Kept

----------------------------------------------------------------------------
(* What every kind of step keeps.                                          *)

\* The labels of a step and its process.
LEMMA GotoFacts ==
    ASSUME ProcTypes, NEW p \in Procs, ~At(p, "idle"), NEW l \in Labels, Goto(p, l)
    PROVE  /\ proc' = [proc EXCEPT ![p] = [proc[p] EXCEPT !.at = l]]
           /\ [proc[p] EXCEPT !.at = l] \in ProcRecord
           /\ [proc[p] EXCEPT !.at = l].cmd # None
BY DEF ProcTypes, ProcRecord, At, Goto

\* A process that goes on keeps the others waiting for the lock.
LEMMA MoveKeeps ==
    ASSUME ProcTypes, NEW p \in Procs, ~At(p, "idle"),
           NEW y \in ProcRecord, y.at # "idle", y.cmd # None,
           proc' = [proc EXCEPT ![p] = y], lock' = lock,
           Local(y, fs', Kept', report')
    PROVE  ProcTypes' /\ ProcInv'
<1>1. proc'[p] = y /\ \A q \in Procs \ {p} : proc'[q] = proc[q] /\ proc[q].at = "idle"
  BY DEF ProcTypes, At
<1>2. ProcTypes'
  BY <1>1 DEF ProcTypes, At
<1>3. ASSUME NEW q \in Procs, ~At(q, "idle")'
      PROVE  Local(proc'[q], fs', Kept', report')
  BY <1>1, <1>3 DEF At
<1> QED
  BY <1>2, <1>3 DEF ProcInv

\* A process that ends gives the lock back.
LEMMA ExitKeeps ==
    ASSUME ProcTypes, NEW p \in Procs, ~At(p, "idle"), Exit(p)
    PROVE  ProcTypes' /\ ProcInv'
<1>1. \A q \in Procs : proc'[q] = Idle
  BY DEF ProcTypes, At, Exit
<1>2. proc' \in [Procs -> ProcRecord]
  BY DEF ProcTypes, Exit, Idle, ProcRecord, Labels
<1>3. ProcTypes'
  BY <1>1, <1>2 DEF ProcTypes, At, Exit, Idle
<1>4. ProcInv'
  BY <1>1 DEF ProcInv, At, Idle
<1> QED
  BY <1>3, <1>4

\* One content falls back on itself.
LEMMA FallsBackOnItself ==
    ASSUME NEW f, JournalIn(f) # None => Ended(JournalIn(f), f)
    PROVE  FallsBack(f, f)
BY DEF FallsBack, Alike

\* A content that is the only one.
LEMMA HistoryOfOne ==
    ASSUME NEW f, FileOK(f), fs' = f, Kept' = {f}
    PROVE  HistoryInv'
BY FallsBackOnItself DEF HistoryInv, JournalIn, Journal, Ended

\* A step that leaves all directories alone.
LEMMA StayKeeps ==
    ASSUME IInv, NEW p \in Procs, ~At(p, "idle"),
           NEW y \in ProcRecord, y.at # "idle", y.cmd # None,
           proc' = [proc EXCEPT ![p] = y],
           UNCHANGED <<fs, images, lock, refused, report>>,
           Local(y, fs, Kept, report)
    PROVE  IInv'
<1>1. UNCHANGED Kept
  BY DEF Kept
<1>2. ProcTypes' /\ ProcInv'
  BY <1>1, MoveKeeps DEF IInv
<1> QED
  BY <1>1, <1>2 DEF IInv, FilesInv, HistoryInv, ReportInv, Told, Journal

\* An fsync.
LEMMA SyncKeeps ==
    ASSUME OneJournal, IInv, NEW p \in Procs, ~At(p, "idle"),
           NEW y \in ProcRecord, y.at # "idle", y.cmd # None,
           proc' = [proc EXCEPT ![p] = y],
           NEW ds, ds \subseteq Dirs, ds # {}, Sync(ds), UNCHANGED <<lock, refused, report>>,
           Local(y, fs, {fs}, report)
    PROVE  IInv'
<1>1. fs \in Kept /\ FileOK(fs) /\ fs \in Content
  BY DEF IInv, FilesInv, FileOK
<1>2. fs' = fs /\ Kept' = {fs} /\ images' = [m \in Domains |-> Kept']
  BY <1>1, SyncFacts
<1>3. ProcTypes' /\ ProcInv'
  BY <1>2, MoveKeeps DEF IInv
<1>4. FilesInv' /\ HistoryInv'
  BY <1>1, <1>2, HistoryOfOne DEF FilesInv
<1>5. ReportInv'
  BY <1>1, <1>2 DEF IInv, ReportInv, Told
<1> QED
  BY <1>3, <1>4, <1>5 DEF IInv

\* The content g continues the transaction of journal j where f was.
Continues(f, g, j, told) ==
    /\ JournalIn(g) = j /\ FileOK(g)
    /\ Fresh(j, g) => Fresh(j, f) /\ Alike(g, f)
    /\ told = None \/ (Ended(j, f) => Ended(j, g) /\ Alike(g, f))

\* A mutation within a transaction.
LEMMA MutateKeeps ==
    ASSUME OneJournal, IInv, NEW p \in Procs, ~At(p, "idle"),
           NEW l \in Labels, l # "idle", NEW g, Mutate(p, g, l),
           Journal # None, Continues(fs, g, Journal, report),
           \A f \in Kept \cup {g}, r \in Releases :
              f["releases"].tree[r] = "partial" => g["releases"].tree[r] # "whole",
           Local([proc[p] EXCEPT !.at = l], g, Kept \cup {g}, report)
    PROVE  IInv'
<1> DEFINE y == [proc[p] EXCEPT !.at = l]
<1>1. FileOK(g) /\ g \in Content /\ JournalIn(g) = Journal
  BY DEF Continues, FileOK
<1>2. fs' = g /\ Kept' = Kept \cup {g} /\ images' = [m \in Domains |-> Kept']
  BY <1>1, WriteFacts DEF Mutate
<1>3. ProcTypes' /\ ProcInv'
  <2>1. y \in ProcRecord /\ y.at # "idle" /\ y.cmd # None /\ proc' = [proc EXCEPT ![p] = y]
    BY GotoFacts DEF Mutate, IInv, ProcTypes, ProcRecord
  <2>2. Local(y, fs', Kept', report')
    BY <1>2 DEF Mutate
  <2> HIDE DEF y
  <2> QED
    BY <2>1, <2>2, MoveKeeps DEF Mutate, IInv
<1>4. FilesInv'
  BY <1>1, <1>2 DEF FilesInv, IInv
<1>5. HistoryInv'
  <2>1. Journal' = Journal
    BY <1>1, <1>2 DEF Journal, JournalIn
  <2>2. ASSUME NEW f \in Kept PROVE /\ JournalIn(f) = None => LinksOld(f, Journal)
                                    /\ Fresh(Journal, g) => FallsBack(f, g)
    BY <1>1 DEF IInv, HistoryInv, Continues, FallsBack, Alike
  <2>3. Fresh(Journal, g) => FallsBack(g, g)
    BY <1>1 DEF FallsBack, Alike, Ended
  <2> QED
    BY <1>1, <1>2, <2>1, <2>2, <2>3 DEF HistoryInv
<1>6. ReportInv'
  <2>1. report' = report /\ fs \in Kept
    BY DEF Mutate, IInv, FilesInv
  <2>2. ASSUME Told PROVE /\ LinksAre(g, report.current, report.rollback)
                          /\ g["bin"].entry <=> report.op # "uninstall"
                          /\ Ended(Journal, g)
    BY <2>1, <2>2 DEF IInv, ReportInv, Told, Continues, Alike, LinksAre, Journal, JournalIn
  <2> QED
    BY <1>1, <1>2, <2>1, <2>2 DEF IInv, ReportInv, Told
<1> QED
  BY <1>3, <1>4, <1>5, <1>6 DEF IInv, Mutate

\* The end of a command: nothing on file changes.
LEMMA DeclineKeeps ==
    ASSUME IInv, NEW p \in Procs, ~At(p, "idle"), Exit(p), UNCHANGED <<fs, images, refused, report>>
    PROVE  IInv'
<1>1. UNCHANGED Kept
  BY DEF Kept
<1>2. ProcTypes' /\ ProcInv'
  BY ExitKeeps DEF IInv
<1> QED
  BY <1>1, <1>2 DEF IInv, FilesInv, HistoryInv, ReportInv, Told, Journal

\* A refusal that the version or a directory left open explains.
LEMMA RefuseKeeps ==
    ASSUME IInv, NEW p \in Procs, ~At(p, "idle"), Refuse(p), LeftOpen \/ ~OnlyOwn(p)
    PROVE  IInv'
<1>1. refused' = refused /\ Exit(p) /\ UNCHANGED <<fs, images, report>>
  BY DEF Refuse, Refuses, IInv
<1> QED
  BY <1>1, DeclineKeeps


\* A root without entries, and no releases.
LEMMA EmptyContents ==
    /\ EmptyPrefix \in [mode : Modes, marker : BOOLEAN, markerNext : BOOLEAN, releases : BOOLEAN,
                       current : Links, rollback : Links,
                       next : [{"current", "rollback"} -> Links]]
    /\ EmptyReleases \in [mode : Modes, tree : [Releases -> Tree], stage : [Releases -> StageTree]]
    /\ \A r \in Releases : EmptyReleases.tree[r] = "absent"
BY DEF EmptyPrefix, EmptyReleases, Links, Tree, StageTree, Modes

\* A root without any entry is bare, whatever its mode.
LEMMA BareIs ==
    ASSUME NEW f \in Content, NoNext(f), f["prefix"].current = None,
           f["prefix"].rollback = None, ~f["prefix"].releases, ~f["prefix"].marker,
           ~f["prefix"].markerNext
    PROVE  Bare(f["prefix"])
<1> DEFINE next == [n \in {"current", "rollback"} |-> None]
           top == f["prefix"]
           mode == top.mode
<1>1. top.next = next
  BY DEF Content, NoNext
<1>2. top = [mode |-> top.mode, marker |-> top.marker, markerNext |-> top.markerNext,
             releases |-> top.releases, current |-> top.current,
             rollback |-> top.rollback, next |-> top.next]
  BY DEF Content
<1>3. top.marker = FALSE /\ top.markerNext = FALSE /\ top.releases = FALSE
  BY DEF Content
<1>4. top = [mode |-> mode, marker |-> FALSE, markerNext |-> FALSE, releases |-> FALSE,
             current |-> None, rollback |-> None, next |-> next]
  BY <1>1, <1>2, <1>3
<1>5. [EmptyPrefix EXCEPT !.mode = mode] =
         [mode |-> mode, marker |-> EmptyPrefix.marker, markerNext |-> EmptyPrefix.markerNext,
          releases |-> EmptyPrefix.releases, current |-> EmptyPrefix.current,
          rollback |-> EmptyPrefix.rollback, next |-> EmptyPrefix.next]
  <2> HIDE DEF mode
  <2> QED
    BY EmptyContents
<1>6. /\ EmptyPrefix.marker = FALSE /\ EmptyPrefix.markerNext = FALSE
      /\ EmptyPrefix.releases = FALSE /\ EmptyPrefix.current = None
      /\ EmptyPrefix.rollback = None /\ EmptyPrefix.next = next
  BY DEF EmptyPrefix
<1> HIDE DEF next, mode
<1>7. top = [EmptyPrefix EXCEPT !.mode = mode]
  BY <1>4, <1>5, <1>6
<1> QED
  BY <1>7 DEF Bare, mode

\* At each place only its own part of Local says something.
LEMMA LocalParts ==
    ASSUME NEW x, NEW f, NEW K, NEW told
    PROVE  /\ x.at \in Starting /\ LocalStart(x, f) => Local(x, f, K, told)
           /\ x.at \notin {"read", "readSync", "pending", "inspect", "journalRename"}
              /\ ~f["data"].journalNext /\ LocalJournal(x, f, told) =>
                 /\ x.at \in Staging /\ LocalStage(x, f, K) => Local(x, f, K, told)
                 /\ x.at \in Linking /\ LocalLink(x, f) => Local(x, f, K, told)
                 /\ x.at \in RollingBack /\ LocalBack(x, f) => Local(x, f, K, told)
                 /\ x.at \in Removing /\ LocalRemove(x, f) => Local(x, f, K, told)
                 /\ x.at \in {"remove", "removeSync"} /\ LocalEnd(x, f, K) =>
                       Local(x, f, K, told)
           /\ x.at \in Writing /\ LocalStart(x, f) /\ LocalJournal(x, f, told)
              /\ LocalWrite(x, f) => Local(x, f, K, told)
<1> USE DEF Local, LocalStart
<1>1. x.at \in Starting => /\ LocalJournal(x, f, told) /\ LocalWrite(x, f)
                           /\ LocalStage(x, f, K) /\ LocalLink(x, f) /\ LocalBack(x, f)
                           /\ LocalRemove(x, f) /\ LocalEnd(x, f, K)
  BY DEF Starting, LocalJournal, LocalWrite, LocalStage, LocalLink, LocalBack, LocalRemove,
     LocalEnd, Writing, Staging, Preparing, Extracting, Linking, RollbackDone, CurrentDone,
     LauncherLabels, RollingBack, Removing
<1>2. x.at \notin Writing => LocalWrite(x, f)
  BY DEF LocalWrite
<1>3. x.at \notin Staging => LocalStage(x, f, K)
  BY DEF LocalStage, Staging, Preparing, Extracting
<1>4. x.at \notin Linking => LocalLink(x, f)
  BY DEF LocalLink, Linking, RollbackDone, CurrentDone, LauncherLabels
<1>5. x.at \notin RollingBack => LocalBack(x, f)
  BY DEF LocalBack, RollingBack
<1>6. x.at \notin Removing => LocalRemove(x, f)
  BY DEF LocalRemove, Removing
<1>7. x.at \notin {"remove", "removeSync"} => LocalEnd(x, f, K)
  BY DEF LocalEnd
<1>8. /\ x.at \in Writing => x.at \notin Staging \cup Linking \cup RollingBack \cup Removing
                                          \cup {"remove", "removeSync"}
      /\ x.at \in Staging => x.at \notin Writing \cup Linking \cup RollingBack \cup Removing
                                          \cup {"remove", "removeSync"}
      /\ x.at \in Linking => x.at \notin Writing \cup Staging \cup RollingBack \cup Removing
                                          \cup {"remove", "removeSync"}
      /\ x.at \in RollingBack => x.at \notin Writing \cup Staging \cup Linking \cup Removing
                                          \cup {"remove", "removeSync"}
      /\ x.at \in Removing => x.at \notin Writing \cup Staging \cup Linking \cup RollingBack
                                          \cup {"remove", "removeSync"}
      /\ x.at \in {"remove", "removeSync"} =>
            x.at \notin Writing \cup Staging \cup Linking \cup RollingBack \cup Removing
  BY DEF Writing, Staging, Preparing, Extracting, Linking, RollbackDone, CurrentDone,
     LauncherLabels, RollingBack, Removing
<1>9. x.at \notin {"read", "readSync", "pending", "inspect", "journalRename"}
      /\ ~f["data"].journalNext => LocalStart(x, f)
  OBVIOUS
<1> HIDE DEF LocalStart
<1> QED
  BY <1>1, <1>2, <1>3, <1>4, <1>5, <1>6, <1>7, <1>8, <1>9

\* What two contents with the same installation have in common.
LEMMA SameContents ==
    ASSUME NEW f, NEW g, NEW j,
           g["data"].root = f["data"].root, g["prefix"] = f["prefix"],
           g["releases"] = f["releases"], g["bin"] = f["bin"]
    PROVE  /\ Accepts(j, g) <=> Accepts(j, f)
           /\ Fresh(j, g) <=> Fresh(j, f)
           /\ Ended(j, g) <=> Ended(j, f)
           /\ LinksOld(g, j) <=> LinksOld(f, j)
           /\ LinksNew(g, j) <=> LinksNew(f, j)
           /\ Installed(g) <=> Installed(f)
           /\ Gone(g) <=> Gone(f)
           /\ Alike(g, f) /\ Alike(f, g)
<1>1. /\ \A place : RootIn(g, place) <=> RootIn(f, place)
      /\ \A name : LinkIn(g, name) = LinkIn(f, name)
      /\ \A r : TreeIn(g, r) = TreeIn(f, r)
      /\ \A link : Whole(g, link) <=> Whole(f, link)
      /\ NoNext(g) <=> NoNext(f)
      /\ Clean(g) <=> Clean(f)
      /\ NoBackup(g) <=> NoBackup(f)
      /\ Managed(g) <=> Managed(f)
  BY DEF RootIn, LinkIn, TreeIn, Whole, NoNext, Clean, NoBackup, Managed
<1>2. (LinksOld(g, j) <=> LinksOld(f, j)) /\ (LinksNew(g, j) <=> LinksNew(f, j))
  BY <1>1 DEF LinksOld, LinksNew, LinksAre
<1>3. (Installed(g) <=> Installed(f)) /\ (Gone(g) <=> Gone(f))
  BY <1>1 DEF Installed, Gone
<1>4. StagingOf(j, g) <=> StagingOf(j, f)
  BY <1>1, <1>2 DEF StagingOf
<1>5. LinkingOf(j, g) <=> LinkingOf(j, f)
  BY <1>1, <1>2 DEF LinkingOf
<1>6. RemovalOf(j, g) <=> RemovalOf(j, f)
  BY <1>1, <1>2 DEF RemovalOf
<1>7. (Fresh(j, g) <=> Fresh(j, f)) /\ (Ended(j, g) <=> Ended(j, f))
  BY <1>1, <1>2 DEF Fresh, Ended
<1> QED
  BY <1>1, <1>2, <1>3, <1>4, <1>5, <1>6, <1>7 DEF Accepts, Alike

\* The staging file of the journal comes or goes.
LEMMA JournalNextKeeps ==
    ASSUME OneJournal, IInv, NEW p \in Procs, ~At(p, "idle"), NEW b \in BOOLEAN,
           NEW l \in Labels, l # "idle",
           NEW g, g = With("data", [fs["data"] EXCEPT !.journalNext = b]), Mutate(p, g, l),
           Local([proc[p] EXCEPT !.at = l], g, Kept \cup {g}, report)
    PROVE  IInv'
<1> DEFINE y == [proc[p] EXCEPT !.at = l]
<1>1. fs \in Kept /\ FileOK(fs) /\ fs \in Content
  BY DEF IInv, FilesInv, FileOK
<1>2. /\ g \in Content /\ JournalIn(g) = Journal /\ g["data"].root = fs["data"].root
      /\ g["prefix"] = fs["prefix"] /\ g["releases"] = fs["releases"] /\ g["bin"] = fs["bin"]
  BY <1>1 DEF With, Content, JournalIn, Journal
<1>3. FileOK(g)
  BY <1>1, <1>2, SameContents DEF FileOK, RootIn, JournalIn, Journal
<1>4. fs' = g /\ Kept' = Kept \cup {g} /\ images' = [m \in Domains |-> Kept']
  BY <1>2, WriteFacts DEF Mutate
<1>5. ProcTypes' /\ ProcInv'
  <2>1. y \in ProcRecord /\ y.at # "idle" /\ y.cmd # None /\ proc' = [proc EXCEPT ![p] = y]
    BY GotoFacts DEF Mutate, IInv, ProcTypes, ProcRecord
  <2>2. Local(y, fs', Kept', report')
    BY <1>4 DEF Mutate
  <2> HIDE DEF y
  <2> QED
    BY <2>1, <2>2, MoveKeeps DEF Mutate, IInv
<1>6. FilesInv'
  BY <1>3, <1>4 DEF FilesInv, IInv
<1>7. \A f : Alike(f, fs) => Alike(f, g)
  BY <1>2, SameContents DEF Alike
<1>8. Fresh(Journal, fs) <=> Fresh(Journal, g)
  BY <1>2, SameContents
<1>9. HistoryInv'
  <2>1. Journal' = Journal
    BY <1>2, <1>4 DEF Journal, JournalIn
  <2>2. ASSUME Journal = None \/ Fresh(Journal, fs) PROVE FallsBack(g, g)
    BY <1>2, <1>8, <2>2 DEF FallsBack, Alike, Ended
  <2>3. \A f \in Kept : FallsBack(f, fs) => FallsBack(f, g)
    BY <1>7 DEF FallsBack
  <2>4. \A r \in Releases : ~(/\ g["releases"].tree[r] = "partial"
                              /\ g["releases"].tree[r] = "whole")
    OBVIOUS
  <2> QED
    BY <1>2, <1>4, <1>8, <2>1, <2>2, <2>3, <2>4 DEF IInv, HistoryInv
<1>10. ReportInv'
  <2>1. report' = report
    BY DEF Mutate
  <2>2. ASSUME Told PROVE /\ LinksAre(g, report.current, report.rollback)
                          /\ g["bin"].entry <=> report.op # "uninstall"
                          /\ JournalIn(g) # None => Ended(JournalIn(g), g)
    BY <1>1, <1>2, <2>2, SameContents DEF IInv, ReportInv, Alike, LinksAre, JournalIn, Journal
  <2> QED
    BY <1>4, <2>1, <2>2 DEF IInv, ReportInv, Told
<1> QED
  BY <1>5, <1>6, <1>9, <1>10 DEF IInv, Mutate

----------------------------------------------------------------------------
(* The actions.                                                            *)

\* A process that decides keeps its place among the labels.
LEMMA DecideKeeps ==
    ASSUME IInv, NEW p \in Procs, ~At(p, "idle"), NEW l \in Labels, l # "idle", Decide(p, l),
           Local([proc[p] EXCEPT !.at = l], fs, Kept, report)
    PROVE  IInv'
<1> DEFINE y == [proc[p] EXCEPT !.at = l]
<1>1. y \in ProcRecord /\ y.at # "idle" /\ y.cmd # None /\ proc' = [proc EXCEPT ![p] = y]
  BY GotoFacts DEF Decide, IInv, ProcTypes, ProcRecord
<1>2. Local(y, fs, Kept, report)
  OBVIOUS
<1> HIDE DEF y
<1> QED
  BY <1>1, <1>2, StayKeeps DEF Decide

\* A process that waits for an fsync.
LEMMA SyncThenKeeps ==
    ASSUME OneJournal, IInv, NEW p \in Procs, ~At(p, "idle"), NEW l \in Labels, l # "idle",
           NEW ds, ds \subseteq Dirs, ds # {}, SyncThen(p, ds, l),
           Local([proc[p] EXCEPT !.at = l], fs, {fs}, report)
    PROVE  IInv'
<1> DEFINE y == [proc[p] EXCEPT !.at = l]
<1>1. y \in ProcRecord /\ y.at # "idle" /\ y.cmd # None /\ proc' = [proc EXCEPT ![p] = y]
  BY GotoFacts DEF SyncThen, IInv, ProcTypes, ProcRecord
<1>2. Local(y, fs, {fs}, report)
  OBVIOUS
<1> HIDE DEF y
<1> QED
  BY <1>1, <1>2, SyncKeeps DEF SyncThen

\* acquire.
LEMMA AcquireKeeps ==
    ASSUME IInv, NEW p \in Procs, Acquire(p) PROVE IInv'
<1>1. PICK c \in Commands : proc' = [proc EXCEPT ![p] = [Idle EXCEPT !.at = "read", !.cmd = c]]
  BY DEF Acquire
<1> DEFINE y == [Idle EXCEPT !.at = "read", !.cmd = c]
<1>2. y.at = "read" /\ y.cmd = c /\ y \in ProcRecord
  BY DEF Idle, ProcRecord, Labels
<1>3. Local(y, fs, Kept, report)
  BY <1>2, LocalParts DEF Starting, LocalStart
<1> HIDE DEF y
<1>4. /\ At(p, "idle") /\ lock = None /\ lock' = p
      /\ UNCHANGED <<fs, images, refused, report>> /\ UNCHANGED Kept
  BY DEF Acquire, Kept
<1>5. \A q \in Procs : proc[q].at = "idle"
  BY <1>4, ProcsAssumption DEF IInv, ProcTypes, At
<1>6. proc'[p] = y /\ \A q \in Procs \ {p} : proc'[q] = proc[q]
  BY <1>1 DEF IInv, ProcTypes, y
<1>7. c # None
  BY NoneAssumption
<1>8. ProcTypes'
  BY <1>1, <1>2, <1>4, <1>5, <1>6, <1>7 DEF IInv, ProcTypes, At, y
<1>9. ProcInv'
  BY <1>3, <1>4, <1>5, <1>6 DEF ProcInv, At
<1> QED
  BY <1>4, <1>8, <1>9 DEF IInv, FilesInv, HistoryInv, ReportInv, Told, Journal

\* read_journal.
LEMMA ReadJournalKeeps ==
    ASSUME OneJournal, IInv, NEW p \in Procs, ReadJournal(p) PROVE IInv'
<1> DEFINE x == proc[p]
<1>1. ~At(p, "idle") /\ fs \in Content /\ Local(x, fs, Kept, report)
  BY DEF ReadJournal, At, IInv, ProcInv, FilesInv, FileOK
<1>2. CASE At(p, "read") /\ fs["data"].journalNext
  <2> DEFINE g == With("data", [fs["data"] EXCEPT !.journalNext = FALSE])
  <2>1. Mutate(p, g, "readSync")
    BY <1>2 DEF ReadJournal, At
  <2>2. ~g["data"].journalNext
    BY <1>1 DEF With, Content
  <2>3. Local([x EXCEPT !.at = "readSync"], g, Kept \cup {g}, report)
    <3> HIDE DEF g
    <3>1. [x EXCEPT !.at = "readSync"].at = "readSync"
      BY DEF IInv, ProcTypes, ProcRecord
    <3> QED
      BY <2>2, <3>1, LocalParts DEF Starting, LocalStart
  <2>4. "readSync" \in Labels
    BY DEF Labels
  <2> QED
    BY <1>1, <2>1, <2>3, <2>4, JournalNextKeeps
<1>3. CASE At(p, "read") /\ ~fs["data"].journalNext
  <2>1. Decide(p, "pending")
    BY <1>3 DEF ReadJournal, At
  <2>2. Local([x EXCEPT !.at = "pending"], fs, Kept, report)
    <3>1. [x EXCEPT !.at = "pending"].at = "pending"
      BY DEF IInv, ProcTypes, ProcRecord
    <3> QED
      BY <1>3, <3>1, LocalParts DEF Starting, LocalStart
  <2> QED
    BY <1>1, <2>1, <2>2, DecideKeeps DEF Labels
<1>4. CASE At(p, "readSync")
  <2>1. SyncThen(p, {"data"}, "pending")
    BY <1>4 DEF ReadJournal, At
  <2>2. Local([x EXCEPT !.at = "pending"], fs, {fs}, report)
    <3>1. [x EXCEPT !.at = "pending"].at = "pending"
      BY DEF IInv, ProcTypes, ProcRecord
    <3>2. ~fs["data"].journalNext
      BY <1>1, <1>4 DEF At, Local, LocalStart
    <3> QED
      BY <3>1, <3>2, LocalParts DEF Starting, LocalStart
  <2> QED
    BY <1>1, <2>1, <2>2, SyncThenKeeps DEF Labels, Dirs
<1> QED
  BY <1>2, <1>3, <1>4 DEF ReadJournal


\* A step to a place keeps the rest of its process.
LEMMA StepTo ==
    ASSUME IInv, NEW p \in Procs, NEW l
    PROVE  /\ [proc[p] EXCEPT !.at = l].at = l
           /\ [proc[p] EXCEPT !.at = l].cmd = proc[p].cmd
           /\ [proc[p] EXCEPT !.at = l].journal = proc[p].journal
           /\ [proc[p] EXCEPT !.at = l].recovering = proc[p].recovering
BY DEF IInv, ProcTypes, ProcRecord

\* The state of a journal is no part of what it is about.
LEMMA InState ==
    ASSUME NEW j, JournalOK(j), NEW s \in {"prepared", "committing", "committed"}
    PROVE  /\ JournalOK([j EXCEPT !.state = s])
           /\ [j EXCEPT !.state = s] \in Journals
           /\ [j EXCEPT !.state = s].state = s
           /\ j # None /\ [j EXCEPT !.state = s] # None
           /\ SameTransaction([j EXCEPT !.state = s], j)
<1>1. j # None /\ [j EXCEPT !.state = s] \in Journals
  BY NoneAssumption DEF JournalOK, Journals
<1>2. [j EXCEPT !.state = s] # None
  BY <1>1, NoneAssumption
<1> QED
  BY <1>1, <1>2 DEF JournalOK, Journals, SameTransaction

\* Recovery accepts the content it finds, if the releases are of its version.
LEMMA RecoverableHolds ==
    ASSUME FileOK(fs), Journal # None, NEW p \in Procs, OnlyOwn(p)
    PROVE  Recoverable(p, Journal)
<1> DEFINE j == Journal
<1>1. JournalOK(j) /\ JournalIn(fs) = j /\ Accepts(j, fs)
  BY DEF FileOK, JournalIn, Journal, Accepts
<1>2. ASSUME NEW i, JournalOK(i), LinkingOf(i, fs)
      PROVE  /\ TransitionLinks(i) /\ RootAt("root")
             /\ i.release # None => TreeAt(i.release) # "partial"
  BY <1>2 DEF LinkingOf, Managed, RootIn, RootAt, TransitionLinks, Link, TreeAt, JournalOK,
     Journals,
     Links
<1>3. ASSUME NEW i, LinksOld(fs, i)
      PROVE  TransitionLinks(i)
  BY <1>3 DEF LinksOld, LinksAre, LinkIn, RootIn, RootAt, TransitionLinks, Link
<1>4. \A r : TreeAt(r) = TreeIn(fs, r)
  BY DEF TreeAt, TreeIn, RootAt, RootIn
<1>5. j.op \in {"install", "rollback", "uninstall"}
  BY <1>1 DEF JournalOK, Journals
<1>6. CASE j.op = "install"
  <2>1. CASE TreeIn(fs, j.release) = "absent"
    BY <1>1, <1>3, <1>4, <1>6, <2>1 DEF Accepts, StagingOf, Recoverable
  <2>2. CASE TreeIn(fs, j.release) # "absent"
    <3>1. LinkingOf(j, fs) /\ j.release # None /\ j.release \in Releases
      BY <1>1, <1>6, <2>2, ReleasesAssumption DEF Accepts, JournalOK
    <3>2. TransitionLinks(j) /\ TreeAt(j.release) # "partial" /\ RootAt("root")
      BY <1>1, <1>2, <3>1
    <3>3. TreeAt(j.release) = fs["releases"].tree[j.release]
      BY <3>2 DEF TreeAt
    <3>4. TreeAt(j.release) = "whole"
      BY <1>4, <2>2, <3>1, <3>2, <3>3 DEF FileOK, Content, Tree
    <3>5. Own(p, j.release)
      BY <3>1, <3>3, <3>4 DEF OnlyOwn
    <3> QED
      BY <1>6, <3>2, <3>4, <3>5 DEF Recoverable
  <2> QED
    BY <2>1, <2>2
<1>7. CASE j.op = "rollback"
  BY <1>1, <1>2, <1>7 DEF Accepts, Recoverable
<1>8. CASE j.op = "uninstall"
  <2>1. RemovalOf(j, fs) /\ j.newCurrent = None /\ j.newRollback = None /\ j.oldCurrent # None
    BY <1>1, <1>8 DEF Accepts, JournalOK
  <2>2. CASE /\ Managed(fs) /\ NoNext(fs) /\ Clean(fs)
             /\ LinksOld(fs, j) /\ Whole(fs, j.oldCurrent) /\ Whole(fs, j.oldRollback)
             /\ j.state = "prepared" => fs["bin"].entry
    <3>1. TransitionLinks(j) /\ RootAt("root")
      BY <1>3, <2>2 DEF Managed, RootIn, RootAt
    <3>2. fs["prefix"].current = j.oldCurrent /\ fs["prefix"].rollback = j.oldRollback
      BY <2>2, <3>1 DEF LinksOld, LinksAre, LinkIn, RootIn, RootAt
    <3>3. PrefixValid
      BY <2>2, <3>2 DEF PrefixValid, Managed, NoNext, Clean, Whole
    <3> QED
      BY <1>8, <2>1, <2>2, <3>1, <3>2, <3>3 DEF Recoverable, InstallValid
  <2>3. CASE ~RootIn(fs, "root") /\ j.state # "prepared"
    BY <1>8, <2>1, <2>3 DEF Recoverable, TransitionLinks, Link, RootIn, RootAt
  <2> QED
    BY <2>1, <2>2, <2>3 DEF RemovalOf, RootIn
<1> QED
  BY <1>5, <1>6, <1>7, <1>8

\* With its journal committing, links are judged no more strictly.
LEMMA LinkingLater ==
    ASSUME NEW f, NEW i, NEW j, LinkingOf(j, f), SameTransaction(i, j),
           i.state = "committed" => LinksNew(f, i) /\ NoNext(f) /\ f["bin"].entry
    PROVE  LinkingOf(i, f)
BY DEF LinkingOf, SameTransaction

\* recover_pending.
LEMMA RecoverPendingKeeps ==
    ASSUME IInv, NEW p \in Procs, RecoverPending(p) PROVE IInv'
<1> DEFINE x == proc[p]
<1>1. ~At(p, "idle") /\ fs \in Content /\ FileOK(fs) /\ Local(x, fs, Kept, report)
  BY DEF RecoverPending, At, IInv, ProcInv, FilesInv, FileOK
<1>2. x.at = "pending" /\ x \in ProcRecord
  BY DEF RecoverPending, At, IInv, ProcTypes
<1>3. ~fs["data"].journalNext
  BY <1>1, <1>2 DEF Local, LocalStart
<1>4. CASE Journal = None
  <2>1. Decide(p, "inspect")
    BY <1>4 DEF RecoverPending
  <2>2. Local([x EXCEPT !.at = "inspect"], fs, Kept, report)
    BY <1>3, <1>4, StepTo, LocalParts DEF Starting, LocalStart, JournalIn, Journal
  <2> QED
    BY <1>1, <2>1, <2>2, DecideKeeps DEF Labels
<1>5. CASE Journal # None
  <2> DEFINE j == Journal
             i == [j EXCEPT !.state = "committing"]
             y == [x EXCEPT !.at = RecoveryOf(j), !.recovering = TRUE, !.journal = i]
  <2>1. JournalOK(j) /\ JournalIn(fs) = j /\ Accepts(j, fs)
    BY <1>1, <1>5 DEF FileOK, JournalIn, Journal, Accepts
  <2>a. CASE ~Recoverable(p, j)
    <3>1. Refuse(p) /\ ~OnlyOwn(p)
      BY <1>1, <1>5, <2>a, RecoverableHolds DEF RecoverPending
    <3> QED
      BY <1>1, <3>1, RefuseKeeps
  <2>2. SUFFICES ASSUME Recoverable(p, j) PROVE IInv'
    BY <2>a
  <2>3. proc' = [proc EXCEPT ![p] = y] /\ UNCHANGED <<fs, images, lock, refused, report>>
    BY <1>5, <2>2 DEF RecoverPending, IInv, ProcTypes, ProcRecord
  <2>4. /\ JournalOK(i) /\ SameTransaction(i, j) /\ i.state = "committing"
        /\ i \in Journals /\ i # None
    BY <2>1, InState
  <2>5. /\ y.at = RecoveryOf(j) /\ y.journal = i /\ y.recovering = TRUE /\ y.cmd = x.cmd
        /\ y.cmd # None
    BY <1>1 DEF IInv, ProcTypes, ProcRecord
  <2>6. /\ RecoveryOf(j) \in {"cleanStage", "validate", "remove", "unlink"}
        /\ RecoveryOf(j) = "cleanStage" => j.op = "install" /\ TreeIn(fs, j.release) = "absent"
        /\ RecoveryOf(j) = "validate" => \/ j.op = "install" /\ TreeIn(fs, j.release) # "absent"
                                         \/ j.op = "rollback"
        /\ RecoveryOf(j) = "remove" => j.op = "uninstall" /\ j.state = "prepared"
        /\ RecoveryOf(j) = "unlink" => j.op = "uninstall" /\ j.state # "prepared"
    <3>1. TreeAt(j.release) = TreeIn(fs, j.release)
      BY DEF TreeAt, TreeIn, RootAt, RootIn
    <3>2. j.op \in {"install", "rollback", "uninstall"}
      BY <2>1 DEF JournalOK, Journals
    <3> QED
      BY <3>1, <3>2 DEF RecoveryOf
  <2>7. y \in ProcRecord /\ y.at # "idle"
    <3>1. RecoveryOf(j) \in Labels /\ RecoveryOf(j) # "idle"
      BY <2>6 DEF Labels
    <3> HIDE DEF i
    <3> QED
      BY <1>2, <2>4, <2>5, <3>1 DEF ProcRecord
  <2> HIDE DEF y, i
  <2>8. LocalJournal(y, fs, report)
    BY <2>1, <2>4, <2>5 DEF LocalJournal
  <2>9. Local(y, fs, Kept, report)
    <3>1. CASE RecoveryOf(j) = "cleanStage"
      <4>1. LocalBack(y, fs)
        BY <2>4, <2>5, <2>6, <3>1 DEF LocalBack, RollingBack, SameTransaction
      <4> QED
        BY <1>3, <2>5, <2>8, <3>1, <4>1, LocalParts DEF RollingBack
    <3>2. CASE RecoveryOf(j) = "validate"
      <4>1. LinkingOf(i, fs)
        BY <1>5, <2>1, <2>4, <2>6, <3>2, LinkingLater DEF Accepts
      <4>2. LocalLink(y, fs)
        BY <2>4, <2>5, <2>6, <3>2, <4>1 DEF LocalLink, RollbackDone, CurrentDone, LauncherLabels,
           SameTransaction
      <4> QED
        BY <1>3, <2>5, <2>8, <3>2, <4>2, LocalParts DEF Linking
    <3>3. CASE RecoveryOf(j) = "remove"
      <4>1. \A g \in Kept : FallsBack(g, fs)
        BY <1>5, <2>6, <3>3 DEF IInv, HistoryInv, Fresh
      <4>2. RemovalOf(j, fs)
        BY <1>5, <2>1, <2>6, <3>3 DEF Accepts
      <4>3. /\ Managed(fs) /\ NoNext(fs) /\ Clean(fs) /\ LinksOld(fs, j) /\ Whole(fs, j.oldCurrent)
            /\ Whole(fs, j.oldRollback) /\ fs["bin"].entry /\ NoBackup(fs) /\ ~fs["bin"].entryNext
        BY <2>6, <3>3, <4>2 DEF RemovalOf
      <4>4. Installed(fs) /\ LinksOld(fs, i)
        BY <2>1, <2>4, <2>6, <3>3, <4>3 DEF Installed, LinksOld, LinksAre, LinkIn, Managed,
           SameTransaction, JournalOK
      <4>5. LocalEnd(y, fs, Kept)
        BY <2>4, <2>5, <2>6, <3>3, <4>1, <4>4 DEF LocalEnd, SameTransaction
      <4> QED
        BY <1>3, <2>5, <2>8, <3>3, <4>5, LocalParts
    <3>4. CASE RecoveryOf(j) = "unlink"
      <4>1. LocalRemove(y, fs)
        BY <2>1, <2>4, <2>5, <2>6, <3>4 DEF LocalRemove, SameTransaction
      <4> QED
        BY <1>3, <2>5, <2>8, <3>4, <4>1, LocalParts DEF Removing
    <3> QED
      BY <2>6, <3>1, <3>2, <3>3, <3>4
  <2> QED
    BY <1>1, <2>3, <2>5, <2>7, <2>9, StayKeeps
<1> QED
  BY <1>4, <1>5

\* The journal of a command fits the content that it was made from.
LEMMA NewJournalFits ==
    ASSUME FileOK(fs), Journal = None, NEW cmd \in Commands,
           cmd.op # "install" => RootAt("root"),
           cmd.op = "install" /\ RootAt("root") => Link("current") # cmd.release,
           cmd.op = "rollback" => Link("rollback") # None
    PROVE  LET j == NewJournal(cmd, Link("current"), Link("rollback"), RootAt("root"))
           IN  /\ JournalOK(j) /\ j.op = cmd.op /\ j.state = "prepared"
               /\ Accepts(j, fs) /\ LinksOld(fs, j)
<1> DEFINE c == Link("current")
           b == Link("rollback")
           j == NewJournal(cmd, c, b, RootAt("root"))
<1>1. fs \in Content /\ (Installed(fs) \/ Gone(fs))
  BY DEF FileOK, Accepts, JournalIn, Journal
<1>2. /\ RootAt("root") => /\ c = fs["prefix"].current /\ b = fs["prefix"].rollback
                           /\ Installed(fs) /\ c # None
      /\ ~RootAt("root") => c = None /\ b = None /\ Gone(fs)
  BY <1>1 DEF Link, RootAt, Installed, Managed, RootIn, Gone
<1>3. c \in Links /\ b \in Links
  BY <1>1 DEF Link, Content, Links
<1>4. /\ cmd.op \in {"install", "rollback", "uninstall"} /\ cmd.release \in Links
      /\ cmd.op = "install" => cmd.release \in Releases
  BY DEF Commands, Links
<1>5. RootAt("root") \in BOOLEAN
  BY DEF RootAt
<1>6. /\ j.op = cmd.op /\ j.state = "prepared" /\ j.oldCurrent = c /\ j.oldRollback = b
      /\ cmd.op = "install" => j.newCurrent = cmd.release
      /\ cmd.op = "rollback" => j.newCurrent = b
      /\ cmd.op = "uninstall" => j.newCurrent = None /\ j.newRollback = None
      /\ cmd.op # "uninstall" => j.newRollback = c
      /\ j.release = cmd.release /\ j.launcher = RootAt("root")
  BY <1>4 DEF NewJournal
<1>7. j \in Journals
  <2>1. /\ (CASE cmd.op = "install" -> cmd.release
              [] cmd.op = "rollback" -> b
              [] cmd.op = "uninstall" -> None) \in Links
        /\ (IF cmd.op = "uninstall" THEN None ELSE c) \in Links
    BY <1>3, <1>4 DEF Links
  <2> HIDE DEF c, b
  <2> QED
    BY <1>3, <1>4, <1>5, <2>1 DEF NewJournal, Journals
<1> HIDE DEF j, c, b
<1>8. JournalOK(j)
  BY <1>2, <1>4, <1>6, <1>7 DEF JournalOK, b, c
<1>9. LinksOld(fs, j)
  BY <1>2, <1>6 DEF LinksOld, LinksAre, LinkIn, RootIn, RootAt
<1>10. Accepts(j, fs)
  <2>1. j # None
    BY <1>7, NoneAssumption
  <2>2. CASE RootAt("root")
    <3>1. /\ Managed(fs) /\ NoNext(fs) /\ Clean(fs) /\ Whole(fs, c) /\ Whole(fs, b)
          /\ fs["bin"].entry /\ ~fs["bin"].entryNext /\ NoBackup(fs)
      BY <1>2, <2>2 DEF Installed
    <3>2. ASSUME cmd.op = "install", TreeIn(fs, j.release) = "absent"
          PROVE  StagingOf(j, fs)
      <4>1. RootIn(fs, "root")
        BY <2>2 DEF RootAt, RootIn
      <4> QED
        BY <1>2, <1>6, <1>9, <2>2, <3>1, <3>2, <4>1 DEF StagingOf, Clean
    <3>3. ASSUME cmd.op = "install", TreeIn(fs, j.release) # "absent"
          PROVE  LinkingOf(j, fs)
      <4>1. Whole(fs, j.newCurrent)
        BY <1>1, <1>4, <1>6, <2>2, <3>1, <3>3 DEF Whole, TreeIn, Managed, Content, Tree
      <4> QED
        BY <1>2, <1>6, <2>2, <3>1, <3>3, <4>1 DEF LinkingOf, NoNext
    <3>4. ASSUME cmd.op = "rollback" PROVE LinkingOf(j, fs)
      BY <1>2, <1>6, <2>2, <3>1, <3>4 DEF LinkingOf, NoNext
    <3>5. ASSUME cmd.op = "uninstall" PROVE RemovalOf(j, fs)
      BY <1>6, <1>9, <3>1, <3>5 DEF RemovalOf
    <3> QED
      BY <1>6, <1>8, <2>1, <3>2, <3>3, <3>4, <3>5 DEF Accepts
  <2>3. CASE ~RootAt("root")
    <3>1. cmd.op = "install" /\ Gone(fs)
      BY <1>2, <2>3
    <3>2. StagingOf(j, fs)
      BY <1>2, <1>6, <1>9, <2>3, <3>1 DEF StagingOf, Gone, RootIn
    <3>3. TreeIn(fs, j.release) = "absent"
      BY <2>3 DEF TreeIn, RootAt, RootIn
    <3> QED
      BY <1>6, <1>8, <2>1, <3>1, <3>2, <3>3 DEF Accepts
  <2> QED
    BY <2>2, <2>3
<1> QED
  BY <1>6, <1>8, <1>9, <1>10 DEF j, c, b

\* The end of a command that changed nothing and was told the links there are.
LEMMA SucceedKeeps ==
    ASSUME IInv, NEW p \in Procs, ~At(p, "idle"), Journal = None, fs["bin"].entry,
           proc[p].cmd.op = "install",
           Succeed(p, Link("current"), Link("rollback"))
    PROVE  IInv'
<1> DEFINE c == Link("current")
           b == Link("rollback")
<1>1. fs \in Content /\ ProcTypes
  BY DEF IInv, FilesInv, FileOK
<1>2. UNCHANGED <<fs, images, refused>> /\ UNCHANGED Kept /\ Exit(p)
  BY DEF Succeed, Kept
<1>3. ProcTypes' /\ ProcInv'
  BY <1>1, <1>2, ExitKeeps
<1>4. c \in Links /\ b \in Links
  BY <1>1 DEF Link, Content, Links
<1>5. /\ report' \in Reports /\ report'.op = "install"
      /\ report'.current = c /\ report'.rollback = b
  BY <1>1, <1>4 DEF Succeed, Reports, ProcTypes, ProcRecord
<1>6. LinkIn(fs, "current") = c /\ LinkIn(fs, "rollback") = b
  BY DEF LinkIn, Link, RootIn, RootAt
<1>7. \A f \in Kept : FallsBack(f, fs)
  BY DEF IInv, HistoryInv
<1> HIDE DEF c, b
<1>8. ReportInv'
  BY <1>2, <1>5, <1>6, <1>7 DEF ReportInv, Told, LinksAre, FallsBack, Alike
<1> QED
  BY <1>2, <1>3, <1>8 DEF IInv, FilesInv, HistoryInv, Journal

\* reject_unmanaged_recovery_paths, inspect_install and the new journal.
LEMMA InspectKeeps ==
    ASSUME IInv, NEW p \in Procs, Inspect(p) PROVE IInv'
<1> DEFINE x == proc[p]
           cmd == x.cmd
           c == Link("current")
           b == Link("rollback")
           j == NewJournal(cmd, c, b, RootAt("root"))
           begin == /\ proc' = [proc EXCEPT ![p].at = "journal", ![p].recovering = FALSE,
                                   ![p].journal = j]
                    /\ UNCHANGED <<fs, images, lock, refused, report>>
<1>1. /\ ~At(p, "idle") /\ fs \in Content /\ FileOK(fs) /\ Local(x, fs, Kept, report)
      /\ x \in ProcRecord /\ cmd \in Commands /\ x.at = "inspect"
  BY DEF Inspect, At, IInv, ProcInv, ProcTypes, ProcRecord, FilesInv, FileOK
<1>2. ~fs["data"].journalNext /\ Journal = None
  BY <1>1 DEF Local, LocalStart, Journal, JournalIn
<1>3. Installed(fs) \/ Gone(fs)
  BY <1>1, <1>2 DEF FileOK, Accepts, Journal, JournalIn
<1>4. ~(RootAt("tombstone") \/ fs["bin"].backup)
  BY <1>3 DEF Installed, Gone, Managed, NoBackup, RootAt, RootIn
<1>5. RootAt("root") => InstallValid /\ fs["bin"].entry
  BY <1>3 DEF Installed, Gone, Managed, RootAt, RootIn, InstallValid, PrefixValid, NoNext, Clean,
     Whole
<1>a. CASE RootAt("root") /\ ~(InstallValid /\ OnlyOwn(p))
  <2>1. \/ Decline(p)
        \/ Refuse(p) /\ ~OnlyOwn(p)
    BY <1>4, <1>5, <1>a DEF Inspect, RootAt
  <2> QED
    BY <1>1, <2>1, DeclineKeeps, RefuseKeeps DEF Decline
<1>b. SUFFICES ASSUME RootAt("root") => InstallValid /\ OnlyOwn(p) PROVE IInv'
  BY <1>a
<1>6. ASSUME begin,
             cmd.op # "install" => RootAt("root"),
             cmd.op = "install" /\ RootAt("root") => c # cmd.release,
             cmd.op = "rollback" => b # None
      PROVE  IInv'
  <2>1. /\ JournalOK(j) /\ j.op = cmd.op /\ j.state = "prepared"
        /\ Accepts(j, fs) /\ LinksOld(fs, j)
    BY <1>1, <1>2, <1>6, NewJournalFits
  <2> DEFINE y == [x EXCEPT !.at = "journal", !.recovering = FALSE, !.journal = j]
  <2> HIDE DEF j
  <2>2. j \in Journals /\ j # None
    BY <2>1, NoneAssumption DEF JournalOK
  <2>3. proc' = [proc EXCEPT ![p] = y]
    BY <1>1, <1>6 DEF IInv, ProcTypes, ProcRecord
  <2>4. /\ y.at = "journal" /\ y.journal = j /\ y.recovering = FALSE /\ y.cmd = cmd
        /\ y \in ProcRecord /\ cmd # None
    BY <1>1, <2>2, NoneAssumption DEF ProcRecord, Labels
  <2> HIDE DEF y
  <2>5. LocalStart(y, fs)
    BY <1>2, <2>4 DEF LocalStart
  <2>6. LocalJournal(y, fs, report)
    BY <1>2, <2>1, <2>2, <2>4 DEF LocalJournal, Writing, Journal, JournalIn
  <2>7. LocalWrite(y, fs)
    BY <1>2, <1>3, <2>1, <2>4 DEF LocalWrite, Journal, JournalIn
  <2>8. Local(y, fs, Kept, report)
    BY <2>4, <2>5, <2>6, <2>7, LocalParts DEF Writing
  <2> QED
    BY <1>1, <1>6, <2>3, <2>4, <2>8, StayKeeps
<1>7. ASSUME Decline(p) PROVE IInv'
  BY <1>1, <1>7, DeclineKeeps DEF Decline
<1>8. ASSUME cmd.op = "install", RootAt("root"), Succeed(p, c, b) PROVE IInv'
  BY <1>1, <1>2, <1>5, <1>8, SucceedKeeps
<1>9. cmd.op \in {"install", "rollback", "uninstall"}
  BY <1>1 DEF Commands
<1>10. RootAt("absent") => ~RootAt("root")
  BY DEF RootAt
<1>11. \/ Decline(p)
       \/ RootAt("absent") /\ cmd.op = "install" /\ begin
       \/ /\ RootAt("root")
          /\ \/ cmd.op = "install" /\ Succeed(p, c, b)
             \/ cmd.op = "install" /\ c # cmd.release /\ begin
             \/ cmd.op = "rollback" /\ b # None /\ begin
             \/ cmd.op = "uninstall" /\ begin
  BY <1>4, <1>b DEF Inspect
<1> HIDE DEF begin, c, b, j, cmd
<1> QED
  BY <1>6, <1>7, <1>8, <1>9, <1>10, <1>11

\* The transaction fixes everything that is judged of links.
LEMMA TransactionLinks ==
    ASSUME NEW i, NEW j, NEW f, SameTransaction(i, j)
    PROVE  /\ LinksOld(f, i) <=> LinksOld(f, j)
           /\ LinksNew(f, i) <=> LinksNew(f, j)
BY DEF SameTransaction, LinksOld, LinksNew

\* Over a committed journal the transaction is over.
LEMMA CommittedIsDone ==
    ASSUME NEW j, NEW f, Accepts(j, f), j # None, j.state = "committed",
           j.op = "install" => TreeIn(f, j.release) # "absent"
    PROVE  /\ Installed(f) \/ Gone(f)
           /\ LinksNew(f, j) /\ Ended(j, f)
           /\ f["bin"].entry <=> j.op # "uninstall"
<1>1. JournalOK(j) /\ j.op \in {"install", "rollback", "uninstall"}
  BY DEF Accepts, JournalOK, Journals
<1>2. CASE j.op # "uninstall"
  <2>1. LinkingOf(j, f)
    BY <1>1, <1>2 DEF Accepts
  <2>2. /\ Managed(f) /\ Clean(f) /\ NoBackup(f) /\ LinksNew(f, j) /\ NoNext(f)
        /\ f["bin"].entry /\ ~f["bin"].entryNext /\ Whole(f, j.newCurrent)
        /\ Whole(f, j.newRollback)
    BY <2>1 DEF LinkingOf
  <2>3. j.newCurrent # None
    BY <1>1, <1>2, ReleasesAssumption DEF JournalOK
  <2>4. f["prefix"].current = j.newCurrent /\ f["prefix"].rollback = j.newRollback
    BY <2>2 DEF LinksNew, LinksAre, LinkIn, Managed
  <2>5. Installed(f)
    BY <2>2, <2>3, <2>4 DEF Installed
  <2> QED
    BY <1>2, <2>2, <2>5 DEF Ended
<1>3. CASE j.op = "uninstall"
  <2>1. RemovalOf(j, f) /\ j.newCurrent = None /\ j.newRollback = None
    BY <1>1, <1>3 DEF Accepts, JournalOK
  <2>2. RootIn(f, "absent") /\ ~f["bin"].entry /\ ~f["bin"].entryNext /\ NoBackup(f)
    BY <2>1 DEF RemovalOf
  <2> QED
    BY <1>3, <2>1, <2>2 DEF Gone, Ended, LinksNew, LinksAre, LinkIn, RootIn
<1> QED
  BY <1>2, <1>3

\* write_journal, the staging file.
LEMMA JournalNextWritten ==
    ASSUME OneJournal, IInv, NEW p \in Procs, At(p, "journal"), WriteJournal(p) PROVE IInv'
<1> DEFINE x == proc[p]
           y == [x EXCEPT !.at = "journalRename"]
           g == With("data", [fs["data"] EXCEPT !.journalNext = TRUE])
<1>1. /\ ~At(p, "idle") /\ fs \in Content /\ Local(x, fs, Kept, report) /\ x.at = "journal"
  BY DEF At, IInv, ProcInv, FilesInv, FileOK
<1>2. ~fs["data"].journalNext
  BY <1>1 DEF Local, LocalStart
<1>3. Mutate(p, g, "journalRename")
  BY <1>1, <1>2 DEF WriteJournal, At
<1>4. /\ JournalIn(g) = JournalIn(fs) /\ g["data"].root = fs["data"].root
      /\ g["prefix"] = fs["prefix"] /\ g["releases"] = fs["releases"] /\ g["bin"] = fs["bin"]
  BY <1>1 DEF With, Content, JournalIn
<1>5. y.at = "journalRename" /\ y.journal = x.journal /\ y.cmd = x.cmd
      /\ y.recovering = x.recovering
  BY StepTo
<1> HIDE DEF g, y
<1>6. LocalStart(y, g)
  BY <1>5 DEF LocalStart
<1>7. LocalJournal(y, g, report)
  BY <1>1, <1>4, <1>5 DEF Local, LocalJournal, Starting, Writing
<1>8. LocalWrite(y, g)
  <2>1. LocalWrite(x, fs)
    BY <1>1 DEF Local
  <2>2. TreeIn(g, x.journal.release) = TreeIn(fs, x.journal.release)
    BY <1>4 DEF TreeIn, RootIn
  <2> QED
    BY <1>1, <1>4, <1>5, <2>1, <2>2, SameContents DEF LocalWrite, Writing
<1>9. Local(y, g, Kept \cup {g}, report)
  BY <1>5, <1>6, <1>7, <1>8, LocalParts DEF Writing
<1>10. "journalRename" \in Labels
  BY DEF Labels
<1> QED
  BY <1>1, <1>3, <1>9, <1>10, JournalNextKeeps DEF y, g

\* write_journal, the rename: from here on the journal decides.
LEMMA JournalRenamed ==
    ASSUME OneJournal, IInv, NEW p \in Procs, At(p, "journalRename"), WriteJournal(p) PROVE IInv'
<1> DEFINE x == proc[p]
           m == x.journal
           y == [x EXCEPT !.at = "journalSync"]
           g == With("data", [fs["data"] EXCEPT !.journalNext = FALSE, !.journal = m])
<1>1. /\ ~At(p, "idle") /\ fs \in Content /\ FileOK(fs) /\ fs \in Kept
      /\ Local(x, fs, Kept, report) /\ x.at = "journalRename"
  BY DEF At, IInv, ProcInv, FilesInv, FileOK
<1>2. /\ Write(g) /\ Goto(p, "journalSync") /\ UNCHANGED <<lock, refused>>
      /\ report' = IF m.state = "prepared" THEN None ELSE report
  BY <1>1 DEF WriteJournal, At, Mem
<1>3. m # None /\ JournalOK(m) /\ m \in Journals
  BY <1>1 DEF Local, LocalJournal, Starting, JournalOK
<1>4. /\ g \in Content /\ JournalIn(g) = m /\ g["data"].root = fs["data"].root
      /\ g["prefix"] = fs["prefix"] /\ g["releases"] = fs["releases"] /\ g["bin"] = fs["bin"]
      /\ ~g["data"].journalNext
  BY <1>1, <1>3 DEF With, Content, JournalIn
<1> HIDE DEF g
<1>5. /\ Accepts(m, fs)
      /\ x.recovering => m.state = "committed"
      /\ m.state = "prepared" => Installed(fs) \/ Gone(fs)
      /\ m.state # "prepared" /\ m.op = "install" => TreeIn(fs, m.release) # "absent"
      /\ IF m.state = "prepared"
         THEN JournalIn(fs) = None /\ LinksOld(fs, m)
         ELSE SameTransaction(m, JournalIn(fs))
  BY <1>1 DEF Local, LocalWrite, Writing
<1>6. fs' = g /\ Kept' = Kept \cup {g} /\ images' = [q \in Domains |-> Kept']
  BY <1>2, <1>4, WriteFacts
<1>7. FileOK(g)
  BY <1>1, <1>4, <1>5, SameContents DEF FileOK, RootIn
<1>8. /\ TreeIn(g, m.release) = TreeIn(fs, m.release) /\ Alike(g, fs)
      /\ \A f : Alike(f, fs) => Alike(f, g)
  <2>1. TreeIn(g, m.release) = TreeIn(fs, m.release)
    BY <1>4 DEF TreeIn, RootIn
  <2> QED
    BY <1>4, <2>1, SameContents DEF Alike
<1>9. ~x.recovering /\ m.state # "prepared" => report = None
  <2>1. m.state # "prepared" => JournalIn(fs) # None
    BY <1>5 DEF SameTransaction
  <2> QED
    BY <1>1, <2>1 DEF Local, LocalJournal, Starting
<1>10. ProcTypes' /\ ProcInv'
  <2>1. y \in ProcRecord /\ y.cmd # None /\ proc' = [proc EXCEPT ![p] = y]
    <3>1. "journalSync" \in Labels
      BY DEF Labels
    <3> QED
      BY <1>1, <1>2, <3>1, GotoFacts DEF IInv
  <2>2. y.at = "journalSync" /\ y.journal = m /\ y.cmd = x.cmd /\ y.recovering = x.recovering
    BY StepTo
  <2> HIDE DEF y
  <2>3. ~y.recovering => report' = None
    BY <1>2, <1>9, <2>2
  <2>4. LocalStart(y, g)
    BY <1>4, <2>2 DEF LocalStart
  <2>5. LocalJournal(y, g, report')
    BY <1>1, <1>3, <2>2, <2>3 DEF LocalJournal, Local, Starting, Writing
  <2>6. LocalWrite(y, g)
    BY <1>4, <1>5, <1>8, <2>2, SameContents DEF LocalWrite
  <2>7. Local(y, g, Kept', report')
    BY <2>2, <2>4, <2>5, <2>6, LocalParts DEF Writing
  <2> QED
    BY <1>1, <1>2, <1>6, <2>1, <2>2, <2>7, MoveKeeps DEF IInv
<1>11. FilesInv'
  BY <1>6, <1>7 DEF FilesInv, IInv
<1>12. HistoryInv'
  <2>1. Journal' = m
    BY <1>4, <1>6 DEF Journal, JournalIn
  <2>2. ASSUME NEW f \in Kept PROVE JournalIn(f) = None => LinksOld(f, m)
    <3>1. CASE m.state = "prepared"
      <4>1. Alike(f, fs)
        BY <1>5, <3>1 DEF IInv, HistoryInv, FallsBack, Journal, JournalIn
      <4> QED
        BY <1>5, <3>1, <4>1 DEF Alike, LinksOld, LinksAre
    <3>2. CASE m.state # "prepared"
      <4>1. JournalIn(f) = None => LinksOld(f, Journal)
        BY <1>5, <3>2 DEF IInv, HistoryInv, SameTransaction, Journal, JournalIn
      <4> QED
        BY <1>5, <3>2, <4>1, TransactionLinks DEF Journal, JournalIn
    <3> QED
      BY <3>1, <3>2
  <2>3. ASSUME Fresh(m, g) PROVE m.state = "prepared" /\ Journal = None /\ Ended(m, g)
    BY <1>5, <1>8, <2>3 DEF Fresh, Ended, Journal, JournalIn
  <2>4. ASSUME Fresh(m, g), NEW f \in Kept \cup {g} PROVE FallsBack(f, g)
    <3>1. CASE f = g
      BY <1>4, <2>3, <2>4, <3>1, FallsBackOnItself
    <3>2. CASE f \in Kept
      BY <1>8, <2>3, <2>4, <3>2 DEF IInv, HistoryInv, FallsBack
    <3> QED
      BY <3>1, <3>2
  <2>5. ASSUME NEW f \in Kept \cup {g}, NEW r \in Releases, f["releases"].tree[r] = "partial"
        PROVE  g["releases"].tree[r] # "whole"
    BY <1>4, <2>5 DEF IInv, HistoryInv
  <2>6. ASSUME NEW f \in Kept \cup {g} PROVE JournalIn(f) = None => LinksOld(f, m)
    BY <1>3, <1>4, <2>2
  <2> QED
    BY <1>3, <1>6, <2>1, <2>4, <2>5, <2>6 DEF HistoryInv
<1>13. ReportInv'
  <2>1. CASE report' = None
    BY <2>1 DEF ReportInv, Told
  <2>2. CASE report' # None
    <3>1. report' = report /\ m.state = "committed"
      BY <1>2, <1>5, <1>9, <2>2
    <3>2. Ended(m, g)
      <4>1. Accepts(m, g)
        BY <1>4, <1>5, SameContents
      <4> QED
        BY <1>3, <1>5, <1>8, <3>1, <4>1, CommittedIsDone
    <3>3. ASSUME Told PROVE /\ LinksAre(g, report.current, report.rollback)
                            /\ g["bin"].entry <=> report.op # "uninstall"
      BY <1>1, <1>8, <3>3 DEF IInv, ReportInv, Alike, LinksAre
    <3> QED
      BY <1>4, <1>6, <3>1, <3>2, <3>3 DEF IInv, ReportInv, Told
  <2> QED
    BY <2>1, <2>2
<1> QED
  BY <1>2, <1>10, <1>11, <1>12, <1>13 DEF IInv

\* write_journal, the fsync.
LEMMA JournalSynced ==
    ASSUME OneJournal, IInv, NEW p \in Procs, At(p, "journalSync"), WriteJournal(p) PROVE IInv'
<1> DEFINE x == proc[p]
           m == x.journal
           i == Rewritten(m)
           l == AfterJournal(m)
           y == [x EXCEPT !.at = l, !.journal = i]
<1>1. /\ ~At(p, "idle") /\ fs \in Content /\ FileOK(fs)
      /\ Local(x, fs, Kept, report) /\ x.at = "journalSync"
      /\ x \in ProcRecord /\ x.cmd # None
  BY DEF At, IInv, ProcInv, ProcTypes, FilesInv, FileOK
<1>2. Sync({"data"}) /\ UNCHANGED <<lock, refused, report>>
  BY <1>1 DEF WriteJournal, At
<1>3. m # None /\ JournalOK(m) /\ m \in Journals
  BY <1>1 DEF Local, LocalJournal, Starting, JournalOK
<1>4. /\ Accepts(m, fs) /\ JournalIn(fs) = m
      /\ x.recovering => m.state = "committed"
      /\ m.state = "prepared" => Installed(fs) \/ Gone(fs)
      /\ m.state # "prepared" /\ m.op = "install" => TreeIn(fs, m.release) # "absent"
  BY <1>1 DEF Local, LocalWrite, Writing
<1>5. /\ m.op \in {"install", "rollback", "uninstall"}
      /\ m.state \in {"prepared", "committing", "committed"}
  BY <1>3 DEF Journals
<1>6. /\ JournalOK(i) /\ SameTransaction(i, m) /\ i \in Journals /\ i # None
      /\ m.state = "prepared" /\ m.op = "uninstall" => i.state = "committing"
      /\ ~(m.state = "prepared" /\ m.op = "uninstall") => i = m
  <2>1. SameTransaction(m, m)
    BY <1>3 DEF SameTransaction
  <2> QED
    BY <1>3, <2>1, InState DEF Rewritten
<1>7. /\ l \in {"prepare", "validate", "journal", "unlink", "remove"}
      /\ l = "prepare" => m.state = "prepared" /\ m.op = "install"
      /\ l = "validate" => /\ m.op # "uninstall" /\ m.state # "committed"
                           /\ m.op = "install" => m.state = "committing"
      /\ l = "journal" => m.state = "prepared" /\ m.op = "uninstall"
      /\ l = "unlink" => m.state = "committing" /\ m.op = "uninstall"
      /\ l = "remove" => m.state = "committed"
  BY <1>5 DEF AfterJournal
<1>8. l \in Labels /\ l # "idle"
  BY <1>7 DEF Labels
<1>9. proc' = [proc EXCEPT ![p] = y]
  BY <1>1 DEF WriteJournal, At, Mem, IInv, ProcTypes, ProcRecord
<1> HIDE DEF i, l
<1>10. /\ y \in ProcRecord /\ y.at = l /\ y.journal = i /\ y.cmd = x.cmd
       /\ y.recovering = x.recovering
  BY <1>1, <1>6, <1>8 DEF ProcRecord
<1> HIDE DEF y
<1>11. ~fs["data"].journalNext
  BY <1>1 DEF Local, LocalStart
<1>12. LocalJournal(y, fs, report)
  BY <1>1, <1>4, <1>6, <1>10, <1>3 DEF Local, LocalJournal, Starting, SameTransaction
<1>13. Local(y, fs, {fs}, report)
  <2>1. CASE l = "prepare"
    <3>1. i = m /\ ~x.recovering /\ SameTransaction(m, m)
      BY <1>3, <1>4, <1>6, <1>7, <2>1 DEF SameTransaction
    <3>2. LocalStage(y, fs, {fs})
      BY <1>4, <1>7, <1>10, <2>1, <3>1 DEF LocalStage, Staging, Preparing, Extracting
    <3> QED
      BY <1>10, <1>11, <1>12, <2>1, <3>2, LocalParts DEF Staging
  <2>2. CASE l = "validate"
    <3>1. i = m /\ LinkingOf(m, fs)
      BY <1>3, <1>4, <1>5, <1>6, <1>7, <2>2 DEF Accepts
    <3>2. LocalLink(y, fs)
      BY <1>7, <1>10, <2>2, <3>1 DEF LocalLink, RollbackDone, CurrentDone, LauncherLabels
    <3> QED
      BY <1>10, <1>11, <1>12, <2>2, <3>2, LocalParts DEF Linking
  <2>3. CASE l = "journal"
    <3>1. RemovalOf(m, fs) /\ i.op = "uninstall" /\ i.state = "committing" /\ ~x.recovering
      BY <1>3, <1>4, <1>6, <1>7, <2>3 DEF Accepts, SameTransaction
    <3>2. RemovalOf(i, fs)
      BY <1>6, <1>7, <2>3, <3>1 DEF RemovalOf, SameTransaction, LinksOld
    <3>3. Accepts(i, fs)
      BY <1>6, <3>1, <3>2 DEF Accepts
    <3>4. LocalWrite(y, fs)
      BY <1>4, <1>6, <1>10, <2>3, <3>1, <3>3 DEF LocalWrite
    <3>5. LocalStart(y, fs)
      BY <1>10, <1>11, <2>3 DEF LocalStart
    <3> QED
      BY <1>10, <1>12, <2>3, <3>4, <3>5, LocalParts DEF Writing
  <2>4. CASE l = "unlink"
    <3>1. i = m
      BY <1>6, <1>7, <2>4
    <3>2. LocalRemove(y, fs)
      BY <1>4, <1>7, <1>10, <2>4, <3>1 DEF LocalRemove
    <3> QED
      BY <1>10, <1>11, <1>12, <2>4, <3>2, LocalParts DEF Removing
  <2>5. CASE l = "remove"
    <3>1. i = m
      BY <1>6, <1>7, <2>5
    <3>2. /\ Installed(fs) \/ Gone(fs)
          /\ LinksNew(fs, m) /\ Ended(m, fs)
          /\ fs["bin"].entry <=> m.op # "uninstall"
      BY <1>3, <1>4, <1>7, <2>5, CommittedIsDone
    <3>3. FallsBack(fs, fs)
      BY <1>4, <3>2, FallsBackOnItself
    <3>4. LocalEnd(y, fs, {fs})
      BY <1>10, <2>5, <3>1, <3>2, <3>3 DEF LocalEnd
    <3> QED
      BY <1>10, <1>11, <1>12, <2>5, <3>4, LocalParts
  <2> QED
    BY <1>7, <2>1, <2>2, <2>3, <2>4, <2>5
<1> QED
  BY <1>1, <1>2, <1>8, <1>9, <1>10, <1>13, SyncKeeps DEF Dirs

\* write_journal.
LEMMA WriteJournalKeeps ==
    ASSUME OneJournal, IInv, NEW p \in Procs, WriteJournal(p) PROVE IInv'
BY JournalNextWritten, JournalRenamed, JournalSynced DEF WriteJournal

\* remove_journal, the removal.
LEMMA JournalRemoved ==
    ASSUME OneJournal, IInv, NEW p \in Procs, At(p, "remove"), RemoveJournal(p) PROVE IInv'
<1> DEFINE x == proc[p]
           m == x.journal
           y == [x EXCEPT !.at = "removeSync"]
           g == With("data", [fs["data"] EXCEPT !.journal = None])
<1>1. /\ ~At(p, "idle") /\ fs \in Content /\ FileOK(fs) /\ fs \in Kept
      /\ Local(x, fs, Kept, report) /\ x.at = "remove"
  BY DEF At, IInv, ProcInv, FilesInv, FileOK
<1>2. Mutate(p, g, "removeSync")
  BY <1>1 DEF RemoveJournal, At
<1>3. /\ g \in Content /\ JournalIn(g) = None /\ g["data"].root = fs["data"].root
      /\ g["prefix"] = fs["prefix"] /\ g["releases"] = fs["releases"] /\ g["bin"] = fs["bin"]
      /\ g["data"].journalNext = fs["data"].journalNext
  BY <1>1 DEF With, Content, JournalIn
<1> HIDE DEF g
<1>4. fs' = g /\ Kept' = Kept \cup {g} /\ images' = [q \in Domains |-> Kept']
  BY <1>2, <1>3, WriteFacts DEF Mutate
<1>5. /\ \A f \in Kept : FallsBack(f, fs)
      /\ Installed(fs) \/ Gone(fs)
      /\ LinksOld(fs, m) \/ LinksNew(fs, m)
      /\ ~x.recovering \/ m.op = "rollback" =>
            LinksNew(fs, m) /\ (fs["bin"].entry <=> m.op # "uninstall")
  BY <1>1 DEF Local, LocalEnd
<1>6. Alike(g, fs) /\ \A f : Alike(f, fs) => Alike(f, g)
  BY <1>3, SameContents DEF Alike
<1>7. (Installed(g) <=> Installed(fs)) /\ (Gone(g) <=> Gone(fs))
  BY <1>3, SameContents
<1>8. FileOK(g)
  BY <1>1, <1>3, <1>5, <1>7 DEF FileOK, Accepts, RootIn
<1>9. ProcTypes' /\ ProcInv'
  <2>1. y \in ProcRecord /\ y.cmd # None /\ proc' = [proc EXCEPT ![p] = y]
    <3>1. "removeSync" \in Labels
      BY DEF Labels
    <3> QED
      BY <1>1, <1>2, <3>1, GotoFacts DEF IInv, Mutate
  <2>2. y.at = "removeSync" /\ y.journal = m /\ y.cmd = x.cmd /\ y.recovering = x.recovering
    BY StepTo
  <2> HIDE DEF y
  <2>3. LocalJournal(y, g, report)
    BY <1>1, <1>3, <2>2 DEF LocalJournal, Local, Starting, Writing
  <2>4. LocalEnd(y, g, Kept')
    BY <1>3, <1>5, <1>7, <2>2, SameContents DEF LocalEnd
  <2>5. ~g["data"].journalNext
    BY <1>1, <1>3 DEF Local, LocalStart
  <2>6. Local(y, g, Kept', report)
    BY <2>2, <2>3, <2>4, <2>5, LocalParts
  <2> QED
    BY <1>1, <1>2, <1>4, <2>1, <2>2, <2>6, MoveKeeps DEF IInv, Mutate
<1>10. FilesInv'
  BY <1>4, <1>8 DEF FilesInv, IInv
<1>11. HistoryInv'
  <2>1. Journal' = None
    BY <1>3, <1>4 DEF Journal, JournalIn
  <2>2. \A f \in Kept \cup {g} : FallsBack(f, g)
    BY <1>3, <1>5, <1>6, FallsBackOnItself DEF FallsBack
  <2>3. ASSUME NEW f \in Kept \cup {g}, NEW r \in Releases, f["releases"].tree[r] = "partial"
        PROVE  g["releases"].tree[r] # "whole"
    BY <1>3, <2>3 DEF IInv, HistoryInv
  <2> QED
    BY <1>4, <2>1, <2>2, <2>3 DEF HistoryInv
<1>12. ReportInv'
  <2>1. report' = report
    BY <1>2 DEF Mutate
  <2>2. ASSUME Told PROVE /\ LinksAre(g, report.current, report.rollback)
                          /\ g["bin"].entry <=> report.op # "uninstall"
    BY <1>1, <1>6, <2>2 DEF IInv, ReportInv, Alike, LinksAre
  <2> QED
    BY <1>3, <1>4, <2>1, <2>2 DEF IInv, ReportInv, Told
<1> QED
  BY <1>2, <1>9, <1>10, <1>11, <1>12 DEF IInv, Mutate

\* remove_journal, the fsync, and the end of the transaction.
LEMMA JournalRemovalSynced ==
    ASSUME OneJournal, IInv, NEW p \in Procs, At(p, "removeSync"), RemoveJournal(p) PROVE IInv'
<1> DEFINE x == proc[p]
           m == x.journal
           ends == ~x.recovering \/ (x.cmd.op = m.op /\ m.op # "install")
<1>1. /\ ~At(p, "idle") /\ fs \in Content /\ FileOK(fs) /\ fs \in Kept
      /\ Local(x, fs, Kept, report) /\ x.at = "removeSync"
      /\ x \in ProcRecord /\ x.cmd # None
  BY DEF At, IInv, ProcInv, ProcTypes, FilesInv, FileOK
<1>2. /\ Sync({"data"}) /\ UNCHANGED refused
      /\ IF ends
         THEN /\ Exit(p)
              /\ report' = [op |-> x.cmd.op, recovered |-> x.recovering,
                            current |-> m.newCurrent, rollback |-> m.newRollback]
         ELSE Goto(p, "inspect") /\ UNCHANGED <<lock, report>>
  BY <1>1 DEF RemoveJournal, At, Mem
<1>3. JournalOK(m) /\ m \in Journals /\ (~x.recovering => m.op = x.cmd.op)
  BY <1>1 DEF Local, LocalJournal, Starting, JournalOK
<1>4. /\ JournalIn(fs) = None
      /\ ~x.recovering \/ m.op = "rollback" =>
            LinksNew(fs, m) /\ (fs["bin"].entry <=> m.op # "uninstall")
  BY <1>1 DEF Local, LocalEnd
<1>5. ~fs["data"].journalNext
  BY <1>1 DEF Local, LocalStart
<1>6. CASE ends
  <2>1. fs' = fs /\ Kept' = {fs} /\ images' = [q \in Domains |-> Kept']
    BY <1>1, <1>2, SyncFacts DEF Dirs
  <2>2. ProcTypes' /\ ProcInv'
    BY <1>1, <1>2, <1>6, ExitKeeps DEF IInv
  <2>3. FilesInv' /\ HistoryInv'
    BY <1>1, <2>1, HistoryOfOne DEF FilesInv
  <2>4. /\ report' \in Reports /\ report'.op = x.cmd.op /\ report'.recovered = x.recovering
        /\ report'.current = m.newCurrent /\ report'.rollback = m.newRollback
    <3>1. x.cmd.op \in {"install", "rollback", "uninstall"} /\ x.recovering \in BOOLEAN
      BY <1>1 DEF ProcRecord, Commands
    <3>2. m.newCurrent \in Links /\ m.newRollback \in Links
      BY <1>3 DEF Journals
    <3> QED
      BY <1>2, <1>6, <3>1, <3>2 DEF Reports
  <2>5. ASSUME Told' PROVE ~x.recovering \/ m.op = "rollback"
    <3>1. m.op \in {"install", "rollback", "uninstall"}
      BY <1>3 DEF Journals
    <3> QED
      BY <1>6, <2>4, <2>5, <3>1 DEF Told
  <2>6. ReportInv'
    BY <1>3, <1>4, <1>6, <2>1, <2>4, <2>5 DEF ReportInv, LinksNew
  <2> QED
    BY <1>2, <2>2, <2>3, <2>6 DEF IInv
<1>7. CASE ~ends
  <2>1. SyncThen(p, {"data"}, "inspect")
    BY <1>2, <1>7 DEF SyncThen
  <2>2. Local([x EXCEPT !.at = "inspect"], fs, {fs}, report)
    BY <1>4, <1>5, StepTo, LocalParts DEF Starting, LocalStart
  <2> QED
    BY <1>1, <2>1, <2>2, SyncThenKeeps DEF Dirs, Labels
<1> QED
  BY <1>6, <1>7

\* remove_journal.
LEMMA RemoveJournalKeeps ==
    ASSUME OneJournal, IInv, NEW p \in Procs, RemoveJournal(p) PROVE IInv'
BY JournalRemoved, JournalRemovalSynced DEF RemoveJournal

----------------------------------------------------------------------------
(* Steps within a transaction.                                             *)

Within == Staging \cup Linking \cup RollingBack \cup Removing

\* What a process knows while it is within its transaction.
LEMMA WithinFacts ==
    ASSUME IInv, NEW p \in Procs, proc[p].at \in Within
    PROVE  /\ ~At(p, "idle") /\ Local(proc[p], fs, Kept, report)
           /\ proc[p] \in ProcRecord /\ proc[p].cmd # None
           /\ fs \in Content /\ FileOK(fs) /\ fs \in Kept /\ ~fs["data"].journalNext
           /\ Journal # None /\ Journal = JournalIn(fs)
           /\ JournalOK(Journal) /\ Accepts(Journal, fs)
           /\ JournalOK(proc[p].journal) /\ SameTransaction(proc[p].journal, Journal)
           /\ ~proc[p].recovering => report = None
<1> DEFINE x == proc[p]
<1>1. /\ x.at \notin Starting \cup Writing \cup {"removeSync"} /\ x.at # "idle"
      /\ x.at # "read" /\ x.at # "journalRename"
  BY DEF Within, Starting, Writing, Staging, Preparing, Extracting, Linking, RollbackDone,
     CurrentDone, LauncherLabels, RollingBack, Removing
<1>2. ~At(p, "idle") /\ Local(x, fs, Kept, report) /\ x \in ProcRecord /\ x.cmd # None
  BY <1>1 DEF IInv, ProcInv, ProcTypes, At
<1>3. fs \in Content /\ FileOK(fs) /\ fs \in Kept
  BY DEF IInv, FilesInv, FileOK
<1>4. ~fs["data"].journalNext
  BY <1>1, <1>2 DEF Local, LocalStart
<1>5. LocalJournal(x, fs, report)
  BY <1>2 DEF Local
<1>6. /\ Journal = JournalIn(fs) /\ JournalOK(x.journal) /\ SameTransaction(x.journal, Journal)
      /\ Journal # None /\ (~x.recovering => report = None)
  <2> HIDE DEF x
  <2>1. Journal = JournalIn(fs)
    BY DEF Journal, JournalIn
  <2>2. JournalOK(x.journal) /\ SameTransaction(x.journal, JournalIn(fs))
    BY <1>1, <1>5 DEF LocalJournal
  <2>3. JournalIn(fs) # None
    BY <2>2 DEF SameTransaction
  <2> QED
    BY <1>1, <1>5, <2>1, <2>2, <2>3 DEF LocalJournal
<1>7. Accepts(Journal, fs) /\ JournalOK(Journal)
  BY <1>3, <1>6 DEF FileOK, Accepts
<1> QED
  BY <1>2, <1>3, <1>4, <1>6, <1>7

\* A step within the transaction that keeps the journal file.
LEMMA WithinStep ==
    ASSUME IInv, NEW p \in Procs, proc[p].at \in Within,
           NEW l, NEW g, NEW K, JournalIn(g) = Journal, ~g["data"].journalNext
    PROVE  LET y == [proc[p] EXCEPT !.at = l]
           IN  /\ l \in Staging /\ LocalStage(y, g, K) => Local(y, g, K, report)
               /\ l \in Linking /\ LocalLink(y, g) => Local(y, g, K, report)
               /\ l \in RollingBack /\ LocalBack(y, g) => Local(y, g, K, report)
               /\ l \in Removing /\ LocalRemove(y, g) => Local(y, g, K, report)
               /\ l = "remove" /\ LocalEnd(y, g, K) => Local(y, g, K, report)
<1> DEFINE x == proc[p]
           y == [x EXCEPT !.at = l]
<1>1. /\ y.at = l /\ y.journal = x.journal /\ y.cmd = x.cmd /\ y.recovering = x.recovering
  BY StepTo
<1>2. LocalJournal(x, fs, report) /\ Journal = JournalIn(fs)
  BY WithinFacts DEF Local
<1>3. x.at \notin Starting \cup Writing \cup {"removeSync"}
  BY DEF Within, Starting, Writing, Staging, Preparing, Extracting, Linking, RollbackDone,
     CurrentDone, LauncherLabels, RollingBack, Removing
<1> HIDE DEF x, y
<1>4. LocalJournal(y, g, report)
  BY <1>1, <1>2, <1>3 DEF LocalJournal
<1>5. l \in Within \cup {"remove"} =>
         l \notin {"read", "readSync", "pending", "inspect", "journalRename"}
  BY DEF Within, Staging, Preparing, Extracting, Linking, RollbackDone, CurrentDone, LauncherLabels,
     RollingBack, Removing
<1>6. Local(y, g, K, report) \/ ~(\/ l \in Staging /\ LocalStage(y, g, K)
                                  \/ l \in Linking /\ LocalLink(y, g)
                                  \/ l \in RollingBack /\ LocalBack(y, g)
                                  \/ l \in Removing /\ LocalRemove(y, g)
                                  \/ l = "remove" /\ LocalEnd(y, g, K))
  BY <1>1, <1>4, <1>5, LocalParts DEF Within
<1> QED
  BY <1>6 DEF x, y

\* The places within a transaction are labels.
LEMMA WithinLabels == Within \cup {"remove", "journal"} \subseteq Labels \ {"idle"}
BY DEF Within, Labels, Staging, Preparing, Extracting, Linking, RollbackDone, CurrentDone,
   LauncherLabels, RollingBack, Removing

\* An fsync within a transaction.
LEMMA WithinSync ==
    ASSUME OneJournal, IInv, NEW p \in Procs, proc[p].at \in Within, NEW l \in Within,
           NEW ds, ds \subseteq Dirs, ds # {}, SyncThen(p, ds, l),
           LET y == [proc[p] EXCEPT !.at = l]
           IN  \/ l \in Staging /\ LocalStage(y, fs, {fs})
               \/ l \in Linking /\ LocalLink(y, fs)
               \/ l \in RollingBack /\ LocalBack(y, fs)
               \/ l \in Removing /\ LocalRemove(y, fs)
    PROVE  IInv'
<1>1. JournalIn(fs) = Journal /\ ~fs["data"].journalNext /\ ~At(p, "idle")
  BY WithinFacts
<1>2. Local([proc[p] EXCEPT !.at = l], fs, {fs}, report)
  BY <1>1, WithinStep
<1>3. l \in Labels /\ l # "idle"
  BY WithinLabels
<1> QED
  BY <1>1, <1>2, <1>3, SyncThenKeeps

\* A decision within a transaction.
LEMMA WithinDecide ==
    ASSUME IInv, NEW p \in Procs, proc[p].at \in Within, NEW l \in Within \cup {"remove"},
           Decide(p, l),
           LET y == [proc[p] EXCEPT !.at = l]
           IN  \/ l \in Staging /\ LocalStage(y, fs, Kept)
               \/ l \in Linking /\ LocalLink(y, fs)
               \/ l \in RollingBack /\ LocalBack(y, fs)
               \/ l \in Removing /\ LocalRemove(y, fs)
               \/ l = "remove" /\ LocalEnd(y, fs, Kept)
    PROVE  IInv'
<1>1. JournalIn(fs) = Journal /\ ~fs["data"].journalNext /\ ~At(p, "idle")
  BY WithinFacts
<1>2. Local([proc[p] EXCEPT !.at = l], fs, Kept, report)
  BY <1>1, WithinStep
<1>3. l \in Labels /\ l # "idle"
  BY WithinLabels
<1> QED
  BY <1>1, <1>2, <1>3, DecideKeeps

\* The journal in its next state goes to the file.
LEMMA NextState ==
    ASSUME IInv, NEW p \in Procs, proc[p].at \in Within,
           NEW s \in {"committing", "committed"},
           Accepts([proc[p].journal EXCEPT !.state = s], fs),
           proc[p].recovering => s = "committed",
           proc[p].journal.op = "install" => TreeIn(fs, proc[p].journal.release) # "absent",
           NEW K
    PROVE  LET y == [proc[p] EXCEPT !.at = "journal",
                                    !.journal = [proc[p].journal EXCEPT !.state = s]]
           IN  y \in ProcRecord /\ y.at # "idle" /\ y.cmd # None /\ Local(y, fs, K, report)
<1> DEFINE x == proc[p]
           m == x.journal
           i == [m EXCEPT !.state = s]
           y == [x EXCEPT !.at = "journal", !.journal = i]
<1>1. /\ x \in ProcRecord /\ x.cmd # None /\ JournalOK(m) /\ Journal = JournalIn(fs)
      /\ SameTransaction(m, Journal) /\ ~fs["data"].journalNext
      /\ (~x.recovering => report = None) /\ LocalJournal(x, fs, report)
  BY WithinFacts DEF Local
<1>2. JournalOK(i) /\ SameTransaction(i, m) /\ i.state = s /\ i \in Journals /\ i # None
  BY <1>1, InState
<1>3. SameTransaction(i, JournalIn(fs)) /\ i.op = m.op /\ i.release = m.release
  BY <1>1, <1>2 DEF SameTransaction
<1>4. x.at \notin Starting \cup Writing \cup {"removeSync"}
  BY DEF Within, Starting, Writing, Staging, Preparing, Extracting, Linking, RollbackDone,
     CurrentDone, LauncherLabels, RollingBack, Removing
<1>5. ~x.recovering => m.op = x.cmd.op
  BY <1>1, <1>4 DEF LocalJournal
<1> HIDE DEF i
<1>6. /\ y.at = "journal" /\ y.journal = i /\ y.recovering = x.recovering /\ y.cmd = x.cmd
      /\ y \in ProcRecord
  BY <1>1, <1>2 DEF ProcRecord, Labels
<1>7. Accepts(i, fs)
  BY DEF i
<1> HIDE DEF x, y
<1>8. LocalStart(y, fs)
  BY <1>1, <1>6 DEF LocalStart
<1>9. LocalJournal(y, fs, report)
  BY <1>1, <1>2, <1>3, <1>5, <1>6 DEF LocalJournal, Writing
<1>10. LocalWrite(y, fs)
  <2>1. i.op = "install" => TreeIn(fs, i.release) # "absent"
    BY <1>3 DEF x
  <2>2. y.recovering => i.state = "committed"
    BY <1>2, <1>6 DEF x
  <2> QED
    BY <1>2, <1>3, <1>6, <1>7, <2>1, <2>2 DEF LocalWrite
<1>11. Local(y, fs, K, report)
  BY <1>6, <1>8, <1>9, <1>10, LocalParts DEF Writing
<1>12. y \in ProcRecord /\ y.at # "idle" /\ y.cmd # None /\ Local(y, fs, K, report)
  BY <1>1, <1>6, <1>11
<1> QED
  BY <1>12 DEF x, y, i

\* To go on to the file without another step.
LEMMA NextStateCarried ==
    ASSUME IInv, NEW p \in Procs, proc[p].at \in Within,
           NEW s \in {"committing", "committed"},
           Accepts([proc[p].journal EXCEPT !.state = s], fs),
           proc[p].recovering => s = "committed",
           proc[p].journal.op = "install" => TreeIn(fs, proc[p].journal.release) # "absent",
           Carry(p, [Mem(p) EXCEPT !.state = s], "journal")
    PROVE  IInv'
<1> DEFINE y == [proc[p] EXCEPT !.at = "journal",
                                !.journal = [proc[p].journal EXCEPT !.state = s]]
<1>1. y \in ProcRecord /\ y.at # "idle" /\ y.cmd # None /\ Local(y, fs, Kept, report)
  BY NextState
<1>2. proc' = [proc EXCEPT ![p] = y] /\ UNCHANGED <<fs, images, lock, refused, report>>
  BY DEF Carry, Mem, IInv, ProcTypes, ProcRecord
<1>3. ~At(p, "idle")
  BY WithinFacts
<1> HIDE DEF y
<1> QED
  BY <1>1, <1>2, <1>3, StayKeeps

\* To go on to the file after an fsync.
LEMMA NextStateSynced ==
    ASSUME OneJournal, IInv, NEW p \in Procs, proc[p].at \in Within,
           NEW s \in {"committing", "committed"},
           Accepts([proc[p].journal EXCEPT !.state = s], fs),
           proc[p].recovering => s = "committed",
           proc[p].journal.op = "install" => TreeIn(fs, proc[p].journal.release) # "absent",
           NEW ds, ds \subseteq Dirs, ds # {}, Sync(ds),
           proc' = [proc EXCEPT ![p].at = "journal", ![p].journal.state = s],
           UNCHANGED <<lock, refused, report>>
    PROVE  IInv'
<1> DEFINE y == [proc[p] EXCEPT !.at = "journal",
                                !.journal = [proc[p].journal EXCEPT !.state = s]]
<1>1. y \in ProcRecord /\ y.at # "idle" /\ y.cmd # None /\ Local(y, fs, {fs}, report)
  BY NextState
<1>2. proc' = [proc EXCEPT ![p] = y]
  BY DEF IInv, ProcTypes, ProcRecord
<1>3. ~At(p, "idle")
  BY WithinFacts
<1> HIDE DEF y
<1> QED
  BY <1>1, <1>2, <1>3, SyncKeeps

----------------------------------------------------------------------------
(* Install: directories and the staged release.                            *)

\* What a process knows that stages a release.
LEMMA StagingFacts ==
    ASSUME IInv, NEW p \in Procs, proc[p].at \in Staging
    PROVE  /\ proc[p].at \in Within /\ LocalStage(proc[p], fs, Kept)
           /\ proc[p].journal = Journal /\ Journal.op = "install" /\ ~proc[p].recovering
           /\ report = None
           /\ \A f \in Kept : SameTransaction(Journal, JournalIn(f))
           /\ Journal.release \in Releases /\ Journal.newCurrent = Journal.release
           /\ Journal.newRollback = Journal.oldCurrent
           /\ Journal.launcher <=> Journal.oldCurrent # None
           /\ Journal.oldCurrent = None => Journal.oldRollback = None
           /\ TreeIn(fs, Journal.release) = "absent" => StagingOf(Journal, fs)
           /\ TreeIn(fs, Journal.release) # "absent" => LinkingOf(Journal, fs)
<1>1. proc[p].at \in Within
  BY DEF Within
<1>2. LocalStage(proc[p], fs, Kept)
  BY <1>1, WithinFacts DEF Local
<1>3. /\ proc[p].journal = Journal /\ Journal.op = "install" /\ ~proc[p].recovering
      /\ \A f \in Kept : SameTransaction(Journal, JournalIn(f))
  BY <1>2 DEF LocalStage, JournalIn, Journal
<1> QED
  BY <1>1, <1>2, <1>3, WithinFacts DEF Accepts, JournalOK

\* A mutation before the release has its name, and the one that gives it.
LEMMA StagingMutation ==
    ASSUME OneJournal, IInv, NEW p \in Procs, proc[p].at \in Staging,
           NEW l \in Staging, NEW g \in Content, Mutate(p, g, l),
           g["data"] = [fs["data"] EXCEPT !.root = "root"], g["bin"] = fs["bin"],
           TreeIn(fs, Journal.release) = "absent",
           LinksOld(g, Journal),
           TreeIn(g, Journal.release) = "absent" => StagingOf(Journal, g),
           TreeIn(g, Journal.release) # "absent" => LinkingOf(Journal, g),
           \A f \in Kept \cup {g}, r \in Releases :
              f["releases"].tree[r] = "partial" => g["releases"].tree[r] # "whole",
           LocalStage([proc[p] EXCEPT !.at = l], g, Kept \cup {g})
    PROVE  IInv'
<1>1. /\ proc[p].at \in Within /\ ~At(p, "idle") /\ Journal # None /\ JournalOK(Journal)
      /\ ~fs["data"].journalNext /\ Journal = JournalIn(fs) /\ fs \in Content
      /\ Journal.op = "install" /\ report = None
  BY StagingFacts, WithinFacts
<1>2. JournalIn(g) = Journal /\ ~g["data"].journalNext /\ RootIn(g, "root")
  BY <1>1 DEF JournalIn, Content, RootIn
<1>3. FileOK(g)
  BY <1>1, <1>2 DEF FileOK, Accepts, RootIn
<1>4. Fresh(Journal, fs) /\ Alike(g, fs)
  <2>1. LinksOld(fs, Journal)
    BY StagingFacts DEF StagingOf
  <2> QED
    BY <1>1, <2>1 DEF Fresh, Alike, LinksOld, LinksAre
<1>5. Continues(fs, g, Journal, report)
  BY <1>1, <1>2, <1>3, <1>4 DEF Continues
<1>6. Local([proc[p] EXCEPT !.at = l], g, Kept \cup {g}, report)
  BY <1>1, <1>2, WithinStep
<1>7. l \in Labels /\ l # "idle"
  BY WithinLabels DEF Within
<1> QED
  BY <1>1, <1>5, <1>6, <1>7, MutateKeeps

\* A new root gets its mode, its marker and its releases directory.
LEMMA PrefixPrepared ==
    ASSUME OneJournal, IInv, NEW p \in Procs, proc[p].at \in Preparing, NEW l \in Preparing,
           NEW g \in Content, Mutate(p, g, l),
           g["data"] = fs["data"], g["bin"] = fs["bin"],
           g["releases"].tree = fs["releases"].tree,
           g["releases"].stage = fs["releases"].stage,
           g["prefix"].current = fs["prefix"].current,
           g["prefix"].rollback = fs["prefix"].rollback,
           g["prefix"].next = fs["prefix"].next,
           g["prefix"].mode = "set", l # "rootMode",
           g["prefix"].markerNext <=> l = "markerRename",
           g["prefix"].marker <=> l \in {"markerSync", "releases", "releasesMode", "releasesSync"},
           l \in {"releasesMode", "releasesSync"} => g["prefix"].releases,
           l = "releasesSync" => g["releases"].mode = "set"
    PROVE  IInv'
<1> DEFINE x == proc[p]
           y == [x EXCEPT !.at = l]
<1>1. x.at \in Staging /\ l \in Staging
  BY DEF Staging
<1>2. /\ x.journal = Journal /\ Journal.op = "install" /\ ~x.recovering /\ fs \in Content
      /\ \A f \in Kept : SameTransaction(Journal, JournalIn(f))
      /\ Journal = JournalIn(fs) /\ fs \in Kept
  BY <1>1, StagingFacts, WithinFacts
<1>3. /\ RootIn(fs, "root") /\ Journal.oldCurrent = None
      /\ TreeIn(fs, Journal.release) = "absent" /\ Clean(fs)
  BY <1>1, <1>2, StagingFacts DEF LocalStage
<1>4. StagingOf(Journal, fs)
  BY <1>1, <1>3, StagingFacts
<1>5. g["data"] = [fs["data"] EXCEPT !.root = "root"]
  BY <1>2, <1>3 DEF Content, RootIn
<1>6. /\ RootIn(g, "root") /\ TreeIn(g, Journal.release) = "absent" /\ Clean(g)
      /\ NoNext(g) /\ LinksOld(g, Journal) /\ JournalIn(g) = Journal
  BY <1>2, <1>3, <1>4 DEF RootIn, TreeIn, Clean, NoNext, LinksOld, LinksAre, LinkIn,
     StagingOf, JournalIn
<1>7. StagingOf(Journal, g)
  BY <1>3, <1>4, <1>6 DEF StagingOf, NoBackup
<1>8. \A f \in Kept \cup {g}, r \in Releases :
         f["releases"].tree[r] = "partial" => g["releases"].tree[r] # "whole"
  BY DEF IInv, HistoryInv
<1>9. LocalStage(y, g, Kept \cup {g})
  <2>1. y.at = l /\ y.journal = Journal /\ ~y.recovering
    BY <1>2, StepTo
  <2> HIDE DEF x, y
  <2>2. \A f \in Kept \cup {g} : SameTransaction(y.journal, JournalIn(f))
    BY <1>2, <1>6, <2>1
  <2> QED
    BY <1>2, <1>3, <1>6, <2>1, <2>2 DEF LocalStage, Preparing, Extracting
<1> QED
  BY <1>1, <1>3, <1>5, <1>6, <1>7, <1>8, <1>9, StagingMutation

\* prepare_install_directories of a root that is new.
LEMMA RootPrepared ==
    ASSUME OneJournal, IInv, NEW p \in Procs, At(p, "prepare"), ~RootAt("root"),
           NEW m \in NewModes,
           NEW g, g = [fs EXCEPT !["data"].root = "root", !["releases"] = EmptyReleases,
                                 !["prefix"] = [EmptyPrefix EXCEPT !.mode = m]],
           Mutate(p, g, "rootMode")
    PROVE  IInv'
<1> DEFINE x == proc[p]
           y == [x EXCEPT !.at = "rootMode"]
           top == [EmptyPrefix EXCEPT !.mode = m]
<1>1. x.at = "prepare" /\ x.at \in Staging /\ "rootMode" \in Staging
  BY DEF At, Staging, Preparing
<1>2. /\ x.journal = Journal /\ Journal.op = "install" /\ ~x.recovering /\ fs \in Content
      /\ \A f \in Kept : SameTransaction(Journal, JournalIn(f))
      /\ Journal = JournalIn(fs) /\ fs \in Kept
  BY <1>1, StagingFacts, WithinFacts
<1>3. TreeIn(fs, Journal.release) = "absent" /\ ~RootIn(fs, "root")
  BY DEF TreeIn, RootIn, RootAt
<1>4. StagingOf(Journal, fs)
  BY <1>1, <1>3, StagingFacts
<1>5. Journal.oldCurrent = None /\ Journal.oldRollback = None
  BY <1>3, <1>4 DEF StagingOf, LinksOld, LinksAre, LinkIn
<1>6. /\ top.current = None /\ top.rollback = None /\ ~top.marker
      /\ ~top.markerNext
      /\ top.next["current"] = None /\ top.next["rollback"] = None
      /\ \A r \in Releases : EmptyReleases.tree[r] = "absent" /\ EmptyReleases.stage[r] = "absent"
  BY DEF EmptyPrefix, EmptyReleases
<1>7. /\ top \in [mode : Modes, marker : BOOLEAN, markerNext : BOOLEAN, releases : BOOLEAN,
                  current : Links, rollback : Links,
                  next : [{"current", "rollback"} -> Links]]
      /\ EmptyReleases \in [mode : Modes, tree : [Releases -> Tree],
                            stage : [Releases -> StageTree]]
  BY ModesAssumption DEF EmptyPrefix, EmptyReleases, Links, Tree, StageTree, Modes
<1> HIDE DEF top
<1>8. /\ g \in Content
      /\ g["data"] = [fs["data"] EXCEPT !.root = "root"] /\ g["bin"] = fs["bin"]
      /\ g["prefix"] = top /\ g["releases"] = EmptyReleases
      /\ g["data"].root = "root" /\ g["data"].journal = fs["data"].journal
  BY <1>2, <1>7 DEF Content, top
<1>9. /\ RootIn(g, "root") /\ TreeIn(g, Journal.release) = "absent" /\ Clean(g)
      /\ NoNext(g) /\ LinksOld(g, Journal) /\ JournalIn(g) = Journal
  <2>1. Journal.release \in Releases
    BY <1>1, StagingFacts
  <2> QED
    BY <1>2, <1>5, <1>6, <1>8, <2>1 DEF RootIn, TreeIn, Clean, NoNext, LinksOld, LinksAre, LinkIn,
       JournalIn
<1>10. StagingOf(Journal, g)
  BY <1>4, <1>5, <1>6, <1>8, <1>9 DEF StagingOf, NoBackup
<1>11. \A f \in Kept \cup {g}, r \in Releases :
          f["releases"].tree[r] = "partial" => g["releases"].tree[r] # "whole"
  BY <1>6, <1>8
<1>12. LocalStage(y, g, Kept \cup {g})
  <2>1. y.at = "rootMode" /\ y.journal = Journal /\ ~y.recovering
    BY <1>2, StepTo
  <2> HIDE DEF x, y
  <2>2. \A f \in Kept \cup {g} : SameTransaction(y.journal, JournalIn(f))
    BY <1>2, <1>9, <2>1
  <2> QED
    BY <1>2, <1>5, <1>6, <1>8, <1>9, <2>1, <2>2 DEF LocalStage, Preparing, Extracting
<1> QED
  BY <1>1, <1>3, <1>8, <1>9, <1>10, <1>11, <1>12, StagingMutation

\* prepare_install_directories.
LEMMA PrepareKeeps ==
    ASSUME OneJournal, IInv, NEW p \in Procs, PrepareDirectories(p) PROVE IInv'
<1> DEFINE x == proc[p]
<1>1. x.at \in Staging
  BY DEF PrepareDirectories, At, Staging, Preparing
<1>2. /\ x.journal = Journal /\ Journal.op = "install" /\ ~x.recovering /\ fs \in Content
      /\ \A f \in Kept : SameTransaction(Journal, JournalIn(f))
      /\ Journal = JournalIn(fs) /\ fs \in Kept /\ x.at \in Within
      /\ LocalStage(x, fs, Kept)
  BY <1>1, StagingFacts, WithinFacts
<1>3. CASE At(p, "prepare") /\ ~RootAt("root")
  BY <1>3, RootPrepared DEF PrepareDirectories, At
<1>4. CASE At(p, "prepare") /\ RootAt("root")
  <2>1. Managed(fs) /\ Clean(fs)
    BY <1>2, <1>4 DEF LocalStage, At, Installed, Gone, RootAt, RootIn
  <2>2. Decide(p, "stage")
    BY <1>4, <2>1 DEF PrepareDirectories, At, Managed
  <2>3. LocalStage([x EXCEPT !.at = "stage"], fs, Kept)
    <3> DEFINE y == [x EXCEPT !.at = "stage"]
    <3>1. y.at = "stage" /\ y.journal = Journal /\ ~y.recovering
      BY <1>2, StepTo
    <3> HIDE DEF y
    <3> QED
      BY <1>2, <2>1, <3>1 DEF LocalStage, Preparing, Extracting
  <2>4. "stage" \in Staging /\ "stage" \in Within
    BY DEF Within, Staging
  <2> QED
    BY <1>2, <2>2, <2>3, <2>4, WithinDecide
<1>5. CASE x.at \in Preparing
  <2>1. /\ RootIn(fs, "root") /\ Journal.oldCurrent = None
        /\ TreeIn(fs, Journal.release) = "absent" /\ Clean(fs)
        /\ fs["prefix"].markerNext <=> x.at = "markerRename"
        /\ fs["prefix"].marker <=>
              x.at \in {"markerSync", "releases", "releasesMode", "releasesSync"}
        /\ x.at # "rootMode" => fs["prefix"].mode = "set"
        /\ x.at \in {"releasesMode", "releasesSync"} => fs["prefix"].releases
        /\ x.at = "releasesSync" => fs["releases"].mode = "set"
    BY <1>2, <1>5 DEF LocalStage
  <2>2. ASSUME NEW l \in {"marker", "releases"},
               \/ x.at = "rootSync" /\ l = "marker"
               \/ x.at = "markerSync" /\ l = "releases"
        PROVE  LocalStage([x EXCEPT !.at = l], fs, {fs}) /\ l \in Staging /\ l \in Within
    <3> DEFINE y == [x EXCEPT !.at = l]
    <3>1. y.at = l /\ y.journal = Journal /\ ~y.recovering
      BY <1>2, StepTo
    <3> HIDE DEF y
    <3>2. LocalStage(y, fs, {fs})
      BY <1>2, <2>1, <2>2, <3>1 DEF LocalStage, Preparing, Extracting
    <3> QED
      BY <3>2 DEF y, Within, Staging, Preparing
  <2>3. CASE x.at = "rootSync"
    <3>1. SyncThen(p, {"prefix", "data"}, "marker")
      BY <2>3 DEF PrepareDirectories, At
    <3>2. {"prefix", "data"} \subseteq Dirs /\ {"prefix", "data"} # {}
      BY DEF Dirs
    <3>3. LocalStage([x EXCEPT !.at = "marker"], fs, {fs}) /\ "marker" \in Staging \cap Within
      <4>1. \A l \in {"marker"} : LocalStage([x EXCEPT !.at = l], fs, {fs})
        BY <2>2, <2>3
      <4> QED
        BY <4>1 DEF Within, Staging, Preparing
    <3> QED
      BY <1>2, <3>1, <3>2, <3>3, WithinSync
  <2>4. CASE x.at = "markerSync"
    <3>1. SyncThen(p, {"prefix"}, "releases")
      BY <2>4 DEF PrepareDirectories, At
    <3> QED
      BY <1>2, <2>2, <2>4, <3>1, WithinSync DEF Dirs
  <2>5. CASE x.at \in {"rootMode", "marker", "markerRename"}
    <3>1. PICK top, l :
            /\ Mutate(p, With("prefix", top), l)
            /\ \/ /\ x.at = "rootMode" /\ l = "rootSync"
                  /\ top = [fs["prefix"] EXCEPT !.mode = "set"]
               \/ /\ x.at = "marker" /\ l = "markerRename"
                  /\ top = [fs["prefix"] EXCEPT !.markerNext = TRUE]
               \/ /\ x.at = "markerRename" /\ l = "markerSync"
                  /\ top = [fs["prefix"] EXCEPT !.markerNext = FALSE, !.marker = TRUE]
      BY <2>5 DEF PrepareDirectories, At, Prefix
    <3> DEFINE g == With("prefix", top)
    <3>2. /\ g \in Content /\ g["prefix"] = top
          /\ g["data"] = fs["data"] /\ g["bin"] = fs["bin"] /\ g["releases"] = fs["releases"]
      BY <1>2, <3>1 DEF Content, With, Modes
    <3>3. /\ top.current = fs["prefix"].current /\ top.rollback = fs["prefix"].rollback
          /\ top.next = fs["prefix"].next
          /\ x.at = "rootMode" => top.mode = "set" /\ top.marker = fs["prefix"].marker
                                    /\ top.markerNext = fs["prefix"].markerNext
          /\ x.at = "marker" => top.mode = fs["prefix"].mode /\ top.marker = fs["prefix"].marker
                                  /\ top.markerNext = TRUE
          /\ x.at = "markerRename" => top.mode = fs["prefix"].mode /\ top.marker = TRUE
                                        /\ top.markerNext = FALSE
      BY <1>2, <3>1 DEF Content
    <3>4. l \in Preparing \ {"rootMode", "releases", "releasesMode", "releasesSync"}
      BY <3>1 DEF Preparing
    <3> HIDE DEF g
    <3>5. /\ top.mode = "set"
          /\ top.markerNext <=> l = "markerRename"
          /\ top.marker <=> l \in {"markerSync", "releases", "releasesMode", "releasesSync"}
      BY <2>1, <3>1, <3>3
    <3>6. Mutate(p, g, l)
      BY <3>1 DEF g
    <3> QED
      BY <1>5, <3>2, <3>3, <3>4, <3>5, <3>6, PrefixPrepared
  <2>6. CASE x.at = "releases"
    <3>1. PICK m \in NewModes : Mutate(p, [fs EXCEPT !["prefix"].releases = TRUE,
                                                    !["releases"].mode = m], "releasesMode")
      BY <2>6 DEF PrepareDirectories, At
    <3> DEFINE g == [fs EXCEPT !["prefix"].releases = TRUE, !["releases"].mode = m]
    <3>2. /\ g["data"] = fs["data"] /\ g["bin"] = fs["bin"]
          /\ g["prefix"] = [fs["prefix"] EXCEPT !.releases = TRUE]
          /\ g["releases"] = [fs["releases"] EXCEPT !.mode = m]
          /\ g \in Content
      BY <1>2, <3>1, ModesAssumption DEF Content, Modes
    <3> HIDE DEF g
    <3>3. /\ g["prefix"].current = fs["prefix"].current
          /\ g["prefix"].rollback = fs["prefix"].rollback
          /\ g["prefix"].next = fs["prefix"].next /\ g["prefix"].mode = fs["prefix"].mode
          /\ g["prefix"].marker = fs["prefix"].marker /\ g["prefix"].releases = TRUE
          /\ g["prefix"].markerNext = fs["prefix"].markerNext
          /\ g["releases"].tree = fs["releases"].tree
          /\ g["releases"].stage = fs["releases"].stage
      BY <1>2, <3>2 DEF Content
    <3>4. Mutate(p, g, "releasesMode") /\ "releasesMode" \in Preparing
      BY <3>1 DEF g, Preparing
    <3> QED
      BY <1>5, <2>1, <2>6, <3>2, <3>3, <3>4, PrefixPrepared
  <2>7. CASE x.at = "releasesMode"
    <3> DEFINE g == With("releases", [fs["releases"] EXCEPT !.mode = "set"])
    <3>1. Mutate(p, g, "releasesSync")
      BY <2>7 DEF PrepareDirectories, At
    <3>2. /\ g["data"] = fs["data"] /\ g["bin"] = fs["bin"] /\ g["prefix"] = fs["prefix"]
          /\ g["releases"] = [fs["releases"] EXCEPT !.mode = "set"]
          /\ g \in Content
      BY <1>2 DEF Content, With, Modes
    <3> HIDE DEF g
    <3>3. /\ g["releases"].tree = fs["releases"].tree
          /\ g["releases"].stage = fs["releases"].stage /\ g["releases"].mode = "set"
      BY <1>2, <3>2 DEF Content
    <3>4. "releasesSync" \in Preparing
      BY DEF Preparing
    <3> QED
      BY <1>5, <2>1, <2>7, <3>1, <3>2, <3>3, <3>4, PrefixPrepared
  <2>8. CASE x.at = "releasesSync"
    <3> DEFINE y == [x EXCEPT !.at = "stage"]
    <3>1. SyncThen(p, {"releases", "prefix"}, "stage")
      BY <2>8 DEF PrepareDirectories, At
    <3>2. y.at = "stage" /\ y.journal = Journal /\ ~y.recovering
      BY <1>2, StepTo
    <3> HIDE DEF y
    <3>3. StagingOf(Journal, fs)
      BY <1>1, <2>1, StagingFacts
    <3>4. \A r \in Releases : fs["releases"].tree[r] = "absent"
      BY <2>1, <3>3 DEF StagingOf
    <3>5. Managed(fs)
      BY <2>1, <2>8, <3>4 DEF Managed
    <3>6. LocalStage(y, fs, {fs})
      BY <1>2, <2>1, <3>2, <3>5 DEF LocalStage, Preparing, Extracting
    <3>7. "stage" \in Staging /\ "stage" \in Within
      BY DEF Within, Staging
    <3> QED
      BY <1>2, <3>1, <3>6, <3>7, WithinSync DEF y, Dirs
  <2> QED
    BY <1>5, <2>3, <2>4, <2>5, <2>6, <2>7, <2>8 DEF Preparing
<1> QED
  BY <1>3, <1>4, <1>5 DEF PrepareDirectories, At, Preparing

\* An install that has its release in place may go on to the links.
LEMMA StagedFits ==
    ASSUME IInv, NEW p \in Procs, proc[p].at \in Staging,
           TreeIn(fs, Journal.release) # "absent"
    PROVE  /\ Accepts([proc[p].journal EXCEPT !.state = "committing"], fs)
           /\ proc[p].journal.op = "install" /\ TreeIn(fs, proc[p].journal.release) # "absent"
<1> DEFINE i == [Journal EXCEPT !.state = "committing"]
<1>1. proc[p].journal = Journal /\ Journal.op = "install" /\ LinkingOf(Journal, fs)
  BY StagingFacts
<1>2. JournalOK(i) /\ SameTransaction(i, Journal) /\ i.state = "committing" /\ i # None
  <2>1. JournalOK(Journal)
    BY StagingFacts, WithinFacts
  <2> QED
    BY <2>1, InState
<1> HIDE DEF i
<1>3. LinkingOf(i, fs)
  BY <1>1, <1>2, LinkingLater
<1>4. Accepts(i, fs)
  BY <1>1, <1>2, <1>3 DEF Accepts, SameTransaction
<1> QED
  BY <1>1, <1>4 DEF i

\* The release gets its name.
LEMMA ReleasePublished ==
    ASSUME OneJournal, IInv, NEW p \in Procs, At(p, "publish"),
           StageAt(Mem(p).release) = "whole", StageRelease(p)
    PROVE  IInv'
<1> DEFINE x == proc[p]
           r == Journal.release
           j == Journal
           rel == [fs["releases"] EXCEPT !.tree[r] = "whole", !.stage[r] = "absent"]
           g == With("releases", rel)
           y == [x EXCEPT !.at = "publishSync"]
<1>1. x.at = "publish" /\ x.at \in Staging /\ "publishSync" \in Staging
  BY DEF At, Staging, Extracting
<1>2. /\ x.journal = j /\ j.op = "install" /\ ~x.recovering /\ fs \in Content
      /\ \A f \in Kept : SameTransaction(j, JournalIn(f))
      /\ j = JournalIn(fs) /\ fs \in Kept /\ x.at \in Within /\ LocalStage(x, fs, Kept)
      /\ r \in Releases /\ j.newCurrent = r /\ j.newRollback = j.oldCurrent
      /\ j.launcher <=> j.oldCurrent # None
      /\ j.oldCurrent = None => j.oldRollback = None
  BY <1>1, StagingFacts, WithinFacts
<1>3. Managed(fs) /\ TreeIn(fs, r) = "absent"
  BY <1>1, <1>2 DEF LocalStage, Extracting
<1>4. StagingOf(j, fs)
  BY <1>1, <1>3, StagingFacts
<1>5. Mutate(p, g, "publishSync")
  BY <1>1, <1>2 DEF StageRelease, At, Mem
<1>6. /\ rel.tree[r] = "whole" /\ rel.stage[r] = "absent"
      /\ \A s \in Releases \ {r} : /\ rel.tree[s] = fs["releases"].tree[s]
                                   /\ rel.stage[s] = fs["releases"].stage[s]
      /\ rel \in [mode : Modes, tree : [Releases -> Tree], stage : [Releases -> StageTree]]
      /\ rel.mode = fs["releases"].mode
  BY <1>2 DEF Content, Tree, StageTree
<1> HIDE DEF rel
<1>7. /\ g \in Content /\ g["data"] = fs["data"] /\ g["bin"] = fs["bin"]
      /\ g["prefix"] = fs["prefix"] /\ g["releases"] = rel
      /\ g["data"] = [fs["data"] EXCEPT !.root = "root"]
  BY <1>2, <1>3, <1>6 DEF With, Content, RootIn, Managed
<1> HIDE DEF g
<1>8. /\ RootIn(g, "root") /\ TreeIn(g, r) = "whole" /\ NoNext(g) /\ LinksOld(g, j)
      /\ JournalIn(g) = j
  BY <1>2, <1>3, <1>4, <1>6, <1>7 DEF RootIn, TreeIn, NoNext, LinksOld, LinksAre, LinkIn,
     StagingOf, JournalIn, Managed
<1>9. Clean(g) /\ Managed(g)
  BY <1>2, <1>3, <1>4, <1>6, <1>7 DEF Clean, Managed, StagingOf, RootIn
<1>10. LinkingOf(j, g)
  <2>1. ASSUME NEW link \in {j.oldCurrent, j.oldRollback} PROVE Whole(g, link)
    <3>1. link # None => Whole(fs, link)
      BY <1>2, <1>4 DEF StagingOf
    <3>2. link \in Links
      <4>1. JournalOK(j)
        BY <1>2, WithinFacts
      <4> QED
        BY <4>1 DEF JournalOK, Journals
    <3> QED
      BY <1>6, <1>7, <3>1, <3>2 DEF Whole, Links
  <2>2. Whole(g, r)
    BY <1>6, <1>7 DEF Whole
  <2>3. /\ j.state # "committed" /\ ~g["bin"].entryNext /\ NoBackup(g)
        /\ g["bin"].entry <=> j.oldCurrent # None
    BY <1>4, <1>7 DEF StagingOf, NoBackup
  <2>4. g["prefix"].current = j.oldCurrent /\ g["prefix"].rollback = j.oldRollback
    BY <1>8 DEF LinksOld, LinksAre, LinkIn
  <2> QED
    BY <1>2, <1>8, <1>9, <2>1, <2>2, <2>3, <2>4 DEF LinkingOf, NoNext
<1>11. ASSUME NEW f \in Kept \cup {g}, NEW s \in Releases, f["releases"].tree[s] = "partial"
       PROVE  g["releases"].tree[s] # "whole"
  <2>1. CASE f = g
    BY <1>11, <2>1
  <2>2. CASE f \in Kept /\ s # r
    BY <1>6, <1>7, <1>11, <2>2 DEF IInv, HistoryInv
  <2>3. CASE f \in Kept /\ s = r
    <3>1. FileOK(f) /\ SameTransaction(j, JournalIn(f))
      BY <1>2, <2>3 DEF IInv, FilesInv
    <3>2. /\ JournalIn(f) # None /\ JournalIn(f).op = "install" /\ JournalIn(f).release = r
          /\ Accepts(JournalIn(f), f)
      BY <1>2, <3>1 DEF SameTransaction, FileOK
    <3>3. CASE TreeIn(f, r) = "absent"
      <4>1. RootIn(f, "absent") \/ RootIn(f, "root")
        BY <3>2, <3>3 DEF Accepts, StagingOf
      <4> QED
        BY <1>2, <1>11, <2>3, <3>1, <3>3, <4>1 DEF FileOK, TreeIn
    <3>4. CASE TreeIn(f, r) # "absent"
      <4>1. Managed(f)
        BY <3>2, <3>4 DEF Accepts, LinkingOf
      <4> QED
        BY <1>2, <1>11, <2>3, <4>1 DEF Managed
    <3> QED
      BY <3>3, <3>4
  <2> QED
    BY <2>1, <2>2, <2>3
<1>12. LocalStage(y, g, Kept \cup {g})
  <2>1. y.at = "publishSync" /\ y.journal = j /\ ~y.recovering
    BY <1>2, StepTo
  <2> HIDE DEF x, y
  <2>2. \A f \in Kept \cup {g} : SameTransaction(y.journal, JournalIn(f))
    BY <1>2, <1>8, <2>1
  <2> QED
    BY <1>2, <1>8, <2>1, <2>2 DEF LocalStage, Preparing, Extracting
<1> QED
  BY <1>1, <1>3, <1>5, <1>7, <1>8, <1>10, <1>11, <1>12, StagingMutation

\* The staging directory of the release changes.
LEMMA StageSet ==
    ASSUME IInv, NEW p \in Procs, proc[p].at \in Staging,
           TreeIn(fs, Journal.release) = "absent", Managed(fs),
           NEW t \in StageTree, NEW g, g = SetStage(Journal.release, t)
    PROVE  /\ g \in Content /\ g["data"] = fs["data"] /\ g["bin"] = fs["bin"]
           /\ g["data"] = [fs["data"] EXCEPT !.root = "root"]
           /\ g["prefix"] = fs["prefix"] /\ g["releases"].tree = fs["releases"].tree
           /\ JournalIn(g) = Journal /\ LinksOld(g, Journal)
           /\ TreeIn(g, Journal.release) = "absent"
           /\ Managed(g) /\ StagingOf(Journal, g)
<1> DEFINE r == Journal.release
           rel == [fs["releases"] EXCEPT !.stage[r] = t]
<1>1. fs \in Content /\ Journal = JournalIn(fs) /\ r \in Releases /\ StagingOf(Journal, fs)
  BY StagingFacts, WithinFacts
<1>2. /\ rel.tree = fs["releases"].tree /\ rel.mode = fs["releases"].mode
      /\ \A s \in Releases \ {r} : rel.stage[s] = fs["releases"].stage[s]
      /\ rel \in [mode : Modes, tree : [Releases -> Tree], stage : [Releases -> StageTree]]
  BY <1>1 DEF Content
<1>3. g = With("releases", rel)
  BY DEF SetStage
<1> HIDE DEF rel
<1>4. /\ g \in Content /\ g["data"] = fs["data"] /\ g["bin"] = fs["bin"]
      /\ g["prefix"] = fs["prefix"] /\ g["releases"] = rel
      /\ g["data"] = [fs["data"] EXCEPT !.root = "root"]
  <2>1. /\ g \in Content /\ g["data"] = fs["data"] /\ g["bin"] = fs["bin"]
        /\ g["prefix"] = fs["prefix"] /\ g["releases"] = rel
    BY <1>1, <1>2, <1>3 DEF With, Content
  <2>2. fs["data"].root = "root" /\ fs["data"] = [fs["data"] EXCEPT !.root = fs["data"].root]
    BY <1>1 DEF Content, RootIn, Managed
  <2> QED
    BY <2>1, <2>2
<1>5. /\ JournalIn(g) = Journal /\ LinksOld(g, Journal) /\ TreeIn(g, r) = "absent" /\ NoNext(g)
      /\ RootIn(g, "root") /\ Managed(g)
  <2>1. /\ g["data"] = fs["data"] /\ g["prefix"] = fs["prefix"]
        /\ g["releases"].tree = fs["releases"].tree /\ g["releases"].mode = fs["releases"].mode
    BY <1>2, <1>4
  <2>2. RootIn(fs, "root") /\ LinksOld(fs, Journal) /\ NoNext(fs)
    BY <1>1 DEF Managed, StagingOf
  <2>3. Managed(g) /\ RootIn(g, "root") /\ NoNext(g) /\ TreeIn(g, r) = "absent"
    BY <2>1, <2>2 DEF Managed, RootIn, NoNext, TreeIn
  <2> QED
    BY <1>1, <2>1, <2>2, <2>3 DEF JournalIn, LinksOld, LinksAre, LinkIn, RootIn
<1>6. StagingOf(Journal, g)
  BY <1>1, <1>2, <1>4, <1>5 DEF StagingOf, NoBackup, Whole, RootIn
<1> QED
  BY <1>2, <1>4, <1>5, <1>6

\* A step of the staging directory.
LEMMA StageChanged ==
    ASSUME OneJournal, IInv, NEW p \in Procs, proc[p].at \in Staging,
           TreeIn(fs, Journal.release) = "absent", Managed(fs),
           NEW t \in StageTree, NEW l \in Extracting,
           Mutate(p, SetStage(Journal.release, t), l)
    PROVE  IInv'
<1> DEFINE x == proc[p]
           g == SetStage(Journal.release, t)
           y == [x EXCEPT !.at = l]
<1>1. /\ g \in Content /\ g["data"] = fs["data"] /\ g["bin"] = fs["bin"]
      /\ g["data"] = [fs["data"] EXCEPT !.root = "root"]
      /\ g["releases"].tree = fs["releases"].tree
      /\ JournalIn(g) = Journal /\ LinksOld(g, Journal) /\ TreeIn(g, Journal.release) = "absent"
      /\ Managed(g) /\ StagingOf(Journal, g)
  BY StageSet
<1>2. /\ x.journal = Journal /\ Journal.op = "install" /\ ~x.recovering
      /\ \A f \in Kept : SameTransaction(Journal, JournalIn(f))
      /\ fs \in Kept /\ Journal = JournalIn(fs)
  BY StagingFacts, WithinFacts
<1>3. Mutate(p, g, l) /\ l \in Staging
  BY DEF Staging
<1> HIDE DEF g
<1>4. \A f \in Kept \cup {g}, s \in Releases :
         f["releases"].tree[s] = "partial" => g["releases"].tree[s] # "whole"
  BY <1>1 DEF IInv, HistoryInv
<1>5. LocalStage(y, g, Kept \cup {g})
  <2>1. y.at = l /\ y.journal = Journal /\ ~y.recovering
    BY <1>2, StepTo
  <2> HIDE DEF x, y
  <2>2. \A f \in Kept \cup {g} : SameTransaction(y.journal, JournalIn(f))
    BY <1>1, <1>2, <2>1
  <2> QED
    BY <1>1, <1>2, <2>1, <2>2 DEF LocalStage, Preparing, Extracting
<1> QED
  BY <1>1, <1>3, <1>4, <1>5, StagingMutation

\* The staging directory of an install is made, with its bin/.
LEMMA MakeStagingKeeps ==
    ASSUME OneJournal, IInv, NEW p \in Procs, MakeStaging(p) PROVE IInv'
<1> DEFINE x == proc[p]
           r == Journal.release
<1>1. /\ x.at \in {"stage", "stageMode", "stageSync", "stageBin", "stageBinMode", "stageBinSync"}
      /\ x.at \in Staging
  BY DEF MakeStaging, At, Staging, Extracting
<1>2. /\ x.journal = Journal /\ Journal.op = "install" /\ ~x.recovering /\ fs \in Content
      /\ \A f \in Kept : SameTransaction(Journal, JournalIn(f))
      /\ Journal = JournalIn(fs) /\ fs \in Kept /\ x.at \in Within
      /\ LocalStage(x, fs, Kept) /\ r \in Releases /\ Mem(p).release = r
  BY <1>1, StagingFacts, WithinFacts DEF Mem
<1>3. TreeAt(r) = TreeIn(fs, r)
  BY DEF TreeAt, TreeIn, RootAt, RootIn
<1>4. Managed(fs) /\ RootAt("root") /\ TreeIn(fs, r) = "absent"
  BY <1>1, <1>2, <1>3 DEF LocalStage, Managed, RootIn, RootAt, MakeStaging, At, Extracting
<1>5. {"partial", "loose"} \subseteq StageTree
  BY DEF StageTree, Tree
<1>6. \A m \in NewModes : Made(m) \in StageTree
  BY <1>5 DEF Made
<1>7. CASE x.at = "stage"
  <2>1. StageAt(r) = "absent"
    BY <1>2, <1>4, <1>7 DEF LocalStage, Clean, StageAt
  <2>2. PICK m \in NewModes : Mutate(p, SetStage(r, Made(m)), "stageMode")
    BY <1>2, <1>7, <2>1 DEF MakeStaging, At
  <2>3. "stageMode" \in Extracting
    BY DEF Extracting
  <2> QED
    BY <1>1, <1>4, <1>6, <2>2, <2>3, StageChanged
<1>8. CASE x.at = "stageBin"
  <2>1. PICK m \in NewModes : Mutate(p, SetStage(r, Made(m)), "stageBinMode")
    BY <1>2, <1>8 DEF MakeStaging, At
  <2>2. "stageBinMode" \in Extracting
    BY DEF Extracting
  <2> QED
    BY <1>1, <1>4, <1>6, <2>1, <2>2, StageChanged
<1>9. CASE x.at \in {"stageMode", "stageBinMode"}
  <2>1. PICK l \in {"stageSync", "stageBinSync"} : Mutate(p, SetStage(r, "partial"), l)
    BY <1>2, <1>9 DEF MakeStaging, At
  <2>2. l \in Extracting
    BY DEF Extracting
  <2> QED
    BY <1>1, <1>4, <1>5, <2>1, <2>2, StageChanged
<1>10. CASE x.at \in {"stageSync", "stageBinSync"}
  <2>1. PICK l \in {"stageBin", "extract"} : SyncThen(p, {"releases"}, l)
    BY <1>10 DEF MakeStaging, At
  <2> DEFINE y == [x EXCEPT !.at = l]
  <2>2. y.at = l /\ y.journal = Journal /\ ~y.recovering
    BY <1>2, StepTo
  <2>3. l \in Staging /\ l \in Within
    BY DEF Staging, Extracting, Within
  <2>4. LocalStage(y, fs, {fs})
    <3> HIDE DEF y
    <3> QED
      BY <1>2, <1>4, <2>1, <2>2 DEF LocalStage, Preparing, Extracting
  <2>5. {"releases"} \subseteq Dirs /\ {"releases"} # {}
    BY DEF Dirs
  <2> QED
    BY <1>2, <2>1, <2>3, <2>4, <2>5, WithinSync
<1> QED
  BY <1>1, <1>7, <1>8, <1>9, <1>10

\* apply_install: extraction and publication of the release.
LEMMA StageKeeps ==
    ASSUME OneJournal, IInv, NEW p \in Procs, StageRelease(p) PROVE IInv'
<1> DEFINE x == proc[p]
           j == Journal
           r == j.release
<1>1. x.at \in {"stage", "extract", "publish", "publishSync"} /\ x.at \in Staging
  BY DEF StageRelease, At, Staging, Extracting
<1>2. /\ x.journal = j /\ j.op = "install" /\ ~x.recovering /\ fs \in Content
      /\ \A f \in Kept : SameTransaction(j, JournalIn(f))
      /\ j = JournalIn(fs) /\ fs \in Kept /\ x.at \in Within /\ ~At(p, "idle")
      /\ LocalStage(x, fs, Kept) /\ r \in Releases /\ Mem(p).release = r
      /\ ~fs["data"].journalNext /\ JournalOK(j) /\ j # None /\ report = None
      /\ x \in ProcRecord /\ x.cmd # None
  BY <1>1, StagingFacts, WithinFacts DEF Mem
<1>3. /\ x.at \in {"stage", "extract"} => Managed(fs) /\ RootAt("root")
      /\ x.at = "stage" => Clean(fs)
      /\ x.at \in {"extract", "publish"} => TreeIn(fs, r) = "absent"
      /\ x.at = "publishSync" => TreeIn(fs, r) = "whole"
  BY <1>2 DEF LocalStage, Managed, RootIn, RootAt, Extracting
<1>4. TreeAt(r) = TreeIn(fs, r)
  BY DEF TreeAt, TreeIn, RootAt, RootIn
<1>6. x.at = "stage" => TreeAt(r) # "absent"
  BY <1>2 DEF StageRelease, At
<1>7. CASE x.at = "stage" /\ TreeAt(r) # "absent"
  <2>1. TreeAt(r) = "whole" /\ TreeAt(r) = fs["releases"].tree[r]
    BY <1>2, <1>3, <1>7 DEF TreeAt, Managed, Content, Tree
  <2>a. CASE ~Own(p, r)
    <3>1. Refuse(p) /\ ~OnlyOwn(p)
      BY <1>2, <1>7, <2>1, <2>a DEF StageRelease, At, OnlyOwn
    <3> QED
      BY <1>2, <3>1, RefuseKeeps
  <2>b. SUFFICES ASSUME Own(p, r) PROVE IInv'
    BY <2>a
  <2>2. Carry(p, [Mem(p) EXCEPT !.state = "committing"], "journal")
    BY <1>2, <1>7, <2>1, <2>b DEF StageRelease, At
  <2> QED
    BY <1>1, <1>2, <1>4, <1>7, <2>2, StagedFits, NextStateCarried
<1>8. CASE x.at = "extract"
  <2> DEFINE y == [x EXCEPT !.at = "publish"]
  <2>1. /\ fs' = SetStage(r, "whole")
        /\ images' = [m \in Domains |-> IF "releases" \in m THEN {Image(fs', m)} ELSE images[m]]
        /\ Goto(p, "publish") /\ UNCHANGED <<lock, refused, report>>
    BY <1>2, <1>8 DEF StageRelease, At
  <2>2. /\ fs' \in Content /\ fs'["data"] = fs["data"]
        /\ JournalIn(fs') = j /\ TreeIn(fs', r) = "absent"
        /\ Managed(fs') /\ StagingOf(j, fs')
    BY <1>1, <1>3, <1>8, <2>1, StageSet DEF Tree, StageTree
  <2>3. Kept' = {fs'} /\ images' = [m \in Domains |-> Kept']
    <3>1. Image(fs', Dirs) = fs'
      BY <2>2, ImageIs
    <3>2. "releases" \in Dirs
      BY DEF Dirs
    <3> QED
      BY <2>1, <3>1, <3>2 DEF OneJournal, Kept
  <2>4. FileOK(fs')
    BY <1>2, <2>2 DEF FileOK, Accepts, Managed, RootIn
  <2>5. Local(y, fs', {fs'}, report)
    <3>1. y.at = "publish" /\ y.journal = j /\ ~y.recovering
      BY <1>2, StepTo
    <3>2. SameTransaction(j, j)
      BY <1>2 DEF SameTransaction
    <3>3. LocalStage(y, fs', {fs'})
      <4> HIDE DEF x, y
      <4> QED
        BY <1>2, <2>2, <3>1, <3>2 DEF LocalStage, Preparing, Extracting
    <3>4. "publish" \in Staging
      BY DEF Staging, Extracting
    <3>5. ~fs'["data"].journalNext
      BY <1>2, <2>2
    <3> QED
      BY <1>2, <2>2, <3>3, <3>4, <3>5, WithinStep
  <2>6. ProcTypes' /\ ProcInv'
    <3>1. y \in ProcRecord /\ y.cmd # None /\ proc' = [proc EXCEPT ![p] = y]
      <4>1. "publish" \in Labels
        BY DEF Labels
      <4> QED
        BY <1>2, <2>1, <4>1, GotoFacts DEF IInv
    <3>2. y.at # "idle"
      BY StepTo
    <3>3. Local(y, fs', Kept', report')
      BY <2>1, <2>3, <2>5
    <3> HIDE DEF y
    <3> QED
      BY <1>2, <2>1, <3>1, <3>2, <3>3, MoveKeeps DEF IInv
  <2>7. FilesInv' /\ HistoryInv'
    BY <2>3, <2>4, HistoryOfOne DEF FilesInv
  <2>8. ReportInv'
    BY <1>2, <2>1 DEF ReportInv, Told
  <2> QED
    BY <2>1, <2>6, <2>7, <2>8 DEF IInv
<1>9. CASE x.at = "publish"
  BY <1>9, ReleasePublished DEF StageRelease, At
<1>10. CASE x.at = "publishSync"
  <2>1. /\ Sync({"releases"}) /\ UNCHANGED <<lock, refused, report>>
        /\ proc' = [proc EXCEPT ![p].at = "journal", ![p].journal.state = "committing"]
    BY <1>10 DEF StageRelease, At
  <2>2. {"releases"} \subseteq Dirs /\ {"releases"} # {}
    BY DEF Dirs
  <2>3. TreeIn(fs, r) # "absent"
    BY <1>3, <1>10
  <2> QED
    BY <1>1, <1>2, <2>1, <2>2, <2>3, StagedFits, NextStateSynced
<1> QED
  BY <1>1, <1>6, <1>7, <1>8, <1>9, <1>10

----------------------------------------------------------------------------
(* The link transaction and the launcher.                                  *)

\* The new pair and its launcher are in place.
NewDone(f, j) == LinksNew(f, j) /\ NoNext(f) /\ f["bin"].entry

\* Links that may be switched for journal j.
LinkParts(f, j) ==
    /\ RootIn(f, "root") /\ j.op # "uninstall" /\ JournalOK(j) /\ j.state # "committed"
    /\ LinkingOf(j, f)

\* What a process knows that switches the links.
LEMMA LinkingFacts ==
    ASSUME IInv, NEW p \in Procs, proc[p].at \in Linking
    PROVE  /\ proc[p].at \in Within /\ LocalLink(proc[p], fs) /\ LinkParts(fs, proc[p].journal)
           /\ LinkingOf(Journal, fs) /\ Journal.op # "uninstall"
<1> DEFINE x == proc[p]
<1>1. x.at \in Within
  BY DEF Within
<1>2. LocalLink(x, fs)
  BY <1>1, WithinFacts DEF Local
<1>3. x.journal.op # "uninstall" /\ x.journal.state # "committed" /\ LinkingOf(x.journal, fs)
  BY <1>2 DEF LocalLink
<1>4. /\ JournalOK(x.journal) /\ SameTransaction(x.journal, Journal) /\ Accepts(Journal, fs)
      /\ Journal # None /\ JournalOK(Journal)
  BY <1>1, WithinFacts
<1>5. LinkParts(fs, x.journal)
  BY <1>3, <1>4 DEF LinkParts, LinkingOf, Managed
<1>6. LinkingOf(Journal, fs) /\ Journal.op # "uninstall"
  <2>1. /\ Journal.op # "uninstall" /\ Journal.op \in {"install", "rollback", "uninstall"}
        /\ Whole(fs, Journal.newCurrent)
    BY <1>3, <1>4 DEF SameTransaction, JournalOK, Journals, LinkingOf
  <2>2. Journal.op = "install" => TreeIn(fs, Journal.release) # "absent"
    BY <1>4, <1>5, <2>1, ReleasesAssumption DEF JournalOK, Whole, TreeIn, LinkParts
  <2> QED
    BY <1>4, <2>1, <2>2 DEF Accepts
<1> QED
  BY <1>1, <1>2, <1>5, <1>6

\* A mutation on the way from the old pair to the new one.
LEMMA LinkingMutation ==
    ASSUME OneJournal, IInv, NEW p \in Procs, proc[p].at \in Linking,
           NEW l \in Linking, NEW g \in Content, Mutate(p, g, l),
           g["data"] = fs["data"], g["releases"] = fs["releases"],
           LinkingOf(proc[p].journal, g),
           NewDone(fs, proc[p].journal) => NewDone(g, proc[p].journal),
           LocalLink([proc[p] EXCEPT !.at = l], g)
    PROVE  IInv'
<1> DEFINE x == proc[p]
           j == Journal
<1>1. /\ x.at \in Within /\ ~At(p, "idle") /\ j # None /\ JournalOK(j)
      /\ ~fs["data"].journalNext /\ j = JournalIn(fs) /\ fs \in Content
      /\ SameTransaction(x.journal, j) /\ LinkingOf(j, fs) /\ j.op # "uninstall"
      /\ LinkParts(fs, x.journal)
  BY LinkingFacts, WithinFacts
<1>2. JournalIn(g) = j /\ ~g["data"].journalNext /\ RootIn(g, "root")
  BY <1>1 DEF JournalIn, RootIn, LinkParts
<1>3. NewDone(fs, j) => NewDone(g, j)
  BY <1>1, TransactionLinks DEF NewDone
<1>4. LinkingOf(j, g)
  <2>1. j.state = "committed" => NewDone(fs, j)
    BY <1>1 DEF LinkingOf, NewDone
  <2>2. SameTransaction(j, x.journal)
    BY <1>1 DEF SameTransaction
  <2> QED
    BY <1>3, <2>1, <2>2, LinkingLater DEF NewDone
<1>5. /\ j.op = "install" => TreeIn(g, j.release) # "absent" /\ TreeIn(fs, j.release) # "absent"
      /\ j.op \in {"install", "rollback", "uninstall"}
  <2>1. j.op = "install" => j.release \in Releases /\ j.newCurrent = j.release
    BY <1>1 DEF JournalOK
  <2>2. Whole(g, j.newCurrent) /\ Whole(fs, j.newCurrent) /\ RootIn(fs, "root")
    BY <1>1, <1>4 DEF LinkingOf, LinkParts
  <2> QED
    BY <1>1, <1>2, <2>1, <2>2, ReleasesAssumption DEF Whole, TreeIn, JournalOK, Journals
<1>6. FileOK(g)
  BY <1>1, <1>2, <1>4, <1>5 DEF FileOK, Accepts, RootIn
<1>7. ~Fresh(j, g) /\ ~Fresh(j, fs)
  BY <1>1, <1>5 DEF Fresh
<1>8. Ended(j, fs) => NewDone(fs, j)
  BY <1>1, <1>7 DEF Ended, NewDone
<1>9. NewDone(fs, j) => Ended(j, g) /\ Alike(g, fs)
  BY <1>1, <1>3 DEF Ended, NewDone, Alike, LinksNew, LinksAre
<1>10. Continues(fs, g, j, report)
  BY <1>2, <1>6, <1>7, <1>8, <1>9 DEF Continues
<1>11. \A f \in Kept \cup {g}, r \in Releases :
          f["releases"].tree[r] = "partial" => g["releases"].tree[r] # "whole"
  BY DEF IInv, HistoryInv
<1>12. Local([x EXCEPT !.at = l], g, Kept \cup {g}, report)
  BY <1>1, <1>2, WithinStep
<1>13. l \in Labels /\ l # "idle"
  BY WithinLabels DEF Within
<1> QED
  BY <1>1, <1>10, <1>11, <1>12, <1>13, MutateKeeps

\* apply_link_transaction: the releases of both links.
LEMMA ValidateKeeps ==
    ASSUME IInv, NEW p \in Procs, ValidateTargets(p) PROVE IInv'
<1> DEFINE x == proc[p]
           m == x.journal
           y == [x EXCEPT !.at = "rollback"]
<1>1. x.at = "validate" /\ x.at \in Linking /\ "rollback" \in Linking /\ "rollback" \in Within
  BY DEF ValidateTargets, At, Linking, Within
<1>2. /\ x.at \in Within /\ LinkParts(fs, m) /\ LocalLink(x, fs)
  BY <1>1, LinkingFacts
<1>3. \A r \in {m.newCurrent, m.newRollback} \ {None} : TreeAt(r) = "whole" /\ r \in Releases
  <2>1. m.newCurrent \in Links /\ m.newRollback \in Links
    BY <1>2 DEF LinkParts, JournalOK, Journals
  <2> QED
    BY <1>2, <2>1 DEF LinkParts, LinkingOf, Whole, TreeAt, RootAt, RootIn, Links
<1>4. y.at = "rollback" /\ y.journal = m
  BY StepTo
<1> HIDE DEF m, y
<1>5. LocalLink(y, fs)
  BY <1>2, <1>4 DEF LocalLink, LinkParts, RollbackDone, CurrentDone, LauncherLabels
<1>6. ASSUME Decide(p, "rollback") PROVE IInv'
  <2> USE DEF y
  <2> QED
    BY <1>1, <1>2, <1>5, <1>6, WithinDecide
<1>7. CASE ~OnlyOwn(p)
  <2>1. Decide(p, "rollback") \/ Refuse(p)
    BY DEF ValidateTargets
  <2>2. ~At(p, "idle")
    BY <1>1 DEF At
  <2>3. CASE Refuse(p)
    BY <1>7, <2>2, <2>3, RefuseKeeps
  <2>4. CASE Decide(p, "rollback")
    BY <1>6, <2>4
  <2> QED
    BY <2>1, <2>3, <2>4
<1>8. CASE OnlyOwn(p)
  <2>1. Decide(p, "rollback")
    BY <1>3, <1>8 DEF ValidateTargets, Mem, OnlyOwn, TreeAt, m
  <2> QED
    BY <1>6, <2>1
<1> QED
  BY <1>7, <1>8

\* One link and its staging name are written.
TopOf(name, link, tmp) ==
    With("prefix", [fs["prefix"] EXCEPT ![name] = link, !.next[name] = tmp])

\* What the directories hold after it.
LEMMA TopLinks ==
    ASSUME fs \in Content, NEW name \in {"current", "rollback"}, NEW link \in Links,
           NEW tmp \in Links, NEW g, g = TopOf(name, link, tmp)
    PROVE  /\ g \in Content /\ g["data"] = fs["data"] /\ g["releases"] = fs["releases"]
           /\ g["bin"] = fs["bin"]
           /\ g["prefix"].mode = fs["prefix"].mode
           /\ g["prefix"].marker = fs["prefix"].marker
           /\ g["prefix"].markerNext = fs["prefix"].markerNext
           /\ g["prefix"].releases = fs["prefix"].releases
           /\ g["prefix"][name] = link /\ g["prefix"].next[name] = tmp
           /\ name = "current" => /\ g["prefix"].rollback = fs["prefix"].rollback
                                  /\ g["prefix"].next["rollback"] = fs["prefix"].next["rollback"]
           /\ name = "rollback" => /\ g["prefix"].current = fs["prefix"].current
                                   /\ g["prefix"].next["current"] = fs["prefix"].next["current"]
<1>1. CASE name = "current"
  BY <1>1 DEF Content, With, TopOf
<1>2. CASE name = "rollback"
  BY <1>2 DEF Content, With, TopOf
<1> QED
  BY <1>1, <1>2

\* The target of a link.
TargetOf(j, name) == IF name = "current" THEN j.newCurrent ELSE j.newRollback

\* Such a write keeps the transaction between its two pairs.
LEMMA TopLinking ==
    ASSUME fs \in Content, NEW j, LinkParts(fs, j), NEW name \in {"current", "rollback"},
           NEW link \in Links, NEW tmp \in Links, NEW g, g = TopOf(name, link, tmp),
           link = TargetOf(j, name) \/ link = fs["prefix"][name],
           tmp = None \/ tmp = TargetOf(j, name)
    PROVE  LinkingOf(j, g) /\ RootIn(g, "root")
<1>1. /\ g["data"] = fs["data"] /\ g["releases"] = fs["releases"]
      /\ g["bin"] = fs["bin"]
      /\ g["prefix"].mode = fs["prefix"].mode
      /\ g["prefix"].marker = fs["prefix"].marker
      /\ g["prefix"].markerNext = fs["prefix"].markerNext
      /\ g["prefix"].releases = fs["prefix"].releases
      /\ g["prefix"][name] = link /\ g["prefix"].next[name] = tmp
      /\ name = "current" => /\ g["prefix"].rollback = fs["prefix"].rollback
                             /\ g["prefix"].next["rollback"] = fs["prefix"].next["rollback"]
      /\ name = "rollback" => /\ g["prefix"].current = fs["prefix"].current
                              /\ g["prefix"].next["current"] = fs["prefix"].next["current"]
  BY TopLinks
<1>2. LinkingOf(j, fs) /\ RootIn(fs, "root") /\ j.state # "committed"
  BY DEF LinkParts
<1>3. Managed(g) /\ RootIn(g, "root")
  BY <1>1, <1>2 DEF LinkingOf, Managed, RootIn
<1>4. Clean(g) /\ NoBackup(g)
  BY <1>1, <1>2 DEF LinkingOf, Clean, NoBackup
<1>5. /\ Whole(g, j.oldCurrent) /\ Whole(g, j.oldRollback)
      /\ Whole(g, j.newCurrent) /\ Whole(g, j.newRollback)
  BY <1>1, <1>2 DEF LinkingOf, Whole
<1>6. /\ g["prefix"].current \in {j.oldCurrent, j.newCurrent}
      /\ g["prefix"].rollback \in {j.oldRollback, j.newRollback}
      /\ g["prefix"].next["current"] \in {None, j.newCurrent}
      /\ g["prefix"].next["rollback"] \in {None, j.newRollback}
  <2>1. /\ fs["prefix"].current \in {j.oldCurrent, j.newCurrent}
        /\ fs["prefix"].rollback \in {j.oldRollback, j.newRollback}
        /\ fs["prefix"].next["current"] \in {None, j.newCurrent}
        /\ fs["prefix"].next["rollback"] \in {None, j.newRollback}
    BY <1>2 DEF LinkingOf
  <2>2. CASE name = "current"
    BY <1>1, <2>1, <2>2 DEF TargetOf
  <2>3. CASE name = "rollback"
    BY <1>1, <2>1, <2>3 DEF TargetOf
  <2> QED
    BY <2>2, <2>3
<1>7. (j.launcher => g["bin"].entry) /\ (g["bin"].entry => ~g["bin"].entryNext)
  BY <1>1, <1>2 DEF LinkingOf
<1> QED
  BY <1>2, <1>3, <1>4, <1>5, <1>6, <1>7 DEF LinkingOf

\* A link is written on the way from the old pair to the new one.
LEMMA LinkWritten ==
    ASSUME OneJournal, IInv, NEW p \in Procs, proc[p].at \in Linking,
           NEW name \in {"current", "rollback"}, NEW target,
           target = TargetOf(proc[p].journal, name),
           NEW link \in Links, NEW tmp \in Links,
           link = target \/ link = fs["prefix"][name],
           tmp = None \/ (tmp = target /\ fs["prefix"][name] # target),
           NEW l \in Linking, NEW g, g = TopOf(name, link, tmp), Mutate(p, g, l),
           LocalLink([proc[p] EXCEPT !.at = l], g)
    PROVE  IInv'
<1> DEFINE m == proc[p].journal
<1>1. fs \in Content /\ LinkParts(fs, m) /\ LinkingOf(m, fs)
  BY LinkingFacts, WithinFacts DEF LinkParts
<1>2. /\ g \in Content /\ g["data"] = fs["data"] /\ g["releases"] = fs["releases"]
      /\ g["bin"] = fs["bin"]
      /\ g["prefix"][name] = link /\ g["prefix"].next[name] = tmp
      /\ name = "current" => /\ g["prefix"].rollback = fs["prefix"].rollback
                             /\ g["prefix"].next["rollback"] = fs["prefix"].next["rollback"]
      /\ name = "rollback" => /\ g["prefix"].current = fs["prefix"].current
                              /\ g["prefix"].next["current"] = fs["prefix"].next["current"]
  BY <1>1, TopLinks
<1>3. LinkingOf(m, g) /\ RootIn(g, "root")
  BY <1>1, TopLinking
<1>4. NewDone(fs, m) => NewDone(g, m)
  <2> HIDE DEF m
  <2> SUFFICES ASSUME NewDone(fs, m) PROVE NewDone(g, m)
    OBVIOUS
  <2>1. /\ fs["prefix"].current = m.newCurrent /\ fs["prefix"].rollback = m.newRollback
        /\ NoNext(fs) /\ fs["bin"].entry
    BY <1>1 DEF NewDone, LinksNew, LinksAre, LinkIn, LinkParts
  <2>2. target = TargetOf(m, name)
    BY DEF m
  <2>3. g["prefix"].current = m.newCurrent /\ g["prefix"].rollback = m.newRollback /\ NoNext(g)
    <3>1. CASE name = "current"
      BY <1>2, <2>1, <2>2, <3>1 DEF NoNext, TargetOf
    <3>2. CASE name = "rollback"
      BY <1>2, <2>1, <2>2, <3>2 DEF NoNext, TargetOf
    <3> QED
      BY <3>1, <3>2
  <2> QED
    BY <1>2, <1>3, <2>1, <2>3 DEF NewDone, LinksNew, LinksAre, LinkIn
<1> QED
  BY <1>2, <1>3, <1>4, LinkingMutation

\* replace_release_link of either link.
LEMMA ReplaceKeeps ==
    ASSUME OneJournal, IInv, NEW p \in Procs,
           NEW name \in {"current", "rollback"}, NEW target, NEW next,
           target = TargetOf(proc[p].journal, name),
           next = IF name = "current" THEN "launcherParent" ELSE "current",
           ReplaceLink(p, name, target, next)
    PROVE  IInv'
<1> DEFINE x == proc[p]
           m == x.journal
           staged == fs["prefix"].next[name]
<1>1. x.at \in {name, RenameOf(name), SyncOf(name)}
  BY DEF ReplaceLink, At
<1>2. /\ name \in Linking /\ RenameOf(name) \in Linking /\ SyncOf(name) \in Linking
      /\ next \in Linking
  BY DEF RenameOf, SyncOf, Linking, RollbackDone, CurrentDone, LauncherLabels
<1>3. /\ x.at \in Linking /\ x.at \in Within /\ LinkParts(fs, m) /\ LocalLink(x, fs)
      /\ fs \in Content
  BY <1>1, <1>2, LinkingFacts, WithinFacts
<1>4. /\ Link(name) = fs["prefix"][name]
      /\ staged \in {None, target}
      /\ fs["prefix"][name] \in Links /\ target \in Links
      /\ name = "current" => target # None
  <2>1. RootAt("root")
    BY <1>3 DEF LinkParts, RootIn, RootAt
  <2>2. m.newCurrent \in Links /\ m.newRollback \in Links
    BY <1>3 DEF LinkParts, JournalOK, Journals
  <2>3. fs["prefix"]["current"] \in Links /\ fs["prefix"]["rollback"] \in Links
    BY <1>3 DEF Content
  <2>4. m.newCurrent # None
    <3>1. m.op \in {"install", "rollback", "uninstall"}
      BY <1>3 DEF LinkParts, JournalOK, Journals
    <3> QED
      BY <1>3, <3>1, ReleasesAssumption DEF LinkParts, JournalOK
  <2> QED
    BY <1>3, <2>1, <2>2, <2>3, <2>4 DEF Link, LinkParts, LinkingOf, TargetOf
<1>5. /\ name \notin CurrentDone /\ (name = "current" => name \in RollbackDone)
      /\ name = "rollback" => name \notin RollbackDone
      /\ RenameOf(name) \notin CurrentDone /\ (name = "current" => RenameOf(name) \in RollbackDone)
      /\ name = "rollback" => RenameOf(name) \notin RollbackDone
      /\ SyncOf(name) \in RollbackDone /\ (name = "current" <=> SyncOf(name) \in CurrentDone)
      /\ next \in RollbackDone /\ (name = "current" <=> next \in CurrentDone)
      /\ RenameOf(name) = "rollbackRename" <=> name = "rollback"
      /\ RenameOf(name) = "currentRename" <=> name = "current"
      /\ name \notin {"rollbackRename", "currentRename", "launcherRename", "launcherSync"}
      /\ RenameOf(name) \notin {"launcherRename", "launcherSync"}
      /\ SyncOf(name) \notin {"rollbackRename", "currentRename", "launcherRename", "launcherSync"}
      /\ next \notin {"rollbackRename", "currentRename", "launcherRename", "launcherSync"}
  BY DEF RenameOf, SyncOf, RollbackDone, CurrentDone, LauncherLabels
<1>6. ASSUME NEW l \in {name, RenameOf(name), SyncOf(name), next}, NEW f,
             LinkingOf(m, f),
             name = "current" => /\ f["prefix"].rollback = fs["prefix"].rollback
                                 /\ f["prefix"].next["rollback"] = fs["prefix"].next["rollback"],
             l = RenameOf(name) => f["prefix"].next[name] = target /\ target # None,
             l \in {SyncOf(name), next} =>
                f["prefix"][name] = target /\ f["prefix"].next[name] = None
      PROVE  LocalLink([x EXCEPT !.at = l], f)
  <2> DEFINE y == [x EXCEPT !.at = l]
  <2>1. y.at = l /\ y.journal = m
    BY StepTo
  <2>2. /\ name = "current" => /\ fs["prefix"].rollback = m.newRollback
                               /\ fs["prefix"].next["rollback"] = None
    BY <1>1, <1>3, <1>5 DEF LocalLink
  <2>3. m.op # "uninstall" /\ m.state # "committed"
    BY <1>3 DEF LinkParts
  <2> HIDE DEF y, m
  <2>4. ASSUME name = "current" PROVE LocalLink(y, f)
    <3>1. target = m.newCurrent
      BY <2>4 DEF m, TargetOf
    <3>2. /\ l \in RollbackDone /\ (l \in CurrentDone => l \in {SyncOf(name), next})
          /\ l \notin {"rollbackRename", "launcherRename", "launcherSync"}
          /\ l = "currentRename" => l = RenameOf(name)
      BY <1>5, <2>4
    <3> QED
      BY <1>6, <2>1, <2>2, <2>3, <2>4, <3>1, <3>2 DEF LocalLink
  <2>5. ASSUME name = "rollback" PROVE LocalLink(y, f)
    <3>1. target = m.newRollback
      BY <2>5 DEF m, TargetOf
    <3>2. /\ l \notin CurrentDone /\ (l \in RollbackDone => l \in {SyncOf(name), next})
          /\ l \notin {"currentRename", "launcherRename", "launcherSync"}
          /\ l = "rollbackRename" => l = RenameOf(name)
      BY <1>5, <2>5
    <3> QED
      BY <1>6, <2>1, <2>3, <2>5, <3>1, <3>2 DEF LocalLink
  <2> QED
    BY <2>4, <2>5 DEF y
<1>7. ASSUME NEW link \in Links, NEW tmp \in Links, NEW g, g = TopOf(name, link, tmp),
             link = target \/ link = fs["prefix"][name],
             tmp = None \/ (tmp = target /\ fs["prefix"][name] # target),
             NEW l \in {name, RenameOf(name), SyncOf(name)}, Mutate(p, g, l),
             l = RenameOf(name) => tmp = target /\ target # None,
             l = SyncOf(name) => link = target /\ tmp = None
      PROVE  IInv'
  <2>1. /\ g["prefix"][name] = link /\ g["prefix"].next[name] = tmp
        /\ name = "current" => /\ g["prefix"].rollback = fs["prefix"].rollback
                               /\ g["prefix"].next["rollback"] = fs["prefix"].next["rollback"]
    BY <1>3, <1>7, TopLinks
  <2>2. LinkingOf(m, g)
    BY <1>3, <1>7, TopLinking
  <2>3. LocalLink([x EXCEPT !.at = l], g)
    <3>1. l # next
      BY <1>7 DEF RenameOf, SyncOf
    <3> QED
      BY <1>6, <1>7, <2>1, <2>2, <3>1
  <2>4. l \in Linking
    BY <1>2, <1>7
  <2> QED
    BY <1>3, <1>7, <2>3, <2>4, LinkWritten
<1>8. None \in Links
  BY DEF Links
<1>9. CASE At(p, name) /\ staged # None
  <2> DEFINE g == TopOf(name, fs["prefix"][name], None)
  <2>1. Mutate(p, g, name)
    BY <1>4, <1>9 DEF ReplaceLink, At, RenameOf, SyncOf, TopOf
  <2>2. name # RenameOf(name) /\ name # SyncOf(name)
    BY DEF RenameOf, SyncOf
  <2> QED
    BY <1>4, <1>7, <1>8, <2>1, <2>2
<1>10. CASE At(p, name) /\ staged = None /\ target # None /\ Link(name) = target
  <2>1. Decide(p, next)
    BY <1>10 DEF ReplaceLink, At, RenameOf, SyncOf, TopOf
  <2>2. LocalLink([x EXCEPT !.at = next], fs)
    <3>1. next # RenameOf(name)
      BY DEF RenameOf
    <3> QED
      BY <1>3, <1>4, <1>6, <1>10, <3>1 DEF LinkParts
  <2>3. next \in Linking /\ next \in Within
    BY <1>2 DEF Within
  <2> QED
    BY <1>3, <2>1, <2>2, <2>3, WithinDecide
<1>11. CASE At(p, name) /\ staged = None /\ target # None /\ Link(name) # target
  <2> DEFINE g == TopOf(name, fs["prefix"][name], target)
  <2>1. Mutate(p, g, RenameOf(name))
    BY <1>11 DEF ReplaceLink, At, RenameOf, SyncOf, TopOf
  <2>2. SyncOf(name) # RenameOf(name)
    BY DEF RenameOf, SyncOf
  <2> QED
    BY <1>4, <1>7, <1>11, <2>1, <2>2
<1>12. CASE At(p, name) /\ staged = None /\ target = None
  <2> DEFINE g == TopOf(name, None, None)
  <2>1. Mutate(p, g, SyncOf(name))
    BY <1>12 DEF ReplaceLink, At, RenameOf, SyncOf, TopOf
  <2>2. SyncOf(name) # RenameOf(name)
    BY DEF RenameOf, SyncOf
  <2> QED
    BY <1>4, <1>7, <1>8, <1>12, <2>1, <2>2
<1>13. CASE At(p, RenameOf(name))
  <2> DEFINE g == TopOf(name, target, None)
  <2>1. Mutate(p, g, SyncOf(name))
    BY <1>13 DEF ReplaceLink, At, RenameOf, SyncOf, TopOf
  <2>2. SyncOf(name) # RenameOf(name)
    BY DEF RenameOf, SyncOf
  <2>3. staged # None
    <3>1. x.at = RenameOf(name)
      BY <1>13 DEF At
    <3>2. CASE name = "rollback"
      BY <1>3, <1>4, <3>1, <3>2 DEF LocalLink, RenameOf, TargetOf
    <3>3. CASE name = "current"
      BY <1>3, <1>4, <3>1, <3>3 DEF LocalLink, RenameOf, TargetOf
    <3> QED
      BY <3>2, <3>3
  <2> QED
    BY <1>4, <1>7, <1>8, <2>1, <2>2, <2>3
<1>14. CASE At(p, SyncOf(name))
  <2>1. SyncThen(p, {"prefix"}, next)
    BY <1>14 DEF ReplaceLink, At, RenameOf, SyncOf, TopOf
  <2>2. LocalLink([x EXCEPT !.at = next], fs)
    <3>1. next # RenameOf(name)
      BY DEF RenameOf
    <3>2. fs["prefix"][name] = target /\ staged = None
      <4>1. x.at = SyncOf(name)
        BY <1>14 DEF At
      <4>2. CASE name = "rollback"
        BY <1>3, <1>5, <4>1, <4>2 DEF LocalLink, TargetOf
      <4>3. CASE name = "current"
        BY <1>3, <1>5, <4>1, <4>3 DEF LocalLink, TargetOf
      <4> QED
        BY <4>2, <4>3
    <3> QED
      BY <1>3, <1>6, <3>1, <3>2 DEF LinkParts
  <2>3. next \in Linking /\ next \in Within /\ {"prefix"} \subseteq Dirs /\ {"prefix"} # {}
    BY <1>2 DEF Within, Dirs
  <2> QED
    BY <1>3, <2>1, <2>2, <2>3, WithinSync
<1> QED
  BY <1>9, <1>10, <1>11, <1>12, <1>13, <1>14 DEF ReplaceLink, At

\* replace_release_link, the rollback link first.
LEMMA ReplaceLinksKeeps ==
    ASSUME OneJournal, IInv, NEW p \in Procs, ReplaceLinks(p) PROVE IInv'
BY ReplaceKeeps DEF ReplaceLinks, Mem, TargetOf

\* The launcher and its directory come under links that stay.
LEMMA LauncherStep ==
    ASSUME OneJournal, IInv, NEW p \in Procs, proc[p].at \in LauncherLabels,
           NEW l \in LauncherLabels, NEW g \in Content, Mutate(p, g, l),
           g["data"] = fs["data"], g["releases"] = fs["releases"], g["prefix"] = fs["prefix"],
           g["bin"].backup = fs["bin"].backup,
           g["bin"] = fs["bin"] \/ ~fs["bin"].entry,
           g["bin"].entry => ~g["bin"].entryNext,
           l = "launcherRename" => ~g["bin"].entry,
           l = "launcherSync" => g["bin"].entry
    PROVE  IInv'
<1> DEFINE x == proc[p]
           m == x.journal
           y == [x EXCEPT !.at = l]
<1>1. /\ x.at \in Linking /\ x.at \in CurrentDone /\ x.at \in RollbackDone
      /\ l \in Linking /\ l \in CurrentDone /\ l \in RollbackDone
      /\ l \notin {"rollbackRename", "currentRename"}
  BY DEF Linking, RollbackDone, CurrentDone, LauncherLabels
<1>2. LinkParts(fs, m) /\ LocalLink(x, fs)
  BY <1>1, LinkingFacts
<1>3. y.at = l /\ y.journal = m
  BY StepTo
<1>4. /\ fs["prefix"].rollback = m.newRollback /\ fs["prefix"].next["rollback"] = None
      /\ fs["prefix"].current = m.newCurrent /\ fs["prefix"].next["current"] = None
  BY <1>1, <1>2 DEF LocalLink
<1> HIDE DEF m, y
<1>5. LinkingOf(m, fs) /\ m.state # "committed" /\ m.op # "uninstall" /\ RootIn(fs, "root")
  BY <1>2 DEF LinkParts
<1>6. m.launcher => g["bin"].entry
  BY <1>5 DEF LinkingOf
<1>7. /\ Managed(g) /\ Clean(g) /\ NoBackup(g) /\ RootIn(g, "root") /\ NoNext(g)
      /\ Whole(g, m.oldCurrent) /\ Whole(g, m.oldRollback)
      /\ Whole(g, m.newCurrent) /\ Whole(g, m.newRollback)
  BY <1>4, <1>5 DEF LinkingOf, Managed, Clean, NoBackup, RootIn, NoNext, Whole
<1>8. LinkingOf(m, g)
  BY <1>4, <1>5, <1>6, <1>7 DEF LinkingOf
<1>9. NewDone(fs, m) => NewDone(g, m)
  BY <1>4, <1>7 DEF NewDone, LinksNew, LinksAre, LinkIn
<1>10. LocalLink(y, g)
  BY <1>1, <1>3, <1>4, <1>5, <1>8 DEF LocalLink
<1> QED
  BY <1>1, <1>8, <1>9, <1>10, LinkingMutation DEF m, y

\* Where the launcher is in place the transaction may be committed.
LEMMA LauncherFits ==
    ASSUME IInv, NEW p \in Procs, proc[p].at \in LauncherLabels, fs["bin"].entry
    PROVE  /\ Accepts([proc[p].journal EXCEPT !.state = "committed"], fs)
           /\ proc[p].journal.op = "install" => TreeIn(fs, proc[p].journal.release) # "absent"
<1> DEFINE x == proc[p]
           m == x.journal
           i == [m EXCEPT !.state = "committed"]
<1>1. x.at \in Linking /\ x.at \in CurrentDone /\ x.at \in RollbackDone
  BY DEF Linking, RollbackDone, CurrentDone, LauncherLabels
<1>2. LinkParts(fs, m) /\ LocalLink(x, fs)
  BY <1>1, LinkingFacts
<1>3. /\ fs["prefix"].rollback = m.newRollback /\ fs["prefix"].next["rollback"] = None
      /\ fs["prefix"].current = m.newCurrent /\ fs["prefix"].next["current"] = None
  BY <1>1, <1>2 DEF LocalLink
<1>4. JournalOK(m)
  BY <1>2 DEF LinkParts
<1>5. JournalOK(i) /\ SameTransaction(i, m) /\ i.state = "committed" /\ i # None
  BY <1>4, InState
<1> HIDE DEF m, i
<1>6. LinksNew(fs, i) /\ NoNext(fs)
  BY <1>2, <1>3, <1>5, TransactionLinks DEF LinksNew, LinksAre, LinkIn, LinkParts, NoNext
<1>7. LinkingOf(i, fs)
  BY <1>2, <1>5, <1>6, LinkingLater DEF LinkParts
<1>8. m.op = "install" => TreeIn(fs, m.release) # "absent"
  <2>1. m.op = "install" => m.release \in Releases /\ m.newCurrent = m.release
    BY <1>4 DEF JournalOK
  <2> QED
    BY <1>2, <2>1, ReleasesAssumption DEF LinkParts, LinkingOf, Whole, TreeIn
<1>9. Accepts(i, fs)
  BY <1>2, <1>5, <1>7, <1>8 DEF Accepts, SameTransaction, LinkParts
<1> QED
  BY <1>8, <1>9 DEF m, i

\* ensure_launcher_parent, create_or_validate_launcher and the commit.
LEMMA EnsureLauncherKeeps ==
    ASSUME OneJournal, IInv, NEW p \in Procs, EnsureLauncher(p) PROVE IInv'
<1> DEFINE x == proc[p]
           m == x.journal
<1>1. x.at \in LauncherLabels
  BY DEF EnsureLauncher, At, LauncherLabels
<1>2. /\ x.at \in Linking /\ x.at \in CurrentDone /\ x.at \in RollbackDone /\ x.at \in Within
      /\ LauncherLabels \subseteq Linking \cap Within
      /\ LauncherLabels \subseteq RollbackDone \cap CurrentDone
      /\ LauncherLabels \cap {"rollbackRename", "currentRename"} = {}
  BY <1>1 DEF Within, Linking, RollbackDone, CurrentDone, LauncherLabels
<1>3. LinkParts(fs, m) /\ LocalLink(x, fs) /\ LinkingOf(m, fs) /\ fs \in Content
  BY <1>2, LinkingFacts, WithinFacts DEF LinkParts
<1>4. /\ x.at = "launcherRename" => ~fs["bin"].entry
      /\ x.at = "launcherSync" => fs["bin"].entry
  BY <1>3 DEF LocalLink
<1>5. ~fs["bin"].backup /\ (fs["bin"].entry => ~fs["bin"].entryNext)
  BY <1>3 DEF LinkingOf, NoBackup
<1>6. LocalLink([x EXCEPT !.at = "launcher"], fs) /\ "launcher" \in LauncherLabels
  <2> DEFINE y == [x EXCEPT !.at = "launcher"]
  <2>1. y.at = "launcher" /\ y.journal = m
    BY StepTo
  <2>2. "launcher" \in LauncherLabels
    BY DEF LauncherLabels
  <2>3. m.op # "uninstall" /\ m.state # "committed"
    BY <1>3 DEF LinkParts
  <2>4. /\ fs["prefix"].rollback = m.newRollback /\ fs["prefix"].next["rollback"] = None
        /\ fs["prefix"].current = m.newCurrent /\ fs["prefix"].next["current"] = None
    BY <1>2, <1>3 DEF LocalLink
  <2> HIDE DEF y, m
  <2>5. LocalLink(y, fs)
    BY <1>2, <1>3, <2>1, <2>2, <2>3, <2>4 DEF LocalLink
  <2> QED
    BY <2>2, <2>5 DEF y
<1>7. CASE At(p, "launcherParent") /\ fs["home"].bin
  <2>1. CASE fs["home"].mode # "loose"
    <3>1. Decide(p, "launcher")
      BY <1>7, <2>1 DEF EnsureLauncher, At
    <3> QED
      BY <1>2, <1>6, <3>1, WithinDecide
  <2>2. CASE fs["home"].mode = "loose"
    <3>1. Refuse(p) /\ LeftOpen /\ ~At(p, "idle")
      BY <1>7, <2>2 DEF EnsureLauncher, At, LeftOpen
    <3> QED
      BY <3>1, RefuseKeeps
  <2> QED
    BY <2>1, <2>2
<1>8. ASSUME NEW mode \in Modes, NEW l \in {"launcherParentMode", "launcherParentSync"},
              Mutate(p, With("home", [bin |-> TRUE, mode |-> mode]), l)
       PROVE  IInv'
  <2> DEFINE g == With("home", [bin |-> TRUE, mode |-> mode])
  <2>1. Mutate(p, g, l)
    BY <1>8
  <2>2. /\ g \in Content /\ g["data"] = fs["data"] /\ g["releases"] = fs["releases"]
        /\ g["prefix"] = fs["prefix"] /\ g["bin"] = fs["bin"]
    BY <1>3 DEF With, Content
  <2>3. l \in LauncherLabels /\ l # "launcherRename" /\ l # "launcherSync"
    BY DEF LauncherLabels
  <2> HIDE DEF g
  <2> QED
    BY <1>1, <1>5, <2>1, <2>2, <2>3, LauncherStep
<1>9. CASE At(p, "launcherParent") /\ ~fs["home"].bin
  <2>1. PICK mode \in NewModes :
          Mutate(p, With("home", [bin |-> TRUE, mode |-> mode]), "launcherParentMode")
    BY <1>9 DEF EnsureLauncher, At
  <2> QED
    BY <1>8, <2>1, ModesAssumption
<1>10. CASE At(p, "launcherParentMode")
  <2>1. Mutate(p, With("home", [bin |-> TRUE, mode |-> "set"]), "launcherParentSync")
    BY <1>10 DEF EnsureLauncher, At
  <2> QED
    BY <1>8, <2>1 DEF Modes
<1>11. CASE At(p, "launcherParentSync")
  <2>1. SyncThen(p, {"bin", "home"}, "launcher")
    BY <1>11 DEF EnsureLauncher, At
  <2>2. {"bin", "home"} \subseteq Dirs /\ {"bin", "home"} # {}
    BY DEF Dirs
  <2> QED
    BY <1>2, <1>6, <2>1, <2>2, WithinSync
<1>12. CASE At(p, "launcher") /\ fs["bin"].entry
  <2>1. Carry(p, [Mem(p) EXCEPT !.state = "committed"], "journal")
    BY <1>12 DEF EnsureLauncher, At
  <2> QED
    BY <1>1, <1>2, <1>12, <2>1, LauncherFits, NextStateCarried
<1>13. ASSUME NEW bin \in [entry : BOOLEAN, entryNext : BOOLEAN, backup : BOOLEAN],
              ~fs["bin"].entry, bin.backup = fs["bin"].backup, bin.entry => ~bin.entryNext,
              NEW l \in LauncherLabels, Mutate(p, With("bin", bin), l),
              l = "launcherRename" => ~bin.entry,
              l = "launcherSync" => bin.entry
       PROVE  IInv'
  <2> DEFINE g == With("bin", bin)
  <2>1. /\ g \in Content /\ g["data"] = fs["data"] /\ g["releases"] = fs["releases"]
        /\ g["prefix"] = fs["prefix"] /\ g["bin"] = bin
    BY <1>3, <1>13 DEF With, Content
  <2>2. Mutate(p, g, l)
    BY <1>13
  <2> HIDE DEF g
  <2> QED
    BY <1>1, <1>13, <2>1, <2>2, LauncherStep
<1>14. CASE At(p, "launcher") /\ ~fs["bin"].entry /\ fs["bin"].entryNext
  <2> DEFINE bin == [fs["bin"] EXCEPT !.entryNext = FALSE]
  <2>1. Mutate(p, With("bin", bin), "launcher")
    BY <1>14 DEF EnsureLauncher, At, Bin
  <2>2. /\ bin \in [entry : BOOLEAN, entryNext : BOOLEAN, backup : BOOLEAN]
        /\ bin.backup = fs["bin"].backup /\ bin.entryNext = FALSE
    BY <1>3 DEF Content
  <2> HIDE DEF bin
  <2> QED
    BY <1>6, <1>13, <1>14, <2>1, <2>2
<1>15. CASE At(p, "launcher") /\ ~fs["bin"].entry /\ ~fs["bin"].entryNext
  <2> DEFINE bin == [fs["bin"] EXCEPT !.entryNext = TRUE]
  <2>1. Mutate(p, With("bin", bin), "launcherRename")
    BY <1>15 DEF EnsureLauncher, At, Bin
  <2>2. /\ bin \in [entry : BOOLEAN, entryNext : BOOLEAN, backup : BOOLEAN]
        /\ bin.backup = fs["bin"].backup /\ bin.entry = fs["bin"].entry
    BY <1>3 DEF Content
  <2>3. "launcherRename" \in LauncherLabels
    BY DEF LauncherLabels
  <2> HIDE DEF bin
  <2> QED
    BY <1>13, <1>15, <2>1, <2>2, <2>3
<1>16. CASE At(p, "launcherRename")
  <2> DEFINE bin == [fs["bin"] EXCEPT !.entryNext = FALSE, !.entry = TRUE]
  <2>1. Mutate(p, With("bin", bin), "launcherSync")
    BY <1>16 DEF EnsureLauncher, At
  <2>2. /\ bin \in [entry : BOOLEAN, entryNext : BOOLEAN, backup : BOOLEAN]
        /\ bin.backup = fs["bin"].backup /\ bin.entry = TRUE /\ bin.entryNext = FALSE
    BY <1>3 DEF Content
  <2>3. "launcherSync" \in LauncherLabels /\ ~fs["bin"].entry
    BY <1>4, <1>16 DEF LauncherLabels, At
  <2> HIDE DEF bin
  <2> QED
    BY <1>13, <1>16, <2>1, <2>2, <2>3
<1>17. CASE At(p, "launcherSync")
  <2>1. /\ Sync({"bin"}) /\ UNCHANGED <<lock, refused, report>>
        /\ proc' = [proc EXCEPT ![p].at = "journal", ![p].journal.state = "committed"]
    BY <1>17 DEF EnsureLauncher, At
  <2>2. {"bin"} \subseteq Dirs /\ {"bin"} # {} /\ fs["bin"].entry
    BY <1>4, <1>17 DEF Dirs, At
  <2> QED
    BY <1>1, <1>2, <2>1, <2>2, LauncherFits, NextStateSynced
<1> QED
  BY <1>7, <1>9, <1>10, <1>11, <1>12, <1>14, <1>15, <1>16, <1>17 DEF EnsureLauncher

----------------------------------------------------------------------------
(* Recovery of an install whose release never got its name.                *)

\* What a process knows that takes an install back.
LEMMA BackFacts ==
    ASSUME IInv, NEW p \in Procs, proc[p].at \in RollingBack
    PROVE  /\ proc[p].at \in Within /\ LocalBack(proc[p], fs) /\ proc[p].recovering
           /\ SameTransaction(proc[p].journal, Journal) /\ proc[p].journal.op = "install"
           /\ Journal.op = "install" /\ TreeIn(fs, Journal.release) = "absent"
           /\ StagingOf(Journal, fs)
           /\ Journal.oldCurrent = None => Journal.oldRollback = None
           /\ Journal.launcher <=> Journal.oldCurrent # None
           /\ Journal.release \in Releases
<1>1. proc[p].at \in Within
  BY DEF Within
<1>2. LocalBack(proc[p], fs)
  BY <1>1, WithinFacts DEF Local
<1>3. /\ proc[p].journal.op = "install" /\ proc[p].recovering
      /\ TreeIn(fs, proc[p].journal.release) = "absent"
  BY <1>2 DEF LocalBack
<1>4. /\ SameTransaction(proc[p].journal, Journal) /\ Accepts(Journal, fs) /\ Journal # None
      /\ JournalOK(Journal)
  BY <1>1, WithinFacts
<1>5. Journal.op = "install" /\ TreeIn(fs, Journal.release) = "absent"
  BY <1>3, <1>4 DEF SameTransaction
<1> QED
  BY <1>1, <1>2, <1>3, <1>4, <1>5 DEF Accepts, JournalOK

\* A mutation that takes the install back.
LEMMA BackMutation ==
    ASSUME OneJournal, IInv, NEW p \in Procs, proc[p].at \in RollingBack,
           NEW l \in RollingBack, NEW g \in Content, Mutate(p, g, l),
           JournalIn(g) = Journal, ~g["data"].journalNext, g["bin"] = fs["bin"],
           \A r \in Releases :
              g["releases"].tree[r] = "whole" => fs["releases"].tree[r] = "whole",
           RootIn(g, "absent") => \A r \in Releases : g["releases"].tree[r] = "absent",
           StagingOf(Journal, g), TreeIn(g, Journal.release) = "absent",
           LocalBack([proc[p] EXCEPT !.at = l], g)
    PROVE  IInv'
<1>1. /\ proc[p].at \in Within /\ ~At(p, "idle") /\ Journal # None /\ JournalOK(Journal)
      /\ Journal.op = "install" /\ TreeIn(fs, Journal.release) = "absent"
      /\ StagingOf(Journal, fs)
  BY BackFacts, WithinFacts
<1>2. FileOK(g)
  BY <1>1 DEF FileOK, Accepts
<1>3. Fresh(Journal, fs) /\ Fresh(Journal, g) /\ Alike(g, fs)
  BY <1>1 DEF Fresh, Alike, StagingOf, LinksOld, LinksAre
<1>4. Continues(fs, g, Journal, report)
  BY <1>2, <1>3 DEF Continues, Ended
<1>5. \A f \in Kept \cup {g}, r \in Releases :
         f["releases"].tree[r] = "partial" => g["releases"].tree[r] # "whole"
  BY DEF IInv, HistoryInv
<1>6. Local([proc[p] EXCEPT !.at = l], g, Kept \cup {g}, report)
  BY <1>1, WithinStep
<1>7. l \in Labels /\ l # "idle"
  BY WithinLabels DEF Within
<1> QED
  BY <1>1, <1>4, <1>5, <1>6, <1>7, MutateKeeps

\* cleanup_staging and cleanup_empty_new_root.
LEMMA RollBackKeeps ==
    ASSUME OneJournal, IInv, NEW p \in Procs, RollBackInstall(p) PROVE IInv'
<1> DEFINE x == proc[p]
           j == Journal
           r == j.release
<1>1. x.at \in RollingBack
  BY DEF RollBackInstall, At, RollingBack
<1>2. /\ x.at \in Within /\ LocalBack(x, fs) /\ x.recovering
      /\ SameTransaction(x.journal, j) /\ x.journal.op = "install" /\ x.journal.release = r
      /\ x.journal.oldCurrent = j.oldCurrent /\ x.journal.oldRollback = j.oldRollback
      /\ x.journal.launcher = j.launcher
      /\ j.op = "install" /\ TreeIn(fs, r) = "absent" /\ StagingOf(j, fs)
      /\ j.oldCurrent = None => j.oldRollback = None
      /\ j.launcher <=> j.oldCurrent # None
      /\ r \in Releases /\ Mem(p) = x.journal
      /\ fs \in Content /\ FileOK(fs) /\ ~fs["data"].journalNext /\ j = JournalIn(fs)
  BY <1>1, BackFacts, WithinFacts DEF Mem, SameTransaction
<1>3. /\ LinksOld(fs, j) /\ (RootIn(fs, "absent") \/ RootIn(fs, "root"))
      /\ ~fs["bin"].entryNext /\ NoBackup(fs) /\ (fs["bin"].entry <=> j.oldCurrent # None)
      /\ j.oldCurrent # None => Managed(fs) /\ Whole(fs, j.oldCurrent) /\ Whole(fs, j.oldRollback)
      /\ RootIn(fs, "root") =>
            /\ NoNext(fs)
            /\ \A s \in Releases \ {r} : fs["releases"].stage[s] = "absent"
            /\ j.oldCurrent = None => \A s \in Releases : fs["releases"].tree[s] = "absent"
  BY <1>2 DEF StagingOf
<1>4. /\ \A s \in Releases : TreeAt(s) = TreeIn(fs, s)
      /\ \A place : RootAt(place) <=> RootIn(fs, place)
      /\ Link("current") = LinkIn(fs, "current") /\ Link("rollback") = LinkIn(fs, "rollback")
  BY DEF TreeAt, TreeIn, RootAt, RootIn, Link, LinkIn
<1>5. /\ x.at \in {"cleanReleases", "cleanMarker", "cleanRoot"} =>
            RootIn(fs, "root") /\ j.oldCurrent = None /\ Clean(fs)
      /\ x.at \in {"cleanMarker", "cleanRoot"} => ~fs["prefix"].releases
      /\ x.at = "cleanRoot" => ~fs["prefix"].marker /\ ~fs["prefix"].markerNext
      /\ x.at = "cleanRootSync" => RootIn(fs, "absent")
      /\ x.at = "restored" /\ RootIn(fs, "root") => Clean(fs) /\ j.oldCurrent # None
  BY <1>2 DEF LocalBack
<1>6. ASSUME NEW l \in RollingBack, NEW f, TreeIn(f, r) = "absent",
             l \in {"cleanReleases", "cleanMarker", "cleanRoot"} =>
                RootIn(f, "root") /\ j.oldCurrent = None /\ Clean(f),
             l \in {"cleanMarker", "cleanRoot"} => ~f["prefix"].releases,
             l = "cleanRoot" => ~f["prefix"].marker /\ ~f["prefix"].markerNext,
             l = "cleanRootSync" => RootIn(f, "absent"),
             l = "restored" /\ RootIn(f, "root") => Clean(f) /\ j.oldCurrent # None
      PROVE  LocalBack([x EXCEPT !.at = l], f)
  <2> DEFINE y == [x EXCEPT !.at = l]
  <2>1. y.at = l /\ y.journal = x.journal /\ y.recovering = x.recovering
    BY StepTo
  <2> HIDE DEF y
  <2>2. LocalBack(y, f)
    BY <1>2, <1>6, <2>1 DEF LocalBack
  <2> QED
    BY <2>2 DEF y
\* The managed root of this transaction loses one more of its entries.
<1>7. ASSUME NEW top, With("prefix", top) \in Content, RootIn(fs, "root"), j.oldCurrent = None,
             Clean(fs), NEW l \in {"cleanMarker", "cleanRoot"}, Mutate(p, With("prefix", top), l),
             top.current = fs["prefix"].current, top.rollback = fs["prefix"].rollback,
             top.next = fs["prefix"].next, ~top.releases,
             l = "cleanRoot" => ~top.marker /\ ~top.markerNext
      PROVE  IInv'
  <2> DEFINE g == With("prefix", top)
  <2>1. /\ g["data"] = fs["data"] /\ g["bin"] = fs["bin"] /\ g["releases"] = fs["releases"]
        /\ g["prefix"] = top
    BY <1>2, <1>7 DEF With, Content
  <2>2. g \in Content /\ Mutate(p, g, l)
    BY <1>7
  <2> HIDE DEF g
  <2>3. /\ RootIn(g, "root") /\ TreeIn(g, r) = "absent" /\ Clean(g) /\ NoNext(g)
        /\ LinksOld(g, j) /\ JournalIn(g) = j /\ ~RootIn(g, "absent")
    BY <1>2, <1>3, <1>7, <2>1 DEF RootIn, TreeIn, Clean, NoNext, LinksOld, LinksAre, LinkIn,
       JournalIn
  <2>4. StagingOf(j, g)
    BY <1>2, <1>3, <1>7, <2>1, <2>3 DEF StagingOf, NoBackup
  <2>5. l \in RollingBack
    BY <1>7 DEF RollingBack
  <2>6. LocalBack([x EXCEPT !.at = l], g)
    BY <1>6, <1>7, <2>1, <2>3, <2>5
  <2> QED
    BY <1>1, <1>2, <2>1, <2>2, <2>3, <2>4, <2>5, <2>6, BackMutation
<1>8. ~At(p, "idle") /\ Mem(p).release = r
  BY <1>1, <1>2 DEF At, RollingBack
<1>9. CASE At(p, "cleanStage") /\ StageAt(r) = "loose"
  <2>1. RootIn(fs, "root") /\ fs["releases"].stage[r] = "loose" /\ r \in Releases
    BY <1>2, <1>9 DEF StageAt, RootAt, RootIn
  <2>2. LeftOpen
    BY <2>1 DEF LeftOpen, RootIn, RootAt
  <2>3. Refuse(p)
    BY <1>8, <1>9 DEF RollBackInstall, At
  <2> QED
    BY <1>8, <2>2, <2>3, RefuseKeeps
<1>10. CASE At(p, "cleanStage") /\ StageAt(r) \in {"partial", "whole"}
  <2> DEFINE t == Shrunk(StageAt(r))
             rel == [fs["releases"] EXCEPT !.stage[r] = t]
             g == With("releases", rel)
  <2>1. Mutate(p, g, "cleanStage")
    BY <1>2, <1>10 DEF RollBackInstall, At, SetStage
  <2>2. RootIn(fs, "root") /\ t \in Tree
    BY <1>10 DEF StageAt, RootAt, RootIn, Shrunk, Tree
  <2> HIDE DEF t
  <2>3. /\ rel.tree = fs["releases"].tree
        /\ \A s \in Releases \ {r} : rel.stage[s] = fs["releases"].stage[s]
        /\ rel.mode = fs["releases"].mode
        /\ rel \in [mode : Modes, tree : [Releases -> Tree], stage : [Releases -> StageTree]]
    BY <1>2, <2>2 DEF Content, StageTree
  <2> HIDE DEF rel
  <2>4. /\ g \in Content /\ g["data"] = fs["data"] /\ g["bin"] = fs["bin"]
        /\ g["prefix"] = fs["prefix"] /\ g["releases"] = rel
    BY <1>2, <2>3 DEF With, Content
  <2> HIDE DEF g
  <2>5. /\ RootIn(g, "root") /\ TreeIn(g, r) = "absent" /\ NoNext(g)
        /\ LinksOld(g, j) /\ JournalIn(g) = j /\ ~RootIn(g, "absent")
        /\ j.oldCurrent # None =>
              Managed(g) /\ Whole(g, j.oldCurrent) /\ Whole(g, j.oldRollback)
    BY <1>2, <1>3, <2>2, <2>3, <2>4 DEF RootIn, TreeIn, NoNext, LinksOld, LinksAre, LinkIn,
       JournalIn, Managed, Whole
  <2>6. StagingOf(j, g)
    BY <1>2, <1>3, <2>2, <2>3, <2>4, <2>5 DEF StagingOf, NoBackup
  <2>7. "cleanStage" \in RollingBack
    BY DEF RollingBack
  <2>8. LocalBack([x EXCEPT !.at = "cleanStage"], g)
    BY <1>6, <2>5, <2>7
  <2> QED
    BY <1>1, <1>2, <2>1, <2>3, <2>4, <2>5, <2>6, <2>7, <2>8, BackMutation
<1>11. CASE At(p, "cleanStage") /\ StageAt(r) = "absent"
  <2> DEFINE l == IF Mem(p).oldCurrent = None /\ RootAt("root") THEN "cleanReleases" ELSE "restored"
  <2>1. Decide(p, l)
    BY <1>2, <1>11 DEF RollBackInstall, At
  <2>2. RootIn(fs, "root") => Clean(fs)
    BY <1>3, <1>11 DEF StageAt, RootAt, RootIn, Clean
  <2>3. /\ l \in RollingBack /\ l \in Within
        /\ l \in {"cleanReleases", "restored"}
        /\ l = "cleanReleases" <=> j.oldCurrent = None /\ RootIn(fs, "root")
    BY <1>2, <1>4 DEF RollingBack, Within
  <2> HIDE DEF l
  <2>4. LocalBack([x EXCEPT !.at = l], fs)
    BY <1>2, <1>6, <2>2, <2>3
  <2> QED
    BY <1>2, <2>1, <2>3, <2>4, WithinDecide
<1>12. CASE At(p, "cleanReleases")
  <2> DEFINE top == [fs["prefix"] EXCEPT !.releases = FALSE]
  <2> DEFINE closed == /\ fs["prefix"].mode # "loose"
                       /\ fs["prefix"].releases => fs["releases"].mode # "loose"
  <2>1. RootIn(fs, "root") /\ j.oldCurrent = None /\ Clean(fs)
    BY <1>5, <1>12 DEF At
  <2>2. \A s \in Releases : TreeAt(s) = "absent" /\ StageAt(s) = "absent"
    BY <1>3, <2>1 DEF TreeAt, StageAt, RootAt, RootIn, Clean
  <2>3. closed => Mutate(p, With("prefix", top), "cleanMarker")
    BY <1>12, <2>2 DEF RollBackInstall, At, Prefix
  <2>5. CASE ~closed
    <3>1. Refuse(p)
      BY <1>12, <2>5 DEF RollBackInstall, At
    <3>2. LeftOpen
      BY <2>1, <2>5 DEF LeftOpen, RootIn, RootAt
    <3> QED
      BY <1>8, <3>1, <3>2, RefuseKeeps
  <2> HIDE DEF closed
  <2>4. /\ With("prefix", top) \in Content /\ top.current = fs["prefix"].current
        /\ top.rollback = fs["prefix"].rollback /\ top.next = fs["prefix"].next
        /\ top.releases = FALSE
    BY <1>2 DEF Content, With
  <2> HIDE DEF top
  <2> QED
    BY <1>7, <2>1, <2>3, <2>4, <2>5
<1>13. CASE At(p, "cleanMarker") /\ fs["prefix"].marker
  <2> DEFINE top == [fs["prefix"] EXCEPT !.marker = FALSE]
  <2>1. RootIn(fs, "root") /\ j.oldCurrent = None /\ Clean(fs) /\ ~fs["prefix"].releases
    BY <1>5, <1>13 DEF At
  <2>2. Mutate(p, With("prefix", top), "cleanMarker")
    BY <1>13 DEF RollBackInstall, At, Prefix
  <2>3. /\ With("prefix", top) \in Content /\ top.current = fs["prefix"].current
        /\ top.rollback = fs["prefix"].rollback /\ top.next = fs["prefix"].next
        /\ top.releases = fs["prefix"].releases
    BY <1>2 DEF Content, With
  <2> HIDE DEF top
  <2> QED
    BY <1>7, <2>1, <2>2, <2>3
<1>14. CASE At(p, "cleanMarker") /\ ~fs["prefix"].marker
  <2> DEFINE top == [fs["prefix"] EXCEPT !.markerNext = FALSE]
  <2>1. RootIn(fs, "root") /\ j.oldCurrent = None /\ Clean(fs) /\ ~fs["prefix"].releases
    BY <1>5, <1>14 DEF At
  <2>2. Mutate(p, With("prefix", top), "cleanRoot")
    BY <1>14 DEF RollBackInstall, At, Prefix
  <2>3. /\ With("prefix", top) \in Content /\ top.current = fs["prefix"].current
        /\ top.rollback = fs["prefix"].rollback /\ top.next = fs["prefix"].next
        /\ top.releases = fs["prefix"].releases /\ top.markerNext = FALSE
        /\ top.marker = fs["prefix"].marker
    BY <1>2 DEF Content, With
  <2> HIDE DEF top
  <2> QED
    BY <1>7, <1>14, <2>1, <2>2, <2>3
<1>15. CASE At(p, "cleanRoot")
  <2> DEFINE g == [fs EXCEPT !["data"].root = "absent", !["prefix"] = EmptyPrefix,
                             !["releases"] = EmptyReleases]
  <2>1. /\ RootIn(fs, "root") /\ j.oldCurrent = None /\ Clean(fs) /\ ~fs["prefix"].releases
        /\ ~fs["prefix"].marker /\ ~fs["prefix"].markerNext
    BY <1>5, <1>15 DEF At
  <2>2. Bare(fs["prefix"])
    <3>1. /\ fs["prefix"].current = None /\ fs["prefix"].rollback = None /\ NoNext(fs)
          /\ ~fs["prefix"].releases /\ ~fs["prefix"].marker /\ ~fs["prefix"].markerNext
      BY <1>2, <1>3, <2>1 DEF LinksOld, LinksAre, LinkIn
    <3> QED
      BY <1>2, <3>1, BareIs
  <2>3. Mutate(p, g, "cleanRootSync")
    BY <1>15, <2>2 DEF RollBackInstall, At
  <2>4. /\ g \in Content /\ g["data"].root = "absent"
        /\ g["data"].journal = fs["data"].journal
        /\ g["data"].journalNext = fs["data"].journalNext
        /\ g["bin"] = fs["bin"] /\ g["releases"] = EmptyReleases
    BY <1>2, EmptyContents DEF Content
  <2> HIDE DEF g
  <2>5. /\ RootIn(g, "absent") /\ ~RootIn(g, "root") /\ TreeIn(g, r) = "absent"
        /\ LinksOld(g, j) /\ JournalIn(g) = j
        /\ \A s \in Releases : g["releases"].tree[s] = "absent"
    BY <1>2, <1>3, <2>1, <2>4 DEF RootIn, TreeIn, LinksOld, LinksAre, LinkIn, JournalIn,
       EmptyReleases
  <2>6. StagingOf(j, g)
    BY <1>2, <1>3, <2>1, <2>4, <2>5 DEF StagingOf, NoBackup
  <2>7. "cleanRootSync" \in RollingBack
    BY DEF RollingBack
  <2>8. LocalBack([x EXCEPT !.at = "cleanRootSync"], g)
    BY <1>6, <2>5, <2>7
  <2> QED
    BY <1>1, <1>2, <2>3, <2>4, <2>5, <2>6, <2>7, <2>8, BackMutation
<1>16. CASE At(p, "cleanRootSync")
  <2>1. SyncThen(p, {"data"}, "restored")
    BY <1>16 DEF RollBackInstall, At
  <2>2. ~RootIn(fs, "root")
    BY <1>5, <1>16 DEF At, RootIn
  <2>3. "restored" \in RollingBack /\ "restored" \in Within /\ {"data"} \subseteq Dirs
        /\ {"data"} # {}
    BY DEF RollingBack, Within, Dirs
  <2>4. LocalBack([x EXCEPT !.at = "restored"], fs)
    BY <1>2, <1>6, <2>2, <2>3
  <2> QED
    BY <1>2, <2>1, <2>3, <2>4, WithinSync
<1>17. CASE At(p, "restored")
  <2> DEFINE y == [x EXCEPT !.at = "remove"]
  <2>1. /\ Link("current") = Mem(p).oldCurrent /\ Link("rollback") = Mem(p).oldRollback
        /\ Mem(p).launcher => fs["bin"].entry
    BY <1>2, <1>3, <1>4 DEF LinksOld, LinksAre
  <2>2. Decide(p, "remove")
    BY <1>17, <2>1 DEF RollBackInstall, At
  <2>3. \A g \in Kept : FallsBack(g, fs)
    BY <1>2, WithinFacts DEF IInv, HistoryInv, Fresh
  <2>4. Installed(fs) \/ Gone(fs)
    <3>1. CASE RootIn(fs, "absent")
      <4>1. j.oldCurrent = None
        BY <1>3, <3>1 DEF LinksOld, LinksAre, LinkIn, RootIn
      <4> QED
        BY <1>3, <3>1, <4>1 DEF Gone
    <3>2. CASE RootIn(fs, "root")
      <4>1. Clean(fs) /\ j.oldCurrent # None
        BY <1>5, <1>17, <3>2 DEF At
      <4>2. fs["prefix"].current = j.oldCurrent /\ fs["prefix"].rollback = j.oldRollback
        BY <1>3, <3>2 DEF LinksOld, LinksAre, LinkIn
      <4> QED
        BY <1>3, <3>2, <4>1, <4>2 DEF Installed
    <3> QED
      BY <1>3, <3>1, <3>2
  <2>5. LinksOld(fs, x.journal)
    BY <1>2, <1>3, TransactionLinks
  <2>6. y.at = "remove" /\ y.journal = x.journal /\ y.recovering = x.recovering
    BY StepTo
  <2> HIDE DEF y
  <2>7. LocalEnd(y, fs, Kept)
    BY <1>2, <2>3, <2>4, <2>5, <2>6 DEF LocalEnd
  <2> QED
    BY <1>2, <2>2, <2>7, WithinDecide DEF y
<1>18. RootAt("root") \/ StageAt(r) = "absent"
  BY DEF StageAt
<1>19. StageAt(r) \in StageTree
  BY <1>2 DEF StageAt, StageTree, Tree, Content
<1> QED
  BY <1>2, <1>9, <1>10, <1>11, <1>12, <1>13, <1>14, <1>15, <1>16, <1>17, <1>18, <1>19
     DEF RollBackInstall, Mem, StageTree, Tree

----------------------------------------------------------------------------
(* complete_uninstall.                                                     *)

\* What a process knows that takes an installation away.
LEMMA RemovalFacts ==
    ASSUME IInv, NEW p \in Procs, proc[p].at \in Removing
    PROVE  /\ proc[p].at \in Within /\ LocalRemove(proc[p], fs)
           /\ SameTransaction(proc[p].journal, Journal) /\ proc[p].journal.op = "uninstall"
           /\ proc[p].journal.state = "committing" /\ JournalOK(proc[p].journal)
           /\ Journal.op = "uninstall" /\ Journal.state # "prepared" /\ RemovalOf(Journal, fs)
           /\ Journal.state \in {"committing", "committed"}
<1>1. proc[p].at \in Within
  BY DEF Within
<1>2. LocalRemove(proc[p], fs)
  BY <1>1, WithinFacts DEF Local
<1>3. /\ proc[p].journal.op = "uninstall" /\ proc[p].journal.state = "committing"
      /\ JournalIn(fs).state # "prepared"
  BY <1>2 DEF LocalRemove
<1>4. /\ SameTransaction(proc[p].journal, Journal) /\ Accepts(Journal, fs) /\ Journal # None
      /\ JournalOK(Journal) /\ Journal = JournalIn(fs) /\ JournalOK(proc[p].journal)
  BY <1>1, WithinFacts
<1>5. Journal.op = "uninstall" /\ Journal.state # "prepared"
  BY <1>3, <1>4 DEF SameTransaction
<1>6. RemovalOf(Journal, fs) /\ Journal.state \in {"committing", "committed"}
  BY <1>4, <1>5 DEF Accepts, JournalOK, Journals
<1> QED
  BY <1>1, <1>2, <1>3, <1>4, <1>5, <1>6

\* A mutation that takes the installation away.
LEMMA RemovalMutation ==
    ASSUME OneJournal, IInv, NEW p \in Procs, proc[p].at \in Removing,
           NEW l \in Removing, NEW g \in Content, Mutate(p, g, l),
           JournalIn(g) = Journal, ~g["data"].journalNext,
           RootIn(g, "absent") => \A r \in Releases : g["releases"].tree[r] = "absent",
           RemovalOf(Journal, g),
           RootIn(fs, "absent") => RootIn(g, "absent") /\ g["bin"].entry = fs["bin"].entry,
           \A r \in Releases :
              g["releases"].tree[r] = "whole" => fs["releases"].tree[r] = "whole",
           LocalRemove([proc[p] EXCEPT !.at = l], g)
    PROVE  IInv'
<1>1. /\ proc[p].at \in Within /\ ~At(p, "idle") /\ Journal # None /\ JournalOK(Journal)
      /\ Journal.op = "uninstall" /\ Journal.state # "prepared"
  BY RemovalFacts, WithinFacts
<1>2. FileOK(g)
  BY <1>1 DEF FileOK, Accepts
<1>3. ~Fresh(Journal, g)
  BY <1>1 DEF Fresh
<1>4. Ended(Journal, fs) => Ended(Journal, g) /\ Alike(g, fs)
  BY <1>1 DEF Fresh, Ended, Alike, LinkIn, RootIn
<1>5. Continues(fs, g, Journal, report)
  BY <1>2, <1>3, <1>4 DEF Continues
<1>6. \A f \in Kept \cup {g}, r \in Releases :
         f["releases"].tree[r] = "partial" => g["releases"].tree[r] # "whole"
  BY DEF IInv, HistoryInv
<1>7. Local([proc[p] EXCEPT !.at = l], g, Kept \cup {g}, report)
  BY <1>1, WithinStep
<1>8. l \in Labels /\ l # "idle"
  BY WithinLabels DEF Within
<1> QED
  BY <1>1, <1>5, <1>6, <1>7, <1>8, MutateKeeps

\* The part of an uninstall that a content shows.
InPlace(f, j) ==
    /\ Managed(f) /\ NoNext(f) /\ Clean(f)
    /\ LinksOld(f, j) /\ Whole(f, j.oldCurrent) /\ Whole(f, j.oldRollback)
    /\ f["bin"].entry <=> NoBackup(f)
    /\ j.state # "committed"

Buried(f, j) ==
    /\ RootIn(f, "tombstone") /\ j.state = "committing"
    /\ ~f["bin"].entry /\ ~NoBackup(f)
    /\ f["prefix"].mode = "set" /\ f["releases"].mode = "set"
    /\ ~f["prefix"].markerNext /\ NoNext(f) /\ Clean(f)

TakenAway(f, j) ==
    /\ RootIn(f, "absent") /\ ~f["bin"].entry
    /\ j.state = "committed" => NoBackup(f)

\* A committing or committed uninstall shows one of the three.
LEMMA RemovalParts ==
    ASSUME NEW j, NEW f, j.state # "prepared"
    PROVE  RemovalOf(j, f) <=> /\ ~f["bin"].entryNext
                               /\ InPlace(f, j) \/ Buried(f, j) \/ TakenAway(f, j)
BY DEF RemovalOf, InPlace, Buried, TakenAway

\* A place within the removal.
LEMMA RemovalPlace ==
    ASSUME IInv, NEW p \in Procs, proc[p].at \in Removing, NEW l \in Removing, NEW f,
           JournalIn(f) = Journal,
           l # "unlink" => ~f["bin"].entry,
           l = "burySync" => RootIn(f, "tombstone"),
           l = "delete" => ~RootIn(f, "root"),
           l \in {"deleteSync", "backup", "backupSync"} => RootIn(f, "absent"),
           l = "backupSync" => NoBackup(f)
    PROVE  LocalRemove([proc[p] EXCEPT !.at = l], f) /\ l \in Within
<1> DEFINE y == [proc[p] EXCEPT !.at = l]
<1>1. y.at = l /\ y.journal = proc[p].journal
  BY StepTo
<1>2. /\ proc[p].journal.op = "uninstall" /\ proc[p].journal.state = "committing"
      /\ Journal.state # "prepared"
  BY RemovalFacts
<1> HIDE DEF y
<1>3. LocalRemove(y, f)
  BY <1>1, <1>2 DEF LocalRemove
<1> QED
  BY <1>3 DEF y, Within

\* The launcher goes to its backup name, the root to the tombstone.
LEMMA BuryKeeps ==
    ASSUME OneJournal, IInv, NEW p \in Procs, BuryInstall(p) PROVE IInv'
<1> DEFINE x == proc[p]
           j == Journal
<1>1. /\ x.at \in {"unlink", "unlinkSync", "bury", "burySync"} /\ x.at \in Removing
      /\ {"unlink", "unlinkSync", "bury", "burySync", "delete"} \subseteq Removing
  BY DEF BuryInstall, At, Removing
<1>2. /\ x.at \in Within /\ LocalRemove(x, fs) /\ j.state # "prepared"
      /\ j.state \in {"committing", "committed"} /\ RemovalOf(j, fs)
      /\ fs \in Content /\ FileOK(fs) /\ ~fs["data"].journalNext /\ j = JournalIn(fs)
  BY <1>1, RemovalFacts, WithinFacts
<1>3. ~fs["bin"].entryNext /\ (InPlace(fs, j) \/ Buried(fs, j) \/ TakenAway(fs, j))
  BY <1>2, RemovalParts
<1>4. x.at # "unlink" => ~fs["bin"].entry
  BY <1>1, <1>2 DEF LocalRemove
<1>5. ~(~fs["bin"].backup /\ fs["bin"].entry) => ~fs["bin"].entry
  BY <1>3 DEF InPlace, Buried, TakenAway, NoBackup
<1>6. \A place : RootAt(place) <=> RootIn(fs, place)
  BY DEF RootAt, RootIn
<1>7. RootAt("root") => InPlace(fs, j) /\ PrefixValid
  <2>1. ASSUME RootIn(fs, "root") PROVE InPlace(fs, j)
    BY <1>3, <2>1 DEF Buried, TakenAway, RootIn
  <2>2. ASSUME RootIn(fs, "root"), InPlace(fs, j) PROVE PrefixValid
    <3>1. fs["prefix"].current = j.oldCurrent /\ fs["prefix"].rollback = j.oldRollback
      BY <2>2 DEF InPlace, LinksOld, LinksAre, LinkIn
    <3> QED
      BY <2>2, <3>1 DEF InPlace, PrefixValid, Managed, NoNext, Clean, Whole
  <2> QED
    BY <1>6, <2>1, <2>2
<1>8. RootAt("tombstone") => Buried(fs, j) /\ RecoverablePrefix
  BY <1>3, <1>6 DEF InPlace, Managed, Buried, TakenAway, RootIn, RecoverablePrefix, NoNext, Clean
<1>9. CASE At(p, "unlink") /\ ~fs["bin"].backup /\ fs["bin"].entry
  <2> DEFINE bin == [fs["bin"] EXCEPT !.entry = FALSE, !.backup = TRUE]
             g == With("bin", bin)
  <2>1. Mutate(p, g, "unlinkSync")
    BY <1>9 DEF BuryInstall, At
  <2>2. /\ g \in Content /\ g["data"] = fs["data"] /\ g["releases"] = fs["releases"]
        /\ g["prefix"] = fs["prefix"]
        /\ g["bin"].entry = FALSE /\ g["bin"].backup = TRUE
        /\ g["bin"].entryNext = fs["bin"].entryNext
    BY <1>2 DEF With, Content
  <2> HIDE DEF g
  <2>3. InPlace(fs, j)
    BY <1>3, <1>9 DEF Buried, TakenAway
  <2>4. JournalIn(g) = j /\ ~RootIn(g, "absent") /\ ~RootIn(fs, "absent")
    BY <1>2, <2>2, <2>3 DEF JournalIn, RootIn, InPlace, Managed
  <2>5. InPlace(g, j)
    BY <2>2, <2>3 DEF InPlace, Managed, NoNext, Clean, LinksOld, LinksAre, LinkIn, RootIn, Whole,
       NoBackup
  <2>6. RemovalOf(j, g)
    BY <1>2, <1>3, <2>2, <2>5, RemovalParts
  <2>7. LocalRemove([x EXCEPT !.at = "unlinkSync"], g)
    BY <1>1, <2>2, <2>4, RemovalPlace
  <2> QED
    BY <1>1, <1>2, <2>1, <2>2, <2>4, <2>6, <2>7, RemovalMutation
<1>10. ~fs["bin"].entry => LocalRemove([x EXCEPT !.at = "bury"], fs) /\ "bury" \in Within
  BY <1>1, <1>2, RemovalPlace
<1>11. CASE At(p, "unlink") /\ ~(~fs["bin"].backup /\ fs["bin"].entry)
  <2>1. Decide(p, "bury")
    BY <1>11 DEF BuryInstall, At
  <2> QED
    BY <1>1, <1>2, <1>5, <1>10, <1>11, <2>1, WithinDecide
<1>12. CASE At(p, "unlinkSync")
  <2>1. SyncThen(p, {"bin"}, "bury")
    BY <1>12 DEF BuryInstall, At
  <2>2. ~fs["bin"].entry /\ {"bin"} \subseteq Dirs /\ {"bin"} # {}
    BY <1>4, <1>12 DEF At, Dirs
  <2> QED
    BY <1>1, <1>2, <1>10, <2>1, <2>2, WithinSync
<1>13. CASE At(p, "bury") /\ RootAt("root") /\ ~OnlyOwn(p)
  <2>1. Refuse(p) /\ ~At(p, "idle")
    BY <1>13 DEF BuryInstall, At
  <2> QED
    BY <1>13, <2>1, RefuseKeeps
<1>14. CASE At(p, "bury") /\ RootAt("root") /\ OnlyOwn(p)
  <2> DEFINE g == With("data", [fs["data"] EXCEPT !.root = "tombstone"])
  <2>1. Mutate(p, g, "burySync")
    BY <1>7, <1>14 DEF BuryInstall, At
  <2>2. /\ g \in Content /\ g["data"].root = "tombstone" /\ g["releases"] = fs["releases"]
        /\ g["data"].journal = fs["data"].journal
        /\ g["data"].journalNext = fs["data"].journalNext
        /\ g["prefix"] = fs["prefix"] /\ g["bin"] = fs["bin"]
    BY <1>2 DEF With, Content
  <2> HIDE DEF g
  <2>3. InPlace(fs, j) /\ ~fs["bin"].entry
    BY <1>4, <1>7, <1>14 DEF At
  <2>4. JournalIn(g) = j /\ ~RootIn(g, "absent") /\ ~RootIn(fs, "absent")
        /\ RootIn(g, "tombstone")
    BY <1>2, <2>2, <2>3 DEF JournalIn, RootIn, InPlace, Managed
  <2>5. Buried(g, j)
    BY <1>2, <2>2, <2>3, <2>4 DEF InPlace, Buried, Managed, NoNext, Clean, NoBackup
  <2>6. RemovalOf(j, g)
    BY <1>2, <1>3, <2>2, <2>5, RemovalParts
  <2>7. LocalRemove([x EXCEPT !.at = "burySync"], g)
    BY <1>1, <2>2, <2>3, <2>4, RemovalPlace
  <2> QED
    BY <1>1, <1>2, <2>1, <2>2, <2>4, <2>6, <2>7, RemovalMutation
<1>15. CASE At(p, "bury") /\ ~RootAt("root")
  <2>1. Decide(p, "delete")
    BY <1>8, <1>15 DEF BuryInstall, At
  <2>2. ~fs["bin"].entry /\ ~RootIn(fs, "root")
    BY <1>4, <1>6, <1>15 DEF At
  <2>3. LocalRemove([x EXCEPT !.at = "delete"], fs) /\ "delete" \in Within
    BY <1>1, <1>2, <2>2, RemovalPlace
  <2> QED
    BY <1>1, <1>2, <2>1, <2>3, WithinDecide
<1>16. CASE At(p, "burySync")
  <2>1. RootIn(fs, "tombstone") /\ ~RootIn(fs, "root") /\ ~fs["bin"].entry
    BY <1>2, <1>4, <1>16 DEF LocalRemove, At, RootIn
  <2>2. SyncThen(p, {"data"}, "delete")
    BY <1>6, <1>8, <1>16, <2>1 DEF BuryInstall, At, SyncThen
  <2>3. LocalRemove([x EXCEPT !.at = "delete"], fs) /\ "delete" \in Within
    BY <1>1, <1>2, <2>1, RemovalPlace
  <2>4. {"data"} \subseteq Dirs /\ {"data"} # {}
    BY DEF Dirs
  <2> QED
    BY <1>1, <1>2, <2>2, <2>3, <2>4, WithinSync
<1> QED
  BY <1>9, <1>11, <1>12, <1>13, <1>14, <1>15, <1>16 DEF BuryInstall

\* remove_authenticated_prefix.
LEMMA DeleteKeeps ==
    ASSUME OneJournal, IInv, NEW p \in Procs, DeletePrefix(p) PROVE IInv'
<1> DEFINE x == proc[p]
           j == Journal
           top == fs["prefix"]
           tree == fs["releases"].tree
<1>1. /\ x.at \in {"delete", "deleteSync"} /\ x.at \in Removing
      /\ {"delete", "deleteSync", "backup"} \subseteq Removing
  BY DEF DeletePrefix, At, Removing
<1>2. /\ x.at \in Within /\ LocalRemove(x, fs) /\ j.state # "prepared"
      /\ j.state \in {"committing", "committed"} /\ RemovalOf(j, fs)
      /\ fs \in Content /\ FileOK(fs) /\ ~fs["data"].journalNext /\ j = JournalIn(fs)
  BY <1>1, RemovalFacts, WithinFacts
<1>3. ~fs["bin"].entryNext /\ (InPlace(fs, j) \/ Buried(fs, j) \/ TakenAway(fs, j))
  BY <1>2, RemovalParts
<1>4. ~fs["bin"].entry /\ ~RootIn(fs, "root")
  BY <1>1, <1>2 DEF LocalRemove, RootIn
<1>5. RootAt("tombstone") => /\ Buried(fs, j) /\ ~RootIn(fs, "absent")
  BY <1>3 DEF InPlace, Managed, TakenAway, RootIn, RootAt
\* Something under the tombstone goes.
<1>6. ASSUME RootAt("tombstone"), NEW g \in Content, Mutate(p, g, "delete"),
             g["data"] = fs["data"], g["bin"] = fs["bin"],
             g["prefix"].mode = fs["prefix"].mode, g["releases"].mode = fs["releases"].mode,
             ~g["prefix"].markerNext, NoNext(g), Clean(g),
             \A s \in Releases :
                g["releases"].tree[s] = "whole" => fs["releases"].tree[s] = "whole"
      PROVE  IInv'
  <2>1. JournalIn(g) = j /\ RootIn(g, "tombstone") /\ ~RootIn(g, "absent") /\ ~RootIn(g, "root")
    BY <1>2, <1>6 DEF JournalIn, RootIn, RootAt
  <2>2. Buried(g, j)
    BY <1>5, <1>6, <2>1 DEF Buried, NoBackup
  <2>3. RemovalOf(j, g)
    BY <1>2, <1>3, <1>6, <2>2, RemovalParts
  <2>4. LocalRemove([x EXCEPT !.at = "delete"], g)
    BY <1>1, <1>4, <1>6, <2>1, RemovalPlace
  <2> QED
    BY <1>1, <1>2, <1>5, <1>6, <2>1, <2>3, <2>4, RemovalMutation
<1>7. CASE At(p, "delete") /\ RootAt("tombstone")
  <2>1. Buried(fs, j)
    BY <1>5, <1>7
  <2>2. ASSUME NEW r \in Releases, tree[r] # "absent",
               Mutate(p, SetTree(r, Shrunk(tree[r])), "delete")
        PROVE  IInv'
    <3> DEFINE t == Shrunk(tree[r])
               rel == [fs["releases"] EXCEPT !.tree[r] = t]
               g == With("releases", rel)
    <3>1. t \in Tree /\ t # "whole"
      BY DEF Shrunk, Tree
    <3> HIDE DEF t
    <3>2. /\ rel.stage = fs["releases"].stage /\ rel.tree[r] = t
          /\ \A s \in Releases \ {r} : rel.tree[s] = fs["releases"].tree[s]
          /\ rel.mode = fs["releases"].mode
          /\ rel \in [mode : Modes, tree : [Releases -> Tree], stage : [Releases -> StageTree]]
      BY <1>2, <3>1 DEF Content
    <3>3. Mutate(p, g, "delete")
      BY <2>2 DEF SetTree, t
    <3> HIDE DEF rel
    <3>4. /\ g \in Content /\ g["data"] = fs["data"] /\ g["bin"] = fs["bin"]
          /\ g["prefix"] = fs["prefix"] /\ g["releases"] = rel
      BY <1>2, <3>2 DEF With, Content
    <3> HIDE DEF g
    <3>5. ~g["prefix"].markerNext /\ NoNext(g) /\ Clean(g)
      BY <2>1, <3>2, <3>4 DEF Buried, NoNext, Clean
    <3>6. \A s \in Releases :
             g["releases"].tree[s] = "whole" => fs["releases"].tree[s] = "whole"
      BY <3>1, <3>2, <3>4
    <3> QED
      BY <1>6, <1>7, <3>2, <3>3, <3>4, <3>5, <3>6
  <2>3. ASSUME \A r \in Releases : tree[r] = "absent",
               Mutate(p, With("data", [fs["data"] EXCEPT !.root = "absent"]), "deleteSync")
        PROVE  IInv'
    <3> DEFINE g == With("data", [fs["data"] EXCEPT !.root = "absent"])
    <3>1. /\ g \in Content /\ g["data"].root = "absent" /\ g["releases"] = fs["releases"]
          /\ g["data"].journal = fs["data"].journal
          /\ g["data"].journalNext = fs["data"].journalNext
          /\ g["prefix"] = fs["prefix"] /\ g["bin"] = fs["bin"]
      BY <1>2 DEF With, Content
    <3>2. Mutate(p, g, "deleteSync")
      BY <2>3
    <3> HIDE DEF g
    <3>3. JournalIn(g) = j /\ RootIn(g, "absent") /\ ~RootIn(fs, "absent")
      BY <1>2, <1>5, <1>7, <3>1 DEF JournalIn, RootIn
    <3>4. TakenAway(g, j)
      BY <1>4, <2>1, <3>1, <3>3 DEF Buried, TakenAway
    <3>5. RemovalOf(j, g)
      BY <1>2, <1>3, <3>1, <3>4, RemovalParts
    <3>6. LocalRemove([x EXCEPT !.at = "deleteSync"], g)
      BY <1>1, <1>4, <3>1, <3>3, RemovalPlace
    <3> QED
      BY <1>1, <1>2, <2>3, <3>1, <3>2, <3>3, <3>5, <3>6, RemovalMutation
  <2>4. ASSUME NEW rest, With("prefix", rest) \in Content,
               rest.mode = top.mode, rest.markerNext = top.markerNext, rest.next = top.next,
               Mutate(p, With("prefix", rest), "delete")
        PROVE  IInv'
    <3> DEFINE g == With("prefix", rest)
    <3>1. /\ g["data"] = fs["data"] /\ g["bin"] = fs["bin"] /\ g["releases"] = fs["releases"]
          /\ g["prefix"] = rest
      BY <1>2 DEF With, Content
    <3>2. g \in Content /\ Mutate(p, g, "delete")
      BY <2>4
    <3> HIDE DEF g
    <3>3. ~g["prefix"].markerNext /\ NoNext(g) /\ Clean(g)
      BY <2>1, <2>4, <3>1 DEF Buried, NoNext, Clean
    <3> QED
      BY <1>6, <1>7, <2>4, <3>1, <3>2, <3>3
  <2>5. ASSUME NEW rest \in {[top EXCEPT !.releases = FALSE], [top EXCEPT !.current = None],
                             [top EXCEPT !.rollback = None], [top EXCEPT !.marker = FALSE]}
        PROVE  /\ With("prefix", rest) \in Content
               /\ rest.mode = top.mode /\ rest.markerNext = top.markerNext
               /\ rest.next = top.next
    <3>1. CASE rest = [top EXCEPT !.releases = FALSE]
      BY <1>2, <3>1 DEF With, Content, Links
    <3>2. CASE rest = [top EXCEPT !.current = None]
      BY <1>2, <3>2 DEF With, Content, Links
    <3>3. CASE rest = [top EXCEPT !.rollback = None]
      BY <1>2, <3>3 DEF With, Content, Links
    <3>4. CASE rest = [top EXCEPT !.marker = FALSE]
      BY <1>2, <3>4 DEF With, Content, Links
    <3> QED
      BY <2>5, <3>1, <3>2, <3>3, <3>4
  <2> DEFINE rest == IF top.releases THEN [top EXCEPT !.releases = FALSE]
                     ELSE IF top.current # None THEN [top EXCEPT !.current = None]
                     ELSE IF top.rollback # None THEN [top EXCEPT !.rollback = None]
                     ELSE [top EXCEPT !.marker = FALSE]
  <2>6. \/ \E r \in Releases : /\ tree[r] # "absent"
                               /\ Mutate(p, SetTree(r, Shrunk(tree[r])), "delete")
        \/ /\ \A r \in Releases : tree[r] = "absent"
           /\ \/ Mutate(p, With("data", [fs["data"] EXCEPT !.root = "absent"]), "deleteSync")
              \/ Mutate(p, With("prefix", rest), "delete")
    BY <1>7 DEF DeletePrefix, At
  <2>7. rest \in {[top EXCEPT !.releases = FALSE], [top EXCEPT !.current = None],
                  [top EXCEPT !.rollback = None], [top EXCEPT !.marker = FALSE]}
    OBVIOUS
  <2> HIDE DEF rest
  <2> QED
    BY <2>2, <2>3, <2>4, <2>5, <2>6, <2>7
<1>8. RootIn(fs, "absent") => LocalRemove([x EXCEPT !.at = "backup"], fs) /\ "backup" \in Within
  BY <1>1, <1>2, <1>4, RemovalPlace
<1>9. CASE At(p, "delete") /\ ~RootAt("tombstone")
  <2>1. Decide(p, "backup")
    BY <1>9 DEF DeletePrefix, At
  <2>2. RootIn(fs, "absent")
    BY <1>2, <1>4, <1>9 DEF RootIn, RootAt, Content
  <2> QED
    BY <1>1, <1>2, <1>8, <2>1, <2>2, WithinDecide
<1>10. CASE At(p, "deleteSync")
  <2>1. SyncThen(p, {"data"}, "backup")
    BY <1>10 DEF DeletePrefix, At
  <2>2. RootIn(fs, "absent")
    BY <1>2, <1>10 DEF LocalRemove, At
  <2>3. {"data"} \subseteq Dirs /\ {"data"} # {}
    BY DEF Dirs
  <2> QED
    BY <1>1, <1>2, <1>8, <2>1, <2>2, <2>3, WithinSync
<1> QED
  BY <1>7, <1>9, <1>10 DEF DeletePrefix

\* The launcher backup goes last, then the journal is committed.
LEMMA DropBackupKeeps ==
    ASSUME OneJournal, IInv, NEW p \in Procs, DropBackup(p) PROVE IInv'
<1> DEFINE x == proc[p]
           j == Journal
           m == x.journal
<1>1. /\ x.at \in {"backup", "backupSync"} /\ x.at \in Removing
      /\ "backupSync" \in Removing
  BY DEF DropBackup, At, Removing
<1>2. /\ x.at \in Within /\ LocalRemove(x, fs) /\ j.state # "prepared"
      /\ RemovalOf(j, fs) /\ JournalOK(m) /\ m.op = "uninstall"
      /\ fs \in Content /\ FileOK(fs) /\ ~fs["data"].journalNext /\ j = JournalIn(fs)
  BY <1>1, RemovalFacts, WithinFacts
<1>3. /\ RootIn(fs, "absent") /\ ~fs["bin"].entry /\ ~fs["bin"].entryNext
      /\ x.at = "backupSync" => NoBackup(fs)
  BY <1>1, <1>2 DEF LocalRemove, RemovalOf
<1>4. CASE At(p, "backup") /\ fs["bin"].backup
  <2> DEFINE bin == [fs["bin"] EXCEPT !.backup = FALSE]
             g == With("bin", bin)
  <2>1. Mutate(p, g, "backupSync")
    BY <1>4 DEF DropBackup, At, Bin
  <2>2. /\ g \in Content /\ g["data"] = fs["data"] /\ g["releases"] = fs["releases"]
        /\ g["prefix"] = fs["prefix"]
        /\ g["bin"].entry = fs["bin"].entry /\ g["bin"].backup = FALSE
        /\ g["bin"].entryNext = fs["bin"].entryNext
    BY <1>2 DEF With, Content
  <2> HIDE DEF g
  <2>3. JournalIn(g) = j /\ RootIn(g, "absent") /\ NoBackup(g)
    BY <1>2, <1>3, <2>2 DEF JournalIn, RootIn, NoBackup
  <2>4. TakenAway(g, j)
    BY <1>3, <2>2, <2>3 DEF TakenAway
  <2>5. RemovalOf(j, g)
    BY <1>2, <1>3, <2>2, <2>4, RemovalParts
  <2>6. LocalRemove([x EXCEPT !.at = "backupSync"], g)
    BY <1>1, <1>3, <2>2, <2>3, RemovalPlace
  <2>7. \A r \in Releases : g["releases"].tree[r] = "absent"
    BY <1>2, <1>3, <2>2 DEF FileOK
  <2> QED
    BY <1>1, <1>2, <2>1, <2>2, <2>3, <2>5, <2>6, <2>7, RemovalMutation
<1>5. NoBackup(fs) => Accepts([m EXCEPT !.state = "committed"], fs)
  <2> DEFINE i == [m EXCEPT !.state = "committed"]
  <2>1. JournalOK(i) /\ i.state = "committed" /\ i.op = "uninstall" /\ i # None
    BY <1>2, InState DEF SameTransaction
  <2> HIDE DEF i
  <2>2. NoBackup(fs) => RemovalOf(i, fs)
    BY <1>3, <2>1 DEF RemovalOf
  <2>3. NoBackup(fs) => Accepts(i, fs)
    BY <2>1, <2>2 DEF Accepts
  <2> QED
    BY <2>3 DEF i
<1>6. CASE At(p, "backup") /\ ~fs["bin"].backup
  <2>1. Carry(p, [Mem(p) EXCEPT !.state = "committed"], "journal")
    BY <1>6 DEF DropBackup, At
  <2>2. Accepts([m EXCEPT !.state = "committed"], fs)
    BY <1>5, <1>6 DEF NoBackup
  <2> QED
    BY <1>2, <2>1, <2>2, NextStateCarried
<1>7. CASE At(p, "backupSync")
  <2>1. /\ Sync({"bin"}) /\ UNCHANGED <<lock, refused, report>>
        /\ proc' = [proc EXCEPT ![p].at = "journal", ![p].journal.state = "committed"]
    BY <1>7 DEF DropBackup, At
  <2>2. Accepts([m EXCEPT !.state = "committed"], fs)
    BY <1>3, <1>5, <1>7 DEF At
  <2>3. {"bin"} \subseteq Dirs /\ {"bin"} # {}
    BY DEF Dirs
  <2> QED
    BY <1>2, <2>1, <2>2, <2>3, NextStateSynced
<1> QED
  BY <1>4, <1>6, <1>7 DEF DropBackup

----------------------------------------------------------------------------
(* Faults and the initial state.                                           *)

\* A process that dies.
LEMMA KillKeeps ==
    ASSUME IInv, NEW p \in Procs, Kill(p) PROVE IInv'
BY DeclineKeeps DEF Kill

\* A power loss.
LEMMA PowerLossKeeps ==
    ASSUME OneJournal, IInv, PowerLoss PROVE IInv'
<1>1. FilesInv /\ HistoryInv /\ ReportInv /\ refused = FALSE
  BY DEF IInv
<1>2. fs' \in Kept /\ Kept' = {fs'} /\ images' = [m \in Domains |-> Kept']
  BY <1>1, PowerLossFacts
<1>3. FileOK(fs')
  BY <1>1, <1>2 DEF FilesInv
<1>4. FilesInv'
  BY <1>2, <1>3 DEF FilesInv
<1>5. HistoryInv'
  <2> DEFINE f == fs'
  <2>1. FileOK(f) /\ fs' = f /\ Kept' = {f}
    BY <1>2, <1>3
  <2> HIDE DEF f
  <2> QED
    BY <2>1, HistoryOfOne
<1>6. ReportInv'
  BY <1>1, <1>2 DEF ReportInv, Told, PowerLoss
<1>7. ProcTypes' /\ ProcInv'
  <2>1. proc' = [p \in Procs |-> Idle] /\ lock' = None
    BY DEF PowerLoss
  <2>2. Idle \in ProcRecord /\ Idle.at = "idle"
    BY DEF Idle, ProcRecord, Labels
  <2> QED
    BY <2>1, <2>2 DEF ProcTypes, ProcInv, At
<1>8. refused' = FALSE
  BY <1>1 DEF PowerLoss
<1> QED
  BY <1>4, <1>5, <1>6, <1>7, <1>8 DEF IInv

\* No installation and nobody at work.
LEMMA InitHolds ==
    ASSUME OneJournal, Init PROVE IInv
<1>1. /\ fs \in Content /\ JournalIn(fs) = None /\ Gone(fs) /\ RootIn(fs, "absent")
      /\ \A r \in Releases : fs["releases"].tree[r] = "absent"
  <2>1. PICK b \in BOOLEAN :
          fs = [data |-> [journal |-> None, journalNext |-> FALSE, root |-> "absent"],
                home |-> [bin |-> b, mode |-> "set"],
                bin |-> [entry |-> FALSE, entryNext |-> FALSE, backup |-> FALSE],
                prefix |-> EmptyPrefix, releases |-> EmptyReleases]
    BY DEF Init
  <2>2. fs \in Content
    BY <2>1, EmptyContents DEF Content, Modes
  <2> QED
    BY <2>1, <2>2, EmptyContents DEF JournalIn, Gone, NoBackup, RootIn
<1>2. FileOK(fs)
  BY <1>1 DEF FileOK, Accepts
<1>3. Kept = {fs} /\ images = [m \in Domains |-> Kept]
  <2>1. Image(fs, Dirs) = fs
    BY <1>1, ImageIs
  <2> QED
    BY <2>1 DEF Init, OneJournal, Kept
<1>4. FilesInv
  BY <1>2, <1>3 DEF FilesInv
<1>5. HistoryInv
  <2>1. FallsBack(fs, fs)
    BY <1>1, FallsBackOnItself
  <2>2. Journal = None
    BY <1>1 DEF Journal, JournalIn
  <2> QED
    BY <1>1, <1>3, <2>1, <2>2 DEF HistoryInv
<1>6. ProcTypes /\ ProcInv
  <2>1. proc = [p \in Procs |-> Idle] /\ lock = None
    BY DEF Init
  <2>2. Idle \in ProcRecord /\ Idle.at = "idle"
    BY DEF Idle, ProcRecord, Labels
  <2> QED
    BY <2>1, <2>2 DEF ProcTypes, ProcInv, At
<1>7. ReportInv /\ refused = FALSE
  BY DEF Init, ReportInv, Told
<1> QED
  BY <1>4, <1>5, <1>6, <1>7 DEF IInv

\* Every step.
LEMMA StepKeeps ==
    ASSUME OneJournal, IInv, [Next]_vars PROVE IInv'
<1>1. CASE PowerLoss
  BY <1>1, PowerLossKeeps
<1>2. ASSUME NEW p \in Procs, Kill(p) PROVE IInv'
  BY <1>2, KillKeeps
<1>3. ASSUME NEW p \in Procs, Acquire(p) PROVE IInv'
  BY <1>3, AcquireKeeps
<1>4. ASSUME NEW p \in Procs, Run(p) PROVE IInv'
  BY <1>4, ReadJournalKeeps, RecoverPendingKeeps, InspectKeeps, WriteJournalKeeps,
     RemoveJournalKeeps, PrepareKeeps, MakeStagingKeeps, StageKeeps, ValidateKeeps,
     ReplaceLinksKeeps, EnsureLauncherKeeps, RollBackKeeps, BuryKeeps, DeleteKeeps, DropBackupKeeps
     DEF Run
<1>5. CASE UNCHANGED vars
  <2>1. UNCHANGED Kept
    BY <1>5 DEF vars, Kept
  <2>2. ProcTypes'
    BY <1>5 DEF vars, ProcTypes, IInv, At
  <2>3. ProcInv'
    BY <1>5, <2>1 DEF vars, ProcInv, IInv, At
  <2> QED
    BY <1>5, <2>1, <2>2, <2>3
       DEF vars, IInv, FilesInv, HistoryInv, ReportInv, Told, Journal
<1> QED
  BY <1>1, <1>2, <1>3, <1>4, <1>5 DEF Next, Fault

----------------------------------------------------------------------------
(* The theorems, for file systems with one metadata journal.               *)

\* IInv is an invariant: every content that a power loss may leave belongs to
\* the journal on file, and every process is where its content says.
THEOREM InstallerInvariant ==
    ASSUME OneJournal PROVE Spec => []IInv
<1>1. Init => IInv
  BY InitHolds
<1>2. IInv /\ [Next]_vars => IInv'
  BY StepKeeps
<1> QED
  BY <1>1, <1>2, PTL DEF Spec

\* Every variable has its type, and a process that works owns the lock.
THEOREM TypeCorrect ==
    ASSUME OneJournal PROVE Spec => []TypeOK
<1>1. IInv => TypeOK
  <2> SUFFICES ASSUME IInv PROVE TypeOK
    OBVIOUS
  <2>1. fs \in Content /\ fs \in Kept /\ refused \in BOOLEAN /\ ProcTypes
    BY DEF IInv, FilesInv, FileOK
  <2>2. \A m \in Domains : Image(fs, m) \in images[m]
    BY <2>1, ImageIs DEF OneJournal, Kept
  <2>3. report \in Reports \cup {None}
    BY DEF IInv, ReportInv
  <2> QED
    BY <2>1, <2>2, <2>3 DEF TypeOK, ProcTypes, ProcRecord, Reports
<1> QED
  BY <1>1, InstallerInvariant, PTL

\* A kill or a power loss leaves nothing that a command refuses, but for a
\* directory that was left open between mkdir and chmod; and a release that
\* is whole is refused only by an installer of another version.
THEOREM RecoveryAcceptsAll ==
    ASSUME OneJournal PROVE Spec => []NeverRefused
<1>1. IInv => NeverRefused
  BY DEF IInv, NeverRefused
<1> QED
  BY <1>1, InstallerInvariant, PTL

\* Without a journal the installation is complete or gone.
THEOREM SettledWithoutJournal ==
    ASSUME OneJournal PROVE Spec => []Settled
<1>1. IInv => Settled
  <2> SUFFICES ASSUME IInv, Journal = None PROVE Settled
    BY DEF Settled
  <2>1. fs \in Content /\ (Installed(fs) \/ Gone(fs))
    BY DEF IInv, FilesInv, FileOK, Accepts, JournalIn, Journal
  <2>2. CASE Installed(fs)
    <3>1. RootAt("root") /\ ~fs["bin"].entryNext /\ ~fs["bin"].backup /\ fs["bin"].entry
          /\ fs["prefix"].current # None
      BY <2>2 DEF Installed, Managed, RootIn, RootAt, NoBackup
    <3>2. PrefixValid
      BY <2>2 DEF Installed, Managed, NoNext, Clean, Whole, PrefixValid
    <3> QED
      BY <3>1, <3>2 DEF Settled, InstallValid
  <2>3. CASE Gone(fs)
    <3> DEFINE b == fs["bin"]
    <3>1. RootAt("absent")
      BY <2>3 DEF Gone, RootIn, RootAt
    <3>2. b = [entry |-> b.entry, entryNext |-> b.entryNext, backup |-> b.backup]
      BY <2>1 DEF Content
    <3>3. b.entry = FALSE /\ b.entryNext = FALSE /\ b.backup = FALSE
      BY <2>1, <2>3 DEF Gone, NoBackup, Content
    <3> QED
      BY <3>1, <3>2, <3>3 DEF Settled
  <2> QED
    BY <2>1, <2>2, <2>3
<1> QED
  BY <1>1, InstallerInvariant, PTL

\* What a user was told is still so after any fault.
THEOREM ReportsSurvive ==
    ASSUME OneJournal PROVE Spec => []ReportSurvives
<1>1. IInv => ReportSurvives
  <2> SUFFICES ASSUME IInv, Told PROVE /\ Link("current") = report.current
                                       /\ Link("rollback") = report.rollback
                                       /\ fs["bin"].entry <=> report.op # "uninstall"
    BY DEF ReportSurvives, Told
  <2> QED
    BY DEF IInv, FilesInv, ReportInv, LinksAre, LinkIn, Link, RootIn, RootAt
<1> QED
  BY <1>1, InstallerInvariant, PTL

----------------------------------------------------------------------------
(* What single steps may not do.                                           *)

\* A step of p to one of the labels.
Labelled(p, labels) == \E l \in labels : Goto(p, l)

Installing == Staging \cup Linking \cup RollingBack

\* The steps of an install or a rollback go from label to label.
LEMMA InstallingSteps ==
    ASSUME NEW p \in Procs, PrepareDirectories(p) \/ MakeStaging(p) \/ StageRelease(p)
              \/ ValidateTargets(p) \/ ReplaceLinks(p) \/ EnsureLauncher(p) \/ RollBackInstall(p)
    PROVE  UNCHANGED fs \/ Labelled(p, Installing)
<1> USE DEF Labelled, Installing, Staging, Preparing, Extracting, Linking, RollbackDone,
        CurrentDone, LauncherLabels, RollingBack, Mutate, SyncThen, Sync, Decide, Carry, Refuse
<1>1. CASE PrepareDirectories(p)
  BY <1>1 DEF PrepareDirectories
<1>2. CASE StageRelease(p)
  BY <1>2 DEF StageRelease
<1>3. CASE ValidateTargets(p)
  BY <1>3 DEF ValidateTargets
<1>4. ASSUME NEW name \in {"current", "rollback"}, NEW target, NEW next,
             ReplaceLink(p, name, target, next)
      PROVE  UNCHANGED fs \/ Labelled(p, Installing)
  BY <1>4 DEF ReplaceLink, RenameOf, SyncOf
<1>5. CASE ReplaceLinks(p)
  BY <1>4, <1>5 DEF ReplaceLinks
<1>6. CASE EnsureLauncher(p)
  BY <1>6 DEF EnsureLauncher
<1>7. CASE RollBackInstall(p)
  BY <1>7 DEF RollBackInstall
<1>8. CASE MakeStaging(p)
  BY <1>8 DEF MakeStaging
<1> QED
  BY <1>1, <1>2, <1>3, <1>5, <1>6, <1>7, <1>8

\* So do those of an uninstall, and only the deletion changes releases/.
LEMMA RemovingSteps ==
    ASSUME IInv, NEW p \in Procs, BuryInstall(p) \/ DeletePrefix(p) \/ DropBackup(p)
    PROVE  /\ UNCHANGED fs \/ Labelled(p, Removing)
           /\ ~DeletePrefix(p) => fs'["releases"] = fs["releases"]
<1>1. fs \in Content
  BY DEF IInv, FilesInv, FileOK
<1> USE DEF Labelled, Removing, Mutate, SyncThen, Sync, Decide, Carry, Refuse
<1>2. CASE BuryInstall(p)
  BY <1>1, <1>2 DEF BuryInstall, Write, With, Content
<1>3. CASE DeletePrefix(p)
  BY <1>3 DEF DeletePrefix
<1>4. CASE DropBackup(p)
  BY <1>1, <1>4 DEF DropBackup, Write, With, Content, Bin
<1> QED
  BY <1>2, <1>3, <1>4

\* A process within a transaction has its journal on file, and a release in
\* pieces belongs to an uninstall.
InTransaction ==
    /\ \A p \in Procs :
          /\ proc[p].at \in Within => Journal # None
          /\ proc[p].at \in Installing => Journal.op # "uninstall"
    /\ \A r \in Releases :
          fs["releases"].tree[r] = "partial" =>
             RootAt("tombstone") /\ Journal # None /\ RemovalOf(Journal, fs)
                /\ Journal.op = "uninstall" /\ Journal.state # "prepared"

\* So it is in every state.
LEMMA InTransactionHolds == IInv => InTransaction
<1> SUFFICES ASSUME IInv PROVE InTransaction
  OBVIOUS
<1>1. ASSUME NEW p \in Procs, proc[p].at \in Within
      PROVE  Journal # None /\ Journal.op = proc[p].journal.op
  BY <1>1, WithinFacts DEF SameTransaction
<1>2. ASSUME NEW p \in Procs, proc[p].at \in Installing
      PROVE  Journal.op # "uninstall"
  <2>1. proc[p].at \in Within
    BY <1>2 DEF Within, Installing
  <2>2. CASE proc[p].at \in Staging
    BY <2>2, StagingFacts
  <2>3. CASE proc[p].at \in Linking
    BY <2>3, LinkingFacts
  <2>4. CASE proc[p].at \in RollingBack
    BY <2>4, BackFacts
  <2> QED
    BY <1>2, <2>2, <2>3, <2>4 DEF Installing
<1>3. ASSUME NEW r \in Releases, fs["releases"].tree[r] = "partial"
      PROVE  RootAt("tombstone") /\ Journal # None /\ RemovalOf(Journal, fs)
                /\ Journal.op = "uninstall" /\ Journal.state # "prepared"
  <2>1. /\ Accepts(Journal, fs) /\ Journal = JournalIn(fs)
        /\ RootIn(fs, "absent") => \A s \in Releases : fs["releases"].tree[s] = "absent"
    BY DEF IInv, FilesInv, FileOK, Journal, JournalIn
  <2>2. ~Managed(fs) /\ ~RootIn(fs, "absent")
    BY <1>3, <2>1 DEF Managed
  <2>3. Journal # None
    BY <2>1, <2>2 DEF Accepts, Installed, Gone
  <2>4. ~LinkingOf(Journal, fs)
    BY <2>2 DEF LinkingOf
  <2>5. ~StagingOf(Journal, fs)
    BY <1>3, <2>2 DEF StagingOf
  <2>6. JournalOK(Journal) /\ Journal.op \in {"install", "rollback", "uninstall"}
    BY <2>1, <2>3 DEF Accepts, JournalOK, Journals
  <2>7. Journal.op = "uninstall" /\ RemovalOf(Journal, fs)
    BY <2>1, <2>3, <2>4, <2>5, <2>6 DEF Accepts
  <2>8. RootIn(fs, "tombstone") /\ Journal.state = "committing"
    BY <2>2, <2>7 DEF RemovalOf
  <2> QED
    BY <2>3, <2>7, <2>8 DEF RootIn, RootAt
<1> QED
  BY <1>1, <1>2, <1>3 DEF InTransaction

\* So it is after every step.
LEMMA InTransactionNext == IInv' => InTransaction'
BY InTransactionHolds, PTL

\* A labelled step leads to its label.
LEMMA LabelledTo ==
    ASSUME IInv, NEW p \in Procs, NEW labels, Labelled(p, labels)
    PROVE  proc'[p].at \in labels
BY DEF Labelled, Goto, IInv, ProcTypes, ProcRecord

\* The steps on the journal file change nothing else.
LEMMA JournalSteps ==
    ASSUME IInv, NEW p \in Procs, ReadJournal(p) \/ WriteJournal(p) \/ RemoveJournal(p)
    PROVE  /\ fs'["releases"] = fs["releases"] /\ fs'["prefix"] = fs["prefix"]
           /\ fs'["data"].root = fs["data"].root
           /\ \/ Journal' = Journal
              \/ At(p, "journalRename") /\ Journal' = Mem(p)
              \/ At(p, "remove") /\ RemoveJournal(p)
<1>1. fs \in Content
  BY DEF IInv, FilesInv, FileOK
<1>2. ASSUME NEW b, UNCHANGED fs \/ fs' = With("data", [fs["data"] EXCEPT !.journalNext = b])
      PROVE  /\ fs'["releases"] = fs["releases"] /\ fs'["prefix"] = fs["prefix"]
             /\ fs'["data"].root = fs["data"].root /\ Journal' = Journal
  BY <1>1, <1>2 DEF With, Content, Journal
<1>3. ASSUME NEW b, NEW j,
             fs' = With("data", [fs["data"] EXCEPT !.journalNext = b, !.journal = j])
      PROVE  /\ fs'["releases"] = fs["releases"] /\ fs'["prefix"] = fs["prefix"]
             /\ fs'["data"].root = fs["data"].root /\ Journal' = j
  BY <1>1, <1>3 DEF With, Content, Journal
<1>4. CASE ReadJournal(p)
  BY <1>2, <1>4 DEF ReadJournal, Mutate, Write, Decide, SyncThen, Sync
<1>5. CASE WriteJournal(p)
  BY <1>2, <1>3, <1>5 DEF WriteJournal, Mutate, Write, Refuse, Sync
<1>6. CASE RemoveJournal(p)
  <2>1. CASE At(p, "remove")
    <3>1. fs' = With("data", [fs["data"] EXCEPT !.journal = None])
      BY <1>6, <2>1 DEF RemoveJournal, At, Mutate, Write
    <3> QED
      BY <1>1, <1>6, <2>1, <3>1 DEF With, Content
  <2>2. CASE ~At(p, "remove")
    <3>1. UNCHANGED fs
      BY <1>6, <2>2 DEF RemoveJournal, Sync
    <3> QED
      BY <3>1 DEF Journal
  <2> QED
    BY <2>1, <2>2
<1> QED
  BY <1>4, <1>5, <1>6

\* The other steps leave all directories alone or work within a transaction.
LEMMA OtherSteps ==
    ASSUME IInv, Next,
           \A p \in Procs : ~(ReadJournal(p) \/ WriteJournal(p) \/ RemoveJournal(p)),
           ~PowerLoss
    PROVE  \/ UNCHANGED fs
           \/ \E p \in Procs : Labelled(p, Installing)
           \/ \E p \in Procs : /\ Labelled(p, Removing)
                               /\ DeletePrefix(p) \/ fs'["releases"] = fs["releases"]
<1>1. ASSUME NEW p \in Procs, Kill(p) \/ Acquire(p) PROVE UNCHANGED fs
  BY <1>1 DEF Kill, Acquire
<1>2. ASSUME NEW p \in Procs, RecoverPending(p) \/ Inspect(p) PROVE UNCHANGED fs
  BY <1>2 DEF RecoverPending, Inspect, Decide, Refuse, Decline, Succeed
<1> QED
  BY <1>1, <1>2, InstallingSteps, RemovingSteps DEF Next, Fault, Run

----------------------------------------------------------------------------
(* The pair of links and the deletion of releases.                         *)

Pair == <<Link("current"), Link("rollback")>>

\* A step that takes no journal away, or leaves one.
OldOrNewStep ==
    Journal' = None =>
       IF Journal = None
       THEN Pair' = Pair
       ELSE Pair' \in {<<Journal.oldCurrent, Journal.oldRollback>>,
                       <<Journal.newCurrent, Journal.newRollback>>}

\* What the links of a content say of the pair.
LEMMA PairIs ==
    /\ Pair = <<LinkIn(fs, "current"), LinkIn(fs, "rollback")>>
    /\ Pair' = <<LinkIn(fs', "current"), LinkIn(fs', "rollback")>>
BY DEF Pair, Link, LinkIn, RootAt, RootIn

\* Every step: only remove_journal and a power loss take a journal away.
LEMMA StepOldOrNew ==
    ASSUME OneJournal, IInv, IInv', [Next]_vars PROVE OldOrNewStep
<1>1. CASE UNCHANGED fs
  BY <1>1 DEF OldOrNewStep, Pair, Link, Journal, RootAt
<1>2. CASE PowerLoss
  <2>1. fs' \in Kept
    BY <1>2, PowerLossFacts DEF IInv
  <2>2. /\ Journal = None => Alike(fs', fs)
        /\ Journal # None /\ Journal' = None => LinksOld(fs', Journal)
    BY <2>1 DEF IInv, HistoryInv, FallsBack, JournalIn, Journal
  <2> QED
    BY <2>2, PairIs DEF OldOrNewStep, Alike, LinksOld, LinksAre
<1>3. ASSUME NEW p \in Procs, ReadJournal(p) \/ WriteJournal(p) \/ RemoveJournal(p)
      PROVE  OldOrNewStep
  <2>1. Pair' = Pair
    BY <1>3, JournalSteps DEF Pair, Link, RootAt
  <2>2. CASE Journal' = Journal
    BY <2>1, <2>2 DEF OldOrNewStep
  <2>3. CASE At(p, "journalRename") /\ Journal' = Mem(p)
    <3>1. LocalJournal(proc[p], fs, report)
      BY <2>3 DEF IInv, ProcInv, At, Local
    <3> QED
      BY <2>3, <3>1 DEF LocalJournal, At, Mem, Starting, OldOrNewStep
  <2>4. CASE At(p, "remove")
    <3> DEFINE m == proc[p].journal
    <3>1. /\ LocalJournal(proc[p], fs, report) /\ LocalEnd(proc[p], fs, Kept)
          /\ proc[p].at = "remove"
      BY <2>4 DEF IInv, ProcInv, At, Local
    <3>2. SameTransaction(m, Journal)
      BY <3>1 DEF LocalJournal, Starting, Writing, Journal, JournalIn
    <3>3. LinksOld(fs, m) \/ LinksNew(fs, m)
      BY <3>1 DEF LocalEnd
    <3>4. LinksOld(fs, Journal) \/ LinksNew(fs, Journal)
      BY <3>2, <3>3, TransactionLinks
    <3>5. Journal # None
      BY <3>2 DEF SameTransaction
    <3> QED
      BY <2>1, <3>4, <3>5, PairIs DEF OldOrNewStep, LinksOld, LinksNew, LinksAre
  <2> QED
    BY <1>3, <2>2, <2>3, <2>4, JournalSteps
<1>4. ASSUME NEW p \in Procs, Labelled(p, Installing) \/ Labelled(p, Removing)
      PROVE  OldOrNewStep
  <2>1. proc'[p].at \in Installing \cup Removing
    BY <1>4, LabelledTo
  <2>2. Journal' # None
    BY <2>1, InTransactionNext DEF InTransaction, Within, Installing
  <2> QED
    BY <2>2 DEF OldOrNewStep
<1> QED
  BY <1>1, <1>2, <1>3, <1>4, OtherSteps DEF vars

\* The pair of links changes only under a journal, and the journal goes away
\* only over the old or the new pair.
THEOREM PairIsOldOrNew ==
    ASSUME OneJournal PROVE Spec => OldOrNew
<1>1. IInv /\ IInv' /\ [Next]_vars => [OldOrNewStep]_vars
  BY StepOldOrNew
<1>2. OldOrNewStep => (Journal' = None =>
         LET pair == <<Link("current"), Link("rollback")>>
         IN  IF Journal = None
               THEN pair' = pair
               ELSE pair' \in {<<Journal.oldCurrent, Journal.oldRollback>>,
                               <<Journal.newCurrent, Journal.newRollback>>})
  BY DEF OldOrNewStep, Pair
<1> QED
  BY <1>1, <1>2, InstallerInvariant, PTL DEF Spec, OldOrNew

\* A step takes no whole release apart, but for one that is buried.
DeletesOnlyBuriedStep ==
    \A r \in Releases :
       (fs["releases"].tree[r] = "whole" /\ fs'["releases"].tree[r] = "partial") =>
          /\ RootAt("tombstone")
          /\ Journal # None /\ Journal.op = "uninstall" /\ Journal.state # "prepared"
          /\ ~fs["bin"].entry

\* Every step: a power loss brings no release back in pieces.
LEMMA StepDeletesOnlyBuried ==
    ASSUME OneJournal, IInv, IInv', [Next]_vars PROVE DeletesOnlyBuriedStep
<1>1. CASE fs'["releases"] = fs["releases"]
  BY <1>1 DEF DeletesOnlyBuriedStep
<1>2. CASE PowerLoss
  <2>1. fs' \in Kept
    BY <1>2, PowerLossFacts DEF IInv
  <2> QED
    BY <2>1 DEF IInv, HistoryInv, DeletesOnlyBuriedStep
<1>3. ASSUME NEW p \in Procs, Labelled(p, Installing)
      PROVE  DeletesOnlyBuriedStep
  <2>1. proc'[p].at \in Installing
    BY <1>3, LabelledTo
  <2> QED
    BY <2>1, InTransactionNext DEF InTransaction, DeletesOnlyBuriedStep
<1>4. ASSUME NEW p \in Procs, DeletePrefix(p)
      PROVE  DeletesOnlyBuriedStep
  <2>1. CASE UNCHANGED fs
    BY <1>1, <2>1
  <2>2. CASE At(p, "delete") /\ RootAt("tombstone")
    <3>1. proc[p].at \in Removing
      BY <2>2 DEF At, Removing
    <3>2. /\ Journal # None /\ Journal.op = "uninstall" /\ Journal.state # "prepared"
          /\ LocalRemove(proc[p], fs)
      BY <3>1, RemovalFacts DEF SameTransaction
    <3>3. ~fs["bin"].entry
      BY <2>2, <3>1, <3>2 DEF LocalRemove, At
    <3> QED
      BY <2>2, <3>2, <3>3 DEF DeletesOnlyBuriedStep
  <2> QED
    BY <1>4, <2>1, <2>2 DEF DeletePrefix, Decide, SyncThen, Sync
<1>5. ASSUME NEW p \in Procs, ReadJournal(p) \/ WriteJournal(p) \/ RemoveJournal(p)
      PROVE  DeletesOnlyBuriedStep
  BY <1>1, <1>5, JournalSteps
<1> QED
  BY <1>1, <1>2, <1>3, <1>4, <1>5, OtherSteps DEF vars

\* A release is taken apart only under a committing uninstall, after root and
\* launcher have left their places.
THEOREM ReleasesGoOnlyBuried ==
    ASSUME OneJournal PROVE Spec => DeletesOnlyBuried
<1>1. IInv /\ IInv' /\ [Next]_vars => [DeletesOnlyBuriedStep]_vars
  BY StepDeletesOnlyBuried
<1> QED
  BY <1>1, InstallerInvariant, PTL DEF Spec, DeletesOnlyBuried, DeletesOnlyBuriedStep
=============================================================================
