-------------------------- MODULE ReleaseInstaller --------------------------
(***************************************************************************)
(* The journaled installer of the Linux release: install, rollback and     *)
(* uninstall of versioned releases under one managed root, the recovery    *)
(* that opens every command, and the faults it is written for: a process   *)
(* that dies (or returns an error) between two file-system operations, and *)
(* a power loss that undoes the operations not yet made durable.           *)
(* Source: src/src/linux_release/install.rs and install/transaction.rs.    *)
(*                                                                         *)
(* Every step of a process is one file-system mutation, one fsync or one   *)
(* decision.  The bytes of a release are abstracted to whether its tree is *)
(* absent, partial or whole, i.e. what validate_installed_release tells.   *)
(***************************************************************************)
EXTENDS FiniteSets, Naturals

CONSTANTS
    Releases,   \* the release identifiers
    Procs,      \* the processes that may run a command
    Versions,   \* the versions of the installer
    VersionOf,  \* the version a release was built with
    NewModes,   \* the modes that the users' umasks leave a new directory with
    None,       \* no link, no journal, no owner
    Domains     \* a partition of Dirs: an fsync of one directory makes every
                \* earlier update of its domain durable, in the order of the
                \* updates.  {Dirs} is a file system with one metadata
                \* journal; singletons are what POSIX alone promises.

Dirs == {"data", "home", "bin", "prefix", "releases"}

ASSUME ReleasesAssumption == None \notin Releases
(* The mode of a managed directory: writable by group or others, as mkdir  *)
(* left it but not so, and as chmod sets it.                               *)
Modes == {"loose", "fresh", "set"}

ASSUME VersionsAssumption == VersionOf \in [Releases -> Versions]
ASSUME ModesAssumption == NewModes \subseteq Modes
ASSUME ProcsAssumption == None \notin Procs
ASSUME DomainsAssumption ==
    /\ UNION Domains = Dirs
    /\ \A m, n \in Domains : m = n \/ m \cap n = {}

VARIABLES
    fs,        \* what a process sees: the content of every directory
    images,    \* per domain, the contents a power loss may leave behind
    proc,      \* per process, where its command is
    lock,      \* the owner of the install lock
    refused,   \* history: a command met a state it does not accept, and that
               \* neither its version nor a directory left open explains
    report     \* history: the last success told to a user, until the next
               \* transaction is prepared
vars == <<fs, images, proc, lock, refused, report>>

Links == Releases \cup {None}
Tree == {"absent", "partial", "whole"}
StageTree == Tree \cup {"loose"}

Journals == [op : {"install", "rollback", "uninstall"},
             state : {"prepared", "committing", "committed"},
             oldCurrent : Links, oldRollback : Links,
             newCurrent : Links, newRollback : Links,
             release : Links, launcher : BOOLEAN]

(* An installer of some version, what it is asked for, and the archive. *)
Commands == [op : {"install"}, release : Releases, version : Versions]
              \cup [op : {"rollback", "uninstall"}, release : {None}, version : Versions]

ASSUME NoneAssumption == None \notin Journals \cup Commands

(* The content of the five directories.  $XDG_DATA_HOME holds the journal, *)
(* its staging file, and the managed root, which uninstall renames to the  *)
(* tombstone.  The root holds the marker, the two links and their staging  *)
(* names; releases/ holds the releases and their staging directories.  A   *)
(* staging directory is loose while it or its bin/ is; home stands for     *)
(* ~/.local and ~/.local/bin.                                              *)
Content == [
    data : [journal : Journals \cup {None}, journalNext : BOOLEAN,
            root : {"absent", "root", "tombstone"}],
    home : [bin : BOOLEAN, mode : Modes],
    bin : [entry : BOOLEAN, entryNext : BOOLEAN, backup : BOOLEAN],
    prefix : [mode : Modes, marker : BOOLEAN, markerNext : BOOLEAN,
              releases : BOOLEAN, current : Links, rollback : Links,
              next : [{"current", "rollback"} -> Links]],
    releases : [mode : Modes, tree : [Releases -> Tree], stage : [Releases -> StageTree]]]

EmptyPrefix == [mode |-> "set", marker |-> FALSE, markerNext |-> FALSE,
                releases |-> FALSE, current |-> None, rollback |-> None,
                next |-> [n \in {"current", "rollback"} |-> None]]
EmptyReleases == [mode |-> "set", tree |-> [r \in Releases |-> "absent"],
                  stage |-> [r \in Releases |-> "absent"]]

Labels == {"idle", "read", "readSync", "pending", "inspect",
           "journal", "journalRename", "journalSync",
           "prepare", "rootMode", "rootSync", "marker", "markerRename", "markerSync",
           "releases", "releasesMode", "releasesSync",
           "stage", "stageMode", "stageSync", "stageBin", "stageBinMode", "stageBinSync",
           "extract", "publish", "publishSync",
           "validate", "rollback", "rollbackRename", "rollbackSync",
           "current", "currentRename", "currentSync",
           "launcherParent", "launcherParentMode", "launcherParentSync",
           "launcher", "launcherRename", "launcherSync",
           "cleanStage", "cleanReleases", "cleanMarker", "cleanRoot",
           "cleanRootSync", "restored",
           "unlink", "unlinkSync", "bury", "burySync",
           "delete", "deleteSync", "backup", "backupSync",
           "remove", "removeSync"}

Idle == [at |-> "idle", cmd |-> None, journal |-> None, recovering |-> FALSE]

-----------------------------------------------------------------------------
(* The file system.                                                        *)

Image(f, m) == [d \in m |-> f[d]]

(* A mutation is visible at once and durable at some later time. *)
Write(f) ==
    /\ fs' = f
    /\ images' = [m \in Domains |-> images[m] \cup {Image(f, m)}]

(* The updated content of one directory. *)
With(d, content) == [fs EXCEPT ![d] = content]

(* sync_directory: fsync of a directory. *)
Sync(ds) ==
    /\ images' = [m \in Domains |->
                    IF ds \cap m # {} THEN {Image(fs, m)} ELSE images[m]]
    /\ UNCHANGED fs

RootAt(place) == fs["data"].root = place

(* read_release_link: the links are read through the managed root. *)
Link(name) == IF RootAt("root") THEN fs["prefix"][name] ELSE None

TreeAt(r) == IF RootAt("root") THEN fs["releases"].tree[r] ELSE "absent"
StageAt(r) == IF RootAt("root") THEN fs["releases"].stage[r] ELSE "absent"

Journal == fs["data"].journal

-----------------------------------------------------------------------------
(* The control of a process.                                               *)

At(p, label) == proc[p].at = label
Goto(p, label) == proc' = [proc EXCEPT ![p].at = label]
Mem(p) == proc[p].journal

(* The process exits and its lock goes with its descriptor. *)
Exit(p) ==
    /\ proc' = [proc EXCEPT ![p] = Idle]
    /\ lock' = IF lock = p THEN None ELSE lock

(* The command ends with an error before it changed anything. *)
Decline(p) == Exit(p) /\ UNCHANGED <<fs, images, refused, report>>

(* A directory stayed writable by group or others between mkdir and chmod. *)
LeftOpen ==
    \/ fs["home"].mode = "loose"
    \/ /\ ~RootAt("absent")
       /\ \/ fs["prefix"].mode = "loose"
          \/ fs["prefix"].releases /\ fs["releases"].mode = "loose"
          \/ \E r \in Releases : fs["releases"].stage[r] = "loose"

(* The releases on file whose version is the command's own. *)
Own(p, r) == VersionOf[r] = proc[p].cmd.version
OnlyOwn(p) == \A r \in Releases : fs["releases"].tree[r] # "absent" => Own(p, r)

(* The command ends because it met a state that it does not accept. *)
Refuses(p) ==
    /\ Exit(p)
    /\ refused' = (refused \/ ~(LeftOpen \/ ~OnlyOwn(p)))

Refuse(p) == Refuses(p) /\ UNCHANGED <<fs, images, report>>

Succeed(p, current, rollback) ==
    /\ Exit(p)
    /\ report' = [op |-> proc[p].cmd.op, recovered |-> proc[p].recovering,
                  current |-> current, rollback |-> rollback]
    /\ UNCHANGED <<fs, images, refused>>

Mutate(p, f, label) ==
    Write(f) /\ Goto(p, label) /\ UNCHANGED <<lock, refused, report>>

SyncThen(p, ds, label) ==
    Sync(ds) /\ Goto(p, label) /\ UNCHANGED <<lock, refused, report>>

Decide(p, label) ==
    Goto(p, label) /\ UNCHANGED <<fs, images, lock, refused, report>>

(* Continue with journal j in memory. *)
Carry(p, j, label) ==
    /\ proc' = [proc EXCEPT ![p].at = label, ![p].journal = j]
    /\ UNCHANGED <<fs, images, lock, refused, report>>

-----------------------------------------------------------------------------
(* What the checks accept.                                                 *)

(* validate_prefix_at: modes, marker, exactly the managed entries, every   *)
(* release whole, and links that name one.                                 *)
PrefixValid ==
    LET top == fs["prefix"]
        rel == fs["releases"]
    IN  /\ top.mode = "set" /\ top.marker /\ ~top.markerNext
        /\ top.releases /\ rel.mode = "set"
        /\ \A name \in {"current", "rollback"} : top.next[name] = None
        /\ \A r \in Releases : rel.stage[r] = "absent" /\ rel.tree[r] # "partial"
        /\ \A name \in {"current", "rollback"} :
              top[name] # None => rel.tree[top[name]] = "whole"

(* inspect_install on a root that exists. *)
InstallValid ==
    /\ PrefixValid
    /\ fs["prefix"].current # None
    /\ fs["bin"].entry

(* Fault for the checks: the pair is taken for an atomic switch. *)
TransitionPair(j) ==
    <<Link("current"), Link("rollback")>> \in
        {<<j.oldCurrent, j.oldRollback>>, <<j.newCurrent, j.newRollback>>}

(* validate_transition_links: each link is as before or as after. *)
TransitionLinks(j) ==
    /\ Link("current") \in {j.oldCurrent, j.newCurrent}
    /\ Link("rollback") \in {j.oldRollback, j.newRollback}

(* validate_recoverable_prefix: a partly deleted managed tree. *)
RecoverablePrefix ==
    /\ fs["prefix"].mode # "loose"
    /\ fs["prefix"].releases => fs["releases"].mode # "loose"
    /\ ~fs["prefix"].markerNext
    /\ \A name \in {"current", "rollback"} : fs["prefix"].next[name] = None
    /\ \A r \in Releases : fs["releases"].stage[r] = "absent"

-----------------------------------------------------------------------------
(* Start of a command.                                                     *)

(* Fault for the checks: a lock that is opened and not taken. *)
AcquireShared(p) ==
    /\ At(p, "idle")
    /\ fs["home"].mode # "loose"
    /\ \E c \in Commands : proc' = [proc EXCEPT ![p] = [Idle EXCEPT !.at = "read", !.cmd = c]]
    /\ lock' = p
    /\ UNCHANGED <<fs, images, refused, report>>

(* install_layout, which lets no command in while a launcher directory is  *)
(* loose, and acquire, a non-blocking exclusive flock: a second command is *)
(* told "another Linux release operation is active".  Neither refusal      *)
(* changes anything.                                                       *)
Acquire(p) ==
    /\ At(p, "idle")
    /\ fs["home"].mode # "loose"
    /\ lock = None
    /\ \E c \in Commands : proc' = [proc EXCEPT ![p] = [Idle EXCEPT !.at = "read", !.cmd = c]]
    /\ lock' = p
    /\ UNCHANGED <<fs, images, refused, report>>

(* read_journal: a staging file of the journal is removed first. *)
ReadJournal(p) ==
    \/ /\ At(p, "read") /\ fs["data"].journalNext
       /\ Mutate(p, With("data", [fs["data"] EXCEPT !.journalNext = FALSE]), "readSync")
    \/ /\ At(p, "read") /\ ~fs["data"].journalNext
       /\ Decide(p, "pending")
    \/ At(p, "readSync") /\ SyncThen(p, {"data"}, "pending")

(* Recovery stops at links, a release or an installation it cannot accept; *)
(* a release is accepted when it is whole and of the command's version     *)
(* (validate_installed_manifest_policy).                                   *)
Recoverable(p, j) ==
    /\ TransitionLinks(j)
    /\ (j.op = "install" /\ TreeAt(j.release) # "absent") =>
          TreeAt(j.release) = "whole" /\ Own(p, j.release)
    /\ (j.op = "uninstall" /\ j.state = "prepared") =>
          RootAt("root") /\ InstallValid /\ OnlyOwn(p)

(* Faults for the checks: recovery drops the journal of an install that    *)
(* left its staging directory, of a prepared rollback, or leaves the       *)
(* journal of a committed transaction.                                     *)
RecoveryKeepsStaging(j) ==
    CASE j.op = "install" /\ TreeAt(j.release) = "absent" -> "remove"
      [] j.op = "uninstall" /\ j.state # "prepared" -> "unlink"
      [] j.op = "uninstall" /\ j.state = "prepared" -> "remove"
      [] OTHER -> "validate"
RecoveryDropsRollback(j) ==
    CASE j.op = "install" /\ TreeAt(j.release) = "absent" -> "cleanStage"
      [] j.op = "uninstall" /\ j.state # "prepared" -> "unlink"
      [] j.op # "install" /\ j.state = "prepared" -> "remove"
      [] OTHER -> "validate"
RecoverySkipsCommitted(j) ==
    CASE j.state = "committed" -> "inspect"
      [] j.op = "install" /\ TreeAt(j.release) = "absent" -> "cleanStage"
      [] j.op = "uninstall" /\ j.state # "prepared" -> "unlink"
      [] j.op = "uninstall" /\ j.state = "prepared" -> "remove"
      [] OTHER -> "validate"

(* The direction of recovery: an install whose release has its name, a     *)
(* rollback and a committing uninstall go forward, an install without its  *)
(* release goes back, a prepared uninstall is dropped.                     *)
RecoveryOf(j) ==
    CASE j.op = "install" /\ TreeAt(j.release) = "absent" -> "cleanStage"
      [] j.op = "install" /\ TreeAt(j.release) # "absent" -> "validate"
      [] j.op = "rollback" -> "validate"
      [] j.op = "uninstall" /\ j.state = "prepared" -> "remove"
      [] j.op = "uninstall" /\ j.state # "prepared" -> "unlink"

(* recover_pending and the decision of recover_install. *)
RecoverPending(p) ==
    \/ At(p, "pending") /\ Journal = None /\ Decide(p, "inspect")
    \/ /\ At(p, "pending") /\ Journal # None
       /\ IF Recoverable(p, Journal)
            THEN /\ proc' = [proc EXCEPT ![p].at = RecoveryOf(Journal), ![p].recovering = TRUE,
                                ![p].journal = [Journal EXCEPT !.state = "committing"]]
                 /\ UNCHANGED <<fs, images, lock, refused, report>>
            ELSE Refuse(p)

(* The journal of a command that found current release c and rollback      *)
(* release b (Journal::install, ::rollback and ::uninstall).               *)
NewJournal(cmd, c, b, launcher) ==
    [op |-> cmd.op, state |-> "prepared", oldCurrent |-> c, oldRollback |-> b,
     newCurrent |-> CASE cmd.op = "install" -> cmd.release
                      [] cmd.op = "rollback" -> b
                      [] cmd.op = "uninstall" -> None,
     newRollback |-> IF cmd.op = "uninstall" THEN None ELSE c,
     release |-> cmd.release, launcher |-> launcher]

(* reject_unmanaged_recovery_paths, inspect_install and the journal of the *)
(* transaction; "alreadyCurrent" ends an install here, and a bad archive   *)
(* (one of another version, too), a missing root or a missing rollback     *)
(* release end a command unchanged.                                        *)
Inspect(p) ==
    /\ At(p, "inspect")
    /\ LET cmd == proc[p].cmd
           c == Link("current")
           b == Link("rollback")
           begin == /\ proc' = [proc EXCEPT ![p].at = "journal", ![p].recovering = FALSE,
                                   ![p].journal = NewJournal(cmd, c, b, RootAt("root"))]
                    /\ UNCHANGED <<fs, images, lock, refused, report>>
       IN  IF RootAt("tombstone") \/ fs["bin"].backup THEN Refuse(p) ELSE
           \/ cmd.op = "install" /\ Decline(p)
           \/ RootAt("absent") /\ cmd.op = "install" /\ Own(p, cmd.release) /\ begin
           \/ RootAt("absent") /\ cmd.op # "install" /\ Decline(p)
           \/ /\ RootAt("root")
              /\ cmd.op = "install" => Own(p, cmd.release)
              /\ IF ~(InstallValid /\ OnlyOwn(p)) THEN Refuse(p) ELSE
                 \/ cmd.op = "install" /\ c = cmd.release /\ Succeed(p, c, b)
                 \/ cmd.op = "install" /\ c # cmd.release /\ begin
                 \/ cmd.op = "rollback" /\ b = None /\ Decline(p)
                 \/ cmd.op = "rollback" /\ b # None /\ begin
                 \/ cmd.op = "uninstall" /\ begin

-----------------------------------------------------------------------------
(* The journal file.                                                       *)

(* Faults for the checks: an uninstall that acts on its prepared journal,  *)
(* an install that ends before its links.                                  *)
AfterJournalUncommitted(j) ==
    CASE j.state = "committed" -> "remove"
      [] j.op = "install" /\ j.state = "prepared" -> "prepare"
      [] j.op = "uninstall" /\ j.state # "committed" -> "unlink"
      [] OTHER -> "validate"
AfterJournalEarly(j) ==
    CASE j.state = "committed" \/ (j.state = "committing" /\ j.op = "install") -> "remove"
      [] j.op = "install" /\ j.state = "prepared" -> "prepare"
      [] j.op = "uninstall" /\ j.state = "prepared" -> "journal"
      [] j.op = "uninstall" /\ j.state = "committing" -> "unlink"
      [] OTHER -> "validate"

(* What follows the durable journal of each operation and state. *)
AfterJournal(j) ==
    CASE j.state = "prepared" /\ j.op = "install" -> "prepare"
      [] j.state = "prepared" /\ j.op = "rollback" -> "validate"
      [] j.state = "prepared" /\ j.op = "uninstall" -> "journal"
      [] j.state = "committing" /\ j.op = "uninstall" -> "unlink"
      [] j.state = "committing" /\ j.op # "uninstall" -> "validate"
      [] j.state = "committed" -> "remove"

(* uninstall rewrites its journal as committing at once. *)
Rewritten(j) == IF j.state = "prepared" /\ j.op = "uninstall"
                  THEN [j EXCEPT !.state = "committing"] ELSE j

(* write_journal: durable_atomic_write through the staging file. *)
WriteJournal(p) ==
    \/ /\ At(p, "journal")
       /\ IF fs["data"].journalNext
            THEN Refuse(p)
            ELSE Mutate(p, With("data", [fs["data"] EXCEPT !.journalNext = TRUE]),
                        "journalRename")
    \/ /\ At(p, "journalRename")
       /\ Write(With("data", [fs["data"] EXCEPT !.journalNext = FALSE, !.journal = Mem(p)]))
       /\ Goto(p, "journalSync")
       /\ report' = IF Mem(p).state = "prepared" THEN None ELSE report
       /\ UNCHANGED <<lock, refused>>
    \/ /\ At(p, "journalSync")
       /\ Sync({"data"})
       /\ proc' = [proc EXCEPT ![p].at = AfterJournal(Mem(p)), ![p].journal = Rewritten(@)]
       /\ UNCHANGED <<lock, refused, report>>

(* remove_journal; then a recovering command goes on with its own request, *)
(* unless the recovered operation was the one it was asked for.            *)
RemoveJournal(p) ==
    \/ /\ At(p, "remove")
       /\ Mutate(p, With("data", [fs["data"] EXCEPT !.journal = None]), "removeSync")
    \/ /\ At(p, "removeSync")
       /\ Sync({"data"})
       /\ LET ends == \/ ~proc[p].recovering
                      \/ proc[p].cmd.op = Mem(p).op /\ Mem(p).op # "install"
          IN  IF ends
                THEN /\ Exit(p)
                     /\ report' = [op |-> proc[p].cmd.op, recovered |-> proc[p].recovering,
                                   current |-> Mem(p).newCurrent,
                                   rollback |-> Mem(p).newRollback]
                ELSE Goto(p, "inspect") /\ UNCHANGED <<lock, report>>
       /\ UNCHANGED refused

-----------------------------------------------------------------------------
(* Install: directories and the staged release.                            *)

Prefix(f, v) == With("prefix", [fs["prefix"] EXCEPT ![f] = v])

(* prepare_install_directories: root, marker and releases/ of a new root.  *)
(* create_managed_directory is mkdir, chmod and the two fsyncs.            *)
PrepareDirectories(p) ==
    \/ /\ At(p, "prepare") /\ ~RootAt("root")
       /\ \E m \in NewModes :
            Mutate(p, [fs EXCEPT !["data"].root = "root", !["releases"] = EmptyReleases,
                                 !["prefix"] = [EmptyPrefix EXCEPT !.mode = m]], "rootMode")
    \/ /\ At(p, "prepare") /\ RootAt("root")
       /\ IF fs["prefix"].marker THEN Decide(p, "stage") ELSE Refuse(p)
    \/ At(p, "rootMode") /\ Mutate(p, Prefix("mode", "set"), "rootSync")
    \/ At(p, "rootSync") /\ SyncThen(p, {"prefix", "data"}, "marker")
    \/ At(p, "marker") /\ Mutate(p, Prefix("markerNext", TRUE), "markerRename")
    \/ /\ At(p, "markerRename")
       /\ Mutate(p, With("prefix", [fs["prefix"] EXCEPT !.markerNext = FALSE,
                                      !.marker = TRUE]), "markerSync")
    \/ At(p, "markerSync") /\ SyncThen(p, {"prefix"}, "releases")
    \/ /\ At(p, "releases")
       /\ \E m \in NewModes :
            Mutate(p, [fs EXCEPT !["prefix"].releases = TRUE,
                                 !["releases"].mode = m], "releasesMode")
    \/ /\ At(p, "releasesMode")
       /\ Mutate(p, With("releases", [fs["releases"] EXCEPT !.mode = "set"]), "releasesSync")
    \/ At(p, "releasesSync") /\ SyncThen(p, {"releases", "prefix"}, "stage")

SetTree(r, t) == With("releases", [fs["releases"] EXCEPT !.tree[r] = t])
SetStage(r, t) == With("releases", [fs["releases"] EXCEPT !.stage[r] = t])

(* The staging directory after a mkdir in it, or of itself. *)
Made(m) == IF m = "loose" THEN "loose" ELSE "partial"

(* apply_install after the directories: make .staging-<id> and its bin/,   *)
(* each by create_managed_directory.  A staging directory that exists ends *)
(* the command with an error.                                              *)
MakeStaging(p) ==
    LET r == Mem(p).release IN
    \/ /\ At(p, "stage") /\ TreeAt(r) = "absent"
       /\ IF StageAt(r) = "absent"
            THEN \E m \in NewModes : Mutate(p, SetStage(r, Made(m)), "stageMode")
            ELSE Refuse(p)
    \/ At(p, "stageMode") /\ Mutate(p, SetStage(r, "partial"), "stageSync")
    \/ At(p, "stageSync") /\ SyncThen(p, {"releases"}, "stageBin")
    \/ /\ At(p, "stageBin")
       /\ \E m \in NewModes : Mutate(p, SetStage(r, Made(m)), "stageBinMode")
    \/ At(p, "stageBinMode") /\ Mutate(p, SetStage(r, "partial"), "stageBinSync")
    \/ At(p, "stageBinSync") /\ SyncThen(p, {"releases"}, "extract")

(* Then extract into it, check the extracted tree, rename it to its place; *)
(* an existing release is only validated.  Each extracted file is fsynced  *)
(* with its directory, so the extraction ends with a durable tree.         *)
StageRelease(p) ==
    LET r == Mem(p).release IN
    \/ /\ At(p, "stage") /\ TreeAt(r) # "absent"
       /\ IF TreeAt(r) = "whole" /\ Own(p, r)
            THEN Carry(p, [Mem(p) EXCEPT !.state = "committing"], "journal") ELSE Refuse(p)
    \/ /\ At(p, "extract")
       /\ fs' = SetStage(r, "whole")
       /\ images' = [m \in Domains |-> IF "releases" \in m THEN {Image(fs', m)} ELSE images[m]]
       /\ Goto(p, "publish")
       /\ UNCHANGED <<lock, refused, report>>
    \/ /\ At(p, "publish") /\ StageAt(r) = "whole"
       /\ Mutate(p, With("releases", [fs["releases"] EXCEPT !.tree[r] = "whole",
                                        !.stage[r] = "absent"]), "publishSync")
    \/ /\ At(p, "publishSync")
       /\ Sync({"releases"})
       /\ proc' = [proc EXCEPT ![p].at = "journal", ![p].journal.state = "committing"]
       /\ UNCHANGED <<lock, refused, report>>

-----------------------------------------------------------------------------
(* The link transaction.                                                   *)

(* apply_link_transaction validates the releases both links will name. *)
ValidateTargets(p) ==
    /\ At(p, "validate")
    /\ IF \A r \in {Mem(p).newCurrent, Mem(p).newRollback} \ {None} :
             TreeAt(r) = "whole" /\ Own(p, r)
         THEN Decide(p, "rollback") ELSE Refuse(p)

RenameOf(name) == IF name = "current" THEN "currentRename" ELSE "rollbackRename"
SyncOf(name) == IF name = "current" THEN "currentSync" ELSE "rollbackSync"

(* replace_release_link.  A staging link must name the new target and is   *)
(* removed; a link that already has the target ends the call without fsync.*)
ReplaceLink(p, name, target, next) ==
    LET staged == fs["prefix"].next[name]
        top(link, tmp) == With("prefix", [fs["prefix"] EXCEPT ![name] = link,
                                                            !.next[name] = tmp])
    IN  \/ /\ At(p, name) /\ staged # None
           /\ IF staged = target
                THEN Mutate(p, top(fs["prefix"][name], None), name) ELSE Refuse(p)
        \/ /\ At(p, name) /\ staged = None /\ target # None
           /\ IF Link(name) = target
                THEN Decide(p, next)
                ELSE Mutate(p, top(fs["prefix"][name], target), RenameOf(name))
        \/ /\ At(p, name) /\ staged = None /\ target = None
           /\ Mutate(p, top(None, None), SyncOf(name))
        \/ At(p, RenameOf(name)) /\ Mutate(p, top(target, None), SyncOf(name))
        \/ At(p, SyncOf(name)) /\ SyncThen(p, {"prefix"}, next)

ReplaceLinks(p) ==
    \/ ReplaceLink(p, "rollback", Mem(p).newRollback, "current")
    \/ ReplaceLink(p, "current", Mem(p).newCurrent, "launcherParent")

Bin(f, v) == With("bin", [fs["bin"] EXCEPT ![f] = v])

(* ensure_launcher_parent, create_or_validate_launcher, and the committed  *)
(* journal.  A launcher is always the managed link here, so validating it  *)
(* is finding it.                                                          *)
EnsureLauncher(p) ==
    \/ /\ At(p, "launcherParent") /\ fs["home"].bin
       /\ IF fs["home"].mode # "loose" THEN Decide(p, "launcher") ELSE Refuse(p)
    \/ /\ At(p, "launcherParent") /\ ~fs["home"].bin
       /\ \E m \in NewModes :
            Mutate(p, With("home", [bin |-> TRUE, mode |-> m]), "launcherParentMode")
    \/ /\ At(p, "launcherParentMode")
       /\ Mutate(p, With("home", [bin |-> TRUE, mode |-> "set"]), "launcherParentSync")
    \/ At(p, "launcherParentSync") /\ SyncThen(p, {"bin", "home"}, "launcher")
    \/ /\ At(p, "launcher") /\ fs["bin"].entry
       /\ Carry(p, [Mem(p) EXCEPT !.state = "committed"], "journal")
    \/ /\ At(p, "launcher") /\ ~fs["bin"].entry /\ fs["bin"].entryNext
       /\ Mutate(p, Bin("entryNext", FALSE), "launcher")
    \/ /\ At(p, "launcher") /\ ~fs["bin"].entry /\ ~fs["bin"].entryNext
       /\ Mutate(p, Bin("entryNext", TRUE), "launcherRename")
    \/ /\ At(p, "launcherRename")
       /\ Mutate(p, With("bin", [fs["bin"] EXCEPT !.entryNext = FALSE,
                                   !.entry = TRUE]), "launcherSync")
    \/ /\ At(p, "launcherSync")
       /\ Sync({"bin"})
       /\ proc' = [proc EXCEPT ![p].at = "journal", ![p].journal.state = "committed"]
       /\ UNCHANGED <<lock, refused, report>>

-----------------------------------------------------------------------------
(* Recovery of an install whose release never got its name: back to old.   *)

(* remove_release_tree: the files go one by one, then the directory. *)
Shrunk(t) == IF t = "whole" THEN "partial" ELSE "absent"

(* Nothing is left in the root. *)
Bare(top) == top = [EmptyPrefix EXCEPT !.mode = top.mode]

(* cleanup_staging and cleanup_empty_new_root: a root this transaction     *)
(* created must hold nothing else and goes away.  Neither fsyncs releases/,*)
(* and validate_recoverable_directory turns a loose directory away.        *)
RollBackInstall(p) ==
    LET r == Mem(p).release IN
    \/ At(p, "cleanStage") /\ StageAt(r) = "loose" /\ Refuse(p)
    \/ /\ At(p, "cleanStage") /\ StageAt(r) \in {"partial", "whole"}
       /\ Mutate(p, SetStage(r, Shrunk(StageAt(r))), "cleanStage")
    \/ /\ At(p, "cleanStage") /\ StageAt(r) = "absent"
       /\ Decide(p, IF Mem(p).oldCurrent = None /\ RootAt("root")
                      THEN "cleanReleases" ELSE "restored")
    \/ /\ At(p, "cleanReleases")
       /\ IF /\ fs["prefix"].mode # "loose"
             /\ fs["prefix"].releases => fs["releases"].mode # "loose"
             /\ \A s \in Releases : TreeAt(s) = "absent" /\ StageAt(s) = "absent"
            THEN Mutate(p, Prefix("releases", FALSE), "cleanMarker") ELSE Refuse(p)
    \/ /\ At(p, "cleanMarker") /\ fs["prefix"].marker
       /\ Mutate(p, Prefix("marker", FALSE), "cleanMarker")
    \/ /\ At(p, "cleanMarker") /\ ~fs["prefix"].marker
       /\ Mutate(p, Prefix("markerNext", FALSE), "cleanRoot")
    \/ /\ At(p, "cleanRoot")
       /\ IF Bare(fs["prefix"])
            THEN Mutate(p, [fs EXCEPT !["data"].root = "absent", !["prefix"] = EmptyPrefix,
                                      !["releases"] = EmptyReleases], "cleanRootSync")
            ELSE Refuse(p)
    \/ At(p, "cleanRootSync") /\ SyncThen(p, {"data"}, "restored")
    \/ /\ At(p, "restored")
       /\ IF /\ Link("current") = Mem(p).oldCurrent
             /\ Link("rollback") = Mem(p).oldRollback
             /\ Mem(p).launcher => fs["bin"].entry
            THEN Decide(p, "remove") ELSE Refuse(p)

-----------------------------------------------------------------------------
(* complete_uninstall.                                                     *)

(* The launcher goes to its backup name, the root to the tombstone. *)
BuryInstall(p) ==
    \/ /\ At(p, "unlink") /\ ~fs["bin"].backup /\ fs["bin"].entry
       /\ Mutate(p, With("bin", [fs["bin"] EXCEPT !.entry = FALSE,
                                   !.backup = TRUE]), "unlinkSync")
    \/ At(p, "unlink") /\ ~(~fs["bin"].backup /\ fs["bin"].entry) /\ Decide(p, "bury")
    \/ At(p, "unlinkSync") /\ SyncThen(p, {"bin"}, "bury")
    \/ /\ At(p, "bury") /\ RootAt("root")
       /\ IF PrefixValid /\ OnlyOwn(p)
            THEN Mutate(p, With("data", [fs["data"] EXCEPT !.root = "tombstone"]), "burySync")
            ELSE Refuse(p)
    \/ /\ At(p, "bury") /\ ~RootAt("root")
       /\ IF RootAt("tombstone") => RecoverablePrefix THEN Decide(p, "delete") ELSE Refuse(p)
    \/ /\ At(p, "burySync")
       /\ Sync({"data"})
       /\ IF RecoverablePrefix
            THEN Goto(p, "delete") /\ UNCHANGED <<lock, refused>>
            ELSE Refuses(p)
       /\ UNCHANGED report

(* remove_authenticated_prefix, one removal at a time: the releases in any *)
(* order, releases/, the links, the marker, the tombstone.                 *)
DeletePrefix(p) ==
    LET top == fs["prefix"]
        tree == fs["releases"].tree
    IN  \/ /\ At(p, "delete") /\ RootAt("tombstone")
           /\ \/ \E r \in Releases : /\ tree[r] # "absent"
                                     /\ \A s \in Releases \ {r} : tree[s] # "partial"
                                     /\ Mutate(p, SetTree(r, Shrunk(tree[r])), "delete")
              \/ /\ \A r \in Releases : tree[r] = "absent"
                 /\ IF Bare(top)
                      THEN Mutate(p, With("data", [fs["data"] EXCEPT !.root = "absent"]),
                                  "deleteSync")
                      ELSE Mutate(p, With("prefix",
                             IF top.releases THEN [top EXCEPT !.releases = FALSE]
                             ELSE IF top.current # None THEN [top EXCEPT !.current = None]
                             ELSE IF top.rollback # None THEN [top EXCEPT !.rollback = None]
                             ELSE [top EXCEPT !.marker = FALSE]), "delete")
        \/ At(p, "delete") /\ ~RootAt("tombstone") /\ Decide(p, "backup")
        \/ At(p, "deleteSync") /\ SyncThen(p, {"data"}, "backup")

(* The launcher backup goes last, then the journal is committed. *)
DropBackup(p) ==
    \/ At(p, "backup") /\ fs["bin"].backup /\ Mutate(p, Bin("backup", FALSE), "backupSync")
    \/ /\ At(p, "backup") /\ ~fs["bin"].backup
       /\ Carry(p, [Mem(p) EXCEPT !.state = "committed"], "journal")
    \/ /\ At(p, "backupSync")
       /\ Sync({"bin"})
       /\ proc' = [proc EXCEPT ![p].at = "journal", ![p].journal.state = "committed"]
       /\ UNCHANGED <<lock, refused, report>>

-----------------------------------------------------------------------------
(* Faults.                                                                 *)

(* The process dies, or an operation fails and the error ends the command: *)
(* no error path of the installer undoes anything.                         *)
Kill(p) ==
    /\ ~At(p, "idle")
    /\ Exit(p)
    /\ UNCHANGED <<fs, images, refused, report>>

(* Every process dies and each domain falls back to a content it had since *)
(* its last fsync.                                                         *)
PowerLoss ==
    /\ LET pending == {m \in Domains : images[m] # {Image(fs, m)}}
       IN  \E pick \in [pending -> UNION {images[m] : m \in pending}] :
             /\ \A m \in pending : pick[m] \in images[m]
             /\ fs' = [d \in Dirs |->
                         LET m == CHOOSE m \in Domains : d \in m
                         IN  IF m \in pending THEN pick[m][d] ELSE fs[d]]
    /\ images' = [m \in Domains |-> {Image(fs', m)}]
    /\ proc' = [p \in Procs |-> Idle]
    /\ lock' = None
    /\ UNCHANGED <<refused, report>>

-----------------------------------------------------------------------------
Init ==
    /\ \E bin \in BOOLEAN :
         fs = [data |-> [journal |-> None, journalNext |-> FALSE, root |-> "absent"],
               home |-> [bin |-> bin, mode |-> "set"],
               bin |-> [entry |-> FALSE, entryNext |-> FALSE, backup |-> FALSE],
               prefix |-> EmptyPrefix, releases |-> EmptyReleases]
    /\ images = [m \in Domains |-> {Image(fs, m)}]
    /\ proc = [p \in Procs |-> Idle]
    /\ lock = None
    /\ refused = FALSE
    /\ report = None

Run(p) ==
    \/ ReadJournal(p) \/ RecoverPending(p) \/ Inspect(p)
    \/ WriteJournal(p) \/ RemoveJournal(p)
    \/ PrepareDirectories(p) \/ MakeStaging(p) \/ StageRelease(p)
    \/ ValidateTargets(p) \/ ReplaceLinks(p) \/ EnsureLauncher(p)
    \/ RollBackInstall(p)
    \/ BuryInstall(p) \/ DeletePrefix(p) \/ DropBackup(p)

Fault == PowerLoss \/ \E p \in Procs : Kill(p)

Next == Fault \/ \E p \in Procs : Acquire(p) \/ Run(p)

(* A command is straight-line code over local files: it keeps running      *)
(* until it ends or is killed.                                             *)
Spec == Init /\ [][Next]_vars /\ \A p \in Procs : WF_vars(Run(p))

-----------------------------------------------------------------------------
(* Properties.                                                             *)

TypeOK ==
    /\ fs \in Content
    /\ \A m \in Domains : Image(fs, m) \in images[m]
    /\ proc \in [Procs -> [at : Labels, cmd : Commands \cup {None},
                           journal : Journals \cup {None}, recovering : BOOLEAN]]
    /\ lock \in Procs \cup {None}
    /\ \A p \in Procs : IF At(p, "idle") THEN proc[p] = Idle
                       ELSE proc[p].cmd # None /\ lock = p
    /\ refused \in BOOLEAN
    /\ report \in [op : {"install", "rollback", "uninstall"}, recovered : BOOLEAN,
                   current : Links, rollback : Links] \cup {None}

(* Whatever commands ran and wherever they were killed or the power failed,*)
(* a command is refused for two reasons only: a directory that stayed      *)
(* writable by group or others between mkdir and chmod, or a release of    *)
(* another version than the command's own.  With neither on file, recovery *)
(* and inspection never run into a check they cannot pass                  *)
(* (recover_pending, inspect_install, complete_...).                       *)
NeverRefused == ~refused

(* Without a journal the installation is complete or gone: a root with its *)
(* marker, whole releases, a current link to one of them and its launcher, *)
(* or nothing at all; never a half-applied change.                         *)
Settled ==
    Journal = None =>
        \/ RootAt("root") /\ InstallValid /\ ~fs["bin"].entryNext /\ ~fs["bin"].backup
        \/ RootAt("absent") /\ fs["bin"] = [entry |-> FALSE, entryNext |-> FALSE,
                                            backup |-> FALSE]

(* The pair of links changes only under a journal, and the journal goes    *)
(* away only over the complete old or the complete new pair: also when a   *)
(* fault takes the step, and never half of a transaction.                  *)
OldOrNew ==
    [][Journal' = None =>
         LET pair == <<Link("current"), Link("rollback")>>
         IN  IF Journal = None
               THEN pair' = pair
               ELSE pair' \in {<<Journal.oldCurrent, Journal.oldRollback>>,
                               <<Journal.newCurrent, Journal.newRollback>>}]_vars

(* An install or a rollback that was reported as done is still done after  *)
(* any later fault, until another transaction is prepared.                 *)
ReportSurvives ==
    (report # None /\ ~(report.op = "uninstall" /\ report.recovered)) =>
        /\ Link("current") = report.current
        /\ Link("rollback") = report.rollback
        /\ fs["bin"].entry <=> report.op # "uninstall"

(* "removed": true is only told when the managed root and the launcher are *)
(* gone, also when the removal is a recovered one.                         *)
RemovedIsGone ==
    (report # None /\ report.op = "uninstall") =>
        RootAt("absent") /\ ~fs["bin"].entry

(* A whole release is taken apart only under a committing uninstall, after *)
(* the root has become the tombstone and the launcher its backup.          *)
DeletesOnlyBuried ==
    [][\A r \in Releases :
         (fs["releases"].tree[r] = "whole" /\ fs'["releases"].tree[r] = "partial") =>
            /\ RootAt("tombstone")
            /\ Journal # None /\ Journal.op = "uninstall" /\ Journal.state # "prepared"
            /\ ~fs["bin"].entry]_vars

(* A command ends before recovery is through: it is killed, or refused.    *)
CutShort ==
    \E p \in Procs : /\ ~At(p, "idle") /\ ~At(p, "inspect") /\ ~At(p, "removeSync")
                     /\ At(p, "idle")'

(* Once commands are no longer cut short and keep coming, the journal goes *)
(* away again: no pending transaction survives the commands after it, even *)
(* if each of them is then declined (recover_pending comes first).  A      *)
(* refused recovery counts as cut short, so that one which a directory     *)
(* left open or another version refuses for ever is not promised to end.   *)
PendingIsRecovered ==
    (<>[][~CutShort]_vars /\ []<>(\E p \in Procs : ~At(p, "idle")))
        => []<>(Journal = None)
=============================================================================
