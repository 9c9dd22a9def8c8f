------------------------------- MODULE Backups -------------------------------
(***************************************************************************)
(* CodeBackupService for one environment whose workspace is one file: the  *)
(* backups made by goroutines, and the table of file hashes that tells an  *)
(* incremental backup what has changed.  A file is hashed and then copied   *)
(* while users edit it.  The table is written when the archive is, before  *)
(* the backup is known to have succeeded.                                  *)
(***************************************************************************)
EXTENDS Naturals, Sequences, SequencesExt

CONSTANTS MaxCodeBackups,  \* bound: backups created
          MaxEdits         \* bound: contents the file may have

ASSUME CodeBackupsAssumption == MaxCodeBackups \in Nat /\ MaxEdits \in Nat \ {0}

VARIABLES file,         \* the content of the file
          fileHash,     \* the content in the table of hashes, 0 for no entry
          codeBackups,  \* each backup: how far it is, its parent, the content it hashed,
                        \* the one it compares with, the one in its archive (0 for none)
          codeKnown,    \* those in the map
          damaged,      \* history: backups that copied another content than they had
                        \* hashed, or whose archive was not closed as it should
          irregular     \* history: backups overlapped, one failed late or was removed

codeVars == <<file, fileHash, codeBackups, codeKnown, damaged, irregular>>

CodeBackup == 1..MaxCodeBackups
Version == 0..MaxEdits

CodeBackupsTypeOK ==
    /\ file \in 1..MaxEdits /\ fileHash \in Version
    /\ codeBackups \in [CodeBackup -> [at : {"none", "pending", "walk", "copy", "store", "check",
                                             "completed", "failed"},
                                       mode : {"full", "incremental"}, parent : 0..MaxCodeBackups,
                                       saw : Version, prev : Version, holds : Version]]
    /\ codeKnown \subseteq CodeBackup /\ damaged \subseteq CodeBackup
    /\ irregular \in BOOLEAN

NoCodeBackup == [at |-> "none", mode |-> "full", parent |-> 0, saw |-> 0, prev |-> 0, holds |-> 0]
\* What a failed one saw and archived is not used again.
FailedBackup == [NoCodeBackup EXCEPT !.at = "failed"]

CodeBackupsInit ==
    /\ file = 1 /\ fileHash = 0
    /\ codeBackups = [b \in CodeBackup |-> NoCodeBackup]
    /\ codeKnown = {} /\ damaged = {} /\ irregular = FALSE

CompletedCode == {b \in codeKnown : codeBackups[b].at = "completed"}
UnderWay == {b \in CodeBackup : codeBackups[b].at \in {"pending", "walk", "copy", "store", "check"}}

Note(condition) == irregular' = (irregular \/ condition)

-----------------------------------------------------------------------------

\* Also back to what it was, and while backups read it.
EditFile(v) ==
    /\ v # file
    /\ file' = v
    /\ UNCHANGED <<fileHash, codeBackups, codeKnown, damaged, irregular>>

\* By request or by the schedule.  An incremental backup without a completed one
\* before it is a full one.
CreateBackup(b, mode) ==
    /\ codeBackups[b].at = "none"
    /\ \A c \in 1..(b - 1) : codeBackups[c].at # "none"
    /\ codeBackups' = [codeBackups EXCEPT ![b] =
           IF mode = "incremental" /\ CompletedCode # {}
           THEN [NoCodeBackup EXCEPT
                    !.at = "pending", !.mode = mode,
                    !.parent = CHOOSE c \in CompletedCode : \A d \in CompletedCode : d <= c]
           ELSE [NoCodeBackup EXCEPT !.at = "pending"]]
    /\ codeKnown' = codeKnown \cup {b}
    /\ Note(UnderWay # {})
    /\ UNCHANGED <<file, fileHash, damaged>>

\* performBackup starts: an incremental one reads the table.
BeginWalk(b) ==
    /\ codeBackups[b].at = "pending"
    /\ codeBackups' = [codeBackups EXCEPT
           ![b].at = "walk",
           ![b].prev = IF codeBackups[b].mode = "incremental" THEN fileHash ELSE 0]
    /\ UNCHANGED <<file, fileHash, codeKnown, damaged, irregular>>

\* What an incremental backup finds unchanged is not archived.
HashFile(b) ==
    /\ codeBackups[b].at = "walk"
    /\ codeBackups' = [codeBackups EXCEPT
           ![b].saw = file,
           ![b].at = IF file = codeBackups[b].prev THEN "store" ELSE "copy"]
    /\ UNCHANGED <<file, fileHash, codeKnown, damaged, irregular>>

\* The file is opened and read again: it may have been edited since.
CopyFile(b) ==
    /\ codeBackups[b].at = "copy"
    /\ codeBackups' = [codeBackups EXCEPT ![b].at = "store", ![b].holds = file]
    /\ damaged' = IF file = codeBackups[b].saw THEN damaged ELSE damaged \cup {b}
    /\ UNCHANGED <<file, fileHash, codeKnown, irregular>>

\* The hashes taken replace the table.
StoreHashes(b) ==
    /\ codeBackups[b].at = "store"
    /\ codeBackups' = [codeBackups EXCEPT ![b].at = "check"]
    /\ fileHash' = codeBackups[b].saw
    /\ UNCHANGED <<file, codeKnown, damaged, irregular>>

WalkFailsLate(b) ==
    /\ codeBackups[b].at = "store"
    /\ codeBackups' = [codeBackups EXCEPT ![b] = FailedBackup]
    /\ fileHash' = codeBackups[b].saw
    /\ UNCHANGED <<file, codeKnown, damaged, irregular>>

WalkFails(b) ==
    /\ codeBackups[b].at \in {"pending", "walk", "copy", "store"}
    /\ codeBackups' = [codeBackups EXCEPT ![b] = FailedBackup]
    /\ UNCHANGED <<file, fileHash, codeKnown, damaged, irregular>>

\* The writers are closed, whose errors nobody looks at, and then the checksum and
\* the size of the archive are taken and recorded; or one of these fails after the
\* table was replaced.
CompleteBackup(b) ==
    /\ codeBackups[b].at = "check"
    /\ \/ codeBackups' = [codeBackups EXCEPT ![b].at = "completed"] /\ UNCHANGED irregular
       \/ codeBackups' = [codeBackups EXCEPT ![b] = FailedBackup] /\ Note(TRUE)
    /\ damaged' \in {damaged, damaged \cup {b}}
    /\ UNCHANGED <<file, fileHash, codeKnown>>

\* DeleteBackup, or CleanupExpiredBackups of one that has completed: neither looks
\* at the backups it is the parent of.
DeleteCodeBackup(b) ==
    /\ b \in codeKnown
    /\ codeKnown' = codeKnown \ {b}
    /\ Note(TRUE)
    /\ UNCHANGED <<file, fileHash, codeBackups, damaged>>

CodeBackupsNext ==
    \/ \E v \in 1..MaxEdits : EditFile(v)
    \/ \E b \in CodeBackup, mode \in {"full", "incremental"} : CreateBackup(b, mode)
    \/ \E b \in CodeBackup : BeginWalk(b)
    \/ \E b \in CodeBackup : HashFile(b)
    \/ \E b \in CodeBackup : CopyFile(b)
    \/ \E b \in CodeBackup : StoreHashes(b)
    \/ \E b \in CodeBackup : WalkFails(b)
    \/ \E b \in CodeBackup : CompleteBackup(b)
    \/ \E b \in CodeBackup : DeleteCodeBackup(b)

CodeBackupsSpec == CodeBackupsInit /\ [][CodeBackupsNext]_codeVars

-----------------------------------------------------------------------------
(* Properties. *)

\* Where a restore of a backup finds the file: in its own archive, or where one of
\* its parent does.
Archive[b \in 0..MaxCodeBackups] ==
    IF b \notin CompletedCode THEN 0
    ELSE IF codeBackups[b].holds # 0 \/ b \in damaged THEN b
    ELSE Archive[codeBackups[b].parent]

\* A completed backup with its parents has the file as the backup hashed it, however
\* many incremental ones came before and failed, unless the archive it is in copied
\* an edit made after the hash or was not closed as it should.  Not so when backups
\* overlapped, one failed after its archive was written, or one was removed.
BackupHasFile ==
    ~irregular => \A b \in CompletedCode :
        LET a == Archive[b]
        IN  a \in CompletedCode /\ (a \in damaged \/ codeBackups[a].holds = codeBackups[b].saw)

-----------------------------------------------------------------------------
(***************************************************************************)
(* DatabaseBackupService: full and incremental backups of the database,    *)
(* made by goroutines, deleted by users and by the clean-up.  Identifiers  *)
(* are given in the order of CreatedAt.  An incremental backup names its   *)
(* parent before it is stored in the map.                                  *)
(***************************************************************************)

CONSTANT MaxBackups   \* bound: backups created

ASSUME DbBackupsAssumption == MaxBackups \in Nat

VARIABLES dbBackups,  \* each backup: how far it is, its mode and parent, what was dumped
          dbKnown,    \* those in the map
          dbDeleted   \* history: those a user deleted

dbVars == <<dbBackups, dbKnown, dbDeleted>>

DbBackup == 1..MaxBackups

DbBackupsTypeOK ==
    /\ dbBackups \in [DbBackup -> [at : {"none", "chosen", "pending", "dumping", "completed", "failed"},
                                   mode : {"full", "incremental"}, parent : 0..MaxBackups,
                                   whole : BOOLEAN]]
    /\ dbKnown \subseteq DbBackup /\ dbDeleted \subseteq DbBackup

DbBackupsInit ==
    /\ dbBackups = [b \in DbBackup |->
                       [at |-> "none", mode |-> "full", parent |-> 0, whole |-> FALSE]]
    /\ dbKnown = {} /\ dbDeleted = {}

CompletedDb == {b \in dbKnown : dbBackups[b].at = "completed"}

\* The next identifier: backups are created in order.
NextDb(b) == dbBackups[b].at = "none" /\ \A c \in 1..(b - 1) : dbBackups[c].at # "none"

\* findLatestBackup: the latest by creation of the completed ones, 0 for none.
LatestOf(S) == IF S = {} THEN 0 ELSE CHOOSE b \in S : \A c \in S : c <= b

-----------------------------------------------------------------------------
(* Creation. *)

CreateFullBackup(b) ==
    /\ NextDb(b)
    /\ dbBackups' = [dbBackups EXCEPT ![b].at = "chosen"]
    /\ UNCHANGED <<dbKnown, dbDeleted>>

ChooseParent(b) == LatestOf(CompletedDb)

\* Without a completed full backup it is a full one.
CreateIncrementalBackup(b) ==
    /\ NextDb(b)
    /\ \E c \in CompletedDb : dbBackups[c].mode = "full"
    /\ dbBackups' = [dbBackups EXCEPT ![b] = [at |-> "chosen", mode |-> "incremental",
                                              parent |-> ChooseParent(b), whole |-> FALSE]]
    /\ UNCHANGED <<dbKnown, dbDeleted>>

StoreBackupRecord(b) ==
    /\ dbBackups[b].at = "chosen"
    /\ dbBackups' = [dbBackups EXCEPT ![b].at = "pending"]
    /\ dbKnown' = dbKnown \cup {b}
    /\ UNCHANGED dbDeleted

-----------------------------------------------------------------------------
(* performBackup, which goes on when the record has been deleted. *)

\* An incremental dump has only the data, unless its parent is no longer there.
BeginDump(b) ==
    /\ dbBackups[b].at = "pending"
    /\ dbBackups' = [dbBackups EXCEPT
           ![b].at = "dumping",
           ![b].whole = dbBackups[b].mode = "full" \/ dbBackups[b].parent \notin dbKnown]
    /\ UNCHANGED <<dbKnown, dbDeleted>>

EndDump(b) ==
    /\ dbBackups[b].at = "dumping"
    /\ \E end \in {"completed", "failed"} : dbBackups' = [dbBackups EXCEPT ![b].at = end]
    /\ UNCHANGED <<dbKnown, dbDeleted>>

-----------------------------------------------------------------------------
(* Deletion. *)

DeleteDbBackup(b) ==
    /\ b \in dbKnown
    /\ dbKnown' = dbKnown \ {b} /\ dbDeleted' = dbDeleted \cup {b}
    /\ UNCHANGED dbBackups

RemoveExpiredParents(b) ==
    /\ b \in CompletedDb
    /\ dbKnown' = dbKnown \ {b}
    /\ UNCHANGED <<dbBackups, dbDeleted>>

\* One expired backup of CleanupExpiredBackups; only completed ones expire, and a
\* parent of another stays.
RemoveExpired(b) ==
    /\ b \in CompletedDb
    /\ \A c \in dbKnown : dbBackups[c].parent # b
    /\ dbKnown' = dbKnown \ {b}
    /\ UNCHANGED <<dbBackups, dbDeleted>>

DbBackupsNext ==
    \/ \E b \in DbBackup : CreateFullBackup(b)
    \/ \E b \in DbBackup : CreateIncrementalBackup(b)
    \/ \E b \in DbBackup : StoreBackupRecord(b)
    \/ \E b \in DbBackup : BeginDump(b)
    \/ \E b \in DbBackup : EndDump(b)
    \/ \E b \in DbBackup : DeleteDbBackup(b)
    \/ \E b \in DbBackup : RemoveExpired(b)

\* The goroutines run.
DbFairness == \A b \in DbBackup : WF_dbVars(BeginDump(b) \/ EndDump(b))

DbBackupsSpec == DbBackupsInit /\ [][DbBackupsNext]_dbVars /\ DbFairness

-----------------------------------------------------------------------------
(* Properties. *)

\* The chain that RestoreBackup follows from a backup ends with a whole dump.
Restorable[b \in 0..MaxBackups] ==
    \/ b \in dbDeleted
    \/ /\ b \in CompletedDb
       /\ dbBackups[b].whole \/ Restorable[dbBackups[b].parent]

\* The clean-up leaves every completed backup restorable, also when it removes the
\* parent that a backup has chosen and not yet recorded: only a deletion by a user
\* breaks a chain.
ChainIsComplete == \A b \in CompletedDb : Restorable[b]

-----------------------------------------------------------------------------
(***************************************************************************)
(* ConfigBackupService for one environment: the list of versions and the   *)
(* last number.  A save looks at the last version under the read lock and  *)
(* appends under the lock.  The checksum of a configuration is taken to    *)
(* tell which it is; a version has the one it was stored with.  The files  *)
(* of the versions are left out.                                           *)
(***************************************************************************)

CONSTANTS Config,       \* the configurations
          NoSum,        \* a checksum that is no configuration's
          Saver,        \* the calls that save or restore
          VersionLimit, \* ConfigVersionLimit
          MaxNumber     \* bound: numbers given

ASSUME ConfigAssumption ==
    Config # {} /\ NoSum \notin Config /\ VersionLimit \in Nat \ {0} /\ MaxNumber \in Nat

VARIABLES configVersions,  \* the list: number, configuration and checksum of each
          latestVersion,
          saver,           \* a call that has found its configuration to be new
          unchecked        \* history: numbers of versions not compared with their predecessor

configVars == <<configVersions, latestVersion, saver, unchecked>>

VersionNumber == 1..MaxNumber
NoSave == [config |-> CHOOSE c \in Config : TRUE, last |-> 0, busy |-> FALSE]

ConfigTypeOK ==
    /\ configVersions \in Seq([num : VersionNumber, config : Config, sum : Config \cup {NoSum}])
    /\ latestVersion \in 0..MaxNumber
    /\ saver \in [Saver -> [config : Config, last : 0..MaxNumber, busy : BOOLEAN]]
    /\ unchecked \subseteq VersionNumber

ConfigInit ==
    /\ configVersions = <<>> /\ latestVersion = 0
    /\ saver = [p \in Saver |-> NoSave]
    /\ unchecked = {}

LastNumber == IF configVersions = <<>> THEN 0 ELSE Last(configVersions).num
LastSum == IF configVersions = <<>> THEN NoSum ELSE Last(configVersions).sum

-----------------------------------------------------------------------------

\* What has the checksum of the last version is not saved again.  A restored one is
\* the configuration of a version in the list.
CheckChanged(p, c) ==
    /\ ~saver[p].busy
    /\ LastSum # c
    /\ saver' = [saver EXCEPT ![p] = [config |-> c, last |-> LastNumber, busy |-> TRUE]]
    /\ UNCHANGED <<configVersions, latestVersion, unchecked>>

NumberFromLength == Len(configVersions) + 1

NextNumber == latestVersion + 1

Trim(s) == IF Len(s) > VersionLimit THEN SubSeq(s, Len(s) - VersionLimit + 1, Len(s)) ELSE s

AppendVersion(c, sum, limit) ==
    /\ NextNumber \in VersionNumber
    /\ latestVersion' = NextNumber
    /\ LET longer == Append(configVersions, [num |-> NextNumber, config |-> c, sum |-> sum])
       IN  configVersions' = IF limit THEN Trim(longer) ELSE longer

SaveConfig(p) ==
    /\ saver[p].busy
    /\ AppendVersion(saver[p].config, saver[p].config, TRUE)
    /\ unchecked' = IF LastNumber = saver[p].last THEN unchecked ELSE unchecked \cup {NextNumber}
    /\ saver' = [saver EXCEPT ![p] = NoSave]

\* An imported version is neither compared nor limited, and its checksum is the
\* one it came with, whatever its configuration.
ImportVersion(c, sum) ==
    /\ AppendVersion(c, sum, FALSE)
    /\ unchecked' = unchecked \cup {NextNumber}
    /\ UNCHANGED saver

\* DeleteVersion, or CleanupOldVersions of an old one.
DeleteVersion(n) ==
    /\ \E i \in DOMAIN configVersions : /\ configVersions[i].num = n
                                       /\ configVersions' = RemoveAt(configVersions, i)
    /\ UNCHANGED <<latestVersion, saver, unchecked>>

ConfigNext ==
    \/ \E p \in Saver, c \in Config : CheckChanged(p, c)
    \/ \E p \in Saver : SaveConfig(p)
    \/ \E c \in Config, sum \in Config \cup {NoSum} : ImportVersion(c, sum)
    \/ \E n \in VersionNumber : DeleteVersion(n)

ConfigSpec == ConfigInit /\ [][ConfigNext]_configVars

-----------------------------------------------------------------------------
(* Properties. *)

\* The versions are in the order of their numbers, and no two with numbers in
\* succession are alike but where saves overlapped, the later was imported, or the
\* earlier was with the checksum of something else.
VersionsInOrder ==
    \A i \in 1..(Len(configVersions) - 1) :
        LET v == configVersions[i]  w == configVersions[i + 1]
        IN  /\ v.num < w.num
            /\ w.num = v.num + 1 /\ w.num \notin unchecked /\ v.sum = v.config
                   => v.config # w.config
==============================================================================
