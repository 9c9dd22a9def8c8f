------------------------------ MODULE Contents -------------------------------
(***************************************************************************)
(* What users write, who is told of it and the copies kept of it: the      *)
(* sessions in which users meet, what hosts tell the participants of a     *)
(* meeting, a file that is edited together, hot reload and the watcher of  *)
(* files, the versions of a template and of a configuration, a repository  *)
(* and its checkout, backups of code and of databases. Each has its own    *)
(* records and locks and none waits for another, so a behaviour of all of  *)
(* them, seen through the variables of one, is a behaviour of that one.    *)
(* `focus' says which of them moves; the others stay as they started, so   *)
(* that TLC looks at each of them and not at their product.                *)
(***************************************************************************)
EXTENDS CollaborationSessions, MeetingControls, CollaborationEditing,
        HotReload, TemplateVersions, Backups, GitSync

VARIABLE focus

vars == <<focus, meetingPlaceVars, controlVars, editingVars, hotReloadVars,
          watchVars, templateVars, configVars, codeVars, dbVars, gitVars>>

Init ==
    /\ focus \in {"meeting", "controls", "editing", "reload", "watching",
                  "templates", "configurations", "code", "databases", "git"}
    /\ CollaborationInit /\ ControlsInit /\ EditingInit /\ HotReloadInit
    /\ WatchingInit /\ TemplatesInit /\ ConfigInit /\ CodeBackupsInit
    /\ DbBackupsInit /\ GitInit

OthersStay(part) ==
    /\ UNCHANGED focus
    /\ part # "meeting" => UNCHANGED meetingPlaceVars
    /\ part # "controls" => UNCHANGED controlVars
    /\ part # "editing" => UNCHANGED editingVars
    /\ part # "reload" => UNCHANGED hotReloadVars
    /\ part # "watching" => UNCHANGED watchVars
    /\ part # "templates" => UNCHANGED templateVars
    /\ part # "configurations" => UNCHANGED configVars
    /\ part # "code" => UNCHANGED codeVars
    /\ part # "databases" => UNCHANGED dbVars
    /\ part # "git" => UNCHANGED gitVars

Next ==
    \/ focus = "meeting" /\ CollaborationNext /\ OthersStay("meeting")
    \/ focus = "controls" /\ ControlsNext /\ OthersStay("controls")
    \/ focus = "editing" /\ EditingNext /\ OthersStay("editing")
    \/ focus = "reload" /\ HotReloadNext /\ OthersStay("reload")
    \/ focus = "watching" /\ WatchingNext /\ OthersStay("watching")
    \/ focus = "templates" /\ TemplatesNext /\ OthersStay("templates")
    \/ focus = "configurations" /\ ConfigNext /\ OthersStay("configurations")
    \/ focus = "code" /\ CodeBackupsNext /\ OthersStay("code")
    \/ focus = "databases" /\ DbBackupsNext /\ OthersStay("databases")
    \/ focus = "git" /\ GitNext /\ OthersStay("git")

Spec == Init /\ [][Next]_vars

-----------------------------------------------------------------------------
\* Documents, versions and records of copies have the shapes they should.
TypeOK ==
    /\ CollaborationTypeOK /\ ControlsTypeOK /\ EditingTypeOK /\ HotReloadTypeOK /\ WatchingTypeOK
    /\ TemplatesTypeOK /\ ConfigTypeOK
    /\ CodeBackupsTypeOK /\ DbBackupsTypeOK /\ GitTypeOK

\* What users type is in the document, each rune once, although edits on several
\* connections interleave (collaboration_service.go HandleEditOperation), and what the
\* participants of a meeting are told to be is in their entries, but for writes that
\* overlap a join (meeting_service.go).
EditsAreKept == InsertsAreWhole /\ ClocksDiffer /\ ControlsAreKept

\* A text only grows, deletions staying as tombstones, and a version tells which
\* text it is (crdt_engine.go).
TextsGrow == [][DocumentsGrow /\ VersionTellsTexts]_editingVars

\* Who has subscribed to changes is told of each once, and of none while hot reload
\* is off (hotreload_service.go), a watcher that the service of watchers switched
\* off has stopped (filewatcher_service.go), and who edits together is in one session, to be told
\* apart by the colours, until it ends (collaboration_service.go), but for the races
\* the parts name; and one screen is shared in a meeting (screen_share_service.go).
ChangesAreTold ==
    /\ ToldOnce /\ DisabledIsNotTold /\ DisabledIsNotWatched
    /\ TheyMeet /\ ColorsDiffer /\ EndedIsForgotten /\ OneScreenShare

\* Versions are numbered so that a number finds its contents: the template's
\* version is recorded and the next number is free (template_service.go), the
\* versions of a configuration are in order (config_backup_service.go), and the
\* index of a history leads to its operations (history_service.go).
VersionsAgree ==
    /\ CurrentVersionIsRecorded /\ NextVersionIsFree
    /\ VersionsInOrder
    /\ HistoryIsIndexed

\* A copy that is said to be complete has what it should have, with the copies it
\* builds on: an incremental backup of code or of a database with its parents,
\* and a checkout that was synchronised with its repository.
CopiesAreTrue ==
    /\ BackupHasFile /\ ChainIsComplete
    /\ SyncedIsCurrent /\ SyncingIsUnderWay
==============================================================================
