------------------------------ MODULE Recordings ------------------------------
(***************************************************************************)
(* RecordingService: the recordings of a meeting, which are started and    *)
(* stopped by its hosts, processed and uploaded by a goroutine each, and   *)
(* deleted by their owners or once they are old.  The meeting is looked up *)
(* before the mutex is taken; the goroutine keeps its record by pointer,   *)
(* whether or not it is still in the table.                                *)
(***************************************************************************)
EXTENDS Naturals

CONSTANT Recording    \* recordings of one meeting

VARIABLES recording,     \* the status of each
          listed,        \* RecordingService.recordings
          stored,        \* what is in the storage
          addressed,     \* recordings whose StorageURL is set
          asked,         \* requests that have found the meeting
          meetingOver,   \* the meeting has ended
          strayed        \* history: deleted unfinished, or while the storage failed

recordingVars == <<recording, listed, stored, addressed, asked, meetingOver, strayed>>

RecordingStatus == {"none", "recording", "processing", "completed", "failed"}

RecordingsTypeOK ==
    /\ recording \in [Recording -> RecordingStatus]
    /\ {listed, stored, addressed, strayed} \subseteq SUBSET Recording
    /\ asked \subseteq {"start", "stop", "delete"}
    /\ meetingOver \in BOOLEAN

RecordingsInit ==
    /\ recording = [r \in Recording |-> "none"]
    /\ listed = {} /\ stored = {} /\ addressed = {}
    /\ asked = {} /\ meetingOver = FALSE /\ strayed = {}

Becomes(r, status) == recording' = [recording EXCEPT ![r] = status]

-----------------------------------------------------------------------------
(* Requests of hosts and owners. *)

\* GetMeeting, and the check that the user may do it.
FindMeeting(request) ==
    /\ ~meetingOver
    /\ asked' = asked \cup {request}
    /\ UNCHANGED <<recording, listed, stored, addressed, meetingOver, strayed>>

EndMeeting ==
    /\ ~meetingOver
    /\ meetingOver' = TRUE
    /\ UNCHANGED <<recording, listed, stored, addressed, asked, strayed>>

BeingProcessed == {r \in listed : recording[r] = "processing"}
BeingRecorded == {r \in listed : recording[r] = "recording"}

StartRecording(r) ==
    /\ "start" \in asked /\ asked' = asked \ {"start"}
    /\ recording[r] = "none" /\ BeingRecorded = {}
    /\ Becomes(r, "recording")
    /\ listed' = listed \cup {r}
    /\ UNCHANGED <<stored, addressed, meetingOver, strayed>>

StopRecording(r) ==
    /\ "stop" \in asked /\ asked' = asked \ {"stop"}
    /\ r \in BeingRecorded
    /\ Becomes(r, "processing")
    /\ UNCHANGED <<listed, stored, addressed, meetingOver, strayed>>

\* A failure of the storage is logged, and the record goes all the same.
DeleteRecording(r) ==
    /\ "delete" \in asked /\ asked' = asked \ {"delete"}
    /\ r \in listed
    /\ listed' = listed \ {r}
    /\ \/ /\ stored' = IF r \in addressed THEN stored \ {r} ELSE stored
          /\ strayed' = IF recording[r] = "processing" THEN strayed \cup {r} ELSE strayed
       \/ /\ strayed' = strayed \cup {r}
          /\ UNCHANGED stored
    /\ UNCHANGED <<recording, addressed, meetingOver>>

-----------------------------------------------------------------------------
(* What goes on by itself. *)

ProcessUnlessOver(r) ==
    /\ recording[r] = "processing" /\ ~meetingOver
    /\ \/ /\ Becomes(r, "completed")
          /\ stored' = stored \cup {r} /\ addressed' = addressed \cup {r}
       \/ /\ Becomes(r, "failed")
          /\ UNCHANGED <<stored, addressed>>
    /\ UNCHANGED <<listed, asked, meetingOver, strayed>>

\* The upload may fail.
ProcessRecording(r) ==
    /\ recording[r] = "processing"
    /\ \/ /\ Becomes(r, "completed")
          /\ stored' = stored \cup {r} /\ addressed' = addressed \cup {r}
       \/ /\ Becomes(r, "failed")
          /\ UNCHANGED <<stored, addressed>>
    /\ UNCHANGED <<listed, asked, meetingOver, strayed>>

CleanupRecordOnly(r) ==
    /\ r \in listed /\ recording[r] = "completed"
    /\ listed' = listed \ {r}
    /\ UNCHANGED <<recording, stored, addressed, asked, meetingOver, strayed>>

\* An old recording stays if the storage does not delete it.
CleanupOldRecordings(r) ==
    /\ r \in listed /\ recording[r] = "completed"
    /\ stored' = stored \ {r}
    /\ listed' = listed \ {r}
    /\ UNCHANGED <<recording, addressed, asked, meetingOver, strayed>>

RecordingsNext ==
    \/ \E request \in {"start", "stop", "delete"} : FindMeeting(request)
    \/ EndMeeting
    \/ \E r \in Recording : StartRecording(r)
    \/ \E r \in Recording : StopRecording(r)
    \/ \E r \in Recording : DeleteRecording(r)
    \/ \E r \in Recording : ProcessRecording(r)
    \/ \E r \in Recording : CleanupOldRecordings(r)

\* Each recording that was stopped has its goroutine.
RecordingsFairness == \A r \in Recording : WF_recordingVars(ProcessRecording(r))

-----------------------------------------------------------------------------
\* Whoever asks, a meeting is recorded once at a time (recording_service.go
\* StartRecording looks and stores under one lock).
OneRecording == \A q, r \in BeingRecorded : q = r

\* What is in the storage can be found by a recording, and what a complete recording
\* refers to is there: unless a recording was deleted before its upload, which the
\* goroutine then makes for nobody, or the storage refused to delete it.
StorageIsListed ==
    /\ stored \subseteq listed \cup strayed
    /\ \A r \in listed : recording[r] = "completed" => r \in stored
=============================================================================
