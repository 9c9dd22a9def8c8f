--------------------------- MODULE MeetingControls ---------------------------
(***************************************************************************)
(* MeetingService and ScreenShareService: what hosts and co-hosts do to    *)
(* the participants of a meeting, and the screen that is shared.  The      *)
(* meeting is looked up, and who asks is checked, before anything is done, *)
(* and what is done to an entry of Meeting.Participants is done without    *)
(* the room's mutex.  A join appends to that slice: where its array is     *)
(* full it is copied first, and what is written to the old array after     *)
(* that is lost.  Connections and their channels are in MeetingRoom.       *)
(***************************************************************************)
EXTENDS Naturals, Sequences, FiniteSets

CONSTANTS User,       \* the first to join a meeting need not be its host
          Host,       \* Meeting.HostUserID
          MaxEntries, \* bound: joins ever
          NoJoin

ASSUME HostAssumption == Host \in User
ASSUME EntryAssumption == MaxEntries \in Nat

VARIABLES entries,    \* Meeting.Participants
          joining,    \* a join that has the mutex: its user, and the array it copied
          leavers,    \* connections deleted from the service and not yet from the room
          checked,    \* users who were found to be co-hosts and have yet to act
          sharers,    \* ScreenShareService.activeSessions: whose has not ended
          over,      \* Meeting.Status is Ended
          given,      \* history: what each entry was last told to be
          overlapped  \* history: entries that were written while a join copied them

controlVars == <<entries, joining, leavers, checked, sharers, over, given, overlapped>>

Participant == [user : User, role : {"Host", "CoHost", "Participant"}, audio : BOOLEAN,
                left : BOOLEAN]

ControlsTypeOK ==
    /\ entries \in Seq(Participant) /\ Len(entries) <= MaxEntries
    /\ joining = NoJoin \/ joining \in [user : User, copy : Seq(Participant)]
    /\ leavers \subseteq DOMAIN entries
    /\ checked \subseteq User
    /\ sharers \subseteq DOMAIN entries
    /\ over \in BOOLEAN
    /\ given \in Seq(Participant)
    /\ overlapped \subseteq DOMAIN entries

ControlsInit ==
    /\ entries = <<>> /\ joining = NoJoin /\ leavers = {}
    /\ checked = {} /\ sharers = {} /\ over = FALSE
    /\ given = <<>> /\ overlapped = {}

Unlocked == joining = NoJoin

-----------------------------------------------------------------------------
(* Joining and leaving. *)

JoinBegins(u) ==
    /\ Unlocked /\ ~over /\ Len(entries) < MaxEntries
    /\ joining' = [user |-> u, copy |-> entries]
    /\ UNCHANGED <<entries, leavers, checked, sharers, over, given, overlapped>>

NewEntry(u) ==
    [user |-> u, role |-> IF u = Host THEN "Host" ELSE "Participant", audio |-> TRUE,
     left |-> FALSE]

\* The array had room, or is exchanged for the copy.
JoinEnds ==
    /\ ~Unlocked
    /\ \E array \in {entries, joining.copy} : entries' = Append(array, NewEntry(joining.user))
    /\ given' = Append(given, NewEntry(joining.user))
    /\ joining' = NoJoin
    /\ UNCHANGED <<leavers, checked, sharers, over, overlapped>>

\* LeaveMeeting holds the service's mutex first; who was kicked leaves like this too.
LeaveService(p) ==
    /\ p \in DOMAIN entries /\ ~given[p].left /\ p \notin leavers
    /\ leavers' = leavers \cup {p}
    /\ UNCHANGED <<entries, joining, checked, sharers, over, given, overlapped>>

Present == {p \in DOMAIN given : ~given[p].left}

LeaveRoomUnlocked(p) ==
    /\ p \in leavers
    /\ leavers' = leavers \ {p}
    /\ entries' = [entries EXCEPT ![p].left = TRUE]
    /\ given' = [given EXCEPT ![p].left = TRUE]
    /\ over' = (over \/ Present = {p})
    /\ UNCHANGED <<joining, checked, sharers, overlapped>>

\* The room's mutex, which a join holds, is held: the meeting ends with the last who leaves.
LeaveRoom(p) ==
    /\ Unlocked /\ p \in leavers
    /\ leavers' = leavers \ {p}
    /\ entries' = [entries EXCEPT ![p].left = TRUE]
    /\ given' = [given EXCEPT ![p].left = TRUE]
    /\ over' = (over \/ Present = {p})
    /\ UNCHANGED <<joining, checked, sharers, overlapped>>

\* A participant mutes or unmutes himself under the room's mutex.
SetOwnAudio(p, audio) ==
    /\ Unlocked /\ p \in Present /\ p \notin leavers
    /\ entries' = [entries EXCEPT ![p].audio = audio]
    /\ given' = [given EXCEPT ![p].audio = audio]
    /\ UNCHANGED <<joining, leavers, checked, sharers, over, overlapped>>

-----------------------------------------------------------------------------
(* Requests of hosts and co-hosts. *)

\* One entry of the user's is enough, be it left or of before.
IsCoHost(u) == \E p \in DOMAIN entries : entries[p].user = u /\ entries[p].role = "CoHost"
Moderates(u) == u = Host \/ IsCoHost(u)

\* GetMeeting, which finds ended meetings too, and the check; a host stays one.
CheckCoHost(u) ==
    /\ u # Host /\ IsCoHost(u) /\ u \notin checked
    /\ checked' = checked \cup {u}
    /\ UNCHANGED <<entries, joining, leavers, sharers, over, given, overlapped>>

ActsAsHost(u) == u = Host /\ UNCHANGED checked
ActsAsModerator(u) == ActsAsHost(u) \/ (u \in checked /\ checked' = checked \ {u})

\* Entries are changed in place, without a mutex.
Tell(told, Change(_)) ==
    /\ entries' = [p \in DOMAIN entries |-> IF p \in told THEN Change(entries[p]) ELSE entries[p]]
    /\ given' = [p \in DOMAIN given |-> IF p \in told THEN Change(given[p]) ELSE given[p]]
    /\ overlapped' = IF Unlocked THEN overlapped ELSE overlapped \cup told
    /\ UNCHANGED <<joining, leavers, sharers, over>>

UpdateParticipantRole(u, p, role) ==
    /\ ActsAsHost(u) /\ p \in DOMAIN entries
    /\ Tell({p}, LAMBDA e : [e EXCEPT !.role = role])

MuteParticipant(u, p) ==
    /\ ActsAsModerator(u) /\ p \in DOMAIN entries
    /\ Tell({p}, LAMBDA e : [e EXCEPT !.audio = FALSE])

MuteAll(u) ==
    /\ ActsAsHost(u)
    /\ Tell({p \in DOMAIN entries : entries[p].role # "Host"},
            LAMBDA e : [e EXCEPT !.audio = FALSE])

\* LeaveMeeting with the connection of the entry.
KickParticipant(u, p) ==
    /\ ActsAsModerator(u) /\ p \in Present \ leavers
    /\ leavers' = leavers \cup {p}
    /\ UNCHANGED <<entries, joining, sharers, over, given, overlapped>>

\* EndMeeting checks who asks and ends the meeting under the mutex.
EndMeetingBy(u) ==
    /\ Unlocked /\ Moderates(u) /\ ~over
    /\ over' = TRUE
    /\ UNCHANGED <<entries, joining, leavers, checked, sharers, given, overlapped>>

-----------------------------------------------------------------------------
(* The shared screen. *)

StartUnchecked(p) ==
    /\ p \in DOMAIN entries
    /\ sharers' = sharers \cup {p}
    /\ UNCHANGED <<entries, joining, leavers, checked, over, given, overlapped>>

\* The participant may have left, and the meeting may have ended.
StartScreenShare(p) ==
    /\ p \in DOMAIN entries /\ sharers = {}
    /\ sharers' = {p}
    /\ UNCHANGED <<entries, joining, leavers, checked, over, given, overlapped>>

StopScreenShare(p) ==
    /\ p \in sharers
    /\ sharers' = sharers \ {p}
    /\ UNCHANGED <<entries, joining, leavers, checked, over, given, overlapped>>

ForceStopScreenShare(u) ==
    /\ ActsAsModerator(u) /\ sharers # {}
    /\ \E p \in sharers : sharers' = sharers \ {p}
    /\ UNCHANGED <<entries, joining, leavers, over, given, overlapped>>

ControlsNext ==
    \/ \E u \in User : JoinBegins(u)
    \/ JoinEnds
    \/ \E p \in 1..MaxEntries : LeaveService(p)
    \/ \E p \in leavers : LeaveRoom(p)
    \/ \E p \in Present, audio \in BOOLEAN : SetOwnAudio(p, audio)
    \/ \E u \in User : CheckCoHost(u)
    \/ \E u \in User, p \in DOMAIN entries, role \in {"CoHost", "Participant"} :
          UpdateParticipantRole(u, p, role)
    \/ \E u \in User, p \in DOMAIN entries : MuteParticipant(u, p)
    \/ \E u \in User : MuteAll(u)
    \/ \E u \in User, p \in DOMAIN entries : KickParticipant(u, p)
    \/ \E u \in User : EndMeetingBy(u)
    \/ \E p \in DOMAIN entries : StartScreenShare(p)
    \/ \E p \in DOMAIN entries : StopScreenShare(p)
    \/ \E u \in User : ForceStopScreenShare(u)

-----------------------------------------------------------------------------
\* What participants are told to be, muted or co-host, is in their entries, unless it was
\* written while a join copied them; and nobody who has left is listed as present.
ControlsAreKept ==
    /\ \A p \in DOMAIN entries \ overlapped : entries[p] = given[p]
    /\ \A p \in DOMAIN entries : entries[p].left = given[p].left

\* One screen is shared at a time, however requests overlap.
OneScreenShare == \A p, q \in sharers : p = q
=============================================================================
