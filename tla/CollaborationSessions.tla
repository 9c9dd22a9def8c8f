----------------------- MODULE CollaborationSessions -----------------------
(***************************************************************************)
(* Who is in which collaboration session of an environment, their colours  *)
(* and cursors, and the history of what they did.  A handler finds or      *)
(* makes the session and draws a colour, and only then takes the mutex     *)
(* again to join; a session can end or fill up between.  A connection that *)
(* closes leaves the hub only: LeaveSession has no caller, so that a       *)
(* participant keeps the seat.  The channels behind it are in              *)
(* CollaborationHub, the documents in CollaborationEditing.                *)
(***************************************************************************)
EXTENDS Naturals, Sequences, FiniteSets

CONSTANTS Visit,            \* connections of users to the environment
          MaxSessions,      \* bound: sessions ever made for it
          MaxParticipants,  \* SessionSettings.MaxParticipants
          Palette,          \* the number of colours
          HistoryCap,       \* MaxHistoryEntriesPerSession
          HistoryTrim,      \* the entries that are dropped when it is reached
          MaxRecords        \* bound: operations ever recorded

ASSUME CollaborationAssumption ==
    /\ {MaxSessions, MaxParticipants, Palette, HistoryTrim} \subseteq Nat \ {0}
    /\ HistoryCap \in Nat /\ HistoryTrim <= HistoryCap /\ MaxRecords \in Nat

VARIABLES sessionOf,    \* the status of each session
          seats,        \* Participants of each: who joined, with their colours
          visit,        \* where each connection is
          colored,      \* CursorService.userColors
          cursors,      \* CursorService.cursors, with the selections
          history,      \* HistoryService.history: the numbers of the operations
          place,        \* HistoryService.historyIndex: where an operation is
          records,      \* operations recorded
          askedFor,    \* history: sessions made by CreateSession
          staleColor,   \* history: visits that joined behind another since their draw
          movedLate     \* history: visits whose cursor moved after the session's end

meetingPlaceVars == <<sessionOf, seats, visit, colored, cursors, history, place, records,
                      askedFor, staleColor, movedLate>>

Meeting == 1..MaxSessions
Seat == [who : Visit, color : 0..(Palette - 1)]

CollaborationTypeOK ==
    /\ sessionOf \in [Meeting -> {"none", "active", "ended"}]
    /\ seats \in [Meeting -> Seq(Seat)]
    /\ \A s \in Meeting : Len(seats[s]) <= MaxParticipants
    /\ visit \in [Visit -> [at : {"absent", "found", "connected", "gone"},
                            session : 0..MaxSessions, color : 0..(Palette - 1)]]
    /\ colored \in [Meeting -> SUBSET Visit]
    /\ cursors \in [Meeting -> SUBSET Visit]
    /\ history \in [Meeting -> Seq(1..MaxRecords)]
    /\ \A s \in Meeting : Len(history[s]) <= HistoryCap
    /\ records \in 0..MaxRecords
    /\ askedFor \subseteq Meeting
    /\ staleColor \subseteq Visit /\ movedLate \subseteq Visit

CollaborationInit ==
    /\ sessionOf = [s \in Meeting |-> "none"]
    /\ seats = [s \in Meeting |-> <<>>]
    /\ visit = [v \in Visit |-> [at |-> "absent", session |-> 0, color |-> 0]]
    /\ colored = [s \in Meeting |-> {}] /\ cursors = [s \in Meeting |-> {}]
    /\ history = [s \in Meeting |-> <<>>] /\ place = [s \in Meeting |-> <<>>]
    /\ records = 0
    /\ askedFor = {} /\ staleColor = {} /\ movedLate = {}

Active == {s \in Meeting : sessionOf[s] = "active"}
Unused(s) == sessionOf[s] = "none" /\ \A t \in 1..(s - 1) : sessionOf[t] # "none"
Connected(v) == visit[v].at = "connected"

-----------------------------------------------------------------------------
(* The history of a session. *)

PositionsOf(entries) == [n \in {entries[i] : i \in DOMAIN entries} |->
                            CHOOSE i \in DOMAIN entries : entries[i] = n]

TrimmedWithoutIndex(s) ==
    IF Len(history[s]) >= HistoryCap
    THEN [entries |-> SubSeq(history[s], HistoryTrim + 1, Len(history[s])), index |-> place[s]]
    ELSE [entries |-> history[s], index |-> place[s]]

\* The index is made anew whenever entries go.
Trimmed(s) ==
    IF Len(history[s]) >= HistoryCap
    THEN LET kept == SubSeq(history[s], HistoryTrim + 1, Len(history[s]))
         IN [entries |-> kept, index |-> PositionsOf(kept)]
    ELSE [entries |-> history[s], index |-> place[s]]

RecordOperation(s) ==
    /\ records < MaxRecords
    /\ records' = records + 1
    /\ LET old == Trimmed(s)
       IN /\ history' = [history EXCEPT ![s] = Append(old.entries, records')]
          /\ place' = [place EXCEPT ![s] =
                          [n \in DOMAIN old.index \cup {records'} |->
                              IF n = records' THEN Len(old.entries) + 1 ELSE old.index[n]]]

\* Of entries, those recorded after the cutoff.
NewEntries(entries, cutoff) ==
    LET Kept[i \in 0..Len(entries)] ==
            IF i = 0 THEN <<>>
            ELSE IF entries[i] > cutoff THEN Append(Kept[i - 1], entries[i])
            ELSE Kept[i - 1]
    IN Kept[Len(entries)]

\* What was recorded before the cutoff goes, in all sessions.
CleanupOldHistory(cutoff) ==
    LET Recent(s) == NewEntries(history[s], cutoff)
    IN /\ cutoff \in 1..records
       /\ history' = [s \in Meeting |-> Recent(s)]
       /\ place' = [s \in Meeting |-> IF Recent(s) = history[s] THEN place[s]
                                      ELSE PositionsOf(Recent(s))]
       /\ UNCHANGED <<sessionOf, seats, visit, colored, cursors, records, askedFor,
                      staleColor, movedLate>>

-----------------------------------------------------------------------------
(* Sessions. *)

CreateSession(s) ==
    /\ Unused(s)
    /\ sessionOf' = [sessionOf EXCEPT ![s] = "active"]
    /\ askedFor' = askedFor \cup {s}
    /\ UNCHANGED <<seats, visit, colored, cursors, history, place, records, staleColor,
                   movedLate>>

InUse == {s \in Active : seats[s] # <<>>}

\* The sessions that a visitor of the environment is given one of.
Open == Active

ColorByConnections(s) == Cardinality({v \in Visit : Connected(v) /\ visit[v].session = s}) % Palette

\* The colour goes by the number of participants, which is read without the mutex.
NextColor(s) == Len(seats[s]) % Palette

GetOrCreateSession(v, s) ==
    /\ visit[v].at = "absent"
    /\ IF Open # {} THEN s \in Open ELSE Unused(s)
    /\ sessionOf' = [sessionOf EXCEPT ![s] = "active"]
    /\ visit' = [visit EXCEPT ![v] = [at |-> "found", session |-> s, color |-> NextColor(s)]]
    /\ UNCHANGED <<seats, colored, cursors, history, place, records, askedFor, staleColor,
                   movedLate>>

AdmitToAny(s) == Len(seats[s]) < MaxParticipants
Admissible(s) == sessionOf[s] = "active" /\ Len(seats[s]) < MaxParticipants

JoinSession(v) ==
    LET s == visit[v].session
    IN /\ visit[v].at = "found" /\ Admissible(s)
       /\ seats' = [seats EXCEPT ![s] = Append(@, [who |-> v, color |-> visit[v].color])]
       /\ colored' = [colored EXCEPT ![s] = @ \cup {v}]
       /\ visit' = [visit EXCEPT ![v].at = "connected"]
       /\ staleColor' = IF visit[v].color = NextColor(s) THEN staleColor
                        ELSE staleColor \cup {v}
       /\ RecordOperation(s)
       /\ UNCHANGED <<sessionOf, cursors, askedFor, movedLate>>

\* The session has ended or is full: the connection is closed.
JoinRefused(v) ==
    /\ visit[v].at = "found" /\ ~Admissible(visit[v].session)
    /\ visit' = [visit EXCEPT ![v].at = "gone"]
    /\ UNCHANGED <<sessionOf, seats, colored, cursors, history, place, records, askedFor,
                   staleColor, movedLate>>

\* The clients of the session stay connected to it.
EndMeetingPlace(s) ==
    /\ sessionOf[s] # "none"
    /\ sessionOf' = [sessionOf EXCEPT ![s] = "ended"]
    /\ cursors' = [cursors EXCEPT ![s] = {}] /\ colored' = [colored EXCEPT ![s] = {}]
    /\ movedLate' = {v \in movedLate : visit[v].session # s}
    /\ UNCHANGED <<seats, visit, history, place, records, askedFor, staleColor>>

Disconnect(v) ==
    /\ Connected(v)
    /\ visit' = [visit EXCEPT ![v].at = "gone"]
    /\ UNCHANGED <<sessionOf, seats, colored, cursors, history, place, records, askedFor,
                   staleColor, movedLate>>

-----------------------------------------------------------------------------
(* What a connected client does. *)

HandleCursorUpdate(v) ==
    /\ Connected(v)
    /\ LET s == visit[v].session
       IN /\ cursors' = [cursors EXCEPT ![s] = @ \cup {v}]
          /\ movedLate' = IF sessionOf[s] = "ended" THEN movedLate \cup {v} ELSE movedLate
    /\ UNCHANGED <<sessionOf, seats, visit, colored, history, place, records, askedFor,
                   staleColor>>

RecordEdit(v) ==
    /\ Connected(v)
    /\ RecordOperation(visit[v].session)
    /\ UNCHANGED <<sessionOf, seats, visit, colored, cursors, askedFor, staleColor, movedLate>>

CollaborationNext ==
    \/ \E cutoff \in 1..MaxRecords : CleanupOldHistory(cutoff)
    \/ \E s \in Meeting : CreateSession(s)
    \/ \E v \in Visit, s \in Meeting : GetOrCreateSession(v, s)
    \/ \E v \in Visit : JoinSession(v)
    \/ \E v \in Visit : JoinRefused(v)
    \/ \E s \in Meeting : EndMeetingPlace(s)
    \/ \E v \in Visit : Disconnect(v)
    \/ \E v \in Visit : HandleCursorUpdate(v)
    \/ \E v \in Visit : RecordEdit(v)

-----------------------------------------------------------------------------
(* Properties. *)

\* The visitors of an environment meet in one session: there is no second one that is
\* active unless somebody asked for it.
TheyMeet == Cardinality(Active \ askedFor) <= 1

\* Participants of a session can be told apart by their colours as long as there are
\* enough, unless another joined after a colour was drawn.
ColorsDiffer ==
    \A s \in Meeting : \A i, j \in DOMAIN seats[s] :
        (i < j /\ j <= Palette /\ seats[s][i].color = seats[s][j].color)
            => {seats[s][i].who, seats[s][j].who} \cap staleColor # {}

\* Nobody joins a session that has ended, whatever was found before, and nothing is
\* kept of it but the cursors that its clients move after the end.
EndedIsForgotten ==
    \A s \in Meeting : sessionOf[s] = "ended" => colored[s] = {} /\ cursors[s] \subseteq movedLate

\* The index leads to every operation of the history and to no other, however it was
\* trimmed or cleaned up, and the history is in the order of time.
HistoryIsIndexed ==
    \A s \in Meeting :
        /\ place[s] = PositionsOf(history[s])
        /\ \A i, j \in DOMAIN history[s] : i < j => history[s][i] < history[s][j]
=============================================================================
