----------------------------- MODULE MeetingRoom -----------------------------
(***************************************************************************)
(* One meeting of the realtime service: SignalingService's room, the       *)
(* handler goroutine of each WebSocket connection (a reader that handles   *)
(* the client's messages and finally closes the connection), the writer    *)
(* goroutine it starts, and the host who may end the meeting over HTTP.    *)
(*                                                                         *)
(* Everything done under the room's mutex is one action.  LeaveMeeting     *)
(* holds the service's mutex and the room's mutex one after the other and  *)
(* is two actions.                                                         *)
(*                                                                         *)
(* A connection has two outgoing channels.  The room's broadcasts go to the *)
(* one that JoinMeeting makes; a send to it never waits and nobody ever    *)
(* receives from it, so it is left out.  The WebSocket handler makes       *)
(* another, on which the reader puts error replies and which the writer    *)
(* drains: the number of messages on it is kept.                           *)
(***************************************************************************)
EXTENDS Integers, FiniteSets

CONSTANTS
    Conns,              \* the WebSocket connections that may ever be made
    MaxParticipants,    \* MeetingSettings.MaxParticipants
    SendCapacity,       \* the capacity of a Send channel (256)
    MaxBuffered         \* messages still readable after the peer has gone

ASSUME MeetingAssumption ==
    /\ MaxParticipants \in Nat \ {0}
    /\ SendCapacity \in Nat \ {0}
    /\ MaxBuffered \in Nat

VARIABLES
    status,         \* Meeting.Status
    room,           \* the keys of MeetingRoom.Participants
    connections,    \* the keys of SignalingService.connections
    left,           \* the entries of Meeting.Participants with a LeftAt
    sharing,        \* the entries of Meeting.Participants with ScreenSharing
    replies,        \* messages on the channel the handler made
    handler,        \* where the connection's handler goroutine is
    meetingWriter,  \* the connection's RunConnectionWriter goroutine
    peer,           \* whether the client is still there
    buffered        \* messages that a client that is gone has left unread

roomVars == <<status, room, connections, left, sharing>>
connVars == <<replies, handler, meetingWriter, peer, buffered>>
meetingVars == <<roomVars, connVars>>

MeetingTypeOK ==
    /\ status \in {"Scheduled", "Active", "Ended"}
    /\ room \subseteq Conns
    /\ connections \subseteq Conns
    /\ left \subseteq Conns
    /\ sharing \subseteq Conns
    /\ replies \in [Conns -> 0..SendCapacity]
    /\ handler \in [Conns -> {"new", "refused", "joined", "reading",
                              "replying", "closing", "leaving", "done"}]
    /\ meetingWriter \in [Conns -> {"none", "running", "gone"}]
    /\ peer \in [Conns -> {"up", "down"}]
    /\ buffered \in [Conns -> 0..MaxBuffered]

MeetingInit ==
    /\ status = "Scheduled"
    /\ room = {}
    /\ connections = {}
    /\ left = {}
    /\ sharing = {}
    /\ replies = [c \in Conns |-> 0]
    /\ handler = [c \in Conns |-> "new"]
    /\ meetingWriter = [c \in Conns |-> "none"]
    /\ peer = [c \in Conns |-> "up"]
    /\ buffered = [c \in Conns |-> 0]

-----------------------------------------------------------------------------

Goto(c, place) == handler' = [handler EXCEPT ![c] = place]

IsFull == Cardinality(room) >= MaxParticipants

-----------------------------------------------------------------------------
(* Joining.                                                                *)

JoinUnstored(c) ==
    /\ handler[c] = "new"
    /\ ~IsFull
    /\ status # "Ended"
    /\ Goto(c, "joined")
    /\ status' = "Active"
    /\ room' = room \cup {c}
    /\ UNCHANGED <<connections, left, sharing, replies, meetingWriter, peer, buffered>>

JoinMeeting(c) ==
    /\ handler[c] = "new"
    /\ ~IsFull
    /\ status # "Ended"
    /\ Goto(c, "joined")
    /\ status' = "Active"
    /\ room' = room \cup {c}
    /\ connections' = connections \cup {c}
    /\ UNCHANGED <<left, sharing, replies, meetingWriter, peer, buffered>>

RefuseJoin(c) ==
    /\ handler[c] = "new"
    /\ IsFull \/ status = "Ended"
    /\ Goto(c, "refused")
    /\ UNCHANGED <<roomVars, replies, meetingWriter, peer, buffered>>

StartWriter(c) ==
    /\ handler[c] = "joined"
    /\ Goto(c, "reading")
    /\ meetingWriter' = [meetingWriter EXCEPT ![c] = "running"]
    /\ UNCHANGED <<roomVars, replies, peer, buffered>>

-----------------------------------------------------------------------------
(* The reader: one message of the client at a time.                        *)

\* ReadMessage returns what the client sends, and what a client that is gone
\* has left in the socket.
Read(c) ==
    /\ handler[c] = "reading"
    /\ \/ peer[c] = "up" /\ UNCHANGED buffered
       \/ /\ buffered[c] > 0
          /\ buffered' = [buffered EXCEPT ![c] = @ - 1]

\* handleRTCSignal, handleMediaStateChange and a well formed
\* handleQualityChange: they broadcast; the audio flag and the video quality
\* are not kept.
Relay(c) ==
    /\ Read(c)
    /\ c \in connections
    /\ UNCHANGED <<roomVars, replies, handler, meetingWriter, peer>>

SomeoneElseShares(c) == sharing \ {c} # {}

StartShareUnchecked(c) ==
    /\ Read(c)
    /\ c \in connections
    /\ sharing' = sharing \cup {c}
    /\ UNCHANGED <<status, room, connections, left,
                   replies, handler, meetingWriter, peer>>

StartShare(c) ==
    /\ Read(c)
    /\ c \in connections
    /\ ~SomeoneElseShares(c)
    /\ sharing' = sharing \cup {c}
    /\ UNCHANGED <<status, room, connections, left,
                   replies, handler, meetingWriter, peer>>

StopShare(c) ==
    /\ Read(c)
    /\ c \in connections
    /\ sharing' = sharing \ {c}
    /\ UNCHANGED <<status, room, connections, left,
                   replies, handler, meetingWriter, peer>>

\* The reader has an error to send back.
RefuseShare(c) ==
    /\ Read(c)
    /\ c \in connections
    /\ SomeoneElseShares(c)
    /\ Goto(c, "replying")
    /\ UNCHANGED <<roomVars, replies, meetingWriter, peer>>

\* A message of an unknown type or with a bad payload, or one whose connection
\* is not found.  (What is not even JSON is skipped and changes nothing.)
FailMessage(c) ==
    /\ Read(c)
    /\ Goto(c, "replying")
    /\ UNCHANGED <<roomVars, replies, meetingWriter, peer>>

ReplyRegardless(c) ==
    /\ handler[c] = "replying"
    /\ replies' = [replies EXCEPT ![c] = @ + 1]
    /\ Goto(c, "reading")
    /\ UNCHANGED <<roomVars, meetingWriter, peer, buffered>>

\* conn.Send <- errData waits for room on the channel.
SendReply(c) ==
    /\ handler[c] = "replying"
    /\ replies[c] < SendCapacity
    /\ replies' = [replies EXCEPT ![c] = @ + 1]
    /\ Goto(c, "reading")
    /\ UNCHANGED <<roomVars, meetingWriter, peer, buffered>>

ReadFailsFlushed(c) ==
    /\ handler[c] = "reading"
    /\ peer[c] = "down" /\ buffered[c] = 0 /\ replies[c] = 0
    /\ Goto(c, "closing")
    /\ UNCHANGED <<roomVars, replies, meetingWriter, peer, buffered>>

\* ReadMessage fails and the deferred CloseConnection closes the socket and
\* the handler's own channel.
ReadFails(c) ==
    /\ handler[c] = "reading"
    /\ peer[c] = "down" /\ buffered[c] = 0
    /\ Goto(c, "closing")
    /\ UNCHANGED <<roomVars, replies, meetingWriter, peer, buffered>>

-----------------------------------------------------------------------------
(* Leaving.                                                                *)

\* LeaveMeeting's section under the service's mutex.
LeaveService(c) ==
    /\ handler[c] = "closing"
    /\ c \in connections
    /\ connections' = connections \ {c}
    /\ Goto(c, "leaving")
    /\ UNCHANGED <<status, room, left, sharing,
                   replies, meetingWriter, peer, buffered>>

LeaveRoomOnly(c) ==
    /\ handler[c] = "leaving"
    /\ room' = room \ {c}
    /\ left' = left \cup {c}
    /\ Goto(c, "done")
    /\ UNCHANGED <<status, connections, sharing, replies, meetingWriter, peer, buffered>>

\* LeaveMeeting's section under the room's mutex.  The entry's ScreenSharing
\* stays as it was.
LeaveRoom(c) ==
    /\ handler[c] = "leaving"
    /\ room' = room \ {c}
    /\ left' = left \cup {c}
    /\ status' = IF room' = {} THEN "Ended" ELSE status
    /\ Goto(c, "done")
    /\ UNCHANGED <<connections, sharing, replies, meetingWriter, peer, buffered>>

\* The host ends the meeting; the connections stay.
EndMeeting ==
    /\ status' = "Ended"
    /\ UNCHANGED <<room, connections, left, sharing, connVars>>

-----------------------------------------------------------------------------
(* The writer, and the client.                                             *)

ConnIsClosed(c) == handler[c] \in {"closing", "leaving", "done"}

\* A turn of RunConnectionWriter for a message or for a ping: it returns when
\* the connection is closed or the write fails.
WriterTurn(c) ==
    /\ meetingWriter[c] = "running"
    /\ \/ /\ replies[c] > 0
          /\ replies' = [replies EXCEPT ![c] = @ - 1]
          /\ \/ peer[c] = "up" /\ ~ConnIsClosed(c) /\ UNCHANGED meetingWriter
             \/ /\ peer[c] = "down" \/ ConnIsClosed(c)
                /\ meetingWriter' = [meetingWriter EXCEPT ![c] = "gone"]
       \/ /\ peer[c] = "down" \/ ConnIsClosed(c)
          /\ meetingWriter' = [meetingWriter EXCEPT ![c] = "gone"]
          /\ UNCHANGED replies
    /\ UNCHANGED <<roomVars, handler, peer, buffered>>

PeerGoes(c) ==
    /\ peer[c] = "up"
    /\ handler[c] \in {"joined", "reading", "replying"}
    /\ peer' = [peer EXCEPT ![c] = "down"]
    /\ \E n \in 0..MaxBuffered : buffered' = [buffered EXCEPT ![c] = n]
    /\ UNCHANGED <<roomVars, replies, handler, meetingWriter>>

MeetingNext ==
    \/ EndMeeting
    \/ \E c \in Conns :
        \/ JoinMeeting(c)
        \/ RefuseJoin(c)
        \/ StartWriter(c)
        \/ Relay(c)
        \/ StartShare(c)
        \/ StopShare(c)
        \/ RefuseShare(c)
        \/ FailMessage(c)
        \/ SendReply(c)
        \/ ReadFails(c)
        \/ LeaveService(c)
        \/ LeaveRoom(c)
        \/ WriterTurn(c)
        \/ PeerGoes(c)

MeetingSpec == MeetingInit /\ [][MeetingNext]_meetingVars

-----------------------------------------------------------------------------
(* Properties.                                                             *)

\* The service's connections are those of the room, but for one that is
\* between the two sections of LeaveMeeting; and they are those whose own
\* handler has joined and not begun to leave.
MembersAreConnected ==
    /\ connections \subseteq room
    /\ \A c \in room \ connections : handler[c] = "leaving"
    /\ connections = {c \in Conns :
            handler[c] \in {"joined", "reading", "replying", "closing"}}

\* handleScreenShare admits one sharer at a time, among those present and
\* those who left while sharing.
AtMostOneSharer == \A c, d \in sharing : c = d

\* A meeting that is active has somebody in it: LeaveMeeting ends it with its
\* last participant, however joins and leaves interleave.
OccupiedWhileActive == status = "Active" <=> room # {} /\ status # "Ended"

\* JoinMeeting and EndMeeting: a meeting that has ended stays so, and from then
\* on its room only empties.
EndedIsFinal ==
    [][status = "Ended" => status' = "Ended" /\ room' \subseteq room]_meetingVars

\* What the handler goroutine does by itself: what is left in the socket is
\* read, a read on a dead socket fails, an error goes on the channel when there
\* is room.
HandlerGoesOn(c) ==
    \/ StartWriter(c)
    \/ /\ peer[c] = "down"
       /\ Relay(c) \/ StartShare(c) \/ StopShare(c)
          \/ RefuseShare(c) \/ FailMessage(c)
    \/ SendReply(c)
    \/ ReadFails(c)
    \/ LeaveService(c)
    \/ LeaveRoom(c)

\* Both goroutines of a connection run.  Clients and the host promise nothing.
MeetingFairness ==
    \A c \in Conns : WF_meetingVars(HandlerGoesOn(c)) /\ WF_meetingVars(WriterTurn(c))

MeetingFairSpec == MeetingSpec /\ MeetingFairness

\* A client that is gone leaves the room, unless its reader waits to put an
\* error on a channel nobody drains any more: the writer returned at its first
\* failed write, and the reader still had messages to answer.
GoneClientsLeave ==
    \A c \in Conns :
        peer[c] = "down" ~> \/ c \notin room
                            \/ /\ handler[c] = "replying" /\ meetingWriter[c] = "gone"
                               /\ replies[c] = SendCapacity

\* handleScreenShare refuses a participant because another participant of the
\* meeting is sharing.
RefusedOnlyWhileShared ==
    \A c \in connections : SomeoneElseShares(c) => sharing \cap (room \ {c}) # {}
=============================================================================
