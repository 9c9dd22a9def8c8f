--------------------------- MODULE RealtimeProofs ----------------------------
(***************************************************************************)
(* What holds of the realtime service's hub and of its meetings, for any   *)
(* number of clients and connections and any capacities.  The two share    *)
(* nothing; each has its own specification.                                *)
(***************************************************************************)
EXTENDS CollaborationHub, MeetingRoom, TLAPS

-----------------------------------------------------------------------------
(* The hub.  The invariant adds what keeps a client from being registered    *)
(* once its channel is closed: a client comes to the hub to be registered    *)
(* before its channel can be closed, and never again.                        *)

ClosedWereRegistered ==
    \A c \in registered \union closed : reader[c] \notin {"absent", "registering"}

HubInv == HubTypeOK /\ RegisteredIsOpen /\ ClosedWereRegistered

LEMMA HubInitInv == HubInit => HubInv
<1> SUFFICES ASSUME HubInit PROVE HubInv
  OBVIOUS
<1>1. broadcast \in Seq(Clients \union {None}) /\ Len(broadcast) <= BroadcastCap
  BY HubAssumption DEF HubInit
<1>2. send \in [Clients -> 0 .. SendCap]
  BY HubAssumption DEF HubInit
<1>3. HubTypeOK
  BY <1>1, <1>2 DEF HubInit, HubTypeOK
<1> QED
  BY <1>3 DEF HubInit, HubInv, RegisteredIsOpen, ClosedWereRegistered

LEMMA QueueTyped ==
    ASSUME HubTypeOK, NEW m \in Clients \union {None}, Queue(m)
    PROVE  broadcast' \in Seq(Clients \union {None}) /\ Len(broadcast') <= BroadcastCap
  BY HubAssumption DEF HubTypeOK, Queue

LEMMA HubStepInv ==
    ASSUME HubInv, HubStep
    PROVE  HubInv'
<1> USE DEF HubInv, RegisteredIsOpen, ClosedWereRegistered
<1>1. CASE Notify
  <2>1. broadcast' \in Seq(Clients \union {None}) /\ Len(broadcast') <= BroadcastCap
    BY <1>1, QueueTyped DEF Notify, HubTypeOK
  <2> QED
    BY <1>1, <2>1 DEF Notify, clientVars, HubTypeOK
<1>2. CASE BroadcastMessage
  <2>1. broadcast' \in Seq(Clients \union {None}) /\ Len(broadcast') <= BroadcastCap
    BY <1>2, HubAssumption DEF BroadcastMessage, HubTypeOK
  <2>2. send' \in [Clients -> 0 .. SendCap]
    BY <1>2, HubAssumption DEF BroadcastMessage, HubTypeOK
  <2> QED
    BY <1>2, <2>1, <2>2 DEF BroadcastMessage, HubTypeOK
<1>3. CASE CleanupInactiveClients
  BY <1>3 DEF CleanupInactiveClients, HubTypeOK
<1>4. ASSUME NEW c \in Clients, RegisterClient(c)
      PROVE  HubInv'
  <2>1. c \notin closed
    BY <1>4 DEF RegisterClient
  <2> QED
    BY <1>4, <2>1 DEF RegisterClient, ReaderTo, HubTypeOK
<1>5. ASSUME NEW c \in Clients, UnregisterClient(c)
      PROVE  HubInv'
  BY <1>5 DEF UnregisterClient, ReaderTo, HubTypeOK
<1> QED
  BY <1>1, <1>2, <1>3, <1>4, <1>5 DEF HubStep

LEMMA ClientStepInv ==
    ASSUME HubInv, NEW c \in Clients,
           ReaderStep(c) \/ WriterStep(c) \/ JoinSession(c) \/ Disconnect(c) \/ PongMissed(c)
    PROVE  HubInv'
<1> USE DEF HubInv, RegisteredIsOpen, ClosedWereRegistered
<1>1. CASE ReadMessage(c)
  BY <1>1 DEF ReadMessage, ReaderTo, loopVars, HubTypeOK
<1>2. CASE TakeClock(c)
  BY <1>2 DEF TakeClock, ReaderTo, loopVars, HubTypeOK
<1>3. CASE Broadcast(c)
  <2>1. broadcast' \in Seq(Clients \union {None}) /\ Len(broadcast') <= BroadcastCap
    BY <1>3, QueueTyped DEF Broadcast
  <2> QED
    BY <1>3, <2>1 DEF Broadcast, ReaderTo, HubTypeOK
<1>4. CASE Reply(c)
  <2>1. send' \in [Clients -> 0 .. SendCap]
    BY <1>4, HubAssumption DEF Reply, HubTypeOK
  <2> QED
    BY <1>4, <2>1 DEF Reply, ReaderTo, loopVars, HubTypeOK
<1>5. CASE ReadError(c)
  BY <1>5 DEF ReadError, ReaderTo, loopVars, HubTypeOK
<1>6. CASE WriteMessages(c)
  <2>1. send' \in [Clients -> 0 .. SendCap]
    BY <1>6, HubAssumption DEF WriteMessages, HubTypeOK
  <2> QED
    BY <1>6, <2>1 DEF WriteMessages, loopVars, HubTypeOK
<1>7. CASE WriterStops(c)
  BY <1>7 DEF WriterStops, loopVars, HubTypeOK
<1>8. CASE JoinSession(c)
  BY <1>8 DEF JoinSession, ReaderTo, loopVars, HubTypeOK
<1>9. CASE Disconnect(c) \/ PongMissed(c)
  BY <1>9 DEF Disconnect, PongMissed, loopVars, HubTypeOK
<1> QED
  BY <1>1, <1>2, <1>3, <1>4, <1>5, <1>6, <1>7, <1>8, <1>9 DEF ReaderStep, WriterStep

LEMMA HubInvariance == HubSpec => []HubInv
<1>1. HubInv /\ [HubNext]_hubVars => HubInv'
  <2> SUFFICES ASSUME HubInv, [HubNext]_hubVars PROVE HubInv'
    OBVIOUS
  <2>1. CASE UNCHANGED hubVars
    BY <2>1 DEF hubVars, HubInv, HubTypeOK, RegisteredIsOpen, ClosedWereRegistered
  <2> QED
    BY <2>1, HubStepInv, ClientStepInv DEF HubNext
<1> QED
  BY <1>1, HubInitInv, PTL DEF HubSpec

\* The hub's channels keep to their capacities and its maps to its clients.
THEOREM HubTyping == HubSpec => []HubTypeOK
<1>1. HubInv => HubTypeOK
  BY DEF HubInv
<1> QED
  BY <1>1, HubInvariance, PTL

\* Whatever order registration, departure and the cleanup come in, no client is
\* in its session with its channel closed: broadcastMessage never sends on a
\* closed channel, and neither unregisterClient nor the cleanup closes one
\* twice.
THEOREM RegisteredStaysOpen == HubSpec => []RegisteredIsOpen
<1>1. HubInv => RegisteredIsOpen
  BY DEF HubInv
<1> QED
  BY <1>1, HubInvariance, PTL

-----------------------------------------------------------------------------
(* Meetings.  The invariants are inductive together: that the last one out   *)
(* ends the meeting needs that a handler which leaves has already left the   *)
(* service's connections, and nothing else does.                             *)

MeetingInv == MeetingTypeOK /\ MembersAreConnected /\ AtMostOneSharer /\ OccupiedWhileActive

LEMMA MeetingInitInv == MeetingInit => MeetingInv
<1> SUFFICES ASSUME MeetingInit PROVE MeetingInv
  OBVIOUS
<1>1. MeetingTypeOK
  BY MeetingAssumption DEF MeetingInit, MeetingTypeOK
<1> QED
  BY <1>1 DEF MeetingInit, MeetingInv, MembersAreConnected, AtMostOneSharer, OccupiedWhileActive

\* A message that the reader handles changes who shares and where the reader
\* is, and nothing else that the invariant speaks of.
LEMMA ReadTyped ==
    ASSUME MeetingTypeOK, NEW c \in Conns, Read(c)
    PROVE  /\ handler[c] = "reading"
           /\ buffered' \in [Conns -> 0..MaxBuffered]
<1>1. CASE peer[c] = "up" /\ UNCHANGED buffered
  BY <1>1 DEF Read, MeetingTypeOK
<1>2. CASE /\ buffered[c] > 0
           /\ buffered' = [buffered EXCEPT ![c] = @ - 1]
  <2>1. buffered[c] - 1 \in 0..MaxBuffered
    BY <1>2, MeetingAssumption DEF MeetingTypeOK
  <2> QED
    BY <1>2, <2>1 DEF Read, MeetingTypeOK
<1> QED
  BY <1>1, <1>2 DEF Read

LEMMA MessageStepInv ==
    ASSUME MeetingInv, NEW c \in Conns,
           \/ Relay(c) \/ StartShare(c) \/ StopShare(c)
           \/ RefuseShare(c) \/ FailMessage(c)
    PROVE  MeetingInv'
<1> USE DEF MeetingInv, MeetingTypeOK, MembersAreConnected, AtMostOneSharer,
            OccupiedWhileActive, roomVars, Goto
<1>1. handler[c] = "reading" /\ buffered' \in [Conns -> 0..MaxBuffered]
  BY ReadTyped DEF Relay, StartShare, StopShare, RefuseShare, FailMessage
<1>2. CASE Relay(c)
  BY <1>1, <1>2 DEF Relay
<1>3. CASE StartShare(c)
  BY <1>1, <1>3 DEF StartShare, SomeoneElseShares
<1>4. CASE StopShare(c)
  BY <1>1, <1>4 DEF StopShare
<1>5. CASE RefuseShare(c)
  BY <1>1, <1>5 DEF RefuseShare
<1>6. CASE FailMessage(c)
  BY <1>1, <1>6 DEF FailMessage
<1> QED
  BY <1>2, <1>3, <1>4, <1>5, <1>6

LEMMA MemberStepInv ==
    ASSUME MeetingInv, NEW c \in Conns,
           \/ JoinMeeting(c) \/ RefuseJoin(c) \/ StartWriter(c)
           \/ ReadFails(c) \/ LeaveService(c) \/ LeaveRoom(c)
    PROVE  MeetingInv'
<1> USE DEF MeetingInv, MeetingTypeOK, MembersAreConnected, AtMostOneSharer,
            OccupiedWhileActive, roomVars, Goto
<1>1. CASE JoinMeeting(c)
  BY <1>1 DEF JoinMeeting
<1>2. CASE RefuseJoin(c)
  BY <1>2 DEF RefuseJoin
<1>3. CASE StartWriter(c)
  BY <1>3 DEF StartWriter
<1>4. CASE ReadFails(c)
  BY <1>4 DEF ReadFails
<1>5. CASE LeaveService(c)
  BY <1>5 DEF LeaveService
<1>6. CASE LeaveRoom(c)
  BY <1>6 DEF LeaveRoom
<1> QED
  BY <1>1, <1>2, <1>3, <1>4, <1>5, <1>6

LEMMA OutsideStepInv ==
    ASSUME MeetingInv, NEW c \in Conns,
           SendReply(c) \/ WriterTurn(c) \/ PeerGoes(c) \/ EndMeeting
    PROVE  MeetingInv'
<1> USE DEF MeetingInv, MeetingTypeOK, MembersAreConnected, AtMostOneSharer,
            OccupiedWhileActive, roomVars, connVars, Goto
<1>1. CASE SendReply(c)
  <2>1. replies[c] + 1 \in 0..SendCapacity
    BY <1>1, MeetingAssumption DEF SendReply
  <2> QED
    BY <1>1, <2>1 DEF SendReply
<1>2. CASE WriterTurn(c)
  <2>1. replies' \in [Conns -> 0..SendCapacity]
    BY <1>2, MeetingAssumption DEF WriterTurn
  <2>2. meetingWriter' \in [Conns -> {"none", "running", "gone"}]
    BY <1>2 DEF WriterTurn
  <2> QED
    BY <1>2, <2>1, <2>2 DEF WriterTurn
<1>3. CASE PeerGoes(c)
  BY <1>3 DEF PeerGoes
<1>4. CASE EndMeeting
  BY <1>4 DEF EndMeeting
<1> QED
  BY <1>1, <1>2, <1>3, <1>4

LEMMA MeetingNextInv == MeetingInv /\ [MeetingNext]_meetingVars => MeetingInv'
<1> SUFFICES ASSUME MeetingInv, [MeetingNext]_meetingVars PROVE MeetingInv'
  OBVIOUS
<1>1. CASE EndMeeting
  BY <1>1 DEF EndMeeting, MeetingInv, MeetingTypeOK, MembersAreConnected, AtMostOneSharer,
              OccupiedWhileActive, connVars
<1>2. CASE \E c \in Conns : ~EndMeeting /\ MeetingNext
  BY <1>2, MessageStepInv, MemberStepInv, OutsideStepInv DEF MeetingNext
<1>3. CASE UNCHANGED meetingVars
  BY <1>3 DEF meetingVars, roomVars, connVars, MeetingInv, MeetingTypeOK, MembersAreConnected,
              AtMostOneSharer, OccupiedWhileActive
<1> QED
  BY <1>1, <1>2, <1>3 DEF MeetingNext

\* The variables of a meeting keep their types in every behaviour of
\* SignalingService, its handlers and its writers.
THEOREM MeetingTyping == MeetingSpec => []MeetingTypeOK
<1>1. MeetingInv => MeetingTypeOK
  BY DEF MeetingInv
<1> QED
  BY <1>1, MeetingInitInv, MeetingNextInv, PTL DEF MeetingSpec

\* JoinMeeting and LeaveMeeting keep the service's connections and the room's
\* participants in step, but for who is between the two sections of a leave.
THEOREM Membership == MeetingSpec => []MembersAreConnected
<1>1. MeetingInv => MembersAreConnected
  BY DEF MeetingInv
<1> QED
  BY <1>1, MeetingInitInv, MeetingNextInv, PTL DEF MeetingSpec

\* handleScreenShare lets at most one participant share.
THEOREM OneSharer == MeetingSpec => []AtMostOneSharer
<1>1. MeetingInv => AtMostOneSharer
  BY DEF MeetingInv
<1> QED
  BY <1>1, MeetingInitInv, MeetingNextInv, PTL DEF MeetingSpec

\* A meeting is active exactly while somebody is in it and nobody ended it.
THEOREM Occupied == MeetingSpec => []OccupiedWhileActive
<1>1. MeetingInv => OccupiedWhileActive
  BY DEF MeetingInv
<1> QED
  BY <1>1, MeetingInitInv, MeetingNextInv, PTL DEF MeetingSpec

\* A meeting that LeaveMeeting or EndMeeting has ended takes nobody in again.
THEOREM EndIsFinal == MeetingSpec => EndedIsFinal
<1>1. ASSUME MeetingInv, [MeetingNext]_meetingVars
      PROVE  [status = "Ended" => status' = "Ended" /\ room' \subseteq room]_meetingVars
  <2> SUFFICES ASSUME MeetingNext, status = "Ended"
               PROVE  status' = "Ended" /\ room' \subseteq room
    BY <1>1
  <2> QED
    BY DEF MeetingNext, EndMeeting, JoinMeeting, RefuseJoin, StartWriter, Relay, StartShare,
           StopShare, RefuseShare, FailMessage, SendReply, ReadFails, LeaveService,
           LeaveRoom, WriterTurn, PeerGoes, roomVars
<1> QED
  BY <1>1, MeetingInitInv, MeetingNextInv, PTL DEF MeetingSpec, EndedIsFinal
==============================================================================
