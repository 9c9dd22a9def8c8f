-------------------------- MODULE CollaborationHub --------------------------
(***************************************************************************)
(* The goroutines and channels behind a collaboration session: the hub's   *)
(* single loop, the request handlers that join clients under the service's *)
(* mutex, and each client's ReadPump and WritePump.                        *)
(*                                                                         *)
(* A message is the client it is not delivered to (ExcludeID), or None.    *)
(* `send' counts the messages in a client's Send channel.  A panic ends    *)
(* the process, so after one nothing moves.                                *)
(***************************************************************************)
EXTENDS Integers, Sequences, FiniteSets

CONSTANTS
    Clients,       \* connections to one session
    BroadcastCap,  \* capacity of Hub.broadcast
    SendCap,       \* sendBufferSize
    None

ASSUME HubAssumption ==
    /\ BroadcastCap \in Nat \ {0}
    /\ SendCap \in Nat \ {0}
    /\ None \notin Clients

VARIABLES
    broadcast,   \* Hub.broadcast
    registered,  \* Hub.sessions of the session
    hub,         \* what the hub's loop is doing
    notice,      \* the message it is about to queue while it holds Hub.mu
    mutex,       \* holder of CollaborationService.mu
    reader,      \* where each client's handler and then ReadPump is
    writer,      \* where its WritePump is
    conn,        \* clients whose connection is open
    send,        \* client.Send
    closed,      \* clients whose Send channel is closed
    late,        \* clients whose last pong is older than pongWait
    panicked

loopVars == <<broadcast, registered, hub, notice>>
clientVars == <<reader, writer, conn, send, closed, late>>
hubVars == <<broadcast, registered, hub, notice, mutex, reader, writer, conn,
          send, closed, late, panicked>>

HubTypeOK ==
    /\ broadcast \in Seq(Clients \union {None}) /\ Len(broadcast) <= BroadcastCap
    /\ registered \subseteq Clients
    /\ hub \in {"select", "notify"}
    /\ notice \in Clients \union {None}
    /\ mutex \in Clients \union {None}
    /\ reader \in [Clients -> {"absent", "registering", "reading", "editing",
                               "publishing", "moving", "replying", "leaving", "gone"}]
    /\ writer \in [Clients -> {"absent", "writing", "done"}]
    /\ conn \subseteq Clients
    /\ send \in [Clients -> 0 .. SendCap]
    /\ closed \subseteq Clients
    /\ late \subseteq Clients
    /\ panicked \in BOOLEAN

HubInit ==
    /\ broadcast = << >>
    /\ registered = {}
    /\ hub = "select"
    /\ notice = None
    /\ mutex = None
    /\ reader = [c \in Clients |-> "absent"]
    /\ writer = [c \in Clients |-> "absent"]
    /\ conn = {}
    /\ send = [c \in Clients |-> 0]
    /\ closed = {}
    /\ late = {}
    /\ panicked = FALSE

ReaderTo(c, pc) == reader' = [reader EXCEPT ![c] = pc]

\* Mutant: the channel takes one message too many.
QueueUnbounded(m) ==
    /\ Len(broadcast) <= BroadcastCap
    /\ broadcast' = Append(broadcast, m)

Queue(m) ==
    /\ Len(broadcast) < BroadcastCap
    /\ broadcast' = Append(broadcast, m)

-----------------------------------------------------------------------------
(* The hub's loop: in "select" it takes any of the channels that is ready. *)

\* Mutant: the mutex is not given back.
RegisterClientLocked(c) ==
    /\ ~panicked
    /\ hub = "select"
    /\ reader[c] = "registering"
    /\ registered' = registered \union {c}
    /\ hub' = "notify" /\ notice' = c
    /\ ReaderTo(c, "reading")
    /\ writer' = [writer EXCEPT ![c] = "writing"]
    /\ UNCHANGED <<broadcast, mutex, conn, send, closed, late, panicked>>

\* registerClient, and with it the end of JoinSession, which was waiting in
\* `register <- client' with the mutex: the handler starts the pumps.
RegisterClient(c) ==
    /\ ~panicked
    /\ hub = "select"
    /\ reader[c] = "registering"
    /\ registered' = registered \union {c}
    /\ hub' = "notify" /\ notice' = c
    /\ mutex' = None
    /\ ReaderTo(c, "reading")
    /\ writer' = [writer EXCEPT ![c] = "writing"]
    /\ UNCHANGED <<broadcast, conn, send, closed, late, panicked>>

\* notifyUserJoined and notifyUserLeft: the loop sends to its own channel.
Notify ==
    /\ ~panicked
    /\ hub = "notify"
    /\ Queue(notice)
    /\ hub' = "select" /\ notice' = None
    /\ UNCHANGED <<registered, mutex, clientVars, panicked>>

\* unregisterClient, for a client the cleanup may have removed already.
UnregisterClient(c) ==
    /\ ~panicked
    /\ hub = "select"
    /\ reader[c] = "leaving"
    /\ ReaderTo(c, "gone")
    /\ conn' = conn \ {c}
    /\ IF c \in registered
       THEN /\ registered' = registered \ {c}
            /\ panicked' = (c \in closed)
            /\ closed' = closed \union {c}
            /\ hub' = "notify" /\ notice' = None
       ELSE UNCHANGED <<registered, panicked, closed, hub, notice>>
    /\ UNCHANGED <<broadcast, mutex, writer, send, late>>

\* A client with a full buffer misses the message.  Sending on a closed channel
\* panics.
BroadcastMessage ==
    /\ ~panicked
    /\ hub = "select"
    /\ broadcast # << >>
    /\ broadcast' = Tail(broadcast)
    /\ LET to == registered \ {Head(broadcast)} IN
          /\ panicked' = (to \intersect closed # {})
          /\ send' = [c \in Clients |-> IF c \in to /\ send[c] < SendCap
                                        THEN send[c] + 1 ELSE send[c]]
    /\ UNCHANGED <<registered, hub, notice, mutex, reader, writer, conn, closed, late>>

\* Mutant: the channel is closed, the client stays in its session.
CleanupKeeping ==
    /\ ~panicked
    /\ hub = "select"
    /\ registered \intersect late # {}
    /\ closed' = closed \union (registered \intersect late)
    /\ UNCHANGED <<broadcast, registered, hub, notice, mutex, reader, writer, conn,
                   send, late, panicked>>

\* Mutant: the comparison of the times is turned round.
CleanupFresh ==
    /\ ~panicked
    /\ hub = "select"
    /\ registered \ late # {}
    /\ registered' = registered \intersect late
    /\ closed' = closed \union (registered \ late)
    /\ UNCHANGED <<broadcast, hub, notice, mutex, reader, writer, conn,
                   send, late, panicked>>

\* The hub closes the channel of a client without knowing what the client's
\* reader is doing.
CleanupInactiveClients ==
    /\ ~panicked
    /\ hub = "select"
    /\ registered \intersect late # {}
    /\ registered' = registered \ late
    /\ closed' = closed \union (registered \intersect late)
    /\ UNCHANGED <<broadcast, hub, notice, mutex, reader, writer, conn,
                   send, late, panicked>>

-----------------------------------------------------------------------------
(* HandleWebSocket and ReadPump of a client *)

\* JoinSession takes the mutex and keeps it until the hub has the client.
JoinSession(c) ==
    /\ ~panicked
    /\ reader[c] = "absent"
    /\ mutex = None
    /\ mutex' = c
    /\ ReaderTo(c, "registering")
    /\ conn' = conn \union {c}
    /\ UNCHANGED <<loopVars, writer, send, closed, late, panicked>>

\* ReadMessage returns an edit, a cursor or selection update, or a ping or sync
\* request.
ReadMessage(c) ==
    /\ ~panicked
    /\ reader[c] = "reading"
    /\ c \in conn \ late
    /\ \E pc \in {"editing", "moving", "replying"} : ReaderTo(c, pc)
    /\ UNCHANGED <<loopVars, mutex, writer, conn, send, closed, late, panicked>>

\* HandleEditOperation draws the user's clock under the mutex.
TakeClock(c) ==
    /\ ~panicked
    /\ reader[c] = "editing"
    /\ mutex = None
    /\ ReaderTo(c, "publishing")
    /\ UNCHANGED <<loopVars, mutex, writer, conn, send, closed, late, panicked>>

\* Hub.Broadcast blocks while the channel is full; an edit is acknowledged
\* after it.
Broadcast(c) ==
    /\ ~panicked
    /\ reader[c] \in {"publishing", "moving"}
    /\ Queue(c)
    /\ ReaderTo(c, IF reader[c] = "publishing" THEN "replying" ELSE "reading")
    /\ UNCHANGED <<registered, hub, notice, mutex, writer, conn, send, closed, late,
                   panicked>>

\* Pongs, acknowledgments, errors and sync responses are sent without a default
\* case: the reader waits for room, and panics when the channel is closed.
Reply(c) ==
    /\ ~panicked
    /\ reader[c] = "replying"
    /\ IF c \in closed
       THEN panicked' = TRUE /\ UNCHANGED <<reader, send>>
       ELSE /\ send[c] < SendCap
            /\ send' = [send EXCEPT ![c] = @ + 1]
            /\ ReaderTo(c, "reading")
            /\ UNCHANGED panicked
    /\ UNCHANGED <<loopVars, mutex, writer, conn, closed, late>>

\* The connection is closed, or the read deadline has passed.
ReadError(c) ==
    /\ ~panicked
    /\ reader[c] = "reading"
    /\ c \notin conn \ late
    /\ ReaderTo(c, "leaving")
    /\ UNCHANGED <<loopVars, mutex, writer, conn, send, closed, late, panicked>>

-----------------------------------------------------------------------------
(* WritePump, and the network *)

\* One websocket message takes all that is queued.
WriteMessages(c) ==
    /\ ~panicked
    /\ writer[c] = "writing"
    /\ c \in conn
    /\ send[c] > 0
    /\ send' = [send EXCEPT ![c] = 0]
    /\ UNCHANGED <<loopVars, mutex, reader, writer, conn, closed, late, panicked>>

\* A write fails, or the hub has closed the channel.
WriterStops(c) ==
    /\ ~panicked
    /\ writer[c] = "writing"
    /\ c \notin conn \/ (c \in closed /\ send[c] = 0)
    /\ writer' = [writer EXCEPT ![c] = "done"]
    /\ conn' = conn \ {c}
    /\ UNCHANGED <<loopVars, mutex, reader, send, closed, late, panicked>>

\* The peer goes away or stops reading until the write deadline.
Disconnect(c) ==
    /\ ~panicked
    /\ c \in conn
    /\ reader[c] # "registering"
    /\ conn' = conn \ {c}
    /\ UNCHANGED <<loopVars, mutex, reader, writer, send, closed, late, panicked>>

\* pongWait passes without a pong handled: pongs are only seen by a reader that
\* is in ReadMessage.
PongMissed(c) ==
    /\ ~panicked
    /\ c \in registered \ late
    /\ late' = late \union {c}
    /\ UNCHANGED <<loopVars, mutex, reader, writer, conn, send, closed, panicked>>

-----------------------------------------------------------------------------
HubStep ==
    \/ Notify
    \/ BroadcastMessage
    \/ CleanupInactiveClients
    \/ \E c \in Clients : RegisterClient(c) \/ UnregisterClient(c)

ReaderStep(c) ==
    \/ ReadMessage(c) \/ TakeClock(c) \/ Broadcast(c) \/ Reply(c) \/ ReadError(c)

WriterStep(c) == WriteMessages(c) \/ WriterStops(c)

HubNext ==
    \/ HubStep
    \/ \E c \in Clients : \/ ReaderStep(c) \/ WriterStep(c)
                          \/ JoinSession(c) \/ Disconnect(c) \/ PongMissed(c)

HubSpec == HubInit /\ [][HubNext]_hubVars

\* The hub's goroutine runs, and select chooses at random among the channels
\* that are ready, so that none is passed over for ever.  A closed connection
\* brings no more pongs.
HubFairness ==
    /\ WF_hubVars(Notify)
    /\ SF_hubVars(CleanupInactiveClients)
    /\ \A c \in Clients : SF_hubVars(RegisterClient(c)) /\ WF_hubVars(c \notin conn /\ PongMissed(c))

HubFairSpec == HubSpec /\ HubFairness

-----------------------------------------------------------------------------
\* The hub never sends to a channel it has closed, and closes none twice: a
\* client whose channel is closed has left its session.
RegisteredIsOpen == registered \intersect closed = {}

\* websocket_service.go: "Broadcast messages to all clients in a session".  The
\* loop that empties the broadcast channel does not wait for room in it.
HubDoesNotWaitForItself == hub = "notify" => Len(broadcast) < BroadcastCap

\* The hub is not waiting for itself for ever, and the process lives.
HubRuns == []<>(hub = "select" /\ ~panicked)

\* As long as the hub runs, a client whose connection is closed is removed from
\* its session, wherever its goroutines are stuck.
DeadClientsAreRemoved ==
    HubRuns => \A c \in Clients : c \in registered \ conn ~> c \notin registered

\* As long as the hub runs, a join does not keep the service's mutex.
JoinsReturn == HubRuns => \A c \in Clients : mutex = c ~> mutex # c
=============================================================================
