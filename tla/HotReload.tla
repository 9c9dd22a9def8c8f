------------------------------ MODULE HotReload ------------------------------
(***************************************************************************)
(* HotReloadService of the container service, for one environment whose    *)
(* configuration is on.  The channels of the subscribers are in a slice. A *)
(* notification copies the slice under the lock, which copies the header   *)
(* and not the array, and then sends without the lock; an unsubscription   *)
(* shifts the array in place and closes the channel.  Appending goes to a  *)
(* new array, of twice the size, when the old one is full.                 *)
(***************************************************************************)
EXTENDS Naturals, FiniteSets

CONSTANTS Subscriber,  \* each subscribes at most once
          Notifier,    \* goroutines that notify of a file change
          QueueSize,   \* of a channel; 100 in the code
          NoSubscriber

ASSUME HotReloadAssumption ==
    QueueSize \in Nat \ {0} /\ IsFiniteSet(Subscriber) /\ Cardinality(Subscriber) <= 4

VARIABLES arrays,      \* the arrays, of sizes 1, 2 and 4
          channels,    \* the slice: its array, or 0, and its length
          queue,       \* events in the channel of each subscriber
          closed,      \* subscribers whose channel is closed
          notifier     \* where each notification is, its slice, what it has done

hotReloadVars == <<arrays, channels, queue, closed, notifier>>

ArraySize == <<1, 2, 4>>
Slot == 1..4
Slice == [array : 0..3, len : 0..4]
NotBegun == [at |-> "idle", slice |-> [array |-> 0, len |-> 0], next |-> 1,
             audience |-> {}, told |-> {}, full |-> {}, again |-> FALSE, disturbed |-> FALSE]

HotReloadTypeOK ==
    /\ arrays \in [1..3 -> [Slot -> Subscriber \cup {NoSubscriber}]]
    /\ channels \in Slice
    /\ channels.array # 0 => channels.len <= ArraySize[channels.array]
    /\ queue \in [Subscriber -> 0..QueueSize]
    /\ closed \subseteq Subscriber
    /\ DOMAIN notifier = Notifier
    /\ \A n \in Notifier : /\ notifier[n].at \in {"idle", "sending", "done", "panicked"}
                           /\ notifier[n].slice \in Slice /\ notifier[n].next \in 1..5
                           /\ notifier[n].told \subseteq Subscriber

HotReloadInit ==
    /\ arrays = [a \in 1..3 |-> [i \in Slot |-> NoSubscriber]]
    /\ channels = [array |-> 0, len |-> 0]
    /\ queue = [s \in Subscriber |-> 0]
    /\ closed = {}
    /\ notifier = [n \in Notifier |-> NotBegun]

InSlice(slice, s) == \E i \in 1..slice.len : arrays[slice.array][i] = s
Subscribed == {s \in Subscriber : InSlice(channels, s)}

-----------------------------------------------------------------------------
(* Subscriptions. *)

\* append: in place if there is room, into the next array otherwise.
SubscribeToChanges(s) ==
    /\ s \notin Subscribed \cup closed
    /\ LET a == channels.array
           room == a # 0 /\ channels.len < ArraySize[a]
           into == IF room THEN a ELSE a + 1
           from == IF a = 0 THEN arrays[1] ELSE arrays[a]
       IN  /\ arrays' = [arrays EXCEPT ![into] = [i \in Slot |->
                            IF i = channels.len + 1 THEN s
                            ELSE IF i <= channels.len \/ room THEN from[i] ELSE NoSubscriber]]
           /\ channels' = [array |-> into, len |-> channels.len + 1]
    /\ UNCHANGED <<queue, closed, notifier>>

\* The slots after the subscriber's move down by one, in the array that copies of
\* the slice share; the last slot keeps what it had.
Cleanup(s) ==
    /\ s \in Subscribed
    /\ \E k \in 1..channels.len :
        /\ arrays[channels.array][k] = s
        /\ arrays' = [arrays EXCEPT ![channels.array] = [i \in Slot |->
                        IF i >= k /\ i < channels.len THEN @[i + 1] ELSE @[i]]]
    /\ channels' = [channels EXCEPT !.len = @ - 1]
    /\ closed' = closed \cup {s}
    /\ notifier' = [n \in Notifier |-> IF notifier[n].at = "sending"
                                       THEN [notifier[n] EXCEPT !.disturbed = TRUE]
                                       ELSE notifier[n]]
    /\ UNCHANGED <<queue>>

Receive(s) ==
    /\ queue[s] > 0
    /\ queue' = [queue EXCEPT ![s] = @ - 1]
    /\ UNCHANGED <<arrays, channels, closed, notifier>>

-----------------------------------------------------------------------------
(* NotifyFileChange, for a change that the configuration does not ignore. *)

NotifyFileChange(n) ==
    /\ notifier[n].at \in {"idle", "done"}
    /\ notifier' = [notifier EXCEPT ![n] = [NotBegun EXCEPT !.at = "sending", !.slice = channels,
                                                            !.audience = Subscribed]]
    /\ UNCHANGED <<arrays, channels, queue, closed>>

Receiver(n) == arrays[notifier[n].slice.array][notifier[n].next]

SkipSecond(n) ==
    /\ notifier[n].at = "sending" /\ notifier[n].next <= notifier[n].slice.len
    /\ LET s == Receiver(n)
       IN  /\ s \notin closed /\ queue[s] < QueueSize
           /\ queue' = [queue EXCEPT ![s] = @ + 1]
           /\ notifier' = [notifier EXCEPT ![n].told = @ \cup {s}, ![n].next = notifier[n].slice.len + 1]
    /\ UNCHANGED <<arrays, channels, closed>>

SendEvent(n) ==
    /\ notifier[n].at = "sending" /\ notifier[n].next <= notifier[n].slice.len
    /\ LET s == Receiver(n)
       IN  /\ s \notin closed /\ queue[s] < QueueSize
           /\ queue' = [queue EXCEPT ![s] = @ + 1]
           /\ notifier' = [notifier EXCEPT ![n].told = @ \cup {s}, ![n].next = @ + 1,
                                           ![n].again = @ \/ s \in notifier[n].told]
    /\ UNCHANGED <<arrays, channels, closed>>

\* The channel is full for the time of the timeout.
SendTimesOut(n) ==
    /\ notifier[n].at = "sending" /\ notifier[n].next <= notifier[n].slice.len
    /\ Receiver(n) \notin closed /\ queue[Receiver(n)] = QueueSize
    /\ notifier' = [notifier EXCEPT ![n].full = @ \cup {Receiver(n)}, ![n].next = @ + 1]
    /\ UNCHANGED <<arrays, channels, queue, closed>>

\* Sending on a closed channel ends the goroutine.
SendPanics(n) ==
    /\ notifier[n].at = "sending" /\ notifier[n].next <= notifier[n].slice.len
    /\ Receiver(n) \in closed
    /\ notifier' = [notifier EXCEPT ![n].at = "panicked"]
    /\ UNCHANGED <<arrays, channels, queue, closed>>

NotificationDone(n) ==
    /\ notifier[n].at = "sending" /\ notifier[n].next > notifier[n].slice.len
    /\ notifier' = [notifier EXCEPT ![n].at = "done"]
    /\ UNCHANGED <<arrays, channels, queue, closed>>

HotReloadNext ==
    \/ \E s \in Subscriber : SubscribeToChanges(s)
    \/ \E s \in Subscriber : Cleanup(s)
    \/ \E s \in Subscriber : Receive(s)
    \/ \E n \in Notifier : NotifyFileChange(n)
    \/ \E n \in Notifier : SendEvent(n)
    \/ \E n \in Notifier : SendTimesOut(n)
    \/ \E n \in Notifier : SendPanics(n)
    \/ \E n \in Notifier : NotificationDone(n)

HotReloadSpec == HotReloadInit /\ [][HotReloadNext]_hotReloadVars

-----------------------------------------------------------------------------
(* Properties. *)

\* Everyone who was subscribed when a notification began is told of it exactly
\* once, or was too slow to read, unless someone unsubscribed meanwhile; only
\* then can it panic.  Subscriptions do not disturb it, in place or not.
ToldOnce ==
    \A n \in Notifier :
        ~notifier[n].disturbed =>
            /\ notifier[n].at # "panicked" /\ ~notifier[n].again
            /\ notifier[n].at = "done" => notifier[n].told = notifier[n].audience \ notifier[n].full

-----------------------------------------------------------------------------
(***************************************************************************)
(* FileWatcherService of the container service, for one environment: the   *)
(* stored configuration, the watcher and changes that are reported.  The   *)
(* API stores a configuration and touches no watcher; an update through    *)
(* the service of watchers stores it and then takes their lock.  (The      *)
(* program builds that service nowhere yet, so what is reported to it is   *)
(* reported to the hot reload service directly, as without a watcher.)     *)
(***************************************************************************)

CONSTANTS Updater,   \* requests that change the configuration through the watchers' service
          Reporter   \* requests that report a change

VARIABLES enabled,   \* Enabled of the stored configuration
          watcher,   \* a watcher is running
          updater,   \* updates that have stored the configuration: the value to set
          reported,  \* a report has passed the watcher's filters; it notifies if enabled
          byApi,     \* history: the stored configuration came through the API
          seenOn     \* history: the reports during which hot reload has been on

watchVars == <<enabled, watcher, updater, reported, byApi, seenOn>>

WatchingTypeOK ==
    /\ enabled \in BOOLEAN /\ watcher \in BOOLEAN /\ byApi \in BOOLEAN
    /\ updater \in [Updater -> {"idle", "on", "off"}]
    /\ reported \in [Reporter -> {"idle", "filtered", "notified", "dropped"}]
    /\ seenOn \subseteq Reporter

WatchingInit ==
    /\ enabled = TRUE /\ watcher = FALSE /\ byApi = FALSE
    /\ updater = [u \in Updater |-> "idle"]
    /\ reported = [r \in Reporter |-> "idle"]
    /\ seenOn = {}

-----------------------------------------------------------------------------

StartWatching ==
    /\ ~watcher /\ enabled
    /\ watcher' = TRUE
    /\ UNCHANGED <<enabled, updater, reported, byApi, seenOn>>

StopWatching ==
    /\ watcher
    /\ watcher' = FALSE
    /\ UNCHANGED <<enabled, updater, reported, byApi, seenOn>>

SetConfig(value) ==
    /\ enabled' = (value = "on")
    /\ seenOn' = IF value = "on" THEN seenOn \cup {r \in Reporter : reported[r] = "filtered"}
                 ELSE seenOn
    /\ UNCHANGED <<watcher, reported>>

SetHotReloadConfig(value) == SetConfig(value) /\ byApi' = TRUE /\ UNCHANGED updater

\* The configuration is stored first, and the watcher stopped afterwards.
BeginUpdate(u, value) ==
    /\ updater[u] = "idle"
    /\ SetConfig(value)
    /\ updater' = [updater EXCEPT ![u] = value]
    /\ byApi' = FALSE

UpdateLeavesWatcher(u) ==
    /\ updater[u] # "idle"
    /\ updater' = [updater EXCEPT ![u] = "idle"]
    /\ UNCHANGED <<enabled, watcher, reported, byApi, seenOn>>

UpdateWatcherConfig(u) ==
    /\ updater[u] # "idle"
    /\ watcher' = (watcher /\ updater[u] = "on")
    /\ updater' = [updater EXCEPT ![u] = "idle"]
    /\ UNCHANGED <<enabled, reported, byApi, seenOn>>

\* Without a watcher the change is notified unfiltered; a watcher may drop it.
ReportFileChange(r) ==
    /\ reported[r] # "filtered"
    /\ \/ reported' = [reported EXCEPT ![r] = "filtered"]
       \/ watcher /\ reported' = [reported EXCEPT ![r] = "dropped"]
    /\ seenOn' = IF enabled THEN seenOn \cup {r} ELSE seenOn \ {r}
    /\ UNCHANGED <<enabled, watcher, updater, byApi>>

Reported(r, outcome) ==
    /\ reported[r] = "filtered"
    /\ reported' = [reported EXCEPT ![r] = outcome]
    /\ UNCHANGED <<enabled, watcher, updater, byApi, seenOn>>

\* A watcher was started with a configuration that was enabled.
NotifyIfWatched(r) == Reported(r, IF enabled \/ watcher THEN "notified" ELSE "dropped")

\* The stored configuration is read again; it may also drop the change because
\* clients are not to be notified or the path is to be ignored.
NotifyIfEnabled(r) ==
    \/ Reported(r, "dropped")
    \/ enabled /\ Reported(r, "notified")

WatchingNext ==
    \/ StartWatching
    \/ StopWatching
    \/ \E value \in {"on", "off"} : SetHotReloadConfig(value)
    \/ \E u \in Updater, value \in {"on", "off"} : BeginUpdate(u, value)
    \/ \E u \in Updater : UpdateWatcherConfig(u)
    \/ \E r \in Reporter : ReportFileChange(r)
    \/ \E r \in Reporter : NotifyIfEnabled(r)

WatchingSpec == WatchingInit /\ [][WatchingNext]_watchVars

-----------------------------------------------------------------------------
(* Properties. *)

\* A change reported while hot reload is off, and off until the report has ended,
\* is told to nobody, whatever watcher still runs and whatever set the
\* configuration.
DisabledIsNotTold == \A r \in Reporter : reported[r] = "notified" => r \in seenOn

\* A watcher runs although the configuration says it should not only as long as
\* the update that says so has not ended, however updates overlap, or after the
\* API has set it, which stops no watcher.
DisabledIsNotWatched ==
    watcher => enabled \/ byApi \/ \E u \in Updater : updater[u] = "off"
==============================================================================
