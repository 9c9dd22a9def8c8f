------------------------------ MODULE SshAccess ------------------------------
(***************************************************************************)
(* The keys that SSHService keeps for one user: which there are and which  *)
(* are marked default.  A rotation looks at its key, releases the lock,    *)
(* makes the new key in a second section and deletes the old in a third.   *)
(***************************************************************************)
EXTENDS Naturals, FiniteSets, Sequences

CONSTANTS SshKey,    \* the identifiers that can be given to keys
          Rotation   \* the calls of RotateKey

ASSUME SshKeyAssumption == SshKey # {}

VARIABLES sshKeys,      \* the user's keys
          defaultKeys,  \* the keys marked IsDefault, deleted ones included
          rotation,     \* each call: where it is, its key, whether that was default
          excused       \* history: a default was deleted, or chosen while it was rotated

sshKeyVars == <<sshKeys, defaultKeys, rotation, excused>>

SshKeysTypeOK ==
    /\ sshKeys \subseteq SshKey
    /\ defaultKeys \subseteq SshKey
    /\ rotation \in [Rotation -> [at : {"idle", "generate", "delete", "done"},
                                  key : SshKey, was : BOOLEAN]]
    /\ excused \in [deleted : BOOLEAN, chosen : BOOLEAN]

SshKeysInit ==
    /\ sshKeys = {} /\ defaultKeys = {}
    /\ rotation \in [Rotation -> [at : {"idle"}, key : {CHOOSE k \in SshKey : TRUE}, was : {FALSE}]]
    /\ excused = [deleted |-> FALSE, chosen |-> FALSE]

UsedKeys == sshKeys \cup defaultKeys \cup {rotation[r].key : r \in Rotation}
BeingRotated(k) == \E r \in Rotation : rotation[r].at # "idle" /\ rotation[r].key = k

-----------------------------------------------------------------------------

\* The new key, and the marks that are left when it is to be the default.
StoreKeyOnly(k, asDefault) ==
    /\ sshKeys' = sshKeys \cup {k}
    /\ defaultKeys' = IF asDefault THEN defaultKeys \cup {k} ELSE defaultKeys

StoreKey(k, asDefault) ==
    /\ sshKeys' = sshKeys \cup {k}
    /\ defaultKeys' = IF asDefault THEN (defaultKeys \ sshKeys) \cup {k} ELSE defaultKeys

GenerateKeyPair(k, asDefault) ==
    /\ k \notin UsedKeys
    /\ StoreKey(k, asDefault)
    /\ UNCHANGED <<rotation, excused>>

DeleteKey(k) ==
    /\ k \in sshKeys
    /\ sshKeys' = sshKeys \ {k}
    /\ excused' = [excused EXCEPT !.deleted = @ \/ k \in defaultKeys]
    /\ UNCHANGED <<defaultKeys, rotation>>

SetDefaultKey(k) ==
    /\ k \in sshKeys
    /\ defaultKeys' = (defaultKeys \ sshKeys) \cup {k}
    /\ excused' = [excused EXCEPT !.chosen = @ \/ BeingRotated(k)]
    /\ UNCHANGED <<sshKeys, rotation>>

\* The first section of RotateKey, and the request built from the key.
BeginSshRotation(r, k) ==
    /\ rotation[r].at = "idle" /\ k \in sshKeys
    /\ rotation' = [rotation EXCEPT ![r] = [at |-> "generate", key |-> k, was |-> k \in defaultKeys]]
    /\ UNCHANGED <<sshKeys, defaultKeys, excused>>

GenerateAsDefault(r, k, asDefault) ==
    /\ rotation[r].at = "generate" /\ k \notin UsedKeys
    /\ StoreKey(k, asDefault)
    /\ rotation' = [rotation EXCEPT ![r].at = "delete"]
    /\ UNCHANGED excused

\* The second section: a key with the settings that were read, default or not.
GenerateReplacement(r, k) == GenerateAsDefault(r, k, rotation[r].was)

\* The third: the old key may be gone already.
DeleteRotated(r) ==
    /\ rotation[r].at = "delete"
    /\ sshKeys' = sshKeys \ {rotation[r].key}
    /\ rotation' = [rotation EXCEPT ![r].at = "done"]
    /\ UNCHANGED <<defaultKeys, excused>>

SshKeysNext ==
    \/ \E k \in SshKey, asDefault \in BOOLEAN : GenerateKeyPair(k, asDefault)
    \/ \E k \in SshKey : DeleteKey(k)
    \/ \E k \in SshKey : SetDefaultKey(k)
    \/ \E r \in Rotation, k \in SshKey : BeginSshRotation(r, k)
    \/ \E r \in Rotation, k \in SshKey : GenerateReplacement(r, k)
    \/ \E r \in Rotation : DeleteRotated(r)

SshKeysSpec == SshKeysInit /\ [][SshKeysNext]_sshKeyVars

-----------------------------------------------------------------------------
(* Properties. *)

\* GetDefaultKey finds at most one key, however calls interleave.  It finds one
\* once there was one, rotations notwithstanding, unless the user deleted it or
\* chose as default a key that was being rotated.
OneDefaultKey ==
    /\ Cardinality(defaultKeys \cap sshKeys) <= 1
    /\ defaultKeys # {} /\ ~excused.deleted /\ ~excused.chosen => defaultKeys \cap sshKeys # {}

-----------------------------------------------------------------------------
(***************************************************************************)
(* The connections that SSHService keeps for one environment: the map of   *)
(* connections, under the lock mu, and the list of the environment's       *)
(* identifiers, under envMu.  A registration takes envMu and then mu, a    *)
(* clean-up mu and then envMu.                                             *)
(***************************************************************************)

CONSTANTS Connection,           \* the connection identifiers
          SshCaller,            \* the calls of the service
          NoCaller,
          MaxConnectionsPerEnv,
          MaxSshCalls           \* bound: calls

ASSUME SshCallAssumption ==
    MaxConnectionsPerEnv \in Nat /\ MaxSshCalls \in Nat /\ NoCaller \notin SshCaller

VARIABLES connections,     \* the keys of the map
          stale,           \* those without activity within the timeout
          envConnections,  \* the list
          muHolder, envMuHolder,
          sshCall,         \* what each caller does and where it is
          sshCalls,        \* number of calls so far
          repeated         \* history: identifiers registered while in use

sshVars == <<connections, stale, envConnections, muHolder, envMuHolder, sshCall, sshCalls,
             repeated>>

SshConnectionsTypeOK ==
    /\ connections \subseteq Connection /\ stale \subseteq connections
    /\ repeated \subseteq Connection
    /\ envConnections \in Seq(Connection)
    /\ muHolder \in SshCaller \cup {NoCaller}
    /\ envMuHolder \in SshCaller \cup {NoCaller}
    /\ sshCall \in [SshCaller -> [at : {"idle", "store", "untrack", "clean", "sweep"},
                                  todo : SUBSET Connection]]
    /\ sshCalls \in 0..MaxSshCalls

IdleCall == [at |-> "idle", todo |-> {}]

SshConnectionsInit ==
    /\ connections = {} /\ stale = {} /\ repeated = {}
    /\ envConnections = <<>>
    /\ muHolder = NoCaller /\ envMuHolder = NoCaller
    /\ sshCall = [p \in SshCaller |-> IdleCall]
    /\ sshCalls = 0

Tracked == Len(envConnections)
Places(c) == {i \in DOMAIN envConnections : envConnections[i] = c}

BeginSshCall(p) ==
    /\ sshCall[p].at = "idle" /\ sshCalls < MaxSshCalls
    /\ sshCalls' = sshCalls + 1

Goto(p, place, todo) == sshCall' = [sshCall EXCEPT ![p] = [at |-> place, todo |-> todo]]

\* The list without the first place of an identifier.
Untrack(c) ==
    IF Places(c) = {} THEN envConnections
    ELSE LET first == CHOOSE i \in Places(c) : \A j \in Places(c) : i <= j
         IN  [i \in 1..(Tracked - 1) |-> envConnections[IF i < first THEN i ELSE i + 1]]

-----------------------------------------------------------------------------
(* RegisterConnection: under envMu, the limit, the map under mu, the list. *)

\* Past the limit an error is returned, and nothing changes.
RegisterConnection(p, c) ==
    /\ BeginSshCall(p) /\ envMuHolder = NoCaller /\ Tracked < MaxConnectionsPerEnv
    /\ envMuHolder' = p
    /\ Goto(p, "store", {c})
    /\ UNCHANGED <<connections, stale, envConnections, muHolder, repeated>>

StoreConnection(p) ==
    /\ sshCall[p].at = "store" /\ muHolder = NoCaller
    /\ \E c \in sshCall[p].todo :
           /\ connections' = connections \cup {c}
           /\ stale' = stale \ {c}
           /\ envConnections' = Append(envConnections, c)
           /\ repeated' = IF Places(c) # {} THEN repeated \cup {c} ELSE repeated
    /\ envMuHolder' = NoCaller
    /\ Goto(p, "idle", {})
    /\ UNCHANGED <<muHolder, sshCalls>>

-----------------------------------------------------------------------------
(* UnregisterConnection: the map under mu, then the list under envMu. *)

UnregisterConnection(p, c) ==
    /\ BeginSshCall(p) /\ muHolder = NoCaller /\ c \in connections
    /\ connections' = connections \ {c} /\ stale' = stale \ {c}
    /\ Goto(p, "untrack", {c})
    /\ UNCHANGED <<envConnections, muHolder, envMuHolder, repeated>>

UntrackNothing(p) ==
    /\ sshCall[p].at = "untrack" /\ envMuHolder = NoCaller
    /\ Goto(p, "idle", {})
    /\ UNCHANGED <<connections, stale, envConnections, muHolder, envMuHolder, sshCalls, repeated>>

UntrackConnection(p) ==
    /\ sshCall[p].at = "untrack" /\ envMuHolder = NoCaller
    /\ \E c \in sshCall[p].todo : envConnections' = Untrack(c)
    /\ Goto(p, "idle", {})
    /\ UNCHANGED <<connections, stale, muHolder, envMuHolder, sshCalls, repeated>>

-----------------------------------------------------------------------------
(* CleanupStaleConnections: mu throughout, envMu for each stale one. *)

BeginCleanup(p) ==
    /\ BeginSshCall(p) /\ muHolder = NoCaller /\ stale # {}
    /\ muHolder' = p
    /\ Goto(p, "sweep", stale)
    /\ UNCHANGED <<connections, stale, envConnections, envMuHolder, repeated>>

SweepStale(p) ==
    /\ sshCall[p].at = "sweep" /\ envMuHolder = NoCaller
    /\ \E c \in sshCall[p].todo :
           LET rest == sshCall[p].todo \ {c}
           IN  /\ connections' = connections \ {c} /\ stale' = stale \ {c}
               /\ envConnections' = Untrack(c)
               /\ muHolder' = IF rest = {} THEN NoCaller ELSE muHolder
               /\ Goto(p, IF rest = {} THEN "idle" ELSE "sweep", rest)
    /\ UNCHANGED <<envMuHolder, sshCalls, repeated>>

-----------------------------------------------------------------------------
(* Activity. *)

\* The timeout passes without activity.
GoStale(c) ==
    /\ muHolder = NoCaller /\ c \in connections \ stale
    /\ stale' = stale \cup {c}
    /\ UNCHANGED <<connections, envConnections, muHolder, envMuHolder, sshCall, sshCalls, repeated>>

UpdateConnectionActivity(c) ==
    /\ muHolder = NoCaller /\ c \in stale
    /\ stale' = stale \ {c}
    /\ UNCHANGED <<connections, envConnections, muHolder, envMuHolder, sshCall, sshCalls, repeated>>

SshConnectionsNext ==
    \/ \E p \in SshCaller, c \in Connection : RegisterConnection(p, c)
    \/ \E p \in SshCaller : StoreConnection(p)
    \/ \E p \in SshCaller, c \in Connection : UnregisterConnection(p, c)
    \/ \E p \in SshCaller : UntrackConnection(p)
    \/ \E p \in SshCaller : BeginCleanup(p)
    \/ \E p \in SshCaller : SweepStale(p)
    \/ \E c \in Connection : GoStale(c)
    \/ \E c \in Connection : UpdateConnectionActivity(c)

\* Every call goes on when the lock it waits for is free.
SshFairness ==
    \A p \in SshCaller : WF_sshVars(StoreConnection(p) \/ UntrackConnection(p) \/ SweepStale(p))

SshConnectionsSpec ==
    SshConnectionsInit /\ [][SshConnectionsNext]_sshVars /\ SshFairness

-----------------------------------------------------------------------------
(* Properties. *)

\* The limit holds.  A connection is in the list for as long as it is in the map,
\* and when no call is under way its slot is given back with it: only an
\* identifier registered twice keeps one.
SlotsAreAccounted ==
    /\ Tracked <= MaxConnectionsPerEnv
    /\ \A c \in Connection :
           /\ c \in connections /\ c \notin repeated =>
                  \/ Places(c) # {}
                  \/ \E p \in SshCaller : c \in sshCall[p].todo
           /\ Places(c) # {} /\ c \notin repeated =>
                  \/ c \in connections
                  \/ \E p \in SshCaller : c \in sshCall[p].todo
==============================================================================
