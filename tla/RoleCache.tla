----------------------------- MODULE RoleCache -----------------------------
(***************************************************************************)
(* RBACService of the core service, for one user: the role in the database *)
(* and the two entries for it in Redis, each with a time to live.  Reading *)
(* the database and filling the cache are two calls, and so are changing   *)
(* the role and deleting the entry.  The permissions are computed from the *)
(* role and cached with it; changing the role does not delete that entry.  *)
(* A role is known by its version: how many times it had been changed.     *)
(***************************************************************************)
EXTENDS Naturals

CONSTANTS Asker,      \* requests that ask for the role or the permissions
          CacheTTL,   \* life of an entry, in ticks (five minutes in the code)
          Delay,      \* bound: ticks a request can spend between two of its calls
          MaxChanges  \* bound: how often the role is changed

ASSUME CacheAssumption == CacheTTL \in Nat \ {0} /\ Delay \in Nat /\ MaxChanges \in Nat

VARIABLES version,     \* the role in the database
          roleEntry,   \* user:role: in Redis
          permEntry,   \* user:permissions: in Redis
          asker,       \* where each request is, what it wants and what it has read
          deleting,    \* SetUserRole has changed the row and not yet deleted the entry
          superseded,  \* ticks since each version was superseded
          late         \* history: the role entry was filled late, or could not be deleted

roleVars == <<version, roleEntry, permEntry, asker, deleting, superseded, late>>

Version == 0..MaxChanges
NoEntry == [present |-> FALSE, version |-> 0, age |-> 0]
Entry(v) == [present |-> TRUE, version |-> v, age |-> 0]

\* How long the answer of each cache can lag behind the database.
RoleLag == CacheTTL + Delay
PermissionLag == 2 * (CacheTTL + Delay)

RoleCacheTypeOK ==
    /\ version \in Version
    /\ {roleEntry, permEntry} \subseteq [present : BOOLEAN, version : Version, age : 0..CacheTTL]
    /\ asker \in [Asker -> [at : {"idle", "database", "fill", "fillPermissions"},
                            wants : {"role", "permissions"}, version : Version,
                            waited : 0..Delay]]
    /\ deleting \in BOOLEAN /\ late \in BOOLEAN
    /\ superseded \in [Version -> 0..(PermissionLag + 1)]

NotAsking == [at |-> "idle", wants |-> "role", version |-> 0, waited |-> 0]

RoleCacheInit ==
    /\ version = 0 /\ roleEntry = NoEntry /\ permEntry = NoEntry
    /\ asker = [a \in Asker |-> NotAsking]
    /\ deleting = FALSE /\ late = FALSE
    /\ superseded = [v \in Version |-> 0]

-----------------------------------------------------------------------------
(* Reading. *)

Go(a, place, v) ==
    asker' = [asker EXCEPT ![a].at = place, ![a].version = v, ![a].waited = 0]

\* GetUserRole misses.  (A hit is answered from the entry.)
GetUserRole(a) ==
    /\ asker[a].at = "idle" /\ ~roleEntry.present
    /\ asker' = [asker EXCEPT ![a] = [NotAsking EXCEPT !.at = "database"]]
    /\ UNCHANGED <<version, roleEntry, permEntry, deleting, superseded, late>>

\* GetUserPermissions misses, and asks GetUserRole, which may hit.
GetUserPermissions(a) ==
    /\ asker[a].at = "idle" /\ ~permEntry.present
    /\ asker' = [asker EXCEPT ![a] =
                   [at |-> IF roleEntry.present THEN "fillPermissions" ELSE "database",
                    wants |-> "permissions", version |-> roleEntry.version, waited |-> 0]]
    /\ UNCHANGED <<version, roleEntry, permEntry, deleting, superseded, late>>

ReadDatabase(a) ==
    /\ asker[a].at = "database"
    /\ Go(a, "fill", version)
    /\ UNCHANGED <<version, roleEntry, permEntry, deleting, superseded, late>>

FillRole(a) ==
    /\ asker[a].at = "fill"
    /\ roleEntry' = Entry(asker[a].version)
    /\ late' = (asker[a].version # version)
    /\ Go(a, IF asker[a].wants = "role" THEN "idle" ELSE "fillPermissions",
          IF asker[a].wants = "role" THEN 0 ELSE asker[a].version)
    /\ UNCHANGED <<version, permEntry, deleting, superseded>>

FillPermissions(a) ==
    /\ asker[a].at = "fillPermissions"
    /\ permEntry' = Entry(asker[a].version)
    /\ asker' = [asker EXCEPT ![a] = NotAsking]
    /\ UNCHANGED <<version, roleEntry, deleting, superseded, late>>

-----------------------------------------------------------------------------
(* Changing the role. *)

SetUserRole ==
    /\ ~deleting /\ version < MaxChanges
    /\ version' = version + 1
    /\ deleting' = TRUE
    /\ UNCHANGED <<roleEntry, permEntry, asker, superseded, late>>

\* The entry of the role is deleted; an error of Redis is ignored.
KeepRoleEntry(done) ==
    /\ deleting
    /\ deleting' = FALSE
    /\ late' = (~done /\ roleEntry.present)
    /\ UNCHANGED <<version, roleEntry, permEntry, asker, superseded>>

DeleteRoleEntry(done) ==
    /\ deleting
    /\ deleting' = FALSE
    /\ roleEntry' = IF done THEN NoEntry ELSE roleEntry
    /\ late' = (~done /\ roleEntry.present)
    /\ UNCHANGED <<version, permEntry, asker, superseded>>

-----------------------------------------------------------------------------
(* Time. *)

Aged(entry) ==
    IF entry.present /\ entry.age < CacheTTL THEN [entry EXCEPT !.age = @ + 1] ELSE NoEntry

\* No request is held up longer than Delay.
CacheTick ==
    /\ \A a \in Asker : asker[a].waited < Delay \/ asker[a].at = "idle"
    /\ asker' = [a \in Asker |-> IF asker[a].at = "idle" THEN asker[a]
                                 ELSE [asker[a] EXCEPT !.waited = @ + 1]]
    /\ roleEntry' = Aged(roleEntry) /\ permEntry' = Aged(permEntry)
    /\ superseded' = [v \in Version |-> IF v < version /\ superseded[v] <= PermissionLag
                                        THEN superseded[v] + 1 ELSE superseded[v]]
    /\ late' = (late /\ roleEntry'.present)
    /\ UNCHANGED <<version, deleting>>

RoleCacheNext ==
    \/ \E a \in Asker : GetUserRole(a)
    \/ \E a \in Asker : GetUserPermissions(a)
    \/ \E a \in Asker : ReadDatabase(a)
    \/ \E a \in Asker : FillRole(a)
    \/ \E a \in Asker : FillPermissions(a)
    \/ SetUserRole
    \/ \E done \in BOOLEAN : DeleteRoleEntry(done)
    \/ CacheTick

RoleCacheSpec == RoleCacheInit /\ [][RoleCacheNext]_roleVars

-----------------------------------------------------------------------------
(* Properties. *)

\* Once SetUserRole has returned, GetUserRole answers with the new role, unless
\* a request that had read the old one filled the cache after the deletion, or
\* the deletion failed.
RoleChangeIsSeen == roleEntry.present /\ ~deleting => roleEntry.version = version \/ late

\* Whatever overlaps or fails, a role that is cached was changed at most a time
\* to live and a request's delay ago.  The permissions, which a change does not
\* invalidate and which are computed from a cached role, lag twice as long.
StalenessBounded ==
    /\ roleEntry.present => superseded[roleEntry.version] <= RoleLag
    /\ permEntry.present => superseded[permEntry.version] <= PermissionLag

=============================================================================
