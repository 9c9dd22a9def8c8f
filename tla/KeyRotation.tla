---------------------------- MODULE KeyRotation ----------------------------
(***************************************************************************)
(* SecurityService of the core service: the rows that describe encryption  *)
(* keys, the key itself, which is in memory, and one encrypted resource.   *)
(* Rotating takes four calls, of which each can fail and end it.  Storing  *)
(* reads the row to name, encrypts with the key in memory, and writes; it  *)
(* makes the row when none is active, under a key id that is unique.       *)
(***************************************************************************)
EXTENDS Naturals, FiniteSets

CONSTANTS KeyWriter,  \* requests that store the resource
          Rotator,    \* requests that rotate the key
          MaxKeys     \* bound: rows of the table

ASSUME MaxKeysAssumption == MaxKeys \in Nat \ {0}

VARIABLES keyRows,    \* rows of the encryption_keys table, in the order of creation
          memoryKey,  \* the key in memory: 0 at the start, then the row it was made with
          keyWriter,  \* where each store is, the row it names and the key it used
          rotator,    \* where each rotation is, and the row it created
          resource,   \* row of the encrypted_data table: the row it names, the key it needs
          overlapped  \* history: two rotations overlapped, or a store made a row during one
                      \* or although there were others

keyVars == <<keyRows, memoryKey, keyWriter, rotator, resource, overlapped>>

KeyId == 0..MaxKeys
KeyStatus == {"active", "rotating", "retired"}

\* The row a rotation or a store makes; encrypts is the key it was made for.
KeyRow == [status : KeyStatus, version : 1..MaxKeys, master : BOOLEAN, encrypts : KeyId]

KeysTypeOK ==
    /\ \E n \in KeyId : keyRows \in [1..n -> KeyRow]
    /\ memoryKey \in KeyId
    /\ keyWriter \in [KeyWriter -> [at : {"idle", "create", "encrypt", "store"},
                                    names : KeyId, key : KeyId, apart : BOOLEAN]]
    /\ rotator \in [Rotator -> [at : {"idle", "create", "install", "retire"}, row : KeyId]]
    /\ resource \in [stored : BOOLEAN, names : KeyId, key : KeyId, apart : BOOLEAN]
    /\ overlapped \in BOOLEAN

Resting == [at |-> "idle", row |-> 0]
NotWriting == [at |-> "idle", names |-> 0, key |-> 0, apart |-> TRUE]

KeysInit ==
    /\ keyRows = <<>> /\ memoryKey = 0
    /\ keyWriter = [w \in KeyWriter |-> NotWriting]
    /\ rotator = [r \in Rotator |-> Resting]
    /\ resource = [stored |-> FALSE, names |-> 0, key |-> 0, apart |-> TRUE]
    /\ overlapped = FALSE

Rows == DOMAIN keyRows
ActiveKeys == {k \in Rows : keyRows[k].status = "active"}
Rotating == \E r \in Rotator : rotator[r].at # "idle"
Turn(from, to) ==
    [k \in Rows |-> IF keyRows[k].status = from THEN [keyRows[k] EXCEPT !.status = to]
                    ELSE keyRows[k]]
Added(row) == [k \in 1..(Cardinality(Rows) + 1) |-> IF k \in Rows THEN keyRows[k] ELSE row]
NextVersion == 1 + Cardinality({v \in 1..MaxKeys : \E k \in Rows : keyRows[k].version >= v})

-----------------------------------------------------------------------------
(* RotateEncryptionKey. *)

BeginRotation(r) ==
    /\ rotator[r].at = "idle" /\ Cardinality(Rows) < MaxKeys
    /\ keyRows' = Turn("active", "rotating")
    /\ rotator' = [rotator EXCEPT ![r].at = "create"]
    /\ keyWriter' = [w \in KeyWriter |-> [keyWriter[w] EXCEPT !.apart = FALSE]]
    /\ overlapped' = (\/ overlapped \/ Rotating
                      \/ \E w \in KeyWriter : keyWriter[w].at = "create")
    /\ UNCHANGED <<memoryKey, resource>>

\* The version is one more than the highest.
CreateKeyRow(r) ==
    /\ rotator[r].at = "create" /\ Cardinality(Rows) < MaxKeys
    /\ keyRows' = Added([status |-> "active", version |-> NextVersion, master |-> FALSE,
                         encrypts |-> Cardinality(Rows) + 1])
    /\ rotator' = [rotator EXCEPT ![r] = [at |-> "install", row |-> Cardinality(Rows) + 1]]
    /\ UNCHANGED <<memoryKey, keyWriter, resource, overlapped>>

\* The new key replaces the one in memory, under the lock.
InstallKey(r) ==
    /\ rotator[r].at = "install"
    /\ memoryKey' = rotator[r].row
    /\ rotator' = [rotator EXCEPT ![r].at = "retire"]
    /\ UNCHANGED <<keyRows, keyWriter, resource, overlapped>>

RetireRotating(r) ==
    /\ rotator[r].at = "retire"
    /\ keyRows' = Turn("rotating", "retired")
    /\ rotator' = [rotator EXCEPT ![r] = Resting]
    /\ UNCHANGED <<memoryKey, keyWriter, resource, overlapped>>

\* The row cannot be created, or the old ones not be retired.
RotationFails(r) ==
    /\ rotator[r].at \in {"create", "retire"}
    /\ rotator' = [rotator EXCEPT ![r] = Resting]
    /\ UNCHANGED <<keyRows, memoryKey, keyWriter, resource, overlapped>>

RotateEncryptionKey(r) ==
    BeginRotation(r) \/ CreateKeyRow(r) \/ InstallKey(r) \/ RetireRotating(r) \/ RotationFails(r)

-----------------------------------------------------------------------------
(* StoreEncryptedData. *)

FindActiveKey(w) ==
    /\ keyWriter[w].at = "idle"
    /\ \/ \E k \in ActiveKeys :
            keyWriter' = [keyWriter EXCEPT ![w] = [at |-> "encrypt", names |-> k, key |-> 0,
                                                   apart |-> ~Rotating]]
       \/ /\ ActiveKeys = {}
          /\ keyWriter' = [keyWriter EXCEPT ![w] = [NotWriting EXCEPT !.at = "create",
                                                                      !.apart = ~Rotating]]
    /\ UNCHANGED <<keyRows, memoryKey, rotator, resource, overlapped>>

\* The key id of the row is unique: a second one is refused and the store fails.
CreateMasterRow(w) ==
    /\ keyWriter[w].at = "create"
    /\ IF \E k \in Rows : keyRows[k].master
       THEN keyWriter' = [keyWriter EXCEPT ![w] = NotWriting] /\ UNCHANGED <<keyRows, overlapped>>
       ELSE /\ Cardinality(Rows) < MaxKeys
            /\ keyRows' = Added([status |-> "active", version |-> 1, master |-> TRUE,
                                 encrypts |-> memoryKey])
            /\ keyWriter' = [keyWriter EXCEPT ![w].at = "encrypt",
                                              ![w].names = Cardinality(Rows) + 1]
            /\ overlapped' = (overlapped \/ Rotating \/ Rows # {})
    /\ UNCHANGED <<memoryKey, rotator, resource>>

Encrypt(w) ==
    /\ keyWriter[w].at = "encrypt"
    /\ keyWriter' = [keyWriter EXCEPT ![w].at = "store", ![w].key = memoryKey]
    /\ UNCHANGED <<keyRows, memoryKey, rotator, resource, overlapped>>

StoreAgainFirstName(w) ==
    /\ keyWriter[w].at = "store"
    /\ resource' = [stored |-> TRUE, key |-> keyWriter[w].key, apart |-> keyWriter[w].apart,
                    names |-> IF resource.stored THEN resource.names ELSE keyWriter[w].names]
    /\ keyWriter' = [keyWriter EXCEPT ![w] = NotWriting]
    /\ UNCHANGED <<keyRows, memoryKey, rotator, overlapped>>

\* The resource is inserted or updated.
StoreEncryptedData(w) ==
    /\ keyWriter[w].at = "store"
    /\ resource' = [stored |-> TRUE, names |-> keyWriter[w].names, key |-> keyWriter[w].key,
                    apart |-> keyWriter[w].apart]
    /\ keyWriter' = [keyWriter EXCEPT ![w] = NotWriting]
    /\ UNCHANGED <<keyRows, memoryKey, rotator, overlapped>>

DeleteEncryptedData ==
    /\ resource.stored
    /\ resource' = [stored |-> FALSE, names |-> 0, key |-> 0, apart |-> TRUE]
    /\ UNCHANGED <<keyRows, memoryKey, keyWriter, rotator, overlapped>>

KeysNext ==
    \/ \E r \in Rotator : RotateEncryptionKey(r)
    \/ \E w \in KeyWriter : FindActiveKey(w)
    \/ \E w \in KeyWriter : CreateMasterRow(w)
    \/ \E w \in KeyWriter : Encrypt(w)
    \/ \E w \in KeyWriter : StoreEncryptedData(w)
    \/ DeleteEncryptedData

KeysSpec == KeysInit /\ [][KeysNext]_keyVars

-----------------------------------------------------------------------------
(* Properties. *)

\* However stores and failed rotations follow one another, at most one row is
\* active and no two have the same version, unless a row was made in the course
\* of a rotation.
KeyRowsInOrder ==
    overlapped \/ /\ Cardinality(ActiveKeys) <= 1
                  /\ \A j, k \in Rows : keyRows[j].version = keyRows[k].version => j = k

\* The row that the resource names is the one of the key that decrypts it,
\* unless it was stored while the key was being rotated.
NamesItsKey == resource.stored /\ resource.apart /\ ~overlapped =>
                   keyRows[resource.names].encrypts = resource.key

=============================================================================
