------------------------ MODULE CollaborationEditing -------------------------
(***************************************************************************)
(* The replicated text of services/realtime (crdt_engine.go) as operators  *)
(* on values: a document is a sequence of characters, of which the deleted *)
(* ones stay as tombstones, and a version.  Sites (user ids) are numbers   *)
(* ordered as the strings are.  Runes are numbers: which rune it is tells  *)
(* nothing apart but its identity.                                         *)
(***************************************************************************)
EXTENDS Integers, Sequences, SequencesExt, FiniteSets

NoId == [site |-> -1, clock |-> -1, offset |-> -1]      \* AfterID == nil

EmptyDocument == [content |-> << >>, version |-> 0]

\* The characters a reader sees, in order (GetContent).
Visible(content) == SelectSeq(content, LAMBDA c : ~c.deleted)

\* Index of the first character with the id, 0 when there is none.
IndexOfId(content, id) == SelectInSeq(content, LAMBDA c : c.id = id)

\* The id of the visible character number n, counted from 1.
VisibleId(content, n) ==
    LET text == Visible(content)
    IN IF n \in DOMAIN text THEN text[n].id ELSE NoId

(***************************************************************************)
(* CreateInsertOperation: the new character follows the visible character  *)
(* before the position.  The guard compares the position with the number   *)
(* of all characters, tombstones included.                                 *)
(***************************************************************************)
CreateInsert(content, site, position, clock, value) ==
    [type  |-> "insert",
     id    |-> [site |-> site, clock |-> clock, offset |-> position],
     value |-> value,
     after |-> IF position > 0 /\ position <= Len(content)
               THEN VisibleId(content, position) ELSE NoId]

\* CreateDeleteOperation; an operation with the id NoId stands for nil.
CreateDelete(content, position) ==
    [type |-> "delete", id |-> VisibleId(content, position + 1), value |-> 0, after |-> NoId]

(***************************************************************************)
(* applyInsert: start behind the character to follow (at the beginning     *)
(* when it is unknown) and move right, past every character, until one     *)
(* with a greater site, or of the same site with a greater clock.  Without *)
(* a character to follow nothing stops the move.                           *)
(***************************************************************************)
StopsAt(op, c) ==
    /\ op.after # NoId
    /\ \/ c.id.site > op.id.site
       \/ c.id.site = op.id.site /\ c.id.clock > op.id.clock

InsertIndex(content, op) ==
    LET start == (IF op.after = NoId THEN 0 ELSE IndexOfId(content, op.after)) + 1
        stop  == SelectInSubSeq(content, start, Len(content), LAMBDA c : StopsAt(op, c))
    IN IF stop = 0 THEN Len(content) + 1 ELSE stop

ApplyInsert(doc, op) ==
    [content |-> InsertAt(doc.content, InsertIndex(doc.content, op),
                          [id |-> op.id, value |-> op.value, deleted |-> FALSE]),
     version |-> doc.version + 1]

\* A plausible wrong version of applyDelete that a second delete undoes.
ApplyDeleteToggle(doc, op) ==
    LET i == IndexOfId(doc.content, op.id)
    IN IF i = 0 THEN doc
       ELSE [content |-> [doc.content EXCEPT ![i].deleted = ~@],
             version |-> doc.version + 1]

(***************************************************************************)
(* applyDelete: the first character with the id becomes a tombstone; a     *)
(* character that is not there is no error.                                *)
(***************************************************************************)
ApplyDelete(doc, op) ==
    LET i == IndexOfId(doc.content, op.id)
    IN IF i = 0 THEN doc
       ELSE [content |-> [doc.content EXCEPT ![i].deleted = TRUE],
             version |-> doc.version + 1]

ApplyOperation(doc, op) ==
    IF op.type = "insert" THEN ApplyInsert(doc, op) ELSE ApplyDelete(doc, op)

-----------------------------------------------------------------------------
(***************************************************************************)
(* Edits of one file of one collaboration session: the readers of the      *)
(* clients run HandleEditOperation concurrently against the document the   *)
(* CRDT engine holds, while EndSession may drop it.  The locks are taken   *)
(* per call, so an edit is a sequence of steps: look the document up, draw *)
(* a clock, and for each rune look the document up again, make an          *)
(* operation from what it holds, and apply the operation to the document   *)
(* looked up first.                                                        *)
(***************************************************************************)

CONSTANTS
    Editors,        \* connections
    UserOf,         \* the user (a number) behind each connection
    MaxRunes,       \* longest insert or delete of a message
    MaxPosition,    \* greatest position of a message
    MaxRequested,       \* bound: runes inserted or deleted in a behaviour
    MaxDocuments    \* bound: documents made for the file in a behaviour

ASSUME EditingAssumption ==
    /\ UserOf \in [Editors -> Nat]
    /\ MaxRunes \in Nat \ {0}
    /\ MaxPosition \in Nat

VARIABLES
    docs,       \* every document made for the file, in order
    current,    \* the one in the engine's map, 0 when there is none
    ended,      \* the session's status is "ended"
    clocks,     \* userClocks
    edit,       \* the edit in progress on each connection
    requested,  \* runes of the messages so far
    typed       \* runes inserted so far; numbers the runes

editingVars == <<docs, current, ended, clocks, edit, requested, typed>>

Users == {UserOf[c] : c \in Editors}

Idle == [pc |-> "idle", type |-> "none", position |-> 0, runes |-> 0, done |-> 0,
         clock |-> 0, doc |-> 0, source |-> 0, op |-> NoId, first |-> 0, values |-> {}]

EditingInit ==
    /\ docs = << >>
    /\ current = 0
    /\ ended = FALSE
    /\ clocks = [u \in Users |-> 0]
    /\ edit = [c \in Editors |-> Idle]
    /\ requested = 0
    /\ typed = 0

\* GetOrCreateDocument, and the index of what it returns.
GetOrCreateDocument ==
    IF current # 0
    THEN UNCHANGED <<docs, current>>
    ELSE /\ docs' = Append(docs, EmptyDocument)
         /\ current' = Len(docs) + 1

\* A message arrives at the connection: a type, a position and a length.
StartEdit(c, type, position, runes) ==
    /\ edit[c].pc = "idle"
    /\ requested + runes <= MaxRequested
    /\ requested' = requested + runes
    /\ GetOrCreateDocument
    /\ edit' = [edit EXCEPT ![c] = [Idle EXCEPT !.pc = "clock", !.type = type,
                                      !.position = position, !.runes = runes, !.doc = current']]
    /\ UNCHANGED <<ended, clocks, typed>>

\* The user's clock is read and advanced by one under the service's mutex.
DrawClock(c) ==
    /\ edit[c].pc = "clock"
    /\ edit' = [edit EXCEPT ![c].pc = "lookup", ![c].clock = clocks[UserOf[c]]]
    /\ clocks' = [clocks EXCEPT ![UserOf[c]] = @ + 1]
    /\ UNCHANGED <<docs, current, ended, requested, typed>>

\* A wrong one that does not stop at the last rune.
LookUpAnyway(c) ==
    /\ edit[c].pc = "lookup"
    /\ edit[c].done <= edit[c].runes
    /\ GetOrCreateDocument
    /\ edit' = [edit EXCEPT ![c].pc = "create", ![c].source = current']
    /\ UNCHANGED <<ended, clocks, requested, typed>>

\* CreateInsertOperation and CreateDeleteOperation look the document up anew.
LookUp(c) ==
    /\ edit[c].pc = "lookup"
    /\ edit[c].done < edit[c].runes
    /\ GetOrCreateDocument
    /\ edit' = [edit EXCEPT ![c].pc = "create", ![c].source = current']
    /\ UNCHANGED <<ended, clocks, requested, typed>>

CreateInsertOperation(c) ==
    /\ edit[c].pc = "create" /\ edit[c].type = "insert"
    /\ LET e == edit[c]
       IN edit' = [edit EXCEPT ![c].pc = "apply",
                    ![c].op = CreateInsert(docs[e.source].content, UserOf[c],
                                 e.position + e.done, e.clock + e.done, typed + 1),
                    ![c].values = @ \cup {typed + 1}]
    /\ typed' = typed + 1
    /\ UNCHANGED <<docs, current, ended, clocks, requested>>

\* Nothing to delete at the position: the loop goes on with the next rune.
CreateDeleteOperation(c) ==
    /\ edit[c].pc = "create" /\ edit[c].type = "delete"
    /\ LET e  == edit[c]
           op == CreateDelete(docs[e.source].content, e.position)
       IN \/ /\ op.id = NoId
             /\ edit' = [edit EXCEPT ![c].pc = "lookup", ![c].done = @ + 1]
          \/ /\ op.id # NoId
             /\ edit' = [edit EXCEPT ![c].pc = "apply", ![c].op = op]
    /\ UNCHANGED <<docs, current, ended, clocks, requested, typed>>

\* A wrong one that writes back the text the operation was made from.
ApplyToSource(c) ==
    /\ edit[c].pc = "apply"
    /\ docs' = [docs EXCEPT ![edit[c].source] = ApplyOperation(@, edit[c].op)]
    /\ edit' = [edit EXCEPT ![c].pc = "lookup", ![c].done = @ + 1, ![c].op = NoId]
    /\ UNCHANGED <<current, ended, clocks, requested, typed>>

Apply(c) ==
    /\ edit[c].pc = "apply"
    /\ docs' = [docs EXCEPT ![edit[c].doc] = ApplyOperation(@, edit[c].op)]
    /\ edit' = [edit EXCEPT ![c].pc = "lookup", ![c].done = @ + 1, ![c].op = NoId]
    /\ UNCHANGED <<current, ended, clocks, requested, typed>>

\* History, broadcast and acknowledgment with the document's version.
Acknowledge(c) ==
    /\ edit[c].pc = "lookup" /\ edit[c].done = edit[c].runes
    /\ edit' = [edit EXCEPT ![c] = Idle]
    /\ UNCHANGED <<docs, current, ended, clocks, requested, typed>>

(***************************************************************************)
(* EndSession takes the session's documents out of the engine.  Clients    *)
(* that are connected are not told, and their edits are not refused.       *)
(***************************************************************************)
EndSession ==
    /\ Len(docs) < MaxDocuments
    /\ ended' = TRUE
    /\ current' = 0
    /\ UNCHANGED <<docs, clocks, edit, requested, typed>>

EditingNext ==
    \/ \E c \in Editors, type \in {"insert", "delete"}, p \in 0..MaxPosition, n \in 1..MaxRunes :
          StartEdit(c, type, p, n)
    \/ \E c \in Editors : DrawClock(c)
    \/ \E c \in Editors : LookUp(c)
    \/ \E c \in Editors : CreateInsertOperation(c)
    \/ \E c \in Editors : CreateDeleteOperation(c)
    \/ \E c \in Editors : Apply(c)
    \/ \E c \in Editors : Acknowledge(c)
    \/ EndSession

EditingSpec == EditingInit /\ [][EditingNext]_editingVars
-----------------------------------------------------------------------------
Ids == [site : Users, clock : Nat, offset : Nat]

\* Documents, clocks and the edits in progress have the shapes they should.
EditingTypeOK ==
    /\ \A d \in DOMAIN docs :
          /\ docs[d].version \in Nat
          /\ \A i \in DOMAIN docs[d].content : docs[d].content[i].id \in Ids
    /\ current \in 0..Len(docs)
    /\ clocks \in [Users -> Nat]
    /\ \A c \in Editors : edit[c].doc \in 0..Len(docs) /\ edit[c].done \in 0..edit[c].runes

(***************************************************************************)
(* A document only grows: no step of any client takes a character away,    *)
(* brings a deleted one back or lets two characters change places, so the  *)
(* anchor another client has just read stays where it was (tombstones of   *)
(* applyDelete).                                                           *)
(***************************************************************************)
Grows(old, new) ==
    \E place \in [DOMAIN old -> DOMAIN new] :
        /\ \A i, j \in DOMAIN old : i < j => place[i] < place[j]
        /\ \A i \in DOMAIN old : LET c == new[place[i]]
                                IN /\ c.id = old[i].id /\ c.value = old[i].value
                                   /\ old[i].deleted => c.deleted
        /\ \A k \in DOMAIN new, i \in DOMAIN old : new[k].value = old[i].value => k = place[i]
DocumentsGrow == \A d \in DOMAIN docs : Grows(docs[d].content, docs'[d].content)

(***************************************************************************)
(* Two reads of a document that report the same version report the same    *)
(* text: whatever changes the text of a document raises its version        *)
(* (GetState, sendAck).                                                    *)
(***************************************************************************)
VersionTellsTexts ==
    \A d \in DOMAIN docs : docs'[d].version > docs[d].version \/ docs'[d] = docs[d]

(***************************************************************************)
(* When an insert is acknowledged, each of its runes is in the document    *)
(* the handler looked up, once, however the edits of others and EndSession *)
(* interleave with it (HandleEditOperation).                               *)
(***************************************************************************)
InsertsAreWhole ==
    \A c \in Editors :
      (edit[c].pc = "lookup" /\ edit[c].type = "insert") =>
         LET content == docs[edit[c].doc].content
         IN \A v \in edit[c].values :
               Cardinality({i \in DOMAIN content : content[i].value = v}) = 1

(***************************************************************************)
(* Two edits of the same user that are in progress on two connections work *)
(* with different clocks (userClocks is advanced under the mutex).         *)
(***************************************************************************)
ClocksDiffer ==
    \A c, d \in Editors :
      (/\ c # d /\ UserOf[c] = UserOf[d]
       /\ {edit[c].pc, edit[d].pc} \cap {"idle", "clock"} = {})
      => edit[c].clock # edit[d].clock

-----------------------------------------------------------------------------
==============================================================================
