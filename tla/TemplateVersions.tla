-------------------------- MODULE TemplateVersions --------------------------
(***************************************************************************)
(* TemplateService and TemplateVersionService of the core service, for one *)
(* template: its current content and number, and the rows of its versions. *)
(* A new version is computed from the template as it was read and written, *)
(* with the template, in one transaction; the table has a unique key on    *)
(* the template and the number.  Updating the template makes no version.   *)
(***************************************************************************)
EXTENDS Naturals, FiniteSets

CONSTANTS Content,    \* what a template can hold
          Editor,     \* requests that are served at once
          MaxVersions \* bound: versions of the template

ASSUME MaxVersionsAssumption == MaxVersions \in Nat \ {0} /\ Content # {}

VARIABLES template,   \* the row of the templates table
          versions,   \* rows of the template_versions table
          editor,     \* where each request is, and what it has read
          unversioned,\* history: the content was updated, or the first version not stored
          reordered   \* history: a version was computed from a number that was old

templateVars == <<template, versions, editor, unversioned, reordered>>

Number == [major : 1..MaxVersions, minor : 0..MaxVersions, patch : 0..MaxVersions]
First == [major |-> 1, minor |-> 0, patch |-> 0]
Bump == {"major", "minor", "patch"}
VersionRow == [number : Number, content : Content]

TemplatesTypeOK ==
    /\ template \in [state : {"none", "live", "deleted"}, number : Number, content : Content]
    /\ versions \subseteq VersionRow
    /\ editor \in [Editor -> [at : {"idle", "first", "version"}, base : Number,
                              number : Number, content : Content]]
    /\ unversioned \in BOOLEAN /\ reordered \in BOOLEAN

Nobody == [at |-> "idle", base |-> First, number |-> First,
           content |-> CHOOSE c \in Content : TRUE]

TemplatesInit ==
    /\ template = [state |-> "none", number |-> First, content |-> Nobody.content]
    /\ versions = {}
    /\ editor = [e \in Editor |-> Nobody]
    /\ unversioned = FALSE /\ reordered = FALSE

-----------------------------------------------------------------------------

\* A part that is raised sets those after it to zero.
BumpVersion(n, bump) ==
    CASE bump = "major" -> [major |-> n.major + 1, minor |-> 0, patch |-> 0]
      [] bump = "minor" -> [n EXCEPT !.minor = @ + 1, !.patch = 0]
      [] OTHER -> [n EXCEPT !.patch = @ + 1]

Later(m, n) ==
    \/ m.major > n.major
    \/ m.major = n.major /\ m.minor > n.minor
    \/ m.major = n.major /\ m.minor = n.minor /\ m.patch > n.patch

Start(e, place, number, content) ==
    /\ editor[e].at = "idle"
    /\ editor' = [editor EXCEPT ![e] = [at |-> place, base |-> template.number,
                                        number |-> number, content |-> content]]

\* Create: the template, and after it the first version, whose failure is only
\* logged.  The unique key on the name refuses a second template.
Create(e, c) ==
    /\ template.state = "none"
    /\ template' = [state |-> "live", number |-> First, content |-> c]
    /\ editor' = [editor EXCEPT ![e] = [Nobody EXCEPT !.at = "first", !.content = c]]
    /\ UNCHANGED <<versions, unversioned, reordered>>

CreateFirstVersion(e, stored) ==
    /\ editor[e].at = "first"
    /\ LET row == [number |-> First, content |-> editor[e].content]
           new == template.state = "live" /\ \A v \in versions : v.number # First
       IN /\ versions' = IF stored /\ new THEN versions \cup {row} ELSE versions
          /\ unversioned' = (unversioned \/ ~(stored /\ new))
    /\ editor' = [editor EXCEPT ![e] = Nobody]
    /\ UNCHANGED <<template, reordered>>

\* Update writes the columns it was given, and needs nothing of what it read.
Update(c) ==
    /\ template.state = "live"
    /\ template' = [template EXCEPT !.content = c]
    /\ unversioned' = TRUE
    /\ UNCHANGED <<versions, editor, reordered>>

\* CreateVersion reads the template; what the request does not give is taken
\* from it.  Bound: there are fewer than MaxVersions versions.
ReadForVersion(e, bump, c) ==
    /\ template.state = "live" /\ Cardinality(versions) < MaxVersions
    /\ BumpVersion(template.number, bump) \in Number
    /\ Start(e, "version", BumpVersion(template.number, bump), c)
    /\ UNCHANGED <<template, versions, unversioned, reordered>>

\* RollbackToVersion reads an old version too, and makes a new one of it.
ReadForRollback(e, v) ==
    /\ v \in versions
    /\ ReadForVersion(e, "patch", v.content)

\* One transaction inserts the version and updates the template; it is rolled
\* back when the number is taken or the template is gone.
CreateVersionNumberOnly(e) ==
    /\ editor[e].at = "version"
    /\ template.state = "live" /\ \A v \in versions : v.number # editor[e].number
    /\ versions' = versions \cup {[number |-> editor[e].number, content |-> editor[e].content]}
    /\ template' = [template EXCEPT !.number = editor[e].number]
    /\ unversioned' = FALSE
    /\ reordered' = (reordered \/ editor[e].base # template.number)
    /\ editor' = [editor EXCEPT ![e] = Nobody]

CreateVersion(e) ==
    /\ editor[e].at = "version"
    /\ template.state = "live" /\ \A v \in versions : v.number # editor[e].number
    /\ versions' = versions \cup {[number |-> editor[e].number, content |-> editor[e].content]}
    /\ template' = [template EXCEPT !.number = editor[e].number, !.content = editor[e].content]
    /\ unversioned' = FALSE
    /\ reordered' = (reordered \/ editor[e].base # template.number)
    /\ editor' = [editor EXCEPT ![e] = Nobody]

CreateVersionFails(e) ==
    /\ editor[e].at = "version"
    /\ editor' = [editor EXCEPT ![e] = Nobody]
    /\ UNCHANGED <<template, versions, unversioned, reordered>>

\* Deleting the template deletes its versions.
DeleteTemplate ==
    /\ template.state = "live"
    /\ template' = [template EXCEPT !.state = "deleted"]
    /\ versions' = {}
    /\ UNCHANGED <<editor, unversioned, reordered>>

TemplatesNext ==
    \/ \E e \in Editor, c \in Content : Create(e, c)
    \/ \E e \in Editor, stored \in BOOLEAN : CreateFirstVersion(e, stored)
    \/ \E c \in Content : Update(c)
    \/ \E e \in Editor, bump \in Bump, c \in Content : ReadForVersion(e, bump, c)
    \/ \E e \in Editor, v \in versions : ReadForRollback(e, v)
    \/ \E e \in Editor : CreateVersion(e)
    \/ \E e \in Editor : CreateVersionFails(e)
    \/ DeleteTemplate

TemplatesSpec == TemplatesInit /\ [][TemplatesNext]_templateVars

-----------------------------------------------------------------------------
(* Properties. *)

\* The template is what the version with its number says, so a rollback to that
\* version changes nothing, unless the template was updated since or its first
\* version was not stored; creating it is two steps.
CurrentVersionIsRecorded ==
    \/ template.state # "live" \/ unversioned \/ \E e \in Editor : editor[e].at = "first"
    \/ [number |-> template.number, content |-> template.content] \in versions

\* No version has a number above the template's, so none is in the way of the
\* next bump, whatever its kind, unless two versions were made from one number:
\* the transaction does not cover reading the template.
NextVersionIsFree ==
    template.state = "live" /\ ~reordered => \A v \in versions : ~Later(v.number, template.number)

=============================================================================
