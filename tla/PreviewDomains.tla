--------------------------- MODULE PreviewDomains ---------------------------
(***************************************************************************)
(* PreviewService of the container service, for one domain: its entry in   *)
(* the map, what it has at the DNS provider and at the certificate         *)
(* manager, and its share links.  The lock covers each look at the maps.   *)
(* The calls to the providers are made without it, and what they answer    *)
(* is stored afterwards.  The limit of domains per user is left out: there *)
(* is one domain.                                                          *)
(***************************************************************************)
EXTENDS Naturals, FiniteSets

CONSTANTS Name,      \* names the user can give a custom domain
          Link,      \* share links that can be created
          MaxLinks,  \* MaxShareLinksPerDomain
          MaxViews,  \* of every link; 0 is no limit
          NoName

ASSUME PreviewAssumption == IsFiniteSet(Link) /\ MaxLinks \in Nat \ {0} /\ MaxViews \in Nat

VARIABLES domain,    \* the domain, which goroutines keep after its deletion
          provided,  \* the record at the DNS provider, the certificate
          links,     \* the share links
          linking,   \* creations that have passed the checks and not stored the link
          verifying, \* the name a verification has found in the DNS and not yet stored
          removing,  \* where a deletion is
          mismatch   \* history: name, the name was changed or the domain deleted during
                     \* a verification; link, the domain was deleted during the creation
                     \* of one; count, two creations overlapped; kept, the record or the
                     \* certificate could not be deleted

previewVars == <<domain, provided, links, linking, verifying, removing, mismatch>>

DomainStatus == {"none", "Pending", "Active", "Failed", "Deleting"}

PreviewTypeOK ==
    /\ domain \in [present : BOOLEAN, custom : BOOLEAN, status : DomainStatus,
                   name : Name \cup {NoName}, found : Name \cup {NoName}]
    /\ provided \in [record : BOOLEAN, certificate : BOOLEAN]
    /\ links \in [Link -> [there : BOOLEAN, active : BOOLEAN, expired : BOOLEAN,
                           views : 0..MaxViews]]
    /\ linking \subseteq Link
    /\ verifying \in Name \cup {NoName}
    /\ removing \in {"no", "record", "certificate", "entry"}
    /\ mismatch \in [name : BOOLEAN, link : BOOLEAN, kept : BOOLEAN, count : BOOLEAN]

NoLink == [there |-> FALSE, active |-> FALSE, expired |-> FALSE, views |-> 0]

PreviewInit ==
    /\ domain = [present |-> FALSE, custom |-> FALSE, status |-> "none", name |-> NoName,
                found |-> NoName]
    /\ provided = [record |-> FALSE, certificate |-> FALSE]
    /\ links = [l \in Link |-> NoLink]
    /\ linking = {} /\ verifying = NoName /\ removing = "no"
    /\ mismatch = [name |-> FALSE, link |-> FALSE, kept |-> FALSE, count |-> FALSE]

ActiveLinks == {l \in Link : links[l].there /\ links[l].active}

-----------------------------------------------------------------------------
(* The domain. *)

\* A generated name gets its record and is active at once, with a certificate if
\* one can be had; without the record the domain has failed.
CreateDomain(recorded, certified) ==
    /\ domain.status = "none"
    /\ \/ /\ domain' = [domain EXCEPT !.present = TRUE,
                                       !.status = IF recorded THEN "Active" ELSE "Failed"]
          /\ provided' = [record |-> recorded, certificate |-> recorded /\ certified]
       \/ \E n \in Name :
            /\ domain' = [domain EXCEPT !.present = TRUE, !.custom = TRUE, !.status = "Pending",
                                      !.name = n]
            /\ UNCHANGED provided
    /\ UNCHANGED <<links, linking, verifying, removing, mismatch>>

UpdateKeepsStatus(n) ==
    /\ domain.present /\ domain.custom
    /\ domain' = [domain EXCEPT !.name = n]
    /\ mismatch' = [mismatch EXCEPT !.name = @ \/ verifying # NoName]
    /\ UNCHANGED <<provided, links, linking, verifying, removing>>

\* A new name has to be verified.  The certificate of the old one stays.
UpdateDomain(n) ==
    /\ domain.present /\ domain.custom
    /\ domain' = [domain EXCEPT !.name = n, !.status = "Pending"]
    /\ mismatch' = [mismatch EXCEPT !.name = @ \/ verifying # NoName]
    /\ UNCHANGED <<provided, links, linking, verifying, removing>>

\* The record of the name is found (nothing changes when it is not).
FindRecord ==
    /\ domain.present /\ domain.custom /\ verifying = NoName
    /\ verifying' = domain.name
    /\ mismatch' = [mismatch EXCEPT !.name = @ \/ removing # "no"]
    /\ UNCHANGED <<domain, provided, links, linking, removing>>

\* The domain becomes active whatever happened to it since, and a certificate is
\* requested for the name it has now, unless it has one.
VerifyCustomDomain(certified) ==
    /\ verifying # NoName
    /\ domain' = [domain EXCEPT !.status = "Active", !.found = verifying]
    /\ provided' = [provided EXCEPT !.certificate = @ \/ certified]
    /\ verifying' = NoName
    /\ UNCHANGED <<links, linking, removing, mismatch>>

-----------------------------------------------------------------------------
(* Deletion. *)

BeginDelete ==
    /\ domain.present /\ removing = "no"
    /\ domain' = [domain EXCEPT !.status = "Deleting"]
    /\ removing' = "record"
    /\ mismatch' = [mismatch EXCEPT !.name = @ \/ verifying # NoName]
    /\ UNCHANGED <<provided, links, linking, verifying>>

\* A record or a certificate that cannot be deleted stays.
DeleteRecord(deleted) ==
    /\ removing = "record" /\ removing' = "certificate"
    /\ provided' = [provided EXCEPT !.record = @ /\ ~deleted]
    /\ mismatch' = [mismatch EXCEPT !.kept = @ \/ (provided.record /\ ~deleted)]
    /\ UNCHANGED <<domain, links, linking, verifying>>

RevokeCertificate(revoked) ==
    /\ removing = "certificate" /\ removing' = "entry"
    /\ provided' = [provided EXCEPT !.certificate = @ /\ ~revoked]
    /\ mismatch' = [mismatch EXCEPT !.kept = @ \/ (provided.certificate /\ ~revoked)]
    /\ UNCHANGED <<domain, links, linking, verifying>>

DeleteEntryOnly ==
    /\ removing = "entry"
    /\ domain' = [domain EXCEPT !.present = FALSE] /\ removing' = "no"
    /\ UNCHANGED <<provided, links, linking, verifying, mismatch>>

\* The share links of the domain go with it.
DeleteDomain ==
    /\ removing = "entry"
    /\ domain' = [domain EXCEPT !.present = FALSE] /\ removing' = "no"
    /\ links' = [l \in Link |-> NoLink]
    /\ mismatch' = [mismatch EXCEPT !.link = @ \/ linking # {}]
    /\ UNCHANGED <<provided, linking, verifying>>

-----------------------------------------------------------------------------
(* Share links. *)

\* The domain is looked at and the links are counted before the link is stored.
CheckShareLink(l) ==
    /\ ~links[l].there /\ l \notin linking
    /\ domain.present /\ domain.status = "Active" /\ Cardinality(ActiveLinks) < MaxLinks
    /\ linking' = linking \cup {l}
    /\ mismatch' = [mismatch EXCEPT !.count = @ \/ linking # {}]
    /\ UNCHANGED <<domain, provided, links, verifying, removing>>

CreateShareLink(l) ==
    /\ l \in linking
    /\ links' = [links EXCEPT ![l] = [NoLink EXCEPT !.there = TRUE, !.active = TRUE]]
    /\ linking' = linking \ {l}
    /\ UNCHANGED <<domain, provided, verifying, removing, mismatch>>

\* A link that has expired or was seen often enough is made inactive, and the
\* next view is counted otherwise.  (Without a limit the count matters to nobody.)
ValidateShareLink(l) ==
    /\ links[l].there /\ links[l].active
    /\ links' = IF links[l].expired \/ (MaxViews > 0 /\ links[l].views >= MaxViews)
                THEN [links EXCEPT ![l].active = FALSE]
                ELSE [links EXCEPT ![l].views = IF MaxViews = 0 THEN @ ELSE @ + 1]
    /\ UNCHANGED <<domain, provided, linking, verifying, removing, mismatch>>

RevokeShareLink(l) ==
    /\ links[l].there
    /\ links' = [links EXCEPT ![l].active = FALSE]
    /\ UNCHANGED <<domain, provided, linking, verifying, removing, mismatch>>

DeleteShareLink(l) ==
    /\ links[l].there
    /\ links' = [links EXCEPT ![l] = NoLink]
    /\ UNCHANGED <<domain, provided, linking, verifying, removing, mismatch>>

LinkExpires(l) ==
    /\ links[l].there /\ ~links[l].expired
    /\ links' = [links EXCEPT ![l].expired = TRUE]
    /\ UNCHANGED <<domain, provided, linking, verifying, removing, mismatch>>

CleanupExpiredShareLinks ==
    /\ \E l \in Link : links[l].expired
    /\ links' = [l \in Link |-> IF links[l].expired THEN NoLink ELSE links[l]]
    /\ UNCHANGED <<domain, provided, linking, verifying, removing, mismatch>>

PreviewNext ==
    \/ \E recorded, certified \in BOOLEAN : CreateDomain(recorded, certified)
    \/ \E n \in Name : UpdateDomain(n)
    \/ FindRecord
    \/ \E certified \in BOOLEAN : VerifyCustomDomain(certified)
    \/ BeginDelete
    \/ \E deleted \in BOOLEAN : DeleteRecord(deleted)
    \/ \E revoked \in BOOLEAN : RevokeCertificate(revoked)
    \/ DeleteDomain
    \/ \E l \in Link : CheckShareLink(l)
    \/ \E l \in Link : CreateShareLink(l)
    \/ \E l \in Link : ValidateShareLink(l)
    \/ \E l \in Link : RevokeShareLink(l)
    \/ \E l \in Link : DeleteShareLink(l)
    \/ \E l \in Link : LinkExpires(l)
    \/ CleanupExpiredShareLinks

PreviewSpec == PreviewInit /\ [][PreviewNext]_previewVars

-----------------------------------------------------------------------------
(* Properties. *)

\* Nothing of a domain outlives it but what could not be deleted, a link whose
\* creation overlapped the deletion, and the certificate requested by a
\* verification that did.
NothingOutlivesDomain ==
    ~domain.present =>
        /\ provided.record => mismatch.kept
        /\ provided.certificate => mismatch.kept \/ mismatch.name
        /\ ActiveLinks # {} => mismatch.link

\* There are never more active links than the limit, unless creations overlapped.  A
\* custom domain that is active has the name that was found in the DNS, unless
\* that was changed while it was looked up.
PreviewIsAuthorised ==
    /\ Cardinality(ActiveLinks) <= MaxLinks \/ mismatch.count
    /\ domain.custom /\ domain.status = "Active" => domain.found = domain.name \/ mismatch.name

=============================================================================
