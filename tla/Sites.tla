-------------------------------- MODULE Sites --------------------------------
(***************************************************************************)
(* The published site of one tenant: the rows of its documents, each with  *)
(* two generations of containers, and the cache entry that serves them.    *)
(* Every write is followed by a refresh of the entry.  A rebuild           *)
(* (refresh_tenant) reads the tenant, the site record and the documents    *)
(* one after another and inserts what it has read; a patch reads one row   *)
(* and changes one field of whatever entry is live.  Requests of several   *)
(* leaders interleave at every read and write.                             *)
(*                                                                         *)
(* A container is <<number, path>>: the path it was built for.  Unreadable *)
(* containers, failed refreshes, suspension and the entry's host are left  *)
(* out.                                                                    *)
(***************************************************************************)
EXTENDS Integers, FiniteSets

CONSTANTS
    Leaders,         \* requests that run at once
    SiteDocs,        \* documents, numbers: their order breaks ties
    MountPaths,      \* "/" among them
    MaxGenerations,  \* containers uploaded
    MaxSiteCalls     \* requests in all

ASSUME SitesAssumption == SiteDocs \subseteq Nat /\ 1 \in SiteDocs /\ "/" \in MountPaths

VARIABLES
    ownerName,       \* tenants.name, as a version
    siteNav,         \* sites.nav: NoRecord, 0 to derive it, or a version
    docRow,          \* site_docs, by document
    entry,           \* the tenant's entry in SiteCache
    callAt,          \* the leaders' requests
    generations,     \* containers uploaded so far
    siteCalls,       \* requests so far
    stale            \* history: fields of the entry written from an overtaken read

siteVars == <<ownerName, siteNav, docRow, entry, callAt, generations, siteCalls, stale>>

NoRecord == -1
NoContainer == <<0, "">>
NoMount == [path |-> "", file |-> NoContainer]
NoDoc == [mount |-> "", live |-> NoMount, previous |-> NoMount]
NoEntry == [there |-> FALSE, owner |-> 0, nav |-> NoContainer, mounts |-> {}]
AtRest == [pc |-> "rest", doc |-> 0, container |-> NoContainer, mount |-> "",
           owner |-> 0, nav |-> 0, read |-> NoEntry]

(* A tenant without a site, or one whose first document is published at    *)
(* its root.                                                               *)
Root == [path |-> "/", file |-> <<1, "/">>]

SitesInit ==
    /\ ownerName = 0
    /\ \/ /\ siteNav = NoRecord
          /\ docRow = [d \in SiteDocs |-> NoDoc]
          /\ entry = NoEntry
          /\ generations = 0
       \/ /\ siteNav = 0
          /\ docRow = [d \in SiteDocs |->
               IF d = 1 THEN [NoDoc EXCEPT !.mount = "/", !.live = Root] ELSE NoDoc]
          /\ entry = [there |-> TRUE, owner |-> 0, nav |-> Root.file, mounts |-> {Root}]
          /\ generations = 1
    /\ callAt = [l \in Leaders |-> AtRest]
    /\ siteCalls = 0
    /\ stale = {}

Call(l, pc) == callAt[l].pc = pc
CallTo(l, pc) == callAt' = [callAt EXCEPT ![l].pc = pc]
Answers(l) == callAt' = [callAt EXCEPT ![l] = AtRest]
KeepsTables == UNCHANGED <<ownerName, siteNav, docRow>>
KeepsEntry == UNCHANGED <<entry, stale>>

Begins(l, call) ==
    /\ Call(l, "rest") /\ siteCalls < MaxSiteCalls
    /\ siteCalls' = siteCalls + 1
    /\ callAt' = [callAt EXCEPT ![l] = call]

-----------------------------------------------------------------------------
(* The mounts the documents' rows contribute: of two documents live at one *)
(* path the one whose configured path still is that path, then the first.  *)
Precedes(d, e) ==
    LET drifted(x) == docRow[x].mount # docRow[x].live.path
    IN  \/ ~drifted(d) /\ drifted(e)
        \/ drifted(d) = drifted(e) /\ d < e

MountsFromDocs ==
    {docRow[d].live : d \in {x \in SiteDocs :
       /\ docRow[x].live # NoMount
       /\ \A y \in SiteDocs \ {x} :
            docRow[y].live.path = docRow[x].live.path => Precedes(x, y)}}

(* The nav: the owner's list, or that of the root mount's manifest.        *)
DerivedNav(mounts) ==
    IF \E m \in mounts : m.path = "/"
    THEN (CHOOSE m \in mounts : m.path = "/").file ELSE NoContainer

ResolveNav(explicit, mounts) ==
    IF explicit > 0 THEN <<explicit, "explicit">> ELSE DerivedNav(mounts)

(* What a rebuild inserts, or no entry if there is no site or no mount.    *)
BuildEntry(owner, nav, mounts) ==
    IF nav = NoRecord \/ mounts = {} THEN NoEntry
    ELSE [there |-> TRUE, owner |-> owner, nav |-> ResolveNav(nav, mounts),
          mounts |-> mounts]

Current == BuildEntry(ownerName, siteNav, MountsFromDocs)

(* The fields in which an entry differs from what the tables now hold.     *)
Differing(e) == {f \in DOMAIN NoEntry : e[f] # Current[f]}

-----------------------------------------------------------------------------
(* refresh_tenant: reads the tenant, reads the site record, lists the      *)
(* documents and opens their containers, then takes the cache's lock.  The *)
(* documents are the last rows read, the containers' bytes never change.   *)
ReadsTenant(l) ==
    /\ Call(l, "rebuild")
    /\ callAt' = [callAt EXCEPT ![l].pc = "site", ![l].owner = ownerName]
    /\ KeepsTables /\ KeepsEntry /\ UNCHANGED <<generations, siteCalls>>

ReadsSite(l) ==
    /\ Call(l, "site")
    /\ callAt' = [callAt EXCEPT ![l].pc = "docs", ![l].nav = siteNav]
    /\ KeepsTables /\ KeepsEntry /\ UNCHANGED <<generations, siteCalls>>

ListsDocs(l) ==
    /\ Call(l, "docs")
    /\ callAt' = [callAt EXCEPT ![l].pc = "insert",
         ![l].read = BuildEntry(callAt[l].owner, callAt[l].nav, MountsFromDocs)]
    /\ KeepsTables /\ KeepsEntry /\ UNCHANGED <<generations, siteCalls>>

InsertsEntry(l) ==
    /\ Call(l, "insert")
    /\ entry' = callAt[l].read
    /\ stale' = Differing(entry')
    /\ Answers(l)
    /\ KeepsTables /\ UNCHANGED <<generations, siteCalls>>

(* refresh_tenant_profile, once it has read the tenant: the live entry is  *)
(* found, patched and put back under one lock.  With none there, only a    *)
(* tenant that has a site goes on to a rebuild.                            *)
EntryAsRead(l) == callAt[l].read
LiveEntry(l) == entry

PatchesOwner(l) ==
    /\ Call(l, "owner")
    /\ IF entry.there
       THEN /\ entry' = [LiveEntry(l) EXCEPT !.owner = callAt[l].owner]
            /\ stale' = (stale \ {"owner"}) \cup (Differing(entry') \cap {"owner"})
            /\ Answers(l)
       ELSE CallTo(l, "cold") /\ KeepsEntry
    /\ KeepsTables /\ UNCHANGED <<generations, siteCalls>>

FindsSite(l) ==
    /\ Call(l, "cold")
    /\ IF siteNav = NoRecord THEN Answers(l) ELSE CallTo(l, "rebuild")
    /\ KeepsTables /\ KeepsEntry /\ UNCHANGED <<generations, siteCalls>>

ReadsOwner(l) ==
    /\ Call(l, "profile")
    /\ callAt' = [callAt EXCEPT ![l].pc = "owner", ![l].owner = ownerName,
                                ![l].read = entry]
    /\ KeepsTables /\ KeepsEntry /\ UNCHANGED <<generations, siteCalls>>

(* refresh_tenant_nav, once it has read the site record: the same, with    *)
(* the nav resolved against the entry's own mounts.                        *)
PatchesNav(l) ==
    /\ Call(l, "nav")
    /\ IF entry.there
       THEN /\ entry' = [entry EXCEPT !.nav = ResolveNav(callAt[l].nav, entry.mounts)]
            /\ stale' = (stale \ {"nav"}) \cup (Differing(entry') \cap {"nav"})
            /\ Answers(l)
       ELSE CallTo(l, "rebuild") /\ KeepsEntry
    /\ KeepsTables /\ UNCHANGED <<generations, siteCalls>>

ReadsNav(l) ==
    /\ Call(l, "config")
    /\ callAt' = [callAt EXCEPT ![l].pc = "nav", ![l].nav = siteNav]
    /\ KeepsTables /\ KeepsEntry /\ UNCHANGED <<generations, siteCalls>>

-----------------------------------------------------------------------------
(* patch_site writes the nav, or creates the record, and a profile write   *)
(* the tenant's name; each then asks for its own refresh.                  *)
EditsNav(l, nav) ==
    /\ Begins(l, [AtRest EXCEPT !.pc = "config"])
    /\ siteNav' = nav
    /\ UNCHANGED <<ownerName, docRow, generations>> /\ KeepsEntry

RenamesOwner(l) ==
    /\ Begins(l, [AtRest EXCEPT !.pc = "profile"])
    /\ ownerName' = ownerName + 1
    /\ UNCHANGED <<siteNav, docRow, generations>> /\ KeepsEntry

(* mount_site_doc adds a document or moves it, unless another one has the  *)
(* path: what is served stays where it is, and nothing is refreshed.       *)
Mounted(d, path) == \E e \in SiteDocs \ {d} : docRow[e].mount = path

MountsDoc(l, d, path) ==
    /\ Begins(l, AtRest)
    /\ ~Mounted(d, path)
    /\ docRow' = [docRow EXCEPT ![d].mount = path]
    /\ UNCHANGED <<ownerName, siteNav, generations>> /\ KeepsEntry

(* unmount_site_doc deletes the row, then asks for a rebuild.              *)
UnmountsDoc(l, d) ==
    /\ docRow[d] # NoDoc
    /\ Begins(l, [AtRest EXCEPT !.pc = "rebuild"])
    /\ docRow' = [docRow EXCEPT ![d] = NoDoc]
    /\ UNCHANGED <<ownerName, siteNav, generations>> /\ KeepsEntry

(* rollback_site exchanges the two generations, each with the path it was  *)
(* built for, then asks for a rebuild.                                     *)
RolledBack(row) == [row EXCEPT !.live = row.previous, !.previous = row.live]

RollsBackDoc(l, d) ==
    /\ docRow[d].previous # NoMount
    /\ Begins(l, [AtRest EXCEPT !.pc = "rebuild"])
    /\ docRow' = [docRow EXCEPT ![d] = RolledBack(docRow[d])]
    /\ UNCHANGED <<ownerName, siteNav, generations>> /\ KeepsEntry

(* publish_site reads the document's row: the container must have been     *)
(* built for the path the document is mounted at.                          *)
DeclaredAs(declared, mount) == mount # "" /\ declared = mount

BeginsPublish(l, d, declared) ==
    /\ siteNav # NoRecord /\ generations < MaxGenerations
    /\ DeclaredAs(declared, docRow[d].mount)
    /\ Begins(l, [AtRest EXCEPT !.pc = "publish", !.doc = d, !.mount = docRow[d].mount,
                                !.container = <<generations + 1, declared>>])
    /\ generations' = generations + 1
    /\ KeepsTables /\ KeepsEntry

(* It then looks for another document configured there, and whether the    *)
(* first of those that are served there is another one.                    *)
ChecksMount(l) ==
    /\ Call(l, "publish")
    /\ IF Mounted(callAt[l].doc, callAt[l].mount) THEN Answers(l) ELSE CallTo(l, "served")
    /\ KeepsTables /\ KeepsEntry /\ UNCHANGED <<generations, siteCalls>>

FirstServed(path) ==
    LET served == {d \in SiteDocs : docRow[d].live # NoMount /\ docRow[d].live.path = path}
    IN  {d \in served : \A e \in served : d <= e}

ChecksServed(l) ==
    /\ Call(l, "served")
    /\ IF FirstServed(callAt[l].mount) \subseteq {callAt[l].doc}
       THEN CallTo(l, "swap") ELSE Answers(l)
    /\ KeepsTables /\ KeepsEntry /\ UNCHANGED <<generations, siteCalls>>

(* The generation swap: one upsert, which the unique index on the          *)
(* configured path may refuse.                                             *)
SwapsGeneration(l) ==
    /\ Call(l, "swap")
    /\ LET d == callAt[l].doc  row == docRow[d]
       IN  IF Mounted(d, callAt[l].mount)
           THEN docRow' = docRow /\ Answers(l)
           ELSE /\ docRow' = [docRow EXCEPT ![d] =
                     [mount |-> callAt[l].mount,
                      live |-> [path |-> callAt[l].mount, file |-> callAt[l].container],
                      previous |-> row.live]]
                /\ CallTo(l, "rebuild")
    /\ UNCHANGED <<ownerName, siteNav, generations, siteCalls>> /\ KeepsEntry

-----------------------------------------------------------------------------
SiteCall(l) ==
    \/ \E nav \in 0..1 : EditsNav(l, nav)
    \/ RenamesOwner(l)
    \/ \E d \in SiteDocs :
         \/ UnmountsDoc(l, d) \/ RollsBackDoc(l, d)
         \/ \E path \in MountPaths : MountsDoc(l, d, path) \/ BeginsPublish(l, d, path)

SitesNext ==
    \E l \in Leaders :
      \/ SiteCall(l)
      \/ ChecksMount(l) \/ ChecksServed(l) \/ SwapsGeneration(l)
      \/ ReadsTenant(l) \/ ReadsSite(l) \/ ListsDocs(l) \/ InsertsEntry(l)
      \/ ReadsOwner(l) \/ PatchesOwner(l) \/ FindsSite(l)
      \/ ReadsNav(l) \/ PatchesNav(l)

SitesSpec == SitesInit /\ [][SitesNext]_siteVars

-----------------------------------------------------------------------------
SitesTypeOK ==
    /\ siteNav \in NoRecord..1
    /\ \A d \in SiteDocs : docRow[d].mount \in MountPaths \cup {""}
    /\ \A l \in Leaders : callAt[l].pc \in
         {"rest", "rebuild", "site", "docs", "insert", "profile", "owner", "cold",
          "config", "nav", "publish", "served", "swap"}
    /\ stale \subseteq DOMAIN NoEntry

(* Two documents are live at one path: rollback_site looks at no other     *)
(* document.                                                               *)
Contested ==
    \E d, e \in SiteDocs : d # e /\ docRow[d].live # NoMount
      /\ docRow[d].live.path = docRow[e].live.path

(* When no request runs, the entry serves what the tables hold, each       *)
(* container at the path it was built for: a patch of the owner or the nav *)
(* undoes no rebuild it overlaps.  Excepted are fields that a refresh      *)
(* wrote from a row it had read before the row was changed, and two        *)
(* documents live at one path.                                             *)
SiteServed ==
    /\ (\A l \in Leaders : Call(l, "rest")) /\ ~Contested
         => Differing(entry) \subseteq stale
    /\ \A m \in entry.mounts : m.path = m.file[2]
=============================================================================
