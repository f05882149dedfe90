---------------------------- MODULE CatalogCrawl ----------------------------
(***************************************************************************)
(* The crawl of the utility's residential rate catalog                      *)
(* (_crawl_sce_catalog in backend/app/services/rate_sync.py with            *)
(* sce_catalog.py).  From the captured root page the crawler follows plan   *)
(* links breadth first within limits of depth, documents and bytes, gives   *)
(* every discovered link a resolution and every plan family an inventory    *)
(* entry, and claims closure - nothing omitted - only when all of them are   *)
(* accounted for.  The claim decides whether the catalog's validator is     *)
(* stored.  What a page holds is chosen when it is fetched; a page is       *)
(* fetched at most once, so this is every link graph.  Links are plan links *)
(* or excluded ones: the kind "traversal", which the crawler also handles,  *)
(* is never produced by inspect_sce_catalog_links.                          *)
(***************************************************************************)
EXTENDS Integers, Sequences, SequencesExt, FiniteSets

CONSTANTS
    RootUrl,        \* the catalog index
    Urls,           \* other link targets on the allowlisted host
    OffsiteUrls,    \* tariff documents on the host outside the allowlist
    Families,       \* canonical plan names
    MaxDepth,       \* settings.sce_catalog_crawl_max_depth
    MaxDocuments,   \* settings.sce_catalog_crawl_max_documents
    MaxBytes        \* settings.sce_catalog_crawl_max_total_bytes

Targets == Urls \cup OffsiteUrls \cup {RootUrl}

ASSUME CrawlAssumption ==
    /\ RootUrl \notin Urls \cup OffsiteUrls /\ Urls \cap OffsiteUrls = {}
    /\ MaxDepth \in Nat /\ MaxDocuments \in Nat \ {0} /\ MaxBytes \in Nat \ {0}
    /\ IsFiniteSet(Urls)

VARIABLES
    phase,      \* "start", "crawl", "closed" (closure claimed), "open"
    links,      \* the link record of a target
    queue,      \* targets to visit, in the order they were discovered
    fetchedUrls,\* seen_documents
    bytes,      \* total_bytes
    entries,    \* discovery state of a family's inventory entry
    limits,     \* limit_reasons
    rootParsed, \* families the parser read from the root page
    captured,   \* targets with a captured document
    onPages     \* (history) families seen on captured pages

crawlVars == <<phase, links, queue, fetchedUrls, bytes, entries, limits,
               rootParsed, captured, onPages>>

States == {"requires_parser", "excluded", "parsed"}
AcceptedResolutions == {"parsed", "explicitly_excluded"}
Resolutions == AcceptedResolutions \cup
    {"none", "pending", "requires_parser", "limit_exceeded", "fetch_failed",
     "fetch_evidence_invalid", "artifact_storage_failed"}
NoLink(u) == [resolution |-> "none", family |-> "none", depth |-> 0]

------------------------------------------------------------------------------
(* Inventory entries and link records *)

Priority(state) == CASE state = "none" -> 0 [] state = "requires_parser" -> 1
                     [] state = "excluded" -> 2 [] state = "parsed" -> 3

\* _merge_catalog_entry: the stronger evidence wins.
Merged(es, family, state) ==
    [es EXCEPT ![family] = IF Priority(state) > Priority(@) THEN state ELSE @]

\* The record add_links makes of a target that has none: an off-site document
\* is excluded, the root's own parse decides a link back to it, any other
\* target is queued.
Discovered(u, family, depth, rootPlans) ==
    [resolution |-> CASE u \in OffsiteUrls -> "explicitly_excluded"
                      [] u = RootUrl /\ family \in rootPlans -> "parsed"
                      [] u = RootUrl /\ family \notin rootPlans -> "requires_parser"
                      [] OTHER -> "pending",
     family |-> family, depth |-> depth]
LinkEvidence(u) == IF u \in OffsiteUrls THEN "excluded" ELSE "requires_parser"

\* Mutant: a link that is known already is queued again.
EveryTarget(found) == DOMAIN found

\* Links of a page: a partial function from targets to families, as
\* inspect_sce_catalog_links keeps one link of a target per page.
NewTargets(found) == {u \in DOMAIN found : links[u].resolution = "none"}
WithLinks(ls, found, depth, rootPlans) ==
    [u \in Targets |-> IF u \in NewTargets(found)
                       THEN Discovered(u, found[u], depth, rootPlans) ELSE ls[u]]

\* discover_sce_catalog: what one page says of a family.  A heading or a plan
\* link makes it a plan, parsed or not; an off-site document excludes it; a
\* parse counts on its own only when no link spoke of the family.
PageEvidence(f, found, headings, plans) ==
    LET linked(targets) == \E u \in DOMAIN found \cap targets : found[u] = f IN
    CASE f \in headings \/ linked(Urls \cup {RootUrl}) ->
            IF f \in plans THEN "parsed" ELSE "requires_parser"
      [] f \notin headings /\ ~linked(Urls \cup {RootUrl}) /\ linked(OffsiteUrls) -> "excluded"
      [] OTHER -> IF f \in plans THEN "parsed" ELSE "none"

\* The entries after a page and its new links: the strongest evidence stays.
EntriesWith(found, headings, plans) ==
    [f \in Families |->
        LET evidence == {entries[f], PageEvidence(f, found, headings, plans)} \cup
                        {LinkEvidence(u) : u \in {t \in NewTargets(found) : found[t] = f}}
        IN  CHOOSE e \in evidence : \A o \in evidence : Priority(o) <= Priority(e)]
Enqueued(found) ==
    SetToSeq({u \in NewTargets(found) : u \in Urls})

------------------------------------------------------------------------------
(* The crawl *)

PartialMaps(targets, families) == UNION {[T -> families] : T \in SUBSET targets}

\* The root page: its links, the families whose primary heading it carries and
\* the families the parser reads from it.
StartCrawl ==
    /\ phase = "start"
    /\ \E found \in PartialMaps(Targets, Families), plans \in SUBSET Families,
          headings \in SUBSET Families, broken \in BOOLEAN :
          /\ broken => found = <<>> /\ headings = {} /\ plans = {}
          /\ links' = WithLinks(links, found, 1, plans)
          /\ entries' = EntriesWith(found, headings, plans)
          /\ queue' = Enqueued(found)
          /\ limits' = {r \in {"root_catalog_index_parse_failed",
                               "root_catalog_index_no_links"} :
                           IF r = "root_catalog_index_parse_failed" THEN broken
                           ELSE found = <<>> /\ plans = {}}
          /\ rootParsed' = plans
          /\ onPages' = {found[u] : u \in DOMAIN found} \cup headings \cup plans
    /\ phase' = "crawl" /\ fetchedUrls' = {RootUrl} /\ bytes' = 1
    /\ captured' = {RootUrl}

Visit == phase = "crawl" /\ queue # <<>>
Resolve(u, resolution) == [links EXCEPT ![u].resolution = resolution]
NextUrl == Head(queue)

WithinDepth(u) == links[u].depth <= MaxDepth
WithinDocuments == Cardinality(fetchedUrls) < MaxDocuments
WithinBytes == bytes < MaxBytes

\* A link beyond a limit is resolved as such and not fetched.
SkipBeyondLimit ==
    /\ Visit
    /\ ~(WithinDepth(NextUrl) /\ WithinDocuments /\ WithinBytes)
    /\ links' = Resolve(NextUrl, "limit_exceeded")
    /\ limits' = limits \cup
          {IF ~WithinDepth(NextUrl) THEN "depth_limit_reached"
           ELSE IF ~WithinDocuments THEN "document_limit_reached"
           ELSE "total_byte_limit_reached"}
    /\ queue' = Tail(queue)
    /\ UNCHANGED <<phase, fetchedUrls, bytes, entries, rootParsed, captured, onPages>>

Fetching ==
    /\ Visit /\ WithinDepth(NextUrl) /\ WithinDocuments /\ WithinBytes
    /\ fetchedUrls' = fetchedUrls \cup {NextUrl}

\* The fetcher refuses a body larger than what is left of the byte limit.
Counted == \E size \in {1, 2} : bytes + size <= MaxBytes /\ bytes' = bytes + size

\* The fetch fails, its evidence is incomplete, or the artifact (counted
\* already) cannot be stored.
FetchFails ==
    /\ Fetching
    /\ \E r \in {"fetch_failed", "fetch_evidence_invalid", "artifact_storage_failed"} :
          /\ links' = Resolve(NextUrl, r)
          /\ IF r = "artifact_storage_failed" THEN Counted ELSE UNCHANGED bytes
    /\ queue' = Tail(queue)
    /\ UNCHANGED <<phase, entries, limits, rootParsed, captured, onPages>>

\* Captured, but no HTML: the plan needs a dedicated parser and is excluded.
CaptureDocument ==
    /\ Fetching
    /\ Counted /\ captured' = captured \cup {NextUrl}
    /\ links' = Resolve(NextUrl, "explicitly_excluded")
    /\ entries' = Merged(entries, links[NextUrl].family, "excluded")
    /\ queue' = Tail(queue)
    /\ UNCHANGED <<phase, limits, rootParsed, onPages>>

\* Captured HTML: its links are of the same family and one level deeper; the
\* link is parsed when the parser reads its family from the page.
CapturePage ==
    /\ Fetching
    /\ Counted /\ captured' = captured \cup {NextUrl}
    /\ \E nested \in SUBSET Targets, read \in BOOLEAN :
          LET family == links[NextUrl].family
              found == [u \in nested |-> family]
              added == WithLinks(links, found, links[NextUrl].depth + 1, rootParsed)
          IN  /\ links' = [added EXCEPT ![NextUrl].resolution =
                              IF read THEN "parsed" ELSE "requires_parser"]
              /\ entries' = EntriesWith(found, {}, IF read THEN {family} ELSE {})
              /\ queue' = Tail(queue) \o Enqueued(found)
              /\ onPages' = onPages \cup {family}
    /\ UNCHANGED <<phase, limits, rootParsed>>

\* Closure is claimed when no limit was hit, every link is accounted for, every
\* entry is parsed or excluded, and there is at least one.
Unresolved == {u \in Targets : links[u].resolution \notin AcceptedResolutions \cup {"none"}}
NeedParser == {f \in Families : entries[f] = "requires_parser"}
Complete ==
    /\ limits = {} /\ bytes <= MaxBytes
    /\ Unresolved = {} /\ NeedParser = {}
    /\ \E f \in Families : entries[f] # "none"
FinishCrawl ==
    /\ phase = "crawl" /\ queue = <<>>
    /\ phase' = IF Complete THEN "closed" ELSE "open"
    /\ UNCHANGED <<links, queue, fetchedUrls, bytes, entries, limits, rootParsed, captured, onPages>>

\* The operation deadline or an unstorable manifest ends the check as failed.
InterruptCrawl ==
    /\ phase = "crawl" /\ phase' = "open"
    /\ queue' = <<>>
    /\ UNCHANGED <<links, fetchedUrls, bytes, entries, limits, rootParsed, captured, onPages>>

CrawlInit ==
    /\ phase = "start" /\ links = [u \in Targets |-> NoLink(u)]
    /\ queue = <<>> /\ fetchedUrls = {} /\ bytes = 0
    /\ entries = [f \in Families |-> "none"] /\ limits = {}
    /\ rootParsed = {} /\ captured = {} /\ onPages = {}

CrawlNext ==
    \/ StartCrawl \/ SkipBeyondLimit \/ FetchFails \/ CaptureDocument
    \/ CapturePage \/ FinishCrawl \/ InterruptCrawl

CrawlSpec == CrawlInit /\ [][CrawlNext]_crawlVars

------------------------------------------------------------------------------
(* Properties *)

CrawlTypeOK ==
    /\ phase \in {"start", "crawl", "closed", "open"}
    /\ links \in [Targets -> [resolution : Resolutions, family : Families \cup {"none"},
                              depth : 0 .. MaxDepth + 1]]
    /\ queue \in Seq(Urls)
    /\ fetchedUrls \subseteq Targets /\ Cardinality(fetchedUrls) <= MaxDocuments
    /\ bytes \in 0 .. MaxBytes
    /\ entries \in [Families -> States \cup {"none"}]
    /\ rootParsed \subseteq Families /\ onPages \subseteq Families
    /\ captured \subseteq Targets

\* While the crawl runs, the links without a resolution are exactly the queued
\* ones, each queued once: pages that link to each other neither lose a link
\* nor have it fetched twice.
PendingLinksAreQueued ==
    phase = "crawl" =>
        /\ {u \in Targets : links[u].resolution = "pending"} = Range(queue)
        /\ IsInjective(queue)

\* A claimed closure covers every captured page: each link found on one leads
\* to a captured document or to a document outside the allowlist, and each
\* family seen on one is in the inventory as parsed or excluded.
ClosureOmitsNothing ==
    phase = "closed" =>
        /\ \A u \in Targets : links[u].resolution # "none" => u \in captured \cup OffsiteUrls
        /\ \A f \in onPages : entries[f] \in {"parsed", "excluded"}

\* The crawl neither loses a link on its way nor claims a closure over a page,
\* a link or a family it has dropped.
CrawlSound ==
    /\ CrawlTypeOK
    /\ PendingLinksAreQueued
    /\ ClosureOmitsNothing
=============================================================================
