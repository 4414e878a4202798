------------------------------- MODULE Content -------------------------------
(***************************************************************************)
(* The content of one website and the snapshot a publish takes of it: the  *)
(* block types, pages, sections and media rows, the handlers that change   *)
(* them and BuildSnapshot (internal/httpapi/handlers_pages,                *)
(* handlers_sectiontypes, handlers_media, internal/publish/snapshot).      *)
(*                                                                         *)
(* Every statement is a transaction of its own, so a handler that reads    *)
(* and then writes is two actions, and BuildSnapshot is one per query.  A  *)
(* check that the statement after it repeats is left out, and a statement  *)
(* that fails changes nothing.  Titles, slugs, order and the settings of   *)
(* the website do not matter here.                                         *)
(***************************************************************************)
EXTENDS SectionTypes

CONSTANTS
  Types,        \* type keys
  Pages,
  Sections,     \* section ids (a bound)
  Requests,     \* requests served at the same time
  Schemas,      \* schemas administrators save
  Contents,     \* contents clients send
  Nil,
  Faults        \* subset of {"db"}: a query may fail

ASSUME ContentAssumption ==
  /\ Nil \notin Pages \cup Types
  /\ Nil \notin Schemas
  /\ Junk \notin Strings
  /\ Media \cap Words = {}
  /\ \A schema \in Schemas, c \in Contents : c # Junk => OneKind(schema, c)
  /\ Faults \subseteq {"db"}

VARIABLES
  types,      \* section_types: status and schema of each key
  pages,      \* status of each page
  sections,   \* the sections table
  media,      \* the rows of media
  requests,   \* what a request read and has yet to write
  build,      \* BuildSnapshot: where it is and what it has gathered
  quiet       \* nothing was edited since BuildSnapshot began

vars == <<types, pages, sections, media, requests, build, quiet>>

NoSection(status) == [page |-> Nil, type |-> Nil, content |-> Nil, status |-> status]
Exists(s) == sections[s].status \in {"visible", "hidden"}

IdleRequest == [op |-> "idle"]
IdleBuild == [pc |-> "idle"]

Init ==
  /\ types = [t \in Types |-> [status |-> "none", schema |-> Nil]]
  /\ pages = [p \in Pages |-> "visible"]
  /\ sections = [s \in Sections |-> NoSection("none")]
  /\ media = Media
  /\ requests = [r \in Requests |-> IdleRequest]
  /\ build = IdleBuild
  /\ quiet = TRUE

-----------------------------------------------------------------------------
(* Block types.  An archived key stays taken and is never active again.     *)

CreateSectionType(t, schema) ==
  /\ ValidateSchema(schema)
  /\ types[t].status = "none"
  /\ types' = [types EXCEPT ![t] = [status |-> "active", schema |-> schema]]
  /\ UNCHANGED <<pages, sections, media, requests>>

UpdateSectionType(t, schema) ==
  /\ ValidateSchema(schema)
  /\ types[t].status = "active"
  /\ types' = [types EXCEPT ![t].schema = schema]
  /\ UNCHANGED <<pages, sections, media, requests>>

\* Variant: hidden sections do not count.
CheckUsageVisible(r, t) ==
  /\ requests[r].op = "idle"
  /\ types[t].status = "active"
  /\ ~\E s \in Sections : /\ Exists(s)
                          /\ sections[s].type = t
                          /\ sections[s].status = "visible"
  /\ requests' = [requests EXCEPT ![r] = [op |-> "archive", type |-> t]]
  /\ UNCHANGED <<types, pages, sections, media>>

\* Archiving: refused while the count of sections is not zero ...
CheckUsage(r, t) ==
  /\ requests[r].op = "idle"
  /\ types[t].status = "active"
  /\ ~\E s \in Sections : Exists(s) /\ sections[s].type = t
  /\ requests' = [requests EXCEPT ![r] = [op |-> "archive", type |-> t]]
  /\ UNCHANGED <<types, pages, sections, media>>

\* ... and done afterwards, whatever exists by then.
ArchiveSectionType(r) ==
  /\ requests[r].op = "archive"
  /\ types' = [types EXCEPT ![requests[r].type].status = "archived"]
  /\ requests' = [requests EXCEPT ![r] = IdleRequest]
  /\ UNCHANGED <<pages, sections, media>>

-----------------------------------------------------------------------------
(* Sections.                                                                *)

\* sectionTypeFields finds an active type; it takes an error for none.
Finds(t) == types[t].status = "active"
Misses(t) == types[t].status # "active" \/ "db" \in Faults

LoadForCreate(r, p, t, c) ==
  /\ requests[r].op = "idle"
  /\ pages[p] # "deleted"
  /\ Finds(t)
  /\ c # Junk
  /\ requests' = [requests EXCEPT ![r] =
       [op |-> "create", page |-> p, type |-> t,
        content |-> NormalizeContent(types[t].schema, c)]]
  /\ UNCHANGED <<types, pages, sections, media>>

\* Variant: the table has no foreign key.
CreateSectionUnchecked(r, s) ==
  /\ requests[r].op = "create"
  /\ sections[s].status = "none"
  /\ sections' = [sections EXCEPT ![s] =
       [page |-> requests[r].page, type |-> requests[r].type,
        content |-> requests[r].content, status |-> "visible"]]
  /\ requests' = [requests EXCEPT ![r] = IdleRequest]
  /\ UNCHANGED <<types, pages, media>>

\* The foreign key refuses a page deleted in the meantime.
CreateSection(r, s) ==
  /\ requests[r].op = "create"
  /\ sections[s].status = "none"
  /\ sections' =
       IF pages[requests[r].page] = "deleted" THEN sections
       ELSE [sections EXCEPT ![s] =
               [page |-> requests[r].page, type |-> requests[r].type,
                content |-> requests[r].content, status |-> "visible"]]
  /\ requests' = [requests EXCEPT ![r] = IdleRequest]
  /\ UNCHANGED <<types, pages, media>>

\* New content is normalized, or kept as it came when no type is found.
LoadForUpdate(r, s, c) ==
  /\ requests[r].op = "idle"
  /\ Exists(s)
  /\ \E content \in
         (IF Finds(sections[s].type) /\ c # Junk
          THEN {NormalizeContent(types[sections[s].type].schema, c)} ELSE {})
         \cup (IF Misses(sections[s].type) THEN {c} ELSE {}) :
       requests' = [requests EXCEPT ![r] =
         [op |-> "update", section |-> s, content |-> content]]
  /\ UNCHANGED <<types, pages, sections, media>>

\* The same request may set a status; that it does shows only here.
UpdateSection(r, status) ==
  /\ requests[r].op = "update"
  /\ LET s == requests[r].section
     IN  sections' = IF Exists(s)
                     THEN [sections EXCEPT ![s].content = requests[r].content,
                                           ![s].status = status]
                     ELSE sections
  /\ requests' = [requests EXCEPT ![r] = IdleRequest]
  /\ UNCHANGED <<types, pages, media>>

SetSectionStatus(s, status) ==
  /\ Exists(s)
  /\ sections' = [sections EXCEPT ![s].status = status]
  /\ UNCHANGED <<types, pages, media, requests>>

DeleteSection(s) ==
  /\ Exists(s)
  /\ sections' = [sections EXCEPT ![s] = NoSection("deleted")]
  /\ UNCHANGED <<types, pages, media, requests>>

-----------------------------------------------------------------------------
(* Pages and media.                                                         *)

SetPageStatus(p, status) ==
  /\ pages[p] # "deleted"
  /\ pages' = [pages EXCEPT ![p] = status]
  /\ UNCHANGED <<types, sections, media, requests>>

\* The sections of a page go with it.
DeletePage(p) ==
  /\ pages[p] # "deleted"
  /\ pages' = [pages EXCEPT ![p] = "deleted"]
  /\ sections' = [s \in Sections |->
       IF Exists(s) /\ sections[s].page = p THEN NoSection("deleted") ELSE sections[s]]
  /\ UNCHANGED <<types, media, requests>>

\* No question is asked about the sections that show it.  Uploads add ids
\* nobody could refer to before, so all media are there from the start.
DeleteMedia(m) ==
  /\ m \in media
  /\ media' = media \ {m}
  /\ UNCHANGED <<types, pages, sections, requests>>

-----------------------------------------------------------------------------
(* BuildSnapshot, query by query.                                           *)

ActiveTypes == {t \in Types : types[t].status = "active"}

ReadTypes ==
  /\ build.pc = "idle"
  /\ build' = [pc |-> "pages", types |-> [t \in ActiveTypes |-> types[t].schema]]
  /\ quiet' = TRUE

ReadPages ==
  /\ build.pc = "pages"
  /\ LET visible == {p \in Pages : pages[p] = "visible"}
     IN  build' = [pc |-> "sections", types |-> build.types,
                   pages |-> visible, left |-> visible, sections |-> {}]
  /\ UNCHANGED quiet

\* Variant: hidden sections are read too.
VisibleOnEver(p) == {s \in Sections : Exists(s) /\ sections[s].page = p}

VisibleOn(p) ==
  {s \in Sections : /\ Exists(s)
                    /\ sections[s].page = p
                    /\ sections[s].status = "visible"}

Block(s) == [id |-> s, page |-> sections[s].page, type |-> sections[s].type,
             content |-> sections[s].content]

ReadSections(p) ==
  /\ build.pc = "sections"
  /\ p \in build.left
  /\ build' = [build EXCEPT !.left = @ \ {p},
                            !.sections = @ \cup {Block(s) : s \in VisibleOn(p)}]
  /\ UNCHANGED quiet

\* The ids of every file a gathered section shows, by the gathered schemas.
Wanted(schemas, blocks) ==
  UNION {CollectMediaIDs(schemas[b.type], b.content) :
           b \in {b \in blocks : b.type \in DOMAIN schemas}}

\* The ids are cast to uuid[]: one that is none makes the query fail.
ReadMedia ==
  /\ build.pc = "sections"
  /\ build.left = {}
  /\ LET ids == Wanted(build.types, build.sections)
     IN  build' = IF ids \subseteq Media
                  THEN [pc |-> "done", types |-> build.types,
                        pages |-> build.pages, sections |-> build.sections,
                        media |-> ids \cap media]
                  ELSE [pc |-> "failed"]
  /\ UNCHANGED quiet

EndBuild ==
  /\ build.pc \in {"done", "failed"}
  /\ build' = IdleBuild
  /\ quiet' = TRUE

-----------------------------------------------------------------------------

Edit ==
  \/ \E t \in Types, schema \in Schemas :
       CreateSectionType(t, schema) \/ UpdateSectionType(t, schema)
  \/ \E r \in Requests, t \in Types : CheckUsage(r, t)
  \/ \E r \in Requests : ArchiveSectionType(r)
  \/ \E r \in Requests, p \in Pages, t \in Types, c \in Contents :
       LoadForCreate(r, p, t, c)
  \/ \E r \in Requests, s \in Sections : CreateSection(r, s)
  \/ \E r \in Requests, s \in Sections, c \in Contents : LoadForUpdate(r, s, c)
  \/ \E r \in Requests, st \in {"visible", "hidden"} : UpdateSection(r, st)
  \/ \E s \in Sections : \/ \E st \in {"visible", "hidden"} : SetSectionStatus(s, st)
                         \/ DeleteSection(s)
  \/ \E p \in Pages : \/ \E st \in {"visible", "hidden"} : SetPageStatus(p, st)
                      \/ DeletePage(p)
  \/ \E m \in Media : DeleteMedia(m)

BuildSnapshot ==
  \/ ReadTypes
  \/ ReadPages
  \/ \E p \in Pages : ReadSections(p)
  \/ ReadMedia
  \/ EndBuild

Next ==
  \/ Edit /\ UNCHANGED build /\ quiet' = (build.pc = "idle")
  \/ BuildSnapshot /\ UNCHANGED <<types, pages, sections, media, requests>>

Spec == Init /\ [][Next]_vars

-----------------------------------------------------------------------------
(* Properties.                                                              *)

TypeOK ==
  /\ types \in [Types -> [status : {"none", "active", "archived"},
                          schema : Schemas \cup {Nil}]]
  /\ \A t \in Types : types[t].status # "none" =>
       \A k \in DOMAIN types[t].schema : \A sub \in DOMAIN types[t].schema[k].fields :
         ~IsList(types[t].schema[k].fields[sub])
  /\ pages \in [Pages -> {"visible", "hidden", "deleted"}]
  /\ \A s \in Sections : Exists(s) =>
       /\ sections[s].page \in Pages
       /\ sections[s].type \in Types
       /\ sections[s].status \in {"visible", "hidden"}
  /\ media \subseteq Media
  /\ \A r \in Requests :
       requests[r].op \in {"idle", "archive", "create", "update"}
  /\ build.pc \in {"idle", "pages", "sections", "done", "failed"}
  /\ build.pc = "done" => build.media \subseteq Media
  /\ quiet \in BOOLEAN

\* A section's page exists, although creation checks it before the INSERT
\* and a page may be deleted in between.
NoOrphanSection ==
  \A s \in Sections : Exists(s) => pages[sections[s].page] # "deleted"

\* "Refused while sections still use it, so pages never reference a missing
\* schema": no section is of an archived type.
ArchivedUnused ==
  \A s \in Sections : Exists(s) => types[sections[s].type].status = "active"

\* No request stands between the count and the UPDATE of an archiving while
\* another stands between the look-up of the same type and its INSERT.
NoRace ==
  \A q, r \in Requests :
    requests[q].op = "archive" /\ requests[r].op = "create" =>
      requests[q].type # requests[r].type

\* Whatever was edited while it was built, a snapshot holds every file its
\* own sections show under its own schemas, unless the file is deleted: "the
\* generator needs no DB access".
SelfContained ==
  build.pc = "done" =>
    \A b \in build.sections :
      b.type \in DOMAIN build.types =>
        RenderedImages(build.types[b.type], b.content) \cap media
          \subseteq build.media

Shows(t, content) == RenderedImages(types[t].schema, content)

\* What a request keeps of the content it was sent shows the same files as
\* that content: dropping the keys a schema does not define drops nothing that
\* the generator or a snapshot would look up under it (NormalizeContent).
SavingKeepsFiles ==
  [][\A r \in Requests, c \in Contents :
       /\ \A p \in Pages, t \in Types :
            LoadForCreate(r, p, t, c) => Shows(t, requests'[r].content) = Shows(t, c)
       /\ \A s \in Sections :
            LoadForUpdate(r, s, c) =>
              LET t == sections[s].type
              IN  Shows(t, requests'[r].content) = Shows(t, c)]_vars

\* What the website shows at one moment.
Published(s) ==
  /\ Exists(s)
  /\ sections[s].status = "visible"
  /\ pages[sections[s].page] = "visible"

Shown(m) ==
  \E s \in Sections :
    /\ Published(s)
    /\ types[sections[s].type].status = "active"
    /\ m \in RenderedImages(types[sections[s].type].schema, sections[s].content)

\* A snapshot built while nobody edits is exactly the visible website.
QuietSnapshotExact ==
  build.pc = "done" /\ quiet =>
    /\ build.types = [t \in ActiveTypes |-> types[t].schema]
    /\ build.pages = {p \in Pages : pages[p] = "visible"}
    /\ build.sections = {Block(s) : s \in {s \in Sections : Published(s)}}
    /\ build.media = {m \in media : Shown(m)}

\* "which keeps stored content strictly structured": what handlers accept and
\* store never makes a build fail, neither the query for its media nor the
\* rendering of a block.
ContentBuilds ==
  /\ build.pc # "failed"
  /\ build.pc = "done" =>
       \A b \in build.sections : b.type \in DOMAIN build.types => Renders(b.content)
=============================================================================
