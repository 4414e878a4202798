---------------------------- MODULE ContentProofs ----------------------------
(***************************************************************************)
(* Proofs about Content, for any sets of types, pages, sections, requests, *)
(* schemas and contents: a section never outlives its page; a snapshot     *)
(* holds every file it shows, whatever is edited while it is built, and is *)
(* exactly the visible website when nothing is.                            *)
(***************************************************************************)
EXTENDS Content, TLAPS

\* A string a rendered block asks for is one CollectMediaIDs finds: the
\* generator and the snapshot read content alike.
LEMMA RenderedAreCollected ==
  ASSUME NEW schema, NEW content
  PROVE  RenderedImages(schema, content) \subseteq CollectMediaIDs(schema, content)
<1>1. SUFFICES ASSUME NEW id \in RenderedImages(schema, content)
               PROVE  id \in CollectMediaIDs(schema, content)
  OBVIOUS
<1>2. id \in Strings /\ content # Junk
  BY <1>1 DEF RenderedImages, Renders
<1>3. PICK k \in DOMAIN schema \cap DOMAIN content :
        \/ schema[k].type = "image" /\ content[k] = id
        \/ /\ IsList(schema[k])
           /\ \E i \in DOMAIN Items(content[k]) :
                \E sub \in DOMAIN schema[k].fields \cap
                           DOMAIN Object(Items(content[k])[i]) :
                  /\ schema[k].fields[sub].type = "image"
                  /\ Object(Items(content[k])[i])[sub] = id
  BY <1>1 DEF RenderedImages, Renders
<1>4. CASE schema[k].type = "image" /\ content[k] = id
  <2>1. id \in ImagesOf(schema, content)
    BY <1>2, <1>3, <1>4 DEF ImagesOf
  <2> QED
    BY <1>2, <2>1 DEF CollectMediaIDs
<1>5. CASE IsList(schema[k]) /\ ~(schema[k].type = "image" /\ content[k] = id)
  <2>1. PICK i \in DOMAIN Items(content[k]) :
          \E sub \in DOMAIN schema[k].fields \cap DOMAIN Object(Items(content[k])[i]) :
            /\ schema[k].fields[sub].type = "image"
            /\ Object(Items(content[k])[i])[sub] = id
    BY <1>3, <1>5
  <2>2. id \in ImagesOf(schema[k].fields, Object(Items(content[k])[i]))
    BY <1>2, <2>1 DEF ImagesOf
  <2> DEFINE lists == {l \in DOMAIN schema \cap DOMAIN content : IsList(schema[l])}
             images(l) == {ImagesOf(schema[l].fields, Object(Items(content[l])[j])) :
                             j \in DOMAIN Items(content[l])}
  <2>3. k \in lists
    BY <1>3, <1>5
  <2>4. id \in UNION images(k)
    BY <2>1, <2>2
  <2> HIDE DEF images, lists
  <2>5. id \in UNION (UNION {images(l) : l \in lists})
    BY <2>3, <2>4
  <2> QED
    BY <1>2, <2>5 DEF CollectMediaIDs, lists, images
<1> QED
  BY <1>3, <1>4, <1>5

\* And conversely: what it finds is shown.
LEMMA CollectedAreRendered ==
  ASSUME NEW schema, NEW content
  PROVE  CollectMediaIDs(schema, content) \subseteq RenderedImages(schema, content)
<1>1. SUFFICES ASSUME NEW id \in CollectMediaIDs(schema, content)
               PROVE  id \in RenderedImages(schema, content)
  OBVIOUS
<1>2. content # Junk
  BY <1>1 DEF CollectMediaIDs
<1> DEFINE lists == {l \in DOMAIN schema \cap DOMAIN content : IsList(schema[l])}
           images(l) == {ImagesOf(schema[l].fields, Object(Items(content[l])[j])) :
                           j \in DOMAIN Items(content[l])}
<1>3. id \in ImagesOf(schema, content) \/ id \in UNION (UNION {images(l) : l \in lists})
  BY <1>1, <1>2 DEF CollectMediaIDs
<1>4. CASE id \in ImagesOf(schema, content)
  BY <1>2, <1>4 DEF ImagesOf, RenderedImages, Renders
<1>5. CASE id \in UNION (UNION {images(l) : l \in lists})
  <2> HIDE DEF images, lists
  <2>1. PICK l \in lists : id \in UNION images(l)
    BY <1>5
  <2>2. l \in DOMAIN schema \cap DOMAIN content /\ IsList(schema[l])
    BY DEF lists
  <2>3. PICK i \in DOMAIN Items(content[l]) :
          id \in ImagesOf(schema[l].fields, Object(Items(content[l])[i]))
    BY <2>1 DEF images
  <2>4. PICK sub \in DOMAIN schema[l].fields \cap DOMAIN Object(Items(content[l])[i]) :
          /\ schema[l].fields[sub].type = "image"
          /\ Object(Items(content[l])[i])[sub] = id /\ id \in Strings
    BY <2>3 DEF ImagesOf
  <2> QED
    BY <1>2, <2>2, <2>4 DEF RenderedImages, Renders
<1> QED
  BY <1>3, <1>4, <1>5

\* Edits leave a snapshot alone and add no file.
LEMMA EditKeepsBuild ==
  ASSUME Edit, UNCHANGED build
  PROVE  build' = build /\ media' \subseteq media
BY DEF Edit, CreateSectionType, UpdateSectionType, CheckUsage,
       ArchiveSectionType, LoadForCreate, CreateSection, LoadForUpdate,
       UpdateSection, SetSectionStatus, DeleteSection, SetPageStatus,
       DeletePage, DeleteMedia

\* SelfContained depends on the snapshot and the files only, and losing a
\* file cannot break it.
LEMMA FewerFilesSuffice ==
  ASSUME SelfContained, build' = build, media' \subseteq media
  PROVE  SelfContained'
<1>1. SUFFICES ASSUME build'.pc = "done", NEW b \in build'.sections,
                      b.type \in DOMAIN build'.types
               PROVE  RenderedImages(build'.types[b.type], b.content) \cap media'
                        \subseteq build'.media
  BY DEF SelfContained
<1>2. RenderedImages(build.types[b.type], b.content) \cap media \subseteq build.media
  BY <1>1 DEF SelfContained
<1> QED
  BY <1>2

\* The last query finds the files of every gathered section.
LEMMA ReadMediaFinds ==
  ASSUME ReadMedia, UNCHANGED media
  PROVE  SelfContained'
<1> DEFINE ids == Wanted(build.types, build.sections)
<1>1. SUFFICES ASSUME build'.pc = "done", NEW b \in build'.sections,
                      b.type \in DOMAIN build'.types
               PROVE  RenderedImages(build'.types[b.type], b.content) \cap media'
                        \subseteq build'.media
  BY DEF SelfContained
<1>2. /\ build'.types = build.types
      /\ build'.sections = build.sections
      /\ build'.media = ids \cap media
  BY <1>1 DEF ReadMedia
<1>3. RenderedImages(build.types[b.type], b.content)
        \subseteq CollectMediaIDs(build.types[b.type], b.content)
  BY <1>1, RenderedAreCollected
<1>4. CollectMediaIDs(build.types[b.type], b.content) \subseteq ids
  BY <1>1, <1>2 DEF Wanted
<1> QED
  BY <1>2, <1>3, <1>4

\* Whatever is edited while it is built, a finished snapshot holds every file
\* its own sections show under its own schemas, unless the file was deleted.
THEOREM SnapshotSelfContained == Spec => []SelfContained
<1>1. Init => SelfContained
  BY DEF Init, IdleBuild, SelfContained
<1>2. SelfContained /\ [Next]_vars => SelfContained'
  <2> SUFFICES ASSUME SelfContained, [Next]_vars PROVE SelfContained'
    OBVIOUS
  <2>1. CASE UNCHANGED vars
    BY <2>1, FewerFilesSuffice DEF vars
  <2>2. CASE Edit /\ UNCHANGED build
    BY <2>2, EditKeepsBuild, FewerFilesSuffice
  <2>3. CASE BuildSnapshot /\ UNCHANGED media
    <3>1. CASE ReadMedia
      BY <2>3, <3>1, ReadMediaFinds
    <3>2. CASE ReadTypes \/ ReadPages \/ EndBuild
      <4>1. build'.pc # "done"
        BY <3>2 DEF ReadTypes, ReadPages, EndBuild, IdleBuild
      <4> QED
        BY <4>1 DEF SelfContained
    <3>3. CASE \E p \in Pages : ReadSections(p)
      <4>1. build'.pc # "done"
        BY <3>3 DEF ReadSections
      <4> QED
        BY <4>1 DEF SelfContained
    <3> QED
      BY <2>3, <3>1, <3>2, <3>3 DEF BuildSnapshot
  <2> QED
    BY <2>1, <2>2, <2>3 DEF Next
<1> QED
  BY <1>1, <1>2, PTL DEF Spec

-----------------------------------------------------------------------------
(* A section never outlives its page.                                       *)

\* The shape of the tables, as far as pages and sections go.
PagesType == pages \in [Pages -> {"visible", "hidden", "deleted"}]
IsRow(x) == x = [page |-> x.page, type |-> x.type, content |-> x.content,
                 status |-> x.status]
SectionsType ==
  /\ sections = [s \in Sections |-> sections[s]]
  /\ \A s \in Sections : IsRow(sections[s])
Placed == \A s \in Sections : Exists(s) => sections[s].page \in Pages
RequestsType ==
  /\ requests = [r \in Requests |-> requests[r]]
  /\ \A r \in Requests : requests[r].op = "create" => requests[r].page \in Pages

\* The inductive invariant.
PageInv == PagesType /\ SectionsType /\ Placed /\ RequestsType /\ NoOrphanSection

\* A section that comes into being, or stays, has a page that is there.
LEMMA TablesUntouched ==
  ASSUME PageInv, UNCHANGED <<pages, sections, requests>>
  PROVE  PageInv'
BY DEF PageInv, PagesType, SectionsType, IsRow, Placed, RequestsType,
       NoOrphanSection, Exists

\* Requests come and go without touching the tables.
LEMMA RequestOnly ==
  ASSUME PageInv, UNCHANGED <<pages, sections>>, RequestsType'
  PROVE  PageInv'
BY DEF PageInv, PagesType, SectionsType, IsRow, Placed, NoOrphanSection, Exists

\* Only rows that exist on pages that are there need be looked at.
LEMMA SectionChange ==
  ASSUME PageInv, RequestsType', UNCHANGED pages, SectionsType',
         \A s \in Sections : Exists(s)' =>
            \/ Exists(s) /\ sections'[s].page = sections[s].page
            \/ sections'[s].page \in Pages /\ pages[sections'[s].page] # "deleted"
  PROVE  PageInv'
BY DEF PageInv, PagesType, Placed, NoOrphanSection, Exists

LEMMA OneRequestEnds ==
  ASSUME RequestsType, NEW r \in Requests,
         requests' = [requests EXCEPT ![r] = IdleRequest]
  PROVE  RequestsType'
BY DEF RequestsType, IdleRequest

LEMMA SectionActionsKeepPages ==
  ASSUME PageInv,
         \/ \E r \in Requests, s \in Sections : CreateSection(r, s)
         \/ \E r \in Requests, st \in {"visible", "hidden"} : UpdateSection(r, st)
         \/ \E s \in Sections, st \in {"visible", "hidden"} : SetSectionStatus(s, st)
         \/ \E s \in Sections : DeleteSection(s)
  PROVE  PageInv'
<1> USE DEF PageInv
<1>1. ASSUME NEW r \in Requests, NEW s \in Sections, CreateSection(r, s)
      PROVE  PageInv'
  <2>1. RequestsType'
    BY <1>1, OneRequestEnds DEF CreateSection
  <2>2. CASE pages[requests[r].page] = "deleted"
    <3>1. UNCHANGED <<pages, sections>>
      BY <1>1, <2>2 DEF CreateSection
    <3> QED
      BY <2>1, <3>1, RequestOnly
  <2>3. CASE pages[requests[r].page] # "deleted"
    <3>1. /\ requests[r].page \in Pages
          /\ sections' = [sections EXCEPT ![s] =
                            [page |-> requests[r].page, type |-> requests[r].type,
                             content |-> requests[r].content, status |-> "visible"]]
          /\ UNCHANGED pages
      BY <1>1, <2>3 DEF CreateSection, RequestsType
    <3>2. SectionsType'
      BY <3>1 DEF SectionsType, IsRow
    <3> QED
      BY <2>1, <2>3, <3>1, <3>2, SectionChange DEF SectionsType, Exists
  <2> QED
    BY <2>2, <2>3
<1>2. ASSUME NEW r \in Requests, NEW st \in {"visible", "hidden"},
             UpdateSection(r, st)
      PROVE  PageInv'
  <2>1. RequestsType' /\ UNCHANGED pages
    BY <1>2, OneRequestEnds DEF UpdateSection
  <2>2. CASE ~Exists(requests[r].section)
    BY <1>2, <2>1, <2>2, RequestOnly DEF UpdateSection
  <2>3. CASE Exists(requests[r].section)
    <3> DEFINE s == requests[r].section
    <3>1. sections' = [sections EXCEPT ![s].content = requests[r].content,
                                       ![s].status = st]
      BY <1>2, <2>3 DEF UpdateSection
    <3>2. SectionsType'
      BY <3>1 DEF SectionsType, IsRow
    <3>3. \A x \in Sections : Exists(x)' =>
            Exists(x) /\ sections'[x].page = sections[x].page
      BY <2>3, <3>1 DEF SectionsType, IsRow, Exists
    <3> QED
      BY <2>1, <3>2, <3>3, SectionChange
  <2> QED
    BY <2>2, <2>3
<1>3. ASSUME NEW s \in Sections, NEW st \in {"visible", "hidden"},
             SetSectionStatus(s, st)
      PROVE  PageInv'
  <2>1. RequestsType' /\ UNCHANGED pages
    BY <1>3 DEF SetSectionStatus, RequestsType
  <2>2. SectionsType'
    BY <1>3 DEF SetSectionStatus, SectionsType, IsRow
  <2>3. \A x \in Sections : Exists(x)' =>
          Exists(x) /\ sections'[x].page = sections[x].page
    BY <1>3 DEF SetSectionStatus, SectionsType, IsRow, Exists
  <2> QED
    BY <2>1, <2>2, <2>3, SectionChange
<1>4. ASSUME NEW s \in Sections, DeleteSection(s)
      PROVE  PageInv'
  <2>1. RequestsType' /\ UNCHANGED pages
    BY <1>4 DEF DeleteSection, RequestsType
  <2>2. SectionsType'
    BY <1>4 DEF DeleteSection, NoSection, SectionsType, IsRow
  <2>3. \A x \in Sections : Exists(x)' =>
          Exists(x) /\ sections'[x].page = sections[x].page
    BY <1>4 DEF DeleteSection, NoSection, SectionsType, Exists
  <2> QED
    BY <2>1, <2>2, <2>3, SectionChange
<1> QED
  BY <1>1, <1>2, <1>3, <1>4

\* Deleting a page deletes its sections with it; a status never brings back
\* a deleted page.
LEMMA PageActionsKeepPages ==
  ASSUME PageInv,
         \/ \E p \in Pages, st \in {"visible", "hidden"} : SetPageStatus(p, st)
         \/ \E p \in Pages : DeletePage(p)
  PROVE  PageInv'
<1>1. ASSUME NEW p \in Pages, NEW st \in {"visible", "hidden"},
             SetPageStatus(p, st)
      PROVE  PageInv'
  BY <1>1 DEF SetPageStatus, PageInv, PagesType, SectionsType, IsRow, Placed,
              RequestsType, NoOrphanSection, Exists
<1>2. ASSUME NEW p \in Pages, DeletePage(p)
      PROVE  PageInv'
  <2>1. PagesType' /\ RequestsType'
    BY <1>2 DEF DeletePage, PageInv, PagesType, RequestsType
  <2>2. SectionsType'
    BY <1>2 DEF DeletePage, PageInv, SectionsType, IsRow, NoSection
  <2>3. \A s \in Sections : Exists(s)' =>
          /\ Exists(s)
          /\ sections'[s].page = sections[s].page
          /\ sections[s].page # p
    BY <1>2 DEF DeletePage, NoSection, Exists
  <2>4. Placed'
    BY <2>3 DEF PageInv, Placed
  <2>5. NoOrphanSection'
    BY <1>2, <2>3 DEF DeletePage, PageInv, PagesType, Placed, NoOrphanSection
  <2> QED
    BY <2>1, <2>2, <2>4, <2>5 DEF PageInv
<1> QED
  BY <1>1, <1>2

LEMMA PagesStay == Spec => []PageInv
<1>1. Init => PageInv
  BY DEF Init, NoSection, IdleRequest, PageInv, PagesType, SectionsType, IsRow,
         Placed, RequestsType, NoOrphanSection, Exists
<1>2. PageInv /\ [Next]_vars => PageInv'
  <2> SUFFICES ASSUME PageInv, [Next]_vars PROVE PageInv'
    OBVIOUS
  <2>1. CASE UNCHANGED vars \/ UNCHANGED <<pages, sections, requests>>
    BY <2>1, TablesUntouched DEF vars
  <2>2. CASE Edit
    <3>1. CASE \/ \E t \in Types, schema \in Schemas :
                    CreateSectionType(t, schema) \/ UpdateSectionType(t, schema)
               \/ \E m \in Media : DeleteMedia(m)
      BY <3>1, TablesUntouched
         DEF CreateSectionType, UpdateSectionType, DeleteMedia
    <3>2. CASE \E r \in Requests, t \in Types : CheckUsage(r, t)
      <4>1. RequestsType'
        BY <3>2 DEF CheckUsage, PageInv, RequestsType
      <4> QED
        BY <3>2, <4>1, RequestOnly DEF CheckUsage
    <3>3. CASE \E r \in Requests : ArchiveSectionType(r)
      <4>1. RequestsType' /\ UNCHANGED <<pages, sections>>
        BY <3>3, OneRequestEnds DEF ArchiveSectionType, PageInv
      <4> QED
        BY <4>1, RequestOnly
    <3>4. CASE \E r \in Requests, p \in Pages, t \in Types, c \in Contents :
                 LoadForCreate(r, p, t, c)
      <4>1. RequestsType' /\ UNCHANGED <<pages, sections>>
        BY <3>4 DEF LoadForCreate, PageInv, RequestsType
      <4> QED
        BY <4>1, RequestOnly
    <3>5. CASE \E r \in Requests, s \in Sections, c \in Contents :
                 LoadForUpdate(r, s, c)
      <4>1. RequestsType' /\ UNCHANGED <<pages, sections>>
        BY <3>5 DEF LoadForUpdate, PageInv, RequestsType
      <4> QED
        BY <4>1, RequestOnly
    <3>6. CASE \/ \E r \in Requests, s \in Sections : CreateSection(r, s)
               \/ \E r \in Requests, st \in {"visible", "hidden"} :
                    UpdateSection(r, st)
               \/ \E s \in Sections, st \in {"visible", "hidden"} :
                    SetSectionStatus(s, st)
               \/ \E s \in Sections : DeleteSection(s)
      BY <3>6, SectionActionsKeepPages
    <3>7. CASE \/ \E p \in Pages, st \in {"visible", "hidden"} :
                    SetPageStatus(p, st)
               \/ \E p \in Pages : DeletePage(p)
      BY <3>7, PageActionsKeepPages
    <3> QED
      BY <2>2, <3>1, <3>2, <3>3, <3>4, <3>5, <3>6, <3>7 DEF Edit
  <2> QED
    BY <2>1, <2>2 DEF Next
<1> QED
  BY <1>1, <1>2, PTL DEF Spec

\* A section's page is always there: deleting a page takes its sections along
\* and the foreign key refuses one that a request, having checked the page
\* before, inserts too late.
THEOREM SectionsHavePages == Spec => []NoOrphanSection
<1>1. PageInv => NoOrphanSection
  BY DEF PageInv
<1> QED
  BY <1>1, PagesStay, PTL

-----------------------------------------------------------------------------
(* Types.                                                                   *)

TypesType == types \in [Types -> [status : {"none", "active", "archived"},
                                  schema : Schemas \cup {Nil}]]

\* List items hold no lists.
FlatSchema(schema) ==
  \A k \in DOMAIN schema : \A sub \in DOMAIN schema[k].fields :
    ~IsList(schema[k].fields[sub])

FlatTypes == \A t \in Types : types[t].status # "none" => FlatSchema(types[t].schema)

Typed == \A s \in Sections : Exists(s) => sections[s].type \in Types

RequestsTyped ==
  \A r \in Requests :
    /\ requests[r].op \in {"idle", "archive", "create", "update"}
    /\ requests[r].op \in {"archive", "create"} => requests[r].type \in Types
    /\ requests[r].op = "archive" => types[requests[r].type].status # "none"

\* What a build holds at each point.
BuildType ==
  \/ build.pc = "idle"
  \/ build = [pc |-> "pages", types |-> build.types]
  \/ build = [pc |-> "sections", types |-> build.types, pages |-> build.pages,
              left |-> build.left, sections |-> build.sections]
  \/ /\ build = [pc |-> "done", types |-> build.types, pages |-> build.pages,
                 sections |-> build.sections, media |-> build.media]
     /\ build.media \subseteq Media
  \/ build.pc = "failed"

TypeInv ==
  /\ TypesType /\ FlatTypes /\ Typed /\ RequestsTyped /\ BuildType
  /\ media \subseteq Media /\ quiet \in BOOLEAN

\* ValidateSchema lets no list into a list.
LEMMA ValidIsFlat ==
  ASSUME NEW schema, ValidateSchema(schema)
  PROVE  FlatSchema(schema)
<1> SUFFICES ASSUME NEW k \in DOMAIN schema, NEW sub \in DOMAIN schema[k].fields
             PROVE  ~IsList(schema[k].fields[sub])
  BY DEF FlatSchema
<1>1. CASE schema[k] \in PlainField
  <2>1. schema[k].fields = <<>>
    BY <1>1 DEF PlainField, NoFields
  <2> QED
    BY <2>1
<1>2. CASE \A x \in DOMAIN schema[k].fields : schema[k].fields[x] \in PlainField
  BY <1>2 DEF PlainField, IsList
<1> QED
  BY <1>1, <1>2 DEF ValidateSchema

LEMMA SchemaKeepsTypes ==
  ASSUME TypesType, FlatTypes, NEW t \in Types, NEW schema \in Schemas,
         CreateSectionType(t, schema) \/ UpdateSectionType(t, schema)
  PROVE  /\ TypesType' /\ FlatTypes'
         /\ \A u \in Types : types[u].status # "none" => types'[u].status # "none"
<1>1. FlatSchema(schema)
  BY ValidIsFlat DEF CreateSectionType, UpdateSectionType
<1>2. /\ types'[t].status = "active" /\ types'[t].schema = schema
      /\ \A u \in Types : u # t => types'[u] = types[u]
      /\ TypesType'
  BY DEF CreateSectionType, UpdateSectionType, TypesType
<1> QED
  BY <1>1, <1>2 DEF FlatTypes

\* Only a schema that is saved, a request that ends and a section that comes
\* into being touch these parts.
LEMMA EditKeepsTypes ==
  ASSUME TypeInv, PageInv, Edit
  PROVE  /\ TypesType' /\ FlatTypes' /\ Typed' /\ RequestsTyped'
         /\ media' \subseteq Media
<1> USE DEF TypeInv
<1>1. CASE \E t \in Types, schema \in Schemas :
             CreateSectionType(t, schema) \/ UpdateSectionType(t, schema)
  <2>1. UNCHANGED <<sections, media, requests>>
    BY <1>1 DEF CreateSectionType, UpdateSectionType
  <2> QED
    BY <1>1, <2>1, SchemaKeepsTypes DEF Typed, RequestsTyped, Exists
<1>2. CASE \E r \in Requests, t \in Types : CheckUsage(r, t)
  BY <1>2 DEF CheckUsage, PageInv, RequestsType, TypesType, FlatTypes, Typed,
              RequestsTyped, Exists
<1>3. CASE \E r \in Requests : ArchiveSectionType(r)
  <2> PICK r \in Requests : ArchiveSectionType(r)
    BY <1>3
  <2>1. requests[r].type \in Types
    BY DEF ArchiveSectionType, RequestsTyped
  <2>2. /\ TypesType' /\ types[requests[r].type].status # "none"
        /\ \A u \in Types : /\ types'[u].schema = types[u].schema
                            /\ types'[u].status \in {types[u].status, "archived"}
                            /\ u # requests[r].type => types'[u] = types[u]
    BY <2>1 DEF ArchiveSectionType, TypesType, RequestsTyped
  <2>3. FlatTypes'
    BY <2>1, <2>2 DEF FlatTypes
  <2>4. \A q \in Requests : requests'[q] = requests[q] \/ requests'[q].op = "idle"
    BY DEF ArchiveSectionType, PageInv, RequestsType, IdleRequest
  <2>5. RequestsTyped'
    BY <2>2, <2>4 DEF RequestsTyped
  <2> QED
    BY <2>2, <2>3, <2>5 DEF ArchiveSectionType, Typed, Exists
<1>4. CASE \E r \in Requests, p \in Pages, t \in Types, c \in Contents :
             LoadForCreate(r, p, t, c)
  BY <1>4 DEF LoadForCreate, PageInv, RequestsType, TypesType, FlatTypes, Typed,
              RequestsTyped, Exists
<1>5. CASE \E r \in Requests, s \in Sections, c \in Contents : LoadForUpdate(r, s, c)
  <2> PICK r \in Requests, s \in Sections, c \in Contents : LoadForUpdate(r, s, c)
    BY <1>5
  <2>1. PICK content : requests' = [requests EXCEPT ![r] =
                         [op |-> "update", section |-> s, content |-> content]]
    BY DEF LoadForUpdate
  <2>2. \A q \in Requests : requests'[q] = requests[q] \/ requests'[q].op = "update"
    BY <2>1 DEF PageInv, RequestsType
  <2>3. UNCHANGED <<types, sections, media>>
    BY DEF LoadForUpdate
  <2>4. RequestsTyped'
    BY <2>2, <2>3 DEF RequestsTyped
  <2> QED
    BY <2>3, <2>4 DEF TypesType, FlatTypes, Typed, Exists
<1>6. CASE \E r \in Requests, s \in Sections : CreateSection(r, s)
  <2> PICK r \in Requests, s \in Sections : CreateSection(r, s)
    BY <1>6
  <2>1. requests[r].type \in Types
    BY DEF CreateSection, RequestsTyped
  <2>2. \A x \in Sections : sections'[x] = sections[x] \/ sections'[x].type = requests[r].type
    BY DEF CreateSection, PageInv, SectionsType
  <2>3. Typed'
    BY <2>1, <2>2 DEF Typed, Exists
  <2>4. RequestsTyped'
    BY DEF CreateSection, PageInv, RequestsType, RequestsTyped, IdleRequest
  <2> QED
    BY <2>3, <2>4 DEF CreateSection, TypesType, FlatTypes
<1>7. CASE \E r \in Requests, st \in {"visible", "hidden"} : UpdateSection(r, st)
  <2> PICK r \in Requests, st \in {"visible", "hidden"} : UpdateSection(r, st)
    BY <1>7
  <2>1. RequestsTyped'
    BY DEF UpdateSection, PageInv, RequestsType, RequestsTyped, IdleRequest
  <2>2. \A x \in Sections : Exists(x)' => Exists(x) /\ sections'[x].type = sections[x].type
    BY DEF UpdateSection, PageInv, SectionsType, IsRow, Exists
  <2> QED
    BY <2>1, <2>2 DEF UpdateSection, TypesType, FlatTypes, Typed
<1>8. CASE \E s \in Sections : \/ \E st \in {"visible", "hidden"} : SetSectionStatus(s, st)
                             \/ DeleteSection(s)
  <2>1. \A x \in Sections : Exists(x)' => Exists(x) /\ sections'[x].type = sections[x].type
    BY <1>8 DEF SetSectionStatus, DeleteSection, NoSection, PageInv, SectionsType, IsRow, Exists
  <2> QED
    BY <1>8, <2>1 DEF SetSectionStatus, DeleteSection, TypesType, FlatTypes, Typed, RequestsTyped
<1>9. CASE \/ \E p \in Pages : \/ \E st \in {"visible", "hidden"} : SetPageStatus(p, st)
                              \/ DeletePage(p)
           \/ \E m \in Media : DeleteMedia(m)
  <2>1. \A x \in Sections : Exists(x)' => Exists(x) /\ sections'[x] = sections[x]
    BY <1>9 DEF SetPageStatus, DeletePage, DeleteMedia, NoSection, Exists
  <2>2. UNCHANGED <<types, requests>> /\ media' \subseteq media
    BY <1>9 DEF SetPageStatus, DeletePage, DeleteMedia
  <2> QED
    BY <2>1, <2>2 DEF TypesType, FlatTypes, Typed, RequestsTyped
<1> QED
  BY <1>1, <1>2, <1>3, <1>4, <1>5, <1>6, <1>7, <1>8, <1>9 DEF Edit

LEMMA BuildKeepsType ==
  ASSUME TypeInv, BuildSnapshot
  PROVE  BuildType' /\ quiet' \in BOOLEAN
<1>1. CASE \E p \in Pages : ReadSections(p)
  <2> PICK p \in Pages : ReadSections(p)
    BY <1>1
  <2>1. build = [pc |-> "sections", types |-> build.types, pages |-> build.pages,
                 left |-> build.left, sections |-> build.sections]
    BY DEF ReadSections, TypeInv, BuildType
  <2>2. build' = [pc |-> "sections", types |-> build.types, pages |-> build.pages,
                  left |-> build.left \ {p},
                  sections |-> build.sections \cup {Block(s) : s \in VisibleOn(p)}]
    BY <2>1 DEF ReadSections
  <2> QED
    BY <2>2 DEF ReadSections, TypeInv, BuildType
<1>2. CASE ReadMedia
  <2>1. BuildType'
    BY <1>2 DEF ReadMedia, BuildType
  <2> QED
    BY <1>2, <2>1 DEF ReadMedia, TypeInv
<1>3. CASE ReadTypes
  BY <1>3 DEF ReadTypes, BuildType
<1>4. CASE ReadPages
  <2>1. BuildType'
    BY <1>4 DEF ReadPages, BuildType
  <2> QED
    BY <1>4, <2>1 DEF ReadPages, TypeInv
<1>5. CASE EndBuild
  BY <1>5 DEF EndBuild, IdleBuild, BuildType
<1> QED
  BY <1>1, <1>2, <1>3, <1>4, <1>5 DEF BuildSnapshot

LEMMA TypesStay == Spec => []TypeInv
<1>1. Init => TypeInv
  BY DEF Init, NoSection, IdleRequest, IdleBuild, TypeInv, TypesType, FlatTypes, Typed,
         RequestsTyped, BuildType, Exists
<1>2. TypeInv /\ PageInv /\ [Next]_vars => TypeInv'
  <2> SUFFICES ASSUME TypeInv, PageInv, [Next]_vars PROVE TypeInv'
    OBVIOUS
  <2>1. CASE Edit /\ UNCHANGED build /\ quiet' = (build.pc = "idle")
    <3>1. BuildType' /\ quiet' \in BOOLEAN
      BY <2>1 DEF TypeInv, BuildType
    <3> QED
      BY <2>1, <3>1, EditKeepsTypes DEF TypeInv
  <2>2. CASE BuildSnapshot /\ UNCHANGED <<types, pages, sections, media, requests>>
    BY <2>2, BuildKeepsType DEF TypeInv, TypesType, FlatTypes, Typed, RequestsTyped, Exists
  <2>3. CASE UNCHANGED vars
    BY <2>3 DEF vars, TypeInv, TypesType, FlatTypes, Typed, RequestsTyped, BuildType, Exists
  <2> QED
    BY <2>1, <2>2, <2>3 DEF Next
<1> QED
  BY <1>1, <1>2, PagesStay, PTL DEF Spec

\* Whatever is edited and built, every table, request and snapshot has its
\* shape, and the fields of list items are plain (ValidateSchema).
THEOREM ContentTypeCorrect == Spec => []TypeOK
<1>1. TypeInv /\ PageInv => TypeOK
  BY DEF TypeInv, TypesType, FlatTypes, FlatSchema, Typed, RequestsTyped, BuildType,
         PageInv, PagesType, Placed, Exists, TypeOK
<1> QED
  BY <1>1, TypesStay, PagesStay, PTL

-----------------------------------------------------------------------------
(* A snapshot built while nobody edits.                                     *)

\* What a build has gathered so far is what the website shows.
Exact ==
  quiet =>
    /\ build.pc \in {"pages", "sections", "done"} =>
         build.types = [t \in ActiveTypes |-> types[t].schema]
    /\ build.pc \in {"sections", "done"} =>
         build.pages = {p \in Pages : pages[p] = "visible"}
    /\ build.pc = "sections" =>
         /\ build.left \subseteq build.pages
         /\ build.sections =
              {Block(s) : s \in {s \in Sections :
                                  Published(s) /\ sections[s].page \notin build.left}}
    /\ build.pc = "done" =>
         /\ build.sections = {Block(s) : s \in {s \in Sections : Published(s)}}
         /\ build.media = {m \in media : Shown(m)}

\* The ids the snapshot asks for are those the website shows.
LEMMA WantedAreShown ==
  ASSUME Typed, NEW m,
         NEW schemas, schemas = [t \in ActiveTypes |-> types[t].schema],
         NEW blocks, blocks = {Block(s) : s \in {s \in Sections : Published(s)}}
  PROVE  m \in Wanted(schemas, blocks) <=> Shown(m)
<1>1. ASSUME m \in Wanted(schemas, blocks) PROVE Shown(m)
  <2>1. PICK b \in blocks : b.type \in DOMAIN schemas
                           /\ m \in CollectMediaIDs(schemas[b.type], b.content)
    BY <1>1 DEF Wanted
  <2>2. PICK s \in Sections : Published(s) /\ b = Block(s)
    BY <2>1
  <2>3. b.type = sections[s].type /\ b.content = sections[s].content
    BY <2>2 DEF Block
  <2>4. sections[s].type \in Types /\ types[sections[s].type].status = "active"
    BY <2>1, <2>3 DEF ActiveTypes
  <2>5. schemas[b.type] = types[sections[s].type].schema
    BY <2>1, <2>3
  <2>6. m \in RenderedImages(types[sections[s].type].schema, sections[s].content)
    BY <2>1, <2>3, <2>5, CollectedAreRendered
  <2> QED
    BY <2>2, <2>4, <2>6 DEF Shown
<1>2. ASSUME Shown(m) PROVE m \in Wanted(schemas, blocks)
  <2>1. PICK s \in Sections :
          /\ Published(s) /\ types[sections[s].type].status = "active"
          /\ m \in RenderedImages(types[sections[s].type].schema, sections[s].content)
    BY <1>2 DEF Shown
  <2>2. sections[s].type \in ActiveTypes
    BY <2>1 DEF Published, Typed, ActiveTypes
  <2>3. /\ Block(s) \in blocks
        /\ Block(s).type = sections[s].type /\ Block(s).content = sections[s].content
    BY <2>1 DEF Block
  <2>4. Block(s).type \in DOMAIN schemas
    BY <2>2, <2>3
  <2>5. m \in CollectMediaIDs(schemas[Block(s).type], Block(s).content)
    BY <2>1, <2>2, <2>3, RenderedAreCollected
  <2> QED
    BY <2>3, <2>4, <2>5 DEF Wanted
<1> QED
  BY <1>1, <1>2

\* Steps of the build leave the tables alone, and with them what is shown.
LEMMA ReadSectionsExact ==
  ASSUME BuildType, Exact, NEW p \in Pages, ReadSections(p),
         UNCHANGED <<types, pages, sections, media>>
  PROVE  Exact'
<1> SUFFICES ASSUME quiet PROVE Exact'
  BY DEF ReadSections, Exact
<1>1. build = [pc |-> "sections", types |-> build.types, pages |-> build.pages,
               left |-> build.left, sections |-> build.sections]
  BY DEF ReadSections, BuildType
<1>2. build' = [pc |-> "sections", types |-> build.types, pages |-> build.pages,
                left |-> build.left \ {p},
                sections |-> build.sections \cup {Block(s) : s \in VisibleOn(p)}]
  BY <1>1 DEF ReadSections
<1>3. p \in build.left /\ build.pc = "sections"
  BY DEF ReadSections
<1>4. pages[p] = "visible"
  BY <1>3 DEF Exact
<1>5. {s \in Sections : Published(s) /\ sections[s].page \notin build.left \ {p}}
        = {s \in Sections : Published(s) /\ sections[s].page \notin build.left} \cup VisibleOn(p)
  BY <1>3, <1>4 DEF Published, VisibleOn
<1>6. build'.sections =
        {Block(s) : s \in {s \in Sections :
                            Published(s) /\ sections[s].page \notin build.left \ {p}}}
  BY <1>2, <1>3, <1>5 DEF Exact
<1> QED
  BY <1>1, <1>2, <1>3, <1>6 DEF Exact, ActiveTypes, Published, Exists, Block

LEMMA ReadMediaExact ==
  ASSUME BuildType, Typed, media \subseteq Media, Exact, ReadMedia,
         UNCHANGED <<types, pages, sections, media>>
  PROVE  Exact'
<1> SUFFICES ASSUME quiet, build'.pc = "done" PROVE Exact'
  BY DEF ReadMedia, Exact
<1>1. /\ build'.types = build.types /\ build'.pages = build.pages
      /\ build'.sections = build.sections
      /\ build'.media = Wanted(build.types, build.sections) \cap media
      /\ build.pc = "sections" /\ build.left = {}
  BY DEF ReadMedia
<1>2. /\ build.types = [t \in ActiveTypes |-> types[t].schema]
      /\ build.sections = {Block(s) : s \in {s \in Sections : Published(s)}}
      /\ build.pages = {p \in Pages : pages[p] = "visible"}
  BY <1>1 DEF Exact
<1>3. build'.media = {m \in media : Shown(m)}
  BY <1>1, <1>2, WantedAreShown
<1> QED
  BY <1>1, <1>2, <1>3 DEF Exact, ActiveTypes, Published, Shown, Exists, Block

LEMMA BuildExact ==
  ASSUME TypeInv, PageInv, Exact, BuildSnapshot,
         UNCHANGED <<types, pages, sections, media, requests>>
  PROVE  Exact'
<1>1. CASE ReadTypes
  BY <1>1 DEF ReadTypes, Exact, ActiveTypes
<1>2. CASE ReadPages
  <2> SUFFICES ASSUME quiet PROVE Exact'
    BY <1>2 DEF ReadPages, Exact
  <2> DEFINE visible == {p \in Pages : pages[p] = "visible"}
  <2>1. build' = [pc |-> "sections", types |-> build.types, pages |-> visible,
                  left |-> visible, sections |-> {}] /\ build.pc = "pages"
    BY <1>2 DEF ReadPages
  <2>2. {s \in Sections : Published(s) /\ sections[s].page \notin visible} = {}
    BY DEF Published, PageInv, Placed
  <2> QED
    BY <2>1, <2>2 DEF Exact, ActiveTypes, Published, Exists, Block
<1>3. CASE \E p \in Pages : ReadSections(p)
  BY <1>3, ReadSectionsExact DEF TypeInv
<1>4. CASE ReadMedia
  BY <1>4, ReadMediaExact DEF TypeInv
<1>5. CASE EndBuild
  BY <1>5 DEF EndBuild, IdleBuild, Exact
<1> QED
  BY <1>1, <1>2, <1>3, <1>4, <1>5 DEF BuildSnapshot

\* A snapshot built while nobody edits is exactly the visible website: its
\* active types, its visible pages, their visible sections and the files
\* those show (BuildSnapshot).
THEOREM QuietSnapshotsAreExact == Spec => []QuietSnapshotExact
<1>1. Init => Exact
  BY DEF Init, IdleBuild, Exact
<1>2. TypeInv /\ PageInv /\ Exact /\ [Next]_vars => Exact'
  <2> SUFFICES ASSUME TypeInv, PageInv, Exact, [Next]_vars PROVE Exact'
    OBVIOUS
  <2>1. CASE Edit /\ UNCHANGED build /\ quiet' = (build.pc = "idle")
    BY <2>1 DEF Exact
  <2>2. CASE BuildSnapshot /\ UNCHANGED <<types, pages, sections, media, requests>>
    BY <2>2, BuildExact
  <2>3. CASE UNCHANGED vars
    BY <2>3 DEF vars, Exact, ActiveTypes, Published, Shown, Exists, Block
  <2> QED
    BY <2>1, <2>2, <2>3 DEF Next
<1>3. Exact => QuietSnapshotExact
  BY DEF Exact, QuietSnapshotExact
<1> QED
  BY <1>1, <1>2, <1>3, TypesStay, PagesStay, PTL DEF Spec

-----------------------------------------------------------------------------
(* Archived types, however many requests are served, short of the one race. *)

\* What a request has checked is still so.
ChecksHold ==
  \A r \in Requests :
    /\ requests[r].op = "create" => types[requests[r].type].status = "active"
    /\ requests[r].op = "archive" =>
         ~\E s \in Sections : Exists(s) /\ sections[s].type = requests[r].type

\* Sections that stay and types that stay active break neither.
LEMMA NothingNew ==
  ASSUME TypeInv, ArchivedUnused, ChecksHold,
         \A t \in Types : types[t].status = "active" => types'[t].status = "active",
         \A s \in Sections : Exists(s)' => Exists(s) /\ sections'[s].type = sections[s].type,
         \A r \in Requests :
           \/ requests'[r] = requests[r]
           \/ requests'[r].op \in {"idle", "update"}
           \/ requests'[r].op = "create" /\ types'[requests'[r].type].status = "active"
           \/ /\ requests'[r].op = "archive"
              /\ ~\E s \in Sections : Exists(s) /\ sections[s].type = requests'[r].type
  PROVE  ArchivedUnused' /\ ChecksHold'
<1>1. ArchivedUnused'
  BY DEF TypeInv, Typed, ArchivedUnused
<1>2. ASSUME NEW r \in Requests, requests'[r].op = "create"
      PROVE  types'[requests'[r].type].status = "active"
  BY <1>2 DEF TypeInv, RequestsTyped, ChecksHold
<1>3. ASSUME NEW r \in Requests, requests'[r].op = "archive", NEW s \in Sections, Exists(s)'
      PROVE  sections'[s].type # requests'[r].type
  BY <1>3 DEF ChecksHold
<1> QED
  BY <1>1, <1>2, <1>3 DEF ChecksHold

LEMMA EditHoldsChecks ==
  ASSUME TypeInv, PageInv, ArchivedUnused, ChecksHold, Edit, NoRace
  PROVE  ArchivedUnused' /\ ChecksHold'
<1>1. CASE \E t \in Types, schema \in Schemas :
             CreateSectionType(t, schema) \/ UpdateSectionType(t, schema)
  <2>1. \A t \in Types : types[t].status = "active" => types'[t].status = "active"
    BY <1>1 DEF CreateSectionType, UpdateSectionType, TypeInv, TypesType
  <2>2. UNCHANGED <<sections, requests>>
    BY <1>1 DEF CreateSectionType, UpdateSectionType
  <2> QED
    BY <2>1, <2>2, NothingNew DEF Exists
<1>2. CASE \E r \in Requests, t \in Types : CheckUsage(r, t)
  <2> PICK r \in Requests, t \in Types : CheckUsage(r, t)
    BY <1>2
  <2>1. \A q \in Requests : \/ requests'[q] = requests[q]
                            \/ requests'[q].op = "archive" /\ requests'[q].type = t
    BY DEF CheckUsage, PageInv, RequestsType
  <2> QED
    BY <2>1, NothingNew DEF CheckUsage, Exists
<1>3. CASE \E r \in Requests : ArchiveSectionType(r)
  <2> PICK r \in Requests : ArchiveSectionType(r)
    BY <1>3
  <2> DEFINE t == requests[r].type
  <2>1. /\ t \in Types /\ ~\E s \in Sections : Exists(s) /\ sections[s].type = t
        /\ UNCHANGED sections
    BY DEF ArchiveSectionType, TypeInv, RequestsTyped, ChecksHold
  <2>2. \A u \in Types : u # t => types'[u] = types[u]
    BY DEF ArchiveSectionType, TypeInv, TypesType
  <2>3. \A q \in Requests : requests'[q] = requests[q] \/ requests'[q].op = "idle"
    BY DEF ArchiveSectionType, PageInv, RequestsType, IdleRequest
  <2>4. ArchivedUnused'
    BY <2>1, <2>2 DEF ArchivedUnused, TypeInv, Typed, Exists
  <2>5. ASSUME NEW q \in Requests, requests'[q].op = "create"
        PROVE  types'[requests'[q].type].status = "active"
    <3>1. requests'[q] = requests[q] /\ requests[q].op = "create"
      BY <2>3, <2>5
    <3>2. requests[q].type # t /\ requests[q].type \in Types
      BY <3>1 DEF NoRace, ArchiveSectionType, TypeInv, RequestsTyped
    <3> QED
      BY <2>2, <3>1, <3>2 DEF ChecksHold
  <2>6. ASSUME NEW q \in Requests, requests'[q].op = "archive"
        PROVE  ~\E s \in Sections : Exists(s)' /\ sections'[s].type = requests'[q].type
    BY <2>1, <2>3, <2>6 DEF ChecksHold, Exists
  <2> QED
    BY <2>4, <2>5, <2>6 DEF ChecksHold
<1>4. CASE \E r \in Requests, p \in Pages, t \in Types, c \in Contents :
             LoadForCreate(r, p, t, c)
  <2> PICK r \in Requests, p \in Pages, t \in Types, c \in Contents : LoadForCreate(r, p, t, c)
    BY <1>4
  <2>1. \A q \in Requests : \/ requests'[q] = requests[q]
                            \/ requests'[q].op = "create" /\ requests'[q].type = t
    BY DEF LoadForCreate, PageInv, RequestsType
  <2> QED
    BY <2>1, NothingNew DEF LoadForCreate, Finds, Exists
<1>5. CASE \E r \in Requests, s \in Sections, c \in Contents : LoadForUpdate(r, s, c)
  <2> PICK r \in Requests, s \in Sections, c \in Contents : LoadForUpdate(r, s, c)
    BY <1>5
  <2>1. PICK content : requests' = [requests EXCEPT ![r] =
                         [op |-> "update", section |-> s, content |-> content]]
    BY DEF LoadForUpdate
  <2>2. \A q \in Requests : requests'[q] = requests[q] \/ requests'[q].op = "update"
    BY <2>1 DEF PageInv, RequestsType
  <2> QED
    BY <2>2, NothingNew DEF LoadForUpdate, Exists
<1>6. CASE \E r \in Requests, s \in Sections : CreateSection(r, s)
  <2> PICK r \in Requests, s \in Sections : CreateSection(r, s)
    BY <1>6
  <2>1. \A q \in Requests : requests'[q] = requests[q] \/ requests'[q].op = "idle"
    BY DEF CreateSection, PageInv, RequestsType, IdleRequest
  <2>2. types[requests[r].type].status = "active" /\ UNCHANGED types
    BY DEF CreateSection, ChecksHold
  <2>3. \A x \in Sections : sections'[x] = sections[x] \/ sections'[x].type = requests[r].type
    BY DEF CreateSection, PageInv, SectionsType
  <2>4. ArchivedUnused'
    BY <2>2, <2>3 DEF ArchivedUnused, Exists
  <2>5. ASSUME NEW q \in Requests, requests'[q].op = "create"
        PROVE  types'[requests'[q].type].status = "active"
    BY <2>1, <2>2, <2>5 DEF ChecksHold
  <2>6. ASSUME NEW q \in Requests, requests'[q].op = "archive",
               NEW x \in Sections, Exists(x)'
        PROVE  sections'[x].type # requests'[q].type
    <3>1. requests'[q] = requests[q] /\ requests[q].op = "archive"
      BY <2>1, <2>6
    <3>2. requests[q].type # requests[r].type
      BY <3>1 DEF NoRace, CreateSection
    <3> QED
      BY <2>3, <2>6, <3>1, <3>2 DEF ChecksHold, Exists
  <2> QED
    BY <2>4, <2>5, <2>6 DEF ChecksHold
<1>7. CASE \E r \in Requests, st \in {"visible", "hidden"} : UpdateSection(r, st)
  <2> PICK r \in Requests, st \in {"visible", "hidden"} : UpdateSection(r, st)
    BY <1>7
  <2>1. \A q \in Requests : requests'[q] = requests[q] \/ requests'[q].op = "idle"
    BY DEF UpdateSection, PageInv, RequestsType, IdleRequest
  <2>2. \A x \in Sections : Exists(x)' => Exists(x) /\ sections'[x].type = sections[x].type
    BY DEF UpdateSection, PageInv, SectionsType, IsRow, Exists
  <2> QED
    BY <2>1, <2>2, NothingNew DEF UpdateSection
<1>8. CASE \E s \in Sections : \/ \E st \in {"visible", "hidden"} : SetSectionStatus(s, st)
                             \/ DeleteSection(s)
  <2>1. \A x \in Sections : Exists(x)' => Exists(x) /\ sections'[x].type = sections[x].type
    BY <1>8 DEF SetSectionStatus, DeleteSection, NoSection, PageInv, SectionsType, IsRow, Exists
  <2> QED
    BY <1>8, <2>1, NothingNew DEF SetSectionStatus, DeleteSection
<1>9. CASE \/ \E p \in Pages : \/ \E st \in {"visible", "hidden"} : SetPageStatus(p, st)
                              \/ DeletePage(p)
           \/ \E m \in Media : DeleteMedia(m)
  <2>1. \A x \in Sections : Exists(x)' => Exists(x) /\ sections'[x].type = sections[x].type
    BY <1>9 DEF SetPageStatus, DeletePage, DeleteMedia, NoSection, Exists
  <2>2. UNCHANGED <<types, requests>>
    BY <1>9 DEF SetPageStatus, DeletePage, DeleteMedia
  <2> QED
    BY <2>1, <2>2, NothingNew
<1> QED
  BY <1>1, <1>2, <1>3, <1>4, <1>5, <1>6, <1>7, <1>8, <1>9 DEF Edit

\* Of all that any number of requests may do at once, and however statements
\* fail, one race alone brings a section of an archived type about: a creation
\* between its look-up and its INSERT while the archiving of that type is
\* between its count and its UPDATE (handleArchiveSectionType).  Updates,
\* deletions and archivings that overlap do no harm.
THEOREM OneRaceDefeatsArchiving == Spec /\ []NoRace => []ArchivedUnused
<1>1. Init => ArchivedUnused /\ ChecksHold
  BY DEF Init, NoSection, IdleRequest, ArchivedUnused, ChecksHold, Exists
<1>2. TypeInv /\ PageInv /\ NoRace /\ (ArchivedUnused /\ ChecksHold) /\ [Next]_vars
        => (ArchivedUnused /\ ChecksHold)'
  <2> SUFFICES ASSUME TypeInv, PageInv, NoRace, ArchivedUnused, ChecksHold, [Next]_vars
               PROVE  ArchivedUnused' /\ ChecksHold'
    OBVIOUS
  <2>1. CASE Edit
    BY <2>1, EditHoldsChecks
  <2>2. CASE UNCHANGED <<types, sections, requests>>
    BY <2>2 DEF ArchivedUnused, ChecksHold, Exists
  <2> QED
    BY <2>1, <2>2 DEF Next, vars
<1> QED
  BY <1>1, <1>2, TypesStay, PagesStay, PTL DEF Spec
-----------------------------------------------------------------------------
(* What is stored of a content.                                             *)

LEMMA Kept ==
  ASSUME NEW schema, NEW data
  PROVE  LET left == NormalizeContent(schema, data)
         IN  /\ DOMAIN left = Stored(schema, data)
             /\ \A k \in Stored(schema, data) :
                  /\ ~IsList(schema[k]) => left[k] = data[k]
                  /\ IsList(schema[k]) => left[k] =
                       [i \in DOMAIN Items(data[k]) |->
                          NormalizeItem(schema[k].fields, Object(Items(data[k])[i]))]
BY DEF NormalizeContent

\* The items that a lookup finds in what is left of a list.
LEMMA KeptItems ==
  ASSUME NEW schema, NEW data, OneKind(schema, data),
         NEW k \in Stored(schema, data), IsList(schema[k])
  PROVE  LET list == NormalizeContent(schema, data)[k]
         IN  /\ Items(list) = list
             /\ DOMAIN list = DOMAIN Items(data[k])
             /\ \A i \in DOMAIN list :
                  Object(list[i]) = NormalizeItem(schema[k].fields, Object(Items(data[k])[i]))
<1> DEFINE list == NormalizeContent(schema, data)[k]
<1>1. list \notin Strings /\ \A i \in DOMAIN list : list[i] # Junk
  BY DEF OneKind
<1>2. list = [i \in DOMAIN Items(data[k]) |->
                NormalizeItem(schema[k].fields, Object(Items(data[k])[i]))]
  BY Kept
<1>3. DOMAIN list = DOMAIN Items(data[k])
  BY <1>2
<1>4. \A i \in DOMAIN list :
        list[i] = NormalizeItem(schema[k].fields, Object(Items(data[k])[i]))
  BY <1>2
<1> HIDE DEF list
<1>5. Items(list) = list /\ \A i \in DOMAIN list : Object(list[i]) = list[i]
  BY <1>1 DEF Items, Object
<1> QED BY <1>3, <1>4, <1>5 DEF list

\* No image field of an item is dropped.
LEMMA ItemImages ==
  ASSUME NEW fields, NEW item, NEW sub, fields[sub].type = "image"
  PROVE  LET left == NormalizeItem(fields, item)
         IN  /\ sub \in DOMAIN fields \cap DOMAIN left <=> sub \in DOMAIN fields \cap DOMAIN item
             /\ sub \in DOMAIN fields \cap DOMAIN item => left[sub] = item[sub]
BY DEF NormalizeItem, Stored

\* Under its schema, what is stored of a content shows the files it showed.
LEMMA StoredShowsSame ==
  ASSUME NEW schema, NEW data, data # Junk, OneKind(schema, data)
  PROVE  RenderedImages(schema, NormalizeContent(schema, data)) = RenderedImages(schema, data)
<1> DEFINE left == NormalizeContent(schema, data)
           Item(c, k, i) == Object(Items(c[k])[i])
           InItem(c, k, id) ==
             \E i \in DOMAIN Items(c[k]) :
               \E sub \in DOMAIN schema[k].fields \cap DOMAIN Item(c, k, i) :
                 schema[k].fields[sub].type = "image" /\ Item(c, k, i)[sub] = id
           At(c, k, id) ==
             \/ schema[k].type = "image" /\ c[k] = id
             \/ IsList(schema[k]) /\ InItem(c, k, id)
<1>1. \A c : c # Junk =>
        RenderedImages(schema, c) =
          {id \in Strings : \E k \in DOMAIN schema \cap DOMAIN c : At(c, k, id)}
  BY DEF RenderedImages, Renders
<1>2. left # Junk
  BY DEF OneKind
<1>3. ASSUME NEW k \in Stored(schema, data), NEW id, IsList(schema[k])
      PROVE  InItem(left, k, id) <=> InItem(data, k, id)
  <2>1. /\ DOMAIN Items(left[k]) = DOMAIN Items(data[k])
        /\ \A i \in DOMAIN Items(data[k]) :
             Item(left, k, i) = NormalizeItem(schema[k].fields, Item(data, k, i))
    BY <1>3, KeptItems
  <2>2. ASSUME NEW i \in DOMAIN Items(data[k]), NEW sub,
               schema[k].fields[sub].type = "image"
        PROVE  /\ sub \in DOMAIN schema[k].fields \cap DOMAIN Item(left, k, i)
                    <=> sub \in DOMAIN schema[k].fields \cap DOMAIN Item(data, k, i)
               /\ sub \in DOMAIN schema[k].fields \cap DOMAIN Item(data, k, i)
                    => Item(left, k, i)[sub] = Item(data, k, i)[sub]
    BY <2>1, <2>2, ItemImages
  <2> HIDE DEF Item, left
  <2> QED BY <2>1, <2>2
<1>4. ASSUME NEW k \in Stored(schema, data), NEW id
      PROVE  At(left, k, id) <=> At(data, k, id)
  <2>1. schema[k].type = "image" => ~IsList(schema[k])
    BY DEF IsList
  <2>2. ~IsList(schema[k]) => left[k] = data[k]
    BY DEF NormalizeContent
  <2> HIDE DEF InItem, left
  <2> QED BY <1>3, <2>1, <2>2
<1>5. DOMAIN left = Stored(schema, data)
  BY Kept
<1>6. ASSUME NEW k \in DOMAIN schema \cap DOMAIN data, NEW id, At(data, k, id)
      PROVE  k \in Stored(schema, data)
  BY <1>6 DEF IsList, Stored
<1>7. \A id : (\E k \in DOMAIN schema \cap DOMAIN left : At(left, k, id))
                <=> \E k \in DOMAIN schema \cap DOMAIN data : At(data, k, id)
  <2>1. Stored(schema, data) \subseteq DOMAIN schema \cap DOMAIN data
    BY DEF Stored
  <2> HIDE DEF At, left
  <2> QED BY <1>4, <1>5, <1>6, <2>1
<1> HIDE DEF At, left
<1> QED BY <1>1, <1>2, <1>7 DEF left

\* Theorem: storing what was stored changes nothing (NormalizeContent, of what
\* a client read and sends back).
THEOREM NormalizeTwice ==
  ASSUME NEW schema, NEW data, OneKind(schema, data)
  PROVE  NormalizeContent(schema, NormalizeContent(schema, data))
           = NormalizeContent(schema, data)
<1> DEFINE left == NormalizeContent(schema, data)
           twice == NormalizeContent(schema, left)
<1>1. DOMAIN left = Stored(schema, data)
  BY Kept
<1>2. Stored(schema, left) = Stored(schema, data)
  BY <1>1 DEF Stored
<1>3. ASSUME NEW k \in Stored(schema, data)
      PROVE  twice[k] = left[k]
  <2>1. CASE ~IsList(schema[k])
    <3>1. left[k] = data[k]
      BY <2>1 DEF NormalizeContent
    <3> HIDE DEF left
    <3>2. twice[k] = left[k]
      BY <1>2, <2>1 DEF NormalizeContent
    <3> QED BY <3>2
  <2>2. CASE IsList(schema[k])
    <3>1. /\ Items(left[k]) = left[k]
          /\ DOMAIN left[k] = DOMAIN Items(data[k])
          /\ \A i \in DOMAIN left[k] :
               Object(left[k][i]) = NormalizeItem(schema[k].fields, Object(Items(data[k])[i]))
      BY <2>2, KeptItems
    <3>2. twice[k] = [i \in DOMAIN left[k] |->
                        NormalizeItem(schema[k].fields, Object(left[k][i]))]
      BY <1>2, <2>2, <3>1, Kept
    <3>3. left[k] = [i \in DOMAIN left[k] |->
                       NormalizeItem(schema[k].fields, Object(Items(data[k])[i]))]
      BY <2>2, <3>1, Kept
    <3>4. \A fields, item : NormalizeItem(fields, NormalizeItem(fields, item))
                              = NormalizeItem(fields, item)
      BY DEF NormalizeItem, Stored
    <3> HIDE DEF left, twice
    <3>5. \A i \in DOMAIN left[k] :
            NormalizeItem(schema[k].fields, Object(left[k][i]))
              = NormalizeItem(schema[k].fields, Object(Items(data[k])[i]))
      BY <3>1, <3>4
    <3> QED BY <3>2, <3>3, <3>5
  <2> QED BY <2>1, <2>2
<1>4. /\ twice = [k \in Stored(schema, data) |-> twice[k]]
      /\ left = [k \in Stored(schema, data) |-> left[k]]
  BY <1>2 DEF NormalizeContent
<1> HIDE DEF left, twice
<1>5. twice = left
  BY <1>3, <1>4
<1> QED BY <1>5 DEF left, twice

\* An active type has a schema that was saved.
SchemasSaved == \A t \in Types : types[t].status = "active" => types[t].schema \in Schemas

LEMMA SchemasStay == TypeInv /\ SchemasSaved /\ [Next]_vars => SchemasSaved'
<1> SUFFICES ASSUME TypeInv, SchemasSaved, [Next]_vars PROVE SchemasSaved'
  OBVIOUS
<1> USE DEF TypeInv, TypesType
<1>1. ASSUME NEW t \in Types, NEW schema \in Schemas,
             CreateSectionType(t, schema) \/ UpdateSectionType(t, schema)
      PROVE  SchemasSaved'
  BY <1>1 DEF CreateSectionType, UpdateSectionType, SchemasSaved
<1>2. ASSUME NEW r \in Requests, ArchiveSectionType(r)
      PROVE  SchemasSaved'
  BY <1>2 DEF ArchiveSectionType, SchemasSaved
<1>3. CASE UNCHANGED types
  BY <1>3 DEF SchemasSaved
<1>4. Edit => \/ \E t \in Types, schema \in Schemas :
                   CreateSectionType(t, schema) \/ UpdateSectionType(t, schema)
              \/ \E r \in Requests : ArchiveSectionType(r)
              \/ UNCHANGED types
  BY DEF Edit, CheckUsage, LoadForCreate, CreateSection, LoadForUpdate, UpdateSection,
         SetSectionStatus, DeleteSection, SetPageStatus, DeletePage, DeleteMedia
<1> QED BY <1>1, <1>2, <1>3, <1>4 DEF Next, vars

\* The action of SavingKeepsFiles.
Keeps ==
  \A r \in Requests, c \in Contents :
    /\ \A p \in Pages, t \in Types :
         LoadForCreate(r, p, t, c) => Shows(t, requests'[r].content) = Shows(t, c)
    /\ \A s \in Sections :
         LoadForUpdate(r, s, c) =>
           LET t == sections[s].type
           IN  Shows(t, requests'[r].content) = Shows(t, c)

LEMMA ActiveShowsSame ==
  ASSUME SchemasSaved, NEW t \in Types, Finds(t), NEW c \in Contents, c # Junk
  PROVE  Shows(t, NormalizeContent(types[t].schema, c)) = Shows(t, c)
<1>1. types[t].schema \in Schemas
  BY DEF SchemasSaved, Finds
<1>2. OneKind(types[t].schema, c)
  BY <1>1, ContentAssumption
<1> QED BY <1>2, StoredShowsSame DEF Shows

LEMMA LoadsKeep ==
  ASSUME SchemasSaved, TypeInv, PageInv
  PROVE  Keeps
<1> USE DEF PageInv, RequestsType
<1>1. ASSUME NEW r \in Requests, NEW c \in Contents, NEW p \in Pages, NEW t \in Types,
             LoadForCreate(r, p, t, c)
      PROVE  Shows(t, requests'[r].content) = Shows(t, c)
  <2>1. requests'[r].content = NormalizeContent(types[t].schema, c) /\ Finds(t) /\ c # Junk
    BY <1>1 DEF LoadForCreate
  <2> QED BY <2>1, ActiveShowsSame
<1>2. ASSUME NEW r \in Requests, NEW c \in Contents, NEW s \in Sections,
             LoadForUpdate(r, s, c)
      PROVE  Shows(sections[s].type, requests'[r].content) = Shows(sections[s].type, c)
  <2> DEFINE t == sections[s].type
  <2>1. t \in Types
    BY <1>2 DEF LoadForUpdate, TypeInv, Typed
  <2>2. PICK content \in {c, NormalizeContent(types[t].schema, c)} :
          /\ content = c \/ (Finds(t) /\ c # Junk
                               /\ content = NormalizeContent(types[t].schema, c))
          /\ requests' = [requests EXCEPT ![r] =
                            [op |-> "update", section |-> s, content |-> content]]
    BY <1>2 DEF LoadForUpdate
  <2>3. requests'[r].content = content
    BY <2>2
  <2> HIDE DEF t
  <2>4. Shows(t, content) = Shows(t, c)
    BY <2>1, <2>2, ActiveShowsSame
  <2> QED BY <2>3, <2>4 DEF t
<1> QED BY <1>1, <1>2 DEF Keeps

\* Theorem: for any schemas and contents, and any edits between a request's
\* query and its write, what the request keeps shows the files it was sent.
THEOREM SavedFilesAreShown == Spec => SavingKeepsFiles
<1>1. Init => SchemasSaved
  BY DEF Init, SchemasSaved
<1>2. TypeInv /\ SchemasSaved /\ [Next]_vars => SchemasSaved'
  BY SchemasStay
<1>3. SchemasSaved /\ TypeInv /\ PageInv => [Keeps]_vars
  BY LoadsKeep
<1>4. SchemasSaved /\ TypeInv /\ PageInv =>
        [\A r \in Requests, c \in Contents :
           /\ \A p \in Pages, t \in Types :
                LoadForCreate(r, p, t, c) => Shows(t, requests'[r].content) = Shows(t, c)
           /\ \A s \in Sections :
                LoadForUpdate(r, s, c) =>
                  LET t == sections[s].type
                  IN  Shows(t, requests'[r].content) = Shows(t, c)]_vars
  BY <1>3 DEF Keeps
<1> QED BY <1>1, <1>2, <1>4, TypesStay, PagesStay, PTL DEF Spec, SavingKeepsFiles
=============================================================================
