----------------------------- MODULE FilesProofs -----------------------------
(***************************************************************************)
(* Safety of the files a server keeps, for every number of previews,       *)
(* uploads, ticks and failures.                                            *)
(***************************************************************************)
EXTENDS Files, TLAPS

USE ProcessAssumption, CacheAssumption, PreviewAssumption

Entries == [count : 0 .. MaxLogins + 1, left : Int \cup {Forever}]
Dirs == [files : {"none", "part", "all"}, age : 0 .. KeepDirs + 1]

LEMMA EntryType ==
  ASSUME NEW count \in 0 .. MaxLogins + 1, NEW left \in Int \cup {Forever}
  PROVE  Entry(count, left) \in Entries
BY DEF Entry, Entries

LEMMA AbsentType == Absent \in Entries
BY EntryType DEF Absent

LEMMA DirType ==
  ASSUME NEW files \in {"none", "part", "all"}, NEW age \in 0 .. KeepDirs + 1
  PROVE  Dir(files, age) \in Dirs
BY DEF Dir, Dirs

LEMMA NoDirType == NoDir \in Dirs
BY DEF NoDir, Dirs

\* Time leaves an entry an entry.
LEMMA AgedType ==
  ASSUME NEW entry \in Entries
  PROVE  Aged(entry) \in Entries
<1>1. CASE ~Fresh(entry) \/ entry.left = Forever
  BY <1>1 DEF Aged
<1>2. CASE Fresh(entry) /\ entry.left # Forever /\ backend = "redis" /\ entry.left = 1
  BY <1>2, AbsentType DEF Aged
<1>3. CASE Fresh(entry) /\ entry.left # Forever /\ ~(backend = "redis" /\ entry.left = 1)
  BY <1>3 DEF Aged, Entries
<1> QED BY <1>1, <1>2, <1>3

\* An increment leaves an entry an entry.
LEMMA HitType ==
  ASSUME NEW entry \in Entries
  PROVE  Hit(entry) \in Entries
<1>1. CASE Fresh(entry)
  BY <1>1 DEF Hit, Raised, Entries
<1>2. CASE ~Fresh(entry)
  <2>1. Entry(1, Forever) \in Entries /\ Entry(1, Window) \in Entries
    BY DEF Entry, Entries
  <2> QED BY <1>2, <2>1 DEF Hit
<1> QED BY <1>1, <1>2

\* Whatever one step does to the cache, entries stay entries.
LEMMA StoreType ==
  ASSUME store \in [Keys -> Entries], [Next]_vars
  PROVE  store' \in [Keys -> Entries]
<1>1. CASE Count
  BY <1>1, HitType DEF Count, Keys
<1>2. CASE UNCHANGED store
  BY <1>2
<1>3. CASE Expire
  BY <1>3 DEF Expire, Entries, Keys
<1>4. CASE Sweep
  BY <1>4, AbsentType DEF Sweep
<1>5. ASSUME NEW t \in Tokens, Visit(t)
      PROVE  store' \in [Keys -> Entries]
  BY <1>5, AbsentType DEF Visit, Keys
<1>6. ASSUME NEW t \in Tokens, SetToken(t)
      PROVE  store' \in [Keys -> Entries]
  <2>1. Entry(1, PreviewTTL) \in Entries
    BY EntryType
  <2> QED BY <1>6, <2>1 DEF SetToken, Keys
<1>7. CASE Tick
  BY <1>7, AgedType DEF Tick
<1>8. CASE Stop
  BY <1>8, AbsentType DEF Stop, LoseMemory
<1>9. CacheStep => Count \/ UNCHANGED store \/ Expire \/ Sweep \/ \E t \in Tokens : Visit(t)
  BY DEF CacheStep, Attempt, AttemptUncounted
<1>10. PreviewStep => UNCHANGED store \/ \E t \in Tokens : SetToken(t)
  BY DEF PreviewStep, JanitorStep, BuildStep, Generate, Generated, GenerateFails, Scan,
         RemoveSome, RemoveRest, RemoveFails, cacheVars
<1> QED
  BY <1>1, <1>2, <1>3, <1>4, <1>5, <1>6, <1>7, <1>8, <1>9, <1>10
  DEF Next, Start, vars, cacheVars

\* A preview whose token is found is complete, is not about to go, and stays
\* longer on the disk than in the cache.
Shown(t) ==
  Held(t) =>
    /\ previews[t] = "over" /\ t \notin doomed
    /\ dirs[t].files = "all"
    /\ store[t].left \in Nat
    /\ dirs[t].age + store[t].left <= KeepDirs

\* Before its token is set, a directory is too young to go.
Unshown(t) ==
  previews[t] # "over" =>
    /\ t \notin doomed /\ ~Held(t)
    /\ previews[t] = "new" => dirs[t].files = "none"
    /\ previews[t] # "new" => dirs[t].age <= BuildTicks
    /\ previews[t] = "generated" => dirs[t].files = "all"

PreviewTypes ==
  /\ store \in [Keys -> Entries]
  /\ dirs \in [Tokens -> Dirs]
  /\ previews \in [Tokens -> {"new", "generating", "generated", "over"}]
  /\ doomed \subseteq Tokens
  /\ backend \in {"redis", "memory"}

PreviewInv == PreviewTypes /\ \A t \in Tokens : Shown(t) /\ Unshown(t)

LEMMA TypesKept ==
  ASSUME PreviewTypes, [Next]_vars
  PROVE  PreviewTypes'
<1>1. (store \in [Keys -> Entries])'
  BY StoreType DEF PreviewTypes
<1>2. (dirs \in [Tokens -> Dirs])'
  <2>1. CASE UNCHANGED dirs
    BY <2>1 DEF PreviewTypes
  <2>2. ASSUME NEW t \in Tokens, NEW files \in {"none", "part", "all"}, NEW age \in 0 .. KeepDirs + 1,
               dirs' = [dirs EXCEPT ![t] = Dir(files, age)]
        PROVE  (dirs \in [Tokens -> Dirs])'
    BY <2>2, DirType DEF PreviewTypes
  <2>3. ASSUME NEW t \in Tokens, Generate(t) \/ RemoveSome(t)
        PROVE  (dirs \in [Tokens -> Dirs])'
    BY <2>2, <2>3 DEF Generate, RemoveSome
  <2>4. ASSUME NEW t \in Tokens, Generated(t)
        PROVE  (dirs \in [Tokens -> Dirs])'
    <3>1. dirs[t].age \in 0 .. KeepDirs + 1
      BY DEF PreviewTypes, Dirs
    <3>2. PICK age \in 0 .. dirs[t].age : dirs' = [dirs EXCEPT ![t] = Dir("all", age)]
      BY <2>4 DEF Generated
    <3>3. age \in 0 .. KeepDirs + 1
      BY <3>1, <3>2
    <3> QED BY <2>2, <3>2, <3>3
  <2>5. ASSUME NEW t \in Tokens, RemoveRest(t)
        PROVE  (dirs \in [Tokens -> Dirs])'
    BY <2>5, NoDirType DEF RemoveRest, PreviewTypes
  <2>6. CASE Tick
    <3>1. ASSUME NEW d \in Dirs, ~(d.files = "none" \/ d.age > KeepDirs)
          PROVE  [d EXCEPT !.age = @ + 1] \in Dirs
      BY <3>1 DEF Dirs
    <3> QED BY <2>6, <3>1 DEF Tick, PreviewTypes
  <2>7. PreviewStep =>
          \/ UNCHANGED dirs
          \/ \E t \in Tokens : Generate(t) \/ Generated(t) \/ RemoveSome(t) \/ RemoveRest(t)
    BY DEF PreviewStep, BuildStep, JanitorStep, GenerateFails, SetToken, Scan, RemoveFails
  <2> QED
    BY <2>1, <2>3, <2>4, <2>5, <2>6, <2>7
    DEF Next, Stop, EndBuilds, Start, vars, previewVars
<1>3. (previews \in [Tokens -> {"new", "generating", "generated", "over"}])'
  <2>1. PreviewStep =>
          \/ UNCHANGED previews
          \/ \E t \in Tokens : \E p \in {"generating", "generated", "over"} :
               previews' = [previews EXCEPT ![t] = p]
    BY DEF PreviewStep, BuildStep, JanitorStep, Generate, Generated, GenerateFails, SetToken,
           Scan, RemoveSome, RemoveRest, RemoveFails
  <2>2. CASE UNCHANGED previews
    BY <2>2 DEF PreviewTypes
  <2>3. ASSUME NEW t \in Tokens, NEW p \in {"generating", "generated", "over"},
               previews' = [previews EXCEPT ![t] = p]
        PROVE  (previews \in [Tokens -> {"new", "generating", "generated", "over"}])'
    BY <2>3 DEF PreviewTypes
  <2>4. CASE Stop
    BY <2>4 DEF Stop, EndBuilds, PreviewTypes
  <2> QED
    BY <2>1, <2>2, <2>3, <2>4 DEF Next, Tick, Start, vars, previewVars
<1>4. (doomed \subseteq Tokens)' /\ (backend \in {"redis", "memory"})'
  <2>1. CacheStep => UNCHANGED backend
    BY DEF CacheStep, Attempt, AttemptUncounted, Expire, Sweep, Visit
  <2>2. PreviewStep => UNCHANGED backend /\ (doomed \subseteq Tokens)'
    BY DEF PreviewStep, BuildStep, JanitorStep, Generate, Generated, GenerateFails, SetToken,
           Scan, RemoveSome, RemoveRest, RemoveFails, PreviewTypes, cacheVars
  <2>3. Stop => UNCHANGED backend /\ (doomed \subseteq Tokens)'
    BY DEF Stop, LoseMemory, EndBuilds
  <2> QED
    BY <2>1, <2>2, <2>3 DEF PreviewTypes, Next, Tick, Start, vars, previewVars, cacheVars
<1> QED BY <1>1, <1>2, <1>3, <1>4 DEF PreviewTypes

\* What a step leaves of the cache's entries of previews.
LEMMA CacheSteps ==
  ASSUME PreviewTypes, CacheStep, NEW t \in Tokens, Held(t)'
  PROVE  Held(t) /\ store'[t] = store[t]
<1>1. t # Login /\ t \in Keys /\ Login \in Keys
  BY DEF Keys
<1>2. CASE Count \/ UNCHANGED store \/ Expire
  BY <1>1, <1>2 DEF Count, Expire, Held, PreviewTypes
<1>3. CASE Sweep
  BY <1>1, <1>3 DEF Sweep, Held, Fresh, Absent, Entry
<1>4. ASSUME NEW u \in Tokens, Visit(u)
      PROVE  Held(t) /\ store'[t] = store[t]
  BY <1>1, <1>4 DEF Visit, Held, Fresh, Absent, Entry, PreviewTypes
<1>5. CacheStep => Count \/ UNCHANGED store \/ Expire \/ Sweep \/ \E u \in Tokens : Visit(u)
  BY DEF CacheStep, Attempt, AttemptUncounted
<1> QED BY <1>2, <1>3, <1>4, <1>5

\* A step that touches neither the token nor the directory of a preview.
LEMMA Untouched ==
  ASSUME NEW t \in Tokens, Shown(t), Unshown(t),
         previews'[t] = previews[t], dirs'[t] = dirs[t], (t \in doomed)' => t \in doomed,
         Held(t)' => Held(t) /\ store'[t] = store[t]
  PROVE  Shown(t)' /\ Unshown(t)'
BY DEF Shown, Unshown

\* One tick ages a directory and the token's entry alike.
LEMMA TickKeeps ==
  ASSUME PreviewTypes, Tick, NEW t \in Tokens, Shown(t), Unshown(t)
  PROVE  Shown(t)' /\ Unshown(t)'
<1>1. previews' = previews /\ doomed' = doomed
  BY DEF Tick
<1>2. store[t] \in Entries /\ dirs[t] \in Dirs /\ t \in Keys
  BY DEF PreviewTypes, Keys
<1>3. dirs'[t].files = dirs[t].files
  BY <1>2 DEF Tick, Dirs
<1>4. dirs'[t].age \in Int /\ dirs'[t].age <= dirs[t].age + 1 /\ dirs[t].age \in Int
  BY <1>2 DEF Tick, Dirs
<1>5. ASSUME Held(t)'
      PROVE  Held(t) /\ store'[t].left = store[t].left - 1 /\ store'[t].left \in Nat
  <2>1. store'[t] = Aged(store[t])
    BY <1>2 DEF Tick
  <2>2. Fresh(Aged(store[t]))
    BY <1>5, <2>1 DEF Held
  <2>3. Held(t)
    BY <2>2 DEF Aged, Held
  <2>4. store[t].left \in Nat /\ store[t].left # Forever
    BY <2>3 DEF Shown
  <2>5. Aged(store[t]) = [store[t] EXCEPT !.left = @ - 1]
    BY <2>2, <2>3, <2>4 DEF Aged, Held, Fresh, Absent, Entry
  <2>6. store'[t].left = store[t].left - 1
    BY <2>1, <2>5, <1>2 DEF Entries
  <2>7. store'[t].left # -1
    BY <2>1, <2>2 DEF Fresh
  <2> QED BY <2>3, <2>4, <2>6, <2>7
<1>6. Shown(t)'
  BY <1>1, <1>3, <1>4, <1>5 DEF Shown
<1>7. Underway(t) => dirs[t].age < BuildTicks
  BY DEF Tick
<1>8. Unshown(t)'
  <2>1. previews[t] \in {"new", "generating", "generated", "over"}
    BY DEF PreviewTypes
  <2> QED BY <1>1, <1>3, <1>4, <1>5, <1>7, <2>1 DEF Unshown, Underway
<1> QED BY <1>6, <1>8

\* No step of a build or of the janitor spoils a preview.
LEMMA PreviewSteps ==
  ASSUME PreviewInv, PreviewStep, NEW t \in Tokens
  PROVE  Shown(t)' /\ Unshown(t)'
<1> USE DEF PreviewInv, PreviewTypes, Shown, Unshown, cacheVars
<1>1. t \in Keys /\ t # Login
  BY DEF Keys
<1>2. ASSUME NEW u \in Tokens, Generate(u)
      PROVE  Shown(t)' /\ Unshown(t)'
  BY <1>2 DEF Generate, Dir, Held
<1>3. ASSUME NEW u \in Tokens, Generated(u)
      PROVE  Shown(t)' /\ Unshown(t)'
  <2>1. dirs[u].age \in Nat
    BY DEF Dirs
  <2>2. PICK age \in 0 .. dirs[u].age : dirs' = [dirs EXCEPT ![u] = Dir("all", age)]
    BY <1>3 DEF Generated
  <2>3. CASE u = t
    BY <1>3, <2>1, <2>2, <2>3 DEF Generated, Dir, Held
  <2>4. CASE u # t
    BY <1>3, <2>2, <2>4, Untouched DEF Generated, Held
  <2> QED BY <2>3, <2>4
<1>4. ASSUME NEW u \in Tokens, GenerateFails(u)
      PROVE  Shown(t)' /\ Unshown(t)'
  BY <1>4 DEF GenerateFails, Held
<1>5. ASSUME NEW u \in Tokens, SetToken(u)
      PROVE  Shown(t)' /\ Unshown(t)'
  <2>1. CASE u = t
    <3>1. dirs[t].files = "all" /\ dirs[t].age <= BuildTicks /\ t \notin doomed /\ ~Held(t)
      BY <1>5, <2>1 DEF SetToken
    <3>2. previews'[t] = "over" /\ dirs' = dirs /\ doomed' = doomed
      BY <1>5, <2>1 DEF SetToken
    <3>3. UNCHANGED store \/ store'[t] = Entry(1, PreviewTTL)
      BY <1>1, <1>5, <2>1 DEF SetToken
    <3>4. CASE UNCHANGED store
      BY <3>1, <3>2, <3>4 DEF Held
    <3>5. CASE store'[t] = Entry(1, PreviewTTL)
      <4>1. store'[t].left = PreviewTTL /\ dirs[t].age \in Nat
        BY <3>5 DEF Entry, Dirs
      <4> QED BY <3>1, <3>2, <4>1
    <3> QED BY <3>3, <3>4, <3>5
  <2>2. CASE u # t
    <3>1. store'[t] = store[t]
      BY <1>1, <1>5, <2>2 DEF SetToken
    <3> QED BY <1>5, <2>2, <3>1, Untouched DEF SetToken, Held
  <2> QED BY <2>1, <2>2
<1>6. CASE Scan
  <2>1. dirs[t] \in Dirs
    OBVIOUS
  <2>2. previews' = previews /\ dirs' = dirs /\ store' = store
    BY <1>6 DEF Scan
  <2>3. (t \in doomed)' => Old(t) \/ t \in doomed
    BY <1>6 DEF Scan
  <2>4. Old(t) => ~Held(t) /\ previews[t] = "over"
    <3>1. previews[t] \in {"new", "generating", "generated", "over"}
      OBVIOUS
    <3>2. Held(t) => ~Old(t)
      BY <2>1 DEF Old, Dirs
    <3>3. Underway(t) => ~Old(t)
      BY <2>1 DEF Old, Dirs, Underway
    <3>4. previews[t] = "new" => ~Old(t)
      BY DEF Old
    <3> QED BY <3>1, <3>2, <3>3, <3>4 DEF Underway
  <2> QED BY <2>2, <2>3, <2>4 DEF Held
<1>7. ASSUME NEW u \in Tokens, RemoveSome(u) \/ RemoveRest(u) \/ RemoveFails(u)
      PROVE  Shown(t)' /\ Unshown(t)'
  <2>1. u \in doomed /\ previews' = previews /\ store' = store /\ doomed' \subseteq doomed
    BY <1>7 DEF RemoveSome, RemoveRest, RemoveFails
  <2>2. CASE u = t
    BY <2>1, <2>2 DEF Held
  <2>3. CASE u # t
    <3>1. dirs'[t] = dirs[t]
      BY <1>7, <2>3 DEF RemoveSome, RemoveRest, RemoveFails
    <3> QED BY <2>1, <3>1, Untouched DEF Held
  <2> QED BY <2>2, <2>3
<1> QED
  BY <1>2, <1>3, <1>4, <1>5, <1>6, <1>7 DEF PreviewStep, BuildStep, JanitorStep

LEMMA InitPreviewInv == Init => PreviewInv
<1> SUFFICES ASSUME Init PROVE PreviewInv
  OBVIOUS
<1> USE DEF Init, InitCache, InitPreviews
<1>1. PreviewTypes
  <2>1. store \in [Keys -> Entries]
    BY AbsentType
  <2>2. dirs \in [Tokens -> Dirs]
    BY NoDirType
  <2> QED BY <2>1, <2>2 DEF PreviewTypes
<1>2. \A t \in Tokens : ~Held(t)
  BY DEF Held, Fresh, Absent, Entry, Keys
<1>3. \A t \in Tokens : Shown(t) /\ Unshown(t)
  BY <1>2 DEF Shown, Unshown, NoDir
<1> QED BY <1>1, <1>3 DEF PreviewInv

LEMMA PreviewInvKept == PreviewInv /\ [Next]_vars => PreviewInv'
<1> SUFFICES ASSUME PreviewInv, [Next]_vars PROVE PreviewInv'
  OBVIOUS
<1>1. PreviewTypes'
  BY TypesKept DEF PreviewInv
<1>2. ASSUME NEW t \in Tokens
      PROVE  Shown(t)' /\ Unshown(t)'
  <2>1. PreviewTypes /\ Shown(t) /\ Unshown(t)
    BY DEF PreviewInv
  <2>2. CASE UNCHANGED <<store, previews, dirs, doomed>>
    BY <2>1, <2>2, Untouched DEF Held
  <2>3. CASE CacheStep /\ UNCHANGED previewVars
    <3>1. Held(t)' => Held(t) /\ store'[t] = store[t]
      BY <2>1, <2>3, CacheSteps
    <3> QED BY <2>1, <2>3, <3>1, Untouched DEF previewVars
  <2>4. CASE PreviewStep
    BY <2>4, PreviewSteps
  <2>5. CASE Tick
    BY <2>1, <2>5, TickKeeps
  <2>6. CASE Stop
    <3>1. Held(t)' => Held(t) /\ store'[t] = store[t]
      BY <2>6 DEF Stop, LoseMemory, Held, Fresh, Absent, Entry, Keys
    <3>2. dirs' = dirs /\ doomed' = {} /\ previews'[t] \in {previews[t], "over"}
      BY <2>6 DEF Stop, EndBuilds
    <3>3. previews[t] \in {"new", "generating", "generated", "over"}
      BY <2>1 DEF PreviewTypes
    <3>4. Held(t) => previews'[t] = "over"
      BY <2>1, <3>2 DEF Shown
    <3>5. Unshown(t)'
      <4>1. CASE previews'[t] = "over"
        BY <4>1 DEF Unshown
      <4>2. CASE previews'[t] = previews[t]
        BY <2>1, <3>1, <3>2, <4>2, Untouched
      <4> QED BY <3>2, <4>1, <4>2
    <3> QED BY <2>1, <3>1, <3>2, <3>4, <3>5 DEF Shown
  <2> QED
    BY <2>2, <2>3, <2>4, <2>5, <2>6 DEF Next, Start, vars, cacheVars, previewVars
<1> QED BY <1>1, <1>2 DEF PreviewInv

LEMMA AlwaysPreviewInv == Spec => []PreviewInv
BY InitPreviewInv, PreviewInvKept, PTL DEF Spec

\* Theorem: for any number of previews and any times with
\* BuildTicks + PreviewTTL <= KeepDirs, a valid preview has all its files.
THEOREM LivePreviewsAreWhole == Spec => []LivePreviewWhole
<1>1. PreviewInv => LivePreviewWhole
  BY DEF PreviewInv, Shown, LivePreviewWhole
<1> QED BY <1>1, AlwaysPreviewInv, PTL

\* Theorem: under any limit and window the first attempt after a window is
\* admitted.
THEOREM FirstTriesAreAdmitted == Spec => FirstTryAdmitted
<1>1. PreviewInv /\ [Next]_vars
        => [Attempt /\ ~Held(Login) => store'[Login].count <= MaxLogins]_<<cacheVars, process>>
  <2> SUFFICES ASSUME PreviewInv, Attempt, ~Held(Login)
               PROVE  store'[Login].count <= MaxLogins
    OBVIOUS
  <2>1. store'[Login] = Hit(store[Login])
    BY DEF Attempt, Count, PreviewInv, PreviewTypes, Keys
  <2>2. Hit(store[Login]).count = 1
    BY DEF Hit, Held, Entry
  <2> QED BY <2>1, <2>2
<1> QED BY <1>1, AlwaysPreviewInv, PTL DEF Spec, FirstTryAdmitted

-----------------------------------------------------------------------------
(* The cache's promise.                                                     *)

\* What a lookup makes of an entry.
Seen(entry) == IF Fresh(entry) THEN entry ELSE Absent

\* An entry that is found ends at a time still to come, or never; and an EXPIRE
\* that is still to come finds the counter it is for, without an end.
Lasting(entry) == Fresh(entry) => entry.left \in Nat \cup {Forever}
Unended == expiring => backend = "redis" /\ Held(Login) /\ store[Login].left = Forever

CacheInv == PreviewTypes /\ Unended /\ \A key \in Keys : Lasting(store[key])

LEMMA AbsentSeen ==
  /\ ~Fresh(Absent) /\ Seen(Absent) = Absent
  /\ \A entry \in Entries : Fresh(entry) => entry # Absent
BY DEF Seen, Fresh, Absent, Entry

\* A change of one key changes one key that lookups find.
LEMMA OneKey ==
  ASSUME PreviewTypes, NEW key \in Keys, NEW entry \in Entries,
         store' = [store EXCEPT ![key] = entry]
  PROVE  Kept' = [Kept EXCEPT ![key] = Seen(entry)]
<1>1. \A k \in Keys : store'[k] = IF k = key THEN entry ELSE store[k]
  BY DEF PreviewTypes
<1>2. Kept' = [k \in Keys |-> IF Fresh(store'[k]) THEN store'[k] ELSE Absent]
  BY DEF Kept, Held
<1> QED BY <1>1, <1>2 DEF Kept, Held, Seen

\* The entries of the counter after an increment.
LEMMA HitFacts ==
  ASSUME NEW entry \in Entries
  PROVE  /\ Fresh(entry) => /\ Hit(entry).left = entry.left
                            /\ Hit(entry).count = Raised(entry.count)
                            /\ Hit(entry) = [entry EXCEPT !.count = Raised(@)]
         /\ ~Fresh(entry) => Hit(entry) \in {Entry(1, Forever), Entry(1, Window)}
         /\ ~Fresh(entry) /\ backend = "redis" => Hit(entry) = Entry(1, Forever)
         /\ Lasting(entry) => Lasting(Hit(entry))
         /\ Fresh(Hit(entry))
<1>1. CASE Fresh(entry)
  <2>1. Hit(entry) = [entry EXCEPT !.count = Raised(@)]
    BY <1>1 DEF Hit
  <2>2. Raised(entry.count) > 0
    BY <1>1 DEF Raised, Fresh, Entries
  <2> QED BY <1>1, <2>1, <2>2 DEF Lasting, Fresh, Entries
<1>2. CASE ~Fresh(entry)
  BY <1>2 DEF Hit, Lasting, Fresh, Entry
<1> QED BY <1>1, <1>2

\* What a step does to the store, and to the EXPIRE that is to come.
CacheForm ==
  \/ Attempt
  \/ AttemptUncounted
  \/ UNCHANGED <<store, expiring>>
  \/ Expire
  \/ Sweep
  \/ \E t \in Tokens : Visit(t)
  \/ \E t \in Tokens : SetToken(t) /\ ~UNCHANGED store
  \/ store' = [key \in Keys |-> Aged(store[key])] /\ UNCHANGED expiring
  \/ LoseMemory

LEMMA CacheForms ==
  ASSUME PreviewTypes, [Next]_vars
  PROVE  CacheForm /\ backend' = backend
<1>1. CacheStep => CacheForm /\ backend' = backend
  BY DEF CacheStep, Attempt, AttemptUncounted, Expire, Sweep, Visit, CacheForm
<1>2. PreviewStep => CacheForm /\ backend' = backend
  BY DEF PreviewStep, JanitorStep, BuildStep, Generate, Generated, GenerateFails, SetToken, Scan,
         RemoveSome, RemoveRest, RemoveFails, cacheVars, CacheForm
<1>3. Stop => CacheForm /\ backend' = backend
  BY DEF Stop, LoseMemory, CacheForm
<1>4. Tick => CacheForm /\ backend' = backend
  BY DEF Tick, CacheForm
<1> QED BY <1>1, <1>2, <1>3, <1>4 DEF Next, Start, vars, cacheVars, CacheForm

LEMMA AgedLasts ==
  ASSUME NEW entry \in Entries, Lasting(entry)
  PROVE  /\ Lasting(Aged(entry))
         /\ Fresh(Aged(entry)) => Fresh(entry)
         /\ entry.left = Forever => Aged(entry) = entry
<1>1. CASE ~Fresh(entry) \/ entry.left = Forever
  BY <1>1 DEF Aged
<1>2. CASE Fresh(entry) /\ entry.left # Forever
  <2>1. entry.left \in Nat
    BY <1>2 DEF Lasting
  <2>2. Aged(entry) = Absent \/ Aged(entry) = [entry EXCEPT !.left = @ - 1]
    BY <1>2 DEF Aged
  <2>3. CASE Aged(entry) = Absent
    BY <1>2, <2>3, AbsentSeen DEF Lasting
  <2>4. CASE Aged(entry) = [entry EXCEPT !.left = @ - 1]
    <3>1. Aged(entry).left = entry.left - 1
      BY <2>4 DEF Entries
    <3> QED BY <1>2, <2>1, <3>1 DEF Lasting, Fresh
  <2> QED BY <2>2, <2>3, <2>4
<1> QED BY <1>1, <1>2

LEMMA LastingKept ==
  ASSUME CacheInv, CacheForm, NEW key \in Keys
  PROVE  Lasting(store'[key])
<1> USE DEF CacheInv, PreviewTypes
<1>1. store[key] \in Entries /\ Lasting(store[key]) /\ Lasting(Absent)
  BY AbsentSeen DEF Lasting
<1>2. CASE Attempt \/ AttemptUncounted
  <2>1. Count \/ UNCHANGED store
    BY <1>2 DEF Attempt, AttemptUncounted
  <2> QED BY <1>1, <2>1, HitFacts DEF Count
<1>3. CASE Expire
  <2>1. Lasting([store[key] EXCEPT !.left = Window])
    BY <1>1 DEF Lasting, Entries
  <2> QED BY <1>1, <1>3, <2>1 DEF Expire
<1>4. CASE Sweep
  BY <1>1, <1>4 DEF Sweep
<1>5. ASSUME NEW t \in Tokens, Visit(t)
      PROVE  Lasting(store'[key])
  BY <1>1, <1>5 DEF Visit
<1>6. ASSUME NEW t \in Tokens, SetToken(t)
      PROVE  Lasting(store'[key])
  <2>1. Lasting(Entry(1, PreviewTTL))
    BY DEF Lasting, Entry
  <2> QED BY <1>1, <1>6, <2>1 DEF SetToken
<1>7. CASE store' = [k \in Keys |-> Aged(store[k])]
  BY <1>1, <1>7, AgedLasts
<1>8. CASE LoseMemory \/ UNCHANGED store
  BY <1>1, <1>8 DEF LoseMemory
<1> QED BY <1>2, <1>3, <1>4, <1>5, <1>6, <1>7, <1>8 DEF CacheForm

\* Until its EXPIRE is sent, nothing ends or bounds a counter.
LEMMA UnendedKept ==
  ASSUME CacheInv, [Next]_vars
  PROVE  Unended'
<1> USE DEF CacheInv, PreviewTypes
<1>1. Login \in Keys /\ store[Login] \in Entries
  BY DEF Keys
<1>2. backend' = backend
  BY CacheForms
<1>3. CASE Attempt
  <2>1. store'[Login] = Hit(store[Login])
    BY <1>1, <1>3 DEF Attempt, Count
  <2>2. expiring' => backend = "redis" /\ (expiring \/ ~Held(Login))
    BY <1>3 DEF Attempt, Unended
  <2>3. expiring' => store'[Login].left = Forever /\ Fresh(store'[Login])
    BY <1>1, <2>1, <2>2, HitFacts DEF Unended, Held, Entry
  <2> QED BY <1>2, <2>2, <2>3 DEF Unended, Held
<1>4. CASE AttemptUncounted
  <2>1. store'[Login] \in {store[Login], Hit(store[Login])} /\ expiring' = expiring
    BY <1>1, <1>4 DEF AttemptUncounted, Count
  <2> QED BY <1>1, <1>2, <2>1, HitFacts DEF Unended, Held
<1>5. CASE Expire \/ Stop
  BY <1>5 DEF Expire, Stop, LoseMemory, Unended
<1>6. CASE Sweep
  BY <1>1, <1>2, <1>6 DEF Sweep, Unended, Held
<1>7. ASSUME expiring' = expiring, store'[Login] = store[Login]
      PROVE  Unended'
  BY <1>2, <1>7 DEF Unended, Held
<1>8. ASSUME NEW t \in Tokens, Visit(t) \/ SetToken(t)
      PROVE  Unended'
  <2>1. t # Login
    OBVIOUS
  <2>2. expiring' = expiring /\ store'[Login] = store[Login]
    BY <1>1, <1>8, <2>1 DEF Visit, SetToken
  <2> QED BY <1>7, <2>2
<1>9. CASE Tick
  <2>1. expiring' = expiring /\ store'[Login] = Aged(store[Login])
    BY <1>1, <1>9 DEF Tick
  <2>2. store[Login].left = Forever => Aged(store[Login]) = store[Login]
    BY <1>1, AgedLasts
  <2> QED BY <1>2, <2>1, <2>2 DEF Unended, Held
<1>10. CASE PreviewStep
  <2>1. PreviewStep => (\E t \in Tokens : SetToken(t)) \/ UNCHANGED <<store, expiring>>
    BY DEF PreviewStep, JanitorStep, BuildStep, Generate, Generated, GenerateFails, Scan,
           RemoveSome, RemoveRest, RemoveFails, cacheVars
  <2> QED BY <1>7, <1>8, <1>10, <2>1
<1>11. CASE UNCHANGED cacheVars
  BY <1>7, <1>11 DEF cacheVars
<1> QED
  BY <1>3, <1>4, <1>5, <1>6, <1>8, <1>9, <1>10, <1>11 DEF Next, Start, vars, CacheStep

LEMMA AlwaysCacheInv == Spec => []CacheInv
<1>1. Init => CacheInv
  <2> SUFFICES ASSUME Init PROVE CacheInv
    OBVIOUS
  <2>1. PreviewTypes
    BY InitPreviewInv DEF PreviewInv
  <2> QED BY <2>1, AbsentSeen DEF Init, InitCache, CacheInv, Unended, Lasting
<1>2. CacheInv /\ [Next]_vars => CacheInv'
  <2> SUFFICES ASSUME CacheInv, [Next]_vars PROVE CacheInv'
    OBVIOUS
  <2>1. PreviewTypes'
    BY TypesKept DEF CacheInv
  <2>2. \A key \in Keys : Lasting(store'[key])
    BY CacheForms, LastingKept DEF CacheInv
  <2> QED BY <2>1, <2>2, UnendedKept DEF CacheInv, Lasting, Fresh
<1> QED BY <1>1, <1>2, PTL DEF Spec

\* Counters whose first increment has not returned.
Begun == IF expiring THEN {Login} ELSE {}

\* A step of the store, seen from outside, or none, or the loss of an end.
Promised ==
  /\ \/ Promise!Next
     \/ Promise!LoseAnEnd /\ Unending'
     \/ UNCHANGED <<Found, Begun>>
  /\ backend' = backend

LEMMA KeptType == PreviewTypes => Kept \in [Keys -> Entries]
BY AbsentType DEF PreviewTypes, Kept

LEMMA KeysOnly == Promise!Keys = Keys /\ Promise!Nothing = Absent
BY DEF Promise!Keys, Promise!Nothing, Keys, Absent, Entry

LEMMA NewEntries ==
  /\ Promise!New(Login) = Entry(1, Window)
  /\ \A t \in Tokens : Promise!New(t) = Entry(1, PreviewTTL)
BY DEF Promise!New, Entry, Keys

\* An increment of a counter that is found.
LEMMA MorePromised ==
  ASSUME CacheInv, Count, Held(Login), backend' = backend, expiring' <=> expiring
  PROVE  Promised
<1> DEFINE entry == store[Login]
           more(f) == [f EXCEPT ![Login].count = IF @ < MaxLogins + 1 THEN @ + 1 ELSE @]
<1>1. Login \in Keys /\ entry \in Entries /\ Fresh(entry) /\ PreviewTypes
  BY DEF Keys, CacheInv, PreviewTypes, Held
<1>2. Hit(entry) \in Entries /\ Seen(Hit(entry)) = Hit(entry)
  BY <1>1, HitType, HitFacts DEF Seen
<1>3. Kept' = [Kept EXCEPT ![Login] = Hit(entry)]
  BY <1>1, <1>2, OneKey DEF Count
<1>4. Kept \in [Keys -> Entries] /\ Kept[Login] = entry /\ entry # Absent
  BY <1>1, KeptType, AbsentSeen DEF Kept
<1>5. Hit(entry) = [entry EXCEPT !.count = IF @ < MaxLogins + 1 THEN @ + 1 ELSE @]
  <2>1. Raised(entry.count) = IF entry.count < MaxLogins + 1 THEN entry.count + 1 ELSE entry.count
    BY <1>1 DEF Raised, Entries
  <2> QED BY <1>1, <2>1, HitFacts
<1>6. Kept' = more(Kept)
  BY <1>1, <1>3, <1>4, <1>5
<1>7. Found' = more(Found) /\ Found[Login] # Absent
  <2>1. CASE ~expiring
    BY <1>4, <1>6, <2>1 DEF Found
  <2>2. CASE expiring
    <3> DEFINE count == IF entry.count < MaxLogins + 1 THEN entry.count + 1 ELSE entry.count
    <3>1. Found = [Kept EXCEPT ![Login] = Entry(entry.count, Window)]
      <4>1. [entry EXCEPT !.left = Window] = Entry(entry.count, Window)
        BY <1>1 DEF Entries, Entry
      <4> QED BY <1>4, <2>2, <4>1 DEF Found
    <3>2. Found' = [Kept EXCEPT ![Login] = Entry(count, Window)]
      <4>1. [Hit(entry) EXCEPT !.left = Window] = Entry(count, Window)
        <5>1. Hit(entry) = Entry(count, entry.left)
          BY <1>1, <1>5 DEF Entries, Entry
        <5> QED BY <5>1 DEF Entry
      <4>2. Found' = [Kept' EXCEPT ![Login] = [Kept'[Login] EXCEPT !.left = Window]]
        BY <2>2 DEF Found
      <4> QED BY <1>1, <1>3, <1>4, <4>1, <4>2
    <3>3. more(Found) = [Kept EXCEPT ![Login] = Entry(count, Window)]
      <4>1. Found[Login] = Entry(entry.count, Window)
        BY <1>1, <1>4, <3>1
      <4>2. more(Found) = [Found EXCEPT ![Login] = Entry(count, Window)]
        <5>1. [Entry(entry.count, Window) EXCEPT
                !.count = IF @ < MaxLogins + 1 THEN @ + 1 ELSE @] = Entry(count, Window)
          BY DEF Entry
        <5> QED BY <4>1, <5>1
      <4> QED BY <3>1, <4>2
    <3> QED BY <1>1, <1>4, <3>1, <3>2, <3>3 DEF Absent, Entry, Fresh
  <2> QED BY <2>1, <2>2
<1>8. Promise!More(Login)
  BY <1>7, KeysOnly DEF Promise!More
<1> QED BY <1>8 DEF Promised, Promise!Next

\* The first increment, which the memory ends by itself.
LEMMA FirstPromised ==
  ASSUME CacheInv, Attempt, ~Held(Login)
  PROVE  Promised
<1>1. Login \in Keys /\ store[Login] \in Entries /\ ~Fresh(store[Login]) /\ PreviewTypes
  BY DEF Keys, CacheInv, PreviewTypes, Held
<1>2. ~expiring /\ expiring' = (backend = "redis") /\ backend' = backend
  BY DEF Attempt, CacheInv, Unended
<1>3. Hit(store[Login]) = Entry(1, IF backend = "redis" THEN Forever ELSE Window)
  BY <1>1 DEF Hit
<1>4. Hit(store[Login]) \in Entries /\ Seen(Hit(store[Login])) = Hit(store[Login])
  BY <1>1, HitType, HitFacts DEF Seen
<1>5. Kept' = [Kept EXCEPT ![Login] = Hit(store[Login])]
  BY <1>1, <1>4, OneKey DEF Attempt, Count
<1>6. Kept \in [Keys -> Entries] /\ Kept[Login] = Absent
  BY <1>1, KeptType DEF Kept, Held
<1>7. Found = Kept /\ Found' = [Found EXCEPT ![Login] = Entry(1, Window)]
  <2>1. CASE backend = "redis"
    <3>1. Kept' = [Kept EXCEPT ![Login] = Entry(1, Forever)]
      BY <1>3, <1>5, <2>1
    <3>2. [Entry(1, Forever) EXCEPT !.left = Window] = Entry(1, Window)
      BY DEF Entry
    <3>3. Found' = [Kept' EXCEPT ![Login].left = Window]
      BY <1>2, <2>1 DEF Found
    <3> QED BY <1>1, <1>2, <1>6, <3>1, <3>2, <3>3 DEF Found
  <2>2. CASE backend # "redis"
    BY <1>2, <1>3, <1>5, <2>2 DEF Found
  <2> QED BY <2>1, <2>2
<1>8. Promise!First(Login)
  BY <1>2, <1>6, <1>7, KeysOnly, NewEntries DEF Promise!First
<1> QED BY <1>2, <1>8 DEF Promised, Promise!Next

\* The first increment, when nobody learns of it: no end will be set.
LEMMA UncountedPromised ==
  ASSUME CacheInv, AttemptUncounted, ~Held(Login), Count
  PROVE  Promised
<1>1. Login \in Keys /\ store[Login] \in Entries /\ ~Fresh(store[Login]) /\ PreviewTypes
  BY DEF Keys, CacheInv, PreviewTypes, Held
<1>2. ~expiring /\ expiring' = expiring /\ backend = "redis" /\ backend' = backend
  BY DEF AttemptUncounted, CacheInv, Unended
<1>3. Hit(store[Login]) = Entry(1, Forever) /\ Fresh(Entry(1, Forever))
  BY <1>1, <1>2, HitFacts
<1>4. Entry(1, Forever) \in Entries /\ Seen(Entry(1, Forever)) = Entry(1, Forever)
  BY <1>3 DEF Entries, Entry, Seen
<1>5. store' = [store EXCEPT ![Login] = Entry(1, Forever)]
  BY <1>1, <1>3 DEF Count, PreviewTypes
<1>6. Kept' = [Kept EXCEPT ![Login] = Entry(1, Forever)] /\ Kept[Login] = Absent
  BY <1>1, <1>4, <1>5, OneKey DEF Kept, Held
<1>7. Found = Kept /\ Found' = Kept'
  BY <1>2 DEF Found
<1>8. Promise!LoseAnEnd
  BY <1>2, <1>6, <1>7, KeysOnly DEF Promise!LoseAnEnd, Promise!FirstUnended, Entry
<1>9. Unending'
  <2>1. store'[Login] = Entry(1, Forever)
    BY <1>1, <1>5 DEF PreviewTypes
  <2> QED BY <1>2, <1>3, <2>1 DEF Unending, Held, Entry
<1> QED BY <1>2, <1>8, <1>9 DEF Promised

LEMMA CountPromised ==
  ASSUME CacheInv, Attempt \/ AttemptUncounted
  PROVE  Promised
<1>1. CASE UNCHANGED <<store, expiring, backend>>
  BY <1>1 DEF Promised, Found, Kept, Held, Begun
<1>2. CASE Attempt /\ Held(Login)
  <2>1. Count /\ backend' = backend /\ (expiring' <=> expiring)
    BY <1>2 DEF Attempt
  <2> QED BY <1>2, <2>1, MorePromised
<1>3. CASE AttemptUncounted /\ Held(Login) /\ Count
  BY <1>3, MorePromised DEF AttemptUncounted
<1> QED BY <1>1, <1>2, <1>3, FirstPromised, UncountedPromised DEF AttemptUncounted

\* An EXPIRE that is not sent, or fails, leaves the counter as it is.
LEMMA LossOfEnd ==
  ASSUME CacheInv, expiring, ~expiring', UNCHANGED <<store, backend>>
  PROVE  Promised
<1>1. Login \in Keys /\ backend = "redis" /\ Held(Login) /\ store[Login].left = Forever
      /\ Kept \in [Keys -> Entries]
  BY KeptType DEF Keys, CacheInv, Unended
<1>2. Kept[Login] = store[Login] /\ Found' = Kept
  BY <1>1 DEF Kept, Held, Found
<1>3. Found' = [Found EXCEPT ![Login].left = Forever]
  BY <1>1, <1>2 DEF Found, Entries
<1>4. Promise!LoseAnEnd
  BY <1>1, <1>3 DEF Promise!LoseAnEnd, Promise!LoseEnd
<1>5. Unending'
  BY <1>1 DEF Unending, Held
<1> QED BY <1>4, <1>5 DEF Promised

LEMMA ExpirePromised ==
  ASSUME CacheInv, Expire
  PROVE  Promised
<1>1. Login \in Keys /\ PreviewTypes /\ expiring /\ ~expiring' /\ backend' = backend
  BY DEF Keys, CacheInv, Expire
<1>2. CASE UNCHANGED store
  BY <1>1, <1>2, LossOfEnd
<1>3. CASE store' = [store EXCEPT ![Login].left = Window]
  <2> DEFINE entry == [store[Login] EXCEPT !.left = Window]
  <2>1. Fresh(store[Login]) /\ store[Login] \in Entries
    BY <1>1 DEF CacheInv, Unended, Held, PreviewTypes
  <2>2. entry \in Entries /\ Fresh(entry)
    BY <2>1 DEF Entries, Fresh
  <2>3. store' = [store EXCEPT ![Login] = entry]
    BY <1>3
  <2>4. Kept' = [Kept EXCEPT ![Login] = entry]
    BY <1>1, <2>2, <2>3, OneKey DEF Seen
  <2>5. Kept[Login] = store[Login] /\ Kept \in [Keys -> Entries]
    BY <1>1, <2>1, KeptType DEF Kept, Held
  <2>6. Found' = Found
    BY <1>1, <2>4, <2>5 DEF Found
  <2>7. Promise!Return(Login)
    BY <1>1, <2>6 DEF Promise!Return
  <2> QED BY <1>1, <2>7 DEF Promised, Promise!Next
<1> QED BY <1>2, <1>3 DEF Expire

LEMMA SetPromised ==
  ASSUME CacheInv, NEW t \in Tokens, SetToken(t), ~UNCHANGED store
  PROVE  Promised
<1>1. t \in Keys /\ t # Login /\ PreviewTypes /\ UNCHANGED <<backend, expiring>>
  BY DEF Keys, CacheInv, SetToken
<1>2. store' = [store EXCEPT ![t] = Entry(1, PreviewTTL)]
  BY DEF SetToken
<1>3. Entry(1, PreviewTTL) \in Entries /\ Seen(Entry(1, PreviewTTL)) = Entry(1, PreviewTTL)
  BY EntryType DEF Seen, Fresh, Entry
<1>4. Kept' = [Kept EXCEPT ![t] = Entry(1, PreviewTTL)] /\ Kept \in [Keys -> Entries]
  BY <1>1, <1>2, <1>3, OneKey, KeptType
<1>5. Found' = [Found EXCEPT ![t] = Entry(1, PreviewTTL)]
  BY <1>1, <1>4 DEF Found
<1>6. Promise!Set(t)
  BY <1>1, <1>5, NewEntries DEF Promise!Set
<1> QED BY <1>1, <1>6 DEF Promised, Promise!Next

\* What removes only what is not found goes unseen.
LEMMA RemovalUnseen ==
  ASSUME CacheInv, Sweep \/ \E t \in Tokens : Visit(t)
  PROVE  Promised
<1>1. UNCHANGED <<backend, expiring>>
  BY DEF Sweep, Visit
<1>2. \A key \in Keys : Fresh(store[key]) => store'[key] = store[key]
  BY DEF Sweep, Visit, Held, CacheInv, PreviewTypes
<1>3. \A key \in Keys : ~Fresh(store[key]) => ~Fresh(store'[key])
  BY AbsentSeen DEF Sweep, Visit, Held, CacheInv, PreviewTypes
<1>4. Kept' = Kept
  BY <1>2, <1>3 DEF Kept, Held
<1> QED BY <1>1, <1>4 DEF Promised, Found, Begun

LEMMA LaterSeen ==
  ASSUME NEW entry \in Entries, Lasting(entry)
  PROVE  Seen(Aged(entry)) \in Promise!Older(Seen(entry))
<1>1. CASE ~Fresh(entry)
  BY <1>1, AbsentSeen, KeysOnly DEF Seen, Aged, Promise!Older
<1>2. CASE Fresh(entry) /\ entry.left = Forever
  BY <1>2 DEF Seen, Aged, Promise!Older
<1>3. CASE Fresh(entry) /\ entry.left # Forever
  <2> DEFINE older == [entry EXCEPT !.left = @ - 1]
  <2>1. entry.left \in Nat /\ entry.count > 0 /\ entry # Absent
    BY <1>3, AbsentSeen DEF Lasting, Fresh
  <2>2. older.left = entry.left - 1 /\ older.count = entry.count
    BY DEF Entries
  <2>3. older # Absent
    BY <2>1, <2>2 DEF Absent, Entry
  <2>4. Promise!Older(entry) =
          {e \in {Absent, older} : IF e = Absent THEN entry.left <= 1 ELSE entry.left >= 1}
    BY <1>3, <2>1, KeysOnly DEF Promise!Older
  <2>5. CASE backend = "redis" /\ entry.left = 1
    <3>1. Aged(entry) = Absent
      BY <1>3, <2>5 DEF Aged
    <3> QED BY <1>3, <2>4, <2>5, <3>1, AbsentSeen DEF Seen
  <2>6. CASE ~(backend = "redis" /\ entry.left = 1)
    <3>1. Aged(entry) = older
      BY <1>3, <2>6 DEF Aged
    <3>2. CASE entry.left = 0
      <4>1. ~Fresh(older)
        BY <2>2, <3>2 DEF Fresh
      <4> QED BY <1>3, <2>4, <3>1, <3>2, <4>1 DEF Seen
    <3>3. CASE entry.left # 0
      <4>1. Fresh(older) /\ entry.left >= 1
        BY <2>1, <2>2, <3>3 DEF Fresh
      <4> QED BY <1>3, <2>3, <2>4, <3>1, <4>1 DEF Seen
    <3> QED BY <3>2, <3>3
  <2> QED BY <2>5, <2>6
<1> QED BY <1>1, <1>2, <1>3

LEMMA TickPromised ==
  ASSUME CacheInv, store' = [key \in Keys |-> Aged(store[key])], UNCHANGED <<backend, expiring>>
  PROVE  Promised
<1>1. \A key \in Keys : store[key] \in Entries /\ Lasting(store[key])
  BY DEF CacheInv, PreviewTypes
<1>2. /\ \A key \in Keys : Kept[key] = Seen(store[key])
      /\ Kept' = [key \in Keys |-> Seen(Aged(store[key]))]
  BY DEF Kept, Held, Seen
<1>3. \A key \in Keys : Kept'[key] \in Promise!Older(Kept[key])
  BY <1>1, <1>2, LaterSeen
<1>4. Login \in Keys /\ Found' = [key \in Keys |-> Found'[key]]
  BY <1>2 DEF Found, Keys
<1>5. \A key \in Keys : Found'[key] \in Promise!Later(key)
  <2>1. CASE ~expiring
    BY <1>3, <2>1 DEF Found, Promise!Later
  <2>2. CASE expiring
    <3>1. Kept'[Login] = Kept[Login]
      BY <1>1, <1>2, <1>4, <2>2, AgedLasts DEF CacheInv, Unended
    <3>2. Found'[Login] = Found[Login]
      BY <1>2, <1>4, <2>2, <3>1 DEF Found, Kept
    <3>3. ASSUME NEW key \in Keys, key # Login
          PROVE  Found'[key] = Kept'[key] /\ Found[key] = Kept[key]
      BY <2>2, <3>3 DEF Found, Kept
    <3> QED BY <1>3, <2>2, <3>2, <3>3 DEF Promise!Later
  <2> QED BY <2>1, <2>2
<1>6. Found' \in [Keys -> UNION {Promise!Later(key) : key \in Keys}]
  BY <1>4, <1>5
<1>7. Promise!Tick
  BY <1>5, <1>6, KeysOnly DEF Promise!Tick
<1> QED BY <1>7 DEF Promised, Promise!Next

LEMMA LossPromised ==
  ASSUME CacheInv, LoseMemory
  PROVE  Promised
<1>1. CASE backend = "redis" /\ expiring
  BY <1>1, LossOfEnd DEF LoseMemory
<1>2. CASE backend = "redis" /\ ~expiring
  BY <1>2 DEF LoseMemory, Promised, Found, Kept, Held, Begun
<1>3. CASE backend # "redis"
  <2>1. Found' = [key \in Keys |-> Absent]
    BY <1>3, AbsentSeen DEF LoseMemory, Found, Kept, Held
  <2>2. Promise!Forget
    BY <1>3, <2>1, KeysOnly DEF Promise!Forget, LoseMemory
  <2> QED BY <2>2 DEF Promised, Promise!Next, LoseMemory
<1> QED BY <1>1, <1>2, <1>3

LEMMA InitPromised == Init => Promise!Init
<1> SUFFICES ASSUME Init PROVE Promise!Init
  OBVIOUS
<1>1. Found = [key \in Keys |-> Absent] /\ ~expiring
  BY AbsentSeen DEF Init, InitCache, Found, Kept, Held
<1> QED BY <1>1, KeysOnly DEF Promise!Init

LEMMA StepPromised ==
  ASSUME CacheInv, [Next]_vars
  PROVE  Promised
<1>1. CacheForm /\ backend' = backend
  BY CacheForms DEF CacheInv
<1>2. UNCHANGED <<store, expiring>> => Promised
  BY <1>1 DEF Promised, Found, Kept, Held, Begun
<1> QED
  BY <1>1, <1>2, CountPromised, ExpirePromised, SetPromised, RemovalUnseen, TickPromised,
     LossPromised DEF CacheForm

\* Theorem: for any number of previews, any limit, window and lifetime, and any
\* failures, what lookups find behaves as Expiring says, with either backend,
\* but for counters of Redis that lose their end while they begin.
THEOREM CachePromiseKept == Spec => CacheKeepsPromise
<1>1. CacheInv /\ [Next]_vars => [Promise!Next \/ Promise!LoseAnEnd]_(Promise!vars)
  BY StepPromised DEF Promised, Promise!vars, Begun
<1> QED BY <1>1, InitPromised, AlwaysCacheInv, PTL DEF Spec, CacheKeepsPromise, Promise!LossySpec

\* Theorem: as long as no counter is left without an end (LimitLifts excepts the
\* same), the promise of the interface is kept in full, first increments included.
THEOREM FullPromiseKept == Spec /\ []~Unending => Promise!Spec
<1>1. CacheInv /\ [Next]_vars /\ ~Unending' => [Promise!Next]_(Promise!vars)
  BY StepPromised DEF Promised, Promise!vars, Begun
<1> QED BY <1>1, InitPromised, AlwaysCacheInv, PTL DEF Spec, Promise!Spec

\* The memory sets the end of a counter with its first increment.
Ended == backend = "memory" /\ store[Login].left # Forever

LEMMA EndedKept ==
  ASSUME CacheInv, Ended, [Next]_vars
  PROVE  Ended'
<1>1. CacheForm /\ backend' = backend /\ backend = "memory" /\ ~expiring
  BY CacheForms DEF CacheInv, Ended, Unended
<1>2. Login \in Keys /\ store[Login] \in Entries /\ store[Login].left # Forever /\ PreviewTypes
  BY DEF Keys, CacheInv, PreviewTypes, Ended
<1>3. Absent.left # Forever /\ Hit(store[Login]).left # Forever
  <2>1. Fresh(store[Login]) => Hit(store[Login]).left = store[Login].left
    BY <1>2, HitFacts
  <2>2. ~Fresh(store[Login]) => Hit(store[Login]).left = Window
    BY <1>1 DEF Hit, Entry
  <2> QED BY <1>2, <2>1, <2>2 DEF Absent, Entry
<1>4. Aged(store[Login]).left # Forever
  BY <1>1, <1>2 DEF Aged, Entries
<1>5. store'[Login] \in {store[Login], Absent, Hit(store[Login]), Aged(store[Login])}
  <2>1. CASE Attempt \/ AttemptUncounted
    BY <1>2, <2>1 DEF Attempt, AttemptUncounted, Count, PreviewTypes
  <2>2. CASE Expire \/ UNCHANGED <<store, expiring>>
    BY <1>1, <2>2 DEF Expire
  <2>3. CASE Sweep \/ LoseMemory
    BY <1>2, <2>3 DEF Sweep, LoseMemory
  <2>4. ASSUME NEW t \in Tokens, Visit(t) \/ SetToken(t)
        PROVE  store'[Login] = store[Login]
    BY <1>2, <2>4 DEF Visit, SetToken, PreviewTypes
  <2>5. CASE store' = [key \in Keys |-> Aged(store[key])]
    BY <1>2, <2>5
  <2> QED BY <1>1, <2>1, <2>2, <2>3, <2>4, <2>5 DEF CacheForm
<1> QED BY <1>1, <1>2, <1>3, <1>4, <1>5 DEF Ended

\* Theorem: the memory keeps the promise in full, whatever fails.
THEOREM MemoryKeepsFullPromise == Spec /\ backend = "memory" => Promise!Spec
<1>1. Init /\ backend = "memory" => Ended
  BY DEF Init, InitCache, Ended, Absent, Entry, Keys
<1>2. CacheInv /\ Ended /\ [Next]_vars => Ended'
  BY EndedKept
<1>3. Ended => ~Unending
  BY DEF Ended, Unending
<1> QED BY <1>1, <1>2, <1>3, AlwaysCacheInv, FullPromiseKept, PTL DEF Spec

MediaTypes ==
  /\ uploads \in [Uploads -> {"new", "stored", "undo", "over"}]
  /\ rows \subseteq Uploads /\ objects \subseteq Uploads /\ dropping \subseteq Uploads

\* A row comes once, after its object; while the object may be deleted, the
\* row is gone or its upload has not heard of it.
Ordered(o) ==
  /\ uploads[o] = "new" => o \notin objects \cup rows \cup dropping
  /\ uploads[o] = "stored" => o \in objects /\ o \notin rows \cup dropping
  /\ uploads[o] = "undo" /\ o \in rows => o \in unheard
  /\ o \in dropping => o \notin rows
  /\ o \in rows => o \in objects \cup unheard

Accounted(o) ==
  o \in objects \ (rows \cup failed) => o \in dropping \/ uploads[o] \in {"stored", "undo"}

MediaInv == MediaTypes /\ \A o \in Uploads : Ordered(o) /\ Accounted(o)

LEMMA MediaTypesKept ==
  ASSUME MediaTypes, MediaStep \/ Stop
  PROVE  MediaTypes'
<1>1. ASSUME NEW o \in Uploads, Put(o) \/ PutFails(o) \/ InsertMedia(o) \/ InsertFails(o)
      PROVE  MediaTypes'
  BY <1>1 DEF MediaTypes, Put, PutFails, InsertMedia, InsertFails, At
<1>2. ASSUME NEW o \in Uploads, DropRow(o) \/ DeleteObject(o)
      PROVE  MediaTypes'
  BY <1>2 DEF MediaTypes, DropRow, DeleteObject, At
<1>3. CASE Stop
  BY <1>3 DEF MediaTypes, Stop, EndRequests
<1> QED BY <1>1, <1>2, <1>3 DEF MediaStep

\* A request leaves the rows and objects of the other uploads alone.
LEMMA OtherUpload ==
  ASSUME MediaTypes, NEW o \in Uploads, NEW p \in Uploads, o # p, Ordered(o), Accounted(o),
         \/ Put(p) \/ PutFails(p) \/ InsertMedia(p) \/ InsertFails(p)
         \/ DropRow(p) \/ DeleteObject(p)
  PROVE  Ordered(o)' /\ Accounted(o)'
<1>1. /\ uploads'[o] = uploads[o]
      /\ (o \in rows)' <=> o \in rows
      /\ (o \in objects)' <=> o \in objects
      /\ (o \in dropping)' <=> o \in dropping
      /\ (o \in unheard)' <=> o \in unheard
      /\ (o \in failed)' <=> o \in failed
  <2>1. CASE Put(p) \/ PutFails(p) \/ InsertMedia(p) \/ InsertFails(p)
    BY <2>1 DEF Put, PutFails, InsertMedia, InsertFails, At, MediaTypes
  <2>2. CASE DropRow(p) \/ DeleteObject(p)
    BY <2>2 DEF DropRow, DeleteObject, At, MediaTypes
  <2> QED BY <2>1, <2>2
<1> QED BY <1>1 DEF Ordered, Accounted

LEMMA OwnUpload ==
  ASSUME MediaTypes, NEW o \in Uploads, Ordered(o), Accounted(o),
         \/ Put(o) \/ PutFails(o) \/ InsertMedia(o) \/ InsertFails(o)
         \/ DropRow(o) \/ DeleteObject(o)
  PROVE  Ordered(o)' /\ Accounted(o)'
<1> USE DEF Ordered, Accounted, MediaTypes
<1>1. CASE Put(o)
  BY <1>1 DEF Put, At
<1>2. CASE PutFails(o)
  BY <1>2 DEF PutFails, At
<1>3. CASE InsertMedia(o)
  BY <1>3 DEF InsertMedia, At
<1>4. CASE InsertFails(o)
  BY <1>4 DEF InsertFails, At
<1>5. CASE DropRow(o)
  BY <1>5 DEF DropRow
<1>6. CASE DeleteObject(o)
  BY <1>6 DEF DeleteObject, At
<1> QED BY <1>1, <1>2, <1>3, <1>4, <1>5, <1>6

LEMMA MediaInvKept == MediaInv /\ [Next]_vars => MediaInv'
<1> SUFFICES ASSUME MediaInv, [Next]_vars PROVE MediaInv'
  OBVIOUS
<1>1. CASE MediaStep
  <2>1. MediaTypes'
    BY <1>1, MediaTypesKept DEF MediaInv
  <2>2. ASSUME NEW o \in Uploads
        PROVE  Ordered(o)' /\ Accounted(o)'
    BY <1>1, OwnUpload, OtherUpload DEF MediaInv, MediaStep
  <2> QED BY <2>1, <2>2 DEF MediaInv
<1>2. CASE Stop
  <2>1. MediaTypes'
    BY <1>2, MediaTypesKept DEF MediaInv
  <2>2. ASSUME NEW o \in Uploads
        PROVE  Ordered(o)' /\ Accounted(o)'
    BY <1>2 DEF MediaInv, MediaTypes, Ordered, Accounted, Stop, EndRequests
  <2> QED BY <2>1, <2>2 DEF MediaInv
<1>3. CASE UNCHANGED mediaVars
  BY <1>3 DEF MediaInv, MediaTypes, Ordered, Accounted, mediaVars
<1> QED BY <1>1, <1>2, <1>3 DEF Next, Start, vars

LEMMA AlwaysMediaInv == Spec => []MediaInv
<1>1. Init => MediaInv
  BY DEF Init, InitMedia, MediaInv, MediaTypes, Ordered, Accounted
<1> QED BY <1>1, MediaInvKept, PTL DEF Spec

\* Theorem: for any number of uploads and failures, every row has its object
\* unless its upload never heard of the row.
THEOREM RowsHaveObjects == Spec => []RowHasObject
<1>1. MediaInv => RowHasObject
  BY DEF MediaInv, MediaTypes, Ordered, RowHasObject
<1> QED BY <1>1, AlwaysMediaInv, PTL

\* Theorem: for any number of uploads and failures, an object without a row is
\* about to be deleted, or the request that should have done so failed.
THEOREM ObjectsAreAccounted == Spec => []ObjectsAccounted
<1>1. MediaInv => ObjectsAccounted
  BY DEF MediaInv, MediaTypes, Accounted, ObjectsAccounted
<1> QED BY <1>1, AlwaysMediaInv, PTL
==============================================================================
