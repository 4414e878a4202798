# Verification of the AI website builder

The program is a multi-tenant CMS in Go: editors change pages built from block
types, an administrator presses *Publish*, and the server freezes the content,
renders a static site, keeps it under `var/sites/<website>`, pushes it to a
GitHub repository and may wait for Cloudflare Pages.  State lives in
PostgreSQL, in a cache (Redis, or one map per process), in an object store and
on the local disk.  No handler uses a transaction: every statement is a step
of its own, and other requests and processes run between two of them.  That is
what this project is about.

## The system

| component | state | operations | hard behaviour | correct means |
|---|---|---|---|---|
| Publisher (`internal/publish/publisher.go`, `handlers_publish.go`) | `deployments`, `content_snapshots`, `var/sites`, `github_repo` in `websites.settings_json`, lock `deploylock:<id>` | publish, rollback, the goroutine of a deployment | two publishes at once, lock expiry, lost replies, process stops, ten-minute timeout | one publish at a time; a success is served and pushed; a failure stays one; the lock comes back |
| GitHub client (`github.go`) | repositories | ensure, clone, commit, push | clone errors, pushes whose reply is lost, nothing to commit | history kept; what succeeded is in the branch |
| Cloudflare client (`cloudflare.go`) | none | poll for a commit | never answers, old outcome | ends |
| Cache (`internal/cache`) | keys with a TTL | Get, Set, Delete, SetNX, Incr | Redis errors are swallowed; INCR and EXPIRE are two commands; the map keeps expired entries for a while | SetNX admits one; a limit opens again |
| Previews (`BuildPreview`, `PreviewValid`, the janitor) | `var/previews/<token>`, `preview:<token>` in the cache | build, visit, clean up | two clocks that do not know each other: the TTL of the token and the age of the directory | a valid preview is whole; an old one goes |
| Snapshot builder (`snapshot.go`) | none | reads types, website, pages, sections, media | edits between the queries | a snapshot renders |
| Pages, sections, block types (`handlers_pages.go`, `handlers_sectiontypes.go`, `models/sectiontypes.go`) | `pages`, `sections`, `section_types` | create, update, delete, reorder, archive | check-then-act; validation against a schema that changes | no section without its type |
| Generator (`internal/generator`) | output directory | render | replaces the directory in place | output exactly reflects the snapshot |
| Sessions (`handlers_auth.go`, `internal/auth`) | `users`, `refresh_tokens` | login, refresh, logout, change password | two refreshes with one token; login racing a change of password; replies that are lost | a used token opens nothing; a change of password ends older sessions |
| Tenants (`handlers_tenants.go`, `db/seed.go`) | `tenants`, `tenant_users`, `section_types` | create and seed, invite, roles, removal | partial failure between inserts; two invitations of one address | a tenant has its block types; a password that was given away opens its account |
| Media (`handlers_media.go`, `internal/storage`) | `media`, object store | upload, delete | store and table written one after the other | every row has its object |
| Start-up (`cmd/server`, `internal/db`) | schema, first administrator | migrate, bootstrap, backfill | several servers start at once, beside one that serves | one of them comes up; nothing is done twice |
| Dashboard (`web/admin/app.js`) | tokens in memory and in localStorage, form values | API calls with refresh, settings form | tabs that share localStorage; forms loaded long before they are saved | no dead token, no lost setting |

Components meet in these places: the publisher takes its lock in the cache,
where previews keep their tokens and logins their count;
publishing reads what the editors write (the snapshot) and writes
`github_repo` into the row that the settings form replaces as a whole;
the goroutine of a deployment lives in a process that may stop at any moment
while Redis, PostgreSQL and GitHub go on; a server that starts seeds tenants
while requests of another create them; and a published site links to media
objects an editor may delete.  `PROJECT.json` lists every hazard with its line.

## Modules

| module | what it is |
|---|---|
| `Publish` | the publisher of one website, step by step |
| `SerialPublish` | what publishing promises, as an abstract specification |
| `MCPublish` | constant values and symmetry for TLC |
| `PublishProofs` | types and mutual exclusion of `Publish`, proved; the frame lemmas the next three modules use |
| `StatusProofs` | the lock has a holder, statuses are final and are recorded, proved |
| `CommitProofs` | the branches and what a success names, proved |
| `SerialProofs` | `Publish` implements `SerialPublish`, proved |
| `SectionTypes` | block type schemas and section content: pure operators |
| `Content` | block types, pages, sections, media and the snapshot of one website |
| `MCContent` | schemas, contents and symmetry for TLC |
| `ContentProofs` | theorems about `Content` and `SectionTypes` |
| `Sessions` | refresh tokens, the handlers that rotate them, the tabs that hold them |
| `MCSessions` | symmetry for TLC |
| `SessionProofs` | theorems about `Sessions` |
| `Tenants` | tenants, block types and accounts, as requests write them |
| `Startup` | servers that start and stop on one database, beside those requests |
| `TenantProofs` | theorems about `Tenants` and `Startup` together |
| `ServerProcess` | the process the next three modules run in, how it stops and starts, and its failures |
| `Cache` | entries with an expiry in Redis or in memory; the login limit |
| `Expiring` | what both caches promise their callers, implemented by `Cache` |
| `Previews` | preview builds and the janitor, over `Cache` |
| `Media` | media rows and objects |
| `Files` | `Previews` and `Media` in one server that stops and starts |
| `FilesProofs` | theorems about `Files` |

`Startup` extends `Tenants`; `Files` composes `Previews`, which extends
`Cache`, with `Media`.  `SerialPublish` is what `Publish` implements,
`Expiring` what `Cache` does; `Content` extends `SectionTypes`.
`Publish` takes a snapshot in one step, a model value; `Content` is what
happens inside that step.

### Publish

| variable | code |
|---|---|
| `website` | the row of `websites`: the content a build would render now (`draft`), and the setting `github_repo` (`repo`, `Nil` when empty) |
| `lock` | time the key `deploylock:<id>` still has, 0 when it is absent |
| `deployments` | the table: status, snapshot, `github_repo`, `git_commit_hash` |
| `requests` | the requests inside `StartPublish`: before SetNX, before the INSERT, before the Delete of the error path |
| `workers` | the goroutine of each deployment: where it is in `run` and `deployToGitHub`, what is left of its context (`budget`), how long it has run since that expired (`over`), the head of its clone, and what `Push` returned (`hash`, 0 when that names no commit) |
| `site` | the draft `var/sites/<id>` shows in full; `Nil` when it is missing or partial |
| `commits` | the main branch of each repository: of each commit its content, whether this publisher made it (`ours`), and what Cloudflare made of it |

There is one action per statement that another actor can see.

| action | code |
|---|---|
| `EditContent`, `SaveSettings` | the editor; the settings form, which sends back the `github_repo` it loaded, or one that was typed |
| `HandlePublish`, `HandleRollback` | `handlers_publish.go`: freeze the draft, or take the snapshot of a succeeded deployment |
| `AcquireLock`, `StartDeployment`, `InsertFails`, `AbandonLock` | `StartPublish` |
| `StartBuilding`, `Build`, `ClearSite`, `WriteSite`, `Finish` | `run`; the second `Generate` is two steps because it removes before it writes |
| `StartDeploying`, `SaveRepo`, `CloneRepo`, `PushCommit`, `PushNothing`, `RecordCommit`, `AwaitPages` | `deployToGitHub`, `EnsureRepo`, `Push`, `AwaitDeployment` |
| `Fail`, `Release` | `fail`, the deferred Delete |
| `OtherPush` | somebody else's push: another website whose `github_repo` names the repository, or a person |
| `PagesOutcome`, `Crash`, `Tick` | Cloudflare; the end of a process; time |

What is abstracted: a draft is a model value that stands for everything the
build reads, the name included (`RepoName` gives the repository derived from
it), and equal drafts build equal files.  A snapshot id is replaced by the
snapshot, since rows of `content_snapshots` are never changed.  A commit id is
its place in the branch.  `Push` drops the error of the `rev-parse` that names
the commit when there was nothing to commit; `PushNothing` then returns 0.  A panic in `run` ends in `fail` as an error does.
The audit log and the `cloudflare_*` columns are left out: nothing reads them.

Three assumptions bound what is modelled.  Nobody else pushes to a repository
by force; what others push is content the website might have, since only that
can be confused with a build of its own.  All processes see one `DATA_DIR`
and one cache, Redis when there are several.  A publish reads the draft in one
step; its queries are the subject of `Content`.

*Faults.*  Any call bound to the worker's context may be refused, or take
effect and lose its reply, if its kind is in `Faults`; once `budget` is 0
every one is refused (`Call`).  The Delete and SetNX of Redis swallow errors
(`"cache"`).  The calls of a request stop when its client goes away
(`"client"`), the Delete that should give the lock back included; a worker's
do not.  `Crash` stops any set of requests and workers when the cache is
shared, and everything, the lock included, when it is not.

*Time.*  `Tick` ages the lock, the contexts and the two delays that nothing in
the code limits: `InsertDelay`, from SetNX to the start of the goroutine, and
`Overrun`, what `run` does after its context expired (writing files does not
look at it; neither does the deferred Delete).  The constants `lockTTL` = 15
and `publishTimeout` = 10 minutes leave five for both.  `LockTiming`
says so, and mutual exclusion depends on it: the code does not enforce it.  A
request blocked on the connection pool for more than five minutes before its
INSERT, followed by a publish that uses its ten, would run beside another one.

### SerialPublish

Deployments begin, render, push, succeed or fail and stop.  At most one is
between begin and stop; only that one touches the site and, beside those who
push on their own, the branches, and only with its own content; it succeeds
only when the site shows its content and, with GitHub, a branch holds it and
has had nothing since but what others pushed.  A failure may follow a success
(the reply to the UPDATE was lost), a success never follows a failure.
`Publish` implements it under the mapping at its end: the phase is that of the
goroutine, the result is the status when it is final.

### SectionTypes and Content

A schema is a function from keys to fields, an object one from keys to values;
a value is a string or a list of objects, and a string is a media id or a word.
Field types whose value is stored as it came and which name no file are one
type.  `ValidateSchema`, `NormalizeContent` and `CollectMediaIDs` are the
functions of `models/sectiontypes.go`; `RenderedImages` is the set of ids
`buildBlock` and `buildItem` look up in the snapshot, and `Renders` says whether
they get that far: content that is no object is an error of the whole build.

| variable | code |
|---|---|
| `types` | `section_types`: status and schema of each key |
| `pages`, `sections`, `media` | the rows; deleted identities stay deleted |
| `requests` | what a request has read and not yet written |
| `build` | `BuildSnapshot`: the query it is at and what it has gathered |
| `quiet` | not in the code: nothing was edited since the build began |

| action | code |
|---|---|
| `CreateSectionType`, `UpdateSectionType` | one statement each, guarded by `ValidateSchema` and by the status in the WHERE clause |
| `CheckUsage`, `ArchiveSectionType` | `handleArchiveSectionType`: the count, then the UPDATE |
| `LoadForCreate`, `CreateSection` | `handleCreateSection`: page and type looked up, content normalized; then the INSERT, which the foreign key refuses when the page is gone |
| `LoadForUpdate`, `UpdateSection`, `SetSectionStatus` | `handleUpdateSection` with and without content; an error of the type query stores the content as it came |
| `DeleteSection`, `SetPageStatus`, `DeletePage`, `DeleteMedia` | one statement each; sections go with their page |
| `ReadTypes`, `ReadPages`, `ReadSections`, `ReadMedia`, `EndBuild` | `BuildSnapshot` and the return of its caller |

`LoadForCreate` looks up the page and the type in one step, `LoadForUpdate`
the section and its type: nothing between the two queries changes what the
statement after them does, since a page or section that disappears is refused
there and a type only matters once read.  Left out: the order of pages and
sections, titles and slugs, the website's row, and the creation of pages and
media (identities nobody could refer to before; all exist at the start).

### Sessions

| variable | code |
|---|---|
| `password` | `users.password_hash`, as the number of changes so far |
| `status` | the rows of `refresh_tokens`: absent, valid, `spent` (revoked by the refresh or logout that presented it), `ended` (expired, or revoked with all others) |
| `origin` | not in the code: the token it was exchanged for, the password its session goes back to, and whether all tokens were revoked while its request was served |
| `requests` | a call to `handlers_auth.go`: what it is, the next statement, what it has read |
| `tabs`, `stored` | `S.refresh` of each tab, `cms_refresh` in localStorage |
| `forced`, `interrupted` | not in the code: the last change of password has revoked the tokens; a page was reloaded while a call with the stored token was under way |

| action | code |
|---|---|
| `Login`, `IssueTokens`, `NotIssued` | `handleLogin`: the query for the user; `issueTokens`: the INSERT |
| `TryRefresh`, `SelectToken`, `RevokeUsed`, `IssueTokens` and their `Not...` | `tryRefresh` of the dashboard; `handleRefresh`, statement by statement |
| `Logout`, `RevokeOnLogout` | the button; `handleLogout` |
| `CheckCurrent`, `UpdatePassword`, `RevokeAll`, `RevokeAllFails`, `ChangeFails` | `handleChangePassword`, which drops the error of its last statement |
| `Answer` | the `.then` of the call: `setTokens`, `clearSession`, or nothing when the page is gone |
| `Boot` | `boot` after a load: the tab takes what localStorage holds |
| `Expire` | `expires_at` passes |

Every statement may not be carried out, or lose its reply (`"db"`).  Access
tokens are left out: a call may be answered 401 at any time.  That one lives
up to fifteen minutes after a change of password is outside the properties.

### Tenants and Startup

| variable | code |
|---|---|
| `tenants`, `types` | `tenants`; per tenant and key of `section_types`, nothing, the starter, or an own or changed one |
| `accounts` | `users`: of each address, who generated its password |
| `requests` | `handleCreateTenant` and `handleInviteUser`, by their next statement |
| `applied` | `schema_migrations`: 0 for the table itself, and its rows |
| `servers` | a process between `db.Connect` and serving: which migration, which tenant, which starter is next |
| `created`, `told`, `cut`, `lost`, `calm` | not in the code: tenants answered 201, passwords given away or logged, libraries and accounts somebody failed to finish, and whether any process failed |
| `starts` | a bound |

| action | code |
|---|---|
| `CreateTenant`, `SeedCreated` | `handleCreateTenant`, `SeedSectionTypes`: one INSERT per starter |
| `Invite`, `InsertUser`, `AssignUser` | `handleInviteUser`: the lookup, the INSERT that a unique address may refuse, the membership and the answer |
| `RequestFails` | a statement or its reply fails, or the client goes away |
| `EditType` | any change of a block type (the subject of `Content`) |
| `Start`, `CheckApplied`, `ApplyMigration` | `db.Connect`, `migrate`: one transaction per file, the loser of two fails and its process ends |
| `CountUsers`, `CreateAdmin`, `LogPassword` | `bootstrapAdmin` |
| `ListTenants`, `SeedListed` | `BackfillSectionTypes` |
| `ServerFails`, `Stop`, `Crash` | `log.Fatalf`; SIGTERM, which waits for the requests; a process that dies with them |

Roles, memberships and the status of a tenant are left out: they decide who may
call a handler, never what it does.

### Cache, Previews, Media and Files

| variable | code |
|---|---|
| `backend` | `REDIS_ADDR` set or not |
| `store` | of each preview token and of the login key: count and ticks left; -1 is an entry of the map past its time, `Forever` a Redis key without an expiry |
| `expiring` | a request is between INCR and EXPIRE |
| `previews`, `dirs` | where `BuildPreview` of a token is; files and age (ticks since its modification time) of its directory |
| `doomed`, `sleep` | the run of `janitor`: directories found old and not yet removed; ticks until the next run |
| `uploads`, `dropping` | requests between the store and the table, in either direction |
| `rows`, `objects` | table `media`; disk or bucket |
| `unheard`, `failed` | not in the code: uploads whose INSERT took effect without their knowing; objects that a failure left |
| `up`, `faults` | the process; the bound on what fails |

| action | code |
|---|---|
| `Attempt`, `AttemptUncounted`, `Expire` | `rateLimit` with `Incr` of either backend: counted, failed (then 0 is returned and the attempt admitted), and the second command of Redis |
| `Visit`, `Sweep` | the lazy deletion in `memCache.get`, the minute's sweep |
| `Generate`, `Generated`, `GenerateFails`, `SetToken` | `BuildPreview` |
| `Scan`, `RemoveSome`, `RemoveRest`, `RemoveFails` | `janitor`: the old directories, and `os.RemoveAll` in two steps |
| `Put`, `InsertMedia`, `DeleteObject` and `...Fails` | `handleUploadMedia` |
| `DropRow`, `DeleteObject` | `handleDeleteMedia` |
| `Stop`, `Start`, `Tick` | the process, whose memory is lost; time |

Two clocks meet here.  A token is valid for `previewTTL` from the moment it is
set; its directory is removed an hour after its last change, by a janitor that
never looks at the cache.  `PreviewAssumption` names what makes that safe,
`BuildTicks + PreviewTTL <= KeepDirs`: half an hour passes at most between the
last file of a build and its token.  The code does not enforce it; it holds
because a build writes files and does nothing else.

`Expiring` is the interface of `internal/cache` as an abstract specification:
values live as long as they were set to, a counter has its end from the first
increment on ("ttl applied on first increment", `cache.go:23`), counted from
some moment of that call (`begun` holds the counters whose first call has not
returned), and nothing moves it.  `Expiring!Spec` is all of that.  The
in-process map implements it.  Redis does not: INCR and EXPIRE are two commands,
and when the reply to the first or the second itself is lost the counter has no
end (`cache.go:60-66`).  `Expiring!LossySpec` gives up this one clause, by the
actions `FirstUnended` and `LoseEnd`; `CacheKeepsPromise` is that `Cache`
implements `LossySpec`, and the theorems below that every behaviour without
such a loss implements `Spec`.

## Runs

| run | checks | bounds |
|---|---|---|
| `publish_local` | `MutualExclusion`, `LockOutlivesHolder`, `NoStrayLock`, `FinalStatusKept`, `SerialSpec` | no GitHub, one process; database and file calls fail, clients go away; 2 requests, 2 deployments, 3 drafts of which one has no visible page |
| `publish_github` | `TypeOK`, `MutualExclusion`, `LockOutlivesHolder`, `OutcomeRecorded`, `SuccessIsPushed`, `HistoryPreserved`, `FinalStatusKept`, `SerialSpec` | GitHub, Redis; git calls fail, processes stop, somebody else pushes once to the branch; 2 deployments, 2 drafts |
| `publish_live` | `OutcomeRecorded`, `WorkerEnds`, `LockFreed` | GitHub and Cloudflare, Redis; cache and Pages calls fail, clients go away, processes stop; 1 draft, a repository may be typed |
| `content_edit` | `TypeOK`, `NoOrphanSection`, `ArchivedUnused`, `SelfContained`, `QuietSnapshotExact`, `SavingKeepsFiles` | 1 block type, 2 pages, 2 sections, 1 file, 3 schemas of which one is refused; one editing request that takes two steps, any number that take one, one snapshot at a time; the type query may fail |
| `sessions` | `UsedTokenIsSpent`, `ReloginForced`, `StoredTokenWorks` | 3 tokens, 2 tabs, 2 requests at once, 1 change of password; statements fail or lose their reply; symmetry of tokens, tabs and requests |
| `startup` | `LibraryComplete`, `AccountsOpen`, `SchemaInOrder`, `EditsKept`, `NeverAllFail`, `SomeServerStarts` | 2 servers, started twice in all, 2 requests, 2 tenants of which one is older than the last of 2 migrations, 2 starters, the administrator's address and another; statements fail, processes stop and die |
| `files` | `LivePreviewWhole`, `RowHasObject`, `ObjectsAccounted`, `FirstTryAdmitted`, `CacheKeepsPromise`, `LimitLifts`, `PreviewsCleanedUp` | both backends; 1 preview, 1 upload, a limit of 2 in a window of 2 ticks, tokens of 2 ticks, directories of 3, a janitor that sleeps 2; 3 failures or stops |
| `publish_failed_build` | `PublishedSiteSurvives`, violated | one file error is enough |
| `publish_timeout` | `EndedIsFinal`, violated | no fault at all: time is enough |
| `publish_two_repos` | `OneRepository`, violated | no fault, one deployment, nobody types a repository: a form loaded before that publish and saved, with a new name, after it |
| `content_archive` | `ArchivedUnused`, violated | `content_edit` with a second request and no fault |
| `content_word` | `ContentBuilds`, violated | a word that is no media id, a schema whose text field becomes an image |

What properties except, because the code leaves it so: a token of a request
that was being served while all were revoked, or all tokens when the revocation
failed (`ReloginForced`); a tenant whose seeding failed half way (`cut` in
`LibraryComplete`); a password lost by a failure (`lost` in `AccountsOpen`); a
row whose INSERT took effect unheard (`unheard` in `RowHasObject`); an object
whose deletion failed (`failed` in `ObjectsAccounted`).  Two refreshes with one
token may both succeed; `UsedTokenIsSpent` is about the token, not about how
many successors it has.  `LockTiming` keeps workers within their lock in every
run; of what happens beyond it only the theorems that do not assume it speak.

Two deployments are enough for every hazard listed: each is about one publish
and the next one, or one and another at the same time.  Two drafts tell
whose content is served or pushed.  A time unit is long (the TTL is 3 or 4):
what matters is the order of the expiries, and in every run the lock can
expire and be taken again after a crash.  In `publish_github` there is one
request process, since the request side is the subject of `publish_local`;
it still overlaps with workers, because a request returns once its goroutine
runs.  Redis calls that fail are left to `publish_live`: a crash right after
SetNX or right before the Delete leaves the same state.  The foreign commit
holds one of the two drafts, which are alike; one is enough for a push that is
refused, a branch with a foreign commit before, between or after the website's
own, and one that has the content of a build already.  Runs with symmetry check no liveness.

`content_edit` needs two pages because sections are read page by page, and two
sections because a snapshot can hold one and miss the other.  One request that
takes two steps is enough for everything but the race `content_archive`
shows; deletions and the build run beside it.

`startup` needs two servers because what one does in several statements the
other does too, and two starters because a library can then be half there.
`files` needs one preview and one upload, since two share nothing but the
janitor's run and the process; three failures allow a failed build, a removal
that stops half way and a stop of the server in one behaviour, or an INSERT
and then the deletion that undoes it.  The theorems below say that no larger
number breaks the safety properties of these runs.

One run disables the deadlock check: in `startup` all servers may be stopped
and no start left.  Elsewhere an editor can always edit, a request always come
or time pass, so a stuck system would show only in the liveness properties,
and `publish_live`, `startup` and `files` check those.

*Fairness.*  In `Publish`, weak fairness of `Tick` (clocks run), of each
request and of each worker (the Go scheduler, and calls that end because their
context does).  In `Startup`, of each server on its way up, whose statements
have contexts of ten and thirty seconds; nobody has to start one.  In `Files`,
of `Tick`, of the janitor's steps, of each build and of the EXPIRE after the
first INCR, as far as the server is up; it need not come up again, and
`PreviewsCleanedUp` speaks of a server that keeps running.  Nothing is assumed
of editors, users, Cloudflare, or crashes.

`SomeServerStarts` excepts behaviours in which a process fails or one that
serves is stopped while another is starting: a rolling restart whose new server
loses the race for a migration to the old one leaves none, and the code leaves
that to whoever restarts it.  `LimitLifts` excepts a counter that lost its
EXPIRE (`Unending`): nothing in the code ever sets it again.

## What the violated runs show

* `publish_failed_build`: `README.md:57` says "A failed build never touches the
  previously published site."  The temporary build protects against content
  that does not render, not against an error in the second `Generate`, which
  removes the served directory first.
* `publish_timeout`: `publisher.go:80` says "Any returned error marks it
  failed."  The timeout's own error cannot be recorded, because `fail` is
  given the expired context; the row keeps its status for ever.
* `publish_two_repos`: `README.md:5` says "one GitHub repository per website",
  `publisher.go:237` a "stable" name.  The name follows the website's, and the
  setting that pins it is lost to a form loaded before the first publish: the
  form sends back the empty value it loaded, and the UPDATE replaces all
  settings by what was sent.  With one deployment and nobody typing, that is
  the only way: no second publish is under way with an older snapshot.
* `content_archive`: `handlers_sectiontypes.go:148` says archiving is "Refused
  while sections still use it, so pages never reference a missing schema".  A
  section created between the count and the UPDATE does; it is shown nowhere
  from then on, and its content is no longer normalized.  `content_edit` shows
  that the check is right when such requests come one at a time.
* `content_word`: `README.md:46` says "Backend validates content and stores an
  immutable content snapshot".  What the backend accepts into an image field,
  or keeps in a field that becomes one, makes the cast to `uuid[]` fail, and
  nothing of the website can be published until somebody finds the section.

Two more disagreements have no run of their own; passing properties except
them by name:

* `github.go:92-94` says `Push` "Returns the commit hash".  When there was
  nothing to commit it may return an empty string or the error text of `git`
  as the hash, with a nil error (`github.go:153`), and the deployment succeeds
  with it.  `SuccessIsPushed` therefore lets a row name nothing where git calls
  fail (never a commit of other content), and demands without exception that
  the branch holds what was published.
* `cache.go:23` says "ttl applied on first increment".  A Redis counter whose
  EXPIRE is lost has none, ever, and from its limit on every login from that
  address is refused until somebody deletes the key.  `CacheKeepsPromise` and
  `LimitLifts` except that counter and no other.

## Proofs

`PublishProofs` holds, for all values of the constants that satisfy
`PublishAssumption`:

* `TypeCorrect`: `Spec => [](TypeOK /\ HasSnapshot)`.  `HasSnapshot` says that
  a request, a row and a worker exist only with the snapshot they publish;
  types need it, because a row takes the snapshot of its request.
* `OnePublishAtATime`: under `LockTiming`,
  `Spec => [](MutualExclusion /\ LockOutlivesHolder)`.
* `LockIsOutlived`: under `LockTiming`, `Spec => []LockOutlivesHolder`, its
  second half by itself.

Mutual exclusion alone is not inductive: nothing in it says that the key is
still there while its holder works, so the next `AcquireLock` could succeed.
`LockOutlivesHolder` supplies that, as an inequality between the lock's
remaining time and the time its holder may still take.  A `Tick` takes one
from both sides; `StartDeployment` turns what is left of `InsertDelay` into
nothing and hands the rest over; an expiry is then only possible when nobody
holds the lock.  `Release` may delete any lock, but there is only one holder,
the one that releases.  The proof has one lemma per group of actions, first
for types, then for the lock; `Advances` and `KeepsRows` say what
every worker step but the last has in common, so that the lock's argument
looks at four kinds of step and not at fourteen.

`StatusProofs` and `CommitProofs` do not need mutual exclusion, so their
theorems hold even where `LockTiming` does not and two workers run at once:

* `LockHasHolder`: `Spec => []NoStrayLock`.  The property is inductive given
  types: a step that ends a holder deletes the lock in the same step.  It
  survives the worst case, a late `Release` that deletes the lock of another.
* `FinalStatusIsKept`: `Spec => FinalStatusKept`.  The invariant is `Settled`:
  the goroutine of a row with a final status is past the point where it writes
  one, or in `fail` because the reply to the success was lost.  `fail` is thus
  the one place that can turn a success over, and only with a database fault.
* `OutcomeIsRecorded`: `Spec => []OutcomeRecorded`.  Only `Finish` and `Fail`
  lead to the end of the goroutine.
* `HistoryIsPreserved`: `Spec => HistoryPreserved`, by `StepGrows`: every step
  leaves each branch a prefix of what it becomes, Pages outcomes aside.
* `SuccessesArePushed`: `Spec => []SuccessIsPushed`.  The invariant `CommitInv`
  follows a worker: after its push its head is a commit with its content
  (`Pushed`), which its `hash` names unless a git call failed (`Returned`), after
  `RecordCommit` its row says the same (`Named`), and a success still does
  (`Success`).  Branches only grow, so what held once holds.

`SerialProofs` holds `PublishIsSerial`: under `LockTiming`,
`Spec => SerialSpec`.  It rests on all of the above and on one more invariant,
`RefInv`: from the end of its build on, a worker sees its own content served
(`Rendered`), it is in the GitHub steps only when GitHub is configured
(`OnGitHub`), and after its head, unless that is nothing, only others have
added to its branch (`AtTip`).  This is where mutual exclusion matters: with
two workers, one could replace the site or extend the branch under the other.
A stranger can extend it too; then the push is refused, and a push that was
made stays the publisher's last.  Then each group of steps maps
to an abstract step or to none: `StartDeployment` to `Begin`, the two steps of
the build to `Render`, `PushCommit` to `Push`,
`OtherPush` to the action of that name, `Finish` to `Succeed`, `Fail` to
`Fail`, `Release` and `Crash` to `Stop`; everything else is invisible.

`ContentProofs` assumes of the constants only `ContentAssumption`, of which
`SavedFilesAreShown` and `NormalizeTwice` need `OneKind`: a value of JSON is of
one kind, what is left of a list is not a string and of an object is one.
All hold for any number of requests at once, that of `content_archive`
included, and for contents that are no object:

* `SectionsHavePages`: `Spec => []NoOrphanSection`.  The invariant
  needed is `PageInv`: that the tables are functions of rows, that a section
  and a request that creates one name a page.  The argument is in
  `CreateSection`: whatever the request read, the INSERT looks at the page
  again.
* `SnapshotSelfContained`: `Spec => []SelfContained`.  Its heart is the lemma
  `RenderedAreCollected`: for every schema and every content, what the
  generator looks up is what `CollectMediaIDs` collected.  The rest is that
  edits change neither what was gathered nor add files.
* `ContentTypeCorrect`: `Spec => []TypeOK`, with `ValidIsFlat` for the schemas
  and `BuildType` for what a build holds at each point.
* `QuietSnapshotsAreExact`: `Spec => []QuietSnapshotExact`.  The invariant
  `Exact` says what the gathered part must be after each query; the last one
  needs `CollectedAreRendered`, the converse of `RenderedAreCollected`, and
  that sections name types and pages (`Typed`, `Placed`).
* `SavedFilesAreShown`: `Spec => SavingKeepsFiles`.  By `StoredShowsSame` a
  content and what `NormalizeContent` leaves of it show the same files under
  the schema, and by `SchemasSaved` an active type has a schema that was saved.
  With `RenderedAreCollected` and its converse the three readers of a content
  (handler, snapshot, generator) agree on its files.
* `NormalizeTwice`: storing what was stored changes nothing, for every schema
  and content.
* `OneRaceDefeatsArchiving`: `Spec /\ []NoRace => []ArchivedUnused`.  `NoRace`
  forbids one interleaving, the one of `content_archive`: an archiving between
  its count and its UPDATE beside a creation of a section of the same type
  between its look-up and its INSERT.  The theorem says that it is the only
  one: no other overlap of requests, deletions or failed statements brings a
  section of an archived type about.  The invariant is `ChecksHold`: what a
  request has checked is still so.

`SessionProofs` assumes nothing but `SessionsAssumption`:

* `UsedTokensStaySpent`: `Spec => []UsedTokenIsSpent`.  The invariant `Chain`
  says that a parent is dead, spent or ended, and that so is the token of a
  refresh past its UPDATE: the successor comes only from there, and nothing
  brings a token back (`TokenSteps`).
* `PasswordChangeForcesRelogin`: `Spec => []ReloginForced`.  The invariant
  `Current` extends the property to requests that have read their credentials
  and may still issue a token: each carries the current password or was being
  served when the tokens were revoked.
* `StoredTokensWork`: `Spec => []StoredTokenWorks`.  A token is unknown to
  every dashboard until the answer that brings it, and nobody has it then but
  that request (`Unseen`); so an answer never stores a spent token.  And a
  call whose page is gone is one `interrupted` speaks of (`Orphans`).

`TenantProofs` holds for any number of servers, requests, tenants, starters and
migrations:

* `EditsAreKept`: `Spec => EditsKept`, from types alone: the INSERT has
  ON CONFLICT DO NOTHING, and no other statement writes a starter.
* `SchemaIsInOrder`: `Spec => []SchemaInOrder`.  The invariant `SchemaInv` says
  of each server that all migrations before the one in its turn are in place,
  and all there are once it is past them (`Reached`).  That holds for a server
  that lost the race for a migration and dies, and for one that finds it
  applied between its query and its transaction.
* `StartersNeverAllFail`: `Spec => NeverAllFail`, the safety part of
  `SomeServerStarts`.  A server gives up for one of two reasons: the migration
  it applies is applied already, or the administrator it creates exists.  The
  invariant `LedInv` says that then another server is beyond that point
  (`Led`), unless one failed or was stopped; whoever is furthest has nobody
  ahead of it and goes on.
* `StartsComeToAnEnd`: `Spec => StartAdvances`.  Every step of a server on its
  way up brings it closer (`Closer`) to serving or to its end: the stages in
  order, then the migration in turn, then the tenants left and the next
  starter.  The order has no endless descents, tenants being finitely many, so
  a server that keeps taking steps arrives.
* `LibraryIsComplete`: `Spec => []LibraryComplete`.  The invariant `LibraryInv`
  says that whoever seeds a tenant has inserted every starter before its next
  one (`InOrder`, which needs that no type is ever deleted), and that a tenant
  is complete, or somebody is committed to completing it (`Committed`), or has
  no type at all and every server on its way up has yet to list the tenants
  (`Awaits`).
* `AccountsAreOpen`: `Spec => []AccountsOpen`.  The invariant `AccountsInv`
  adds that whoever is about to give a password away made the account
  (`MadeIt`): the unique address admits one maker.

`FilesProofs` holds for any number of previews, uploads and faults, and any
times that satisfy `PreviewAssumption`:

* `LivePreviewsAreWhole`: `Spec => []LivePreviewWhole`.  The invariant says of
  a valid token that its directory is complete and that age plus remaining
  time is at most `KeepDirs` (`Shown`), and of a token not yet set that its
  directory is younger than `BuildTicks` (`Unshown`); `SetToken` turns one
  inequality into the other, `Tick` adds to one side what it takes from the
  other, and so `Scan` finds nothing old that is shown or under way.
* `RowsHaveObjects`, `ObjectsAreAccounted`: `Spec => []RowHasObject` and
  `Spec => []ObjectsAccounted`, by one invariant: a row comes once, after its
  object, and while the object may be deleted the row is gone or unheard of
  (`Ordered`).
* `FirstTriesAreAdmitted`: `Spec => FirstTryAdmitted`, from types.
* `CachePromiseKept`: `Spec => CacheKeepsPromise`, that `Expiring!LossySpec` is
  implemented with either backend.  The mapping `Found` keeps of the store what
  a lookup would find, so that the sweep, the deletion by a lookup and the
  expired entries of the map are stutters, and shows a counter that waits for
  its EXPIRE with its window ahead of it, so that an EXPIRE that works is the
  return of the first increment; the other steps of `rateLimit`, of `SetToken`,
  of time and of a stop map to the abstract ones.  The invariant `CacheInv` says
  that what is found ends in the future or never (`Lasting`), and that while an
  EXPIRE is to come its counter is there and has no end (`Unended`): so the
  EXPIRE never moves an end that another attempt set.
* `FullPromiseKept`: `Spec /\ []~Unending => Promise!Spec`.  A step that uses the
  clause given up leaves a counter without an end for good; where that never
  happens the promise is kept in full.
* `MemoryKeepsFullPromise`: `Spec /\ backend = "memory" => Promise!Spec`, since
  the map sets the end with the first increment (`Ended`).

Only model-checked: the liveness properties `WorkerEnds`, `LockFreed`,
`SomeServerStarts`, `LimitLifts` and `PreviewsCleanedUp`, which are out of this
prover's reach (the two arguments behind `SomeServerStarts`, that starters
leave somebody and that a start arrives, are theorems; that weak fairness joins
them is TLC's part), and the five violations, of which `content_archive` shows that
`ArchivedUnused` is no theorem without `NoRace`.

## Not modelled

* Roles, memberships, removal of members and the status of tenants and users:
  they decide who may call a handler.  The code makes no promise about them
  that several steps could break.
* The order of pages and sections: two creations at once may give two rows one
  place, and a reorder sends the ids its page knew.  The code says nothing of
  what the order should then be.
* Creation of websites and pages, titles, slugs, alt texts, the settings of a
  website other than `github_repo`: single statements with a constraint behind
  them.
* Force pushes by others, and what they push that no build of the website
  could be equal to.
* Access tokens, hashing and random numbers: library calls without state.
* Routing, JSON, configuration, templates and page markup, type checks of
  uploads, and the audit log, which no decision reads.
