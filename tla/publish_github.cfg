CONSTANTS
  Deployments = {d1, d2}
  Requests = {q1}
  c1 = c1  c2 = c2  c3 = c3  repo1 = repo1  repo2 = repo2
  Drafts = {c1, c2}
  Blank = {}
  Repos = {repo1}
  RepoName <- RepoOfName
  TypedRepos = {}
  OtherDrafts = {c2}  OtherPushes = 1
  Nil = Nil
  LockTTL = 3  PublishTimeout = 1  InsertDelay = 0  Overrun = 1
  SharedCache = TRUE
  UseGitHub = TRUE
  UseCloudflare = FALSE
  Faults = {"git", "crash"}
SYMMETRY Identities
SPECIFICATION Spec
INVARIANTS TypeOK MutualExclusion LockOutlivesHolder OutcomeRecorded SuccessIsPushed
PROPERTIES HistoryPreserved FinalStatusKept SerialSpec
