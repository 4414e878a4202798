CONSTANTS
  Deployments = {d1, d2}
  Requests = {q1}
  c1 = c1  c2 = c2  c3 = c3  repo1 = repo1  repo2 = repo2
  Drafts = {c1}
  Blank = {}
  Repos = {repo1}
  RepoName <- RepoOfName
  TypedRepos = {repo1}
  OtherDrafts = {}  OtherPushes = 0
  Nil = Nil
  LockTTL = 3  PublishTimeout = 1  InsertDelay = 0  Overrun = 1
  SharedCache = TRUE
  UseGitHub = TRUE
  UseCloudflare = TRUE
  Faults = {"cache", "client", "pages", "crash"}
SPECIFICATION Spec
INVARIANT OutcomeRecorded
PROPERTIES WorkerEnds LockFreed
