CONSTANTS
  Deployments = {d1, d2}
  Requests = {q1, q2}
  c1 = c1  c2 = c2  c3 = c3  repo1 = repo1  repo2 = repo2
  Drafts = {c1, c2}
  Blank = {}
  Repos = {repo1}
  RepoName <- RepoOfName
  TypedRepos = {}
  OtherDrafts = {}  OtherPushes = 0
  Nil = Nil
  LockTTL = 4  PublishTimeout = 1  InsertDelay = 1  Overrun = 1
  SharedCache = FALSE
  UseGitHub = FALSE
  UseCloudflare = FALSE
  Faults = {}
SYMMETRY Identities
SPECIFICATION Spec
INVARIANT EndedIsFinal
