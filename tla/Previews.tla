------------------------------ MODULE Previews -------------------------------
(***************************************************************************)
(* Preview builds: Publisher.BuildPreview writes a directory and then puts *)
(* the token into the cache; main's janitor removes old directories,       *)
(* whatever the cache says of their tokens.  A directory's age is counted  *)
(* in ticks from its last change.                                          *)
(***************************************************************************)
EXTENDS Cache

CONSTANTS
  KeepDirs,     \* age up to which the janitor leaves a directory alone
  BuildTicks,   \* longest time from a directory's last change to its token
  SleepTicks    \* time between two runs of the janitor

ASSUME PreviewAssumption ==
  /\ KeepDirs \in Nat /\ BuildTicks \in Nat /\ SleepTicks \in Nat \ {0}
  /\ BuildTicks + PreviewTTL <= KeepDirs

VARIABLES
  previews,     \* of each token: what its BuildPreview has come to
  dirs,         \* of each token: files and age of its directory
  doomed,       \* directories that the janitor's run is going to remove
  sleep         \* ticks until its next run

previewVars == <<previews, dirs, doomed, sleep>>

NoDir == [files |-> "none", age |-> 0]
Dir(files, age) == [files |-> files, age |-> age]

InitPreviews ==
  /\ previews = [t \in Tokens |-> "new"]
  /\ dirs = [t \in Tokens |-> NoDir]
  /\ doomed = {}
  /\ sleep = 0

Underway(t) == previews[t] \in {"generating", "generated"}

\* Generate makes the directory of a new token ...
Generate(t) ==
  /\ Works
  /\ previews[t] = "new"
  /\ previews' = [previews EXCEPT ![t] = "generating"]
  /\ dirs' = [dirs EXCEPT ![t] = Dir("part", 0)]
  /\ UNCHANGED <<doomed, sleep, cacheVars>>

\* ... and fills it; the last file may be older than the end of the work.
Generated(t) ==
  /\ Works
  /\ previews[t] = "generating"
  /\ previews' = [previews EXCEPT ![t] = "generated"]
  /\ \E age \in 0 .. dirs[t].age : dirs' = [dirs EXCEPT ![t] = Dir("all", age)]
  /\ UNCHANGED <<doomed, sleep, cacheVars>>

\* A failure leaves the files written so far.
GenerateFails(t) ==
  /\ Fails
  /\ previews[t] = "generating"
  /\ previews' = [previews EXCEPT ![t] = "over"]
  /\ UNCHANGED <<dirs, doomed, sleep, cacheVars>>

\* Variant: the token is put into the cache before the directory is full.
SetTokenEarly(t) ==
  /\ Works
  /\ previews[t] = "generating"
  /\ store' = [store EXCEPT ![t] = Entry(1, PreviewTTL)]
  /\ UNCHANGED <<previewVars, backend, expiring>>

\* The token is put into the cache; a failure of Redis goes unnoticed.
SetToken(t) ==
  /\ previews[t] = "generated"
  /\ previews' = [previews EXCEPT ![t] = "over"]
  /\ \/ Works /\ store' = [store EXCEPT ![t] = Entry(1, PreviewTTL)]
     \/ Fails /\ backend = "redis" /\ UNCHANGED store
  /\ UNCHANGED <<dirs, doomed, sleep, backend, expiring>>

BuildStep(t) == Generated(t) \/ GenerateFails(t) \/ SetToken(t)

\* Variant: only a complete preview counts as one.
OldComplete(t) == dirs[t].files = "all" /\ dirs[t].age > KeepDirs

Old(t) == dirs[t].files # "none" /\ dirs[t].age > KeepDirs

\* Variant: directories are kept as long as their tokens from the first file.
ScanEarly ==
  /\ Works
  /\ doomed = {} /\ sleep = 0
  /\ doomed' = {t \in Tokens : dirs[t].files # "none" /\ dirs[t].age >= PreviewTTL}
  /\ sleep' = SleepTicks
  /\ UNCHANGED <<previews, dirs, cacheVars>>

\* The janitor picks the old directories.  Each is looked at when its turn
\* comes, but against one time, and an old directory does not change.
Scan ==
  /\ doomed = {} /\ sleep = 0
  /\ \/ Works /\ doomed' = {t \in Tokens : Old(t)}
     \/ Fails /\ UNCHANGED doomed
  /\ sleep' = SleepTicks
  /\ UNCHANGED <<previews, dirs, cacheVars>>

\* RemoveAll has removed something, which counts as a change ...
RemoveSome(t) ==
  /\ Works
  /\ t \in doomed /\ Old(t)
  /\ dirs' = [dirs EXCEPT ![t] = Dir("part", 0)]
  /\ UNCHANGED <<previews, doomed, sleep, cacheVars>>

\* ... everything ...
RemoveRest(t) ==
  /\ Works
  /\ t \in doomed
  /\ dirs' = [dirs EXCEPT ![t] = NoDir]
  /\ doomed' = doomed \ {t}
  /\ UNCHANGED <<previews, sleep, cacheVars>>

\* ... or fails, and the rest is left to a later run.
RemoveFails(t) ==
  /\ Fails
  /\ t \in doomed
  /\ doomed' = doomed \ {t}
  /\ UNCHANGED <<previews, dirs, sleep, cacheVars>>

JanitorStep ==
  \/ Scan
  \/ \E t \in Tokens : RemoveSome(t) \/ RemoveRest(t) \/ RemoveFails(t)

\* Time passes, though never more than BuildTicks between a directory's last
\* change and its token.
Tick ==
  /\ UNCHANGED process
  /\ \A t \in Tokens : Underway(t) => dirs[t].age < BuildTicks
  /\ store' = [key \in Keys |-> Aged(store[key])]
  /\ dirs' = [t \in Tokens |->
       IF dirs[t].files = "none" \/ dirs[t].age > KeepDirs
       THEN dirs[t] ELSE [dirs[t] EXCEPT !.age = @ + 1]]
  /\ sleep' = IF doomed = {} /\ sleep > 0 THEN sleep - 1 ELSE sleep
  /\ UNCHANGED <<previews, doomed, backend, expiring>>

\* The server stops: builds and the janitor's run end where they are.
EndBuilds ==
  /\ previews' = [t \in Tokens |-> IF Underway(t) THEN "over" ELSE previews[t]]
  /\ doomed' = {}
  /\ UNCHANGED <<dirs, sleep>>

PreviewStep == \/ \E t \in Tokens : Generate(t) \/ BuildStep(t)
               \/ JanitorStep

\* Property: a preview whose token is valid has all its files: a token is not
\* valid before its build is complete, and the janitor, which does not look
\* at the cache, removes no directory that is still shown.
LivePreviewWhole ==
  \A t \in Tokens : Held(t) => dirs[t].files = "all" /\ t \notin doomed

\* Property: in a server that keeps running no preview stays on the disk: not
\* the expired ones, not what failed builds, failed removals and stops of the
\* server left behind.
PreviewsCleanedUp ==
  <>[]up => \A t \in Tokens : dirs[t].files # "none" ~> dirs[t].files = "none"
==============================================================================
