-------------------------------- MODULE Files --------------------------------
(***************************************************************************)
(* What a server keeps outside the database, together: the cache, preview  *)
(* directories and media objects, while it runs, stops and starts again.   *)
(***************************************************************************)
EXTENDS Previews, Media

vars == <<process, cacheVars, previewVars, mediaVars>>

Init ==
  /\ InitProcess
  /\ InitCache
  /\ InitPreviews
  /\ InitMedia

Stop ==
  /\ GoesDown
  /\ LoseMemory
  /\ EndBuilds
  /\ EndRequests

\* The janitor's first run comes with the start.
Start ==
  /\ ComesUp
  /\ sleep' = 0
  /\ UNCHANGED <<cacheVars, previews, dirs, doomed, mediaVars>>

Next ==
  \/ CacheStep /\ UNCHANGED <<previewVars, mediaVars>>
  \/ PreviewStep /\ UNCHANGED mediaVars
  \/ MediaStep /\ UNCHANGED <<cacheVars, previewVars>>
  \/ Tick /\ UNCHANGED mediaVars
  \/ Stop
  \/ Start

\* Time passes, and what a running server has begun goes on.
Fairness ==
  /\ WF_vars(Tick /\ UNCHANGED mediaVars)
  /\ WF_vars(Expire /\ UNCHANGED <<previewVars, mediaVars>>)
  /\ WF_vars(Scan /\ UNCHANGED mediaVars)
  /\ \A t \in Tokens :
       /\ WF_vars((RemoveRest(t) \/ RemoveFails(t)) /\ UNCHANGED mediaVars)
       /\ WF_vars(BuildStep(t) /\ UNCHANGED mediaVars)

Spec == Init /\ [][Next]_vars /\ Fairness
==============================================================================
