---------------------------- MODULE ServerProcess ----------------------------
(***************************************************************************)
(* The process of cmd/server/main that answers requests and runs the       *)
(* janitor: it comes up, goes down, and while it is up what it attempts    *)
(* can fail.                                                               *)
(***************************************************************************)
EXTENDS Naturals

\* A bound: how often the process goes down or an operation of it fails.
CONSTANT MaxFaults

ASSUME ProcessAssumption == MaxFaults \in Nat

VARIABLE up       \* main has come as far as ListenAndServe
VARIABLE faults   \* failed operations and ends of the process so far

process == <<up, faults>>

InitProcess == up = TRUE /\ faults = 0

Fault == faults < MaxFaults /\ faults' = faults + 1

\* What the process does succeeds, or fails and is answered or logged.
Works == up /\ UNCHANGED process
Fails == up /\ Fault /\ UNCHANGED up

\* main returns after a signal, or the process dies.
GoesDown == up /\ Fault /\ up' = FALSE

\* Somebody starts it again, and it gets through.
ComesUp == ~up /\ up' = TRUE /\ UNCHANGED faults
==============================================================================
