------------------------------- MODULE CiGate -------------------------------
(***************************************************************************)
(* The gate in front of a merge: the jobs of .github/workflows/ci.yml run  *)
(* in parallel, the job ci-passed runs tools/check_ci_needs.py over their  *)
(* results, and branch protection looks at ci-passed alone.                *)
(*                                                                         *)
(* Simplifications: one workflow run of one commit; what a job does is     *)
(* left to its result (module MergeGate binds two of them to the checkers  *)
(* they run); the matrix of tests is one job; the JSON of NEEDS decodes.   *)
(***************************************************************************)
EXTENDS Naturals

CONSTANTS Jobs,     \* the jobs that ci-passed needs
          MaxRuns   \* bound on the attempts of one workflow run

Events == {"push", "pull_request", "workflow_dispatch"}
Results == {"success", "failure", "cancelled", "skipped"}

ASSUME GateAssumption == "dco" \in Jobs /\ MaxRuns \in Nat

VARIABLES event,    \* what started the run
          results,  \* results[j]: "pending" or the result of job j
          gate,     \* the check ci-passed: "pending" or its result
          attempts, \* how often failed jobs were run again
          merged    \* the commit was merged

gateVars == <<event, results, gate, attempts, merged>>

Init ==
    /\ event \in Events
    /\ results = [j \in Jobs |-> "pending"]
    /\ gate = "pending" /\ attempts = 0 /\ merged = FALSE

----------------------------------------------------------------------------
(* dco has the condition github.event_name == 'pull_request'.              *)
Runs(j) == j = "dco" => event = "pull_request"

JobEnds(j, r) ==
    /\ results[j] = "pending" /\ Runs(j)
    /\ results' = [results EXCEPT ![j] = r]
    /\ UNCHANGED <<event, gate, attempts, merged>>

(* Mutant: on events other than a push the job waits for an approval that  *)
(* nobody gives.                                                           *)
SkipJobOnPush(j) ==
    /\ results[j] = "pending" /\ ~Runs(j) /\ event = "push"
    /\ results' = [results EXCEPT ![j] = "skipped"]
    /\ UNCHANGED <<event, gate, attempts, merged>>

SkipJob(j) ==
    /\ results[j] = "pending" /\ ~Runs(j)
    /\ results' = [results EXCEPT ![j] = "skipped"]
    /\ UNCHANGED <<event, gate, attempts, merged>>

CancelRun ==
    /\ \E j \in Jobs : results[j] = "pending"
    /\ results' = [j \in Jobs |-> IF results[j] = "pending" THEN "cancelled"
                                                           ELSE results[j]]
    /\ UNCHANGED <<event, gate, attempts, merged>>

(* check_ci_needs.evaluate finds no issue.                                 *)
AllowedDcoSkipEvents == {"push", "workflow_dispatch"}
Accepts(j) ==
    \/ results[j] = "success"
    \/ /\ j = "dco" /\ results[j] = "skipped"
       /\ event \in AllowedDcoSkipEvents
Evaluate == \A j \in Jobs : Accepts(j)

(* `if: always()`: the gate waits for all jobs, whatever they ended with.  *)
(* Mutant: the condition is dropped, so that a failed need skips the gate. *)
GateSkippedOnFailure ==
    /\ gate = "pending" /\ \A j \in Jobs : results[j] # "pending"
    /\ gate' = (IF \E j \in Jobs : results[j] \in {"failure", "cancelled"}
                    THEN "skipped"
                ELSE IF Evaluate THEN "success" ELSE "failure")
    /\ UNCHANGED <<event, results, attempts, merged>>

GateRuns ==
    /\ gate = "pending" /\ \A j \in Jobs : results[j] # "pending"
    /\ gate' = (IF Evaluate THEN "success" ELSE "failure")
    /\ UNCHANGED <<event, results, attempts, merged>>

(* Its runner is lost or its ten minutes are over.                         *)
GateBreaks ==
    /\ gate = "pending" /\ \A j \in Jobs : results[j] # "pending"
    /\ gate' = "failure"
    /\ UNCHANGED <<event, results, attempts, merged>>

(* "Re-run failed jobs" runs them and what depends on them again.          *)
Rerun ==
    /\ gate = "failure" /\ attempts < MaxRuns
    /\ attempts' = attempts + 1
    /\ gate' = "pending"
    /\ results' = [j \in Jobs |->
                      IF results[j] \in {"failure", "cancelled"}
                      THEN "pending" ELSE results[j]]
    /\ UNCHANGED <<event, merged>>

(* GitHub counts a required check that was skipped as passing.             *)
Merge ==
    /\ ~merged /\ gate \in {"success", "skipped"}
    /\ merged' = TRUE
    /\ UNCHANGED <<event, results, gate, attempts>>

GateNext ==
    \/ \E j \in Jobs : SkipJob(j)
    \/ CancelRun \/ GateRuns \/ GateBreaks \/ Rerun \/ Merge

Next == GateNext \/ \E j \in Jobs, r \in {"success", "failure"} : JobEnds(j, r)

Spec == Init /\ [][Next]_gateVars

----------------------------------------------------------------------------
TypeOK ==
    /\ event \in Events
    /\ results \in [Jobs -> Results \cup {"pending"}]
    /\ gate \in Results \cup {"pending"}
    /\ attempts \in 0..MaxRuns
    /\ merged \in BOOLEAN

(* What the gate lets through: every job of this run succeeded, and no job *)
(* but dco, which only pull requests need, was skipped.                    *)
Passed(j) == \/ results[j] = "success"
             \/ j = "dco" /\ results[j] = "skipped" /\ event # "pull_request"

(* A commit is merged only when every job has passed, although branch      *)
(* protection sees one name, jobs may be cancelled, skipped or run again,  *)
(* and a skipped check counts as passing: check_ci_needs.py and the        *)
(* `if: always()` of ci.yml.                                               *)
MergedWasChecked == merged => \A j \in Jobs : Passed(j)
=============================================================================
