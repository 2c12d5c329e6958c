------------------------------ MODULE MergeGate ------------------------------
(***************************************************************************)
(* The workflow ci.yml as a whole: the gate over the jobs (CiGate), with   *)
(* the job boundary running the scans (RepositoryScans) and the job        *)
(* package-distribution building and verifying the archives (Distribution) *)
(* on the same commit, and dco reading the commits proposed (SignOff).     *)
(* The jobs run in parallel, may break for reasons of their own, be        *)
(* cancelled and be run again.                                             *)
(***************************************************************************)
EXTENDS CiGate, Sequences

CONSTANTS Trees, BinaryNames, Markdown, Data, Python, Marked, Quoted,
          SelfExempt, ReleaseExempt, FixedFiles, SdistMetadata,
          RequiredMetadata, SdistRoots, InfoLike, DistInfos, ExtraMatched,
          ExtraFiles, Members, MaxEdits, Addresses, Lower, Ranges

ASSUME JobsAssumption == {"boundary", "dco", "package-distribution"} \subseteq Jobs

VARIABLES tree, scanner, clean,                \* of RepositoryScans
          extra, sdist, wheel, edits, verdict, \* of Distribution
          commits                              \* of SignOff

TrackedSets == {DOMAIN t : t \in Trees}

Signed == INSTANCE SignOff
Scans == INSTANCE RepositoryScans
Dist == INSTANCE Distribution
          WITH index <- DOMAIN tree, Tracked <- TrackedSets

ASSUME PartsAssumption ==
    Signed!SignOffAssumption /\ Scans!ScansAssumption /\ Dist!DistributionAssumption

scanVars == <<tree, scanner, clean>>
distVars == <<extra, sdist, wheel, edits, verdict>>
vars == <<gateVars, scanVars, distVars, commits>>

MergeInit == tree \in Trees /\ Init /\ Scans!Init /\ Dist!Init /\ commits \in Ranges

----------------------------------------------------------------------------
(* A job works while it has no result, and succeeds only when its script   *)
(* did; it may fail at any other of its steps.                             *)
BoundaryWorks ==
    /\ results["boundary"] = "pending"
    /\ UNCHANGED <<gateVars, distVars, commits>>
    /\ Scans!Next

PackageWorks ==
    /\ results["package-distribution"] = "pending"
    /\ UNCHANGED <<gateVars, scanVars, commits>>
    /\ Dist!Next

Allows(j, r) ==
    /\ j = "boundary" => ((r = "success") <=> Scans!JobSucceeded)
    /\ j = "dco" /\ r = "success" => Signed!CheckRange(commits)
    /\ j = "package-distribution" /\ r = "success" => verdict = "passed"

EndJob(j) ==
    /\ \E r \in {"success", "failure"} : Allows(j, r) /\ JobEnds(j, r)
    /\ UNCHANGED <<scanVars, distVars, commits>>

(* A job that is run again starts over.                                    *)
RerunJobs ==
    /\ Rerun
    /\ IF results'["boundary"] = "pending"
       THEN scanner' = Scans!Scanners[1] /\ clean' = TRUE
       ELSE UNCHANGED <<scanner, clean>>
    /\ verdict' = (IF results'["package-distribution"] = "pending"
                   THEN "building" ELSE verdict)
    /\ UNCHANGED <<tree, extra, sdist, wheel, edits, commits>>

(* Skipped jobs, a cancelled run, ci-passed and the merge                  *)
Decides ==
    /\ \/ \E j \in Jobs : SkipJob(j)
       \/ CancelRun \/ GateRuns \/ GateBreaks \/ Merge
    /\ UNCHANGED <<scanVars, distVars, commits>>

MergeNext == \/ BoundaryWorks \/ PackageWorks \/ (\E j \in Jobs : EndJob(j))
             \/ Decides \/ RerunJobs

(* GitHub ends every job, at the latest at its time limit, and starts those*)
(* whose needs have ended.                                                 *)
GateEnds == (GateRuns \/ GateBreaks) /\ UNCHANGED <<scanVars, distVars, commits>>
SkipEnds(j) == SkipJob(j) /\ UNCHANGED <<scanVars, distVars, commits>>
Fairness == WF_vars(GateEnds) /\ \A j \in Jobs : WF_vars(EndJob(j) \/ SkipEnds(j))

MergeSpec == MergeInit /\ [][MergeNext]_vars
FairSpec == MergeSpec /\ Fairness

----------------------------------------------------------------------------
(* What is merged has been read: every file by the scanner of private      *)
(* content, every document by those of releases and citations, in a job    *)
(* that may have failed and run again in between; none is passed over for  *)
(* being unreadable, wrapped over lines or quoted by git.                  *)
MergedIsClean ==
    merged => Scans!NothingPrivate /\ Scans!NoRestatement /\ Scans!CitationsHold

(* The promises of the archives, in the composition                        *)
PassedSdistIsTheTree == Dist!PassedSdistIsTheTree
PassedPairAgrees == Dist!PassedPairAgrees
WellBuiltIsVerified == Dist!WellBuiltIsVerified

(* What is merged ships: every public file of the commit is in the source  *)
(* archive that was verified for it.  verify_distribution alone does not   *)
(* see a file whose name git quotes; it is check_boundary, in another job, *)
(* that refuses the commit, and the gate that needs both.                  *)
MergedIsShipped ==
    merged => \A p \in DOMAIN tree :
        Dist!Public(p) => p \in {Tail(q) : q \in Dist!FilesOf(sdist)}

(* A pull request that is merged has only certified commits.               *)
MergedIsCertified == merged /\ event = "pull_request" => Signed!Certified

(* The check that branch protection requires always gets a result, however *)
(* the jobs end, so that a pull request does not wait for it forever.      *)
GateAlwaysReports == gate = "pending" ~> gate # "pending"
=============================================================================
