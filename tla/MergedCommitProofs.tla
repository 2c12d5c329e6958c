------------------------- MODULE MergedCommitProofs -------------------------
(***************************************************************************)
(* What the workflow promises of the commit that is merged, in three       *)
(* steps, for any jobs, trees, builds and ranges of commits.  The gate     *)
(* lets through what every job has passed; a job passes when its script    *)
(* accepts the commit; and what the scripts accept has its files scanned,  *)
(* its commits certified, and archives that hold its public files and      *)
(* nothing else.                                                           *)
(***************************************************************************)
EXTENDS MergeGate, FiniteSetTheorems, SequenceTheorems, TLAPS

(***************************************************************************)
(* The gate of CiGate.                                                     *)
(***************************************************************************)
(* The gate is green only over passed jobs; the check is never skipped; a  *)
(* merge keeps the gate green, which no re-run leaves.                     *)
Certified ==
    /\ gate = "success" => \A j \in Jobs : Passed(j)
    /\ gate # "skipped"
    /\ merged => gate = "success"

IInv == TypeOK /\ Certified

LEMMA InitCertified == Init => IInv
<1> SUFFICES ASSUME Init  PROVE  IInv
  OBVIOUS
<1>1. TypeOK
  <2>1. results \in [Jobs -> Results \cup {"pending"}]
    BY DEF Init
  <2>2. attempts \in 0..MaxRuns
    BY GateAssumption DEF Init
  <2> QED
    BY <2>1, <2>2 DEF Init, TypeOK
<1>2. Certified
  BY DEF Init, Certified
<1> QED
  BY <1>1, <1>2 DEF IInv

LEMMA StepCertified == IInv /\ [Next]_gateVars => IInv'
<1> SUFFICES ASSUME IInv, [Next]_gateVars  PROVE  IInv'
  OBVIOUS
<1> USE GateAssumption DEF IInv, TypeOK, Certified, Events, Results
<1>1. ASSUME NEW j \in Jobs, NEW r \in {"success", "failure"}, JobEnds(j, r)
      PROVE  IInv'
  <2>1. gate # "success"
    BY <1>1 DEF JobEnds, Passed
  <2> QED
    BY <1>1, <2>1 DEF JobEnds
<1>2. ASSUME NEW j \in Jobs, SkipJob(j)
      PROVE  IInv'
  <2>1. gate # "success"
    BY <1>2 DEF SkipJob, Passed
  <2> QED
    BY <1>2, <2>1 DEF SkipJob
<1>3. CASE CancelRun
  <2>1. gate # "success"
    BY <1>3 DEF CancelRun, Passed
  <2> QED
    BY <1>3, <2>1 DEF CancelRun
<1>4. CASE GateRuns
  <2>1. Evaluate => \A j \in Jobs : Passed(j)'
    BY <1>4 DEF GateRuns, Evaluate, Accepts, AllowedDcoSkipEvents, Passed
  <2> QED
    BY <1>4, <2>1 DEF GateRuns
<1>5. CASE GateBreaks
  BY <1>5 DEF GateBreaks
<1>6. CASE Rerun
  BY <1>6 DEF Rerun
<1>7. CASE Merge
  BY <1>7 DEF Merge, Passed
<1>8. CASE UNCHANGED gateVars
  BY <1>8 DEF gateVars, Passed
<1> QED
  BY <1>1, <1>2, <1>3, <1>4, <1>5, <1>6, <1>7, <1>8 DEF Next, GateNext

(* The variables of the gate keep their types.                             *)
THEOREM GateTypes == Spec => []TypeOK
<1>1. IInv => TypeOK
  BY DEF IInv
<1> QED
  BY InitCertified, StepCertified, <1>1, PTL DEF Spec

(* A commit is merged only when every job has passed, in whatever order    *)
(* jobs end, are cancelled, skipped and run again.                         *)
THEOREM GateIsSound == Spec => []MergedWasChecked
<1>1. IInv => MergedWasChecked
  BY DEF IInv, Certified, MergedWasChecked
<1> QED
  BY InitCertified, StepCertified, <1>1, PTL DEF Spec

(***************************************************************************)
(* The jobs and their scripts, joined with the gate.                       *)
(***************************************************************************)
(* A job that succeeded leaves the results of its script as they were.     *)
ScriptsAgree ==
    /\ results["boundary"] = "success" => Scans!JobSucceeded
    /\ results["package-distribution"] = "success" => verdict = "passed"
    /\ results["dco"] = "success" => Signed!CheckRange(commits)

(* What is merged is what the three scripts accepted.                      *)
MergedByScripts ==
    merged => /\ Scans!JobSucceeded /\ verdict = "passed"
              /\ event = "pull_request" => Signed!CheckRange(commits)

MergeInv == IInv /\ ScriptsAgree

LEMMA ScansKept == UNCHANGED <<scanner, clean>> =>
                      (Scans!JobSucceeded' <=> Scans!JobSucceeded)
BY DEF Scans!JobSucceeded

LEMMA InitMerge == MergeInit => MergeInv
<1> SUFFICES ASSUME MergeInit PROVE MergeInv
  OBVIOUS
<1>1. IInv
  BY InitCertified DEF MergeInit
<1>2. ScriptsAgree
  BY JobsAssumption DEF MergeInit, Init, ScriptsAgree
<1> QED BY <1>1, <1>2 DEF MergeInv

(* To the gate the workflow is a run of its jobs.                          *)
LEMMA StepsOfGate == [MergeNext]_vars => [Next]_gateVars
<1> SUFFICES ASSUME [MergeNext]_vars PROVE [Next]_gateVars
  OBVIOUS
<1>1. CASE BoundaryWorks
  BY <1>1 DEF BoundaryWorks
<1>2. CASE PackageWorks
  BY <1>2 DEF PackageWorks
<1>3. CASE \E j \in Jobs : EndJob(j)
  BY <1>3 DEF EndJob, Next
<1>4. CASE Decides
  BY <1>4 DEF Decides, Next, GateNext
<1>5. CASE RerunJobs
  BY <1>5 DEF RerunJobs, Next, GateNext
<1>6. CASE UNCHANGED vars
  BY <1>6 DEF vars
<1> QED BY <1>1, <1>2, <1>3, <1>4, <1>5, <1>6 DEF MergeNext

(* No step of the gate alone makes a job succeed.                          *)
LEMMA GateMakesNoSuccess ==
    ASSUME IInv, Decides \/ Rerun
    PROVE  \A j \in Jobs : results'[j] = "success" => results[j] = "success"
BY DEF IInv, TypeOK, Decides, Rerun, SkipJob, CancelRun, GateRuns, GateBreaks, Merge

LEMMA StepMerge == MergeInv /\ [MergeNext]_vars => MergeInv'
<1> SUFFICES ASSUME MergeInv, [MergeNext]_vars PROVE MergeInv'
  OBVIOUS
<1> USE DEF MergeInv
<1>1. IInv'
  BY StepsOfGate, StepCertified
<1>2. ScriptsAgree'
  <2>1. CASE BoundaryWorks
    <3>1. /\ results["boundary"] = "pending"
          /\ UNCHANGED <<results, verdict, commits>>
      BY <2>1 DEF BoundaryWorks, gateVars, distVars
    <3> QED BY <3>1 DEF ScriptsAgree
  <2>2. CASE PackageWorks
    <3>1. /\ results["package-distribution"] = "pending"
          /\ UNCHANGED <<results, scanner, clean, commits>>
      BY <2>2 DEF PackageWorks, gateVars, scanVars
    <3> QED BY <3>1, ScansKept DEF ScriptsAgree
  <2>3. ASSUME NEW j \in Jobs, EndJob(j) PROVE ScriptsAgree'
    <3>1. PICK r \in {"success", "failure"} : Allows(j, r) /\ JobEnds(j, r)
      BY <2>3 DEF EndJob
    <3>2. UNCHANGED <<scanner, clean, verdict, commits>>
      BY <2>3 DEF EndJob, scanVars, distVars
    <3>3. results' = [results EXCEPT ![j] = r] /\ DOMAIN results = Jobs
      BY <3>1 DEF JobEnds, IInv, TypeOK
    <3> QED
      BY <3>1, <3>2, <3>3, ScansKept, JobsAssumption
         DEF Allows, ScriptsAgree
  <2>4. CASE Decides
    <3>1. UNCHANGED <<scanner, clean, verdict, commits>>
      BY <2>4 DEF Decides, scanVars, distVars
    <3> QED
      BY <2>4, <3>1, ScansKept, GateMakesNoSuccess, JobsAssumption
         DEF ScriptsAgree
  <2>5. CASE RerunJobs
    <3>1. Rerun /\ UNCHANGED commits
      BY <2>5 DEF RerunJobs
    <3>2. results'["boundary"] # "pending" => UNCHANGED <<scanner, clean>>
      BY <2>5 DEF RerunJobs
    <3>3. results'["package-distribution"] # "pending" => verdict' = verdict
      BY <2>5 DEF RerunJobs
    <3> QED
      BY <3>1, <3>2, <3>3, ScansKept, GateMakesNoSuccess, JobsAssumption
         DEF ScriptsAgree
  <2>6. CASE UNCHANGED vars
    <3>1. UNCHANGED <<results, scanner, clean, verdict, commits>>
      BY <2>6 DEF vars, gateVars, scanVars, distVars
    <3> QED BY <3>1, ScansKept DEF ScriptsAgree
  <2> QED BY <2>1, <2>2, <2>3, <2>4, <2>5, <2>6 DEF MergeNext
<1> QED BY <1>1, <1>2

(* The gate keeps its promise in the workflow: every job has passed.       *)
THEOREM WorkflowIsSound == MergeSpec => []MergedWasChecked
<1>1. MergeInv => MergedWasChecked
  BY DEF MergeInv, IInv, Certified, MergedWasChecked
<1> QED BY InitMerge, StepMerge, <1>1, PTL DEF MergeSpec

(* And so the scans, the archives and the sign-offs of the merged commit   *)
(* were accepted, however jobs broke, were cancelled and ran again.        *)
THEOREM MergeIsByScripts == MergeSpec => []MergedByScripts
<1>1. MergeInv => MergedByScripts
  BY JobsAssumption
     DEF MergeInv, IInv, Certified, ScriptsAgree, MergedByScripts, Passed
<1> QED BY InitMerge, StepMerge, <1>1, PTL DEF MergeSpec

(***************************************************************************)
(* What the scripts accept.                                                *)
(***************************************************************************)
(* As long as the job boundary has found nothing, the checks that have run *)
(* hold of the checkout.                                                   *)
ScannedSoFar ==
    /\ tree \in Trees
    /\ scanner \in {"check_boundary", "check_release_state",
                    "check_doc_citations", "done"}
    /\ clean /\ scanner # "check_boundary" => Scans!CheckTree(DOMAIN tree)
    /\ clean /\ scanner \in {"check_doc_citations", "done"} =>
          Scans!ScanTree(DOMAIN tree)
    /\ clean /\ scanner = "done" => Scans!CheckCitations(DOMAIN tree)

LEMMA InitScanned == MergeInit => ScannedSoFar
BY DEF MergeInit, Scans!Init, Scans!Scanners, ScannedSoFar

LEMMA TreeKept == [MergeNext]_vars => UNCHANGED tree
BY DEF MergeNext, vars, scanVars, BoundaryWorks, PackageWorks, EndJob, Decides,
       RerunJobs, Scans!Next, Scans!Scan

LEMMA ScansOfTree ==
    UNCHANGED tree => /\ Scans!CheckTree(DOMAIN tree)' <=> Scans!CheckTree(DOMAIN tree)
                      /\ Scans!ScanTree(DOMAIN tree)' <=> Scans!ScanTree(DOMAIN tree)
                      /\ Scans!CheckCitations(DOMAIN tree)'
                            <=> Scans!CheckCitations(DOMAIN tree)
BY DEF Scans!CheckTree, Scans!ScanTree, Scans!CheckCitations, Scans!CheckPath,
       Scans!State, Scans!Lines, Scans!Resolves

LEMMA ThreeScanners ==
    Scans!Range(Scans!Scanners)
        = {"check_boundary", "check_release_state", "check_doc_citations"}
<1>1. DOMAIN Scans!Scanners = 1..3
  BY DEF Scans!Scanners
<1> QED BY <1>1 DEF Scans!Range, Scans!Scanners

LEMMA StepScanned == ScannedSoFar /\ [MergeNext]_vars => ScannedSoFar'
<1> SUFFICES ASSUME ScannedSoFar, [MergeNext]_vars PROVE ScannedSoFar'
  OBVIOUS
<1>1. /\ tree' = tree
      /\ Scans!CheckTree(DOMAIN tree)' <=> Scans!CheckTree(DOMAIN tree)
      /\ Scans!ScanTree(DOMAIN tree)' <=> Scans!ScanTree(DOMAIN tree)
      /\ Scans!CheckCitations(DOMAIN tree)' <=> Scans!CheckCitations(DOMAIN tree)
  BY TreeKept, ScansOfTree
<1>2. CASE UNCHANGED <<scanner, clean>>
  BY <1>1, <1>2 DEF ScannedSoFar
<1>3. CASE BoundaryWorks
  <2>1. PICK git \in BOOLEAN : Scans!Scan(git)
    BY <1>3 DEF BoundaryWorks, Scans!Next
  <2>2. /\ clean /\ clean' = ~Scans!Finding(git)
        /\ scanner' = (IF scanner = "check_boundary" THEN "check_release_state"
                       ELSE IF scanner = "check_release_state"
                            THEN "check_doc_citations" ELSE "done")
        /\ scanner \in {"check_boundary", "check_release_state", "check_doc_citations"}
    BY <2>1, ThreeScanners DEF Scans!Scan
  <2>3. CASE scanner = "check_boundary"
    <3>1. clean' => Scans!CheckTree(DOMAIN tree)
      BY <2>2, <2>3 DEF Scans!Finding
    <3> QED BY <1>1, <2>2, <2>3, <3>1 DEF ScannedSoFar
  <2>4. CASE scanner = "check_release_state"
    <3>1. clean' => Scans!ScanTree(DOMAIN tree)
      BY <2>2, <2>4 DEF Scans!Finding
    <3> QED BY <1>1, <2>2, <2>4, <3>1 DEF ScannedSoFar
  <2>5. CASE scanner = "check_doc_citations"
    <3>1. clean' => Scans!CheckCitations(DOMAIN tree)
      BY <2>2, <2>5 DEF Scans!Finding
    <3> QED BY <1>1, <2>2, <2>5, <3>1 DEF ScannedSoFar
  <2> QED BY <2>2, <2>3, <2>4, <2>5
<1>4. CASE RerunJobs
  <2>1. \/ UNCHANGED <<scanner, clean>>
        \/ scanner' = "check_boundary"
    BY <1>4 DEF RerunJobs, Scans!Scanners
  <2> QED BY <1>1, <1>2, <2>1 DEF ScannedSoFar
<1> QED BY <1>2, <1>3, <1>4
        DEF MergeNext, vars, scanVars, PackageWorks, EndJob, Decides

----------------------------------------------------------------------------
(* What the scans read                                                     *)

LEMMA TextRead ==
    ASSUME ScannedSoFar, NEW p \in DOMAIN tree
    PROVE  /\ tree[p].lines \in Seq(Scans!Range(tree[p].lines))
           /\ \A l \in Scans!Range(tree[p].lines) : l.blank => l.part = "none"
BY PartsAssumption DEF ScannedSoFar, Scans!ScansAssumption, Scans!IsFile

LEMMA ReadIsClean == ScannedSoFar /\ Scans!JobSucceeded => Scans!NothingPrivate
BY DEF ScannedSoFar, Scans!JobSucceeded, Scans!NothingPrivate, Scans!CheckTree,
       Scans!CheckPath, Scans!State

LEMMA ReadCitationsHold ==
    ScannedSoFar /\ Scans!JobSucceeded => Scans!CitationsHold
BY DEF ScannedSoFar, Scans!JobSucceeded, Scans!CitationsHold, Scans!CheckCitations

(* Two lines of which neither is blank stand in one paragraph, so that a   *)
(* sentence wrapped over them is matched.                                  *)
LEMMA ReadRestatesNothing ==
    ScannedSoFar /\ Scans!JobSucceeded => Scans!NoRestatement
<1> SUFFICES ASSUME ScannedSoFar, Scans!JobSucceeded,
                    NEW p \in DOMAIN tree, p \notin ReleaseExempt,
                    tree[p].state = "text", Scans!Last(p) \notin BinaryNames
             PROVE  /\ \A l \in Scans!Range(tree[p].lines) : l.part # "whole"
                    /\ \A i \in 1..(Len(tree[p].lines) - 1) :
                          <<tree[p].lines[i].part, tree[p].lines[i + 1].part>>
                              \notin {<<"head", "tail">>, <<"ja head", "ja tail">>}
  BY DEF Scans!NoRestatement
<1> DEFINE lines == tree[p].lines
           full == {i \in DOMAIN lines : ~lines[i].blank}
           Around(i) == {j \in full : (i..j) \cup (j..i) \subseteq full}
<1>1. \A i \in full : ~Scans!MatchingPattern(lines, Around(i))
  <2>1. Scans!ScanTree(DOMAIN tree)
    BY DEF ScannedSoFar, Scans!JobSucceeded
  <2>2. \A paragraph \in Scans!Paragraphs(lines) : ~Scans!MatchingPattern(lines, paragraph)
    BY <2>1 DEF Scans!ScanTree, Scans!State
  <2> QED BY <2>2 DEF Scans!Paragraphs
<1>2. /\ Len(lines) \in Nat /\ DOMAIN lines = 1..Len(lines)
      /\ \A i \in DOMAIN lines : lines[i] \in Scans!Range(lines)
  BY TextRead DEF Scans!Range
<1>3. \A i \in DOMAIN lines : lines[i].part # "none" => i \in full
  BY <1>2, TextRead
<1> HIDE DEF lines
<1>4. ASSUME NEW l \in Scans!Range(lines), l.part = "whole" PROVE FALSE
  <2>1. PICK i \in DOMAIN lines : l = lines[i]
    BY DEF Scans!Range
  <2>2. i \in full /\ i \in Int
    BY <1>2, <1>3, <1>4, <2>1
  <2>3. i \in Around(i)
    BY <2>2
  <2> QED BY <1>1, <1>4, <2>1, <2>2, <2>3 DEF Scans!MatchingPattern
<1>5. ASSUME NEW i \in 1..(Len(lines) - 1), NEW head, NEW tail,
             \/ head = "head" /\ tail = "tail"
             \/ head = "ja head" /\ tail = "ja tail",
             lines[i].part = head, lines[i + 1].part = tail
      PROVE  FALSE
  <2>1. i \in full /\ i + 1 \in full /\ i \in Int
    <3>1. i \in DOMAIN lines /\ i + 1 \in DOMAIN lines /\ i \in Int
      BY <1>2
    <3>2. lines[i].part # "none" /\ lines[i + 1].part # "none"
      BY <1>5
    <3> HIDE DEF full
    <3> QED BY <1>3, <3>1, <3>2
  <2>2. i \in Around(i) /\ i + 1 \in Around(i)
    <3>1. i..i = {i} /\ i..(i + 1) = {i, i + 1} /\ (i + 1)..i = {}
      BY <2>1
    <3> QED BY <2>1, <3>1
  <2> HIDE DEF full, Around
  <2>3. Scans!Follows(lines, Around(i), head, tail)
    BY <1>5, <2>2 DEF Scans!Follows
  <2> QED BY <1>1, <1>5, <2>1, <2>3 DEF Scans!MatchingPattern
<1>6. ASSUME NEW i \in 1..(Len(lines) - 1)
      PROVE  <<lines[i].part, lines[i + 1].part>>
                 \notin {<<"head", "tail">>, <<"ja head", "ja tail">>}
  <2>1. /\ ~(lines[i].part = "head" /\ lines[i + 1].part = "tail")
        /\ ~(lines[i].part = "ja head" /\ lines[i + 1].part = "ja tail")
    BY <1>5
  <2> QED BY <2>1
<1> QED BY <1>4, <1>6 DEF lines

----------------------------------------------------------------------------
(* Sign-offs                                                               *)

LEMMA ReadIsCertified == Signed!CheckRange(commits) => Signed!Certified
<1> SUFFICES ASSUME Signed!CheckRange(commits), NEW i \in DOMAIN commits,
                    ~commits[i].merge
             PROVE  \E a \in {commits[i].author, commits[i].committer} :
                       Lower[a] \in {Lower[s] : s \in commits[i].signoffs}
  BY DEF Signed!Certified
<1>1. commits[i] \in Signed!CommitsInRange(commits)
  BY DEF Signed!CommitsInRange, Signed!Range
<1> QED BY <1>1 DEF Signed!CheckRange, Signed!CheckCommit

----------------------------------------------------------------------------
(* Paths                                                                   *)
Path == Seq(STRING)
AMember == [parts : Path, kind : {"file", "dir", "link"}, plain : BOOLEAN]

LEMMA ShortPathsOf ==
    ASSUME NEW S, NEW a \in S, NEW b \in S, NEW c \in S
    PROVE  /\ <<a>> \in Seq(S) /\ <<a, b>> \in Seq(S) /\ <<a, b, c>> \in Seq(S)
           /\ Head(<<a, b>>) = a /\ Head(<<a, b, c>>) = a
OBVIOUS

LEMMA ShortPaths ==
    ASSUME NEW a \in STRING, NEW b \in STRING, NEW c \in STRING
    PROVE  /\ <<a>> \in Path /\ <<a, b>> \in Path /\ <<a, b, c>> \in Path
           /\ Head(<<a, b>>) = a /\ Head(<<a, b, c>>) = a
BY ShortPathsOf DEF Path

LEMMA OnTop ==
    ASSUME NEW S, NEW root \in S, NEW p \in Seq(S)
    PROVE  /\ <<root>> \o p \in Seq(S) /\ <<root>> \o p # <<>>
           /\ Len(<<root>> \o p) = Len(p) + 1
           /\ Head(<<root>> \o p) = root /\ Tail(<<root>> \o p) = p
           /\ \A i \in 1..Len(p) : (<<root>> \o p)[i + 1] = p[i]
           /\ (<<root>> \o p)[1] = root
OBVIOUS

LEMMA BelowRoot ==
    ASSUME NEW root \in STRING, NEW p \in Path
    PROVE  /\ <<root>> \o p \in Path /\ <<root>> \o p # <<>>
           /\ Len(<<root>> \o p) = Len(p) + 1
           /\ Head(<<root>> \o p) = root /\ Tail(<<root>> \o p) = p
           /\ \A i \in 1..Len(p) : (<<root>> \o p)[i + 1] = p[i]
           /\ (<<root>> \o p)[1] = root
BY OnTop DEF Path

LEMMA RootAndRestOf ==
    ASSUME NEW S, NEW q \in Seq(S), q # <<>>
    PROVE  /\ Head(q) \in S /\ Tail(q) \in Seq(S) /\ Len(q) = Len(Tail(q)) + 1
           /\ q = <<Head(q)>> \o Tail(q) /\ Head(q) = q[1]
OBVIOUS

LEMMA RootAndRest ==
    ASSUME NEW q \in Path, q # <<>>
    PROVE  /\ Head(q) \in STRING /\ Tail(q) \in Path /\ Len(q) = Len(Tail(q)) + 1
           /\ q = <<Head(q)>> \o Tail(q) /\ Head(q) = q[1]
BY RootAndRestOf DEF Path

LEMMA PrefixIs ==
    ASSUME NEW d \in Path, NEW p \in Path
    PROVE  Dist!IsStrictPrefix(d, p) <=>
              Len(d) < Len(p) /\ \A i \in 1..Len(d) : d[i] = p[i]
<1>1. d \in Seq(STRING) /\ p \in Seq(STRING) /\ Len(d) \in Nat /\ Len(p) \in Nat
  BY DEF Path
<1>2. ASSUME Len(d) <= Len(p)
      PROVE  SubSeq(d, 1, Len(d)) = SubSeq(p, 1, Len(d)) <=>
                \A i \in 1..Len(d) : d[i] = p[i]
  <2> DEFINE s == SubSeq(p, 1, Len(d))
  <2>1. \A i \in 1..Len(d) : p[i] \in STRING
    BY <1>1, <1>2
  <2>2. /\ s \in Seq(STRING)
        /\ Len(s) = IF 1 <= Len(d) THEN Len(d) - 1 + 1 ELSE 0
        /\ \A i \in 1..(Len(d) - 1 + 1) : s[i] = p[1 + i - 1]
    BY <1>1, <2>1, SubSeqProperties
  <2> HIDE DEF s
  <2>3. Len(s) = Len(d) /\ \A i \in 1..Len(d) : s[i] = p[i]
    BY <1>1, <2>2
  <2>4. SubSeq(d, 1, Len(d)) = d
    BY <1>1, SubSeqFull
  <2>5. (\A i \in 1..Len(d) : d[i] = p[i]) => d = s
    BY <1>1, <2>2, <2>3, SeqEqual
  <2> QED BY <2>3, <2>4, <2>5 DEF s
<1>3. Len(d) = Len(p) /\ (\A i \in 1..Len(d) : d[i] = p[i]) => d = p
  BY <1>1, SeqEqual
<1> QED BY <1>1, <1>2, <1>3 DEF Dist!IsStrictPrefix, Dist!IsPrefix

LEMMA PrefixBelowRoot ==
    ASSUME NEW root \in STRING, NEW d \in Path, NEW p \in Path
    PROVE  Dist!IsStrictPrefix(<<root>> \o d, <<root>> \o p) <=> Dist!IsStrictPrefix(d, p)
<1> DEFINE e == <<root>> \o d
           q == <<root>> \o p
<1>1. /\ e \in Path /\ q \in Path /\ Len(e) = Len(d) + 1 /\ Len(q) = Len(p) + 1
      /\ e[1] = root /\ q[1] = root
      /\ \A i \in 1..Len(d) : e[i + 1] = d[i]
      /\ \A i \in 1..Len(p) : q[i + 1] = p[i]
  BY BelowRoot
<1>2. Len(d) \in Nat /\ Len(p) \in Nat
  BY DEF Path
<1> HIDE DEF e, q
<1>3. ASSUME Len(d) < Len(p)
      PROVE  (\A i \in 1..Len(e) : e[i] = q[i]) <=> \A i \in 1..Len(d) : d[i] = p[i]
  <2>1. ASSUME \A i \in 1..Len(e) : e[i] = q[i], NEW i \in 1..Len(d)
        PROVE  d[i] = p[i]
    <3>1. i + 1 \in 1..Len(e) /\ i \in 1..Len(p)
      BY <1>1, <1>2, <1>3
    <3> QED BY <1>1, <2>1, <3>1
  <2>2. ASSUME \A i \in 1..Len(d) : d[i] = p[i], NEW i \in 1..Len(e)
        PROVE  e[i] = q[i]
    <3>1. CASE i = 1
      BY <1>1, <3>1
    <3>2. CASE i # 1
      <4>1. i - 1 \in 1..Len(d) /\ i - 1 \in 1..Len(p) /\ (i - 1) + 1 = i
        BY <1>1, <1>2, <1>3, <3>2
      <4>2. e[(i - 1) + 1] = d[i - 1] /\ q[(i - 1) + 1] = p[i - 1]
        BY <1>1, <4>1
      <4> QED BY <2>2, <4>1, <4>2
    <3> QED BY <3>1, <3>2
  <2> QED BY <2>1, <2>2
<1>4. Len(e) < Len(q) <=> Len(d) < Len(p)
  BY <1>1, <1>2
<1> QED BY <1>1, <1>3, <1>4, PrefixIs DEF e, q

----------------------------------------------------------------------------
(* The members of an archive                                               *)

LEMMA MembersList ==
    ASSUME NEW ms \in Seq(AMember)
    PROVE  /\ Len(ms) \in Nat /\ DOMAIN ms = 1..Len(ms)
           /\ Dist!Range(ms) = {ms[i] : i \in 1..Len(ms)}
           /\ \A m \in Dist!Range(ms) :
                 /\ m.parts \in Path /\ m.plain \in BOOLEAN
                 /\ m.kind \in {"file", "dir", "link"}
<1>1. Len(ms) \in Nat /\ DOMAIN ms = 1..Len(ms) /\ \A i \in 1..Len(ms) : ms[i] \in AMember
  OBVIOUS
<1>2. \A m \in AMember : /\ m.parts \in Path /\ m.plain \in BOOLEAN
                         /\ m.kind \in {"file", "dir", "link"}
  BY DEF AMember
<1> QED BY <1>1, <1>2 DEF Dist!Range

(* As many paths as members, or one of them comes twice                    *)
PathsOf(ms) == {m.parts : m \in Dist!Range(ms)}

LEMMA MembersCounted ==
    ASSUME NEW ms \in Seq(AMember)
    PROVE  /\ IsFiniteSet(PathsOf(ms)) /\ Cardinality(PathsOf(ms)) <= Len(ms)
           /\ Cardinality(PathsOf(ms)) = Len(ms) <=> Dist!NoDuplicates(ms)
<1> DEFINE f == [i \in 1..Len(ms) |-> ms[i].parts]
           P == PathsOf(ms)
<1>1. Len(ms) \in Nat /\ DOMAIN ms = 1..Len(ms)
  BY MembersList
<1>2. f \in Surjection(1..Len(ms), P)
  BY MembersList DEF Surjection, PathsOf
<1>3. f \in Injection(1..Len(ms), P) <=> Dist!NoDuplicates(ms)
  <2>1. f \in Injection(1..Len(ms), P) <=>
          \A i, j \in 1..Len(ms) : ms[i].parts = ms[j].parts => i = j
    BY <1>2 DEF Surjection, Injection, IsInjective
  <2> QED BY <1>1, <2>1 DEF Dist!NoDuplicates
<1>4. /\ IsFiniteSet(1..Len(ms))
      /\ Cardinality(1..Len(ms)) = IF 1 > Len(ms) THEN 0 ELSE Len(ms) - 1 + 1
  BY <1>1, FS_Interval
<1>5. Cardinality(1..Len(ms)) = Len(ms)
  BY <1>1, <1>4
<1> HIDE DEF f, P
<1>6. /\ IsFiniteSet(P) /\ Cardinality(P) <= Cardinality(1..Len(ms))
      /\ Cardinality(P) = Cardinality(1..Len(ms)) <=> f \in Injection(1..Len(ms), P)
  BY <1>2, <1>4, FS_Surjection
<1> QED BY <1>3, <1>5, <1>6 DEF P

LEMMA FilesAndDirs ==
    ASSUME NEW ms \in Seq(AMember)
    PROVE  /\ Dist!FilesOf(ms) \cup Dist!DirsOf(ms) \subseteq PathsOf(ms)
           /\ (\A m \in Dist!Range(ms) : m.kind # "link") =>
                 Dist!FilesOf(ms) \cup Dist!DirsOf(ms) = PathsOf(ms)
BY MembersList DEF Dist!FilesOf, Dist!DirsOf, PathsOf

----------------------------------------------------------------------------
(* What is expected of the archives of a checkout                          *)
Expected == Dist!ExpectedSdist(Dist!ListedFiles)
PackageFiles == Dist!ExpectedPackage(Dist!ListedFiles)

(* The sets of Distribution are counted as those of this module.           *)
LEMMA SameFinite == \A S : Dist!IsFiniteSet(S) <=> IsFiniteSet(S)
BY DEF Dist!IsFiniteSet, IsFiniteSet

LEMMA SameCardinality == \A S : Dist!Cardinality(S) = Cardinality(S)
BY DEF Dist!Cardinality, Cardinality

LEMMA TrackedPaths ==
    tree \in Trees => /\ IsFiniteSet(DOMAIN tree)
                      /\ \A p \in DOMAIN tree : p \in Path /\ p # <<>>
<1> SUFFICES ASSUME tree \in Trees
             PROVE  /\ IsFiniteSet(DOMAIN tree)
                    /\ \A p \in DOMAIN tree : p \in Path /\ p # <<>>
  OBVIOUS
<1>1. DOMAIN tree \in TrackedSets
  BY DEF TrackedSets
<1>2. Dist!IsFiniteSet(DOMAIN tree) /\ DOMAIN tree \subseteq Path \ {<<>>}
  BY <1>1, PartsAssumption DEF Dist!DistributionAssumption, Path, Dist!Path
<1> QED BY <1>2, SameFinite

LEMMA ExpectedPaths ==
    ASSUME tree \in Trees
    PROVE  /\ Expected # {}
           /\ \A p \in Expected \cup SdistMetadata : p \in Path /\ p # <<>>
BY PartsAssumption, TrackedPaths
   DEF Dist!DistributionAssumption, Expected, Dist!ExpectedSdist, Dist!ListedFiles,
       Path, Dist!Path

LEMMA VerifiedMember ==
    ASSUME sdist \in Seq(AMember), Dist!VerifySdist(sdist, Expected)
    PROVE  \E root \in SdistRoots : \A m \in Dist!Range(sdist) :
              /\ m.plain /\ Dist!Range(m.parts) \cap {"..", ".", ""} = {}
              /\ m.parts \in Path /\ m.parts # <<>> /\ Head(m.parts) = root
              /\ m.kind \in {"file", "dir"}
              /\ Len(m.parts) = 1 => m.kind = "dir"
              /\ Len(m.parts) # 1 =>
                    IF m.kind = "file" THEN Tail(m.parts) \in Expected \cup SdistMetadata
                    ELSE \E p \in Expected \cup SdistMetadata :
                            Dist!IsStrictPrefix(Tail(m.parts), p)
<1> DEFINE heads == {Head(m.parts) : m \in Dist!Range(sdist)}
           f == [i \in 1..Len(sdist) |-> Head(sdist[i].parts)]
<1>1. Dist!Readable(sdist) /\ Cardinality(heads) = 1
  BY SameCardinality DEF Dist!VerifySdist
<1>2. PICK root : heads = {root}
  <2>1. f \in Surjection(1..Len(sdist), heads)
    BY MembersList DEF Surjection
  <2>2. IsFiniteSet(1..Len(sdist))
    BY MembersList, FS_Interval
  <2> HIDE DEF f, heads
  <2>3. IsFiniteSet(heads)
    BY <2>1, <2>2, FS_Surjection
  <2> QED BY <1>1, <2>3, FS_Singleton
<1>3. ASSUME NEW m \in Dist!Range(sdist)
      PROVE  /\ m.plain /\ Dist!Range(m.parts) \cap {"..", ".", ""} = {}
             /\ m.parts \in Path /\ m.parts # <<>> /\ Head(m.parts) = root
             /\ m.kind \in {"file", "dir"} /\ root \in SdistRoots
  <2>1. /\ m.plain /\ Dist!Range(m.parts) \cap {"..", ".", ""} = {}
        /\ m.parts # <<>> /\ m.kind # "link"
    BY <1>1 DEF Dist!Readable, Dist!Safe
  <2>2. m.parts \in Path /\ m.kind \in {"file", "dir", "link"}
    BY MembersList
  <2>3. Head(m.parts) = root
    BY <1>2
  <2>4. Head(m.parts) \in SdistRoots
    BY DEF Dist!VerifySdist
  <2> QED BY <2>1, <2>2, <2>3, <2>4
<1>4. ASSUME NEW m \in Dist!Range(sdist), Len(m.parts) # 1
      PROVE  IF m.kind = "file" THEN Tail(m.parts) \in Expected \cup SdistMetadata
             ELSE \E p \in Expected \cup SdistMetadata :
                     Dist!IsStrictPrefix(Tail(m.parts), p)
  <2> DEFINE rest == [m EXCEPT !.parts = Tail(m.parts)]
  <2>1. Dist!SdistAllows(rest, Expected \cup SdistMetadata)
    BY <1>4 DEF Dist!VerifySdist
  <2>2. rest.parts = Tail(m.parts) /\ rest.kind = m.kind
    <3>1. m \in AMember
      BY MembersList DEF Dist!Range
    <3> QED BY <3>1 DEF AMember
  <2> HIDE DEF rest
  <2> QED BY <2>1, <2>2 DEF Dist!SdistAllows, Dist!ProperPrefix
<1>5. \A m \in Dist!Range(sdist) : Len(m.parts) = 1 => m.kind = "dir"
  BY DEF Dist!VerifySdist
<1>6. PICK m \in Dist!Range(sdist) : Head(m.parts) = root
  BY <1>2
<1> QED BY <1>3, <1>4, <1>5, <1>6

----------------------------------------------------------------------------
(* A build lists files and directories                                     *)

LEMMA ListOfSet ==
    ASSUME NEW T, NEW S, S \subseteq T, IsFiniteSet(S)
    PROVE  Dist!SetToSeq(S) \in Seq(T)
<1> DEFINE n == Cardinality(S)
<1>1. n \in Nat /\ ExistsBijection(1..n, S)
  BY FS_CardinalityType
<1> HIDE DEF n
<1>2. \E f \in [1..n -> S] : Dist!IsInjective(f)
  BY <1>1 DEF ExistsBijection, Bijection, Injection, IsInjective, Dist!IsInjective
<1>3. Dist!SetToSeq(S) \in [1..n -> S]
  BY <1>2, SameCardinality DEF Dist!SetToSeq, n
<1>4. [1..n -> S] \subseteq Seq(T)
  BY <1>1
<1> QED BY <1>3, <1>4

LEMMA FileOfBuild ==
    ASSUME NEW p \in Path
    PROVE  Dist!File(p) \in AMember /\ Dist!Dir(p) \in AMember
BY DEF Dist!File, Dist!Dir, AMember

LEMMA BuiltSdistList ==
    ASSUME tree \in Trees, NEW root \in SdistRoots
    PROVE  Dist!SetToSeq(Dist!BuiltSdist(root)) \in Seq(AMember)
<1> DEFINE files == Expected \cup SdistMetadata
           f == [p \in files |-> Dist!File(<<root>> \o p)]
           built == {Dist!File(<<root>> \o p) : p \in files}
<1>1. root \in STRING /\ \A p \in files : p \in Path
  BY PartsAssumption, ExpectedPaths DEF Dist!DistributionAssumption
<1>2. IsFiniteSet(files)
  <2>1. IsFiniteSet(FixedFiles \cup SdistMetadata) /\ IsFiniteSet(DOMAIN tree)
    BY PartsAssumption, TrackedPaths, SameFinite DEF Dist!DistributionAssumption
  <2>2. files \subseteq (FixedFiles \cup SdistMetadata) \cup DOMAIN tree
    BY DEF Expected, Dist!ExpectedSdist, Dist!ListedFiles
  <2> HIDE DEF files
  <2>3. IsFiniteSet((FixedFiles \cup SdistMetadata) \cup DOMAIN tree)
    BY <2>1, FS_Union
  <2> QED BY <2>2, <2>3, FS_Subset
<1>3. f \in Surjection(files, built)
  BY DEF Surjection
<1>4. \A p \in files : <<root>> \o p \in Path
  BY <1>1, BelowRoot
<1>5. built \subseteq AMember
  BY <1>4, FileOfBuild
<1> HIDE DEF files, f, built
<1>6. IsFiniteSet(built \cup {Dist!Dir(<<root>>)})
  BY <1>2, <1>3, FS_Surjection, FS_AddElement
<1>7. Dist!Dir(<<root>>) \in AMember
  <2>1. <<root>> \in Path
    BY <1>1, ShortPaths
  <2> QED BY <2>1, FileOfBuild
<1>8. Dist!BuiltSdist(root) = built \cup {Dist!Dir(<<root>>)}
  BY DEF Dist!BuiltSdist, built, files, Expected
<1> QED BY <1>5, <1>6, <1>7, <1>8, ListOfSet

LEMMA PackagePaths ==
    ASSUME tree \in Trees
    PROVE  /\ PackageFiles \subseteq Path /\ IsFiniteSet(PackageFiles)
<1> DEFINE own == {q \in Dist!ListedFiles : Dist!In(q, Dist!Package, Python)}
           f == [q \in own |-> Tail(q)]
<1>1. own \subseteq DOMAIN tree
  BY DEF Dist!ListedFiles
<1>2. IsFiniteSet(own) /\ \A q \in own : q \in Path /\ q # <<>>
  BY <1>1, TrackedPaths, FS_Subset
<1>3. PackageFiles = {Tail(q) : q \in own}
  BY DEF PackageFiles, Dist!ExpectedPackage
<1> HIDE DEF own
<1>4. \A q \in own : Tail(q) \in Path
  BY <1>2, RootAndRest
<1>5. f \in Surjection(own, PackageFiles)
  BY <1>3 DEF Surjection
<1> HIDE DEF f
<1> QED BY <1>2, <1>3, <1>4, <1>5, FS_Surjection

LEMMA InfoPaths ==
    ASSUME NEW info \in DistInfos
    PROVE  /\ info \in STRING
           /\ Dist!InfoFiles(info) \subseteq Path
           /\ IsFiniteSet(Dist!RequiredInfo(info))
           /\ \A p \in Dist!InfoFiles(info) : Head(p) = info /\ p # <<>>
<1> DEFINE f == [name \in RequiredMetadata |-> <<info, name>>]
<1>1. /\ info \in STRING /\ RequiredMetadata \subseteq STRING
      /\ IsFiniteSet(RequiredMetadata)
  BY PartsAssumption, SameFinite DEF Dist!DistributionAssumption
<1>2. f \in Surjection(RequiredMetadata, Dist!RequiredInfo(info))
  BY DEF Dist!RequiredInfo, Surjection
<1>3. IsFiniteSet(Dist!RequiredInfo(info))
  <2> HIDE DEF f
  <2> QED BY <1>1, <1>2, FS_Surjection
<1>4. ASSUME NEW a \in STRING, NEW b \in STRING
      PROVE  /\ <<info, a>> \in Path /\ <<info, b, a>> \in Path
             /\ Head(<<info, a>>) = info /\ Head(<<info, b, a>>) = info
             /\ <<info, a>> # <<>> /\ <<info, b, a>> # <<>>
  BY <1>1, ShortPaths
<1>5. ASSUME NEW p \in Dist!InfoFiles(info)
      PROVE  \E a, b \in STRING : p = <<info, a>> \/ p = <<info, b, a>>
  <2>1. \/ \E name \in RequiredMetadata : p = <<info, name>>
        \/ p \in {<<info, "LICENSE">>, <<info, "NOTICE">>}
        \/ p \in {<<info, "licenses", "LICENSE">>, <<info, "licenses", "NOTICE">>}
    BY DEF Dist!InfoFiles, Dist!RequiredInfo, Dist!Places
  <2>2. "LICENSE" \in STRING /\ "NOTICE" \in STRING /\ "licenses" \in STRING
    BY PartsAssumption DEF Dist!DistributionAssumption
  <2>3. CASE \E name \in RequiredMetadata : p = <<info, name>>
    BY <1>1, <2>3
  <2>4. CASE p \in {<<info, "LICENSE">>, <<info, "NOTICE">>}
    BY <2>2, <2>4
  <2>5. CASE p \in {<<info, "licenses", "LICENSE">>, <<info, "licenses", "NOTICE">>}
    BY <2>2, <2>5
  <2> QED BY <2>1, <2>3, <2>4, <2>5
<1> QED BY <1>1, <1>3, <1>4, <1>5

LEMMA BuiltWheelList ==
    ASSUME tree \in Trees, NEW info \in DistInfos
    PROVE  Dist!SetToSeq(Dist!BuiltWheel(info)) \in Seq(AMember)
<1> DEFINE files == (PackageFiles \cup Dist!RequiredInfo(info))
                       \cup {<<info, "licenses", "LICENSE">>, <<info, "licenses", "NOTICE">>}
           f == [p \in files |-> Dist!File(p)]
           built == {Dist!File(p) : p \in files}
<1>1. IsFiniteSet(files)
  <2>1. IsFiniteSet(PackageFiles \cup Dist!RequiredInfo(info))
    BY PackagePaths, InfoPaths, FS_Union
  <2>2. files = ((PackageFiles \cup Dist!RequiredInfo(info))
                   \cup {<<info, "licenses", "LICENSE">>})
                   \cup {<<info, "licenses", "NOTICE">>}
    OBVIOUS
  <2> HIDE DEF files
  <2> QED BY <2>1, <2>2, FS_AddElement
<1>2. files \subseteq Path
  BY PackagePaths, InfoPaths DEF Dist!InfoFiles, Dist!Places
<1>3. f \in Surjection(files, built)
  BY DEF Surjection
<1>4. Dist!BuiltWheel(info) = built
  BY DEF Dist!BuiltWheel, PackageFiles
<1> HIDE DEF files, f
<1>5. built \subseteq AMember
  BY <1>2, FileOfBuild
<1> HIDE DEF built
<1> QED BY <1>1, <1>3, <1>4, <1>5, FS_Surjection, ListOfSet

----------------------------------------------------------------------------
(* A verdict stays with the archives it was given for.                     *)
VerifiedBuild ==
    /\ sdist \in Seq(AMember) /\ wheel \in Seq(AMember)
    /\ verdict = "passed" => /\ Dist!VerifySdist(sdist, Expected)
                             /\ Dist!VerifyWheel(wheel, PackageFiles)

LEMMA InitVerified == MergeInit => VerifiedBuild
<1> SUFFICES ASSUME MergeInit PROVE VerifiedBuild
  OBVIOUS
<1>1. tree \in Trees /\ verdict = "building"
  BY DEF MergeInit, Dist!Init
<1>2. /\ \E root \in SdistRoots : sdist = Dist!SetToSeq(Dist!BuiltSdist(root))
      /\ \E info \in DistInfos : wheel = Dist!SetToSeq(Dist!BuiltWheel(info))
  BY DEF MergeInit, Dist!Init
<1> QED BY <1>1, <1>2, BuiltSdistList, BuiltWheelList DEF VerifiedBuild

LEMMA ChangedList ==
    ASSUME NEW S, NEW ms \in Seq(S)
    PROVE  /\ \A m \in S : Append(ms, m) \in Seq(S)
           /\ \A i \in DOMAIN ms : Dist!RemoveAt(ms, i) \in Seq(S)
<1>1. Len(ms) \in Nat /\ DOMAIN ms = 1..Len(ms) /\ \A j \in 1..Len(ms) : ms[j] \in S
  OBVIOUS
<1>2. ASSUME NEW i \in DOMAIN ms PROVE Dist!RemoveAt(ms, i) \in Seq(S)
  <2>1. i \in 1..Len(ms) /\ i - 1 \in Int /\ i + 1 \in Int /\ 1 \in Int /\ Len(ms) \in Int
    BY <1>1
  <2>2. SubSeq(ms, 1, i - 1) \in Seq(S)
    <3>1. \A j \in 1..(i - 1) : ms[j] \in S
      BY <1>1, <2>1
    <3> QED BY <2>1, <3>1, SubSeqProperties
  <2>3. SubSeq(ms, i + 1, Len(ms)) \in Seq(S)
    <3>1. \A j \in (i + 1)..Len(ms) : ms[j] \in S
      BY <1>1, <2>1
    <3> QED BY <2>1, <3>1, SubSeqProperties
  <2> QED BY <2>2, <2>3, ConcatProperties DEF Dist!RemoveAt
<1> QED BY <1>2, AppendProperties

LEMMA AddedMember == \A m \in Members : m \in AMember
BY PartsAssumption DEF Dist!DistributionAssumption, Dist!IsMember, Dist!Path, AMember, Path

LEMMA ExtraKept == [MergeNext]_vars => UNCHANGED extra
BY DEF MergeNext, vars, distVars, BoundaryWorks, PackageWorks, EndJob, Decides,
       RerunJobs, Dist!Next, Dist!Build, Dist!Verify

LEMMA VerificationKept ==
    ASSUME UNCHANGED <<extra, sdist, wheel>>, UNCHANGED <<Expected, PackageFiles>>
    PROVE  /\ Dist!VerifySdist(sdist, Expected)' <=> Dist!VerifySdist(sdist, Expected)
           /\ Dist!VerifyWheel(wheel, PackageFiles)'
                 <=> Dist!VerifyWheel(wheel, PackageFiles)
<1>1. /\ Dist!Readable(sdist)' <=> Dist!Readable(sdist)
      /\ Dist!Readable(wheel)' <=> Dist!Readable(wheel)
  BY DEF Dist!Readable, Dist!ExtraMatches
<1> QED BY <1>1 DEF Dist!VerifySdist, Dist!VerifyWheel, Dist!MissingFromSdist

LEMMA StepVerified ==
    ASSUME VerifiedBuild, tree \in Trees, [MergeNext]_vars
    PROVE  VerifiedBuild'
<1>1. /\ Expected' = Expected /\ PackageFiles' = PackageFiles /\ extra' = extra
  BY TreeKept, ExtraKept
     DEF Expected, PackageFiles, Dist!ListedFiles, Dist!ExpectedSdist,
         Dist!ExpectedPackage
<1>2. CASE UNCHANGED <<sdist, wheel>> /\ (verdict' = "passed" => verdict = "passed")
  <2>1. /\ Dist!VerifySdist(sdist, Expected)' <=> Dist!VerifySdist(sdist, Expected)
        /\ Dist!VerifyWheel(wheel, PackageFiles)' <=> Dist!VerifyWheel(wheel, PackageFiles)
    BY <1>1, <1>2, VerificationKept
  <2> QED BY <1>2, <2>1 DEF VerifiedBuild
<1>3. CASE PackageWorks
  <2>1. CASE Dist!Build
    <3>1. verdict' = verdict /\ verdict = "building"
      BY <2>1 DEF Dist!Build
    <3>2. sdist' \in Seq(AMember) /\ wheel' \in Seq(AMember)
      BY <2>1, ChangedList, AddedMember DEF VerifiedBuild, Dist!Build
    <3> QED BY <3>1, <3>2 DEF VerifiedBuild
  <2>2. ASSUME NEW readable \in BOOLEAN, Dist!Verify(readable) PROVE VerifiedBuild'
    <3>1. UNCHANGED <<sdist, wheel>>
      BY <2>2 DEF Dist!Verify
    <3>2. verdict' = "passed" => /\ Dist!VerifySdist(sdist, Expected)
                                 /\ Dist!VerifyWheel(wheel, PackageFiles)
      BY <2>2 DEF Dist!Verify, Expected, PackageFiles
    <3> QED BY <1>1, <3>1, <3>2, VerificationKept DEF VerifiedBuild
  <2> QED BY <1>3, <2>1, <2>2 DEF PackageWorks, Dist!Next
<1>4. CASE RerunJobs
  BY <1>2, <1>4 DEF RerunJobs
<1> QED BY <1>2, <1>3, <1>4
        DEF MergeNext, vars, distVars, BoundaryWorks, EndJob, Decides

----------------------------------------------------------------------------
(* What a verified source archive unpacks to                               *)

LEMMA VerifiedUnpacks ==
    ASSUME tree \in Trees, sdist \in Seq(AMember), Dist!VerifySdist(sdist, Expected)
    PROVE  Dist!SdistUnpacks
<1>1. PICK root \in SdistRoots : \A m \in Dist!Range(sdist) :
              /\ m.plain /\ Dist!Range(m.parts) \cap {"..", ".", ""} = {}
              /\ m.parts \in Path /\ m.parts # <<>> /\ Head(m.parts) = root
              /\ m.kind \in {"file", "dir"}
              /\ Len(m.parts) = 1 => m.kind = "dir"
              /\ Len(m.parts) # 1 =>
                    IF m.kind = "file" THEN Tail(m.parts) \in Expected \cup SdistMetadata
                    ELSE \E p \in Expected \cup SdistMetadata :
                            Dist!IsStrictPrefix(Tail(m.parts), p)
  BY VerifiedMember
<1> DEFINE generated == {p \in SdistMetadata : <<root>> \o p \in Dist!FilesOf(sdist)}
           possible == Dist!Under(root, Expected \cup SdistMetadata)
<1>2. root \in STRING
  BY PartsAssumption DEF Dist!DistributionAssumption
<1>3. Dist!FilesOf(sdist) = Dist!Under(root, Expected \cup generated)
  <2>1. ASSUME NEW q \in Dist!FilesOf(sdist)
        PROVE  q \in Dist!Under(root, Expected \cup generated)
    <3>1. PICK m \in Dist!Range(sdist) : q = m.parts /\ m.kind = "file"
      BY DEF Dist!FilesOf
    <3>2. q \in Path /\ q # <<>> /\ Head(q) = root /\ Tail(q) \in Expected \cup SdistMetadata
      BY <1>1, <3>1
    <3>3. q = <<root>> \o Tail(q)
      BY <3>2, RootAndRest
    <3> QED BY <3>2, <3>3 DEF Dist!Under
  <2>2. ASSUME NEW p \in Expected PROVE <<root>> \o p \in Dist!FilesOf(sdist)
    <3>1. PICK m \in Dist!Range(sdist) : m.kind = "file" /\ Tail(m.parts) = p
      BY DEF Dist!VerifySdist, Dist!MissingFromSdist
    <3>2. m.parts = <<root>> \o p
      BY <1>1, <3>1, RootAndRest
    <3> QED BY <3>1, <3>2 DEF Dist!FilesOf
  <2> QED BY <2>1, <2>2 DEF Dist!Under
<1>4. ASSUME NEW d \in Dist!DirsOf(sdist)
      PROVE  d # <<>> /\ \E q \in possible : Dist!IsStrictPrefix(d, q)
  <2>1. PICK m \in Dist!Range(sdist) : d = m.parts /\ m.kind = "dir"
    BY DEF Dist!DirsOf
  <2>2. d \in Path /\ d # <<>> /\ Head(d) = root
    BY <1>1, <2>1
  <2> DEFINE rest == Tail(d)
  <2>3. /\ rest \in Path /\ d = <<root>> \o rest /\ Len(d) = Len(rest) + 1
        /\ Len(rest) \in Nat
    BY <2>2, RootAndRest DEF Path
  <2>4. PICK p \in Expected \cup SdistMetadata : Dist!IsStrictPrefix(rest, p)
    <3>1. CASE Len(d) = 1
      <4>1. PICK p \in Expected : p \in Path /\ p # <<>>
        BY ExpectedPaths
      <4>2. Len(p) \in Nat /\ Len(p) # 0
        BY <4>1 DEF Path
      <4> HIDE DEF rest
      <4>3. Len(rest) = 0
        BY <2>3, <3>1
      <4>4. Dist!IsStrictPrefix(rest, p)
        BY <2>3, <4>1, <4>2, <4>3, PrefixIs
      <4> QED BY <4>4
    <3>2. CASE Len(d) # 1
      BY <1>1, <2>1, <3>2
    <3> QED BY <3>1, <3>2
  <2>5. p \in Path
    BY ExpectedPaths
  <2> HIDE DEF rest
  <2>6. Dist!IsStrictPrefix(<<root>> \o rest, <<root>> \o p)
    BY <1>2, <2>3, <2>4, <2>5, PrefixBelowRoot
  <2>7. <<root>> \o p \in possible /\ Dist!IsStrictPrefix(d, <<root>> \o p)
    BY <2>3, <2>6 DEF Dist!Under
  <2> QED BY <2>2, <2>7
<1>5. Len(sdist) = Cardinality(Dist!FilesOf(sdist) \cup Dist!DirsOf(sdist))
  <2>1. Dist!NoDuplicates(sdist)
    BY DEF Dist!VerifySdist, Dist!Readable
  <2>2. \A m \in Dist!Range(sdist) : m.kind # "link"
    BY <1>1
  <2> QED BY <2>1, <2>2, MembersCounted, FilesAndDirs
<1>6. \A m \in Dist!Range(sdist) : m.plain /\ Dist!Range(m.parts) \cap {"..", ".", ""} = {}
  BY <1>1
<1>7. Dist!UnpacksTo(sdist, Dist!Under(root, Expected \cup generated), possible)
  BY <1>3, <1>4, <1>5, <1>6, SameCardinality DEF Dist!UnpacksTo
<1>8. generated \in SUBSET SdistMetadata
  OBVIOUS
<1> HIDE DEF generated
<1> QED BY <1>7, <1>8 DEF Dist!SdistUnpacks, Expected

LEMMA VerifiedIsComplete ==
    ASSUME sdist \in Seq(AMember), Dist!VerifySdist(sdist, Expected)
    PROVE  Expected \subseteq {Tail(q) : q \in Dist!FilesOf(sdist)}
BY DEF Dist!VerifySdist, Dist!MissingFromSdist, Dist!FilesOf

LEMMA MergedInv == MergeSpec => [](ScannedSoFar /\ VerifiedBuild)
<1>1. ScannedSoFar => tree \in Trees
  BY DEF ScannedSoFar
<1>2. MergeInit => ScannedSoFar /\ VerifiedBuild
  BY InitScanned, InitVerified
<1>3. (ScannedSoFar /\ VerifiedBuild) /\ [MergeNext]_vars
         => (ScannedSoFar /\ VerifiedBuild)'
  BY <1>1, StepScanned, StepVerified
<1> QED BY <1>2, <1>3, PTL DEF MergeSpec

(* What the gate lets be merged has been read by the three scanners, so no *)
(* private content, no sentence on releases and no broken citation is in   *)
(* it, for any tree and any order of the jobs and their repeats.           *)
THEOREM MergedCommitIsClean == MergeSpec => []MergedIsClean
<1>1. ScannedSoFar /\ MergedByScripts => MergedIsClean
  BY ReadIsClean, ReadCitationsHold, ReadRestatesNothing
     DEF MergedByScripts, MergedIsClean
<1> QED BY <1>1, MergedInv, MergeIsByScripts, PTL

(* A pull request is merged only with the sign-off of the author or the    *)
(* committer of each of its commits, whatever the range holds.             *)
THEOREM MergedCommitsAreCertified == MergeSpec => []MergedIsCertified
<1>1. MergedByScripts => MergedIsCertified
  BY ReadIsCertified DEF MergedByScripts, MergedIsCertified
<1> QED BY <1>1, MergeIsByScripts, PTL

(* Every public file of a merged commit is in the archive that was         *)
(* verified: what git would quote, and verify_distribution not see, was    *)
(* refused by check_boundary.                                              *)
THEOREM MergedCommitIsShipped == MergeSpec => []MergedIsShipped
<1>1. ASSUME ScannedSoFar, VerifiedBuild, MergedByScripts PROVE MergedIsShipped
  <2> SUFFICES ASSUME merged, NEW p \in DOMAIN tree, Dist!Public(p)
               PROVE  p \in {Tail(q) : q \in Dist!FilesOf(sdist)}
    BY DEF MergedIsShipped
  <2>1. Scans!JobSucceeded /\ verdict = "passed"
    BY <1>1 DEF MergedByScripts
  <2>2. p \notin Quoted
    BY <1>1, <2>1
       DEF ScannedSoFar, Scans!JobSucceeded, Scans!CheckTree, Scans!CheckPath
  <2>3. p \in Expected
    BY <2>2 DEF Expected, Dist!ExpectedSdist, Dist!ListedFiles
  <2> QED BY <1>1, <2>1, <2>3, VerifiedIsComplete DEF VerifiedBuild
<1> QED BY <1>1, MergedInv, MergeIsByScripts, PTL

(* A source archive that passes holds the public files of the checkout and *)
(* generated metadata, each once and in one directory, and nothing else,   *)
(* for any member that a wrong build may have put into it.                 *)
THEOREM PassedSdistHoldsTheTree == MergeSpec => []PassedSdistIsTheTree
<1>1. ScannedSoFar /\ VerifiedBuild => PassedSdistIsTheTree
  BY VerifiedUnpacks
     DEF ScannedSoFar, VerifiedBuild, PassedSdistIsTheTree, Dist!PassedSdistIsTheTree
<1> QED BY <1>1, MergedInv, PTL

----------------------------------------------------------------------------
(* The two archives beside each other                                      *)

(* The names below src/jlegal_okf in the archive are those of the wheel.   *)
LEMMA BelowPackageOf ==
    ASSUME NEW S, NEW root \in S, NEW p \in Seq(S)
    PROVE  LET q == <<root>> \o p
           IN  /\ Len(q) = Len(p) + 1
               /\ Len(p) >= 2 => SubSeq(q, 2, 3) = SubSeq(p, 1, 2)
               /\ p # <<>> => SubSeq(q, 3, Len(q)) = Tail(p)
<1> DEFINE r == <<root>>
           q == r \o p
<1>1. /\ r \in Seq(S) /\ Len(r) = 1 /\ Len(p) \in Nat /\ DOMAIN p = 1..Len(p)
      /\ Len(q) = 1 + Len(p)
  OBVIOUS
<1> HIDE DEF r
<1>2. ASSUME Len(p) >= 2 PROVE SubSeq(q, 2, 3) = SubSeq(p, 1, 2)
  <2>1. 2 \in (Len(r) + 1)..(Len(r) + Len(p)) /\ 3 \in (Len(r) + 1)..(Len(r) + Len(p))
    BY <1>1, <1>2
  <2>2. SubSeq(r \o p, 2, 3) = SubSeq(p, 2 - Len(r), 3 - Len(r))
    BY <1>1, <2>1, SubSeqOfConcat2
  <2>3. 2 - Len(r) = 1 /\ 3 - Len(r) = 2
    BY <1>1
  <2> QED BY <2>2, <2>3
<1>3. ASSUME p # <<>> PROVE SubSeq(q, 3, Len(q)) = Tail(p)
  <2>1. Len(p) > 0
    BY <1>1, <1>3
  <2>2. CASE Len(p) = 1
    <3>1. SubSeq(q, 3, Len(q)) = <<>> /\ SubSeq(p, 2, Len(p)) = <<>>
      BY <1>1, <2>2, SubSeqEmpty
    <3> QED BY <1>3, <3>1, TailIsSubSeq
  <2>3. CASE Len(p) # 1
    <3>1. /\ 3 \in (Len(r) + 1)..(Len(r) + Len(p))
          /\ Len(q) \in (Len(r) + 1)..(Len(r) + Len(p))
          /\ 3 - Len(r) = 2 /\ Len(q) - Len(r) = Len(p)
      BY <1>1, <2>1, <2>3
    <3>2. SubSeq(r \o p, 3, Len(q)) = SubSeq(p, 3 - Len(r), Len(q) - Len(r))
      BY <1>1, <3>1, SubSeqOfConcat2
    <3>3. SubSeq(r \o p, 3, Len(q)) = SubSeq(p, 2, Len(p))
      BY <3>1, <3>2
    <3> QED BY <1>3, <3>3, TailIsSubSeq
  <2> QED BY <2>2, <2>3
<1> QED BY <1>1, <1>2, <1>3 DEF r

LEMMA FirstNamesOf ==
    ASSUME NEW S, NEW p \in Seq(S), NEW a, NEW b
    PROVE  /\ Len(p) > 2 /\ SubSeq(p, 1, 2) = <<a, b>> =>
                 p[1] = a /\ p[2] = b /\ Head(Tail(p)) = b
           /\ Len(p) > 1 /\ SubSeq(p, 1, 1) = <<a>> => p[1] = a
<1>1. Len(p) \in Nat /\ DOMAIN p = 1..Len(p) /\ \A i \in 1..Len(p) : p[i] \in S
  OBVIOUS
<1>2. ASSUME Len(p) > 2, SubSeq(p, 1, 2) = <<a, b>>
      PROVE  p[1] = a /\ p[2] = b /\ Head(Tail(p)) = b
  <2>1. \A i \in 1..2 : p[i] \in S
    BY <1>1, <1>2
  <2>2. \A i \in 1..(2 - 1 + 1) : SubSeq(p, 1, 2)[i] = p[1 + i - 1]
    BY <2>1, SubSeqProperties
  <2> DEFINE s == SubSeq(p, 1, 2)
  <2>3. s[1] = p[1 + 1 - 1] /\ s[2] = p[1 + 2 - 1]
    <3>1. 1 \in 1..(2 - 1 + 1) /\ 2 \in 1..(2 - 1 + 1)
      OBVIOUS
    <3> HIDE DEF s
    <3> QED BY <2>2, <3>1 DEF s
  <2>4. 1 + 1 - 1 = 1 /\ 1 + 2 - 1 = 2
    OBVIOUS
  <2>5. s[1] = p[1] /\ s[2] = p[2]
    BY <2>3, <2>4
  <2>6. a = p[1] /\ b = p[2]
    <3>1. s = <<a, b>>
      BY <1>2
    <3> HIDE DEF s
    <3> QED BY <2>5, <3>1
  <2>7. p # <<>> /\ Tail(p) # <<>> /\ Tail(p)[1] = p[2]
    BY <1>1, <1>2, HeadTailProperties
  <2>8. Head(Tail(p)) = Tail(p)[1]
    <3>1. Tail(p) \in Seq(S)
      BY <2>7, HeadTailProperties
    <3> QED BY <2>7, <3>1, RootAndRestOf
  <2> QED BY <2>6, <2>7, <2>8
<1>3. ASSUME Len(p) > 1, SubSeq(p, 1, 1) = <<a>> PROVE p[1] = a
  <2>1. \A i \in 1..1 : p[i] \in S
    BY <1>1, <1>3
  <2>2. \A i \in 1..(1 - 1 + 1) : SubSeq(p, 1, 1)[i] = p[1 + i - 1]
    BY <2>1, SubSeqProperties
  <2> DEFINE s == SubSeq(p, 1, 1)
  <2>3. s[1] = p[1 + 1 - 1]
    <3>1. 1 \in 1..(1 - 1 + 1)
      OBVIOUS
    <3> HIDE DEF s
    <3> QED BY <2>2, <3>1 DEF s
  <2>4. 1 + 1 - 1 = 1
    OBVIOUS
  <2>5. s[1] = p[1] /\ s = <<a>>
    BY <1>3, <2>3, <2>4
  <2> HIDE DEF s
  <2> QED BY <2>5
<1> QED BY <1>2, <1>3

LEMMA PackageName ==
    /\ Len(Dist!Package) = 2 /\ Dist!Package = <<"src", "jlegal_okf">>
    /\ SubSeq(Dist!Package, 1, 2) = Dist!Package
<1> DEFINE S == {"src", "jlegal_okf"}
<1>1. <<"src", "jlegal_okf">> \in Seq(S) /\ Len(<<"src", "jlegal_okf">>) = 2
  OBVIOUS
<1>2. SubSeq(<<"src", "jlegal_okf">>, 1, 2) = <<"src", "jlegal_okf">>
  BY <1>1, SubSeqFull
<1> QED BY <1>1, <1>2 DEF Dist!Package

LEMMA NamesOfModule ==
    ASSUME NEW q \in Path, Dist!In(q, Dist!Package, Python)
    PROVE  Len(q) > 2 /\ SubSeq(q, 1, 2) = Dist!Package /\ Head(Tail(q)) = "jlegal_okf"
<1>1. Len(q) > 2 /\ SubSeq(q, 1, 2) = Dist!Package
  BY PackageName DEF Dist!In
<1>2. SubSeq(q, 1, 2) = <<"src", "jlegal_okf">>
  BY <1>1, PackageName
<1> QED BY <1>1, <1>2, FirstNamesOf DEF Path

LEMMA ModulesOfWheel ==
    ASSUME tree \in Trees, wheel \in Seq(AMember),
           Dist!VerifyWheel(wheel, PackageFiles)
    PROVE  {p \in Dist!FilesOf(wheel) : Head(p) = "jlegal_okf"} = PackageFiles
<1>1. PICK info \in DistInfos :
        /\ \A m \in Dist!Range(wheel) : Dist!WheelAllows(m, PackageFiles, info)
        /\ Dist!WheelComplete(wheel, PackageFiles, info)
  BY DEF Dist!VerifyWheel
<1>2. ASSUME NEW p \in Dist!FilesOf(wheel), Head(p) = "jlegal_okf"
      PROVE  p \in PackageFiles
  <2>1. PICK m \in Dist!Range(wheel) : p = m.parts /\ m.kind = "file"
    BY DEF Dist!FilesOf
  <2> QED BY <1>1, <1>2, <2>1 DEF Dist!WheelAllows
<1>3. ASSUME NEW p \in PackageFiles
      PROVE  p \in Dist!FilesOf(wheel) /\ Head(p) = "jlegal_okf"
  <2>1. PICK m \in Dist!Range(wheel) : p = m.parts /\ m.kind # "dir"
    BY <1>1 DEF Dist!WheelComplete
  <2>2. m.kind = "file"
    BY <2>1, MembersList DEF Dist!VerifyWheel, Dist!Readable
  <2>3. PICK q \in Dist!ListedFiles : p = Tail(q) /\ Dist!In(q, Dist!Package, Python)
    BY DEF PackageFiles, Dist!ExpectedPackage
  <2>4. q \in Path
    BY TrackedPaths DEF Dist!ListedFiles
  <2> QED BY <2>1, <2>2, <2>3, <2>4, NamesOfModule DEF Dist!FilesOf
<1> QED BY <1>2, <1>3

(* Of the files that may be in the source archive, those below the package *)
(* are tracked modules.                                                    *)
LEMMA BelowPackage ==
    ASSUME tree \in Trees, NEW p \in Expected \cup SdistMetadata,
           Len(p) > 2, SubSeq(p, 1, 2) = Dist!Package
    PROVE  p \in Dist!ListedFiles /\ Dist!In(p, Dist!Package, Python)
<1>1. p \in Path
  BY ExpectedPaths
<1>2. Dist!IsStrictPrefix(Dist!Package, p)
  <2> DEFINE n == Len(Dist!Package)
  <2>1. n = 2 /\ SubSeq(Dist!Package, 1, n) = SubSeq(p, 1, n) /\ Len(p) \in Nat
    <3>1. n = 2 /\ SubSeq(Dist!Package, 1, 2) = SubSeq(p, 1, 2)
      BY PackageName
    <3>2. Len(p) \in Nat
      BY <1>1 DEF Path
    <3> HIDE DEF n
    <3> QED BY <3>1, <3>2
  <2>2. n <= Len(p) /\ Len(p) # Len(Dist!Package)
    BY <2>1
  <2>3. p # Dist!Package
    BY <2>2
  <2> QED BY <2>1, <2>2, <2>3 DEF Dist!IsStrictPrefix, Dist!IsPrefix
<1>3. p \in Dist!ListedFiles /\ Dist!Public(p)
  BY <1>2, PartsAssumption
     DEF Dist!DistributionAssumption, Expected, Dist!ExpectedSdist
<1>4. SubSeq(p, 1, 2) = <<"src", "jlegal_okf">>
  BY PackageName
<1>5. p[1] = "src"
  BY <1>1, <1>4, FirstNamesOf DEF Path
<1>6. ASSUME NEW name, NEW names, Dist!In(p, <<name>>, names) PROVE p[1] = name
  <2>1. Len(<<name>>) = 1
    OBVIOUS
  <2>2. Len(p) > 1 /\ SubSeq(p, 1, 1) = <<name>>
    BY <1>6, <2>1 DEF Dist!In
  <2> QED BY <1>1, <2>2, FirstNamesOf DEF Path
<1>7. /\ ~Dist!In(p, <<"docs">>, Markdown) /\ ~Dist!In(p, <<"examples">>, Data)
      /\ ~Dist!In(p, <<"tests">>, Python)
  BY <1>5, <1>6
<1> QED BY <1>3, <1>7 DEF Dist!Public

LEMMA ModulesOfSdist ==
    ASSUME tree \in Trees, sdist \in Seq(AMember), Dist!VerifySdist(sdist, Expected)
    PROVE  {SubSeq(q, 3, Len(q)) :
              q \in {r \in Dist!FilesOf(sdist) : Len(r) > 3 /\ SubSeq(r, 2, 3) = Dist!Package}}
                = PackageFiles
<1>1. PICK root \in SdistRoots : \A m \in Dist!Range(sdist) :
        /\ m.parts \in Path /\ m.parts # <<>> /\ Head(m.parts) = root
        /\ Len(m.parts) # 1 =>
              (m.kind = "file" => Tail(m.parts) \in Expected \cup SdistMetadata)
  BY VerifiedMember
<1>2. ASSUME NEW q \in Dist!FilesOf(sdist)
      PROVE  /\ q \in Path /\ q # <<>> /\ q = <<root>> \o Tail(q)
             /\ Len(q) # 1 => Tail(q) \in Expected \cup SdistMetadata
  <2>1. PICK m \in Dist!Range(sdist) : q = m.parts /\ m.kind = "file"
    BY DEF Dist!FilesOf
  <2>2. q \in Path /\ q # <<>> /\ Head(q) = root
    BY <1>1, <2>1
  <2> QED BY <1>1, <2>1, <2>2, RootAndRest
<1>3. root \in STRING
  BY PartsAssumption DEF Dist!DistributionAssumption
<1>4. ASSUME NEW p \in Path
      PROVE  /\ Len(<<root>> \o p) = Len(p) + 1 /\ Len(p) \in Nat
             /\ Len(p) >= 2 => SubSeq(<<root>> \o p, 2, 3) = SubSeq(p, 1, 2)
             /\ p # <<>> => SubSeq(<<root>> \o p, 3, Len(<<root>> \o p)) = Tail(p)
  <2>1. p \in Seq(STRING) /\ Len(p) \in Nat
    BY DEF Path
  <2> QED BY <1>3, <2>1, BelowPackageOf
<1>5. ASSUME NEW q \in Dist!FilesOf(sdist), Len(q) > 3, SubSeq(q, 2, 3) = Dist!Package
      PROVE  SubSeq(q, 3, Len(q)) \in PackageFiles
  <2> DEFINE p == Tail(q)
  <2>1. p \in Path /\ q = <<root>> \o p /\ p \in Expected \cup SdistMetadata
    BY <1>2, <1>5, RootAndRest
  <2> HIDE DEF p
  <2>2. Len(q) = Len(p) + 1 /\ Len(p) > 2 /\ p # <<>>
    BY <1>4, <1>5, <2>1
  <2>3. SubSeq(p, 1, 2) = Dist!Package /\ SubSeq(q, 3, Len(q)) = Tail(p)
    BY <1>4, <1>5, <2>1, <2>2
  <2> QED BY <2>1, <2>2, <2>3, BelowPackage DEF PackageFiles, Dist!ExpectedPackage
<1>6. ASSUME NEW t \in PackageFiles
      PROVE  \E q \in Dist!FilesOf(sdist) : /\ Len(q) > 3 /\ SubSeq(q, 2, 3) = Dist!Package
                                            /\ t = SubSeq(q, 3, Len(q))
  <2>1. PICK p \in Dist!ListedFiles : t = Tail(p) /\ Dist!In(p, Dist!Package, Python)
    BY DEF PackageFiles, Dist!ExpectedPackage
  <2>2. p \in Path /\ p # <<>>
    BY TrackedPaths DEF Dist!ListedFiles
  <2>3. Len(p) > 2 /\ SubSeq(p, 1, 2) = Dist!Package
    BY <2>1, <2>2, NamesOfModule
  <2>4. p \in Expected
    BY <2>1 DEF Expected, Dist!ExpectedSdist, Dist!Public
  <2>5. PICK q \in Dist!FilesOf(sdist) : p = Tail(q)
    BY <2>4, VerifiedIsComplete
  <2>6. q = <<root>> \o p
    BY <1>2, <2>5
  <2>7. /\ Len(<<root>> \o p) > 3
        /\ SubSeq(<<root>> \o p, 2, 3) = Dist!Package
        /\ SubSeq(<<root>> \o p, 3, Len(<<root>> \o p)) = t
    BY <1>4, <2>1, <2>2, <2>3
  <2>8. Len(q) > 3 /\ SubSeq(q, 2, 3) = Dist!Package /\ t = SubSeq(q, 3, Len(q))
    BY <2>6, <2>7
  <2> QED BY <2>8
<1> QED BY <1>5, <1>6

(* A wheel and a source archive that pass together hold the same modules.  *)
THEOREM PassedArchivesAgree == MergeSpec => []PassedPairAgrees
<1>1. ScannedSoFar /\ VerifiedBuild => PassedPairAgrees
  BY ModulesOfWheel, ModulesOfSdist
     DEF ScannedSoFar, VerifiedBuild, PassedPairAgrees, Dist!PassedPairAgrees
<1> QED BY <1>1, MergedInv, PTL

----------------------------------------------------------------------------
(* Archives as they should be                                              *)

(* An archive with one member for each path has no link and no repetition. *)
LEMMA UnpackedMembers ==
    ASSUME NEW ms \in Seq(AMember), NEW files \in SUBSET (Path \ {<<>>}), files # {},
           NEW possible, Dist!UnpacksTo(ms, files, possible),
           \A p \in Dist!FilesOf(ms) \cup Dist!DirsOf(ms) : ~Dist!ExtraMatches(p)
    PROVE  /\ Dist!Readable(ms)
           /\ \A m \in Dist!Range(ms) :
                 /\ m.parts \in Path /\ m.parts # <<>>
                 /\ m.parts \in Dist!FilesOf(ms) \cup Dist!DirsOf(ms)
                 /\ \/ m.kind = "file" /\ m.parts \in files
                    \/ /\ m.kind = "dir"
                       /\ \E p \in possible : Dist!IsStrictPrefix(m.parts, p)
<1> DEFINE FD == Dist!FilesOf(ms) \cup Dist!DirsOf(ms)
<1>1. FD = PathsOf(ms) /\ Dist!NoDuplicates(ms)
  <2>1. FD \subseteq PathsOf(ms) /\ Cardinality(FD) = Len(ms)
    BY FilesAndDirs, SameCardinality DEF Dist!UnpacksTo
  <2> HIDE DEF FD
  <2>2. /\ IsFiniteSet(PathsOf(ms)) /\ Cardinality(PathsOf(ms)) <= Len(ms)
        /\ Cardinality(PathsOf(ms)) = Len(ms) <=> Dist!NoDuplicates(ms)
    BY MembersCounted
  <2>3. /\ Cardinality(FD) <= Cardinality(PathsOf(ms))
        /\ Cardinality(PathsOf(ms)) = Cardinality(FD) => PathsOf(ms) = FD
    BY <2>1, <2>2, FS_Subset
  <2>4. Len(ms) \in Nat /\ Cardinality(PathsOf(ms)) \in Nat
    BY <2>2, FS_CardinalityType, MembersList
  <2>5. Cardinality(PathsOf(ms)) = Len(ms)
    BY <2>1, <2>2, <2>3, <2>4
  <2> QED BY <2>1, <2>2, <2>3, <2>5
<1>2. ASSUME NEW m \in Dist!Range(ms) PROVE m.kind # "link"
  <2>1. m.parts \in FD
    BY <1>1 DEF PathsOf
  <2>2. PICK n \in Dist!Range(ms) : n.parts = m.parts /\ n.kind \in {"file", "dir"}
    BY <2>1 DEF Dist!FilesOf, Dist!DirsOf
  <2>3. PICK i \in 1..Len(ms), j \in 1..Len(ms) : m = ms[i] /\ n = ms[j]
    BY MembersList
  <2>4. i \in DOMAIN ms /\ j \in DOMAIN ms /\ i \in Int /\ j \in Int
    BY MembersList
  <2>5. i = j
    BY <1>1, <2>2, <2>3, <2>4 DEF Dist!NoDuplicates
  <2> QED BY <2>2, <2>3, <2>5
<1>3. ASSUME NEW m \in Dist!Range(ms)
      PROVE  /\ m.parts \in Path /\ m.parts # <<>> /\ m.parts \in FD
             /\ \/ m.kind = "file" /\ m.parts \in files
                \/ /\ m.kind = "dir"
                   /\ \E p \in possible : Dist!IsStrictPrefix(m.parts, p)
  <2>1. m.kind \in {"file", "dir"} /\ m.parts \in Path /\ m.parts \in FD
    BY <1>1, <1>2, MembersList DEF PathsOf
  <2>2. CASE m.kind = "file"
    <3>1. m.parts \in files
      BY <2>2 DEF Dist!FilesOf, Dist!UnpacksTo
    <3> QED BY <2>1, <2>2, <3>1
  <2>3. CASE m.kind = "dir"
    <3>1. m.parts \in Dist!DirsOf(ms)
      BY <2>3 DEF Dist!DirsOf
    <3>2. m.parts # <<>> /\ \E p \in possible : Dist!IsStrictPrefix(m.parts, p)
      BY <3>1 DEF Dist!UnpacksTo
    <3> QED BY <2>1, <2>3, <3>2
  <2> QED BY <2>1, <2>2, <2>3
<1>4. ms # <<>>
  <2>1. PICK p : p \in Dist!FilesOf(ms)
    BY DEF Dist!UnpacksTo
  <2>2. PICK i \in 1..Len(ms) : TRUE
    BY <2>1, MembersList DEF Dist!FilesOf
  <2> QED BY <2>2
<1>5. ASSUME NEW m \in Dist!Range(ms)
      PROVE  Dist!Safe(m) /\ m.kind # "link" /\ ~Dist!ExtraMatches(m.parts)
  BY <1>2, <1>3 DEF Dist!Safe, Dist!UnpacksTo
<1>6. Dist!Readable(ms)
  BY <1>1, <1>4, <1>5 DEF Dist!Readable
<1> QED BY <1>3, <1>6

LEMMA HeadOfPrefix ==
    ASSUME NEW d \in Path, NEW p \in Path, d # <<>>, Dist!IsStrictPrefix(d, p)
    PROVE  p # <<>> /\ Head(d) = Head(p)
<1>1. /\ Len(d) \in Nat /\ Len(p) \in Nat /\ Len(d) # 0
      /\ p # <<>> <=> Len(p) # 0
  BY DEF Path
<1>2. Len(d) < Len(p) /\ \A i \in 1..Len(d) : d[i] = p[i]
  BY PrefixIs
<1>3. p # <<>> /\ d[1] = p[1]
  BY <1>1, <1>2
<1> QED BY <1>3, RootAndRest

LEMMA NamesOfTail ==
    ASSUME NEW S, NEW q \in Seq(S), q # <<>>
    PROVE  Dist!Range(Tail(q)) \subseteq Dist!Range(q)
<1>1. /\ Tail(q) \in Seq(S) /\ Len(Tail(q)) = Len(q) - 1 /\ Len(q) \in Nat
      /\ \A i \in 1..Len(Tail(q)) : Tail(q)[i] = q[i + 1]
  BY HeadTailProperties
<1>2. DOMAIN Tail(q) = 1..Len(Tail(q)) /\ DOMAIN q = 1..Len(q)
  BY <1>1
<1> QED BY <1>1, <1>2 DEF Dist!Range

LEMMA AllowedNames ==
    ASSUME tree \in Trees, NEW p \in Expected \cup SdistMetadata
    PROVE  Head(p) \notin Dist!SdistFiles \cup Dist!SdistTrees
<1>1. p \in Path /\ p # <<>>
  BY ExpectedPaths
<1>2. CASE p \in FixedFiles \cup SdistMetadata
  BY <1>2, PartsAssumption DEF Dist!DistributionAssumption
<1>3. CASE Dist!Public(p)
  <2>1. ASSUME NEW name, NEW names, Dist!In(p, <<name>>, names) PROVE p[1] = name
    <3>1. Len(<<name>>) = 1
      OBVIOUS
    <3>2. Len(p) > 1 /\ SubSeq(p, 1, 1) = <<name>>
      BY <2>1, <3>1 DEF Dist!In
    <3> QED BY <1>1, <3>2, FirstNamesOf DEF Path
  <2>2. ASSUME Dist!In(p, Dist!Package, Python) PROVE p[1] = "src"
    <3>1. Len(p) > 2 /\ SubSeq(p, 1, 2) = <<"src", "jlegal_okf">>
      BY <1>1, <2>2, PackageName, NamesOfModule
    <3> QED BY <1>1, <3>1, FirstNamesOf DEF Path
  <2>3. p[1] \in {"docs", "examples", "tests", "src"}
    BY <1>3, <2>1, <2>2 DEF Dist!Public
  <2>4. Head(p) = p[1]
    BY <1>1, RootAndRest
  <2> QED BY <2>3, <2>4 DEF Dist!SdistFiles, Dist!SdistTrees
<1> QED BY <1>2, <1>3 DEF Expected, Dist!ExpectedSdist

LEMMA WellBuiltSdist ==
    ASSUME tree \in Trees, sdist \in Seq(AMember), Dist!WellBuilt
    PROVE  Dist!VerifySdist(sdist, Expected)
<1> DEFINE allowed == Expected \cup SdistMetadata
<1>1. PICK root \in SdistRoots, generated \in SUBSET SdistMetadata :
        Dist!UnpacksTo(sdist, Dist!Under(root, Expected \cup generated),
                              Dist!Under(root, allowed))
  BY DEF Dist!WellBuilt, Dist!SdistUnpacks, Expected
<1> DEFINE files == Dist!Under(root, Expected \cup generated)
           possible == Dist!Under(root, allowed)
<1>2. root \in STRING /\ Expected # {} /\ \A p \in allowed : p \in Path /\ p # <<>>
  BY ExpectedPaths, PartsAssumption DEF Dist!DistributionAssumption
<1>3. ASSUME NEW p \in allowed
      PROVE  /\ <<root>> \o p \in Path /\ <<root>> \o p # <<>>
             /\ Head(<<root>> \o p) = root /\ Tail(<<root>> \o p) = p
             /\ Len(<<root>> \o p) # 1
  <2>1. Len(p) \in Nat /\ Len(p) # 0
    BY <1>2 DEF Path
  <2>2. /\ <<root>> \o p \in Path /\ <<root>> \o p # <<>>
        /\ Head(<<root>> \o p) = root /\ Tail(<<root>> \o p) = p
        /\ Len(<<root>> \o p) = Len(p) + 1
    BY <1>2, BelowRoot
  <2> QED BY <2>1, <2>2
<1>4. files \in SUBSET (Path \ {<<>>}) /\ files # {}
  BY <1>2, <1>3 DEF Dist!Under
<1>5. \A q \in files : q \in {<<root>> \o p : p \in allowed}
  BY DEF Dist!Under
<1>6. \A p \in Dist!FilesOf(sdist) \cup Dist!DirsOf(sdist) :
          ~Dist!PrivateMarker(p) /\ ~Dist!ExtraMatches(p)
  BY DEF Dist!WellBuilt
<1> HIDE DEF files, possible, allowed
<1>7. /\ Dist!Readable(sdist)
      /\ \A m \in Dist!Range(sdist) :
                 /\ m.parts \in Path /\ m.parts # <<>>
                 /\ m.parts \in Dist!FilesOf(sdist) \cup Dist!DirsOf(sdist)
                 /\ \/ m.kind = "file" /\ m.parts \in files
                    \/ /\ m.kind = "dir"
                       /\ \E p \in possible : Dist!IsStrictPrefix(m.parts, p)
  BY <1>1, <1>4, <1>6, UnpackedMembers DEF files, possible, allowed
<1>8. ASSUME NEW m \in Dist!Range(sdist)
      PROVE  /\ Head(m.parts) = root
             /\ \/ m.kind = "file" /\ \E p \in allowed : m.parts = <<root>> \o p
                \/ /\ m.kind = "dir"
                   /\ \E p \in allowed : Dist!IsStrictPrefix(m.parts, <<root>> \o p)
  <2>1. CASE m.kind = "file" /\ m.parts \in files
    <3>1. PICK p \in allowed : m.parts = <<root>> \o p
      BY <1>5, <2>1
    <3> QED BY <1>3, <2>1, <3>1
  <2>2. CASE m.kind = "dir" /\ \E p \in possible : Dist!IsStrictPrefix(m.parts, p)
    <3>1. PICK p \in allowed : Dist!IsStrictPrefix(m.parts, <<root>> \o p)
      BY <2>2 DEF possible, Dist!Under
    <3>2. Head(m.parts) = Head(<<root>> \o p)
      BY <1>3, <1>7, <3>1, HeadOfPrefix
    <3> QED BY <1>3, <2>2, <3>1, <3>2
  <2> QED BY <1>7, <2>1, <2>2
<1>9. Dist!Cardinality({Head(m.parts) : m \in Dist!Range(sdist)}) = 1
  <2>1. {Head(m.parts) : m \in Dist!Range(sdist)} \subseteq {root}
    BY <1>8
  <2>2. PICK q : q \in Dist!FilesOf(sdist)
    BY <1>1, <1>4 DEF Dist!UnpacksTo, files
  <2>3. {Head(m.parts) : m \in Dist!Range(sdist)} # {}
    BY <2>2 DEF Dist!FilesOf
  <2>4. {Head(m.parts) : m \in Dist!Range(sdist)} = {root}
    BY <2>1, <2>3
  <2>5. Cardinality({root}) = 1
    BY FS_Singleton
  <2> QED BY <2>4, <2>5, SameCardinality
<1>10. ASSUME NEW m \in Dist!Range(sdist), Len(m.parts) # 1
       PROVE  Dist!SdistAllows([m EXCEPT !.parts = Tail(m.parts)], allowed)
  <2> DEFINE rest == Tail(m.parts)
             n == [m EXCEPT !.parts = rest]
  <2>1. n.parts = rest /\ n.kind = m.kind
    <3>1. m \in AMember
      BY MembersList DEF Dist!Range
    <3> QED BY <3>1 DEF AMember
  <2>2. rest \in Path /\ rest # <<>> /\ m.parts = <<root>> \o rest
    <3>1. /\ rest \in Path /\ Len(m.parts) = Len(rest) + 1
          /\ m.parts = <<root>> \o rest
      BY <1>7, <1>8, RootAndRest
    <3>2. Len(rest) # 0
      BY <1>10, <3>1
    <3> HIDE DEF rest
    <3>3. rest # <<>>
      BY <3>2
    <3> QED BY <3>1, <3>3
  <2>3. ~Dist!PrivateMarker(rest)
    <3>1. m.parts \in Seq(STRING) /\ m.parts # <<>>
      BY <1>7 DEF Path
    <3>2. Dist!Range(rest) \subseteq Dist!Range(m.parts)
      BY <3>1, NamesOfTail
    <3>3. ~Dist!PrivateMarker(m.parts)
      BY <1>6, <1>7
    <3> QED BY <3>2, <3>3 DEF Dist!PrivateMarker
  <2> HIDE DEF rest, n
  <2>4. CASE m.kind = "file" /\ \E p \in allowed : m.parts = <<root>> \o p
    <3>1. rest \in allowed
      BY <1>3, <2>4 DEF rest
    <3>2. Head(rest) \notin Dist!SdistFiles \cup Dist!SdistTrees
      BY <3>1, AllowedNames DEF allowed
    <3> QED BY <2>1, <2>3, <2>4, <3>1, <3>2
            DEF Dist!SdistAllows, Dist!ForbiddenSdist, n, rest
  <2>5. CASE m.kind = "dir" /\ \E p \in allowed : Dist!IsStrictPrefix(m.parts, <<root>> \o p)
    <3>1. PICK p \in allowed : Dist!IsStrictPrefix(m.parts, <<root>> \o p)
      BY <2>5
    <3>2. Dist!IsStrictPrefix(rest, p)
      BY <1>2, <2>2, <3>1, PrefixBelowRoot
    <3>3. Head(rest) = Head(p)
      BY <1>2, <2>2, <3>2, HeadOfPrefix
    <3>4. Head(rest) \notin Dist!SdistFiles \cup Dist!SdistTrees
      BY <3>3, AllowedNames DEF allowed
    <3> QED BY <2>1, <2>3, <2>5, <3>2, <3>4
            DEF Dist!SdistAllows, Dist!ForbiddenSdist, Dist!ProperPrefix, n, rest
  <2> QED BY <1>8, <2>4, <2>5
<1>11. ASSUME NEW m \in Dist!Range(sdist), Len(m.parts) = 1 PROVE m.kind = "dir"
  BY <1>3, <1>8, <1>11
<1>12. Dist!MissingFromSdist(sdist, Expected) = {}
  <2>1. ASSUME NEW p \in Expected
        PROVE  \E m \in Dist!Range(sdist) : m.kind = "file" /\ Tail(m.parts) = p
    <3>1. <<root>> \o p \in Dist!FilesOf(sdist)
      BY <1>1 DEF Dist!UnpacksTo, Dist!Under
    <3>2. Tail(<<root>> \o p) = p
      BY <1>3 DEF allowed
    <3> QED BY <3>1, <3>2 DEF Dist!FilesOf
  <2> QED BY <2>1 DEF Dist!MissingFromSdist
<1> QED BY <1>7, <1>8, <1>9, <1>10, <1>11, <1>12 DEF Dist!VerifySdist, allowed

LEMMA PackageNames ==
    ASSUME tree \in Trees, NEW p \in PackageFiles
    PROVE  p \in Path /\ p # <<>> /\ Head(p) = "jlegal_okf"
<1>1. PICK q \in Dist!ListedFiles : p = Tail(q) /\ Dist!In(q, Dist!Package, Python)
  BY DEF PackageFiles, Dist!ExpectedPackage
<1>2. q \in Path /\ q # <<>>
  BY TrackedPaths DEF Dist!ListedFiles
<1>3. Len(q) > 2 /\ Head(Tail(q)) = "jlegal_okf"
  BY <1>1, <1>2, NamesOfModule
<1>4. Tail(q) \in Path /\ Len(q) = Len(Tail(q)) + 1
  BY <1>2, RootAndRest
<1>5. Len(p) # 0 /\ p \in Path
  BY <1>1, <1>3, <1>4 DEF Path
<1>6. p # <<>>
  BY <1>5
<1> QED BY <1>1, <1>3, <1>5, <1>6

LEMMA WellBuiltWheel ==
    ASSUME tree \in Trees, wheel \in Seq(AMember), Dist!WellBuilt
    PROVE  Dist!VerifyWheel(wheel, PackageFiles)
<1>1. PICK info \in DistInfos : \E given \in SUBSET Dist!InfoFiles(info) :
        /\ Dist!RequiredInfo(info) \subseteq given
        /\ \A name \in {"LICENSE", "NOTICE"} : Dist!Places(info, name) \cap given # {}
        /\ Dist!UnpacksTo(wheel, PackageFiles \cup given,
                                 PackageFiles \cup Dist!InfoFiles(info))
  BY DEF Dist!WellBuilt, PackageFiles
<1>2. PICK generated \in SUBSET Dist!InfoFiles(info) :
        /\ Dist!RequiredInfo(info) \subseteq generated
        /\ \A name \in {"LICENSE", "NOTICE"} : Dist!Places(info, name) \cap generated # {}
        /\ Dist!UnpacksTo(wheel, PackageFiles \cup generated,
                                 PackageFiles \cup Dist!InfoFiles(info))
  BY <1>1
<1> DEFINE files == PackageFiles \cup generated
           possible == PackageFiles \cup Dist!InfoFiles(info)
<1>3. ASSUME NEW p \in possible
      PROVE  /\ p \in Path /\ p # <<>>
             /\ p \in PackageFiles => Head(p) = "jlegal_okf"
             /\ p \in Dist!InfoFiles(info) => Head(p) = info
  BY PackageNames, InfoPaths
<1>4. /\ info \in InfoLike /\ "jlegal_okf" \notin InfoLike
      /\ info \notin Dist!WheelFiles \cup Dist!WheelTrees
      /\ "jlegal_okf" \notin Dist!WheelFiles \cup Dist!WheelTrees
  <2>1. /\ info \in InfoLike
        /\ InfoLike \subseteq
              STRING \ (Dist!WheelFiles \cup Dist!WheelTrees \cup {"jlegal_okf"})
    BY PartsAssumption DEF Dist!DistributionAssumption
  <2>2. "jlegal_okf" \notin Dist!WheelFiles \cup Dist!WheelTrees
    BY DEF Dist!WheelFiles, Dist!WheelTrees
  <2> QED BY <2>1, <2>2
<1>5. files \subseteq possible
  OBVIOUS
<1>6. PICK licence : licence \in generated /\ licence \in Dist!InfoFiles(info)
  BY <1>2
<1>7. \A p \in Dist!FilesOf(wheel) \cup Dist!DirsOf(wheel) :
          ~Dist!PrivateMarker(p) /\ ~Dist!ExtraMatches(p)
  BY DEF Dist!WellBuilt
<1>8. /\ Dist!Readable(wheel)
      /\ \A m \in Dist!Range(wheel) :
                 /\ m.parts \in Path /\ m.parts # <<>>
                 /\ m.parts \in Dist!FilesOf(wheel) \cup Dist!DirsOf(wheel)
                 /\ \/ m.kind = "file" /\ m.parts \in files
                    \/ /\ m.kind = "dir"
                       /\ \E p \in possible : Dist!IsStrictPrefix(m.parts, p)
  <2>1. files \in SUBSET (Path \ {<<>>}) /\ files # {}
    BY <1>3, <1>5, <1>6
  <2>2. Dist!UnpacksTo(wheel, files, possible)
    BY <1>2
  <2> HIDE DEF files, possible
  <2> QED BY <1>7, <2>1, <2>2, UnpackedMembers
<1>9. ASSUME NEW m \in Dist!Range(wheel)
      PROVE  Head(m.parts) \in {"jlegal_okf", info}
  <2>1. CASE m.parts \in files
    BY <1>3, <1>5, <2>1
  <2>2. CASE \E p \in possible : Dist!IsStrictPrefix(m.parts, p)
    <3>1. PICK p \in possible : Dist!IsStrictPrefix(m.parts, p)
      BY <2>2
    <3>2. Head(m.parts) = Head(p)
      BY <1>3, <1>8, <3>1, HeadOfPrefix
    <3> QED BY <1>3, <3>1, <3>2
  <2> QED BY <1>8, <2>1, <2>2
<1>10. {Head(m.parts) : m \in Dist!Range(wheel)} \cap InfoLike = {info}
  <2>1. PICK m \in Dist!Range(wheel) : m.parts = licence
    BY <1>2, <1>6 DEF Dist!UnpacksTo, Dist!FilesOf
  <2>2. Head(m.parts) = info
    BY <1>3, <1>6, <2>1
  <2> QED BY <1>4, <1>9, <2>2
<1>11. ASSUME NEW m \in Dist!Range(wheel)
       PROVE  Dist!WheelAllows(m, PackageFiles, info)
  <2>1. ~Dist!ForbiddenWheel(m.parts)
    BY <1>4, <1>9 DEF Dist!ForbiddenWheel
  <2>2. ~Dist!PrivateMarker(m.parts)
    BY <1>7, <1>8
  <2>3. CASE m.kind = "file" /\ m.parts \in files
    <3>1. /\ Head(m.parts) = "jlegal_okf" => m.parts \in PackageFiles
          /\ Head(m.parts) # "jlegal_okf" =>
                Head(m.parts) = info /\ m.parts \in Dist!InfoFiles(info)
      BY <1>3, <1>4, <1>5, <2>3
    <3> QED BY <2>1, <2>2, <2>3, <3>1 DEF Dist!WheelAllows
  <2>4. CASE m.kind = "dir" /\ \E p \in possible : Dist!IsStrictPrefix(m.parts, p)
    BY <2>1, <2>2, <2>4 DEF Dist!WheelAllows, Dist!ProperPrefix
  <2> QED BY <1>8, <2>3, <2>4
<1>12. Dist!WheelComplete(wheel, PackageFiles, info)
  <2> DEFINE held == {m.parts : m \in {n \in Dist!Range(wheel) : n.kind # "dir"}}
  <2>1. files \subseteq held
    BY <1>2 DEF Dist!UnpacksTo, Dist!FilesOf
  <2> HIDE DEF held
  <2>2. /\ PackageFiles \cup Dist!RequiredInfo(info) \subseteq held
        /\ \A name \in {"LICENSE", "NOTICE"} : Dist!Places(info, name) \cap held # {}
    BY <1>2, <2>1
  <2> QED BY <2>2 DEF Dist!WheelComplete, held
<1> QED BY <1>8, <1>10, <1>11, <1>12 DEF Dist!VerifyWheel

(* A pair of archives that holds what it should passes verification, in    *)
(* whatever order its members are, with or without its directories and     *)
(* wherever its licence is.                                                *)
THEOREM WellBuiltPairPasses == MergeSpec => []WellBuiltIsVerified
<1>1. ScannedSoFar /\ VerifiedBuild => WellBuiltIsVerified
  BY WellBuiltSdist, WellBuiltWheel
     DEF ScannedSoFar, VerifiedBuild, WellBuiltIsVerified, Dist!WellBuiltIsVerified,
         Expected, PackageFiles
<1> QED BY <1>1, MergedInv, PTL
=============================================================================
