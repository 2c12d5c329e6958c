-------------------------- MODULE QuietAcquisition --------------------------
(***************************************************************************)
(* The protocol under which the saved files stay consistent: a single      *)
(* fetch without --force is at work and nobody deletes, while reports and  *)
(* corpora are made of what is there.  A course of the commands is quiet   *)
(* in this way, or it is any course of Acquisition.                        *)
(***************************************************************************)
EXTENDS Acquisition

CONSTANT Lone   \* the fetch that runs in quiet

VARIABLE quiet  \* the course keeps to the protocol

courseVars == <<vars, quiet>>

CourseInit == /\ Init /\ quiet \in BOOLEAN
              /\ quiet => Lone \in Fetchers \ (Forced \cup Past)

QuietNext == \/ Fetch(Lone)
             \/ \E v \in Validators : Validate(v)
             \/ \E c \in Compilers : Compile(c)

CourseNext == (IF quiet THEN QuietNext ELSE Next) /\ UNCHANGED quiet

CourseSpec == CourseInit /\ [][CourseNext]_courseVars

----------------------------------------------------------------------------
(* VerifiedReportAgrees, when nothing replaces the snapshot between the two*)
(* readings of validate-source.                                            *)
QuietReportAgrees == quiet => VerifiedReportAgrees

(* ReceiptBesideSnapshot, with one fetch that may die between its files.   *)
QuietReceiptBesideSnapshot == quiet => ReceiptBesideSnapshot

(* Without --force a snapshot is never replaced: the test of fetch_egov_xml*)
(* stands although it is made long before os.replace.                      *)
SnapshotKept == [][quiet /\ xml # None => xml' = xml]_courseVars
=============================================================================
