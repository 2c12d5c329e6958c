-------------------------- MODULE MCStagedPublish --------------------------
(***************************************************************************)
(* Instances of StagedPublish for TLC: two compile commands and one        *)
(* export-okf command aimed at the same --out-dir.                         *)
(***************************************************************************)
EXTENDS StagedPublish

CONSTANTS compile1, compile2, export

(* The order of compile_adaptation, without the projections and crosswalks *)
(* between the first and the last; a bundle has the canonical copies, the  *)
(* concepts and the bundle manifest, one name for each group.              *)
CompileFiles == <<"corpus", "manifest">>
ExportFiles  == <<"canonical", "concepts", "bundle_manifest">>

MCFilesOf == [w \in Writers |-> IF w = export THEN ExportFiles ELSE CompileFiles]
MCFileNames == {"corpus", "manifest",
                "canonical", "concepts", "bundle_manifest"}

AllFaults == {"io", "rmtree", "kill", "operator"}

(* Whether nothing goes wrong in this run.                                 *)
VARIABLE calm

CalmNext == \E w \in Writers :
    \/ CheckDestination(w) \/ MakeStage(w) \/ OpenTemp(w) \/ SyncTemp(w)
    \/ RenameTemp(w) \/ Publish(w) \/ PublishFails(w) \/ Rollback(w)

MCInit == Init /\ calm \in BOOLEAN
MCNext == (IF calm THEN CalmNext ELSE Next) /\ UNCHANGED calm

(* A command is a sequential program: while it lives it takes its next step. *)
MCSpec == /\ MCInit /\ [][MCNext]_<<vars, calm>>
          /\ \A w \in Writers : WF_<<vars, calm>>(Step(w) /\ UNCHANGED calm)

(* With no fault, commands racing for a free destination do not all lose:  *)
(* one of them publishes (compile_adaptation, export_okf).                 *)
RaceHasWinner == (calm /\ dest = Absent /\ \A w \in Writers : pc[w] = "check")
                    ~> (\E w \in Writers : pc[w] = "ok")
=============================================================================
