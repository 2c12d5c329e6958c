------------------------ MODULE StagedPublishProofs ------------------------
(***************************************************************************)
(* For any number of commands, any lists of files and any faults: the      *)
(* destination of the staged transaction is always complete, what was      *)
(* published is never altered, a command that ends by itself leaves no     *)
(* stage, and the transaction implements Publication.                      *)
(***************************************************************************)
EXTENDS StagedPublish, TLAPS

(* The files w has put into its staging directory under their final names. *)
Finished(w) == {<<FilesOf[w][i], w>> : i \in 1..(next[w] - 1)}

(* What a staging directory holds at each point of the transaction.        *)
StageInv(w) ==
    /\ pc[w] \in Outside \cup {"ok", "refused", "failed"}
          => w \notin stages /\ staged[w] = {}
    /\ pc[w] \in Outside => next[w] = 1
    /\ next[w] <= Len(FilesOf[w]) + 1
    /\ pc[w] = "write" => staged[w] = Finished(w)
    /\ pc[w] \in {"temp", "synced"}
          => MoreFiles(w) /\ staged[w] = Finished(w) \cup {Temp(w)}

DestInv == /\ dest.kind # "dir" => dest.entries = {}
           /\ DestinationComplete

IInv == TypeOK /\ (\A w \in Writers : StageInv(w)) /\ DestInv

----------------------------------------------------------------------------
LEMMA FilesType ==
    ASSUME NEW w \in Writers
    PROVE  /\ Len(FilesOf[w]) \in Nat \ {0}
           /\ \A i \in 1..Len(FilesOf[w]) : FilesOf[w][i] \in FileNames
BY StagedPublishAssumption

LEMMA TreeType ==
    ASSUME NEW w \in Writers
    PROVE  Tree(w) \subseteq FileNames \X Writers /\ Tree(w) # {}
<1>1. <<FilesOf[w][1], w>> \in Tree(w)
  BY FilesType DEF Tree
<1>2. ASSUME NEW i \in 1..Len(FilesOf[w])
      PROVE  <<FilesOf[w][i], w>> \in FileNames \X Writers
  BY FilesType
<1>3. QED
  BY <1>1, <1>2 DEF Tree

LEMMA FinishedType ==
    ASSUME NEW w \in Writers, next[w] \in Nat, next[w] <= Len(FilesOf[w]) + 1
    PROVE  Finished(w) \subseteq FileNames \X Writers
<1>1. ASSUME NEW i \in 1..(next[w] - 1)
      PROVE  <<FilesOf[w][i], w>> \in FileNames \X Writers
  BY FilesType
<1>2. QED
  BY <1>1 DEF Finished

(* A writer that has put every file in place has its whole tree.           *)
LEMMA FinishedIsTree ==
    ASSUME NEW w \in Writers, TypeOK, StageInv(w), ~MoreFiles(w)
    PROVE  Finished(w) = Tree(w)
<1>1. next[w] = Len(FilesOf[w]) + 1
  BY FilesType DEF TypeOK, StageInv, MoreFiles
<1>2. QED
  BY <1>1, FilesType DEF Finished, Tree

(* The initial state has the invariant.                                    *)
LEMMA InitInv == Init => IInv
<1> SUFFICES ASSUME Init PROVE IInv
  OBVIOUS
<1>1. TypeOK
  BY DEF Init, TypeOK, Outside, Absent, EmptyDir, PlainFile
<1>2. ASSUME NEW w \in Writers PROVE StageInv(w)
  BY FilesType DEF Init, StageInv, Outside, Finished, MoreFiles
<1>3. DestInv
  BY DEF Init, DestInv, DestinationComplete, Absent, EmptyDir, PlainFile
<1>4. QED
  BY <1>1, <1>2, <1>3 DEF IInv

(* A step of one writer leaves the stages of the others as they are.       *)
LEMMA OthersKept ==
    ASSUME NEW v \in Writers, StageInv(v),
           pc'[v] = pc[v], next'[v] = next[v], staged'[v] = staged[v],
           v \in stages' => v \in stages
    PROVE  StageInv(v)'
BY DEF StageInv, MoreFiles, Finished

(* A step that leaves the destination alone and unpublishes nothing.       *)
LEMMA DestKept ==
    ASSUME DestInv, dest' = dest,
           \A v \in Writers : pc[v] = "ok" => pc'[v] = "ok"
    PROVE  DestInv'
BY DEF DestInv, DestinationComplete, Tree

LEMMA QuietStep ==
    ASSUME IInv, NEW w \in Writers,
           \/ CheckDestination(w) \/ FailBeforeStage(w) \/ MakeStage(w)
           \/ SyncTemp(w) \/ PublishFails(w) \/ Kill(w)
    PROVE  IInv'
<1> USE DEF Goto, Outside, Inside, Ended
<1>1. TypeOK'
  BY DEF IInv, TypeOK, CheckDestination, FailBeforeStage, MakeStage, SyncTemp,
         PublishFails, Kill
<1>2. StageInv(w)'
  <2>1. CASE CheckDestination(w)
    BY <2>1 DEF IInv, TypeOK, CheckDestination, StageInv
  <2>2. CASE FailBeforeStage(w)
    BY <2>2 DEF IInv, TypeOK, FailBeforeStage, StageInv
  <2>3. CASE MakeStage(w)
    BY <2>3 DEF IInv, TypeOK, MakeStage, StageInv, Finished
  <2>4. CASE SyncTemp(w)
    BY <2>4 DEF IInv, TypeOK, SyncTemp, StageInv, Finished, MoreFiles
  <2>5. CASE PublishFails(w)
    BY <2>5 DEF IInv, TypeOK, PublishFails, StageInv
  <2>6. CASE Kill(w)
    BY <2>6 DEF IInv, TypeOK, Kill, StageInv
  <2>7. QED
    BY <2>1, <2>2, <2>3, <2>4, <2>5, <2>6
<1>3. ASSUME NEW v \in Writers, v # w PROVE StageInv(v)'
  BY <1>3, OthersKept DEF IInv, TypeOK, CheckDestination, FailBeforeStage,
         MakeStage, SyncTemp, PublishFails, Kill
<1>4. DestInv'
  BY DestKept DEF IInv, TypeOK, CheckDestination, FailBeforeStage, MakeStage,
         SyncTemp, PublishFails, Kill
<1>5. QED
  BY <1>1, <1>2, <1>3, <1>4 DEF IInv

LEMMA OpenTempStep ==
    ASSUME IInv, NEW w \in Writers, OpenTemp(w)
    PROVE  IInv'
<1> USE DEF Goto, Outside, Inside, Ended
<1>1. TypeOK'
  BY DEF IInv, TypeOK, OpenTemp, Temp, Entry
<1>2. StageInv(w)'
  BY DEF IInv, TypeOK, OpenTemp, StageInv, Finished, MoreFiles, Temp
<1>3. ASSUME NEW v \in Writers, v # w PROVE StageInv(v)'
  BY <1>3, OthersKept DEF IInv, TypeOK, OpenTemp
<1>4. DestInv'
  BY DestKept DEF IInv, TypeOK, OpenTemp
<1>5. QED
  BY <1>1, <1>2, <1>3, <1>4 DEF IInv

LEMMA RenameTempStep ==
    ASSUME IInv, NEW w \in Writers, RenameTemp(w)
    PROVE  IInv'
<1> USE DEF Goto, Outside, Inside, Ended
<1> DEFINE new == <<FilesOf[w][next[w]], w>>
<1>1. next[w] \in Nat \ {0} /\ next[w] <= Len(FilesOf[w]) /\ staged[w] = Finished(w) \cup {Temp(w)}
  BY DEF IInv, TypeOK, RenameTemp, StageInv, MoreFiles
<1>2. new \in FileNames \X Writers /\ new \in Entry
  BY <1>1, FilesType DEF Entry
<1>3. TypeOK'
  BY <1>2 DEF IInv, TypeOK, RenameTemp
<1>4. staged'[w] = Finished(w) \cup {new}
  <2>1. Temp(w) \notin Finished(w)
    BY <1>1, FinishedType, FilesType, StagedPublishAssumption DEF Temp
  <2>2. QED
    BY <1>1, <2>1 DEF RenameTemp, IInv, TypeOK
<1>5. Finished(w)' = Finished(w) \cup {new}
  <2>1. next'[w] = next[w] + 1
    BY DEF RenameTemp, IInv, TypeOK
  <2>2. QED
    BY <1>1, <2>1 DEF Finished
<1>6. StageInv(w)'
  <2>1. pc'[w] = "write" /\ next'[w] = next[w] + 1
    BY DEF RenameTemp, IInv, TypeOK
  <2>2. QED
    BY <1>1, <1>4, <1>5, <2>1, FilesType DEF StageInv
<1>7. ASSUME NEW v \in Writers, v # w PROVE StageInv(v)'
  BY <1>7, OthersKept DEF IInv, TypeOK, RenameTemp
<1>8. DestInv'
  BY DestKept DEF IInv, TypeOK, RenameTemp
<1>9. QED
  BY <1>3, <1>6, <1>7, <1>8 DEF IInv

LEMMA FailureStep ==
    ASSUME IInv, NEW w \in Writers,
           WriteFails(w) \/ Rollback(w) \/ RollbackIncomplete(w) \/ SweepStage(w)
    PROVE  IInv'
<1> USE DEF Goto, Outside, Inside, Ended
<1>1. TypeOK'
  BY DEF IInv, TypeOK, WriteFails, Rollback, RollbackIncomplete, SweepStage
<1>2. StageInv(w)'
  BY DEF IInv, TypeOK, WriteFails, Rollback, RollbackIncomplete, SweepStage, StageInv
<1>3. ASSUME NEW v \in Writers, v # w PROVE StageInv(v)'
  BY <1>3, OthersKept DEF IInv, TypeOK, WriteFails, Rollback, RollbackIncomplete, SweepStage
<1>4. DestInv'
  BY DestKept DEF IInv, TypeOK, WriteFails, Rollback, RollbackIncomplete, SweepStage
<1>5. QED
  BY <1>1, <1>2, <1>3, <1>4 DEF IInv

(* The step that publishes: the stage holds the whole tree and nothing else. *)
LEMMA PublishStep ==
    ASSUME IInv, NEW w \in Writers, Publish(w)
    PROVE  IInv' /\ dest' = [kind |-> "dir", entries |-> Tree(w)]
<1> USE DEF Goto, Outside, Inside, Ended
<1>1. staged[w] = Tree(w)
  BY FinishedIsTree DEF IInv, Publish, StageInv
<1>2. dest' = [kind |-> "dir", entries |-> Tree(w)]
  BY <1>1 DEF Publish
<1>3. TypeOK'
  <2>1. Tree(w) \subseteq Entry
    BY <1>1 DEF IInv, TypeOK
  <2>2. dest' \in [kind : {"absent", "dir", "file"}, entries : SUBSET Entry]
    BY <1>2, <2>1
  <2>3. QED
    BY <2>2 DEF IInv, TypeOK, Publish
<1>4. StageInv(w)'
  BY DEF IInv, TypeOK, Publish, StageInv
<1>5. ASSUME NEW v \in Writers, v # w PROVE StageInv(v)'
  BY <1>5, OthersKept DEF IInv, TypeOK, Publish
<1>6. DestInv'
  <2>1. pc'[w] = "ok"
    BY DEF IInv, TypeOK, Publish
  <2>2. Tree(w)' = Tree(w)
    BY DEF Tree
  <2>3. QED
    BY <1>2, <2>1, <2>2 DEF DestInv, DestinationComplete
<1>7. QED
  BY <1>2, <1>3, <1>4, <1>5, <1>6 DEF IInv

LEMMA OperatorStep ==
    ASSUME IInv, PreparePath \/ ClearPath
    PROVE  IInv'
<1>1. TypeOK'
  BY DEF IInv, TypeOK, PreparePath, ClearPath, Absent, EmptyDir, PlainFile
<1>2. ASSUME NEW w \in Writers PROVE StageInv(w)'
  BY OthersKept DEF IInv, PreparePath, ClearPath
<1>3. DestInv'
  BY DEF DestInv, DestinationComplete, PreparePath, ClearPath, Absent, EmptyDir, PlainFile
<1>4. QED
  BY <1>1, <1>2, <1>3 DEF IInv

LEMMA StutterStep == ASSUME IInv, UNCHANGED vars PROVE IInv'
<1>1. TypeOK'
  BY DEF IInv, TypeOK, vars
<1>2. ASSUME NEW w \in Writers PROVE StageInv(w)'
  BY OthersKept DEF IInv, vars
<1>3. DestInv'
  BY DestKept DEF IInv, vars
<1>4. QED
  BY <1>1, <1>2, <1>3 DEF IInv

LEMMA InductiveStep == IInv /\ [Next]_vars => IInv'
<1> SUFFICES ASSUME IInv, [Next]_vars PROVE IInv'
  OBVIOUS
<1>1. CASE UNCHANGED vars
  BY <1>1, StutterStep
<1>2. CASE PreparePath \/ ClearPath
  BY <1>2, OperatorStep
<1>3. ASSUME NEW w \in Writers, Kill(w) \/ SweepStage(w) PROVE IInv'
  BY <1>3, QuietStep, FailureStep
<1>4. ASSUME NEW w \in Writers, Step(w) PROVE IInv'
  BY <1>4, QuietStep, OpenTempStep, RenameTempStep, FailureStep, PublishStep DEF Step
<1>5. QED
  BY <1>1, <1>2, <1>3, <1>4 DEF Next, Environment

(* The inductive invariant holds in every reachable state.                 *)
THEOREM Invariance == Spec => []IInv
BY InitInv, InductiveStep, PTL DEF Spec

(* Every variable keeps its type: the state of the transaction is always   *)
(* one the code can be in.                                                 *)
THEOREM TypeCorrect == Spec => []TypeOK
<1>1. IInv => TypeOK
  BY DEF IInv
<1>2. QED
  BY <1>1, Invariance, PTL

(* compile and export-okf never leave a partial, mixed or temporary-ridden *)
(* tree at the destination, whatever fails, is killed or races.            *)
THEOREM DestinationAlwaysComplete == Spec => []DestinationComplete
<1>1. IInv => DestinationComplete
  BY DEF IInv, DestInv
<1>2. QED
  BY <1>1, Invariance, PTL

(* A command that ends by itself removes its staging directory.            *)
THEOREM StagesAreCleaned == Spec => []NoResidue
<1>1. IInv => NoResidue
  BY DEF IInv, StageInv, NoResidue
<1>2. QED
  BY <1>1, Invariance, PTL

(* What has been published is only ever removed whole, by the operator.    *)
THEOREM PublishedNeverAltered == Spec => PublishedImmutable
<1>1. [Next]_vars => [dest.entries # {} => dest' \in {dest, Absent}]_vars
  <2> SUFFICES ASSUME Next, dest.entries # {} PROVE dest' \in {dest, Absent}
    OBVIOUS
  <2>1. ASSUME NEW w \in Writers, Step(w) PROVE dest' \in {dest, Absent}
    <3>1. CASE Publish(w)
      BY <3>1 DEF Publish, Replaceable, Absent, EmptyDir
    <3>2. CASE ~Publish(w)
      BY <2>1, <3>2 DEF Step, CheckDestination, FailBeforeStage, MakeStage,
           OpenTemp, SyncTemp, RenameTemp, WriteFails, PublishFails, Rollback,
           RollbackIncomplete
    <3>3. QED
      BY <3>1, <3>2
  <2>2. CASE Environment
    BY <2>2 DEF Environment, PreparePath, ClearPath, Kill, SweepStage, Absent
  <2>3. QED
    BY <2>1, <2>2 DEF Next
<1>2. QED
  BY <1>1, PTL DEF Spec, PublishedImmutable

----------------------------------------------------------------------------
(* Refinement: each step of the transaction is a step of the promise or    *)
(* leaves it unchanged.                                                    *)
LEMMA InitRefines == Init => Promise!Init
BY DEF Init, Promise!Init, Promise!Absent, Promise!EmptyDir, Promise!PlainFile,
       Absent, EmptyDir, PlainFile, Outcome, Ended

(* A step of w that neither ends w nor touches the destination.            *)
LEMMA InternalStep ==
    ASSUME TypeOK, NEW w \in Writers, NEW label, Goto(w, label), dest' = dest,
           Outcome(label) = Outcome(pc[w])
    PROVE  UNCHANGED Promise!promise
BY DEF TypeOK, Goto, Promise!promise

(* A step that ends w without publishing.                                  *)
LEMMA GiveUpStep ==
    ASSUME TypeOK, NEW w \in Writers, NEW label, Goto(w, label), dest' = dest,
           Outcome(pc[w]) = "running", Outcome(label) = "gave_up"
    PROVE  Promise!GiveUp(w)
BY DEF TypeOK, Goto, Promise!GiveUp

LEMMA WriterRefines ==
    ASSUME IInv, NEW w \in Writers, Step(w) \/ Kill(w)
    PROVE  [Promise!Next]_(Promise!promise)
<1> USE DEF Outside, Inside, Ended, Outcome
<1>1. CASE CheckDestination(w)
  <2>1. CASE dest.kind = "absent"
    BY <1>1, <2>1, InternalStep DEF IInv, CheckDestination
  <2>2. CASE dest.kind # "absent"
    BY <1>1, <2>2, GiveUpStep DEF IInv, CheckDestination, Promise!Next
  <2>3. QED
    BY <2>1, <2>2
<1>2. CASE FailBeforeStage(w)
  BY <1>2, GiveUpStep DEF IInv, FailBeforeStage, Promise!Next
<1>3. CASE MakeStage(w)
  BY <1>3, InternalStep DEF IInv, MakeStage
<1>4. CASE OpenTemp(w)
  BY <1>4, InternalStep DEF IInv, OpenTemp
<1>5. CASE SyncTemp(w)
  BY <1>5, InternalStep DEF IInv, SyncTemp
<1>6. CASE RenameTemp(w)
  BY <1>6, InternalStep DEF IInv, RenameTemp
<1>7. CASE WriteFails(w)
  BY <1>7, InternalStep DEF IInv, WriteFails
<1>8. CASE PublishFails(w)
  BY <1>8, InternalStep DEF IInv, PublishFails
<1>9. CASE Rollback(w)
  BY <1>9, GiveUpStep DEF IInv, Rollback, Promise!Next
<1>10. CASE RollbackIncomplete(w)
  BY <1>10, GiveUpStep DEF IInv, RollbackIncomplete, Promise!Next
<1>11. CASE Kill(w)
  BY <1>11, GiveUpStep DEF IInv, Kill, Promise!Next
<1>12. CASE Publish(w)
  <2>1. dest' = [kind |-> "dir", entries |-> Tree(w)]
    BY <1>12, PublishStep
  <2>2. dest \in {Promise!Absent, Promise!EmptyDir}
    BY <1>12 DEF Publish, Replaceable, Absent, EmptyDir, Promise!Absent, Promise!EmptyDir
  <2>3. Promise!Publish(w)
    BY <1>12, <2>1, <2>2 DEF IInv, TypeOK, Publish, Goto, Promise!Publish, Promise!Published
  <2>4. QED
    BY <2>3 DEF Promise!Next
<1>13. QED
  BY <1>1, <1>2, <1>3, <1>4, <1>5, <1>6, <1>7, <1>8, <1>9, <1>10, <1>11, <1>12
     DEF Step

LEMMA StepRefines == IInv /\ [Next]_vars => [Promise!Next]_(Promise!promise)
<1> SUFFICES ASSUME IInv, [Next]_vars PROVE [Promise!Next]_(Promise!promise)
  OBVIOUS
<1>1. CASE UNCHANGED vars
  BY <1>1 DEF vars, Promise!promise
<1>2. CASE PreparePath \/ ClearPath
  <2>1. Promise!Operator
    BY <1>2 DEF PreparePath, ClearPath, Promise!Operator, Promise!Absent,
         Promise!EmptyDir, Promise!PlainFile, Absent, EmptyDir, PlainFile
  <2>2. QED
    BY <2>1 DEF Promise!Next
<1>3. ASSUME NEW w \in Writers, SweepStage(w) PROVE UNCHANGED Promise!promise
  BY <1>3 DEF SweepStage, Promise!promise
<1>4. ASSUME NEW w \in Writers, Step(w) \/ Kill(w)
      PROVE  [Promise!Next]_(Promise!promise)
  BY <1>4, WriterRefines
<1>5. QED
  BY <1>1, <1>2, <1>3, <1>4 DEF Next, Environment

(* The staged transaction of compile and export-okf implements the         *)
(* all-or-nothing publication, for any number of racing commands.          *)
THEOREM TransactionRefinesPublication == Spec => ImplementsPublication
BY InitRefines, StepRefines, Invariance, PTL DEF Spec, ImplementsPublication, Promise!Spec
=============================================================================
