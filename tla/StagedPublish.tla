--------------------------- MODULE StagedPublish ---------------------------
(***************************************************************************)
(* The output transaction shared by pipeline.compile_adaptation and        *)
(* legal_okf.export_okf: look at the destination, build every file of the  *)
(* tree in a private staging directory next to it (each file through the   *)
(* temporary name of _atomic_bytes), rename the staging directory onto the *)
(* destination, and on any Exception remove the staging directory.         *)
(* Several commands run at once on one destination.  What the files say is *)
(* abstracted to who wrote them: an entry is a pair <<name, writer>>.      *)
(*                                                                         *)
(* Simplifications: the directory's other contents are not modelled; an    *)
(* rm -r of the destination is one step; staging names never collide       *)
(* (mkdtemp), so each writer has its own.                                  *)
(***************************************************************************)
EXTENDS Naturals, Sequences

CONSTANTS Writers,    \* compile and export-okf processes
          FileNames,  \* the names of canonical artifacts and bundle files
          TempName,   \* the mkstemp name of the file being written
          FilesOf,    \* FilesOf[w]: the files w writes, in its order
          Faults      \* what may go wrong, of "io", "rmtree", "kill", "operator"

ASSUME StagedPublishAssumption ==
    /\ FilesOf \in [Writers -> Seq(FileNames)]
    /\ \A w \in Writers : Len(FilesOf[w]) > 0
    /\ TempName \notin FileNames
    /\ Faults \subseteq {"io", "rmtree", "kill", "operator"}

VARIABLES pc,       \* pc[w]: where in compile_adaptation / export_okf w is
          next,     \* next[w]: index of the file w writes next
          stages,   \* the writers whose staging directory exists
          staged,   \* staged[w]: the entries of w's staging directory
          dest      \* the destination path: a record of kind and entries

vars == <<pc, next, stages, staged, dest>>

Absent    == [kind |-> "absent", entries |-> {}]
EmptyDir  == [kind |-> "dir",    entries |-> {}]
PlainFile == [kind |-> "file",   entries |-> {}]

Entry   == (FileNames \cup {TempName}) \X Writers
Tree(w) == {<<FilesOf[w][i], w>> : i \in 1..Len(FilesOf[w])}
Temp(w) == <<TempName, w>>

Outside == {"check", "prepare"}                \* before the try block
Inside  == {"write", "temp", "synced", "rollback"}
Ended   == {"ok", "refused", "failed", "residue", "killed"}

TypeOK == /\ pc \in [Writers -> Outside \cup Inside \cup Ended]
          /\ next \in [Writers -> Nat \ {0}]
          /\ stages \subseteq Writers
          /\ staged \in [Writers -> SUBSET Entry]
          /\ dest \in [kind : {"absent", "dir", "file"}, entries : SUBSET Entry]

Init == /\ pc = [w \in Writers |-> "check"]
        /\ next = [w \in Writers |-> 1]
        /\ stages = {}
        /\ staged = [w \in Writers |-> {}]
        /\ dest \in {Absent, EmptyDir, PlainFile}

Goto(w, label) == pc' = [pc EXCEPT ![w] = label]

----------------------------------------------------------------------------
(* destination.exists() and OUTPUT_EXISTS_REFUSED: an existing file, or a  *)
(* directory even if empty, ends the command.                              *)
CheckDestination(w) ==
    /\ pc[w] = "check"
    /\ Goto(w, IF dest.kind = "absent" THEN "prepare" ELSE "refused")
    /\ UNCHANGED <<next, stages, staged, dest>>

(* Mapping, acquisition, rights, corpus or manifest refused (by compile    *)
(* mostly after the check of the destination, by export-okf before it), or *)
(* an OSError of mkdir or mkdtemp: nothing is there to be removed.         *)
FailBeforeStage(w) ==
    /\ "io" \in Faults
    /\ pc[w] \in Outside
    /\ Goto(w, "failed")
    /\ UNCHANGED <<next, stages, staged, dest>>

MakeStage(w) ==
    /\ pc[w] = "prepare"
    /\ stages' = stages \cup {w}
    /\ Goto(w, "write")
    /\ UNCHANGED <<next, staged, dest>>

(* Mutant: the last file of the list, the manifest, is forgotten.          *)
MoreFilesButLast(w) == next[w] < Len(FilesOf[w])

MoreFiles(w) == next[w] <= Len(FilesOf[w])

(* _atomic_bytes, in three steps: mkstemp in the directory of the file,    *)
(* write with fsync, os.replace onto the final name.                       *)
OpenTemp(w) ==
    /\ pc[w] = "write" /\ MoreFiles(w)
    /\ staged' = [staged EXCEPT ![w] = @ \cup {Temp(w)}]
    /\ Goto(w, "temp")
    /\ UNCHANGED <<next, stages, dest>>

SyncTemp(w) ==
    /\ pc[w] = "temp"
    /\ Goto(w, "synced")
    /\ UNCHANGED <<next, stages, staged, dest>>

RenameTempStays(w) ==
    /\ pc[w] = "synced"
    /\ staged' = [staged EXCEPT
                    ![w] = (@ \ {Temp(w)}) \cup {<<FilesOf[w][next[w]], w>>}]
    /\ Goto(w, "write")
    /\ UNCHANGED <<next, stages, dest>>

RenameTemp(w) ==
    /\ pc[w] = "synced"
    /\ staged' = [staged EXCEPT
                    ![w] = (@ \ {Temp(w)}) \cup {<<FilesOf[w][next[w]], w>>}]
    /\ next' = [next EXCEPT ![w] = @ + 1]
    /\ Goto(w, "write")
    /\ UNCHANGED <<stages, dest>>

(* An Exception while a file is built or written.  _atomic_bytes unlinks   *)
(* its temporary file (the unlink may itself fail) and re-raises.          *)
WriteFails(w) ==
    /\ "io" \in Faults
    /\ pc[w] \in {"write", "temp", "synced"}
    /\ \E left \in {staged[w], staged[w] \ {Temp(w)}} :
          staged' = [staged EXCEPT ![w] = left]
    /\ Goto(w, "rollback")
    /\ UNCHANGED <<next, stages, dest>>

----------------------------------------------------------------------------
(* Mutants of Replaceable: any directory is replaced, as shutil.move after *)
(* an rmtree would; a command gives way to any other that has a stage.     *)
ReplaceableAnyDirectory == dest.kind # "file"
ReplaceableByOnlyStage ==
    dest \in {Absent, EmptyDir} /\ \A v, w \in stages : v = w

(* os.replace(stage, destination) is rename(2) of a directory: it succeeds *)
(* over nothing or over an empty directory and fails with ENOTEMPTY or     *)
(* ENOTDIR over anything else.                                             *)
Replaceable == dest \in {Absent, EmptyDir}

Publish(w) ==
    /\ pc[w] = "write" /\ ~MoreFiles(w)
    /\ Replaceable
    /\ dest' = [kind |-> "dir", entries |-> staged[w]]
    /\ stages' = stages \ {w}
    /\ staged' = [staged EXCEPT ![w] = {}]
    /\ Goto(w, "ok")
    /\ UNCHANGED next

(* Mutants of PublishFails: os.replace outside the try; its error ignored. *)
PublishFailsUncaught(w) ==
    /\ pc[w] = "write" /\ ~MoreFiles(w)
    /\ ~Replaceable
    /\ Goto(w, "failed")
    /\ UNCHANGED <<next, stages, staged, dest>>

PublishFailsSilently(w) ==
    /\ pc[w] = "write" /\ ~MoreFiles(w)
    /\ ~Replaceable
    /\ Goto(w, "ok")
    /\ UNCHANGED <<next, stages, staged, dest>>

PublishFails(w) ==
    /\ pc[w] = "write" /\ ~MoreFiles(w)
    /\ ~Replaceable
    /\ Goto(w, "rollback")
    /\ UNCHANGED <<next, stages, staged, dest>>

(* except Exception: shutil.rmtree(stage, ignore_errors=True); raise       *)
Rollback(w) ==
    /\ pc[w] = "rollback"
    /\ stages' = stages \ {w}
    /\ staged' = [staged EXCEPT ![w] = {}]
    /\ Goto(w, "failed")
    /\ UNCHANGED <<next, dest>>

(* rmtree ignores its own errors: some of the stage may stay behind.       *)
RollbackIncomplete(w) ==
    /\ "rmtree" \in Faults
    /\ pc[w] = "rollback"
    /\ \E left \in SUBSET staged[w] : staged' = [staged EXCEPT ![w] = left]
    /\ Goto(w, "residue")
    /\ UNCHANGED <<next, stages, dest>>

(* SIGKILL, power loss, or a KeyboardInterrupt, which "except Exception"   *)
(* does not catch: no clean-up runs.                                       *)
Kill(w) ==
    /\ "kill" \in Faults
    /\ pc[w] \in Outside \cup Inside
    /\ Goto(w, "killed")
    /\ UNCHANGED <<next, stages, staged, dest>>

----------------------------------------------------------------------------
(* The operator prepares or clears the destination by hand, and sweeps the *)
(* staging directory of a command that is no longer running.               *)
PreparePath == /\ "operator" \in Faults
               /\ dest = Absent
               /\ dest' \in {EmptyDir, PlainFile}
               /\ UNCHANGED <<pc, next, stages, staged>>

ClearPath == /\ "operator" \in Faults
             /\ dest # Absent
             /\ dest' = Absent
             /\ UNCHANGED <<pc, next, stages, staged>>

SweepStage(w) == /\ "operator" \in Faults
                 /\ w \in stages /\ pc[w] \in {"residue", "killed"}
                 /\ stages' = stages \ {w}
                 /\ staged' = [staged EXCEPT ![w] = {}]
                 /\ UNCHANGED <<pc, next, dest>>

Step(w) == \/ CheckDestination(w) \/ FailBeforeStage(w) \/ MakeStage(w)
           \/ OpenTemp(w) \/ SyncTemp(w) \/ RenameTemp(w) \/ WriteFails(w)
           \/ Publish(w) \/ PublishFails(w)
           \/ Rollback(w) \/ RollbackIncomplete(w)

Environment == \/ PreparePath \/ ClearPath
               \/ \E w \in Writers : Kill(w) \/ SweepStage(w)

Next == Environment \/ \E w \in Writers : Step(w)

Spec == Init /\ [][Next]_vars

----------------------------------------------------------------------------
(* Whoever reads the destination, at any moment, finds nothing, an empty   *)
(* directory or file it was given, or the complete tree of exactly one     *)
(* command that ran to its end: never part of a tree, never a temporary    *)
(* file, never files of two commands (pipeline.py's "transactional         *)
(* compilation").                                                          *)
DestinationComplete ==
    dest.entries # {} =>
        \E w \in Writers : pc[w] = "ok" /\ dest.entries = Tree(w)

(* A published tree is immutable: no step changes it except the operator's *)
(* removal of the whole directory.  The exists() test is long past when    *)
(* os.replace runs; it is rename(2)'s refusal that protects the tree.      *)
PublishedImmutable ==
    [][dest.entries # {} => dest' \in {dest, Absent}]_vars

(* A command that ended by itself, whatever it met, leaves no staging      *)
(* directory, unless rmtree itself failed.                                 *)
NoResidue == \A w \in Writers : pc[w] \in {"ok", "refused", "failed"} =>
                                   w \notin stages /\ staged[w] = {}

(* Every command that is not killed ends.                                  *)
EveryCommandEnds == \A w \in Writers : <>(pc[w] \in Ended)

----------------------------------------------------------------------------
(* Refinement: the path is the promise's output; a writer's outcome is     *)
(* decided the moment it publishes or stops.                               *)
Outcome(label) == IF label = "ok" THEN "published"
                  ELSE IF label \in Ended THEN "gave_up" ELSE "running"

Promise == INSTANCE Publication WITH
              Trees   <- [w \in Writers |-> Tree(w)],
              output  <- dest,
              outcome <- [w \in Writers |-> Outcome(pc[w])]

(* The staged transaction implements the all-or-nothing publication.       *)
ImplementsPublication == Promise!Spec
=============================================================================
