------------------------- MODULE BundleExportProofs -------------------------
(***************************************************************************)
(* For any builds, in any number, and any removals and fetches meanwhile:  *)
(* a bundle that validate-okf accepts is the bundle of one build, and      *)
(* export-okf makes such a bundle of a directory that is left alone.       *)
(***************************************************************************)
EXTENDS BundleExport, TLAPS

N == 15  \* the number of readings

(* The files and the slots of the readings                                 *)
File == <<"manifest", "corpus", "projection", "corpus", "crosswalk", "projection",
          "corpus", "projection", "corpus", "corpus", "crosswalk", "projection",
          "manifest", "source", "manifest">>

(* The place of a slot, so that no two readings fill the same              *)
Place == [manifest |-> 1, corpus |-> 2, projection |-> 3, corpus_bytes |-> 4,
          crosswalk_bytes |-> 5, projection_bytes |-> 6, corpus_rows |-> 7,
          projection_rows |-> 8, nodes |-> 9, corpus_copy |-> 10,
          crosswalk_copy |-> 11, projection_copy |-> 12, manifest_copy |-> 13,
          source |-> 14, manifest_digest |-> 15]

LEMMA ReadsAre ==
    /\ Len(Reads) = N /\ DOMAIN Reads = 1..N
    /\ Reads[1].slot = "manifest" /\ Reads[2].slot = "corpus"
    /\ Reads[3].slot = "projection" /\ Reads[4].slot = "corpus_bytes"
    /\ Reads[5].slot = "crosswalk_bytes" /\ Reads[6].slot = "projection_bytes"
    /\ Reads[7].slot = "corpus_rows" /\ Reads[8].slot = "projection_rows"
    /\ Reads[9].slot = "nodes" /\ Reads[10].slot = "corpus_copy"
    /\ Reads[11].slot = "crosswalk_copy" /\ Reads[12].slot = "projection_copy"
    /\ Reads[13].slot = "manifest_copy" /\ Reads[14].slot = "source"
    /\ Reads[15].slot = "manifest_digest"
BY DEF Reads, Reading, N

LEMMA FilesAre == \A i \in 1..N : Reads[i].file = File[i]
BY DEF Reads, Reading, File, N

LEMMA PlacesAre == \A i \in 1..N : Place[Reads[i].slot] = i
BY ReadsAre DEF Place, N

LEMMA SlotsAre == \A i \in 1..N : Reads[i].slot \in Slots
BY ReadsAre DEF Slots

----------------------------------------------------------------------------
TypeInv ==
    /\ build \in Builds /\ present \subseteq CorpusFiles
    /\ builds \in Nat \ {0} /\ next \in 1..(N + 1) /\ DOMAIN held = Slots
    /\ outcome \in {"reading", "exported", "failed"}

(* A reading that was made found a file, and a manifest is of some build.  *)
Filled == \A i \in 1..N :
    i < next => /\ held[Reads[i].slot] # None
                /\ File[i] = "manifest" => held[Reads[i].slot] \in Builds

(* The source that was read is the one of the manifest verified first.     *)
SourceChecked == next > 14 => held.source = held.manifest.src

(* As long as the first build is whole, every reading was of it.           *)
Undisturbed == builds = 1 /\ present = CorpusFiles =>
    \A i \in 1..N : i < next /\ File[i] # "source" =>
        held[Reads[i].slot] = FileOf(File[i], build)

(* A bundle is what all readings gave; a verdict is about it.              *)
Finished == bundle # None =>
    outcome = "exported" /\ next = N + 1 /\ bundle = BundleOf(held)
Judged == verdict = "valid" => bundle # None /\ Valid(bundle)

IInv == TypeInv /\ Filled /\ SourceChecked /\ Undisturbed /\ Finished /\ Judged

LEMMA InitInv == Init => IInv
BY BundleExportAssumption
   DEF Init, IInv, TypeInv, Filled, SourceChecked, Undisturbed, Finished, Judged, N

(* What a reading leaves of the earlier ones, and what it adds             *)
LEMMA ReadKeeps ==
    ASSUME IInv, Read, outcome' = "reading"
    PROVE  /\ next \in 1..N /\ next' = next + 1 /\ DOMAIN held' = Slots
           /\ held'[Reads[next].slot] = Content(File[next])
           /\ held'[Reads[next].slot] # None
           /\ Passes(held', Reads[next].slot)
           /\ \A i \in 1..N : i # next =>
                 held'[Reads[i].slot] = held[Reads[i].slot]
<1> DEFINE r == Reads[next]
           h == [held EXCEPT ![r.slot] = Content(r.file)]
<1>1. next \in 1..N
  BY ReadsAre DEF IInv, TypeInv, Read, N
<1>2. held' = h /\ next' = next + 1 /\ h[r.slot] # None /\ Passes(h, r.slot)
  BY DEF Read
<1>3. DOMAIN held = Slots /\ r.slot \in Slots /\ r.file = File[next]
  BY <1>1, SlotsAre, FilesAre DEF IInv, TypeInv
<1>4. DOMAIN h = Slots /\ h[r.slot] = Content(File[next])
  BY <1>3
<1>5. ASSUME NEW i \in 1..N, i # next
      PROVE  h[Reads[i].slot] = held[Reads[i].slot]
  <2>1. Reads[i].slot # r.slot
    BY <1>1, <1>5, PlacesAre
  <2>2. Reads[i].slot \in DOMAIN held
    BY <1>3, SlotsAre
  <2> QED BY <2>1, <2>2
<1> HIDE DEF h, r
<1> QED BY <1>1, <1>2, <1>3, <1>4, <1>5 DEF r

LEMMA ReadFails ==
    ASSUME IInv, Read, outcome' # "reading"
    PROVE  UNCHANGED <<held, next>> /\ outcome' = "failed" /\ bundle = None
BY DEF Read, IInv, Finished

LEMMA ReadInv == IInv /\ Read => IInv'
<1> SUFFICES ASSUME IInv, Read PROVE IInv'
  OBVIOUS
<1> USE DEF IInv
<1>1. /\ UNCHANGED <<workspace, bundle, verdict>> /\ outcome = "reading"
      /\ bundle = None
  BY DEF Read, Finished
<1>2. CASE outcome' # "reading"
  <2>1. UNCHANGED <<held, next>> /\ outcome' = "failed"
    BY <1>2, ReadFails
  <2> QED
    BY <1>1, <2>1 DEF TypeInv, Filled, SourceChecked, Undisturbed, Finished,
                      Judged, workspace
<1>3. CASE outcome' = "reading"
  <2>1. /\ next \in 1..N /\ next' = next + 1 /\ DOMAIN held' = Slots
        /\ held'[Reads[next].slot] = Content(File[next])
        /\ held'[Reads[next].slot] # None
        /\ Passes(held', Reads[next].slot)
        /\ \A i \in 1..N : i # next =>
              held'[Reads[i].slot] = held[Reads[i].slot]
    BY <1>3, ReadKeeps
  <2>2. File[next] # "source" =>
            File[next] \in present /\ Content(File[next]) = FileOf(File[next], build)
    BY <2>1 DEF Content
  <2>3. TypeInv'
    BY <1>1, <1>3, <2>1 DEF TypeInv, workspace, N
  <2>4. Filled'
    <3>1. File[next] = "manifest" => Content(File[next]) \in Builds
      BY <2>2 DEF FileOf, TypeInv
    <3> QED BY <2>1, <3>1 DEF Filled, N
  <2>5. SourceChecked'
    <3>1. CASE next = 14
      <4>1. Reads[14].slot = "source"
        BY ReadsAre
      <4> QED BY <2>1, <3>1, <4>1 DEF Passes, SourceChecked
    <3>2. CASE next # 14
      <4>1. Reads[1].slot = "manifest" /\ Reads[14].slot = "source"
        BY ReadsAre
      <4>2. next' > 14 => held'["source"] = held["source"]
                          /\ held'["manifest"] = held["manifest"]
        BY <2>1, <3>2, <4>1 DEF N
      <4>3. next' > 14 => next > 14
        BY <2>1, <3>2 DEF N
      <4> QED BY <4>2, <4>3 DEF SourceChecked
    <3> QED BY <3>1, <3>2
  <2>6. Undisturbed'
    <3> SUFFICES ASSUME builds' = 1, present' = CorpusFiles, NEW i \in 1..N,
                        i < next', File[i] # "source"
                 PROVE  held'[Reads[i].slot] = FileOf(File[i], build')
      BY DEF Undisturbed
    <3>1. builds = 1 /\ present = CorpusFiles /\ build' = build
      BY <1>1 DEF workspace
    <3>2. CASE i = next
      BY <2>1, <2>2, <3>1, <3>2
    <3>3. CASE i # next
      BY <2>1, <3>1, <3>3 DEF Undisturbed, N
    <3> QED BY <3>2, <3>3
  <2>7. Finished' /\ Judged'
    BY <1>1 DEF Finished, Judged
  <2> QED BY <2>3, <2>4, <2>5, <2>6, <2>7
<1> QED BY <1>2, <1>3

LEMMA StepInv == IInv /\ [Next]_vars => IInv'
<1> SUFFICES ASSUME IInv, [Next]_vars PROVE IInv'
  OBVIOUS
<1>1. CASE Read
  BY <1>1, ReadInv
<1>2. CASE PublishBundle
  <2>1. /\ UNCHANGED <<workspace, next, held, verdict>> /\ next = N + 1
        /\ bundle' = BundleOf(held) /\ outcome' = "exported" /\ bundle = None
    BY <1>2, ReadsAre DEF PublishBundle, IInv, TypeInv, Finished, N
  <2>2. verdict # "valid"
    BY <2>1 DEF IInv, Judged
  <2>3. TypeInv' /\ Filled' /\ SourceChecked' /\ Undisturbed'
    BY <2>1 DEF IInv, TypeInv, Filled, SourceChecked, Undisturbed, workspace
  <2>4. Finished' /\ Judged'
    <3>1. BundleOf(held)' = BundleOf(held)
      BY <2>1 DEF BundleOf, Bundle
    <3> QED BY <2>1, <2>2, <3>1 DEF Finished, Judged
  <2> QED BY <2>3, <2>4 DEF IInv
<1>3. CASE ValidateOkf
  BY <1>3 DEF ValidateOkf, workspace, exporting, IInv, TypeInv, Filled,
              SourceChecked, Undisturbed, Finished, Judged
<1>4. ASSUME NEW file \in CorpusFiles, RemoveFile(file) PROVE IInv'
  <2>1. present' # CorpusFiles /\ present' \subseteq CorpusFiles
    BY <1>4 DEF RemoveFile, IInv, TypeInv
  <2> QED
    BY <1>4, <2>1 DEF RemoveFile, exporting, IInv, TypeInv, Filled,
              SourceChecked, Undisturbed, Finished, Judged
<1>5. ASSUME NEW b \in Builds, Compile(b) PROVE IInv'
  <2>1. builds' \in Nat \ {0} /\ builds' # 1
    BY <1>5 DEF Compile, IInv, TypeInv
  <2> QED
    BY <1>5, <2>1 DEF Compile, exporting, IInv, TypeInv, Filled,
              SourceChecked, Undisturbed, Finished, Judged
<1>6. ASSUME NEW s \in Bodies, Fetch(s) PROVE IInv'
  BY <1>6 DEF Fetch, exporting, IInv, TypeInv, Filled, SourceChecked,
              Undisturbed, Finished, Judged
<1>7. CASE UNCHANGED vars
  BY <1>7 DEF vars, workspace, exporting, IInv, TypeInv, Filled, SourceChecked,
              Undisturbed, Finished, Judged
<1> QED
  BY <1>1, <1>2, <1>3, <1>4, <1>5, <1>6, <1>7 DEF Next, Export

----------------------------------------------------------------------------
(* A finished bundle, by its parts                                         *)
LEMMA FinishedBundle ==
    ASSUME IInv, bundle # None
    PROVE  /\ bundle = Bundle([corpus |-> held.corpus_copy,
                               projection |-> held.projection_copy,
                               manifest |-> held.manifest_copy,
                               source |-> held.source],
                              held.nodes, held.manifest.facts,
                              Nodes(held.manifest), held.manifest_digest,
                              held.manifest.rights)
           /\ {held.manifest, held.manifest_copy, held.manifest_digest} \subseteq Builds
<1>1. next = N + 1 /\ bundle = BundleOf(held)
  BY DEF IInv, Finished
<1>2. /\ held["manifest"] \in Builds /\ held["manifest_copy"] \in Builds
      /\ held["manifest_digest"] \in Builds
  BY <1>1, ReadsAre DEF IInv, Filled, File, N
<1> QED BY <1>1, <1>2 DEF BundleOf

LEMMA ValidIsOneBuild == IInv => ValidBundleIsOneBuild
<1> SUFFICES ASSUME IInv, verdict = "valid"
             PROVE  \E b \in Builds : bundle = BundleOfBuild(b)
  BY DEF ValidBundleIsOneBuild
<1>1. bundle # None /\ Valid(bundle)
  BY DEF IInv, Judged
<1> DEFINE b == held.manifest_copy
<1>2. b \in Builds
  BY <1>1, FinishedBundle
<1>3. bundle.canonical = [corpus |-> held.corpus_copy,
                          projection |-> held.projection_copy,
                          manifest |-> b, source |-> held.source]
  BY <1>1, FinishedBundle DEF Bundle
<1>4. /\ held.corpus_copy = Nodes(b) /\ held.projection_copy = Nodes(b)
      /\ bundle.corpus_sha256 = Nodes(b) /\ bundle.manifest_sha256 = b
      /\ bundle.rights = b.rights /\ held.source = Nodes(b)[1]
      /\ bundle.nodes = Nodes(b) /\ bundle.facts = b.facts
  BY <1>1, <1>3 DEF Valid
<1>5. held.source = b.src
  BY <1>4 DEF Nodes
<1>6. bundle = BundleOfBuild(b)
  BY <1>1, <1>4, <1>5, FinishedBundle DEF Bundle, BundleOfBuild
<1> QED BY <1>2, <1>6

LEMMA ExportedIsValid == IInv => ExportedBundleValidates
<1> SUFFICES ASSUME IInv, builds = 1, present = CorpusFiles, bundle # None
             PROVE  Valid(bundle)
  BY DEF ExportedBundleValidates
<1>1. next = N + 1
  BY DEF IInv, Finished
<1>2. /\ held["manifest"] = FileOf("manifest", build)
      /\ held["nodes"] = FileOf("corpus", build)
      /\ held["corpus_copy"] = FileOf("corpus", build)
      /\ held["projection_copy"] = FileOf("projection", build)
      /\ held["manifest_copy"] = FileOf("manifest", build)
      /\ held["manifest_digest"] = FileOf("manifest", build)
  BY <1>1, ReadsAre DEF IInv, Undisturbed, File, N
<1>3. /\ FileOf("manifest", build) = build /\ FileOf("corpus", build) = Nodes(build)
      /\ FileOf("projection", build) = Nodes(build)
  BY DEF FileOf
<1>4. held.source = build.src
  BY <1>1, <1>2, <1>3 DEF IInv, SourceChecked, N
<1>5. Nodes(build)[1] = build.src
  BY DEF Nodes
<1> QED BY <1>2, <1>3, <1>4, <1>5, FinishedBundle DEF Valid, Bundle

(* No mixture of builds gets past validate-okf, however the directory and  *)
(* the source change while export-okf makes its fifteen readings.          *)
THEOREM NoMixtureIsValid == Spec => []ValidBundleIsOneBuild
BY InitInv, StepInv, ValidIsOneBuild, PTL DEF Spec

(* An export from a directory of which nothing was removed is valid.       *)
THEOREM ExportIsValid == Spec => []ExportedBundleValidates
BY InitInv, StepInv, ExportedIsValid, PTL DEF Spec
=============================================================================
