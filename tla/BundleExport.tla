---------------------------- MODULE BundleExport ----------------------------
(***************************************************************************)
(* jlegal export-okf on a corpus directory that may be removed and         *)
(* compiled anew while the export runs, with a source file that may be     *)
(* fetched anew, and jlegal validate-okf on the bundle.  export_okf reads  *)
(* every file several times: to verify the manifest, to parse the nodes,   *)
(* and to copy the bytes.                                                  *)
(*                                                                         *)
(* Simplifications: a build is what a compile was given: the source bytes, *)
(* the recipe (with or without --law-id), the acquisition facts and the    *)
(* rights.  A corpus file is a value computed from the build; what depends *)
(* on the build in the same way is the same value.  The tests of shape and *)
(* syntax in verify_manifest and validate_okf are left out: files made by  *)
(* compile and export-okf pass them, and they compare no two readings.     *)
(* The counts in a manifest are taken to be equal.  An e-Gov crosswalk is  *)
(* empty, and read_crosswalk also says so of a missing file: only its      *)
(* readings as bytes are modelled.  compile publishes in one step          *)
(* (Publication), and so does export-okf.                                  *)
(***************************************************************************)
EXTENDS Naturals, Sequences

CONSTANTS Bodies,    \* contents of the source file, with their digests
          Builds,    \* the builds that compile may be asked for
          MaxBuilds, \* bound on the number of builds
          NoRights,  \* the rights of a build compiled without --rights
          None,      \* no file, nothing read
          Disturbances  \* what may happen meanwhile, of "rebuild", "fetch"

(* recipe, facts and rights of a build are compared, nothing else.         *)
ASSUME BundleExportAssumption ==
    /\ \A b \in Builds : b = [src |-> b.src, recipe |-> b.recipe,
                              facts |-> b.facts, rights |-> b.rights]
    /\ \A b \in Builds : b.src \in Bodies
    /\ MaxBuilds \in Nat \ {0}
    /\ Disturbances \subseteq {"rebuild", "fetch"}

VARIABLES xml,      \* the source file, given as --input and --source
          build,    \* the build that the corpus directory comes from
          present,  \* the files that it still has
          builds,   \* how many builds there were
          next,     \* export-okf: the index of its next reading
          held,     \* export-okf: held[slot] is what a reading returned
          outcome,  \* export-okf: "reading", "exported" or "failed"
          bundle,   \* the published bundle or None
          verdict   \* of validate-okf: "none", "valid" or "invalid"

workspace == <<xml, build, present, builds>>
exporting == <<next, held, outcome>>
vars == <<workspace, exporting, bundle, verdict>>

CorpusFiles == {"corpus", "crosswalk", "projection", "manifest"}

(* The nodes depend on the source and, by _bind_build_provenance, on the   *)
(* recipe; the projection on the nodes.                                    *)
Nodes(b) == <<b.src, b.recipe>>
FileOf(file, b) == CASE file = "corpus"     -> Nodes(b)
                     [] file = "projection" -> Nodes(b)
                     [] file = "crosswalk"  -> "empty"
                     [] file = "manifest"   -> b

Content(file) == IF file = "source" THEN xml
                 ELSE IF file \in present THEN FileOf(file, build) ELSE None

----------------------------------------------------------------------------
(* The readings of export_okf, in its order                                *)
Reading(slot, file) == [slot |-> slot, file |-> file]

Reads == <<
    \* verify_manifest
    Reading("manifest", "manifest"),
    Reading("corpus", "corpus"),
    Reading("projection", "projection"),
    \* verify_canonical_artifacts: the bytes, then the rows
    Reading("corpus_bytes", "corpus"),
    Reading("crosswalk_bytes", "crosswalk"),
    Reading("projection_bytes", "projection"),
    Reading("corpus_rows", "corpus"),
    Reading("projection_rows", "projection"),
    \* export_okf
    Reading("nodes", "corpus"),
    \* _copy_canonical
    Reading("corpus_copy", "corpus"),
    Reading("crosswalk_copy", "crosswalk"),
    Reading("projection_copy", "projection"),
    Reading("manifest_copy", "manifest"),
    \* _source_reference, then the digest for _bundle_manifest
    Reading("source", "source"),
    Reading("manifest_digest", "manifest") >>

Slots == {Reads[i].slot : i \in DOMAIN Reads}

(* Mutant: _source_reference embeds the file without comparing digests.    *)
PassesUnlessSource(h, slot) ==
    /\ slot = "corpus" => h.corpus = Nodes(h.manifest)
    /\ slot = "projection" => h.projection = Nodes(h.manifest)
    /\ slot = "projection_rows" =>
          /\ h.corpus_bytes = h.corpus_rows
          /\ h.projection_bytes = h.projection_rows
          /\ h.projection_rows = h.corpus_rows
          /\ h.corpus_rows[1] = h.manifest.src

(* What is compared once a slot is filled: the digests of verify_manifest, *)
(* ARTIFACT_NOT_CANONICAL, PROJECTION_DERIVATION_MISMATCH and              *)
(* MANIFEST_NODE_PROVENANCE after the second reading of the artifacts,     *)
(* JLEGAL_OKF_SOURCE_MISMATCH.                                             *)
Passes(h, slot) ==
    /\ slot = "corpus" => h.corpus = Nodes(h.manifest)
    /\ slot = "projection" => h.projection = Nodes(h.manifest)
    /\ slot = "projection_rows" =>
          /\ h.corpus_bytes = h.corpus_rows
          /\ h.projection_bytes = h.projection_rows
          /\ h.projection_rows = h.corpus_rows
          /\ h.corpus_rows[1] = h.manifest.src
    /\ slot = "source" => h.source = h.manifest.src

Read ==
    /\ outcome = "reading" /\ next <= Len(Reads)
    /\ LET r == Reads[next]
           h == [held EXCEPT ![r.slot] = Content(r.file)]
       IN  IF h[r.slot] # None /\ Passes(h, r.slot)
           THEN held' = h /\ next' = next + 1 /\ UNCHANGED outcome
           ELSE outcome' = "failed" /\ UNCHANGED <<held, next>>
    /\ UNCHANGED <<workspace, bundle, verdict>>

(* Concepts state the nodes and the facts of the manifest verified first;  *)
(* so do the index and the derived document.                               *)
Bundle(files, nodes, facts, sha, digest, rights) ==
    [canonical |-> files, nodes |-> nodes, facts |-> facts,
     corpus_sha256 |-> sha, manifest_sha256 |-> digest, rights |-> rights]

(* Mutant: the rights area is not carried over.                            *)
BundleWithoutRights(h) ==
    Bundle([corpus |-> h.corpus_copy, projection |-> h.projection_copy,
            manifest |-> h.manifest_copy, source |-> h.source],
           h.nodes, h.manifest.facts,
           Nodes(h.manifest), h.manifest_digest, NoRights)

(* _bundle_manifest takes corpus_sha256 and rights from the first reading  *)
(* of the manifest and its digest from the last.                           *)
BundleOf(h) ==
    Bundle([corpus |-> h.corpus_copy, projection |-> h.projection_copy,
            manifest |-> h.manifest_copy, source |-> h.source],
           h.nodes, h.manifest.facts,
           Nodes(h.manifest), h.manifest_digest, h.manifest.rights)

PublishBundle ==
    /\ outcome = "reading" /\ next > Len(Reads)
    /\ bundle' = BundleOf(held)
    /\ outcome' = "exported"
    /\ UNCHANGED <<workspace, next, held, verdict>>

----------------------------------------------------------------------------
(* Mutant: the documents are not compared with the ones the canonical      *)
(* files would give.                                                       *)
ValidWhateverDocuments(b) ==
    LET m == b.canonical.manifest IN
    /\ b.canonical.corpus = Nodes(m) /\ b.canonical.projection = Nodes(m)
    /\ b.corpus_sha256 = Nodes(m) /\ b.manifest_sha256 = m
    /\ b.rights = m.rights
    /\ b.canonical.source = b.canonical.corpus[1]

(* verify_manifest on the canonical files, JLEGAL_OKF_CANONICAL_TAMPERED,  *)
(* JLEGAL_OKF_RIGHTS_MISMATCH, JLEGAL_OKF_SOURCE_TAMPERED, and each        *)
(* document as it would be made from the canonical files.                  *)
Valid(b) ==
    LET m == b.canonical.manifest IN
    /\ b.canonical.corpus = Nodes(m) /\ b.canonical.projection = Nodes(m)
    /\ b.corpus_sha256 = Nodes(m) /\ b.manifest_sha256 = m
    /\ b.rights = m.rights
    /\ b.canonical.source = b.canonical.corpus[1]
    /\ b.nodes = b.canonical.corpus /\ b.facts = m.facts

ValidateOkf ==
    /\ bundle # None /\ verdict = "none"
    /\ verdict' = IF Valid(bundle) THEN "valid" ELSE "invalid"
    /\ UNCHANGED <<workspace, exporting, bundle>>

----------------------------------------------------------------------------
(* rm -r of the corpus directory, file by file                             *)
RemoveFile(file) ==
    /\ "rebuild" \in Disturbances
    /\ file \in present
    /\ present' = present \ {file}
    /\ UNCHANGED <<xml, build, builds, exporting, bundle, verdict>>

(* compile refuses a directory that is there.                              *)
Compile(b) ==
    /\ "rebuild" \in Disturbances /\ builds < MaxBuilds
    /\ present = {} /\ b.src = xml
    /\ build' = b /\ present' = CorpusFiles /\ builds' = builds + 1
    /\ UNCHANGED <<xml, exporting, bundle, verdict>>

(* fetch --force                                                           *)
Fetch(s) ==
    /\ "fetch" \in Disturbances
    /\ xml' = s
    /\ UNCHANGED <<build, present, builds, exporting, bundle, verdict>>

Init == /\ xml \in Bodies
        /\ build \in Builds /\ present = CorpusFiles /\ builds = 1
        /\ next = 1 /\ held = [slot \in Slots |-> None]
        /\ outcome = "reading" /\ bundle = None /\ verdict = "none"

Export == Read \/ PublishBundle \/ ValidateOkf

Next == \/ Export
        \/ \E file \in CorpusFiles : RemoveFile(file)
        \/ \E b \in Builds : Compile(b)
        \/ \E s \in Bodies : Fetch(s)

Spec == Init /\ [][Next]_vars

(* export-okf, and validate-okf after it, take their next step.            *)
FairSpec == Spec /\ WF_vars(Export)

----------------------------------------------------------------------------
(* The bundle that an export of build b makes on its own                   *)
BundleOfBuild(b) ==
    Bundle([corpus |-> Nodes(b), projection |-> Nodes(b),
            manifest |-> b, source |-> b.src],
           Nodes(b), b.facts, Nodes(b), b, b.rights)

(* Whatever was removed, rebuilt and fetched while export-okf read, a      *)
(* bundle that validate-okf accepts is the bundle of one build that was    *)
(* there: no mixture gets past it.                                         *)
ValidBundleIsOneBuild ==
    verdict = "valid" => \E b \in Builds : bundle = BundleOfBuild(b)

(* validate-okf accepts whatever export-okf publishes from a corpus        *)
(* directory of which no file was removed, also when the source file was   *)
(* replaced any number of times.                                           *)
ExportedBundleValidates ==
    builds = 1 /\ present = CorpusFiles /\ bundle # None => Valid(bundle)

(* From a corpus and a source that stay as they are, and agree, export-okf *)
(* makes a bundle and validate-okf accepts it.                             *)
StableCorpusIsExported ==
    \A b \in Builds :
        [](build = b /\ present = CorpusFiles /\ xml = b.src)
            => <>(verdict = "valid")

(* A bundle's rights are those of the canonical manifest in it ("carries   *)
(* over exactly what the canonical manifest asserts").                     *)
RightsCarriedOver == bundle # None => bundle.rights = bundle.canonical.manifest.rights
=============================================================================
