# A TLA+ verification of J-LEGAL-OKF

J-LEGAL-OKF turns saved XML of Japanese laws (from the e-Gov API) and other
inputs into a canonical corpus with a manifest, and exports the corpus as a
standalone bundle. This directory holds TLA+ models of the program, TLC runs
that check them on small instances, and proofs that TLAPS checks for every
instance. Paths below are relative to the repository; "code" is
`src/jlegal_okf/`.

## 1. The system

| Component | State it keeps | Operations | Interacts with |
|---|---|---|---|
| Output transaction (`pipeline.compile_adaptation`, `legal_okf.export_okf`, `pipeline._atomic_bytes`) | the `--out-dir`, a staging directory beside it, temporary files | check destination, stage, write each file, rename, roll back | every other command run on the same path; an operator |
| e-Gov acquisition (`egov.fetch_egov_xml`, `write_acquisition_receipt`, `cli._validate_source`, `pipeline._egov_acquisition`) | XML snapshot, receipt, admission report | fetch, validate-source, compile with `--acquisition` | three commands over three shared files |
| Corpus validation (`validation.py`) | a list of node versions and a list of crosswalk rows | `collect_diagnostics`, `validate_corpus` | called by compile, validate, export-okf |
| Manifest (`pipeline.py`) | `manifest.json` beside corpus, crosswalk, projection | `compile_adaptation`, `manifest_for`, `verify_manifest`, replay from inputs | written by compile, checked by validate and export-okf |
| Bundle (`legal_okf.py`) | the exported directory | `export_okf`, `validate_okf` | reads a corpus directory several times |
| Identity and node model (`model.py`) | none | constructors, identifiers | everything |
| e-Gov XML adapter (`egov.py`) | none | admission, tree walk, text, numbers | compile, validate-source |
| Generic adapters (`adapters.py`) | none | json, xml, html | compile |
| CLI (`cli.py`) | none | the commands | the above |
| Repository tools (`tools/`, `.github/workflows/ci.yml`) | results of jobs, two archives, the checkout | four scanners, `verify_distribution`, the gate `check_ci_needs` | the forge, which merges on one check |

The program has no threads. What is hard is that each command is a process that
reads and writes shared files step by step: checks that are old when they are
used, files read twice, two files that should agree and are written one after
the other, failures and kills between any two steps. The validator decides on a
global property (a forest at every date) with local rules, the adapters give
identities to objects that have none, and the checks of the repository only
help when a merge really depends on all of them. `PROJECT.json` lists each
hazard at its line.

What makes the components correct:

* output transaction: whoever looks at the output sees nothing, what was there,
  or one whole tree; a published tree does not change; no residue; commands end;
* acquisition: a manifest claims a retrieval only of the bytes it was made
  from; reports are permanent; receipt and snapshot belong together;
* bundle: a bundle that validates is the export of one build; an export from a
  directory left alone validates;
* e-Gov adapter: a compiled law has the structure of its source and all of its
  text; what is admitted and does not compile gives cause in the source;
* other adapters: a compiled corpus has the nesting, windows and laws that the
  file says, and one node is one provision;
* manifest: what compile writes verifies and replays; what verifies was not
  changed, and its corpus says what it was made from;
* validation: accepted means one tree per law, at most one version of a node
  at a date, no node in force without its parent, and
  every legacy identifier has one answer or is openly ambiguous; nothing else is
  refused;
* repository: what is merged passed every job, its archives are the tree, its
  texts were read and its commits are certified; the gate always reports.

## 2. The modules

| Module | Role |
|---|---|
| `Publication` | abstract: a command publishes its whole tree in one step, or gives up |
| `StagedPublish` | the transaction as it is coded; `ImplementsPublication` is its refinement |
| `StagedPublishProofs` | its theorems |
| `Acquisition` | fetch, validate-source and compile over shared files |
| `QuietAcquisition` | the protocol under which the saved files stay consistent: one fetch without `--force`, no deletions |
| `AcquisitionProofs` | the theorems of both |
| `BundleExport` | export-okf reading a corpus directory that may change, and validate-okf |
| `BundleExportProofs` | its theorems |
| `Manifest` | compile's record of a build, edits of it, `verify_manifest` and the replay |
| `ManifestProofs` | its theorems |
| `CorpusValidation` | the rules of `collect_diagnostics` on nodes and crosswalk, and what they are for |
| `CorpusValidationProofs` | its theorems |
| `StructuredSources` | the json, xml and html adapters, composed with `CorpusValidation` |
| `StructuredSourcesProofs` | its theorems |
| `EgovNumbers` | how the e-Gov adapter reads numbers and branches, and how statutes write them |
| `EgovTree` | admission, walk and text rendering of the e-Gov adapter, composed with `CorpusValidation` and `EgovNumbers` |
| `EgovTreeProofs` | its theorems |
| `CiGate` | the jobs of one workflow run and the gate over them |
| `SignOff` | `check_dco` over a range of commits |
| `RepositoryScans` | `check_boundary`, `check_release_state`, `check_doc_citations` on one checkout |
| `Distribution` | the sdist and the wheel, and `verify_distribution` |
| `MergeGate` | the last four together: one commit on its way to a merge |
| `MergedCommitProofs` | the theorems of the last five: the gate, the joined workflow, and what it means for a commit that the scripts accepted it |
| `MC...` | instances for TLC |

Definitions whose comment begins with "Mutant" are not part of a model. Each is
a plausible bug in the definition that follows it; the property that must then
fail is listed in `PROJECT.json`.

### StagedPublish

`pc[w]` is the place of command `w` in `compile_adaptation` or `export_okf`,
`next[w]` the file it writes next, `staged[w]` what its staging directory
holds, `stages` which staging directories exist, `dest` what is at the output
path. An entry is a pair of a file name and the command that wrote it, so a
mixture of two trees would show.

| Action | Code |
|---|---|
| `CheckDestination` | `destination.exists()`, `OUTPUT_EXISTS_REFUSED` |
| `FailBeforeStage` | any exception before the try block |
| `MakeStage` | `tempfile.mkdtemp` |
| `OpenTemp`, `SyncTemp`, `RenameTemp` | the three steps of `_atomic_bytes` |
| `WriteFails` | an exception in the try block; the temporary file is unlinked, or that fails, too |
| `Publish`, `PublishFails` | `os.replace(stage, destination)`; the guard `Replaceable` is rename(2) on directories |
| `Rollback`, `RollbackIncomplete` | `shutil.rmtree(stage, ignore_errors=True); raise` |
| `Kill` | death of the process, or KeyboardInterrupt, which `except Exception` does not catch |
| `PreparePath`, `ClearPath`, `SweepStage` | the operator |

`SweepStage` states an assumption: only the staging directories of commands
that no longer run are removed by hand. `_atomic_bytes` creates missing parent
directories, so a stage removed under a live command would come back with part
of its files.

### Acquisition

A body of XML is an abstract value that stands for its digest; a receipt is the
digest and the fetch that wrote it. `fetch`, `check` and `comp` are the places
of the three kinds of commands. `CheckOutput` to `SaveReceipt` are
`fetch_egov_xml` and `write_acquisition_receipt`; `ReadReceipt`, `Admit`,
`CompareReceipt`, `LinkReport` are `_validate_source`, in the order in which it
touches the files; `CompileReadReceipt`, `Adapt`, `PublishCorpus` are
`_compile`. Which bodies the stages of the code refuse is left open:
`Admissible` are those that admission accepts, `Adaptable` those of them that
the adapter makes nodes of, `Compilable` those whose nodes `validate_corpus`
accepts, so that an admitted body may still fail in a compile, and in
validate-source when it is asked to check a receipt (`CompareReceipt`, or
`ConstructorRaises` when the error is one that `_validate_source` does not
catch and no report is written). That the corpus can be written is assumed here
and left to `StagedPublish`. Each file is replaced in one step, which is what
`StagedPublish` shows of `_atomic_bytes`. `Past` are fetches that ended before
the model begins: they explain the receipt that may already be there.
`QuietAcquisition` adds a flag `quiet`: a quiet course has one fetch, `Lone`,
that is not forced, and nobody deletes; any other is a course of `Acquisition`
with all faults.

### BundleExport

The corpus directory is a build (source, recipe, facts, rights) and the files
still present; the source file may be fetched anew. An export goes through the
table `Reads`, the fifteen readings of `verify_manifest`,
`verify_canonical_artifacts`, `export_okf`, `_copy_canonical`,
`_source_reference` and `_bundle_manifest` in the order of the code, and after
each makes the comparisons that the code makes then (`Passes`). `BundleOf` says
which part of the bundle comes from which reading; `Valid` is what
`validate_okf` compares. The directory is removed file by file and compiled
anew in one step, and the bundle is published in one step: that is what
`Publication` promises. What a build's file says is a value computed from the
build, so builds that differ only in rights have equal nodes.

### Manifest

`compile` is `ReadMapping`, `Adapt`, `Publish`, or a refusal at each of them;
`job` is what it was asked and has read. `ManifestFor` follows `manifest_for`
and `compile_adaptation` key by key; a digest is the content it is the digest
of. `RewriteMapping` saves the mapping file anew while compile is between
parsing it and hashing it. Then anyone may edit the directory: a key, the
schema with the records that belong to it, the recipe, the inputs, the nodes
(with or without binding them to recipe and inputs again), the crosswalk; and
`Reseal` computes every digest anew. The digest of a mapping file is kept in
the manifest as that of the file "at compile time" (`CHANGELOG.md:410-411`),
and nobody reads the file again: `MappingFileIsOfTheRecipe` says when it is the
file that the recipe came from, namely when the file said the same at both
readings. `Verifies` is `verify_manifest` without a source, `Replays` with one,
`Exportable` what `export_okf` demands in addition.

Reading `verify_manifest` for this model showed some things that it leaves
open and that no document promises: a schema v3 manifest passes with the
adapter egov_xml; `acquisition.law` is not compared with the law of the
replayed source; of an egov_xml build a mapping input may be recorded without
a recipe mapping, and the reverse. The properties are stated so that
they claim none of these.

### CorpusValidation

The state is the list of rows that `read_jsonl` has read, and the properties
are about every list. The upper half computes the diagnostics as the code does
(stable sort, neighbours, `any` over the parent's versions, the walk over
`parents[0]`, whose place is a set of at most one version, empty past a root or
a parent that is missing). The lower half says what is meant, without any of
this, on the graph of node_ids and on the set of dates at which a version is in
force: `Above` is every node reached by going to parents, as what is in each
set that is closed under parents, and `Forest` says that each law has one root,
every node is under it and none is above itself. The crosswalk is a second
list, read row by row after the nodes. `AcceptedResolves` asks what a reader of
it gets for a legacy identifier: one node that is in the corpus, or no answer
and a reason.

### StructuredSources

A source is a `file` (its format and what it says of all objects) and a `doc`,
the objects of a JSON tree with the object around each (`ReadObject`) or the
rows that a mapping selected (`SelectRow`). `AdaptJson` is `json_adapter`,
`AdaptMapped` is `_mapped`, with the registration of names as it goes and the
collision rule; both put an object under `Up` and give it the `Locator` that
`semantic_locator` makes below that of `Up`, and both end in `Compile`, which
is `CorpusValidation!Accepted`. A
third format, `corpus`, is a `corpus.jsonl` whose rows are read as they are, so
that the validator is also met with corpora that no adapter makes. What the
source says (`LiesIn`, `SameProvision`, `WindowAt`) does not use the locators
that the adapters compute.

### EgovNumbers

`OrdinalBranch` is `_ordinal_branch`: the numeric pattern first, then
`isdigit`, then the search for kanji. `NumberPart` folds over the kanji as the
loop of `_number_part` does, so that `一〇三` reads as 3 as it does in the code;
and of a title with two branches (`第一条の二の三`) the second is dropped. `Title`
and `Attribute` write numbers the way statutes do, as the reference that
`NumberedAsWritten` reads against; it claims titles with one branch at most.

### EgovTree

A document is parsed element by element (`ReadElement`), then goes through
admission (`Admit`), the adapter (`Adapt`, which fails when a constructor
refuses a number) and `validate_corpus` (`Compile`). `doc` is the element tree
in document order below the one `LawBody`; `nodes` is what the adapter returns;
`Compile` decides by `CorpusValidation!Accepted` on these nodes. The tables of
tags are those of `egov.py`. `Here` follows `visit_children`: it is the node
that the walk hands down inside each element, a new one at a recognized tag and
the parent's at any other, with `ChildPath` as the path. `Adaptation` lists the
nodes of the `Recognized` elements, and `RenderText` follows `_walk_text`, with
the serialization of inline and unknown elements. A number is the
sequence of its characters and is read by `EgovNumbers`. The properties do
not use the walk: they speak of the elements around an element and of the order
of characters in the document.

### CiGate, SignOff, RepositoryScans, Distribution, MergeGate

`CiGate` is one workflow run: jobs end, are skipped (`dco` outside pull
requests) or cancelled with the run, the gate evaluates the results, failed
jobs are run again, and the forge merges when the one required check is
"success" or "skipped". `RepositoryScans` has three actions, one per script, in
the order of the job; lines are records of what the regular expressions find on
them, and `Paragraphs` and `MatchingPattern` keep the joining of wrapped lines.
`Distribution` begins with the archives as a build makes them, changes them
member by member (a member dropped, added, doubled, as a link, under another
root), and verifies both. An archive is compared by `UnpacksTo`: what unpacking
it leaves is the files of the tree, each once, with directories only on the way
to a file that may be there. `SignOff` is a condition on a range. `MergeGate`
extends `CiGate` and instantiates the other three over one tree: a job may only
succeed when its script did, and may fail for reasons of its own; the two
workers of a job and the gate interleave.

`verify_distribution` reads the git index once for each archive; the checkout
stands still meanwhile, so the model has one reading, which may fail. It compares
each archive with the index, never the two with each other, and never the
versions of the two file names with each other, so that the pair may carry
different versions; `PassedPairAgrees` claims the modules only.

## 3. The runs

| Run | Instance | Checks |
|---|---|---|
| `publish_race` | two compiles of two files each and an export of three; with all faults, or calm (`calm` is chosen at the start) | `DestinationComplete`, `NoResidue`, `PublishedImmutable`, `ImplementsPublication`, `EveryCommandEnds`, `RaceHasWinner` |
| `acquisition_race` | three fetches (one past, one forced), two validators, a compile, all faults; or, with `quiet` chosen at the start, one fetch without `--force`, two validators, two compiles and three more bodies, one that admission, one that the adapter and one that the validator refuses | `CorpusProvenance`, `ReportNeverReplaced`; when quiet `QuietReportAgrees`, `QuietReceiptBesideSnapshot`, `SnapshotKept`, `SavedSourceCompiles` |
| `receipt_verified_race` | one forced fetch and one validator | finds `VerifiedReportAgrees` violated |
| `bundle_race` | five builds that differ in one thing each, up to three in a row; removal, compilation and fetch at any moment, fair export | `ValidBundleIsOneBuild`, `ExportedBundleValidates`, `StableCorpusIsExported` |
| `bundle_rights_race` | as `bundle_race` with two builds | finds `RightsCarriedOver` violated |
| `manifest` | every compilation of two e-Gov sources and a JSON tree with every adapter, mapping, receipt and rights; one edit of each result, two of those of five compilations | `TypeOK`, `WrittenIsAccepted`, `DigestsBindTheRest`, `CorpusDeterminesBuild`, `MappingFileIsOfTheRecipe`, `RetrievalIsOfTheNodes` |
| `manifest_lines` | as `manifest`, a source with a Unicode line boundary, no edits | finds `WrittenIsAccepted` violated |
| `manifest_empty_mapping` | as `manifest`, an empty mapping, no edits | finds `WrittenIsAccepted` violated |
| `corpus_accepted` | corpora of up to 3 rows over four nodes, two laws, all parents, three kinds, depths 0 to 2; of up to 4 versions of a law and a provision, all windows over three dates; a linked corpus with up to 2 crosswalk rows; JSON trees and mapped sources of up to 3 objects, and of some up to 4 | `AcceptedIsForest`, `AcceptedAtEveryDate`, `AcceptedResolves`, `WellFormedIsAccepted`, `CompiledAsWritten`, `OneNodeOneProvisionWithoutKey`, `RefusedWithCause` |
| `corpus_source_key` | the same | finds `OneNodeOneProvision` violated |
| `egov_sources` | up to 4 elements below LawBody, twelve sorts with and without numbers; or up to 3 elements of five sorts, with two sorts of text and three of tail; or one article with one of 22 numbers and 6 branches in its attribute or its title | `CompiledIsFaithful`, `RefusalHasReason`, `TextPreserved`, `NumberedAsWritten` |
| `merge_gate` | every course of four jobs on a good commit with one re-run; every two deviations of a build; every tree that differs from a good one in one file; every range of two commits | `MergedWasChecked`, `MergedIsClean`, `PassedSdistIsTheTree`, `PassedPairAgrees`, `WellBuiltIsVerified`, `MergedIsShipped`, `MergedIsCertified`, `GateAlwaysReports` |

**Bounds.** In `StagedPublish`, three commands give one that published, one
that is about to and one whose check is stale; an export's three files have a
first, a middle and a last one, a compile's two only the ends; the proofs cover
all numbers. In `Acquisition` one forced and one plain fetch and an earlier one
give every mixture of old and new files; two bodies are enough to disagree. In
`BundleExport`, two rebuilds put a first, a middle and a last build under one
export. In `Manifest`, two sources of one API and one of another give replays
on a wrong source of the same and of another format, two mapping files with one
meaning and one with another give a rewrite that matters and one that does not,
and two edits before a reseal give what one change alone would be refused for.
In `CorpusValidation`, three rows give a chain of root, child and grandchild, a
cycle of two or three nodes, two roots and a parent in another law; four rows
give two parent versions under two child versions and three versions of one
node in a row. The kinds law, supplementary provision, subitem are a chain of
`_ALLOWED` whose last kind may contain itself, so that kinds alone do not
exclude cycles. Two crosswalk rows are the least that repeat an identifier. In
`StructuredSources`, four objects give two versions of a parent with two
children, two names without an ASCII letter stand for all Japanese names, and a
mapped name may come twice before a row asks for it. In `EgovTree`, four
elements give two numbered siblings in one parent, in two, and with a
transparent element around each, and a number that a title shows in place of
the attribute; three give an inline element with an element and a tail inside
it; the 22 numbers have each unit alone and counted, and each place empty. In
`MergeGate`, the three jobs whose scripts are modelled and one that stands for
all others give every mixture of results; two deviations give a member dropped
from both archives, doubled or replaced. `corpus_accepted` uses symmetry of
three nodes of the first law, which the rows and the law map treat alike. The
instances of `corpus_accepted`, `egov_sources`, `manifest` and `merge_gate`
have a `MCNext` that keeps families of inputs apart, and those of
`publish_race` and `acquisition_race` a variable that chooses between a calm
course and any; every step of theirs is a step of `Next`.

**Deadlock** is not checked: commands end and corpora reach their bound of
rows, and then nothing is left to do.

**Fairness.** A command is a sequential program that blocks on nothing another
command holds: while it is alive the operating system runs its next step. So
weak fairness of each command's `Step` in `publish_race`, of each compile in
`acquisition_race`, of the export in `bundle_race`, and none of the
environment: no fault, kill or operator step has to happen. `EveryCommandEnds`
counts a kill as an end. `SavedSourceCompiles` needs a snapshot that stays as
it is, and is stated of the quiet course; it claims nothing of a snapshot that
is admitted and then refused by the adapter or the validator. In `merge_gate`
the forge ends every job, at the latest at its time limit, and starts a job
whose needs have ended: weak fairness of the end or skip of each job and of the
gate. Nothing has to be merged, cancelled or run again.

**What the quiet course is.** Its four properties are false with concurrent
fetches: `exists()` is tested long before the snapshot or receipt is replaced.
They state the protocol under which they hold, one fetch at a time, without
`--force` and without deletions. The three safety properties are proved, for
any number of validators and compiles.

**First finding.** `receipt_verified_race` drops that protocol for
`VerifiedReportAgrees`. validate-source takes the digest of its report from one
reading of the XML and compares the receipt with another. When a
`fetch --force` replaces the snapshot in between (and the receipt already
describes the new bytes), the report says `receipt_verified: true` beside a
`source_sha256` that is not the receipt's, while the profile
(`docs/jlegal-okf-profile-0.2.0-draft.md:99-101`) says they "must agree". In
compile this cannot happen: it has one reading, and `CorpusProvenance` holds
with every fault.

**Second finding.** `bundle_rights_race` checks the profile's sentence that "an
exported bundle carries over exactly what the canonical manifest asserts"
(`docs/jlegal-okf-profile-0.2.0-draft.md:488`). export-okf takes the rights
from its first reading of the manifest and copies the file in a later one; a
recompilation with other rights in between gives a bundle that contradicts
itself, and export-okf succeeds. `ValidBundleIsOneBuild` shows the other half:
validate-okf refuses every such mixture. `ExportedBundleValidates` shows that a
directory left alone is enough for a good bundle, and that the source file need
not be.

**Third finding.** `manifest_lines`: the files of a corpus end their rows with
LF and are written with `ensure_ascii=False`, but are read with
`str.splitlines()`, which also splits at U+0085, U+2028 and others. A law with
such a character in a text compiles without an error into a corpus that
`verify_manifest` refuses, although its text is to be kept verbatim
(`docs/jlegal-okf-profile-0.2.0-draft.md:162-164`). `manifest` checks the same
property for sources without one.

**Fourth finding.** `manifest_empty_mapping`: `json_adapter` tests the truth of
its mapping and lets an empty one pass; compile records it as an input, and
`verify_manifest` refuses the manifest that compile has just published.
`CHANGELOG.md:193-194` says that the adapter rejects a mapping.

**Fifth finding.** `corpus_source_key`: a name without ASCII letters or digits
has no slug, and its locator is then a hash, of the name or, when the file has
a `source_key`, of that key alone. All such siblings of a kind share it. Two
that carry windows which do not overlap become versions of one node, although
`docs/validator-layers.md:127` says that "a `node_id` never silently changes
what it structurally identifies". `OneNodeOneProvisionWithoutKey` shows that
files without a `source_key` are free of this.

## 4. The proofs

All theorems hold for any values of the constants that satisfy the named
assumptions:

| Assumption | Says |
|---|---|
| `StagedPublishAssumption` | file lists are not empty, the temporary name is no file name |
| `AcquisitionAssumption` | `None` is neither a body nor a receipt; a process is not both validator and compiler; each stage of the code takes only bodies that the stage before takes |
| `ManifestAssumption`, `RecordsAssumption` | the marks for null, absent, malformed and foreign values are four, and none of them is a value that the code writes |
| `BundleExportAssumption` | a build is its source, recipe, facts and rights |
| `CorpusAssumption` | rows are what the constructors of `model.py` admit; `None` is no identifier, date or row |
| `SourcesAssumption` | an object that is "ok" has a kind, a window and, as a mapped row, a depth that a constructor admits; a law and the segments below it make an identifier of that law; `None` is no number, name or row |
| `EgovTreeAssumption` | at least one element may be read; a number is made of the known characters; `None` is no locator; `LawBody` is not a recognized tag |
| `GateAssumption`, `JobsAssumption` | `dco` is a job, and so are those whose scripts are modelled |
| `PartsAssumption` | of the parts of a merge: commits, lines and paths have the typed form; the names of public files, package, metadata and dist-info are told apart where the code tells them apart; a tree is finite |

**StagedPublishProofs.** `DestinationComplete` is not inductive: a command may
publish only what is staged, so one must know what is staged. The invariant is
`IInv == TypeOK /\ StageInv /\ DestInv`. `StageInv` says what a live command
has staged: exactly the files before `next`, with the temporary file in
addition between opening and renaming, and nothing for a command without a
stage. `DestInv` says that the destination is nothing, an empty directory, a
plain file, or the tree of a command that is "ok". Helper lemmas show that one
command's step leaves the stages of others alone. From `IInv` follow
`TypeCorrect`, `DestinationAlwaysComplete`, `StagesAreCleaned`,
`PublishedNeverAltered` (each action other than `Publish` and the operator's
leaves `dest` alone, and `Publish` needs an empty one) and
`TransactionRefinesPublication`: `Publish` is the promise's `Publish`, because
then `staged[w] = Tree(w)`; refusing, failing and being killed are its
`GiveUp`; every other step stutters.

**AcquisitionProofs.** `CorpusProvenance` relates a manifest to a download
that may be long overwritten. The inductive invariant follows the bytes on
their way: a receipt, in the file or held by a command, carries the digest of
what its fetch downloaded; a fetch past its download has a body, which never
changes again; a compile about to publish with a receipt has a source that
agrees with it; a published record repeats both. From it follow `TypeCorrect`,
`ProvenanceHolds` and `ReportsArePermanent`.

For the quiet course the invariant is `CourseInv`: `IInv`, and when quiet
`SingleFetch` and `ReportsAgree`. `SingleFetch` says that no fetch but `Lone`
is at work, and that once it has seen no snapshot the only one that can appear
is its own, with a receipt after it; so the test of `exists()` is still true at
`os.replace`, and a receipt beside the snapshot is that of an earlier fetch or
describes these bytes. `ReportsAgree` says that a validator about to compare
still finds the snapshot that it admitted, and that a report repeats its
verdict. A quiet course is a course of the commands (`CourseSteps`), so the
steps of `IInv` are not proved again. From it follow `QuietReportsAgree`,
`QuietReceiptsBesideSnapshots` and `SnapshotsAreKept`.

**ManifestProofs.** Three properties follow from `Verifies` and `Replays`
themselves, for any sources, mappings and edits, and need no induction over the
steps; the work is to show that the checks of `verify_manifest` together leave
no freedom. `TamperEvidence`: with the corpus, crosswalk, projection and options
digests fixed, the files are fixed (`FilesDetermine`), so are the records that
the options digest covers, hence the schema (`SchemaDetermined`), hence every
other key. `CorpusFixesBuild`: each node carries the digest of recipe and
inputs, and a manifest has a source among its inputs (`HasSource`), so a
corpus that is not touched fixes both. `RetrievalBelongs`: an exportable
manifest has one source input, which its acquisition and the nodes both name.

`WrittenAccepted` is the other direction, and needs an invariant. `WInv` adds
to the types (`TypeCorrect`) that what is published is `Directory(...)` of what
compile was asked and has read, with the mapping file as it was hashed, which
need not be as it was parsed. Of such a directory each check of
`verify_manifest` is then shown to pass: keys and types, roles and inputs
(`InputsAccepted`), retrieval and rights, the digests, and the replay, which
adapts the same source with the recorded recipe. The theorem has the two
hypotheses of the run, no Unicode line boundary and no empty mapping, and they
are exactly the third and the fourth finding. `MappingFilesAreNamed` joins the
two directions: a replay fixes recipe and inputs to those in the nodes, `WInv`
says which file these name, and the hypothesis that this file said the same when
it was parsed.

**BundleExportProofs.** The directory may be another build at each reading, so
nothing about the directory helps at the end. The inductive invariant says what
the readings hold: each reading made found its file, and a manifest is one of
some build (`Filled`); after the fourteenth, the source file read was that of
the first manifest (`SourceChecked`); while the directory is untouched, every
reading but that of the source is of its one build (`Undisturbed`); a bundle is
made of all fifteen readings (`Finished`), and a verdict is about that bundle
(`Judged`). `NoMixtureIsValid`: the digests in the copied manifest and in the
bundle manifest then fix one build for all parts. `ExportIsValid`: all readings
of an untouched directory are of one build, and the source was compared
although it may have been fetched anew, so `validate_okf` finds nothing to
refuse.

**CorpusValidationProofs.** All four theorems are `Spec => []...` by
`RowsRead`, which says that the lists are sequences of admitted rows; the
content is in lemmas about such lists, of any length. `AcceptedCorpusIsForest`:
the rules on the rows give each child a parent version of one less depth, so
the least depth of the versions of a node falls from node to parent, and no
node is above itself; take a node of the law of least depth that the root does
not reach, and its parent is a smaller one. `AcceptedCorpusAtEveryDate`: the
code compares neighbours in the sorted order only; neighbours that do not
overlap are strictly ordered, and so are then any two versions of a node; that
a parent is beside its child at every date is the rule on windows.
`AcceptedCrosswalkResolves`: the rows of one legacy identifier are one row, or
all ambiguous with reason. `WellFormedCorpusIsAccepted` is the converse: in a
forest with these properties no rule fires, the walk over `parents[0]`
included, which reaches the root within as many steps as there are rows.
Induction over lists is not available to the prover; each argument takes the
least element of the set of counterexamples instead (`WFMin`), and `Walk` is a
recursive function that is unfolded step by step.

`LocalRulesSuffice` and `WellPlacedIsAccepted` are for the modules that make
rows. The first says that a corpus is accepted when the rules on rows hold, as
no cycle and no node without a root is then left for the walk to find. The
second gives `WellPlaced`, what is to be shown of an adapter's nodes.

**StructuredSourcesProofs.** The invariant is `SourceInv == SourceTypes /\
Courses`: each object lies in an earlier one and is made of what may be read,
and in each phase the nodes are what the adapter makes of the source, readable
or not, accepted or not, as the phase says. The four theorems on corpora hold
of every source by `NodesTyped`: what the adapters make are rows that the
constructors admit. `SourceCompiledAsWritten` needs `ParentRowIs` (the last row
of a name is the nearest before the one that asks) and, for depths, which
`_mapped` copies, the validator: it accepts a parent of any one version with
one less depth, and the forest leaves no other. `SourceNodeIsProvision`
compares locators (`SameId`): two that are equal have equal segments, hence
equal designations when no `source_key` takes the place of a name, and parents
with equal locators; so the first object of which this failed would have a
parent of which it fails. It also needs that the laws of a child and its parent
agree, which the adapters do not ensure and the validator does.
`SourceRefusedWithCause` is shown by contraposition: of a source without a
cause, `Causeless`, every object is readable (`ReadableWithoutCause`) and its
nodes are `WellPlaced`, although nodes of one provision are told by their
locators and provisions are not.

**EgovTreeProofs.** The invariant is `EgovInv == DocTypes /\ Nested /\
Courses`: elements lie in earlier ones; what stands between the start of an
element and the end of an element inside it lies in it, too (`Nested`, kept by
a start tag because it lies in the last element or in one around it,
`OpenContainsRest`); and the nodes are the adaptation. The walk is a recursive
function over the tree. `Recursion` shows once that such functions exist, from
the least place at which one would not, and `TreeInduction` that what passes
from an element to those in it holds everywhere; so `ChildPath`, `Here`,
`Recognized` and `Around` can be unfolded. `PathsDiffer`: two elements have
different paths, since two children of one parent and tag have different
counts. `HereOfEnclosing`: the node handed down to an element is that of the
innermost recognized element around it, however many others are between. With
`AcceptedHasDistinctIds` (one window for all nodes of a law) these give
`CompiledLawIsFaithful`. For `RefusedLawHasReason` it is shown that locators
differ unless two siblings have one designation (`LocatorsDiffer`): a number
and a path are never the same segment, and equal segments under different
parents are below different locators. The nodes are then `WellPlaced`, by the
theorems of `CorpusValidationProofs` for these constants (`Checks`), whose
`Accepted` is that of the model (`AcceptedIs`). Of a number it is used only
that a constructor admits it, and of a text nothing.

**MergedCommitProofs.** First the gate by itself: `GateTypes` and
`GateIsSound`. `MergedWasChecked` is not inductive, as a merge looks only at
the gate. `Certified` says that a gate that
is "success" has seen every job pass, that the gate is never "skipped" (this is
what `if: always()` is for), and that a merged commit still has a successful
gate: a job can be run again only when the gate has failed.

For the joined workflow, `StepsOfGate` says that each of its steps is a step of
the gate or leaves it alone, so that the invariant of the gate holds for it
(`WorkflowIsSound`). `ScriptsAgree` says that the result of a script stays what
it was while its job is "success": only a job that is pending works, and a
re-run that clears a result puts its job back to pending. `MergeIsByScripts`
joins both: what is merged, the scanners, `verify_distribution` and, in a pull
request, `check_dco` have accepted, whatever the trees and archives.

Then, what the scripts accepted. `ScannedSoFar`: the three scanners run in the
order of the job on a tree that does not change, and a result that is success
holds of every file read. `MergedCommitIsClean` then needs that a paragraph,
joined with or without a space, contains a sentence that is wrapped over its
lines. `VerifiedBuild`: the verdict stays with the archives and the extra file
that it was computed from. `PassedSdistHoldsTheTree` counts: as many files as
paths, so no path occurs twice and no link takes the place of a file.
`PassedArchivesAgree` maps the package below its root in one archive to its
place in the other. `WellBuiltPairPasses` is the converse, that no archive of a
good build is refused. `MergedCommitIsShipped` joins the count with a fact
about the workflow: `verify_distribution` does not see names that git quotes,
but `check_boundary` refuses a tree that has one among its public files.
`MergedCommitsAreCertified` follows from `MergeIsByScripts` and `check_dco`.

Two properties and two models were restated when they were to be proved. The
forest was too weak: it now says also that the versions of the root, and no
others, have no parent. `PassedSdistIsTheTree` had claimed directories only
above files that are there; an archive with an empty `src/jlegal_okf.egg-info`
passes, as the code intends, and the property now speaks of places where a file
may be.

In `StructuredSources` and `EgovTree`, what the two generic adapters share has
one definition, and the walk of the e-Gov adapter is a function of the element.

The type invariants of `StagedPublish`, `Acquisition`, `CiGate`, `Manifest` and
`EgovTree` are proved. That of `EgovTree` says of the parser's tree what any XML
parser guarantees; it is used by the proofs and not a run's property.

Only model-checked:

* the liveness properties (`EveryCommandEnds`, `RaceHasWinner`,
  `SavedSourceCompiles`, `StableCorpusIsExported`, `GateAlwaysReports`), as
  liveness under fairness is out of TLAPS's reach;
* `TextPreserved`: the text of a node is joined by `FlattenSeq` over the
  children that `SelectSeq` finds, and what these compute for every sequence
  needs induction over data;
* `NumberedAsWritten`, for the same reason: a fold over the characters of a
  numeral. Its instance has all shapes of numbers up to four places.

## 5. What is not modelled

* Of admission the size limits, DTD checks and the identity of the law; of a
  node its heading, label, attributes and promulgation dates.
* URL, licence and timestamp syntax; hashing and Unicode normalization; what a
  generic adapter makes of a mapped field; the registry's guess of an adapter.
* The text of the bundle's documents and the tests of their shape; the source
  ledger for several sources, which no adapter produces.
* The URL that a receipt records after redirects, which compile compares with
  the one URL it expects (`egov.py:790`): the network is outside.
* Argument parsing, printing and exit codes; the jobs of CI that only run tests.
* What a regular expression of a scanner matches: a line or a name has the
  property or has not.
* Loss of power, and with it the order in which a file system writes
  directories, which the code does not sync: a crash is the death of a process.

Of the validator's rules on one row, most repeat a constructor of `model.py`,
which is why `CorpusValidation` begins with rows that those constructors admit;
those on the syntax of a locator and on NUL characters (`LOCATOR_GRAMMAR`,
`NUL_FORBIDDEN`) do not, and are left out with the texts they are about.

## 6. Plan

What would be next, in this order:

1. `Bundle`: the shape of `validate_okf`'s documents, both bundle schemas.
2. `BundleExport`: a checker (`jlegal validate`) beside the export, and the
   bundle as a snapshot of one published corpus as an abstract specification.
3. Dates of a node from its promulgation, and law identity at admission.
4. Proofs: `TextPreserved`, with the text of an element as a set of pieces with
   their order, so that no sequence has to be joined.
