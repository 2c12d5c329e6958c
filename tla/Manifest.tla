------------------------------- MODULE Manifest -------------------------------
(***************************************************************************)
(* manifest.json: compile_adaptation writes it beside the corpus, anyone   *)
(* may edit the directory afterwards, and verify_manifest accepts the      *)
(* directory or not, with or without replaying the recipe on a source.     *)
(*                                                                         *)
(* Simplifications: a digest is the content that it is the digest of.  The *)
(* nodes of a corpus pass validate_corpus (module CorpusValidation) and are*)
(* told apart by what an adapter makes them from; every e-Gov source has   *)
(* its own law_id, so that a mapping of that adapter changes no node.  A   *)
(* registered adapter returns no crosswalk rows and a full hierarchy.      *)
(* law_count and projection_count stand and fall with node_count;          *)
(* canonicalization and adapter_version, which verify compares with its    *)
(* own, are left out, and so is the syntax of digests, names, URLs and     *)
(* times: a value is well formed or Malformed.                             *)
(* Publication is one step (module Publication).                           *)
(***************************************************************************)
EXTENDS Integers, FiniteSets

CONSTANTS Sources,      \* contents of source files
          ReadBy,       \* ReadBy[s]: the adapters that can read s
          LawOf,        \* LawOf[s]: official law_id and law number in s
          NodeCount,    \* NodeCount[s]: the nodes that s has
          Breaking,     \* sources with a line boundary of Unicode in a text
          Mappings,     \* parsed mappings
          Shape,        \* Shape[m]: "empty", "rows" or "law_id"
          MappingFiles, \* contents of mapping files
          Parse,        \* Parse[f]: the mapping that yaml reads in f
          Retrievals,   \* well-formed retrieval facts of a receipt
          MaxEdits,     \* bound on the edits of a published directory
          Null, Absent, Malformed, Foreign

Adapters == {"json", "xml", "html", "egov_xml"}
Others == {Null, Absent, Malformed, Foreign}

ASSUME ManifestAssumption ==
    /\ ReadBy \in [Sources -> SUBSET Adapters] /\ NodeCount \in [Sources -> Nat]
    /\ Shape \in [Mappings -> {"empty", "rows", "law_id"}]
    /\ Parse \in [MappingFiles -> Mappings] /\ MaxEdits \in Nat
    /\ Others \cap (Sources \cup Mappings \cup MappingFiles \cup Retrievals) = {}
    /\ Null \notin {Absent, Malformed, Foreign}
    /\ Absent \notin {Malformed, Foreign} /\ Malformed # Foreign

VARIABLES pc,       \* how far compile is
          job,      \* what compile was asked and has read
          mapfile,  \* the mapping file now
          dir,      \* the published directory now
          written,  \* the directory as it was published
          edits     \* how often it was edited since

vars == <<pc, job, mapfile, dir, written, edits>>

----------------------------------------------------------------------------
(* Inputs, recipe and acquisition                                          *)
ContentUri(sha) == [scheme |-> "jlegal:source:sha256", of |-> sha]
InlineUri == [scheme |-> "inline:canonical-json-v1", of |-> Null]
BuildInput(role, uri, sha) == [role |-> role, uri |-> uri, sha256 |-> sha]

(* What each registered adapter takes as its mapping.                      *)
ShapeOf(m) == IF m = Null THEN "none" ELSE Shape[m]
Takes == [json |-> {"none", "empty"}, xml |-> {"rows"}, html |-> {"rows"},
          egov_xml |-> {"none", "law_id"}]

Adapts(a, s, m) == a \in ReadBy[s] /\ ShapeOf(m) \in Takes[a]
Nodes(a, s, m) == [adapter |-> a, source |-> s,
                   by |-> IF ShapeOf(m) = "rows" THEN m ELSE Null]

(* Mutant: a mapping file is recorded under the inline URI.                *)
MappingInputInline(m, isFile, file) ==
    BuildInput("mapping", InlineUri, IF isFile THEN file ELSE m)

(* Mutant: of a mapping file the parsed mapping is hashed, not the bytes.  *)
MappingInputParsed(m, isFile, file) ==
    BuildInput("mapping", IF isFile THEN ContentUri(m) ELSE InlineUri, m)

(* _mapping_input: a file is hashed as it is now, an inline mapping as     *)
(* canonical JSON.                                                         *)
MappingInput(m, isFile, file) ==
    IF isFile THEN BuildInput("mapping", ContentUri(file), file)
    ELSE BuildInput("mapping", InlineUri, m)

InputsOf(s, m, isFile, file) ==
    LET source == BuildInput("source", ContentUri(s), s)
    IN  IF m = Null THEN <<source>> ELSE <<MappingInput(m, isFile, file), source>>

BuildRecipe(a, m) == [adapter |-> a, mapping |-> m]

(* Mutant: only the recipe enters the provenance of a node.                *)
BoundToRecipe(nodes, recipe, inputs) ==
    [nodes |-> nodes, provenance |-> [build_recipe |-> recipe, inputs |-> <<>>]]

(* _bind_build_provenance: every node carries the digest of both.          *)
Bind(nodes, recipe, inputs) ==
    [nodes |-> nodes, provenance |-> [build_recipe |-> recipe, inputs |-> inputs]]

(* _base_source_metadata                                                   *)
BaseAcquisition(s) == [law |-> LawOf[s], sha256 |-> s, retrieval |-> Null]
Receipts == [law : {LawOf[s] : s \in Sources}, sha256 : Sources,
             retrieval : Retrievals \cup {Null, Malformed}]

(* A rights area has two sorts of keys, labels and permissions, of which   *)
(* one each is enough here.                                                *)
RightsAreas == [source_license : {"null", "stated", "malformed"},
                redistribution_allowed : {"null", "stated", "malformed"}]

ASSUME RecordsAssumption ==
    Others \cap (Receipts \cup RightsAreas \cup {"converter", "now"}) = {}

(* _rights and _recorded_rights: every key well formed, one of them stated *)
RightsHold(rights) ==
    /\ rights \in RightsAreas
    /\ \A k \in DOMAIN rights : rights[k] # "malformed"
    /\ \E k \in DOMAIN rights : rights[k] = "stated"

(* _egov_acquisition on the adaptation of s                                *)
Agrees(receipt, s) ==
    /\ receipt.law = LawOf[s] /\ receipt.sha256 = s
    /\ receipt.retrieval # Malformed

----------------------------------------------------------------------------
(* Writing                                                                 *)

(* Mutant: the rights area is left out of the options.                     *)
OptionsWithoutRights(m) ==
    [adapter |-> m.adapter, hierarchy_status |-> m.hierarchy_status,
     inputs |-> m.inputs, required_input_roles |-> m.required_input_roles,
     build_recipe |-> m.build_recipe, acquisition |-> m.acquisition,
     conversion |-> m.conversion]

(* _manifest_options, as manifest_for and verify_manifest both call it     *)
OptionsOf(m) ==
    [adapter |-> m.adapter, hierarchy_status |-> m.hierarchy_status,
     inputs |-> m.inputs, required_input_roles |-> m.required_input_roles,
     build_recipe |-> m.build_recipe, acquisition |-> m.acquisition,
     conversion |-> m.conversion, rights |-> m.rights]

Roles(inputs) == [i \in DOMAIN inputs |-> inputs[i].role]
SourceInputs(m) == {m.inputs[i] : i \in {j \in DOMAIN m.inputs :
                                             m.inputs[j].role = "source"}}

(* Counts and digests as they belong to the other fields and the files.    *)
Sealed(m, corpus, crosswalk, projection) ==
    [m EXCEPT !.node_count = NodeCount[corpus.nodes.source],
              !.crosswalk_count = Cardinality(crosswalk),
              !.corpus_sha256 = corpus, !.crosswalk_sha256 = crosswalk,
              !.projection_sha256 = projection,
              !.build_options_sha256 = OptionsOf(m)]

SchemaFor(acquisition, rights) ==
    IF acquisition = Absent THEN "v3" ELSE IF rights = Absent THEN "v5" ELSE "v6"

(* manifest_for                                                            *)
ManifestFor(recipe, inputs, acquisition, rights, corpus) ==
    LET egov == acquisition # Absent
    IN  Sealed([schema |-> SchemaFor(acquisition, rights), corpus_id |-> "corpus",
                node_count |-> 0, crosswalk_count |-> 0,
                hierarchy_status |-> "full", adapter |-> recipe.adapter,
                inputs |-> inputs, required_input_roles |-> Roles(inputs),
                build_recipe |-> recipe, corpus_sha256 |-> Null,
                crosswalk_sha256 |-> Null, projection_sha256 |-> Null,
                build_options_sha256 |-> Null, acquisition |-> acquisition,
                conversion |-> IF egov THEN "converter" ELSE Absent,
                converted_at |-> IF egov THEN "now" ELSE Absent,
                rights |-> rights],
               corpus, {}, corpus)

(* A crosswalk is the set of the source digests of its rows; a projection  *)
(* is the corpus that make_projection made it from.                        *)
Directory(recipe, inputs, acquisition, rights, nodes) ==
    LET corpus == Bind(nodes, recipe, inputs)
    IN  [corpus |-> corpus, crosswalk |-> {}, projection |-> corpus,
         manifest |-> ManifestFor(recipe, inputs, acquisition, rights, corpus)]

----------------------------------------------------------------------------
(* verify_manifest                                                         *)
OptionalKeys == {"acquisition", "conversion", "converted_at", "rights"}
ManifestKeys == OptionalKeys \cup
    {"schema", "corpus_id", "node_count", "crosswalk_count", "hierarchy_status",
     "adapter", "inputs", "required_input_roles", "build_recipe", "corpus_sha256",
     "crosswalk_sha256", "projection_sha256", "build_options_sha256"}
KeysOf == [v3 |-> {}, v5 |-> OptionalKeys \ {"rights"}, v6 |-> OptionalKeys]
KeysExact(m) == /\ m.schema \in DOMAIN KeysOf
                /\ {k \in OptionalKeys : m[k] # Absent} = KeysOf[m.schema]

TypesHold(m) ==
    /\ m.adapter \in Adapters /\ m.build_recipe.adapter = m.adapter
    /\ m.build_recipe.mapping \in Mappings \cup {Null}
    /\ m.hierarchy_status \in {"full", "partial"}

(* read_jsonl and read_projection split a row at a line boundary in a text.*)
ReadBack(corpus) == corpus.nodes.source \notin Breaking

(* verify_canonical_artifacts and the comparisons with digests and counts  *)
FilesAgree(d) ==
    LET m == d.manifest IN
    /\ ReadBack(d.corpus) /\ ReadBack(d.projection)
    /\ d.projection = d.corpus
    /\ m.corpus_sha256 = d.corpus /\ m.crosswalk_sha256 = d.crosswalk
    /\ m.projection_sha256 = d.projection
    /\ m.node_count = NodeCount[d.corpus.nodes.source]
    /\ m.crosswalk_count = Cardinality(d.crosswalk)

(* Mutant: the receipt's digest is not compared with the source input.     *)
AcquisitionUncompared(m) ==
    m.schema \in {"v5", "v6"} =>
        /\ m.adapter = "egov_xml" /\ m.conversion = "converter"
        /\ m.converted_at # Malformed
        /\ m.acquisition \in Receipts /\ m.acquisition.retrieval # Malformed
        /\ m.schema = "v6" => RightsHold(m.rights)

AcquisitionHolds(m) ==
    m.schema \in {"v5", "v6"} =>
        /\ m.adapter = "egov_xml" /\ m.conversion = "converter"
        /\ m.converted_at # Malformed
        /\ m.acquisition \in Receipts /\ m.acquisition.retrieval # Malformed
        /\ \A i \in SourceInputs(m) : i.sha256 = m.acquisition.sha256
        /\ m.schema = "v6" => RightsHold(m.rights)

RequiredRoles == [json |-> {"source"}, xml |-> {"source", "mapping"},
                  html |-> {"source", "mapping"}, egov_xml |-> {"source"}]
AllowedRoles(a) ==
    RequiredRoles[a] \cup (IF a = "egov_xml" THEN {"mapping"} ELSE {})

(* Sorted and without repetition: "mapping" comes before "source".         *)
RolesHold(m) ==
    LET roles == Roles(m.inputs)
        named == {roles[i] : i \in DOMAIN roles}
    IN  /\ \A i, j \in DOMAIN roles :
              i < j => roles[i] = "mapping" /\ roles[j] = "source"
        /\ m.required_input_roles = roles
        /\ RequiredRoles[m.adapter] \subseteq named
        /\ named \subseteq AllowedRoles(m.adapter)

UrisHold(m) == \A k \in DOMAIN m.inputs : LET i == m.inputs[k] IN
    IF i.uri = InlineUri THEN i.role = "mapping" ELSE i.uri = ContentUri(i.sha256)

ProvenanceHolds(d) ==
    /\ \E i \in SourceInputs(d.manifest) : i.sha256 = d.corpus.nodes.source
    /\ \A sha \in d.crosswalk :
          \E k \in DOMAIN d.manifest.inputs : d.manifest.inputs[k].sha256 = sha

Verifies(d) ==
    LET m == d.manifest IN
    /\ KeysExact(m) /\ TypesHold(m) /\ FilesAgree(d)
    /\ AcquisitionHolds(m) /\ RolesHold(m) /\ UrisHold(m)
    /\ m.build_options_sha256 = OptionsOf(m)
    /\ ProvenanceHolds(d)

(* _rebuild_from_manifest                                                  *)
RecipeShapes == [json |-> {"none"}, xml |-> {"empty", "rows", "law_id"},
                 html |-> {"empty", "rows", "law_id"},
                 egov_xml |-> {"none", "empty", "rows", "law_id"}]
Rebuilds(d, s) ==
    LET m == d.manifest
        recipe == m.build_recipe
        nodes == Nodes(m.adapter, s, recipe.mapping)
    IN  /\ ShapeOf(recipe.mapping) \in RecipeShapes[m.adapter]
        /\ Adapts(m.adapter, s, recipe.mapping)
        /\ d.corpus = Bind(nodes, recipe, m.inputs)
        /\ d.crosswalk = {} /\ d.projection = d.corpus
        /\ m.hierarchy_status = "full"

(* verify_manifest with verify_inputs and source s                         *)
Replays(d, s) ==
    /\ Verifies(d)
    /\ \A k \in DOMAIN d.manifest.inputs : LET i == d.manifest.inputs[k] IN
          i.uri = InlineUri => i.sha256 = d.manifest.build_recipe.mapping
    /\ \A i \in SourceInputs(d.manifest) : i.sha256 = s
    /\ Rebuilds(d, s)

(* What export_okf asks of a corpus that verifies                          *)
Exportable(d) == /\ Verifies(d)
                 /\ d.manifest.adapter = "egov_xml"
                 /\ d.corpus.nodes.adapter = "egov_xml"
                 /\ d.manifest.schema \in {"v5", "v6"}

----------------------------------------------------------------------------
(* compile                                                                 *)
Init == /\ pc = "start" /\ mapfile \in MappingFiles
        /\ job = Null /\ dir = Null /\ written = Null /\ edits = 0

(* cli._mapping: a file is parsed now, other text is the mapping itself.   *)
ReadMapping(a, m, isFile) ==
    /\ pc = "start"
    /\ isFile => m = Parse[mapfile]
    /\ m = Null => ~isFile
    /\ job' = [adapter |-> a, mapping |-> m, isFile |-> isFile, source |-> Null]
    /\ pc' = "mapped" /\ UNCHANGED <<mapfile, dir, written, edits>>

(* Mutant: an adapter takes any mapping.                                   *)
AdaptUnchecked(s) ==
    /\ pc = "mapped" /\ job' = [job EXCEPT !.source = s] /\ pc' = "adapted"
    /\ UNCHANGED <<mapfile, dir, written, edits>>

Adapt(s) ==
    /\ pc = "mapped"
    /\ \/ /\ Adapts(job.adapter, s, job.mapping)
          /\ job' = [job EXCEPT !.source = s] /\ pc' = "adapted"
       \/ /\ ~Adapts(job.adapter, s, job.mapping)
          /\ pc' = "failed" /\ UNCHANGED job
    /\ UNCHANGED <<mapfile, dir, written, edits>>

(* Refusals of compile_adaptation: _egov_acquisition, _rights.             *)
Unsupported(receipt, rights) ==
    \/ rights # Absent /\ ~RightsHold(rights)
    \/ job.adapter # "egov_xml" /\ (receipt # Null \/ rights # Absent)
    \/ receipt # Null /\ ~Agrees(receipt, job.source)

Acquisition(receipt) ==
    IF job.adapter # "egov_xml" THEN Absent
    ELSE IF receipt = Null THEN BaseAcquisition(job.source) ELSE receipt

(* compile_adaptation, from _mapping_input to os.replace                   *)
Publish(receipt, rights) ==
    /\ pc = "adapted"
    /\ \/ Unsupported(receipt, rights) /\ pc' = "failed" /\ UNCHANGED <<dir, written>>
       \/ /\ ~Unsupported(receipt, rights) /\ pc' = "published"
          /\ LET s == job.source m == job.mapping IN
             written' = Directory(BuildRecipe(job.adapter, m),
                                  InputsOf(s, m, job.isFile, mapfile),
                                  Acquisition(receipt), rights,
                                  Nodes(job.adapter, s, m))
          /\ dir' = written'
    /\ UNCHANGED <<job, mapfile, edits>>

Compile == \/ \E a \in Adapters, m \in Mappings \cup {Null}, isFile \in BOOLEAN :
                 ReadMapping(a, m, isFile)
           \/ \E s \in Sources : Adapt(s)
           \/ \E receipt \in Receipts \cup {Null},
                 rights \in RightsAreas \cup {Absent, Malformed} : Publish(receipt, rights)

(* The mapping file is saved anew while compile runs.                      *)
RewriteMapping(f) ==
    /\ pc \in {"mapped", "adapted"} /\ mapfile' = f
    /\ UNCHANGED <<pc, job, dir, written, edits>>

----------------------------------------------------------------------------
(* The directory is edited by hand.                                        *)
CanEdit == pc = "published" /\ edits < MaxEdits

InputLists ==
    LET source(s) == BuildInput("source", ContentUri(s), s)
        mapping(m) == BuildInput("mapping", InlineUri, m)
        file(f) == BuildInput("mapping", ContentUri(f), f)
    IN  {<<>>} \cup {<<source(s)>> : s \in Sources}
        \cup {<<mapping(m), source(s)>> : m \in Mappings, s \in Sources}
        \cup {<<file(f), source(s)>> : f \in MappingFiles, s \in Sources}
        \cup {<<source(s), mapping(m)>> : m \in Mappings, s \in Sources}
        \cup {<<BuildInput("source", InlineUri, s)>> : s \in Sources}
        \cup {<<BuildInput("source", ContentUri(Foreign), s)>> : s \in Sources}

(* One key of the manifest gets another value, well formed or not.         *)
FieldValues ==
    [schema |-> {"v3", "v5", "v6", Foreign}, corpus_id |-> {"other"},
     node_count |-> {0}, crosswalk_count |-> {1},
     hierarchy_status |-> {"partial", Foreign}, adapter |-> Adapters \cup {Foreign},
     inputs |-> InputLists,
     required_input_roles |-> {<<"source">>, <<"mapping", "source">>},
     build_recipe |-> [adapter : Adapters,
                       mapping : Mappings \cup {Null, Malformed}],
     corpus_sha256 |-> {Foreign}, crosswalk_sha256 |-> {Foreign},
     projection_sha256 |-> {Foreign}, build_options_sha256 |-> {Foreign},
     acquisition |-> Receipts \cup {Absent, Malformed},
     conversion |-> {"converter", Absent, Foreign},
     converted_at |-> {"later", Absent, Malformed},
     rights |-> RightsAreas \cup {Absent, Null, Malformed}]

EditKey(key, value) ==
    /\ CanEdit /\ dir' = [dir EXCEPT !.manifest[key] = value]
    /\ edits' = edits + 1 /\ UNCHANGED <<pc, job, mapfile, written>>

Asserted == [source_license |-> "stated", redistribution_allowed |-> "null"]

(* The schema is changed, with the keys that it must have.                 *)
EditSchema(schema, acquisition, rights) ==
    /\ CanEdit /\ SchemaFor(acquisition, rights) = schema
    /\ acquisition = Absent => rights = Absent
    /\ dir' = [dir EXCEPT
          !.manifest.schema = schema, !.manifest.acquisition = acquisition,
          !.manifest.rights = rights,
          !.manifest.conversion = IF acquisition = Absent THEN Absent ELSE "converter",
          !.manifest.converted_at = IF acquisition = Absent THEN Absent ELSE "later"]
    /\ edits' = edits + 1 /\ UNCHANGED <<pc, job, mapfile, written>>

(* The recipe is changed, with the adapter that repeats it; the inputs,    *)
(* with the roles that repeat them.                                        *)
EditRecipe(recipe) ==
    /\ CanEdit
    /\ dir' = [dir EXCEPT !.manifest.adapter = recipe.adapter,
                          !.manifest.build_recipe = recipe]
    /\ edits' = edits + 1 /\ UNCHANGED <<pc, job, mapfile, written>>

EditInputs(inputs) ==
    /\ CanEdit
    /\ dir' = [dir EXCEPT !.manifest.inputs = inputs,
                          !.manifest.required_input_roles = Roles(inputs)]
    /\ edits' = edits + 1 /\ UNCHANGED <<pc, job, mapfile, written>>

(* The corpus is replaced by other nodes, whose provenance is the old one  *)
(* or what the manifest says now.                                          *)
EditCorpus(nodes, rebound) ==
    /\ CanEdit
    /\ dir' = [dir EXCEPT !.corpus =
          IF rebound THEN Bind(nodes, dir.manifest.build_recipe, dir.manifest.inputs)
          ELSE [dir.corpus EXCEPT !.nodes = nodes]]
    /\ edits' = edits + 1 /\ UNCHANGED <<pc, job, mapfile, written>>

EditCrosswalk(rows) ==
    /\ CanEdit /\ dir' = [dir EXCEPT !.crosswalk = rows]
    /\ edits' = edits + 1 /\ UNCHANGED <<pc, job, mapfile, written>>

(* Projection, counts and all digests are made anew for what is there.     *)
Reseal ==
    /\ pc = "published" /\ edits > 0
    /\ dir' = [dir EXCEPT !.projection = dir.corpus,
          !.manifest = Sealed(dir.manifest, dir.corpus, dir.crosswalk, dir.corpus)]
    /\ UNCHANGED <<pc, job, mapfile, written, edits>>

AllNodes == {Nodes(a, s, m) : a \in Adapters, s \in Sources, m \in Mappings \cup {Null}}
Recipes == [adapter : Adapters, mapping : Mappings \cup {Null}]

Edit == \/ \E key \in DOMAIN FieldValues : \E value \in FieldValues[key] :
              EditKey(key, value)
        \/ \E schema \in DOMAIN KeysOf, acquisition \in Receipts \cup {Absent},
              rights \in {Absent, Asserted} :
              EditSchema(schema, acquisition, rights)
        \/ \E recipe \in Recipes : EditRecipe(recipe)
        \/ \E inputs \in InputLists : EditInputs(inputs)
        \/ \E nodes \in AllNodes, rebound \in BOOLEAN : EditCorpus(nodes, rebound)
        \/ \E rows \in SUBSET Sources : EditCrosswalk(rows)
        \/ Reseal

Next == Compile \/ (\E f \in MappingFiles : RewriteMapping(f)) \/ Edit

Spec == Init /\ [][Next]_vars

----------------------------------------------------------------------------
Published == pc = "published"

Jobs == [adapter : Adapters, mapping : Mappings \cup {Null}, isFile : BOOLEAN,
         source : Sources \cup {Null}]

(* Compile has what it has read, and a directory when it has published.    *)
TypeOK ==
    /\ pc \in {"start", "mapped", "adapted", "published", "failed"}
    /\ mapfile \in MappingFiles /\ edits \in 0..MaxEdits
    /\ IF pc = "start" THEN job = Null ELSE job \in Jobs
    /\ pc \in {"adapted", "published"} =>
          job.source \in Sources /\ Adapts(job.adapter, job.source, job.mapping)
    /\ IF Published
       THEN /\ DOMAIN dir = {"corpus", "crosswalk", "projection", "manifest"}
            /\ DOMAIN dir.manifest = ManifestKeys
       ELSE dir = Null /\ written = Null /\ edits = 0

(* What compile publishes is accepted, and replays from the source that it *)
(* has read, whatever becomes of the mapping file; what it makes of an     *)
(* e-Gov source can be exported.                                           *)
WrittenIsAccepted ==
    Published /\ edits = 0 =>
        /\ Replays(dir, job.source)
        /\ job.adapter = "egov_xml" => Exportable(dir)

(* Keys that the manifest states for itself, and that no other part binds  *)
FreeKeys == {"corpus_id", "converted_at"}
SameBut(keys, m, n) == \A k \in ManifestKeys \ keys : m[k] = n[k]

(* Tamper evidence: however a directory is edited, as long as its four     *)
(* digests are the recorded ones it is accepted with the recorded files    *)
(* and facts only; the corpus name and the hour of conversion are free.    *)
DigestsBindTheRest ==
    Published /\ Verifies(written) /\ Verifies(dir)
    /\ (\A k \in {"corpus_sha256", "crosswalk_sha256", "projection_sha256",
                  "build_options_sha256"} : dir.manifest[k] = written.manifest[k])
    => /\ SameBut(FreeKeys, dir.manifest, written.manifest)
       /\ dir.corpus = written.corpus /\ dir.crosswalk = written.crosswalk
       /\ dir.projection = written.projection

(* The record of retrieval and rights, which no byte of a source bears out *)
Record == {"schema", "acquisition", "conversion", "rights", "build_options_sha256"}

(* A recorded corpus digest says how the corpus was made: whoever edits    *)
(* and reseals a directory, and leaves corpus.jsonl as it is, gets a       *)
(* replay accepted only with the recipe, the inputs and the source that it *)
(* was made with.  Every node carries the digest of recipe and inputs.     *)
CorpusDeterminesBuild ==
    \A s, t \in Sources :
        Published /\ Replays(written, s) /\ Replays(dir, t)
        /\ dir.corpus = written.corpus
        => s = t /\ SameBut(FreeKeys \cup Record, dir.manifest, written.manifest)

(* The mapping file, read to be parsed and again to be hashed: when it says*)
(* the same both times, then whatever is edited and resealed afterwards a  *)
(* replay of the corpus is accepted only with the digest of a file that    *)
(* says what the recipe says.  When it was saved with another meaning in   *)
(* between, recipe and digest are of two files and nothing refuses them.   *)
MappingFileIsOfTheRecipe ==
    \A s \in Sources :
        Published /\ Replays(dir, s) /\ dir.corpus = written.corpus
        /\ job.isFile /\ Parse[mapfile] = job.mapping
        => \E k \in DOMAIN dir.manifest.inputs : LET i == dir.manifest.inputs[k] IN
              /\ i.role = "mapping" /\ i.sha256 \in MappingFiles
              /\ Parse[i.sha256] = dir.manifest.build_recipe.mapping

(* What can be exported states the retrieval of the very source that every *)
(* node was made from, and rights exactly under the schema that has them.  *)
RetrievalIsOfTheNodes ==
    Published /\ Exportable(dir) =>
        /\ dir.manifest.acquisition.sha256 = dir.corpus.nodes.source
        /\ dir.manifest.rights # Absent <=> dir.manifest.schema = "v6"
=============================================================================
