---------------------------- MODULE ManifestProofs ----------------------------
(***************************************************************************)
(* What the digests of a manifest, and the provenance in every node, bind, *)
(* and that verify_manifest accepts what compile writes, for any sources,  *)
(* mappings, receipts and number of edits.  The first facts are about every*)
(* directory that verifies, however it came about, so that they need no    *)
(* invariant of the editing; the last is about the first directory only.   *)
(***************************************************************************)
EXTENDS Manifest, TLAPS

(* The parts of a manifest that a corpus and the options determine         *)
LEMMA FilesDetermine ==
    ASSUME NEW d, NEW e, FilesAgree(d), FilesAgree(e),
           d.corpus = e.corpus, d.crosswalk = e.crosswalk
    PROVE  /\ d.projection = e.projection
           /\ \A k \in {"corpus_sha256", "crosswalk_sha256", "projection_sha256",
                        "node_count", "crosswalk_count"} :
                 d.manifest[k] = e.manifest[k]
BY DEF FilesAgree

(* Equal retrieval and rights records stand under equal schemas.           *)
LEMMA SchemaDetermined ==
    ASSUME NEW m, NEW n, KeysExact(m), KeysExact(n),
           m.acquisition = n.acquisition, m.rights = n.rights
    PROVE  m.schema = n.schema
<1> DEFINE Kept(x) == {k \in OptionalKeys : x[k] # Absent}
<1>1. Kept(m) = KeysOf[m.schema] /\ Kept(n) = KeysOf[n.schema]
  BY DEF KeysExact
<1>2. "acquisition" \in Kept(m) <=> "acquisition" \in Kept(n)
  BY DEF OptionalKeys
<1>3. "rights" \in Kept(m) <=> "rights" \in Kept(n)
  BY DEF OptionalKeys
<1>4. m.schema \in {"v3", "v5", "v6"} /\ n.schema \in {"v3", "v5", "v6"}
  BY DEF KeysExact, KeysOf
<1>5. /\ KeysOf["v3"] = {} /\ KeysOf["v6"] = OptionalKeys
      /\ KeysOf["v5"] = OptionalKeys \ {"rights"}
  BY DEF KeysOf
<1> HIDE DEF Kept
<1> QED BY <1>1, <1>2, <1>3, <1>4, <1>5 DEF OptionalKeys

(* A manifest that verifies has a source input.                            *)
LEMMA HasSource ==
    ASSUME NEW m, TypesHold(m), RolesHold(m)
    PROVE  SourceInputs(m) # {}
<1>1. "source" \in RequiredRoles[m.adapter]
  BY DEF TypesHold, Adapters, RequiredRoles
<1>2. PICK i \in DOMAIN Roles(m.inputs) : Roles(m.inputs)[i] = "source"
  BY <1>1 DEF RolesHold
<1>3. i \in DOMAIN m.inputs /\ m.inputs[i].role = "source"
  BY <1>2 DEF Roles
<1> QED BY <1>3 DEF SourceInputs

LEMMA DigestsBind == DigestsBindTheRest
<1> DEFINE m == dir.manifest
           n == written.manifest
<1> SUFFICES ASSUME Verifies(written), Verifies(dir),
                    m.corpus_sha256 = n.corpus_sha256,
                    m.crosswalk_sha256 = n.crosswalk_sha256,
                    m.projection_sha256 = n.projection_sha256,
                    m.build_options_sha256 = n.build_options_sha256
             PROVE  /\ SameBut(FreeKeys, m, n)
                    /\ dir.corpus = written.corpus
                    /\ dir.crosswalk = written.crosswalk
                    /\ dir.projection = written.projection
  BY DEF DigestsBindTheRest
<1>1. FilesAgree(dir) /\ FilesAgree(written)
  BY DEF Verifies
<1>2. dir.corpus = written.corpus /\ dir.crosswalk = written.crosswalk
  BY <1>1 DEF FilesAgree
<1>3. OptionsOf(m) = OptionsOf(n)
  BY DEF Verifies
<1>4. /\ m.adapter = n.adapter /\ m.hierarchy_status = n.hierarchy_status
      /\ m.inputs = n.inputs /\ m.required_input_roles = n.required_input_roles
      /\ m.build_recipe = n.build_recipe /\ m.acquisition = n.acquisition
      /\ m.conversion = n.conversion /\ m.rights = n.rights
  BY <1>3 DEF OptionsOf
<1>5. m.schema = n.schema
  BY <1>4, SchemaDetermined DEF Verifies
<1>6. m.node_count = n.node_count /\ m.crosswalk_count = n.crosswalk_count
      /\ dir.projection = written.projection
  BY <1>1, <1>2, FilesDetermine
<1>7. SameBut(FreeKeys, m, n)
  <2> SUFFICES ASSUME NEW k \in ManifestKeys \ FreeKeys PROVE m[k] = n[k]
    BY DEF SameBut
  <2> HIDE DEF m, n
  <2> QED BY <1>4, <1>5, <1>6 DEF ManifestKeys, OptionalKeys, FreeKeys
<1> QED BY <1>2, <1>6, <1>7

LEMMA CorpusDetermines == CorpusDeterminesBuild
<1> DEFINE m == dir.manifest
           n == written.manifest
<1> SUFFICES ASSUME NEW s \in Sources, NEW t \in Sources,
                    Replays(written, s), Replays(dir, t),
                    dir.corpus = written.corpus
             PROVE  s = t /\ SameBut(FreeKeys \cup Record, m, n)
  BY DEF CorpusDeterminesBuild
<1>1. /\ dir.corpus.provenance = [build_recipe |-> m.build_recipe, inputs |-> m.inputs]
      /\ written.corpus.provenance = [build_recipe |-> n.build_recipe, inputs |-> n.inputs]
  BY DEF Replays, Rebuilds, Bind
<1>2. m.build_recipe = n.build_recipe /\ m.inputs = n.inputs
  BY <1>1
<1>3. m.adapter = n.adapter /\ m.required_input_roles = n.required_input_roles
  BY <1>2 DEF Replays, Verifies, TypesHold, RolesHold, Roles
<1>4. m.hierarchy_status = n.hierarchy_status
  BY DEF Replays, Rebuilds
<1>5. dir.crosswalk = {} /\ written.crosswalk = {}
  BY DEF Replays, Rebuilds
<1>6. \A k \in {"corpus_sha256", "crosswalk_sha256", "projection_sha256",
                "node_count", "crosswalk_count"} : m[k] = n[k]
  BY <1>5, FilesDetermine DEF Replays, Verifies
<1>7. s = t
  <2>1. SourceInputs(m) = SourceInputs(n) /\ SourceInputs(m) # {}
    BY <1>2, HasSource DEF Replays, Verifies, SourceInputs
  <2> QED BY <2>1 DEF Replays
<1>8. SameBut(FreeKeys \cup Record, m, n)
  <2> SUFFICES ASSUME NEW k \in ManifestKeys \ (FreeKeys \cup Record)
               PROVE  m[k] = n[k]
    BY DEF SameBut
  <2> HIDE DEF m, n
  <2> QED BY <1>2, <1>3, <1>4, <1>6
          DEF ManifestKeys, OptionalKeys, FreeKeys, Record
<1> QED BY <1>7, <1>8

LEMMA RetrievalOfNodes == RetrievalIsOfTheNodes
<1> DEFINE m == dir.manifest
<1> SUFFICES ASSUME Exportable(dir)
             PROVE  /\ m.acquisition.sha256 = dir.corpus.nodes.source
                    /\ m.rights # Absent <=> m.schema = "v6"
  BY DEF RetrievalIsOfTheNodes
<1>1. m.schema \in {"v5", "v6"} /\ AcquisitionHolds(m) /\ ProvenanceHolds(dir)
      /\ KeysExact(m)
  BY DEF Exportable, Verifies
<1>2. m.acquisition.sha256 = dir.corpus.nodes.source
  BY <1>1 DEF AcquisitionHolds, ProvenanceHolds
<1>3. m.rights # Absent <=> "rights" \in KeysOf[m.schema]
  BY <1>1 DEF KeysExact, OptionalKeys
<1>4. "rights" \in KeysOf["v6"] /\ "rights" \notin KeysOf["v5"]
  BY DEF KeysOf, OptionalKeys
<1> QED BY <1>1, <1>2, <1>3, <1>4

(* Tamper evidence: a directory of which the four recorded digests are     *)
(* kept verifies only with the recorded files and facts.                   *)
THEOREM TamperEvidence == Spec => []DigestsBindTheRest
BY DigestsBind, PTL

(* A corpus that replays fixes the recipe, the inputs and the source that  *)
(* a manifest may state for it.                                            *)
THEOREM CorpusFixesBuild == Spec => []CorpusDeterminesBuild
BY CorpusDetermines, PTL

(* What export_okf accepts states the retrieval of the source of its nodes.*)
THEOREM RetrievalBelongs == Spec => []RetrievalIsOfTheNodes
BY RetrievalOfNodes, PTL

----------------------------------------------------------------------------
(* What compile writes                                                     *)

(* Compile has refused what it does not support, and has written the       *)
(* directory of what it has read; the mapping file is as it was hashed.    *)
Wrote(receipt, rights, file) ==
    /\ ~Unsupported(receipt, rights)
    /\ written = Directory(BuildRecipe(job.adapter, job.mapping),
                           InputsOf(job.source, job.mapping, job.isFile, file),
                           Acquisition(receipt), rights,
                           Nodes(job.adapter, job.source, job.mapping))

WInv ==
    /\ TypeOK
    /\ Published => \E receipt \in Receipts \cup {Null},
                       rights \in RightsAreas \cup {Absent, Malformed} :
                       Wrote(receipt, rights, mapfile)
    /\ Published /\ edits = 0 => dir = written

LEMMA InitW == Init => WInv
BY ManifestAssumption DEF Init, WInv, TypeOK, Published

LEMMA DirectoryKeys ==
    ASSUME NEW recipe, NEW inputs, NEW acquisition, NEW rights, NEW nodes
    PROVE  LET d == Directory(recipe, inputs, acquisition, rights, nodes)
           IN  /\ DOMAIN d = {"corpus", "crosswalk", "projection", "manifest"}
               /\ DOMAIN d.manifest = ManifestKeys
BY DEF Directory, ManifestFor, Sealed, ManifestKeys, OptionalKeys

LEMMA CompileStep ==
    ASSUME WInv, Compile
    PROVE  WInv'
<1> USE DEF WInv, TypeOK, Published
<1>1. ASSUME NEW a \in Adapters, NEW m \in Mappings \cup {Null}, NEW isFile \in BOOLEAN,
             ReadMapping(a, m, isFile)
      PROVE  WInv'
  BY <1>1 DEF ReadMapping, Jobs
<1>2. ASSUME NEW s \in Sources, Adapt(s)
      PROVE  WInv'
  BY <1>2 DEF Adapt, Jobs
<1>3. ASSUME NEW receipt \in Receipts \cup {Null},
             NEW rights \in RightsAreas \cup {Absent, Malformed},
             Publish(receipt, rights)
      PROVE  WInv'
  <2>1. CASE Unsupported(receipt, rights) /\ pc' = "failed"
    BY <1>3, <2>1 DEF Publish
  <2>2. CASE ~Unsupported(receipt, rights) /\ pc' = "published"
    <3>1. UNCHANGED <<job, mapfile, edits>> /\ pc = "adapted" /\ dir' = written'
      BY <1>3, <2>2 DEF Publish
    <3>2. Wrote(receipt, rights, mapfile)'
      BY <1>3, <2>2 DEF Publish, Wrote, Unsupported, Acquisition
    <3>3. TypeOK'
      <4>1. /\ DOMAIN dir' = {"corpus", "crosswalk", "projection", "manifest"}
            /\ DOMAIN dir'.manifest = ManifestKeys
        BY <3>1, <3>2, DirectoryKeys DEF Wrote
      <4> QED BY <2>2, <3>1, <4>1
    <3> QED BY <3>1, <3>2, <3>3
  <2> QED BY <1>3, <2>1, <2>2 DEF Publish
<1> QED BY <1>1, <1>2, <1>3 DEF Compile

LEMMA EditStep ==
    ASSUME WInv, Edit
    PROVE  WInv'
<1>1. Published /\ UNCHANGED <<pc, job, mapfile, written>>
  BY DEF Edit, EditKey, EditSchema, EditRecipe, EditInputs, EditCorpus, EditCrosswalk,
         Reseal, CanEdit, Published
<1>2. edits' \in 1..MaxEdits
  <2>1. edits \in 0..MaxEdits /\ MaxEdits \in Nat
    BY ManifestAssumption DEF WInv, TypeOK
  <2>2. \/ edits < MaxEdits /\ edits' = edits + 1
        \/ edits > 0 /\ edits' = edits
    BY DEF Edit, EditKey, EditSchema, EditRecipe, EditInputs, EditCorpus,
           EditCrosswalk, Reseal, CanEdit
  <2> QED BY <2>1, <2>2
<1>3. DOMAIN dir' = DOMAIN dir /\ DOMAIN dir'.manifest = DOMAIN dir.manifest
  <2> USE DEF WInv, TypeOK
  <2>1. ASSUME NEW key, NEW value, EditKey(key, value)
        PROVE  DOMAIN dir' = DOMAIN dir /\ DOMAIN dir'.manifest = DOMAIN dir.manifest
    BY <1>1, <2>1 DEF EditKey
  <2>2. ASSUME NEW schema, NEW acquisition, NEW rights, EditSchema(schema, acquisition, rights)
        PROVE  DOMAIN dir' = DOMAIN dir /\ DOMAIN dir'.manifest = DOMAIN dir.manifest
    BY <1>1, <2>2 DEF EditSchema
  <2>3. ASSUME NEW recipe, EditRecipe(recipe)
        PROVE  DOMAIN dir' = DOMAIN dir /\ DOMAIN dir'.manifest = DOMAIN dir.manifest
    BY <1>1, <2>3 DEF EditRecipe
  <2>4. ASSUME NEW inputs, EditInputs(inputs)
        PROVE  DOMAIN dir' = DOMAIN dir /\ DOMAIN dir'.manifest = DOMAIN dir.manifest
    BY <1>1, <2>4 DEF EditInputs
  <2>5. ASSUME NEW nodes, NEW rebound, EditCorpus(nodes, rebound)
        PROVE  DOMAIN dir' = DOMAIN dir /\ DOMAIN dir'.manifest = DOMAIN dir.manifest
    BY <1>1, <2>5 DEF EditCorpus
  <2>6. ASSUME NEW rows, EditCrosswalk(rows)
        PROVE  DOMAIN dir' = DOMAIN dir /\ DOMAIN dir'.manifest = DOMAIN dir.manifest
    BY <1>1, <2>6 DEF EditCrosswalk
  <2>7. CASE Reseal
    BY <1>1, <2>7 DEF Reseal, Sealed
  <2> QED BY <2>1, <2>2, <2>3, <2>4, <2>5, <2>6, <2>7 DEF Edit
<1>4. TypeOK'
  BY <1>1, <1>2, <1>3 DEF WInv, TypeOK, Published
<1>5. ASSUME NEW receipt, NEW rights, Wrote(receipt, rights, mapfile)
      PROVE  Wrote(receipt, rights, mapfile)'
  BY <1>1, <1>5 DEF Wrote, Unsupported, Acquisition
<1> QED BY <1>1, <1>2, <1>4, <1>5 DEF WInv, Published

LEMMA OtherWStep ==
    ASSUME WInv, (\E f \in MappingFiles : RewriteMapping(f)) \/ UNCHANGED vars
    PROVE  WInv'
<1>1. ASSUME NEW receipt, NEW rights, Published, Wrote(receipt, rights, mapfile)
      PROVE  Wrote(receipt, rights, mapfile)'
  BY <1>1 DEF Wrote, Unsupported, Acquisition, RewriteMapping, Published, vars
<1> QED BY <1>1 DEF WInv, TypeOK, Published, RewriteMapping, vars

LEMMA WInvariance == Spec => []WInv
<1>1. WInv /\ [Next]_vars => WInv'
  BY CompileStep, EditStep, OtherWStep DEF Next
<1> QED BY InitW, <1>1, PTL DEF Spec

(* The fields of a manifest that compile writes                            *)
LEMMA ManifestFields ==
    ASSUME NEW recipe, NEW inputs, NEW acquisition, NEW rights, NEW corpus
    PROVE  LET m == ManifestFor(recipe, inputs, acquisition, rights, corpus)
               egov == acquisition # Absent
           IN  /\ m.schema = SchemaFor(acquisition, rights)
               /\ m.node_count = NodeCount[corpus.nodes.source]
               /\ m.crosswalk_count = Cardinality({})
               /\ m.hierarchy_status = "full" /\ m.adapter = recipe.adapter
               /\ m.inputs = inputs /\ m.required_input_roles = Roles(inputs)
               /\ m.build_recipe = recipe
               /\ m.corpus_sha256 = corpus /\ m.crosswalk_sha256 = {}
               /\ m.projection_sha256 = corpus
               /\ m.build_options_sha256 = OptionsOf(m)
               /\ m.acquisition = acquisition /\ m.rights = rights
               /\ m.conversion = IF egov THEN "converter" ELSE Absent
               /\ m.converted_at = IF egov THEN "now" ELSE Absent
BY DEF ManifestFor, Sealed, OptionsOf

(* A job that an adapter has accepted, with facts that compile supports    *)
SupportedJob(a, s, m, acquisition, rights) ==
    /\ a \in Adapters /\ s \in Sources \ Breaking /\ m \in Mappings \cup {Null}
    /\ Adapts(a, s, m) /\ ShapeOf(m) # "empty"
    /\ IF a = "egov_xml"
       THEN /\ acquisition \in Receipts /\ acquisition.sha256 = s
            /\ acquisition.retrieval # Malformed
            /\ rights = Absent \/ RightsHold(rights)
       ELSE acquisition = Absent /\ rights = Absent

(* The mapping that each adapter has after the refusal of empty ones       *)
LEMMA AcceptedShapes ==
    ASSUME NEW a \in Adapters, NEW s, NEW m \in Mappings \cup {Null},
           Adapts(a, s, m), ShapeOf(m) # "empty"
    PROVE  /\ a = "json" => m = Null
           /\ a \in {"xml", "html"} => m # Null
           /\ ShapeOf(m) \in RecipeShapes[a]
<1>1. m \in Mappings => Shape[m] \in {"empty", "rows", "law_id"} /\ m # Null
  BY ManifestAssumption DEF Others
<1>2. Takes.json = {"none", "empty"} /\ Takes.xml = {"rows"} /\ Takes.html = {"rows"}
      /\ Takes.egov_xml = {"none", "law_id"}
  BY DEF Takes
<1>3. /\ RecipeShapes.json = {"none"} /\ RecipeShapes.xml = {"empty", "rows", "law_id"}
      /\ RecipeShapes.html = {"empty", "rows", "law_id"}
      /\ RecipeShapes.egov_xml = {"none", "empty", "rows", "law_id"}
  BY DEF RecipeShapes
<1> QED BY <1>1, <1>2, <1>3 DEF Adapters, Adapts, ShapeOf

(* Manifest man records the inputs of such a job.                          *)
RecordsInputs(man, a, s, m, isFile, file) ==
    /\ a \in Adapters /\ man.adapter = a
    /\ a = "json" => m = Null
    /\ a \in {"xml", "html"} => m # Null
    /\ man.inputs = InputsOf(s, m, isFile, file)
    /\ man.required_input_roles = Roles(man.inputs)

(* The inputs that compile records have the roles of the adapter and the   *)
(* URIs of their content.                                                  *)
LEMMA InputsAccepted ==
    ASSUME NEW man, NEW a, NEW s, NEW m, NEW isFile, NEW file,
           RecordsInputs(man, a, s, m, isFile, file)
    PROVE  /\ RolesHold(man) /\ UrisHold(man)
           /\ SourceInputs(man) = {BuildInput("source", ContentUri(s), s)}
           /\ \A k \in DOMAIN man.inputs :
                 man.inputs[k].uri = InlineUri => man.inputs[k].sha256 = m
<1> DEFINE source == BuildInput("source", ContentUri(s), s)
           mapping == MappingInput(m, isFile, file)
<1>0. /\ a \in Adapters /\ man.adapter = a
      /\ a = "json" => m = Null
      /\ a \in {"xml", "html"} => m # Null
      /\ man.inputs = InputsOf(s, m, isFile, file)
      /\ man.required_input_roles = Roles(man.inputs)
  BY DEF RecordsInputs
<1>1. source.role = "source" /\ source.uri = ContentUri(s) /\ source.sha256 = s
  BY DEF BuildInput
<1>2. /\ mapping.role = "mapping"
      /\ mapping.uri = InlineUri => mapping.sha256 = m
      /\ mapping.uri # InlineUri => mapping.uri = ContentUri(mapping.sha256)
  BY DEF MappingInput, BuildInput, ContentUri, InlineUri
<1>3. source.uri # InlineUri
  BY DEF BuildInput, ContentUri, InlineUri
<1>4. /\ RequiredRoles.json = {"source"} /\ RequiredRoles.xml = {"source", "mapping"}
      /\ RequiredRoles.html = {"source", "mapping"} /\ RequiredRoles.egov_xml = {"source"}
  BY DEF RequiredRoles
<1> HIDE DEF source, mapping
<1>5. CASE m = Null
  <2>1. man.inputs = <<source>>
    BY <1>0, <1>5 DEF InputsOf, source
  <2>2. DOMAIN man.inputs = {1} /\ man.inputs[1] = source
    BY <2>1
  <2>3. DOMAIN Roles(man.inputs) = {1} /\ Roles(man.inputs)[1] = "source"
    BY <1>1, <2>2 DEF Roles
  <2>4. {Roles(man.inputs)[i] : i \in DOMAIN Roles(man.inputs)} = {"source"}
    BY <2>3
  <2>5. RolesHold(man)
    BY <1>0, <1>4, <1>5, <2>3, <2>4 DEF RolesHold, AllowedRoles, Adapters
  <2>6. UrisHold(man)
    BY <1>1, <1>3, <2>2 DEF UrisHold
  <2>7. SourceInputs(man) = {source}
    BY <1>1, <2>2 DEF SourceInputs
  <2> QED BY <1>3, <2>2, <2>5, <2>6, <2>7 DEF source
<1>6. CASE m # Null
  <2>1. man.inputs = <<mapping, source>>
    BY <1>0, <1>6 DEF InputsOf, source, mapping
  <2>2. DOMAIN man.inputs = {1, 2} /\ man.inputs[1] = mapping /\ man.inputs[2] = source
    BY <2>1
  <2>3. /\ DOMAIN Roles(man.inputs) = {1, 2}
        /\ Roles(man.inputs)[1] = "mapping" /\ Roles(man.inputs)[2] = "source"
    BY <1>1, <1>2, <2>2 DEF Roles
  <2>4. {Roles(man.inputs)[i] : i \in DOMAIN Roles(man.inputs)} = {"source", "mapping"}
    BY <2>3
  <2>5. RolesHold(man)
    <3>1. \A i, j \in DOMAIN Roles(man.inputs) :
             i < j => Roles(man.inputs)[i] = "mapping" /\ Roles(man.inputs)[j] = "source"
      BY <2>3
    <3>2. /\ RequiredRoles[a] \subseteq {"source", "mapping"}
          /\ {"source", "mapping"} \subseteq AllowedRoles(a)
      BY <1>0, <1>4, <1>6 DEF AllowedRoles, Adapters
    <3> QED BY <1>0, <2>4, <3>1, <3>2 DEF RolesHold
  <2>6. UrisHold(man)
    BY <1>1, <1>2, <1>3, <2>2 DEF UrisHold
  <2>7. SourceInputs(man) = {source}
    BY <1>1, <1>2, <2>2 DEF SourceInputs
  <2> QED BY <1>2, <1>3, <2>2, <2>5, <2>6, <2>7 DEF source
<1> QED BY <1>5, <1>6

(* A directory that compile writes is accepted and replays; one of an e-Gov*)
(* source can be exported.                                                 *)
LEMMA DirectoryAccepted ==
    ASSUME NEW a, NEW s, NEW m, NEW isFile, NEW file, NEW acquisition, NEW rights,
           SupportedJob(a, s, m, acquisition, rights)
    PROVE  LET d == Directory(BuildRecipe(a, m), InputsOf(s, m, isFile, file),
                              acquisition, rights, Nodes(a, s, m))
           IN  Replays(d, s) /\ (a = "egov_xml" => Exportable(d))
<1> DEFINE recipe == BuildRecipe(a, m)
           inputs == InputsOf(s, m, isFile, file)
           nodes == Nodes(a, s, m)
           corpus == Bind(nodes, recipe, inputs)
           d == Directory(recipe, inputs, acquisition, rights, nodes)
           man == d.manifest
<1>1. /\ a \in Adapters /\ s \in Sources /\ m \in Mappings \cup {Null}
      /\ s \notin Breaking /\ Adapts(a, s, m) /\ ShapeOf(m) # "empty"
  BY DEF SupportedJob
<1>2. /\ a = "json" => m = Null
      /\ a \in {"xml", "html"} => m # Null
      /\ ShapeOf(m) \in RecipeShapes[a]
  BY <1>1, AcceptedShapes
<1>3. /\ d.corpus = corpus /\ d.crosswalk = {} /\ d.projection = corpus
      /\ man = ManifestFor(recipe, inputs, acquisition, rights, corpus)
  BY DEF Directory
<1>4. recipe.adapter = a /\ recipe.mapping = m
  BY DEF BuildRecipe
<1>5. nodes.source = s /\ nodes.adapter = a /\ corpus.nodes = nodes
  BY DEF Nodes, Bind
<1>6. /\ man.schema = SchemaFor(acquisition, rights)
      /\ man.node_count = NodeCount[corpus.nodes.source]
      /\ man.crosswalk_count = Cardinality({})
      /\ man.hierarchy_status = "full" /\ man.adapter = recipe.adapter
      /\ man.inputs = inputs /\ man.required_input_roles = Roles(inputs)
      /\ man.build_recipe = recipe
      /\ man.corpus_sha256 = corpus /\ man.crosswalk_sha256 = {}
      /\ man.projection_sha256 = corpus
      /\ man.build_options_sha256 = OptionsOf(man)
      /\ man.acquisition = acquisition /\ man.rights = rights
      /\ man.conversion = IF acquisition # Absent THEN "converter" ELSE Absent
      /\ man.converted_at = IF acquisition # Absent THEN "now" ELSE Absent
  BY <1>3, ManifestFields
<1> HIDE DEF recipe, inputs, nodes, corpus, d, man
<1>7. /\ RolesHold(man) /\ UrisHold(man)
      /\ SourceInputs(man) = {BuildInput("source", ContentUri(s), s)}
      /\ \A k \in DOMAIN man.inputs :
            man.inputs[k].uri = InlineUri => man.inputs[k].sha256 = m
  <2>1. RecordsInputs(man, a, s, m, isFile, file)
    BY <1>1, <1>2, <1>4, <1>6 DEF RecordsInputs, inputs
  <2> QED BY <2>1, InputsAccepted
<1>8. BuildInput("source", ContentUri(s), s).sha256 = s
  BY DEF BuildInput
<1>9. Absent \notin Receipts \cup RightsAreas \cup {"converter", "now"}
      /\ Malformed # "now"
  BY RecordsAssumption DEF Others
<1>10. (acquisition = Absent) = (a # "egov_xml")
  BY <1>1, <1>9 DEF SupportedJob
<1>11. KeysExact(man)
  <2>1. /\ KeysOf["v3"] = {} /\ KeysOf["v6"] = OptionalKeys
        /\ KeysOf["v5"] = OptionalKeys \ {"rights"}
        /\ DOMAIN KeysOf = {"v3", "v5", "v6"}
    BY DEF KeysOf
  <2>2. rights = Absent \/ rights \in RightsAreas
    BY DEF SupportedJob, RightsHold
  <2>3. acquisition = Absent => rights = Absent
    BY <1>10 DEF SupportedJob
  <2>4. CASE acquisition = Absent
    BY <1>6, <2>1, <2>3, <2>4 DEF KeysExact, SchemaFor, OptionalKeys
  <2>5. CASE acquisition # Absent /\ rights = Absent
    <3>1. {k \in OptionalKeys : man[k] # Absent} = OptionalKeys \ {"rights"}
      BY <1>6, <1>9, <2>5 DEF OptionalKeys
    <3> QED BY <1>6, <2>1, <2>5, <3>1 DEF KeysExact, SchemaFor
  <2>6. CASE acquisition # Absent /\ rights # Absent
    <3>1. {k \in OptionalKeys : man[k] # Absent} = OptionalKeys
      BY <1>6, <1>9, <2>6 DEF OptionalKeys
    <3> QED BY <1>6, <2>1, <2>6, <3>1 DEF KeysExact, SchemaFor
  <2> QED BY <2>4, <2>5, <2>6
<1>12. TypesHold(man)
  BY <1>1, <1>4, <1>6 DEF TypesHold
<1>13. FilesAgree(d)
  BY <1>1, <1>3, <1>5, <1>6 DEF FilesAgree, ReadBack, man
<1>14. AcquisitionHolds(man)
  <2> SUFFICES ASSUME man.schema \in {"v5", "v6"} PROVE AcquisitionHolds(man)
    BY DEF AcquisitionHolds
  <2>1. acquisition # Absent /\ a = "egov_xml" /\ (man.schema = "v6" => rights # Absent)
    BY <1>6, <1>10 DEF SchemaFor
  <2>2. /\ acquisition \in Receipts /\ acquisition.sha256 = s
        /\ acquisition.retrieval # Malformed /\ (rights = Absent \/ RightsHold(rights))
    BY <2>1 DEF SupportedJob
  <2> QED BY <1>4, <1>6, <1>7, <1>8, <1>9, <2>1, <2>2 DEF AcquisitionHolds
<1>15. ProvenanceHolds(d)
  BY <1>3, <1>5, <1>7, <1>8 DEF ProvenanceHolds, man
<1>16. Verifies(d)
  BY <1>6, <1>7, <1>11, <1>12, <1>13, <1>14, <1>15 DEF Verifies, man
<1>17. Rebuilds(d, s)
  BY <1>1, <1>2, <1>3, <1>4, <1>6 DEF Rebuilds, man, nodes, corpus
<1>18. Replays(d, s)
  BY <1>4, <1>6, <1>7, <1>8, <1>16, <1>17 DEF Replays, man
<1>19. a = "egov_xml" => Exportable(d)
  BY <1>3, <1>4, <1>5, <1>6, <1>10, <1>16 DEF Exportable, SchemaFor, man
<1> QED BY <1>18, <1>19 DEF d, recipe, inputs, nodes

(* Every variable of the compilation and the editing keeps its type; only  *)
(* an adapter that takes the mapping and reads the source gets to publish. *)
THEOREM TypeCorrect == Spec => []TypeOK
<1>1. WInv => TypeOK
  BY DEF WInv
<1> QED BY <1>1, WInvariance, PTL

(* What compile publishes is accepted, replays from its source and, of an  *)
(* e-Gov source, can be exported, for every mapping that is not empty and  *)
(* every source whose texts have no line boundary of Unicode.              *)
THEOREM WrittenAccepted ==
    Spec => [](job.source \notin Breaking /\ ShapeOf(job.mapping) # "empty"
               => WrittenIsAccepted)
<1>1. ASSUME WInv, job.source \notin Breaking, ShapeOf(job.mapping) # "empty",
             Published, edits = 0
      PROVE  Replays(dir, job.source) /\ (job.adapter = "egov_xml" => Exportable(dir))
  <2>1. PICK receipt \in Receipts \cup {Null}, rights \in RightsAreas \cup {Absent, Malformed} :
             Wrote(receipt, rights, mapfile)
    BY <1>1 DEF WInv
  <2>2. mapfile \in MappingFiles /\ job \in Jobs /\ job.source \in Sources /\ Adapts(job.adapter, job.source, job.mapping)
    BY <1>1 DEF WInv, TypeOK, Published
  <2>3. SupportedJob(job.adapter, job.source, job.mapping, Acquisition(receipt), rights)
    <3>1. BaseAcquisition(job.source) \in Receipts
          /\ BaseAcquisition(job.source).sha256 = job.source
          /\ BaseAcquisition(job.source).retrieval # Malformed
      BY <2>2, ManifestAssumption DEF BaseAcquisition, Receipts
    <3>2. CASE job.adapter = "egov_xml"
      <4>1. rights = Absent \/ RightsHold(rights)
        BY <2>1 DEF Wrote, Unsupported
      <4>2. /\ Acquisition(receipt) \in Receipts
            /\ Acquisition(receipt).sha256 = job.source
            /\ Acquisition(receipt).retrieval # Malformed
        BY <2>1, <3>1, <3>2 DEF Wrote, Unsupported, Acquisition, Agrees
      <4> QED BY <1>1, <2>2, <3>2, <4>1, <4>2 DEF SupportedJob, Jobs
    <3>3. CASE job.adapter # "egov_xml"
      <4>1. Acquisition(receipt) = Absent /\ rights = Absent
        BY <2>1, <3>3 DEF Wrote, Unsupported, Acquisition
      <4> QED BY <1>1, <2>2, <3>3, <4>1 DEF SupportedJob, Jobs
    <3> QED BY <3>2, <3>3
  <2>4. dir = Directory(BuildRecipe(job.adapter, job.mapping),
                        InputsOf(job.source, job.mapping, job.isFile, mapfile),
                        Acquisition(receipt), rights,
                        Nodes(job.adapter, job.source, job.mapping))
    BY <1>1, <2>1 DEF WInv, Wrote
  <2> QED BY <2>2, <2>3, <2>4, DirectoryAccepted DEF Jobs
<1>2. WInv => (job.source \notin Breaking /\ ShapeOf(job.mapping) # "empty"
               => WrittenIsAccepted)
  BY <1>1 DEF WrittenIsAccepted
<1> QED BY <1>2, WInvariance, PTL

(* A mapping file that says the same when it is parsed and when it is      *)
(* hashed is the one that every accepted replay of the corpus names,       *)
(* whatever was edited: the corpus carries the inputs with the recipe.     *)
THEOREM MappingFilesAreNamed == Spec => []MappingFileIsOfTheRecipe
<1>1. ASSUME WInv, NEW s \in Sources, Published, Replays(dir, s),
             dir.corpus = written.corpus, job.isFile, Parse[mapfile] = job.mapping
      PROVE  \E k \in DOMAIN dir.manifest.inputs : LET i == dir.manifest.inputs[k] IN
                /\ i.role = "mapping" /\ i.sha256 \in MappingFiles
                /\ Parse[i.sha256] = dir.manifest.build_recipe.mapping
  <2> DEFINE recipe == BuildRecipe(job.adapter, job.mapping)
             inputs == InputsOf(job.source, job.mapping, job.isFile, mapfile)
             nodes  == Nodes(job.adapter, job.source, job.mapping)
  <2>1. written.corpus = Bind(nodes, recipe, inputs)
    <3>1. PICK receipt \in Receipts \cup {Null}, rights \in RightsAreas \cup {Absent, Malformed} :
               Wrote(receipt, rights, mapfile)
      BY <1>1 DEF WInv
    <3> QED BY <3>1 DEF Wrote, Directory
  <2>2. dir.corpus.provenance = [build_recipe |-> dir.manifest.build_recipe,
                                 inputs |-> dir.manifest.inputs]
    BY <1>1 DEF Replays, Rebuilds, Bind
  <2>3. dir.manifest.build_recipe = recipe /\ dir.manifest.inputs = inputs
    <3>1. written.corpus.provenance = [build_recipe |-> recipe, inputs |-> inputs]
      BY <2>1 DEF Bind
    <3> HIDE DEF recipe, inputs
    <3> QED BY <1>1, <2>2, <3>1
  <2>4. mapfile \in MappingFiles /\ job.mapping # Null
    <3>1. mapfile \in MappingFiles
      BY <1>1 DEF WInv, TypeOK
    <3>2. Null \notin Mappings /\ Parse[mapfile] \in Mappings
      BY <3>1, ManifestAssumption DEF Others
    <3> QED BY <1>1, <3>1, <3>2
  <2>5. inputs[1] = BuildInput("mapping", ContentUri(mapfile), mapfile) /\ 1 \in DOMAIN inputs
    BY <1>1, <2>4 DEF InputsOf, MappingInput
  <2>6. /\ dir.manifest.inputs[1].role = "mapping"
        /\ dir.manifest.inputs[1].sha256 = mapfile
        /\ 1 \in DOMAIN dir.manifest.inputs
        /\ dir.manifest.build_recipe.mapping = job.mapping
    BY <2>3, <2>5 DEF BuildInput, BuildRecipe
  <2> QED BY <1>1, <2>4, <2>6
<1>2. WInv => MappingFileIsOfTheRecipe
  BY <1>1 DEF MappingFileIsOfTheRecipe
<1> QED BY <1>2, WInvariance, PTL
=============================================================================
