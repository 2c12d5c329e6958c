----------------------------- MODULE MCManifest -----------------------------
(***************************************************************************)
(* Instances of Manifest for TLC: two sources of the e-Gov API, which an   *)
(* xml adapter can read as well, and one of structured JSON.               *)
(***************************************************************************)
EXTENDS Manifest

CONSTANTS law1, law2, tree, rows, lawId, empty, rowsFile, rowsFile2, lawIdFile

MCReadBy == [s \in Sources |->
                IF s = tree THEN {"json"} ELSE {"xml", "html", "egov_xml"}]
MCLawOf == [s \in Sources |-> IF s = law2 THEN "law 2" ELSE "law 1"]
MCNodeCount == [s \in Sources |-> IF s = law2 THEN 3 ELSE 2]
MCShape == [m \in Mappings |-> IF m = rows THEN "rows"
                               ELSE IF m = empty THEN "empty" ELSE "law_id"]
MCParse == [f \in MappingFiles |-> IF f = lawIdFile THEN lawId ELSE rows]

(* Every directory is edited once, and those of five compilations twice:   *)
(* e-Gov XML with all facts or none and with a mapping, XML with a mapping *)
(* file, and JSON.                                                         *)
EditedTwice ==
    LET m == written.manifest IN
    \/ /\ m.adapter = "egov_xml" /\ job.source = law1 /\ ~job.isFile
       /\ m.rights \in {Absent, Asserted}
       /\ IF job.mapping = Null THEN (m.acquisition.retrieval = Null) = (m.rights = Absent)
          ELSE m.acquisition.retrieval = Null /\ m.rights = Absent
    \/ m.adapter = "xml" /\ job.source = law1 /\ mapfile = rowsFile /\ job.isFile
    \/ m.adapter = "json"

MCNext == \/ Compile
          \/ \E f \in MappingFiles : RewriteMapping(f)
          \/ Edit /\ (edits = 1 => EditedTwice)

MCSpec == Init /\ [][MCNext]_vars
=============================================================================
