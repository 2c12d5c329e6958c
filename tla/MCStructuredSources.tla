------------------------ MODULE MCStructuredSources ------------------------
(***************************************************************************)
(* An instance of StructuredSources for TLC with families of corpora.      *)
(* Read row by row: the structural ones vary parent, kind and depth of four*)
(* nodes, one of them of another law; the temporal ones the windows and    *)
(* versions of a law and of one provision in it, and its number; the       *)
(* linked ones the crosswalk of two fixed versions.  From a source: JSON   *)
(* trees and mapped rows.                                                  *)
(***************************************************************************)
EXTENDS StructuredSources

CONSTANTS a, b, c, d, act, provision, law1, law2,
          x1, j1, j2,  \* names, the last two in Japanese
          old1, old2   \* legacy ids

ReadIds == {a, b, c, d, act, provision}
Segments == Kinds \X (Nat \cup {None, x1, j1, j2})
MCIds == ReadIds \cup Seq(Laws \cup Segments)
MCLawOf(id) == IF id = d THEN law2 ELSE IF id \in ReadIds THEN law1 ELSE id[1]

----------------------------------------------------------------------------
Row(id, parent, kind, depth, from, to, wording, number, source) ==
    [id |-> id, parent |-> parent, kind |-> kind, depth |-> depth, from |-> from,
     to |-> to, wording |-> wording, number |-> number, source |-> source]

Places(ids, parents, kinds, depths) ==
    {Row(id, p, k, dep, None, None, 1, 1, "source") :
        id \in ids, p \in parents, k \in kinds, dep \in depths}

StructureRows ==
    Places({a, b, c}, {None, a, b, c}, {"law", "subitem"}, 0..1)
    \cup Places({a, b, c}, {None, a, b, c}, {"supplementary_provision"}, 1..2)
    \cup Places({a, b, c}, {a, b, c}, {"subitem"}, {2})
    \cup Places({d}, {None, a, b, c}, {"law"}, {0})
    \cup Places({d}, {None, a, b, c}, {"subitem"}, {1})

(* Nothing tells these nodes of law1 apart: no definition, no row.         *)
NodeSymmetry == Permutations({a, b, c})

Act(from, to) == Row(act, None, "law", 0, from, to, 1, 1, "source")
Provision(from, to, wording, number) ==
    Row(provision, act, "supplementary_provision", 1, from, to, wording, number,
        "source")

TemporalRows ==
    {Act(None, None), Act(1, None), Act(2, None), Act(None, 2), Act(1, 3)}
    \cup {Provision(w[1], w[2], 1, 1) : w \in Windows}
    \cup {Provision(None, None, 2, 1), Provision(1, 2, 2, 1), Provision(1, 2, 1, 2),
           [Provision(1, 2, 1, 1) EXCEPT !.parent = None]}

MCRows == StructureRows \cup TemporalRows

----------------------------------------------------------------------------
(* Crosswalk rows for a law with one provision in two versions             *)
Linked == <<Act(None, None), Provision(None, 2, 1, 1), Provision(2, None, 1, 1)>>
MCLinks ==
    [legacy : {old1, old2}, node : {provision},
     version : {VersionId(Linked[2]), VersionId(Linked[3])},
     relation : {"exact", "derived", "ambiguous"}, reason : BOOLEAN,
     source : {"source"}]
    \cup {[legacy |-> old1, node |-> n, version |-> v,
           relation |-> "exact", reason |-> FALSE, source |-> s] :
             n \in {act, provision}, s \in {"source", "other"},
             v \in {VersionId(Linked[1]), VersionId(Linked[2]),
                    VersionId(Provision(1, 2, 1, 1))}}

----------------------------------------------------------------------------
File(format, from, to, key) ==
    [format |-> format, law |-> law1, from |-> from, to |-> to, key |-> key]
MCFiles == {File("corpus", None, None, FALSE), File("xml", None, None, FALSE),
            File("json", None, None, FALSE), File("json", 1, None, FALSE),
            File("json", None, None, TRUE)}

(* Names with and without a slug, a number, three windows besides that of  *)
(* the file, another law, a misplaced kind and a malformed object.         *)
Object(name, kind, num, own, from, to, law, ok) ==
    [name |-> name, kind |-> kind, num |-> num, own |-> own,
     from |-> from, to |-> to, law |-> law, ok |-> ok]
Plain(name, kind, num) == Object(name, kind, num, FALSE, None, None, None, TRUE)
During(name, kind, num, from, to) == Object(name, kind, num, TRUE, from, to, None, TRUE)

LawObjects == {Plain(x1, "law", None), During(x1, "law", None, 1, 2),
          During(x1, "law", None, 2, None),
          Object(x1, "law", None, FALSE, None, None, law2, TRUE)}
MCObjects == LawObjects \cup
    {Plain(x1, "article", 1), Plain(x1, "article", None), Plain(j1, "article", None),
     During(x1, "article", 1, 1, 2), During(x1, "article", 1, 2, None),
     During(j1, "article", None, 1, 2), During(j2, "article", None, 2, None),
     During(j2, "article", 1, None, None), Plain(j1, "item", 1),
     During(j1, "item", 1, 1, 2),
     Object(x1, "item", 1, FALSE, None, None, law2, TRUE),
     Object(x1, "item", 1, FALSE, None, None, None, FALSE)}

Mapped1(name, kind, num, depth, parent, from, to) ==
    [name |-> name, kind |-> kind, num |-> num, depth |-> depth, parent |-> parent,
     from |-> from, to |-> to, law |-> None, ok |-> TRUE]
MCMappedRows ==
    {Mapped1(x1, "law", None, 0, None, None, None),
     Mapped1(x1, "law", None, 0, None, 1, 2), Mapped1(x1, "law", None, 0, None, 2, None)}
    \cup {Mapped1(n, "article", num, 1, x1, None, None) :
             n \in {x1, j1}, num \in {None, 1, 2}}
    \cup {Mapped1(j2, "article", 1, 1, x1, 1, 2), Mapped1(j1, "article", None, 1, x1, 2, None),
          [Mapped1(j1, "article", None, 1, x1, None, None) EXCEPT !.law = law2],
          [Mapped1(j1, "article", None, 1, x1, None, None) EXCEPT !.ok = FALSE]}
    \cup {Mapped1(n, "item", num, dep, p, None, None) :
             n \in {j1, j2}, num \in {None, 1}, dep \in 1..2, p \in {x1, j1}}

----------------------------------------------------------------------------
(* Rows of one family only, at most MaxStructure structural ones; a        *)
(* crosswalk once the linked corpus is there; a fourth object or row only  *)
(* after others of a few.                                                  *)
MaxStructure == 3
FewObjects ==
    {Plain(x1, "law", None), During(x1, "law", None, 2, None), Plain(j1, "item", 1),
     During(x1, "article", 1, 1, 2), During(x1, "article", 1, 2, None),
     During(j1, "article", None, 1, 2), During(j2, "article", None, 2, None)}
FewRows == {r \in MCMappedRows : r.from = None /\ r.law = None /\ r.num # 2 /\ r.ok}

MCNext ==
    \/ /\ Len(items) < MaxStructure /\ Nodes \subseteq StructureRows
       /\ \E n \in StructureRows : ReadCorpusRow(n)
    \/ /\ Nodes \subseteq TemporalRows /\ crosswalk = <<>>
       /\ \E n \in TemporalRows : ReadCorpusRow(n)
    \/ items = Linked /\ \E x \in MCLinks : ReadCrosswalkRow(x)
    \/ \E o \in MCObjects, up \in {0} \cup Indices :
          /\ doc = <<>> => o \in LawObjects
          /\ file.format = "json"
          /\ Len(doc) = 3 => /\ file.from = None /\ o \in FewObjects
                            /\ \A i \in Indices : \E f \in FewObjects :
                                  doc[i] = Placed(f, doc[i].up)
          /\ ReadObject(o, up)
    \/ \E r \in MCMappedRows :
          /\ doc = <<>> => r.kind = "law"
          /\ Len(doc) = 3 => ToSet(doc) \cup {r} \subseteq FewRows
          /\ SelectRow(r)
    \/ AdaptJson \/ AdaptMapped \/ Compile

MCSpec == SourceInit /\ [][MCNext]_sourceVars
=============================================================================
