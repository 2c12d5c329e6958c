-------------------------- MODULE CorpusValidation --------------------------
(***************************************************************************)
(* validation.collect_diagnostics on a corpus that a caller reads row by   *)
(* row: a sequence of node versions, several of which may be versions of   *)
(* one node.  The diagnostics are computed as the code computes them, from *)
(* adjacent versions, one parent version at a time and a walk up the first *)
(* versions; what they are for is stated apart, on graphs and dates.       *)
(*                                                                         *)
(* Simplifications: a row carries what these rules read; a locator, its    *)
(* node_id and the law_id that it fixes are one model value; text, heading,*)
(* label, attributes and the promulgation and repeal dates, which only     *)
(* enter the version_id, are one "wording"; ordinal and branch are one     *)
(* "number".  The rules on the fields of a single row are left out: most   *)
(* repeat what the constructors of LegalNode, Temporal, SourceRef and      *)
(* LegacyCrosswalk refuse, and the rows here satisfy the others            *)
(* (LOCATOR_GRAMMAR, NUL_FORBIDDEN).  Diagnostics are not sorted, their    *)
(* details left out.                                                       *)
(***************************************************************************)
EXTENDS Integers, FiniteSets, SequencesExt, Graphs

CONSTANTS Ids,      \* node_ids
          Laws,     \* law_ids
          LawOf(_), \* the law_id hashed into a node_id
          Rows,     \* the node versions that may be read
          MaxRows,  \* bound on the length of the corpus
          Links,    \* the crosswalk rows that may be read
          MaxLinks, \* bound on the length of the crosswalk
          MaxDate,  \* dates are 1..MaxDate
          None      \* no parent, no date

Dates == 1..MaxDate
Kinds == {"law", "preamble", "main_provision", "part", "chapter", "section",
          "subsection", "division", "article", "paragraph", "item", "subitem",
          "appendix", "supplementary_provision", "amendment_provision",
          "table", "row", "cell"}

(* What LegalNode and Temporal let a caller build.                         *)
LegalNode(n) ==
    /\ n.id \in Ids /\ n.parent \in Ids \cup {None}
    /\ n.kind \in Kinds /\ n.depth \in Nat
    /\ n.from \in Dates \cup {None} /\ n.to \in Dates \cup {None}
    /\ n.from # None /\ n.to # None => n.from < n.to

(* What LegacyCrosswalk lets a caller build; "reason" is whether one is    *)
(* given.                                                                  *)
LegacyCrosswalk(x) ==
    /\ x.relation \in {"exact", "derived", "ambiguous"}
    /\ x.reason \in BOOLEAN

ASSUME CorpusAssumption ==
    /\ MaxRows \in Nat /\ MaxLinks \in Nat /\ MaxDate \in Nat
    /\ None \notin Ids \cup Dates \cup Rows
    /\ \A n \in Rows : LegalNode(n) /\ LawOf(n.id) \in Laws
    /\ \A x \in Links : LegacyCrosswalk(x)

VARIABLES items,     \* the list of nodes, in the order read
          crosswalk  \* the list of crosswalk rows, in the order read

Nodes == ToSet(items)
Versions(id) == {n \in Nodes : n.id = id}
Present == {n.id : n \in Nodes}
Parents(n) == Versions(n.parent)
Children == {n \in Nodes : n.parent # None}

(* _ALLOWED                                                                *)
Divisions == {"part", "chapter", "section", "subsection", "division", "article"}
Allowed == [
    law         |-> Divisions \cup {"preamble", "main_provision", "appendix",
                                    "supplementary_provision", "table"},
    preamble    |-> {"paragraph"},
    main_provision |-> Divisions \cup {"paragraph", "appendix", "table"},
    part        |-> Divisions \ {"part"},
    chapter     |-> Divisions \ {"part", "chapter"},
    section     |-> {"subsection", "division", "article"},
    subsection  |-> {"division", "article"},
    division    |-> {"article"},
    article     |-> {"paragraph", "item", "table"},
    paragraph   |-> {"item", "table", "amendment_provision"},
    item        |-> {"subitem", "table"},
    subitem     |-> {"subitem", "table"},
    appendix    |-> {"table", "row", "cell"},
    supplementary_provision |-> {"chapter", "article", "paragraph", "item",
                                 "subitem", "appendix", "table"},
    amendment_provision |-> {},
    table       |-> {"row"}, row |-> {"cell"}, cell |-> {}]

----------------------------------------------------------------------------
(* Rules on one node_id                                                    *)
VersionId(n) == <<n.id, n.from, n.to, n.wording>>
Duplicated == {n \in Nodes : \E i, j \in DOMAIN items :
                  i # j /\ items[i] = n /\ VersionId(items[j]) = VersionId(n)}

(* The sort key (valid_from is not None, valid_from or "")                 *)
Key(n) == IF n.from = None THEN 0 ELSE n.from

(* Mutants: dates are not compared; adjacent windows clash.                *)
ClashOpenOnly(l, r) == l.to = None \/ r.from = None
ClashAdjacent(l, r) == l.to = None \/ r.from = None \/ r.from <= l.to

Clash(l, r) == l.to = None \/ r.from = None \/ r.from < l.to

(* Neighbours in the sorted list.  Rows with equal keys clash whichever    *)
(* comes first, since a window is not empty.                               *)
Neighbours(l, r) == /\ l # r /\ l.id = r.id
                    /\ Key(l) <= Key(r)
                    /\ ~\E m \in Versions(l.id) : Key(l) < Key(m) /\ Key(m) < Key(r)

Overlapping == Duplicated \cup
    {l \in Nodes : \E r \in Nodes : Neighbours(l, r) /\ Clash(l, r)}

Drifting == {n \in Nodes : \E m \in Versions(n.id) :
    <<m.parent, m.kind, m.number>> # <<n.parent, n.kind, n.number>>}

----------------------------------------------------------------------------
(* Rules on a node and its parents: each asks for some parent version      *)
Orphans == {n \in Children : Parents(n) = {}}
Raised  == Children \ Orphans

(* _contains                                                               *)
WindowContains(p, n) ==
    /\ p.from = None \/ (n.from # None /\ p.from <= n.from)
    /\ p.to = None \/ (n.to # None /\ n.to <= p.to)

(* Mutant: the depth is only required to be positive.                      *)
WrongDepthPositiveOnly == {n \in Children : n.depth <= 0}

WrongDepth == {n \in Children : n.depth <= 0} \cup
              {n \in Raised : ~\E p \in Parents(n) : p.depth + 1 = n.depth}
WrongLaw   == {n \in Raised : ~\E p \in Parents(n) : LawOf(p.id) = LawOf(n.id)}
WrongKind  == {n \in Raised : ~\E p \in Parents(n) : n.kind \in Allowed[p.kind]}
Uncovered  == {n \in Raised : ~\E p \in Parents(n) : WindowContains(p, n)}

RootRows == Nodes \ Children
WrongRootCount ==
    {law \in {LawOf(id) : id \in Present} :
        Cardinality({n.id : n \in {r \in RootRows : LawOf(r.id) = law}}) # 1}

(* parents[0], after the stable sort by Key                                *)
First(id) ==
    LET at == {i \in DOMAIN items : items[i].id = id}
    IN  items[CHOOSE i \in at : \A j \in at :
                 \/ Key(items[i]) < Key(items[j])
                 \/ Key(items[i]) = Key(items[j]) /\ i <= j]

(* The walk up from n: n, the first version of its parent, ...; nothing    *)
(* past a root or a missing parent.                                        *)
Walk(n) ==
    LET up[k \in 0..Len(items)] ==
            IF k = 0 THEN {n}
            ELSE {First(m.parent) : m \in {b \in up[k - 1] : b.parent \in Present}}
    IN  up

(* "if current.node_id in seen", tested only below a root                  *)
OnCycle(n) == LET up == Walk(n) IN
    \E j, k \in DOMAIN up : j < k /\ \E a \in up[j], b \in up[k] :
        b.parent # None /\ a.id = b.id
Unreachable(n) ==
    OnCycle(n) \/ LET up == Walk(n) IN
                  ~\E k \in DOMAIN up : \E m \in up[k] : m.parent = None

----------------------------------------------------------------------------
(* Rules on the crosswalk                                                  *)
Entries == ToSet(crosswalk)
EntriesOf(legacy) == {i \in DOMAIN crosswalk : crosswalk[i].legacy = legacy}

(* targets.get(target_version_id): the last node of that version           *)
Target(x) ==
    LET at == {i \in DOMAIN items : VersionId(items[i]) = x.version}
    IN  IF at = {} THEN None ELSE items[CHOOSE i \in at : \A j \in at : j <= i]

Mistargeted == {x \in Entries : Target(x) = None \/ Target(x).id # x.node}
OtherSource == {x \in Entries \ Mistargeted : Target(x).source # x.source}

RepeatedTarget == {x \in Entries : \E i, j \in EntriesOf(x.legacy) :
    i # j /\ crosswalk[i] = x /\ crosswalk[j].version = x.version}

Undecided(x) == x.relation = "ambiguous" /\ x.reason

(* Mutant: one ambiguous row makes up for the others.                      *)
AgainstRepetitionAny == {x \in Entries :
    /\ Cardinality(EntriesOf(x.legacy)) > 1
    /\ ~\E i \in EntriesOf(x.legacy) : Undecided(crosswalk[i])}

AgainstRepetition == {x \in Entries :
    /\ Cardinality(EntriesOf(x.legacy)) > 1
    /\ \/ \E i \in EntriesOf(x.legacy) : ~Undecided(crosswalk[i])
       \/ \E i, j \in EntriesOf(x.legacy) :
              i # j /\ crosswalk[i].version = crosswalk[j].version}

CrosswalkCode(code, rows) == {<<code, x.legacy>> : x \in rows}

CrosswalkDiagnostics == UNION {
    CrosswalkCode("CROSSWALK_DUPLICATE_TARGET", RepeatedTarget),
    CrosswalkCode("CROSSWALK_TARGET", Mistargeted),
    CrosswalkCode("CROSSWALK_SOURCE_MISMATCH", OtherSource),
    CrosswalkCode("CROSSWALK_AMBIGUOUS_REASON",
        {x \in Entries : x.relation = "ambiguous" /\ ~x.reason}),
    CrosswalkCode("CROSSWALK_EXACT_REASON",
        {x \in Entries : x.relation = "exact" /\ x.reason}),
    CrosswalkCode("CROSSWALK_REPEATED_POLICY", AgainstRepetition) }

----------------------------------------------------------------------------
Code(code, nodes) == {<<code, n.id>> : n \in nodes}

Diagnostics == UNION {
    IF items = <<>> THEN {<<"CORPUS_EMPTY", "corpus">>} ELSE {},
    Code("DUPLICATE_VERSION", Duplicated),
    Code("ROOT_KIND", {n \in RootRows : n.kind # "law"}),
    Code("ROOT_DEPTH", {n \in RootRows : n.depth # 0}),
    Code("PARENT_DEPTH", WrongDepth),
    Code("TEMPORAL_OVERLAP", Overlapping),
    Code("SEMANTIC_IDENTITY_DRIFT", Drifting),
    Code("PARENT_MISSING", Orphans),
    Code("PARENT_LAW", WrongLaw),
    Code("KIND_TRANSITION", WrongKind),
    Code("PARENT_TEMPORAL", Uncovered),
    {<<"LAW_ROOT_COUNT", law>> : law \in WrongRootCount},
    Code("TREE_CYCLE", {n \in Nodes : OnCycle(n)}),
    Code("TREE_UNREACHABLE", {n \in Nodes : Unreachable(n)}),
    CrosswalkDiagnostics }

(* validate_corpus raises exactly when there is a diagnostic.              *)
Accepted == Diagnostics = {}

----------------------------------------------------------------------------
Init == items = <<>> /\ crosswalk = <<>>

(* read_jsonl appends the node of the next line.                           *)
ReadRow(n) ==
    /\ Len(items) < MaxRows
    /\ items' = Append(items, n) /\ UNCHANGED crosswalk

(* read_crosswalk_jsonl appends the row of the next line.                  *)
ReadLink(x) ==
    /\ Len(crosswalk) < MaxLinks
    /\ crosswalk' = Append(crosswalk, x) /\ UNCHANGED items

Next == (\E n \in Rows : ReadRow(n)) \/ (\E x \in Links : ReadLink(x))

Spec == Init /\ [][Next]_<<items, crosswalk>>

----------------------------------------------------------------------------
(* What the rules are for, on the graph of the node_ids of a law           *)
Graph(law) ==
    [node |-> {id \in Present : LawOf(id) = law},
     edge |-> {<<n.id, n.parent>> : n \in {m \in Children : LawOf(m.id) = law}}]

(* A node and all that lie above it: what is in every set of nodes that    *)
(* has the node and, with a node, has those that its edges lead to.        *)
Above(G, id) ==
    {a \in G.node : \A S \in SUBSET G.node :
        id \in S /\ (\A e \in G.edge : e[1] \in S => e[2] \in S) => a \in S}

(* The graph is a tree with edges towards a law node, and every version of *)
(* a node lies as many edges below it as its depth says.                   *)
TreeOfLaw(law) ==
    LET G == Graph(law) IN
    /\ IsDirectedGraph(G)
    /\ \A e, f \in G.edge : e[1] = f[1] => e = f
    /\ \E r \in G.node : \A id \in G.node :
          /\ r \in Above(G, id)
          /\ \A n \in Versions(id) :
                /\ n.parent = None <=> id = r
                /\ id = r => n.kind = "law"
                /\ n.depth = Cardinality(Above(G, id)) - 1

Forest == Present # {} /\ \A id \in Present : TreeOfLaw(LawOf(id))

InForce(n, t) == /\ n.from = None \/ n.from <= t
                 /\ n.to = None \/ t < n.to
Window(n) == {t \in 0..MaxDate : InForce(n, t)}

OneVersionAtATime ==
    \A i, j \in DOMAIN items :
        i # j /\ items[i].id = items[j].id =>
            Window(items[i]) \cap Window(items[j]) = {}

Covered == \A n \in Children : \E p \in Parents(n) : Window(n) \subseteq Window(p)

Stable == \A id \in Present : \A m, n \in Versions(id) :
              m.kind = n.kind /\ m.number = n.number

Permitted == \A n \in Children : \A p \in Parents(n) : n.kind \in Allowed[p.kind]

(* A legacy id leads to one version, or it is said, with reasons, to be    *)
(* undecided between several; either way to nodes and sources of this      *)
(* corpus.  Only an exact answer goes without saying.                      *)
Resolves(legacy) ==
    LET at == EntriesOf(legacy)
        said == {crosswalk[i] : i \in at}
    IN  /\ Cardinality({x.version : x \in said}) = Cardinality(at)
        /\ \A x \in said :
              /\ \E n \in Nodes : /\ VersionId(n) = x.version /\ n.id = x.node
                                 /\ n.source = x.source
              /\ x.relation = "exact" => ~x.reason /\ Cardinality(at) = 1
              /\ x.relation = "derived" => Cardinality(at) = 1
              /\ x.relation = "ambiguous" => x.reason

----------------------------------------------------------------------------
(* An accepted corpus is a forest with one tree per law, of the depths     *)
(* that its rows state.  The rules look at one parent version at a time    *)
(* and the walk follows first versions only; no rule compares the depths   *)
(* of two versions of a node.                                              *)
AcceptedIsForest == Accepted => Forest

(* At every date an accepted corpus shows at most one version of a node,   *)
(* and never a node without its parent: what was in force on that day is   *)
(* one text per law.  The overlap rule compares neighbours only.           *)
AcceptedAtEveryDate ==
    Accepted => /\ OneVersionAtATime
                /\ \A t \in 0..MaxDate : \A n \in Children : InForce(n, t) =>
                      \E p \in Parents(n) : InForce(p, t)

(* An accepted crosswalk gives every legacy id one answer or an openly     *)
(* undecided one, and never a version that this corpus, from this source,  *)
(* does not have.  The rules look at rows one by one and at repetitions.   *)
AcceptedResolves == Accepted => \A x \in Entries : Resolves(x.legacy)

(* Nothing else is refused: a forest of stable nodes in permitted places,  *)
(* with windows that do not overlap and that a parent version covers, and  *)
(* a crosswalk that resolves, have no diagnostics, in whatever order the   *)
(* rows are read.                                                          *)
WellFormedIsAccepted ==
    /\ Forest /\ OneVersionAtATime /\ Covered /\ Stable /\ Permitted
    /\ \A x \in Entries : Resolves(x.legacy)
    => Accepted
=============================================================================
