----------------------- MODULE CorpusValidationProofs -----------------------
(***************************************************************************)
(* The validator is right about corpora and crosswalks of any length: what *)
(* it accepts is a forest in which every date has one text per law, and it *)
(* refuses nothing else.                                                   *)
(***************************************************************************)
EXTENDS CorpusValidation, FiniteSetTheorems, WellFoundedInduction, TLAPS

(* Rows were built by LegalNode and LegacyCrosswalk; a missing target is   *)
(* told from a row.                                                        *)
TypeInv ==
    /\ items \in Seq(Nodes) /\ \A n \in Nodes : LegalNode(n)
    /\ crosswalk \in Seq(Entries) /\ \A x \in Entries : LegacyCrosswalk(x)
    /\ Entries # {} => None \notin Nodes

----------------------------------------------------------------------------
(* Numbers and finite sets                                                 *)

LEMMA LeastElement ==
    ASSUME NEW S, S \subseteq Nat, S # {}
    PROVE  \E m \in S : \A k \in S : m <= k
<1>1. PICK m \in S : \A k \in S : ~(<<k, m>> \in OpToRel(<, Nat))
  BY NatLessThanWellFounded, WFMin
<1>2. \A k \in S : ~(k < m)
  BY <1>1 DEF OpToRel
<1> QED BY <1>2

LEMMA GreatestElement ==
    ASSUME NEW n \in Nat, NEW S, S \subseteq 1..n, S # {}
    PROVE  \E m \in S : \A k \in S : k <= m
<1> DEFINE Rest == {r \in Nat : n - r \in S}
<1>1. Rest # {}
  <2>1. PICK k \in S : TRUE
    OBVIOUS
  <2>2. n - k \in Nat /\ n - (n - k) = k
    BY <2>1
  <2> QED BY <2>1, <2>2
<1>2. PICK r \in Rest : \A k \in Rest : r <= k
  BY <1>1, LeastElement
<1>3. ASSUME NEW k \in S PROVE k <= n - r
  <2>1. n - k \in Rest /\ k \in Nat
    OBVIOUS
  <2> QED BY <1>2, <2>1
<1> QED BY <1>2, <1>3

LEMMA Interval == \A n \in Nat : IsFiniteSet(1..n) /\ Cardinality(1..n) = n
<1> SUFFICES ASSUME NEW n \in Nat
             PROVE  IsFiniteSet(1..n) /\ Cardinality(1..n) = n
  OBVIOUS
<1>1. /\ IsFiniteSet(1..n)
      /\ Cardinality(1..n) = IF 1 > n THEN 0 ELSE n - 1 + 1
  BY FS_Interval
<1> QED BY <1>1

LEMMA ItemsList ==
    TypeInv => /\ Len(items) \in Nat /\ DOMAIN items = 1..Len(items)
               /\ Nodes = {items[i] : i \in 1..Len(items)}
               /\ \A n \in Nodes : LegalNode(n)
               /\ items # <<>> => Nodes # {}
BY DEF TypeInv, Nodes, ToSet

LEMMA NodesFinite ==
    TypeInv => IsFiniteSet(Nodes) /\ Cardinality(Nodes) <= Len(items)
<1> SUFFICES ASSUME TypeInv
             PROVE  IsFiniteSet(Nodes) /\ Cardinality(Nodes) <= Len(items)
  OBVIOUS
<1>1. Len(items) \in Nat /\ Nodes = {items[i] : i \in 1..Len(items)}
  BY ItemsList
<1> DEFINE f == [i \in 1..Len(items) |-> items[i]]
<1>2. f \in Surjection(1..Len(items), Nodes)
  BY <1>1 DEF Surjection
<1>3. IsFiniteSet(1..Len(items)) /\ Cardinality(1..Len(items)) = Len(items)
  BY <1>1, Interval
<1> QED BY <1>2, <1>3, FS_Surjection

LEMMA PresentFinite ==
    TypeInv => IsFiniteSet(Present) /\ Cardinality(Present) <= Len(items)
<1> SUFFICES ASSUME TypeInv
             PROVE  IsFiniteSet(Present) /\ Cardinality(Present) <= Len(items)
  OBVIOUS
<1> DEFINE f == [n \in Nodes |-> n.id]
<1>1. f \in Surjection(Nodes, Present)
  BY DEF Surjection, Present
<1>2. IsFiniteSet(Present) /\ Cardinality(Present) <= Cardinality(Nodes)
  BY <1>1, NodesFinite, FS_Surjection
<1>3. Cardinality(Present) \in Nat /\ Cardinality(Nodes) \in Nat /\ Len(items) \in Nat
  BY <1>2, NodesFinite, ItemsList, FS_CardinalityType
<1> QED BY <1>2, <1>3, NodesFinite

----------------------------------------------------------------------------
(* What a corpus without diagnostics is without                            *)
LocalRules ==
    /\ items # <<>>
    /\ Duplicated = {} /\ Overlapping = {} /\ Drifting = {}
    /\ \A n \in RootRows : n.kind = "law" /\ n.depth = 0
    /\ WrongDepth = {} /\ Orphans = {} /\ WrongLaw = {} /\ WrongKind = {}
    /\ Uncovered = {} /\ WrongRootCount = {}

NoIssueOfRows == LocalRules /\ \A n \in Nodes : ~OnCycle(n) /\ ~Unreachable(n)

NoIssueOfLinks ==
    /\ RepeatedTarget = {} /\ Mistargeted = {} /\ OtherSource = {}
    /\ AgainstRepetition = {}
    /\ \A x \in Entries : /\ x.relation = "ambiguous" => x.reason
                          /\ x.relation = "exact" => ~x.reason

LEMMA EmptyUnion == \A F : UNION F = {} <=> \A S \in F : S = {}
OBVIOUS

LEMMA NoCode == \A code, nodes : Code(code, nodes) = {} <=> nodes = {}
BY DEF Code
LEMMA NoCrosswalkCode == \A code, rows : CrosswalkCode(code, rows) = {} <=> rows = {}
BY DEF CrosswalkCode

LEMMA AcceptedLinks == CrosswalkDiagnostics = {} <=> NoIssueOfLinks
<1> DEFINE A == {x \in Entries : x.relation = "ambiguous" /\ ~x.reason}
           E == {x \in Entries : x.relation = "exact" /\ x.reason}
<1> DEFINE Sets == {
        CrosswalkCode("CROSSWALK_DUPLICATE_TARGET", RepeatedTarget),
        CrosswalkCode("CROSSWALK_TARGET", Mistargeted),
        CrosswalkCode("CROSSWALK_SOURCE_MISMATCH", OtherSource),
        CrosswalkCode("CROSSWALK_AMBIGUOUS_REASON", A),
        CrosswalkCode("CROSSWALK_EXACT_REASON", E),
        CrosswalkCode("CROSSWALK_REPEATED_POLICY", AgainstRepetition) }
<1>1. CrosswalkDiagnostics = UNION Sets
  BY DEF CrosswalkDiagnostics
<1> HIDE DEF A, E
<1>2. (\A S \in Sets : S = {}) <=>
        /\ CrosswalkCode("CROSSWALK_DUPLICATE_TARGET", RepeatedTarget) = {}
        /\ CrosswalkCode("CROSSWALK_TARGET", Mistargeted) = {}
        /\ CrosswalkCode("CROSSWALK_SOURCE_MISMATCH", OtherSource) = {}
        /\ CrosswalkCode("CROSSWALK_AMBIGUOUS_REASON", A) = {}
        /\ CrosswalkCode("CROSSWALK_EXACT_REASON", E) = {}
        /\ CrosswalkCode("CROSSWALK_REPEATED_POLICY", AgainstRepetition) = {}
  OBVIOUS
<1> HIDE DEF Sets
<1>3. CrosswalkDiagnostics = {} <=> \A S \in Sets : S = {}
  BY <1>1, EmptyUnion
<1>4. CrosswalkDiagnostics = {} <=>
        /\ RepeatedTarget = {} /\ Mistargeted = {} /\ OtherSource = {}
        /\ A = {} /\ E = {} /\ AgainstRepetition = {}
  BY <1>2, <1>3, NoCrosswalkCode
<1> QED BY <1>4 DEF NoIssueOfLinks, A, E

LEMMA AcceptedRows == Accepted <=> NoIssueOfRows /\ NoIssueOfLinks
<1> DEFINE NoRows == IF items = <<>> THEN {<<"CORPUS_EMPTY", "corpus">>} ELSE {}
           NoLaws == {n \in RootRows : n.kind # "law"}
           Deep == {n \in RootRows : n.depth # 0}
           Counts == {<<"LAW_ROOT_COUNT", law>> : law \in WrongRootCount}
           Cycles == {n \in Nodes : OnCycle(n)}
           Lost == {n \in Nodes : Unreachable(n)}
<1> DEFINE Sets == {
        NoRows, Code("DUPLICATE_VERSION", Duplicated), Code("ROOT_KIND", NoLaws),
        Code("ROOT_DEPTH", Deep), Code("PARENT_DEPTH", WrongDepth),
        Code("TEMPORAL_OVERLAP", Overlapping),
        Code("SEMANTIC_IDENTITY_DRIFT", Drifting), Code("PARENT_MISSING", Orphans),
        Code("PARENT_LAW", WrongLaw), Code("KIND_TRANSITION", WrongKind),
        Code("PARENT_TEMPORAL", Uncovered), Counts, Code("TREE_CYCLE", Cycles),
        Code("TREE_UNREACHABLE", Lost), CrosswalkDiagnostics }
<1>1. Diagnostics = UNION Sets
  BY DEF Diagnostics
<1>2. /\ NoRows = {} <=> items # <<>>
      /\ NoLaws = {} /\ Deep = {} <=> \A n \in RootRows : n.kind = "law" /\ n.depth = 0
      /\ Counts = {} <=> WrongRootCount = {}
      /\ Cycles = {} /\ Lost = {} <=> \A n \in Nodes : ~OnCycle(n) /\ ~Unreachable(n)
  OBVIOUS
<1> HIDE DEF NoRows, NoLaws, Deep, Counts, Cycles, Lost
<1>3. (\A S \in Sets : S = {}) <=>
        /\ NoRows = {}
        /\ Code("DUPLICATE_VERSION", Duplicated) = {}
        /\ Code("ROOT_KIND", NoLaws) = {}
        /\ Code("ROOT_DEPTH", Deep) = {}
        /\ Code("PARENT_DEPTH", WrongDepth) = {}
        /\ Code("TEMPORAL_OVERLAP", Overlapping) = {}
        /\ Code("SEMANTIC_IDENTITY_DRIFT", Drifting) = {}
        /\ Code("PARENT_MISSING", Orphans) = {}
        /\ Code("PARENT_LAW", WrongLaw) = {}
        /\ Code("KIND_TRANSITION", WrongKind) = {}
        /\ Code("PARENT_TEMPORAL", Uncovered) = {}
        /\ Counts = {}
        /\ Code("TREE_CYCLE", Cycles) = {}
        /\ Code("TREE_UNREACHABLE", Lost) = {}
        /\ CrosswalkDiagnostics = {}
  OBVIOUS
<1> HIDE DEF Sets
<1>4. Accepted <=> \A S \in Sets : S = {}
  BY <1>1, EmptyUnion DEF Accepted
<1>5. Accepted <=>
        /\ NoRows = {} /\ Duplicated = {} /\ NoLaws = {} /\ Deep = {}
        /\ WrongDepth = {} /\ Overlapping = {} /\ Drifting = {} /\ Orphans = {}
        /\ WrongLaw = {} /\ WrongKind = {} /\ Uncovered = {} /\ Counts = {}
        /\ Cycles = {} /\ Lost = {} /\ CrosswalkDiagnostics = {}
  BY <1>3, <1>4, NoCode
<1> QED BY <1>2, <1>5, AcceptedLinks DEF NoIssueOfRows, LocalRules

----------------------------------------------------------------------------
(* What lies above a node of a graph whose nodes have one edge at most     *)

LEMMA AboveIsLeast ==
    ASSUME NEW G, NEW id \in G.node, NEW S \in SUBSET G.node, id \in S,
           \A e \in G.edge : e[1] \in S => e[2] \in S
    PROVE  Above(G, id) \subseteq S
BY DEF Above

LEMMA AboveRoot ==
    ASSUME NEW G, NEW r \in G.node, \A e \in G.edge : e[1] # r
    PROVE  Above(G, r) = {r}
BY DEF Above

LEMMA AboveChild ==
    ASSUME NEW G, IsDirectedGraph(G), NEW e \in G.edge,
           \A f \in G.edge : e[1] = f[1] => e = f
    PROVE  Above(G, e[1]) = {e[1]} \cup Above(G, e[2])
<1>1. e[1] \in G.node /\ e[2] \in G.node
  BY DEF IsDirectedGraph
<1>2. e[1] \in Above(G, e[1]) /\ Above(G, e[2]) \subseteq Above(G, e[1])
  BY <1>1 DEF Above
<1>3. ASSUME NEW a \in Above(G, e[1]), a # e[1] PROVE a \in Above(G, e[2])
  <2>1. ASSUME NEW S \in SUBSET G.node, e[2] \in S,
               \A f \in G.edge : f[1] \in S => f[2] \in S
        PROVE  a \in S
    <3>1. S \cup {e[1]} \in SUBSET G.node
      BY <1>1
    <3>2. \A f \in G.edge : f[1] \in S \cup {e[1]} => f[2] \in S \cup {e[1]}
      BY <2>1
    <3> QED BY <1>3, <3>1, <3>2 DEF Above
  <2> QED BY <1>3, <2>1 DEF Above
<1> QED BY <1>2, <1>3

----------------------------------------------------------------------------
(* An accepted corpus is a forest.  Each version of a node lies one level  *)
(* below some version of its parent, so the least depth among the versions *)
(* falls from each node to its parent: this excludes cycles.               *)
IsLevel(id, d) == /\ d \in Nat
                  /\ \E n \in Versions(id) : n.depth = d
                  /\ \A n \in Versions(id) : d <= n.depth
Level(id) == CHOOSE d : IsLevel(id, d)

LEMMA LevelIs == TypeInv => \A id \in Present : IsLevel(id, Level(id))
<1> SUFFICES ASSUME TypeInv, NEW id \in Present PROVE \E d : IsLevel(id, d)
  BY DEF Level
<1> DEFINE S == {n.depth : n \in Versions(id)}
<1>1. S \subseteq Nat /\ S # {}
  BY ItemsList DEF Versions, Present, LegalNode
<1>2. PICK d \in S : \A k \in S : d <= k
  BY <1>1, LeastElement
<1> QED BY <1>1, <1>2 DEF IsLevel

LEMMA OneParent ==
    ASSUME LocalRules, NEW m \in Nodes, NEW n \in Nodes, m.id = n.id
    PROVE  m.parent = n.parent /\ m.kind = n.kind /\ m.number = n.number
BY DEF LocalRules, Drifting, Versions

LEMMA ParentVersion ==
    ASSUME LocalRules, NEW n \in Children
    PROVE  \E p \in Nodes : /\ p.id = n.parent /\ p.depth + 1 = n.depth
                            /\ LawOf(p.id) = LawOf(n.id)
<1>1. n \in Raised
  BY DEF LocalRules, Raised
<1>2. /\ \E p \in Parents(n) : p.depth + 1 = n.depth
      /\ \E p \in Parents(n) : LawOf(p.id) = LawOf(n.id)
  BY <1>1 DEF LocalRules, WrongDepth, WrongLaw
<1> QED BY <1>2 DEF Parents, Versions

LEMMA LevelsFall ==
    ASSUME TypeInv, LocalRules, NEW n \in Children
    PROVE  n.parent \in Present /\ Level(n.parent) < Level(n.id)
<1>1. PICK m \in Versions(n.id) : m.depth = Level(n.id)
  BY LevelIs DEF IsLevel, Present, Children
<1>2. m \in Children /\ m.parent = n.parent
  BY <1>1, OneParent DEF Versions, Children
<1>3. PICK p \in Nodes : p.id = m.parent /\ p.depth + 1 = m.depth
  BY <1>2, ParentVersion
<1>4. n.parent \in Present /\ p \in Versions(n.parent)
  BY <1>2, <1>3 DEF Present, Versions
<1>5. Level(n.parent) <= p.depth /\ Level(n.parent) \in Nat
  BY <1>4, LevelIs DEF IsLevel
<1>6. p.depth \in Nat
  BY <1>3, ItemsList DEF LegalNode
<1> QED BY <1>1, <1>3, <1>4, <1>5, <1>6

LEMMA GraphIs ==
    ASSUME TypeInv, LocalRules, NEW law
    PROVE  /\ IsDirectedGraph(Graph(law))
           /\ \A e, f \in Graph(law).edge : e[1] = f[1] => e = f
           /\ \A n \in Children : LawOf(n.id) = law =>
                 /\ <<n.id, n.parent>> \in Graph(law).edge
                 /\ LawOf(n.parent) = law /\ n.parent \in Present
<1> DEFINE G == Graph(law)
<1>1. ASSUME NEW n \in Children, LawOf(n.id) = law
      PROVE  /\ <<n.id, n.parent>> \in G.edge
             /\ LawOf(n.parent) = law /\ n.parent \in Present
             /\ n.id \in G.node /\ n.parent \in G.node
  BY <1>1, ParentVersion DEF Graph, Children, Present
<1>2. \A e \in G.edge : \E n \in Children : LawOf(n.id) = law /\ e = <<n.id, n.parent>>
  BY DEF Graph
<1>3. IsDirectedGraph(G)
  <2>1. G = [node |-> G.node, edge |-> G.edge]
    BY DEF Graph
  <2>2. \A e \in G.edge : e \in G.node \X G.node
    BY <1>1, <1>2
  <2> QED BY <2>1, <2>2 DEF IsDirectedGraph
<1>4. \A e, f \in G.edge : e[1] = f[1] => e = f
  BY <1>2, OneParent DEF Children
<1> QED BY <1>1, <1>3, <1>4

LEMMA OneRoot ==
    ASSUME TypeInv, LocalRules, NEW law \in {LawOf(id) : id \in Present}
    PROVE  \E r \in Present :
              /\ LawOf(r) = law
              /\ \A n \in Nodes : LawOf(n.id) = law => (n.parent = None <=> n.id = r)
              /\ \A n \in Versions(r) : n.kind = "law" /\ n.depth = 0
<1> DEFINE S == {n.id : n \in {m \in RootRows : LawOf(m.id) = law}}
<1>1. Cardinality(S) = 1
  BY DEF LocalRules, WrongRootCount
<1>2. S \subseteq Present
  BY DEF RootRows, Present
<1>3. IsFiniteSet(S)
  BY <1>2, PresentFinite, FS_Subset
<1>4. PICK r : S = {r}
  BY <1>1, <1>3, FS_Singleton
<1>5. PICK q \in RootRows : q.id = r /\ LawOf(q.id) = law
  BY <1>4
<1>6. \A n \in Versions(r) : n \in RootRows
  BY <1>5, OneParent DEF Versions, RootRows, Children
<1>7. \A n \in Nodes : LawOf(n.id) = law /\ n.parent = None => n.id = r
  BY <1>4 DEF RootRows, Children
<1> QED BY <1>2, <1>4, <1>5, <1>6, <1>7 DEF LocalRules, Versions, RootRows, Children

(* Otherwise take a node of the least depth for which this is not so: it   *)
(* is no root, and its parent has a version one level above.               *)
LEMMA DepthsCount ==
    ASSUME TypeInv, LocalRules, NEW law, NEW r \in Graph(law).node,
           \A n \in Nodes : LawOf(n.id) = law => (n.parent = None <=> n.id = r),
           \A n \in Versions(r) : n.depth = 0,
           NEW v \in Nodes, LawOf(v.id) = law
    PROVE  /\ r \in Above(Graph(law), v.id)
           /\ IsFiniteSet(Above(Graph(law), v.id))
           /\ Cardinality(Above(Graph(law), v.id)) = v.depth + 1
<1> DEFINE G == Graph(law)
           Good(n) == /\ r \in Above(G, n.id) /\ IsFiniteSet(Above(G, n.id))
                      /\ Cardinality(Above(G, n.id)) = n.depth + 1
           Bad == {n.depth : n \in {m \in Nodes : LawOf(m.id) = law /\ ~Good(m)}}
<1> SUFFICES ASSUME Bad # {} PROVE FALSE
  OBVIOUS
<1>1. Bad \subseteq Nat
  BY ItemsList DEF LegalNode
<1>2. PICK d \in Bad : \A k \in Bad : d <= k
  <2> HIDE DEF Bad
  <2> QED BY <1>1, LeastElement
<1>3. PICK n \in Nodes : n.depth = d /\ LawOf(n.id) = law /\ ~Good(n)
  OBVIOUS
<1>4. n.id \in G.node
  BY <1>3 DEF Graph, Present
<1>5. CASE n.parent = None
  <2>1. n.id = r /\ n.depth = 0
    BY <1>3, <1>5 DEF Versions
  <2>2. \A e \in G.edge : e[1] # r
    BY DEF Graph, Children
  <2>3. Above(G, n.id) = {r}
    BY <2>1, <2>2, <1>4, AboveRoot
  <2>4. IsFiniteSet({r}) /\ Cardinality({r}) = 1
    BY FS_Singleton
  <2> QED BY <1>3, <2>1, <2>3, <2>4
<1>6. CASE n.parent # None
  <2>1. n \in Children
    BY <1>6 DEF Children
  <2>2. PICK p \in Nodes : p.id = n.parent /\ p.depth + 1 = n.depth
    BY <2>1, ParentVersion
  <2>3. /\ LawOf(p.id) = law /\ p.depth \in Nat /\ p.id \in G.node
        /\ <<n.id, p.id>> \in G.edge
    <3>1. <<n.id, n.parent>> \in Graph(law).edge /\ LawOf(n.parent) = law
      BY <1>3, <2>1, GraphIs
    <3>2. p.id \in G.node
      BY <2>2, <3>1 DEF Graph, Present
    <3>3. p.depth \in Nat
      BY ItemsList DEF LegalNode
    <3> QED BY <2>2, <3>1, <3>2, <3>3
  <2>4. Good(p)
    <3>1. p.depth < d
      BY <1>3, <2>2, <2>3
    <3>2. p.depth \notin Bad
      <4> HIDE DEF Bad
      <4> QED BY <3>1, <2>3, <1>1, <1>2
    <3> QED BY <2>3, <3>2
  <2> HIDE DEF Bad
  <2>5. Above(G, n.id) = Above(G, p.id) \cup {n.id}
    <3> DEFINE e == <<n.id, p.id>>
    <3>1. e \in G.edge /\ e[1] = n.id /\ e[2] = p.id
      BY <2>3
    <3> HIDE DEF e
    <3> QED BY <3>1, AboveChild, GraphIs
  <2>6. n.id \notin Above(G, p.id)
    <3> DEFINE S == {a \in G.node : Level(a) <= Level(p.id)}
    <3>1. Level(p.id) < Level(n.id)
      BY <2>1, <2>2, LevelsFall
    <3>2. \A a \in G.node : Level(a) \in Nat
      BY LevelIs DEF IsLevel, Graph
    <3>3. p.id \in S /\ n.id \notin S
      BY <1>4, <2>3, <3>1, <3>2
    <3>4. ASSUME NEW e \in G.edge, e[1] \in S PROVE e[2] \in S
      <4>1. PICK c \in Children : LawOf(c.id) = law /\ e = <<c.id, c.parent>>
        BY DEF Graph
      <4>2. Level(e[2]) < Level(e[1]) /\ e[2] \in G.node
        BY <4>1, LevelsFall, GraphIs DEF Graph
      <4> QED BY <3>2, <3>4, <4>2, <2>3
    <3>5. Above(G, p.id) \subseteq S
      BY <2>3, <3>3, <3>4, AboveIsLeast
    <3> QED BY <3>3, <3>5
  <2>7. /\ IsFiniteSet(Above(G, n.id))
        /\ Cardinality(Above(G, n.id)) = Cardinality(Above(G, p.id)) + 1
    <3> DEFINE A == Above(G, p.id)
    <3>1. IsFiniteSet(A)
      BY <2>4
    <3> HIDE DEF A
    <3>2. IsFiniteSet(A \cup {n.id}) /\ Cardinality(A \cup {n.id}) =
             IF n.id \in A THEN Cardinality(A) ELSE Cardinality(A) + 1
      BY <3>1, FS_AddElement
    <3> QED BY <3>2, <2>5, <2>6 DEF A
  <2>8. r \in Above(G, n.id) /\ Cardinality(Above(G, p.id)) = p.depth + 1
    BY <2>4, <2>5
  <2>9. Good(n)
    BY <2>2, <2>3, <2>7, <2>8
  <2> QED BY <1>3, <2>9
<1> QED BY <1>5, <1>6

LEMMA ForestOfAccepted == TypeInv /\ LocalRules => Forest
<1> SUFFICES ASSUME TypeInv, LocalRules PROVE Forest
  OBVIOUS
<1>1. Present # {}
  BY ItemsList DEF LocalRules, Present
<1>2. ASSUME NEW id \in Present PROVE TreeOfLaw(LawOf(id))
  <2> DEFINE law == LawOf(id)
             G == Graph(law)
  <2>1. PICK r \in Present :
              /\ LawOf(r) = law
              /\ \A n \in Nodes : LawOf(n.id) = law => (n.parent = None <=> n.id = r)
              /\ \A n \in Versions(r) : n.kind = "law" /\ n.depth = 0
    BY OneRoot
  <2>2. r \in G.node
    BY <2>1 DEF Graph
  <2>3. ASSUME NEW x \in G.node
        PROVE  /\ r \in Above(G, x)
               /\ \A n \in Versions(x) :
                     /\ n.parent = None <=> x = r
                     /\ x = r => n.kind = "law"
                     /\ n.depth = Cardinality(Above(G, x)) - 1
    <3>1. \E n \in Versions(x) : TRUE
      BY DEF Graph, Versions, Present
    <3>2. \A n \in Versions(x) : n \in Nodes /\ n.id = x /\ LawOf(n.id) = law /\ n.depth \in Nat
      BY ItemsList DEF Graph, Versions, LegalNode
    <3>3. \A n \in Versions(x) : /\ r \in Above(G, x)
                                 /\ Cardinality(Above(G, x)) = n.depth + 1
      BY <2>1, <2>2, <3>2, DepthsCount
    <3> QED BY <2>1, <3>1, <3>2, <3>3
  <2> QED BY <2>2, <2>3, GraphIs DEF TreeOfLaw
<1> QED BY <1>1, <1>2 DEF Forest

----------------------------------------------------------------------------
(* Dates: if no two neighbours overlap, no two versions do.                *)

LEMMA KeyIs == TypeInv => \A n \in Nodes : Key(n) \in 0..MaxDate
BY CorpusAssumption, ItemsList DEF LegalNode, Key, Dates

LEMMA WindowNotEmpty ==
    ASSUME TypeInv, NEW n \in Nodes
    PROVE  Key(n) \in Window(n) /\ Key(n) \in 0..MaxDate
BY CorpusAssumption, ItemsList DEF LegalNode, Key, Dates, Window, InForce

(* r has a number for its first day, since l ends before it.               *)
LEMMA NoClashIsDisjoint ==
    ASSUME TypeInv, NEW l \in Nodes, NEW r \in Nodes, ~Clash(l, r)
    PROVE  Window(l) \cap Window(r) = {} /\ l.to <= Key(r) /\ l.to \in Nat
BY CorpusAssumption, ItemsList DEF LegalNode, Key, Dates, Window, InForce, Clash

LEMMA ClashIsCommonDay ==
    ASSUME TypeInv, NEW l \in Nodes, NEW r \in Nodes, Key(l) <= Key(r), Clash(l, r)
    PROVE  Key(r) \in Window(l)
BY CorpusAssumption, ItemsList DEF LegalNode, Key, Dates, Window, InForce, Clash

(* Between two versions that are no neighbours lies one that is the next   *)
(* after the first: the first ends before it, and so before the second.    *)
LEMMA VersionsDisjoint ==
    ASSUME TypeInv, LocalRules, NEW l \in Nodes, NEW r \in Nodes,
           l # r, l.id = r.id, Key(l) <= Key(r)
    PROVE  Window(l) \cap Window(r) = {}
<1>1. CASE Neighbours(l, r)
  BY <1>1, NoClashIsDisjoint DEF LocalRules, Overlapping
<1>2. CASE ~Neighbours(l, r)
  <2> DEFINE S == {Key(m) : m \in {k \in Versions(l.id) : Key(l) < Key(k)}}
  <2>1. PICK m \in Versions(l.id) : Key(l) < Key(m) /\ Key(m) < Key(r)
    BY <1>2 DEF Neighbours
  <2>2. S \subseteq Nat /\ Key(m) \in S
    BY <2>1, KeyIs, CorpusAssumption DEF Versions
  <2>3. PICK d \in S : \A k \in S : d <= k
    <3> HIDE DEF S
    <3> QED BY <2>2, LeastElement
  <2>4. PICK n \in Versions(l.id) : Key(l) < Key(n) /\ d = Key(n)
    OBVIOUS
  <2>5. \A k \in Versions(l.id) : ~(Key(l) < Key(k) /\ Key(k) < Key(n))
    BY <2>3, <2>4, KeyIs, CorpusAssumption DEF Versions
  <2>6. Neighbours(l, n)
    BY <2>4, <2>5, KeyIs, CorpusAssumption DEF Neighbours, Versions
  <2>7. l.to <= Key(n) /\ l.to \in Nat /\ l.to # None
    BY <2>4, <2>6, NoClashIsDisjoint
       DEF LocalRules, Overlapping, Versions, Clash
  <2>8. Key(n) <= Key(m) /\ Key(m) \in Nat /\ Key(r) \in Nat /\ Key(n) \in Nat
    BY <2>2, <2>3, <2>4, <2>1, KeyIs, CorpusAssumption DEF Versions
  <2>9. l.to <= Key(r) /\ r.from = Key(r)
    BY <2>1, <2>7, <2>8 DEF Key
  <2>10. \A t \in Window(l) : t < l.to
    BY <2>7 DEF Window, InForce
  <2>11. \A t \in Window(r) : r.from <= t
    BY <2>1, <2>8, <2>9, CorpusAssumption DEF Window, InForce, Key
  <2>12. \A t \in Window(l) \cup Window(r) : t \in Int
    BY CorpusAssumption DEF Window
  <2> QED BY <2>7, <2>8, <2>9, <2>10, <2>11, <2>12
<1> QED BY <1>1, <1>2

LEMMA OneVersion == TypeInv /\ LocalRules => OneVersionAtATime
<1> SUFFICES ASSUME TypeInv, LocalRules, NEW i \in DOMAIN items,
                    NEW j \in DOMAIN items, i # j, items[i].id = items[j].id
             PROVE  Window(items[i]) \cap Window(items[j]) = {}
  BY DEF OneVersionAtATime
<1>1. items[i] \in Nodes /\ items[j] \in Nodes
  BY ItemsList
<1>2. items[i] # items[j]
  BY <1>1 DEF LocalRules, Duplicated
<1>3. Key(items[i]) \in Int /\ Key(items[j]) \in Int
  BY <1>1, KeyIs, CorpusAssumption
<1>4. Key(items[i]) <= Key(items[j]) \/ Key(items[j]) <= Key(items[i])
  BY <1>3
<1> QED BY <1>1, <1>2, <1>4, VersionsDisjoint

LEMMA ParentInForce ==
    ASSUME TypeInv, LocalRules, NEW n \in Children, NEW t \in 0..MaxDate,
           InForce(n, t)
    PROVE  \E p \in Parents(n) : InForce(p, t)
<1>1. PICK p \in Parents(n) : WindowContains(p, n)
  BY DEF LocalRules, Uncovered, Raised
<1>2. LegalNode(n) /\ LegalNode(p)
  BY ItemsList DEF Children, Parents, Versions
<1> QED BY <1>1, <1>2, CorpusAssumption DEF WindowContains, InForce, LegalNode, Dates

LEMMA DatesOfAccepted == TypeInv => AcceptedAtEveryDate
BY AcceptedRows, OneVersion, ParentInForce DEF AcceptedAtEveryDate, NoIssueOfRows

----------------------------------------------------------------------------
(* The crosswalk                                                           *)

LEMMA EntriesList ==
    TypeInv => /\ Len(crosswalk) \in Nat /\ DOMAIN crosswalk = 1..Len(crosswalk)
               /\ \A i \in DOMAIN crosswalk : crosswalk[i] \in Entries
               /\ \A x \in Entries : LegacyCrosswalk(x) /\ EntriesOf(x.legacy) # {}
               /\ \A legacy : IsFiniteSet(EntriesOf(legacy))
<1> SUFFICES ASSUME TypeInv
             PROVE  /\ Len(crosswalk) \in Nat /\ DOMAIN crosswalk = 1..Len(crosswalk)
                    /\ \A i \in DOMAIN crosswalk : crosswalk[i] \in Entries
                    /\ \A x \in Entries : LegacyCrosswalk(x) /\ EntriesOf(x.legacy) # {}
                    /\ \A legacy : IsFiniteSet(EntriesOf(legacy))
  OBVIOUS
<1>1. /\ Len(crosswalk) \in Nat /\ DOMAIN crosswalk = 1..Len(crosswalk)
      /\ \A i \in DOMAIN crosswalk : crosswalk[i] \in Entries
      /\ \A x \in Entries : LegacyCrosswalk(x) /\ EntriesOf(x.legacy) # {}
  BY DEF TypeInv, Entries, ToSet, EntriesOf
<1>2. ASSUME NEW legacy PROVE IsFiniteSet(EntriesOf(legacy))
  <2>1. IsFiniteSet(1..Len(crosswalk))
    BY <1>1, Interval
  <2>2. EntriesOf(legacy) \in SUBSET (1..Len(crosswalk))
    BY <1>1 DEF EntriesOf
  <2> QED BY <2>1, <2>2, FS_Subset
<1> QED BY <1>1, <1>2

(* The last row of the corpus with that version_id                         *)
LEMMA TargetIs ==
    ASSUME TypeInv, NEW x
    PROVE  /\ Target(x) # None => Target(x) \in Nodes /\ VersionId(Target(x)) = x.version
           /\ (\E n \in Nodes : VersionId(n) = x.version) =>
                 Target(x) \in Nodes /\ VersionId(Target(x)) = x.version
<1> DEFINE at == {i \in DOMAIN items : VersionId(items[i]) = x.version}
<1>1. CASE at = {}
  BY <1>1, ItemsList DEF Target
<1>2. CASE at # {}
  <2>1. at \subseteq 1..Len(items) /\ Len(items) \in Nat
    BY ItemsList
  <2> DEFINE last == CHOOSE i \in at : \A j \in at : j <= i
  <2>2. last \in at
    <3>1. \E i \in at : \A j \in at : j <= i
      <4> HIDE DEF at
      <4> QED BY <1>2, <2>1, GreatestElement
    <3> QED BY <3>1
  <2>3. Target(x) = items[last]
    BY <1>2 DEF Target
  <2> QED BY <2>2, <2>3, ItemsList
<1> QED BY <1>1, <1>2

(* The answers to a legacy id, by the place of their rows                  *)
Answers(legacy) == {x.version : x \in {crosswalk[i] : i \in EntriesOf(legacy)}}
Answer(legacy) == [i \in EntriesOf(legacy) |-> crosswalk[i].version]

LEMMA AnswersCounted ==
    ASSUME TypeInv, NEW legacy
    PROVE  /\ IsFiniteSet(Answers(legacy))
           /\ Cardinality(Answers(legacy)) = Cardinality(EntriesOf(legacy)) <=>
                 \A i, j \in EntriesOf(legacy) :
                    crosswalk[i].version = crosswalk[j].version => i = j
<1> DEFINE E == EntriesOf(legacy)
           A == Answers(legacy)
           f == Answer(legacy)
<1>1. f \in Surjection(E, A)
  BY DEF Surjection, Answer, Answers
<1>2. f \in Injection(E, A) <=>
         \A i, j \in E : crosswalk[i].version = crosswalk[j].version => i = j
  BY <1>1 DEF Surjection, Injection, IsInjective, Answer
<1>3. IsFiniteSet(E)
  BY EntriesList
<1> HIDE DEF E, A, f
<1>4. /\ IsFiniteSet(A)
      /\ Cardinality(A) = Cardinality(E) <=> f \in Injection(E, A)
  BY <1>1, <1>3, FS_Surjection
<1> QED BY <1>2, <1>4 DEF E, A

LEMMA ResolvesOfAccepted == TypeInv => AcceptedResolves
<1> SUFFICES ASSUME TypeInv, NoIssueOfLinks, NEW y \in Entries
             PROVE  Resolves(y.legacy)
  BY AcceptedRows DEF AcceptedResolves
<1> DEFINE legacy == y.legacy
           at == EntriesOf(legacy)
           said == {crosswalk[i] : i \in at}
<1>1. \A x \in said : x \in Entries /\ x.legacy = legacy
  BY EntriesList DEF EntriesOf
<1>2. Cardinality({x.version : x \in said}) = Cardinality(at)
  <2>1. \A i, j \in at : crosswalk[i].version = crosswalk[j].version => i = j
    <3> SUFFICES ASSUME NEW i \in at, NEW j \in at, i # j,
                        crosswalk[i].version = crosswalk[j].version
                 PROVE  FALSE
      OBVIOUS
    <3>1. crosswalk[i] \in Entries /\ crosswalk[i].legacy = legacy
      BY <1>1
    <3>2. crosswalk[i] \in RepeatedTarget
      BY <3>1 DEF RepeatedTarget
    <3> QED BY <3>2 DEF NoIssueOfLinks
  <2> QED BY <2>1, AnswersCounted DEF Answers
<1>3. ASSUME NEW x \in said
      PROVE  \E n \in Nodes : /\ VersionId(n) = x.version /\ n.id = x.node
                              /\ n.source = x.source
  <2>1. Target(x) # None /\ Target(x).id = x.node /\ Target(x).source = x.source
    BY <1>1, <1>3 DEF NoIssueOfLinks, Mistargeted, OtherSource
  <2> QED BY <2>1, TargetIs
<1>4. ASSUME NEW x \in said, x.relation # "ambiguous" PROVE Cardinality(at) = 1
  <2>1. x \in Entries /\ EntriesOf(x.legacy) = at
    BY <1>1, <1>4
  <2>2. \E i \in at : ~Undecided(crosswalk[i])
    BY <1>4 DEF Undecided
  <2>3. ~(Cardinality(at) > 1)
    BY <2>1, <2>2 DEF NoIssueOfLinks, AgainstRepetition
  <2>4. IsFiniteSet(at) /\ at # {}
    BY <2>1, EntriesList
  <2>5. Cardinality(at) \in Nat /\ Cardinality(at) # 0
    <3> HIDE DEF at
    <3> QED BY <2>4, FS_CardinalityType, FS_EmptySet
  <2> QED BY <2>3, <2>5
<1>5. \A x \in said : /\ x.relation = "exact" => ~x.reason
                      /\ x.relation = "ambiguous" => x.reason
  BY <1>1 DEF NoIssueOfLinks
<1> QED BY <1>2, <1>3, <1>4, <1>5 DEF Resolves

----------------------------------------------------------------------------
(* Nothing else is refused.  In a forest no node lies above its parent:    *)
(* else all that lies above it would, the root too.                        *)

LEMMA TreeOf ==
    ASSUME Forest, NEW id \in Present
    PROVE  /\ IsDirectedGraph(Graph(LawOf(id)))
           /\ id \in Graph(LawOf(id)).node
           /\ \A e, f \in Graph(LawOf(id)).edge : e[1] = f[1] => e = f
           /\ \E r \in Graph(LawOf(id)).node : \A x \in Graph(LawOf(id)).node :
                 /\ r \in Above(Graph(LawOf(id)), x)
                 /\ \A n \in Versions(x) :
                       /\ n.parent = None <=> x = r
                       /\ x = r => n.kind = "law"
                       /\ n.depth = Cardinality(Above(Graph(LawOf(id)), x)) - 1
BY DEF Forest, TreeOfLaw, Graph

LEMMA AboveFinite ==
    ASSUME TypeInv, NEW law, NEW id
    PROVE  /\ IsFiniteSet(Above(Graph(law), id))
           /\ Cardinality(Above(Graph(law), id)) \in Nat
           /\ Cardinality(Above(Graph(law), id)) <= Len(items)
<1> DEFINE A == Above(Graph(law), id)
<1>1. A \in SUBSET Present
  BY DEF Above, Graph
<1> HIDE DEF A
<1>2. IsFiniteSet(A) /\ Cardinality(A) <= Cardinality(Present)
  BY <1>1, PresentFinite, FS_Subset
<1>3. Cardinality(A) \in Nat /\ Cardinality(Present) \in Nat
  BY <1>2, PresentFinite, FS_CardinalityType
<1> QED BY <1>2, <1>3, PresentFinite, ItemsList DEF A

LEMMA ParentLiesAbove ==
    ASSUME TypeInv, Forest, NEW n \in Children
    PROVE  /\ n.parent \in Present /\ LawOf(n.parent) = LawOf(n.id)
           /\ \A m \in Versions(n.id) : m.parent = n.parent
           /\ \A p \in Versions(n.parent) : p.depth + 1 = n.depth
<1> DEFINE G == Graph(LawOf(n.id))
           e == <<n.id, n.parent>>
<1>1. n.id \in Present /\ n \in Versions(n.id)
  BY DEF Present, Children, Versions
<1>2. /\ IsDirectedGraph(G) /\ e \in G.edge /\ e[1] = n.id /\ e[2] = n.parent
      /\ \A f, g \in G.edge : f[1] = g[1] => f = g
  BY <1>1, TreeOf DEF Graph
<1>3. PICK r \in G.node : \A x \in G.node :
        /\ r \in Above(G, x)
        /\ \A m \in Versions(x) : /\ m.parent = None <=> x = r
                                  /\ m.depth = Cardinality(Above(G, x)) - 1
  BY <1>1, TreeOf
<1>4. n.id \in G.node /\ n.parent \in G.node
  BY <1>2 DEF IsDirectedGraph
<1>5. n.parent \in Present /\ LawOf(n.parent) = LawOf(n.id)
  BY <1>4 DEF Graph
<1>6. ASSUME NEW m \in Versions(n.id) PROVE m.parent = n.parent
  <2>1. m.parent # None
    BY <1>1, <1>3, <1>4 DEF Children
  <2>2. <<m.id, m.parent>> \in G.edge /\ m.id = n.id
    BY <2>1 DEF Graph, Children, Versions
  <2> QED BY <1>2, <2>2
<1> HIDE DEF e
<1>7. Above(G, n.id) = {n.id} \cup Above(G, n.parent)
  BY <1>2, AboveChild
<1>8. n.id \notin Above(G, n.parent)
  <2> SUFFICES ASSUME n.id \in Above(G, n.parent) PROVE FALSE
    OBVIOUS
  <2> DEFINE S == {x \in G.node : n.id \in Above(G, x)}
  <2>1. n.id \in S /\ S \in SUBSET G.node
    BY <1>4, <1>7
  <2>2. ASSUME NEW f \in G.edge, f[1] \in S PROVE f[2] \in S
    <3>1. f[2] \in G.node
      BY <1>2 DEF IsDirectedGraph
    <3>2. CASE f[1] = n.id
      BY <1>2, <3>1, <3>2
    <3>3. CASE f[1] # n.id
      <4>1. Above(G, f[1]) = {f[1]} \cup Above(G, f[2])
        BY <1>2, AboveChild
      <4> QED BY <2>2, <3>1, <3>3, <4>1
    <3> QED BY <3>2, <3>3
  <2>3. Above(G, n.id) \subseteq S
    <3> HIDE DEF S
    <3> QED BY <1>4, <2>1, <2>2, AboveIsLeast
  <2>4. n.id \in Above(G, r)
    BY <1>3, <1>4, <2>3
  <2>5. \A f \in G.edge : f[1] # r
    BY <1>3 DEF Graph, Children, Versions
  <2>6. Above(G, r) = {r}
    BY <2>5, AboveRoot
  <2> QED BY <1>1, <1>3, <1>4, <2>4, <2>6 DEF Children
<1>9. Cardinality(Above(G, n.id)) = Cardinality(Above(G, n.parent)) + 1
  <2> DEFINE A == Above(G, n.parent)
  <2>1. IsFiniteSet(A)
    BY AboveFinite
  <2>2. Above(G, n.id) = A \cup {n.id} /\ n.id \notin A
    BY <1>7, <1>8
  <2> HIDE DEF A
  <2>3. Cardinality(A \cup {n.id}) = IF n.id \in A THEN Cardinality(A)
                                     ELSE Cardinality(A) + 1
    BY <2>1, FS_AddElement
  <2> QED BY <2>2, <2>3 DEF A
<1>10. ASSUME NEW p \in Versions(n.parent) PROVE p.depth + 1 = n.depth
  <2>1. /\ p.depth = Cardinality(Above(G, n.parent)) - 1
        /\ n.depth = Cardinality(Above(G, n.id)) - 1
    BY <1>1, <1>3, <1>4
  <2>2. Cardinality(Above(G, n.parent)) \in Nat
    BY AboveFinite
  <2> QED BY <1>9, <2>1, <2>2
<1> QED BY <1>5, <1>6, <1>10

LEMMA DepthsAgree ==
    ASSUME TypeInv, Forest, NEW n \in Nodes
    PROVE  /\ \A m \in Versions(n.id) : m.depth = n.depth
           /\ n.depth < Len(items)
           /\ n.parent = None <=> n.depth = 0
           /\ n.parent = None => n.kind = "law"
<1> DEFINE G == Graph(LawOf(n.id))
<1>1. n.id \in Present /\ n \in Versions(n.id) /\ n.depth \in Nat
  BY ItemsList DEF Present, Versions, LegalNode
<1>2. PICK r \in G.node : \A x \in G.node :
        \A m \in Versions(x) : /\ m.parent = None <=> x = r
                               /\ x = r => m.kind = "law"
                               /\ m.depth = Cardinality(Above(G, x)) - 1
  BY <1>1, TreeOf
<1>3. n.id \in G.node
  BY <1>1, TreeOf
<1>4. /\ Cardinality(Above(G, n.id)) \in Nat /\ Len(items) \in Nat
      /\ Cardinality(Above(G, n.id)) <= Len(items)
  BY AboveFinite, ItemsList
<1>5. n.parent = None => n.depth = 0
  <2> SUFFICES ASSUME n.parent = None PROVE n.depth = 0
    OBVIOUS
  <2>1. n.id = r
    BY <1>1, <1>2, <1>3
  <2>2. ASSUME NEW f \in G.edge PROVE f[1] # r
    <3>1. PICK m \in Children : f = <<m.id, m.parent>>
      BY DEF Graph
    <3>2. m \in Versions(m.id) /\ m.parent # None
      BY DEF Children, Versions
    <3> QED BY <1>2, <3>1, <3>2
  <2>3. Above(G, n.id) = {r}
    BY <2>1, <2>2, AboveRoot
  <2>4. Cardinality({r}) = 1
    BY FS_Singleton
  <2>5. n.depth = Cardinality(Above(G, n.id)) - 1
    BY <1>1, <1>2, <1>3
  <2> QED BY <2>3, <2>4, <2>5
<1>6. n.parent # None => n.depth # 0
  <2> SUFFICES ASSUME n.parent # None PROVE n.depth # 0
    OBVIOUS
  <2>1. n \in Children
    BY DEF Children
  <2>2. PICK p \in Nodes : p.id = n.parent
    BY <2>1, ParentLiesAbove DEF Present
  <2>3. p.depth + 1 = n.depth
    BY <2>1, <2>2, ParentLiesAbove DEF Versions
  <2>4. p.depth \in Nat
    BY <2>2, ItemsList DEF LegalNode
  <2> QED BY <2>3, <2>4
<1>7. \A m \in Versions(n.id) : m.depth = n.depth
  BY <1>1, <1>2, <1>3
<1>8. n.depth < Len(items)
  <2>1. n.depth = Cardinality(Above(G, n.id)) - 1
    BY <1>1, <1>2, <1>3
  <2> QED BY <1>4, <2>1
<1>9. n.parent = None => n.kind = "law"
  BY <1>1, <1>2, <1>3
<1> QED BY <1>5, <1>6, <1>7, <1>8, <1>9

WellFormed == Forest /\ OneVersionAtATime /\ Covered /\ Stable /\ Permitted

LEMMA OneRowPerDay ==
    ASSUME TypeInv, OneVersionAtATime, NEW i \in DOMAIN items, NEW j \in DOMAIN items,
           items[i].id = items[j].id, NEW t \in Window(items[i]), t \in Window(items[j])
    PROVE  i = j
BY DEF OneVersionAtATime

LEMMA FirstDay ==
    ASSUME TypeInv, NEW n \in Nodes
    PROVE  Key(n) \in Window(n)
BY CorpusAssumption, ItemsList DEF LegalNode, Key, Dates, Window, InForce

LEMMA SameVersionSameWindow ==
    ASSUME NEW l, NEW r, VersionId(l) = VersionId(r)
    PROVE  l.id = r.id /\ Key(l) = Key(r) /\ Window(l) = Window(r)
BY DEF VersionId, Key, Window, InForce

LEMMA OneRowPerVersion ==
    ASSUME TypeInv, OneVersionAtATime, NEW i \in DOMAIN items, NEW j \in DOMAIN items,
           VersionId(items[i]) = VersionId(items[j])
    PROVE  i = j
<1>1. items[i] \in Nodes
  BY ItemsList
<1>2. Key(items[i]) \in Window(items[i]) /\ Window(items[i]) = Window(items[j])
  BY <1>1, FirstDay, SameVersionSameWindow
<1> QED BY <1>2, OneRowPerDay, SameVersionSameWindow

LEMMA WindowsDoNotClash ==
    TypeInv /\ OneVersionAtATime => Duplicated = {} /\ Overlapping = {}
<1> SUFFICES ASSUME TypeInv, OneVersionAtATime
             PROVE  Duplicated = {} /\ Overlapping = {}
  OBVIOUS
<1>1. Duplicated = {}
  BY OneRowPerVersion DEF Duplicated
<1>2. ASSUME NEW l \in Nodes, NEW r \in Nodes, Neighbours(l, r) PROVE ~Clash(l, r)
  <2> SUFFICES ASSUME Clash(l, r) PROVE FALSE
    OBVIOUS
  <2>1. PICK i \in DOMAIN items, j \in DOMAIN items : l = items[i] /\ r = items[j]
    BY ItemsList
  <2>2. Key(r) \in Window(l) /\ Key(r) \in Window(r)
    BY <1>2, ClashIsCommonDay, FirstDay DEF Neighbours
  <2>3. i = j
    BY <1>2, <2>1, <2>2, OneRowPerDay DEF Neighbours
  <2> QED BY <1>2, <2>1, <2>3 DEF Neighbours
<1> QED BY <1>1, <1>2 DEF Overlapping

LEMMA ContainsWhatCovers ==
    ASSUME TypeInv, NEW n \in Nodes, NEW p \in Nodes, Window(n) \subseteq Window(p)
    PROVE  WindowContains(p, n)
<1>1. LegalNode(n) /\ LegalNode(p)
  BY ItemsList
<1>2. p.from = None \/ (n.from # None /\ p.from <= n.from)
  <2>1. Key(n) \in Window(p)
    BY FirstDay
  <2> QED BY <1>1, <2>1, CorpusAssumption DEF Window, InForce, Key, LegalNode, Dates
<1>3. CASE p.to # None /\ n.to = None
  <2>1. MaxDate \in Window(n)
    BY <1>1, <1>3, CorpusAssumption DEF Window, InForce, LegalNode, Dates
  <2> QED BY <1>1, <1>3, <2>1, CorpusAssumption DEF Window, InForce, LegalNode, Dates
<1>4. CASE p.to # None /\ n.to # None
  <2>1. n.to - 1 \in Window(n)
    BY <1>1, <1>4, CorpusAssumption DEF Window, InForce, LegalNode, Dates
  <2>2. n.to - 1 < p.to
    BY <1>4, <2>1 DEF Window, InForce
  <2> QED BY <1>1, <1>2, <1>4, <2>2, CorpusAssumption DEF LegalNode, Dates, WindowContains
<1> QED BY <1>2, <1>3, <1>4 DEF WindowContains

LEMMA RowRulesHold ==
    TypeInv /\ WellFormed =>
        /\ items # <<>>
        /\ Duplicated = {} /\ Overlapping = {} /\ Drifting = {}
        /\ \A n \in RootRows : n.kind = "law" /\ n.depth = 0
        /\ WrongDepth = {} /\ Orphans = {} /\ WrongLaw = {} /\ WrongKind = {}
        /\ Uncovered = {}
<1> SUFFICES ASSUME TypeInv, WellFormed
             PROVE  /\ items # <<>>
                    /\ Duplicated = {} /\ Overlapping = {} /\ Drifting = {}
                    /\ \A n \in RootRows : n.kind = "law" /\ n.depth = 0
                    /\ WrongDepth = {} /\ Orphans = {} /\ WrongLaw = {}
                    /\ WrongKind = {} /\ Uncovered = {}
  OBVIOUS
<1>1. items # <<>>
  <2>1. PICK n \in Nodes : TRUE
    BY DEF WellFormed, Forest, Present
  <2> QED BY <2>1, ItemsList
<1>2. Duplicated = {} /\ Overlapping = {}
  BY WindowsDoNotClash DEF WellFormed
<1>3. ASSUME NEW n \in Nodes, NEW m \in Versions(n.id)
      PROVE  m.parent = n.parent /\ m.kind = n.kind /\ m.number = n.number
  <2>1. m \in Nodes /\ m.id = n.id /\ n \in Versions(n.id) /\ n.id \in Present
    BY DEF Versions, Present
  <2>2. n \in Children \/ m \in Children => m.parent = n.parent
    BY <2>1, ParentLiesAbove DEF WellFormed
  <2> QED BY <2>1, <2>2 DEF WellFormed, Stable, Children
<1>4. \A n \in RootRows : n.kind = "law" /\ n.depth = 0
  BY DepthsAgree DEF WellFormed, RootRows, Children
<1>5. ASSUME NEW n \in Children
      PROVE  /\ \E p \in Parents(n) : WindowContains(p, n)
             /\ \A p \in Parents(n) : /\ p.depth + 1 = n.depth
                                      /\ LawOf(p.id) = LawOf(n.id)
                                      /\ n.kind \in Allowed[p.kind]
             /\ n.depth > 0
  <2>1. PICK p \in Parents(n) : Window(n) \subseteq Window(p)
    BY DEF WellFormed, Covered
  <2>2. n \in Nodes /\ p \in Nodes
    BY DEF Parents, Versions, Children
  <2>3. WindowContains(p, n)
    BY <2>1, <2>2, ContainsWhatCovers
  <2>4. \A q \in Parents(n) : q.depth + 1 = n.depth /\ LawOf(q.id) = LawOf(n.id)
    BY ParentLiesAbove DEF WellFormed, Parents, Versions
  <2>5. p.depth \in Nat /\ n.depth \in Nat
    BY <2>2, ItemsList DEF LegalNode
  <2>6. n.depth > 0
    BY <2>4, <2>5
  <2> QED BY <2>3, <2>4, <2>6 DEF WellFormed, Permitted
<1>6. Drifting = {}
  BY <1>3 DEF Drifting
<1>7. Orphans = {} /\ Uncovered = {}
  BY <1>5 DEF Orphans, Uncovered, Raised
<1>8. WrongDepth = {}
  <2>1. \A n \in Children : ~(n.depth <= 0)
    <3> SUFFICES ASSUME NEW n \in Children PROVE ~(n.depth <= 0)
      OBVIOUS
    <3>1. n.depth \in Nat
      BY ItemsList DEF LegalNode, Children
    <3> QED BY <1>5, <3>1
  <2>2. \A n \in Raised : \E p \in Parents(n) : p.depth + 1 = n.depth
    BY <1>5 DEF Raised
  <2> QED BY <2>1, <2>2 DEF WrongDepth
<1>9. WrongLaw = {} /\ WrongKind = {}
  BY <1>5 DEF WrongLaw, WrongKind, Raised
<1> QED BY <1>1, <1>2, <1>4, <1>6, <1>7, <1>8, <1>9

LEMMA OneRootPerLaw == TypeInv /\ Forest => WrongRootCount = {}
<1> SUFFICES ASSUME TypeInv, Forest, NEW id \in Present
             PROVE  Cardinality({n.id : n \in {m \in RootRows : LawOf(m.id) = LawOf(id)}}) = 1
  BY DEF WrongRootCount
<1> DEFINE law == LawOf(id)
           S == {n.id : n \in {m \in RootRows : LawOf(m.id) = law}}
<1>1. PICK r \in Graph(law).node : \A x \in Graph(law).node :
        \A n \in Versions(x) : n.parent = None <=> x = r
  BY TreeOf
<1>2. PICK q \in Nodes : q.id = r
  BY DEF Graph, Present
<1>3. LawOf(r) = law /\ q \in RootRows
  BY <1>1, <1>2 DEF Graph, Versions, RootRows, Children
<1>4. ASSUME NEW n \in RootRows, LawOf(n.id) = law PROVE n.id = r
  <2>1. n.id \in Graph(law).node /\ n \in Versions(n.id) /\ n.parent = None
    BY <1>4 DEF Graph, Versions, RootRows, Children, Present
  <2> QED BY <1>1, <2>1
<1>5. S = {r}
  BY <1>2, <1>3, <1>4
<1>6. Cardinality({r}) = 1
  BY FS_Singleton
<1> QED BY <1>5, <1>6

----------------------------------------------------------------------------
(* The walk goes up one level at a time: the rows of a node agree on its   *)
(* depth, which is less than the number of rows.                           *)
NextUp(rows) == {First(m.parent) : m \in {b \in rows : b.parent \in Present}}

IsWalk(up, n, m) == up = [k \in 0..m |-> IF k = 0 THEN {n} ELSE NextUp(up[k - 1])]

LEMMA WalkExists == ASSUME NEW n, NEW m \in Nat PROVE \E up : IsWalk(up, n, m)
<1> DEFINE Bad == {k \in Nat : ~\E up : IsWalk(up, n, k)}
<1> SUFFICES ASSUME Bad # {} PROVE FALSE
  OBVIOUS
<1>1. PICK b \in Bad : \A k \in Bad : b <= k
  <2>1. Bad \subseteq Nat
    OBVIOUS
  <2> HIDE DEF Bad
  <2> QED BY <2>1, LeastElement
<1>2. CASE b = 0
  <2>1. IsWalk([k \in 0..0 |-> {n}], n, 0)
    BY DEF IsWalk
  <2> QED BY <1>1, <1>2, <2>1
<1>3. CASE b # 0
  <2>1. b - 1 \in Nat /\ b - 1 \notin Bad
    BY <1>1, <1>3
  <2>2. PICK g : IsWalk(g, n, b - 1)
    BY <2>1
  <2> DEFINE up == [k \in 0..b |-> IF k = b THEN NextUp(g[b - 1]) ELSE g[k]]
  <2>3. ASSUME NEW k \in 0..b
        PROVE  up[k] = IF k = 0 THEN {n} ELSE NextUp(up[k - 1])
    <3>1. CASE k = b
      <4>1. up[k] = NextUp(g[b - 1]) /\ up[b - 1] = g[b - 1] /\ k # 0
        BY <1>1, <1>3, <2>1, <3>1
      <4> QED BY <3>1, <4>1
    <3>2. CASE k # b
      <4>1. k \in 0..(b - 1) /\ up[k] = g[k]
        BY <1>1, <3>2
      <4>2. g[k] = IF k = 0 THEN {n} ELSE NextUp(g[k - 1])
        BY <2>2, <4>1 DEF IsWalk
      <4>3. k # 0 => up[k - 1] = g[k - 1]
        BY <1>1, <4>1
      <4> QED BY <4>1, <4>2, <4>3
    <3> QED BY <3>1, <3>2
  <2>4. IsWalk(up, n, b)
    <3>1. up = [k \in 0..b |-> up[k]]
      OBVIOUS
    <3> HIDE DEF up
    <3> QED BY <2>3, <3>1 DEF IsWalk
  <2> QED BY <1>1, <2>4
<1> QED BY <1>2, <1>3

LEMMA WalkIs ==
    ASSUME TypeInv, NEW n
    PROVE  /\ DOMAIN Walk(n) = 0..Len(items) /\ Walk(n)[0] = {n}
           /\ \A k \in 1..Len(items) : Walk(n)[k] = NextUp(Walk(n)[k - 1])
<1>1. Len(items) \in Nat
  BY ItemsList
<1>2. IsWalk(Walk(n), n, Len(items))
  <2>1. Walk(n) = CHOOSE up : IsWalk(up, n, Len(items))
    BY DEF Walk, IsWalk, NextUp
  <2> QED BY <1>1, <2>1, WalkExists
<1> HIDE DEF IsWalk
<1>3. DOMAIN Walk(n) = 0..Len(items)
  BY <1>2 DEF IsWalk
<1>4. \A k \in 0..Len(items) :
        Walk(n)[k] = IF k = 0 THEN {n} ELSE NextUp(Walk(n)[k - 1])
  BY <1>2 DEF IsWalk
<1> QED BY <1>1, <1>3, <1>4

LEMMA FirstIs == ASSUME TypeInv, NEW id \in Present PROVE First(id) \in Versions(id)
<1> DEFINE at == {i \in DOMAIN items : items[i].id = id}
           Keys == {Key(items[i]) : i \in at}
<1>1. at # {} /\ at \subseteq Nat /\ \A i \in at : items[i] \in Versions(id)
  BY ItemsList DEF Present, Versions
<1>2. Keys # {} /\ Keys \subseteq Nat
  BY <1>1, KeyIs, CorpusAssumption DEF Versions
<1>3. PICK d \in Keys : \A k \in Keys : d <= k
  <2> HIDE DEF Keys
  <2> QED BY <1>2, LeastElement
<1> DEFINE Least == {i \in at : Key(items[i]) = d}
<1>4. PICK i \in Least : \A j \in Least : i <= j
  <2>1. Least # {} /\ Least \subseteq Nat
    BY <1>1, <1>3
  <2> HIDE DEF Least
  <2> QED BY <2>1, LeastElement
<1>5. ASSUME NEW j \in at
      PROVE  \/ Key(items[i]) < Key(items[j])
             \/ Key(items[i]) = Key(items[j]) /\ i <= j
  <2>1. d <= Key(items[j]) /\ Key(items[j]) \in Nat /\ d \in Nat
    BY <1>2, <1>3
  <2> QED BY <1>4, <2>1
<1> QED BY <1>1, <1>4, <1>5 DEF First

LEMMA WalkLevels ==
    ASSUME TypeInv, Forest, NEW n \in Nodes, NEW k \in 0..Len(items)
    PROVE  /\ \A m \in Walk(n)[k] : m \in Nodes /\ m.depth = n.depth - k
           /\ k <= n.depth => Walk(n)[k] # {}
<1> DEFINE up == Walk(n)
           Good(j) == /\ \A m \in up[j] : m \in Nodes /\ m.depth = n.depth - j
                      /\ j <= n.depth => up[j] # {}
           Bad == {j \in 0..Len(items) : ~Good(j)}
<1> SUFFICES ASSUME Bad # {} PROVE FALSE
  OBVIOUS
<1>1. /\ Len(items) \in Nat /\ n.depth \in Nat
      /\ up[0] = {n} /\ \A j \in 1..Len(items) : up[j] = NextUp(up[j - 1])
  BY WalkIs, ItemsList DEF LegalNode
<1> HIDE DEF up
<1>2. PICK b \in Bad : \A j \in Bad : b <= j
  <2>1. Bad \subseteq Nat
    BY <1>1
  <2> HIDE DEF Bad
  <2> QED BY <2>1, LeastElement
<1>3. b # 0
  <2>1. Good(0)
    <3>1. n.depth = n.depth - 0
      BY <1>1
    <3> QED BY <1>1, <3>1
  <2> QED BY <1>2, <2>1
<1>4. b \in 1..Len(items) /\ b - 1 \in 0..Len(items) /\ b - 1 \notin Bad
  BY <1>1, <1>2, <1>3
<1>5. Good(b - 1) /\ up[b] = NextUp(up[b - 1])
  BY <1>1, <1>4
<1>6. ASSUME NEW below \in up[b - 1], below.parent \in Present
      PROVE  /\ First(below.parent) \in Nodes
             /\ First(below.parent).depth = n.depth - b
  <2>1. below \in Nodes /\ below.depth = n.depth - (b - 1)
    BY <1>5
  <2>2. below \in Children /\ First(below.parent) \in Versions(below.parent)
    BY <1>6, <2>1, FirstIs, ItemsList, CorpusAssumption DEF Children, Present, LegalNode
  <2>3. First(below.parent) \in Nodes /\ First(below.parent).depth + 1 = below.depth
    BY <2>2, ParentLiesAbove DEF Versions
  <2>4. /\ First(below.parent).depth \in Nat /\ b \in Nat
        /\ First(below.parent).depth + 1 = n.depth - (b - 1)
    BY <1>1, <1>4, <2>1, <2>3, ItemsList DEF LegalNode
  <2>5. First(below.parent).depth = n.depth - b
    <3> HIDE DEF Bad
    <3> QED BY <1>1, <2>4
  <2> QED BY <2>3, <2>5
<1>7. \A m \in up[b] : m \in Nodes /\ m.depth = n.depth - b
  BY <1>5, <1>6 DEF NextUp
<1>8. ASSUME b <= n.depth PROVE up[b] # {}
  <2>1. b - 1 <= n.depth
    BY <1>1, <1>4, <1>8
  <2>2. PICK below \in up[b - 1] : TRUE
    BY <1>5, <2>1
  <2>3. below \in Nodes /\ below.depth = n.depth - (b - 1)
    BY <1>5
  <2>4. below.depth # 0
    BY <1>1, <1>4, <1>8, <2>3
  <2>5. below \in Children
    BY <2>3, <2>4, DepthsAgree DEF Children
  <2>6. below.parent \in Present
    BY <2>5, ParentLiesAbove
  <2>7. First(below.parent) \in up[b]
    BY <1>5, <2>6 DEF NextUp
  <2> QED BY <2>7
<1> QED BY <1>2, <1>7, <1>8

LEMMA WalkRulesHold ==
    ASSUME TypeInv, Forest, NEW n \in Nodes
    PROVE  ~OnCycle(n) /\ ~Unreachable(n)
<1>1. /\ Len(items) \in Nat /\ n.depth \in Nat /\ n.depth < Len(items)
      /\ DOMAIN Walk(n) = 0..Len(items)
  BY ItemsList, WalkIs, DepthsAgree DEF LegalNode
<1>2. ASSUME NEW j \in DOMAIN Walk(n), NEW k \in DOMAIN Walk(n), j < k,
             NEW a \in Walk(n)[j], NEW b \in Walk(n)[k]
      PROVE  a.id # b.id
  <2>1. /\ j \in 0..Len(items) /\ k \in 0..Len(items)
        /\ j \in Int /\ k \in Int
    BY <1>1
  <2>2. /\ a \in Nodes /\ a.depth = n.depth - j
        /\ b \in Nodes /\ b.depth = n.depth - k
    BY <2>1, WalkLevels
  <2>3. a.depth # b.depth
    BY <1>1, <1>2, <2>1, <2>2
  <2> QED BY <2>2, <2>3, DepthsAgree DEF Versions
<1>3. ~OnCycle(n)
  BY <1>2 DEF OnCycle
<1>4. n.depth \in DOMAIN Walk(n) /\ n.depth \in 0..Len(items)
  BY <1>1
<1>5. PICK m \in Walk(n)[n.depth] : TRUE
  BY <1>1, <1>4, WalkLevels
<1>6. m \in Nodes /\ m.depth = n.depth - n.depth
  BY <1>4, <1>5, WalkLevels
<1>7. m.parent = None
  BY <1>1, <1>6, DepthsAgree
<1> QED BY <1>3, <1>4, <1>5, <1>7 DEF Unreachable

LEMMA RowsOfWellFormed == TypeInv /\ WellFormed => NoIssueOfRows
BY RowRulesHold, OneRootPerLaw, WalkRulesHold DEF NoIssueOfRows, LocalRules, WellFormed

LEMMA LinksOfWellFormed ==
    TypeInv /\ OneVersionAtATime /\ (\A x \in Entries : Resolves(x.legacy))
        => NoIssueOfLinks
<1> SUFFICES ASSUME TypeInv, OneVersionAtATime, \A x \in Entries : Resolves(x.legacy)
             PROVE  NoIssueOfLinks
  OBVIOUS
<1> DEFINE Said(legacy) == {crosswalk[i] : i \in EntriesOf(legacy)}
<1>1. \A x \in Entries : x \in Said(x.legacy)
  BY DEF Entries, ToSet, EntriesOf
<1>2. ASSUME NEW x \in Entries, NEW i \in EntriesOf(x.legacy),
             NEW j \in EntriesOf(x.legacy),
             crosswalk[i].version = crosswalk[j].version
      PROVE  i = j
  <2>1. Cardinality(Answers(x.legacy)) = Cardinality(EntriesOf(x.legacy))
    BY DEF Resolves, Answers
  <2> QED BY <1>2, <2>1, AnswersCounted
<1>3. ASSUME NEW x \in Entries
      PROVE  Target(x) # None /\ Target(x).id = x.node /\ Target(x).source = x.source
  <2>1. PICK n \in Nodes : /\ VersionId(n) = x.version /\ n.id = x.node
                           /\ n.source = x.source
    BY <1>1 DEF Resolves
  <2>2. Target(x) \in Nodes /\ VersionId(Target(x)) = VersionId(n)
    BY <2>1, TargetIs
  <2>3. PICK i \in DOMAIN items, j \in DOMAIN items :
          Target(x) = items[i] /\ n = items[j]
    BY <2>2, ItemsList
  <2>4. Target(x) = n
    BY <2>2, <2>3, OneRowPerVersion
  <2> QED BY <2>1, <2>2, <2>4 DEF TypeInv
<1>4. RepeatedTarget = {}
  <2> SUFFICES ASSUME NEW x \in Entries, NEW i \in EntriesOf(x.legacy),
                      NEW j \in EntriesOf(x.legacy), i # j,
                      crosswalk[i] = x, crosswalk[j].version = x.version
               PROVE  FALSE
    BY DEF RepeatedTarget
  <2> QED BY <1>2
<1>5. Mistargeted = {} /\ OtherSource = {}
  BY <1>3 DEF Mistargeted, OtherSource
<1>6. ASSUME NEW x \in Entries, Cardinality(EntriesOf(x.legacy)) > 1,
             NEW i \in EntriesOf(x.legacy)
      PROVE  Undecided(crosswalk[i])
  <2>1. crosswalk[i] \in Said(x.legacy) /\ crosswalk[i] \in Entries
    BY EntriesList DEF EntriesOf
  <2>2. Cardinality(EntriesOf(x.legacy)) # 1
    BY <1>6
  <2> HIDE DEF Said
  <2>3. /\ crosswalk[i].relation \notin {"exact", "derived"}
        /\ crosswalk[i].relation = "ambiguous" => crosswalk[i].reason
    BY <2>1, <2>2 DEF Resolves, Said
  <2> QED BY <2>1, <2>3, EntriesList DEF LegacyCrosswalk, Undecided
<1>7. AgainstRepetition = {}
  BY <1>2, <1>6 DEF AgainstRepetition
<1>8. \A x \in Entries : /\ x.relation = "ambiguous" => x.reason
                         /\ x.relation = "exact" => ~x.reason
  BY <1>1 DEF Resolves
<1> QED BY <1>4, <1>5, <1>7, <1>8 DEF NoIssueOfLinks

LEMMA WellFormedAccepted == TypeInv => WellFormedIsAccepted
BY AcceptedRows, RowsOfWellFormed, LinksOfWellFormed
   DEF WellFormedIsAccepted, WellFormed

LEMMA ForestWhenAccepted == TypeInv => AcceptedIsForest
BY AcceptedRows, ForestOfAccepted DEF AcceptedIsForest, NoIssueOfRows

(* The walk never finds what the other rules have let pass.                *)
LEMMA LocalRulesSuffice == TypeInv /\ LocalRules /\ NoIssueOfLinks => Accepted
BY AcceptedRows, ForestOfAccepted, WalkRulesHold DEF NoIssueOfRows

----------------------------------------------------------------------------
(* What suffices for nodes that an adapter has placed: the rows of a node  *)
(* agree and follow each other, a law has one root, and below it each row  *)
(* lies one level below its parent, in a place and in windows of its own.  *)
WellPlaced ==
    /\ Nodes # {} /\ OneVersionAtATime
    /\ \A m, n \in Nodes : m.id = n.id =>
          m.parent = n.parent /\ m.kind = n.kind /\ m.number = n.number
    /\ \A n \in RootRows : n.kind = "law" /\ n.depth = 0
    /\ \A m, n \in RootRows : LawOf(m.id) = LawOf(n.id) => m.id = n.id
    /\ \A n \in Nodes : \E r \in RootRows : LawOf(r.id) = LawOf(n.id)
    /\ \A n \in Children :
          /\ \E p \in Parents(n) : /\ p.depth + 1 = n.depth
                                   /\ LawOf(p.id) = LawOf(n.id)
                                   /\ n.kind \in Allowed[p.kind]
          /\ \E p \in Parents(n) : Window(n) \subseteq Window(p)

LEMMA WellPlacedIsAccepted == TypeInv /\ WellPlaced /\ crosswalk = <<>> => Accepted
<1> SUFFICES ASSUME TypeInv, WellPlaced, crosswalk = <<>> PROVE Accepted
  OBVIOUS
<1>1. items # <<>>
  BY ItemsList DEF WellPlaced
<1>2. Duplicated = {} /\ Overlapping = {}
  BY WindowsDoNotClash DEF WellPlaced
<1>3. Drifting = {}
  BY DEF WellPlaced, Drifting, Versions
<1>4. \A n \in Children : Parents(n) # {}
  BY DEF WellPlaced
<1>5. Orphans = {}
  BY <1>4 DEF Orphans
<1>6. WrongDepth = {}
  <2>1. \A n \in Children : ~(n.depth <= 0)
    <3> SUFFICES ASSUME NEW n \in Children PROVE ~(n.depth <= 0)
      OBVIOUS
    <3>1. PICK p \in Parents(n) : p.depth + 1 = n.depth
      BY DEF WellPlaced
    <3>2. p.depth \in Nat
      BY ItemsList DEF Parents, Versions, LegalNode
    <3> QED BY <3>1, <3>2
  <2> QED BY <2>1 DEF WellPlaced, WrongDepth, Raised
<1>7. WrongLaw = {} /\ WrongKind = {}
  BY DEF WellPlaced, WrongLaw, WrongKind, Raised
<1>8. Uncovered = {}
  <2> SUFFICES ASSUME NEW n \in Children PROVE \E p \in Parents(n) : WindowContains(p, n)
    BY DEF Uncovered, Raised
  <2>1. PICK p \in Parents(n) : Window(n) \subseteq Window(p)
    BY DEF WellPlaced
  <2> QED BY <2>1, ContainsWhatCovers DEF Parents, Versions, Children
<1>9. WrongRootCount = {}
  <2> SUFFICES ASSUME NEW id \in Present
               PROVE  Cardinality({n.id : n \in {r \in RootRows : LawOf(r.id) = LawOf(id)}}) = 1
    BY DEF WrongRootCount
  <2>1. PICK r \in RootRows : LawOf(r.id) = LawOf(id)
    BY DEF WellPlaced, Present
  <2>2. {n.id : n \in {q \in RootRows : LawOf(q.id) = LawOf(id)}} = {r.id}
    BY <2>1 DEF WellPlaced
  <2>3. Cardinality({r.id}) = 1
    BY FS_Singleton
  <2> QED BY <2>2, <2>3
<1>10. LocalRules
  BY <1>1, <1>2, <1>3, <1>5, <1>6, <1>7, <1>8, <1>9 DEF LocalRules, WellPlaced
<1>11. NoIssueOfLinks
  <2>1. Entries = {}
    BY DEF Entries, ToSet
  <2> QED BY <2>1 DEF NoIssueOfLinks, RepeatedTarget, Mistargeted, OtherSource,
                      AgainstRepetition
<1> QED BY <1>10, <1>11, LocalRulesSuffice

----------------------------------------------------------------------------
(* A corpus read row by row                                                *)
RowsRead == items \in Seq(Rows) /\ crosswalk \in Seq(Links)

LEMMA RowsReadAreTyped == RowsRead => TypeInv
<1> SUFFICES ASSUME RowsRead PROVE TypeInv
  OBVIOUS
<1>1. Nodes \subseteq Rows /\ Entries \subseteq Links
  BY DEF RowsRead, Nodes, Entries, ToSet
<1>2. items \in Seq(Nodes)
  <2>1. \A i \in 1..Len(items) : items[i] \in Nodes
    BY DEF RowsRead, Nodes, ToSet
  <2> QED BY <2>1 DEF RowsRead
<1>3. crosswalk \in Seq(Entries)
  BY DEF RowsRead, Entries, ToSet
<1> QED BY <1>1, <1>2, <1>3, CorpusAssumption DEF TypeInv

LEMMA RowsAreRead == Spec => []RowsRead
<1>1. Init => RowsRead
  BY DEF Init, RowsRead
<1>2. RowsRead /\ [Next]_<<items, crosswalk>> => RowsRead'
  <2> SUFFICES ASSUME RowsRead, [Next]_<<items, crosswalk>> PROVE RowsRead'
    OBVIOUS
  <2>1. ASSUME NEW n \in Rows, ReadRow(n) PROVE RowsRead'
    BY <2>1 DEF RowsRead, ReadRow
  <2>2. ASSUME NEW x \in Links, ReadLink(x) PROVE RowsRead'
    BY <2>2 DEF RowsRead, ReadLink
  <2>3. ASSUME UNCHANGED <<items, crosswalk>> PROVE RowsRead'
    BY <2>3 DEF RowsRead
  <2> QED BY <2>1, <2>2, <2>3 DEF Next
<1> QED BY <1>1, <1>2, PTL DEF Spec

(* For any list of node versions, what collect_diagnostics has no          *)
(* diagnostic for is one tree per law, under a law node, in which every    *)
(* version of a node states its true depth.                                *)
THEOREM AcceptedCorpusIsForest == Spec => []AcceptedIsForest
BY RowsAreRead, RowsReadAreTyped, ForestWhenAccepted, PTL

(* For any list of node versions, an accepted corpus shows at every date   *)
(* at most one version of a node, and never a node without its parent.     *)
THEOREM AcceptedCorpusAtEveryDate == Spec => []AcceptedAtEveryDate
BY RowsAreRead, RowsReadAreTyped, DatesOfAccepted, PTL

(* For any list of crosswalk rows, an accepted crosswalk gives every       *)
(* legacy id one answer in this corpus or an openly undecided one.         *)
THEOREM AcceptedCrosswalkResolves == Spec => []AcceptedResolves
BY RowsAreRead, RowsReadAreTyped, ResolvesOfAccepted, PTL

(* collect_diagnostics refuses nothing else, in whatever order the rows    *)
(* are read: with the three theorems above, its rules are complete.        *)
THEOREM WellFormedCorpusIsAccepted == Spec => []WellFormedIsAccepted
BY RowsAreRead, RowsReadAreTyped, WellFormedAccepted, PTL
=============================================================================
