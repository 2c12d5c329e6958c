-------------------------- MODULE StructuredSources --------------------------
(***************************************************************************)
(* How nodes come before the validator other than from e-Gov: from the     *)
(* file of a corpus, from the JSON tree of json_adapter, or from the XML   *)
(* and XHTML rows of _mapped.  What the source says, which object lies in  *)
(* which and which of them are one provision, is stated apart from the     *)
(* locators that the adapters compute.                                     *)
(*                                                                         *)
(* Simplifications: the mapping has selected the rows and its fields have  *)
(* been read; names are equal when normalize_identifier makes them equal;  *)
(* ordinal and branch are one number; objects have different texts, which  *)
(* decides nothing since equal ones are refused as well.  "ok" is false of *)
(* an object that lacks a field or has one that a constructor refuses.     *)
(***************************************************************************)
EXTENDS CorpusValidation

CONSTANTS Objects,    \* the JSON objects that may be read
          MappedRows, \* the rows that a mapping may select
          Files,      \* [format, law, from, to, key]: what a source says of
                      \* all its objects; key is whether it has a source_key
          MaxObjects, \* bound on the objects or rows of a source
          Unslugged   \* names without a letter or digit of ASCII

VARIABLES file,   \* the source
          doc,    \* its objects or rows, in document order
          phase   \* how far compilation is

sourceVars == <<items, crosswalk, file, doc, phase>>

(* What an adapter reads of the window of a node, and what its constructor *)
(* admits; a locator below the root is a sequence of these segments.       *)
Windows == {w \in (Dates \cup {None}) \X (Dates \cup {None}) :
               w[1] # None /\ w[2] # None => w[1] < w[2]}
Designations == {<<o.kind, x>> : o \in Objects \cup MappedRows,
                 x \in {None} \cup {p.num : p \in Objects \cup MappedRows}
                              \cup {p.name : p \in Objects \cup MappedRows}}

ASSUME SourcesAssumption ==
    /\ MaxObjects \in Nat
    /\ \A f \in Files : /\ f.format \in {"corpus", "json", "xml"}
                        /\ f.law \in Laws /\ f.key \in BOOLEAN
                        /\ <<f.from, f.to>> \in Windows
    /\ \A o \in Objects \cup MappedRows :
          /\ o.law \in Laws \cup {None}
          /\ o.num \in Nat \cup {None} /\ o.name \notin Nat \cup {None}
          /\ o.ok => o.kind \in Kinds /\ <<o.from, o.to>> \in Windows
    /\ \A o \in MappedRows : o.ok => o.depth \in Nat
    /\ \A law \in Laws, n \in 0..MaxObjects : \A locator \in [1..n -> Designations] :
          /\ <<law>> \o locator \in Ids /\ LawOf(<<law>> \o locator) = law
    /\ None \notin [id : Ids, parent : Ids \cup {None}, kind : Kinds, depth : Nat,
                    from : Dates \cup {None}, to : Dates \cup {None},
                    wording : Nat, number : Nat \cup {None}, source : {"source"}]

----------------------------------------------------------------------------
(* Both adapters                                                           *)
Indices == DOMAIN doc
LawAt(i) == IF doc[i].law = None THEN file.law ELSE doc[i].law

(* Mutant: only what survives in the slug tells names apart.               *)
SegmentSlugOnly(i) ==
    <<doc[i].kind,
      IF doc[i].num # None THEN doc[i].num
      ELSE IF doc[i].name \in Unslugged THEN None ELSE doc[i].name>>

(* semantic_locator, below a parent: a name that leaves no slug is replaced*)
(* by the source_key, which in a JSON file is one for all its objects.     *)
Segment(i) ==
    <<doc[i].kind,
      IF doc[i].num # None THEN doc[i].num
      ELSE IF doc[i].name \in Unslugged /\ file.key THEN None
      ELSE doc[i].name>>

(* Mutant: the first row of a name keeps it.                               *)
ParentRowFirst(i) ==
    LET named == {j \in 1..(i - 1) : doc[j].name = doc[i].parent}
    IN  IF named = {} THEN 0 ELSE CHOOSE j \in named : \A k \in named : j <= k

(* ids.get(parent_locator): a later row of a name replaces an earlier one. *)
ParentRow(i) ==
    LET named == {j \in 1..(i - 1) : doc[j].name = doc[i].parent}
    IN  IF named = {} THEN 0 ELSE CHOOSE j \in named : \A k \in named : k <= j

(* The object or row that the adapter puts i under, or 0                   *)
Up(i) == IF file.format = "json" THEN doc[i].up
         ELSE IF doc[i].parent = None THEN 0 ELSE ParentRow(i)

Locator ==
    LET locator[i \in Indices] ==
            IF Up(i) = 0 THEN <<>> ELSE Append(locator[Up(i)], Segment(i))
    IN  locator

Node(locator, i, depth, from, to) ==
    LET id(j) == <<LawAt(j)>> \o locator[j]
    IN  [id |-> id(i), parent |-> IF Up(i) = 0 THEN None ELSE id(Up(i)),
         kind |-> doc[i].kind, depth |-> depth, from |-> from, to |-> to,
         wording |-> i, number |-> doc[i].num, source |-> "source"]

----------------------------------------------------------------------------
(* json_adapter                                                            *)

(* Mutant: also when the child says when it is valid.                      *)
CollidesAlways(i) ==
    /\ doc[i].up # 0
    /\ \E j \in 1..(i - 1) : doc[j].up = doc[i].up /\ Segment(j) = Segment(i)

(* ADAPTER_SIBLING_COLLISION, unless the child says when it is valid       *)
Collides(i) ==
    /\ doc[i].up # 0 /\ ~doc[i].own
    /\ \E j \in 1..(i - 1) : doc[j].up = doc[i].up /\ Segment(j) = Segment(i)

JsonReadable == \A i \in Indices : doc[i].ok /\ ~Collides(i)

(* _tree_nodes: what an object does not say of its law and its window, the *)
(* file says, not the object around it.                                    *)
TreeNodes ==
    LET locator == Locator
    IN  [i \in Indices |->
            Node(locator, i, Len(locator[i]),
                 IF doc[i].own THEN doc[i].from ELSE file.from,
                 IF doc[i].own THEN doc[i].to ELSE file.to)]

----------------------------------------------------------------------------
(* _mapped                                                                 *)

(* ADAPTER_PARENT_UNRESOLVED                                               *)
MappedReadable == \A i \in Indices :
    doc[i].ok /\ (doc[i].parent # None => ParentRow(i) # 0)

Mapped ==
    LET locator == Locator
    IN  [i \in Indices |->
            Node(locator, i, doc[i].depth, doc[i].from, doc[i].to)]

----------------------------------------------------------------------------
SourceInit ==
    /\ Init
    /\ file \in Files /\ doc = <<>>
    /\ phase = (IF file.format = "corpus" THEN "corpus" ELSE "parse")

(* The rows of a corpus and of its crosswalk                               *)
ReadCorpusRow(n) ==
    phase = "corpus" /\ ReadRow(n) /\ UNCHANGED <<file, doc, phase>>
ReadCrosswalkRow(x) ==
    phase = "corpus" /\ ReadLink(x) /\ UNCHANGED <<file, doc, phase>>

(* What is read of an object, and the object around it                     *)
Placed(o, up) ==
    [name |-> o.name, kind |-> o.kind, num |-> o.num, own |-> o.own,
     from |-> o.from, to |-> o.to, law |-> o.law, ok |-> o.ok, up |-> up]

(* The next object lies in the last one or in one around it.               *)
ReadObject(o, up) ==
    /\ phase = "parse" /\ file.format = "json" /\ Len(doc) < MaxObjects
    /\ LET around[i \in 0..Len(doc)] ==
               IF i = 0 THEN {0} ELSE {i} \cup around[doc[i].up]
       IN  up \in around[Len(doc)]
    /\ doc' = Append(doc, Placed(o, up))
    /\ UNCHANGED <<items, crosswalk, file, phase>>

SelectRow(r) ==
    /\ phase = "parse" /\ file.format = "xml" /\ Len(doc) < MaxObjects
    /\ doc' = Append(doc, r)
    /\ UNCHANGED <<items, crosswalk, file, phase>>

AdaptJson ==
    /\ phase = "parse" /\ file.format = "json"
    /\ \/ JsonReadable /\ items' = TreeNodes /\ phase' = "adapted"
       \/ ~JsonReadable /\ phase' = "failed" /\ UNCHANGED items
    /\ UNCHANGED <<crosswalk, file, doc>>

AdaptMapped ==
    /\ phase = "parse" /\ file.format = "xml"
    /\ \/ MappedReadable /\ items' = Mapped /\ phase' = "adapted"
       \/ ~MappedReadable /\ phase' = "failed" /\ UNCHANGED items
    /\ UNCHANGED <<crosswalk, file, doc>>

Compile ==
    /\ phase = "adapted"
    /\ phase' = (IF Accepted THEN "compiled" ELSE "refused")
    /\ UNCHANGED <<items, crosswalk, file, doc>>

SourceNext ==
    \/ \E n \in Rows : ReadCorpusRow(n)
    \/ \E x \in Links : ReadCrosswalkRow(x)
    \/ \E o \in Objects, up \in {0} \cup Indices : ReadObject(o, up)
    \/ \E r \in MappedRows : SelectRow(r)
    \/ AdaptJson \/ AdaptMapped \/ Compile

SourceSpec == SourceInit /\ [][SourceNext]_sourceVars

----------------------------------------------------------------------------
(* What the source says                                                    *)

(* Object or row j is the parent of i: it is around it, or it is the       *)
(* nearest before it that has the name i asks for.                         *)
LiesIn(i, j) ==
    IF file.format = "json" THEN doc[i].up = j
    ELSE /\ j < i /\ doc[j].name = doc[i].parent
         /\ \A k \in (j + 1)..(i - 1) : doc[k].name # doc[i].parent
Outermost(i) == IF file.format = "json" THEN doc[i].up = 0
                                        ELSE doc[i].parent = None

SameDesignation(i, j) ==
    /\ doc[i].kind = doc[j].kind /\ doc[i].num = doc[j].num
    /\ doc[i].num = None => doc[i].name = doc[j].name

(* SameProvision[i]: those that are one provision with i, the same law, or *)
(* designated alike in one provision.                                      *)
SameProvision ==
    LET same[i \in Indices] == {j \in Indices :
            /\ LawAt(i) = LawAt(j)
            /\ \/ Outermost(i) /\ Outermost(j)
               \/ /\ SameDesignation(i, j)
                  /\ \E k, m \in Indices :
                        LiesIn(i, k) /\ LiesIn(j, m) /\ k < i /\ m \in same[k]}
    IN  same

WindowAt(i) ==
    LET stated == file.format = "xml" \/ doc[i].own
    IN  Window([from |-> IF stated THEN doc[i].from ELSE file.from,
                to   |-> IF stated THEN doc[i].to ELSE file.to])

----------------------------------------------------------------------------
(* A compiled corpus has one node version for each object or row, in the   *)
(* law and window that it names, exactly one level below its parent,       *)
(* although a row names its parent by a name that may come twice and       *)
(* states a depth which the adapter copies, and an object takes its window *)
(* from the file and not from the object around it.                        *)
CompiledAsWritten ==
    phase = "compiled" =>
        /\ DOMAIN items = Indices
        /\ \A i \in Indices :
              /\ items[i].kind = doc[i].kind
              /\ LawOf(items[i].id) = LawAt(i)
              /\ Window(items[i]) = WindowAt(i)
              /\ Outermost(i) => items[i].parent = None /\ items[i].depth = 0
              /\ \A j \in Indices : LiesIn(i, j) =>
                    /\ items[i].parent = items[j].id
                    /\ items[i].depth = items[j].depth + 1
                    /\ LawAt(i) = LawAt(j)

(* A node_id never silently changes what it structurally identifies: the   *)
(* versions of one compiled node are texts of one provision.               *)
OneNodeOneProvision ==
    phase = "compiled" =>
        LET same == SameProvision
        IN  \A i, j \in Indices : items[i].id = items[j].id => j \in same[i]

(* Two names that a source_key takes the place of                          *)
Confused == file.key /\ \E i, j \in Indices :
    /\ i # j /\ doc[i].kind = doc[j].kind
    /\ \A k \in {i, j} : doc[k].num = None /\ doc[k].name \in Unslugged

(* The same of files without a source_key.                                 *)
OneNodeOneProvisionWithoutKey == ~file.key => OneNodeOneProvision

(* A source that does not compile gives cause for it: there is nothing in  *)
(* it, or an object that is malformed, unplaced or misplaced, in the wrong *)
(* law or at the wrong depth, outside the windows of its parent, or twice  *)
(* there on one day.  Neither the order of versions, nor equal names in    *)
(* different places, nor a second version of a parent stop a compilation.  *)
RefusedWithCause ==
    phase \in {"failed", "refused"} =>
        LET same == SameProvision
            laid == {i \in Indices : \E j \in Indices : LiesIn(i, j)}
            around == [i \in laid |-> CHOOSE j \in Indices : LiesIn(i, j)]
        IN  \/ doc = <<>>
            \/ Confused
            \/ \E i \in Indices : ~doc[i].ok \/ ~(Outermost(i) \/ i \in laid)
            \/ \E i \in laid :
                  \/ LawAt(i) # LawAt(around[i])
                  \/ doc[i].kind \notin Allowed[doc[around[i]].kind]
                  \/ ~\E j \in Indices : /\ j \in same[around[i]]
                                         /\ WindowAt(i) \subseteq WindowAt(j)
            \/ \E i \in Indices \ laid : doc[i].kind # "law"
            \/ file.format = "xml" /\ \E i \in Indices :
                  doc[i].depth # (IF i \in laid THEN doc[around[i]].depth + 1 ELSE 0)
            \/ \E i, j \in Indices : i < j /\ j \in same[i] /\
                  \/ WindowAt(i) \cap WindowAt(j) # {}
                  \/ ~SameDesignation(i, j) /\ doc[i].num # doc[j].num
                  \/ /\ file.format = "json" /\ ~doc[j].own
                     /\ doc[i].up = doc[j].up /\ doc[i].up # 0

=============================================================================
