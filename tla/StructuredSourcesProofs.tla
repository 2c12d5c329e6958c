----------------------- MODULE StructuredSourcesProofs -----------------------
(***************************************************************************)
(* Sources of any size: what compiles from a corpus, from a JSON tree or   *)
(* from mapped rows is what was written there, and what is refused gives   *)
(* cause for it.                                                           *)
(***************************************************************************)
EXTENDS StructuredSources, CorpusValidationProofs, SequenceTheorems

Readable == IF file.format = "json" THEN JsonReadable ELSE MappedReadable
Adapted  == IF file.format = "json" THEN TreeNodes ELSE Mapped

Read == {Placed(o, up) : o \in Objects, up \in 0..MaxObjects} \cup MappedRows

SourceTypes ==
    /\ file \in Files
    /\ doc \in Seq(Read) /\ Len(doc) <= MaxObjects
    /\ file.format = "corpus" => doc = <<>>
    /\ file.format = "json" =>
          \A i \in Indices : \E o \in Objects, up \in 0..(i - 1) : doc[i] = Placed(o, up)
    /\ file.format = "xml" => \A i \in Indices : doc[i] \in MappedRows

(* How far compilation is tells where the nodes are from and what has been *)
(* decided about them.                                                     *)
Courses ==
    /\ phase \in {"corpus", "parse", "adapted", "failed", "compiled", "refused"}
    /\ phase = "corpus" <=> file.format = "corpus"
    /\ phase = "corpus" => RowsRead
    /\ phase # "corpus" => crosswalk = <<>>
    /\ phase \in {"parse", "failed"} => items = <<>>
    /\ phase = "failed" => ~Readable
    /\ phase \in {"adapted", "compiled", "refused"} => Readable /\ items = Adapted
    /\ phase = "compiled" => Accepted
    /\ phase = "refused" => ~Accepted

SourceInv == SourceTypes /\ Courses

----------------------------------------------------------------------------
(* What is read of an object or a row, and what it lies in                 *)

LEMMA DocList ==
    SourceTypes => /\ Len(doc) \in Nat /\ Indices = 1..Len(doc)
                   /\ Len(doc) <= MaxObjects
                   /\ file.format \in {"corpus", "json", "xml"}
                   /\ file.law \in Laws /\ file.key \in BOOLEAN
                   /\ <<file.from, file.to>> \in Windows
                   /\ Indices # {} => file.format \in {"json", "xml"}
BY SourcesAssumption DEF SourceTypes, Indices

LEMMA ObjectRead ==
    ASSUME SourceTypes, file.format = "json", NEW i \in Indices
    PROVE  /\ doc[i].law \in Laws \cup {None}
           /\ doc[i].num \in Nat \cup {None} /\ doc[i].name \notin Nat \cup {None}
           /\ doc[i].ok => doc[i].kind \in Kinds /\ <<doc[i].from, doc[i].to>> \in Windows
           /\ doc[i].up \in 0..(i - 1)
           /\ <<doc[i].kind, None>> \in Designations
           /\ <<doc[i].kind, doc[i].num>> \in Designations
           /\ <<doc[i].kind, doc[i].name>> \in Designations
<1>1. PICK o \in Objects, up \in 0..(i - 1) : doc[i] = Placed(o, up)
  BY DEF SourceTypes
<1>2. /\ doc[i].law = o.law /\ doc[i].num = o.num /\ doc[i].name = o.name
      /\ doc[i].ok = o.ok /\ doc[i].kind = o.kind /\ doc[i].from = o.from
      /\ doc[i].to = o.to /\ doc[i].up = up
  BY <1>1 DEF Placed
<1>3. \A x \in {None, o.num, o.name} : <<o.kind, x>> \in Designations
  BY DEF Designations
<1> QED BY <1>2, <1>3, SourcesAssumption

LEMMA RowRead ==
    ASSUME SourceTypes, file.format = "xml", NEW i \in Indices
    PROVE  /\ doc[i].law \in Laws \cup {None}
           /\ doc[i].num \in Nat \cup {None} /\ doc[i].name \notin Nat \cup {None}
           /\ doc[i].ok => /\ doc[i].kind \in Kinds /\ doc[i].depth \in Nat
                           /\ <<doc[i].from, doc[i].to>> \in Windows
           /\ <<doc[i].kind, None>> \in Designations
           /\ <<doc[i].kind, doc[i].num>> \in Designations
           /\ <<doc[i].kind, doc[i].name>> \in Designations
<1>1. doc[i] \in MappedRows
  BY DEF SourceTypes
<1>2. \A x \in {None, doc[i].num, doc[i].name} : <<doc[i].kind, x>> \in Designations
  BY <1>1 DEF Designations
<1> QED BY <1>1, <1>2, SourcesAssumption

LEMMA WhatIsRead ==
    ASSUME SourceTypes, NEW i \in Indices
    PROVE  /\ LawAt(i) \in Laws
           /\ doc[i].num \in Nat \cup {None} /\ doc[i].name \notin Nat \cup {None}
           /\ Segment(i) \in Designations
BY DocList, ObjectRead, RowRead DEF LawAt, Segment

(* A later row of a name replaces an earlier one.                          *)
LEMMA ParentRowIs ==
    ASSUME SourceTypes, NEW i \in Indices
    PROVE  /\ ParentRow(i) \in 0..(i - 1)
           /\ ParentRow(i) # 0 => /\ doc[ParentRow(i)].name = doc[i].parent
                                  /\ \A k \in (ParentRow(i) + 1)..(i - 1) :
                                        doc[k].name # doc[i].parent
           /\ ParentRow(i) = 0 => \A k \in 1..(i - 1) : doc[k].name # doc[i].parent
<1> DEFINE named == {j \in 1..(i - 1) : doc[j].name = doc[i].parent}
<1>1. i - 1 \in Nat
  BY DocList
<1>2. CASE named = {}
  BY <1>1, <1>2 DEF ParentRow
<1>3. CASE named # {}
  <2>1. \E j \in named : \A k \in named : k <= j
    <3> HIDE DEF named
    <3>1. named \subseteq 1..(i - 1)
      BY DEF named
    <3> QED BY <1>1, <1>3, <3>1, GreatestElement
  <2>2. ParentRow(i) \in named /\ \A k \in named : k <= ParentRow(i)
    BY <1>3, <2>1 DEF ParentRow
  <2> QED BY <1>1, <2>2
<1> QED BY <1>2, <1>3

LEMMA UpIs ==
    ASSUME SourceTypes, NEW i \in Indices
    PROVE  /\ Up(i) \in 0..(i - 1)
           /\ Up(i) # 0 => Up(i) \in Indices
           /\ \A j \in Indices : LiesIn(i, j) <=> j = Up(i)
           /\ Outermost(i) => Up(i) = 0
           /\ Readable => (Outermost(i) <=> Up(i) = 0)
<1>1. Indices = 1..Len(doc) /\ Len(doc) \in Nat /\ i \in 1..Len(doc)
  BY DocList
<1>2. CASE file.format = "json"
  <2>1. Up(i) = doc[i].up /\ doc[i].up \in 0..(i - 1)
    BY <1>2, ObjectRead DEF Up
  <2>2. Up(i) # 0 => Up(i) \in Indices
    BY <1>1, <2>1
  <2> QED BY <1>2, <2>1, <2>2 DEF LiesIn, Outermost
<1>3. CASE file.format = "xml" /\ doc[i].parent = None
  <2>1. Up(i) = 0 /\ Outermost(i)
    BY <1>3 DEF Up, Outermost
  <2>2. ASSUME NEW j \in Indices PROVE ~LiesIn(i, j)
    BY <1>3, RowRead DEF LiesIn
  <2> QED BY <1>1, <2>1, <2>2
<1>4. CASE file.format = "xml" /\ doc[i].parent # None
  <2>1. Up(i) = ParentRow(i) /\ ~Outermost(i)
    BY <1>4 DEF Up, Outermost
  <2>2. Readable => Up(i) # 0
    BY <1>4, <2>1 DEF Readable, MappedReadable
  <2>3. ASSUME NEW j \in Indices, LiesIn(i, j) PROVE j = Up(i)
    <3>1. j < i /\ doc[j].name = doc[i].parent /\ j \in 1..(i - 1)
      BY <1>1, <1>4, <2>3 DEF LiesIn
    <3>2. ~(j < ParentRow(i)) /\ ParentRow(i) # 0
      BY <1>1, <1>4, <2>3, <3>1, ParentRowIs DEF LiesIn
    <3>3. ~(ParentRow(i) < j)
      BY <1>1, <3>1, <3>2, ParentRowIs
    <3> QED BY <1>1, <2>1, <3>2, <3>3, ParentRowIs
  <2>4. Up(i) # 0 => Up(i) \in Indices /\ LiesIn(i, Up(i))
    BY <1>1, <1>4, <2>1, ParentRowIs DEF LiesIn
  <2> QED BY <2>1, <2>2, <2>3, <2>4, ParentRowIs
<1> QED BY <1>2, <1>3, <1>4, DocList

----------------------------------------------------------------------------
(* The recursive functions of the model are what their definitions say:    *)
(* else take the shortest beginning of the document that has none.         *)
IsLocator(f, n) ==
    f = [i \in 1..n |-> IF Up(i) = 0 THEN <<>> ELSE Append(f[Up(i)], Segment(i))]

LEMMA LocatorExists == SourceTypes => \E f : IsLocator(f, Len(doc))
<1> DEFINE Bad == {n \in 0..Len(doc) : ~\E f : IsLocator(f, n)}
<1> SUFFICES ASSUME SourceTypes, Bad # {} PROVE FALSE
  BY DocList
<1>1. PICK b \in Bad : \A n \in Bad : b <= n
  <2>1. Bad \subseteq Nat
    OBVIOUS
  <2> HIDE DEF Bad
  <2> QED BY <2>1, LeastElement
<1>2. CASE b = 0
  <2>1. IsLocator(<<>>, 0)
    BY DEF IsLocator
  <2> QED BY <1>1, <1>2, <2>1
<1>3. CASE b # 0
  <2>1. b - 1 \in 0..Len(doc) /\ b - 1 \notin Bad /\ b \in Indices
    BY <1>1, <1>3, DocList
  <2>2. PICK g : IsLocator(g, b - 1)
    BY <2>1
  <2> DEFINE value(h, i) == IF Up(i) = 0 THEN <<>> ELSE Append(h[Up(i)], Segment(i))
             f == [i \in 1..b |-> IF i = b THEN value(g, b) ELSE g[i]]
  <2>3. ASSUME NEW i \in 1..b PROVE f[i] = value(f, i)
    <3> HIDE DEF Bad, f, value
    <3>1. b \in Nat /\ i \in Nat /\ i \in Indices
      BY <2>1, DocList
    <3>2. Up(i) \in 0..(i - 1)
      BY <3>1, UpIs
    <3>3. Up(i) # 0 => f[Up(i)] = g[Up(i)]
      BY <3>1, <3>2 DEF f
    <3>4. i # b => i \in 1..(b - 1)
      BY <3>1
    <3>5. i # b => g[i] = value(g, i)
      BY <2>2, <3>4 DEF IsLocator, value
    <3>6. f[i] = value(g, i)
      BY <3>5 DEF f
    <3> QED BY <3>3, <3>6 DEF value
  <2>4. IsLocator(f, b)
    <3>1. f = [i \in 1..b |-> f[i]]
      OBVIOUS
    <3> HIDE DEF f
    <3> QED BY <2>3, <3>1 DEF IsLocator
  <2> QED BY <1>1, <2>4
<1> QED BY <1>2, <1>3

LEMMA LocatorIs ==
    SourceTypes =>
        /\ DOMAIN Locator = Indices
        /\ \A i \in Indices : Locator[i] = IF Up(i) = 0 THEN <<>>
                                           ELSE Append(Locator[Up(i)], Segment(i))
<1> SUFFICES ASSUME SourceTypes
             PROVE  /\ DOMAIN Locator = Indices
                    /\ \A i \in Indices :
                          Locator[i] = IF Up(i) = 0 THEN <<>>
                                       ELSE Append(Locator[Up(i)], Segment(i))
  OBVIOUS
<1>1. Locator = CHOOSE f : IsLocator(f, Len(doc))
  BY DocList DEF Locator, IsLocator
<1>2. IsLocator(Locator, Len(doc))
  BY <1>1, LocatorExists
<1> QED BY <1>2, DocList DEF IsLocator

Provisions(f, i) ==
    {j \in Indices :
        /\ LawAt(i) = LawAt(j)
        /\ \/ Outermost(i) /\ Outermost(j)
           \/ /\ SameDesignation(i, j)
              /\ \E k, m \in Indices :
                    LiesIn(i, k) /\ LiesIn(j, m) /\ k < i /\ m \in f[k]}
IsSame(f, n) == f = [i \in 1..n |-> Provisions(f, i)]

LEMMA SameExists == SourceTypes => \E f : IsSame(f, Len(doc))
<1> DEFINE Bad == {n \in 0..Len(doc) : ~\E f : IsSame(f, n)}
<1> SUFFICES ASSUME SourceTypes, Bad # {} PROVE FALSE
  BY DocList
<1>1. PICK b \in Bad : \A n \in Bad : b <= n
  <2>1. Bad \subseteq Nat
    OBVIOUS
  <2> HIDE DEF Bad
  <2> QED BY <2>1, LeastElement
<1>2. CASE b = 0
  <2>1. IsSame(<<>>, 0)
    BY DEF IsSame
  <2> QED BY <1>1, <1>2, <2>1
<1>3. CASE b # 0
  <2>1. b - 1 \in 0..Len(doc) /\ b - 1 \notin Bad /\ b \in Indices
    BY <1>1, <1>3, DocList
  <2>2. PICK g : IsSame(g, b - 1)
    BY <2>1
  <2> DEFINE f == [i \in 1..b |-> IF i = b THEN Provisions(g, b) ELSE g[i]]
  <2>3. ASSUME NEW i \in 1..b PROVE f[i] = Provisions(f, i)
    <3>1. \A k \in Indices : k < i => f[k] = g[k]
      BY <2>1, DocList
    <3> HIDE DEF f
    <3>2. Provisions(f, i) = Provisions(g, i)
      BY <3>1 DEF Provisions
    <3>3. i # b => i \in 1..(b - 1) /\ g[i] = Provisions(g, i)
      BY <1>1, <2>2 DEF IsSame
    <3> QED BY <3>2, <3>3 DEF f
  <2>4. IsSame(f, b)
    <3>1. f = [i \in 1..b |-> f[i]]
      OBVIOUS
    <3> HIDE DEF f
    <3> QED BY <2>3, <3>1 DEF IsSame
  <2> QED BY <1>1, <2>4
<1> QED BY <1>2, <1>3

LEMMA SameIs ==
    ASSUME SourceTypes, NEW i \in Indices, NEW j \in Indices
    PROVE  j \in SameProvision[i] <=>
              /\ LawAt(i) = LawAt(j)
              /\ \/ Outermost(i) /\ Outermost(j)
                 \/ /\ SameDesignation(i, j) /\ Up(i) # 0 /\ Up(j) # 0
                    /\ Up(j) \in SameProvision[Up(i)]
<1>1. SameProvision = CHOOSE f : IsSame(f, Len(doc))
  BY DocList DEF SameProvision, IsSame, Provisions
<1>2. IsSame(SameProvision, Len(doc))
  BY <1>1, SameExists
<1>3. SameProvision[i] = Provisions(SameProvision, i)
  BY <1>2, DocList DEF IsSame
<1>4. j \in SameProvision[i] <=>
              /\ LawAt(i) = LawAt(j)
              /\ \/ Outermost(i) /\ Outermost(j)
                 \/ /\ SameDesignation(i, j)
                    /\ \E k, m \in Indices :
                          LiesIn(i, k) /\ LiesIn(j, m) /\ k < i /\ m \in SameProvision[k]
  BY <1>3 DEF Provisions
<1>5. (\E k, m \in Indices :
          LiesIn(i, k) /\ LiesIn(j, m) /\ k < i /\ m \in SameProvision[k]) <=>
      Up(i) # 0 /\ Up(j) # 0 /\ Up(j) \in SameProvision[Up(i)]
  <2>1. \A n \in Indices : \A k \in Indices : LiesIn(n, k) <=> k = Up(n)
    BY UpIs
  <2>2. Up(i) # 0 => Up(i) \in Indices /\ Up(i) < i
    BY UpIs, DocList
  <2>3. Up(j) # 0 => Up(j) \in Indices
    BY UpIs
  <2>4. 0 \notin Indices
    BY DocList
  <2> QED BY <2>1, <2>2, <2>3, <2>4
<1> QED BY <1>4, <1>5

----------------------------------------------------------------------------
(* Locators and node_ids                                                   *)

LEMMA LocatorType ==
    ASSUME SourceTypes, NEW i \in Indices
    PROVE  Locator[i] \in Seq(Designations) /\ Len(Locator[i]) < i
<1> DEFINE Good(k) == Locator[k] \in Seq(Designations) /\ Len(Locator[k]) < k
           Bad == {k \in Indices : ~Good(k)}
<1> SUFFICES ASSUME Bad # {} PROVE FALSE
  OBVIOUS
<1>1. Indices \subseteq Nat /\ 0 \notin Indices
  BY DocList
<1>2. PICK b \in Bad : \A k \in Bad : b <= k
  <2>1. Bad \subseteq Nat
    BY <1>1
  <2> HIDE DEF Bad
  <2> QED BY <2>1, LeastElement
<1>3. b \in Indices /\ b \in Nat /\ b > 0 /\ ~Good(b)
  BY <1>1, <1>2
<1>4. \A k \in Indices : k < b => Good(k)
  BY <1>1, <1>2
<1> HIDE DEF Bad
<1>5. CASE Up(b) = 0
  <2>1. Locator[b] = <<>>
    BY <1>3, <1>5, LocatorIs
  <2> QED BY <1>3, <2>1
<1>6. CASE Up(b) # 0
  <2>1. Up(b) \in Indices /\ Up(b) < b /\ Up(b) \in Nat
    BY <1>1, <1>3, <1>6, UpIs
  <2>2. Good(Up(b))
    BY <1>4, <2>1
  <2>3. Locator[b] = Append(Locator[Up(b)], Segment(b)) /\ Segment(b) \in Designations
    BY <1>3, <1>6, LocatorIs, WhatIsRead
  <2>4. /\ Locator[b] \in Seq(Designations)
        /\ Len(Locator[b]) = Len(Locator[Up(b)]) + 1
    BY <2>2, <2>3, AppendProperties
  <2>5. Len(Locator[Up(b)]) \in Nat
    BY <2>2, LenProperties
  <2> QED BY <1>3, <2>1, <2>2, <2>4, <2>5
<1> QED BY <1>5, <1>6

LEMMA LocatorsDiffer ==
    ASSUME SourceTypes, NEW i \in Indices, NEW j \in Indices
    PROVE  Locator[i] = Locator[j] <=>
              \/ Up(i) = 0 /\ Up(j) = 0
              \/ /\ Up(i) # 0 /\ Up(j) # 0 /\ Segment(i) = Segment(j)
                 /\ Locator[Up(i)] = Locator[Up(j)]
<1>1. /\ Locator[i] = IF Up(i) = 0 THEN <<>> ELSE Append(Locator[Up(i)], Segment(i))
      /\ Locator[j] = IF Up(j) = 0 THEN <<>> ELSE Append(Locator[Up(j)], Segment(j))
  BY LocatorIs
<1>2. \A k \in {i, j} : Up(k) # 0 =>
         Locator[Up(k)] \in Seq(Designations) /\ Segment(k) \in Designations
  BY UpIs, LocatorType, WhatIsRead
<1>3. \A k \in {i, j} : Up(k) # 0 => Append(Locator[Up(k)], Segment(k)) # <<>>
  BY <1>2, AppendProperties
<1>4. ASSUME Up(i) # 0, Up(j) # 0
      PROVE  Append(Locator[Up(i)], Segment(i)) = Append(Locator[Up(j)], Segment(j))
             <=> Locator[Up(i)] = Locator[Up(j)] /\ Segment(i) = Segment(j)
  BY <1>2, <1>4, AppendInjective
<1> QED BY <1>1, <1>3, <1>4

IdAt(i) == <<LawAt(i)>> \o Locator[i]

LEMMA IdIs ==
    ASSUME SourceTypes, NEW i \in Indices
    PROVE  /\ IdAt(i) \in Ids /\ LawOf(IdAt(i)) = LawAt(i)
           /\ Up(i) = 0 => IdAt(i) = <<LawAt(i)>> \o <<>>
           /\ \A j \in Indices : IdAt(i) = IdAt(j) <=>
                 LawAt(i) = LawAt(j) /\ Locator[i] = Locator[j]
<1>1. \A k \in Indices : /\ LawAt(k) \in Laws
                         /\ Locator[k] \in Seq(Designations) /\ Len(Locator[k]) < k
  BY WhatIsRead, LocatorType
<1>2. \A k \in Indices : /\ Len(Locator[k]) \in 0..MaxObjects
                         /\ Locator[k] \in [1..Len(Locator[k]) -> Designations]
  <2> SUFFICES ASSUME NEW k \in Indices
               PROVE  /\ Len(Locator[k]) \in 0..MaxObjects
                      /\ Locator[k] \in [1..Len(Locator[k]) -> Designations]
    OBVIOUS
  <2>1. k \in Nat /\ k <= MaxObjects /\ MaxObjects \in Nat
    BY DocList, SourcesAssumption
  <2>2. /\ Len(Locator[k]) \in Nat
        /\ Locator[k] \in [1..Len(Locator[k]) -> Designations]
    BY <1>1, LenProperties
  <2> QED BY <1>1, <2>1, <2>2
<1>3. \A k \in Indices : IdAt(k) \in Ids /\ LawOf(IdAt(k)) = LawAt(k)
  BY <1>1, <1>2, SourcesAssumption DEF IdAt
<1>4. ASSUME NEW j \in Indices, IdAt(i) = IdAt(j)
      PROVE  LawAt(i) = LawAt(j) /\ Locator[i] = Locator[j]
  <2>1. LawAt(i) = LawAt(j)
    BY <1>3, <1>4
  <2> DEFINE S == Laws \cup Designations
  <2>2. /\ Locator[i] \in Seq(S) /\ Locator[j] \in Seq(S)
        /\ <<LawAt(i)>> \in Seq(S)
    BY <1>1
  <2>3. <<LawAt(i)>> \o Locator[i] = <<LawAt(i)>> \o Locator[j]
    BY <1>4, <2>1 DEF IdAt
  <2> HIDE DEF S
  <2>4. Locator[i] = Locator[j]
    BY <2>2, <2>3, ConcatSimplifications
  <2> QED BY <2>1, <2>4
<1>5. Up(i) = 0 => IdAt(i) = <<LawAt(i)>> \o <<>>
  BY LocatorIs DEF IdAt
<1> QED BY <1>3, <1>4, <1>5 DEF IdAt

----------------------------------------------------------------------------
(* The nodes of an adaptation are rows as LegalNode builds them.           *)
HasNodes ==
    /\ SourceTypes /\ file.format \in {"json", "xml"}
    /\ Readable /\ items = Adapted /\ crosswalk = <<>>

DepthAt(i) == IF file.format = "json" THEN Len(Locator[i]) ELSE doc[i].depth
FromAt(i) == IF file.format = "xml" \/ doc[i].own THEN doc[i].from ELSE file.from
ToAt(i) == IF file.format = "xml" \/ doc[i].own THEN doc[i].to ELSE file.to

LEMMA NodesAre ==
    ASSUME HasNodes
    PROVE  /\ items \in Seq(Nodes) /\ Len(items) = Len(doc) /\ DOMAIN items = Indices
           /\ \A i \in Indices :
                 items[i] = [id |-> IdAt(i),
                             parent |-> IF Up(i) = 0 THEN None ELSE IdAt(Up(i)),
                             kind |-> doc[i].kind, depth |-> DepthAt(i),
                             from |-> FromAt(i), to |-> ToAt(i), wording |-> i,
                             number |-> doc[i].num, source |-> "source"]
<1> DEFINE node(i) == [id |-> IdAt(i),
                       parent |-> IF Up(i) = 0 THEN None ELSE IdAt(Up(i)),
                       kind |-> doc[i].kind, depth |-> DepthAt(i),
                       from |-> FromAt(i), to |-> ToAt(i), wording |-> i,
                       number |-> doc[i].num, source |-> "source"]
<1>1. Indices = 1..Len(doc) /\ Len(doc) \in Nat /\ SourceTypes
  BY DocList DEF HasNodes
<1>2. ASSUME file.format = "json"
      PROVE  /\ items = [i \in Indices |-> items[i]]
             /\ \A i \in Indices : items[i] = node(i)
  <2>1. items = TreeNodes
    BY <1>2 DEF HasNodes, Adapted
  <2>2. items = [i \in Indices |-> items[i]]
    BY <2>1 DEF TreeNodes
  <2>3. ASSUME NEW i \in Indices PROVE items[i] = node(i)
    BY <1>2, <2>1, <2>3 DEF TreeNodes, Node, IdAt, DepthAt, FromAt, ToAt
  <2> QED BY <2>2, <2>3
<1>3. ASSUME file.format = "xml"
      PROVE  /\ items = [i \in Indices |-> items[i]]
             /\ \A i \in Indices : items[i] = node(i)
  <2>1. items = Mapped
    BY <1>3 DEF HasNodes, Adapted
  <2>2. items = [i \in Indices |-> items[i]]
    BY <2>1 DEF Mapped
  <2>3. ASSUME NEW i \in Indices PROVE items[i] = node(i)
    BY <1>3, <2>1, <2>3 DEF Mapped, Node, IdAt, DepthAt, FromAt, ToAt
  <2> QED BY <2>2, <2>3
<1>4. /\ items = [i \in Indices |-> items[i]]
      /\ \A i \in Indices : items[i] = node(i)
  BY <1>2, <1>3 DEF HasNodes
<1> HIDE DEF node
<1>5. items \in Seq(Nodes) /\ Len(items) = Len(doc) /\ DOMAIN items = Indices
  <2>1. \A i \in 1..Len(doc) : items[i] \in Nodes
    BY <1>1, <1>4 DEF Nodes, ToSet
  <2>2. items \in [1..Len(doc) -> Nodes]
    BY <1>1, <1>4, <2>1
  <2> QED BY <1>1, <2>2
<1> QED BY <1>4, <1>5 DEF node

LEMMA WhatIsReadOfNodes ==
    ASSUME HasNodes, NEW i \in Indices
    PROVE  /\ doc[i].ok /\ doc[i].kind \in Kinds /\ DepthAt(i) \in Nat
           /\ <<FromAt(i), ToAt(i)>> \in Windows
           /\ doc[i].num \in Nat \cup {None}
<1>1. doc[i].ok
  BY DEF HasNodes, Readable, JsonReadable, MappedReadable
<1>2. CASE file.format = "json"
  <2>1. Len(Locator[i]) \in Nat
    BY LocatorType, LenProperties DEF HasNodes
  <2> QED BY <1>1, <1>2, <2>1, DocList, ObjectRead DEF HasNodes, DepthAt, FromAt, ToAt
<1>3. CASE file.format = "xml"
  BY <1>1, <1>3, RowRead DEF HasNodes, DepthAt, FromAt, ToAt
<1> QED BY <1>2, <1>3 DEF HasNodes

LEMMA NodesTyped == HasNodes => TypeInv
<1> SUFFICES ASSUME HasNodes PROVE TypeInv
  OBVIOUS
<1>1. items \in Seq(Nodes) /\ \A n \in Nodes : \E i \in Indices : n = items[i]
  BY NodesAre DEF Nodes, ToSet
<1>2. crosswalk \in Seq(Entries) /\ Entries = {}
  BY DEF HasNodes, Entries, ToSet
<1>3. ASSUME NEW i \in Indices
      PROVE  LegalNode(items[i]) /\ items[i] # None
  <2> DEFINE n == items[i]
  <2>1. n = [id |-> IdAt(i),
             parent |-> IF Up(i) = 0 THEN None ELSE IdAt(Up(i)),
             kind |-> doc[i].kind, depth |-> DepthAt(i),
             from |-> FromAt(i), to |-> ToAt(i), wording |-> i,
             number |-> doc[i].num, source |-> "source"]
    BY NodesAre
  <2>2. IdAt(i) \in Ids /\ (Up(i) # 0 => IdAt(Up(i)) \in Ids)
    BY IdIs, UpIs DEF HasNodes
  <2>3. /\ doc[i].kind \in Kinds /\ DepthAt(i) \in Nat /\ i \in Nat
        /\ doc[i].num \in Nat \cup {None}
        /\ FromAt(i) \in Dates \cup {None} /\ ToAt(i) \in Dates \cup {None}
        /\ FromAt(i) # None /\ ToAt(i) # None => FromAt(i) < ToAt(i)
    <3>1. <<FromAt(i), ToAt(i)>> \in Windows
      BY WhatIsReadOfNodes
    <3>2. /\ FromAt(i) \in Dates \cup {None} /\ ToAt(i) \in Dates \cup {None}
          /\ FromAt(i) # None /\ ToAt(i) # None => FromAt(i) < ToAt(i)
      BY <3>1 DEF Windows
    <3>3. i \in Nat
      BY DocList DEF HasNodes
    <3> QED BY <3>2, <3>3, WhatIsReadOfNodes
  <2> HIDE DEF n
  <2>4. LegalNode(n)
    BY <2>1, <2>2, <2>3, IdIs DEF LegalNode, HasNodes
  <2>5. n \in [id : Ids, parent : Ids \cup {None}, kind : Kinds, depth : Nat,
               from : Dates \cup {None}, to : Dates \cup {None},
               wording : Nat, number : Nat \cup {None}, source : {"source"}]
    BY <2>1, <2>2, <2>3, IdIs DEF HasNodes
  <2>6. n # None
    BY <2>5, SourcesAssumption
  <2> QED BY <2>4, <2>6 DEF n
<1> QED BY <1>1, <1>2, <1>3 DEF TypeInv

(* The window of a node is the one that the source states.                 *)
LEMMA WindowIs ==
    ASSUME HasNodes, NEW i \in Indices
    PROVE  Window(items[i]) = WindowAt(i)
BY NodesAre DEF WindowAt, Window, InForce, FromAt, ToAt

----------------------------------------------------------------------------
(* Objects are one provision exactly when they have one node_id, unless a  *)
(* source_key takes the place of names.                                    *)

LEMMA SegmentIs ==
    ASSUME SourceTypes, NEW i \in Indices, NEW j \in Indices
    PROVE  /\ SameDesignation(i, j) => Segment(i) = Segment(j)
           /\ ~Confused /\ Segment(i) = Segment(j) => SameDesignation(i, j)
<1>1. SameDesignation(i, j) => Segment(i) = Segment(j)
  BY DEF SameDesignation, Segment
<1>2. ASSUME ~Confused, Segment(i) = Segment(j) PROVE SameDesignation(i, j)
  <2>1. \A k \in {i, j} : /\ doc[k].num \in Nat \cup {None}
                          /\ doc[k].name \notin Nat \cup {None}
    BY WhatIsRead
  <2>2. doc[i].kind = doc[j].kind
    BY <1>2 DEF Segment
  <2>3. doc[i].num = doc[j].num
    BY <1>2, <2>1 DEF Segment
  <2>4. CASE i = j
    BY <2>4 DEF SameDesignation
  <2>5. CASE i # j /\ doc[i].num = None
    <3>1. ~(file.key /\ \A k \in {i, j} : doc[k].name \in Unslugged)
      BY <1>2, <2>2, <2>3, <2>5 DEF Confused
    <3> QED BY <1>2, <2>1, <2>2, <2>3, <2>5, <3>1 DEF Segment, SameDesignation
  <2> QED BY <2>2, <2>3, <2>4, <2>5 DEF SameDesignation
<1> QED BY <1>1, <1>2

LawsAgree == \A i \in Indices : Up(i) # 0 => LawAt(i) = LawAt(Up(i))

LEMMA SameId ==
    ASSUME SourceTypes, Readable, NEW i \in Indices, NEW j \in Indices
    PROVE  /\ j \in SameProvision[i] => IdAt(i) = IdAt(j)
           /\ ~Confused /\ LawsAgree /\ IdAt(i) = IdAt(j) => j \in SameProvision[i]
<1> DEFINE Good(k) == \A m \in Indices :
              /\ m \in SameProvision[k] => IdAt(k) = IdAt(m)
              /\ ~Confused /\ LawsAgree /\ IdAt(k) = IdAt(m) => m \in SameProvision[k]
           Bad == {k \in Indices : ~Good(k)}
<1> SUFFICES ASSUME Bad # {} PROVE FALSE
  OBVIOUS
<1>1. Indices \subseteq Nat /\ 0 \notin Indices
  BY DocList
<1>2. PICK b \in Bad : \A k \in Bad : b <= k
  <2>1. Bad \subseteq Nat
    BY <1>1
  <2> HIDE DEF Bad
  <2> QED BY <2>1, LeastElement
<1>3. b \in Indices /\ ~Good(b) /\ \A k \in Indices : k < b => Good(k)
  BY <1>1, <1>2
<1> HIDE DEF Bad, Good
<1>4. ASSUME NEW m \in Indices
      PROVE  /\ m \in SameProvision[b] => IdAt(b) = IdAt(m)
             /\ ~Confused /\ LawsAgree /\ IdAt(b) = IdAt(m) => m \in SameProvision[b]
  <2>1. IdAt(b) = IdAt(m) <=> LawAt(b) = LawAt(m) /\ Locator[b] = Locator[m]
    BY <1>3, IdIs
  <2>2. m \in SameProvision[b] <=>
              /\ LawAt(b) = LawAt(m)
              /\ \/ Up(b) = 0 /\ Up(m) = 0
                 \/ /\ SameDesignation(b, m) /\ Up(b) # 0 /\ Up(m) # 0
                    /\ Up(m) \in SameProvision[Up(b)]
    BY <1>3, SameIs, UpIs
  <2>3. CASE Up(b) = 0 \/ Up(m) = 0
    BY <1>3, <2>1, <2>2, <2>3, LocatorsDiffer
  <2>4. CASE Up(b) # 0 /\ Up(m) # 0
    <3>1. Up(b) \in Indices /\ Up(m) \in Indices /\ Up(b) < b
      BY <1>1, <1>3, <2>4, UpIs
    <3>2. /\ Up(m) \in SameProvision[Up(b)] => IdAt(Up(b)) = IdAt(Up(m))
          /\ ~Confused /\ LawsAgree /\ IdAt(Up(b)) = IdAt(Up(m)) =>
                Up(m) \in SameProvision[Up(b)]
      BY <1>3, <3>1 DEF Good
    <3>3. IdAt(Up(b)) = IdAt(Up(m)) <=>
              LawAt(Up(b)) = LawAt(Up(m)) /\ Locator[Up(b)] = Locator[Up(m)]
      BY <3>1, IdIs
    <3>4. Locator[b] = Locator[m] <=>
              Segment(b) = Segment(m) /\ Locator[Up(b)] = Locator[Up(m)]
      BY <1>3, <2>4, LocatorsDiffer
    <3>5. LawsAgree => LawAt(b) = LawAt(Up(b)) /\ LawAt(m) = LawAt(Up(m))
      BY <1>3, <2>4 DEF LawsAgree
    <3>6. /\ SameDesignation(b, m) => Segment(b) = Segment(m)
          /\ ~Confused /\ Segment(b) = Segment(m) => SameDesignation(b, m)
      BY <1>3, SegmentIs
    <3> QED BY <2>1, <2>2, <2>4, <3>2, <3>3, <3>4, <3>5, <3>6
  <2> QED BY <2>3, <2>4
<1> QED BY <1>3, <1>4 DEF Good

----------------------------------------------------------------------------
(* What compiles                                                           *)

LEMMA CompiledUp ==
    ASSUME HasNodes, Accepted, NEW i \in Indices
    PROVE  /\ Up(i) = 0 => items[i].parent = None /\ items[i].depth = 0
           /\ Up(i) # 0 => /\ items[i].parent = items[Up(i)].id
                           /\ items[i].depth = items[Up(i)].depth + 1
                           /\ LawAt(i) = LawAt(Up(i))
<1>1. TypeInv /\ SourceTypes /\ LocalRules /\ Forest
  BY NodesTyped, AcceptedRows, ForestOfAccepted DEF HasNodes, NoIssueOfRows
<1>2. items[i] \in Nodes /\ items[i].id = IdAt(i)
  BY <1>1, NodesAre, ItemsList
<1>3. ASSUME Up(i) = 0 PROVE items[i].parent = None /\ items[i].depth = 0
  <2>1. items[i].parent = None
    BY <1>3, NodesAre
  <2> QED BY <1>1, <1>2, <2>1, DepthsAgree
<1>4. ASSUME Up(i) # 0
      PROVE  /\ items[i].parent = items[Up(i)].id
             /\ items[i].depth = items[Up(i)].depth + 1
             /\ LawAt(i) = LawAt(Up(i))
  <2>1. Up(i) \in Indices
    BY <1>1, <1>4, UpIs
  <2>2. items[Up(i)] \in Nodes /\ items[Up(i)].id = IdAt(Up(i))
    BY <1>1, <2>1, NodesAre, ItemsList
  <2>3. items[i].parent = IdAt(Up(i))
    BY <1>4, NodesAre
  <2>4. IdAt(Up(i)) # None
    BY <1>1, <2>1, IdIs, CorpusAssumption
  <2>5. items[i] \in Children /\ items[Up(i)] \in Versions(items[i].parent)
    BY <1>2, <2>2, <2>3, <2>4 DEF Children, Versions
  <2>6. /\ items[Up(i)].depth + 1 = items[i].depth
        /\ LawOf(items[i].parent) = LawOf(items[i].id)
    BY <1>1, <2>5, ParentLiesAbove
  <2> QED BY <1>1, <1>2, <2>1, <2>2, <2>3, <2>6, IdIs
<1> QED BY <1>3, <1>4

LEMMA CompiledIsWritten == SourceInv => CompiledAsWritten
<1> SUFFICES ASSUME SourceInv, phase = "compiled"
             PROVE  /\ DOMAIN items = Indices
                    /\ \A i \in Indices :
                          /\ items[i].kind = doc[i].kind
                          /\ LawOf(items[i].id) = LawAt(i)
                          /\ Window(items[i]) = WindowAt(i)
                          /\ Outermost(i) => items[i].parent = None /\ items[i].depth = 0
                          /\ \A j \in Indices : LiesIn(i, j) =>
                                /\ items[i].parent = items[j].id
                                /\ items[i].depth = items[j].depth + 1
                                /\ LawAt(i) = LawAt(j)
  BY DEF CompiledAsWritten
<1>1. HasNodes /\ Accepted /\ SourceTypes
  BY DocList DEF SourceInv, Courses, HasNodes
<1>2. DOMAIN items = Indices
  BY <1>1, NodesAre
<1>3. ASSUME NEW i \in Indices
      PROVE  /\ items[i].kind = doc[i].kind
             /\ LawOf(items[i].id) = LawAt(i)
             /\ Window(items[i]) = WindowAt(i)
  BY <1>1, NodesAre, IdIs, WindowIs
<1>4. ASSUME NEW i \in Indices
      PROVE  /\ Outermost(i) => items[i].parent = None /\ items[i].depth = 0
             /\ \A j \in Indices : LiesIn(i, j) =>
                   /\ items[i].parent = items[j].id
                   /\ items[i].depth = items[j].depth + 1
                   /\ LawAt(i) = LawAt(j)
  <2>1. \A j \in Indices : LiesIn(i, j) => j = Up(i) /\ Up(i) # 0
    BY <1>1, UpIs, DocList
  <2>2. Outermost(i) => Up(i) = 0
    BY <1>1, UpIs
  <2> QED BY <1>1, <2>1, <2>2, CompiledUp
<1> QED BY <1>2, <1>3, <1>4

LEMMA OneNodeIsOneProvision == SourceInv => OneNodeOneProvisionWithoutKey
<1> SUFFICES ASSUME SourceInv, ~file.key, phase = "compiled",
                    NEW i \in Indices, NEW j \in Indices, items[i].id = items[j].id
             PROVE  j \in SameProvision[i]
  BY DEF OneNodeOneProvisionWithoutKey, OneNodeOneProvision
<1>1. HasNodes /\ Accepted /\ SourceTypes /\ Readable
  BY DocList DEF SourceInv, Courses, HasNodes
<1>2. LawsAgree
  BY <1>1, CompiledUp DEF LawsAgree
<1>3. ~Confused
  BY DEF Confused
<1>4. IdAt(i) = IdAt(j)
  BY <1>1, NodesAre
<1> QED BY <1>1, <1>2, <1>3, <1>4, SameId

----------------------------------------------------------------------------
(* What is refused                                                         *)

(* The source gives no cause to refuse it.                                 *)
Causeless ==
    /\ Indices # {} /\ ~Confused /\ LawsAgree
    /\ \A i \in Indices : doc[i].ok /\ (Outermost(i) \/ Up(i) # 0)
    /\ \A i \in Indices : Up(i) = 0 => doc[i].kind = "law"
    /\ \A i \in Indices : Up(i) # 0 =>
          /\ doc[i].kind \in Allowed[doc[Up(i)].kind]
          /\ \E j \in Indices : /\ j \in SameProvision[Up(i)]
                                /\ WindowAt(i) \subseteq WindowAt(j)
    /\ file.format = "xml" => \A i \in Indices :
          doc[i].depth = IF Up(i) = 0 THEN 0 ELSE doc[Up(i)].depth + 1
    /\ \A i, j \in Indices : i < j /\ j \in SameProvision[i] =>
          /\ WindowAt(i) \cap WindowAt(j) = {} /\ doc[i].num = doc[j].num
          /\ file.format = "json" /\ doc[i].up = doc[j].up /\ doc[i].up # 0 => doc[j].own

LEMMA WithoutCause ==
    ASSUME SourceTypes, phase \in {"failed", "refused"}, ~RefusedWithCause
    PROVE  Causeless
<1> DEFINE same == SameProvision
           laid == {i \in Indices : \E j \in Indices : LiesIn(i, j)}
           around == [i \in laid |-> CHOOSE j \in Indices : LiesIn(i, j)]
<1>1. /\ doc # <<>> /\ ~Confused
      /\ \A i \in Indices : doc[i].ok /\ (Outermost(i) \/ i \in laid)
      /\ \A i \in laid : /\ LawAt(i) = LawAt(around[i])
                         /\ doc[i].kind \in Allowed[doc[around[i]].kind]
                         /\ \E j \in Indices : /\ j \in same[around[i]]
                                               /\ WindowAt(i) \subseteq WindowAt(j)
      /\ \A i \in Indices \ laid : doc[i].kind = "law"
      /\ file.format = "xml" => \A i \in Indices :
            doc[i].depth = IF i \in laid THEN doc[around[i]].depth + 1 ELSE 0
      /\ \A i, j \in Indices : i < j /\ j \in same[i] =>
            /\ WindowAt(i) \cap WindowAt(j) = {}
            /\ SameDesignation(i, j) \/ doc[i].num = doc[j].num
            /\ file.format = "json" /\ doc[i].up = doc[j].up /\ doc[i].up # 0 => doc[j].own
  BY DEF RefusedWithCause
<1>2. ASSUME NEW i \in Indices
      PROVE  /\ i \in laid <=> Up(i) # 0
             /\ Up(i) # 0 => around[i] = Up(i)
  <2>1. \A j \in Indices : LiesIn(i, j) <=> j = Up(i)
    BY UpIs
  <2>2. Up(i) # 0 <=> Up(i) \in Indices
    BY UpIs, DocList
  <2> QED BY <2>1, <2>2
<1> HIDE DEF laid, around
<1>3. Indices # {}
  BY <1>1, DocList DEF SourceTypes
<1>4. \A i, j \in Indices : SameDesignation(i, j) => doc[i].num = doc[j].num
  BY DEF SameDesignation
<1>5. LawsAgree
  BY <1>1, <1>2 DEF LawsAgree
<1>6. \A i \in Indices :
        /\ doc[i].ok /\ (Outermost(i) \/ Up(i) # 0)
        /\ Up(i) = 0 => doc[i].kind = "law"
        /\ Up(i) # 0 => /\ doc[i].kind \in Allowed[doc[Up(i)].kind]
                        /\ \E j \in Indices : /\ j \in SameProvision[Up(i)]
                                              /\ WindowAt(i) \subseteq WindowAt(j)
  BY <1>1, <1>2
<1>7. file.format = "xml" => \A i \in Indices :
        doc[i].depth = IF Up(i) = 0 THEN 0 ELSE doc[Up(i)].depth + 1
  BY <1>1, <1>2
<1> QED BY <1>1, <1>3, <1>4, <1>5, <1>6, <1>7 DEF Causeless

LEMMA ReadableWithoutCause ==
    ASSUME SourceTypes, file.format \in {"json", "xml"}, Causeless
    PROVE  Readable
<1>1. CASE file.format = "xml"
  <2>1. \A i \in Indices : doc[i].parent # None => ParentRow(i) # 0
    BY <1>1 DEF Causeless, Outermost, Up
  <2> QED BY <1>1, <2>1 DEF Readable, MappedReadable, Causeless
<1>2. CASE file.format = "json"
  <2> SUFFICES ASSUME NEW i \in Indices, Collides(i) PROVE FALSE
    BY <1>2 DEF Readable, JsonReadable, Causeless
  <2>1. PICK j \in 1..(i - 1) : doc[j].up = doc[i].up /\ Segment(j) = Segment(i)
    BY DEF Collides
  <2>2. /\ j \in Indices /\ j < i /\ doc[i].up # 0 /\ ~doc[i].own
        /\ Up(i) = doc[i].up /\ Up(j) = Up(i) /\ Up(i) # 0
    BY <1>2, <2>1, DocList DEF Collides, Up
  <2>3. SameDesignation(j, i)
    BY <2>1, <2>2, SegmentIs DEF Causeless
  <2>4. LawAt(j) = LawAt(i)
    BY <2>2 DEF Causeless, LawsAgree
  <2>5. \A k \in Indices : k \in SameProvision[k]
    <3> DEFINE Bad == {k \in Indices : k \notin SameProvision[k]}
    <3> SUFFICES ASSUME Bad # {} PROVE FALSE
      OBVIOUS
    <3>1. PICK b \in Bad : \A k \in Bad : b <= k
      <4>1. Bad \subseteq Nat
        BY DocList
      <4> HIDE DEF Bad
      <4> QED BY <4>1, LeastElement
    <3>2. Outermost(b) \/ (Up(b) # 0 /\ Up(b) \in Indices /\ Up(b) < b)
      <4>1. b \in Indices /\ b \in Nat
        BY DocList
      <4> QED BY <4>1, UpIs DEF Causeless
    <3>3. Up(b) # 0 => Up(b) \in SameProvision[Up(b)] \/ Outermost(b)
      BY <3>1, <3>2, DocList
    <3>4. SameDesignation(b, b)
      BY DEF SameDesignation
    <3> QED BY <3>2, <3>3, <3>4, SameIs
  <2>6. i \in SameProvision[j]
    <3>1. Up(i) \in Indices /\ Up(i) \in SameProvision[Up(j)]
      BY <2>2, <2>5, UpIs
    <3> QED BY <2>2, <2>3, <2>4, <3>1, SameIs
  <2> QED BY <1>2, <2>2, <2>6, <2>1 DEF Causeless
<1> QED BY <1>1, <1>2

(* Rows of one node_id are one provision, and so in one place.             *)
LEMMA RowsOfOneNode ==
    ASSUME HasNodes, Causeless, NEW i \in Indices, NEW j \in Indices,
           items[i].id = items[j].id
    PROVE  /\ items[i].parent = items[j].parent /\ items[i].kind = items[j].kind
           /\ items[i].number = items[j].number
           /\ i # j => Window(items[i]) \cap Window(items[j]) = {}
<1>1. SourceTypes /\ Readable /\ ~Confused /\ LawsAgree
  BY DEF HasNodes, Causeless
<1>2. IdAt(i) = IdAt(j)
  BY NodesAre
<1>3. j \in SameProvision[i] /\ i \in SameProvision[j]
  BY <1>1, <1>2, SameId
<1>4. i = j \/ i < j \/ j < i
  BY <1>1, DocList
<1>5. doc[i].num = doc[j].num
  BY <1>3, <1>4 DEF Causeless
<1>6. i # j => WindowAt(i) \cap WindowAt(j) = {}
  BY <1>3, <1>4 DEF Causeless
<1>7. doc[i].kind = doc[j].kind /\ (Up(i) = 0 <=> Up(j) = 0)
  <2>1. \/ Up(i) = 0 /\ Up(j) = 0
        \/ SameDesignation(i, j) /\ Up(i) # 0 /\ Up(j) # 0
    BY <1>1, <1>3, SameIs, UpIs
  <2> QED BY <2>1 DEF Causeless, SameDesignation
<1>8. Up(i) # 0 => IdAt(Up(i)) = IdAt(Up(j))
  <2> SUFFICES ASSUME Up(i) # 0 PROVE IdAt(Up(i)) = IdAt(Up(j))
    OBVIOUS
  <2>1. Up(i) \in Indices /\ Up(j) \in Indices
    BY <1>1, <1>7, UpIs
  <2>2. LawAt(Up(i)) = LawAt(Up(j))
    BY <1>1, <1>2, <1>7, IdIs DEF LawsAgree
  <2>3. Locator[Up(i)] = Locator[Up(j)]
    BY <1>1, <1>2, <1>7, IdIs, LocatorsDiffer
  <2> QED BY <1>1, <2>1, <2>2, <2>3, IdIs
<1> QED BY <1>5, <1>6, <1>7, <1>8, NodesAre, WindowIs

(* The first object of a law is a root, and roots have no segments.        *)
LEMMA RootOfLaw ==
    ASSUME HasNodes, Causeless, NEW i \in Indices
    PROVE  \E b \in Indices : Up(b) = 0 /\ LawAt(b) = LawAt(i)
<1>1. SourceTypes /\ LawsAgree
  BY DEF HasNodes, Causeless
<1> DEFINE Of == {k \in Indices : LawAt(k) = LawAt(i)}
<1>2. Of # {}
  OBVIOUS
<1>3. PICK b \in Of : \A k \in Of : b <= k
  <2>1. Of \subseteq Nat
    BY <1>1, DocList
  <2> HIDE DEF Of
  <2> QED BY <1>2, <2>1, LeastElement
<1>4. Up(b) = 0
  <2> SUFFICES ASSUME Up(b) # 0 PROVE FALSE
    OBVIOUS
  <2>1. Up(b) \in Indices /\ Up(b) < b /\ b \in Nat /\ Up(b) \in Nat
    BY <1>1, UpIs, DocList
  <2>2. Up(b) \in Of
    BY <1>1, <2>1 DEF LawsAgree
  <2> HIDE DEF Of
  <2> QED BY <1>3, <2>1, <2>2
<1> QED BY <1>4

LEMMA AcceptedWithoutCause == HasNodes /\ Causeless => Accepted
<1> SUFFICES ASSUME HasNodes, Causeless PROVE Accepted
  OBVIOUS
<1>1. /\ SourceTypes /\ Readable /\ LawsAgree /\ TypeInv /\ DOMAIN items = Indices
      /\ crosswalk = <<>> /\ file.format \in {"json", "xml"}
  BY NodesTyped, NodesAre DEF HasNodes, Causeless
<1>2. \A n \in Nodes : \E i \in Indices : n = items[i]
  BY NodesAre DEF Nodes, ToSet
<1>3. \A i \in Indices : items[i] \in Nodes
  BY <1>1, ItemsList
<1>4. /\ Nodes # {} /\ OneVersionAtATime
      /\ \A m, n \in Nodes : m.id = n.id =>
            m.parent = n.parent /\ m.kind = n.kind /\ m.number = n.number
  BY <1>1, <1>2, <1>3, RowsOfOneNode DEF OneVersionAtATime, Causeless
<1>5. ASSUME NEW i \in Indices
      PROVE  /\ items[i] \in Children <=> Up(i) # 0
             /\ Up(i) = 0 => items[i].kind = "law" /\ items[i].depth = 0
             /\ Up(i) # 0 =>
                   /\ Up(i) \in Indices /\ items[Up(i)] \in Parents(items[i])
                   /\ items[i].depth = items[Up(i)].depth + 1
                   /\ LawOf(items[Up(i)].id) = LawOf(items[i].id)
                   /\ items[i].kind \in Allowed[items[Up(i)].kind]
                   /\ \E p \in Parents(items[i]) :
                         Window(items[i]) \subseteq Window(p)
  <2>1. CASE Up(i) = 0
    <3>1. items[i].parent = None /\ items[i].kind = "law"
      BY <2>1, NodesAre DEF Causeless
    <3>2. items[i].depth = 0
      <4>1. file.format = "json" => DepthAt(i) = 0
        BY <1>1, <2>1, LocatorIs DEF DepthAt
      <4>2. file.format = "xml" => DepthAt(i) = 0
        BY <2>1 DEF DepthAt, Causeless
      <4>3. DepthAt(i) = 0
        BY <1>1, <4>1, <4>2
      <4> QED BY <4>3, NodesAre
    <3> QED BY <2>1, <3>1, <3>2 DEF Children
  <2>2. CASE Up(i) # 0
    <3>1. Up(i) \in Indices
      BY <1>1, <2>2, UpIs
    <3>2. items[i].parent = IdAt(Up(i)) /\ items[Up(i)].id = IdAt(Up(i))
      BY <2>2, <3>1, NodesAre
    <3>3. items[i] \in Children
      BY <1>1, <1>3, <3>1, <3>2, IdIs, CorpusAssumption DEF Children
    <3>4. items[Up(i)] \in Parents(items[i])
      BY <1>3, <3>1, <3>2 DEF Parents, Versions
    <3>5. items[i].depth = items[Up(i)].depth + 1
      <4>1. file.format = "json" => DepthAt(i) = DepthAt(Up(i)) + 1
        <5>1. /\ Locator[Up(i)] \in Seq(Designations) /\ Segment(i) \in Designations
              /\ Locator[i] = Append(Locator[Up(i)], Segment(i))
          BY <1>1, <2>2, <3>1, LocatorType, LocatorIs, WhatIsRead
        <5> QED BY <5>1, AppendProperties DEF DepthAt
      <4>2. file.format = "xml" => DepthAt(i) = DepthAt(Up(i)) + 1
        BY <2>2 DEF DepthAt, Causeless
      <4>3. DepthAt(i) = DepthAt(Up(i)) + 1
        BY <1>1, <4>1, <4>2
      <4> QED BY <3>1, <4>3, NodesAre
    <3>6. LawOf(items[Up(i)].id) = LawOf(items[i].id)
      BY <1>1, <2>2, <3>1, NodesAre, IdIs DEF LawsAgree
    <3>7. items[i].kind \in Allowed[items[Up(i)].kind]
      BY <2>2, <3>1, NodesAre DEF Causeless
    <3>8. PICK j \in Indices : /\ j \in SameProvision[Up(i)]
                               /\ WindowAt(i) \subseteq WindowAt(j)
      BY <2>2 DEF Causeless
    <3>9. items[j].id = items[i].parent
      BY <1>1, <3>1, <3>2, <3>8, SameId, NodesAre
    <3>10. items[j] \in Parents(items[i])
      BY <1>3, <3>9 DEF Parents, Versions
    <3>11. Window(items[i]) \subseteq Window(items[j])
      BY <3>8, WindowIs
    <3> QED BY <2>2, <3>1, <3>3, <3>4, <3>5, <3>6, <3>7, <3>10, <3>11
  <2> QED BY <2>1, <2>2
<1>6. \A n \in RootRows : n.kind = "law" /\ n.depth = 0
  BY <1>2, <1>5 DEF RootRows
<1>7. \A n \in RootRows : n.id = <<LawOf(n.id)>> \o <<>>
  <2> SUFFICES ASSUME NEW n \in RootRows PROVE n.id = <<LawOf(n.id)>> \o <<>>
    OBVIOUS
  <2>1. PICK i \in Indices : n = items[i]
    BY <1>2 DEF RootRows
  <2>2. Up(i) = 0
    BY <1>5, <2>1 DEF RootRows
  <2> QED BY <1>1, <2>1, <2>2, NodesAre, IdIs
<1>8. \A n \in Nodes : \E r \in RootRows : LawOf(r.id) = LawOf(n.id)
  <2> SUFFICES ASSUME NEW i \in Indices
               PROVE  \E r \in RootRows : LawOf(r.id) = LawOf(items[i].id)
    BY <1>2
  <2>1. PICK b \in Indices : Up(b) = 0 /\ LawAt(b) = LawAt(i)
    BY RootOfLaw
  <2>2. items[b] \in RootRows
    BY <1>3, <1>5, <2>1 DEF RootRows
  <2>3. LawOf(items[b].id) = LawAt(b) /\ LawOf(items[i].id) = LawAt(i)
    BY <1>1, NodesAre, IdIs
  <2> QED BY <2>1, <2>2, <2>3
<1>9. \A n \in Children :
        /\ \E p \in Parents(n) : /\ p.depth + 1 = n.depth
                                 /\ LawOf(p.id) = LawOf(n.id)
                                 /\ n.kind \in Allowed[p.kind]
        /\ \E p \in Parents(n) : Window(n) \subseteq Window(p)
  <2> SUFFICES ASSUME NEW n \in Children
               PROVE  /\ \E p \in Parents(n) : /\ p.depth + 1 = n.depth
                                               /\ LawOf(p.id) = LawOf(n.id)
                                               /\ n.kind \in Allowed[p.kind]
                      /\ \E p \in Parents(n) : Window(n) \subseteq Window(p)
    OBVIOUS
  <2>1. PICK i \in Indices : n = items[i]
    BY <1>2 DEF Children
  <2> QED BY <1>5, <2>1
<1>10. WellPlaced
  BY <1>4, <1>6, <1>7, <1>8, <1>9 DEF WellPlaced
<1> QED BY <1>1, <1>10, WellPlacedIsAccepted

LEMMA RefusedIsCaused == SourceInv => RefusedWithCause
<1> SUFFICES ASSUME SourceInv, phase \in {"failed", "refused"}, ~RefusedWithCause
             PROVE  FALSE
  BY DEF RefusedWithCause
<1>1. SourceTypes /\ file.format \in {"json", "xml"}
  BY DocList DEF SourceInv, Courses
<1>2. Causeless
  BY <1>1, WithoutCause
<1>3. Readable
  BY <1>1, <1>2, ReadableWithoutCause
<1>4. CASE phase = "failed"
  BY <1>3, <1>4 DEF SourceInv, Courses
<1>5. CASE phase = "refused"
  <2>1. HasNodes /\ ~Accepted
    BY <1>1, <1>5 DEF SourceInv, Courses, HasNodes
  <2> QED BY <1>2, <2>1, AcceptedWithoutCause
<1> QED BY <1>4, <1>5

----------------------------------------------------------------------------
(* The invariant is inductive.                                             *)

LEMMA SourceUnchanged ==
    UNCHANGED <<file, doc>> => /\ Readable' = Readable /\ Adapted' = Adapted
                               /\ SourceTypes' = SourceTypes
<1> SUFFICES ASSUME UNCHANGED <<file, doc>>
             PROVE  /\ Readable' = Readable /\ Adapted' = Adapted
                    /\ SourceTypes' = SourceTypes
  OBVIOUS
<1>1. SourceTypes' = SourceTypes
  BY DEF SourceTypes, Indices
<1>2. Readable' = Readable
  BY DEF Readable, JsonReadable, MappedReadable, Collides, Indices, Segment, ParentRow
<1>3. Adapted' = Adapted
  BY DEF Adapted, TreeNodes, Mapped, Node, Locator, Up, ParentRow, Segment, LawAt, Indices
<1> QED BY <1>1, <1>2, <1>3

LEMMA AcceptedUnchanged == UNCHANGED <<items, crosswalk>> => Accepted' = Accepted
BY DEF Accepted, Diagnostics, Code, Duplicated, RootRows, WrongDepth, Overlapping,
       Drifting, Orphans, WrongLaw, WrongKind, Uncovered, WrongRootCount, OnCycle,
       Unreachable, CrosswalkDiagnostics, CrosswalkCode, RepeatedTarget,
       Mistargeted, OtherSource, AgainstRepetition, Nodes, Children, Raised,
       Parents, Versions, Present, Walk, First, Target, Entries, EntriesOf,
       Neighbours

LEMMA SourceInvHolds == SourceSpec => []SourceInv
<1>1. SourceInit => SourceInv
  BY SourcesAssumption
     DEF SourceInit, Init, SourceInv, SourceTypes, Courses, Indices, RowsRead
<1>2. SourceInv /\ [SourceNext]_sourceVars => SourceInv'
  <2> SUFFICES ASSUME SourceInv, [SourceNext]_sourceVars PROVE SourceInv'
    OBVIOUS
  <2> USE DEF SourceInv
  <2>1. ASSUME NEW n \in Rows, ReadCorpusRow(n) PROVE SourceInv'
    <3>1. SourceTypes' /\ Readable' = Readable
      BY <2>1, SourceUnchanged DEF ReadCorpusRow
    <3>2. phase = "corpus" /\ phase' = "corpus" /\ file' = file
      BY <2>1 DEF ReadCorpusRow
    <3>3. RowsRead'
      BY <2>1, <3>2 DEF ReadCorpusRow, ReadRow, Courses, RowsRead
    <3> QED BY <3>1, <3>2, <3>3 DEF Courses
  <2>2. ASSUME NEW x \in Links, ReadCrosswalkRow(x) PROVE SourceInv'
    <3>1. SourceTypes'
      BY <2>2, SourceUnchanged DEF ReadCrosswalkRow
    <3>2. phase = "corpus" /\ phase' = "corpus" /\ file' = file
      BY <2>2 DEF ReadCrosswalkRow
    <3>3. RowsRead'
      BY <2>2, <3>2 DEF ReadCrosswalkRow, ReadLink, Courses, RowsRead
    <3> QED BY <3>1, <3>2, <3>3 DEF Courses
  <2>3. ASSUME NEW o \in Objects, NEW up \in {0} \cup Indices, ReadObject(o, up)
        PROVE  SourceInv'
    <3>1. /\ phase = "parse" /\ file.format = "json" /\ Len(doc) < MaxObjects
          /\ doc' = Append(doc, Placed(o, up))
          /\ UNCHANGED <<items, crosswalk, file, phase>>
      BY <2>3 DEF ReadObject
    <3>2. Len(doc) \in Nat /\ Indices = 1..Len(doc) /\ MaxObjects \in Nat
      BY DocList, SourcesAssumption
    <3>3. up \in 0..Len(doc) /\ Placed(o, up) \in Read
      BY <3>1, <3>2 DEF Read
    <3>4. /\ doc' \in Seq(Read) /\ Len(doc') = Len(doc) + 1
          /\ \A i \in 1..Len(doc) : doc'[i] = doc[i]
          /\ doc'[Len(doc) + 1] = Placed(o, up)
      BY <3>1, <3>3, AppendProperties DEF SourceTypes
    <3>5. Indices' = 1..(Len(doc) + 1)
      BY <3>4 DEF Indices
    <3>6. \A i \in Indices' : \E p \in Objects, q \in 0..(i - 1) : doc'[i] = Placed(p, q)
      <4> SUFFICES ASSUME NEW i \in Indices'
                   PROVE  \E p \in Objects, q \in 0..(i - 1) : doc'[i] = Placed(p, q)
        OBVIOUS
      <4>1. CASE i \in 1..Len(doc)
        BY <3>1, <3>2, <3>4, <4>1 DEF SourceTypes
      <4>2. CASE i = Len(doc) + 1
        <5>1. up \in 0..(i - 1)
          BY <3>2, <3>3, <4>2
        <5> QED BY <3>4, <4>2, <5>1
      <4> QED BY <3>2, <3>5, <4>1, <4>2
    <3>7. SourceTypes'
      <4>1. /\ file' \in Files /\ file'.format = "json"
            /\ doc' \in Seq(Read) /\ Len(doc') <= MaxObjects
        BY <3>1, <3>2, <3>4 DEF SourceTypes
      <4> QED BY <3>6, <4>1 DEF SourceTypes
    <3> QED BY <3>1, <3>7 DEF Courses
  <2>4. ASSUME NEW r \in MappedRows, SelectRow(r) PROVE SourceInv'
    <3>1. /\ phase = "parse" /\ file.format = "xml" /\ Len(doc) < MaxObjects
          /\ doc' = Append(doc, r) /\ UNCHANGED <<items, crosswalk, file, phase>>
      BY <2>4 DEF SelectRow
    <3>2. Len(doc) \in Nat /\ Indices = 1..Len(doc) /\ MaxObjects \in Nat
      BY DocList, SourcesAssumption
    <3>3. /\ doc' \in Seq(Read) /\ Len(doc') = Len(doc) + 1
          /\ \A i \in 1..Len(doc) : doc'[i] = doc[i]
          /\ doc'[Len(doc) + 1] = r
      BY <3>1, AppendProperties DEF SourceTypes, Read
    <3>4. Indices' = 1..(Len(doc) + 1)
      BY <3>3 DEF Indices
    <3>5. \A i \in Indices' : doc'[i] \in MappedRows
      BY <3>1, <3>2, <3>3, <3>4 DEF SourceTypes
    <3>6. SourceTypes'
      <4>1. /\ file' \in Files /\ file'.format = "xml"
            /\ doc' \in Seq(Read) /\ Len(doc') <= MaxObjects
        BY <3>1, <3>2, <3>3 DEF SourceTypes
      <4> QED BY <3>5, <4>1 DEF SourceTypes
    <3> QED BY <3>1, <3>6 DEF Courses
  <2>5. CASE AdaptJson
    <3>1. SourceTypes' /\ Readable' = Readable /\ Adapted' = Adapted
      BY <2>5, SourceUnchanged DEF AdaptJson
    <3> QED BY <2>5, <3>1 DEF AdaptJson, Courses, Readable, Adapted
  <2>6. CASE AdaptMapped
    <3>1. SourceTypes' /\ Readable' = Readable /\ Adapted' = Adapted
      BY <2>6, SourceUnchanged DEF AdaptMapped
    <3> QED BY <2>6, <3>1 DEF AdaptMapped, Courses, Readable, Adapted
  <2>7. CASE Compile
    <3>1. /\ SourceTypes' /\ Readable' = Readable /\ Adapted' = Adapted
          /\ Accepted' = Accepted
      BY <2>7, SourceUnchanged, AcceptedUnchanged DEF Compile
    <3> QED BY <2>7, <3>1 DEF Compile, Courses
  <2>8. CASE UNCHANGED sourceVars
    <3>1. /\ SourceTypes' /\ Readable' = Readable /\ Adapted' = Adapted
          /\ Accepted' = Accepted
      BY <2>8, SourceUnchanged, AcceptedUnchanged DEF sourceVars
    <3> QED BY <2>8, <3>1 DEF sourceVars, Courses, RowsRead
  <2> QED BY <2>1, <2>2, <2>3, <2>4, <2>5, <2>6, <2>7, <2>8 DEF SourceNext
<1> QED BY <1>1, <1>2, PTL DEF SourceSpec

LEMMA SourceTypeInv == SourceInv => TypeInv
<1> SUFFICES ASSUME SourceInv PROVE TypeInv
  OBVIOUS
<1>1. CASE phase \in {"corpus", "parse", "failed"}
  <2>1. phase = "corpus" => RowsRead
    BY DEF SourceInv, Courses
  <2>2. phase # "corpus" => items = <<>> /\ crosswalk = <<>>
    BY <1>1 DEF SourceInv, Courses
  <2>3. RowsRead
    BY <2>1, <2>2, EmptySeq DEF RowsRead
  <2> QED BY <2>3, RowsReadAreTyped
<1>2. CASE phase \in {"adapted", "compiled", "refused"}
  <2>1. HasNodes
    BY <1>2, DocList DEF SourceInv, Courses, HasNodes
  <2> QED BY <2>1, NodesTyped
<1> QED BY <1>1, <1>2 DEF SourceInv, Courses

(* Also of nodes that an adapter made: what the validator accepts is a     *)
(* forest with one tree per law, of the depths that its rows state.        *)
THEOREM AcceptedSourceIsForest == SourceSpec => []AcceptedIsForest
BY SourceInvHolds, SourceTypeInv, ForestWhenAccepted, PTL

(* Also of nodes that an adapter made: an accepted corpus shows at every   *)
(* date at most one version of a node, and never one without its parent.   *)
THEOREM AcceptedSourceAtEveryDate == SourceSpec => []AcceptedAtEveryDate
BY SourceInvHolds, SourceTypeInv, DatesOfAccepted, PTL

(* However a corpus and its crosswalk came before the validator, an        *)
(* accepted crosswalk gives every legacy id one answer in this corpus or   *)
(* an openly undecided one.                                                *)
THEOREM AcceptedSourceResolves == SourceSpec => []AcceptedResolves
BY SourceInvHolds, SourceTypeInv, ResolvesOfAccepted, PTL

(* However a corpus came before the validator, nothing well formed is      *)
(* refused.                                                                *)
THEOREM WellFormedSourceIsAccepted == SourceSpec => []WellFormedIsAccepted
BY SourceInvHolds, SourceTypeInv, WellFormedAccepted, PTL

(* Whatever json_adapter or _mapped reads, what compiles has one node for  *)
(* each object or row, below the one it lies in, with the law and the      *)
(* window that the source states and its true depth.                       *)
THEOREM SourceCompiledAsWritten == SourceSpec => []CompiledAsWritten
BY SourceInvHolds, CompiledIsWritten, PTL

(* In a source without source_key, of any size and in any nesting, objects *)
(* share a node_id only if they are one provision.                         *)
THEOREM SourceNodeIsProvision == SourceSpec => []OneNodeOneProvisionWithoutKey
BY SourceInvHolds, OneNodeIsOneProvision, PTL

(* Adapters and validator together refuse a source only for a cause that   *)
(* can be found in it, by looking at what lies in what.                    *)
THEOREM SourceRefusedWithCause == SourceSpec => []RefusedWithCause
BY SourceInvHolds, RefusedIsCaused, PTL
=============================================================================
