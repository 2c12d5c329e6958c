--------------------------- MODULE EgovTreeProofs ---------------------------
(***************************************************************************)
(* The e-Gov adapter is right about element trees of any size, with any    *)
(* tags and numbers: what compiles has one node per recognized element in  *)
(* the place that the source gives it, and what is refused gives cause.    *)
(***************************************************************************)
EXTENDS EgovTree, FiniteSetTheorems, WellFoundedInduction, TLAPS

(* What is proved of the validator for any corpus, for this one            *)
Checks == INSTANCE CorpusValidationProofs WITH
    items <- nodes, Ids <- Locators, Laws <- {"law"},
    LawOf <- TheLaw,
    Rows <- {}, MaxRows <- MaxElements, MaxDate <- 0, None <- None,
    crosswalk <- <<>>, Links <- {}, MaxLinks <- 0

----------------------------------------------------------------------------
(* Numbers and recursion                                                   *)

LEMMA LeastElement ==
    ASSUME NEW S, S \subseteq Nat, S # {}
    PROVE  \E m \in S : \A k \in S : m <= k
<1>1. PICK m \in S : \A k \in S : ~(<<k, m>> \in OpToRel(<, Nat))
  BY NatLessThanWellFounded, WFMin
<1>2. \A k \in S : ~(k < m)
  BY <1>1 DEF OpToRel
<1> QED BY <1>2

(* What is defined by a step from an earlier place to a later exists.      *)
Recursive(n, from, V, base, step) ==
    /\ n \in Nat /\ from \in [1..n -> Nat] /\ \A i \in 1..n : from[i] < i
    /\ base \in V /\ step \in [(1..n) \X V -> V]
Solution(f, n, from, V, base, step) ==
    /\ f \in [0..n -> V] /\ f[0] = base
    /\ \A i \in 1..n : f[i] = step[<<i, f[from[i]]>>]

LEMMA Recursion ==
    ASSUME NEW n, NEW from, NEW V, NEW base, NEW step,
           Recursive(n, from, V, base, step)
    PROVE  \E f : Solution(f, n, from, V, base, step)
<1> USE DEF Recursive, Solution
<1> DEFINE Is(f, m) == /\ f \in [0..m -> V] /\ f[0] = base
                       /\ \A i \in 1..m : f[i] = step[<<i, f[from[i]]>>]
           Bad == {m \in 0..n : ~\E f : Is(f, m)}
<1> SUFFICES ASSUME Bad # {} PROVE FALSE
  <2>1. n \in 0..n
    OBVIOUS
  <2> QED BY <2>1
<1>1. PICK b \in Bad : \A m \in Bad : b <= m
  <2>1. Bad \subseteq Nat
    OBVIOUS
  <2> HIDE DEF Bad
  <2> QED BY <2>1, LeastElement
<1>2. CASE b = 0
  <2>1. Is([i \in 0..0 |-> base], 0)
    OBVIOUS
  <2> QED BY <1>1, <1>2, <2>1
<1>3. CASE b # 0
  <2>1. b \in 1..n /\ b - 1 \in 0..n /\ b - 1 \notin Bad
    <3>1. b \in 1..n /\ b - 1 \in 0..n
      BY <1>3
    <3>2. ~(b <= b - 1)
      BY <3>1
    <3> HIDE DEF Bad
    <3> QED BY <1>1, <3>1, <3>2
  <2>2. PICK g : Is(g, b - 1)
    BY <2>1
  <2> DEFINE f == [i \in 0..b |-> IF i = b THEN step[<<b, g[from[b]]>>] ELSE g[i]]
  <2>3. from[b] \in 0..(b - 1) /\ step[<<b, g[from[b]]>>] \in V
    <3>1. from[b] \in 0..(b - 1)
      BY <2>1
    <3>2. g[from[b]] \in V
      BY <2>2, <3>1
    <3> QED BY <2>1, <3>1, <3>2
  <2>4. f \in [0..b -> V] /\ f[0] = base
    BY <2>1, <2>2, <2>3
  <2>5. ASSUME NEW i \in 1..b PROVE f[i] = step[<<i, f[from[i]]>>]
    <3>1. i \in 1..n /\ from[i] \in 0..(i - 1)
      BY <2>1
    <3>2. f[from[i]] = g[from[i]]
      BY <2>1, <3>1
    <3>3. CASE i = b
      <4>1. f[b] = step[<<b, g[from[b]]>>]
        BY <2>1
      <4> QED BY <3>2, <3>3, <4>1
    <3>4. CASE i # b
      <4>1. i \in 1..(b - 1)
        BY <2>1, <3>4
      <4> QED BY <2>1, <2>2, <3>2, <4>1
    <3> QED BY <3>3, <3>4
  <2>6. Is(f, b)
    BY <2>4, <2>5
  <2> QED BY <1>1, <2>6
<1> QED BY <1>2, <1>3

LEMMA SameAppend ==
    ASSUME NEW s, NEW t, NEW x, NEW y, NEW A, NEW B, s \in Seq(A), t \in Seq(B),
           Append(s, x) = Append(t, y)
    PROVE  s = t /\ x = y
<1>1. Len(Append(s, x)) = Len(s) + 1 /\ Len(Append(t, y)) = Len(t) + 1
  OBVIOUS
<1>2. Len(s) = Len(t) /\ Len(s) \in Nat
  BY <1>1
<1>3. x = Append(s, x)[Len(s) + 1] /\ y = Append(t, y)[Len(t) + 1]
  OBVIOUS
<1>4. \A k \in 1..Len(s) : s[k] = Append(s, x)[k] /\ t[k] = Append(t, y)[k]
  BY <1>2
<1> QED BY <1>2, <1>3, <1>4

----------------------------------------------------------------------------
(* The tree that is read                                                   *)

Parsed == {Place(e, up) : e \in Elements, up \in Nat} \cup {LawBody}

DocTypes ==
    /\ doc \in Seq(Parsed) /\ Len(doc) \in 1..MaxElements
    /\ doc[1] = LawBody
    /\ \A i \in 2..Len(doc) : doc[i].up \in 1..(i - 1)

(* What lies between the start of an element and its end is inside it.     *)
Nested == \A i \in 2..Len(doc) : \A j \in doc[i].up..(i - 1) : j \in Subtree(doc[i].up)

LEMMA DocIs ==
    ASSUME DocTypes
    PROVE  /\ Len(doc) \in Nat /\ Indices = 1..Len(doc) /\ 1 \in Indices
           /\ ~IsNode(1)
           /\ \A i \in Indices : /\ i \in Nat /\ doc[i].tag \in Tags
                                 /\ doc[i].up \in 0..(i - 1)
                                 /\ doc[i].up = 0 <=> i = 1
                                 /\ i # 1 => i \in 2..Len(doc) /\ doc[i].up \in Indices
<1>1. Len(doc) \in Nat /\ Indices = 1..Len(doc) /\ 1 \in Indices
  BY DEF DocTypes, Indices
<1>2. \A i \in Indices : doc[i].tag \in Tags
  <2>1. ASSUME NEW e \in Elements, NEW up \in Nat PROVE Place(e, up).tag \in Tags
    BY DEF Place, Tags
  <2>2. ASSUME NEW p \in Parsed PROVE p.tag \in Tags
    <3>1. CASE p \in {Place(e, up) : e \in Elements, up \in Nat}
      <4>1. PICK e \in Elements, up \in Nat : p = Place(e, up)
        BY <3>1
      <4> QED BY <2>1, <4>1
    <3>2. CASE p = LawBody
      BY <3>2 DEF Tags, LawBody
    <3> QED BY <3>1, <3>2 DEF Parsed
  <2> QED BY <2>2 DEF DocTypes, Indices
<1>3. doc[1].up = 0 /\ doc[1].tag = "LawBody"
  <2>1. LawBody.up = 0 /\ LawBody.tag = "LawBody"
    BY DEF LawBody
  <2> QED BY <2>1 DEF DocTypes
<1>4. ~IsNode(1)
  BY <1>3, EgovTreeAssumption DEF IsNode
<1>5. \A i \in Indices : i # 1 => /\ i \in 2..Len(doc) /\ i \in Nat
                                 /\ doc[i].up \in 1..(i - 1)
  BY <1>1 DEF DocTypes
<1> QED BY <1>1, <1>2, <1>3, <1>4, <1>5

AroundAt == /\ DOMAIN Around = Indices
            /\ Around[1] = {}
            /\ \A i \in 2..Len(doc) : Around[i] = {doc[i].up} \cup Around[doc[i].up]

LEMMA AroundIs == DocTypes => AroundAt
<1> SUFFICES ASSUME DocTypes PROVE AroundAt
  OBVIOUS
<1> DEFINE n == Len(doc)
           up == [i \in 1..n |-> doc[i].up]
           V == SUBSET Nat
           step == [x \in (1..n) \X V |-> {up[x[1]]} \cup x[2]]
           IsAbove(f) == f = [i \in 0..Len(doc) |->
                          IF i = 0 THEN {} ELSE {doc[i].up} \cup f[doc[i].up]]
           above == CHOOSE f : IsAbove(f)
<1>1. Recursive(n, up, V, {}, step)
  BY DocIs DEF Recursive
<1>2. PICK f : Solution(f, n, up, V, {}, step)
  <2> HIDE DEF n, up, V, step
  <2> QED BY <1>1, Recursion
<1>3. \A i \in 1..n : f[i] = {doc[i].up} \cup f[doc[i].up]
  <2> SUFFICES ASSUME NEW i \in 1..n PROVE f[i] = {doc[i].up} \cup f[doc[i].up]
    OBVIOUS
  <2>1. up[i] \in 0..n /\ up[i] = doc[i].up
    BY <1>1 DEF Recursive
  <2>2. <<i, f[up[i]]>> \in (1..n) \X V
    BY <1>2, <2>1 DEF Solution
  <2>3. step[<<i, f[up[i]]>>] = {up[i]} \cup f[up[i]]
    BY <2>2
  <2> QED BY <1>2, <2>1, <2>3 DEF Solution
<1>4. IsAbove(f)
  BY <1>2, <1>3, DocIs DEF Solution
<1>5. IsAbove(above)
  <2> HIDE DEF IsAbove
  <2> QED BY <1>4
<1>6. Around = [i \in Indices |-> above[i] \ {0}]
  BY DEF Around
<1> HIDE DEF above
<1>7. /\ above[0] = {}
      /\ \A i \in 1..n : above[i] = {doc[i].up} \cup above[doc[i].up]
  BY <1>5, DocIs
<1> QED BY <1>6, <1>7, DocIs DEF AroundAt

(* What goes over from an element to those inside it holds of all.         *)
LEMMA TreeInduction ==
    ASSUME DocTypes, NEW S, 1 \in S, \A i \in 2..Len(doc) : doc[i].up \in S => i \in S
    PROVE  Indices \subseteq S
<1> DEFINE Bad == Indices \ S
<1> SUFFICES ASSUME Bad # {} PROVE FALSE
  OBVIOUS
<1>1. PICK b \in Bad : \A k \in Bad : b <= k
  <2>1. Bad \subseteq Nat
    BY DocIs
  <2> HIDE DEF Bad
  <2> QED BY <2>1, LeastElement
<1>2. b \in 2..Len(doc) /\ doc[b].up \in Indices /\ ~(b <= doc[b].up)
  BY DocIs
<1> QED BY <1>1, <1>2

LEMMA AroundLiesBefore ==
    ASSUME DocTypes
    PROVE  \A i \in Indices : Around[i] \subseteq 1..(i - 1)
<1> DEFINE S == {i \in Indices : Around[i] \subseteq 1..(i - 1)}
<1>1. 1 \in S
  BY DocIs, AroundIs DEF AroundAt
<1>2. ASSUME NEW i \in 2..Len(doc), doc[i].up \in S PROVE i \in S
  <2>1. i \in Indices /\ doc[i].up \in Indices /\ doc[i].up \in 1..(i - 1)
    BY DocIs
  <2>2. Around[i] = {doc[i].up} \cup Around[doc[i].up]
    BY AroundIs DEF AroundAt
  <2>3. Around[doc[i].up] \subseteq 1..(doc[i].up - 1)
    BY <1>2
  <2> QED BY <2>1, <2>2, <2>3
<1> HIDE DEF S
<1>3. Indices \subseteq S
  BY <1>1, <1>2, TreeInduction
<1> QED BY <1>3 DEF S

LEMMA AroundGoesOn ==
    ASSUME DocTypes
    PROVE  \A i \in Indices : \A k \in Around[i] : Around[k] \subseteq Around[i]
<1> DEFINE S == {i \in Indices : \A k \in Around[i] : Around[k] \subseteq Around[i]}
<1>1. 1 \in S
  BY DocIs, AroundIs DEF AroundAt
<1>2. ASSUME NEW i \in 2..Len(doc), doc[i].up \in S PROVE i \in S
  <2>1. i \in Indices
    BY DocIs
  <2>2. Around[i] = {doc[i].up} \cup Around[doc[i].up]
    BY AroundIs DEF AroundAt
  <2> QED BY <1>2, <2>1, <2>2
<1> HIDE DEF S
<1>3. Indices \subseteq S
  BY <1>1, <1>2, TreeInduction
<1> QED BY <1>3 DEF S

(* From an element that is still open to the last that was read, all are   *)
(* inside it.                                                              *)
LEMMA OpenContainsRest ==
    ASSUME DocTypes, Nested
    PROVE  \A i \in Indices : \A a \in Around[i] \cup {i} : \A j \in a..i : j \in Subtree(a)
<1> DEFINE S == {i \in Indices :
                    \A a \in Around[i] \cup {i} : \A j \in a..i : j \in Subtree(a)}
<1>1. 1 \in S
  BY DocIs, AroundIs DEF AroundAt, Subtree
<1>2. ASSUME NEW i \in 2..Len(doc), doc[i].up \in S PROVE i \in S
  <2>1. i \in Indices /\ i \in Nat /\ doc[i].up \in Indices /\ doc[i].up \in 1..(i - 1)
    BY DocIs
  <2>2. Around[i] = {doc[i].up} \cup Around[doc[i].up]
    BY AroundIs DEF AroundAt
  <2> SUFFICES ASSUME NEW a \in Around[i] \cup {i}, NEW j \in a..i PROVE j \in Subtree(a)
    BY <2>1
  <2>3. a \in Indices /\ a \in 1..i
    BY <2>1, AroundLiesBefore, DocIs
  <2>4. j \in Indices /\ j \in Nat
    BY <2>1, <2>3, DocIs
  <2>5. CASE j = i
    BY <2>1, <2>5 DEF Subtree
  <2>6. CASE j # i /\ j >= doc[i].up
    <3>1. a \in Around[i]
      BY <2>1, <2>3, <2>6
    <3>2. j \in doc[i].up..(i - 1)
      BY <2>1, <2>4, <2>6
    <3>3. j = doc[i].up \/ doc[i].up \in Around[j]
      BY <3>2 DEF Nested, Subtree
    <3>4. a = doc[i].up \/ a \in Around[doc[i].up]
      BY <2>2, <3>1
    <3>5. j = a \/ a \in Around[j]
      BY <2>4, <3>3, <3>4, AroundGoesOn
    <3> QED BY <2>4, <3>5 DEF Subtree
  <2>7. CASE j < doc[i].up
    <3>1. a # i /\ a # doc[i].up
      BY <2>1, <2>3, <2>4, <2>7
    <3>2. a \in Around[doc[i].up] /\ j \in a..doc[i].up
      BY <2>1, <2>2, <2>3, <2>4, <2>7, <3>1
    <3> QED BY <1>2, <3>2
  <2> QED BY <2>1, <2>4, <2>5, <2>6, <2>7
<1> HIDE DEF S
<1>3. Indices \subseteq S
  BY <1>1, <1>2, TreeInduction
<1> QED BY <1>3 DEF S

----------------------------------------------------------------------------
(* What follows from the tree alone stays as it is while the tree does.    *)

LEMMA TreeKept ==
    ASSUME UNCHANGED doc
    PROVE  /\ Constructible' = Constructible /\ Adaptation' = Adaptation
           /\ DocTypes' = DocTypes /\ Around' = Around /\ Nested' = Nested
<1>1. Constructible' = Constructible
  BY DEF Constructible, Indices, IsNode
<1>2. ChildPath' = ChildPath
  BY DEF ChildPath, Indices
<1>3. Here' = Here
  BY <1>2, SMT DEF Here, Indices, IsNode, Segment
<1>4. Recognized' = Recognized
  BY DEF Recognized, IsNode
<1>5. Adaptation' = Adaptation
  BY <1>3, <1>4 DEF Adaptation
<1>6. DocTypes' = DocTypes
  BY DEF DocTypes
<1>7. Around' = Around
  BY DEF Around, Indices
<1>8. Nested' = Nested
  BY <1>7 DEF Nested, Subtree, Indices
<1> QED BY <1>1, <1>5, <1>6, <1>7, <1>8

Phases == {"parse", "admitted", "inadmissible", "adapted", "failed", "compiled", "refused"}
Adapted == phase \in {"adapted", "compiled", "refused"}

(* The nodes are those of the tree, and the phase says what came of them.  *)
Courses ==
    /\ phase \in Phases
    /\ Adapted => Constructible /\ nodes = Adaptation
    /\ ~Adapted => nodes = <<>>
    /\ phase = "failed" => ~Constructible
    /\ phase = "compiled" => Validator!Accepted
    /\ phase = "refused" => ~Validator!Accepted

EgovInv == DocTypes /\ Nested /\ Courses

LEMMA AroundOfRead ==
    ASSUME DocTypes, DocTypes', NEW p, doc' = Append(doc, p)
    PROVE  \A i \in Indices : Around'[i] = Around[i]
<1> DEFINE S == {i \in Indices : Around'[i] = Around[i]}
<1>1. AroundAt /\ AroundAt'
  BY AroundIs, PTL
<1>2. \A i \in 1..Len(doc) : doc'[i] = doc[i]
  BY DEF DocTypes
<1>3. 1 \in S
  BY <1>1, DocIs DEF AroundAt
<1>4. ASSUME NEW i \in 2..Len(doc), doc[i].up \in S PROVE i \in S
  <2>1. i \in 2..Len(doc') /\ i \in Indices
    BY DocIs DEF DocTypes
  <2>2. doc'[i].up = doc[i].up
    BY <1>2, <2>1, DocIs
  <2>3. Around'[i] = {doc[i].up} \cup Around'[doc[i].up]
    BY <1>1, <2>1, <2>2 DEF AroundAt
  <2>4. Around[i] = {doc[i].up} \cup Around[doc[i].up]
    BY <1>1 DEF AroundAt
  <2> QED BY <1>4, <2>1, <2>3, <2>4
<1> HIDE DEF S
<1>5. Indices \subseteq S
  BY <1>3, <1>4, TreeInduction
<1> QED BY <1>5 DEF S

LEMMA ReadKeepsTree ==
    ASSUME DocTypes, Nested, NEW e \in Elements, NEW up \in Indices, ReadElement(e, up)
    PROVE  DocTypes' /\ Nested'
<1> DEFINE n == Len(doc)
           p == Place(e, up)
<1>1. /\ doc' = Append(doc, p) /\ p \in Parsed /\ p.up = up
      /\ n \in Nat \ {0} /\ n < MaxElements /\ up \in 1..n
  BY DocIs, EgovTreeAssumption DEF ReadElement, Parsed, Place, DocTypes
<1>2. /\ Len(doc') = n + 1 /\ doc' \in Seq(Parsed) /\ doc'[n + 1] = p
      /\ \A i \in 1..n : doc'[i] = doc[i]
  BY <1>1 DEF DocTypes
<1>3. DocTypes'
  <2>1. Len(doc') \in 1..MaxElements /\ doc'[1] = LawBody
    BY <1>1, <1>2, EgovTreeAssumption DEF DocTypes
  <2>2. ASSUME NEW i \in 2..Len(doc') PROVE doc'[i].up \in 1..(i - 1)
    <3>1. CASE i = n + 1
      BY <1>1, <1>2, <3>1
    <3>2. CASE i # n + 1
      <4>1. i \in 2..n /\ i \in 1..n
        BY <1>1, <1>2, <3>2
      <4> QED BY <1>2, <4>1 DEF DocTypes
    <3> QED BY <3>1, <3>2
  <2> QED BY <1>2, <2>1, <2>2 DEF DocTypes
<1>4. \A i \in Indices : Around'[i] = Around[i]
  BY <1>1, <1>3, AroundOfRead
<1>5. ASSUME NEW a, NEW j \in Subtree(a) PROVE j \in Subtree(a)'
  BY <1>1, <1>2, <1>4 DEF Subtree, Indices, DocTypes
<1>6. Nested'
  <2> SUFFICES ASSUME NEW i \in 2..Len(doc'), NEW j \in doc'[i].up..(i - 1)
               PROVE  j \in Subtree(doc[i].up)'
    BY DEF Nested
  <2>1. CASE i = n + 1
    <3>1. doc'[i].up = up /\ j \in up..n
      BY <1>1, <1>2, <2>1
    <3>2. n \in Indices /\ up \in Around[n] \cup {n}
      BY <1>1, DocIs DEF ReadElement
    <3>3. j \in Subtree(up)
      BY <3>1, <3>2, OpenContainsRest
    <3> QED BY <1>5, <3>1, <3>3
  <2>2. CASE i # n + 1
    <3>1. i \in 2..n /\ i \in 1..n
      BY <1>1, <1>2, <2>2
    <3>2. doc'[i].up = doc[i].up
      BY <1>2, <3>1
    <3>3. j \in Subtree(doc[i].up)
      BY <3>1, <3>2 DEF Nested
    <3> QED BY <1>5, <3>2, <3>3
  <2> QED BY <2>1, <2>2
<1> QED BY <1>3, <1>6

LEMMA InitEgov == Init => EgovInv
<1> SUFFICES ASSUME Init PROVE EgovInv
  OBVIOUS
<1>1. Len(doc) = 1 /\ doc[1] = LawBody /\ doc \in Seq(Parsed)
  BY DEF Init, Parsed
<1>2. DocTypes
  BY <1>1, EgovTreeAssumption DEF DocTypes
<1>3. Nested
  BY <1>1 DEF Nested
<1>4. Courses
  BY DEF Init, Courses, Phases, Adapted
<1> QED BY <1>2, <1>3, <1>4 DEF EgovInv

LEMMA AcceptedKept ==
    ASSUME UNCHANGED nodes PROVE Validator!Accepted' = Validator!Accepted
BY DEF Validator!Accepted, Validator!Diagnostics, Validator!Nodes,
       Validator!Versions, Validator!Present, Validator!Parents,
       Validator!Children, Validator!Duplicated, Validator!Overlapping,
       Validator!Neighbours, Validator!Drifting, Validator!RootRows,
       Validator!Orphans, Validator!Raised, Validator!WrongDepth,
       Validator!WrongLaw, Validator!WrongKind, Validator!Uncovered,
       Validator!WrongRootCount, Validator!Walk, Validator!First,
       Validator!OnCycle, Validator!Unreachable,
       Validator!CrosswalkDiagnostics, Validator!RepeatedTarget,
       Validator!Mistargeted, Validator!OtherSource,
       Validator!AgainstRepetition, Validator!Entries, Validator!EntriesOf,
       Validator!Target

LEMMA StepEgov == EgovInv /\ [Next]_vars => EgovInv'
<1> SUFFICES ASSUME EgovInv, [Next]_vars PROVE EgovInv'
  OBVIOUS
<1> USE DEF EgovInv
<1>1. ASSUME NEW e \in Elements, NEW up \in Indices, ReadElement(e, up) PROVE EgovInv'
  <2>1. DocTypes' /\ Nested'
    BY <1>1, ReadKeepsTree
  <2>2. Courses'
    BY <1>1 DEF ReadElement, Courses, Adapted, Phases
  <2> QED BY <2>1, <2>2
<1>2. CASE Admit
  <2>1. DocTypes' /\ Nested'
    BY <1>2, TreeKept DEF Admit
  <2>2. Courses'
    BY <1>2 DEF Admit, Courses, Adapted, Phases
  <2> QED BY <2>1, <2>2
<1>3. CASE Adapt
  <2>1. DocTypes' /\ Nested' /\ Constructible' = Constructible /\ Adaptation' = Adaptation
    BY <1>3, TreeKept DEF Adapt
  <2>2. Courses'
    BY <1>3, <2>1 DEF Adapt, Courses, Adapted, Phases
  <2> QED BY <2>1, <2>2
<1>4. CASE Compile
  <2>1. /\ DocTypes' /\ Nested' /\ Constructible' = Constructible /\ Adaptation' = Adaptation
        /\ Validator!Accepted' = Validator!Accepted
    BY <1>4, TreeKept, AcceptedKept DEF Compile
  <2>2. Courses'
    BY <1>4, <2>1 DEF Compile, Courses, Adapted, Phases
  <2> QED BY <2>1, <2>2
<1>5. CASE UNCHANGED vars
  <2>1. /\ DocTypes' /\ Nested' /\ Constructible' = Constructible /\ Adaptation' = Adaptation
        /\ Validator!Accepted' = Validator!Accepted
    BY <1>5, TreeKept, AcceptedKept DEF vars
  <2>2. Courses'
    BY <1>5, <2>1 DEF vars, Courses, Adapted, Phases
  <2> QED BY <2>1, <2>2
<1> QED BY <1>1, <1>2, <1>3, <1>4, <1>5 DEF Next

LEMMA EgovInvHolds == Spec => []EgovInv
BY InitEgov, StepEgov, PTL DEF Spec

(* Parsed elements are nested as start and end tags allow, for any tags    *)
(* and sizes, and nodes exist once the adapter has run.                    *)
LEMMA TypeCorrect == Spec => []TypeOK
<1>1. EgovInv => TypeOK
  <2> SUFFICES ASSUME EgovInv PROVE TypeOK
    OBVIOUS
  <2>1. Adaptation # <<>>
    BY DEF Adaptation
  <2>2. (nodes = <<>>) = (phase \notin {"adapted", "compiled", "refused"})
    BY <2>1 DEF EgovInv, Courses, Adapted
  <2> QED BY <2>2, DocIs DEF EgovInv, DocTypes, Nested, Courses, Phases, TypeOK
<1> QED BY EgovInvHolds, <1>1, PTL

----------------------------------------------------------------------------
(* The recognized elements, in the order of the document                   *)

Listed(s, i) ==
    /\ s \in Seq(Nat)
    /\ \A k \in 1..Len(s) : s[k] \in 1..i /\ IsNode(s[k])
    /\ \A j \in 1..i : IsNode(j) => \E k \in 1..Len(s) : s[k] = j
    /\ \A k, m \in 1..Len(s) : k < m => s[k] < s[m]

LEMMA ListedOn ==
    ASSUME NEW i \in Nat \ {0}, NEW s, Listed(s, i - 1)
    PROVE  Listed(IF IsNode(i) THEN Append(s, i) ELSE s, i)
<1>1. CASE ~IsNode(i)
  <2>1. \A j \in 1..i : IsNode(j) => j \in 1..(i - 1)
    BY <1>1
  <2> QED BY <1>1, <2>1 DEF Listed
<1>2. CASE IsNode(i)
  <2> DEFINE t == Append(s, i)
  <2>1. /\ t \in Seq(Nat) /\ Len(s) \in Nat /\ Len(t) = Len(s) + 1 /\ t[Len(s) + 1] = i
        /\ \A k \in 1..Len(s) : t[k] = s[k] /\ s[k] \in 1..(i - 1)
    BY DEF Listed
  <2> HIDE DEF t
  <2>2. ASSUME NEW k \in 1..Len(t) PROVE t[k] \in 1..i /\ IsNode(t[k])
    <3>1. CASE k = Len(s) + 1
      BY <1>2, <2>1, <3>1
    <3>2. CASE k # Len(s) + 1
      <4>1. k \in 1..Len(s)
        BY <2>1, <3>2
      <4> QED BY <2>1, <4>1 DEF Listed
    <3> QED BY <3>1, <3>2
  <2>3. ASSUME NEW j \in 1..i, IsNode(j) PROVE \E k \in 1..Len(t) : t[k] = j
    <3>1. CASE j = i
      <4>1. Len(s) + 1 \in 1..Len(t)
        BY <2>1
      <4> QED BY <2>1, <3>1, <4>1
    <3>2. CASE j # i
      <4>1. PICK k \in 1..Len(s) : s[k] = j
        <5>1. j \in 1..(i - 1)
          BY <3>2
        <5> QED BY <2>3, <5>1 DEF Listed
      <4>2. k \in 1..Len(t)
        BY <2>1
      <4> QED BY <2>1, <4>1, <4>2
    <3> QED BY <3>1, <3>2
  <2>4. ASSUME NEW k \in 1..Len(t), NEW m \in 1..Len(t), k < m PROVE t[k] < t[m]
    <3>1. k \in 1..Len(s) /\ s[k] < i
      BY <2>1, <2>4
    <3>2. CASE m = Len(s) + 1
      BY <2>1, <3>1, <3>2
    <3>3. CASE m # Len(s) + 1
      <4>1. m \in 1..Len(s)
        BY <2>1, <3>3
      <4> QED BY <2>1, <2>4, <3>1, <4>1 DEF Listed
    <3> QED BY <3>2, <3>3
  <2> QED BY <1>2, <2>1, <2>2, <2>3, <2>4 DEF Listed, t
<1> QED BY <1>1, <1>2

LEMMA RecognizedIs == ASSUME DocTypes PROVE Listed(Recognized, Len(doc))
<1> DEFINE n == Len(doc)
           from == [i \in 1..n |-> i - 1]
           V == Seq(Nat)
           step == [x \in (1..n) \X V |->
                       IF IsNode(x[1]) THEN Append(x[2], x[1]) ELSE x[2]]
           IsUpTo(f) == f = [i \in 0..Len(doc) |->
                           IF i = 0 THEN <<>>
                           ELSE IF IsNode(i) THEN Append(f[i - 1], i) ELSE f[i - 1]]
           upTo == CHOOSE f : IsUpTo(f)
<1>1. n \in Nat
  BY DocIs
<1>2. Recursive(n, from, V, <<>>, step)
  <2>1. from \in [1..n -> Nat] /\ \A i \in 1..n : from[i] < i
    BY <1>1
  <2>2. step \in [(1..n) \X V -> V]
    BY <1>1
  <2> QED BY <1>1, <2>1, <2>2 DEF Recursive
<1>3. PICK f : Solution(f, n, from, V, <<>>, step)
  <2> HIDE DEF n, from, V, step
  <2> QED BY <1>2, Recursion
<1>4. \A i \in 1..n : f[i] = IF IsNode(i) THEN Append(f[i - 1], i) ELSE f[i - 1]
  <2> SUFFICES ASSUME NEW i \in 1..n
               PROVE  f[i] = IF IsNode(i) THEN Append(f[i - 1], i) ELSE f[i - 1]
    OBVIOUS
  <2>1. from[i] = i - 1 /\ i - 1 \in 0..n
    BY <1>1
  <2>2. <<i, f[i - 1]>> \in (1..n) \X V
    BY <1>3, <2>1 DEF Solution
  <2>3. step[<<i, f[i - 1]>>] = IF IsNode(i) THEN Append(f[i - 1], i) ELSE f[i - 1]
    BY <2>2
  <2> QED BY <1>3, <2>1, <2>3 DEF Solution
<1>5. IsUpTo(f)
  <2>1. f = [i \in 0..n |-> f[i]] /\ f[0] = <<>>
    BY <1>3 DEF Solution
  <2>2. \A i \in 0..n : f[i] = IF i = 0 THEN <<>>
                             ELSE IF IsNode(i) THEN Append(f[i - 1], i) ELSE f[i - 1]
    BY <1>4, <2>1
  <2> QED BY <2>1, <2>2
<1>6. IsUpTo(upTo)
  <2> HIDE DEF IsUpTo
  <2> QED BY <1>5
<1>7. Recognized = upTo[n]
  BY DEF Recognized
<1> HIDE DEF upTo
<1>8. /\ upTo[0] = <<>>
      /\ \A i \in 1..n : upTo[i] = IF IsNode(i) THEN Append(upTo[i - 1], i) ELSE upTo[i - 1]
  <2>1. \A i \in 0..n : upTo[i] = IF i = 0 THEN <<>>
                ELSE IF IsNode(i) THEN Append(upTo[i - 1], i) ELSE upTo[i - 1]
    BY <1>6
  <2> HIDE DEF IsUpTo
  <2> QED BY <1>1, <2>1
<1> DEFINE Bad == {i \in 0..n : ~Listed(upTo[i], i)}
<1>9. Bad = {}
  <2> SUFFICES ASSUME Bad # {} PROVE FALSE
    OBVIOUS
  <2>1. PICK b \in Bad : \A i \in Bad : b <= i
    <3>1. Bad \subseteq Nat
      BY <1>1
    <3> HIDE DEF Bad
    <3> QED BY <3>1, LeastElement
  <2>2. Listed(upTo[0], 0)
    BY <1>8 DEF Listed
  <2>3. b \in 1..n /\ b - 1 \in 0..n /\ ~(b <= b - 1)
    BY <1>1, <2>1, <2>2
  <2>4. Listed(upTo[b - 1], b - 1)
    BY <2>1, <2>3
  <2>5. Listed(upTo[b], b)
    <3>1. b \in Nat \ {0}
      BY <2>3
    <3>2. Listed(IF IsNode(b) THEN Append(upTo[b - 1], b) ELSE upTo[b - 1], b)
      <4> HIDE DEF Bad
      <4> QED BY <2>4, <3>1, ListedOn
    <3> QED BY <1>8, <2>3, <3>2
  <2> QED BY <2>1, <2>5
<1> QED BY <1>1, <1>7, <1>9

LEMMA KindsAreKnown ==
    \A tag \in NodeTags : NodeKinds[tag] \in Checks!Kinds \ {"law"}
<1>1. \A tag \in DOMAIN TagKinds : TagKinds[tag] \in Checks!Kinds \ {"law"}
  BY DEF TagKinds, Checks!Kinds
<1>2. {"appendix", "subitem"} \subseteq Checks!Kinds \ {"law"}
  BY DEF Checks!Kinds
<1> QED BY <1>1, <1>2 DEF NodeTags, NodeKinds

----------------------------------------------------------------------------
(* The path of an element                                                  *)

Alike(i) == {j \in 1..i : doc[j].up = doc[i].up /\ doc[j].tag = doc[i].tag}

LEMMA AlikeIs ==
    ASSUME DocTypes, NEW i \in Indices
    PROVE  /\ IsFiniteSet(Alike(i)) /\ Cardinality(Alike(i)) \in Nat
           /\ \A k \in Alike(i) : k # i => Cardinality(Alike(k)) < Cardinality(Alike(i))
<1>1. i \in Nat /\ i \in 1..i /\ \A k \in 1..i : k \in Nat /\ k \in Indices
  BY DocIs
<1>2. IsFiniteSet(1..i)
  BY <1>1, FS_Interval
<1>3. \A k \in 1..i : Alike(k) \subseteq 1..i
  BY <1>1 DEF Alike
<1>4. \A k \in 1..i : IsFiniteSet(Alike(k)) /\ Cardinality(Alike(k)) \in Nat
  BY <1>2, <1>3, FS_Subset, FS_CardinalityType
<1>5. ASSUME NEW k \in Alike(i), k # i
      PROVE  Cardinality(Alike(k)) < Cardinality(Alike(i))
  <2>1. k \in 1..i /\ k < i /\ i \in Alike(i) /\ i \notin Alike(k)
    BY <1>1, <1>5 DEF Alike
  <2>2. Alike(k) \subseteq Alike(i)
    BY <1>1, <1>5, <2>1 DEF Alike
  <2>3. /\ Cardinality(Alike(k)) <= Cardinality(Alike(i))
        /\ Cardinality(Alike(k)) = Cardinality(Alike(i)) => Alike(k) = Alike(i)
    BY <1>1, <1>4, <2>2, FS_Subset
  <2> QED BY <1>1, <1>4, <2>1, <2>3
<1> QED BY <1>1, <1>4, <1>5

Mark(i) == <<doc[i].tag, Cardinality(Alike(i))>>

PathAt ==
    /\ ChildPath[1] = <<>>
    /\ \A i \in 2..Len(doc) : ChildPath[i] = Append(ChildPath[doc[i].up], Mark(i))
    /\ \A i \in Indices : ChildPath[i] \in Seq(Tags \X Nat)

LEMMA PathIs == ASSUME DocTypes PROVE PathAt
<1> DEFINE n == Len(doc)
           up == [i \in 1..n |-> doc[i].up]
           V == Seq(Tags \X Nat)
           step == [x \in (1..n) \X V |->
                       IF x[1] = 1 THEN <<>> ELSE Append(x[2], Mark(x[1]))]
           IsPath(f) == f = [i \in Indices |->
               IF doc[i].up = 0 THEN <<>>
               ELSE Append(f[doc[i].up],
                   <<doc[i].tag, Cardinality({j \in 1..i :
                        doc[j].up = doc[i].up /\ doc[j].tag = doc[i].tag})>>)]
           path == CHOOSE f : IsPath(f)
<1>1. \A i \in 1..n : Mark(i) \in Tags \X Nat
  BY DocIs, AlikeIs DEF Mark
<1>2. Recursive(n, up, V, <<>>, step)
  <2>1. n \in Nat /\ up \in [1..n -> Nat] /\ \A i \in 1..n : up[i] < i
    BY DocIs
  <2>2. step \in [(1..n) \X V -> V]
    BY <1>1
  <2> QED BY <2>1, <2>2 DEF Recursive
<1>3. PICK f : Solution(f, n, up, V, <<>>, step)
  <2> HIDE DEF n, up, V, step
  <2> QED BY <1>2, Recursion
<1> DEFINE g == [i \in Indices |-> f[i]]
<1>4. /\ g[1] = <<>> /\ \A i \in Indices : g[i] \in V
      /\ \A i \in 2..n : g[i] = Append(g[doc[i].up], Mark(i))
  <2>1. ASSUME NEW i \in 1..n
        PROVE  f[i] = IF i = 1 THEN <<>> ELSE Append(f[doc[i].up], Mark(i))
    <3>1. up[i] = doc[i].up /\ doc[i].up \in 0..n
      BY DocIs
    <3>2. <<i, f[doc[i].up]>> \in (1..n) \X V
      BY <1>3, <3>1 DEF Solution
    <3>3. step[<<i, f[doc[i].up]>>] = IF i = 1 THEN <<>> ELSE Append(f[doc[i].up], Mark(i))
      BY <3>2
    <3> QED BY <1>3, <3>1, <3>3 DEF Solution
  <2>2. \A i \in Indices : f[i] \in V
    BY <1>3, DocIs DEF Solution
  <2> HIDE DEF step, up
  <2>3. \A i \in Indices : g[i] = f[i]
    OBVIOUS
  <2> HIDE DEF g
  <2>4. g[1] = <<>>
    BY <2>1, <2>3, DocIs
  <2>5. ASSUME NEW i \in 2..n PROVE g[i] = Append(g[doc[i].up], Mark(i))
    <3>1. i \in Indices /\ i \in 1..n /\ doc[i].up \in Indices /\ i # 1
      BY DocIs
    <3> QED BY <2>1, <2>3, <3>1
  <2> QED BY <2>2, <2>3, <2>4, <2>5
<1>5. IsPath(g)
  <2> SUFFICES ASSUME NEW i \in Indices
               PROVE  g[i] = IF doc[i].up = 0 THEN <<>> ELSE Append(g[doc[i].up], Mark(i))
    BY DEF Alike, Mark
  <2> HIDE DEF g
  <2> QED BY <1>4, DocIs
<1>6. IsPath(path)
  <2> HIDE DEF IsPath
  <2> QED BY <1>5
<1>7. ChildPath = path
  BY DEF ChildPath
<1> HIDE DEF path
<1>8. \A i \in Indices : path[i] = IF doc[i].up = 0 THEN <<>>
                                   ELSE Append(path[doc[i].up], Mark(i))
  BY <1>6 DEF Alike, Mark
<1> HIDE DEF IsPath
<1>9. path[1] = <<>> /\ \A i \in 2..n : path[i] = Append(path[doc[i].up], Mark(i))
  <2>1. /\ 1 \in Indices /\ doc[1].up = 0
        /\ \A i \in 2..n : i \in Indices /\ doc[i].up # 0
    BY DocIs
  <2> QED BY <1>8, <2>1
<1> DEFINE S == {i \in Indices : path[i] \in V}
<1>10. 1 \in S
  <2>1. <<>> \in V
    OBVIOUS
  <2> HIDE DEF V
  <2> QED BY <1>9, <2>1, DocIs
<1>11. ASSUME NEW i \in 2..Len(doc), doc[i].up \in S PROVE i \in S
  <2>1. i \in Indices /\ path[i] = Append(path[doc[i].up], Mark(i)) /\ Mark(i) \in Tags \X Nat
    BY <1>1, <1>9, DocIs
  <2>2. \A s \in V, x \in Tags \X Nat : Append(s, x) \in V
    OBVIOUS
  <2> HIDE DEF V
  <2> QED BY <1>11, <2>1, <2>2
<1> HIDE DEF S
<1>12. Indices \subseteq S
  BY <1>10, <1>11, TreeInduction
<1> QED BY <1>7, <1>9, <1>12 DEF S, PathAt

(* No two elements have the same path.                                     *)
LEMMA PathsDiffer ==
    ASSUME DocTypes
    PROVE  \A i, j \in Indices : ChildPath[i] = ChildPath[j] => i = j
<1> DEFINE S == {i \in Indices : \A j \in Indices : ChildPath[i] = ChildPath[j] => i = j}
<1>1. ASSUME NEW i \in 2..Len(doc)
      PROVE  /\ ChildPath[i] = Append(ChildPath[doc[i].up], Mark(i))
             /\ ChildPath[doc[i].up] \in Seq(Tags \X Nat)
             /\ ChildPath[i] # <<>>
  <2>1. doc[i].up \in Indices /\ i \in Indices
    BY DocIs
  <2>2. ChildPath[doc[i].up] \in Seq(Tags \X Nat)
    BY <2>1, PathIs DEF PathAt
  <2> QED BY <2>2, PathIs DEF PathAt
<1>2. 1 \in S
  <2>1. ChildPath[1] = <<>>
    BY PathIs DEF PathAt
  <2> QED BY <1>1, <2>1, DocIs
<1>3. ASSUME NEW i \in 2..Len(doc), doc[i].up \in S PROVE i \in S
  <2> SUFFICES ASSUME NEW j \in Indices, ChildPath[i] = ChildPath[j] PROVE i = j
    BY DocIs
  <2>1. ChildPath[1] = <<>>
    BY PathIs DEF PathAt
  <2>2. j \in 2..Len(doc) /\ doc[j].up \in Indices /\ i \in Indices
    BY <1>1, <2>1, DocIs
  <2>3. /\ ChildPath[doc[i].up] = ChildPath[doc[j].up]
        /\ Mark(i) = Mark(j)
    <3> DEFINE s == ChildPath[doc[i].up]
               t == ChildPath[doc[j].up]
               x == Mark(i)
               y == Mark(j)
    <3>1. /\ s \in Seq(Tags \X Nat) /\ t \in Seq(Tags \X Nat)
          /\ Append(s, x) = Append(t, y)
      BY <1>1, <2>2
    <3> HIDE DEF s, t, x, y
    <3>2. s = t /\ x = y
      BY <3>1, SameAppend
    <3> QED BY <3>2 DEF s, t, x, y
  <2>4. /\ doc[i].up = doc[j].up /\ doc[i].tag = doc[j].tag
        /\ Cardinality(Alike(i)) = Cardinality(Alike(j))
    BY <1>3, <2>2, <2>3 DEF Mark
  <2>5. i \in Alike(j) \/ j \in Alike(i)
    <3>1. i \in Nat /\ j \in Nat /\ i >= 1 /\ j >= 1
      BY <2>2, DocIs
    <3> QED BY <2>4, <3>1 DEF Alike
  <2>6. /\ i \in Alike(j) => i = j \/ Cardinality(Alike(i)) < Cardinality(Alike(j))
        /\ j \in Alike(i) => i = j \/ Cardinality(Alike(j)) < Cardinality(Alike(i))
    BY <2>2, AlikeIs
  <2>7. Cardinality(Alike(i)) \in Nat
    BY <2>2, AlikeIs
  <2> QED BY <2>4, <2>5, <2>6, <2>7
<1> HIDE DEF S
<1>4. Indices \subseteq S
  BY <1>2, <1>3, TreeInduction
<1> QED BY <1>4 DEF S

----------------------------------------------------------------------------
(* The node that is the parent inside an element                           *)

Numbers == {None} \cup (Positive \X Seq(Positive))
Texts == {RenderText(doc)[i] : i \in Indices}
NodeRows ==
    [id : Locators, parent : Locators \cup {None}, kind : Checks!Kinds, depth : Nat,
     from : {None}, to : {None}, wording : Texts, number : Numbers]

Root == Row(<<>>, None, "law", 0, None, RenderText(doc)[1])
Below(i, p) ==
    Row(Append(p.id, Segment(i, ChildPath[i])), p.id, NodeKinds[doc[i].tag],
        p.depth + 1, NodeNumber(doc, i), RenderText(doc)[i])

HereAt ==
    /\ Here[1] = Root
    /\ \A i \in 2..Len(doc) :
          Here[i] = IF IsNode(i) THEN Below(i, Here[doc[i].up]) ELSE Here[doc[i].up]
    /\ \A i \in Indices : Here[i] \in NodeRows

LEMMA LocatorGrows ==
    ASSUME DocTypes, Constructible, NEW i \in Indices, IsNode(i), NEW s \in Locators
    PROVE  Append(s, Segment(i, ChildPath[i])) \in Locators
<1> DEFINE A == (NodeKindNames \X Seq(Tags \X Nat))
                \cup (NodeKindNames \X ({None} \cup Tags) \X (Positive \X Seq(Positive)))
<1>1. /\ NodeKinds[doc[i].tag] \in NodeKindNames /\ doc[i].tag \in Tags
      /\ ChildPath[i] \in Seq(Tags \X Nat)
      /\ NodeNumber(doc, i) # None => NodeNumber(doc, i) \in Positive \X Seq(Positive)
  BY DocIs, PathIs DEF IsNode, NodeKindNames, PathAt, Constructible
<1>2. Segment(i, ChildPath[i]) \in A
  BY <1>1 DEF Segment
<1>3. Locators = Seq(A)
  BY DEF Locators
<1> HIDE DEF A
<1> QED BY <1>2, <1>3

LEMMA RootIsTyped == ASSUME DocTypes PROVE Root \in NodeRows
<1>1. <<>> \in Locators
  BY DEF Locators
<1>2. RenderText(doc)[1] \in Texts
  BY DocIs DEF Texts
<1>3. "law" \in Checks!Kinds
  BY DEF Checks!Kinds
<1> QED BY <1>1, <1>2, <1>3 DEF Root, Row, NodeRows, Numbers

LEMMA BelowIsTyped ==
    ASSUME DocTypes, Constructible, NEW i \in Indices, IsNode(i), NEW p \in NodeRows
    PROVE  Below(i, p) \in NodeRows
<1>1. p.id \in Locators /\ p.depth \in Nat
  BY DEF NodeRows
<1>2. Append(p.id, Segment(i, ChildPath[i])) \in Locators
  BY <1>1, LocatorGrows
<1>3. /\ NodeKinds[doc[i].tag] \in Checks!Kinds /\ NodeNumber(doc, i) \in Numbers
      /\ RenderText(doc)[i] \in Texts /\ p.depth + 1 \in Nat
  BY <1>1, KindsAreKnown DEF IsNode, Constructible, Numbers, Texts
<1> QED BY <1>1, <1>2, <1>3 DEF Below, Row, NodeRows

LEMMA HereIs == ASSUME DocTypes, Constructible PROVE HereAt
<1> DEFINE n == Len(doc)
           up == [i \in 1..n |-> doc[i].up]
           step == [x \in (1..n) \X NodeRows |->
                       IF x[1] = 1 THEN Root
                       ELSE IF IsNode(x[1]) THEN Below(x[1], x[2]) ELSE x[2]]
           IsHere(f) == f = [i \in Indices |->
                          IF doc[i].up = 0 THEN Root
                          ELSE IF ~IsNode(i) THEN f[doc[i].up] ELSE Below(i, f[doc[i].up])]
           here == CHOOSE f : IsHere(f)
<1>1. Recursive(n, up, NodeRows, Root, step)
  <2>1. n \in Nat /\ up \in [1..n -> Nat] /\ \A i \in 1..n : up[i] < i
    BY DocIs
  <2>2. step \in [(1..n) \X NodeRows -> NodeRows]
    BY RootIsTyped, BelowIsTyped, DocIs
  <2> QED BY <2>1, <2>2, RootIsTyped DEF Recursive
<1>2. PICK f : Solution(f, n, up, NodeRows, Root, step)
  <2> HIDE DEF n, up, step
  <2> QED BY <1>1, Recursion
<1> DEFINE g == [i \in Indices |-> f[i]]
<1>3. /\ g[1] = Root /\ \A i \in Indices : g[i] \in NodeRows
      /\ \A i \in 2..n : g[i] = IF IsNode(i) THEN Below(i, g[doc[i].up]) ELSE g[doc[i].up]
  <2>1. ASSUME NEW i \in 1..n
        PROVE  f[i] = IF i = 1 THEN Root
                      ELSE IF IsNode(i) THEN Below(i, f[doc[i].up]) ELSE f[doc[i].up]
    <3>1. up[i] = doc[i].up /\ doc[i].up \in 0..n
      BY DocIs
    <3>2. <<i, f[doc[i].up]>> \in (1..n) \X NodeRows
      BY <1>2, <3>1 DEF Solution
    <3>3. step[<<i, f[doc[i].up]>>] = IF i = 1 THEN Root
              ELSE IF IsNode(i) THEN Below(i, f[doc[i].up]) ELSE f[doc[i].up]
      BY <3>2
    <3> QED BY <1>2, <3>1, <3>3 DEF Solution
  <2>2. \A i \in Indices : f[i] \in NodeRows
    BY <1>2, DocIs DEF Solution
  <2>3. \A i \in Indices : g[i] = f[i]
    OBVIOUS
  <2> HIDE DEF g
  <2>4. g[1] = Root
    BY <2>1, <2>3, DocIs
  <2>5. ASSUME NEW i \in 2..n
        PROVE  g[i] = IF IsNode(i) THEN Below(i, g[doc[i].up]) ELSE g[doc[i].up]
    <3>1. i \in Indices /\ i \in 1..n /\ doc[i].up \in Indices /\ i # 1
      BY DocIs
    <3> QED BY <2>1, <2>3, <3>1
  <2> QED BY <2>2, <2>3, <2>4, <2>5
<1>4. IsHere(g)
  <2> SUFFICES ASSUME NEW i \in Indices
               PROVE  g[i] = IF doc[i].up = 0 THEN Root
                        ELSE IF ~IsNode(i) THEN g[doc[i].up] ELSE Below(i, g[doc[i].up])
    OBVIOUS
  <2> HIDE DEF g
  <2> QED BY <1>3, DocIs
<1>5. IsHere(here)
  <2> HIDE DEF IsHere
  <2> QED BY <1>4
<1>6. Here = here
  BY DEF Here, Root, Below
<1> HIDE DEF here
<1>7. /\ here[1] = Root
      /\ \A i \in 2..n :
            here[i] = IF IsNode(i) THEN Below(i, here[doc[i].up]) ELSE here[doc[i].up]
  <2>1. /\ 1 \in Indices /\ doc[1].up = 0
        /\ \A i \in 2..n : i \in Indices /\ doc[i].up # 0
    BY DocIs
  <2>2. \A i \in Indices : here[i] = IF doc[i].up = 0 THEN Root
           ELSE IF ~IsNode(i) THEN here[doc[i].up] ELSE Below(i, here[doc[i].up])
    BY <1>5
  <2> QED BY <2>1, <2>2
<1> HIDE DEF IsHere
<1> DEFINE S == {i \in Indices : here[i] \in NodeRows}
<1>8. 1 \in S
  BY <1>7, RootIsTyped, DocIs
<1>9. ASSUME NEW i \in 2..Len(doc), doc[i].up \in S PROVE i \in S
  <2>1. i \in Indices
    BY DocIs
  <2> QED BY <1>7, <1>9, <2>1, BelowIsTyped
<1> HIDE DEF S
<1>10. Indices \subseteq S
  BY <1>8, <1>9, TreeInduction
<1> QED BY <1>6, <1>7, <1>10 DEF S, HereAt

----------------------------------------------------------------------------
(* A node stands below the node of the innermost recognized element.       *)

Places == {1} \cup {i \in Indices : IsNode(i)}

LEMMA EnclosingGoesUp ==
    ASSUME DocTypes, NEW i \in 2..Len(doc)
    PROVE  Enclosing(i) = IF IsNode(doc[i].up) \/ doc[i].up = 1 THEN doc[i].up
                          ELSE Enclosing(doc[i].up)
<1> DEFINE u == doc[i].up
           around == {j \in Around[i] : IsNode(j)} \cup {1}
<1>1. /\ i \in Indices /\ u \in Indices /\ u \in Nat /\ 1 <= u
      /\ Around[i] = {u} \cup Around[u] /\ Around[u] \subseteq 1..(u - 1)
  BY DocIs, AroundIs, AroundLiesBefore DEF AroundAt
<1>2. CASE IsNode(u) \/ u = 1
  <2>1. u \in around
    BY <1>1, <1>2
  <2>2. \A j \in around : j \in Nat /\ j <= u
    BY <1>1
  <2>3. \A j \in around : (\A k \in around : k <= j) => j = u
    BY <1>1, <2>1, <2>2
  <2>4. Enclosing(i) = CHOOSE j \in around : \A k \in around : k <= j
    BY DEF Enclosing
  <2> HIDE DEF around, u
  <2> QED BY <1>2, <2>1, <2>2, <2>3, <2>4 DEF u
<1>3. CASE ~(IsNode(u) \/ u = 1)
  <2>1. around = {j \in Around[u] : IsNode(j)} \cup {1}
    BY <1>1, <1>3
  <2> QED BY <1>3, <2>1 DEF Enclosing
<1> QED BY <1>2, <1>3

LEMMA HereOfEnclosing ==
    ASSUME DocTypes, Constructible
    PROVE  \A i \in 2..Len(doc) :
              /\ Enclosing(i) \in Places /\ Enclosing(i) \in 1..(i - 1)
              /\ Here[doc[i].up] = Here[Enclosing(i)]
<1> DEFINE Good(i) == /\ Enclosing(i) \in Places /\ Enclosing(i) \in 1..(i - 1)
                      /\ Here[doc[i].up] = Here[Enclosing(i)]
           S == {i \in Indices : i # 1 => Good(i)}
<1>1. 1 \in S
  BY DocIs
<1>2. ASSUME NEW i \in 2..Len(doc), doc[i].up \in S PROVE i \in S
  <2> DEFINE u == doc[i].up
  <2>1. i \in Indices /\ u \in Indices /\ u \in 1..(i - 1) /\ i \in Nat
    BY DocIs
  <2>2. CASE IsNode(u) \/ u = 1
    <3>1. Enclosing(i) = u
      BY <2>2, EnclosingGoesUp
    <3> QED BY <2>1, <2>2, <3>1 DEF Places
  <2>3. CASE ~(IsNode(u) \/ u = 1)
    <3>1. Enclosing(i) = Enclosing(u)
      BY <2>3, EnclosingGoesUp
    <3>2. u \in 2..Len(doc) /\ Good(u)
      BY <1>2, <2>1, <2>3, DocIs
    <3>3. Here[u] = Here[doc[u].up]
      BY <2>3, <3>2, HereIs DEF HereAt
    <3>4. Enclosing(u) \in 1..(i - 1)
      BY <2>1, <3>2
    <3> QED BY <2>1, <3>1, <3>2, <3>3, <3>4
  <2> QED BY <2>2, <2>3
<1> HIDE DEF S
<1>3. Indices \subseteq S
  BY <1>1, <1>2, TreeInduction
<1>4. \A i \in 2..Len(doc) : i \in Indices /\ i # 1
  BY DocIs
<1> QED BY <1>3, <1>4 DEF S

LEMMA NodeOfPlace ==
    ASSUME DocTypes, Constructible
    PROVE  /\ Here[1] = Root
           /\ \A i \in Places \ {1} :
                 /\ i \in 2..Len(doc) /\ Enclosing(i) \in Places
                 /\ Enclosing(i) \in 1..(i - 1)
                 /\ Here[i] = Below(i, Here[Enclosing(i)])
           /\ \A i \in Places : i \in Indices /\ i \in Nat
           /\ \A i \in Places : Here[i] \in NodeRows /\ Here[i].kind = KindAt(i)
<1>1. \A i \in Places : i \in Indices /\ i \in Nat
  BY DocIs DEF Places
<1>2. ASSUME NEW i \in Places \ {1}
      PROVE  /\ i \in 2..Len(doc) /\ Enclosing(i) \in Places
             /\ Enclosing(i) \in 1..(i - 1)
             /\ Here[i] = Below(i, Here[Enclosing(i)])
             /\ Here[i].kind = KindAt(i)
  <2>1. i \in 2..Len(doc) /\ IsNode(i)
    BY DocIs DEF Places
  <2>2. Here[i] = Below(i, Here[Enclosing(i)])
    BY <2>1, HereIs, HereOfEnclosing DEF HereAt
  <2>3. Here[i].kind = NodeKinds[doc[i].tag]
    BY <2>2 DEF Below, Row
  <2> QED BY <2>1, <2>2, <2>3, HereOfEnclosing DEF KindAt
<1>3. Here[1] = Root /\ Root.kind = "law"
  BY HereIs DEF HereAt, Root, Row
<1>4. \A i \in Places : Here[i].kind = KindAt(i)
  BY <1>2, <1>3 DEF KindAt
<1> QED BY <1>1, <1>2, <1>3, <1>4, HereIs DEF HereAt

(* The nodes, by the places that they come from                            *)
PlaceOf == <<1>> \o Recognized

LEMMA NodesOfPlaces ==
    ASSUME DocTypes, Adapted, Courses
    PROVE  /\ Constructible
           /\ Len(PlaceOf) \in Nat \ {0} /\ DOMAIN PlaceOf = 1..Len(PlaceOf)
           /\ PlaceOf[1] = 1
           /\ \A k \in 1..Len(PlaceOf) : PlaceOf[k] \in Places
           /\ \A i \in Places : \E k \in 1..Len(PlaceOf) : PlaceOf[k] = i
           /\ \A k, m \in 1..Len(PlaceOf) : PlaceOf[k] = PlaceOf[m] => k = m
           /\ Len(nodes) = Len(PlaceOf) /\ DOMAIN nodes = 1..Len(PlaceOf)
           /\ \A k \in 1..Len(PlaceOf) : nodes[k] = Here[PlaceOf[k]]
           /\ nodes \in Seq(NodeRows)
<1> DEFINE r == Recognized
           rows == [k \in DOMAIN r |-> Here[r[k]]]
<1>1. Constructible /\ nodes = <<Here[1]>> \o rows
  BY DEF Courses, Adaptation
<1>2. /\ r \in Seq(Nat) /\ Len(r) \in Nat /\ DOMAIN r = 1..Len(r)
      /\ \A k \in 1..Len(r) : r[k] \in Indices /\ IsNode(r[k])
      /\ \A j \in Indices : IsNode(j) => \E k \in 1..Len(r) : r[k] = j
      /\ \A k, m \in 1..Len(r) : k < m => r[k] < r[m]
  BY RecognizedIs, DocIs DEF Listed
<1> HIDE DEF r
<1>3. PlaceOf = <<1>> \o r
  BY DEF PlaceOf, r
<1>4. /\ Len(PlaceOf) = Len(r) + 1 /\ DOMAIN PlaceOf = 1..(Len(r) + 1)
      /\ PlaceOf[1] = 1 /\ \A k \in 1..Len(r) : PlaceOf[k + 1] = r[k]
  BY <1>2, <1>3
<1>5. \A k \in 1..(Len(r) + 1) : k # 1 => k - 1 \in 1..Len(r) /\ PlaceOf[k] = r[k - 1]
  <2> SUFFICES ASSUME NEW k \in 1..(Len(r) + 1), k # 1
               PROVE  k - 1 \in 1..Len(r) /\ PlaceOf[k] = r[k - 1]
    OBVIOUS
  <2>1. k - 1 \in 1..Len(r) /\ (k - 1) + 1 = k
    BY <1>2
  <2> QED BY <1>4, <2>1
<1>6. \A k \in 1..Len(PlaceOf) : PlaceOf[k] \in Places
  BY <1>2, <1>4, <1>5 DEF Places
<1>7. ASSUME NEW i \in Places PROVE \E k \in 1..Len(PlaceOf) : PlaceOf[k] = i
  <2>1. CASE i = 1
    BY <1>2, <1>4, <2>1
  <2>2. CASE i # 1
    <3>1. PICK k \in 1..Len(r) : r[k] = i
      BY <1>2, <2>2 DEF Places
    <3>2. k + 1 \in 1..Len(PlaceOf) /\ PlaceOf[k + 1] = i
      BY <1>2, <1>4, <3>1
    <3> QED BY <3>2
  <2> QED BY <2>1, <2>2
<1>8. ASSUME NEW k \in 1..Len(PlaceOf), NEW m \in 1..Len(PlaceOf),
             PlaceOf[k] = PlaceOf[m]
      PROVE  k = m
  <2>1. k \in 1..(Len(r) + 1) /\ m \in 1..(Len(r) + 1)
    BY <1>4
  <2>2. \A x \in 1..Len(r) : r[x] # 1
    BY <1>2, DocIs
  <2>3. CASE k = 1 \/ m = 1
    BY <1>4, <1>5, <1>8, <2>1, <2>2, <2>3
  <2>4. CASE k # 1 /\ m # 1
    <3>1. k - 1 \in 1..Len(r) /\ m - 1 \in 1..Len(r) /\ r[k - 1] = r[m - 1]
      BY <1>5, <1>8, <2>1, <2>4
    <3>2. \A x, y \in 1..Len(r) : r[x] = r[y] => x = y
      <4> SUFFICES ASSUME NEW x \in 1..Len(r), NEW y \in 1..Len(r), r[x] = r[y]
                   PROVE  x = y
        OBVIOUS
      <4>1. r[x] \in Nat /\ (x < y => r[x] < r[y]) /\ (y < x => r[y] < r[x])
        BY <1>2
      <4> QED BY <4>1
    <3>3. k - 1 = m - 1
      BY <3>1, <3>2
    <3> QED BY <1>2, <2>1, <3>3
  <2> QED BY <2>3, <2>4
<1>9. /\ rows \in Seq(NodeRows) /\ Len(rows) = Len(r)
      /\ \A k \in 1..Len(r) : rows[k] = Here[r[k]]
  <2>1. \A k \in 1..Len(r) : Here[r[k]] \in NodeRows
    BY <1>1, <1>2, HereIs DEF HereAt
  <2> QED BY <1>2, <2>1
<1> HIDE DEF rows
<1>10. /\ Here[1] \in NodeRows
       /\ nodes \in Seq(NodeRows) /\ Len(nodes) = Len(r) + 1
       /\ DOMAIN nodes = 1..(Len(r) + 1)
       /\ nodes[1] = Here[1] /\ \A k \in 1..Len(r) : nodes[k + 1] = rows[k]
  <2>1. Here[1] \in NodeRows
    BY <1>1, HereIs, DocIs DEF HereAt
  <2> QED BY <1>1, <1>2, <1>9, <2>1
<1>11. ASSUME NEW k \in 1..Len(PlaceOf) PROVE nodes[k] = Here[PlaceOf[k]]
  <2>1. k \in 1..(Len(r) + 1)
    BY <1>4
  <2>2. CASE k = 1
    BY <1>4, <1>10, <2>2
  <2>3. CASE k # 1
    <3>1. k - 1 \in 1..Len(r) /\ PlaceOf[k] = r[k - 1] /\ (k - 1) + 1 = k
      BY <1>2, <1>5, <2>1, <2>3
    <3>2. nodes[(k - 1) + 1] = rows[k - 1]
      BY <1>10, <3>1
    <3> QED BY <1>9, <3>1, <3>2
  <2> QED BY <2>2, <2>3
<1>12. Len(PlaceOf) \in Nat \ {0}
  BY <1>2, <1>4
<1> QED BY <1>1, <1>4, <1>6, <1>7, <1>8, <1>10, <1>11, <1>12

----------------------------------------------------------------------------
(* The validator of the adapter is the one of CorpusValidationProofs.      *)

LEMMA AcceptedIs == Checks!Accepted <=> Validator!Accepted
<1>1. Checks!Nodes = Validator!Nodes
  BY DEF Checks!Nodes, Validator!Nodes, Checks!ToSet, Validator!ToSet
<1>2. \A id : Checks!Versions(id) = Validator!Versions(id)
  BY <1>1 DEF Checks!Versions, Validator!Versions
<1>3. Checks!Present = Validator!Present
  BY <1>1 DEF Checks!Present, Validator!Present
<1>4. \A n : Checks!Parents(n) = Validator!Parents(n)
  BY <1>2 DEF Checks!Parents, Validator!Parents
<1>5. Checks!Children = Validator!Children
  BY <1>1 DEF Checks!Children, Validator!Children
<1>6. Checks!Duplicated = Validator!Duplicated
  BY <1>1
     DEF Checks!Duplicated, Validator!Duplicated, Checks!VersionId,
         Validator!VersionId
<1>7. Checks!Overlapping = Validator!Overlapping
  BY <1>6, <1>1, <1>2
     DEF Checks!Overlapping, Validator!Overlapping, Checks!Neighbours,
         Validator!Neighbours, Checks!Clash, Validator!Clash, Checks!Key,
         Validator!Key
<1>8. Checks!Drifting = Validator!Drifting
  BY <1>1, <1>2 DEF Checks!Drifting, Validator!Drifting
<1>9. Checks!RootRows = Validator!RootRows
  BY <1>1, <1>5 DEF Checks!RootRows, Validator!RootRows
<1>10. Checks!Orphans = Validator!Orphans
  BY <1>5, <1>4 DEF Checks!Orphans, Validator!Orphans
<1>11. Checks!Raised = Validator!Raised
  BY <1>5, <1>10 DEF Checks!Raised, Validator!Raised
<1>12. Checks!WrongDepth = Validator!WrongDepth
  BY <1>5, <1>11, <1>4 DEF Checks!WrongDepth, Validator!WrongDepth
<1>13. Checks!WrongLaw = Validator!WrongLaw
  BY <1>11, <1>4 DEF Checks!WrongLaw, Validator!WrongLaw
<1>14. Checks!WrongKind = Validator!WrongKind
  BY <1>11, <1>4
     DEF Checks!WrongKind, Validator!WrongKind, Checks!Allowed,
         Validator!Allowed, Checks!Divisions, Validator!Divisions
<1>15. Checks!Uncovered = Validator!Uncovered
  BY <1>11, <1>4
     DEF Checks!Uncovered, Validator!Uncovered, Checks!WindowContains,
         Validator!WindowContains
<1>16. Checks!WrongRootCount = Validator!WrongRootCount
  BY <1>3, <1>9
     DEF Checks!WrongRootCount, Validator!WrongRootCount, Checks!Cardinality,
         Validator!Cardinality
<1>17. \A n : Checks!Walk(n) = Validator!Walk(n)
  BY <1>3
     DEF Checks!Walk, Validator!Walk, Checks!First, Validator!First,
         Checks!Key, Validator!Key
<1>18. \A n : Checks!OnCycle(n) <=> Validator!OnCycle(n)
  BY <1>17 DEF Checks!OnCycle, Validator!OnCycle
<1>19. \A n : Checks!Unreachable(n) <=> Validator!Unreachable(n)
  BY <1>17, <1>18 DEF Checks!Unreachable, Validator!Unreachable
<1>20. Checks!CrosswalkDiagnostics = Validator!CrosswalkDiagnostics
  <2>1. Checks!Entries = {} /\ Validator!Entries = {}
    BY DEF Checks!Entries, Validator!Entries, Checks!ToSet, Validator!ToSet
  <2> QED BY <2>1
     DEF Checks!CrosswalkDiagnostics, Validator!CrosswalkDiagnostics,
         Checks!CrosswalkCode, Validator!CrosswalkCode, Checks!RepeatedTarget,
         Validator!RepeatedTarget, Checks!Mistargeted, Validator!Mistargeted,
         Checks!OtherSource, Validator!OtherSource, Checks!AgainstRepetition,
         Validator!AgainstRepetition
<1>21. Checks!Diagnostics = Validator!Diagnostics
  BY <1>1, <1>2, <1>3, <1>4, <1>5, <1>6, <1>7, <1>8, <1>9, <1>10, <1>11, <1>12,
     <1>13, <1>14, <1>15, <1>16, <1>18, <1>19, <1>20
     DEF Checks!Diagnostics, Validator!Diagnostics, Checks!Code,
         Validator!Code
<1> QED BY <1>21 DEF Checks!Accepted, Validator!Accepted

LEMMA NodesAreRows ==
    ASSUME DocTypes, Adapted, Courses
    PROVE  /\ Checks!Nodes = {Here[i] : i \in Places}
           /\ Checks!Nodes \subseteq NodeRows
           /\ Checks!Entries = {} /\ Checks!TypeInv
<1>1. Checks!Nodes = {nodes[k] : k \in 1..Len(PlaceOf)}
  BY NodesOfPlaces DEF Checks!Nodes, Checks!ToSet
<1>2. Checks!Nodes = {Here[i] : i \in Places}
  <2>1. ASSUME NEW i \in Places PROVE Here[i] \in Checks!Nodes
    <3>1. PICK k \in 1..Len(PlaceOf) : PlaceOf[k] = i
      BY NodesOfPlaces
    <3> QED BY <1>1, <3>1, NodesOfPlaces
  <2>2. \A n \in Checks!Nodes : \E i \in Places : n = Here[i]
    BY <1>1, NodesOfPlaces
  <2> QED BY <2>1, <2>2
<1>3. Checks!Nodes \subseteq NodeRows
  BY <1>2, NodesOfPlaces, NodeOfPlace
<1>4. Checks!Entries = {}
  BY DEF Checks!Entries, Checks!ToSet
<1>5. ASSUME NEW n \in Checks!Nodes PROVE Checks!LegalNode(n)
  <2>1. n \in NodeRows
    BY <1>3
  <2> QED BY <2>1 DEF NodeRows, Checks!LegalNode
<1>6. nodes \in Seq(Checks!Nodes)
  <2>1. \A k \in 1..Len(nodes) : nodes[k] \in Checks!Nodes
    BY <1>1, NodesOfPlaces
  <2>2. nodes \in Seq(NodeRows)
    BY NodesOfPlaces
  <2> QED BY <2>1, <2>2
<1>7. <<>> \in Seq(Checks!Entries)
  OBVIOUS
<1> QED BY <1>2, <1>3, <1>4, <1>5, <1>6, <1>7 DEF Checks!TypeInv

(* Nodes have no dates, so that they are in force together.                *)
LEMMA AlwaysInForce ==
    ASSUME NEW n \in NodeRows
    PROVE  0 \in Checks!Window(n) /\ Checks!Window(n) = Checks!Window(Root)
<1>1. n.from = None /\ n.to = None
  BY DEF NodeRows
<1>2. Root.from = None /\ Root.to = None
  BY DEF Root, Row
<1> QED BY <1>1, <1>2 DEF Checks!Window, Checks!InForce

LEMMA AcceptedHasDistinctIds ==
    ASSUME DocTypes, Adapted, Courses, Validator!Accepted
    PROVE  \A k, m \in DOMAIN nodes : nodes[k].id = nodes[m].id => k = m
<1> SUFFICES ASSUME NEW k \in DOMAIN nodes, NEW m \in DOMAIN nodes,
                    nodes[k].id = nodes[m].id, k # m
             PROVE  FALSE
  OBVIOUS
<1>1. Checks!Accepted /\ Checks!TypeInv
  BY AcceptedIs, NodesAreRows
<1>2. Checks!OneVersionAtATime
  BY <1>1, Checks!DatesOfAccepted, EgovTreeAssumption
     DEF Locators, Checks!Dates, Checks!AcceptedAtEveryDate
<1>3. Checks!Window(nodes[k]) \cap Checks!Window(nodes[m]) = {}
  BY <1>2 DEF Checks!OneVersionAtATime
<1>4. nodes[k] \in NodeRows /\ nodes[m] \in NodeRows
  BY NodesOfPlaces
<1> QED BY <1>3, <1>4, AlwaysInForce

LEMMA CompiledFaithful == EgovInv => CompiledIsFaithful
<1> SUFFICES ASSUME EgovInv, phase = "compiled" PROVE CompiledIsFaithful
  BY DEF CompiledIsFaithful
<1> DEFINE nodeOf(i) == nodes[CHOOSE k \in DOMAIN PlaceOf : PlaceOf[k] = i]
<1>1. DocTypes /\ Adapted /\ Courses /\ Validator!Accepted
  BY DEF EgovInv, Courses, Adapted
<1>2. /\ Constructible /\ Len(nodes) = Len(PlaceOf) /\ Len(PlaceOf) \in Nat \ {0}
      /\ DOMAIN PlaceOf = 1..Len(PlaceOf) /\ PlaceOf[1] = 1
      /\ \A k \in 1..Len(PlaceOf) : PlaceOf[k] \in Places /\ nodes[k] = Here[PlaceOf[k]]
  BY <1>1, NodesOfPlaces
<1>3. ASSUME NEW i \in Places PROVE nodeOf(i) = Here[i]
  <2>1. \E k \in DOMAIN PlaceOf : PlaceOf[k] = i
    BY <1>1, NodesOfPlaces
  <2> QED BY <1>2, <2>1
<1>4. nodes[1].parent = None
  <2>1. nodes[1] = Root
    BY <1>1, <1>2, NodeOfPlace
  <2> QED BY <2>1 DEF Root, Row
<1>5. ASSUME NEW k \in 2..Len(PlaceOf)
      PROVE  /\ nodes[k].parent = nodeOf(Enclosing(PlaceOf[k])).id
             /\ nodes[k].kind = KindAt(PlaceOf[k])
  <2> DEFINE i == PlaceOf[k]
  <2>1. k \in 1..Len(PlaceOf) /\ k # 1 /\ 1 \in 1..Len(PlaceOf)
    BY <1>2
  <2>2. i \in Places \ {1} /\ nodes[k] = Here[i]
    BY <1>1, <1>2, <2>1, NodesOfPlaces
  <2> HIDE DEF i, nodeOf
  <2>3. /\ Enclosing(i) \in Places /\ Here[i] = Below(i, Here[Enclosing(i)])
        /\ Here[i].kind = KindAt(i)
    BY <1>1, <1>2, <2>2, NodeOfPlace
  <2>4. Here[i].parent = Here[Enclosing(i)].id
    BY <2>3 DEF Below, Row
  <2>5. nodeOf(Enclosing(i)) = Here[Enclosing(i)]
    BY <1>3, <2>3
  <2> QED BY <2>2, <2>3, <2>4, <2>5 DEF i
<1>6. \A k, m \in DOMAIN nodes : nodes[k].id = nodes[m].id => k = m
  BY <1>1, AcceptedHasDistinctIds
<1> QED BY <1>2, <1>4, <1>5, <1>6 DEF CompiledIsFaithful, PlaceOf

----------------------------------------------------------------------------
(* Elements that do not share a designation have different locators.       *)

LEMMA SameSegment ==
    ASSUME NEW i \in Places \ {1}, NEW j \in Places \ {1}, NEW p, NEW q,
           Segment(i, p) = Segment(j, q)
    PROVE  \/ p = q
           \/ /\ KindAt(i) = KindAt(j)
              /\ NodeNumber(doc, i) # None /\ NodeNumber(doc, i) = NodeNumber(doc, j)
              /\ KindAt(i) = "appendix" => doc[i].tag = doc[j].tag
<1> DEFINE number(x) == NodeNumber(doc, x)
           tag(x) == IF KindAt(x) = "appendix" THEN doc[x].tag ELSE None
<1>1. /\ number(i) = None => Segment(i, p) = <<KindAt(i), p>>
      /\ number(j) = None => Segment(j, q) = <<KindAt(j), q>>
  BY DEF Segment, KindAt
<1>2. /\ number(i) # None => Segment(i, p) = <<KindAt(i), tag(i), number(i)>>
      /\ number(j) # None => Segment(j, q) = <<KindAt(j), tag(j), number(j)>>
  BY DEF Segment, KindAt
<1>3. \A a, b, c, d, e : <<a, b>> # <<c, d, e>>
  <2> SUFFICES ASSUME NEW a, NEW b, NEW c, NEW d, NEW e PROVE <<a, b>> # <<c, d, e>>
    OBVIOUS
  <2>1. Len(<<a, b>>) = 2 /\ Len(<<c, d, e>>) = 3
    OBVIOUS
  <2> QED BY <2>1
<1> HIDE DEF number, tag
<1>4. CASE number(i) = None /\ number(j) = None
  <2>1. <<KindAt(i), p>> = <<KindAt(j), q>>
    BY <1>1, <1>4
  <2> QED BY <2>1
<1>5. CASE number(i) # None /\ number(j) # None
  <2>1. <<KindAt(i), tag(i), number(i)>> = <<KindAt(j), tag(j), number(j)>>
    BY <1>2, <1>5
  <2>2. KindAt(i) = KindAt(j) /\ tag(i) = tag(j) /\ number(i) = number(j)
    BY <2>1
  <2> QED BY <1>5, <2>2 DEF tag, number
<1>6. CASE number(i) = None /\ number(j) # None
  <2>1. <<KindAt(i), p>> = <<KindAt(j), tag(j), number(j)>>
    BY <1>1, <1>2, <1>6
  <2> QED BY <1>3, <2>1
<1>7. CASE number(i) # None /\ number(j) = None
  <2>1. <<KindAt(j), q>> = <<KindAt(i), tag(i), number(i)>>
    BY <1>1, <1>2, <1>7
  <2> QED BY <1>3, <2>1
<1> QED BY <1>4, <1>5, <1>6, <1>7

Distinguished ==
    \A i, j \in Indices : i < j /\ IsNode(i) /\ IsNode(j) => ~SameDesignation(i, j)

LEMMA LocatorsDiffer ==
    ASSUME DocTypes, Constructible, Distinguished
    PROVE  \A i, j \in Places : Here[i].id = Here[j].id => i = j
<1> DEFINE Bad == {i \in Places : \E j \in Places : Here[i].id = Here[j].id /\ i # j}
<1> SUFFICES ASSUME Bad # {} PROVE FALSE
  OBVIOUS
<1>1. PICK i \in Bad : \A k \in Bad : i <= k
  <2>1. Bad \subseteq Nat
    BY NodeOfPlace
  <2> HIDE DEF Bad
  <2> QED BY <2>1, LeastElement
<1>2. PICK j \in Places : Here[i].id = Here[j].id /\ i # j
  OBVIOUS
<1>3. ASSUME NEW x \in Places \ {1}
      PROVE  /\ Here[x].id = Append(Here[Enclosing(x)].id, Segment(x, ChildPath[x]))
             /\ Here[Enclosing(x)].id \in Locators /\ Enclosing(x) \in Places
             /\ Enclosing(x) < x /\ Here[x].id # <<>>
  <2>1. /\ Enclosing(x) \in Places /\ Enclosing(x) \in 1..(x - 1) /\ x \in Nat
        /\ Here[x] = Below(x, Here[Enclosing(x)]) /\ Here[Enclosing(x)] \in NodeRows
    BY NodeOfPlace
  <2>2. Here[x].id = Append(Here[Enclosing(x)].id, Segment(x, ChildPath[x]))
    BY <2>1 DEF Below, Row
  <2>3. Here[Enclosing(x)].id \in Locators
    BY <2>1 DEF NodeRows
  <2>4. \A s \in Locators : \A y : Append(s, y) # <<>>
    <3> SUFFICES ASSUME NEW s \in Locators, NEW y PROVE Append(s, y) # <<>>
      OBVIOUS
    <3>1. Len(Append(s, y)) = Len(s) + 1 /\ Len(s) \in Nat
      BY DEF Locators
    <3> QED BY <3>1
  <2>5. Enclosing(x) < x
    BY <2>1
  <2>6. Here[x].id # <<>>
    BY <2>2, <2>3, <2>4
  <2> QED BY <2>1, <2>2, <2>3, <2>5, <2>6
<1>4. Here[1].id = <<>>
  BY NodeOfPlace DEF Root, Row
<1>5. i \in Places \ {1} /\ j \in Places \ {1}
  BY <1>2, <1>3, <1>4
<1>6. /\ Here[Enclosing(i)].id = Here[Enclosing(j)].id
      /\ Segment(i, ChildPath[i]) = Segment(j, ChildPath[j])
  <2> DEFINE s == Here[Enclosing(i)].id
             t == Here[Enclosing(j)].id
             x == Segment(i, ChildPath[i])
             y == Segment(j, ChildPath[j])
  <2>1. s \in Locators /\ t \in Locators /\ Append(s, x) = Append(t, y)
    BY <1>2, <1>3, <1>5
  <2> HIDE DEF s, t, x, y
  <2>2. s = t /\ x = y
    <3>1. PICK A : Locators = Seq(A)
      BY DEF Locators
    <3> QED BY <2>1, <3>1, SameAppend
  <2> QED BY <2>2 DEF s, t, x, y
<1>7. Enclosing(i) = Enclosing(j)
  <2>1. /\ Enclosing(i) \in Places /\ Enclosing(j) \in Places
        /\ Enclosing(i) < i /\ Enclosing(i) \in Nat /\ i \in Nat
    BY <1>3, <1>5, NodeOfPlace
  <2>2. Enclosing(i) \notin Bad
    <3> HIDE DEF Bad
    <3> QED BY <1>1, <2>1
  <2> QED BY <1>6, <2>1, <2>2
<1>8. i \in Indices /\ j \in Indices /\ IsNode(i) /\ IsNode(j) /\ i \in Nat /\ j \in Nat
  BY <1>5, NodeOfPlace DEF Places
<1>9. ChildPath[i] # ChildPath[j]
  BY <1>2, <1>8, PathsDiffer
<1>10. SameDesignation(i, j) /\ SameDesignation(j, i)
  BY <1>5, <1>6, <1>7, <1>9, SameSegment DEF SameDesignation
<1> QED BY <1>2, <1>8, <1>10 DEF Distinguished

InPlace == \A i \in Indices : IsNode(i) =>
              KindAt(i) \in Validator!Allowed[KindAt(Enclosing(i))]

LEMMA RefusalsHaveReason == EgovInv => RefusalHasReason
<1> SUFFICES ASSUME EgovInv, phase = "refused", Distinguished, InPlace PROVE FALSE
  BY DEF RefusalHasReason, EgovInv, Courses, Distinguished, InPlace
<1>1. DocTypes /\ Adapted /\ Courses /\ Constructible /\ ~Validator!Accepted
  BY DEF EgovInv, Courses, Adapted
<1>2. /\ Checks!TypeInv /\ Checks!Nodes = {Here[i] : i \in Places}
      /\ Checks!Nodes \subseteq NodeRows
  BY <1>1, NodesAreRows
<1>3. \A i, j \in Places : Here[i].id = Here[j].id => i = j
  BY <1>1, LocatorsDiffer
<1>4. \A m, n \in Checks!Nodes : m.id = n.id => m = n
  BY <1>2, <1>3
<1>5. Root \in Checks!Nodes /\ Root.parent = None /\ Root.kind = "law" /\ Root.depth = 0
  BY <1>1, <1>2, NodeOfPlace DEF Places, Root, Row
<1>6. ASSUME NEW n \in Checks!Children
      PROVE  \E p \in Checks!Parents(n) : /\ p.depth + 1 = n.depth
                                          /\ n.kind \in Checks!Allowed[p.kind]
  <2>1. PICK i \in Places : n = Here[i]
    BY <1>2 DEF Checks!Children
  <2>2. i # 1
    BY <1>1, <1>5, <2>1, NodeOfPlace DEF Checks!Children
  <2> DEFINE p == Here[Enclosing(i)]
  <2>3. /\ Enclosing(i) \in Places /\ n = Below(i, p)
        /\ n.kind = KindAt(i) /\ p.kind = KindAt(Enclosing(i))
    BY <1>1, <2>1, <2>2, NodeOfPlace
  <2>4. p \in Checks!Nodes
    BY <1>2, <2>3
  <2> HIDE DEF p
  <2>5. n.parent = p.id /\ n.depth = p.depth + 1
    BY <2>3 DEF Below, Row
  <2>6. KindAt(i) \in Validator!Allowed[KindAt(Enclosing(i))]
    BY <2>1, <2>2 DEF InPlace, Places
  <2>7. Checks!Allowed = Validator!Allowed
    BY DEF Checks!Allowed, Validator!Allowed, Checks!Divisions, Validator!Divisions
  <2> QED BY <2>3, <2>4, <2>5, <2>6, <2>7 DEF Checks!Parents, Checks!Versions
<1>7. \A n \in Checks!RootRows : n = Root
  <2> SUFFICES ASSUME NEW n \in Checks!RootRows PROVE n = Root
    OBVIOUS
  <2>1. PICK i \in Places : n = Here[i]
    BY <1>2 DEF Checks!RootRows
  <2>2. n.parent = None
    BY DEF Checks!RootRows, Checks!Children
  <2>3. ASSUME i # 1 PROVE FALSE
    <3>1. Enclosing(i) \in Places /\ n = Below(i, Here[Enclosing(i)])
      BY <1>1, <2>1, <2>3, NodeOfPlace
    <3>2. Here[Enclosing(i)].id \in Locators
      BY <1>1, <3>1, NodeOfPlace DEF NodeRows
    <3>3. n.parent = Here[Enclosing(i)].id
      BY <3>1 DEF Below, Row
    <3> QED BY <2>2, <3>2, <3>3, EgovTreeAssumption
  <2> QED BY <1>1, <2>1, <2>3, NodeOfPlace
<1>8. Root \in Checks!RootRows
  BY <1>5 DEF Checks!RootRows, Checks!Children
<1>9. \A n \in Checks!Nodes : Checks!Window(n) = Checks!Window(Root)
  BY <1>2, AlwaysInForce
<1>10. Checks!OneVersionAtATime
  <2>1. \A i, j \in DOMAIN nodes : nodes[i].id = nodes[j].id => i = j
    BY <1>1, <1>3, NodesOfPlaces
  <2> QED BY <2>1 DEF Checks!OneVersionAtATime
<1>11. Checks!WellPlaced
  <2>1. \A id : TheLaw(id) = "law"
    BY DEF TheLaw
  <2>2. \A n \in Checks!Children : \A p \in Checks!Parents(n) :
          Checks!Window(n) \subseteq Checks!Window(p)
    BY <1>9 DEF Checks!Children, Checks!Parents, Checks!Versions
  <2> QED BY <1>4, <1>5, <1>6, <1>7, <1>8, <1>10, <2>1, <2>2 DEF Checks!WellPlaced
<1>12. Checks!Accepted
  BY <1>2, <1>11, Checks!WellPlacedIsAccepted, EgovTreeAssumption
     DEF Locators, Checks!Dates
<1> QED BY <1>1, <1>12, AcceptedIs

(* Whatever the tags, numbers and nesting of a source, a compiled law has  *)
(* one node per recognized element, and each is below the innermost        *)
(* recognized element around it.                                           *)
THEOREM CompiledLawIsFaithful == Spec => []CompiledIsFaithful
BY EgovInvHolds, CompiledFaithful, PTL

(* Whatever the source, an admitted law is refused only for a number that  *)
(* is not positive, for siblings of one designation, or for an element     *)
(* where its kind may not be: locators never collide otherwise, and the    *)
(* adapter makes nothing else that validate_corpus refuses.                *)
THEOREM RefusedLawHasReason == Spec => []RefusalHasReason
BY EgovInvHolds, RefusalsHaveReason, PTL
=============================================================================
