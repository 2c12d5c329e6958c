------------------------------- MODULE EgovTree -------------------------------
(***************************************************************************)
(* The e-Gov XML adapter: an element tree is parsed, admitted or refused,  *)
(* turned into one node per recognized element, and the nodes are given to *)
(* validate_corpus (CorpusValidation).  What is meant, the enclosing node  *)
(* of an element and the characters of its source, is stated apart from    *)
(* the walk that computes it.                                              *)
(*                                                                         *)
(* Simplifications: the tree begins at the one LawBody that admission      *)
(* found; law identity and dates are left out.  A piece of character data  *)
(* is "" or a run of one sort (XML white space, other space, letters) and  *)
(* is told apart from every other piece, so that equal elements give equal *)
(* locators but different versions, which the validator refuses as well.   *)
(* "num" is the Num attribute of an element and, of an element that numbers*)
(* its parent (ArticleTitle), its characters.  A locator segment cut from  *)
(* a hashed path is that path.  Heading, label and attributes are left out.*)
(***************************************************************************)
EXTENDS EgovNumbers, FiniteSets

CONSTANTS Elements,     \* [tag, num, text, tail]: what may come next
          MaxElements   \* bound on the elements of a source

VARIABLES doc,    \* the elements in document order, each with its parent "up"
          phase,  \* how far compilation is
          nodes   \* the nodes of the adaptation

vars == <<doc, phase, nodes>>

----------------------------------------------------------------------------
(* The tables of tags                                                      *)
Numbered(before, after) == {before \o ToString(n) \o after : n \in 1..10}

AppendixTags == {"Appdx", "AppdxTable", "SupplProvisionAppdxTable",
    "SupplProvisionAppdxStyle", "SupplProvisionAppdx", "AppdxNote",
    "AppdxStyle", "AppdxFig", "AppdxFormat"}
SubitemTags == {"Subitem"} \cup Numbered("Subitem", "")
TagKinds ==
    [Preamble |-> "preamble", MainProvision |-> "main_provision",
     Part |-> "part", Chapter |-> "chapter", Section |-> "section",
     Subsection |-> "subsection", Division |-> "division",
     Article |-> "article", Paragraph |-> "paragraph", Item |-> "item",
     SupplProvision |-> "supplementary_provision",
     AmendProvision |-> "amendment_provision", Table |-> "table",
     TableRow |-> "row", TableHeaderRow |-> "row",
     TableColumn |-> "cell", TableHeaderColumn |-> "cell"]
NodeTags == DOMAIN TagKinds \cup AppendixTags \cup SubitemTags
NodeKinds == [tag \in NodeTags |->
    IF tag \in AppendixTags THEN "appendix"
    ELSE IF tag \in SubitemTags THEN "subitem" ELSE TagKinds[tag]]

StructuralTags == (NodeTags \ {"TableHeaderColumn"}) \cup
    {"Law", "LawBody", "TOC", "TOCPart", "TOCChapter", "TOCSection",
     "TOCSubsection", "TOCDivision", "TOCArticle", "TOCSupplProvision",
     "ParagraphSentence", "ItemSentence", "AmendProvisionSentence",
     "TableStruct", "FigStruct", "StyleStruct", "NoteStruct", "SentenceList",
     "Column", "Remarks", "SubitemSentence", "List"}
    \cup Numbered("Subitem", "Sentence") \cup Numbered("Sublist", "")
    \cup Numbered("Sublist", "Sentence")

InlineTags == {"Ruby", "Rt", "Rp", "Sup", "Sub", "UnderLine", "Line", "Bold",
    "Italic", "ArithFormula", "Formula", "Quote", "Bracket", "Point"}

(* _CONTENT_TAGS that are not in StructuralTags                            *)
LeafTags == {"LawNum", "LawTitle", "EnactStatement", "TOCLabel", "PartTitle",
    "ChapterTitle", "SectionTitle", "SubsectionTitle", "DivisionTitle",
    "ArticleCaption", "ArticleTitle", "ParagraphCaption", "ParagraphNum",
    "ItemTitle", "SubitemTitle", "SupplProvisionLabel", "AppdxTitle",
    "AppdxTableTitle", "AppdxNoteTitle", "AppdxStyleTitle", "AppdxFigTitle",
    "AppdxFormatTitle", "SupplProvisionAppdxTableTitle",
    "SupplProvisionAppdxStyleTitle", "RelatedArticleNum", "ArithFormulaNum",
    "Fig", "FigTitle", "Note", "RemarksLabel", "Sentence", "QuoteStruct"}
    \cup Numbered("Subitem", "Title")

KnownTags == NodeTags \cup StructuralTags \cup InlineTags \cup LeafTags
FailClosedTags == {"NewProvision"}

----------------------------------------------------------------------------
(* Admission                                                               *)
Indices == DOMAIN doc
IsNode(i) == doc[i].tag \in NodeTags
Inside(d, i) == SelectSeq([j \in DOMAIN d |-> j], LAMBDA j : d[j].up = i)

(* _ensure_supported_tree                                                  *)
Supported == \A i \in Indices :
    /\ doc[i].tag \notin FailClosedTags
    /\ doc[i].tag \in KnownTags \/ Inside(doc, i) = <<>>

Admissible == Supported /\ \E i \in Indices : IsNode(i)

----------------------------------------------------------------------------
(* Text in a document d: sequences of pieces of characters and of tags     *)
Piece(i, where, chars) == IF chars = "" THEN <<>> ELSE << <<i, where, chars>> >>

(* Mutant: any Unicode space counts as formatting (str.strip()).           *)
FormattingUnicode(d, i, chars) ==
    /\ d[i].tag \in StructuralTags /\ Inside(d, i) # <<>>
    /\ chars \in {"xml space", "other space"}

(* Layout between the children of an element-only element                  *)
Formatting(d, i, chars) ==
    d[i].tag \in StructuralTags /\ Inside(d, i) # <<>> /\ chars = "xml space"

(* _element_xml, with every space, but without the element's tail          *)
ElementXml(d) ==
    LET xml[i \in DOMAIN d] ==
            << <<i, "open">> >> \o Piece(i, "text", d[i].text)
            \o FlattenSeq([k \in DOMAIN Inside(d, i) |-> LET c == Inside(d, i)[k] IN
                   xml[c] \o Piece(c, "tail", d[c].tail)])
            \o << <<i, "close">> >>
    IN  xml

AsMarkup(tag) == tag \in InlineTags \/ tag \notin KnownTags

(* _render_text, the walk of _walk_text                                    *)
RenderText(d) ==
    LET xml == ElementXml(d)
        kept(i, where, chars, within) ==
            IF Formatting(d, within, chars) THEN <<>> ELSE Piece(i, where, chars)
        text[i \in DOMAIN d] ==
            kept(i, "text", d[i].text, i)
            \o FlattenSeq([k \in DOMAIN Inside(d, i) |-> LET c == Inside(d, i)[k] IN
                   (IF AsMarkup(d[c].tag) THEN xml[c] ELSE text[c])
                   \o kept(c, "tail", d[c].tail, i)])
    IN  text

----------------------------------------------------------------------------
(* Numbers, paths and locators                                             *)

(* _node_number: the Num attribute, else the first child of one of three   *)
(* names that shows a number                                               *)
NodeNumber(d, i) ==
    LET shown(suffix) ==
            SelectSeq(Inside(d, i), LAMBDA c : d[c].tag = d[i].tag \o suffix)
        first(suffix) == IF shown(suffix) = <<>> THEN None
                         ELSE OrdinalBranch(d[Head(shown(suffix))].num)
        found == SelectSeq(<<OrdinalBranch(d[i].num), first("Num"), first("Title"),
                             first("Label")>>, LAMBDA n : n # None)
    IN  IF found = <<>> THEN None ELSE Head(found)

(* child_path: the tag and its count among the children so far             *)
ChildPath ==
    LET path[i \in Indices] ==
            IF doc[i].up = 0 THEN <<>>
            ELSE Append(path[doc[i].up],
                   <<doc[i].tag, Cardinality({j \in 1..i :
                        doc[j].up = doc[i].up /\ doc[j].tag = doc[i].tag})>>)
    IN  path

(* Mutant: appendices are numbered across tags, as before JLEGAL-NORM-5.   *)
SegmentUntagged(i, path) ==
    LET kind == NodeKinds[doc[i].tag] IN
    IF NodeNumber(doc, i) = None THEN <<kind, path>>
    ELSE <<kind, None, NodeNumber(doc, i)>>

(* semantic_locator, below the parent's locator                            *)
Segment(i, path) ==
    LET kind == NodeKinds[doc[i].tag]
        sourceTag == IF kind = "appendix" THEN doc[i].tag ELSE None
    IN  IF NodeNumber(doc, i) = None THEN <<kind, path>>
        ELSE <<kind, sourceTag, NodeNumber(doc, i)>>

Row(id, parent, kind, depth, number, text) ==
    [id |-> id, parent |-> parent, kind |-> kind, depth |-> depth,
     from |-> None, to |-> None, wording |-> text, number |-> number]

(* The recognized elements, in document order                              *)
Recognized ==
    LET upTo[i \in 0..Len(doc)] ==
            IF i = 0 THEN <<>>
            ELSE IF IsNode(i) THEN Append(upTo[i - 1], i) ELSE upTo[i - 1]
    IN  upTo[Len(doc)]

(* Mutant: visit_children goes on with the parent of the new node.         *)
HereFlat ==
    LET text == RenderText(doc)
        path == ChildPath
        root == Row(<<>>, None, "law", 0, None, text[1])
        here[i \in Indices] ==
            IF doc[i].up = 0 \/ ~IsNode(i) THEN root
            ELSE Row(Append(root.id, Segment(i, path[i])), root.id,
                     NodeKinds[doc[i].tag], root.depth + 1,
                     NodeNumber(doc, i), text[i])
    IN  here

(* visit_children: Here[i] is the node that is the parent inside element i.*)
Here ==
    LET text == RenderText(doc)
        path == ChildPath
        root == Row(<<>>, None, "law", 0, None, text[1])
        here[i \in Indices] ==
            IF doc[i].up = 0 THEN root
            ELSE LET parent == here[doc[i].up] IN
                 IF ~IsNode(i) THEN parent
                 ELSE Row(Append(parent.id, Segment(i, path[i])), parent.id,
                          NodeKinds[doc[i].tag], parent.depth + 1,
                          NodeNumber(doc, i), text[i])
    IN  here

Adaptation ==
    LET here == Here
        recognized == Recognized
    IN  <<here[1]>> \o [k \in DOMAIN recognized |-> here[recognized[k]]]

(* LegalNode refuses an ordinal or branch that is not positive; a number   *)
(* that int() does not read is none either.                                *)
Positive == Nat \ {0}
Constructible == \A i \in Indices :
    IsNode(i) => NodeNumber(doc, i) \in {None} \cup (Positive \X Seq(Positive))

(* A locator is the sequence of its segments below /law/root.              *)
NodeKindNames == {NodeKinds[tag] : tag \in NodeTags}
Tags == {"LawBody"} \cup {e.tag : e \in Elements}
Locators ==
    Seq((NodeKindNames \X Seq(Tags \X Nat))
        \cup (NodeKindNames \X ({None} \cup Tags) \X (Positive \X Seq(Positive))))
TheLaw(locator) == "law"

ASSUME EgovTreeAssumption ==
    /\ MaxElements \in Nat \ {0} /\ None \notin Locators
    /\ \A e \in Elements : e.num \in Seq(Characters)
    /\ "LawBody" \notin NodeTags

Validator == INSTANCE CorpusValidation WITH
    items <- nodes, Ids <- Locators, Laws <- {"law"},
    LawOf <- TheLaw,
    Rows <- {}, MaxRows <- MaxElements, MaxDate <- 0, None <- None,
    crosswalk <- <<>>, Links <- {}, MaxLinks <- 0

----------------------------------------------------------------------------
LawBody == [up |-> 0, tag |-> "LawBody", num |-> <<>>, text |-> "", tail |-> ""]

Init == doc = <<LawBody>> /\ phase = "parse" /\ nodes = <<>>

(* The elements that element i is in                                       *)
Around == LET above[i \in 0..Len(doc)] ==
                  IF i = 0 THEN {} ELSE {doc[i].up} \cup above[doc[i].up]
          IN  [i \in Indices |-> above[i] \ {0}]

Place(e, up) == [up |-> up, tag |-> e.tag, num |-> e.num,
                 text |-> e.text, tail |-> e.tail]

(* The next start tag: its parent is the last element or one around it.    *)
ReadElement(e, up) ==
    /\ phase = "parse" /\ Len(doc) < MaxElements
    /\ up = Len(doc) \/ up \in Around[Len(doc)]
    /\ doc' = Append(doc, Place(e, up)) /\ UNCHANGED <<phase, nodes>>

Admit ==
    /\ phase = "parse"
    /\ phase' = IF Admissible THEN "admitted" ELSE "inadmissible"
    /\ UNCHANGED <<doc, nodes>>

Adapt ==
    /\ phase = "admitted"
    /\ \/ Constructible /\ nodes' = Adaptation /\ phase' = "adapted"
       \/ ~Constructible /\ phase' = "failed" /\ UNCHANGED nodes
    /\ UNCHANGED doc

Compile ==
    /\ phase = "adapted"
    /\ phase' = IF Validator!Accepted THEN "compiled" ELSE "refused"
    /\ UNCHANGED <<doc, nodes>>

Next ==
    \/ \E e \in Elements, up \in Indices : ReadElement(e, up)
    \/ Admit \/ Adapt \/ Compile

Spec == Init /\ [][Next]_vars

----------------------------------------------------------------------------
(* What the adaptation should say, from the source alone                   *)
Subtree(i) == {j \in Indices : j = i \/ i \in Around[j]}

(* The innermost recognized element around i; 1, LawBody, stands for Law.  *)
Enclosing(i) == LET around == {j \in Around[i] : IsNode(j)} \cup {1}
                IN  CHOOSE j \in around : \A k \in around : k <= j
KindAt(i) == IF i = 1 THEN "law" ELSE NodeKinds[doc[i].tag]

(* Parsed elements are nested as they can be in a document, and nodes exist*)
(* once the adapter has run.                                               *)
TypeOK ==
    /\ Len(doc) \in 1..MaxElements
    /\ \A i \in Indices : doc[i].up \in 0..(i - 1)
    /\ \A i \in 2..Len(doc) : \A j \in doc[i].up..(i - 1) :
          j \in Subtree(doc[i].up)
    /\ phase \in {"parse", "admitted", "inadmissible", "adapted", "failed",
                  "compiled", "refused"}
    /\ (nodes = <<>>) = (phase \notin {"adapted", "compiled", "refused"})

(* A compiled law has a node for each recognized element and no other, no  *)
(* two of them the same node, each below the innermost recognized element  *)
(* around it in the source, however many transparent elements lie between. *)
CompiledIsFaithful ==
    phase = "compiled" =>
        LET at == <<1>> \o Recognized
            nodeOf(i) == nodes[CHOOSE k \in DOMAIN at : at[k] = i]
        IN  /\ Len(nodes) = Len(at) /\ nodes[1].parent = None
            /\ \A k \in 2..Len(at) :
                  /\ nodes[k].parent = nodeOf(Enclosing(at[k])).id
                  /\ nodes[k].kind = KindAt(at[k])
            /\ \A k, m \in DOMAIN nodes : nodes[k].id = nodes[m].id => k = m

SameDesignation(i, j) ==
    /\ Enclosing(i) = Enclosing(j) /\ KindAt(i) = KindAt(j)
    /\ NodeNumber(doc, i) # None /\ NodeNumber(doc, i) = NodeNumber(doc, j)
    /\ KindAt(i) = "appendix" => doc[i].tag = doc[j].tag

(* An admitted law that does not compile gives cause for it: a number that *)
(* is not positive, two siblings of one designation, or an element where   *)
(* its kind may not be.  Neither unnumbered siblings, nor equal numbers of *)
(* different appendix tags or in different parents, stop a compilation.    *)
RefusalHasReason ==
    phase \in {"failed", "refused"} =>
        \/ ~Constructible
        \/ \E i, j \in Indices : /\ i < j /\ IsNode(i) /\ IsNode(j)
                                 /\ SameDesignation(i, j)
        \/ \E i \in Indices : /\ IsNode(i)
              /\ KindAt(i) \notin Validator!Allowed[KindAt(Enclosing(i))]

(* The pieces of characters in subtree i, and their order in the document: *)
(* a text stands at its start tag, a tail after the last element inside    *)
(* its own, and of tails that follow one element the inner come first.     *)
PiecesIn(i) ==
    {p \in {<<j, "text", doc[j].text>> : j \in Subtree(i)}
           \cup {<<j, "tail", doc[j].tail>> : j \in Subtree(i) \ {i}} : p[3] # ""}
Before(p, q) ==
    LET last(j) == CHOOSE k \in Subtree(j) : \A m \in Subtree(j) : m <= k
        at(x) == IF x[2] = "text" THEN <<x[1], 0>>
                 ELSE <<last(x[1]), Len(doc) + 1 - x[1]>>
    IN  \/ at(p)[1] < at(q)[1]
        \/ at(p)[1] = at(q)[1] /\ at(p)[2] < at(q)[2]

(* JLEGAL-TEXT-PRESERVE-1: the text of every node has each piece of its    *)
(* source that is more than XML white space, once and in order, whether it *)
(* lies in markup, after markup or outside; nothing is invented.           *)
TextPreserved ==
    phase = "adapted" =>
        LET at == <<1>> \o Recognized
        IN  \A k \in DOMAIN nodes :
               LET chars == SelectSeq(nodes[k].wording, LAMBDA p : Len(p) = 3)
               IN  /\ ToSet(chars) \subseteq PiecesIn(at[k])
                   /\ \A p \in PiecesIn(at[k]) :
                         p[3] # "xml space" => p \in ToSet(chars)
                   /\ \A m, n \in DOMAIN chars : m < n => Before(chars[m], chars[n])
=============================================================================
