------------------------------ MODULE MCEgovTree ------------------------------
(***************************************************************************)
(* An instance of EgovTree for TLC with three families of sources: one     *)
(* varies tags and numbers, one tags and characters, and in one a single   *)
(* article has a number of any size, in its attribute or in its title.     *)
(***************************************************************************)
EXTENDS EgovTree

Element(tag, num, text, tail) ==
    [tag |-> tag, num |-> num, text |-> text, tail |-> tail]

One == <<"1">>
NoNum == <<>>

(* Kinds that may and may not stand in each other, a transparent element,  *)
(* two tags of appendices, a number shown by a title, a number that is not *)
(* positive, an unknown tag and one that is never admitted.                *)
NumberedElements ==
    {Element(tag, One, "", "") :
        tag \in {"Article", "Paragraph", "AppdxTable", "AppdxStyle", "ArticleTitle"}}
    \cup {Element(tag, NoNum, "", "") :
             tag \in {"Chapter", "Article", "List", "Unknown", "NewProvision"}}
    \cup {Element("Article", <<"1", "_", "0">>, "", ""),
          Element("ArticleTitle", <<"circled">>, "", "")}

(* An element-only node, a node with mixed content, a leaf, an inline      *)
(* element and one that is not known.                                      *)
TextElements ==
    {Element(tag, NoNum, text, tail) :
        tag \in {"Article", "TableHeaderColumn", "Sentence", "Ruby", "Unknown"},
        text \in {"xml space", "letters"},
        tail \in {"", "xml space", "other space"}}

(* Numbers with and without each unit, with and without branches           *)
Written == {1, 4, 9, 10, 11, 20, 25, 99, 100, 101, 110, 111, 203, 340, 999,
            1000, 1001, 1010, 1050, 1111, 2345, 9999}
Branches == {<<>>, <<1>>, <<2>>, <<12>>, <<2, 3>>, <<10, 1, 20>>}
Titles     == [n \in Written, b \in Branches |-> Title(n, b)]
Attributes == [n \in Written, b \in Branches |-> Attribute(n, b)]
Numbers ==
    {Element("ArticleTitle", Titles[w], "", "") : w \in DOMAIN Titles}
    \cup {Element("Article", Attributes[w], "", "") : w \in DOMAIN Attributes}
    \cup {Element("Article", <<"ichi", "space", "juu", "no">>, "", ""),
          Element("Article", <<"other", "1">>, "", "")}

MCElements == NumberedElements \cup TextElements \cup Numbers

(* Elements of one family only, and at most MaxText of those with text.    *)
MaxText == 3
Read == {[tag |-> e.tag, num |-> e.num, text |-> e.text, tail |-> e.tail] :
            e \in ToSet(Tail(doc))}
MCNext ==
    \/ /\ Len(doc) <= MaxText /\ Read \subseteq TextElements
       /\ \E e \in TextElements, up \in Indices : ReadElement(e, up)
    \/ /\ Read \subseteq NumberedElements
       /\ \E e \in NumberedElements, up \in Indices : ReadElement(e, up)
    \/ /\ Len(doc) = 1 \/ (Len(doc) = 2 /\ doc[2] = Place(Element("Article", NoNum, "", ""), 1))
       /\ \E e \in Numbers : ReadElement(e, Len(doc))
    \/ Admit \/ Adapt \/ Compile

MCSpec == Init /\ [][MCNext]_vars

----------------------------------------------------------------------------
(* A number that is written as statutes write it is read as it is meant,   *)
(* in decimals with all its branches, in kanji with one: 1 to 9999, with   *)
(* units that stand alone and places that are left out.                    *)
NumberedAsWritten ==
    LET articles == {i \in Indices : doc[i].tag = "Article"}
        inTitle(i, n, b) ==
            /\ doc[i].num = NoNum /\ Len(b) < 2
            /\ \E j \in Indices :
                  /\ doc[j].up = i /\ doc[j].tag = "ArticleTitle"
                  /\ doc[j].num = Titles[n, b]
                  /\ \A k \in Indices : doc[k].up = i => k = j
    IN  phase = "adapted" =>
            \A i \in articles, n \in Written, b \in Branches :
                doc[i].num = Attributes[n, b] \/ inTitle(i, n, b)
                    => \E m \in DOMAIN nodes : nodes[m].number = <<n, b>>
=============================================================================
