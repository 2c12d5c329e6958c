--------------------------- MODULE RepositoryScans ---------------------------
(***************************************************************************)
(* The job boundary of ci.yml: three scripts read the files that git       *)
(* tracks, one after the other, and each ends with an error when it finds  *)
(* an issue: check_boundary.py, check_release_state.py and                 *)
(* check_doc_citations.py.                                                 *)
(*                                                                         *)
(* Simplifications: a path is a sequence of names; a line is a record of   *)
(* what the regular expressions find on it (a private content or address,  *)
(* a part of a sentence on releases, which may wrap over two lines,        *)
(* citations); the working tree does not change while the job runs.  Extra *)
(* patterns, which the job does not supply, are part of Distribution.      *)
(***************************************************************************)
EXTENDS Naturals, SequencesExt

CONSTANTS Trees,          \* working trees: functions from the tracked paths
          BinaryNames,    \* file names with one of BINARY_EXTENSIONS
          Markdown,       \* file names in .md
          Marked,         \* names with a private marker
          Quoted,         \* paths that git ls-files quotes (not ASCII)
          SelfExempt,     \* SELF_EXEMPT_PATHS
          ReleaseExempt   \* EXEMPT_PATHS

(* A file of a working tree: whether it can be read as UTF-8 text, its     *)
(* lines, and the module-level symbols that ast finds in it.               *)
States == {"text", "missing", "not UTF-8", "unreadable"}
Parts == {"none", "whole", "head", "tail", "ja head", "ja tail"}
IsFile(f) ==
    /\ f.state \in States /\ f.parses \in BOOLEAN
    /\ f.lines \in Seq(Range(f.lines))
    /\ \A l \in Range(f.lines) :
        /\ l.blank \in BOOLEAN /\ l.leak \in BOOLEAN
        /\ l.part \in Parts /\ l.numbered \in BOOLEAN
        /\ l.blank => l.part = "none"

ScansAssumption == \A t \in Trees : \A p \in DOMAIN t : IsFile(t[p])

VARIABLES tree,   \* the checkout
          scanner, \* the script that runs next, or "done"
          clean   \* no script has found an issue

scanVars == <<tree, scanner, clean>>

Scanners == <<"check_boundary", "check_release_state", "check_doc_citations">>

----------------------------------------------------------------------------
(* What the scripts share                                                  *)
Lines(p) == Range(tree[p].lines)

(* A quoted path is printed with escapes and is not the name of a file.    *)
State(p) == IF p \in Quoted THEN "missing" ELSE tree[p].state

(* check_boundary                                                          *)
CheckPath(p) == Range(p) \cap (Marked \cup {".."}) = {} /\ p \notin Quoted

CheckTree(files) ==
    \A p \in files :
        /\ CheckPath(p)
        /\ \/ p \in SelfExempt \/ Last(p) \in BinaryNames
           \/ State(p) = "text" /\ \A l \in Lines(p) : ~l.leak

----------------------------------------------------------------------------
(* check_release_state                                                     *)

(* paragraphs: the numbers of lines that no blank line parts               *)
Paragraphs(lines) ==
    LET full == {i \in DOMAIN lines : ~lines[i].blank}
    IN  {{j \in full : (i..j) \cup (j..i) \subseteq full} : i \in full}

(* A sentence over two lines reads on after a space in English and without *)
(* one in Japanese, so the text is tried as joined and squashed.           *)
Follows(lines, paragraph, head, tail) ==
    \E i \in paragraph : /\ i + 1 \in paragraph
                         /\ lines[i].part = head /\ lines[i + 1].part = tail

(* Mutant: the text is tried as joined only.                               *)
MatchingPatternJoined(lines, paragraph) ==
    \/ \E i \in paragraph : lines[i].part = "whole"
    \/ Follows(lines, paragraph, "head", "tail")

MatchingPattern(lines, paragraph) ==
    \/ \E i \in paragraph : lines[i].part = "whole"
    \/ Follows(lines, paragraph, "head", "tail")
    \/ Follows(lines, paragraph, "ja head", "ja tail")

ScanTree(files) ==
    \A p \in files :
        \/ p \in ReleaseExempt
        \/ Last(p) \in BinaryNames /\ p \notin Quoted
        \/ State(p) = "not UTF-8"
        \/ /\ State(p) = "text"
           /\ \A paragraph \in Paragraphs(tree[p].lines) :
                 ~MatchingPattern(tree[p].lines, paragraph)

----------------------------------------------------------------------------
(* check_doc_citations                                                     *)

(* _resolve_file and module_level_symbols                                  *)
Resolves(cited) ==
    /\ ".." \notin Range(cited.path) /\ cited.path \in DOMAIN tree
    /\ tree[cited.path].state = "text" /\ tree[cited.path].parses
    /\ cited.symbol \in tree[cited.path].symbols

CheckCitations(files) ==
    \A p \in {q \in files : Last(q) \in Markdown} :
        /\ State(p) = "text"
        /\ \A l \in Lines(p) : ~l.numbered /\ \A cited \in l.cites : Resolves(cited)

----------------------------------------------------------------------------
Init == tree \in Trees /\ scanner = Scanners[1] /\ clean = TRUE

(* Each lists the tracked files itself, and git may fail; the first two    *)
(* also refuse a list without files.                                       *)
Finding(git) ==
    CASE scanner = "check_boundary"      -> ~git \/ DOMAIN tree = {} \/ ~CheckTree(DOMAIN tree)
      [] scanner = "check_release_state" -> ~git \/ DOMAIN tree = {} \/ ~ScanTree(DOMAIN tree)
      [] scanner = "check_doc_citations" -> ~git \/ ~CheckCitations(DOMAIN tree)

(* The steps of a job stop at the first that fails.                        *)
Scan(git) ==
    /\ scanner \in Range(Scanners) /\ clean
    /\ clean' = ~Finding(git)
    /\ scanner' = (IF scanner = "check_boundary" THEN "check_release_state"
                   ELSE IF scanner = "check_release_state" THEN "check_doc_citations"
                   ELSE "done")
    /\ UNCHANGED tree

Next == \E git \in BOOLEAN : Scan(git)
Spec == Init /\ [][Next]_scanVars

----------------------------------------------------------------------------
JobSucceeded == scanner = "done" /\ clean

(* Every tracked file that is neither exempt nor binary can be read and    *)
(* holds no private content: the checker "fails closed" (check_boundary).  *)
NothingPrivate ==
    \A p \in DOMAIN tree :
        \/ p \in SelfExempt \/ Last(p) \in BinaryNames
        \/ /\ tree[p].state = "text" /\ p \notin Quoted
           /\ \A l \in Lines(p) : ~l.leak

(* No sentence on releases stands in a file that is not exempt, on one     *)
(* line or wrapped over two (check_release_state).                         *)
NoRestatement ==
    \A p \in DOMAIN tree \ ReleaseExempt :
        tree[p].state = "text" /\ Last(p) \notin BinaryNames =>
            LET lines == tree[p].lines
            IN  /\ \A l \in Range(lines) : l.part # "whole"
                /\ \A i \in 1..(Len(lines) - 1) :
                      <<lines[i].part, lines[i + 1].part>> \notin
                          {<<"head", "tail">>, <<"ja head", "ja tail">>}

(* Whatever a document cites is defined in a file of the checkout          *)
(* (check_doc_citations).                                                  *)
CitationsHold ==
    \A p \in DOMAIN tree : Last(p) \in Markdown =>
        \A l \in Lines(p) : ~l.numbered /\ \A cited \in l.cites : Resolves(cited)
=============================================================================
