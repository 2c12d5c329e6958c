----------------------------- MODULE MCMergeGate -----------------------------
(***************************************************************************)
(* An instance of MergeGate for TLC with four families: every course of   *)
(* the jobs on a good commit; every deviation of a build of it; every tree *)
(* that differs from it in one file; and every range of two commits.       *)
(***************************************************************************)
EXTENDS MergeGate, TLC

Line(leak, part, numbered, cites) ==
    [blank |-> FALSE, leak |-> leak, part |-> part, numbered |-> numbered, cites |-> cites]
Blank == [blank |-> TRUE, leak |-> FALSE, part |-> "none", numbered |-> FALSE, cites |-> {}]
Plain == Line(FALSE, "none", FALSE, {})
Says(part) == Line(FALSE, part, FALSE, {})
Text(lines) == [state |-> "text", lines |-> lines, parses |-> FALSE, symbols |-> {}]
Code(lines, symbols) == [state |-> "text", lines |-> lines, parses |-> TRUE, symbols |-> symbols]

Guide == <<"docs", "guide.md">>
Chart == <<"docs", "zu.md">>
Module == <<"src", "jlegal_okf", "egov.py">>
Log == <<"CHANGELOG.md">>
Logo == <<"logo.png">>

Cites(path, symbol) == Line(FALSE, "none", FALSE, {[path |-> path, symbol |-> symbol]})

GoodTree ==
    Guide :> Text(<<Plain, Cites(Module, "adapter")>>)
    @@ Module :> Code(<<Plain>>, {"adapter"})
    @@ Log :> Text(<<Says("whole")>>)
    @@ Logo :> [Text(<<>>) EXCEPT !.state = "not UTF-8"]

Prose == {Blank, Says("whole"), Says("head"), Says("tail"), Says("ja head"), Says("ja tail")}
SomeLines == {Plain, Line(TRUE, "none", FALSE, {}),
              Line(FALSE, "none", TRUE, {}), Cites(Module, "adapter"),
              Cites(Module, "gone"), Cites(<<"src", "jlegal_okf", "gone.py">>, "adapter"),
              Cites(<<"src", "..", "gone.py">>, "adapter")}

OtherGuides == {Text(lines) : lines \in UNION {[1..n -> SomeLines] : n \in 0..2}}
               \cup {Text(lines) : lines \in [1..3 -> Prose]}
               \cup {[Text(<<Plain>>) EXCEPT !.state = s] : s \in {"missing", "not UTF-8", "unreadable"}}
OtherModules == {[Code(<<Plain>>, {"adapter"}) EXCEPT !.parses = FALSE],
                 [Code(<<Plain>>, {"adapter"}) EXCEPT !.state = "missing"],
                 [Code(<<Plain>>, {"adapter"}) EXCEPT !.state = "not UTF-8"],
                 Code(<<Line(TRUE, "none", FALSE, {})>>, {"adapter"})}

MCTrees ==
    {GoodTree, <<>>, Chart :> Text(<<Plain>>) @@ GoodTree,
     <<"private", "notes.md">> :> Text(<<Plain>>) @@ GoodTree,
     <<"logo.svg">> :> [Text(<<>>) EXCEPT !.state = "not UTF-8"] @@ GoodTree,
     <<"docs", "photo.png">> :> Text(<<Plain>>) @@ GoodTree}
    \cup {Guide :> g @@ GoodTree : g \in OtherGuides}
    \cup {Module :> m @@ GoodTree : m \in OtherModules}

----------------------------------------------------------------------------
Root == "jlegal_okf-1"
Info == "jlegal_okf-1.dist-info"

Member(parts, kind, plain) == [parts |-> parts, kind |-> kind, plain |-> plain]
MCMembers ==
    {Member(p, kind, TRUE) : kind \in {"file", "dir"},
        p \in {<<Root>> \o Guide, <<Root, "docs">>, <<Root, "docs", "draft.md">>,
               <<Root, "PKG-INFO">>, <<Root, "src", "jlegal_okf.egg-info">>, <<"jlegal_okf", "egov.py">>, <<"jlegal_okf">>,
               <<"jlegal_okf", "old.py">>, <<Info, "LICENSE">>, <<Info, "licenses">>}}
    \cup {Member(p, "link", TRUE) : p \in {<<Root>> \o Guide, <<"jlegal_okf", "egov.py">>}}
    \cup {Member(p, "file", TRUE) :
        p \in {<<>>, <<Root>>, <<"jlegal_okf-2", "README.md">>, <<"other", "README.md">>,
               <<Root, "..", "README.md">>, <<Root, "okf", "index.md">>,
               <<Root, "private", "notes.md">>, <<"jlegal_okf-2.dist-info", "METADATA">>,
               <<"other.dist-info", "METADATA">>, <<"tests", "test_a.py">>}}
    \cup {Member(<<Root>> \o Guide, "file", FALSE)}

MCQuoted == {Chart}
MCReleaseExempt == {Log}
MCFixedFiles == {<<"README.md">>}
MCSdistMetadata == {<<"PKG-INFO">>, <<"src", "jlegal_okf.egg-info", "PKG-INFO">>}

MCExtraFiles ==
    {[given |-> FALSE, readable |-> FALSE, lines |-> {}]}
    \cup {[given |-> TRUE, readable |-> r, lines |-> ls] :
             r \in BOOLEAN, ls \in {{}, {"pattern"}, {"pattern", "malformed"}}}
NoExtra == ~extra.given

----------------------------------------------------------------------------
MCLower == [a \in Addresses |-> IF a = "Ann" THEN "ann" ELSE a]
Commits == [merge : BOOLEAN, separated : BOOLEAN, author : {"ann", "Ann"},
            committer : {"ann", "bob"}, signoffs : SUBSET {"Ann", "bob", "eve"}]
Signed1 == [merge |-> FALSE, separated |-> FALSE, author |-> "ann",
            committer |-> "ann", signoffs |-> {"Ann"}]
MCRanges == {<<>>, <<Signed1>>} \cup {<<Signed1, c>> : c \in Commits}

----------------------------------------------------------------------------
(* Where the archives or the commit are varied, they are verified first,   *)
(* the other jobs succeed, and what was refused is not followed further.   *)
Calm == tree = GoodTree /\ NoExtra /\ edits = 0 /\ commits = <<Signed1>>
Followed == Calm \/ (verdict = "passed" /\ clean)
Quiet == \A j \in Jobs : results'[j] \in {"pending", "success", "skipped"}

MCInit ==
    /\ MergeInit
    /\ Calm \/ event = "pull_request"
    /\ tree = GoodTree \/ (NoExtra /\ commits = <<Signed1>>)
    /\ NoExtra \/ commits = <<Signed1>>

MCNext ==
    \/ PackageWorks /\ (edits' > edits =>
           /\ tree = GoodTree /\ NoExtra /\ attempts = 0
           /\ commits = <<Signed1>> /\ scanner = Scans!Scanners[1]
           /\ \A j \in Jobs : results[j] = "pending")
    \/ Followed /\ BoundaryWorks
    \/ Followed /\ (\E j \in Jobs : EndJob(j)) /\ (Calm \/ Quiet)
    \/ Followed /\ Decides /\ (Calm \/ Quiet)
    \/ Calm /\ RerunJobs

MCSpec == MCInit /\ [][MCNext]_vars /\ Fairness
=============================================================================
