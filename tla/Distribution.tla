---------------------------- MODULE Distribution ----------------------------
(***************************************************************************)
(* tools/verify_distribution.py: what a built sdist and wheel may hold,    *)
(* decided from their member names against the files that git tracks.      *)
(*                                                                         *)
(* Simplifications: a path is a sequence of names; suffixes, markers and   *)
(* regular expressions are sets of names; the five generated files that a  *)
(* dist-info directory must have are RequiredMetadata; a member name is    *)
(* not plain when it has a backslash, a leading slash or a drive.  The     *)
(* rule on .data trees, which the allowlist implies, is left out.  The     *)
(* archives start as a build of the tracked files and are then changed     *)
(* member by member, as a wrong build would.  The checkout does not change *)
(* while they are verified, so that the two calls of git ls-files, one for *)
(* each archive, are one reading, which may fail.                          *)
(***************************************************************************)
EXTENDS Integers, FiniteSets, SequencesExt

CONSTANTS Tracked,          \* sets of paths that git may track
          Markdown, Data, Python, \* file names in .md, .xml or .json, .py
          Quoted,           \* paths that git ls-files quotes (not ASCII)
          FixedFiles,       \* FIXED_SDIST_FILES
          SdistMetadata,    \* SDIST_METADATA_FILES
          RequiredMetadata, \* names of the generated files of a dist-info
          SdistRoots,       \* names that SDIST_ROOT_RE matches
          InfoLike,         \* names that contain ".dist-info"
          DistInfos,        \* names that the dist-info pattern matches
          Marked,           \* names with a private marker
          ExtraMatched,     \* names that a supplied pattern matches
          ExtraFiles,       \* states of the --extra-patterns file
          Members,          \* archive members that a wrong build may add
          MaxEdits          \* bound on the deviations of a build

VARIABLES index,  \* the paths that git tracks
          extra,  \* the --extra-patterns file
          sdist,  \* the members of the source archive, in order
          wheel,  \* the members of the wheel, in order
          edits,  \* deviations so far
          verdict \* of main: "building", "passed" or "failed"

distVars == <<index, extra, sdist, wheel, edits, verdict>>

File(parts) == [parts |-> parts, kind |-> "file", plain |-> TRUE]
Dir(parts)  == [parts |-> parts, kind |-> "dir",  plain |-> TRUE]
Path == Seq(STRING)
IsMember(m) ==
    m \in [parts : Path, kind : {"file", "dir", "link"}, plain : BOOLEAN]
Package == <<"src", "jlegal_okf">>

(* FORBIDDEN_SDIST_FILES, FORBIDDEN_SDIST_ROOTS and those of the wheel     *)
SdistFiles == {".gitignore", "OKF.md"}
SdistTrees == {".github", "okf", "tools"}
WheelFiles == {".gitignore", "OKF.md", "AGENTS.md"}
WheelTrees == {".github", ".git", "docs", "examples", "okf", "tests", "tools"}

DistributionAssumption ==
    /\ DistInfos \subseteq InfoLike
    /\ RequiredMetadata \cup {"licenses", "LICENSE", "NOTICE"} \subseteq STRING
    /\ InfoLike \subseteq STRING \ (WheelFiles \cup WheelTrees \cup {"jlegal_okf"})
    /\ FixedFiles # {} /\ MaxEdits \in Nat
    /\ \A p \in FixedFiles \cup SdistMetadata :
          /\ p \in Path /\ p # <<>> /\ Head(p) \notin SdistFiles \cup SdistTrees
          /\ ~IsStrictPrefix(Package, p)
    /\ \A files \in Tracked : IsFiniteSet(files) /\ files \subseteq Path \ {<<>>}
    /\ IsFiniteSet(FixedFiles \cup SdistMetadata) /\ IsFiniteSet(RequiredMetadata)
    /\ SdistRoots \subseteq STRING
    /\ \A m \in Members : IsMember(m)
    /\ \A f \in ExtraFiles : f.given \in BOOLEAN /\ f.readable \in BOOLEAN
                             /\ f.lines \subseteq {"blank", "pattern", "malformed"}

----------------------------------------------------------------------------
(* The baseline                                                            *)

(* git ls-files prints a path that is not ASCII in quotes and with escapes,*)
(* so that it has none of the prefixes that are looked for.                *)
ListedFiles == index \ Quoted

In(p, prefix, names) ==
    /\ Len(p) > Len(prefix) /\ SubSeq(p, 1, Len(prefix)) = prefix
    /\ Last(p) \in names
Public(p) == \/ In(p, <<"docs">>, Markdown) \/ In(p, <<"examples">>, Data)
             \/ In(p, <<"tests">>, Python)  \/ In(p, Package, Python)

ExpectedSdist(files)   == FixedFiles \cup {p \in files : Public(p)}
ExpectedPackage(files) == {Tail(p) : p \in {q \in files : In(q, Package, Python)}}

----------------------------------------------------------------------------
(* Rules on any member                                                     *)
Safe(m) == m.plain /\ m.parts # <<>> /\ Range(m.parts) \cap {"..", ".", ""} = {}

(* load_extra_patterns: a file that was asked for has to give patterns.    *)
ExtraUsable == ~extra.given \/ (/\ extra.readable /\ "malformed" \notin extra.lines
                                /\ "pattern" \in extra.lines)
ExtraMatches(p) == extra.given /\ Range(p) \cap ExtraMatched # {}

(* Mutant: a member is compared with the one before it only.               *)
NoRepetition(ms) == \A i, j \in DOMAIN ms : j = i + 1 => ms[i].parts # ms[j].parts

NoDuplicates(ms) == \A i, j \in DOMAIN ms : i < j => ms[i].parts # ms[j].parts

Readable(ms) ==
    /\ ms # <<>> /\ NoDuplicates(ms)
    /\ \A m \in Range(ms) : Safe(m) /\ m.kind # "link" /\ ~ExtraMatches(m.parts)

ProperPrefix(p, allowed) == \E q \in allowed : IsStrictPrefix(p, q)
PrivateMarker(p) == Range(p) \cap Marked # {}

----------------------------------------------------------------------------
(* The source archive                                                      *)
ForbiddenSdist(p) == Head(p) \in SdistTrees \/ (Len(p) = 1 /\ Head(p) \in SdistFiles)

SdistAllows(m, allowed) ==
    /\ ~ForbiddenSdist(m.parts) /\ ~PrivateMarker(m.parts)
    /\ IF m.kind = "file" THEN m.parts \in allowed
                          ELSE ProperPrefix(m.parts, allowed)

(* Mutant: only the fixed files are looked for.                            *)
MissingFixedFiles(ms, expected) ==
    FixedFiles \ {Tail(m.parts) : m \in {n \in Range(ms) : n.kind = "file"}}

MissingFromSdist(ms, expected) ==
    expected \ {Tail(m.parts) : m \in {n \in Range(ms) : n.kind = "file"}}

VerifySdist(ms, expected) ==
    /\ Readable(ms)
    /\ Cardinality({Head(m.parts) : m \in Range(ms)}) = 1
    /\ \A m \in Range(ms) :
        /\ Head(m.parts) \in SdistRoots
        /\ IF Len(m.parts) = 1 THEN m.kind = "dir"
           ELSE SdistAllows([m EXCEPT !.parts = Tail(m.parts)],
                            expected \cup SdistMetadata)
    /\ MissingFromSdist(ms, expected) = {}

----------------------------------------------------------------------------
(* The wheel                                                               *)
ForbiddenWheel(p) == Head(p) \in WheelTrees \/ (Len(p) = 1 /\ Head(p) \in WheelFiles)

(* Where a licence and a notice may be in a dist-info directory            *)
Places(info, name) == {<<info, name>>, <<info, "licenses", name>>}
RequiredInfo(info) == {<<info, name>> : name \in RequiredMetadata}
InfoFiles(info) ==
    RequiredInfo(info) \cup Places(info, "LICENSE") \cup Places(info, "NOTICE")

WheelAllows(m, package, info) ==
    /\ ~ForbiddenWheel(m.parts) /\ ~PrivateMarker(m.parts)
    /\ IF m.kind = "dir" THEN ProperPrefix(m.parts, package \cup InfoFiles(info))
       ELSE IF Head(m.parts) = "jlegal_okf" THEN m.parts \in package
       ELSE Head(m.parts) = info /\ m.parts \in InfoFiles(info)

(* Mutant: the files of the package are not looked for.                    *)
WheelCompleteWithoutPackage(ms, package, info) ==
    LET files == {m.parts : m \in {n \in Range(ms) : n.kind # "dir"}}
    IN  /\ RequiredInfo(info) \subseteq files
        /\ \A name \in {"LICENSE", "NOTICE"} : Places(info, name) \cap files # {}

(* Mutant: a licence and a notice are needed in licenses/ only.            *)
WheelCompleteInLicenses(ms, package, info) ==
    LET files == {m.parts : m \in {n \in Range(ms) : n.kind # "dir"}}
    IN  /\ package \cup RequiredInfo(info) \subseteq files
        /\ \A name \in {"LICENSE", "NOTICE"} : <<info, "licenses", name>> \in files

WheelComplete(ms, package, info) ==
    LET files == {m.parts : m \in {n \in Range(ms) : n.kind # "dir"}}
    IN  /\ package \cup RequiredInfo(info) \subseteq files
        /\ \A name \in {"LICENSE", "NOTICE"} : Places(info, name) \cap files # {}

VerifyWheel(ms, package) ==
    /\ Readable(ms)
    /\ \E info \in DistInfos :
        /\ {Head(m.parts) : m \in Range(ms)} \cap InfoLike = {info}
        /\ \A m \in Range(ms) : WheelAllows(m, package, info)
        /\ WheelComplete(ms, package, info)

----------------------------------------------------------------------------
(* A build of the tracked files                                            *)
BuiltSdist(root) ==
    {Dir(<<root>>)} \cup {File(<<root>> \o p) :
        p \in ExpectedSdist(ListedFiles) \cup SdistMetadata}
BuiltWheel(info) ==
    {File(p) : p \in ExpectedPackage(ListedFiles) \cup RequiredInfo(info)
                 \cup {<<info, "licenses", "LICENSE">>, <<info, "licenses", "NOTICE">>}}

Init ==
    /\ index \in Tracked /\ extra \in ExtraFiles
    /\ \E root \in SdistRoots : sdist = SetToSeq(BuiltSdist(root))
    /\ \E info \in DistInfos : wheel = SetToSeq(BuiltWheel(info))
    /\ edits = 0 /\ verdict = "building"

Build ==
    /\ verdict = "building" /\ edits < MaxEdits /\ edits' = edits + 1
    /\ \/ \E m \in Members : sdist' = Append(sdist, m) /\ UNCHANGED wheel
       \/ \E i \in DOMAIN sdist : sdist' = RemoveAt(sdist, i) /\ UNCHANGED wheel
       \/ \E m \in Members : wheel' = Append(wheel, m) /\ UNCHANGED sdist
       \/ \E i \in DOMAIN wheel : wheel' = RemoveAt(wheel, i) /\ UNCHANGED sdist
    /\ UNCHANGED <<index, extra, verdict>>

(* main: git and each archive may fail to be read, which is an issue.      *)
Verify(readable) ==
    /\ verdict = "building"
    /\ verdict' = (IF /\ readable /\ ExtraUsable
                      /\ VerifySdist(sdist, ExpectedSdist(ListedFiles))
                      /\ VerifyWheel(wheel, ExpectedPackage(ListedFiles))
                   THEN "passed" ELSE "failed")
    /\ UNCHANGED <<index, extra, sdist, wheel, edits>>

Next == Build \/ \E readable \in BOOLEAN : Verify(readable)
Spec == Init /\ [][Next]_distVars

----------------------------------------------------------------------------
FilesOf(ms) == {m.parts : m \in {n \in Range(ms) : n.kind = "file"}}
DirsOf(ms)  == {m.parts : m \in {n \in Range(ms) : n.kind = "dir"}}
Under(root, files) == {<<root>> \o p : p \in files}

(* What an archive unpacks to: one member for each file of a tree, and else*)
(* one for some directories on the way to files that may be there.         *)
UnpacksTo(ms, files, possible) ==
    /\ FilesOf(ms) = files
    /\ \A d \in DirsOf(ms) : d # <<>> /\ \E p \in possible : IsStrictPrefix(d, p)
    /\ Len(ms) = Cardinality(FilesOf(ms) \cup DirsOf(ms))
    /\ \A m \in Range(ms) : m.plain /\ Range(m.parts) \cap {"..", ".", ""} = {}

SdistUnpacks ==
    \E root \in SdistRoots : \E generated \in SUBSET SdistMetadata :
        UnpacksTo(sdist, Under(root, ExpectedSdist(ListedFiles) \cup generated),
                         Under(root, ExpectedSdist(ListedFiles) \cup SdistMetadata))

(* A source archive that passes unpacks, inside one directory, to the      *)
(* public files and some generated metadata, each of them once: nothing    *)
(* beside it, nothing twice, no link (verify_sdist).                       *)
PassedSdistIsTheTree == verdict = "passed" => SdistUnpacks

(* The source archive and the wheel are never compared with each other:    *)
(* each has its own allowlist, its own rules on directories and metadata   *)
(* and its own list of what must be there.  A pair that passes installs    *)
(* the same modules all the same (main).                                   *)
PassedPairAgrees ==
    verdict = "passed" =>
        {p \in FilesOf(wheel) : Head(p) = "jlegal_okf"}
            = {SubSeq(p, 3, Len(p)) :
                 p \in {q \in FilesOf(sdist) : Len(q) > 3 /\ SubSeq(q, 2, 3) = Package}}

(* A pair of archives that holds what it should is not refused, wherever   *)
(* its directories and its licence are and in whatever order.              *)
WellBuilt ==
    /\ \A p \in FilesOf(sdist) \cup FilesOf(wheel) \cup DirsOf(sdist) \cup DirsOf(wheel) :
          ~PrivateMarker(p) /\ ~ExtraMatches(p)
    /\ SdistUnpacks
    /\ \E info \in DistInfos : \E generated \in SUBSET InfoFiles(info) :
          /\ RequiredInfo(info) \subseteq generated
          /\ \A name \in {"LICENSE", "NOTICE"} : Places(info, name) \cap generated # {}
          /\ UnpacksTo(wheel, ExpectedPackage(ListedFiles) \cup generated,
                              ExpectedPackage(ListedFiles) \cup InfoFiles(info))

WellBuiltIsVerified ==
    WellBuilt => /\ VerifySdist(sdist, ExpectedSdist(ListedFiles))
                 /\ VerifyWheel(wheel, ExpectedPackage(ListedFiles))
=============================================================================
