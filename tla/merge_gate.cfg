SPECIFICATION MCSpec
CONSTANTS
    Jobs = {"boundary", "dco", "tests", "package-distribution"}
    MaxRuns = 1
    Trees <- MCTrees
    BinaryNames = {"logo.png", "photo.png"}
    Markdown = {"guide.md", "zu.md", "notes.md", "draft.md", "CHANGELOG.md"}
    Data = {"law.xml"}
    Python = {"egov.py", "old.py", "test_a.py"}
    Marked = {"private"}
    Quoted <- MCQuoted
    SelfExempt = {}
    ReleaseExempt <- MCReleaseExempt
    FixedFiles <- MCFixedFiles
    SdistMetadata <- MCSdistMetadata
    RequiredMetadata = {"METADATA"}
    SdistRoots = {"jlegal_okf-1", "jlegal_okf-2"}
    InfoLike = {"jlegal_okf-1.dist-info", "jlegal_okf-2.dist-info", "other.dist-info"}
    DistInfos = {"jlegal_okf-1.dist-info", "jlegal_okf-2.dist-info"}
    ExtraMatched = {"guide.md"}
    ExtraFiles <- MCExtraFiles
    Members <- MCMembers
    MaxEdits = 2
    Addresses = {"ann", "Ann", "bob", "eve"}
    Lower <- MCLower
    Ranges <- MCRanges
INVARIANTS
    MergedWasChecked
    MergedIsClean
    PassedSdistIsTheTree
    PassedPairAgrees
    WellBuiltIsVerified
    MergedIsShipped
    MergedIsCertified
PROPERTIES
    GateAlwaysReports
\* a merged run has nothing left to do
CHECK_DEADLOCK FALSE
