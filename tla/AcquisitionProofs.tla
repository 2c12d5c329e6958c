------------------------- MODULE AcquisitionProofs -------------------------
(***************************************************************************)
(* For any number of fetches, validations and compiles, any bodies and any *)
(* faults: the retrieval facts of a manifest belong to the compiled bytes, *)
(* and an admission report is never replaced.                              *)
(***************************************************************************)
EXTENDS QuietAcquisition, TLAPS

(* A receipt, on disk or in the memory of a command, states the digest of  *)
(* what its fetch downloaded; that fetch has ended and downloads no more.  *)
Honest(r) == r # None => r.sha = body[r.by] /\ fetch[r.by] = "done"

(* What compile c holds and has published.                                 *)
CompileInv(c) ==
    /\ Honest(held[c])
    /\ comp[c] = "publish" =>
          source[c] \in Bodies /\ (held[c] # None => held[c].sha = source[c])
    /\ comp[c] \in {"start"} \/ c \notin WithReceipt => held[c] = None
    /\ corpus[c] # None => corpus[c].sha \in Bodies /\ Honest(corpus[c].acquisition)
    /\ corpus[c] # None /\ corpus[c].acquisition # None
          => corpus[c].acquisition.sha = corpus[c].sha

FetchInv(f) == fetch[f] \in {"save", "receipt", "save_receipt"} => body[f] \in Bodies

CheckInv(v) == /\ check[v] = "report" => verdict[v] \in Reports
               /\ check[v] = "compare" => admitted[v] \in Bodies

IInv == /\ TypeOK
        /\ Honest(receipt)
        /\ \A f \in Fetchers : FetchInv(f)
        /\ \A v \in Validators : CheckInv(v)
        /\ \A c \in Compilers : CompileInv(c)

LEMMA InitInv == Init => IInv
<1> SUFFICES ASSUME Init PROVE IInv
  OBVIOUS
<1> USE AcquisitionAssumption
<1>1. TypeOK
  BY DEF Init, TypeOK, Receipts, ReceiptOf, FetchLabels, CheckLabels, CompLabels
<1>2. Honest(receipt)
  BY DEF Init, Honest, ReceiptOf
<1>3. ASSUME NEW f \in Fetchers PROVE FetchInv(f)
  BY DEF Init, FetchInv
<1>4. ASSUME NEW v \in Validators PROVE CheckInv(v)
  BY DEF Init, CheckInv
<1>5. ASSUME NEW c \in Compilers PROVE CompileInv(c)
  BY DEF Init, CompileInv, Honest
<1>6. QED
  BY <1>1, <1>2, <1>3, <1>4, <1>5 DEF IInv

(* Steps that change neither a finished fetch nor a body keep a receipt    *)
(* honest.                                                                 *)
LEMMA HonestKept ==
    ASSUME NEW r \in Receipts \cup {None}, Honest(r),
           \A f \in Fetchers : fetch[f] = "done" =>
               fetch'[f] = "done" /\ body'[f] = body[f]
    PROVE  r # None => r.sha = body'[r.by] /\ fetch'[r.by] = "done"
BY DEF Honest, Receipts

(* The variables of the compiles, as the proof groups them.                *)
LEMMA CompileKept ==
    ASSUME IInv, NEW c \in Compilers,
           held'[c] = held[c], UNCHANGED building,
           \A f \in Fetchers : fetch[f] = "done" =>
               fetch'[f] = "done" /\ body'[f] = body[f]
    PROVE  CompileInv(c)'
<1>1. held[c] \in Receipts \cup {None} /\ corpus[c] \in Records \cup {None}
  BY DEF IInv, TypeOK
<1>2. Honest(held[c])'
  BY <1>1, HonestKept DEF IInv, CompileInv, Honest
<1>3. corpus[c] # None => Honest(corpus[c].acquisition)'
  BY <1>1, HonestKept DEF IInv, CompileInv, Honest, Records, building
<1>4. QED
  BY <1>2, <1>3 DEF IInv, CompileInv, building

----------------------------------------------------------------------------
LEMMA FetchStep ==
    ASSUME IInv, NEW f \in Fetchers, Fetch(f)
    PROVE  IInv'
<1> USE AcquisitionAssumption
<1> USE DEF FetchTo, FetchLabels, files, checking, building
<1>1. TypeOK'
  <2>1. CASE CheckOutput(f) \/ DownloadFails(f) \/ CheckReceipt(f) \/ KillFetch(f)
    BY <2>1 DEF IInv, TypeOK, CheckOutput, DownloadFails, CheckReceipt, KillFetch
  <2>2. CASE Download(f)
    BY <2>2 DEF IInv, TypeOK, Download
  <2>3. CASE SaveXml(f)
    BY <2>3 DEF IInv, TypeOK, SaveXml, FetchInv
  <2>4. CASE SaveReceipt(f)
    <3>1. ReceiptOf(f) \in Receipts
      BY <2>4 DEF IInv, SaveReceipt, FetchInv, ReceiptOf, Receipts
    <3>2. QED
      BY <2>4, <3>1 DEF IInv, TypeOK, SaveReceipt
  <2>5. QED
    BY <2>1, <2>2, <2>3, <2>4 DEF Fetch
<1>2. \A g \in Fetchers : fetch[g] = "done" => fetch'[g] = "done" /\ body'[g] = body[g]
  BY DEF IInv, TypeOK, Fetch, CheckOutput, Download, DownloadFails, SaveXml,
         CheckReceipt, SaveReceipt, KillFetch
<1>3. Honest(receipt)'
  <2>1. CASE SaveReceipt(f)
    BY <2>1 DEF IInv, TypeOK, SaveReceipt, Honest, ReceiptOf
  <2>2. CASE ~SaveReceipt(f)
    <3>1. receipt' = receipt
      BY <2>2 DEF Fetch, CheckOutput, Download, DownloadFails, SaveXml,
           CheckReceipt, KillFetch
    <3>2. QED
      BY <1>2, <3>1, HonestKept DEF IInv, TypeOK, Honest
  <2>3. QED
    BY <2>1, <2>2
<1>4. ASSUME NEW g \in Fetchers PROVE FetchInv(g)'
  BY DEF IInv, TypeOK, FetchInv, Fetch, CheckOutput, Download, DownloadFails,
         SaveXml, CheckReceipt, SaveReceipt, KillFetch
<1>5. UNCHANGED <<checking, held, building>>
  BY DEF Fetch, CheckOutput, Download, DownloadFails, SaveXml, CheckReceipt,
         SaveReceipt, KillFetch
<1>6. ASSUME NEW v \in Validators PROVE CheckInv(v)'
  BY <1>5 DEF IInv, CheckInv, Reports
<1>7. ASSUME NEW c \in Compilers PROVE CompileInv(c)'
  BY <1>2, <1>5, CompileKept
<1>8. QED
  BY <1>1, <1>3, <1>4, <1>6, <1>7 DEF IInv

LEMMA ReportType ==
    ASSUME NEW accepted \in BOOLEAN, NEW verified \in BOOLEAN,
           NEW sha \in Bodies \cup {None}, NEW r \in Receipts \cup {None}
    PROVE  AdmissionReport(accepted, verified, sha, r) \in Reports
BY DEF AdmissionReport, Reports

LEMMA ValidateStep ==
    ASSUME IInv, NEW v \in Validators, Validate(v)
    PROVE  IInv'
<1> USE AcquisitionAssumption
<1> USE DEF CheckTo, Conclude, CheckLabels, files, fetching, building
<1>1. held[v] \in Receipts \cup {None} /\ admitted[v] \in Bodies \cup {None}
      /\ verdict[v] \in Reports \cup {None} /\ xml \in Bodies \cup {None}
      /\ receipt \in Receipts \cup {None}
  BY DEF IInv, TypeOK
<1>2. TypeOK' /\ CheckInv(v)'
  <2>1. CASE ReadReceipt(v)
    BY <1>1, <2>1 DEF IInv, TypeOK, ReadReceipt, CheckInv
  <2>2. CASE Admit(v)
    <3> DEFINE bad  == AdmissionReport(FALSE, FALSE, None, held[v])
               good == AdmissionReport(TRUE, FALSE, xml, None)
    <3>1. bad \in Reports /\ good \in Reports
      BY <1>1, ReportType
    <3>2. CASE xml \notin Admissible
      <4>1. verdict' = [verdict EXCEPT ![v] = bad]
        BY <2>2, <3>2, Zenon DEF Admit
      <4>2. QED
        BY <1>1, <2>2, <3>1, <3>2, <4>1 DEF IInv, TypeOK, Admit, CheckInv
    <3>3. CASE xml \in Admissible /\ v \in WithReceipt
      BY <1>1, <2>2, <3>3 DEF IInv, TypeOK, Admit, CheckInv
    <3>4. CASE xml \in Admissible /\ v \notin WithReceipt
      <4>1. verdict' = [verdict EXCEPT ![v] = good]
        BY <2>2, <3>4, Zenon DEF Admit
      <4>2. /\ admitted' = [admitted EXCEPT ![v] = xml]
            /\ check' = [check EXCEPT ![v] = "report"]
            /\ UNCHANGED <<files, fetching, held, building>>
        BY <2>2, <3>4, Zenon DEF Admit
      <4>3. QED
        BY <1>1, <3>1, <3>4, <4>1, <4>2 DEF IInv, TypeOK, CheckInv
    <3>5. QED
      BY <3>2, <3>3, <3>4
  <2>3. CASE CompareReceipt(v)
    <3> DEFINE good == xml \in Adaptable /\ Agrees(held[v], xml)
               rep  == AdmissionReport(good, good, admitted[v], held[v])
    <3>1. good \in BOOLEAN
      BY DEF Agrees
    <3>2. rep \in Reports
      BY <1>1, <3>1, ReportType
    <3>3. verdict' = [verdict EXCEPT ![v] = rep]
      BY <2>3, Zenon DEF CompareReceipt
    <3>4. QED
      BY <1>1, <2>3, <3>2, <3>3 DEF IInv, TypeOK, CompareReceipt, CheckInv
  <2>4. CASE LinkReport(v)
    BY <1>1, <2>4 DEF IInv, TypeOK, LinkReport, CheckInv
  <2>5. CASE ConstructorRaises(v)
    BY <1>1, <2>5 DEF IInv, TypeOK, ConstructorRaises, CheckInv
  <2>6. QED
    BY <2>1, <2>2, <2>3, <2>4, <2>5 DEF Validate
<1>3. UNCHANGED <<xml, receipt, fetching, building>>
  BY DEF Validate, ReadReceipt, Admit, CompareReceipt, ConstructorRaises, LinkReport
<1>4. ASSUME NEW c \in Compilers PROVE CompileInv(c)'
  <2>1. held'[c] = held[c]
    BY DEF Validate, ReadReceipt, Admit, CompareReceipt, ConstructorRaises, LinkReport,
           IInv, TypeOK
  <2>2. QED
    BY <1>3, <2>1, CompileKept
<1>5. ASSUME NEW w \in Validators, w # v PROVE CheckInv(w)'
  BY <1>5 DEF IInv, TypeOK, CheckInv, Validate, ReadReceipt, Admit, CompareReceipt,
              ConstructorRaises, LinkReport
<1>6. Honest(receipt)' /\ \A f \in Fetchers : FetchInv(f)'
  BY <1>3 DEF IInv, Honest, FetchInv
<1>7. QED
  BY <1>2, <1>4, <1>5, <1>6 DEF IInv

LEMMA CompileStep ==
    ASSUME IInv, NEW c \in Compilers, Compile(c)
    PROVE  IInv'
<1> USE AcquisitionAssumption
<1> USE DEF CompTo, CompLabels, files, fetching, checking
<1>1. held[c] \in Receipts \cup {None} /\ source[c] \in Bodies \cup {None}
      /\ xml \in Bodies \cup {None} /\ receipt \in Receipts \cup {None}
      /\ CompileInv(c)
  BY DEF IInv, TypeOK
<1>2. TypeOK' /\ CompileInv(c)'
  <2>1. CASE CompileReadReceipt(c)
    BY <1>1, <2>1 DEF IInv, TypeOK, CompileReadReceipt, CompileInv, Honest
  <2>2. CASE Adapt(c)
    BY <1>1, <2>2 DEF IInv, TypeOK, Adapt, CompileInv, Honest, Agrees
  <2>3. CASE PublishCorpus(c) /\ source[c] \notin Compilable
    BY <1>1, <2>3 DEF IInv, TypeOK, PublishCorpus, CompileInv, Honest
  <2>4. CASE PublishCorpus(c) /\ source[c] \in Compilable
    <3> DEFINE rec == [sha |-> source[c], acquisition |-> held[c]]
    <3>1. rec \in Records
      BY <1>1, <2>4 DEF PublishCorpus, CompileInv, Records
    <3>2. corpus'[c] = rec /\ held' = held /\ comp'[c] = "ok" /\ UNCHANGED fetching
      BY <2>4 DEF IInv, TypeOK, PublishCorpus
    <3>3. CompileInv(c)'
      BY <1>1, <2>4, <3>1, <3>2 DEF PublishCorpus, CompileInv, Honest
    <3>4. QED
      BY <2>4, <3>1, <3>3 DEF IInv, TypeOK, PublishCorpus
  <2>5. QED
    BY <2>1, <2>2, <2>3, <2>4 DEF Compile
<1>3. UNCHANGED <<files, fetching, checking>>
  BY DEF Compile, CompileReadReceipt, Adapt, PublishCorpus
<1>4. ASSUME NEW d \in Compilers, d # c PROVE CompileInv(d)'
  <2>1. /\ held'[d] = held[d] /\ comp'[d] = comp[d]
        /\ source'[d] = source[d] /\ corpus'[d] = corpus[d]
    BY <1>4 DEF Compile, CompileReadReceipt, Adapt, PublishCorpus, IInv, TypeOK
  <2>2. QED
    BY <1>3, <2>1 DEF IInv, CompileInv, Honest
<1>5. QED
  BY <1>2, <1>3, <1>4 DEF IInv, Honest, FetchInv, CheckInv, Reports

LEMMA OtherStep ==
    ASSUME IInv, Delete \/ UNCHANGED vars
    PROVE  IInv'
<1> USE DEF vars, files, fetching, checking, building
<1>1. TypeOK' /\ Honest(receipt)'
  BY DEF IInv, TypeOK, Delete, Honest
<1>2. UNCHANGED <<fetching, checking, held, building>>
  BY DEF Delete
<1>3. ASSUME NEW c \in Compilers PROVE CompileInv(c)'
  BY <1>2 DEF IInv, CompileInv, Honest
<1>4. QED
  BY <1>1, <1>2, <1>3 DEF IInv, FetchInv, CheckInv, Reports

(* The inductive invariant holds in every reachable state.                 *)
THEOREM Invariance == Spec => []IInv
<1>1. IInv /\ [Next]_vars => IInv'
  BY FetchStep, ValidateStep, CompileStep, OtherStep DEF Next
<1>2. QED
  BY InitInv, <1>1, PTL DEF Spec

(* Every variable keeps its type.                                          *)
THEOREM TypeCorrect == Spec => []TypeOK
<1>1. IInv => TypeOK
  BY DEF IInv
<1>2. QED
  BY <1>1, Invariance, PTL

(* The URL and retrieval time in a manifest are those of a fetch that      *)
(* downloaded exactly the compiled bytes.                                  *)
THEOREM ProvenanceHolds == Spec => []CorpusProvenance
<1>1. IInv => CorpusProvenance
  BY DEF IInv, TypeOK, CompileInv, CorpusProvenance, Honest, Records
<1>2. QED
  BY <1>1, Invariance, PTL

(* os.link: once a report exists, no validator replaces it.                *)
THEOREM ReportsArePermanent == Spec => ReportNeverReplaced
<1>1. [Next]_vars => [report # None => report' = report]_vars
  BY DEF Next, Fetch, CheckOutput, Download, DownloadFails, SaveXml, CheckReceipt,
         SaveReceipt, KillFetch, Validate, ReadReceipt, Admit, CompareReceipt,
         ConstructorRaises, LinkReport, Compile, CompileReadReceipt, Adapt,
         PublishCorpus, Delete, files
<1>2. QED
  BY <1>1, PTL DEF Spec, ReportNeverReplaced

----------------------------------------------------------------------------
(* The quiet course                                                        *)

(* The only fetch finds no snapshot, and leaves its own; what a validator  *)
(* has read is still there; a report repeats what its validator has seen.  *)
SingleFetch ==
    /\ Lone \in Fetchers \ (Forced \cup Past)
    /\ \A f \in Fetchers \ (Past \cup {Lone}) : fetch[f] = "start"
    /\ fetch[Lone] \in {"download", "save"} => xml = None
    /\ fetch[Lone] \in {"receipt", "save_receipt", "done"} => xml = body[Lone]

Agreeing(r) == r.receipt_verified => r.source_sha256 = r.receipt.sha

ReportsAgree ==
    /\ \A v \in Validators : /\ check[v] = "compare" => admitted[v] = xml
                             /\ check[v] = "report" => Agreeing(verdict[v])
    /\ report # None => Agreeing(report)

QuietInv == quiet => SingleFetch /\ ReportsAgree

CourseInv == IInv /\ QuietInv

(* A quiet course is a course of the commands.                             *)
LEMMA CourseSteps ==
    ASSUME QuietInv, [CourseNext]_courseVars
    PROVE  [Next]_vars /\ UNCHANGED quiet
BY DEF CourseNext, courseVars, QuietNext, Next, QuietInv, SingleFetch

LEMMA CourseInitInv == CourseInit => CourseInv
<1> SUFFICES ASSUME CourseInit PROVE CourseInv
  OBVIOUS
<1>1. IInv
  BY InitInv DEF CourseInit
<1>2. ASSUME quiet PROVE SingleFetch /\ ReportsAgree
  BY <1>2 DEF CourseInit, Init, SingleFetch, ReportsAgree
<1>3. QED
  BY <1>1, <1>2 DEF CourseInv, QuietInv

LEMMA LoneFetchStep ==
    ASSUME IInv, SingleFetch, ReportsAgree, Fetch(Lone)
    PROVE  SingleFetch' /\ ReportsAgree' /\ (xml # None => xml' = xml)
<1> USE AcquisitionAssumption DEF FetchTo, files, checking
<1>1. Lone \in Fetchers \ (Forced \cup Past) /\ Lone' = Lone
  BY DEF SingleFetch
<1>2. \A f \in Fetchers \ (Past \cup {Lone}) : fetch'[f] = "start"
  BY DEF SingleFetch, IInv, TypeOK, Fetch, CheckOutput, Download, DownloadFails,
         SaveXml, CheckReceipt, SaveReceipt, KillFetch
<1>3. /\ fetch'[Lone] \in {"download", "save"} => xml' = None
      /\ fetch'[Lone] \in {"receipt", "save_receipt", "done"} => xml' = body'[Lone]
      /\ xml # None => xml' = xml
  BY <1>1 DEF SingleFetch, IInv, TypeOK, Fetch, CheckOutput, Download, DownloadFails,
              SaveXml, CheckReceipt, SaveReceipt, KillFetch, FetchLabels
<1>4. UNCHANGED <<report, check, admitted, verdict>>
  BY DEF Fetch, CheckOutput, Download, DownloadFails, SaveXml, CheckReceipt,
         SaveReceipt, KillFetch
<1>5. ReportsAgree'
  <2>1. ASSUME NEW v \in Validators, check[v] = "compare" PROVE xml # None
    BY <2>1 DEF IInv, CheckInv, ReportsAgree
  <2>2. QED
    BY <1>3, <1>4, <2>1 DEF ReportsAgree, Agreeing
<1>6. QED
  BY <1>1, <1>2, <1>3, <1>5 DEF SingleFetch

LEMMA QuietValidateStep ==
    ASSUME IInv, SingleFetch, ReportsAgree, NEW v \in Validators, Validate(v)
    PROVE  ReportsAgree'
<1> USE DEF CheckTo, Conclude, AdmissionReport, files
<1>1. xml' = xml
  BY DEF Validate, ReadReceipt, Admit, CompareReceipt, ConstructorRaises, LinkReport
<1>2. ASSUME NEW w \in Validators, w # v
      PROVE  check'[w] = check[w] /\ admitted'[w] = admitted[w] /\ verdict'[w] = verdict[w]
  BY <1>2 DEF Validate, ReadReceipt, Admit, CompareReceipt, ConstructorRaises, LinkReport,
              IInv, TypeOK
<1>3. /\ check'[v] = "compare" => admitted'[v] = xml'
      /\ check'[v] = "report" => Agreeing(verdict'[v])
      /\ report' # None => Agreeing(report')
  <2>1. CASE ReadReceipt(v)
    BY <2>1 DEF ReadReceipt, IInv, TypeOK, ReportsAgree, Agreeing
  <2>2. CASE Admit(v)
    BY <2>2 DEF Admit, IInv, TypeOK, ReportsAgree, Agreeing
  <2>3. CASE CompareReceipt(v)
    BY <2>3 DEF CompareReceipt, Agrees, IInv, TypeOK, ReportsAgree, Agreeing
  <2>4. CASE LinkReport(v)
    BY <2>4 DEF LinkReport, IInv, TypeOK, ReportsAgree, Agreeing
  <2>5. CASE ConstructorRaises(v)
    BY <2>5 DEF ConstructorRaises, IInv, TypeOK, ReportsAgree, Agreeing
  <2>6. QED
    BY <2>1, <2>2, <2>3, <2>4, <2>5 DEF Validate
<1>4. QED
  BY <1>1, <1>2, <1>3 DEF ReportsAgree, Agreeing

(* What the steps of a quiet course do to the snapshot.                    *)
LEMMA CourseStep ==
    ASSUME CourseInv, [CourseNext]_courseVars
    PROVE  CourseInv' /\ (quiet /\ xml # None => xml' = xml)
<1>1. IInv' /\ quiet' = quiet
  BY CourseSteps, FetchStep, ValidateStep, CompileStep, OtherStep DEF CourseInv, Next
<1>2. ASSUME quiet
      PROVE  SingleFetch' /\ ReportsAgree' /\ (xml # None => xml' = xml)
  <2>1. IInv /\ SingleFetch /\ ReportsAgree
    BY <1>2 DEF CourseInv, QuietInv
  <2>2. CASE Fetch(Lone)
    BY <2>1, <2>2, LoneFetchStep
  <2>3. ASSUME NEW v \in Validators, Validate(v)
        PROVE  SingleFetch' /\ ReportsAgree' /\ xml' = xml
    <3>1. UNCHANGED <<xml, fetching>>
      BY <2>3 DEF Validate, ReadReceipt, Admit, CompareReceipt, ConstructorRaises,
                  LinkReport, files
    <3>2. QED
      BY <2>1, <2>3, <3>1, QuietValidateStep DEF SingleFetch, fetching
  <2>4. ASSUME NEW c \in Compilers, Compile(c)
        PROVE  SingleFetch' /\ ReportsAgree' /\ xml' = xml
    <3>1. UNCHANGED <<files, fetching, checking>>
      BY <2>4 DEF Compile, CompileReadReceipt, Adapt, PublishCorpus
    <3>2. QED
      BY <2>1, <3>1 DEF SingleFetch, ReportsAgree, Agreeing, files, fetching, checking
  <2>5. CASE UNCHANGED courseVars
    BY <2>1, <2>5
       DEF SingleFetch, ReportsAgree, Agreeing, courseVars, vars, files, fetching, checking
  <2>6. QED
    BY <1>2, <2>2, <2>3, <2>4, <2>5 DEF CourseNext, QuietNext
<1>3. QED
  BY <1>1, <1>2 DEF CourseInv, QuietInv

LEMMA CourseInvariance == CourseSpec => []CourseInv
<1>1. CourseInv /\ [CourseNext]_courseVars => CourseInv'
  BY CourseStep
<1>2. QED
  BY CourseInitInv, <1>1, PTL DEF CourseSpec

(* A report that says its receipt is verified names the bytes of that      *)
(* receipt, as long as one fetch without --force is at work and nobody     *)
(* deletes: the two readings of validate-source see the same snapshot.     *)
THEOREM QuietReportsAgree == CourseSpec => []QuietReportAgrees
<1>1. CourseInv => QuietReportAgrees
  BY DEF CourseInv, QuietInv, ReportsAgree, Agreeing, QuietReportAgrees, VerifiedReportAgrees
<1>2. QED
  BY <1>1, CourseInvariance, PTL

(* The receipt of the only fetch stands beside the snapshot it describes,  *)
(* wherever that fetch dies.                                               *)
THEOREM QuietReceiptsBesideSnapshots == CourseSpec => []QuietReceiptBesideSnapshot
<1>1. CourseInv => QuietReceiptBesideSnapshot
  <2> SUFFICES ASSUME CourseInv, quiet, receipt # None, receipt.by \notin Past
               PROVE  xml = receipt.sha
    BY DEF QuietReceiptBesideSnapshot, ReceiptBesideSnapshot
  <2>1. receipt.by \in Fetchers /\ receipt.sha = body[receipt.by] /\ fetch[receipt.by] = "done"
    BY DEF CourseInv, IInv, TypeOK, Receipts, Honest
  <2>2. receipt.by = Lone
    BY <2>1 DEF CourseInv, QuietInv, SingleFetch
  <2>3. QED
    BY <2>1, <2>2 DEF CourseInv, QuietInv, SingleFetch
<1>2. QED
  BY <1>1, CourseInvariance, PTL

(* Without --force no snapshot is replaced, however long ago the fetch     *)
(* looked for one.                                                         *)
THEOREM SnapshotsAreKept == CourseSpec => SnapshotKept
<1>1. CourseInv /\ [CourseNext]_courseVars
         => [quiet /\ xml # None => xml' = xml]_courseVars
  BY CourseStep
<1>2. QED
  BY <1>1, CourseInvariance, PTL DEF CourseSpec, SnapshotKept
=============================================================================
