---------------------------- MODULE Acquisition ----------------------------
(***************************************************************************)
(* The life of a saved e-Gov source: jlegal fetch stores the XML and a     *)
(* receipt, jlegal validate-source reports on them, jlegal compile binds   *)
(* the receipt into a manifest.  The commands are processes that share an  *)
(* XML path, a receipt path and a report path and run in any order, each   *)
(* interrupted at any point.                                               *)
(*                                                                         *)
(* Simplifications: an XML body is a value of Bodies and stands for its    *)
(* own SHA-256 and for the law identity read from it; a receipt is the     *)
(* digest it carries and the fetch whose URL and retrieval time it states; *)
(* each file is replaced in one step, which is what StagedPublish shows of *)
(* _atomic_bytes; the output of a compile is private to it and can be      *)
(* written.  Which bodies a stage of the code refuses is left open.        *)
(***************************************************************************)
CONSTANTS
    Fetchers, Validators, Compilers,  \* the commands
    Past,        \* the fetches that ended before the others started
    Forced,      \* the fetches run with --force
    WithReceipt, \* the commands run with --receipt-out / --acquisition
    Bodies,      \* the XML bodies e-Gov may return or a user may have saved
    Admissible,  \* the bodies that admit_egov_xml accepts
    Adaptable,   \* those of them that egov_xml_adapter makes nodes of
    Compilable,  \* those whose nodes validate_corpus accepts, too
    None,        \* no file, nothing read
    Faults       \* what may happen besides, of "network", "kill", "operator"

ASSUME AcquisitionAssumption ==
    /\ Past \subseteq Fetchers /\ Forced \subseteq Fetchers
    /\ Validators \cap Compilers = {}
    /\ Compilable \subseteq Adaptable /\ Adaptable \subseteq Admissible
    /\ Admissible \subseteq Bodies
    /\ None \notin Bodies
    /\ \A b \in Bodies, f \in Fetchers : None # [sha |-> b, by |-> f]
    /\ Faults \subseteq {"network", "kill", "operator"}

VARIABLES
    xml,      \* the snapshot file: a body or None
    receipt,  \* the receipt file or None
    report,   \* the admission report file or None
    fetch,    \* fetch[f]: what fetch f is about to do
    body,     \* body[f]: what fetch f downloaded
    check,    \* check[v]: what validate-source v is about to do
    held,     \* held[p]: the receipt that validator or compiler p has read
    admitted, \* admitted[v]: the body v admitted first
    verdict,  \* verdict[v]: the report v prints and writes
    comp,     \* comp[c]: what compile c is about to do
    source,   \* source[c]: the body c adapts
    corpus    \* corpus[c]: what the published manifest of c records, or None

files    == <<xml, receipt, report>>
fetching == <<fetch, body>>
checking == <<check, admitted, verdict>>
building == <<comp, source, corpus>>
vars     == <<files, fetching, checking, held, building>>

Receipts == [sha : Bodies, by : Fetchers]
ReceiptOf(f) == [sha |-> body[f], by |-> f]
Reports  == [accepted : BOOLEAN, receipt_verified : BOOLEAN,
             source_sha256 : Bodies \cup {None}, receipt : Receipts \cup {None}]
Records  == [sha : Bodies, acquisition : Receipts \cup {None}]

FetchLabels == {"start", "download", "save", "receipt", "save_receipt"}
CheckLabels == {"start", "admit", "compare", "report"}
CompLabels  == {"start", "adapt", "publish"}

TypeOK ==
    /\ xml \in Bodies \cup {None}
    /\ receipt \in Receipts \cup {None}
    /\ report \in Reports \cup {None}
    /\ fetch \in [Fetchers -> FetchLabels \cup {"done", "failed", "killed"}]
    /\ body \in [Fetchers -> Bodies \cup {None}]
    /\ check \in [Validators -> CheckLabels \cup {"accepted", "rejected", "refused"}]
    /\ held \in [Validators \cup Compilers -> Receipts \cup {None}]
    /\ admitted \in [Validators -> Bodies \cup {None}]
    /\ verdict \in [Validators -> Reports \cup {None}]
    /\ comp \in [Compilers -> CompLabels \cup {"ok", "failed"}]
    /\ source \in [Compilers -> Bodies \cup {None}]
    /\ corpus \in [Compilers -> Records \cup {None}]

(* Earlier fetches have left a receipt or not; the snapshot may also have  *)
(* been saved by other means.                                              *)
Init ==
    /\ fetch = [f \in Fetchers |-> IF f \in Past THEN "done" ELSE "start"]
    /\ body \in {b \in [Fetchers -> Bodies \cup {None}] :
                    \A f \in Fetchers : b[f] = None <=> f \notin Past}
    /\ xml \in Bodies \cup {None}
    /\ receipt \in {None} \cup {ReceiptOf(f) : f \in Past}
    /\ report = None
    /\ check = [v \in Validators |-> "start"]
    /\ held = [p \in Validators \cup Compilers |-> None]
    /\ admitted = [v \in Validators |-> None]
    /\ verdict = [v \in Validators |-> None]
    /\ comp = [c \in Compilers |-> "start"]
    /\ source = [c \in Compilers |-> None]
    /\ corpus = [c \in Compilers |-> None]

----------------------------------------------------------------------------
(* fetch_egov_xml and, with --receipt-out, write_acquisition_receipt       *)
FetchTo(f, label) == fetch' = [fetch EXCEPT ![f] = label]

(* Mutant: an existing snapshot does not stop the fetch.                   *)
CheckOutputIgnored(f) ==
    /\ fetch[f] = "start"
    /\ FetchTo(f, "download")
    /\ UNCHANGED <<files, body, checking, held, building>>

(* target.exists() and not force: EGOV_FETCH_OUTPUT_EXISTS_REFUSED         *)
CheckOutput(f) ==
    /\ fetch[f] = "start"
    /\ FetchTo(f, IF xml # None /\ f \notin Forced THEN "failed" ELSE "download")
    /\ UNCHANGED <<files, body, checking, held, building>>

DownloadThenReceipt(f) ==
    /\ fetch[f] = "download"
    /\ \E b \in Bodies : body' = [body EXCEPT ![f] = b]
    /\ FetchTo(f, "receipt")
    /\ UNCHANGED <<files, checking, held, building>>

(* The response arrives whole, within the cap, with status 2xx and one law *)
(* identity.  The service may have changed since any other download.       *)
Download(f) ==
    /\ fetch[f] = "download"
    /\ \E b \in Bodies : body' = [body EXCEPT ![f] = b]
    /\ FetchTo(f, "save")
    /\ UNCHANGED <<files, checking, held, building>>

(* EGOV_FETCH_TIMEOUT, _NETWORK, _HTTP_*, _TOO_LARGE or _XML               *)
DownloadFails(f) ==
    /\ "network" \in Faults
    /\ fetch[f] = "download"
    /\ FetchTo(f, "failed")
    /\ UNCHANGED <<files, body, checking, held, building>>

SaveXml(f) ==
    /\ fetch[f] = "save"
    /\ xml' = body[f]
    /\ FetchTo(f, IF f \in WithReceipt THEN "receipt" ELSE "done")
    /\ UNCHANGED <<receipt, report, body, checking, held, building>>

(* EGOV_FETCH_RECEIPT_EXISTS_REFUSED: --force does not extend to it.       *)
CheckReceipt(f) ==
    /\ fetch[f] = "receipt"
    /\ FetchTo(f, IF receipt # None THEN "failed" ELSE "save_receipt")
    /\ UNCHANGED <<files, body, checking, held, building>>

SaveReceipt(f) ==
    /\ fetch[f] = "save_receipt"
    /\ receipt' = ReceiptOf(f)
    /\ FetchTo(f, "done")
    /\ UNCHANGED <<xml, report, body, checking, held, building>>

(* The fetch dies: killed, or its disk is full.                           *)
KillFetch(f) ==
    /\ "kill" \in Faults
    /\ fetch[f] \in FetchLabels
    /\ FetchTo(f, "killed")
    /\ UNCHANGED <<files, body, checking, held, building>>

Fetch(f) == \/ CheckOutput(f) \/ Download(f) \/ DownloadFails(f)
            \/ SaveXml(f) \/ CheckReceipt(f) \/ SaveReceipt(f)
            \/ KillFetch(f)

----------------------------------------------------------------------------
(* cli._validate_source: the receipt is read first, the snapshot is read   *)
(* by admit_egov_xml and, to check the receipt, read again by the adapter. *)
CheckTo(v, label) == check' = [check EXCEPT ![v] = label]

(* The receipt is not a field of the report: it is kept beside it here so  *)
(* that properties can say what the report is about.                       *)
AdmissionReport(accepted, verified, sha, r) ==
    [accepted |-> accepted, receipt_verified |-> verified,
     source_sha256 |-> sha, receipt |-> r]

Conclude(v, rep) == /\ verdict' = [verdict EXCEPT ![v] = rep]
                    /\ CheckTo(v, "report")

(* ACQUISITION_FILE_REQUIRED is raised before any report is written.       *)
ReadReceipt(v) ==
    /\ check[v] = "start"
    /\ IF v \in WithReceipt
       THEN /\ held' = [held EXCEPT ![v] = receipt]
            /\ CheckTo(v, IF receipt = None THEN "rejected" ELSE "admit")
       ELSE /\ CheckTo(v, "admit")
            /\ UNCHANGED held
    /\ UNCHANGED <<files, fetching, admitted, verdict, building>>

Admit(v) ==
    /\ check[v] = "admit"
    /\ IF xml \notin Admissible
       THEN /\ Conclude(v, AdmissionReport(FALSE, FALSE, None, held[v]))
            /\ UNCHANGED admitted
       ELSE /\ admitted' = [admitted EXCEPT ![v] = xml]
            /\ IF v \in WithReceipt
               THEN CheckTo(v, "compare") /\ UNCHANGED verdict
               ELSE Conclude(v, AdmissionReport(TRUE, FALSE, xml, None))
    /\ UNCHANGED <<files, fetching, held, building>>

(* Mutant: a receipt is taken as it is.                                    *)
AgreesUnread(r, b) == r # None /\ b # None

(* _egov_acquisition: the digest of the receipt must be that of the input  *)
Agrees(r, b) == r.sha = b

(* egov_xml_adapter admits the file again and makes nodes of it; the       *)
(* report, accepted or not, carries the digest of the first reading.       *)
CompareReceipt(v) ==
    /\ check[v] = "compare"
    /\ LET good == xml \in Adaptable /\ Agrees(held[v], xml)
       IN  Conclude(v, AdmissionReport(good, good, admitted[v], held[v]))
    /\ UNCHANGED <<files, fetching, admitted, held, building>>

(* A constructor of the adapter raises ValueError, which _validate_source  *)
(* does not catch: no report is written.  Which bodies get this and which  *)
(* an AdapterError is left open.                                           *)
ConstructorRaises(v) ==
    /\ check[v] = "compare" /\ xml \in Admissible \ Adaptable
    /\ CheckTo(v, "rejected")
    /\ UNCHANGED <<files, fetching, admitted, verdict, held, building>>

(* Mutant: os.replace instead of os.link.                                  *)
ReplaceReport(v) ==
    /\ check[v] = "report"
    /\ report' = verdict[v]
    /\ CheckTo(v, IF verdict[v].accepted THEN "accepted" ELSE "rejected")
    /\ UNCHANGED <<xml, receipt, fetching, admitted, verdict, held, building>>

(* os.link refuses to replace an existing report.                          *)
LinkReport(v) ==
    /\ check[v] = "report"
    /\ IF report = None
       THEN /\ report' = verdict[v]
            /\ CheckTo(v, IF verdict[v].accepted THEN "accepted" ELSE "rejected")
       ELSE /\ CheckTo(v, "refused")
            /\ UNCHANGED report
    /\ UNCHANGED <<xml, receipt, fetching, admitted, verdict, held, building>>

Validate(v) == \/ ReadReceipt(v) \/ Admit(v) \/ CompareReceipt(v)
               \/ ConstructorRaises(v) \/ LinkReport(v)

----------------------------------------------------------------------------
(* cli._compile with the egov_xml adapter                                  *)
CompTo(c, label) == comp' = [comp EXCEPT ![c] = label]

(* Mutant: a compile without --acquisition asks for a receipt, too.        *)
CompileNeedsReceipt(c) ==
    /\ comp[c] = "start"
    /\ IF receipt # None
       THEN /\ held' = [held EXCEPT ![c] = receipt]
            /\ CompTo(c, "adapt")
       ELSE /\ CompTo(c, "failed")
            /\ UNCHANGED held
    /\ UNCHANGED <<files, fetching, checking, source, corpus>>

CompileReadReceipt(c) ==
    /\ comp[c] = "start"
    /\ IF c \in WithReceipt
       THEN /\ held' = [held EXCEPT ![c] = receipt]
            /\ CompTo(c, IF receipt = None THEN "failed" ELSE "adapt")
       ELSE /\ CompTo(c, "adapt")
            /\ UNCHANGED held
    /\ UNCHANGED <<files, fetching, checking, source, corpus>>

(* One reading gives the digest, the nodes and the acquisition base.       *)
Adapt(c) ==
    /\ comp[c] = "adapt"
    /\ IF xml \in Adaptable /\ (c \in WithReceipt => Agrees(held[c], xml))
       THEN /\ source' = [source EXCEPT ![c] = xml]
            /\ CompTo(c, "publish")
       ELSE /\ CompTo(c, "failed")
            /\ UNCHANGED source
    /\ UNCHANGED <<files, fetching, checking, held, corpus>>

(* validate_corpus may still refuse the nodes.  Without a receipt the      *)
(* acquisition states no URL and no retrieval time.                        *)
PublishCorpus(c) ==
    /\ comp[c] = "publish"
    /\ IF source[c] \in Compilable
       THEN /\ corpus' = [corpus EXCEPT ![c] =
                              [sha |-> source[c], acquisition |-> held[c]]]
            /\ CompTo(c, "ok")
       ELSE CompTo(c, "failed") /\ UNCHANGED corpus
    /\ UNCHANGED <<files, fetching, checking, held, source>>

Compile(c) == CompileReadReceipt(c) \/ Adapt(c) \/ PublishCorpus(c)

----------------------------------------------------------------------------
(* The operator deletes a snapshot or a receipt.                           *)
Delete == /\ "operator" \in Faults
          /\ \/ xml # None /\ xml' = None /\ UNCHANGED receipt
             \/ receipt # None /\ receipt' = None /\ UNCHANGED xml
          /\ UNCHANGED <<report, fetching, checking, held, building>>

Next == \/ \E f \in Fetchers : Fetch(f)
        \/ \E v \in Validators : Validate(v)
        \/ \E c \in Compilers : Compile(c)
        \/ Delete

Spec == Init /\ [][Next]_vars

----------------------------------------------------------------------------
(* A manifest states a source URL and a retrieval time only of a fetch     *)
(* that downloaded the very bytes the corpus was compiled from, whatever   *)
(* was fetched, forced, killed or deleted around the compile.              *)
CorpusProvenance ==
    \A c \in Compilers : corpus[c] # None /\ corpus[c].acquisition # None =>
        /\ corpus[c].acquisition.sha = corpus[c].sha
        /\ corpus[c].sha = body[corpus[c].acquisition.by]

(* An admission report, once there, is never replaced, by whatever         *)
(* validators race for its path.                                           *)
ReportNeverReplaced == [][report # None => report' = report]_vars

(* An accepted report that says its receipt is verified names the bytes of *)
(* that receipt ("source hash ... must agree").                            *)
VerifiedReportAgrees ==
    report # None /\ report.receipt_verified =>
        report.source_sha256 = report.receipt.sha

(* The receipt of a fetch stands beside the snapshot that it describes,    *)
(* also when the fetch dies between the two files.                         *)
ReceiptBesideSnapshot ==
    receipt # None /\ receipt.by \notin Past => xml = receipt.sha

(* A snapshot that adapter and validator take, with a receipt that agrees  *)
(* or none asked for                                                       *)
Ready(c) == /\ comp[c] = "start" /\ xml \in Compilable
            /\ c \in WithReceipt => receipt # None /\ Agrees(receipt, xml)
=============================================================================
