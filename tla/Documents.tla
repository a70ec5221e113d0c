------------------------------ MODULE Documents ------------------------------
(****************************************************************************)
(* One document: DocumentService.upload, uploadNewVersion, remove,          *)
(* linkToCase and unlinkFromCase, with the files in StorageService; and its *)
(* signature request: SignatureService.createRequest, cancelRequest and     *)
(* handleWebhook, which adds the signed copy as a new version.              *)
(*                                                                          *)
(* No operation is a transaction.  A version is made in four steps: the     *)
(* document is read, the file stored, the version inserted under the number *)
(* after the one read, the document row updated.  The pair of document and  *)
(* number is unique.                                                        *)
(****************************************************************************)
EXTENDS Naturals, FiniteSets, Handlers

CONSTANTS
  Signers,     \* the addressees of the signature request
  MaxVersion,  \* bound: no version is numbered higher
  MaxFiles     \* bound: no more files are stored

Words == {"viewed", "completed", "declined", "voided"}
Final == Words \ {"viewed"}
SignatureStatus == {"PENDING", "SIGNED", "DECLINED", "EXPIRED"}

ASSUME DocumentBoundsOK ==
  /\ MaxVersion \in Nat \ {0} /\ MaxFiles \in Nat \ {0}
  /\ None \notin Nat \cup SignatureStatus

Later == 2..MaxVersion  \* upload inserts no row for version 1

VARIABLES
  doc,       \* the document row; version is 0 until it is inserted
  stored,    \* how many files are stored; keys are new every time
  version,   \* the file of each version's row, None if there is no row
  linked,    \* whether the document is linked to the case
  envelope,  \* whether the provider has the signature request
  said,      \* what the provider has reported of it
  signature, \* the status of each signer's row, None if there is no row
  word,      \* history: the status handleWebhook last wrote
  missed, \* history: rows that missed a signing, inserted or cancelled across it
  copies,    \* history: versions that are signed copies
  refused,   \* history: for each refused version, whether its handler was alone
  dropped    \* history: what died in the middle of a version

docHistory == <<word, missed, copies, refused, dropped>>
docVars == <<doc, stored, version, linked, envelope, said, signature, docHistory>>

Files == 1..MaxFiles
VersionJob == [op : {"version", "signed"}, pc : {"status", "put", "insert", "update"},
               number : 2..(MaxVersion + 1), file : Files \cup {None},
               status : SignatureStatus \cup {None}, alone : BOOLEAN]
UploadJob  == [op : {"upload"}, pc : {"row", "link"}, file : Files]
LinkJob    == [op : {"link", "unlink", "remove"}, pc : {"write"}]
AskJob     == [op : {"request"}, pc : {"ask", "rows"}, left : SUBSET Signers]
CancelJob  == [op : {"cancel"}, pc : {"write"}, signer : Signers, late : BOOLEAN]

(* A file is named by a row only after it was stored, and whoever is about  *)
(* to delete the link or cancel a request finds its row.                    *)
DocumentsTypeOK ==
  /\ doc \in [version : 0..MaxVersion, file : Files \cup {None}, deleted : BOOLEAN]
  /\ stored \in 0..MaxFiles
  /\ version \in [Later -> (1..stored) \cup {None}]
  /\ doc.version > 0 => doc.file \in 1..stored
  /\ linked \in BOOLEAN /\ envelope \in BOOLEAN
  /\ said \subseteq Words /\ Cardinality(said \cap Final) <= 1
  /\ signature \in [Signers -> SignatureStatus \cup {None}]
  /\ word \in SignatureStatus \cup {None}
  /\ missed \subseteq Signers
  /\ copies \subseteq Later /\ refused \subseteq BOOLEAN /\ dropped \subseteq {"copy", "update"}
  /\ req \in [Requests -> {IdleJob} \cup VersionJob \cup UploadJob \cup LinkJob
                            \cup AskJob \cup CancelJob]
  /\ \A r \in Requests :
       /\ req[r].pc \in {"insert", "update"} => req[r].file \in 1..stored
       /\ Doing(r, "unlink", "write") => linked
       /\ req[r].op = "cancel" => signature[req[r].signer] # None

DocumentsInit ==
  /\ doc = [version |-> 0, file |-> None, deleted |-> FALSE]
  /\ stored = 0
  /\ version = [v \in Later |-> None]
  /\ linked = FALSE /\ envelope = FALSE /\ said = {}
  /\ signature = [s \in Signers |-> None]
  /\ word = None /\ missed = {} /\ copies = {} /\ refused = {} /\ dropped = {}
  /\ req = [r \in Requests |-> IdleJob]

-----------------------------------------------------------------------------
(* upload: the file is stored before the row exists.  There is one document *)
(* here: whoever uploads first makes it.                                    *)
UploadPut(r) ==
  /\ doc.version = 0 /\ \A q \in Requests : req[q].op # "upload"
  /\ stored < MaxFiles /\ stored' = stored + 1
  /\ Start(r, [op |-> "upload", pc |-> "row", file |-> stored + 1])
  /\ UNCHANGED <<doc, version, linked, envelope, said, signature, docHistory>>

UploadRow(r) ==
  /\ Doing(r, "upload", "row")
  /\ doc' = [doc EXCEPT !.version = 1, !.file = req[r].file]
  /\ \/ Goto(r, "link")
     \/ Finish(r)
  /\ UNCHANGED <<stored, version, linked, envelope, said, signature, docHistory>>

Found == doc.version > 0 /\ ~doc.deleted

(* One action for upload's link and linkToCase's: the pair is unique.       *)
LinkRow(r) ==
  /\ Doing(r, "upload", "link") \/ Doing(r, "link", "write")
  /\ linked' = TRUE
  /\ Finish(r)
  /\ UNCHANGED <<doc, stored, version, envelope, said, signature, docHistory>>

LinkRead(r) ==
  /\ Found /\ ~linked
  /\ Start(r, [op |-> "link", pc |-> "write"])
  /\ UNCHANGED docVars

(* Mutant: the document is found, whatever it is linked to. *)
UnlinkReadAnything(r) ==
  /\ Found
  /\ Start(r, [op |-> "unlink", pc |-> "write"])
  /\ UNCHANGED docVars

UnlinkRead(r) ==
  /\ Found /\ linked
  /\ Start(r, [op |-> "unlink", pc |-> "write"])
  /\ UNCHANGED docVars

(* The row goes by its id: other requests that found it fail. *)
UnlinkRow(r) ==
  /\ Doing(r, "unlink", "write")
  /\ linked' = FALSE
  /\ req' = [q \in Requests |-> IF Doing(q, "unlink", "write") THEN IdleJob ELSE req[q]]
  /\ UNCHANGED <<doc, stored, version, envelope, said, signature, docHistory>>

RemoveDocument(r) ==
  /\ Found
  /\ Start(r, [op |-> "remove", pc |-> "write"])
  /\ UNCHANGED docVars

(* The versions and signatures stay, and what is in flight goes on. *)
RemoveDocumentWrite(r) ==
  /\ Doing(r, "remove", "write")
  /\ doc' = [doc EXCEPT !.deleted = TRUE]
  /\ Finish(r)
  /\ UNCHANGED <<stored, version, linked, envelope, said, signature, docHistory>>

-----------------------------------------------------------------------------
Makes(op, status) == op = "version" \/ (op = "signed" /\ status = "SIGNED")
Versioning(q) == req[q].op \in {"version", "signed"} /\ Makes(req[q].op, req[q].status)

(* What a handler that makes a version takes from the row it has read; it   *)
(* and those already at it are no longer alone.  A webhook makes a version  *)
(* if its status is SIGNED.                                                 *)
StartVersion(r, op, pc, status) ==
  LET others == IF Makes(op, status) THEN {q \in Requests : Versioning(q)} ELSE {}
  IN  /\ Idle(r) /\ doc.version < MaxVersion
      /\ req' = [q \in Requests |->
           IF q = r THEN [op |-> op, pc |-> pc, number |-> doc.version + 1, file |-> None,
                          status |-> status, alone |-> others = {}]
           ELSE IF q \in others THEN [req[q] EXCEPT !.alone = FALSE]
           ELSE req[q]]

NewVersionRead(r) ==
  /\ Found
  /\ StartVersion(r, "version", "put", None)
  /\ UNCHANGED docVars

(* The signed copy is downloaded first: that can only fail. *)
PutFile(r) ==
  /\ Versioning(r) /\ req[r].pc = "put"
  /\ stored < MaxFiles /\ stored' = stored + 1
  /\ req' = [req EXCEPT ![r].pc = "insert", ![r].file = stored + 1]
  /\ UNCHANGED <<doc, version, linked, envelope, said, signature, docHistory>>

Insert(r) ==
  /\ version' = [version EXCEPT ![req[r].number] = req[r].file]
  /\ copies' = IF req[r].op = "signed" THEN copies \cup {req[r].number} ELSE copies
  /\ Goto(r, "update")
  /\ UNCHANGED refused

(* Mutant: the pair of document and number is not unique. *)
InsertVersionAnyway(r) ==
  /\ Versioning(r) /\ req[r].pc = "insert"
  /\ Insert(r)
  /\ UNCHANGED <<doc, stored, linked, envelope, said, signature, word, missed, dropped>>

(* A number already taken fails uploadNewVersion; handleWebhook logs it and *)
(* goes on without a signed copy.                                           *)
InsertVersion(r) ==
  /\ Versioning(r) /\ req[r].pc = "insert"
  /\ \/ version[req[r].number] = None /\ Insert(r)
     \/ /\ version[req[r].number] # None
        /\ refused' = refused \cup {req[r].alone}
        /\ Finish(r)
        /\ UNCHANGED <<version, copies>>
  /\ UNCHANGED <<doc, stored, linked, envelope, said, signature, word, missed, dropped>>

UpdateDocument(r) ==
  /\ Versioning(r) /\ req[r].pc = "update"
  /\ doc' = [doc EXCEPT !.version = req[r].number, !.file = req[r].file]
  /\ Finish(r)
  /\ UNCHANGED <<stored, version, linked, envelope, said, signature, docHistory>>

-----------------------------------------------------------------------------
(* createRequest: an envelope at the provider, then a row for each signer.  *)
(* One envelope is a bound.                                                 *)
RequestRead(r) ==
  /\ Found /\ ~envelope /\ \A q \in Requests : req[q].op # "request"
  /\ Start(r, [op |-> "request", pc |-> "ask", left |-> Signers])
  /\ UNCHANGED docVars

Ask(r) ==
  /\ Doing(r, "request", "ask")
  /\ envelope' = TRUE
  /\ Goto(r, "rows")
  /\ UNCHANGED <<doc, stored, version, linked, said, signature, docHistory>>

(* The rows are inserted in parallel. *)
InsertSignature(r, s) ==
  /\ Doing(r, "request", "rows") /\ s \in req[r].left
  /\ signature' = [signature EXCEPT ![s] = "PENDING"]
  /\ missed' = IF word = "SIGNED" THEN missed \cup {s} ELSE missed
  /\ IF req[r].left = {s} THEN Finish(r)
     ELSE req' = [req EXCEPT ![r].left = @ \ {s}]
  /\ UNCHANGED <<doc, stored, version, linked, envelope, said, word, copies, refused, dropped>>

(* Mutant: a request is cancelled whatever its status. *)
CancelReadAny(r, s) ==
  /\ signature[s] # None
  /\ Start(r, [op |-> "cancel", pc |-> "write", signer |-> s, late |-> FALSE])
  /\ UNCHANGED docVars

(* cancelRequest: only a PENDING request; the provider is not told. *)
CancelRead(r, s) ==
  /\ signature[s] = "PENDING"
  /\ Start(r, [op |-> "cancel", pc |-> "write", signer |-> s, late |-> FALSE])
  /\ UNCHANGED docVars

CancelWrite(r) ==
  /\ Doing(r, "cancel", "write")
  /\ signature' = [signature EXCEPT ![req[r].signer] = "EXPIRED"]
  /\ missed' = IF req[r].late THEN missed \cup {req[r].signer} ELSE missed
  /\ Finish(r)
  /\ UNCHANGED <<doc, stored, version, linked, envelope, said, word, copies, refused, dropped>>

(* The provider reports views and one end. *)
Report(w) ==
  /\ envelope /\ w \notin said /\ said \cap Final = {}
  /\ said' = said \cup {w}
  /\ UNCHANGED <<doc, stored, version, linked, envelope, signature, req, docHistory>>

StatusOf(w) == [viewed |-> "PENDING", completed |-> "SIGNED",
                declined |-> "DECLINED", voided |-> "EXPIRED"][w]

(* handleWebhook: a report arrives, perhaps late, again or out of order. It *)
(* is dropped when no row has been inserted yet.                            *)
WebhookRead(r, w) ==
  /\ w \in said /\ \E s \in Signers : signature[s] # None
  /\ StartVersion(r, "signed", "status", StatusOf(w))
  /\ UNCHANGED docVars

(* One updateMany; whoever is about to cancel has read an older status. *)
WriteStatus(r) ==
  LET new == req[r].status
  IN  /\ Doing(r, "signed", "status")
      /\ signature' = [s \in Signers |-> IF signature[s] = None THEN None ELSE new]
      /\ word' = new /\ missed' = {}
      /\ req' = [q \in Requests |->
           IF q = r THEN IF new = "SIGNED" THEN [req[r] EXCEPT !.pc = "put"] ELSE IdleJob
           ELSE IF req[q].op = "cancel" THEN [req[q] EXCEPT !.late = (new = "SIGNED")]
           ELSE req[q]]
      /\ UNCHANGED <<doc, stored, version, linked, envelope, said, copies, refused, dropped>>

(* A handler dies, or a step of making a version fails: then handleWebhook  *)
(* logs the error and changes nothing more.                                 *)
DocumentFail(r) ==
  /\ ~Idle(r)
  /\ dropped' = dropped
       \cup (IF req[r].op = "signed" /\ req[r].pc # "status" THEN {"copy"} ELSE {})
       \cup (IF Versioning(r) /\ req[r].pc = "update" THEN {"update"} ELSE {})
  /\ Finish(r)
  /\ UNCHANGED <<doc, stored, version, linked, envelope, said, signature, word, missed,
                 copies, refused>>

DocumentStep(r) ==
  \/ UploadPut(r) \/ UploadRow(r) \/ NewVersionRead(r) \/ PutFile(r) \/ InsertVersion(r)
  \/ UpdateDocument(r) \/ LinkRead(r) \/ LinkRow(r) \/ UnlinkRead(r) \/ UnlinkRow(r)
  \/ RemoveDocument(r) \/ RemoveDocumentWrite(r)

SignatureStep(r) ==
  \/ RequestRead(r) \/ Ask(r) \/ CancelWrite(r) \/ WriteStatus(r)
  \/ \E s \in Signers : InsertSignature(r, s) \/ CancelRead(r, s)
  \/ \E w \in Words : WebhookRead(r, w)

DocumentsNext ==
  \/ \E r \in Requests : DocumentStep(r) \/ SignatureStep(r) \/ DocumentFail(r)
  \/ \E w \in Words : Report(w)

DocumentsSpec == DocumentsInit /\ [][DocumentsNext]_<<req, docVars>>

-----------------------------------------------------------------------------
Updating(v) == {r \in Requests : Versioning(r) /\ req[r].pc = "update" /\ req[r].number = v}

(* The versions of a document are 2, 3, ... up to its current one, whose    *)
(* file the row names, plus at most the next one: while the handler that    *)
(* inserted it is on its way to the row, or for good if it died there.  The *)
(* unique pair is all that keeps two uploads apart: a version is refused    *)
(* only if another was in the making beside it, or after such a death, from *)
(* when on every upload is.                                                 *)
VersionsSound ==
  /\ \A v \in Later :
       /\ v <= doc.version => version[v] # None
       /\ v > doc.version + 1 => version[v] = None
       /\ v = doc.version + 1 /\ version[v] # None =>
            Cardinality(Updating(v)) = 1 \/ "update" \in dropped
       /\ \A u \in Later : u # v /\ version[u] = version[v] => version[v] = None
  /\ doc.version \in Later => doc.file = version[doc.version]
  /\ TRUE \in refused => "update" \in dropped

(* A signed request has its signed copy among the versions once the webhook *)
(* is done with, unless the copy was refused or failed, which handleWebhook *)
(* does not report to the provider.                                         *)
SignedHasCopy ==
  (\E s \in Signers : signature[s] = "SIGNED") =>
    \/ copies # {} \/ refused # {} \/ dropped # {}
    \/ \E r \in Requests : req[r].op = "signed"

(* After the provider's word that all have signed, a row says otherwise     *)
(* only if it was inserted after that word was processed, or cancelled by a *)
(* request that had read it before: "Only PENDING signatures can be         *)
(* cancelled".                                                              *)
SignedUnlessMissed ==
  word = "SIGNED" =>
    \A s \in Signers : signature[s] \in {"SIGNED", None} \/ s \in missed

(* The signature rows, the provider's word and the versions agree.          *)
SignaturesSound == SignedHasCopy /\ SignedUnlessMissed
=============================================================================
