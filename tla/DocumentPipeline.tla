--------------------------- MODULE DocumentPipeline ---------------------------
(***************************************************************************)
(* Uploaded files and the knowledge extracted from them: the handlers of   *)
(* src/src/files/files.service.ts and the in-process worker of             *)
(* src/src/files/document-intelligence.service.ts, which share three       *)
(* tables (files, knowledge_documents, knowledge_chunks) and the blob      *)
(* directory.  A step is one statement with the code around it.            *)
(*                                                                         *)
(* A queued setImmediate or a 100 ms retry timer for a file is a ticket;   *)
(* process() finding the worker busy turns a ticket into the same ticket.  *)
(* The chunks of a file are written by one INSERT: they are all there or   *)
(* none is.                                                                *)
(***************************************************************************)
EXTENDS Integers, FiniteSets

CONSTANTS
  Files,        \* file ids
  Clients,      \* API requests in flight together
  RecoverLimit, \* files onModuleInit enqueues (100 in the code)
  MaxRequests,  \* bound on API requests
  MaxCrashes,   \* bound on process crashes and shutdowns
  MaxFaults     \* bound on failing statements

ASSUME DocumentAssumption ==
  /\ RecoverLimit \in Nat \ {0}
  /\ MaxRequests \in Nat /\ MaxCrashes \in Nat /\ MaxFaults \in Nat

NoFile == "no file"
ASSUME NoFileAssumption == NoFile \notin Files

VARIABLES
  row,      \* table files: "absent", "live" or (soft) "deleted"
  status,   \* .. processingStatus
  doc,      \* table knowledge_documents: the processingStatus of the file's row
  chunks,   \* files that have rows in knowledge_chunks
  blobs,    \* files whose content is stored
  mode,     \* "up", "stopping" after onModuleDestroy, "down"
  tickets,  \* pending calls of process(), per file
  pc,       \* where process() is; "idle" when the flag processing is false
  job,      \* its file, and the processingStatus its instance was saved with
  client,   \* suspended handlers
  requests, crashes, faults,
  removed,  \* history: files somebody began to remove
  overlap   \* history: .. and that were processed meanwhile

tables   == <<row, status, doc, chunks, blobs>>
worker   == <<pc, job>>
counters == <<requests, crashes, faults>>
history  == <<removed, overlap>>
vars == <<row, status, doc, chunks, blobs, mode, tickets, pc, job, client,
          requests, crashes, faults, removed, overlap>>

Statuses == {"pending", "processing", "ready", "failed"}
Idle  == [op |-> "idle", file |-> NoFile, seen |-> "pending"]
NoJob == [file |-> NoFile, seen |-> "pending"]

Removing(f) == \E c \in Clients : client[c].file = f /\
                 client[c].op \in {"removeDocs", "removeBlob", "removeRow"}
OnFile(f) == pc # "idle" /\ job.file = f

(* processing_status is written only if it differs from the instance's. *)
SavedStatus(f, seen, new) == IF seen = new THEN status[f] ELSE new

(* Mutant: the call is dropped when the worker is busy. *)
Enqueued_Lost(f) ==
  IF mode = "up" /\ pc = "idle" THEN [tickets EXCEPT ![f] = @ + 1] ELSE tickets

(* enqueue() is without effect once the module is shutting down. *)
Enqueued(f) == IF mode = "up" THEN [tickets EXCEPT ![f] = @ + 1] ELSE tickets

Init ==
  /\ row = [f \in Files |-> "absent"] /\ status = [f \in Files |-> "pending"]
  /\ doc = [f \in Files |-> "none"] /\ chunks = {} /\ blobs = {}
  /\ mode = "down" /\ tickets = [f \in Files |-> 0]
  /\ pc = "idle" /\ job = NoJob
  /\ client = [c \in Clients |-> Idle]
  /\ requests = 0 /\ crashes = 0 /\ faults = 0 /\ removed = {} /\ overlap = {}

-----------------------------------------------------------------------------
(* process() *)

(* The flag is free: findByPk; a missing or ready file ends the call. *)
Start(f) ==
  /\ mode # "down" /\ pc = "idle" /\ tickets[f] > 0
  /\ tickets' = [tickets EXCEPT ![f] = @ - 1]
  /\ IF row[f] = "live" /\ status[f] # "ready"
     THEN /\ pc' = "mark" /\ job' = [file |-> f, seen |-> status[f]]
          /\ overlap' = IF Removing(f) THEN overlap \cup {f} ELSE overlap
     ELSE UNCHANGED <<worker, overlap>>
  /\ UNCHANGED <<tables, mode, client, counters, removed>>

Others == <<mode, tickets, client, counters, history>>

MarkProcessing ==
  /\ pc = "mark"
  /\ status' = [status EXCEPT ![job.file] = SavedStatus(job.file, job.seen, "processing")]
  /\ job' = [job EXCEPT !.seen = "processing"]
  /\ pc' = "read"
  /\ UNCHANGED <<row, doc, chunks, blobs, Others>>

(* readFile: the content may have been unlinked. *)
ReadBlob ==
  /\ pc = "read"
  /\ pc' = IF job.file \in blobs THEN "find" ELSE "fileFailed"
  /\ UNCHANGED <<tables, job, Others>>

FindOrCreateDocument ==
  /\ pc = "find"
  /\ doc' = [doc EXCEPT ![job.file] = IF @ = "none" THEN "processing" ELSE @]
  /\ pc' = "markDoc"
  /\ UNCHANGED <<row, status, chunks, blobs, job, Others>>

(* An instance whose row is gone updates nothing and does not notice. *)
SetDocument(s) == doc' = [doc EXCEPT ![job.file] = IF @ = "none" THEN @ ELSE s]

MarkDocument ==
  /\ pc = "markDoc"
  /\ SetDocument("processing") /\ pc' = "extract"
  /\ UNCHANGED <<row, status, chunks, blobs, job, Others>>

(* extract() and chunk(): some text, or an error. *)
Extract ==
  /\ pc = "extract"
  /\ pc' \in {"clear", "fileFailed"}
  /\ UNCHANGED <<tables, job, Others>>

ClearChunks ==
  /\ pc = "clear"
  /\ chunks' = chunks \ {job.file} /\ pc' = "insert"
  /\ UNCHANGED <<row, status, doc, blobs, job, Others>>

(* bulkCreate fails on the foreign key when the document is gone. *)
InsertChunks ==
  /\ pc = "insert"
  /\ IF doc[job.file] = "none"
     THEN pc' = "fileFailed" /\ UNCHANGED chunks
     ELSE pc' = "docReady" /\ chunks' = chunks \cup {job.file}
  /\ UNCHANGED <<row, status, doc, blobs, job, Others>>

(* Mutant: the file is declared ready before its document. *)
DocumentReady_FileFirst ==
  /\ pc = "docReady"
  /\ status' = [status EXCEPT ![job.file] = "ready"] /\ pc' = "fileReady"
  /\ UNCHANGED <<row, doc, chunks, blobs, job, Others>>

DocumentReady ==
  /\ pc = "docReady"
  /\ SetDocument("ready") /\ pc' = "fileReady"
  /\ UNCHANGED <<row, status, chunks, blobs, job, Others>>

FileReady ==
  /\ pc = "fileReady"
  /\ status' = [status EXCEPT ![job.file] = "ready"]
  /\ pc' = "idle" /\ job' = NoJob
  /\ UNCHANGED <<row, doc, chunks, blobs, Others>>

(* The catch block. *)
FileFailed ==
  /\ pc = "fileFailed"
  /\ status' = [status EXCEPT ![job.file] = SavedStatus(job.file, job.seen, "failed")]
  /\ pc' = "docFailed"
  /\ UNCHANGED <<row, doc, chunks, blobs, job, Others>>

(* Mutant: the finally block forgets the flag. *)
DocumentFailed_Stuck ==
  /\ pc = "docFailed"
  /\ SetDocument("failed")
  /\ job' = NoJob
  /\ UNCHANGED <<row, status, chunks, blobs, pc, Others>>

DocumentFailed ==
  /\ pc = "docFailed"
  /\ SetDocument("failed")
  /\ pc' = "idle" /\ job' = NoJob
  /\ UNCHANGED <<row, status, chunks, blobs, Others>>

Process == MarkProcessing \/ ReadBlob \/ FindOrCreateDocument \/ MarkDocument
           \/ Extract \/ ClearChunks \/ InsertChunks \/ DocumentReady
           \/ FileReady \/ FileFailed \/ DocumentFailed

-----------------------------------------------------------------------------
(* API handlers *)

Begin(c, op, f, seen) ==
  /\ mode # "down" /\ client[c].op = "idle"
  /\ requests < MaxRequests /\ requests' = requests + 1
  /\ client' = [client EXCEPT ![c] = [op |-> op, file |-> f, seen |-> seen]]
  /\ UNCHANGED <<worker, mode, tickets, crashes, faults>>

(* upload(): the content is stored first .. *)
StartUpload(c, f) ==
  /\ row[f] = "absent" /\ \A d \in Clients : client[d].file # f
  /\ Begin(c, "upload", f, "pending")
  /\ blobs' = blobs \cup {f}
  /\ UNCHANGED <<row, status, doc, chunks, history>>

(* .. then the row, and process() is enqueued; when the insert fails the    *)
(* content is unlinked.                                                     *)
FinishUpload(c) ==
  LET f == client[c].file IN
  /\ client[c].op = "upload"
  /\ client' = [client EXCEPT ![c] = Idle]
  /\ \/ /\ row' = [row EXCEPT ![f] = "live"]
        /\ status' = [status EXCEPT ![f] = "pending"]
        /\ tickets' = Enqueued(f)
        /\ UNCHANGED <<blobs, faults>>
     \/ /\ faults < MaxFaults /\ faults' = faults + 1
        /\ blobs' = blobs \ {f}
        /\ UNCHANGED <<row, status, tickets>>
  /\ UNCHANGED <<doc, chunks, worker, mode, requests, crashes, history>>

StartReprocess(c, f) ==
  /\ row[f] = "live"
  /\ Begin(c, "reprocess", f, status[f])
  /\ UNCHANGED <<tables, history>>

FinishReprocess(c) ==
  LET f == client[c].file IN
  /\ client[c].op = "reprocess"
  /\ client' = [client EXCEPT ![c] = Idle]
  /\ status' = [status EXCEPT ![f] = SavedStatus(f, client[c].seen, "pending")]
  /\ tickets' = Enqueued(f)
  /\ UNCHANGED <<row, doc, chunks, blobs, worker, mode, counters, history>>

Touch(f) == overlap' = IF OnFile(f) THEN overlap \cup {f} ELSE overlap
Continue(c, op) == client' = [client EXCEPT ![c].op = op]

(* remove(): the chunks of the file it has read .. *)
RemoveChunks(c, f) ==
  /\ row[f] = "live"
  /\ Begin(c, "removeDocs", f, "pending")
  /\ chunks' = chunks \ {f} /\ removed' = removed \cup {f} /\ Touch(f)
  /\ UNCHANGED <<row, status, doc, blobs>>

(* Mutant: without force the document is only marked as deleted. *)
RemoveDocument_Soft(c) ==
  /\ client[c].op = "removeDocs"
  /\ Continue(c, "removeBlob") /\ Touch(client[c].file)
  /\ UNCHANGED <<row, status, doc, chunks, blobs, worker, mode, tickets, counters, removed>>

(* .. its document, whose remaining chunks go by ON DELETE CASCADE .. *)
RemoveDocument(c) ==
  LET f == client[c].file IN
  /\ client[c].op = "removeDocs"
  /\ doc' = [doc EXCEPT ![f] = "none"] /\ chunks' = chunks \ {f}
  /\ Continue(c, "removeBlob") /\ Touch(f)
  /\ UNCHANGED <<row, status, blobs, worker, mode, tickets, counters, removed>>

RemoveBlob(c) ==
  /\ client[c].op = "removeBlob"
  /\ blobs' = blobs \ {client[c].file}
  /\ Continue(c, "removeRow") /\ Touch(client[c].file)
  /\ UNCHANGED <<row, status, doc, chunks, worker, mode, tickets, counters, removed>>

(* .. and the row, softly. *)
RemoveRow(c) ==
  LET f == client[c].file IN
  /\ client[c].op = "removeRow"
  /\ row' = [row EXCEPT ![f] = "deleted"]
  /\ client' = [client EXCEPT ![c] = Idle] /\ Touch(f)
  /\ UNCHANGED <<status, doc, chunks, blobs, worker, mode, tickets, counters, removed>>

Api == \E c \in Clients :
         \/ FinishUpload(c) \/ FinishReprocess(c)
         \/ RemoveDocument(c) \/ RemoveBlob(c) \/ RemoveRow(c)
         \/ \E f \in Files : StartUpload(c, f) \/ StartReprocess(c, f) \/ RemoveChunks(c, f)

-----------------------------------------------------------------------------
(* Environment *)

Gone == /\ mode' = "down" /\ tickets' = [f \in Files |-> 0]
        /\ pc' = "idle" /\ job' = NoJob
        /\ client' = [c \in Clients |-> Idle]

(* A statement of the worker fails.  The catch block deals with it, except  *)
(* that findByPk leaves it no file to mark and that its own statements      *)
(* reject a promise nobody handles, which ends the process.                 *)
DatabaseFault ==
  /\ faults < MaxFaults /\ faults' = faults + 1
  /\ \/ /\ pc \in {"mark", "find", "markDoc", "clear", "insert", "docReady", "fileReady"}
        /\ pc' = "fileFailed"
        /\ UNCHANGED <<mode, tickets, job, client>>
     \/ /\ mode # "down" /\ pc = "idle"
        /\ \E f \in Files : tickets[f] > 0 /\ tickets' = [tickets EXCEPT ![f] = @ - 1]
        /\ UNCHANGED <<mode, worker, client>>
     \/ pc \in {"fileFailed", "docFailed"} /\ Gone
  /\ UNCHANGED <<tables, requests, crashes, history>>

(* A failing handler leaves what it has done so far. *)
HandlerFault(c) ==
  /\ client[c].op \notin {"idle", "upload"}
  /\ faults < MaxFaults /\ faults' = faults + 1
  /\ client' = [client EXCEPT ![c] = Idle]
  /\ UNCHANGED <<tables, mode, tickets, worker, requests, crashes, history>>

Crash ==
  /\ mode # "down" /\ crashes < MaxCrashes /\ crashes' = crashes + 1
  /\ Gone
  /\ UNCHANGED <<tables, requests, faults, history>>

(* onModuleDestroy(): tickets are dropped, the active call is awaited. *)
Shutdown ==
  /\ mode = "up" /\ crashes < MaxCrashes /\ crashes' = crashes + 1
  /\ mode' = "stopping" /\ tickets' = [f \in Files |-> 0]
  /\ UNCHANGED <<tables, worker, client, requests, faults, history>>

(* Mutant: the shutdown waits for the handlers, too. *)
Exit_Waits ==
  /\ mode = "stopping" /\ pc = "idle" /\ \A c \in Clients : client[c].op = "idle"
  /\ Gone
  /\ UNCHANGED <<tables, counters, history>>

Exit ==
  /\ mode = "stopping" /\ pc = "idle"
  /\ Gone
  /\ UNCHANGED <<tables, counters, history>>

Unfinished(f) == row[f] = "live" /\ status[f] \in {"pending", "processing"}

(* onModuleInit(): up to RecoverLimit unfinished files are enqueued. *)
Recover ==
  /\ mode = "down" /\ mode' = "up"
  /\ \E found \in SUBSET { f \in Files : Unfinished(f) } :
       /\ Cardinality(found) <= RecoverLimit
       /\ \/ Cardinality(found) = RecoverLimit
          \/ found = { f \in Files : Unfinished(f) }
       /\ tickets' = [f \in Files |-> IF f \in found THEN 1 ELSE 0]
  /\ UNCHANGED <<tables, worker, client, counters, history>>

Environment == \/ DatabaseFault \/ Crash \/ Shutdown \/ Exit \/ Recover
               \/ \E c \in Clients : HandlerFault(c)

Next == Process \/ (\E f \in Files : Start(f)) \/ Api \/ Environment

Spec == Init /\ [][Next]_vars

(* Timers fire, awaited statements return, and a process that ended is      *)
(* started again.  Nothing makes a client send or finish a request.         *)
Fairness == /\ WF_vars(Process) /\ \A f \in Files : WF_vars(Start(f))
            /\ WF_vars(Exit) /\ WF_vars(Recover)

FairSpec == Spec /\ Fairness

-----------------------------------------------------------------------------
(* Properties *)

Places == {"idle", "mark", "read", "find", "markDoc", "extract", "clear", "insert",
           "docReady", "fileReady", "fileFailed", "docFailed"}
Ops == {"idle", "upload", "reprocess", "removeDocs", "removeBlob", "removeRow"}

(* Every variable has its type; a call under way has its file. *)
TypeOK ==
  /\ row \in [Files -> {"absent", "live", "deleted"}]
  /\ status \in [Files -> Statuses]
  /\ doc \in [Files -> {"none", "processing", "ready", "failed"}]
  /\ chunks \subseteq Files /\ blobs \subseteq Files
  /\ mode \in {"up", "stopping", "down"} /\ tickets \in [Files -> Nat]
  /\ pc \in Places /\ job \in [file : Files \cup {NoFile}, seen : Statuses]
  /\ pc # "idle" => job.file \in Files
  /\ client \in [Clients -> [op : Ops, file : Files \cup {NoFile}, seen : Statuses]]
  /\ \A c \in Clients : client[c].op # "idle" => client[c].file \in Files
  /\ mode = "down" => pc = "idle" /\ \A c \in Clients : client[c].op = "idle"
  /\ requests \in Nat /\ crashes \in Nat /\ faults \in Nat
  /\ removed \subseteq Files /\ overlap \subseteq removed

(* A file that waits for processing is waited for: while the process is up  *)
(* and no statement has failed, it has a ticket or the worker is on it.     *)
PendingIsQueued ==
  mode = "up" /\ faults = 0 =>
    \A f \in Files : Unfinished(f) => tickets[f] > 0 \/ OnFile(f)

(* A file shown as ready has its document and its chunks, whatever crashed, *)
(* failed or was reprocessed before, unless somebody began to remove it.    *)
ReadyIsSearchable ==
  \A f \in Files \ removed :
    row[f] = "live" /\ status[f] = "ready" => f \in chunks /\ doc[f] = "ready"

(* Nothing remains of a deleted file, also after crashes and late tickets,  *)
(* as long as it was not being processed while it was removed.              *)
DeletedIsClean ==
  \A f \in Files \ overlap : row[f] = "deleted" =>
    doc[f] = "none" /\ f \notin chunks /\ f \notin blobs

(* A file waiting to be processed becomes ready, failed or deleted, also    *)
(* across restarts.  After a failing statement it may wait for ever.        *)
EveryFileSettles ==
  \A f \in Files : Unfinished(f) ~> \/ row[f] = "deleted" \/ status[f] \in {"ready", "failed"}
                                    \/ faults > 0

(* "DELETE /files/:id also removes its knowledge chunks." *)
DeletedLeavesNoChunks == \A f \in Files : row[f] = "deleted" => f \notin chunks
=============================================================================
