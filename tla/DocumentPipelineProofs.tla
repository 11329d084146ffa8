------------------------ MODULE DocumentPipelineProofs ------------------------
(***************************************************************************)
(* Proofs about DocumentPipeline for any files, any number of requests in  *)
(* flight and any bounds: the types, that a file shown as ready can be     *)
(* searched, that nothing remains of a deleted file, and that a file that  *)
(* waits for processing is queued.                                         *)
(***************************************************************************)
EXTENDS DocumentPipeline, FiniteSetTheorems, TLAPS

(* The values of doc, and the suspended handlers. *)
DocStatuses == {"none", "processing", "ready", "failed"}
Removals == {"removeDocs", "removeBlob", "removeRow"}
Handler  == [op : Ops, file : Files \cup {NoFile}, seen : Statuses]

(* A handler is well-formed when one under way has its file. *)
HandlerOK(h) == h \in Handler /\ (h.op # "idle" => h.file \in Files)

-----------------------------------------------------------------------------
(* Types *)

(* A step changes one handler, or none: the handlers stay well-formed. *)
LEMMA HandlersStay ==
  ASSUME TypeOK, NEW c \in Clients, NEW h, HandlerOK(h),
         client' = [client EXCEPT ![c] = h]
  PROVE  client' \in [Clients -> Handler] /\ \A d \in Clients : HandlerOK(client'[d])
<1>1. client \in [Clients -> Handler] /\ \A d \in Clients : HandlerOK(client[d])
  BY DEF TypeOK, Handler, HandlerOK
<1>2. h \in Handler BY DEF HandlerOK
<1> QED BY <1>1, <1>2

(* What Begin, Continue and the end of a handler do to client. *)
LEMMA BegunOK ==
  ASSUME NEW op \in Ops, NEW f \in Files, NEW seen \in Statuses
  PROVE  HandlerOK([op |-> op, file |-> f, seen |-> seen])
BY DEF HandlerOK, Handler

LEMMA IdleOK == HandlerOK(Idle)
BY DEF HandlerOK, Handler, Idle, Ops, Statuses

LEMMA ContinuedOK ==
  ASSUME TypeOK, NEW c \in Clients, client[c].op # "idle", NEW op \in Ops, Continue(c, op)
  PROVE  /\ HandlerOK([client[c] EXCEPT !.op = op])
         /\ client' = [client EXCEPT ![c] = [client[c] EXCEPT !.op = op]]
<1>1. client[c] \in Handler /\ client[c].file \in Files /\ client \in [Clients -> Handler]
  BY DEF TypeOK, Handler
<1>2. HandlerOK([client[c] EXCEPT !.op = op]) BY <1>1 DEF HandlerOK, Handler
<1> QED BY <1>1, <1>2 DEF Continue

(* Every handler, the worker's file and the mode they need. *)
LEMMA Typed ==
  ASSUME TypeOK
  PROVE  /\ client \in [Clients -> Handler] /\ \A c \in Clients : HandlerOK(client[c])
         /\ \A c \in Clients : client[c].op # "idle" => mode # "down"
         /\ pc # "idle" => mode # "down" /\ job.file \in Files
         /\ row \in [Files -> {"absent", "live", "deleted"}] /\ status \in [Files -> Statuses]
         /\ doc \in [Files -> DocStatuses] /\ tickets \in [Files -> Nat]
BY DEF TypeOK, Handler, HandlerOK, DocStatuses

LEMMA TypesInitially == Init => TypeOK
BY DocumentAssumption DEF Init, TypeOK, Idle, NoJob, Ops, Places, Statuses

(* What a status is saved as, and what an enqueued ticket is. *)
LEMMA SavedIsStatus ==
  ASSUME TypeOK, NEW f \in Files, NEW seen, NEW new \in Statuses
  PROVE  SavedStatus(f, seen, new) \in Statuses
BY DEF TypeOK, SavedStatus

LEMMA EnqueuedTyped ==
  ASSUME TypeOK, NEW f \in Files
  PROVE  /\ Enqueued(f) \in [Files -> Nat]
         /\ \A g \in Files : Enqueued(f)[g] >= tickets[g]
         /\ mode = "up" => Enqueued(f)[f] > 0
<1>1. tickets \in [Files -> Nat] BY DEF TypeOK
<1> QED BY <1>1 DEF Enqueued

LEMMA ProcessTyped == TypeOK /\ Process => TypeOK'
<1> SUFFICES ASSUME TypeOK, Process PROVE TypeOK' OBVIOUS
<1>1. pc # "idle" /\ mode # "down" /\ job.file \in Files /\ job \in [file : Files \cup {NoFile}, seen : Statuses]
  BY DEF TypeOK, Process, MarkProcessing, ReadBlob, FindOrCreateDocument, MarkDocument,
         Extract, ClearChunks, InsertChunks, DocumentReady, FileReady, FileFailed, DocumentFailed
<1>2. CASE MarkProcessing
  <2>1. SavedStatus(job.file, job.seen, "processing") \in Statuses
    BY <1>1, SavedIsStatus DEF Statuses
  <2> QED BY <1>1, <1>2, <2>1 DEF TypeOK, MarkProcessing, Others, counters, history, Places, Statuses
<1>3. CASE ReadBlob
  BY <1>1, <1>3 DEF TypeOK, ReadBlob, Others, counters, history, tables, Places
<1>4. CASE FindOrCreateDocument
  BY <1>1, <1>4 DEF TypeOK, FindOrCreateDocument, Others, counters, history, Places
<1>5. CASE MarkDocument
  BY <1>1, <1>5 DEF TypeOK, MarkDocument, SetDocument, Others, counters, history, Places
<1>6. CASE Extract
  BY <1>1, <1>6 DEF TypeOK, Extract, Others, counters, history, tables, Places
<1>7. CASE ClearChunks
  BY <1>1, <1>7 DEF TypeOK, ClearChunks, Others, counters, history, Places
<1>8. CASE InsertChunks
  BY <1>1, <1>8 DEF TypeOK, InsertChunks, Others, counters, history, Places
<1>9. CASE DocumentReady
  BY <1>1, <1>9 DEF TypeOK, DocumentReady, SetDocument, Others, counters, history, Places
<1>10. CASE FileReady
  BY <1>1, <1>10 DEF TypeOK, FileReady, NoJob, Others, counters, history, Places, Statuses
<1>11. CASE FileFailed
  <2>1. SavedStatus(job.file, job.seen, "failed") \in Statuses
    BY <1>1, SavedIsStatus DEF Statuses
  <2> QED BY <1>1, <1>11, <2>1 DEF TypeOK, FileFailed, Others, counters, history, Places
<1>12. CASE DocumentFailed
  BY <1>1, <1>12 DEF TypeOK, DocumentFailed, SetDocument, NoJob, Others, counters, history, Places, Statuses
<1> QED BY <1>2, <1>3, <1>4, <1>5, <1>6, <1>7, <1>8, <1>9, <1>10, <1>11, <1>12 DEF Process

(* Who removes a file has been noted: what makes overlap part of removed. *)
RemovalsKnown == \A c \in Clients : client[c].op \in Removals => client[c].file \in removed
TypeInv == TypeOK /\ RemovalsKnown

LEMMA KnownRemoval ==
  ASSUME TypeInv, NEW f, Removing(f)
  PROVE  f \in removed
BY DEF TypeInv, RemovalsKnown, Removals, Removing

LEMMA ProcessKeepsTypes == TypeInv /\ Process => TypeInv'
<1> SUFFICES ASSUME TypeInv, Process PROVE TypeInv' OBVIOUS
<1>1. TypeOK' BY ProcessTyped DEF TypeInv
<1>2. client' = client /\ removed' = removed
  BY DEF Process, MarkProcessing, ReadBlob, FindOrCreateDocument, MarkDocument, Others, history,
         Extract, ClearChunks, InsertChunks, DocumentReady, FileReady, FileFailed, DocumentFailed
<1> QED BY <1>1, <1>2 DEF TypeInv, RemovalsKnown

LEMMA StartKeepsTypes == ASSUME TypeInv, NEW f \in Files, Start(f) PROVE TypeInv'
<1>1. client' = client /\ counters' = counters /\ tables' = tables /\ mode' = mode /\ removed' = removed
  BY DEF Start
<1>2. tickets' \in [Files -> Nat] BY DEF TypeInv, TypeOK, Start
<1>3. CASE row[f] = "live" /\ status[f] # "ready"
  <2>1. Removing(f) => f \in removed BY KnownRemoval
  <2>2. overlap' \subseteq removed BY <1>3, <2>1 DEF TypeInv, TypeOK, Start
  <2>3. pc' \in Places /\ job' \in [file : Files \cup {NoFile}, seen : Statuses] /\ job'.file \in Files
    BY <1>3 DEF TypeInv, TypeOK, Start, Places
  <2>4. mode # "down" BY DEF Start
  <2> QED BY <1>1, <1>2, <2>2, <2>3, <2>4
      DEF TypeInv, TypeOK, RemovalsKnown, counters, tables
<1>4. CASE ~(row[f] = "live" /\ status[f] # "ready")
  <2>1. pc' = pc /\ job' = job /\ overlap' = overlap BY <1>4 DEF Start, worker
  <2>2. mode # "down" BY DEF Start
  <2> QED BY <1>1, <1>2, <2>1, <2>2 DEF TypeInv, TypeOK, RemovalsKnown, counters, tables
<1> QED BY <1>3, <1>4

(* A handler that moves on to a well-formed state keeps the types, if what *)
(* else it changes is well typed.                                          *)
LEMMA HandlerMoves ==
  ASSUME TypeInv, NEW c \in Clients, NEW h, HandlerOK(h), mode # "down",
         client' = [client EXCEPT ![c] = h],
         UNCHANGED worker, UNCHANGED mode, UNCHANGED crashes,
         row' \in [Files -> {"absent", "live", "deleted"}], status' \in [Files -> Statuses],
         doc' \in [Files -> DocStatuses], chunks' \subseteq Files, blobs' \subseteq Files,
         tickets' \in [Files -> Nat], requests' \in Nat, faults' \in Nat,
         removed' \subseteq Files, removed \subseteq removed', overlap' \subseteq removed',
         h.op \in Removals => h.file \in removed'
  PROVE  TypeInv'
<1>1. client' \in [Clients -> Handler] /\ \A d \in Clients : HandlerOK(client'[d])
  BY HandlersStay DEF TypeInv
<1>2. client \in [Clients -> Handler] BY Typed DEF TypeInv
<1>3. RemovalsKnown'
  BY <1>2 DEF TypeInv, RemovalsKnown
<1> QED BY <1>1, <1>3 DEF TypeInv, TypeOK, worker, Handler, HandlerOK, DocStatuses

(* Touch may only add the file it is about. *)
LEMMA Touched ==
  ASSUME TypeInv, NEW f, Touch(f)
  PROVE  overlap \subseteq overlap' /\ overlap' \subseteq overlap \cup {f}
BY DEF Touch

(* The requests that are begun. *)
LEMMA BeginKeepsTypes ==
  ASSUME TypeInv, NEW c \in Clients, NEW f \in Files,
         StartUpload(c, f) \/ StartReprocess(c, f) \/ RemoveChunks(c, f)
  PROVE  TypeInv'
<1>1. /\ row \in [Files -> {"absent", "live", "deleted"}] /\ status \in [Files -> Statuses]
      /\ doc \in [Files -> DocStatuses] /\ tickets \in [Files -> Nat]
      /\ chunks \subseteq Files /\ blobs \subseteq Files
      /\ requests \in Nat /\ faults \in Nat /\ removed \subseteq Files /\ overlap \subseteq removed
  BY DEF TypeInv, TypeOK, DocStatuses
<1>2. ASSUME NEW op \in Ops, NEW seen \in Statuses, Begin(c, op, f, seen)
      PROVE  /\ HandlerOK([op |-> op, file |-> f, seen |-> seen]) /\ mode # "down"
             /\ client' = [client EXCEPT ![c] = [op |-> op, file |-> f, seen |-> seen]]
             /\ UNCHANGED <<worker, mode, crashes, faults, tickets>> /\ requests' \in Nat
  BY <1>1, <1>2, BegunOK DEF Begin
<1>3. CASE StartUpload(c, f)
  <2>1. Begin(c, "upload", f, "pending") /\ "upload" \in Ops /\ "pending" \in Statuses
    BY <1>3 DEF StartUpload, Ops, Statuses
  <2>2. blobs' \subseteq Files /\ UNCHANGED <<row, status, doc, chunks, removed, overlap>>
    BY <1>1, <1>3 DEF StartUpload, history
  <2> DEFINE h == [op |-> "upload", file |-> f, seen |-> "pending"]
  <2>3. /\ HandlerOK(h) /\ mode # "down" /\ client' = [client EXCEPT ![c] = h] /\ h.op \notin Removals
        /\ UNCHANGED <<worker, mode, crashes, faults, tickets>> /\ requests' \in Nat
    BY <1>2, <2>1 DEF Removals
  <2> HIDE DEF h
  <2> QED BY <1>1, <2>2, <2>3, HandlerMoves
<1>4. CASE StartReprocess(c, f)
  <2>1. Begin(c, "reprocess", f, status[f]) /\ "reprocess" \in Ops /\ status[f] \in Statuses
    BY <1>1, <1>4 DEF StartReprocess, Ops
  <2>2. UNCHANGED <<row, status, doc, chunks, blobs, removed, overlap>>
    BY <1>4 DEF StartReprocess, history, tables
  <2> DEFINE h == [op |-> "reprocess", file |-> f, seen |-> status[f]]
  <2>3. /\ HandlerOK(h) /\ mode # "down" /\ client' = [client EXCEPT ![c] = h] /\ h.op \notin Removals
        /\ UNCHANGED <<worker, mode, crashes, faults, tickets>> /\ requests' \in Nat
    BY <1>2, <2>1 DEF Removals
  <2> HIDE DEF h
  <2> QED BY <1>1, <2>2, <2>3, HandlerMoves
<1>5. CASE RemoveChunks(c, f)
  <2>1. Begin(c, "removeDocs", f, "pending") /\ "removeDocs" \in Ops /\ "pending" \in Statuses
    BY <1>5 DEF RemoveChunks, Ops, Statuses
  <2>2. /\ chunks' \subseteq Files /\ UNCHANGED <<row, status, doc, blobs>>
        /\ removed' = removed \cup {f} /\ overlap' \subseteq overlap \cup {f}
    BY <1>1, <1>5, Touched DEF RemoveChunks
  <2> DEFINE h == [op |-> "removeDocs", file |-> f, seen |-> "pending"]
  <2>3. /\ HandlerOK(h) /\ mode # "down" /\ client' = [client EXCEPT ![c] = h] /\ h.file = f
        /\ UNCHANGED <<worker, mode, crashes, faults, tickets>> /\ requests' \in Nat
    BY <1>2, <2>1 DEF Removals
  <2> HIDE DEF h
  <2> QED BY <1>1, <2>2, <2>3, HandlerMoves
<1> QED BY <1>3, <1>4, <1>5

(* The requests that go on. *)
LEMMA ContinueKeepsTypes ==
  ASSUME TypeInv, NEW c \in Clients,
         \/ FinishUpload(c) \/ FinishReprocess(c)
         \/ RemoveDocument(c) \/ RemoveBlob(c) \/ RemoveRow(c)
  PROVE  TypeInv'
<1> DEFINE f == client[c].file
<1>1. /\ row \in [Files -> {"absent", "live", "deleted"}] /\ status \in [Files -> Statuses]
      /\ doc \in [Files -> DocStatuses] /\ tickets \in [Files -> Nat]
      /\ chunks \subseteq Files /\ blobs \subseteq Files
      /\ requests \in Nat /\ faults \in Nat /\ removed \subseteq Files /\ overlap \subseteq removed
  BY DEF TypeInv, TypeOK, DocStatuses
<1>2. client[c].op # "idle"
  BY DEF FinishUpload, FinishReprocess, RemoveDocument, RemoveBlob, RemoveRow
<1>3. f \in Files /\ mode # "down" BY <1>2, Typed DEF TypeInv, HandlerOK
<1>4. HandlerOK(Idle) /\ Idle.op \notin Removals BY IdleOK DEF Idle, Removals
<1>5. Enqueued(f) \in [Files -> Nat] BY <1>3, EnqueuedTyped DEF TypeInv
<1>6. client[c].op \in Removals => f \in removed BY DEF TypeInv, RemovalsKnown
<1>7. ASSUME NEW op \in Ops, Continue(c, op)
      PROVE  /\ HandlerOK([client[c] EXCEPT !.op = op])
             /\ client' = [client EXCEPT ![c] = [client[c] EXCEPT !.op = op]]
             /\ [client[c] EXCEPT !.op = op].file = f
  <2>1. client[c] \in Handler BY Typed DEF TypeInv
  <2> QED BY <1>2, <1>7, <2>1, ContinuedOK DEF TypeInv, Handler
<1> HIDE DEF f
<1>8. CASE FinishUpload(c)
  <2>1. client' = [client EXCEPT ![c] = Idle] /\ UNCHANGED <<doc, chunks, worker, mode, requests, crashes, removed, overlap>>
    BY <1>8 DEF FinishUpload, history
  <2>2. /\ row' \in [Files -> {"absent", "live", "deleted"}] /\ status' \in [Files -> Statuses]
        /\ blobs' \subseteq Files /\ tickets' \in [Files -> Nat] /\ faults' \in Nat
    BY <1>1, <1>3, <1>5, <1>8 DEF FinishUpload, f, Statuses
  <2> QED BY <1>1, <1>3, <1>4, <2>1, <2>2, HandlerMoves
<1>9. CASE FinishReprocess(c)
  <2>1. /\ client' = [client EXCEPT ![c] = Idle]
        /\ UNCHANGED <<row, doc, chunks, blobs, worker, mode, requests, crashes, faults, removed, overlap>>
        /\ tickets' = Enqueued(f)
        /\ status' = [status EXCEPT ![f] = SavedStatus(f, client[c].seen, "pending")]
    BY <1>9 DEF FinishReprocess, history, counters, f
  <2>2. SavedStatus(f, client[c].seen, "pending") \in Statuses
    BY <1>3, SavedIsStatus DEF TypeInv, Statuses
  <2> QED BY <1>1, <1>3, <1>4, <1>5, <2>1, <2>2, HandlerMoves
<1>10. CASE RemoveDocument(c)
  <2>1. Continue(c, "removeBlob") /\ "removeBlob" \in Ops /\ f \in removed /\ Touch(f)
    BY <1>6, <1>10 DEF RemoveDocument, Ops, Removals, f
  <2>2. /\ doc' \in [Files -> DocStatuses] /\ chunks' \subseteq Files
        /\ UNCHANGED <<row, status, blobs, worker, mode, tickets, requests, crashes, faults, removed>>
    BY <1>1, <1>3, <1>10 DEF RemoveDocument, counters, DocStatuses, f
  <2> DEFINE h == [client[c] EXCEPT !.op = "removeBlob"]
  <2>3. HandlerOK(h) /\ client' = [client EXCEPT ![c] = h] /\ h.file = f
    BY <1>7, <2>1
  <2>4. overlap' \subseteq overlap \cup {f} BY <2>1, Touched
  <2> HIDE DEF h
  <2> QED BY <1>1, <1>3, <2>1, <2>2, <2>3, <2>4, HandlerMoves
<1>11. CASE RemoveBlob(c)
  <2>1. Continue(c, "removeRow") /\ "removeRow" \in Ops /\ f \in removed /\ Touch(f)
    BY <1>6, <1>11 DEF RemoveBlob, Ops, Removals, f
  <2>2. /\ blobs' \subseteq Files
        /\ UNCHANGED <<row, status, doc, chunks, worker, mode, tickets, requests, crashes, faults, removed>>
    BY <1>1, <1>3, <1>11 DEF RemoveBlob, counters, f
  <2> DEFINE h == [client[c] EXCEPT !.op = "removeRow"]
  <2>3. HandlerOK(h) /\ client' = [client EXCEPT ![c] = h] /\ h.file = f
    BY <1>7, <2>1
  <2>4. overlap' \subseteq overlap \cup {f} BY <2>1, Touched
  <2> HIDE DEF h
  <2> QED BY <1>1, <1>3, <2>1, <2>2, <2>3, <2>4, HandlerMoves
<1>12. CASE RemoveRow(c)
  <2>1. client' = [client EXCEPT ![c] = Idle] /\ f \in removed /\ Touch(f)
    BY <1>6, <1>12 DEF RemoveRow, Removals, f
  <2>2. /\ row' \in [Files -> {"absent", "live", "deleted"}]
        /\ UNCHANGED <<status, doc, chunks, blobs, worker, mode, tickets, requests, crashes, faults, removed>>
    BY <1>1, <1>3, <1>12 DEF RemoveRow, counters, f
  <2> QED BY <1>1, <1>3, <1>4, <2>1, <2>2, HandlerMoves, Touched
<1> QED BY <1>8, <1>9, <1>10, <1>11, <1>12

(* When the process ends nothing is in flight. *)
LEMMA GoneKeepsTypes ==
  ASSUME TypeInv, Gone, requests' \in Nat, crashes' \in Nat, faults' \in Nat,
         UNCHANGED <<tables, history>>
  PROVE  TypeInv'
<1>1. client' \in [Clients -> Handler] /\ \A c \in Clients : client'[c] = Idle
  BY IdleOK DEF Gone, HandlerOK
<1>2. tickets' \in [Files -> Nat] BY DEF Gone
<1>3. job' \in [file : Files \cup {NoFile}, seen : Statuses] BY DEF Gone, NoJob, Statuses
<1>4. mode' = "down" /\ pc' = "idle" BY DEF Gone
<1>5. Idle.op = "idle" BY DEF Idle
<1> QED BY <1>1, <1>2, <1>3, <1>4, <1>5
    DEF TypeInv, TypeOK, RemovalsKnown, Removals, Handler, Places, tables, history

LEMMA EnvironmentKeepsTypes == TypeInv /\ Environment => TypeInv'
<1> SUFFICES ASSUME TypeInv, Environment PROVE TypeInv' OBVIOUS
<1>1. /\ requests \in Nat /\ crashes \in Nat /\ faults \in Nat /\ tickets \in [Files -> Nat]
      /\ client \in [Clients -> Handler]
  BY DEF TypeInv, TypeOK, Handler
<1>2. CASE DatabaseFault
  <2>1. /\ requests' \in Nat /\ crashes' \in Nat /\ faults' \in Nat
        /\ UNCHANGED <<tables, history>>
    BY <1>1, <1>2 DEF DatabaseFault
  <2>2. CASE Gone BY <2>1, <2>2, GoneKeepsTypes
  <2>3. CASE /\ pc \in {"mark", "find", "markDoc", "clear", "insert", "docReady", "fileReady"}
             /\ pc' = "fileFailed" /\ UNCHANGED <<mode, tickets, job, client>>
    BY <1>1, <2>1, <2>3 DEF TypeInv, TypeOK, RemovalsKnown, Places, tables, history
  <2>4. CASE /\ mode # "down" /\ pc = "idle"
             /\ \E f \in Files : tickets[f] > 0 /\ tickets' = [tickets EXCEPT ![f] = @ - 1]
             /\ UNCHANGED <<mode, worker, client>>
    <3>1. tickets' \in [Files -> Nat] BY <1>1, <2>4
    <3>2. UNCHANGED <<mode, pc, job, client>> BY <2>4 DEF worker
    <3> QED BY <2>1, <3>1, <3>2 DEF TypeInv, TypeOK, RemovalsKnown, tables, history
  <2> QED BY <1>2, <2>2, <2>3, <2>4 DEF DatabaseFault
<1>3. CASE Crash
  BY <1>1, <1>3, GoneKeepsTypes DEF Crash
<1>4. CASE Shutdown
  <2>1. /\ mode' = "stopping" /\ tickets' \in [Files -> Nat] /\ crashes' \in Nat /\ mode # "down"
        /\ UNCHANGED <<tables, pc, job, client, requests, faults, history>>
    BY <1>1, <1>4 DEF Shutdown, worker
  <2> QED BY <2>1 DEF TypeInv, TypeOK, RemovalsKnown, tables, history
<1>5. CASE Exit
  BY <1>1, <1>5, GoneKeepsTypes DEF Exit, counters
<1>6. CASE Recover
  <2>1. /\ mode' = "up" /\ tickets' \in [Files -> Nat]
        /\ UNCHANGED <<tables, pc, job, client, requests, crashes, faults, history>>
    BY <1>1, <1>6 DEF Recover, worker, counters
  <2> QED BY <2>1 DEF TypeInv, TypeOK, RemovalsKnown, tables, history
<1>7. ASSUME NEW c \in Clients, HandlerFault(c) PROVE TypeInv'
  <2>1. client' = [client EXCEPT ![c] = Idle] /\ client[c].op # "idle" /\ faults' \in Nat
    BY <1>1, <1>7 DEF HandlerFault
  <2>2. UNCHANGED <<tables, mode, tickets, worker, requests, crashes, history>>
    BY <1>7 DEF HandlerFault
  <2>3. HandlerOK(Idle) /\ Idle.op \notin Removals /\ mode # "down"
    BY <2>1, IdleOK, Typed DEF Idle, Removals, TypeInv
  <2>4. /\ row \in [Files -> {"absent", "live", "deleted"}] /\ status \in [Files -> Statuses]
        /\ doc \in [Files -> DocStatuses] /\ chunks \subseteq Files /\ blobs \subseteq Files
        /\ removed \subseteq Files /\ overlap \subseteq removed
    BY DEF TypeInv, TypeOK, DocStatuses
  <2>5. UNCHANGED <<row, status, doc, chunks, blobs, removed, overlap>>
    BY <2>2 DEF tables, history
  <2> QED BY <1>1, <2>1, <2>2, <2>3, <2>4, <2>5, HandlerMoves
<1> QED BY <1>2, <1>3, <1>4, <1>5, <1>6, <1>7 DEF Environment

(* The types hold for good, and so does the note of every removal. *)
LEMMA TypesStay == TypeInv /\ [Next]_vars => TypeInv'
<1>1. ASSUME TypeInv, UNCHANGED vars PROVE TypeInv'
  BY <1>1 DEF vars, TypeInv, TypeOK, RemovalsKnown
<1>2. TypeInv /\ Api => TypeInv'
  BY BeginKeepsTypes, ContinueKeepsTypes DEF Api
<1> QED BY <1>1, <1>2, ProcessKeepsTypes, StartKeepsTypes, EnvironmentKeepsTypes DEF Next

LEMMA TypeInvHolds == Spec => []TypeInv
<1>1. Init => TypeInv
  BY TypesInitially DEF TypeInv, RemovalsKnown, Removals, Init, Idle
<1> QED BY <1>1, TypesStay, PTL DEF Spec

(* Every variable has its type, and a call under way has its file. *)
THEOREM PipelineTyped == Spec => []TypeOK
BY TypeInvHolds, PTL DEF TypeInv

-----------------------------------------------------------------------------
(* What a step leaves alone *)

(* The worker writes only what belongs to its file, and stays on it.       *)
LEMMA WorkerWrites ==
  ASSUME TypeInv, Process
  PROVE  /\ pc # "idle" /\ job.file \in Files
         /\ pc' # "idle" => job'.file = job.file
         /\ \A g \in Files : g # job.file =>
              doc'[g] = doc[g] /\ status'[g] = status[g] /\ (g \in chunks' <=> g \in chunks)
         /\ UNCHANGED <<row, blobs, mode, tickets, client, requests, crashes, faults, removed, overlap>>
<1>1. pc # "idle"
  BY DEF Process, MarkProcessing, ReadBlob, FindOrCreateDocument, MarkDocument,
         Extract, ClearChunks, InsertChunks, DocumentReady, FileReady, FileFailed, DocumentFailed
<1>2. job.file \in Files /\ doc \in [Files -> DocStatuses] /\ status \in [Files -> Statuses]
  BY <1>1, Typed DEF TypeInv
<1>3. job \in [file : Files \cup {NoFile}, seen : Statuses] BY DEF TypeInv, TypeOK
<1>4. UNCHANGED <<row, blobs, mode, tickets, client, requests, crashes, faults, removed, overlap>>
  BY DEF Process, MarkProcessing, ReadBlob, FindOrCreateDocument, MarkDocument, Others, history,
         counters, tables,
         Extract, ClearChunks, InsertChunks, DocumentReady, FileReady, FileFailed, DocumentFailed
<1>5. pc' # "idle" => job'.file = job.file
  BY <1>3 DEF Process, MarkProcessing, ReadBlob, FindOrCreateDocument, MarkDocument,
         Extract, ClearChunks, InsertChunks, DocumentReady, FileReady, FileFailed, DocumentFailed
<1>6. \A g \in Files : g # job.file =>
        doc'[g] = doc[g] /\ status'[g] = status[g] /\ (g \in chunks' <=> g \in chunks)
  BY <1>2 DEF Process, MarkProcessing, ReadBlob, FindOrCreateDocument, MarkDocument, SetDocument,
         tables, Extract, ClearChunks, InsertChunks, DocumentReady, FileReady, FileFailed, DocumentFailed
<1> QED BY <1>1, <1>2, <1>4, <1>5, <1>6

(* A step of the environment leaves the tables alone, ends handlers or     *)
(* leaves them alone, and leaves the worker where it is, lets it fail or   *)
(* ends it.                                                                *)
LEMMA EnvironmentWrites ==
  ASSUME TypeInv, Environment
  PROVE  /\ UNCHANGED <<row, status, doc, chunks, blobs, removed, overlap>>
         /\ \A c \in Clients : client'[c] = client[c] \/ client'[c] = Idle
         /\ pc' = "idle" \/ (pc' = pc /\ job' = job) \/ (pc # "idle" /\ pc' = "fileFailed" /\ job' = job)
<1>1. client \in [Clients -> Handler] BY Typed DEF TypeInv
<1>2. CASE DatabaseFault BY <1>1, <1>2 DEF DatabaseFault, Gone, tables, history, worker
<1>3. CASE Crash \/ Shutdown \/ Exit \/ Recover
  BY <1>1, <1>3 DEF Crash, Shutdown, Exit, Recover, Gone, tables, history, worker
<1>4. ASSUME NEW c \in Clients, HandlerFault(c)
      PROVE  /\ UNCHANGED <<row, status, doc, chunks, blobs, removed, overlap, pc, job>>
             /\ client' = [client EXCEPT ![c] = Idle]
  BY <1>4 DEF HandlerFault, tables, history, worker
<1> QED BY <1>1, <1>2, <1>3, <1>4 DEF Environment

(* What the handlers do to the other files, to the other handlers and to   *)
(* the worker.                                                             *)

-----------------------------------------------------------------------------
(* Handlers and the rows they are about *)

(* An upload is the only handler of its file, which has no row yet; every  *)
(* other handler has found the row of its file.                            *)
Alone(c) == /\ row[client[c].file] = "absent"
            /\ \A d \in Clients : d # c => client[d].file # client[c].file
RowsKnown ==
  \A c \in Clients :
    /\ client[c].op = "upload" => Alone(c)
    /\ client[c].op \notin {"upload", "idle"} => row[client[c].file] # "absent"

LEMMA BeginKeepsRows ==
  ASSUME TypeInv, RowsKnown, NEW c \in Clients, NEW f \in Files,
         StartUpload(c, f) \/ StartReprocess(c, f) \/ RemoveChunks(c, f)
  PROVE  RowsKnown'
<1>1. client \in [Clients -> Handler] BY Typed DEF TypeInv
<1>2. row' = row /\ row[f] \in {"absent", "live", "deleted"}
  BY DEF StartUpload, StartReprocess, RemoveChunks, tables, TypeInv, TypeOK
<1>3. /\ \A d \in Clients : d # c => client'[d] = client[d]
      /\ client'[c].file = f
      /\ client'[c].op = "upload" => row[f] = "absent" /\ \A d \in Clients : client[d].file # f
      /\ client'[c].op # "upload" => row[f] = "live"
  BY <1>1 DEF StartUpload, StartReprocess, RemoveChunks, Begin
<1>4. ASSUME NEW d \in Clients
      PROVE  /\ client'[d].op = "upload" => Alone(d)'
             /\ client'[d].op \notin {"upload", "idle"} => row'[client'[d].file] # "absent"
  <2>1. CASE d = c BY <1>2, <1>3, <2>1 DEF Alone
  <2>2. CASE d # c
    <3>1. client'[d] = client[d] BY <1>3, <2>2
    <3>2. ASSUME client[d].op = "upload" PROVE client[d].file # f
      BY <1>2, <1>3, <2>2, <3>2 DEF RowsKnown, Alone
    <3>3. client[d].op = "upload" => Alone(d) BY DEF RowsKnown
    <3> QED BY <1>2, <1>3, <3>1, <3>2, <3>3 DEF RowsKnown, Alone
  <2> QED BY <2>1, <2>2
<1> QED BY <1>4 DEF RowsKnown

LEMMA ContinueKeepsRows ==
  ASSUME TypeInv, RowsKnown, NEW c \in Clients,
         \/ FinishUpload(c) \/ FinishReprocess(c)
         \/ RemoveDocument(c) \/ RemoveBlob(c) \/ RemoveRow(c)
  PROVE  RowsKnown'
<1> DEFINE f == client[c].file
<1>1. client \in [Clients -> Handler] /\ client[c] \in Handler BY Typed DEF TypeInv
<1>2. client[c].op # "idle"
  BY DEF FinishUpload, FinishReprocess, RemoveDocument, RemoveBlob, RemoveRow
<1>3. f \in Files BY <1>2, Typed DEF TypeInv, HandlerOK
<1>4. row \in [Files -> {"absent", "live", "deleted"}] BY Typed DEF TypeInv
<1>5. /\ \A d \in Clients : d # c => client'[d] = client[d]
      /\ \/ client'[c] = Idle
         \/ client'[c].file = f /\ client'[c].op \in Removals /\ row' = row /\ client[c].op # "upload"
  BY <1>1, <1>4 DEF FinishUpload, FinishReprocess, RemoveDocument, RemoveBlob, RemoveRow, Continue,
                    Removals, Handler, Idle
<1>6. /\ \A g \in Files : g # f => row'[g] = row[g]
      /\ row'[f] # "absent" \/ (row' = row /\ row[f] = "absent")
  BY <1>3, <1>4 DEF FinishUpload, FinishReprocess, RemoveDocument, RemoveBlob, RemoveRow, RowsKnown
<1>7. Idle.op = "idle" /\ Idle.file = NoFile BY DEF Idle
<1>8. ASSUME NEW d \in Clients
      PROVE  /\ client'[d].op = "upload" => Alone(d)'
             /\ client'[d].op \notin {"upload", "idle"} => row'[client'[d].file] # "absent"
  <2>1. CASE d = c BY <1>2, <1>5, <1>6, <1>7, <2>1 DEF RowsKnown, Removals
  <2>2. CASE d # c
    <3>1. client'[d] = client[d] BY <1>5, <2>2
    <3>2. client[d].op # "idle" => client[d].file \in Files BY Typed DEF TypeInv, HandlerOK
    <3>3. ASSUME client[d].op = "upload" PROVE Alone(d)'
      <4>1. client[d].file # f /\ row[client[d].file] = "absent" /\ client[d].file \in Files
        BY <2>2, <3>2, <3>3 DEF RowsKnown, Alone
      <4>2. row'[client'[d].file] = "absent" BY <1>6, <3>1, <4>1
      <4>3. \A e \in Clients : e # d => client[e].file # client[d].file
        BY <3>3 DEF RowsKnown, Alone
      <4>4. client'[c].file # client[d].file BY <1>5, <1>7, <4>1, NoFileAssumption
      <4> QED BY <1>5, <3>1, <4>2, <4>3, <4>4 DEF Alone
    <3>4. ASSUME client[d].op \notin {"upload", "idle"} PROVE row'[client[d].file] # "absent"
      <4>1. row[client[d].file] # "absent" /\ client[d].file \in Files
        BY <3>2, <3>4 DEF RowsKnown
      <4> QED BY <1>6, <4>1
    <3> QED BY <3>1, <3>3, <3>4
  <2> QED BY <2>1, <2>2
<1> QED BY <1>8 DEF RowsKnown

LEMMA RowsStayKnown == TypeInv /\ RowsKnown /\ [Next]_vars => RowsKnown'
<1> SUFFICES ASSUME TypeInv, RowsKnown, [Next]_vars PROVE RowsKnown' OBVIOUS
<1>1. CASE Process
  <2>1. row' = row /\ client' = client BY <1>1, WorkerWrites
  <2> QED BY <2>1 DEF RowsKnown, Alone
<1>2. ASSUME NEW f \in Files, Start(f) PROVE RowsKnown'
  <2>1. row' = row /\ client' = client BY <1>2 DEF Start, tables
  <2> QED BY <2>1 DEF RowsKnown, Alone
<1>3. CASE Api BY <1>3, BeginKeepsRows, ContinueKeepsRows DEF Api
<1>4. CASE Environment
  <2>1. row' = row /\ \A d \in Clients : client'[d] = client[d] \/ client'[d] = Idle
    BY <1>4, EnvironmentWrites
  <2>2. Idle.op = "idle" /\ Idle.file = NoFile BY DEF Idle
  <2>3. ASSUME NEW d \in Clients
        PROVE  /\ client'[d].op = "upload" => Alone(d)'
               /\ client'[d].op \notin {"upload", "idle"} => row'[client'[d].file] # "absent"
    <3>1. CASE client'[d] = Idle BY <2>2, <3>1
    <3>2. CASE client'[d] = client[d]
      <4>1. client[d].op = "upload" => client[d].file # NoFile
        BY Typed, NoFileAssumption DEF TypeInv, HandlerOK
      <4> QED BY <2>1, <2>2, <3>2, <4>1 DEF RowsKnown, Alone
    <3> QED BY <2>1, <3>1, <3>2
  <2> QED BY <2>3 DEF RowsKnown
<1>5. CASE UNCHANGED vars BY <1>5 DEF vars, RowsKnown, Alone
<1> QED BY <1>1, <1>2, <1>3, <1>4, <1>5 DEF Next

-----------------------------------------------------------------------------
(* Ready files *)

(* Only the worker makes a file ready, and it does not start on a ready    *)
(* one; a ready file has its document and its chunks, and when the worker  *)
(* is about to say so, its file has them.                                  *)
Indexed(f) == f \in chunks /\ doc[f] = "ready"
ReadyInv ==
  /\ \A f \in Files : OnFile(f) => status[f] # "ready"
  /\ pc \in {"docReady", "fileReady"} /\ job.file \notin removed =>
       job.file \in chunks /\ doc[job.file] # "none"
  /\ pc = "fileReady" /\ job.file \notin removed => Indexed(job.file)
  /\ \A f \in Files \ removed : status[f] = "ready" => Indexed(f)

LEMMA ProcessKeepsReady == TypeInv /\ ReadyInv /\ Process => ReadyInv'
<1> SUFFICES ASSUME TypeInv, ReadyInv, Process PROVE ReadyInv' OBVIOUS
<1> DEFINE g == job.file
<1>1. /\ pc # "idle" /\ g \in Files /\ status[g] # "ready" /\ (pc' # "idle" => job'.file = g)
      /\ \A f \in Files : f # g =>
           doc'[f] = doc[f] /\ status'[f] = status[f] /\ (f \in chunks' <=> f \in chunks)
      /\ removed' = removed
  BY WorkerWrites DEF ReadyInv, OnFile
<1>2. status \in [Files -> Statuses] /\ doc \in [Files -> DocStatuses] /\ chunks \subseteq Files
  BY DEF TypeInv, TypeOK, DocStatuses
<1>3. pc' \in {"docReady", "fileReady"} => InsertChunks \/ DocumentReady
  BY <1>1 DEF Process, MarkProcessing, ReadBlob, FindOrCreateDocument, MarkDocument,
         Extract, ClearChunks, InsertChunks, DocumentReady, FileReady, FileFailed, DocumentFailed
<1>4. /\ InsertChunks => pc' # "fileReady"
      /\ InsertChunks /\ pc' = "docReady" => g \in chunks' /\ doc'[g] # "none"
      /\ DocumentReady /\ g \notin removed => g \in chunks' /\ doc'[g] = "ready"
  BY <1>1, <1>2 DEF InsertChunks, DocumentReady, SetDocument, ReadyInv
<1>5. status'[g] # "ready" \/ FileReady
  BY <1>1, <1>2 DEF Process, MarkProcessing, ReadBlob, FindOrCreateDocument, MarkDocument, SavedStatus,
         tables, Extract, ClearChunks, InsertChunks, DocumentReady, FileReady, FileFailed, DocumentFailed
<1>6. FileReady => /\ pc' = "idle" /\ doc' = doc /\ chunks' = chunks
                   /\ g \notin removed => Indexed(g)
  BY DEF FileReady, ReadyInv
<1> HIDE DEF g
<1>7. \A f \in Files : OnFile(f)' => status'[f] # "ready"
  BY <1>1, <1>5, <1>6 DEF OnFile
<1>8. pc' \in {"docReady", "fileReady"} /\ job'.file \notin removed' =>
        job'.file \in chunks' /\ doc'[job'.file] # "none"
  BY <1>1, <1>3, <1>4
<1>9. pc' = "fileReady" /\ job'.file \notin removed' =>
        job'.file \in chunks' /\ doc'[job'.file] = "ready"
  BY <1>1, <1>3, <1>4
<1>10. ASSUME NEW f \in Files \ removed', status'[f] = "ready" PROVE Indexed(f)'
  <2>1. CASE f = g BY <1>1, <1>5, <1>6, <1>10, <2>1 DEF Indexed
  <2>2. CASE f # g BY <1>1, <1>10, <2>2 DEF Indexed, ReadyInv
  <2> QED BY <2>1, <2>2
<1> QED BY <1>7, <1>8, <1>9, <1>10 DEF ReadyInv, Indexed

(* A handler makes no file ready, and takes the content only from a file   *)
(* that it removes.                                                        *)
LEMMA HandlersMakeNoneReady ==
  ASSUME TypeInv, Api
  PROVE  /\ UNCHANGED <<pc, job>> /\ removed \subseteq removed'
         /\ \A f \in Files : status'[f] = "ready" => status[f] = "ready"
         /\ \A f \in Files \ removed' : doc'[f] = doc[f] /\ (f \in chunks' <=> f \in chunks)
<1>1. /\ row \in [Files -> {"absent", "live", "deleted"}] /\ status \in [Files -> Statuses]
      /\ doc \in [Files -> DocStatuses]
  BY Typed DEF TypeInv
<1>2. PICK c \in Clients :
         \/ FinishUpload(c) \/ FinishReprocess(c)
         \/ RemoveDocument(c) \/ RemoveBlob(c) \/ RemoveRow(c)
         \/ \E f \in Files : StartUpload(c, f) \/ StartReprocess(c, f) \/ RemoveChunks(c, f)
  BY DEF Api
<1>3. client[c].op # "idle" => client[c].file \in Files BY Typed DEF TypeInv, HandlerOK
<1>4. client[c].op \in Removals => client[c].file \in removed BY DEF TypeInv, RemovalsKnown
<1>5. CASE FinishUpload(c)
  BY <1>1, <1>3, <1>5 DEF FinishUpload, worker, history
<1>6. CASE FinishReprocess(c)
  BY <1>1, <1>3, <1>6 DEF FinishReprocess, SavedStatus, worker, history
<1>7. CASE RemoveDocument(c) \/ RemoveBlob(c) \/ RemoveRow(c)
  BY <1>1, <1>3, <1>4, <1>7 DEF RemoveDocument, RemoveBlob, RemoveRow, worker, Removals
<1>8. ASSUME NEW f \in Files, StartUpload(c, f) \/ StartReprocess(c, f) \/ RemoveChunks(c, f)
      PROVE  /\ UNCHANGED <<pc, job, status, doc>> /\ removed \subseteq removed'
             /\ \A g \in Files \ removed' : g \in chunks' <=> g \in chunks
  BY <1>8 DEF StartUpload, StartReprocess, RemoveChunks, Begin, worker, history, tables
<1> QED BY <1>2, <1>5, <1>6, <1>7, <1>8

LEMMA ReadyStays == TypeInv /\ ReadyInv /\ [Next]_vars => ReadyInv'
<1> SUFFICES ASSUME TypeInv, ReadyInv, [Next]_vars PROVE ReadyInv' OBVIOUS
<1>1. ASSUME NEW f \in Files, Start(f) PROVE ReadyInv'
  <2>1. UNCHANGED <<status, doc, chunks, removed>> BY <1>1 DEF Start, tables
  <2>2. \/ pc' = "mark" /\ job'.file = f /\ status[f] # "ready"
        \/ UNCHANGED <<pc, job>>
    BY <1>1 DEF Start, worker
  <2> QED BY <2>1, <2>2 DEF ReadyInv, OnFile, Indexed
<1>2. CASE Api
  <2>1. /\ UNCHANGED <<pc, job>> /\ removed \subseteq removed'
        /\ \A f \in Files : status'[f] = "ready" => status[f] = "ready"
        /\ \A f \in Files \ removed' : doc'[f] = doc[f] /\ (f \in chunks' <=> f \in chunks)
    BY <1>2, HandlersMakeNoneReady
  <2>2. pc # "idle" => job.file \in Files BY Typed DEF TypeInv
  <2> QED BY <2>1, <2>2 DEF ReadyInv, OnFile, Indexed
<1>3. CASE Environment
  BY <1>3, EnvironmentWrites DEF ReadyInv, OnFile, Indexed
<1>4. CASE UNCHANGED vars BY <1>4 DEF vars, ReadyInv, OnFile, Indexed
<1> QED BY <1>1, <1>2, <1>3, <1>4, ProcessKeepsReady DEF Next

(* A file shown as ready has its document and its chunks, whatever         *)
(* crashed, failed or was reprocessed before, unless somebody began to     *)
(* remove it: the worker writes the status last, after the document, and   *)
(* nobody else writes "ready".                                             *)
THEOREM ReadyFilesFound == Spec => []ReadyIsSearchable
<1>1. Init => ReadyInv BY DEF Init, ReadyInv, OnFile, Indexed
<1>2. ReadyInv => ReadyIsSearchable BY DEF ReadyInv, ReadyIsSearchable, Indexed
<1>3. Spec => []TypeInv BY TypeInvHolds
<1> QED BY <1>1, <1>2, <1>3, ReadyStays, PTL DEF Spec

-----------------------------------------------------------------------------
(* Deleted files *)

(* What a removal has taken away stays away, since only the worker and an  *)
(* upload write anything for a file: a removal that meets the worker is in *)
(* overlap, and the worker does not start on a file without a row.         *)
Clean(f) == doc[f] = "none" /\ f \notin chunks
ClearedBy(c) ==
  client[c].file \notin overlap =>
    /\ client[c].op \in {"removeBlob", "removeRow"} => Clean(client[c].file)
    /\ client[c].op = "removeRow" => client[c].file \notin blobs
MeetingsNoted ==
  \A f \in Files : OnFile(f) /\ (row[f] = "deleted" \/ Removing(f)) => f \in overlap
RemovalInv ==
  /\ \A c \in Clients : ClearedBy(c)
  /\ MeetingsNoted
  /\ DeletedIsClean

LEMMA ProcessKeepsRemovals == TypeInv /\ RemovalInv /\ Process => RemovalInv'
<1> SUFFICES ASSUME TypeInv, RemovalInv, Process PROVE RemovalInv' OBVIOUS
<1>1. /\ pc # "idle" /\ job.file \in Files /\ (pc' # "idle" => job'.file = job.file)
      /\ \A g \in Files : g # job.file => doc'[g] = doc[g] /\ (g \in chunks' <=> g \in chunks)
      /\ UNCHANGED <<row, blobs, client, overlap>>
  BY WorkerWrites
<1>2. \A f \in Files : Removing(f)' = Removing(f) BY <1>1 DEF Removing
<1>3. MeetingsNoted' BY <1>1, <1>2 DEF RemovalInv, MeetingsNoted, OnFile
<1>4. job.file \notin overlap => row[job.file] # "deleted" /\ ~Removing(job.file)
  BY <1>1 DEF RemovalInv, MeetingsNoted, OnFile
<1>5. ASSUME NEW c \in Clients PROVE ClearedBy(c)'
  <2>1. client[c].op # "idle" => client[c].file \in Files BY Typed DEF TypeInv, HandlerOK
  <2>2. client[c].op \in {"removeBlob", "removeRow"} /\ client[c].file \notin overlap =>
          client[c].file # job.file
    BY <1>4 DEF Removing
  <2> QED BY <1>1, <2>1, <2>2 DEF RemovalInv, ClearedBy, Clean
<1>6. DeletedIsClean' BY <1>1, <1>4 DEF RemovalInv, DeletedIsClean
<1> QED BY <1>3, <1>5, <1>6 DEF RemovalInv

LEMMA StartKeepsRemovals ==
  ASSUME TypeInv, RemovalInv, NEW f \in Files, Start(f) PROVE RemovalInv'
<1>1. UNCHANGED <<row, doc, chunks, blobs, client>> BY DEF Start, tables
<1>2. /\ overlap \subseteq overlap'
      /\ \/ UNCHANGED <<pc, job>>
         \/ /\ job'.file = f /\ row[f] = "live"
            /\ Removing(f) => f \in overlap'
  BY DEF Start, worker
<1>3. \A g \in Files : Removing(g)' = Removing(g) BY <1>1 DEF Removing
<1>4. MeetingsNoted' BY <1>1, <1>2, <1>3 DEF RemovalInv, MeetingsNoted, OnFile
<1>5. (\A c \in Clients : ClearedBy(c)') /\ DeletedIsClean'
  BY <1>1, <1>2 DEF RemovalInv, ClearedBy, Clean, DeletedIsClean
<1> QED BY <1>4, <1>5 DEF RemovalInv

(* What a handler that touches a file, or a new one, may do to the rest.   *)
LEMMA BeginKeepsRemovals ==
  ASSUME TypeInv, RowsKnown, RemovalInv, NEW c \in Clients, NEW f \in Files,
         StartUpload(c, f) \/ StartReprocess(c, f) \/ RemoveChunks(c, f)
  PROVE  RemovalInv'
<1>1. client \in [Clients -> Handler] BY Typed DEF TypeInv
<1>2. /\ UNCHANGED <<row, doc, pc, job>> /\ chunks' \subseteq chunks /\ overlap \subseteq overlap'
      /\ blobs' \subseteq blobs \cup {f} /\ (f \in blobs' => f \in blobs \/ row[f] = "absent")
  BY DEF StartUpload, StartReprocess, RemoveChunks, Begin, tables, history, worker, Touch
<1>3. /\ \A d \in Clients : d # c => client'[d] = client[d]
      /\ client'[c].file = f /\ client'[c].op \notin {"removeBlob", "removeRow"}
      /\ client'[c].op \in Removals => RemoveChunks(c, f)
  BY <1>1 DEF StartUpload, StartReprocess, RemoveChunks, Begin, Removals
<1>4. ASSUME NEW d \in Clients PROVE ClearedBy(d)'
  <2>1. CASE d = c BY <1>3, <2>1 DEF ClearedBy
  <2>2. CASE d # c
    <3>1. client'[d] = client[d] BY <1>3, <2>2
    <3>2. client[d].op = "removeRow" /\ client[d].file = f => row[f] # "absent"
      BY DEF RowsKnown
    <3> QED BY <1>2, <3>1, <3>2 DEF RemovalInv, ClearedBy, Clean
  <2> QED BY <2>1, <2>2
<1>5. ASSUME NEW g \in Files, OnFile(g)', row'[g] = "deleted" \/ Removing(g)'
      PROVE  g \in overlap'
  <2>1. OnFile(g) BY <1>2, <1>5 DEF OnFile
  <2>2. CASE row'[g] = "deleted" \/ Removing(g)
    BY <1>2, <2>1, <2>2 DEF RemovalInv, MeetingsNoted
  <2>3. CASE Removing(g)' /\ ~Removing(g)
    <3>1. g = f /\ client'[c].op \in Removals BY <1>3, <2>3 DEF Removing, Removals
    <3>2. Touch(f) BY <1>3, <3>1 DEF RemoveChunks
    <3> QED BY <2>1, <3>1, <3>2 DEF Touch
  <2> QED BY <1>5, <2>2, <2>3
<1>6. DeletedIsClean' BY <1>2 DEF RemovalInv, DeletedIsClean
<1> QED BY <1>4, <1>5, <1>6 DEF RemovalInv, MeetingsNoted

LEMMA FinishKeepsRemovals ==
  ASSUME TypeInv, RowsKnown, RemovalInv, NEW c \in Clients, FinishUpload(c) \/ FinishReprocess(c)
  PROVE  RemovalInv'
<1> DEFINE f == client[c].file
<1>1. client \in [Clients -> Handler] BY Typed DEF TypeInv
<1>2. f \in Files BY Typed DEF TypeInv, HandlerOK, FinishUpload, FinishReprocess
<1>3. row \in [Files -> {"absent", "live", "deleted"}] BY Typed DEF TypeInv
<1>4. /\ UNCHANGED <<doc, chunks, pc, job, overlap>> /\ blobs' \subseteq blobs
      /\ \A g \in Files : row'[g] = "deleted" => row[g] = "deleted"
      /\ \A d \in Clients : client'[d] = client[d] \/ client'[d] = Idle
  BY <1>1, <1>2, <1>3 DEF FinishUpload, FinishReprocess, worker, history
<1>5. Idle.op = "idle" BY DEF Idle
<1>6. \A g \in Files : Removing(g)' => Removing(g) BY <1>4, <1>5 DEF Removing
<1>7. MeetingsNoted' BY <1>4, <1>6 DEF RemovalInv, MeetingsNoted, OnFile
<1>8. ASSUME NEW d \in Clients PROVE ClearedBy(d)'
  BY <1>4, <1>5 DEF RemovalInv, ClearedBy, Clean
<1>9. DeletedIsClean' BY <1>4 DEF RemovalInv, DeletedIsClean
<1> QED BY <1>7, <1>8, <1>9 DEF RemovalInv

LEMMA RemoveKeepsRemovals ==
  ASSUME TypeInv, RowsKnown, RemovalInv, NEW c \in Clients,
         RemoveDocument(c) \/ RemoveBlob(c) \/ RemoveRow(c)
  PROVE  RemovalInv'
<1> DEFINE f == client[c].file
<1>1. client \in [Clients -> Handler] /\ client[c] \in Handler BY Typed DEF TypeInv
<1>2. f \in Files BY Typed DEF TypeInv, HandlerOK, RemoveDocument, RemoveBlob, RemoveRow
<1>3. row \in [Files -> {"absent", "live", "deleted"}] /\ doc \in [Files -> DocStatuses]
  BY Typed DEF TypeInv
<1>4. /\ Touch(f) /\ UNCHANGED <<pc, job>> /\ chunks' \subseteq chunks /\ blobs' \subseteq blobs
      /\ \A g \in Files : doc[g] = "none" => doc'[g] = "none"
      /\ \A g \in Files : g # f => row'[g] = row[g]
      /\ \A d \in Clients : d # c => client'[d] = client[d]
      /\ client'[c] = Idle \/ client'[c].file = f
  BY <1>1, <1>2, <1>3 DEF RemoveDocument, RemoveBlob, RemoveRow, Continue, worker, Handler
<1>5. /\ Removing(f)
      /\ client'[c].op = "removeBlob" => RemoveDocument(c)
      /\ client'[c].op = "removeRow" => RemoveBlob(c)
      /\ row'[f] # row[f] => RemoveRow(c)
      /\ \A g \in Files : row'[g] = "deleted" \/ Removing(g)' => row[g] = "deleted" \/ Removing(g)
  <2>1. Removing(f) BY DEF RemoveDocument, RemoveBlob, RemoveRow, Removing
  <2>2. /\ client'[c].op = "removeBlob" => RemoveDocument(c)
        /\ client'[c].op = "removeRow" => RemoveBlob(c)
        /\ row'[f] # row[f] => RemoveRow(c)
    BY <1>1 DEF RemoveDocument, RemoveBlob, RemoveRow, Continue, Handler, Idle
  <2>3. \A g \in Files : Removing(g)' => Removing(g)
    <3>1. Idle.op = "idle" BY DEF Idle
    <3> QED BY <1>4, <2>1, <3>1 DEF Removing
  <2>4. \A g \in Files : row'[g] = "deleted" => row[g] = "deleted" \/ Removing(g)
    BY <1>4, <2>1
  <2> QED BY <2>1, <2>2, <2>3, <2>4
<1>6. overlap \subseteq overlap' /\ (OnFile(f) => f \in overlap') BY <1>4 DEF Touch
<1>7. MeetingsNoted'
  BY <1>4, <1>5, <1>6 DEF RemovalInv, MeetingsNoted, OnFile
<1>8. ASSUME NEW d \in Clients PROVE ClearedBy(d)'
  <2>1. CASE d # c
    <3>1. client[d].op # "idle" => client[d].file \in Files BY Typed DEF TypeInv, HandlerOK
    <3> QED BY <1>4, <1>6, <2>1, <3>1 DEF RemovalInv, ClearedBy, Clean
  <2>2. CASE d = c
    <3>1. RemoveDocument(c) => doc'[f] = "none" /\ f \notin chunks'
      BY <1>2, <1>3 DEF RemoveDocument
    <3>2. RemoveBlob(c) => f \notin blobs' /\ UNCHANGED <<doc, chunks>> /\ client[c].op = "removeBlob"
      BY DEF RemoveBlob
    <3>3. f \notin overlap /\ client[c].op = "removeBlob" => Clean(f)
      BY DEF RemovalInv, ClearedBy
    <3>4. client'[c].op \in {"removeBlob", "removeRow"} => client'[c].file = f
      BY <1>4 DEF Idle
    <3> QED BY <1>5, <1>6, <2>2, <3>1, <3>2, <3>3, <3>4 DEF ClearedBy, Clean
  <2> QED BY <2>1, <2>2
<1>9. ASSUME NEW g \in Files \ overlap', row'[g] = "deleted"
      PROVE  doc'[g] = "none" /\ g \notin chunks' /\ g \notin blobs'
  <2>1. CASE row[g] = "deleted" BY <1>4, <1>6, <1>9, <2>1 DEF RemovalInv, DeletedIsClean
  <2>2. CASE row[g] # "deleted"
    <3>1. g = f /\ RemoveRow(c) BY <1>4, <1>5, <1>9, <2>2
    <3>2. client[c].op = "removeRow" BY <3>1 DEF RemoveRow
    <3>3. Clean(f) /\ f \notin blobs BY <1>6, <1>9, <3>1, <3>2 DEF RemovalInv, ClearedBy
    <3> QED BY <1>4, <3>1, <3>3 DEF Clean
  <2> QED BY <2>1, <2>2
<1> QED BY <1>7, <1>8, <1>9 DEF RemovalInv, DeletedIsClean

LEMMA RemovalsStay == TypeInv /\ RowsKnown /\ RemovalInv /\ [Next]_vars => RemovalInv'
<1> SUFFICES ASSUME TypeInv, RowsKnown, RemovalInv, [Next]_vars PROVE RemovalInv' OBVIOUS
<1>1. CASE Api
  BY <1>1, BeginKeepsRemovals, FinishKeepsRemovals, RemoveKeepsRemovals DEF Api
<1>2. CASE Environment
  <2>1. /\ UNCHANGED <<row, doc, chunks, blobs, overlap>>
        /\ \A d \in Clients : client'[d] = client[d] \/ client'[d] = Idle
        /\ pc' # "idle" => pc # "idle" /\ job' = job
    BY <1>2, EnvironmentWrites
  <2>2. Idle.op = "idle" BY DEF Idle
  <2>3. \A g \in Files : Removing(g)' => Removing(g) BY <2>1, <2>2 DEF Removing
  <2>4. MeetingsNoted' BY <2>1, <2>3 DEF RemovalInv, MeetingsNoted, OnFile
  <2>5. \A d \in Clients : ClearedBy(d)' BY <2>1, <2>2 DEF RemovalInv, ClearedBy, Clean
  <2> QED BY <2>1, <2>4, <2>5 DEF RemovalInv, DeletedIsClean
<1>3. CASE UNCHANGED vars
  BY <1>3 DEF vars, RemovalInv, ClearedBy, Clean, MeetingsNoted, DeletedIsClean, OnFile, Removing
<1> QED BY <1>1, <1>2, <1>3, ProcessKeepsRemovals, StartKeepsRemovals DEF Next

(* Nothing remains of a deleted file, also after crashes and late tickets, *)
(* as long as it was not being processed while it was removed: remove()    *)
(* takes the document and the content before the row, and process() starts *)
(* on no file whose row is gone.                                           *)
THEOREM DeletedFilesLeaveNothing == Spec => []DeletedIsClean
<1>1. Init => RowsKnown /\ RemovalInv
  BY DEF Init, RowsKnown, RemovalInv, ClearedBy, MeetingsNoted, DeletedIsClean, OnFile, Idle
<1>2. RemovalInv => DeletedIsClean BY DEF RemovalInv
<1>3. Spec => []TypeInv BY TypeInvHolds
<1> QED BY <1>1, <1>2, <1>3, RowsStayKnown, RemovalsStay, PTL DEF Spec

-----------------------------------------------------------------------------
(* Waiting files *)

(* While no statement has failed the worker marks its file before anything *)
(* else, so that its failure is written, and a file it gives up on without *)
(* a further ticket is no longer unfinished.                               *)
QueueInv ==
  /\ PendingIsQueued
  /\ faults = 0 =>
       /\ pc \notin {"idle", "mark"} => job.seen = "processing"
       /\ mode = "up" /\ pc = "docFailed" => tickets[job.file] > 0 \/ ~Unfinished(job.file)

(* A restart finds no more unfinished files than it can enqueue.           *)
BacklogFits ==
  mode = "down" =>
    LET backlog == { f \in Files : Unfinished(f) }
    IN  IsFiniteSet(backlog) /\ Cardinality(backlog) <= RecoverLimit

LEMMA ProcessKeepsQueue == TypeInv /\ QueueInv /\ Process => QueueInv'
<1> SUFFICES ASSUME TypeInv, QueueInv, Process PROVE QueueInv' OBVIOUS
<1> DEFINE g == job.file
<1>1. /\ pc # "idle" /\ g \in Files /\ (pc' # "idle" => job'.file = g)
      /\ \A f \in Files : f # g => status'[f] = status[f]
      /\ UNCHANGED <<row, mode, tickets, faults>>
  BY WorkerWrites
<1>2. status \in [Files -> Statuses] /\ job \in [file : Files \cup {NoFile}, seen : Statuses]
  BY DEF TypeInv, TypeOK
<1>3. faults = 0 /\ pc' \notin {"idle", "mark"} => job'.seen = "processing"
  BY <1>1, <1>2 DEF Process, MarkProcessing, ReadBlob, FindOrCreateDocument, MarkDocument, QueueInv,
         Extract, ClearChunks, InsertChunks, DocumentReady, FileReady, FileFailed, DocumentFailed
<1>4. pc' = "docFailed" => FileFailed
  BY <1>1 DEF Process, MarkProcessing, ReadBlob, FindOrCreateDocument, MarkDocument,
         Extract, ClearChunks, InsertChunks, DocumentReady, FileReady, FileFailed, DocumentFailed
<1>5. faults = 0 /\ FileFailed => status'[g] = "failed"
  BY <1>1, <1>2 DEF FileFailed, QueueInv, SavedStatus
<1>6. pc' = "idle" => FileReady \/ DocumentFailed
  BY <1>1 DEF Process, MarkProcessing, ReadBlob, FindOrCreateDocument, MarkDocument,
         Extract, ClearChunks, InsertChunks, DocumentReady, FileReady, FileFailed, DocumentFailed
<1>7. FileReady => status'[g] = "ready" BY <1>1, <1>2 DEF FileReady
<1>8. DocumentFailed => pc = "docFailed" /\ status' = status BY DEF DocumentFailed
<1>9. ASSUME mode' = "up", faults' = 0, NEW f \in Files, Unfinished(f)'
      PROVE  tickets'[f] > 0 \/ OnFile(f)'
  <2>1. CASE f # g
    BY <1>1, <1>9, <2>1 DEF QueueInv, PendingIsQueued, Unfinished, OnFile
  <2>2. CASE f = g /\ pc' # "idle" BY <1>1, <2>2 DEF OnFile
  <2>3. CASE f = g /\ pc' = "idle"
    BY <1>1, <1>6, <1>7, <1>8, <1>9, <2>3 DEF QueueInv, Unfinished
  <2> QED BY <2>1, <2>2, <2>3
<1>10. ASSUME mode' = "up", faults' = 0, pc' = "docFailed"
       PROVE  tickets'[job'.file] > 0 \/ ~Unfinished(g)'
  BY <1>1, <1>4, <1>5, <1>10 DEF Unfinished
<1>11. faults' = 0 /\ mode' = "up" /\ pc' = "docFailed" =>
         tickets'[job'.file] > 0 \/ ~(row'[job'.file] = "live" /\ status'[job'.file] \in {"pending", "processing"})
  BY <1>1, <1>10 DEF Unfinished
<1> QED BY <1>1, <1>3, <1>9, <1>11 DEF QueueInv, PendingIsQueued, Unfinished

LEMMA StartKeepsQueue ==
  ASSUME TypeInv, QueueInv, NEW f \in Files, Start(f) PROVE QueueInv'
<1>1. UNCHANGED <<row, status, mode, faults>> /\ pc = "idle" BY DEF Start, tables, counters
<1>2. /\ tickets \in [Files -> Nat]
      /\ \A g \in Files : g # f => tickets'[g] = tickets[g]
      /\ \/ pc' = "mark" /\ job'.file = f
         \/ UNCHANGED <<pc, job>> /\ (row[f] # "live" \/ status[f] = "ready")
  BY DEF Start, TypeInv, TypeOK, worker
<1>3. ASSUME mode' = "up", faults' = 0, NEW g \in Files, Unfinished(g)'
      PROVE  tickets'[g] > 0 \/ OnFile(g)'
  <2>1. tickets[g] > 0 BY <1>1, <1>3 DEF QueueInv, PendingIsQueued, Unfinished, OnFile
  <2>2. CASE g # f BY <1>2, <2>1, <2>2
  <2>3. CASE g = f BY <1>1, <1>2, <1>3, <2>3 DEF Unfinished, OnFile
  <2> QED BY <2>2, <2>3
<1>4. pc' \in {"idle", "mark"} BY <1>1, <1>2
<1> QED BY <1>3, <1>4 DEF QueueInv, PendingIsQueued

LEMMA ApiKeepsQueue == TypeInv /\ QueueInv /\ Api => QueueInv'
<1> SUFFICES ASSUME TypeInv, QueueInv, Api PROVE QueueInv' OBVIOUS
<1>1. /\ row \in [Files -> {"absent", "live", "deleted"}] /\ status \in [Files -> Statuses]
      /\ tickets \in [Files -> Nat] /\ faults \in Nat
  BY DEF TypeInv, TypeOK
<1>2. PICK c \in Clients :
         \/ FinishUpload(c) \/ FinishReprocess(c)
         \/ RemoveDocument(c) \/ RemoveBlob(c) \/ RemoveRow(c)
         \/ \E f \in Files : StartUpload(c, f) \/ StartReprocess(c, f) \/ RemoveChunks(c, f)
  BY DEF Api
<1>3. client[c].op # "idle" => client[c].file \in Files BY Typed DEF TypeInv, HandlerOK
<1>4. /\ UNCHANGED <<pc, job, mode>> /\ (faults' = 0 => faults = 0)
      /\ \A f \in Files : tickets'[f] >= tickets[f]
      /\ \A f \in Files : mode = "up" /\ Unfinished(f)' => Unfinished(f) \/ tickets'[f] > 0
  <2>1. CASE FinishUpload(c) \/ FinishReprocess(c)
    <3> DEFINE f == client[c].file
    <3>1. f \in Files BY <1>3, <2>1 DEF FinishUpload, FinishReprocess
    <3>2. /\ Enqueued(f) \in [Files -> Nat] /\ \A g \in Files : Enqueued(f)[g] >= tickets[g]
          /\ mode = "up" => Enqueued(f)[f] > 0
      BY <3>1, EnqueuedTyped DEF TypeInv
    <3>3. /\ UNCHANGED <<pc, job, mode>> /\ (faults' = 0 => faults = 0)
          /\ \/ tickets' = Enqueued(f)
             \/ UNCHANGED <<row, status, tickets>>
          /\ \A g \in Files : g # f => row'[g] = row[g] /\ status'[g] = status[g]
      BY <1>1, <2>1, <3>1 DEF FinishUpload, FinishReprocess, worker, counters
    <3> QED BY <1>1, <3>1, <3>2, <3>3 DEF Unfinished
  <2>2. CASE RemoveDocument(c) \/ RemoveBlob(c) \/ RemoveRow(c)
    <3>1. UNCHANGED <<pc, job, mode, faults, tickets, status>>
      BY <2>2 DEF RemoveDocument, RemoveBlob, RemoveRow, worker, counters
    <3>2. \A f \in Files : row'[f] = "live" => row[f] = "live"
      BY <1>1, <1>3, <2>2 DEF RemoveDocument, RemoveBlob, RemoveRow
    <3> QED BY <1>1, <3>1, <3>2 DEF Unfinished
  <2>3. ASSUME NEW f \in Files, StartUpload(c, f) \/ StartReprocess(c, f) \/ RemoveChunks(c, f)
        PROVE  UNCHANGED <<pc, job, mode, faults, tickets, status, row>>
    BY <2>3 DEF StartUpload, StartReprocess, RemoveChunks, Begin, worker, tables
  <2>4. CASE UNCHANGED <<pc, job, mode, faults, tickets, status, row>>
    BY <1>1, <2>4 DEF Unfinished
  <2> QED BY <1>2, <2>1, <2>2, <2>3, <2>4
<1>5. tickets' \in [Files -> Nat]
  <2>1. TypeInv' BY BeginKeepsTypes, ContinueKeepsTypes DEF Api
  <2> QED BY <2>1 DEF TypeInv, TypeOK
<1>6. ASSUME mode' = "up", faults' = 0, NEW f \in Files, Unfinished(f)'
      PROVE  tickets'[f] > 0 \/ OnFile(f)'
  BY <1>1, <1>4, <1>5, <1>6 DEF QueueInv, PendingIsQueued, OnFile
<1>7. ASSUME mode' = "up", faults' = 0, pc' = "docFailed"
      PROVE  tickets'[job'.file] > 0 \/ ~Unfinished(job.file)'
  <2>1. job.file \in Files BY <1>4, <1>7, Typed DEF TypeInv
  <2> QED BY <1>1, <1>4, <1>5, <1>7, <2>1 DEF QueueInv
<1>8. faults' = 0 /\ mode' = "up" /\ pc' = "docFailed" =>
        tickets'[job'.file] > 0 \/ ~(row'[job'.file] = "live" /\ status'[job'.file] \in {"pending", "processing"})
  BY <1>4, <1>7 DEF Unfinished
<1> QED BY <1>4, <1>6, <1>8 DEF QueueInv, PendingIsQueued, Unfinished

(* Recovery enqueues the whole backlog when it fits.                       *)
LEMMA RecoverFindsAll ==
  ASSUME TypeInv, BacklogFits, Recover, NEW f \in Files, Unfinished(f)
  PROVE  tickets'[f] > 0
<1> DEFINE backlog == { g \in Files : Unfinished(g) }
<1>1. IsFiniteSet(backlog) /\ Cardinality(backlog) <= RecoverLimit BY DEF BacklogFits, Recover
<1>2. PICK found \in SUBSET backlog :
        /\ Cardinality(found) = RecoverLimit \/ found = backlog
        /\ tickets' = [g \in Files |-> IF g \in found THEN 1 ELSE 0]
  BY DEF Recover
<1>3. found = backlog
  <2>1. CASE Cardinality(found) = RecoverLimit
    <3> HIDE DEF backlog
    <3>1. /\ IsFiniteSet(found) /\ Cardinality(found) \in Nat /\ Cardinality(backlog) \in Nat
          /\ Cardinality(found) <= Cardinality(backlog)
          /\ Cardinality(found) = Cardinality(backlog) => found = backlog
      BY <1>1, FS_Subset, FS_CardinalityType
    <3>2. RecoverLimit \in Nat BY DocumentAssumption
    <3> QED BY <1>1, <2>1, <3>1, <3>2
  <2> QED BY <1>2, <2>1
<1> QED BY <1>2, <1>3

LEMMA QueueStays == TypeInv /\ QueueInv /\ BacklogFits /\ [Next]_vars => QueueInv'
<1> SUFFICES ASSUME TypeInv, QueueInv, BacklogFits, [Next]_vars PROVE QueueInv' OBVIOUS
<1>1. faults \in Nat BY DEF TypeInv, TypeOK
<1>2. CASE DatabaseFault
  BY <1>1, <1>2 DEF DatabaseFault, QueueInv, PendingIsQueued
<1>3. CASE Crash \/ Shutdown \/ Exit
  <2>1. mode' # "up" /\ faults' = faults BY <1>3 DEF Crash, Shutdown, Exit, Gone, counters
  <2>2. pc' = "idle" \/ UNCHANGED <<pc, job>> BY <1>3 DEF Crash, Shutdown, Exit, Gone, worker
  <2> QED BY <2>1, <2>2 DEF QueueInv, PendingIsQueued
<1>4. CASE Recover
  <2>1. pc = "idle" /\ UNCHANGED <<row, status, pc, job, faults>>
    BY <1>4 DEF Recover, tables, worker, counters, TypeInv, TypeOK
  <2>2. \A f \in Files : Unfinished(f)' => Unfinished(f) BY <2>1 DEF Unfinished
  <2> QED BY <1>4, <2>1, <2>2, RecoverFindsAll DEF QueueInv, PendingIsQueued
<1>5. ASSUME NEW c \in Clients, HandlerFault(c) PROVE QueueInv'
  BY <1>1, <1>5 DEF HandlerFault, QueueInv, PendingIsQueued
<1>6. CASE UNCHANGED vars
  BY <1>6 DEF vars, QueueInv, PendingIsQueued, Unfinished, OnFile
<1> QED BY <1>2, <1>3, <1>4, <1>5, <1>6, ProcessKeepsQueue, StartKeepsQueue, ApiKeepsQueue
    DEF Next, Environment

(* A file that waits for processing is waited for, while the process is up *)
(* and no statement has failed: it has a ticket or the worker is on it, if *)
(* no restart finds a longer backlog than onModuleInit() enqueues.         *)
THEOREM WaitingFilesQueued == Spec /\ []BacklogFits => []PendingIsQueued
<1>1. Init => QueueInv BY DEF Init, QueueInv, PendingIsQueued
<1>2. QueueInv => PendingIsQueued BY DEF QueueInv
<1>3. Spec => []TypeInv BY TypeInvHolds
<1> QED BY <1>1, <1>2, <1>3, QueueStays, PTL DEF Spec

(* In particular if there are no more files than it enqueues.              *)
THEOREM FewFilesQueued ==
  ASSUME IsFiniteSet(Files), Cardinality(Files) <= RecoverLimit
  PROVE  Spec => []PendingIsQueued
<1>1. BacklogFits
  <2> DEFINE backlog == { f \in Files : Unfinished(f) }
  <2>1. backlog \subseteq Files OBVIOUS
  <2> HIDE DEF backlog
  <2>2. /\ IsFiniteSet(backlog) /\ Cardinality(backlog) \in Nat /\ Cardinality(Files) \in Nat
        /\ Cardinality(backlog) <= Cardinality(Files)
    BY <2>1, FS_Subset, FS_CardinalityType
  <2>3. RecoverLimit \in Nat BY DocumentAssumption
  <2>4. Cardinality(backlog) <= RecoverLimit BY <2>2, <2>3
  <2> QED BY <2>2, <2>4 DEF BacklogFits, backlog
<1> QED BY <1>1, WaitingFilesQueued, PTL

=============================================================================
