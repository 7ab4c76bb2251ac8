---------------------------- MODULE S3WriteActor ----------------------------
(***************************************************************************)
(* The S3 sink of ydb/library/yql/providers/s3/actors/                     *)
(* yql_s3_write_actor.cpp: TS3WriteActor (the "parent", an async output of *)
(* a compute actor) and the TS3FileWriteActors it registers, one per       *)
(* output object, in the same mailbox.  A file writer uploads its object   *)
(* in one PUT (singlepart) or as a multipart upload: create the upload,    *)
(* upload every part, then complete it with the list of part ETags.  The   *)
(* HTTP gateway runs requests concurrently and calls back from its own     *)
(* threads; the callbacks turn results into events sent to the writer or   *)
(* to the parent, so events of different requests arrive in any order.    *)
(*                                                                         *)
(* Data is abstracted to rows: a row has a partition key and a value that  *)
(* is present or NULL.  The compressor queue (IOutputQueue, not in this    *)
(* source) is abstracted to a count of complete parts and a "tail" of      *)
(* buffered data: with QueueHoldsTail a pushed row completes the previous  *)
(* tail and becomes the new tail, which only Seal turns into a part; else  *)
(* every pushed row is a complete part at once.                            *)
(***************************************************************************)
EXTENDS Naturals, Sequences, FiniteSets

CONSTANTS
  Keys,           \* partition keys (one key: no partitioning)
  Writers,        \* identities available for TS3FileWriteActors
  MaxRows,        \* bound on rows passed to SendData
  MaxBatch,       \* bound on rows of one SendData call
  QueueHoldsTail  \* the queue keeps its last part until it is sealed

VARIABLES
  multipart,      \* the sink's Multipart setting
  fw,             \* fw[a]: state of file writer a
  writers,        \* FileWriteActors: key -> writers, oldest first
  finished,       \* TS3WriteActor::Finished
  finishedCalls,  \* calls of Callbacks->OnAsyncOutputFinished
  errorCalls,     \* calls of Callbacks->OnAsyncOutputError
  parentDead,     \* TS3WriteActor::PassAway has run
  http,           \* gateway requests whose callback has not run yet
  msgs,           \* events sent and not yet received
  rows,           \* rows passed to SendData so far
  uploaded,       \* writers whose object was completed on S3 (history)
  unexpected      \* an event reached a state function without a handler

vars == <<multipart, fw, writers, finished, finishedCalls, errorCalls,
          parentDead, http, msgs, rows, uploaded, unexpected>>

(***************************************************************************)
(* File writer states: "none" (not registered), "unboot" (registered,      *)
(* Bootstrap not run yet), the three state functions "initial"             *)
(* (MultipartInitialStateFunc), "mpWorking", "spWorking", "committed"     *)
(* (Become(nullptr) in CommitUploadedParts) and "dead" (PassAway).         *)
(***************************************************************************)
States == {"none", "unboot", "initial", "mpWorking", "spWorking",
           "committed", "dead"}

NoWriter == [key |-> CHOOSE k \in Keys : TRUE, st |-> "none", parts |-> 0,
             tail |-> FALSE, sealed |-> FALSE, inFlight |-> 0, sent |-> 0,
             tags |-> {}, uploadId |-> FALSE]

(* A request of the gateway: what it uploads, for which writer, part index. *)
Req(kind, a, i) == [kind |-> kind, actor |-> a, idx |-> i]
(* An event: its type, the writer it is about, and a distinguishing index. *)
Ev(type, a, i) == [type |-> type, actor |-> a, idx |-> i]
ToWriter == {"UploadStarted", "UploadPartFinished", "UploadFinishedSelf"}

(***************************************************************************)
(* The compressor queue of a writer (Parts).                               *)
(***************************************************************************)
QSize(w) == w.parts + (IF w.tail THEN 1 ELSE 0)
QEmpty(w) == QSize(w) = 0

Push(w) ==
  IF QueueHoldsTail
    THEN [w EXCEPT !.parts = @ + (IF w.tail THEN 1 ELSE 0), !.tail = TRUE]
    ELSE [w EXCEPT !.parts = @ + 1]

Seal(w) ==
  [w EXCEPT !.sealed = TRUE, !.parts = @ + (IF w.tail THEN 1 ELSE 0),
            !.tail = FALSE]

(***************************************************************************)
(* Writer operations return the new writer and the gateway requests made.  *)
(***************************************************************************)
Eff(w, reqs) == [w |-> w, reqs |-> reqs]

(* Mutant: the popped parts are not counted in InFlight. *)
StartUploadPartsNoInFlight(a, w) ==
  Eff([w EXCEPT !.parts = 0, !.sent = @ + w.parts],
      {Req("part", a, i) : i \in w.sent .. (w.sent + w.parts - 1)})

(* StartUploadParts: pop every available part; part i goes out as index i. *)
StartUploadParts(a, w) ==
  Eff([w EXCEPT !.parts = 0, !.sent = @ + w.parts, !.inFlight = @ + w.parts],
      {Req("part", a, i) : i \in w.sent .. (w.sent + w.parts - 1)})

(* CommitUploadedParts: Become(nullptr) and complete the upload. *)
CommitUploadedParts(a, w) ==
  Eff([w EXCEPT !.st = "committed"], {Req("complete", a, 0)})

(* Go: upload what is ready once the upload id is known. *)
Go(a, w) == IF w.uploadId THEN StartUploadParts(a, w) ELSE Eff(w, {})

(* Finish: seal, then upload the rest, or complete if all is uploaded. *)
Finish(a, w) ==
  LET s == Seal(w) IN
  IF w.sealed THEN Eff(w, {})
  ELSE IF ~s.uploadId THEN Eff(s, {})
  ELSE IF ~QEmpty(s) THEN StartUploadParts(a, s)
  ELSE IF s.inFlight = 0 THEN CommitUploadedParts(a, s)
  ELSE Eff(s, {})

(***************************************************************************)
(* SendData, row by row: the writer of the row's key is the last one,      *)
(* unless there is none or it is finishing (sealed); then a new writer is  *)
(* registered.  A present value is added; a NULL value, or any row when    *)
(* not multipart, seals the writer.                                        *)
(***************************************************************************)
FreeWriter(f) == CHOOSE a \in Writers : f[a].st = "none"

NewWriter(k) == [NoWriter EXCEPT !.key = k, !.st = "unboot"]

AddRow(S, row) ==
  LET ws == S.writers[row.key]
      new == ws = <<>> \/ S.fw[ws[Len(ws)]].sealed
      a == IF new THEN FreeWriter(S.fw) ELSE ws[Len(ws)]
      w0 == IF new THEN NewWriter(row.key) ELSE S.fw[a]
      w1 == IF row.null THEN w0 ELSE Push(w0)
      w2 == IF ~multipart \/ row.null THEN Seal(w1) ELSE w1
  IN [fw |-> [S.fw EXCEPT ![a] = w2],
      writers |-> IF new THEN [S.writers EXCEPT ![row.key] = Append(ws, a)]
                         ELSE S.writers,
      processed |-> S.processed \cup {a}]

RECURSIVE AddRows(_, _)
AddRows(S, batch) ==
  IF batch = <<>> THEN S ELSE AddRows(AddRow(S, Head(batch)), Tail(batch))

(* Apply op(a, w) to each writer a of set as, collecting requests. *)
RECURSIVE ForEachWriter(_, _, _, _)
ForEachWriter(Op(_, _), as, f, reqs) ==
  IF as = {} THEN [fw |-> f, reqs |-> reqs]
  ELSE LET a == CHOOSE x \in as : TRUE
           e == Op(a, f[a])
       IN ForEachWriter(Op, as \ {a}, [f EXCEPT ![a] = e.w], reqs \cup e.reqs)

Last(s) == s[Len(s)]
LastWriters(ws) == {Last(ws[k]) : k \in {k \in Keys : ws[k] # <<>>}}

(* Mutant: the owner is notified without SendData having said finished. *)
FinishIfNeededNoFlag(ws, fin) ==
  finishedCalls' = finishedCalls + (IF \A k \in Keys : ws[k] = <<>> THEN 1 ELSE 0)

(* FinishIfNeeded: notify the owner once nothing is left and Finished. *)
FinishIfNeeded(ws, fin) ==
  finishedCalls' = finishedCalls +
                   (IF fin /\ \A k \in Keys : ws[k] = <<>> THEN 1 ELSE 0)

Rows == [key : Keys, null : BOOLEAN]
Batches == UNION {[1 .. n -> Rows] : n \in 0 .. MaxBatch}

(***************************************************************************)
(* TS3WriteActor::SendData(data, finished): add the rows, Go on every      *)
(* writer that got a row, and when finished: Finish the last writer of     *)
(* every key, set Finished and FinishIfNeeded.                             *)
(***************************************************************************)
SendData(batch, fin) ==
  LET S == AddRows([fw |-> fw, writers |-> writers, processed |-> {}], batch)
      G == ForEachWriter(Go, S.processed, S.fw, {})
      F == IF fin THEN ForEachWriter(Finish, LastWriters(S.writers), G.fw, {})
                  ELSE [fw |-> G.fw, reqs |-> {}]
  IN
  /\ ~finished
  /\ ~parentDead
  /\ batch # <<>> \/ fin
  /\ rows + Len(batch) <= MaxRows
  /\ Cardinality({a \in Writers : fw[a].st = "none"}) >= Len(batch)
  /\ rows' = rows + Len(batch)
  /\ writers' = S.writers
  /\ fw' = F.fw
  /\ http' = http \cup G.reqs \cup F.reqs
  /\ finished' = fin
  /\ FinishIfNeeded(S.writers, fin)
  /\ UNCHANGED <<multipart, errorCalls, parentDead, msgs, uploaded, unexpected>>

(***************************************************************************)
(* TS3FileWriteActor::Bootstrap: a sealed queue of at most one part is     *)
(* uploaded in one PUT (its size counted in flight even when empty); else  *)
(* a multipart upload is created.                                          *)
(***************************************************************************)
Bootstrap(a) ==
  LET w == fw[a] IN
  /\ w.st = "unboot"
  /\ IF w.sealed /\ QSize(w) <= 1
       THEN /\ fw' = [fw EXCEPT ![a] = [w EXCEPT !.st = "spWorking",
                                          !.inFlight = @ + 1,
                                          !.parts = IF @ > 0 THEN @ - 1 ELSE 0]]
            /\ http' = http \cup {Req("single", a, 0)}
       ELSE /\ fw' = [fw EXCEPT ![a].st = "initial"]
            /\ http' = http \cup {Req("create", a, 0)}
  /\ UNCHANGED <<multipart, writers, finished, finishedCalls, errorCalls,
                 parentDead, msgs, rows, uploaded, unexpected>>

(***************************************************************************)
(* A gateway callback (OnUploadsCreated, OnPartUploadFinish,               *)
(* OnUploadFinish, OnMultipartUploadFinish) runs for request r.  Retries   *)
(* happen inside the gateway; what reaches the callback is a success or a  *)
(* failure (transport issues, an S3 Error document, a bad response).       *)
(***************************************************************************)
GatewayCallback(r) ==
  LET a == r.actor IN
  /\ r \in http
  /\ http' = http \ {r}
  /\ \/ /\ msgs' = msgs \cup {Ev("UploadError", a, r.idx + 1)}
        /\ UNCHANGED uploaded
     \/ /\ r.kind = "create"
        /\ msgs' = msgs \cup {Ev("UploadStarted", a, 0)}
        /\ UNCHANGED uploaded
     \/ /\ r.kind = "part"
        /\ msgs' = msgs \cup {Ev("UploadPartFinished", a, r.idx)}
        /\ UNCHANGED uploaded
     \/ /\ r.kind = "single"
        /\ msgs' = msgs \cup {Ev("UploadFinishedSelf", a, 0),
                              Ev("UploadFinished", a, 0)}
        /\ uploaded' = uploaded \cup {a}
     \/ /\ r.kind = "complete"
        /\ msgs' = msgs \cup {Ev("UploadFinished", a, 0)}
        /\ uploaded' = uploaded \cup {a}
  /\ UNCHANGED <<multipart, fw, writers, finished, finishedCalls, errorCalls,
                 parentDead, rows, unexpected>>

(* The state function of state st has a handler for events of type t. *)
Handles(st, t) ==
  \/ st = "initial" /\ t = "UploadStarted"
  \/ st = "mpWorking" /\ t = "UploadPartFinished"
  \/ st = "spWorking" /\ t = "UploadFinishedSelf"

(* Mutant: the writer stays in MultipartInitialStateFunc. *)
OnUploadStartedNoBecome(a, w) ==
  StartUploadParts(a, [w EXCEPT !.uploadId = TRUE])

(* Handle(TEvUploadStarted): keep the upload id, start uploading parts. *)
OnUploadStarted(a, w) ==
  StartUploadParts(a, [w EXCEPT !.uploadId = TRUE, !.st = "mpWorking"])

(* Mutant: the upload is completed without waiting for the other parts. *)
OnPartFinishedEarly(a, w, i) ==
  LET v == [w EXCEPT !.inFlight = @ - 1, !.tags = @ \cup {i}] IN
  IF v.sealed /\ QEmpty(v) THEN CommitUploadedParts(a, v)
                                 ELSE Eff(v, {})

(* Handle(TEvUploadPartFinished): record the ETag; complete when all done. *)
OnPartFinished(a, w, i) ==
  LET v == [w EXCEPT !.inFlight = @ - 1, !.tags = @ \cup {i}] IN
  IF v.inFlight = 0 /\ v.sealed /\ QEmpty(v) THEN CommitUploadedParts(a, v)
                                             ELSE Eff(v, {})

(* Handle(TEvUploadFinished) of the file writer (singlepart). *)
OnSelfFinished(a, w) == Eff([w EXCEPT !.inFlight = @ - 1], {})

(***************************************************************************)
(* An event addressed to file writer a is received.  A dead writer's       *)
(* events are dropped; one its state function has no handler for is       *)
(* recorded in unexpected (STRICT_STFUNC) and dropped.                     *)
(***************************************************************************)
WriterReceive(m) ==
  LET a == m.actor
      w == fw[a]
      e == CASE m.type = "UploadStarted"      -> OnUploadStarted(a, w)
             [] m.type = "UploadPartFinished" -> OnPartFinished(a, w, m.idx)
             [] m.type = "UploadFinishedSelf" -> OnSelfFinished(a, w)
  IN
  /\ m \in msgs
  /\ m.type \in ToWriter
  /\ msgs' = msgs \ {m}
  /\ IF w.st # "dead" /\ Handles(w.st, m.type)
       THEN /\ fw' = [fw EXCEPT ![a] = e.w]
            /\ http' = http \cup e.reqs
            /\ UNCHANGED unexpected
       ELSE /\ unexpected' = (unexpected \/ w.st # "dead")
            /\ UNCHANGED <<fw, http>>
  /\ UNCHANGED <<multipart, writers, finished, finishedCalls, errorCalls,
                 parentDead, rows, uploaded>>

(* Mutant: FinishIfNeeded is not called after an upload finished. *)
OnUploadFinishedNoNotify(a) ==
  LET k == fw[a].key
      found == \E i \in 1 .. Len(writers[k]) : writers[k][i] = a
  IN
  /\ writers' = [writers EXCEPT ![k] = SelectSeq(@, LAMBDA x : x # a)]
  /\ fw' = IF found THEN [fw EXCEPT ![a].st = "dead"] ELSE fw
  /\ UNCHANGED <<errorCalls, finishedCalls>>

(***************************************************************************)
(* TS3WriteActor::Handle(TEvUploadFinished): if the writer is still in     *)
(* FileWriteActors under its key, PassAway it and erase it (the key with   *)
(* it when no writer is left); then FinishIfNeeded.                        *)
(***************************************************************************)
OnUploadFinished(a) ==
  LET k == fw[a].key
      found == \E i \in 1 .. Len(writers[k]) : writers[k][i] = a
      ws == [writers EXCEPT ![k] = SelectSeq(@, LAMBDA x : x # a)]
  IN
  /\ writers' = ws
  /\ fw' = IF found THEN [fw EXCEPT ![a].st = "dead"] ELSE fw
  /\ FinishIfNeeded(ws, finished)
  /\ UNCHANGED errorCalls

(* TS3WriteActor::Handle(TEvUploadError): report to the compute actor. *)
OnUploadError ==
  /\ errorCalls' = errorCalls + 1
  /\ UNCHANGED <<fw, writers, finishedCalls>>

ParentReceive(m) ==
  /\ m \in msgs
  /\ m.type \notin ToWriter
  /\ msgs' = msgs \ {m}
  /\ IF parentDead
       THEN UNCHANGED <<fw, writers, finishedCalls, errorCalls>>
       ELSE IF m.type = "UploadFinished" THEN OnUploadFinished(m.actor)
                                         ELSE OnUploadError
  /\ UNCHANGED <<multipart, finished, parentDead, http, rows, uploaded,
                 unexpected>>

(* TS3FileWriteActor::PassAway: the writer dies whether or not its parts *)
(* and in-flight uploads are done (that case is only logged).            *)
FileWriterPassAway(w) == [w EXCEPT !.st = "dead"]

(***************************************************************************)
(* TS3WriteActor::PassAway, called by the compute actor (after an error,   *)
(* after the output finished, or on cancellation): PassAway every writer   *)
(* still in FileWriteActors and clear it.                                  *)
(***************************************************************************)
ParentPassAway ==
  LET live == {a \in Writers :
                \E k \in Keys : \E i \in 1 .. Len(writers[k]) : writers[k][i] = a}
  IN
  /\ ~parentDead
  /\ parentDead' = TRUE
  /\ fw' = [a \in Writers |-> IF a \in live THEN FileWriterPassAway(fw[a])
                                            ELSE fw[a]]
  /\ writers' = [k \in Keys |-> <<>>]
  /\ UNCHANGED <<multipart, finished, finishedCalls, errorCalls, http, msgs,
                 rows, uploaded, unexpected>>

(* The sink is gone and no callback or event is left: nothing happens. *)
Done ==
  /\ parentDead /\ http = {} /\ msgs = {}
  /\ UNCHANGED vars

Init ==
  /\ multipart \in BOOLEAN
  /\ fw = [a \in Writers |-> NoWriter]
  /\ writers = [k \in Keys |-> <<>>]
  /\ finished = FALSE
  /\ finishedCalls = 0
  /\ errorCalls = 0
  /\ parentDead = FALSE
  /\ http = {}
  /\ msgs = {}
  /\ rows = 0
  /\ uploaded = {}
  /\ unexpected = FALSE

Next ==
  \/ \E batch \in Batches, fin \in BOOLEAN : SendData(batch, fin)
  \/ \E a \in Writers : Bootstrap(a)
  \/ \E r \in http : GatewayCallback(r)
  \/ \E m \in msgs : WriterReceive(m)
  \/ \E m \in msgs : ParentReceive(m)
  \/ ParentPassAway
  \/ Done

(***************************************************************************)
(* The actor system delivers every event and runs every Bootstrap; the     *)
(* gateway eventually calls back every request (with success or failure). *)
(* Each of these consumes one of finitely many pending items, so weak      *)
(* fairness of each kind of step drains them all.  The compute actor's    *)
(* calls (SendData, PassAway) are not fair.                                *)
(***************************************************************************)
Fairness ==
  /\ WF_vars(\E a \in Writers : Bootstrap(a))
  /\ WF_vars(\E r \in http : GatewayCallback(r))
  /\ WF_vars(\E m \in msgs : WriterReceive(m))
  /\ WF_vars(\E m \in msgs : ParentReceive(m))

Spec == Init /\ [][Next]_vars /\ Fairness

Created == {a \in Writers : fw[a].st # "none"}

TypeOK ==
  /\ multipart \in BOOLEAN
  /\ fw \in [Writers -> [key : Keys, st : States, parts : 0 .. MaxRows,
                          tail : BOOLEAN, sealed : BOOLEAN,
                          inFlight : 0 .. MaxRows, sent : 0 .. MaxRows,
                          tags : SUBSET (0 .. MaxRows), uploadId : BOOLEAN]]
  /\ writers \in [Keys -> Seq(Writers)]
  /\ finished \in BOOLEAN
  /\ finishedCalls \in Nat /\ errorCalls \in Nat
  /\ parentDead \in BOOLEAN
  /\ rows \in 0 .. MaxRows
  /\ uploaded \subseteq Created
  /\ unexpected \in BOOLEAN

(***************************************************************************)
(* Every event a file writer receives while alive finds a handler in its  *)
(* current state function (STRICT_STFUNC): Started only in                 *)
(* MultipartInitialStateFunc, part results only after Become(Multipart-    *)
(* WorkingStateFunc), none after CommitUploadedParts' Become(nullptr).     *)
(***************************************************************************)
NoUnexpectedEvent == ~unexpected

(***************************************************************************)
(* Nothing is left behind by a completed object: when CompleteMultipart-   *)
(* Upload is sent, the queue is sealed and empty, no part is in flight and *)
(* every part index sent has its ETag; an object completed in one PUT had *)
(* a sealed queue that the PUT emptied.                                    *)
(***************************************************************************)
NothingLostOnCompletion ==
  /\ \A r \in http :
       r.kind = "complete" =>
         LET w == fw[r.actor] IN
         /\ w.sealed /\ QEmpty(w) /\ w.inFlight = 0
         /\ w.tags = 0 .. (w.sent - 1)
  /\ \A a \in uploaded : fw[a].sealed /\ QEmpty(fw[a])

(***************************************************************************)
(* OnAsyncOutputFinished is called at most once, only after SendData was  *)
(* called with finished, and only when the object of every file writer    *)
(* ever created has been completed on S3.                                  *)
(***************************************************************************)
FinishedOnceAfterAllUploads ==
  /\ finishedCalls <= 1
  /\ finishedCalls = 1 => finished /\ Created \subseteq uploaded

(***************************************************************************)
(* Once SendData was called with finished, the owner is eventually told:  *)
(* the output finished, or an error was reported, or it was torn down.    *)
(***************************************************************************)
OutputFinishes ==
  finished ~> (finishedCalls > 0 \/ errorCalls > 0 \/ parentDead)

=============================================================================
