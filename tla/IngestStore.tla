---------------------------- MODULE IngestStore ----------------------------
(***************************************************************************)
(* The ingest store of src/api/app.py: a directory with one frame file per *)
(* batch and metadata.jsonl, to which one line per batch is appended.      *)
(*                                                                         *)
(* The POST handlers are coroutines that call store_ingest_batch without   *)
(* an await, in the one process the Dockerfile starts: one store runs at a *)
(* time, on the event loop, and no request is dispatched or answered while *)
(* it runs.  The GET handlers are plain functions: they run in the thread  *)
(* pool, beside a store that begins after they were dispatched, and take   *)
(* no lock (_metadata_lock is only taken by append_metadata).              *)
(*                                                                         *)
(* A write reaches the file in pieces: a line that crosses a page of the   *)
(* file becomes visible page by page.  The file is only ever appended to,  *)
(* so what a reader that stops at its end has read is the file at that     *)
(* time, and a missing file reads like an empty one.                       *)
(***************************************************************************)
EXTENDS Integers, Sequences, FiniteSets

CONSTANTS Batches,    \* batch ids; uuid4 makes every id a fresh one
          Readers,    \* threads of the pool
          Limits,     \* values of ?limit=
          MaxFaults,  \* bound: failed writes and crashes of a behaviour
          None        \* no batch

ASSUME NoneAssumption == None \notin Batches \cup Nat
ASSUME LimitsAssumption == Limits \subseteq Nat \ {0}
ASSUME MaxFaultsAssumption == MaxFaults \in Nat

VARIABLES files,    \* the frame file of each batch
          meta,     \* metadata.jsonl, as the pieces written to it
          store,    \* the store in progress
          reader,   \* the GET request of each thread
          acked,    \* the batches whose metadata was returned, in order
          faults    \* faults so far

vars == <<files, meta, store, reader, acked, faults>>

(* A line of the file in three pieces; the text up to "close" is the JSON  *)
(* object, and no proper part of it is one.                                *)
Parts == {"open", "close", "newline"}
Pieces == [batch : Batches, part : Parts]

\* FAULTY: the line is written without its newline.
FaultyLine(b) == <<[batch |-> b, part |-> "open"], [batch |-> b, part |-> "close"]>>

Line(b) == <<[batch |-> b, part |-> "open"],
             [batch |-> b, part |-> "close"],
             [batch |-> b, part |-> "newline"]>>

Idle == [pc |-> "idle", batch |-> None, rest |-> <<>>]
Free == [pc |-> "free", kind |-> "list", arg |-> None, known |-> 0,
         got |-> <<>>, frame |-> "none"]

Init == /\ files = [b \in Batches |-> "none"]
        /\ meta = <<>>
        /\ store = Idle
        /\ reader = [r \in Readers |-> Free]
        /\ acked = <<>>
        /\ faults = 0

----------------------------------------------------------------------------
(* store_ingest_batch.  A batch that does not compress, or does not come   *)
(* back as it was, is refused before anything is written.                  *)

(* The frame's file is created... *)
BeginStore(b) ==
  /\ store = Idle
  /\ files[b] = "none"
  /\ files' = [files EXCEPT ![b] = "part"]
  /\ store' = [pc |-> "frame", batch |-> b, rest |-> <<>>]
  /\ UNCHANGED <<meta, reader, acked, faults>>

\* FAULTY: the frame is left in the buffer of a file that is not closed.
FaultyWriteFrame ==
  /\ store.pc = "frame"
  /\ store' = [store EXCEPT !.pc = "meta", !.rest = Line(store.batch)]
  /\ UNCHANGED <<files, meta, reader, acked, faults>>

(* ... and written and closed; then the metadata file is opened. *)
WriteFrame ==
  /\ store.pc = "frame"
  /\ files' = [files EXCEPT ![store.batch] = "whole"]
  /\ store' = [store EXCEPT !.pc = "meta", !.rest = Line(store.batch)]
  /\ UNCHANGED <<meta, reader, acked, faults>>

(* append_metadata: n more pieces of the line become visible. *)
WriteLine(n) ==
  /\ store.pc = "meta"
  /\ n \in 1..Len(store.rest)
  /\ meta' = meta \o SubSeq(store.rest, 1, n)
  /\ store' = [store EXCEPT !.rest = SubSeq(@, n + 1, Len(@))]
  /\ UNCHANGED <<files, reader, acked, faults>>

\* FAULTY: the answer does not wait for the line to be written out.
FaultyReply ==
  /\ store.pc = "meta"
  /\ acked' = Append(acked, store.batch)
  /\ store' = Idle
  /\ UNCHANGED <<files, meta, reader, faults>>

\* FAULTY: the handler forgets to return the metadata.
SilentReply ==
  /\ store.pc = "meta"
  /\ store.rest = <<>>
  /\ store' = Idle
  /\ UNCHANGED <<files, meta, reader, acked, faults>>

(* The file is closed and the metadata returned to the client. *)
Reply ==
  /\ store.pc = "meta"
  /\ store.rest = <<>>
  /\ acked' = Append(acked, store.batch)
  /\ store' = Idle
  /\ UNCHANGED <<files, meta, reader, faults>>

\* FAULTY: the failed store keeps the lock.
StuckFailStore ==
  /\ store.pc \in {"frame", "meta"}
  /\ faults < MaxFaults
  /\ faults' = faults + 1
  /\ store' = [store EXCEPT !.pc = "failed"]
  /\ UNCHANGED <<files, meta, reader, acked>>

\* FAULTY: the error of the frame's write is swallowed, the batch listed.
FaultyFailStore ==
  /\ store.pc \in {"frame", "meta"}
  /\ faults < MaxFaults
  /\ faults' = faults + 1
  /\ store' = IF store.pc = "meta" THEN Idle
              ELSE [store EXCEPT !.pc = "meta", !.rest = Line(store.batch)]
  /\ UNCHANGED <<files, meta, reader, acked>>

(* A write raises OSError, for instance on a full disk: nothing catches it *)
(* before the client is answered 500, and what was written stays.          *)
FailStore ==
  /\ store.pc \in {"frame", "meta"}
  /\ faults < MaxFaults
  /\ faults' = faults + 1
  /\ store' = Idle
  /\ UNCHANGED <<files, meta, reader, acked>>

(* The process is killed and started again on the same directory. *)
Crash ==
  /\ faults < MaxFaults
  /\ faults' = faults + 1
  /\ store' = Idle
  /\ reader' = [r \in Readers |-> Free]
  /\ UNCHANGED <<files, meta, acked>>

----------------------------------------------------------------------------
(* The GET handlers. *)

(* The lines of a file: what stands between its newlines. *)
LineEnds(f) == {i \in DOMAIN f : f[i].part = "newline"} \cup ({Len(f)} \ {0})
LineStart(f, e) ==
  CHOOSE s \in 1..e : /\ s = 1 \/ f[s - 1].part = "newline"
                      /\ \A i \in s..(e - 1) : f[i].part # "newline"

(* json.loads of one line: the object's two ends and nothing beside them. *)
Parses(f, e) ==
  LET s == LineStart(f, e)
  IN /\ f[s].part = "open"
     /\ e > s
     /\ f[s + 1] = [batch |-> f[s].batch, part |-> "close"]
     /\ e = s + 1 \/ (e = s + 2 /\ f[e].part = "newline")

(* read_metadata raises for the whole file when one line does not parse. *)
Readable(f) == \A e \in LineEnds(f) : Parses(f, e)

(* The entries of a readable file, in its order: one more for every line. *)
Entries(f) ==
  LET upTo[n \in 0..Len(f)] ==
        IF n = 0 THEN <<>>
        ELSE IF f[n].part = "open" THEN Append(upTo[n - 1], f[n].batch)
        ELSE upTo[n - 1]
  IN upTo[Len(f)]

\* FAULTY: entries[:limit]
FaultyLastEntries(s, limit) ==
  IF limit < Len(s) THEN SubSeq(s, 1, limit) ELSE s

(* entries[-limit:] *)
LastEntries(s, limit) ==
  IF limit < Len(s) THEN SubSeq(s, Len(s) - limit + 1, Len(s)) ELSE s

\* FAULTY: only the newest entry is looked at.
FaultyFound(f, b) == LET s == Entries(f) IN s # <<>> /\ s[Len(s)] = b

(* find_metadata *)
Found(f, b) == \E i \in DOMAIN f : f[i] = Line(b)[1]

(* A request is handed to a thread; the loop has to be free for that. *)
BeginRead(r, kind, arg) ==
  /\ reader[r].pc = "free"
  /\ store = Idle
  /\ reader' = [reader EXCEPT ![r] = [Free EXCEPT !.pc = "read", !.kind = kind,
                                        !.arg = arg, !.known = Len(acked)]]
  /\ UNCHANGED <<files, meta, store, acked, faults>>

(* read_metadata, and what the handler makes of its result. *)
ReadMeta(r) ==
  LET q == reader[r]
  IN /\ q.pc = "read"
     /\ reader' = [reader EXCEPT ![r] =
          IF ~Readable(meta) THEN [q EXCEPT !.pc = "500"]
          ELSE IF q.kind = "list"
               THEN [q EXCEPT !.pc = "200", !.got = LastEntries(Entries(meta), q.arg)]
          ELSE IF ~Found(meta, q.arg) THEN [q EXCEPT !.pc = "404"]
          ELSE [q EXCEPT !.pc = IF q.kind = "metadata" THEN "200" ELSE "load"]]
     /\ UNCHANGED <<files, meta, store, acked, faults>>

(* The frame's file is read and, by /decompress, decoded: a frame that is  *)
(* not whole is refused (see ElhFrame).                                    *)
LoadFrame(r) ==
  LET q == reader[r]
      content == files[q.arg]
  IN /\ q.pc = "load"
     /\ reader' = [reader EXCEPT ![r] =
          [q EXCEPT !.frame = content,
                    !.pc = IF content = "none" THEN "404"
                           ELSE IF q.kind = "decompress" /\ content # "whole" THEN "400"
                           ELSE "200"]]
     /\ UNCHANGED <<files, meta, store, acked, faults>>

(* The loop, once free, sends the answer. *)
Answer(r) ==
  /\ reader[r].pc \in {"200", "400", "404", "500"}
  /\ store = Idle
  /\ reader' = [reader EXCEPT ![r] = Free]
  /\ UNCHANGED <<files, meta, store, acked, faults>>

Requests == ({"list"} \X Limits)
            \cup ({"metadata", "compressed", "decompress"} \X Batches)

Next == \/ \E b \in Batches : BeginStore(b)
        \/ WriteFrame
        \/ \E n \in 1..3 : WriteLine(n)
        \/ Reply
        \/ FailStore
        \/ Crash
        \/ \E r \in Readers : \/ \E q \in Requests : BeginRead(r, q[1], q[2])
                              \/ ReadMeta(r)
                              \/ LoadFrame(r)
                              \/ Answer(r)

Spec == Init /\ [][Next]_vars

----------------------------------------------------------------------------
(* The types of the variables: a file is absent, partial or whole, the     *)
(* metadata file is a sequence of pieces, a store and a request are at one *)
(* of their handler's steps.                                               *)
TypeOK ==
  /\ files \in [Batches -> {"none", "part", "whole"}]
  /\ meta \in Seq(Pieces)
  /\ store \in [pc : {"idle", "frame", "meta"}, batch : Batches \cup {None},
                rest : Seq(Pieces)]
  /\ reader \in [Readers ->
       [pc : {"free", "read", "load", "200", "400", "404", "500"},
        kind : {"list", "metadata", "compressed", "decompress"},
        arg : Batches \cup {None} \cup Nat, known : Nat, got : Seq(Batches),
        frame : {"none", "part", "whole"}]]
  /\ acked \in Seq(Batches)
  /\ faults \in 0..MaxFaults

(* A batch of which anything stands in metadata.jsonl has its whole frame  *)
(* on disk, whatever failed or crashed in between (the frame is written    *)
(* and closed before append_metadata, app.py:354-378).                     *)
FrameBeforeMetadata == \A i \in DOMAIN meta : files[meta[i].batch] = "whole"

(* The metadata line of an acknowledged batch is in the file, in one piece *)
(* (app.py:378-379: the file is closed before the handler returns).        *)
AckedRecorded ==
  \A a \in DOMAIN acked : \E i \in 0..(Len(meta) - 3) :
    \A j \in 1..3 : meta[i + j] = Line(acked[a])[j]

(* A listing that is answered 200 shows the newest batches: of those       *)
(* acknowledged before it was asked for it leaves out one only when it is  *)
(* full, and then every one it shows is newer (app.py:309-311).            *)
ListingIsNewest ==
  \A r \in Readers :
    LET q == reader[r]
        shown == {q.got[i] : i \in DOMAIN q.got}
    IN q.pc = "200" /\ q.kind = "list" =>
         \A a \in 1..q.known : acked[a] \in shown \/
           /\ Len(q.got) = q.arg
           /\ \A c \in 1..Len(acked) : acked[c] \in shown => c > a

(* A batch acknowledged before the request came in is never said not to be *)
(* there (find_metadata, app.py:314-318, and the path.exists checks).      *)
NeverMissing ==
  \A r \in Readers : reader[r].pc = "404" =>
    \A a \in 1..reader[r].known : acked[a] # reader[r].arg

(* What /compressed and /decompress answer 200 with is the whole frame of  *)
(* the batch, and no frame that is listed is refused by the decoder        *)
(* (app.py:670-709).                                                       *)
ReplayIsWhole ==
  \A r \in Readers :
    /\ reader[r].pc # "400"
    /\ reader[r].pc = "200" /\ reader[r].kind \in {"compressed", "decompress"}
         => reader[r].frame = "whole"

(* The batches whose line is in the file to its end, and the one among them *)
(* whose store has not returned yet.                                       *)
Recorded == {b \in Batches : \E i \in DOMAIN meta :
                                meta[i] = [batch |-> b, part |-> "newline"]}
Pending == IF store.pc = "meta" /\ store.rest = <<>> THEN store.batch ELSE None
Acked == {acked[i] : i \in DOMAIN acked}

(* A batch that is recorded although its client was never told, so that a  *)
(* retry stores it twice, is the doing of a fault, and each fault leaves   *)
(* at most one (app.py:354-379: nothing else comes between the line and    *)
(* the return).                                                            *)
UnackedForFailure == Cardinality(Recorded \ (Acked \cup {Pending})) <= faults

(* The files implement the abstract record of batches: appending a line    *)
(* piece by piece and returning is recording a batch in one step and       *)
(* acknowledging it, whatever fails (store_ingest_batch, app.py:321-379).  *)
Log == INSTANCE BatchLog WITH recorded <- Recorded, pending <- Pending
AbstractStore == Log!Spec

(* As long as nothing has failed, every line of metadata.jsonl parses      *)
(* between two stores: the lines of the stores do not run together         *)
(* (append_metadata, app.py:292-296).                                      *)
ReadableWithoutFaults == faults = 0 /\ store = Idle => Readable(meta)

(* Between two stores every line of metadata.jsonl parses, so that every   *)
(* batch can be found and replayed (read_metadata, app.py:299-311).        *)
ReadableAtRest == store = Idle => Readable(meta)

(* No request for what is stored fails with 500: the replay README.md      *)
(* promises is there at any time.                                          *)
ReadsSucceed == \A r \in Readers : reader[r].pc # "500"

=============================================================================
