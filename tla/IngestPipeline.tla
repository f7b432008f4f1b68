--------------------------- MODULE IngestPipeline ---------------------------
(***************************************************************************)
(* The durable ingest path of tools/wiretap-server/wiretap-server.py:      *)
(* PostgresWriter (bounded queue self.q, the batching worker thread, the   *)
(* owner's close()) and the SQLite DiskCache the worker spills to.         *)
(*                                                                         *)
(* A queue entry is a natural number: entries are numbered in the order    *)
(* enqueue() is called, so "enqueue order" is the order of the numbers.    *)
(* The SQL store is the sequence db of committed rows.  The process can    *)
(* crash or exit and be restarted: the queue and the worker's locals are   *)
(* lost, the SQLite file and the SQL store persist.                        *)
(***************************************************************************)
EXTENDS Naturals, Sequences, SequencesExt

CONSTANTS
  QueueMax,      \* queue_max: capacity of self.q
  BatchSize,     \* batch_size
  FlushPct,      \* queue_flush_pct: proactive spill threshold, in percent
  CacheMaxRows,  \* DiskCache max_bytes, measured in rows
  MaxEntries,    \* bound: number of frames offered to enqueue()
  MaxOutages,    \* bound: number of times the SQL store goes down
  MaxRestarts,   \* bound: number of process restarts (after a crash or an exit)
  WithShutdown,  \* whether the owner calls close()
  LostAcks,      \* whether a connection may drop between COMMIT and its reply
  Wake           \* the () item close() puts into the queue to wake the worker

ASSUME /\ QueueMax \in Nat \ {0}
       /\ BatchSize \in Nat \ {0}
       /\ FlushPct \in Nat
       /\ CacheMaxRows \in Nat \ {0}
       /\ {MaxEntries, MaxOutages, MaxRestarts} \subseteq Nat
       /\ WithShutdown \in BOOLEAN /\ LostAcks \in BOOLEAN
       /\ Wake \notin Nat

VARIABLES
  q,            \* self.q: entries and Wake items
  wpc,          \* the worker thread's position in _worker()
  batch,        \* the worker's in-flight rows (batch, or remaining at shutdown)
  ids,          \* the DiskCache ids of a batch read from the cache
  conn,         \* self._conn: "none", "ok", or "broken" (the server went away)
  alive,        \* self._alive
  cache,        \* rows of the SQLite table frames, in id order: [id, e]
  cacheNextId,  \* the table's AUTOINCREMENT sequence
  cacheSize,    \* size of the SQLite file, in rows
  cacheOpen,    \* the DiskCache connection is not closed
  db,           \* rows committed to the SQL store, in commit order
  dbUp,         \* the SQL server is reachable
  outages,      \* outages so far
  mpc,          \* the owner: "run", then close(): "join" .. "close_cache"; "exited"
  restarts,     \* restarts so far
  produced,     \* history: entries offered to enqueue() so far (1..produced)
  dropped,      \* history: entries counted in count_dropped
  crashLost     \* history: entries held only in memory when the process crashed

vars == <<q, wpc, batch, ids, conn, alive, cache, cacheNextId, cacheSize,
          cacheOpen, db, dbUp, outages, mpc, restarts, produced, dropped,
          crashLost>>

WorkerPcs == {"loop", "overflow", "connect", "cache", "cache_exec",
              "cache_del", "mem_get", "mem_exec", "fail", "fail_drain",
              "shutdown", "shutdown_exec", "done"}
OwnerPcs == {"run", "join", "check", "emergency", "close_cache", "exited"}
Entries == 1..MaxEntries

-----------------------------------------------------------------------------
(* Helpers *)

\* `item and len(item) == 9`: the rows among queue items, Wake filtered out.
Rows(s) == SelectSeq(s, LAMBDA x : x # Wake)

\* Number of queue items a loop collecting up to batch_size rows takes
\* (the loops of _worker, _drain_queue_to_cache, _emergency_flush_to_disk).
TakeLen(s) ==
  LET full(n) == n = Len(s) \/ Len(Rows(SubSeq(s, 1, n))) = BatchSize
  IN  CHOOSE n \in 0..Len(s) : full(n) /\ \A m \in 0..(n - 1) : ~full(m)

Take(s) == SubSeq(s, 1, TakeLen(s))
Drop(s) == SubSeq(s, TakeLen(s) + 1, Len(s))

\* DiskCache.is_full: the file is as large as the limit.  SQLite reuses the
\* pages a DELETE frees but never shrinks the file, so the size is the most
\* rows the table has held since the file was created.
CacheFull == cacheSize >= CacheMaxRows

CachedEntries == {cache[i].e : i \in DOMAIN cache}

\* DiskCache.write_batch: one transaction appends the rows with fresh
\* AUTOINCREMENT ids.
CacheWriteBatch(rows) ==
  /\ cache' = cache \o [i \in 1..Len(rows) |->
                          [id |-> cacheNextId + i - 1, e |-> rows[i]]]
  /\ cacheNextId' = cacheNextId + Len(rows)
  /\ cacheSize' = IF Len(cache') > cacheSize THEN Len(cache') ELSE cacheSize

\* DiskCache.read_batch(batch_size): the oldest rows, in id order.
CacheReadBatch ==
  SubSeq(cache, 1, IF Len(cache) < BatchSize THEN Len(cache) ELSE BatchSize)

\* DiskCache.delete_batch(ids).  The file keeps its size.
CacheDeleteBatch(delIds) ==
  cache' = SelectSeq(cache, LAMBDA r : r.id \notin ToSet(delIds))

\* _write_to_cache(rows): refuse and count the rows when the cache is
\* full; a closed connection makes write_batch raise, counted the same way.
WriteToCache(rows) ==
  IF ~cacheOpen \/ CacheFull
  THEN /\ dropped' = dropped \cup ToSet(rows)
       /\ UNCHANGED <<cache, cacheNextId, cacheSize>>
  ELSE /\ CacheWriteBatch(rows)
       /\ UNCHANGED dropped

\* One batch of _drain_queue_to_cache / _emergency_flush_to_disk: take up
\* to batch_size rows off the queue and write them to the cache.
SpillHead ==
  /\ q # <<>>
  /\ q' = Drop(q)
  /\ IF Rows(Take(q)) # <<>>
     THEN WriteToCache(Rows(Take(q)))
     ELSE UNCHANGED <<cache, cacheNextId, cacheSize, dropped>>

Running == mpc # "exited"

\* _maybe_flush_queue_overflow: qsize / maxsize >= queue_flush_pct / 100.
OverflowDue == Len(q) * 100 >= FlushPct * QueueMax

-----------------------------------------------------------------------------
Init ==
  /\ q = <<>>
  /\ wpc = "loop"
  /\ batch = <<>>
  /\ ids = <<>>
  /\ conn = "none"
  /\ alive = TRUE
  /\ cache = <<>>
  /\ cacheNextId = 1
  /\ cacheSize = 0
  /\ cacheOpen = TRUE
  /\ db = <<>>
  /\ dbUp = TRUE
  /\ outages = 0
  /\ mpc = "run"
  /\ restarts = 0
  /\ produced = 0
  /\ dropped = {}
  /\ crashLost = {}

-----------------------------------------------------------------------------
(* Producers: the main loop's RX enqueue and the client threads' TX enqueue *)

\* Mutant: an off-by-one in the capacity test.
EnqueueOffByOne(dir) ==
  /\ produced < MaxEntries
  /\ IF dir = "rx" THEN mpc = "run" ELSE Running
  /\ produced' = produced + 1
  /\ IF Len(q) <= QueueMax
     THEN /\ q' = Append(q, produced + 1)
          /\ UNCHANGED dropped
     ELSE /\ dropped' = dropped \cup {produced + 1}
          /\ UNCHANGED q
  /\ UNCHANGED <<wpc, batch, ids, conn, alive, cache, cacheNextId, cacheSize,
                 cacheOpen, db, dbUp, outages, mpc, restarts, crashLost>>

\* enqueue(): put_nowait, or count the drop when the queue is full.  RX
\* frames come from run(), which has returned once close() is called; TX
\* frames come from client threads, which live until the process exits.
Enqueue(dir) ==
  /\ produced < MaxEntries
  /\ IF dir = "rx" THEN mpc = "run" ELSE Running
  /\ produced' = produced + 1
  /\ IF Len(q) < QueueMax
     THEN /\ q' = Append(q, produced + 1)
          /\ UNCHANGED dropped
     ELSE /\ dropped' = dropped \cup {produced + 1}
          /\ UNCHANGED q
  /\ UNCHANGED <<wpc, batch, ids, conn, alive, cache, cacheNextId, cacheSize,
                 cacheOpen, db, dbUp, outages, mpc, restarts, crashLost>>

-----------------------------------------------------------------------------
(* The worker thread, _worker() *)

\* Top of the loop: leave it once close() cleared _alive, otherwise
\* _maybe_flush_queue_overflow decides whether to spill the queue first.
WorkerTop ==
  /\ Running /\ wpc = "loop"
  /\ wpc' = CASE ~alive -> "shutdown"
              [] OverflowDue -> "overflow"
              [] OTHER -> "connect"
  /\ UNCHANGED <<q, batch, ids, conn, alive, cache, cacheNextId, cacheSize,
                 cacheOpen, db, dbUp, outages, mpc, restarts, produced,
                 dropped, crashLost>>

\* _drain_queue_to_cache, called for an overflow or after a failure: one
\* _write_to_cache per step until the queue is empty.
WorkerSpill ==
  /\ Running /\ wpc \in {"overflow", "fail_drain"}
  /\ SpillHead
  /\ UNCHANGED <<wpc, batch, ids, conn, alive, cacheOpen, db, dbUp, outages,
                 mpc, restarts, produced, crashLost>>

\* The queue is empty: go on to connect (overflow), or sleep the backoff
\* and start the next iteration (failure).
WorkerSpillDone ==
  /\ Running /\ wpc \in {"overflow", "fail_drain"}
  /\ q = <<>>
  /\ wpc' = IF wpc = "overflow" THEN "connect" ELSE "loop"
  /\ UNCHANGED <<q, batch, ids, conn, alive, cache, cacheNextId, cacheSize,
                 cacheOpen, db, dbUp, outages, mpc, restarts, produced,
                 dropped, crashLost>>

\* `if not self._conn: self._connect()`; psycopg2.connect raises when the
\* server is unreachable.
WorkerConnect ==
  /\ Running /\ wpc = "connect"
  /\ \/ /\ conn # "none"
        /\ wpc' = "cache"
        /\ UNCHANGED conn
     \/ /\ conn = "none" /\ dbUp
        /\ conn' = "ok"
        /\ wpc' = "cache"
     \/ /\ conn = "none" /\ ~dbUp
        /\ wpc' = "fail"
        /\ UNCHANGED conn
  /\ UNCHANGED <<q, batch, ids, alive, cache, cacheNextId, cacheSize,
                 cacheOpen, db, dbUp, outages, mpc, restarts, produced,
                 dropped, crashLost>>

\* Mutant: the queue is served before the cache whenever it holds rows.
WorkerReadCacheQueueFirst ==
  /\ Running /\ wpc = "cache"
  /\ IF cache # <<>> /\ Rows(q) = <<>>
     THEN LET b == CacheReadBatch
          IN  /\ ids' = [i \in DOMAIN b |-> b[i].id]
              /\ batch' = [i \in DOMAIN b |-> b[i].e]
              /\ wpc' = "cache_exec"
     ELSE /\ wpc' = "mem_get"
          /\ UNCHANGED <<ids, batch>>
  /\ UNCHANGED <<q, conn, alive, cache, cacheNextId, cacheSize, cacheOpen,
                 db, dbUp, outages, mpc, restarts, produced, dropped,
                 crashLost>>

\* Priority 1: a non-empty cache is read oldest-first (read_batch) into
\* batch.  The reset branch after it (close, delete_file, new DiskCache)
\* is reached only when read_batch returns nothing for a cache is_empty()
\* just called non-empty, which a single reader never sees.
WorkerReadCache ==
  /\ Running /\ wpc = "cache"
  /\ IF cache # <<>>
     THEN LET b == CacheReadBatch
          IN  /\ ids' = [i \in DOMAIN b |-> b[i].id]
              /\ batch' = [i \in DOMAIN b |-> b[i].e]
              /\ wpc' = "cache_exec"
     ELSE /\ wpc' = "mem_get"
          /\ UNCHANGED <<ids, batch>>
  /\ UNCHANGED <<q, conn, alive, cache, cacheNextId, cacheSize, cacheOpen,
                 db, dbUp, outages, mpc, restarts, produced, dropped,
                 crashLost>>

\* execute_values + commit; `next' is where the worker goes on success.
\* The server may apply the COMMIT and the connection drop before its
\* reply (an outage): psycopg2 raises although the rows are stored.
Commit(next) ==
  \/ /\ conn = "ok"
     /\ db' = db \o batch
     /\ wpc' = next
     /\ UNCHANGED <<conn, dbUp, outages>>
  \/ /\ conn = "ok" /\ LostAcks /\ outages < MaxOutages
     /\ db' = db \o batch
     /\ wpc' = "fail"
     /\ conn' = "broken" /\ dbUp' = FALSE /\ outages' = outages + 1
  \/ /\ conn # "ok"
     /\ wpc' = "fail"
     /\ UNCHANGED <<db, conn, dbUp, outages>>

\* Commit of the cached batch.
WorkerCacheCommit ==
  /\ Running /\ wpc = "cache_exec"
  /\ Commit("cache_del")
  /\ UNCHANGED <<q, batch, ids, alive, cache, cacheNextId, cacheSize,
                 cacheOpen, mpc, restarts, produced, dropped, crashLost>>

\* delete_batch(ids), then `continue`.
WorkerCacheDelete ==
  /\ Running /\ wpc = "cache_del"
  /\ CacheDeleteBatch(ids)
  /\ wpc' = "loop"
  /\ UNCHANGED <<q, batch, ids, conn, alive, cacheNextId, cacheSize,
                 cacheOpen, db, dbUp, outages, mpc, restarts, produced,
                 dropped, crashLost>>

\* Priority 2: collect up to batch_size rows from the queue; with none,
\* commit the empty transaction ("keep xact fresh").
WorkerTakeQueue ==
  /\ Running /\ wpc = "mem_get"
  /\ batch' = Rows(Take(q))
  /\ q' = Drop(q)
  /\ wpc' = CASE batch' # <<>> -> "mem_exec"
              [] conn = "ok"   -> "loop"
              [] OTHER         -> "fail"
  /\ UNCHANGED <<ids, conn, alive, cache, cacheNextId, cacheSize, cacheOpen,
                 db, dbUp, outages, mpc, restarts, produced, dropped,
                 crashLost>>

\* Commit of the queue batch.
WorkerQueueCommit ==
  /\ Running /\ wpc = "mem_exec"
  /\ Commit("loop")
  /\ UNCHANGED <<q, batch, ids, alive, cache, cacheNextId, cacheSize,
                 cacheOpen, mpc, restarts, produced, dropped, crashLost>>

\* Mutant: the in-flight batch is discarded instead of spilled.
WorkerFailForgetsBatch ==
  /\ Running /\ wpc = "fail"
  /\ conn' = "none"
  /\ batch' = <<>>
  /\ wpc' = "fail_drain"
  /\ UNCHANGED <<q, ids, alive, cache, cacheNextId, cacheSize, cacheOpen,
                 db, dbUp, outages, mpc, restarts, produced, dropped,
                 crashLost>>

\* Mutant: the broken connection is kept, so _connect is never retried.
WorkerFailKeepsConn ==
  /\ Running /\ wpc = "fail"
  /\ IF batch # <<>>
     THEN WriteToCache(batch)
     ELSE UNCHANGED <<cache, cacheNextId, cacheSize, dropped>>
  /\ batch' = <<>>
  /\ wpc' = "fail_drain"
  /\ UNCHANGED <<conn, q, ids, alive, cacheOpen, db, dbUp, outages, mpc,
                 restarts, produced, crashLost>>

\* except: _close_conn, then "cache the batch to disk instead of losing it"
\* (whatever batch holds), then drain the queue (WorkerSpill).
WorkerFail ==
  /\ Running /\ wpc = "fail"
  /\ conn' = "none"
  /\ IF batch # <<>>
     THEN WriteToCache(batch)
     ELSE UNCHANGED <<cache, cacheNextId, cacheSize, dropped>>
  /\ batch' = <<>>
  /\ wpc' = "fail_drain"
  /\ UNCHANGED <<q, ids, alive, cacheOpen, db, dbUp, outages, mpc, restarts,
                 produced, crashLost>>

\* _shutdown_flush: take every row left in the queue.
WorkerShutdownTake ==
  /\ Running /\ wpc = "shutdown"
  /\ batch' = Rows(q)
  /\ q' = <<>>
  /\ IF Rows(q) = <<>>
     THEN /\ conn' = "none"
          /\ wpc' = "done"
     ELSE /\ wpc' = "shutdown_exec"
          /\ UNCHANGED conn
  /\ UNCHANGED <<ids, alive, cache, cacheNextId, cacheSize, cacheOpen, db,
                 dbUp, outages, mpc, restarts, produced, dropped, crashLost>>

\* _shutdown_flush falls back to the cache when there is no connection or
\* the commit raises; the cache is closed afterwards.
ShutdownSpill(rows) ==
  /\ WriteToCache(rows)
  /\ cacheOpen' = FALSE

\* _shutdown_flush: execute + commit when _conn is set.  As in Commit, the
\* server may apply the COMMIT and drop before its reply: the except
\* branch then writes the committed rows to the cache as well.
WorkerShutdownFlush ==
  /\ Running /\ wpc = "shutdown_exec"
  /\ conn' = "none"
  /\ batch' = <<>>
  /\ wpc' = "done"
  /\ \/ /\ conn = "ok"
        /\ db' = db \o batch
        /\ UNCHANGED <<cache, cacheNextId, cacheSize, cacheOpen, dropped,
                       dbUp, outages>>
     \/ /\ conn = "ok" /\ LostAcks /\ outages < MaxOutages
        /\ db' = db \o batch
        /\ dbUp' = FALSE /\ outages' = outages + 1
        /\ ShutdownSpill(batch)
     \/ /\ conn # "ok"
        /\ ShutdownSpill(batch)
        /\ UNCHANGED <<db, dbUp, outages>>
  /\ UNCHANGED <<q, ids, alive, mpc, restarts, produced, crashLost>>

Worker ==
  \/ WorkerTop \/ WorkerSpill \/ WorkerSpillDone \/ WorkerConnect
  \/ WorkerReadCache \/ WorkerCacheCommit \/ WorkerCacheDelete
  \/ WorkerTakeQueue \/ WorkerQueueCommit \/ WorkerFail
  \/ WorkerShutdownTake \/ WorkerShutdownFlush

-----------------------------------------------------------------------------
(* The owner: PostgresWriter.close(), called from main()'s finally clause *)

\* _alive = False, then put_nowait(()) to wake the worker (skipped when
\* the queue is full).
Close ==
  /\ WithShutdown /\ mpc = "run"
  /\ alive' = FALSE
  /\ q' = IF Len(q) < QueueMax THEN Append(q, Wake) ELSE q
  /\ mpc' = "join"
  /\ UNCHANGED <<wpc, batch, ids, conn, cache, cacheNextId, cacheSize,
                 cacheOpen, db, dbUp, outages, restarts, produced, dropped,
                 crashLost>>

\* The worker is inside a call that can outlast the five-second join: a
\* round trip to the SQL server (connect, execute, commit; a server that
\* vanishes mid-call leaves the socket waiting for TCP to give up) or the
\* backoff sleep of up to ten seconds.  The q.get wait (flush_interval,
\* 0.5 s by default) ends before the join does.
WorkerBlocked ==
  \/ wpc = "connect" /\ conn = "none"
  \/ wpc \in {"cache_exec", "mem_exec"}
  \/ wpc = "fail_drain" /\ q = <<>>
  \/ wpc = "shutdown_exec" /\ conn # "none"

\* Mutant: join() without a timeout.
JoinReturnNoTimeout ==
  /\ mpc = "join"
  /\ wpc = "done"
  /\ mpc' = "check"
  /\ UNCHANGED <<q, wpc, batch, ids, conn, alive, cache, cacheNextId,
                 cacheSize, cacheOpen, db, dbUp, outages, restarts, produced,
                 dropped, crashLost>>

\* _thread.join(timeout=5.0) returns when the worker is done, or when the
\* five seconds run out while the worker is blocked.
JoinReturn ==
  /\ mpc = "join"
  /\ wpc = "done" \/ WorkerBlocked
  /\ mpc' = "check"
  /\ UNCHANGED <<q, wpc, batch, ids, conn, alive, cache, cacheNextId,
                 cacheSize, cacheOpen, db, dbUp, outages, restarts, produced,
                 dropped, crashLost>>

\* `if not self.q.empty(): self._emergency_flush_to_disk()`
EmergencyCheck ==
  /\ mpc = "check"
  /\ mpc' = IF q # <<>> THEN "emergency" ELSE "close_cache"
  /\ UNCHANGED <<q, wpc, batch, ids, conn, alive, cache, cacheNextId,
                 cacheSize, cacheOpen, db, dbUp, outages, restarts, produced,
                 dropped, crashLost>>

EmergencySpill ==
  /\ mpc = "emergency"
  /\ SpillHead
  /\ UNCHANGED <<wpc, batch, ids, conn, alive, cacheOpen, db, dbUp, outages,
                 mpc, restarts, produced, crashLost>>

EmergencyDone ==
  /\ mpc = "emergency" /\ q = <<>>
  /\ mpc' = "close_cache"
  /\ UNCHANGED <<q, wpc, batch, ids, conn, alive, cache, cacheNextId,
                 cacheSize, cacheOpen, db, dbUp, outages, restarts, produced,
                 dropped, crashLost>>

\* Close the cache; close() and main() return and the interpreter exits,
\* ending the daemon worker and client threads wherever they are.
CloseAndExit ==
  /\ mpc = "close_cache"
  /\ cacheOpen' = FALSE
  /\ mpc' = "exited"
  /\ UNCHANGED <<q, wpc, batch, ids, conn, alive, cache, cacheNextId,
                 cacheSize, db, dbUp, outages, restarts, produced, dropped,
                 crashLost>>

Owner ==
  \/ Close \/ JoinReturn \/ EmergencyCheck \/ EmergencySpill
  \/ EmergencyDone \/ CloseAndExit

-----------------------------------------------------------------------------
(* The process and its environment *)

\* The process dies (kill -9, power loss, fatal error): memory is lost;
\* committed SQLite transactions survive (WAL journal).
Crash ==
  /\ Running /\ restarts < MaxRestarts
  /\ crashLost' = crashLost \cup ToSet(Rows(q)) \cup ToSet(batch)
  /\ q' = <<>>
  /\ batch' = <<>>
  /\ conn' = "none"
  /\ mpc' = "exited"
  /\ UNCHANGED <<wpc, ids, alive, cache, cacheNextId, cacheSize, cacheOpen,
                 db, dbUp, outages, restarts, produced, dropped>>

\* The service is started again: PostgresWriter.__init__ opens the same
\* cache file (keeping its rows, sequence and size) and a new worker.
Restart ==
  /\ mpc = "exited" /\ restarts < MaxRestarts
  /\ restarts' = restarts + 1
  /\ q' = <<>>
  /\ wpc' = "loop"
  /\ batch' = <<>>
  /\ ids' = <<>>
  /\ conn' = "none"
  /\ alive' = TRUE
  /\ cacheOpen' = TRUE
  /\ mpc' = "run"
  /\ UNCHANGED <<cache, cacheNextId, cacheSize, db, dbUp, outages, produced,
                 dropped, crashLost>>

\* The SQL server goes away; an open connection is broken by it.
DbDown ==
  /\ dbUp /\ outages < MaxOutages
  /\ dbUp' = FALSE
  /\ outages' = outages + 1
  /\ conn' = IF conn = "ok" THEN "broken" ELSE conn
  /\ UNCHANGED <<q, wpc, batch, ids, alive, cache, cacheNextId, cacheSize,
                 cacheOpen, db, mpc, restarts, produced, dropped, crashLost>>

DbRecover ==
  /\ ~dbUp
  /\ dbUp' = TRUE
  /\ UNCHANGED <<q, wpc, batch, ids, conn, alive, cache, cacheNextId,
                 cacheSize, cacheOpen, db, outages, mpc, restarts, produced,
                 dropped, crashLost>>

Next ==
  \/ \E dir \in {"rx", "tx"} : Enqueue(dir)
  \/ Worker
  \/ Owner
  \/ Crash \/ Restart
  \/ DbDown \/ DbRecover

Spec == Init /\ [][Next]_vars

\* The worker thread is never starved (it sleeps only for a bounded
\* backoff), every outage of the SQL server ends, and a crashed process is
\* started again (the service manager), so the spill file is read back.
FairSpec == Spec /\ WF_vars(Worker) /\ WF_vars(DbRecover) /\ WF_vars(Restart)

\* The owner makes progress, and so does the worker except inside a call
\* to the SQL server, which may never return.
ShutdownFairSpec ==
  Spec /\ WF_vars(Owner) /\ WF_vars(Worker /\ ~WorkerBlocked)

-----------------------------------------------------------------------------
(* Properties *)

TypeOK ==
  /\ q \in Seq(Entries \cup {Wake}) /\ Len(q) <= QueueMax
  /\ wpc \in WorkerPcs /\ mpc \in OwnerPcs
  /\ batch \in Seq(Entries) /\ ids \in Seq(Nat)
  /\ conn \in {"none", "ok", "broken"}
  /\ alive \in BOOLEAN /\ cacheOpen \in BOOLEAN /\ dbUp \in BOOLEAN
  /\ cache \in Seq([id : Nat, e : Entries])
  /\ cacheNextId \in Nat \ {0} /\ cacheSize \in Nat
  /\ db \in Seq(Entries)
  /\ outages \in 0..MaxOutages /\ restarts \in 0..MaxRestarts
  /\ produced \in 0..MaxEntries
  /\ dropped \subseteq Entries /\ crashLost \subseteq Entries

\* Entries still on their way to the SQL store.
Pending == ToSet(Rows(q)) \cup ToSet(batch) \cup CachedEntries

\* No silent loss (spec section 1): every frame handed to enqueue() is
\* still queued, in flight, in the cache, or committed, or it was counted
\* in count_dropped; only a crash may lose frames uncounted.
NoSilentLoss ==
  \A e \in 1..produced :
     e \in Pending \cup ToSet(db) \cup dropped \cup crashLost

\* Each frame is committed to the store at most once.
NoDuplicateCommit ==
  \A i, j \in DOMAIN db : i < j => db[i] # db[j]

\* Once the worker has found the cache empty and moved on to the queue,
\* the cache file has been reset and no longer counts as full (spec 4.5
\* step 3: "When empty, reset the spill store").
CacheReclaimed ==
  (wpc = "mem_get" /\ cache = <<>>) => ~CacheFull

-----------------------------------------------------------------------------
(* Refinement: the pipeline implements the FIFO with counted loss of       *)
(* IngestStore.                                                            *)

\* The first i rows of the store, keeping only the first commit of each
\* frame.
RECURSIVE Firsts(_)
Firsts(i) ==
  IF i = 0 THEN <<>>
  ELSE Firsts(i - 1) \o (IF \E j \in 1..(i - 1) : db[j] = db[i]
                        THEN <<>> ELSE <<db[i]>>)

\* The store read as distinct frames, in the order of their first commit.
FirstCommits == Firsts(Len(db))

\* A frame is waiting while a copy of it is queued, in flight or spilled
\* and it has not been committed; it is lost when it was counted dropped
\* or went down in a crash and no copy of it is left anywhere.
Store == INSTANCE IngestStore WITH
           offered <- produced,
           waiting <- Pending \ ToSet(db),
           stored <- FirstCommits,
           lost <- (dropped \cup crashLost) \ (Pending \cup ToSet(db))

\* The worker's cache-before-queue order, the spill paths and the replay
\* after a restart together deliver frames oldest first and lose none
\* uncounted (spec 5: "spill drain always precedes in-memory drain ... so
\* committed-to-store order is globally monotonic by capture order").
ImplementsStore == Store!Spec

\* Every frame handed to enqueue() eventually reaches the store or is
\* counted dropped (or lost to a crash), across outages of the server.
EventuallyStored ==
  \A e \in Entries :
     (e <= produced) ~> (e \in ToSet(db) \cup dropped \cup crashLost)

\* close() returns and the process exits, even when the worker never
\* finishes: the five-second join timeout bounds the shutdown.
ShutdownTerminates ==
  (mpc = "join") ~> (mpc = "exited")

=============================================================================
