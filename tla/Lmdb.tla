------------------------------- MODULE Lmdb -------------------------------
(***************************************************************************)
(* The transactions of the LMDB port (ports/liblmdb/mdb.c): processes that *)
(* share one data file and one lock file.  Readers take no lock once they  *)
(* own a slot of the reader table.  The one writer copies every page that  *)
(* it changes, and reuses the pages that earlier transactions freed once   *)
(* no reader can need them.  A commit writes the new pages, syncs them,    *)
(* writes one of the two meta pages, and then publishes its txnid in the   *)
(* lock file.  Processes may die anywhere, and the system may crash.       *)
(***************************************************************************)
EXTENDS LmdbPages

(***************************************************************************)
(* Opening and closing the environment.                                    *)
(***************************************************************************)
NoReaders == [i \in Slot |-> [pid |-> NoProc, txnid |-> NoTxn]]

\* A database with two transactions: the first made a tree of the leaf n, and the
\* second updated it, or split it to make the leaf m.
First(n) == [NoMeta EXCEPT !.txnid = 1, !.last_pg = 2, !.root[n] = 2]

Second(n, m) ==
    IF n = m
    THEN [First(n) EXCEPT !.txnid = 2, !.last_pg = 4, !.free[2] = {2},
                          !.root[n] = 3, !.root[FreeRoot] = 4]
    ELSE [First(n) EXCEPT !.txnid = 2, !.last_pg = 6, !.free[2] = {2},
                          !.root[n] = 3, !.root[m] = 4, !.root[Branch] = 5,
                          !.root[FreeRoot] = 6]

Init ==
    \E n, m \in Leaves :
        LET second == Second(n, m)
        IN  /\ metas = [i \in 0..1 |-> IF i = 0 THEN second ELSE First(n)]
            /\ cache = [p \in Pgno |->
                   IF p = 2 THEN [node |-> n, try |-> 0]
                   ELSE IF p <= second.last_pg
                   THEN [node |-> CHOOSE k \in Position : second.root[k] = p, try |-> 0]
                   ELSE Stale]
            /\ disk = cache /\ dmetas = metas
            /\ mti_txnid = 0
            /\ readers = NoReaders /\ numreaders = 0 /\ wmutex = NoProc
            /\ env = [p \in Procs |-> Closed]
            /\ txn = NoTransaction
            /\ tries = 0 /\ faults = 0 /\ setup \in Setups

\* mdb_env_open.  A process that is alone, and so gets the exclusive file lock,
\* resets the lock file (mdb_env_setup_locks, mdb_env_share_locks).
Open(p) ==
    /\ p \in setup.procs /\ env[p].pc = "closed"
    /\ env' = [env EXCEPT ![p].pc = "idle"]
    /\ IF \A q \in Procs : env[q].pc = "closed"
       THEN /\ mti_txnid' = Newest(metas).txnid
            /\ readers' = NoReaders /\ numreaders' = 0
            /\ wmutex' = NoProc
       ELSE UNCHANGED locks
    /\ UNCHANGED <<files, txn, counts>>

Cleared(p) ==
    [i \in Slot |-> IF readers[i].pid = p THEN [readers[i] EXCEPT !.pid = NoProc] ELSE readers[i]]

\* mdb_env_close clears the slots of the process below me_close_readers: all of
\* them once it has claimed a slot, and none before.  (Whether a process without
\* a slot has given one back is not kept; it does either.)
Close(p) ==
    /\ env[p].pc \in {"idle", "panic"}
    /\ env' = [env EXCEPT ![p] = Closed]
    /\ \/ env[p].pidlock /\ readers' = Cleared(p)
       \/ env[p].slot = NoSlot /\ readers' = readers
    /\ UNCHANGED <<files, mti_txnid, numreaders, wmutex, txn, counts>>

\* A process dies.  The system drops its file locks and marks its mutex.
Die(p) ==
    /\ env[p].pc # "closed" /\ tries + faults < MaxEvents
    /\ faults' = faults + 1
    /\ env' = [env EXCEPT ![p] = Closed]
    /\ wmutex' = IF wmutex = p THEN OwnerDead ELSE wmutex
    /\ txn' = IF wmutex = p THEN NoTransaction ELSE txn
    /\ UNCHANGED <<files, mti_txnid, readers, numreaders, tries, setup>>

\* The system crashes.  Any of the writes since the last sync may have reached
\* stable storage.  The lock file is reset by whoever opens it next.
Crash ==
    /\ setup.crashes /\ tries + faults < MaxEvents
    /\ faults' = faults + 1
    /\ \E ps \in SUBSET {p \in Pgno : disk[p] # cache[p]},
          ms \in SUBSET {i \in 0..1 : dmetas[i] # metas[i]} :
          /\ disk' = [p \in Pgno |-> IF p \in ps THEN cache[p] ELSE disk[p]]
          /\ dmetas' = [i \in 0..1 |-> IF i \in ms THEN metas[i] ELSE dmetas[i]]
    /\ cache' = disk' /\ metas' = dmetas'
    /\ env' = [p \in Procs |-> Closed]
    /\ mti_txnid' = 0 /\ readers' = NoReaders /\ numreaders' = 0 /\ wmutex' = NoProc
    /\ txn' = NoTransaction
    /\ UNCHANGED <<tries, setup>>

(***************************************************************************)
(* Read transactions.                                                      *)
(***************************************************************************)

\* mdb_txn_renew0 locks the byte of its pid (mdb_reader_pid) before its first slot.
\* MDB_BAD_RSLOT if somebody else took or uses the slot of the thread.
ReadBegin_Mut(p) ==     \* does not lock the byte
    /\ p \in Readers /\ env[p].pc = "idle"
    /\ env[p].slot # NoSlot => readers[env[p].slot] = [pid |-> p, txnid |-> NoTxn]
    /\ env' = [env EXCEPT ![p].pc = IF env[p].slot # NoSlot THEN "load" ELSE "claim",
                          ![p].floor = mti_txnid]
    /\ UNCHANGED <<files, locks, txn, counts>>

ReadBegin(p) ==
    /\ p \in Readers /\ env[p].pc = "idle"
    /\ env[p].slot # NoSlot => readers[env[p].slot] = [pid |-> p, txnid |-> NoTxn]
    /\ env' = [env EXCEPT ![p].pc = IF env[p].slot # NoSlot THEN "load" ELSE "claim",
                          ![p].pidlock = @ \/ env[p].slot = NoSlot,
                          ![p].floor = mti_txnid]
    /\ UNCHANGED <<files, locks, txn, counts>>

\* It claims a slot, under the reader mutex.  MDB_READERS_FULL if there is none.
ReadClaim(p) ==
    LET i == Min({numreaders} \cup {j \in Slot : j < numreaders /\ readers[j].pid = NoProc})
    IN  /\ env[p].pc = "claim"
        /\ IF i = MaxReaders
           THEN /\ env' = [env EXCEPT ![p].pc = "idle", ![p].floor = 0]
                /\ UNCHANGED locks
           ELSE /\ readers' = [readers EXCEPT ![i] = [pid |-> p, txnid |-> NoTxn]]
                /\ numreaders' = IF i = numreaders THEN numreaders + 1 ELSE numreaders
                /\ env' = [env EXCEPT ![p].pc = "load", ![p].slot = i]
                /\ UNCHANGED <<mti_txnid, wmutex>>
        /\ UNCHANGED <<files, txn, counts>>

\* It copies the published txnid into its slot, without any lock, until the
\* two agree,
ReadLoad(p) ==
    /\ env[p].pc = "load"
    /\ env' = [env EXCEPT ![p].pc = "store", ![p].seen = mti_txnid]
    /\ UNCHANGED <<files, locks, txn, counts>>

ReadStore(p) ==
    /\ env[p].pc = "store"
    /\ readers' = [readers EXCEPT ![env[p].slot].txnid = env[p].seen]
    /\ env' = [env EXCEPT ![p].pc = "check", ![p].seen = 0]
    /\ UNCHANGED <<files, mti_txnid, numreaders, wmutex, txn, counts>>

ReadCheck(p) ==
    /\ env[p].pc = "check"
    /\ env' = [env EXCEPT ![p].pc =
                   IF readers[env[p].slot].txnid = mti_txnid THEN "copy" ELSE "load"]
    /\ UNCHANGED <<files, locks, txn, counts>>

\* and copies the meta page of that txnid.
ReadCopy_Mut(p) ==      \* of the other one
    LET id == readers[env[p].slot].txnid
    IN  /\ env[p].pc = "copy"
        /\ env' = [env EXCEPT ![p].pc = "read", ![p].txnid = id, ![p].meta = metas[(id + 1) % 2]]
        /\ UNCHANGED <<files, locks, txn, counts>>

ReadCopy(p) ==
    LET id == readers[env[p].slot].txnid
    IN  /\ env[p].pc = "copy"
        /\ env' = [env EXCEPT ![p].pc = "read", ![p].txnid = id, ![p].meta = metas[id % 2]]
        /\ UNCHANGED <<files, locks, txn, counts>>

\* mdb_txn_end of a read transaction.  The thread keeps its slot,
ReadEnd(p) ==
    /\ env[p].pc = "read"
    /\ readers' = [readers EXCEPT ![env[p].slot].txnid = NoTxn]
    /\ env' = [env EXCEPT ![p].pc = "idle", ![p].txnid = 0, ![p].meta = NoMeta, ![p].floor = 0]
    /\ UNCHANGED <<files, mti_txnid, numreaders, wmutex, txn, counts>>

\* until it exits (mdb_env_reader_dest).
ThreadExit(p) ==
    /\ env[p].pc = "idle" /\ env[p].slot # NoSlot
    /\ readers' = [readers EXCEPT ![env[p].slot].pid = IF @ = p THEN NoProc ELSE @]
    /\ env' = [env EXCEPT ![p].slot = NoSlot]
    /\ UNCHANGED <<files, mti_txnid, numreaders, wmutex, txn, counts>>

\* mdb_reader_check0, called by p: the table without the slots of processes that
\* hold no lock on the byte of their pid.
ReaderCheck(p) ==
    [i \in Slot |->
        IF i < numreaders /\ readers[i].pid \in {q \in Procs \ {p} : ~env[q].pidlock}
        THEN [readers[i] EXCEPT !.pid = NoProc] ELSE readers[i]]

\* mdb_reader_check
CheckReaders(p) ==
    /\ env[p].pc = "idle"
    /\ readers' = ReaderCheck(p)
    /\ UNCHANGED <<files, mti_txnid, numreaders, wmutex, env, txn, counts>>

(***************************************************************************)
(* Write transactions.                                                     *)
(***************************************************************************)

\* The txnid to start from.  If the last owner of the mutex died, mdb_mutex_failed
\* publishes that of the newest meta page, which the owner may have written.
StartFrom_Mut == mti_txnid
StartFrom == IF wmutex = OwnerDead THEN Newest(metas).txnid ELSE mti_txnid

\* mdb_txn_renew0: lock the writer mutex and start from the published
\* transaction.  If the last owner died, mdb_mutex_failed also clears the slots of
\* dead readers.
WriteBegin(p) ==
    /\ p \in Writers /\ env[p].pc = "idle" /\ tries + faults < MaxEvents
    /\ wmutex \in {NoProc, OwnerDead}
    /\ mti_txnid' = StartFrom
    /\ readers' = IF wmutex = OwnerDead THEN ReaderCheck(p) ELSE readers
    /\ wmutex' = p
    /\ tries' = tries + 1
    /\ LET m == metas[mti_txnid' % 2]
       IN  txn' = [NoTransaction EXCEPT !.id = mti_txnid' + 1, !.root = m.root, !.free = m.free,
                                        !.by = m.by, !.next_pgno = m.last_pg + 1]
    /\ env' = [env EXCEPT ![p].pc = "write"]
    /\ UNCHANGED <<files, numreaders, faults, setup>>

\* The positions that mdb_cursor_touch touches for a leaf n, from the root.
Trail(n) == IF txn.root[Branch] # NoPage THEN <<Branch, n>> ELSE <<n>>

Update(p, todo, drop) ==
    /\ env[p].pc = "write" /\ txn.todo = <<>> /\ ~txn.error /\ txn.writes < MaxWrites
    /\ txn' = [txn EXCEPT !.todo = todo, !.drop = drop, !.writes = @ + 1]
    /\ UNCHANGED <<files, locks, env, counts>>

\* mdb_put or mdb_del in the leaf n,
Put(p, n) ==
    /\ txn.root[n] # NoPage
    /\ Update(p, Trail(n), NoNode)

\* a put that makes a new leaf n (mdb_page_split): the sibling m that was full is
\* touched, and the tree gets a branch page if m was its root;
Split(p, m, n) ==
    /\ txn.root[m] # NoPage /\ txn.root[n] = NoPage
    /\ Update(p, Trail(m) \o (IF txn.root[Branch] = NoPage THEN <<n, Branch>> ELSE <<n>>), NoNode)

\* a mdb_del in the leaf n, after which it is merged with its neighbour m
\* (mdb_rebalance): from the right one, or into the left one.
Merge(p, n, m) ==
    /\ m # n /\ txn.root[m] # NoPage /\ txn.root[n] # NoPage
    /\ Update(p, Trail(n), m) \/ Update(p, Trail(n) \o <<m>>, n)

\* One mdb_page_touch or mdb_page_new of an update.  MDB_TXN_ERROR when the map
\* is full.
Touch(p) ==
    /\ env[p].pc = "write" /\ txn.todo # <<>>
    /\ LET a == PageTouch(txn, Head(txn.todo), env[p].pgoldest)
           t == [a.t EXCEPT !.todo = IF a.t.error THEN <<>> ELSE Tail(@)]
       IN  /\ env' = [env EXCEPT ![p].pgoldest = a.oldest]
           /\ txn' = IF t.todo = <<>> /\ t.drop # NoNode /\ ~t.error THEN Unlink(t, t.drop) ELSE t
    /\ UNCHANGED <<files, locks, counts>>

\* mdb_txn_end of a write transaction.
WriteEnd(p) ==
    /\ env' = [env EXCEPT ![p].pc = "idle"]
    /\ txn' = NoTransaction
    /\ wmutex' = NoProc
    /\ UNCHANGED <<files, mti_txnid, readers, numreaders, counts>>

\* mdb_txn_abort; mdb_txn_commit of a transaction that failed, or wrote nothing;
\* a commit that fails because a write or a sync does.
Abort(p) ==
    /\ \/ env[p].pc = "write" /\ txn.todo = <<>>
       \/ env[p].pc \in {"flush", "sync"}
       \/ env[p].pc = "save" /\ txn.error
    /\ WriteEnd(p)

\* mdb_txn_commit calls mdb_freelist_save, which first touches the page of the
\* freeDB when pages of it were taken, and otherwise frees the loose pages.
Commit(p) ==
    /\ env[p].pc = "write" /\ txn.todo = <<>> /\ ~txn.error /\ txn.dirty # {}
    /\ LET a == IF txn.loaded /\ txn.root[FreeRoot] # NoPage
                THEN PageTouch(txn, FreeRoot, env[p].pgoldest)
                ELSE [t |-> txn, oldest |-> env[p].pgoldest]
           given == {a.t.loose[i] : i \in 1..Len(a.t.loose)}
       IN  /\ env' = [env EXCEPT ![p].pc = "save", ![p].pgoldest = a.oldest]
           /\ txn' = IF a.t.loaded THEN a.t
                     ELSE [a.t EXCEPT !.free_pgs = @ \cup given, !.dirty = @ \ given,
                                      !.loose = <<>>]
    /\ UNCHANGED <<files, locks, counts>>

\* One round of its loop: delete the records that were taken, then save the
\* pages that this transaction freed, which may take more records, or else put
\* back, under the last key taken, what was not used.
Save(p) ==
    /\ env[p].pc = "save" /\ ~txn.error
    /\ LET t == IF txn.trimmed < txn.pglast THEN TrimRecords(txn) ELSE txn
           a == PageTouch(t, FreeRoot, env[p].pgoldest)
       IN  IF t.saved # t.free_pgs
           THEN /\ txn' = [a.t EXCEPT !.free[t.id] = a.t.free_pgs, !.saved = a.t.free_pgs]
                /\ env' = [env EXCEPT ![p].pgoldest = a.oldest]
           ELSE /\ txn' = [t EXCEPT !.free[t.pglast] = Left(t), !.pghead = {}, !.loose = <<>>,
                                    !.dirty = @ \ Left(t)]
                /\ env' = [env EXCEPT ![p].pc = "flush"]
    /\ UNCHANGED <<files, locks, counts>>

\* mdb_page_flush writes the dirty pages in order,
Flush(p) ==
    LET pg == Min(txn.dirty)
    IN  /\ env[p].pc = "flush" /\ txn.dirty # {}
        /\ cache' = [cache EXCEPT ![pg] =
                        IF \E n \in Position : txn.root[n] = pg
                        THEN [node |-> CHOOSE n \in Position : txn.root[n] = pg, try |-> tries]
                        ELSE Stale]
        /\ txn' = [txn EXCEPT !.dirty = @ \ {pg}]
        /\ env' = [env EXCEPT ![p].pc = IF txn.dirty = {pg} THEN "sync" ELSE "flush"]
        /\ UNCHANGED <<metas, disk, dmetas, locks, counts>>

\* mdb_env_sync0 waits until they are on stable storage,
Sync(p) ==
    /\ env[p].pc = "sync"
    /\ disk' = cache /\ dmetas' = metas
    /\ env' = [env EXCEPT ![p].pc = "meta"]
    /\ UNCHANGED <<cache, metas, locks, txn, counts>>

\* The values of MDB_NOMETASYNC, which matters only if the system crashes.
NoMetaSync == IF setup.crashes THEN BOOLEAN ELSE {FALSE}

\* mdb_env_write_meta replaces the older meta page,
WriteMeta(p) ==
    /\ env[p].pc = "meta"
    /\ metas' = [metas EXCEPT ![txn.id % 2] =
                    [txnid |-> txn.id, root |-> txn.root, last_pg |-> txn.next_pgno - 1,
                     free |-> txn.free, by |-> txn.by]]
    /\ \E no \in NoMetaSync : env' = [env EXCEPT ![p].pc = IF no THEN "publish" ELSE "metasync"]
    /\ txn' = [txn EXCEPT !.metab = metas[txn.id % 2]]
    /\ UNCHANGED <<cache, disk, dmetas, locks, counts>>

\* through a descriptor that syncs it unless MDB_NOMETASYNC is set,
MetaSync(p) ==
    /\ env[p].pc = "metasync"
    /\ dmetas' = [dmetas EXCEPT ![txn.id % 2] = metas[txn.id % 2]]
    /\ env' = [env EXCEPT ![p].pc = "publish"]
    /\ UNCHANGED <<cache, metas, disk, locks, txn, counts>>

\* If that sync fails, the page gets its old txnid and last_pg back, and nothing
\* else; stable storage may have the new page or not.  The commit fails, and the
\* environment with it (MDB_FATAL_ERROR).
MetaFails(p) ==
    LET i == txn.id % 2
    IN  /\ env[p].pc = "metasync"
        /\ \E m \in {metas[i], dmetas[i]} : dmetas' = [dmetas EXCEPT ![i] = m]
        /\ metas' = [metas EXCEPT ![i].txnid = txn.metab.txnid, ![i].last_pg = txn.metab.last_pg]
        /\ env' = [env EXCEPT ![p].pc = "panic"]
        /\ txn' = NoTransaction /\ wmutex' = NoProc
        /\ UNCHANGED <<cache, disk, mti_txnid, readers, numreaders, counts>>

\* and publishes the txnid; then mdb_txn_end.
Publish(p) ==
    /\ env[p].pc = "publish"
    /\ mti_txnid' = txn.id
    /\ env' = [env EXCEPT ![p].pc = "end"]
    /\ UNCHANGED <<files, readers, numreaders, wmutex, txn, counts>>

Finish(p) == env[p].pc = "end" /\ WriteEnd(p)

\* mdb_env_sync, which takes no lock.
EnvSync(p) ==
    /\ env[p].pc = "idle" /\ setup.crashes
    /\ disk' = cache /\ dmetas' = metas
    /\ UNCHANGED <<cache, metas, locks, env, txn, counts>>

Next ==
    \/ Crash
    \/ \E p \in Procs :
          \/ Open(p) \/ Close(p) \/ Die(p) \/ CheckReaders(p) \/ EnvSync(p)
          \/ ReadBegin(p) \/ ReadClaim(p) \/ ReadLoad(p) \/ ReadStore(p) \/ ReadCheck(p)
          \/ ReadCopy(p) \/ ReadEnd(p) \/ ThreadExit(p)
          \/ WriteBegin(p) \/ Touch(p) \/ Abort(p) \/ Commit(p) \/ Save(p) \/ Flush(p)
          \/ Sync(p) \/ WriteMeta(p) \/ MetaSync(p) \/ Publish(p) \/ Finish(p)
          \/ \E n \in Leaves : Put(p, n)
          \/ \E n, m \in Leaves : Split(p, m, n) \/ Merge(p, n, m)

Spec == Init /\ [][Next]_vars

\* With storage that may fail to sync a meta page.
FaultySpec == Init /\ [][Next \/ \E p \in Procs : MetaFails(p)]_vars

-----------------------------------------------------------------------------

\* What the pages of a tree hold.
Tree(m, pages) == [n \in Position |-> IF m.root[n] = NoPage THEN Stale ELSE pages[m.root[n]]]

Process ==
    [pc : {"closed", "idle", "claim", "load", "store", "check", "copy", "read", "write",
           "save", "flush", "sync", "meta", "metasync", "publish", "end", "panic"},
     pidlock : BOOLEAN, slot : Slot \cup {NoSlot}, seen : TxnId, txnid : TxnId, meta : Meta,
     pgoldest : TxnId, floor : TxnId]

\* Types of the variables.
TypeOK ==
    /\ cache \in [Pgno -> Content] /\ disk \in [Pgno -> Content]
    /\ metas \in [0..1 -> Meta] /\ dmetas \in [0..1 -> Meta]
    /\ mti_txnid \in TxnId
    /\ readers \in [Slot -> [pid : Procs \cup {NoProc}, txnid : TxnId \cup {NoTxn}]]
    /\ numreaders \in 0..MaxReaders
    /\ wmutex \in Procs \cup {NoProc, OwnerDead}
    /\ env \in [Procs -> Process]
    /\ tries \in Nat /\ faults \in Nat /\ tries + faults <= MaxEvents
    /\ setup \in Setups

\* The snapshot of a reader stays what it was, however many transactions commit
\* while it reads.
SnapshotIntact ==
    \A p \in Procs : env[p].pc = "read" => Intact(env[p].meta, cache)

\* Nobody takes a page that a reader may need for free: the oldest reader, as
\* mdb_find_oldest finds it and me_pgoldest keeps it, is never younger than one that
\* has begun to read, though readers begin without a lock.
OldestSafe ==
    \A p, q \in Procs : env[p].pc = "read" => env[q].pgoldest <= env[p].txnid

\* The newest transaction is whole, in what processes see, even if it was never
\* published.
NewestIntact == Intact(Newest(metas), cache)

\* mdb_audit: every page of the newest database is in one tree position, or in
\* one record of the freeDB.
Audit ==
    LET m == Newest(metas)
        uses(pg) == {n \in Position : m.root[n] = pg} \cup {k \in TxnId : pg \in m.free[k]}
    IN  \A pg \in 2..m.last_pg : \E x \in uses(pg) : uses(pg) = {x}

\* Nobody takes the slot of a live reader away, whoever cleans up after dead ones.
SlotsOwned ==
    \A p \in Procs : env[p].slot # NoSlot => readers[env[p].slot].pid = p

=============================================================================
