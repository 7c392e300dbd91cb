------------------------------ MODULE LmdbInv -------------------------------
(*************************************************************************)
(* The inductive invariants of Lmdb: Inv, which gives every reader its   *)
(* own slot and keeps the oldest reader safe, and PageInv, which keeps   *)
(* the tree of every meta page and of every reader whole.                *)
(*************************************************************************)
EXTENDS LmdbPlaces, Lmdb

(***************************************************************************)
(* The shape of the state, as far as the reader table depends on it.       *)
(***************************************************************************)
IsProcess(e) ==
    /\ "pc" \in DOMAIN e /\ "pidlock" \in DOMAIN e /\ "slot" \in DOMAIN e
    /\ "seen" \in DOMAIN e /\ "txnid" \in DOMAIN e /\ "pgoldest" \in DOMAIN e
    /\ e.slot \in Slot \cup {NoSlot}
    /\ e.seen \in Nat /\ e.txnid \in Nat /\ e.pgoldest \in Nat

IsTable(rs) ==
    /\ DOMAIN rs = Slot
    /\ \A i \in Slot : "pid" \in DOMAIN rs[i] /\ "txnid" \in DOMAIN rs[i] /\ rs[i].txnid \in Nat

HaveIds(ms) == DOMAIN ms = 0..1 /\ \A i \in 0..1 : ms[i].txnid \in Nat

Shape ==
    /\ DOMAIN env = Procs /\ \A p \in Procs : IsProcess(env[p])
    /\ IsTable(readers) /\ numreaders \in 0..MaxReaders
    /\ mti_txnid \in Nat
    /\ "id" \in DOMAIN txn
    /\ HaveIds(metas) /\ HaveIds(dmetas)

(***************************************************************************)
(* What is known of a process p: its slot is its own, and it holds the     *)
(* byte of its pid as long as it has one;                                  *)
(***************************************************************************)
Reading == {"load", "store", "check", "copy", "read"}

Owns(p) ==
    /\ env[p].slot # NoSlot =>
          env[p].pidlock /\ env[p].slot < numreaders /\ readers[env[p].slot].pid = p
    /\ env[p].pc = "claim" => env[p].pidlock
    /\ env[p].pc \in Reading => env[p].slot # NoSlot
    /\ env[p].pc = "closed" => env[p].slot = NoSlot /\ env[p].pgoldest = 0

\* only the holder of wmutex writes, what it writes comes after what was published,
\* and the oldest reader that a process found is not younger than that;
Writing == {"write", "save", "flush", "sync", "meta", "metasync", "publish"}

Writes(p) ==
    /\ env[p].pc \in Writing \cup {"end"} => wmutex = p
    /\ env[p].pc \in Writing => txn.id = mti_txnid + 1
    /\ env[p].pc \in {"metasync", "publish"} => \E i \in 0..1 : metas[i].txnid >= txn.id
    /\ env[p].pc # "closed" => \E i \in 0..1 : metas[i].txnid >= mti_txnid
    /\ env[p].pgoldest <= mti_txnid

\* and a reader that has seen its txnid published holds back every process.
Seen == {"copy", "read"}

Protects(p) ==
    /\ env[p].pc \in Seen =>
          \A q \in Procs : env[q].pgoldest <= readers[env[p].slot].txnid
    /\ env[p].pc = "read" => env[p].txnid = readers[env[p].slot].txnid

Inv == Shape /\ \A p \in Procs : Owns(p) /\ Writes(p) /\ Protects(p)

\* What a step of p leaves alone.
Others(p) == DOMAIN env' = Procs /\ \A q \in Procs \ {p} : env'[q] = env[q]

-----------------------------------------------------------------------------
(***************************************************************************)
(* Steps of a process p that change only its own entry of env, its write   *)
(* transaction and the files.                                              *)
(***************************************************************************)
Local(p) ==
    /\ Others(p) /\ IsProcess(env'[p]) /\ env'[p].slot = env[p].slot
    /\ UNCHANGED locks
    /\ txn' = txn \/ (wmutex = p /\ "id" \in DOMAIN txn')
    /\ metas' = metas \/ wmutex = p
    /\ HaveIds(metas)' /\ HaveIds(dmetas)'
    /\ \E i \in 0..1 : metas'[i].txnid >= mti_txnid

(*************************************************************************)
(* The meta pages: metas[h] is the newest, and the other one is the      *)
(* transaction before it. Stable storage has both, or has, instead of    *)
(* the newest, the one that it replaced.                                 *)
(*************************************************************************)

\* On stable storage the newest meta page is still the one it replaced.
Behind(h, ms, dms, c, d) ==
    /\ dms[h].txnid + 2 = ms[h].txnid
    /\ Follows(ms[1 - h], dms[h])
    /\ Intact(ms[1 - h], c) /\ Intact(ms[1 - h], d)

\* The meta page at h is the newest, and both of them are whole.
MetasAt(h, ms, dms, c, d) ==
    /\ \A i \in 0..1 : ms[i].txnid % 2 = i /\ Whole(ms[i]) /\ Whole(dms[i])
    /\ ms[h].txnid = ms[1 - h].txnid + 1
    /\ Follows(ms[h], ms[1 - h])
    /\ Intact(ms[h], c) /\ Intact(ms[h], d)
    /\ dms[1 - h] = ms[1 - h]
    /\ dms[h] = ms[h] \/ Behind(h, ms, dms, c, d)

\* One of the two is the newest.
MetasOK(ms, dms, c, d) == \E h \in 0..1 : MetasAt(h, ms, dms, c, d)

\* Where a transaction has written its meta page, and has not yet said so.
Committing == {"metasync", "publish"}

\* What is published is the newest transaction, or the one before it while the newest is
\* being committed, or its writer died; its tree is intact.
LockOK ==
    (\E p \in Procs : env[p].pc # "closed") =>
        /\ mti_txnid \in {Newest(metas).txnid, Older(metas).txnid}
        /\ Intact(metas[mti_txnid % 2], cache)
        /\ mti_txnid = Older(metas).txnid =>
              wmutex = OwnerDead \/ \E p \in Procs : wmutex = p /\ env[p].pc \in Committing

\* Where a transaction is built, and nobody else can see it.
Building == {"write", "save", "flush", "sync", "meta"}

\* The writer at each place in the code: what it takes belongs to neither meta page, and
\* what it has not written is dirty.
WriterOK(p) ==
    /\ env[p].pc \in Building =>
          /\ mti_txnid = Newest(metas).txnid /\ txn.id \in TxnId /\ txn.id <= tries + 2
          /\ TxnSpares(txn, Newest(metas)) /\ TxnSpares(txn, Older(metas))
          /\ Written(txn, cache, tries)
    /\ env[p].pc = "write" => Good(txn) /\ Growing(txn)
    /\ env[p].pc = "save" =>
          /\ Good(txn)
          /\ txn.error = FALSE => TreeShape(txn.root) /\ (txn.loaded = FALSE => txn.loose = <<>>)
    /\ env[p].pc \in {"flush", "sync", "meta"} => Settled(txn)
    /\ env[p].pc \in {"sync", "meta"} => txn.dirty = {}
    /\ env[p].pc = "meta" => disk = cache /\ dmetas = metas
    /\ env[p].pc \in Committing => Newest(metas).txnid = txn.id

\* The snapshot of a reader, from its first look at the lock file.
ReaderOK(p) ==
    /\ env[p].pc \in {"claim", "load"} => env[p].floor <= mti_txnid
    /\ env[p].pc = "store" => env[p].floor <= env[p].seen /\ env[p].seen <= mti_txnid
    /\ env[p].pc \in {"check", "copy"} =>
          /\ env[p].floor <= readers[env[p].slot].txnid /\ readers[env[p].slot].txnid <= mti_txnid
    /\ env[p].pc = "copy" => Intact(metas[readers[env[p].slot].txnid % 2], cache)
    /\ env[p].pc = "read" =>
          /\ Intact(env[p].meta, cache)
          /\ Follows(Newest(metas), env[p].meta)
          /\ env[p].meta.txnid >= env[p].txnid
          /\ env[p].txnid = readers[env[p].slot].txnid

\* The writer takes no page of the snapshot of p.
Undisturbed(p) ==
    env[p].pc = "read" =>
        \A q \in Procs : env[q].pc \in Building => TxnSpares(txn, env[p].meta)

\* The invariant on pages.
PageInv ==
    /\ TypeOK
    /\ MetasOK(metas, dmetas, cache, disk) /\ Newest(metas).txnid <= tries + 2
    /\ LockOK
    /\ \A p \in Procs : WriterOK(p) /\ ReaderOK(p) /\ Undisturbed(p)

\* The type invariant, in four parts: the processes,
TypeEnv == env \in [Procs -> Process]

\* the files,
TypeFiles ==
    /\ cache \in [Pgno -> Content] /\ disk \in [Pgno -> Content]
    /\ metas \in [0..1 -> Meta] /\ dmetas \in [0..1 -> Meta]

\* the lock file,
TypeLocks ==
    /\ mti_txnid \in TxnId
    /\ readers \in [Slot -> [pid : Procs \cup {NoProc}, txnid : TxnId \cup {NoTxn}]]
    /\ numreaders \in 0..MaxReaders
    /\ wmutex \in Procs \cup {NoProc, OwnerDead}

\* and the bounds.
TypeCounts == tries \in Nat /\ faults \in Nat /\ tries + faults <= MaxEvents /\ setup \in Setups

\* The places in the code.
PC == {"closed", "idle", "claim", "load", "store", "check", "copy", "read", "write",
       "save", "flush", "sync", "meta", "metasync", "publish", "end", "panic"}

\* Only the entry of p changes.
Moves(p) == TypeEnv' /\ \A q \in Procs \ {p} : env'[q] = env[q]

\* Who does not read has no snapshot.
NotReading == {"closed", "idle", "write", "save", "flush", "sync", "meta", "metasync", "publish",
               "end", "panic"}

\* The transaction leaves alone the pages of both meta pages and of every reader.
SparesAll(t) ==
    /\ TxnSpares(t, Newest(metas)) /\ TxnSpares(t, Older(metas))
    /\ \A q \in Procs : env[q].pc = "read" => TxnSpares(t, env[q].meta)

\* Where a process has the mutex of the writers.
Holding == Building \cup Committing \cup {"end"}

=============================================================================
