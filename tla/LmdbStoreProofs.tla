-------------------------- MODULE LmdbStoreProofs ---------------------------
(*************************************************************************)
(* Proofs about the files of Lmdb, for any number of processes, slots    *)
(* and pages. PageInv holds at first, and is kept by the steps of a      *)
(* commit that sync and publish, by the end of a transaction, by a       *)
(* process that opens the environment or dies, and by a crash. Where it  *)
(* holds, every step of Lmdb is a step of Snapshots, or none.            *)
(*************************************************************************)
EXTENDS LmdbReaderProofs, LmdbStore

(*************************************************************************)
(* What is known of the writer, and of a step of it.                     *)
(*************************************************************************)

\* What is known while p builds a transaction.
LEMMA WriterFacts ==
    ASSUME PageInv, Inv, NEW p \in Procs, env[p].pc \in Building
    PROVE  /\ wmutex = p /\ \A q \in Procs \ {p} : env[q].pc \notin Building \cup Committing
                \cup {"end"}
           /\ txn.id = mti_txnid + 1 /\ mti_txnid = Newest(metas).txnid /\ mti_txnid \in Nat
           /\ Newest(metas) \in Meta /\ Older(metas) \in Meta
           /\ Newest(metas).txnid = Older(metas).txnid + 1
           /\ tries \in 0..MaxEvents /\ SparesAll(txn) /\ Written(txn, cache, tries)
    <1>1. TypeEnv /\ TypeFiles /\ TypeLocks /\ TypeCounts
        BY Zenon, TableFacts
    <1>2. wmutex = p /\ txn.id = mti_txnid + 1
        BY Zenon DEF Inv, Writes, Building, Writing
    <1>3. \A q \in Procs \ {p} : env[q].pc \notin Building \cup Committing \cup {"end"}
        BY Zenon, <1>2 DEF Inv, Writes, Building, Writing, Committing
    <1>4. /\ mti_txnid = Newest(metas).txnid /\ Written(txn, cache, tries)
          /\ TxnSpares(txn, Newest(metas)) /\ TxnSpares(txn, Older(metas))
        BY Zenon DEF PageInv, WriterOK
    <1>5. \A q \in Procs : env[q].pc = "read" => TxnSpares(txn, env[q].meta)
        BY Zenon DEF PageInv, Undisturbed
    <1>6. metas \in [0..1 -> Meta] /\ mti_txnid \in Nat /\ tries \in 0..MaxEvents
        BY <1>1, TxnIds, LmdbAssumption DEF TypeFiles, TypeLocks, TypeCounts
    <1>7. Newest(metas) \in Meta /\ Older(metas) \in Meta
        BY Zenon, <1>6, NewestType
    <1>8. Newest(metas).txnid = Older(metas).txnid + 1
        <2>1. PICK h \in 0..1 : MetasAt(h, metas, dmetas, cache, disk)
            BY Zenon DEF PageInv, MetasOK
        <2>2. Newest(metas) = metas[h] /\ Older(metas) = metas[1 - h]
            BY <1>6, <2>1, NewestAt
        <2> QED BY Zenon, <2>1, <2>2 DEF MetasAt
    <1> QED BY Zenon, <1>2, <1>3, <1>4, <1>5, <1>6, <1>7, <1>8 DEF SparesAll

\* A step of p that goes on building its transaction keeps PageInv if the files keep every tree
\* that is spared, and the transaction has what its place in the code promises.
LEMMA BuilderKeeps ==
    ASSUME PageInv, Inv, NEW p \in Procs, env[p].pc \in Building, Moves(p),
           UNCHANGED <<metas, locks, counts>>, TypeFiles', MetasOK(metas, dmetas, cache, disk)',
           \A m : TxnSpares(txn, m) /\ Pages(m) \subseteq Pgno /\ Intact(m, cache) =>
               Intact(m, cache'),
           env'[p].pc \in Building, SparesAll(txn'), Written(txn', cache', tries), txn'.id = txn.id,
           env'[p].pc = "write" => Good(txn') /\ Growing(txn'),
           env'[p].pc = "save" =>
               /\ Good(txn')
               /\ txn'.error = FALSE => TreeShape(txn'.root)
                    /\ (txn'.loaded = FALSE => txn'.loose = <<>>),
           env'[p].pc \in {"flush", "sync", "meta"} => Settled(txn'),
           env'[p].pc \in {"sync", "meta"} => txn'.dirty = {},
           env'[p].pc = "meta" => disk' = cache' /\ dmetas' = metas'
    PROVE  PageInv'
    <1>0. WriterOK(p) /\ metas \in [0..1 -> Meta] /\ TypeEnv
        BY Zenon, TypeParts DEF PageInv, TypeFiles
    <1>1. /\ metas' = metas /\ mti_txnid' = mti_txnid /\ wmutex' = wmutex /\ tries' = tries
          /\ faults' = faults /\ setup' = setup /\ readers' = readers
        BY Zenon DEF counts, locks
    <1>2. TypeOK'
        BY Zenon, TypeParts, TypeSame DEF PageInv, Moves
    <1>3. (Newest(metas).txnid <= tries + 2)'
        BY Zenon, <1>1 DEF PageInv
    <1>4. /\ \A q \in Procs \ {p} : env[q].pc \notin Building \cup Committing \cup {"end"}
          /\ SparesAll(txn) /\ mti_txnid = Newest(metas).txnid /\ mti_txnid \in Nat
          /\ Newest(metas) \in Meta /\ Older(metas) \in Meta
        BY Zenon, WriterFacts
    <1>5. \A r \in Nat : r <= mti_txnid /\ Intact(metas[r % 2], cache) =>
              Intact(metas[r % 2], cache')
        <2> SUFFICES ASSUME NEW r \in Nat, r <= mti_txnid, Intact(metas[r % 2], cache)
                     PROVE  Intact(metas[r % 2], cache')
            BY Zenon
        <2>1. metas[r % 2] \in {Newest(metas), Older(metas)} /\ metas[r % 2] \in Meta
            BY Zenon, <1>0, <1>4, NamedMeta DEF PageInv
        <2>2. TxnSpares(txn, metas[r % 2]) /\ Pages(metas[r % 2]) \subseteq Pgno
            BY Zenon, <1>4, <2>1, MetaFacts DEF SparesAll
        <2> QED BY Zenon, <2>2
    <1>6. LockOK'
        <2>1. LockOK /\ env[p].pc # "closed"
            BY Zenon DEF PageInv, Building
        <2>2. \A q \in Procs : env[q].pc \in Committing => env'[q].pc \in Committing
            BY Zenon DEF Moves, Building, Committing
        <2>3. mti_txnid <= mti_txnid
            BY <1>4
        <2>4. Intact(metas[mti_txnid % 2], cache')
            BY Zenon, <1>4, <1>5, <2>1, <2>3 DEF LockOK
        <2> QED BY Zenon, <1>1, <2>1, <2>2, <2>4 DEF LockOK
    <1>7. ASSUME NEW q \in Procs PROVE WriterOK(q)'
        <2>1. CASE q = p
            <3>1. /\ mti_txnid' = Newest(metas').txnid /\ txn'.id \in TxnId /\ txn'.id <= tries' + 2
                BY Zenon, <1>0, <1>1 DEF WriterOK
            <3>2. /\ TxnSpares(txn', Newest(metas')) /\ TxnSpares(txn', Older(metas'))
                  /\ Written(txn', cache', tries')
                BY Zenon, <1>1 DEF SparesAll
            <3> QED BY Zenon, <2>1, <3>1, <3>2 DEF WriterOK, Building, Committing
        <2>2. CASE q # p
            <3>1. env'[q].pc \notin Building \cup Committing \cup {"end"}
                BY Zenon, <1>4, <2>2 DEF Moves
            <3> QED BY Zenon, <3>1 DEF WriterOK, Building
        <2> QED BY Zenon, <2>1, <2>2
    <1>8. ASSUME NEW q \in Procs PROVE ReaderOK(q)'
        <2>1. CASE q = p
            BY Zenon, <2>1, Rests DEF NotReading, Building
        <2>2. CASE q # p
            <3>1. env'[q] = env[q] /\ ReaderOK(q)
                BY Zenon, <2>2 DEF Moves, PageInv
            <3>2. env[q].pc = "copy" => Intact(metas[readers[env[q].slot].txnid % 2], cache')
                <4>1. env[q].pc = "copy" => env[q].slot \in Slot
                    BY Zenon, TableFacts DEF Reading
                <4>2. env[q].slot \in Slot => readers[env[q].slot].txnid \in TxnId \cup {NoTxn}
                    BY Zenon, TableFacts
                <4>3. env[q].pc = "copy" => readers[env[q].slot].txnid \in Nat
                    BY Zenon, <4>1, <4>2, TxnIds
                <4> QED BY Zenon, <1>5, <3>1, <4>3 DEF ReaderOK
            <3>3. env[q].pc = "read" => Intact(env[q].meta, cache')
                <4>1. env[q].meta \in Meta
                    BY Zenon, ProcessFacts DEF PageInv
                <4>2. Pages(env[q].meta) \subseteq Pgno
                    BY Zenon, <4>1, MetaFacts
                <4>3. env[q].pc = "read" =>
                          TxnSpares(txn, env[q].meta) /\ Intact(env[q].meta, cache)
                    BY Zenon, <1>4, <3>1 DEF SparesAll, ReaderOK
                <4> QED BY Zenon, <4>2, <4>3
            <3> QED BY Zenon, <1>1, <3>1, <3>2, <3>3 DEF ReaderOK
        <2> QED BY Zenon, <2>1, <2>2
    <1>9. ASSUME NEW q \in Procs PROVE Undisturbed(q)'
        <2>1. CASE q = p
            BY Zenon, <2>1, Rests DEF NotReading, Building
        <2>2. CASE q # p
            <3>1. env'[q] = env[q]
                BY Zenon, <2>2 DEF Moves
            <3> QED BY Zenon, <3>1 DEF Undisturbed, SparesAll
        <2> QED BY Zenon, <2>1, <2>2
    <1> QED BY Zenon, <1>2, <1>3, <1>6, <1>7, <1>8, <1>9 DEF PageInv

\* A step in which the writer changes no file.
LEMMA WriterKeeps ==
    ASSUME PageInv, Inv, NEW p \in Procs, env[p].pc \in Building, Moves(p),
           UNCHANGED <<files, locks, counts>>, env'[p].pc \in {"write", "save", "flush"},
           SparesAll(txn'), Written(txn', cache, tries), txn'.id = txn.id,
           env'[p].pc = "write" => Good(txn') /\ Growing(txn'),
           env'[p].pc = "save" =>
               /\ Good(txn')
               /\ txn'.error = FALSE => TreeShape(txn'.root)
                    /\ (txn'.loaded = FALSE => txn'.loose = <<>>),
           env'[p].pc = "flush" => Settled(txn')
    PROVE  PageInv'
    <1>1. cache' = cache /\ disk' = disk /\ metas' = metas /\ dmetas' = dmetas
        BY Zenon DEF files
    <1>2. MetasOK(metas, dmetas, cache, disk)'
        BY Zenon, <1>1 DEF PageInv
    <1>3. TypeFiles'
        BY Zenon, TypeParts, TypeSame DEF PageInv
    <1>4. UNCHANGED <<metas, locks, counts>> /\ env'[p].pc \in Building
        BY Zenon DEF files, Building
    <1>5. /\ env'[p].pc # "sync" /\ env'[p].pc # "meta"
          /\ (env'[p].pc \in {"flush", "sync", "meta"} => Settled(txn'))
        BY Zenon
    <1> QED BY Zenon, <1>1, <1>2, <1>3, <1>4, <1>5, BuilderKeeps

\* What is known of the process that has the mutex of the writers.
LEMMA Holder ==
    ASSUME PageInv, Inv, NEW p \in Procs, env[p].pc \in Holding
    PROVE  /\ wmutex = p /\ \A q \in Procs \ {p} : env[q].pc \notin Holding
           /\ env[p].pc # "end" => txn.id = mti_txnid + 1
           /\ env[p].pc \notin Committing => mti_txnid = Newest(metas).txnid
    <1>1. \A q \in Procs : env[q].pc \in Holding =>
              wmutex = q /\ (env[q].pc # "end" => txn.id = mti_txnid + 1)
        BY Zenon DEF Inv, Writes, Writing, Holding, Building, Committing
    <1>2. ASSUME env[p].pc \notin Committing PROVE mti_txnid # Older(metas).txnid
        <2>1. LockOK /\ env[p].pc # "closed" /\ wmutex = p /\ p # OwnerDead
            BY Zenon, <1>1, LmdbAssumption DEF PageInv, Holding, Building, Committing
        <2> QED BY Zenon, <1>2, <2>1 DEF LockOK
    <1>3. mti_txnid \in {Newest(metas).txnid, Older(metas).txnid}
        BY Zenon, Published DEF Holding, Building, Committing
    <1> QED BY Zenon, <1>1, <1>2, <1>3

\* A step of the writer after its pages are on stable storage keeps PageInv if the meta pages
\* are right, and the readers still have their trees.
LEMMA WriterLeaves ==
    ASSUME PageInv, Inv, NEW p \in Procs, env[p].pc \in Holding, Moves(p),
           env'[p].pc \in Committing \cup {"end", "idle"}, cache' = cache, readers' = readers,
           UNCHANGED counts, TypeFiles', TypeLocks', MetasOK(metas, dmetas, cache, disk)',
           Newest(metas').txnid <= tries + 2, LockOK', mti_txnid <= mti_txnid',
           env'[p].pc \in Committing => Newest(metas').txnid = txn'.id,
           \A q \in Procs : env[q].pc = "copy" =>
               Intact(metas'[readers[env[q].slot].txnid % 2], cache),
           \A q \in Procs : env[q].pc = "read" => Follows(Newest(metas'), env[q].meta)
    PROVE  PageInv'
    <1>1. tries' = tries /\ TypeOK'
        BY Zenon, TypeParts, TypeSame DEF PageInv, Moves, counts
    <1>2. (Newest(metas).txnid <= tries + 2)'
        BY Zenon, <1>1
    <1>3. \A q \in Procs : env'[q].pc \notin Building
        <2>1. \A q \in Procs \ {p} : env[q].pc \notin Building
            BY Zenon, Holder DEF Holding
        <2> QED BY Zenon, <2>1 DEF Moves, Building, Committing
    <1>4. ASSUME NEW q \in Procs PROVE WriterOK(q)'
        <2>1. CASE q = p
            BY Zenon, <1>3, <2>1 DEF WriterOK, Building
        <2>2. CASE q # p
            <3>1. env'[q].pc \notin Committing \cup Building
                BY Zenon, <2>2, Holder DEF Holding, Moves
            <3> QED BY Zenon, <3>1 DEF WriterOK, Building
        <2> QED BY Zenon, <2>1, <2>2
    <1>5. ASSUME NEW q \in Procs PROVE ReaderOK(q)'
        <2>1. CASE q = p
            BY Zenon, <2>1, Rests DEF NotReading, Committing
        <2>2. CASE q # p
            <3>1. env'[q] = env[q] /\ ReaderOK(q)
                BY Zenon, <2>2 DEF Moves, PageInv
            <3>2. /\ env[q].floor \in Nat /\ env[q].seen \in Nat
                  /\ env[q].pc \in {"check", "copy"} => readers[env[q].slot].txnid \in Nat
                BY Zenon, ProcessFacts, TableFacts, TxnIds DEF PageInv, Reading
            <3>3. mti_txnid \in Nat /\ mti_txnid' \in Nat
                BY Zenon, TypeParts, TxnIds DEF PageInv, TypeLocks
            <3>0. \A x \in Nat : x <= mti_txnid => x <= mti_txnid'
                BY <3>3
            <3>4. /\ env'[q].pc \in {"claim", "load"} => env'[q].floor <= mti_txnid'
                  /\ env'[q].pc = "store" =>
                         env'[q].floor <= env'[q].seen /\ env'[q].seen <= mti_txnid'
                  /\ env'[q].pc \in {"check", "copy"} =>
                        /\ env'[q].floor <= readers'[env'[q].slot].txnid
                        /\ readers'[env'[q].slot].txnid <= mti_txnid'
                BY Zenon, <3>0, <3>1, <3>2 DEF ReaderOK
            <3>5. /\ env'[q].pc = "copy" => Intact(metas'[readers'[env'[q].slot].txnid % 2], cache')
                  /\ env'[q].pc = "read" =>
                        /\ Intact(env'[q].meta, cache')
                        /\ Follows(Newest(metas'), env'[q].meta)
                        /\ env'[q].meta.txnid >= env'[q].txnid
                        /\ env'[q].txnid = readers'[env'[q].slot].txnid
                BY Zenon, <3>1 DEF ReaderOK
            <3> QED BY Zenon, <3>4, <3>5 DEF ReaderOK
        <2> QED BY Zenon, <2>1, <2>2
    <1>6. ASSUME NEW q \in Procs PROVE Undisturbed(q)'
        BY Zenon, <1>3 DEF Undisturbed
    <1> QED BY Zenon, <1>1, <1>2, <1>4, <1>5, <1>6 DEF PageInv

\* When the meta pages stay, so does what the readers have.
LEMMA ReadersStay ==
    ASSUME PageInv, metas' = metas
    PROVE  /\ \A q \in Procs : env[q].pc = "copy" =>
                  Intact(metas'[readers[env[q].slot].txnid % 2], cache)
           /\ \A q \in Procs : env[q].pc = "read" => Follows(Newest(metas'), env[q].meta)
           /\ Newest(metas').txnid <= tries + 2
    BY Zenon DEF PageInv, ReaderOK

\* Both meta pages and all pages are on stable storage.
LEMMA AllSaved ==
    ASSUME NEW ms, NEW dms, NEW c, NEW d, MetasOK(ms, dms, c, d)
    PROVE  MetasOK(ms, ms, c, c)
    <1>1. PICK h \in 0..1 : MetasAt(h, ms, dms, c, d)
        BY Zenon DEF MetasOK
    <1>2. MetasAt(h, ms, ms, c, c)
        BY Zenon, <1>1 DEF MetasAt
    <1> QED BY Zenon, <1>2 DEF MetasOK

\* Nobody reads or writes.
LEMMA AllClosed ==
    ASSUME TypeOK', MetasOK(metas, dmetas, cache, disk)', (Newest(metas).txnid <= tries + 2)',
           LockOK',
           \A q \in Procs : env'[q].pc \in {"closed", "idle"}
    PROVE  PageInv'
    <1>1. ASSUME NEW q \in Procs PROVE WriterOK(q)' /\ ReaderOK(q)' /\ Undisturbed(q)'
        <2>1. env'[q].pc \in {"closed", "idle"}
            BY Zenon
        <2>2. ReaderOK(q)' /\ Undisturbed(q)'
            BY Zenon, <2>1, Rests DEF NotReading
        <2>3. WriterOK(q)'
            BY Zenon, <2>1 DEF WriterOK, Building, Committing
        <2> QED BY Zenon, <2>2, <2>3
    <1> QED BY Zenon, <1>1 DEF PageInv

(*************************************************************************)
(* The steps.                                                            *)
(*************************************************************************)

\* The sync of the pages of a commit.
LEMMA PSync == ASSUME PageInv, Inv, NEW p \in Procs, Sync(p) PROVE PageInv'
    <1>1. /\ env[p].pc = "sync" /\ disk' = cache /\ dmetas' = metas
          /\ env' = [env EXCEPT ![p].pc = "meta"]
          /\ UNCHANGED <<cache, metas, locks, txn, counts>>
        BY Zenon DEF Sync
    <1>2. Settled(txn) /\ txn.dirty = {} /\ env[p].pc \in Building
        BY Zenon, <1>1 DEF PageInv, WriterOK, Building
    <1>3. TypeFiles /\ TypeEnv
        BY Zenon, TypeParts DEF PageInv
    <1>4. TypeFiles'
        BY Zenon, <1>1, <1>3 DEF TypeFiles
    <1>5. MetasOK(metas, metas, cache, cache)
        BY Zenon, AllSaved DEF PageInv
    <1>6. MetasOK(metas, dmetas, cache, disk)'
        BY Zenon, <1>1, <1>5
    <1>7. Moves(p) /\ env'[p].pc = "meta"
        BY Zenon, <1>1, <1>3, SetPc DEF PC
    <1>8. SparesAll(txn') /\ Written(txn', cache', tries)
        <2>1. SparesAll(txn) /\ Written(txn, cache, tries)
            BY Zenon, <1>2, WriterFacts
        <2> QED BY Zenon, <1>1, <2>1 DEF SparesAll
    <1>9. /\ UNCHANGED <<metas, locks, counts>> /\ env'[p].pc \in Building
          /\ env'[p].pc # "write" /\ env'[p].pc # "save" /\ disk' = cache' /\ dmetas' = metas'
        BY Zenon, <1>1, <1>7 DEF Building
    <1> QED BY Zenon, <1>1, <1>2, <1>4, <1>6, <1>7, <1>8, <1>9, BuilderKeeps

\* mdb_env_sync of any process.
LEMMA PEnvSync == ASSUME PageInv, Inv, NEW p \in Procs, EnvSync(p) PROVE PageInv'
    <1>1. /\ disk' = cache /\ dmetas' = metas
          /\ UNCHANGED <<cache, metas, locks, env, txn, counts>>
        BY Zenon DEF EnvSync
    <1>2. TypeFiles /\ TypeEnv /\ TypeLocks /\ TypeCounts
        BY Zenon, TypeParts DEF PageInv
    <1>3. TypeFiles'
        BY Zenon, <1>1, <1>2 DEF TypeFiles
    <1>4. TypeOK'
        BY Zenon, <1>1, <1>2, <1>3, TypeParts, TypeSame
    <1>5. MetasOK(metas, metas, cache, cache)
        BY Zenon, AllSaved DEF PageInv
    <1>6. MetasOK(metas, dmetas, cache, disk)'
        BY Zenon, <1>1, <1>5
    <1>7. /\ mti_txnid' = mti_txnid /\ wmutex' = wmutex /\ tries' = tries /\ readers' = readers
          /\ env' = env /\ txn' = txn /\ cache' = cache /\ metas' = metas
        BY Zenon, <1>1 DEF counts, locks
    <1>8. (Newest(metas).txnid <= tries + 2)' /\ LockOK'
        BY Zenon, <1>7 DEF PageInv, LockOK
    <1>9. ASSUME NEW q \in Procs PROVE WriterOK(q)' /\ ReaderOK(q)' /\ Undisturbed(q)'
        <2>1. WriterOK(q) /\ ReaderOK(q) /\ Undisturbed(q)
            BY Zenon DEF PageInv
        <2>2. disk' = cache' /\ dmetas' = metas'
            BY Zenon, <1>1
        <2>3. WriterOK(q)'
            BY Zenon, <1>7, <2>1, <2>2 DEF WriterOK
        <2>4. ReaderOK(q)' /\ Undisturbed(q)'
            BY Zenon, <1>7, <2>1 DEF ReaderOK, Undisturbed
        <2> QED BY Zenon, <2>3, <2>4
    <1> QED BY Zenon, <1>4, <1>6, <1>8, <1>9 DEF PageInv

\* The sync of the meta page.
LEMMA PMetaSync == ASSUME PageInv, Inv, NEW p \in Procs, MetaSync(p) PROVE PageInv'
    <1>1. /\ env[p].pc = "metasync" /\ dmetas' = [dmetas EXCEPT ![txn.id % 2] = metas[txn.id % 2]]
          /\ env' = [env EXCEPT ![p].pc = "publish"]
          /\ UNCHANGED <<cache, metas, disk, locks, txn, counts>>
        BY Zenon DEF MetaSync
    <1>2. Newest(metas).txnid = txn.id /\ env[p].pc \in Holding
        BY Zenon, <1>1 DEF PageInv, WriterOK, Holding, Committing
    <1>3. TypeFiles /\ TypeEnv /\ TypeLocks
        BY Zenon, TypeParts DEF PageInv
    <1>4. PICK h \in 0..1 : MetasAt(h, metas, dmetas, cache, disk)
        BY Zenon DEF PageInv, MetasOK
    <1>5. /\ Newest(metas) = metas[h] /\ 1 - h \in 0..1 /\ metas[h] \in Meta
          /\ metas[h].txnid % 2 = h
        BY <1>3, <1>4, NewestAt DEF TypeFiles
    <1>6. dmetas' = [dmetas EXCEPT ![h] = metas[h]] /\ TypeFiles'
        BY Zenon, <1>1, <1>2, <1>3, <1>5 DEF TypeFiles
    <1>7. /\ dmetas'[h] = metas[h] /\ dmetas'[1 - h] = dmetas[1 - h]
          /\ \A i \in 0..1 : i # h => dmetas'[i] = dmetas[i]
        BY <1>3, <1>5, <1>6 DEF TypeFiles
    <1>8. \A i \in 0..1 : Whole(dmetas'[i])
        BY Zenon, <1>4, <1>7 DEF MetasAt
    <1>9. MetasAt(h, metas, dmetas', cache, disk)
        BY Zenon, <1>4, <1>7, <1>8 DEF MetasAt
    <1>10. MetasOK(metas, dmetas, cache, disk)'
        <2>1. MetasOK(metas, dmetas', cache, disk)
            BY Zenon, <1>9 DEF MetasOK
        <2> QED BY Zenon, <1>1, <2>1
    <1>11. Moves(p) /\ env'[p].pc = "publish"
        BY Zenon, <1>1, <1>3, SetPc DEF PC
    <1>12. /\ mti_txnid' = mti_txnid /\ readers' = readers /\ wmutex' = wmutex /\ metas' = metas
           /\ cache' = cache
           /\ UNCHANGED counts /\ mti_txnid \in Nat
        BY Zenon, <1>1, <1>3, TxnIds DEF locks, TypeLocks
    <1>13. TypeLocks'
        BY Zenon, <1>1, <1>3, TypeSame
    <1>14. LockOK'
        <2>1. LockOK
            BY Zenon DEF PageInv
        <2>2. \A q \in Procs : env[q].pc \in Committing => env'[q].pc \in Committing
            BY Zenon, <1>11 DEF Moves, Committing
        <2>3. env[p].pc # "closed"
            BY Zenon, <1>1
        <2> QED BY Zenon, <1>12, <2>1, <2>2, <2>3 DEF LockOK
    <1>15. env'[p].pc \in Committing /\ Newest(metas').txnid = txn'.id /\ mti_txnid <= mti_txnid'
        BY <1>1, <1>2, <1>11, <1>12 DEF Committing
    <1> QED BY Zenon, <1>2, <1>6, <1>10, <1>11, <1>12, <1>13, <1>14, <1>15, WriterLeaves, ReadersStay

\* The txnid is published.
LEMMA PPublish == ASSUME PageInv, Inv, NEW p \in Procs, Publish(p) PROVE PageInv'
    <1>1. /\ env[p].pc = "publish" /\ mti_txnid' = txn.id
          /\ env' = [env EXCEPT ![p].pc = "end"]
          /\ UNCHANGED <<files, readers, numreaders, wmutex, txn, counts>>
        BY Zenon DEF Publish
    <1>2. Newest(metas).txnid = txn.id /\ env[p].pc \in Holding
        BY Zenon, <1>1 DEF PageInv, WriterOK, Holding, Committing
    <1>3. TypeFiles /\ TypeEnv /\ TypeLocks /\ MetasOK(metas, dmetas, cache, disk)
        BY Zenon, TypeParts DEF PageInv
    <1>4. cache' = cache /\ disk' = disk /\ metas' = metas /\ dmetas' = dmetas /\ TypeFiles'
        BY Zenon, <1>1, <1>3, TypeSame DEF files
    <1>5. PICK h \in 0..1 : MetasAt(h, metas, dmetas, cache, disk)
        BY Zenon DEF PageInv, MetasOK
    <1>6. /\ Newest(metas) = metas[h] /\ metas[h] \in Meta /\ metas[h].txnid % 2 = h
          /\ Older(metas) = metas[1 - h] /\ metas[1 - h] \in Meta
        BY <1>3, <1>5, NewestAt DEF TypeFiles
    <1>7. /\ Intact(metas[h], cache) /\ metas[h].txnid = metas[1 - h].txnid + 1
          /\ metas[h].txnid \in Nat /\ metas[1 - h].txnid \in Nat /\ metas[h].txnid \in TxnId
        BY Zenon, <1>5, <1>6, MetaFacts DEF MetasAt
    <1>8. LockOK'
        <2>1. mti_txnid' = Newest(metas').txnid /\ metas'[mti_txnid' % 2] = metas[h]
            BY Zenon, <1>1, <1>2, <1>4, <1>6
        <2>2. Newest(metas').txnid # Older(metas').txnid
            BY <1>4, <1>6, <1>7
        <2>3. Intact(metas'[mti_txnid' % 2], cache')
            BY Zenon, <1>4, <1>7, <2>1
        <2> QED BY Zenon, <2>1, <2>2, <2>3 DEF LockOK
    <1>9. TypeLocks'
        BY Zenon, <1>1, <1>2, <1>3, <1>6, <1>7 DEF TypeLocks
    <1>10. Moves(p) /\ env'[p].pc = "end"
        BY Zenon, <1>1, <1>3, SetPc DEF PC
    <1>11. mti_txnid <= mti_txnid'
        BY Zenon, <1>1, <1>2, <1>6, <1>7, Published
    <1>12. MetasOK(metas, dmetas, cache, disk)'
        BY Zenon, <1>3, <1>4
    <1>13. env'[p].pc \notin Committing /\ readers' = readers /\ UNCHANGED counts
        BY Zenon, <1>1, <1>10 DEF Committing
    <1> QED BY Zenon, <1>2, <1>4, <1>8, <1>9, <1>10, <1>11, <1>12, <1>13, WriterLeaves, ReadersStay

\* A write transaction ends, committed or aborted.
LEMMA PWriteEnd ==
    ASSUME PageInv, Inv, NEW p \in Procs, env[p].pc \in Holding, env[p].pc \notin Committing,
           WriteEnd(p)
    PROVE  PageInv'
    <1>1. /\ env' = [env EXCEPT ![p].pc = "idle"] /\ wmutex' = NoProc
          /\ UNCHANGED <<files, mti_txnid, readers, numreaders, counts>>
        BY Zenon DEF WriteEnd
    <1>2. TypeFiles /\ TypeEnv /\ TypeLocks /\ MetasOK(metas, dmetas, cache, disk)
        BY Zenon, TypeParts DEF PageInv
    <1>3. cache' = cache /\ disk' = disk /\ metas' = metas /\ dmetas' = dmetas /\ TypeFiles'
        BY Zenon, <1>1, <1>2, TypeSame DEF files
    <1>4. mti_txnid = Newest(metas).txnid /\ env[p].pc # "closed"
        BY Zenon, Holder DEF Holding, Building, Committing
    <1>5. Newest(metas).txnid # Older(metas).txnid
        <2>1. PICK h \in 0..1 : MetasAt(h, metas, dmetas, cache, disk)
            BY Zenon DEF PageInv, MetasOK
        <2>2. /\ Newest(metas) = metas[h] /\ Older(metas) = metas[1 - h] /\ metas[1 - h] \in Meta
            BY <1>2, <2>1, NewestAt DEF TypeFiles
        <2>3. metas[h].txnid = metas[1 - h].txnid + 1 /\ metas[1 - h].txnid \in Nat
            BY Zenon, <2>1, <2>2, MetaFacts DEF MetasAt
        <2> QED BY <2>2, <2>3
    <1>6. LockOK'
        <2>1. Intact(metas[mti_txnid % 2], cache) /\ mti_txnid' = mti_txnid
            BY Zenon, <1>1, <1>4, Published
        <2> QED BY Zenon, <1>3, <1>4, <1>5, <2>1 DEF LockOK
    <1>7. TypeLocks' /\ mti_txnid <= mti_txnid'
        BY <1>1, <1>2, TxnIds DEF TypeLocks
    <1>8. Moves(p) /\ env'[p].pc = "idle"
        BY Zenon, <1>1, <1>2, SetPc DEF PC
    <1>9. MetasOK(metas, dmetas, cache, disk)'
        BY Zenon, <1>2, <1>3
    <1>10. env'[p].pc \notin Committing /\ readers' = readers /\ UNCHANGED counts
        BY Zenon, <1>1, <1>8 DEF Committing
    <1> QED BY Zenon, <1>3, <1>6, <1>7, <1>8, <1>9, <1>10, WriterLeaves, ReadersStay

\* The first process to open the environment makes its lock file.
LEMMA POpen == ASSUME PageInv, Inv, NEW p \in Procs, Open(p) PROVE PageInv'
    <1>1. /\ env[p].pc = "closed" /\ env' = [env EXCEPT ![p].pc = "idle"]
          /\ UNCHANGED <<files, txn, counts>>
        BY Zenon DEF Open
    <1>2. TypeFiles /\ TypeEnv /\ TypeLocks /\ TypeCounts /\ MetasOK(metas, dmetas, cache, disk)
        BY Zenon, TypeParts DEF PageInv
    <1>3. /\ cache' = cache /\ disk' = disk /\ metas' = metas /\ dmetas' = dmetas /\ tries' = tries
          /\ TypeFiles' /\ TypeCounts'
        BY Zenon, <1>1, <1>2, TypeSame DEF files, counts
    <1>4. Moves(p) /\ env'[p].pc = "idle"
        BY Zenon, <1>1, <1>2, SetPc DEF PC
    <1>5. MetasOK(metas, dmetas, cache, disk)' /\ (Newest(metas).txnid <= tries + 2)'
        BY Zenon, <1>2, <1>3 DEF PageInv
    <1>6. ReaderOK(p)' /\ Undisturbed(p)'
        BY Zenon, <1>4, Rests DEF NotReading
    <1>7. CASE \A q \in Procs : env[q].pc = "closed"
        <2>1. /\ mti_txnid' = Newest(metas).txnid /\ readers' = NoReaders /\ numreaders' = 0
              /\ wmutex' = NoProc
            BY Zenon, <1>7 DEF Open
        <2>2. PICK h \in 0..1 : MetasAt(h, metas, dmetas, cache, disk)
            BY Zenon DEF PageInv, MetasOK
        <2>3. /\ Newest(metas) = metas[h] /\ metas[h] \in Meta /\ metas[h].txnid % 2 = h
              /\ Older(metas) = metas[1 - h] /\ metas[1 - h] \in Meta
            BY <1>2, <2>2, NewestAt DEF TypeFiles
        <2>4. /\ Intact(metas[h], cache) /\ metas[h].txnid = metas[1 - h].txnid + 1
              /\ metas[h].txnid \in Nat /\ metas[1 - h].txnid \in Nat /\ metas[h].txnid \in TxnId
            BY Zenon, <2>2, <2>3, MetaFacts DEF MetasAt
        <2>5. LockOK'
            <3>1. mti_txnid' = Newest(metas').txnid /\ metas'[mti_txnid' % 2] = metas[h]
                BY Zenon, <1>3, <2>1, <2>3
            <3>2. Newest(metas').txnid # Older(metas').txnid
                BY <1>3, <2>3, <2>4
            <3>3. Intact(metas'[mti_txnid' % 2], cache')
                BY Zenon, <1>3, <2>4, <3>1
            <3> QED BY Zenon, <3>1, <3>2, <3>3 DEF LockOK
        <2>6. NoReaders \in [Slot -> [pid : Procs \cup {NoProc}, txnid : TxnId \cup {NoTxn}]]
            BY Zenon, TxnIds DEF NoReaders
        <2>7. TypeLocks'
            BY <1>2, <2>1, <2>3, <2>4, <2>6, LmdbAssumption DEF TypeLocks
        <2>8. TypeOK'
            BY Zenon, <1>3, <1>4, <2>7, TypeParts DEF Moves
        <2>9. \A q \in Procs : env'[q].pc \in {"closed", "idle"}
            BY Zenon, <1>4, <1>7 DEF Moves
        <2> QED BY Zenon, <1>5, <2>5, <2>8, <2>9, AllClosed
    <1>8. CASE \E q \in Procs : env[q].pc # "closed"
        <2>1. UNCHANGED locks
            BY Zenon, <1>8 DEF Open
        <2>2. /\ mti_txnid' = mti_txnid /\ wmutex' = wmutex /\ readers' = readers /\ txn' = txn
              /\ TypeLocks'
            BY Zenon, <1>1, <1>2, <2>1, TypeSame DEF locks
        <2>3. TypeOK'
            BY Zenon, <1>3, <1>4, <2>2, TypeParts DEF Moves
        <2>4. \A q \in Procs : env[q].pc \in Committing => q # p /\ env'[q].pc \in Committing
            BY Zenon, <1>1, <1>4 DEF Moves, Committing
        <2>5. LockOK'
            BY Zenon, <1>3, <1>8, <2>2, <2>4 DEF PageInv, LockOK
        <2>6. ASSUME NEW q \in Procs \ {p} PROVE WriterOK(q)' /\ ReaderOK(q)' /\ Undisturbed(q)'
            <3>1. env'[q] = env[q]
                BY Zenon, <1>4 DEF Moves
            <3>2. WriterOK(q)'
                BY Zenon, <1>3, <2>2, <3>1 DEF PageInv, WriterOK
            <3>3. ReaderOK(q)'
                BY Zenon, <1>3, <2>2, <3>1 DEF PageInv, ReaderOK
            <3>4. \A r \in Procs : env'[r].pc \in Building => env[r].pc \in Building
                BY Zenon, <1>4 DEF Moves, Building
            <3>5. Undisturbed(q)'
                BY Zenon, <2>2, <3>1, <3>4 DEF PageInv, Undisturbed
            <3> QED BY Zenon, <3>2, <3>3, <3>5
        <2>7. WriterOK(p)'
            BY Zenon, <1>4 DEF WriterOK, Building, Committing
        <2> QED BY Zenon, <1>5, <1>6, <2>3, <2>5, <2>6, <2>7 DEF PageInv
    <1> QED BY Zenon, <1>7, <1>8

\* A process dies: its slot, its mutex and what it wrote stay.
LEMMA PDie == ASSUME PageInv, Inv, NEW p \in Procs, Die(p) PROVE PageInv'
    <1>1. /\ env[p].pc # "closed" /\ tries + faults < MaxEvents /\ faults' = faults + 1
          /\ env' = [env EXCEPT ![p] = Closed]
          /\ wmutex' = (IF wmutex = p THEN OwnerDead ELSE wmutex)
          /\ (wmutex # p => txn' = txn)
          /\ UNCHANGED <<files, mti_txnid, readers, numreaders, tries, setup>>
        BY Zenon DEF Die
    <1>2. TypeFiles /\ TypeEnv /\ TypeLocks /\ TypeCounts /\ MetasOK(metas, dmetas, cache, disk)
        BY Zenon, TypeParts DEF PageInv
    <1>3. /\ cache' = cache /\ disk' = disk /\ metas' = metas /\ dmetas' = dmetas /\ tries' = tries
          /\ mti_txnid' = mti_txnid /\ readers' = readers /\ TypeFiles'
        BY Zenon, <1>1, <1>2, TypeSame DEF files
    <1>4. Moves(p) /\ env'[p] = Closed
        BY Zenon, <1>1, <1>2, ClosedType, SetEntry
    <1>5. env'[p].pc = "closed"
        BY Zenon, <1>4, ClosedProcess
    <1>6. MetasOK(metas, dmetas, cache, disk)' /\ (Newest(metas).txnid <= tries + 2)'
        BY Zenon, <1>2, <1>3 DEF PageInv
    <1>7. TypeOK'
        <2>1. TypeLocks'
            BY Zenon, <1>1, <1>2 DEF TypeLocks
        <2>2. TypeCounts'
            BY <1>1, <1>2, LmdbAssumption DEF TypeCounts
        <2> QED BY Zenon, <1>3, <1>4, <2>1, <2>2, TypeParts DEF Moves
    <1>8. LockOK'
        <2>1. /\ mti_txnid \in {Newest(metas).txnid, Older(metas).txnid}
              /\ Intact(metas[mti_txnid % 2], cache)
              /\ mti_txnid = Older(metas).txnid =>
                    wmutex = OwnerDead \/ \E q \in Procs : wmutex = q /\ env[q].pc \in Committing
            BY Zenon, <1>1 DEF PageInv, LockOK
        <2>2. ASSUME mti_txnid = Older(metas).txnid
              PROVE  wmutex' = OwnerDead \/ \E q \in Procs : wmutex' = q
                       /\ env'[q].pc \in Committing
            BY Zenon, <1>1, <1>4, <2>1, <2>2 DEF Moves
        <2> QED BY Zenon, <1>3, <2>1, <2>2 DEF LockOK
    <1>9. ASSUME NEW q \in Procs \ {p}, env[q].pc \in Holding PROVE txn' = txn
        <2>1. wmutex = q
            BY Zenon, <1>9, Holder
        <2> QED BY Zenon, <1>1, <2>1
    <1>10. ASSUME NEW q \in Procs \ {p} PROVE WriterOK(q)' /\ ReaderOK(q)' /\ Undisturbed(q)'
        <2>1. env'[q] = env[q]
            BY Zenon, <1>4 DEF Moves
        <2>2. WriterOK(q)'
            <3>1. CASE env[q].pc \in Holding
                BY Zenon, <1>3, <1>9, <2>1, <3>1 DEF PageInv, WriterOK
            <3>2. CASE env[q].pc \notin Holding
                BY Zenon, <2>1, <3>2 DEF WriterOK, Building, Holding
            <3> QED BY Zenon, <3>1, <3>2
        <2>3. ReaderOK(q)'
            BY Zenon, <1>3, <2>1 DEF PageInv, ReaderOK
        <2>4. \A r \in Procs : env'[r].pc \in Building =>
                  r # p /\ env[r].pc \in Building /\ env[r].pc \in Holding
            BY Zenon, <1>4, <1>5 DEF Moves, Building, Holding
        <2>5. Undisturbed(q)'
            BY Zenon, <1>9, <2>1, <2>4 DEF PageInv, Undisturbed
        <2> QED BY Zenon, <2>2, <2>3, <2>5
    <1>11. ReaderOK(p)' /\ Undisturbed(p)'
        BY Zenon, <1>5, Rests DEF NotReading
    <1>12. WriterOK(p)'
        BY Zenon, <1>5 DEF WriterOK, Building, Committing
    <1> QED BY Zenon, <1>6, <1>7, <1>8, <1>10, <1>11, <1>12 DEF PageInv

\* Whatever a crash leaves of the writes since the last sync, one of the two meta pages is the
\* newest, and its tree is intact.
LEMMA CrashKeeps ==
    ASSUME NEW ms \in [0..1 -> Meta], NEW dms \in [0..1 -> Meta], NEW c, NEW d,
           MetasOK(ms, dms, c, d),
           NEW ns \in [0..1 -> Meta], \A i \in 0..1 : ns[i] \in {ms[i], dms[i]},
           NEW e, \A pg \in Pgno : e[pg] \in {c[pg], d[pg]}
    PROVE  MetasOK(ns, ns, e, e) /\ Newest(ns).txnid <= Newest(ms).txnid
    <1>1. PICK h \in 0..1 : MetasAt(h, ms, dms, c, d)
        BY Zenon DEF MetasOK
    <1>2. /\ Newest(ms) = ms[h] /\ 1 - h \in 0..1 /\ 1 - (1 - h) = h /\ ms[h] \in Meta
          /\ ms[1 - h] \in Meta
          /\ ms[h].txnid % 2 = h /\ ms[1 - h].txnid % 2 = 1 - h
        BY <1>1, NewestAt
    <1>3. \A i \in 0..1 : i = h \/ i = 1 - h
        OBVIOUS
    <1>4. ASSUME NEW m \in Meta, Intact(m, c), Intact(m, d) PROVE Intact(m, e)
        <2> SUFFICES ASSUME NEW n \in Position, m.root[n] # NoPage
                     PROVE  e[m.root[n]] = [node |-> n, try |-> m.by[n]]
            BY Zenon DEF Intact
        <2>1. m.root[n] \in Pgno
            BY Zenon, MetaFacts
        <2>2. /\ c[m.root[n]] = [node |-> n, try |-> m.by[n]]
              /\ d[m.root[n]] = [node |-> n, try |-> m.by[n]]
            BY Zenon, <1>4 DEF Intact
        <2> QED BY Zenon, <2>1, <2>2
    <1>5. ns[1 - h] = ms[1 - h]
        BY Zenon, <1>1, <1>2 DEF MetasAt
    <1>6. CASE ns[h] = ms[h]
        <2>1. MetasAt(h, ns, ns, e, e)
            <3>1. \A i \in 0..1 : ns[i].txnid % 2 = i /\ Whole(ns[i])
                BY Zenon, <1>1, <1>3, <1>5, <1>6 DEF MetasAt
            <3>2. ns[h].txnid = ns[1 - h].txnid + 1 /\ Follows(ns[h], ns[1 - h]) /\ Intact(ns[h], e)
                BY Zenon, <1>1, <1>2, <1>4, <1>5, <1>6 DEF MetasAt
            <3> QED BY Zenon, <3>1, <3>2 DEF MetasAt
        <2>2. Newest(ns) = ns[h]
            BY <2>1, NewestAt
        <2>3. ms[h].txnid <= ms[h].txnid
            BY <1>2, MetaFacts
        <2> QED BY Zenon, <1>2, <1>6, <2>1, <2>2, <2>3 DEF MetasOK
    <1>7. CASE ns[h] # ms[h]
        <2>1. ns[h] = dms[h] /\ dms[h] # ms[h] /\ dms[h] \in Meta
            BY Zenon, <1>7
        <2>2. Behind(h, ms, dms, c, d)
            BY Zenon, <1>1, <2>1 DEF MetasAt
        <2>3. /\ ms[h].txnid \in Nat /\ ms[1 - h].txnid \in Nat /\ dms[h].txnid \in Nat
              /\ dms[h].txnid + 2 = ms[h].txnid /\ ms[h].txnid = ms[1 - h].txnid + 1
            BY Zenon, <1>1, <1>2, <2>1, <2>2, MetaFacts DEF MetasAt, Behind
        <2>4. /\ dms[h].txnid % 2 = h /\ ms[1 - h].txnid = dms[h].txnid + 1
              /\ ms[1 - h].txnid <= ms[h].txnid
            BY <1>2, <2>3, Halves
        <2>5. MetasAt(1 - h, ns, ns, e, e)
            <3>1. \A i \in 0..1 : ns[i].txnid % 2 = i /\ Whole(ns[i])
                BY Zenon, <1>1, <1>3, <1>5, <2>1, <2>4 DEF MetasAt
            <3>2. Follows(ns[1 - h], ns[h]) /\ Intact(ns[1 - h], e)
                BY Zenon, <1>2, <1>4, <1>5, <2>1, <2>2 DEF Behind
            <3>3. ns[1 - h].txnid = ns[h].txnid + 1
                BY Zenon, <1>5, <2>1, <2>4
            <3> QED BY Zenon, <1>2, <3>1, <3>2, <3>3 DEF MetasAt
        <2>6. Newest(ns) = ns[1 - h]
            BY <1>2, <2>5, NewestAt
        <2> QED BY Zenon, <1>2, <1>5, <2>4, <2>5, <2>6 DEF MetasOK
    <1> QED BY Zenon, <1>6, <1>7

\* The system crashes.
LEMMA PCrash == ASSUME PageInv, Inv, Crash PROVE PageInv'
    <1>1. /\ tries + faults < MaxEvents /\ faults' = faults + 1
          /\ cache' = disk' /\ metas' = dmetas' /\ env' = [p \in Procs |-> Closed]
          /\ mti_txnid' = 0 /\ readers' = NoReaders /\ numreaders' = 0 /\ wmutex' = NoProc
          /\ UNCHANGED <<tries, setup>>
        BY Zenon DEF Crash
    <1>2. TypeFiles /\ TypeEnv /\ TypeLocks /\ TypeCounts /\ MetasOK(metas, dmetas, cache, disk)
        BY Zenon, TypeParts DEF PageInv
    <1>3. PICK ps \in SUBSET Pgno, ms \in SUBSET (0..1) :
              /\ disk' = [p \in Pgno |-> IF p \in ps THEN cache[p] ELSE disk[p]]
              /\ dmetas' = [i \in 0..1 |-> IF i \in ms THEN metas[i] ELSE dmetas[i]]
        BY DEF Crash
    <1>4. TypeFiles' /\ dmetas' \in [0..1 -> Meta]
        BY Zenon, <1>1, <1>2, <1>3 DEF TypeFiles
    <1>5. /\ \A i \in 0..1 : dmetas'[i] \in {metas[i], dmetas[i]}
          /\ \A pg \in Pgno : disk'[pg] \in {cache[pg], disk[pg]}
        BY Zenon, <1>3
    <1>6. MetasOK(dmetas', dmetas', disk', disk') /\ Newest(dmetas').txnid <= Newest(metas).txnid
        BY <1>2, <1>4, <1>5, CrashKeeps DEF TypeFiles
    <1>7. MetasOK(metas, dmetas, cache, disk)'
        BY Zenon, <1>1, <1>6
    <1>8. (Newest(metas).txnid <= tries + 2)'
        <2>1. Newest(dmetas') \in Meta /\ Newest(metas) \in Meta /\ Newest(metas).txnid <= tries + 2
            BY Zenon, <1>2, <1>4, NewestType DEF TypeFiles, PageInv
        <2>2. Newest(dmetas').txnid <= tries + 2
            BY <1>2, <1>6, <2>1, MetaFacts DEF TypeCounts
        <2> QED BY Zenon, <1>1, <2>2
    <1>9. env' \in [Procs -> Process] /\ \A p \in Procs : env'[p].pc = "closed"
        BY Zenon, <1>1, ClosedType, ClosedProcess
    <1>10. TypeOK'
        <2>1. NoReaders \in [Slot -> [pid : Procs \cup {NoProc}, txnid : TxnId \cup {NoTxn}]]
            BY Zenon, TxnIds DEF NoReaders
        <2>2. TypeLocks'
            BY <1>1, <2>1, TxnIds, LmdbAssumption DEF TypeLocks
        <2>3. TypeCounts'
            BY <1>1, <1>2, LmdbAssumption DEF TypeCounts
        <2>4. TypeEnv'
            BY Zenon, <1>9 DEF TypeEnv
        <2> QED BY Zenon, <1>4, <2>2, <2>3, <2>4, TypeParts
    <1>11. LockOK'
        BY Zenon, <1>9 DEF LockOK
    <1> QED BY Zenon, <1>7, <1>8, <1>9, <1>10, <1>11, AllClosed

(*************************************************************************)
(* The first state.                                                      *)
(*************************************************************************)

\* The database that two transactions have made.
LEMMA FirstTwo ==
    ASSUME NEW n \in Leaves, NEW m \in Leaves, NEW f, f = First(n), NEW s, s = Second(n, m)
    PROVE  /\ f \in Meta /\ s \in Meta /\ f.txnid = 1 /\ s.txnid = 2 /\ s.last_pg \in {4, 6}
           /\ f.root[n] = 2 /\ \A k \in Position : k # n => f.root[k] = NoPage
           /\ \A k \in Position : s.root[k] \in 3..s.last_pg \cup {NoPage} /\ f.by[k] = 0
                /\ s.by[k] = 0
           /\ \A pg \in 3..s.last_pg : \E k \in Position : s.root[k] = pg
           /\ OnePosition(s.root) /\ TreeShape(s.root) /\ f.last_pg = 2
           /\ \A k \in TxnId : f.free[k] = {} /\ s.free[k] = IF k = 2 THEN {2} ELSE {}
    <1>1. /\ {n, m, Branch, FreeRoot} \subseteq Position /\ n # Branch /\ n # FreeRoot
          /\ m # Branch /\ m # FreeRoot
          /\ Branch # FreeRoot /\ Branch \notin Leaves /\ FreeRoot \notin Leaves
        BY Zenon, LmdbAssumption DEF Position
    <1>2. /\ {2, 3, 4, 5, 6} \subseteq Pgno /\ 2 \in TxnId /\ 1 \in TxnId /\ 0 \in TxnId
          /\ 0 \in 0..MaxEvents
        BY LmdbAssumption DEF Pgno, TxnId
    <1>3. /\ DOMAIN f = {"txnid", "root", "last_pg", "free", "by"} /\ f.txnid = 1 /\ f.last_pg = 2
          /\ f.root = [[k \in Position |-> NoPage] EXCEPT ![n] = 2]
          /\ f.free = [k \in TxnId |-> {}] /\ f.by = [k \in Position |-> 0]
        BY Zenon DEF First, NoMeta
    <1>4. f.root \in [Position -> Pgno \cup {NoPage}] /\ f.root[n] = 2
            /\ \A k \in Position : k # n => f.root[k] = NoPage
        BY Zenon, <1>1, <1>2, <1>3
    <1>5. f.free \in [TxnId -> SUBSET Pgno] /\ f.by \in [Position -> 0..MaxEvents]
          /\ (\A k \in TxnId : f.free[k] = {}) /\ \A k \in Position : f.by[k] = 0
        BY Zenon, <1>2, <1>3
    <1>6. f \in Meta
        <2>1. NoMeta \in Meta /\ [NoMeta.root EXCEPT ![n] = 2] \in [Position -> Pgno \cup {NoPage}]
            BY Zenon, <1>1, <1>2, NoMetaType DEF Meta
        <2> QED BY Zenon, <1>2, <2>1 DEF Meta, First
    <1> DEFINE root == IF n = m THEN [f.root EXCEPT ![n] = 3, ![FreeRoot] = 4]
                       ELSE [f.root EXCEPT ![n] = 3, ![m] = 4, ![Branch] = 5, ![FreeRoot] = 6]
               last == IF n = m THEN 4 ELSE 6
    <1>7. s = [f EXCEPT !.txnid = 2, !.last_pg = last, !.free[2] = {2}, !.root = root]
        BY DEF Second
    <1>8. \A k \in Position : root[k] = IF k = FreeRoot THEN IF n = m THEN 4 ELSE 6
                                        ELSE IF k = n THEN 3
                                        ELSE IF n # m /\ k = m THEN 4
                                        ELSE IF n # m /\ k = Branch THEN 5 ELSE NoPage
        BY Zenon, <1>1, <1>4
    <1>9. root \in [Position -> Pgno \cup {NoPage}]
        BY Zenon, <1>1, <1>2, <1>4
    <1> HIDE DEF root
    <1>10. s \in Meta /\ s.txnid = 2 /\ s.root = root /\ s.last_pg = (IF n = m THEN 4 ELSE 6)
             /\ s.by = f.by
           /\ \A k \in TxnId : s.free[k] = IF k = 2 THEN {2} ELSE {}
        <2>1. last \in Nat /\ last = IF n = m THEN 4 ELSE 6
            BY Zenon
        <2> HIDE DEF last
        <2>2. /\ s.txnid = 2 /\ s.root = root /\ s.last_pg = last /\ s.by = f.by
              /\ s.free = [f.free EXCEPT ![2] = {2}]
            BY Zenon, <1>3, <1>7
        <2>3. /\ s.free \in [TxnId -> SUBSET Pgno]
              /\ \A k \in TxnId : s.free[k] = IF k = 2 THEN {2} ELSE {}
            <3> DEFINE g == f.free
            <3>1. g \in [TxnId -> SUBSET Pgno] /\ (\A k \in TxnId : g[k] = {})
                    /\ s.free = [g EXCEPT ![2] = {2}]
                BY Zenon, <1>5, <2>2
            <3> HIDE DEF g
            <3> QED BY <1>2, <3>1
        <2>4. s \in Meta
            <3>1. [f EXCEPT !.txnid = 2, !.last_pg = last, !.free =
                      [f.free EXCEPT ![2] = {2}], !.root = root] \in Meta
                BY Zenon, <1>2, <1>6, <1>9, <2>1, <2>2, <2>3 DEF Meta
            <3> QED BY <1>7, <3>1
        <2> QED BY Zenon, <2>1, <2>2, <2>3, <2>4
    <1>11. OnePosition(s.root)
        BY <1>1, <1>8, <1>10 DEF OnePosition, NoPage
    <1>12. TreeShape(s.root)
        <2>1. \A k \in Leaves : k \in Position /\ k # Branch /\ k # FreeRoot
            BY Zenon, <1>1 DEF Position
        <2> QED BY <1>1, <1>8, <1>10, <2>1 DEF TreeShape, NoPage
    <1>13. \A k \in Position : s.root[k] \in 3..s.last_pg \cup {NoPage}
        BY <1>8, <1>10
    <1>14. \A pg \in 3..s.last_pg : \E k \in Position : s.root[k] = pg
        BY <1>1, <1>8, <1>10
    <1> QED BY Zenon, <1>3, <1>4, <1>5, <1>6, <1>10, <1>11, <1>12, <1>13, <1>14

\* PageInv holds at first.
LEMMA InitPages == Init => PageInv
    <1> SUFFICES ASSUME Init PROVE PageInv
        BY Zenon
    <1>1. PICK n \in Leaves, m \in Leaves :
              /\ metas = [i \in 0..1 |-> IF i = 0 THEN Second(n, m) ELSE First(n)]
              /\ cache = [p \in Pgno |->
                     IF p = 2 THEN [node |-> n, try |-> 0]
                     ELSE IF p <= Second(n, m).last_pg
                     THEN [node |-> CHOOSE k \in Position : Second(n, m).root[k] = p, try |-> 0]
                     ELSE Stale]
        BY DEF Init
    <1>2. /\ disk = cache /\ dmetas = metas /\ mti_txnid = 0 /\ readers = NoReaders
          /\ numreaders = 0
          /\ wmutex = NoProc /\ env = [p \in Procs |-> Closed] /\ tries = 0 /\ faults = 0
          /\ setup \in Setups
        BY Zenon DEF Init
    <1> DEFINE f == First(n)
               s == Second(n, m)
    <1>3. /\ f \in Meta /\ s \in Meta /\ f.txnid = 1 /\ s.txnid = 2 /\ s.last_pg \in {4, 6}
          /\ f.root[n] = 2 /\ \A k \in Position : k # n => f.root[k] = NoPage
        BY FirstTwo
    <1>4. /\ \A k \in Position : s.root[k] \in 3..s.last_pg \cup {NoPage} /\ f.by[k] = 0
               /\ s.by[k] = 0
          /\ \A pg \in 3..s.last_pg : \E k \in Position : s.root[k] = pg
          /\ OnePosition(s.root) /\ TreeShape(s.root) /\ f.last_pg = 2
          /\ \A k \in TxnId : f.free[k] = {} /\ s.free[k] = IF k = 2 THEN {2} ELSE {}
        BY FirstTwo
    <1> HIDE DEF f, s
    <1>5. /\ 2 \in TxnId /\ n \in Position /\ {2, 3, 4, 5, 6} \subseteq Pgno
          /\ \A k \in TxnId : k \in Nat
        BY LmdbAssumption DEF TxnId, Position, Pgno
    <1>6. /\ metas = [i \in 0..1 |-> IF i = 0 THEN s ELSE f]
          /\ cache = [p \in Pgno |->
                     IF p = 2 THEN [node |-> n, try |-> 0]
                     ELSE IF p <= s.last_pg
                     THEN [node |-> CHOOSE k \in Position : s.root[k] = p, try |-> 0]
                     ELSE Stale]
        BY Zenon, <1>1 DEF f, s
    <1>7. metas \in [0..1 -> Meta] /\ metas[0] = s /\ metas[1] = f
        BY <1>3, <1>6
    <1>8. ASSUME NEW k \in Position, s.root[k] # NoPage
          PROVE  cache[s.root[k]] = [node |-> k, try |-> 0]
        <2>1. s.root[k] \in 3..s.last_pg /\ s.root[k] \in Pgno /\ s.last_pg \in Nat
            <3>1. s.root[k] \in 3..s.last_pg
                BY Zenon, <1>4, <1>8
            <3> QED BY <1>3, <1>5, <3>1
        <2>2. \A j \in Position : s.root[j] = s.root[k] => j = k
            BY Zenon, <1>4, <1>8 DEF OnePosition
        <2>3. (CHOOSE j \in Position : s.root[j] = s.root[k]) = k
            BY Zenon, <2>2
        <2> HIDE DEF Position
        <2>4. s.root[k] # 2 /\ s.root[k] <= s.last_pg
            BY <2>1
        <2> QED BY Zenon, <1>6, <2>1, <2>3, <2>4
    <1>9. Intact(s, cache)
        BY Zenon, <1>4, <1>8 DEF Intact
    <1>10. cache \in [Pgno -> Content]
        <2>1. ASSUME NEW p \in Pgno, p # 2, p <= s.last_pg
              PROVE  (CHOOSE k \in Position : s.root[k] = p) \in Position
            <3>1. p \in 3..s.last_pg
                BY <1>3, <2>1, LmdbAssumption DEF Pgno
            <3>2. \E k \in Position : s.root[k] = p
                BY Zenon, <1>4, <3>1
            <3> QED BY Zenon, <3>2
        <2>2. 0 \in 0..MaxEvents
            BY LmdbAssumption
        <2> QED BY Zenon, <1>5, <1>6, <2>1, <2>2 DEF Content, Stale
    <1>11. Pages(f) = {2} /\ Records(f.free, TxnId) = {}
        <2>1. Pages(f) = {2}
            BY <1>3, <1>5 DEF Pages, NoPage
        <2>2. Records(f.free, TxnId) = {}
            BY <1>4 DEF Records
        <2> QED BY Zenon, <2>1, <2>2
    <1>12. Pages(s) = 3..s.last_pg /\ Records(s.free, TxnId) = {2}
        <2>1. Pages(s) = 3..s.last_pg
            BY <1>3, <1>4 DEF Pages, NoPage
        <2>2. Records(s.free, TxnId) = {2}
            BY <1>4, <1>5 DEF Records
        <2> QED BY Zenon, <2>1, <2>2
    <1>13. Whole(f)
        <2>1. OnePosition(f.root) /\ TreeShape(f.root)
            BY Zenon, <1>3 DEF OnePosition, TreeShape, Position
        <2>2. Apart(f.free, TxnId) /\ \A k \in TxnId : k = 0 \/ k > f.txnid => f.free[k] = {}
            BY Zenon, <1>4 DEF Apart
        <2>3. Pages(f) \cup Records(f.free, TxnId) = 2..f.last_pg /\ f.last_pg >= 1
              /\ Pages(f) \cap Records(f.free, TxnId) = {}
            BY <1>4, <1>11
        <2> QED BY Zenon, <2>1, <2>2, <2>3 DEF Whole
    <1>14. Whole(s)
        <2>1. Apart(s.free, TxnId)
            BY Zenon, <1>4 DEF Apart
        <2>2. \A k \in TxnId : k = 0 \/ k > s.txnid => s.free[k] = {}
            BY <1>3, <1>4, <1>5
        <2>3. Pages(s) \cup Records(s.free, TxnId) = 2..s.last_pg /\ s.last_pg >= 1
              /\ Pages(s) \cap Records(s.free, TxnId) = {}
            BY <1>3, <1>12
        <2> QED BY Zenon, <1>4, <2>1, <2>2, <2>3 DEF Whole
    <1>15. Follows(s, f)
        <2>1. \A pg \in Pages(f) : pg < s.last_pg + 1
            BY <1>3, <1>11
        <2>2. \A k \in TxnId : k <= f.txnid => s.free[k] \cap Pages(f) = {}
            BY <1>3, <1>4
        <2>3. f.txnid <= s.txnid
            BY <1>3
        <2> QED BY Zenon, <2>1, <2>2, <2>3 DEF Follows, Spares
    <1>16. MetasAt(0, metas, dmetas, cache, disk)
        <2>1. \A i \in 0..1 : i = 0 \/ i = 1
            OBVIOUS
        <2>2. s.txnid % 2 = 0 /\ f.txnid % 2 = 1 /\ s.txnid = f.txnid + 1 /\ 1 - 0 = 1
            BY <1>3
        <2>3. \A i \in 0..1 : metas[i].txnid % 2 = i /\ Whole(metas[i]) /\ Whole(dmetas[i])
            BY Zenon, <1>2, <1>7, <1>13, <1>14, <2>1, <2>2
        <2> QED BY Zenon, <1>2, <1>7, <1>9, <1>15, <2>2, <2>3 DEF MetasAt
    <1>17. MetasOK(metas, dmetas, cache, disk) /\ Newest(metas).txnid <= tries + 2
        <2>1. 0 \in 0..1 /\ 2 <= 0 + 2
            OBVIOUS
        <2>2. Newest(metas) = s
            BY <1>7, <1>16, <2>1, NewestAt
        <2> QED BY Zenon, <1>2, <1>3, <1>16, <2>1, <2>2 DEF MetasOK
    <1>18. env \in [Procs -> Process] /\ \A p \in Procs : env[p].pc = "closed"
        BY Zenon, <1>2, ClosedType, ClosedProcess
    <1>19. TypeOK
        <2>1. NoReaders \in [Slot -> [pid : Procs \cup {NoProc}, txnid : TxnId \cup {NoTxn}]]
            BY Zenon, TxnIds DEF NoReaders
        <2>2. TypeLocks
            BY <1>2, <2>1, TxnIds, LmdbAssumption DEF TypeLocks
        <2>3. TypeCounts
            BY <1>2, LmdbAssumption DEF TypeCounts
        <2>4. TypeEnv /\ TypeFiles
            BY Zenon, <1>2, <1>7, <1>10, <1>18 DEF TypeEnv, TypeFiles
        <2> QED BY Zenon, <2>2, <2>3, <2>4, TypeParts
    <1>20. LockOK
        BY Zenon, <1>18 DEF LockOK
    <1>21. ASSUME NEW q \in Procs PROVE WriterOK(q) /\ ReaderOK(q) /\ Undisturbed(q)
        <2>1. ReaderOK(q) /\ Undisturbed(q)
            BY Zenon, <1>18, Rests DEF NotReading
        <2>2. WriterOK(q)
            BY Zenon, <1>18 DEF WriterOK, Building, Committing
        <2> QED BY Zenon, <2>1, <2>2
    <1> QED BY Zenon, <1>17, <1>19, <1>20, <1>21 DEF PageInv

(*************************************************************************)
(* The refinement: what a meta page leads to is a version, and the view  *)
(* of a reader is the version its own copy of a meta page leads to.      *)
(*************************************************************************)

\* The variables of Snapshots.
Cur == Deref(Newest(metas), cache)
Prior == Deref(Older(metas), cache)
Saved == Deref(Newest(dmetas), disk)
Pub == IF \A p \in Procs : env[p].pc = "closed" THEN Newest(metas).txnid ELSE mti_txnid
Floor == [p \in Readers |-> env[p].floor]
View == [p \in Readers |-> IF env[p].pc = "read" THEN Deref(env[p].meta, cache) ELSE NoProc]

\* A version: its txnid and what is at each position.
Version == [id : Nat, val : [Position -> Content]]

\* What a meta page leads to is a version of the store.
LEMMA Versions ==
    ASSUME NEW m \in Meta, NEW c \in [Pgno -> Content]
    PROVE  Deref(m, c) \in Version /\ Deref(m, c).id = m.txnid
    <1>1. m.txnid \in Nat /\ m.root \in [Position -> Pgno \cup {NoPage}]
        BY Zenon, MetaFacts
    <1>2. Stale \in Content
        BY LmdbAssumption DEF Stale, Content
    <1>3. Tree(m, c) \in [Position -> Content]
        BY Zenon, <1>1, <1>2 DEF Tree
    <1> QED BY Zenon, <1>1, <1>3 DEF Deref, Version

\* The first state of Lmdb is one of the store.
LEMMA InitStore == ASSUME Init, PageInv PROVE Store!Init
    <1>1. /\ disk = cache /\ dmetas = metas /\ env = [p \in Procs |-> Closed]
        BY Zenon DEF Init
    <1>2. metas \in [0..1 -> Meta] /\ cache \in [Pgno -> Content]
        BY Zenon, TypeParts DEF PageInv, TypeFiles
    <1>3. PICK h \in 0..1 : MetasAt(h, metas, dmetas, cache, disk)
        BY Zenon DEF PageInv, MetasOK
    <1>4. /\ Newest(metas) = metas[h] /\ metas[h] \in Meta /\ Older(metas) = metas[1 - h]
          /\ metas[1 - h] \in Meta
        BY <1>2, <1>3, NewestAt
    <1>5. metas[h].txnid = metas[1 - h].txnid + 1 /\ metas[1 - h].txnid \in Nat
        BY Zenon, <1>3, <1>4, MetaFacts DEF MetasAt
    <1>6. Cur \in Version /\ Prior \in Version /\ Prior.id < Cur.id
        <2>1. /\ Cur \in Version /\ Cur.id = metas[h].txnid
              /\ Prior \in Version /\ Prior.id = metas[1 - h].txnid
            BY Zenon, <1>2, <1>4, Versions DEF Cur, Prior
        <2> QED BY <1>5, <2>1
    <1>7. Saved = Cur
        BY Zenon, <1>1 DEF Saved, Cur
    <1>8. \A p \in Procs : env[p].pc = "closed" /\ env[p].floor = 0
        BY Zenon, <1>1 DEF Closed
    <1>9. Pub = Cur.id
        BY Zenon, <1>8 DEF Pub, Cur, Deref
    <1>10. Floor = [p \in Readers |-> 0] /\ View = [p \in Readers |-> NoProc]
        BY Zenon, <1>8, LmdbAssumption DEF Floor, View
    <1> QED BY Zenon, <1>6, <1>7, <1>9, <1>10 DEF Store!Init, Store!Version, Version, Cur, Prior,
               Saved, Pub, Floor, View

\* Every step is a step of the store, or none.
LEMMA NextStore ==
    WellOrdered => (PageInv /\ PageInv' /\ Inv /\ [Next]_vars => [Store!Next]_(Store!vars))
    <1> HAVE WellOrdered
    \* Two copies of a tree that are both intact are the same version.
    <1>SameVersion.
        ASSUME NEW m, NEW c, NEW d, Intact(m, c), Intact(m, d)
        PROVE  Deref(m, c) = Deref(m, d)
        <2> USE <1>SameVersion
        <2>1. Tree(m, c) = Tree(m, d)
            BY Zenon DEF Tree, Intact
        <2> QED BY Zenon, <2>1 DEF Deref
    \* When the files do not change, neither do the versions.
    <1>SameFiles.
        ASSUME UNCHANGED files
        PROVE  Cur' = Cur /\ Prior' = Prior /\ Saved' = Saved /\ cache' = cache /\ metas' = metas
        BY Zenon, <1>SameFiles DEF files, Cur, Prior, Saved
    \* While a process has the environment open, the published version is mti_txnid.
    <1>SamePub.
        ASSUME NEW p \in Procs
        PROVE  /\ env[p].pc # "closed" => Pub = mti_txnid
               /\ env'[p].pc # "closed" => Pub' = mti_txnid'
        BY Zenon, <1>SamePub DEF Pub
    \* A step of p changes the view of p only.
    <1>OneMoves.
        ASSUME NEW p \in Procs, \A q \in Procs \ {p} : env'[q] = env[q], cache' = cache
        PROVE  /\ p \notin Readers => Floor' = Floor /\ View' = View
               /\ p \in Readers =>
                     /\ Floor' = [Floor EXCEPT ![p] = env'[p].floor]
                     /\ View' = [View EXCEPT ![p] =
                            IF env'[p].pc = "read" THEN Deref(env'[p].meta, cache) ELSE NoProc]
                     /\ env[p].pc # "read" => View[p] = NoProc
        <2> USE <1>OneMoves
        <2>1. Readers \subseteq Procs
            BY Zenon, LmdbAssumption
        <2>2. p \notin Readers => Floor' = Floor /\ View' = View
            BY Zenon, <2>1 DEF Floor, View
        <2>3. ASSUME p \in Readers
              PROVE  /\ Floor' = [Floor EXCEPT ![p] = env'[p].floor]
                     /\ View' = [View EXCEPT ![p] =
                            IF env'[p].pc = "read" THEN Deref(env'[p].meta, cache) ELSE NoProc]
                     /\ env[p].pc # "read" => View[p] = NoProc
            BY Zenon, <2>1, <2>3 DEF Floor, View
        <2> QED BY Zenon, <2>2, <2>3
    \* A step that changes none of it is no step of the store.
    <1>Stutters.
        ASSUME Cur' = Cur, Prior' = Prior, Saved' = Saved, Pub' = Pub, Floor' = Floor, View' = View
        PROVE  [Store!Next]_(Store!vars)
        BY Zenon, <1>Stutters, Zenon DEF Store!vars, Cur, Prior, Saved, Pub, Floor, View
    \* A step of p in which it neither begins nor ends to read.
    <1>Quiet.
        ASSUME NEW p \in Procs, \A q \in Procs \ {p} : env'[q] = env[q], cache' = cache,
               env[p].pc # "read", env'[p].pc # "read", env'[p].floor = env[p].floor
        PROVE  Floor' = Floor /\ View' = View
        <2> USE <1>Quiet
        <2>1. Readers \subseteq Procs
            BY Zenon, LmdbAssumption
        <2> QED BY Zenon, <2>1 DEF Floor, View
    \* Such a step that leaves the files alone is no step of the store.
    <1>QuietStep.
        ASSUME NEW p \in Procs, \A q \in Procs \ {p} : env'[q] = env[q], UNCHANGED files,
               mti_txnid' = mti_txnid,
               env[p].pc \notin {"closed", "read"}, env'[p].pc \notin {"closed", "read"},
               env'[p].floor = env[p].floor
        PROVE  [Store!Next]_(Store!vars)
        BY Zenon, <1>QuietStep, <1>SameFiles, <1>SamePub, <1>Quiet, <1>Stutters
    \* The step of the store that publishes a version.
    <1>SPublish.
        ASSUME Cur' = Cur, Prior' = Prior, Saved' = Saved, Pub' \in {Pub, Cur.id}, Floor' = Floor,
               View' = View
        PROVE  [Store!Next]_(Store!vars)
        <2> USE <1>SPublish
        <2>1. CASE Pub' = Pub
            BY Zenon, <2>1, <1>Stutters
        <2>2. CASE Pub' = Cur.id
            <3>1. Store!Publish
                BY Zenon, <2>2 DEF Store!Publish, Cur, Prior, Saved, Pub, Floor, View
            <3> QED BY Zenon, <3>1 DEF Store!Next
        <2> QED BY Zenon, <2>1, <2>2
    \* The step of the store that saves a version.
    <1>SSave.
        ASSUME Cur' = Cur, Prior' = Prior, Saved' = Cur, Pub' = Pub, Floor' = Floor, View' = View
        PROVE  [Store!Next]_(Store!vars)
        <2> USE <1>SSave
        <2>1. Store!Save
            BY Zenon DEF Store!Save, Cur, Prior, Saved, Pub, Floor, View
        <2> QED BY Zenon, <2>1 DEF Store!Next
    \* The step of the store that ends a view.
    <1>SEnd.
        ASSUME NEW p \in Readers, Cur' = Cur, Prior' = Prior, Saved' = Saved,
               Pub' \in {Pub, Cur.id},
               Floor' = [Floor EXCEPT ![p] = 0], View' = [View EXCEPT ![p] = NoProc]
        PROVE  [Store!Next]_(Store!vars)
        <2> USE <1>SEnd
        <2>1. Store!End(p)
            BY Zenon DEF Store!End, Cur, Prior, Saved, Pub, Floor, View
        <2> QED BY Zenon, <2>1 DEF Store!Next
    \* The step of the store that asks for a view.
    <1>SAsk.
        ASSUME NEW p \in Readers, Cur' = Cur, Prior' = Prior, Saved' = Saved, Pub' = Pub,
               View' = View,
               Floor' = [Floor EXCEPT ![p] = Pub], View[p] = NoProc
        PROVE  [Store!Next]_(Store!vars)
        <2> USE <1>SAsk
        <2>1. Store!Ask(p)
            BY Zenon DEF Store!Ask, Cur, Prior, Saved, Pub, Floor, View
        <2> QED BY Zenon, <2>1 DEF Store!Next
    \* The step of the store that gives a view.
    <1>SBegin.
        ASSUME NEW p \in Readers, Cur' = Cur, Prior' = Prior, Saved' = Saved, Pub' = Pub,
               Floor' = Floor,
               NEW v \in {Cur, Prior}, v.id >= Floor[p], View' = [View EXCEPT ![p] = v], View[p] =
                   NoProc
        PROVE  [Store!Next]_(Store!vars)
        <2> USE <1>SBegin
        <2>1. Store!Begin(p)
            BY Zenon DEF Store!Begin, Cur, Prior, Saved, Pub, Floor, View
        <2> QED BY Zenon, <2>1 DEF Store!Next
    \* The step of the store that commits a version.
    <1>SCommit.
        ASSUME Saved = Cur, Cur'.id = Cur.id + 1, Cur' \in Version, Prior' = Cur,
               Saved' = Saved, Pub' = Pub, Floor' = Floor, View' = View
        PROVE  [Store!Next]_(Store!vars)
        <2> USE <1>SCommit
        <2>1. Store!Commit
            BY Zenon DEF Store!Commit, Store!Version, Version, Cur, Prior, Saved, Pub, Floor, View
        <2> QED BY Zenon, <2>1 DEF Store!Next
    \* The step of the store in which it crashes.
    <1>SCrash.
        ASSUME Cur' \in {Cur, Saved}, Saved' = Cur', Pub' = Cur'.id, Prior' \in Version,
               Prior'.id < Cur'.id,
               Floor' = [p \in Readers |-> 0], View' = [p \in Readers |-> NoProc]
        PROVE  [Store!Next]_(Store!vars)
        <2> USE <1>SCrash
        <2>1. Store!Crash
            BY Zenon DEF Store!Crash, Store!Version, Version, Cur, Prior, Saved, Pub, Floor, View
        <2> QED BY Zenon, <2>1 DEF Store!Next
    \* What a reader does to its slot is no step of the store.
    <1>QuietReader.
        ASSUME PageInv, Inv, NEW p \in Procs,
               ReadLoad(p) \/ ReadStore(p) \/ ReadCheck(p) \/ ThreadExit(p) \/ CheckReaders(p)
        PROVE  [Store!Next]_(Store!vars)
        <2> USE <1>QuietReader
        <2>1. TypeEnv
            BY Zenon, TableFacts
        <2>2. /\ UNCHANGED files /\ mti_txnid' = mti_txnid /\ env[p].pc \notin {"closed", "read"}
            BY Zenon DEF ReadLoad, ReadStore, ReadCheck, ThreadExit, CheckReaders, locks
        <2>3. /\ \A q \in Procs \ {p} : env'[q] = env[q]
              /\ env'[p].pc \notin {"closed", "read"} /\ env'[p].floor = env[p].floor
            <3>1. CASE ReadLoad(p)
                BY <2>1, <3>1 DEF ReadLoad, TypeEnv, Process
            <3>2. CASE ReadStore(p)
                BY Zenon, <2>1, <3>2 DEF ReadStore, TypeEnv, Process
            <3>3. CASE ReadCheck(p)
                BY Zenon, <2>1, <3>3 DEF ReadCheck, TypeEnv, Process
            <3>4. CASE ThreadExit(p)
                BY Zenon, <2>1, <3>4 DEF ThreadExit, TypeEnv, Process
            <3>5. CASE CheckReaders(p)
                BY Zenon, <2>1, <3>5 DEF CheckReaders
            <3> QED BY Zenon, <3>1, <3>2, <3>3, <3>4, <3>5
        <2> QED BY Zenon, <2>2, <2>3, <1>QuietStep
    \* What a writer does before its first page is written is no step of the store.
    <1>QuietWriter.
        ASSUME PageInv, Inv, NEW p \in Procs,
               \/ Touch(p) \/ Abort(p) \/ Commit(p) \/ Save(p) \/ Finish(p)
               \/ \E n \in Leaves : Put(p, n)
               \/ \E n, m \in Leaves : Split(p, m, n) \/ Merge(p, n, m)
        PROVE  [Store!Next]_(Store!vars)
        <2> USE <1>QuietWriter
        <2>1. TypeEnv
            BY Zenon, TableFacts
        <2>2. ASSUME NEW o, env' = [env EXCEPT ![p].pgoldest = o], env[p].pc \in {"write", "save"}
              PROVE  /\ \A q \in Procs \ {p} : env'[q] = env[q]
                     /\ env'[p].pc \notin {"closed", "read"} /\ env'[p].floor = env[p].floor
            BY Zenon, <2>1, <2>2 DEF TypeEnv, Process
        <2>3. ASSUME NEW o, NEW x \in {"save", "flush"},
                     env' = [env EXCEPT ![p].pc = x, ![p].pgoldest = o]
              PROVE  /\ \A q \in Procs \ {p} : env'[q] = env[q]
                     /\ env'[p].pc \notin {"closed", "read"} /\ env'[p].floor = env[p].floor
            BY <2>1, <2>3 DEF TypeEnv, Process
        <2>4. /\ UNCHANGED files /\ mti_txnid' = mti_txnid /\ env[p].pc \notin {"closed", "read"}
            BY Zenon DEF Touch, Abort, Commit, Save, Finish, Put, Split, Merge, Update, WriteEnd, locks
        <2>5. /\ \A q \in Procs \ {p} : env'[q] = env[q]
              /\ env'[p].pc \notin {"closed", "read"} /\ env'[p].floor = env[p].floor
            <3>1. CASE Touch(p)
                BY Zenon, <2>2, <3>1 DEF Touch
            <3>2. CASE Abort(p) \/ Finish(p)
                BY <2>1, <3>2 DEF Abort, Finish, WriteEnd, TypeEnv, Process
            <3>3. CASE Commit(p)
                BY Zenon, <2>3, <3>3 DEF Commit
            <3>4. CASE Save(p)
                <4>1. /\ env[p].pc = "save"
                      /\ \/ \E o : env' = [env EXCEPT ![p].pgoldest = o]
                         \/ env' = [env EXCEPT ![p].pc = "flush"]
                    BY Zenon, <3>4 DEF Save
                <4>2. CASE env' = [env EXCEPT ![p].pc = "flush"]
                    BY Zenon, <2>1, <4>2 DEF TypeEnv, Process
                <4> QED BY Zenon, <2>2, <4>1, <4>2
            <3>5. CASE \/ \E n \in Leaves : Put(p, n)
                       \/ \E n, m \in Leaves : Split(p, m, n) \/ Merge(p, n, m)
                BY Zenon, <2>1, <3>5 DEF Put, Split, Merge, Update
            <3> QED BY Zenon, <3>1, <3>2, <3>3, <3>4, <3>5
        <2> QED BY Zenon, <2>4, <2>5, <1>QuietStep
    \* A reader that finds no slot ends; any other goes on.
    <1>RReadClaim. ASSUME PageInv, Inv, NEW p \in Procs, ReadClaim(p)
                   PROVE  [Store!Next]_(Store!vars)
        <2> USE <1>RReadClaim
        <2>1. TypeEnv
            BY Zenon, TableFacts
        <2>2. env[p].pc = "claim" /\ UNCHANGED files /\ mti_txnid' = mti_txnid
            BY Zenon DEF ReadClaim, locks
        <2>3. CASE env' = [env EXCEPT ![p].pc = "idle", ![p].floor = 0]
            <3>1. /\ \A q \in Procs \ {p} : env'[q] = env[q]
                  /\ env'[p].pc = "idle" /\ env'[p].floor = 0
                BY <2>1, <2>3 DEF TypeEnv, Process
            <3>2. Cur' = Cur /\ Prior' = Prior /\ Saved' = Saved /\ cache' = cache /\ Pub' = Pub
                BY Zenon, <2>2, <3>1, <1>SameFiles, <1>SamePub
            <3>3. CASE p \in Readers
                BY Zenon, <3>1, <3>2, <3>3, <1>OneMoves, <1>SEnd
            <3>4. CASE p \notin Readers
                BY Zenon, <3>1, <3>2, <3>4, <1>OneMoves, <1>Stutters
            <3> QED BY Zenon, <3>3, <3>4
        <2>4. ASSUME NEW i, env' = [env EXCEPT ![p].pc = "load", ![p].slot = i]
              PROVE  [Store!Next]_(Store!vars)
            <3>1. /\ \A q \in Procs \ {p} : env'[q] = env[q]
                  /\ env'[p].pc = "load" /\ env'[p].floor = env[p].floor
                BY <2>1, <2>4 DEF TypeEnv, Process
            <3> QED BY Zenon, <2>2, <3>1, <1>QuietStep
        <2> QED BY Zenon, <2>3, <2>4 DEF ReadClaim
    \* A reader asks for a view.
    <1>RReadBegin. ASSUME PageInv, Inv, NEW p \in Procs, ReadBegin(p)
                   PROVE  [Store!Next]_(Store!vars)
        <2> USE <1>RReadBegin
        <2>1. TypeEnv
            BY Zenon, TableFacts
        <2>2. p \in Readers /\ env[p].pc = "idle" /\ UNCHANGED files /\ mti_txnid' = mti_txnid
            BY Zenon DEF ReadBegin, locks
        <2>3. /\ \A q \in Procs \ {p} : env'[q] = env[q]
              /\ env'[p].pc \in {"load", "claim"} /\ env'[p].floor = mti_txnid
            BY <2>1 DEF ReadBegin, TypeEnv, Process
        <2>4. /\ Cur' = Cur /\ Prior' = Prior /\ Saved' = Saved /\ cache' = cache /\ Pub' = Pub
              /\ Pub = mti_txnid
            BY Zenon, <2>2, <2>3, <1>SameFiles, <1>SamePub
        <2>5. Floor' = [Floor EXCEPT ![p] = mti_txnid] /\ View[p] = NoProc
            BY Zenon, <2>2, <2>3, <2>4, <1>OneMoves
        <2>6. View' = View
            BY Zenon, <2>2, <2>3, <2>4, LmdbAssumption DEF View
        <2> QED BY Zenon, <2>2, <2>4, <2>5, <2>6, <1>SAsk
    \* A reader gets its view when it copies the meta page: the current version or the one before,
    \* and none older than what was published when it asked.
    <1>RReadCopy. ASSUME PageInv, PageInv', Inv, NEW p \in Procs, ReadCopy(p)
                  PROVE  [Store!Next]_(Store!vars)
        <2> USE <1>RReadCopy
        <2> DEFINE id == readers[env[p].slot].txnid
                   m == metas[id % 2]
        <2>1. TypeEnv /\ TypeFiles
            BY Zenon, TableFacts
        <2>2. /\ env[p].pc = "copy" /\ UNCHANGED files /\ mti_txnid' = mti_txnid
              /\ env' = [env EXCEPT ![p].pc = "read", ![p].txnid = id, ![p].meta = m]
            BY Zenon DEF ReadCopy, locks
        <2>3. id \in Nat /\ env[p].floor <= id /\ id <= mti_txnid
            <3>1. id \in Nat
                BY Zenon, <2>2, TableFacts, TxnIds DEF Reading
            <3> QED BY Zenon, <2>2, <3>1 DEF PageInv, ReaderOK
        <2>4. m \in {Newest(metas), Older(metas)} /\ m \in Meta /\ m.txnid >= id
            <3>1. id <= Newest(metas).txnid
                <4>1. mti_txnid \in Nat /\ mti_txnid <= Newest(metas).txnid
                    BY Zenon, <2>2, Published
                <4>2. Newest(metas).txnid \in Nat
                    BY Zenon, <2>1, NewestType, MetaFacts DEF TypeFiles
                <4> HIDE DEF id
                <4> QED BY <2>3, <4>1, <4>2
            <3> QED BY Zenon, <2>1, <2>3, <3>1, NamedMeta DEF PageInv, TypeFiles
        <2> HIDE DEF m, id
        <2>5. /\ \A q \in Procs \ {p} : env'[q] = env[q]
              /\ env'[p].pc = "read" /\ env'[p].floor = env[p].floor /\ env'[p].meta = m
            BY <2>1, <2>2 DEF TypeEnv, Process
        <2>6. Cur' = Cur /\ Prior' = Prior /\ Saved' = Saved /\ cache' = cache /\ Pub' = Pub
            BY Zenon, <2>2, <2>5, <1>SameFiles, <1>SamePub
        <2>7. CASE p \notin Readers
            BY Zenon, <2>5, <2>6, <2>7, <1>OneMoves, <1>Stutters
        <2>8. CASE p \in Readers
            <3>1. Deref(m, cache) \in {Cur, Prior}
                BY Zenon, <2>4 DEF Cur, Prior
            <3>2. Floor' = Floor
                BY Zenon, <2>5, LmdbAssumption DEF Floor
            <3>3. View' = [View EXCEPT ![p] = Deref(m, cache)] /\ View[p] = NoProc
                BY Zenon, <2>2, <2>5, <2>6, <2>8, <1>OneMoves
            <3>4. Deref(m, cache).id >= Floor[p]
                <4>1. Deref(m, cache).id = m.txnid /\ Floor[p] = env[p].floor
                    BY Zenon, <2>1, <2>4, <2>8, Versions DEF Floor, TypeFiles
                <4>2. m.txnid \in Nat /\ env[p].floor \in Nat
                    BY Zenon, <2>4, MetaFacts, ProcessFacts, TxnIds DEF PageInv
                <4> QED BY <2>3, <2>4, <4>1, <4>2
            <3> QED BY Zenon, <2>6, <2>8, <3>1, <3>2, <3>3, <3>4, <1>SBegin
        <2> QED BY Zenon, <2>7, <2>8
    \* A reader ends its view.
    <1>RReadEnd. ASSUME PageInv, Inv, NEW p \in Procs, ReadEnd(p) PROVE [Store!Next]_(Store!vars)
        <2> USE <1>RReadEnd
        <2>1. TypeEnv
            BY Zenon, TableFacts
        <2>2. env[p].pc = "read" /\ UNCHANGED files /\ mti_txnid' = mti_txnid
            BY Zenon DEF ReadEnd
        <2>3. /\ \A q \in Procs \ {p} : env'[q] = env[q]
              /\ env'[p].pc = "idle" /\ env'[p].floor = 0
            BY <2>1 DEF ReadEnd, TypeEnv, Process
        <2>4. Cur' = Cur /\ Prior' = Prior /\ Saved' = Saved /\ cache' = cache /\ Pub' = Pub
            BY Zenon, <2>2, <2>3, <1>SameFiles, <1>SamePub
        <2>5. CASE p \in Readers
            BY Zenon, <2>3, <2>4, <2>5, <1>OneMoves, <1>SEnd
        <2>6. CASE p \notin Readers
            BY Zenon, <2>3, <2>4, <2>6, <1>OneMoves, <1>Stutters
        <2> QED BY Zenon, <2>5, <2>6
    \* A process that leaves ends its view; the last one to leave may publish.
    <1>RLeave. ASSUME PageInv, Inv, NEW p \in Procs, Close(p) \/ Die(p)
               PROVE  [Store!Next]_(Store!vars)
        <2> USE <1>RLeave
        <2>1. TypeEnv
            BY Zenon, TableFacts
        <2>2. env[p].pc # "closed" /\ UNCHANGED files /\ mti_txnid' = mti_txnid
            BY Zenon DEF Close, Die
        <2>3. env' = [env EXCEPT ![p] = Closed]
            BY Zenon DEF Close, Die
        <2>4. /\ \A q \in Procs \ {p} : env'[q] = env[q]
              /\ env'[p].pc = "closed" /\ env'[p].floor = 0
            <3>1. Closed.pc = "closed" /\ Closed.floor = 0
                BY Zenon DEF Closed
            <3> QED BY Zenon, <2>1, <2>3, <3>1 DEF TypeEnv
        <2>5. Cur' = Cur /\ Prior' = Prior /\ Saved' = Saved /\ cache' = cache /\ metas' = metas
            BY Zenon, <2>2, <1>SameFiles
        <2>6. Pub' \in {Pub, Cur.id}
            <3>1. Cur.id = Newest(metas).txnid /\ Pub = mti_txnid
                BY Zenon, <2>2, <1>SamePub DEF Cur, Deref
            <3>2. Pub' \in {Newest(metas).txnid, mti_txnid}
                BY Zenon, <2>2, <2>5 DEF Pub
            <3> QED BY Zenon, <3>1, <3>2
        <2>7. CASE p \in Readers
            BY Zenon, <2>4, <2>5, <2>6, <2>7, <1>OneMoves, <1>SEnd
        <2>8. CASE p \notin Readers
            BY Zenon, <2>4, <2>5, <2>6, <2>8, <1>OneMoves, <1>SPublish
        <2> QED BY Zenon, <2>7, <2>8
    \* A process that opens the environment publishes nothing new.
    <1>ROpen. ASSUME PageInv, Inv, NEW p \in Procs, Open(p) PROVE [Store!Next]_(Store!vars)
        <2> USE <1>ROpen
        <2>1. TypeEnv
            BY Zenon, TableFacts
        <2>2. env[p].pc = "closed" /\ UNCHANGED files /\ env' = [env EXCEPT ![p].pc = "idle"]
            BY Zenon DEF Open
        <2>3. /\ \A q \in Procs \ {p} : env'[q] = env[q]
              /\ env'[p].pc = "idle" /\ env'[p].floor = env[p].floor
            BY Zenon, <2>1, <2>2 DEF TypeEnv, Process
        <2>4. Cur' = Cur /\ Prior' = Prior /\ Saved' = Saved /\ cache' = cache /\ Pub' = mti_txnid'
            BY Zenon, <2>2, <2>3, <1>SameFiles, <1>SamePub
        <2>5. Pub' = Pub
            <3>1. CASE \A q \in Procs : env[q].pc = "closed"
                BY Zenon, <2>4, <3>1 DEF Open, Pub
            <3>2. CASE ~ \A q \in Procs : env[q].pc = "closed"
                BY Zenon, <2>4, <3>2 DEF Open, Pub, locks
            <3> QED BY Zenon, <3>1, <3>2
        <2> QED BY Zenon, <2>2, <2>3, <2>4, <2>5, <1>Quiet, <1>Stutters
    \* A page that is written belongs to no version.
    <1>RFlush. ASSUME WellOrdered, PageInv, Inv, NEW p \in Procs, Flush(p)
               PROVE  [Store!Next]_(Store!vars)
        <2> USE <1>RFlush
        <2> DEFINE pg == Min(txn.dirty)
        <2>1. /\ env[p].pc = "flush" /\ txn.dirty # {}
              /\ UNCHANGED <<metas, disk, dmetas, locks, counts>>
              /\ \E v : cache' = [cache EXCEPT ![pg] = v]
              /\ \E x \in {"sync", "flush"} : env' = [env EXCEPT ![p].pc = x]
            BY Zenon DEF Flush
        <2>2. TypeEnv /\ TypeFiles
            BY Zenon, TableFacts
        <2>3. /\ \A q \in Procs \ {p} : env'[q] = env[q]
              /\ env'[p].pc \in {"sync", "flush"} /\ env'[p].floor = env[p].floor
            BY <2>1, <2>2 DEF TypeEnv, Process
        <2>4. SparesAll(txn) /\ Newest(metas) \in Meta /\ Older(metas) \in Meta
            BY Zenon, <2>1, WriterFacts DEF Building
        <2>5. pg \in txn.dirty
            <3>1. txn.dirty \subseteq Nat
                BY <2>1, LmdbAssumption DEF PageInv, WriterOK, Settled, TxnType, Pgno
            <3> QED BY Zenon, <2>1, <3>1, MinOfSet
        <2> HIDE DEF pg
        <2>6. ASSUME NEW m \in Meta, TxnSpares(txn, m) PROVE Deref(m, cache') = Deref(m, cache)
            <3>1. \A x \in Pgno : x # pg => cache'[x] = cache[x]
                BY Zenon, <2>1, <2>2 DEF TypeFiles
            <3>2. ASSUME NEW n \in Position, m.root[n] # NoPage
                  PROVE  cache'[m.root[n]] = cache[m.root[n]]
                <4>1. m.root[n] \in Pages(m)
                    BY Zenon, <3>2 DEF Pages
                <4>2. m.root[n] # pg /\ m.root[n] \in Pgno
                    BY Zenon, <2>5, <2>6, <4>1, MetaFacts DEF TxnSpares
                <4> QED BY Zenon, <3>1, <4>2
            <3>3. Tree(m, cache') = Tree(m, cache)
                BY Zenon, <3>2 DEF Tree
            <3> QED BY Zenon, <3>3 DEF Deref
        <2>7. metas' = metas /\ dmetas' = dmetas /\ disk' = disk /\ mti_txnid' = mti_txnid
            BY Zenon, <2>1 DEF locks
        <2>8. Cur' = Cur /\ Prior' = Prior /\ Saved' = Saved
            BY Zenon, <2>4, <2>6, <2>7 DEF Cur, Prior, Saved, SparesAll
        <2>9. Pub' = Pub
            BY Zenon, <2>1, <2>3, <2>7, <1>SamePub
        <2>10. Readers \subseteq Procs
            BY Zenon, LmdbAssumption
        <2>11. Floor' = Floor
            BY Zenon, <2>3, <2>10 DEF Floor
        <2>12. View' = View
            <3>1. ASSUME NEW q \in Readers
                  PROVE  (IF env'[q].pc = "read" THEN Deref(env'[q].meta, cache') ELSE NoProc)
                          = (IF env[q].pc = "read" THEN Deref(env[q].meta, cache) ELSE NoProc)
                <4>1. CASE q = p
                    BY Zenon, <2>1, <2>3, <4>1
                <4>2. CASE q # p
                    <5>1. env'[q] = env[q] /\ q \in Procs
                        BY Zenon, <2>3, <2>10, <4>2
                    <5>2. /\ env[q].meta \in Meta
                          /\ (env[q].pc = "read" => TxnSpares(txn, env[q].meta))
                        BY Zenon, <2>4, <5>1, ProcessFacts DEF SparesAll, PageInv
                    <5> QED BY Zenon, <2>6, <5>1, <5>2
                <4> QED BY Zenon, <4>1, <4>2
            <3> QED BY Zenon, <3>1 DEF View
        <2> QED BY Zenon, <2>8, <2>9, <2>11, <2>12, <1>Stutters
    \* A sync saves the current version.
    <1>RSync. ASSUME PageInv, Inv, NEW p \in Procs, Sync(p) \/ EnvSync(p)
              PROVE  [Store!Next]_(Store!vars)
        <2> USE <1>RSync
        <2>1. /\ disk' = cache /\ dmetas' = metas /\ UNCHANGED <<cache, metas, locks>>
              /\ env[p].pc \in {"sync", "idle"}
              /\ env' = [env EXCEPT ![p].pc = "meta"] \/ env' = env
            BY Zenon DEF Sync, EnvSync
        <2>2. TypeEnv
            BY Zenon, TableFacts
        <2>3. /\ \A q \in Procs \ {p} : env'[q] = env[q]
              /\ env'[p].pc \in {"meta", "sync", "idle"} /\ env'[p].floor = env[p].floor
            BY <2>1, <2>2 DEF TypeEnv, Process
        <2>4. metas' = metas /\ cache' = cache /\ mti_txnid' = mti_txnid
            BY Zenon, <2>1 DEF locks
        <2>5. Cur' = Cur /\ Prior' = Prior /\ Saved' = Cur
            BY Zenon, <2>1, <2>4 DEF Cur, Prior, Saved
        <2>6. Pub' = Pub
            BY Zenon, <2>1, <2>3, <2>4, <1>SamePub
        <2> QED BY Zenon, <2>1, <2>3, <2>4, <2>5, <2>6, <1>Quiet, <1>SSave
    \* mti_txnid publishes the current version.
    <1>RPublish. ASSUME PageInv, Inv, NEW p \in Procs, Publish(p) PROVE [Store!Next]_(Store!vars)
        <2> USE <1>RPublish
        <2>1. /\ env[p].pc = "publish" /\ mti_txnid' = txn.id /\ UNCHANGED files
              /\ env' = [env EXCEPT ![p].pc = "end"]
            BY Zenon DEF Publish
        <2>2. TypeEnv
            BY Zenon, TableFacts
        <2>3. /\ \A q \in Procs \ {p} : env'[q] = env[q]
              /\ env'[p].pc = "end" /\ env'[p].floor = env[p].floor
            BY Zenon, <2>1, <2>2 DEF TypeEnv, Process
        <2>4. Cur' = Cur /\ Prior' = Prior /\ Saved' = Saved /\ cache' = cache
            BY Zenon, <2>1, <1>SameFiles
        <2>5. Pub' = Cur.id
            <3>1. Newest(metas).txnid = txn.id
                BY Zenon, <2>1 DEF PageInv, WriterOK, Committing
            <3> QED BY Zenon, <2>1, <2>3, <3>1, <1>SamePub DEF Cur, Deref
        <2> QED BY Zenon, <2>1, <2>3, <2>4, <2>5, <1>Quiet, <1>SPublish
    \* A writer may publish what a dead one has committed.
    <1>RWriteBegin. ASSUME PageInv, PageInv', Inv, NEW p \in Procs, WriteBegin(p)
                    PROVE  [Store!Next]_(Store!vars)
        <2> USE <1>RWriteBegin
        <2>1. /\ env[p].pc = "idle" /\ UNCHANGED files /\ env' = [env EXCEPT ![p].pc = "write"]
            BY Zenon DEF WriteBegin
        <2>2. TypeEnv
            BY Zenon, TableFacts
        <2>3. /\ \A q \in Procs \ {p} : env'[q] = env[q]
              /\ env'[p].pc = "write" /\ env'[p].floor = env[p].floor
            BY Zenon, <2>1, <2>2 DEF TypeEnv, Process
        <2>4. Cur' = Cur /\ Prior' = Prior /\ Saved' = Saved /\ cache' = cache /\ metas' = metas
            BY Zenon, <2>1, <1>SameFiles
        <2>5. Pub' = Cur.id
            <3>1. mti_txnid' = Newest(metas').txnid
                BY Zenon, <2>3 DEF PageInv, WriterOK, Building
            <3> QED BY Zenon, <2>3, <2>4, <3>1, <1>SamePub DEF Cur, Deref
        <2> QED BY Zenon, <2>1, <2>3, <2>4, <2>5, <1>Quiet, <1>SPublish
    \* The sync of the meta page saves the current version.
    <1>RMetaSync. ASSUME PageInv, PageInv', Inv, NEW p \in Procs, MetaSync(p)
                  PROVE  [Store!Next]_(Store!vars)
        <2> USE <1>RMetaSync
        <2>1. /\ env[p].pc = "metasync" /\ dmetas' =
                     [dmetas EXCEPT ![txn.id % 2] = metas[txn.id % 2]]
              /\ env' = [env EXCEPT ![p].pc = "publish"]
              /\ UNCHANGED <<cache, metas, disk, locks, txn, counts>>
            BY Zenon DEF MetaSync
        <2>2. TypeEnv /\ TypeFiles
            BY Zenon, TableFacts
        <2>3. /\ \A q \in Procs \ {p} : env'[q] = env[q]
              /\ env'[p].pc = "publish" /\ env'[p].floor = env[p].floor
            BY Zenon, <2>1, <2>2 DEF TypeEnv, Process
        <2>4. metas' = metas /\ cache' = cache /\ disk' = disk /\ mti_txnid' = mti_txnid
            BY Zenon, <2>1 DEF locks
        <2>5. PICK h \in 0..1 : MetasAt(h, metas, dmetas, cache, disk)
            BY Zenon DEF PageInv, MetasOK
        <2>6. /\ Newest(metas) = metas[h] /\ metas[h].txnid % 2 = h /\ 1 - h \in 0..1 /\ h # 1 - h
            BY <2>2, <2>5, NewestAt DEF TypeFiles
        <2>7. Newest(metas).txnid = txn.id
            BY Zenon, <2>1 DEF PageInv, WriterOK, Committing
        <2>8. dmetas' = metas
            <3>1. dmetas' = [dmetas EXCEPT ![h] = metas[h]] /\ dmetas[1 - h] = metas[1 - h]
                BY Zenon, <2>1, <2>5, <2>6, <2>7 DEF MetasAt
            <3>2. \A i \in 0..1 : i = h \/ i = 1 - h
                OBVIOUS
            <3>3. \A i \in 0..1 : dmetas'[i] = metas[i]
                BY Zenon, <2>2, <2>6, <3>1, <3>2 DEF TypeFiles
            <3> QED BY Zenon, <2>2, <3>1, <3>3 DEF TypeFiles
        <2>9. Saved' = Cur
            <3>1. Intact(metas[h], cache) /\ Intact(metas[h], disk)
                BY Zenon, <2>5 DEF MetasAt
            <3>2. Deref(metas[h], disk) = Deref(metas[h], cache)
                BY Zenon, <3>1, <1>SameVersion
            <3> QED BY Zenon, <2>4, <2>6, <2>8, <3>2 DEF Saved, Cur
        <2>10. Cur' = Cur /\ Prior' = Prior
            BY Zenon, <2>4 DEF Cur, Prior
        <2>11. Pub' = Pub
            BY Zenon, <2>1, <2>3, <2>4, <1>SamePub
        <2> QED BY Zenon, <2>1, <2>3, <2>4, <2>9, <2>10, <2>11, <1>Quiet, <1>SSave
    \* The write of the meta page is the commit.
    <1>RWriteMeta. ASSUME PageInv, PageInv', Inv, NEW p \in Procs, WriteMeta(p)
                   PROVE  [Store!Next]_(Store!vars)
        <2> USE <1>RWriteMeta
        <2>1. /\ env[p].pc = "meta" /\ UNCHANGED <<cache, disk, dmetas, locks, counts>>
              /\ \E m : metas' = [metas EXCEPT ![txn.id % 2] = m]
              /\ \E x \in {"publish", "metasync"} : env' = [env EXCEPT ![p].pc = x]
            BY Zenon DEF WriteMeta
        <2>2. /\ TypeEnv /\ TypeFiles /\ metas' \in [0..1 -> Meta] /\ metas \in [0..1 -> Meta]
              /\ cache \in [Pgno -> Content]
            BY Zenon, TypeParts DEF PageInv, TypeFiles
        <2>3. /\ \A q \in Procs \ {p} : env'[q] = env[q]
              /\ env'[p].pc \in Committing /\ env'[p].floor = env[p].floor
            BY <2>1, <2>2 DEF TypeEnv, Process, Committing
        <2>4. dmetas' = dmetas /\ cache' = cache /\ disk' = disk /\ mti_txnid' = mti_txnid
            BY Zenon, <2>1 DEF locks
        <2>5. disk = cache /\ dmetas = metas
            BY Zenon, <2>1 DEF PageInv, WriterOK
        <2>6. txn.id = Newest(metas).txnid + 1 /\ txn'.id = txn.id
            <3>1. txn.id = Newest(metas).txnid + 1
                BY Zenon, <2>1, WriterFacts DEF Building
            <3>2. DOMAIN txn = Fields
                BY Zenon, <2>1 DEF PageInv, WriterOK, Settled, TxnType
            <3> QED BY Zenon, <3>1, <3>2 DEF WriteMeta, Fields
        <2>7. PICK h \in 0..1 : MetasAt(h, metas, dmetas, cache, disk)
            BY Zenon DEF PageInv, MetasOK
        <2>8. PICK i \in 0..1 : MetasAt(i, metas', dmetas, cache, disk)
            <3>1. MetasOK(metas', dmetas', cache', disk')
                BY Zenon DEF PageInv
            <3> QED BY Zenon, <2>4, <3>1 DEF MetasOK
        <2>9. /\ Newest(metas) = metas[h] /\ metas[h].txnid % 2 = h /\ metas[h] \in Meta
              /\ Newest(metas') = metas'[i] /\ Older(metas') = metas'[1 - i] /\ metas'[i] \in Meta
              /\ metas'[i].txnid % 2 = i
            BY <2>2, <2>7, <2>8, NewestAt
        <2>10. Newest(metas').txnid = txn.id
            BY Zenon, <2>3, <2>6 DEF PageInv, WriterOK
        <2>11. txn.id % 2 = 1 - h /\ i = 1 - h
            BY <2>6, <2>9, <2>10, MetaFacts, Halves
        <2>12. metas'[h] = metas[h] /\ 1 - i = h
            <3>1. h # 1 - h
                OBVIOUS
            <3> QED BY <2>1, <2>2, <2>11, <3>1
        <2>13. Cur' = Deref(metas'[i], cache) /\ Prior' = Cur /\ Saved = Cur /\ Saved' = Saved
            BY Zenon, <2>4, <2>5, <2>9, <2>12 DEF Cur, Prior, Saved
        <2>14. Cur' \in Version /\ Cur'.id = Cur.id + 1
            <3>1. Cur' \in Version /\ Cur'.id = metas'[i].txnid
                BY Zenon, <2>2, <2>9, <2>13, Versions
            <3>2. Cur.id = metas[h].txnid
                BY Zenon, <2>2, <2>9, Versions DEF Cur
            <3> QED BY Zenon, <2>6, <2>9, <2>10, <3>1, <3>2
        <2>15. Pub' = Pub
            BY Zenon, <2>1, <2>3, <2>4, <1>SamePub DEF Committing
        <2>16. Floor' = Floor /\ View' = View
            BY Zenon, <2>1, <2>3, <2>4, <1>Quiet DEF Committing
        <2> QED BY Zenon, <2>13, <2>14, <2>15, <2>16, <1>SCommit
    \* A crash leaves the current version or the saved one.
    <1>RCrash. ASSUME PageInv, PageInv', Inv, Crash PROVE [Store!Next]_(Store!vars)
        <2> USE <1>RCrash
        <2>1. /\ cache' = disk' /\ metas' = dmetas' /\ env' = [p \in Procs |-> Closed]
            BY Zenon DEF Crash
        <2>2. /\ metas \in [0..1 -> Meta] /\ dmetas \in [0..1 -> Meta]
              /\ metas' \in [0..1 -> Meta] /\ cache' \in [Pgno -> Content]
            BY Zenon, TypeParts DEF PageInv, TypeFiles
        <2>3. PICK ms : dmetas' = [i \in 0..1 |-> IF i \in ms THEN metas[i] ELSE dmetas[i]]
            BY Zenon DEF Crash
        <2>4. \A i \in 0..1 : metas'[i] \in {metas[i], dmetas[i]}
            BY Zenon, <2>1, <2>3
        <2>5. PICK h \in 0..1 : MetasAt(h, metas, dmetas, cache, disk)
            BY Zenon DEF PageInv, MetasOK
        <2>6. PICK j \in 0..1 : MetasAt(j, metas', dmetas', cache', disk')
            BY Zenon DEF PageInv, MetasOK
        <2>7. /\ Newest(metas) = metas[h] /\ metas[h] \in Meta /\ metas[1 - h] \in Meta
              /\ 1 - h \in 0..1
              /\ Newest(metas') = metas'[j] /\ Older(metas') = metas'[1 - j] /\ metas'[j] \in Meta
              /\ metas'[1 - j] \in Meta /\ \A i \in 0..1 : i = h \/ i = 1 - h
            BY <2>2, <2>5, <2>6, NewestAt
        <2>8. /\ metas'[j].txnid = metas'[1 - j].txnid + 1 /\ Intact(metas'[j], cache')
              /\ metas[h].txnid = metas[1 - h].txnid + 1 /\ dmetas[1 - h] = metas[1 - h]
            BY Zenon, <2>5, <2>6 DEF MetasAt
        <2>9. Saved' = Cur' /\ Cur' = Deref(metas'[j], cache')
            BY Zenon, <2>1, <2>7 DEF Saved, Cur
        <2>10. \A p \in Procs : env'[p].pc = "closed" /\ env'[p].floor = 0
            BY Zenon, <2>1 DEF Closed
        <2>11. Pub' = Cur'.id /\ Prior' \in Version /\ Prior'.id < Cur'.id
            <3>1. Cur'.id = metas'[j].txnid /\ Pub' = metas'[j].txnid
                BY Zenon, <2>2, <2>7, <2>9, <2>10, Versions DEF Pub
            <3>2. Prior' \in Version /\ Prior'.id = metas'[1 - j].txnid
                BY Zenon, <2>2, <2>7, Versions DEF Prior
            <3>3. metas'[1 - j].txnid \in Nat
                BY Zenon, <2>7, MetaFacts
            <3> QED BY <2>8, <3>1, <3>2, <3>3
        <2>12. Floor' = [p \in Readers |-> 0] /\ View' = [p \in Readers |-> NoProc]
            BY Zenon, <2>10, LmdbAssumption DEF Floor, View
        <2>13. Cur' \in {Cur, Saved}
            <3>1. CASE metas'[j] = metas[h]
                <4>1. Intact(metas[h], cache) /\ Intact(metas[h], cache')
                    BY Zenon, <2>5, <2>8, <3>1 DEF MetasAt
                <4>2. Deref(metas[h], cache') = Deref(metas[h], cache)
                    BY Zenon, <4>1, <1>SameVersion
                <4> QED BY Zenon, <2>7, <2>9, <3>1, <4>2 DEF Cur
            <3>2. CASE metas'[j] # metas[h]
                <4>1. /\ metas[h].txnid \in Nat /\ metas[1 - h].txnid \in Nat /\ dmetas[h] \in Meta
                      /\ dmetas[h].txnid \in Nat /\ metas'[j].txnid \in Nat
                      /\ metas'[1 - j].txnid \in Nat
                    BY Zenon, <2>2, <2>7, MetaFacts
                <4>2. metas'[1 - h] = metas[1 - h] /\ metas'[h] \in {metas[h], dmetas[h]}
                    BY Zenon, <2>4, <2>7, <2>8
                <4>3. Behind(h, metas, dmetas, cache, disk)
                    <5>1. dmetas[h] # metas[h]
                        <6> SUFFICES ASSUME dmetas[h] = metas[h] PROVE FALSE
                            BY Zenon
                        <6>1. metas'[h] = metas[h] /\ j = 1 - h /\ 1 - j = h
                            BY <2>7, <3>2, <4>2
                        <6> QED BY <2>8, <4>1, <4>2, <6>1
                    <5> QED BY Zenon, <2>5, <5>1 DEF MetasAt
                <4>4. dmetas[h].txnid + 2 = metas[h].txnid /\ Intact(metas[1 - h], disk)
                    BY Zenon, <4>3 DEF Behind
                <4>5. metas'[j] = metas[1 - h]
                    <5>1. CASE j = 1 - h
                        BY Zenon, <4>2, <5>1
                    <5>2. CASE j = h
                        <6>1. metas'[j] = dmetas[h] /\ metas'[1 - j] = metas[1 - h]
                            BY Zenon, <3>2, <4>2, <5>2
                        <6> QED BY <2>8, <4>1, <4>4, <6>1
                    <5> QED BY Zenon, <2>7, <5>1, <5>2
                <4>6. Newest(dmetas) = metas[1 - h]
                    <5>1. dmetas[h].txnid < dmetas[1 - h].txnid
                        BY <2>8, <4>1, <4>4
                    <5>2. CASE h = 0
                        BY <2>8, <5>1, <5>2 DEF Newest
                    <5>3. CASE h = 1
                        BY <2>8, <4>1, <5>1, <5>3 DEF Newest
                    <5> QED BY <5>2, <5>3
                <4>7. Deref(metas[1 - h], cache') = Deref(metas[1 - h], disk)
                    BY Zenon, <2>8, <4>4, <4>5, <1>SameVersion
                <4> QED BY Zenon, <2>9, <4>5, <4>6, <4>7 DEF Saved
            <3> QED BY Zenon, <3>1, <3>2
        <2> QED BY Zenon, <2>9, <2>11, <2>12, <2>13, <1>SCrash
    <1> SUFFICES ASSUME PageInv, PageInv', Inv, [Next]_vars PROVE [Store!Next]_(Store!vars)
        BY Zenon
    <1>1. CASE UNCHANGED vars
        <2>1. /\ Cur' = Cur /\ Prior' = Prior /\ Saved' = Saved /\ Pub' = Pub /\ Floor' = Floor
              /\ View' = View
            BY Zenon, <1>1 DEF vars, files, locks, counts, Cur, Prior, Saved, Pub, Floor, View
        <2> QED BY Zenon, <2>1, <1>Stutters
    <1>2. CASE Crash
        BY Zenon, <1>2, <1>RCrash
    <1>3. ASSUME NEW p \in Procs,
                 Open(p) \/ Close(p) \/ Die(p) \/ CheckReaders(p) \/ EnvSync(p)
          PROVE  [Store!Next]_(Store!vars)
        BY Zenon, <1>3, <1>ROpen, <1>RLeave, <1>QuietReader, <1>RSync
    <1>4. ASSUME NEW p \in Procs,
                 \/ ReadBegin(p) \/ ReadClaim(p) \/ ReadLoad(p) \/ ReadStore(p) \/ ReadCheck(p)
                 \/ ReadCopy(p) \/ ReadEnd(p) \/ ThreadExit(p)
          PROVE  [Store!Next]_(Store!vars)
        BY Zenon, <1>4, <1>RReadBegin, <1>RReadClaim, <1>QuietReader, <1>RReadCopy, <1>RReadEnd
    <1>5. ASSUME NEW p \in Procs,
                 \/ Touch(p) \/ Abort(p) \/ Commit(p) \/ Save(p) \/ Finish(p)
                 \/ \E n \in Leaves : Put(p, n)
                 \/ \E n, m \in Leaves : Split(p, m, n) \/ Merge(p, n, m)
          PROVE  [Store!Next]_(Store!vars)
        BY Zenon, <1>5, <1>QuietWriter
    <1>6. ASSUME NEW p \in Procs,
                 \/ WriteBegin(p) \/ Flush(p) \/ Sync(p) \/ WriteMeta(p) \/ MetaSync(p)
                      \/ Publish(p)
          PROVE  [Store!Next]_(Store!vars)
        BY Zenon, <1>6, <1>RWriteBegin, <1>RFlush, <1>RSync, <1>RWriteMeta, <1>RMetaSync,
           <1>RPublish
    <1> QED BY Zenon, <1>1, <1>2, <1>3, <1>4, <1>5, <1>6 DEF Next

=============================================================================
