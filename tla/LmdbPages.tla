----------------------------- MODULE LmdbPages -----------------------------
(***************************************************************************)
(* The files and the state of the LMDB port (ports/liblmdb/mdb.c), and     *)
(* what a write transaction does with pages: allocation, copy on write,    *)
(* merging, and the records of the freeDB.  The processes are in Lmdb.     *)
(*                                                                         *)
(* The main tree has leaves, and a branch page above them when there are   *)
(* several; the freeDB is one page.  What a page holds is named by its     *)
(* position and the transaction that wrote it.  The child pointers of the  *)
(* branch page, and the records of the freeDB, are kept in the root and    *)
(* free fields of the meta page from which those pages are reached.        *)
(***************************************************************************)
EXTENDS Naturals, Sequences

CONSTANTS
    Procs,          \* the processes, and their pids
    Readers,        \* those that read
    Writers,        \* those that write
    Setups,         \* the processes that take part, and whether the system may crash
    NoProc,         \* mr_pid = 0; a wmutex that nobody holds
    OwnerDead,      \* a wmutex whose owner died
    Leaves,         \* the leaf positions of the main tree
    Branch,         \* the position of its branch page, there when it has several leaves
    FreeRoot,       \* the position of the page of the freeDB
    NoNode,         \* no position
    MaxReaders,     \* me_maxreaders
    MaxPg,          \* me_maxpg
    MaxWrites,      \* bound: how many updates a write transaction makes
    MaxEvents       \* bound: how many write transactions and faults there are together

Pgno == 2..(MaxPg - 1)          \* NUM_METAS is 2
NoPage == 0                     \* P_INVALID
TxnId == 0..(MaxEvents + 2)
NoTxn == MaxEvents + 3          \* (txnid_t)-1
Position == Leaves \cup {Branch, FreeRoot}
Slot == 0..(MaxReaders - 1)
NoSlot == MaxReaders            \* a thread that has none

\* What a page can hold.  Stale stands for what no tree contains.
Content == [node : Position \cup {NoNode}, try : 0..MaxEvents]
Stale == [node |-> NoNode, try |-> 0]

Meta ==
    [txnid : TxnId, root : [Position -> Pgno \cup {NoPage}], last_pg : Nat,
     free : [TxnId -> SUBSET Pgno],
     by : [Position -> 0..MaxEvents]]    \* history: the transaction that wrote each position

ASSUME LmdbAssumption ==
    /\ Readers \subseteq Procs /\ Writers \subseteq Procs
    /\ Setups \subseteq [procs : SUBSET Procs, crashes : BOOLEAN]
    /\ NoProc \notin Procs /\ OwnerDead \notin Procs /\ NoProc # OwnerDead
    /\ {Branch, FreeRoot, NoNode} \cap Leaves = {}
    /\ Branch # FreeRoot /\ NoNode \notin {Branch, FreeRoot}
    /\ MaxReaders \in Nat \ {0} /\ MaxPg \in Nat \ 0..6 /\ MaxWrites \in Nat /\ MaxEvents \in Nat

VARIABLES
    cache,          \* the pages of the data file as every process sees them
    metas,          \* the two meta pages, likewise
    disk, dmetas,   \* what is on stable storage for certain
    mti_txnid,      \* the lock file: the last txnid that was published,
    readers,        \*   the reader table,
    numreaders,     \*   how much of it is in use,
    wmutex,         \*   and the holder of the writer mutex
    env,            \* what each process has in its MDB_env and its read transaction
    txn,            \* the write transaction of the holder of wmutex
    tries, faults,  \* how many write transactions were begun, and how many faults there were
    setup           \* the setup, which never changes

files == <<cache, metas, disk, dmetas>>
locks == <<mti_txnid, readers, numreaders, wmutex>>
counts == <<tries, faults, setup>>
vars == <<files, locks, env, txn, counts>>

NoMeta == [txnid |-> 0, root |-> [n \in Position |-> NoPage], last_pg |-> 1,
           free |-> [k \in TxnId |-> {}], by |-> [n \in Position |-> 0]]

\* A process that has not opened the environment; pidlock is me_live_reader.
Closed == [pc |-> "closed", pidlock |-> FALSE, slot |-> NoSlot, seen |-> 0,
           txnid |-> 0, meta |-> NoMeta, pgoldest |-> 0, floor |-> 0]

NoTransaction ==
    [id |-> 0, root |-> NoMeta.root, free |-> NoMeta.free, by |-> NoMeta.by, next_pgno |-> 2,
     free_pgs |-> {}, loaded |-> FALSE, pghead |-> {}, pglast |-> 0, loose |-> <<>>,
     dirty |-> {}, todo |-> <<>>, drop |-> NoNode, writes |-> 0, error |-> FALSE,
     trimmed |-> 0, saved |-> {}, metab |-> NoMeta]

\* mdb_env_pick_meta, and the meta page that it leaves.
Newest(ms) == IF ms[0].txnid < ms[1].txnid THEN ms[1] ELSE ms[0]
Older(ms) == IF ms[0].txnid < ms[1].txnid THEN ms[0] ELSE ms[1]

\* The least of a set of numbers.
Min(S) == CHOOSE x \in S : \A y \in S : x <= y

(***************************************************************************)
(* The pages of the writer.  The operators take the state t of the write   *)
(* transaction to its next one.                                            *)
(***************************************************************************)

\* mdb_find_oldest: the oldest transaction that a reader may be reading.
FindOldest_Mut(t) ==    \* misses the last slot in use
    Min({t.id - 1} \cup {readers[i].txnid :
                            i \in {j \in Slot : j + 1 < numreaders /\ readers[j].pid # NoProc}})

FindOldest(t) ==
    Min({t.id - 1} \cup {readers[i].txnid :
                            i \in {j \in Slot : j < numreaders /\ readers[j].pid # NoProc}})

MapFull(page) == page + 1 >= MaxPg

\* The pages that a transaction freed may be taken if every reader is younger.
Reusable_Mut(t, key, oldest) == t.id - 1 > key      \* asks the writer, not the readers
Reusable(t, key, oldest) == oldest > key

\* mdb_page_alloc: a loose page, one that an old enough transaction freed, or
\* a new one.  The oldest reader is looked up only if the cached one is too old.
PageAlloc(t, cached) ==
    LET older(bound) == IF cached <= bound THEN FindOldest(t) ELSE cached
        records == {k \in TxnId : k > t.pglast /\ t.free[k] # {}}
        key     == Min(records)
        search  == t.pghead = {} /\ older(t.pglast + 1) > t.pglast + 1 /\ records # {}
        fetch   == search /\ Reusable(t, key, older(key))
        oldest  == IF t.pghead # {} THEN cached
                   ELSE older(IF search THEN key ELSE t.pglast + 1)
        head    == IF fetch THEN t.free[key] ELSE t.pghead
        page    == IF head # {} THEN Min(head) ELSE t.next_pgno
    IN  IF t.loose # <<>>
        THEN [page |-> Head(t.loose), oldest |-> cached, t |-> [t EXCEPT !.loose = Tail(@)]]
        ELSE [page |-> page, oldest |-> oldest,
              t |-> [t EXCEPT !.loaded = @ \/ fetch,
                              !.pghead = head \ {page},
                              !.pglast = IF fetch THEN key ELSE @,
                              !.next_pgno = IF head # {} THEN @ ELSE @ + 1,
                              !.error = head = {} /\ MapFull(page)]]

\* The page that mdb_page_touch frees when it copies the one at n.
Freed_Mut(t, n) == {t.root[n]}      \* even if there is none
Freed_Leak(t, n) == {}              \* does not free it
Freed(t, n) == {t.root[n]} \ {NoPage}

\* mdb_page_touch, and mdb_page_new for a position that has no page yet: the
\* page at n becomes one of this transaction's own.
PageTouch(t, n, cached) ==
    IF t.root[n] \in t.dirty THEN [t |-> t, oldest |-> cached]
    ELSE LET a == PageAlloc(t, cached)
         IN  IF a.t.error THEN [t |-> [t EXCEPT !.error = TRUE], oldest |-> a.oldest]
             ELSE [oldest |-> a.oldest,
                   t |-> [a.t EXCEPT !.root[n] = a.page, !.by[n] = tries,
                                     !.dirty = @ \cup {a.page},
                                     !.free_pgs = @ \cup Freed(t, n)]]

\* mdb_page_merge: the page of the leaf n is unlinked, and loose if it is dirty
\* (mdb_page_loose).  A branch page with one child is freed.
Unlink(t, n) ==
    LET pg == t.root[n]
        u == [t EXCEPT !.root[n] = NoPage, !.by[n] = 0, !.drop = NoNode,
                       !.loose = IF pg \in t.dirty THEN <<pg>> \o @ ELSE @,
                       !.free_pgs = IF pg \in t.dirty THEN @ ELSE @ \cup {pg}]
        leaves == {m \in Leaves : u.root[m] # NoPage}
    IN  IF \E m, k \in leaves : m # k THEN u
        ELSE [u EXCEPT !.root[Branch] = NoPage, !.by[Branch] = 0,
                       !.free_pgs = @ \cup {t.root[Branch]}]

\* Delete the records that were taken.  A freeDB without records has no page.
TrimRecords(t) ==
    LET f == [k \in TxnId |-> IF k <= t.pglast THEN {} ELSE t.free[k]]
        u == [t EXCEPT !.free = f, !.trimmed = t.pglast]
    IN  IF \A k \in TxnId : f[k] = {}
        THEN [u EXCEPT !.root[FreeRoot] = NoPage, !.by[FreeRoot] = 0,
                       !.free_pgs = @ \cup ({t.root[FreeRoot]} \ {NoPage})]
        ELSE u

\* What was taken from the freeDB and not used, and the loose pages.
Left(t) == t.pghead \cup {t.loose[i] : i \in 1..Len(t.loose)}

\* The pages of a tree hold what its transaction wrote there.
Intact(m, pages) ==
    \A n \in Position : m.root[n] # NoPage => pages[m.root[n]] = [node |-> n, try |-> m.by[n]]

=============================================================================
