----------------------------- MODULE LmdbPlaces -----------------------------
(*************************************************************************)
(* Where the pages of a write transaction of Lmdb are, and what it may   *)
(* take: the terms in which LmdbInv and the proofs speak of its pages.   *)
(*************************************************************************)
EXTENDS LmdbPages

\* Every set of numbers that is not empty has a least one.
WellOrdered == \A S \in SUBSET Nat : S # {} => \E x \in S : \A y \in S : x <= y

(***************************************************************************)
(* The fields of a write transaction, and what a step leaves alone of them. *)
(***************************************************************************)
Fields == {"id", "root", "free", "by", "next_pgno", "free_pgs", "loaded", "pghead", "pglast",
           "loose", "dirty", "todo", "drop", "writes", "error", "trimmed", "saved", "metab"}

SameBut(t, u, fs) == DOMAIN u = Fields /\ \A f \in Fields \ fs : u[f] = t[f]

(***************************************************************************)
(* mdb_page_alloc takes a page of t, which becomes u.                      *)
(***************************************************************************)
FromLoose(t, u, page) ==
    /\ t.loose # <<>> /\ page = Head(t.loose) /\ u.loose = Tail(t.loose)
    /\ SameBut(t, u, {"loose"})

FromHead(t, u, page) ==
    /\ page \in t.pghead /\ u.pghead = t.pghead \ {page}
    /\ SameBut(t, u, {"pghead"})

FromRecord(t, u, page, oldest) ==
    /\ t.pghead = {}
    /\ \E key \in TxnId :
          /\ key > t.pglast /\ key < oldest /\ u.pglast = key /\ u.loaded = TRUE
          /\ \A k \in TxnId : k > t.pglast /\ k < key => t.free[k] = {}
          /\ page \in t.free[key] /\ u.pghead = t.free[key] \ {page}
    /\ SameBut(t, u, {"pghead", "pglast", "loaded"})

FromEnd(t, u, page) ==
    /\ page = t.next_pgno /\ u.next_pgno = t.next_pgno + 1
    /\ ~MapFull(page)
    /\ SameBut(t, u, {"next_pgno"})

Taken(t, u, page, oldest) ==
    \/ FromLoose(t, u, page) \/ FromHead(t, u, page)
    \/ FromRecord(t, u, page, oldest) \/ FromEnd(t, u, page)

\* mdb_page_touch makes page the one of position n in v, the state of t after the page
\* was taken.
Copied(t, v, u, n, page) ==
    /\ t.root[n] \notin t.dirty
    /\ u.root = [t.root EXCEPT ![n] = page] /\ u.by = [t.by EXCEPT ![n] = tries]
    /\ u.dirty = t.dirty \cup {page} /\ u.free_pgs = t.free_pgs \cup Freed(t, n)
    /\ SameBut(v, u, {"root", "by", "dirty", "free_pgs"})

Touched(t, u, n, oldest) ==
    \/ t.root[n] \in t.dirty /\ u = t
    \/ u.error = TRUE /\ SameBut(t, u, {"error"})
    \/ \E v, page : Taken(t, v, page, oldest) /\ Copied(t, v, u, n, page)

\* What it takes for a transaction to be able to allocate pages.
CanAlloc(t) ==
    /\ DOMAIN t = Fields /\ t.error = FALSE /\ t.pghead \subseteq Pgno /\ t.pglast \in Nat
    /\ t.loaded \in BOOLEAN /\ t.free \in [TxnId -> SUBSET Pgno] /\ FindOldest(t) \in Nat

(***************************************************************************)
(* Where the pages are.  A write transaction has every page below next_pgno *)
(* in one place: at a position of its trees, in a record of the freeDB that *)
(* it has not taken, among those that it freed, in pghead, or loose.       *)
(***************************************************************************)
Pages(x) == {x.root[n] : n \in Position} \ {NoPage}

Loose(t) == {t.loose[i] : i \in 1..Len(t.loose)}

Live(t) == {k \in TxnId : k # t.id /\ (t.trimmed < t.pglast => k > t.pglast)}

Records(free, ks) == UNION {free[k] : k \in ks}

OnePosition(root) ==
    \A n, m \in Position : root[n] = root[m] /\ root[n] # NoPage => n = m

Apart(free, ks) == \A j, k \in ks : \A pg \in free[j] : pg \in free[k] => j = k

OnceLoose(t) == \A i, j \in 1..Len(t.loose) : t.loose[i] = t.loose[j] => i = j

Parts(a, b, c, d, e, x, all) ==
    /\ a \cup b \cup c \cup d \cup e \cup x = all
    /\ a \cap (b \cup c \cup d \cup e \cup x) = {}
    /\ b \cap (c \cup d \cup e \cup x) = {}
    /\ c \cap (d \cup e \cup x) = {}
    /\ d \cap (e \cup x) = {} /\ e \cap x = {}

\* As above, but for the pages of x, which are in no place.
PlacedBut(t, x) ==
    /\ OnePosition(t.root) /\ Apart(t.free, Live(t)) /\ OnceLoose(t)
    /\ Parts(Pages(t), Records(t.free, Live(t)), t.free_pgs, t.pghead, Loose(t), x,
             2..(t.next_pgno - 1))

Placed(t) == PlacedBut(t, {})

\* The types of the fields.
TxnType(t) ==
    /\ DOMAIN t = Fields
    /\ t.id \in TxnId \ {0}
    /\ t.root \in [Position -> Pgno \cup {NoPage}] /\ t.by \in [Position -> 0..MaxEvents]
    /\ t.free \in [TxnId -> SUBSET Pgno]
    /\ t.next_pgno \in Nat \ 0..1
    /\ t.free_pgs \subseteq Pgno /\ t.pghead \subseteq Pgno /\ t.dirty \subseteq Pgno
    /\ t.loose \in Seq(Pgno) /\ t.todo \in Seq(Position) /\ t.drop \in Leaves \cup {NoNode}
    /\ t.pglast \in TxnId /\ t.trimmed \in TxnId
    /\ t.loaded \in BOOLEAN /\ t.error \in BOOLEAN

\* The records: those that were taken and deleted are empty, and what is saved is in
\* the record of the transaction.
Books(t) ==
    /\ \A k \in TxnId : k > t.id => t.free[k] = {}
    /\ t.free[t.id] = t.saved /\ t.saved \subseteq t.free_pgs
    /\ t.trimmed <= t.pglast /\ t.pglast < t.id
    /\ t.loaded <=> t.pglast > 0
    /\ ~t.loaded => t.pghead = {}
    /\ Loose(t) \subseteq t.dirty

Emptied(t) == \A k \in TxnId : k <= t.trimmed => t.free[k] = {}

\* What holds of a transaction while it allocates pages.
Good(t) == TxnType(t) /\ Placed(t) /\ Books(t) /\ Emptied(t)

(***************************************************************************)
(* What a database with the records free and the pages below next does not *)
(* take of the tree of a meta page m: it may reuse the records that are not *)
(* younger than m.                                                         *)
(***************************************************************************)
Spares(m, free, next) ==
    /\ \A pg \in Pages(m) : pg < next
    /\ \A k \in TxnId : k <= m.txnid => free[k] \cap Pages(m) = {}

TxnSpares(t, m) ==
    /\ Spares(m, t.free, t.next_pgno)
    /\ (t.dirty \cup t.pghead) \cap Pages(m) = {}

\* The pages that the transaction has not written yet are dirty.
Written(t, c, tr) ==
    \A n \in Position : t.root[n] # NoPage =>
        /\ t.root[n] \in t.dirty => t.by[n] = tr
        /\ t.root[n] \notin t.dirty => c[t.root[n]] = [node |-> n, try |-> t.by[n]]

(***************************************************************************)
(* A position loses its page, which the transaction frees, or keeps for its *)
(* next allocations.                                                       *)
(***************************************************************************)
Vacated(t, u, n) ==
    u.root = [t.root EXCEPT ![n] = NoPage] /\ u.by = [t.by EXCEPT ![n] = 0]

GoesFree(t, u, n) ==
    /\ Vacated(t, u, n) /\ u.free_pgs = t.free_pgs \cup Freed(t, n)
    /\ SameBut(t, u, {"root", "by", "free_pgs", "drop"})

GoesLoose(t, u, n) ==
    /\ t.root[n] \in t.dirty
    /\ Vacated(t, u, n) /\ u.loose = <<t.root[n]>> \o t.loose
    /\ SameBut(t, u, {"root", "by", "loose", "drop"})

(***************************************************************************)
(* A tree with several leaves has a branch page above them.                *)
(***************************************************************************)
TreeShape(root) ==
    \A n, m \in Leaves : root[n] # NoPage /\ root[m] # NoPage /\ n # m => root[Branch] # NoPage

(***************************************************************************)
(* While a transaction updates the tree: a new branch page is in what it   *)
(* has to do, unless the tree has one or needs none.                       *)
(***************************************************************************)
InTodo(t, n) == \E i \in 1..Len(t.todo) : t.todo[i] = n

Shaped(t) ==
    \/ t.root[Branch] # NoPage
    \/ InTodo(t, Branch)
    \/ TreeShape(t.root) /\ \A n \in Leaves : InTodo(t, n) => t.root[n] # NoPage

Growing(t) ==
    /\ t.todo = <<>> => t.drop = NoNode \/ t.error = TRUE
    /\ t.todo # <<>> => t.error = FALSE
    /\ t.error = FALSE => Shaped(t)
    /\ t.error = FALSE /\ t.drop # NoNode => t.root[t.drop] # NoPage /\ t.root[Branch] # NoPage

(***************************************************************************)
(* A transaction that has saved its free pages: nothing is left over.      *)
(***************************************************************************)
Settled(t) ==
    /\ TxnType(t) /\ Placed(t) /\ Books(t) /\ TreeShape(t.root)
    /\ t.pghead = {} /\ t.loose = <<>> /\ t.saved = t.free_pgs /\ t.trimmed = t.pglast
    /\ t.free[0] = {}

(***************************************************************************)
(* A database: its pages are in its trees, or in the records of the freeDB. *)
(***************************************************************************)
Whole(m) ==
    /\ OnePosition(m.root) /\ TreeShape(m.root) /\ Apart(m.free, TxnId)
    /\ Pages(m) \cup Records(m.free, TxnId) = 2..m.last_pg
    /\ Pages(m) \cap Records(m.free, TxnId) = {}
    /\ \A k \in TxnId : k = 0 \/ k > m.txnid => m.free[k] = {}
    /\ m.last_pg >= 1

\* The database b does not reuse a page of a.
Follows(b, a) == a.txnid <= b.txnid /\ Spares(a, b.free, b.last_pg + 1)

\* The transaction t begins with the pages of the database m.
Begun(t, m, id) ==
    t = [NoTransaction EXCEPT !.id = id, !.root = m.root, !.free = m.free,
                              !.by = m.by, !.next_pgno = m.last_pg + 1]

\* mdb_page_flush writes a page: it belongs to no tree that is spared, and what it holds is
\* what the transaction has there.
Stored(t, pg, c, d, tr) ==
    /\ \A x \in Pgno : x # pg => d[x] = c[x]
    /\ \A n \in Position : t.root[n] = pg => d[pg] = [node |-> n, try |-> tr]

=============================================================================
