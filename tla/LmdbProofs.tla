----------------------------- MODULE LmdbProofs -----------------------------
(*************************************************************************)
(* The theorems about Lmdb, for any number of processes, slots, pages    *)
(* and transactions, with processes that die and systems that crash: Inv *)
(* is an invariant, so that every reader keeps its slot and holds back   *)
(* the writer; PageInv is an invariant, so that every reader has its     *)
(* snapshot and every page its place; and Lmdb implements Snapshots.     *)
(*************************************************************************)
EXTENDS LmdbPageProofs, LmdbStoreProofs

(*************************************************************************)
(* Steps of the writer while it builds its transaction, and when it      *)
(* writes pages to the file.                                             *)
(*************************************************************************)

\* The oldest reader that is known, or found, is not newer than anything that must be spared.
LEMMA OldestBounds ==
    ASSUME WellOrdered, PageInv, Inv, NEW p \in Procs, env[p].pc \in Building, NEW t, t.id = txn.id,
           NEW o \in {env[p].pgoldest, FindOldest(t)}
    PROVE  /\ o \in Nat /\ o \in TxnId /\ o <= t.id /\ FindOldest(t) \in Nat
           /\ o <= Newest(metas).txnid + 1 /\ o <= Older(metas).txnid + 1
           /\ \A q \in Procs : env[q].pc = "read" => o <= env[q].meta.txnid + 1
    <1>1. /\ txn.id = mti_txnid + 1 /\ mti_txnid = Newest(metas).txnid /\ mti_txnid \in Nat
          /\ Newest(metas).txnid = Older(metas).txnid + 1
          /\ Newest(metas) \in Meta /\ Older(metas) \in Meta
        BY Zenon, WriterFacts
    <1>2. /\ FindOldest(t) \in Nat /\ FindOldest(t) <= mti_txnid
          /\ \A q \in Procs : env[q].pc \in Seen => FindOldest(t) <= readers[env[q].slot].txnid
        BY Zenon, <1>1, FindOldestSafe
    <1>3. /\ env[p].pgoldest \in Nat /\ env[p].pgoldest <= mti_txnid
          /\ \A q \in Procs : env[q].pc \in Seen => env[p].pgoldest <= readers[env[q].slot].txnid
        BY Zenon DEF Inv, Shape, IsProcess, Writes, Protects
    <1>4. o \in Nat /\ o <= mti_txnid /\ Older(metas).txnid \in Nat
        BY Zenon, <1>1, <1>2, <1>3, MetaFacts
    <1>5. o \in TxnId
        <2>1. mti_txnid \in TxnId
            BY Zenon, TableFacts DEF TypeLocks
        <2> QED BY Zenon, <1>4, <2>1, TxnIds
    <1>6. ASSUME NEW q \in Procs, env[q].pc = "read" PROVE o <= env[q].meta.txnid + 1
        <2>1. /\ env[q].meta.txnid >= env[q].txnid /\ env[q].txnid = readers[env[q].slot].txnid
            BY Zenon, <1>6 DEF PageInv, ReaderOK
        <2>2. env[q].meta.txnid \in Nat /\ env[q].txnid \in Nat
            <3>1. env[q].meta \in Meta /\ env[q].txnid \in TxnId
                BY Zenon, ProcessFacts DEF PageInv
            <3> QED BY Zenon, <3>1, MetaFacts, TxnIds
        <2>3. o <= readers[env[q].slot].txnid
            BY Zenon, <1>2, <1>3, <1>6 DEF Seen
        <2> QED BY <1>4, <2>1, <2>2, <2>3
    <1> QED BY <1>1, <1>2, <1>4, <1>5, <1>6

\* A page that p touches.
LEMMA WriterTouches ==
    ASSUME WellOrdered, PageInv, Inv, NEW p \in Procs, env[p].pc \in Building, NEW t, Good(t),
           t.id = txn.id,
           t.error = FALSE, NEW n \in Position
    PROVE  LET a == PageTouch(t, n, env[p].pgoldest)
           IN  /\ Touched(t, a.t, n, a.oldest) /\ a.oldest \in {env[p].pgoldest, FindOldest(t)}
               /\ a.oldest \in Nat /\ a.oldest \in TxnId /\ a.oldest <= t.id
               /\ a.oldest <= Newest(metas).txnid + 1 /\ a.oldest <= Older(metas).txnid + 1
               /\ \A q \in Procs : env[q].pc = "read" => a.oldest <= env[q].meta.txnid + 1
    <1> DEFINE a == PageTouch(t, n, env[p].pgoldest)
    <1>1. env[p].pgoldest \in {env[p].pgoldest, FindOldest(t)}
        BY Zenon
    <1>2. env[p].pgoldest \in Nat /\ FindOldest(t) \in Nat
        BY Zenon, <1>1, OldestBounds
    <1>3. CanAlloc(t) /\ t.root \in [Position -> Pgno \cup {NoPage}] /\ t.by \in [Position -> Nat]
        <2>1. TxnType(t)
            BY Zenon DEF Good
        <2>2. t.pglast \in TxnId /\ t.by \in [Position -> 0..MaxEvents]
            BY Zenon, <2>1 DEF TxnType
        <2>3. t.pglast \in Nat
            BY Zenon, <2>2, TxnIds
        <2>4. t.by \in [Position -> Nat]
            BY <2>2
        <2> QED BY Zenon, <1>2, <2>1, <2>3, <2>4 DEF TxnType, CanAlloc
    <1>4. a.oldest \in {env[p].pgoldest, FindOldest(t)} /\ Touched(t, a.t, n, a.oldest)
        BY Zenon, <1>2, <1>3, TouchEffect
    <1> HIDE DEF a
    <1>5. /\ a.oldest \in Nat /\ a.oldest \in TxnId /\ a.oldest <= t.id
          /\ a.oldest <= Newest(metas).txnid + 1 /\ a.oldest <= Older(metas).txnid + 1
          /\ \A q \in Procs : env[q].pc = "read" => a.oldest <= env[q].meta.txnid + 1
        BY Zenon, <1>4, OldestBounds
    <1> QED BY Zenon, <1>4, <1>5 DEF a

\* What is spared stays so.
LEMMA StillSpares ==
    ASSUME PageInv, Inv, NEW p \in Procs, env[p].pc \in Building, NEW o \in Nat,
           o <= Newest(metas).txnid + 1, o <= Older(metas).txnid + 1,
           \A q \in Procs : env[q].pc = "read" => o <= env[q].meta.txnid + 1,
           NEW t, NEW u, SparesAll(t),
           \A m : m.txnid \in TxnId /\ Pages(m) \subseteq Pgno /\ TxnSpares(t, m)
             /\ o <= m.txnid + 1
                        => TxnSpares(u, m)
    PROVE  SparesAll(u)
    <1>1. Newest(metas) \in Meta /\ Older(metas) \in Meta
        BY Zenon, WriterFacts
    <1>2. \A m \in Meta : TxnSpares(t, m) /\ o <= m.txnid + 1 => TxnSpares(u, m)
        BY Zenon, MetaFacts
    <1>3. \A q \in Procs : env[q].meta \in Meta
        BY Zenon, ProcessFacts DEF PageInv
    <1> QED BY Zenon, <1>1, <1>2, <1>3 DEF SparesAll

\* The start of an update.  It needs a branch page if it adds a leaf or drops one.
LEMMA PUpdate ==
    ASSUME PageInv, Inv, NEW p \in Procs, NEW todo \in Seq(Position), todo # <<>>,
           NEW drop \in Leaves \cup {NoNode}, Update(p, todo, drop),
           \/ txn.root[Branch] # NoPage
           \/ \E i \in 1..Len(todo) : todo[i] = Branch
           \/ \A i \in 1..Len(todo) : todo[i] \in Leaves => txn.root[todo[i]] # NoPage,
           drop # NoNode => txn.root[drop] # NoPage /\ txn.root[Branch] # NoPage
    PROVE  PageInv'
    <1>1. /\ env[p].pc = "write" /\ txn.todo = <<>> /\ ~txn.error
          /\ txn' = [txn EXCEPT !.todo = todo, !.drop = drop, !.writes = @ + 1]
          /\ UNCHANGED <<files, locks, env, counts>>
        BY Zenon DEF Update
    <1>2. Good(txn) /\ Growing(txn) /\ env[p].pc \in Building
        BY Zenon, <1>1 DEF PageInv, WriterOK, Building
    <1>3. TxnType(txn) /\ DOMAIN txn = Fields /\ txn.error = FALSE
        BY Zenon, <1>1, <1>2 DEF Good, TxnType
    <1>4. /\ txn'.todo = todo /\ txn'.drop = drop
          /\ SameBut(txn, txn', {"todo", "drop", "writes", "error"}) /\ txn'.error = txn.error
        BY Zenon, <1>1, <1>3 DEF SameBut, Fields
    <1>5. txn'.id = txn.id /\ txn'.root = txn.root /\ txn'.error = FALSE
        BY Zenon, <1>3, <1>4 DEF SameBut, Fields
    <1>6. /\ Good(txn') /\ \A m : TxnSpares(txn, m) => TxnSpares(txn', m)
          /\ \A c, tr : Written(txn, c, tr) => Written(txn', c, tr)
        BY Zenon, <1>2, <1>4, <1>5, SameGood
    <1>7. TreeShape(txn.root)
        <2>1. Shaped(txn)
            BY Zenon, <1>2, <1>3 DEF Growing
        <2>2. ~ InTodo(txn, Branch)
            BY <1>1 DEF InTodo
        <2> QED BY Zenon, <2>1, <2>2 DEF Shaped, TreeShape
    <1>8. Shaped(txn')
        BY Zenon, <1>4, <1>5, <1>7 DEF Shaped, InTodo
    <1>9. Growing(txn')
        BY Zenon, <1>4, <1>5, <1>8 DEF Growing
    <1>10. SparesAll(txn) /\ Written(txn, cache, tries)
        BY Zenon, <1>2, WriterFacts
    <1>11. SparesAll(txn') /\ Written(txn', cache, tries)
        BY Zenon, <1>6, <1>10 DEF SparesAll
    <1>12. Moves(p) /\ env'[p].pc = "write" /\ UNCHANGED <<files, locks, counts>>
        <2>1. TypeEnv
            BY Zenon, TableFacts
        <2> QED BY Zenon, <1>1, <2>1 DEF Moves, TypeEnv
    <1> QED BY Zenon, <1>2, <1>5, <1>6, <1>9, <1>11, <1>12, WriterKeeps

\* What mdb_cursor_touch touches, and more.
LEMMA Trails ==
    ASSUME NEW s \in Seq(Position), s # <<>>, NEW r \in Seq(Position)
    PROVE  s \o r \in Seq(Position) /\ s \o r # <<>>
    <1>1. s \o r \in Seq(Position) /\ Len(s \o r) = Len(s) + Len(r)
        OBVIOUS
    <1>2. Len(s) \in Nat \ {0} /\ Len(r) \in Nat
        OBVIOUS
    <1> QED BY <1>1, <1>2

\* An update of a leaf begins.
LEMMA PPut == ASSUME PageInv, Inv, NEW p \in Procs, NEW n \in Leaves, Put(p, n) PROVE PageInv'
    <1>1. txn.root[n] # NoPage /\ Update(p, Trail(n), NoNode)
        BY Zenon DEF Put
    <1>2. CASE txn.root[Branch] # NoPage
        <2>1. Trail(n) = <<Branch, n>> /\ <<Branch, n>> \in Seq(Position) /\ <<Branch, n>> # <<>>
            BY <1>2, PositionsApart DEF Trail
        <2> QED BY Zenon, <1>1, <1>2, <2>1, PUpdate
    <1>3. CASE txn.root[Branch] = NoPage
        <2>1. Trail(n) = <<n>> /\ <<n>> \in Seq(Position) /\ <<n>> # <<>>
            BY <1>3, PositionsApart DEF Trail
        <2>2. \A i \in 1..Len(<<n>>) : <<n>>[i] = n
            OBVIOUS
        <2> QED BY Zenon, <1>1, <2>1, <2>2, PUpdate
    <1> QED BY Zenon, <1>2, <1>3

\* A page splits.
LEMMA PSplit ==
    ASSUME PageInv, Inv, NEW p \in Procs, NEW m \in Leaves, NEW n \in Leaves, Split(p, m, n)
    PROVE  PageInv'
    <1> DEFINE r == IF txn.root[Branch] = NoPage THEN <<n, Branch>> ELSE <<n>>
    <1>1. Update(p, Trail(m) \o r, NoNode)
        BY Zenon DEF Split
    <1>2. Trail(m) \in Seq(Position) /\ Trail(m) # <<>> /\ r \in Seq(Position)
        BY PositionsApart DEF Trail
    <1>3. Trail(m) \o r \in Seq(Position) /\ Trail(m) \o r # <<>>
        BY Zenon, <1>2, Trails
    <1>4. CASE txn.root[Branch] # NoPage
        BY Zenon, <1>1, <1>3, <1>4, PUpdate
    <1>5. CASE txn.root[Branch] = NoPage
        <2>1. Trail(m) = <<m>> /\ r = <<n, Branch>>
            BY Zenon, <1>5 DEF Trail
        <2>2. 3 \in 1..Len(<<m>> \o <<n, Branch>>) /\ (<<m>> \o <<n, Branch>>)[3] = Branch
            OBVIOUS
        <2> QED BY Zenon, <1>1, <1>3, <2>1, <2>2, PUpdate
    <1> QED BY Zenon, <1>4, <1>5

\* Two pages merge.
LEMMA PMerge ==
    ASSUME PageInv, Inv, NEW p \in Procs, NEW m \in Leaves, NEW n \in Leaves, Merge(p, n, m)
    PROVE  PageInv'
    <1>1. /\ m # n /\ txn.root[m] # NoPage /\ txn.root[n] # NoPage
          /\ Update(p, Trail(n), m) \/ Update(p, Trail(n) \o <<m>>, n)
        BY Zenon DEF Merge
    <1>2. env[p].pc = "write" /\ txn.todo = <<>> /\ ~txn.error
        BY Zenon, <1>1 DEF Update
    <1>3. txn.root[Branch] # NoPage
        <2>1. Good(txn) /\ Growing(txn)
            BY Zenon, <1>2 DEF PageInv, WriterOK
        <2>2. Shaped(txn)
            BY Zenon, <1>2, <2>1 DEF Growing, Good, TxnType
        <2>3. ~ InTodo(txn, Branch)
            BY <1>2 DEF InTodo
        <2> QED BY Zenon, <1>1, <2>2, <2>3 DEF Shaped, TreeShape
    <1>4. Trail(n) \in Seq(Position) /\ Trail(n) # <<>> /\ <<m>> \in Seq(Position)
        BY PositionsApart DEF Trail
    <1>5. Trail(n) \o <<m>> \in Seq(Position) /\ Trail(n) \o <<m>> # <<>>
        BY Zenon, <1>4, Trails
    <1>6. CASE Update(p, Trail(n), m)
        BY Zenon, <1>1, <1>3, <1>4, <1>6, PUpdate
    <1>7. CASE Update(p, Trail(n) \o <<m>>, n)
        BY Zenon, <1>1, <1>3, <1>5, <1>7, PUpdate
    <1> QED BY Zenon, <1>1, <1>6, <1>7

\* mdb_page_touch of the next page of an update: it takes no page that a reader or a meta page
\* needs, because the oldest reader it knows of is not younger than any of them.
LEMMA PTouch == ASSUME WellOrdered, PageInv, Inv, NEW p \in Procs, Touch(p) PROVE PageInv'
    <1> DEFINE n == Head(txn.todo)
               a == PageTouch(txn, n, env[p].pgoldest)
               t == [a.t EXCEPT !.todo = IF a.t.error THEN <<>> ELSE Tail(@)]
               w == IF t.todo = <<>> /\ t.drop # NoNode /\ ~t.error THEN Unlink(t, t.drop) ELSE t
    <1>1. /\ env[p].pc = "write" /\ txn.todo # <<>> /\ UNCHANGED <<files, locks, counts>>
          /\ env' = [env EXCEPT ![p].pgoldest = a.oldest] /\ txn' = w
        BY Zenon DEF Touch
    <1>2. Good(txn) /\ Growing(txn) /\ env[p].pc \in Building
        BY Zenon, <1>1 DEF PageInv, WriterOK, Building
    <1>3. TxnType(txn) /\ DOMAIN txn = Fields /\ txn.error = FALSE /\ n \in Position
        <2> HIDE DEF a, t, w
        <2>1. TxnType(txn) /\ DOMAIN txn = Fields /\ txn.todo \in Seq(Position)
            BY Zenon, <1>2 DEF Good, TxnType
        <2>2. txn.error = FALSE
            BY Zenon, <1>1, <1>2 DEF Growing
        <2> QED BY <1>1, <2>1, <2>2
    <1>4. /\ Touched(txn, a.t, n, a.oldest)
          /\ a.oldest \in Nat /\ a.oldest \in TxnId /\ a.oldest <= txn.id
          /\ a.oldest <= Newest(metas).txnid + 1 /\ a.oldest <= Older(metas).txnid + 1
          /\ \A q \in Procs : env[q].pc = "read" => a.oldest <= env[q].meta.txnid + 1
        BY Zenon, <1>2, <1>3, WriterTouches
    <1>5. tries \in 0..MaxEvents /\ SparesAll(txn) /\ Written(txn, cache, tries)
        BY Zenon, <1>2, WriterFacts
    <1>6. Good(a.t)
        <2> HIDE DEF n, a, t, w
        <2>1. a.oldest \in Nat /\ a.oldest <= txn.id /\ Touched(txn, a.t, n, a.oldest)
            BY Zenon, <1>4
        <2> QED BY SMTT(30), <1>2, <1>3, <1>5, <2>1, TouchedGood
    <1>7. DOMAIN a.t = Fields /\ a.t.error \in BOOLEAN /\ a.t.todo = txn.todo
        <2>1. DOMAIN a.t = Fields /\ a.t.error \in BOOLEAN
            BY Zenon, <1>6 DEF Good, TxnType
        <2>2. a.t.todo = txn.todo
            BY <1>4 DEF Touched, SameBut, Fields, Copied, Taken, FromLoose, FromHead, FromRecord,
               FromEnd
        <2> QED BY Zenon, <2>1, <2>2
    <1> HIDE DEF a
    <1>8. /\ SameBut(a.t, t, {"todo"}) /\ (a.t.error = TRUE => t.todo = <<>>)
          /\ (a.t.error = FALSE => t.todo = Tail(txn.todo)) /\ t.error = a.t.error
        BY Zenon, <1>7 DEF SameBut, Fields
    <1> HIDE DEF t, n
    <1>9. /\ t.todo = <<>> /\ t.drop # NoNode /\ t.error = FALSE => w = Unlink(t, t.drop)
          /\ ~(t.todo = <<>> /\ t.drop # NoNode /\ t.error = FALSE) => w = t
        BY Zenon, <1>7, <1>8
    <1> HIDE DEF w
    <1>10. /\ Good(w) /\ Growing(w) /\ w.id = txn.id
           /\ \A m : m.txnid \in TxnId /\ Pages(m) \subseteq Pgno /\ TxnSpares(txn, m)
                /\ a.oldest <= m.txnid + 1
                        => TxnSpares(w, m)
           /\ \A c : Written(txn, c, tries) => Written(w, c, tries)
        BY Zenon, <1>1, <1>2, <1>4, <1>5, <1>8, <1>9, TouchGood DEF n
    <1>11. SparesAll(w)
        BY Zenon, <1>2, <1>4, <1>5, <1>10, StillSpares
    <1>12. Moves(p) /\ env'[p].pc = "write"
        <2>1. TypeEnv /\ env[p].pc \in PC
            BY Zenon, <1>1, TableFacts DEF PC
        <2> QED BY Zenon, <1>1, <1>4, <2>1, SetPcOldest
    <1> QED BY Zenon, <1>1, <1>2, <1>5, <1>10, <1>11, <1>12, WriterKeeps

\* Between updates the tree has its shape.
LEMMA AtRest ==
    ASSUME NEW t, Good(t), Growing(t), t.todo = <<>>, ~t.error
    PROVE  t.error = FALSE /\ TreeShape(t.root)
    <1>1. t.error = FALSE
        BY Zenon DEF Good, TxnType
    <1>2. Shaped(t)
        BY Zenon, <1>1 DEF Growing
    <1>3. ~ InTodo(t, Branch)
        BY DEF InTodo
    <1> QED BY Zenon, <1>1, <1>2, <1>3 DEF Shaped, TreeShape

\* A touch of the page of the freeDB.
LEMMA FreeTouched ==
    ASSUME NEW t, NEW u, NEW o, Good(t), TreeShape(t.root), Touched(t, u, FreeRoot, o)
    PROVE  /\ TreeShape(u.root) /\ u.id = t.id
           /\ (t.loaded = FALSE => t.loose = <<>>) => (u.loaded = FALSE => u.loose = <<>>)
    <1>1. t.root \in [Position -> Pgno \cup {NoPage}]
        BY Zenon DEF Good, TxnType
    <1>2. CASE u = t
        BY Zenon, <1>2
    <1>3. CASE SameBut(t, u, {"error"})
        BY Zenon, <1>3 DEF SameBut, Fields
    <1>4. ASSUME NEW v, NEW page, Taken(t, v, page, o), Copied(t, v, u, FreeRoot, page)
          PROVE  /\ TreeShape(u.root) /\ u.id = t.id
                 /\ (t.loaded = FALSE => t.loose = <<>>) => (u.loaded = FALSE => u.loose = <<>>)
        <2>1. /\ u.root = [t.root EXCEPT ![FreeRoot] = page]
              /\ SameBut(v, u, {"root", "by", "dirty", "free_pgs"})
            BY Zenon, <1>4 DEF Copied
        <2>2. \A n \in Leaves \cup {Branch} : u.root[n] = t.root[n]
            BY Zenon, <1>1, <2>1, PositionsApart
        <2>3. TreeShape(u.root)
            BY Zenon, <2>2 DEF TreeShape
        <2>4. u.id = v.id /\ u.loaded = v.loaded /\ u.loose = v.loose
            BY Zenon, <2>1 DEF SameBut, Fields
        <2>5. /\ v.id = t.id
              /\ (t.loaded = FALSE => t.loose = <<>>) => (v.loaded = FALSE => v.loose = <<>>)
            BY <1>4 DEF Taken, FromLoose, FromHead, FromRecord, FromEnd, SameBut, Fields
        <2> QED BY Zenon, <2>3, <2>4, <2>5
    <1> QED BY Zenon, <1>2, <1>3, <1>4 DEF Touched

\* mdb_freelist_save touches the page of the freeDB.
LEMMA TouchesFree ==
    ASSUME WellOrdered, PageInv, Inv, NEW p \in Procs, env[p].pc \in Building, NEW t, Good(t),
           t.id = txn.id,
           t.error = FALSE, SparesAll(t), Written(t, cache, tries), TreeShape(t.root)
    PROVE  LET a == PageTouch(t, FreeRoot, env[p].pgoldest)
           IN  /\ Good(a.t) /\ a.t.id = t.id /\ SparesAll(a.t) /\ Written(a.t, cache, tries)
               /\ TreeShape(a.t.root) /\ a.oldest \in TxnId
               /\ (t.loaded = FALSE => t.loose = <<>>) => (a.t.loaded = FALSE => a.t.loose = <<>>)
    <1> DEFINE a == PageTouch(t, FreeRoot, env[p].pgoldest)
    <1>1. /\ Touched(t, a.t, FreeRoot, a.oldest)
          /\ a.oldest \in Nat /\ a.oldest \in TxnId /\ a.oldest <= t.id
          /\ a.oldest <= Newest(metas).txnid + 1 /\ a.oldest <= Older(metas).txnid + 1
          /\ \A q \in Procs : env[q].pc = "read" => a.oldest <= env[q].meta.txnid + 1
        BY Zenon, WriterTouches, PositionsApart
    <1>2. tries \in 0..MaxEvents
        BY Zenon, WriterFacts
    <1> HIDE DEF a
    <1>3. Good(a.t)
        BY Zenon, <1>1, <1>2, PositionsApart, TouchedGood
    <1>4. Written(a.t, cache, tries)
        BY Zenon, <1>1, PositionsApart, TouchedWritten
    <1>5. \A m : m.txnid \in TxnId /\ Pages(m) \subseteq Pgno /\ TxnSpares(t, m)
            /\ a.oldest <= m.txnid + 1
                    => TxnSpares(a.t, m)
        BY Zenon, <1>1, PositionsApart, TouchedSpares
    <1>6. SparesAll(a.t)
        BY Zenon, <1>1, <1>5, StillSpares
    <1>7. /\ TreeShape(a.t.root) /\ a.t.id = t.id
          /\ (t.loaded = FALSE => t.loose = <<>>) => (a.t.loaded = FALSE => a.t.loose = <<>>)
        BY Zenon, <1>1, FreeTouched
    <1> QED BY Zenon, <1>1, <1>3, <1>4, <1>6, <1>7 DEF a

\* mdb_freelist_save begins: the loose pages are given to the freeDB.
LEMMA PCommit == ASSUME WellOrdered, PageInv, Inv, NEW p \in Procs, Commit(p) PROVE PageInv'
    <1> DEFINE b == PageTouch(txn, FreeRoot, env[p].pgoldest)
               a == IF txn.loaded /\ txn.root[FreeRoot] # NoPage THEN b
                    ELSE [t |-> txn, oldest |-> env[p].pgoldest]
               v == a.t
               given == {v.loose[i] : i \in 1..Len(v.loose)}
    <1>1. /\ env[p].pc = "write" /\ txn.todo = <<>> /\ ~txn.error
          /\ UNCHANGED <<files, locks, counts>>
          /\ env' = [env EXCEPT ![p].pc = "save", ![p].pgoldest = a.oldest]
          /\ txn' = IF v.loaded THEN v
                    ELSE [v EXCEPT !.free_pgs = @ \cup given, !.dirty = @ \ given, !.loose = <<>>]
        BY Zenon DEF Commit
    <1>2. Good(txn) /\ Growing(txn) /\ env[p].pc \in Building
        BY Zenon, <1>1 DEF PageInv, WriterOK, Building
    <1>3. txn.error = FALSE /\ TreeShape(txn.root)
        BY Zenon, <1>1, <1>2, AtRest
    <1>4. SparesAll(txn) /\ Written(txn, cache, tries)
        BY Zenon, <1>2, WriterFacts
    <1>5. /\ Good(v) /\ v.id = txn.id /\ SparesAll(v) /\ Written(v, cache, tries)
          /\ TreeShape(v.root) /\ a.oldest \in TxnId
        <2>1. /\ Good(b.t) /\ b.t.id = txn.id /\ SparesAll(b.t) /\ Written(b.t, cache, tries)
              /\ TreeShape(b.t.root) /\ b.oldest \in TxnId
            BY Zenon, <1>2, <1>3, <1>4, TouchesFree
        <2>2. env[p].pgoldest \in TxnId
            BY Zenon, ProcessFacts DEF PageInv
        <2>3. CASE txn.loaded /\ txn.root[FreeRoot] # NoPage
            BY Zenon, <2>1, <2>3
        <2>4. CASE ~(txn.loaded /\ txn.root[FreeRoot] # NoPage)
            <3>1. v = txn /\ a.oldest = env[p].pgoldest
                BY Zenon, <2>4
            <3> QED BY Zenon, <1>2, <1>3, <1>4, <2>2, <3>1
        <2> QED BY Zenon, <2>3, <2>4
    <1> HIDE DEF a, v
    <1>6. Moves(p) /\ env'[p].pc = "save"
        <2>1. TypeEnv /\ "save" \in PC
            BY Zenon, <1>1, TableFacts DEF PC
        <2> QED BY Zenon, <1>1, <1>5, <2>1, SetPcOldest
    <1>7. v.loaded \in BOOLEAN /\ DOMAIN v = Fields
        BY Zenon, <1>5 DEF Good, TxnType
    <1>8. CASE v.loaded
        <2>1. txn' = v /\ txn'.loaded # FALSE
            BY Zenon, <1>1, <1>8
        <2> QED BY Zenon, <1>1, <1>2, <1>5, <1>6, <2>1, WriterKeeps
    <1>9. CASE ~v.loaded
        <2>1. txn' = [v EXCEPT !.free_pgs = @ \cup given, !.dirty = @ \ given, !.loose = <<>>]
            BY Zenon, <1>1, <1>9
        <2>2. /\ SameBut(v, txn', {"free_pgs", "dirty", "loose"}) /\ txn'.id = v.id
              /\ txn'.root = v.root
              /\ txn'.free_pgs = v.free_pgs \cup Loose(v) /\ txn'.dirty = v.dirty \ Loose(v)
              /\ txn'.loose = <<>>
            BY Zenon, <1>7, <2>1 DEF SameBut, Fields, Loose
        <2>3. /\ Good(txn') /\ \A m : TxnSpares(v, m) => TxnSpares(txn', m)
              /\ \A c, tr : Written(v, c, tr) => Written(txn', c, tr)
            BY Zenon, <1>5, <2>2, GiveLoose
        <2>4. SparesAll(txn') /\ Written(txn', cache, tries)
            BY Zenon, <1>5, <2>3 DEF SparesAll
        <2>5. TreeShape(txn'.root) /\ txn'.id = txn.id
            BY Zenon, <1>5, <2>2
        <2> QED BY Zenon, <1>1, <1>2, <1>6, <2>2, <2>3, <2>4, <2>5, WriterKeeps
    <1> QED BY Zenon, <1>8, <1>9

\* One round of mdb_freelist_save.
LEMMA PSave == ASSUME WellOrdered, PageInv, Inv, NEW p \in Procs, Save(p) PROVE PageInv'
    <1> DEFINE t == IF txn.trimmed < txn.pglast THEN TrimRecords(txn) ELSE txn
               a == PageTouch(t, FreeRoot, env[p].pgoldest)
    <1>1. /\ env[p].pc = "save" /\ ~txn.error /\ UNCHANGED <<files, locks, counts>>
          /\ t.saved # t.free_pgs =>
                /\ txn' = [a.t EXCEPT !.free[t.id] = a.t.free_pgs, !.saved = a.t.free_pgs]
                /\ env' = [env EXCEPT ![p].pgoldest = a.oldest]
          /\ t.saved = t.free_pgs =>
                /\ txn' = [t EXCEPT !.free[t.pglast] = Left(t), !.pghead = {}, !.loose = <<>>,
                                    !.dirty = @ \ Left(t)]
                /\ env' = [env EXCEPT ![p].pc = "flush"]
        BY Zenon DEF Save
    <1>2. Good(txn) /\ env[p].pc \in Building
        BY Zenon, <1>1 DEF PageInv, WriterOK, Building
    <1>3. txn.error = FALSE
        BY Zenon, <1>1, <1>2 DEF Good, TxnType
    <1>4. TreeShape(txn.root) /\ (txn.loaded = FALSE => txn.loose = <<>>)
        BY Zenon, <1>1, <1>3 DEF PageInv, WriterOK
    <1>5. SparesAll(txn) /\ Written(txn, cache, tries)
        BY Zenon, <1>2, WriterFacts
    <1>6. /\ Good(t) /\ t.trimmed = t.pglast /\ t.id = txn.id /\ t.error = FALSE
          /\ TreeShape(t.root)
          /\ (t.loaded = FALSE => t.loose = <<>>) /\ SparesAll(t) /\ Written(t, cache, tries)
        <2>1. CASE txn.trimmed < txn.pglast
            <3>1. t = TrimRecords(txn)
                BY Zenon, <2>1
            <3>2. /\ Good(t) /\ t.trimmed = t.pglast /\ t.id = txn.id /\ t.error = FALSE
                  /\ TreeShape(t.root) /\ (t.loaded = FALSE => t.loose = <<>>)
                  /\ \A m : TxnSpares(txn, m) => TxnSpares(t, m)
                  /\ \A c, tr : Written(txn, c, tr) => Written(t, c, tr)
                BY Zenon, <1>2, <1>3, <1>4, <2>1, <3>1, TrimGood
            <3> QED BY Zenon, <1>5, <3>2 DEF SparesAll
        <2>2. CASE ~(txn.trimmed < txn.pglast)
            <3>1. t = txn
                BY Zenon, <2>2
            <3>2. txn.trimmed <= txn.pglast /\ txn.trimmed \in TxnId /\ txn.pglast \in TxnId
                BY Zenon, <1>2 DEF Good, TxnType, Books
            <3>3. txn.trimmed = txn.pglast
                <4> HIDE DEF t, a
                <4>1. txn.trimmed \in Nat /\ txn.pglast \in Nat
                    BY Zenon, <3>2, TxnIds
                <4> QED BY <2>2, <3>2, <4>1
            <3> QED BY Zenon, <1>2, <1>3, <1>4, <1>5, <3>1, <3>3
        <2> QED BY Zenon, <2>1, <2>2
    <1> HIDE DEF t
    <1>7. /\ DOMAIN t = Fields /\ t.free \in [TxnId -> SUBSET Pgno] /\ t.id \in TxnId
          /\ t.pglast \in TxnId
        BY Zenon, <1>6 DEF Good, TxnType
    <1>8. CASE t.saved # t.free_pgs
        <2>1. /\ Good(a.t) /\ a.t.id = t.id /\ SparesAll(a.t) /\ Written(a.t, cache, tries)
              /\ TreeShape(a.t.root) /\ a.oldest \in TxnId
              /\ (a.t.loaded = FALSE => a.t.loose = <<>>)
            BY Zenon, <1>2, <1>6, TouchesFree
        <2>2. /\ txn' = [a.t EXCEPT !.free[t.id] = a.t.free_pgs, !.saved = a.t.free_pgs]
              /\ env' = [env EXCEPT ![p].pgoldest = a.oldest]
            BY Zenon, <1>1, <1>8
        <2> HIDE DEF a
        <2>3. DOMAIN a.t = Fields
            BY Zenon, <2>1 DEF Good, TxnType
        <2>4. /\ SameBut(a.t, txn', {"free", "saved"}) /\ txn'.saved = a.t.free_pgs
              /\ txn'.free = [a.t.free EXCEPT ![a.t.id] = a.t.free_pgs]
            BY Zenon, <2>1, <2>2, <2>3 DEF SameBut, Fields
        <2>5. /\ txn'.id = txn.id /\ txn'.root = a.t.root /\ txn'.loaded = a.t.loaded
              /\ txn'.loose = a.t.loose
            BY Zenon, <1>6, <2>1, <2>4 DEF SameBut, Fields
        <2>6. /\ Good(txn')
              /\ \A m : m.txnid \in TxnId /\ m.txnid < a.t.id /\ TxnSpares(a.t, m) =>
                     TxnSpares(txn', m)
              /\ \A c, tr : Written(a.t, c, tr) => Written(txn', c, tr)
            BY Zenon, <2>1, <2>4, FreedSaved
        <2>7. SparesAll(txn')
            <3>1. /\ txn.id = mti_txnid + 1 /\ mti_txnid = Newest(metas).txnid /\ mti_txnid \in Nat
                  /\ Newest(metas) \in Meta /\ Older(metas) \in Meta
                  /\ Newest(metas).txnid = Older(metas).txnid + 1
                BY Zenon, <1>2, WriterFacts
            <3>2. /\ Newest(metas).txnid \in TxnId /\ Older(metas).txnid \in TxnId
                  /\ Older(metas).txnid \in Nat
                BY Zenon, <3>1, MetaFacts
            <3>3. Newest(metas).txnid < a.t.id /\ Older(metas).txnid < a.t.id
                BY <1>6, <2>1, <3>1, <3>2
            <3>4. ASSUME NEW q \in Procs, env[q].pc = "read"
                  PROVE  env[q].meta.txnid \in TxnId /\ env[q].meta.txnid < a.t.id
                <4>1. env[q].meta.txnid <= Newest(metas).txnid
                    BY Zenon, <3>4 DEF PageInv, ReaderOK, Follows
                <4>2. env[q].meta \in Meta
                    BY Zenon, ProcessFacts DEF PageInv
                <4>3. env[q].meta.txnid \in TxnId /\ env[q].meta.txnid \in Nat
                    BY Zenon, <4>2, MetaFacts
                <4> QED BY <1>6, <2>1, <3>1, <4>1, <4>3
            <3> QED BY Zenon, <2>1, <2>6, <3>2, <3>3, <3>4 DEF SparesAll
        <2>8. Moves(p) /\ env'[p].pc = "save"
            <3>1. TypeEnv /\ env[p].pc \in PC
                BY Zenon, <1>1, TableFacts DEF PC
            <3> QED BY <1>1, <2>1, <2>2, <3>1, SetPcOldest
        <2>9. /\ Written(txn', cache, tries) /\ TreeShape(txn'.root)
              /\ (txn'.loaded = FALSE => txn'.loose = <<>>)
            BY Zenon, <2>1, <2>5, <2>6
        <2> QED BY Zenon, <1>1, <1>2, <2>5, <2>6, <2>7, <2>8, <2>9, WriterKeeps
    <1>9. CASE t.saved = t.free_pgs
        <2>1. /\ txn' = [t EXCEPT !.free[t.pglast] = Left(t), !.pghead = {}, !.loose = <<>>,
                                  !.dirty = @ \ Left(t)]
              /\ env' = [env EXCEPT ![p].pc = "flush"]
            BY Zenon, <1>1, <1>9
        <2>2. Left(t) = t.pghead \cup Loose(t)
            BY Zenon DEF Left, Loose
        <2>3. /\ SameBut(t, txn', {"free", "pghead", "loose", "dirty"}) /\ txn'.id = t.id
              /\ txn'.free = [t.free EXCEPT ![t.pglast] = t.pghead \cup Loose(t)]
              /\ txn'.pghead = {} /\ txn'.loose = <<>>
              /\ txn'.dirty = t.dirty \ (t.pghead \cup Loose(t))
            BY Zenon, <1>7, <2>1, <2>2 DEF SameBut, Fields
        <2>4. /\ Settled(txn') /\ \A m : TxnSpares(t, m) => TxnSpares(txn', m)
              /\ \A c, tr : Written(t, c, tr) => Written(txn', c, tr)
            BY Zenon, <1>6, <1>9, <2>3, PutBack
        <2>5. SparesAll(txn') /\ Written(txn', cache, tries)
            BY Zenon, <1>6, <2>4 DEF SparesAll
        <2>6. Moves(p) /\ env'[p].pc = "flush"
            <3>1. TypeEnv /\ "flush" \in PC
                BY Zenon, TableFacts DEF PC
            <3> QED BY Zenon, <2>1, <3>1, SetPc
        <2>7. txn'.id = txn.id
            BY Zenon, <1>6, <2>3
        <2> QED BY Zenon, <1>1, <1>2, <2>4, <2>5, <2>6, <2>7, WriterKeeps
    <1> QED BY Zenon, <1>8, <1>9

\* mdb_page_flush writes one page.
LEMMA PFlush == ASSUME WellOrdered, PageInv, Inv, NEW p \in Procs, Flush(p) PROVE PageInv'
    <1> DEFINE pg == Min(txn.dirty)
               x == IF txn.dirty = {pg} THEN "sync" ELSE "flush"
               v == IF \E n \in Position : txn.root[n] = pg
                    THEN [node |-> CHOOSE n \in Position : txn.root[n] = pg, try |-> tries]
                    ELSE Stale
    <1>1. /\ env[p].pc = "flush" /\ txn.dirty # {} /\ cache' = [cache EXCEPT ![pg] = v]
          /\ txn' = [txn EXCEPT !.dirty = @ \ {pg}] /\ env' = [env EXCEPT ![p].pc = x]
          /\ UNCHANGED <<metas, disk, dmetas, locks, counts>>
        BY Zenon DEF Flush
    <1>2. Settled(txn) /\ env[p].pc \in Building
        BY Zenon, <1>1 DEF PageInv, WriterOK, Building
    <1>3. DOMAIN txn = Fields /\ txn.dirty \subseteq Pgno
        BY Zenon, <1>2 DEF Settled, TxnType
    <1>4. pg \in txn.dirty /\ pg \in Pgno
        <2>1. txn.dirty \subseteq Nat
            BY <1>3, LmdbAssumption DEF Pgno
        <2> QED BY Zenon, <1>1, <1>3, <2>1, MinOfSet
    <1>5. /\ TypeFiles /\ cache \in [Pgno -> Content] /\ TypeEnv
        BY Zenon, TypeParts DEF PageInv, TypeFiles
    <1>6. tries \in 0..MaxEvents /\ SparesAll(txn) /\ Written(txn, cache, tries)
        BY Zenon, <1>2, WriterFacts
    <1>7. x \in {"sync", "flush"} /\ (x = "sync" => txn.dirty = {pg})
        BY Zenon
    <1>8. v \in Content
        BY <1>6, LmdbAssumption DEF Content, Stale
    <1>9. /\ Settled(txn') /\ txn'.id = txn.id
          /\ \A m : TxnSpares(txn, m) => TxnSpares(txn', m)
          /\ \A m : TxnSpares(txn, m) /\ Pages(m) \subseteq Pgno /\ Intact(m, cache) =>
                 Intact(m, cache')
          /\ Written(txn, cache, tries) => Written(txn', cache', tries)
        <2>1. ASSUME NEW n \in Position, txn.root[n] = pg PROVE v = [node |-> n, try |-> tries]
            <3>1. OnePosition(txn.root) /\ pg # NoPage
                BY <1>2, <1>4 DEF Settled, Placed, PlacedBut, Pgno, NoPage
            <3>2. \A k \in Position : txn.root[k] = pg => k = n
                BY Zenon, <2>1, <3>1 DEF OnePosition
            <3>3. (CHOOSE k \in Position : txn.root[k] = pg) = n
                BY Zenon, <2>1, <3>2
            <3> QED BY Zenon, <2>1, <3>3
        <2> HIDE DEF pg, v, x
        <2>2. Stored(txn, pg, cache, cache', tries)
            BY Zenon, <1>1, <1>4, <1>5, <2>1 DEF Stored
        <2>3. SameBut(txn, txn', {"dirty"}) /\ txn'.dirty = txn.dirty \ {pg}
            BY Zenon, <1>1, <1>3 DEF SameBut, Fields
        <2> QED BY Zenon, <1>2, <1>4, <2>2, <2>3, FlushGood
    <1> HIDE DEF x, v, pg
    <1>10. TypeFiles'
        BY Zenon, <1>1, <1>4, <1>5, <1>8 DEF TypeFiles
    <1>11. MetasOK(metas, dmetas, cache', disk)
        <2>1. PICK h \in 0..1 : MetasAt(h, metas, dmetas, cache, disk)
            BY Zenon DEF PageInv, MetasOK
        <2>2. /\ Newest(metas) = metas[h] /\ Older(metas) = metas[1 - h]
              /\ metas[h] \in Meta /\ metas[1 - h] \in Meta
            BY <1>5, <2>1, NewestAt DEF TypeFiles
        <2>3. /\ Intact(metas[h], cache) => Intact(metas[h], cache')
              /\ Intact(metas[1 - h], cache) => Intact(metas[1 - h], cache')
            BY Zenon, <1>6, <1>9, <2>2, MetaFacts DEF SparesAll
        <2>4. MetasAt(h, metas, dmetas, cache', disk)
            BY Zenon, <2>1, <2>3 DEF MetasAt, Behind
        <2> QED BY Zenon, <2>4 DEF MetasOK
    <1>12. MetasOK(metas, dmetas, cache, disk)'
        BY Zenon, <1>1, <1>11
    <1>13. Moves(p) /\ env'[p].pc = x
        <2>1. x \in PC
            BY Zenon, <1>7 DEF PC
        <2> QED BY <1>1, <1>5, <2>1, SetPc
    <1>14. SparesAll(txn') /\ Written(txn', cache', tries)
        BY Zenon, <1>6, <1>9 DEF SparesAll
    <1>15. env'[p].pc \in Building /\ env'[p].pc \in {"sync", "flush"}
           /\ (env'[p].pc = "sync" => txn'.dirty = {})
        BY Zenon, <1>1, <1>3, <1>7, <1>13 DEF Building, Fields
    <1>16. env'[p].pc # "write" /\ env'[p].pc # "save" /\ env'[p].pc # "meta"
        BY Zenon, <1>15
    <1>17. env'[p].pc \in {"sync", "meta"} => txn'.dirty = {}
        BY Zenon, <1>15
    <1>18. UNCHANGED <<metas, locks, counts>>
        BY Zenon, <1>1
    <1> QED BY Zenon, <1>2, <1>9, <1>10, <1>12, <1>13, <1>14, <1>15, <1>16, <1>17, <1>18,
               BuilderKeeps

\* mdb_env_write_meta: the newest meta page leads to the tree of the transaction, and the other
\* one to the newest before it.
LEMMA PWriteMeta == ASSUME PageInv, Inv, NEW p \in Procs, WriteMeta(p) PROVE PageInv'
    <1> DEFINE m == [txnid |-> txn.id, root |-> txn.root, last_pg |-> txn.next_pgno - 1,
                     free |-> txn.free, by |-> txn.by]
    <1>1. /\ env[p].pc = "meta" /\ metas' = [metas EXCEPT ![txn.id % 2] = m]
          /\ UNCHANGED <<cache, disk, dmetas, locks, counts>>
        BY Zenon DEF WriteMeta
    <1>2. PICK x \in {"publish", "metasync"} : env' = [env EXCEPT ![p].pc = x]
        BY Zenon DEF WriteMeta
    <1>3. /\ Settled(txn) /\ txn.dirty = {} /\ disk = cache /\ dmetas = metas
          /\ txn.id <= tries + 2 /\ env[p].pc \in Building /\ env[p].pc \in Holding
        BY Zenon, <1>1 DEF PageInv, WriterOK, Building, Holding
    <1>4. /\ txn.id = mti_txnid + 1 /\ mti_txnid = Newest(metas).txnid /\ mti_txnid \in Nat
          /\ SparesAll(txn) /\ Written(txn, cache, tries) /\ wmutex = p
        BY Zenon, <1>3, WriterFacts
    <1>5. /\ Whole(m) /\ m \in Meta /\ m.txnid = txn.id
          /\ \A a : a.txnid <= txn.id /\ TxnSpares(txn, a) => Follows(m, a)
          /\ Intact(m, cache)
        BY Zenon, <1>3, <1>4, SettledWhole
    <1>6. txn'.id = txn.id
        <2>1. DOMAIN txn = Fields
            BY Zenon, <1>3 DEF Settled, TxnType
        <2> QED BY Zenon, <2>1 DEF WriteMeta, Fields
    <1> HIDE DEF m
    <1>7. TypeFiles /\ TypeEnv /\ TypeLocks /\ MetasOK(metas, dmetas, cache, disk)
        BY Zenon, TypeParts DEF PageInv
    <1>8. PICK h \in 0..1 : MetasAt(h, metas, dmetas, cache, disk)
        BY Zenon DEF PageInv, MetasOK
    <1>9. /\ Newest(metas) = metas[h] /\ Older(metas) = metas[1 - h]
          /\ 1 - h \in 0..1 /\ 1 - (1 - h) = h /\ metas[h] \in Meta /\ metas[1 - h] \in Meta
          /\ metas[h].txnid % 2 = h
        BY <1>7, <1>8, NewestAt DEF TypeFiles
    <1>10. /\ txn.id % 2 = 1 - h /\ metas[h].txnid \in Nat /\ metas[1 - h].txnid \in Nat
           /\ txn.id = metas[h].txnid + 1 /\ metas[h].txnid = metas[1 - h].txnid + 1
        <2>1. metas[h].txnid \in Nat /\ metas[1 - h].txnid \in Nat
            BY Zenon, <1>9, MetaFacts
        <2> QED BY <1>4, <1>8, <1>9, <2>1, Halves DEF MetasAt
    <1>11. /\ metas' \in [0..1 -> Meta] /\ metas'[1 - h] = m /\ metas'[h] = metas[h] /\ TypeFiles'
           /\ \A i \in 0..1 : i = h \/ i = 1 - h
        <2>1. h # 1 - h
            BY <1>9
        <2>2. metas' = [metas EXCEPT ![1 - h] = m] /\ metas \in [0..1 -> Meta]
            BY Zenon, <1>1, <1>7, <1>10 DEF TypeFiles
        <2>3. metas' \in [0..1 -> Meta] /\ metas'[1 - h] = m /\ metas'[h] = metas[h]
            BY Zenon, <1>5, <1>9, <2>1, <2>2
        <2>4. \A i \in 0..1 : i = h \/ i = 1 - h
            OBVIOUS
        <2> QED BY Zenon, <1>1, <1>7, <2>3, <2>4 DEF TypeFiles
    <1>12. Follows(m, metas[h])
        <2>1. TxnSpares(txn, metas[h]) /\ metas[h].txnid <= txn.id
            BY <1>4, <1>9, <1>10 DEF SparesAll
        <2> QED BY Zenon, <1>5, <2>1
    <1>13. MetasAt(1 - h, metas', dmetas, cache, disk)
        <2>1. \A i \in 0..1 : metas'[i].txnid % 2 = i /\ Whole(metas'[i]) /\ Whole(dmetas[i])
            BY Zenon, <1>5, <1>8, <1>9, <1>10, <1>11 DEF MetasAt
        <2>2. metas'[1 - h].txnid = metas'[h].txnid + 1
            BY Zenon, <1>5, <1>10, <1>11
        <2>3. Behind(1 - h, metas', dmetas, cache, disk)
            <3>1. dmetas[1 - h].txnid + 2 = metas'[1 - h].txnid
                BY <1>3, <1>5, <1>10, <1>11
            <3>2. /\ Follows(metas'[h], dmetas[1 - h]) /\ Intact(metas'[h], cache)
                  /\ Intact(metas'[h], disk)
                BY Zenon, <1>3, <1>8, <1>11 DEF MetasAt
            <3> QED BY Zenon, <1>9, <3>1, <3>2 DEF Behind
        <2>4. dmetas[h] = metas'[h] /\ Follows(metas'[1 - h], metas'[h])
              /\ Intact(metas'[1 - h], cache) /\ Intact(metas'[1 - h], disk)
            BY Zenon, <1>3, <1>5, <1>11, <1>12
        <2> QED BY Zenon, <1>9, <2>1, <2>2, <2>3, <2>4 DEF MetasAt
    <1>14. MetasOK(metas, dmetas, cache, disk)'
        <2>1. MetasOK(metas', dmetas, cache, disk)
            BY Zenon, <1>9, <1>13 DEF MetasOK
        <2> QED BY Zenon, <1>1, <2>1
    <1>15. Newest(metas') = m /\ Older(metas') = metas[h]
        BY <1>9, <1>11, <1>13, NewestAt
    <1>16. Moves(p) /\ env'[p].pc = x /\ x \in Committing
        <2>1. x \in PC /\ x \in Committing
            BY Zenon DEF PC, Committing
        <2> QED BY Zenon, <1>2, <1>7, <2>1, SetPc
    <1>17. /\ mti_txnid' = mti_txnid /\ readers' = readers /\ wmutex' = wmutex /\ cache' = cache
           /\ UNCHANGED counts /\ TypeLocks' /\ mti_txnid <= mti_txnid'
        BY <1>1, <1>4, <1>7, TypeSame DEF locks
    <1>18. Intact(metas[h], cache)
        BY Zenon, <1>8 DEF MetasAt
    <1>19. LockOK'
        <2>1. mti_txnid' = Older(metas').txnid /\ metas'[mti_txnid' % 2] = metas[h]
            BY Zenon, <1>4, <1>9, <1>11, <1>15, <1>17
        <2>2. Intact(metas'[mti_txnid' % 2], cache')
            BY Zenon, <1>17, <1>18, <2>1
        <2>3. wmutex' = p /\ env'[p].pc \in Committing
            BY Zenon, <1>4, <1>16, <1>17
        <2> QED BY Zenon, <2>1, <2>2, <2>3 DEF LockOK
    <1>20. ASSUME NEW q \in Procs, env[q].pc = "copy"
           PROVE  Intact(metas'[readers[env[q].slot].txnid % 2], cache)
        <2>1. readers[env[q].slot].txnid \in Nat
            BY Zenon, <1>20, TableFacts, TxnIds DEF Reading
        <2>2. readers[env[q].slot].txnid % 2 \in 0..1
            BY Zenon, <2>1, Halves
        <2>3. metas'[readers[env[q].slot].txnid % 2] \in {m, metas[h]}
            BY Zenon, <1>11, <2>2
        <2> QED BY Zenon, <1>5, <1>18, <2>3
    <1>21. ASSUME NEW q \in Procs, env[q].pc = "read" PROVE Follows(Newest(metas'), env[q].meta)
        <2>1. TxnSpares(txn, env[q].meta)
            BY Zenon, <1>4, <1>21 DEF SparesAll
        <2>2. env[q].meta.txnid <= txn.id
            <3>1. Follows(metas[h], env[q].meta)
                BY Zenon, <1>9, <1>21 DEF PageInv, ReaderOK
            <3>2. env[q].meta.txnid \in Nat
                BY Zenon, ProcessFacts, MetaFacts DEF PageInv
            <3> QED BY <1>10, <3>1, <3>2 DEF Follows
        <2> QED BY Zenon, <1>5, <1>15, <2>1, <2>2
    <1>22. Newest(metas').txnid <= tries + 2 /\ Newest(metas').txnid = txn'.id
        BY Zenon, <1>3, <1>5, <1>6, <1>15
    <1> QED BY Zenon, <1>3, <1>11, <1>14, <1>16, <1>17, <1>19, <1>20, <1>21, <1>22, WriterLeaves

\* A write transaction begins with the newest database, published or not.
LEMMA PWriteBegin == ASSUME PageInv, Inv, NEW p \in Procs, WriteBegin(p) PROVE PageInv'
    <1>1. /\ env[p].pc = "idle" /\ tries + faults < MaxEvents /\ wmutex \in {NoProc, OwnerDead}
          /\ mti_txnid' = StartFrom /\ readers' \in {ReaderCheck(p), readers}
          /\ wmutex' = p /\ tries' = tries + 1 /\ env' = [env EXCEPT ![p].pc = "write"]
          /\ UNCHANGED <<files, numreaders, faults, setup>>
        BY Zenon DEF WriteBegin
    <1>2. TypeFiles /\ TypeEnv /\ TypeLocks /\ TypeCounts /\ MetasOK(metas, dmetas, cache, disk)
        BY Zenon, TypeParts DEF PageInv
    <1>3. cache' = cache /\ disk' = disk /\ metas' = metas /\ dmetas' = dmetas /\ TypeFiles'
        BY Zenon, <1>1, <1>2, TypeSame DEF files
    <1>4. PICK h \in 0..1 : MetasAt(h, metas, dmetas, cache, disk)
        BY Zenon DEF PageInv, MetasOK
    <1>5. /\ Newest(metas) = metas[h] /\ metas[h] \in Meta /\ metas[h].txnid % 2 = h
          /\ Older(metas) = metas[1 - h] /\ metas[1 - h] \in Meta
        BY <1>2, <1>4, NewestAt DEF TypeFiles
    <1>6. /\ Intact(metas[h], cache) /\ metas[h].txnid = metas[1 - h].txnid + 1 /\ Whole(metas[h])
          /\ metas[h].txnid \in Nat /\ metas[1 - h].txnid \in Nat /\ metas[h].txnid \in TxnId
          /\ Follows(metas[h], metas[1 - h])
        BY Zenon, <1>4, <1>5, MetaFacts DEF MetasAt
    <1>7. \A q \in Procs : env[q].pc \notin Holding
        <2>1. wmutex \notin Procs
            BY Zenon, <1>1, LmdbAssumption
        <2> QED BY Zenon, <2>1, Holder
    <1>8. mti_txnid' = metas[h].txnid /\ mti_txnid <= mti_txnid' /\ mti_txnid \in Nat
        <2>1. mti_txnid = Older(metas).txnid => wmutex = OwnerDead
            BY Zenon, <1>1, LmdbAssumption DEF PageInv, LockOK
        <2>2. /\ mti_txnid \in {Newest(metas).txnid, Older(metas).txnid} /\ mti_txnid \in Nat
              /\ mti_txnid <= Newest(metas).txnid
            BY Zenon, <1>1, Published
        <2> QED BY Zenon, <1>1, <1>5, <2>1, <2>2 DEF StartFrom
    <1> DEFINE id == metas[h].txnid + 1
    <1>9. id \in TxnId /\ id <= tries' + 2 /\ id - 1 <= tries' + 2
        <2>1. metas[h].txnid <= tries + 2
            BY Zenon, <1>5 DEF PageInv
        <2> QED BY <1>1, <1>2, <1>6, <2>1, LmdbAssumption DEF TxnId, TypeCounts
    <1>10. /\ Good(txn') /\ Growing(txn') /\ txn'.id = id
           /\ \A a : Follows(metas[h], a) => TxnSpares(txn', a)
           /\ \A c, tr : Intact(metas[h], c) => Written(txn', c, tr)
        <2>1. metas[mti_txnid' % 2] = metas[h]
            BY Zenon, <1>5, <1>8
        <2>2. Begun(txn', metas[h], id)
            BY Zenon, <1>8, <2>1 DEF WriteBegin, Begun
        <2>3. id \in TxnId /\ id = metas[h].txnid + 1 /\ metas[h] \in Meta /\ Whole(metas[h])
            BY Zenon, <1>5, <1>6, <1>9
        <2> HIDE DEF id
        <2> QED BY Zenon, <2>2, <2>3, BeginGood
    <1>11. Moves(p) /\ env'[p].pc = "write"
        BY Zenon, <1>1, <1>2, SetPc DEF PC
    <1>12. /\ readers' \in [Slot -> [pid : Procs \cup {NoProc}, txnid : TxnId \cup {NoTxn}]]
           /\ \A j \in Slot : readers'[j].txnid = readers[j].txnid
        BY Zenon, <1>1, <1>2, CheckTable DEF TypeLocks
    <1>13. TypeOK'
        <2>1. TypeLocks'
            BY Zenon, <1>1, <1>2, <1>6, <1>8, <1>12 DEF TypeLocks
        <2>2. TypeCounts'
            BY <1>1, <1>2, LmdbAssumption DEF TypeCounts
        <2> QED BY Zenon, <1>3, <1>11, <2>1, <2>2, TypeParts DEF Moves
    <1>14. MetasOK(metas, dmetas, cache, disk)' /\ (Newest(metas).txnid <= tries + 2)'
        <2>1. metas[h].txnid <= tries' + 2
            BY <1>6, <1>9
        <2> QED BY Zenon, <1>2, <1>3, <1>5, <2>1
    <1>15. LockOK'
        <2>1. mti_txnid' = Newest(metas').txnid /\ metas'[mti_txnid' % 2] = metas[h]
            BY Zenon, <1>3, <1>5, <1>8
        <2>2. Newest(metas').txnid # Older(metas').txnid
            BY <1>3, <1>5, <1>6
        <2>3. Intact(metas'[mti_txnid' % 2], cache')
            BY Zenon, <1>3, <1>6, <2>1
        <2> QED BY Zenon, <2>1, <2>2, <2>3 DEF LockOK
    <1>16. ASSUME NEW q \in Procs PROVE WriterOK(q)'
        <2>1. CASE q = p
            <3>1. /\ TxnSpares(txn', Newest(metas')) /\ TxnSpares(txn', Older(metas'))
                  /\ Written(txn', cache', tries') /\ mti_txnid' = Newest(metas').txnid
                BY Zenon, <1>3, <1>5, <1>6, <1>8, <1>10, FollowsItself
            <3>2. txn'.id \in TxnId /\ txn'.id <= tries' + 2
                BY Zenon, <1>9, <1>10
            <3> HIDE DEF id
            <3> QED BY Zenon, <1>10, <1>11, <2>1, <3>1, <3>2 DEF WriterOK, Building, Committing
        <2>2. CASE q # p
            <3>1. env'[q].pc \notin Holding
                BY Zenon, <1>7, <1>11, <2>2 DEF Moves
            <3> QED BY Zenon, <3>1 DEF WriterOK, Building, Holding
        <2> QED BY Zenon, <2>1, <2>2
    <1>17. ASSUME NEW q \in Procs PROVE ReaderOK(q)' /\ Undisturbed(q)'
        <2>1. CASE q = p
            BY Zenon, <1>11, <2>1, Rests DEF NotReading
        <2>2. CASE q # p
            <3>1. env'[q] = env[q] /\ ReaderOK(q)
                BY Zenon, <1>11, <2>2 DEF Moves, PageInv
            <3>2. /\ env[q].floor \in Nat /\ env[q].seen \in Nat
                  /\ env[q].pc \in {"check", "copy", "read"} =>
                        /\ readers[env[q].slot].txnid \in Nat
                        /\ readers'[env[q].slot].txnid = readers[env[q].slot].txnid
                BY Zenon, <1>12, ProcessFacts, TableFacts, TxnIds DEF PageInv, Reading
            <3>3. /\ env'[q].pc \in {"claim", "load"} => env'[q].floor <= mti_txnid'
                  /\ env'[q].pc = "store" =>
                         env'[q].floor <= env'[q].seen /\ env'[q].seen <= mti_txnid'
                  /\ env'[q].pc \in {"check", "copy"} =>
                        /\ env'[q].floor <= readers'[env'[q].slot].txnid
                        /\ readers'[env'[q].slot].txnid <= mti_txnid'
                BY <1>6, <1>8, <3>1, <3>2 DEF ReaderOK
            <3>4. /\ env'[q].pc = "copy" => Intact(metas'[readers'[env'[q].slot].txnid % 2], cache')
                  /\ env'[q].pc = "read" =>
                        /\ Intact(env'[q].meta, cache')
                        /\ Follows(Newest(metas'), env'[q].meta)
                        /\ env'[q].meta.txnid >= env'[q].txnid
                        /\ env'[q].txnid = readers'[env'[q].slot].txnid
                BY Zenon, <1>3, <3>1, <3>2 DEF ReaderOK
            <3>5. ReaderOK(q)'
                BY Zenon, <3>3, <3>4 DEF ReaderOK
            <3>6. env'[q].pc = "read" => TxnSpares(txn', env'[q].meta)
                BY Zenon, <1>5, <1>10, <3>1 DEF ReaderOK
            <3> QED BY Zenon, <3>5, <3>6 DEF Undisturbed
        <2> QED BY Zenon, <2>1, <2>2
    <1> QED BY Zenon, <1>13, <1>14, <1>15, <1>16, <1>17 DEF PageInv

(*************************************************************************)
(* Every step.                                                           *)
(*************************************************************************)

\* Every step keeps PageInv.
LEMMA NextPages == ASSUME WellOrdered, PageInv, Inv, [Next]_vars PROVE PageInv'
    <1>1. CASE UNCHANGED vars
        <2>1. /\ cache' = cache /\ disk' = disk /\ metas' = metas /\ dmetas' = dmetas
              /\ tries' = tries
              /\ mti_txnid' = mti_txnid /\ readers' = readers /\ wmutex' = wmutex /\ env' = env
              /\ txn' = txn
              /\ UNCHANGED <<files, locks, counts, env>>
            BY Zenon, <1>1 DEF vars, files, locks, counts
        <2>2. TypeOK'
            BY Zenon, <2>1, TypeParts, TypeSame DEF PageInv
        <2>3. MetasOK(metas, dmetas, cache, disk)' /\ (Newest(metas).txnid <= tries + 2)' /\ LockOK'
            BY Zenon, <2>1 DEF PageInv, LockOK
        <2>4. ASSUME NEW q \in Procs PROVE WriterOK(q)' /\ ReaderOK(q)' /\ Undisturbed(q)'
            <3>1. WriterOK(q)'
                BY Zenon, <2>1 DEF PageInv, WriterOK
            <3>2. ReaderOK(q)' /\ Undisturbed(q)'
                BY Zenon, <2>1 DEF PageInv, ReaderOK, Undisturbed
            <3> QED BY Zenon, <3>1, <3>2
        <2> QED BY Zenon, <2>2, <2>3, <2>4 DEF PageInv
    <1>2. CASE Crash
        BY Zenon, <1>2, PCrash
    <1>3. ASSUME NEW p \in Procs,
                 \/ Open(p) \/ Die(p) \/ EnvSync(p) \/ MetaSync(p) \/ Publish(p) \/ Sync(p)
          PROVE  PageInv'
        BY Zenon, <1>3, POpen, PDie, PEnvSync, PMetaSync, PPublish, PSync
    <1>4. ASSUME NEW p \in Procs,
                 \/ ReadBegin(p) \/ ReadClaim(p) \/ ReadLoad(p) \/ ReadStore(p) \/ ReadCheck(p)
                 \/ ReadCopy(p) \/ ReadEnd(p) \/ ThreadExit(p) \/ CheckReaders(p) \/ Close(p)
          PROVE  PageInv'
        BY Zenon, <1>4, ReaderPages
    <1>5. ASSUME NEW p \in Procs,
                 \/ WriteBegin(p) \/ Touch(p) \/ Commit(p) \/ Save(p) \/ Flush(p) \/ WriteMeta(p)
                 \/ \E n \in Leaves : Put(p, n)
                 \/ \E n, m \in Leaves : Split(p, m, n) \/ Merge(p, n, m)
          PROVE  PageInv'
        BY Zenon, <1>5, PWriteBegin, PTouch, PCommit, PSave, PFlush, PWriteMeta, PPut, PSplit,
           PMerge
    <1>6. ASSUME NEW p \in Procs, Abort(p) \/ Finish(p) PROVE PageInv'
        <2>1. WriteEnd(p) /\ env[p].pc \in Holding /\ env[p].pc \notin Committing
            BY Zenon, <1>6 DEF Abort, Finish, Holding, Building, Committing
        <2> QED BY Zenon, <2>1, PWriteEnd
    <1> QED BY Zenon, <1>1, <1>2, <1>3, <1>4, <1>5, <1>6 DEF Next

(*************************************************************************)
(* The theorems.                                                         *)
(*************************************************************************)

LOCAL INSTANCE WellFoundedInduction

\* Every set of numbers has a least one.
LEMMA NumbersWellOrdered == WellOrdered
    <1> SUFFICES ASSUME NEW S \in SUBSET Nat, S # {}
                 PROVE  \E x \in S : \A y \in S : x <= y
        BY Zenon DEF WellOrdered
    <1> DEFINE R == {ss \in Nat \X Nat : ss[1] < ss[2]}
    <1>1. IsWellFoundedOn(R, Nat)
        BY Zenon, NatLessThanWellFounded DEF OpToRel
    <1>2. PICK x \in S : \A y \in S : ~ (<<y, x>> \in R)
        <2> HIDE DEF R
        <2> QED BY Zenon, <1>1, WFMin
    <1>3. ASSUME NEW y \in S PROVE x <= y
        <2>1. x \in Nat /\ y \in Nat
            BY Zenon
        <2>2. y < x => <<y, x>> \in R
            BY Zenon, <2>1
        <2>3. ~ (y < x)
            BY Zenon, <1>2, <2>2
        <2> QED BY <2>1, <2>3
    <1> QED BY Zenon, <1>3

\* Inv is an invariant.
LEMMA InvInvariant == Spec => []Inv
    <1>1. Inv /\ [Next]_vars => Inv'
        BY Zenon, NumbersWellOrdered, NextInv
    <1> QED BY <1>1, InitInv, PTL DEF Spec

\* No slot of the reader table is given to a second thread, or cleared as stale, while its
\* owner lives: for any number of processes, slots, pages and events.
THEOREM SlotsCorrect == Spec => []SlotsOwned
    <1>1. Inv => SlotsOwned
        BY SMTT(30), SlotsApart DEF Inv, Owns, SlotsOwned, Reading
    <1> QED BY <1>1, InvInvariant, PTL

\* Whatever process found the oldest reader, and however long ago, no reader is older: so
\* mdb_page_alloc takes no page that was freed after the snapshot of a reader began.
THEOREM OldestCorrect == Spec => []OldestSafe
    <1>1. Inv => OldestSafe
        BY Zenon DEF Inv, Protects, OldestSafe, Seen
    <1> QED BY <1>1, InvInvariant, PTL

\* The invariant on pages holds in every state: every tree that a meta page or a reader leads to
\* keeps its pages, whatever the writer allocates.
THEOREM PageInvInvariant == Spec => []PageInv
    <1>1. PageInv /\ Inv /\ [Next]_vars => PageInv'
        BY Zenon, NextPages, NumbersWellOrdered
    <1> QED BY <1>1, InitPages, InvInvariant, PTL DEF Spec

\* The type invariant of Lmdb, for every number of processes, slots, pages and transactions.
THEOREM TypeCorrect == Spec => []TypeOK
    <1>1. PageInv => TypeOK
        BY Zenon DEF PageInv
    <1> QED BY <1>1, PageInvInvariant, PTL

\* A reader reads, from the first page to the last, the database of one transaction: no page of
\* its snapshot is reused by mdb_page_alloc while it reads.
THEOREM SnapshotCorrect == Spec => []SnapshotIntact
    <1>1. PageInv => SnapshotIntact
        BY Zenon DEF PageInv, ReaderOK, SnapshotIntact
    <1> QED BY <1>1, PageInvInvariant, PTL

\* The newest meta page leads to a whole database.
LEMMA NewestWhole == ASSUME PageInv PROVE Newest(metas) \in Meta /\ Whole(Newest(metas))
  /\ Intact(Newest(metas), cache)
    <1>1. TypeFiles
        BY Zenon, TypeParts DEF PageInv
    <1>2. PICK h \in 0..1 : MetasAt(h, metas, dmetas, cache, disk)
        BY Zenon DEF PageInv, MetasOK
    <1>3. Newest(metas) = metas[h] /\ metas[h] \in Meta
        BY <1>1, <1>2, NewestAt DEF TypeFiles
    <1> QED BY Zenon, <1>2, <1>3 DEF MetasAt

\* The newest meta page leads to a tree all of whose pages are as its transaction wrote them,
\* also after a process died or the system crashed.
THEOREM NewestCorrect == Spec => []NewestIntact
    <1>1. PageInv => NewestIntact
        BY Zenon, NewestWhole DEF NewestIntact
    <1> QED BY <1>1, PageInvInvariant, PTL

\* Every page of the newest database is in use at one position, or in one record of the freeDB,
\* and not in both: mdb_page_touch, mdb_page_merge and mdb_freelist_save leak and share no page.
THEOREM AuditCorrect == Spec => []Audit
    <1>1. ASSUME PageInv PROVE Audit
        <2> DEFINE m == Newest(metas)
                   uses(pg) == {n \in Position : m.root[n] = pg}
                     \cup {k \in TxnId : pg \in m.free[k]}
        <2>1. m \in Meta /\ Whole(m)
            BY Zenon, <1>1, NewestWhole
        <2> HIDE DEF m
        <2>2. ASSUME NEW pg \in 2..m.last_pg PROVE \E x \in uses(pg) : uses(pg) = {x}
            <3>1. /\ pg \in Pages(m) \cup Records(m.free, TxnId)
                  /\ ~(pg \in Pages(m) /\ pg \in Records(m.free, TxnId))
                BY Zenon, <2>1 DEF Whole
            <3>2. pg # NoPage
                BY <2>1, MetaFacts DEF NoPage
            <3>3. CASE pg \in Pages(m)
                <4>1. PICK n \in Position : m.root[n] = pg
                    BY Zenon, <3>3 DEF Pages
                <4>2. \A k \in TxnId : pg \notin m.free[k]
                    BY Zenon, <3>1, <3>3 DEF Records
                <4>3. \A k \in Position : m.root[k] = pg => k = n
                    BY Zenon, <2>1, <3>2, <4>1 DEF Whole, OnePosition
                <4>4. uses(pg) = {n}
                    BY Zenon, <4>1, <4>2, <4>3
                <4> QED BY Zenon, <4>4
            <3>4. CASE pg \in Records(m.free, TxnId)
                <4>1. PICK k \in TxnId : pg \in m.free[k]
                    BY Zenon, <3>4 DEF Records
                <4>2. \A n \in Position : m.root[n] # pg
                    BY Zenon, <3>1, <3>2, <3>4 DEF Pages
                <4>3. \A j \in TxnId : pg \in m.free[j] => j = k
                    BY Zenon, <2>1, <4>1 DEF Whole, Apart
                <4>4. uses(pg) = {k}
                    BY Zenon, <4>1, <4>2, <4>3
                <4> QED BY Zenon, <4>4
            <3> QED BY Zenon, <3>1, <3>3, <3>4
        <2> QED BY Zenon, <2>2 DEF Audit, m
    <1> QED BY <1>1, PageInvInvariant, PTL

\* Lmdb implements Snapshots: every view is a version that was current or the one before when it
\* was given and never changes, commits make one version from the last, and a crash loses at
\* most a version that was not saved.
THEOREM StoreCorrect == Spec => ImplementsSnapshots
    <1>1. Init /\ PageInv => Store!Init
        BY Zenon, InitStore
    <1>2. PageInv /\ PageInv' /\ Inv /\ [Next]_vars => [Store!Next]_(Store!vars)
        BY Zenon, NextStore, NumbersWellOrdered
    <1> QED BY <1>1, <1>2, PageInvInvariant, InvInvariant, PTL DEF Spec, ImplementsSnapshots,
               Store!Spec

=============================================================================
