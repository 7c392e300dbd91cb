--------------------------- MODULE LmdbPageProofs ---------------------------
(*************************************************************************)
(* Proofs about the pages of a write transaction of Lmdb, for any number *)
(* of pages: what PageAlloc, PageTouch, Unlink, TrimRecords and the      *)
(* steps of a commit do to the places where its pages are.               *)
(*************************************************************************)
EXTENDS LmdbPlaces, TLAPS

\* A page that was taken changes none of the fields that a touch changes.
LEMMA TakenKeeps ==
    ASSUME NEW t, NEW v, NEW page, NEW o, Taken(t, v, page, o), DOMAIN t = Fields
    PROVE  /\ DOMAIN v = Fields /\ v.id = t.id /\ v.root = t.root /\ v.free = t.free /\ v.by = t.by
           /\ v.free_pgs = t.free_pgs /\ v.dirty = t.dirty /\ v.todo = t.todo /\ v.drop = t.drop
           /\ v.writes = t.writes /\ v.error = t.error /\ v.trimmed = t.trimmed
           /\ v.saved = t.saved /\ v.metab = t.metab
    BY DEF Taken, FromLoose, FromHead, FromRecord, FromEnd, SameBut, Fields

\* What mdb_page_touch does.
LEMMA TouchEffect ==
    \A t, n, c :
        WellOrdered /\ CanAlloc(t) /\ n \in Position /\ c \in Nat /\
        t.root \in [Position -> Pgno \cup {NoPage}] /\ t.by \in [Position -> Nat] =>
            /\ PageTouch(t, n, c).oldest \in {c, FindOldest(t)}
            /\ Touched(t, PageTouch(t, n, c).t, n, PageTouch(t, n, c).oldest)
    \* A set of numbers that is not empty has a least element, and Min is one.
    <1>MinOfSet.
        ASSUME WellOrdered, NEW S, S \subseteq Nat, S # {}
        PROVE  Min(S) \in S /\ \A y \in S : Min(S) <= y
        BY Zenon, <1>MinOfSet DEF WellOrdered, Min
    \* What an allocation does, if it does not fail.
    <1>AllocEffect.
        ASSUME WellOrdered, NEW t, DOMAIN t = Fields, t.error = FALSE, t.pghead \subseteq Pgno,
               t.pglast \in Nat,
               t.loaded \in BOOLEAN,
               t.free \in [TxnId -> SUBSET Pgno], NEW c \in Nat, FindOldest(t) \in Nat
        PROVE  /\ PageAlloc(t, c).oldest \in {c, FindOldest(t)}
               /\ \/ PageAlloc(t, c).t.error = TRUE
                  \/ Taken(t, PageAlloc(t, c).t, PageAlloc(t, c).page, PageAlloc(t, c).oldest)
        <2> USE <1>AllocEffect
        <2> DEFINE older(bound) == IF c <= bound THEN FindOldest(t) ELSE c
                   records == {k \in TxnId : k > t.pglast /\ t.free[k] # {}}
                   key     == Min(records)
                   search  == t.pghead = {} /\ older(t.pglast + 1) > t.pglast + 1 /\ records # {}
                   fetch   == search /\ older(key) > key
                   oldest  == IF t.pghead # {} THEN c
                       ELSE older(IF search THEN key ELSE t.pglast + 1)
                   head    == IF fetch THEN t.free[key] ELSE t.pghead
                   page    == IF head # {} THEN Min(head) ELSE t.next_pgno
                   u == [t EXCEPT !.loaded = @ \/ fetch,
                                  !.pghead = head \ {page},
                                  !.pglast = IF fetch THEN key ELSE @,
                                  !.next_pgno = IF head # {} THEN @ ELSE @ + 1,
                                  !.error = head = {} /\ MapFull(page)]
        <2>1. CASE t.loose # <<>>
            <3> DEFINE v == [t EXCEPT !.loose = Tail(@)]
            <3>1. PageAlloc(t, c) = [page |-> Head(t.loose), oldest |-> c, t |-> v]
                BY Zenon, <2>1 DEF PageAlloc
            <3>2. SameBut(t, v, {"loose"}) /\ v.loose = Tail(t.loose)
                BY Zenon DEF SameBut, Fields
            <3> HIDE DEF v
            <3> QED BY <2>1, <3>1, <3>2 DEF Taken, FromLoose
        <2>2. CASE t.loose = <<>>
            <3>1. PageAlloc(t, c) = [page |-> page, oldest |-> oldest, t |-> u]
                BY Zenon, <2>2 DEF PageAlloc, Reusable
            <3>2. /\ u.loaded = (t.loaded \/ fetch) /\ u.pghead = head \ {page}
                  /\ u.pglast = (IF fetch THEN key ELSE t.pglast)
                  /\ u.next_pgno = (IF head # {} THEN t.next_pgno ELSE t.next_pgno + 1)
                  /\ head = {} /\ MapFull(page) => u.error = TRUE
                  /\ ~(head = {} /\ MapFull(page)) => u.error = FALSE
                  /\ SameBut(t, u, {"loaded", "pghead", "pglast", "next_pgno", "error"})
                <4> HIDE DEF fetch, head, page, key
                <4> QED BY Zenon DEF SameBut, Fields
            <3>3. oldest \in {c, FindOldest(t)}
                BY Zenon
            <3>4. records # {} => key \in records /\ \A k \in records : key <= k
                <4>1. records \subseteq Nat
                    BY DEF TxnId
                <4> HIDE DEF records
                <4> QED BY Zenon, <4>1, <1>MinOfSet
            <3>5. head # {} => page \in head
                <4>1. head \subseteq Nat
                    <5>1. fetch => key \in TxnId
                        BY Zenon, <3>4
                    <5> HIDE DEF fetch, key
                    <5> QED BY <5>1 DEF Pgno
                <4> HIDE DEF head
                <4> QED BY Zenon, <4>1, <1>MinOfSet
            <3>6. CASE fetch
                <4>1. /\ t.pghead = {} /\ key \in records /\ oldest = older(key) /\ key < oldest
                      /\ head = t.free[key] /\ key \in TxnId /\ key > t.pglast /\ head # {}
                    <5>1. search /\ t.pghead = {} /\ records # {} /\ older(key) > key
                        BY Zenon, <3>6
                    <5>2. key \in records /\ key \in TxnId /\ key > t.pglast /\ t.free[key] # {}
                        BY Zenon, <3>4, <5>1
                    <5>3. oldest = older(key) /\ head = t.free[key]
                        BY Zenon, <3>6, <5>1
                    <5>4. key \in Nat /\ older(key) \in Nat
                        <6> HIDE DEF key
                        <6> QED BY <5>2 DEF TxnId
                    <5> HIDE DEF older, key, search, head, oldest, records
                    <5> QED BY Zenon, <5>1, <5>2, <5>3, <5>4
                <4>2. \A k \in TxnId : k > t.pglast /\ k < key => t.free[k] = {}
                    <5> SUFFICES ASSUME NEW k \in TxnId, k > t.pglast, k < key, t.free[k] # {}
                                 PROVE  FALSE
                        BY Zenon
                    <5>1. k \in records
                        BY Zenon
                    <5>2. key <= k
                        BY Zenon, <3>4, <5>1
                    <5>3. key \in Nat /\ k \in Nat
                        <6> HIDE DEF key
                        <6> QED BY <4>1 DEF TxnId
                    <5> HIDE DEF key
                    <5> QED BY <5>2, <5>3
                <4>3. /\ u.error = FALSE /\ u.next_pgno = t.next_pgno /\ u.pglast = key
                      /\ u.loaded = TRUE
                      /\ u.pghead = t.free[key] \ {page} /\ page \in t.free[key]
                    <5> HIDE DEF u, key, head, page, fetch
                    <5> QED BY Zenon, <3>2, <3>5, <3>6, <4>1
                <4>4. SameBut(t, u, {"pghead", "pglast", "loaded"})
                    <5> HIDE DEF u, key, head, page, fetch, records
                    <5> QED BY Zenon, <3>2, <4>3 DEF SameBut, Fields
                <4>5. FromRecord(t, u, page, oldest)
                    <5> HIDE DEF u, key, head, page, fetch, records, oldest
                    <5> QED BY Zenon, <4>1, <4>2, <4>3, <4>4 DEF FromRecord
                <4> HIDE DEF u, page, oldest
                <4> QED BY <3>1, <3>3, <4>5 DEF Taken
            <3>7. CASE ~fetch /\ t.pghead # {}
                <4>1. head = t.pghead
                    BY Zenon, <3>7
                <4> HIDE DEF u, page, oldest, head, fetch
                <4>2. /\ page \in t.pghead /\ u.pghead = t.pghead \ {page} /\ u.loaded = t.loaded
                      /\ u.pglast = t.pglast /\ u.next_pgno = t.next_pgno /\ u.error = FALSE
                    BY Zenon, <3>2, <3>5, <3>7, <4>1
                <4>3. SameBut(t, u, {"pghead"})
                    BY <3>2, <4>2 DEF SameBut, Fields
                <4> QED BY <3>1, <3>3, <4>2, <4>3 DEF Taken, FromHead
            <3>8. CASE ~fetch /\ t.pghead = {}
                <4>1. head = {} /\ page = t.next_pgno
                    BY Zenon, <3>8
                <4> HIDE DEF u, page, oldest, head, fetch
                <4>2. /\ u.pghead = t.pghead /\ u.loaded = t.loaded
                      /\ u.pglast = t.pglast /\ u.next_pgno = t.next_pgno + 1
                    BY Zenon, <3>2, <3>8, <4>1
                <4>3. MapFull(page) => u.error = TRUE
                    BY Zenon, <3>2, <4>1
                <4>4. ~MapFull(page) => u.error = FALSE
                    BY Zenon, <3>2, <4>1
                <4>5. ~MapFull(page) => SameBut(t, u, {"next_pgno"})
                    BY <3>2, <4>2, <4>4 DEF SameBut, Fields
                <4> QED BY <3>1, <3>3, <4>1, <4>2, <4>3, <4>5 DEF Taken, FromEnd
            <3> QED BY Zenon, <3>6, <3>7, <3>8
        <2> QED BY Zenon, <2>1, <2>2
    <1> SUFFICES ASSUME WellOrdered, NEW t, CanAlloc(t), NEW n \in Position, NEW c \in Nat,
                    t.root \in [Position -> Pgno \cup {NoPage}], t.by \in [Position -> Nat]
             PROVE  /\ PageTouch(t, n, c).oldest \in {c, FindOldest(t)}
                    /\ Touched(t, PageTouch(t, n, c).t, n, PageTouch(t, n, c).oldest)
        BY Zenon
    <1> DEFINE a == PageAlloc(t, c)
               u == [a.t EXCEPT !.root[n] = a.page, !.by[n] = tries, !.dirty = @ \cup {a.page},
                                !.free_pgs = @ \cup Freed(t, n)]
               w == [t EXCEPT !.error = TRUE]
    <1>1. CASE t.root[n] \in t.dirty
        <2>1. PageTouch(t, n, c) = [t |-> t, oldest |-> c]
            BY Zenon, <1>1 DEF PageTouch
        <2> QED BY <1>1, <2>1 DEF Touched
    <1>2. a.oldest \in {c, FindOldest(t)} /\ (a.t.error = TRUE \/ Taken(t, a.t, a.page, a.oldest))
        BY Zenon, <1>AllocEffect DEF CanAlloc
    <1>3. CASE t.root[n] \notin t.dirty /\ a.t.error = TRUE
        <2>1. PageTouch(t, n, c) = [t |-> w, oldest |-> a.oldest]
            BY Zenon, <1>3 DEF PageTouch
        <2>2. w.error = TRUE /\ SameBut(t, w, {"error"})
            BY Zenon DEF SameBut, Fields, CanAlloc
        <2> HIDE DEF w, a
        <2> QED BY <1>2, <2>1, <2>2 DEF Touched
    <1>4. CASE t.root[n] \notin t.dirty /\ a.t.error # TRUE
        <2>1. Taken(t, a.t, a.page, a.oldest)
            BY Zenon, <1>2, <1>4
        <2> HIDE DEF a
        <2>2. /\ DOMAIN a.t = Fields /\ a.t.root = t.root /\ a.t.by = t.by /\ a.t.error = FALSE
              /\ a.t.dirty = t.dirty /\ a.t.free_pgs = t.free_pgs
            BY <2>1, TakenKeeps DEF CanAlloc
        <2>3. PageTouch(t, n, c) = [oldest |-> a.oldest, t |-> u]
            BY Zenon, <1>4, <2>2 DEF PageTouch, a
        <2>4. Copied(t, a.t, u, n, a.page)
            BY Zenon, <1>4, <2>2 DEF Copied, SameBut, Fields
        <2> HIDE DEF u
        <2> QED BY <1>2, <2>1, <2>3, <2>4 DEF Touched
    <1> QED BY Zenon, <1>1, <1>3, <1>4

\* Whatever page is taken, it has no place until it is used.
LEMMA TakenGood ==
    \A t, v, page, o :
        o \in Nat /\ Good(t) /\ Taken(t, v, page, o) /\ o <= t.id =>
            PlacedBut(v, {page}) /\ page \in Pgno /\ TxnType(v) /\ Books(v) /\ Emptied(v)
    \* One part of a partition loses a page, or the whole gains one.
    <1>PartsMoved.
        ASSUME NEW a, NEW b, NEW c, NEW d, NEW e, NEW all, Parts(a, b, c, d, e, {}, all), NEW pg
        PROVE  /\ pg \in d => Parts(a, b, c, d \ {pg}, e, {pg}, all)
               /\ pg \in e => Parts(a, b, c, d, e \ {pg}, {pg}, all)
               /\ pg \notin all => Parts(a, b, c, d, e, {pg}, all \cup {pg})
        BY <1>PartsMoved DEF Parts
    \* A record is taken.
    <1>PartsTaken.
        ASSUME NEW a, NEW b, NEW c, NEW e, NEW all, NEW r, Parts(a, b \cup r, c, {}, e, {}, all),
               b \cap r = {}, NEW pg \in r
        PROVE  Parts(a, b, c, r \ {pg}, e, {pg}, all)
        BY Zenon, <1>PartsTaken DEF Parts
    \* The head of a sequence without duplicates is not in its tail.
    <1>HeadTaken.
        ASSUME NEW t, NEW v, t.loose \in Seq(Pgno), t.loose # <<>>, v.loose = Tail(t.loose),
               OnceLoose(t)
        PROVE  /\ Head(t.loose) \in Loose(t) /\ Loose(v) = Loose(t) \ {Head(t.loose)}
                    /\ OnceLoose(v)
               /\ v.loose \in Seq(Pgno)
        <2> USE <1>HeadTaken
        <2> DEFINE s == t.loose
        <2>1. /\ Len(s) \in Nat /\ Len(s) >= 1 /\ Head(s) = s[1] /\ Len(v.loose) = Len(s) - 1
              /\ \A i \in 1..Len(v.loose) : v.loose[i] = s[i + 1]
              /\ v.loose \in Seq(Pgno)
            OBVIOUS
        <2>2. \A i \in 1..Len(s) : i # 1 => i - 1 \in 1..Len(v.loose) /\ s[i] = v.loose[i - 1]
            BY <2>1
        <2>3. \A i \in 1..Len(v.loose) : i + 1 \in 1..Len(s) /\ i + 1 # 1
            BY <2>1
        <2>4. Loose(v) \subseteq Loose(t) \ {Head(s)}
            BY <2>1, <2>3 DEF Loose, OnceLoose
        <2>5. Loose(t) \ {Head(s)} \subseteq Loose(v)
            BY <2>1, <2>2 DEF Loose
        <2>6. OnceLoose(v)
            BY <2>1, <2>3 DEF OnceLoose
        <2>7. Head(s) \in Loose(t)
            BY <2>1 DEF Loose
        <2> QED BY Zenon, <2>1, <2>4, <2>5, <2>6, <2>7
    \* Transactions that agree on these fields agree on where their pages are.
    <1>PlacesSame.
        ASSUME NEW t, NEW v, v.root = t.root, v.id = t.id, v.trimmed = t.trimmed,
               v.pglast = t.pglast
        PROVE  Pages(v) = Pages(t) /\ Live(v) = Live(t)
        BY Zenon, <1>PlacesSame DEF Pages, Live
    \* A loose page is taken.
    <1>LooseTaken.
        ASSUME NEW t, NEW v, NEW page, TxnType(t), Placed(t), FromLoose(t, v, page)
        PROVE  PlacedBut(v, {page}) /\ page \in Pgno /\ v.loose \in Seq(Pgno)
                 /\ Loose(v) \subseteq Loose(t)
        <2> USE <1>LooseTaken
        <2>1. /\ v.root = t.root /\ v.id = t.id /\ v.trimmed = t.trimmed /\ v.pglast = t.pglast
              /\ v.free = t.free /\ v.free_pgs = t.free_pgs /\ v.pghead = t.pghead
              /\ v.next_pgno = t.next_pgno
            BY Zenon DEF FromLoose, SameBut, Fields
        <2>2. Pages(v) = Pages(t) /\ Live(v) = Live(t)
            BY Zenon, <2>1, <1>PlacesSame
        <2>3. /\ page \in Loose(t) /\ Loose(v) = Loose(t) \ {page} /\ OnceLoose(v)
              /\ v.loose \in Seq(Pgno) /\ page \in Pgno
            <3>1. /\ t.loose \in Seq(Pgno) /\ t.loose # <<>> /\ v.loose = Tail(t.loose)
                  /\ page = Head(t.loose)
                BY Zenon DEF TxnType, FromLoose
            <3>2. OnceLoose(t)
                BY Zenon DEF Placed, PlacedBut
            <3> QED BY <3>1, <3>2, <1>HeadTaken
        <2>4. Parts(Pages(t), Records(t.free, Live(t)), t.free_pgs, t.pghead, Loose(t), {},
                    2..(t.next_pgno - 1))
            BY Zenon DEF Placed, PlacedBut
        <2>5. Parts(Pages(t), Records(t.free, Live(t)), t.free_pgs, t.pghead, Loose(t) \ {page},
                {page},
                    2..(t.next_pgno - 1))
            BY Zenon, <2>3, <2>4, <1>PartsMoved
        <2> QED BY Zenon, <2>1, <2>2, <2>3, <2>5 DEF Placed, PlacedBut
    \* A page of pghead is taken.
    <1>HeadPageTaken.
        ASSUME NEW t, NEW v, NEW page, TxnType(t), Placed(t), FromHead(t, v, page)
        PROVE  PlacedBut(v, {page}) /\ page \in Pgno
        <2> USE <1>HeadPageTaken
        <2>1. /\ v.root = t.root /\ v.id = t.id /\ v.trimmed = t.trimmed /\ v.pglast = t.pglast
              /\ v.free = t.free /\ v.free_pgs = t.free_pgs /\ v.loose = t.loose
              /\ v.next_pgno = t.next_pgno
            BY Zenon DEF FromHead, SameBut, Fields
        <2>2. /\ Pages(v) = Pages(t) /\ Live(v) = Live(t) /\ Loose(v) = Loose(t)
              /\ (OnceLoose(t) => OnceLoose(v))
            BY Zenon, <2>1, <1>PlacesSame DEF Loose, OnceLoose
        <2>3. page \in t.pghead /\ v.pghead = t.pghead \ {page} /\ page \in Pgno
            BY Zenon DEF FromHead, TxnType
        <2>4. Parts(Pages(t), Records(t.free, Live(t)), t.free_pgs, t.pghead, Loose(t), {},
                    2..(t.next_pgno - 1))
            BY Zenon DEF Placed, PlacedBut
        <2>5. Parts(Pages(t), Records(t.free, Live(t)), t.free_pgs, t.pghead \ {page}, Loose(t),
                {page},
                    2..(t.next_pgno - 1))
            BY Zenon, <2>3, <2>4, <1>PartsMoved
        <2> QED BY Zenon, <2>1, <2>2, <2>3, <2>5 DEF Placed, PlacedBut
    \* The page after the last one is taken.
    <1>EndTaken.
        ASSUME NEW t, NEW v, NEW page, TxnType(t), Placed(t), FromEnd(t, v, page)
        PROVE  PlacedBut(v, {page}) /\ page \in Pgno
        <2> USE <1>EndTaken
        <2>1. /\ v.root = t.root /\ v.id = t.id /\ v.trimmed = t.trimmed /\ v.pglast = t.pglast
              /\ v.free = t.free /\ v.free_pgs = t.free_pgs /\ v.loose = t.loose
              /\ v.pghead = t.pghead
            BY Zenon DEF FromEnd, SameBut, Fields
        <2>2. /\ Pages(v) = Pages(t) /\ Live(v) = Live(t) /\ Loose(v) = Loose(t)
              /\ (OnceLoose(t) => OnceLoose(v))
            BY Zenon, <2>1, <1>PlacesSame DEF Loose, OnceLoose
        <2>3. /\ page \in Pgno /\ page \notin 2..(t.next_pgno - 1)
              /\ 2..(v.next_pgno - 1) = 2..(t.next_pgno - 1) \cup {page}
            <3>1. page = t.next_pgno /\ v.next_pgno = t.next_pgno + 1 /\ ~MapFull(page)
                  /\ t.next_pgno \in Nat \ 0..1
                BY Zenon DEF FromEnd, TxnType
            <3> QED BY <3>1, LmdbAssumption DEF MapFull, Pgno
        <2>4. Parts(Pages(t), Records(t.free, Live(t)), t.free_pgs, t.pghead, Loose(t), {},
                    2..(t.next_pgno - 1))
            BY Zenon DEF Placed, PlacedBut
        <2>5. Parts(Pages(t), Records(t.free, Live(t)), t.free_pgs, t.pghead, Loose(t), {page},
                    2..(v.next_pgno - 1))
            <3>1. Parts(Pages(t), Records(t.free, Live(t)), t.free_pgs, t.pghead, Loose(t), {page},
                        2..(t.next_pgno - 1) \cup {page})
                BY Zenon, <2>3, <2>4, <1>PartsMoved
            <3> QED BY Zenon, <2>3, <3>1
        <2> QED BY Zenon, <2>1, <2>2, <2>3, <2>5 DEF Placed, PlacedBut
    \* A page of a record is taken, and the rest of the record becomes pghead.
    <1>RecordTaken.
        ASSUME NEW t, NEW v, NEW page, NEW o, TxnType(t), Placed(t), Books(t), Emptied(t),
               FromRecord(t, v, page, o), o \in Nat, o <= t.id
        PROVE  /\ PlacedBut(v, {page}) /\ page \in Pgno /\ v.pghead \subseteq Pgno
               /\ v.pglast \in TxnId /\ v.pglast > t.pglast /\ v.pglast < o
               /\ page \in t.free[v.pglast] /\ v.pghead \subseteq t.free[v.pglast]
               /\ v.loaded = TRUE
        <2> USE <1>RecordTaken
        <2> DEFINE key == v.pglast
        <2>1. /\ v.root = t.root /\ v.id = t.id /\ v.trimmed = t.trimmed
              /\ v.next_pgno = t.next_pgno
              /\ v.free = t.free /\ v.free_pgs = t.free_pgs /\ v.loose = t.loose
            BY Zenon DEF FromRecord, SameBut, Fields
        <2>2. /\ key \in TxnId /\ key > t.pglast /\ key < o /\ t.pghead = {}
              /\ \A k \in TxnId : k > t.pglast /\ k < key => t.free[k] = {}
              /\ page \in t.free[key] /\ v.pghead = t.free[key] \ {page} /\ v.loaded = TRUE
            BY Zenon DEF FromRecord
        <2>3. /\ t.pglast \in Nat /\ t.trimmed \in Nat /\ t.id \in Nat /\ key \in Nat
              /\ TxnId \subseteq Nat
              /\ t.trimmed <= t.pglast
            BY <2>2 DEF TxnType, TxnId, Books
        <2>4. Pages(v) = Pages(t) /\ Loose(v) = Loose(t) /\ (OnceLoose(t) => OnceLoose(v))
            BY Zenon, <2>1 DEF Pages, Loose, OnceLoose
        <2>5. /\ key \in Live(t) /\ Live(v) = {k \in TxnId : k # t.id /\ k > key}
              /\ Live(v) \subseteq Live(t)
            <3>1. key # t.id /\ t.trimmed < key /\ v.trimmed < v.pglast
                BY <2>1, <2>2, <2>3
            <3>2. key \in Live(t)
                BY Zenon, <2>2, <3>1 DEF Live
            <3>3. Live(v) = {k \in TxnId : k # t.id /\ k > key}
                BY Zenon, <2>1, <3>1 DEF Live
            <3>4. ASSUME NEW k \in TxnId, k # t.id, k > key PROVE k \in Live(t)
                BY <2>2, <2>3, <3>4 DEF Live
            <3> QED BY Zenon, <3>2, <3>3, <3>4
        <2>6. \A k \in Live(t) : k = key \/ k \in Live(v) \/ t.free[k] = {}
            <3> SUFFICES ASSUME NEW k \in Live(t), k # key, k \notin Live(v) PROVE t.free[k] = {}
                BY Zenon
            <3>1. k \in TxnId /\ k \in Nat /\ k < key /\ (t.trimmed < t.pglast => k > t.pglast)
                BY <2>2, <2>3, <2>5 DEF Live
            <3>2. CASE k > t.pglast
                BY Zenon, <2>2, <3>1, <3>2
            <3>3. CASE ~(k > t.pglast)
                <4>1. k <= t.trimmed
                    BY <2>3, <3>1, <3>3
                <4> QED BY Zenon, <3>1, <4>1 DEF Emptied
            <3> QED BY Zenon, <3>2, <3>3
        <2> DEFINE b == Records(t.free, Live(v))
                   r == t.free[key]
        <2>7. Records(t.free, Live(t)) = b \cup r
            BY <2>5, <2>6 DEF Records
        <2>8. Apart(t.free, Live(t))
            BY Zenon DEF Placed, PlacedBut
        <2>9. b \cap r = {} /\ Apart(t.free, Live(v))
            <3>1. Apart(t.free, Live(v))
                BY Zenon, <2>5, <2>8 DEF Apart
            <3>2. ASSUME NEW k \in Live(v), NEW pg \in t.free[k] PROVE pg \notin r
                <4>1. k # key /\ k \in Live(t)
                    BY <2>3, <2>5
                <4> QED BY Zenon, <2>5, <2>8, <4>1 DEF Apart
            <3> QED BY Zenon, <3>1, <3>2 DEF Records
        <2>10. Parts(Pages(t), b \cup r, t.free_pgs, {}, Loose(t), {}, 2..(t.next_pgno - 1))
            BY Zenon, <2>2, <2>7 DEF Placed, PlacedBut
        <2>11. Parts(Pages(t), b, t.free_pgs, r \ {page}, Loose(t), {page}, 2..(t.next_pgno - 1))
            <3> HIDE DEF b, r
            <3> QED BY Zenon, <2>2, <2>9, <2>10, <1>PartsTaken DEF r
        <2>12. r \subseteq Pgno
            BY Zenon, <2>2 DEF TxnType
        <2>13. PlacedBut(v, {page})
            BY Zenon, <2>1, <2>2, <2>4, <2>9, <2>11 DEF Placed, PlacedBut
        <2> QED BY Zenon, <2>2, <2>12, <2>13
    <1> SUFFICES ASSUME NEW t, NEW v, NEW page, NEW o \in Nat, Good(t), Taken(t, v, page, o),
                        o <= t.id
             PROVE  PlacedBut(v, {page}) /\ page \in Pgno /\ TxnType(v) /\ Books(v) /\ Emptied(v)
        BY Zenon
    <1>1. TxnType(t) /\ Placed(t) /\ Books(t) /\ Emptied(t) /\ DOMAIN t = Fields
        BY Zenon DEF Good, TxnType
    <1>2. /\ DOMAIN v = Fields /\ v.id = t.id /\ v.root = t.root /\ v.free = t.free /\ v.by = t.by
          /\ v.free_pgs = t.free_pgs /\ v.dirty = t.dirty /\ v.todo = t.todo /\ v.drop = t.drop
          /\ v.error = t.error /\ v.trimmed = t.trimmed /\ v.saved = t.saved
        BY <1>1, TakenKeeps
    <1>3. Emptied(v)
        BY Zenon, <1>1, <1>2 DEF Emptied
    <1>4. CASE FromLoose(t, v, page)
        <2>1. /\ v.next_pgno = t.next_pgno /\ v.pghead = t.pghead /\ v.pglast = t.pglast
              /\ v.loaded = t.loaded
            BY Zenon, <1>4 DEF FromLoose, SameBut, Fields
        <2>2. /\ PlacedBut(v, {page}) /\ page \in Pgno /\ v.loose \in Seq(Pgno)
              /\ Loose(v) \subseteq Loose(t)
            BY Zenon, <1>1, <1>4, <1>LooseTaken
        <2>3. TxnType(v)
            BY Zenon, <1>1, <1>2, <2>1, <2>2 DEF TxnType
        <2>4. Books(v)
            BY Zenon, <1>1, <1>2, <2>1, <2>2 DEF Books
        <2> QED BY Zenon, <1>3, <2>2, <2>3, <2>4
    <1>5. CASE FromHead(t, v, page)
        <2>1. /\ v.next_pgno = t.next_pgno /\ v.pglast = t.pglast /\ v.loose = t.loose
              /\ v.loaded = t.loaded /\ v.pghead \subseteq t.pghead
            BY Zenon, <1>5 DEF FromHead, SameBut, Fields
        <2>2. PlacedBut(v, {page}) /\ page \in Pgno
            BY Zenon, <1>1, <1>5, <1>HeadPageTaken
        <2>3. TxnType(v)
            BY Zenon, <1>1, <1>2, <2>1 DEF TxnType
        <2>4. Books(v)
            BY <1>1, <1>2, <2>1 DEF Books, Loose
        <2> QED BY Zenon, <1>3, <2>2, <2>3, <2>4
    <1>6. CASE FromRecord(t, v, page, o)
        <2>1. v.next_pgno = t.next_pgno /\ v.loose = t.loose
            BY Zenon, <1>6 DEF FromRecord, SameBut, Fields
        <2>2. /\ PlacedBut(v, {page}) /\ page \in Pgno /\ v.pghead \subseteq Pgno
              /\ v.pglast \in TxnId /\ v.pglast > t.pglast /\ v.pglast < o /\ v.loaded = TRUE
            BY Zenon, <1>1, <1>6, <1>RecordTaken
        <2>3. TxnType(v)
            BY Zenon, <1>1, <1>2, <2>1, <2>2 DEF TxnType
        <2>4. Books(v)
            <3>1. /\ t.pglast \in Nat /\ v.pglast \in Nat /\ t.id \in Nat /\ t.trimmed \in Nat
                  /\ t.trimmed <= t.pglast
                BY <1>1, <2>2 DEF TxnType, TxnId, Books
            <3>2. v.trimmed <= v.pglast /\ v.pglast < v.id /\ v.pglast > 0
                BY <1>2, <2>2, <3>1
            <3> QED BY <1>1, <1>2, <2>1, <2>2, <3>2 DEF Books, Loose
        <2> QED BY Zenon, <1>3, <2>2, <2>3, <2>4
    <1>7. CASE FromEnd(t, v, page)
        <2>1. /\ v.next_pgno = t.next_pgno + 1 /\ v.pglast = t.pglast /\ v.loose = t.loose
              /\ v.loaded = t.loaded /\ v.pghead = t.pghead
            BY Zenon, <1>7 DEF FromEnd, SameBut, Fields
        <2>2. PlacedBut(v, {page}) /\ page \in Pgno
            BY Zenon, <1>1, <1>7, <1>EndTaken
        <2>3. TxnType(v)
            <3>1. v.next_pgno \in Nat \ 0..1
                BY <1>1, <2>1 DEF TxnType
            <3> QED BY Zenon, <1>1, <1>2, <2>1, <3>1 DEF TxnType
        <2>4. Books(v)
            BY <1>1, <1>2, <2>1 DEF Books, Loose
        <2> QED BY Zenon, <1>3, <2>2, <2>3, <2>4
    <1> QED BY Zenon, <1>4, <1>5, <1>6, <1>7 DEF Taken

\* mdb_page_touch keeps every page in one place.
LEMMA TouchedGood ==
    \A t, u, n, o :
        n \in Position /\ o \in Nat /\ Good(t) /\ o <= t.id /\ Touched(t, u, n, o) /\
        tries \in 0..MaxEvents =>
            Good(u)
    \* A page takes the place of another one, or of none.
    <1>PartsCopied.
        ASSUME NEW a, NEW b, NEW c, NEW d, NEW e, NEW all, NEW pg, NEW f,
               Parts(a, b, c, d, e, {pg}, all), f \subseteq a
        PROVE  Parts((a \ f) \cup {pg}, b, c \cup f, d, e, {}, all)
        BY Zenon, <1>PartsCopied DEF Parts
    \* The pages of a tree when a position gets another one.
    <1>PagesCopied.
        ASSUME NEW t, NEW u, t.root \in [Position -> Pgno \cup {NoPage}], NEW n \in Position,
               NEW page \in Pgno,
               u.root = [t.root EXCEPT ![n] = page], OnePosition(t.root), page \notin Pages(t)
        PROVE  /\ Pages(u) = (Pages(t) \ Freed(t, n)) \cup {page} /\ Freed(t, n) \subseteq Pages(t)
               /\ OnePosition(u.root)
        <2> USE <1>PagesCopied
        <2>1. page # NoPage
            BY DEF Pgno, NoPage
        <2>2. u.root[n] = page /\ \A m \in Position \ {n} : u.root[m] = t.root[m]
            BY Zenon
        <2>3. \A m \in Position : t.root[m] # page
            BY Zenon, <2>1 DEF Pages
        <2>4. OnePosition(u.root)
            BY <2>2, <2>3 DEF OnePosition
        <2>5. Freed(t, n) \subseteq Pages(t)
            BY Zenon DEF Freed, Pages
        <2>6. Pages(u) \subseteq (Pages(t) \ Freed(t, n)) \cup {page}
            BY <2>2 DEF Pages, Freed, OnePosition
        <2>7. (Pages(t) \ Freed(t, n)) \cup {page} \subseteq Pages(u)
            BY <2>1, <2>2 DEF Pages, Freed
        <2> QED BY Zenon, <2>4, <2>5, <2>6, <2>7
    \* The page that was taken gets its place.
    <1>CopiedGood.
        ASSUME NEW t, NEW v, NEW u, NEW page \in Pgno, NEW n \in Position, PlacedBut(v, {page}),
               TxnType(v), Books(v), Emptied(v), Copied(t, v, u, n, page), tries \in 0..MaxEvents,
               v.root = t.root, v.by = t.by, v.dirty = t.dirty, v.free_pgs = t.free_pgs
        PROVE  Good(u) /\ u.error = v.error
        <2> USE <1>CopiedGood
        <2>1. /\ u.root = [v.root EXCEPT ![n] = page] /\ u.by = [v.by EXCEPT ![n] = tries]
              /\ u.dirty = v.dirty \cup {page} /\ u.free_pgs = v.free_pgs \cup Freed(v, n)
            BY Zenon DEF Copied, Freed
        <2>2. /\ DOMAIN u = Fields /\ u.id = v.id /\ u.free = v.free /\ u.next_pgno = v.next_pgno
              /\ u.loaded = v.loaded /\ u.pghead = v.pghead /\ u.pglast = v.pglast
              /\ u.loose = v.loose
              /\ u.todo = v.todo /\ u.drop = v.drop /\ u.error = v.error /\ u.trimmed = v.trimmed
              /\ u.saved = v.saved
            BY Zenon DEF Copied, SameBut, Fields
        <2>3. Parts(Pages(v), Records(v.free, Live(v)), v.free_pgs, v.pghead, Loose(v), {page},
                    2..(v.next_pgno - 1))
            BY Zenon DEF PlacedBut
        <2>4. page \notin Pages(v) /\ OnePosition(v.root) /\ Apart(v.free, Live(v)) /\ OnceLoose(v)
            BY Zenon, <2>3 DEF Parts, PlacedBut
        <2>5. /\ Pages(u) = (Pages(v) \ Freed(v, n)) \cup {page} /\ Freed(v, n) \subseteq Pages(v)
              /\ OnePosition(u.root)
            BY Zenon, <2>1, <2>4, <1>PagesCopied DEF TxnType
        <2>6. Parts((Pages(v) \ Freed(v, n)) \cup {page}, Records(v.free, Live(v)),
                    v.free_pgs \cup Freed(v, n), v.pghead, Loose(v), {}, 2..(v.next_pgno - 1))
            BY Zenon, <2>3, <2>5, <1>PartsCopied
        <2>7. Live(u) = Live(v) /\ Loose(u) = Loose(v) /\ OnceLoose(u)
            BY <2>2, <2>4 DEF Live, Loose, OnceLoose
        <2>8. Placed(u)
            BY Zenon, <2>1, <2>2, <2>4, <2>5, <2>6, <2>7 DEF Placed, PlacedBut
        <2>9. TxnType(u)
            <3>1. Freed(v, n) \subseteq Pgno
                BY Zenon DEF Freed, TxnType
            <3>2. /\ u.root \in [Position -> Pgno \cup {NoPage}]
                  /\ u.by \in [Position -> 0..MaxEvents]
                  /\ u.free_pgs \subseteq Pgno /\ u.dirty \subseteq Pgno
                BY <2>1, <3>1 DEF TxnType
            <3> QED BY Zenon, <2>2, <3>2 DEF TxnType
        <2>10. Books(u)
            BY Zenon, <2>1, <2>2, <2>7 DEF Books
        <2>11. Emptied(u)
            BY Zenon, <2>2 DEF Emptied
        <2> QED BY Zenon, <2>2, <2>8, <2>9, <2>10, <2>11 DEF Good
    <1> SUFFICES ASSUME NEW t, NEW u, NEW n \in Position, NEW o \in Nat, Good(t), o <= t.id,
                        Touched(t, u, n, o),
                    tries \in 0..MaxEvents
             PROVE  Good(u)
        BY Zenon
    <1>1. CASE u = t
        BY Zenon, <1>1
    <1>2. CASE u.error = TRUE /\ SameBut(t, u, {"error"})
        <2>1. /\ DOMAIN u = Fields /\ u.id = t.id /\ u.root = t.root /\ u.free = t.free
              /\ u.by = t.by
              /\ u.free_pgs = t.free_pgs /\ u.dirty = t.dirty /\ u.todo = t.todo /\ u.drop = t.drop
              /\ u.trimmed = t.trimmed /\ u.saved = t.saved /\ u.error = TRUE /\ u.loose = t.loose
              /\ u.next_pgno = t.next_pgno /\ u.loaded = t.loaded /\ u.pghead = t.pghead
              /\ u.pglast = t.pglast
            BY Zenon, <1>2 DEF SameBut, Fields
        <2>2. /\ Pages(u) = Pages(t) /\ Live(u) = Live(t) /\ Loose(u) = Loose(t)
              /\ (OnceLoose(t) => OnceLoose(u))
            BY <2>1 DEF Pages, Live, Loose, OnceLoose
        <2>3. Placed(u)
            BY Zenon, <2>1, <2>2 DEF Good, Placed, PlacedBut
        <2>4. TxnType(u) /\ Books(u) /\ Emptied(u)
            BY <2>1, <2>2 DEF Good, TxnType, Books, Emptied
        <2> QED BY Zenon, <2>3, <2>4 DEF Good
    <1>3. ASSUME NEW v, NEW page, Taken(t, v, page, o), Copied(t, v, u, n, page) PROVE Good(u)
        <2>1. DOMAIN t = Fields
            BY Zenon DEF Good, TxnType
        <2>2. v.root = t.root /\ v.by = t.by /\ v.dirty = t.dirty /\ v.free_pgs = t.free_pgs
            BY <1>3, <2>1, TakenKeeps
        <2>3. PlacedBut(v, {page}) /\ page \in Pgno /\ TxnType(v) /\ Books(v) /\ Emptied(v)
            BY Zenon, <1>3, TakenGood
        <2> QED BY Zenon, <1>3, <2>2, <2>3, <1>CopiedGood
    <1> QED BY Zenon, <1>1, <1>2, <1>3 DEF Touched

\* A transaction that differs only in what it has to do.
LEMMA SameGood ==
    ASSUME NEW t, NEW u, Good(t), SameBut(t, u, {"todo", "drop", "writes", "error"}),
           u.todo \in Seq(Position), u.drop \in Leaves \cup {NoNode}, u.error \in BOOLEAN
    PROVE  /\ Good(u)
           /\ \A m : TxnSpares(t, m) => TxnSpares(u, m)
           /\ \A c, tr : Written(t, c, tr) => Written(u, c, tr)
    <1>1. /\ DOMAIN u = Fields /\ u.id = t.id /\ u.root = t.root /\ u.free = t.free /\ u.by = t.by
          /\ u.free_pgs = t.free_pgs /\ u.dirty = t.dirty /\ u.trimmed = t.trimmed
          /\ u.saved = t.saved /\ u.loose = t.loose /\ u.next_pgno = t.next_pgno
          /\ u.loaded = t.loaded /\ u.pghead = t.pghead /\ u.pglast = t.pglast
        BY Zenon DEF SameBut, Fields
    <1>2. /\ Pages(u) = Pages(t) /\ Live(u) = Live(t) /\ Loose(u) = Loose(t)
          /\ (OnceLoose(t) => OnceLoose(u))
        BY <1>1 DEF Pages, Live, Loose, OnceLoose
    <1>3. Placed(u)
        BY Zenon, <1>1, <1>2 DEF Good, Placed, PlacedBut
    <1>4. TxnType(u) /\ Books(u) /\ Emptied(u)
        BY Zenon, <1>1, <1>2 DEF Good, TxnType, Books, Emptied
    <1>5. Good(u)
        BY Zenon, <1>3, <1>4 DEF Good
    <1>6. \A m : TxnSpares(t, m) => TxnSpares(u, m)
        BY Zenon, <1>1 DEF TxnSpares
    <1>7. \A c, tr : Written(t, c, tr) => Written(u, c, tr)
        BY Zenon, <1>1 DEF Written
    <1> QED BY Zenon, <1>5, <1>6, <1>7

\* mdb_page_touch takes no page of a tree that a meta page leads to, if the oldest reader
\* that it knows of is not younger.
LEMMA TouchedSpares ==
    \A t, u, n, o, m :
        n \in Position /\ o \in Nat /\ Good(t) /\ Touched(t, u, n, o) /\ m.txnid \in TxnId /\
        Pages(m) \subseteq Pgno /\ TxnSpares(t, m) /\ o <= m.txnid + 1 =>
            TxnSpares(u, m)
    \* A page is only taken from a tree that no meta page needs: it is one of the transaction's
    \* own, new, or in a record that is old enough.
    <1>TakenSpares.
        ASSUME NEW t, NEW v, NEW page, NEW o \in Nat, Good(t), Taken(t, v, page, o),
               NEW m, m.txnid \in TxnId, Pages(m) \subseteq Pgno, TxnSpares(t, m), o <= m.txnid + 1
        PROVE  /\ TxnSpares(v, m) /\ page \notin Pages(m)
        <2> USE <1>TakenSpares
        <2>1. /\ t.next_pgno \in Nat /\ Loose(t) \subseteq t.dirty /\ DOMAIN t = Fields
              /\ t.loose \in Seq(Pgno) /\ t.free \in [TxnId -> SUBSET Pgno]
            BY Zenon DEF Good, TxnType, Books
        <2>2. v.free = t.free /\ v.dirty = t.dirty
            BY <2>1, TakenKeeps
        <2>3. /\ \A pg \in Pages(m) : pg < t.next_pgno
              /\ \A k \in TxnId : k <= m.txnid => t.free[k] \cap Pages(m) = {}
              /\ t.dirty \cap Pages(m) = {} /\ t.pghead \cap Pages(m) = {}
            BY Zenon DEF TxnSpares, Spares
        <2>4. CASE FromLoose(t, v, page)
            <3>1. page \in Loose(t)
                BY <2>1, <2>4 DEF FromLoose, Loose
            <3>2. v.next_pgno = t.next_pgno /\ v.pghead = t.pghead
                BY Zenon, <2>4 DEF FromLoose, SameBut, Fields
            <3> QED BY Zenon, <2>1, <2>2, <2>3, <3>1, <3>2 DEF TxnSpares
        <2>5. CASE FromHead(t, v, page)
            <3>1. page \in t.pghead /\ v.pghead \subseteq t.pghead
                BY Zenon, <2>5 DEF FromHead
            <3>2. v.next_pgno = t.next_pgno
                BY Zenon, <2>5 DEF FromHead, SameBut, Fields
            <3> QED BY Zenon, <2>2, <2>3, <3>1, <3>2 DEF TxnSpares, Spares
        <2>6. CASE FromRecord(t, v, page, o)
            <3>1. PICK key \in TxnId : key < o /\ page \in t.free[key]
                    /\ v.pghead = t.free[key] \ {page}
                BY Zenon, <2>6 DEF FromRecord
            <3>2. key <= m.txnid
                BY <3>1 DEF TxnId
            <3>3. v.next_pgno = t.next_pgno
                BY Zenon, <2>6 DEF FromRecord, SameBut, Fields
            <3>4. page \notin Pages(m) /\ v.pghead \cap Pages(m) = {}
                BY Zenon, <2>3, <3>1, <3>2
            <3> QED BY Zenon, <2>2, <2>3, <3>3, <3>4 DEF TxnSpares, Spares
        <2>7. CASE FromEnd(t, v, page)
            <3>1. page = t.next_pgno /\ v.next_pgno = t.next_pgno + 1 /\ v.pghead = t.pghead
                BY Zenon, <2>7 DEF FromEnd, SameBut, Fields
            <3>2. page \notin Pages(m)
                BY <2>1, <2>3, <3>1
            <3>3. \A pg \in Pages(m) : pg < v.next_pgno
                BY <2>1, <2>3, <3>1, <3>2 DEF Pgno
            <3> QED BY Zenon, <2>2, <2>3, <3>1, <3>2, <3>3 DEF TxnSpares, Spares
        <2> QED BY Zenon, <2>4, <2>5, <2>6, <2>7 DEF Taken
    <1> SUFFICES ASSUME NEW t, NEW u, NEW n \in Position, NEW o \in Nat, Good(t),
                        Touched(t, u, n, o),
                    NEW m, m.txnid \in TxnId, Pages(m) \subseteq Pgno, TxnSpares(t, m),
                      o <= m.txnid + 1
             PROVE  TxnSpares(u, m)
        BY Zenon
    <1>1. CASE u = t
        BY Zenon, <1>1
    <1>2. CASE u.error = TRUE /\ SameBut(t, u, {"error"})
        BY Zenon, <1>2 DEF SameBut, Fields, TxnSpares
    <1>3. ASSUME NEW v, NEW page, Taken(t, v, page, o), Copied(t, v, u, n, page)
          PROVE TxnSpares(u, m)
        <2>1. TxnSpares(v, m) /\ page \notin Pages(m)
            BY Zenon, <1>3, <1>TakenSpares
        <2>2. v.dirty = t.dirty
            BY <1>3, TakenKeeps DEF Good, TxnType
        <2>3. u.free = v.free /\ u.next_pgno = v.next_pgno /\ u.pghead = v.pghead
              /\ u.dirty = v.dirty \cup {page}
            BY Zenon, <1>3, <2>2 DEF Copied, SameBut, Fields
        <2> QED BY Zenon, <2>1, <2>3 DEF TxnSpares
    <1> QED BY Zenon, <1>1, <1>2, <1>3 DEF Touched

\* The page that mdb_page_touch makes is dirty until it is written.
LEMMA TouchedWritten ==
    ASSUME NEW t, NEW u, NEW n \in Position, NEW o \in Nat, Good(t), Touched(t, u, n, o), o <= t.id,
           NEW c, Written(t, c, tries)
    PROVE  Written(u, c, tries)
    <1>1. CASE u = t
        BY Zenon, <1>1
    <1>2. CASE u.error = TRUE /\ SameBut(t, u, {"error"})
        BY <1>2 DEF SameBut, Fields, Written
    <1>3. ASSUME NEW v, NEW page, Taken(t, v, page, o), Copied(t, v, u, n, page)
          PROVE Written(u, c, tries)
        <2>1. v.root = t.root
            BY <1>3, TakenKeeps DEF Good, TxnType
        <2>2. page \notin Pages(t) /\ page \in Pgno
            BY <1>3, <2>1, TakenGood DEF PlacedBut, Parts, Pages
        <2>3. /\ u.root = [t.root EXCEPT ![n] = page] /\ u.by = [t.by EXCEPT ![n] = tries]
              /\ u.dirty = t.dirty \cup {page}
            BY Zenon, <1>3 DEF Copied
        <2>4. t.root \in [Position -> Pgno \cup {NoPage}] /\ t.by \in [Position -> 0..MaxEvents]
            BY Zenon DEF Good, TxnType
        <2>5. u.root[n] = page /\ u.by[n] = tries /\ page \in u.dirty
            BY Zenon, <2>3, <2>4
        <2>6. ASSUME NEW m \in Position, m # n, u.root[m] # NoPage
              PROVE  /\ u.root[m] = t.root[m] /\ u.by[m] = t.by[m]
                     /\ t.root[m] \in u.dirty <=> t.root[m] \in t.dirty
            <3>1. u.root[m] = t.root[m] /\ u.by[m] = t.by[m]
                BY Zenon, <2>3, <2>4, <2>6
            <3>2. t.root[m] # page
                BY Zenon, <2>2, <2>6, <3>1 DEF Pages
            <3> QED BY Zenon, <2>3, <3>1, <3>2
        <2> QED BY Zenon, <2>5, <2>6 DEF Written
    <1> QED BY Zenon, <1>1, <1>2, <1>3 DEF Touched

\* A position loses its page to the pages that the transaction frees, or, if it is dirty, to the
\* loose ones: every page still has one place, and nothing that was spared is taken.
LEMMA VacatedGood ==
    \A t, u, n :
        n \in Position /\ Good(t) /\ (GoesFree(t, u, n) \/ GoesLoose(t, u, n)) /\
        u.drop \in Leaves \cup {NoNode} =>
            /\ Good(u)
            /\ \A m : TxnSpares(t, m) => TxnSpares(u, m)
            /\ \A c, tr : Written(t, c, tr) => Written(u, c, tr)
    \* A page goes from the trees to the freed pages, or to the loose ones.
    <1>PartsVacated.
        ASSUME NEW a, NEW b, NEW c, NEW d, NEW e, NEW all, Parts(a, b, c, d, e, {}, all), NEW r,
               r \subseteq a
        PROVE  /\ Parts(a \ r, b, c \cup r, d, e, {}, all)
               /\ Parts(a \ r, b, c, d, e \cup r, {}, all)
        BY Zenon, <1>PartsVacated DEF Parts
    \* The pages of the trees when a position loses its page.
    <1>PagesVacated.
        ASSUME NEW t, NEW u, t.root \in [Position -> Pgno \cup {NoPage}],
               t.by \in [Position -> 0..MaxEvents],
               NEW n \in Position, Vacated(t, u, n), OnePosition(t.root)
        PROVE  /\ Pages(u) = Pages(t) \ Freed(t, n) /\ Freed(t, n) \subseteq Pages(t)
               /\ OnePosition(u.root) /\ Freed(t, n) \subseteq Pgno
               /\ u.root \in [Position -> Pgno \cup {NoPage}] /\ u.by \in [Position -> 0..MaxEvents]
               /\ u.root[n] = NoPage
               /\ \A m \in Position : m # n => u.root[m] = t.root[m] /\ u.by[m] = t.by[m]
        <2> USE <1>PagesVacated
        <2>1. u.root[n] = NoPage /\ \A m \in Position : m # n =>
                  u.root[m] = t.root[m] /\ u.by[m] = t.by[m]
            BY Zenon DEF Vacated
        <2>2. OnePosition(u.root)
            BY <2>1 DEF OnePosition
        <2>3. Freed(t, n) \subseteq Pages(t) /\ Freed(t, n) \subseteq Pgno
            BY Zenon DEF Freed, Pages
        <2>4. Pages(u) \subseteq Pages(t) \ Freed(t, n)
            BY <2>1 DEF Pages, Freed, OnePosition
        <2>5. Pages(t) \ Freed(t, n) \subseteq Pages(u)
            BY <2>1 DEF Pages, Freed
        <2>6. u.root \in [Position -> Pgno \cup {NoPage}] /\ u.by \in [Position -> 0..MaxEvents]
            BY LmdbAssumption DEF Vacated
        <2> QED BY Zenon, <2>1, <2>2, <2>3, <2>4, <2>5, <2>6
    \* What the transaction wrote at the other positions is still there.
    <1>VacatedWritten.
        ASSUME NEW t, NEW u, Good(t), NEW n \in Position, Vacated(t, u, n), u.dirty = t.dirty,
               NEW c, NEW tr, Written(t, c, tr)
        PROVE  Written(u, c, tr)
        <2> USE <1>VacatedWritten
        <2>1. /\ u.root[n] = NoPage
              /\ \A m \in Position : m # n => u.root[m] = t.root[m] /\ u.by[m] = t.by[m]
            <3>1. /\ t.root \in [Position -> Pgno \cup {NoPage}]
                  /\ t.by \in [Position -> 0..MaxEvents]
                  /\ OnePosition(t.root)
                BY Zenon DEF Good, TxnType, Placed, PlacedBut
            <3> QED BY Zenon, <3>1 DEF Vacated
        <2> QED BY <2>1 DEF Written
    \* A position loses its page to the pages that the transaction frees: every page still has
    \* one place, and nothing that was spared is taken.
    <1>FreeGood.
        ASSUME NEW t, NEW u, Good(t), NEW n \in Position, GoesFree(t, u, n),
               u.drop \in Leaves \cup {NoNode}
        PROVE  /\ Good(u)
               /\ \A m : TxnSpares(t, m) => TxnSpares(u, m)
               /\ \A c, tr : Written(t, c, tr) => Written(u, c, tr)
        <2> USE <1>FreeGood
        <2>1. /\ DOMAIN u = Fields /\ u.id = t.id /\ u.free = t.free /\ u.dirty = t.dirty
              /\ u.trimmed = t.trimmed /\ u.saved = t.saved /\ u.loose = t.loose
              /\ u.next_pgno = t.next_pgno /\ u.loaded = t.loaded /\ u.pghead = t.pghead
              /\ u.pglast = t.pglast /\ u.todo = t.todo /\ u.error = t.error
              /\ u.free_pgs = t.free_pgs \cup Freed(t, n)
            BY Zenon DEF GoesFree, SameBut, Fields
        <2>2. /\ TxnType(t) /\ Placed(t) /\ Books(t) /\ Emptied(t) /\ OnePosition(t.root)
              /\ t.root \in [Position -> Pgno \cup {NoPage}] /\ t.by \in [Position -> 0..MaxEvents]
              /\ Vacated(t, u, n)
            BY Zenon DEF Good, Placed, PlacedBut, TxnType, GoesFree
        <2>3. /\ Pages(u) = Pages(t) \ Freed(t, n) /\ Freed(t, n) \subseteq Pages(t)
              /\ OnePosition(u.root) /\ Freed(t, n) \subseteq Pgno
              /\ u.root \in [Position -> Pgno \cup {NoPage}] /\ u.by \in [Position -> 0..MaxEvents]
            BY Zenon, <2>2, <1>PagesVacated
        <2>4. Live(u) = Live(t) /\ Loose(u) = Loose(t) /\ (OnceLoose(t) => OnceLoose(u))
            BY <2>1 DEF Live, Loose, OnceLoose
        <2>5. Parts(Pages(t) \ Freed(t, n), Records(t.free, Live(t)), t.free_pgs \cup Freed(t, n),
                    t.pghead, Loose(t), {}, 2..(t.next_pgno - 1))
            <3>1. Parts(Pages(t), Records(t.free, Live(t)), t.free_pgs, t.pghead, Loose(t), {},
                        2..(t.next_pgno - 1))
                BY Zenon, <2>2 DEF Placed, PlacedBut
            <3> QED BY Zenon, <2>3, <3>1, <1>PartsVacated
        <2>6. Placed(u)
            BY Zenon, <2>1, <2>2, <2>3, <2>4, <2>5 DEF Placed, PlacedBut
        <2>7. TxnType(u)
            BY Zenon, <2>1, <2>2, <2>3 DEF TxnType
        <2>8. Books(u) /\ Emptied(u)
            BY Zenon, <2>1, <2>2, <2>4 DEF Books, Emptied
        <2>9. \A m : TxnSpares(t, m) => TxnSpares(u, m)
            BY Zenon, <2>1 DEF TxnSpares
        <2>10. \A c, tr : Written(t, c, tr) => Written(u, c, tr)
            BY Zenon, <2>1, <1>VacatedWritten DEF GoesFree
        <2> QED BY Zenon, <2>6, <2>7, <2>8, <2>9, <2>10 DEF Good
    \* A page in front of the loose ones.
    <1>LooseMore.
        ASSUME NEW s \in Seq(Pgno), NEW pg \in Pgno, NEW r, r = <<pg>> \o s
        PROVE  /\ r \in Seq(Pgno) /\ Len(r) = Len(s) + 1 /\ r[1] = pg
               /\ \A i \in 1..Len(s) : r[i + 1] = s[i]
               /\ \A i \in 1..Len(r) : i = 1 \/ (i - 1 \in 1..Len(s) /\ r[i] = s[i - 1])
        BY <1>LooseMore
    \* A position loses a dirty page to the loose ones: every page still has one place, and
    \* nothing that was spared is taken.
    <1>LooseGood.
        ASSUME NEW t, NEW u, Good(t), NEW n \in Position, GoesLoose(t, u, n),
               u.drop \in Leaves \cup {NoNode}
        PROVE  /\ Good(u)
               /\ \A m : TxnSpares(t, m) => TxnSpares(u, m)
               /\ \A c, tr : Written(t, c, tr) => Written(u, c, tr)
        <2> USE <1>LooseGood
        <2>1. /\ DOMAIN u = Fields /\ u.id = t.id /\ u.free = t.free /\ u.dirty = t.dirty
              /\ u.trimmed = t.trimmed /\ u.saved = t.saved /\ u.free_pgs = t.free_pgs
              /\ u.next_pgno = t.next_pgno /\ u.loaded = t.loaded /\ u.pghead = t.pghead
              /\ u.pglast = t.pglast /\ u.todo = t.todo /\ u.error = t.error
              /\ u.loose = <<t.root[n]>> \o t.loose
            BY Zenon DEF GoesLoose, SameBut, Fields
        <2>2. /\ TxnType(t) /\ Placed(t) /\ Books(t) /\ Emptied(t) /\ OnePosition(t.root)
              /\ OnceLoose(t)
              /\ t.root \in [Position -> Pgno \cup {NoPage}] /\ t.by \in [Position -> 0..MaxEvents]
              /\ Vacated(t, u, n)
            BY Zenon DEF Good, Placed, PlacedBut, TxnType, GoesLoose
        <2>3. /\ Pages(u) = Pages(t) \ Freed(t, n) /\ Freed(t, n) \subseteq Pages(t)
              /\ OnePosition(u.root)
              /\ u.root \in [Position -> Pgno \cup {NoPage}] /\ u.by \in [Position -> 0..MaxEvents]
            BY Zenon, <2>2, <1>PagesVacated
        <2>4. /\ t.root[n] \in Pgno /\ t.root[n] \in t.dirty /\ Freed(t, n) = {t.root[n]}
            BY <2>2 DEF GoesLoose, TxnType, Freed, Pgno, NoPage
        <2>5. Parts(Pages(t), Records(t.free, Live(t)), t.free_pgs, t.pghead, Loose(t), {},
                    2..(t.next_pgno - 1))
            BY Zenon, <2>2 DEF Placed, PlacedBut
        <2>6. t.root[n] \notin Loose(t)
            BY Zenon, <2>3, <2>4, <2>5 DEF Parts
        <2>7. /\ u.loose \in Seq(Pgno) /\ Len(u.loose) = Len(t.loose) + 1 /\ u.loose[1] = t.root[n]
              /\ \A i \in 1..Len(t.loose) : u.loose[i + 1] = t.loose[i]
              /\ \A i \in 1..Len(u.loose) : i = 1
                   \/ (i - 1 \in 1..Len(t.loose) /\ u.loose[i] = t.loose[i - 1])
            BY <2>1, <2>2, <2>4, <1>LooseMore DEF TxnType
        <2>8. Loose(u) = Loose(t) \cup {t.root[n]}
            <3>0. Len(t.loose) \in Nat
                BY <2>2 DEF TxnType
            <3>1. Loose(u) \subseteq Loose(t) \cup {t.root[n]}
                <4>1. ASSUME NEW i \in 1..Len(u.loose)
                      PROVE  u.loose[i] \in Loose(t) \cup {t.root[n]}
                    <5>1. i = 1 \/ (i - 1 \in 1..Len(t.loose) /\ u.loose[i] = t.loose[i - 1])
                        BY Zenon, <2>7
                    <5>2. \A j \in 1..Len(t.loose) : t.loose[j] \in Loose(t)
                        BY Zenon DEF Loose
                    <5> QED BY Zenon, <2>7, <5>1, <5>2
                <4> QED BY Zenon, <4>1 DEF Loose
            <3>2. ASSUME NEW i \in 1..Len(t.loose)
                  PROVE  i + 1 \in 1..Len(u.loose) /\ t.loose[i] = u.loose[i + 1]
                BY <2>7, <3>0
            <3>3. 1 \in 1..Len(u.loose)
                BY <2>7, <3>0
            <3>4. Loose(t) \subseteq Loose(u) /\ t.root[n] \in Loose(u)
                <4>1. \A i \in 1..Len(t.loose) : t.loose[i] \in Loose(u)
                    BY Zenon, <3>2 DEF Loose
                <4>2. u.loose[1] \in Loose(u)
                    BY Zenon, <3>3 DEF Loose
                <4> QED BY Zenon, <2>7, <4>1, <4>2 DEF Loose
            <3> QED BY Zenon, <3>1, <3>4
        <2>9. OnceLoose(u)
            <3> SUFFICES ASSUME NEW i \in 1..Len(u.loose), NEW j \in 1..Len(u.loose),
                                u.loose[i] = u.loose[j]
                         PROVE  i = j
                BY Zenon DEF OnceLoose
            <3>1. ASSUME NEW k \in 1..Len(u.loose), k # 1 PROVE u.loose[k] # t.root[n]
                <4>1. k - 1 \in 1..Len(t.loose) /\ u.loose[k] = t.loose[k - 1]
                    BY Zenon, <2>7, <3>1
                <4>2. t.loose[k - 1] \in Loose(t)
                    BY Zenon, <4>1 DEF Loose
                <4> QED BY Zenon, <2>6, <4>1, <4>2
            <3>2. CASE i = 1 \/ j = 1
                BY Zenon, <2>7, <3>1, <3>2
            <3>3. CASE i # 1 /\ j # 1
                <4>1. /\ i - 1 \in 1..Len(t.loose) /\ u.loose[i] = t.loose[i - 1]
                      /\ j - 1 \in 1..Len(t.loose) /\ u.loose[j] = t.loose[j - 1]
                    BY Zenon, <2>7, <3>3
                <4>2. i - 1 = j - 1
                    BY Zenon, <2>2, <4>1 DEF OnceLoose
                <4> QED BY <4>2
            <3> QED BY Zenon, <3>2, <3>3
        <2>10. Live(u) = Live(t)
            BY Zenon, <2>1 DEF Live
        <2>11. Parts(Pages(t) \ Freed(t, n), Records(t.free, Live(t)), t.free_pgs,
                    t.pghead, Loose(t) \cup Freed(t, n), {}, 2..(t.next_pgno - 1))
            BY Zenon, <2>3, <2>5, <1>PartsVacated
        <2>12. Placed(u)
            BY Zenon, <2>1, <2>2, <2>3, <2>4, <2>8, <2>9, <2>10, <2>11 DEF Placed, PlacedBut
        <2>13. TxnType(u)
            BY Zenon, <2>1, <2>2, <2>3, <2>7 DEF TxnType
        <2>14. Books(u) /\ Emptied(u)
            BY <2>1, <2>2, <2>4, <2>8 DEF Books, Emptied
        <2>15. \A m : TxnSpares(t, m) => TxnSpares(u, m)
            BY Zenon, <2>1 DEF TxnSpares
        <2>16. \A c, tr : Written(t, c, tr) => Written(u, c, tr)
            BY Zenon, <2>1, <1>VacatedWritten DEF GoesLoose
        <2> QED BY Zenon, <2>12, <2>13, <2>14, <2>15, <2>16 DEF Good
    <1> QED BY Zenon, <1>FreeGood, <1>LooseGood

\* The positions are different ones.
LEMMA PositionsApart ==
    /\ Branch # FreeRoot /\ Branch # NoNode /\ FreeRoot # NoNode
    /\ Branch \notin Leaves /\ FreeRoot \notin Leaves /\ NoNode \notin Leaves
    /\ Branch \in Position /\ FreeRoot \in Position /\ Leaves \subseteq Position
    BY Zenon, LmdbAssumption DEF Position

\* Nothing to do is shape enough.
LEMMA ShapedDone ==
    ASSUME NEW t, t.todo = <<>>
    PROVE  Shaped(t) <=> TreeShape(t.root)
    BY DEF Shaped, InTodo, TreeShape

\* The leaf n loses its page.
LEMMA UnlinkLeaf ==
    ASSUME NEW t, Good(t), NEW n \in Leaves, t.root[n] # NoPage, NEW u,
           u = [t EXCEPT !.root[n] = NoPage, !.by[n] = 0, !.drop = NoNode,
                         !.loose = IF t.root[n] \in t.dirty THEN <<t.root[n]>> \o @ ELSE @,
                         !.free_pgs = IF t.root[n] \in t.dirty THEN @ ELSE @ \cup {t.root[n]}]
    PROVE  /\ GoesFree(t, u, n) \/ GoesLoose(t, u, n)
           /\ u.drop = NoNode
    <1>1. DOMAIN t = Fields
        BY Zenon DEF Good, TxnType
    <1>2. /\ DOMAIN u = Fields
          /\ u.root = [t.root EXCEPT ![n] = NoPage] /\ u.by = [t.by EXCEPT ![n] = 0]
          /\ u.drop = NoNode
          /\ u.loose = IF t.root[n] \in t.dirty THEN <<t.root[n]>> \o t.loose ELSE t.loose
          /\ u.free_pgs = IF t.root[n] \in t.dirty THEN t.free_pgs ELSE t.free_pgs \cup {t.root[n]}
          /\ \A f \in Fields \ {"root", "by", "drop", "loose", "free_pgs"} : u[f] = t[f]
        BY Zenon, <1>1 DEF Fields
    <1>3. CASE t.root[n] \in t.dirty
        <2>1. SameBut(t, u, {"root", "by", "loose", "drop"})
            BY Zenon, <1>2, <1>3 DEF SameBut
        <2> QED BY Zenon, <1>2, <1>3, <2>1 DEF GoesLoose, Vacated
    <1>4. CASE t.root[n] \notin t.dirty
        <2>1. SameBut(t, u, {"root", "by", "free_pgs", "drop"})
            BY Zenon, <1>2, <1>4 DEF SameBut
        <2>2. Freed(t, n) = {t.root[n]}
            BY Zenon DEF Freed
        <2> QED BY Zenon, <1>2, <1>4, <2>1, <2>2 DEF GoesFree, Vacated
    <1> QED BY Zenon, <1>2, <1>3, <1>4

\* The branch page is freed.
LEMMA UnlinkBranch ==
    ASSUME NEW t, DOMAIN t = Fields, t.root[Branch] # NoPage, NEW pg, pg = t.root[Branch], NEW u,
           u = [t EXCEPT !.root[Branch] = NoPage, !.by[Branch] = 0, !.free_pgs = @ \cup {pg}]
    PROVE  GoesFree(t, u, Branch) /\ u.drop = t.drop
    <1>1. /\ DOMAIN u = Fields
          /\ u.root = [t.root EXCEPT ![Branch] = NoPage] /\ u.by = [t.by EXCEPT ![Branch] = 0]
          /\ u.free_pgs = t.free_pgs \cup {pg}
          /\ \A f \in Fields \ {"root", "by", "free_pgs"} : u[f] = t[f]
        BY Zenon DEF Fields
    <1>2. Freed(t, Branch) = {pg}
        BY Zenon DEF Freed
    <1>3. SameBut(t, u, {"root", "by", "free_pgs", "drop"}) /\ u.drop = t.drop
        BY Zenon, <1>1 DEF SameBut, Fields
    <1> QED BY Zenon, <1>1, <1>2, <1>3 DEF GoesFree, Vacated

\* mdb_page_merge keeps every page in one place, and the tree in shape.
LEMMA UnlinkGood ==
    ASSUME NEW t, Good(t), NEW n \in Leaves, t.root[n] # NoPage, t.root[Branch] # NoPage
    PROVE  /\ Good(Unlink(t, n)) /\ TreeShape(Unlink(t, n).root)
           /\ Unlink(t, n).drop = NoNode /\ Unlink(t, n).todo = t.todo
           /\ Unlink(t, n).error = t.error
           /\ Unlink(t, n).id = t.id
           /\ \A m : TxnSpares(t, m) => TxnSpares(Unlink(t, n), m)
           /\ \A c, tr : Written(t, c, tr) => Written(Unlink(t, n), c, tr)
    <1> DEFINE u == [t EXCEPT !.root[n] = NoPage, !.by[n] = 0, !.drop = NoNode,
                         !.loose = IF t.root[n] \in t.dirty THEN <<t.root[n]>> \o @ ELSE @,
                         !.free_pgs = IF t.root[n] \in t.dirty THEN @ ELSE @ \cup {t.root[n]}]
               w == [u EXCEPT !.root[Branch] = NoPage, !.by[Branch] = 0,
                              !.free_pgs = @ \cup {t.root[Branch]}]
               leaves == {m \in Leaves : u.root[m] # NoPage}
               several == \E m, k \in leaves : m # k
    <1>1. Unlink(t, n) = IF several THEN u ELSE w
        BY Zenon DEF Unlink
    <1>2. (GoesFree(t, u, n) \/ GoesLoose(t, u, n)) /\ u.drop = NoNode
        BY Zenon, UnlinkLeaf
    <1>3. n \in Position /\ NoNode \in Leaves \cup {NoNode}
        BY Zenon DEF Position
    <1> HIDE DEF u
    <1>4. /\ Good(u)
          /\ \A m : TxnSpares(t, m) => TxnSpares(u, m)
          /\ \A c, tr : Written(t, c, tr) => Written(u, c, tr)
        BY Zenon, <1>2, <1>3, VacatedGood
    <1>5. u.todo = t.todo /\ u.error = t.error /\ u.id = t.id /\ DOMAIN u = Fields
        BY Zenon, <1>2 DEF GoesFree, GoesLoose, SameBut, Fields
    <1>6. u.root = [t.root EXCEPT ![n] = NoPage] /\ t.root \in [Position -> Pgno \cup {NoPage}]
        BY Zenon, <1>2 DEF GoesFree, GoesLoose, Vacated, Good, TxnType
    <1>7. u.root[Branch] = t.root[Branch]
        BY Zenon, <1>3, <1>6, PositionsApart
    <1>8. GoesFree(u, w, Branch) /\ w.drop = u.drop
        BY Zenon, <1>5, <1>7, UnlinkBranch
    <1> HIDE DEF w
    <1>9. /\ Good(w)
          /\ \A m : TxnSpares(u, m) => TxnSpares(w, m)
          /\ \A c, tr : Written(u, c, tr) => Written(w, c, tr)
        BY Zenon, <1>2, <1>3, <1>4, <1>8, VacatedGood, PositionsApart
    <1>10. w.todo = t.todo /\ w.error = t.error /\ w.id = t.id
        BY Zenon, <1>5, <1>8 DEF GoesFree, SameBut, Fields
    <1>11. TreeShape(u.root)
        BY Zenon, <1>7 DEF TreeShape
    <1>12. ~several => TreeShape(w.root)
        <2>1. w.root = [u.root EXCEPT ![Branch] = NoPage]
            BY Zenon, <1>8 DEF GoesFree, Vacated
        <2>2. \A m \in Leaves : w.root[m] = u.root[m]
            BY Zenon, <1>6, <2>1, PositionsApart
        <2>3. ASSUME NEW m \in Leaves, NEW k \in Leaves, u.root[m] # NoPage, u.root[k] # NoPage,
                     m # k
              PROVE  several
            BY Zenon, <2>3
        <2> QED BY Zenon, <2>2, <2>3 DEF TreeShape
    <1> HIDE DEF several
    <1>13. CASE several
        <2>1. Unlink(t, n) = u
            BY Zenon, <1>1, <1>13
        <2> QED BY Zenon, <1>2, <1>4, <1>5, <1>11, <2>1
    <1>14. CASE ~several
        <2>1. Unlink(t, n) = w
            BY Zenon, <1>1, <1>14
        <2> QED BY Zenon, <1>2, <1>4, <1>8, <1>9, <1>10, <1>12, <1>14, <2>1
    <1> QED BY Zenon, <1>13, <1>14

\* What mdb_page_touch leaves of the tree.
LEMMA TouchedRoot ==
    ASSUME NEW t, NEW u, NEW n \in Position, NEW o \in Nat, Good(t), Touched(t, u, n, o), o <= t.id
    PROVE  /\ u.todo = t.todo /\ u.drop = t.drop /\ u.id = t.id
           /\ t.loaded = TRUE => u.loaded = TRUE
           /\ \/ u.error = TRUE
              \/ /\ u.error = t.error /\ u.root[n] # NoPage
                 /\ \A m \in Position : m # n => u.root[m] = t.root[m]
    <1>0. DOMAIN t = Fields /\ t.root \in [Position -> Pgno \cup {NoPage}] /\ t.dirty \subseteq Pgno
        BY Zenon DEF Good, TxnType
    <1>1. CASE t.root[n] \in t.dirty /\ u = t
        BY <1>0, <1>1 DEF Pgno, NoPage
    <1>2. CASE u.error = TRUE /\ SameBut(t, u, {"error"})
        BY Zenon, <1>2 DEF SameBut, Fields
    <1>3. ASSUME NEW v, NEW page, Taken(t, v, page, o), Copied(t, v, u, n, page)
          PROVE  /\ u.todo = t.todo /\ u.drop = t.drop /\ u.id = t.id /\ u.error = t.error
                 /\ t.loaded = TRUE => u.loaded = TRUE
                 /\ u.root[n] # NoPage /\ \A m \in Position : m # n => u.root[m] = t.root[m]
        <2>1. v.todo = t.todo /\ v.drop = t.drop /\ v.id = t.id /\ v.error = t.error
            BY <1>0, <1>3, TakenKeeps
        <2>2. t.loaded = TRUE => v.loaded = TRUE
            BY Zenon, <1>3 DEF Taken, FromLoose, FromHead, FromRecord, FromEnd, SameBut, Fields
        <2>3. /\ u.todo = v.todo /\ u.drop = v.drop /\ u.id = v.id /\ u.error = v.error
              /\ u.loaded = v.loaded
            BY Zenon, <1>3 DEF Copied, SameBut, Fields
        <2>4. page \in Pgno
            BY Zenon, <1>3, TakenGood
        <2>5. u.root = [t.root EXCEPT ![n] = page]
            BY Zenon, <1>3 DEF Copied
        <2>6. u.root[n] # NoPage /\ \A m \in Position : m # n => u.root[m] = t.root[m]
            BY <1>0, <2>4, <2>5 DEF Pgno, NoPage
        <2> QED BY Zenon, <2>1, <2>2, <2>3, <2>6
    <1> QED BY Zenon, <1>1, <1>2, <1>3 DEF Touched

\* The first of what there was to do is done.
LEMMA TailTodo ==
    ASSUME NEW s \in Seq(Position), s # <<>>
    PROVE  /\ Head(s) \in Position /\ Tail(s) \in Seq(Position)
           /\ \A n : (\E i \in 1..Len(s) : s[i] = n) <=>
                     (n = Head(s) \/ \E i \in 1..Len(Tail(s)) : Tail(s)[i] = n)
    <1>1. /\ Head(s) = s[1] /\ Tail(s) \in Seq(Position) /\ Len(Tail(s)) = Len(s) - 1
          /\ Len(s) \in Nat \ {0}
        OBVIOUS
    <1>2. \A i \in 1..Len(Tail(s)) : Tail(s)[i] = s[i + 1]
        OBVIOUS
    <1>3. 1 \in 1..Len(s) /\ s[1] \in Position
        BY <1>1
    <1>4. ASSUME NEW i \in 1..Len(s), i # 1 PROVE i - 1 \in 1..Len(Tail(s)) /\ s[i] = Tail(s)[i - 1]
        <2>1. i - 1 \in 1..Len(Tail(s)) /\ (i - 1) + 1 = i
            BY <1>1, <1>4
        <2> QED BY Zenon, <1>2, <2>1
    <1>5. ASSUME NEW i \in 1..Len(Tail(s)) PROVE i + 1 \in 1..Len(s) /\ Tail(s)[i] = s[i + 1]
        BY <1>1, <1>2
    <1> QED BY <1>1, <1>3, <1>4, <1>5

\* A touch goes on with the update.
LEMMA TouchedGrowing ==
    ASSUME NEW t, NEW a, NEW u, NEW o \in Nat, Good(t), Growing(t), t.todo # <<>>, o <= t.id,
           Touched(t, a, Head(t.todo), o), SameBut(a, u, {"todo"}),
           a.error = TRUE => u.todo = <<>>, a.error = FALSE => u.todo = Tail(t.todo)
    PROVE  /\ u.todo \in Seq(Position) /\ u.drop = t.drop /\ u.error = a.error
           /\ u.error = FALSE => Shaped(u)
           /\ u.error = FALSE /\ u.drop # NoNode =>
                  u.root[u.drop] # NoPage /\ u.root[Branch] # NoPage
    <1> DEFINE n == Head(t.todo)
    <1>1. t.todo \in Seq(Position) /\ t.drop \in Leaves \cup {NoNode} /\ t.error = FALSE
        BY Zenon DEF Good, TxnType, Growing
    <1>2. n \in Position /\ Tail(t.todo) \in Seq(Position)
          /\ \A m : InTodo(t, m) <=> (m = n \/ \E i \in 1..Len(Tail(t.todo)) : Tail(t.todo)[i] = m)
        BY Zenon, <1>1, TailTodo DEF InTodo
    <1>3. u.drop = a.drop /\ u.error = a.error /\ u.root = a.root
        BY Zenon DEF SameBut, Fields
    <1>4. /\ a.drop = t.drop
          /\ \/ a.error = TRUE
             \/ /\ a.error = t.error /\ a.root[n] # NoPage
                /\ \A m \in Position : m # n => a.root[m] = t.root[m]
        BY <1>2, TouchedRoot
    <1> HIDE DEF n
    <1>5. CASE a.error = TRUE
        <2>1. u.todo = <<>> /\ <<>> \in Seq(Position)
            BY <1>5
        <2>2. u.error # FALSE
            BY Zenon, <1>3, <1>5
        <2> QED BY Zenon, <1>3, <1>4, <2>1, <2>2
    <1>6. CASE a.error # TRUE
        <2>1. /\ a.error = FALSE /\ u.root[n] # NoPage /\ u.todo = Tail(t.todo)
              /\ \A m \in Position : m # n => u.root[m] = t.root[m]
            BY Zenon, <1>1, <1>3, <1>4, <1>6
        <2>2. \A m \in Position : t.root[m] # NoPage => u.root[m] # NoPage
            BY Zenon, <2>1
        <2>3. \A m : InTodo(t, m) <=> (m = n \/ InTodo(u, m))
            BY <1>2, <2>1 DEF InTodo
        <2>4. Shaped(t) /\ (t.drop # NoNode => t.root[t.drop] # NoPage /\ t.root[Branch] # NoPage)
            BY Zenon, <1>1 DEF Growing
        <2>5. Shaped(u)
            <3>1. CASE t.root[Branch] # NoPage
                BY Zenon, <2>2, <3>1, PositionsApart DEF Shaped
            <3>2. CASE InTodo(t, Branch)
                BY Zenon, <2>1, <2>3, <3>2 DEF Shaped
            <3>3. CASE TreeShape(t.root) /\ \A m \in Leaves : InTodo(t, m) => t.root[m] # NoPage
                <4>1. \A m \in Leaves : u.root[m] # NoPage <=> t.root[m] # NoPage
                    BY Zenon, <2>1, <2>3, <3>3, PositionsApart
                <4>2. TreeShape(u.root)
                    BY Zenon, <2>2, <3>3, <4>1, PositionsApart DEF TreeShape
                <4> QED BY Zenon, <2>3, <3>3, <4>1, <4>2 DEF Shaped
            <3> QED BY Zenon, <2>4, <3>1, <3>2, <3>3 DEF Shaped
        <2>6. u.drop # NoNode => u.root[u.drop] # NoPage /\ u.root[Branch] # NoPage
            BY Zenon, <1>1, <1>3, <1>4, <2>2, <2>4, PositionsApart
        <2> QED BY Zenon, <1>2, <1>3, <1>4, <2>1, <2>5, <2>6
    <1> QED BY Zenon, <1>5, <1>6

\* One step of an update.
LEMMA TouchGood ==
    ASSUME NEW t, NEW a, NEW u, NEW w, NEW o \in Nat, Good(t), Growing(t), t.todo # <<>>, o <= t.id,
           Touched(t, a, Head(t.todo), o), tries \in 0..MaxEvents,
           SameBut(a, u, {"todo"}),
           a.error = TRUE => u.todo = <<>>, a.error = FALSE => u.todo = Tail(t.todo),
           u.todo = <<>> /\ u.drop # NoNode /\ u.error = FALSE => w = Unlink(u, u.drop),
           ~(u.todo = <<>> /\ u.drop # NoNode /\ u.error = FALSE) => w = u
    PROVE  /\ Good(w) /\ Growing(w) /\ w.id = t.id
           /\ \A m : m.txnid \in TxnId /\ Pages(m) \subseteq Pgno /\ TxnSpares(t, m)
                /\ o <= m.txnid + 1
                        => TxnSpares(w, m)
           /\ \A c : Written(t, c, tries) => Written(w, c, tries)
    <1>1. Head(t.todo) \in Position /\ t.error = FALSE
        BY Zenon, TailTodo DEF Good, TxnType, Growing
    <1>2. Good(a)
        BY Zenon, <1>1, TouchedGood
    <1>3. DOMAIN a = Fields /\ a.error \in BOOLEAN
        BY Zenon, <1>2 DEF Good, TxnType
    <1>4. a.id = t.id /\ a.todo = t.todo
        BY Zenon, <1>1, TouchedRoot
    <1>6. /\ u.todo \in Seq(Position) /\ u.drop = t.drop /\ u.error = a.error
          /\ u.error = FALSE => Shaped(u)
          /\ u.error = FALSE /\ u.drop # NoNode =>
                 u.root[u.drop] # NoPage /\ u.root[Branch] # NoPage
        BY Zenon, TouchedGrowing
    <1>7. u.id = t.id
        BY Zenon, <1>4 DEF SameBut, Fields
    <1>8. t.drop \in Leaves \cup {NoNode}
        BY Zenon DEF Good, TxnType
    <1>9. SameBut(a, u, {"todo", "drop", "writes", "error"})
        BY Zenon DEF SameBut
    <1>10. /\ Good(u)
           /\ \A m : TxnSpares(a, m) => TxnSpares(u, m)
           /\ \A c : Written(a, c, tries) => Written(u, c, tries)
        BY Zenon, <1>2, <1>3, <1>6, <1>8, <1>9, SameGood
    <1>11. ASSUME NEW m, m.txnid \in TxnId, Pages(m) \subseteq Pgno, TxnSpares(t, m),
                  o <= m.txnid + 1
           PROVE  TxnSpares(u, m)
        BY Zenon, <1>1, <1>10, <1>11, TouchedSpares
    <1>12. ASSUME NEW c, Written(t, c, tries) PROVE Written(u, c, tries)
        BY Zenon, <1>1, <1>10, <1>12, TouchedWritten
    <1>13. CASE u.todo = <<>> /\ u.drop # NoNode /\ u.error = FALSE
        <2>1. w = Unlink(u, u.drop) /\ u.error = FALSE
            BY Zenon, <1>3, <1>6, <1>13
        <2>2. u.drop \in Leaves /\ u.root[u.drop] # NoPage /\ u.root[Branch] # NoPage
            BY Zenon, <1>6, <1>8, <1>13, <2>1
        <2>3. /\ Good(w) /\ TreeShape(w.root) /\ w.drop = NoNode /\ w.todo = u.todo
              /\ w.error = u.error /\ w.id = u.id
              /\ \A m : TxnSpares(u, m) => TxnSpares(w, m)
              /\ \A c : Written(u, c, tries) => Written(w, c, tries)
            BY Zenon, <1>10, <2>1, <2>2, UnlinkGood
        <2>4. Growing(w)
            BY Zenon, <1>13, <2>3, ShapedDone DEF Growing
        <2> QED BY Zenon, <1>7, <1>11, <1>12, <2>3, <2>4
    <1>14. CASE ~(u.todo = <<>> /\ u.drop # NoNode /\ u.error = FALSE)
        <2>1. w = u
            BY Zenon, <1>14
        <2>2. Growing(u)
            BY Zenon, <1>3, <1>6, <1>14 DEF Growing
        <2> QED BY Zenon, <1>7, <1>10, <1>11, <1>12, <2>1, <2>2
    <1> QED BY Zenon, <1>13, <1>14

(***************************************************************************)
(* mdb_freelist_save.                                                      *)
(***************************************************************************)

\* The loose pages are freed.
LEMMA GiveLoose ==
    ASSUME NEW t, NEW u, Good(t), SameBut(t, u, {"free_pgs", "dirty", "loose"}),
           u.free_pgs = t.free_pgs \cup Loose(t), u.dirty = t.dirty \ Loose(t), u.loose = <<>>
    PROVE  /\ Good(u)
           /\ \A m : TxnSpares(t, m) => TxnSpares(u, m)
           /\ \A c, tr : Written(t, c, tr) => Written(u, c, tr)
    <1>1. /\ DOMAIN u = Fields /\ u.id = t.id /\ u.root = t.root /\ u.by = t.by /\ u.free = t.free
          /\ u.trimmed = t.trimmed /\ u.saved = t.saved /\ u.drop = t.drop
          /\ u.next_pgno = t.next_pgno /\ u.loaded = t.loaded /\ u.pghead = t.pghead
          /\ u.pglast = t.pglast /\ u.todo = t.todo /\ u.error = t.error
        BY Zenon DEF SameBut, Fields
    <1>2. TxnType(t) /\ Placed(t) /\ Books(t) /\ Emptied(t)
        BY Zenon DEF Good
    <1>3. Parts(Pages(t), Records(t.free, Live(t)), t.free_pgs, t.pghead, Loose(t), {},
            2..(t.next_pgno - 1))
        BY Zenon, <1>2 DEF Placed, PlacedBut
    <1>4. Parts(Pages(t), Records(t.free, Live(t)), t.free_pgs
            \cup Loose(t), t.pghead, {}, {}, 2..(t.next_pgno - 1))
        BY Zenon, <1>3 DEF Parts
    <1>5. Pages(u) = Pages(t) /\ Live(u) = Live(t) /\ Loose(u) = {} /\ OnceLoose(u)
        BY <1>1 DEF Pages, Live, Loose, OnceLoose
    <1>6. Placed(u)
        BY Zenon, <1>1, <1>2, <1>4, <1>5 DEF Placed, PlacedBut
    <1>7. TxnType(u)
        <2>1. Loose(t) \subseteq Pgno /\ u.loose \in Seq(Pgno)
            BY <1>2 DEF Loose, TxnType
        <2> QED BY Zenon, <1>1, <1>2, <2>1 DEF TxnType
    <1>8. Books(u) /\ Emptied(u)
        BY Zenon, <1>1, <1>2, <1>5 DEF Books, Emptied
    <1>9. \A m : TxnSpares(t, m) => TxnSpares(u, m)
        BY Zenon, <1>1 DEF TxnSpares
    <1>10. ASSUME NEW n \in Position, t.root[n] # NoPage
           PROVE  t.root[n] \in u.dirty <=> t.root[n] \in t.dirty
        <2>1. t.root[n] \in Pages(t)
            BY Zenon, <1>10 DEF Pages
        <2> QED BY Zenon, <1>3, <2>1 DEF Parts
    <1>11. \A c, tr : Written(t, c, tr) => Written(u, c, tr)
        BY Zenon, <1>1, <1>10 DEF Written
    <1> QED BY Zenon, <1>6, <1>7, <1>8, <1>9, <1>11 DEF Good

\* mdb_freelist_save deletes the records it has taken: every page still has one place.
LEMMA TrimGood ==
    \A t :
        Good(t) /\ t.trimmed < t.pglast =>
            /\ Good(TrimRecords(t)) /\ TrimRecords(t).trimmed = TrimRecords(t).pglast
            /\ TrimRecords(t).id = t.id /\ TrimRecords(t).todo = t.todo
            /\ TrimRecords(t).drop = t.drop
            /\ TrimRecords(t).error = t.error /\ TrimRecords(t).loaded = t.loaded
            /\ TrimRecords(t).loose = t.loose
            /\ (TreeShape(t.root) => TreeShape(TrimRecords(t).root))
            /\ \A m : TxnSpares(t, m) => TxnSpares(TrimRecords(t), m)
            /\ \A c, tr : Written(t, c, tr) => Written(TrimRecords(t), c, tr)
    \* The records that were taken are deleted.
    <1>RecordsTrimmed.
        ASSUME NEW t, NEW u, Good(t), SameBut(t, u, {"free", "trimmed"}), t.trimmed < t.pglast,
               u.free = [k \in TxnId |-> IF k <= t.pglast THEN {} ELSE t.free[k]], u.trimmed =
                   t.pglast
        PROVE  /\ Good(u)
               /\ \A m : TxnSpares(t, m) => TxnSpares(u, m)
               /\ \A c, tr : Written(t, c, tr) => Written(u, c, tr)
        <2> USE <1>RecordsTrimmed
        <2>1. /\ DOMAIN u = Fields /\ u.id = t.id /\ u.root = t.root /\ u.by = t.by
              /\ u.free_pgs = t.free_pgs /\ u.saved = t.saved /\ u.drop = t.drop
              /\ u.dirty = t.dirty
              /\ u.next_pgno = t.next_pgno /\ u.loaded = t.loaded /\ u.pghead = t.pghead
              /\ u.pglast = t.pglast /\ u.todo = t.todo /\ u.error = t.error /\ u.loose = t.loose
            BY Zenon DEF SameBut, Fields
        <2>2. TxnType(t) /\ Placed(t) /\ Books(t) /\ Emptied(t)
            BY Zenon DEF Good
        <2>3. /\ t.pglast \in Nat /\ t.id \in Nat /\ t.pglast < t.id /\ t.id \in TxnId
              /\ \A k \in TxnId : k \in Nat
              /\ t.free \in [TxnId -> SUBSET Pgno]
            BY <2>2 DEF TxnType, Books, TxnId
        <2>4. \A k \in TxnId : (k <= t.pglast => u.free[k] = {})
                /\ (k > t.pglast => u.free[k] = t.free[k])
            BY <2>3
        <2>5. /\ Live(t) = {k \in TxnId : k # t.id /\ k > t.pglast}
              /\ Live(u) = {k \in TxnId : k # t.id}
            BY <2>1, <2>3 DEF Live
        <2>6. /\ \A k \in Live(t) : k \in Live(u) /\ u.free[k] = t.free[k]
              /\ \A k \in Live(u) : k \in Live(t) \/ u.free[k] = {}
            BY <2>3, <2>4, <2>5
        <2>7. Records(u.free, Live(u)) = Records(t.free, Live(t))
            <3>1. \A pg \in Records(u.free, Live(u)) : pg \in Records(t.free, Live(t))
                BY <2>6 DEF Records
            <3>2. \A pg \in Records(t.free, Live(t)) : pg \in Records(u.free, Live(u))
                BY <2>6 DEF Records
            <3> QED BY Zenon, <3>1, <3>2
        <2>8. Apart(u.free, Live(u))
            BY Zenon, <2>2, <2>6 DEF Apart, Placed, PlacedBut
        <2>9. Pages(u) = Pages(t) /\ Loose(u) = Loose(t) /\ (OnceLoose(t) => OnceLoose(u))
            BY <2>1 DEF Pages, Loose, OnceLoose
        <2>10. Placed(u)
            BY Zenon, <2>1, <2>2, <2>7, <2>8, <2>9 DEF Placed, PlacedBut
        <2>11. TxnType(u)
            <3>1. u.free \in [TxnId -> SUBSET Pgno]
                BY Zenon, <2>3
            <3> QED BY Zenon, <2>1, <2>2, <3>1 DEF TxnType
        <2>12. Emptied(u)
            BY Zenon, <2>4 DEF Emptied
        <2>13. Books(u)
            <3>1. \A k \in TxnId : k > t.id => u.free[k] = {}
                BY <2>2, <2>3, <2>4 DEF Books
            <3>2. u.free[t.id] = t.saved
                BY Zenon, <2>2, <2>3, <2>4 DEF Books
            <3> QED BY <2>1, <2>2, <2>3, <2>9, <3>1, <3>2 DEF Books
        <2>14. ASSUME NEW m, TxnSpares(t, m) PROVE TxnSpares(u, m)
            BY <2>1, <2>3, <2>4, <2>14 DEF TxnSpares, Spares
        <2>15. \A c, tr : Written(t, c, tr) => Written(u, c, tr)
            BY Zenon, <2>1 DEF Written
        <2> QED BY Zenon, <2>10, <2>11, <2>12, <2>13, <2>14, <2>15 DEF Good
    <1> SUFFICES ASSUME NEW t, Good(t), t.trimmed < t.pglast
             PROVE  /\ Good(TrimRecords(t)) /\ TrimRecords(t).trimmed = TrimRecords(t).pglast
                    /\ TrimRecords(t).id = t.id /\ TrimRecords(t).todo = t.todo
                    /\ TrimRecords(t).drop = t.drop
                    /\ TrimRecords(t).error = t.error /\ TrimRecords(t).loaded = t.loaded
                    /\ TrimRecords(t).loose = t.loose
                    /\ (TreeShape(t.root) => TreeShape(TrimRecords(t).root))
                    /\ \A m : TxnSpares(t, m) => TxnSpares(TrimRecords(t), m)
                    /\ \A c, tr : Written(t, c, tr) => Written(TrimRecords(t), c, tr)
        BY Zenon
    <1> DEFINE f == [k \in TxnId |-> IF k <= t.pglast THEN {} ELSE t.free[k]]
               u == [t EXCEPT !.free = f, !.trimmed = t.pglast]
               w == [u EXCEPT !.root[FreeRoot] = NoPage, !.by[FreeRoot] = 0,
                              !.free_pgs = @ \cup ({t.root[FreeRoot]} \ {NoPage})]
    <1>1. TrimRecords(t) = IF \A k \in TxnId : f[k] = {} THEN w ELSE u
        BY Zenon DEF TrimRecords
    <1>2. DOMAIN t = Fields
        BY Zenon DEF Good, TxnType
    <1>3. SameBut(t, u, {"free", "trimmed"}) /\ u.free = f /\ u.trimmed = t.pglast
        <2> HIDE DEF f
        <2> QED BY Zenon, <1>2 DEF SameBut, Fields
    <1> HIDE DEF u
    <1>4. /\ Good(u)
          /\ \A m : TxnSpares(t, m) => TxnSpares(u, m)
          /\ \A c, tr : Written(t, c, tr) => Written(u, c, tr)
        BY Zenon, <1>3, <1>RecordsTrimmed
    <1> HIDE DEF f
    <1>5. /\ u.id = t.id /\ u.todo = t.todo /\ u.drop = t.drop /\ u.error = t.error
          /\ u.loaded = t.loaded /\ u.loose = t.loose /\ u.root = t.root /\ u.pglast = t.pglast
          /\ DOMAIN u = Fields
        BY Zenon, <1>3 DEF SameBut, Fields
    <1>6. GoesFree(u, w, FreeRoot)
        <2>1. Freed(u, FreeRoot) = {t.root[FreeRoot]} \ {NoPage}
            BY Zenon, <1>5 DEF Freed
        <2>2. /\ SameBut(u, w, {"root", "by", "free_pgs", "drop"}) /\ Vacated(u, w, FreeRoot)
              /\ w.free_pgs = u.free_pgs \cup ({t.root[FreeRoot]} \ {NoPage})
            BY Zenon, <1>5 DEF SameBut, Fields, Vacated
        <2> QED BY Zenon, <2>1, <2>2 DEF GoesFree
    <1> HIDE DEF w
    <1>7. /\ w.id = t.id /\ w.todo = t.todo /\ w.error = t.error /\ w.trimmed = w.pglast
          /\ w.loaded = t.loaded /\ w.loose = t.loose
        BY Zenon, <1>3, <1>5, <1>6 DEF GoesFree, SameBut, Fields
    <1>8. w.drop = t.drop /\ w.root = [t.root EXCEPT ![FreeRoot] = NoPage]
        BY <1>5, <1>6 DEF w, GoesFree, Vacated
    <1>9. /\ Good(w)
          /\ \A m : TxnSpares(u, m) => TxnSpares(w, m)
          /\ \A c, tr : Written(u, c, tr) => Written(w, c, tr)
        <2>1. w.drop \in Leaves \cup {NoNode}
            BY Zenon, <1>8 DEF Good, TxnType
        <2> QED BY Zenon, <1>4, <1>6, <2>1, VacatedGood, PositionsApart
    <1>10. TreeShape(t.root) => TreeShape(w.root)
        <2>1. t.root \in [Position -> Pgno \cup {NoPage}]
            BY Zenon DEF Good, TxnType
        <2>2. w.root[Branch] = t.root[Branch] /\ \A n \in Leaves : w.root[n] = t.root[n]
            BY Zenon, <1>8, <2>1, PositionsApart
        <2> QED BY Zenon, <2>2 DEF TreeShape
    <1>11. TrimRecords(t) = w \/ TrimRecords(t) = u
        BY Zenon, <1>1
    <1>12. CASE TrimRecords(t) = u
        BY Zenon, <1>3, <1>4, <1>5, <1>12
    <1>13. CASE TrimRecords(t) = w
        BY Zenon, <1>4, <1>7, <1>8, <1>9, <1>10, <1>13
    <1> QED BY Zenon, <1>11, <1>12, <1>13

\* The pages that the transaction freed are in its record.
LEMMA FreedSaved ==
    ASSUME NEW t, NEW u, Good(t), SameBut(t, u, {"free", "saved"}),
           u.free = [t.free EXCEPT ![t.id] = t.free_pgs], u.saved = t.free_pgs
    PROVE  /\ Good(u)
           /\ \A m : m.txnid \in TxnId /\ m.txnid < t.id /\ TxnSpares(t, m) => TxnSpares(u, m)
           /\ \A c, tr : Written(t, c, tr) => Written(u, c, tr)
    <1>1. /\ DOMAIN u = Fields /\ u.id = t.id /\ u.root = t.root /\ u.by = t.by
          /\ u.free_pgs = t.free_pgs /\ u.trimmed = t.trimmed /\ u.drop = t.drop
          /\ u.dirty = t.dirty
          /\ u.next_pgno = t.next_pgno /\ u.loaded = t.loaded /\ u.pghead = t.pghead
          /\ u.pglast = t.pglast /\ u.todo = t.todo /\ u.error = t.error /\ u.loose = t.loose
        BY Zenon DEF SameBut, Fields
    <1>2. TxnType(t) /\ Placed(t) /\ Books(t) /\ Emptied(t)
        BY Zenon DEF Good
    <1>3. /\ t.id \in TxnId /\ t.id \in Nat /\ t.free \in [TxnId -> SUBSET Pgno]
          /\ t.free_pgs \subseteq Pgno
          /\ t.pglast \in Nat /\ t.trimmed \in Nat /\ t.trimmed <= t.pglast /\ t.pglast < t.id
          /\ \A k \in TxnId : k \in Nat
        BY <1>2 DEF TxnType, Books, TxnId
    <1>4. u.free[t.id] = t.free_pgs /\ \A k \in TxnId : k # t.id => u.free[k] = t.free[k]
        BY Zenon, <1>3
    <1>5. Live(u) = Live(t) /\ \A k \in Live(t) : u.free[k] = t.free[k]
        BY Zenon, <1>1, <1>4 DEF Live
    <1>6. /\ Records(u.free, Live(u)) = Records(t.free, Live(t))
          /\ (Apart(t.free, Live(t)) => Apart(u.free, Live(u)))
        BY <1>5 DEF Records, Apart
    <1>7. Pages(u) = Pages(t) /\ Loose(u) = Loose(t) /\ (OnceLoose(t) => OnceLoose(u))
        BY <1>1 DEF Pages, Loose, OnceLoose
    <1>8. Placed(u)
        BY Zenon, <1>1, <1>2, <1>6, <1>7 DEF Placed, PlacedBut
    <1>9. TxnType(u)
        <2>1. u.free \in [TxnId -> SUBSET Pgno]
            BY Zenon, <1>3
        <2> QED BY Zenon, <1>1, <1>2, <2>1 DEF TxnType
    <1>10. Emptied(u)
        BY <1>1, <1>2, <1>3, <1>4 DEF Emptied
    <1>11. Books(u)
        <2>1. \A k \in TxnId : k > t.id => u.free[k] = {}
            BY <1>2, <1>3, <1>4 DEF Books
        <2> QED BY <1>1, <1>2, <1>4, <1>7, <2>1 DEF Books
    <1>12. ASSUME NEW m, m.txnid \in TxnId, m.txnid < t.id, TxnSpares(t, m) PROVE TxnSpares(u, m)
        <2>1. \A k \in TxnId : k <= m.txnid => u.free[k] = t.free[k]
            BY <1>3, <1>4, <1>12
        <2> QED BY Zenon, <1>1, <1>12, <2>1 DEF TxnSpares, Spares
    <1>13. \A c, tr : Written(t, c, tr) => Written(u, c, tr)
        BY Zenon, <1>1 DEF Written
    <1> QED BY Zenon, <1>8, <1>9, <1>10, <1>11, <1>12, <1>13 DEF Good

\* What was not used is put back under the last key taken.
LEMMA PutBack ==
    ASSUME NEW t, NEW u, Good(t), TreeShape(t.root), t.trimmed = t.pglast, t.saved = t.free_pgs,
           t.loaded = FALSE => t.loose = <<>>, SameBut(t, u, {"free", "pghead", "loose", "dirty"}),
           u.free = [t.free EXCEPT ![t.pglast] = t.pghead \cup Loose(t)], u.pghead = {}, u.loose =
               <<>>,
           u.dirty = t.dirty \ (t.pghead \cup Loose(t))
    PROVE  /\ Settled(u)
           /\ \A m : TxnSpares(t, m) => TxnSpares(u, m)
           /\ \A c, tr : Written(t, c, tr) => Written(u, c, tr)
    <1> DEFINE left == t.pghead \cup Loose(t)
    <1>1. /\ DOMAIN u = Fields /\ u.id = t.id /\ u.root = t.root /\ u.by = t.by
          /\ u.free_pgs = t.free_pgs /\ u.trimmed = t.trimmed /\ u.drop = t.drop
          /\ u.saved = t.saved
          /\ u.next_pgno = t.next_pgno /\ u.loaded = t.loaded
          /\ u.pglast = t.pglast /\ u.todo = t.todo /\ u.error = t.error
        BY Zenon DEF SameBut, Fields
    <1>2. TxnType(t) /\ Placed(t) /\ Books(t) /\ Emptied(t)
        BY Zenon DEF Good
    <1>3. /\ t.id \in TxnId /\ t.id \in Nat /\ t.free \in [TxnId -> SUBSET Pgno]
          /\ t.pglast \in TxnId
          /\ t.pglast \in Nat /\ t.pglast < t.id /\ t.pghead \subseteq Pgno
          /\ \A k \in TxnId : k \in Nat
        BY <1>2 DEF TxnType, Books, TxnId
    <1>4. left \subseteq Pgno
        BY <1>2, <1>3 DEF Loose, TxnType
    <1>5. /\ Parts(Pages(t), Records(t.free, Live(t)), t.free_pgs, t.pghead, Loose(t), {},
               2..(t.next_pgno - 1))
          /\ Apart(t.free, Live(t)) /\ OnePosition(t.root)
        BY Zenon, <1>2 DEF Placed, PlacedBut
    <1>6. u.free[t.pglast] = left /\ \A k \in TxnId : k # t.pglast => u.free[k] = t.free[k]
        BY Zenon, <1>3
    <1> HIDE DEF left
    <1>7. Live(t) = {k \in TxnId : k # t.id} /\ Live(u) = Live(t) /\ t.pglast \in Live(t)
        BY <1>1, <1>3 DEF Live
    <1>8. t.free[t.pglast] = {}
        BY <1>2, <1>3 DEF Emptied
    <1>9. Records(u.free, Live(u)) = Records(t.free, Live(t)) \cup left
        <2>1. \A pg \in Records(u.free, Live(u)) : pg \in Records(t.free, Live(t)) \cup left
            BY <1>6, <1>7 DEF Records
        <2>2. \A pg \in Records(t.free, Live(t)) : pg \in Records(u.free, Live(u))
            BY <1>6, <1>7, <1>8 DEF Records
        <2>3. \A pg \in left : pg \in Records(u.free, Live(u))
            BY Zenon, <1>6, <1>7 DEF Records
        <2> QED BY Zenon, <2>1, <2>2, <2>3
    <1>10. Apart(u.free, Live(u))
        <2>1. \A k \in Live(t) : t.free[k] \cap left = {}
            BY <1>5 DEF Parts, Records, left
        <2> QED BY Zenon, <1>5, <1>6, <1>7, <2>1 DEF Apart
    <1>11. Parts(Pages(t), Records(t.free, Live(t))
             \cup left, t.free_pgs, {}, {}, {}, 2..(t.next_pgno - 1))
        BY Zenon, <1>5 DEF Parts, left
    <1>12. Pages(u) = Pages(t) /\ Loose(u) = {} /\ OnceLoose(u)
        BY <1>1 DEF Pages, Loose, OnceLoose
    <1>13. Placed(u)
        BY Zenon, <1>1, <1>5, <1>9, <1>10, <1>11, <1>12 DEF Placed, PlacedBut
    <1>14. TxnType(u)
        <2>1. u.free \in [TxnId -> SUBSET Pgno]
            BY Zenon, <1>3, <1>4, <1>6 DEF left
        <2> QED BY <1>1, <1>2, <2>1 DEF TxnType
    <1>15. Books(u)
        <2>1. \A k \in TxnId : k > t.id => u.free[k] = {}
            BY <1>2, <1>3, <1>6 DEF Books
        <2>2. u.free[t.id] = t.saved
            BY <1>2, <1>3, <1>6 DEF Books
        <2> QED BY Zenon, <1>1, <1>2, <1>12, <2>1, <2>2 DEF Books
    <1>16. u.free[0] = {}
        <2>1. 0 \in TxnId
            BY LmdbAssumption DEF TxnId
        <2>2. CASE t.pglast = 0
            <3>1. t.loaded = FALSE /\ t.pghead = {}
                BY <1>2, <2>2 DEF TxnType, Books
            <3>2. Loose(t) = {}
                BY <3>1 DEF Loose
            <3> QED BY Zenon, <1>6, <2>2, <3>1, <3>2 DEF left
        <2>3. CASE t.pglast # 0
            BY <1>2, <1>3, <1>6, <2>1, <2>3 DEF Emptied
        <2> QED BY Zenon, <2>2, <2>3
    <1>17. Settled(u)
        BY Zenon, <1>1, <1>13, <1>14, <1>15, <1>16 DEF Settled
    <1>18. ASSUME NEW m, TxnSpares(t, m) PROVE TxnSpares(u, m)
        <2>1. left \cap Pages(m) = {} /\ u.dirty \cap Pages(m) = {}
            BY Zenon, <1>2, <1>18 DEF TxnSpares, Books, left
        <2>2. \A k \in TxnId : k <= m.txnid => u.free[k] \cap Pages(m) = {}
            BY Zenon, <1>6, <1>18, <2>1 DEF TxnSpares, Spares
        <2> QED BY Zenon, <1>1, <1>18, <2>1, <2>2 DEF TxnSpares, Spares
    <1>19. ASSUME NEW n \in Position, t.root[n] # NoPage
           PROVE  t.root[n] \in u.dirty <=> t.root[n] \in t.dirty
        <2>1. t.root[n] \in Pages(t)
            BY Zenon, <1>19 DEF Pages
        <2> QED BY Zenon, <1>5, <2>1 DEF Parts
    <1>20. \A c, tr : Written(t, c, tr) => Written(u, c, tr)
        BY Zenon, <1>1, <1>19 DEF Written
    <1> QED BY Zenon, <1>17, <1>18, <1>20

\* A database is what a settled transaction leaves.
LEMMA SettledWhole ==
    ASSUME NEW t, Settled(t), NEW m,
           m = [txnid |-> t.id, root |-> t.root, last_pg |-> t.next_pgno - 1,
                free |-> t.free, by |-> t.by]
    PROVE  /\ Whole(m) /\ m \in Meta /\ m.txnid = t.id
           /\ \A a : a.txnid <= t.id /\ TxnSpares(t, a) => Follows(m, a)
           /\ \A c, tr : t.dirty = {} /\ Written(t, c, tr) => Intact(m, c)
    <1>1. /\ m.txnid = t.id /\ m.root = t.root /\ m.last_pg = t.next_pgno - 1 /\ m.free = t.free
          /\ m.by = t.by
        BY Zenon
    <1>2. TxnType(t) /\ Placed(t) /\ Books(t)
        BY Zenon DEF Settled
    <1>3. /\ t.id \in TxnId /\ t.id \in Nat /\ t.free \in [TxnId -> SUBSET Pgno]
          /\ t.next_pgno \in Nat \ 0..1
          /\ \A k \in TxnId : k \in Nat
        BY <1>2 DEF TxnType, TxnId
    <1>4. m \in Meta
        BY <1>2, <1>3 DEF Meta, TxnType
    <1> HIDE DEF Meta
    <1>5. /\ Parts(Pages(t), Records(t.free, Live(t)), t.free_pgs, {}, {}, {}, 2..(t.next_pgno - 1))
          /\ Apart(t.free, Live(t)) /\ OnePosition(t.root)
        <2>1. Loose(t) = {} /\ t.pghead = {}
            BY DEF Settled, Loose
        <2> QED BY Zenon, <1>2, <2>1 DEF Placed, PlacedBut
    <1>6. Live(t) = {k \in TxnId : k # t.id} /\ t.free[t.id] = t.free_pgs
        BY <1>2, <1>3 DEF Live, Settled, Books, TxnType, TxnId
    <1>7. Records(t.free, TxnId) = Records(t.free, Live(t)) \cup t.free_pgs
        <2>1. \A pg \in Records(t.free, TxnId) : pg \in Records(t.free, Live(t)) \cup t.free_pgs
            BY Zenon, <1>6 DEF Records
        <2>2. \A pg \in Records(t.free, Live(t)) \cup t.free_pgs : pg \in Records(t.free, TxnId)
            BY Zenon, <1>3, <1>6 DEF Records
        <2> QED BY Zenon, <2>1, <2>2
    <1>8. Apart(t.free, TxnId)
        <2>1. \A k \in Live(t) : t.free[k] \cap t.free[t.id] = {}
            BY <1>5, <1>6 DEF Parts, Records
        <2> QED BY Zenon, <1>5, <1>6, <2>1 DEF Apart
    <1>9. Pages(m) = Pages(t)
        BY Zenon, <1>1 DEF Pages
    <1>10. /\ Pages(t) \cup Records(t.free, TxnId) = 2..(t.next_pgno - 1)
           /\ Pages(t) \cap Records(t.free, TxnId) = {}
        BY Zenon, <1>5, <1>7 DEF Parts
    <1>11. \A k \in TxnId : k = 0 \/ k > t.id => t.free[k] = {}
        BY Zenon, <1>2 DEF Books, Settled
    <1>12. Whole(m)
        <2>1. t.next_pgno - 1 >= 1
            BY <1>3
        <2> QED BY Zenon, <1>1, <1>5, <1>8, <1>9, <1>10, <1>11, <2>1 DEF Whole, Settled
    <1>13. t.next_pgno - 1 + 1 = t.next_pgno
        BY <1>3
    <1>14. \A a : a.txnid <= t.id /\ TxnSpares(t, a) => Follows(m, a)
        BY Zenon, <1>1, <1>13 DEF TxnSpares, Follows
    <1>15. \A c, tr : t.dirty = {} /\ Written(t, c, tr) => Intact(m, c)
        BY Zenon, <1>1 DEF Written, Intact
    <1> QED BY Zenon, <1>1, <1>4, <1>12, <1>14, <1>15

\* A transaction begins with the pages of the database.
LEMMA BeginGood ==
    ASSUME NEW m \in Meta, Whole(m), NEW id \in TxnId, id = m.txnid + 1, NEW t, Begun(t, m, id)
    PROVE  /\ Good(t) /\ Growing(t) /\ t.id = id /\ t.error = FALSE
           /\ \A a : Follows(m, a) => TxnSpares(t, a)
           /\ \A c, tr : Intact(m, c) => Written(t, c, tr)
    <1>1. /\ DOMAIN t = Fields /\ t.id = id /\ t.root = m.root /\ t.free = m.free /\ t.by = m.by
          /\ t.next_pgno = m.last_pg + 1 /\ t.free_pgs = {} /\ t.loaded = FALSE /\ t.pghead = {}
          /\ t.pglast = 0 /\ t.loose = <<>> /\ t.dirty = {} /\ t.todo = <<>> /\ t.drop = NoNode
          /\ t.error = FALSE /\ t.trimmed = 0 /\ t.saved = {}
        BY DEF Begun, NoTransaction, Fields
    <1>2. /\ m.root \in [Position -> Pgno \cup {NoPage}] /\ m.by \in [Position -> 0..MaxEvents]
          /\ m.free \in [TxnId -> SUBSET Pgno] /\ m.last_pg \in Nat /\ m.txnid \in Nat
        BY DEF Meta, TxnId
    <1>3. 0 \in TxnId /\ id \in Nat /\ id # 0 /\ \A k \in TxnId : k \in Nat
        BY <1>2, LmdbAssumption DEF TxnId
    <1>4. m.last_pg + 1 \in Nat \ 0..1 /\ (m.last_pg + 1) - 1 = m.last_pg
        BY <1>2 DEF Whole
    <1>5. TxnType(t)
        <2>0. <<>> \in Seq(Pgno) /\ <<>> \in Seq(Position)
            OBVIOUS
        <2>1. t.loose \in Seq(Pgno) /\ t.todo \in Seq(Position)
            BY Zenon, <1>1, <2>0
        <2> QED BY Zenon, <1>1, <1>2, <1>3, <1>4, <2>1 DEF TxnType
    <1>6. ASSUME NEW k \in TxnId, k = 0 \/ k >= id PROVE m.free[k] = {}
        <2>0. k \in Nat /\ m.txnid \in Nat
            BY Zenon, <1>2, <1>3
        <2>1. k = 0 \/ k > m.txnid
            BY <1>6, <2>0
        <2> QED BY Zenon, <2>1 DEF Whole
    <1>7. Loose(t) = {} /\ OnceLoose(t)
        BY <1>1 DEF Loose, OnceLoose
    <1>8. Books(t)
        <2>1. \A k \in TxnId : k > id => m.free[k] = {}
            BY <1>3, <1>6
        <2>2. m.free[id] = {}
            BY <1>3, <1>6
        <2>3. 0 <= 0 /\ 0 < id /\ ~(0 > 0)
            BY <1>3
        <2> QED BY Zenon, <1>1, <1>7, <2>1, <2>2, <2>3 DEF Books
    <1>9. Emptied(t)
        BY <1>1, <1>3, <1>6 DEF Emptied
    <1>10. Live(t) = {k \in TxnId : k # id}
        BY <1>1 DEF Live
    <1>11. Records(m.free, Live(t)) = Records(m.free, TxnId)
        <2>1. \A pg \in Records(m.free, Live(t)) : pg \in Records(m.free, TxnId)
            BY Zenon, <1>10 DEF Records
        <2>2. m.free[id] = {}
            BY <1>3, <1>6
        <2>3. \A pg \in Records(m.free, TxnId) : pg \in Records(m.free, Live(t))
            BY Zenon, <1>10, <2>2 DEF Records
        <2> QED BY Zenon, <2>1, <2>3
    <1>12. Apart(m.free, Live(t))
        BY Zenon, <1>10 DEF Whole, Apart
    <1>13. Pages(t) = Pages(m)
        BY <1>1 DEF Pages
    <1>14. Parts(Pages(m), Records(m.free, TxnId), {}, {}, {}, {}, 2..m.last_pg)
        BY Zenon DEF Whole, Parts
    <1>15. Placed(t)
        BY Zenon, <1>1, <1>4, <1>7, <1>11, <1>12, <1>13, <1>14 DEF Placed, PlacedBut, Whole
    <1>16. Growing(t)
        <2>1. Shaped(t)
            BY Zenon, <1>1, ShapedDone DEF Whole
        <2> QED BY Zenon, <1>1, <2>1 DEF Growing
    <1>17. \A a : Follows(m, a) => TxnSpares(t, a)
        BY Zenon, <1>1 DEF Follows, TxnSpares
    <1>18. \A c, tr : Intact(m, c) => Written(t, c, tr)
        BY Zenon, <1>1 DEF Intact, Written
    <1> QED BY Zenon, <1>1, <1>5, <1>8, <1>9, <1>15, <1>16, <1>17, <1>18 DEF Good

\* A page that is written belongs to no tree that is spared, and is no longer dirty.
LEMMA FlushGood ==
    ASSUME NEW t, NEW u, Settled(t), NEW pg \in t.dirty, SameBut(t, u, {"dirty"}),
           u.dirty = t.dirty \ {pg},
           NEW c, NEW tr, NEW d, Stored(t, pg, c, d, tr)
    PROVE  /\ Settled(u) /\ u.id = t.id /\ u.error = t.error
           /\ \A m : TxnSpares(t, m) => TxnSpares(u, m)
           /\ \A m : TxnSpares(t, m) /\ Pages(m) \subseteq Pgno /\ Intact(m, c) => Intact(m, d)
           /\ Written(t, c, tr) => Written(u, d, tr)
    <1>1. /\ DOMAIN u = Fields /\ u.id = t.id /\ u.root = t.root /\ u.by = t.by /\ u.free = t.free
          /\ u.free_pgs = t.free_pgs /\ u.trimmed = t.trimmed /\ u.drop = t.drop
          /\ u.saved = t.saved
          /\ u.next_pgno = t.next_pgno /\ u.loaded = t.loaded /\ u.pghead = t.pghead
          /\ u.pglast = t.pglast /\ u.todo = t.todo /\ u.error = t.error /\ u.loose = t.loose
        BY Zenon DEF SameBut, Fields
    <1>2. TxnType(t) /\ Placed(t) /\ Books(t) /\ Loose(t) = {} /\ OnePosition(t.root) /\ pg \in Pgno
        <2>1. t.loose = <<>> => Loose(t) = {}
            BY DEF Loose
        <2>2. TxnType(t) /\ Placed(t) /\ Books(t) /\ t.loose = <<>>
            BY Zenon DEF Settled
        <2>3. OnePosition(t.root) /\ t.dirty \subseteq Pgno
            BY Zenon, <2>2 DEF Placed, PlacedBut, TxnType
        <2> QED BY Zenon, <2>1, <2>2, <2>3
    <1>3. /\ Pages(u) = Pages(t) /\ Live(u) = Live(t) /\ Loose(u) = Loose(t)
          /\ (OnceLoose(t) => OnceLoose(u))
        BY <1>1 DEF Pages, Live, Loose, OnceLoose
    <1>4. Placed(u)
        BY Zenon, <1>1, <1>2, <1>3 DEF Placed, PlacedBut
    <1>5. TxnType(u)
        BY Zenon, <1>1, <1>2 DEF TxnType
    <1>6. Books(u)
        <2>1. Loose(u) \subseteq u.dirty
            BY Zenon, <1>2, <1>3
        <2> QED BY Zenon, <1>1, <1>2, <2>1 DEF Books
    <1>7. Settled(u)
        BY Zenon, <1>1, <1>4, <1>5, <1>6 DEF Settled
    <1>8. \A m : TxnSpares(t, m) => TxnSpares(u, m)
        BY Zenon, <1>1 DEF TxnSpares
    <1> HIDE DEF Pgno
    <1>9. ASSUME NEW m, TxnSpares(t, m), Pages(m) \subseteq Pgno, Intact(m, c) PROVE Intact(m, d)
        <2>1. ASSUME NEW n \in Position, m.root[n] # NoPage PROVE d[m.root[n]] = c[m.root[n]]
            <3>1. m.root[n] \in Pages(m)
                BY Zenon, <2>1 DEF Pages
            <3>2. m.root[n] # pg /\ m.root[n] \in Pgno
                BY Zenon, <1>9, <3>1 DEF TxnSpares
            <3> QED BY Zenon, <3>2 DEF Stored
        <2> QED BY Zenon, <1>9, <2>1 DEF Intact
    <1>10. ASSUME Written(t, c, tr) PROVE Written(u, d, tr)
        <2> SUFFICES ASSUME NEW n \in Position, t.root[n] # NoPage
                     PROVE  /\ t.root[n] \in u.dirty => t.by[n] = tr
                            /\ t.root[n] \notin u.dirty =>
                                   d[t.root[n]] = [node |-> n, try |-> t.by[n]]
            BY Zenon, <1>1 DEF Written
        <2>1. /\ t.root[n] \in t.dirty => t.by[n] = tr
              /\ t.root[n] \notin t.dirty => c[t.root[n]] = [node |-> n, try |-> t.by[n]]
            BY Zenon, <1>10 DEF Written
        <2>2. t.root[n] \in Pgno
            BY Zenon, <1>2 DEF TxnType
        <2>3. CASE t.root[n] = pg
            BY Zenon, <2>1, <2>3 DEF Stored
        <2>4. CASE t.root[n] # pg
            BY Zenon, <2>1, <2>2, <2>4 DEF Stored
        <2> QED BY Zenon, <2>3, <2>4
    <1> QED BY Zenon, <1>1, <1>7, <1>8, <1>9, <1>10

=============================================================================
