----------------------------- MODULE LmdbStore -----------------------------
(***************************************************************************)
(* The pages, the meta pages and the lock file together are a store of     *)
(* snapshots.  A version is what a meta page leads to.  What was published *)
(* is in the lock file while some process has it open.                     *)
(***************************************************************************)
EXTENDS Lmdb

Deref(m, pages) == [id |-> m.txnid, val |-> Tree(m, pages)]

Store == INSTANCE Snapshots WITH
    Procs <- Readers,
    Value <- [Position -> Content],
    NoView <- NoProc,
    cur <- Deref(Newest(metas), cache),
    prior <- Deref(Older(metas), cache),
    saved <- Deref(Newest(dmetas), disk),
    published <- IF \A p \in Procs : env[p].pc = "closed" THEN Newest(metas).txnid ELSE mti_txnid,
    floor <- [p \in Readers |-> env[p].floor],
    view <- [p \in Readers |-> IF env[p].pc = "read" THEN Deref(env[p].meta, cache) ELSE NoProc]

\* Transactions are atomic, isolated and durable: each read transaction sees one
\* committed version, not older than what was committed when it began, and a
\* system crash undoes at most the last commit, if it was not saved.
ImplementsSnapshots == Store!Spec
=============================================================================
