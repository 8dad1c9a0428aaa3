----------------------------- MODULE Federation -----------------------------
(* Work items of another project's database seen from this one: the        *)
(* commands that write its log, each in a transaction of its own, the      *)
(* export, the ingestion of an export into cross_project_ops, the rebuild  *)
(* of cross_project_work_items, and what the ready view makes of a link to *)
(* one of them.  Exports are files: they may arrive late, twice, in any    *)
(* order and cut short.                                                    *)
EXTENDS OpLog, SequencesExt

CONSTANTS
  Entity,   \* work items of the other project
  Name,     \* their identifiers: a deleted item's may be filed again
  States,   \* the statuses commands give
  MaxOps,   \* bound: operations of the other project
  MaxFiles  \* bound: exports

ASSUME FederationBounds ==
  /\ MaxOps \in Nat /\ MaxFiles \in Nat
  /\ NoContent \notin Name /\ Keep \notin Name
  /\ States \subseteq CanonicalStates

VARIABLES
  clock,   \* op_log_id_seq: the last lamport given out
  open,    \* ops of transactions that have not ended
  log,     \* op_log
  past,    \* the rows work_items has had of each item: the last is there now
  files,   \* exports ever taken, each a set of ops
  index,   \* cross_project_ops
  cache,   \* cross_project_work_items, by entity
  built    \* history: the index of the last rebuild that succeeded

federationVars == <<clock, open, log, past, files, index, cache, built>>

Op(e, type, status, content) ==
  [id |-> clock + 1, lamport |-> clock + 1, entity |-> e, type |-> type,
   status |-> status, content |-> content, diag |-> {}]

Ops(ops, e) == {o \in ops : o.entity = e}

(* work_items of the other project. *)
Row(e) == Last(past[e])
Live == {e \in Entity : Row(e) # Absent}

FederationInit ==
  /\ clock = 0 /\ open = {} /\ log = {} /\ files = {} /\ index = {} /\ built = {}
  /\ past = [e \in Entity |-> <<Absent>>]
  /\ cache = [e \in Entity |-> Absent]
-----------------------------------------------------------------------------
(* The other project.  A command locks its row, then takes the next        *)
(* lamport; ops of different items may commit in another order.            *)

Locked(e) == Ops(open, e) # {}

BeginTx(op) ==
  /\ clock < MaxOps
  /\ clock' = clock + 1
  /\ open' = open \cup {op}
  /\ UNCHANGED <<log, past, files, index, cache, built>>

File(e, n) ==
  /\ Ops(log \cup open, e) = {}
  /\ \A x \in Live : Row(x).content # n
  /\ \A o \in open : ~(o.type = "create" /\ o.content = n)
  /\ BeginTx(Op(e, "create", "open", n))

Command(e) ==
  /\ e \in Live /\ ~Locked(e)
  /\ \/ \E s \in States \ {Row(e).status} : BeginTx(Op(e, "set_status", s, Keep))
     \/ BeginTx(Op(e, "close", "closed", Keep))
     \/ BeginTx(Op(e, "tombstone", NoStatus, Keep))

Commit(op) ==
  /\ op \in open
  /\ open' = open \ {op} /\ log' = log \cup {op}
  /\ past' = [past EXCEPT ![op.entity] = Append(@, Fold(Ops(log', op.entity)))]
  /\ UNCHANGED <<clock, files, index, cache, built>>

Rollback(op) ==
  /\ op \in open
  /\ open' = open \ {op}
  /\ UNCHANGED <<clock, log, past, files, index, cache, built>>
-----------------------------------------------------------------------------

(* export_ops_jsonl: the whole history of the items in work_items. *)
Exported == {o \in log : o.entity \in Live}

Export ==
  /\ Cardinality(files) < MaxFiles
  /\ files' = files \cup {Exported}
  /\ UNCHANGED <<clock, open, log, past, index, cache, built>>

(* Mutant: lines are in no order, so what is left of a file is any part.   *)
ReadUnordered(f) == SUBSET f

(* What may be left of a file that was cut short: its lines are in lamport *)
(* order, and the line that was cut is skipped.                            *)
ReadAs(f) == {{o \in f : o.lamport <= k} : k \in 0..MaxOps}

(* ingest_jsonl_ops: an op that is there already stays as it is. *)
Ingested(ops) == index' = index \cup ops

(* ingest-ops of what is left of an export that somebody carried here.     *)
Ingest(f) ==
  /\ f \in files
  /\ \E ops \in ReadAs(f) : Ingested(ops)
  /\ UNCHANGED <<clock, open, log, past, files, cache, built>>

(* fold_cross_project_work_item: the kernel's fold, but for tombstones. *)
FoldCrossProject(ops) ==
  LET acc == FoldState(ops) IN IF acc.exists THEN Visible(acc) ELSE Absent

(* UNIQUE (source_project_slug, identifier): the row of a deleted item is  *)
(* still there when its identifier comes back under another entity.        *)
NamesCollide(rows) ==
  \E a, b \in Entity : a # b /\ rows[a] # Absent /\ rows[a].content = rows[b].content

(* rebuild_cross_project_cache: every item, in one transaction. *)
Rebuild ==
  LET rows == [e \in Entity |-> FoldCrossProject(Ops(index, e))]
  IN /\ ~NamesCollide(rows)
     /\ cache' = rows
     /\ built' = index
     /\ UNCHANGED <<clock, open, log, past, files, index>>

Cached(n) == {e \in Entity : cache[e].content = n}

(* Mutant: the view before migration 861. *)
BlocksUntilStarted(e) == cache[e].status \in {"open", "claimed"}

(* work_items_ready_v, of one row of the cache. *)
Blocks(e) == cache[e].status \notin IsTerminal

(* ready_work_items lists an item linked to these: a link to what is not   *)
(* cached dangles and holds nothing back.                                  *)
Ready(blockers) == \A n \in blockers : \A e \in Cached(n) : ~Blocks(e)

FederationNext ==
  \/ \E e \in Entity : Command(e) \/ \E n \in Name : File(e, n)
  \/ \E o \in open : Commit(o) \/ Rollback(o)
  \/ Export
  \/ \E f \in files : Ingest(f)
  \/ Rebuild

FederationSpec == FederationInit /\ [][FederationNext]_federationVars
-----------------------------------------------------------------------------
Copy(e) == INSTANCE LaggingCopy WITH
  Nothing <- Absent, past <- past[e],
  seen <- Cardinality(Ops(built, e)) + 1, copy <- cache[e]

(* Whatever exports arrive, in whatever order and however often, what is   *)
(* shown of an item is a state its own database gave it, and never an      *)
(* earlier one than was shown before.                                      *)
ImplementsLaggingCopy ==
  /\ \A e \in Entity : Copy(e)!Init
  /\ [][<<past, built, cache>>' # <<past, built, cache>> =>
         \A e \in Entity :
           [Copy(e)!Next]_<<past[e], Cardinality(Ops(built, e)), cache[e]>>]_federationVars

(* A known blocker holds our item back until it has been completed.        *)
CompletedBeforeReady ==
  \A n \in Name : \A e \in Cached(n) :
    Ready({n}) => \E k \in DOMAIN past[e] : past[e][k].status \in IsTerminal
=============================================================================
