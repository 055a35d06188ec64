----------------------------- MODULE PagedCache -----------------------------
(***************************************************************************)
(* The SQLite page cache (src/core/paged_cache.cpp): opening one database  *)
(* file under its lock file, schema bootstrap, recovery of abandoned batch *)
(* markers, and commitBatch with its marker, transaction and cleanup.      *)
(*                                                                         *)
(* One step is one statement that SQLite carries out, or one change of the *)
(* lock file.  Any statement may fail.  A process may be killed between    *)
(* any two steps: its connection and its transaction are gone, its lock    *)
(* file stays behind and is found stale.  The lock file (QLockFile) and    *)
(* SQLite are external: autocommit and COMMIT are atomic and durable       *)
(* against a process crash; sudden power loss is not modelled.             *)
(***************************************************************************)
EXTENDS Naturals, PageStore

CONSTANTS Owners,      \* cache instances, each on its own thread
          Namespaces,
          Batches,     \* validated page sets: distinct keys, none empty
          Idle, NoOwner, NoTx,
          MaxTokens,   \* bound: commitBatch calls explored
          MaxCrashes   \* bound: process deaths explored

ASSUME BatchesAssumption ==
  /\ Batches \subseteq UNION {[K -> Values] : K \in SUBSET Keys \ {{}}}
  /\ NoOwner \notin Owners
  /\ Idle \notin [space : Namespaces, batch : Batches]

ASSUME BoundsAssumption == MaxTokens \in Nat /\ MaxCrashes \in Nat

VARIABLES
  disk,        \* the committed database: schema, namespaces, pages, markers
  lockOwner,   \* who the lock file names, or NoOwner
  lockStale,   \* ... and whether that process is dead
  pc,          \* what each instance does next
  space,       \* its namespace
  conn,        \* whether its SQL connection exists
  tx,          \* its open transaction: the database as it would become
  call,        \* the batch it is committing, with its namespace
  todo,        \* the keys of the batch still to be written
  token,       \* the marker token of its latest batch
  tokens,      \* how many tokens have been drawn (QUuid: never the same twice)
  crashes,
  committed,   \* history: tokens whose batch has been committed
  interrupted  \* history: tokens cut off by a crash and not yet recovered

diskVars  == <<disk, tx>>
lockVars  == <<lockOwner, lockStale>>
batchVars == <<call, todo, token, tokens>>
history   == <<committed, interrupted>>
cacheVars == <<diskVars, lockVars, pc, space, conn, batchVars, crashes, history>>

Tokens == 1..MaxTokens

Disk == [schema : {"empty", "version1", "foreign"},
         registered : SUBSET Namespaces,
         pages : [Namespaces -> [Keys -> Stored]],
         markers : SUBSET Tokens]

Steps == {"closed", "connect", "inspect", "initialize", "initCommit", "recover",
          "recoverCommit", "open", "begin", "write", "deleteMarker", "commit",
          "rollback", "unmark", "disconnect", "unlock"}

TransactionSteps == {"initCommit", "recoverCommit", "write", "deleteMarker",
                     "commit", "rollback"}

Calls == [space : Namespaces, batch : Batches]

(* Types, and no transaction outlives the operation that began it.         *)
CacheTypeOK ==
  /\ disk \in Disk
  /\ lockOwner \in Owners \cup {NoOwner} /\ lockStale \in BOOLEAN
  /\ pc \in [Owners -> Steps]
  /\ space \in [Owners -> Namespaces]
  /\ conn \in [Owners -> BOOLEAN]
  /\ tx \in [Owners -> Disk \cup {NoTx}]
  /\ \A p \in Owners : tx[p] # NoTx => pc[p] \in TransactionSteps
  /\ call \in [Owners -> Calls \cup {Idle}]
  /\ todo \in [Owners -> SUBSET Keys]
  /\ token \in [Owners -> 0..MaxTokens] /\ tokens \in 0..MaxTokens
  /\ crashes \in 0..MaxCrashes
  /\ committed \subseteq Tokens /\ interrupted \subseteq Tokens

NoPages == [n \in Namespaces |-> [k \in Keys |-> Missing]]

(* A missing or empty file, or a database of another application.          *)
CacheInit ==
  /\ \E s \in {"empty", "foreign"} :
        disk = [schema |-> s, registered |-> {}, pages |-> NoPages, markers |-> {}]
  /\ lockOwner = NoOwner /\ lockStale = FALSE
  /\ pc = [p \in Owners |-> "closed"]
  /\ space \in [Owners -> Namespaces]
  /\ conn = [p \in Owners |-> FALSE]
  /\ tx = [p \in Owners |-> NoTx]
  /\ call = [p \in Owners |-> Idle]
  /\ todo = [p \in Owners |-> {}]
  /\ token = [p \in Owners |-> 0] /\ tokens = 0
  /\ crashes = 0
  /\ committed = {} /\ interrupted = {}

Goto(p, step) == pc' = [pc EXCEPT ![p] = step]

-----------------------------------------------------------------------------
(* PagedCache::open.                                                       *)

(* QLockFile::tryLock: a lock whose process is dead is removed, a live one *)
(* never is, whatever its age.                                             *)
LockFree == lockOwner = NoOwner \/ lockStale

OpenLock(p) ==
  /\ pc[p] = "closed"
  /\ LockFree
  /\ lockOwner' = p
  /\ lockStale' = FALSE
  /\ \E n \in Namespaces : space' = [space EXCEPT ![p] = n]
  /\ Goto(p, "connect")
  /\ UNCHANGED <<diskVars, conn, batchVars, crashes, history>>

OpenConnection(p) ==
  /\ pc[p] = "connect"
  /\ \/ /\ conn' = [conn EXCEPT ![p] = TRUE]
        /\ Goto(p, "inspect")
     \/ /\ UNCHANGED conn
        /\ Goto(p, "disconnect")
  /\ UNCHANGED <<diskVars, lockVars, space, batchVars, crashes, history>>

(* Mutant: any database that is not new is taken for version 1.            *)
AfterInspection_TrustsAll ==
  IF disk.schema = "empty" THEN "initialize" ELSE "recover"

AfterInspection == CASE disk.schema = "empty"    -> "initialize"
                     [] disk.schema = "version1" -> "recover"
                     [] disk.schema = "foreign"  -> "disconnect"

(* application_id, user_version and the table count decide; then the       *)
(* connection is configured.  Either may fail.                             *)
Inspect(p) ==
  /\ pc[p] = "inspect"
  /\ Goto(p, AfterInspection) \/ Goto(p, "disconnect")
  /\ UNCHANGED <<diskVars, lockVars, space, conn, batchVars, crashes, history>>

(* BEGIN IMMEDIATE and the statements of a transaction, or the first of    *)
(* them that fails.                                                        *)
InTransaction(p, step, changed, next) ==
  /\ pc[p] = step
  /\ \/ /\ tx' = [tx EXCEPT ![p] = changed]
        /\ Goto(p, next)
     \/ /\ UNCHANGED tx
        /\ Goto(p, "disconnect")
  /\ UNCHANGED <<disk, lockVars, space, conn, batchVars, crashes, history>>

InitializeSchema(p) ==
  InTransaction(p, "initialize", [disk EXCEPT !.schema = "version1"], "initCommit")

InitCommit(p) ==
  /\ pc[p] = "initCommit"
  /\ \/ disk' = tx[p] /\ Goto(p, "recover")
     \/ UNCHANGED disk /\ Goto(p, "disconnect")
  /\ tx' = [tx EXCEPT ![p] = NoTx]
  /\ UNCHANGED <<lockVars, space, conn, batchVars, crashes, history>>

(* validateSchema and quickCheck pass or the open fails; then the markers  *)
(* of every namespace are counted and deleted and the namespace is         *)
(* registered, in one transaction.                                         *)
RecoverAndRegister(p) ==
  InTransaction(p, "recover",
                [disk EXCEPT !.markers = {}, !.registered = @ \cup {space[p]}],
                "recoverCommit")

RecoverCommit(p) ==
  /\ pc[p] = "recoverCommit"
  /\ \/ disk' = tx[p] /\ interrupted' = {} /\ Goto(p, "open")
     \/ UNCHANGED <<disk, interrupted>> /\ Goto(p, "disconnect")
  /\ tx' = [tx EXCEPT ![p] = NoTx]
  /\ UNCHANGED <<lockVars, space, conn, batchVars, crashes, committed>>

-----------------------------------------------------------------------------
(* PagedCache::commitBatch.  A batch outside the limits is refused before  *)
(* anything is touched and is no step.                                     *)

(* The marker is inserted by a statement of its own, outside the           *)
(* transaction.                                                            *)
WithMarker(t) == [disk EXCEPT !.markers = @ \cup {t}]

(* Mutant: the marker is left to the transaction.                          *)
RecordMarker_InTransaction(p, b) ==
  /\ pc[p] = "open"
  /\ tokens < MaxTokens
  /\ tokens' = tokens + 1
  /\ token' = [token EXCEPT ![p] = tokens']
  /\ call' = [call EXCEPT ![p] = [space |-> space[p], batch |-> b]]
  /\ todo' = [todo EXCEPT ![p] = DOMAIN b]
  /\ Goto(p, "begin")
  /\ UNCHANGED <<diskVars, lockVars, space, conn, crashes, history>>

RecordMarker(p, b) ==
  /\ pc[p] = "open"
  /\ tokens < MaxTokens
  /\ tokens' = tokens + 1
  /\ token' = [token EXCEPT ![p] = tokens']
  /\ disk' = WithMarker(tokens')
  /\ call' = [call EXCEPT ![p] = [space |-> space[p], batch |-> b]]
  /\ todo' = [todo EXCEPT ![p] = DOMAIN b]
  /\ Goto(p, "begin")
  /\ UNCHANGED <<tx, lockVars, space, conn, crashes, history>>

BeginImmediate(p) ==
  /\ pc[p] = "begin"
  /\ \/ tx' = [tx EXCEPT ![p] = disk] /\ Goto(p, "write")
     \/ UNCHANGED tx /\ Goto(p, "unmark")
  /\ UNCHANGED <<disk, lockVars, space, conn, batchVars, crashes, history>>

(* A failing statement may already have rolled the transaction back.       *)
FailInTransaction(p) ==
  /\ tx' \in {tx, [tx EXCEPT ![p] = NoTx]}
  /\ Goto(p, "rollback")

(* Mutant: each page is written by a statement of its own.                 *)
WritePage_Autocommit(p) ==
  /\ pc[p] = "write"
  /\ \/ \E k \in todo[p] :
          /\ disk' = [disk EXCEPT !.pages[space[p]][k] = call[p].batch[k]]
          /\ tx' = [tx EXCEPT ![p].pages[space[p]][k] = call[p].batch[k]]
          /\ todo' = [todo EXCEPT ![p] = @ \ {k}]
          /\ Goto(p, IF todo'[p] = {} THEN "deleteMarker" ELSE "write")
     \/ FailInTransaction(p) /\ UNCHANGED <<disk, todo>>
  /\ UNCHANGED <<lockVars, space, conn, call, token, tokens, crashes, history>>

WritePage(p) ==
  /\ pc[p] = "write"
  /\ \/ \E k \in todo[p] :
          /\ tx' = [tx EXCEPT ![p].pages[space[p]][k] = call[p].batch[k]]
          /\ todo' = [todo EXCEPT ![p] = @ \ {k}]
          /\ Goto(p, IF todo'[p] = {} THEN "deleteMarker" ELSE "write")
     \/ FailInTransaction(p) /\ UNCHANGED todo
  /\ UNCHANGED <<disk, lockVars, space, conn, call, token, tokens, crashes, history>>

(* Mutant: the marker is left for the cleanup after the commit.            *)
WithoutMarker_Later(d, t) == d

WithoutMarker(d, t) == [d EXCEPT !.markers = @ \ {t}]

DeleteMarker(p) ==
  /\ pc[p] = "deleteMarker"
  /\ \/ /\ tx' = [tx EXCEPT ![p] = WithoutMarker(@, token[p])]
        /\ Goto(p, "commit")
     \/ FailInTransaction(p)
  /\ UNCHANGED <<disk, lockVars, space, conn, batchVars, crashes, history>>

Commit(p) ==
  /\ pc[p] = "commit"
  /\ \/ /\ disk' = tx[p]
        /\ tx' = [tx EXCEPT ![p] = NoTx]
        /\ call' = [call EXCEPT ![p] = Idle]
        /\ committed' = committed \cup {token[p]}
        /\ Goto(p, "open")
     \/ FailInTransaction(p) /\ UNCHANGED <<disk, call, committed>>
  /\ UNCHANGED <<lockVars, space, conn, todo, token, tokens, crashes, interrupted>>

(* Mutant: the failed transaction is left open.                            *)
Rollback_Missing(p) ==
  /\ pc[p] = "rollback"
  /\ Goto(p, "unmark")
  /\ UNCHANGED <<diskVars, lockVars, space, conn, batchVars, crashes, history>>

Rollback(p) ==
  /\ pc[p] = "rollback"
  /\ tx' = [tx EXCEPT ![p] = NoTx]
  /\ Goto(p, "unmark")
  /\ UNCHANGED <<disk, lockVars, space, conn, batchVars, crashes, history>>

(* deletePendingMarker: best effort, its failure is not reported.          *)
DeletePendingMarker(p) ==
  /\ pc[p] = "unmark"
  /\ disk' \in {disk, [disk EXCEPT !.markers = @ \ {token[p]}]}
  /\ call' = [call EXCEPT ![p] = Idle]
  /\ todo' = [todo EXCEPT ![p] = {}]
  /\ Goto(p, "open")
  /\ UNCHANGED <<tx, lockVars, space, conn, token, tokens, crashes, history>>

-----------------------------------------------------------------------------
(* The destructor, and every failed open, in the order of destruction: the *)
(* connection is closed and removed before the lock file is released.      *)
(* Mutant: the lock file is released first.                                *)
Close_UnlocksFirst(p) ==
  /\ pc[p] = "open"
  /\ Goto(p, "unlock")
  /\ UNCHANGED <<diskVars, lockVars, space, conn, batchVars, crashes, history>>

Close(p) ==
  /\ pc[p] = "open"
  /\ Goto(p, "disconnect")
  /\ UNCHANGED <<diskVars, lockVars, space, conn, batchVars, crashes, history>>

Disconnect(p) ==
  /\ pc[p] = "disconnect"
  /\ conn' = [conn EXCEPT ![p] = FALSE]
  /\ Goto(p, "unlock")
  /\ UNCHANGED <<diskVars, lockVars, space, batchVars, crashes, history>>

Unlock(p) ==
  /\ pc[p] = "unlock"
  /\ lockOwner' = NoOwner
  /\ Goto(p, "closed")
  /\ UNCHANGED <<diskVars, lockStale, space, conn, batchVars, crashes, history>>

(* The process of the instance dies.                                       *)
Crash(p) ==
  /\ pc[p] # "closed"
  /\ crashes < MaxCrashes
  /\ crashes' = crashes + 1
  /\ lockStale' = TRUE
  /\ conn' = [conn EXCEPT ![p] = FALSE]
  /\ tx' = [tx EXCEPT ![p] = NoTx]
  /\ interrupted' = IF pc[p] \in {"begin", "write", "deleteMarker", "commit", "rollback", "unmark"}
                    THEN interrupted \cup {token[p]} ELSE interrupted
  /\ call' = [call EXCEPT ![p] = Idle]
  /\ todo' = [todo EXCEPT ![p] = {}]
  /\ Goto(p, "closed")
  /\ UNCHANGED <<disk, lockOwner, space, token, tokens, committed>>

Open(p) == \/ OpenLock(p) \/ OpenConnection(p) \/ Inspect(p)
           \/ InitializeSchema(p) \/ InitCommit(p)
           \/ RecoverAndRegister(p) \/ RecoverCommit(p)

CommitBatch(p) == \/ \E b \in Batches : RecordMarker(p, b)
                  \/ BeginImmediate(p) \/ WritePage(p) \/ DeleteMarker(p)
                  \/ Commit(p) \/ Rollback(p) \/ DeletePendingMarker(p)

CacheNext == \E p \in Owners :
           \/ Open(p) \/ CommitBatch(p)
           \/ Close(p) \/ Disconnect(p) \/ Unlock(p) \/ Crash(p)

CacheSpec == CacheInit /\ [][CacheNext]_cacheVars

-----------------------------------------------------------------------------
(* Properties.                                                             *)

(* At most one instance is connected to the database, and it holds a live  *)
(* lock: neither a failed open, a close, a crash nor a stale lock lets a   *)
(* second writer in while a connection still exists.                       *)
SingleConnection ==
  \A p \in Owners : conn[p] => /\ lockOwner = p /\ ~lockStale
                               /\ \A q \in Owners \ {p} : ~conn[q]

(* A marker on disk never names a batch whose pages are visible: the       *)
(* recovered count does not report a committed batch as incomplete.        *)
CommittedLeavesNoMarker == disk.markers \cap committed = {}

(* A batch cut off by a crash leaves its marker until some open has        *)
(* recovered it: the evidence of the interruption is never lost.           *)
InterruptionLeavesMarker == interrupted \subseteq disk.markers

(* A database with another application id or schema version is never       *)
(* written, whatever is done to it.                                        *)
ForeignUntouched == [][disk.schema = "foreign" => disk' = disk]_cacheVars

(* commitBatch is atomic and honest across statement failures, crashes and *)
(* reopening: it implements BatchStore.                                    *)
Atomic == INSTANCE BatchStore WITH pages <- disk.pages

AtomicBatches == Atomic!Spec
=============================================================================
