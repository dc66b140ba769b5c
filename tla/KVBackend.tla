------------------------------ MODULE KVBackend ------------------------------
(***************************************************************************)
(* The storage node's KV backend (src/src/log/db.cpp) across the life of   *)
(* its process: RocksDBBackend (one column family per logspace, named by   *)
(* the logspace id in hex) and TkrzwDBMBackend (one DBM file per           *)
(* logspace).  What is on disk survives a crash or a restart; the handles  *)
(* the process opened (column_families_ / dbs_) do not.                    *)
(*                                                                         *)
(* The storage node around the backend (StorageBase, not under src/) is    *)
(* modelled from spec.md 3, 4.3 and 6: it chooses the backend at startup,  *)
(* installs each logspace it serves once per process, reads and flushes    *)
(* batches, may be killed or shut down, and a supervisor restarts it with  *)
(* the same data directory.  The disk may fail an operation, at most       *)
(* MaxFaults times.  Row contents are model values; the hex key encoding   *)
(* is injective and left out.                                              *)
(***************************************************************************)
EXTENDS Naturals

CONSTANTS
    Logspaces,      \* logspace ids
    Keys,           \* row keys (sequence numbers)
    Values,         \* row contents
    None,           \* no row / nullopt
    MaxFaults,      \* disk operations that fail
    MaxRestarts     \* restarts by the supervisor

ASSUME None \notin Values

Backends == {"rocksdb", "tkrzw"}
Procs == {"starting", "up", "down"}
Reasons == {"io", "open", "create"}
Rows == [Logspaces -> [Keys -> Values \cup {None}]]
Reads == [ls: Logspaces \cup {None}, key: Keys \cup {None},
          res: Values \cup {None}]

\* A batch: some keys of one logspace and the contents written to them.
Batches == UNION {[K -> Values] : K \in SUBSET Keys \ {{}}}

VARIABLES
    backend,    \* the backend chosen by storage_backend
    disk,       \* rows on disk
    onDisk,     \* logspaces with a column family / DBM file on disk
    proc,       \* the storage process: "starting", "up", "down"
    handles,    \* column_families_ / dbs_ of the running process
    fatals,     \* reasons of every LOG(FATAL) the backend has raised
    read,       \* the last Get and its result
    faults, restarts

vars == <<backend, disk, onDisk, proc, handles, fatals, read, faults,
          restarts>>

TypeOK ==
    /\ backend \in Backends /\ disk \in Rows /\ onDisk \subseteq Logspaces
    /\ proc \in Procs /\ handles \subseteq onDisk /\ fatals \subseteq Reasons
    /\ read \in Reads /\ faults \in 0..MaxFaults /\ restarts \in 0..MaxRestarts

Init ==
    /\ backend \in Backends
    /\ disk = [l \in Logspaces |-> [k \in Keys |-> None]]
    /\ onDisk = {} /\ proc = "starting" /\ handles = {} /\ fatals = {}
    /\ read = [ls |-> None, key |-> None, res |-> None]
    /\ faults = 0 /\ restarts = 0

\* ROCKSDB_CHECK_OK / TKRZW_CHECK_OK on a failed status: LOG(FATAL) ends
\* the process and its handles with it.
Fatal(reason) ==
    /\ proc' = "down" /\ handles' = {}
    /\ fatals' = fatals \cup {reason}

\* The disk fails this operation.
DiskFault == faults < MaxFaults /\ faults' = faults + 1

\* GetCFHandle / GetDBM: the logspace was installed by this process.
Installed(l) == l \in handles

WriteRows(l, b) ==
    [disk EXCEPT ![l] = [k \in Keys |-> IF k \in DOMAIN b THEN b[k] ELSE @[k]]]

-----------------------------------------------------------------------------
(* RocksDBBackend                                                          *)

\* The constructor: DB::Open with create_if_missing and no list of column
\* families, which opens the default column family only and fails when
\* the database holds any other.
RocksDBOpen ==
    IF onDisk = {}
       THEN proc' = "up" /\ UNCHANGED <<handles, fatals>>
       ELSE Fatal("open")

\* CreateColumnFamily fails when the family already exists.
RocksDBInstall(l) ==
    IF l \in onDisk
       THEN Fatal("create") /\ UNCHANGED onDisk
       ELSE /\ onDisk' = onDisk \cup {l} /\ handles' = handles \cup {l}
            /\ UNCHANGED <<proc, fatals>>

\* db_->Get: NotFound is nullopt, any other error is fatal.
RocksDBGet(l, k) ==
    \/ /\ read' = [ls |-> l, key |-> k, res |-> disk[l][k]]
       /\ UNCHANGED <<proc, handles, fatals, faults>>
    \/ DiskFault /\ Fatal("io") /\ UNCHANGED read

\* One WriteBatch: all its rows are written, or none and the write is fatal.
RocksDBPutBatch(l, b) ==
    \/ disk' = WriteRows(l, b) /\ UNCHANGED <<proc, handles, fatals, faults>>
    \/ DiskFault /\ Fatal("io") /\ UNCHANGED disk

-----------------------------------------------------------------------------
(* TkrzwDBMBackend (hash, tree and skip DBMs behave alike here)            *)

\* The constructor only records the type and the path.
TkrzwOpen == proc' = "up" /\ UNCHANGED <<handles, fatals>>

\* OpenAdvanced(writable, OPEN_DEFAULT) creates the file or reopens it with
\* its rows.
TkrzwInstall(l) ==
    /\ onDisk' = onDisk \cup {l} /\ handles' = handles \cup {l}
    /\ UNCHANGED <<proc, fatals>>

\* dbm->Get: every status other than OK, the errors included, is nullopt.
TkrzwGet(l, k) ==
    /\ UNCHANGED <<proc, handles, fatals>>
    /\ \/ /\ read' = [ls |-> l, key |-> k, res |-> disk[l][k]]
          /\ UNCHANGED faults
       \/ DiskFault /\ read' = [ls |-> l, key |-> k, res |-> None]

\* SetMulti: a failure is fatal, and the library promises nothing about
\* which rows of the batch it had already set.
TkrzwPutBatch(l, b) ==
    \/ disk' = WriteRows(l, b) /\ UNCHANGED <<proc, handles, fatals, faults>>
    \/ /\ DiskFault /\ Fatal("io")
       /\ \E K \in SUBSET DOMAIN b :
             disk' = WriteRows(l, [k \in K |-> b[k]])

-----------------------------------------------------------------------------
(* The LogDB interface as the storage node calls it.                       *)

Open ==
    /\ proc = "starting"
    /\ IF backend = "rocksdb" THEN RocksDBOpen ELSE TkrzwOpen
    /\ UNCHANGED <<backend, disk, onDisk, read, faults, restarts>>

\* The node installs a logspace once per process (DCHECK(!contains)).
InstallLogSpace(l) ==
    /\ proc = "up" /\ ~Installed(l)
    /\ IF backend = "rocksdb" THEN RocksDBInstall(l) ELSE TkrzwInstall(l)
    /\ UNCHANGED <<backend, disk, read, faults, restarts>>

\* A logspace not installed: nullopt (Get) or an error log (PutBatch).
Get(l, k) ==
    /\ proc = "up"
    /\ IF ~Installed(l)
          THEN /\ read' = [ls |-> l, key |-> k, res |-> None]
               /\ UNCHANGED <<proc, handles, fatals, faults>>
       ELSE IF backend = "rocksdb" THEN RocksDBGet(l, k) ELSE TkrzwGet(l, k)
    /\ UNCHANGED <<backend, disk, onDisk, restarts>>

PutBatch(l, b) ==
    /\ proc = "up"
    /\ IF ~Installed(l)
          THEN UNCHANGED <<disk, proc, handles, fatals, faults>>
       ELSE IF backend = "rocksdb" THEN RocksDBPutBatch(l, b)
       ELSE TkrzwPutBatch(l, b)
    /\ UNCHANGED <<backend, onDisk, read, restarts>>

\* A clean shutdown runs the destructor, which closes every DBM (the
\* RocksDB one closes the DB through db_).
Shutdown ==
    /\ proc = "up"
    /\ proc' = "down" /\ handles' = {}
    /\ UNCHANGED <<backend, disk, onDisk, fatals, read, faults, restarts>>

\* The process is killed: what it had open is gone, the disk stays.
Crash ==
    /\ proc \in {"starting", "up"}
    /\ proc' = "down" /\ handles' = {}
    /\ UNCHANGED <<backend, disk, onDisk, fatals, read, faults, restarts>>

\* The supervisor starts the node again on the same data directory.
Restart ==
    /\ proc = "down" /\ restarts < MaxRestarts
    /\ proc' = "starting" /\ restarts' = restarts + 1
    /\ UNCHANGED <<backend, disk, onDisk, handles, fatals, read, faults>>

Next ==
    \/ Open \/ Shutdown \/ Crash \/ Restart
    \/ \E l \in Logspaces :
          \/ InstallLogSpace(l)
          \/ \E k \in Keys : Get(l, k)
          \/ \E b \in Batches : PutBatch(l, b)

Spec == Init /\ [][Next]_vars

-----------------------------------------------------------------------------
\* Crash recovery (spec.md 4.3: the backend is crash-safe for durable
\* writes; 6: after a fatal error a supervisor restarts the node): the
\* backend aborts the process only when the disk fails an operation, never
\* because it cannot open or re-create what it wrote itself, so a node
\* restarted on its data directory comes back with its records.
OpensItsOwnData == fatals \subseteq {"io"}

====
