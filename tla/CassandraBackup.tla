--------------------------- MODULE CassandraBackup ---------------------------
(***************************************************************************)
(* The Cassandra backup job: the playbook ansible/cassandra-backup.yml,    *)
(* its role cassandra-backup, and deploy/cassandra_backup.py, which the    *)
(* role runs on every node with --disablesnapshot.                         *)
(*                                                                         *)
(* The first play snapshots the nodes one after the other, so that their   *)
(* snapshots lie close together; the second copies every node's snapshot   *)
(* out of the data directory, drops it and uploads the copy.  Both name    *)
(* the snapshot after the day, and each looks at the clock for itself.     *)
(*                                                                         *)
(* A node's data is its version: the number of writes it has taken.        *)
(*                                                                         *)
(* azcopy, aws and gsutil do not agree on where the files of a folder go:  *)
(* under its name, which holds the node's and the day's, or straight under *)
(* the path all nodes and days share.  There the files of one node add up, *)
(* and overwrite those of another that have the same name, as the files of *)
(* a table often do: which of them do is left open.                        *)
(***************************************************************************)
EXTENDS Integers

CONSTANTS Nodes,
          AllTables,      \* every table with a directory in the data
          Ignored,        \* those of the keyspaces ignore_keyspaces lists
          Providers,      \* values of cloud_service_provider
          SharedPath,     \* cloud_storage_cassandrabackup_foldername itself
          Nowhere,        \* no destination
          MaxDay,         \* bound: last day of the behaviour
          MaxWrites,      \* bound: writes a node takes
          MaxJobs,        \* bound: times the job is started
          MaxFaults       \* bound: commands and copies that fail

ASSUME ProviderAssumption == Providers \subseteq {"azure", "aws", "gcloud"}
ASSUME DayAssumption == MaxDay \in Nat
ASSUME WritesAssumption == MaxWrites \in Nat
ASSUME JobsAssumption == MaxJobs \in Nat
ASSUME FaultsAssumption == MaxFaults \in Nat

Tables == AllTables \ Ignored
Days == 0 .. MaxDay
Versions == 0 .. MaxWrites
None == -1
Incomplete == -2   \* a table's directory that lacks some of its files

Folders == (Nodes \X Days) \union {SharedPath}
ASSUME FolderAssumption == /\ SharedPath \notin Nodes \X Days
                           /\ Nowhere \notin Folders

VARIABLES day,        \* the controller's clock
          data,       \* node -> version of its live data
          snapshots,  \* node -> day in the snapshot's name -> its version
          job,        \* where the playbook stands
          jobs,       \* how often it has been started
          task,       \* node -> the task it is at
          name,       \* node -> cassandra_backup_folder_name: its day
          pool,       \* node -> tables whose copy is submitted, not ended
          dir,        \* node -> table -> what the backup directory holds
          provider,   \* cloud_service_provider
          cloud,      \* the copies of tables that have been uploaded
          pathExists, \* something lies under the shared path
          destination,  \* node -> folder its upload goes to
          faults,
          taken,      \* history: node -> version this job snapshotted
          takenOn,    \* history: node -> day in that snapshot's name
          lost,       \* history: nodes where a copy failed in this job
          opening     \* history: day -> node -> version it began with

cassandra == <<data, snapshots>>
playbook == <<job, jobs>>
bucket == <<provider, cloud, pathExists>>
storage == <<bucket, destination>>
history == <<taken, takenOn, lost>>
vars == <<day, cassandra, playbook, task, name, pool, dir, storage,
          faults, history, opening>>

Nothing == [t \in Tables |-> None]

Init ==
  /\ day = 0
  /\ data = [n \in Nodes |-> 0]
  /\ snapshots = [n \in Nodes |-> [d \in Days |-> None]]
  /\ job = "idle"
  /\ jobs = 0
  /\ task = [n \in Nodes |-> "done"]
  /\ name = [n \in Nodes |-> None]
  /\ pool = [n \in Nodes |-> {}]
  /\ dir = [n \in Nodes |-> Nothing]
  /\ provider \in Providers
  /\ cloud = {}
  /\ pathExists = FALSE
  /\ destination = [n \in Nodes |-> Nowhere]
  /\ faults = 0
  /\ taken = [n \in Nodes |-> None]
  /\ takenOn = [n \in Nodes |-> None]
  /\ lost = {}
  /\ opening = [d \in Days |-> [n \in Nodes |-> 0]]

-----------------------------------------------------------------------------
Write(n) ==
  /\ data[n] < MaxWrites
  /\ data' = [data EXCEPT ![n] = @ + 1]
  /\ UNCHANGED <<day, snapshots, playbook, task, name, pool, dir, storage, faults>>
  /\ UNCHANGED <<history, opening>>

Midnight ==
  /\ day < MaxDay
  /\ day' = day + 1
  /\ opening' = [opening EXCEPT ![day + 1] = data]
  /\ UNCHANGED <<cassandra, playbook, task, name, pool, dir, storage, faults, history>>

Fault == faults < MaxFaults /\ faults' = faults + 1

StartJob ==
  /\ job \in {"idle", "done", "failed"}
  /\ jobs < MaxJobs
  /\ job' = "snapshots"
  /\ jobs' = jobs + 1
  /\ task' = [n \in Nodes |-> "snapshot"]
  /\ taken' = [n \in Nodes |-> None]
  /\ takenOn' = [n \in Nodes |-> None]
  /\ lost' = {}
  /\ name' = [n \in Nodes |-> None]
  /\ destination' = [n \in Nodes |-> Nowhere]
  /\ UNCHANGED <<day, cassandra, pool, dir, bucket, faults, opening>>

-----------------------------------------------------------------------------
(* The first play: nodetool clearsnapshot and nodetool snapshot, one node  *)
(* at a time.                                                              *)
LiveData(n) == data[n]

Cleared(n) == [d \in Days |-> None]

AtSnapshot(n) == job = "snapshots" /\ task[n] = "snapshot"

TakeSnapshot(n) ==
  /\ AtSnapshot(n)
  /\ snapshots' = [snapshots EXCEPT ![n] = [Cleared(n) EXCEPT ![day] = LiveData(n)]]
  /\ taken' = [taken EXCEPT ![n] = LiveData(n)]
  /\ takenOn' = [takenOn EXCEPT ![n] = day]
  /\ task' = [task EXCEPT ![n] = "prepare"]
  /\ job' = IF \A m \in Nodes \ {n} : task[m] = "prepare" THEN "backups" ELSE job
  /\ UNCHANGED <<day, data, jobs, name, pool, dir, storage, faults, lost, opening>>

(* A clearsnapshot that fails is ignored. *)
SnapshotKeepingOld(n) ==
  /\ AtSnapshot(n)
  /\ Fault
  /\ snapshots[n][day] = None
  /\ snapshots' = [snapshots EXCEPT ![n][day] = LiveData(n)]
  /\ taken' = [taken EXCEPT ![n] = LiveData(n)]
  /\ takenOn' = [takenOn EXCEPT ![n] = day]
  /\ task' = [task EXCEPT ![n] = "prepare"]
  /\ job' = IF \A m \in Nodes \ {n} : task[m] = "prepare" THEN "backups" ELSE job
  /\ UNCHANGED <<day, data, jobs, name, pool, dir, storage, lost, opening>>

(* The snapshot fails, because its name is taken or for another reason:    *)
(* the whole batch of one node has failed, and the playbook ends.          *)
SnapshotFails(n) ==
  /\ AtSnapshot(n)
  /\ Fault
  /\ snapshots' \in {snapshots, [snapshots EXCEPT ![n] = Cleared(n)]}
  /\ job' = "failed"
  /\ UNCHANGED <<day, data, jobs, task, name, pool, dir, storage, history, opening>>

-----------------------------------------------------------------------------
(* The second play: every task on all the nodes before the next task; a    *)
(* node that fails drops out.                                              *)
(* "script" and "copy" are two moments of one task, "upload" and "send"    *)
(* two of the next.                                                        *)
TaskNumber(t) == CASE t = "prepare" -> 1
                   [] t \in {"script", "copy"} -> 2
                   [] t \in {"upload", "send"} -> 3
                   [] t = "cleanup" -> 4
                   [] t \in {"done", "failed"} -> 5

InStepWithAll(n) ==   \* mutant: waits for the nodes that dropped out too
  \A m \in Nodes : task[m] # "failed" /\ TaskNumber(task[n]) <= TaskNumber(task[m])

InStep(n) == \A m \in Nodes : TaskNumber(task[n]) <= TaskNumber(task[m])

At(n, t) == job = "backups" /\ task[n] = t /\ InStep(n)

Fails(n) == Fault /\ task' = [task EXCEPT ![n] = "failed"]

(* The backup directory is made anew, and the folder is named. *)
Prepare(n) ==
  /\ At(n, "prepare")
  /\ dir' = [dir EXCEPT ![n] = Nothing]
  /\ name' = [name EXCEPT ![n] = day]
  /\ task' = [task EXCEPT ![n] = "script"]
  /\ UNCHANGED <<day, cassandra, playbook, pool, storage, faults, history, opening>>

SubmittedAll(n) ==   \* mutant: no keyspace is ignored
  IF snapshots[n][name[n]] = None THEN {} ELSE AllTables

(* The tables with a snapshot of that name; nodetool snapshots them all. *)
Submitted(n) == IF snapshots[n][name[n]] = None THEN {} ELSE AllTables \ Ignored

(* The script up to the walk over the data directory: the copies are       *)
(* submitted to the pool of workers.                                       *)
Walk(n) ==
  /\ At(n, "script")
  /\ pool' = [pool EXCEPT ![n] = Submitted(n)]
  /\ task' = [task EXCEPT ![n] = "copy"]
  /\ UNCHANGED <<day, cassandra, playbook, name, dir, storage, faults, history, opening>>

LiveSource(n) == data[n]   \* mutant: links the files of the table itself

Source(n) == snapshots[n][name[n]]

(* A worker links a table's snapshot into the backup directory. *)
CopyTable(n, t) ==
  /\ At(n, "copy")
  /\ t \in pool[n]
  /\ pool' = [pool EXCEPT ![n] = @ \ {t}]
  /\ dir' = [dir EXCEPT ![n][t] = Source(n)]
  /\ UNCHANGED <<day, cassandra, playbook, task, name, storage, faults, history, opening>>

(* copytree raises, after linking what it could: the exception is printed. *)
CopyFails(n, t) ==
  /\ At(n, "copy")
  /\ Fault
  /\ t \in pool[n]
  /\ pool' = [pool EXCEPT ![n] = @ \ {t}]
  /\ dir' = [dir EXCEPT ![n][t] = Incomplete]
  /\ lost' = lost \union {n}
  /\ UNCHANGED <<day, cassandra, playbook, task, name, storage, taken, takenOn, opening>>

ClearEarly(n) == At(n, "copy")   \* mutant: does not wait for the workers

CopiesEnded(n) == At(n, "copy") /\ pool[n] = {}

(* All futures have completed: the table schemas are collected, and the    *)
(* snapshot of that name is cleared.                                       *)
ClearSnapshot(n) ==
  /\ CopiesEnded(n)
  /\ snapshots' = [snapshots EXCEPT ![n][name[n]] = None]
  /\ task' = [task EXCEPT ![n] = "upload"]
  /\ pool' = [pool EXCEPT ![n] = {}]
  /\ UNCHANGED <<day, data, playbook, name, dir, storage, faults, history, opening>>

(* The script exits, without a schema before the copies, without cqlsh or  *)
(* clearsnapshot after them; or it has run for too long and Ansible stops  *)
(* it, its workers with it.                                                *)
ScriptFails(n) ==
  /\ At(n, "script") \/ At(n, "copy")
  /\ Fails(n)
  /\ pool' = [pool EXCEPT ![n] = {}]
  /\ UNCHANGED <<day, cassandra, playbook, name, dir, storage, history, opening>>

UploadAsToday(n) == <<n, day>>   \* mutant: the folder is named when it is uploaded

UploadAs(n) == <<n, name[n]>>

(* azcopy makes a folder of that name, aws has the files of the folder     *)
(* only, gsutil makes the folder if there is something under the path.     *)
Destination(n) ==
  IF provider = "aws" \/ (provider = "gcloud" /\ ~pathExists)
  THEN SharedPath ELSE UploadAs(n)

StartUpload(n) ==
  /\ At(n, "upload")
  /\ destination' = [destination EXCEPT ![n] = Destination(n)]
  /\ task' = [task EXCEPT ![n] = "send"]
  /\ UNCHANGED <<day, cassandra, playbook, name, pool, dir, bucket, faults>>
  /\ UNCHANGED <<history, opening>>

(* What becomes of the directories of some tables, those in whole with all *)
(* their files.                                                            *)
Sent(n, tables, whole) ==
  {[folder |-> destination[n], table |-> t, node |-> n,
    version |-> IF t \in whole THEN dir[n][t] ELSE Incomplete] :
     t \in {u \in tables : dir[n][u] # None}}

(* The copies in the same place that another node's files can overwrite.   *)
Beside(n, sent) ==
  {c \in cloud : /\ c.folder = destination[n] /\ c.node # n
                 /\ \E s \in sent : s.table = c.table}

(* The copies of n another node overwrites, as both send at a time.        *)
Rivalled(n, sent) ==
  {s \in sent : \E c \in Beside(n, sent) :
     /\ c.table = s.table
     /\ destination[c.node] = destination[n]
     /\ task[c.node] \in {"cleanup", "failed"}}

Overwritten(copies) == {[c EXCEPT !.version = Incomplete] : c \in copies}

(* The files are copied to what is there already.                          *)
Uploaded(n, tables, whole) ==
  LET sent == Sent(n, tables, whole) IN
  \E hit \in SUBSET (Beside(n, sent) \union Rivalled(n, sent)) :
    cloud' = ((cloud \union sent) \ hit) \union Overwritten(hit)

Upload(n) ==
  /\ At(n, "send")
  /\ Uploaded(n, Tables, Tables)
  /\ pathExists' = TRUE   \* the schema at least
  /\ task' = [task EXCEPT ![n] = "cleanup"]
  /\ UNCHANGED <<day, cassandra, playbook, name, pool, dir, provider, destination>>
  /\ UNCHANGED <<faults, history, opening>>

UploadFails(n) ==
  /\ At(n, "send")
  /\ Fails(n)
  /\ \E tables \in SUBSET Tables : \E whole \in SUBSET tables :
       /\ Uploaded(n, tables, whole)
       /\ pathExists' \in IF tables = {} THEN {pathExists, TRUE} ELSE {TRUE}
  /\ UNCHANGED <<day, cassandra, playbook, name, pool, dir, provider, destination>>
  /\ UNCHANGED <<history, opening>>

Cleanup(n) ==
  /\ At(n, "cleanup")
  /\ dir' = [dir EXCEPT ![n] = Nothing]
  /\ task' = [task EXCEPT ![n] = "done"]
  /\ UNCHANGED <<day, cassandra, playbook, name, pool, storage, faults, history, opening>>

EndJob ==
  /\ job = "backups"
  /\ \A n \in Nodes : task[n] \in {"done", "failed"}
  /\ job' = IF \E n \in Nodes : task[n] = "failed" THEN "failed" ELSE "done"
  /\ UNCHANGED <<day, cassandra, jobs, task, name, pool, dir, storage, faults>>
  /\ UNCHANGED <<history, opening>>

-----------------------------------------------------------------------------
PlaybookStep(n) ==
  \/ TakeSnapshot(n) \/ Prepare(n) \/ Walk(n) \/ ClearSnapshot(n)
  \/ StartUpload(n) \/ Upload(n) \/ Cleanup(n)
  \/ \E t \in Tables : CopyTable(n, t)

Next ==
  \/ \E n \in Nodes : Write(n)
  \/ Midnight
  \/ StartJob
  \/ \E n \in Nodes : PlaybookStep(n)
  \/ \E n \in Nodes : SnapshotKeepingOld(n) \/ SnapshotFails(n)
  \/ \E n \in Nodes, t \in Tables : CopyFails(n, t)
  \/ \E n \in Nodes : ScriptFails(n) \/ UploadFails(n)
  \/ EndJob

Spec == Init /\ [][Next]_vars

(* Ansible drives its tasks on; commands return. *)
FairSpec == Spec /\ (\A n \in Nodes : WF_vars(PlaybookStep(n))) /\ WF_vars(EndJob)

-----------------------------------------------------------------------------
Stored == Versions \union {None}
Copied == Stored \union {Incomplete}
Copies == [folder : Folders, table : Tables, node : Nodes,
           version : Versions \union {Incomplete}]

TypeOK ==
  /\ day \in Days
  /\ data \in [Nodes -> Versions]
  /\ snapshots \in [Nodes -> [Days -> Stored]]
  /\ job \in {"idle", "snapshots", "backups", "done", "failed"}
  /\ jobs \in 0 .. MaxJobs
  /\ task \in [Nodes -> {"snapshot", "prepare", "script", "copy", "upload",
                         "send", "cleanup", "done", "failed"}]
  /\ name \in [Nodes -> Days \union {None}]
  /\ pool \in [Nodes -> SUBSET Tables]
  /\ dir \in [Nodes -> [Tables -> Copied]]
  /\ provider \in Providers
  /\ cloud \subseteq Copies
  /\ pathExists \in BOOLEAN
  /\ destination \in [Nodes -> Folders \union {Nowhere}]
  /\ faults \in 0 .. MaxFaults
  /\ taken \in [Nodes -> Stored]
  /\ takenOn \in [Nodes -> Days \union {None}]
  /\ lost \subseteq Nodes
  /\ opening \in [Days -> [Nodes -> Versions]]

(* Whatever is written meanwhile, the tables a node copies are those of    *)
(* one moment, the moment of this job's snapshot: never of the live data   *)
(* and never of a snapshot left over (cassandra_backup.py:107-110).        *)
CopiesAreTheSnapshot ==
  \A n \in Nodes, t \in Tables :
    task[n] \in {"script", "copy", "upload", "send"} =>
      dir[n][t] \in {None, Incomplete, taken[n]}

(* What is in the cloud under the name of a node and a day is data of that *)
(* node on that day, over failed jobs, repeated jobs and jobs that run past*)
(* midnight; what lies under the shared path has no day                    *)
(* (cassandra-backup.yml:14, tasks/main.yml:17, 35-71).                    *)
FreshForItsDay ==
  \A c \in cloud, n \in Nodes, d \in Days :
    c.folder = <<n, d>> =>
      /\ c.node = n
      /\ c.version # Incomplete =>
           /\ d <= day
           /\ opening[d][n] <= c.version
           /\ d < day => c.version <= opening[d + 1][n]

(* A job that ends well has uploaded every table of every snapshot it      *)
(* took, but for three cases nobody is told about: a copy failed; the day  *)
(* changed between the plays; another node's files went to the same place, *)
(* over these (cassandra_backup.py:114-118, tasks/main.yml:17, 55).        *)
SharesFolder(n) == \E m \in Nodes \ {n} : destination[m] = destination[n]

Kept(n, t) == [folder |-> destination[n], table |-> t, node |-> n,
               version |-> taken[n]] \in cloud

DoneMeansBackedUp ==
  job = "done" =>
    \A n \in Nodes : \/ n \in lost
                     \/ name[n] # takenOn[n]
                     \/ SharesFolder(n)
                     \/ \A t \in Tables : Kept(n, t)

(* A job that has been started ends, whatever fails on some of its nodes   *)
(* (cassandra-backup.yml:4, 18).                                           *)
JobEnds == job \in {"snapshots", "backups"} ~> job \in {"done", "failed"}

(* "Clearing the snapshot.  We've the data now available in the copied     *)
(* directory." (cassandra_backup.py:181-182)                               *)
ClearedIsCopied ==
  \A n \in Nodes : task[n] = "upload" => \A t \in Tables : dir[n][t] = taken[n]

(* "Once snaphot is done, we can take the snapshot and compress it and     *)
(* upload it" (cassandra-backup.yml:14-15): a job without a failure has    *)
(* uploaded the snapshots it took.                                         *)
SnapshotIsUploaded ==
  job = "done" => \A n \in Nodes, t \in Tables : Kept(n, t)
=============================================================================
