------------------------ MODULE CassandraBackupProofs ------------------------
(***************************************************************************)
(* Proofs about CassandraBackup for any number of nodes, tables, days,     *)
(* writes, jobs and faults.                                                *)
(***************************************************************************)
EXTENDS CassandraBackup, TLAPS

(* Which tasks nodes can be at while the playbook stands somewhere. *)
Staged ==
  /\ job = "snapshots" => \A n \in Nodes : task[n] \in {"snapshot", "prepare"}
  /\ job = "backups" => \A n \in Nodes : task[n] # "snapshot"
  /\ \A n \in Nodes :
       task[n] \in {"script", "copy", "upload", "send", "cleanup"} => job = "backups"

(* A folder that is worked on has been named. *)
Named ==
  \A n \in Nodes :
    task[n] \in {"script", "copy", "upload", "send", "cleanup"} => name[n] \in Days

(* An upload has a destination from its start, and not before; azcopy      *)
(* keeps the name of the folder.                                           *)
Directed ==
  /\ \A n \in Nodes :
       task[n] \in {"snapshot", "prepare", "script", "copy", "upload"} =>
         destination[n] = Nowhere
  /\ \A n \in Nodes :
       task[n] \in {"send", "cleanup"} => destination[n] \in {SharedPath, UploadAs(n)}
  /\ job \in {"backups", "done"} =>
       \A n \in Nodes : task[n] = "done" =>
         destination[n] \in Folders \intersect {SharedPath, UploadAs(n)}
  /\ provider = "azure" => \A n \in Nodes : destination[n] # SharedPath

TypeInv == TypeOK /\ Staged /\ Named /\ Directed

LEMMA InitType == Init => TypeInv
<1> SUFFICES ASSUME Init
             PROVE  TypeInv
  OBVIOUS
<1>1. pathExists \in BOOLEAN
  BY DEF Init
<1>2. TypeOK
  BY <1>1, DayAssumption, WritesAssumption, JobsAssumption, FaultsAssumption
     DEF Init, TypeOK, Nothing, Copied, Stored, Versions, Days, None, Incomplete
<1>3. Staged /\ Named /\ Directed
  BY FolderAssumption DEF Init, Staged, Named, Directed, Folders
<1> QED BY <1>2, <1>3 DEF TypeInv

USE DEF Copied, Stored

(* A folder of the cloud is not the path they share, and never nowhere. *)
LEMMA Places ==
  ASSUME NEW n \in Nodes, NEW d \in Days
  PROVE  <<n, d>> \in Folders /\ SharedPath # <<n, d>> /\ Nowhere \notin Folders
  BY FolderAssumption DEF Folders

(* What is sent is copies of the node's directory, bound for its folder. *)
LEMMA SentCopies ==
  ASSUME TypeInv, NEW n \in Nodes, task[n] = "send",
         NEW tables \in SUBSET Tables, NEW whole
  PROVE  /\ Sent(n, tables, whole) \subseteq Copies
         /\ \A c \in Sent(n, tables, whole) :
              /\ c.folder = destination[n] /\ c.node = n
              /\ c.version = Incomplete \/ \E t \in Tables : c.version = dir[n][t]
<1>1. destination[n] \in Folders
  BY Places DEF TypeInv, Named, Directed, UploadAs, Folders
<1>2. SUFFICES ASSUME NEW t \in tables, dir[n][t] # None,
                      NEW v, v = IF t \in whole THEN dir[n][t] ELSE Incomplete,
                      NEW c, c = [folder |-> destination[n], table |-> t, node |-> n,
                                  version |-> v]
               PROVE  /\ c \in Copies
                      /\ c.folder = destination[n] /\ c.node = n
                      /\ v = Incomplete \/ v = dir[n][t]
  BY DEF Sent
<1>3. dir[n][t] \in Versions \union {None, Incomplete}
  BY DEF TypeInv, TypeOK
<1>4. v \in Versions \union {Incomplete}
  BY <1>2, <1>3
<1> QED BY <1>1, <1>2, <1>4 DEF Copies

(* What an upload leaves: what there was, but for what it overwrites in    *)
(* its own folder; what it has sent, if no other node sends to that folder;*)
(* nothing else but the remains of what is overwritten.                    *)
LEMMA UploadedCopies ==
  ASSUME TypeInv, NEW n \in Nodes, task[n] = "send",
         NEW tables \in SUBSET Tables, NEW whole, Uploaded(n, tables, whole)
  PROVE  /\ cloud' \subseteq Copies
         /\ \A c \in cloud' :
              \/ c \in cloud \union Sent(n, tables, whole)
              \/ \E b \in cloud \union Sent(n, tables, whole) :
                   c.folder = b.folder /\ c.node = b.node /\ c.version = Incomplete
         /\ \A c \in cloud : c \in cloud' \/ c.folder = destination[n]
         /\ \A s \in Sent(n, tables, whole) : s \in cloud' \/ SharesFolder(n)
<1> DEFINE sent == Sent(n, tables, whole)
<1>1. sent \subseteq Copies /\ cloud \subseteq Copies
  BY SentCopies DEF TypeInv, TypeOK
<1>2. \A s \in sent : s.folder = destination[n] /\ s.node = n
  BY SentCopies
<1> HIDE DEF sent
<1>3. PICK hit \in SUBSET (Beside(n, sent) \union Rivalled(n, sent)) :
        cloud' = ((cloud \union sent) \ hit) \union Overwritten(hit)
  BY DEF Uploaded, sent
<1>4. ASSUME NEW c \in hit
      PROVE  /\ c \in cloud \union sent /\ c \in Copies
             /\ c.folder = destination[n]
             /\ c.node = n => SharesFolder(n)
  <2>1. CASE c \in Beside(n, sent)
    BY <1>1, <2>1 DEF Beside
  <2>2. CASE c \in Rivalled(n, sent)
    <3>1. PICK b \in Beside(n, sent) : destination[b.node] = destination[n]
      BY <2>2 DEF Rivalled
    <3>2. b.node # n /\ b.node \in Nodes
      BY <1>1, <3>1 DEF Beside, Copies
    <3>3. SharesFolder(n)
      BY <3>1, <3>2 DEF SharesFolder
    <3> QED BY <1>1, <1>2, <2>2, <3>3 DEF Rivalled
  <2> QED BY <2>1, <2>2
<1>5. ASSUME NEW c \in Overwritten(hit)
      PROVE  /\ c \in Copies
             /\ \E b \in cloud \union sent :
                  c.folder = b.folder /\ c.node = b.node /\ c.version = Incomplete
  <2>1. PICK b \in hit : c = [b EXCEPT !.version = Incomplete]
    BY DEF Overwritten
  <2>2. b \in Copies /\ b \in cloud \union sent
    BY <1>4
  <2>3. c \in Copies /\ c.folder = b.folder /\ c.node = b.node /\ c.version = Incomplete
    BY <2>1, <2>2 DEF Copies
  <2> QED BY <2>2, <2>3
<1>6. cloud' \subseteq Copies
  BY <1>1, <1>3, <1>5
<1>7. \A c \in cloud : c \in cloud' \/ c.folder = destination[n]
  BY <1>3, <1>4
<1>8. \A s \in sent : s \in cloud' \/ SharesFolder(n)
  BY <1>2, <1>3, <1>4
<1>9. \A c \in cloud' :
        \/ c \in cloud \union sent
        \/ \E b \in cloud \union sent :
             c.folder = b.folder /\ c.node = b.node /\ c.version = Incomplete
  BY <1>3, <1>5
<1> QED BY <1>6, <1>7, <1>8, <1>9 DEF sent

LEMMA StepType == TypeInv /\ [Next]_vars => TypeInv'
<1> SUFFICES ASSUME TypeInv, [Next]_vars
             PROVE  TypeInv'
  OBVIOUS
<1> USE DayAssumption, WritesAssumption, JobsAssumption, FaultsAssumption
<1> USE DEF TypeInv, TypeOK, Staged, Named, Directed, UploadAs,
            cassandra, playbook, bucket, storage, history
<1>1. ASSUME NEW n \in Nodes, Write(n)
      PROVE  TypeInv'
  BY <1>1 DEF Write, Versions
<1>2. CASE Midnight
  BY <1>2 DEF Midnight, Days
<1>3. CASE StartJob
  BY <1>3, FolderAssumption DEF StartJob, Folders
<1>4. ASSUME NEW n \in Nodes, TakeSnapshot(n)
      PROVE  TypeInv'
  BY <1>4 DEF TakeSnapshot, AtSnapshot, Cleared, LiveData
<1>5. ASSUME NEW n \in Nodes, SnapshotKeepingOld(n)
      PROVE  TypeInv'
  BY <1>5 DEF SnapshotKeepingOld, AtSnapshot, LiveData, Fault
<1>6. ASSUME NEW n \in Nodes, SnapshotFails(n)
      PROVE  TypeInv'
  <2>1. Cleared(n) \in [Days -> Stored]
    BY DEF Cleared
  <2>2. snapshots' \in [Nodes -> [Days -> Stored]]
    BY <1>6, <2>1 DEF SnapshotFails
  <2>3. /\ job' = "failed"
        /\ UNCHANGED <<day, data, jobs, task, name, pool, dir, storage, history, opening>>
        /\ faults' \in 0 .. MaxFaults
    BY <1>6 DEF SnapshotFails, Fault
  <2>4. \A m \in Nodes : task[m] \in {"snapshot", "prepare"}
    BY <1>6 DEF SnapshotFails, AtSnapshot
  <2> QED BY <2>2, <2>3, <2>4
<1>7. ASSUME NEW n \in Nodes, Prepare(n)
      PROVE  TypeInv'
  BY <1>7 DEF Prepare, At, Nothing
<1>8. ASSUME NEW n \in Nodes, Walk(n)
      PROVE  TypeInv'
  BY <1>8 DEF Walk, At, Submitted, Tables
<1>9. ASSUME NEW n \in Nodes, NEW t \in Tables, CopyTable(n, t)
      PROVE  TypeInv'
  <2>1. Source(n) \in Copied
    BY <1>9 DEF CopyTable, At, Source
  <2> QED BY <1>9, <2>1 DEF CopyTable, At
<1>10. ASSUME NEW n \in Nodes, NEW t \in Tables, CopyFails(n, t)
       PROVE  TypeInv'
  BY <1>10 DEF CopyFails, At, Fault
<1>11. ASSUME NEW n \in Nodes, ClearSnapshot(n)
       PROVE  TypeInv'
  BY <1>11 DEF ClearSnapshot, CopiesEnded, At
<1>12. ASSUME NEW n \in Nodes, ScriptFails(n)
       PROVE  TypeInv'
  BY <1>12 DEF ScriptFails, CopiesEnded, At, Fails, Fault
<1>13. ASSUME NEW n \in Nodes, StartUpload(n)
       PROVE  TypeInv'
  <2>1. /\ Destination(n) \in {SharedPath, UploadAs(n)}
        /\ provider = "azure" => Destination(n) = UploadAs(n)
    BY DEF Destination
  <2>2. n \in Nodes /\ name[n] \in Days
    BY <1>13 DEF StartUpload, At
  <2>3. Destination(n) \in Folders
    BY <2>1, <2>2, Places DEF Folders
  <2>4. provider = "azure" => Destination(n) # SharedPath
    BY <2>1, <2>2, Places
  <2> QED BY <1>13, <2>1, <2>3, <2>4 DEF StartUpload, At
<1>14. ASSUME NEW n \in Nodes, Upload(n)
       PROVE  TypeInv'
  <2>1. task[n] = "send" /\ Uploaded(n, Tables, Tables)
    BY <1>14 DEF Upload, At
  <2>2. cloud' \subseteq Copies
    BY <2>1, UploadedCopies
  <2> QED BY <1>14, <2>2 DEF Upload, At
<1>18. ASSUME NEW n \in Nodes, UploadFails(n)
       PROVE  TypeInv'
  <2>1. PICK tables \in SUBSET Tables, whole \in SUBSET Tables :
          Uploaded(n, tables, whole)
    BY <1>18 DEF UploadFails
  <2>2. task[n] = "send"
    BY <1>18 DEF UploadFails, At
  <2>3. cloud' \subseteq Copies
    BY <2>1, <2>2, UploadedCopies
  <2>4. pathExists' \in {pathExists, TRUE}
    BY <1>18 DEF UploadFails
  <2>6. pathExists' \in BOOLEAN
    BY <2>4
  <2>7. faults' \in 0 .. MaxFaults
    BY <1>18 DEF UploadFails, Fails, Fault
  <2>5. /\ task' = [task EXCEPT ![n] = "failed"]
        /\ job = "backups"
        /\ UNCHANGED <<day, cassandra, playbook, name, pool, dir, provider, destination>>
        /\ UNCHANGED <<history, opening>>
    BY <1>18 DEF UploadFails, Fails, At
  <2> QED BY <2>3, <2>5, <2>6, <2>7
<1>15. ASSUME NEW n \in Nodes, Cleanup(n)
       PROVE  TypeInv'
  <2>1. destination[n] \in Folders
    BY <1>15, Places DEF Cleanup, At, Folders
  <2> QED BY <1>15, <2>1 DEF Cleanup, At, Nothing
<1>16. CASE EndJob
  BY <1>16 DEF EndJob
<1>17. CASE UNCHANGED vars
  BY <1>17 DEF vars
<1> QED BY <1>1, <1>2, <1>3, <1>4, <1>5, <1>6, <1>7, <1>8, <1>9, <1>10, <1>11,
           <1>12, <1>13, <1>14, <1>15, <1>16, <1>17, <1>18 DEF Next, PlaybookStep

LEMMA TypeAlways == Spec => []TypeInv
  BY InitType, StepType, PTL DEF Spec

(* Every variable of the backup job keeps its type, whatever fails.        *)
THEOREM TypeCorrect == Spec => []TypeOK
  BY TypeAlways, PTL DEF TypeInv

-----------------------------------------------------------------------------
Running == job \in {"snapshots", "backups"}

(* No snapshot is named after a day to come. *)
NoneAhead == \A n \in Nodes, d \in Days : d > day => snapshots[n][d] = None

(* The snapshot this job took of a node is the latest the node has, and    *)
(* what bears its name is that snapshot or nothing.                        *)
Latest(n) ==
  /\ taken[n] \in Versions
  /\ takenOn[n] \in Days
  /\ takenOn[n] <= day
  /\ \A d \in Days : d > takenOn[n] => snapshots[n][d] = None
  /\ snapshots[n][takenOn[n]] \in {None, taken[n]}

LatestTaken == \A n \in Nodes : Running /\ task[n] # "snapshot" => Latest(n)

(* The folder is named no earlier than the snapshot. *)
NamedLater ==
  \A n \in Nodes :
    task[n] \in {"script", "copy", "upload", "send", "cleanup"} =>
      takenOn[n] <= name[n] /\ name[n] <= day

CopyInv == TypeInv /\ NoneAhead /\ LatestTaken /\ NamedLater /\ CopiesAreTheSnapshot

(* v is missing, incomplete, or data of node n on day d. *)
OfDay(n, d, v) ==
  v \in Versions =>
    /\ d <= day
    /\ opening[d][n] <= v
    /\ v <= data[n]
    /\ d < day => v <= opening[d + 1][n]

Opened == \A n \in Nodes : opening[day][n] <= data[n]

SnapshotsOfDay == \A n \in Nodes, d \in Days : OfDay(n, d, snapshots[n][d])

FoldersOfDay ==
  \A n \in Nodes, t \in Tables :
    task[n] \in {"script", "copy", "upload", "send"} => OfDay(n, name[n], dir[n][t])

CloudOfDay ==
  \A c \in cloud, n \in Nodes, d \in Days :
    c.folder = <<n, d>> => c.node = n /\ OfDay(n, d, c.version)

FreshInv == TypeInv /\ Opened /\ SnapshotsOfDay /\ FoldersOfDay /\ CloudOfDay

(* What holds of a node's backup at each task, unless a copy failed, the   *)
(* folder is named after another day than the snapshot or another node     *)
(* sends to the same folder.                                               *)
Excused(n) == n \in lost \/ name[n] # takenOn[n]

Prepared(n) == task[n] = "prepare" => snapshots[n][takenOn[n]] = taken[n]

Copying(n) ==
  task[n] \in {"script", "copy"} =>
    \/ name[n] # takenOn[n]
    \/ snapshots[n][name[n]] = taken[n]

CopiedAll(n) ==
  /\ task[n] = "copy" =>
       Excused(n) \/ \A t \in Tables : t \in pool[n] \/ dir[n][t] = taken[n]
  /\ task[n] \in {"upload", "send"} =>
       Excused(n) \/ \A t \in Tables : dir[n][t] = taken[n]

UploadedAll(n) ==
  task[n] \in {"cleanup", "done"} =>
    Excused(n) \/ SharesFolder(n) \/ \A t \in Tables : Kept(n, t)

Progress ==
  /\ \A n \in Nodes : Running => Prepared(n)
  /\ \A n \in Nodes : Copying(n) /\ CopiedAll(n)
  /\ \A n \in Nodes : job \in {"backups", "done"} => UploadedAll(n)
  /\ job = "done" => \A n \in Nodes : task[n] = "done"

DoneInv == CopyInv /\ Progress

-----------------------------------------------------------------------------
(* A snapshot that fails leaves what there was, or nothing. *)
LEMMA FailedSnapshot ==
  ASSUME TypeInv, NEW n \in Nodes, SnapshotFails(n)
  PROVE  \A m \in Nodes, d \in Days :
           snapshots'[m][d] = None \/ snapshots'[m][d] = snapshots[m][d]
<1> USE DEF TypeInv, TypeOK
<1>1. CASE snapshots' = snapshots
  BY <1>1
<1>2. CASE snapshots' = [snapshots EXCEPT ![n] = Cleared(n)]
  BY <1>2 DEF Cleared
<1> QED BY <1>1, <1>2 DEF SnapshotFails

LEMMA CopyStep == CopyInv /\ [Next]_vars => CopyInv'
<1> SUFFICES ASSUME CopyInv, [Next]_vars
             PROVE  CopyInv'
  OBVIOUS
<1> DEFINE Safe == NoneAhead /\ LatestTaken /\ NamedLater /\ CopiesAreTheSnapshot
<1>1. TypeInv'
  BY StepType DEF CopyInv
<1> USE DEF CopyInv, TypeInv, TypeOK, Staged, Named, NoneAhead, LatestTaken, Latest,
            Running, NamedLater, CopiesAreTheSnapshot, cassandra, playbook, history,
            bucket, storage
<1> USE DayAssumption DEF Days
<1>2. ASSUME NEW n \in Nodes, Write(n)
      PROVE  Safe'
  BY <1>2 DEF Write
<1>3. ASSUME NEW n \in Nodes, TakeSnapshot(n)
      PROVE  Safe'
  BY <1>3 DEF TakeSnapshot, AtSnapshot, LiveData, Cleared
<1>4. ASSUME NEW n \in Nodes, SnapshotKeepingOld(n)
      PROVE  Safe'
  BY <1>4 DEF SnapshotKeepingOld, AtSnapshot, LiveData
<1>5. ASSUME NEW n \in Nodes, SnapshotFails(n)
      PROVE  Safe'
  <2>1. \A m \in Nodes, d \in Days :
           snapshots'[m][d] = None \/ snapshots'[m][d] = snapshots[m][d]
    BY <1>5, FailedSnapshot
  <2>2. job' = "failed" /\ UNCHANGED <<day, task, name, dir, history>>
    BY <1>5 DEF SnapshotFails
  <2>3. NoneAhead'
    <3> SUFFICES ASSUME NEW m \in Nodes, NEW d \in Days, d > day'
                 PROVE  snapshots'[m][d] = None
      OBVIOUS
    <3>1. d > day
      BY <2>2
    <3>2. snapshots[m][d] = None
      BY <3>1
    <3> QED BY <2>1, <3>2
  <2>4. NamedLater' /\ CopiesAreTheSnapshot'
    BY <2>2
  <2>5. LatestTaken'
    BY <2>2
  <2> QED BY <2>3, <2>4, <2>5
<1>6. ASSUME NEW n \in Nodes, Prepare(n)
      PROVE  Safe'
  BY <1>6 DEF Prepare, At, Nothing
<1>7. ASSUME NEW n \in Nodes, Walk(n)
      PROVE  Safe'
  BY <1>7 DEF Walk, At
<1>8. ASSUME NEW n \in Nodes, NEW t \in Tables, CopyTable(n, t)
      PROVE  Safe'
  BY <1>8 DEF CopyTable, At, Source
<1>9. ASSUME NEW n \in Nodes, NEW t \in Tables, CopyFails(n, t)
      PROVE  Safe'
  BY <1>9 DEF CopyFails, At
<1>10. ASSUME NEW n \in Nodes, ClearSnapshot(n)
      PROVE  Safe'
  BY <1>10 DEF ClearSnapshot, CopiesEnded, At
<1>11. ASSUME NEW n \in Nodes, ScriptFails(n)
      PROVE  Safe'
  BY <1>11 DEF ScriptFails, CopiesEnded, At, Fails
<1>12. ASSUME NEW n \in Nodes, Upload(n)
      PROVE  Safe'
  BY <1>12 DEF Upload, At
<1>13. ASSUME NEW n \in Nodes, UploadFails(n)
      PROVE  Safe'
  BY <1>13 DEF UploadFails, At, Fails
<1>14. ASSUME NEW n \in Nodes, Cleanup(n)
      PROVE  Safe'
  BY <1>14 DEF Cleanup, At, Nothing
<1>15. CASE Midnight
  BY <1>1, <1>15 DEF Midnight
<1>16. CASE StartJob
  <2>1. \A m \in Nodes : task'[m] = "snapshot"
    BY <1>16 DEF StartJob
  <2>2. NoneAhead'
    BY <1>16 DEF StartJob
  <2>3. LatestTaken'
    BY <2>1
  <2>4. NamedLater' /\ CopiesAreTheSnapshot'
    BY <2>1
  <2> HIDE DEF NoneAhead, LatestTaken, NamedLater, CopiesAreTheSnapshot
  <2> QED BY <1>1, <2>2, <2>3, <2>4
<1>17. CASE EndJob
  BY <1>1, <1>17 DEF EndJob
<1>18. ASSUME NEW n \in Nodes, StartUpload(n)
       PROVE  Safe'
  BY <1>18 DEF StartUpload, At
<1>19. CASE UNCHANGED vars
  BY <1>1, <1>19 DEF vars
<1> QED BY <1>1, <1>2, <1>3, <1>4, <1>5, <1>6, <1>7, <1>8, <1>9, <1>10, <1>11, <1>12,
           <1>13, <1>14, <1>15, <1>16, <1>17, <1>18, <1>19 DEF Next, PlaybookStep

LEMMA InitSafe == Init => CopyInv
  BY InitType, DayAssumption
     DEF Init, CopyInv, NoneAhead, LatestTaken, Latest, Running, NamedLater,
         CopiesAreTheSnapshot, Days

LEMMA CopyAlways == Spec => []CopyInv
  BY InitSafe, CopyStep, PTL DEF Spec

(* Whatever is written, fails or is repeated meanwhile, all the tables a   *)
(* node copies come from the snapshot this job took                        *)
(* (cassandra_backup.py:107-110).                                          *)
THEOREM CopiesOfOneSnapshot == Spec => []CopiesAreTheSnapshot
  BY CopyAlways, PTL DEF CopyInv

-----------------------------------------------------------------------------
(* Data of a day stays data of that day when the node takes a write, and   *)
(* when the day ends.                                                      *)
LEMMA OfDayStep ==
  ASSUME TypeInv, [Next]_vars, NEW n \in Nodes, NEW d \in Days, NEW v \in Copied,
         OfDay(n, d, v)
  PROVE  OfDay(n, d, v)'
<1> USE DayAssumption, WritesAssumption DEF Days, Versions, OfDay, TypeInv, TypeOK
<1>1. CASE Midnight
  BY <1>1 DEF Midnight, cassandra
<1>2. CASE \E m \in Nodes : Write(m)
  BY <1>2 DEF Write
<1>3. CASE UNCHANGED <<day, data, opening>>
  BY <1>3
<1> QED
  BY <1>1, <1>2, <1>3
     DEF Next, PlaybookStep, StartJob, TakeSnapshot, SnapshotKeepingOld, SnapshotFails,
         Prepare, Walk, CopyTable, CopyFails, ClearSnapshot, ScriptFails, StartUpload,
         Upload, UploadFails, Cleanup, EndJob, vars, cassandra, history

(* What a node has now is data of today. *)
LEMMA LiveOfDay ==
  ASSUME TypeInv, Opened, NEW n \in Nodes
  PROVE  OfDay(n, day, data[n])
  BY DayAssumption, WritesAssumption DEF TypeInv, TypeOK, Opened, OfDay, Days, Versions

(* What a step can leave at each station: what was there, nothing, or what *)
(* the station before it held.                                             *)
LEMMA StationStep ==
  ASSUME TypeInv, [Next]_vars, NEW n \in Nodes
  PROVE  /\ \A d \in Days :
              \/ snapshots'[n][d] \in {snapshots[n][d], None}
              \/ d = day /\ snapshots'[n][d] = data[n]
         /\ \A t \in Tables :
              task'[n] \in {"script", "copy", "upload", "send"} =>
                \/ dir'[n][t] \in {None, Incomplete}
                \/ /\ name'[n] = name[n] /\ name[n] \in Days
                   /\ \/ dir'[n][t] = snapshots[n][name[n]]
                      \/ /\ task[n] \in {"script", "copy", "upload", "send"}
                         /\ dir'[n][t] = dir[n][t]
<1> DEFINE Stations(m) ==
             /\ \A d \in Days :
                  \/ snapshots'[m][d] \in {snapshots[m][d], None}
                  \/ d = day /\ snapshots'[m][d] = data[m]
             /\ \A t \in Tables :
                  task'[m] \in {"script", "copy", "upload", "send"} =>
                    \/ dir'[m][t] \in {None, Incomplete}
                    \/ /\ name'[m] = name[m] /\ name[m] \in Days
                       /\ \/ dir'[m][t] = snapshots[m][name[m]]
                          \/ /\ task[m] \in {"script", "copy", "upload", "send"}
                             /\ dir'[m][t] = dir[m][t]
<1> SUFFICES Stations(n)
  OBVIOUS
<1> USE DayAssumption
<1> USE DEF TypeInv, TypeOK, Staged, Named, cassandra, playbook, history, storage, Days
<1>1. ASSUME NEW m \in Nodes, Write(m)
      PROVE  Stations(n)
  BY <1>1 DEF Write
<1>2. ASSUME NEW m \in Nodes, TakeSnapshot(m)
      PROVE  Stations(n)
  BY <1>2 DEF TakeSnapshot, AtSnapshot, LiveData, Cleared
<1>3. ASSUME NEW m \in Nodes, SnapshotKeepingOld(m)
      PROVE  Stations(n)
  BY <1>3 DEF SnapshotKeepingOld, AtSnapshot, LiveData
<1>4. ASSUME NEW m \in Nodes, SnapshotFails(m)
      PROVE  Stations(n)
  <2>1. \A d \in Days : snapshots'[n][d] = None \/ snapshots'[n][d] = snapshots[n][d]
    BY <1>4, FailedSnapshot
  <2>2. UNCHANGED <<task, name, dir>>
    BY <1>4 DEF SnapshotFails
  <2> QED BY <2>1, <2>2
<1>5. ASSUME NEW m \in Nodes, Prepare(m)
      PROVE  Stations(n)
  BY <1>5 DEF Prepare, At, Nothing
<1>6. ASSUME NEW m \in Nodes, Walk(m)
      PROVE  Stations(n)
  BY <1>6 DEF Walk, At
<1>7. ASSUME NEW m \in Nodes, NEW t \in Tables, CopyTable(m, t)
      PROVE  Stations(n)
  BY <1>7 DEF CopyTable, At, Source
<1>8. ASSUME NEW m \in Nodes, NEW t \in Tables, CopyFails(m, t)
      PROVE  Stations(n)
  BY <1>8 DEF CopyFails, At
<1>9. ASSUME NEW m \in Nodes, ClearSnapshot(m)
      PROVE  Stations(n)
  BY <1>9 DEF ClearSnapshot, CopiesEnded, At
<1>10. ASSUME NEW m \in Nodes, ScriptFails(m)
      PROVE  Stations(n)
  BY <1>10 DEF ScriptFails, CopiesEnded, At, Fails
<1>11. ASSUME NEW m \in Nodes, StartUpload(m) \/ Upload(m)
       PROVE  Stations(n)
  BY <1>11 DEF StartUpload, Upload, At
<1>12. ASSUME NEW m \in Nodes, UploadFails(m)
       PROVE  Stations(n)
  BY <1>12 DEF UploadFails, At, Fails
<1>13. ASSUME NEW m \in Nodes, Cleanup(m)
      PROVE  Stations(n)
  BY <1>13 DEF Cleanup, At, Nothing
<1>14. CASE Midnight
  BY <1>14 DEF Midnight
<1>15. CASE StartJob
  BY <1>15 DEF StartJob
<1>16. CASE EndJob
  BY <1>16 DEF EndJob
<1>17. CASE UNCHANGED vars
  BY <1>17 DEF vars
<1> HIDE DEF Stations
<1> QED BY <1>1, <1>2, <1>3, <1>4, <1>5, <1>6, <1>7, <1>8, <1>9, <1>10, <1>11,
           <1>12, <1>13, <1>14, <1>15, <1>16, <1>17 DEF Next, PlaybookStep

(* Only an upload changes the cloud. *)
LEMMA CloudStep ==
  ASSUME TypeInv, [Next]_vars, cloud' # cloud
  PROVE  \E n \in Nodes, tables \in SUBSET Tables, whole \in SUBSET Tables :
           /\ task[n] = "send" /\ Uploaded(n, tables, whole)
           /\ Upload(n) \/ UploadFails(n)
<1>1. ASSUME NEW n \in Nodes, Upload(n)
      PROVE  task[n] = "send" /\ Uploaded(n, Tables, Tables)
  BY <1>1 DEF Upload, At
<1>2. ASSUME NEW n \in Nodes, UploadFails(n)
      PROVE  /\ task[n] = "send"
             /\ \E tables \in SUBSET Tables, whole \in SUBSET Tables :
                  Uploaded(n, tables, whole)
  BY <1>2 DEF UploadFails, At
<1>3. \E n \in Nodes : Upload(n) \/ UploadFails(n)
  BY DEF Next, PlaybookStep, Write, Midnight, StartJob, TakeSnapshot, SnapshotKeepingOld,
         SnapshotFails, Prepare, Walk, CopyTable, CopyFails, ClearSnapshot, ScriptFails,
         StartUpload, Cleanup, EndJob, vars, storage, bucket
<1> QED BY <1>1, <1>2, <1>3

LEMMA OpenedStep ==
  ASSUME TypeInv, Opened, [Next]_vars
  PROVE  Opened'
<1> USE DayAssumption, WritesAssumption DEF Days, Versions, Opened, TypeInv, TypeOK
<1>1. CASE Midnight
  BY <1>1 DEF Midnight, cassandra
<1>2. CASE \E m \in Nodes : Write(m)
  BY <1>2 DEF Write
<1>3. CASE UNCHANGED <<day, data, opening>>
  BY <1>3
<1> QED
  BY <1>1, <1>2, <1>3
     DEF Next, PlaybookStep, StartJob, TakeSnapshot, SnapshotKeepingOld, SnapshotFails,
         Prepare, Walk, CopyTable, CopyFails, ClearSnapshot, ScriptFails, StartUpload,
         Upload, UploadFails, Cleanup, EndJob, vars, cassandra, history

LEMMA FreshStep == FreshInv /\ [Next]_vars => FreshInv'
<1> SUFFICES ASSUME FreshInv, [Next]_vars
             PROVE  FreshInv'
  OBVIOUS
<1>1. TypeInv /\ TypeInv' /\ Opened'
  BY StepType, OpenedStep DEF FreshInv
<1>2. ASSUME NEW n \in Nodes, NEW d \in Days, NEW v \in Copied, OfDay(n, d, v)
      PROVE  OfDay(n, d, v)'
  BY <1>1, <1>2, OfDayStep
<1>3. ASSUME NEW n \in Nodes, NEW d \in Days, NEW v \in {None, Incomplete}
      PROVE  OfDay(n, d, v)'
  BY WritesAssumption DEF OfDay, Versions, None, Incomplete
<1>4. /\ day \in Days
      /\ data \in [Nodes -> Versions]
      /\ snapshots \in [Nodes -> [Days -> Stored]]
      /\ dir \in [Nodes -> [Tables -> Copied]]
  BY <1>1 DEF TypeInv, TypeOK
<1>5. SnapshotsOfDay'
  <2> SUFFICES ASSUME NEW n \in Nodes, NEW d \in Days
               PROVE  OfDay(n, d, snapshots[n][d])'
    BY DEF SnapshotsOfDay
  <2>1. \/ snapshots'[n][d] \in {snapshots[n][d], None}
        \/ d = day /\ snapshots'[n][d] = data[n]
    BY <1>1, StationStep
  <2>2. PICK v \in Copied : v = snapshots'[n][d]
    BY <2>1, <1>4
  <2>3. OfDay(n, d, snapshots[n][d]) /\ OfDay(n, day, data[n])
    BY LiveOfDay DEF FreshInv, SnapshotsOfDay
  <2>4. OfDay(n, d, v) \/ v \in {None, Incomplete}
    BY <2>1, <2>2, <2>3
  <2>5. OfDay(n, d, v)'
    BY <2>4, <1>2, <1>3
  <2> QED BY <2>2, <2>5 DEF OfDay
<1>6. FoldersOfDay'
  <2> SUFFICES ASSUME NEW n \in Nodes, NEW t \in Tables,
                      task'[n] \in {"script", "copy", "upload", "send"}
               PROVE  OfDay(n, name[n], dir[n][t])'
    BY DEF FoldersOfDay
  <2>1. name'[n] \in Days /\ dir'[n][t] \in Copied
    BY <1>1 DEF TypeInv, TypeOK, Named
  <2>2. PICK d \in Days, v \in Copied : d = name'[n] /\ v = dir'[n][t]
    BY <2>1
  <2>3. \/ v \in {None, Incomplete}
        \/ d = name[n] /\ v = snapshots[n][name[n]]
        \/ /\ task[n] \in {"script", "copy", "upload", "send"}
           /\ d = name[n] /\ v = dir[n][t]
    BY <1>1, <2>2, StationStep
  <2>4. OfDay(n, d, v) \/ v \in {None, Incomplete}
    BY <2>3 DEF FreshInv, SnapshotsOfDay, FoldersOfDay
  <2>5. OfDay(n, d, v)'
    BY <2>4, <1>2, <1>3
  <2> QED BY <2>2, <2>5 DEF OfDay
<1>7. CloudOfDay'
  <2> SUFFICES ASSUME NEW c \in cloud', NEW n \in Nodes, NEW d \in Days, c.folder = <<n, d>>
               PROVE  c.node = n /\ OfDay(n, d, c.version)'
    BY DEF CloudOfDay
  <2>1. PICK v \in Copied : v = c.version
    BY <1>1 DEF TypeInv, TypeOK, Copies
  <2>2. ASSUME NEW b \in cloud, b.folder = <<n, d>>
        PROVE  b.node = n /\ OfDay(n, d, b.version)
    BY <2>2 DEF FreshInv, CloudOfDay
  <2>3. c.node = n /\ (v = Incomplete \/ OfDay(n, d, v))
    <3>1. CASE cloud' = cloud
      BY <2>1, <2>2, <3>1
    <3>2. CASE cloud' # cloud
      <4>1. PICK m \in Nodes, tables \in SUBSET Tables, whole \in SUBSET Tables :
              task[m] = "send" /\ Uploaded(m, tables, whole)
        BY <1>1, <3>2, CloudStep
      <4>2. ASSUME NEW s \in Sent(m, tables, whole), s.folder = <<n, d>>
            PROVE  s.node = n /\ (s.version = Incomplete \/ OfDay(n, d, s.version))
        <5>1. /\ destination[m] = <<n, d>> /\ s.node = m
              /\ s.version = Incomplete \/ \E t \in Tables : s.version = dir[m][t]
          <6>1. \A a \in Sent(m, tables, whole) :
                  /\ a.folder = destination[m] /\ a.node = m
                  /\ a.version = Incomplete \/ \E t \in Tables : a.version = dir[m][t]
            BY <1>1, <4>1, SentCopies
          <6> QED BY <4>2, <6>1
        <5>2. destination[m] = <<m, name[m]>>
          <6>1. destination[m] \in {SharedPath, UploadAs(m)}
            BY <1>1, <4>1 DEF TypeInv, Directed
          <6>2. SharedPath # <<n, d>>
            BY Places
          <6> QED BY <5>1, <6>1, <6>2 DEF UploadAs
        <5>3. m = n /\ name[n] = d
          BY <5>1, <5>2
        <5>4. \A t \in Tables : OfDay(n, d, dir[n][t])
          BY <4>1, <5>3 DEF FreshInv, FoldersOfDay
        <5> QED BY <5>1, <5>3, <5>4
      <4>3. \/ c \in cloud \union Sent(m, tables, whole)
            \/ \E b \in cloud \union Sent(m, tables, whole) :
                 c.folder = b.folder /\ c.node = b.node /\ c.version = Incomplete
        BY <1>1, <4>1, UploadedCopies
      <4> QED BY <2>1, <2>2, <4>2, <4>3
    <3> QED BY <3>1, <3>2
  <2>4. OfDay(n, d, v)'
    BY <2>3, <1>2, <1>3
  <2> QED BY <2>1, <2>3, <2>4 DEF OfDay
<1> QED BY <1>1, <1>5, <1>6, <1>7 DEF FreshInv

LEMMA InitFresh == Init => FreshInv
<1> SUFFICES ASSUME Init
             PROVE  FreshInv
  OBVIOUS
<1>1. TypeInv
  BY InitType
<1>2. ASSUME NEW n \in Nodes, NEW d \in Days
      PROVE  OfDay(n, d, None)
  BY WritesAssumption DEF OfDay, Versions, None
<1>3. Opened
  <2>1. day \in Days /\ opening = [d \in Days |-> [n \in Nodes |-> 0]]
    BY DayAssumption DEF Init, Days
  <2>2. opening[day] = [n \in Nodes |-> 0]
    BY <2>1
  <2>3. \A n \in Nodes : opening[day][n] = 0 /\ data[n] = 0
    BY <2>2 DEF Init
  <2>4. ASSUME NEW n \in Nodes
        PROVE  opening[day][n] <= data[n]
    <3>1. opening[day][n] = 0 /\ data[n] = 0
      BY <2>3
    <3> QED BY <3>1
  <2> QED BY <2>4 DEF Opened
<1>4. \A n \in Nodes, d \in Days :
        snapshots[n][d] = None /\ task[n] = "done"
  BY DEF Init
<1>5. SnapshotsOfDay /\ CloudOfDay
  BY <1>2, <1>4 DEF SnapshotsOfDay, CloudOfDay, Init
<1>6. FoldersOfDay
  BY DEF Init, FoldersOfDay
<1> QED BY <1>1, <1>3, <1>5, <1>6 DEF FreshInv

LEMMA FreshImplies == FreshInv => FreshForItsDay
  BY DEF FreshInv, TypeInv, TypeOK, Copies, CloudOfDay, OfDay, FreshForItsDay

LEMMA FreshAlways == Spec => []FreshInv
  BY InitFresh, FreshStep, PTL DEF Spec

(* Under the name of a node and a day the cloud holds data of that node on *)
(* that day, over failed jobs, repeated jobs and jobs that run past        *)
(* midnight, with any provider (cassandra-backup.yml:14,                   *)
(* tasks/main.yml:17, 35-71).                                              *)
THEOREM CloudIsFresh == Spec => []FreshForItsDay
  BY FreshAlways, FreshImplies, PTL

-----------------------------------------------------------------------------
LEMMA ProgressStep == DoneInv /\ [Next]_vars => Progress'
<1> SUFFICES ASSUME DoneInv, [Next]_vars
             PROVE  Progress'
  OBVIOUS
<1>1. TypeInv /\ TypeInv'
  BY StepType DEF DoneInv, CopyInv
<1>2. /\ day \in Days
      /\ data \in [Nodes -> Versions]
      /\ snapshots \in [Nodes -> [Days -> Stored]]
      /\ task \in [Nodes -> {"snapshot", "prepare", "script", "copy", "upload",
                             "send", "cleanup", "done", "failed"}]
      /\ name \in [Nodes -> Days \union {None}]
      /\ pool \in [Nodes -> SUBSET Tables]
      /\ dir \in [Nodes -> [Tables -> Copied]]
      /\ taken \in [Nodes -> Stored]
      /\ takenOn \in [Nodes -> Days \union {None}]
      /\ Staged /\ Named /\ Directed /\ LatestTaken /\ Progress
  BY <1>1 DEF TypeInv, TypeOK, DoneInv, CopyInv
<1> USE <1>2
<1> USE DEF Progress, Prepared, Copying, CopiedAll, UploadedAll, Excused, Running,
            Staged, Named, SharesFolder, Kept, cassandra, playbook, bucket, storage, history
<1>3. ASSUME NEW n \in Nodes, TakeSnapshot(n)
      PROVE  Progress'
  BY <1>3 DEF TakeSnapshot, AtSnapshot, LiveData, Cleared
<1>4. ASSUME NEW n \in Nodes, SnapshotKeepingOld(n)
      PROVE  Progress'
  BY <1>4 DEF SnapshotKeepingOld, AtSnapshot, LiveData
<1>5. ASSUME NEW n \in Nodes, Prepare(n)
      PROVE  Progress'
  BY <1>5 DEF Prepare, At, Nothing
<1>6. ASSUME NEW n \in Nodes, Walk(n)
      PROVE  Progress'
  <2>1. Latest(n)
    BY <1>6 DEF Walk, At, LatestTaken
  <2>2. Excused(n) \/ snapshots[n][name[n]] # None
    BY <1>6, <2>1, WritesAssumption DEF Walk, At, Latest, Versions, None
  <2>3. Excused(n) \/ pool'[n] = Tables
    BY <1>6, <2>2 DEF Walk, Submitted, Tables
  <2>4. \A m \in Nodes : pool'[m] = pool[m] \/ m = n
    BY <1>6 DEF Walk
  <2>5. /\ task[n] = "script"
        /\ task' = [task EXCEPT ![n] = "copy"]
        /\ UNCHANGED <<snapshots, job, name, dir, cloud, destination, taken, takenOn, lost>>
    BY <1>6 DEF Walk, At
  <2>6. \A m \in Nodes : (job \in {"backups", "done"} => UploadedAll(m))'
    BY <2>5
  <2>7. \A m \in Nodes : Copying(m)' /\ CopiedAll(m)' /\ (Running => Prepared(m))'
    BY <2>3, <2>4, <2>5
  <2>8. (job = "done" => \A m \in Nodes : task[m] = "done")'
    BY <2>5
  <2> QED BY <2>6, <2>7, <2>8
<1>7. ASSUME NEW n \in Nodes, NEW t \in Tables, CopyTable(n, t)
      PROVE  Progress'
  <2>1. /\ task[n] = "copy"
        /\ UNCHANGED <<snapshots, job, task, name, cloud, destination, taken, takenOn, lost>>
    BY <1>7 DEF CopyTable, At
  <2>2. \A m \in Nodes : (job \in {"backups", "done"} => UploadedAll(m))'
    BY <2>1
  <2>3. Excused(n) \/ snapshots[n][name[n]] = taken[n]
    BY <2>1
  <2>4. \A m \in Nodes : CopiedAll(m)'
    BY <1>7, <2>1, <2>3 DEF CopyTable, Source
  <2>5. /\ \A m \in Nodes : Copying(m)' /\ (Running => Prepared(m))'
        /\ (job = "done" => \A m \in Nodes : task[m] = "done")'
    BY <2>1
  <2> QED BY <2>2, <2>4, <2>5
<1>8. ASSUME NEW n \in Nodes, NEW t \in Tables, CopyFails(n, t)
      PROVE  Progress'
  BY <1>8 DEF CopyFails, At
<1>9. ASSUME NEW n \in Nodes, ClearSnapshot(n)
      PROVE  Progress'
  BY <1>9 DEF ClearSnapshot, CopiesEnded, At
<1>10. ASSUME NEW n \in Nodes, ScriptFails(n)
      PROVE  Progress'
  BY <1>10 DEF ScriptFails, CopiesEnded, At, Fails
<1>11. ASSUME NEW n \in Nodes, Cleanup(n)
      PROVE  Progress'
  BY <1>11 DEF Cleanup, At, Nothing
<1>12. ASSUME NEW n \in Nodes, SnapshotFails(n)
       PROVE  Progress'
  BY <1>12 DEF SnapshotFails, AtSnapshot
<1>13. ASSUME NEW n \in Nodes, StartUpload(n)
       PROVE  Progress'
  <2>1. /\ task[n] = "upload" /\ job = "backups" /\ destination[n] = Nowhere
        /\ task' = [task EXCEPT ![n] = "send"]
        /\ UNCHANGED <<snapshots, job, name, pool, dir, cloud, taken, takenOn, lost>>
        /\ \A m \in Nodes \ {n} : destination'[m] = destination[m]
    BY <1>1, <1>13 DEF StartUpload, At, TypeInv, TypeOK, Directed
  <2>2. ASSUME NEW m \in Nodes, task[m] \in {"cleanup", "done"}, SharesFolder(m)
        PROVE  SharesFolder(m)'
    <3>1. PICK k \in Nodes \ {m} : destination[k] = destination[m]
      BY <2>2
    <3>2. m # n
      BY <2>1, <2>2
    <3>5. destination[m] \in Folders
      <4>1. CASE task[m] = "done"
        BY <2>1, <4>1 DEF Directed
      <4>2. CASE task[m] = "cleanup"
        <5>1. destination[m] \in {SharedPath, UploadAs(m)} /\ name[m] \in Days
          BY <4>2 DEF Directed
        <5>2. <<m, name[m]>> \in Folders
          BY <5>1, Places
        <5> QED BY <5>1, <5>2 DEF UploadAs, Folders
      <4> QED BY <2>2, <4>1, <4>2
    <3>6. destination[m] # Nowhere
      BY <3>5, FolderAssumption
    <3>3. k # n /\ k \in Nodes
      BY <2>1, <3>1, <3>6
    <3>4. destination'[k] = destination'[m]
      BY <2>1, <3>1, <3>2, <3>3
    <3> QED BY <3>1, <3>4
  <2>3. \A m \in Nodes : UploadedAll(m)'
    BY <2>1, <2>2
  <2> QED BY <2>1, <2>3
<1>14. ASSUME NEW n \in Nodes, Upload(n) \/ UploadFails(n)
       PROVE  Progress'
  <2>1. PICK tables \in SUBSET Tables, whole \in SUBSET Tables :
          /\ Uploaded(n, tables, whole)
          /\ Upload(n) => tables = Tables /\ whole = Tables
    BY <1>14 DEF Upload, UploadFails
  <2>2. /\ task[n] = "send" /\ job = "backups"
        /\ task' = [task EXCEPT ![n] = IF Upload(n) THEN "cleanup" ELSE "failed"]
        /\ UNCHANGED <<snapshots, job, name, pool, dir, destination, taken, takenOn, lost>>
    BY <1>14 DEF Upload, UploadFails, At, Fails
  <2>3. ASSUME NEW m \in Nodes, m # n, UploadedAll(m)
        PROVE  UploadedAll(m)'
    <3>1. ASSUME NEW t \in Tables, Kept(m, t), ~Kept(m, t)'
          PROVE  SharesFolder(m)
      <4>1. \A c \in cloud : c \in cloud' \/ c.folder = destination[n]
        BY <1>1, <2>1, <2>2, UploadedCopies
      <4>2. destination[m] = destination[n]
        BY <2>2, <3>1, <4>1
      <4> QED BY <2>3, <4>2
    <3> QED BY <2>2, <2>3, <3>1
  <2>4. CASE Upload(n)
    <3>1. Latest(n)
      BY <2>2 DEF LatestTaken
    <3>2. taken[n] # None
      BY <3>1, WritesAssumption DEF Latest, Versions, None
    <3>3. ASSUME NEW t \in Tables, dir[n][t] = taken[n]
          PROVE  Kept(n, t)' \/ SharesFolder(n)
      <4>1. [folder |-> destination[n], table |-> t, node |-> n, version |-> taken[n]]
              \in Sent(n, Tables, Tables)
        BY <3>2, <3>3 DEF Sent
      <4>2. \A s \in Sent(n, Tables, Tables) : s \in cloud' \/ SharesFolder(n)
        BY <1>1, <2>1, <2>2, <2>4, UploadedCopies
      <4> QED BY <2>2, <4>1, <4>2
    <3>4. UploadedAll(n)'
      BY <2>2, <3>3
    <3> QED BY <2>2, <2>3, <2>4, <3>4
  <2>5. CASE ~Upload(n)
    BY <2>2, <2>3, <2>5
  <2> QED BY <2>4, <2>5
<1>15. ASSUME NEW n \in Nodes, Write(n)
       PROVE  Progress'
  BY <1>15 DEF Write
<1>16. CASE Midnight
  BY <1>16 DEF Midnight
<1>17. CASE StartJob
  BY <1>17 DEF StartJob
<1>18. CASE EndJob
  BY <1>18 DEF EndJob
<1>19. CASE UNCHANGED vars
  BY <1>19 DEF vars
<1> QED
  BY <1>3, <1>4, <1>5, <1>6, <1>7, <1>8, <1>9, <1>10, <1>11, <1>12, <1>13, <1>14,
     <1>15, <1>16, <1>17, <1>18, <1>19
     DEF Next, PlaybookStep

LEMMA InitDone == Init => DoneInv
<1> SUFFICES ASSUME Init
             PROVE  DoneInv
  OBVIOUS
<1>1. CopyInv
  BY InitSafe
<1>2. job = "idle" /\ \A n \in Nodes : task[n] = "done"
  BY DEF Init
<1> QED BY <1>1, <1>2
        DEF DoneInv, Progress, Prepared, Copying, CopiedAll, UploadedAll, Running

LEMMA DoneStep == DoneInv /\ [Next]_vars => DoneInv'
  BY CopyStep, ProgressStep DEF DoneInv

LEMMA DoneImplies == DoneInv => DoneMeansBackedUp
  BY DEF DoneInv, Progress, UploadedAll, Excused, DoneMeansBackedUp

(* A job that ends well has uploaded every table of the snapshots it took, *)
(* unless a copy failed, the day changed between the plays or another node *)
(* sent to the same folder (cassandra_backup.py:114-118, tasks/main.yml:17,*)
(* 55).                                                                    *)
THEOREM DoneIsBackedUp == Spec => []DoneMeansBackedUp
<1>1. Spec => []DoneInv
  BY InitDone, DoneStep, PTL DEF Spec
<1> QED BY <1>1, DoneImplies, PTL

(* With azcopy, which keeps the name of the folder it copies, no node's    *)
(* files meet another's: a job that ends well has uploaded every table of  *)
(* the snapshots it took, but for a copy that failed and a day that changed*)
(* between the plays (upload-using-azcopy.yml:19, tasks/main.yml:17).      *)
THEOREM AzureKeepsNodesApart ==
  Spec => [](job = "done" /\ provider = "azure" =>
               \A n \in Nodes : Excused(n) \/ \A t \in Tables : Kept(n, t))
<1>1. ASSUME DoneInv, job = "done", provider = "azure", NEW n \in Nodes
      PROVE  Excused(n) \/ \A t \in Tables : Kept(n, t)
  <2>1. \A m \in Nodes : task[m] = "done"
    BY <1>1 DEF DoneInv, Progress
  <2>2. \A m \in Nodes : destination[m] = <<m, name[m]>>
    BY <1>1, <2>1 DEF DoneInv, CopyInv, TypeInv, Directed, UploadAs
  <2>3. ~SharesFolder(n)
    BY <2>2 DEF SharesFolder
  <2> QED BY <1>1, <2>1, <2>3 DEF DoneInv, Progress, UploadedAll
<1>2. Spec => []DoneInv
  BY InitDone, DoneStep, PTL DEF Spec
<1>3. DoneInv => (job = "done" /\ provider = "azure" =>
                    \A n \in Nodes : Excused(n) \/ \A t \in Tables : Kept(n, t))
  BY <1>1
<1> QED BY <1>2, <1>3, PTL
====
