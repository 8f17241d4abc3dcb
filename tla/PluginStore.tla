---------------------------- MODULE PluginStore ----------------------------
(***************************************************************************)
(* server/plugin_store.go: the dynamic plugins the server keeps, in memory *)
(* under s.mu and in plugins.json.  An operation changes the records and   *)
(* takes a snapshot under the lock, and writes the snapshot to the file    *)
(* after it has dropped the lock; every CLI request has its own goroutine. *)
(* os.WriteFile truncates the file, then writes it.  The server may crash  *)
(* at any step and loads the file when it starts.                          *)
(*                                                                         *)
(* A package is its version and its contents (an upload may replace the    *)
(* contents of a version); packages that Validate refuses, and names and   *)
(* versions that are empty, change nothing and are left out.  A plugin's   *)
(* name is the key of its record.                                          *)
(***************************************************************************)
EXTENDS Naturals, Sequences

CONSTANTS
    Names,          \* plugin names
    Versions,
    Contents,       \* what an upload of a version holds
    Requests,       \* goroutines of CLI requests at work at the same time
    NoRecord        \* no plugin of this name

VARIABLES
    server,         \* the server process
    records,        \* pluginStore.records
    file,           \* plugins.json
    job,            \* each request: where it stands, and its snapshot
    unsafe          \* the last operation overlapped another, or a save failed

vars == <<server, records, file, job, unsafe>>

Packages == [version : Versions, content : Contents]
Records == [ActiveVersion : Versions, Disabled : BOOLEAN, Versions : Seq(Packages)]
Stores == [Names -> Records \cup {NoRecord}]
Legacy == [Names -> [pkg : Packages, Disabled : BOOLEAN] \cup {NoRecord}]

Missing == [kind |-> "missing"]
Empty == [kind |-> "empty"]
Broken == [kind |-> "broken"]
Saved(recs) == [kind |-> "records", data |-> recs]

Idle == [pc |-> "idle"]

TypeOK ==
    /\ server \in {"down", "up", "refused"}
    /\ records \in Stores
    /\ \/ file \in {Missing, Empty, Broken}
       \/ file \in [kind : {"records"}, data : Stores]
       \/ file \in [kind : {"legacy"}, data : Legacy]
    /\ job \in [Requests -> {Idle} \cup [pc : {"open", "write"}, snapshot : Stores]]
    /\ unsafe \in BOOLEAN

\* No file yet, or one that an older server wrote as a list of packages.
Init ==
    /\ server = "down"
    /\ records = [n \in Names |-> NoRecord]
    /\ file \in {Missing} \cup [kind : {"legacy"}, data : Legacy]
    /\ job = [r \in Requests |-> Idle]
    /\ unsafe = FALSE

-----------------------------------------------------------------------------
(* The records.                                                            *)

recordFromPackage(pkg, disabled) ==
    [ActiveVersion |-> pkg.version, Disabled |-> disabled, Versions |-> <<pkg>>]

IndicesOf(versions, v) == {i \in DOMAIN versions : versions[i].version = v}

recordHasVersion(record, v) == IndicesOf(record.Versions, v) # {}

\* Mutant: an upload takes the place of all earlier versions.
replacePluginVersions(record, pkg) == <<pkg>>

\* The first entry of the same version is replaced, or the package added.
upsertPluginVersion(record, pkg) ==
    LET same == IndicesOf(record.Versions, pkg.version)
    IN  IF same = {} THEN Append(record.Versions, pkg)
        ELSE [record.Versions EXCEPT ![CHOOSE i \in same : \A j \in same : i <= j] = pkg]

\* A record read from the file whose active version is not among its
\* versions gets the last one.
normalizePluginRecord(record) ==
    IF recordHasVersion(record, record.ActiveVersion) THEN record
    ELSE [record EXCEPT !.ActiveVersion = record.Versions[Len(record.Versions)].version]

\* What load makes of the file.
Loaded(f) ==
    [n \in Names |->
        CASE f.kind = "missing" -> NoRecord
          [] f.kind # "missing" /\ f.data[n] = NoRecord -> NoRecord
          [] f.kind = "records" /\ f.data[n] # NoRecord -> normalizePluginRecord(f.data[n])
          [] f.kind = "legacy" /\ f.data[n] # NoRecord ->
                recordFromPackage(f.data[n].pkg, f.data[n].Disabled)]

-----------------------------------------------------------------------------
(* The operations, up to the unlock.                                       *)

\* The records change and the snapshot to save is taken, under s.mu.  (unsafe
\* is an auxiliary variable: it only remembers what has happened.)
Commit(r, recs) ==
    /\ records' = recs
    /\ job' = [job EXCEPT ![r] = [pc |-> "open", snapshot |-> recs]]
    /\ unsafe' = \E q \in Requests \ {r} : job[q] # Idle
    /\ UNCHANGED <<server, file>>

Ready(r) == server = "up" /\ job[r] = Idle

install(r, n, pkg, disabled) ==
    /\ Ready(r)
    /\ Commit(r, [records EXCEPT ![n] =
            IF @ = NoRecord THEN recordFromPackage(pkg, disabled)
            ELSE [ActiveVersion |-> pkg.version, Disabled |-> FALSE,
                  Versions |-> upsertPluginVersion(@, pkg)]])

remove(r, n) ==
    /\ Ready(r)
    /\ records[n] # NoRecord
    /\ Commit(r, [records EXCEPT ![n] = NoRecord])

setEnabled(r, n, enabled) ==
    /\ Ready(r)
    /\ records[n] # NoRecord
    /\ Commit(r, [records EXCEPT ![n].Disabled = ~enabled])

\* Mutant: the version asked for is not looked up.
rollbackUnchecked(r, n, v) ==
    /\ Ready(r)
    /\ records[n] # NoRecord
    /\ Commit(r, [records EXCEPT ![n].ActiveVersion = v, ![n].Disabled = FALSE])

rollback(r, n, v) ==
    /\ Ready(r)
    /\ records[n] # NoRecord
    /\ recordHasVersion(records[n], v)
    /\ Commit(r, [records EXCEPT ![n].ActiveVersion = v, ![n].Disabled = FALSE])

-----------------------------------------------------------------------------
(* save, after the unlock.                                                 *)

SaveOpen(r) ==
    /\ job[r].pc = "open"
    /\ file' = Empty
    /\ job' = [job EXCEPT ![r].pc = "write"]
    /\ UNCHANGED <<server, records, unsafe>>

\* Mutant: the request is answered before its snapshot is written.
SaveWriteLost(r) ==
    /\ job[r].pc = "write"
    /\ file' = file
    /\ job' = [job EXCEPT ![r] = Idle]
    /\ UNCHANGED <<server, records, unsafe>>

\* A file that another request has written since this one truncated it may
\* be longer than the snapshot, and its end then remains.
SaveWrite(r) ==
    /\ job[r].pc = "write"
    /\ \/ file' = Saved(job[r].snapshot)
       \/ file \notin {Empty, Saved(job[r].snapshot)} /\ file' = Broken
    /\ job' = [job EXCEPT ![r] = Idle]
    /\ UNCHANGED <<server, records, unsafe>>

\* The open or the write fails: the request is answered with an error, and
\* the records keep the change.
SaveFails(r) ==
    /\ job[r].pc \in {"open", "write"}
    /\ \/ UNCHANGED file
       \/ job[r].pc = "write" /\ file' = Broken
    /\ job' = [job EXCEPT ![r] = Idle]
    /\ unsafe' = TRUE
    /\ UNCHANGED <<server, records>>

-----------------------------------------------------------------------------
Crash ==
    /\ server = "up"
    /\ server' = "down"
    /\ job' = [r \in Requests |-> Idle]
    /\ UNCHANGED <<records, file, unsafe>>

\* newPluginStore: a file that cannot be parsed keeps the server from
\* starting.
load ==
    /\ server = "down"
    /\ \/ /\ file \in {Empty, Broken}
          /\ server' = "refused"
          /\ UNCHANGED records
       \/ /\ file \notin {Empty, Broken}
          /\ server' = "up"
          /\ records' = Loaded(file)
    /\ unsafe' = FALSE
    /\ UNCHANGED <<file, job>>

Next ==
    \/ Crash \/ load
    \/ \E r \in Requests :
         \/ SaveOpen(r) \/ SaveWrite(r) \/ SaveFails(r)
         \/ \E n \in Names :
              \/ \E pkg \in Packages, disabled \in BOOLEAN : install(r, n, pkg, disabled)
              \/ remove(r, n)
              \/ \E enabled \in BOOLEAN : setEnabled(r, n, enabled)
              \/ \E v \in Versions : rollback(r, n, v)

Spec == Init /\ [][Next]_vars

-----------------------------------------------------------------------------
(* Properties.                                                             *)

WellFormed(record) ==
    /\ record.Versions # <<>>
    /\ \A i, j \in DOMAIN record.Versions :
         record.Versions[i].version = record.Versions[j].version => i = j
    /\ recordHasVersion(record, record.ActiveVersion)

AllWellFormed(recs) == \A n \in Names : recs[n] # NoRecord => WellFormed(recs[n])

(***************************************************************************)
(* Through any sequence of uploads, rollbacks, removals, restarts and      *)
(* overlapping saves, each plugin has an active version that it really     *)
(* holds, exactly once, in memory and in a file that can be read: the      *)
(* fallbacks of activePluginPackage and normalizePluginRecord to the last  *)
(* version are never used, so a plugin never silently runs a version that  *)
(* nobody chose.                                                           *)
(***************************************************************************)
RecordsWellFormed ==
    /\ AllWellFormed(records)
    /\ file.kind = "records" => AllWellFormed(file.data)

(***************************************************************************)
(* When no request is under way, and the last one had the store to itself  *)
(* and was answered with success, a crash loses nothing: the file loads to *)
(* the present records, whatever an earlier overlap, failed save or crash  *)
(* has left in it.                                                         *)
(***************************************************************************)
AnsweredIsSaved ==
    server = "up" /\ ~unsafe /\ (\A r \in Requests : job[r] = Idle) =>
        file \notin {Empty, Broken} /\ Loaded(file) = records

(***************************************************************************)
(* A version that can be rolled back to stays available until its plugin   *)
(* is removed: no upload, rollback or change of the flag drops it.         *)
(***************************************************************************)
VersionsSurvive ==
    [][server = "up" =>
         \A n \in Names, v \in Versions :
            /\ records[n] # NoRecord /\ recordHasVersion(records[n], v)
            /\ records'[n] # NoRecord
            => recordHasVersion(records'[n], v)]_vars
=============================================================================
