------------------------- MODULE PluginStore_proofs -------------------------
(***************************************************************************)
(* The plugin store is proved correct for any plugins, versions, contents  *)
(* and requests.  The records stay well formed because every snapshot that *)
(* is on its way to the file is; what is saved is right because a save     *)
(* that has the store to itself writes the present records into an empty   *)
(* file (SaveInv), and because loading well-formed records changes nothing *)
(* (LoadedSaved).                                                          *)
(***************************************************************************)
EXTENDS PluginStore, TLAPS

JobsIdle == \A r \in Requests : job[r] = Idle

SaveInv ==
    server = "up" /\ ~unsafe =>
       /\ \A r, q \in Requests : job[r] # Idle /\ job[q] # Idle => r = q
       /\ \A r \in Requests : job[r] # Idle => job[r].snapshot = records
       /\ \A r \in Requests : job[r].pc = "write" => file = Empty
       /\ JobsIdle => file \notin {Empty, Broken} /\ Loaded(file) = records

WellInv ==
    /\ RecordsWellFormed
    /\ \A r \in Requests : job[r] # Idle => AllWellFormed(job[r].snapshot)

NoRun == server # "up" => JobsIdle

IInv == TypeOK /\ NoRun /\ WellInv /\ SaveInv

-----------------------------------------------------------------------------
(* The records.                                                            *)

\* The first upload of a plugin gives a well-formed record.
LEMMA FromPackage ==
  ASSUME NEW pkg \in Packages, NEW disabled \in BOOLEAN
  PROVE  /\ recordFromPackage(pkg, disabled) \in Records
         /\ WellFormed(recordFromPackage(pkg, disabled))
BY DEF recordFromPackage, Records, Packages, WellFormed, recordHasVersion, IndicesOf

\* An upload keeps the other versions, and adds or replaces its own.
LEMMA Upsert ==
  ASSUME NEW record \in Records, NEW pkg \in Packages, WellFormed(record)
  PROVE  /\ upsertPluginVersion(record, pkg) \in Seq(Packages)
         /\ upsertPluginVersion(record, pkg) # <<>>
         /\ \A i, j \in DOMAIN upsertPluginVersion(record, pkg) :
              upsertPluginVersion(record, pkg)[i].version = upsertPluginVersion(record, pkg)[j].version => i = j
         /\ IndicesOf(upsertPluginVersion(record, pkg), pkg.version) # {}
         /\ \A v : recordHasVersion(record, v) => IndicesOf(upsertPluginVersion(record, pkg), v) # {}
<1> DEFINE vs == record.Versions
           same == IndicesOf(vs, pkg.version)
           new == upsertPluginVersion(record, pkg)
<1>1. /\ vs \in Seq(Packages) /\ vs # <<>>
      /\ \A i, j \in DOMAIN vs : vs[i].version = vs[j].version => i = j
  BY DEF Records, WellFormed
<1> HIDE DEF vs
<1>2. CASE same = {}
  <2>1. new = Append(vs, pkg)
    BY <1>2 DEF upsertPluginVersion, vs
  <2>2. /\ new \in Seq(Packages) /\ Len(new) = Len(vs) + 1 /\ new[Len(vs) + 1] = pkg
        /\ \A i \in 1..Len(vs) : new[i] = vs[i]
    BY <1>1, <2>1
  <2>3. \A i \in 1..Len(vs) : vs[i].version # pkg.version
    BY <1>1, <1>2 DEF IndicesOf
  <2> HIDE DEF new
  <2>4. DOMAIN new = 1..Len(vs) + 1 /\ Len(vs) \in Nat /\ DOMAIN vs = 1..Len(vs)
    BY <1>1, <2>2
  <2>5. \A i, j \in DOMAIN new : new[i].version = new[j].version => i = j
    BY <1>1, <2>2, <2>3, <2>4
  <2>6. IndicesOf(new, pkg.version) # {}
    BY <2>2, <2>4 DEF IndicesOf
  <2>7. \A v : recordHasVersion(record, v) => IndicesOf(new, v) # {}
    BY <2>2, <2>4 DEF IndicesOf, recordHasVersion, vs
  <2> QED
    BY <2>2, <2>4, <2>5, <2>6, <2>7 DEF new
<1>3. CASE same # {}
  <2>1. PICK k \in DOMAIN vs : vs[k].version = pkg.version
    BY <1>3 DEF IndicesOf
  <2>2. \A i \in same : i = k
    BY <1>1, <2>1 DEF IndicesOf
  <2>3. same = {k}
    BY <1>3, <2>2
  <2>4. k \in 1..Len(vs) /\ Len(vs) \in Nat
    BY <1>1, <2>1
  <2>5. (CHOOSE i \in same : \A j \in same : i <= j) = k
    BY <2>3, <2>4
  <2>6. new = [vs EXCEPT ![k] = pkg]
    BY <1>3, <2>5 DEF upsertPluginVersion, vs
  <2>7. /\ new \in Seq(Packages) /\ DOMAIN new = DOMAIN vs /\ new[k] = pkg
        /\ \A i \in DOMAIN vs \ {k} : new[i] = vs[i]
    BY <1>1, <2>1, <2>6
  <2> HIDE DEF new
  <2>8. \A i \in DOMAIN vs : new[i].version = vs[i].version
    BY <2>1, <2>7
  <2>9. \A i, j \in DOMAIN new : new[i].version = new[j].version => i = j
    BY <1>1, <2>7, <2>8
  <2>10. IndicesOf(new, pkg.version) # {} /\ new # <<>>
    BY <2>1, <2>7 DEF IndicesOf
  <2>11. \A v : recordHasVersion(record, v) => IndicesOf(new, v) # {}
    BY <2>7, <2>8 DEF IndicesOf, recordHasVersion, vs
  <2> QED
    BY <2>7, <2>9, <2>10, <2>11 DEF new
<1> QED
  BY <1>2, <1>3

\* Loading what was saved gives it back.
LEMMA LoadedSaved ==
  ASSUME NEW recs \in Stores, AllWellFormed(recs)
  PROVE  Loaded(Saved(recs)) = recs
<1>1. \A n \in Names : Loaded(Saved(recs))[n] = recs[n]
  BY DEF Loaded, Saved, AllWellFormed, WellFormed, normalizePluginRecord
<1> QED
  BY <1>1 DEF Loaded, Stores

\* Loading gives well-formed records, from either kind of file.
LEMMA LoadedWell ==
  ASSUME \/ file = Missing
         \/ file \in [kind : {"records"}, data : Stores] /\ AllWellFormed(file.data)
         \/ file \in [kind : {"legacy"}, data : Legacy]
  PROVE  Loaded(file) \in Stores /\ AllWellFormed(Loaded(file))
<1>1. CASE file = Missing
  BY <1>1 DEF Loaded, Missing, Stores, AllWellFormed
<1>2. CASE file \in [kind : {"records"}, data : Stores] /\ AllWellFormed(file.data)
  <2>1. file = Saved(file.data) /\ file.data \in Stores
    BY <1>2 DEF Saved
  <2> QED
    BY <1>2, <2>1, LoadedSaved
<1>3. CASE file \in [kind : {"legacy"}, data : Legacy]
  <2>1. \A n \in Names : Loaded(file)[n] = IF file.data[n] = NoRecord THEN NoRecord
                                           ELSE recordFromPackage(file.data[n].pkg, file.data[n].Disabled)
    BY <1>3 DEF Loaded
  <2>2. \A n \in Names : file.data[n] # NoRecord => file.data[n].pkg \in Packages /\ file.data[n].Disabled \in BOOLEAN
    BY <1>3 DEF Legacy
  <2>3. \A n \in Names : Loaded(file)[n] # NoRecord => Loaded(file)[n] \in Records /\ WellFormed(Loaded(file)[n])
    BY <2>1, <2>2, FromPackage
  <2> QED
    BY <2>3 DEF Loaded, Stores, AllWellFormed
<1> QED
  BY <1>1, <1>2, <1>3

-----------------------------------------------------------------------------
(* The invariant.                                                          *)

\* No records before the file is loaded.
LEMMA InitInv == Init => IInv
<1> SUFFICES ASSUME Init PROVE IInv
  OBVIOUS
<1>1. TypeOK
  BY DEF Init, TypeOK, Stores
<1>2. NoRun /\ SaveInv
  BY DEF Init, NoRun, SaveInv, JobsIdle
<1>3. WellInv
  BY DEF Init, WellInv, RecordsWellFormed, AllWellFormed, Missing
<1> QED
  BY <1>1, <1>2, <1>3 DEF IInv

\* A change of the records, whatever it is, that keeps them well formed.
LEMMA CommitInv ==
  ASSUME IInv, NEW r \in Requests, NEW recs \in Stores, AllWellFormed(recs), Ready(r), Commit(r, recs)
  PROVE  IInv'
<1> DEFINE new == [pc |-> "open", snapshot |-> recs]
<1>1. /\ records' = recs /\ UNCHANGED <<server, file>> /\ server = "up" /\ job[r] = Idle
      /\ job' = [job EXCEPT ![r] = new]
  BY DEF Commit, Ready
<1>2. /\ unsafe' = (\E q \in Requests \ {r} : job[q] # Idle)
  BY DEF Commit
<1>3. /\ new \in [pc : {"open", "write"}, snapshot : Stores] /\ new # Idle
      /\ new.pc = "open" /\ new.snapshot = recs
  BY DEF Idle
<1> HIDE DEF new
<1>4. job'[r] = new /\ \A q \in Requests \ {r} : job'[q] = job[q]
  BY <1>1 DEF IInv, TypeOK
<1>5. TypeOK'
  <2>1. unsafe' \in BOOLEAN
    BY <1>2
  <2>2. job' \in [Requests -> {Idle} \cup [pc : {"open", "write"}, snapshot : Stores]]
    BY <1>1, <1>3 DEF IInv, TypeOK
  <2> QED
    BY <1>1, <2>1, <2>2 DEF IInv, TypeOK
<1>6. NoRun'
  BY <1>1 DEF NoRun
<1>7. WellInv'
  BY <1>1, <1>3, <1>4 DEF IInv, WellInv, RecordsWellFormed
<1>8. SaveInv'
  BY <1>1, <1>2, <1>3, <1>4 DEF SaveInv, JobsIdle, Idle
<1> QED
  BY <1>5, <1>6, <1>7, <1>8 DEF IInv

\* An upload.
LEMMA InstallInv ==
  ASSUME IInv, NEW r \in Requests, NEW n \in Names, NEW pkg \in Packages, NEW disabled \in BOOLEAN,
         install(r, n, pkg, disabled)
  PROVE  IInv'
<1> DEFINE new == IF records[n] = NoRecord THEN recordFromPackage(pkg, disabled)
                  ELSE [ActiveVersion |-> pkg.version, Disabled |-> FALSE,
                        Versions |-> upsertPluginVersion(records[n], pkg)]
<1>1. Ready(r) /\ Commit(r, [records EXCEPT ![n] = new])
  BY DEF install
<1>2. new \in Records /\ WellFormed(new)
  <2>1. CASE records[n] = NoRecord
    BY <2>1, FromPackage
  <2>2. CASE records[n] # NoRecord
    <3>1. records[n] \in Records /\ WellFormed(records[n])
      BY <2>2 DEF IInv, TypeOK, Stores, WellInv, RecordsWellFormed, AllWellFormed
    <3>2. pkg.version \in Versions
      BY DEF Packages
    <3> QED
      BY <2>2, <3>1, <3>2, Upsert DEF Records, WellFormed, recordHasVersion
  <2> QED
    BY <2>1, <2>2
<1> HIDE DEF new
<1>3. [records EXCEPT ![n] = new] \in Stores /\ AllWellFormed([records EXCEPT ![n] = new])
  BY <1>2 DEF IInv, TypeOK, Stores, WellInv, RecordsWellFormed, AllWellFormed
<1> QED
  BY <1>1, <1>3, CommitInv

\* A removal.
LEMMA RemoveInv ==
  ASSUME IInv, NEW r \in Requests, NEW n \in Names, remove(r, n)
  PROVE  IInv'
<1>1. /\ [records EXCEPT ![n] = NoRecord] \in Stores
      /\ AllWellFormed([records EXCEPT ![n] = NoRecord])
  BY DEF IInv, TypeOK, Stores, WellInv, RecordsWellFormed, AllWellFormed
<1> QED
  BY <1>1, CommitInv DEF remove

\* A change of the flag and of the active version, to one that is held.
LEMMA ChangeInv ==
  ASSUME IInv, NEW r \in Requests, NEW n \in Names, records[n] # NoRecord,
         NEW v \in Versions, recordHasVersion(records[n], v), NEW disabled \in BOOLEAN, Ready(r),
         Commit(r, [records EXCEPT ![n] = [records[n] EXCEPT !.ActiveVersion = v, !.Disabled = disabled]])
  PROVE  IInv'
<1> DEFINE new == [records[n] EXCEPT !.ActiveVersion = v, !.Disabled = disabled]
<1>1. records[n] \in Records /\ WellFormed(records[n])
  BY DEF IInv, TypeOK, Stores, WellInv, RecordsWellFormed, AllWellFormed
<1>2. /\ new \in Records /\ new.ActiveVersion = v /\ new.Versions = records[n].Versions
  BY <1>1 DEF Records
<1> HIDE DEF new
<1>3. WellFormed(new)
  BY <1>1, <1>2 DEF WellFormed, recordHasVersion
<1>4. [records EXCEPT ![n] = new] \in Stores /\ AllWellFormed([records EXCEPT ![n] = new])
  BY <1>2, <1>3 DEF IInv, TypeOK, Stores, WellInv, RecordsWellFormed, AllWellFormed
<1> QED
  BY <1>4, CommitInv DEF new

\* The flag changes, the versions do not.
LEMMA SetEnabledInv ==
  ASSUME IInv, NEW r \in Requests, NEW n \in Names, NEW enabled \in BOOLEAN, setEnabled(r, n, enabled)
  PROVE  IInv'
<1> DEFINE v == records[n].ActiveVersion
           disabled == ~enabled
<1>1. records[n] # NoRecord /\ Ready(r) /\ Commit(r, [records EXCEPT ![n].Disabled = disabled])
  BY DEF setEnabled
<1>2. records[n] \in Records /\ WellFormed(records[n])
  BY <1>1 DEF IInv, TypeOK, Stores, WellInv, RecordsWellFormed, AllWellFormed
<1>3. v \in Versions /\ recordHasVersion(records[n], v) /\ disabled \in BOOLEAN
  BY <1>2 DEF Records, WellFormed
<1>4. [records EXCEPT ![n].Disabled = disabled]
        = [records EXCEPT ![n] = [records[n] EXCEPT !.ActiveVersion = v, !.Disabled = disabled]]
  <2> HIDE DEF disabled
  <2>1. [records[n] EXCEPT !.Disabled = disabled] = [records[n] EXCEPT !.ActiveVersion = v, !.Disabled = disabled]
    BY <1>2 DEF Records
  <2> QED
    BY <2>1
<1> HIDE DEF v, disabled
<1> QED
  BY <1>1, <1>3, <1>4, ChangeInv

\* The version that becomes active has been looked up.
LEMMA RollbackInv ==
  ASSUME IInv, NEW r \in Requests, NEW n \in Names, NEW v \in Versions, rollback(r, n, v)
  PROVE  IInv'
<1>1. records[n] # NoRecord /\ recordHasVersion(records[n], v) /\ Ready(r)
  BY DEF rollback
<1>2. Commit(r, [records EXCEPT ![n] = [records[n] EXCEPT !.ActiveVersion = v, !.Disabled = FALSE]])
  BY DEF rollback, IInv, TypeOK, Stores
<1> QED
  BY <1>1, <1>2, ChangeInv

\* The file is empty until the snapshot is written.
LEMMA SaveOpenInv ==
  ASSUME IInv, NEW r \in Requests, SaveOpen(r)
  PROVE  IInv'
<1> DEFINE new == [job[r] EXCEPT !.pc = "write"]
<1>1. job[r] # Idle /\ job[r] \in [pc : {"open", "write"}, snapshot : Stores]
  BY DEF SaveOpen, Idle, IInv, TypeOK
<1>2. /\ file' = Empty /\ UNCHANGED <<server, records, unsafe>>
      /\ job' = [job EXCEPT ![r] = new]
  BY DEF SaveOpen, IInv, TypeOK
<1>3. /\ new \in [pc : {"open", "write"}, snapshot : Stores] /\ new # Idle
      /\ new.pc = "write" /\ new.snapshot = job[r].snapshot
  BY <1>1 DEF Idle
<1> HIDE DEF new
<1>4. job'[r] = new /\ \A q \in Requests \ {r} : job'[q] = job[q]
  BY <1>2 DEF IInv, TypeOK
<1>5. TypeOK'
  BY <1>2, <1>3 DEF IInv, TypeOK
<1>6. NoRun'
  BY <1>1, <1>2 DEF IInv, NoRun, JobsIdle
<1>7. WellInv'
  BY <1>1, <1>2, <1>3, <1>4 DEF IInv, WellInv, RecordsWellFormed, Empty
<1>8. SaveInv'
  BY <1>1, <1>2, <1>3, <1>4 DEF IInv, SaveInv, JobsIdle
<1> QED
  BY <1>5, <1>6, <1>7, <1>8 DEF IInv

\* The end of a save.
LEMMA SavedInv ==
  ASSUME IInv, NEW r \in Requests, SaveWrite(r) \/ SaveFails(r)
  PROVE  IInv'
<1>1. job[r] # Idle /\ job[r] \in [pc : {"open", "write"}, snapshot : Stores]
  BY DEF SaveWrite, SaveFails, Idle, IInv, TypeOK
<1>2. job' = [job EXCEPT ![r] = Idle] /\ UNCHANGED <<server, records>> /\ unsafe' \in {unsafe, TRUE}
  BY DEF SaveWrite, SaveFails
<1>3. job'[r] = Idle /\ \A q \in Requests \ {r} : job'[q] = job[q]
  BY <1>2 DEF IInv, TypeOK
<1>4. file' = Saved(job[r].snapshot) \/ file' = Broken \/ file' = file
  BY DEF SaveWrite, SaveFails
<1>5. server = "up"
  BY <1>1 DEF IInv, NoRun, JobsIdle
<1>6. TypeOK'
  <2>1. \/ file' \in {Missing, Empty, Broken}
        \/ file' \in [kind : {"records"}, data : Stores]
        \/ file' \in [kind : {"legacy"}, data : Legacy]
    BY <1>1, <1>4 DEF IInv, TypeOK, Saved
  <2> QED
    BY <1>2, <2>1 DEF IInv, TypeOK
<1>7. NoRun'
  BY <1>2, <1>5 DEF NoRun
<1>8. WellInv'
  <2>1. file'.kind = "records" => AllWellFormed(file'.data)
    BY <1>1, <1>4 DEF IInv, WellInv, RecordsWellFormed, Saved, Broken
  <2> QED
    BY <1>2, <1>3, <2>1 DEF IInv, WellInv, RecordsWellFormed
<1>9. SaveInv'
  <2> SUFFICES ASSUME ~unsafe' PROVE SaveInv'
    BY DEF SaveInv
  <2>1. SaveWrite(r)
    BY DEF SaveFails
  <2>0. ~unsafe
    BY <2>1 DEF SaveWrite
  <2>2. /\ \A q \in Requests : job[q] # Idle => q = r
        /\ job[r].snapshot = records /\ file = Empty
    BY <1>1, <1>5, <2>0, <2>1 DEF IInv, SaveInv, SaveWrite
  <2>3. file' = Saved(records)
    BY <2>1, <2>2 DEF SaveWrite
  <2>4. Loaded(file') = records /\ file' \notin {Empty, Broken}
    BY <2>3, LoadedSaved DEF IInv, TypeOK, WellInv, RecordsWellFormed, Saved, Empty, Broken
  <2>5. \A q \in Requests : job'[q] = Idle
    BY <1>3, <2>2
  <2> QED
    BY <1>2, <2>4, <2>5 DEF SaveInv, Idle
<1> QED
  BY <1>6, <1>7, <1>8, <1>9 DEF IInv

\* A crash ends all requests and leaves the file.
LEMMA CrashInv ==
  ASSUME IInv, Crash
  PROVE  IInv'
<1>1. /\ server' = "down" /\ UNCHANGED <<records, file, unsafe>>
      /\ job' = [r \in Requests |-> Idle]
  BY DEF Crash
<1>2. TypeOK' /\ NoRun' /\ SaveInv'
  BY <1>1 DEF IInv, TypeOK, NoRun, SaveInv, JobsIdle
<1>3. WellInv'
  BY <1>1 DEF IInv, WellInv, RecordsWellFormed
<1> QED
  BY <1>2, <1>3 DEF IInv

\* A restart takes the records from the file.
LEMMA LoadInv ==
  ASSUME IInv, load
  PROVE  IInv'
<1>1. /\ server = "down" /\ unsafe' = FALSE /\ UNCHANGED <<file, job>> /\ JobsIdle
  BY DEF load, IInv, NoRun
<1>2. CASE server' = "refused" /\ UNCHANGED records
  BY <1>1, <1>2 DEF IInv, TypeOK, NoRun, WellInv, SaveInv, JobsIdle, RecordsWellFormed
<1>3. CASE server' = "up" /\ file \notin {Empty, Broken} /\ records' = Loaded(file)
  <2>1. \/ file = Missing
        \/ file \in [kind : {"records"}, data : Stores] /\ AllWellFormed(file.data)
        \/ file \in [kind : {"legacy"}, data : Legacy]
    BY <1>3 DEF IInv, TypeOK, WellInv, RecordsWellFormed
  <2>2. records' \in Stores /\ AllWellFormed(records')
    BY <1>3, <2>1, LoadedWell
  <2>3. TypeOK' /\ NoRun'
    BY <1>1, <1>3, <2>2 DEF IInv, TypeOK, NoRun
  <2>4. WellInv'
    BY <1>1, <2>2 DEF IInv, WellInv, RecordsWellFormed
  <2>5. Loaded(file)' = records' /\ file' \notin {Empty, Broken}
    BY <1>1, <1>3 DEF Loaded
  <2>6. SaveInv'
    BY <1>1, <2>5 DEF SaveInv, JobsIdle, Idle
  <2> QED
    BY <2>3, <2>4, <2>6 DEF IInv
<1> QED
  BY <1>2, <1>3 DEF load

\* The invariant holds in every reachable state.
LEMMA Inductive == Spec => []IInv
<1>1. ASSUME IInv, [Next]_vars
      PROVE  IInv'
  <2>1. CASE Crash \/ load
    BY <1>1, <2>1, CrashInv, LoadInv
  <2>2. ASSUME NEW r \in Requests, SaveOpen(r) \/ SaveWrite(r) \/ SaveFails(r)
        PROVE  IInv'
    BY <1>1, <2>2, SaveOpenInv, SavedInv
  <2>3. ASSUME NEW r \in Requests, NEW n \in Names,
               \/ \E pkg \in Packages, disabled \in BOOLEAN : install(r, n, pkg, disabled)
               \/ remove(r, n)
               \/ \E enabled \in BOOLEAN : setEnabled(r, n, enabled)
               \/ \E v \in Versions : rollback(r, n, v)
        PROVE  IInv'
    BY <1>1, <2>3, InstallInv, RemoveInv, SetEnabledInv, RollbackInv
  <2>4. CASE UNCHANGED vars
    <3>1. TypeOK' /\ NoRun'
      BY <1>1, <2>4 DEF vars, IInv, TypeOK, NoRun, JobsIdle
    <3>2. WellInv'
      BY <1>1, <2>4 DEF vars, IInv, WellInv, RecordsWellFormed
    <3>3. Loaded(file)' = Loaded(file)
      BY <2>4 DEF vars, Loaded
    <3>4. SaveInv'
      BY <1>1, <2>4, <3>3 DEF vars, IInv, SaveInv, JobsIdle
    <3> QED
      BY <3>1, <3>2, <3>4 DEF IInv
  <2> QED
    BY <1>1, <2>1, <2>2, <2>3, <2>4 DEF Next
<1> QED
  BY <1>1, InitInv, PTL DEF Spec

(***************************************************************************)
(* Records, file and snapshots keep their types.                           *)
(***************************************************************************)
THEOREM TypeCorrect == Spec => []TypeOK
<1>1. IInv => TypeOK
  BY DEF IInv
<1> QED
  BY <1>1, Inductive, PTL

(***************************************************************************)
(* No sequence of operations, overlapping saves and restarts leaves a      *)
(* plugin without the version that is said to be active.                   *)
(***************************************************************************)
THEOREM ActiveVersionIsHeld == Spec => []RecordsWellFormed
<1>1. IInv => RecordsWellFormed
  BY DEF IInv, WellInv
<1> QED
  BY <1>1, Inductive, PTL

(***************************************************************************)
(* What a request that had the store to itself was told is saved is what a *)
(* restart loads.                                                          *)
(***************************************************************************)
THEOREM NothingAnsweredIsLost == Spec => []AnsweredIsSaved
<1>1. IInv => AnsweredIsSaved
  BY DEF IInv, SaveInv, JobsIdle, AnsweredIsSaved
<1> QED
  BY <1>1, Inductive, PTL

\* A step of the running server keeps the versions of a plugin it keeps.
LEMMA KeepsVersions ==
  ASSUME IInv, Next, server = "up", NEW n \in Names, NEW v \in Versions,
         records[n] # NoRecord, recordHasVersion(records[n], v), records'[n] # NoRecord
  PROVE  recordHasVersion(records'[n], v)
<1>1. records \in Stores /\ records[n] \in Records /\ WellFormed(records[n])
  BY DEF IInv, TypeOK, Stores, WellInv, RecordsWellFormed, AllWellFormed
<1>2. CASE records' = records
  BY <1>2
<1>3. ASSUME NEW r \in Requests, NEW m \in Names, NEW pkg \in Packages,
             NEW disabled \in BOOLEAN, install(r, m, pkg, disabled)
      PROVE  recordHasVersion(records'[n], v)
  <2>1. n # m => records'[n] = records[n]
    BY <1>1, <1>3 DEF install, Commit, Stores
  <2>2. n = m => records'[n].Versions = upsertPluginVersion(records[n], pkg)
    BY <1>1, <1>3 DEF install, Commit, Stores
  <2>3. IndicesOf(upsertPluginVersion(records[n], pkg), v) # {}
    BY <1>1, Upsert
  <2> QED
    BY <2>1, <2>2, <2>3 DEF recordHasVersion
<1>4. ASSUME NEW r \in Requests, NEW m \in Names,
             \/ remove(r, m)
             \/ \E enabled \in BOOLEAN : setEnabled(r, m, enabled)
             \/ \E w \in Versions : rollback(r, m, w)
      PROVE  recordHasVersion(records'[n], v)
  <2>1. CASE remove(r, m)
    BY <1>1, <2>1 DEF remove, Commit, Stores
  <2>2. ASSUME NEW enabled \in BOOLEAN, setEnabled(r, m, enabled)
        PROVE  records'[n].Versions = records[n].Versions
    <3>1. records' = [records EXCEPT ![m] = [records[m] EXCEPT !.Disabled = ~enabled]]
      BY <2>2 DEF setEnabled, Commit
    <3>2. [records[n] EXCEPT !.Disabled = ~enabled].Versions = records[n].Versions
      BY <1>1 DEF Records
    <3> QED
      BY <1>1, <3>1, <3>2 DEF Stores
  <2>3. ASSUME NEW w \in Versions, rollback(r, m, w)
        PROVE  records'[n].Versions = records[n].Versions
    <3>1. n = m => records'[n] = [records[n] EXCEPT !.ActiveVersion = w, !.Disabled = FALSE]
      BY <1>1, <2>3 DEF rollback, Commit, Stores
    <3>2. n # m => records'[n] = records[n]
      BY <1>1, <2>3 DEF rollback, Commit, Stores
    <3>3. [records[n] EXCEPT !.ActiveVersion = w, !.Disabled = FALSE].Versions = records[n].Versions
      BY <1>1 DEF Records
    <3> QED
      BY <3>1, <3>2, <3>3
  <2> QED
    BY <1>4, <2>1, <2>2, <2>3 DEF recordHasVersion
<1> QED
  BY <1>2, <1>3, <1>4 DEF Next, Crash, load, SaveOpen, SaveWrite, SaveFails

(***************************************************************************)
(* No upload, rollback or change of the flag drops a version of a plugin   *)
(* that stays: what could be rolled back to still can be.                  *)
(***************************************************************************)
THEOREM RollbackStaysPossible == Spec => VersionsSurvive
<1>1. IInv /\ [Next]_vars =>
        [server = "up" =>
           \A n \in Names, v \in Versions :
              /\ records[n] # NoRecord /\ recordHasVersion(records[n], v)
              /\ records'[n] # NoRecord
              => recordHasVersion(records'[n], v)]_vars
  BY KeepsVersions
<1> QED
  BY <1>1, Inductive, PTL DEF Spec, VersionsSurvive
=============================================================================
