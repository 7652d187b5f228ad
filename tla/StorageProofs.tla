---------------------------- MODULE StorageProofs ----------------------------
(***************************************************************************)
(* Theorems about Storage, for any reports, any configuration of backends  *)
(* and any bounds.                                                         *)
(***************************************************************************)
EXTENDS Storage, TLAPS, FiniteSetTheorems, WellFoundedInduction

-----------------------------------------------------------------------------
(* The backend of DuckDB as Storage drives it: what one of its own steps    *)
(* may do to the file.                                                      *)
DuckStep == \/ D!Open \/ D!Close \/ D!GiveUp \/ D!Outside
            \/ \E r \in Reports, ret \in {"ok", "EEXIST", "EINVAL", "EIO"} :
                 D!Insert(r, ret)
            \/ UNCHANGED duck

LEMMA RowIs ==
  ASSUME NEW r \in Reports
  PROVE D!Row(r) \in D!Rows /\ D!Key(D!Row(r)) = D!Key(r)
  BY StorageAssumption, DuckAssumption DEF D!Row, D!Rows, D!Key

LEMMA OutsideStep == Outside => DuckStep
  BY DEF Outside, D!Outside, DuckStep

LEMMA NextIsDuckStep ==
  ASSUME [Next]_vars
  PROVE DuckStep
  <1> USE DEF DuckStep
  <1>0. CASE UNCHANGED vars  BY <1>0 DEF vars
  <1>1. CASE Boot  BY <1>1 DEF Boot
  <1>2. CASE Opens
    BY <1>2 DEF Opens, OpenDuck, OpenCsv, BackendOpen, SkipBackend, DbOpened
  <1>3. CASE Tick  BY <1>3 DEF Tick
  <1>4. CASE Shutdown  BY <1>4 DEF Shutdown
  <1>5. CASE Closes  BY <1>5 DEF Closes, StopPool, CloseBackend, DbClosed
  <1>6. ASSUME NEW r \in Reports, Offload(r) \/ Fallback(r) \/ Handle(r) PROVE DuckStep
    BY <1>6 DEF Offload, Fallback, Handle, Start, Insert, BackendInsert, SetLastRun
  <1>7. CASE Crash  BY <1>7 DEF Crash, D!Outside
  <1>8. CASE Clock  BY <1>8 DEF Clock
  <1>9. CASE Outside  BY <1>9, OutsideStep
  <1> QED  BY <1>0, <1>1, <1>2, <1>3, <1>4, <1>5, <1>6, <1>7, <1>8, <1>9 DEF Next

-----------------------------------------------------------------------------
(* Every step of the backend is one of the series, or none.                 *)
SNext == D!TheSeries!Insert \/ D!TheSeries!Change \/ D!TheSeries!Lose
sound == D!Opens /\ stage \notin {"no wal", "backup", "fresh"}

LEMMA SameRows ==
  ASSUME D!Stored' = D!Stored
  PROVE SNext
  BY DEF SNext, D!TheSeries!Change, D!Opens

LEMMA LosesRows ==
  ASSUME ~sound, D!Stored' \subseteq D!Stored \cup D!Spare
  PROVE SNext
  BY DEF SNext, D!TheSeries!Lose, sound

LEMMA OpenRefines == D!Open => SNext
  <1> SUFFICES ASSUME D!Open PROVE SNext  OBVIOUS
  <1>1. CASE D!BeginOpen  BY <1>1, SameRows DEF D!BeginOpen, D!Stored
  <1>2. CASE D!OpenPlain  BY <1>2, SameRows DEF D!OpenPlain, D!Stored
  <1>3. CASE D!OpenWithoutWal
    <2>1. ~sound  BY <1>3 DEF D!OpenWithoutWal, sound
    <2>2. D!Stored' \subseteq D!Stored  BY <1>3 DEF D!OpenWithoutWal, D!Stored
    <2> QED  BY <2>1, <2>2, LosesRows
  <1>4. CASE D!OpenBackup
    <2>1. ~sound  BY <1>4 DEF D!OpenBackup, sound
    <2>2. D!Stored' \subseteq D!Stored \cup D!Spare
      BY <1>4 DEF D!OpenBackup, D!Unlink, D!Stored, D!Spare
    <2> QED  BY <2>1, <2>2, LosesRows
  <1>5. CASE D!OpenFresh
    <2>1. ~sound  BY <1>5 DEF D!OpenFresh, sound
    <2>2. D!Stored' \subseteq D!Stored  BY <1>5 DEF D!OpenFresh, D!Unlink, D!Stored
    <2> QED  BY <2>1, <2>2, LosesRows
  <1> QED  BY <1>1, <1>2, <1>3, <1>4, <1>5 DEF D!Open

(* While the core has the database open, it could be opened.                *)
OpenIsGood == stage = "open" => file = "good" /\ wal # "bad" /\ ~other

LEMMA OpenIsGoodStep ==
  ASSUME OpenIsGood, DuckStep
  PROVE OpenIsGood'
  <1> USE DEF OpenIsGood
  <1>1. CASE D!Open
    <2>1. CASE D!BeginOpen  BY <2>1 DEF D!BeginOpen
    <2>2. CASE D!OpenPlain  BY <2>2 DEF D!OpenPlain, D!Opened, D!Opens
    <2>3. CASE D!OpenWithoutWal  BY <2>3 DEF D!OpenWithoutWal, D!Opened
    <2>4. CASE D!OpenBackup  BY <2>4 DEF D!OpenBackup, D!Opened, D!Unlink
    <2>5. CASE D!OpenFresh  BY <2>5 DEF D!OpenFresh, D!Opened, D!Unlink
    <2> QED  BY <1>1, <2>1, <2>2, <2>3, <2>4, <2>5 DEF D!Open
  <1>2. CASE D!Close \/ D!GiveUp  BY <1>2 DEF D!Close, D!GiveUp
  <1>3. CASE D!Outside
    BY <1>3 DEF D!Outside, D!AutoCheckpoint, D!Checkpoint, D!Damage, D!OtherOpens,
                D!OtherCloses, D!Die
  <1>4. ASSUME NEW r \in Reports, NEW ret, D!Insert(r, ret) PROVE OpenIsGood'
    BY <1>4 DEF D!Insert, D!InsertOrIgnore
  <1>5. CASE UNCHANGED duck  BY <1>5 DEF duck
  <1> QED  BY <1>1, <1>2, <1>3, <1>4, <1>5 DEF DuckStep

LEMMA InsertRefines ==
  ASSUME OpenIsGood, NEW r \in Reports, NEW ret, D!Insert(r, ret)
  PROVE SNext
  <1>1. CASE D!Stored' = D!Stored  BY <1>1, SameRows
  <1>2. CASE D!Stored' # D!Stored
    <2>1. /\ ~D!Has(D!Stored, r) /\ logged' = logged \cup {D!Row(r)}
          /\ UNCHANGED <<table, file, other, stage>> /\ wal' = "good"
          /\ stage = "open"
      BY <1>2 DEF D!Insert, D!InsertOrIgnore, D!Stored
    <2>2. D!Stored' = D!Stored \cup {D!Row(r)}  BY <2>1 DEF D!Stored
    <2>3. ~D!TheSeries!Has(D!Stored, D!Row(r))
      BY <2>1, RowIs DEF D!Has, D!TheSeries!Has, D!Key, D!TheSeries!Key
    <2>4. sound /\ sound'  BY <2>1 DEF sound, D!Opens, OpenIsGood
    <2> QED  BY <2>2, <2>3, <2>4, RowIs DEF SNext, D!TheSeries!Insert, sound
  <1> QED  BY <1>1, <1>2

LEMMA DuckStepRefines ==
  ASSUME OpenIsGood, DuckStep
  PROVE SNext
  <1>1. CASE D!Open  BY <1>1, OpenRefines
  <1>2. CASE D!Close \/ D!GiveUp
    BY <1>2, SameRows DEF D!Close, D!Checkpoint, D!GiveUp, D!Stored
  <1>3. CASE D!Outside
    BY <1>3, SameRows DEF D!Outside, D!AutoCheckpoint, D!Checkpoint, D!Damage,
                          D!OtherOpens, D!OtherCloses, D!Die, D!Stored
  <1>4. ASSUME NEW r \in Reports, NEW ret, D!Insert(r, ret) PROVE SNext
    BY <1>4, InsertRefines
  <1>5. CASE UNCHANGED duck  BY <1>5, SameRows DEF duck, D!Stored
  <1> QED  BY <1>1, <1>2, <1>3, <1>4, <1>5 DEF DuckStep

(* duckdb_backend.c implements the series: a point keeps the first value    *)
(* that was inserted, whoever inserts and whenever the core is shut down or *)
(* dies, and is lost only in an open whose first attempt has failed.        *)
THEOREM Implements == Spec => ImplementsSeries
  <1>1. Init => OpenIsGood /\ D!TheSeries!SInit
    BY DEF Init, D!Init, OpenIsGood, D!TheSeries!SInit, D!Stored, D!Opens
  <1>2. OpenIsGood /\ [Next]_vars => OpenIsGood' /\ SNext
    BY NextIsDuckStep, OpenIsGoodStep, DuckStepRefines
  <1>3. SNext => [D!TheSeries!Insert \/ D!TheSeries!Change \/ D!TheSeries!Lose]_(D!TheSeries!svars)
    BY DEF SNext
  <1> QED  BY <1>1, <1>2, <1>3, PTL DEF Spec, ImplementsSeries, D!TheSeries!SSpec

-----------------------------------------------------------------------------
(* What is confirmed stays: the table has one row for a point, and a row    *)
(* stays in it or was deleted with its file.                                *)
Kept == D!Stored \cup wiped
OneRow == \A s, t \in D!Stored : D!Key(s) = D!Key(t) => s = t
Held(c) == \E o \in Kept : Owed(c) = {o} /\ D!Key(o) = D!Key(c.report)
HeldInv == /\ OneRow
           /\ \A c \in confirmed : c.report \in Reports /\ Held(c)

LEMMA KeptGrows ==
  ASSUME DuckStep
  PROVE Kept \subseteq Kept'
  <1> USE DEF Kept, D!Stored
  <1>1. CASE D!Open
    <2>1. CASE D!BeginOpen  BY <2>1 DEF D!BeginOpen
    <2>2. CASE D!OpenPlain  BY <2>2 DEF D!OpenPlain
    <2>3. CASE D!OpenWithoutWal  BY <2>3 DEF D!OpenWithoutWal
    <2>4. CASE D!OpenBackup  BY <2>4 DEF D!OpenBackup, D!Unlink
    <2>5. CASE D!OpenFresh  BY <2>5 DEF D!OpenFresh, D!Unlink
    <2> QED  BY <1>1, <2>1, <2>2, <2>3, <2>4, <2>5 DEF D!Open
  <1>2. CASE D!Close \/ D!GiveUp  BY <1>2 DEF D!Close, D!Checkpoint, D!GiveUp
  <1>3. CASE D!Outside
    BY <1>3 DEF D!Outside, D!AutoCheckpoint, D!Checkpoint, D!Damage, D!OtherOpens,
                D!OtherCloses, D!Die
  <1>4. ASSUME NEW r \in Reports, NEW ret, D!Insert(r, ret) PROVE Kept \subseteq Kept'
    BY <1>4 DEF D!Insert, D!InsertOrIgnore
  <1>5. CASE UNCHANGED duck  BY <1>5 DEF duck
  <1> QED  BY <1>1, <1>2, <1>3, <1>4, <1>5 DEF DuckStep

LEMMA OneRowStep ==
  ASSUME OneRow, DuckStep
  PROVE OneRow'
  <1> USE DEF OneRow
  <1>1. CASE D!Stored' \subseteq D!Stored  BY <1>1 DEF D!Key
  <1>2. CASE D!Open
    <2>1. CASE D!BeginOpen  BY <1>1, <2>1 DEF D!BeginOpen, D!Stored
    <2>2. CASE D!OpenPlain  BY <1>1, <2>2 DEF D!OpenPlain, D!Stored
    <2>3. CASE D!OpenWithoutWal  BY <1>1, <2>3 DEF D!OpenWithoutWal, D!Stored
    <2>4. CASE D!OpenBackup
      <3>1. CASE D!Stored' = {}  BY <3>1
      <3>2. ASSUME NEW b \in Backup, D!Stored' = b PROVE OneRow'
        BY <3>2, DuckAssumption DEF D!Key
      <3> QED  BY <1>1, <2>4, <3>1, <3>2 DEF D!OpenBackup, D!Unlink, D!Stored
    <2>5. CASE D!OpenFresh  BY <2>5 DEF D!OpenFresh, D!Unlink, D!Stored
    <2> QED  BY <1>2, <2>1, <2>2, <2>3, <2>4, <2>5 DEF D!Open
  <1>3. CASE D!Close \/ D!GiveUp
    BY <1>1, <1>3 DEF D!Close, D!Checkpoint, D!GiveUp, D!Stored
  <1>4. CASE D!Outside
    BY <1>1, <1>4 DEF D!Outside, D!AutoCheckpoint, D!Checkpoint, D!Damage,
                      D!OtherOpens, D!OtherCloses, D!Die, D!Stored
  <1>5. ASSUME NEW r \in Reports, NEW ret, D!Insert(r, ret) PROVE OneRow'
    <2>1. CASE D!Stored' = D!Stored \cup {D!Row(r)} /\ ~D!Has(D!Stored, r)
      BY <2>1, RowIs DEF D!Has, D!Key
    <2> QED  BY <1>1, <1>5, <2>1 DEF D!Insert, D!InsertOrIgnore, D!Stored
  <1>6. CASE UNCHANGED duck  BY <1>1, <1>6 DEF duck, D!Stored
  <1> QED  BY <1>2, <1>3, <1>4, <1>5, <1>6 DEF DuckStep

LEMMA ConfirmedStep ==
  ASSUME [Next]_vars, NEW c \in confirmed', c \notin confirmed
  PROVE \E r \in Reports : c = Confirmation(r) /\ D!Insert(r, "ok")
  <1>0. CASE UNCHANGED vars  BY <1>0 DEF vars
  <1>1. CASE Boot  BY <1>1 DEF Boot
  <1>2. CASE Opens
    BY <1>2 DEF Opens, OpenDuck, OpenCsv, BackendOpen, SkipBackend, DbOpened
  <1>3. CASE Tick  BY <1>3 DEF Tick
  <1>4. CASE Shutdown  BY <1>4 DEF Shutdown
  <1>5. CASE Closes  BY <1>5 DEF Closes, StopPool, CloseBackend, DbClosed
  <1>6. ASSUME NEW q \in Reports, Offload(q) \/ Fallback(q) \/ Handle(q)
        PROVE c = Confirmation(q) /\ D!Insert(q, "ok")
    <2>1. Insert(q)
      BY <1>6 DEF Offload, Fallback, Handle, Start, SetLastRun
    <2>2. PICK ret \in {"ok", "EEXIST", "EINVAL", "EIO"}, kind \in {"duckdb", "csv"} :
            BackendInsert(kind, q, ret)
      BY <2>1 DEF Insert, BackendInsert
    <2> QED  BY <1>6, <2>2 DEF BackendInsert
  <1>7. CASE Crash  BY <1>7 DEF Crash
  <1>8. CASE Clock  BY <1>8 DEF Clock
  <1>9. CASE Outside  BY <1>9 DEF Outside
  <1> QED  BY <1>0, <1>1, <1>2, <1>3, <1>4, <1>5, <1>6, <1>7, <1>8, <1>9 DEF Next

(* What a confirmation owes is one row of the report's point, which is in   *)
(* the table when the insert returns.                                       *)
LEMMA InsertHolds ==
  ASSUME OneRow, NEW r \in Reports, D!Insert(r, "ok")
  PROVE \E o \in D!Stored' :
          Owed(Confirmation(r)) = {o} /\ D!Key(o) = D!Key(r)
  <1> DEFINE c == Confirmation(r)
  <1>1. c.report = r /\ c.before = RowsOf(r)  BY DEF Confirmation
  <1>2. CASE D!Has(D!Stored, r)
    <2>1. PICK o \in D!Stored : D!Key(o) = D!Key(r)  BY <1>2 DEF D!Has
    <2>2. RowsOf(r) = {o}
      <3> DEFINE key(s) == D!Key(s)
      <3>1. \A s \in D!Stored : key(s) = key(r) => s = o
        BY <2>1 DEF OneRow
      <3> HIDE DEF key
      <3> QED  BY <2>1, <3>1 DEF RowsOf, key
    <2>3. o \in D!Stored'  BY <1>2 DEF D!Insert, D!InsertOrIgnore, D!Stored
    <2>4. Owed(c) = {o}  BY <1>1, <2>2 DEF Owed
    <2> QED  BY <2>1, <2>3, <2>4
  <1>3. CASE ~D!Has(D!Stored, r)
    <2>1. RowsOf(r) = {}  BY <1>3 DEF D!Has, RowsOf
    <2>2. D!Row(r) \in D!Stored'
      BY <1>3 DEF D!Insert, D!InsertOrIgnore, D!Stored
    <2>3. Owed(c) = {D!Row(r)}  BY <1>1, <2>1 DEF Owed
    <2> QED  BY <2>2, <2>3, RowIs
  <1> QED  BY <1>2, <1>3

LEMMA HeldStep ==
  ASSUME HeldInv, [Next]_vars
  PROVE HeldInv'
  <1>1. OneRow'  BY NextIsDuckStep, OneRowStep DEF HeldInv
  <1>2. ASSUME NEW c \in confirmed'
        PROVE c.report \in Reports /\ Held(c)'
    <2>1. CASE c \in confirmed
      <3>1. c.report \in Reports  BY <2>1 DEF HeldInv
      <3>2. PICK o \in Kept : Owed(c) = {o} /\ D!Key(o) = D!Key(c.report)
        BY <2>1 DEF HeldInv, Held
      <3>3. o \in Kept'  BY <3>2, NextIsDuckStep, KeptGrows
      <3> QED  BY <3>1, <3>2, <3>3 DEF Held, Owed, D!Key, D!Row
    <2>2. CASE c \notin confirmed
      <3>1. PICK r \in Reports : c = Confirmation(r) /\ D!Insert(r, "ok")
        BY <2>2, ConfirmedStep
      <3>2. c.report = r  BY <3>1 DEF Confirmation
      <3>3. PICK o \in D!Stored' : Owed(c) = {o} /\ D!Key(o) = D!Key(r)
        BY <3>1, InsertHolds DEF HeldInv
      <3>4. o \in Kept'  BY <3>3 DEF Kept
      <3> QED  BY <3>2, <3>3, <3>4 DEF Held, Owed, D!Key, D!Row
    <2> QED  BY <2>1, <2>2
  <1> QED  BY <1>1, <1>2 DEF HeldInv

LEMMA HeldIsStored ==
  ASSUME HeldInv
  PROVE ConfirmedIsStored
  <1> SUFFICES ASSUME NEW c \in confirmed
               PROVE RowsOf(c.report) = Owed(c) \/ Owed(c) \subseteq wiped
    BY DEF ConfirmedIsStored
  <1>1. PICK o \in Kept : Owed(c) = {o} /\ D!Key(o) = D!Key(c.report)
    BY DEF HeldInv, Held
  <1>2. CASE o \in wiped  BY <1>1, <1>2
  <1>3. CASE o \in D!Stored
    <2>1. \A s \in D!Stored : D!Key(s) = D!Key(c.report) => s = o
      BY <1>1, <1>3 DEF HeldInv, OneRow
    <2>2. RowsOf(c.report) = {o}  BY <1>1, <1>3, <2>1 DEF RowsOf
    <2> QED  BY <1>1, <2>2
  <1> QED  BY <1>1, <1>2, <1>3 DEF Kept

(* duckdb_insert_tier1: a report that was confirmed as new keeps its row    *)
(* with its value, one that was a duplicate leaves the row that was there,  *)
(* and a point has no second row, unless an open that could not read the    *)
(* database deleted them.                                                   *)
THEOREM ConfirmedStays == Spec => []ConfirmedIsStored
  <1>1. Init => HeldInv  BY DEF Init, D!Init, HeldInv, OneRow, D!Stored
  <1> QED  BY <1>1, HeldStep, HeldIsStored, PTL DEF Spec

-----------------------------------------------------------------------------
(* Who can be inside a report, and what is there then.                      *)
Stages == {"new", "accepted", "running", "done", "refused", "discarded"}

LifeType == /\ state \in [Reports -> Stages]
            /\ task \in [Reports -> {"none", "insert", "note"}]
            /\ backends \in Seq(Configs)

Busy(r) == task[r] # "none" =>
             state[r] = "running" \/ (state[r] = "refused" /\ main.at = "report")

(* The main thread handles one refused report at a time.                    *)
OneFallback == \A q, r \in Reports :
                 /\ task[q] # "none" /\ state[q] = "refused"
                 /\ task[r] # "none" /\ state[r] = "refused"
                 => q = r

Served == backends # <<>> /\ plugins
Working == {"run", "report", "stop"}

LifeInv == /\ LifeType
           /\ \A r \in Reports : Busy(r)
           /\ OneFallback
           /\ main.at \in {"run", "report"} => Served
           /\ \A r \in Reports :
                state[r] \in {"accepted", "running"} => main.at \in Working /\ Served

LEMMA OrderedIs ==
  ASSUME NEW bs \in Seq(Configs)
  PROVE  /\ Ordered(bs) \in Seq(Configs) /\ Len(Ordered(bs)) = Len(bs)
         /\ bs # <<>> => Ordered(bs) # <<>>
         /\ \A i \in DOMAIN Ordered(bs) : Ordered(bs)[i].primary => i = 1
  <1> DEFINE isFirst(i) == bs[i].primary /\ \A j \in 1 .. i - 1 : ~bs[j].primary
             first == IF \E i \in DOMAIN bs : isFirst(i)
                      THEN CHOOSE i \in DOMAIN bs : isFirst(i) ELSE 1
             from(i) == IF i = 1 THEN first ELSE IF i = first THEN 1 ELSE i
             f == [i \in DOMAIN bs |-> [kind |-> bs[from(i)].kind, primary |-> i = 1]]
  <1>1. Ordered(bs) = f  BY DEF Ordered
  <1>2. DOMAIN bs = 1 .. Len(bs) /\ Len(bs) \in Nat  OBVIOUS
  <1>3. ASSUME NEW i \in DOMAIN bs PROVE from(i) \in DOMAIN bs
    <2>1. 1 \in DOMAIN bs  BY <1>2
    <2>2. first \in DOMAIN bs  BY <2>1
    <2> HIDE DEF first
    <2> QED  BY <2>1, <2>2
  <1> HIDE DEF from
  <1>4. \A i \in DOMAIN bs : f[i] \in Configs
    <2> TAKE i \in DOMAIN bs
    <2>1. bs[from(i)] \in Configs  BY <1>3
    <2>2. bs[from(i)].kind \in Kinds  BY <2>1 DEF Configs
    <2>3. f[i] = [kind |-> bs[from(i)].kind, primary |-> i = 1]  OBVIOUS
    <2> HIDE DEF f
    <2>4. [kind |-> bs[from(i)].kind, primary |-> i = 1] \in Configs
      BY <2>2 DEF Configs
    <2> QED  BY <2>3, <2>4
  <1>5. f \in [1 .. Len(bs) -> Configs]  BY <1>2, <1>4
  <1>6. \A i \in DOMAIN f : f[i].primary => i = 1  OBVIOUS
  <1> HIDE DEF f
  <1>7. f \in Seq(Configs) /\ Len(f) = Len(bs)  BY <1>2, <1>5
  <1>8. bs # <<>> => f # <<>>  BY <1>7
  <1> QED  BY <1>1, <1>6, <1>7, <1>8

(* Steps of the main thread that leave the reports alone.                   *)
LEMMA MainOnly ==
  ASSUME LifeInv, UNCHANGED <<state, task>>, backends' \in Seq(Configs),
         main.at # "report", main'.at # "report",
         main'.at = "run" => Served',
         (main'.at \in Working /\ Served') \/ main.at \notin Working
  PROVE LifeInv'
  BY DEF LifeInv, LifeType, Busy, OneFallback, Working

LEMMA OffloadKeepsLife ==
  ASSUME LifeInv, NEW r \in Reports, Offload(r)
  PROVE LifeInv'
  <1>1. /\ main.at = "run" /\ state[r] = "new"
        /\ state' = [state EXCEPT ![r] = "accepted"]
        /\ UNCHANGED <<backends, task, main, plugins>>
    BY DEF Offload, Arrives, At, S!Accept, S!Move, db
  <1>2. LifeType'  BY <1>1 DEF LifeInv, LifeType, Stages
  <1> QED  BY <1>1, <1>2 DEF LifeInv, LifeType, Busy, OneFallback, Served, Working

LEMMA FallbackKeepsLife ==
  ASSUME LifeInv, NEW r \in Reports, Fallback(r)
  PROVE LifeInv'
  <1>1. /\ main.at = "run" /\ main' = [at |-> "report", k |-> 1]
        /\ state' = [state EXCEPT ![r] = "refused"]
        /\ task' = [task EXCEPT ![r] = "insert"]
        /\ UNCHANGED <<backends, plugins>>
    BY DEF Fallback, Arrives, At, GoTo, S!Refuse, S!Move, db
  <1>2. LifeType'  BY <1>1 DEF LifeInv, LifeType, Stages
  <1>3. \A q \in Reports : task[q] # "none" => state[q] = "running"
    BY <1>1 DEF LifeInv, Busy
  <1> QED  BY <1>1, <1>2, <1>3 DEF LifeInv, LifeType, Busy, OneFallback, Served, Working

LEMMA StartKeepsLife ==
  ASSUME LifeInv, NEW r \in Reports, Start(r)
  PROVE LifeInv'
  <1>1. /\ state[r] = "accepted" /\ state' = [state EXCEPT ![r] = "running"]
        /\ task' = [task EXCEPT ![r] = "insert"]
        /\ UNCHANGED <<backends, main, plugins>>
    BY DEF Start, S!Start, S!Move, db
  <1>2. LifeType'  BY <1>1 DEF LifeInv, LifeType, Stages
  <1> QED  BY <1>1, <1>2 DEF LifeInv, LifeType, Busy, OneFallback, Served, Working

LEMMA ReturnKeepsLife ==
  ASSUME LifeInv, NEW r \in Reports, task[r] # "none", Return(r),
         UNCHANGED <<backends, plugins>>
  PROVE LifeInv'
  <1>1. task' = [task EXCEPT ![r] = "none"]  BY DEF Return
  <1>2. CASE S!Complete(r) /\ UNCHANGED main
    <2>1. state[r] = "running" /\ state' = [state EXCEPT ![r] = "done"]
      BY <1>2 DEF S!Complete, S!Move
    <2>2. LifeType'  BY <1>1, <2>1 DEF LifeInv, LifeType, Stages
    <2> QED  BY <1>1, <1>2, <2>1, <2>2 DEF LifeInv, LifeType, Busy, OneFallback, Served
  <1>3. CASE state[r] = "refused" /\ GoTo("run", 1) /\ UNCHANGED pool
    <2>1. main.at = "report" /\ main' = [at |-> "run", k |-> 1] /\ UNCHANGED state
      BY <1>3 DEF LifeInv, Busy, GoTo, pool
    <2>2. LifeType'  BY <1>1, <2>1 DEF LifeInv, LifeType
    <2>3. ASSUME NEW q \in Reports PROVE Busy(q)'
      BY <1>1, <1>3, <2>1 DEF LifeInv, LifeType, Busy, OneFallback
    <2> QED  BY <1>1, <2>1, <2>2, <2>3 DEF LifeInv, LifeType, OneFallback, Served, Working
  <1> QED  BY <1>2, <1>3 DEF Return

LEMMA InsertKeepsLife ==
  ASSUME LifeInv, NEW r \in Reports, Insert(r)
  PROVE LifeInv'
  <1>1. task[r] = "insert" /\ UNCHANGED <<backends, plugins>>  BY DEF Insert
  <1>2. CASE UNCHANGED <<task, pool, main>>
    BY <1>1, <1>2 DEF pool, LifeInv, LifeType, Busy, OneFallback, Served
  <1>3. CASE task' = [task EXCEPT ![r] = "note"] /\ UNCHANGED <<pool, main>>
    <2>1. LifeType'  BY <1>1, <1>3 DEF pool, LifeInv, LifeType
    <2> QED  BY <1>1, <1>3, <2>1 DEF pool, LifeInv, LifeType, Busy, OneFallback, Served
  <1>4. CASE Return(r)  BY <1>1, <1>4, ReturnKeepsLife
  <1>5. \/ UNCHANGED <<task, pool, main>>
        \/ task' = [task EXCEPT ![r] = "note"] /\ UNCHANGED <<pool, main>>
        \/ Return(r)
    BY DEF Insert
  <1> QED  BY <1>2, <1>3, <1>4, <1>5

LEMMA SetLastRunKeepsLife ==
  ASSUME LifeInv, NEW r \in Reports, SetLastRun(r)
  PROVE LifeInv'
  BY ReturnKeepsLife DEF SetLastRun, db

LEMMA OpensKeepsLife ==
  ASSUME LifeInv, Opens
  PROVE LifeInv'
  <1>0. backends \in Seq(Configs)  BY DEF LifeInv, LifeType
  <1>1. CASE OpenDuck
    BY <1>0, <1>1, MainOnly DEF OpenDuck, pool, db, Opening, At, LifeInv, LifeType, Working
  <1>2. CASE OpenCsv
    BY <1>0, <1>2, MainOnly DEF OpenCsv, pool, db, Opening, At, LifeInv, LifeType, Working
  <1>3. CASE BackendOpen
    <2>1. Configured[main.k] \in Configs  BY <1>3, StorageAssumption DEF BackendOpen
    <2>2. backends' \in Seq(Configs)  BY <1>0, <1>3, <2>1 DEF BackendOpen
    <2> QED  BY <1>3, <2>2, MainOnly DEF BackendOpen, pool, At, GoTo, Working
  <1>4. CASE SkipBackend
    <2>1. main.at = "open" /\ main' = [at |-> "open", k |-> main.k + 1]
          /\ UNCHANGED <<pool, db, task>>
      BY <1>4 DEF SkipBackend, Opening, At, GoTo
    <2> QED  BY <1>0, <2>1, MainOnly DEF pool, db, Working
  <1>5. CASE DbOpened
    <2>1. /\ main.at = "open" /\ UNCHANGED <<state, task>>
          /\ backends' = Ordered(backends)
          /\ \/ backends # <<>> /\ main'.at = "run" /\ plugins' = TRUE
             \/ main'.at = "cleanup"
      BY <1>5 DEF DbOpened, At, GoTo, pool
    <2>2. backends' \in Seq(Configs) /\ (backends # <<>> => backends' # <<>>)
      BY <1>0, <2>1, OrderedIs
    <2> QED  BY <2>1, <2>2, MainOnly DEF Served, Working
  <1> QED  BY <1>1, <1>2, <1>3, <1>4, <1>5 DEF Opens

LEMMA ShutdownKeepsLife ==
  ASSUME LifeInv, Shutdown
  PROVE LifeInv'
  <1>1. /\ main.at = "run" /\ main'.at = "stop" /\ UNCHANGED <<state, task, db, plugins>>
    BY DEF Shutdown, At, GoTo, S!Close
  <1>2. Served' /\ backends' \in Seq(Configs)
    BY <1>1 DEF LifeInv, LifeType, Served, db
  <1> QED  BY <1>1, <1>2, MainOnly DEF Working

LEMMA StopPoolKeepsLife ==
  ASSUME LifeInv, StopPool
  PROVE LifeInv'
  <1>1. /\ main.at = "stop" /\ main'.at = "close" /\ UNCHANGED <<task, backends>>
        /\ \A r \in Reports : state[r] # "running"
        /\ state' = [r \in Reports |-> IF state[r] = "accepted" THEN "discarded"
                                       ELSE state[r]]
    BY DEF StopPool, At, GoTo, S!End, db
  <1>2. LifeType'  BY <1>1 DEF LifeInv, LifeType, Stages
  <1>3. \A r \in Reports : task[r] = "none" /\ state'[r] \notin {"accepted", "running"}
    BY <1>1 DEF LifeInv, LifeType, Busy, Stages
  <1> QED  BY <1>1, <1>2, <1>3 DEF LifeInv, Busy, OneFallback

LEMMA ClosesKeepsLife ==
  ASSUME LifeInv, CloseBackend \/ DbClosed
  PROVE LifeInv'
  <1>0. backends \in Seq(Configs) /\ <<>> \in Seq(Configs)  BY DEF LifeInv, LifeType
  <1>1. CASE CloseBackend
    <2>1. /\ main.at \in {"close", "cleanup"} /\ main'.at = main.at
          /\ UNCHANGED <<state, task, backends>>
      BY <1>1 DEF CloseBackend, At, GoTo, pool, db
    <2> QED  BY <1>0, <2>1, MainOnly DEF Working
  <1>2. CASE DbClosed
    <2>1. /\ main.at \in {"close", "cleanup"} /\ main'.at \in {"down", "stop"}
          /\ UNCHANGED <<state, task>> /\ backends' = <<>>
      BY <1>2 DEF DbClosed, At, GoTo, Down, pool, S!Close
    <2> QED  BY <1>0, <2>1, MainOnly DEF Working
  <1> QED  BY <1>1, <1>2

LEMMA CrashKeepsLife ==
  ASSUME LifeInv, Crash
  PROVE LifeInv'
  <1>1. /\ state' = [r \in Reports |-> IF state[r] \in {"accepted", "running"}
                                       THEN "discarded" ELSE state[r]]
        /\ backends' = <<>> /\ task' = [r \in Reports |-> "none"]
        /\ main'.at = "down"
    BY DEF Crash, Idle, Down
  <1>2. LifeType'  BY <1>1 DEF LifeInv, LifeType, Stages
  <1> QED  BY <1>1, <1>2 DEF LifeInv, Busy, OneFallback

LEMMA LifeStep ==
  ASSUME LifeInv, [Next]_vars
  PROVE LifeInv'
  <1> USE DEF LifeInv, LifeType, Busy, OneFallback, Served
  <1>0. CASE UNCHANGED <<state, task, backends, main, plugins>>  BY <1>0
  <1> HIDE DEF LifeType, Busy, OneFallback, Served
  <1>1. CASE Boot
    <2>1. /\ main.at = "down" /\ main'.at = "open"
          /\ UNCHANGED <<state, task, backends>> /\ backends \in Seq(Configs)
      BY <1>1 DEF Boot, At, GoTo, db, LifeType
    <2> HIDE DEF LifeInv
    <2> QED  BY <2>1, MainOnly DEF Working
  <1>2. CASE Opens  BY <1>2, OpensKeepsLife
  <1>3. CASE Tick  BY <1>0, <1>3 DEF Tick, pool, db
  <1>4. CASE Shutdown  BY <1>4, ShutdownKeepsLife
  <1>5. CASE Closes  BY <1>5, StopPoolKeepsLife, ClosesKeepsLife DEF Closes
  <1>6. ASSUME NEW r \in Reports, Offload(r) \/ Fallback(r) \/ Handle(r) PROVE LifeInv'
    BY <1>6, OffloadKeepsLife, FallbackKeepsLife, StartKeepsLife, InsertKeepsLife,
       SetLastRunKeepsLife DEF Handle
  <1>7. CASE Crash  BY <1>7, CrashKeepsLife
  <1>8. CASE Clock  BY <1>0, <1>8 DEF Clock, pool, db
  <1>9. CASE Outside  BY <1>0, <1>9 DEF Outside, pool, db
  <1>10. CASE UNCHANGED vars  BY <1>0, <1>10 DEF vars, pool, db
  <1> QED
    BY <1>1, <1>2, <1>3, <1>4, <1>5, <1>6, <1>7, <1>8, <1>9, <1>10 DEF Next

LEMMA LifeInit == Init => LifeInv
  <1> SUFFICES ASSUME Init PROVE LifeInv  OBVIOUS
  <1>1. LifeType  BY DEF Init, Idle, LifeType, Stages
  <1> QED  BY <1>1 DEF Init, Idle, Down, LifeInv, Busy, OneFallback

(* server.c, 645-685: whoever handles a report, a worker or the main        *)
(* thread, finds the database and the plugin manager alive, since the pool  *)
(* is stopped, and its workers joined, before either goes.                  *)
THEOREM UsedAlive == Spec => []UsedWhileAlive
  <1>1. LifeInv /\ [Next]_vars => LifeInv'  BY LifeStep
  <1>2. LifeInv => UsedWhileAlive
    BY DEF LifeInv, LifeType, Busy, Served, Working, UsedWhileAlive
  <1> QED  BY LifeInit, <1>1, <1>2, PTL DEF Spec

-----------------------------------------------------------------------------
(* Sets of timestamps and of row numbers have a greatest element.           *)
LEMMA Greatest ==
  ASSUME NEW A \in SUBSET Int, IsFiniteSet(A), A # {}
  PROVE  \E m \in A : \A n \in A : m >= n
  <1> DEFINE above(m) == {n \in A : n > m}
             T == {above(m) : m \in A}
  <1>1. IsWellFoundedOn(StrictSubsetOrdering(A), SUBSET A)
    BY FS_StrictSubsetOrderingWellFounded, FS_FiniteSubsetsOfFinite
  <1>2. T \subseteq SUBSET A /\ T # {}
    OBVIOUS
  <1>3. PICK least \in T : \A other1 \in T : <<other1, least>> \notin StrictSubsetOrdering(A)
    <2> HIDE DEF T
    <2> QED  BY <1>1, <1>2, WFMin
  <1>4. PICK m \in A : least = above(m)
    BY <1>3
  <1>5. ASSUME NEW n \in A, n > m PROVE FALSE
    <2>1. above(n) \in T /\ above(n) \subseteq least /\ above(n) # least
      <3>1. n \in least /\ n \notin above(n)
        BY <1>4, <1>5
      <3>2. ASSUME NEW k \in above(n) PROVE k \in least
        <4>1. k \in Int /\ n \in Int /\ m \in Int /\ k \in A
          OBVIOUS
        <4>2. k > m
          BY <1>5, <4>1
        <4> QED  BY <1>4, <4>1, <4>2
      <3> QED  BY <3>1, <3>2
    <2>2. above(n) \in SUBSET A /\ least \in SUBSET A
      BY <1>2, <1>3
    <2>3. <<above(n), least>> \in StrictSubsetOrdering(A)
      BY <2>1, <2>2 DEF StrictSubsetOrdering
    <2> QED  BY <1>3, <2>1, <2>3
  <1> QED  BY <1>5

LEMMA MaxIs ==
  ASSUME NEW N \in SUBSET Int, IsFiniteSet(N), N # {}
  PROVE  C!Sets!Max(N) \in N /\ \A n \in N : n <= C!Sets!Max(N)
  <1>1. \E m \in N : \A n \in N : m >= n  BY Greatest
  <1>2. C!Sets!Max(N) \in N /\ \A n \in N : C!Sets!Max(N) >= n
    BY <1>1 DEF C!Sets!Max
  <1> QED  BY <1>2

-----------------------------------------------------------------------------
(* Types of the database file.                                              *)
DuckType ==
  /\ D!Stored \cup wiped \subseteq Rows \cup D!Spare
  /\ file \in {"none", "good", "bad"} /\ wal \in {"none", "good", "bad"}
  /\ other \in BOOLEAN
  /\ stage \in {"closed", "plain", "no wal", "backup", "fresh", "open", "failed"}

LEMMA DuckTypeStep ==
  ASSUME DuckType, DuckStep
  PROVE DuckType'
  <1> USE DEF DuckType, D!Stored
  <1>1. CASE D!Open
    <2>1. CASE D!BeginOpen  BY <2>1 DEF D!BeginOpen
    <2>2. CASE D!OpenPlain  BY <2>2 DEF D!OpenPlain, D!Opened
    <2>3. CASE D!OpenWithoutWal  BY <2>3 DEF D!OpenWithoutWal, D!Opened
    <2>4. CASE D!OpenBackup
      <3>1. \A b \in Backup : b \subseteq D!Spare  BY DEF D!Spare
      <3> QED  BY <2>4, <3>1 DEF D!OpenBackup, D!Opened, D!Unlink
    <2>5. CASE D!OpenFresh  BY <2>5 DEF D!OpenFresh, D!Opened, D!Unlink
    <2> QED  BY <1>1, <2>1, <2>2, <2>3, <2>4, <2>5 DEF D!Open
  <1>2. CASE D!Close \/ D!GiveUp  BY <1>2 DEF D!Close, D!Checkpoint, D!GiveUp
  <1>3. CASE D!Outside
    BY <1>3 DEF D!Outside, D!AutoCheckpoint, D!Checkpoint, D!Damage, D!OtherOpens,
                D!OtherCloses, D!Die
  <1>4. ASSUME NEW r \in Reports, NEW ret, D!Insert(r, ret) PROVE DuckType'
    <2>1. D!Row(r) \in Rows  BY DEF Rows
    <2> QED  BY <1>4, <2>1 DEF D!Insert, D!InsertOrIgnore
  <1>5. CASE UNCHANGED duck  BY <1>5 DEF duck
  <1> QED  BY <1>1, <1>2, <1>3, <1>4, <1>5 DEF DuckStep

-----------------------------------------------------------------------------
(* The CSV backend as Storage drives it.                                    *)
Came(r) == state[r] # "new"
CsvInsert(r) == \E ret \in {"ok", "EEXIST", "EINVAL", "EIO"} : C!Insert(r, ret)
CsvStep == \/ C!CreateFile \/ C!WriteHeader(now) \/ C!Replay(now)
           \/ \E r \in Reports : Came(r) /\ CsvInsert(r)
           \/ C!Tick(now) \/ C!Close(now) \/ C!Die
           \/ UNCHANGED csvs

LEMMA NextIsCsvStep ==
  ASSUME LifeInv, [Next]_vars
  PROVE CsvStep
  <1> USE DEF CsvStep
  <1>0. CASE UNCHANGED vars  BY <1>0 DEF vars
  <1>1. CASE Boot  BY <1>1 DEF Boot
  <1>2. CASE Opens
    BY <1>2 DEF Opens, OpenDuck, OpenCsv, BackendOpen, SkipBackend, DbOpened
  <1>3. CASE Tick  BY <1>3 DEF Tick
  <1>4. CASE Shutdown  BY <1>4 DEF Shutdown
  <1>5. CASE Closes  BY <1>5 DEF Closes, StopPool, CloseBackend, DbClosed
  <1>6. ASSUME NEW r \in Reports, Offload(r) \/ Fallback(r) \/ Handle(r) PROVE CsvStep
    <2>1. CASE Insert(r)
      <3>1. Came(r)
        BY <2>1 DEF Insert, LifeInv, Busy, Came
      <3>2. PICK ret \in {"ok", "EEXIST", "EINVAL", "EIO"}, kind \in {"duckdb", "csv"} :
              BackendInsert(kind, r, ret)
        BY <2>1 DEF Insert, BackendInsert
      <3> QED  BY <3>1, <3>2 DEF BackendInsert, CsvInsert
    <2> QED  BY <1>6, <2>1 DEF Offload, Fallback, Handle, Start, SetLastRun
  <1>7. CASE Crash  BY <1>7 DEF Crash
  <1>8. CASE Clock  BY <1>8 DEF Clock
  <1>9. CASE Outside  BY <1>9 DEF Outside
  <1> QED  BY <1>0, <1>1, <1>2, <1>3, <1>4, <1>5, <1>6, <1>7, <1>8, <1>9 DEF Next

(* A report that has come in does not become new again.                     *)
LEMMA CameStays ==
  ASSUME LifeInv, [Next]_vars, NEW r \in Reports, Came(r)
  PROVE Came(r)'
  <1> USE DEF Came
  <1>1. CASE UNCHANGED state  BY <1>1
  <1>2. ASSUME NEW q \in Reports, NEW a, NEW b, b # "new", S!Move(q, a, b)
        PROVE Came(r)'
    BY <1>2 DEF S!Move, LifeInv, LifeType
  <1>3. ASSUME NEW q \in Reports, Return(q) PROVE Came(r)'
    BY <1>1, <1>2, <1>3 DEF Return, S!Complete, pool
  <1>4. CASE Boot \/ Tick \/ Shutdown \/ Clock \/ Outside \/ UNCHANGED vars
    BY <1>1, <1>4 DEF Boot, Tick, Shutdown, Clock, Outside, vars, pool, S!Close
  <1>5. CASE Opens
    BY <1>1, <1>5 DEF Opens, OpenDuck, OpenCsv, BackendOpen, SkipBackend, DbOpened, pool
  <1>6. CASE CloseBackend \/ DbClosed
    BY <1>1, <1>6 DEF CloseBackend, DbClosed, pool, S!Close
  <1>7. CASE StopPool
    BY <1>7 DEF StopPool, S!End
  <1>8. CASE Crash
    BY <1>8 DEF Crash
  <1>9. ASSUME NEW q \in Reports, Offload(q) \/ Fallback(q) \/ Handle(q) PROVE Came(r)'
    <2>1. CASE Offload(q)  BY <1>2, <2>1 DEF Offload, S!Accept
    <2>2. CASE Fallback(q)  BY <1>2, <2>2 DEF Fallback, S!Refuse
    <2>3. CASE Start(q)  BY <1>2, <2>3 DEF Start, S!Start
    <2>4. CASE Insert(q)  BY <1>1, <1>3, <2>4 DEF Insert, pool
    <2>5. CASE SetLastRun(q)  BY <1>3, <2>5 DEF SetLastRun
    <2> QED  BY <1>9, <2>1, <2>2, <2>3, <2>4, <2>5 DEF Handle
  <1> QED  BY <1>4, <1>5, <1>6, <1>7, <1>8, <1>9 DEF Next, Closes

-----------------------------------------------------------------------------
(* Types of history.csv and of what is in memory.                           *)
FileRows == [stamp : Times, cells : C!Columns]
Stamps == Times \cup {0}
CsvType ==
  /\ csv \in [made : BOOLEAN, headed : BOOLEAN, rows : Seq(FileRows)]
  /\ values \in C!Columns /\ onfile \in C!Columns
  /\ last_ts \in [Known -> Stamps] /\ flushed \in 0 .. MaxTime
  /\ fp \in {"none", "new", "open"} /\ now \in 1 .. MaxTime

LEMMA TimesAre == Times \subseteq Nat \ {0} /\ 0 \notin Times /\ IsFiniteSet(Stamps)
  <1>1. IsFiniteSet({0})  BY FS_Singleton
  <1> QED  BY <1>1, StorageAssumption, FS_Union DEF Stamps

LEMMA NothingIs ==
  /\ C!Nothing \in C!Columns /\ C!Zero \in [Known -> Stamps]
  /\ \A t \in Known : C!Nothing[t] = NoVal
  BY DEF C!Nothing, C!Columns, C!Zero, Stamps

LEMMA NewestIs ==
  ASSUME last_ts \in [Known -> Stamps]
  PROVE C!Newest \in Stamps
  <1> DEFINE N == {last_ts[t] : t \in Known} \cup {0}
  <1>1. N \subseteq Stamps /\ N # {}  BY DEF Stamps
  <1>2. N \in SUBSET Int /\ IsFiniteSet(N)
    <2>1. Stamps \subseteq Int /\ IsFiniteSet(Stamps)  BY TimesAre DEF Stamps
    <2> HIDE DEF N
    <2> QED  BY <1>1, <2>1, FS_Subset
  <1> HIDE DEF N
  <1>3. C!Sets!Max(N) \in N  BY <1>1, <1>2, MaxIs
  <1> QED  BY <1>1, <1>3 DEF C!Newest, N

(* flush_row: an empty cell stays empty, and only an empty one is empty.    *)
LEMMA PrintedIs ==
  ASSUME values \in C!Columns
  PROVE  /\ C!Printed \in C!Columns
         /\ \A t \in Known : /\ values[t] = NoVal => C!Printed[t] = NoVal
                             /\ values[t] # NoVal => /\ C!Printed[t] = Digits[values[t]]
                                                     /\ C!Printed[t] # NoVal
  BY CsvAssumption DEF C!Printed, C!Columns

LEMMA FlushRowIs ==
  ASSUME CsvType, NEW time \in Times, C!FlushRow(time)
  PROVE  /\ csv' \in [made : BOOLEAN, headed : BOOLEAN, rows : Seq(FileRows)]
         /\ onfile' \in C!Columns /\ onfile' = C!Printed
         /\ csv'.made = csv.made /\ csv'.headed = csv.headed
         /\ csv'.rows = Append(csv.rows, [stamp |-> Local[time], cells |-> C!Printed])
  <1> DEFINE row == [stamp |-> Local[time], cells |-> C!Printed]
  <1>1. C!Printed \in C!Columns  BY PrintedIs DEF CsvType
  <1>2. row \in FileRows  BY <1>1, CsvAssumption DEF FileRows
  <1> HIDE DEF row
  <1>3. csv' = [csv EXCEPT !.rows = Append(@, row)] /\ onfile' = C!Printed
    BY DEF C!FlushRow, row
  <1>4. csv \in [made : BOOLEAN, headed : BOOLEAN, rows : Seq(FileRows)]
    BY DEF CsvType
  <1>5. csv'.rows = Append(csv.rows, row) /\ csv'.made = csv.made /\ csv'.headed = csv.headed
    BY <1>3, <1>4
  <1>6. Append(csv.rows, row) \in Seq(FileRows)  BY <1>2, <1>4
  <1>7. csv' \in [made : BOOLEAN, headed : BOOLEAN, rows : Seq(FileRows)]
    BY <1>3, <1>4, <1>6
  <1> QED  BY <1>1, <1>3, <1>5, <1>7 DEF row

(* csv_open: the last cell of a column that is not empty.                   *)
LEMMA BodyIs ==
  ASSUME CsvType
  PROVE  /\ C!Body \in Seq(FileRows)
         /\ \A n \in DOMAIN C!Body : \E m \in DOMAIN csv.rows : C!Body[n] = csv.rows[m]
         /\ csv.headed => C!Body = csv.rows
  <1>1. csv.rows \in Seq(FileRows)  BY DEF CsvType
  <1>2. CASE csv.headed \/ csv.rows = <<>>
    BY <1>1, <1>2 DEF C!Body
  <1>3. CASE ~(csv.headed \/ csv.rows = <<>>)
    <2>1. C!Body = Tail(csv.rows) /\ csv.rows # <<>>  BY <1>3 DEF C!Body
    <2>2. Tail(csv.rows) \in Seq(FileRows)  BY <1>1, <2>1
    <2>3. \A n \in DOMAIN Tail(csv.rows) :
            n + 1 \in DOMAIN csv.rows /\ Tail(csv.rows)[n] = csv.rows[n + 1]
      BY <1>1, <2>1
    <2> QED  BY <1>3, <2>1, <2>2, <2>3
  <1> QED  BY <1>2, <1>3

LEMMA LastCellIs ==
  ASSUME CsvType, NEW t \in Known
  PROVE  \/ C!LastCell(t) = 0 /\ C!Cells(t) = {}
         \/ /\ C!LastCell(t) \in C!Cells(t) /\ C!LastCell(t) # 0
            /\ \A n \in C!Cells(t) : n <= C!LastCell(t)
  <1>1. CASE C!Cells(t) = {}  BY <1>1 DEF C!LastCell
  <1>2. CASE C!Cells(t) # {}
    <2>1. C!Body \in Seq(FileRows)  BY BodyIs
    <2>2. DOMAIN C!Body = 1 .. Len(C!Body) /\ Len(C!Body) \in Nat  BY <2>1
    <2>3. IsFiniteSet(DOMAIN C!Body) /\ DOMAIN C!Body \in SUBSET Int
      BY <2>2, FS_Interval
    <2>4. C!Cells(t) \subseteq DOMAIN C!Body  BY DEF C!Cells
    <2>5. IsFiniteSet(C!Cells(t)) /\ C!Cells(t) \in SUBSET Int
      BY <2>3, <2>4, FS_Subset
    <2>6. /\ C!LastCell(t) \in C!Cells(t)
          /\ \A n \in C!Cells(t) : n <= C!LastCell(t)
      BY <1>2, <2>5, MaxIs DEF C!LastCell
    <2>7. C!LastCell(t) # 0  BY <2>2, <2>4, <2>6
    <2> QED  BY <2>6, <2>7
  <1> QED  BY <1>1, <1>2

LEMMA ReplayIs ==
  ASSUME CsvType, C!Replay(now)
  PROVE  /\ values' \in C!Columns /\ last_ts' \in [Known -> Stamps]
         /\ \A t \in Known :
              \/ C!Cells(t) = {} /\ values'[t] = NoVal
              \/ /\ C!LastCell(t) \in C!Cells(t)
                 /\ \A n \in C!Cells(t) : n <= C!LastCell(t)
                 /\ values'[t] = C!Body[C!LastCell(t)].cells[t]
                 /\ values'[t] # NoVal
  <1>1. C!Body \in Seq(FileRows)  BY BodyIs
  <1>2. /\ values' = [t \in Known |-> IF C!LastCell(t) = 0 THEN NoVal
                                      ELSE C!Body[C!LastCell(t)].cells[t]]
        /\ last_ts' = [t \in Known |-> IF C!LastCell(t) = 0 THEN 0
                                       ELSE C!Body[C!LastCell(t)].stamp]
    BY DEF C!Replay
  <1>3. ASSUME NEW t \in Known
        PROVE  /\ values'[t] \in Vals \cup {NoVal} /\ last_ts'[t] \in Stamps
               /\ \/ C!Cells(t) = {} /\ values'[t] = NoVal
                  \/ /\ C!LastCell(t) \in C!Cells(t)
                     /\ \A n \in C!Cells(t) : n <= C!LastCell(t)
                     /\ values'[t] = C!Body[C!LastCell(t)].cells[t]
                     /\ values'[t] # NoVal
    <2>1. CASE C!LastCell(t) = 0 /\ C!Cells(t) = {}
      BY <1>2, <2>1 DEF Stamps
    <2>2. CASE /\ C!LastCell(t) \in C!Cells(t) /\ C!LastCell(t) # 0
               /\ \A n \in C!Cells(t) : n <= C!LastCell(t)
      <3> DEFINE row == C!Body[C!LastCell(t)]
      <3>1. C!LastCell(t) \in DOMAIN C!Body /\ row.cells[t] # NoVal
        BY <2>2 DEF C!Cells
      <3>2. row \in FileRows  BY <1>1, <3>1
      <3>3. values'[t] = row.cells[t] /\ last_ts'[t] = row.stamp
        BY <1>2, <2>2
      <3> HIDE DEF row
      <3>4. row.cells[t] \in Vals \cup {NoVal} /\ row.stamp \in Stamps
        BY <3>2 DEF FileRows, C!Columns, Stamps
      <3> QED  BY <2>2, <3>1, <3>3, <3>4 DEF row
    <2> QED  BY <2>1, <2>2, LastCellIs
  <1>4. values' \in C!Columns
    <2>1. values' = [t \in Known |-> values'[t]]  BY <1>2
    <2> QED  BY <1>3, <2>1 DEF C!Columns
  <1>5. last_ts' \in [Known -> Stamps]
    <2>1. last_ts' = [t \in Known |-> last_ts'[t]]  BY <1>2
    <2> QED  BY <1>3, <2>1
  <1> QED  BY <1>3, <1>4, <1>5

LEMMA CsvInsertIs ==
  ASSUME CsvType, NEW r \in Reports, CsvInsert(r)
  PROVE  /\ fp = "open" /\ UNCHANGED <<csv, flushed, fp, onfile>>
         /\ values' \in C!Columns /\ last_ts' \in [Known -> Stamps]
         /\ \/ UNCHANGED values
            \/ r.type \in Known /\ values' = [values EXCEPT ![r.type] = r.val]
  <1>1. r.val \in Vals /\ r.ts \in Stamps  BY StorageAssumption DEF Stamps
  <1>2. /\ fp = "open" /\ UNCHANGED <<csv, flushed, fp, onfile>>
        /\ \/ UNCHANGED <<values, last_ts>>
           \/ /\ r.type \in Known
              /\ values' = [values EXCEPT ![r.type] = r.val]
              /\ last_ts' = [last_ts EXCEPT ![r.type] = r.ts]
    BY DEF CsvInsert, C!Insert
  <1>3. values' \in C!Columns /\ last_ts' \in [Known -> Stamps]
    BY <1>1, <1>2 DEF CsvType, C!Columns
  <1> QED  BY <1>2, <1>3

LEMMA TickIs ==
  ASSUME CsvType, C!Tick(now)
  PROVE  /\ now \in Times /\ C!FlushRow(now) /\ fp = "open" /\ flushed' = now
         /\ UNCHANGED <<values, last_ts, fp>>
  BY StorageAssumption DEF CsvType, C!Tick, C!Due

LEMMA CloseIs ==
  ASSUME CsvType, C!Close(now)
  PROVE  /\ \E time \in Times : C!FlushRow(time)
         /\ fp = "open" /\ fp' = "none"
         /\ values' = C!Nothing /\ last_ts' = C!Zero /\ flushed' = 0
  <1>1. C!Newest > 0 => C!Newest \in Times
    BY NewestIs DEF CsvType, Stamps
  <1>2. now \in Times  BY StorageAssumption DEF CsvType
  <1> QED  BY <1>1, <1>2 DEF C!Close

LEMMA CsvTypeStep ==
  ASSUME CsvType, CsvStep, now' \in 1 .. MaxTime
  PROVE CsvType'
  <1>0. now \in 0 .. MaxTime /\ 0 \in 0 .. MaxTime
    BY StorageAssumption DEF CsvType
  <1>1. CASE C!CreateFile  BY <1>1 DEF C!CreateFile, CsvType
  <1>2. CASE C!WriteHeader(now)  BY <1>0, <1>2 DEF C!WriteHeader, CsvType
  <1>3. CASE C!Replay(now)
    <2>1. values' \in C!Columns /\ last_ts' \in [Known -> Stamps]
      BY <1>3, ReplayIs
    <2> QED  BY <1>0, <1>3, <2>1 DEF C!Replay, CsvType
  <1>4. ASSUME NEW r \in Reports, CsvInsert(r) PROVE CsvType'
    <2>1. /\ UNCHANGED <<csv, flushed, fp, onfile>>
          /\ values' \in C!Columns /\ last_ts' \in [Known -> Stamps]
      BY <1>4, CsvInsertIs
    <2> QED  BY <2>1 DEF CsvType
  <1>5. CASE C!Tick(now)
    <2>1. /\ now \in Times /\ C!FlushRow(now) /\ flushed' = now
          /\ UNCHANGED <<values, last_ts, fp>>
      BY <1>5, TickIs
    <2>2. csv' \in [made : BOOLEAN, headed : BOOLEAN, rows : Seq(FileRows)]
          /\ onfile' \in C!Columns
      BY <2>1, FlushRowIs
    <2> QED  BY <1>0, <2>1, <2>2 DEF CsvType
  <1>6. CASE C!Close(now)
    <2>1. PICK time \in Times : C!FlushRow(time)
      BY <1>6, CloseIs
    <2>2. csv' \in [made : BOOLEAN, headed : BOOLEAN, rows : Seq(FileRows)]
          /\ onfile' \in C!Columns
      BY <2>1, FlushRowIs
    <2>3. fp' = "none" /\ values' = C!Nothing /\ last_ts' = C!Zero /\ flushed' = 0
      BY <1>6, CloseIs
    <2> QED  BY <1>0, <2>2, <2>3, NothingIs DEF CsvType
  <1>7. CASE C!Die  BY <1>0, <1>7, NothingIs DEF C!Die, CsvType
  <1>8. CASE UNCHANGED csvs  BY <1>8 DEF csvs, CsvType
  <1> QED  BY <1>1, <1>2, <1>3, <1>4, <1>5, <1>6, <1>7, <1>8 DEF CsvStep

-----------------------------------------------------------------------------
(* Opening a file with a header.  The last row of the file holds the values *)
(* that were in memory when it was written, and a column that any row has   *)
(* filled is filled in the last row too, since a value in memory is never   *)
(* emptied while the file is open.                                          *)
FileInv ==
  /\ ~csv.made => ~csv.headed /\ csv.rows = <<>> /\ onfile = C!Nothing /\ fp = "none"
  /\ fp = "new" => csv.made /\ csv.rows = <<>> /\ onfile = C!Nothing
  /\ fp # "open" => values = C!Nothing
  /\ csv.headed =>
       /\ csv.rows = <<>> => onfile = C!Nothing
       /\ csv.rows # <<>> => csv.rows[Len(csv.rows)].cells = onfile
       /\ \A n \in DOMAIN csv.rows, t \in Known :
            csv.rows[n].cells[t] # NoVal => onfile[t] # NoVal
       /\ fp = "open" => \A t \in Known : onfile[t] # NoVal => values[t] # NoVal

LEMMA LastRowCounts ==
  ASSUME CsvType, FileInv, csv.headed, NEW t \in Known
  PROVE  /\ onfile[t] # NoVal => /\ csv.rows # <<>> /\ Len(csv.rows) \in C!Cells(t)
                                 /\ C!Body[Len(csv.rows)].cells[t] = onfile[t]
                                 /\ \A n \in C!Cells(t) : n <= Len(csv.rows)
         /\ onfile[t] = NoVal => C!Cells(t) = {}
  <1>1. csv.rows \in Seq(FileRows) /\ C!Body = csv.rows
    BY BodyIs DEF CsvType
  <1>2. CASE onfile[t] # NoVal
    <2>1. csv.rows # <<>>  BY <1>2, NothingIs DEF FileInv
    <2>2. Len(csv.rows) \in DOMAIN csv.rows  BY <1>1, <2>1
    <2>3. csv.rows[Len(csv.rows)].cells = onfile  BY <2>1 DEF FileInv
    <2>4. Len(csv.rows) \in C!Cells(t)  BY <1>1, <1>2, <2>2, <2>3 DEF C!Cells
    <2>5. \A n \in C!Cells(t) : n <= Len(csv.rows)  BY <1>1 DEF C!Cells
    <2> QED  BY <1>1, <1>2, <2>1, <2>3, <2>4, <2>5
  <1>3. CASE onfile[t] = NoVal
    BY <1>1, <1>3 DEF C!Cells, FileInv
  <1> QED  BY <1>2, <1>3

(* A row that is written over an open file.                                 *)
LEMMA FlushKeepsFile ==
  ASSUME CsvType, FileInv, fp = "open", NEW time \in Times, C!FlushRow(time)
  PROVE  /\ csv'.made /\ (csv.headed <=> csv'.headed) /\ csv'.rows # <<>>
         /\ csv'.rows[Len(csv'.rows)].cells = onfile'
         /\ csv.headed => \A n \in DOMAIN csv'.rows, t \in Known :
              csv'.rows[n].cells[t] # NoVal => onfile'[t] # NoVal
         /\ \A t \in Known : onfile'[t] # NoVal => values[t] # NoVal
  <1> DEFINE row == [stamp |-> Local[time], cells |-> C!Printed]
  <1>1. /\ onfile' = C!Printed /\ csv'.made = csv.made /\ csv'.headed = csv.headed
        /\ csv'.rows = Append(csv.rows, row)
    BY FlushRowIs
  <1>2. row.cells = onfile'  BY <1>1
  <1> HIDE DEF row
  <1>3. csv.rows \in Seq(FileRows) /\ csv.made
    BY DEF CsvType, FileInv
  <1>4. /\ csv'.rows # <<>> /\ csv'.rows[Len(csv'.rows)] = row
        /\ \A n \in DOMAIN csv'.rows :
             csv'.rows[n] = row \/ (n \in DOMAIN csv.rows /\ csv'.rows[n] = csv.rows[n])
    BY <1>1, <1>3
  <1>5. \A t \in Known : onfile'[t] # NoVal <=> values[t] # NoVal
    BY <1>1, PrintedIs DEF CsvType
  <1>6. ASSUME csv.headed, NEW n \in DOMAIN csv'.rows, NEW t \in Known,
               csv'.rows[n].cells[t] # NoVal
        PROVE  onfile'[t] # NoVal
    <2>1. CASE csv'.rows[n] = row  BY <1>2, <1>6, <2>1
    <2>2. CASE n \in DOMAIN csv.rows /\ csv'.rows[n] = csv.rows[n]
      <3>1. onfile[t] # NoVal  BY <1>6, <2>2 DEF FileInv
      <3>2. values[t] # NoVal  BY <1>6, <3>1 DEF FileInv
      <3> QED  BY <1>5, <3>2
    <2> QED  BY <1>4, <2>1, <2>2
  <1> QED  BY <1>1, <1>2, <1>3, <1>4, <1>5, <1>6

LEMMA FileStep ==
  ASSUME CsvType, FileInv, CsvStep
  PROVE FileInv'
  <1>0. csv \in [made : BOOLEAN, headed : BOOLEAN, rows : Seq(FileRows)]
        /\ values \in C!Columns
    BY DEF CsvType
  <1>1. CASE C!CreateFile
    <2>1. /\ fp = "none" /\ ~csv.made /\ fp' = "new" /\ UNCHANGED <<values, onfile>>
          /\ csv'.made /\ csv'.headed = csv.headed /\ csv'.rows = csv.rows
      BY <1>0, <1>1 DEF C!CreateFile
    <2> QED  BY <2>1 DEF FileInv
  <1>2. CASE C!WriteHeader(now)
    <2>1. /\ fp = "new" /\ fp' = "open" /\ UNCHANGED <<values, onfile>>
          /\ csv'.made = csv.made /\ csv'.headed /\ csv'.rows = csv.rows
      BY <1>0, <1>2 DEF C!WriteHeader
    <2> QED  BY <2>1, NothingIs DEF FileInv
  <1>3. CASE C!Replay(now)
    <2>1. fp = "none" /\ csv.made /\ fp' = "open" /\ UNCHANGED <<csv, onfile>>
      BY <1>3 DEF C!Replay
    <2>2. ASSUME csv.headed, NEW t \in Known, onfile[t] # NoVal
          PROVE values'[t] # NoVal
      <3>1. C!Cells(t) # {}  BY <2>2, LastRowCounts
      <3> QED  BY <1>3, <3>1, ReplayIs
    <2> QED  BY <2>1, <2>2 DEF FileInv
  <1>4. ASSUME NEW r \in Reports, CsvInsert(r) PROVE FileInv'
    <2>1. /\ fp = "open" /\ UNCHANGED <<csv, flushed, fp, onfile>>
          /\ \/ UNCHANGED values
             \/ r.type \in Known /\ values' = [values EXCEPT ![r.type] = r.val]
      BY <1>4, CsvInsertIs
    <2>2. \A t \in Known : values[t] # NoVal => values'[t] # NoVal
      <3>1. r.val # NoVal  BY StorageAssumption, CsvAssumption
      <3> QED  BY <1>0, <2>1, <3>1 DEF C!Columns
    <2> QED  BY <2>1, <2>2 DEF FileInv
  <1>5. CASE C!Tick(now)
    <2>1. now \in Times /\ C!FlushRow(now) /\ fp = "open" /\ UNCHANGED <<values, fp>>
      BY <1>5, TickIs
    <2> QED  BY <2>1, FlushKeepsFile DEF FileInv
  <1>6. CASE C!Close(now)
    <2>1. PICK time \in Times : C!FlushRow(time)
      BY <1>6, CloseIs
    <2>2. fp = "open" /\ fp' = "none" /\ values' = C!Nothing
      BY <1>6, CloseIs
    <2> QED  BY <2>1, <2>2, FlushKeepsFile DEF FileInv
  <1>7. CASE C!Die  BY <1>7 DEF C!Die, FileInv
  <1>8. CASE UNCHANGED csvs  BY <1>8 DEF csvs, FileInv
  <1> QED  BY <1>1, <1>2, <1>3, <1>4, <1>5, <1>6, <1>7, <1>8 DEF CsvStep

LEMMA ReplayGivesBack ==
  ASSUME CsvType, FileInv, csv.headed, C!Replay(now)
  PROVE values' = onfile
  <1>1. values' \in C!Columns /\ onfile \in C!Columns
    BY ReplayIs DEF CsvType
  <1>2. ASSUME NEW t \in Known PROVE values'[t] = onfile[t]
    <2>1. CASE onfile[t] = NoVal  BY <2>1, LastRowCounts, ReplayIs
    <2>2. CASE onfile[t] # NoVal
      <3> DEFINE n == C!LastCell(t)
                 last == Len(csv.rows)
      <3>1. /\ last \in C!Cells(t) /\ C!Body[last].cells[t] = onfile[t]
            /\ \A m \in C!Cells(t) : m <= last
        BY <2>2, LastRowCounts
      <3>2. /\ n \in C!Cells(t) /\ \A m \in C!Cells(t) : m <= n
            /\ values'[t] = C!Body[n].cells[t]
        BY <3>1, ReplayIs
      <3>3. n \in Int /\ last \in Int
        <4>1. csv.rows \in Seq(FileRows) /\ C!Body \in Seq(FileRows)
          BY BodyIs DEF CsvType
        <4> HIDE DEF n
        <4> QED  BY <3>2, <4>1 DEF C!Cells
      <3>4. n <= last /\ last <= n  BY <3>1, <3>2
      <3> HIDE DEF n, last
      <3>5. n = last  BY <3>3, <3>4
      <3> QED  BY <3>1, <3>2, <3>5
    <2> QED  BY <2>1, <2>2
  <1> QED  BY <1>1, <1>2 DEF C!Columns

LEMMA FileOpensByReplay ==
  ASSUME CsvType, CsvStep, fp = "none", fp' = "open"
  PROVE C!Replay(now)
  <1>1. ASSUME NEW r \in Reports, CsvInsert(r) PROVE FALSE
    BY <1>1 DEF CsvInsert, C!Insert
  <1> QED
    BY <1>1 DEF CsvStep, C!CreateFile, C!WriteHeader, C!Tick, C!Due, C!Close, C!Die, csvs

-----------------------------------------------------------------------------
(* The steps of the main thread: it opens one backend after the other, at   *)
(* most one entry of db->backends for each, and is down without any.        *)
Places == {"down", "open", "run", "report", "stop", "close", "cleanup"}
PlaceType == /\ phase \in {"open", "closing", "over"}
             /\ lock.by \in Reports \cup {NoReport}
             /\ main.at \in Places /\ plugins \in BOOLEAN

LEMMA PlaceStep ==
  ASSUME PlaceType, LifeInv, [Next]_vars
  PROVE PlaceType'
  <1> USE DEF PlaceType, Places
  <1>0. CASE UNCHANGED vars  BY <1>0 DEF vars, pool, db
  <1>1. CASE Boot  BY <1>1 DEF Boot, GoTo, db
  <1>2. CASE Opens
    <2>1. CASE OpenDuck \/ OpenCsv  BY <2>1 DEF OpenDuck, OpenCsv, pool, db
    <2>2. CASE BackendOpen  BY <2>2 DEF BackendOpen, GoTo, pool
    <2>3. CASE SkipBackend
      <3>1. UNCHANGED <<pool, db, plugins>> /\ main' = [at |-> "open", k |-> main.k + 1]
        BY <2>3 DEF SkipBackend, GoTo
      <3> QED  BY <3>1 DEF pool, db
    <2>4. CASE DbOpened
      <3>1. UNCHANGED <<phase, lock>>  BY <2>4 DEF DbOpened, pool
      <3>2. main'.at \in {"run", "cleanup"}  BY <2>4 DEF DbOpened, GoTo
      <3>3. plugins' = TRUE \/ plugins' = plugins  BY <2>4 DEF DbOpened
      <3>4. plugins' \in BOOLEAN  BY <3>3
      <3> QED  BY <3>1, <3>2, <3>4
    <2> QED  BY <1>2, <2>1, <2>2, <2>3, <2>4 DEF Opens
  <1>3. CASE Tick  BY <1>3 DEF Tick, pool, db
  <1>4. CASE Shutdown  BY <1>4 DEF Shutdown, GoTo, S!Close, db
  <1>5. CASE StopPool  BY <1>5 DEF StopPool, GoTo, S!End, db
  <1>6. CASE CloseBackend  BY <1>6 DEF CloseBackend, GoTo, At, pool, db
  <1>7. CASE DbClosed  BY <1>7 DEF DbClosed, GoTo, Down, S!Close, pool
  <1>8. ASSUME NEW q \in Reports, Return(q), UNCHANGED plugins,
               lock'.by \in Reports \cup {NoReport}
        PROVE PlaceType'
    BY <1>8 DEF Return, GoTo, S!Complete, S!Move, pool
  <1>9. ASSUME NEW r \in Reports, Offload(r) \/ Fallback(r) \/ Handle(r) PROVE PlaceType'
    <2>1. CASE Offload(r)  BY <2>1 DEF Offload, S!Accept, S!Move, db
    <2>2. CASE Fallback(r)  BY <2>2 DEF Fallback, GoTo, S!Refuse, S!Move, db
    <2>3. CASE Start(r)  BY <2>3 DEF Start, S!Start, S!Move, db
    <2>4. CASE Insert(r)
      <3>1. lock'.by \in Reports \cup {NoReport} /\ UNCHANGED plugins
        BY <2>4 DEF Insert, Free
      <3>2. UNCHANGED <<pool, main>> \/ Return(r)
        BY <2>4 DEF Insert
      <3> QED  BY <1>8, <3>1, <3>2 DEF pool
    <2>5. CASE SetLastRun(r)  BY <1>8, <2>5 DEF SetLastRun, db
    <2> QED  BY <1>9, <2>1, <2>2, <2>3, <2>4, <2>5 DEF Handle
  <1>10. CASE Crash  BY <1>10 DEF Crash, Free, Down
  <1>11. CASE Clock  BY <1>11 DEF Clock, pool, db
  <1>12. CASE Outside  BY <1>12 DEF Outside, pool, db
  <1> QED
    BY <1>0, <1>1, <1>2, <1>3, <1>4, <1>5, <1>6, <1>7, <1>9, <1>10, <1>11, <1>12
    DEF Next, Closes

Reading == {"run", "report"}
OpenInv ==
  /\ Len(backends) <= Len(Configured)
  /\ main.at = "open" => main.k \in 1 .. Len(Configured) + 1 /\ Len(backends) <= main.k - 1
  /\ main.at = "down" => backends = <<>>
  /\ main.at \in Reading => \A i \in DOMAIN backends : backends[i].primary => i = 1

LEMMA SameBackends ==
  ASSUME OpenInv, UNCHANGED backends, main'.at \notin {"open", "down"},
         main'.at \in Reading => main.at \in Reading
  PROVE OpenInv'
  BY DEF OpenInv

LEMMA OpenStep ==
  ASSUME OpenInv, LifeInv, [Next]_vars
  PROVE OpenInv'
  <1> USE DEF Reading
  <1>c. backends \in Seq(Configs) /\ Configured \in Seq(Configs) /\ Len(Configured) \in Nat
    BY StorageAssumption DEF LifeInv, LifeType
  <1>s. CASE UNCHANGED <<backends, main>>  BY <1>s DEF OpenInv
  <1>0. CASE UNCHANGED vars  BY <1>s, <1>0 DEF vars, db
  <1>1. CASE Boot
    <2>1. /\ main.at = "down" /\ main' = [at |-> "open", k |-> 1] /\ UNCHANGED backends
      BY <1>1 DEF Boot, At, GoTo, db
    <2>2. backends = <<>>  BY <2>1 DEF OpenInv
    <2> QED  BY <1>c, <2>1, <2>2 DEF OpenInv
  <1>2. CASE OpenDuck \/ OpenCsv  BY <1>s, <1>2 DEF OpenDuck, OpenCsv, db
  <1>3. CASE BackendOpen \/ SkipBackend
    <2>1. /\ main.at = "open" /\ main.k \in DOMAIN Configured
          /\ main' = [at |-> "open", k |-> main.k + 1]
          /\ \/ backends' = Append(backends, Configured[main.k])
             \/ UNCHANGED backends
      BY <1>3 DEF BackendOpen, SkipBackend, Opening, At, GoTo, db
    <2>2. main.k \in 1 .. Len(Configured) /\ Len(backends) <= main.k - 1
      BY <1>c, <2>1 DEF OpenInv
    <2>3. Len(backends') \in {Len(backends), Len(backends) + 1}
      BY <1>c, <2>1
    <2>4. main'.at = "open" /\ main'.k = main.k + 1  BY <2>1
    <2>5. Len(backends) \in Nat  BY <1>c
    <2> QED  BY <1>c, <2>2, <2>3, <2>4, <2>5 DEF OpenInv
  <1>4. CASE DbOpened
    <2>1. main'.at \in {"run", "cleanup"} /\ backends' = Ordered(backends)
      BY <1>4 DEF DbOpened, GoTo
    <2>2. /\ Len(backends') = Len(backends)
          /\ \A i \in DOMAIN backends' : backends'[i].primary => i = 1
      BY <1>c, <2>1, OrderedIs
    <2> QED  BY <2>1, <2>2 DEF OpenInv
  <1>5. CASE Tick  BY <1>s, <1>5 DEF Tick, db
  <1>6. CASE Shutdown \/ StopPool
    BY <1>6, SameBackends DEF Shutdown, StopPool, GoTo, db
  <1>7. CASE CloseBackend
    BY <1>7, SameBackends DEF CloseBackend, At, GoTo, db
  <1>8. CASE DbClosed
    <2>1. backends' = <<>> /\ main'.at \in {"down", "stop"}
      BY <1>8 DEF DbClosed, Down, GoTo
    <2> QED  BY <1>c, <2>1 DEF OpenInv
  <1>9. ASSUME NEW r \in Reports, Return(r), UNCHANGED backends, task[r] # "none"
        PROVE OpenInv'
    <2>1. CASE UNCHANGED main  BY <1>s, <1>9, <2>1
    <2>2. CASE state[r] = "refused" /\ GoTo("run", 1)
      <3>1. main.at = "report"  BY <1>9, <2>2 DEF LifeInv, Busy
      <3> QED  BY <1>9, <2>2, <3>1, SameBackends DEF GoTo
    <2> QED  BY <1>9, <2>1, <2>2 DEF Return
  <1>10. ASSUME NEW r \in Reports, Offload(r) \/ Fallback(r) \/ Handle(r) PROVE OpenInv'
    <2>1. CASE Offload(r) \/ Start(r)  BY <1>s, <2>1 DEF Offload, Start, db
    <2>2. CASE Fallback(r)
      BY <2>2, SameBackends DEF Fallback, Arrives, At, GoTo, db
    <2>3. CASE Insert(r)
      <3>1. UNCHANGED backends /\ task[r] # "none" /\ (UNCHANGED main \/ Return(r))
        BY <2>3 DEF Insert
      <3> QED  BY <1>s, <1>9, <3>1
    <2>4. CASE SetLastRun(r)  BY <1>9, <2>4 DEF SetLastRun, db
    <2> QED  BY <1>10, <2>1, <2>2, <2>3, <2>4 DEF Handle
  <1>11. CASE Crash
    <2>1. backends' = <<>> /\ main'.at = "down"  BY <1>11 DEF Crash, Down
    <2> QED  BY <1>c, <2>1 DEF OpenInv
  <1>12. CASE Clock \/ Outside  BY <1>s, <1>12 DEF Clock, Outside, db
  <1> QED
    BY <1>0, <1>1, <1>2, <1>3, <1>4, <1>5, <1>6, <1>7, <1>8, <1>10, <1>11, <1>12
    DEF Next, Opens, Closes

LEMMA ClockStep ==
  ASSUME now \in 1 .. MaxTime, [Next]_vars
  PROVE now' \in 1 .. MaxTime
  <1>0. CASE UNCHANGED now  BY <1>0
  <1>1. CASE Clock  BY <1>1, StorageAssumption DEF Clock
  <1>2. CASE Boot \/ Tick \/ Shutdown \/ Crash \/ Outside \/ UNCHANGED vars
    BY <1>0, <1>2 DEF Boot, Tick, Shutdown, Crash, Outside, world, vars
  <1>3. CASE Opens
    BY <1>0, <1>3 DEF Opens, OpenDuck, OpenCsv, BackendOpen, SkipBackend, DbOpened, world
  <1>4. CASE Closes  BY <1>0, <1>4 DEF Closes, StopPool, CloseBackend, DbClosed, world
  <1>5. CASE \E r \in Reports : Offload(r) \/ Fallback(r) \/ Handle(r)
    BY <1>0, <1>5 DEF Offload, Fallback, Handle, Start, Insert, SetLastRun, world
  <1> QED  BY <1>1, <1>2, <1>3, <1>4, <1>5 DEF Next

-----------------------------------------------------------------------------
(* What the columns hold came in a report: a value in memory prints as what *)
(* some report gave, and a cell of the file is what it prints as.           *)
Given(t) == {Digits[r.val] : r \in {q \in Reports : q.type = t /\ Came(q)}}
CellsInv ==
  \A t \in Known :
    /\ values[t] # NoVal => Digits[values[t]] \in Given(t)
    /\ \A n \in DOMAIN csv.rows :
         csv.rows[n].cells[t] # NoVal => csv.rows[n].cells[t] \in Given(t)

LEMMA GivenGrows ==
  ASSUME LifeInv, [Next]_vars, NEW t \in Known
  PROVE  Given(t) \subseteq Given(t)'
  <1> SUFFICES ASSUME NEW r \in Reports, r.type = t, Came(r)
               PROVE Digits[r.val] \in Given(t)'
    BY DEF Given
  <1>1. Came(r)'  BY CameStays
  <1> QED  BY <1>1 DEF Given

LEMMA GivenPrint ==
  ASSUME NEW t \in Known, NEW v \in Given(t)
  PROVE Digits[v] = v
  BY StorageAssumption, CsvAssumption DEF Given

LEMMA FlushKeepsCells ==
  ASSUME CsvType, CellsInv, NEW time \in Times, C!FlushRow(time),
         NEW t \in Known, NEW n \in DOMAIN csv'.rows, csv'.rows[n].cells[t] # NoVal
  PROVE  csv'.rows[n].cells[t] \in Given(t)
  <1> DEFINE row == [stamp |-> Local[time], cells |-> C!Printed]
  <1>1. csv'.rows = Append(csv.rows, row) /\ csv.rows \in Seq(FileRows)
    BY FlushRowIs DEF CsvType
  <1>2. row.cells = C!Printed  OBVIOUS
  <1> HIDE DEF row
  <1>3. csv'.rows[n] = row \/ (n \in DOMAIN csv.rows /\ csv'.rows[n] = csv.rows[n])
    BY <1>1
  <1>4. CASE csv'.rows[n] = row
    BY <1>2, <1>4, PrintedIs DEF CsvType, CellsInv
  <1>5. CASE n \in DOMAIN csv.rows /\ csv'.rows[n] = csv.rows[n]
    BY <1>5 DEF CellsInv
  <1> QED  BY <1>3, <1>4, <1>5

LEMMA CellsStep ==
  ASSUME CsvType, LifeInv, CellsInv, [Next]_vars
  PROVE CellsInv'
  <1> DEFINE CellsNow(t) ==
        /\ values'[t] # NoVal => Digits[values'[t]] \in Given(t)'
        /\ \A n \in DOMAIN csv'.rows :
             csv'.rows[n].cells[t] # NoVal => csv'.rows[n].cells[t] \in Given(t)'
  <1> SUFFICES ASSUME NEW t \in Known PROVE CellsNow(t)
    BY DEF CellsInv
  <1>g. Given(t) \subseteq Given(t)'  BY GivenGrows
  <1>0. csv \in [made : BOOLEAN, headed : BOOLEAN, rows : Seq(FileRows)]
        /\ values \in C!Columns
    BY DEF CsvType
  <1>s. ASSUME csv'.rows = csv.rows, values'[t] \in {values[t], NoVal} PROVE CellsNow(t)
    BY <1>g, <1>s DEF CellsInv
  <1>n. C!Nothing[t] = NoVal  BY NothingIs
  <1>1. CASE C!CreateFile
    <2>1. UNCHANGED values /\ csv'.rows = csv.rows  BY <1>0, <1>1 DEF C!CreateFile
    <2> QED  BY <1>s, <2>1
  <1>2. CASE C!WriteHeader(now)
    <2>1. UNCHANGED values /\ csv'.rows = csv.rows  BY <1>0, <1>2 DEF C!WriteHeader
    <2> QED  BY <1>s, <2>1
  <1>3. CASE C!Replay(now)
    <2>1. csv'.rows = csv.rows  BY <1>3 DEF C!Replay
    <2>2. CASE values'[t] = NoVal  BY <1>s, <2>1, <2>2
    <2>3. CASE /\ C!LastCell(t) \in C!Cells(t)
               /\ values'[t] = C!Body[C!LastCell(t)].cells[t]
               /\ values'[t] # NoVal
      <3>1. C!LastCell(t) \in DOMAIN C!Body  BY <2>3 DEF C!Cells
      <3>2. PICK m \in DOMAIN csv.rows : C!Body[C!LastCell(t)] = csv.rows[m]
        BY <3>1, BodyIs
      <3>3. values'[t] = csv.rows[m].cells[t] /\ values'[t] # NoVal  BY <2>3, <3>2
      <3>4. values'[t] \in Given(t)  BY <3>3 DEF CellsInv
      <3>5. Digits[values'[t]] \in Given(t)  BY <3>4, GivenPrint
      <3> QED  BY <1>g, <2>1, <3>5 DEF CellsInv
    <2> QED  BY <1>3, <2>2, <2>3, ReplayIs
  <1>4. ASSUME NEW r \in Reports, Came(r), CsvInsert(r) PROVE CellsNow(t)
    <2>1. /\ UNCHANGED csv
          /\ \/ UNCHANGED values
             \/ r.type \in Known /\ values' = [values EXCEPT ![r.type] = r.val]
      BY <1>4, CsvInsertIs
    <2>2. CASE values'[t] = values[t]  BY <1>s, <2>1, <2>2
    <2>3. CASE r.type = t /\ values'[t] = r.val
      <3>1. Digits[values'[t]] \in Given(t)  BY <1>4, <2>3 DEF Given
      <3> QED  BY <1>g, <2>1, <3>1 DEF CellsInv
    <2>4. values'[t] = values[t] \/ (r.type = t /\ values'[t] = r.val)
      BY <1>0, <2>1 DEF C!Columns
    <2> QED  BY <2>2, <2>3, <2>4
  <1>5. ASSUME NEW time \in Times, C!FlushRow(time), values'[t] \in {values[t], NoVal}
        PROVE CellsNow(t)
    BY <1>g, <1>5, FlushKeepsCells DEF CellsInv
  <1>6. CASE C!Tick(now)  BY <1>5, <1>6, TickIs
  <1>7. CASE C!Close(now)
    <2>1. PICK time \in Times : C!FlushRow(time)  BY <1>7, CloseIs
    <2>2. values'[t] = NoVal  BY <1>7, <1>n, CloseIs
    <2> QED  BY <1>5, <2>1, <2>2
  <1>8. CASE C!Die
    <2>1. csv' = csv /\ values' = C!Nothing  BY <1>8 DEF C!Die
    <2> QED  BY <1>n, <1>s, <2>1
  <1>9. CASE UNCHANGED csvs
    <2>1. csv' = csv /\ values' = values  BY <1>9 DEF csvs
    <2> QED  BY <1>s, <2>1
  <1>10. CsvStep  BY NextIsCsvStep
  <1> HIDE DEF CellsNow
  <1> QED
    BY <1>1, <1>2, <1>3, <1>4, <1>6, <1>7, <1>8, <1>9, <1>10 DEF CsvStep

-----------------------------------------------------------------------------
(* All of it together.                                                      *)
StorageInv == /\ DuckType /\ CsvType /\ PlaceType /\ HeldInv
              /\ LifeInv /\ OpenInv /\ FileInv /\ CellsInv

LEMMA StorageInit == Init => StorageInv
  <1> SUFFICES ASSUME Init PROVE StorageInv  OBVIOUS
  <1> USE DEF Init, D!Init, C!Init
  <1>1. DuckType  BY DEF DuckType, D!Stored
  <1>2. CsvType
    <2>1. <<>> \in Seq(FileRows)  OBVIOUS
    <2>2. 0 \in 0 .. MaxTime /\ 1 \in 1 .. MaxTime  BY StorageAssumption
    <2> QED  BY <2>1, <2>2, NothingIs DEF CsvType
  <1>3. PlaceType  BY DEF PlaceType, Places, Free, Down
  <1>4. LifeInv  BY LifeInit
  <1>5. OpenInv
    <2>1. Len(Configured) \in Nat  BY StorageAssumption
    <2> QED  BY <2>1 DEF Down, OpenInv, Reading
  <1>6. FileInv  BY DEF FileInv
  <1>7. CellsInv  BY NothingIs DEF CellsInv
  <1>8. HeldInv  BY DEF HeldInv, OneRow, D!Stored
  <1> QED  BY <1>1, <1>2, <1>3, <1>4, <1>5, <1>6, <1>7, <1>8 DEF StorageInv

LEMMA StorageStep ==
  ASSUME StorageInv, [Next]_vars
  PROVE StorageInv'
  <1> USE DEF StorageInv
  <1>1. DuckType'  BY NextIsDuckStep, DuckTypeStep
  <1>2. CsvType'
    <2>1. now' \in 1 .. MaxTime  BY ClockStep DEF CsvType
    <2> QED  BY <2>1, NextIsCsvStep, CsvTypeStep
  <1>3. PlaceType'  BY PlaceStep
  <1>4. LifeInv'  BY LifeStep
  <1>5. OpenInv'  BY OpenStep
  <1>6. FileInv'  BY NextIsCsvStep, FileStep
  <1>7. CellsInv'  BY CellsStep
  <1>8. HeldInv'  BY HeldStep
  <1> QED  BY <1>1, <1>2, <1>3, <1>4, <1>5, <1>6, <1>7, <1>8

LEMMA StorageAlways == Spec => []StorageInv
  BY StorageInit, StorageStep, PTL DEF Spec

(* The state the core, db.c and its backends keep stays well formed, in the *)
(* file of DuckDB and history.csv as in memory.                             *)
THEOREM TypeCorrect == Spec => []TypeOK
  <1>1. StorageInv => TypeOK
    <2> SUFFICES ASSUME StorageInv PROVE TypeOK  OBVIOUS
    <2>1. state \in [Reports -> S!Stages]
      BY DEF StorageInv, LifeInv, LifeType, Stages, S!Stages
    <2>2. last_ts \in [Known -> Times \cup {0}]
      BY DEF StorageInv, CsvType, Stamps
    <2>3. {c.report : c \in confirmed} \subseteq Reports  BY DEF StorageInv, HeldInv
    <2> QED
      BY <2>1, <2>2, <2>3 DEF StorageInv, TypeOK, DuckType, CsvType, PlaceType, Places,
                        LifeInv, LifeType, OpenInv
  <1> QED  BY <1>1, StorageAlways, PTL

(* csv_open and flush_row: however often history.csv is written, closed and *)
(* replayed, every cell of a column is what "%.6g" makes of a value that    *)
(* some report gave for that column.                                        *)
THEOREM CellsReported == Spec => []CellsWereReported
  <1>1. StorageInv => CellsWereReported
    <2> SUFFICES ASSUME StorageInv, NEW t \in Known, NEW n \in C!Cells(t)
                 PROVE \E r \in Reports : /\ r.type = t /\ state[r] # "new"
                                          /\ C!Body[n].cells[t] = Digits[r.val]
      BY DEF CellsWereReported
    <2>1. n \in DOMAIN C!Body /\ C!Body[n].cells[t] # NoVal  BY DEF C!Cells
    <2>2. PICK m \in DOMAIN csv.rows : C!Body[n] = csv.rows[m]
      BY <2>1, BodyIs DEF StorageInv
    <2>3. C!Body[n].cells[t] \in Given(t)
      BY <2>1, <2>2 DEF StorageInv, CellsInv
    <2> QED  BY <2>3 DEF Given, Came
  <1> QED  BY <1>1, StorageAlways, PTL

(* csv_open: an open that finds a header restores the values as they were   *)
(* when the last row was written, those too that no report has given since  *)
(* the start before.                                                        *)
THEOREM RestartRestores == Spec => ReplayRestores
  <1>1. ASSUME StorageInv, Next, fp = "none", fp' = "open", csv.headed
        PROVE values' = onfile
    <2>1. CsvType /\ FileInv /\ CsvStep  BY <1>1, NextIsCsvStep DEF StorageInv
    <2> QED  BY <1>1, <2>1, FileOpensByReplay, ReplayGivesBack
  <1>2. StorageInv /\ [Next]_vars
          => [fp = "none" /\ fp' = "open" /\ csv.headed => values' = onfile]_vars
    BY <1>1
  <1> QED  BY <1>2, StorageAlways, PTL DEF Spec, ReplayRestores

(* db_query_latest_tier1 after db_open has put the primary first: in any    *)
(* order in which workers insert, the latest value that DuckDB gives out is *)
(* no older than any confirmed report of its type that was not wiped.       *)
THEOREM LatestStays == Spec => []LatestIsNewest
  <1>1. StorageInv => LatestIsNewest
    <2> SUFFICES ASSUME StorageInv, Reads,
                        NEW i \in DOMAIN backends,
                        backends[i] = [kind |-> "duckdb", primary |-> TRUE],
                        NEW c \in confirmed
                 PROVE  \/ Owed(c) \subseteq wiped
                        \/ \E s \in Latest(c.report.type) : s.ts >= c.report.ts
      BY DEF LatestIsNewest
    <2> DEFINE r == c.report
    <2> HIDE DEF r
    <2>1. Primary = "duckdb"
      <3>1. i = 1  BY DEF StorageInv, OpenInv, Reads, Reading
      <3> QED  BY <3>1 DEF Primary
    <2>2. D!Stored \subseteq D!Rows
      <3>1. Rows \subseteq D!Rows  BY RowIs DEF Rows
      <3>2. D!Spare \subseteq D!Rows  BY DuckAssumption DEF D!Spare
      <3>3. D!Stored \subseteq Rows \cup D!Spare  BY DEF StorageInv, DuckType
      <3> QED  BY <3>1, <3>2, <3>3
    <2>3. PICK s \in Kept : Owed(c) = {s} /\ D!Key(s) = D!Key(r)
      BY DEF StorageInv, HeldInv, Held, r
    <2>0. CASE s \in wiped  BY <2>0, <2>3
    <2>4. CASE s \in D!Stored
      <3> DEFINE N == {q.ts : q \in {p \in D!Stored : p.type = r.type}}
      <3>1. s.type = r.type /\ s.ts = r.ts  BY <2>3 DEF D!Key
      <3>2. N \subseteq Times /\ s.ts \in N  BY <2>2, <2>4, <3>1 DEF D!Rows
      <3> HIDE DEF N
      <3>3. N \in SUBSET Int /\ IsFiniteSet(N)
        <4>1. IsFiniteSet(Times) /\ Times \subseteq Int  BY StorageAssumption
        <4> QED  BY <3>2, <4>1, FS_Subset
      <3>4. PICK m \in N : \A n \in N : m >= n  BY <3>2, <3>3, Greatest
      <3>5. PICK q \in D!Stored : q.type = r.type /\ q.ts = m
        BY <3>4 DEF N
      <3>6. q \in D!Latest(r.type)
        <4>1. \A p \in D!Stored : p.type = r.type => p.ts \in N  BY DEF N
        <4> QED  BY <3>3, <3>4, <3>5, <4>1 DEF D!Latest
      <3> QED  BY <2>1, <3>1, <3>2, <3>4, <3>5, <3>6 DEF Latest, r
    <2> QED  BY <2>0, <2>3, <2>4 DEF Kept
  <1> QED  BY <1>1, StorageAlways, PTL
=============================================================================
