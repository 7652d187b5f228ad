------------------------------- MODULE Storage -------------------------------
(***************************************************************************)
(* db/db.c over its two backends, the report commands that use it          *)
(* (core/ipc_handlers.c, cmd_report), and the start and end of the core    *)
(* (server.c, heimwatt_init and heimwatt_destroy), with crashes at any     *)
(* step.  Reports are tasks of the thread pool, of which only what         *)
(* TaskService promises is used.                                           *)
(***************************************************************************)
EXTENDS Integers, Sequences, FiniteSets

CONSTANTS
  Reports,    (* report commands: records with id, type, ts, val           *)
  NoReport,
  Configured, (* storage.backends of the configuration: records of a kind, *)
              (* "duckdb" or "csv", and primary                            *)
  MaxReports, (* bound: reports that come in                               *)
  MaxBoots,   (* bound: starts of the core                                 *)
  MaxTime,    (* bound: of the clock                                       *)
  Types, Known, Times, Vals, NoVal, Decimals, Digits, Local, Backup, Interval

Kinds == {"duckdb", "csv"}
Configs == [kind : Kinds, primary : BOOLEAN]

ASSUME StorageAssumption ==
  /\ \A r \in Reports : r.type \in Types /\ r.ts \in Times /\ r.val \in Vals
  /\ NoReport \notin Reports
  /\ Configured \in Seq(Configs)
  /\ \A i, j \in DOMAIN Configured :
       Configured[i].kind = Configured[j].kind => i = j
  /\ Known \subseteq Types
  /\ MaxReports \in Nat /\ MaxBoots \in Nat /\ MaxTime \in Nat \ {0}
  /\ 1 .. MaxTime \subseteq Times /\ Times \subseteq Nat \ {0} /\ IsFiniteSet(Times)

VARIABLES
  file, table, wal, logged, other, stage, wiped,   (* of DuckBackend       *)
  csv, values, last_ts, flushed, fp, onfile,       (* of CsvBackend        *)
  state, phase,  (* of TaskService: the reports as tasks of ctx->pool      *)
  backends,      (* db->backends; empty without a database                 *)
  lock,          (* db->lock: its holder in db_insert_tier1, the backend   *)
                 (* whose turn it is, and primary_ret                      *)
  task,          (* where the handling of a report is                      *)
  main,          (* the main thread                                        *)
  plugins,       (* ctx->plugins is there                                  *)
  now, boots,    (* the clock in seconds; starts so far                    *)
  confirmed      (* history: reports whose insert DuckDB confirmed, with   *)
                 (* the rows it had of their points                        *)

D == INSTANCE DuckBackend
C == INSTANCE CsvBackend

ASSUME DuckAssumption == /\ Decimals \in [Vals -> Vals]
                         /\ Backup \in SUBSET SUBSET D!Rows
                         /\ \A b, c \in Backup : b = c
                         /\ \A b \in Backup : \A s, t \in b :
                              D!Key(s) = D!Key(t) => s = t

ASSUME CsvAssumption == /\ NoVal \notin Vals
                        /\ Digits \in [Vals -> Vals]
                        /\ \A v \in Vals : Digits[Digits[v]] = Digits[v]
                        /\ Local \in [Times -> Times]
                        /\ Interval \in Nat

S == INSTANCE TaskService WITH Tasks <- Reports

duck == <<file, table, wal, logged, other, stage, wiped>>
csvs == <<csv, values, last_ts, flushed, fp, onfile>>
pool == <<state, phase>>
db == <<backends, lock>>
world == <<now, boots>>
vars == <<duck, csvs, pool, db, task, main, plugins, world, confirmed>>

Free == [by |-> NoReport, k |-> 1, ret |-> "ok"]
Idle == [r \in Reports |-> "none"]
Down == [at |-> "down", k |-> 1]
At(a) == main.at = a
GoTo(a, n) == main' = [at |-> a, k |-> n]

Init == /\ D!Init /\ C!Init
        /\ state = [r \in Reports |-> "new"] /\ phase = "over"
        /\ backends = <<>> /\ lock = Free /\ task = Idle
        /\ main = Down /\ plugins = FALSE
        /\ now = 1 /\ boots = 0 /\ confirmed = {}

-----------------------------------------------------------------------------
(* main and heimwatt_create: the pool is there first.  Then db_open, one    *)
(* backend after the other; one that does not open is skipped.              *)
Boot == /\ At("down") /\ boots < MaxBoots /\ boots' = boots + 1
        /\ phase' = "open" /\ UNCHANGED state
        /\ GoTo("open", 1)
        /\ UNCHANGED <<duck, csvs, db, task, plugins, now, confirmed>>

Opening(kind) == /\ At("open") /\ main.k \in DOMAIN Configured
                 /\ Configured[main.k].kind = kind

OpenDuck == /\ Opening("duckdb") /\ D!Open
            /\ UNCHANGED <<csvs, pool, db, task, main, plugins, world, confirmed>>
OpenCsv == /\ Opening("csv")
           /\ C!CreateFile \/ C!WriteHeader(now) \/ C!Replay(now)
           /\ UNCHANGED <<duck, pool, db, task, main, plugins, world, confirmed>>

BackendOpen == /\ At("open") /\ main.k \in DOMAIN Configured
               /\ \/ Opening("duckdb") /\ stage = "open"
                  \/ Opening("csv") /\ fp = "open"
               /\ backends' = Append(backends, Configured[main.k])
               /\ GoTo("open", main.k + 1)
               /\ UNCHANGED <<duck, csvs, pool, lock, task, plugins, world, confirmed>>
SkipBackend == /\ \/ Opening("duckdb") /\ D!GiveUp
                  \/ Opening("csv") /\ fp = "none" /\ UNCHANGED duck
               /\ GoTo("open", main.k + 1)
               /\ UNCHANGED <<csvs, pool, db, task, plugins, world, confirmed>>

(* Mutant: the primary stays where the configuration has it.                *)
Unordered(bs) == bs

(* The first primary goes to index 0, which makes it the one that is read;  *)
(* the others are primaries no more.  If there is none, the first is one.   *)
Ordered(bs) ==
  LET isFirst(i) == bs[i].primary /\ \A j \in 1 .. i - 1 : ~bs[j].primary
      first == IF \E i \in DOMAIN bs : isFirst(i)
               THEN CHOOSE i \in DOMAIN bs : isFirst(i) ELSE 1
      from(i) == IF i = 1 THEN first ELSE IF i = first THEN 1 ELSE i
  IN [i \in DOMAIN bs |-> [kind |-> bs[from(i)].kind, primary |-> i = 1]]

(* The end of db_open, then of heimwatt_init; what fails there closes the   *)
(* database, and main destroys the rest.                                    *)
DbOpened == /\ At("open") /\ main.k = Len(Configured) + 1
            /\ backends' = Ordered(backends)
            /\ \/ backends # <<>> /\ GoTo("run", 1) /\ plugins' = TRUE
               \/ GoTo("cleanup", 1) /\ UNCHANGED plugins
            /\ UNCHANGED <<duck, csvs, pool, lock, task, world, confirmed>>

-----------------------------------------------------------------------------
(* handle_ipc_command: a report goes to the pool, or is handled on the spot *)
(* if the pool does not take it.                                            *)
Arrives == /\ At("run")
           /\ Cardinality({r \in Reports : state[r] # "new"}) < MaxReports

Offload(r) == /\ Arrives /\ S!Accept(r)
              /\ UNCHANGED <<duck, csvs, db, task, main, plugins, world, confirmed>>
Fallback(r) == /\ Arrives /\ S!Refuse(r)
               /\ GoTo("report", 1)
               /\ task' = [task EXCEPT ![r] = "insert"]
               /\ UNCHANGED <<duck, csvs, db, plugins, world, confirmed>>

Start(r) == /\ S!Start(r)
            /\ task' = [task EXCEPT ![r] = "insert"]
            /\ UNCHANGED <<duck, csvs, db, main, plugins, world, confirmed>>

RowsOf(r) == {s \in D!Stored : D!Key(s) = D!Key(r)}
Confirmation(r) == [report |-> r, before |-> RowsOf(r)]

BackendInsert(kind, r, ret) ==
  \/ kind = "duckdb" /\ D!Insert(r, ret) /\ UNCHANGED csvs
     /\ confirmed' = IF ret = "ok" THEN confirmed \cup {Confirmation(r)} ELSE confirmed
  \/ kind = "csv" /\ C!Insert(r, ret) /\ UNCHANGED <<duck, confirmed>>

(* The task returns to the pool, or the fallback to the main loop.          *)
Return(r) == /\ task' = [task EXCEPT ![r] = "none"]
             /\ \/ S!Complete(r) /\ UNCHANGED main
                \/ state[r] = "refused" /\ GoTo("run", 1) /\ UNCHANGED pool

(* cmd_report_logic and db_insert_tier1: one backend after the other with   *)
(* the lock held.  The primary's answer decides: stored or stored already,  *)
(* and the plugin's last run is noted; else only an error is logged.        *)
Insert(r) ==
  LET k == IF lock.by = r THEN lock.k ELSE 1 IN
  /\ task[r] = "insert" /\ lock.by \in {r, NoReport}
  /\ \E ret \in {"ok", "EEXIST", "EINVAL", "EIO"} :
       /\ BackendInsert(backends[k].kind, r, ret)
       /\ LET first == IF k = 1 THEN ret ELSE lock.ret IN
          IF k < Len(backends)
          THEN /\ lock' = [by |-> r, k |-> k + 1, ret |-> first]
               /\ UNCHANGED <<task, pool, main>>
          ELSE /\ lock' = Free
               /\ IF first \in {"ok", "EEXIST"}
                  THEN task' = [task EXCEPT ![r] = "note"] /\ UNCHANGED <<pool, main>>
                  ELSE Return(r)
  /\ UNCHANGED <<backends, plugins, world>>

(* plugin_mgr_set_last_run                                                  *)
SetLastRun(r) == /\ task[r] = "note" /\ Return(r)
                 /\ UNCHANGED <<duck, csvs, db, plugins, world, confirmed>>

(* db_tick: nothing is done if the lock is taken.                           *)
Tick == /\ At("run") /\ lock = Free
        /\ \E i \in DOMAIN backends : backends[i].kind = "csv"
        /\ C!Tick(now)
        /\ UNCHANGED <<duck, pool, db, task, main, plugins, world, confirmed>>

-----------------------------------------------------------------------------
(* heimwatt_destroy: the plugins are stopped, then the pool, and only when  *)
(* no task runs any more the plugin manager and the database go.            *)
Shutdown == /\ At("run") /\ S!Close
            /\ GoTo("stop", 1)
            /\ UNCHANGED <<duck, csvs, db, task, plugins, world, confirmed>>

(* Mutant: the pool is stopped last.                                        *)
StopPoolLast == /\ At("stop") /\ GoTo("close", 1) /\ plugins' = FALSE
                /\ UNCHANGED <<duck, csvs, pool, db, task, world, confirmed>>

StopPool == /\ At("stop") /\ S!End
            /\ GoTo("close", 1)
            /\ plugins' = FALSE
            /\ UNCHANGED <<duck, csvs, db, task, world, confirmed>>

(* db_close                                                                 *)
CloseBackend ==
  /\ At("close") \/ At("cleanup")
  /\ main.k \in DOMAIN backends
  /\ \/ backends[main.k].kind = "duckdb" /\ D!Close /\ UNCHANGED csvs
     \/ backends[main.k].kind = "csv" /\ C!Close(now) /\ UNCHANGED duck
  /\ GoTo(main.at, main.k + 1)
  /\ UNCHANGED <<pool, db, task, plugins, world, confirmed>>

DbClosed == /\ At("close") \/ At("cleanup")
            /\ main.k = Len(backends) + 1
            /\ backends' = <<>>
            /\ \/ At("close") /\ main' = Down /\ UNCHANGED pool
               \/ At("cleanup") /\ S!Close /\ GoTo("stop", 1)
            /\ UNCHANGED <<duck, csvs, lock, task, plugins, world, confirmed>>

(* The process dies at any step; so it does when http_server_destroy frees  *)
(* an open connection (between StopPool and CloseBackend).                  *)
Crash == /\ main.at # "down"
         /\ D!Die /\ C!Die
         /\ state' = [r \in Reports |-> IF state[r] \in {"accepted", "running"}
                                        THEN "discarded" ELSE state[r]]
         /\ phase' = "over"
         /\ backends' = <<>> /\ lock' = Free /\ task' = Idle
         /\ main' = Down /\ plugins' = FALSE
         /\ UNCHANGED <<world, confirmed>>

Clock == /\ now < MaxTime /\ now' = now + 1
         /\ UNCHANGED <<duck, csvs, pool, db, task, main, plugins, boots, confirmed>>

(* Damage, and a second process that opens the database, come while the     *)
(* core is down; later, with the file closed, they would do the same.       *)
Outside == /\ \/ D!AutoCheckpoint \/ D!OtherCloses
              \/ At("down") /\ (D!Damage \/ D!OtherOpens)
           /\ UNCHANGED <<csvs, pool, db, task, main, plugins, world, confirmed>>

-----------------------------------------------------------------------------
Handle(r) == Start(r) \/ Insert(r) \/ SetLastRun(r)
Opens == OpenDuck \/ OpenCsv \/ BackendOpen \/ SkipBackend \/ DbOpened
Closes == StopPool \/ CloseBackend \/ DbClosed

Next == \/ Boot \/ Opens \/ Tick \/ Shutdown \/ Closes
        \/ \E r \in Reports : Offload(r) \/ Fallback(r) \/ Handle(r)
        \/ Crash \/ Clock \/ Outside

Spec == Init /\ [][Next]_vars

-----------------------------------------------------------------------------
Rows == {D!Row(r) : r \in Reports}

TypeOK ==
  /\ D!Stored \cup wiped \subseteq Rows \cup D!Spare
  /\ file \in {"none", "good", "bad"} /\ wal \in {"none", "good", "bad"}
  /\ other \in BOOLEAN
  /\ stage \in {"closed", "plain", "no wal", "backup", "fresh", "open", "failed"}
  /\ values \in C!Columns /\ onfile \in C!Columns
  /\ last_ts \in [Known -> Times \cup {0}] /\ flushed \in 0 .. MaxTime
  /\ fp \in {"none", "new", "open"}
  /\ state \in [Reports -> S!Stages] /\ phase \in {"open", "closing", "over"}
  /\ Len(backends) <= Len(Configured)
  /\ lock.by \in Reports \cup {NoReport}
  /\ task \in [Reports -> {"none", "insert", "note"}]
  /\ main.at \in {"down", "open", "run", "report", "stop", "close", "cleanup"}
  /\ plugins \in BOOLEAN /\ {c.report : c \in confirmed} \subseteq Reports

(* What a confirmation is worth: the report's own row, if its point was new *)
(* then, and the row that was there, if it was not.  DuckDB confirms both   *)
(* (INSERT OR IGNORE), where db.h, line 54, has -EEXIST for the second.     *)
Owed(c) == IF c.before = {} THEN {D!Row(c.report)} ELSE c.before

(* What was owed when DuckDB confirmed a report stays the only row of its   *)
(* point, with its value, or was deleted by an open that could not read the *)
(* database: no second report of the point with another value, no crash at  *)
(* any step and no second writer replaces, doubles or loses it              *)
(* (duckdb_backend.c, duckdb_insert_tier1).                                 *)
ConfirmedIsStored ==
  \A c \in confirmed : RowsOf(c.report) = Owed(c) \/ Owed(c) \subseteq wiped

(* The order in which workers insert does not show: between two inserts,    *)
(* the latest value that the primary gives out (db_query_latest_tier1) is   *)
(* at least as new as any confirmed report of the type that was not wiped.  *)
Reads == backends # <<>> /\ main.at \in {"run", "report"}
Primary == backends[1].kind
Latest(t) == IF Primary = "duckdb" THEN D!Latest(t) ELSE C!Latest(t)
LatestIsNewest ==
  Reads /\ lock = Free
  /\ (\E i \in DOMAIN backends : backends[i] = [kind |-> "duckdb", primary |-> TRUE])
    => \A c \in confirmed :
         \/ Owed(c) \subseteq wiped
         \/ \E s \in Latest(c.report.type) : s.ts >= c.report.ts

(* A task in db_insert_tier1 or plugin_mgr_set_last_run finds database and  *)
(* plugin manager alive, on a worker or on the main thread, however the     *)
(* core is shut down (server.c, 645-685).                                   *)
UsedWhileAlive ==
  \A r \in Reports :
    /\ task[r] = "insert" => backends # <<>> /\ main.at \notin {"close", "cleanup"}
    /\ task[r] = "note" => plugins

(* What the file holds was reported: a cell of column t, through any number *)
(* of replays and rows and at any time, is a value some report gave for t   *)
(* (csv_open, flush_row).                                                   *)
CellsWereReported ==
  \A t \in Known : \A n \in C!Cells(t) :
    \E r \in Reports :
      r.type = t /\ state[r] # "new" /\ C!Body[n].cells[t] = Digits[r.val]

(* Opening a file with a header restores the values as the last row has     *)
(* them, those of types that were not reported since the last start too:    *)
(* a restart loses what came after the last row and nothing before.         *)
ReplayRestores ==
  [][fp = "none" /\ fp' = "open" /\ csv.headed => values' = onfile]_vars

(* The file of DuckDB implements the series of points (module Series).      *)
ImplementsSeries == D!TheSeries!SSpec
=============================================================================
