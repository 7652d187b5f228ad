----------------------------- MODULE DuckBackend -----------------------------
(***************************************************************************)
(* db/duckdb_backend.c: the table tier1 of a DuckDB file, and the four     *)
(* attempts duckdb_backend_open makes to get at it.                        *)
(*                                                                         *)
(* DuckDB itself is external: an insert is durable in the write-ahead log  *)
(* when duckdb_query returns, a checkpoint moves the log into the file, a  *)
(* file can be open in one process at a time, and a damaged file or log is *)
(* refused.                                                                *)
(***************************************************************************)
EXTENDS Integers, FiniteSets

CONSTANTS Types,     (* semantic_type, 0 for an unknown one among them     *)
          Times,     (* timestamps                                         *)
          Vals,      (* values                                             *)
          Decimals,  (* what is left of a value printed with "%f"          *)
          Backup     (* what path.backup holds: a set of one set of rows,  *)
                     (* or {} if there is no such file                     *)

Rows == [type : Types, ts : Times, val : Vals]
Spare == UNION Backup
Key(r) == <<r.type, r.ts>>
Has(rows, r) == \E s \in rows : Key(s) = Key(r)

VARIABLES
  file,    (* at path: none, good, or bad if DuckDB would refuse it        *)
  table,   (* the rows in it                                               *)
  wal,     (* at path.wal, likewise                                        *)
  logged,  (* the rows in the log that are not in the file                 *)
  other,   (* another process has the file at path open                    *)
  stage,   (* of duckdb_backend_open; open; or closed                      *)
  wiped    (* history: rows that were deleted with their file              *)

dvars == <<file, table, wal, logged, other, stage, wiped>>

Stored == table \cup logged
Opens == file # "bad" /\ wal # "bad" /\ ~other

Init == /\ file = "none" /\ table = {} /\ wal = "none" /\ logged = {}
        /\ other = FALSE /\ stage = "closed" /\ wiped = {}

(* duckdb_open creates the file; duckdb_connect or the schema may still     *)
(* fail, and the attempt is over.                                           *)
Opened == file' = "good" /\ stage' \in {"open", "failed"}

BeginOpen == /\ stage = "closed" /\ stage' = "plain"
             /\ UNCHANGED <<file, table, wal, logged, other, wiped>>

OpenPlain == /\ stage = "plain"
             /\ IF Opens THEN Opened ELSE stage' = "no wal" /\ UNCHANGED file
             /\ UNCHANGED <<table, wal, logged, other, wiped>>

OpenWithoutWal ==
  /\ stage = "no wal"
  /\ IF wal = "none" THEN /\ stage' = "backup"
                          /\ UNCHANGED <<file, wal, logged, wiped>>
     ELSE /\ wal' = "none" /\ logged' = {} /\ wiped' = wiped \cup logged
          /\ IF file # "bad" /\ ~other THEN Opened
             ELSE stage' = "backup" /\ UNCHANGED file
  /\ UNCHANGED <<table, other>>

(* unlink of both files: a process that has the old one open keeps it.      *)
Unlink(rows) == /\ wal' = "none" /\ logged' = {} /\ other' = FALSE
                /\ table' = rows /\ wiped' = wiped \cup (Stored \ rows)

OpenBackup ==
  /\ stage = "backup"
  /\ \/ Backup = {} /\ stage' = "fresh"
        /\ UNCHANGED <<file, table, wal, logged, other, wiped>>
     \/ \E b \in Backup : Unlink(b) /\ Opened
     \/ \E b \in Backup : Unlink({}) /\ file' = "bad" /\ stage' = "fresh"

OpenFresh == /\ stage = "fresh"
             /\ Unlink({})
             /\ Opened \/ (file' = "none" /\ stage' = "failed")

(* duckdb_backend_close: the checkpoint may fail, which nobody looks at.    *)
Checkpoint == table' = Stored /\ logged' = {} /\ wal' = "none"
Close == /\ stage = "open" /\ stage' = "closed"
         /\ Checkpoint \/ UNCHANGED <<table, logged, wal>>
         /\ UNCHANGED <<file, other, wiped>>

GiveUp == /\ stage = "failed" /\ stage' = "closed"
          /\ UNCHANGED <<file, table, wal, logged, other, wiped>>

-----------------------------------------------------------------------------
Row(r) == [type |-> r.type, ts |-> r.ts, val |-> Decimals[r.val]]

(* Mutants: INSERT OR REPLACE; nothing is written; the value as it is.      *)
InsertOrReplace(r) == /\ logged' = {s \in logged : Key(s) # Key(r)} \cup {Row(r)}
                      /\ table' = {s \in table : Key(s) # Key(r)}
                      /\ wal' = "good"
InsertNothing(r) == UNCHANGED <<table, logged, wal>>
InsertUnprinted(r) == logged' = logged \cup {r} /\ wal' = "good" /\ UNCHANGED table

(* INSERT OR IGNORE                                                         *)
InsertOrIgnore(r) == /\ IF Has(Stored, r) THEN UNCHANGED <<logged, wal>>
                        ELSE logged' = logged \cup {Row(r)} /\ wal' = "good"
                     /\ UNCHANGED table

Insert(r, ret) == /\ stage = "open"
                  /\ \/ ret = "ok" /\ InsertOrIgnore(r)
                     \/ ret = "EIO" /\ UNCHANGED <<table, logged, wal>>
                  /\ UNCHANGED <<file, other, stage, wiped>>

(* query_latest_tier1, query_range_tier1, query_point_exists_tier1          *)
Range(t, from, to) == {r \in Stored : r.type = t /\ r.ts \in from .. to}
Latest(t) == {r \in Stored : /\ r.type = t
                             /\ \A s \in Stored : s.type = t => s.ts <= r.ts}
PointExists(t, ts) == Range(t, ts, ts) # {}

-----------------------------------------------------------------------------
(* External: DuckDB checkpoints when it likes; the process dies; while it   *)
(* is down a file is damaged, or somebody else opens the database.          *)
AutoCheckpoint == /\ stage = "open" /\ wal # "none" /\ Checkpoint
                  /\ UNCHANGED <<file, other, stage, wiped>>

Die == /\ stage' = "closed"
       /\ UNCHANGED <<file, table, wal, logged, other, wiped>>

Damage == /\ stage = "closed"
          /\ \/ file = "good" /\ file' = "bad" /\ UNCHANGED wal
             \/ wal = "good" /\ wal' = "bad" /\ UNCHANGED file
          /\ UNCHANGED <<table, logged, other, stage, wiped>>

OtherOpens == /\ stage = "closed" /\ file = "good" /\ wal # "bad" /\ ~other
              /\ other' = TRUE
              /\ UNCHANGED <<file, table, wal, logged, stage, wiped>>
OtherCloses == /\ other /\ other' = FALSE
               /\ UNCHANGED <<file, table, wal, logged, stage, wiped>>

Open == BeginOpen \/ OpenPlain \/ OpenWithoutWal \/ OpenBackup \/ OpenFresh
Outside == AutoCheckpoint \/ Damage \/ OtherOpens \/ OtherCloses \/ Die
Next == \/ Open \/ Close \/ GiveUp \/ Outside
        \/ \E r \in Rows, ret \in {"ok", "EIO"} : Insert(r, ret)

Spec == Init /\ [][Next]_dvars

(* The file implements the series: rows go only with a database that an     *)
(* attempt to open has just failed on.                                      *)
TheSeries == INSTANCE Series WITH
  stored <- Stored,
  sound <- Opens /\ stage \notin {"no wal", "backup", "fresh"}
=============================================================================
