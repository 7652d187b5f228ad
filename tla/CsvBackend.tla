----------------------------- MODULE CsvBackend -----------------------------
(***************************************************************************)
(* db/csv_backend.c: the last value of each semantic type in memory, and a *)
(* file with one column per type, to which a row with all last values is   *)
(* appended at intervals and at close.  Every row is flushed to the        *)
(* operating system, so a process that dies loses the memory only.         *)
(***************************************************************************)
EXTENDS Integers, Sequences, FiniteSets
Sets == INSTANCE FiniteSetsExt

CONSTANTS Known,     (* semantic types, without SEM_UNKNOWN                *)
          Times,     (* positive: of reports, and of the clock             *)
          Vals,
          NoVal,     (* an empty cell; has_value is FALSE                  *)
          Digits,    (* what is left of a value printed with "%.6g"        *)
          Local,     (* what parse_iso makes of the local time of a row,   *)
                     (* which has no zone: an hour repeated in autumn      *)
                     (* comes out as one of the two                        *)
          Interval   (* interval_sec                                       *)

VARIABLES
  csv,      (* history.csv: whether it is there, has a header, its rows    *)
  values,   (* ctx->values and has_value                                   *)
  last_ts,  (* ctx->last_ts                                                *)
  flushed,  (* ctx->last_flush                                             *)
  fp,       (* none, file opened but no header yet, open                   *)
  onfile    (* history: the values in memory when the last row was written *)

cvars == <<csv, values, last_ts, flushed, fp, onfile>>

Columns == [Known -> Vals \cup {NoVal}]
Nothing == [t \in Known |-> NoVal]
Zero == [t \in Known |-> 0]

Init == /\ csv = [made |-> FALSE, headed |-> FALSE, rows |-> <<>>]
        /\ values = Nothing /\ last_ts = Zero /\ flushed = 0
        /\ fp = "none" /\ onfile = Nothing

-----------------------------------------------------------------------------
(* csv_open.  A new file gets its header; of an old one the first line is   *)
(* skipped, whatever it is, and the other lines are read: the last cell of  *)
(* a column that is not empty counts, with the time of its row.             *)
CreateFile == /\ fp = "none" /\ ~csv.made
              /\ csv' = [csv EXCEPT !.made = TRUE]
              /\ fp' = "new"
              /\ UNCHANGED <<values, last_ts, flushed, onfile>>

WriteHeader(now) == /\ fp = "new" /\ fp' = "open"
                    /\ csv' = [csv EXCEPT !.headed = TRUE]
                    /\ flushed' = now
                    /\ UNCHANGED <<values, last_ts, onfile>>

Body == IF csv.headed \/ csv.rows = <<>> THEN csv.rows ELSE Tail(csv.rows)
Cells(t) == {n \in DOMAIN Body : Body[n].cells[t] # NoVal}

(* Mutant: the first cell counts.                                           *)
FirstCell(t) == IF Cells(t) = {} THEN 0 ELSE Sets!Min(Cells(t))

LastCell(t) == IF Cells(t) = {} THEN 0 ELSE Sets!Max(Cells(t))

Replay(now) ==
  /\ fp = "none" /\ csv.made /\ fp' = "open"
  /\ values' = [t \in Known |-> IF LastCell(t) = 0 THEN NoVal
                                ELSE Body[LastCell(t)].cells[t]]
  /\ last_ts' = [t \in Known |-> IF LastCell(t) = 0 THEN 0
                                 ELSE Body[LastCell(t)].stamp]
  /\ flushed' = now
  /\ UNCHANGED <<csv, onfile>>

(* csv_insert_tier1                                                         *)
Insert(r, ret) ==
  /\ fp = "open"
  /\ IF r.type \notin Known THEN ret = "EINVAL" /\ UNCHANGED <<values, last_ts>>
     ELSE IF values[r.type] # NoVal /\ last_ts[r.type] = r.ts
     THEN ret = "EEXIST" /\ UNCHANGED <<values, last_ts>>
     ELSE /\ ret = "ok"
          /\ values' = [values EXCEPT ![r.type] = r.val]
          /\ last_ts' = [last_ts EXCEPT ![r.type] = r.ts]
  /\ UNCHANGED <<csv, flushed, fp, onfile>>

(* Mutant: has_value is not looked at.                                      *)
PrintedAll == [t \in Known |-> IF values[t] = NoVal THEN CHOOSE v \in Vals : TRUE
                               ELSE Digits[values[t]]]

(* flush_row                                                                *)
Printed == [t \in Known |-> IF values[t] = NoVal THEN NoVal ELSE Digits[values[t]]]
FlushRow(time) ==
  /\ csv' = [csv EXCEPT !.rows =
               Append(@, [stamp |-> Local[time], cells |-> Printed])]
  /\ onfile' = Printed

(* csv_tick, when the interval is over; else it does nothing.               *)
Due(now) == fp = "open" /\ now - flushed >= Interval
Tick(now) == /\ Due(now)
             /\ FlushRow(now)
             /\ flushed' = now
             /\ UNCHANGED <<values, last_ts, fp>>

(* csv_close: a last row, with the time of the newest value.                *)
Newest == Sets!Max({last_ts[t] : t \in Known} \cup {0})
Close(now) == /\ fp = "open" /\ fp' = "none"
              /\ FlushRow(IF Newest > 0 THEN Newest ELSE now)
              /\ values' = Nothing /\ last_ts' = Zero /\ flushed' = 0

Die == /\ fp' = "none" /\ values' = Nothing /\ last_ts' = Zero /\ flushed' = 0
       /\ UNCHANGED <<csv, onfile>>

(* query_latest_tier1, query_range_tier1 (which looks for the column in the *)
(* first line, and finds none if that is no header), and                    *)
(* query_point_exists_tier1                                                 *)
Latest(t) == IF t \in Known /\ values[t] # NoVal
             THEN {[type |-> t, ts |-> last_ts[t], val |-> values[t]]} ELSE {}
Range(t, from, to) ==
  {[type |-> t, ts |-> Body[n].stamp, val |-> Body[n].cells[t]] :
     n \in {m \in Cells(t) : csv.headed /\ Body[m].stamp \in from .. to}}
PointExists(t, ts) == t \in Known /\ values[t] # NoVal /\ last_ts[t] = ts
=============================================================================
