------------------------------- MODULE MCStorage -------------------------------
(* Any two of four reports: one point twice, an older one after a newer, an   *)
(* unknown type; the column "price" stays empty.  The clock is in the hour    *)
(* that autumn repeats.  CSV is configured first, DuckDB as primary, and a    *)
(* backup of the database is there.                                           *)
EXTENDS Storage

MCKnown == {"temp", "price"}
MCTypes == {"temp", "price", "unknown"}
MCTimes == 1 .. 2
MCVals == {"exact", "long", "small"}
MCDigits == [v \in MCVals |-> IF v = "long" THEN "exact" ELSE v]
MCDecimals == [v \in MCVals |-> IF v = "small" THEN "exact" ELSE v]
MCLocal == [t \in MCTimes |-> 1]
Report(i, t, s, v) == [id |-> i, type |-> t, ts |-> s, val |-> v]
MCReports == {Report(1, "temp", 2, "exact"), Report(2, "temp", 2, "long"),
              Report(3, "temp", 1, "small"), Report(4, "unknown", 1, "exact")}
MCConfigured == <<[kind |-> "csv", primary |-> FALSE],
                  [kind |-> "duckdb", primary |-> TRUE]>>
MCBackup == {{[type |-> "temp", ts |-> 1, val |-> "exact"]}}
=============================================================================
