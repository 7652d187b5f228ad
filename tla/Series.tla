-------------------------------- MODULE Series --------------------------------
(***************************************************************************)
(* What tier 1 of the database promises (include/db.h, 101-163), with the  *)
(* files, the write-ahead log and the process hidden: a point, which is a  *)
(* type and a time, has one value, the first that was inserted; it keeps   *)
(* it over crashes and restarts, as long as the database can be opened.    *)
(* Once it cannot, points may be lost, or come back from a backup.         *)
(***************************************************************************)
EXTENDS FiniteSets

CONSTANTS Rows,     (* records with a type, a ts and a val                 *)
          Spare     (* the rows of a backup                                *)

VARIABLES stored,   (* the rows                                            *)
          sound     (* no attempt to open the database has just failed     *)

svars == <<stored, sound>>

Key(r) == <<r.type, r.ts>>
Has(rows, r) == \E s \in rows : Key(s) = Key(r)

SInit == stored = {} /\ sound \in BOOLEAN

Insert == /\ \E r \in Rows : ~Has(stored, r) /\ stored' = stored \cup {r}
          /\ UNCHANGED sound

Change == sound' \in BOOLEAN /\ UNCHANGED stored

Lose == /\ ~sound /\ sound' \in BOOLEAN
        /\ stored' \subseteq stored \cup Spare

SSpec == SInit /\ [][Insert \/ Change \/ Lose]_svars
=============================================================================
