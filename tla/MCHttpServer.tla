----------------------------- MODULE MCHttpServer -----------------------------
(* Two slots and two clients, or one slot for both, so that a slot is reused  *)
(* or a client is turned away; pieces, so that a read or a write can be       *)
(* partial; a table of one or two entries; a plugin that may answer twice.    *)
EXTENDS HttpServer
=============================================================================
