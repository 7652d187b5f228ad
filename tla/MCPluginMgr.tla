------------------------------ MODULE MCPluginMgr ------------------------------
(* Two plugins, one of which (like every SDK plugin) never sees SIGTERM,    *)
(* and a few forks: enough for crash, restart and stop of both in any order.*)
EXTENDS PluginMgr
=============================================================================
