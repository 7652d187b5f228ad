----------------------------- MODULE MCThreadPool -----------------------------
(* The pool with three workers and four tasks: more tasks than workers, so  *)
(* that work queues up, and more workers than awake ones, so that signals   *)
(* matter.                                                                  *)
EXTENDS ThreadPool
=============================================================================
