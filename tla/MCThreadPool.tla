---------------------------- MODULE MCThreadPool ----------------------------
(* ThreadPool for TLC; the caller is a string, so the workers are strings too. *)
EXTENDS ThreadPool

MCWorkers == {"w1", "w2", "w3"}
=============================================================================
