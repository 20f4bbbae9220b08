---------------------------- MODULE MCThreadPool ----------------------------
(* Four runners for three workers, so that one runner has to queue.         *)
EXTENDS ThreadPool
=============================================================================
