---------------------------- MODULE MCTableCache -----------------------------
(***************************************************************************)
(* Instances of TableCache: a server that is restarted, and a server with  *)
(* a command line run beside it ("run.py run --fresh").                    *)
(***************************************************************************)
EXTENDS TableCache

CONSTANTS r1, r2, r3, server, cli

OneServer == [r \in Runs |-> server]

ServerAndCli == [r \in Runs |-> IF r = r1 THEN cli ELSE server]
=============================================================================
