------------------------------- MODULE MCFlush ------------------------------
(* Two threads to sync with, and one of another future.                    *)
EXTENDS Flush
=============================================================================
