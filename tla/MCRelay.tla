------------------------------ MODULE MCRelay ------------------------------
(* Small instance of Relay for TLC.                                        *)
EXTENDS Relay, TLC

CONSTANTS o, h      \* two peers
CONSTANTS f         \* a file
CONSTANTS d         \* a request-file
=============================================================================
