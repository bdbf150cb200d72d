----------------------------- MODULE MCAsyncSend ----------------------------
(* Small instances of AsyncSend for TLC.                                      *)
EXTENDS AsyncSend
=============================================================================
