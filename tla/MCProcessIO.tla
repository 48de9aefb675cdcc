---------------------------- MODULE MCProcessIO ----------------------------
(* Two callers and two processes one after the other, each with one chunk   *)
(* to write: a reader of the first can meet the second's log, and either    *)
(* caller can close the log under a reader or under the other caller.       *)
EXTENDS ProcessIO
=============================================================================
