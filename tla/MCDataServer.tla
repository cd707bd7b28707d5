---------------------------- MODULE MCDataServer ----------------------------
(***************************************************************************)
(* DataServer for TLC: the first client sends two requests and a header    *)
(* that announces an empty body, the second client one request.            *)
(***************************************************************************)
EXTENDS DataServer

MCStream == <<<<1, 1, 2, 2, 3>>, <<4, 4>>, <<>>>>
=============================================================================
