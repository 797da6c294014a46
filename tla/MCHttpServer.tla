---------------------------- MODULE MCHttpServer ----------------------------
(***************************************************************************)
(* A small instance of HttpServer: two connections.                        *)
(***************************************************************************)
EXTENDS HttpServer

CONSTANTS c1, c2
=============================================================================
