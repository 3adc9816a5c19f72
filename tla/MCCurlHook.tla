----------------------------- MODULE MCCurlHook -----------------------------
(* CurlHook with the thread that logs in and one or two others.            *)
EXTENDS CurlHook

CONSTANTS game, http

=============================================================================
