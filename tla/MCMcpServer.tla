---------------------------- MODULE MCMcpServer ----------------------------
(* Small sessions: two threads, three contents, a cache of two.            *)
EXTENDS McpServer
=============================================================================
