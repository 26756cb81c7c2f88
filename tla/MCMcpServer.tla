----------------------------- MODULE MCMcpServer ----------------------------
(* Instance of McpServer: see McpServer.cfg.                               *)
EXTENDS McpServer
=============================================================================
