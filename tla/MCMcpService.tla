---------------------------- MODULE MCMcpService ----------------------------
(* The MCP service with the channels of the code and runs of two batches.  *)
(* Neither the number of tool calls nor that of faults is bounded.         *)
EXTENDS McpService
============================================================================
