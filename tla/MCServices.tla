---------------------------- MODULE MCServices ----------------------------
(* Services that must come to an end of what they began: the execution     *)
(* service's slices, the WebSocket streams, the MCP client's calls and the *)
(* audit logger.  A behaviour moves one unit, which never changes.         *)
EXTENDS ExecutionService, EventStream, McpClient, AuditLogger

(* Callers of the logger: two that start it, two that stop it, one that    *)
(* flushes.                                                                *)
CONSTANTS a1, a2, z1, z2, f

Ops == [c \in Callers |-> CASE c \in {a1, a2} -> "start"
                            [] c \in {z1, z2} -> "stop"
                            [] c = f -> "flush"]

(* Three risk states; an order of two fills, and one that ends unfilled.   *)
Changes == <<3, 1>>

VARIABLE unit

servicesVars == <<unit, serviceVars, streamVars, mcpVars, auditVars>>

(* The units that stand still are in one of their initial states.          *)
ServicesInit ==
  /\ unit \in {"service", "stream", "mcp", "audit"}
  /\ ServiceInit /\ StreamInit /\ McpInit /\ AuditInit
  /\ unit # "stream" => stream = "risk"
  /\ unit # "mcp" => setup.transport = "stdio"

ServicesNext ==
  /\ UNCHANGED unit
  /\ \/ unit = "service" /\ ServiceNext /\ UNCHANGED <<streamVars, mcpVars, auditVars>>
     \/ unit = "stream" /\ StreamNext /\ UNCHANGED <<serviceVars, mcpVars, auditVars>>
     \/ unit = "mcp" /\ McpNext /\ UNCHANGED <<serviceVars, streamVars, auditVars>>
     \/ unit = "audit" /\ AuditNext /\ UNCHANGED <<serviceVars, streamVars, mcpVars>>

(* No task of a unit that stands still awaits anything.                    *)
ServicesSpec ==
  /\ ServicesInit /\ [][ServicesNext]_servicesVars
  /\ ServiceFairness /\ StreamFairness /\ McpFairness /\ AuditFairness
=============================================================================
