------------------------- MODULE MCDaemonLifecycle -------------------------
(* Small instances of DaemonLifecycle: the clients were started without    *)
(* STAPLER_MCP_HTTP_PORT, the service manager's unit sets it.              *)
EXTENDS DaemonLifecycle

MCHttpPort == [c \in Clients |-> NoPort]
=============================================================================
