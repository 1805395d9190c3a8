----------------------------- MODULE MCGateway -----------------------------
(* A TLC instance of Gateway: three workspaces for two ports, two          *)
(* processes, and two clients of one workspace.                            *)
EXTENDS Gateway

CONSTANTS w1, pa

MCSite == [c \in Clients |-> w1]
MCGate == [c \in Clients |-> pa]
=============================================================================
