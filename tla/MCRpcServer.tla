------------------------------ MODULE MCRpcServer ------------------------------
EXTENDS RpcServer

MCKinds == [hook |-> {"write", "learn"}, bridge |-> {"health", "read", "learn"}]

MCBridge == [bridge |-> {"read", "write"}]
===============================================================================
