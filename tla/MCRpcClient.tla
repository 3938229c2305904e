----------------------------- MODULE MCRpcClient -----------------------------
EXTENDS RpcClient

\* -28 is RPC_IN_WARMUP, -5 stands for every other error code.
MCErrCodes      == {-28, -5}
\* The codes at the edges of abs: zero and the least int.
MCEdgeErrCodes  == {-28, 0, INT_MIN}
\* One status of each class CallRPC tells apart.
MCStatuses      == {200, 401, 403, 500}
MCRequestErrors == {0}

\* The configuration files: one names a port, one the test chain, one the
\* regression-test chain and the SSL mode that is no longer supported.
Files ==
    [f \in {"node.conf", "test.conf", "old.conf"} |->
        CASE f = "node.conf" -> ("-rpcport" :> "18555")
          [] f = "test.conf" -> ("-testnet" :> "1")
          [] f = "old.conf"  -> ("-regtest" :> "1") @@ ("-rpcssl" :> "1")]
\* Two files that reach every return of AppInitRPC, and two that differ in
\* the port they ask for.
MCChainFiles == [f \in {"test.conf", "old.conf"} |-> Files[f]]
MCPortFiles  == [f \in {"node.conf", "test.conf"} |-> Files[f]]
\* A request without a data directory, and one with.
MCDataDirs == {"", "data"}
MCRPCPort  == [c \in Chains |-> CASE c = "main" -> 8332 [] c = "test" -> 18332
                                  [] c = "regtest" -> 18443]
MCatoi     == [s \in {"18555"} |-> 18555]

=============================================================================
