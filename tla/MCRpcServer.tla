----------------------------- MODULE MCRpcServer -----------------------------
(***************************************************************************)
(* Instances of RpcServer for TLC.                                         *)
(***************************************************************************)
EXTENDS RpcServer

\* A name is the code of its first character and the rest of it.
MCName(initial, rest) == [initial |-> initial, rest |-> rest]
MCEth == MCName(101, "th")

\* PublicRPCAPI of rpc/rpcserver/http.go.
MCHandler(initial, rest) ==
  [name |-> MCName(initial, rest), exported |-> TRUE, numIn |-> 3,
   reply |-> "pointer", out |-> <<"error">>]
MCMethods == {MCHandler(71, "etLogs"), MCHandler(83, "yncBlockAndLogs")}

MCCall(verb, json, method, params) ==
  [verb |-> verb, json |-> json, method |-> method, params |-> params]
MCGetLogs == <<MCEth, MCName(103, "etLogs")>>
MCSync    == <<MCEth, MCName(115, "yncBlockAndLogs")>>

\* eth_getLogs, eth_syncBlockAndLogs, eth_GetLogs, eth_x_getLogs, no
\* arguments, a body that is no JSON, and GET.
MCCalls ==
  {MCCall("POST", TRUE, MCGetLogs, 1), MCCall("POST", TRUE, MCSync, 1),
   MCCall("POST", TRUE, <<MCEth, MCName(71, "etLogs")>>, 1),
   MCCall("POST", TRUE, MCSync, 0),
   MCCall("POST", FALSE, MCGetLogs, 1), MCCall("GET", TRUE, MCGetLogs, 1)}
=============================================================================
