----------------------------- MODULE MCSvmDeploy ----------------------------
(* The svm message code and the helpers that produce such messages in one    *)
(* instance for TLC: a behaviour is either the judgement of one message by   *)
(* ValidateBasic, or the life of a deployment.                               *)
EXTENDS MCSvmMessage, SvmHelper

\* The transactions of a deployment as they are before ToCosmosMsg; the owner
\* is two of the accounts of the deploy instruction.
MCKeys == <<"owner", "buffer", "program", "executable", "rent", "clock", "system", "loader">>
MCWriteIx == <<"buffer", "owner">>
MCDeployIx == <<"owner", "executable", "program", "buffer", "rent", "clock", "system", "owner">>

MCDeployTxs ==
    {[keys |-> MCKeys, ixs |-> <<MCWriteIx, MCWriteIx, MCDeployIx>>],
     [keys |-> MCKeys, ixs |-> <<MCDeployIx>>],
     [keys |-> <<"owner", "buffer", "program", "loader">>,
      ixs |-> <<<<"owner", "buffer">>, <<"owner", "program">>, <<"buffer", "owner">>>>]}

MCAllSolanaTxs == MCSolanaTxs \cup MCDeployTxs

MCAccounts == <<"a", "b">>
MCOwnKey == [p \in {"d", "r"} |-> [a \in {"a", "b"} |-> <<p, a>>]]

VARIABLE family

MCInit ==
    /\ Init /\ HelperInit
    /\ \/ /\ family = "message"
          /\ programSize = 0
       \/ /\ family = "deploy"
          /\ msg = ToCosmosMsg(<<"a">>, Budget, CHOOSE t \in MCDeployTxs : Len(t.ixs) = 1)

MCNext ==
    /\ \/ family = "message" /\ Next /\ UNCHANGED helperVars
       \/ family = "deploy" /\ HelperNext /\ UNCHANGED vars
    /\ UNCHANGED family

MCSpec == MCInit /\ [][MCNext]_<<family, vars, helperVars>> /\ (family = "deploy" => HelperFairness)

\* DeploysWithoutFaults, in the behaviours that are about a deployment.
DeploymentSucceeds == family = "deploy" => DeploysWithoutFaults
=============================================================================
