---------------------------- MODULE MCSharedPort ----------------------------
(* SharedPort for TLC: a packet whose payload is itself a SOF byte, one    *)
(* for another node whose payload could have been typed, and one of        *)
(* another protocol version without a payload.                             *)
EXTENDS SharedPort, TLC

CONSTANTS mine, foreign, old

MCPayload == mine :> <<"A5">> @@ foreign :> <<"key">> @@ old :> <<>>
=============================================================================
