-------------------------------- MODULE MCNet --------------------------------
(***************************************************************************)
(* The handles of a process, and the bytes of one connection: two models   *)
(* that share no state, explored one at a time.                            *)
(***************************************************************************)
EXTENDS NetSock, NetStream

MCTimeouts == {Absent, 1}

VARIABLE focus

NetVars == <<vars, streamVars, focus>>

(* The stream's choice of transport is of no concern to the handles.       *)
NetInit ==
  /\ Init /\ StreamInit /\ focus \in {"handles", "stream"}
  /\ focus = "handles" => ~encrypted /\ ~deadlined

NetNext ==
  /\ UNCHANGED focus
  /\ \/ focus = "handles" /\ Next /\ UNCHANGED streamVars
     \/ focus = "stream" /\ StreamNext /\ UNCHANGED vars

NetSpec == NetInit /\ [][NetNext]_NetVars /\ Fairness /\ StreamFairness
=============================================================================
