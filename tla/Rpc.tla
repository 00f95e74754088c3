-------------------------------- MODULE Rpc --------------------------------
(***************************************************************************)
(* What a client may rely on when it calls the daemon over a connection    *)
(* (the comments of ConnClient.Call and Close, internal/ipc/client.go):    *)
(* each call returns once, with the answer the server gave to it or with   *)
(* an error, and none is left waiting when the connection is gone.         *)
(***************************************************************************)
CONSTANT Calls

VARIABLES
  outcome,   \* of each call: not made yet, open, or how it returned
  answered,  \* the calls the server has answered
  up,        \* the connection is usable
  crashed    \* the caller's process has ended

rpcVars == <<outcome, answered, up, crashed>>

RpcInit ==
  /\ outcome = [i \in Calls |-> "idle"]
  /\ answered = {}
  /\ up = TRUE
  /\ crashed = FALSE

Request(i) ==
  /\ ~crashed
  /\ outcome[i] = "idle"
  /\ outcome' = [outcome EXCEPT ![i] = "open"]
  /\ UNCHANGED <<answered, up, crashed>>

Answer(i) ==
  /\ outcome[i] # "idle"
  /\ i \notin answered
  /\ answered' = answered \cup {i}
  /\ UNCHANGED <<outcome, up, crashed>>

Succeed(i) ==
  /\ ~crashed
  /\ outcome[i] = "open"
  /\ i \in answered
  /\ outcome' = [outcome EXCEPT ![i] = "reply"]
  /\ UNCHANGED <<answered, up, crashed>>

Fail(i) ==
  /\ ~crashed
  /\ outcome[i] = "open"
  /\ outcome' = [outcome EXCEPT ![i] = "error"]
  /\ UNCHANGED <<answered, up, crashed>>

GoDown ==
  /\ up
  /\ up' = FALSE
  /\ UNCHANGED <<outcome, answered, crashed>>

Crash ==
  /\ ~crashed
  /\ crashed' = TRUE
  /\ UNCHANGED <<outcome, answered, up>>

\* A call that the connection can no longer serve, or that the server has
\* answered, returns.
Due(i) == ~crashed /\ (~up \/ i \in answered) /\ (Succeed(i) \/ Fail(i))

RpcNext ==
  \/ \E i \in Calls : Request(i) \/ Answer(i) \/ Succeed(i) \/ Fail(i)
  \/ GoDown
  \/ Crash

Rpc == RpcInit /\ [][RpcNext]_rpcVars /\ \A i \in Calls : WF_rpcVars(Due(i))
=============================================================================
