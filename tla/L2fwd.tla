------------------------------- MODULE L2fwd -------------------------------
(***************************************************************************)
(* The forwarding benchmark (l2fwd/main.c): one program that is the server *)
(* on one machine and the traffic generator on the others.  main sets up   *)
(* the devices and runs one of the two on every lcore, for ever.           *)
(***************************************************************************)
EXTENDS L2fwdServer, L2fwdClient

VARIABLE is_client

allVars == <<vars, clientVars, is_client>>

MainInit == is_client \in BOOLEAN /\ Init /\ ClientInit

\* l2fwd_launch_one_lcore
Server(A) == ~is_client /\ A /\ UNCHANGED <<clientVars, is_client>>
Client(A) == is_client /\ A /\ UNCHANGED <<vars, is_client>>

MainNext == Server(Next) \/ Client(ClientNext)

\* Every lcore runs its loop and nothing else; the server's NIC sends what
\* is in its transmit rings.  Nothing is assumed of the client's NIC.
MainSpec ==
  /\ MainInit /\ [][MainNext]_allVars
  /\ WF_allVars(Server(run_server))
  /\ \A p \in Port : WF_allVars(Server(Transmitted(p)))
  /\ \A c \in Lcores : WF_allVars(Client(run_client(c)))

-----------------------------------------------------------------------------
(* No mbuf is leaked or owned twice, by the server or by the client.       *)
MainMbufsConserved == MbufsConserved /\ PoolsConserved

(* No port of the server and no receive queue of the client is starved.    *)
NothingStarves == PortsServed /\ QueuesServed
=============================================================================
