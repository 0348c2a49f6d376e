---------------------------- MODULE MCWinServer ----------------------------
(* A server for two or three connections, its clients' configurations and its
   own. *)
EXTENDS WinServer

Plain ==
    [version |-> "current", supported |-> {1, 2, 4}, preferred |-> {2}, req |-> 1,
     token |-> "shared", packet |-> 64]

MCHellos ==
    {[Plain EXCEPT !.req = 2],
     [Plain EXCEPT !.token = "other"],
     [Plain EXCEPT !.req = 3],
     [Plain EXCEPT !.supported = {1}, !.packet = 32],
     [Plain EXCEPT !.version = "garbage"]}

Server ==
    [supported |-> {1, 2, 4}, preferred |-> {2}, req |-> 2, resp |-> 1, ceiling |-> 1,
     token |-> "shared", packet |-> 64, fits |-> Kinds]

MCServerConfigs ==
    {Server,
     [Server EXCEPT !.supported = {4}, !.ceiling = 2],
     [Server EXCEPT !.supported = {}],
     [Server EXCEPT !.supported = {1, 2}, !.fits = {"mapping", "req_event"}]}
=============================================================================
