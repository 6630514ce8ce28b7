------------------------------ MODULE MCServer ------------------------------
(* Server for TLC.  The new release starts against an older one with one     *)
(* migration changed; one request of every kind of path is served beside one *)
(* worker loop; every limit of the counters is reached by four requests.     *)
EXTENDS Server, TLC

CONSTANTS p1, p2, p3, live, ready, login

New == <<"a", "b", "c">>
OldAndChanged == <<"a", "x">>
MixedFiles == p1 :> New @@ p2 :> OldAndChanged @@ p3 :> New

MCPath == live :> "live" @@ ready :> "ready" @@ login :> "auth"

Kind(route, status, ms) == [route |-> route, status |-> status, ms |-> ms]
MCKinds == {Kind("a", 200, 10), Kind("b", 500, 10), Kind("c", 404, 600), Kind("a", 200, 200)}
=============================================================================
