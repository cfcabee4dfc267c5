--------------------------- MODULE MCDemoRebuild ---------------------------
(***************************************************************************)
(* Small instances of DemoRebuild.                                         *)
(***************************************************************************)
EXTENDS DemoRebuild

CONSTANTS t1, t2, s1

\* Two requests for the report beside one that connects, a thread that dies
\* with the poller, an operator and a script, a script that dies twice.
Mix(requests, n) == [requests |-> requests, faults |-> n]
Shared == {Mix({<<t2, "ready">>, <<s1, "visit">>}, 0),
           Mix({<<t2, "ready">>}, 1), Mix({<<t2, "admin">>}, 1),
           Mix({<<t1, "admin">>, <<s1, "ensure">>, <<s1, "visit">>}, 1),
           Mix({<<s1, "ensure">>, <<s1, "visit">>}, 2)}
=============================================================================
