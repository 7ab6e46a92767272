------------------------------ MODULE MCDoctor ------------------------------
(* Doctor for TLC: a host that works, and one whose new configuration is   *)
(* invalid and which has no Nginx any more.                                *)
EXTENDS Doctor

All == Facts
Config(x, n) == [c \in Range(Components) |->
                   IF c = "xray" THEN x ELSE IF c = "nginx" THEN n ELSE "i1"]

MCHosts == {
  [config |-> Config("v1", "n1"), ok |-> All],
  [config |-> Config("v2", "absent"), ok |-> {<<"nginx", "validation">>, <<"xray", "service">>}] }
=============================================================================
