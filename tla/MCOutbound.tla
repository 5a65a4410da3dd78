------------------------------ MODULE MCOutbound ------------------------------
(* The texts of Outbound's runs. Each stands for a construct that a chunk     *)
(* boundary may cut; every cut of it is tried.                               *)
EXTENDS Outbound

MCPhones == {"+12025550142"}

MCSteady ==
  {"oh :-) ok", "a . . b", "wait.. go", "ok :) ;", "at me@you.com", "dial +12025550142", "well-known 80-s",
   "bad \\\"mark\\\"", "no /n yes", "one.Two", "a <b>c", "R&amp;D, 5%"}

MCLate == {"freestyle mode. hi", "to a.b@c.com", "5 - 3 ok", "*wink* ok", "i ,so", "long <tail that goes on"}
=============================================================================
