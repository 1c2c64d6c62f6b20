---------------------------- MODULE MCHttpServer ----------------------------
(* HttpServer on small pools: sockets are model values, a socket that was  *)
(* freed is accepted again.                                                *)
EXTENDS HttpServer, TLC

CONSTANTS s1, s2, s3

TwoSockets == {s1, s2}
ThreeSockets == {s1, s2, s3}
SocketSymmetry == Permutations(Sockets)

BothValues == {TRUE, FALSE}
BusyValue == {FALSE}
=============================================================================
