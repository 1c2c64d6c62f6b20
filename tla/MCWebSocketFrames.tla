------------------------- MODULE MCWebSocketFrames --------------------------
(* One ClientConnection, its worker and the threads that broadcast.        *)
EXTENDS WebSocketFrames, TLC

CONSTANTS worker, app1, app2, chat, news

OneApp == {app1}
OneOrigin == {chat}
TwoOrigins == {chat, news}
OriginSymmetry == Permutations(Origins)
=============================================================================
