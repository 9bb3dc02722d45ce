---------------------------- MODULE MCIpcServer ----------------------------
(***************************************************************************)
(* Two cached types stand for the four of the code: state and transcript, *)
(* reply, micgain are cached and replayed in the same way. A line the      *)
(* clients echo back and the server does not keep stands for the rest.     *)
(***************************************************************************)
EXTENDS IpcServer

CONSTANTS v1, v2

MCCachedOrder == <<"reply", "state">>
MCSays == [reply |-> {v1}, state |-> {v1, v2}, pong |-> {v1}]
=============================================================================
