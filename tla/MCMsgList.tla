----------------------------- MODULE MCMsgList -----------------------------
(* Three producers and two consumers on a list of two.                      *)
EXTENDS MsgList
=============================================================================
