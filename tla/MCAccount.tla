------------------------------- MODULE MCAccount -------------------------------
(* A small instance of Account with several owners and no session key.      *)
EXTENDS Account, TLC

CONSTANTS a1, a2, a3, c1

MCOneArg == {{1}}
MCExecute == {{PERMISSION_EXECUTE}}
================================================================================
