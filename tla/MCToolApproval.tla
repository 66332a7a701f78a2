---------------------------- MODULE MCToolApproval ----------------------------
(* Three calls on one key: the smallest instance with an owner, a waiter   *)
(* and a newcomer.  UNLESS_TRUSTED takes ON_REQUEST's branches and is left *)
(* out of the instance, not of the specification.                          *)
EXTENDS ToolApproval

CONSTANTS a1, a2, a3, k1

MCCalls == {a1, a2, a3}
MCKeyOf == [c \in MCCalls |-> k1]
===============================================================================
