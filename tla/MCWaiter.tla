------------------------------ MODULE MCWaiter ------------------------------
(* Waiter on two waiting and three completing goroutines.                  *)
EXTENDS Waiter
=============================================================================
