----------------------------- MODULE MCEventLoop ------------------------------
(* Constants of the model-checked instances of EventLoop.                  *)
EXTENDS EventLoop

CONSTANTS t1, t2

\* Tasks of a thread run in the order it submitted them, and every call that waits for the loop returns.
CallsServed == InSubmissionOrder /\ CallsReturn
=============================================================================
