--------------------------- MODULE MCEmailDispatch ---------------------------
(***************************************************************************)
(* A ticket event that notifies a user and has a second subscriber.        *)
(***************************************************************************)
EXTENDS EmailDispatch

CONSTANTS ticketEvent, w1, w2, t1, t2

MCHandlersOf == [e \in Events |-> <<"notify", "index">>]
=============================================================================
