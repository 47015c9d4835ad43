----------------------------- MODULE OrderFifo -----------------------------
(***************************************************************************)
(* What a belt promises its left neighbours about their orders: a waiting  *)
(* line without duplicates.  An accepted order joins the end of the line,  *)
(* only the oldest order is served, and it leaves the line when its        *)
(* package has left the belt; the line always moves on.                    *)
(***************************************************************************)
EXTENDS Naturals, Sequences

CONSTANT Sfds   \* the left neighbours' connections

VARIABLES orders,    \* the accepted orders, oldest first
          serving    \* the oldest order's package is being moved

vars == <<orders, serving>>

Init == orders = <<>> /\ serving = FALSE

Accept(s) == /\ \A i \in DOMAIN orders : orders[i] # s
             /\ orders' = Append(orders, s)
             /\ UNCHANGED serving

Serve == /\ ~serving
         /\ orders # <<>>
         /\ serving' = TRUE
         /\ UNCHANGED orders

Complete == /\ serving
            /\ serving' = FALSE
            /\ orders' = Tail(orders)

Next == (\E s \in Sfds : Accept(s)) \/ Serve \/ Complete

Safety == Init /\ [][Next]_vars

Spec == Safety /\ WF_vars(Serve) /\ WF_vars(Complete)
=============================================================================
