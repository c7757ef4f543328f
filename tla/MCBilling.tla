----------------------------- MODULE MCBilling -----------------------------
(* An instance of Billing for TLC: two sessions and two calls to race on one *)
(* order.                                                                    *)
EXTENDS Billing, TLC

CONSTANTS order, session1, session2, call1, call2
=============================================================================
