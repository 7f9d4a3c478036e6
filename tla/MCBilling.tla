------------------------------ MODULE MCBilling -----------------------------
(***************************************************************************)
(* Billing alone, with a third branch: two activations may overlap.        *)
(***************************************************************************)
EXTENDS Billing

MCDefaultPrice == [base |-> 10, extra_branch |-> 5, extra_user |-> 2]
MCCatalogue == [k \in DOMAIN MCDefaultPrice |-> [price |-> MCDefaultPrice[k], active |-> TRUE]]
=============================================================================
