------------------------------ MODULE MCBooks -------------------------------
(***************************************************************************)
(* The stock ledger and the invoices, for TLC: the two sets of books that  *)
(* concurrent transactions write.  They share no state: each behaviour     *)
(* exercises one of them (focus), the other stays as it began, so the      *)
(* states of the run are those of the two added up.                        *)
(*                                                                         *)
(* Nor does the calendar touch what an invoice is paid: behaviours of the  *)
(* invoices either cross the turn of a year (numbers) or pay, void, send   *)
(* and revoke what was issued (money).  Both create and convert.           *)
(***************************************************************************)
EXTENDS InventoryLedger, Invoices, TLC

VARIABLE focus   \* the books written

booksVars == <<vars, invoicesVars, focus>>

MCInit == focus \in {"ledger", "numbers", "money"} /\ Init /\ InvoicesInit

\* No request is one that pays, voids, sends or revokes.
OnlyNumbers == \A c \in Calls : callPc'[c] \notin {"pay", "void", "send", "audit"}

MCNext ==
  \/ focus = "ledger" /\ Next /\ UNCHANGED <<invoicesVars, focus>>
  \/ focus = "numbers" /\ InvoicesNext /\ OnlyNumbers /\ UNCHANGED <<vars, focus>>
  \/ focus = "money" /\ InvoicesNext /\ UNCHANGED <<year, vars, focus>>

MCSpec == MCInit /\ [][MCNext]_booksVars

\* The slots of concurrent requests for invoices are interchangeable.
MCSymmetry == Permutations(Calls)
=============================================================================
