------------------------------ MODULE SaleOnce ------------------------------
(***************************************************************************)
(* What the offline sale path promises, with no queue, network or retry in *)
(* sight: a sale rung up on a device is recorded by the server at most     *)
(* once, is never un-recorded, and the device calls it synced only while   *)
(* the server has it.  OfflineSync is shown to implement this module.      *)
(***************************************************************************)
EXTENDS Naturals

CONSTANT Items          \* clientMutationIds, one per sale rung up

VARIABLES rung,         \* the items the device has accepted
          rows,         \* the number of Sale rows the server holds per item
          acked         \* the items the device shows as synced

onceVars == <<rung, rows, acked>>

OnceInit == /\ rung = {}
            /\ rows = [i \in Items |-> 0]
            /\ acked = {}

\* The cashier charges a cart.
Ring(i) == /\ i \in Items \ rung
           /\ rung' = rung \union {i}
           /\ UNCHANGED <<rows, acked>>

\* The server commits the one Sale row of a rung-up item.
Record(i) == /\ i \in rung
             /\ rows[i] = 0
             /\ rows' = [rows EXCEPT ![i] = 1]
             /\ UNCHANGED <<rung, acked>>

\* The device learns of a recorded sale, or (a second attempt of it started)
\* stops showing it as synced; it never shows an unrecorded one as synced.
Show == /\ acked' \subseteq {i \in rung : rows[i] = 1}
        /\ UNCHANGED <<rung, rows>>

OnceNext == \/ \E i \in Items : Ring(i) \/ Record(i)
            \/ Show

OnceSpec == OnceInit /\ [][OnceNext]_onceVars
=============================================================================
