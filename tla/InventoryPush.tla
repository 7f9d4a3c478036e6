--------------------------- MODULE InventoryPush ---------------------------
(***************************************************************************)
(* IntegrationsService.pushInventory: the stock of every mapped variant is *)
(* read and sent to the shop, item by item, while sales go on, the sync    *)
(* maps more variants and another push may run.                            *)
(***************************************************************************)
EXTENDS Integers, FiniteSets

CONSTANTS
  Variants,    \* mapped variants
  Locations,   \* stock locations: a variant has a balance in each
  PushCalls,   \* slots for concurrent requests
  MaxBalance   \* bound: units of a variant at a location

ASSUME PushAssumption == MaxBalance \in Nat

VARIABLES
  balance,   \* InventoryBalance.quantity
  known,     \* variants with an ExternalObjectMap row
  shown,     \* external: the quantity the shop shows
  pushCall,  \* the requests
  inLine     \* history: a push has just run alone and succeeded

pushVars == <<balance, known, shown, pushCall, inLine>>

PushIdle == [step |-> "idle", todo |-> {}, total |-> [v \in {} |-> 0],
             refused |-> {}, alone |-> FALSE]

PushInit ==
  /\ balance = [v \in Variants |-> [l \in Locations |-> 0]]
  /\ known = {}
  /\ shown = [v \in Variants |-> 0]
  /\ pushCall = [c \in PushCalls |-> PushIdle]
  /\ inLine = FALSE

\* balances.reduce((sum, b) => sum + b.quantity, 0)
OnHand(v) ==
  LET sum[ls \in SUBSET Locations] ==
        IF ls = {} THEN 0
        ELSE LET l == CHOOSE x \in ls : TRUE IN balance[v][l] + sum[ls \ {l}]
  IN  sum[Locations]

Disturb == /\ inLine' = FALSE
           /\ pushCall' = [c \in PushCalls |-> [pushCall[c] EXCEPT !.alone = FALSE]]

\* A sale, a purchase or a transfer.
BalanceMoves(v, l) ==
  /\ \E n \in 0..MaxBalance \ {balance[v][l]} : balance' = [balance EXCEPT ![v][l] = n]
  /\ Disturb
  /\ UNCHANGED <<known, shown>>

\* A sync maps another variant.
MapVariant(v) ==
  /\ v \notin known
  /\ known' = known \union {v}
  /\ Disturb
  /\ UNCHANGED <<balance, shown>>

\* The maps are read and the job is RUNNING.
StartPush(c) ==
  LET others == {d \in PushCalls : pushCall[d].step # "idle"}
  IN  /\ pushCall[c].step = "idle"
      /\ pushCall' = [d \in PushCalls |->
           IF d = c THEN [PushIdle EXCEPT !.step = "read", !.todo = known,
                                          !.alone = (others = {})]
           ELSE [pushCall[d] EXCEPT !.alone = FALSE]]
      /\ inLine' = FALSE
      /\ UNCHANGED <<balance, known, shown>>

\* The balances are read, all at once (Promise.all), and added up.
ReadBalances(c) ==
  /\ pushCall[c].step = "read"
  /\ pushCall' = [pushCall EXCEPT ![c].step = "push",
                    ![c].total = [v \in pushCall[c].todo |-> OnHand(v)]]
  /\ UNCHANGED <<balance, known, shown, inLine>>

\* UniversalRestConnector.pushInventory: one request per item; a refusal or a
\* lost connection, with the quantity set or not, is noted and the loop goes on.
PushOne(c) ==
  /\ pushCall[c].step = "push"
  /\ \E v \in pushCall[c].todo :
       \/ /\ shown' = [shown EXCEPT ![v] = pushCall[c].total[v]]
          /\ pushCall' = [pushCall EXCEPT ![c].todo = @ \ {v}]
       \/ /\ pushCall' = [pushCall EXCEPT ![c].todo = @ \ {v}, ![c].refused = @ \union {v}]
          /\ shown' \in {shown, [shown EXCEPT ![v] = pushCall[c].total[v]]}
  /\ UNCHANGED <<balance, known, inLine>>

\* Mutant: the job succeeds when something got through.
SucceedsPartly(c) == pushCall[c].refused # DOMAIN pushCall[c].total \/ pushCall[c].refused = {}

\* The job is SUCCEEDED: result.failed.length === 0
Succeeds(c) == pushCall[c].refused = {}

FinishPush(c) ==
  /\ pushCall[c].step = "push" /\ pushCall[c].todo = {}
  /\ inLine' = (pushCall[c].alone /\ Succeeds(c))
  /\ pushCall' = [pushCall EXCEPT ![c] = PushIdle]
  /\ UNCHANGED <<balance, known, shown>>

PushNext ==
  \/ \E v \in Variants, l \in Locations : BalanceMoves(v, l)
  \/ \E v \in Variants : MapVariant(v)
  \/ \E c \in PushCalls : StartPush(c) \/ ReadBalances(c) \/ PushOne(c) \/ FinishPush(c)

PushSpec == PushInit /\ [][PushNext]_pushVars
-----------------------------------------------------------------------------
\* A push that runs alone and whose job says SUCCEEDED leaves the shop with the
\* stock of every variant that is mapped, at all locations together, whatever
\* older quantities an overlapping push had left there.
PushSettles == inLine => \A v \in known : shown[v] = OnHand(v)
=============================================================================
