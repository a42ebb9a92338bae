---------------------------- MODULE OutboxDelivery ----------------------------
(***************************************************************************)
(* The outbox implements EventDelivery: the refinement mapping.             *)
(***************************************************************************)
EXTENDS Outbox

Delivery == INSTANCE EventDelivery WITH
  published <- {e \in Event : row[e].status # "NONE"},
  handled <- {p \in Event \X Handler : ran[p[1]][p[2]] > 0},
  acknowledged <- {e \in Event : row[e].status = "PROCESSED"}

(* Claims, locks, releases, late marks and crashes never show through: the   *)
(* services see events that are delivered at least once, in priority order.  *)
ImplementsDelivery == Delivery!DSpec
=============================================================================
