---------------------------- MODULE EventDelivery ----------------------------
(***************************************************************************)
(* What the event bus promises to the services that publish and to the      *)
(* handlers that listen, without workers, locks or attempts: a published    *)
(* event runs through its handlers in priority order; it is acknowledged    *)
(* only when all of them have handled it; an acknowledgement may be taken   *)
(* back and any handler may be run again.                                   *)
(***************************************************************************)
EXTENDS Integers

CONSTANTS Event, NumSync

VARIABLES published, handled, acknowledged

dvars == <<published, handled, acknowledged>>

DInit == published = {} /\ handled = {} /\ acknowledged = {}

DPublish(S) ==
  /\ S \subseteq Event \ published
  /\ published' = published \cup S
  /\ UNCHANGED <<handled, acknowledged>>

\* Running h once more is a stuttering step.
DHandle(e, h) ==
  /\ e \in published
  /\ h \in 1..NumSync[e]
  /\ \A g \in 1..(h - 1) : <<e, g>> \in handled
  /\ handled' = handled \cup {<<e, h>>}
  /\ UNCHANGED <<published, acknowledged>>

DAcknowledge(e) ==
  /\ e \in published
  /\ \A h \in 1..NumSync[e] : <<e, h>> \in handled
  /\ acknowledged' = acknowledged \cup {e}
  /\ UNCHANGED <<published, handled>>

DRetract(e) ==
  /\ acknowledged' = acknowledged \ {e}
  /\ UNCHANGED <<published, handled>>

DNext ==
  \/ \E S \in SUBSET Event : DPublish(S)
  \/ \E e \in Event : \E h \in 1..NumSync[e] : DHandle(e, h)
  \/ \E e \in Event : DAcknowledge(e)
  \/ \E e \in Event : DRetract(e)

DSpec == DInit /\ [][DNext]_dvars
=============================================================================
