---------------------------- MODULE ModalLedger ----------------------------
(***************************************************************************)
(* The ledger of paid GPU calls (visual_lab.py, modal_budget.py): a file   *)
(* that every process reads and replaces under one flock, so that each of  *)
(* the operations below is one step.  Money is counted in whole units; a   *)
(* reservation is named by the experiment it pays for.                     *)
(***************************************************************************)
EXTENDS Integers, Functions

CONSTANTS RunCap,    \* run_cap_usd
          HardStop   \* hard_stop_workspace_total_usd, less usage_before_lab_usd

ASSUME LedgerAssumption == RunCap \in Nat /\ HardStop \in Nat

EmptyLedger == [prior |-> 0, records |-> <<>>, reservations |-> <<>>]

Total(costs) == FoldFunction(LAMBDA x, y : x + y, 0, costs)
Settled(l) == l.prior + Total(l.records)
Usage(l) == Settled(l) + Total(l.reservations)

Without(costs, e) == [x \in DOMAIN costs \ {e} |-> costs[x]]
With(costs, e, cost) == [x \in DOMAIN costs \cup {e} |-> IF x = e THEN cost ELSE costs[x]]

\* VisualLabLedger.__post_init__: a ledger above its cap cannot be read.
Readable(l) == Usage(l) <= RunCap

\* _anchor_authoritative_workspace_total
Anchored(l, reported) ==
    LET recorded == Total(l.records)
        floor == IF reported > Settled(l) THEN reported ELSE Settled(l)
    IN  [l EXCEPT !.prior = floor - recorded]

Released(l, e) == [l EXCEPT !.reservations = Without(@, e)]
Recorded(l, e, cost) == [l EXCEPT !.records = With(@, e, cost)]
Reserved(l, e, ceiling) == [l EXCEPT !.reservations = With(@, e, ceiling)]

\* authorize_and_reserve_modal_budget
MayAuthorize(l, e, ceiling, reported) ==
    /\ Readable(l)
    /\ e \notin DOMAIN l.reservations
    /\ e \notin DOMAIN l.records
    /\ Usage(Anchored(l, reported)) + ceiling <= HardStop
    /\ Usage(Anchored(l, reported)) + ceiling <= RunCap

\* settle_modal_budget: the record is added to the ledger without the reservation.
MaySettle(l, e, as, cost) ==
    /\ Readable(l)
    /\ e \in DOMAIN l.reservations
    /\ as \notin DOMAIN l.records
    /\ Usage(Released(l, e)) + cost <= RunCap

\* release_modal_budget_reservation
MayRelease(l, e) == Readable(l) /\ e \in DOMAIN l.reservations
============================================================================
