------------------------------ MODULE LinkLedger ------------------------------
(***************************************************************************)
(* What a recipient link promises, without saying how: every first         *)
(* delivery through the link is backed by a grant of its own, a link with  *)
(* a limit never has more grants than the limit, and a revoked link makes  *)
(* no new grant.  ViewAccounting is shown to implement this ledger.        *)
(***************************************************************************)
EXTENDS Naturals, FiniteSets

CONSTANTS Requests,   \* the render requests that may ever ask for a grant
          Links,      \* the recipient links (rows of view_links)
          MaxUses     \* MaxUses[l]: the limit of link l, 0 when it has none

VARIABLES granted,    \* granted[l]: the requests holding a use of l
          delivered,  \* delivered[l]: those of them that were sent the media
          revoked     \* revoked[l]: the owner has revoked l

vars == <<granted, delivered, revoked>>

Init ==
  /\ granted = [l \in Links |-> {}]
  /\ delivered = [l \in Links |-> {}]
  /\ revoked = [l \in Links |-> FALSE]

\* One more use of l is taken, unless l is revoked or spent.
Grant(l, r) ==
  /\ ~revoked[l]
  /\ r \notin granted[l]
  /\ MaxUses[l] # 0 => Cardinality(granted[l]) < MaxUses[l]
  /\ granted' = [granted EXCEPT ![l] = @ \cup {r}]
  /\ UNCHANGED <<delivered, revoked>>

\* Only a request that holds a use is sent the media, and only once.
Deliver(l, r) ==
  /\ r \in granted[l] \ delivered[l]
  /\ delivered' = [delivered EXCEPT ![l] = @ \cup {r}]
  /\ UNCHANGED <<granted, revoked>>

Revoke(l) ==
  /\ revoked' = [revoked EXCEPT ![l] = TRUE]
  /\ UNCHANGED <<granted, delivered>>

Next ==
  \E l \in Links :
    \/ Revoke(l)
    \/ \E r \in Requests : Grant(l, r) \/ Deliver(l, r)

Spec == Init /\ [][Next]_vars
===============================================================================
