------------------------------- MODULE ImageLife -------------------------------
(***************************************************************************)
(* What becomes of an uploaded image, as its owner, its viewers and an     *)
(* administrator may rely on: it is shown or held back for review until it *)
(* goes down, and from there the only way is out.  An administrator's      *)
(* denial and the end of the owner's account are final, whatever was being *)
(* decided meanwhile.  Who viewed it stays on record beyond that; the      *)
(* image itself vanishes only when it is nobody's and no view of it is on  *)
(* record any more.  ImageEvidence is shown to implement this life.        *)
(***************************************************************************)
CONSTANT Logs  \* the records of views

VARIABLES
  stage,    \* "shown", "held" back, "down" or "gone"
  owned,    \* its owner still has an account
  denied,   \* an administrator has denied it
  views     \* the views on record

vars == <<stage, owned, denied, views>>

Init ==
  /\ stage \in {"shown", "held"}
  /\ owned = TRUE /\ denied = FALSE /\ views = {}

Up == stage \in {"shown", "held"}

\* A moderator holds it back, or shows it.
Moderate ==
  /\ Up /\ stage' \in {"shown", "held"}
  /\ UNCHANGED <<owned, denied, views>>

\* The owner, the last view there may be, or the end of its time takes it down.
TakeDown ==
  /\ Up /\ stage' = "down"
  /\ UNCHANGED <<owned, denied, views>>

Lowered == IF stage = "gone" THEN "gone" ELSE "down"

Deny ==
  /\ stage' = Lowered /\ denied' = TRUE
  /\ UNCHANGED <<owned, views>>

Leave ==
  /\ stage' = Lowered /\ owned' = FALSE
  /\ UNCHANGED <<denied, views>>

\* A view that has begun while the image was up may be recorded when it is down.
Record(l) ==
  /\ stage # "gone" /\ views' = views \cup {l}
  /\ UNCHANGED <<stage, owned, denied>>

\* The records go all at once: by retention, or by an administrator.
Expunge ==
  /\ views' = {}
  /\ UNCHANGED <<stage, owned, denied>>

Vanish ==
  /\ stage = "down" /\ ~owned /\ views = {}
  /\ stage' = "gone"
  /\ UNCHANGED <<owned, denied, views>>

Next ==
  \/ Moderate \/ TakeDown \/ Deny \/ Leave \/ Expunge \/ Vanish
  \/ \E l \in Logs : Record(l)

Spec == Init /\ [][Next]_vars
-------------------------------------------------------------------------------
\* A denial and the end of the account are final, and nothing stays on record of an
\* image that has vanished.
Final ==
  /\ denied \/ ~owned => ~Up
  /\ stage = "gone" => ~owned /\ views = {}

\* What is down does not come up again, and what has vanished does not come back.
DownForGood ==
  [][(~Up => ~Up') /\ (stage = "gone" => stage' = "gone")]_vars
===============================================================================
