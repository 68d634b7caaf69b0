----------------------------- MODULE HandleLife -----------------------------
(***************************************************************************)
(* What a handle table promises its callers, with no slots, generations,   *)
(* free stack or compaction: every handle is issued at most once, has one  *)
(* user at a time, is refused to newcomers once it is doomed, and dies     *)
(* exactly when its destruction was asked for and its last user and pin    *)
(* are gone.  No operation on one handle shows at another one.             *)
(***************************************************************************)
EXTENDS Naturals

CONSTANTS
  Handle, User,
  NoUser      \* the handle is not leased

VARIABLES
  life,       \* "unissued", "live", "doomed", "dying" or "dead"
  user,       \* who leases the handle
  pins        \* how often it is pinned

vars == <<life, user, pins>>

Init ==
  /\ life = [h \in Handle |-> "unissued"]
  /\ user = [h \in Handle |-> NoUser]
  /\ pins = [h \in Handle |-> 0]

Becomes(h, l, u, p) ==
  /\ life' = [life EXCEPT ![h] = l]
  /\ user' = [user EXCEPT ![h] = u]
  /\ pins' = [pins EXCEPT ![h] = p]

\* A dying handle is dead as soon as nobody uses it.
Settle(h, l, u, p) ==
  Becomes(h, IF l = "dying" /\ u = NoUser /\ p = 0 THEN "dead" ELSE l, u, p)

Issue(h) == life[h] = "unissued" /\ Becomes(h, "live", NoUser, 0)

Lease(h, u) ==
  /\ life[h] = "live" /\ user[h] = NoUser
  /\ Becomes(h, "live", u, pins[h])

Unlease(h) == user[h] # NoUser /\ Settle(h, life[h], NoUser, pins[h])

Pin(h) == life[h] = "live" /\ Becomes(h, "live", user[h], pins[h] + 1)

Unpin(h) == pins[h] > 0 /\ Settle(h, life[h], user[h], pins[h] - 1)

Doom(h) == life[h] = "live" /\ Becomes(h, "doomed", user[h], pins[h])

Condemn(h) ==
  /\ life[h] \in {"live", "doomed"}
  /\ Settle(h, "dying", user[h], pins[h])

\* An idle handle may also go at once.
Drop(h) ==
  /\ life[h] = "live" /\ user[h] = NoUser /\ pins[h] = 0
  /\ Becomes(h, "dead", NoUser, 0)

Next ==
  \E h \in Handle :
    \/ Issue(h) \/ Unlease(h) \/ Pin(h) \/ Unpin(h) \/ Doom(h) \/ Condemn(h) \/ Drop(h)
    \/ \E u \in User : Lease(h, u)

Spec == Init /\ [][Next]_vars
=============================================================================
