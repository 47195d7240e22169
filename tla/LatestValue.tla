----------------------------- MODULE LatestValue -----------------------------
(***************************************************************************)
(* What the watch channel of src/watch.rs promises its users: one          *)
(* publisher, a changing set of members, and a member that does not leave   *)
(* gets a value at least as new as every value published.  Values in        *)
(* between may be skipped, and a value may be delivered more than once; a   *)
(* member never goes back to an older value.                                *)
(***************************************************************************)
EXTENDS Naturals

CONSTANT Receivers

VARIABLES published,  \* number of the newest value
          delivered,  \* delivered[r]: number of the value r got last, 0 for none
          members,    \* receivers that have joined and not left
          open        \* the publisher has not gone away

absVars == <<published, delivered, members, open>>

AbsInit ==
    /\ published = 1
    /\ delivered = [r \in Receivers |-> 0]
    /\ \E r \in Receivers : members = {r}
    /\ open = TRUE

Publish ==
    /\ open
    /\ published' = published + 1
    /\ UNCHANGED <<delivered, members, open>>

\* A delivery hands over the newest value, never an older one.
Deliver(r) ==
    /\ r \in members
    /\ delivered' = [delivered EXCEPT ![r] = published]
    /\ UNCHANGED <<published, members, open>>

\* A new member starts with what the member it was cloned from has seen.
Join(r, p) ==
    /\ p \in members
    /\ r \notin members
    /\ delivered' = [delivered EXCEPT ![r] = delivered[p]]
    /\ members' = members \cup {r}
    /\ UNCHANGED <<published, open>>

Leave(r) ==
    /\ r \in members
    /\ members' = members \ {r}
    /\ UNCHANGED <<published, delivered, open>>

CloseSender ==
    /\ open
    /\ open' = FALSE
    /\ UNCHANGED <<published, delivered, members>>

AbsNext ==
    \/ Publish
    \/ CloseSender
    \/ \E r \in Receivers : Deliver(r) \/ Leave(r)
    \/ \E r, p \in Receivers : Join(r, p)

\* A member that is behind is served or leaves.
CatchUp(r) == delivered[r] < published /\ (Deliver(r) \/ Leave(r))

AbsSafe == AbsInit /\ [][AbsNext]_absVars

AbsSpec == AbsSafe /\ \A r \in Receivers : WF_absVars(CatchUp(r))
=============================================================================
