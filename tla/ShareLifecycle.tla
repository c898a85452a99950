---------------------------- MODULE ShareLifecycle ----------------------------
(***************************************************************************)
(* What a user of the service is promised of a share, whatever tables,     *)
(* jobs and buckets stand behind it: the contract of the share-name API    *)
(* (POST /api/uploads, PATCH and DELETE /api/shares/{name}).               *)
(*                                                                         *)
(*   - a name is given out once and leads to that share for good;          *)
(*   - a share is pending until its upload settles it, once;               *)
(*   - its content never changes after that;                               *)
(*   - only its owner renames or removes it, and a removed share stays     *)
(*     removed.                                                            *)
(***************************************************************************)
CONSTANTS Share, Name, Owner, Content, None

VARIABLES
    shares,   \* [Share -> record]
    leadsTo   \* [Name -> Share \cup {None}]

lifecycleVars == <<shares, leadsTo>>

LiveState == {"pending", "ready", "failed"}

Unpublished == [state |-> "none", owner |-> None, name |-> None, content |-> None]

Init ==
    /\ shares = [h \in Share |-> Unpublished]
    /\ leadsTo = [n \in Name |-> None]

Publish(h, o, n) ==
    /\ shares[h].state = "none"
    /\ leadsTo[n] = None
    /\ shares' = [shares EXCEPT ![h] =
                      [state |-> "pending", owner |-> o, name |-> n, content |-> None]]
    /\ leadsTo' = [leadsTo EXCEPT ![n] = h]

\* The upload was processed: its content is there from now on.
Settle(h, c) ==
    /\ shares[h].state = "pending"
    /\ shares' = [shares EXCEPT ![h] =
                      [state |-> "ready", owner |-> @.owner, name |-> @.name, content |-> c]]
    /\ UNCHANGED leadsTo

GiveUp(h) ==
    /\ shares[h].state = "pending"
    /\ shares' = [shares EXCEPT ![h].state = "failed"]
    /\ UNCHANGED leadsTo

Rename(h, o, n) ==
    /\ shares[h].state \in LiveState
    /\ shares[h].owner = o
    /\ leadsTo[n] = None
    /\ shares' = [shares EXCEPT ![h].name = n]
    /\ leadsTo' = [leadsTo EXCEPT ![n] = h]

Remove(h, o) ==
    /\ shares[h].state \in LiveState
    /\ shares[h].owner = o
    /\ shares' = [shares EXCEPT ![h].state = "removed"]
    /\ UNCHANGED leadsTo

Next ==
    \/ \E h \in Share, o \in Owner, n \in Name : Publish(h, o, n)
    \/ \E h \in Share, c \in Content : Settle(h, c)
    \/ \E h \in Share : GiveUp(h)
    \/ \E h \in Share, o \in Owner, n \in Name : Rename(h, o, n)
    \/ \E h \in Share, o \in Owner : Remove(h, o)

Spec == Init /\ [][Next]_lifecycleVars
=============================================================================
