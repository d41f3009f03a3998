------------------------------ MODULE HostPool ------------------------------
(***************************************************************************)
(* What the host capacity pool promises: a free host is reserved for one   *)
(* ByoMachine that holds no other host, stays that machine's until it is   *)
(* told to release it, and only becomes free again from there.             *)
(***************************************************************************)
CONSTANTS Hosts, Machines, None

VARIABLE pool   \* the owner of every host, and whether it is being released

Free == [owner |-> None, releasing |-> FALSE]

Init == pool = [h \in Hosts |-> Free]

Reserve(h, m) ==
    /\ pool[h] = Free
    /\ \A g \in Hosts : pool[g].owner # m
    /\ pool' = [pool EXCEPT ![h] = [owner |-> m, releasing |-> FALSE]]

Release(h) ==
    /\ pool[h].owner # None
    /\ ~pool[h].releasing
    /\ pool' = [pool EXCEPT ![h] = [owner |-> pool[h].owner, releasing |-> TRUE]]

Return(h) ==
    /\ pool[h].releasing
    /\ pool' = [pool EXCEPT ![h] = Free]

Next == \E h \in Hosts : \/ \E m \in Machines : Reserve(h, m)
                         \/ Release(h)
                         \/ Return(h)

Spec == Init /\ [][Next]_pool

============================================================================
