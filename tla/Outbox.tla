------------------------------- MODULE Outbox -------------------------------
(***************************************************************************)
(* What the notification outbox promises: the change that calls for        *)
(* notifications makes all of them pending at once, each of them is sent a *)
(* limited number of times, and each ends delivered, which takes a send,   *)
(* or dead.  A notification may be sent again after it was delivered.      *)
(***************************************************************************)
EXTENDS Naturals

CONSTANTS Items, MaxAttempts

VARIABLES state, sends

Init ==
    /\ state = [i \in Items |-> "none"]
    /\ sends = [i \in Items |-> 0]

\* One change of the issue and everything it is to notify.
Intend ==
    /\ state' = [i \in Items |-> state'[i]]
    /\ \A i \in Items :
        state'[i] = state[i] \/ (state[i] = "none" /\ state'[i] = "pending")
    /\ UNCHANGED sends

Send(i) ==
    /\ state[i] # "none"
    /\ sends[i] < MaxAttempts
    /\ sends' = [sends EXCEPT ![i] = @ + 1]
    /\ UNCHANGED state

Settle(i) ==
    /\ state[i] = "pending"
    /\ \/ sends[i] > 0 /\ state' = [state EXCEPT ![i] = "delivered"]
       \/ state' = [state EXCEPT ![i] = "dead"]
    /\ UNCHANGED sends

Next == Intend \/ \E i \in Items : Send(i) \/ Settle(i)

Spec == Init /\ [][Next]_<<state, sends>>

=============================================================================
