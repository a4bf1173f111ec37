----------------------------- MODULE SyncBarrier -----------------------------
(***************************************************************************)
(* What ExchangeSyncFileWithPartner promises (spec.md 4.2 and 8): two      *)
(* processes pass a sequence of exchanges together.  A process enters its  *)
(* k-th exchange and may leave it only once its partner has entered its   *)
(* own k-th exchange; a process inside an exchange whose partner has      *)
(* entered it eventually leaves ("terminates on both sides").             *)
(***************************************************************************)
EXTENDS Naturals

CONSTANTS Procs

VARIABLES
    entered,    \* exchanges each process has entered
    left        \* exchanges each process has returned from

vars == <<entered, left>>

Other(p) == CHOOSE q \in Procs : q # p

Inside(p) == entered[p] = left[p] + 1

Init == entered = [p \in Procs |-> 0] /\ left = [p \in Procs |-> 0]

Enter(p) ==
    /\ entered[p] = left[p]
    /\ entered' = [entered EXCEPT ![p] = @ + 1]
    /\ UNCHANGED left

Leave(p) ==
    /\ Inside(p)
    /\ entered[Other(p)] >= entered[p]
    /\ left' = [left EXCEPT ![p] = @ + 1]
    /\ UNCHANGED entered

Next == \E p \in Procs : Enter(p) \/ Leave(p)

Spec == Init /\ [][Next]_vars /\ \A p \in Procs : WF_vars(Leave(p))

=============================================================================
