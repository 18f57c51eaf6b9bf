----------------------------- MODULE RcuCallbacks -----------------------------
(***************************************************************************)
(* call_rcu() (linux_task.c): requests are pushed on a singly linked list  *)
(* and one thread calls them back, the last one first.  A head is taken to *)
(* be off the list if its next pointer is NULL, which is true of the last  *)
(* element as well.  As in Linux, nobody requests a callback again before  *)
(* it has been called; the callback itself may.                            *)
(*                                                                         *)
(*   first      rcu_head;   next: head->next                               *)
(*   thread     the RCU thread: looking, in a callback, waiting, signalled *)
(*   cur        the head whose callback runs                               *)
(*   owed       requests that have not been called back (history)          *)
(*   requests   how many were made (history)                               *)
(***************************************************************************)
EXTENDS Integers

CONSTANTS Heads, NULL, MaxCalls

ASSUME RcuAssumption == NULL \notin Heads /\ MaxCalls \in Nat

VARIABLES first, next, thread, cur, owed, requests

rcuVars == <<first, next, thread, cur, owed, requests>>

RcuInit ==
    /\ first = NULL
    /\ next = [h \in Heads |-> NULL]
    /\ thread = "look"
    /\ cur = NULL
    /\ owed = [h \in Heads |-> 0]
    /\ requests = 0

-----------------------------------------------------------------------------
SignalMutant == thread
Signal == IF thread = "sleep" THEN "look" ELSE thread

call_rcu(h) ==
    /\ requests < MaxCalls
    /\ owed[h] = 0
    /\ requests' = requests + 1
    /\ owed' = [owed EXCEPT ![h] = 1]
    /\ IF next[h] = NULL
       THEN /\ next' = [next EXCEPT ![h] = first]
            /\ first' = h
            /\ thread' = Signal
       ELSE UNCHANGED <<next, first, thread>>
    /\ UNCHANGED cur

(* rcu_exec() takes the first element off the list and calls it back. *)
TakeMutant ==
    /\ thread = "look" /\ first # NULL
    /\ first' = next[first]
    /\ thread' = "run"
    /\ cur' = first
    /\ owed' = [owed EXCEPT ![first] = @ - 1]
    /\ UNCHANGED <<next, requests>>

TakeFirst ==
    /\ thread = "look" /\ first # NULL
    /\ first' = next[first]
    /\ next' = [next EXCEPT ![first] = NULL]
    /\ thread' = "run"
    /\ cur' = first
    /\ owed' = [owed EXCEPT ![first] = @ - 1]
    /\ UNCHANGED requests

CallbackReturns ==
    /\ thread = "run"
    /\ thread' = "look"
    /\ cur' = NULL
    /\ UNCHANGED <<first, next, owed, requests>>

WaitForWork ==
    /\ thread = "look" /\ first = NULL
    /\ thread' = "sleep"
    /\ UNCHANGED <<first, next, cur, owed, requests>>

-----------------------------------------------------------------------------
RcuThread == TakeFirst \/ CallbackReturns \/ WaitForWork

RcuNext == RcuThread \/ \E h \in Heads : call_rcu(h)

RcuSpec == RcuInit /\ [][RcuNext]_rcuVars

-----------------------------------------------------------------------------
(* s[1], ..., s[n] is the list: first points to its first element, each   *)
(* element to the one after it, the last one nowhere, and no element is on *)
(* it twice.                                                               *)
IsList(s, n) ==
    /\ first = IF n = 0 THEN NULL ELSE s[1]
    /\ \A i \in 1..n : next[s[i]] = IF i = n THEN NULL ELSE s[i+1]
    /\ \A i, j \in 1..n : s[i] = s[j] => i = j

(* Requests and the list agree: what is requested is on the list, once, so *)
(* that it is called back once; what is not on the list has a NULL         *)
(* pointer, so that its next request is not refused.                       *)
ListMatchesRequests ==
    \E n \in 0..requests : \E s \in [1..n -> Heads] :
        /\ IsList(s, n)
        /\ \A h \in Heads :
               IF \E i \in 1..n : s[i] = h THEN owed[h] = 1 ELSE owed[h] = 0 /\ next[h] = NULL

(* Every request is called back, although new ones overtake it: drivers    *)
(* make finitely many (MaxCalls).                                          *)
EveryRequestIsCalled == \A h \in Heads : owed[h] = 1 ~> owed[h] = 0
=============================================================================
