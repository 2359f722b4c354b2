----------------------------- MODULE TaskQueue ------------------------------
(***************************************************************************)
(* runQueued of src/gateway.ts: tasks that share a key run one at a time,  *)
(* in the order they came.  There is no queue in memory, only a map from a *)
(* key to the promise of the last task that came; a task waits for the     *)
(* promise it found there, and takes its own out of the map when it ends   *)
(* unless a later task has replaced it.                                    *)
(*                                                                         *)
(* A queue is a record of functions:                                       *)
(*   tail[k]   the task whose promise the map holds for key k              *)
(*   prev[t]   the task whose promise t awaits, until that promise settles *)
(*   key[t]    the key under which t waits or runs                         *)
(*   ahead[t]  history: the tasks of the key that came before t and have   *)
(*             not left                                                    *)
(***************************************************************************)
CONSTANTS NoTask, NoKey

Queues(Tasks, Keys) ==
    [tail: [Keys -> Tasks \cup {NoTask}],
     prev: [Tasks -> Tasks \cup {NoTask}],
     key: [Tasks -> Keys \cup {NoKey}],
     ahead: [Tasks -> SUBSET Tasks]]

EmptyQueue(Tasks, Keys) ==
    [tail |-> [k \in Keys |-> NoTask],
     prev |-> [t \in Tasks |-> NoTask],
     key |-> [t \in Tasks |-> NoKey],
     ahead |-> [t \in Tasks |-> {}]]

Members(q, k) == {t \in DOMAIN q.key : q.key[t] = k}

\* The promise t awaits has settled: the queue runs t.
MayGo(q, t) == q.key[t] # NoKey /\ q.prev[t] = NoTask

Join(q, k, t) ==
    [tail |-> [q.tail EXCEPT ![k] = t],
     prev |-> [q.prev EXCEPT ![t] = q.tail[k]],
     key |-> [q.key EXCEPT ![t] = k],
     ahead |-> [q.ahead EXCEPT ![t] = Members(q, k)]]

\* Mutant: the promise of t is released only when t is the tail.
SettledByTail(q, t) ==
    [u \in DOMAIN q.prev |->
        IF q.prev[u] = t /\ q.tail[q.key[t]] = t THEN NoTask ELSE q.prev[u]]

\* The promise of t settles.
Settled(q, t) == [u \in DOMAIN q.prev |-> IF q.prev[u] = t THEN NoTask ELSE q.prev[u]]

\* Mutant: the map's entry goes even if a later task has replaced it.
LeaveForgetting(q, t) ==
    [tail |-> [q.tail EXCEPT ![q.key[t]] = NoTask],
     prev |-> Settled(q, t),
     key |-> [q.key EXCEPT ![t] = NoKey],
     ahead |-> [u \in DOMAIN q.ahead |-> q.ahead[u] \ {t}]]

\* t leaves, and takes its promise out of the map if it is still the tail.
Leave(q, t) ==
    [tail |-> [q.tail EXCEPT ![q.key[t]] = IF @ = t THEN NoTask ELSE @],
     prev |-> Settled(q, t),
     key |-> [q.key EXCEPT ![t] = NoKey],
     ahead |-> [u \in DOMAIN q.ahead |-> q.ahead[u] \ {t}]]
=============================================================================
