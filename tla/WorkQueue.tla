------------------------------- MODULE WorkQueue -------------------------------
(***************************************************************************)
(* What the jobs table and the worker threads promise together, without    *)
(* saying how: a queue that hands each item to at most one worker, and     *)
(* that gives an item out a second time only after a process restart, and  *)
(* only when the item had not been settled before it.                      *)
(*                                                                         *)
(* JobPipeline implements this specification (JobPipeline!Queue).          *)
(***************************************************************************)
CONSTANTS
    Item,       \* everything that may ever be queued
    Taker,      \* the worker threads
    Nothing     \* what an idle worker holds

VARIABLES
    unseen,     \* items that were never queued
    pending,    \* items waiting for a worker
    held,       \* the item each worker is working on
    lost        \* items a worker, or a restart, had to let go unfinished

queueVars == <<unseen, pending, held, lost>>

Held == {held[w] : w \in Taker} \ {Nothing}

QueueInit ==
    /\ unseen = Item
    /\ pending = {}
    /\ held = [w \in Taker |-> Nothing]
    /\ lost = {}

Put(i) ==       \* a request queues an item, once in the item's life
    /\ i \in unseen
    /\ unseen' = unseen \ {i}
    /\ pending' = pending \cup {i}
    /\ UNCHANGED <<held, lost>>

Take(w, i) ==
    /\ held[w] = Nothing
    /\ i \in pending
    /\ pending' = pending \ {i}
    /\ held' = [held EXCEPT ![w] = i]
    /\ UNCHANGED <<unseen, lost>>

Settle(w) ==    \* the worker is through with its item, whatever the outcome
    /\ held[w] # Nothing
    /\ held' = [held EXCEPT ![w] = Nothing]
    /\ UNCHANGED <<unseen, pending, lost>>

Withdraw(i) ==  \* an operator takes an item back before any worker has it
    /\ i \in pending
    /\ pending' = pending \ {i}
    /\ UNCHANGED <<unseen, held, lost>>

Lose(w) ==      \* the worker lets go of its item without an outcome
    /\ held[w] # Nothing
    /\ held' = [held EXCEPT ![w] = Nothing]
    /\ lost' = lost \cup {held[w]}
    /\ UNCHANGED <<unseen, pending>>

Restart ==      \* of the unfinished items, and of no others, some are queued again
    /\ held' = [w \in Taker |-> Nothing]
    /\ \E again, still \in SUBSET (Held \cup lost) :
        /\ pending' = pending \cup again
        /\ lost' = still
    /\ UNCHANGED unseen

QueueNext ==
    \/ \E i \in Item : Put(i) \/ Withdraw(i)
    \/ \E w \in Taker : Settle(w) \/ Lose(w) \/ \E i \in Item : Take(w, i)
    \/ Restart

QueueSpec ==
    /\ QueueInit
    /\ [][QueueNext]_queueVars
    /\ WF_queueVars(\E w \in Taker, i \in Item : Take(w, i))
    /\ \A w \in Taker : WF_queueVars(Settle(w) \/ Lose(w))

================================================================================
