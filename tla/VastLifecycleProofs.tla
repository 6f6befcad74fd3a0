-------------------------- MODULE VastLifecycleProofs --------------------------
(***************************************************************************)
(* Proofs about VastLifecycle for any number of jobs, instances and        *)
(* sweepers.  Most steps belong to one job and touch at most one contract: *)
(* JobStep says what such a step may do, JobStepKeeps that it preserves    *)
(* whatever speaks of several jobs, and the cases below show that each     *)
(* action is such a step and keeps the invariants of its own job.          *)
(***************************************************************************)
EXTENDS VastLifecycle, TLAPS

Local(j) == Threads(j) /\ Books(j) /\ Locks(j)

\* Contracts are used once: from free to alive to gone.
VastGrows ==
    \A i \in Instance :
        /\ vast[i].state # "free" => vast'[i].state # "free"
        /\ ~Alive(i) /\ vast[i].state # "free" => ~Alive(i)'

Untouched(j) == row'[j] = row[j] /\ run'[j] = run[j] /\ sweep'[j] = sweep[j]

\* What a step of job j may change beyond its own row, threads and lock.
JobStep(j) ==
    /\ \A k \in Job \ {j} : Untouched(k)
    /\ VastGrows
    /\ \A i \in Instance :
           /\ vast'[i].overdue => vast[i].overdue
           /\ Owns(j, i)' => Owns(j, i) \/ (vast[i].state = "free" /\ vast'[i].state # "free")
           /\ InUse(j, i)' => InUse(j, i) \/ ~vast'[i].overdue
           /\ Alive(i)' => \/ vast'[i].lost
                           \/ Remembered(j, i)'
                           \/ (Alive(i) /\ ~vast[i].lost /\ ~Remembered(j, i))

LEMMA NoneIsNoInstance == None \notin Instance /\ None \notin Sweeper
BY VastAssumption

LEMMA LocalFrame ==
    ASSUME IInv, VastGrows, NEW j \in Job, Untouched(j)
    PROVE  Local(j)'
<1> USE DEF IInv, Untouched
<1>1. Threads(j)'
    BY DEF Threads
<1>2. row[j] \in Row
    BY DEF TypeOK
<1>3. row[j].id # None => (~Alive(row[j].id) => ~Alive(row[j].id)')
    BY <1>2 DEF Row, VastGrows, Ownership, Owns
<1>4. Books(j)'
    BY <1>3 DEF Books, SlotFree, Renting, Exists
<1>5. Locks(j)'
    BY <1>2, <1>3 DEF Books, Locks, Exists
<1> QED
    BY <1>1, <1>4, <1>5 DEF Local

LEMMA JobStepKeeps ==
    ASSUME IInv, NEW j \in Job, JobStep(j), TypeOK', Local(j)', RecoveryAlone'
    PROVE  IInv'
<1>1. \A k \in Job : Local(k)'
    BY LocalFrame DEF JobStep
<1>2. \A k \in Job \ {j}, i \in Instance :
          /\ Owns(k, i)' <=> Owns(k, i)
          /\ InUse(k, i)' <=> InUse(k, i)
          /\ Remembered(k, i)' <=> Remembered(k, i)
    BY DEF JobStep, Untouched, Owns, InUse, Remembered, InHand, Exists, Stranded
<1>3. ASSUME NEW k \in Job, NEW l \in Job, NEW i \in Instance, Owns(k, i)', Owns(l, i)'
      PROVE  k = l
    BY <1>2, <1>3 DEF IInv, Ownership, JobStep
<1>4. ASSUME NEW k \in Job, NEW i \in Instance, Owns(k, i)'
      PROVE  vast'[i].state # "free"
    BY <1>2, <1>4 DEF IInv, Ownership, JobStep, VastGrows
<1>5. ASSUME NEW k \in Job, NEW i \in Instance, vast'[i].overdue
      PROVE  ~InUse(k, i)'
    BY <1>2, <1>5 DEF IInv, Ownership, JobStep
<1>6. Ownership'
    BY <1>3, <1>4, <1>5 DEF Ownership
<1>7. ASSUME NEW i \in Instance, Alive(i)', ~vast'[i].lost
      PROVE  \E k \in Job : Remembered(k, i)'
    BY <1>2, <1>7 DEF IInv, NothingForgotten, JobStep
<1>8. NothingForgotten'
    BY <1>7 DEF NothingForgotten
<1> QED
    BY <1>1, <1>6, <1>8 DEF IInv, Local

--------------------------------------------------------------------------------
(* Steps at one contract *)

Touches(i) ==
    /\ \A k \in Instance \ {i} : vast'[k] = vast[k]
    /\ vast'[i].state \in {vast[i].state, "gone"}
    /\ vast'[i].overdue = vast[i].overdue /\ vast'[i].dear = vast[i].dear
    /\ vast[i].lost => vast'[i].lost

LEMMA ConfirmEffect ==
    ASSUME TypeOK, NEW i \in Instance, Confirm(i)
    PROVE  vast' \in [Instance -> Contract] /\ Touches(i) /\ vast'[i].state = "gone"
BY DEF TypeOK, Contract, Confirm, Touches

LEMMA UnconfirmedEffect ==
    ASSUME TypeOK, NEW i \in Instance, NEW forget \in BOOLEAN, Unconfirmed(i, forget)
    PROVE  /\ vast' \in [Instance -> Contract] /\ Touches(i)
           /\ forget => vast'[i].lost
<1>1. PICK s \in {vast[i].state, "gone"} :
          vast' = [vast EXCEPT ![i].state = s, ![i].lost = vast[i].lost \/ forget]
    BY DEF Unconfirmed
<1>2. vast[i] \in Contract /\ s \in {"free", "alive", "gone"}
    BY DEF TypeOK, Contract
<1>3. (vast[i].lost \/ forget) \in BOOLEAN
    BY <1>2 DEF Contract
<1>4. vast' \in [Instance -> Contract]
    BY <1>1, <1>2, <1>3 DEF TypeOK, Contract
<1>5. vast'[i] = [vast[i] EXCEPT !.state = s, !.lost = vast[i].lost \/ forget]
    BY <1>1 DEF TypeOK
<1>6. /\ vast'[i].state = s /\ vast'[i].lost = (vast[i].lost \/ forget)
      /\ vast'[i].overdue = vast[i].overdue /\ vast'[i].dear = vast[i].dear
    BY <1>2, <1>5 DEF Contract
<1> QED
    BY <1>1, <1>4, <1>6 DEF Touches

LEMMA ForgetEffect ==
    ASSUME TypeOK, NEW i \in Instance, vast' = [vast EXCEPT ![i].lost = TRUE]
    PROVE  /\ vast' \in [Instance -> Contract] /\ Touches(i)
           /\ vast'[i].lost /\ vast'[i].state = vast[i].state
BY DEF TypeOK, Contract, Touches

LEMMA TouchGrows ==
    ASSUME TypeOK, NEW i \in Instance, Touches(i)
    PROVE  /\ VastGrows
           /\ \A k \in Instance : vast'[k].overdue => vast[k].overdue
           /\ \A k \in Instance : Alive(k)' => Alive(k)
           /\ \A k \in Instance : vast[k].lost => vast'[k].lost
BY DEF TypeOK, Contract, Touches, VastGrows, Alive

\* A step of job j that rents nothing: what it forgets it destroys or marks lost.
LEMMA PlainStep ==
    ASSUME IInv, NEW j \in Job, NEW rw \in Row, NEW rn \in Run,
           row' = [row EXCEPT ![j] = rw], run' = [run EXCEPT ![j] = rn],
           sweep' \in [Job -> Sweep], \A k \in Job \ {j} : sweep'[k] = sweep[k],
           vast' = vast \/ \E i \in Instance : Touches(i),
           vast' \in [Instance -> Contract], faults' \in 0 .. MaxFaults,
           Threads(j)', Books(j)', Locks(j)', RecoveryAlone',
           recovering' \subseteq Job,
           \A i \in Instance :
               /\ Owns(j, i)' => Owns(j, i)
               /\ InUse(j, i)' => InUse(j, i)
               /\ Remembered(j, i) /\ Alive(i)' => Remembered(j, i)' \/ vast'[i].lost
    PROVE  IInv'
<1>1. TypeOK
    BY DEF IInv
<1>2. TypeOK'
    BY <1>1 DEF TypeOK
<1>3. \A k \in Job \ {j} : Untouched(k)
    BY <1>1 DEF TypeOK, Untouched
<1>4. /\ VastGrows
      /\ \A i \in Instance :
             /\ vast'[i].overdue => vast[i].overdue
             /\ Alive(i)' => Alive(i)
             /\ vast[i].lost => vast'[i].lost
    BY <1>1, TouchGrows DEF VastGrows, Alive
<1>5. ASSUME NEW i \in Instance, Alive(i)', ~vast'[i].lost, ~Remembered(j, i)'
      PROVE  Alive(i) /\ ~vast[i].lost /\ ~Remembered(j, i)
    BY <1>4, <1>5
<1>6. JobStep(j)
    BY <1>3, <1>4, <1>5 DEF JobStep
<1> QED
    BY <1>2, <1>6, JobStepKeeps DEF Local

\* The commonest case: one thread moves, and holds what it held.
LEMMA QuietStep ==
    ASSUME IInv, NEW j \in Job, NEW rn \in Run, run' = [run EXCEPT ![j] = rn],
           UNCHANGED <<row, vast, sweep>>, faults' \in 0 .. MaxFaults,
           recovering = {}, recovering' = {},
           Threads(j)', Books(j)',
           \A i \in Instance :
               /\ InHand(j, i)' <=> InHand(j, i)
               /\ InUse(j, i)' => InUse(j, i),
           rn.worker = "none" <=> run[j].worker = "none"
    PROVE  IInv'
<1>1. TypeOK
    BY DEF IInv
<1>2. run'[j] = rn /\ row[j] \in Row /\ row' = [row EXCEPT ![j] = row[j]]
    BY <1>1 DEF TypeOK
<1>3. Locks(j)'
    BY DEF IInv, Locks, Exists, Alive
<1>4. ASSUME NEW i \in Instance
      PROVE  /\ Owns(j, i)' => Owns(j, i)
             /\ Remembered(j, i) => Remembered(j, i)'
    BY <1>2 DEF Owns, Remembered, Exists, Stranded
<1>5. sweep' \in [Job -> Sweep] /\ vast' \in [Instance -> Contract]
    BY <1>1 DEF TypeOK
<1>6. RecoveryAlone'
    BY DEF RecoveryAlone
<1> QED
    BY <1>2, <1>3, <1>4, <1>5, <1>6, PlainStep

--------------------------------------------------------------------------------
(* The helper *)

LEMMA ThreadAlone ==
    ASSUME IInv, NEW j \in Job, run[j].helper # "none" \/ run[j].worker # "none"
    PROVE  recovering = {}
BY DEF IInv, RecoveryAlone, NoRun

LEMMA Moves ==
    ASSUME IInv, NEW j \in Job, NEW from \in Helper, NEW to \in Helper, Helps(j, from, to),
           \/ from = "choose" /\ to = "asking" /\ ~run[j].late
           \/ from = "asking" /\ to = "choose"
           \/ from = "choose" /\ to = "over"
           \/ from = "wait" /\ to \in {"use", "retreat", "over"}
           \/ from = "use" /\ to = "final"
    PROVE  IInv'
<1> DEFINE rn == [run[j] EXCEPT !.helper = to]
<1>1. TypeOK /\ Threads(j) /\ Books(j)
    BY DEF IInv
<1>2. /\ run[j].helper = from /\ run' = [run EXCEPT ![j] = rn]
      /\ UNCHANGED <<row, vast, sweep, recovering, faults>>
    BY DEF Helps
<1>3. /\ rn \in Run /\ run'[j] = rn /\ rn.helper = to
      /\ rn.worker = run[j].worker /\ rn.new = run[j].new /\ rn.ctx = run[j].ctx
      /\ rn.taken = run[j].taken /\ rn.late = run[j].late
    BY <1>1, <1>2 DEF TypeOK, Run
<1> HIDE DEF rn
<1>4. recovering = {} /\ recovering' = {}
    BY <1>2, ThreadAlone
<1>5. Threads(j)'
    BY <1>1, <1>2, <1>3 DEF Threads
<1>6. Books(j)'
    BY <1>1, <1>2, <1>3 DEF Books, SlotFree, Renting, Exists, Alive, NoRun
<1>7. ASSUME NEW i \in Instance
      PROVE  /\ InHand(j, i)' <=> InHand(j, i)
             /\ InUse(j, i)' => InUse(j, i)
    BY <1>1, <1>2, <1>3, NoneIsNoInstance DEF InHand, InUse, Threads
<1>8. faults' \in 0 .. MaxFaults
    BY <1>1, <1>2 DEF TypeOK
<1> QED
    BY <1>2, <1>3, <1>4, <1>5, <1>6, <1>7, <1>8, QuietStep

LEMMA HelperMoves ==
    ASSUME IInv, NEW j \in Job,
           \/ Ask(j) \/ CreateRefused(j) \/ GiveUp(j) \/ Ready(j) \/ NotReady(j)
           \/ WaitEscapes(j) \/ Used(j)
    PROVE  IInv'
BY Moves DEF Ask, CreateRefused, GiveUp, Ready, NotReady, WaitEscapes, Used, Helper

LEMMA AdoptStep ==
    ASSUME IInv, NEW j \in Job, Adopt(j)
    PROVE  IInv'
<1> DEFINE to == IF run[j].late THEN "final" ELSE "wait"
<1> DEFINE rn == [run[j] EXCEPT !.ctx = run[j].new, !.new = None, !.helper = to]
<1>1. TypeOK /\ Threads(j) /\ Books(j)
    BY DEF IInv
<1>2. /\ run[j].helper = "adopt" /\ run' = [run EXCEPT ![j] = rn]
      /\ UNCHANGED <<row, vast, sweep, recovering, faults>>
    BY DEF Adopt
<1>3. /\ to \in {"wait", "final"} /\ to \in Helper
      /\ to = "wait" <=> ~run[j].late
    BY <1>1 DEF TypeOK, Run, Helper
<1> HIDE DEF to
<1>4. /\ rn \in Run /\ run'[j] = rn
      /\ rn.helper = to /\ rn.worker = run[j].worker /\ rn.new = None
      /\ rn.ctx = run[j].new /\ rn.taken = run[j].taken /\ rn.late = run[j].late
    BY <1>1, <1>2, <1>3 DEF TypeOK, Run
<1> HIDE DEF rn
<1>5. recovering = {} /\ recovering' = {}
    BY <1>2, ThreadAlone
<1>6. /\ run[j].new # None /\ run[j].taken = None /\ run[j].ctx = None
      /\ run[j].worker # "destroying"
      /\ run[j].worker \notin {"finishing", "lastChance", "working"}
      /\ ~run[j].late => run[j].worker = "waiting"
    BY <1>1, <1>2 DEF Threads
<1>7. Threads(j)'
    BY <1>2, <1>3, <1>4, <1>6 DEF Threads
<1>8. Books(j)'
    BY <1>1, <1>2, <1>3, <1>4, <1>6 DEF Books, SlotFree, Renting, Exists, Alive, NoRun
<1>9. ASSUME NEW i \in Instance
      PROVE  /\ InHand(j, i)' <=> InHand(j, i)
             /\ InUse(j, i)' => InUse(j, i)
    BY <1>2, <1>3, <1>4, <1>6, NoneIsNoInstance DEF InHand, InUse
<1>10. faults' \in 0 .. MaxFaults
    BY <1>1, <1>2 DEF TypeOK
<1> QED
    BY <1>2, <1>4, <1>5, <1>7, <1>8, <1>9, <1>10, QuietStep

\* What a thread that asks, or has just got, an instance does not hold.
LEMMA HoldsNothing ==
    ASSUME IInv, NEW j \in Job, run[j].helper \in {"asking", "record", "adopt"}
    PROVE  /\ run[j].ctx = None /\ run[j].taken = None
           /\ run[j].new # None <=> run[j].helper # "asking"
           /\ run[j].worker \notin {"destroying", "working", "finishing", "lastChance"}
           /\ row[j].status # "queued"
           /\ ~run[j].late => run[j].worker = "waiting"
           /\ run[j].helper # "adopt" => Free(j) /\ (Exists(j) => SlotFree(j))
<1>1. Threads(j) /\ Books(j) /\ Locks(j)
    BY DEF IInv
<1>2. row[j].status # "queued"
    BY <1>1 DEF Books, NoRun
<1>3. run[j].helper # "adopt" => Free(j) /\ (Exists(j) => SlotFree(j))
    BY <1>1 DEF Books, Renting, Locks, SlotFree, Free
<1> QED
    BY <1>1, <1>2, <1>3 DEF Threads

LEMMA RentedEffect ==
    ASSUME IInv, NEW i \in Instance, NEW dear \in BOOLEAN, NEW lost \in BOOLEAN,
           Rented(i, dear, lost)
    PROVE  /\ vast' \in [Instance -> Contract] /\ VastGrows
           /\ \A k \in Instance \ {i} : vast'[k] = vast[k]
           /\ vast[i].state = "free" /\ vast'[i].state = "alive"
           /\ vast'[i].lost = lost /\ ~vast'[i].overdue
           /\ \A j \in Job : ~Owns(j, i)
<1>1. vast \in [Instance -> Contract]
    BY DEF IInv, TypeOK
<1>2. [state |-> "alive", dear |-> dear, overdue |-> FALSE, lost |-> lost] \in Contract
    BY DEF Contract
<1> QED
    BY <1>1, <1>2 DEF Rented, VastGrows, Alive, IInv, Ownership

LEMMA CreateStep ==
    ASSUME IInv, NEW j \in Job, Create(j)
    PROVE  IInv'
<1>1. TypeOK /\ Threads(j) /\ Books(j) /\ Locks(j)
    BY DEF IInv
<1>2. PICK i \in Instance, dear \in BOOLEAN :
          /\ Rented(i, dear, FALSE)
          /\ run' = [run EXCEPT ![j].helper = "record", ![j].new = i]
    BY DEF Create
<1>3. run[j].helper = "asking" /\ UNCHANGED <<row, sweep, recovering, faults>>
    BY DEF Create
<1> DEFINE rn == [run[j] EXCEPT !.helper = "record", !.new = i]
<1>4. /\ rn \in Run /\ run' = [run EXCEPT ![j] = rn] /\ run'[j] = rn
      /\ rn.helper = "record" /\ rn.new = i /\ rn.worker = run[j].worker
      /\ rn.ctx = run[j].ctx /\ rn.taken = run[j].taken /\ rn.late = run[j].late
    BY <1>1, <1>2 DEF TypeOK, Run, Helper
<1> HIDE DEF rn
<1>5. /\ vast' \in [Instance -> Contract] /\ VastGrows
      /\ \A k \in Instance \ {i} : vast'[k] = vast[k]
      /\ vast[i].state = "free" /\ vast'[i].state = "alive"
      /\ vast'[i].lost = FALSE /\ ~vast'[i].overdue /\ ~Owns(j, i)
    BY <1>2, RentedEffect
<1>6. recovering = {} /\ i # None
    BY <1>3, ThreadAlone, NoneIsNoInstance
<1>7. Threads(j)'
    BY <1>1, <1>3, <1>4, <1>6, HoldsNothing DEF Threads
<1>8. row'[j].id # i /\ (SlotFree(j) => SlotFree(j)')
    BY <1>1, <1>3, <1>5 DEF Owns, SlotFree, Alive, TypeOK, Row
<1>9. Books(j)'
    BY <1>1, <1>3, <1>4, <1>8, HoldsNothing, NoneIsNoInstance DEF Books, Exists
<1>10. Locks(j)'
    BY <1>1, <1>3, HoldsNothing DEF Locks, Free
<1>11. ASSUME NEW k \in Instance
       PROVE  /\ vast'[k].overdue => vast[k].overdue
              /\ Owns(j, k)' => Owns(j, k) \/ (vast[k].state = "free" /\ vast'[k].state # "free")
              /\ InUse(j, k)' => InUse(j, k) \/ ~vast'[k].overdue
              /\ Remembered(j, i)'
              /\ k # i => (Remembered(j, k)' <=> Remembered(j, k))
    BY <1>3, <1>4, <1>5, HoldsNothing, NoneIsNoInstance
       DEF Owns, InUse, Remembered, InHand, Exists, Stranded
<1>12. JobStep(j)
    BY <1>1, <1>3, <1>4, <1>5, <1>11 DEF JobStep, Untouched, Alive, TypeOK
<1>13. TypeOK' /\ RecoveryAlone'
    BY <1>1, <1>3, <1>4, <1>5, <1>6 DEF TypeOK, RecoveryAlone
<1> QED
    BY <1>7, <1>9, <1>10, <1>12, <1>13, JobStepKeeps DEF Local

LEMMA CreateUnansweredStep ==
    ASSUME IInv, NEW j \in Job, CreateUnanswered(j)
    PROVE  IInv'
<1>1. TypeOK /\ Threads(j) /\ Books(j) /\ Locks(j)
    BY DEF IInv
<1>2. PICK i \in Instance, dear \in BOOLEAN : Rented(i, dear, TRUE)
    BY DEF CreateUnanswered
<1>3. PICK next \in {"choose", "over"} : run' = [run EXCEPT ![j].helper = next]
    BY DEF CreateUnanswered
<1>4. run[j].helper = "asking" /\ UNCHANGED <<row, sweep, recovering, faults>>
    BY DEF CreateUnanswered
<1> DEFINE rn == [run[j] EXCEPT !.helper = next]
<1>5. /\ rn \in Run /\ run' = [run EXCEPT ![j] = rn] /\ run'[j] = rn
      /\ rn.helper = next /\ rn.new = run[j].new /\ rn.worker = run[j].worker
      /\ rn.ctx = run[j].ctx /\ rn.taken = run[j].taken /\ rn.late = run[j].late
    BY <1>1, <1>3 DEF TypeOK, Run, Helper
<1> HIDE DEF rn
<1>6. /\ vast' \in [Instance -> Contract] /\ VastGrows
      /\ \A k \in Instance \ {i} : vast'[k] = vast[k]
      /\ vast[i].state = "free" /\ vast'[i].lost /\ ~vast'[i].overdue /\ ~Owns(j, i)
    BY <1>2, RentedEffect
<1>7. recovering = {}
    BY <1>4, ThreadAlone
<1>8. Threads(j)'
    BY <1>1, <1>4, <1>5, HoldsNothing DEF Threads
<1>9. SlotFree(j) => SlotFree(j)'
    BY <1>1, <1>4, <1>6 DEF Owns, SlotFree, Alive, TypeOK, Row
<1>10. Books(j)'
    BY <1>1, <1>4, <1>5, <1>9, HoldsNothing, NoneIsNoInstance DEF Books, Exists
<1>11. Locks(j)'
    BY <1>1, <1>4, HoldsNothing DEF Locks, Free
<1>12. ASSUME NEW k \in Instance
       PROVE  /\ vast'[k].overdue => vast[k].overdue
              /\ Owns(j, k)' => Owns(j, k)
              /\ InUse(j, k)' => InUse(j, k)
              /\ k # i => (Remembered(j, k)' <=> Remembered(j, k))
    BY <1>4, <1>5, <1>6, HoldsNothing, NoneIsNoInstance
       DEF Owns, InUse, Remembered, InHand, Exists, Stranded
<1>13. JobStep(j)
    BY <1>1, <1>4, <1>5, <1>6, <1>12 DEF JobStep, Untouched, Alive, TypeOK
<1>14. TypeOK' /\ RecoveryAlone'
    BY <1>1, <1>4, <1>5, <1>6, <1>7 DEF TypeOK, RecoveryAlone
<1> QED
    BY <1>8, <1>10, <1>11, <1>13, <1>14, JobStepKeeps DEF Local

LEMMA RecordCreatedStep ==
    ASSUME IInv, NEW j \in Job, RecordCreated(j)
    PROVE  IInv'
<1>1. TypeOK /\ Threads(j) /\ Books(j) /\ Locks(j)
    BY DEF IInv
<1> DEFINE rn == [run[j] EXCEPT !.helper = "adopt"]
<1> DEFINE rw == IF Exists(j) THEN [row[j] EXCEPT !.id = run[j].new, !.failed = "no"]
                 ELSE row[j]
<1>2. /\ run[j].helper = "record" /\ run' = [run EXCEPT ![j] = rn]
      /\ UNCHANGED <<vast, sweep, recovering, faults>>
    BY DEF RecordCreated
<1>3. /\ rn \in Run /\ run'[j] = rn
      /\ rn.helper = "adopt" /\ rn.new = run[j].new /\ rn.worker = run[j].worker
      /\ rn.ctx = run[j].ctx /\ rn.taken = run[j].taken /\ rn.late = run[j].late
    BY <1>1, <1>2 DEF TypeOK, Run, Helper
<1> HIDE DEF rn
<1>4. row' = [row EXCEPT ![j] = rw]
    BY <1>1 DEF RecordCreated, Recorded, TypeOK
<1>5. /\ rw \in Row /\ row'[j] = rw /\ rw.status = row[j].status
      /\ Exists(j) => rw.id = run[j].new /\ rw.failed = "no"
      /\ ~Exists(j) => rw = row[j]
    <2>1. row[j] \in Row /\ run[j].new \in Instance \cup {None} /\ row'[j] = rw
        BY <1>1, <1>4 DEF TypeOK, Run
    <2>2. CASE Exists(j)
        <3>1. rw = [row[j] EXCEPT !.id = run[j].new, !.failed = "no"]
            BY <2>2
        <3> QED BY <2>1, <2>2, <3>1 DEF Row
    <2>3. CASE ~Exists(j)
        BY <2>1, <2>3
    <2> QED BY <2>2, <2>3
<1> HIDE DEF rw
<1>6. recovering = {}
    BY <1>2, ThreadAlone
<1>7. Threads(j)'
    BY <1>1, <1>2, <1>3, HoldsNothing DEF Threads
<1>8. Books(j)'
    BY <1>1, <1>2, <1>3, <1>5, HoldsNothing, NoneIsNoInstance DEF Books, Renting, Exists
<1>9. Locks(j)'
    BY <1>1, <1>2, HoldsNothing DEF Locks, Free
<1>10. ASSUME NEW i \in Instance
       PROVE  /\ Owns(j, i)' => Owns(j, i)
              /\ InUse(j, i)' => InUse(j, i)
              /\ Remembered(j, i) => Remembered(j, i)' \/ ~Alive(i)'
    BY <1>2, <1>3, <1>5, HoldsNothing, NoneIsNoInstance
       DEF Owns, InUse, Remembered, InHand, Exists, Stranded, SlotFree, Alive
<1>11. /\ sweep' \in [Job -> Sweep] /\ vast' \in [Instance -> Contract]
       /\ faults' \in 0 .. MaxFaults /\ RecoveryAlone' /\ recovering' \subseteq Job
    BY <1>1, <1>2, <1>6 DEF TypeOK, RecoveryAlone
<1> QED
    BY <1>2, <1>3, <1>4, <1>5, <1>7, <1>8, <1>9, <1>10, <1>11, PlainStep

LEMMA RecordCreatedRaisesStep ==
    ASSUME IInv, NEW j \in Job, RecordCreatedRaises(j)
    PROVE  IInv'
<1>1. TypeOK /\ Threads(j) /\ Books(j) /\ Locks(j)
    BY DEF IInv
<1> DEFINE rn == [run[j] EXCEPT !.helper = "over", !.new = None]
<1> DEFINE i == run[j].new
<1>2. /\ run[j].helper = "record" /\ run' = [run EXCEPT ![j] = rn]
      /\ vast' = [vast EXCEPT ![i].lost = TRUE] /\ Fault
      /\ UNCHANGED <<row, sweep, recovering>>
    BY DEF RecordCreatedRaises
<1>3. /\ rn \in Run /\ run'[j] = rn
      /\ rn.helper = "over" /\ rn.new = None /\ rn.worker = run[j].worker
      /\ rn.ctx = run[j].ctx /\ rn.taken = run[j].taken /\ rn.late = run[j].late
    BY <1>1, <1>2 DEF TypeOK, Run, Helper
<1> HIDE DEF rn
<1>4. i \in Instance
    BY <1>1, <1>2 DEF Threads, TypeOK, Run
<1>5. /\ vast' \in [Instance -> Contract] /\ Touches(i)
      /\ vast'[i].lost /\ vast'[i].state = vast[i].state
    BY <1>1, <1>2, <1>4, ForgetEffect
<1>6. recovering = {}
    BY <1>2, ThreadAlone
<1>7. Threads(j)'
    BY <1>1, <1>2, <1>3, HoldsNothing DEF Threads
<1>8. Books(j)'
    BY <1>1, <1>2, <1>3, HoldsNothing, NoneIsNoInstance DEF Books, Renting, Exists
<1>9. Locks(j)'
    BY <1>1, <1>2, HoldsNothing DEF Locks, Free
<1>10. ASSUME NEW k \in Instance
       PROVE  /\ Owns(j, k)' => Owns(j, k)
              /\ InUse(j, k)' => InUse(j, k)
              /\ Remembered(j, k) => Remembered(j, k)' \/ vast'[k].lost
    BY <1>2, <1>3, <1>5, HoldsNothing, NoneIsNoInstance
       DEF Owns, InUse, Remembered, InHand, Exists, Stranded
<1>11. /\ sweep' \in [Job -> Sweep] /\ row[j] \in Row /\ row' = [row EXCEPT ![j] = row[j]]
       /\ faults' \in 0 .. MaxFaults /\ RecoveryAlone' /\ recovering' \subseteq Job
    BY <1>1, <1>2, <1>6, VastAssumption DEF TypeOK, RecoveryAlone, Fault
<1>12. \A k \in Job \ {j} : sweep'[k] = sweep[k]
    BY <1>2
<1> HIDE DEF i
<1> QED
    BY <1>2, <1>3, <1>4, <1>5, <1>7, <1>8, <1>9, <1>10, <1>11, <1>12, PlainStep

LEMMA HelperTakesStep ==
    ASSUME IInv, NEW j \in Job, HelperTakes(j)
    PROVE  IInv'
<1>1. TypeOK /\ Threads(j) /\ Books(j) /\ Locks(j)
    BY DEF IInv
<1>2. /\ run[j].helper \in {"retreat", "final"}
      /\ UNCHANGED <<row, vast, sweep, recovering, faults>>
    BY DEF HelperTakes
<1>3. PICK rn \in Run :
          /\ run' = [run EXCEPT ![j] = rn] /\ run'[j] = rn
          /\ rn.new = run[j].new /\ rn.worker = run[j].worker /\ rn.late = run[j].late
          /\ rn.ctx = None
          /\ \/ /\ run[j].ctx = None /\ rn.taken = run[j].taken
                /\ \/ run[j].helper = "retreat" /\ rn.helper = "choose"
                   \/ run[j].helper = "final" /\ rn.helper = "over"
             \/ /\ run[j].ctx # None /\ rn.taken = run[j].ctx
                /\ \/ run[j].helper = "retreat" /\ rn.helper = "retreating"
                   \/ run[j].helper = "final" /\ rn.helper = "finalizing"
    <2>1. CASE run[j].ctx = None
        <3> DEFINE to == IF run[j].helper = "retreat" THEN "choose" ELSE "over"
        <3> DEFINE rn == [run[j] EXCEPT !.ctx = None, !.helper = to]
        <3>1. run' = [run EXCEPT ![j] = rn]
            BY <1>1, <2>1 DEF HelperTakes, TypeOK, Run
        <3>2. to \in Helper /\ (to = "choose" \/ to = "over")
              /\ (run[j].helper = "retreat" <=> to = "choose")
            BY DEF Helper
        <3> HIDE DEF to
        <3>3. rn \in Run /\ run'[j] = rn /\ rn.helper = to
              /\ rn.new = run[j].new /\ rn.worker = run[j].worker /\ rn.late = run[j].late
              /\ rn.ctx = None /\ rn.taken = run[j].taken
            BY <1>1, <3>1, <3>2 DEF TypeOK, Run
        <3> HIDE DEF rn
        <3> QED BY <1>2, <2>1, <3>1, <3>2, <3>3
    <2>2. CASE run[j].ctx # None
        <3> DEFINE to == IF run[j].helper = "retreat" THEN "retreating" ELSE "finalizing"
        <3> DEFINE rn == [run[j] EXCEPT !.taken = run[j].ctx, !.ctx = None, !.helper = to]
        <3>1. run' = [run EXCEPT ![j] = rn]
            BY <1>1, <2>2 DEF HelperTakes, TypeOK, Run
        <3>2. to \in Helper /\ (to = "retreating" \/ to = "finalizing")
              /\ (run[j].helper = "retreat" <=> to = "retreating")
            BY DEF Helper
        <3> HIDE DEF to
        <3>3. rn \in Run /\ run'[j] = rn /\ rn.helper = to
              /\ rn.new = run[j].new /\ rn.worker = run[j].worker /\ rn.late = run[j].late
              /\ rn.ctx = None /\ rn.taken = run[j].ctx
            BY <1>1, <3>1, <3>2 DEF TypeOK, Run
        <3> HIDE DEF rn
        <3> QED BY <1>2, <2>2, <3>1, <3>2, <3>3
    <2> QED BY <2>1, <2>2
<1>4. recovering = {} /\ recovering' = {}
    BY <1>2, ThreadAlone
<1>5. Threads(j)'
    BY <1>1, <1>2, <1>3 DEF Threads
<1>6. Books(j)'
    BY <1>1, <1>2, <1>3, NoneIsNoInstance
       DEF Books, SlotFree, Renting, Exists, Alive, NoRun, Threads
<1>7. ASSUME NEW i \in Instance
      PROVE  /\ InHand(j, i)' <=> InHand(j, i)
             /\ InUse(j, i)' => InUse(j, i)
    BY <1>1, <1>2, <1>3, NoneIsNoInstance DEF InHand, InUse, Threads
<1>8. faults' \in 0 .. MaxFaults
    BY <1>1, <1>2 DEF TypeOK
<1> QED
    BY <1>2, <1>3, <1>4, <1>5, <1>6, <1>7, <1>8, QuietStep

\* Either way the instance is gone, or its failed destroy is on the row, or it is
\* marked as lost.
LEMMA DestroyEffect ==
    ASSUME IInv, NEW j \in Job, run[j].taken # None, NEW ok \in BOOLEAN,
           IF ok THEN DestroySucceeds(j) ELSE DestroyFails(j)
    PROVE  /\ run[j].taken \in Instance
           /\ vast' \in [Instance -> Contract] /\ Touches(run[j].taken)
           /\ faults' \in 0 .. MaxFaults
           /\ \E rw \in Row :
                  /\ row' = [row EXCEPT ![j] = rw] /\ row'[j] = rw
                  /\ rw.status = row[j].status /\ rw.id = row[j].id
                  /\ ~Exists(j) => rw = row[j]
                  /\ ok => /\ vast'[run[j].taken].state = "gone"
                           /\ Exists(j) => rw.failed = "no"
                  /\ \/ vast'[run[j].taken].state = "gone"
                     \/ Exists(j) /\ rw.failed = "fresh"
                     \/ vast'[run[j].taken].lost
<1> DEFINE i == run[j].taken
<1>1. TypeOK /\ Threads(j) /\ Books(j)
    BY DEF IInv
<1>2. i \in Instance /\ row[j] \in Row
    BY <1>1 DEF TypeOK, Run
<1>3. Exists(j) => row[j].id = i
    BY <1>1, <1>2 DEF Books
<1>4. ASSUME NEW f \in {"no", "fresh"}, Exists(j), row' = Recorded(j, i, f)
      PROVE  \E rw \in Row : /\ row' = [row EXCEPT ![j] = rw] /\ row'[j] = rw
                             /\ rw.status = row[j].status /\ rw.id = row[j].id
                             /\ rw.failed = f
    <2> DEFINE rw == [row[j] EXCEPT !.id = i, !.failed = f]
    <2>1. row' = [row EXCEPT ![j] = rw]
        BY <1>1, <1>4 DEF Recorded, TypeOK
    <2>2. rw \in Row /\ row'[j] = rw /\ rw.status = row[j].status /\ rw.id = row[j].id
          /\ rw.failed = f
        BY <1>1, <1>2, <1>3, <1>4, <2>1 DEF TypeOK, Row
    <2> QED BY <2>1, <2>2
<1>5. ASSUME row' = row
      PROVE  row' = [row EXCEPT ![j] = row[j]] /\ row'[j] = row[j]
    BY <1>1, <1>5 DEF TypeOK
<1>6. CASE ok
    <2>1. Confirm(i) /\ row' = (IF Exists(j) THEN Recorded(j, i, "no") ELSE row) /\ UNCHANGED faults
        BY <1>6 DEF DestroySucceeds
    <2>2. /\ vast' \in [Instance -> Contract] /\ Touches(i) /\ vast'[i].state = "gone"
          /\ faults' \in 0 .. MaxFaults
        BY <1>1, <1>2, <2>1, ConfirmEffect DEF TypeOK
    <2> HIDE DEF i
    <2>3. CASE Exists(j)
        BY <1>2, <1>4, <2>1, <2>2, <2>3 DEF i
    <2>4. CASE ~Exists(j)
        BY <1>2, <1>5, <2>1, <2>2, <2>4 DEF i
    <2> QED BY <2>3, <2>4
<1>7. CASE ~ok /\ Exists(j) /\ Unconfirmed(i, FALSE) /\ row' = Recorded(j, i, "fresh")
           /\ UNCHANGED faults
    <2>1. vast' \in [Instance -> Contract] /\ Touches(i) /\ faults' \in 0 .. MaxFaults
        BY <1>1, <1>2, <1>7, UnconfirmedEffect DEF TypeOK
    <2> HIDE DEF i
    <2> QED BY <1>2, <1>4, <1>7, <2>1 DEF i
<1>8. CASE ~ok /\ Unconfirmed(i, TRUE) /\ row' = row /\ (UNCHANGED faults \/ Fault)
    <2>1. /\ vast' \in [Instance -> Contract] /\ Touches(i) /\ vast'[i].lost
          /\ faults' \in 0 .. MaxFaults
        <3>1. /\ vast' \in [Instance -> Contract] /\ Touches(i)
              /\ TRUE => vast'[i].lost
            BY <1>1, <1>2, <1>8, UnconfirmedEffect
        <3>2. faults' \in 0 .. MaxFaults
            BY <1>1, <1>8, VastAssumption DEF TypeOK, Fault
        <3> QED BY <3>1, <3>2
    <2> HIDE DEF i
    <2> QED BY <1>2, <1>5, <1>8, <2>1 DEF i
<1> QED
    BY <1>6, <1>7, <1>8 DEF DestroyFails

\* A thread that has destroyed what it took moves on and holds nothing.
LEMMA DestroyedStep ==
    ASSUME IInv, NEW j \in Job, NEW ok \in BOOLEAN, NEW rn \in Run,
           IF ok THEN DestroySucceeds(j) ELSE DestroyFails(j),
           run' = [run EXCEPT ![j] = rn], UNCHANGED <<sweep, recovering>>,
           rn.taken = None, rn.new = run[j].new, rn.ctx = run[j].ctx, rn.late = run[j].late,
           \/ /\ run[j].helper \in {"retreating", "finalizing"} /\ rn.worker = run[j].worker
              /\ rn.helper = "over" \/ (rn.helper = "choose" /\ ok)
           \/ /\ run[j].worker = "destroying"
              /\ rn.worker = "failing" /\ rn.helper = run[j].helper
    PROVE  IInv'
<1> DEFINE i == run[j].taken
<1>1. TypeOK /\ Threads(j) /\ Books(j) /\ Locks(j)
    BY DEF IInv
<1>2. i # None /\ run[j].ctx = None /\ run'[j] = rn
      /\ run[j].worker \notin {"finishing", "lastChance", "working"}
    BY <1>1 DEF Threads, TypeOK
<1>3. /\ i \in Instance /\ vast' \in [Instance -> Contract] /\ Touches(i)
      /\ faults' \in 0 .. MaxFaults
    BY <1>2, DestroyEffect
<1>4. PICK rw \in Row :
          /\ row' = [row EXCEPT ![j] = rw] /\ row'[j] = rw
          /\ rw.status = row[j].status /\ rw.id = row[j].id
          /\ ~Exists(j) => rw = row[j]
          /\ ok => /\ vast'[i].state = "gone"
                   /\ Exists(j) => rw.failed = "no"
          /\ \/ vast'[i].state = "gone"
             \/ Exists(j) /\ rw.failed = "fresh"
             \/ vast'[i].lost
    BY <1>2, DestroyEffect
<1>5. Exists(j) => row[j].id = i /\ row[j].failed = "no"
    BY <1>1, <1>3 DEF Books
<1> HIDE DEF i
<1>6. recovering = {}
    BY <1>1, <1>2, ThreadAlone DEF Threads
<1>7. Threads(j)'
    BY <1>1, <1>2 DEF Threads, i
<1>8. row[j].status # "queued"
    BY <1>1, <1>2 DEF Books, NoRun, i
<1>9. Exists(j) /\ Renting(j)' => ok
    BY <1>1, <1>2, <1>5 DEF Renting, Threads, i
<1>10. Books(j)'
    BY <1>1, <1>2, <1>3, <1>4, <1>5, <1>8, <1>9, NoneIsNoInstance
       DEF Books, SlotFree, Exists, Alive, Threads, i
<1>11. Locks(j)'
    BY <1>1, <1>4, <1>5 DEF Locks, Exists
<1>12. ASSUME NEW k \in Instance
       PROVE  /\ Owns(j, k)' => Owns(j, k)
              /\ InUse(j, k)' => InUse(j, k)
              /\ Remembered(j, k) /\ Alive(k)' => Remembered(j, k)' \/ vast'[k].lost
    <2>1. Owns(j, k)' => Owns(j, k)
        BY <1>2, <1>4, NoneIsNoInstance DEF Owns, InHand
    <2>2. InUse(j, k)' => InUse(j, k)
        BY <1>2, NoneIsNoInstance DEF InUse
    <2>3. CASE k = i
        BY <1>2, <1>4, <1>5, <2>1, <2>2, <2>3 DEF Remembered, InHand, Exists, Alive
    <2>4. CASE k # i
        BY <1>2, <1>4, <1>5, <2>1, <2>2, <2>4, NoneIsNoInstance
           DEF Remembered, InHand, Exists, Stranded, i
    <2> QED BY <2>3, <2>4
<1>13. /\ sweep' \in [Job -> Sweep] /\ RecoveryAlone' /\ recovering' \subseteq Job
       /\ \A k \in Job \ {j} : sweep'[k] = sweep[k]
    BY <1>1, <1>6 DEF TypeOK, RecoveryAlone
<1> QED
    BY <1>3, <1>4, <1>7, <1>10, <1>11, <1>12, <1>13, PlainStep

LEMMA HelperDestroysStep ==
    ASSUME IInv, NEW j \in Job, HelperDestroys(j)
    PROVE  IInv'
<1>1. run[j] \in Run
    BY DEF IInv, TypeOK
<1>2. PICK ok \in BOOLEAN :
          /\ IF ok THEN DestroySucceeds(j) ELSE DestroyFails(j)
          /\ \E next \in IF run[j].helper = "retreating" THEN AfterRetreat(ok) ELSE {"over"} :
                 run' = [run EXCEPT ![j].helper = next, ![j].taken = None]
    BY DEF HelperDestroys
<1>3. PICK next \in {"choose", "over"} :
          /\ next = "over" \/ ok
          /\ run' = [run EXCEPT ![j].helper = next, ![j].taken = None]
    BY <1>2 DEF AfterRetreat
<1> DEFINE rn == [run[j] EXCEPT !.helper = next, !.taken = None]
<1>4. /\ rn \in Run /\ rn.helper = next /\ rn.taken = None
      /\ rn.new = run[j].new /\ rn.ctx = run[j].ctx /\ rn.late = run[j].late
      /\ rn.worker = run[j].worker
    BY <1>1 DEF Run, Helper
<1>5. run' = [run EXCEPT ![j] = rn]
    BY <1>3
<1> HIDE DEF rn
<1>6. run[j].helper \in {"retreating", "finalizing"} /\ UNCHANGED <<sweep, recovering>>
    BY DEF HelperDestroys
<1> QED
    BY <1>2, <1>3, <1>4, <1>5, <1>6, DestroyedStep

LEMMA WorkerDestroysStep ==
    ASSUME IInv, NEW j \in Job, WorkerDestroys(j)
    PROVE  IInv'
<1>1. run[j] \in Run
    BY DEF IInv, TypeOK
<1>2. PICK ok \in BOOLEAN : IF ok THEN DestroySucceeds(j) ELSE DestroyFails(j)
    BY DEF WorkerDestroys
<1> DEFINE rn == [run[j] EXCEPT !.worker = "failing", !.taken = None]
<1>3. /\ rn \in Run /\ rn.helper = run[j].helper /\ rn.taken = None
      /\ rn.new = run[j].new /\ rn.ctx = run[j].ctx /\ rn.late = run[j].late
      /\ rn.worker = "failing"
    BY <1>1 DEF Run, Worker
<1>4. /\ run' = [run EXCEPT ![j] = rn] /\ run[j].worker = "destroying"
      /\ UNCHANGED <<sweep, recovering>>
    BY DEF WorkerDestroys
<1> HIDE DEF rn
<1> QED
    BY <1>2, <1>3, <1>4, DestroyedStep

--------------------------------------------------------------------------------
(* The worker *)

\* PlainStep without a change of locks, faults or recovery.
LEMMA WorkerRowStep ==
    ASSUME IInv, NEW j \in Job, NEW rw \in Row, NEW rn \in Run,
           row' = [row EXCEPT ![j] = rw], run' = [run EXCEPT ![j] = rn],
           UNCHANGED <<sweep, recovering>>, recovering = {},
           faults' = faults \/ faults' \in 0 .. MaxFaults,
           vast' = vast \/ \E i \in Instance : Touches(i),
           vast' \in [Instance -> Contract],
           Threads(j)', Books(j)', Locks(j)',
           \A i \in Instance :
               /\ Owns(j, i)' => Owns(j, i)
               /\ InUse(j, i)' => InUse(j, i)
               /\ Remembered(j, i) /\ Alive(i)' => Remembered(j, i)' \/ vast'[i].lost
    PROVE  IInv'
<1>1. TypeOK
    BY DEF IInv
<1>2. /\ sweep' \in [Job -> Sweep] /\ faults' \in 0 .. MaxFaults
      /\ RecoveryAlone' /\ recovering' \subseteq Job
      /\ \A k \in Job \ {j} : sweep'[k] = sweep[k]
    BY <1>1 DEF TypeOK, RecoveryAlone
<1> QED
    BY <1>2, PlainStep

LEMMA ClaimStep ==
    ASSUME IInv, NEW j \in Job, Claim(j)
    PROVE  IInv'
<1>1. TypeOK /\ Threads(j) /\ Books(j) /\ Locks(j)
    BY DEF IInv
<1> DEFINE rw == [row[j] EXCEPT !.status = "active"]
<1> DEFINE rn == [NoRun EXCEPT !.worker = "working"]
<1>2. /\ row[j].status = "queued" /\ Free(j) /\ recovering = {}
      /\ row' = [row EXCEPT ![j] = rw] /\ run' = [run EXCEPT ![j] = rn]
      /\ UNCHANGED <<vast, sweep, recovering, faults>>
    BY DEF Claim, Serving
<1>3. /\ rw \in Row /\ row'[j] = rw /\ rw.status = "active"
      /\ rw.id = row[j].id /\ rw.failed = row[j].failed
    BY <1>1, <1>2 DEF TypeOK, Row
<1>4. /\ rn \in Run /\ run'[j] = rn /\ rn.worker = "working" /\ rn.helper = "none"
      /\ rn.new = None /\ rn.ctx = None /\ rn.taken = None
    BY <1>1, <1>2 DEF TypeOK, Run, NoRun, Worker, Helper
<1> HIDE DEF rw, rn
<1>5. run[j] = NoRun /\ SlotFree(j)
    BY <1>1, <1>2 DEF Books
<1>6. Threads(j)'
    BY <1>4 DEF Threads
<1>7. Books(j)'
    BY <1>1, <1>2, <1>3, <1>4, <1>5, NoneIsNoInstance DEF Books, SlotFree, Alive
<1>8. Locks(j)'
    BY <1>1, <1>2 DEF Locks, Free
<1>9. ASSUME NEW i \in Instance
      PROVE  /\ Owns(j, i)' => Owns(j, i)
             /\ InUse(j, i)' => InUse(j, i)
             /\ Remembered(j, i) => Remembered(j, i)'
    BY <1>2, <1>3, <1>4, <1>5, NoneIsNoInstance
       DEF Owns, InUse, Remembered, InHand, Stranded, SlotFree, NoRun
<1>10. vast' \in [Instance -> Contract] /\ vast' = vast
    BY <1>1, <1>2 DEF TypeOK
<1> QED
    BY <1>2, <1>3, <1>4, <1>6, <1>7, <1>8, <1>9, <1>10, WorkerRowStep

\* The commit of a stage changes the status of a row that still exists.
LEMMA ActiveEffect ==
    ASSUME TypeOK, NEW j \in Job, row' = Active(j)
    PROVE  \E rw \in Row :
               /\ row' = [row EXCEPT ![j] = rw] /\ row'[j] = rw
               /\ rw.id = row[j].id /\ rw.failed = row[j].failed
               /\ rw.status = IF Exists(j) THEN "active" ELSE "deleted"
<1> DEFINE rw == [row[j] EXCEPT !.status = "active"]
<1>1. CASE Exists(j)
    <2>1. row' = [row EXCEPT ![j] = rw]
        BY <1>1 DEF Active
    <2>2. /\ rw \in Row /\ row'[j] = rw /\ rw.status = "active"
          /\ rw.id = row[j].id /\ rw.failed = row[j].failed
        BY <2>1 DEF TypeOK, Row
    <2> HIDE DEF rw
    <2> QED BY <1>1, <2>1, <2>2
<1>2. CASE ~Exists(j)
    <2>1. row' = [row EXCEPT ![j] = row[j]] /\ row'[j] = row[j] /\ row[j] \in Row
        BY <1>2 DEF Active, TypeOK
    <2> QED BY <1>2, <2>1 DEF Exists
<1> QED BY <1>1, <1>2

\* Before the transcription a job has no thread but its worker.
LEMMA WorkingHoldsNothing ==
    ASSUME IInv, NEW j \in Job, run[j].worker = "working"
    PROVE  /\ run[j].helper = "none" /\ run[j].new = None
           /\ run[j].ctx = None /\ run[j].taken = None
           /\ Free(j) /\ (Exists(j) => SlotFree(j))
           /\ recovering = {} /\ row[j].status # "queued"
<1>1. Threads(j) /\ Books(j) /\ Locks(j)
    BY DEF IInv
<1>2. row[j].status # "queued"
    BY <1>1 DEF Books, NoRun
<1>3. Free(j) /\ (Exists(j) => SlotFree(j))
    BY <1>1 DEF Books, Renting, Locks, SlotFree, Free
<1> QED
    BY <1>1, <1>2, <1>3, ThreadAlone DEF Threads

LEMMA StageStep ==
    ASSUME IInv, NEW j \in Job, NEW rn \in Run, run[j].worker = "working",
           run' = [run EXCEPT ![j] = rn], row' = Active(j) \/ row' = row,
           UNCHANGED <<vast, sweep, recovering, faults>>,
           rn.new = None, rn.ctx = None, rn.taken = None,
           \/ rn.worker = "waiting" /\ rn.helper = "choose"
           \/ rn.worker \in {"finishing", "failing"} /\ rn.helper = "none"
    PROVE  IInv'
<1>1. TypeOK /\ Threads(j) /\ Books(j) /\ Locks(j)
    BY DEF IInv
<1>2. PICK rw \in Row :
          /\ row' = [row EXCEPT ![j] = rw] /\ row'[j] = rw
          /\ rw.id = row[j].id /\ rw.failed = row[j].failed
          /\ rw.status # "queued" /\ (rw.status = "deleted" <=> ~Exists(j))
    <2>1. CASE row' = row
        <3>1. row[j] \in Row /\ row' = [row EXCEPT ![j] = row[j]] /\ row'[j] = row[j]
            BY <1>1, <2>1 DEF TypeOK
        <3> QED BY <3>1, WorkingHoldsNothing DEF Exists
    <2>2. CASE row' = Active(j)
        BY <1>1, <2>2, ActiveEffect
    <2> QED BY <2>1, <2>2
<1>3. run'[j] = rn
    BY <1>1 DEF TypeOK
<1>4. Threads(j)'
    BY <1>3 DEF Threads
<1>5. Books(j)'
    BY <1>1, <1>2, <1>3, WorkingHoldsNothing, NoneIsNoInstance
       DEF Books, SlotFree, Exists, Alive
<1>6. Locks(j)'
    BY <1>1, WorkingHoldsNothing DEF Locks, Free
<1>7. ASSUME NEW i \in Instance
      PROVE  /\ Owns(j, i)' => Owns(j, i)
             /\ InUse(j, i)' => InUse(j, i)
             /\ Remembered(j, i) => Remembered(j, i)'
    BY <1>2, <1>3, WorkingHoldsNothing, NoneIsNoInstance
       DEF Owns, InUse, Remembered, InHand, Stranded, SlotFree, Exists
<1>8. vast' \in [Instance -> Contract] /\ vast' = vast /\ recovering = {}
    BY <1>1, WorkingHoldsNothing DEF TypeOK
<1> QED
    BY <1>2, <1>4, <1>5, <1>6, <1>7, <1>8, WorkerRowStep

LEMMA TranscribeSteps ==
    ASSUME IInv, NEW j \in Job, Transcribe(j) \/ NoTranscription(j)
    PROVE  IInv'
<1>1. run[j] \in Run /\ run[j].worker = "working"
    BY DEF IInv, TypeOK, Transcribe, NoTranscription
<1>2. UNCHANGED <<vast, sweep, recovering, faults>> /\ (row' = Active(j) \/ row' = row)
    BY DEF Transcribe, NoTranscription
<1>3. CASE Transcribe(j)
    <2> DEFINE rn == [run[j] EXCEPT !.worker = "waiting", !.helper = "choose"]
    <2>1. run' = [run EXCEPT ![j] = rn]
        BY <1>3 DEF Transcribe
    <2>2. /\ rn \in Run /\ rn.worker = "waiting" /\ rn.helper = "choose"
          /\ rn.new = run[j].new /\ rn.ctx = run[j].ctx /\ rn.taken = run[j].taken
        BY <1>1 DEF Run, Worker, Helper
    <2> HIDE DEF rn
    <2> QED BY <1>1, <1>2, <2>1, <2>2, StageStep, WorkingHoldsNothing
<1>4. CASE NoTranscription(j)
    <2>1. PICK to \in {"finishing", "failing"} : run' = [run EXCEPT ![j].worker = to]
        BY <1>4 DEF NoTranscription
    <2> DEFINE rn == [run[j] EXCEPT !.worker = to]
    <2>2. /\ rn \in Run /\ rn.worker = to /\ rn.helper = run[j].helper
          /\ rn.new = run[j].new /\ rn.ctx = run[j].ctx /\ rn.taken = run[j].taken
        BY <1>1, <2>1 DEF Run, Worker
    <2>3. run' = [run EXCEPT ![j] = rn]
        BY <2>1
    <2> HIDE DEF rn
    <2>4. /\ rn.new = None /\ rn.ctx = None /\ rn.taken = None
          /\ rn.worker \in {"finishing", "failing"} /\ rn.helper = "none"
        BY <1>1, <2>2, WorkingHoldsNothing
    <2> QED BY <1>1, <1>2, <2>2, <2>3, <2>4, StageStep
<1> QED BY <1>3, <1>4

LEMMA TakeResultStep ==
    ASSUME IInv, NEW j \in Job, TakeResult(j)
    PROVE  IInv'
<1>1. TypeOK /\ Threads(j) /\ Books(j) /\ Locks(j)
    BY DEF IInv
<1>2. /\ run[j].worker = "waiting" /\ run[j].helper = "over"
      /\ UNCHANGED <<sweep, recovering, faults>>
    BY DEF TakeResult
<1>3. /\ recovering = {} /\ run[j].new = None /\ run[j].taken = None
      /\ run[j].ctx \in Instance \cup {None} /\ row[j].status # "queued"
    BY <1>1, <1>2, ThreadAlone DEF Threads, TypeOK, Run, Books, NoRun
<1>4. PICK to \in {"finishing", "failing"}, rw \in Row :
          /\ run' = [run EXCEPT ![j] = [run[j] EXCEPT !.worker = to, !.ctx = None]]
          /\ row' = [row EXCEPT ![j] = rw] /\ row'[j] = rw
          /\ rw.id = row[j].id /\ rw.failed = row[j].failed
          /\ rw.status # "queued" /\ (rw.status = "deleted" <=> ~Exists(j))
          /\ rw = row[j] \/ Free(j)
          /\ \/ vast' = vast /\ run[j].ctx = None
             \/ vast' = [vast EXCEPT ![run[j].ctx].lost = TRUE] /\ run[j].ctx # None
    <2>1. CASE /\ run[j].ctx = None /\ Free(j) /\ row' = Active(j)
               /\ run' = [run EXCEPT ![j].worker = "finishing"] /\ UNCHANGED vast
        <3>1. run' = [run EXCEPT ![j] = [run[j] EXCEPT !.worker = "finishing", !.ctx = None]]
            BY <1>1, <2>1 DEF TypeOK, Run
        <3> QED BY <1>1, <2>1, <3>1, ActiveEffect
    <2>2. CASE /\ run' = [run EXCEPT ![j].worker = "failing", ![j].ctx = None]
               /\ vast' = (IF run[j].ctx = None THEN vast
                           ELSE [vast EXCEPT ![run[j].ctx].lost = TRUE])
               /\ UNCHANGED row
        <3>1. row[j] \in Row /\ row' = [row EXCEPT ![j] = row[j]] /\ row'[j] = row[j]
            BY <1>1, <2>2 DEF TypeOK
        <3>2. run' = [run EXCEPT ![j] = [run[j] EXCEPT !.worker = "failing", !.ctx = None]]
            BY <2>2
        <3> QED BY <1>3, <2>2, <3>1, <3>2 DEF Exists
    <2> QED BY <2>1, <2>2 DEF TakeResult
<1> DEFINE rn == [run[j] EXCEPT !.worker = to, !.ctx = None]
<1>5. /\ rn \in Run /\ run'[j] = rn /\ rn.worker = to /\ rn.helper = "over"
      /\ rn.new = None /\ rn.ctx = None /\ rn.taken = None
    BY <1>1, <1>2, <1>3, <1>4 DEF TypeOK, Run, Worker
<1>6. run' = [run EXCEPT ![j] = rn]
    BY <1>4
<1> HIDE DEF rn
<1>7. /\ vast' \in [Instance -> Contract] /\ (vast' = vast \/ \E i \in Instance : Touches(i))
      /\ run[j].ctx # None => vast'[run[j].ctx].lost
      /\ \A i \in Instance : Alive(i)' => Alive(i)
    BY <1>1, <1>3, <1>4, ForgetEffect, TouchGrows DEF TypeOK, Alive
<1>8. Threads(j)'
    BY <1>5 DEF Threads
<1>9. Books(j)'
    BY <1>1, <1>4, <1>5, NoneIsNoInstance DEF Books, Renting, Exists
<1>10. row[j].id # None => (~Alive(row[j].id) => ~Alive(row[j].id)')
    BY <1>1, <1>4, <1>7 DEF TypeOK, Row, Alive
<1>11. Locks(j)'
    BY <1>1, <1>2, <1>4, <1>10 DEF Locks, Free, Exists, Books
<1>12. ASSUME NEW i \in Instance
       PROVE  /\ Owns(j, i)' => Owns(j, i)
              /\ InUse(j, i)' => InUse(j, i)
              /\ Remembered(j, i) => Remembered(j, i)' \/ vast'[i].lost
    BY <1>2, <1>3, <1>4, <1>5, <1>7, NoneIsNoInstance
       DEF Owns, InUse, Remembered, InHand, Stranded, Exists
<1> QED
    BY <1>2, <1>3, <1>4, <1>5, <1>6, <1>7, <1>8, <1>9, <1>11, <1>12, WorkerRowStep

LEMMA TimeOutStep ==
    ASSUME IInv, NEW j \in Job, TimeOut(j)
    PROVE  IInv'
<1> DEFINE rn == [run[j] EXCEPT !.worker = "cancelled"]
<1>1. TypeOK /\ Threads(j) /\ Books(j)
    BY DEF IInv
<1>2. /\ run[j].worker = "waiting" /\ run[j].late /\ run' = [run EXCEPT ![j] = rn]
      /\ UNCHANGED <<row, vast, sweep, recovering, faults>>
    BY DEF TimeOut
<1>3. /\ rn \in Run /\ run'[j] = rn /\ rn.helper = run[j].helper
      /\ rn.worker = "cancelled" /\ rn.new = run[j].new /\ rn.ctx = run[j].ctx
      /\ rn.taken = run[j].taken /\ rn.late = run[j].late
    BY <1>1, <1>2 DEF TypeOK, Run, Worker
<1> HIDE DEF rn
<1>4. recovering = {} /\ recovering' = {}
    BY <1>2, ThreadAlone
<1>5. Threads(j)'
    BY <1>1, <1>2, <1>3 DEF Threads
<1>6. Books(j)'
    <2>1. row[j].status # "queued"
        BY <1>1, <1>2 DEF Books, NoRun
    <2>2. Renting(j)' => Renting(j)
        BY <1>3 DEF Renting
    <2>3. SlotFree(j) => SlotFree(j)'
        BY <1>2 DEF SlotFree, Alive
    <2> QED BY <1>1, <1>2, <1>3, <2>1, <2>2, <2>3 DEF Books, Exists
<1>7. ASSUME NEW i \in Instance
      PROVE  /\ InHand(j, i)' <=> InHand(j, i)
             /\ InUse(j, i)' => InUse(j, i)
    BY <1>2, <1>3 DEF InHand, InUse
<1>8. faults' \in 0 .. MaxFaults
    BY <1>1, <1>2 DEF TypeOK
<1> QED
    BY <1>2, <1>3, <1>4, <1>5, <1>6, <1>7, <1>8, QuietStep

LEMMA WorkerTakesStep ==
    ASSUME IInv, NEW j \in Job, WorkerTakes(j)
    PROVE  IInv'
<1>1. TypeOK /\ Threads(j) /\ Books(j)
    BY DEF IInv
<1>2. /\ run[j].worker = "cancelled"
      /\ UNCHANGED <<row, vast, sweep, recovering, faults>>
    BY DEF WorkerTakes
<1>3. PICK rn \in Run :
          /\ run' = [run EXCEPT ![j] = rn] /\ run'[j] = rn
          /\ rn.new = run[j].new /\ rn.helper = run[j].helper /\ rn.late = run[j].late
          /\ rn.ctx = None
          /\ \/ run[j].ctx = None /\ rn.taken = run[j].taken /\ rn.worker = "failing"
             \/ run[j].ctx # None /\ rn.taken = run[j].ctx /\ rn.worker = "destroying"
    <2>1. CASE run[j].ctx = None
        <3> DEFINE rn == [run[j] EXCEPT !.worker = "failing", !.ctx = None]
        <3>1. run' = [run EXCEPT ![j] = rn]
            BY <1>1, <2>1 DEF WorkerTakes, TypeOK, Run
        <3>2. rn \in Run /\ run'[j] = rn /\ rn.helper = run[j].helper /\ rn.worker = "failing"
              /\ rn.new = run[j].new /\ rn.late = run[j].late
              /\ rn.ctx = None /\ rn.taken = run[j].taken
            BY <1>1, <3>1 DEF TypeOK, Run, Worker
        <3> HIDE DEF rn
        <3> QED BY <2>1, <3>1, <3>2
    <2>2. CASE run[j].ctx # None
        <3> DEFINE rn == [run[j] EXCEPT !.worker = "destroying", !.taken = run[j].ctx,
                                        !.ctx = None]
        <3>1. run' = [run EXCEPT ![j] = rn]
            BY <1>1, <2>2 DEF WorkerTakes, TypeOK, Run
        <3>2. rn \in Run /\ run'[j] = rn /\ rn.helper = run[j].helper
              /\ rn.worker = "destroying" /\ rn.new = run[j].new /\ rn.late = run[j].late
              /\ rn.ctx = None /\ rn.taken = run[j].ctx
            BY <1>1, <3>1 DEF TypeOK, Run, Worker
        <3> HIDE DEF rn
        <3> QED BY <2>2, <3>1, <3>2
    <2> QED BY <2>1, <2>2
<1>4. recovering = {} /\ recovering' = {}
    BY <1>2, ThreadAlone
<1>5. Threads(j)'
    BY <1>1, <1>2, <1>3 DEF Threads
<1>6. Books(j)'
    BY <1>1, <1>2, <1>3, NoneIsNoInstance
       DEF Books, SlotFree, Renting, Exists, Alive, NoRun
<1>7. ASSUME NEW i \in Instance
      PROVE  /\ InHand(j, i)' <=> InHand(j, i)
             /\ InUse(j, i)' => InUse(j, i)
    BY <1>1, <1>2, <1>3, NoneIsNoInstance DEF InHand, InUse, Threads
<1>8. faults' \in 0 .. MaxFaults
    BY <1>1, <1>2 DEF TypeOK
<1> QED
    BY <1>2, <1>3, <1>4, <1>5, <1>6, <1>7, <1>8, QuietStep

LEMMA SettledEffect ==
    ASSUME TypeOK, NEW j \in Job, NEW f \in {"no", "fresh", "ripe"}, row' = Settled(j, f)
    PROVE  \E rw \in Row :
               /\ row' = [row EXCEPT ![j] = rw] /\ row'[j] = rw /\ rw.id = row[j].id
               /\ IF Exists(j) THEN rw.status = "settled" /\ rw.failed = f
                  ELSE rw = row[j]
<1> DEFINE rw == [row[j] EXCEPT !.status = "settled", !.failed = f]
<1>1. CASE Exists(j)
    <2>1. row' = [row EXCEPT ![j] = rw]
        BY <1>1 DEF Settled
    <2>2. row[j] \in Row /\ f \in {"no", "fresh", "ripe"}
        BY DEF TypeOK
    <2>3. /\ rw \in Row /\ rw.status = "settled"
          /\ rw.id = row[j].id /\ rw.failed = f
        BY <2>2 DEF Row
    <2>4. row'[j] = rw
        BY <2>1 DEF TypeOK
    <2> HIDE DEF rw
    <2> QED BY <1>1, <2>1, <2>3, <2>4
<1>2. CASE ~Exists(j)
    <2>1. row' = [row EXCEPT ![j] = row[j]] /\ row'[j] = row[j] /\ row[j] \in Row
        BY <1>2 DEF Settled, TypeOK
    <2> QED BY <1>2, <2>1
<1> QED BY <1>1, <1>2

LEMMA SettleStep ==
    ASSUME IInv, NEW j \in Job, Settle(j)
    PROVE  IInv'
<1>1. TypeOK /\ Threads(j) /\ Books(j) /\ Locks(j)
    BY DEF IInv
<1> DEFINE rn == [run[j] EXCEPT !.worker = "none"]
<1>2. /\ run[j].worker \in {"failing", "finishing"}
      /\ run' = [run EXCEPT ![j] = rn]
      /\ \/ Free(j) /\ row' = Settled(j, row[j].failed)
         \/ row' = row
      /\ UNCHANGED <<vast, sweep, recovering>>
    BY DEF Settle
<1>20. faults' \in 0 .. MaxFaults
    BY <1>1, VastAssumption DEF TypeOK, Settle, Fault
<1>3. /\ rn \in Run /\ run'[j] = rn /\ rn.helper = run[j].helper
      /\ rn.worker = "none" /\ rn.new = run[j].new /\ rn.ctx = run[j].ctx
      /\ rn.taken = run[j].taken /\ rn.late = run[j].late
    BY <1>1, <1>2 DEF TypeOK, Run, Worker
<1> HIDE DEF rn
<1>4. row[j].status # "queued" /\ row[j].failed \in {"no", "fresh", "ripe"}
    BY <1>1, <1>2 DEF Books, NoRun, TypeOK, Row
<1>5. PICK rw \in Row :
          /\ row' = [row EXCEPT ![j] = rw] /\ row'[j] = rw /\ rw.id = row[j].id
          /\ rw.failed = row[j].failed
          /\ rw = row[j] \/ (Free(j) /\ Exists(j) /\ rw.status = "settled")
    <2>1. CASE row' = row
        BY <1>1, <2>1 DEF TypeOK
    <2>2. CASE Free(j) /\ row' = Settled(j, row[j].failed)
        BY <1>1, <1>4, <2>2, SettledEffect
    <2> QED BY <1>2, <2>1, <2>2
<1>6. Threads(j)'
    BY <1>1, <1>2, <1>3 DEF Threads
<1>7. Books(j)'
    <2>1. (Exists(j)' <=> Exists(j)) /\ row'[j].failed = row[j].failed
        BY <1>5 DEF Exists
    <2>2. Renting(j)' => Renting(j)
        BY <1>3 DEF Renting
    <2>3. SlotFree(j) => SlotFree(j)'
        BY <1>2, <1>5, <2>1 DEF SlotFree, Alive
    <2>4. row'[j].status # "queued"
        BY <1>4, <1>5
    <2> QED BY <1>1, <1>3, <1>5, <2>1, <2>2, <2>3, <2>4 DEF Books
<1>8. Locks(j)'
    BY <1>1, <1>2, <1>5 DEF Locks, Free, Exists, Alive
<1>9. ASSUME NEW i \in Instance
      PROVE  /\ Owns(j, i)' => Owns(j, i)
             /\ InUse(j, i)' => InUse(j, i)
             /\ Remembered(j, i) => Remembered(j, i)'
    BY <1>2, <1>3, <1>5 DEF Owns, InUse, Remembered, InHand, Exists, Stranded
<1>10. vast' \in [Instance -> Contract] /\ vast' = vast /\ recovering = {}
    BY <1>1, <1>2, ThreadAlone DEF TypeOK
<1> QED
    BY <1>2, <1>20, <1>3, <1>5, <1>6, <1>7, <1>8, <1>9, <1>10, WorkerRowStep

LEMMA BeginLastChanceStep ==
    ASSUME IInv, NEW j \in Job, BeginLastChance(j)
    PROVE  IInv'
<1> DEFINE rn == [run[j] EXCEPT !.worker = "lastChance"]
<1>1. TypeOK /\ Threads(j) /\ Books(j)
    BY DEF IInv
<1>2. /\ run[j].worker = "finishing" /\ row[j].failed = "ripe"
      /\ run' = [run EXCEPT ![j] = rn]
      /\ UNCHANGED <<row, vast, sweep, recovering, faults>>
    BY DEF BeginLastChance
<1>3. /\ rn \in Run /\ run'[j] = rn /\ rn.helper = run[j].helper
      /\ rn.worker = "lastChance" /\ rn.new = run[j].new /\ rn.ctx = run[j].ctx
      /\ rn.taken = run[j].taken /\ rn.late = run[j].late
    BY <1>1, <1>2 DEF TypeOK, Run, Worker
<1> HIDE DEF rn
<1>4. recovering = {} /\ recovering' = {}
    BY <1>2, ThreadAlone
<1>5. Threads(j)'
    BY <1>1, <1>2, <1>3 DEF Threads
<1>6. Books(j)'
    <2>1. row[j].status # "queued" /\ row[j].id # None
        BY <1>1, <1>2 DEF Books, NoRun
    <2>2. Renting(j)' => Renting(j)
        BY <1>3 DEF Renting
    <2>3. SlotFree(j) => SlotFree(j)'
        BY <1>2 DEF SlotFree, Alive
    <2> QED BY <1>1, <1>2, <1>3, <2>1, <2>2, <2>3 DEF Books, Exists
<1>7. ASSUME NEW i \in Instance
      PROVE  /\ InHand(j, i)' <=> InHand(j, i)
             /\ InUse(j, i)' => InUse(j, i)
    BY <1>2, <1>3 DEF InHand, InUse
<1>8. faults' \in 0 .. MaxFaults
    BY <1>1, <1>2 DEF TypeOK
<1> QED
    BY <1>2, <1>3, <1>4, <1>5, <1>6, <1>7, <1>8, QuietStep

LEMMA LastChanceStep ==
    ASSUME IInv, NEW j \in Job, LastChance(j)
    PROVE  IInv'
<1>1. TypeOK /\ Threads(j) /\ Books(j) /\ Locks(j)
    BY DEF IInv
<1> DEFINE i == row[j].id
<1> DEFINE rn == [run[j] EXCEPT !.worker = "none"]
<1>2. /\ run[j].worker = "lastChance" /\ Free(j) /\ run' = [run EXCEPT ![j] = rn]
      /\ UNCHANGED <<sweep, recovering, faults>>
    BY DEF LastChance
<1>3. /\ rn \in Run /\ run'[j] = rn /\ rn.helper = run[j].helper
      /\ rn.worker = "none" /\ rn.new = run[j].new /\ rn.ctx = run[j].ctx
      /\ rn.taken = run[j].taken /\ rn.late = run[j].late
    BY <1>1, <1>2 DEF TypeOK, Run, Worker
<1> HIDE DEF rn
<1>4. /\ i \in Instance /\ row[j].status # "queued" /\ recovering = {}
      /\ run[j].new = None /\ run[j].ctx = None /\ run[j].taken = None
      /\ run[j].helper \in {"none", "over"}
    BY <1>1, <1>2, ThreadAlone DEF Books, NoRun, TypeOK, Row, Threads
<1>5. /\ vast' \in [Instance -> Contract] /\ Touches(i)
      /\ \E rw \in Row :
             /\ row' = [row EXCEPT ![j] = rw] /\ row'[j] = rw /\ rw.id = i
             /\ ~Exists(j) => rw = row[j]
             /\ Exists(j) => rw.status = "settled"
             /\ \/ vast'[i].state = "gone"
                \/ Exists(j) /\ rw.failed = "fresh"
                \/ vast'[i].lost
    <2>1. CASE Confirm(i) /\ row' = Settled(j, "no")
        <3>1. vast' \in [Instance -> Contract] /\ Touches(i) /\ vast'[i].state = "gone"
            BY <1>1, <1>4, <2>1, ConfirmEffect
        <3>2. \E rw \in Row :
                  /\ row' = [row EXCEPT ![j] = rw] /\ row'[j] = rw /\ rw.id = row[j].id
                  /\ IF Exists(j) THEN rw.status = "settled" /\ rw.failed = "no"
                     ELSE rw = row[j]
            BY <1>1, <2>1, SettledEffect
        <3> HIDE DEF i
        <3> QED BY <3>1, <3>2 DEF i
    <2>2. CASE Unconfirmed(i, ~Exists(j)) /\ row' = Settled(j, "fresh")
        <3>1. /\ vast' \in [Instance -> Contract] /\ Touches(i)
              /\ ~Exists(j) => vast'[i].lost
            <4>1. (~Exists(j)) \in BOOLEAN
                OBVIOUS
            <4> QED BY <1>1, <1>4, <2>2, <4>1, UnconfirmedEffect
        <3>2. \E rw \in Row :
                  /\ row' = [row EXCEPT ![j] = rw] /\ row'[j] = rw /\ rw.id = row[j].id
                  /\ IF Exists(j) THEN rw.status = "settled" /\ rw.failed = "fresh"
                     ELSE rw = row[j]
            BY <1>1, <2>2, SettledEffect
        <3> HIDE DEF i
        <3> QED BY <3>1, <3>2 DEF i
    <2> QED BY <2>1, <2>2 DEF LastChance
<1>6. PICK rw \in Row :
             /\ row' = [row EXCEPT ![j] = rw] /\ row'[j] = rw /\ rw.id = i
             /\ ~Exists(j) => rw = row[j]
             /\ Exists(j) => rw.status = "settled"
             /\ \/ vast'[i].state = "gone"
                \/ Exists(j) /\ rw.failed = "fresh"
                \/ vast'[i].lost
    BY <1>5
<1>7. Threads(j)'
    BY <1>1, <1>2, <1>3, <1>4 DEF Threads
<1>8. Books(j)'
    <2>1. i # None /\ row'[j].status # "queued"
        BY <1>4, <1>6, NoneIsNoInstance
    <2>2. ~Renting(j)'
        BY <1>3, <1>4 DEF Renting
    <2> QED BY <1>3, <1>4, <1>6, <2>1, <2>2, NoneIsNoInstance DEF Books
<1>9. Locks(j)'
    BY <1>1, <1>2 DEF Locks, Free
<1>10. ASSUME NEW k \in Instance
      PROVE  /\ Owns(j, k)' => Owns(j, k)
             /\ InUse(j, k)' => InUse(j, k)
             /\ Remembered(j, k) /\ Alive(k)' => Remembered(j, k)' \/ vast'[k].lost
    <2>1. (Owns(j, k)' => Owns(j, k)) /\ ~InUse(j, k)'
        BY <1>3, <1>4, <1>6, NoneIsNoInstance DEF Owns, InUse, InHand
    <2>2. Remembered(j, k) => k = i
        BY <1>4, NoneIsNoInstance DEF Remembered, InHand
    <2>3. k = i => (Alive(k)' => Remembered(j, k)' \/ vast'[k].lost)
        BY <1>6 DEF Remembered, Alive, Exists
    <2> QED BY <2>1, <2>2, <2>3
<1> HIDE DEF i
<1> QED
    BY <1>2, <1>3, <1>4, <1>5, <1>6, <1>7, <1>8, <1>9, <1>10, WorkerRowStep

LEMMA DeadlinePassesStep ==
    ASSUME IInv, NEW j \in Job, DeadlinePasses(j)
    PROVE  IInv'
<1> DEFINE rn == [run[j] EXCEPT !.late = TRUE]
<1>1. TypeOK /\ Threads(j) /\ Books(j)
    BY DEF IInv
<1>2. /\ run[j].helper # "none" /\ ~run[j].late /\ run' = [run EXCEPT ![j] = rn]
      /\ UNCHANGED <<row, vast, sweep, recovering, faults>>
    BY DEF DeadlinePasses
<1>3. /\ rn \in Run /\ run'[j] = rn /\ rn.helper = run[j].helper
      /\ rn.worker = run[j].worker /\ rn.new = run[j].new /\ rn.ctx = run[j].ctx
      /\ rn.taken = run[j].taken /\ rn.late = TRUE
    BY <1>1, <1>2 DEF TypeOK, Run
<1> HIDE DEF rn
<1>4. recovering = {} /\ recovering' = {}
    BY <1>2, ThreadAlone
<1>5. Threads(j)'
    BY <1>1, <1>2, <1>3 DEF Threads
<1>6. Books(j)'
    <2>1. row[j].status # "queued"
        BY <1>1, <1>2 DEF Books, NoRun
    <2>2. Renting(j)' => Renting(j)
        BY <1>2, <1>3 DEF Renting
    <2>3. SlotFree(j) => SlotFree(j)'
        BY <1>2 DEF SlotFree, Alive
    <2> QED BY <1>1, <1>2, <1>3, <2>1, <2>2, <2>3 DEF Books, Exists
<1>7. ASSUME NEW i \in Instance
      PROVE  /\ InHand(j, i)' <=> InHand(j, i)
             /\ InUse(j, i)' => InUse(j, i)
    BY <1>2, <1>3 DEF InHand, InUse
<1>8. faults' \in 0 .. MaxFaults
    BY <1>1, <1>2 DEF TypeOK
<1> QED
    BY <1>2, <1>3, <1>4, <1>5, <1>6, <1>7, <1>8, QuietStep

--------------------------------------------------------------------------------
(* Steps that change a row and no thread *)

LEMMA RowStep ==
    ASSUME IInv, NEW j \in Job, NEW rw \in Row,
           row' = [row EXCEPT ![j] = rw], UNCHANGED <<run, sweep, recovering, faults>>,
           rw.id = row[j].id, rw.status = "queued" => row[j].status = "queued",
           Exists(j)' => Exists(j), j \in recovering => rw.status = "active",
           rw.failed # "no" => row[j].failed # "no",
           row[j].failed = "no" => rw.failed = "no",
           Free(j) \/ rw = row[j],
           vast' = vast \/ \E i \in Instance : Touches(i),
           vast' \in [Instance -> Contract],
           \A i \in Instance : Remembered(j, i) => Remembered(j, i)' \/ vast'[i].lost
    PROVE  IInv'
<1>1. TypeOK /\ Threads(j) /\ Books(j) /\ Locks(j)
    BY DEF IInv
<1>2. run[j] \in Run /\ run' = [run EXCEPT ![j] = run[j]] /\ row'[j] = rw
    BY <1>1 DEF TypeOK
<1>3. Threads(j)'
    BY <1>1 DEF Threads
<1>4. \A i \in Instance : ~Alive(i) => ~Alive(i)'
    BY <1>1, TouchGrows DEF Alive
<1>5. row[j].id \in Instance \cup {None}
    BY <1>1 DEF TypeOK, Row
<1>6. Books(j)'
    <2>1. Renting(j)' <=> Renting(j)
        BY DEF Renting
    <2>2. SlotFree(j) => SlotFree(j)'
        BY <1>2, <1>4, <1>5 DEF SlotFree, Alive
    <2> QED BY <1>1, <1>2, <2>1, <2>2 DEF Books
<1>7. Locks(j)'
    <2>1. row[j].id # None => (~Alive(row[j].id) => ~Alive(row[j].id)')
        BY <1>2, <1>4, <1>5 DEF Alive
    <2> QED BY <1>1, <1>2, <2>1 DEF Locks, Free, Exists, Books
<1>8. ASSUME NEW i \in Instance
      PROVE  (Owns(j, i)' => Owns(j, i)) /\ (InUse(j, i)' => InUse(j, i))
    BY <1>2 DEF Owns, InUse, InHand
<1>9. /\ sweep' \in [Job -> Sweep] /\ faults' \in 0 .. MaxFaults
      /\ recovering' \subseteq Job /\ \A k \in Job \ {j} : sweep'[k] = sweep[k]
    BY <1>1 DEF TypeOK
<1>10. RecoveryAlone'
    BY <1>1 DEF RecoveryAlone, IInv, TypeOK
<1> QED
    BY <1>2, <1>3, <1>6, <1>7, <1>8, <1>9, <1>10, PlainStep

LEMMA FloorPassesStep ==
    ASSUME IInv, NEW j \in Job, FloorPasses(j)
    PROVE  IInv'
<1> DEFINE rw == [row[j] EXCEPT !.failed = "ripe"]
<1>1. TypeOK /\ Locks(j)
    BY DEF IInv
<1>2. /\ row[j].failed = "fresh" /\ row' = [row EXCEPT ![j] = rw]
      /\ UNCHANGED <<run, vast, sweep, recovering, faults>>
    BY DEF FloorPasses
<1>3. /\ rw \in Row /\ row'[j] = rw /\ rw.failed = "ripe"
      /\ rw.id = row[j].id /\ rw.status = row[j].status
    BY <1>1, <1>2 DEF TypeOK, Row
<1> HIDE DEF rw
<1>4. Free(j)
    BY <1>1, <1>2 DEF Locks, Free
<1>5. \A i \in Instance : Remembered(j, i) => Remembered(j, i)'
    BY <1>2, <1>3 DEF Remembered, InHand, Exists, Stranded
<1>6. vast' \in [Instance -> Contract] /\ (Exists(j)' => Exists(j))
    BY <1>1, <1>2, <1>3 DEF TypeOK, Exists
<1>7. j \in recovering => rw.status = "active"
    BY <1>3 DEF IInv, RecoveryAlone
<1> QED
    BY <1>2, <1>3, <1>4, <1>5, <1>6, <1>7, RowStep

LEMMA CancelStep ==
    ASSUME IInv, NEW j \in Job, Cancel(j)
    PROVE  IInv'
<1> DEFINE rw == [row[j] EXCEPT !.status = "settled"]
<1> DEFINE forget == Stranded(j) /\ row[j].failed = "no"
<1>1. TypeOK
    BY DEF IInv
<1>2. /\ recovering = {} /\ Free(j) /\ row[j].status \in {"queued", "active"}
      /\ row' = [row EXCEPT ![j] = rw] /\ UNCHANGED <<run, sweep, recovering, faults>>
      /\ vast' = IF forget THEN [vast EXCEPT ![row[j].id].lost = TRUE] ELSE vast
    BY DEF Cancel, Serving
<1>3. /\ rw \in Row /\ row'[j] = rw /\ rw.status = "settled"
      /\ rw.id = row[j].id /\ rw.failed = row[j].failed
    BY <1>1, <1>2 DEF TypeOK, Row
<1> HIDE DEF rw
<1>4. forget => row[j].id \in Instance
    BY <1>1 DEF Stranded, TypeOK, Row
<1>5. /\ vast' \in [Instance -> Contract] /\ (vast' = vast \/ \E i \in Instance : Touches(i))
      /\ forget => vast'[row[j].id].lost
    BY <1>1, <1>2, <1>4, ForgetEffect DEF TypeOK
<1>6. ASSUME NEW i \in Instance, Remembered(j, i)
      PROVE  Remembered(j, i)' \/ vast'[i].lost
    BY <1>2, <1>3, <1>5, <1>6 DEF Remembered, InHand, Exists
<1>7. Exists(j)' => Exists(j)
    BY <1>2 DEF Exists
<1> HIDE DEF forget
<1> QED
    BY <1>2, <1>3, <1>5, <1>6, <1>7, RowStep

LEMMA DeleteStep ==
    ASSUME IInv, NEW j \in Job, Delete(j)
    PROVE  IInv'
<1> DEFINE rw == [row[j] EXCEPT !.status = "deleted"]
<1> DEFINE forget == row[j].failed # "no"
<1>1. TypeOK /\ Books(j)
    BY DEF IInv
<1>2. /\ recovering = {} /\ Free(j) /\ row[j].status = "settled"
      /\ row' = [row EXCEPT ![j] = rw] /\ UNCHANGED <<run, sweep, recovering, faults>>
      /\ vast' = IF forget THEN [vast EXCEPT ![row[j].id].lost = TRUE] ELSE vast
    BY DEF Delete, Serving
<1>3. /\ rw \in Row /\ row'[j] = rw /\ rw.status = "deleted"
      /\ rw.id = row[j].id /\ rw.failed = row[j].failed
    BY <1>1, <1>2 DEF TypeOK, Row
<1> HIDE DEF rw
<1>4. forget => row[j].id \in Instance
    BY <1>1 DEF Books, TypeOK, Row
<1>5. /\ vast' \in [Instance -> Contract] /\ (vast' = vast \/ \E i \in Instance : Touches(i))
      /\ forget => vast'[row[j].id].lost
    BY <1>1, <1>2, <1>4, ForgetEffect DEF TypeOK
<1>6. ASSUME NEW i \in Instance, Remembered(j, i)
      PROVE  Remembered(j, i)' \/ vast'[i].lost
    BY <1>2, <1>3, <1>5, <1>6 DEF Remembered, InHand, Exists, Stranded
<1>7. Exists(j)' => Exists(j)
    BY <1>2 DEF Exists
<1> HIDE DEF forget
<1> QED
    BY <1>2, <1>3, <1>5, <1>6, <1>7, RowStep

LEMMA RecoverRowStep ==
    ASSUME IInv, NEW j \in Job, RecoverRow(j)
    PROVE  IInv'
<1>1. TypeOK /\ Threads(j) /\ Books(j) /\ Locks(j)
    BY DEF IInv
<1> DEFINE i == row[j].id
<1>2. /\ j \in recovering /\ recovering' = recovering \ {j}
      /\ UNCHANGED <<run, sweep, faults>>
    BY DEF RecoverRow
<1>3. /\ \A k \in Job : run[k] = NoRun /\ sweep[k] = Unlocked
      /\ row[j].status = "active"
    BY <1>2 DEF IInv, RecoveryAlone
<1>4. i \in Instance \cup {None} /\ (row[j].failed # "no" => i # None)
    BY <1>1 DEF TypeOK, Row, Books
<1>5. PICK status \in {"queued", "settled"}, failed \in {"no", "fresh"} :
          /\ row' = Recovered(j, status, failed)
          /\ vast' \in [Instance -> Contract] /\ (vast' = vast \/ \E k \in Instance : Touches(k))
          /\ status = "queued" => failed = "no" /\ (i # None => vast'[i].state = "gone")
          /\ status = "settled" => failed = "fresh" /\ i # None
    <2>1. CASE i = None /\ UNCHANGED vast /\ row' = Recovered(j, "queued", row[j].failed)
        <3>1. row[j].failed = "no" /\ vast' \in [Instance -> Contract]
            BY <1>1, <1>4, <2>1 DEF TypeOK
        <3> QED BY <2>1, <3>1
    <2>2. CASE i # None /\ Confirm(i) /\ row' = Recovered(j, "queued", "no")
        <3>1. vast' \in [Instance -> Contract] /\ Touches(i) /\ vast'[i].state = "gone"
            BY <1>1, <1>4, <2>2, ConfirmEffect
        <3>2. i \in Instance
            BY <1>4, <2>2
        <3> HIDE DEF i
        <3> QED BY <2>2, <3>1, <3>2
    <2>3. CASE i # None /\ Unconfirmed(i, FALSE) /\ row' = Recovered(j, "settled", "fresh")
        <3>1. vast' \in [Instance -> Contract] /\ Touches(i)
            BY <1>1, <1>4, <2>3, UnconfirmedEffect
        <3>2. i \in Instance
            BY <1>4, <2>3
        <3> HIDE DEF i
        <3> QED BY <2>3, <3>1, <3>2
    <2> QED BY <2>1, <2>2, <2>3 DEF RecoverRow
<1> DEFINE rw == [row[j] EXCEPT !.status = status, !.failed = failed]
<1>6. row' = [row EXCEPT ![j] = rw]
    BY <1>5 DEF Recovered
<1>7. /\ rw \in Row /\ row'[j] = rw /\ rw.status = status
      /\ rw.id = i /\ rw.failed = failed
    <2>1. row[j] \in Row /\ row'[j] = rw
        BY <1>1, <1>6 DEF TypeOK
    <2>2. rw \in Row /\ rw.status = status /\ rw.id = i /\ rw.failed = failed
        BY <2>1 DEF Row
    <2> QED BY <2>1, <2>2
<1> HIDE DEF rw, i
<1>8. run[j] \in Run /\ run' = [run EXCEPT ![j] = run[j]]
    BY <1>1, <1>2 DEF TypeOK
<1>9. Threads(j)'
    BY <1>1, <1>2 DEF Threads
<1>10. Books(j)'
    <2>1. run'[j] = NoRun /\ ~Renting(j)'
        <3>1. run'[j] = NoRun
            BY <1>2, <1>3
        <3> QED BY <3>1 DEF Renting, NoRun
    <2>2. row'[j].failed # "no" => row'[j].id # None
        BY <1>5, <1>7
    <2>3. row'[j].status = "queued" => SlotFree(j)'
        BY <1>5, <1>7 DEF SlotFree, Alive
    <2> QED BY <2>1, <2>2, <2>3, NoneIsNoInstance DEF Books, NoRun
<1>11. Locks(j)'
    BY <1>2, <1>3 DEF Locks, Unlocked
<1>12. ASSUME NEW k \in Instance
       PROVE  /\ Owns(j, k)' => Owns(j, k)
              /\ InUse(j, k)' => InUse(j, k)
              /\ Remembered(j, k) /\ Alive(k)' => Remembered(j, k)'
    <2>1. ~InHand(j, k) /\ ~InHand(j, k)' /\ ~InUse(j, k)'
        BY <1>2, <1>3, NoneIsNoInstance DEF InHand, InUse, NoRun
    <2>2. row'[j].id = row[j].id
        BY <1>7 DEF i
    <2>3. k = i /\ Alive(k)' => Remembered(j, k)'
        BY <1>4, <1>5, <1>7, NoneIsNoInstance DEF Remembered, Exists, Alive
    <2> QED BY <2>1, <2>2, <2>3 DEF Owns, Remembered, i
<1>13. RecoveryAlone'
    BY <1>1, <1>2, <1>3, <1>6 DEF RecoveryAlone, IInv, TypeOK
<1>14. /\ sweep' \in [Job -> Sweep] /\ faults' \in 0 .. MaxFaults
       /\ recovering' \subseteq Job /\ \A k \in Job \ {j} : sweep'[k] = sweep[k]
    BY <1>1, <1>2 DEF TypeOK
<1> QED
    BY <1>5, <1>6, <1>7, <1>8, <1>9, <1>10, <1>11, <1>12, <1>13, <1>14, PlainStep

--------------------------------------------------------------------------------
(* The sweep *)

LEMMA SweepLocksStep ==
    ASSUME IInv, UNCHANGED <<row, run, vast, recovering>>, recovering = {},
           sweep' \in [Job -> Sweep], faults' \in 0 .. MaxFaults,
           \A j \in Job : Locks(j)'
    PROVE  IInv'
<1>1. TypeOK'
    BY DEF IInv, TypeOK
<1>2. \A j \in Job : Threads(j)' /\ Books(j)'
    BY DEF IInv, Threads, Books, SlotFree, Renting, Exists, Alive
<1>3. Ownership'
    BY DEF IInv, Ownership, Owns, InHand, InUse
<1>4. NothingForgotten'
    BY DEF IInv, NothingForgotten, Remembered, InHand, Exists, Stranded, Alive
<1>5. RecoveryAlone'
    BY DEF RecoveryAlone
<1> QED
    BY <1>1, <1>2, <1>3, <1>4, <1>5 DEF IInv

LEMMA SweepSelectsStep ==
    ASSUME IInv, NEW w \in Sweeper, SweepSelects(w)
    PROVE  IInv'
<1> DEFINE due == {j \in Job : Due(j) /\ Free(j)}
<1>1. /\ recovering = {} /\ UNCHANGED <<row, run, vast, recovering, faults>>
      /\ sweep' = [j \in Job |-> IF j \in due THEN [by |-> w, verdict |-> "todo"] ELSE sweep[j]]
    BY DEF SweepSelects, Serving
<1>2. sweep' \in [Job -> Sweep] /\ faults' \in 0 .. MaxFaults
    BY <1>1 DEF IInv, TypeOK, Sweep
<1>3. ASSUME NEW j \in Job
      PROVE  Locks(j)'
    <2>1. CASE j \in due
        BY <1>1, <2>1, NoneIsNoInstance DEF Locks, Due, Exists
    <2>2. CASE j \notin due
        BY <1>1, <2>2 DEF IInv, Locks, Exists, Alive
    <2> QED BY <2>1, <2>2
<1> QED
    BY <1>1, <1>2, <1>3, SweepLocksStep

LEMMA SweepAbortsStep ==
    ASSUME IInv, NEW w \in Sweeper, SweepAborts(w)
    PROVE  IInv'
<1>1. /\ LockedBy(w) # {} /\ UNCHANGED <<row, run, vast, recovering>> /\ Fault
      /\ sweep' = [j \in Job |-> IF sweep[j].by = w THEN Unlocked ELSE sweep[j]]
    BY DEF SweepAborts
<1>2. sweep' \in [Job -> Sweep] /\ faults' \in 0 .. MaxFaults
    BY <1>1, VastAssumption DEF IInv, TypeOK, Sweep, Unlocked, Fault
<1>3. recovering = {}
    BY <1>1, NoneIsNoInstance DEF IInv, RecoveryAlone, LockedBy, Unlocked
<1>4. \A j \in Job : Locks(j)'
    BY <1>1 DEF IInv, Locks, Exists, Alive, Unlocked
<1> QED
    BY <1>1, <1>2, <1>3, <1>4, SweepLocksStep

LEMMA SweepTriesStep ==
    ASSUME IInv, NEW w \in Sweeper, NEW j \in Job, SweepTries(w, j)
    PROVE  IInv'
<1>1. TypeOK /\ Threads(j) /\ Books(j) /\ Locks(j)
    BY DEF IInv
<1> DEFINE i == row[j].id
<1>2. /\ sweep[j] = [by |-> w, verdict |-> "todo"]
      /\ UNCHANGED <<row, run, recovering, faults>>
    BY DEF SweepTries
<1>3. i \in Instance
    BY <1>1, <1>2, NoneIsNoInstance DEF Locks, Books, TypeOK, Row
<1>4. PICK v \in {"cleared", "failed"} :
          /\ sweep' = [sweep EXCEPT ![j].verdict = v]
          /\ vast' \in [Instance -> Contract] /\ Touches(i)
          /\ v = "cleared" => vast'[i].state = "gone"
    <2>1. CASE Confirm(i) /\ sweep' = [sweep EXCEPT ![j].verdict = "cleared"]
        BY <1>1, <1>3, <2>1, ConfirmEffect
    <2>2. CASE Unconfirmed(i, FALSE) /\ sweep' = [sweep EXCEPT ![j].verdict = "failed"]
        BY <1>1, <1>3, <2>2, UnconfirmedEffect
    <2> QED BY <2>1, <2>2 DEF SweepTries
<1>5. /\ sweep' \in [Job -> Sweep] /\ sweep'[j].by = w /\ sweep'[j].verdict = v
      /\ \A k \in Job \ {j} : sweep'[k] = sweep[k]
    BY <1>1, <1>2, <1>4 DEF TypeOK, Sweep
<1>6. \A k \in Instance : ~Alive(k) => ~Alive(k)'
    BY <1>1, <1>3, <1>4, TouchGrows
<1>7. Threads(j)'
    BY <1>1, <1>2 DEF Threads
<1>8. Books(j)'
    <2>1. SlotFree(j) => SlotFree(j)'
        BY <1>2, <1>3, <1>6 DEF SlotFree, Alive
    <2>2. Renting(j)' <=> Renting(j)
        BY <1>2 DEF Renting
    <2> QED BY <1>1, <1>2, <2>1, <2>2 DEF Books, Exists
<1>9. Locks(j)'
    <2>1. Exists(j) /\ row[j].failed = "ripe" /\ w # None
        BY <1>1, <1>2, NoneIsNoInstance DEF Locks
    <2> QED BY <1>2, <1>4, <1>5, <2>1 DEF Locks, Exists, Alive
<1>10. ASSUME NEW k \in Instance
      PROVE  /\ Owns(j, k)' <=> Owns(j, k)
             /\ InUse(j, k)' <=> InUse(j, k)
             /\ Remembered(j, k)' <=> Remembered(j, k)
    BY <1>2 DEF Owns, InUse, Remembered, InHand, Exists, Stranded
<1>11. recovering = {}
    BY <1>2, NoneIsNoInstance DEF IInv, RecoveryAlone, Unlocked
<1>12. /\ row[j] \in Row /\ row' = [row EXCEPT ![j] = row[j]]
       /\ run[j] \in Run /\ run' = [run EXCEPT ![j] = run[j]]
       /\ faults' \in 0 .. MaxFaults /\ RecoveryAlone' /\ recovering' \subseteq Job
    BY <1>1, <1>2, <1>11 DEF TypeOK, RecoveryAlone
<1> HIDE DEF i
<1> QED
    BY <1>3, <1>4, <1>5, <1>7, <1>8, <1>9, <1>10, <1>12, PlainStep

LEMMA SweepCommitsStep ==
    ASSUME IInv, NEW w \in Sweeper, SweepCommits(w)
    PROVE  IInv'
<1> DEFINE f(j) == IF sweep[j].verdict = "cleared" THEN "no" ELSE "fresh"
<1>1. TypeOK /\ \A j \in Job : Threads(j) /\ Books(j) /\ Locks(j)
    BY DEF IInv
<1>2. /\ LockedBy(w) # {}
      /\ row' = [j \in Job |-> IF sweep[j].by # w THEN row[j] ELSE [row[j] EXCEPT !.failed = f(j)]]
      /\ sweep' = [j \in Job |-> IF sweep[j].by = w THEN Unlocked ELSE sweep[j]]
      /\ UNCHANGED <<run, vast, recovering, faults>>
    BY DEF SweepCommits
<1>3. recovering = {}
    BY <1>2, NoneIsNoInstance DEF IInv, RecoveryAlone, LockedBy, Unlocked
<1>4. ASSUME NEW j \in Job
      PROVE  /\ row'[j] \in Row /\ row'[j].id = row[j].id /\ row'[j].status = row[j].status
             /\ sweep[j].by # w => row'[j] = row[j] /\ sweep'[j] = sweep[j]
             /\ sweep[j].by = w =>
                    /\ sweep'[j] = Unlocked
                    /\ Exists(j) /\ row[j].failed = "ripe" /\ row[j].id # None
                    /\ row'[j].failed = f(j)
                    /\ row'[j].failed \in {"no", "fresh"}
                    /\ row'[j].failed = "no" => ~Alive(row[j].id)
    <2>1. row[j] \in Row /\ f(j) \in {"no", "fresh"}
        BY <1>1 DEF TypeOK
    <2>2. CASE sweep[j].by # w
        BY <1>2, <2>1, <2>2
    <2>3. CASE sweep[j].by = w
        <3>1. row'[j] = [row[j] EXCEPT !.failed = f(j)] /\ sweep'[j] = Unlocked
            BY <1>2, <2>3
        <3>2. /\ row'[j] \in Row /\ row'[j].id = row[j].id
              /\ row'[j].status = row[j].status /\ row'[j].failed = f(j)
            BY <2>1, <3>1 DEF Row
        <3>3. Exists(j) /\ row[j].failed = "ripe" /\ row[j].id # None
            BY <1>1, <2>3, NoneIsNoInstance DEF Locks, Books
        <3>4. row'[j].failed = "no" => ~Alive(row[j].id)
            BY <1>1, <3>2 DEF Locks
        <3> QED BY <2>1, <2>3, <3>1, <3>2, <3>3, <3>4
    <2> QED BY <2>2, <2>3
<1> HIDE DEF f
<1>5. TypeOK'
    <2>1. DOMAIN row' = Job /\ row' = [j \in Job |-> row'[j]]
        BY <1>2
    <2>2. row' \in [Job -> Row]
        BY <1>4, <2>1
    <2>3. sweep' \in [Job -> Sweep]
        BY <1>1, <1>2 DEF TypeOK, Sweep, Unlocked
    <2> QED BY <1>1, <1>2, <2>2, <2>3 DEF TypeOK
<1>6. ASSUME NEW j \in Job
      PROVE  Threads(j)' /\ Books(j)' /\ Locks(j)'
    <2>1. Threads(j)'
        BY <1>1, <1>2 DEF Threads
    <2>2. CASE sweep[j].by # w
        BY <1>1, <1>2, <1>4, <2>1, <2>2 DEF Books, SlotFree, Renting, Exists, Alive, Locks
    <2>3. CASE sweep[j].by = w
        <3>1. ~SlotFree(j) /\ (Renting(j)' <=> Renting(j)) /\ (Exists(j)' <=> Exists(j))
            BY <1>2, <1>4, <2>3 DEF SlotFree, Renting, Exists
        <3>2. Books(j)'
            BY <1>1, <1>2, <1>4, <2>3, <3>1 DEF Books
        <3>3. Locks(j)'
            BY <1>4, <2>3 DEF Locks, Unlocked
        <3> QED BY <2>1, <3>2, <3>3
    <2> QED BY <2>2, <2>3
<1>7. Ownership'
    BY <1>2, <1>4 DEF IInv, Ownership, Owns, InHand, InUse
<1>8. ASSUME NEW i \in Instance, Alive(i)', ~vast'[i].lost
      PROVE  \E j \in Job : Remembered(j, i)'
    <2>1. PICK j \in Job : Remembered(j, i)
        BY <1>2, <1>8 DEF IInv, NothingForgotten, Alive
    <2>2. Remembered(j, i)'
        BY <1>2, <1>4, <1>8, <2>1 DEF Remembered, InHand, Exists, Stranded, Alive
    <2> QED BY <2>2
<1>9. NothingForgotten' /\ RecoveryAlone'
    BY <1>2, <1>3, <1>8 DEF NothingForgotten, RecoveryAlone
<1> QED
    BY <1>5, <1>6, <1>7, <1>9 DEF IInv

--------------------------------------------------------------------------------
(* Reaper, restart, and the step relation *)

LEMMA VastStep ==
    ASSUME IInv, UNCHANGED <<row, run, sweep, recovering, faults>>,
           vast' \in [Instance -> Contract], VastGrows,
           \A i \in Instance : (Alive(i)' => Alive(i)) /\ (vast[i].lost => vast'[i].lost),
           \A j \in Job, i \in Instance : vast'[i].overdue => ~InUse(j, i)
    PROVE  IInv'
<1>1. TypeOK'
    BY DEF IInv, TypeOK
<1>2. \A j \in Job : Local(j)'
    BY LocalFrame DEF Untouched
<1>3. \A j \in Job, i \in Instance :
          /\ Owns(j, i)' <=> Owns(j, i)
          /\ InUse(j, i)' <=> InUse(j, i)
          /\ Remembered(j, i)' <=> Remembered(j, i)
    BY DEF Owns, InUse, Remembered, InHand, Exists, Stranded
<1>4. Ownership'
    BY <1>3 DEF IInv, Ownership, VastGrows
<1>5. NothingForgotten'
    BY <1>3 DEF IInv, NothingForgotten
<1>6. RecoveryAlone'
    BY DEF IInv, RecoveryAlone
<1> QED
    BY <1>1, <1>2, <1>4, <1>5, <1>6 DEF IInv, Local

LEMMA ReaperSteps ==
    ASSUME IInv, NEW i \in Instance, Ages(i) \/ Reap(i)
    PROVE  IInv'
<1>1. TypeOK /\ UNCHANGED <<row, run, sweep, recovering, faults>>
    BY DEF IInv, Ages, Reap
<1>2. CASE Ages(i)
    <2>1. /\ vast' \in [Instance -> Contract] /\ \A j \in Job : ~InUse(j, i)
          /\ \A k \in Instance : /\ vast'[k].state = vast[k].state
                                 /\ vast'[k].lost = vast[k].lost
                                 /\ k # i => vast'[k] = vast[k]
        BY <1>1, <1>2 DEF Ages, TypeOK, Contract
    <2>2. \A j \in Job, k \in Instance : vast'[k].overdue => ~InUse(j, k)
        BY <2>1 DEF IInv, Ownership
    <2> QED BY <1>1, <2>1, <2>2, VastStep DEF VastGrows, Alive
<1>3. CASE Reap(i)
    <2>1. vast' \in [Instance -> Contract] /\ Touches(i)
        BY <1>1, <1>3 DEF Reap, TypeOK, Contract, Touches
    <2>2. \A j \in Job, k \in Instance : vast'[k].overdue => ~InUse(j, k)
        BY <1>1, <2>1, TouchGrows DEF IInv, Ownership
    <2> QED BY <1>1, <2>1, <2>2, VastStep, TouchGrows
<1> QED BY <1>2, <1>3

LEMMA RestartStep ==
    ASSUME IInv, Restart
    PROVE  IInv'
<1>1. TypeOK /\ \A j \in Job : Books(j)
    BY DEF IInv
<1>2. /\ Fault /\ UNCHANGED row
      /\ run' = [j \in Job |-> NoRun] /\ sweep' = [j \in Job |-> Unlocked]
      /\ vast' = [i \in Instance |-> [vast[i] EXCEPT !.lost = vast[i].lost \/ ForgottenAtRestart(i)]]
      /\ recovering' = {j \in Job : row[j].status = "active"}
    BY DEF Restart
<1>3. NoRun \in Run /\ Unlocked \in Sweep
    BY DEF NoRun, Run, Unlocked, Sweep, Worker, Helper
<1>4. ASSUME NEW i \in Instance
      PROVE  /\ vast'[i] \in Contract
             /\ vast'[i].state = vast[i].state /\ vast'[i].overdue = vast[i].overdue
             /\ vast[i].lost => vast'[i].lost
             /\ ForgottenAtRestart(i) => vast'[i].lost
    <2> DEFINE lost == vast[i].lost \/ ForgottenAtRestart(i)
    <2>1. vast[i] \in Contract /\ vast'[i] = [vast[i] EXCEPT !.lost = lost]
        BY <1>1, <1>2 DEF TypeOK
    <2>2. lost \in BOOLEAN
        BY <2>1 DEF Contract, ForgottenAtRestart
    <2>3. (vast[i].lost \/ ForgottenAtRestart(i)) => lost = TRUE
        BY <2>2
    <2> HIDE DEF lost
    <2> QED BY <2>1, <2>2, <2>3 DEF Contract
<1>5. TypeOK'
    <2>1. vast' = [i \in Instance |-> vast'[i]]
        BY <1>2
    <2>2. vast' \in [Instance -> Contract]
        BY <1>4, <2>1
    <2>3. run' \in [Job -> Run] /\ sweep' \in [Job -> Sweep] /\ recovering' \subseteq Job
        BY <1>2, <1>3
    <2>4. row' \in [Job -> Row] /\ faults' \in 0 .. MaxFaults
        BY <1>1, <1>2, VastAssumption DEF TypeOK, Fault
    <2> QED BY <2>2, <2>3, <2>4 DEF TypeOK
<1>6. ASSUME NEW j \in Job
      PROVE  Threads(j)' /\ Books(j)' /\ Locks(j)'
    <2>1. run'[j] = NoRun /\ sweep'[j] = Unlocked
        BY <1>2
    <2>2. Threads(j)' /\ Locks(j)'
        BY <2>1 DEF Threads, Locks, NoRun, Unlocked
    <2>3. SlotFree(j) => SlotFree(j)'
        BY <1>1, <1>2, <1>4 DEF SlotFree, Alive, TypeOK, Row
    <2>4. Books(j)'
        BY <1>1, <1>2, <2>1, <2>3, NoneIsNoInstance DEF Books, Renting, NoRun
    <2> QED BY <2>2, <2>4
<1>7. \A j \in Job, i \in Instance :
          ~InHand(j, i)' /\ ~InUse(j, i)' /\ (Owns(j, i)' => Owns(j, i))
    BY <1>2, NoneIsNoInstance DEF InHand, InUse, Owns, NoRun
<1>8. Ownership'
    BY <1>4, <1>7 DEF IInv, Ownership
<1>9. ASSUME NEW i \in Instance, Alive(i)', ~vast'[i].lost
      PROVE  \E j \in Job : Remembered(j, i)'
    <2>1. PICK j \in Job : Remembered(j, i)
        BY <1>4, <1>9 DEF IInv, NothingForgotten, Alive
    <2>2. run'[j] = NoRun /\ row'[j] = row[j]
        BY <1>2
    <2>3. CASE InHand(j, i)
        <3>1. row[j].status = "active" /\ row[j].id = i
            BY <1>4, <1>9, <2>3 DEF ForgottenAtRestart
        <3> QED BY <2>2, <3>1, NoneIsNoInstance DEF Remembered, Stranded, NoRun
    <2>4. CASE ~InHand(j, i)
        BY <2>1, <2>2, <2>4 DEF Remembered, Stranded, Exists, NoRun
    <2> QED BY <2>3, <2>4
<1>10. NothingForgotten' /\ RecoveryAlone'
    BY <1>2, <1>9 DEF NothingForgotten, RecoveryAlone
<1> QED
    BY <1>5, <1>6, <1>8, <1>10 DEF IInv

LEMMA RecoveryFailsStep ==
    ASSUME IInv, RecoveryFails
    PROVE  IInv'
<1>1. /\ UNCHANGED <<row, run, vast, sweep>> /\ Fault /\ recovering' = {}
    BY DEF RecoveryFails
<1>2. TypeOK' /\ RecoveryAlone'
    BY <1>1, VastAssumption DEF IInv, TypeOK, RecoveryAlone, Fault
<1>3. \A j \in Job : Local(j)'
    BY <1>1, LocalFrame DEF Untouched, VastGrows, Alive
<1>4. Ownership'
    BY <1>1 DEF IInv, Ownership, Owns, InUse, InHand
<1>5. NothingForgotten'
    BY <1>1 DEF IInv, NothingForgotten, Remembered, InHand, Exists, Stranded, Alive
<1> QED
    BY <1>2, <1>3, <1>4, <1>5 DEF IInv, Local

LEMMA InitIInv == Init => IInv
<1> SUFFICES ASSUME Init PROVE IInv
    OBVIOUS
<1>1. TypeOK
    BY VastAssumption DEF Init, TypeOK, Row, Run, NoRun, Worker, Helper, Contract, Sweep, Unlocked
<1>2. \A j \in Job : Threads(j) /\ Books(j) /\ Locks(j)
    BY NoneIsNoInstance
       DEF Init, Threads, Books, Locks, SlotFree, Renting, NoRun, Unlocked
<1>3. Ownership
    BY NoneIsNoInstance DEF Init, Ownership, Owns, InHand, InUse, NoRun
<1>4. NothingForgotten /\ RecoveryAlone
    BY DEF Init, NothingForgotten, RecoveryAlone, Alive
<1> QED
    BY <1>1, <1>2, <1>3, <1>4 DEF IInv

LEMMA StutterStep ==
    ASSUME IInv, UNCHANGED vars
    PROVE  IInv'
BY DEF vars, IInv, TypeOK, Threads, Books, Locks, SlotFree, Renting, Ownership, Owns, InUse,
       InHand, RecoveryAlone, NothingForgotten, Remembered, Exists, Stranded, Alive

LEMMA StepKeepsIInv == IInv /\ [Next]_vars => IInv'
<1> SUFFICES ASSUME IInv, [Next]_vars PROVE IInv'
    OBVIOUS
<1>1. ASSUME NEW j \in Job, HelperStep(j)
      PROVE  IInv'
    BY <1>1, HelperMoves, CreateStep, CreateUnansweredStep, RecordCreatedStep,
       RecordCreatedRaisesStep, AdoptStep, HelperTakesStep, HelperDestroysStep DEF HelperStep
<1>2. ASSUME NEW j \in Job, WorkerStep(j)
      PROVE  IInv'
    BY <1>2, ClaimStep, TranscribeSteps, TakeResultStep, TimeOutStep, WorkerTakesStep,
       WorkerDestroysStep, SettleStep, BeginLastChanceStep, LastChanceStep DEF WorkerStep
<1>3. ASSUME NEW j \in Job,
             DeadlinePasses(j) \/ FloorPasses(j) \/ Cancel(j) \/ Delete(j) \/ RecoverRow(j)
      PROVE  IInv'
    BY <1>3, DeadlinePassesStep, FloorPassesStep, CancelStep, DeleteStep, RecoverRowStep
<1>4. ASSUME NEW w \in Sweeper,
             \/ SweepSelects(w) \/ SweepCommits(w) \/ SweepAborts(w)
             \/ \E j \in Job : SweepTries(w, j)
      PROVE  IInv'
    BY <1>4, SweepSelectsStep, SweepCommitsStep, SweepAbortsStep, SweepTriesStep
<1> QED
    BY <1>1, <1>2, <1>3, <1>4, ReaperSteps, RestartStep, RecoveryFailsStep, StutterStep DEF Next

--------------------------------------------------------------------------------

\* Every reachable state satisfies the inductive invariant: threads, row, lock and
\* contract of every job agree on who destroys which instance.
THEOREM VastInvariant == Spec => []IInv
BY InitIInv, StepKeepsIInv, PTL DEF Spec

\* The variables keep their types.
THEOREM VastTypeCorrect == Spec => []TypeOK
<1>1. IInv => TypeOK
    BY DEF IInv
<1> QED BY <1>1, VastInvariant, PTL

\* However threads, sweep, recovery and operators interleave, an instance that bills is
\* on somebody's list to be destroyed, unless one of the named faults lost it.
THEOREM NoInstanceIsForgotten == Spec => []NothingForgotten
<1>1. IInv => NothingForgotten
    BY DEF IInv
<1> QED BY <1>1, VastInvariant, PTL

\* recover_interrupted_jobs never puts back a job whose instance may still run.
THEOREM QueuedJobsHoldNone == Spec => []QueuedHoldsNone
<1>1. IInv => QueuedHoldsNone
    BY DEF IInv, QueuedHoldsNone, Books, SlotFree
<1> QED BY <1>1, VastInvariant, PTL

--------------------------------------------------------------------------------
(* Action properties *)

LEMMA HelpsChangesNoRow ==
    ASSUME NEW j \in Job, NEW from, NEW to, Helps(j, from, to)
    PROVE  UNCHANGED <<row, vast>>
BY DEF Helps

\* Only a run that has just rented an instance changes the id on its row.
LEMMA IdsKept ==
    ASSUME IInv, [Next]_vars, \A j \in Job : ~RecordCreated(j), NEW k \in Job
    PROVE  row'[k].id = row[k].id
<1>1. TypeOK
    BY DEF IInv
<1>2. ASSUME NEW j \in Job, HelperStep(j)
      PROVE  row'[k].id = row[k].id
    <2>1. CASE HelperDestroys(j)
        <3>1. run[j].taken # None
            BY <2>1 DEF IInv, Threads, HelperDestroys
        <3>2. PICK ok \in BOOLEAN : IF ok THEN DestroySucceeds(j) ELSE DestroyFails(j)
            BY <2>1 DEF HelperDestroys
        <3>3. PICK rw \in Row : row' = [row EXCEPT ![j] = rw] /\ rw.id = row[j].id
            BY <3>1, <3>2, DestroyEffect
        <3> QED BY <1>1, <3>3 DEF TypeOK
    <2>2. CASE ~HelperDestroys(j)
        BY <1>2, <2>2, HelpsChangesNoRow
           DEF HelperStep, Ask, Create, CreateUnanswered, CreateRefused, GiveUp,
               RecordCreatedRaises, Adopt, Ready, NotReady, WaitEscapes, Used, HelperTakes
    <2> QED BY <2>1, <2>2
<1>3. ASSUME NEW j \in Job, WorkerStep(j)
      PROVE  row'[k].id = row[k].id
    <2>1. CASE WorkerDestroys(j)
        <3>1. run[j].taken # None
            BY <2>1 DEF IInv, Threads, WorkerDestroys
        <3>2. PICK ok \in BOOLEAN : IF ok THEN DestroySucceeds(j) ELSE DestroyFails(j)
            BY <2>1 DEF WorkerDestroys
        <3>3. PICK rw \in Row : row' = [row EXCEPT ![j] = rw] /\ rw.id = row[j].id
            BY <3>1, <3>2, DestroyEffect
        <3> QED BY <1>1, <3>3 DEF TypeOK
    <2>2. CASE Claim(j)
        BY <1>1, <2>2 DEF Claim, TypeOK, Row
    <2>3. CASE row' = Active(j)
        BY <1>1, <2>3 DEF Active, TypeOK, Row
    <2>4. CASE \E f \in {"no", "fresh", "ripe"} : row' = Settled(j, f)
        BY <1>1, <2>4 DEF Settled, TypeOK, Row
    <2>5. CASE row' = row
        BY <2>5
    <2>6. row[j].failed \in {"no", "fresh", "ripe"}
        BY <1>1 DEF TypeOK, Row
    <2> QED
        BY <1>3, <2>1, <2>2, <2>3, <2>4, <2>5, <2>6
           DEF WorkerStep, Transcribe, NoTranscription, TakeResult, TimeOut, WorkerTakes,
               Settle, BeginLastChance, LastChance
<1>4. ASSUME NEW j \in Job,
             DeadlinePasses(j) \/ FloorPasses(j) \/ Cancel(j) \/ Delete(j) \/ RecoverRow(j)
      PROVE  row'[k].id = row[k].id
    <2>1. CASE DeadlinePasses(j)
        BY <2>1 DEF DeadlinePasses
    <2>2. CASE FloorPasses(j)
        BY <1>1, <2>2 DEF FloorPasses, TypeOK, Row
    <2>3. CASE Cancel(j) \/ Delete(j)
        BY <1>1, <2>3 DEF Cancel, Delete, TypeOK, Row
    <2>4. CASE RecoverRow(j)
        <3>1. PICK st, f : row' = Recovered(j, st, f)
            BY <2>4 DEF RecoverRow
        <3> QED BY <1>1, <3>1 DEF Recovered, TypeOK, Row
    <2> QED BY <1>4, <2>1, <2>2, <2>3, <2>4
<1>5. ASSUME NEW w \in Sweeper, SweepCommits(w)
      PROVE  row'[k].id = row[k].id
    <2>1. row'[k] = row[k] \/ \E f \in {"no", "fresh"} : row'[k] = [row[k] EXCEPT !.failed = f]
        BY <1>5 DEF SweepCommits
    <2> QED BY <1>1, <2>1 DEF TypeOK, Row
<1>6. ASSUME NEW w \in Sweeper,
             SweepSelects(w) \/ SweepAborts(w) \/ \E j \in Job : SweepTries(w, j)
      PROVE  row'[k].id = row[k].id
    BY <1>6 DEF SweepSelects, SweepAborts, SweepTries
<1>7. ASSUME NEW i \in Instance, Ages(i) \/ Reap(i)
      PROVE  row'[k].id = row[k].id
    BY <1>7 DEF Ages, Reap
<1>8. CASE Restart \/ RecoveryFails \/ UNCHANGED vars
    BY <1>8 DEF Restart, RecoveryFails, vars
<1> QED
    BY <1>2, <1>3, <1>4, <1>5, <1>6, <1>7, <1>8 DEF Next

\* A run records its instance on a free slot only; every other step keeps the ids.
THEOREM SlotIsKept == Spec => SlotKept
<1>1. IInv /\ [Next]_vars =>
          \A j \in Job : row[j].id # None /\ Alive(row[j].id) => row'[j].id = row[j].id
    <2> SUFFICES ASSUME IInv, [Next]_vars, NEW j \in Job, row[j].id # None, Alive(row[j].id)
                 PROVE  row'[j].id = row[j].id
        OBVIOUS
    <2>1. CASE \A k \in Job : ~RecordCreated(k)
        BY <2>1, IdsKept
    <2>2. ASSUME NEW k \in Job, RecordCreated(k)
          PROVE  row'[j].id = row[j].id
        <3>1. run[k].helper = "record" /\ (Exists(k) => SlotFree(k))
            BY <2>2, HoldsNothing DEF RecordCreated
        <3>2. CASE j = k
            BY <2>2, <3>1, <3>2 DEF RecordCreated, SlotFree
        <3>3. CASE j # k
            BY <2>2, <3>3 DEF RecordCreated, Recorded, IInv, TypeOK
        <3> QED BY <3>2, <3>3
    <2> QED BY <2>1, <2>2
<1> QED BY <1>1, VastInvariant, PTL DEF Spec, SlotKept

\* No one is about to destroy an instance in use.
LEMMA InUseIsNobodysPrey ==
    ASSUME IInv, NEW j \in Job, NEW i \in Instance, InUse(j, i)
    PROVE  /\ recovering = {} /\ ~vast[i].overdue /\ vast[i].state # "free"
           /\ \A k \in Job : /\ run[k].taken # i
                             /\ Exists(k) /\ row[k].failed # "no" => row[k].id # i
                             /\ run[k].worker = "lastChance" => row[k].id # i
<1>1. Threads(j) /\ Books(j) /\ TypeOK
    BY DEF IInv
<1>2. /\ run[j].helper \in {"record", "adopt", "wait", "use"}
      /\ run[j].new = i \/ run[j].ctx = i
    BY <1>1, NoneIsNoInstance DEF InUse, Threads
<1>3. InHand(j, i) /\ Owns(j, i)
    BY <1>2 DEF InUse, InHand, Owns
<1>4. recovering = {} /\ ~vast[i].overdue /\ vast[i].state # "free"
    BY <1>2, <1>3, ThreadAlone DEF IInv, Ownership
<1>5. run[j].taken # i
    BY <1>1, <1>2, HoldsNothing, NoneIsNoInstance DEF Threads
<1>6. Exists(j) /\ row[j].failed # "no" => row[j].id # i
    <2>1. CASE run[j].helper = "record"
        BY <2>1, HoldsNothing DEF SlotFree
    <2>2. CASE run[j].helper # "record"
        BY <1>1, <1>2, <2>2, NoneIsNoInstance DEF Books, Threads
    <2> QED BY <2>1, <2>2
<1>7. run[j].worker # "lastChance"
    BY <1>1, <1>2 DEF Threads
<1>8. \A k \in Job : (run[k].taken = i \/ row[k].id = i) => k = j
    BY <1>3 DEF IInv, Ownership, Owns, InHand
<1> QED
    BY <1>4, <1>5, <1>6, <1>7, <1>8

LEMMA OthersUntouched ==
    ASSUME NEW i \in Instance, NEW k \in Instance, Touches(k), k # i
    PROVE  vast'[i] = vast[i]
BY DEF Touches

LEMMA InUseKept ==
    ASSUME IInv, [Next]_vars, NEW j \in Job, NEW i \in Instance,
           InUse(j, i), Alive(i), ~vast[i].dear
    PROVE  vast'[i].state = "alive"
<1>1. TypeOK /\ vast[i].state = "alive"
    BY DEF IInv, Alive
<1>2. /\ recovering = {} /\ ~vast[i].overdue
      /\ \A k \in Job : /\ run[k].taken # i
                        /\ Exists(k) /\ row[k].failed # "no" => row[k].id # i
                        /\ run[k].worker = "lastChance" => row[k].id # i
    BY InUseIsNobodysPrey
<1>3. ASSUME NEW k \in Job, run[k].taken # None,
             NEW ok \in BOOLEAN, IF ok THEN DestroySucceeds(k) ELSE DestroyFails(k)
      PROVE  vast'[i].state = "alive"
    <2>1. run[k].taken \in Instance /\ Touches(run[k].taken)
        BY <1>3, DestroyEffect
    <2> QED BY <1>1, <1>2, <2>1, OthersUntouched
<1>4. ASSUME NEW k \in Instance, \E x : vast' = [vast EXCEPT ![k].lost = x]
      PROVE  vast'[i].state = "alive"
    BY <1>1, <1>4 DEF TypeOK, Contract
<1>5. ASSUME NEW k \in Instance, NEW dear \in BOOLEAN, NEW lost \in BOOLEAN,
             Rented(k, dear, lost)
      PROVE  vast'[i].state = "alive"
    BY <1>1, <1>5 DEF Rented, TypeOK, Contract
<1>6. ASSUME NEW k \in Job, HelperStep(k)
      PROVE  vast'[i].state = "alive"
    <2>1. CASE HelperDestroys(k)
        <3>1. run[k].taken # None
            BY <2>1 DEF IInv, Threads, HelperDestroys
        <3> QED BY <1>3, <2>1, <3>1 DEF HelperDestroys
    <2>2. CASE Create(k) \/ CreateUnanswered(k)
        BY <1>5, <2>2 DEF Create, CreateUnanswered
    <2>3. CASE RecordCreatedRaises(k)
        <3>1. run[k].new \in Instance
            BY <2>3 DEF IInv, TypeOK, Run, Threads, RecordCreatedRaises
        <3> QED BY <1>4, <2>3, <3>1 DEF RecordCreatedRaises
    <2>4. CASE vast' = vast
        BY <1>1, <2>4
    <2> QED
        BY <1>6, <2>1, <2>2, <2>3, <2>4, HelpsChangesNoRow
           DEF HelperStep, Ask, CreateRefused, GiveUp, RecordCreated, Adopt, Ready,
               NotReady, WaitEscapes, Used, HelperTakes
<1>7. ASSUME NEW k \in Job, WorkerStep(k)
      PROVE  vast'[i].state = "alive"
    <2>1. CASE WorkerDestroys(k)
        <3>1. run[k].taken # None
            BY <2>1 DEF IInv, Threads, WorkerDestroys
        <3>2. \E ok \in BOOLEAN : IF ok THEN DestroySucceeds(k) ELSE DestroyFails(k)
            BY <2>1 DEF WorkerDestroys
        <3> QED BY <1>3, <3>1, <3>2
    <2>2. CASE LastChance(k)
        <3>1. row[k].id \in Instance /\ row[k].id # i
            BY <1>1, <1>2, <2>2 DEF LastChance, IInv, Books, TypeOK, Row
        <3>2. (~Exists(k)) \in BOOLEAN
            OBVIOUS
        <3>3. Touches(row[k].id)
            BY <1>1, <2>2, <3>1, <3>2, ConfirmEffect, UnconfirmedEffect DEF LastChance
        <3> QED BY <1>1, <3>1, <3>3, OthersUntouched
    <2>3. CASE TakeResult(k) /\ vast' # vast
        <3>1. run[k].ctx \in Instance /\ vast' = [vast EXCEPT ![run[k].ctx].lost = TRUE]
            BY <1>1, <2>3 DEF TakeResult, TypeOK, Run
        <3> QED BY <1>4, <3>1
    <2>4. CASE vast' = vast
        BY <1>1, <2>4
    <2> QED
        BY <1>7, <2>1, <2>2, <2>3, <2>4
           DEF WorkerStep, Claim, Transcribe, NoTranscription, TimeOut, WorkerTakes,
               Settle, BeginLastChance
<1>8. ASSUME NEW k \in Job,
             DeadlinePasses(k) \/ FloorPasses(k) \/ Cancel(k) \/ Delete(k) \/ RecoverRow(k)
      PROVE  vast'[i].state = "alive"
    <2>1. CASE Cancel(k) \/ Delete(k)
        <3>1. CASE vast' = vast
            BY <1>1, <3>1
        <3>2. CASE vast' # vast
            <4>1. row[k].id \in Instance /\ vast' = [vast EXCEPT ![row[k].id].lost = TRUE]
                BY <1>1, <2>1, <3>2 DEF Cancel, Delete, Stranded, IInv, Books, TypeOK, Row
            <4> QED BY <1>4, <4>1
        <3> QED BY <3>1, <3>2
    <2>2. CASE DeadlinePasses(k) \/ FloorPasses(k)
        BY <1>1, <2>2 DEF DeadlinePasses, FloorPasses
    <2>3. ~RecoverRow(k)
        BY <1>2 DEF RecoverRow
    <2> QED BY <1>8, <2>1, <2>2, <2>3
<1>9. ASSUME NEW w \in Sweeper, NEW k \in Job, SweepTries(w, k)
      PROVE  vast'[i].state = "alive"
    <2>1. Exists(k) /\ row[k].failed = "ripe" /\ row[k].id \in Instance /\ row[k].id # i
        BY <1>1, <1>2, <1>9, NoneIsNoInstance DEF SweepTries, IInv, Locks, Books, TypeOK, Row
    <2>2. Touches(row[k].id)
        BY <1>1, <1>9, <2>1, ConfirmEffect, UnconfirmedEffect DEF SweepTries
    <2> QED BY <1>1, <2>1, <2>2, OthersUntouched
<1>10. ASSUME NEW w \in Sweeper, SweepSelects(w) \/ SweepCommits(w) \/ SweepAborts(w)
       PROVE  vast'[i].state = "alive"
    BY <1>1, <1>10 DEF SweepSelects, SweepCommits, SweepAborts
<1>11. ASSUME NEW k \in Instance, Ages(k) \/ Reap(k)
       PROVE  vast'[i].state = "alive"
    BY <1>1, <1>2, <1>11 DEF Ages, Reap, Reapable, TypeOK, Contract
<1>12. CASE Restart
    BY <1>1, <1>12 DEF Restart, TypeOK, Contract
<1>13. CASE RecoveryFails \/ UNCHANGED vars
    BY <1>1, <1>13 DEF RecoveryFails, vars
<1> QED
    BY <1>6, <1>7, <1>8, <1>9, <1>10, <1>11, <1>12, <1>13 DEF Next

\* An instance in use at a price under the reaper's is destroyed by nobody.
THEOREM InUseInstancesSurvive == Spec => InUseSurvives
<1>1. IInv /\ [Next]_vars =>
          \A j \in Job, i \in Instance :
              InUse(j, i) /\ Alive(i) /\ ~vast[i].dear => vast'[i].state = "alive"
    BY InUseKept
<1> QED BY <1>1, VastInvariant, PTL DEF Spec, InUseSurvives
================================================================================
