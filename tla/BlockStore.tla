----------------------------- MODULE BlockStore -----------------------------
(***************************************************************************)
(* The records of a block on disk (schemat/db/store.js: MemoryStore,       *)
(* JsonStore; schemat/db/block.js: __start__, __stop__, _clear_files).     *)
(*                                                                         *)
(* A store keeps all records in memory and writes the whole file some time *)
(* after a change: the first change sets a timer, those that follow join   *)
(* it.  A restart of the block's agent opens a new store from the file,    *)
(* and close() of the old one does nothing: its timers go on, and write    *)
(* the records of the old store over the file.  The end of the process     *)
(* drops all timers.                                                       *)
(***************************************************************************)
EXTENDS Naturals, Sequences, SequencesExt, FiniteSets, FiniteSetsExt

CONSTANTS Keys, Values,
          None,         \* no bound, no limit
          MaxOpens,     \* bound: stores opened so far
          MaxWrites     \* bound: writes, deletions and removals

StoreAssumption == Keys \subseteq Nat /\ None \notin Nat /\ {MaxOpens, MaxWrites} \subseteq Nat

Absent == "absent"      \* no record of a key
Contents == [Keys -> Values \union {Absent}]
Empty == [k \in Keys |-> Absent]

VARIABLES file,     \* the records in the file, none if there is no file
          stores,   \* every store opened by this process, the last one is in use
          running,  \* the agent of the block is started
          answered, \* the records as the answers to put() and del() say
          early,    \* history: a store was left with a write that it had not saved
          opens, writes

vars == <<file, stores, running, answered, early, opens, writes>>

\* timers: number of setTimeout() calls outstanding; pending: _pending_flush.
Stores == [records : Contents, pending : BOOLEAN, timers : 0..MaxWrites]

TypeOK == /\ file \in Contents
          /\ stores \in Seq(Stores)
          /\ {running, early} \subseteq BOOLEAN
          /\ answered \in Contents
          /\ opens \in 0..MaxOpens /\ writes \in 0..MaxWrites

Init == /\ file = Empty
        /\ stores = <<>>
        /\ running = FALSE
        /\ answered = Empty
        /\ early = FALSE
        /\ opens = 0 /\ writes = 0

Current == stores[Len(stores)]
Unsaved == \E i \in 1..Len(stores) : stores[i].timers > 0

-----------------------------------------------------------------------------
\* __start__() of the block, also as the second half of a restart: open() loads
\* the file, and creates it if there is none.
Open == /\ opens < MaxOpens
        /\ opens' = opens + 1
        /\ running' = TRUE
        /\ stores' = Append(stores, [records |-> file, pending |-> FALSE, timers |-> 0])
        /\ early' = (early \/ Unsaved)
        /\ UNCHANGED <<file, answered, writes>>

\* flush(delay) after a change: the first one sets a timer.
Scheduled(s) == IF s.pending THEN s
                ELSE [s EXCEPT !.pending = TRUE, !.timers = @ + 1]

Write(records, scheduled) ==
    /\ running /\ writes < MaxWrites
    /\ writes' = writes + 1
    /\ stores' = [stores EXCEPT ![Len(stores)] =
                     LET s == [@ EXCEPT !.records = records]
                     IN  IF scheduled THEN Scheduled(s) ELSE s]
    /\ answered' = records
    /\ UNCHANGED <<file, running, early, opens>>

Put(k, v) == Write([Current.records EXCEPT ![k] = v], TRUE)

\* Mutant of Del: no flush after it.
Del_Unflushed(k) == /\ running /\ Current.records[k] # Absent
                    /\ Write([Current.records EXCEPT ![k] = Absent], FALSE)

\* A record that is not there is not deleted.
Del(k) == /\ running /\ Current.records[k] # Absent
          /\ Write([Current.records EXCEPT ![k] = Absent], TRUE)

\* _flush(): the whole file is written.
Save(i) == file' = stores[i].records

\* Mutant of Timer: _pending_flush stays set.
Timer_StaysPending(i) ==
    /\ stores[i].timers > 0
    /\ Save(i)
    /\ stores' = [stores EXCEPT ![i].timers = @ - 1]
    /\ UNCHANGED <<running, answered, early, opens, writes>>

Timer(i) == /\ stores[i].timers > 0
            /\ Save(i)
            /\ stores' = [stores EXCEPT ![i].pending = FALSE, ![i].timers = @ - 1]
            /\ UNCHANGED <<running, answered, early, opens, writes>>

\* erase(): clears the records and writes at once; a timer that was set stays.
Erase == /\ running /\ writes < MaxWrites
         /\ writes' = writes + 1
         /\ stores' = [stores EXCEPT ![Len(stores)] = [records |-> Empty, pending |-> FALSE,
                                                       timers |-> @.timers]]
         /\ file' = Empty
         /\ answered' = Empty
         /\ UNCHANGED <<running, early, opens>>

\* __stop__() of the block: close() does nothing.
Stop == /\ running
        /\ running' = FALSE
        /\ UNCHANGED <<file, stores, answered, early, opens, writes>>

\* _clear_files(): the block is uninstalled after it was stopped, or installed
\* again.  The timers are in other processes, or in this one.
Clear == /\ ~running /\ file # Empty
         /\ file' = Empty
         /\ answered' = Empty
         /\ early' = (early \/ Unsaved)
         /\ UNCHANGED <<stores, running, opens, writes>>

\* The process ends, by exit or by a crash.
End == /\ stores # <<>>
       /\ stores' = <<>>
       /\ running' = FALSE
       /\ early' = (early \/ Unsaved)
       /\ UNCHANGED <<file, answered, opens, writes>>

Next == \/ Open \/ Erase \/ Stop \/ Clear \/ End
        \/ \E k \in Keys : Del(k) \/ \E v \in Values : Put(k, v)
        \/ \E i \in 1..Len(stores) : Timer(i)

\* A timer that was set fires.
Fairness == \A i \in 1..MaxOpens : WF_vars(i \in 1..Len(stores) /\ Timer(i))
Spec == Init /\ [][Next]_vars /\ Fairness

-----------------------------------------------------------------------------
\* scan(): positions in the sorted list of keys.

Bounds == Keys \union {None}

\* Position of the first key that is at least (or, if strict, above) the bound,
\* counted from 0; `missing` if there is none.
Position(keys, bound, strict, missing) ==
    LET hits == {i \in 1..Len(keys) : keys[i] > bound \/ (~strict /\ keys[i] = bound)}
    IN  IF hits = {} THEN missing ELSE Min(hits) - 1

\* The keys from gt or gte up to lt or lte.  Of two bounds on one side the weaker
\* one is dropped.
Scan(records, gt, gte, lt, lte, limit) ==
    LET keys == SetToSortSeq({k \in Keys : records[k] # Absent}, <)
        byGt == gt # None /\ (gte = None \/ gt >= gte)
        byLt == lt # None /\ (lte = None \/ lt <= lte)
        start == IF byGt THEN Position(keys, gt, TRUE, Len(keys))
                 ELSE IF gte # None THEN Position(keys, gte, FALSE, Len(keys)) ELSE 0
        end == IF byLt THEN Position(keys, lt, FALSE, Len(keys))
               ELSE IF lte # None THEN Position(keys, lte, TRUE, Len(keys)) ELSE Len(keys)
        all == SubSeq(keys, start + 1, end)
    IN  IF limit = None \/ limit > Len(all) THEN all ELSE SubSeq(all, 1, limit)

-----------------------------------------------------------------------------
\* Unless some store was left with an unsaved write, a store in use holds what was
\* answered, and so does the file once no timer is outstanding (store.js:100-152).
NothingLost ==
    ~early => /\ running => Current.records = answered
              /\ ~Unsaved => file = answered

\* A change is saved, replaced, or the store is left before its timer.
ChangesAreSaved ==
    \A k \in Keys, v \in Values \union {Absent} :
        running /\ answered[k] = v ~> (file[k] = v \/ answered[k] # v \/ early)

\* scan() returns the keys within all its bounds in order, up to the limit
\* (store.js:68-138).
ScanIsRange ==
    running => \A gt, gte, lt, lte \in Bounds, limit \in {None, 1} :
        LET within == {k \in Keys : /\ Current.records[k] # Absent
                                    /\ gt # None => k > gt
                                    /\ gte # None => k >= gte
                                    /\ lt # None => k < lt
                                    /\ lte # None => k <= lte}
            sorted == SetToSortSeq(within, <)
        IN  Scan(Current.records, gt, gte, lt, lte, limit)
                = IF limit = None \/ sorted = <<>> THEN sorted ELSE SubSeq(sorted, 1, 1)
=============================================================================
