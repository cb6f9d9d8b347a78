---------------------------- MODULE ObjectCache ----------------------------
(* One process's copies of one web object: its entry in the registry's cache of objects, its cached record, and the loads
   and reloads on their way, while the record is changed in the database by this process and by others. The content of
   a record is its version. All that happens to the cache between two awaits is one function of the state `c` of the
   cache, composed as in the code: a registered change may evict, which may reload, which may read the cached record. *)
EXTENDS Integers, FiniteSets

CONSTANTS MaxVersion,   \* bound: writes of the record
          Slots,        \* bound: 1 .. Slots instances at a time
          MaxFailures,  \* bound: loads that fail
          MaxReloads    \* bound: reloads and refreshes asked for by the program

CacheAssumption == MaxVersion \in Nat /\ Slots \in Nat \ {0} /\ MaxFailures \in Nat /\ MaxReloads \in Nat

VARIABLES essential,    \* is the object one of schemat._essential
          db,           \* the version in the database
          c,            \* the cache: records, objects, _loading and the instances themselves
          notes,        \* changes made by this process on their way back to register_changes()
          latest,       \* version that was registered last
          newest,       \* newest version that was ever registered
          evictions,    \* was an instance evicted while a load was on its way
          failures, reloads
vars == <<essential, db, c, notes, latest, newest, evictions, failures, reloads>>

Gone    == MaxVersion + 1           \* the version that stands for the deletion of the record
Free    == [state |-> "free", data |-> 0, expired |-> FALSE, reload |-> FALSE, crossed |-> FALSE]
Stub    == [Free EXCEPT !.state = "stub", !.expired = TRUE]
Busy(x) == {i \in 1 .. Slots : x.inst[i].state \in {"asked", "answered", "starting"}}
Loaded(x) == x.obj # 0 /\ x.inst[x.obj].state = "active"
Served(x) == x.inst[x.obj].data

\* instances that nothing refers to are collected
Collect(x) == [x EXCEPT !.inst = [i \in 1 .. Slots |->
                  IF i \notin Busy(x) /\ i # x.obj /\ i # x.loading THEN Free ELSE x.inst[i]]]
FreeSlots(x) == {i \in 1 .. Slots : x.inst[i].state = "free"}
Room == Cardinality(FreeSlots(c)) >= 2      \* a reload takes one, and the look at an outdated object another
Slot(x) == CHOOSE i \in FreeSlots(x) : \A j \in FreeSlots(x) : i <= j

Init == /\ essential \in BOOLEAN /\ db = 1 /\ notes = {} /\ latest = 0 /\ newest = 0 /\ evictions = FALSE
        /\ failures = 0 /\ reloads = 0
        /\ c = [rec |-> 0, obj |-> 0, loading |-> 0, inst |-> [i \in 1 .. Slots |-> Free]]

----------------------------------------------------------------------------
(* The code between two awaits. *)

\* get_object(): the cached instance, or a new stub in its place; an expired instance is not returned any more
Outdated(x) == Loaded(x) /\ x.inst[x.obj].expired /\ ~essential
GetObject(x) == IF x.obj # 0 /\ ~Outdated(x) THEN x
                ELSE LET s == Slot(x) IN [x EXCEPT !.obj = s, !.inst[s] = Stub]

\* load() of stub i: its data is taken from the cached record, or asked for from the database; looking for the record
\* takes a look at the cached object, which puts a stub there; only the load of a cached object is put in _loading
Load(x, i) ==
    LET y == IF x.rec # 0 THEN [x EXCEPT !.inst[i].state = "starting", !.inst[i].data = x.rec]
             ELSE GetObject([x EXCEPT !.inst[i].state = "asked"])
    IN IF y.obj = i THEN [y EXCEPT !.loading = i] ELSE y

LoadStub(x) == IF x.inst[x.obj].state = "stub" THEN Load(x, x.obj) ELSE x

Reload(x, force) ==
    IF x.loading # 0 /\ ~force THEN x
    ELSE LET y == IF force THEN [x EXCEPT !.rec = 0] ELSE x
         IN IF force \/ Loaded(y)
            THEN LET s == Slot(y) IN [Load([y EXCEPT !.inst[s] = [Stub EXCEPT !.reload = TRUE]], s) EXCEPT !.loading = s]
            ELSE LoadStub(GetObject(y))

\* eviction: an essential object is reloaded instead
Evict_Spares(x) == IF essential THEN x ELSE [x EXCEPT !.obj = 0]
Evict(x) == IF essential THEN Reload(x, FALSE) ELSE [x EXCEPT !.obj = 0]

\* register_record(): the record is cached, and the cached object is evicted when it has data, and from another one; a deleted
\* record is dropped and then cached all the same
Differs_Never(x, v) == FALSE
Differs(x, v) == x.obj # 0 /\ x.inst[x.obj].state \in {"starting", "active"} /\ x.inst[x.obj].data # v
Register(x, v) ==
    LET y == [x EXCEPT !.rec = v, !.obj = IF v = Gone THEN 0 ELSE @,
                       !.inst = [i \in 1 .. Slots |-> IF x.inst[i].state = "starting" /\ x.inst[i].data # v
                                                      THEN [x.inst[i] EXCEPT !.crossed = TRUE] ELSE x.inst[i]]]
    IN IF Differs(y, v) THEN Evict(y) ELSE y

\* A version is registered: it need not be newer than the one before.
Registered(v) == latest' = v /\ newest' = IF v > newest THEN v ELSE newest

Becomes(x) == /\ c' = Collect(x)
              /\ evictions' = (Busy(x) # {} /\ (evictions \/ (c.obj # 0 /\ x.obj # c.obj /\ Busy(c) # {})))

----------------------------------------------------------------------------
(* The database, and the way back of this process's own changes. *)

Write(own) ==
    /\ db < MaxVersion
    /\ db' = db + 1
    /\ notes' = IF own THEN notes \cup {db + 1} ELSE notes
    /\ UNCHANGED <<essential, c, latest, newest, evictions, failures, reloads>>

Delete ==
    /\ ~essential /\ db # Gone
    /\ db' = Gone /\ notes' = notes \cup {Gone}
    /\ UNCHANGED <<essential, c, latest, newest, evictions, failures, reloads>>

\* register_changes() with a record that came with an answer; answers overtake one another
RegisterChange(v) ==
    /\ v \in notes /\ Room
    /\ notes' = notes \ {v}
    /\ Becomes(Register(c, v)) /\ Registered(v)
    /\ UNCHANGED <<essential, db, failures, reloads>>

\* the answer was lost or its request had failed on the way back
Lose(v) ==
    /\ v \in notes /\ notes' = notes \ {v}
    /\ UNCHANGED <<essential, db, c, latest, newest, evictions, failures, reloads>>

\* db.select() is executed by a block; of a deleted record there is no answer but an error
Select(i) ==
    /\ c.inst[i].state = "asked" /\ db # Gone
    /\ c' = [c EXCEPT !.inst[i].state = "answered", !.inst[i].data = db]
    /\ UNCHANGED <<essential, db, notes, latest, newest, evictions, failures, reloads>>

----------------------------------------------------------------------------
(* Loads. *)

\* get_object().load() by any part of the program
Use ==
    /\ Room
    /\ Becomes(LoadStub(GetObject(c)))
    /\ UNCHANGED <<essential, db, notes, latest, newest, failures, reloads>>

\* load_record(): the answer is registered, and then becomes the data of the instance
Arrive(i) ==
    /\ c.inst[i].state = "answered" /\ (essential => FreeSlots(c) # {} \/ c.loading # 0)
    /\ LET v == c.inst[i].data
       IN /\ Becomes([Register(c, v) EXCEPT !.inst[i].state = "starting"])
          /\ Registered(v)
    /\ UNCHANGED <<essential, db, notes, failures, reloads>>

\* its class, prototypes and autoload references are there: the instance is active; a reload puts it in the cache
Settle(i) == c.inst[i].state = "starting"
Finish(i) ==
    /\ Settle(i)
    /\ Becomes([c EXCEPT !.inst[i].state = "active", !.inst[i].expired = FALSE,
                         !.obj = IF c.inst[i].reload THEN i ELSE @,
                         !.loading = IF @ = i THEN 0 ELSE @])
    /\ UNCHANGED <<essential, db, notes, latest, newest, failures, reloads>>

\* the record is not found, or a dependency cannot be loaded: a stub again, that may be loaded again
Fail(i) ==
    /\ c.inst[i].state \in {"asked", "starting"}
    /\ \/ failures < MaxFailures /\ failures' = failures + 1
       \/ c.inst[i].state = "asked" /\ db = Gone /\ UNCHANGED failures
    /\ Becomes([c EXCEPT !.inst[i] = Stub, !.loading = IF @ = i THEN 0 ELSE @])
    /\ UNCHANGED <<essential, db, notes, latest, newest, reloads>>

\* obj.reload(), also the one after obj.save()
ProgramReload(force) ==
    /\ reloads < MaxReloads /\ Room
    /\ reloads' = reloads + 1
    /\ Becomes(Reload(c, force))
    /\ UNCHANGED <<essential, db, notes, latest, newest, failures>>

\* refresh(): a reload, if the cached record differs from the cached object or the object is old
Refresh ==
    /\ reloads < MaxReloads /\ Loaded(c) /\ Room
    /\ reloads' = reloads + 1
    /\ c.rec \notin {0, Served(c)} \/ c.inst[c.obj].expired
    /\ Becomes(Reload(IF c.rec = 0 THEN GetObject(c) ELSE c, FALSE))
    /\ UNCHANGED <<essential, db, notes, latest, newest, failures>>

----------------------------------------------------------------------------
(* Timers. *)

Expire ==
    /\ Loaded(c) /\ ~c.inst[c.obj].expired
    /\ c' = [c EXCEPT !.inst[c.obj].expired = TRUE]
    /\ UNCHANGED <<essential, db, notes, latest, newest, evictions, failures, reloads>>

\* evict_expired(): stubs are expired from the start, and so are the objects still being loaded
Purge ==
    /\ c.obj # 0 /\ c.inst[c.obj].expired /\ (essential => FreeSlots(c) # {} \/ c.loading # 0)
    /\ Becomes(Evict(c))
    /\ UNCHANGED <<essential, db, notes, latest, newest, failures, reloads>>

\* _purge_records(), every second
PurgeRecords ==
    /\ c.rec # 0 /\ c' = [c EXCEPT !.rec = 0]
    /\ UNCHANGED <<essential, db, notes, latest, newest, evictions, failures, reloads>>

\* _erase_registry(), every few purges, spares no object
EraseObjects ==
    /\ c.obj # 0 /\ Becomes([c EXCEPT !.obj = 0])
    /\ UNCHANGED <<essential, db, notes, latest, newest, failures, reloads>>

Next == \/ \E own \in BOOLEAN : Write(own)
        \/ Delete \/ Use \/ Refresh \/ (\E force \in BOOLEAN : ProgramReload(force))
        \/ \E v \in notes : RegisterChange(v) \/ Lose(v)
        \/ \E i \in 1 .. Slots : Select(i) \/ Arrive(i) \/ Finish(i) \/ Fail(i)
        \/ Expire \/ Purge \/ PurgeRecords \/ EraseObjects

\* the timers run, the database answers, and a load ends
Fairness == /\ WF_vars(Expire) /\ WF_vars(Purge) /\ WF_vars(PurgeRecords)
            /\ WF_vars(\E v \in notes : RegisterChange(v))
            /\ \A i \in 1 .. Slots : WF_vars(Select(i)) /\ WF_vars(Arrive(i)) /\ WF_vars(Finish(i)) /\ WF_vars(Fail(i))
Spec == Init /\ [][Next]_vars /\ Fairness

----------------------------------------------------------------------------
\* The entries of the cache refer to instances in a state that fits.
TypeOK == /\ c.rec \in 0 .. Gone /\ c.obj \in 0 .. Slots /\ c.loading \in {0} \cup Busy(c)
          /\ \A i \in 1 .. Slots : c.inst[i].state \in {"free", "stub", "asked", "answered", "starting", "active"}
          /\ (c.obj # 0 => c.inst[c.obj].state # "free") /\ notes \subseteq 1 .. Gone /\ db \in 1 .. Gone

\* The object that the cache serves has the content that was registered last in this process, except for an instance that was
\* completing its load when that was registered, and for an essential object, which is served in its older version until it is
\* reloaded. So a program sees the newest version it has heard of, its own writes among them, unless one of these exceptions
\* applies or an answer that was given before that version was written has arrived after it: it takes its place in the cache
\* although it is older. (Schemat.register_record, load_record)
ServedIsLatest ==
    Loaded(c) /\ ~essential => /\ Served(c) # latest => c.inst[c.obj].crossed
                               /\ Served(c) # newest => c.inst[c.obj].crossed \/ latest < newest

\* Once the record changes no more, the cache comes to serve no other version of it than the one in the database.
EventuallyFresh == <>[](Loaded(c) => Served(c) = db)
=============================================================================
