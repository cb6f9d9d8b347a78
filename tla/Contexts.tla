------------------------------ MODULE Contexts ------------------------------
(* The Schemat contexts of a process, one per application: a call of an agent asks for the context of a database, which is made
   and booted by the first call that needs it. The kernel's own context is there from the start. *)
EXTENDS Integers, FiniteSets

CONSTANTS Calls, Dbs, Kernel,           \* databases of applications, and that of the cluster
          Apps,                         \* applications
          NoApp                         \* the key of the kernel's context

VARIABLES application,                  \* of each database
          context,                      \* of each application: [db, phase, maker], maker being the call that boots it
          known,                        \* databases that are loaded
          call                          \* [at, in, want]: stage, key of its context, the database it asks for
contextvars == <<application, context, known, call>>

Unset == [db |-> Kernel, phase |-> "unset", maker |-> NoApp]
Init == /\ application \in {a \in [Dbs \cup {Kernel} -> Apps \cup {NoApp}] : a[Kernel] = NoApp}
        /\ context = [a \in Apps \cup {NoApp} |-> IF a = NoApp THEN [Unset EXCEPT !.phase = "ready"] ELSE Unset]
        /\ known = {Kernel} /\ call = [c \in Calls |-> [at |-> "idle", in |-> NoApp, want |-> Kernel]]
Moves(c, stage) == call' = [call EXCEPT ![c].at = stage]
RunsIn(c, key) == call' = [call EXCEPT ![c].at = "running", ![c].in = key]

----------------------------------------------------------------------------
\* app_context(): a call that needs no other database, or is in its context already, goes on there. One that runs may ask again.
Stays(c, db) == db = context[call[c].in].db
Ask == \E c \in Calls, db \in Dbs \cup {Kernel} :
          /\ call[c].at \in {"idle", "running"}
          /\ call' = [call EXCEPT ![c].want = db, ![c].at = IF Stays(c, db) THEN "running" ELSE IF db \in known THEN "find" ELSE "load"]
          /\ UNCHANGED <<application, context, known>>
Load == \E c \in Calls : /\ call[c].at = "load"
                         /\ \/ known' = known \cup {call[c].want} /\ Moves(c, "find")
                            \/ Moves(c, "failed") /\ UNCHANGED known
                         /\ UNCHANGED <<application, context>>
\* The context is registered by its constructor, before it is booted.
Found(c) == context[application[call[c].want]].phase # "unset"
Enter == \E c \in Calls : /\ call[c].at = "find" /\ Found(c) /\ RunsIn(c, application[call[c].want])
                          /\ UNCHANGED <<application, context, known>>
Create == \E c \in Calls : /\ call[c].at = "find" /\ ~Found(c) /\ Moves(c, "boot")
                           /\ context' = [context EXCEPT ![application[call[c].want]] =
                                             [db |-> call[c].want, phase |-> "booting", maker |-> c]]
                           /\ UNCHANGED <<application, known>>
\* boot(): anything that is loaded on the way may fail, and the context stays registered.
Ended(c, phase) == context' = [context EXCEPT ![application[call[c].want]].phase = phase, ![application[call[c].want]].maker = NoApp]
BootEnds_Early(c) == RunsIn(c, application[call[c].want]) /\ UNCHANGED context        \* mutant: boot() is not awaited
BootEnds(c) == \/ RunsIn(c, application[call[c].want]) /\ Ended(c, "ready")
               \/ Moves(c, "failed") /\ Ended(c, "broken")
Boot == \E c \in Calls : call[c].at = "boot" /\ BootEnds(c) /\ UNCHANGED <<application, known>>
Return == \E c \in Calls : /\ call[c].at \in {"running", "failed"}
                           /\ call' = [call EXCEPT ![c] = [at |-> "idle", in |-> NoApp, want |-> Kernel]]
                           /\ UNCHANGED <<application, context, known>>
Next == Ask \/ Load \/ Enter \/ Create \/ Boot \/ Return

----------------------------------------------------------------------------
\* A callback runs in a context of the application of its database, the kernel's if there is none; and this context was booted,
\* unless another call is still booting it, or its boot failed. (ServerSchemat.app_context, constructor, boot)
ServedInPlace == \A c \in Calls : call[c].at = "running" =>
                    LET x == context[call[c].in]
                    IN /\ x.db = call[c].want \/ application[x.db] = application[call[c].want]
                       /\ \/ x.phase = "ready"
                          \/ x.phase = "booting" /\ x.maker # c
                          \/ x.phase = "broken"
=============================================================================
