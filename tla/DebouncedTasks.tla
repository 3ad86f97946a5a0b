--------------------------- MODULE DebouncedTasks ---------------------------
(***************************************************************************)
(* Calls of one debounced task with the same arguments                     *)
(* (lib/celery/task_decorator.py): each call increments a counter in Redis *)
(* and queues a task that is due after the countdown; a task that brings   *)
(* the counter down to zero runs the function.                             *)
(***************************************************************************)
EXTENDS Integers, FiniteSets

CONSTANTS
    MaxCalls,       \* bound
    None

VARIABLES
    counter,        \* the key in Redis, or None
    calling,        \* calls that have not queued their task yet
    queued,
    ending,         \* tasks that are to delete the key and run the function
    called, ran,    \* the calls made, and those made before the last run began
    leaked,         \* a call did not queue its task, which keeps the counter up
    torn,           \* a call came between the two commands of semi_decr, or the
                    \* key expired, while others wait
    early           \* the function ran while another call was waiting, not torn

dvars == <<counter, calling, queued, ending, called, ran, leaked, torn, early>>

Init ==
    /\ counter = None
    /\ calling = {}
    /\ queued = {}
    /\ ending = {}
    /\ called = 0
    /\ ran = 0
    /\ leaked = FALSE
    /\ torn = FALSE
    /\ early = FALSE

Value == IF counter = None THEN 0 ELSE counter

Waiting == calling \cup queued

\* semi_incr: one transaction
Call ==
    /\ called < MaxCalls
    /\ called' = called + 1
    /\ counter' = Value + 1
    /\ calling' = calling \cup {called'}
    /\ torn' = (torn \/ ending # {})
    /\ UNCHANGED <<queued, ending, ran, leaked, early>>

ApplyAsync(c) ==
    /\ c \in calling
    /\ calling' = calling \ {c}
    /\ queued' = queued \cup {c}
    /\ UNCHANGED <<counter, ending, called, ran, leaked, torn, early>>

ApplyAsyncFails(c) ==
    /\ c \in calling
    /\ calling' = calling \ {c}
    /\ leaked' = TRUE
    /\ UNCHANGED <<counter, queued, ending, called, ran, torn, early>>

\* Broken variant: below zero is not zero.
DecrExactly(c) ==
    /\ c \in queued
    /\ queued' = queued \ {c}
    /\ counter' = Value - 1
    /\ ending' = ending \cup {k \in {c} : Value = 1}
    /\ UNCHANGED <<calling, called, ran, leaked, torn, early>>

\* semi_decr, its first command; tasks are due in any order, as workers are late
Decr(c) ==
    /\ c \in queued
    /\ queued' = queued \ {c}
    /\ counter' = Value - 1
    /\ ending' = ending \cup {k \in {c} : Value <= 1}
    /\ UNCHANGED <<calling, called, ran, leaked, torn, early>>

\* its second command, and the function
DeleteAndRun(c) ==
    /\ c \in ending
    /\ ending' = ending \ {c}
    /\ counter' = None
    /\ ran' = called
    /\ leaked' = FALSE
    /\ torn' = (torn /\ Waiting \cup ending' # {})
    /\ early' = (early \/ (~torn /\ Waiting # {}))
    /\ UNCHANGED <<calling, queued, called>>

\* ten minutes after the countdown of the last call
Expire ==
    /\ counter # None
    /\ counter' = None
    /\ torn' = (torn \/ Waiting \cup ending # {})
    /\ UNCHANGED <<calling, queued, ending, called, ran, leaked, early>>

Next ==
    \/ Call \/ Expire
    \/ \E c \in 1..MaxCalls :
          ApplyAsync(c) \/ ApplyAsyncFails(c) \/ Decr(c) \/ DeleteAndRun(c)

Spec == Init /\ [][Next]_dvars

-----------------------------------------------------------------------------

\* When nothing waits the function has run after the last call, although the
\* counter expires, goes below zero and is deleted under a call; but for a
\* task that could not be queued, which holds back all others.  And it runs
\* only when no other call waits, unless the counter was torn.
EveryCallIsServed ==
    /\ Waiting \cup ending = {} /\ ~leaked => ran = called
    /\ ~early

=============================================================================
