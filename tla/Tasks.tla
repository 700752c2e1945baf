-------------------------------- MODULE Tasks --------------------------------
(***************************************************************************)
(* BaseTask, Task and TaskManager (include/TW/tw_task.h, tw_task.cpp): a   *)
(* task is an object that starts one thread; a manager keeps a list of     *)
(* tasks to join.                                                          *)
(*                                                                         *)
(* Callers start tasks, wait for them and use the manager; workers are the *)
(* threads pthread_create() makes, numbered in the order of creation.      *)
(* startTask() looks at _running under the mutex, and creates the thread   *)
(* and sets _running after it has let go of it, so callers can start one   *)
(* task twice: a task may have any number of threads.  joinAll() looks at the head of the list before it locks    *)
(* it, and a wait reads _pthread_dat before it blocks.                     *)
(***************************************************************************)
EXTENDS Integers, SequencesExt

CONSTANTS Caller,
          TaskObj,     \* the tasks
          Param,       \* the values tasks are started with
          MaxWorkers   \* bound on the threads that are created
NoParam == "null"
NoCaller == "nobody"

VARIABLES task,        \* per task: _running, _completed, _thrd_retval, _param, _pthread_dat
          worker,      \* the threads: the task, the parameter work() was given, where it is
          managed,     \* the manager's list
          listMutex,   \* who holds the mutex of the list
          at           \* per caller: the call it is in
taskVars == <<task, worker, managed, listMutex, at>>

\* BaseTask().
NewTask == [running |-> FALSE, completed |-> FALSE, retval |-> NoParam,
            param |-> NoParam, pthread |-> 0]
\* In a call: its task and parameter, whether it has a time limit, the thread that is
\* waited for, the place in the list of an iterator (0: none), and how many tasks the
\* list had when joinAll() was called.
Idle == [call |-> "idle", task |-> "none", val |-> NoParam, timed |-> FALSE,
         thread |-> 0, next |-> 0, due |-> 0]

Init ==
    /\ task = [k \in TaskObj |-> NewTask]
    /\ worker = <<>>
    /\ managed = <<>> /\ listMutex = NoCaller
    /\ at = [c \in Caller |-> Idle]

Goto(c, where) == at' = [at EXCEPT ![c] = where]
Exited(w) == worker[w].pc = "exited"

-----------------------------------------------------------------------------
\* startTask(): the test.  A task that has been started gives -1.
StartCheck(c, k, v) ==
    /\ at[c] = Idle
    /\ IF task[k].running THEN UNCHANGED at
       ELSE Goto(c, [Idle EXCEPT !.call = "create", !.task = k, !.val = v])
    /\ UNCHANGED <<task, worker, managed, listMutex>>

\* startTask(): _workdat is filled in and the thread created, or not.
StartCreate(c) ==
    LET k == at[c].task
    IN  /\ at[c].call = "create"
        /\ \/ /\ Len(worker) < MaxWorkers
              /\ worker' = Append(worker, [task |-> k, param |-> NoParam, pc |-> "created"])
              /\ task' = [task EXCEPT ![k].param = at[c].val, ![k].pthread = Len(worker) + 1]
              /\ Goto(c, [at[c] EXCEPT !.call = "started"])
           \/ /\ task' = [task EXCEPT ![k].param = at[c].val]
              /\ Goto(c, Idle)
              /\ UNCHANGED worker
        /\ UNCHANGED <<managed, listMutex>>

StartMark(c) ==
    /\ at[c].call = "started"
    /\ task' = [task EXCEPT ![at[c].task].running = TRUE]
    /\ Goto(c, Idle)
    /\ UNCHANGED <<worker, managed, listMutex>>

\* do_work(): the parameter is read when the thread gets to it ...
WorkBegin(w) ==
    /\ worker[w].pc = "created"
    /\ worker' = [worker EXCEPT ![w].param = task[worker[w].task].param, ![w].pc = "working"]
    /\ UNCHANGED <<task, managed, listMutex, at>>

\* ... work() returns and _completed is set ...
WorkEnd(w) ==
    /\ worker[w].pc = "working"
    /\ worker' = [worker EXCEPT ![w].pc = "returning"]
    /\ task' = [task EXCEPT ![worker[w].task].completed = TRUE]
    /\ UNCHANGED <<managed, listMutex, at>>

\* ... and the thread exits with the result.
WorkExit(w) ==
    /\ worker[w].pc = "returning"
    /\ worker' = [worker EXCEPT ![w].pc = "exited"]
    /\ UNCHANGED <<task, managed, listMutex, at>>

\* pthread_join() of a thread of k.
Join(w, k) ==
    /\ Exited(w)
    /\ worker' = [worker EXCEPT ![w].pc = "joined"]
    /\ task' = [task EXCEPT ![k].retval = worker[w].param]

\* The threads that calls have set out to join; a program joins a thread once.
Awaited == {at[c].thread : c \in Caller}

\* waitForTask(), with or without a time limit: _pthread_dat is read ...  The caller
\* knows that the task was started and is not in the manager's list, whose joinAll()
\* would join it too.
WaitForTask(c, k, timed) ==
    /\ at[c] = Idle /\ task[k].running /\ ~Contains(managed, k)
    /\ worker[task[k].pthread].pc # "joined" /\ task[k].pthread \notin Awaited
    /\ Goto(c, [Idle EXCEPT !.call = "wait", !.task = k, !.timed = timed, !.thread = task[k].pthread])
    /\ UNCHANGED <<task, worker, managed, listMutex>>

\* ... and that thread joined.
WaitJoin(c) ==
    /\ at[c].call = "wait"
    /\ Join(at[c].thread, at[c].task)
    /\ Goto(c, Idle)
    /\ UNCHANGED <<managed, listMutex>>

\* pthread_timedjoin_np() that runs out of time: the result is what it was.
WaitTimesOut(c) ==
    /\ at[c].call = "wait" /\ at[c].timed /\ ~Exited(at[c].thread)
    /\ Goto(c, Idle)
    /\ UNCHANGED <<task, worker, managed, listMutex>>

-----------------------------------------------------------------------------
\* Somebody waits for k, or a thread of k was joined.
Taken(k) ==
    \/ \E c \in Caller : at[c].call = "wait" /\ at[c].task = k
    \/ \E w \in DOMAIN worker : worker[w].task = k /\ worker[w].pc = "joined"

\* addTask(), of a task that was started, is not in the list and is left to joinAll().
AddTask(c, k) ==
    /\ at[c] = Idle /\ listMutex = NoCaller
    /\ task[k].running /\ ~Contains(managed, k) /\ ~Taken(k)
    /\ managed' = Append(managed, k)
    /\ UNCHANGED <<task, worker, listMutex, at>>

Joining == {"startIter", "joinAll", "joinWait", "joined"}

\* joinAll(), with or without a time limit: startIter() reads the head of the list ...
\* A program calls it again only if the call before it joined nobody.
JoinAll(c, timed) ==
    /\ at[c] = Idle
    /\ \A e \in Caller : at[e].call \notin Joining
    /\ \A k \in Range(managed) : ~Taken(k)
    /\ Goto(c, [Idle EXCEPT !.call = "startIter", !.timed = timed,
                            !.next = IF managed = <<>> THEN 0 ELSE 1, !.due = Len(managed)])
    /\ UNCHANGED <<task, worker, managed, listMutex>>

\* ... and then takes the mutex of the list.
JoinLock(c) ==
    /\ at[c].call = "startIter" /\ listMutex = NoCaller
    /\ listMutex' = c
    /\ Goto(c, [at[c] EXCEPT !.call = "joinAll"])
    /\ UNCHANGED <<task, worker, managed>>

\* getNext() has a task: the wait for it reads _pthread_dat ...
JoinNext(c) ==
    /\ at[c].call = "joinAll" /\ at[c].next \in DOMAIN managed
    /\ Goto(c, [at[c] EXCEPT !.call = "joinWait", !.thread = task[managed[at[c].next]].pthread])
    /\ UNCHANGED <<task, worker, managed, listMutex>>

\* Mutant of JoinWait: the wait does not wait.
JoinRuns(c) ==
    /\ at[c].call = "joinWait"
    /\ Goto(c, [at[c] EXCEPT !.call = "joinAll", !.next = @ + 1, !.thread = 0])
    /\ UNCHANGED <<task, worker, managed, listMutex>>

\* Mutant of JoinWait: the iterator stays where it is.
JoinStays(c) ==
    /\ at[c].call = "joinWait"
    /\ Join(at[c].thread, managed[at[c].next])
    /\ Goto(c, [at[c] EXCEPT !.call = "joinAll", !.thread = 0])
    /\ UNCHANGED <<managed, listMutex>>

\* ... and joins that thread.
JoinWait(c) ==
    /\ at[c].call = "joinWait"
    /\ Join(at[c].thread, managed[at[c].next])
    /\ Goto(c, [at[c] EXCEPT !.call = "joinAll", !.next = @ + 1, !.thread = 0])
    /\ UNCHANGED <<managed, listMutex>>

\* joinAll(TimeVal&) goes on to the next task when the time is over.
JoinTimesOut(c) ==
    /\ at[c].call = "joinWait" /\ at[c].timed /\ ~Exited(at[c].thread)
    /\ Goto(c, [at[c] EXCEPT !.call = "joinAll", !.next = @ + 1, !.thread = 0])
    /\ UNCHANGED <<task, worker, managed, listMutex>>

\* getNext() has no more: releaseIter().
JoinedAll(c) ==
    /\ at[c].call = "joinAll" /\ at[c].next \notin DOMAIN managed
    /\ listMutex' = NoCaller
    /\ Goto(c, IF at[c].timed THEN Idle ELSE [at[c] EXCEPT !.call = "joined"])
    /\ UNCHANGED <<task, worker, managed>>

\* shutdownAll(): the loop goes on while getNext() returns false, so it calls no
\* shutdown() when the list has a task in it; with an empty list it would follow an
\* uninitialised pointer.
ShutdownAll(c) ==
    /\ at[c] = Idle /\ listMutex = NoCaller /\ managed # <<>>
    /\ UNCHANGED taskVars

CallOn(c, k) ==
    \/ \E v \in Param : StartCheck(c, k, v)
    \/ AddTask(c, k) \/ \E timed \in BOOLEAN : WaitForTask(c, k, timed)
CallManager(c) == ShutdownAll(c) \/ \E timed \in BOOLEAN : JoinAll(c, timed)
Running(c) ==
    \/ StartCreate(c) \/ StartMark(c) \/ WaitJoin(c) \/ WaitTimesOut(c)
    \/ JoinLock(c) \/ JoinNext(c) \/ JoinWait(c) \/ JoinTimesOut(c) \/ JoinedAll(c)
Work(w) == WorkBegin(w) \/ WorkEnd(w) \/ WorkExit(w)

Next ==
    \/ \E c \in Caller : Running(c) \/ CallManager(c) \/ \E k \in TaskObj : CallOn(c, k)
    \/ \E w \in DOMAIN worker : Work(w)

\* The threads that are in the middle of something go on.  work() ends: a task whose
\* work() does not is outside of what joinAll() can promise.
Fairness ==
    /\ \A c \in Caller : WF_taskVars(Running(c))
    /\ \A w \in 1..MaxWorkers : WF_taskVars(w \in DOMAIN worker /\ Work(w))

-----------------------------------------------------------------------------
\* When joinAll() has returned, a thread of every task that was in the list when it
\* was called has ended and is joined, isCompleted() says so, and the return value is
\* there to be had, although tasks are added while joinAll() is between its look at
\* the list and the mutex, and other callers start the same tasks again.
JoinedMeansDone ==
    \A c \in Caller : at[c].call = "joined" =>
        \A i \in 1..at[c].due :
            LET k == managed[i]
            IN  /\ \E w \in DOMAIN worker : worker[w].task = k /\ worker[w].pc = "joined"
                /\ task[k].completed /\ task[k].retval # NoParam

\* joinAll() returns: it holds the list's mutex while it waits, but the threads it
\* waits for do not need that mutex to end.
JoinAllReturns ==
    \A c \in Caller : at[c].call = "startIter" ~> at[c].call \in {"joined", "idle"}
=============================================================================
