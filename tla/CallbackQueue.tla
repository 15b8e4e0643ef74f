---------------------------- MODULE CallbackQueue ----------------------------
(***************************************************************************)
(* CallbackQueue (callback_queue.hpp): a deque, a mutex, a condition       *)
(* variable and worker threads.  The server runs its message and close     *)
(* handlers in one, the bridges fetch assets in another.                   *)
(*                                                                         *)
(* _quit is an atomic that stop() sets without taking the mutex, so it can *)
(* change between any two steps of a worker, also between the test of the  *)
(* predicate and the moment the worker blocks.                             *)
(***************************************************************************)
EXTENDS Sequences

CONSTANTS
    Worker,      \* worker threads
    Callback,    \* callbacks, each added once by a thread of its own
    None         \* no thread, no callback

ASSUME QueueConstants == None \notin Worker \cup Callback

VARIABLES
    queue,     \* _callback_queue
    running,   \* the cb of each worker
    quit,      \* _quit
    mutex,     \* the worker that holds _mutex, or None
    wpc,       \* where each worker is in do_work
    apc,       \* where the thread that adds each callback is
    spc,       \* where the thread that calls stop is
    missed     \* workers about to block when stop notified

vars == <<queue, running, quit, mutex, wpc, apc, spc, missed>>

Init ==
    /\ queue = <<>>
    /\ running = [w \in Worker |-> None]
    /\ quit = FALSE
    /\ mutex = None
    /\ wpc = [w \in Worker |-> "check"]
    /\ apc = [cb \in Callback |-> "start"]
    /\ spc = "start"
    /\ missed = {}

-----------------------------------------------------------------------------
(* add_callback: the flag is read before the mutex is taken. *)
AddCheck(cb) ==
    /\ apc[cb] = "start"
    /\ apc' = [apc EXCEPT ![cb] = IF quit THEN "done" ELSE "push"]
    /\ UNCHANGED <<queue, running, quit, mutex, wpc, spc, missed>>

Asleep == {w \in Worker : wpc[w] = "asleep"}

(* Mutant of AddPush: no notification. *)
AddPushSilently(cb) ==
    /\ apc[cb] = "push"
    /\ mutex = None
    /\ queue' = Append(queue, cb)
    /\ apc' = [apc EXCEPT ![cb] = "done"]
    /\ UNCHANGED <<running, quit, mutex, wpc, spc, missed>>

(* push_back and notify_one under the mutex. *)
AddPush(cb) ==
    /\ apc[cb] = "push"
    /\ mutex = None
    /\ queue' = Append(queue, cb)
    /\ \/ Asleep = {} /\ UNCHANGED wpc
       \/ \E w \in Asleep : wpc' = [wpc EXCEPT ![w] = "lock"]
    /\ apc' = [apc EXCEPT ![cb] = "done"]
    /\ UNCHANGED <<running, quit, mutex, spc, missed>>

-----------------------------------------------------------------------------
(* stop: set the flag, notify everybody, join the workers. *)
StopQuit ==
    /\ spc = "start"
    /\ quit' = TRUE
    /\ spc' = "notify"
    /\ UNCHANGED <<queue, running, mutex, wpc, apc, missed>>

(* Mutant of StopNotify: notify_one. *)
StopNotifyOne ==
    /\ spc = "notify"
    /\ \/ Asleep = {} /\ UNCHANGED wpc
       \/ \E w \in Asleep : wpc' = [wpc EXCEPT ![w] = "lock"]
    /\ missed' = {w \in Worker : wpc[w] = "block"}
    /\ spc' = "join"
    /\ UNCHANGED <<queue, running, quit, mutex, apc>>

StopNotify ==
    /\ spc = "notify"
    /\ wpc' = [w \in Worker |-> IF w \in Asleep THEN "lock" ELSE wpc[w]]
    /\ missed' = {w \in Worker : wpc[w] = "block"}
    /\ spc' = "join"
    /\ UNCHANGED <<queue, running, quit, mutex, apc>>

StopJoin ==
    /\ spc = "join"
    /\ \A w \in Worker : wpc[w] = "exit"
    /\ spc' = "stopped"
    /\ UNCHANGED <<queue, running, quit, mutex, wpc, apc, missed>>

-----------------------------------------------------------------------------
(* do_work. *)
Goto(w, pc) == wpc' = [wpc EXCEPT ![w] = pc]

(* while (!_quit) *)
WorkCheck(w) ==
    /\ wpc[w] = "check"
    /\ Goto(w, IF quit THEN "exit" ELSE "lock")
    /\ UNCHANGED <<queue, running, quit, mutex, apc, spc, missed>>

(* The mutex, taken at the top of the loop or again after a wakeup. *)
WorkLock(w) ==
    /\ wpc[w] = "lock"
    /\ mutex = None
    /\ mutex' = w
    /\ Goto(w, "test")
    /\ UNCHANGED <<queue, running, quit, apc, spc, missed>>

(* The predicate of _cv.wait. *)
WorkTest(w) ==
    /\ wpc[w] = "test"
    /\ Goto(w, IF quit \/ queue # <<>> THEN "take" ELSE "block")
    /\ UNCHANGED <<queue, running, quit, mutex, apc, spc, missed>>

(* _cv.wait releases the mutex and blocks. *)
WorkBlock(w) ==
    /\ wpc[w] = "block"
    /\ mutex' = None
    /\ Goto(w, "asleep")
    /\ UNCHANGED <<queue, running, quit, apc, spc, missed>>

(* A condition variable may wake its waiter for no reason. *)
SpuriousWakeup(w) ==
    /\ wpc[w] = "asleep"
    /\ Goto(w, "lock")
    /\ UNCHANGED <<queue, running, quit, mutex, apc, spc, missed>>

(* After the wait: leave, or pop one callback and release the mutex. *)
WorkTake(w) ==
    /\ wpc[w] = "take"
    /\ mutex' = None
    /\ IF quit
         THEN Goto(w, "exit") /\ UNCHANGED <<queue, running>>
         ELSE IF queue # <<>>
           THEN /\ running' = [running EXCEPT ![w] = Head(queue)]
                /\ queue' = Tail(queue)
                /\ Goto(w, "run")
           ELSE Goto(w, "check") /\ UNCHANGED <<queue, running>>
    /\ UNCHANGED <<quit, apc, spc, missed>>

(* The callback returns, or throws and is caught. *)
WorkRun(w) ==
    /\ wpc[w] = "run"
    /\ running' = [running EXCEPT ![w] = None]
    /\ Goto(w, "check")
    /\ UNCHANGED <<queue, quit, mutex, apc, spc, missed>>

-----------------------------------------------------------------------------
Work(w) ==
    \/ WorkCheck(w) \/ WorkLock(w) \/ WorkTest(w) \/ WorkBlock(w)
    \/ WorkTake(w) \/ WorkRun(w)

(* The queue is stopped and nobody adds to it any more. *)
Terminated ==
    /\ spc = "stopped"
    /\ \A cb \in Callback : apc[cb] = "done"
    /\ UNCHANGED vars

Next ==
    \/ \E cb \in Callback : AddCheck(cb) \/ AddPush(cb)
    \/ StopQuit \/ StopNotify \/ StopJoin
    \/ \E w \in Worker : Work(w) \/ SpuriousWakeup(w)
    \/ Terminated

Spec == Init /\ [][Next]_vars

(***************************************************************************)
(* Threads are scheduled: a worker or stop() that can go on does.  Nothing *)
(* makes anybody call stop or add a callback, and no wakeup comes without  *)
(* a notification.                                                         *)
(***************************************************************************)
FairSpec ==
    /\ Spec
    /\ \A w \in Worker : WF_vars(Work(w))
    /\ WF_vars(StopNotify \/ StopJoin)

-----------------------------------------------------------------------------
(* Every variable has the type of the field it stands for. *)
TypeOK ==
    /\ queue \in Seq(Callback)
    /\ running \in [Worker -> Callback \cup {None}]
    /\ quit \in BOOLEAN
    /\ mutex \in Worker \cup {None}
    /\ wpc \in [Worker -> {"check", "lock", "test", "block", "asleep", "take",
                           "run", "exit"}]
    /\ apc \in [Callback -> {"start", "push", "done"}]
    /\ spc \in {"start", "notify", "join", "stopped"}
    /\ missed \subseteq Worker

(* When wait returns, _quit is set or there is a callback to pop, also     *)
(* with several workers: the last test in do_work never fails.             *)
WaitDelivers ==
    \A w \in Worker : wpc[w] = "take" => quit \/ queue # <<>>

(* CallbackQueue behaves as a first-in first-out queue: the deque, what    *)
(* the workers run and the flag are its state, the mutex, the condition    *)
(* variable and the program counters are hidden.                           *)
Fifo == INSTANCE CallbackFifo
          WITH queue <- queue, running <- running, quit <- quit

(* The order in which add_callback stored the callbacks is the order in    *)
(* which do_work starts them, and while the queue is not stopped each one  *)
(* is started: no notification is lost between add_callback and do_work.   *)
ImplementsFifo == Fifo!FairSpec

(* stop() returns, unless a worker had found nothing to do and was about   *)
(* to block at the very moment stop() notified: the flag is set without    *)
(* the mutex, and only that window loses the notification.                 *)
StopReturnsUnlessMissed == quit ~> (spc = "stopped" \/ missed # {})
=============================================================================
