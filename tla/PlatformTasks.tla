--------------------------- MODULE PlatformTasks ---------------------------
(***************************************************************************)
(* The platform task queues of one environment and the event loop that     *)
(* drains them: src/edge_runtime_platform_v8.cc, the immediates of         *)
(* src/edge_environment.cc and lib/internal/timers.js, and the loop of     *)
(* RunEventLoopUntilQuiescent in src/edge_runtime.cc.                      *)
(*                                                                         *)
(* The owner thread runs the loop and all JavaScript.  Posters are other   *)
(* threads: V8's workers and the threads of Workers that hand a foreground *)
(* task to the owner.  A poster's call is split where the owner can run in *)
(* between: loading the target, the unlocked test of cleanup_started, and  *)
(* the critical section of foreground_mutex.  The owner's part of that     *)
(* mutex is one action each time it is taken.                              *)
(*                                                                         *)
(* uv_run fires the timers, then each iteration passes through poll,       *)
(* check, closing and timers.  A task is its name: it is posted once, and  *)
(* what its callback does is an arbitrary sequence of JavaScript calls,    *)
(* then one of the outcomes "ok", "handled" (an exception that             *)
(* process._fatalException took) and "thrown" (one still pending then).    *)
(***************************************************************************)
EXTENDS Integers, Sequences, FiniteSets

CONSTANTS
  Tasks,       \* platform tasks, each posted at most once
  Posters,     \* threads other than the owner
  Imms,        \* Immediate objects of JavaScript
  Noop,        \* the Immediate that a handled exception schedules
  None,        \* no task
  Calls,       \* the calls that this instance explores
  MaxRefs,     \* bound: references of Workers on the foreground async
  MaxGrace     \* idle_drain_turns before beforeExit (8)

ASSUME ConstantsAssumption ==
  /\ None \notin Tasks /\ Noop \notin Imms
  /\ MaxRefs \in Nat /\ MaxGrace \in Nat

VARIABLES
  \* PlatformTaskState
  hook, cleanupStarted, asyncInit, asyncSent, asyncRefs,
  fg, delayed, scheduled, closing, imm, refed, refedCount,
  \* immediate_info and the idle handle of Environment; the lists of timers.js
  queue, outstanding, unrefd, broken, idle,
  \* the owner thread
  at, why, cur, batch, stop, exiting, pending, grace,
  \* the other threads
  post,
  \* history: tasks handed over, runs and cleanups of each, dropped batches
  used, runs, cleans, dropped

taskVars  == <<fg, delayed, scheduled, closing>>
immVars   == <<imm, refed, refedCount>>
asyncVars == <<hook, cleanupStarted, asyncInit, asyncSent, asyncRefs>>
jsVars    == <<queue, outstanding, unrefd, broken>>
loopVars  == <<stop, exiting, pending, grace>>
pcVars    == <<at, why, cur, batch>>
histVars  == <<used, runs, cleans, dropped>>
vars == <<taskVars, immVars, asyncVars, jsVars, idle, loopVars, pcVars, post, histVars>>

Elems(s) == {s[i] : i \in DOMAIN s}
Immediates == Imms \cup {Noop}
Phases == {"timers", "poll", "io", "check", "imm", "jsimm", "closing"}

NoPost == [at |-> "idle", task |-> None, delay |-> FALSE]

(***************************************************************************)
(* Immediates and the loop's liveness                                      *)
(***************************************************************************)

\* immediate_count() and immediate_ref_count(), the fields of immediateInfo
LiveImmediates(q, o) == q \cup o
RefedImmediates(q, o, u) == (q \cup o) \ u

\* Mutants: the native tasks do not count; the handle is never stopped.
ToggleImmediateRefJsOnly(ref, count, js) == ref \/ js # {}
ToggleImmediateRefStuck(ref, count, js) == idle \/ ref \/ js # {} \/ count > 0

\* ToggleImmediateRef(ref): the idle handle after the call, given the counts.
ToggleImmediateRef(ref, count, js) == ref \/ js # {} \/ count > 0

\* uv_loop_alive: an active handle with a reference, or a closing one.
LoopAlive == idle \/ asyncRefs > 0 \/ closing # {}

\* new Immediate: ref() toggles when the count leaves 0.  o are the Immediates
\* of processImmediate that have not run.
NewImmediate(i, o) ==
  /\ queue' = queue \cup {i}
  /\ idle' = IF RefedImmediates(queue, o, unrefd) = {}
             THEN ToggleImmediateRef(TRUE, refedCount, {i}) ELSE idle

\* Mutant: no Immediate is scheduled.
FatalExceptionHandledSilently(o) == UNCHANGED <<queue, idle>>

\* process._fatalException took an exception: it schedules an Immediate, unless
\* the environment is exiting and the exception is only taken away.
FatalExceptionHandled(o) ==
  IF exiting THEN UNCHANGED <<queue, idle>> ELSE NewImmediate(Noop, o)

\* A callback ended with outcome o: an exception that was already pending cannot
\* end "ok", and none is left pending by an environment that is exiting.
Outcome(o) ==
  /\ o # "ok" => "Throw" \in Calls
  /\ pending => o # "ok"
  /\ exiting => o # "thrown"
  /\ pending' = (o = "thrown")
  /\ IF o = "handled" THEN FatalExceptionHandled(outstanding) ELSE UNCHANGED <<queue, idle>>

Count(f, S) == [t \in Tasks |-> IF t \in S THEN f[t] + 1 ELSE f[t]]

(***************************************************************************)
(* Start                                                                   *)
(***************************************************************************)
Init ==
  /\ hook = FALSE /\ cleanupStarted = FALSE /\ asyncInit = FALSE
  /\ asyncSent = FALSE /\ asyncRefs = 0
  /\ fg = << >> /\ delayed = {} /\ scheduled = {} /\ closing = {}
  /\ imm = << >> /\ refed = {} /\ refedCount = 0
  /\ queue = {} /\ outstanding = {} /\ unrefd = {} /\ broken = FALSE /\ idle = FALSE
  /\ at = "boot" /\ why = "turn" /\ cur = None /\ batch = << >>
  /\ stop = FALSE /\ exiting = FALSE /\ pending = FALSE /\ grace = 0
  /\ post = [p \in Posters |-> NoPost]
  /\ used = {} /\ dropped = {}
  /\ runs = [t \in Tasks |-> 0] /\ cleans = [t \in Tasks |-> 0]

\* EdgeRuntimePlatformInstallHooks, before the main script runs
InstallHooks ==
  /\ at = "boot"
  /\ hook' = TRUE /\ asyncInit' = TRUE /\ at' = "script"
  /\ UNCHANGED <<cleanupStarted, asyncSent, asyncRefs, taskVars, immVars, jsVars, idle,
                 loopVars, why, cur, batch, post, histVars>>

(***************************************************************************)
(* Foreground tasks posted by other threads                                *)
(***************************************************************************)

\* PostTaskCommon loaded the target from the isolate's runner, or
\* EdgeRuntimePlatformEnqueueForegroundTask found the state and its test of
\* cleanup_started passed.
PostBegin(p, t, delay) ==
  /\ "Post" \in Calls /\ post[p].at = "idle" /\ t \notin used
  /\ hook \/ (at # "boot" /\ ~cleanupStarted)
  /\ post' = [post EXCEPT ![p] = [at |-> "test", task |-> t, delay |-> delay]]
  /\ used' = used \cup {t}
  /\ UNCHANGED <<taskVars, immVars, asyncVars, jsVars, idle, loopVars, pcVars, runs, cleans, dropped>>

\* EnqueueForegroundTaskFromEngine up to the lock
PostTest(p) ==
  /\ post[p].at = "test"
  /\ IF cleanupStarted
     THEN /\ cleans' = Count(cleans, {post[p].task})
          /\ post' = [post EXCEPT ![p] = NoPost]
     ELSE /\ post' = [post EXCEPT ![p].at = "lock"]
          /\ UNCHANGED cleans
  /\ UNCHANGED <<taskVars, immVars, asyncVars, jsVars, idle, loopVars, pcVars, used, runs, dropped>>

\* Mutant: the tests before the lock are trusted.
EnqueueLockedNoRetest(t, delay) ==
  /\ fg' = IF delay THEN fg ELSE Append(fg, t)
  /\ delayed' = IF delay THEN delayed \cup {t} ELSE delayed
  /\ asyncSent' = TRUE
  /\ UNCHANGED cleans

\* What the critical section of EnqueueForegroundTaskFromEngine does with t.
EnqueueLocked(t, delay) ==
  IF cleanupStarted \/ ~asyncInit
  THEN /\ cleans' = Count(cleans, {t})
       /\ UNCHANGED <<fg, delayed, asyncSent>>
  ELSE /\ fg' = IF delay THEN fg ELSE Append(fg, t)
       /\ delayed' = IF delay THEN delayed \cup {t} ELSE delayed
       /\ asyncSent' = TRUE
       /\ UNCHANGED cleans

PostLocked(p) ==
  /\ post[p].at = "lock"
  /\ EnqueueLocked(post[p].task, post[p].delay)
  /\ post' = [post EXCEPT ![p] = NoPost]
  /\ UNCHANGED <<scheduled, closing, immVars, hook, cleanupStarted, asyncInit, asyncRefs, jsVars,
                 idle, loopVars, pcVars, used, runs, dropped>>

(***************************************************************************)
(* Calls of the owner's callbacks                                          *)
(***************************************************************************)

\* A callback or a script is running on the owner thread.
JSRuns ==
  \/ cur # None \/ at \in {"script", "io", "beforeExit", "exit"}
  \/ at = "jsimm" /\ ~broken

\* A task posted on the owner thread: a delayed one becomes a timer at once.
PostOwn(t, delay) ==
  /\ "PostOwn" \in Calls /\ JSRuns /\ t \notin used /\ ~cleanupStarted
  /\ used' = used \cup {t}
  /\ IF delay
     THEN /\ scheduled' = scheduled \cup {t}
          /\ UNCHANGED <<fg, delayed, asyncSent, cleans>>
     ELSE EnqueueLocked(t, FALSE) /\ UNCHANGED scheduled
  /\ UNCHANGED <<closing, immVars, hook, cleanupStarted, asyncInit, asyncRefs, jsVars, idle,
                 loopVars, pcVars, post, runs, dropped>>

\* Mutant: the idle handle is not started.
EnqueueTaskNoToggle(t, ref) ==
  /\ "EnqueueTask" \in Calls /\ JSRuns /\ t \notin used /\ ~cleanupStarted
  /\ used' = used \cup {t}
  /\ imm' = Append(imm, t)
  /\ refed' = IF ref THEN refed \cup {t} ELSE refed
  /\ refedCount' = IF ref THEN refedCount + 1 ELSE refedCount
  /\ UNCHANGED <<taskVars, asyncVars, jsVars, idle, loopVars, pcVars, post, runs, cleans, dropped>>

\* EdgeRuntimePlatformEnqueueTask
EnqueueTask(t, ref) ==
  /\ "EnqueueTask" \in Calls /\ JSRuns /\ t \notin used /\ ~cleanupStarted
  /\ used' = used \cup {t}
  /\ imm' = Append(imm, t)
  /\ refed' = IF ref THEN refed \cup {t} ELSE refed
  /\ refedCount' = IF ref THEN refedCount + 1 ELSE refedCount
  /\ idle' = IF ref /\ refedCount = 0
             THEN ToggleImmediateRef(TRUE, refedCount', RefedImmediates(queue, outstanding, unrefd))
             ELSE idle
  /\ UNCHANGED <<taskVars, asyncVars, jsVars, loopVars, pcVars, post, runs, cleans, dropped>>

\* setImmediate
SetImmediate(i) ==
  /\ "SetImmediate" \in Calls /\ JSRuns
  /\ i \notin LiveImmediates(queue, outstanding)
  /\ NewImmediate(i, outstanding)
  /\ unrefd' = unrefd \ {i}
  /\ UNCHANGED <<taskVars, immVars, asyncVars, outstanding, broken, loopVars, pcVars, post, histVars>>

\* toggleImmediateRef(false), called when the count reached 0 with this step.
UnrefToggle ==
  LET left == RefedImmediates(queue', outstanding', unrefd') IN
  idle' = IF left = {} /\ RefedImmediates(queue, outstanding, unrefd) # {}
          THEN ToggleImmediateRef(FALSE, refedCount, left) ELSE idle

\* clearImmediate takes i out of immediateQueue.  The head of the list that an
\* exception left outstanding stays where it is, destroyed and with its link
\* cut; any of the Immediates left may be that head.
ClearImmediate(i) ==
  /\ "ClearImmediate" \in Calls /\ JSRuns
  /\ i \in LiveImmediates(queue, outstanding)
  /\ queue' = queue \ {i} /\ outstanding' = outstanding \ {i}
  /\ IF i \in outstanding /\ at # "jsimm"
     THEN broken' \in {TRUE} \cup (IF outstanding = {i} THEN {} ELSE {broken})
     ELSE UNCHANGED broken
  /\ UNCHANGED unrefd
  /\ UnrefToggle
  /\ UNCHANGED <<taskVars, immVars, asyncVars, loopVars, pcVars, post, histVars>>

\* Immediate.unref
UnrefImmediate(i) ==
  /\ "UnrefImmediate" \in Calls /\ JSRuns
  /\ i \in RefedImmediates(queue, outstanding, unrefd)
  /\ unrefd' = unrefd \cup {i}
  /\ UNCHANGED <<queue, outstanding, broken>>
  /\ UnrefToggle
  /\ UNCHANGED <<taskVars, immVars, asyncVars, loopVars, pcVars, post, histVars>>

\* EdgeRuntimePlatformAddRef and EdgeRuntimePlatformReleaseRef, called by Workers
AddRef ==
  /\ "Ref" \in Calls /\ JSRuns /\ ~cleanupStarted /\ asyncRefs < MaxRefs
  /\ asyncRefs' = asyncRefs + 1
  /\ UNCHANGED <<hook, cleanupStarted, asyncInit, asyncSent, taskVars, immVars, jsVars, idle,
                 loopVars, pcVars, post, histVars>>

\* Mutant: a second release is not refused.
ReleaseRefTwice ==
  /\ "Ref" \in Calls /\ JSRuns /\ ~cleanupStarted /\ asyncRefs >= 0
  /\ asyncRefs' = asyncRefs - 1
  /\ UNCHANGED <<hook, cleanupStarted, asyncInit, asyncSent, taskVars, immVars, jsVars, idle,
                 loopVars, pcVars, post, histVars>>

ReleaseRef ==
  /\ "Ref" \in Calls /\ JSRuns /\ ~cleanupStarted /\ asyncRefs > 0
  /\ asyncRefs' = asyncRefs - 1
  /\ UNCHANGED <<hook, cleanupStarted, asyncInit, asyncSent, taskVars, immVars, jsVars, idle,
                 loopVars, pcVars, post, histVars>>

\* OnImmediateCheck ends by giving up the idle handle if it can.
CheckToggle ==
  IF refedCount = 0 /\ RefedImmediates(queue, outstanding, unrefd) = {}
  THEN ToggleImmediateRef(FALSE, refedCount, {}) ELSE idle

\* process.exit: ExitCurrentEnvironment stops the loop and terminates the running
\* JavaScript.  The native code below it takes the termination for handled; it
\* ends processImmediate.
ProcessExit ==
  /\ "Exit" \in Calls /\ JSRuns /\ ~exiting
  /\ exiting' = TRUE /\ stop' = TRUE
  /\ at' = IF at = "jsimm" THEN "closing" ELSE at
  /\ idle' = IF at = "jsimm" THEN CheckToggle ELSE idle
  /\ UNCHANGED <<taskVars, immVars, asyncVars, jsVars, pending, grace, why, cur, batch,
                 post, histVars>>

JSCall ==
  \/ \E t \in Tasks, b \in BOOLEAN : PostOwn(t, b) \/ EnqueueTask(t, b)
  \/ \E i \in Imms : SetImmediate(i) \/ ClearImmediate(i) \/ UnrefImmediate(i)
  \/ AddRef \/ ReleaseRef \/ ProcessExit

(***************************************************************************)
(* One iteration of uv_run                                                 *)
(***************************************************************************)

Goto(place) == at' = place /\ UNCHANGED <<why, cur, batch>>

\* What the end of a task's callback never changes.
Unaffected == UNCHANGED <<asyncVars, outstanding, unrefd, broken, exiting, grace, post, used>>

\* A timer of a delayed task fires: RunScheduledForegroundTask calls it ...
TimerRun(t) ==
  /\ at = "timers" /\ cur = None /\ t \in scheduled
  /\ cur' = t /\ runs' = Count(runs, {t})
  /\ UNCHANGED <<taskVars, immVars, asyncVars, jsVars, idle, loopVars, at, why, batch, post,
                 used, cleans, dropped>>

\* Mutant: the task is cleaned up here and when its timer has closed.
TimerEndCleans(o) ==
  /\ at = "timers" /\ cur # None
  /\ Outcome(o)
  /\ stop' = TRUE
  /\ scheduled' = scheduled \ {cur} /\ closing' = closing \cup {cur}
  /\ cleans' = Count(cleans, {cur}) /\ cur' = None
  /\ UNCHANGED <<fg, delayed, immVars, at, why, batch, runs, dropped>>
  /\ Unaffected

\* ... then stops the loop and closes the timer.
TimerEnd(o) ==
  /\ at = "timers" /\ cur # None
  /\ Outcome(o)
  /\ stop' = TRUE
  /\ scheduled' = scheduled \ {cur} /\ closing' = closing \cup {cur}
  /\ cur' = None
  /\ UNCHANGED <<fg, delayed, immVars, at, why, batch, runs, cleans, dropped>>
  /\ Unaffected

\* The iteration ends with its timers; uv_run returns if it was stopped or
\* nothing is alive.
TimersDone ==
  /\ at = "timers" /\ cur = None
  /\ IF stop \/ ~LoopAlive
     THEN Goto("return") /\ stop' = FALSE
     ELSE Goto("poll") /\ UNCHANGED stop
  /\ UNCHANGED <<taskVars, immVars, asyncVars, jsVars, idle, exiting, pending, grace, post, histVars>>

\* Mutant: the callback does not stop the loop.
ForegroundAsyncGoesOn ==
  /\ at = "poll" /\ asyncSent
  /\ asyncSent' = FALSE
  /\ UNCHANGED <<hook, cleanupStarted, asyncInit, asyncRefs, taskVars, immVars, jsVars, idle,
                 loopVars, pcVars, post, histVars>>

\* The callback of foreground_async: the loop must return to drain the tasks.
ForegroundAsync ==
  /\ at = "poll" /\ asyncSent
  /\ asyncSent' = FALSE
  /\ stop' = (stop \/ ~cleanupStarted)
  /\ UNCHANGED <<hook, cleanupStarted, asyncInit, asyncRefs, taskVars, immVars, jsVars, idle,
                 exiting, pending, grace, pcVars, post, histVars>>

\* Some other handle is ready; its callback runs JavaScript.
IoReady ==
  /\ "Io" \in Calls /\ at = "poll" /\ Goto("io")
  /\ UNCHANGED <<taskVars, immVars, asyncVars, jsVars, idle, loopVars, post, histVars>>

\* poll returns when something was ready, or when it must not block: the idle
\* handle is active, a handle is closing, a timer will be due or uv_stop was
\* called.
PollDone ==
  /\ \/ at = "io"
     \/ at = "poll" /\ ~asyncSent /\ (idle \/ closing # {} \/ scheduled # {} \/ stop)
  /\ Goto("check")
  /\ UNCHANGED <<taskVars, immVars, asyncVars, jsVars, idle, loopVars, post, histVars>>

\* OnImmediateCheck with nothing to run
CheckNothing ==
  /\ at = "check" /\ LiveImmediates(queue, outstanding) = {} /\ imm = << >>
  /\ idle' = IF refedCount = 0 THEN ToggleImmediateRef(FALSE, refedCount, {}) ELSE idle
  /\ Goto("closing")
  /\ UNCHANGED <<taskVars, immVars, asyncVars, jsVars, loopVars, post, histVars>>

\* OnImmediateCheck enters EdgeRuntimePlatformDrainImmediateTasks.
CheckDrain ==
  /\ at = "check" /\ (LiveImmediates(queue, outstanding) # {} \/ imm # << >>)
  /\ Goto("imm")
  /\ UNCHANGED <<taskVars, immVars, asyncVars, jsVars, idle, loopVars, post, histVars>>

\* Refed tasks leave the count when the batch takes them.
LeaveCount(count, S) ==
  LET n == Cardinality(S) IN IF count > n THEN count - n ELSE 0

\* Take every immediate task there is into a batch; again after each batch.
ImmBatch ==
  /\ at = "imm" /\ cur = None /\ batch = << >> /\ imm # << >>
  /\ batch' = imm /\ imm' = << >>
  /\ refedCount' = LeaveCount(refedCount, Elems(imm) \cap refed)
  /\ UNCHANGED <<taskVars, refed, asyncVars, jsVars, idle, loopVars, at, why, cur, post, histVars>>

TaskRun(place) ==
  /\ at = place /\ cur = None /\ batch # << >>
  /\ cur' = Head(batch) /\ batch' = Tail(batch)
  /\ runs' = Count(runs, {Head(batch)})
  /\ UNCHANGED <<taskVars, immVars, asyncVars, jsVars, idle, loopVars, at, why, post, used, cleans, dropped>>

ImmRun == TaskRun("imm")

\* DrainImmediateTasks ends by giving up the idle handle if it can.
ImmToggle(q, o) ==
  idle' = IF refedCount = 0
          THEN ToggleImmediateRef(FALSE, refedCount, RefedImmediates(q, o, unrefd)) ELSE idle

ImmEnd(o) ==
  /\ at = "imm" /\ cur # None /\ o # "thrown"
  /\ Outcome(o)
  /\ cleans' = Count(cleans, {cur}) /\ cur' = None
  /\ UNCHANGED <<taskVars, immVars, at, why, batch, stop, runs, dropped>>
  /\ Unaffected

\* An exception is left pending: the rest of the batch is destroyed with it and
\* the loop stops.
ImmThrow ==
  /\ "Throw" \in Calls /\ at = "imm" /\ cur # None /\ ~exiting
  /\ pending' = TRUE
  /\ cleans' = Count(cleans, {cur}) /\ cur' = None
  /\ dropped' = dropped \cup Elems(batch) /\ batch' = << >>
  /\ ImmToggle(queue, outstanding)
  /\ stop' = TRUE /\ at' = "closing"
  /\ UNCHANGED <<taskVars, immVars, why, queue, runs>>
  /\ Unaffected

\* The batches are done: processImmediate takes the outstanding Immediates of
\* an earlier call, or else the queue.  With neither, the check ends.
ImmDone ==
  /\ at = "imm" /\ cur = None /\ batch = << >> /\ imm = << >>
  /\ IF LiveImmediates(queue, outstanding) = {}
     THEN Goto("closing") /\ UNCHANGED <<queue, outstanding>>
     ELSE /\ Goto("jsimm")
          /\ outstanding' = IF outstanding # {} \/ broken THEN outstanding ELSE queue
          /\ queue' = IF outstanding # {} \/ broken THEN queue ELSE {}
  /\ ImmToggle(queue, outstanding)
  /\ UNCHANGED <<taskVars, immVars, asyncVars, unrefd, broken, loopVars, post, histVars>>

\* processImmediate runs one Immediate; its callback is any JSCall after this.
JsImmediate(i) ==
  /\ at = "jsimm" /\ ~broken /\ i \in outstanding
  /\ outstanding' = outstanding \ {i}
  /\ UNCHANGED <<taskVars, immVars, asyncVars, queue, unrefd, broken, idle, loopVars, pcVars, post, histVars>>

\* processImmediate threw with the Immediates o not run: handled, or the
\* environment stops.  An environment that is exiting only takes the exception
\* away.
ProcessImmediateThrew(o, handled) ==
  /\ IF exiting THEN UNCHANGED <<queue, stop, exiting>> /\ idle' = CheckToggle
     ELSE IF handled THEN FatalExceptionHandled(o) /\ UNCHANGED <<stop, exiting>>
     ELSE exiting' = TRUE /\ stop' = TRUE /\ UNCHANGED <<queue, idle>>
  /\ Goto("closing")
  /\ UNCHANGED <<taskVars, immVars, asyncVars, unrefd, broken, pending, grace, post, histVars>>

\* An Immediate throws; the others stay outstanding for the next check.
JsImmediateThrows(i, handled) ==
  /\ "Throw" \in Calls /\ at = "jsimm" /\ ~broken /\ i \in outstanding \ {Noop} /\ ~exiting
  /\ outstanding' = outstanding \ {i}
  /\ ProcessImmediateThrew(outstanding', handled)

\* The head of the list was cleared: prevImmediate is undefined, a TypeError.
BrokenListThrows(handled) ==
  /\ at = "jsimm" /\ broken
  /\ UNCHANGED outstanding
  /\ ProcessImmediateThrew(outstanding, handled)

\* processImmediate returned: OnImmediateCheck gives up the idle handle if it can.
JsImmediatesDone ==
  /\ at = "jsimm" /\ ~broken /\ outstanding = {}
  /\ idle' = CheckToggle
  /\ Goto("closing")
  /\ UNCHANGED <<taskVars, immVars, asyncVars, jsVars, loopVars, post, histVars>>

\* OnScheduledForegroundTaskClosed, in the loop or after the cleanup
TimerClosed(t) ==
  /\ at \in {"closing", "down"} /\ t \in closing
  /\ closing' = closing \ {t}
  /\ cleans' = Count(cleans, {t})
  /\ UNCHANGED <<fg, delayed, scheduled, immVars, asyncVars, jsVars, idle, loopVars, pcVars, post,
                 used, runs, dropped>>

ClosingDone ==
  /\ at = "closing" /\ closing = {}
  /\ Goto("timers")
  /\ UNCHANGED <<taskVars, immVars, asyncVars, jsVars, idle, loopVars, post, histVars>>

(***************************************************************************)
(* RunEventLoopUntilQuiescent                                              *)
(***************************************************************************)

\* The main script returned.
ScriptDone ==
  /\ at = "script" /\ Goto("top")
  /\ UNCHANGED <<taskVars, immVars, asyncVars, jsVars, idle, loopVars, post, histVars>>

\* The head of the loop, and uv_run up to its first iteration.
Top ==
  /\ at = "top"
  /\ Goto(IF exiting THEN "exit" ELSE IF LoopAlive THEN "timers" ELSE "return")
  /\ UNCHANGED <<taskVars, immVars, asyncVars, jsVars, idle, loopVars, post, histVars>>

\* After uv_run: leave, or drain the platform tasks.
Return ==
  /\ at = "return"
  /\ at' = (IF exiting THEN "exit" ELSE "swap") /\ why' = "turn"
  /\ UNCHANGED <<cur, batch, taskVars, immVars, asyncVars, jsVars, idle, loopVars, post, histVars>>

\* DrainForegroundTasksFromState takes both queues under the lock; the delayed
\* tasks become timers.
DrainSwap ==
  /\ at = "swap"
  /\ batch' = fg /\ fg' = << >>
  /\ scheduled' = scheduled \cup delayed /\ delayed' = {}
  /\ at' = "drain"
  /\ UNCHANGED <<closing, immVars, asyncVars, jsVars, idle, loopVars, why, cur, post, histVars>>

DrainRun == TaskRun("drain")

\* A task ended; if an exception is pending the rest of the batch is destroyed.
DrainEnd(o) ==
  /\ at = "drain" /\ cur # None
  /\ Outcome(o)
  /\ cleans' = Count(cleans, {cur}) /\ cur' = None
  /\ IF o = "thrown" THEN batch' = << >> /\ dropped' = dropped \cup Elems(batch)
     ELSE UNCHANGED <<batch, dropped>>
  /\ UNCHANGED <<taskVars, immVars, at, why, stop, runs>>
  /\ Unaffected

DrainDone ==
  /\ at = "drain" /\ cur = None /\ batch = << >>
  /\ Goto("turn")
  /\ UNCHANGED <<taskVars, immVars, asyncVars, jsVars, idle, loopVars, post, histVars>>

\* HandlePendingExceptionAfterLoopStep: handled, or the loop is left.
TurnException ==
  /\ at = "turn" /\ pending
  /\ pending' = FALSE
  /\ \/ FatalExceptionHandled(outstanding) /\ UNCHANGED at
     \/ at' = "exit" /\ ~exiting /\ UNCHANGED <<queue, idle>>
  /\ UNCHANGED <<taskVars, immVars, why, cur, batch, stop, runs, cleans, dropped>>
  /\ Unaffected

\* The decision after a drain: leave, go on, drain again for a while, and emit
\* beforeExit at last.
Turn ==
  /\ at = "turn" /\ ~pending
  /\ \/ /\ why = "turn"
        /\ why' = IF exiting \/ LoopAlive \/ grace = MaxGrace THEN "turn" ELSE "grace"
        /\ at' = IF exiting THEN "exit" ELSE IF LoopAlive THEN "top"
                 ELSE IF grace < MaxGrace THEN "swap" ELSE "beforeExit"
        /\ grace' = IF exiting THEN grace ELSE IF LoopAlive \/ grace = MaxGrace THEN 0 ELSE grace + 1
     \/ /\ why = "grace"
        /\ at' = "top" /\ grace' = IF LoopAlive THEN 0 ELSE grace
        /\ UNCHANGED why
     \/ /\ why = "before"
        /\ at' = IF LoopAlive THEN "top" ELSE "exit"
        /\ UNCHANGED <<why, grace>>
  /\ UNCHANGED <<taskVars, immVars, asyncVars, jsVars, idle, stop, exiting, pending, cur, batch,
                 post, histVars>>

\* The beforeExit event was emitted.
BeforeExitDone ==
  /\ at = "beforeExit"
  /\ at' = "swap" /\ why' = "before"
  /\ UNCHANGED <<cur, batch, taskVars, immVars, asyncVars, jsVars, idle, loopVars, post, histVars>>

(***************************************************************************)
(* OnPlatformEnvCleanup                                                    *)
(***************************************************************************)

\* Up to the lock: no more posts, the immediate tasks are cleaned up.
CleanupStart ==
  /\ at = "exit"
  /\ cleanupStarted' = TRUE /\ hook' = FALSE /\ asyncRefs' = 0
  /\ cleans' = Count(cleans, Elems(imm)) /\ imm' = << >>
  /\ Goto("cleanup")
  /\ UNCHANGED <<asyncInit, asyncSent, taskVars, refed, refedCount, jsVars, idle, loopVars, post,
                 used, runs, dropped>>

\* The locked part and the closing of the handles.
CleanupFinish ==
  /\ at = "cleanup"
  /\ cleans' = Count(cleans, Elems(fg) \cup delayed)
  /\ fg' = << >> /\ delayed' = {}
  /\ closing' = closing \cup scheduled /\ scheduled' = {}
  /\ refedCount' = 0
  /\ asyncInit' = FALSE
  /\ Goto("down")
  /\ UNCHANGED <<hook, cleanupStarted, asyncSent, asyncRefs, imm, refed, jsVars, idle, loopVars,
                 post, used, runs, dropped>>

(***************************************************************************)
(* Specification                                                           *)
(***************************************************************************)
OwnerStep ==
  \/ InstallHooks \/ ScriptDone \/ Top
  \/ \E t \in Tasks : TimerRun(t) \/ TimerClosed(t)
  \/ \E o \in {"ok", "handled", "thrown"} : TimerEnd(o) \/ ImmEnd(o) \/ DrainEnd(o)
  \/ TimersDone \/ ForegroundAsync \/ PollDone
  \/ CheckNothing \/ CheckDrain \/ ImmBatch \/ ImmRun \/ ImmThrow \/ ImmDone
  \/ \E i \in Immediates : JsImmediate(i)
  \/ \E handled \in BOOLEAN : BrokenListThrows(handled)
  \/ JsImmediatesDone \/ ClosingDone
  \/ Return \/ DrainSwap \/ DrainRun \/ DrainDone \/ TurnException \/ Turn \/ BeforeExitDone
  \/ CleanupStart \/ CleanupFinish

PostStep(p) == PostTest(p) \/ PostLocked(p)

Next ==
  \/ OwnerStep
  \/ JSCall
  \/ IoReady
  \/ \E i \in Imms, handled \in BOOLEAN : JsImmediateThrows(i, handled)
  \/ \E p \in Posters : PostStep(p) \/ \E t \in Tasks, d \in BOOLEAN : PostBegin(p, t, d)

Spec == Init /\ [][Next]_vars

\* Threads that can step do, a signal is not passed over for other I/O for ever,
\* and a timer that stays armed becomes due.
FairSpec ==
  /\ Spec
  /\ WF_vars(OwnerStep)
  /\ SF_vars(ForegroundAsync)
  /\ \A t \in Tasks : SF_vars(TimerRun(t))
  /\ \A p \in Posters : WF_vars(PostStep(p))

(***************************************************************************)
(* Properties                                                              *)
(***************************************************************************)
Places == {"boot", "script", "top", "return", "swap", "drain", "turn", "beforeExit", "exit",
           "cleanup", "down"} \cup Phases

FlagsOK ==
  /\ hook \in BOOLEAN /\ cleanupStarted \in BOOLEAN /\ asyncInit \in BOOLEAN
  /\ asyncSent \in BOOLEAN /\ idle \in BOOLEAN
  /\ broken \in BOOLEAN /\ stop \in BOOLEAN /\ exiting \in BOOLEAN /\ pending \in BOOLEAN
CountsOK == asyncRefs \in 0..MaxRefs /\ refedCount \in Nat /\ grace \in 0..MaxGrace
QueuesOK ==
  /\ fg \in Seq(Tasks) /\ imm \in Seq(Tasks) /\ batch \in Seq(Tasks)
  /\ delayed \subseteq Tasks /\ scheduled \subseteq Tasks /\ closing \subseteq Tasks
  /\ refed \subseteq Tasks
ImmediatesOK ==
  queue \subseteq Immediates /\ outstanding \subseteq Immediates /\ unrefd \subseteq Imms
OwnerOK == at \in Places /\ why \in {"turn", "grace", "before"} /\ cur \in Tasks \cup {None}
PostsOK ==
  post \in [Posters -> {NoPost} \cup [at : {"test", "lock"}, task : Tasks, delay : BOOLEAN]]
HistoryOK ==
  /\ used \subseteq Tasks /\ dropped \subseteq Tasks
  /\ runs \in [Tasks -> Nat] /\ cleans \in [Tasks -> Nat]

\* Every variable has its type; in particular the counts stay within their
\* bounds, although a Worker's reference is released from three places.
TypeOK ==
  FlagsOK /\ CountsOK /\ QueuesOK /\ ImmediatesOK /\ OwnerOK /\ PostsOK /\ HistoryOK

\* Where a task is while it waits or runs.
Held(t) ==
  \/ t \in delayed \cup scheduled \cup closing \/ t = cur
  \/ t \in Elems(fg) \cup Elems(imm) \cup Elems(batch)
  \/ \E p \in Posters : post[p].task = t

\* A task runs at most once and its cleanup, which frees its data, runs once,
\* after the task has left every queue: whatever way the drain, the timer, the
\* failed post and the cleanup of the environment interleave.
CleanedOnce ==
  \A t \in Tasks :
    /\ runs[t] <= 1 /\ cleans[t] <= 1
    /\ cleans[t] = 1 => ~Held(t)

\* No task is lost: one that was handed over is waiting or running, or its
\* cleanup ran, or it was in a batch that an exception destroyed.
NothingForgotten ==
  \A t \in used : Held(t) \/ cleans[t] = 1 \/ t \in dropped

\* The environment's cleanup leaves no task behind, and none is queued later: a
\* poster that passed the unlocked test of cleanup_started is caught by the
\* second test, under the lock.
NothingAfterCleanup ==
  at = "down" => /\ fg = << >> /\ imm = << >> /\ batch = << >>
                 /\ delayed = {} /\ scheduled = {} /\ ~asyncInit

\* The inductive strengthening of NothingAfterCleanup: where the owner is when a
\* batch or a callback is in progress, and when the cleanup has begun.
CleanupInv ==
  /\ cleanupStarted <=> at \in {"cleanup", "down"}
  /\ cur # None => at \in {"timers", "imm", "drain"}
  /\ batch # << >> => at \in {"imm", "drain"}
  /\ cleanupStarted => imm = << >>
  /\ NothingAfterCleanup

\* refed_immediate_count is the number of refed tasks in immediate_tasks.
RefedCountExact ==
  ~cleanupStarted => refedCount = Cardinality(Elems(imm) \cap refed)

\* Every task is accounted for through posts, batches, timers, exceptions and
\* cleanup: none is lost, run or freed twice, and the count of refed ones, which
\* decides on the idle handle, is exact.
TasksAccounted == CleanedOnce /\ NothingForgotten /\ RefedCountExact

\* While a refed immediate task or a referenced Immediate waits, the idle handle
\* is active, so that the loop neither blocks in poll nor ends: native code and
\* JavaScript toggle the one handle on behalf of two counts.
IdleKept ==
  (refedCount > 0 \/ RefedImmediates(queue, outstanding, unrefd) # {}) /\ ~cleanupStarted
  => idle

\* A foreground task in the queue keeps uv_run from going on without it: the
\* wakeup is on its way or the loop is about to return and drain.
ForegroundWakeup ==
  (fg # << >> \/ delayed # {}) /\ at \in Phases => asyncSent \/ stop

\* The inductive strengthening of ForegroundWakeup: it holds wherever the owner
\* is not on its way to the next drain or to the cleanup.
WakeupInv ==
  (fg # << >> \/ delayed # {}) /\ at \notin {"return", "swap", "exit", "cleanup", "down"}
  => asyncSent \/ stop

\* A task handed over by post is run and cleaned up, or cleaned up, or dropped
\* with its batch: the loop does not sleep on it and cleanup does not miss it.
PostedIsSettled ==
  \A t \in Tasks : (\E p \in Posters : post[p].task = t) ~> (cleans[t] = 1 \/ t \in dropped)

\* A refed immediate task is settled too, although nothing else may keep the
\* loop running.
RefedIsSettled ==
  \A t \in Tasks : (t \in refed) ~> (cleans[t] = 1 \/ t \in dropped)

\* Whichever way a task came, it is settled in the end.
TasksSettle == PostedIsSettled /\ RefedIsSettled

\* Immediates that a handled exception left outstanding run, even unreferenced
\* ones, because the handler schedules a referenced Immediate; or the loop ends.
\* lib/internal/timers.js:451 promises it of outstandingQueue.  It holds unless
\* the first Immediate left over is cleared before the next check.
OutstandingRuns ==
  \A i \in Imms : (i \in outstanding) ~> (i \notin outstanding \/ at = "down")

\* The idle handle does not keep the loop spinning when nothing needs it.
IdleReleased ==
  (idle /\ refedCount = 0 /\ RefedImmediates(queue, outstanding, unrefd) = {})
  ~> (~idle \/ refedCount > 0 \/ RefedImmediates(queue, outstanding, unrefd) # {} \/ at = "down")
=============================================================================
