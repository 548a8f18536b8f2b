------------------------ MODULE PlatformTasksProofs ------------------------
(***************************************************************************)
(* Proofs about PlatformTasks, for every set of tasks, posters and         *)
(* Immediates and every bound.                                             *)
(***************************************************************************)
EXTENDS PlatformTasks, FiniteSetTheorems, TLAPS

Outcomes == {"ok", "handled", "thrown"}

(***************************************************************************)
(* Nothing after the cleanup                                               *)
(***************************************************************************)

\* Every step keeps the strengthened invariant of the environment's cleanup.
LEMMA CleanupStep == CleanupInv /\ [Next]_vars => CleanupInv'
<1> SUFFICES ASSUME CleanupInv, [Next]_vars PROVE CleanupInv'
  OBVIOUS
<1> USE DEF CleanupInv, NothingAfterCleanup, taskVars, immVars, asyncVars, jsVars, loopVars,
            pcVars, histVars
<1>1. CASE InstallHooks
  BY <1>1 DEF InstallHooks
<1>2. CASE ScriptDone
  BY <1>2 DEF ScriptDone, Goto
<1>3. CASE Top
  BY <1>3 DEF Top, Goto
<1>4. ASSUME NEW t \in Tasks, TimerRun(t) PROVE CleanupInv'
  BY <1>4 DEF TimerRun
<1>5. ASSUME NEW t \in Tasks, TimerClosed(t) PROVE CleanupInv'
  BY <1>5 DEF TimerClosed
<1>6. ASSUME NEW o \in Outcomes, TimerEnd(o) PROVE CleanupInv'
  BY <1>6 DEF TimerEnd, Outcome, FatalExceptionHandled, NewImmediate, Unaffected
<1>7. ASSUME NEW o \in Outcomes, ImmEnd(o) PROVE CleanupInv'
  BY <1>7 DEF ImmEnd, Outcome, FatalExceptionHandled, NewImmediate, Unaffected
<1>8. ASSUME NEW o \in Outcomes, DrainEnd(o) PROVE CleanupInv'
  BY <1>8 DEF DrainEnd, Outcome, FatalExceptionHandled, NewImmediate, Unaffected
<1>9. CASE TimersDone
  BY <1>9 DEF TimersDone, Goto
<1>10. CASE ForegroundAsync
  BY <1>10 DEF ForegroundAsync
<1>11. CASE PollDone
  BY <1>11 DEF PollDone, Goto
<1>12. CASE CheckNothing
  BY <1>12 DEF CheckNothing, Goto
<1>13. CASE CheckDrain
  BY <1>13 DEF CheckDrain, Goto
<1>14. CASE ImmBatch
  BY <1>14 DEF ImmBatch
<1>15. CASE ImmRun
  BY <1>15 DEF ImmRun, TaskRun
<1>16. CASE ImmThrow
  BY <1>16 DEF ImmThrow, ImmToggle, Unaffected
<1>17. CASE ImmDone
  BY <1>17 DEF ImmDone, ImmToggle, Goto
<1>18. ASSUME NEW i \in Immediates, JsImmediate(i) PROVE CleanupInv'
  BY <1>18 DEF JsImmediate
<1>19. CASE JsImmediatesDone
  BY <1>19 DEF JsImmediatesDone, Goto
<1>20. CASE ClosingDone
  BY <1>20 DEF ClosingDone, Goto
<1>21. CASE Return
  BY <1>21 DEF Return
<1>22. CASE DrainSwap
  BY <1>22 DEF DrainSwap
<1>23. CASE DrainRun
  BY <1>23 DEF DrainRun, TaskRun
<1>24. CASE DrainDone
  BY <1>24 DEF DrainDone, Goto
<1>25. CASE TurnException
  BY <1>25 DEF TurnException, FatalExceptionHandled, NewImmediate, Unaffected
<1>26. CASE Turn
  BY <1>26 DEF Turn
<1>27. CASE BeforeExitDone
  BY <1>27 DEF BeforeExitDone
<1>28. CASE CleanupStart
  BY <1>28 DEF CleanupStart, Goto
<1>29. CASE CleanupFinish
  BY <1>29 DEF CleanupFinish, Goto
<1>30. ASSUME NEW t \in Tasks, NEW b \in BOOLEAN, PostOwn(t, b) PROVE CleanupInv'
  BY <1>30 DEF PostOwn, EnqueueLocked, JSRuns
<1>31. ASSUME NEW t \in Tasks, NEW b \in BOOLEAN, EnqueueTask(t, b) PROVE CleanupInv'
  BY <1>31 DEF EnqueueTask, JSRuns
<1>32. ASSUME NEW i \in Imms, SetImmediate(i) PROVE CleanupInv'
  BY <1>32 DEF SetImmediate, JSRuns, NewImmediate
<1>33. ASSUME NEW i \in Imms, ClearImmediate(i) PROVE CleanupInv'
  BY <1>33 DEF ClearImmediate, JSRuns, UnrefToggle
<1>34. ASSUME NEW i \in Imms, UnrefImmediate(i) PROVE CleanupInv'
  BY <1>34 DEF UnrefImmediate, JSRuns, UnrefToggle
<1>35. CASE AddRef
  BY <1>35 DEF AddRef, JSRuns
<1>36. CASE ReleaseRef
  BY <1>36 DEF ReleaseRef, JSRuns
<1>37. CASE ProcessExit
  BY <1>37 DEF ProcessExit, JSRuns
<1>38. CASE IoReady
  BY <1>38 DEF IoReady, Goto
<1>39. ASSUME NEW i \in Imms, NEW h \in BOOLEAN, JsImmediateThrows(i, h) PROVE CleanupInv'
  BY <1>39 DEF JsImmediateThrows, ProcessImmediateThrew, FatalExceptionHandled, NewImmediate, Goto
<1>40. ASSUME NEW p \in Posters, PostTest(p) PROVE CleanupInv'
  BY <1>40 DEF PostTest
<1>41. ASSUME NEW p \in Posters, PostLocked(p) PROVE CleanupInv'
  BY <1>41 DEF PostLocked, EnqueueLocked
<1>42. ASSUME NEW p \in Posters, NEW t \in Tasks, NEW b \in BOOLEAN, PostBegin(p, t, b) PROVE CleanupInv'
  BY <1>42 DEF PostBegin
<1>43. CASE UNCHANGED vars
  BY <1>43 DEF vars
<1>44. ASSUME NEW h \in BOOLEAN, BrokenListThrows(h) PROVE CleanupInv'
  BY <1>44 DEF BrokenListThrows, ProcessImmediateThrew, FatalExceptionHandled, NewImmediate, Goto
<1> QED
  BY <1>1, <1>2, <1>3, <1>4, <1>5, <1>6, <1>7, <1>8, <1>9, <1>10, <1>11, <1>12, <1>13, <1>14,
     <1>15, <1>16, <1>17, <1>18, <1>19, <1>20, <1>21, <1>22, <1>23, <1>24, <1>25, <1>26, <1>27,
     <1>28, <1>29, <1>30, <1>31, <1>32, <1>33, <1>34, <1>35, <1>36, <1>37, <1>38, <1>39, <1>40,
     <1>41, <1>42, <1>43, <1>44
  DEF Next, OwnerStep, JSCall, PostStep, Outcomes

\* After OnPlatformEnvCleanup no queue holds a task and the async handle is not
\* used again, for any number of posters in any state of their calls.
THEOREM CleanupSafe == Spec => []NothingAfterCleanup
<1>1. Init => CleanupInv
  BY DEF Init, CleanupInv, NothingAfterCleanup
<1>2. CleanupInv /\ [Next]_vars => CleanupInv'
  BY CleanupStep
<1>3. CleanupInv => NothingAfterCleanup
  BY DEF CleanupInv
<1> QED
  BY <1>1, <1>2, <1>3, PTL DEF Spec

(***************************************************************************)
(* Types                                                                   *)
(***************************************************************************)

\* Counting a run or a cleanup keeps the counters.
LEMMA CountType ==
  ASSUME NEW f \in [Tasks -> Nat], NEW S PROVE Count(f, S) \in [Tasks -> Nat]
BY DEF Count

\* The elements of a queue are a finite set of tasks.
LEMMA ElemsFinite ==
  ASSUME NEW s \in Seq(Tasks) PROVE IsFiniteSet(Elems(s)) /\ Elems(s) \subseteq Tasks
<1>1. DOMAIN s = 1..Len(s) /\ Len(s) \in Nat /\ s \in [1..Len(s) -> Tasks]
  OBVIOUS
<1>2. IsFiniteSet(1..Len(s))
  BY <1>1, FS_Interval
<1>3. Elems(s) = {s[i] : i \in 1..Len(s)}
  BY <1>1 DEF Elems
<1>4. s \in Surjection(1..Len(s), Elems(s))
  BY <1>1, <1>3 DEF Surjection
<1> QED
  BY <1>1, <1>2, <1>3, <1>4, FS_Surjection

\* refed_immediate_count never grows when a batch takes tasks, nor drops below 0.
LEMMA LeaveCountBounds ==
  ASSUME NEW count \in Nat, NEW S, IsFiniteSet(S)
  PROVE  LeaveCount(count, S) \in Nat /\ LeaveCount(count, S) <= count
<1>1. Cardinality(S) \in Nat
  BY FS_CardinalityType
<1> QED
  BY <1>1 DEF LeaveCount

\* The empty queue is a queue.
LEMMA EmptyQueue == << >> \in Seq(Tasks)
OBVIOUS

\* Enqueueing under the lock puts a task into one of the queues or cleans it up.
LEMMA EnqueueLockedType ==
  ASSUME QueuesOK, HistoryOK, NEW t \in Tasks, NEW d, EnqueueLocked(t, d)
  PROVE  fg' \in Seq(Tasks) /\ delayed' \subseteq Tasks /\ cleans' \in [Tasks -> Nat]
<1>1. Append(fg, t) \in Seq(Tasks)
  BY DEF QueuesOK
<1>2. Count(cleans, {t}) \in [Tasks -> Nat]
  BY CountType DEF HistoryOK
<1> QED
  BY <1>1, <1>2 DEF EnqueueLocked, QueuesOK, HistoryOK

\* The types of the flags.
LEMMA FlagsStep == TypeOK /\ [Next]_vars => FlagsOK'
<1> SUFFICES ASSUME TypeOK, [Next]_vars PROVE FlagsOK'
  OBVIOUS
<1>0. FlagsOK /\ CountsOK /\ QueuesOK /\ ImmediatesOK /\ OwnerOK /\ PostsOK /\ HistoryOK
  BY DEF TypeOK
<1> USE <1>0, ConstantsAssumption
     DEF FlagsOK, taskVars, immVars, asyncVars, jsVars, loopVars, pcVars, histVars
<1>1. CASE InstallHooks
  BY <1>1 DEF InstallHooks
<1>2. ASSUME NEW o \in Outcomes, TimerEnd(o) PROVE FlagsOK'
  BY <1>2 DEF TimerEnd, Outcome, FatalExceptionHandled, NewImmediate, Unaffected, ToggleImmediateRef
<1>3. ASSUME NEW o \in Outcomes, ImmEnd(o) PROVE FlagsOK'
  BY <1>3 DEF ImmEnd, Outcome, FatalExceptionHandled, NewImmediate, Unaffected, ToggleImmediateRef
<1>4. ASSUME NEW o \in Outcomes, DrainEnd(o) PROVE FlagsOK'
  BY <1>4 DEF DrainEnd, Outcome, FatalExceptionHandled, NewImmediate, Unaffected, ToggleImmediateRef
<1>5. CASE TimersDone
  BY <1>5 DEF TimersDone
<1>6. CASE ForegroundAsync
  BY <1>6 DEF ForegroundAsync
<1>7. CASE CheckNothing
  BY <1>7 DEF CheckNothing, ToggleImmediateRef
<1>8. CASE ImmThrow
  BY <1>8 DEF ImmThrow, ImmToggle, Unaffected, ToggleImmediateRef
<1>9. CASE ImmDone
  BY <1>9 DEF ImmDone, ImmToggle, ToggleImmediateRef
<1>10. CASE JsImmediatesDone
  BY <1>10 DEF JsImmediatesDone, CheckToggle, ToggleImmediateRef
<1>11. CASE TurnException
  BY <1>11 DEF TurnException, FatalExceptionHandled, NewImmediate, Unaffected, ToggleImmediateRef
<1>12. CASE CleanupStart
  BY <1>12 DEF CleanupStart
<1>13. CASE CleanupFinish
  BY <1>13 DEF CleanupFinish
<1>14. ASSUME NEW t \in Tasks, NEW b \in BOOLEAN, PostOwn(t, b) PROVE FlagsOK'
  BY <1>14 DEF PostOwn, EnqueueLocked
<1>15. ASSUME NEW t \in Tasks, NEW b \in BOOLEAN, EnqueueTask(t, b) PROVE FlagsOK'
  BY <1>15 DEF EnqueueTask, ToggleImmediateRef
<1>16. ASSUME NEW i \in Imms, SetImmediate(i) PROVE FlagsOK'
  BY <1>16 DEF SetImmediate, NewImmediate, ToggleImmediateRef
<1>17. ASSUME NEW i \in Imms, ClearImmediate(i) PROVE FlagsOK'
  BY <1>17 DEF ClearImmediate, UnrefToggle, ToggleImmediateRef
<1>18. ASSUME NEW i \in Imms, UnrefImmediate(i) PROVE FlagsOK'
  BY <1>18 DEF UnrefImmediate, UnrefToggle, ToggleImmediateRef
<1>19. CASE ProcessExit
  BY <1>19 DEF ProcessExit, CheckToggle, ToggleImmediateRef
<1>20. ASSUME NEW i \in Imms, NEW h \in BOOLEAN, JsImmediateThrows(i, h) PROVE FlagsOK'
  BY <1>20 DEF JsImmediateThrows, ProcessImmediateThrew, CheckToggle,
              FatalExceptionHandled, NewImmediate, ToggleImmediateRef
<1>21. ASSUME NEW p \in Posters, PostLocked(p) PROVE FlagsOK'
  BY <1>21 DEF PostLocked, EnqueueLocked
<1>22. CASE UNCHANGED <<hook, cleanupStarted, asyncInit, asyncSent, idle, broken, stop, exiting, pending>>
  BY <1>22
<1>23. ASSUME NEW h \in BOOLEAN, BrokenListThrows(h) PROVE FlagsOK'
  BY <1>23 DEF BrokenListThrows, ProcessImmediateThrew, CheckToggle,
              FatalExceptionHandled, NewImmediate, ToggleImmediateRef
<1> HIDE DEF FlagsOK
<1> QED
  BY <1>1, <1>2, <1>3, <1>4, <1>5, <1>6, <1>7, <1>8, <1>9, <1>10, <1>11, <1>12, <1>13, <1>14,
     <1>15, <1>16, <1>17, <1>18, <1>19, <1>20, <1>21, <1>22, <1>23
  DEF Next, OwnerStep, JSCall, PostStep, Outcomes, vars,
      ScriptDone, Goto, Top, TimerRun, TimerClosed, PollDone, CheckDrain, ImmBatch,
      ImmRun, TaskRun, JsImmediate, ClosingDone, Return, DrainSwap, DrainRun,
      DrainDone, Turn, BeforeExitDone, AddRef, ReleaseRef, IoReady, PostTest,
      PostBegin

\* The types of the counters.
LEMMA CountsStep == TypeOK /\ [Next]_vars => CountsOK'
<1> SUFFICES ASSUME TypeOK, [Next]_vars PROVE CountsOK'
  OBVIOUS
<1>0. FlagsOK /\ CountsOK /\ QueuesOK /\ ImmediatesOK /\ OwnerOK /\ PostsOK /\ HistoryOK
  BY DEF TypeOK
<1> USE <1>0, ConstantsAssumption
     DEF CountsOK, taskVars, immVars, asyncVars, jsVars, loopVars, pcVars, histVars
<1>1. CASE ImmBatch
  BY <1>1, ElemsFinite, LeaveCountBounds, FS_Subset DEF ImmBatch, QueuesOK
<1>2. CASE Turn
  BY <1>2 DEF Turn
<1>3. CASE CleanupStart
  BY <1>3 DEF CleanupStart
<1>4. CASE CleanupFinish
  BY <1>4 DEF CleanupFinish
<1>5. ASSUME NEW t \in Tasks, NEW b \in BOOLEAN, EnqueueTask(t, b) PROVE CountsOK'
  BY <1>5 DEF EnqueueTask
<1>6. CASE AddRef
  BY <1>6 DEF AddRef
<1>7. CASE ReleaseRef
  BY <1>7 DEF ReleaseRef
<1>8. CASE UNCHANGED <<asyncRefs, refedCount, grace>>
  BY <1>8
<1> HIDE DEF CountsOK
<1> QED
  BY <1>1, <1>2, <1>3, <1>4, <1>5, <1>6, <1>7, <1>8
  DEF Next, OwnerStep, JSCall, PostStep, Outcomes, vars,
      InstallHooks, ScriptDone, Goto, Top, TimerRun, TimerClosed, TimerEnd, Outcome,
      Unaffected, ImmEnd, DrainEnd, TimersDone, ForegroundAsync, PollDone,
      CheckNothing, CheckDrain, ImmRun, TaskRun, ImmThrow, ImmDone, JsImmediate,
      JsImmediatesDone, ClosingDone, Return, DrainSwap, DrainRun, DrainDone,
      TurnException, BeforeExitDone, PostOwn, EnqueueLocked, SetImmediate,
      ClearImmediate, UnrefImmediate, ProcessExit, IoReady, JsImmediateThrows,
      BrokenListThrows, ProcessImmediateThrew,
      PostTest, PostLocked, PostBegin

\* The types of the queues.
LEMMA QueuesStep == TypeOK /\ [Next]_vars => QueuesOK'
<1> SUFFICES ASSUME TypeOK, [Next]_vars PROVE QueuesOK'
  OBVIOUS
<1>0. FlagsOK /\ CountsOK /\ QueuesOK /\ ImmediatesOK /\ OwnerOK /\ PostsOK /\ HistoryOK
  BY DEF TypeOK
<1> USE <1>0, ConstantsAssumption
     DEF QueuesOK, taskVars, immVars, asyncVars, jsVars, loopVars, pcVars, histVars
<1>1. ASSUME NEW t \in Tasks, TimerClosed(t) PROVE QueuesOK'
  BY <1>1 DEF TimerClosed
<1>2. ASSUME NEW o \in Outcomes, TimerEnd(o) PROVE QueuesOK'
  BY <1>2 DEF TimerEnd, OwnerOK
<1>3. ASSUME NEW o \in Outcomes, DrainEnd(o) PROVE QueuesOK'
  BY <1>3, EmptyQueue DEF DrainEnd
<1>4. CASE ImmBatch
  BY <1>4, EmptyQueue DEF ImmBatch
<1>5. CASE ImmRun
  BY <1>5 DEF ImmRun, TaskRun
<1>6. CASE ImmThrow
  BY <1>6, EmptyQueue DEF ImmThrow
<1>7. CASE DrainSwap
  BY <1>7, EmptyQueue DEF DrainSwap
<1>8. CASE DrainRun
  BY <1>8 DEF DrainRun, TaskRun
<1>9. CASE CleanupStart
  BY <1>9, EmptyQueue DEF CleanupStart, Goto
<1>10. CASE CleanupFinish
  BY <1>10, EmptyQueue DEF CleanupFinish, Goto
<1>11. ASSUME NEW t \in Tasks, NEW b \in BOOLEAN, PostOwn(t, b) PROVE QueuesOK'
  BY <1>11, EnqueueLockedType DEF PostOwn
<1>12. ASSUME NEW t \in Tasks, NEW b \in BOOLEAN, EnqueueTask(t, b) PROVE QueuesOK'
  BY <1>12 DEF EnqueueTask
<1>13. ASSUME NEW p \in Posters, PostLocked(p) PROVE QueuesOK'
  <2>1. post[p].task \in Tasks /\ EnqueueLocked(post[p].task, post[p].delay)
    BY <1>13 DEF PostLocked, PostsOK, NoPost
  <2>2. fg' \in Seq(Tasks) /\ delayed' \subseteq Tasks /\ cleans' \in [Tasks -> Nat]
    BY <2>1, EnqueueLockedType
  <2> QED
    BY <1>13, <2>2 DEF PostLocked
<1>14. CASE UNCHANGED <<fg, imm, batch, delayed, scheduled, closing, refed>>
  BY <1>14
<1> HIDE DEF QueuesOK
<1> QED
  BY <1>1, <1>2, <1>3, <1>4, <1>5, <1>6, <1>7, <1>8, <1>9, <1>10, <1>11, <1>12, <1>13, <1>14
  DEF Next, OwnerStep, JSCall, PostStep, Outcomes, vars,
      InstallHooks, ScriptDone, Goto, Top, TimerRun, ImmEnd, Outcome, Unaffected,
      TimersDone, ForegroundAsync, PollDone, CheckNothing, CheckDrain, ImmDone,
      JsImmediate, JsImmediatesDone, ClosingDone, Return, DrainDone, TurnException,
      Turn, BeforeExitDone, SetImmediate, ClearImmediate, UnrefImmediate, AddRef,
      ReleaseRef, ProcessExit, IoReady, JsImmediateThrows,
      BrokenListThrows, ProcessImmediateThrew, PostTest, PostBegin

\* The types of the lists of Immediates.
LEMMA ImmediatesStep == TypeOK /\ [Next]_vars => ImmediatesOK'
<1> SUFFICES ASSUME TypeOK, [Next]_vars PROVE ImmediatesOK'
  OBVIOUS
<1>0. FlagsOK /\ CountsOK /\ QueuesOK /\ ImmediatesOK /\ OwnerOK /\ PostsOK /\ HistoryOK
  BY DEF TypeOK
<1> USE <1>0, ConstantsAssumption
     DEF ImmediatesOK, Immediates, taskVars, immVars, asyncVars, jsVars, loopVars, pcVars, histVars
<1>1. ASSUME NEW o \in Outcomes, TimerEnd(o) PROVE ImmediatesOK'
  BY <1>1 DEF TimerEnd, Outcome, FatalExceptionHandled, NewImmediate, Unaffected
<1>2. ASSUME NEW o \in Outcomes, ImmEnd(o) PROVE ImmediatesOK'
  BY <1>2 DEF ImmEnd, Outcome, FatalExceptionHandled, NewImmediate, Unaffected
<1>3. ASSUME NEW o \in Outcomes, DrainEnd(o) PROVE ImmediatesOK'
  BY <1>3 DEF DrainEnd, Outcome, FatalExceptionHandled, NewImmediate, Unaffected
<1>4. CASE ImmDone
  BY <1>4 DEF ImmDone
<1>5. ASSUME NEW i \in Immediates, JsImmediate(i) PROVE ImmediatesOK'
  BY <1>5 DEF JsImmediate
<1>6. CASE TurnException
  BY <1>6 DEF TurnException, FatalExceptionHandled, NewImmediate, Unaffected
<1>7. ASSUME NEW i \in Imms, SetImmediate(i) PROVE ImmediatesOK'
  BY <1>7 DEF SetImmediate, NewImmediate
<1>8. ASSUME NEW i \in Imms, ClearImmediate(i) PROVE ImmediatesOK'
  BY <1>8 DEF ClearImmediate
<1>9. ASSUME NEW i \in Imms, UnrefImmediate(i) PROVE ImmediatesOK'
  BY <1>9 DEF UnrefImmediate
<1>10. ASSUME NEW i \in Imms, NEW h \in BOOLEAN, JsImmediateThrows(i, h) PROVE ImmediatesOK'
  BY <1>10 DEF JsImmediateThrows, ProcessImmediateThrew, FatalExceptionHandled, NewImmediate
<1>11. CASE UNCHANGED jsVars
  BY <1>11
<1>12. ASSUME NEW h \in BOOLEAN, BrokenListThrows(h) PROVE ImmediatesOK'
  BY <1>12 DEF BrokenListThrows, ProcessImmediateThrew, FatalExceptionHandled, NewImmediate
<1> HIDE DEF ImmediatesOK
<1> QED
  BY <1>1, <1>2, <1>3, <1>4, <1>5, <1>6, <1>7, <1>8, <1>9, <1>10, <1>11, <1>12
  DEF Next, OwnerStep, JSCall, PostStep, Outcomes, vars,
      InstallHooks, ScriptDone, Goto, Top, TimerRun, TimerClosed, TimersDone,
      ForegroundAsync, PollDone, CheckNothing, CheckDrain, ImmBatch, ImmRun, TaskRun,
      ImmThrow, Unaffected, JsImmediatesDone, ClosingDone, Return, DrainSwap, DrainRun,
      DrainDone, Turn, BeforeExitDone, CleanupStart, CleanupFinish, PostOwn,
      EnqueueLocked, EnqueueTask, AddRef, ReleaseRef, ProcessExit, IoReady, PostTest,
      PostLocked, PostBegin

\* The types of the place and the running task of the owner.
LEMMA OwnerTypeStep == TypeOK /\ [Next]_vars => OwnerOK'
<1> SUFFICES ASSUME TypeOK, [Next]_vars PROVE OwnerOK'
  OBVIOUS
<1>0. FlagsOK /\ CountsOK /\ QueuesOK /\ ImmediatesOK /\ OwnerOK /\ PostsOK /\ HistoryOK
  BY DEF TypeOK
<1> USE <1>0, ConstantsAssumption
     DEF OwnerOK, QueuesOK, Places, Phases, taskVars, immVars, asyncVars, jsVars, loopVars, pcVars, histVars
<1>1. CASE InstallHooks
  BY <1>1 DEF InstallHooks
<1>2. CASE ScriptDone
  BY <1>2 DEF ScriptDone, Goto
<1>3. CASE Top
  BY <1>3 DEF Top, Goto
<1>4. ASSUME NEW t \in Tasks, TimerRun(t) PROVE OwnerOK'
  BY <1>4 DEF TimerRun
<1>5. ASSUME NEW t \in Tasks, TimerClosed(t) PROVE OwnerOK'
  BY <1>5 DEF TimerClosed
<1>6. ASSUME NEW o \in Outcomes, TimerEnd(o) PROVE OwnerOK'
  BY <1>6 DEF TimerEnd
<1>7. ASSUME NEW o \in Outcomes, ImmEnd(o) PROVE OwnerOK'
  BY <1>7 DEF ImmEnd
<1>8. ASSUME NEW o \in Outcomes, DrainEnd(o) PROVE OwnerOK'
  BY <1>8 DEF DrainEnd
<1>9. CASE TimersDone
  BY <1>9 DEF TimersDone, Goto
<1>10. CASE ForegroundAsync
  BY <1>10 DEF ForegroundAsync
<1>11. CASE PollDone
  BY <1>11 DEF PollDone, Goto
<1>12. CASE CheckNothing
  BY <1>12 DEF CheckNothing, Goto
<1>13. CASE CheckDrain
  BY <1>13 DEF CheckDrain, Goto
<1>14. CASE ImmBatch
  BY <1>14 DEF ImmBatch
<1>15. CASE ImmRun
  BY <1>15 DEF ImmRun, TaskRun
<1>16. CASE ImmThrow
  BY <1>16 DEF ImmThrow
<1>17. CASE ImmDone
  BY <1>17 DEF ImmDone, Goto
<1>18. ASSUME NEW i \in Immediates, JsImmediate(i) PROVE OwnerOK'
  BY <1>18 DEF JsImmediate
<1>19. CASE JsImmediatesDone
  BY <1>19 DEF JsImmediatesDone, Goto
<1>20. CASE ClosingDone
  BY <1>20 DEF ClosingDone, Goto
<1>21. CASE Return
  BY <1>21 DEF Return
<1>22. CASE DrainSwap
  BY <1>22 DEF DrainSwap
<1>23. CASE DrainRun
  BY <1>23 DEF DrainRun, TaskRun
<1>24. CASE DrainDone
  BY <1>24 DEF DrainDone, Goto
<1>25. CASE TurnException
  BY <1>25 DEF TurnException
<1>26. CASE Turn
  BY <1>26 DEF Turn
<1>27. CASE BeforeExitDone
  BY <1>27 DEF BeforeExitDone
<1>28. CASE CleanupStart
  BY <1>28 DEF CleanupStart, Goto
<1>29. CASE CleanupFinish
  BY <1>29 DEF CleanupFinish, Goto
<1>30. ASSUME NEW t \in Tasks, NEW b \in BOOLEAN, PostOwn(t, b) PROVE OwnerOK'
  BY <1>30 DEF PostOwn
<1>31. ASSUME NEW t \in Tasks, NEW b \in BOOLEAN, EnqueueTask(t, b) PROVE OwnerOK'
  BY <1>31 DEF EnqueueTask
<1>32. ASSUME NEW i \in Imms, SetImmediate(i) PROVE OwnerOK'
  BY <1>32 DEF SetImmediate
<1>33. ASSUME NEW i \in Imms, ClearImmediate(i) PROVE OwnerOK'
  BY <1>33 DEF ClearImmediate
<1>34. ASSUME NEW i \in Imms, UnrefImmediate(i) PROVE OwnerOK'
  BY <1>34 DEF UnrefImmediate
<1>35. CASE AddRef
  BY <1>35 DEF AddRef
<1>36. CASE ReleaseRef
  BY <1>36 DEF ReleaseRef
<1>37. CASE ProcessExit
  BY <1>37 DEF ProcessExit
<1>38. CASE IoReady
  BY <1>38 DEF IoReady, Goto
<1>39. ASSUME NEW i \in Imms, NEW h \in BOOLEAN, JsImmediateThrows(i, h) PROVE OwnerOK'
  BY <1>39 DEF JsImmediateThrows, ProcessImmediateThrew, Goto
<1>40. ASSUME NEW p \in Posters, PostTest(p) PROVE OwnerOK'
  BY <1>40 DEF PostTest
<1>41. ASSUME NEW p \in Posters, PostLocked(p) PROVE OwnerOK'
  BY <1>41 DEF PostLocked
<1>42. ASSUME NEW p \in Posters, NEW t \in Tasks, NEW b \in BOOLEAN, PostBegin(p, t, b) PROVE OwnerOK'
  BY <1>42 DEF PostBegin
<1>43. CASE UNCHANGED vars
  BY <1>43 DEF vars
<1>44. ASSUME NEW h \in BOOLEAN, BrokenListThrows(h) PROVE OwnerOK'
  BY <1>44 DEF BrokenListThrows, ProcessImmediateThrew, Goto
<1> HIDE DEF OwnerOK
<1> QED
  BY <1>1, <1>2, <1>3, <1>4, <1>5, <1>6, <1>7, <1>8, <1>9, <1>10, <1>11, <1>12, <1>13, <1>14,
     <1>15, <1>16, <1>17, <1>18, <1>19, <1>20, <1>21, <1>22, <1>23, <1>24, <1>25, <1>26, <1>27,
     <1>28, <1>29, <1>30, <1>31, <1>32, <1>33, <1>34, <1>35, <1>36, <1>37, <1>38, <1>39, <1>40,
     <1>41, <1>42, <1>43, <1>44
  DEF Next, OwnerStep, JSCall, PostStep, Outcomes

\* The types of the posters' calls.
LEMMA PostsStep == TypeOK /\ [Next]_vars => PostsOK'
<1> SUFFICES ASSUME TypeOK, [Next]_vars PROVE PostsOK'
  OBVIOUS
<1>0. FlagsOK /\ CountsOK /\ QueuesOK /\ ImmediatesOK /\ OwnerOK /\ PostsOK /\ HistoryOK
  BY DEF TypeOK
<1> USE <1>0, ConstantsAssumption
     DEF PostsOK, NoPost, taskVars, immVars, asyncVars, jsVars, loopVars, pcVars, histVars
<1>1. ASSUME NEW p \in Posters, PostTest(p) PROVE PostsOK'
  <2>1. post' = [post EXCEPT ![p] = NoPost] \/ post' = [post EXCEPT ![p].at = "lock"]
    BY <1>1 DEF PostTest
  <2>2. post[p] \in [at : {"test", "lock"}, task : Tasks, delay : BOOLEAN]
    BY <1>1 DEF PostTest
  <2>3. [post[p] EXCEPT !.at = "lock"] \in [at : {"test", "lock"}, task : Tasks, delay : BOOLEAN]
    BY <2>2
  <2> QED
    BY <2>1, <2>2, <2>3
<1>2. ASSUME NEW p \in Posters, PostLocked(p) PROVE PostsOK'
  BY <1>2 DEF PostLocked
<1>3. ASSUME NEW p \in Posters, NEW t \in Tasks, NEW b \in BOOLEAN, PostBegin(p, t, b) PROVE PostsOK'
  BY <1>3 DEF PostBegin
<1>4. CASE UNCHANGED post
  BY <1>4
<1> HIDE DEF PostsOK
<1> QED
  BY <1>1, <1>2, <1>3, <1>4
  DEF Next, OwnerStep, JSCall, PostStep, Outcomes, vars,
      InstallHooks, ScriptDone, Goto, Top, TimerRun, TimerClosed, TimerEnd, Outcome,
      Unaffected, ImmEnd, DrainEnd, TimersDone, ForegroundAsync, PollDone,
      CheckNothing, CheckDrain, ImmBatch, ImmRun, TaskRun, ImmThrow, ImmDone,
      JsImmediate, JsImmediatesDone, ClosingDone, Return, DrainSwap, DrainRun,
      DrainDone, TurnException, Turn, BeforeExitDone, CleanupStart, CleanupFinish,
      PostOwn, EnqueueLocked, EnqueueTask, SetImmediate, ClearImmediate,
      UnrefImmediate, AddRef, ReleaseRef, ProcessExit, IoReady, JsImmediateThrows,
      BrokenListThrows, ProcessImmediateThrew

\* The types of the history.
LEMMA HistoryStep == TypeOK /\ [Next]_vars => HistoryOK'
<1> SUFFICES ASSUME TypeOK, [Next]_vars PROVE HistoryOK'
  OBVIOUS
<1>0. FlagsOK /\ CountsOK /\ QueuesOK /\ ImmediatesOK /\ OwnerOK /\ PostsOK /\ HistoryOK
  BY DEF TypeOK
<1> USE <1>0, ConstantsAssumption
     DEF HistoryOK, taskVars, immVars, asyncVars, jsVars, loopVars, pcVars, histVars
<1>1. ASSUME NEW t \in Tasks, TimerRun(t) PROVE HistoryOK'
  BY <1>1, CountType DEF TimerRun
<1>2. ASSUME NEW t \in Tasks, TimerClosed(t) PROVE HistoryOK'
  BY <1>2, CountType DEF TimerClosed
<1>3. ASSUME NEW o \in Outcomes, ImmEnd(o) PROVE HistoryOK'
  BY <1>3, CountType DEF ImmEnd, Unaffected, OwnerOK, QueuesOK
<1>4. ASSUME NEW o \in Outcomes, DrainEnd(o) PROVE HistoryOK'
  BY <1>4, CountType, ElemsFinite DEF DrainEnd, Unaffected, OwnerOK, QueuesOK
<1>5. CASE ImmRun
  BY <1>5, CountType DEF ImmRun, TaskRun, OwnerOK, QueuesOK
<1>6. CASE ImmThrow
  BY <1>6, CountType, ElemsFinite DEF ImmThrow, Unaffected, OwnerOK, QueuesOK
<1>7. CASE DrainRun
  BY <1>7, CountType DEF DrainRun, TaskRun, OwnerOK, QueuesOK
<1>8. CASE CleanupStart
  BY <1>8, CountType DEF CleanupStart
<1>9. CASE CleanupFinish
  BY <1>9, CountType DEF CleanupFinish
<1>10. ASSUME NEW t \in Tasks, NEW b \in BOOLEAN, PostOwn(t, b) PROVE HistoryOK'
  BY <1>10, EnqueueLockedType DEF PostOwn
<1>11. ASSUME NEW t \in Tasks, NEW b \in BOOLEAN, EnqueueTask(t, b) PROVE HistoryOK'
  BY <1>11 DEF EnqueueTask
<1>12. ASSUME NEW p \in Posters, PostTest(p) PROVE HistoryOK'
  BY <1>12, CountType DEF PostTest
<1>13. ASSUME NEW p \in Posters, PostLocked(p) PROVE HistoryOK'
  <2>1. post[p].task \in Tasks /\ EnqueueLocked(post[p].task, post[p].delay)
    BY <1>13 DEF PostLocked, PostsOK, NoPost
  <2>2. fg' \in Seq(Tasks) /\ delayed' \subseteq Tasks /\ cleans' \in [Tasks -> Nat]
    BY <2>1, EnqueueLockedType
  <2> QED
    BY <1>13, <2>2 DEF PostLocked
<1>14. ASSUME NEW p \in Posters, NEW t \in Tasks, NEW b \in BOOLEAN, PostBegin(p, t, b) PROVE HistoryOK'
  BY <1>14 DEF PostBegin
<1>15. CASE UNCHANGED histVars
  BY <1>15
<1> HIDE DEF HistoryOK
<1> QED
  BY <1>1, <1>2, <1>3, <1>4, <1>5, <1>6, <1>7, <1>8, <1>9, <1>10, <1>11, <1>12, <1>13, <1>14, <1>15
  DEF Next, OwnerStep, JSCall, PostStep, Outcomes, vars,
      InstallHooks, ScriptDone, Goto, Top, TimerEnd, Outcome, Unaffected, TimersDone,
      ForegroundAsync, PollDone, CheckNothing, CheckDrain, ImmBatch, ImmDone,
      JsImmediate, JsImmediatesDone, ClosingDone, Return, DrainSwap, DrainDone,
      TurnException, Turn, BeforeExitDone, SetImmediate, ClearImmediate,
      UnrefImmediate, AddRef, ReleaseRef, ProcessExit, IoReady, JsImmediateThrows,
      BrokenListThrows, ProcessImmediateThrew

\* Every step keeps the types.
LEMMA TypeStep == TypeOK /\ [Next]_vars => TypeOK'
BY FlagsStep, CountsStep, QueuesStep, ImmediatesStep, OwnerTypeStep, PostsStep, HistoryStep DEF TypeOK

\* The initial state has the types.
LEMMA TypeInit == Init => TypeOK
<1> SUFFICES ASSUME Init PROVE TypeOK
  OBVIOUS
<1>1. FlagsOK
  BY DEF Init, FlagsOK
<1>2. CountsOK
  BY ConstantsAssumption DEF Init, CountsOK
<1>3. QueuesOK
  BY EmptyQueue DEF Init, QueuesOK
<1>4. ImmediatesOK /\ OwnerOK /\ HistoryOK
  BY DEF Init, ImmediatesOK, OwnerOK, HistoryOK, Places, Phases
<1>5. PostsOK
  BY DEF Init, PostsOK, NoPost
<1> QED
  BY <1>1, <1>2, <1>3, <1>4, <1>5 DEF TypeOK

\* The type invariant holds, and with it the bounds of the reference counts.
THEOREM TypeCorrect == Spec => []TypeOK
<1>1. Init => TypeOK
  BY TypeInit
<1>2. TypeOK /\ [Next]_vars => TypeOK'
  BY TypeStep
<1> QED
  BY <1>1, <1>2, PTL DEF Spec

(***************************************************************************)
(* The idle handle                                                         *)
(***************************************************************************)

\* Every step keeps the idle handle active as long as one of the counts needs it.
LEMMA IdleStep == TypeOK /\ IdleKept /\ [Next]_vars => IdleKept'
<1> SUFFICES ASSUME TypeOK, IdleKept, [Next]_vars PROVE IdleKept'
  OBVIOUS
<1>0. /\ refedCount \in Nat /\ idle \in BOOLEAN
      /\ refed \subseteq Tasks /\ imm \in Seq(Tasks) /\ unrefd \subseteq Imms
  BY DEF TypeOK, FlagsOK, CountsOK, QueuesOK, ImmediatesOK
<1> USE <1>0 DEF IdleKept, taskVars, immVars, asyncVars, jsVars, loopVars, pcVars, histVars,
            RefedImmediates
<1>1. CASE InstallHooks
  BY <1>1 DEF InstallHooks
<1>2. CASE ScriptDone
  BY <1>2 DEF ScriptDone, Goto
<1>3. CASE Top
  BY <1>3 DEF Top, Goto
<1>4. ASSUME NEW t \in Tasks, TimerRun(t) PROVE IdleKept'
  BY <1>4 DEF TimerRun
<1>5. ASSUME NEW t \in Tasks, TimerClosed(t) PROVE IdleKept'
  BY <1>5 DEF TimerClosed
<1>6. ASSUME NEW o \in Outcomes, TimerEnd(o) PROVE IdleKept'
  BY <1>6 DEF TimerEnd, Outcome, FatalExceptionHandled, NewImmediate, Unaffected, ToggleImmediateRef
<1>7. ASSUME NEW o \in Outcomes, ImmEnd(o) PROVE IdleKept'
  BY <1>7 DEF ImmEnd, Outcome, FatalExceptionHandled, NewImmediate, Unaffected, ToggleImmediateRef
<1>8. ASSUME NEW o \in Outcomes, DrainEnd(o) PROVE IdleKept'
  BY <1>8 DEF DrainEnd, Outcome, FatalExceptionHandled, NewImmediate, Unaffected, ToggleImmediateRef
<1>9. CASE TimersDone
  BY <1>9 DEF TimersDone, Goto
<1>10. CASE ForegroundAsync
  BY <1>10 DEF ForegroundAsync
<1>11. CASE PollDone
  BY <1>11 DEF PollDone, Goto
<1>12. CASE CheckNothing
  BY <1>12 DEF CheckNothing, Goto, ToggleImmediateRef, LiveImmediates
<1>13. CASE CheckDrain
  BY <1>13 DEF CheckDrain, Goto
<1>14. CASE ImmBatch
  BY <1>14, ElemsFinite, LeaveCountBounds, FS_Subset DEF ImmBatch
<1>15. CASE ImmRun
  BY <1>15 DEF ImmRun, TaskRun
<1>16. CASE ImmThrow
  BY <1>16 DEF ImmThrow, ImmToggle, Unaffected, ToggleImmediateRef
<1>17. CASE ImmDone
  BY <1>17 DEF ImmDone, ImmToggle, Goto, ToggleImmediateRef
<1>18. ASSUME NEW i \in Immediates, JsImmediate(i) PROVE IdleKept'
  BY <1>18 DEF JsImmediate
<1>19. CASE JsImmediatesDone
  BY <1>19 DEF JsImmediatesDone, CheckToggle, Goto, ToggleImmediateRef
<1>20. CASE ClosingDone
  BY <1>20 DEF ClosingDone, Goto
<1>21. CASE Return
  BY <1>21 DEF Return
<1>22. CASE DrainSwap
  BY <1>22 DEF DrainSwap
<1>23. CASE DrainRun
  BY <1>23 DEF DrainRun, TaskRun
<1>24. CASE DrainDone
  BY <1>24 DEF DrainDone, Goto
<1>25. CASE TurnException
  <2>0. UNCHANGED <<refedCount, outstanding, unrefd, cleanupStarted>>
    BY <1>25 DEF TurnException, Unaffected
  <2>1. CASE FatalExceptionHandled(outstanding)
    <3>1. CASE UNCHANGED <<queue, idle>>
      BY <2>0, <3>1
    <3>2. CASE NewImmediate(Noop, outstanding)
      BY <2>0, <3>2 DEF NewImmediate, ToggleImmediateRef
    <3> QED
      BY <2>1, <3>1, <3>2 DEF FatalExceptionHandled
  <2>2. CASE UNCHANGED <<queue, idle>>
    BY <2>0, <2>2
  <2> QED
    BY <1>25, <2>1, <2>2 DEF TurnException
<1>26. CASE Turn
  BY <1>26 DEF Turn
<1>27. CASE BeforeExitDone
  BY <1>27 DEF BeforeExitDone
<1>28. CASE CleanupStart
  BY <1>28 DEF CleanupStart, Goto
<1>29. CASE CleanupFinish
  BY <1>29 DEF CleanupFinish, Goto
<1>30. ASSUME NEW t \in Tasks, NEW b \in BOOLEAN, PostOwn(t, b) PROVE IdleKept'
  BY <1>30 DEF PostOwn, EnqueueLocked, JSRuns
<1>31. ASSUME NEW t \in Tasks, NEW b \in BOOLEAN, EnqueueTask(t, b) PROVE IdleKept'
  BY <1>31 DEF EnqueueTask, JSRuns, ToggleImmediateRef
<1>32. ASSUME NEW i \in Imms, SetImmediate(i) PROVE IdleKept'
  BY <1>32 DEF SetImmediate, JSRuns, NewImmediate, ToggleImmediateRef
<1>33. ASSUME NEW i \in Imms, ClearImmediate(i) PROVE IdleKept'
  BY <1>33 DEF ClearImmediate, JSRuns, UnrefToggle, ToggleImmediateRef
<1>34. ASSUME NEW i \in Imms, UnrefImmediate(i) PROVE IdleKept'
  BY <1>34 DEF UnrefImmediate, JSRuns, UnrefToggle, ToggleImmediateRef
<1>35. CASE AddRef
  BY <1>35 DEF AddRef, JSRuns
<1>36. CASE ReleaseRef
  BY <1>36 DEF ReleaseRef, JSRuns
<1>37. CASE ProcessExit
  BY <1>37 DEF ProcessExit, CheckToggle, ToggleImmediateRef, JSRuns
<1>38. CASE IoReady
  BY <1>38 DEF IoReady, Goto
<1>39. ASSUME NEW i \in Imms, NEW h \in BOOLEAN, JsImmediateThrows(i, h) PROVE IdleKept'
  BY <1>39 DEF JsImmediateThrows, ProcessImmediateThrew, CheckToggle,
              FatalExceptionHandled, NewImmediate, Goto, ToggleImmediateRef
<1>40. ASSUME NEW p \in Posters, PostTest(p) PROVE IdleKept'
  BY <1>40 DEF PostTest
<1>41. ASSUME NEW p \in Posters, PostLocked(p) PROVE IdleKept'
  BY <1>41 DEF PostLocked, EnqueueLocked
<1>42. ASSUME NEW p \in Posters, NEW t \in Tasks, NEW b \in BOOLEAN, PostBegin(p, t, b) PROVE IdleKept'
  BY <1>42 DEF PostBegin
<1>43. CASE UNCHANGED vars
  BY <1>43 DEF vars
<1>44. ASSUME NEW h \in BOOLEAN, BrokenListThrows(h) PROVE IdleKept'
  BY <1>44 DEF BrokenListThrows, ProcessImmediateThrew, CheckToggle,
              FatalExceptionHandled, NewImmediate, Goto, ToggleImmediateRef
<1> QED
  BY <1>1, <1>2, <1>3, <1>4, <1>5, <1>6, <1>7, <1>8, <1>9, <1>10, <1>11, <1>12, <1>13, <1>14,
     <1>15, <1>16, <1>17, <1>18, <1>19, <1>20, <1>21, <1>22, <1>23, <1>24, <1>25, <1>26, <1>27,
     <1>28, <1>29, <1>30, <1>31, <1>32, <1>33, <1>34, <1>35, <1>36, <1>37, <1>38, <1>39, <1>40,
     <1>41, <1>42, <1>43, <1>44
  DEF Next, OwnerStep, JSCall, PostStep, Outcomes

\* While a refed immediate task or a referenced Immediate waits, the loop's idle
\* handle is active: neither side's toggling can turn it off for the other.
THEOREM IdleSafe == Spec => []IdleKept
<1>1. Init => TypeOK /\ IdleKept
  BY TypeInit DEF Init, IdleKept, RefedImmediates
<1>2. TypeOK /\ IdleKept /\ [Next]_vars => (TypeOK /\ IdleKept)'
  BY TypeStep, IdleStep
<1> QED
  BY <1>1, <1>2, PTL DEF Spec

(***************************************************************************)
(* The wakeup of the loop                                                  *)
(***************************************************************************)

\* No step leaves a foreground task waiting without a signal or a drain ahead.
LEMMA WakeupStep == CleanupInv /\ WakeupInv /\ [Next]_vars => WakeupInv'
<1> SUFFICES ASSUME CleanupInv, WakeupInv, [Next]_vars PROVE WakeupInv'
  OBVIOUS
<1>0. cleanupStarted <=> at \in {"cleanup", "down"}
  BY DEF CleanupInv
<1> USE <1>0 DEF WakeupInv, taskVars, immVars, asyncVars, jsVars, loopVars, pcVars, histVars
<1>1. CASE InstallHooks
  BY <1>1 DEF InstallHooks
<1>2. CASE ScriptDone
  BY <1>2 DEF ScriptDone, Goto
<1>3. CASE Top
  BY <1>3 DEF Top, Goto
<1>4. ASSUME NEW t \in Tasks, TimerRun(t) PROVE WakeupInv'
  BY <1>4 DEF TimerRun
<1>5. ASSUME NEW t \in Tasks, TimerClosed(t) PROVE WakeupInv'
  BY <1>5 DEF TimerClosed
<1>6. ASSUME NEW o \in Outcomes, TimerEnd(o) PROVE WakeupInv'
  BY <1>6 DEF TimerEnd, Unaffected
<1>7. ASSUME NEW o \in Outcomes, ImmEnd(o) PROVE WakeupInv'
  BY <1>7 DEF ImmEnd, Unaffected
<1>8. ASSUME NEW o \in Outcomes, DrainEnd(o) PROVE WakeupInv'
  BY <1>8 DEF DrainEnd, Unaffected
<1>9. CASE TimersDone
  BY <1>9 DEF TimersDone, Goto
<1>10. CASE ForegroundAsync
  BY <1>10 DEF ForegroundAsync
<1>11. CASE PollDone
  BY <1>11 DEF PollDone, Goto
<1>12. CASE CheckNothing
  BY <1>12 DEF CheckNothing, Goto
<1>13. CASE CheckDrain
  BY <1>13 DEF CheckDrain, Goto
<1>14. CASE ImmBatch
  BY <1>14 DEF ImmBatch
<1>15. CASE ImmRun
  BY <1>15 DEF ImmRun, TaskRun
<1>16. CASE ImmThrow
  BY <1>16 DEF ImmThrow, Unaffected
<1>17. CASE ImmDone
  BY <1>17 DEF ImmDone, Goto
<1>18. ASSUME NEW i \in Immediates, JsImmediate(i) PROVE WakeupInv'
  BY <1>18 DEF JsImmediate
<1>19. CASE JsImmediatesDone
  BY <1>19 DEF JsImmediatesDone, Goto
<1>20. CASE ClosingDone
  BY <1>20 DEF ClosingDone, Goto
<1>21. CASE Return
  BY <1>21 DEF Return
<1>22. CASE DrainSwap
  BY <1>22 DEF DrainSwap
<1>23. CASE DrainRun
  BY <1>23 DEF DrainRun, TaskRun
<1>24. CASE DrainDone
  BY <1>24 DEF DrainDone, Goto
<1>25. CASE TurnException
  BY <1>25 DEF TurnException, Unaffected
<1>26. CASE Turn
  BY <1>26 DEF Turn
<1>27. CASE BeforeExitDone
  BY <1>27 DEF BeforeExitDone
<1>28. CASE CleanupStart
  BY <1>28 DEF CleanupStart, Goto
<1>29. CASE CleanupFinish
  BY <1>29 DEF CleanupFinish, Goto
<1>30. ASSUME NEW t \in Tasks, NEW b \in BOOLEAN, PostOwn(t, b) PROVE WakeupInv'
  BY <1>30 DEF PostOwn, EnqueueLocked, JSRuns
<1>31. ASSUME NEW t \in Tasks, NEW b \in BOOLEAN, EnqueueTask(t, b) PROVE WakeupInv'
  BY <1>31 DEF EnqueueTask, JSRuns
<1>32. ASSUME NEW i \in Imms, SetImmediate(i) PROVE WakeupInv'
  BY <1>32 DEF SetImmediate, JSRuns
<1>33. ASSUME NEW i \in Imms, ClearImmediate(i) PROVE WakeupInv'
  BY <1>33 DEF ClearImmediate, JSRuns
<1>34. ASSUME NEW i \in Imms, UnrefImmediate(i) PROVE WakeupInv'
  BY <1>34 DEF UnrefImmediate, JSRuns
<1>35. CASE AddRef
  BY <1>35 DEF AddRef, JSRuns
<1>36. CASE ReleaseRef
  BY <1>36 DEF ReleaseRef, JSRuns
<1>37. CASE ProcessExit
  BY <1>37 DEF ProcessExit, JSRuns
<1>38. CASE IoReady
  BY <1>38 DEF IoReady, Goto
<1>39. ASSUME NEW i \in Imms, NEW h \in BOOLEAN, JsImmediateThrows(i, h) PROVE WakeupInv'
  BY <1>39 DEF JsImmediateThrows, ProcessImmediateThrew, Goto
<1>40. ASSUME NEW p \in Posters, PostTest(p) PROVE WakeupInv'
  BY <1>40 DEF PostTest
<1>41. ASSUME NEW p \in Posters, PostLocked(p) PROVE WakeupInv'
  BY <1>41 DEF PostLocked, EnqueueLocked
<1>42. ASSUME NEW p \in Posters, NEW t \in Tasks, NEW b \in BOOLEAN, PostBegin(p, t, b) PROVE WakeupInv'
  BY <1>42 DEF PostBegin
<1>43. CASE UNCHANGED vars
  BY <1>43 DEF vars
<1>44. ASSUME NEW h \in BOOLEAN, BrokenListThrows(h) PROVE WakeupInv'
  BY <1>44 DEF BrokenListThrows, ProcessImmediateThrew, Goto
<1> QED
  BY <1>1, <1>2, <1>3, <1>4, <1>5, <1>6, <1>7, <1>8, <1>9, <1>10, <1>11, <1>12, <1>13, <1>14,
     <1>15, <1>16, <1>17, <1>18, <1>19, <1>20, <1>21, <1>22, <1>23, <1>24, <1>25, <1>26, <1>27,
     <1>28, <1>29, <1>30, <1>31, <1>32, <1>33, <1>34, <1>35, <1>36, <1>37, <1>38, <1>39, <1>40,
     <1>41, <1>42, <1>43, <1>44
  DEF Next, OwnerStep, JSCall, PostStep, Outcomes

\* A foreground task in a queue always has its wakeup ahead of it, however many
\* threads post while the loop drains, blocks or returns.
THEOREM WakeupSafe == Spec => []ForegroundWakeup
<1>1. Init => CleanupInv /\ WakeupInv
  BY DEF Init, CleanupInv, NothingAfterCleanup, WakeupInv
<1>2. CleanupInv /\ WakeupInv /\ [Next]_vars => (CleanupInv /\ WakeupInv)'
  BY CleanupStep, WakeupStep
<1>3. WakeupInv => ForegroundWakeup
  BY DEF WakeupInv, ForegroundWakeup, Phases
<1> QED
  BY <1>1, <1>2, <1>3, PTL DEF Spec

(***************************************************************************)
(* Every task is accounted for                                             *)
(***************************************************************************)

\* A queue holds no task twice.
NoDup(s) == \A i, j \in DOMAIN s : s[i] = s[j] => i = j
Distinct == NoDup(fg) /\ NoDup(imm) /\ NoDup(batch)

\* A task is in at most one of the queues, sets and batches ...
Apart ==
  /\ Elems(fg) \cap (delayed \cup scheduled \cup closing \cup Elems(imm) \cup Elems(batch)) = {}
  /\ delayed \cap (scheduled \cup closing \cup Elems(imm) \cup Elems(batch)) = {}
  /\ scheduled \cap (closing \cup Elems(imm) \cup Elems(batch)) = {}
  /\ closing \cap (Elems(imm) \cup Elems(batch)) = {}
  /\ Elems(imm) \cap Elems(batch) = {}

Queued == Elems(fg) \cup delayed \cup scheduled \cup closing \cup Elems(imm) \cup Elems(batch)

\* A poster still carries the task.
Carried(t) == \E p \in Posters : post[p].task = t

\* ... the one that runs has left them, but for a timer's until it has ended ...
CurApart ==
  cur # None => IF at = "timers" THEN cur \in scheduled ELSE cur \notin Queued

\* ... and one that a poster still carries is in none of them.
PostsApart ==
  /\ \A p \in Posters : post[p].task # None => post[p].task \notin Queued \cup {cur}
  /\ \A p, q \in Posters : post[p].task = post[q].task /\ post[p].task # None => p = q

\* What is held was handed over and is neither freed nor dropped ...
HeldIsFresh ==
  \A t \in Tasks : Held(t) => t \in used /\ cleans[t] = 0

\* ... and has not run, unless it is running or its timer is closing.
RunOnce ==
  \A t \in Tasks :
    /\ t \notin used => runs[t] = 0 /\ cleans[t] = 0
    /\ t \in Queued \ (closing \cup {cur}) => runs[t] = 0
    /\ Carried(t) => runs[t] = 0
    /\ runs[t] <= 1 /\ cleans[t] <= 1

AccountInv ==
  /\ Distinct /\ Apart /\ CurApart /\ PostsApart
  /\ HeldIsFresh /\ RunOnce /\ NothingForgotten
  /\ refed \subseteq used /\ RefedCountExact

\* The empty queue holds nothing.
LEMMA ElemsEmpty == Elems(<< >>) = {} /\ NoDup(<< >>)
BY DEF Elems, NoDup

\* Appending adds one task.
LEMMA ElemsAppend ==
  ASSUME NEW s \in Seq(Tasks), NEW t \in Tasks
  PROVE  /\ Elems(Append(s, t)) = Elems(s) \cup {t}
         /\ NoDup(s) /\ t \notin Elems(s) => NoDup(Append(s, t))
<1> DEFINE a == Append(s, t)
<1>1. /\ DOMAIN s = 1..Len(s) /\ Len(s) \in Nat /\ DOMAIN a = 1..(Len(s) + 1)
      /\ a[Len(s) + 1] = t /\ \A i \in 1..Len(s) : a[i] = s[i]
  OBVIOUS
<1>2. ASSUME NEW x \in Elems(a) PROVE x \in Elems(s) \cup {t}
  <2>1. PICK i \in DOMAIN a : x = a[i]
    BY <1>2 DEF Elems
  <2> QED
    BY <1>1, <2>1 DEF Elems
<1>3. ASSUME NEW x \in Elems(s) \cup {t} PROVE x \in Elems(a)
  <2>1. CASE x = t
    BY <1>1, <2>1 DEF Elems
  <2>2. CASE x \in Elems(s)
    <3>1. PICK i \in DOMAIN s : x = s[i]
      BY <2>2 DEF Elems
    <3>2. i \in DOMAIN a /\ a[i] = x
      BY <1>1, <3>1
    <3> QED
      BY <3>2 DEF Elems
  <2> QED
    BY <1>3, <2>1, <2>2
<1>4. ASSUME NoDup(s), t \notin Elems(s), NEW i \in DOMAIN a, NEW j \in DOMAIN a, a[i] = a[j]
      PROVE  i = j
  <2>1. \A k \in 1..Len(s) : s[k] # t
    BY <1>1, <1>4 DEF Elems
  <2> QED
    BY <1>1, <1>4, <2>1 DEF NoDup
<1> QED
  BY <1>2, <1>3, <1>4 DEF NoDup

\* Taking the head off removes one task.
LEMMA ElemsTail ==
  ASSUME NEW s \in Seq(Tasks), s # << >>, NoDup(s)
  PROVE  /\ Head(s) \in Elems(s) /\ Head(s) \in Tasks
         /\ Elems(Tail(s)) = Elems(s) \ {Head(s)}
         /\ NoDup(Tail(s))
<1> DEFINE r == Tail(s)
<1>1. /\ DOMAIN s = 1..Len(s) /\ Len(s) \in Nat \ {0} /\ Head(s) = s[1] /\ Head(s) \in Tasks
      /\ DOMAIN r = 1..(Len(s) - 1) /\ \A i \in 1..(Len(s) - 1) : r[i] = s[i + 1]
  OBVIOUS
<1>2. ASSUME NEW x \in Elems(r) PROVE x \in Elems(s) \ {Head(s)}
  <2>1. PICK i \in DOMAIN r : x = r[i]
    BY <1>2 DEF Elems
  <2>2. i + 1 \in DOMAIN s /\ x = s[i + 1] /\ 1 \in DOMAIN s /\ i + 1 # 1
    BY <1>1, <2>1
  <2>3. x # s[1]
    BY <2>2 DEF NoDup
  <2> QED
    BY <1>1, <2>2, <2>3 DEF Elems
<1>3. ASSUME NEW x \in Elems(s) \ {Head(s)} PROVE x \in Elems(r)
  <2>1. PICK i \in DOMAIN s : x = s[i]
    BY <1>3 DEF Elems
  <2>2. i # 1
    BY <1>1, <1>3, <2>1
  <2>3. i - 1 \in DOMAIN r /\ r[i - 1] = x
    BY <1>1, <2>1, <2>2
  <2> QED
    BY <2>3 DEF Elems
<1>4. ASSUME NEW i \in DOMAIN r, NEW j \in DOMAIN r, r[i] = r[j] PROVE i = j
  <2>1. i + 1 \in DOMAIN s /\ j + 1 \in DOMAIN s /\ s[i + 1] = s[j + 1]
    BY <1>1, <1>4
  <2>2. i + 1 = j + 1
    BY <2>1 DEF NoDup
  <2> QED
    BY <1>1, <2>2
<1>5. Head(s) \in Elems(s)
  BY <1>1 DEF Elems
<1> QED
  BY <1>1, <1>2, <1>3, <1>4, <1>5 DEF NoDup

\* A step that moves no task keeps the account.
LEMMA AccountFrame ==
  ASSUME TypeOK, AccountInv, cur = None \/ at' = at,
         UNCHANGED <<taskVars, immVars, cleanupStarted, cur, batch, post, histVars>>
  PROVE  AccountInv'
<1> USE DEF taskVars, immVars, histVars
<1>1. Queued' = Queued
  BY DEF Queued, Elems
<1>2. \A t \in Tasks : Held(t)' <=> Held(t)
  BY DEF Held, Elems
<1>3. Distinct' /\ Apart' /\ PostsApart'
  BY <1>1 DEF AccountInv, Distinct, Apart, PostsApart, Elems, NoDup
<1>4. CurApart'
  BY <1>1 DEF AccountInv, CurApart
<1>5. HeldIsFresh' /\ RunOnce' /\ NothingForgotten'
  BY <1>1, <1>2 DEF AccountInv, HeldIsFresh, Carried, RunOnce, NothingForgotten, TypeOK, HistoryOK
<1>6. refed' \subseteq used' /\ RefedCountExact'
  BY DEF AccountInv, RefedCountExact, Elems
<1> QED
  BY <1>3, <1>4, <1>5, <1>6 DEF AccountInv

\* Every step keeps the account.
LEMMA AccountStep == TypeOK /\ CleanupInv /\ AccountInv /\ [Next]_vars => AccountInv'
<1> SUFFICES ASSUME TypeOK, CleanupInv, AccountInv, [Next]_vars PROVE AccountInv'
  OBVIOUS
<1> USE DEF taskVars, immVars, asyncVars, jsVars, loopVars, pcVars, histVars
<1>a. /\ fg \in Seq(Tasks) /\ imm \in Seq(Tasks) /\ batch \in Seq(Tasks)
      /\ cur \in Tasks \cup {None} /\ None \notin Tasks
      /\ runs \in [Tasks -> Nat] /\ cleans \in [Tasks -> Nat]
      /\ used \subseteq Tasks /\ refed \subseteq Tasks /\ refedCount \in Nat
      /\ delayed \subseteq Tasks /\ scheduled \subseteq Tasks /\ closing \subseteq Tasks
  BY ConstantsAssumption DEF TypeOK, QueuesOK, OwnerOK, HistoryOK, CountsOK
<1>b. \A p \in Posters : /\ post[p].task \in Tasks \cup {None}
                         /\ post[p].at = "idle" <=> post[p].task = None
  <2> TAKE p \in Posters
  <2>1. post[p] \in {NoPost} \cup [at : {"test", "lock"}, task : Tasks, delay : BOOLEAN]
    BY DEF TypeOK, PostsOK
  <2> QED
    BY <1>a, <2>1 DEF NoPost
<1>c. DOMAIN post = Posters
  BY DEF TypeOK, PostsOK
<1>d. /\ Distinct /\ Apart /\ CurApart /\ PostsApart /\ HeldIsFresh /\ RunOnce
      /\ NothingForgotten /\ refed \subseteq used /\ RefedCountExact
  BY DEF AccountInv
<1>e. /\ cur # None => at \in {"timers", "imm", "drain"}
      /\ batch # << >> => at \in {"imm", "drain"}
      /\ cleanupStarted <=> at \in {"cleanup", "down"}
  BY DEF CleanupInv
<1>h. \A x \in Tasks : Carried(x) => x \notin Queued /\ x # cur
  BY <1>a, <1>d DEF PostsApart, Carried
<1>f. \A x \in Tasks : Held(x) <=> x \in Queued \/ x = cur \/ Carried(x)
  BY DEF Held, Queued, Carried
<1>g. \A x \in Tasks : Held(x)' <=> x \in Queued' \/ x = cur' \/ Carried(x)'
  BY DEF Held, Queued, Carried

<1>1. CASE InstallHooks
  BY <1>1, <1>e, AccountFrame DEF InstallHooks
<1>2. CASE ScriptDone
  BY <1>2, <1>e, AccountFrame DEF ScriptDone, Goto
<1>3. CASE Top
  BY <1>3, <1>e, AccountFrame DEF Top, Goto
<1>4. ASSUME NEW t \in Tasks, TimerRun(t) PROVE AccountInv'
  <2>1. /\ fg' = fg /\ imm' = imm /\ batch' = batch
        /\ Elems(fg') = Elems(fg) /\ Elems(imm') = Elems(imm) /\ Elems(batch') = Elems(batch)
        /\ delayed' = delayed /\ scheduled' = scheduled /\ closing' = closing
        /\ at = "timers" /\ at' = at /\ cur = None /\ t \in scheduled /\ cur' = t /\ post' = post
        /\ used' = used /\ runs' = [x \in Tasks |-> IF x \in {t} THEN runs[x] + 1 ELSE runs[x]] /\
           cleans' = cleans /\ dropped' = dropped
        /\ refed' = refed /\ refedCount' = refedCount /\ cleanupStarted' = cleanupStarted
    BY <1>4, <1>a, <1>b, <1>c, <1>d, <1>e DEF TimerRun, Count, Elems
  <2>2. \A x \in Tasks : Carried(x)' <=> Carried(x)
    BY <1>a, <1>b, <1>d, <1>4, <2>1 DEF Carried, PostsApart
  <2>3. Distinct'
    BY <1>a, <1>b, <1>d, <1>e, <1>4, <2>1 DEF Distinct
  <2>4. Apart'
    BY <1>a, <1>b, <1>d, <1>e, <1>4, <2>1 DEF Apart, Queued
  <2>5. CurApart'
    BY <1>a, <1>b, <1>d, <1>e, <1>4, <2>1 DEF CurApart, Queued, Apart
  <2>6. PostsApart'
    BY <1>a, <1>b, <1>d, <1>e, <1>4, <2>1 DEF PostsApart, Queued, CurApart
  <2>7. HeldIsFresh'
    BY <1>a, <1>b, <1>d, <1>e, <1>f, <1>g, <1>h, <1>4, <2>1, <2>2 DEF HeldIsFresh, Apart, CurApart,
       Queued, RunOnce
  <2>8. RunOnce'
    BY <1>a, <1>b, <1>d, <1>e, <1>f, <1>g, <1>h, <1>4, <2>1, <2>2 DEF RunOnce, Queued, Apart,
       CurApart, HeldIsFresh
  <2>9. NothingForgotten'
    BY <1>a, <1>b, <1>d, <1>e, <1>f, <1>g, <1>h, <1>4, <2>1, <2>2 DEF NothingForgotten,
       HeldIsFresh, Queued
  <2>10. refed' \subseteq used' /\ RefedCountExact'
    BY <1>a, <1>d, <1>e, <2>1 DEF RefedCountExact
  <2> QED
    BY <2>3, <2>4, <2>5, <2>6, <2>7, <2>8, <2>9, <2>10 DEF AccountInv
<1>5. ASSUME NEW t \in Tasks, TimerClosed(t) PROVE AccountInv'
  <2>1. /\ fg' = fg /\ imm' = imm /\ batch' = batch
        /\ Elems(fg') = Elems(fg) /\ Elems(imm') = Elems(imm) /\ Elems(batch') = Elems(batch)
        /\ delayed' = delayed /\ scheduled' = scheduled /\ closing' = closing \ {t}
        /\ at' = at /\ cur = None /\ t \in closing /\ cur' = cur /\ post' = post
        /\ used' = used /\ runs' = runs /\ cleans' = [x \in Tasks |-> IF x \in {t} THEN cleans[x] +
           1 ELSE cleans[x]] /\ dropped' = dropped
        /\ refed' = refed /\ refedCount' = refedCount /\ cleanupStarted' = cleanupStarted
    BY <1>5, <1>a, <1>b, <1>c, <1>d, <1>e DEF TimerClosed, Count, Elems
  <2>2. \A x \in Tasks : Carried(x)' <=> Carried(x)
    BY <1>a, <1>b, <1>d, <1>5, <2>1 DEF Carried, PostsApart
  <2>3. Distinct'
    BY <1>a, <1>b, <1>d, <1>e, <1>5, <2>1 DEF Distinct
  <2>4. Apart'
    BY <1>a, <1>b, <1>d, <1>e, <1>5, <2>1 DEF Apart, Queued
  <2>5. CurApart'
    BY <1>a, <1>b, <1>d, <1>e, <1>5, <2>1 DEF CurApart, Queued, Apart
  <2>6. PostsApart'
    BY <1>a, <1>b, <1>d, <1>e, <1>5, <2>1 DEF PostsApart, Queued, CurApart
  <2>7. HeldIsFresh'
    BY <1>a, <1>b, <1>d, <1>e, <1>f, <1>g, <1>h, <1>5, <2>1, <2>2 DEF HeldIsFresh, Apart, CurApart,
       Queued, RunOnce
  <2>8. RunOnce'
    BY <1>a, <1>b, <1>d, <1>e, <1>f, <1>g, <1>h, <1>5, <2>1, <2>2 DEF RunOnce, Queued, Apart,
       CurApart, HeldIsFresh
  <2>9. NothingForgotten'
    BY <1>a, <1>b, <1>d, <1>e, <1>f, <1>g, <1>h, <1>5, <2>1, <2>2 DEF NothingForgotten,
       HeldIsFresh, Queued
  <2>10. refed' \subseteq used' /\ RefedCountExact'
    BY <1>a, <1>d, <1>e, <2>1 DEF RefedCountExact
  <2> QED
    BY <2>3, <2>4, <2>5, <2>6, <2>7, <2>8, <2>9, <2>10 DEF AccountInv
<1>6. ASSUME NEW o \in Outcomes, TimerEnd(o) PROVE AccountInv'
  <2>1. /\ fg' = fg /\ imm' = imm /\ batch' = batch
        /\ Elems(fg') = Elems(fg) /\ Elems(imm') = Elems(imm) /\ Elems(batch') = Elems(batch)
        /\ delayed' = delayed /\ scheduled' = scheduled \ {cur} /\ closing' = closing \cup {cur}
        /\ at = "timers" /\ cur # None /\ cur \in scheduled /\ cur' = None /\ post' = post
        /\ used' = used /\ runs' = runs /\ cleans' = cleans /\ dropped' = dropped
        /\ refed' = refed /\ refedCount' = refedCount /\ cleanupStarted' = cleanupStarted
    BY <1>6, <1>a, <1>b, <1>c, <1>d, <1>e DEF TimerEnd, Outcome, FatalExceptionHandled,
       NewImmediate, Unaffected, Elems, CurApart
  <2>2. \A x \in Tasks : Carried(x)' <=> Carried(x)
    BY <1>a, <1>b, <1>d, <1>6, <2>1 DEF Carried, PostsApart
  <2>3. Distinct'
    BY <1>a, <1>b, <1>d, <1>e, <1>6, <2>1 DEF Distinct
  <2>4. Apart'
    BY <1>a, <1>b, <1>d, <1>e, <1>6, <2>1 DEF Apart, Queued
  <2>5. CurApart'
    BY <1>a, <1>b, <1>d, <1>e, <1>6, <2>1 DEF CurApart, Queued, Apart
  <2>6. PostsApart'
    BY <1>a, <1>b, <1>d, <1>e, <1>6, <2>1 DEF PostsApart, Queued, CurApart
  <2>7. HeldIsFresh'
    BY <1>a, <1>b, <1>d, <1>e, <1>f, <1>g, <1>h, <1>6, <2>1, <2>2 DEF HeldIsFresh, Apart, CurApart,
       Queued, RunOnce
  <2>8. RunOnce'
    BY <1>a, <1>b, <1>d, <1>e, <1>f, <1>g, <1>h, <1>6, <2>1, <2>2 DEF RunOnce, Queued, Apart,
       CurApart, HeldIsFresh
  <2>9. NothingForgotten'
    BY <1>a, <1>b, <1>d, <1>e, <1>f, <1>g, <1>h, <1>6, <2>1, <2>2 DEF NothingForgotten,
       HeldIsFresh, Queued
  <2>10. refed' \subseteq used' /\ RefedCountExact'
    BY <1>a, <1>d, <1>e, <2>1 DEF RefedCountExact
  <2> QED
    BY <2>3, <2>4, <2>5, <2>6, <2>7, <2>8, <2>9, <2>10 DEF AccountInv
<1>7. ASSUME NEW o \in Outcomes, ImmEnd(o) PROVE AccountInv'
  <2>1. /\ fg' = fg /\ imm' = imm /\ batch' = batch
        /\ Elems(fg') = Elems(fg) /\ Elems(imm') = Elems(imm) /\ Elems(batch') = Elems(batch)
        /\ delayed' = delayed /\ scheduled' = scheduled /\ closing' = closing
        /\ at = "imm" /\ cur # None /\ cur' = None /\ post' = post
        /\ used' = used /\ runs' = runs /\ cleans' = [x \in Tasks |-> IF x \in {cur} THEN cleans[x]
           + 1 ELSE cleans[x]] /\ dropped' = dropped
        /\ refed' = refed /\ refedCount' = refedCount /\ cleanupStarted' = cleanupStarted
    BY <1>7, <1>a, <1>b, <1>c, <1>d, <1>e DEF ImmEnd, Outcome, FatalExceptionHandled, NewImmediate,
       Unaffected, Count, Elems
  <2>2. \A x \in Tasks : Carried(x)' <=> Carried(x)
    BY <1>a, <1>b, <1>d, <1>7, <2>1 DEF Carried, PostsApart
  <2>3. Distinct'
    BY <1>a, <1>b, <1>d, <1>e, <1>7, <2>1 DEF Distinct
  <2>4. Apart'
    BY <1>a, <1>b, <1>d, <1>e, <1>7, <2>1 DEF Apart, Queued
  <2>5. CurApart'
    BY <1>a, <1>b, <1>d, <1>e, <1>7, <2>1 DEF CurApart, Queued, Apart
  <2>6. PostsApart'
    BY <1>a, <1>b, <1>d, <1>e, <1>7, <2>1 DEF PostsApart, Queued, CurApart
  <2>7. HeldIsFresh'
    BY <1>a, <1>b, <1>d, <1>e, <1>f, <1>g, <1>h, <1>7, <2>1, <2>2 DEF HeldIsFresh, Apart, CurApart,
       Queued, RunOnce
  <2>8. RunOnce'
    BY <1>a, <1>b, <1>d, <1>e, <1>f, <1>g, <1>h, <1>7, <2>1, <2>2 DEF RunOnce, Queued, Apart,
       CurApart, HeldIsFresh
  <2>9. NothingForgotten'
    BY <1>a, <1>b, <1>d, <1>e, <1>f, <1>g, <1>h, <1>7, <2>1, <2>2 DEF NothingForgotten,
       HeldIsFresh, Queued
  <2>10. refed' \subseteq used' /\ RefedCountExact'
    BY <1>a, <1>d, <1>e, <2>1 DEF RefedCountExact
  <2> QED
    BY <2>3, <2>4, <2>5, <2>6, <2>7, <2>8, <2>9, <2>10 DEF AccountInv
<1>8. ASSUME NEW o \in Outcomes, DrainEnd(o) PROVE AccountInv'
  <2>1. /\ fg' = fg /\ imm' = imm /\ NoDup(batch')
        /\ Elems(fg') = Elems(fg) /\ Elems(imm') = Elems(imm)
        /\ \/ Elems(batch') = Elems(batch) /\ dropped' = dropped
           \/ Elems(batch') = {} /\ dropped' = dropped \cup Elems(batch)
        /\ delayed' = delayed /\ scheduled' = scheduled /\ closing' = closing
        /\ at = "drain" /\ cur # None /\ cur' = None /\ post' = post
        /\ used' = used /\ runs' = runs /\ cleans' = [x \in Tasks |-> IF x \in {cur} THEN cleans[x]
           + 1 ELSE cleans[x]]
        /\ refed' = refed /\ refedCount' = refedCount /\ cleanupStarted' = cleanupStarted
    BY <1>8, <1>a, <1>b, <1>c, <1>d, <1>e, ElemsEmpty DEF DrainEnd, Outcome, FatalExceptionHandled,
       NewImmediate, Unaffected, Count, Elems, Distinct
  <2>2. \A x \in Tasks : Carried(x)' <=> Carried(x)
    BY <1>a, <1>b, <1>d, <1>8, <2>1 DEF Carried, PostsApart
  <2>3. Distinct'
    BY <1>a, <1>b, <1>d, <1>e, <1>8, <2>1 DEF Distinct
  <2>4. Apart'
    BY <1>a, <1>b, <1>d, <1>e, <1>8, <2>1 DEF Apart, Queued
  <2>5. CurApart'
    BY <1>a, <1>b, <1>d, <1>e, <1>8, <2>1 DEF CurApart, Queued, Apart
  <2>6. PostsApart'
    BY <1>a, <1>b, <1>d, <1>e, <1>8, <2>1 DEF PostsApart, Queued, CurApart
  <2>7. HeldIsFresh'
    BY <1>a, <1>b, <1>d, <1>e, <1>f, <1>g, <1>h, <1>8, <2>1, <2>2 DEF HeldIsFresh, Apart, CurApart,
       Queued, RunOnce
  <2>8. RunOnce'
    BY <1>a, <1>b, <1>d, <1>e, <1>f, <1>g, <1>h, <1>8, <2>1, <2>2 DEF RunOnce, Queued, Apart,
       CurApart, HeldIsFresh
  <2>9. NothingForgotten'
    BY <1>a, <1>b, <1>d, <1>e, <1>f, <1>g, <1>h, <1>8, <2>1, <2>2 DEF NothingForgotten,
       HeldIsFresh, Queued
  <2>10. refed' \subseteq used' /\ RefedCountExact'
    BY <1>a, <1>d, <1>e, <2>1 DEF RefedCountExact
  <2> QED
    BY <2>3, <2>4, <2>5, <2>6, <2>7, <2>8, <2>9, <2>10 DEF AccountInv
<1>9. CASE TimersDone
  BY <1>9, <1>e, AccountFrame DEF TimersDone, Goto
<1>10. CASE ForegroundAsync
  BY <1>10, <1>e, AccountFrame DEF ForegroundAsync
<1>11. CASE PollDone
  BY <1>11, <1>e, AccountFrame DEF PollDone, Goto
<1>12. CASE CheckNothing
  BY <1>12, <1>e, AccountFrame DEF CheckNothing, Goto
<1>13. CASE CheckDrain
  BY <1>13, <1>e, AccountFrame DEF CheckDrain, Goto
<1>14. CASE ImmBatch
  <2>1. /\ fg' = fg /\ NoDup(imm') /\ NoDup(batch') /\ imm' = << >>
        /\ Elems(fg') = Elems(fg) /\ Elems(imm') = {} /\ Elems(batch') = Elems(imm) /\ Elems(batch)
           = {}
        /\ delayed' = delayed /\ scheduled' = scheduled /\ closing' = closing
        /\ at' = at /\ cur = None /\ cur' = None /\ post' = post
        /\ used' = used /\ runs' = runs /\ cleans' = cleans /\ dropped' = dropped
        /\ refed' = refed /\ cleanupStarted' = cleanupStarted
        /\ refedCount' = LeaveCount(refedCount, Elems(imm) \cap refed)
    BY <1>14, <1>a, <1>b, <1>c, <1>d, <1>e, ElemsEmpty DEF ImmBatch, Elems, Distinct
  <2>2. \A x \in Tasks : Carried(x)' <=> Carried(x)
    BY <1>a, <1>b, <1>d, <1>14, <2>1 DEF Carried, PostsApart
  <2>3. Distinct'
    BY <1>a, <1>b, <1>d, <1>e, <1>14, <2>1 DEF Distinct
  <2>4. Apart'
    BY <1>a, <1>b, <1>d, <1>e, <1>14, <2>1 DEF Apart, Queued
  <2>5. CurApart'
    BY <1>a, <1>b, <1>d, <1>e, <1>14, <2>1 DEF CurApart, Queued, Apart
  <2>6. PostsApart'
    BY <1>a, <1>b, <1>d, <1>e, <1>14, <2>1 DEF PostsApart, Queued, CurApart
  <2>7. HeldIsFresh'
    BY <1>a, <1>b, <1>d, <1>e, <1>f, <1>g, <1>h, <1>14, <2>1, <2>2 DEF HeldIsFresh, Apart,
       CurApart, Queued, RunOnce
  <2>8. RunOnce'
    BY <1>a, <1>b, <1>d, <1>e, <1>f, <1>g, <1>h, <1>14, <2>1, <2>2 DEF RunOnce, Queued, Apart,
       CurApart, HeldIsFresh
  <2>9. NothingForgotten'
    BY <1>a, <1>b, <1>d, <1>e, <1>f, <1>g, <1>h, <1>14, <2>1, <2>2 DEF NothingForgotten,
       HeldIsFresh, Queued
  <2>10. refed' \subseteq used' /\ RefedCountExact'
    <3>1. IsFiniteSet(Elems(imm) \cap refed)
      BY <1>a, ElemsFinite, FS_Subset
    <3>2. Cardinality(Elems(imm) \cap refed) \in Nat
      BY <3>1, FS_CardinalityType
    <3>3. ~cleanupStarted => refedCount' = 0
      BY <1>d, <2>1, <3>2 DEF RefedCountExact, LeaveCount
    <3>4. Cardinality(Elems(imm') \cap refed') = 0
      <4>1. Elems(imm') \cap refed' = {}
        BY <2>1
      <4> QED
        BY <4>1, FS_EmptySet
    <3> QED
      BY <1>d, <2>1, <3>3, <3>4 DEF RefedCountExact
  <2> QED
    BY <2>3, <2>4, <2>5, <2>6, <2>7, <2>8, <2>9, <2>10 DEF AccountInv
<1>15. CASE ImmRun
  <2>1. /\ fg' = fg /\ imm' = imm /\ NoDup(batch')
        /\ Elems(fg') = Elems(fg) /\ Elems(imm') = Elems(imm)
        /\ Head(batch) \in Elems(batch) /\ Head(batch) \in Tasks /\ Elems(batch') = Elems(batch) \
           {Head(batch)}
        /\ delayed' = delayed /\ scheduled' = scheduled /\ closing' = closing
        /\ at = "imm" /\ at' = at /\ cur = None /\ cur' = Head(batch) /\ post' = post
        /\ used' = used /\ runs' = [x \in Tasks |-> IF x \in {Head(batch)} THEN runs[x] + 1 ELSE
           runs[x]] /\ cleans' = cleans /\ dropped' = dropped
        /\ refed' = refed /\ refedCount' = refedCount /\ cleanupStarted' = cleanupStarted
    BY <1>15, <1>a, <1>b, <1>c, <1>d, <1>e, ElemsTail DEF ImmRun, TaskRun, Count, Elems, Distinct
  <2>2. \A x \in Tasks : Carried(x)' <=> Carried(x)
    BY <1>a, <1>b, <1>d, <1>15, <2>1 DEF Carried, PostsApart
  <2>3. Distinct'
    BY <1>a, <1>b, <1>d, <1>e, <1>15, <2>1 DEF Distinct
  <2>4. Apart'
    BY <1>a, <1>b, <1>d, <1>e, <1>15, <2>1 DEF Apart, Queued
  <2>5. CurApart'
    BY <1>a, <1>b, <1>d, <1>e, <1>15, <2>1 DEF CurApart, Queued, Apart
  <2>6. PostsApart'
    BY <1>a, <1>b, <1>d, <1>e, <1>15, <2>1 DEF PostsApart, Queued, CurApart
  <2>7. HeldIsFresh'
    BY <1>a, <1>b, <1>d, <1>e, <1>f, <1>g, <1>h, <1>15, <2>1, <2>2 DEF HeldIsFresh, Apart,
       CurApart, Queued, RunOnce
  <2>8. RunOnce'
    BY <1>a, <1>b, <1>d, <1>e, <1>f, <1>g, <1>h, <1>15, <2>1, <2>2 DEF RunOnce, Queued, Apart,
       CurApart, HeldIsFresh
  <2>9. NothingForgotten'
    BY <1>a, <1>b, <1>d, <1>e, <1>f, <1>g, <1>h, <1>15, <2>1, <2>2 DEF NothingForgotten,
       HeldIsFresh, Queued
  <2>10. refed' \subseteq used' /\ RefedCountExact'
    BY <1>a, <1>d, <1>e, <2>1 DEF RefedCountExact
  <2> QED
    BY <2>3, <2>4, <2>5, <2>6, <2>7, <2>8, <2>9, <2>10 DEF AccountInv
<1>16. CASE ImmThrow
  <2>1. /\ fg' = fg /\ imm' = imm /\ NoDup(batch')
        /\ Elems(fg') = Elems(fg) /\ Elems(imm') = Elems(imm) /\ Elems(batch') = {}
        /\ delayed' = delayed /\ scheduled' = scheduled /\ closing' = closing
        /\ at = "imm" /\ cur # None /\ cur' = None /\ post' = post
        /\ used' = used /\ runs' = runs /\ cleans' = [x \in Tasks |-> IF x \in {cur} THEN cleans[x]
           + 1 ELSE cleans[x]] /\ dropped' = dropped \cup Elems(batch)
        /\ refed' = refed /\ refedCount' = refedCount /\ cleanupStarted' = cleanupStarted
    BY <1>16, <1>a, <1>b, <1>c, <1>d, <1>e, ElemsEmpty DEF ImmThrow, ImmToggle, Unaffected, Count,
       Elems
  <2>2. \A x \in Tasks : Carried(x)' <=> Carried(x)
    BY <1>a, <1>b, <1>d, <1>16, <2>1 DEF Carried, PostsApart
  <2>3. Distinct'
    BY <1>a, <1>b, <1>d, <1>e, <1>16, <2>1 DEF Distinct
  <2>4. Apart'
    BY <1>a, <1>b, <1>d, <1>e, <1>16, <2>1 DEF Apart, Queued
  <2>5. CurApart'
    BY <1>a, <1>b, <1>d, <1>e, <1>16, <2>1 DEF CurApart, Queued, Apart
  <2>6. PostsApart'
    BY <1>a, <1>b, <1>d, <1>e, <1>16, <2>1 DEF PostsApart, Queued, CurApart
  <2>7. HeldIsFresh'
    BY <1>a, <1>b, <1>d, <1>e, <1>f, <1>g, <1>h, <1>16, <2>1, <2>2 DEF HeldIsFresh, Apart,
       CurApart, Queued, RunOnce
  <2>8. RunOnce'
    BY <1>a, <1>b, <1>d, <1>e, <1>f, <1>g, <1>h, <1>16, <2>1, <2>2 DEF RunOnce, Queued, Apart,
       CurApart, HeldIsFresh
  <2>9. NothingForgotten'
    BY <1>a, <1>b, <1>d, <1>e, <1>f, <1>g, <1>h, <1>16, <2>1, <2>2 DEF NothingForgotten,
       HeldIsFresh, Queued
  <2>10. refed' \subseteq used' /\ RefedCountExact'
    BY <1>a, <1>d, <1>e, <2>1 DEF RefedCountExact
  <2> QED
    BY <2>3, <2>4, <2>5, <2>6, <2>7, <2>8, <2>9, <2>10 DEF AccountInv
<1>17. CASE ImmDone
  BY <1>17, <1>e, AccountFrame DEF ImmDone, ImmToggle, Goto
<1>18. ASSUME NEW i \in Immediates, JsImmediate(i) PROVE AccountInv'
  BY <1>18, <1>e, AccountFrame DEF JsImmediate
<1>19. CASE JsImmediatesDone
  BY <1>19, <1>e, AccountFrame DEF JsImmediatesDone, Goto
<1>20. CASE ClosingDone
  BY <1>20, <1>e, AccountFrame DEF ClosingDone, Goto
<1>21. CASE Return
  BY <1>21, <1>e, AccountFrame DEF Return
<1>22. CASE DrainSwap
  <2>1. /\ NoDup(fg') /\ imm' = imm /\ NoDup(batch')
        /\ Elems(fg') = {} /\ Elems(imm') = Elems(imm) /\ Elems(batch') = Elems(fg) /\ Elems(batch)
           = {}
        /\ delayed' = {} /\ scheduled' = scheduled \cup delayed /\ closing' = closing
        /\ at = "swap" /\ cur = None /\ cur' = None /\ post' = post
        /\ used' = used /\ runs' = runs /\ cleans' = cleans /\ dropped' = dropped
        /\ refed' = refed /\ refedCount' = refedCount /\ cleanupStarted' = cleanupStarted
    BY <1>22, <1>a, <1>b, <1>c, <1>d, <1>e, ElemsEmpty DEF DrainSwap, Elems, Distinct
  <2>2. \A x \in Tasks : Carried(x)' <=> Carried(x)
    BY <1>a, <1>b, <1>d, <1>22, <2>1 DEF Carried, PostsApart
  <2>3. Distinct'
    BY <1>a, <1>b, <1>d, <1>e, <1>22, <2>1 DEF Distinct
  <2>4. Apart'
    BY <1>a, <1>b, <1>d, <1>e, <1>22, <2>1 DEF Apart, Queued
  <2>5. CurApart'
    BY <1>a, <1>b, <1>d, <1>e, <1>22, <2>1 DEF CurApart, Queued, Apart
  <2>6. PostsApart'
    BY <1>a, <1>b, <1>d, <1>e, <1>22, <2>1 DEF PostsApart, Queued, CurApart
  <2>7. HeldIsFresh'
    BY <1>a, <1>b, <1>d, <1>e, <1>f, <1>g, <1>h, <1>22, <2>1, <2>2 DEF HeldIsFresh, Apart,
       CurApart, Queued, RunOnce
  <2>8. RunOnce'
    BY <1>a, <1>b, <1>d, <1>e, <1>f, <1>g, <1>h, <1>22, <2>1, <2>2 DEF RunOnce, Queued, Apart,
       CurApart, HeldIsFresh
  <2>9. NothingForgotten'
    BY <1>a, <1>b, <1>d, <1>e, <1>f, <1>g, <1>h, <1>22, <2>1, <2>2 DEF NothingForgotten,
       HeldIsFresh, Queued
  <2>10. refed' \subseteq used' /\ RefedCountExact'
    BY <1>a, <1>d, <1>e, <2>1 DEF RefedCountExact
  <2> QED
    BY <2>3, <2>4, <2>5, <2>6, <2>7, <2>8, <2>9, <2>10 DEF AccountInv
<1>23. CASE DrainRun
  <2>1. /\ fg' = fg /\ imm' = imm /\ NoDup(batch')
        /\ Elems(fg') = Elems(fg) /\ Elems(imm') = Elems(imm)
        /\ Head(batch) \in Elems(batch) /\ Head(batch) \in Tasks /\ Elems(batch') = Elems(batch) \
           {Head(batch)}
        /\ delayed' = delayed /\ scheduled' = scheduled /\ closing' = closing
        /\ at = "drain" /\ at' = at /\ cur = None /\ cur' = Head(batch) /\ post' = post
        /\ used' = used /\ runs' = [x \in Tasks |-> IF x \in {Head(batch)} THEN runs[x] + 1 ELSE
           runs[x]] /\ cleans' = cleans /\ dropped' = dropped
        /\ refed' = refed /\ refedCount' = refedCount /\ cleanupStarted' = cleanupStarted
    BY <1>23, <1>a, <1>b, <1>c, <1>d, <1>e, ElemsTail DEF DrainRun, TaskRun, Count, Elems, Distinct
  <2>2. \A x \in Tasks : Carried(x)' <=> Carried(x)
    BY <1>a, <1>b, <1>d, <1>23, <2>1 DEF Carried, PostsApart
  <2>3. Distinct'
    BY <1>a, <1>b, <1>d, <1>e, <1>23, <2>1 DEF Distinct
  <2>4. Apart'
    BY <1>a, <1>b, <1>d, <1>e, <1>23, <2>1 DEF Apart, Queued
  <2>5. CurApart'
    BY <1>a, <1>b, <1>d, <1>e, <1>23, <2>1 DEF CurApart, Queued, Apart
  <2>6. PostsApart'
    BY <1>a, <1>b, <1>d, <1>e, <1>23, <2>1 DEF PostsApart, Queued, CurApart
  <2>7. HeldIsFresh'
    BY <1>a, <1>b, <1>d, <1>e, <1>f, <1>g, <1>h, <1>23, <2>1, <2>2 DEF HeldIsFresh, Apart,
       CurApart, Queued, RunOnce
  <2>8. RunOnce'
    BY <1>a, <1>b, <1>d, <1>e, <1>f, <1>g, <1>h, <1>23, <2>1, <2>2 DEF RunOnce, Queued, Apart,
       CurApart, HeldIsFresh
  <2>9. NothingForgotten'
    BY <1>a, <1>b, <1>d, <1>e, <1>f, <1>g, <1>h, <1>23, <2>1, <2>2 DEF NothingForgotten,
       HeldIsFresh, Queued
  <2>10. refed' \subseteq used' /\ RefedCountExact'
    BY <1>a, <1>d, <1>e, <2>1 DEF RefedCountExact
  <2> QED
    BY <2>3, <2>4, <2>5, <2>6, <2>7, <2>8, <2>9, <2>10 DEF AccountInv
<1>24. CASE DrainDone
  BY <1>24, <1>e, AccountFrame DEF DrainDone, Goto
<1>25. CASE TurnException
  BY <1>25, <1>e, AccountFrame DEF TurnException, FatalExceptionHandled, NewImmediate, Unaffected
<1>26. CASE Turn
  BY <1>26, <1>e, AccountFrame DEF Turn
<1>27. CASE BeforeExitDone
  BY <1>27, <1>e, AccountFrame DEF BeforeExitDone
<1>28. CASE CleanupStart
  <2>1. /\ fg' = fg /\ NoDup(imm') /\ batch' = batch
        /\ Elems(fg') = Elems(fg) /\ Elems(imm') = {} /\ Elems(batch') = Elems(batch)
        /\ delayed' = delayed /\ scheduled' = scheduled /\ closing' = closing
        /\ cur = None /\ cur' = None /\ post' = post
        /\ used' = used /\ runs' = runs /\ cleans' = [x \in Tasks |-> IF x \in Elems(imm) THEN
           cleans[x] + 1 ELSE cleans[x]] /\ dropped' = dropped
        /\ refed' = refed /\ cleanupStarted'
    BY <1>28, <1>a, <1>b, <1>c, <1>d, <1>e, ElemsEmpty DEF CleanupStart, Goto, Count, Elems
  <2>2. \A x \in Tasks : Carried(x)' <=> Carried(x)
    BY <1>a, <1>b, <1>d, <1>28, <2>1 DEF Carried, PostsApart
  <2>3. Distinct'
    BY <1>a, <1>b, <1>d, <1>e, <1>28, <2>1 DEF Distinct
  <2>4. Apart'
    BY <1>a, <1>b, <1>d, <1>e, <1>28, <2>1 DEF Apart, Queued
  <2>5. CurApart'
    BY <1>a, <1>b, <1>d, <1>e, <1>28, <2>1 DEF CurApart, Queued, Apart
  <2>6. PostsApart'
    BY <1>a, <1>b, <1>d, <1>e, <1>28, <2>1 DEF PostsApart, Queued, CurApart
  <2>7. HeldIsFresh'
    BY <1>a, <1>b, <1>d, <1>e, <1>f, <1>g, <1>h, <1>28, <2>1, <2>2 DEF HeldIsFresh, Apart,
       CurApart, Queued, RunOnce
  <2>8. RunOnce'
    BY <1>a, <1>b, <1>d, <1>e, <1>f, <1>g, <1>h, <1>28, <2>1, <2>2 DEF RunOnce, Queued, Apart,
       CurApart, HeldIsFresh
  <2>9. NothingForgotten'
    BY <1>a, <1>b, <1>d, <1>e, <1>f, <1>g, <1>h, <1>28, <2>1, <2>2 DEF NothingForgotten,
       HeldIsFresh, Queued
  <2>10. refed' \subseteq used' /\ RefedCountExact'
    BY <1>a, <1>d, <1>e, <2>1 DEF RefedCountExact
  <2> QED
    BY <2>3, <2>4, <2>5, <2>6, <2>7, <2>8, <2>9, <2>10 DEF AccountInv
<1>29. CASE CleanupFinish
  <2>1. /\ NoDup(fg') /\ imm' = imm /\ batch' = batch
        /\ Elems(fg') = {} /\ Elems(imm') = Elems(imm) /\ Elems(batch') = Elems(batch)
        /\ delayed' = {} /\ scheduled' = {} /\ closing' = closing \cup scheduled
        /\ cur = None /\ cur' = None /\ post' = post
        /\ used' = used /\ runs' = runs /\ cleans' = [x \in Tasks |-> IF x \in (Elems(fg) \cup
           delayed) THEN cleans[x] + 1 ELSE cleans[x]] /\ dropped' = dropped
        /\ refed' = refed /\ cleanupStarted'
    BY <1>29, <1>a, <1>b, <1>c, <1>d, <1>e, ElemsEmpty DEF CleanupFinish, Goto, Count, Elems
  <2>2. \A x \in Tasks : Carried(x)' <=> Carried(x)
    BY <1>a, <1>b, <1>d, <1>29, <2>1 DEF Carried, PostsApart
  <2>3. Distinct'
    BY <1>a, <1>b, <1>d, <1>e, <1>29, <2>1 DEF Distinct
  <2>4. Apart'
    BY <1>a, <1>b, <1>d, <1>e, <1>29, <2>1 DEF Apart, Queued
  <2>5. CurApart'
    BY <1>a, <1>b, <1>d, <1>e, <1>29, <2>1 DEF CurApart, Queued, Apart
  <2>6. PostsApart'
    BY <1>a, <1>b, <1>d, <1>e, <1>29, <2>1 DEF PostsApart, Queued, CurApart
  <2>7. HeldIsFresh'
    BY <1>a, <1>b, <1>d, <1>e, <1>f, <1>g, <1>h, <1>29, <2>1, <2>2 DEF HeldIsFresh, Apart,
       CurApart, Queued, RunOnce
  <2>8. RunOnce'
    BY <1>a, <1>b, <1>d, <1>e, <1>f, <1>g, <1>h, <1>29, <2>1, <2>2 DEF RunOnce, Queued, Apart,
       CurApart, HeldIsFresh
  <2>9. NothingForgotten'
    BY <1>a, <1>b, <1>d, <1>e, <1>f, <1>g, <1>h, <1>29, <2>1, <2>2 DEF NothingForgotten,
       HeldIsFresh, Queued
  <2>10. refed' \subseteq used' /\ RefedCountExact'
    BY <1>a, <1>d, <1>e, <2>1 DEF RefedCountExact
  <2> QED
    BY <2>3, <2>4, <2>5, <2>6, <2>7, <2>8, <2>9, <2>10 DEF AccountInv
<1>30. ASSUME NEW t \in Tasks, NEW b \in BOOLEAN, PostOwn(t, b) PROVE AccountInv'
  <2>0. /\ t \in Tasks /\ t \notin used /\ t \notin Queued \cup {cur} /\ cleans[t] = 0 /\ runs[t] = 0
        /\ \A q \in Posters : post[q].task # t
        /\ Elems(Append(fg, t)) = Elems(fg) \cup {t} /\ NoDup(Append(fg, t))
    <3>1. t \in Tasks /\ t \notin used
      BY <1>30 DEF PostOwn
    <3>2. t \notin Queued \cup {cur} /\ cleans[t] = 0 /\ runs[t] = 0 /\ \A q \in Posters : post[q].task # t
      BY <3>1, <1>d DEF HeldIsFresh, Held, Queued, RunOnce
    <3> QED
      BY <3>1, <3>2, <1>a, <1>d, ElemsAppend DEF Queued, Distinct
  <2>1. CASE b
    <3>1. /\ imm' = imm /\ batch' = batch /\ Elems(imm') = Elems(imm) /\ Elems(batch') = Elems(batch)
          /\ fg' = fg /\ Elems(fg') = Elems(fg) /\ scheduled' = scheduled \cup {t} /\ cleans' =
             cleans
          /\ delayed' = delayed /\ closing' = closing /\ at' = at /\ cur' = cur /\ post' = post
          /\ t \notin used /\ t \notin Queued \cup {cur} /\ (\A q \in Posters : post[q].task # t)
          /\ used' = used \cup {t} /\ runs' = runs /\ dropped' = dropped
          /\ refed' = refed /\ refedCount' = refedCount /\ cleanupStarted' = cleanupStarted
      BY <1>30, <2>1, <1>a, <1>b, <1>c, <1>d, <1>e, <2>0 DEF PostOwn, EnqueueLocked, JSRuns, Count,
         Distinct, Queued
    <3>2. \A x \in Tasks : Carried(x)' <=> Carried(x)
      BY <1>a, <1>b, <1>d, <1>30, <2>1, <3>1 DEF Carried, PostsApart
    <3>3. Distinct'
      BY <1>a, <1>b, <1>d, <1>e, <1>30, <2>0, <3>1 DEF Distinct
    <3>4. Apart'
      BY <1>a, <1>b, <1>d, <1>e, <1>30, <2>0, <3>1 DEF Apart, Queued
    <3>5. CurApart'
      BY <1>a, <1>b, <1>d, <1>e, <1>30, <2>0, <3>1 DEF CurApart, Queued, Apart
    <3>6. PostsApart'
      BY <1>a, <1>b, <1>d, <1>e, <1>30, <2>0, <3>1 DEF PostsApart, Queued, CurApart
    <3>7. HeldIsFresh'
      BY <1>a, <1>b, <1>d, <1>e, <1>f, <1>g, <1>h, <1>30, <2>0, <3>1, <3>2 DEF HeldIsFresh, Apart,
         CurApart, Queued, RunOnce
    <3>8. RunOnce'
      BY <1>a, <1>b, <1>d, <1>e, <1>f, <1>g, <1>h, <1>30, <2>0, <3>1, <3>2 DEF RunOnce, Queued,
         Apart, CurApart, HeldIsFresh
    <3>9. NothingForgotten'
      BY <1>a, <1>b, <1>d, <1>e, <1>f, <1>g, <1>h, <1>30, <2>0, <3>1, <3>2 DEF NothingForgotten,
         HeldIsFresh, Queued
    <3>10. refed' \subseteq used' /\ RefedCountExact'
      BY <1>a, <1>d, <1>e, <3>1 DEF RefedCountExact
    <3> QED
      BY <3>3, <3>4, <3>5, <3>6, <3>7, <3>8, <3>9, <3>10 DEF AccountInv
  <2>2. CASE ~b /\ (cleanupStarted \/ ~asyncInit)
    <3>1. /\ imm' = imm /\ batch' = batch /\ Elems(imm') = Elems(imm) /\ Elems(batch') = Elems(batch)
          /\ fg' = fg /\ Elems(fg') = Elems(fg) /\ scheduled' = scheduled /\ cleans' = [x \in Tasks
             |-> IF x \in {t} THEN cleans[x] + 1 ELSE cleans[x]]
          /\ delayed' = delayed /\ closing' = closing /\ at' = at /\ cur' = cur /\ post' = post
          /\ t \notin used /\ t \notin Queued \cup {cur} /\ (\A q \in Posters : post[q].task # t)
          /\ used' = used \cup {t} /\ runs' = runs /\ dropped' = dropped
          /\ refed' = refed /\ refedCount' = refedCount /\ cleanupStarted' = cleanupStarted
      BY <1>30, <2>2, <1>a, <1>b, <1>c, <1>d, <1>e, <2>0 DEF PostOwn, EnqueueLocked, JSRuns, Count,
         Distinct, Queued
    <3>2. \A x \in Tasks : Carried(x)' <=> Carried(x)
      BY <1>a, <1>b, <1>d, <1>30, <2>2, <3>1 DEF Carried, PostsApart
    <3>3. Distinct'
      BY <1>a, <1>b, <1>d, <1>e, <1>30, <2>0, <3>1 DEF Distinct
    <3>4. Apart'
      BY <1>a, <1>b, <1>d, <1>e, <1>30, <2>0, <3>1 DEF Apart, Queued
    <3>5. CurApart'
      BY <1>a, <1>b, <1>d, <1>e, <1>30, <2>0, <3>1 DEF CurApart, Queued, Apart
    <3>6. PostsApart'
      BY <1>a, <1>b, <1>d, <1>e, <1>30, <2>0, <3>1 DEF PostsApart, Queued, CurApart
    <3>7. HeldIsFresh'
      BY <1>a, <1>b, <1>d, <1>e, <1>f, <1>g, <1>h, <1>30, <2>0, <3>1, <3>2 DEF HeldIsFresh, Apart,
         CurApart, Queued, RunOnce
    <3>8. RunOnce'
      BY <1>a, <1>b, <1>d, <1>e, <1>f, <1>g, <1>h, <1>30, <2>0, <3>1, <3>2 DEF RunOnce, Queued,
         Apart, CurApart, HeldIsFresh
    <3>9. NothingForgotten'
      BY <1>a, <1>b, <1>d, <1>e, <1>f, <1>g, <1>h, <1>30, <2>0, <3>1, <3>2 DEF NothingForgotten,
         HeldIsFresh, Queued
    <3>10. refed' \subseteq used' /\ RefedCountExact'
      BY <1>a, <1>d, <1>e, <3>1 DEF RefedCountExact
    <3> QED
      BY <3>3, <3>4, <3>5, <3>6, <3>7, <3>8, <3>9, <3>10 DEF AccountInv
  <2>3. CASE ~b /\ ~(cleanupStarted \/ ~asyncInit)
    <3>1. /\ imm' = imm /\ batch' = batch /\ Elems(imm') = Elems(imm) /\ Elems(batch') = Elems(batch)
          /\ Elems(fg') = Elems(fg) \cup {t} /\ NoDup(fg') /\ scheduled' = scheduled /\ cleans' =
             cleans
          /\ delayed' = delayed /\ closing' = closing /\ at' = at /\ cur' = cur /\ post' = post
          /\ t \notin used /\ t \notin Queued \cup {cur} /\ (\A q \in Posters : post[q].task # t)
          /\ used' = used \cup {t} /\ runs' = runs /\ dropped' = dropped
          /\ refed' = refed /\ refedCount' = refedCount /\ cleanupStarted' = cleanupStarted
      BY <1>30, <2>3, <1>a, <1>b, <1>c, <1>d, <1>e, <2>0 DEF PostOwn, EnqueueLocked, JSRuns, Count,
         Distinct, Queued
    <3>2. \A x \in Tasks : Carried(x)' <=> Carried(x)
      BY <1>a, <1>b, <1>d, <1>30, <2>3, <3>1 DEF Carried, PostsApart
    <3>3. Distinct'
      BY <1>a, <1>b, <1>d, <1>e, <1>30, <2>0, <3>1 DEF Distinct
    <3>4. Apart'
      BY <1>a, <1>b, <1>d, <1>e, <1>30, <2>0, <3>1 DEF Apart, Queued
    <3>5. CurApart'
      BY <1>a, <1>b, <1>d, <1>e, <1>30, <2>0, <3>1 DEF CurApart, Queued, Apart
    <3>6. PostsApart'
      BY <1>a, <1>b, <1>d, <1>e, <1>30, <2>0, <3>1 DEF PostsApart, Queued, CurApart
    <3>7. HeldIsFresh'
      BY <1>a, <1>b, <1>d, <1>e, <1>f, <1>g, <1>h, <1>30, <2>0, <3>1, <3>2 DEF HeldIsFresh, Apart,
         CurApart, Queued, RunOnce
    <3>8. RunOnce'
      BY <1>a, <1>b, <1>d, <1>e, <1>f, <1>g, <1>h, <1>30, <2>0, <3>1, <3>2 DEF RunOnce, Queued,
         Apart, CurApart, HeldIsFresh
    <3>9. NothingForgotten'
      BY <1>a, <1>b, <1>d, <1>e, <1>f, <1>g, <1>h, <1>30, <2>0, <3>1, <3>2 DEF NothingForgotten,
         HeldIsFresh, Queued
    <3>10. refed' \subseteq used' /\ RefedCountExact'
      BY <1>a, <1>d, <1>e, <3>1 DEF RefedCountExact
    <3> QED
      BY <3>3, <3>4, <3>5, <3>6, <3>7, <3>8, <3>9, <3>10 DEF AccountInv
  <2> QED
    BY <2>1, <2>2, <2>3
<1>31. ASSUME NEW t \in Tasks, NEW b \in BOOLEAN, EnqueueTask(t, b) PROVE AccountInv'
  <2>1. /\ fg' = fg /\ batch' = batch /\ NoDup(imm')
        /\ Elems(fg') = Elems(fg) /\ Elems(batch') = Elems(batch) /\ Elems(imm') = Elems(imm) \cup
           {t}
        /\ delayed' = delayed /\ scheduled' = scheduled /\ closing' = closing
        /\ at' = at /\ cur' = cur /\ post' = post
        /\ t \notin used /\ t \notin Queued \cup {cur} /\ (\A q \in Posters : post[q].task # t) /\
           used' = used \cup {t} /\ runs' = runs /\ cleans' = cleans /\ dropped' = dropped
        /\ cleanupStarted' = cleanupStarted
        /\ refed' = IF b THEN refed \cup {t} ELSE refed
        /\ refedCount' = IF b THEN refedCount + 1 ELSE refedCount
    BY <1>31, <1>a, <1>b, <1>c, <1>d, <1>e, ElemsAppend DEF EnqueueTask, JSRuns, Distinct,
       HeldIsFresh, Held, Queued
  <2>2. \A x \in Tasks : Carried(x)' <=> Carried(x)
    BY <1>a, <1>b, <1>d, <1>31, <2>1 DEF Carried, PostsApart
  <2>3. Distinct'
    BY <1>a, <1>b, <1>d, <1>e, <1>31, <2>1 DEF Distinct
  <2>4. Apart'
    BY <1>a, <1>b, <1>d, <1>e, <1>31, <2>1 DEF Apart, Queued
  <2>5. CurApart'
    BY <1>a, <1>b, <1>d, <1>e, <1>31, <2>1 DEF CurApart, Queued, Apart
  <2>6. PostsApart'
    BY <1>a, <1>b, <1>d, <1>e, <1>31, <2>1 DEF PostsApart, Queued, CurApart
  <2>7. HeldIsFresh'
    BY <1>a, <1>b, <1>d, <1>e, <1>f, <1>g, <1>h, <1>31, <2>1, <2>2 DEF HeldIsFresh, Apart,
       CurApart, Queued, RunOnce
  <2>8. RunOnce'
    BY <1>a, <1>b, <1>d, <1>e, <1>f, <1>g, <1>h, <1>31, <2>1, <2>2 DEF RunOnce, Queued, Apart,
       CurApart, HeldIsFresh
  <2>9. NothingForgotten'
    BY <1>a, <1>b, <1>d, <1>e, <1>f, <1>g, <1>h, <1>31, <2>1, <2>2 DEF NothingForgotten,
       HeldIsFresh, Queued
  <2>10. refed' \subseteq used' /\ RefedCountExact'
    <3>1. IsFiniteSet(Elems(imm) \cap refed)
      BY <1>a, ElemsFinite, FS_Subset
    <3>2. t \notin refed
      BY <1>d, <2>1
    <3>3. Elems(imm') \cap refed' = IF b THEN (Elems(imm) \cap refed) \cup {t} ELSE Elems(imm) \cap refed
      BY <2>1, <3>2
    <3>4. t \notin Elems(imm) \cap refed
      BY <3>2
    <3>5. Cardinality((Elems(imm) \cap refed) \cup {t}) = Cardinality(Elems(imm) \cap refed) + 1
      BY <3>1, <3>4, FS_AddElement
    <3> QED
      BY <1>d, <2>1, <3>3, <3>5 DEF RefedCountExact
  <2> QED
    BY <2>3, <2>4, <2>5, <2>6, <2>7, <2>8, <2>9, <2>10 DEF AccountInv
<1>32. ASSUME NEW i \in Imms, SetImmediate(i) PROVE AccountInv'
  BY <1>32, <1>e, AccountFrame DEF SetImmediate, JSRuns, NewImmediate
<1>33. ASSUME NEW i \in Imms, ClearImmediate(i) PROVE AccountInv'
  BY <1>33, <1>e, AccountFrame DEF ClearImmediate, JSRuns, UnrefToggle
<1>34. ASSUME NEW i \in Imms, UnrefImmediate(i) PROVE AccountInv'
  BY <1>34, <1>e, AccountFrame DEF UnrefImmediate, JSRuns, UnrefToggle
<1>35. CASE AddRef
  BY <1>35, <1>e, AccountFrame DEF AddRef, JSRuns
<1>36. CASE ReleaseRef
  BY <1>36, <1>e, AccountFrame DEF ReleaseRef, JSRuns
<1>37. CASE ProcessExit
  BY <1>37, <1>e, AccountFrame DEF ProcessExit, JSRuns
<1>38. CASE IoReady
  BY <1>38, <1>e, AccountFrame DEF IoReady, Goto
<1>39. ASSUME NEW i \in Imms, NEW h \in BOOLEAN, JsImmediateThrows(i, h) PROVE AccountInv'
  BY <1>39, <1>e, AccountFrame DEF JsImmediateThrows, ProcessImmediateThrew, FatalExceptionHandled,
     NewImmediate, Goto
<1>40. ASSUME NEW p \in Posters, PostTest(p) PROVE AccountInv'
  <2>0. /\ post[p].task \in Tasks /\ post[p].task \notin Queued \cup {cur} /\ Carried(post[p].task)
        /\ post[p].task \in used /\ cleans[post[p].task] = 0 /\ runs[post[p].task] = 0
        /\ ~cleanupStarted => \A q \in Posters : post'[q].task = post[q].task
    <3>1. post[p] \in [at : {"test", "lock"}, task : Tasks, delay : BOOLEAN]
      BY <1>40 DEF PostTest, NoPost, TypeOK, PostsOK
    <3>2. post[p].task \in Tasks /\ Carried(post[p].task)
      BY <3>1, <1>40 DEF Carried
    <3>3. ~cleanupStarted => \A q \in Posters : post'[q].task = post[q].task
      BY <1>40, <1>c, <3>1 DEF PostTest
    <3> QED
      BY <1>d, <1>f, <1>h, <3>2, <3>3 DEF HeldIsFresh, RunOnce
  <2>1. CASE cleanupStarted
    <3>1. /\ fg' = fg /\ imm' = imm /\ batch' = batch
          /\ Elems(fg') = Elems(fg) /\ Elems(imm') = Elems(imm) /\ Elems(batch') = Elems(batch)
          /\ delayed' = delayed /\ scheduled' = scheduled /\ closing' = closing
          /\ at' = at /\ cur' = cur
          /\ used' = used /\ runs' = runs /\ dropped' = dropped
          /\ post[p].task \in Tasks /\ post[p].task \notin Queued \cup {cur}
          /\ cleans' = [x \in Tasks |-> IF x \in {post[p].task} THEN cleans[x] + 1 ELSE cleans[x]]
          /\ \A q \in Posters : post'[q].task = IF q = p THEN None ELSE post[q].task
          /\ refed' = refed /\ refedCount' = refedCount /\ cleanupStarted' = cleanupStarted
      BY <1>40, <2>1, <1>a, <1>b, <1>c, <1>d, <1>e, <2>0 DEF PostTest, Count, Elems, NoPost
    <3>2. \A x \in Tasks : Carried(x)' <=> Carried(x) /\ x # post[p].task
      BY <1>a, <1>b, <1>d, <1>40, <2>1, <3>1 DEF Carried, PostsApart
    <3>3. Distinct'
      BY <1>a, <1>b, <1>d, <1>e, <1>40, <2>0, <3>1 DEF Distinct
    <3>4. Apart'
      BY <1>a, <1>b, <1>d, <1>e, <1>40, <2>0, <3>1 DEF Apart, Queued
    <3>5. CurApart'
      BY <1>a, <1>b, <1>d, <1>e, <1>40, <2>0, <3>1 DEF CurApart, Queued, Apart
    <3>6. PostsApart'
      BY <1>a, <1>b, <1>d, <1>e, <1>40, <2>0, <3>1 DEF PostsApart, Queued, CurApart
    <3>7. HeldIsFresh'
      BY <1>a, <1>b, <1>d, <1>e, <1>f, <1>g, <1>h, <1>40, <2>0, <3>1, <3>2 DEF HeldIsFresh, Apart,
         CurApart, Queued, RunOnce
    <3>8. RunOnce'
      BY <1>a, <1>b, <1>d, <1>e, <1>f, <1>g, <1>h, <1>40, <2>0, <3>1, <3>2 DEF RunOnce, Queued,
         Apart, CurApart, HeldIsFresh
    <3>9. NothingForgotten'
      BY <1>a, <1>b, <1>d, <1>e, <1>f, <1>g, <1>h, <1>40, <2>0, <3>1, <3>2 DEF NothingForgotten,
         HeldIsFresh, Queued
    <3>10. refed' \subseteq used' /\ RefedCountExact'
      BY <1>a, <1>d, <1>e, <3>1 DEF RefedCountExact
    <3> QED
      BY <3>3, <3>4, <3>5, <3>6, <3>7, <3>8, <3>9, <3>10 DEF AccountInv
  <2>2. CASE ~cleanupStarted
    <3>1. /\ fg' = fg /\ imm' = imm /\ batch' = batch
          /\ Elems(fg') = Elems(fg) /\ Elems(imm') = Elems(imm) /\ Elems(batch') = Elems(batch)
          /\ delayed' = delayed /\ scheduled' = scheduled /\ closing' = closing
          /\ at' = at /\ cur' = cur
          /\ used' = used /\ runs' = runs /\ dropped' = dropped
          /\ cleans' = cleans
          /\ \A q \in Posters : post'[q].task = post[q].task
          /\ refed' = refed /\ refedCount' = refedCount /\ cleanupStarted' = cleanupStarted
      BY <1>40, <2>2, <1>a, <1>b, <1>c, <1>d, <1>e, <2>0 DEF PostTest, Count, Elems, NoPost
    <3>2. \A x \in Tasks : Carried(x)' <=> Carried(x)
      BY <1>a, <1>b, <1>d, <1>40, <2>2, <3>1 DEF Carried, PostsApart
    <3>3. Distinct'
      BY <1>a, <1>b, <1>d, <1>e, <1>40, <2>0, <3>1 DEF Distinct
    <3>4. Apart'
      BY <1>a, <1>b, <1>d, <1>e, <1>40, <2>0, <3>1 DEF Apart, Queued
    <3>5. CurApart'
      BY <1>a, <1>b, <1>d, <1>e, <1>40, <2>0, <3>1 DEF CurApart, Queued, Apart
    <3>6. PostsApart'
      BY <1>a, <1>b, <1>d, <1>e, <1>40, <2>0, <3>1 DEF PostsApart, Queued, CurApart
    <3>7. HeldIsFresh'
      BY <1>a, <1>b, <1>d, <1>e, <1>f, <1>g, <1>h, <1>40, <2>0, <3>1, <3>2 DEF HeldIsFresh, Apart,
         CurApart, Queued, RunOnce
    <3>8. RunOnce'
      BY <1>a, <1>b, <1>d, <1>e, <1>f, <1>g, <1>h, <1>40, <2>0, <3>1, <3>2 DEF RunOnce, Queued,
         Apart, CurApart, HeldIsFresh
    <3>9. NothingForgotten'
      BY <1>a, <1>b, <1>d, <1>e, <1>f, <1>g, <1>h, <1>40, <2>0, <3>1, <3>2 DEF NothingForgotten,
         HeldIsFresh, Queued
    <3>10. refed' \subseteq used' /\ RefedCountExact'
      BY <1>a, <1>d, <1>e, <3>1 DEF RefedCountExact
    <3> QED
      BY <3>3, <3>4, <3>5, <3>6, <3>7, <3>8, <3>9, <3>10 DEF AccountInv
  <2> QED
    BY <2>1, <2>2
<1>41. ASSUME NEW p \in Posters, PostLocked(p) PROVE AccountInv'
  <2>0. /\ post[p].task \in Tasks /\ post[p].task \notin Queued \cup {cur} /\ Carried(post[p].task)
        /\ post[p].task \in used /\ cleans[post[p].task] = 0 /\ runs[post[p].task] = 0
        /\ Elems(Append(fg, post[p].task)) = Elems(fg) \cup {post[p].task} /\ NoDup(Append(fg,
           post[p].task))
        /\ \A q \in Posters : post'[q].task = IF q = p THEN None ELSE post[q].task
        /\ \A x \in Tasks : Carried(x)' <=> Carried(x) /\ x # post[p].task
    <3>1. \A q \in Posters : post'[q].task = IF q = p THEN None ELSE post[q].task
      BY <1>c, <1>41 DEF PostLocked, NoPost
    <3>2. post[p].task \in Tasks /\ Carried(post[p].task)
      BY <1>b, <1>41 DEF Carried, PostLocked
    <3>3. post[p].task \notin Queued \cup {cur}
      BY <1>h, <3>2
    <3>4. \A x \in Tasks : Carried(x)' <=> Carried(x) /\ x # post[p].task
      BY <1>a, <1>d, <3>1, <3>2, <1>41 DEF Carried, PostsApart
    <3> QED
      BY <1>a, <1>d, <1>f, <3>1, <3>2, <3>3, <3>4, ElemsAppend DEF HeldIsFresh, RunOnce, Queued,
         Distinct
  <2>1. CASE cleanupStarted \/ ~asyncInit
    <3>1. /\ imm' = imm /\ batch' = batch /\ Elems(imm') = Elems(imm) /\ Elems(batch') = Elems(batch)
          /\ fg' = fg /\ Elems(fg') = Elems(fg) /\ delayed' = delayed /\ cleans' = [x \in Tasks |->
             IF x \in {post[p].task} THEN cleans[x] + 1 ELSE cleans[x]]
          /\ scheduled' = scheduled /\ closing' = closing /\ at' = at /\ cur' = cur
          /\ \A q \in Posters : post'[q].task = IF q = p THEN None ELSE post[q].task
          /\ used' = used /\ runs' = runs /\ dropped' = dropped
          /\ post[p].task \in Tasks /\ post[p].task \notin Queued \cup {cur}
          /\ refed' = refed /\ refedCount' = refedCount /\ cleanupStarted' = cleanupStarted
      BY <1>41, <2>1, <1>a, <1>b, <1>c, <1>d, <1>e, <2>0 DEF PostLocked, EnqueueLocked, Count,
         Distinct, Queued, NoPost
    <3>2. \A x \in Tasks : Carried(x)' <=> Carried(x) /\ x # post[p].task
      BY <2>0
    <3>3. Distinct'
      BY <1>a, <1>b, <1>d, <1>e, <1>41, <2>0, <3>1 DEF Distinct
    <3>4. Apart'
      BY <1>a, <1>b, <1>d, <1>e, <1>41, <2>0, <3>1 DEF Apart, Queued
    <3>5. CurApart'
      BY <1>a, <1>b, <1>d, <1>e, <1>41, <2>0, <3>1 DEF CurApart, Queued, Apart
    <3>6. PostsApart'
      BY <1>a, <1>b, <1>d, <1>e, <1>41, <2>0, <3>1 DEF PostsApart, Queued, CurApart
    <3>7. HeldIsFresh'
      BY <1>a, <1>b, <1>d, <1>e, <1>f, <1>g, <1>h, <1>41, <2>0, <3>1, <3>2 DEF HeldIsFresh, Apart,
         CurApart, Queued, RunOnce
    <3>8. RunOnce'
      BY <1>a, <1>b, <1>d, <1>e, <1>f, <1>g, <1>h, <1>41, <2>0, <3>1, <3>2 DEF RunOnce, Queued,
         Apart, CurApart, HeldIsFresh
    <3>9. NothingForgotten'
      BY <1>a, <1>b, <1>d, <1>e, <1>f, <1>g, <1>h, <1>41, <2>0, <3>1, <3>2 DEF NothingForgotten,
         HeldIsFresh, Queued
    <3>10. refed' \subseteq used' /\ RefedCountExact'
      BY <1>a, <1>d, <1>e, <3>1 DEF RefedCountExact
    <3> QED
      BY <3>3, <3>4, <3>5, <3>6, <3>7, <3>8, <3>9, <3>10 DEF AccountInv
  <2>2. CASE ~(cleanupStarted \/ ~asyncInit) /\ post[p].delay
    <3>1. /\ imm' = imm /\ batch' = batch /\ Elems(imm') = Elems(imm) /\ Elems(batch') = Elems(batch)
          /\ fg' = fg /\ Elems(fg') = Elems(fg) /\ delayed' = delayed \cup {post[p].task} /\
             cleans' = cleans
          /\ scheduled' = scheduled /\ closing' = closing /\ at' = at /\ cur' = cur
          /\ \A q \in Posters : post'[q].task = IF q = p THEN None ELSE post[q].task
          /\ used' = used /\ runs' = runs /\ dropped' = dropped
          /\ post[p].task \in Tasks /\ post[p].task \notin Queued \cup {cur}
          /\ refed' = refed /\ refedCount' = refedCount /\ cleanupStarted' = cleanupStarted
      BY <1>41, <2>2, <1>a, <1>b, <1>c, <1>d, <1>e, <2>0 DEF PostLocked, EnqueueLocked, Count,
         Distinct, Queued, NoPost
    <3>2. \A x \in Tasks : Carried(x)' <=> Carried(x) /\ x # post[p].task
      BY <2>0
    <3>3. Distinct'
      BY <1>a, <1>b, <1>d, <1>e, <1>41, <2>0, <3>1 DEF Distinct
    <3>4. Apart'
      BY <1>a, <1>b, <1>d, <1>e, <1>41, <2>0, <3>1 DEF Apart, Queued
    <3>5. CurApart'
      BY <1>a, <1>b, <1>d, <1>e, <1>41, <2>0, <3>1 DEF CurApart, Queued, Apart
    <3>6. PostsApart'
      BY <1>a, <1>b, <1>d, <1>e, <1>41, <2>0, <3>1 DEF PostsApart, Queued, CurApart
    <3>7. HeldIsFresh'
      BY <1>a, <1>b, <1>d, <1>e, <1>f, <1>g, <1>h, <1>41, <2>0, <3>1, <3>2 DEF HeldIsFresh, Apart,
         CurApart, Queued, RunOnce
    <3>8. RunOnce'
      BY <1>a, <1>b, <1>d, <1>e, <1>f, <1>g, <1>h, <1>41, <2>0, <3>1, <3>2 DEF RunOnce, Queued,
         Apart, CurApart, HeldIsFresh
    <3>9. NothingForgotten'
      BY <1>a, <1>b, <1>d, <1>e, <1>f, <1>g, <1>h, <1>41, <2>0, <3>1, <3>2 DEF NothingForgotten,
         HeldIsFresh, Queued
    <3>10. refed' \subseteq used' /\ RefedCountExact'
      BY <1>a, <1>d, <1>e, <3>1 DEF RefedCountExact
    <3> QED
      BY <3>3, <3>4, <3>5, <3>6, <3>7, <3>8, <3>9, <3>10 DEF AccountInv
  <2>3. CASE ~(cleanupStarted \/ ~asyncInit) /\ ~post[p].delay
    <3>1. /\ imm' = imm /\ batch' = batch /\ Elems(imm') = Elems(imm) /\ Elems(batch') = Elems(batch)
          /\ NoDup(fg') /\ Elems(fg') = Elems(fg) \cup {post[p].task} /\ delayed' = delayed /\
             cleans' = cleans
          /\ scheduled' = scheduled /\ closing' = closing /\ at' = at /\ cur' = cur
          /\ \A q \in Posters : post'[q].task = IF q = p THEN None ELSE post[q].task
          /\ used' = used /\ runs' = runs /\ dropped' = dropped
          /\ post[p].task \in Tasks /\ post[p].task \notin Queued \cup {cur}
          /\ refed' = refed /\ refedCount' = refedCount /\ cleanupStarted' = cleanupStarted
      BY <1>41, <2>3, <1>a, <1>b, <1>c, <1>d, <1>e, <2>0 DEF PostLocked, EnqueueLocked, Count,
         Distinct, Queued, NoPost
    <3>2. \A x \in Tasks : Carried(x)' <=> Carried(x) /\ x # post[p].task
      BY <2>0
    <3>3. Distinct'
      BY <1>a, <1>b, <1>d, <1>e, <1>41, <2>0, <3>1 DEF Distinct
    <3>4. Apart'
      BY <1>a, <1>b, <1>d, <1>e, <1>41, <2>0, <3>1 DEF Apart, Queued
    <3>5. CurApart'
      BY <1>a, <1>b, <1>d, <1>e, <1>41, <2>0, <3>1 DEF CurApart, Queued, Apart
    <3>6. PostsApart'
      BY <1>a, <1>b, <1>d, <1>e, <1>41, <2>0, <3>1 DEF PostsApart, Queued, CurApart
    <3>7. HeldIsFresh'
      BY <1>a, <1>b, <1>d, <1>e, <1>f, <1>g, <1>h, <1>41, <2>0, <3>1, <3>2 DEF HeldIsFresh, Apart,
         CurApart, Queued, RunOnce
    <3>8. RunOnce'
      BY <1>a, <1>b, <1>d, <1>e, <1>f, <1>g, <1>h, <1>41, <2>0, <3>1, <3>2 DEF RunOnce, Queued,
         Apart, CurApart, HeldIsFresh
    <3>9. NothingForgotten'
      BY <1>a, <1>b, <1>d, <1>e, <1>f, <1>g, <1>h, <1>41, <2>0, <3>1, <3>2 DEF NothingForgotten,
         HeldIsFresh, Queued
    <3>10. refed' \subseteq used' /\ RefedCountExact'
      BY <1>a, <1>d, <1>e, <3>1 DEF RefedCountExact
    <3> QED
      BY <3>3, <3>4, <3>5, <3>6, <3>7, <3>8, <3>9, <3>10 DEF AccountInv
  <2> QED
    BY <2>1, <2>2, <2>3
<1>42. ASSUME NEW p \in Posters, NEW t \in Tasks, NEW b \in BOOLEAN, PostBegin(p, t, b) PROVE
   AccountInv'
  <2>0. /\ t \in Tasks /\ t # None /\ t \notin used /\ t \notin Queued \cup {cur} /\ cleans[t] = 0 /\ runs[t] = 0
        /\ \A q \in Posters : post[q].task # t
    <3>1. t \in Tasks /\ t \notin used
      BY <1>42 DEF PostBegin
    <3> QED
      BY <3>1, <1>a, <1>d DEF HeldIsFresh, Held, Queued, RunOnce
  <2>1. /\ fg' = fg /\ imm' = imm /\ batch' = batch
        /\ Elems(fg') = Elems(fg) /\ Elems(imm') = Elems(imm) /\ Elems(batch') = Elems(batch)
        /\ delayed' = delayed /\ scheduled' = scheduled /\ closing' = closing
        /\ at' = at /\ cur' = cur
        /\ post[p].task = None /\ \A q \in Posters : post'[q].task = IF q = p THEN t ELSE
           post[q].task
        /\ t \notin used /\ t \notin Queued \cup {cur} /\ (\A q \in Posters : post[q].task # t)
        /\ used' = used \cup {t} /\ runs' = runs /\ cleans' = cleans /\ dropped' = dropped
        /\ refed' = refed /\ refedCount' = refedCount /\ cleanupStarted' = cleanupStarted
    BY <1>42, <1>a, <1>b, <1>c, <1>d, <1>e, <2>0 DEF PostBegin, Elems, Queued
  <2>2. \A x \in Tasks : Carried(x)' <=> Carried(x) \/ x = t
    BY <1>a, <1>b, <1>d, <1>42, <2>1 DEF Carried, PostsApart
  <2>3. Distinct'
    BY <1>a, <1>b, <1>d, <1>e, <1>42, <2>0, <2>1 DEF Distinct
  <2>4. Apart'
    BY <1>a, <1>b, <1>d, <1>e, <1>42, <2>0, <2>1 DEF Apart, Queued
  <2>5. CurApart'
    BY <1>a, <1>b, <1>d, <1>e, <1>42, <2>0, <2>1 DEF CurApart, Queued, Apart
  <2>6. PostsApart'
    <3>1. Queued' = Queued
      BY <2>1 DEF Queued
    <3>2. ASSUME NEW q \in Posters, post'[q].task # None PROVE post'[q].task \notin Queued' \cup
       {cur'}
      BY <1>d, <2>0, <2>1, <3>1, <3>2 DEF PostsApart
    <3>3. ASSUME NEW q \in Posters, NEW r \in Posters, post'[q].task = post'[r].task, post'[q].task
       # None
          PROVE  q = r
      BY <1>d, <2>0, <2>1, <3>3 DEF PostsApart
    <3> QED
      BY <3>2, <3>3 DEF PostsApart
  <2>7. HeldIsFresh'
    BY <1>a, <1>b, <1>d, <1>e, <1>f, <1>g, <1>h, <1>42, <2>0, <2>1, <2>2 DEF HeldIsFresh, Apart,
       CurApart, Queued, RunOnce
  <2>8. RunOnce'
    BY <1>a, <1>b, <1>d, <1>e, <1>f, <1>g, <1>h, <1>42, <2>0, <2>1, <2>2 DEF RunOnce, Queued,
       Apart, CurApart, HeldIsFresh
  <2>9. NothingForgotten'
    BY <1>a, <1>b, <1>d, <1>e, <1>f, <1>g, <1>h, <1>42, <2>0, <2>1, <2>2 DEF NothingForgotten,
       HeldIsFresh, Queued
  <2>10. refed' \subseteq used' /\ RefedCountExact'
    BY <1>a, <1>d, <1>e, <2>1 DEF RefedCountExact
  <2> QED
    BY <2>3, <2>4, <2>5, <2>6, <2>7, <2>8, <2>9, <2>10 DEF AccountInv
<1>43. CASE UNCHANGED vars
  BY <1>43, <1>e, AccountFrame DEF vars
<1>44. ASSUME NEW h \in BOOLEAN, BrokenListThrows(h) PROVE AccountInv'
  BY <1>44, <1>e, AccountFrame DEF BrokenListThrows, ProcessImmediateThrew, FatalExceptionHandled,
     NewImmediate, Goto
<1> QED
  BY <1>1, <1>2, <1>3, <1>4, <1>5, <1>6, <1>7, <1>8, <1>9, <1>10, <1>11, <1>12, <1>13, <1>14,
     <1>15, <1>16, <1>17, <1>18, <1>19, <1>20, <1>21, <1>22, <1>23, <1>24, <1>25, <1>26, <1>27,
     <1>28, <1>29, <1>30, <1>31, <1>32, <1>33, <1>34, <1>35, <1>36, <1>37, <1>38, <1>39, <1>40,
     <1>41, <1>42, <1>43, <1>44
  DEF Next, OwnerStep, JSCall, PostStep, Outcomes

\* Whatever way posts, drains, timers, exceptions and the cleanup interleave, no
\* task is lost, run twice, freed twice or freed while it is held, and
\* refed_immediate_count is the number of refed tasks that wait, for any number
\* of tasks and posters.
THEOREM AccountSafe == Spec => []TasksAccounted
<1>1. Init => AccountInv
  <2> SUFFICES ASSUME Init PROVE AccountInv
    OBVIOUS
  <2>1. Queued = {} /\ Elems(imm) \cap refed = {} /\ Elems(fg) = {} /\ Elems(imm) = {} /\ Elems(batch) = {}
    BY ElemsEmpty DEF Init, Queued
  <2>2. Distinct
    BY ElemsEmpty DEF Init, Distinct
  <2>3. Apart /\ CurApart
    BY <2>1 DEF Init, Apart, CurApart
  <2>4. PostsApart
    BY DEF Init, PostsApart, NoPost
  <2>5. HeldIsFresh
    BY <2>1, ConstantsAssumption DEF Init, HeldIsFresh, Held, NoPost
  <2>6. RunOnce /\ NothingForgotten
    BY <2>1 DEF Init, RunOnce, Carried, NothingForgotten
  <2>7. refed \subseteq used /\ RefedCountExact
    BY <2>1, FS_EmptySet DEF Init, RefedCountExact
  <2> QED
    BY <2>2, <2>3, <2>4, <2>5, <2>6, <2>7 DEF AccountInv
<1>2. TypeOK /\ CleanupInv /\ AccountInv /\ [Next]_vars => AccountInv'
  BY AccountStep
<1>3. Init => CleanupInv
  BY DEF Init, CleanupInv, NothingAfterCleanup
<1>4. CleanupInv /\ [Next]_vars => CleanupInv'
  BY CleanupStep
<1>5. TypeOK /\ AccountInv => TasksAccounted
  BY DEF AccountInv, TasksAccounted, CleanedOnce, HeldIsFresh, RunOnce, TypeOK, HistoryOK
<1> QED
  BY <1>1, <1>2, <1>3, <1>4, <1>5, TypeCorrect, PTL DEF Spec
=============================================================================
