------------------------- MODULE PerTaskEmon_proofs -------------------------
(***************************************************************************)
(* Proofs about PerTaskEmon for any set of tasks: the inductive invariant  *)
(* IInv, conjunct by conjunct, and from it RecordInOnePlace and the        *)
(* refinement of LiveRows; then Settled, Timely and Joined, and from them  *)
(* EdpAfterStop and TimelyRunIsComplete.                                   *)
(***************************************************************************)
EXTENDS PerTaskEmon, EmonCollector_proofs

USE CollectorAssumption, TaskAssumption

LEMMA InitIInv == Init => IInv
<1> SUFFICES ASSUME Init PROVE IInv  OBVIOUS
<1> USE DEF Init, CollectorInit
<1>1. TypeOK
  <2>1. CollectorTypeOK  BY DEF CollectorTypeOK, Status, Process
  <2>2. edp \in [Task -> [at : EdpPlace, idx : MaybeTask, ok : BOOLEAN]]
    BY DEF MaybeTask, EdpPlace
  <2> QED BY <2>1, <2>2 DEF TypeOK, MaybeTask
<1>2. Control  BY DEF Control, Stop, Finish
<1>3. Ownership  BY DEF Ownership
<1>4. \A t \in Task, p \in Place : ~Holds(p, t)
  BY DEF Holds, Place
<1>5. Recorded /\ OneHand /\ RecordInOnePlace
  BY <1>4 DEF Recorded, OneHand, RecordInOnePlace
<1> QED BY <1>1, <1>2, <1>3, <1>5 DEF IInv

-----------------------------------------------------------------------------
(* Type correctness *)

LEMMA TypeStep == IInv /\ [Next]_vars => TypeOK'
<1> SUFFICES ASSUME IInv, [Next]_vars PROVE TypeOK'  OBVIOUS
<1> USE DEF TypeOK, MaybeTask, Stop, Finish, At, trackVars, emonVars, rowVars, runVars,
            collectorVars
<1>c. TypeOK /\ CollectorTypeOK /\ (held # NoTask => held \in Task)
  BY DEF IInv
<1>f. UNCHANGED collectorVars => CollectorTypeOK'
  BY <1>c DEF CollectorTypeOK
<1> HIDE DEF Stop, Finish
<1>1. CASE \E t \in Task : ReadConfig(t)
  BY <1>1, <1>c, <1>f DEF ReadConfig, Stop
<1>2. CASE ReadIntent
  BY <1>2, <1>c, <1>f DEF ReadIntent
<1>3. CASE ReadResult
  BY <1>3, <1>c, <1>f DEF ReadResult, Stop
<1>4. CASE ReadEof
  <2>1. main' \in {"cancel", "join"} /\ finishing' \in BOOLEAN
        /\ then' \in {"read", "config", "leave", "unwind"}
    BY <1>4, <1>c DEF ReadEof
  <2> QED BY <1>4, <2>1, <1>c, <1>f DEF ReadEof, Stop
<1>5. CASE CancelTimer
  BY <1>5, <1>c, <1>f DEF CancelTimer, Stop
<1>6. CASE TakeEmon
  BY <1>6, <1>c, <1>f DEF TakeEmon, AfterStop, Stop, Finish
<1>7. CASE TakeIdx
  BY <1>7, <1>c, <1>f DEF TakeIdx, Stop
<1>8. CASE DropEmon
  BY <1>8, <1>c, <1>f DEF DropEmon, Stop
<1>9. CASE DropIdx
  <2>1. held \in Task
    BY <1>9, <1>c DEF DropIdx, IInv, Ownership
  <2>2. CollectorTypeOK'
    BY <1>9, <2>1, <1>c, InvokeType DEF DropIdx, CollectorTypeOK
  <2> QED BY <1>9, <1>c, <2>2 DEF DropIdx, Stop
<1>10. CASE SpawnEdp
  <2>1. CollectorTypeOK'
    BY <1>10, <1>c, IdleType DEF SpawnEdp, Returns, CollectorTypeOK
  <2>2. main' \in {"record", "reading"}
    BY <1>10 DEF SpawnEdp, AfterStop
  <2>3. edp' \in [Task -> [at : EdpPlace, idx : MaybeTask, ok : BOOLEAN]]
    BY <1>10, <1>c DEF SpawnEdp, EdpPlace
  <2> QED BY <1>10, <1>c, <2>1, <2>2, <2>3 DEF SpawnEdp, Finish
<1>11. CASE Record
  <2>1. cur \in Task
    BY <1>11, <1>c DEF Record, IInv, Control, Finish
  <2>2. recorded \in [Task -> Nat] /\ recorded' = [recorded EXCEPT ![cur] = @ + 1]
    BY <1>11, <1>c DEF Record
  <2>3. recorded' \in [Task -> Nat]
    BY <2>1, <2>2
  <2> QED BY <1>11, <2>3, <1>c, <1>f DEF Record, Finish
<1>12. CASE TaskDone
  <2>1. cur \in Task
    BY <1>12, <1>c DEF TaskDone, IInv, Control, Finish
  <2> QED BY <1>12, <2>1, <1>c, <1>f DEF TaskDone, WriteRow, Finish
<1>13. CASE Files
  <2>1. main' \in {"reading", "cancel", "join", "exited"} /\ cur' \in MaybeTask
    BY <1>13, <1>c DEF Files
  <2>2. finishing' \in BOOLEAN /\ then' = "read" /\ incoming' = NoTask
    BY <1>13 DEF Files
  <2>3. UNCHANGED <<seen, intents, recorded, collectorVars, emonVars, rowVars, runVars>>
    BY <1>13 DEF Files
  <2>4. CollectorTypeOK'
    BY <1>f, <2>3
  <2> QED BY <2>1, <2>2, <2>3, <2>4, <1>c DEF Stop
<1>14. CASE Join
  BY <1>14, <1>c, <1>f DEF Join
<1>15. CASE Exit
  BY <1>15, <1>c, <1>f DEF Exit
<1>16. CASE \E t \in Task : TimerStep(t)
  <2> SUFFICES ASSUME NEW t \in Task, TimerStep(t) PROVE TypeOK'
    BY <1>16
  <2>1. CASE TimerFire(t)
    <3>1. CollectorTypeOK'
      BY <2>1, <1>c, InvokeType DEF TimerFire, CollectorTypeOK
    <3> QED BY <2>1, <3>1, <1>c DEF TimerFire
  <2>2. CASE TimerStarted(t)
    <3>1. CollectorTypeOK'
      BY <2>2, <1>c, IdleType DEF TimerStarted, Returns, CollectorTypeOK
    <3> QED BY <2>2, <3>1, <1>c DEF TimerStarted
  <2>3. CASE Register(t)
    BY <2>3, <1>c, <1>f DEF Register
  <2>4. CASE RegisterIdx(t)
    BY <2>4, <1>c, <1>f DEF RegisterIdx
  <2> QED BY <2>1, <2>2, <2>3, <2>4 DEF TimerStep
<1>17. CASE \E c \in Task : EdpStep(c)
  <2> SUFFICES ASSUME NEW c \in Task, EdpStep(c) PROVE TypeOK'
    BY <1>17
  <2>1. CASE EdpFinish(c)
    BY <2>1, <1>c, <1>f DEF EdpFinish, EdpPlace
  <2>2. CASE EdpLookup(c)
    BY <2>2, <1>c, <1>f DEF EdpLookup, EdpAt, EdpPlace
  <2>3. CASE EdpWrite(c)
    <3>1. edp[c].idx \in Task
      BY <2>3, <1>c DEF EdpWrite, EdpAt, IInv, Ownership
    <3> QED BY <2>3, <3>1, <1>c, <1>f DEF EdpWrite, EdpAt, EdpPlace, WriteRow
  <2> QED BY <2>1, <2>2, <2>3 DEF EdpStep
<1>18. CASE \E t \in Thread : EmonStep(t)
  <2>1. CollectorTypeOK'
    BY <1>18, <1>c, StepType DEF EmonStep
  <2> QED BY <1>18, <2>1, <1>c DEF EmonStep
<1>19. CASE EmonDies
  <2>1. CollectorTypeOK'
    BY <1>19, <1>c, ExitType DEF EmonDies
  <2> QED BY <1>19, <2>1, <1>c DEF EmonDies
<1>20. CASE Interrupt
  <2>1. CollectorTypeOK'
    BY <1>20, <1>c, IdleType DEF Interrupt, Unwind, CollectorTypeOK
  <2> QED BY <1>20, <2>1, <1>c DEF Interrupt, Stop
<1>21. CASE Terminated \/ UNCHANGED vars
  BY <1>21, <1>c, <1>f DEF Terminated, vars
<1> QED BY <1>1, <1>2, <1>3, <1>4, <1>5, <1>6, <1>7, <1>8, <1>9, <1>10, <1>11, <1>12,
           <1>13, <1>14, <1>15, <1>16, <1>17, <1>18, <1>19, <1>20, <1>21
        DEF Next, MainStep

-----------------------------------------------------------------------------
(* Control: which task the main thread has open *)

\* The threads other than the main one leave its control state alone.
LEMMA OthersLeaveControl ==
  ASSUME \/ ReadIntent
         \/ \E t \in Task : TimerStep(t)
         \/ \E c \in Task : EdpStep(c)
         \/ \E t \in Thread : EmonStep(t)
         \/ EmonDies \/ Terminated \/ UNCHANGED vars
  PROVE  UNCHANGED <<seen, cur, main, finishing, then, incoming, recorded,
                     unwinding, torn>>
<1> USE DEF trackVars, runVars
<1>1. CASE ReadIntent  BY <1>1 DEF ReadIntent
<1>2. CASE \E t \in Task : TimerStep(t)
  BY <1>2 DEF TimerStep, TimerFire, TimerStarted, Register, RegisterIdx
<1>3. CASE \E c \in Task : EdpStep(c)
  BY <1>3 DEF EdpStep, EdpFinish, EdpLookup, EdpWrite, EdpAt
<1>4. CASE (\E t \in Thread : EmonStep(t)) \/ EmonDies
  BY <1>4 DEF EmonStep, EmonDies
<1>5. CASE Terminated \/ UNCHANGED vars
  BY <1>5 DEF Terminated, vars
<1> QED BY <1>1, <1>2, <1>3, <1>4, <1>5

LEMMA ControlStep == IInv /\ [Next]_vars => Control'
<1> SUFFICES ASSUME IInv, [Next]_vars PROVE Control'  OBVIOUS
<1> USE DEF Control, Stop, Finish, At, trackVars, runVars
<1>c. Control /\ cur \in MaybeTask /\ incoming \in MaybeTask /\ torn \in MaybeTask
  BY DEF IInv, TypeOK
<1>1. CASE \E t \in Task : ReadConfig(t)
  BY <1>1, <1>c DEF ReadConfig
<1>2. CASE ReadResult
  BY <1>2, <1>c DEF ReadResult
<1>3. CASE ReadEof
  BY <1>3, <1>c DEF ReadEof
<1>4. CASE CancelTimer
  BY <1>4, <1>c DEF CancelTimer
<1>5. CASE TakeEmon
  BY <1>5, <1>c DEF TakeEmon, AfterStop
<1>6. CASE TakeIdx \/ DropEmon \/ DropIdx
  BY <1>6, <1>c DEF TakeIdx, DropEmon, DropIdx
<1>7. CASE SpawnEdp
  BY <1>7, <1>c DEF SpawnEdp, AfterStop
<1>8. CASE Record
  BY <1>8, <1>c DEF Record
<1>9. CASE TaskDone
  BY <1>9, <1>c DEF TaskDone
<1>10. CASE Files
  BY <1>10, <1>c DEF Files
<1>11. CASE Join \/ Exit
  BY <1>11, <1>c DEF Join, Exit
<1>12. CASE Interrupt
  <2>1. /\ unwinding' = TRUE /\ incoming' = NoTask /\ UNCHANGED <<seen, cur>>
        /\ torn' = IF main \in {"task_done", "files"} THEN cur ELSE torn
    BY <1>12 DEF Interrupt
  <2>2. CASE unwinding \/ cur = NoTask \/ (finishing /\ then = "leave")
    <3>1. main' = "exited" /\ UNCHANGED <<finishing, then>>
      BY <1>12, <2>2 DEF Interrupt
    <3>2. then # "config"
      BY <1>12, <1>c, <2>2 DEF Interrupt, Running
    <3> QED BY <2>1, <3>1, <3>2, <1>c
  <2>3. CASE ~(unwinding \/ cur = NoTask \/ (finishing /\ then = "leave"))
    <3>1. main' = "cancel" /\ finishing' = TRUE /\ then' = "unwind"
      BY <1>12, <2>3 DEF Interrupt
    <3>2. torn = NoTask
      BY <1>c, <2>3
    <3> QED BY <2>1, <2>3, <3>1, <3>2, <1>c
  <2> QED BY <2>2, <2>3
<1>13. CASE UNCHANGED <<seen, cur, main, finishing, then, incoming, recorded,
                        unwinding, torn>>
  BY <1>13, <1>c
<1> QED BY <1>1, <1>2, <1>3, <1>4, <1>5, <1>6, <1>7, <1>8, <1>9, <1>10, <1>11, <1>12,
           <1>13, OthersLeaveControl DEF Next, MainStep

-----------------------------------------------------------------------------
(* Ownership: one collector goes one way, from its Timer to its _edp thread *)

LEMMA OwnershipStep == IInv /\ [Next]_vars => Ownership'
<1> SUFFICES ASSUME IInv, [Next]_vars PROVE Ownership'  OBVIOUS
<1> DEFINE Same == UNCHANGED <<main, seen, intents, current, held, timer, edp>>
<1> USE DEF Ownership, At, trackVars, emonVars
<1>c. /\ Ownership
      /\ seen \in SUBSET Task /\ cur \in MaybeTask
      /\ current \in MaybeTask /\ held \in MaybeTask /\ pending \in MaybeTask
      /\ cache \in SUBSET Task
      /\ timer \in [Task -> {"none", "armed", "cancelled", "starting", "register",
                             "register_idx", "done"}]
      /\ edp \in [Task -> [at : EdpPlace, idx : MaybeTask, ok : BOOLEAN]]
  BY DEF IInv, TypeOK
<1>s. Same => Ownership'
  BY <1>c
<1>1. CASE \E t \in Task : ReadConfig(t)
  BY <1>1, <1>c DEF ReadConfig
<1>2. CASE ReadIntent
  <2>1. cur \in Task /\ cur \in seen /\ timer[cur] = "none"
    BY <1>2, <1>c DEF ReadIntent, IInv, Control, MaybeTask
  <2>2. timer' = [timer EXCEPT ![cur] = "armed"] /\ intents' = intents \cup {cur}
        /\ UNCHANGED <<main, seen, current, held, edp>>
    BY <1>2 DEF ReadIntent
  <2> QED BY <2>1, <2>2, <1>c
<1>3. CASE ReadResult
  BY <1>3, <1>c DEF ReadResult
<1>4. CASE ReadEof
  BY <1>4, <1>c DEF ReadEof
<1>5. CASE CancelTimer
  BY <1>5, <1>c DEF CancelTimer
<1>6. CASE TakeEmon
  BY <1>6, <1>c DEF TakeEmon, AfterStop, MaybeTask
<1>7. CASE TakeIdx
  BY <1>7, <1>c DEF TakeIdx
<1>8. CASE DropEmon
  BY <1>8, <1>c DEF DropEmon
<1>9. CASE DropIdx
  BY <1>9, <1>c DEF DropIdx
<1>10. CASE SpawnEdp
  BY <1>10, <1>c DEF SpawnEdp, AfterStop
<1>11. CASE Record \/ TaskDone
  BY <1>11, <1>c DEF Record, TaskDone
<1>12. CASE Files
  BY <1>12, <1>c DEF Files
<1>13. CASE Join \/ Exit
  BY <1>13, <1>c DEF Join, Exit
<1>14. CASE \E t \in Task : TimerStep(t)
  <2> SUFFICES ASSUME NEW t \in Task, TimerStep(t) PROVE Ownership'
    BY <1>14
  <2>1. CASE TimerFire(t)
    BY <2>1, <1>c DEF TimerFire
  <2>2. CASE TimerStarted(t)
    BY <2>2, <1>c DEF TimerStarted
  <2>3. CASE Register(t)
    BY <2>3, <1>c DEF Register
  <2>4. CASE RegisterIdx(t)
    BY <2>4, <1>c DEF RegisterIdx
  <2> QED BY <2>1, <2>2, <2>3, <2>4 DEF TimerStep
<1>15. CASE \E c \in Task : EdpStep(c)
  <2> SUFFICES ASSUME NEW c \in Task, EdpStep(c) PROVE Ownership'
    BY <1>15
  <2>1. CASE EdpFinish(c)
    BY <2>1, <1>c DEF EdpFinish
  <2>2. CASE EdpLookup(c)
    BY <2>2, <1>c DEF EdpLookup, EdpAt
  <2>3. CASE EdpWrite(c)
    BY <2>3, <1>c DEF EdpWrite, EdpAt
  <2> QED BY <2>1, <2>2, <2>3 DEF EdpStep
<1>16. CASE (\E t \in Thread : EmonStep(t)) \/ EmonDies
  BY <1>16, <1>s DEF EmonStep, EmonDies
<1>17. CASE Interrupt
  BY <1>17, <1>c DEF Interrupt
<1>18. CASE Terminated \/ UNCHANGED vars
  BY <1>18, <1>s DEF Terminated, vars
<1> QED BY <1>1, <1>2, <1>3, <1>4, <1>5, <1>6, <1>7, <1>8, <1>9, <1>10, <1>11, <1>12,
           <1>13, <1>14, <1>15, <1>16, <1>17, <1>18 DEF Next, MainStep

-----------------------------------------------------------------------------
(* Where the records are *)

\* Only five steps move a record, or forget that it is being moved.
LEMMA OtherStepsMoveNoRecord ==
  ASSUME IInv, [Next]_vars, ~Record, ~TaskDone, ~Interrupt,
         \A c \in Task : ~EdpLookup(c) /\ ~EdpWrite(c)
  PROVE  /\ UNCHANGED <<recorded, cache, rows, dropped, torn>>
         /\ \/ main # "task_done" /\ main' # "task_done"
            \/ UNCHANGED <<main, cur>>
         /\ \A c \in Task : /\ edp'[c].at = "writing" <=> edp[c].at = "writing"
                            /\ edp[c].at = "writing" => edp'[c].idx = edp[c].idx
<1> DEFINE Kept == /\ UNCHANGED <<recorded, cache, rows, dropped, torn>>
                   /\ \/ main # "task_done" /\ main' # "task_done"
                      \/ UNCHANGED <<main, cur>>
           Hands == \A c \in Task :
                      /\ edp'[c].at = "writing" <=> edp[c].at = "writing"
                      /\ edp[c].at = "writing" => edp'[c].idx = edp[c].idx
<1> USE DEF At, trackVars, emonVars, rowVars, runVars
<1>c. /\ held \in MaybeTask /\ (held # NoTask => edp[held].at = "none")
      /\ edp \in [Task -> [at : EdpPlace, idx : MaybeTask, ok : BOOLEAN]]
  BY DEF IInv, TypeOK, Ownership
<1>1. CASE \E t \in Task : ReadConfig(t)
  BY <1>1 DEF ReadConfig
<1>2. CASE ReadIntent \/ ReadResult \/ ReadEof
  BY <1>2 DEF ReadIntent, ReadResult, ReadEof
<1>3. CASE CancelTimer \/ TakeIdx \/ DropEmon \/ DropIdx
  BY <1>3 DEF CancelTimer, TakeIdx, DropEmon, DropIdx
<1>4. CASE TakeEmon
  BY <1>4 DEF TakeEmon, AfterStop
<1>5. CASE SpawnEdp
  <2>1. Kept
    BY <1>5 DEF SpawnEdp, AfterStop
  <2>2. edp' = [edp EXCEPT ![held] = [at |-> "processing", idx |-> heldIdx, ok |-> FALSE]]
        /\ held \in Task
    BY <1>5, <1>c DEF SpawnEdp, IInv, Ownership, MaybeTask
  <2> QED BY <2>1, <2>2, <1>c
<1>6. CASE Files
  BY <1>6 DEF Files
<1>7. CASE Join \/ Exit
  BY <1>7 DEF Join, Exit
<1>8. CASE \E t \in Task : TimerStep(t)
  BY <1>8 DEF TimerStep, TimerFire, TimerStarted, Register, RegisterIdx
<1>9. CASE \E c \in Task : EdpFinish(c)
  BY <1>9, <1>c DEF EdpFinish
<1>10. CASE (\E t \in Thread : EmonStep(t)) \/ EmonDies
  BY <1>10 DEF EmonStep, EmonDies
<1>11. CASE Terminated \/ UNCHANGED vars
  BY <1>11 DEF Terminated, vars
<1> QED BY <1>1, <1>2, <1>3, <1>4, <1>5, <1>6, <1>7, <1>8, <1>9, <1>10, <1>11
        DEF Next, MainStep, EdpStep

\* The interrupt forgets at most the task it declares torn.
LEMMA InterruptTears ==
  ASSUME IInv, Interrupt
  PROVE  /\ UNCHANGED <<recorded, cache, rows, dropped, edp, seen, cur>>
         /\ main # "exited" /\ main' \in {"exited", "cancel"} /\ incoming' = NoTask
         /\ torn # NoTask => torn' = torn
         /\ main \in {"task_done", "files"} => torn' = cur
         /\ main \notin {"task_done", "files"} => torn' = torn
<1>1. torn # NoTask /\ main # "exited" => cur = torn
  BY DEF IInv, Control
<1> QED BY <1>1 DEF Interrupt, Running, rowVars

LEMMA RecordedStep == IInv /\ [Next]_vars => Recorded'
<1> SUFFICES ASSUME IInv, [Next]_vars PROVE Recorded'  OBVIOUS
<1> USE DEF Recorded, Place, Holds, At, trackVars, emonVars, rowVars, runVars
<1>c. /\ Recorded /\ Control
      /\ seen \in SUBSET Task /\ cur \in MaybeTask /\ incoming \in MaybeTask
      /\ recorded \in [Task -> Nat] /\ rows \in [Task -> Nat]
      /\ cache \in SUBSET Task /\ dropped \in SUBSET Task
      /\ edp \in [Task -> [at : EdpPlace, idx : MaybeTask, ok : BOOLEAN]]
  BY DEF IInv, TypeOK
<1>1. CASE Record
  BY <1>1, <1>c DEF Record, Control, Finish, MaybeTask
<1>2. CASE TaskDone
  BY <1>2, <1>c DEF TaskDone, WriteRow, Control, Finish, MaybeTask
<1>3. CASE Interrupt
  BY <1>3, <1>c, InterruptTears
<1>4. ASSUME NEW c \in Task, EdpLookup(c) PROVE Recorded'
  BY <1>4, <1>c DEF EdpLookup, EdpAt
<1>5. ASSUME NEW c \in Task, EdpWrite(c) PROVE Recorded'
  BY <1>5, <1>c DEF EdpWrite, EdpAt, WriteRow
<1>6. ASSUME ~Record, ~TaskDone, ~Interrupt, \A c \in Task : ~EdpLookup(c) /\ ~EdpWrite(c)
      PROVE  Recorded'
  <2>1. /\ UNCHANGED <<recorded, cache, rows, dropped, torn>>
        /\ \A t \in Task : \A p \in Place : Holds(p, t)' => Holds(p, t)
    BY <1>6, OtherStepsMoveNoRecord
  <2>2. \A t \in Task : (\E p \in Place : Holds(p, t))' => recorded'[t] > 0
    BY <2>1, <1>c
  <2>3. /\ \A t \in Task : t \notin seen' \/ t = incoming' => recorded[t] = 0
        /\ cur' # NoTask /\ cur' # torn /\ main' \notin {"task_done", "files", "exited"}
             => recorded[cur'] = 0
        /\ main' \in {"task_done", "files"} => recorded[cur'] > 0
    <3> HIDE DEF Place, Holds
    <3>1. CASE \E t \in Task : ReadConfig(t)
      BY <3>1, <1>c DEF ReadConfig
    <3>2. CASE ReadResult \/ ReadEof
      BY <3>2, <1>c DEF ReadResult, ReadEof
    <3>3. CASE CancelTimer \/ TakeIdx \/ DropEmon \/ DropIdx
      BY <3>3, <1>c DEF CancelTimer, TakeIdx, DropEmon, DropIdx
    <3>4. CASE TakeEmon \/ SpawnEdp
      BY <3>4, <1>c DEF TakeEmon, SpawnEdp, AfterStop
    <3>5. CASE Files
      BY <3>5, <1>c DEF Files, Control, Finish
    <3>6. CASE Join \/ Exit
      BY <3>6, <1>c DEF Join, Exit
    <3>7. CASE UNCHANGED <<seen, cur, main, finishing, then, incoming, recorded,
                           unwinding, torn>>
      BY <3>7, <1>c
    <3> QED BY <1>6, <3>1, <3>2, <3>3, <3>4, <3>5, <3>6, <3>7, OthersLeaveControl
            DEF Next, MainStep
  <2> QED BY <2>1, <2>2, <2>3
<1> QED BY <1>1, <1>2, <1>3, <1>4, <1>5, <1>6

\* A record that is in the cache is in nobody's hands, and it has one place only.
LEMMA OneHandStep == IInv /\ [Next]_vars => OneHand'
<1> SUFFICES ASSUME IInv, [Next]_vars PROVE OneHand'  OBVIOUS
<1> USE DEF OneHand, At, trackVars, emonVars, rowVars, runVars
<1>c. /\ OneHand
      /\ edp \in [Task -> [at : EdpPlace, idx : MaybeTask, ok : BOOLEAN]]
  BY DEF IInv, TypeOK
<1>1. CASE Record \/ TaskDone
  BY <1>1, <1>c DEF Record, TaskDone
<1>2. CASE Interrupt
  <2>1. \A c \in Task : edp[c].at = "writing" => edp[c].idx \in Task
    BY DEF IInv, Ownership
  <2> QED BY <1>2, <2>1, <1>c, InterruptTears
<1>3. ASSUME NEW c \in Task, EdpLookup(c) PROVE OneHand'
  <2>1. \A d \in Task : edp[d].at = "writing" /\ edp[d].idx \in cache => edp[d].idx = torn
    <3> SUFFICES ASSUME NEW d \in Task, edp[d].at = "writing", edp[d].idx \in cache,
                        edp[d].idx # torn
                 PROVE  FALSE
      OBVIOUS
    <3>1. edp[d].idx \in Task \ {torn}
      BY DEF IInv, TypeOK
    <3>2. Holds("in_hand", edp[d].idx) /\ Holds("cached", edp[d].idx)
      BY DEF Holds
    <3> QED BY <3>1, <3>2 DEF IInv, RecordInOnePlace, Recorded, Place, TypeOK
  <2> QED BY <1>3, <2>1, <1>c DEF EdpLookup, EdpAt
<1>4. ASSUME NEW c \in Task, EdpWrite(c) PROVE OneHand'
  BY <1>4, <1>c DEF EdpWrite, EdpAt
<1>5. ASSUME ~Record, ~TaskDone, ~Interrupt, \A c \in Task : ~EdpLookup(c) /\ ~EdpWrite(c)
      PROVE  OneHand'
  BY <1>5, <1>c, OtherStepsMoveNoRecord
<1> QED BY <1>1, <1>2, <1>3, <1>4, <1>5

\* A step moves a record from its place to the next, or leaves it there.
LEMMA OnePlaceStep == IInv /\ [Next]_vars => RecordInOnePlace'
<1> SUFFICES ASSUME IInv, [Next]_vars, NEW t \in Task, t # torn'
             PROVE  /\ rows'[t] <= 1
                    /\ recorded'[t] = 0 => \A p \in Place : ~Holds(p, t)'
                    /\ recorded'[t] > 0 =>
                         \E p \in Place : \A q \in Place : Holds(q, t)' <=> q = p
  BY DEF RecordInOnePlace
<1> DEFINE Hand(c) == edp[c].at = "writing" /\ edp[c].idx = t
<1> USE DEF Place, At, trackVars, emonVars, rowVars, runVars
<1>t. /\ cur \in MaybeTask /\ torn \in MaybeTask
      /\ recorded \in [Task -> Nat] /\ rows \in [Task -> Nat]
      /\ cache \in SUBSET Task /\ dropped \in SUBSET Task
      /\ edp \in [Task -> [at : EdpPlace, idx : MaybeTask, ok : BOOLEAN]]
  BY DEF IInv, TypeOK
<1>n. t # torn
  <2>1. UNCHANGED torn \/ (torn # NoTask => torn' = torn)
    <3>1. CASE Record \/ TaskDone  BY <3>1 DEF Record, TaskDone
    <3>2. CASE Interrupt  BY <3>2, InterruptTears
    <3>3. ASSUME NEW c \in Task, EdpLookup(c) \/ EdpWrite(c) PROVE UNCHANGED torn
      BY <3>3 DEF EdpLookup, EdpWrite, EdpAt
    <3> QED BY <3>1, <3>2, <3>3, OtherStepsMoveNoRecord
  <2> QED BY <2>1
<1>p. /\ rows[t] <= 1
      /\ recorded[t] = 0 => \A p \in Place : ~Holds(p, t)
      /\ recorded[t] > 0 => \E p \in Place : \A q \in Place : Holds(q, t) <=> q = p
  BY <1>n DEF IInv, RecordInOnePlace
<1>1. CASE Record
  <2>1. cur \in Task /\ (cur = t => recorded[t] = 0)
    BY <1>1, <1>t, <1>n DEF Record, IInv, Control, Recorded, Finish, MaybeTask
  <2>2. CASE cur = t
    BY <1>1, <2>1, <2>2, <1>t, <1>p DEF Record, Holds
  <2>3. CASE cur # t
    BY <1>1, <2>1, <2>3, <1>t, <1>p DEF Record, Holds
  <2> QED BY <2>2, <2>3
<1>2. CASE TaskDone
  <2>1. cur \in Task
    BY <1>2, <1>t DEF TaskDone, IInv, Control, Finish, MaybeTask
  <2>2. CASE cur = t
    <3>1. Holds("handing", t) /\ recorded[t] > 0
      BY <1>2, <2>2, <1>t, <1>p DEF TaskDone, Holds
    <3>2. \A q \in Place : q # "handing" => ~Holds(q, t)
      BY <3>1, <1>p
    <3>3. rows[t] = 0 /\ t \notin cache /\ t \notin dropped /\ \A c \in Task : ~Hand(c)
      BY <3>2, <1>t DEF Holds
    <3> QED BY <1>2, <2>1, <2>2, <3>1, <3>3, <1>t DEF TaskDone, WriteRow, Holds
  <2>3. CASE cur # t
    BY <1>2, <2>1, <2>3, <1>t, <1>p DEF TaskDone, WriteRow, Holds
  <2> QED BY <2>2, <2>3
<1>3. CASE Interrupt
  BY <1>3, <1>t, <1>p, InterruptTears DEF Holds
<1>4. ASSUME NEW c \in Task, EdpLookup(c) PROVE
        /\ rows'[t] <= 1
        /\ recorded'[t] = 0 => \A p \in Place : ~Holds(p, t)'
        /\ recorded'[t] > 0 => \E p \in Place : \A q \in Place : Holds(q, t)' <=> q = p
  <2>1. CASE edp[c].idx = t /\ t \in cache
    <3>1. Holds("cached", t) /\ recorded[t] > 0
      BY <2>1, <1>t, <1>p DEF Holds
    <3>2. \A q \in Place : q # "cached" => ~Holds(q, t)
      BY <3>1, <1>p
    <3>3. /\ rows[t] = 0 /\ t \notin dropped /\ ~(main = "task_done" /\ cur = t)
          /\ \A d \in Task : ~Hand(d)
      BY <3>2, <1>t DEF Holds
    <3>4. /\ UNCHANGED <<main, cur, recorded, rows, dropped>>
          /\ t \notin cache' /\ edp'[c].at = "writing" /\ edp'[c].idx = t
      BY <1>4, <2>1, <1>t DEF EdpLookup, EdpAt
    <3> QED BY <3>1, <3>3, <3>4, <1>t DEF Holds
  <2>2. CASE ~(edp[c].idx = t /\ t \in cache)
    BY <1>4, <2>2, <1>t, <1>p DEF EdpLookup, EdpAt, Holds
  <2> QED BY <2>1, <2>2
<1>5. ASSUME NEW c \in Task, EdpWrite(c) PROVE
        /\ rows'[t] <= 1
        /\ recorded'[t] = 0 => \A p \in Place : ~Holds(p, t)'
        /\ recorded'[t] > 0 => \E p \in Place : \A q \in Place : Holds(q, t)' <=> q = p
  <2>1. CASE edp[c].idx = t
    <3>1. Hand(c) /\ Holds("in_hand", t) /\ recorded[t] > 0
      BY <1>5, <2>1, <1>t, <1>p DEF EdpWrite, EdpAt, Holds
    <3>2. \A q \in Place : q # "in_hand" => ~Holds(q, t)
      BY <3>1, <1>p
    <3>3. /\ rows[t] = 0 /\ t \notin dropped /\ t \notin cache
          /\ ~(main = "task_done" /\ cur = t)
      BY <3>2, <1>t DEF Holds
    <3>4. \A d \in Task : Hand(d) => d = c
      BY <3>1, <1>n DEF IInv, OneHand
    <3>5. /\ UNCHANGED <<main, cur, recorded, cache>>
          /\ edp' = [edp EXCEPT ![c] = [at |-> "done", idx |-> edp[c].idx, ok |-> edp[c].ok]]
          /\ \/ rows' = [rows EXCEPT ![t] = @ + 1] /\ UNCHANGED dropped
             \/ dropped' = dropped \cup {t} /\ UNCHANGED rows
      BY <1>5, <2>1 DEF EdpWrite, EdpAt, WriteRow
    <3>6. \A d \in Task : ~Hand(d)'
      BY <3>4, <3>5, <1>t
    <3> QED BY <3>1, <3>3, <3>5, <3>6, <1>t DEF Holds
  <2>2. CASE edp[c].idx # t
    BY <1>5, <2>2, <1>t, <1>p DEF EdpWrite, EdpAt, WriteRow, Holds, IInv, Ownership
  <2> QED BY <2>1, <2>2
<1>6. ASSUME ~Record, ~TaskDone, ~Interrupt, \A c \in Task : ~EdpLookup(c) /\ ~EdpWrite(c)
      PROVE
        /\ rows'[t] <= 1
        /\ recorded'[t] = 0 => \A p \in Place : ~Holds(p, t)'
        /\ recorded'[t] > 0 => \E p \in Place : \A q \in Place : Holds(q, t)' <=> q = p
  <2>1. UNCHANGED <<recorded, rows>> /\ \A p \in Place : Holds(p, t)' <=> Holds(p, t)
    BY <1>6, OtherStepsMoveNoRecord DEF Holds
  <2> QED BY <2>1, <1>p
<1> QED BY <1>1, <1>2, <1>3, <1>4, <1>5, <1>6

-----------------------------------------------------------------------------
(* The theorems *)

\* The strengthened invariant holds in every reachable state, for any tasks.
THEOREM Invariance == Spec => []IInv
<1>1. Init => IInv
  BY InitIInv
<1>2. IInv /\ [Next]_vars => IInv'
  BY TypeStep, ControlStep, OwnershipStep, RecordedStep, OneHandStep, OnePlaceStep DEF IInv
<1> QED BY <1>1, <1>2, PTL DEF Spec

\* Every variable keeps to its values (the state run.py:587-883 shares).
THEOREM TypeCorrect == Spec => []TypeOK
<1>1. IInv => TypeOK
  BY DEF IInv
<1> QED BY <1>1, Invariance, PTL

\* However the threads of run.py:749-883 interleave, wherever a signal hits, a
\* finished task's record is in one place only: no live row is written twice.
THEOREM RecordSafe == Spec => []RecordInOnePlace
<1>1. IInv => RecordInOnePlace
  BY DEF IInv
<1> QED BY <1>1, Invariance, PTL

\* A step of the code is a step of LiveRows or changes nothing LiveRows sees.
LEMMA StepSimulation == IInv /\ [Next]_vars => [LR!Next]_(LR!vars)
<1> SUFFICES ASSUME IInv, [Next]_vars PROVE [LR!Next]_(LR!vars)
  OBVIOUS
<1> DEFINE finished == {t \in Task : recorded[t] > 0}
<1> USE DEF At, trackVars, emonVars, rowVars, runVars, LR!vars
<1>t. /\ cur \in MaybeTask /\ torn \in MaybeTask
      /\ recorded \in [Task -> Nat] /\ rows \in [Task -> Nat]
      /\ edp \in [Task -> [at : EdpPlace, idx : MaybeTask, ok : BOOLEAN]]
  BY DEF IInv, TypeOK
<1>p. ASSUME NEW t \in Task, Holds("handing", t) \/ Holds("in_hand", t)
      PROVE  recorded[t] > 0 /\ (rows[t] = 0 \/ t = torn)
  <2>1. recorded[t] > 0
    BY <1>p DEF IInv, Recorded, Place
  <2>2. t # torn => ~Holds("written", t)
    BY <1>p, <2>1 DEF IInv, RecordInOnePlace, Place
  <2> QED BY <2>1, <2>2, <1>t DEF Holds
<1>1. CASE Record
  <2>1. cur \in Task /\ UNCHANGED <<rows, torn>>
        /\ recorded' = [recorded EXCEPT ![cur] = @ + 1]
    BY <1>1, <1>t DEF Record, IInv, Control, Finish, MaybeTask
  <2>2. CASE recorded[cur] = 0
    <3>1. finished' = finished \cup {cur} /\ cur \notin finished
      BY <2>1, <2>2, <1>t
    <3>2. LR!Finish(cur)
      BY <2>1, <3>1 DEF LR!Finish
    <3> QED BY <2>1, <3>2 DEF LR!Next, LR!Finish
  <2>3. CASE recorded[cur] # 0
    <3>1. finished' = finished
      BY <2>1, <2>3, <1>t
    <3> QED BY <2>1, <3>1
  <2> QED BY <2>2, <2>3
<1>2. CASE TaskDone
  <2>1. cur \in Task /\ Holds("handing", cur)
    BY <1>2, <1>t DEF TaskDone, IInv, Control, Finish, MaybeTask, Holds
  <2>2. recorded[cur] > 0 /\ (rows[cur] = 0 \/ cur = torn)
    BY <2>1, <1>p
  <2>3. UNCHANGED <<recorded, torn>>
        /\ (rows' = [rows EXCEPT ![cur] = @ + 1] \/ UNCHANGED rows)
    BY <1>2 DEF TaskDone, WriteRow
  <2>4. CASE rows' = [rows EXCEPT ![cur] = @ + 1]
    <3>1. LR!Persist(cur)
      BY <2>1, <2>2, <2>3, <2>4 DEF LR!Persist
    <3> QED BY <2>1, <3>1 DEF LR!Next
  <2> QED BY <2>3, <2>4
<1>3. ASSUME NEW c \in Task, EdpWrite(c) PROVE [LR!Next]_(LR!vars)
  <2> DEFINE i == edp[c].idx
  <2>1. i \in Task /\ Holds("in_hand", i)
    BY <1>3 DEF EdpWrite, EdpAt, IInv, Ownership, Holds
  <2>2. recorded[i] > 0 /\ (rows[i] = 0 \/ i = torn)
    BY <2>1, <1>p
  <2>3. UNCHANGED <<recorded, torn>>
        /\ (rows' = [rows EXCEPT ![i] = @ + 1] \/ UNCHANGED rows)
    BY <1>3 DEF EdpWrite, EdpAt, WriteRow
  <2>4. CASE rows' = [rows EXCEPT ![i] = @ + 1]
    <3>1. LR!Persist(i)
      BY <2>1, <2>2, <2>3, <2>4 DEF LR!Persist
    <3> QED BY <2>1, <3>1 DEF LR!Next
  <2> QED BY <2>3, <2>4
<1>4. CASE Interrupt
  <2>1. /\ UNCHANGED <<recorded, rows>>
        /\ \/ UNCHANGED torn
           \/ torn' = cur /\ torn = NoTask /\ main \in {"task_done", "files"}
    <3>1. UNCHANGED <<recorded, rows>>
      BY <1>4, InterruptTears
    <3>2. UNCHANGED torn \/ (torn' = cur /\ main \in {"task_done", "files"})
      BY <1>4, InterruptTears
    <3>3. torn # NoTask => UNCHANGED torn
      BY <1>4, InterruptTears
    <3> QED BY <3>1, <3>2, <3>3
  <2>2. CASE torn' = cur /\ torn = NoTask /\ main \in {"task_done", "files"}
    <3>1. cur \in Task /\ recorded[cur] > 0
      BY <2>2, <1>t DEF IInv, Control, Finish, MaybeTask, Recorded
    <3>2. LR!Tear(cur)
      BY <2>1, <2>2, <3>1 DEF LR!Tear
    <3> QED BY <3>1, <3>2 DEF LR!Next
  <2> QED BY <2>1, <2>2
<1>5. ASSUME NEW c \in Task, EdpLookup(c) PROVE [LR!Next]_(LR!vars)
  BY <1>5 DEF EdpLookup, EdpAt
<1>6. ASSUME ~Record, ~TaskDone, ~Interrupt, \A c \in Task : ~EdpLookup(c) /\ ~EdpWrite(c)
      PROVE  [LR!Next]_(LR!vars)
  BY <1>6, OtherStepsMoveNoRecord
<1> QED BY <1>1, <1>2, <1>3, <1>4, <1>5, <1>6

\* The live rows of the whole threaded code are those of LiveRows: at most one
\* per task, after the task has finished (run.py:767-771).
THEOREM Refinement == Spec => ImplementsLiveRows
<1>1. Init => LR!Init
  BY DEF Init, LR!Init
<1> QED BY <1>1, StepSimulation, Invariance, PTL DEF Spec, ImplementsLiveRows, LR!Spec

-----------------------------------------------------------------------------
(* The collectors and their stops: the invariant behind EdpAfterStop. *)

\* Which thread is in which call of which collector: the main thread stops what
\* it holds, a Timer starts its own.
CallPlaces ==
  /\ call[Main] # Idle =>
       main = "stopping" /\ call[Main].on = held /\ call[Main].at \in StopPlaces
  /\ \A t \in Task : call[t] # Idle =>
       timer[t] = "starting" /\ call[t].on = t /\ call[t].at \in StartPlaces

\* A collector is started by one thread, once.
OneStart ==
  \A t \in Task :
    /\ timer[t] \in {"none", "armed", "cancelled"} => process[t] = "none"
    /\ call[t].at \in {"start", "launch", "failed", "raised"} => process[t] = "none"

\* It is up only while it says so, so that a stop that has returned has brought
\* it down or given it up; EDP comes after that.
StopAnswered ==
  /\ \A t \in Task : Up(t) => status[t] = "running"
  /\ main = "stopping" /\ call[Main].at \in {"ok", "failed"} => ~Up(held)
  /\ \A t \in Task : edp[t].at # "none" => ~Up(t)

Settled == CallPlaces /\ OneStart /\ StopAnswered

LEMMA CollectorSettles ==
  ASSUME IInv, Settled, NEW u \in Thread, CollectorStep(u, FALSE),
         UNCHANGED <<main, held, timer, edp>>
  PROVE  Settled'
<1> USE DEF Settled, Idle, StartPlaces, StopPlaces, Up
<1> DEFINE c == call[u].on
<1>1. CollectorTypeOK /\ Ownership
  BY DEF IInv, TypeOK
<1>2. /\ \A v \in Thread \ {u} : call'[v] = call[v]
      /\ call[u] # Idle /\ call'[u] # Idle
      /\ c \in Task /\ call'[u].on = c
      /\ Effect(u, c)
      /\ \A d \in Task \ {c} :
           /\ status'[d] = status[d] /\ (d \in unstopped' <=> d \in unstopped)
           /\ \/ process'[d] = process[d]
              \/ process[d] = "alive" /\ process'[d] = "exited"
  BY <1>1, Effects
<1> HIDE DEF c
<1>3. CASE u = Main
  <2>1. main = "stopping" /\ c = held /\ call[Main].at \in StopPlaces /\ Main \notin Task
    BY <1>2, <1>3 DEF CallPlaces, c
  <2>2. CallPlaces'
    BY <1>2, <1>3, <2>1 DEF CallPlaces, Effect
  <2>3. OneStart'
    BY <1>2, <1>3, <2>1 DEF OneStart, Effect
  <2>4. StopAnswered'
    BY <1>2, <1>3, <2>1 DEF StopAnswered, Effect
  <2> QED BY <2>2, <2>3, <2>4
<1>4. CASE u \in Task
  <2>1. timer[u] = "starting" /\ c = u /\ call[u].at \in StartPlaces /\ u # Main
    BY <1>2, <1>4 DEF CallPlaces, c
  <2>2. /\ edp[u].at = "none" /\ u # held
        /\ main = "stopping" => held \in Task
    BY <1>1, <1>4, <2>1 DEF Ownership, IInv, TypeOK, MaybeTask
  <2>3. CallPlaces'
    BY <1>2, <1>4, <2>1 DEF CallPlaces, Effect
  <2>4. OneStart'
    BY <1>2, <1>4, <2>1 DEF OneStart, Effect
  <2>5. StopAnswered'
    BY <1>2, <1>4, <2>1, <2>2 DEF StopAnswered, OneStart, Effect
  <2> QED BY <2>3, <2>4, <2>5
<1> QED BY <1>3, <1>4

LEMMA SettledStep == IInv /\ Settled /\ [Next]_vars => Settled'
<1> SUFFICES ASSUME IInv, Settled, [Next]_vars PROVE Settled'  OBVIOUS
<1> DEFINE Same == UNCHANGED <<main, collectorVars, held, timer, edp>>
<1> USE DEF Settled, CallPlaces, OneStart, StopAnswered, Up, At, trackVars, emonVars, runVars,
            rowVars, collectorVars, Idle, StartPlaces, StopPlaces
<1>c. /\ cur \in MaybeTask /\ held \in MaybeTask /\ pending \in MaybeTask
      /\ timer \in [Task -> {"none", "armed", "cancelled", "starting", "register",
                             "register_idx", "done"}]
      /\ edp \in [Task -> [at : EdpPlace, idx : MaybeTask, ok : BOOLEAN]]
      /\ process \in [Collector -> Process] /\ status \in [Collector -> Status]
      /\ call \in [Thread -> [at : Inside \cup Outcome, on : Collector] \cup {Idle}]
      /\ Ownership
  BY DEF IInv, TypeOK, CollectorTypeOK
<1>s. Same => Settled'
  BY <1>c
<1>1. CASE \E t \in Task : ReadConfig(t)
  BY <1>1, <1>c DEF ReadConfig
<1>2. CASE ReadIntent
  <2>1. cur \in Task /\ timer[cur] = "none"
    BY <1>2, <1>c DEF ReadIntent, Ownership, MaybeTask
  <2> QED BY <1>2, <2>1, <1>c DEF ReadIntent
<1>3. CASE ReadResult \/ ReadEof
  BY <1>3, <1>c DEF ReadResult, ReadEof
<1>4. CASE CancelTimer
  BY <1>4, <1>c DEF CancelTimer
<1>5. CASE TakeEmon
  BY <1>5, <1>c DEF TakeEmon, AfterStop
<1>6. CASE TakeIdx \/ DropEmon
  BY <1>6, <1>c DEF TakeIdx, DropEmon
<1>7. CASE DropIdx
  BY <1>7, <1>c DEF DropIdx, Invoke
<1>8. CASE SpawnEdp
  BY <1>8, <1>c DEF SpawnEdp, Returns, AfterStop
<1>9. CASE Record \/ TaskDone \/ Files \/ Join \/ Exit
  BY <1>9, <1>c DEF Record, TaskDone, Files, Join, Exit
<1>10. CASE \E t \in Task : TimerStep(t)
  <2> SUFFICES ASSUME NEW t \in Task, TimerStep(t) PROVE Settled'
    BY <1>10
  <2>1. CASE TimerFire(t)
    BY <2>1, <1>c DEF TimerFire, Invoke
  <2>2. CASE TimerStarted(t)
    BY <2>2, <1>c DEF TimerStarted, Returns
  <2>3. CASE Register(t) \/ RegisterIdx(t)
    BY <2>3, <1>c DEF Register, RegisterIdx
  <2> QED BY <2>1, <2>2, <2>3 DEF TimerStep
<1>11. CASE \E c \in Task : EdpStep(c)
  <2> SUFFICES ASSUME NEW c \in Task, EdpStep(c) PROVE Settled'
    BY <1>11
  <2>1. /\ edp[c].at # "none" /\ UNCHANGED <<main, collectorVars, held, timer>>
        /\ \A d \in Task : edp'[d].at # "none" => edp[d].at # "none"
    BY <1>c DEF EdpStep, EdpFinish, EdpLookup, EdpWrite, EdpAt
  <2> QED BY <2>1, <1>c
<1>12. CASE \E t \in Thread : EmonStep(t)
  BY <1>12, CollectorSettles DEF EmonStep
<1>13. CASE EmonDies
  BY <1>13, <1>c DEF EmonDies, EmonExit
<1>14. CASE Interrupt
  BY <1>14, <1>c DEF Interrupt, Unwind
<1>15. CASE Terminated \/ UNCHANGED vars
  BY <1>15, <1>s DEF Terminated, vars
<1> QED BY <1>1, <1>2, <1>3, <1>4, <1>5, <1>6, <1>7, <1>8, <1>9, <1>10, <1>11, <1>12,
           <1>13, <1>14, <1>15 DEF Next, MainStep

LEMMA InitSettled == Init => Settled
BY DEF Init, CollectorInit, Settled, CallPlaces, OneStart, StopAnswered, Up, Idle

\* The collectors settle in every reachable state.
LEMMA SettledAlways == Spec => []Settled
BY InitSettled, SettledStep, Invariance, PTL DEF Spec

\* Whichever task's collector the main thread holds, and however late its Timer put
\* it there, the file EDP reads has no writer, unless the stop failed (run.py:800-821).
THEOREM EdpComesAfterStop == Spec => []EdpAfterStop
<1>1. TypeOK /\ Settled => EdpAfterStop
  BY DEF Settled, StopAnswered, Up, EdpAfterStop
<1> QED BY <1>1, SettledAlways, TypeCorrect, PTL

-----------------------------------------------------------------------------
(* A run that keeps the timing assumptions and is not interrupted: the      *)
(* invariant behind TimelyRunIsComplete.                                    *)

\* Every Timer and collector that the main thread meets is that of the open task.
OwnTask ==
  /\ \A t \in Task : Starting(t) => main = "reading" /\ cur = t
  /\ \A t \in Task : timer[t] = "armed" => pending = t
  /\ \A t \in Task : timer[t] = "register_idx" => current = t
  /\ pending \in {cur, NoTask} /\ current \in {cur, NoTask} /\ held \in {cur, NoTask}
  /\ main \notin {"reading", "cancel"} => pending = NoTask
  /\ current # NoTask => main \in {"reading", "cancel", "take", "take_idx", "drop"}
  /\ main \in {"take_idx", "drop"} => current = held
  /\ \A t \in Task : Up(t) => Starting(t) \/ t = current \/ t = held

\* _current_emon_idx goes with _current_emon, so views reach their own task.
OwnViews ==
  /\ current # NoTask /\ timer[current] = "done" => currentIdx = current
  /\ main \in {"drop", "drop_idx", "stopping"} => heldIdx = held
  /\ \A t \in Task : edp[t].at # "none" => edp[t].idx = t
  /\ \A t \in Task : views[t] \in {t, NoTask}

\* Every task that is no longer open was recorded, once.
RecordedOnce ==
  /\ incoming # NoTask => finishing /\ then = "config"
  /\ \A t \in seen \ {cur, incoming} : recorded[t] = 1
  /\ main \in {"task_done", "files"} => recorded[cur] = 1

\* A cached record has an _edp thread that will come for it, or died.
WaitsForEdp ==
  /\ main \in {"record", "task_done"} /\ hadEmon => edp[cur].at = "processing"
  /\ \A t \in cache : edp[t].at \in {"processing", "lookup", "crashed"}

Timely ==
  PromptTimers /\ ~unwinding =>
    OwnTask /\ OwnViews /\ RecordedOnce /\ (SlowEdp => WaitsForEdp)

Joined == main = "returned" => \A t \in Task : edp[t].at \in {"none", "done", "crashed"}

\* What the lemmas below start from: a step of such a run.
Calm == IInv /\ Settled /\ PromptTimers /\ [Next]_vars /\ ~unwinding /\ ~unwinding'

\* What the invariants say of the types, in one place.
Typed ==
  /\ Ownership /\ Control
  /\ cur \in MaybeTask /\ held \in MaybeTask /\ pending \in MaybeTask
  /\ current \in MaybeTask
  /\ seen \in SUBSET Task /\ cache \in SUBSET Task
  /\ timer \in [Task -> {"none", "armed", "cancelled", "starting", "register",
                         "register_idx", "done"}]
  /\ edp \in [Task -> [at : EdpPlace, idx : MaybeTask, ok : BOOLEAN]]
  /\ recorded \in [Task -> Nat] /\ views \in [Task -> MaybeTask]

LEMMA IsTyped == IInv => Typed
BY DEF IInv, TypeOK, Typed

LEMMA OwnTaskStep ==
  ASSUME Calm, OwnTask
  PROVE  OwnTask'
<1> USE DEF OwnTask, Starting, Up, At, trackVars, emonVars, runVars, rowVars, collectorVars
<1>c. IInv /\ Settled /\ Typed /\ PromptTimers /\ [Next]_vars /\ ~unwinding'
  BY IsTyped DEF Calm
<1> USE DEF Typed
<1>1. CASE \E t \in Task : ReadConfig(t)
  BY <1>1, <1>c DEF ReadConfig, Quiet
<1>2. CASE ReadIntent
  BY <1>2, <1>c DEF ReadIntent, Ownership, MaybeTask
<1>3. CASE ReadResult \/ ReadEof
  BY <1>3, <1>c DEF ReadResult, ReadEof, Quiet
<1>4. CASE CancelTimer
  BY <1>4, <1>c DEF CancelTimer, MaybeTask
<1>5. CASE TakeEmon
  BY <1>5, <1>c DEF TakeEmon, AfterStop, Ownership
<1>6. CASE TakeIdx \/ DropEmon
  BY <1>6, <1>c DEF TakeIdx, DropEmon, Ownership
<1>7. CASE DropIdx
  BY <1>7, <1>c DEF DropIdx
<1>8. CASE SpawnEdp
  BY <1>8, <1>c DEF SpawnEdp, Returns, AfterStop, Settled, StopAnswered
<1>9. CASE Record \/ TaskDone \/ Files \/ Join \/ Exit
  BY <1>9, <1>c DEF Record, TaskDone, Files, Join, Exit, Ownership
<1>10. CASE \E t \in Task : TimerStep(t)
  <2> SUFFICES ASSUME NEW t \in Task, TimerStep(t) PROVE OwnTask'
    BY <1>10
  <2>1. CASE TimerFire(t)
    BY <2>1, <1>c DEF TimerFire
  <2>2. CASE TimerStarted(t)
    BY <2>2, <1>c DEF TimerStarted, Returns, Settled, OneStart
  <2>3. CASE Register(t) \/ RegisterIdx(t)
    BY <2>3, <1>c DEF Register, RegisterIdx, Ownership
  <2> QED BY <2>1, <2>2, <2>3 DEF TimerStep
<1>11. CASE \E c \in Task : EdpStep(c)
  BY <1>11, <1>c DEF EdpStep, EdpFinish, EdpLookup, EdpWrite, EdpAt
<1>12. CASE \E t \in Thread : EmonStep(t)
  <2> SUFFICES ASSUME NEW u \in Thread, EmonStep(u) PROVE OwnTask'
    BY <1>12
  <2>1. \A t \in Task : Up(t)' => Up(t) \/ Starting(t)
    <3>1. /\ call[u] # Idle /\ call[u].on \in Task
          /\ Effect(u, call[u].on)
          /\ \A d \in Task \ {call[u].on} :
               /\ d \in unstopped' <=> d \in unstopped
               /\ process'[d] = process[d] \/ process'[d] = "exited"
      <4>1. CollectorTypeOK /\ CollectorStep(u, FALSE)
        BY <1>c DEF EmonStep, IInv, TypeOK
      <4> QED BY <4>1, Effects
    <3>2. CASE u = Main
      BY <1>c, <3>1, <3>2 DEF Effect, Settled, CallPlaces, StopPlaces
    <3>3. CASE u \in Task
      BY <1>c, <3>1, <3>3 DEF Effect, Settled, CallPlaces
    <3> QED BY <3>2, <3>3
  <2> QED BY <1>c, <2>1 DEF EmonStep
<1>13. CASE EmonDies
  BY <1>13, <1>c DEF EmonDies, EmonExit, IInv, TypeOK, CollectorTypeOK
<1>14. CASE Terminated \/ UNCHANGED vars
  BY <1>14, <1>c DEF Terminated, vars
<1>15. ~Interrupt
  BY <1>c DEF Interrupt
<1> QED BY <1>1, <1>2, <1>3, <1>4, <1>5, <1>6, <1>7, <1>8, <1>9, <1>10, <1>11, <1>12,
           <1>13, <1>14, <1>15, <1>c DEF Next, MainStep

LEMMA OwnViewsStep ==
  ASSUME Calm, OwnTask, OwnViews
  PROVE  OwnViews'
<1> USE DEF OwnViews, At, trackVars, emonVars, runVars, rowVars, collectorVars
<1>c. IInv /\ Typed /\ PromptTimers /\ [Next]_vars /\ ~unwinding'
  BY IsTyped DEF Calm
<1> USE DEF Typed
<1>1. CASE \E t \in Task : ReadConfig(t)
  BY <1>1, <1>c DEF ReadConfig
<1>2. CASE ReadIntent
  BY <1>2, <1>c DEF ReadIntent, Ownership
<1>3. CASE ReadResult \/ ReadEof \/ CancelTimer
  <2>1. /\ UNCHANGED <<current, currentIdx, heldIdx, held, edp, views>>
        /\ main' \notin {"drop", "drop_idx", "stopping"}
        /\ \A t \in Task : timer'[t] = "done" => timer[t] = "done"
    BY <1>3, <1>c DEF ReadResult, ReadEof, CancelTimer, MaybeTask
  <2> QED BY <1>c, <2>1 DEF MaybeTask
<1>4. CASE TakeEmon
  BY <1>4, <1>c DEF TakeEmon, AfterStop
<1>5. CASE TakeIdx
  <2>1. held # NoTask /\ held \in Task
    BY <1>5, <1>c DEF TakeIdx, Ownership, MaybeTask
  <2>2. current = held /\ timer[held] = "done"
    BY <1>5, <1>c, <2>1 DEF TakeIdx, Ownership, OwnTask, Starting, MaybeTask
  <2> QED BY <1>5, <1>c, <2>1, <2>2 DEF TakeIdx
<1>6. CASE DropEmon \/ DropIdx
  BY <1>6, <1>c DEF DropEmon, DropIdx, OwnTask
<1>7. CASE SpawnEdp
  BY <1>7, <1>c DEF SpawnEdp, AfterStop, Ownership
<1>8. CASE TaskDone
  BY <1>8, <1>c DEF TaskDone, WriteRow
<1>9. CASE Record \/ Files \/ Join \/ Exit
  BY <1>9, <1>c DEF Record, Files, Join, Exit
<1>10. CASE \E t \in Task : TimerStep(t)
  <2> SUFFICES ASSUME NEW t \in Task, TimerStep(t) PROVE OwnViews'
    BY <1>10
  <2>1. CASE TimerFire(t)
    BY <2>1, <1>c DEF TimerFire
  <2>2. CASE TimerStarted(t)
    <3>1. /\ UNCHANGED <<main, current, currentIdx, heldIdx, held, edp, views>>
          /\ current # t /\ \A u \in Task \ {t} : timer'[u] = timer[u]
      BY <2>2, <1>c DEF TimerStarted, Ownership
    <3> QED BY <1>c, <3>1 DEF MaybeTask
  <2>3. CASE Register(t)
    BY <2>3, <1>c DEF Register
  <2>4. CASE RegisterIdx(t)
    BY <2>4, <1>c DEF RegisterIdx, OwnTask
  <2> QED BY <2>1, <2>2, <2>3, <2>4 DEF TimerStep
<1>11. CASE \E c \in Task : EdpStep(c)
  <2> SUFFICES ASSUME NEW c \in Task, EdpStep(c) PROVE OwnViews'
    BY <1>11
  <2>1. CASE EdpFinish(c)
    BY <2>1, <1>c DEF EdpFinish
  <2>2. CASE EdpLookup(c)
    BY <2>2, <1>c DEF EdpLookup, EdpAt
  <2>3. CASE EdpWrite(c)
    BY <2>3, <1>c DEF EdpWrite, EdpAt, WriteRow
  <2> QED BY <2>1, <2>2, <2>3 DEF EdpStep
<1>12. CASE (\E t \in Thread : EmonStep(t)) \/ EmonDies
  BY <1>12, <1>c DEF EmonStep, EmonDies
<1>13. CASE Terminated \/ UNCHANGED vars
  BY <1>13, <1>c DEF Terminated, vars
<1>14. ~Interrupt
  BY <1>c DEF Interrupt
<1> QED BY <1>1, <1>2, <1>3, <1>4, <1>5, <1>6, <1>7, <1>8, <1>9, <1>10, <1>11, <1>12,
           <1>13, <1>14, <1>c DEF Next, MainStep

LEMMA RecordedOnceStep ==
  ASSUME Calm, RecordedOnce
  PROVE  RecordedOnce'
<1> USE DEF RecordedOnce, At, trackVars, emonVars, runVars, rowVars, collectorVars
<1>c. IInv /\ Typed /\ [Next]_vars /\ ~unwinding' /\ ~unwinding
  BY IsTyped DEF Calm
<1> USE DEF Typed
<1>1. CASE \E t \in Task : ReadConfig(t)
  <2>1. incoming = NoTask
    BY <1>1, <1>c DEF ReadConfig, Control, Stop, Finish
  <2> QED BY <1>1, <1>c, <2>1 DEF ReadConfig
<1>2. CASE ReadIntent \/ ReadResult \/ ReadEof
  BY <1>2, <1>c DEF ReadIntent, ReadResult, ReadEof, Control, Stop, Finish
<1>3. CASE CancelTimer \/ TakeEmon \/ TakeIdx \/ DropEmon \/ DropIdx \/ SpawnEdp
  BY <1>3, <1>c DEF CancelTimer, TakeEmon, TakeIdx, DropEmon, DropIdx, SpawnEdp, AfterStop
<1>4. CASE Record
  <2>1. cur \in Task /\ recorded[cur] = 0
    BY <1>4, <1>c DEF Record, Control, Recorded, IInv, Finish, MaybeTask
  <2> QED BY <1>4, <1>c, <2>1 DEF Record
<1>5. CASE TaskDone
  BY <1>5, <1>c DEF TaskDone
<1>6. CASE Files
  BY <1>6, <1>c DEF Files
<1>7. CASE Join \/ Exit
  BY <1>7, <1>c DEF Join, Exit
<1>8. CASE \E t \in Task : TimerStep(t)
  BY <1>8, <1>c DEF TimerStep, TimerFire, TimerStarted, Register, RegisterIdx
<1>9. CASE \E c \in Task : EdpStep(c)
  BY <1>9, <1>c DEF EdpStep, EdpFinish, EdpLookup, EdpWrite, EdpAt
<1>10. CASE (\E t \in Thread : EmonStep(t)) \/ EmonDies
  <2>1. UNCHANGED <<main, trackVars>>
    BY <1>10 DEF EmonStep, EmonDies
  <2> QED BY <1>c, <2>1
<1>11. CASE Terminated \/ UNCHANGED vars
  BY <1>11, <1>c DEF Terminated, vars
<1>12. ~Interrupt
  BY <1>c DEF Interrupt
<1> QED BY <1>1, <1>2, <1>3, <1>4, <1>5, <1>6, <1>7, <1>8, <1>9, <1>10, <1>11, <1>12,
           <1>c DEF Next, MainStep

LEMMA WaitsForEdpStep ==
  ASSUME Calm, OwnTask, OwnViews, SlowEdp, WaitsForEdp
  PROVE  WaitsForEdp'
<1> USE DEF WaitsForEdp, At, trackVars, emonVars, runVars, rowVars, collectorVars
<1>c. IInv /\ Typed /\ SlowEdp /\ [Next]_vars /\ ~unwinding'
  BY IsTyped DEF Calm
<1> USE DEF Typed
<1>1. CASE (\E t \in Task : ReadConfig(t)) \/ ReadIntent \/ ReadResult \/ ReadEof
  BY <1>1, <1>c DEF ReadConfig, ReadIntent, ReadResult, ReadEof
<1>2. CASE CancelTimer \/ TakeIdx \/ DropEmon \/ DropIdx
  BY <1>2, <1>c DEF CancelTimer, TakeIdx, DropEmon, DropIdx
<1>3. CASE TakeEmon
  BY <1>3, <1>c DEF TakeEmon, AfterStop
<1>4. CASE SpawnEdp
  <2>1. held = cur /\ cur \in Task
    BY <1>4, <1>c DEF SpawnEdp, Ownership, OwnTask, MaybeTask
  <2>2. edp' = [edp EXCEPT ![cur] = [at |-> "processing", idx |-> heldIdx, ok |-> FALSE]]
        /\ UNCHANGED <<cur, cache>>
    BY <1>4, <2>1 DEF SpawnEdp
  <2> QED BY <1>c, <2>1, <2>2
<1>5. CASE Record
  BY <1>5, <1>c DEF Record
<1>6. CASE TaskDone
  BY <1>6, <1>c DEF TaskDone
<1>7. CASE Files \/ Join \/ Exit
  BY <1>7, <1>c DEF Files, Join, Exit
<1>8. CASE \E t \in Task : TimerStep(t)
  BY <1>8, <1>c DEF TimerStep, TimerFire, TimerStarted, Register, RegisterIdx
<1>9. CASE \E c \in Task : EdpStep(c)
  <2> SUFFICES ASSUME NEW c \in Task, EdpStep(c) PROVE WaitsForEdp'
    BY <1>9
  <2>1. CASE EdpFinish(c)
    BY <2>1, <1>c DEF EdpFinish
  <2>2. CASE EdpLookup(c)
    <3>1. edp[c].at = "lookup" /\ edp[c].idx = c
      BY <2>2 DEF EdpLookup, EdpAt, OwnViews
    <3>2. cur \in Task \/ cur = NoTask
      BY <1>c DEF MaybeTask
    <3>3. \A d \in Task \ {c} : edp'[d] = edp[d]
      BY <2>2, <1>c DEF EdpLookup, EdpAt
    <3>4. cache' = cache \ {c} /\ UNCHANGED <<main, cur, hadEmon>>
      BY <2>2, <3>1 DEF EdpLookup, EdpAt
    <3>5. main \in {"record", "task_done"} => cur # NoTask
      BY <1>c DEF Control, Finish
    <3> QED BY <1>c, <3>1, <3>2, <3>3, <3>4, <3>5
  <2>3. CASE EdpWrite(c)
    <3>1. edp[c].at = "writing" /\ \A d \in Task \ {c} : edp'[d] = edp[d]
      BY <2>3, <1>c DEF EdpWrite, EdpAt
    <3>2. UNCHANGED <<main, cur, hadEmon, cache>>
      BY <2>3 DEF EdpWrite, EdpAt
    <3>3. main \in {"record", "task_done"} => cur \in Task
      BY <1>c DEF Control, Finish, MaybeTask
    <3> QED BY <1>c, <3>1, <3>2, <3>3
  <2> QED BY <2>1, <2>2, <2>3 DEF EdpStep
<1>10. CASE (\E t \in Thread : EmonStep(t)) \/ EmonDies \/ Terminated \/ UNCHANGED vars
  <2>1. UNCHANGED <<main, cur, hadEmon, cache, edp>>
    BY <1>10 DEF EmonStep, EmonDies, Terminated, vars
  <2> QED BY <1>c, <2>1
<1>11. ~Interrupt
  BY <1>c DEF Interrupt
<1> QED BY <1>1, <1>2, <1>3, <1>4, <1>5, <1>6, <1>7, <1>8, <1>9, <1>10, <1>11, <1>c
        DEF Next, MainStep

\* Join has waited for the _edp threads, and none starts after it.
LEMMA JoinedStep ==
  ASSUME IInv, Joined, [Next]_vars
  PROVE  Joined'
<1>1. CASE Join
  BY <1>1 DEF Join, At, Joined, emonVars
<1>2. CASE main = "returned"
  <2>1. CASE \E c \in Task : EdpStep(c)
    BY <1>2, <2>1 DEF Joined, EdpStep, EdpFinish, EdpLookup, EdpWrite, EdpAt
  <2>2. CASE UNCHANGED edp
    BY <1>2, <2>2 DEF Joined
  <2>3. main' # "returned" \/ UNCHANGED edp \/ \E c \in Task : EdpStep(c)
    BY <1>2 DEF Next, MainStep, ReadConfig, ReadIntent, ReadResult, ReadEof, CancelTimer,
         TakeEmon, TakeIdx, DropEmon, DropIdx, SpawnEdp, Record, TaskDone, Files, Join, Exit,
         TimerStep, TimerFire, TimerStarted, Register, RegisterIdx, EmonStep, EmonDies,
         Interrupt, Terminated, vars, emonVars, At
  <2> QED BY <2>1, <2>2, <2>3 DEF Joined
<1>3. CASE main # "returned" /\ ~Join
  <2>1. main' # "returned"
    BY <1>3 DEF Next, MainStep, ReadConfig, ReadIntent, ReadResult, ReadEof, CancelTimer,
         TakeEmon, TakeIdx, DropEmon, DropIdx, SpawnEdp, AfterStop, Record, TaskDone, Files,
         Exit, TimerStep, TimerFire, TimerStarted, Register, RegisterIdx, EdpStep, EdpFinish,
         EdpLookup, EdpWrite, EdpAt, EmonStep, EmonDies, Interrupt, Terminated, vars, At
  <2> QED BY <2>1 DEF Joined
<1> QED BY <1>1, <1>2, <1>3

\* `pace` is a constant of the run, and a signal is not forgotten.
LEMMA PaceStays ==
  ASSUME [Next]_vars
  PROVE  (PromptTimers' <=> PromptTimers) /\ (SlowEdp' <=> SlowEdp) /\ (unwinding => unwinding')
<1>1. UNCHANGED pace /\ (unwinding => unwinding')
  <2> USE DEF runVars
  <2>1. CASE MainStep
    BY <2>1 DEF MainStep, ReadConfig, ReadIntent, ReadResult, ReadEof, CancelTimer, TakeEmon,
         TakeIdx, DropEmon, DropIdx, SpawnEdp, Record, TaskDone, Files, Join, Exit
  <2>2. CASE (\E t \in Task : TimerStep(t)) \/ (\E c \in Task : EdpStep(c))
    BY <2>2 DEF TimerStep, TimerFire, TimerStarted, Register, RegisterIdx, EdpStep, EdpFinish,
         EdpLookup, EdpWrite, EdpAt
  <2>3. CASE (\E t \in Thread : EmonStep(t)) \/ EmonDies
    <3>1. CASE \E t \in Thread : EmonStep(t)
      BY <3>1 DEF EmonStep
    <3>2. CASE EmonDies
      BY <3>2 DEF EmonDies
    <3> QED BY <2>3, <3>1, <3>2
  <2>4. CASE Interrupt \/ Terminated \/ UNCHANGED vars
    BY <2>4 DEF Interrupt, Terminated, vars
  <2> QED BY <2>1, <2>2, <2>3, <2>4 DEF Next
<1> QED BY <1>1 DEF PromptTimers, SlowEdp

LEMMA TimelyStep == IInv /\ Settled /\ Timely /\ Joined /\ [Next]_vars => Timely' /\ Joined'
<1> SUFFICES ASSUME IInv, Settled, Timely, Joined, [Next]_vars PROVE Timely' /\ Joined'
  OBVIOUS
<1>1. ASSUME PromptTimers', ~unwinding'
      PROVE  (OwnTask /\ OwnViews /\ RecordedOnce)' /\ (SlowEdp => WaitsForEdp')
  <2>1. Calm /\ OwnTask /\ OwnViews /\ RecordedOnce /\ (SlowEdp => WaitsForEdp)
    BY <1>1, PaceStays DEF Calm, Timely
  <2> QED BY <2>1, OwnTaskStep, OwnViewsStep, RecordedOnceStep, WaitsForEdpStep
<1> QED BY <1>1, PaceStays, JoinedStep DEF Timely

LEMMA InitTimely == Init => Timely /\ Joined
BY DEF Init, CollectorInit, Timely, Joined, OwnTask, OwnViews, RecordedOnce, WaitsForEdp,
       Starting, Up

LEMMA TimelyAlways == Spec => [](Timely /\ Joined)
BY InitTimely, TimelyStep, Invariance, SettledAlways, PTL DEF Spec

\* An uninterrupted run whose Timers are prompt returns with every task recorded once,
\* no EMON up, no task's views in another's row, and, with EDP slower than the
\* callbacks, a row for every task (run.py:767-771, 876-881).
THEOREM TimelyRunCompletes == Spec => []TimelyRunIsComplete
<1>1. IInv /\ Settled /\ Timely /\ Joined => TimelyRunIsComplete
  <2> SUFFICES ASSUME IInv, Settled, Timely, Joined, PromptTimers, ~unwinding,
                      main = "returned", NEW t \in Task
               PROVE  /\ recorded[t] = IF t \in seen THEN 1 ELSE 0
                      /\ process[t] # "alive" \/ t \in unstopped
                      /\ views[t] \in {t, NoTask}
                      /\ SlowEdp /\ t \in seen => rows[t] = 1 \/ t \in dropped \/ EdpDied(t)
    BY DEF TimelyRunIsComplete
  <2>1. cur = NoTask /\ incoming = NoTask /\ held = NoTask /\ current = NoTask
    BY DEF IInv, Control, Ownership, Timely, OwnTask
  <2>2. recorded[t] = IF t \in seen THEN 1 ELSE 0
    BY <2>1 DEF Timely, RecordedOnce, IInv, Recorded
  <2>3. ~Up(t)
    BY <2>1 DEF Timely, OwnTask
  <2>4. ASSUME SlowEdp, t \in seen
        PROVE  rows[t] = 1 \/ t \in dropped \/ EdpDied(t)
    <3>1. t # torn /\ recorded[t] > 0
      BY <2>2, <2>4 DEF IInv, Control
    <3>2. PICK p \in Place : Holds(p, t)
      BY <3>1 DEF IInv, RecordInOnePlace
    <3>3. p # "handing" /\ p # "in_hand"
      BY <3>2 DEF Holds, Joined
    <3>4. CASE p = "cached"
      BY <2>4, <3>2, <3>4 DEF Holds, Timely, WaitsForEdp, OwnViews, Joined, EdpDied
    <3>5. CASE p = "written"
      BY <3>1, <3>2, <3>5 DEF Holds, IInv, RecordInOnePlace, TypeOK
    <3>6. CASE p = "dropped"
      BY <3>2, <3>6 DEF Holds
    <3> QED BY <3>3, <3>4, <3>5, <3>6 DEF Place
  <2> QED BY <2>2, <2>3, <2>4 DEF Up, Timely, OwnViews
<1> QED BY <1>1, Invariance, SettledAlways, TimelyAlways, PTL
=============================================================================
