----------------------- MODULE ResourceCleaner_proofs -----------------------
(***************************************************************************)
(* Theorems about ResourceCleaner, for any number of calls: the types, and *)
(* the two facts that its liveness rests on.  A notification that finds    *)
(* nobody waiting is lost, so each of them says where the thread can be    *)
(* when the call has notified.                                             *)
(***************************************************************************)
EXTENDS ResourceCleaner, TLAPS

USE CleanerAssumption

\* Calls that hand something to the cleaner have one; BREAK is the last action, and
\* once it is set the thread no longer starts a wait.
CallsMatch ==
    /\ exists <=> thread # "none"
    /\ caller \in {"construct", "setIdle", "break", "notifyBreak", "join"} => exists
    /\ caller \in {"notifyBreak", "join"} => action = "BREAK" /\ thread # "toWait"
    /\ exists /\ action = "BREAK" => caller \in {"notifyBreak", "join"}
    /\ caller = "join" => thread # "waiting"

\* What the thread knows of an idle context; the thread has started before any call
\* can make the context idle.
IdleKnown ==
    /\ thread = "spawned" => caller \in {"construct", "idle"} /\ action \in {"UNSET", "NOP"}
    /\ exists /\ action = "UNSET" => thread = "spawned"
    /\ thread = "exited" => action = "BREAK"
    /\ thread = "timeout" => deadline = "armed"
    /\ exists /\ cached /\ action = "PRUNE_AFTER_TIMEOUT" =>
          \/ deadline = "armed" \/ thread = "woken"
          \/ thread = "waiting" /\ caller \in {"setIdle", "notify"}

CleanerInv == TypeOK /\ CallsMatch /\ (TimelyStart => IdleKnown)

LEMMA InitCleanerInv == Init => CleanerInv
<1>. SUFFICES ASSUME Init PROVE CleanerInv
  OBVIOUS
<1>1. thread \notin {"check", "toWait"} /\ locked = FALSE
  BY DEF Init
<1>2. locked <=> (thread \in {"check", "toWait"})
  BY <1>1
<1>3. TypeOK
  <2>1. exists \in BOOLEAN /\ locked \in BOOLEAN /\ cached \in BOOLEAN
    BY Zenon DEF Init
  <2>2. calls \in 0 .. MaxCalls
    BY CleanerAssumption DEF Init
  <2>3. /\ action \in {"UNSET", "NOP", "PRUNE_AFTER_TIMEOUT", "BREAK"}
        /\ deadline \in {"never", "armed"}
        /\ thread \in {"none", "spawned", "check", "toWait", "waiting", "woken", "timeout", "exited"}
        /\ caller \in {"idle", "construct", "setIdle", "notify", "break", "notifyBreak", "join"}
    BY DEF Init
  <2>. QED
    BY <1>2, <2>1, <2>2, <2>3 DEF TypeOK
<1>4. CallsMatch /\ IdleKnown
  BY DEF Init, CallsMatch, IdleKnown
<1>. QED
  BY <1>3, <1>4 DEF CleanerInv

LEMMA NextCleanerInv ==
    ASSUME CleanerInv, [Next]_vars
    PROVE  CleanerInv'
<1>. USE DEF CleanerInv, TypeOK, CallsMatch, IdleKnown
<1>1. CASE RunInference
  BY <1>1 DEF RunInference, BeginCall
<1>2. CASE SetIdlePruningTimeout
  BY <1>2 DEF SetIdlePruningTimeout, BeginCall
<1>3. CASE Enable
  BY <1>3 DEF Enable, BeginCall
<1>4. CASE Disable
  BY <1>4 DEF Disable, BeginCall
<1>5. CASE ReleaseMemory
  <2>1. TypeOK'
    <3>1. calls' \in 0 .. MaxCalls
      BY <1>5, CleanerAssumption DEF ReleaseMemory, BeginCall
    <3>2. cached' \in BOOLEAN
      BY <1>5, Zenon DEF ReleaseMemory
    <3>. QED
      BY <1>5, <3>1, <3>2 DEF ReleaseMemory
  <2>2. CallsMatch'
    BY <1>5 DEF ReleaseMemory, BeginCall
  <2>3. TimelyStart => IdleKnown'
    BY <1>5 DEF ReleaseMemory, BeginCall
  <2>. QED
    BY <2>1, <2>2, <2>3
<1>6. CASE SetIdle
  BY <1>6 DEF SetIdle
<1>7. CASE Notify
  BY <1>7 DEF Notify, Woken
<1>8. CASE Construct
  BY <1>8 DEF Construct
<1>9. CASE SetBreak
  BY <1>9 DEF SetBreak
<1>10. CASE NotifyBreak
  BY <1>10 DEF NotifyBreak, Woken
<1>11. CASE Join
  BY <1>11 DEF Join
<1>12. CASE ThreadStarts
  <2>1. TypeOK'
    BY <1>12 DEF ThreadStarts
  <2>2. CallsMatch'
    BY <1>12 DEF ThreadStarts
  <2>3. TimelyStart => IdleKnown'
    BY <1>12 DEF ThreadStarts
  <2>. QED
    BY <2>1, <2>2, <2>3
<1>13. CASE CheckAction
  <2>1. TypeOK'
    BY <1>13 DEF CheckAction
  <2>2. CallsMatch'
    BY <1>13 DEF CheckAction
  <2>3. TimelyStart => IdleKnown'
    BY <1>13 DEF CheckAction
  <2>. QED
    BY <2>1, <2>2, <2>3
<1>14. CASE WaitUntil
  <2>1. TypeOK'
    BY <1>14 DEF WaitUntil
  <2>2. CallsMatch'
    BY <1>14 DEF WaitUntil
  <2>3. TimelyStart => IdleKnown'
    BY <1>14 DEF WaitUntil
  <2>. QED
    BY <2>1, <2>2, <2>3
<1>15. CASE DeadlinePasses
  <2>1. TypeOK'
    BY <1>15 DEF DeadlinePasses
  <2>2. CallsMatch'
    BY <1>15 DEF DeadlinePasses
  <2>3. TimelyStart => IdleKnown'
    BY <1>15 DEF DeadlinePasses
  <2>. QED
    BY <2>1, <2>2, <2>3
<1>16. CASE TimedOut
  <2>1. TypeOK'
    BY <1>16 DEF TimedOut
  <2>2. CallsMatch'
    BY <1>16 DEF TimedOut
  <2>3. TimelyStart => IdleKnown'
    BY <1>16 DEF TimedOut
  <2>. QED
    BY <2>1, <2>2, <2>3
<1>17. CASE Notified
  <2>1. TypeOK'
    BY <1>17 DEF Notified
  <2>2. CallsMatch'
    BY <1>17 DEF Notified
  <2>3. TimelyStart => IdleKnown'
    BY <1>17 DEF Notified
  <2>. QED
    BY <2>1, <2>2, <2>3
<1>18. CASE UNCHANGED vars
  BY <1>18 DEF vars
<1>. QED
  BY <1>1, <1>2, <1>3, <1>4, <1>5, <1>6, <1>7, <1>8, <1>9, <1>10, <1>11, <1>12, <1>13, <1>14,
     <1>15, <1>16, <1>17, <1>18 DEF Next, InCall, ThreadStep

(***************************************************************************)
(* The state keeps its shape; the thread holds ResourceCleaner::mutex      *)
(* exactly between two waits.                                              *)
(***************************************************************************)
THEOREM CleanerTypeCorrect == FairSpec => []TypeOK
<1>1. CleanerInv /\ [Next]_vars => CleanerInv'
  BY NextCleanerInv
<1>2. CleanerInv => TypeOK
  BY DEF CleanerInv
<1>. QED
  BY <1>1, <1>2, InitCleanerInv, PTL DEF FairSpec

(***************************************************************************)
(* No notification that matters is lost.  While the destructor joins the   *)
(* thread it has seen BREAK or is about to, wherever it was when the action *)
(* was set (~ResourceCleaner): this is why the destructor returns.  A       *)
(* setIdle that has notified leaves the thread awake or with the deadline   *)
(* after which it releases the memory, if the thread had reached its first  *)
(* wait before the application's next call.                                *)
(***************************************************************************)
THEOREM NoNotificationLost == FairSpec => []NotificationsSeen
<1>1. CleanerInv /\ [Next]_vars => CleanerInv'
  BY NextCleanerInv
<1>2. CleanerInv => NotificationsSeen
  <2>1. CleanerInv => BreakIsSeen
    BY DEF CleanerInv, CallsMatch, BreakIsSeen
  <2>2. CleanerInv /\ TimelyStart => IdleIsSeen
    BY DEF CleanerInv, IdleKnown, IdleIsSeen
  <2>. QED
    BY <2>1, <2>2 DEF NotificationsSeen
<1>. QED
  BY <1>1, <1>2, InitCleanerInv, PTL DEF FairSpec
=============================================================================
