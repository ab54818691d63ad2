--------------------------- MODULE BigIqTaskProofs ---------------------------
(***************************************************************************)
(* Theorems about BigIqTask, for any number of retries, any time a TCW     *)
(* task may take that the polling outlasts, and any number of failures.    *)
(***************************************************************************)
EXTENDS BigIqTask, TLAPS

USE DEF Settled, Verdicts

(* What the inner task and the TCW have behind them.                       *)
Sources ==
  /\ inner = "OK" => innerPc = "done"
  /\ tcw = "FINISHED" => inner = "OK"
  /\ tcwHangs => tcw \notin Verdicts

(* How far the outer task is: it has no verdict while it polls, and no TCW *)
(* task before it passes the declaration on.                               *)
Progress ==
  /\ pc \in {"accept", "setup", "pass"} => tcw = "none"
  /\ pc \in {"accept", "setup", "pass", "poll"} => first = "RUNNING"
  /\ pc \in {"read", "readAgain"} => first # "RUNNING"

(* Each try up to TcwTimeout may come too early, and each other one failed.*)
Counted == tcwHangs \/ polls <= TcwTimeout + lost

(* Why the outer task has reported an error.                               *)
ErrorHasReason ==
  first = "ERROR" =>
    \/ tcw = "FAILED"
    \/ tcwHangs
    \/ tcw = "none" /\ pc = "done"
    \/ unheard
    \/ lost > MaxRetries - TcwTimeout

OkHasReason == first = "OK" => tcw = "FINISHED"

VerdictInv ==
  TypeOK /\ Sources /\ Progress /\ Counted /\ ErrorHasReason /\ OkHasReason

LEMMA InitVerdict == Init => VerdictInv
<1> SUFFICES ASSUME Init PROVE VerdictInv
  OBVIOUS
<1>1. TypeOK
  <2>1. Flags
    BY Zenon DEF Init, Flags
  <2>2. Places
    BY BigIqAssumption DEF Init, Places
  <2> QED
    BY <2>1, <2>2 DEF TypeOK
<1>2. Sources /\ Progress /\ Counted /\ ErrorHasReason /\ OkHasReason
  BY BigIqAssumption DEF Init, Sources, Progress, Counted, ErrorHasReason, OkHasReason
<1> QED
  BY <1>1, <1>2 DEF VerdictInv

(* Flags stay flags: actions keep them or set them to TRUE or FALSE.       *)
LEMMA FlagsStep == Flags /\ [Next]_vars => Flags'
  BY Zenon
  DEF Flags, Next, Outer, Inner, Tcw, vars, others, TheOuter,
      Accept, Setup, FailBefore, PassToTcw, PassFails, PollEnds,
      PollTooEarly, PollFails, Read, ReadFails, ReadAgain, InnerInit,
      InnerInitFails, Onboard, OnboardFails, TcwStarts, TcwSettles, TcwFails,
      TcwHangs

(* Types: each other variable stays in its set.                            *)
LEMMA PlacesStep == Places /\ [Next]_vars => Places'
<1> SUFFICES ASSUME Places, [Next]_vars PROVE Places'
  OBVIOUS
<1> USE BigIqAssumption DEF Places, others, TheOuter, Fault, NoFault, Answer, SendResponse,
        UpdateResult, Catch, Reported, RetryOrGiveUp
<1>1. CASE Accept
  BY <1>1 DEF Accept
<1>2. CASE Setup
  BY <1>2 DEF Setup
<1>3. CASE FailBefore
  BY <1>3 DEF FailBefore
<1>4. CASE PassToTcw
  BY <1>4 DEF PassToTcw
<1>5. CASE PassFails
  BY <1>5 DEF PassFails
<1>6. CASE PollEnds
  BY <1>6 DEF PollEnds
<1>7. CASE PollTooEarly
  BY <1>7 DEF PollTooEarly
<1>8. CASE PollFails
  BY <1>8 DEF PollFails
<1>9. CASE Read
  BY <1>9 DEF Read
<1>10. CASE ReadFails
  BY <1>10 DEF ReadFails
<1>11. CASE ReadAgain
  BY <1>11 DEF ReadAgain
<1>12. CASE InnerInit
  BY <1>12 DEF InnerInit
<1>13. CASE InnerInitFails
  BY <1>13 DEF InnerInitFails
<1>14. CASE Onboard
  BY <1>14 DEF Onboard
<1>15. CASE OnboardFails
  BY <1>15 DEF OnboardFails
<1>16. CASE TcwStarts
  BY <1>16 DEF TcwStarts
<1>17. CASE TcwSettles
  BY <1>17 DEF TcwSettles
<1>18. CASE TcwFails
  BY <1>18 DEF TcwFails
<1>19. CASE TcwHangs
  BY <1>19 DEF TcwHangs
<1>20. CASE UNCHANGED vars
  BY <1>20 DEF vars
<1> QED
  BY <1>1, <1>2, <1>3, <1>4, <1>5, <1>6, <1>7, <1>8, <1>9, <1>10,
     <1>11, <1>12, <1>13, <1>14, <1>15, <1>16, <1>17, <1>18, <1>19, <1>20
  DEF Next, Outer, Inner, Tcw

(* The rest, one action at a time.                                         *)
LEMMA VerdictStep == VerdictInv /\ [Next]_vars => VerdictInv'
<1> SUFFICES ASSUME VerdictInv, [Next]_vars PROVE VerdictInv'
  OBVIOUS
<1>0. TypeOK'
  BY FlagsStep, PlacesStep DEF VerdictInv, TypeOK
<1> USE BigIqAssumption, <1>0
    DEF VerdictInv, TypeOK, Places, Sources, Progress, Counted, ErrorHasReason, OkHasReason, others,
        TheOuter
<1>1. CASE Accept
  BY <1>1 DEF Accept
<1>2. CASE Setup
  BY <1>2 DEF Setup
<1>3. CASE FailBefore
  BY <1>3 DEF FailBefore, UpdateResult
<1>4. CASE PassToTcw
  BY <1>4 DEF PassToTcw
<1>5. CASE PassFails
  BY <1>5 DEF PassFails, Catch, UpdateResult
<1>6. CASE PollEnds
  BY <1>6 DEF PollEnds, UpdateResult, Reported
<1>7. CASE PollTooEarly
  BY <1>7 DEF PollTooEarly, RetryOrGiveUp, Catch, UpdateResult
<1>8. CASE PollFails
  BY <1>8 DEF PollFails, RetryOrGiveUp, Catch, UpdateResult
<1>9. CASE Read
  BY <1>9 DEF Read
<1>10. CASE ReadFails
  BY <1>10 DEF ReadFails, Catch, UpdateResult
<1>11. CASE ReadAgain
  BY <1>11 DEF ReadAgain
<1>12. CASE Inner
  <2>1. CASE InnerInit
    BY <2>1 DEF InnerInit
  <2>2. CASE InnerInitFails
    BY <2>2 DEF InnerInitFails
  <2>3. CASE Onboard
    BY <2>3 DEF Onboard
  <2>4. CASE OnboardFails
    BY <2>4 DEF OnboardFails
  <2> QED
    BY <1>12, <2>1, <2>2, <2>3, <2>4 DEF Inner
<1>13. CASE Tcw
  <2>1. CASE TcwStarts
    BY <2>1 DEF TcwStarts
  <2>2. CASE TcwSettles
    BY <2>2 DEF TcwSettles
  <2>3. CASE TcwFails
    BY <2>3 DEF TcwFails
  <2>4. CASE TcwHangs
    BY <2>4 DEF TcwHangs
  <2> QED
    BY <1>13, <2>1, <2>2, <2>3, <2>4 DEF Tcw
<1>14. CASE UNCHANGED vars
  BY <1>14 DEF vars
<1> QED
  BY <1>1, <1>2, <1>3, <1>4, <1>5, <1>6, <1>7, <1>8, <1>9, <1>10, <1>11, <1>12, <1>13, <1>14
  DEF Next, Outer

(* The invariant says more than the property: its reasons for an error     *)
(* leave no other with a FINISHED task.                                    *)
LEMMA VerdictFollows == VerdictInv => VerdictIsReported
  BY DEF VerdictInv, VerdictIsReported, Sources, ErrorHasReason, OkHasReason

(* The outer task reports what became of the declaration it has passed on: *)
(* pollTcw hears the verdict of every TCW task that keeps to its time.     *)
THEOREM ReportsTheVerdict == Spec => []VerdictIsReported
<1>1. Spec => []VerdictInv
  BY InitVerdict, VerdictStep, PTL DEF Spec
<1> QED
  BY <1>1, VerdictFollows, PTL
=============================================================================
