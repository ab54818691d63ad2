------------------------------ MODULE BigIqTask ------------------------------
(***************************************************************************)
(* DO on a BIG-IQ (onPost with passToTcw and pollTcw, src/nodejs/          *)
(* restWorker.js).  A POST of a client, the outer task, is handed to a TCW *)
(* task of the BIG-IQ, which posts it to the same worker once more: the    *)
(* inner task, which onboards the device.  The outer task polls the TCW.   *)
(*                                                                         *)
(* Both chains run in one worker: the inner one leaves its device under    *)
(* the identifier of the outer one.  What onboard does, what is saved, and *)
(* restarts are in RestWorker; here the inner task is three steps.         *)
(***************************************************************************)
EXTENDS Naturals, Sequences

CONSTANTS
  MaxRetries,    \* of the polling; 384 in the code
  TcwTimeout,    \* the polls that fit into the time a TCW task may take; 360 in the code
  MaxFaults      \* calls that fail, in all

ASSUME BigIqAssumption ==
  /\ MaxRetries \in Nat /\ TcwTimeout \in Nat /\ MaxFaults \in Nat
  /\ TcwTimeout <= MaxRetries

VARIABLES
  async,         \* the client does not wait
  pc,            \* the await at which the chain of the outer task is
  outer, inner,  \* the statuses of the two tasks in the table
  answers,       \* what the client was told
  polls,         \* failed tries of the polling
  innerPc,       \* the await at which the inner task is
  hasBigIp,      \* this.bigIps has an entry for the outer task
  tcw,           \* status of the TCW task
  tcwHangs,      \* it never settles
  first,         \* history: the first status but RUNNING of the outer task
  unheard,       \* history: the TCW may have been given a task without an answer
  lost,          \* history: polls that failed
  faults

vars == <<async, pc, outer, inner, answers, polls, innerPc, hasBigIp, tcw, tcwHangs, first,
          unheard, lost, faults>>

others == <<inner, innerPc, hasBigIp, tcwHangs>>

Settled == {"OK", "ERROR"}
Verdicts == {"FINISHED", "FAILED"}

Flags == async \in BOOLEAN /\ hasBigIp \in BOOLEAN /\ tcwHangs \in BOOLEAN /\ unheard \in BOOLEAN

Places ==
  /\ pc \in {"accept", "setup", "pass", "poll", "read", "readAgain", "done"}
  /\ innerPc \in {"none", "init", "onboard", "done"}
  /\ outer \in Settled \cup {"RUNNING"} /\ inner \in Settled \cup {"RUNNING"}
  /\ answers \in Seq(Settled \cup {"RUNNING"})
  /\ polls \in 0..MaxRetries
  /\ tcw \in Verdicts \cup {"none", "CREATED", "STARTED"}
  /\ first \in Settled \cup {"RUNNING"}
  /\ faults \in 0..MaxFaults /\ lost \in 0..faults

TypeOK == Flags /\ Places

Init ==
  /\ async \in BOOLEAN
  /\ pc = "accept" /\ innerPc = "none"
  /\ outer = "RUNNING" /\ inner = "RUNNING" /\ first = "RUNNING"
  /\ answers = <<>> /\ polls = 0 /\ lost = 0 /\ faults = 0
  /\ hasBigIp = FALSE /\ tcw = "none" /\ tcwHangs = FALSE /\ unheard = FALSE

Fault == faults < MaxFaults /\ faults' = faults + 1
NoFault == UNCHANGED faults

-----------------------------------------------------------------------------
(* The outer task *)

UpdateResult(status) ==
  /\ outer' = status
  /\ first' = IF first = "RUNNING" THEN status ELSE first

Answer(status) == answers' = Append(answers, status)

SendResponse(status) == IF async THEN UNCHANGED answers ELSE Answer(status)

(* The save and the platform; an asynchronous client is answered now.      *)
Accept ==
  /\ pc = "accept" /\ pc' = "setup"
  /\ IF async THEN Answer("RUNNING") ELSE UNCHANGED answers
  /\ NoFault
  /\ UNCHANGED <<async, outer, first, polls, tcw, unheard, lost, others>>

(* initialAccountSetup.                                                    *)
Setup ==
  /\ pc = "setup" /\ pc' = "pass"
  /\ NoFault
  /\ UNCHANGED <<async, outer, first, answers, polls, tcw, unheard, lost, others>>

(* The last catch of onPost sends no response.                             *)
FailBefore ==
  /\ pc \in {"accept", "setup"} /\ pc' = "done"
  /\ Fault
  /\ UpdateResult("ERROR")
  /\ UNCHANGED <<async, answers, polls, tcw, unheard, lost, others>>

(* The catch behind passToTcw; the client may have been answered before.   *)
Catch ==
  /\ pc' = "readAgain"
  /\ UpdateResult("ERROR")
  /\ SendResponse("ERROR")

PassToTcw ==
  /\ pc = "pass" /\ pc' = "poll"
  /\ tcw' = "CREATED"
  /\ NoFault
  /\ UNCHANGED <<async, outer, first, answers, polls, unheard, lost, others>>

(* The request, or only its reply, is lost.                                *)
PassFails ==
  /\ pc = "pass"
  /\ Fault
  /\ tcw' \in {"none", "CREATED"} /\ unheard' = TRUE
  /\ Catch
  /\ UNCHANGED <<async, polls, lost, others>>

Reported == [FINISHED |-> "OK", FAILED |-> "ERROR"]

(* pollTcw hears that the TCW task has settled.                            *)
PollEnds ==
  /\ pc = "poll" /\ tcw \in Verdicts
  /\ pc' = "read"
  /\ UpdateResult(Reported[tcw]) /\ SendResponse(Reported[tcw])
  /\ NoFault
  /\ UNCHANGED <<async, polls, tcw, unheard, lost, others>>

(* Mutant: as many retries as the TCW task may take. *)
RetryOrGiveUpEarly ==
  IF polls = TcwTimeout
    THEN Catch /\ UNCHANGED polls
    ELSE polls' = polls + 1 /\ UNCHANGED <<pc, outer, first, answers>>

(* Mutant: never gives up. *)
RetryForEver ==
  /\ polls' = IF polls = MaxRetries THEN polls ELSE polls + 1
  /\ UNCHANGED <<pc, outer, first, answers>>

(* tryUntil: one try and MaxRetries more.                                  *)
RetryOrGiveUp ==
  IF polls = MaxRetries
    THEN Catch /\ UNCHANGED polls
    ELSE polls' = polls + 1 /\ UNCHANGED <<pc, outer, first, answers>>

(* The TCW task has not settled.  One that does not hang has settled when  *)
(* its time is over.                                                       *)
PollTooEarly ==
  /\ pc = "poll" /\ tcw \notin Verdicts
  /\ polls < TcwTimeout \/ tcwHangs
  /\ RetryOrGiveUp
  /\ NoFault
  /\ UNCHANGED <<async, tcw, unheard, lost, others>>

PollFails ==
  /\ pc = "poll"
  /\ Fault /\ lost' = lost + 1
  /\ RetryOrGiveUp
  /\ UNCHANGED <<async, tcw, unheard, others>>

(* getAndSaveCurrentConfig of the device that the inner task has left.     *)
Read ==
  /\ pc = "read" /\ hasBigIp
  /\ pc' = "done"
  /\ NoFault
  /\ UNCHANGED <<async, outer, first, answers, polls, tcw, unheard, lost, others>>

(* There is no device when the inner task could not initialize it.         *)
ReadFails ==
  /\ pc = "read"
  /\ IF hasBigIp THEN Fault ELSE NoFault
  /\ Catch
  /\ UNCHANGED <<async, polls, tcw, unheard, lost, others>>

(* The same once more; nobody looks at the outcome.                        *)
ReadAgain ==
  /\ pc = "readAgain" /\ pc' = "done"
  /\ NoFault
  /\ UNCHANGED <<async, outer, first, answers, polls, tcw, unheard, lost, others>>

-----------------------------------------------------------------------------
(* The inner task *)

TheOuter == <<async, pc, outer, first, answers, polls, unheard, lost, tcwHangs>>

InnerInit ==
  /\ innerPc = "init" /\ innerPc' = "onboard"
  /\ hasBigIp' = TRUE
  /\ NoFault
  /\ UNCHANGED <<inner, tcw, TheOuter>>

InnerInitFails ==
  /\ innerPc = "init" /\ innerPc' = "done"
  /\ Fault
  /\ inner' = "ERROR"
  /\ UNCHANGED <<hasBigIp, tcw, TheOuter>>

Onboard ==
  /\ innerPc = "onboard" /\ innerPc' = "done"
  /\ inner' = "OK"
  /\ NoFault
  /\ UNCHANGED <<hasBigIp, tcw, TheOuter>>

OnboardFails ==
  /\ innerPc = "onboard" /\ innerPc' = "done"
  /\ Fault
  /\ inner' = "ERROR"
  /\ UNCHANGED <<hasBigIp, tcw, TheOuter>>

-----------------------------------------------------------------------------
(* The TCW task, as the worker knows it *)

TcwStarts ==
  /\ tcw = "CREATED" /\ ~tcwHangs /\ innerPc = "none"
  /\ tcw' = "STARTED" /\ innerPc' = "init"
  /\ NoFault
  /\ UNCHANGED <<hasBigIp, inner, TheOuter>>

TcwSettles ==
  /\ tcw = "STARTED" /\ ~tcwHangs /\ inner \in Settled
  /\ tcw' = IF inner = "OK" THEN "FINISHED" ELSE "FAILED"
  /\ NoFault
  /\ UNCHANGED <<hasBigIp, inner, innerPc, TheOuter>>

(* It gives up by itself, perhaps while the inner task is running.         *)
TcwFails ==
  /\ tcw \in {"CREATED", "STARTED"} /\ ~tcwHangs
  /\ Fault
  /\ tcw' = "FAILED"
  /\ UNCHANGED <<hasBigIp, inner, innerPc, TheOuter>>

TcwHangs ==
  /\ tcw \in {"CREATED", "STARTED"} /\ ~tcwHangs
  /\ Fault
  /\ tcwHangs' = TRUE
  /\ UNCHANGED <<async, pc, outer, first, answers, polls, unheard, lost, inner, innerPc,
                 hasBigIp, tcw>>

-----------------------------------------------------------------------------
Outer == \/ Accept \/ Setup \/ PassToTcw \/ PollEnds \/ PollTooEarly \/ Read \/ ReadAgain
         \/ FailBefore \/ PassFails \/ PollFails \/ ReadFails

Inner == InnerInit \/ InnerInitFails \/ Onboard \/ OnboardFails

Tcw == TcwStarts \/ TcwSettles \/ TcwFails \/ TcwHangs

Next == Outer \/ Inner \/ Tcw

(* The event loop goes on, and the TCW unless it hangs.                    *)
Fairness == WF_vars(Outer) /\ WF_vars(Inner) /\ WF_vars(TcwStarts \/ TcwSettles)

Spec == Init /\ [][Next]_vars /\ Fairness

-----------------------------------------------------------------------------
(* What the client is told first is the verdict of the TCW: OK only when   *)
(* the inner task has onboarded the device, and ERROR in spite of a        *)
(* FINISHED task only if the reply to passToTcw was lost or more polls     *)
(* failed than the polling outlasts the TCW by.                            *)
VerdictIsReported ==
  /\ first = "OK" => tcw = "FINISHED" /\ inner = "OK"
  /\ first = "ERROR" /\ tcw = "FINISHED" => unheard \/ lost > MaxRetries - TcwTimeout

(* Once the declaration is on its way, the polling comes to an end and the *)
(* client is told, even if the TCW hangs or each call fails.               *)
ClientIsAnswered == pc = "pass" ~> outer \in Settled /\ answers # <<>>
=============================================================================
