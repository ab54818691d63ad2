---------------------------- MODULE TaskPromise ----------------------------
(* What the task table promises to the clients of Declarative Onboarding:  *)
(* the life of a task as the statuses of src/lib/sharedConstants.js show   *)
(* it, without promise chains, storage, listeners, restarts or devices.    *)
(* RestWorker implements it, with the table in rest storage as the phase:  *)
(* restarts and failed saves are stuttering steps, nothing more.           *)

CONSTANT Task

VARIABLES
  phase,      \* what is recorded of each task
  answer      \* what the client of each task was told

vars == <<phase, answer>>

Phase  == {"absent", "working", "ok", "failed"}
Answer == {"none", "refused", "accepted", "ok", "failed"}

TypeOK ==
  /\ phase \in [Task -> Phase]
  /\ answer \in [Task -> Answer]

Init ==
  /\ phase = [t \in Task |-> "absent"]
  /\ answer = [t \in Task |-> "none"]

(* A task is worked on before it succeeds, and what is settled stays.  One *)
(* that was refused is not worked on: it may only be recorded as failed.   *)
Forward(t) ==
  IF answer[t] = "refused"
    THEN {<<"absent", "failed">>}
    ELSE {<<"absent", "working">>, <<"absent", "failed">>,
          <<"working", "ok">>, <<"working", "failed">>}

(* One write of the table may record the progress of several tasks.        *)
Record ==
  /\ phase' \in [Task -> Phase]
  /\ \A t \in Task : phase'[t] = phase[t] \/ <<phase[t], phase'[t]>> \in Forward(t)
  /\ UNCHANGED answer

(* A client is answered once, about a task on record.  Only a failure may  *)
(* be told before it is recorded; a restart may still turn it to success.  *)
(* A request that cannot be read is refused, and need not be recorded.     *)
AnswerClient(t) ==
  /\ answer[t] = "none"
  /\ \/ phase[t] = "absent"  /\ answer' = [answer EXCEPT ![t] = "refused"]
     \/ phase[t] = "working" /\ answer' = [answer EXCEPT ![t] = "accepted"]
     \/ phase[t] = "ok"      /\ answer' = [answer EXCEPT ![t] = "ok"]
     \/ phase[t] \in {"working", "failed"} /\ answer' = [answer EXCEPT ![t] = "failed"]
  /\ UNCHANGED phase

Next == Record \/ \E t \in Task : AnswerClient(t)

Spec == Init /\ [][Next]_vars
=============================================================================
