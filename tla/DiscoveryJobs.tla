---------------------------- MODULE DiscoveryJobs ----------------------------
(* One network scan of the Config page (webui/discovery_panel.py,             *)
(* discovery/network_probe.py): the job's thread submits a task per host and  *)
(* protocol to a pool, collects the answers and records the end, while web    *)
(* requests cancel the job and read it. Only some accesses take the lock.     *)
EXTENDS Integers, FiniteSets

CONSTANTS
    Tasks,         \* a host and a protocol each
    Concurrency    \* size of the pool

ASSUME PoolAssumption == IsFiniteSet(Tasks) /\ Concurrency \in Nat \ {0}

VARIABLES
    job,        \* what the manager keeps: status, completed, results, finished
    cancel,     \* cancel_event
    task,       \* state of each task
    thread,     \* step of the job's thread
    collected,  \* tasks whose future was taken by as_completed
    raised,     \* a probe raised
    lock,       \* the manager's lock is held
    page        \* the payload a web request is reading

vars == <<job, cancel, task, thread, collected, raised, lock, page>>

In(states) == {t \in Tasks : task[t] \in states}
Ended == {"complete", "cancelled", "error"}

Init ==
    /\ job = [status |-> "running", completed |-> 0, results |-> {}, finished |-> FALSE]
    /\ cancel = FALSE /\ lock = FALSE /\ raised = FALSE
    /\ task = [t \in Tasks |-> "new"] /\ thread = "submit" /\ collected = {}
    /\ page = [next |-> 1, status |-> "none", results |-> {}]

PoolHasRoom == Cardinality(In({"running"})) < Concurrency

(* task(): a cancelled scan starts no probe.                                  *)
StartTask(t) ==
    /\ task[t] = "queued" /\ PoolHasRoom
    /\ task' = [task EXCEPT ![t] = IF cancel THEN "silent" ELSE "running"]
    /\ UNCHANGED <<job, cancel, thread, collected, raised, lock, page>>

(* A probe finds a device, finds none, or raises what it does not catch.      *)
EndTask(t) ==
    /\ task[t] = "running"
    /\ \E answer \in {"found", "silent", "raised"} : task' = [task EXCEPT ![t] = answer]
    /\ UNCHANGED <<job, cancel, thread, collected, raised, lock, page>>

(* ------------------------------ scan_network ------------------------------ *)
Submit ==
    /\ thread = "submit"
    /\ IF cancel \/ In({"new"}) = {} THEN thread' = "collect" /\ UNCHANGED task
       ELSE /\ \E t \in In({"new"}) : task' = [task EXCEPT ![t] = "queued"]
            /\ UNCHANGED thread
    /\ UNCHANGED <<job, cancel, collected, raised, lock, page>>

Completed == In({"found", "silent", "raised"})
Submitted == Tasks \ In({"new"})

(* progress() counts under the lock.                                          *)
Collect ==
    /\ thread = "collect" /\ ~cancel /\ ~lock
    /\ \E t \in Completed \ collected :
         /\ task[t] # "raised"
         /\ collected' = collected \cup {t}
         /\ job' = [job EXCEPT !.completed = @ + 1]
    /\ UNCHANGED <<cancel, task, thread, raised, lock, page>>

(* Mutant: a cancelled scan waits for tasks that were never submitted.        *)
CollectedEvery == collected = Tasks

(* Mutant: the scan is over when every task was started.                      *)
CollectedStarted == In({"queued"}) = {}

CollectedAll == collected = Submitted

StopCollecting ==
    /\ thread = "collect"
    /\ \/ CollectedAll /\ UNCHANGED raised
       \/ cancel /\ Completed \ collected # {} /\ UNCHANGED raised
       \/ ~cancel /\ In({"raised"}) # {} /\ raised' = TRUE
    /\ thread' = "shutdown"
    /\ UNCHANGED <<job, cancel, task, collected, lock, page>>

(* Mutant: executor.shutdown does not wait.                                   *)
PoolIdleAnyway == TRUE

PoolIdle == In({"running"}) = {}

(* executor.shutdown drops what was not started and waits for the rest.       *)
Shutdown ==
    /\ thread = "shutdown"
    /\ task' = [t \in Tasks |-> IF task[t] = "queued" THEN "dropped" ELSE task[t]]
    /\ thread' = "waiting"
    /\ UNCHANGED <<job, cancel, collected, raised, lock, page>>

ShutdownDone ==
    /\ thread = "waiting" /\ PoolIdle
    /\ thread' = IF raised THEN "error" ELSE "results"
    /\ UNCHANGED <<job, cancel, task, collected, raised, lock, page>>

(* ---------------------------------- _run ---------------------------------- *)
PublishResults ==
    /\ thread = "results" /\ ~lock /\ lock' = TRUE
    /\ job' = [job EXCEPT !.results = collected \cap In({"found"})]
    /\ thread' = "status"
    /\ UNCHANGED <<cancel, task, collected, raised, page>>

(* Mutant: the end of a scan is its completion.                               *)
EndStatusComplete == "complete"

EndStatus == IF cancel THEN "cancelled" ELSE "complete"

PublishStatus ==
    /\ thread = "status" /\ lock' = FALSE
    /\ job' = [job EXCEPT !.status = EndStatus,
                          !.completed = IF EndStatus = "complete" THEN Cardinality(Tasks) ELSE @]
    /\ thread' = "finish"
    /\ UNCHANGED <<cancel, task, collected, raised, page>>

PublishError ==
    /\ thread = "error" /\ ~lock
    /\ job' = [job EXCEPT !.status = "error"]
    /\ thread' = "finish"
    /\ UNCHANGED <<cancel, task, collected, raised, lock, page>>

Finish ==
    /\ thread = "finish" /\ ~lock
    /\ job' = [job EXCEPT !.finished = TRUE] /\ thread' = "over"
    /\ UNCHANGED <<cancel, task, collected, raised, lock, page>>

(* ---------------------------------- web ----------------------------------- *)
MayCancel == job.status = "running"

Cancel ==
    /\ ~lock /\ MayCancel
    /\ cancel' = TRUE /\ job' = [job EXCEPT !.status = "cancelling"]
    /\ UNCHANGED <<task, thread, collected, raised, lock, page>>

(* Mutant: the payload takes the results first.                               *)
PayloadOrderSwapped == <<"results", "status">>

PayloadOrder == <<"status", "results">>

(* get() returns the job itself; payload() reads it without the lock, field   *)
(* after field; the page asks again until it is shown an end.                 *)
PageReads ==
    /\ page.next = 2 \/ page.status \notin Ended
    /\ LET field == PayloadOrder[page.next] IN
         page' = [next |-> 3 - page.next,
                  status |-> IF field = "status" THEN job.status ELSE page.status,
                  results |-> IF field = "results" THEN job.results ELSE page.results]
    /\ UNCHANGED <<job, cancel, task, thread, collected, raised, lock>>

Thread ==
    \/ Submit \/ Collect \/ StopCollecting \/ Shutdown \/ ShutdownDone
    \/ PublishResults \/ PublishStatus \/ PublishError \/ Finish
Idle == job.finished /\ page.status \in Ended /\ UNCHANGED vars
Next == Thread \/ (\E t \in Tasks : StartTask(t) \/ EndTask(t)) \/ Cancel \/ PageReads \/ Idle

Spec == Init /\ [][Next]_vars

(* The threads run, and every probe has time-outs.                            *)
FairSpec ==
    /\ Spec /\ WF_vars(Thread) /\ WF_vars(PageReads)
    /\ \A t \in Tasks : WF_vars(StartTask(t)) /\ WF_vars(EndTask(t))

(* ------------------------------- properties ------------------------------- *)
TypeOK ==
    /\ job.status \in Ended \cup {"running", "cancelling"}
    /\ collected \subseteq Completed /\ job.completed = Cardinality(collected)
    /\ Cardinality(In({"running"})) <= Concurrency

(* A job that is reported as complete has asked every host and has every      *)
(* answer, however the cancellation and the end overlap.                      *)
CompleteIsAll ==
    job.status = "complete" => collected = Tasks /\ job.results = In({"found"})

(* So has the payload that made the page stop polling, read without the lock. *)
PageSeesAll ==
    page.status = "complete" /\ page.next = 1 => page.results = In({"found"})

(* When a job is recorded as finished nothing is sent to the network any more.*)
QuietWhenFinished == job.finished => In({"queued", "running"}) = {}

(* What a scan reports, and its page shows, is what it did.                   *)
ScanInv ==
    /\ TypeOK
    /\ CompleteIsAll
    /\ PageSeesAll
    /\ QuietWhenFinished

(* A cancellation that was accepted is never answered with "complete", and a  *)
(* job that has ended does not change its mind.                               *)
CancelIsKept ==
    [][/\ job.status = "cancelling" => job'.status \in {"cancelling", "cancelled", "error"}
       /\ job.status \in Ended => job'.status = job.status]_vars

(* Every job ends, cancelled or not, and the page is told.                    *)
JobEnds == <>(job.finished /\ page.status \in Ended)
==============================================================================
