---------------------------- MODULE DevicesProofs ----------------------------
(* Proofs about DiscoveryJobs: a job says the truth about its end, for any    *)
(* number of hosts and any size of the pool; and about JoystickMonitor: the   *)
(* stick of the cycle is the one on the desk, for any axes, queue and plugs.  *)
EXTENDS MCDevices, Sequences, FiniteSetTheorems, TLAPS

States == {"new", "queued", "running", "found", "silent", "raised", "dropped"}
Steps == {"submit", "collect", "shutdown", "waiting", "results", "status", "error", "finish", "over"}

Types ==
    /\ task \in [Tasks -> States] /\ thread \in Steps
    /\ job \in [status : Ended \cup {"running", "cancelling"}, completed : Nat,
                results : SUBSET Tasks, finished : BOOLEAN]
    /\ page \in [next : {1, 2}, status : Ended \cup {"running", "cancelling", "none"},
                 results : SUBSET Tasks]
    /\ cancel \in BOOLEAN /\ raised \in BOOLEAN /\ lock \in BOOLEAN
    /\ collected \subseteq In({"found", "silent"})

(* What the job says, by the step its thread is at: it has not ended before   *)
(* "finish", the lock is held between results and status, and it is being     *)
(* cancelled exactly when it says so.                                         *)
StatusInv ==
    /\ thread \notin {"finish", "over"} =>
         /\ job.status = IF cancel THEN "cancelling" ELSE "running"
         /\ ~job.finished
    /\ thread = "finish" => ~job.finished
    /\ thread \in {"finish", "over"} => job.status \in Ended
    /\ lock = (thread = "status")

(* From "collect" on every task was submitted, unless it is cancelled; after  *)
(* it all are collected, unless it is cancelled or one raised; and after the  *)
(* pool was shut down no task changes any more.                               *)
WorkInv ==
    /\ thread = "collect" /\ ~cancel => In({"new"}) = {}
    /\ thread \in {"shutdown", "waiting", "results", "status"} /\ ~cancel /\ ~raised => collected = Tasks
    /\ thread \in {"results", "status"} => ~raised
    /\ thread = "waiting" => In({"queued"}) = {}
    /\ thread \in {"results", "status", "error", "finish", "over"} => In({"queued", "running"}) = {}

(* What is published, and what the page has seen of it.                       *)
ResultInv ==
    /\ thread = "status" => job.results = collected \cap In({"found"})
    /\ CompleteIsAll
    /\ page.status \in Ended => job.status = page.status
    /\ PageSeesAll

IInv == Types /\ StatusInv /\ WorkInv /\ ResultInv

LEMMA InitInv == Init => IInv
<1>. SUFFICES ASSUME Init PROVE IInv
  OBVIOUS
<1>. USE DEF Init, Ended, Steps
<1>1. Types
  BY DEF Types, States, In
<1>2. StatusInv
  BY DEF StatusInv
<1>3. WorkInv
  BY DEF WorkInv
<1>4. ResultInv
  BY DEF ResultInv, CompleteIsAll, PageSeesAll
<1>. QED
  BY <1>1, <1>2, <1>3, <1>4 DEF IInv

LEMMA PoolStep ==
  ASSUME IInv, NEW t \in Tasks, StartTask(t) \/ EndTask(t)
  PROVE  IInv'
<1>. USE DEF IInv, Types, StatusInv, WorkInv, ResultInv, CompleteIsAll, PageSeesAll,
             In, Ended, States, Steps
<1>1. CASE StartTask(t)
  BY <1>1 DEF StartTask
<1>2. CASE EndTask(t)
  BY <1>2 DEF EndTask
<1>. QED
  BY <1>1, <1>2

LEMMA ScanStep ==
  ASSUME IInv, Submit \/ Collect \/ StopCollecting \/ Shutdown \/ ShutdownDone
  PROVE  IInv'
<1>. USE DEF IInv, Types, StatusInv, WorkInv, ResultInv, CompleteIsAll, PageSeesAll,
             In, Ended, States, Steps, Completed, Submitted
<1>1. CASE Submit
  BY <1>1 DEF Submit
<1>2. CASE Collect
  BY <1>2 DEF Collect
<1>3. CASE StopCollecting
  BY <1>3 DEF StopCollecting, CollectedAll
<1>4. CASE Shutdown
  BY <1>4 DEF Shutdown
<1>5. CASE ShutdownDone
  BY <1>5 DEF ShutdownDone, PoolIdle
<1>. QED
  BY <1>1, <1>2, <1>3, <1>4, <1>5

LEMMA RunStep ==
  ASSUME IInv, PublishResults \/ PublishStatus \/ PublishError \/ Finish
  PROVE  IInv'
<1>. USE DEF IInv, Types, StatusInv, WorkInv, ResultInv, CompleteIsAll, PageSeesAll,
             In, Ended, States, Steps
<1>1. CASE PublishResults
  BY <1>1 DEF PublishResults
<1>2. CASE PublishStatus
  <2>. Cardinality(Tasks) \in Nat
    BY FS_CardinalityType, PoolAssumption
  <2>. QED
    BY <1>2 DEF PublishStatus, EndStatus
<1>3. CASE PublishError
  BY <1>3 DEF PublishError
<1>4. CASE Finish
  BY <1>4 DEF Finish
<1>. QED
  BY <1>1, <1>2, <1>3, <1>4

LEMMA WebStep ==
  ASSUME IInv, Cancel \/ PageReads
  PROVE  IInv'
<1>. USE DEF IInv, Types, StatusInv, WorkInv, ResultInv, CompleteIsAll, PageSeesAll,
             In, Ended, States, Steps
<1>1. CASE Cancel
  BY <1>1 DEF Cancel, MayCancel
<1>2. CASE PageReads /\ page.next = 1
  <2>1. page' = [next |-> 2, status |-> job.status, results |-> page.results]
    BY <1>2 DEF PageReads, PayloadOrder
  <2>. QED
    BY <1>2, <2>1 DEF PageReads
<1>3. CASE PageReads /\ page.next = 2
  <2>1. page' = [next |-> 1, status |-> page.status, results |-> job.results]
    BY <1>3 DEF PageReads, PayloadOrder
  <2>. QED
    BY <1>3, <2>1 DEF PageReads
<1>. QED
  BY <1>1, <1>2, <1>3

LEMMA StepInv == IInv /\ [Next]_vars => IInv'
<1>. SUFFICES ASSUME IInv, [Next]_vars PROVE IInv'
  OBVIOUS
<1>1. CASE UNCHANGED vars
  BY <1>1 DEF vars, IInv, Types, StatusInv, WorkInv, ResultInv, CompleteIsAll, PageSeesAll, In
<1>. QED
  BY <1>1, PoolStep, ScanStep, RunStep, WebStep DEF Next, Thread, Idle

(* The inductive invariant: at each step of the thread, what is collected,    *)
(* what is published and what the page has seen fit together.                 *)
THEOREM JobInvariant == Spec => []IInv
BY InitInv, StepInv, PTL DEF Spec

(* A job reported as complete has every answer, for any number of hosts, any  *)
(* pool and any moment of the cancellation.                                   *)
THEOREM CompleteJobs == Spec => []CompleteIsAll
<1>1. IInv => CompleteIsAll
  BY DEF IInv, ResultInv
<1>. QED
  BY <1>1, JobInvariant, PTL

(* The payload that ends the page's polling has every answer, though it is    *)
(* read without the lock.                                                     *)
THEOREM CompletePages == Spec => []PageSeesAll
<1>1. IInv => PageSeesAll
  BY DEF IInv, ResultInv
<1>. QED
  BY <1>1, JobInvariant, PTL

(* Once a job is recorded as finished no probe runs or will run.              *)
THEOREM QuietJobs == Spec => []QuietWhenFinished
<1>1. IInv => QuietWhenFinished
  BY DEF IInv, Types, StatusInv, WorkInv, QuietWhenFinished, Steps
<1>. QED
  BY <1>1, JobInvariant, PTL

(* An accepted cancellation is not answered with "complete", and an end is    *)
(* final.                                                                     *)
THEOREM CancellationIsKept == Spec => CancelIsKept
<1>. DEFINE Kept == /\ job.status = "cancelling" => job'.status \in {"cancelling", "cancelled", "error"}
                    /\ job.status \in Ended => job'.status = job.status
<1>1. IInv /\ [Next]_vars => [Kept]_vars
  <2>. SUFFICES ASSUME IInv, [Next]_vars PROVE Kept \/ UNCHANGED vars
    OBVIOUS
  <2>. USE DEF IInv, Types, StatusInv, Ended, Steps
  <2>1. ASSUME NEW t \in Tasks, StartTask(t) \/ EndTask(t) PROVE Kept
    BY <2>1 DEF StartTask, EndTask
  <2>2. CASE Submit \/ Collect \/ StopCollecting \/ Shutdown \/ ShutdownDone
    BY <2>2 DEF Submit, Collect, StopCollecting, Shutdown, ShutdownDone
  <2>3. CASE PublishResults \/ PublishError \/ Finish
    BY <2>3 DEF PublishResults, PublishError, Finish
  <2>4. CASE PublishStatus
    BY <2>4 DEF PublishStatus, EndStatus
  <2>5. CASE Cancel \/ PageReads
    BY <2>5 DEF Cancel, MayCancel, PageReads
  <2>. QED
    BY <2>1, <2>2, <2>3, <2>4, <2>5 DEF Next, Thread, Idle
<1>. QED
  BY <1>1, JobInvariant, PTL DEF Spec, CancelIsKept

-----------------------------------------------------------------------------
(* The counts.                                                                *)

CountInv ==
    /\ job.completed = Cardinality(collected)
    /\ Cardinality(In({"running"})) <= Concurrency

LEMMA CountStep ==
  ASSUME IInv, CountInv, [Next]_vars
  PROVE  CountInv'
<1>. USE DEF CountInv
<1>0. /\ IsFiniteSet(collected) /\ IsFiniteSet(In({"running"}))
      /\ Cardinality(collected) \in Nat /\ Cardinality(In({"running"})) \in Nat
  <2>1. collected \subseteq Tasks /\ In({"running"}) \subseteq Tasks
    BY DEF IInv, Types, In
  <2>. QED
    BY <2>1, FS_Subset, FS_CardinalityType, PoolAssumption
<1>1. ASSUME NEW t \in Tasks, StartTask(t) PROVE CountInv'
  <2>1. CASE cancel
    <3>1. In({"running"})' = In({"running"})
      BY <1>1, <2>1 DEF StartTask, In, IInv, Types
    <3>. QED
      BY <1>1, <3>1 DEF StartTask
  <2>2. CASE ~cancel
    <3>1. In({"running"})' = In({"running"}) \cup {t} /\ t \notin In({"running"})
      BY <1>1, <2>2 DEF StartTask, In, IInv, Types
    <3>2. Cardinality(In({"running"})') = Cardinality(In({"running"})) + 1
      BY <1>0, <3>1, FS_AddElement
    <3>. QED
      BY <1>0, <1>1, <3>2, PoolAssumption DEF StartTask, PoolHasRoom
  <2>. QED
    BY <2>1, <2>2 DEF IInv, Types
<1>2. ASSUME NEW t \in Tasks, EndTask(t) PROVE CountInv'
  <2>1. In({"running"})' \subseteq In({"running"})
    BY <1>2 DEF EndTask, In, IInv, Types
  <2>2. Cardinality(In({"running"})') <= Cardinality(In({"running"})) /\ Cardinality(In({"running"})') \in Nat
    BY <1>0, <2>1, FS_Subset, FS_CardinalityType
  <2>. QED
    BY <1>0, <1>2, <2>2, PoolAssumption DEF EndTask
<1>3. CASE Collect
  <2>1. PICK t \in Completed \ collected : collected' = collected \cup {t}
    BY <1>3 DEF Collect
  <2>2. Cardinality(collected') = Cardinality(collected) + 1
    BY <1>0, <2>1, FS_AddElement
  <2>. QED
    BY <1>3, <2>2 DEF Collect, In, IInv, Types
<1>4. CASE PublishStatus
  <2>1. EndStatus = "complete" => collected = Tasks
    BY <1>4 DEF PublishStatus, EndStatus, IInv, WorkInv, Types
  <2>. QED
    BY <1>4, <2>1 DEF PublishStatus, In, IInv, Types
<1>5. CASE Submit \/ Shutdown
  <2>1. In({"running"})' = In({"running"})
    BY <1>5 DEF Submit, Shutdown, In, IInv, Types
  <2>. QED
    BY <1>5, <2>1 DEF Submit, Shutdown
<1>6. CASE StopCollecting \/ ShutdownDone \/ PublishResults \/ PublishError \/ Finish \/ Cancel \/ PageReads
  BY <1>6 DEF StopCollecting, ShutdownDone, PublishResults, PublishError, Finish, Cancel, PageReads,
              In, IInv, Types
<1>7. CASE UNCHANGED vars
  BY <1>7 DEF vars, In
<1>. QED
  BY <1>1, <1>2, <1>3, <1>4, <1>5, <1>6, <1>7 DEF Next, Thread, Idle

(* The progress shown is the number of answers collected, at the end too, and *)
(* the pool never runs more probes than asked for.                            *)
THEOREM TypeCorrect == Spec => []TypeOK
<1>1. Init => CountInv
  <2>. SUFFICES ASSUME Init PROVE CountInv
    OBVIOUS
  <2>1. In({"running"}) = {}
    BY DEF Init, In
  <2>2. Cardinality(In({"running"})) = 0 /\ job.completed = 0 /\ Cardinality(collected) = 0
    BY <2>1, FS_EmptySet DEF Init
  <2>. QED
    BY <2>2, PoolAssumption DEF CountInv
<1>2. IInv /\ CountInv => TypeOK
  BY DEF IInv, Types, CountInv, TypeOK, Completed, In
<1>3. IInv /\ CountInv /\ [Next]_vars => CountInv'
  BY CountStep
<1>. QED
  BY <1>1, <1>2, <1>3, JobInvariant, PTL DEF Spec

(* The four together: what a scan reports is what it did.                     *)
THEOREM HonestJobs == Spec => []ScanInv
<1>1. TypeOK /\ CompleteIsAll /\ PageSeesAll /\ QuietWhenFinished => ScanInv
  BY DEF ScanInv
<1>. QED
  BY <1>1, TypeCorrect, CompleteJobs, CompletePages, QuietJobs, PTL

------------------------------------------------------------------------------
(* JoystickMonitor.                                                           *)

Backends == {"evdev", "pygame"}
Event == [axis : StickAxes \cup {"button"}, value : {0, 1}]

StickTypes ==
    /\ backend \in Backends
    /\ counts \in [plugs : Nat, failures : Nat] /\ counts.plugs <= MaxPlugs[backend]
    /\ plugged \in 0..counts.plugs /\ found \in Nat
    /\ stick \in [StickAxes -> {0, 1}] /\ queue \in Seq(Event)
    /\ pressed \in Int /\ recalls \in Nat
    /\ provider \in [of : 0..counts.plugs, axes : [StickAxes -> {0, 1}], events : Nat, seen : SUBSET StickAxes]
    /\ health \in [state : {"connected", "disconnected", "error"}, of : Nat]
    /\ pc \in {"poll", "open", "read", "bridge", "buttons", "route", "ended"}
    /\ snapshot \in [StickAxes -> {0, 1}] \cup {Stick!NoSnapshot}
    /\ wasConnected \in BOOLEAN

(* What the monitor says of the device is what it has of it.                  *)
HealthInv ==
    /\ provider.of = 0 => provider = Stick!NoProvider
    /\ health.of = provider.of
    /\ health.state = "connected" <=> provider.of # 0
    /\ announced.last = health.state
    /\ Stick!LossNotRepeated
    /\ pc = "open" => provider.of = 0 /\ found # 0
    /\ pc = "read" => provider.of # 0

(* The bridge stops at a loss because nothing moves but for a stick that was  *)
(* connected, and a cycle without a snapshot is one without a connected stick.*)
CycleInv ==
    /\ pc \in {"poll", "open", "read", "bridge"} => moving = {} \/ wasConnected
    /\ pc \in {"bridge", "buttons", "route"} =>
         (health.state = "connected" <=> snapshot # Stick!NoSnapshot)
    /\ pc \in {"buttons", "route"} => wasConnected = (health.state = "connected")
    /\ pc \in {"buttons", "route"} /\ ~wasConnected => moving = {}
    /\ Stick!StillWhenLost

(* Events wait for the provider of the device that is plugged in; the last    *)
(* event of an axis is one of the queue.                                      *)
QueueInv ==
    /\ \A a \in Stick!Told : Stick!Max(Stick!MovesOf(a)) \in 1..Len(queue)
    /\ queue # <<>> => plugged # 0 /\ provider.of = plugged
    /\ provider.of = plugged /\ plugged # 0 /\ pc # "ended" =>
         pressed = recalls + provider.events + Stick!Presses

(* The last event of an axis tells where it is; evdev knows the others but    *)
(* those whose last event was dropped.                                        *)
FollowInv ==
    backend = "evdev" =>
        /\ Stick!Told \cap behind = {}
        /\ \A a \in Stick!Told : Stick!AxisAfter(provider, a) = stick[a]
        /\ provider.of = plugged =>
             \A a \in provider.seen \ behind : Stick!AxisAfter(provider, a) = stick[a]

StickIInv == StickTypes /\ HealthInv /\ CycleInv /\ QueueInv /\ FollowInv

(* JoystickMonitor has its own instance of FiniteSets.                        *)
LEMMA SameCardinality == \A S : Stick!Cardinality(S) = Cardinality(S)
  BY DEF Stick!Cardinality, Cardinality

(* The positions of an axis' events are finitely many.                        *)
LEMMA MovesFinite ==
  ASSUME NEW a, queue \in Seq(Event)
  PROVE  /\ IsFiniteSet(Stick!MovesOf(a)) /\ Cardinality(Stick!MovesOf(a)) \in Nat
         /\ Stick!MovesOf(a) \subseteq 1..Len(queue)
<1>1. Len(queue) \in Nat /\ DOMAIN queue = 1..Len(queue)
  OBVIOUS
<1>2. IsFiniteSet(1..Len(queue))
  BY <1>1, FS_Interval
<1>3. Stick!MovesOf(a) \in SUBSET (1..Len(queue))
  BY <1>1 DEF Stick!MovesOf
<1>. QED
  BY <1>2, <1>3, FS_Subset, FS_CardinalityType

(* An event at the end of the queue is the last one of its axis and changes   *)
(* nothing for the others.                                                    *)
LEMMA OneMoreEvent ==
  ASSUME queue \in Seq(Event), NEW e \in Event, queue' = Append(queue, e), NEW a
  PROVE  /\ a # e.axis => Stick!MovesOf(a)' = Stick!MovesOf(a)
         /\ a = e.axis => /\ Stick!MovesOf(a)' = Stick!MovesOf(a) \cup {Len(queue) + 1}
                          /\ Stick!Max(Stick!MovesOf(a)') = Len(queue) + 1
                          /\ Cardinality(Stick!MovesOf(a)') = Cardinality(Stick!MovesOf(a)) + 1
         /\ \A i \in 1..Len(queue) : queue'[i] = queue[i]
         /\ queue'[Len(queue) + 1] = e
<1>1. Len(queue) \in Nat /\ DOMAIN queue = 1..Len(queue) /\ DOMAIN queue' = 1..(Len(queue) + 1)
  OBVIOUS
<1>2. /\ \A i \in 1..Len(queue) : queue'[i] = queue[i]
      /\ queue'[Len(queue) + 1] = e
  OBVIOUS
<1>3. a # e.axis => Stick!MovesOf(a)' = Stick!MovesOf(a)
  BY <1>1, <1>2 DEF Stick!MovesOf
<1>4. a = e.axis => Stick!MovesOf(a)' = Stick!MovesOf(a) \cup {Len(queue) + 1}
  BY <1>1, <1>2 DEF Stick!MovesOf
<1>5. Stick!MovesOf(a) \subseteq 1..Len(queue) /\ IsFiniteSet(Stick!MovesOf(a))
  BY MovesFinite
<1>6. Len(queue) + 1 \notin Stick!MovesOf(a)
  BY <1>1, <1>5
<1>7. Stick!Max(Stick!MovesOf(a) \cup {Len(queue) + 1}) = Len(queue) + 1
  <2>. DEFINE top == Len(queue) + 1  old == Stick!MovesOf(a)
  <2>1. top \in Nat /\ \A y \in old : y \in Nat /\ y < top
    BY <1>1, <1>5
  <2>. HIDE DEF top, old
  <2>2. \A y \in old \cup {top} : top >= y
    BY <2>1
  <2>3. ASSUME NEW x \in old \cup {top}, \A y \in old \cup {top} : x >= y
        PROVE  x = top
    <3>1. x >= top
      BY <2>3
    <3>. QED
      BY <2>1, <3>1
  <2>4. Stick!Max(old \cup {top}) = top
    BY <2>2, <2>3 DEF Stick!Max
  <2>. QED
    BY <2>4 DEF top, old
<1>8. Cardinality(Stick!MovesOf(a) \cup {Len(queue) + 1}) = Cardinality(Stick!MovesOf(a)) + 1
  BY <1>5, <1>6, FS_AddElement
<1>. QED
  BY <1>2, <1>3, <1>4, <1>7, <1>8

(* After an overflow the newest event is the only one.                        *)
LEMMA OnlyEvent ==
  ASSUME NEW e \in Event, queue' = <<e>>
  PROVE  /\ \A a : Stick!MovesOf(a)' = IF a = e.axis THEN {1} ELSE {}
         /\ Stick!Max({1}) = 1 /\ Cardinality({1}) = 1
         /\ queue' \in Seq(Event) /\ Len(queue') = 1 /\ queue'[1] = e
<1>1. DOMAIN queue' = {1} /\ queue'[1] = e
  OBVIOUS
<1>2. \A a : Stick!MovesOf(a)' = IF a = e.axis THEN {1} ELSE {}
  BY <1>1 DEF Stick!MovesOf
<1>3. Stick!Max({1}) = 1
  BY DEF Stick!Max
<1>4. Cardinality({1}) = 1
  BY FS_Singleton
<1>. QED
  BY <1>1, <1>2, <1>3, <1>4

(* An empty queue tells nothing.                                              *)
LEMMA QueueRead ==
  ASSUME queue' = <<>>
  PROVE  (\A a : Stick!MovesOf(a)' = {}) /\ Stick!Presses' = 0 /\ Stick!Told' = {}
<1>1. \A a : Stick!MovesOf(a)' = {}
  BY DEF Stick!MovesOf
<1>2. Stick!Presses' = 0
  BY <1>1, FS_EmptySet, SameCardinality DEF Stick!Presses
<1>. QED
  BY <1>1, <1>2 DEF Stick!Told

(* What a provider knows when it has read the queue.                          *)
LEMMA PolledMeans ==
  ASSUME StickTypes, FollowInv,
         NEW known \in [of : 0..counts.plugs, axes : [StickAxes -> {0, 1}], events : Nat, seen : SUBSET StickAxes]
  PROVE  /\ Stick!Polled(known) \in
              [of : 0..counts.plugs, axes : [StickAxes -> {0, 1}], events : Nat, seen : SUBSET StickAxes]
         /\ Stick!Polled(known).of = known.of
         /\ Stick!Polled(known).events = known.events + Stick!Presses
         /\ backend = "evdev" =>
              /\ Stick!Polled(known).seen = known.seen \cup Stick!Told
              /\ \A a \in StickAxes : Stick!Polled(known).axes[a] = Stick!AxisAfter(known, a)
<1>. DEFINE axes == IF backend = "pygame" THEN stick ELSE [a \in StickAxes |-> Stick!AxisAfter(known, a)]
            seen == IF backend = "pygame" THEN StickAxes ELSE known.seen \cup Stick!Told
            events == known.events + Stick!Presses
<1>1. Stick!Polled(known) = [of |-> known.of, axes |-> axes, events |-> events, seen |-> seen]
  BY DEF Stick!Polled
<1>2. events \in Nat
  <2>1. Stick!Presses \in Nat
    BY MovesFinite, SameCardinality DEF StickTypes, Stick!Presses
  <2>. QED
    BY <2>1
<1>3. ASSUME backend = "evdev", NEW a \in StickAxes
      PROVE  Stick!AxisAfter(known, a) \in {0, 1}
  <2>1. CASE a \in Stick!Told
    <3>1. Stick!AxisAfter(known, a) = Stick!AxisAfter(provider, a)
      BY <2>1 DEF Stick!AxisAfter
    <3>2. Stick!AxisAfter(provider, a) = stick[a]
      BY <1>3, <2>1 DEF FollowInv
    <3>. QED
      BY <3>1, <3>2 DEF StickTypes
  <2>2. CASE a \notin Stick!Told
    BY <2>2 DEF Stick!AxisAfter
  <2>. QED
    BY <2>1, <2>2
<1>4. axes \in [StickAxes -> {0, 1}]
  BY <1>3 DEF StickTypes, Backends
<1>5. seen \in SUBSET StickAxes
  BY DEF Stick!Told
<1>6. backend = "evdev" =>
        /\ seen = known.seen \cup Stick!Told
        /\ \A a \in StickAxes : axes[a] = Stick!AxisAfter(known, a)
  OBVIOUS
<1>. HIDE DEF axes, seen, events
<1>7. /\ Stick!Polled(known).of = known.of /\ Stick!Polled(known).axes = axes
      /\ Stick!Polled(known).events = events /\ Stick!Polled(known).seen = seen
  BY <1>1
<1>8. Stick!Polled(known) \in
        [of : 0..counts.plugs, axes : [StickAxes -> {0, 1}], events : Nat, seen : SUBSET StickAxes]
  BY <1>1, <1>2, <1>4, <1>5
<1>. QED
  BY <1>6, <1>7, <1>8 DEF events

------------------------------------------------------------------------------
(* The steps of the device and its operator.                                  *)

LEMMA PlugStep ==
  ASSUME StickIInv, UNCHANGED backend, Stick!Plug
  PROVE  StickIInv'
<1>. USE DEF Stick!Plug, Stick!monitor, Stick!bridge
<1>1. StickTypes'
  <2>1. counts \in [plugs : Nat, failures : Nat] /\ backend \in Backends /\ MaxPlugs[backend] \in Nat
    BY StickAssumption DEF StickIInv, StickTypes, Backends
  <2>2. counts' \in [plugs : Nat, failures : Nat] /\ counts'.plugs = counts.plugs + 1
    BY <2>1
  <2>3. counts'.plugs <= MaxPlugs[backend] /\ plugged' \in 0..counts'.plugs
    BY <2>1, <2>2
  <2>4. provider \in [of : 0..counts.plugs, axes : [StickAxes -> {0, 1}], events : Nat, seen : SUBSET StickAxes]
    BY DEF StickIInv, StickTypes
  <2>5. provider' \in [of : 0..counts'.plugs, axes : [StickAxes -> {0, 1}], events : Nat, seen : SUBSET StickAxes]
    BY <2>1, <2>2, <2>4
  <2>6. stick' \in [StickAxes -> {0, 1}] /\ queue' \in Seq(Event) /\ pressed' \in Int
    OBVIOUS
  <2>7. UNCHANGED <<backend, found, recalls, health, pc, snapshot, wasConnected>>
    OBVIOUS
  <2>. QED
    BY <2>1, <2>2, <2>3, <2>5, <2>6, <2>7 DEF StickIInv, StickTypes
<1>2. HealthInv' /\ CycleInv'
  BY DEF StickIInv, HealthInv, CycleInv, Stick!LossNotRepeated, Stick!StillWhenLost
<1>3. plugged' # 0 /\ provider'.of # plugged'
  BY DEF StickIInv, StickTypes
<1>4. (\A a : Stick!MovesOf(a)' = {}) /\ Stick!Told' = {}
  BY DEF Stick!MovesOf, Stick!Told
<1>5. QueueInv' /\ FollowInv'
  BY <1>3, <1>4 DEF QueueInv, FollowInv
<1>. QED
  BY <1>1, <1>2, <1>5 DEF StickIInv

LEMMA UnplugStep ==
  ASSUME StickIInv, UNCHANGED backend, Stick!Unplug
  PROVE  StickIInv'
<1>. USE DEF Stick!Unplug, Stick!monitor, Stick!bridge
<1>1. StickTypes'
  BY DEF StickIInv, StickTypes, Event
<1>2. HealthInv' /\ CycleInv'
  BY DEF StickIInv, HealthInv, CycleInv, Stick!LossNotRepeated, Stick!StillWhenLost
<1>3. (\A a : Stick!MovesOf(a)' = {}) /\ Stick!Told' = {}
  BY DEF Stick!MovesOf, Stick!Told
<1>4. provider'.of = plugged' => provider'.seen = {}
  BY DEF StickIInv, HealthInv, Stick!NoProvider, Stick!Fresh
<1>5. QueueInv' /\ FollowInv'
  BY <1>3, <1>4 DEF QueueInv, FollowInv
<1>. QED
  BY <1>1, <1>2, <1>5 DEF StickIInv

(* What the device, its queue and its provider keep, the queue's facts keep.  *)
LEMMA QueueStays ==
  ASSUME StickIInv, UNCHANGED <<plugged, queue, pressed, provider, recalls>>, pc = "ended" => pc' = "ended"
  PROVE  QueueInv'
<1>1. \A a : Stick!MovesOf(a)' = Stick!MovesOf(a)
  BY DEF Stick!MovesOf
<1>2. Stick!Told' = Stick!Told /\ Stick!Presses' = Stick!Presses
  BY <1>1 DEF Stick!Told, Stick!Presses
<1>. QED
  BY <1>1, <1>2 DEF StickIInv, QueueInv

LEMMA QueueKept ==
  ASSUME StickIInv, UNCHANGED <<backend, plugged, stick, queue, pressed, behind, provider, recalls>>,
         pc = "ended" => pc' = "ended"
  PROVE  QueueInv' /\ FollowInv'
<1>1. \A a : Stick!MovesOf(a)' = Stick!MovesOf(a)
  BY DEF Stick!MovesOf
<1>2. Stick!Told' = Stick!Told
  BY <1>1 DEF Stick!Told
<1>3. \A a : Stick!AxisAfter(provider, a)' = Stick!AxisAfter(provider, a)
  BY <1>1, <1>2 DEF Stick!AxisAfter
<1>. QED
  BY <1>2, <1>3, QueueStays DEF StickIInv, FollowInv

(* A move that is queued ...                                                  *)
LEMMA DeflectQueued ==
  ASSUME StickIInv, UNCHANGED backend, NEW a \in StickAxes, Stick!Deflect(a),
         backend = "evdev", provider.of = plugged, Stick!Room
  PROVE  StickIInv'
<1>. DEFINE event == [axis |-> a, value |-> stick'[a]]
<1>. USE DEF Stick!Deflect, Stick!monitor, Stick!bridge
<1>1. queue' = Append(queue, event) /\ behind' = behind \ {a} /\ pressed' = pressed
  BY DEF Stick!Queue, Stick!Dropped, Stick!PressesLeft
<1>2. stick' = [stick EXCEPT ![a] = 1 - @] /\ stick' \in [StickAxes -> {0, 1}]
  BY DEF StickIInv, StickTypes
<1>3. event \in Event /\ event.axis = a /\ event.value = stick'[a]
  BY <1>2 DEF Event
<1>. HIDE DEF event
<1>4. queue \in Seq(Event) /\ queue' \in Seq(Event) /\ Len(queue) \in Nat /\ Len(queue') = Len(queue) + 1
  <2>1. queue \in Seq(Event)
    BY DEF StickIInv, StickTypes
  <2>. QED
    BY <1>1, <1>3, <2>1
<1>5. StickTypes'
  BY <1>1, <1>2, <1>4 DEF StickIInv, StickTypes
<1>6. HealthInv' /\ CycleInv'
  BY DEF StickIInv, HealthInv, CycleInv, Stick!LossNotRepeated, Stick!StillWhenLost
<1>7. /\ Stick!MovesOf(a)' = Stick!MovesOf(a) \cup {Len(queue) + 1}
      /\ Stick!Max(Stick!MovesOf(a)') = Len(queue) + 1
      /\ queue'[Len(queue) + 1] = event
  BY <1>1, <1>3, <1>4, OneMoreEvent
<1>8. \A b : b # a => Stick!MovesOf(b)' = Stick!MovesOf(b)
  BY <1>1, <1>3, <1>4, OneMoreEvent
<1>9. Stick!MovesOf("button")' = Stick!MovesOf("button")
  BY <1>8, StickAssumption
<1>11. Stick!Told' = Stick!Told \cup {a}
  BY <1>7, <1>8 DEF Stick!Told
<1>12. Stick!AxisAfter(provider, a)' = stick'[a]
  BY <1>3, <1>7, <1>11 DEF Stick!AxisAfter
<1>13. ASSUME NEW b \in StickAxes, b # a
       PROVE  /\ Stick!AxisAfter(provider, b)' = Stick!AxisAfter(provider, b) /\ stick'[b] = stick[b]
              /\ b \in Stick!Told => Stick!Max(Stick!MovesOf(b)') \in 1..Len(queue')
  <2>1. stick'[b] = stick[b]
    BY <1>2, <1>13 DEF StickIInv, StickTypes
  <2>2. Stick!MovesOf(b)' = Stick!MovesOf(b)
    BY <1>8, <1>13
  <2>3. b \in Stick!Told' <=> b \in Stick!Told
    BY <1>11, <1>13
  <2>4. b \in Stick!Told => Stick!Max(Stick!MovesOf(b)) \in 1..Len(queue)
    BY DEF StickIInv, QueueInv
  <2>5. b \in Stick!Told => queue'[Stick!Max(Stick!MovesOf(b))] = queue[Stick!Max(Stick!MovesOf(b))]
    BY <1>1, <1>3, <1>4, <2>4, OneMoreEvent
  <2>6. Stick!AxisAfter(provider, b)' = Stick!AxisAfter(provider, b)
    BY <2>2, <2>3, <2>5 DEF Stick!AxisAfter
  <2>7. b \in Stick!Told => Stick!Max(Stick!MovesOf(b)') \in 1..Len(queue')
    BY <1>4, <2>2, <2>4
  <2>. QED
    BY <2>1, <2>6, <2>7
<1>10. QueueInv'
  <2>1. Stick!Max(Stick!MovesOf(a)') \in 1..Len(queue')
    BY <1>4, <1>7
  <2>2. \A b \in Stick!Told' : Stick!Max(Stick!MovesOf(b)') \in 1..Len(queue')
    BY <1>11, <1>13, <2>1 DEF Stick!Told
  <2>. QED
    BY <1>1, <1>9, <2>2 DEF StickIInv, QueueInv, Stick!Presses
<1>14. FollowInv'
  BY <1>1, <1>11, <1>12, <1>13 DEF StickIInv, FollowInv, Stick!Told, StickTypes
<1>. QED
  BY <1>5, <1>6, <1>10, <1>14 DEF StickIInv

(* ... one at which the queue overflows: the axes of the dropped events are   *)
(* behind ...                                                                 *)
LEMMA DeflectOverflows ==
  ASSUME StickIInv, UNCHANGED backend, NEW a \in StickAxes, Stick!Deflect(a),
         backend = "evdev", provider.of = plugged, ~Stick!Room
  PROVE  StickIInv'
<1>. DEFINE event == [axis |-> a, value |-> stick'[a]]
<1>. USE DEF Stick!Deflect, Stick!monitor, Stick!bridge
<1>1. queue' = <<event>> /\ behind' = (behind \cup Stick!Told) \ {a} /\ pressed' = pressed - Stick!Presses
  BY DEF Stick!Queue, Stick!Dropped, Stick!PressesLeft
<1>2. stick' = [stick EXCEPT ![a] = 1 - @] /\ stick' \in [StickAxes -> {0, 1}]
  BY DEF StickIInv, StickTypes
<1>3. event \in Event /\ event.axis = a /\ event.value = stick'[a]
  BY <1>2 DEF Event
<1>. HIDE DEF event
<1>4. /\ \A b : Stick!MovesOf(b)' = IF b = a THEN {1} ELSE {}
      /\ Stick!Max({1}) = 1 /\ queue' \in Seq(Event) /\ Len(queue') = 1 /\ queue'[1] = event
  BY <1>1, <1>3, OnlyEvent
<1>5. Stick!Presses \in Nat
  BY MovesFinite, SameCardinality DEF StickIInv, StickTypes, Stick!Presses
<1>6. StickTypes'
  BY <1>1, <1>2, <1>4, <1>5 DEF StickIInv, StickTypes
<1>7. HealthInv' /\ CycleInv'
  BY DEF StickIInv, HealthInv, CycleInv, Stick!LossNotRepeated, Stick!StillWhenLost
<1>8. Stick!Told' = {a} /\ Stick!MovesOf("button")' = {}
  BY <1>4, StickAssumption DEF Stick!Told
<1>9. Stick!Presses' = 0
  BY <1>8, FS_EmptySet, SameCardinality DEF Stick!Presses
<1>10. QueueInv'
  <2>1. pc # "ended" /\ plugged # 0 => pressed = recalls + provider.events + Stick!Presses
    BY DEF StickIInv, QueueInv
  <2>2. pc' # "ended" => pressed' = recalls' + provider'.events + Stick!Presses'
    BY <1>1, <1>5, <1>9, <2>1 DEF StickIInv, StickTypes
  <2>3. \A b \in Stick!Told' : Stick!Max(Stick!MovesOf(b)') \in 1..Len(queue')
    <3>1. ASSUME NEW b \in Stick!Told' PROVE Stick!MovesOf(b)' = {1}
      BY <1>4, <1>8
    <3>2. Len(queue') = 1 /\ Stick!Max({1}) = 1
      BY <1>4
    <3>3. 1 \in 1..1
      OBVIOUS
    <3>. QED
      BY <3>1, <3>2, <3>3
  <2>4. plugged' # 0 /\ provider'.of = plugged' /\ backend' = "evdev"
    OBVIOUS
  <2>. QED
    BY <2>2, <2>3, <2>4 DEF QueueInv
<1>11. Stick!AxisAfter(provider, a)' = stick'[a]
  BY <1>3, <1>4, <1>8 DEF Stick!AxisAfter
<1>12. ASSUME NEW b \in provider.seen \ behind', b # a
       PROVE  Stick!AxisAfter(provider, b)' = stick'[b]
  <2>1. b \in StickAxes /\ b \in provider.seen \ behind /\ b \notin Stick!Told /\ b \notin Stick!Told'
    BY <1>1, <1>8, <1>12 DEF StickIInv, StickTypes
  <2>2. provider.axes[b] = stick[b]
    BY <2>1 DEF StickIInv, FollowInv, Stick!AxisAfter
  <2>3. stick'[b] = stick[b] /\ provider' = provider
    BY <1>2, <1>12, <2>1 DEF StickIInv, StickTypes
  <2>. QED
    BY <2>1, <2>2, <2>3 DEF Stick!AxisAfter
<1>13. FollowInv'
  BY <1>1, <1>8, <1>11, <1>12 DEF FollowInv
<1>. QED
  BY <1>6, <1>7, <1>10, <1>13 DEF StickIInv

(* ... and one that is not: nobody has opened the device, or pygame has.      *)
LEMMA DeflectUnqueued ==
  ASSUME StickIInv, UNCHANGED backend, NEW a \in StickAxes, Stick!Deflect(a),
         ~(backend = "evdev" /\ provider.of = plugged)
  PROVE  StickIInv'
<1>. USE DEF Stick!Deflect, Stick!monitor, Stick!bridge
<1>1. UNCHANGED <<queue, behind, pressed, pc, plugged, provider, recalls>>
  OBVIOUS
<1>2. stick' = [stick EXCEPT ![a] = 1 - @] /\ stick' \in [StickAxes -> {0, 1}]
  BY DEF StickIInv, StickTypes
<1>3. StickTypes'
  BY <1>1, <1>2 DEF StickIInv, StickTypes
<1>4. HealthInv' /\ CycleInv'
  BY DEF StickIInv, HealthInv, CycleInv, Stick!LossNotRepeated, Stick!StillWhenLost
<1>5. QueueInv'
  BY <1>1, QueueStays
<1>6. backend = "evdev" => Stick!Told' = {}
  BY <1>1 DEF StickIInv, QueueInv, Stick!Told, Stick!MovesOf
<1>7. FollowInv'
  BY <1>1, <1>6 DEF FollowInv
<1>. QED
  BY <1>3, <1>4, <1>5, <1>7 DEF StickIInv

LEMMA DeflectStep ==
  ASSUME StickIInv, UNCHANGED backend, NEW a \in StickAxes, Stick!Deflect(a)
  PROVE  StickIInv'
BY DeflectQueued, DeflectOverflows, DeflectUnqueued

(* A press that is queued, and one at which the queue overflows.              *)
LEMMA PressQueued ==
  ASSUME StickIInv, UNCHANGED backend, Stick!PressButton, Stick!Room
  PROVE  StickIInv'
<1>. USE DEF Stick!PressButton, Stick!monitor, Stick!bridge
<1>1. queue' = Append(queue, Stick!Press) /\ behind' = behind /\ pressed' = pressed + 1
  BY DEF Stick!Queue, Stick!Dropped, Stick!PressesLeft
<1>2. Stick!Press \in Event /\ Stick!Press.axis = "button"
  BY DEF Event, Stick!Press
<1>3. queue \in Seq(Event) /\ queue' \in Seq(Event) /\ Len(queue) \in Nat /\ Len(queue') = Len(queue) + 1
  <2>1. queue \in Seq(Event)
    BY DEF StickIInv, StickTypes
  <2>. QED
    BY <1>1, <1>2, <2>1
<1>4. StickTypes'
  BY <1>1, <1>3 DEF StickIInv, StickTypes
<1>5. HealthInv' /\ CycleInv'
  BY DEF StickIInv, HealthInv, CycleInv, Stick!LossNotRepeated, Stick!StillWhenLost
<1>6. Cardinality(Stick!MovesOf("button")') = Cardinality(Stick!MovesOf("button")) + 1
  BY <1>1, <1>2, <1>3, OneMoreEvent
<1>7. \A b \in StickAxes : Stick!MovesOf(b)' = Stick!MovesOf(b)
  BY <1>1, <1>2, <1>3, OneMoreEvent, StickAssumption
<1>8. QueueInv'
  <2>1. Stick!Presses' = Stick!Presses + 1 /\ Stick!Presses \in Nat
    BY <1>3, <1>6, MovesFinite, SameCardinality DEF Stick!Presses
  <2>2. pc # "ended" => pressed = recalls + provider.events + Stick!Presses
    BY DEF StickIInv, QueueInv
  <2>3. pc' # "ended" => pressed' = recalls' + provider'.events + Stick!Presses'
    <3>1. pressed \in Int /\ recalls \in Nat /\ provider.events \in Nat
      BY DEF StickIInv, StickTypes
    <3>2. pressed' = pressed + 1 /\ recalls' = recalls /\ provider' = provider /\ pc' = pc
      BY <1>1
    <3>3. SUFFICES ASSUME pc # "ended" PROVE pressed' = recalls + provider.events + (Stick!Presses + 1)
      BY <2>1, <3>2
    <3>4. pressed = recalls + provider.events + Stick!Presses
      BY <2>2, <3>3
    <3>. HIDE DEF Stick!PressButton, Stick!monitor, Stick!bridge
    <3>. QED
      BY <2>1, <3>1, <3>2, <3>4
  <2>4. \A b \in Stick!Told' : Stick!Max(Stick!MovesOf(b)') \in 1..Len(queue')
    <3>. SUFFICES ASSUME NEW b \in Stick!Told' PROVE Stick!Max(Stick!MovesOf(b)') \in 1..Len(queue')
      OBVIOUS
    <3>1. b \in StickAxes /\ Stick!MovesOf(b)' = Stick!MovesOf(b) /\ b \in Stick!Told
      BY <1>7 DEF Stick!Told
    <3>2. Stick!Max(Stick!MovesOf(b)) \in 1..Len(queue)
      BY <3>1 DEF StickIInv, QueueInv
    <3>. QED
      BY <1>3, <3>1, <3>2
  <2>5. provider'.of = plugged' /\ plugged' # 0
    OBVIOUS
  <2>. QED
    BY <2>3, <2>4, <2>5 DEF QueueInv
<1>9. Stick!Told' = Stick!Told
  BY <1>7 DEF Stick!Told
<1>10. ASSUME NEW b \in StickAxes PROVE Stick!AxisAfter(provider, b)' = Stick!AxisAfter(provider, b)
  <2>1. Stick!MovesOf(b)' = Stick!MovesOf(b)
    BY <1>7
  <2>2. CASE b \in Stick!Told
    <3>1. Stick!Max(Stick!MovesOf(b)) \in 1..Len(queue)
      BY <2>2 DEF StickIInv, QueueInv
    <3>2. queue'[Stick!Max(Stick!MovesOf(b))] = queue[Stick!Max(Stick!MovesOf(b))]
      BY <1>1, <1>2, <1>3, <3>1, OneMoreEvent
    <3>. QED
      BY <1>9, <2>1, <2>2, <3>2 DEF Stick!AxisAfter
  <2>3. CASE b \notin Stick!Told
    BY <1>9, <2>3 DEF Stick!AxisAfter
  <2>. QED
    BY <2>2, <2>3
<1>11. FollowInv'
  BY <1>1, <1>9, <1>10 DEF StickIInv, FollowInv, Stick!Told, StickTypes
<1>. QED
  BY <1>4, <1>5, <1>8, <1>11 DEF StickIInv

LEMMA PressOverflows ==
  ASSUME StickIInv, UNCHANGED backend, Stick!PressButton, ~Stick!Room
  PROVE  StickIInv'
<1>. USE DEF Stick!PressButton, Stick!monitor, Stick!bridge
<1>1. /\ queue' = <<Stick!Press>> /\ behind' = behind \cup Stick!Told
      /\ pressed' = pressed - Stick!Presses + 1
  BY DEF Stick!Queue, Stick!Dropped, Stick!PressesLeft
<1>2. Stick!Press \in Event /\ Stick!Press.axis = "button"
  BY DEF Event, Stick!Press
<1>3. /\ \A b : Stick!MovesOf(b)' = IF b = "button" THEN {1} ELSE {}
      /\ Cardinality({1}) = 1 /\ queue' \in Seq(Event)
  BY <1>1, <1>2, OnlyEvent
<1>4. Stick!Presses \in Nat
  BY MovesFinite, SameCardinality DEF StickIInv, StickTypes, Stick!Presses
<1>5. Stick!Presses' = 1 /\ Stick!Told' = {}
  BY <1>3, StickAssumption, SameCardinality DEF Stick!Presses, Stick!Told
<1>6. StickTypes'
  BY <1>1, <1>3, <1>4 DEF StickIInv, StickTypes
<1>7. HealthInv' /\ CycleInv'
  BY DEF StickIInv, HealthInv, CycleInv, Stick!LossNotRepeated, Stick!StillWhenLost
<1>8. QueueInv'
  <2>1. pc # "ended" => pressed = recalls + provider.events + Stick!Presses
    BY DEF StickIInv, QueueInv
  <2>2. pc' # "ended" => pressed' = recalls' + provider'.events + Stick!Presses'
    <3>1. pressed \in Int /\ recalls \in Nat /\ provider.events \in Nat
      BY DEF StickIInv, StickTypes
    <3>2. recalls' = recalls /\ provider' = provider /\ pc' = pc
      OBVIOUS
    <3>3. pressed' = pressed - Stick!Presses + 1
      BY <1>1
    <3>4. SUFFICES ASSUME pc # "ended" PROVE pressed' = recalls + provider.events + 1
      BY <1>5, <3>2
    <3>5. pressed = recalls + provider.events + Stick!Presses
      BY <2>1, <3>4
    <3>. HIDE DEF Stick!PressButton, Stick!monitor, Stick!bridge
    <3>. QED
      BY <1>4, <3>1, <3>3, <3>5
  <2>. QED
    BY <1>5, <2>2 DEF QueueInv
<1>9. ASSUME NEW b \in provider.seen \ behind'
      PROVE  provider.axes[b] = stick[b] \/ backend # "evdev"
  BY <1>1, <1>9 DEF StickIInv, FollowInv, Stick!AxisAfter
<1>10. FollowInv'
  BY <1>5, <1>9 DEF FollowInv, Stick!AxisAfter
<1>. QED
  BY <1>6, <1>7, <1>8, <1>10 DEF StickIInv

LEMMA PressStep ==
  ASSUME StickIInv, UNCHANGED backend, Stick!PressButton
  PROVE  StickIInv'
BY PressQueued, PressOverflows

------------------------------------------------------------------------------
(* The steps of the loop.                                                     *)

(* A snapshot is not the absence of one.                                      *)
LEMMA SnapshotIsNone ==
  ASSUME NEW s \in [StickAxes -> {0, 1}]
  PROVE  s # Stick!NoSnapshot
BY StickAssumption DEF Stick!NoSnapshot

LEMMA NoProviderType ==
  /\ Stick!NoProvider \in [of : {0}, axes : [StickAxes -> {0, 1}], events : Nat, seen : SUBSET StickAxes]
  /\ Stick!NoProvider.of = 0 /\ Stick!NoProvider.seen = {}
BY DEF Stick!NoProvider, Stick!Fresh

(* A disconnection is not announced twice in a row.                           *)
LEMMA LossMarked ==
  ASSUME StickIInv, Stick!MarkDisconnected
  PROVE  /\ health' = [state |-> "disconnected", of |-> 0]
         /\ announced'.last = "disconnected" /\ Stick!LossNotRepeated'
<1>1. CASE health.state # "disconnected"
  BY <1>1 DEF StickIInv, HealthInv, Stick!MarkDisconnected, Stick!Announce, Stick!LossNotRepeated
<1>2. CASE health.state = "disconnected"
  BY <1>2 DEF StickIInv, HealthInv, Stick!MarkDisconnected, Stick!LossNotRepeated
<1>. QED
  BY <1>1, <1>2

(* The provider has gone through the queue.                                   *)
LEMMA QueueIsRead ==
  ASSUME StickIInv, UNCHANGED <<backend, plugged, stick, behind>>, queue' = <<>>, provider.of = plugged,
         /\ provider'.of = provider.of /\ provider'.seen = Stick!Polled(provider).seen
         /\ provider'.axes = Stick!Polled(provider).axes
  PROVE  FollowInv'
<1>. SUFFICES ASSUME backend = "evdev" PROVE FollowInv'
  BY DEF FollowInv
<1>1. Stick!Told' = {}
  BY QueueRead
<1>2. provider'.seen = provider.seen \cup Stick!Told
  BY PolledMeans DEF StickIInv, StickTypes
<1>3. \A a \in StickAxes : provider'.axes[a] = Stick!AxisAfter(provider, a)
  BY PolledMeans DEF StickIInv, StickTypes
<1>4. \A a \in (provider.seen \cup Stick!Told) \ behind :
        Stick!AxisAfter(provider, a) = stick[a] /\ a \in StickAxes
  BY DEF StickIInv, FollowInv, StickTypes, Stick!Told
<1>5. \A a : Stick!AxisAfter(provider, a)' = provider'.axes[a]
  BY <1>1 DEF Stick!AxisAfter
<1>. QED
  BY <1>1, <1>2, <1>3, <1>4, <1>5 DEF FollowInv

LEMMA ReadStep ==
  ASSUME StickIInv, UNCHANGED backend, Stick!Read
  PROVE  StickIInv'
<1>. USE DEF Stick!Read
<1>1. CASE Stick!Lost
  <2>1. /\ provider' = Stick!NoProvider /\ Stick!MarkDisconnected /\ snapshot' = Stick!NoSnapshot
        /\ queue' = queue /\ pc' = "bridge"
    BY <1>1 DEF Stick!ProviderAfterLoss
  <2>2. provider'.of = 0 /\ provider'.seen = {}
    BY <2>1, NoProviderType
  <2>3. health' = [state |-> "disconnected", of |-> 0] /\ announced'.last = "disconnected" /\ Stick!LossNotRepeated'
    BY <2>1, LossMarked
  <2>4. StickTypes'
    BY <2>1, <2>3, NoProviderType DEF StickIInv, StickTypes
  <2>5. HealthInv'
    BY <2>1, <2>2, <2>3 DEF HealthInv
  <2>6. CycleInv'
    BY <2>1, <2>3 DEF StickIInv, CycleInv, Stick!StillWhenLost
  <2>7. queue = <<>>
    BY <1>1 DEF StickIInv, QueueInv, Stick!Lost
  <2>8. Stick!Told' = Stick!Told /\ \A a : Stick!MovesOf(a)' = Stick!MovesOf(a)
    BY <2>1 DEF Stick!Told, Stick!MovesOf
  <2>9. QueueInv'
    BY <2>1, <2>2, <2>7, <2>8 DEF StickIInv, QueueInv
  <2>10. \A a \in Stick!Told : Stick!AxisAfter(provider, a)' = Stick!AxisAfter(provider, a)
    BY <2>1, <2>8 DEF Stick!AxisAfter
  <2>11. FollowInv'
    BY <2>2, <2>8, <2>10 DEF StickIInv, FollowInv
  <2>. QED
    BY <2>4, <2>5, <2>6, <2>9, <2>11 DEF StickIInv
<1>2. CASE ~Stick!Lost
  <2>1. /\ provider' = Stick!Polled(provider) /\ queue' = <<>> /\ snapshot' = provider'.axes
        /\ pc' = "bridge" /\ UNCHANGED <<health, announced>> /\ provider.of = plugged
    BY <1>2 DEF Stick!Lost
  <2>2. /\ provider' \in [of : 0..counts.plugs, axes : [StickAxes -> {0, 1}], events : Nat, seen : SUBSET StickAxes]
        /\ provider'.of = provider.of /\ provider'.events = provider.events + Stick!Presses
    BY <2>1, PolledMeans DEF StickIInv, StickTypes
  <2>3. provider.of # 0
    BY DEF StickIInv, HealthInv
  <2>4. StickTypes'
    BY <2>1, <2>2 DEF StickIInv, StickTypes, Event
  <2>5. HealthInv'
    BY <2>1, <2>2, <2>3 DEF StickIInv, HealthInv, Stick!LossNotRepeated
  <2>6. snapshot' # Stick!NoSnapshot
    BY <2>1, <2>2, SnapshotIsNone
  <2>7. CycleInv'
    BY <2>1, <2>3, <2>6 DEF StickIInv, HealthInv, CycleInv, Stick!StillWhenLost
  <2>8. (\A a : Stick!MovesOf(a)' = {}) /\ Stick!Presses' = 0 /\ Stick!Told' = {}
    BY <2>1, QueueRead
  <2>9. pressed' = recalls' + provider'.events + Stick!Presses'
    <3>1. pressed = recalls + provider.events + Stick!Presses
      BY <2>1, <2>3 DEF StickIInv, QueueInv
    <3>2. Stick!Presses \in Nat
      BY MovesFinite, SameCardinality DEF StickIInv, StickTypes, Stick!Presses
    <3>. QED
      BY <2>2, <2>8, <3>1, <3>2 DEF StickIInv, StickTypes
  <2>10. QueueInv'
    BY <2>1, <2>8, <2>9 DEF QueueInv
  <2>11. FollowInv'
    BY <2>1, <2>2, QueueIsRead
  <2>. QED
    BY <2>4, <2>5, <2>7, <2>10, <2>11 DEF StickIInv
<1>. QED
  BY <1>1, <1>2

LEMMA DiscoverStep ==
  ASSUME StickIInv, UNCHANGED backend, Stick!Discover
  PROVE  StickIInv'
<1>. USE DEF Stick!Discover, Stick!Discovered, Stick!device
<1>1. QueueInv' /\ FollowInv'
  BY QueueKept
<1>2. provider.of = 0 /\ provider' = provider
  BY NoProviderType
<1>3. CASE plugged = 0
  <2>1. pc' = "bridge" /\ snapshot' = Stick!NoSnapshot /\ Stick!MarkDisconnected
    BY <1>3
  <2>2. health' = [state |-> "disconnected", of |-> 0] /\ announced'.last = "disconnected" /\ Stick!LossNotRepeated'
    BY <2>1, LossMarked
  <2>3. StickTypes' /\ HealthInv' /\ CycleInv'
    BY <1>2, <2>1, <2>2 DEF StickIInv, StickTypes, HealthInv, CycleInv, Stick!StillWhenLost
  <2>. QED
    BY <1>1, <2>3 DEF StickIInv
<1>4. CASE plugged # 0
  <2>1. pc' = "open" /\ UNCHANGED <<health, announced, snapshot>>
    BY <1>4
  <2>2. StickTypes' /\ HealthInv' /\ CycleInv'
    BY <1>2, <1>4, <2>1 DEF StickIInv, StickTypes, HealthInv, CycleInv, Stick!StillWhenLost, Stick!LossNotRepeated
  <2>. QED
    BY <1>1, <2>2 DEF StickIInv
<1>. QED
  BY <1>3, <1>4

LEMMA OpenStep ==
  ASSUME StickIInv, UNCHANGED backend, Stick!Open
  PROVE  StickIInv'
<1>. USE DEF Stick!Open
<1>. DEFINE fresh == Stick!Fresh(found)
<1>1. found = plugged /\ found # 0 /\ provider.of = 0
  BY DEF StickIInv, HealthInv
<1>2. /\ fresh \in [of : 0..counts.plugs, axes : [StickAxes -> {0, 1}], events : Nat, seen : SUBSET StickAxes]
      /\ fresh.of = found /\ fresh.events = 0 /\ fresh.seen = {}
  BY <1>1 DEF StickIInv, StickTypes, Stick!Fresh
<1>3. provider' = Stick!Polled(fresh)
  OBVIOUS
<1>. HIDE DEF fresh
<1>4. /\ provider' \in [of : 0..counts.plugs, axes : [StickAxes -> {0, 1}], events : Nat, seen : SUBSET StickAxes]
      /\ provider'.of = found /\ provider'.events = 0 + Stick!Presses
  BY <1>2, <1>3, PolledMeans DEF StickIInv, StickTypes
<1>5. queue = <<>>
  BY <1>1 DEF StickIInv, QueueInv
<1>14. Stick!MovesOf("button") = {}
  BY <1>5 DEF Stick!MovesOf
<1>6. Stick!Presses = 0
  BY <1>14, FS_EmptySet, SameCardinality DEF Stick!Presses
<1>7. health' = [state |-> "connected", of |-> found] /\ announced'.last = "connected"
  BY DEF Stick!Announce
<1>8. StickTypes'
  BY <1>4, <1>7 DEF StickIInv, StickTypes, Event
<1>9. HealthInv'
  BY <1>1, <1>4, <1>7 DEF HealthInv, Stick!LossNotRepeated
<1>10. CycleInv'
  BY DEF StickIInv, CycleInv, Stick!StillWhenLost
<1>11. (\A a : Stick!MovesOf(a)' = {}) /\ Stick!Presses' = 0 /\ Stick!Told' = {}
  BY QueueRead
<1>12. QueueInv'
  BY <1>4, <1>6, <1>11 DEF QueueInv
<1>13. FollowInv'
  <2>1. backend = "evdev" => provider'.seen = {}
    <3>1. StickTypes /\ FollowInv /\ Stick!Told = {}
      BY <1>5 DEF StickIInv, Stick!Told, Stick!MovesOf
    <3>2. backend = "evdev" => Stick!Polled(fresh).seen = fresh.seen \cup Stick!Told
      BY <1>2, <3>1, PolledMeans
    <3>. QED
      BY <1>2, <1>3, <3>1, <3>2
  <2>. QED
    BY <1>11, <2>1 DEF FollowInv
<1>. QED
  BY <1>8, <1>9, <1>10, <1>12, <1>13 DEF StickIInv

LEMMA OpenFailsStep ==
  ASSUME StickIInv, UNCHANGED backend, Stick!OpenFails
  PROVE  StickIInv'
<1>. USE DEF Stick!OpenFails
<1>1. QueueInv' /\ FollowInv'
  BY QueueKept
<1>2. provider.of = 0 /\ health' = [state |-> "error", of |-> 0] /\ announced'.last = "error"
  BY DEF StickIInv, HealthInv, Stick!Announce
<1>3. counts' \in [plugs : Nat, failures : Nat] /\ counts'.plugs = counts.plugs
  BY DEF StickIInv, StickTypes
<1>4. StickTypes'
  BY <1>2, <1>3 DEF StickIInv, StickTypes
<1>5. HealthInv' /\ CycleInv'
  BY <1>2 DEF StickIInv, HealthInv, CycleInv, Stick!StillWhenLost, Stick!LossNotRepeated
<1>. QED
  BY <1>1, <1>4, <1>5 DEF StickIInv

LEMMA SafeStopStep ==
  ASSUME StickIInv, UNCHANGED backend, Stick!SafeStop
  PROVE  StickIInv'
<1>. USE DEF Stick!SafeStop, Stick!JustLost, Stick!device, Stick!monitor
<1>1. QueueInv' /\ FollowInv'
  BY QueueKept
<1>2. StickTypes'
  BY DEF StickIInv, StickTypes
<1>3. HealthInv' /\ CycleInv'
  BY DEF StickIInv, HealthInv, CycleInv, Stick!StillWhenLost, Stick!LossNotRepeated
<1>. QED
  BY <1>1, <1>2, <1>3 DEF StickIInv

LEMMA ButtonsStep ==
  ASSUME StickIInv, UNCHANGED backend, Stick!Buttons
  PROVE  StickIInv'
<1>. USE DEF Stick!Buttons
<1>1. CASE provider = Stick!NoProvider
  <2>1. UNCHANGED <<provider, queue, recalls>>
    BY <1>1
  <2>2. QueueInv' /\ FollowInv'
    BY <2>1, QueueKept
  <2>3. StickTypes' /\ HealthInv' /\ CycleInv'
    BY <2>1 DEF StickIInv, StickTypes, HealthInv, CycleInv, Stick!StillWhenLost, Stick!LossNotRepeated
  <2>. QED
    BY <2>2, <2>3 DEF StickIInv
<1>2. CASE provider # Stick!NoProvider
  <2>. DEFINE polled == Stick!Polled(provider)
  <2>1. /\ recalls' = recalls + polled.events /\ provider' = [polled EXCEPT !.events = 0]
        /\ queue' = <<>> /\ provider.of = plugged
    BY <1>2 DEF Stick!Taken, Stick!Lost
  <2>2. /\ polled \in [of : 0..counts.plugs, axes : [StickAxes -> {0, 1}], events : Nat, seen : SUBSET StickAxes]
        /\ polled.of = provider.of /\ polled.events = provider.events + Stick!Presses
    BY PolledMeans DEF StickIInv, StickTypes
  <2>. HIDE DEF polled
  <2>3. /\ provider' \in [of : 0..counts.plugs, axes : [StickAxes -> {0, 1}], events : Nat, seen : SUBSET StickAxes]
        /\ provider'.of = provider.of /\ provider'.events = 0
        /\ provider'.seen = polled.seen /\ provider'.axes = polled.axes
    BY <2>1, <2>2
  <2>4. provider.of # 0
    BY <1>2 DEF StickIInv, HealthInv
  <2>5. StickTypes'
    <3>1. recalls' \in Nat
      BY <2>1, <2>2 DEF StickIInv, StickTypes
    <3>2. queue' \in Seq(Event)
      BY <2>1
    <3>. QED
      BY <2>3, <3>1, <3>2 DEF StickIInv, StickTypes
  <2>6. HealthInv' /\ CycleInv'
    BY <2>3, <2>4 DEF StickIInv, HealthInv, CycleInv, Stick!StillWhenLost, Stick!LossNotRepeated
  <2>7. (\A a : Stick!MovesOf(a)' = {}) /\ Stick!Presses' = 0 /\ Stick!Told' = {}
    BY <2>1, QueueRead
  <2>8. pressed' = recalls' + provider'.events + Stick!Presses'
    <3>1. pressed = recalls + provider.events + Stick!Presses
      BY <2>1, <2>4 DEF StickIInv, QueueInv
    <3>2. Stick!Presses \in Nat
      BY MovesFinite, SameCardinality DEF StickIInv, StickTypes, Stick!Presses
    <3>3. recalls \in Nat /\ provider.events \in Nat
      BY DEF StickIInv, StickTypes
    <3>4. recalls' = recalls + (provider.events + Stick!Presses) /\ pressed' = pressed
      BY <2>1, <2>2
    <3>5. SUFFICES pressed' = recalls'
      BY <2>2, <2>3, <2>7, <3>2, <3>3, <3>4
    <3>. QED
      BY <3>1, <3>2, <3>3, <3>4
  <2>9. QueueInv'
    BY <2>1, <2>7, <2>8 DEF QueueInv
  <2>10. FollowInv'
    BY <2>1, <2>3, QueueIsRead DEF polled
  <2>. QED
    BY <2>5, <2>6, <2>9, <2>10 DEF StickIInv
<1>. QED
  BY <1>1, <1>2

LEMMA ButtonsRaiseStep ==
  ASSUME StickIInv, UNCHANGED backend, Stick!ButtonsRaise
  PROVE  StickIInv'
<1>. USE DEF Stick!ButtonsRaise
<1>1. CASE Stick!Lost
  <2>1. UNCHANGED <<provider, queue, recalls>>
    BY <1>1
  <2>2. QueueInv' /\ FollowInv'
    BY <2>1, QueueKept
  <2>3. StickTypes' /\ HealthInv' /\ CycleInv'
    BY <2>1 DEF StickIInv, StickTypes, HealthInv, CycleInv, Stick!StillWhenLost, Stick!LossNotRepeated
  <2>. QED
    BY <2>2, <2>3 DEF StickIInv
<1>2. CASE ~Stick!Lost
  <2>. DEFINE polled == Stick!Polled(provider)
  <2>1. PICK carried \in 0..(polled.events - 1) :
          /\ recalls' = recalls + carried /\ provider' = [polled EXCEPT !.events = 0]
          /\ queue' = <<>> /\ provider.of = plugged
    BY <1>2 DEF Stick!Taken, Stick!Lost
  <2>2. /\ polled \in [of : 0..counts.plugs, axes : [StickAxes -> {0, 1}], events : Nat, seen : SUBSET StickAxes]
        /\ polled.of = provider.of
    BY PolledMeans DEF StickIInv, StickTypes
  <2>. HIDE DEF polled
  <2>3. /\ provider' \in [of : 0..counts.plugs, axes : [StickAxes -> {0, 1}], events : Nat, seen : SUBSET StickAxes]
        /\ provider'.of = provider.of /\ provider'.seen = polled.seen /\ provider'.axes = polled.axes
    BY <2>1, <2>2
  <2>4. provider.of # 0
    BY DEF StickIInv, HealthInv
  <2>5. StickTypes'
    <3>1. recalls' \in Nat
      BY <2>1, <2>2 DEF StickIInv, StickTypes
    <3>2. queue' \in Seq(Event)
      BY <2>1
    <3>. QED
      BY <2>3, <3>1, <3>2 DEF StickIInv, StickTypes
  <2>6. HealthInv' /\ CycleInv'
    BY <2>3, <2>4 DEF StickIInv, HealthInv, CycleInv, Stick!StillWhenLost, Stick!LossNotRepeated
  <2>7. Stick!Told' = {}
    BY <2>1, QueueRead
  <2>8. QueueInv'
    BY <2>1, <2>7 DEF QueueInv
  <2>9. FollowInv'
    BY <2>1, <2>3, QueueIsRead DEF polled
  <2>. QED
    BY <2>5, <2>6, <2>8, <2>9 DEF StickIInv
<1>. QED
  BY <1>1, <1>2

LEMMA RouteStep ==
  ASSUME StickIInv, UNCHANGED backend, Stick!Route
  PROVE  StickIInv'
<1>. USE DEF Stick!Route, Stick!device, Stick!monitor
<1>1. QueueInv' /\ FollowInv'
  BY QueueKept
<1>2. StickTypes' /\ HealthInv'
  BY DEF StickIInv, StickTypes, HealthInv, Stick!LossNotRepeated
<1>3. CycleInv'
  BY DEF StickIInv, CycleInv, Stick!StillWhenLost
<1>. QED
  BY <1>1, <1>2, <1>3 DEF StickIInv

------------------------------------------------------------------------------
LEMMA StickStepInv ==
  ASSUME StickIInv, [MCNext]_mcVars
  PROVE  StickIInv'
<1>1. CASE UNCHANGED stickVars
  <2>1. QueueInv' /\ FollowInv'
    BY <1>1, QueueKept DEF stickVars
  <2>2. StickTypes' /\ HealthInv'
    BY <1>1 DEF stickVars, StickIInv, StickTypes, HealthInv, Stick!LossNotRepeated
  <2>3. CycleInv'
    BY <1>1 DEF stickVars, StickIInv, CycleInv, Stick!StillWhenLost
  <2>. QED
    BY <2>1, <2>2, <2>3 DEF StickIInv
<1>2. CASE Stick!Operator
  <2>1. UNCHANGED backend
    BY <1>2 DEF Stick!Operator
  <2>2. CASE Stick!Plug
    BY <2>1, <2>2, PlugStep
  <2>3. CASE Stick!Unplug
    BY <2>1, <2>3, UnplugStep
  <2>4. CASE Stick!PressButton
    BY <2>1, <2>4, PressStep
  <2>5. ASSUME NEW a \in StickAxes, Stick!Deflect(a) PROVE StickIInv'
    BY <2>1, <2>5, DeflectStep
  <2>. QED
    BY <1>2, <2>2, <2>3, <2>4, <2>5 DEF Stick!Operator
<1>3. CASE Stick!Loop
  <2>1. UNCHANGED backend
    BY <1>3 DEF Stick!Loop
  <2>. QED
    BY <1>3, <2>1, ReadStep, DiscoverStep, OpenStep, OpenFailsStep, SafeStopStep, ButtonsStep,
       ButtonsRaiseStep, RouteStep DEF Stick!Loop
<1>4. CASE UNCHANGED Stick!vars
  BY <1>1, <1>4 DEF Stick!vars, Stick!device, Stick!monitor, Stick!bridge, stickVars
<1>. QED
  BY <1>1, <1>2, <1>3, <1>4 DEF MCNext, Stick!Next, mcVars

LEMMA StickInit == MCInit => StickIInv
<1>. SUFFICES ASSUME MCInit PROVE StickIInv
  OBVIOUS
<1>. USE DEF MCInit, Stick!Init
<1>1. StickTypes
  <2>1. counts \in [plugs : Nat, failures : Nat] /\ counts.plugs = 0 /\ provider.of = 0
    BY NoProviderType
  <2>2. backend \in Backends /\ counts.plugs <= MaxPlugs[backend]
    BY <2>1, StickAssumption DEF Backends
  <2>3. provider \in [of : 0..counts.plugs, axes : [StickAxes -> {0, 1}], events : Nat, seen : SUBSET StickAxes]
    BY <2>1, NoProviderType
  <2>4. stick \in [StickAxes -> {0, 1}] /\ queue \in Seq(Event)
    OBVIOUS
  <2>5. health \in [state : {"connected", "disconnected", "error"}, of : Nat]
    OBVIOUS
  <2>6. plugged \in 0..counts.plugs /\ found \in Nat /\ pressed \in Int /\ recalls \in Nat
    BY <2>1
  <2>7. wasConnected \in BOOLEAN
    BY Zenon
  <2>8. pc = "poll" /\ snapshot = Stick!NoSnapshot
    OBVIOUS
  <2>. HIDE DEF MCInit, Stick!Init
  <2>. QED
    BY <2>1, <2>2, <2>3, <2>4, <2>5, <2>6, <2>7, <2>8 DEF StickTypes
<1>2. HealthInv
  BY NoProviderType DEF HealthInv, Stick!LossNotRepeated
<1>3. CycleInv
  BY DEF CycleInv, Stick!StillWhenLost
<1>4. (\A a : Stick!MovesOf(a) = {}) /\ Stick!Told = {}
  BY DEF Stick!MovesOf, Stick!Told
<1>5. QueueInv /\ FollowInv
  BY <1>4, NoProviderType DEF QueueInv, FollowInv
<1>. QED
  BY <1>1, <1>2, <1>3, <1>5 DEF StickIInv

(* The stick of the cycle is the one on the desk: no camera moves for a stick *)
(* that is gone or released, no press is lost or made twice while the loop    *)
(* runs unless an overflow drops it, a disconnection is not announced twice   *)
(* in a row, and what evdev was told of an axis is where it is, unless an     *)
(* overflow dropped its last move.  For any axes, length of the queue, number *)
(* of plugs, failed openings and presses.                                     *)
THEOREM StickIsFollowed == MCSpec => []StickInv
<1>1. MCInit => StickIInv
  BY StickInit
<1>2. StickIInv /\ [MCNext]_mcVars => StickIInv'
  BY StickStepInv
<1>3. StickIInv => StickInv
  <2>. SUFFICES ASSUME StickIInv PROVE StickInv
    OBVIOUS
  <2>1. Stick!TypeOK
    <3>1. counts.plugs \in Nat /\ MaxPlugs[backend] \in Nat /\ counts.plugs <= MaxPlugs[backend]
      BY StickAssumption DEF StickIInv, StickTypes, Backends
    <3>. QED
      BY <3>1, NoProviderType DEF StickIInv, StickTypes, HealthInv, Stick!TypeOK
  <2>2. Stick!StillWhenLost /\ Stick!LossNotRepeated
    BY DEF StickIInv, CycleInv, HealthInv
  <2>3. Stick!PressesKept
    BY DEF StickIInv, QueueInv, Stick!PressesKept
  <2>4. backend = "evdev" => Stick!FollowsStick
    <3>. SUFFICES ASSUME backend = "evdev", provider.of = plugged, queue = <<>>, NEW a \in provider.seen \ behind
                  PROVE  provider.axes[a] = stick[a]
      BY DEF Stick!FollowsStick
    <3>1. a \notin Stick!Told
      BY DEF Stick!Told, Stick!MovesOf
    <3>. QED
      BY <3>1 DEF StickIInv, FollowInv, Stick!AxisAfter
  <2>. QED
    BY <2>1, <2>2, <2>3, <2>4 DEF StickInv, Stick!StickInv
<1>. QED
  BY <1>1, <1>2, <1>3, PTL DEF MCSpec
==============================================================================
