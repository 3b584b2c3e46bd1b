---------------------- MODULE ScheduleTriggerController ----------------------
(***************************************************************************)
(* The reconciler of ScheduleTrigger resources                             *)
(* (controllers/planner/scheduletrigger_controller.go).  A trigger with    *)
(* the quiet-time label gets a timer and a goroutine that waits for it and *)
(* then moves the trigger from Planning to Schedule.                       *)
(*                                                                         *)
(* Three kinds of processes interleave: one reconcile worker (the default  *)
(* MaxConcurrentReconciles), one goroutine for each timer, and the users   *)
(* of the API server.  The worker and the goroutines read triggers from    *)
(* the manager's informer cache, which lags behind the API server.         *)
(*                                                                         *)
(* The worker holds the mutex while it is blocked on the unbuffered        *)
(* timerQuit channel; its other critical sections do not block, and are    *)
(* one step each.                                                          *)
(***************************************************************************)
EXTENDS Naturals

CONSTANTS Keys,        \* the names of triggers
          Refs,        \* the triggerReferences (timer, quit channel, goroutine)
          NoRef,       \* no triggerReference
          Durations,   \* the quiet times that parse
          NoLabel,     \* the trigger has no quiet-time label, or an empty one
          BadLabel,    \* the label does not parse as a duration
          ApiFaults,   \* may an update of a trigger fail without a conflict?
          MaxEdits,    \* bound: users edit a trigger up to this version
          MaxCrashes   \* bound: the manager restarts this often

ASSUME ControllerAssumption ==
  /\ Keys # {} /\ NoRef \notin Refs
  /\ NoLabel \notin Durations /\ BadLabel \notin Durations /\ NoLabel # BadLabel
  /\ ApiFaults \in BOOLEAN
  /\ MaxEdits \in Nat /\ MaxCrashes \in Nat

VARIABLES trigger,             \* the ScheduleTriggers in the API server
          cache,               \* the manager's informer cache of them
          queue,               \* the workqueue of the controller
          worker,              \* the reconcile worker: its step, key and trigger
          scheduleTriggerMap,  \* the triggerReference of each trigger
          duration,            \* duration[r]: the duration of reference r
          armed,               \* armed[r]: its timer is running
          tick,                \* tick[r]: its timer's channel holds an expiry
          goroutine,           \* goroutine[r]: where its quietTimer is
          owner,               \* owner[r]: the trigger its quietTimer is for
          seen,                \* seen[r]: the trigger it is about to update
          crashes              \* how often the manager was restarted

timerVars == <<duration, armed, tick>>
routineVars == <<goroutine, owner, seen>>
vars == <<trigger, cache, queue, worker, scheduleTriggerMap, timerVars, routineVars, crashes>>

Labels == Durations \cup {NoLabel, BadLabel}

\* A deleted trigger keeps its version: a new one continues from there.
Triggers == [exists : BOOLEAN, state : {"Planning", "Schedule"},
             quiet : Labels, version : Nat]
Absent(v) == [exists |-> FALSE, state |-> "Planning", quiet |-> NoLabel, version |-> v]

TypeOK ==
  /\ trigger \in [Keys -> Triggers]
  /\ cache \in [Keys -> Triggers]
  /\ queue \in SUBSET Keys
  /\ worker \in [step : {"idle", "delete", "allocate", "quit"}, key : Keys, seen : Triggers]
  /\ scheduleTriggerMap \in [Keys -> Refs \cup {NoRef}]
  /\ duration \in [Refs -> Durations \cup {NoLabel}]
  /\ armed \in [Refs -> BOOLEAN]
  /\ tick \in [Refs -> BOOLEAN]
  /\ goroutine \in [Refs -> {"none", "select", "get", "update"}]
  /\ owner \in [Refs -> Keys]
  /\ seen \in [Refs -> Triggers]
  /\ crashes \in Nat

AnyKey == CHOOSE k \in Keys : TRUE
IdleWorker == [step |-> "idle", key |-> AnyKey, seen |-> Absent(0)]

\* SetupWithManager: a manager that starts, with nothing in memory.
Init ==
  /\ trigger = [k \in Keys |-> Absent(0)]
  /\ crashes = 0
  /\ cache = [k \in Keys |-> Absent(0)]
  /\ queue = {}
  /\ worker = IdleWorker
  /\ scheduleTriggerMap = [k \in Keys |-> NoRef]
  /\ duration = [r \in Refs |-> NoLabel]
  /\ armed = [r \in Refs |-> FALSE]
  /\ tick = [r \in Refs |-> FALSE]
  /\ goroutine = [r \in Refs |-> "none"]
  /\ owner = [r \in Refs |-> AnyKey]
  /\ seen = [r \in Refs |-> Absent(0)]

controllerVars == <<cache, queue, worker, scheduleTriggerMap, timerVars, routineVars, crashes>>

-----------------------------------------------------------------------------
(* The users of the API server, and the informer that follows them.        *)

\* A user creates the trigger, or sets its state, its label or anything else.
Apply(k, s, q) ==
  /\ trigger[k].version < MaxEdits
  /\ trigger' = [trigger EXCEPT ![k] =
                   [exists |-> TRUE, state |-> s, quiet |-> q, version |-> @.version + 1]]
  /\ UNCHANGED controllerVars

DeleteTrigger(k) ==
  /\ trigger[k].exists
  /\ trigger[k].version < MaxEdits
  /\ trigger' = [trigger EXCEPT ![k] = Absent(@.version + 1)]
  /\ UNCHANGED controllerVars

\* The watch brings the cache up to date and enqueues the trigger.  Events that
\* the watch missed are skipped over.
CacheSync(k) ==
  /\ cache[k] # trigger[k]
  /\ cache' = [cache EXCEPT ![k] = trigger[k]]
  /\ queue' = IF cache[k].exists \/ trigger[k].exists THEN queue \cup {k} ELSE queue
  /\ UNCHANGED <<trigger, worker, scheduleTriggerMap, timerVars, routineVars, crashes>>

\* The periodic resync of the informer enqueues every trigger it has.
Resync(k) ==
  /\ cache[k].exists
  /\ k \notin queue
  /\ queue' = queue \cup {k}
  /\ UNCHANGED <<trigger, cache, worker, scheduleTriggerMap, timerVars, routineVars,
                 crashes>>

-----------------------------------------------------------------------------
(* The timers.                                                             *)

\* Timer.Reset leaves an expiry that is already in the channel where it is.
Reset(r, d) ==
  /\ duration' = [duration EXCEPT ![r] = d]
  /\ armed' = [armed EXCEPT ![r] = TRUE]
  /\ UNCHANGED <<tick, routineVars>>

\* The timer sends its expiry into the channel, which holds one.
TimerFires(r) ==
  /\ armed[r]
  /\ armed' = [armed EXCEPT ![r] = FALSE]
  /\ tick' = [tick EXCEPT ![r] = TRUE]
  /\ UNCHANGED <<trigger, cache, queue, worker, scheduleTriggerMap, duration, routineVars, crashes>>

\* The mutex is free unless the worker is blocked in a send to timerQuit.
MutexFree == worker.step # "quit"

-----------------------------------------------------------------------------
(* quietTimer and transitionToSchedule: the goroutine of a timer.          *)

\* case <-ref.timer.C
TickReceived(r) ==
  /\ goroutine[r] = "select"
  /\ tick[r]
  /\ tick' = [tick EXCEPT ![r] = FALSE]
  /\ goroutine' = [goroutine EXCEPT ![r] = "get"]
  /\ UNCHANGED <<trigger, cache, queue, worker, scheduleTriggerMap, duration, armed, owner,
                 seen, crashes>>

\* What transitionToSchedule leaves alone until it writes the trigger.
ReadOnly == UNCHANGED <<trigger, cache, queue, worker, scheduleTriggerMap, timerVars, owner, crashes>>

\* Get the trigger; without one, or when it is in Schedule, there is no more to do.
ReadTrigger(r) ==
  LET t == cache[owner[r]]
  IN  IF t.exists /\ t.state = "Planning"
        THEN /\ goroutine' = [goroutine EXCEPT ![r] = "update"]
             /\ seen' = [seen EXCEPT ![r] = t]
        ELSE /\ goroutine' = [goroutine EXCEPT ![r] = "select"]
             /\ UNCHANGED seen

\* Mutant: transitionToSchedule takes the reconciler's mutex.
TransitionGetLocked(r) == goroutine[r] = "get" /\ MutexFree /\ ReadTrigger(r) /\ ReadOnly

TransitionGet(r) == goroutine[r] = "get" /\ ReadTrigger(r) /\ ReadOnly

\* The API server accepts the update of the trigger that was read.
UpdateAccepted(r) ==
  trigger[owner[r]].exists /\ trigger[owner[r]].version = seen[r].version

\* Mutant: after a conflict the old copy is sent again with the current version.
TransitionUpdateRetries(r) ==
  /\ goroutine[r] = "update"
  /\ trigger[owner[r]].exists
  /\ trigger' = [trigger EXCEPT ![owner[r]] =
                   [exists |-> TRUE, state |-> "Schedule", quiet |-> seen[r].quiet,
                    version |-> @.version + 1]]
  /\ goroutine' = [goroutine EXCEPT ![r] = "select"]
  /\ seen' = [seen EXCEPT ![r] = Absent(0)]
  /\ UNCHANGED <<cache, queue, worker, scheduleTriggerMap, timerVars, owner, crashes>>

\* The trigger that was read is written back as a whole, with another state.
TransitionUpdate(r) ==
  /\ goroutine[r] = "update"
  /\ UpdateAccepted(r)
  /\ trigger' = [trigger EXCEPT ![owner[r]] =
                   [exists |-> TRUE, state |-> "Schedule", quiet |-> seen[r].quiet,
                    version |-> @.version + 1]]
  /\ goroutine' = [goroutine EXCEPT ![r] = "select"]
  /\ seen' = [seen EXCEPT ![r] = Absent(0)]
  /\ UNCHANGED <<cache, queue, worker, scheduleTriggerMap, timerVars, owner, crashes>>

\* The update fails: the error is logged and the goroutine goes on waiting.
TransitionUpdateFails(r) ==
  /\ goroutine[r] = "update"
  /\ ~UpdateAccepted(r) \/ ApiFaults
  /\ goroutine' = [goroutine EXCEPT ![r] = "select"]
  /\ seen' = [seen EXCEPT ![r] = Absent(0)]
  /\ ReadOnly

-----------------------------------------------------------------------------
(* Reconcile: the worker.                                                  *)

\* Mutant: Reconcile returns without deleteTimer when there is no trigger.
ReconcileGetIgnoresDeletion(k) ==
  /\ worker.step = "idle"
  /\ k \in queue
  /\ queue' = queue \ {k}
  /\ worker' = IF cache[k].exists
                 THEN [step |-> "allocate", key |-> k, seen |-> cache[k]]
                 ELSE worker
  /\ UNCHANGED <<trigger, cache, scheduleTriggerMap, timerVars, routineVars, crashes>>

\* The worker takes a trigger from the queue and gets it from the cache.
ReconcileGet(k) ==
  /\ worker.step = "idle"
  /\ k \in queue
  /\ queue' = queue \ {k}
  /\ worker' = [step |-> IF cache[k].exists THEN "allocate" ELSE "delete",
                key |-> k, seen |-> cache[k]]
  /\ UNCHANGED <<trigger, cache, scheduleTriggerMap, timerVars, routineVars, crashes>>

\* Mutant: the map entry is dropped and the goroutine left alone.
StopTimerLeaks ==
  /\ worker' = IdleWorker
  /\ scheduleTriggerMap' = [scheduleTriggerMap EXCEPT ![worker.key] = NoRef]
  /\ UNCHANGED <<timerVars, routineVars>>

\* No timer is wanted: without one the call returns, else it blocks in a send to
\* timerQuit, with the mutex held.
StopTimer ==
  /\ worker' = IF scheduleTriggerMap[worker.key] = NoRef
                 THEN IdleWorker
                 ELSE [step |-> "quit", key |-> worker.key, seen |-> worker.seen]
  /\ UNCHANGED <<scheduleTriggerMap, timerVars, routineVars>>

\* Start the timer and its goroutine, in reference r.
StartTimer(r) ==
  /\ goroutine[r] = "none"
  /\ duration' = [duration EXCEPT ![r] = worker.seen.quiet]
  /\ armed' = [armed EXCEPT ![r] = TRUE]
  /\ goroutine' = [goroutine EXCEPT ![r] = "select"]
  /\ owner' = [owner EXCEPT ![r] = worker.key]
  /\ scheduleTriggerMap' = [scheduleTriggerMap EXCEPT ![worker.key] = r]
  /\ worker' = IdleWorker
  /\ UNCHANGED <<tick, seen>>

\* Mutant: the timer goes on with the old duration.
ResetTimerNot ==
  /\ worker' = IdleWorker
  /\ UNCHANGED <<scheduleTriggerMap, timerVars, routineVars>>

\* The label does not parse, or the timer has its duration already.
KeepTimer ==
  /\ worker' = IdleWorker
  /\ UNCHANGED <<scheduleTriggerMap, timerVars, routineVars>>

\* The label has another duration than the timer.
ResetTimer ==
  /\ Reset(scheduleTriggerMap[worker.key], worker.seen.quiet)
  /\ worker' = IdleWorker
  /\ UNCHANGED scheduleTriggerMap

\* deleteTimer
DeleteTimer ==
  /\ worker.step = "delete"
  /\ StopTimer
  /\ UNCHANGED <<trigger, cache, queue, crashes>>

\* Mutant: a label that does not parse still arms the timer.
CheckAndAllocateUnparsed ==
  /\ worker.step = "allocate"
  /\ \/ worker.seen.quiet = NoLabel /\ StopTimer
     \/ worker.seen.quiet # NoLabel /\ scheduleTriggerMap[worker.key] = NoRef
          /\ \E s \in Refs : StartTimer(s)
     \/ worker.seen.quiet # NoLabel /\ scheduleTriggerMap[worker.key] # NoRef /\ ResetTimer
  /\ UNCHANGED <<trigger, cache, queue, crashes>>

\* checkAndAllocateScheduleTimer
CheckAndAllocateScheduleTimer ==
  LET label == worker.seen.quiet
      r == scheduleTriggerMap[worker.key]
  IN  /\ worker.step = "allocate"
      /\ \/ label = NoLabel /\ StopTimer
         \/ label = BadLabel /\ KeepTimer
         \/ label \in Durations /\ r = NoRef /\ \E s \in Refs : StartTimer(s)
         \/ label \in Durations /\ r # NoRef /\ duration[r] = label /\ KeepTimer
         \/ label \in Durations /\ r # NoRef /\ duration[r] # label /\ ResetTimer
      /\ UNCHANGED <<trigger, cache, queue, crashes>>

\* case <-ref.timerQuit: the goroutine takes the worker's message, stops the
\* timer and ends; the worker deletes the map entry and unlocks the mutex.
QuitReceived(r) ==
  /\ worker.step = "quit"
  /\ scheduleTriggerMap[worker.key] = r
  /\ goroutine[r] = "select"
  /\ duration' = [duration EXCEPT ![r] = NoLabel]
  /\ armed' = [armed EXCEPT ![r] = FALSE]
  /\ tick' = [tick EXCEPT ![r] = FALSE]
  /\ goroutine' = [goroutine EXCEPT ![r] = "none"]
  /\ owner' = [owner EXCEPT ![r] = AnyKey]
  /\ scheduleTriggerMap' = [scheduleTriggerMap EXCEPT ![worker.key] = NoRef]
  /\ worker' = IdleWorker
  /\ UNCHANGED <<trigger, cache, queue, seen, crashes>>

\* ScheduleTimerReset, for a caller outside this repository.
ScheduleTimerReset(k) ==
  /\ MutexFree
  /\ scheduleTriggerMap[k] # NoRef
  /\ Reset(scheduleTriggerMap[k], duration[scheduleTriggerMap[k]])
  /\ UNCHANGED <<trigger, cache, queue, worker, scheduleTriggerMap, crashes>>

\* The manager is killed and starts again: what it had in memory is gone.
Restart ==
  /\ crashes < MaxCrashes
  /\ crashes' = crashes + 1
  /\ cache' = [k \in Keys |-> Absent(0)]
  /\ queue' = {}
  /\ worker' = IdleWorker
  /\ scheduleTriggerMap' = [k \in Keys |-> NoRef]
  /\ duration' = [r \in Refs |-> NoLabel]
  /\ armed' = [r \in Refs |-> FALSE]
  /\ tick' = [r \in Refs |-> FALSE]
  /\ goroutine' = [r \in Refs |-> "none"]
  /\ owner' = [r \in Refs |-> AnyKey]
  /\ seen' = [r \in Refs |-> Absent(0)]
  /\ UNCHANGED trigger

Worker == \/ \E k \in Keys : ReconcileGet(k)
          \/ DeleteTimer
          \/ CheckAndAllocateScheduleTimer

Goroutine(r) == \/ TickReceived(r)
                \/ TransitionGet(r)
                \/ TransitionUpdate(r)
                \/ TransitionUpdateFails(r)
                \/ QuitReceived(r)

Users == \E k \in Keys :
           \/ \E s \in {"Planning", "Schedule"}, q \in Labels : Apply(k, s, q)
           \/ DeleteTrigger(k)

Next ==
  \/ Users
  \/ \E k \in Keys : CacheSync(k) \/ Resync(k) \/ ScheduleTimerReset(k)
  \/ \E r \in Refs : TimerFires(r) \/ Goroutine(r)
  \/ Worker
  \/ Restart

(***************************************************************************)
(* The Go scheduler runs every goroutine that can run, timers expire, the  *)
(* watch delivers and the informer resyncs.  Users and crashes are not     *)
(* fair, and neither is an embedding program's ScheduleTimerReset.         *)
(***************************************************************************)
Fairness ==
  /\ \A k \in Keys : WF_vars(CacheSync(k)) /\ WF_vars(Resync(k)) /\ WF_vars(ReconcileGet(k))
  /\ WF_vars(DeleteTimer) /\ WF_vars(CheckAndAllocateScheduleTimer)
  /\ \A r \in Refs : WF_vars(TimerFires(r)) /\ WF_vars(Goroutine(r))

Spec == Init /\ [][Next]_vars

FairSpec == Spec /\ Fairness

-----------------------------------------------------------------------------
(* Properties.                                                             *)

(***************************************************************************)
(* Timers and goroutines never leak and never double: a goroutine lives    *)
(* exactly while its reference is the entry of its own trigger in the map. *)
(* So the worker's send to timerQuit has exactly one receiver.             *)
(***************************************************************************)
OneTimerPerTrigger ==
  /\ \A k \in Keys : scheduleTriggerMap[k] # NoRef =>
       /\ goroutine[scheduleTriggerMap[k]] # "none"
       /\ owner[scheduleTriggerMap[k]] = k
  /\ \A r \in Refs : goroutine[r] # "none" => scheduleTriggerMap[owner[r]] = r

\* The controller has nothing to do for the trigger.
Settled(k) ==
  /\ cache[k] = trigger[k]
  /\ k \notin queue
  /\ worker.step # "idle" => worker.key # k

(***************************************************************************)
(* Whenever the controller has caught up with a trigger, its timer is the  *)
(* one the label asks for, whatever edits, deletions, restarts and expiries*)
(* came before: none without a label or a trigger, one with the label's    *)
(* duration when the label parses.                                         *)
(***************************************************************************)
TimerMatchesLabel ==
  \A k \in Keys : Settled(k) =>
    /\ ~trigger[k].exists \/ trigger[k].quiet = NoLabel => scheduleTriggerMap[k] = NoRef
    /\ trigger[k].exists /\ trigger[k].quiet \in Durations =>
         /\ scheduleTriggerMap[k] # NoRef
         /\ duration[scheduleTriggerMap[k]] = trigger[k].quiet

(***************************************************************************)
(* A goroutine writes the trigger it read from a stale cache back as a     *)
(* whole.  Yet the write changes nothing but the state, and only from      *)
(* Planning to Schedule: no edit of a user is undone by it.                *)
(***************************************************************************)
TransitionKeepsEdits ==
  [][\A r \in Refs :
       goroutine[r] = "update" /\ goroutine'[r] = "select" /\ trigger' # trigger
         => /\ trigger[owner[r]].exists
            /\ trigger[owner[r]].state = "Planning"
            /\ trigger' = [trigger EXCEPT ![owner[r]] =
                             [exists |-> TRUE, state |-> "Schedule", quiet |-> @.quiet,
                              version |-> @.version + 1]]
    ]_vars

(***************************************************************************)
(* Reconcile always returns: the worker blocked on timerQuit with the      *)
(* mutex held is always received, also from a goroutine that is busy with  *)
(* its transition when the send begins.                                    *)
(***************************************************************************)
WorkerReturns == worker.step # "idle" ~> worker.step = "idle"

(***************************************************************************)
(* The controller catches up: when users stop editing a trigger, its timer *)
(* settles, to none without a trigger or label, to the label's duration    *)
(* otherwise.                                                              *)
(***************************************************************************)
TimerFollowsLabel ==
  \A k \in Keys :
    /\ <>[](~trigger[k].exists \/ trigger[k].quiet = NoLabel)
         => <>[](scheduleTriggerMap[k] = NoRef)
    /\ <>[](trigger[k].exists /\ trigger[k].quiet \in Durations)
         => <>[](/\ scheduleTriggerMap[k] # NoRef
                 /\ duration[scheduleTriggerMap[k]] = trigger[k].quiet)

(***************************************************************************)
(* With the label the controller is "automatically changing the state from *)
(* Planning to Schedule" (README.md:45-46).  The timer expires once: when  *)
(* the update meets a conflict (an edit the cache has not seen) nothing    *)
(* tries again, not even the resync.                                       *)
(***************************************************************************)
QuietTriggerIsScheduled ==
  \A k \in Keys :
    <>[](trigger[k].exists /\ trigger[k].quiet \in Durations)
      => <>(trigger[k].state = "Schedule")

=============================================================================
