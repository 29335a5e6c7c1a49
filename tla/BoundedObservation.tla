-------------------------- MODULE BoundedObservation --------------------------
(***************************************************************************)
(* The control files of one bounded observation                            *)
(* (observation/bounded_observation.py): an immutable manifest, a state    *)
(* file bound to it by hash, and the pointer current.json.                 *)
(*                                                                         *)
(* Each command is a process that reads the clock, then takes the control  *)
(* lock (the Mutex that ControlLock implements; with timeout=0 a taken     *)
(* lock ends the command).  A transition reads, validates and replaces one *)
(* file while it holds the lock, so it is one step; publishing a plan      *)
(* writes three files and undoes them one by one.  A write may fail before *)
(* the replacement, or after it when the directory cannot be synced; that  *)
(* raises as well (DurabilityConfirmationError).  No code enters           *)
(* failed_closed, and nothing is wired to the gate.                        *)
(***************************************************************************)
EXTENDS Naturals, FiniteSets

CONSTANTS
    Commands,       \* processes that run a control command
    Starts,         \* planned_start_at of the plans that may be published
    Duration,       \* STANDARD_DURATION_DAYS
    CheckpointDays, \* checkpoint_days
    MaxExtension,   \* MAX_EXTENSION_DAYS
    MaxClock,       \* bound: the last instant of a behaviour
    NoPlan, NoRecord, Nobody, None

ASSUME ObservationAssumption ==
    /\ Starts \subseteq Nat
    /\ Duration \in Nat \ {0}
    /\ CheckpointDays \subseteq 1 .. Duration
    /\ MaxExtension \in Nat
    /\ MaxClock \in Nat
    /\ NoPlan \notin Nat
    /\ None \notin Nat
    /\ Nobody \notin Commands

VARIABLES
    clock,     \* the instant it is
    manifest,  \* the manifest file: the planned start, or NoPlan
    record,    \* the state file, or NoRecord
    pointer,   \* what current.json names
    holder,    \* who holds the control lock
    command    \* what each process is doing, and the instant it read

vars == <<clock, manifest, record, pointer, holder, command>>

ControlLock == INSTANCE Mutex WITH Procs <- Commands

Instants == 0 .. MaxClock

Lives == {"planned", "active", "stop_requested", "stopped", "completed"}

StateRecord ==
    [hash: Starts,                  \* manifest_sha256: the manifest it is bound to
     life: Lives,
     created: Instants,
     updated: Instants,
     started: Instants \cup {None},
     requested: Instants \cup {None},  \* stop_reason.requested_at
     stopped: Instants \cup {None},
     completed: Instants \cup {None},
     extension: 0 .. MaxExtension,     \* extension_authorized_days
     extendedAt: Instants \cup {None},
     checkpoints: [CheckpointDays -> Instants \cup {None}],
     sequence: Nat]                    \* transition_sequence

ASSUME RecordAssumption == NoRecord \notin StateRecord

CommandState ==
    [pc: {"idle", "ready", "manifest", "state", "pointer", "undo_state", "undo_manifest"},
     now: Instants,
     failed: BOOLEAN]     \* its last create_plan raised

InitialState(m, now) ==
    [hash |-> m, life |-> "planned", created |-> now, updated |-> now,
     started |-> None, requested |-> None, stopped |-> None, completed |-> None,
     extension |-> 0, extendedAt |-> None,
     checkpoints |-> [d \in CheckpointDays |-> None], sequence |-> 0]

Init ==
    /\ clock = 0
    /\ manifest = NoPlan
    /\ record = NoRecord
    /\ pointer \in {"none", "other"}
    /\ ControlLock!Init
    /\ command = [c \in Commands |-> [pc |-> "idle", now |-> 0, failed |-> FALSE]]

-----------------------------------------------------------------------------
(* validate_state.                                                         *)

PlannedEnd(m) == m + Duration

AuthorizedEnd(m, r) == PlannedEnd(m) + r.extension

\* The events each lifecycle state must have recorded, and no others.
EventsOf ==
    [planned |-> {}, active |-> {"started"},
     stop_requested |-> {"started", "requested"},
     stopped |-> {"started", "requested", "stopped"},
     completed |-> {"started", "completed"}]

MinSequence ==
    [planned |-> 0, active |-> 1, stop_requested |-> 2, stopped |-> 3, completed |-> 2]

Recorded(r) == {f \in {"started", "requested", "stopped", "completed"} : r[f] # None}

FaultyInOrder(x, y) == None \notin {x, y} => x < y

\* x is not after y, as far as both happened.
InOrder(x, y) == None \notin {x, y} => x <= y

ValidEvents(r) ==
    /\ Recorded(r) = EventsOf[r.life]
    /\ r.created <= r.updated
    /\ InOrder(r.created, r.started)
    /\ \A f \in Recorded(r) : r.started <= r[f] /\ r[f] <= r.updated
    /\ InOrder(r.requested, r.stopped)

ValidExtension(m, r) ==
    IF r.extension = 0 THEN r.extendedAt = None
    ELSE /\ r.life # "planned"
         /\ r.extendedAt # None
         /\ r.started <= r.extendedAt
         /\ r.extendedAt < PlannedEnd(m)
         /\ r.extendedAt <= r.updated
         /\ InOrder(r.extendedAt, r.requested)
         /\ InOrder(r.extendedAt, r.stopped)
         /\ InOrder(r.extendedAt, r.completed)

ValidCheckpoints(m, r) ==
    \A d \in CheckpointDays :
        r.checkpoints[d] # None =>
            /\ r.life # "planned"
            /\ r.started <= r.checkpoints[d]
            /\ r.checkpoints[d] \in m + d .. AuthorizedEnd(m, r)
            /\ r.checkpoints[d] <= r.updated

ValidRecord(m, r) ==
    /\ r.hash = m
    /\ r.sequence >= MinSequence[r.life]
    /\ r.life = "planned" => r.sequence = 0
    /\ ValidEvents(r)
    /\ r.completed # None => r.completed >= AuthorizedEnd(m, r)
    /\ ValidExtension(m, r)
    /\ ValidCheckpoints(m, r)

FaultyAccepts(m, r) == TRUE

Accepts(m, r) == ValidRecord(m, r)

FaultyMayRun(m, r, instant) ==
    /\ Accepts(m, r)
    /\ r.life \in {"active", "stop_requested"}
    /\ instant \in m .. AuthorizedEnd(m, r) - 1
    /\ r.started <= instant

\* may_run_observation_job, for the two supported job types.
MayRun(m, r, instant) ==
    /\ Accepts(m, r)
    /\ r.life = "active"
    /\ instant \in m .. AuthorizedEnd(m, r) - 1
    /\ r.started <= instant

-----------------------------------------------------------------------------
(* Transitions.                                                            *)

Ready(c) == command[c].pc = "ready"

Goto(c, pc) == command' = [command EXCEPT ![c] = [@ EXCEPT !.pc = pc]]

Tick ==
    /\ clock < MaxClock
    /\ clock' = clock + 1
    /\ UNCHANGED <<manifest, record, pointer, holder, command>>

\* main reads the clock before the command takes the lock.
ReadClock(c) ==
    /\ command[c].pc = "idle"
    /\ command' = [command EXCEPT ![c] = [pc |-> "ready", now |-> clock, failed |-> FALSE]]
    /\ UNCHANGED <<clock, manifest, record, pointer, holder>>

FaultyStamp(r, now) == [r EXCEPT !.sequence = MinSequence[r.life], !.updated = now]

Stamp(r, now) == [r EXCEPT !.sequence = @ + 1, !.updated = now]

\* Both files are there to be loaded.
Published == manifest # NoPlan /\ record # NoRecord

\* _transition (and request_stop, which repeats it): both files are loaded and
\* validated, the new state is validated and replaces the old one.
Transition(c, from, new) ==
    /\ Ready(c)
    /\ holder = Nobody
    /\ Accepts(manifest, record)
    /\ record.life = from
    /\ Accepts(manifest, Stamp(new, command[c].now))
    /\ record' = Stamp(new, command[c].now)
    /\ Goto(c, "idle")
    /\ UNCHANGED <<clock, manifest, pointer, holder>>

ActivateObservation(c) ==
    /\ Published
    /\ command[c].now \in manifest .. PlannedEnd(manifest) - 1
    /\ Transition(c, "planned",
         [record EXCEPT !.life = "active", !.started = command[c].now])

StopRequested(r, now) == [r EXCEPT !.life = "stop_requested", !.requested = now]

\* A repeated request leaves the file alone, whether it agrees or conflicts.
RequestStop(c) ==
    /\ Published
    /\ Transition(c, "active", StopRequested(record, command[c].now))

ConfirmStopped(c) ==
    /\ Published
    /\ Transition(c, "stop_requested",
         [record EXCEPT !.life = "stopped", !.stopped = command[c].now])

RecordCheckpoint(c) ==
    \E d \in CheckpointDays :
        /\ Published
        /\ record.checkpoints[d] = None
        /\ command[c].now \in manifest + d .. AuthorizedEnd(manifest, record)
        /\ Transition(c, "active", [record EXCEPT !.checkpoints[d] = command[c].now])

Extended(r, days, now) == [r EXCEPT !.extension = days, !.extendedAt = now]

AuthorizeExtension(c) ==
    \E days \in 1 .. MaxExtension :
        /\ Published
        /\ record.extension = 0
        /\ command[c].now < AuthorizedEnd(manifest, record)
        /\ Transition(c, "active", Extended(record, days, command[c].now))

CompleteObservation(c) ==
    /\ Published
    /\ record.requested = None
    /\ command[c].now >= AuthorizedEnd(manifest, record)
    /\ Transition(c, "active",
         [record EXCEPT !.life = "completed", !.completed = command[c].now])

\* A refused command, a taken lock, a failed write, a kill: nothing changes.
Refuse(c) ==
    /\ Ready(c)
    /\ Goto(c, "idle")
    /\ UNCHANGED <<clock, manifest, record, pointer, holder>>

-----------------------------------------------------------------------------
(* create_plan.                                                            *)

\* Neither of the two artifacts may exist.
PlanAdmitted == manifest = NoPlan /\ record = NoRecord

TakeLock(c) == ControlLock!Acquire(c)

BeginPlan(c) ==
    /\ Ready(c)
    /\ TakeLock(c)
    /\ PlanAdmitted
    /\ Goto(c, "manifest")
    /\ UNCHANGED <<clock, manifest, record, pointer>>

\* The lock is released and the exception propagates.
PlanFails(c) ==
    /\ command' = [command EXCEPT ![c] = [@ EXCEPT !.pc = "idle", !.failed = TRUE]]
    /\ holder' = IF holder = c THEN Nobody ELSE holder

\* A write that replaced the file but could not sync the directory raises
\* before the file is noted as published, so the undoing spares it.
PublishManifest(c) ==
    /\ command[c].pc = "manifest"
    /\ \/ \E start \in Starts :
             /\ manifest' = start
             /\ \/ Goto(c, "state") /\ UNCHANGED holder
                \/ PlanFails(c)
       \/ PlanFails(c) /\ UNCHANGED manifest
    /\ UNCHANGED <<clock, record, pointer>>

PublishState(c) ==
    /\ command[c].pc = "state"
    /\ \/ record' = InitialState(manifest, command[c].now) /\ Goto(c, "pointer")
       \/ record' = InitialState(manifest, command[c].now) /\ Goto(c, "undo_manifest")
       \/ UNCHANGED record /\ Goto(c, "undo_manifest")
    /\ UNCHANGED <<clock, manifest, pointer, holder>>

PublishPointer(c) ==
    /\ command[c].pc = "pointer"
    /\ \/ /\ pointer' = "this"
          /\ \/ Goto(c, "idle") /\ holder' = IF holder = c THEN Nobody ELSE holder
             \/ Goto(c, "undo_state") /\ UNCHANGED holder
       \/ /\ Goto(c, "undo_state")
          /\ UNCHANGED <<pointer, holder>>
    /\ UNCHANGED <<clock, manifest, record>>

\* The rollback: what was published is unlinked in reverse; an unlink that
\* fails does not stop it.
UndoState(c) ==
    /\ command[c].pc = "undo_state"
    /\ record' \in {NoRecord, record}
    /\ Goto(c, "undo_manifest")
    /\ UNCHANGED <<clock, manifest, pointer, holder>>

UndoManifest(c) ==
    /\ command[c].pc = "undo_manifest"
    /\ manifest' \in {NoPlan, manifest}
    /\ PlanFails(c)
    /\ UNCHANGED <<clock, record, pointer>>

\* The process dies: the kernel drops its lock, the files stay as they are.
CrashPlan(c) ==
    /\ command[c].pc \notin {"idle", "ready"}
    /\ Goto(c, "idle")
    /\ holder' = IF holder = c THEN Nobody ELSE holder
    /\ UNCHANGED <<clock, manifest, record, pointer>>

CreatePlan(c) ==
    \/ BeginPlan(c)
    \/ PublishManifest(c)
    \/ PublishState(c)
    \/ PublishPointer(c)
    \/ UndoState(c)
    \/ UndoManifest(c)
    \/ CrashPlan(c)

Control(c) ==
    \/ ReadClock(c)
    \/ Refuse(c)
    \/ CreatePlan(c)
    \/ ActivateObservation(c)
    \/ RequestStop(c)
    \/ ConfirmStopped(c)
    \/ RecordCheckpoint(c)
    \/ AuthorizeExtension(c)
    \/ CompleteObservation(c)

Next == Tick \/ \E c \in Commands : Control(c)

Spec == Init /\ [][Next]_vars

-----------------------------------------------------------------------------

ObservationTypeOK ==
    /\ clock \in Instants
    /\ manifest \in Starts \cup {NoPlan}
    /\ record \in StateRecord \cup {NoRecord}
    /\ pointer \in {"none", "other", "this"}
    /\ holder \in Commands \cup {Nobody}
    /\ command \in [Commands -> CommandState]

\* Whatever failed, crashed or read an old clock before: a state file next to
\* a manifest passes validate_state against it.  No state file is ever paired
\* with the manifest of another plan.
StoredRecordValid ==
    Published => ValidRecord(manifest, record)

\* The stop of an active observation is never refused to an operator who asks
\* now: no checkpoint, extension or activation leaves a chronology that the
\* validation of the stop request would reject.
StopNeverRefused ==
    Published /\ record.life = "active" =>
        ValidRecord(manifest, Stamp(StopRequested(record, clock), clock))

\* Every rewriting of the state file is counted, and none of them moves the
\* start, drops or redates a checkpoint, or replaces an extension or a stop.
HistoryOnlyGrows ==
    [][record # NoRecord /\ record' # NoRecord /\ record' # record =>
         /\ record'.sequence = record.sequence + 1
         /\ record'.hash = record.hash /\ record'.created = record.created
         /\ Recorded(record) \subseteq Recorded(record')
         /\ \A f \in Recorded(record) : record'[f] = record[f]
         /\ record.extension # 0 => record'.extension = record.extension
                                    /\ record'.extendedAt = record.extendedAt
         /\ \A d \in CheckpointDays :
              record.checkpoints[d] # None => record'.checkpoints[d] = record.checkpoints[d]]_vars

\* Once a stop is requested or the observation has ended, the gate permits no
\* job at any instant, and never will again.
GateStaysClosed ==
    [][Published /\ Recorded(record) \ {"started"} # {} =>
         /\ Recorded(record') \ {"started"} # {}
         /\ \A t \in Instants : ~MayRun(manifest, record, t) /\ ~MayRun(manifest', record', t)]_vars

\* test_plan_publication_failure_rolls_back_coupled_artifacts: a create_plan
\* that raises leaves neither manifest nor state, and no pointer to them.
FailedPlanLeavesNothing ==
    [][\A c \in Commands :
         command'[c].failed /\ ~command[c].failed =>
           manifest' = NoPlan /\ record' = NoRecord /\ pointer' # "this"]_vars
=============================================================================
