----------------------- MODULE BoundedObservationProofs -----------------------
(***************************************************************************)
(* What the control files of an observation guarantee, for every number of *)
(* commands, every plan and every length of the clock.  The argument has   *)
(* three parts: the lock makes the publication of a plan a monologue, so   *)
(* the files a step of it finds are those its own earlier steps left;      *)
(* every transition validates what it writes; and a command's clock is     *)
(* never ahead of the time, so no stored instant lies in the future.       *)
(***************************************************************************)
EXTENDS BoundedObservation, TLAPS

USE ObservationAssumption, RecordAssumption

\* The steps of a publication that still have the files to themselves.
Publishing == {"manifest", "state", "pointer", "undo_state", "undo_manifest"}

\* A command that publishes holds the lock: there is one at most.
PublishersHoldLock ==
    \A c \in Commands : command[c].pc \in Publishing => holder = c

\* What a publication finds: nothing at first, then its manifest, then the
\* record it wrote, in which nothing has happened yet.
FilesFit(c) ==
    /\ command[c].pc = "manifest" => manifest = NoPlan /\ record = NoRecord
    /\ command[c].pc = "state" => manifest \in Starts /\ record = NoRecord
    /\ command[c].pc \in {"pointer", "undo_state", "undo_manifest"} =>
          record = NoRecord \/ Recorded(record) = {}

\* Clocks that were read and instants that were written are past.
NothingAhead ==
    /\ \A c \in Commands : command[c].now <= clock
    /\ record # NoRecord => record.updated <= clock

ObservationInv ==
    /\ ObservationTypeOK
    /\ PublishersHoldLock
    /\ \A c \in Commands : FilesFit(c)
    /\ NothingAhead
    /\ StoredRecordValid

-----------------------------------------------------------------------------
(* The transitions of a published observation.                             *)

Events == {"started", "requested", "stopped", "completed"}

\* What every transition does to the record: it is counted, and nothing that
\* was written before is lost or redated.
Grows(old, new) ==
    /\ new.sequence = old.sequence + 1
    /\ new.hash = old.hash /\ new.created = old.created
    /\ \A f \in Events : old[f] # None => new[f] = old[f]
    /\ old.extension # 0 => new.extension = old.extension /\ new.extendedAt = old.extendedAt
    /\ \A d \in CheckpointDays :
         old.checkpoints[d] # None => new.checkpoints[d] = old.checkpoints[d]

\* No instant is the absent value.
LEMMA InstantsArePresent == \A i \in Instants : i \in Nat /\ i # None
  BY DEF Instants

\* The stamp touches the count and the time of the update, nothing else.
LEMMA StampFacts ==
    ASSUME NEW r \in StateRecord, NEW now \in Instants
    PROVE  LET w == Stamp(r, now)
           IN  /\ w \in StateRecord
               /\ w.sequence = r.sequence + 1 /\ w.updated = now
               /\ w.hash = r.hash /\ w.life = r.life /\ w.created = r.created
               /\ w.started = r.started /\ w.requested = r.requested
               /\ w.stopped = r.stopped /\ w.completed = r.completed
               /\ w.extension = r.extension /\ w.extendedAt = r.extendedAt
               /\ w.checkpoints = r.checkpoints
<1>1. r.sequence + 1 \in Nat
  BY DEF StateRecord
<1>2. Stamp(r, now) = [r EXCEPT !.sequence = r.sequence + 1, !.updated = now]
  BY DEF Stamp
<1> QED
  BY <1>1, <1>2 DEF StateRecord

\* What any transition does beside the record.
LEMMA TransitionFacts ==
    ASSUME ObservationTypeOK, NEW c \in Commands, NEW from, NEW new,
           Published, Transition(c, from, new)
    PROVE  /\ manifest \in Starts /\ record \in StateRecord /\ command[c].now \in Instants
           /\ record.life = from /\ ValidRecord(manifest, record)
           /\ record' = Stamp(new, command[c].now) /\ ValidRecord(manifest, record')
           /\ command' = [command EXCEPT ![c] = [@ EXCEPT !.pc = "idle"]]
           /\ command[c].pc = "ready" /\ holder = Nobody
           /\ UNCHANGED <<clock, manifest, pointer, holder>>
  BY DEF ObservationTypeOK, CommandState, Published, Transition, Accepts, Ready, Goto

\* What a transition of command c amounts to.
Moved(c) ==
    /\ record \in StateRecord /\ record' \in StateRecord
    /\ Grows(record, record')
    /\ record'.updated = command[c].now
    /\ Published /\ ValidRecord(manifest, record')
    /\ command' = [command EXCEPT ![c] = [@ EXCEPT !.pc = "idle"]]
    /\ command[c].pc = "ready" /\ holder = Nobody
    /\ UNCHANGED <<clock, manifest, pointer, holder>>

\* It is enough to look at what the transition makes of the record before the
\* stamp.
LEMMA TransitionMoves ==
    ASSUME ObservationTypeOK, NEW c \in Commands, NEW from, NEW new,
           Published, Transition(c, from, new),
           new \in StateRecord, Grows(record, Stamp(new, command[c].now))
    PROVE  Moved(c)
  BY TransitionFacts, StampFacts DEF Moved

\* The window opens: the record was planned, so no event was recorded yet.
LEMMA ActivateMoves ==
    ASSUME ObservationTypeOK, NEW c \in Commands, ActivateObservation(c)
    PROVE  Moved(c)
<1> DEFINE now == command[c].now
           new == [record EXCEPT !.life = "active", !.started = now]
<1>1. Published /\ Transition(c, "planned", new)
  BY DEF ActivateObservation
<1>2. record \in StateRecord /\ now \in Instants /\ record.life = "planned" /\ ValidEvents(record)
  BY <1>1, TransitionFacts DEF ValidRecord
<1>3. record.started = None
  BY <1>2 DEF ValidEvents, Recorded, EventsOf
<1>4. new \in StateRecord
  BY <1>2 DEF StateRecord, Lives
<1>5. Grows(record, Stamp(new, now))
  <2>1. /\ new.sequence = record.sequence /\ new.hash = record.hash
        /\ new.created = record.created /\ new.requested = record.requested
        /\ new.stopped = record.stopped /\ new.completed = record.completed
        /\ new.extension = record.extension /\ new.extendedAt = record.extendedAt
        /\ new.checkpoints = record.checkpoints
    BY <1>2 DEF StateRecord
  <2> HIDE DEF new
  <2> QED
    BY <1>2, <1>3, <1>4, <2>1, StampFacts DEF Grows, Events
<1> HIDE DEF new
<1> QED
  BY <1>1, <1>4, <1>5, TransitionMoves

\* A stop is requested of an active observation, once.
LEMMA RequestStopMoves ==
    ASSUME ObservationTypeOK, NEW c \in Commands, RequestStop(c)
    PROVE  Moved(c)
<1> DEFINE now == command[c].now
           new == StopRequested(record, now)
<1>1. Published /\ Transition(c, "active", new)
  BY DEF RequestStop
<1>2. record \in StateRecord /\ now \in Instants /\ record.life = "active" /\ ValidEvents(record)
  BY <1>1, TransitionFacts DEF ValidRecord
<1>3. record.requested = None
  BY <1>2 DEF ValidEvents, Recorded, EventsOf
<1>4. new \in StateRecord
  BY <1>2 DEF StateRecord, Lives, StopRequested
<1>5. Grows(record, Stamp(new, now))
  <2>1. /\ new.sequence = record.sequence /\ new.hash = record.hash
        /\ new.created = record.created /\ new.started = record.started
        /\ new.stopped = record.stopped /\ new.completed = record.completed
        /\ new.extension = record.extension /\ new.extendedAt = record.extendedAt
        /\ new.checkpoints = record.checkpoints
    BY <1>2 DEF StateRecord, StopRequested
  <2> HIDE DEF new
  <2> QED
    BY <1>2, <1>3, <1>4, <2>1, StampFacts DEF Grows, Events
<1> HIDE DEF new
<1> QED
  BY <1>1, <1>4, <1>5, TransitionMoves

\* The stop is confirmed, once.
LEMMA ConfirmMoves ==
    ASSUME ObservationTypeOK, NEW c \in Commands, ConfirmStopped(c)
    PROVE  Moved(c)
<1> DEFINE now == command[c].now
           new == [record EXCEPT !.life = "stopped", !.stopped = now]
<1>1. Published /\ Transition(c, "stop_requested", new)
  BY DEF ConfirmStopped
<1>2. /\ record \in StateRecord /\ now \in Instants /\ record.life = "stop_requested"
      /\ ValidEvents(record)
  BY <1>1, TransitionFacts DEF ValidRecord
<1>3. record.stopped = None
  BY <1>2 DEF ValidEvents, Recorded, EventsOf
<1>4. new \in StateRecord
  BY <1>2 DEF StateRecord, Lives
<1>5. Grows(record, Stamp(new, now))
  <2>1. /\ new.sequence = record.sequence /\ new.hash = record.hash
        /\ new.created = record.created /\ new.started = record.started
        /\ new.requested = record.requested /\ new.completed = record.completed
        /\ new.extension = record.extension /\ new.extendedAt = record.extendedAt
        /\ new.checkpoints = record.checkpoints
    BY <1>2 DEF StateRecord
  <2> HIDE DEF new
  <2> QED
    BY <1>2, <1>3, <1>4, <2>1, StampFacts DEF Grows, Events
<1> HIDE DEF new
<1> QED
  BY <1>1, <1>4, <1>5, TransitionMoves

\* A checkpoint is recorded where there is none.
LEMMA CheckpointMoves ==
    ASSUME ObservationTypeOK, NEW c \in Commands, RecordCheckpoint(c)
    PROVE  Moved(c)
<1> DEFINE now == command[c].now
<1>1. PICK d \in CheckpointDays :
        /\ Published /\ record.checkpoints[d] = None
        /\ Transition(c, "active", [record EXCEPT !.checkpoints[d] = now])
  BY DEF RecordCheckpoint
<1> DEFINE new == [record EXCEPT !.checkpoints[d] = now]
<1>2. record \in StateRecord /\ now \in Instants
  BY <1>1, TransitionFacts
<1>3. /\ record.checkpoints \in [CheckpointDays -> Instants \cup {None}]
      /\ [record.checkpoints EXCEPT ![d] = now] \in [CheckpointDays -> Instants \cup {None}]
  BY <1>2 DEF StateRecord
<1>4. new = [record EXCEPT !.checkpoints = [record.checkpoints EXCEPT ![d] = now]]
  BY <1>2 DEF StateRecord
<1>5. /\ new \in StateRecord
      /\ new.sequence = record.sequence /\ new.hash = record.hash
      /\ new.created = record.created /\ new.started = record.started
      /\ new.requested = record.requested /\ new.stopped = record.stopped
      /\ new.completed = record.completed
      /\ new.extension = record.extension /\ new.extendedAt = record.extendedAt
      /\ new.checkpoints = [record.checkpoints EXCEPT ![d] = now]
  BY <1>2, <1>3, <1>4 DEF StateRecord
<1> HIDE DEF new
<1>6. Grows(record, Stamp(new, now))
  BY <1>1, <1>2, <1>3, <1>5, StampFacts DEF Grows, Events
<1>7. Transition(c, "active", new)
  BY <1>1 DEF new
<1> QED
  BY <1>1, <1>5, <1>6, <1>7, TransitionMoves

\* An extension is authorized where there is none.
LEMMA ExtendMoves ==
    ASSUME ObservationTypeOK, NEW c \in Commands, AuthorizeExtension(c)
    PROVE  Moved(c)
<1> DEFINE now == command[c].now
<1>1. PICK days \in 1 .. MaxExtension :
        /\ Published /\ record.extension = 0
        /\ Transition(c, "active", Extended(record, days, now))
  BY DEF AuthorizeExtension
<1> DEFINE new == Extended(record, days, now)
<1>2. record \in StateRecord /\ now \in Instants
  BY <1>1, TransitionFacts
<1>3. days \in 0 .. MaxExtension
  OBVIOUS
<1>4. /\ new \in StateRecord
      /\ new.sequence = record.sequence /\ new.hash = record.hash
      /\ new.created = record.created /\ new.started = record.started
      /\ new.requested = record.requested /\ new.stopped = record.stopped
      /\ new.completed = record.completed /\ new.checkpoints = record.checkpoints
  BY <1>2, <1>3 DEF StateRecord, Extended
<1>5. Transition(c, "active", new)
  BY <1>1
<1> HIDE DEF new
<1>6. Grows(record, Stamp(new, now))
  BY <1>1, <1>2, <1>4, StampFacts DEF Grows, Events
<1> QED
  BY <1>1, <1>4, <1>5, <1>6, TransitionMoves

\* The observation is completed, once.
LEMMA CompleteMoves ==
    ASSUME ObservationTypeOK, NEW c \in Commands, CompleteObservation(c)
    PROVE  Moved(c)
<1> DEFINE now == command[c].now
           new == [record EXCEPT !.life = "completed", !.completed = now]
<1>1. Published /\ Transition(c, "active", new)
  BY DEF CompleteObservation
<1>2. record \in StateRecord /\ now \in Instants /\ record.life = "active" /\ ValidEvents(record)
  BY <1>1, TransitionFacts DEF ValidRecord
<1>3. record.completed = None
  BY <1>2 DEF ValidEvents, Recorded, EventsOf
<1>4. new \in StateRecord
  BY <1>2 DEF StateRecord, Lives
<1>5. Grows(record, Stamp(new, now))
  <2>1. /\ new.sequence = record.sequence /\ new.hash = record.hash
        /\ new.created = record.created /\ new.started = record.started
        /\ new.requested = record.requested /\ new.stopped = record.stopped
        /\ new.extension = record.extension /\ new.extendedAt = record.extendedAt
        /\ new.checkpoints = record.checkpoints
    BY <1>2 DEF StateRecord
  <2> HIDE DEF new
  <2> QED
    BY <1>2, <1>3, <1>4, <2>1, StampFacts DEF Grows, Events
<1> HIDE DEF new
<1> QED
  BY <1>1, <1>4, <1>5, TransitionMoves

-----------------------------------------------------------------------------
(* The steps keep the invariant.                                           *)

Steps == {"idle", "ready"} \cup Publishing

OnlyCommand(c) == \A u \in Commands : u # c => command'[u] = command[u]

\* A command that moves on keeps the instant it read.
LEMMA CommandFacts ==
    ASSUME ObservationTypeOK, NEW c \in Commands, NEW pc \in Steps, NEW failed \in BOOLEAN,
           \/ command' = [command EXCEPT ![c] = [@ EXCEPT !.pc = pc]]
           \/ command' = [command EXCEPT ![c] = [@ EXCEPT !.pc = pc, !.failed = failed]]
    PROVE  /\ command' \in [Commands -> CommandState] /\ OnlyCommand(c)
           /\ command'[c].pc = pc /\ command'[c].now = command[c].now
<1>1. command[c] \in CommandState
  BY DEF ObservationTypeOK
<1> DEFINE moved == [command[c] EXCEPT !.pc = pc]
           ended == [command[c] EXCEPT !.pc = pc, !.failed = failed]
<1>2. moved \in CommandState /\ moved.pc = pc /\ moved.now = command[c].now
  BY <1>1 DEF CommandState, Steps, Publishing
<1>3. ended \in CommandState /\ ended.pc = pc /\ ended.now = command[c].now
  BY <1>1 DEF CommandState, Steps, Publishing
<1>4. command' = [command EXCEPT ![c] = moved] \/ command' = [command EXCEPT ![c] = ended]
  OBVIOUS
<1> HIDE DEF moved, ended
<1> QED
  BY <1>2, <1>3, <1>4 DEF ObservationTypeOK, OnlyCommand

\* A command that takes the lock, holds it or finds it free has the files to
\* itself: nobody else's step constrains what it may do to them.
LEMMA AloneKeepsInvariant ==
    ASSUME ObservationInv, ObservationTypeOK', NEW c \in Commands, holder \in {c, Nobody},
           OnlyCommand(c), command'[c].now = command[c].now, UNCHANGED clock,
           command'[c].pc \in Publishing => holder' = c,
           FilesFit(c)', record' # NoRecord => record'.updated <= clock,
           StoredRecordValid'
    PROVE  ObservationInv'
<1>1. \A u \in Commands : u # c => command'[u] = command[u] /\ command[u].pc \notin Publishing
  BY DEF ObservationInv, PublishersHoldLock, OnlyCommand
<1>2. PublishersHoldLock'
  BY <1>1 DEF PublishersHoldLock
<1>3. \A u \in Commands : FilesFit(u)'
  BY <1>1 DEF FilesFit, Publishing
<1>4. NothingAhead'
  BY <1>1 DEF NothingAhead, ObservationInv
<1> QED
  BY <1>2, <1>3, <1>4 DEF ObservationInv

\* A transition keeps the invariant: it validated what it wrote.
LEMMA MovedKeepsInvariant ==
    ASSUME ObservationInv, NEW c \in Commands, Moved(c)
    PROVE  ObservationInv'
<1>1. ObservationTypeOK /\ "idle" \in Steps
  BY DEF ObservationInv, Steps
<1>2. /\ command' \in [Commands -> CommandState] /\ OnlyCommand(c)
      /\ command'[c].pc = "idle" /\ command'[c].now = command[c].now
  BY <1>1, CommandFacts DEF Moved
<1>3. ObservationTypeOK'
  BY <1>1, <1>2 DEF ObservationTypeOK, Moved
<1>4. FilesFit(c)' /\ command'[c].pc \notin Publishing
  BY <1>2 DEF FilesFit, Publishing
<1>5. record'.updated <= clock /\ holder = Nobody /\ UNCHANGED clock
  BY DEF Moved, ObservationInv, NothingAhead
<1>6. StoredRecordValid'
  BY DEF StoredRecordValid, Moved
<1> QED
  BY <1>2, <1>3, <1>4, <1>5, <1>6, AloneKeepsInvariant

\* A command that starts or ends without the lock disturbs no publication.
LEMMA IdlersKeepInvariant ==
    ASSUME ObservationInv, NEW c \in Commands, ReadClock(c) \/ Refuse(c)
    PROVE  ObservationInv'
<1>0. ObservationTypeOK /\ NothingAhead /\ "idle" \in Steps
  BY DEF ObservationInv, Steps
<1>1. /\ command' \in [Commands -> CommandState] /\ OnlyCommand(c)
      /\ command'[c].pc \notin Publishing
      /\ command'[c].now <= clock
      /\ UNCHANGED <<clock, manifest, record, pointer, holder>>
  <2>1. CASE ReadClock(c)
    <3>1. [pc |-> "ready", now |-> clock, failed |-> FALSE] \in CommandState
      BY <1>0 DEF ObservationTypeOK, CommandState
    <3> QED
      BY <1>0, <2>1, <3>1 DEF ReadClock, ObservationTypeOK, OnlyCommand, Publishing, Instants
  <2>2. CASE Refuse(c)
    BY ZenonT(40), <1>0, <2>2, CommandFacts DEF Refuse, Goto, Publishing, NothingAhead
  <2> QED
    BY <2>1, <2>2
<1>2. ObservationTypeOK'
  BY <1>0, <1>1 DEF ObservationTypeOK
<1>3. PublishersHoldLock'
  BY <1>1 DEF PublishersHoldLock, ObservationInv, OnlyCommand
<1>4. \A u \in Commands : FilesFit(u)'
  BY <1>1 DEF FilesFit, ObservationInv, OnlyCommand, Publishing
<1>5. NothingAhead'
  BY <1>0, <1>1 DEF NothingAhead, OnlyCommand
<1>6. StoredRecordValid'
  BY <1>1 DEF StoredRecordValid, ObservationInv, Published
<1> QED
  BY <1>2, <1>3, <1>4, <1>5, <1>6 DEF ObservationInv

\* A record on which nothing happened yet is valid for the plan it names.
LEMMA InitialStateFacts ==
    ASSUME NEW m \in Starts, NEW now \in Instants
    PROVE  /\ InitialState(m, now) \in StateRecord
           /\ Recorded(InitialState(m, now)) = {}
           /\ InitialState(m, now).updated = now
           /\ ValidRecord(m, InitialState(m, now))
<1> DEFINE r == InitialState(m, now)
<1>1. [d \in CheckpointDays |-> None] \in [CheckpointDays -> Instants \cup {None}]
  OBVIOUS
<1>2. /\ r \in StateRecord
      /\ r.hash = m /\ r.life = "planned" /\ r.created = now /\ r.updated = now
      /\ r.started = None /\ r.requested = None /\ r.stopped = None /\ r.completed = None
      /\ r.extension = 0 /\ r.extendedAt = None /\ r.sequence = 0
      /\ \A d \in CheckpointDays : r.checkpoints[d] = None
  BY <1>1 DEF InitialState, StateRecord, Lives
<1> HIDE DEF r
<1>3. Recorded(r) = {}
  BY <1>2 DEF Recorded
<1>4. ValidEvents(r)
  BY <1>2, <1>3 DEF ValidEvents, EventsOf, InOrder, Instants
<1>5. ValidExtension(m, r) /\ ValidCheckpoints(m, r)
  BY <1>2 DEF ValidExtension, ValidCheckpoints
<1>6. ValidRecord(m, r)
  BY <1>2, <1>4, <1>5 DEF ValidRecord, MinSequence
<1> QED
  BY <1>2, <1>3, <1>6 DEF r

\* The publication of a plan keeps the invariant, step by step, also where it
\* fails, is undone or crashes.
LEMMA PlanKeepsInvariant ==
    ASSUME ObservationInv, NEW c \in Commands, CreatePlan(c)
    PROVE  ObservationInv'
<1> USE DEF ObservationInv
<1>0. /\ command[c].now \in Instants /\ command[c].now <= clock
      /\ command[c].pc \in Publishing => holder = c
      /\ Steps = {"idle", "ready", "manifest", "state", "pointer", "undo_state", "undo_manifest"}
  BY DEF ObservationTypeOK, CommandState, NothingAhead, PublishersHoldLock, Steps, Publishing
<1>1. CASE BeginPlan(c)
  <2>1. /\ command' \in [Commands -> CommandState] /\ OnlyCommand(c)
        /\ command'[c].pc = "manifest" /\ command'[c].now = command[c].now
    BY <1>0, <1>1, CommandFacts DEF BeginPlan, Goto
  <2>2. /\ holder = Nobody /\ holder' = c /\ manifest = NoPlan /\ record = NoRecord
        /\ UNCHANGED <<clock, manifest, record, pointer>>
    BY <1>1 DEF BeginPlan, TakeLock, ControlLock!Acquire, PlanAdmitted
  <2>3. ObservationTypeOK'
    BY <2>1, <2>2 DEF ObservationTypeOK
  <2>4. FilesFit(c)' /\ StoredRecordValid'
    BY <2>1, <2>2 DEF FilesFit, StoredRecordValid, Published
  <2> QED
    BY <2>1, <2>2, <2>3, <2>4, AloneKeepsInvariant
<1>2. CASE PublishManifest(c)
  <2>1. /\ command[c].pc = "manifest" /\ holder = c /\ manifest = NoPlan /\ record = NoRecord
        /\ UNCHANGED <<clock, record, pointer>>
    BY <1>0, <1>2 DEF PublishManifest, FilesFit, Publishing
  <2>2. CASE manifest' \in Starts /\ Goto(c, "state") /\ UNCHANGED holder
    <3>1. /\ command' \in [Commands -> CommandState] /\ OnlyCommand(c)
          /\ command'[c].pc = "state" /\ command'[c].now = command[c].now
      BY <1>0, <2>2, CommandFacts DEF Goto
    <3>2. ObservationTypeOK'
      BY <2>1, <2>2, <3>1 DEF ObservationTypeOK
    <3>3. FilesFit(c)' /\ StoredRecordValid'
      BY <2>1, <2>2, <3>1 DEF FilesFit, StoredRecordValid, Published
    <3> QED
      BY <2>1, <2>2, <3>1, <3>2, <3>3, AloneKeepsInvariant
  <2>3. CASE manifest' \in Starts \cup {NoPlan} /\ PlanFails(c)
    <3>1. /\ command' \in [Commands -> CommandState] /\ OnlyCommand(c)
          /\ command'[c].pc = "idle" /\ command'[c].now = command[c].now
      BY <1>0, <2>3, CommandFacts DEF PlanFails
    <3>2. holder' = Nobody
      BY <2>1, <2>3 DEF PlanFails
    <3>3. ObservationTypeOK'
      BY <2>1, <2>3, <3>1, <3>2 DEF ObservationTypeOK
    <3>4. FilesFit(c)' /\ StoredRecordValid' /\ command'[c].pc \notin Publishing
      BY <2>1, <2>3, <3>1 DEF FilesFit, StoredRecordValid, Published, Publishing
    <3> QED
      BY <2>1, <3>1, <3>3, <3>4, AloneKeepsInvariant
  <2> QED
    BY <1>2, <2>1, <2>2, <2>3 DEF PublishManifest
<1>3. CASE PublishState(c)
  <2>1. /\ command[c].pc = "state" /\ holder = c /\ manifest \in Starts /\ record = NoRecord
        /\ UNCHANGED <<clock, manifest, pointer, holder>>
    BY <1>0, <1>3 DEF PublishState, FilesFit, Publishing
  <2>2. PICK pc \in {"pointer", "undo_manifest"} : Goto(c, pc)
    BY <1>3 DEF PublishState
  <2>3. record' = InitialState(manifest, command[c].now) \/ record' = NoRecord
    BY <1>3, <2>1 DEF PublishState
  <2>4. /\ command' \in [Commands -> CommandState] /\ OnlyCommand(c)
        /\ command'[c].pc = pc /\ command'[c].now = command[c].now
    BY <1>0, <2>2, CommandFacts DEF Goto
  <2>5. record' # NoRecord =>
          /\ record' \in StateRecord /\ Recorded(record') = {}
          /\ record'.updated = command[c].now /\ ValidRecord(manifest, record')
    BY <1>0, <2>1, <2>3, InitialStateFacts
  <2>6. ObservationTypeOK'
    BY <2>1, <2>4, <2>5 DEF ObservationTypeOK
  <2>7. FilesFit(c)' /\ StoredRecordValid'
    BY <2>1, <2>2, <2>4, <2>5 DEF FilesFit, StoredRecordValid, Published, Recorded
  <2> QED
    BY <1>0, <2>1, <2>4, <2>5, <2>6, <2>7, AloneKeepsInvariant
<1>4. CASE PublishPointer(c)
  <2>1. /\ command[c].pc = "pointer" /\ holder = c /\ (record = NoRecord \/ Recorded(record) = {})
        /\ UNCHANGED <<clock, manifest, record>> /\ pointer' \in {pointer, "this"}
    BY <1>0, <1>4 DEF PublishPointer, FilesFit, Publishing
  <2>2. PICK pc \in {"idle", "undo_state"} :
          Goto(c, pc) /\ holder' = IF pc = "idle" THEN Nobody ELSE c
    BY <1>4, <2>1 DEF PublishPointer
  <2>3. /\ command' \in [Commands -> CommandState] /\ OnlyCommand(c)
        /\ command'[c].pc = pc /\ command'[c].now = command[c].now
    BY <1>0, <2>2, CommandFacts DEF Goto
  <2>4. ObservationTypeOK'
    BY <2>1, <2>2, <2>3 DEF ObservationTypeOK
  <2>5. FilesFit(c)' /\ StoredRecordValid' /\ (command'[c].pc \in Publishing => holder' = c)
    BY <2>1, <2>2, <2>3 DEF FilesFit, StoredRecordValid, Published, Recorded, Publishing
  <2> QED
    BY <2>1, <2>3, <2>4, <2>5, AloneKeepsInvariant DEF NothingAhead
<1>5. CASE UndoState(c)
  <2>1. /\ command[c].pc = "undo_state" /\ holder = c
        /\ (record = NoRecord \/ Recorded(record) = {})
        /\ record' \in {NoRecord, record} /\ Goto(c, "undo_manifest")
        /\ UNCHANGED <<clock, manifest, pointer, holder>>
    BY <1>0, <1>5 DEF UndoState, FilesFit, Publishing
  <2>2. /\ command' \in [Commands -> CommandState] /\ OnlyCommand(c)
        /\ command'[c].pc = "undo_manifest" /\ command'[c].now = command[c].now
    BY <1>0, <2>1, CommandFacts DEF Goto
  <2>3. ObservationTypeOK'
    BY <2>1, <2>2 DEF ObservationTypeOK
  <2>4. FilesFit(c)' /\ StoredRecordValid'
    BY <2>1, <2>2 DEF FilesFit, StoredRecordValid, Published, Recorded
  <2> QED
    BY <2>1, <2>2, <2>3, <2>4, AloneKeepsInvariant DEF NothingAhead
<1>6. CASE UndoManifest(c)
  <2>1. /\ command[c].pc = "undo_manifest" /\ holder = c
        /\ manifest' \in {NoPlan, manifest} /\ PlanFails(c)
        /\ UNCHANGED <<clock, record, pointer>> /\ holder' = Nobody
    BY <1>0, <1>6 DEF UndoManifest, PlanFails, Publishing
  <2>2. /\ command' \in [Commands -> CommandState] /\ OnlyCommand(c)
        /\ command'[c].pc = "idle" /\ command'[c].now = command[c].now
    BY <1>0, <2>1, CommandFacts DEF PlanFails
  <2>3. ObservationTypeOK'
    BY <2>1, <2>2 DEF ObservationTypeOK
  <2>4. FilesFit(c)' /\ StoredRecordValid' /\ command'[c].pc \notin Publishing
    BY <2>1, <2>2 DEF FilesFit, StoredRecordValid, Published, Publishing
  <2> QED
    BY <2>1, <2>2, <2>3, <2>4, AloneKeepsInvariant DEF NothingAhead
<1>7. CASE CrashPlan(c)
  <2>1. /\ holder = c /\ holder' = Nobody /\ Goto(c, "idle")
        /\ UNCHANGED <<clock, manifest, record, pointer>>
    BY <1>0, <1>7 DEF CrashPlan, ObservationTypeOK, CommandState, Publishing
  <2>2. /\ command' \in [Commands -> CommandState] /\ OnlyCommand(c)
        /\ command'[c].pc = "idle" /\ command'[c].now = command[c].now
    BY <1>0, <2>1, CommandFacts DEF Goto
  <2>3. ObservationTypeOK'
    BY <2>1, <2>2 DEF ObservationTypeOK
  <2>4. FilesFit(c)' /\ StoredRecordValid' /\ command'[c].pc \notin Publishing
    BY <2>1, <2>2 DEF FilesFit, StoredRecordValid, Published, Publishing
  <2> QED
    BY <2>1, <2>2, <2>3, <2>4, AloneKeepsInvariant DEF NothingAhead
<1> QED
  BY <1>1, <1>2, <1>3, <1>4, <1>5, <1>6, <1>7 DEF CreatePlan

\* Time passes: what was not ahead of it is not ahead of it now.
LEMMA TickKeepsInvariant ==
    ASSUME ObservationInv, Tick
    PROVE  ObservationInv'
<1>1. clock \in Nat /\ clock' = clock + 1 /\ clock' \in Instants
  BY DEF ObservationInv, ObservationTypeOK, Tick, Instants
<1>2. ObservationTypeOK'
  BY <1>1 DEF ObservationInv, ObservationTypeOK, Tick
<1>3. \A c \in Commands : command[c].now \in Nat
  BY DEF ObservationInv, ObservationTypeOK, CommandState, Instants
<1>4. record # NoRecord => record.updated \in Nat
  BY DEF ObservationInv, ObservationTypeOK, StateRecord, Instants
<1>5. NothingAhead'
  BY <1>1, <1>3, <1>4 DEF ObservationInv, NothingAhead, Tick
<1>6. PublishersHoldLock' /\ StoredRecordValid' /\ \A c \in Commands : FilesFit(c)'
  BY DEF ObservationInv, PublishersHoldLock, StoredRecordValid, Published, FilesFit, Tick
<1> QED
  BY <1>2, <1>5, <1>6 DEF ObservationInv

\* A command's step is a transition, or one of the others.
LEMMA ControlCases ==
    ASSUME ObservationTypeOK, NEW c \in Commands, Control(c)
    PROVE  Moved(c) \/ ReadClock(c) \/ Refuse(c) \/ CreatePlan(c)
  BY ActivateMoves, RequestStopMoves, ConfirmMoves, CheckpointMoves, ExtendMoves, CompleteMoves
     DEF Control

-----------------------------------------------------------------------------
(* Results.                                                                *)

\* The invariant of the control files.
THEOREM ObservationInvariant == Spec => []ObservationInv
<1>1. Init => ObservationInv
  <2> SUFFICES ASSUME Init PROVE ObservationInv
    OBVIOUS
  <2>1. [pc |-> "idle", now |-> 0, failed |-> FALSE] \in CommandState /\ 0 \in Instants
    BY DEF CommandState, Instants
  <2>2. \A c \in Commands : command[c].pc = "idle" /\ command[c].now = 0
    BY DEF Init
  <2>3. ObservationTypeOK
    BY <2>1 DEF Init, ObservationTypeOK, ControlLock!Init
  <2> QED
    BY <2>2, <2>3 DEF Init, ObservationInv, PublishersHoldLock, FilesFit, NothingAhead,
       StoredRecordValid, Published, Publishing
<1>2. ObservationInv /\ [Next]_vars => ObservationInv'
  <2> SUFFICES ASSUME ObservationInv, [Next]_vars PROVE ObservationInv'
    OBVIOUS
  <2>1. CASE Tick
    BY <2>1, TickKeepsInvariant
  <2>2. ASSUME NEW c \in Commands, Control(c) PROVE ObservationInv'
    BY <2>2, ControlCases, MovedKeepsInvariant, IdlersKeepInvariant, PlanKeepsInvariant
       DEF ObservationInv
  <2>3. CASE UNCHANGED vars
    <3>1. ObservationTypeOK'
      BY <2>3 DEF vars, ObservationInv, ObservationTypeOK
    <3> QED
      BY <2>3, <3>1 DEF vars, ObservationInv, PublishersHoldLock, FilesFit, NothingAhead,
         StoredRecordValid, Published
  <2> QED
    BY <2>1, <2>2, <2>3 DEF Next
<1> QED
  BY <1>1, <1>2, PTL DEF Spec

\* A state file next to a manifest passes validate_state against it, whatever
\* failed, crashed or read an old clock before.
THEOREM RecordValid == Spec => []StoredRecordValid
<1>1. ObservationInv => StoredRecordValid
  BY DEF ObservationInv
<1> QED
  BY <1>1, ObservationInvariant, PTL

\* What a request to stop at this instant would write passes the validation:
\* every instant of the record is past, so the request comes after them all.
LEMMA StopIsValid ==
    ASSUME ObservationInv, Published, record.life = "active"
    PROVE  ValidRecord(manifest, Stamp(StopRequested(record, clock), clock))
<1>1. /\ record \in StateRecord /\ clock \in Instants /\ record.updated <= clock
      /\ ValidRecord(manifest, record)
  BY DEF ObservationInv, ObservationTypeOK, Published, NothingAhead, StoredRecordValid
<1>2. /\ record.sequence \in Nat /\ record.sequence >= 1
      /\ record.created \in Nat /\ record.updated \in Nat
      /\ record.started # None /\ record.started \in Nat /\ record.started <= record.updated
      /\ record.created <= record.updated /\ record.created <= record.started
      /\ record.requested = None /\ record.stopped = None /\ record.completed = None
      /\ record.extendedAt \in Nat \cup {None} /\ clock \in Nat /\ clock # None
  BY <1>1 DEF StateRecord, Instants, ValidRecord, ValidEvents, Recorded, EventsOf, MinSequence,
     InOrder
<1> DEFINE new == StopRequested(record, clock)
           w == Stamp(new, clock)
<1>3. /\ new \in StateRecord /\ new.life = "stop_requested" /\ new.requested = clock
      /\ new.sequence = record.sequence /\ new.hash = record.hash
      /\ new.created = record.created /\ new.started = record.started
      /\ new.stopped = record.stopped /\ new.completed = record.completed
      /\ new.extension = record.extension /\ new.extendedAt = record.extendedAt
      /\ new.checkpoints = record.checkpoints
  BY <1>1 DEF StateRecord, StopRequested, Lives
<1> HIDE DEF new
<1>4. /\ w.life = "stop_requested" /\ w.requested = clock /\ w.updated = clock
      /\ w.sequence = record.sequence + 1 /\ w.hash = record.hash
      /\ w.created = record.created /\ w.started = record.started
      /\ w.stopped = None /\ w.completed = None
      /\ w.extension = record.extension /\ w.extendedAt = record.extendedAt
      /\ w.checkpoints = record.checkpoints
  BY <1>1, <1>2, <1>3, StampFacts
<1> HIDE DEF w
<1>5. ValidEvents(w)
  <2>1. Recorded(w) = {"started", "requested"}
    BY <1>2, <1>4 DEF Recorded
  <2> QED
    BY <1>1, <1>2, <1>4, <2>1 DEF ValidEvents, EventsOf, InOrder
<1>6. ValidExtension(manifest, w)
  BY <1>1, <1>2, <1>4 DEF ValidRecord, ValidExtension, InOrder
<1>7. ValidCheckpoints(manifest, w)
  <2> SUFFICES ASSUME NEW d \in CheckpointDays, w.checkpoints[d] # None
               PROVE  /\ w.life # "planned"
                      /\ w.started <= w.checkpoints[d]
                      /\ w.checkpoints[d] \in manifest + d .. AuthorizedEnd(manifest, w)
                      /\ w.checkpoints[d] <= w.updated
    BY DEF ValidCheckpoints
  <2>1. /\ record.started <= record.checkpoints[d]
        /\ record.checkpoints[d] \in manifest + d .. AuthorizedEnd(manifest, record)
        /\ record.checkpoints[d] <= record.updated
    BY <1>1, <1>4 DEF ValidRecord, ValidCheckpoints
  <2>2. record.checkpoints[d] \in Nat
    BY <1>1, <1>4 DEF StateRecord, Instants
  <2>3. AuthorizedEnd(manifest, w) = AuthorizedEnd(manifest, record)
    BY <1>4 DEF AuthorizedEnd
  <2> QED
    BY <1>1, <1>2, <1>4, <2>1, <2>2, <2>3
<1>8. w.sequence >= MinSequence[w.life]
  BY <1>2, <1>4 DEF MinSequence
<1>9. ValidRecord(manifest, w)
  BY <1>1, <1>4, <1>5, <1>6, <1>7, <1>8 DEF ValidRecord
<1> QED
  BY <1>9 DEF w, new

\* An operator who asks now is never refused the stop of an active observation.
THEOREM StopAlwaysValid == Spec => []StopNeverRefused
<1>1. ObservationInv => StopNeverRefused
  BY StopIsValid DEF StopNeverRefused
<1> QED
  BY <1>1, ObservationInvariant, PTL

\* A record that is rewritten, or changed in any way once something happened
\* on it, was changed by a transition: an unpublished plan is still empty.
LEMMA RecordChanges ==
    ASSUME ObservationInv, [Next]_vars, record # NoRecord, record' # record,
           record' # NoRecord \/ Recorded(record) # {}
    PROVE  \E c \in Commands : Moved(c)
<1>1. PICK c \in Commands : Control(c)
  BY DEF Next, vars, Tick
<1>2. ~ReadClock(c) /\ ~Refuse(c)
  BY DEF ReadClock, Refuse
<1>3. ~CreatePlan(c)
  BY DEF ObservationInv, FilesFit, CreatePlan, BeginPlan, PublishManifest, PublishState,
     PublishPointer, UndoState, UndoManifest, CrashPlan
<1> QED
  BY <1>1, <1>2, <1>3, ControlCases DEF ObservationInv

\* Transitions are counted one by one, and none of them takes back a start, a
\* stop, a checkpoint or an extension.
THEOREM HistoryKept == Spec => HistoryOnlyGrows
<1> DEFINE Kept ==
      record # NoRecord /\ record' # NoRecord /\ record' # record =>
         /\ record'.sequence = record.sequence + 1
         /\ record'.hash = record.hash /\ record'.created = record.created
         /\ Recorded(record) \subseteq Recorded(record')
         /\ \A f \in Recorded(record) : record'[f] = record[f]
         /\ record.extension # 0 => record'.extension = record.extension
                                    /\ record'.extendedAt = record.extendedAt
         /\ \A d \in CheckpointDays :
              record.checkpoints[d] # None => record'.checkpoints[d] = record.checkpoints[d]
<1>1. ObservationInv /\ [Next]_vars => [Kept]_vars
  <2> SUFFICES ASSUME ObservationInv, [Next]_vars,
                      record # NoRecord, record' # NoRecord, record' # record
               PROVE  Kept
    OBVIOUS
  <2>1. Grows(record, record')
    BY RecordChanges DEF Moved
  <2> QED
    BY <2>1 DEF Grows, Recorded, Events
<1> QED
  BY <1>1, ObservationInvariant, PTL DEF Spec, HistoryOnlyGrows

\* No job may run on a record in which anything but the start was recorded.
LEMMA GateNeedsActive ==
    ASSUME NEW m, NEW r, Recorded(r) \ {"started"} # {}, NEW t
    PROVE  ~MayRun(m, r, t)
  BY DEF MayRun, Accepts, ValidRecord, ValidEvents, EventsOf

\* Once a stop is requested or the observation has ended, no job may run at
\* any instant, now or after any step.
THEOREM GateClosedForGood == Spec => GateStaysClosed
<1> DEFINE Closed ==
      Published /\ Recorded(record) \ {"started"} # {} =>
         /\ Recorded(record') \ {"started"} # {}
         /\ \A t \in Instants : ~MayRun(manifest, record, t) /\ ~MayRun(manifest', record', t)
<1>1. ObservationInv /\ [Next]_vars => [Closed]_vars
  <2> SUFFICES ASSUME ObservationInv, [Next]_vars, Published, Recorded(record) \ {"started"} # {}
               PROVE  Closed
    OBVIOUS
  <2>1. Recorded(record') \ {"started"} # {}
    <3>1. CASE record' = record
      BY <3>1 DEF Recorded
    <3>2. CASE record' # record
      <4>1. Recorded(record) # {} /\ record # NoRecord
        BY DEF Published
      <4>2. Grows(record, record')
        BY <3>2, <4>1, RecordChanges DEF Moved
      <4> QED
        BY <4>2 DEF Grows, Recorded, Events
    <3> QED
      BY <3>1, <3>2
  <2> QED
    BY <2>1, GateNeedsActive
<1> QED
  BY <1>1, ObservationInvariant, PTL DEF Spec, GateStaysClosed
=============================================================================
