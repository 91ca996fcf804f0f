---------------------------- MODULE ScenarioRuntime ----------------------------
(***************************************************************************)
(* The canonical scenario engine of the mobile application                 *)
(* (crates/juris-engine/src/scenario_runtime.rs): a session plays one      *)
(* validated scenario definition.  A command either dispatches a player    *)
(* action or advances the clock by some minutes; it works on a copy of the *)
(* session that replaces the session only when no step of it failed.       *)
(*                                                                         *)
(* The clock is not moved minute by minute.  It jumps from one temporal    *)
(* boundary to the next: the due time of an event, of a task, of an open   *)
(* deadline, or the minute a metric that grows with time reaches the       *)
(* threshold of an event.  At each boundary the consequences are processed *)
(* through a queue in which events trigger events.                         *)
(*                                                                         *)
(* A scenario is a record                                                  *)
(*   events    sequence of [id, on, flags, least, do, repeatable]: a       *)
(*             trigger on = [kind, of], the condition (flags that are set, *)
(*             least value of the metric), the effects                     *)
(*   deadlines sequence of [id, due, relative, atDue, opens, missed, by]   *)
(*   tasks     sequence of [id, lasts, timed, done]                        *)
(*   actions   sequence of [id, stage, cost, once, flags, do, to, within]  *)
(*   rate      what the metric gains each minute of foreground time        *)
(* One metric stands for all metrics and resources.                        *)
(***************************************************************************)
EXTENDS Integers, SequencesExt

CONSTANTS Scenarios,   \* the definitions a session can be started with
          MaxEvents,   \* MAX_EVENTS_PER_COMMAND
          MaxAdvance,  \* MAX_FOREGROUND_ADVANCE_MINUTES
          Horizon,     \* bound of the model on the clock
          None

VARIABLES scenario, state
scenarioVars == <<scenario, state>>

IdsOf(seq) == {seq[i].id : i \in DOMAIN seq}
Named(seq, id) == seq[CHOOSE i \in DOMAIN seq : seq[i].id = id]
EventsOn(d, kind, of) ==
    LET hears(e) == e.on = [kind |-> kind, of |-> of]
        caught   == SelectSeq(d.events, hears)
    IN  [i \in DOMAIN caught |-> caught[i].id]

\* A terminal stage closes the matter.
Closed(s) == s.stage = "closed"
\* evaluate_condition, for the conjunction of some flags and one comparison.
Holds(s, item) == item.flags \subseteq s.flags /\ item.least <= s.metric
Anchor(s) == IF s.anchor = None THEN s.clock ELSE s.anchor
MissBoundary(deadline, due) == IF deadline.atDue THEN due + 1 ELSE due
Fail(s) == [s EXCEPT !.ok = FALSE]

-----------------------------------------------------------------------------
(***************************************************************************)
(* What is due: timed events that have not fired, then tasks, then open    *)
(* deadlines, each in the order of the definition.                         *)
(***************************************************************************)
DueTimes(d, s) ==
    LET due(e) == e.on.kind = "at" /\ e.on.of <= s.clock /\ e.id \notin s.fired
        events == SelectSeq(d.events, due)
    IN  [i \in DOMAIN events |-> events[i].id]

DueTasks(d, s) ==
    SelectSeq(d.tasks, LAMBDA t : /\ s.tasks[t.id].due # None
                                  /\ s.tasks[t.id].due <= s.clock)

DueDeadlines(d, s) ==
    SelectSeq(d.deadlines,
              LAMBDA l : /\ s.deadlines[l.id].status = "open"
                         /\ MissBoundary(l, s.deadlines[l.id].due) <= s.clock)

\* The events that are due join the queue; a due task becomes ready, a due deadline missed.
DueQueue(d, s) ==
    DueTimes(d, s)
        \o FlattenSeq([i \in DOMAIN DueTasks(d, s) |->
               LET task == DueTasks(d, s)[i] IN <<task.done>> \o EventsOn(d, "task", task.id)])
        \o FlattenSeq([i \in DOMAIN DueDeadlines(d, s) |->
               LET late == DueDeadlines(d, s)[i]
               IN  <<late.missed>> \o EventsOn(d, "missed", late.id)])

\* Mistaken: a task that is ready keeps its due time.
DueStateUncleared(d, s) ==
    [s EXCEPT
        !.tasks = [t \in DOMAIN @ |->
            IF t \in IdsOf(DueTasks(d, s)) THEN [@[t] EXCEPT !.status = "ready"] ELSE @[t]],
        !.deadlines = [l \in DOMAIN @ |->
            IF l \in IdsOf(DueDeadlines(d, s)) THEN [@[l] EXCEPT !.status = "missed"]
            ELSE @[l]]]

DueState(d, s) ==
    [s EXCEPT
        !.tasks = [t \in DOMAIN @ |->
            IF t \in IdsOf(DueTasks(d, s)) THEN [status |-> "ready", due |-> None] ELSE @[t]],
        !.deadlines = [l \in DOMAIN @ |->
            IF l \in IdsOf(DueDeadlines(d, s)) THEN [@[l] EXCEPT !.status = "missed"]
            ELSE @[l]]]

\* A session in the midst of a command, the events that wait, and what of them was processed.
Pending(s, queue) == [s |-> s, queue |-> queue, seen |-> {}, count |-> 0]

QueueDue(d, r) == [r EXCEPT !.queue = @ \o DueQueue(d, r.s), !.s = DueState(d, r.s)]

\* An event opens the deadlines that wait for it.
OpenDeadlines(d, s, id) ==
    [s EXCEPT !.deadlines = [l \in DOMAIN @ |->
        LET deadline == Named(d.deadlines, l)
        IN  IF deadline.opens # id THEN @[l]
            ELSE [status |-> "open",
                  due |-> IF deadline.relative THEN Anchor(s) + deadline.due
                                               ELSE deadline.due]]]

\* One effect; the events it triggers are collected for later.
Effect(d, r, effect) ==
    CASE ~r.s.ok -> r
      [] effect.kind = "stage"   -> [r EXCEPT !.s.stage = effect.of]
      [] effect.kind = "flag"    -> [r EXCEPT !.s.flags = @ \cup {effect.of}]
      [] effect.kind = "metric"  -> [r EXCEPT !.s.metric = @ + effect.of]
      [] effect.kind = "trigger" -> [r EXCEPT !.queue = Append(@, effect.of)]
      [] effect.kind = "done"    -> [r EXCEPT !.s.deadlines[effect.of].status = "completed"]
      [] effect.kind = "miss"    -> [r EXCEPT !.s.deadlines[effect.of].status = "missed"]
      [] effect.kind = "ready"   ->
           [r EXCEPT !.s.tasks[effect.of] = [status |-> "ready", due |-> None]]
      [] effect.kind = "review"  ->
           [r EXCEPT !.s.tasks[effect.of] = [status |-> "reviewed", due |-> None]]
      [] effect.kind = "start"   ->
           LET task == Named(d.tasks, effect.of)
           IN  [r EXCEPT !.s.tasks[effect.of] =
                    [status |-> "in_progress",
                     due |-> task.lasts + IF task.timed THEN Anchor(r.s) ELSE r.s.clock]]
      [] effect.kind = "outcome" ->
           \* An outcome belongs to a terminal stage and is not replaced.
           IF r.s.outcome = effect.of THEN r
           ELSE IF r.s.outcome # None \/ ~Closed(r.s) THEN [r EXCEPT !.s = Fail(@)]
           ELSE [r EXCEPT !.s.outcome = effect.of]

(***************************************************************************)
(* The event queue.  An event that is not repeatable fires once in the     *)
(* session, a repeatable one once in a queue.  An event whose condition is *)
(* false leaves the queue without having fired.  After each event that     *)
(* fired, its dependents and whatever is due now join the queue.           *)
(***************************************************************************)
RECURSIVE Process(_, _)

\* Effects, then at once the events they trigger, in a queue of their own.
Apply(d, r, effects) ==
    LET one(acc, effect) == Effect(d, acc, effect)
    IN  [Process(d, FoldLeft(one, [r EXCEPT !.queue = <<>>], effects)) EXCEPT !.queue = r.queue]

Dependents(d, r, event) == [r EXCEPT !.queue = @ \o EventsOn(d, "event", event.id)]

Fire(d, r, event) ==
    LET fired == IF event.repeatable THEN r ELSE [r EXCEPT !.s.fired = @ \cup {event.id}]
        begun == [fired EXCEPT !.s = OpenDeadlines(d, @, event.id)]
    IN  QueueDue(d, Dependents(d, Apply(d, begun, event.do), event))

Consider(d, r, event) ==
    IF r.count > MaxEvents THEN [r EXCEPT !.s = Fail(@)]
    ELSE IF Holds(r.s, event) THEN Fire(d, r, event)
    ELSE r

Take(d, r, event) ==
    IF event.id \in (IF event.repeatable THEN r.seen ELSE r.s.fired) THEN r
    ELSE Consider(d, [r EXCEPT !.seen = IF event.repeatable THEN @ \cup {event.id} ELSE @,
                               !.count = @ + 1], event)

Process(d, r) ==
    IF r.queue = <<>> \/ ~r.s.ok THEN r
    ELSE Process(d, Take(d, [r EXCEPT !.queue = Tail(@)], Named(d.events, Head(r.queue))))

-----------------------------------------------------------------------------
(***************************************************************************)
(* The clock.                                                              *)
(***************************************************************************)
\* The minute at which the growing metric reaches the event's threshold.
Reaches(d, s, e) == s.clock + (e.on.of - s.metric - 1) \div d.rate + 1

TimeBoundaries(d, s) ==
    {e.on.of : e \in {x \in ToSet(d.events) : x.on.kind = "at" /\ x.id \notin s.fired}}
    \cup ({s.tasks[t].due : t \in DOMAIN s.tasks} \ {None})
    \cup {MissBoundary(l, s.deadlines[l.id].due) :
            l \in {x \in ToSet(d.deadlines) : s.deadlines[x.id].status = "open"}}

MetricBoundaries(d, s) ==
    {Reaches(d, s, e) : e \in {x \in ToSet(d.events) :
        /\ x.on.kind = "reaches"
        /\ x.repeatable \/ x.id \notin s.fired
        /\ d.rate > 0 /\ s.metric < x.on.of}}

\* Mistaken: a threshold is no boundary, it is looked at where something is due.
BoundariesOfTimes(d, s, target, metered) ==
    {b \in TimeBoundaries(d, s) : s.clock < b /\ b < target}

\* next_temporal_boundary_before
Boundaries(d, s, target, metered) ==
    {b \in TimeBoundaries(d, s) \cup (IF metered THEN MetricBoundaries(d, s) ELSE {}) :
        s.clock < b /\ b < target}

\* queue_crossed_metric_events
Crossed(d, before, s) ==
    LET crossed(e) == /\ e.on.kind = "reaches"
                      /\ e.repeatable \/ e.id \notin s.fired
                      /\ before < e.on.of /\ e.on.of <= s.metric
        events == SelectSeq(d.events, crossed)
    IN  [i \in DOMAIN events |-> events[i].id]

\* One segment of the clock: the metric grows, the clock moves, what is due is processed, and
\* then the thresholds crossed.
Moved(d, s, minute, metered, completes) ==
    [s EXCEPT !.clock = minute,
              !.metric = IF metered THEN @ + d.rate * (minute - s.clock) ELSE @,
              !.deadlines = [l \in DOMAIN @ |->
                  IF l = completes /\ @[l].status = "open"
                  THEN [@[l] EXCEPT !.status = "completed"] ELSE @[l]]]

Cross(d, before, s, metered) ==
    IF ~s.ok \/ Closed(s) \/ ~metered THEN s
    ELSE Process(d, Pending(s, Crossed(d, before, s))).s

Segment(d, s, minute, first, metered, completes) ==
    LET moved == Pending(Moved(d, s, minute, metered, completes), first)
    IN  Cross(d, s.metric, Process(d, QueueDue(d, moved)).s, metered)

RECURSIVE Segments(_, _, _, _, _, _)
Onward(d, s, target, final, metered, completes) ==
    IF ~s.ok \/ Closed(s) THEN s ELSE Segments(d, s, target, final, metered, completes)

Segments(d, s, target, final, metered, completes) ==
    LET ahead == Boundaries(d, s, target, metered)
    IN  IF ahead = {} THEN Segment(d, s, target, final, metered, completes)
        ELSE Onward(d, Segment(d, s, Min(ahead), <<>>, metered, None),
                    target, final, metered, completes)

\* advance_clock_to_with_deadline_completion
AdvanceClock(d, s, target, final, metered, completes) ==
    IF ~s.ok THEN s
    ELSE IF Closed(s) THEN [s EXCEPT !.clock = target]
    ELSE Segments(d, s, target, final, metered, completes)

\* What a command leaves: a copy that failed is dropped.
Kept(s, copy) == IF copy.ok THEN copy ELSE s

\* advance_time
Ahead(d, s, minutes) == AdvanceClock(d, s, s.clock + minutes, <<>>, TRUE, None)
Advanced(d, s, minutes) == IF Closed(s) THEN s ELSE Kept(s, Ahead(d, s, minutes))

-----------------------------------------------------------------------------
(***************************************************************************)
(* Actions of the player.                                                  *)
(***************************************************************************)
\* select_open_deadline: the open one that is due first, None if none is.
OpenOf(s, ids) ==
    LET open == {i \in DOMAIN ids : s.deadlines[ids[i]].status = "open"}
    IN  IF open = {} THEN None
        ELSE ids[CHOOSE i \in open : \A j \in open :
                   \/ s.deadlines[ids[i]].due < s.deadlines[ids[j]].due
                   \/ s.deadlines[ids[i]].due = s.deadlines[ids[j]].due /\ i <= j]

InTime(d, s, completion, id) ==
    completion < MissBoundary(Named(d.deadlines, id), s.deadlines[id].due)

\* action_completion_target
Target(s, a) ==
    LET cost == s.clock + a.cost
    IN  IF a.to = <<>> \/ s.deadlines[OpenOf(s, a.to)].due < cost
        THEN cost ELSE s.deadlines[OpenOf(s, a.to)].due

\* action_is_available
Available(d, s, a) ==
    /\ ~Closed(s)
    /\ a.stage = s.stage
    /\ a.once => a.id \notin s.used
    /\ a.flags \subseteq s.flags
    /\ a.to # <<>> =>
         /\ OpenOf(s, a.to) # None
         /\ a.id \in Named(d.deadlines, OpenOf(s, a.to)).by =>
              InTime(d, s, Target(s, a), OpenOf(s, a.to))
    /\ a.within # <<>> =>
         /\ OpenOf(s, a.within) # None
         /\ InTime(d, s, Target(s, a), OpenOf(s, a.within))

\* precomplete_action_deadlines
Precompleted(d, s, a) ==
    [s EXCEPT !.deadlines = [l \in DOMAIN @ |->
        IF a.to = <<>> /\ @[l].status = "open" /\ a.id \in Named(d.deadlines, l).by
        THEN [@[l] EXCEPT !.status = "completed"] ELSE @[l]]]

\* The effects come before the time the action takes; times count from its completion.
Acted(d, s, a) ==
    [Apply(d, Pending([s EXCEPT !.anchor = Target(s, a)], <<>>), a.do).s
        EXCEPT !.anchor = None, !.used = @ \cup {a.id}]

Dispatched(d, s, a) ==
    AdvanceClock(d, Acted(d, Precompleted(d, s, a), a), Target(s, a),
                 EventsOn(d, "action", a.id), FALSE,
                 IF a.to = <<>> THEN None ELSE OpenOf(s, a.to))

-----------------------------------------------------------------------------
\* ScenarioSession::new
Start(d) ==
    LET start == [stage |-> "open", flags |-> {}, metric |-> 0, clock |-> 0,
                  fired |-> {}, used |-> {}, outcome |-> None, anchor |-> None,
                  ok |-> TRUE,
                  tasks |-> [t \in IdsOf(d.tasks) |-> [status |-> "not_started", due |-> None]],
                  deadlines |-> [l \in IdsOf(d.deadlines) |->
                      LET deadline == Named(d.deadlines, l)
                      IN  [status |-> IF deadline.opens = None THEN "open" ELSE "inactive",
                           due    |-> IF deadline.opens = None THEN deadline.due ELSE 0]]]
        first(e) == e.on.kind = "start" \/ e.on = [kind |-> "at", of |-> 0]
        begin == SelectSeq(d.events, first)
        begun == Process(d, Pending(start, [i \in DOMAIN begin |-> begin[i].id])).s
    IN  Process(d, QueueDue(d, Pending(begun, <<>>))).s

Dispatch(a) ==
    /\ Available(scenario, state, a)
    /\ LET after == Dispatched(scenario, state, a)
       IN  after.ok /\ after.clock <= Horizon /\ state' = after
    /\ UNCHANGED scenario

AdvanceTime(minutes) ==
    /\ ~Closed(state)
    /\ state.clock + minutes <= Horizon
    /\ LET after == Ahead(scenario, state, minutes)
       IN  after.ok /\ state' = after
    /\ UNCHANGED scenario

ScenarioInit == scenario \in Scenarios /\ state = Start(scenario)
ScenarioNext == \/ \E i \in DOMAIN scenario.actions : Dispatch(scenario.actions[i])
                \/ \E minutes \in 1..MaxAdvance : AdvanceTime(minutes)
ScenarioSpec == ScenarioInit /\ [][ScenarioNext]_scenarioVars

-----------------------------------------------------------------------------
\* Type invariant: a kept session has not failed, and exactly its tasks in
\* progress have a due time.
ScenarioTypeOK ==
    /\ scenario \in Scenarios
    /\ state.ok /\ state.anchor = None
    /\ state.clock \in 0..Horizon /\ state.metric \in Int
    /\ state.fired \subseteq IdsOf(scenario.events)
    /\ state.used \subseteq IdsOf(scenario.actions)
    /\ \A t \in IdsOf(scenario.tasks) :
         (state.tasks[t].status = "in_progress") <=> (state.tasks[t].due # None)
    /\ \A l \in IdsOf(scenario.deadlines) :
         state.deadlines[l].status \in {"inactive", "open", "completed", "missed"}

\* No timed event waits for a value that time itself changes.
Steady(d) == \A e \in ToSet(d.events) : e.on.kind = "at" => e.least = 0

\* docs/development/PRESSURE_COUNTERMOVE_RUNTIME_V1.md: "One large foreground
\* advance and equivalent smaller advances therefore use the same temporal
\* boundaries."  The session after advancing a + b minutes is the session
\* after advancing a minutes and then b, with the same events fired, metric,
\* deadlines and tasks, from every session a player can reach.
AdvancesSplit ==
    \A a, b \in 1..MaxAdvance :
        /\ a + b <= MaxAdvance
        /\ Ahead(scenario, state, a + b).ok
        => Advanced(scenario, state, a + b)
             = Advanced(scenario, Advanced(scenario, state, a), b)

\* In a steady scenario the chunks in which the clock is advanced do not matter.
ChunksAgree == Steady(scenario) => AdvancesSplit
=============================================================================
