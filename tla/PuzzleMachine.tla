---------------------------- MODULE PuzzleMachine ----------------------------
(***************************************************************************)
(* The state machines of a puzzle: what a click, a change in an area or a  *)
(* timer makes of them, how they trigger one another, and the location     *)
(* around them, which saves their state, sets its clock by them and reads  *)
(* them back after a restart. One call of the code is several steps here,  *)
(* one for each machine it looks at.                                       *)
(***************************************************************************)
EXTENDS Integers, Sequences, FiniteSets

CONSTANTS
    Template,        \* StateMachinePuzzleTemplate
    Evaluate(_, _),  \* an expression's value, or Failed
    Admits(_, _),    \* whether a player_condition admits a player
    Values, Failed,  \* what it may be: a value, or a StateMachineError
    Seed,
    Inputs,          \* the clicks and area changes of players
    Day(_),          \* the date of a moment, in the puzzle's time zone
    Never,           \* no time
    MaxTime, MaxInputs, MaxCrashes  \* bounds

Definitions == Template.machines
Machines == DOMAIN Definitions

ASSUME PuzzleAssumption ==
    /\ MaxTime \in Nat /\ MaxInputs \in Nat /\ MaxCrashes \in Nat
    /\ Never \notin Nat

VARIABLES
    machine,   \* machine -> its State
    torn,      \* machines whose last transition failed half way
    saved,     \* what the location's row holds: both of the above
    now, started,  \* the time, and the time handed to the call
    phase,     \* what the location's task is doing
    input,     \* the input being processed
    at,        \* the machine looked at next
    triggers, newTriggers, \* internal events of this round and of the next
    serviced, newServiced, \* machines that have moved, before and in this round
    rounds,    \* rounds begun
    raised,    \* events raised during the call
    outcome,   \* how the last call ended
    wake,      \* when the task's timer is due, Never without one
    inputs, crashes

puzzle == <<machine, torn>>
call == <<input, at, triggers, newTriggers, serviced, newServiced, rounds, raised>>
puzzleVars == <<puzzle, saved, now, started, phase, call, outcome, wake, inputs, crashes>>

-----------------------------------------------------------------------------
(* Values and transitions. *)

\* GlobalData, StateData and LocalData: what an expression of each place names.
RootData(day) == [counters |-> <<>>, globals |-> <<>>, locals |-> <<>>, seed |-> Seed,
                  day |-> day, duration |-> Failed, players |-> <<>>]
EvaluateAll(expressions, data) ==
    [i \in DOMAIN expressions |-> Evaluate(expressions[i], data)]
Broken(values) == \E i \in DOMAIN values : values[i] = Failed

Globals == EvaluateAll(Template.variables, RootData(Day(0)))
StateData(state, day) ==
    [RootData(day) EXCEPT !.globals = Globals, !.counters = state.counters]
LocalData(state, day) == [StateData(state, day) EXCEPT !.locals = state.locals]

\* TimerTransition::prepare. A rollover's duration may name the time since the
\* old timer was due.
Since(old) == IF old = Never \/ started < old THEN 0 ELSE started - old
Duration(timer, since, data) ==
    IF timer.kind = "Reset" THEN Evaluate(timer.duration, data)
    ELSE Evaluate(timer.duration, [data EXCEPT !.duration = since])
\* mutant: the new timer runs from when the old one was due
DueAfterOld(old, duration) == IF old = Never THEN started + duration ELSE old + duration
DueAfter(old, duration) == started + duration
Prepared(timer, old, data) ==
    IF timer.kind = "None" THEN Never
    ELSE LET duration == Duration(timer, Since(old), data)
         IN IF duration = Failed THEN Failed ELSE DueAfter(old, duration)

\* The actions of a transition, in order: new values for counters, which are
\* computed and then dropped, and triggers.
ActionFails(a, data) ==
    LET condition == Evaluate(a.condition, data)
    IN \/ condition = Failed
       \/ condition # 0 /\ a.kind = "Set"
            /\ (a.counter \notin DOMAIN data.counters \/ Evaluate(a.value, data) = Failed)
Triggered(actions, data) ==
    {actions[i].target : i \in {j \in DOMAIN actions :
         actions[j].kind = "Trigger" /\ Evaluate(actions[j].condition, data) # 0}}

\* State::perform_transition: everything that can fail is computed first, but
\* the locals are stored as soon as they are known.
\* mutant: outputs are computed with the locals of the state that is left
OutputsOfBefore(state, new, next, day) ==
    EvaluateAll(next.outputs, LocalData(state, day))
OutputsOf(state, new, next, day) == EvaluateAll(next.outputs, LocalData(new, day))

Entered(new, next, outputs, timer) ==
    [new EXCEPT !.outputs = outputs, !.timer = timer, !.current = next]

Unmoved(state) == [ok |-> FALSE, torn |-> FALSE, state |-> state, triggers |-> {}]
PerformTransition(m, state, next, actions, data, day) ==
    LET states == Definitions[m].states
        locals == EvaluateAll(states[next].variables, StateData(state, day))
        new == [state EXCEPT !.locals = locals]
        outputs == OutputsOf(state, new, states[next], day)
        timer == Prepared(states[next].timer, state.timer, LocalData(new, day))
    IN IF \/ next \notin DOMAIN states
          \/ \E i \in DOMAIN actions : ActionFails(actions[i], data)
          \/ Broken(locals)
       THEN Unmoved(state)
       ELSE IF Broken(outputs) \/ timer = Failed
       THEN [ok |-> FALSE, torn |-> TRUE, state |-> new, triggers |-> {}]
       ELSE [ok |-> TRUE, torn |-> FALSE, triggers |-> Triggered(actions, data),
             state |-> Entered(new, next, outputs, timer)]

\* StateMachine::blank: the first state of every machine.
Blank(m) ==
    LET first == Definitions[m].states[1]
        none == [current |-> 1, counters |-> [i \in 1 .. Definitions[m].counters |-> 0],
                 locals |-> <<>>, outputs |-> <<>>, timer |-> Never]
        new == [none EXCEPT !.locals = EvaluateAll(first.variables, StateData(none, Day(0)))]
    IN [new EXCEPT !.outputs = EvaluateAll(first.outputs, LocalData(new, Day(0))),
                   !.timer = IF first.timer.kind = "None" THEN Never
                             ELSE Duration(first.timer, 0, LocalData(new, Day(0)))]

States(m) == [current : DOMAIN Definitions[m].states, counters : Seq({0}),
              locals : Seq(Values), outputs : Seq(Values), timer : Nat \cup {Never}]

\* The template is made of lists, and a puzzle could be created from it.
IsList(list) == Len(list) \in Nat /\ DOMAIN list = 1 .. Len(list)
ASSUME TemplateAssumption ==
    /\ IsList(Definitions) /\ Values \subseteq Nat
    /\ \A m \in Machines :
         /\ Definitions[m].counters \in Nat /\ Blank(m) \in States(m)
         /\ \A s \in DOMAIN Definitions[m].states :
              /\ IsList(Definitions[m].states[s].variables)
              /\ IsList(Definitions[m].states[s].outputs)

-----------------------------------------------------------------------------
(* Which transition a machine takes: the first that matches. *)

Today == Day(started)
Definition(m) == Definitions[m].states[machine[m].current]

\* Transition::should_trigger and should_trigger_internal: whether the trigger is
\* this one, and if so, what its condition says.
Matches(t, i) ==
    /\ t.input.kind = i.kind
    /\ \/ i.kind = "click" /\ t.input.name = i.name
            /\ Admits(t.input.playerCondition, i.player)
       \/ i.kind = "area" /\ t.input.name = i.name
Condition(t, m, players) ==
    Evaluate(t.input.condition, [LocalData(machine[m], Today) EXCEPT !.players = players])

\* Transitions are tried in order, until one is taken or fails.
FirstOf(m, wanted, players) ==
    LET list == Definition(m).transitions
        open == {i \in wanted : Condition(list[i], m, players) # 0}
    IN IF open = {} THEN {} ELSE {CHOOSE i \in open : \A j \in open : i <= j}

Present == IF input.kind = "area" THEN input.players ELSE <<>>
Listed(m) == DOMAIN Definition(m).transitions
WantedByInput(m) ==
    FirstOf(m, {i \in Listed(m) : Matches(Definition(m).transitions[i], input)}, Present)
WantedByTriggers(m) ==
    FirstOf(m, {i \in Listed(m) :
                  LET t == Definition(m).transitions[i]
                  IN t.input.kind = "internal" /\ t.input.source \in triggers}, <<>>)

\* process_timer: a timer must have passed, and tells its actions by how much it
\* has not, which is zero.
Passed(m) == machine[m].timer # Never /\ machine[m].timer < started
TimerData(m) == [LocalData(machine[m], Today) EXCEPT !.duration = 0]

-----------------------------------------------------------------------------
(* One call: a first pass over the machines, then rounds of triggers. *)

Begin(i) ==
    /\ phase' = "first"
    /\ input' = i /\ at' = 1 /\ started' = now
    /\ triggers' = {} /\ newTriggers' = {} /\ serviced' = {} /\ newServiced' = {}
    /\ rounds' = 0 /\ raised' = {}
    /\ UNCHANGED <<puzzle, saved, now, outcome, wake, crashes>>

Click == \E i \in Inputs : /\ phase = "waiting" /\ inputs < MaxInputs
                           /\ inputs' = inputs + 1
                           /\ Begin(i)

\* The location's timer is the controller's, and it calls for ControllerInput::
\* Timer when that has elapsed.
Elapse == /\ phase = "waiting" /\ wake # Never /\ wake <= now
          /\ Begin([kind |-> "timer"]) /\ UNCHANGED inputs

Fail == phase' = "done" /\ outcome' = "error"

\* mutant: only the last machine's events are kept
LastRaised(events) == events
Gathered(events) == newTriggers \cup events

\* What a transition of machine m makes of the call. An error ends the call at
\* once: triggers are forgotten and the machines that follow are not asked.
Moved(m, result) ==
    /\ machine' = [machine EXCEPT ![m] = result.state]
    /\ torn' = IF result.ok THEN torn \ {m}
               ELSE IF result.torn THEN torn \cup {m} ELSE torn
    /\ \/ /\ result.ok
          /\ newTriggers' = Gathered(result.triggers)
          /\ raised' = raised \cup result.triggers
          /\ newServiced' = newServiced \cup {m}
          /\ at' = at + 1
          /\ UNCHANGED <<phase, outcome>>
       \/ /\ ~result.ok /\ Fail
          /\ UNCHANGED <<newTriggers, raised, newServiced, at>>
    /\ UNCHANGED <<saved, now, started, input, triggers, serviced, rounds, wake,
                   inputs, crashes>>

Passes(m) ==
    /\ at' = at + 1
    /\ UNCHANGED <<puzzle, saved, now, started, phase, input, triggers, newTriggers,
                   serviced, newServiced, rounds, raised, outcome, wake, inputs,
                   crashes>>

\* A condition that cannot be evaluated is an error as well.
Misjudged ==
    /\ Fail
    /\ UNCHANGED <<puzzle, saved, now, started, call, wake, inputs, crashes>>

Follow(m, choice, players) ==
    \/ choice = {} /\ Passes(m)
    \/ \E i \in choice :
         LET t == Definition(m).transitions[i]
         IN \/ Condition(t, m, players) = Failed /\ Misjudged
            \/ /\ Condition(t, m, players) # Failed
               /\ Moved(m, PerformTransition(m, machine[m], t.next, t.actions,
                                             LocalData(machine[m], Today), Today))

\* StateMachinePuzzle::process.
ProcessInput(m) ==
    /\ phase = "first" /\ at = m /\ input.kind # "timer"
    /\ Follow(m, WantedByInput(m), Present)

\* StateMachinePuzzle::process_timer.
ProcessTimer(m) ==
    /\ phase = "first" /\ at = m /\ input.kind = "timer"
    /\ LET timer == Definition(m).timer
       IN \/ /\ Passed(m) /\ timer.kind # "None"
             /\ Moved(m, PerformTransition(m, machine[m], timer.next, timer.actions,
                                           TimerData(m), Today))
          \/ /\ ~(Passed(m) /\ timer.kind # "None")
             /\ Passes(m)

\* process_triggers: a machine that has moved in this call is not asked again.
\* mutant: it is asked in every round
Everyone(m) == TRUE
Unserviced(m) == m \notin serviced

ProcessTriggers(m) ==
    /\ phase = "round" /\ at = m
    /\ \/ ~Unserviced(m) /\ Passes(m)
       \/ Unserviced(m) /\ Follow(m, WantedByTriggers(m), <<>>)

\* The end of a pass. What was raised in it is looked for in the next round.
EndPass ==
    /\ phase \in {"first", "round"} /\ at > Len(Definitions)
    /\ serviced' = serviced \cup newServiced /\ newServiced' = {}
    /\ outcome' = IF phase = "round" THEN outcome
                  ELSE IF newServiced = {} THEN "unchanged" ELSE "updated"
    /\ triggers' = newTriggers /\ newTriggers' = {}
    /\ IF newTriggers = {} THEN phase' = "done" /\ UNCHANGED <<at, rounds>>
       ELSE phase' = "round" /\ at' = 1 /\ rounds' = rounds + 1
    /\ UNCHANGED <<puzzle, saved, now, started, input, raised, wake, inputs, crashes>>

-----------------------------------------------------------------------------
(* The location around the puzzle. *)

\* The state is written to the row, if the query succeeds.
Written ==
    /\ saved' \in {saved, [machine |-> machine, torn |-> torn]}
    /\ phase' = "asking"
    /\ UNCHANGED <<puzzle, now, started, call, outcome, wake, inputs, crashes>>
Save == phase = "done" /\ Written

\* What else wakes the location, a join, a message or a setting, is followed by the
\* same save and the same question for the next timer.
OtherEvent == phase = "waiting" /\ Written

\* next_timer: the earliest timer, unless it is already in the past: whatever comes
\* before the clock has rung turns off a clock that is overdue.
Timers == {machine[m].timer : m \in Machines} \ {Never}
Earliest(times) == CHOOSE t \in times : \A u \in times : t <= u
NextTimer == IF Timers = {} \/ Earliest(Timers) < now THEN Never ELSE Earliest(Timers)

AskTimer ==
    /\ phase = "asking"
    /\ wake' = NextTimer
    /\ phase' = "waiting"
    /\ UNCHANGED <<puzzle, saved, now, started, call, outcome, inputs, crashes>>

Tick ==
    /\ now < MaxTime
    /\ now' = now + 1
    /\ UNCHANGED <<puzzle, saved, started, phase, call, outcome, wake, inputs, crashes>>

\* The server stops, at any moment.
Crash ==
    /\ crashes < MaxCrashes /\ phase \notin {"down", "corrupt"}
    /\ crashes' = crashes + 1
    /\ phase' = "down"
    /\ UNCHANGED <<puzzle, saved, now, started, call, outcome, wake, inputs>>

\* PuzzleTemplate::load: every machine must fit the definition of its state, or
\* the location answers everyone with UnsupportedError from then on.
Fits(state, m) ==
    /\ state.current \in DOMAIN Definitions[m].states
    /\ LET definition == Definitions[m].states[state.current]
       IN /\ Len(state.locals) = Len(definition.variables)
          /\ Len(state.outputs) = Len(definition.outputs)
    /\ Len(state.counters) = Definitions[m].counters
Loadable(states) == \A m \in Machines : Fits(states[m], m)

Load ==
    /\ phase = "down"
    /\ \/ /\ Loadable(saved.machine)
          /\ machine' = saved.machine /\ torn' = saved.torn
          /\ phase' = "asking"
       \/ /\ ~Loadable(saved.machine)
          /\ phase' = "corrupt"
          /\ UNCHANGED puzzle
    /\ UNCHANGED <<saved, now, started, call, outcome, wake, inputs, crashes>>

-----------------------------------------------------------------------------
PuzzleInit ==
    /\ now = 0 /\ started = 0
    /\ machine = [m \in Machines |-> Blank(m)] /\ torn = {}
    /\ saved = [machine |-> machine, torn |-> torn]
    /\ phase = "asking" /\ outcome = "unchanged"
    /\ input = [kind |-> "timer"] /\ at = 1
    /\ triggers = {} /\ newTriggers = {} /\ serviced = {} /\ newServiced = {}
    /\ rounds = 0 /\ raised = {}
    /\ wake = Never
    /\ inputs = 0 /\ crashes = 0

Call == \/ \E m \in Machines : ProcessInput(m) \/ ProcessTimer(m) \/ ProcessTriggers(m)
        \/ EndPass

PuzzleNext ==
    \/ Click \/ Elapse \/ Call \/ Save \/ OtherEvent \/ AskTimer \/ Tick \/ Crash \/ Load

PuzzleSpec == PuzzleInit /\ [][PuzzleNext]_puzzleVars

-----------------------------------------------------------------------------
(* Properties *)

\* Numbers stay numbers of their width, whatever the expressions compute.
PuzzleTypeOK ==
    /\ \A m \in Machines : machine[m] \in States(m) /\ saved.machine[m] \in States(m)
    /\ torn \subseteq Machines /\ saved.torn \subseteq Machines
    /\ phase \in {"first", "round", "done", "asking", "waiting", "down", "corrupt"}
    /\ outcome \in {"unchanged", "updated", "error"}
    /\ serviced \subseteq Machines /\ newServiced \subseteq Machines \ serviced
    /\ newTriggers \subseteq raised /\ triggers \subseteq raised
    /\ wake \in Nat \cup {Never}

\* What players see of a machine is what the definition of its state says, computed
\* on some day that has been.
OutputsFollowState(m) ==
    LET definition == Definitions[m].states[machine[m].current]
    IN \E t \in 0 .. now :
         /\ machine[m].locals = EvaluateAll(definition.variables, StateData(machine[m], Day(t)))
         /\ machine[m].outputs = EvaluateAll(definition.outputs, LocalData(machine[m], Day(t)))

\* An error, a crash and a restart, whenever they come, leave every machine showing
\* the state it is in, and saved in a form that can be read back, unless an error
\* struck the machine when its locals had been stored already.
WholeUnlessTorn ==
    /\ \A m \in Machines \ torn : OutputsFollowState(m)
    /\ \A m \in Machines \ saved.torn : Fits(saved.machine[m], m)

\* When a call succeeds, no machine that stayed where it was has been waiting for
\* an event that was raised, by whichever machine and in whichever round.
NobodyIsLeftOut ==
    phase = "done" /\ outcome # "error" =>
        \A m \in Machines \ serviced :
            \A i \in DOMAIN Definition(m).transitions :
                LET t == Definition(m).transitions[i]
                IN t.input.kind = "internal" /\ t.input.source \in raised =>
                       Condition(t, m, <<>>) = 0

\* Machines cannot trigger one another for good: every round is paid for by a
\* machine that moved, and moves once in a call. And everything has its type.
RoundsAreBounded ==
    PuzzleTypeOK /\ (phase = "round" => rounds <= Cardinality(serviced))

\* A timer call that succeeds leaves no timer behind: whichever machines were due,
\* in memory or read back after a restart, after errors and after moves that events
\* made them do, each has moved or has a timer that is still to come, and so has
\* every machine that they triggered. A timer that was left behind would never ring
\* again, for next_timer is silent about the past.
DueTimersAreServed ==
    phase = "done" /\ outcome # "error" /\ input.kind = "timer" =>
        \A m \in Machines : machine[m].timer = Never \/ started <= machine[m].timer
=============================================================================
