------------------------- MODULE LocationTaskProofs -------------------------
(***************************************************************************)
(* Theorems about the task of a location and about the puzzle it runs.     *)
(*                                                                         *)
(* Of PuzzleMachine, for any machines, expressions and inputs: the rounds  *)
(* of a call come to an end, nobody is left waiting for an event that was  *)
(* raised, the timer asked for is the earliest one, and each machine shows *)
(* the state it is in, whatever fails.                                     *)
(*                                                                         *)
(* Of LocationTask, for any players, settings and controller: nobody is in *)
(* a location against its access setting, and as long as ids are not used  *)
(* again the tables of the task agree and nothing reaches the wrong        *)
(* player.                                                                 *)
(***************************************************************************)
EXTENDS LocationTask, PuzzleMachine, FiniteSetTheorems, SequenceTheorems,
        WellFoundedInduction, TLAPS

-----------------------------------------------------------------------------
(* The puzzle.                                                             *)

\* Expressions have a word or an error for a value: the type of
\* Expression::evaluate.
ExpressionsAreTyped == \A e, data : Evaluate(e, data) \in Values \cup {Failed}

\* The machines and the row are what the code indexes by a machine's number.
Indexed == /\ machine = [m \in Machines |-> machine[m]]
           /\ saved.machine = [m \in Machines |-> saved.machine[m]]

\* How far the puzzle has got. Rounds follow one another only if a machine has
\* moved, since only a machine that moves raises anything.
Calling == phase \in {"first", "round"}
InOrder ==
    /\ Indexed
    /\ phase \in {"first", "round", "done", "asking", "waiting", "down", "corrupt"}
    /\ outcome \in {"unchanged", "updated", "error"}
    /\ torn \subseteq Machines /\ saved.torn \subseteq Machines
    /\ serviced \subseteq Machines /\ newServiced \subseteq Machines \ serviced
    /\ newTriggers \subseteq raised /\ triggers \subseteq raised
    /\ now \in Nat /\ started \in 0 .. now /\ at \in Nat \ {0} /\ rounds \in Nat
    /\ Calling => /\ newTriggers # {} => newServiced # {}
                  /\ rounds <= Cardinality(serviced)
    /\ phase = "first" => triggers = {} /\ serviced = {} /\ rounds = 0 /\ newTriggers = raised

-----------------------------------------------------------------------------
(* What a transition makes of a machine.                                   *)

LEMMA ListsOfValues ==
    ASSUME NEW list, IsList(list), NEW data, ExpressionsAreTyped,
           ~Broken(EvaluateAll(list, data))
    PROVE  EvaluateAll(list, data) \in Seq(Values)
<1>1. \A i \in 1 .. Len(list) : Evaluate(list[i], data) \in Values
  BY DEF ExpressionsAreTyped, Broken, EvaluateAll, IsList
<1>2. EvaluateAll(list, data) = [i \in 1 .. Len(list) |-> Evaluate(list[i], data)]
  BY DEF EvaluateAll, IsList
<1>3. Len(list) \in Nat
  BY DEF IsList
<1> QED BY <1>1, <1>2, <1>3

LEMMA ListsKeepTheirLength ==
    ASSUME NEW list, IsList(list), NEW data
    PROVE  Len(EvaluateAll(list, data)) = Len(list)
<1>1. EvaluateAll(list, data) = [i \in 1 .. Len(list) |-> Evaluate(list[i], data)]
  BY DEF EvaluateAll, IsList
<1>2. Len(list) \in Nat
  BY DEF IsList
<1> QED BY <1>1, <1>2

LEMMA PreparedType ==
    ASSUME NEW timer, NEW old, NEW data, ExpressionsAreTyped, started \in Nat,
           Prepared(timer, old, data) # Failed
    PROVE  Prepared(timer, old, data) \in Nat \cup {Never}
<1>1. Duration(timer, Since(old), data) \in Values \cup {Failed}
  BY DEF ExpressionsAreTyped, Duration
<1> DEFINE d == Duration(timer, Since(old), data)
<1>2. Prepared(timer, old, data) = Never \/ (d # Failed /\ Prepared(timer, old, data) = started + d)
  BY Zenon DEF Prepared, DueAfter
<1> HIDE DEF d
<1>3. d = Failed \/ d \in Nat
  BY <1>1, TemplateAssumption DEF d, TemplateAssumption
<1> QED BY <1>2, <1>3

LEMMA TransitionsKeepTypes ==
    ASSUME NEW m \in Machines, NEW state \in States(m), NEW next, NEW actions, NEW data,
           NEW day, ExpressionsAreTyped, started \in Nat,
           NEW r, r = PerformTransition(m, state, next, actions, data, day)
    PROVE  r.state \in States(m) /\ r.ok \in BOOLEAN /\ r.torn \in BOOLEAN
<1> DEFINE definition == Definitions[m].states[next]
           locals == EvaluateAll(definition.variables, StateData(state, day))
           new == [state EXCEPT !.locals = locals]
           shown == EvaluateAll(definition.outputs, LocalData(new, day))
           timer == Prepared(definition.timer, state.timer, LocalData(new, day))
<1>0. /\ next \in DOMAIN Definitions[m].states => IsList(definition.variables) /\ IsList(definition.outputs)
      /\ Values \subseteq Nat
  BY TemplateAssumption DEF TemplateAssumption
<1>1. ASSUME r = Unmoved(state) PROVE r.state = state /\ r.ok = FALSE /\ r.torn = FALSE
  BY <1>1 DEF Unmoved
<1>2. ASSUME next \in DOMAIN Definitions[m].states, ~Broken(locals)
      PROVE  new \in States(m)
  <2>1. locals \in Seq(Values)
    BY <1>0, <1>2, ListsOfValues
  <2> QED BY <2>1 DEF States
<1>3. ASSUME next \in DOMAIN Definitions[m].states, ~Broken(locals), ~Broken(shown),
             timer # Failed
      PROVE  Entered(new, next, shown, timer) \in States(m)
  <2>1. shown \in Seq(Values)
    BY <1>0, <1>3, ListsOfValues
  <2>2. timer \in Nat \cup {Never}
    BY <1>3, PreparedType
  <2>3. new \in States(m)
    BY <1>2, <1>3
  <2> HIDE DEF new, shown, timer
  <2> QED BY <1>3, <2>1, <2>2, <2>3 DEF Entered, States
<1> HIDE DEF new, shown, timer, locals
<1>4. \/ r = Unmoved(state)
      \/ /\ next \in DOMAIN Definitions[m].states /\ ~Broken(locals)
         /\ \/ r = [ok |-> FALSE, torn |-> TRUE, state |-> new, triggers |-> {}]
            \/ /\ ~Broken(shown) /\ timer # Failed
               /\ r = [ok |-> TRUE, torn |-> FALSE, triggers |-> Triggered(actions, data),
                       state |-> Entered(new, next, shown, timer)]
  BY Zenon DEF new, shown, timer, locals, PerformTransition, OutputsOf
<1>5. CASE r = Unmoved(state)
  BY <1>1, <1>5
<1>6. ASSUME next \in DOMAIN Definitions[m].states, ~Broken(locals),
             r = [ok |-> FALSE, torn |-> TRUE, state |-> new, triggers |-> {}]
      PROVE  r.state = new /\ r.ok = FALSE /\ r.torn = TRUE
  BY <1>6
<1>7. ASSUME r = [ok |-> TRUE, torn |-> FALSE, triggers |-> Triggered(actions, data),
                  state |-> Entered(new, next, shown, timer)]
      PROVE  r.state = Entered(new, next, shown, timer) /\ r.ok = TRUE /\ r.torn = FALSE
  BY <1>7
<1> QED BY <1>2, <1>3, <1>4, <1>5, <1>6, <1>7, Zenon

-----------------------------------------------------------------------------
(* The order of a call.                                                    *)

\* What a step that looks at a machine can be.
Moves(m) == \E next, actions, data :
                Moved(m, PerformTransition(m, machine[m], next, actions, data, Today))
LEMMA LookingAtAMachine ==
    ASSUME NEW m \in Machines, InOrder,
           ProcessInput(m) \/ ProcessTimer(m) \/ ProcessTriggers(m)
    PROVE  /\ Calling /\ at = m
           /\ \/ Passes(m) /\ (phase = "round" => m \in serviced \/ WantedByTriggers(m) = {})
              \/ Misjudged
              \/ m \notin serviced /\ Moves(m)
<1>1. CASE ProcessInput(m)
  <2>1. phase = "first" /\ at = m /\ serviced = {}
    BY <1>1 DEF ProcessInput, InOrder
  <2>2. Passes(m) \/ Misjudged \/ Moves(m)
    BY <1>1, Zenon DEF ProcessInput, Follow, Moves
  <2> QED BY <2>1, <2>2 DEF Calling
<1>2. CASE ProcessTimer(m)
  <2>1. phase = "first" /\ at = m /\ serviced = {}
    BY <1>2 DEF ProcessTimer, InOrder
  <2>2. Passes(m) \/ Moves(m)
    BY <1>2, Zenon DEF ProcessTimer, Moves
  <2> QED BY <2>1, <2>2 DEF Calling
<1>3. CASE ProcessTriggers(m)
  <2>1. phase = "round" /\ at = m
    BY <1>3 DEF ProcessTriggers
  <2>2. \/ Passes(m) /\ (m \in serviced \/ WantedByTriggers(m) = {})
        \/ Misjudged
        \/ m \notin serviced /\ Moves(m)
    BY <1>3, Zenon DEF ProcessTriggers, Follow, Moves, Unserviced
  <2> QED BY <2>1, <2>2 DEF Calling
<1> QED BY <1>1, <1>2, <1>3

\* A machine that moves without an error is one of those that have moved, and
\* what it raises is looked for in the next round; with an error the call ends.
LEMMA OneMachineMoves ==
    ASSUME NEW m \in Machines, InOrder, m \notin serviced, NEW r, Moved(m, r)
    PROVE  /\ Indexed' /\ torn' \subseteq Machines
           /\ \/ /\ phase' = phase /\ outcome' = outcome /\ at' = at + 1
                 /\ newTriggers' = newTriggers \cup r.triggers
                 /\ raised' = raised \cup r.triggers
                 /\ newServiced' = newServiced \cup {m}
              \/ /\ phase' = "done" /\ outcome' = "error"
                 /\ UNCHANGED <<newTriggers, raised, newServiced, at>>
BY DEF Moved, InOrder, Indexed, Fail, Gathered

LEMMA CountedAgain ==
    ASSUME NEW S, S \subseteq Machines, NEW T, T \subseteq Machines \ S, T # {}
    PROVE  /\ Cardinality(S) \in Nat /\ Cardinality(S \cup T) \in Nat
           /\ Cardinality(S) + 1 <= Cardinality(S \cup T)
<1>1. IsFiniteSet(Machines)
  BY FS_Interval, TemplateAssumption DEF TemplateAssumption, IsList, Machines
<1>2. IsFiniteSet(S \cup T) /\ IsFiniteSet(S)
  BY <1>1, FS_Subset
<1>3. PICK x \in T : TRUE
  OBVIOUS
<1>4. Cardinality(S \cup {x}) = Cardinality(S) + 1 /\ S \cup {x} \in SUBSET (S \cup T)
  BY <1>2, <1>3, FS_AddElement
<1>5. Cardinality(S \cup {x}) <= Cardinality(S \cup T)
  BY <1>2, <1>4, FS_Subset
<1> QED BY <1>2, <1>4, <1>5, FS_CardinalityType

LEMMA OrderIsKept ==
    ASSUME InOrder, [PuzzleNext]_puzzleVars
    PROVE  InOrder'
<1>1. CASE UNCHANGED puzzleVars
  BY <1>1 DEF puzzleVars, puzzle, call, InOrder, Indexed, Calling
<1>2. ASSUME NEW i, Begin(i) PROVE InOrder'
  BY <1>2, FS_EmptySet DEF Begin, puzzle, InOrder, Indexed, Calling
<1>3. ASSUME NEW m \in Machines, ProcessInput(m) \/ ProcessTimer(m) \/ ProcessTriggers(m)
      PROVE  InOrder'
  <2>1. CASE Passes(m)
    BY <2>1 DEF Passes, puzzle, InOrder, Indexed, Calling
  <2>2. CASE Misjudged
    BY <2>2 DEF Misjudged, Fail, puzzle, call, InOrder, Indexed, Calling
  <2>3. ASSUME m \notin serviced, NEW r, Moved(m, r), Calling
        PROVE  InOrder'
    <3>1. UNCHANGED <<saved, now, started, triggers, serviced, rounds>>
      BY <2>3 DEF Moved
    <3>2. /\ Indexed' /\ torn' \subseteq Machines
          /\ \/ /\ phase' = phase /\ outcome' = outcome /\ at' = at + 1
                /\ newTriggers' = newTriggers \cup r.triggers
                /\ raised' = raised \cup r.triggers
                /\ newServiced' = newServiced \cup {m}
             \/ /\ phase' = "done" /\ outcome' = "error"
                /\ UNCHANGED <<newTriggers, raised, newServiced, at>>
      BY <2>3, OneMachineMoves
    <3>3. CASE phase' = "done" /\ outcome' = "error" /\ UNCHANGED <<newTriggers, raised, newServiced, at>>
      BY <2>3, <3>1, <3>2, <3>3 DEF InOrder, Calling
    <3>4. CASE /\ phase' = phase /\ outcome' = outcome /\ at' = at + 1
               /\ newTriggers' = newTriggers \cup r.triggers
               /\ raised' = raised \cup r.triggers
               /\ newServiced' = newServiced \cup {m}
      <4>1. at' \in Nat \ {0} /\ newServiced' # {} /\ newServiced' \subseteq Machines \ serviced
        BY <2>3, <3>4 DEF InOrder
      <4>2. newTriggers' \subseteq raised' /\ triggers' \subseteq raised'
            /\ (newTriggers = raised => newTriggers' = raised')
        BY <3>1, <3>4 DEF InOrder
      <4> QED BY <3>1, <3>2, <3>4, <4>1, <4>2 DEF InOrder, Calling
    <3> QED BY <3>2, <3>3, <3>4
  <2> QED BY <1>3, <2>1, <2>2, <2>3, LookingAtAMachine DEF Moves
<1>4. CASE EndPass
  <2>1. UNCHANGED <<machine, torn, saved, now, started, raised>>
    BY <1>4 DEF EndPass, puzzle
  <2>2. Calling /\ serviced' = serviced \cup newServiced /\ newServiced' = {}
        /\ triggers' = newTriggers /\ newTriggers' = {}
    BY <1>4 DEF EndPass, Calling
  <2>3. outcome' \in {"unchanged", "updated", "error"}
    BY <1>4 DEF EndPass, InOrder
  <2>4. CASE newTriggers = {}
    <3>1. phase' = "done" /\ UNCHANGED <<at, rounds>>
      BY <1>4, <2>4 DEF EndPass
    <3> QED BY <2>1, <2>2, <2>3, <3>1 DEF InOrder, Indexed, Calling
  <2>5. CASE newTriggers # {}
    <3>1. phase' = "round" /\ at' = 1 /\ rounds' = rounds + 1
      BY <1>4, <2>5 DEF EndPass
    <3>2. rounds' <= Cardinality(serviced')
      BY <2>2, <2>5, <3>1, CountedAgain DEF InOrder
    <3> QED BY <2>1, <2>2, <2>3, <3>1, <3>2 DEF InOrder, Indexed, Calling
  <2> QED BY <2>4, <2>5
<1>5. CASE Save \/ OtherEvent
  BY <1>5 DEF Save, OtherEvent, Written, puzzle, call, InOrder, Indexed, Calling
<1>6. CASE AskTimer \/ Crash
  BY <1>6 DEF AskTimer, Crash, puzzle, call, InOrder, Indexed, Calling
<1>7. CASE Tick
  BY <1>7 DEF Tick, puzzle, call, InOrder, Indexed, Calling
<1>8. CASE Load
  BY <1>8 DEF Load, puzzle, call, InOrder, Indexed, Calling
<1> QED BY <1>1, <1>2, <1>3, <1>4, <1>5, <1>6, <1>7, <1>8
        DEF PuzzleNext, Click, Elapse, Call

LEMMA OrderAtFirst == PuzzleInit => InOrder
BY FS_EmptySet DEF PuzzleInit, InOrder, Indexed, Calling

-----------------------------------------------------------------------------
(* Types, and the clock of the location.                                   *)

MachinesTyped == /\ \A m \in Machines : machine[m] \in States(m) /\ saved.machine[m] \in States(m)
         /\ wake \in Nat \cup {Never}

\* Of some numbers, one is the least.
LEMMA EarliestIsLeast ==
    ASSUME NEW T, T \subseteq Nat, T # {}
    PROVE  Earliest(T) \in T /\ \A u \in T : Earliest(T) <= u
<1>1. PICK i \in T : \A j \in T : <<j, i>> \notin OpToRel(<, Nat)
  BY WFMin, NatLessThanWellFounded, Zenon
<1>2. ASSUME NEW j \in T
      PROVE  i <= j
  <2>1. ~(j < i)
    BY <1>1, Zenon DEF OpToRel
  <2> QED BY <2>1
<1> QED BY <1>2, Zenon DEF Earliest

LEMMA TimersAreTimes ==
    ASSUME MachinesTyped
    PROVE  Timers \subseteq Nat
BY PuzzleAssumption DEF MachinesTyped, Timers, States, PuzzleAssumption

LEMMA ClockIsATime ==
    ASSUME MachinesTyped
    PROVE  NextTimer \in Nat \cup {Never}
BY EarliestIsLeast, TimersAreTimes DEF NextTimer

LEMMA TypesAreKept ==
    ASSUME ExpressionsAreTyped, InOrder, MachinesTyped, [PuzzleNext]_puzzleVars
    PROVE  MachinesTyped'
<1>1. CASE UNCHANGED <<machine, saved, wake>>
  BY <1>1 DEF MachinesTyped, States
<1>2. ASSUME NEW m \in Machines, ProcessInput(m) \/ ProcessTimer(m) \/ ProcessTriggers(m)
      PROVE  MachinesTyped'
  <2>1. CASE Passes(m) \/ Misjudged
    BY <1>1, <2>1 DEF Passes, Misjudged, puzzle
  <2>2. ASSUME Moves(m) PROVE MachinesTyped'
    <3>1. PICK r : Moved(m, r) /\ r.state \in States(m)
      BY <2>2, TransitionsKeepTypes DEF Moves, MachinesTyped, InOrder
    <3>2. machine' = [machine EXCEPT ![m] = r.state] /\ UNCHANGED <<saved, wake>>
      BY <3>1 DEF Moved
    <3> QED BY <3>1, <3>2 DEF MachinesTyped, States, InOrder, Indexed
  <2> QED BY <1>2, <2>1, <2>2, LookingAtAMachine
<1>3. CASE Save \/ OtherEvent
  BY <1>3 DEF Save, OtherEvent, Written, puzzle, MachinesTyped, States
<1>4. CASE AskTimer
  <2>1. wake' \in Nat \cup {Never} /\ UNCHANGED <<machine, saved>>
    BY <1>4, ClockIsATime DEF AskTimer, puzzle
  <2> QED BY <2>1 DEF MachinesTyped, States
<1>5. CASE Load
  BY <1>5 DEF Load, puzzle, MachinesTyped, States
<1>6. CASE Click \/ Elapse \/ EndPass \/ Tick \/ Crash
  BY <1>1, <1>6 DEF Click, Elapse, Begin, EndPass, Tick, Crash, puzzle
<1> QED BY <1>1, <1>2, <1>3, <1>4, <1>5, <1>6 DEF PuzzleNext, Call, puzzleVars, puzzle

LEMMA TypesAtFirst == PuzzleInit => MachinesTyped
BY TemplateAssumption DEF TemplateAssumption, PuzzleInit, MachinesTyped

\* Machines cannot trigger one another for good: each round of a call is paid for
\* by a machine that has moved, and moves once in a call; and types are kept.
THEOREM RoundsEnd ==
    ASSUME ExpressionsAreTyped
    PROVE  PuzzleSpec => []RoundsAreBounded
<1>1. InOrder /\ MachinesTyped => RoundsAreBounded
  BY DEF InOrder, MachinesTyped, Calling, RoundsAreBounded, PuzzleTypeOK
<1>2. InOrder /\ MachinesTyped /\ [PuzzleNext]_puzzleVars => InOrder' /\ MachinesTyped'
  BY OrderIsKept, TypesAreKept
<1> QED BY <1>1, <1>2, OrderAtFirst, TypesAtFirst, PTL DEF PuzzleSpec

\* A state without a timer has none running; and machines that the call has looked
\* at have no timer from before it.
Clocked(state, m) == Definitions[m].states[state.current].timer.kind = "None" => state.timer = Never
Served(m) == machine[m].timer = Never \/ started <= machine[m].timer
TimersServed ==
    /\ \A m \in Machines : Clocked(machine[m], m) /\ Clocked(saved.machine[m], m)
    /\ input.kind = "timer" /\ phase = "first" => \A m \in Machines : m < at => Served(m)
    /\ input.kind = "timer" /\ (phase = "round" \/ (phase = "done" /\ outcome # "error")) =>
           \A m \in Machines : Served(m)

LEMMA TransitionsSetTimers ==
    ASSUME NEW m \in Machines, NEW state \in States(m), NEW next, NEW actions, NEW data,
           NEW day, ExpressionsAreTyped, started \in Nat, Clocked(state, m),
           NEW r, r = PerformTransition(m, state, next, actions, data, day)
    PROVE  /\ Clocked(r.state, m)
           /\ r.ok => (r.state.timer = Never \/ started <= r.state.timer)
<1> DEFINE definition == Definitions[m].states[next]
           locals == EvaluateAll(definition.variables, StateData(state, day))
           new == [state EXCEPT !.locals = locals]
           shown == EvaluateAll(definition.outputs, LocalData(new, day))
           timer == Prepared(definition.timer, state.timer, LocalData(new, day))
           duration == Duration(definition.timer, Since(state.timer), LocalData(new, day))
<1>1. new.current = state.current /\ new.timer = state.timer
  BY DEF States
<1>2. ASSUME timer # Failed
      PROVE  /\ definition.timer.kind = "None" => timer = Never
             /\ timer = Never \/ started <= timer
  <2>1. duration \in Values \cup {Failed}
    BY DEF ExpressionsAreTyped, Duration
  <2>2. duration = Failed \/ duration \in Nat
    BY <2>1, TemplateAssumption DEF TemplateAssumption
  <2> HIDE DEF duration
  <2>3. \/ definition.timer.kind = "None" /\ timer = Never
        \/ definition.timer.kind # "None" /\ duration # Failed /\ timer = started + duration
    BY <1>2, Zenon DEF Prepared, DueAfter, duration
  <2> QED BY <2>2, <2>3
<1>3. LET entered == Entered(new, next, shown, timer)
      IN entered.current = next /\ entered.timer = timer
  BY DEF Entered, States
<1> HIDE DEF new, shown, timer, locals
<1>4. \/ r = Unmoved(state)
      \/ r = [ok |-> FALSE, torn |-> TRUE, state |-> new, triggers |-> {}]
      \/ /\ timer # Failed
         /\ r = [ok |-> TRUE, torn |-> FALSE, triggers |-> Triggered(actions, data),
                 state |-> Entered(new, next, shown, timer)]
  BY Zenon DEF new, shown, timer, locals, PerformTransition, OutputsOf
<1>5. CASE r = Unmoved(state)
  <2>1. r.state = state /\ r.ok = FALSE
    BY <1>5 DEF Unmoved
  <2> QED BY <2>1
<1>6. CASE r = [ok |-> FALSE, torn |-> TRUE, state |-> new, triggers |-> {}]
  <2>1. r.state = new /\ r.ok = FALSE
    BY <1>6
  <2> QED BY <1>1, <2>1, Zenon DEF Clocked
<1>7. CASE /\ timer # Failed
           /\ r = [ok |-> TRUE, torn |-> FALSE, triggers |-> Triggered(actions, data),
                   state |-> Entered(new, next, shown, timer)]
  <2>1. r.state = Entered(new, next, shown, timer)
    BY <1>7
  <2>2. r.state.current = next /\ r.state.timer = timer
    BY <1>3, <2>1, Zenon
  <2> QED BY <1>2, <1>7, <2>2, Zenon DEF Clocked
<1> QED BY <1>4, <1>5, <1>6, <1>7

LEMMA TimersAreServed ==
    ASSUME ExpressionsAreTyped, InOrder, MachinesTyped, TimersServed, [PuzzleNext]_puzzleVars
    PROVE  TimersServed'
<1>1. ASSUME UNCHANGED <<machine, saved, started, phase, input, outcome, at>>
      PROVE  TimersServed'
  BY <1>1 DEF TimersServed, Clocked, Served
<1>2. ASSUME NEW m \in Machines, ProcessInput(m) \/ ProcessTimer(m) \/ ProcessTriggers(m)
      PROVE  TimersServed'
  <2>1. at = m /\ Calling /\ started \in Nat /\ Machines \subseteq Nat
    BY <1>2, LookingAtAMachine, TemplateAssumption DEF InOrder, TemplateAssumption, IsList, Machines
  <2>0. \/ /\ Passes(m)
           /\ phase = "first" /\ input.kind = "timer" =>
                  ~(Passed(m) /\ Definition(m).timer.kind # "None")
        \/ Misjudged \/ Moves(m)
    <3>1. CASE ProcessTimer(m)
      BY <3>1, Zenon DEF ProcessTimer, Moves
    <3>2. CASE ProcessInput(m) \/ ProcessTriggers(m)
      <4>1. phase # "first" \/ input.kind # "timer"
        BY <3>2 DEF ProcessInput, ProcessTriggers
      <4> QED BY <3>2, <4>1, LookingAtAMachine
    <3> QED BY <1>2, <3>1, <3>2
  <2>2. CASE /\ Passes(m)
             /\ phase = "first" /\ input.kind = "timer" =>
                    ~(Passed(m) /\ Definition(m).timer.kind # "None")
    <3>1. UNCHANGED <<machine, saved, started, phase, input, outcome>> /\ at' = at + 1
      BY <2>2 DEF Passes, puzzle
    <3>2. ASSUME phase = "first", input.kind = "timer" PROVE Served(m)
      <4>1. machine[m].timer \in Nat \cup {Never}
        BY DEF MachinesTyped, States
      <4>2. ~(Passed(m) /\ Definition(m).timer.kind # "None")
        BY <2>2, <3>2
      <4>3. Clocked(machine[m], m)
        BY DEF TimersServed
      <4> QED BY <2>1, <4>1, <4>2, <4>3 DEF Passed, Definition, Clocked, Served
    <3>3. TimersServed' <=>
            /\ \A k \in Machines : Clocked(machine[k], k) /\ Clocked(saved.machine[k], k)
            /\ input.kind = "timer" /\ phase = "first" => \A k \in Machines : k < at' => Served(k)
            /\ input.kind = "timer" /\ (phase = "round" \/ (phase = "done" /\ outcome # "error")) =>
                   \A k \in Machines : Served(k)
      BY <3>1 DEF TimersServed, Clocked, Served
    <3>4. ASSUME NEW k \in Machines, k < at' PROVE k < at \/ k = m
      BY <2>1, <3>1, <3>4
    <3> QED BY <3>2, <3>3, <3>4, Zenon DEF TimersServed
  <2>3. CASE Misjudged
    BY <2>3 DEF Misjudged, Fail, puzzle, call, TimersServed, Clocked, Served
  <2>4. ASSUME Moves(m) PROVE TimersServed'
    <3>1. PICK next, actions, data :
            Moved(m, PerformTransition(m, machine[m], next, actions, data, Today))
      BY <2>4, Zenon DEF Moves
    <3>2. PICK r : r = PerformTransition(m, machine[m], next, actions, data, Today)
      OBVIOUS
    <3>3. Moved(m, r)
      BY <3>1, <3>2, Zenon
    <3>4. machine[m] \in States(m) /\ Clocked(machine[m], m)
      BY DEF MachinesTyped, TimersServed
    <3>5. Clocked(r.state, m) /\ (r.ok => (r.state.timer = Never \/ started <= r.state.timer))
      BY <2>1, <3>2, <3>4, TransitionsSetTimers, Zenon
    <3>6. machine' = [machine EXCEPT ![m] = r.state] /\ UNCHANGED <<saved, started, input>>
      BY <3>3 DEF Moved
    <3>7. \A k \in Machines : machine'[k] = IF k = m THEN r.state ELSE machine[k]
      BY <3>6 DEF InOrder, Indexed
    <3>8. \A k \in Machines : Clocked(machine[k], k)' /\ Clocked(saved.machine[k], k)'
      BY <3>5, <3>6, <3>7, Zenon DEF Clocked, TimersServed
    <3>9. CASE r.ok /\ phase' = phase /\ outcome' = outcome /\ at' = at + 1
      <4>1. Served(m)'
        BY <3>5, <3>6, <3>7, <3>9, Zenon DEF Served
      <4>2. \A k \in Machines : Served(k) => Served(k)'
        BY <3>6, <3>7, <4>1, Zenon DEF Served
      <4>3. \A k \in Machines : k < at' => k < at \/ k = m
        BY <2>1, <3>9
      <4> QED BY <3>6, <3>8, <3>9, <4>1, <4>2, <4>3, Zenon DEF TimersServed
    <3>10. CASE phase' = "done" /\ outcome' = "error"
      BY <3>8, <3>10 DEF TimersServed
    <3> QED BY <3>3, <3>9, <3>10 DEF Moved, Fail
  <2> QED BY <2>0, <2>2, <2>3, <2>4
<1>3. CASE EndPass
  <2>1. UNCHANGED <<machine, saved, started, input>> /\ (phase = "first" => outcome' # "error")
    BY <1>3 DEF EndPass, puzzle
  <2>2. (phase = "round" => outcome' = outcome) /\ at > Len(Definitions) /\ phase \in {"first", "round"}
    BY <1>3 DEF EndPass
  <2>3. phase = "first" => \A k \in Machines : k < at
    BY <2>2, TemplateAssumption DEF InOrder, TemplateAssumption, IsList, Machines
  <2>4. phase' \in {"done", "round"}
    BY <1>3 DEF EndPass
  <2>5. \A k \in Machines : (Served(k)' <=> Served(k))
                             /\ Clocked(machine[k], k)' /\ Clocked(saved.machine[k], k)'
    BY <2>1 DEF Served, Clocked, TimersServed
  <2> QED BY <2>1, <2>2, <2>3, <2>4, <2>5 DEF TimersServed
<1>4. ASSUME NEW i, Begin(i) PROVE TimersServed'
  <2>1. UNCHANGED <<machine, saved>> /\ phase' = "first" /\ at' = 1
    BY <1>4 DEF Begin, puzzle
  <2>2. \A k \in Machines : ~(k < 1)
    BY TemplateAssumption DEF TemplateAssumption, IsList, Machines
  <2> QED BY <2>1, <2>2 DEF TimersServed, Clocked
<1>5. CASE Save \/ OtherEvent
  BY <1>5 DEF Save, OtherEvent, Written, puzzle, TimersServed, Clocked
<1>6. CASE AskTimer \/ Crash
  BY <1>6 DEF AskTimer, Crash, puzzle, TimersServed, Clocked
<1>7. CASE Load
  BY <1>7 DEF Load, puzzle, TimersServed, Clocked
<1>8. CASE Tick \/ UNCHANGED puzzleVars
  BY <1>1, <1>8 DEF Tick, puzzleVars, puzzle, call
<1> QED BY <1>2, <1>3, <1>4, <1>5, <1>6, <1>7, <1>8 DEF PuzzleNext, Call, Click, Elapse

LEMMA TimersAtFirst == PuzzleInit => TimersServed
<1> SUFFICES ASSUME PuzzleInit PROVE TimersServed
  OBVIOUS
<1>1. ASSUME NEW m \in Machines PROVE Clocked(Blank(m), m)
  <2> DEFINE first == Definitions[m].states[1]
             none == [current |-> 1, counters |-> [i \in 1 .. Definitions[m].counters |-> 0],
                      locals |-> <<>>, outputs |-> <<>>, timer |-> Never]
             new == [none EXCEPT !.locals = EvaluateAll(first.variables, StateData(none, Day(0)))]
             clock == IF first.timer.kind = "None" THEN Never
                      ELSE Duration(first.timer, 0, LocalData(new, Day(0)))
             shown == EvaluateAll(first.outputs, LocalData(new, Day(0)))
  <2>1. Blank(m) = [new EXCEPT !.outputs = shown, !.timer = clock]
    BY Zenon DEF Blank
  <2> HIDE DEF clock, shown
  <2>2. Blank(m).current = 1 /\ Blank(m).timer = clock
    BY <2>1
  <2> QED BY <2>2, Zenon DEF Clocked, clock
<1> QED BY <1>1 DEF PuzzleInit, TimersServed

\* A timer call that succeeds leaves no machine with a timer from before the call,
\* whatever the machines are and whatever errors and restarts came earlier.
THEOREM NoTimerIsLeftBehind ==
    ASSUME ExpressionsAreTyped
    PROVE  PuzzleSpec => []DueTimersAreServed
<1>1. TimersServed => DueTimersAreServed
  BY Zenon DEF TimersServed, DueTimersAreServed, Served
<1>2. InOrder /\ MachinesTyped /\ TimersServed /\ [PuzzleNext]_puzzleVars
        => InOrder' /\ MachinesTyped' /\ TimersServed'
  BY OrderIsKept, TypesAreKept, TimersAreServed
<1> QED BY <1>1, <1>2, OrderAtFirst, TypesAtFirst, TimersAtFirst, PTL DEF PuzzleSpec

-----------------------------------------------------------------------------
(* Who has been waiting for what.                                          *)

\* A machine that no event of a set would move.
Idle(m, events) ==
    \A i \in DOMAIN Definition(m).transitions :
        LET t == Definition(m).transitions[i]
        IN t.input.kind = "internal" /\ t.input.source \in events => Condition(t, m, <<>>) = 0

\* In a round, the machines that have not moved are not waiting for any event of
\* the rounds before, and those that were asked not for any of this round.
Asked ==
    /\ phase = "round" =>
         \A m \in Machines \ (serviced \cup newServiced) :
             /\ Idle(m, raised \ (triggers \cup newTriggers))
             /\ m < at => Idle(m, triggers)
    /\ phase = "done" /\ outcome # "error" =>
         \A m \in Machines \ serviced : Idle(m, raised)

LEMMA IdleForFewer ==
    ASSUME NEW m, NEW E, NEW F, Idle(m, E), Idle(m, F), NEW G, G \subseteq E \cup F
    PROVE  Idle(m, G)
BY DEF Idle

LEMMA IdleForNothing ==
    ASSUME NEW m
    PROVE  Idle(m, {})
BY DEF Idle

\* A machine in which no transition is wanted is idle.
LEMMA WantsNothing ==
    ASSUME NEW m, WantedByTriggers(m) = {}
    PROVE  Idle(m, triggers)
BY DEF WantedByTriggers, FirstOf, Listed, Idle

LEMMA IdleAsBefore ==
    ASSUME NEW m, NEW E, Idle(m, E), machine'[m] = machine[m], started' = started
    PROVE  Idle(m, E)'
<1>1. LocalData(machine[m], Today)' = LocalData(machine[m], Today)
  BY DEF LocalData, StateData, Today, Globals
<1> QED BY <1>1 DEF Idle, Definition, Condition

LEMMA IdleAsBeforeForFewer ==
    ASSUME NEW m, machine'[m] = machine[m], started' = started,
           NEW E, NEW F, Idle(m, E), Idle(m, F), NEW G, G \subseteq E \cup F
    PROVE  Idle(m, G)'
<1>1. Idle(m, G)
  BY IdleForFewer
<1> QED BY <1>1, IdleAsBefore

LEMMA AskedIsKept ==
    ASSUME InOrder, Asked, [PuzzleNext]_puzzleVars
    PROVE  Asked'
<1> DEFINE Before == raised \ (triggers \cup newTriggers)
<1>1. CASE UNCHANGED <<machine, started, phase, outcome, at, triggers, newTriggers,
                       serviced, newServiced, raised>>
  BY <1>1, IdleAsBefore DEF Asked
<1>2. ASSUME NEW m \in Machines, ProcessInput(m) \/ ProcessTimer(m) \/ ProcessTriggers(m)
      PROVE  Asked'
  <2>0. Calling /\ at = m
    BY <1>2, LookingAtAMachine
  <2>1. CASE Passes(m) /\ (phase = "round" => m \in serviced \/ WantedByTriggers(m) = {})
    <3>1. /\ UNCHANGED <<machine, started, phase, triggers, newTriggers, serviced,
                         newServiced, raised>>
          /\ at' = at + 1
      BY <2>1 DEF Passes, puzzle
    <3>2. phase' # "done"
      BY <2>0, <3>1 DEF Calling
    <3>3. ASSUME phase' = "round", NEW n \in Machines \ (serviced \cup newServiced)
          PROVE  Idle(n, Before)' /\ (n < at' => Idle(n, triggers)')
      <4>1. phase = "round" /\ Idle(n, Before) /\ (n < at => Idle(n, triggers))
        BY <3>1, <3>3 DEF Asked
      <4>2. n < at' => n < at \/ n = m
        BY <2>0, <3>1, <3>3, TemplateAssumption DEF TemplateAssumption, IsList, Machines
      <4>3. n < at' => Idle(n, triggers)
        BY <2>1, <3>3, <4>1, <4>2, WantsNothing
      <4> QED BY <3>1, <4>1, <4>3, IdleAsBefore
    <3> QED BY <3>1, <3>2, <3>3 DEF Asked
  <2>2. CASE Misjudged
    BY <2>2 DEF Misjudged, Fail, Asked
  <2>3. ASSUME m \notin serviced, NEW r, Moved(m, r) PROVE Asked'
    <3>1. /\ UNCHANGED <<started, triggers, serviced>>
          /\ \A n \in Machines \ {m} : machine'[n] = machine[n]
      BY <2>3 DEF Moved, InOrder, Indexed
    <3>2. CASE phase' = "done" /\ outcome' = "error"
      BY <3>2 DEF Asked
    <3>3. CASE /\ phase' = phase /\ at' = at + 1
               /\ newTriggers' = newTriggers \cup r.triggers
               /\ raised' = raised \cup r.triggers
               /\ newServiced' = newServiced \cup {m}
      <4>1. phase' # "done"
        BY <2>0, <3>3 DEF Calling
      <4>2. ASSUME phase' = "round", NEW n \in Machines \ (serviced \cup newServiced')
            PROVE  Idle(n, Before)' /\ (n < at' => Idle(n, triggers)')
        <5>1. phase = "round" /\ n # m /\ n \in Machines \ (serviced \cup newServiced)
          BY <3>3, <4>2
        <5>2. Idle(n, Before) /\ (n < at => Idle(n, triggers))
          BY <5>1 DEF Asked
        <5>3. n < at' => n < at
          BY <2>0, <3>3, <5>1, TemplateAssumption DEF TemplateAssumption, IsList, Machines
        <5>4. Before' \subseteq Before
          BY <3>1, <3>3
        <5>5. PICK E, F : E = Before /\ F = Before'
          OBVIOUS
        <5>6. Idle(n, F)'
          BY <3>1, <5>1, <5>2, <5>4, <5>5, IdleAsBeforeForFewer
        <5> QED BY <3>1, <5>1, <5>2, <5>3, <5>5, <5>6, IdleAsBefore
      <4> QED BY <3>1, <4>1, <4>2 DEF Asked
    <3> QED BY <2>3, <3>2, <3>3, OneMachineMoves
  <2> QED BY <1>2, <2>1, <2>2, <2>3, LookingAtAMachine DEF Moves
<1>3. CASE EndPass
  <2>1. UNCHANGED <<machine, started, raised>>
        /\ serviced' = serviced \cup newServiced /\ newServiced' = {}
        /\ triggers' = newTriggers /\ newTriggers' = {} /\ at > Len(Definitions) /\ Calling
        /\ ((phase' = "done" /\ newTriggers = {}) \/ (phase' = "round" /\ at' = 1))
    BY <1>3 DEF EndPass, puzzle, Calling
  <2>2. PICK E, F, G : E = triggers /\ F = Before /\ G = raised \ newTriggers
    OBVIOUS
  <2>3. ASSUME NEW n \in Machines \ serviced'
        PROVE  Idle(n, G)'
    <3>1. CASE phase = "first"
      <4>1. G = {}
        BY <2>2, <3>1 DEF InOrder
      <4> QED BY <2>1, <4>1, IdleForNothing, IdleAsBefore
    <3>2. CASE phase = "round"
      <4>1. n < at
        BY <2>1, TemplateAssumption DEF TemplateAssumption, IsList, Machines, InOrder
      <4>2. Idle(n, E) /\ Idle(n, F)
        BY <2>1, <2>2, <2>3, <3>2, <4>1 DEF Asked
      <4>3. G \subseteq E \cup F
        BY <2>2
      <4> QED BY <2>1, <4>2, <4>3, IdleAsBeforeForFewer
    <3> QED BY <2>1, <3>1, <3>2 DEF Calling
  <2>4. \A n \in Machines : ~(n < 1)
    BY TemplateAssumption DEF TemplateAssumption, IsList, Machines
  <2>5. CASE phase' = "done" /\ newTriggers = {}
    <3>1. raised' = G
      BY <2>1, <2>2, <2>5
    <3> QED BY <2>3, <2>5, <3>1 DEF Asked
  <2>6. CASE phase' = "round" /\ at' = 1
    <3>1. (raised \ (triggers \cup newTriggers))' = G
      BY <2>1, <2>2
    <3> QED BY <2>1, <2>3, <2>4, <2>6, <3>1 DEF Asked
  <2> QED BY <2>1, <2>5, <2>6
<1>4. CASE Click \/ Elapse \/ Save \/ OtherEvent \/ AskTimer \/ Crash \/ Load
  BY <1>4 DEF Click, Elapse, Begin, Save, OtherEvent, Written, AskTimer, Crash, Load, Asked
<1>5. CASE Tick \/ UNCHANGED puzzleVars
  BY <1>1, <1>5 DEF Tick, puzzleVars, puzzle, call
<1> QED BY <1>2, <1>3, <1>4, <1>5 DEF PuzzleNext, Call

\* When a call of the puzzle succeeds, no machine that stayed where it was has been
\* waiting for an event raised by any machine in any round of it.
THEOREM NobodyKeepsWaiting == PuzzleSpec => []NobodyIsLeftOut
<1>1. PuzzleInit => Asked
  BY DEF PuzzleInit, Asked
<1>2. Asked => NobodyIsLeftOut
  BY DEF Asked, Idle, NobodyIsLeftOut
<1>3. InOrder /\ Asked /\ [PuzzleNext]_puzzleVars => InOrder' /\ Asked'
  BY OrderIsKept, AskedIsKept
<1> QED BY <1>1, <1>2, <1>3, OrderAtFirst, PTL DEF PuzzleSpec

-----------------------------------------------------------------------------
(* What the machines show, and what the row can be read back from.         *)

\* A state that has the form its definition asks for.
Shaped(state, m) ==
    /\ state = [current |-> state.current, counters |-> state.counters,
                locals |-> state.locals, outputs |-> state.outputs, timer |-> state.timer]
    /\ state.current \in DOMAIN Definitions[m].states
    /\ Len(state.counters) = Definitions[m].counters
\* A state that shows what its definition says, on a certain day.
Shows(state, m, day) ==
    LET definition == Definitions[m].states[state.current]
    IN /\ state.locals = EvaluateAll(definition.variables, StateData(state, day))
       /\ state.outputs = EvaluateAll(definition.outputs, LocalData(state, day))
Sound(states, broken) ==
    \A m \in Machines :
        /\ Shaped(states[m], m)
        /\ m \notin broken => \E t \in 0 .. now : Shows(states[m], m, Day(t))
SoundInMemoryAndRow == Sound(machine, torn) /\ Sound(saved.machine, saved.torn)

LEMMA SoundStatesFit ==
    ASSUME NEW m \in Machines, NEW state, Shaped(state, m), NEW day, Shows(state, m, day)
    PROVE  Fits(state, m)
<1> DEFINE definition == Definitions[m].states[state.current]
<1>1. IsList(definition.variables) /\ IsList(definition.outputs)
  BY TemplateAssumption DEF TemplateAssumption, Shaped
<1>2. /\ state.locals = EvaluateAll(definition.variables, StateData(state, day))
      /\ state.outputs = EvaluateAll(definition.outputs, LocalData(state, day))
  BY DEF Shows
<1> HIDE DEF definition
<1>3. Len(state.locals) = Len(definition.variables) /\ Len(state.outputs) = Len(definition.outputs)
  BY <1>1, <1>2, ListsKeepTheirLength
<1> QED BY <1>3 DEF Fits, Shaped, definition

LEMMA EnteredStates ==
    ASSUME NEW new, NEW next, NEW shown, NEW timer,
           new = [current |-> new.current, counters |-> new.counters, locals |-> new.locals,
                  outputs |-> new.outputs, timer |-> new.timer]
    PROVE  Entered(new, next, shown, timer) =
             [current |-> next, counters |-> new.counters, locals |-> new.locals,
              outputs |-> shown, timer |-> timer]
<1>1. PICK a : a = [new EXCEPT !.outputs = shown]
  OBVIOUS
<1>2. a = [current |-> new.current, counters |-> new.counters, locals |-> new.locals,
           outputs |-> shown, timer |-> new.timer]
  BY <1>1
<1>3. PICK b : b = [a EXCEPT !.timer = timer]
  OBVIOUS
<1>4. b = [current |-> new.current, counters |-> new.counters, locals |-> new.locals,
           outputs |-> shown, timer |-> timer]
  BY <1>2, <1>3
<1>5. PICK c : c = [b EXCEPT !.current = next]
  OBVIOUS
<1>6. c = [current |-> next, counters |-> new.counters, locals |-> new.locals,
           outputs |-> shown, timer |-> timer]
  BY <1>4, <1>5
<1>7. c = Entered(new, next, shown, timer)
  BY <1>1, <1>3, <1>5, Zenon DEF Entered
<1> QED BY <1>6, <1>7

LEMMA TransitionsAreSound ==
    ASSUME NEW m \in Machines, NEW state, Shaped(state, m), NEW next, NEW actions, NEW data,
           NEW day, NEW r, r = PerformTransition(m, state, next, actions, data, day)
    PROVE  /\ Shaped(r.state, m)
           /\ r.ok => Shows(r.state, m, day)
           /\ ~r.ok /\ ~r.torn => r.state = state
<1> DEFINE definition == Definitions[m].states[next]
           locals == EvaluateAll(definition.variables, StateData(state, day))
           new == [state EXCEPT !.locals = locals]
           shown == EvaluateAll(definition.outputs, LocalData(new, day))
           timer == Prepared(definition.timer, state.timer, LocalData(new, day))
           entered == Entered(new, next, shown, timer)
<1>1. ASSUME r = Unmoved(state) PROVE r.state = state /\ r.ok = FALSE
  BY <1>1 DEF Unmoved
<1>2. new = [current |-> state.current, counters |-> state.counters,
             locals |-> locals, outputs |-> state.outputs, timer |-> state.timer]
  <2> HIDE DEF locals
  <2> QED BY DEF Shaped
<1>3. entered = [current |-> next, counters |-> state.counters,
                 locals |-> locals, outputs |-> shown, timer |-> timer]
  <2> HIDE DEF locals, shown, timer, new
  <2>1. /\ new.current = state.current /\ new.counters = state.counters /\ new.locals = locals
        /\ new.outputs = state.outputs /\ new.timer = state.timer
    BY <1>2
  <2>2. entered = [current |-> next, counters |-> new.counters, locals |-> new.locals,
                   outputs |-> shown, timer |-> timer]
    BY <1>2, <2>1, EnteredStates
  <2> QED BY <2>1, <2>2
<1>4. Shaped(new, m)
  <2> HIDE DEF locals, new
  <2> QED BY <1>2 DEF Shaped
<1>5. next \in DOMAIN Definitions[m].states => Shaped(entered, m)
  <2> HIDE DEF locals, shown, timer, new, entered
  <2> QED BY <1>3 DEF Shaped
<1>6. Shows(entered, m, day)
  <2>1. entered.current = next /\ entered.counters = state.counters
        /\ entered.locals = locals /\ entered.outputs = shown
    <3> HIDE DEF locals, shown, timer, new, entered
    <3> QED BY <1>3
  <2>2. new.counters = state.counters /\ new.locals = locals
    <3> HIDE DEF locals, new
    <3> QED BY <1>2
  <2>3. StateData(entered, day) = StateData(state, day)
    <3> HIDE DEF entered
    <3> QED BY <2>1 DEF StateData
  <2>4. StateData(entered, day) = StateData(new, day) /\ LocalData(entered, day) = LocalData(new, day)
    <3> HIDE DEF locals, new, entered, shown
    <3> QED BY <2>1, <2>2 DEF StateData, LocalData
  <2>5. Definitions[m].states[entered.current] = definition
    BY <2>1
  <2> HIDE DEF entered, new, timer
  <2> QED BY <2>1, <2>3, <2>4, <2>5 DEF Shows
<1>7. \/ r = Unmoved(state)
      \/ r = [ok |-> FALSE, torn |-> TRUE, state |-> new, triggers |-> {}]
      \/ /\ next \in DOMAIN Definitions[m].states
         /\ r = [ok |-> TRUE, torn |-> FALSE, triggers |-> Triggered(actions, data),
                 state |-> entered]
  BY Zenon DEF PerformTransition, OutputsOf
<1> HIDE DEF new, entered
<1>8. ASSUME r = [ok |-> FALSE, torn |-> TRUE, state |-> new, triggers |-> {}]
      PROVE  r.state = new /\ r.ok = FALSE /\ r.torn = TRUE
  BY <1>8
<1>9. ASSUME r = [ok |-> TRUE, torn |-> FALSE, triggers |-> Triggered(actions, data),
                  state |-> entered]
      PROVE  r.state = entered /\ r.ok = TRUE
  BY <1>9
<1>10. CASE r = Unmoved(state)
  BY <1>1, <1>10, Zenon
<1>11. CASE r = [ok |-> FALSE, torn |-> TRUE, state |-> new, triggers |-> {}]
  BY <1>4, <1>8, <1>11, Zenon
<1> QED BY <1>5, <1>6, <1>7, <1>9, <1>10, <1>11, Zenon

LEMMA SoundLater ==
    ASSUME NEW states, NEW broken, Sound(states, broken), now \in Nat,
           now' = now \/ now' = now + 1
    PROVE  Sound(states, broken)'
<1>1. \A t \in 0 .. now : t \in 0 .. now'
  OBVIOUS
<1> QED BY <1>1 DEF Sound

LEMMA BlankStatesAreSound ==
    ASSUME NEW m \in Machines
    PROVE  Shaped(Blank(m), m) /\ Shows(Blank(m), m, Day(0))
<1> DEFINE first == Definitions[m].states[1]
           none == [current |-> 1, counters |-> [i \in 1 .. Definitions[m].counters |-> 0],
                    locals |-> <<>>, outputs |-> <<>>, timer |-> Never]
           locals == EvaluateAll(first.variables, StateData(none, Day(0)))
           new == [none EXCEPT !.locals = locals]
           shown == EvaluateAll(first.outputs, LocalData(new, Day(0)))
           timer == IF first.timer.kind = "None" THEN Never
                    ELSE Duration(first.timer, 0, LocalData(new, Day(0)))
<1>1. PICK counters : counters = [i \in 1 .. Definitions[m].counters |-> 0]
  OBVIOUS
<1>2. Len(counters) = Definitions[m].counters
  BY <1>1, TemplateAssumption DEF TemplateAssumption
<1>3. none = [current |-> 1, counters |-> counters,
              locals |-> <<>>, outputs |-> <<>>, timer |-> Never]
  BY <1>1, Zenon
<1>4. new = [current |-> 1, counters |-> counters,
             locals |-> locals, outputs |-> <<>>, timer |-> Never]
  <2>1. PICK n : n = none
    OBVIOUS
  <2>2. PICK c : c = [n EXCEPT !.locals = locals]
    OBVIOUS
  <2>3. c = new
    BY <2>1, <2>2, Zenon
  <2> HIDE DEF none, locals, new
  <2>4. c = [current |-> 1, counters |-> counters,
             locals |-> locals, outputs |-> <<>>, timer |-> Never]
    BY <1>3, <2>1, <2>2
  <2> QED BY <2>3, <2>4
<1>5. Blank(m) = [new EXCEPT !.outputs = shown, !.timer = timer]
  BY Zenon DEF Blank
<1>6. Blank(m) = [current |-> 1, counters |-> counters,
                  locals |-> locals, outputs |-> shown, timer |-> timer]
  <2> HIDE DEF none, locals, new, shown, timer
  <2>1. PICK a : a = [new EXCEPT !.outputs = shown]
    OBVIOUS
  <2>2. a = [current |-> 1, counters |-> counters,
             locals |-> locals, outputs |-> shown, timer |-> Never]
    BY <1>4, <2>1
  <2>3. PICK b : b = [a EXCEPT !.timer = timer]
    OBVIOUS
  <2>4. b = [current |-> 1, counters |-> counters,
             locals |-> locals, outputs |-> shown, timer |-> timer]
    BY <2>2, <2>3
  <2>5. b = Blank(m)
    BY <1>5, <2>1, <2>3, Zenon
  <2> QED BY <2>4, <2>5
<1> HIDE DEF none, locals, new, shown, timer
<1>7. Shaped(Blank(m), m)
  <2>1. Blank(m).current \in DOMAIN Definitions[m].states
    BY TemplateAssumption DEF TemplateAssumption, States
  <2> QED BY <1>2, <1>6, <2>1 DEF Shaped
<1>8. Shows(Blank(m), m, Day(0))
  <2>1. Blank(m).current = 1 /\ Blank(m).counters = counters
        /\ Blank(m).locals = locals /\ Blank(m).outputs = shown
    BY <1>6
  <2>2. none.counters = counters /\ new.counters = counters /\ new.locals = locals
    BY <1>3, <1>4
  <2>3. StateData(Blank(m), Day(0)) = StateData(none, Day(0))
    BY <2>1, <2>2 DEF StateData
  <2>4. StateData(Blank(m), Day(0)) = StateData(new, Day(0))
    BY <2>1, <2>2 DEF StateData
  <2>5. LocalData(Blank(m), Day(0)) = LocalData(new, Day(0))
    BY <2>1, <2>2, <2>4 DEF LocalData
  <2> QED BY <2>1, <2>3, <2>5 DEF Shows, locals, shown
<1> QED BY <1>7, <1>8

LEMMA SoundnessIsKept ==
    ASSUME InOrder, SoundInMemoryAndRow, [PuzzleNext]_puzzleVars
    PROVE  SoundInMemoryAndRow'
<1>1. ASSUME UNCHANGED <<machine, torn, saved>>, now' = now \/ now' = now + 1
      PROVE  SoundInMemoryAndRow'
  <2>1. PICK s, b, t, c : s = machine /\ b = torn /\ t = saved.machine /\ c = saved.torn
    OBVIOUS
  <2>2. Sound(s, b)' /\ Sound(t, c)'
    BY <1>1, <2>1, SoundLater DEF SoundInMemoryAndRow, InOrder
  <2> QED BY <1>1, <2>1, <2>2 DEF SoundInMemoryAndRow
<1>0. \A n \in Machines : /\ Shaped(machine[n], n)
                          /\ n \notin torn => \E t \in 0 .. now : Shows(machine[n], n, Day(t))
  BY Zenon DEF SoundInMemoryAndRow, Sound
<1>2. ASSUME NEW m \in Machines, ProcessInput(m) \/ ProcessTimer(m) \/ ProcessTriggers(m)
      PROVE  SoundInMemoryAndRow'
  <2>1. CASE Passes(m) \/ Misjudged
    BY <1>1, <2>1 DEF Passes, Misjudged, puzzle
  <2>2. ASSUME Moves(m) PROVE SoundInMemoryAndRow'
    <3>1. PICK r : /\ Moved(m, r) /\ Shaped(r.state, m)
                   /\ r.ok => Shows(r.state, m, Today)
                   /\ ~r.ok /\ ~r.torn => r.state = machine[m]
      <4>1. PICK next, actions, data, state, day, r :
                /\ state = machine[m] /\ day = Today
                /\ r = PerformTransition(m, state, next, actions, data, day) /\ Moved(m, r)
        BY <2>2, Zenon DEF Moves
      <4>2. Shaped(state, m)
        BY <1>0, <4>1, Zenon
      <4>3. /\ Shaped(r.state, m)
            /\ r.ok => Shows(r.state, m, day)
            /\ ~r.ok /\ ~r.torn => r.state = state
        BY <4>1, <4>2, TransitionsAreSound
      <4> QED BY <4>1, <4>3, Zenon
    <3>2. /\ machine' = [machine EXCEPT ![m] = r.state] /\ UNCHANGED <<saved, now>>
          /\ torn' = IF r.ok THEN torn \ {m} ELSE IF r.torn THEN torn \cup {m} ELSE torn
      BY <3>1 DEF Moved
    <3>3. ASSUME NEW n \in Machines, n # m
          PROVE  /\ Shaped(machine'[n], n)
                 /\ n \notin torn' => \E t \in 0 .. now : Shows(machine'[n], n, Day(t))
      <4>1. machine'[n] = machine[n] /\ (n \notin torn' => n \notin torn)
        BY <3>2, <3>3 DEF InOrder, Indexed
      <4> QED BY <1>0, <4>1, Zenon
    <3>4. /\ Shaped(machine'[m], m)
          /\ m \notin torn' => \E t \in 0 .. now : Shows(machine'[m], m, Day(t))
      <4>1. machine'[m] = r.state
        BY <3>2 DEF InOrder, Indexed
      <4>2. CASE r.ok
        <5>1. \E t \in 0 .. now : Shows(r.state, m, Day(t))
          BY <3>1, <4>2 DEF Today, InOrder
        <5> QED BY <3>1, <4>1, <5>1
      <4>3. CASE ~r.ok /\ r.torn
        BY <3>1, <3>2, <4>1, <4>3
      <4>4. CASE ~r.ok /\ ~r.torn
        <5>1. r.state = machine[m] /\ torn' = torn
          BY <3>1, <3>2, <4>4
        <5> QED BY <1>0, <4>1, <5>1, Zenon
      <4> QED BY <4>2, <4>3, <4>4
    <3> QED BY <3>2, <3>3, <3>4 DEF SoundInMemoryAndRow, Sound
  <2> QED BY <1>2, <2>1, <2>2, LookingAtAMachine
<1>3. CASE Save \/ OtherEvent
  <2>1. UNCHANGED <<machine, torn, now>>
        /\ (saved' = saved \/ saved' = [machine |-> machine, torn |-> torn])
    BY <1>3 DEF Save, OtherEvent, Written, puzzle
  <2> QED BY <2>1 DEF SoundInMemoryAndRow, Sound
<1>4. CASE Load
  <2>1. UNCHANGED <<saved, now>>
        /\ ((machine' = saved.machine /\ torn' = saved.torn) \/ UNCHANGED <<machine, torn>>)
    BY <1>4 DEF Load, puzzle
  <2> QED BY <2>1 DEF SoundInMemoryAndRow, Sound
<1>5. CASE Click \/ Elapse \/ EndPass \/ AskTimer \/ Tick \/ Crash \/ UNCHANGED puzzleVars
  BY <1>1, <1>5 DEF Click, Elapse, Begin, EndPass, AskTimer, Tick, Crash, puzzleVars, puzzle
<1> QED BY <1>2, <1>3, <1>4, <1>5 DEF PuzzleNext, Call

\* An error, a crash and a restart, whenever they come, leave each machine showing
\* the state it is in, and saved so that it can be read back, unless an error
\* struck it when its locals had been stored already.
THEOREM MachinesStayWhole == PuzzleSpec => []WholeUnlessTorn
<1>1. PuzzleInit => SoundInMemoryAndRow
  <2> SUFFICES ASSUME PuzzleInit PROVE SoundInMemoryAndRow
    OBVIOUS
  <2>1. machine = [m \in Machines |-> Blank(m)] /\ saved.machine = machine /\ now = 0
    BY DEF PuzzleInit
  <2> QED BY <2>1, BlankStatesAreSound DEF SoundInMemoryAndRow, Sound
<1>2. InOrder /\ SoundInMemoryAndRow => WholeUnlessTorn
  <2> SUFFICES ASSUME InOrder, SoundInMemoryAndRow PROVE WholeUnlessTorn
    OBVIOUS
  <2>1. ASSUME NEW m \in Machines \ torn PROVE OutputsFollowState(m)
    BY <2>1, Zenon DEF SoundInMemoryAndRow, Sound, Shows, OutputsFollowState
  <2>2. ASSUME NEW m \in Machines \ saved.torn PROVE Fits(saved.machine[m], m)
    BY <2>2, SoundStatesFit, Zenon DEF SoundInMemoryAndRow, Sound
  <2> QED BY <2>1, <2>2 DEF WholeUnlessTorn
<1>3. InOrder /\ SoundInMemoryAndRow /\ [PuzzleNext]_puzzleVars => InOrder' /\ SoundInMemoryAndRow'
  BY OrderIsKept, SoundnessIsKept
<1> QED BY <1>1, <1>2, <1>3, OrderAtFirst, PTL DEF PuzzleSpec

-----------------------------------------------------------------------------
(* The task of a location.                                                 *)

USE NameAssumption, SettingsAssumption, BoundAssumption
    DEF NameAssumption, SettingsAssumption, BoundAssumption

Player == [id : Id, kind : Kind, conn : Conn]

\* The tables of players, of ids, and what the controller knows of, have types.
Typed(pl, ids, known) ==
  /\ DOMAIN pl \subseteq Name /\ pl \in [DOMAIN pl -> Player]
  /\ DOMAIN ids \subseteq Id /\ ids \in [DOMAIN ids -> Name]
  /\ known \subseteq Id

\* Who is in, and by which id the controller knows him.
Agree(pl, ids, known) ==
  \A n \in DOMAIN pl : pl[n].id \in known /\ pl[n].id \in DOMAIN ids /\ ids[pl[n].id] = n

\* Every player and every id in the tables comes from a join that was let in.
Traced(pl, ids, letIn) ==
  /\ \A n \in DOMAIN pl : /\ pl[n].conn \in DOMAIN joins /\ joins[pl[n].conn] = n
                          /\ <<pl[n].conn, pl[n].id>> \in letIn
  /\ \A i \in DOMAIN ids : \E c \in DOMAIN joins : joins[c] = ids[i] /\ <<c, i>> \in letIn

\* The joins still to be dealt with are those that came, under their names.
JoinsAreTraced ==
  \A j \in Elements(waiting) \cup Elements(incoming) : j.conn \in DOMAIN joins /\ joins[j.conn] = j.name

\* No more ids have been given out than joins dealt with, and none is in use
\* that has not been given out.
IdsInOrder ==
  \E k \in Nat :
    /\ k + Len(waiting) + Len(incoming) <= Len(joins)
    /\ k < IdSpace => nextId = k
    /\ \A i \in present \cup DOMAIN identifiers : i < k

\* What has reached a player who came once had his id.
Delivered ==
  \A d \in delivered : d[1] \in DOMAIN joins /\ (CameOnce(joins[d[1]]) => d \in given)

TablesInv == /\ JoinsAreTraced /\ Traced(players, identifiers, given) /\ Delivered
             /\ MaxJoins <= IdSpace => IdsInOrder /\ PlayersAreKnown

-----------------------------------------------------------------------------
(* What a round does to the tables.                                        *)

LEMMA ProcessType ==
  ASSUME NEW known, known \subseteq Id, NEW out \in Process(known)
  PROVE  out \in Seq(Output)
<1>1. 0 \in Id
  BY DEF Id
<1>2. \A i \in Id, k \in {"Broadcast", "Move", "Quit", "Response"} : <<[kind |-> k, to |-> i]>> \in Seq(Output)
  BY DEF Output
<1>3. << >> \in Seq(Output)
  OBVIOUS
<1>4. \/ out = << >>
      \/ \E k \in {"Broadcast", "Quit"} : out = <<[kind |-> k, to |-> 0]>>
      \/ \E k \in {"Move", "Response"}, i \in known : out = <<[kind |-> k, to |-> i]>>
  BY DEF Process
<1> QED BY <1>1, <1>2, <1>3, <1>4

\* However a round ends, the players it leaves are players it had, less the
\* dead and those they were lost to; and their ids go with them.
LEMMA RoundsTables ==
  ASSUME NEW pl, NEW ids, NEW known, NEW out, NEW lost, NEW full,
         Typed(pl, ids, known), EndRound(pl, ids, known, out, lost, full)
  PROVE  /\ Typed(players', identifiers', present')
         /\ \A n \in DOMAIN players' : n \in DOMAIN pl /\ n \notin lost /\ players'[n] = pl[n]
         /\ Agree(pl, ids, known) => Agree(players', identifiers', present')
         /\ \A letIn : Traced(pl, ids, letIn) => Traced(players', identifiers', letIn)
         /\ present' \subseteq known /\ DOMAIN identifiers' \subseteq DOMAIN ids
<1> PICK dead, deadIds :
       /\ dead = (lost \cup DeadOf(out, ids, pl, full)) \cap DOMAIN pl
       /\ deadIds = {pl[n].id : n \in dead}
  OBVIOUS
<1>1. /\ players' = Restrict(pl, DOMAIN pl \ dead)
      /\ identifiers' = Restrict(ids, DOMAIN ids \ deadIds)
      /\ present' = known \ deadIds
  BY DEF EndRound
<1>2. /\ DOMAIN players' = DOMAIN pl \ dead /\ \A n \in DOMAIN players' : players'[n] = pl[n]
      /\ players' = [n \in DOMAIN players' |-> players'[n]]
  BY <1>1 DEF Restrict
<1>3. /\ DOMAIN identifiers' = DOMAIN ids \ deadIds /\ \A i \in DOMAIN identifiers' : identifiers'[i] = ids[i]
      /\ identifiers' = [i \in DOMAIN identifiers' |-> identifiers'[i]]
  BY <1>1 DEF Restrict
<1>4. Typed(players', identifiers', present')
  <2>1. players' \in [DOMAIN players' -> Player]
    BY <1>2 DEF Typed
  <2>2. identifiers' \in [DOMAIN identifiers' -> Name]
    BY <1>3 DEF Typed
  <2> QED BY <1>1, <1>2, <1>3, <2>1, <2>2 DEF Typed
<1>5. \A n \in DOMAIN players' : n \in DOMAIN pl /\ n \notin lost /\ players'[n] = pl[n]
  BY <1>2
<1>6. ASSUME Agree(pl, ids, known) PROVE Agree(players', identifiers', present')
  <2>1. \A n \in DOMAIN players' : pl[n].id \notin deadIds
    BY <1>2, <1>6 DEF Agree
  <2>2. ASSUME NEW n \in DOMAIN players'
        PROVE  /\ players'[n].id \in present' /\ players'[n].id \in DOMAIN identifiers'
               /\ identifiers'[players'[n].id] = n
    <3>1. n \in DOMAIN pl /\ players'[n] = pl[n] /\ pl[n].id \notin deadIds
      BY <1>2, <2>1
    <3>2. pl[n].id \in known /\ pl[n].id \in DOMAIN ids /\ ids[pl[n].id] = n
      BY <1>6, <3>1 DEF Agree
    <3> QED BY <1>1, <1>3, <3>1, <3>2
  <2> QED BY <2>2 DEF Agree
<1>7. ASSUME NEW letIn, Traced(pl, ids, letIn) PROVE Traced(players', identifiers', letIn)
  BY <1>2, <1>3, <1>7 DEF Traced
<1> QED BY <1>1, <1>3, <1>4, <1>5, <1>6, <1>7

\* What is delivered is delivered to the player whose the id is.
LEMMA RoundsDeliveries ==
  ASSUME NEW pl, NEW ids, NEW known, NEW out, NEW lost, NEW full, NEW letIn,
         EndRound(pl, ids, known, out, lost, full), Traced(pl, ids, letIn), given \subseteq letIn,
         Delivered
  PROVE  \A d \in delivered' : d[1] \in DOMAIN joins /\ (CameOnce(joins[d[1]]) => d \in letIn)
<1>1. delivered' = delivered \cup
       {<<pl[ids[i]].conn, i>> : i \in {j \in Addressed(out, ids, pl) : ids[j] \notin full}}
  BY DEF EndRound
<1>2. ASSUME NEW i \in Addressed(out, ids, pl)
      PROVE  /\ pl[ids[i]].conn \in DOMAIN joins
             /\ CameOnce(joins[pl[ids[i]].conn]) => <<pl[ids[i]].conn, i>> \in letIn
  <2>1. i \in DOMAIN ids /\ ids[i] \in DOMAIN pl
    BY DEF Addressed
  <2>2. PICK c \in DOMAIN joins : joins[c] = ids[i] /\ <<c, i>> \in letIn
    BY <2>1 DEF Traced
  <2>3. pl[ids[i]].conn \in DOMAIN joins /\ joins[pl[ids[i]].conn] = ids[i]
    BY <2>1 DEF Traced
  <2> QED BY <2>2, <2>3 DEF CameOnce
<1>3. ASSUME NEW d \in delivered' PROVE d[1] \in DOMAIN joins /\ (CameOnce(joins[d[1]]) => d \in letIn)
  <2>1. CASE d \in delivered
    BY <2>1 DEF Delivered
  <2>2. CASE d \notin delivered
    <3>1. PICK i \in Addressed(out, ids, pl) : d = <<pl[ids[i]].conn, i>>
      BY <1>1, <1>3, <2>2
    <3>2. d[1] = pl[ids[i]].conn
      BY <3>1
    <3> QED BY <1>2, <3>1, <3>2
  <2> QED BY <2>1, <2>2
<1> QED BY <1>3

\* The outputs and the messages have their types.
LEMMA RoundsOutputs ==
  ASSUME TypeOK, NEW pl, NEW ids, NEW known, NEW out, NEW lost, NEW full,
         Typed(pl, ids, known), EndRound(pl, ids, known, out, lost, full),
         Len(out) \in Nat, Len(out) >= Len(output)
  PROVE  /\ row' \in {"stored", "deleted"}
         /\ output' \in Seq(Output) /\ outputs' \in 0..MaxOutputs
         /\ delivered' \subseteq Conn \X Id
<1>1. row' \in {"stored", "deleted"}
  BY DEF EndRound, TypeOK
<1>2. present' \subseteq Id
  BY RoundsTables DEF Typed
<1>3. PICK after \in {<< >>} \cup Process(present') :
        /\ output' = after
        /\ outputs' = outputs + Len(after) + (Len(out) - Len(output))
        /\ outputs' <= MaxOutputs
  BY DEF EndRound
<1>4. after \in Seq(Output)
  <2>1. CASE after = << >>
    BY <2>1
  <2>2. CASE after \in Process(present')
    <3>1. PICK known1 : known1 = present'
      OBVIOUS
    <3> QED BY <1>2, <2>2, <3>1, ProcessType
  <2> QED BY <1>3, <2>1, <2>2
<1>5. outputs' \in 0..MaxOutputs
  <2>1. Len(after) \in Nat /\ Len(output) \in Nat
    BY <1>4 DEF TypeOK
  <2> QED BY <1>3, <2>1 DEF TypeOK
<1>6. delivered' \subseteq Conn \X Id
  <2>1. \A i \in Addressed(out, ids, pl) : pl[ids[i]].conn \in Conn /\ i \in Id
    <3>1. \A i \in Addressed(out, ids, pl) : i \in DOMAIN ids /\ ids[i] \in DOMAIN pl
      BY DEF Addressed
    <3>2. \A n \in DOMAIN pl : pl[n].conn \in Conn
      BY DEF Typed, Player
    <3> QED BY <3>1, <3>2 DEF Typed
  <2>2. delivered' = delivered \cup
          {<<pl[ids[i]].conn, i>> : i \in {j \in Addressed(out, ids, pl) : ids[j] \notin full}}
    BY DEF EndRound
  <2> QED BY <2>1, <2>2 DEF TypeOK
<1> QED BY <1>1, <1>3, <1>4, <1>5, <1>6

-----------------------------------------------------------------------------
(* What the rounds of the task start from.                                 *)

\* A round of the task ends having left these tables and lost these players.
EndsIn(pl, ids, known, lost) ==
  \E out \in Seq(Output), full \in SUBSET Name :
    Len(out) >= Len(output) /\ EndRound(pl, ids, known, out, lost, full)

\* The tables that the event leaves to the end of the round hold nobody and
\* nothing that was not in the task's tables.
Sifted(pl, ids, known) ==
  /\ Typed(pl, ids, known)
  /\ \A n \in DOMAIN pl : n \in DOMAIN players /\ pl[n].conn = players[n].conn /\ pl[n].id = players[n].id
  /\ \A i \in DOMAIN ids : i \in DOMAIN identifiers /\ ids[i] = identifiers[i]
  /\ known \subseteq present
  /\ Agree(players, identifiers, present) => Agree(pl, ids, known)

LEMMA RoundEnds ==
  ASSUME TypeOK, NEW pl, NEW ids, NEW known, NEW lost, NEW full \in SUBSET Name, known \subseteq Id,
         Round(pl, ids, known, lost, full) \/ QuietRound(pl, ids, known, lost, full)
  PROVE  EndsIn(pl, ids, known, lost) /\ task' = task
<1>1. output \in Seq(Output)
  BY DEF TypeOK
<1>2. CASE Round(pl, ids, known, lost, full)
  <2>1. PICK out \in Process(known) : EndRound(pl, ids, known, output \o out, lost, full)
    BY <1>2 DEF Round
  <2>2. out \in Seq(Output)
    BY ProcessType
  <2>3. output \o out \in Seq(Output) /\ Len(output \o out) >= Len(output)
    BY <1>1, <2>2
  <2> QED BY <1>2, <2>1, <2>3 DEF EndsIn, Round
<1>3. CASE QuietRound(pl, ids, known, lost, full)
  BY <1>1, <1>3 DEF EndsIn, QuietRound
<1> QED BY <1>2, <1>3

LEMMA TablesAreTyped ==
  ASSUME TypeOK
  PROVE  Typed(players, identifiers, present) /\ Sifted(players, identifiers, present)
BY DEF TypeOK, Typed, Sifted, Player

\* A player is forgotten.
LEMMA SiftedByLeave ==
  ASSUME TypeOK, NEW target
  PROVE  Sifted(Restrict(players, DOMAIN players \ {target}), identifiers, present)
<1> PICK pl : pl = Restrict(players, DOMAIN players \ {target})
  OBVIOUS
<1>1. Typed(players, identifiers, present)
  BY TablesAreTyped
<1>2. DOMAIN pl = DOMAIN players \ {target} /\ \A n \in DOMAIN pl : pl[n] = players[n]
  BY DEF Restrict
<1>3. pl = [n \in DOMAIN pl |-> pl[n]]
  BY DEF Restrict
<1>4. pl \in [DOMAIN pl -> Player]
  BY <1>1, <1>2, <1>3 DEF Typed
<1> QED BY <1>1, <1>2, <1>4 DEF Sifted, Typed, Agree

\* A player is forgotten, and so is his id.
LEMMA SiftedByKick ==
  ASSUME TypeOK, NEW target \in DOMAIN players
  PROVE  Sifted(Restrict(players, DOMAIN players \ {target}),
                Restrict(identifiers, DOMAIN identifiers \ {players[target].id}),
                present \ {players[target].id})
<1> PICK pl, ids, i :
       /\ pl = Restrict(players, DOMAIN players \ {target})
       /\ i = players[target].id
       /\ ids = Restrict(identifiers, DOMAIN identifiers \ {players[target].id})
  OBVIOUS
<1>1. Sifted(pl, identifiers, present)
  BY SiftedByLeave
<1>2. DOMAIN ids = DOMAIN identifiers \ {i} /\ \A x \in DOMAIN ids : ids[x] = identifiers[x]
  BY DEF Restrict
<1>3. ids = [x \in DOMAIN ids |-> ids[x]]
  BY DEF Restrict
<1>4. ids \in [DOMAIN ids -> Name]
  BY <1>1, <1>2, <1>3 DEF Sifted, Typed
<1>5. Typed(pl, ids, present \ {i})
  BY <1>1, <1>2, <1>4 DEF Sifted, Typed
<1>6. ASSUME Agree(players, identifiers, present) PROVE Agree(pl, ids, present \ {i})
  <2>1. i \in DOMAIN identifiers /\ identifiers[i] = target
    BY <1>6 DEF Agree
  <2>2. DOMAIN pl = DOMAIN players \ {target} /\ \A n \in DOMAIN pl : pl[n] = players[n]
    BY DEF Restrict
  <2>3. ASSUME NEW n \in DOMAIN pl
        PROVE  pl[n].id \in present \ {i} /\ pl[n].id \in DOMAIN ids /\ ids[pl[n].id] = n
    <3>1. /\ pl[n].id \in present /\ pl[n].id \in DOMAIN identifiers /\ identifiers[pl[n].id] = n
          /\ n # target
      BY <1>6, <2>2, <2>3 DEF Agree
    <3>2. pl[n].id # i
      BY <2>1, <3>1
    <3> QED BY <1>2, <3>1, <3>2
  <2> QED BY <2>3 DEF Agree
<1> QED BY <1>1, <1>2, <1>5, <1>6 DEF Sifted

\* The kinds of the players are written anew.
LEMMA SiftedByAccessSet ==
  ASSUME TypeOK, NEW setting
  PROVE  /\ Sifted([m \in DOMAIN players |-> [players[m] EXCEPT !.kind = KindOf(m, setting)]], identifiers, present)
         /\ \A m \in DOMAIN players : [players[m] EXCEPT !.kind = KindOf(m, setting)].kind = KindOf(m, setting)
<1> PICK pl : pl = [m \in DOMAIN players |-> [players[m] EXCEPT !.kind = KindOf(m, setting)]]
  OBVIOUS
<1>1. Typed(players, identifiers, present)
  BY TablesAreTyped
<1>2. ASSUME NEW m \in DOMAIN players
      PROVE  pl[m] \in Player /\ pl[m].id = players[m].id /\ pl[m].conn = players[m].conn /\ pl[m].kind = KindOf(m, setting)
  <2>1. PICK p \in Player : p = players[m]
    BY <1>1, <1>2 DEF Typed
  <2>2. KindOf(m, setting) \in Kind
    BY DEF KindOf, Kind
  <2>3. PICK q \in Player : q = [p EXCEPT !.kind = KindOf(m, setting)]
    BY <2>2 DEF Player
  <2>4. q.id = p.id /\ q.conn = p.conn /\ q.kind = KindOf(m, setting)
    BY <2>3 DEF Player
  <2>5. pl[m] = q
    BY <1>2, <2>1, <2>3
  <2> QED BY <2>1, <2>4, <2>5
<1>3. DOMAIN pl = DOMAIN players
  OBVIOUS
<1>4. pl \in [DOMAIN pl -> Player]
  BY <1>2, <1>3
<1>5. Sifted(pl, identifiers, present)
  BY <1>1, <1>2, <1>3, <1>4 DEF Sifted, Typed, Agree
<1> QED BY <1>2, <1>5

-----------------------------------------------------------------------------
(* Every round of the task, from its event to its end.                     *)

\* What the rest of TypeOK says: of the variables no end of a round sets.
OthersTyped ==
  /\ task \in {"running", "over"}
  /\ acl \in Settings
  /\ waiting \in Seq(Join) /\ incoming \in Seq(Join)
  /\ joins \in Seq(Name) /\ Len(joins) <= MaxJoins
  /\ gone \subseteq Conn
  /\ nextId \in Id
  /\ changes \in 0..MaxChanges
  /\ given \subseteq Conn \X Id

\* The tables between the event and the end of its round: whoever is not lost
\* may be in, and every player and id comes from a join that was let in.
Settled(pl, ids, known, lost) ==
  /\ Typed(pl, ids, known) /\ EndsIn(pl, ids, known, lost)
  /\ OthersTyped'
  /\ AccessIsEnforced => \A n \in DOMAIN pl \ lost : Welcome(n, acl') /\ pl[n].kind = KindOf(n, acl')
  /\ JoinsAreTraced /\ Traced(players, identifiers, given) => JoinsAreTraced' /\ Traced(pl, ids, given')
  /\ given \subseteq given' /\ joins' = joins
  /\ MaxJoins <= IdSpace /\ IdsInOrder /\ PlayersAreKnown =>
       /\ Agree(pl, ids, known)
       /\ \E k \in Nat : /\ k + Len(waiting') + Len(incoming') <= Len(joins')
                         /\ k < IdSpace => nextId' = k
                         /\ \A i \in known \cup DOMAIN ids : i < k

\* An event that lets nobody in settles on tables sifted from the task's.
LEMMA SiftedSettles ==
  ASSUME TypeOK, NEW pl, NEW ids, NEW known, NEW lost,
         Sifted(pl, ids, known), EndsIn(pl, ids, known, lost),
         AccessIsEnforced => \A n \in DOMAIN pl \ lost : Welcome(n, acl') /\ pl[n].kind = KindOf(n, acl'),
         OthersTyped', UNCHANGED <<joins, nextId, given>>,
         Elements(waiting') \subseteq Elements(waiting), Elements(incoming') \subseteq Elements(incoming),
         Len(waiting') + Len(incoming') <= Len(waiting) + Len(incoming)
  PROVE  Settled(pl, ids, known, lost)
<1>1. ASSUME JoinsAreTraced PROVE JoinsAreTraced'
  <2>1. Elements(waiting)' = Elements(waiting') /\ Elements(incoming)' = Elements(incoming')
    BY DEF Elements
  <2> QED BY <1>1, <2>1 DEF JoinsAreTraced
<1>2. ASSUME Traced(players, identifiers, given) PROVE Traced(pl, ids, given')
  BY <1>2 DEF Sifted, Traced
<1>3. ASSUME IdsInOrder, PlayersAreKnown
      PROVE  /\ Agree(pl, ids, known)
             /\ \E k \in Nat : /\ k + Len(waiting') + Len(incoming') <= Len(joins')
                               /\ k < IdSpace => nextId' = k
                               /\ \A i \in known \cup DOMAIN ids : i < k
  <2>1. Agree(pl, ids, known)
    BY <1>3 DEF Sifted, PlayersAreKnown, Agree
  <2>2. PICK k \in Nat : /\ k + Len(waiting) + Len(incoming) <= Len(joins)
                         /\ k < IdSpace => nextId = k
                         /\ \A i \in present \cup DOMAIN identifiers : i < k
    BY <1>3 DEF IdsInOrder
  <2>3. \A i \in known \cup DOMAIN ids : i \in present \cup DOMAIN identifiers
    BY DEF Sifted
  <2>4. Len(waiting') \in Nat /\ Len(incoming') \in Nat /\ Len(waiting) \in Nat /\ Len(incoming) \in Nat /\ Len(joins) \in Nat
    BY DEF OthersTyped, TypeOK
  <2>5. k + Len(waiting') + Len(incoming') <= Len(joins')
    BY <2>2, <2>4
  <2> QED BY <2>1, <2>2, <2>3, <2>5
<1> QED BY <1>1, <1>2, <1>3 DEF Settled, Sifted

\* An event that leaves the setting and the connections waiting as they are.
LEMMA KeptSettles ==
  ASSUME TypeOK, NEW pl, NEW ids, NEW known, NEW lost,
         Sifted(pl, ids, known), EndsIn(pl, ids, known, lost),
         \A n \in DOMAIN pl : pl[n] = players[n],
         task' = task, UNCHANGED <<acl, changes, requests, nextId, given>>
  PROVE  Settled(pl, ids, known, lost)
<1>1. AccessIsEnforced => \A n \in DOMAIN pl \ lost : Welcome(n, acl') /\ pl[n].kind = KindOf(n, acl')
  <2>1. ASSUME AccessIsEnforced, NEW n \in DOMAIN pl \ lost
        PROVE  Welcome(n, acl') /\ pl[n].kind = KindOf(n, acl')
    <3>1. n \in DOMAIN players /\ pl[n] = players[n] /\ acl' = acl
      BY <2>1 DEF Sifted
    <3>2. Welcome(n, acl) /\ players[n].kind = KindOf(n, acl)
      BY <2>1, <3>1 DEF AccessIsEnforced
    <3> QED BY <3>1, <3>2
  <2> QED BY <2>1
<1>2. UNCHANGED <<waiting, incoming, joins, gone>>
  BY DEF requests
<1>3. OthersTyped'
  BY <1>2 DEF TypeOK, OthersTyped
<1>4. /\ Elements(waiting') = Elements(waiting) /\ Elements(incoming') = Elements(incoming)
      /\ Len(waiting') + Len(incoming') <= Len(waiting) + Len(incoming)
  BY <1>2 DEF TypeOK
<1> QED BY <1>1, <1>2, <1>3, <1>4, SiftedSettles

LEMMA AccessSetSettles ==
  ASSUME TypeOK, NEW n, AccessSet(n)
  PROVE  \E pl, ids, known, lost : Settled(pl, ids, known, lost)
<1>1. PICK setting \in Settings, full \in Unreachable(players) :
        /\ acl' = setting
        /\ QuietRound([m \in DOMAIN players |-> [players[m] EXCEPT !.kind = KindOf(m, setting)]],
                      identifiers, present, Denied(setting) \cup (full \cap {n}), full)
  BY DEF AccessSet
<1> PICK pl, lost : /\ pl = [m \in DOMAIN players |-> [players[m] EXCEPT !.kind = KindOf(m, setting)]]
                    /\ lost = Denied(setting) \cup (full \cap {n})
  OBVIOUS
<1>2. full \in SUBSET Name
  BY DEF Unreachable, TypeOK
<1>3. present \subseteq Id
  BY DEF TypeOK
<1>4. EndsIn(pl, identifiers, present, lost) /\ task' = task
  BY <1>1, <1>2, <1>3, RoundEnds
<1>5. /\ Sifted(pl, identifiers, present)
      /\ \A m \in DOMAIN pl : m \in Name /\ pl[m].kind = KindOf(m, setting)
  <2>1. DOMAIN pl = DOMAIN players /\ \A m \in DOMAIN pl : pl[m] = [players[m] EXCEPT !.kind = KindOf(m, setting)]
    OBVIOUS
  <2>2. DOMAIN players \subseteq Name
    BY DEF TypeOK
  <2> QED BY <2>1, <2>2, SiftedByAccessSet
<1>6. \A m \in DOMAIN pl \ lost : Welcome(m, acl') /\ pl[m].kind = KindOf(m, acl')
  BY <1>1, <1>5 DEF Denied, Welcome
<1>7. UNCHANGED <<waiting, incoming, joins, gone, nextId, given>>
  BY DEF AccessSet, requests
<1>8. OthersTyped'
  <2>1. changes' \in 0..MaxChanges
    BY DEF AccessSet, TypeOK
  <2> QED BY <1>1, <1>4, <1>7, <2>1 DEF TypeOK, OthersTyped
<1>9. /\ Elements(waiting') = Elements(waiting) /\ Elements(incoming') = Elements(incoming)
      /\ Len(waiting') + Len(incoming') <= Len(waiting) + Len(incoming)
  BY <1>7 DEF TypeOK
<1> QED BY <1>4, <1>5, <1>6, <1>7, <1>8, <1>9, SiftedSettles

LEMMA EventsSettle ==
  ASSUME TypeOK,
         \/ Ignore \/ Timer
         \/ \E n \in Name : Leave(n) \/ AccessSet(n) \/ Talk(n) \/ AskController(n) \/ Delete(n)
                              \/ \E target \in Name : Kick(n, target)
  PROVE  \E pl, ids, known, lost : Settled(pl, ids, known, lost)
<1>1. Sifted(players, identifiers, present)
  BY TablesAreTyped
<1>2. present \subseteq Id /\ \A full \in Unreachable(players) : full \in SUBSET Name
  BY DEF TypeOK, Unreachable
<1>3. {} \in SUBSET Name
  OBVIOUS
<1>4. CASE Ignore
  <2>1. PICK full \in Unreachable(players) : QuietRound(players, identifiers, present, {}, full)
    BY <1>4 DEF Ignore
  <2>2. EndsIn(players, identifiers, present, {}) /\ task' = task
    BY <1>2, <2>1, RoundEnds
  <2> QED BY <1>1, <1>4, <2>2, KeptSettles DEF Ignore
<1>5. CASE Timer
  <2>1. PICK full \in Unreachable(players) : Round(players, identifiers, present, {}, full)
    BY <1>5 DEF Timer
  <2>2. EndsIn(players, identifiers, present, {}) /\ task' = task
    BY <1>2, <2>1, RoundEnds
  <2> QED BY <1>1, <1>5, <2>2, KeptSettles DEF Timer
<1>6. ASSUME NEW n \in Name, Leave(n) PROVE \E pl, ids, known, lost : Settled(pl, ids, known, lost)
  <2> PICK pl : pl = Restrict(players, DOMAIN players \ {n})
    OBVIOUS
  <2>1. QuietRound(pl, identifiers, present, {n}, {})
    BY <1>6 DEF Leave
  <2>2. EndsIn(pl, identifiers, present, {n}) /\ task' = task
    BY <1>2, <1>3, <2>1, RoundEnds
  <2>3. Sifted(pl, identifiers, present) /\ \A m \in DOMAIN pl : pl[m] = players[m]
    BY SiftedByLeave DEF Restrict
  <2> QED BY <1>6, <2>2, <2>3, KeptSettles DEF Leave
<1>7. ASSUME NEW n \in Name, AccessSet(n) PROVE \E pl, ids, known, lost : Settled(pl, ids, known, lost)
  BY <1>7, AccessSetSettles
<1>8. ASSUME NEW n \in Name, Talk(n) PROVE \E pl, ids, known, lost : Settled(pl, ids, known, lost)
  <2>1. PICK full \in Unreachable(players) : \E lost : QuietRound(players, identifiers, present, lost, full)
    BY <1>8 DEF Talk
  <2>2. PICK lost : QuietRound(players, identifiers, present, lost, full)
    BY <2>1
  <2>3. EndsIn(players, identifiers, present, lost) /\ task' = task
    BY <1>2, <2>1, <2>2, RoundEnds
  <2> QED BY <1>1, <1>8, <2>3, KeptSettles DEF Talk
<1>9. ASSUME NEW n \in Name, AskController(n) PROVE \E pl, ids, known, lost : Settled(pl, ids, known, lost)
  <2>1. PICK full \in Unreachable(players) : Round(players, identifiers, present, {}, full)
    BY <1>9 DEF AskController
  <2>2. EndsIn(players, identifiers, present, {}) /\ task' = task
    BY <1>2, <2>1, RoundEnds
  <2> QED BY <1>1, <1>9, <2>2, KeptSettles DEF AskController
<1>10. ASSUME NEW n \in Name, Delete(n) PROVE \E pl, ids, known, lost : Settled(pl, ids, known, lost)
  <2> PICK out : out = <<[kind |-> "Quit", to |-> 0]>>
    OBVIOUS
  <2>1. out \in Seq(Output) /\ output = << >> /\ Len(out) >= Len(output)
    BY <1>10 DEF Delete, Selecting, Output, Id
  <2>2. EndRound(players, identifiers, present, out, {}, {})
    BY <1>10 DEF Delete
  <2>3. EndsIn(players, identifiers, present, {})
    BY <1>3, <2>1, <2>2 DEF EndsIn
  <2> QED BY <1>1, <1>10, <2>3, KeptSettles DEF Delete
<1>11. ASSUME NEW n \in Name, NEW target \in Name, Kick(n, target)
       PROVE \E pl, ids, known, lost : Settled(pl, ids, known, lost)
  <2> PICK pl, ids, known :
        /\ pl = Restrict(players, DOMAIN players \ {target})
        /\ ids = Restrict(identifiers, DOMAIN identifiers \ {players[target].id})
        /\ known = present \ {players[target].id}
    OBVIOUS
  <2>1. PICK full \in Unreachable(players) : Round(pl, ids, known, full \cap {n}, full)
    BY <1>11 DEF Kick
  <2>2. EndsIn(pl, ids, known, full \cap {n}) /\ task' = task
    BY <1>2, <2>1, RoundEnds
  <2>3. Sifted(pl, ids, known) /\ \A m \in DOMAIN pl : pl[m] = players[m]
    BY <1>11, SiftedByKick DEF Kick, Restrict
  <2> QED BY <1>11, <2>2, <2>3, KeptSettles DEF Kick
<1> QED BY <1>4, <1>5, <1>6, <1>7, <1>8, <1>9, <1>10, <1>11

\* As long as ids are not used again, the next one is new to every table.
LEMMA NextIdIsNew ==
  ASSUME TypeOK, MaxJoins <= IdSpace, IdsInOrder, Len(waiting) + Len(incoming) > 0
  PROVE  /\ nextId \notin present \cup DOMAIN identifiers
         /\ nextId + Len(waiting) + Len(incoming) <= Len(joins)
         /\ nextId + 1 < IdSpace => WrappingAdd(nextId) = nextId + 1
         /\ \A i \in present \cup DOMAIN identifiers : i < nextId
<1>1. PICK k \in Nat : /\ k + Len(waiting) + Len(incoming) <= Len(joins)
                       /\ k < IdSpace => nextId = k
                       /\ \A i \in present \cup DOMAIN identifiers : i < k
  BY DEF IdsInOrder
<1>2. Len(waiting) \in Nat /\ Len(incoming) \in Nat /\ Len(joins) \in Nat /\ Len(joins) <= MaxJoins
  BY DEF TypeOK
<1>3. k < IdSpace /\ nextId = k
  BY <1>1, <1>2
<1>4. nextId + 1 < IdSpace => WrappingAdd(nextId) = nextId + 1
  BY <1>3 DEF WrappingAdd
<1>5. \A i \in present \cup DOMAIN identifiers : i \in Int
  BY DEF TypeOK, Id
<1> QED BY <1>1, <1>3, <1>4, <1>5

\* The tables pl and ids are the task's, but for a newcomer n under his id.
Joined(pl, ids, n, p) ==
  /\ \A m \in DOMAIN pl : \/ m = n /\ pl[m] = p
                          \/ m # n /\ m \in DOMAIN players /\ pl[m] = players[m]
  /\ \A i \in DOMAIN ids : \/ i = nextId /\ ids[i] = n
                           \/ i # nextId /\ i \in DOMAIN identifiers /\ ids[i] = identifiers[i]
  /\ DOMAIN ids = DOMAIN identifiers \cup {nextId}

LEMMA NewcomersTables ==
  ASSUME TypeOK, NEW n \in Name, NEW p \in Player, NEW pl, NEW ids,
         pl = With(players, n, p), ids = Identified(identifiers, nextId, n)
  PROVE  Typed(pl, ids, present \cup {nextId}) /\ Joined(pl, ids, n, p)
<1>1. /\ DOMAIN pl = DOMAIN players \cup {n} /\ pl = [m \in DOMAIN pl |-> pl[m]]
      /\ \A m \in DOMAIN pl : pl[m] = IF m = n THEN p ELSE players[m]
  BY DEF With
<1>2. /\ DOMAIN ids = DOMAIN identifiers \cup {nextId} /\ ids = [i \in DOMAIN ids |-> ids[i]]
      /\ \A i \in DOMAIN ids : ids[i] = IF i = nextId THEN n ELSE identifiers[i]
  BY DEF Identified
<1>3. Typed(players, identifiers, present) /\ nextId \in Id
  BY TablesAreTyped DEF TypeOK
<1>4. pl \in [DOMAIN pl -> Player]
  <2>1. \A m \in DOMAIN pl : pl[m] \in Player
    BY <1>1, <1>3 DEF Typed
  <2> QED BY <1>1, <2>1
<1>5. ids \in [DOMAIN ids -> Name]
  <2>1. \A i \in DOMAIN ids : ids[i] \in Name
    BY <1>2, <1>3 DEF Typed
  <2> QED BY <1>2, <2>1
<1>6. Typed(pl, ids, present \cup {nextId})
  BY <1>1, <1>2, <1>3, <1>4, <1>5 DEF Typed
<1> QED BY <1>1, <1>2, <1>6 DEF Joined

LEMMA AddSettles ==
  ASSUME TypeOK, NEW j \in Elements(waiting) \cup Elements(incoming), Admit(j) \/ TurnAway(j),
         waiting' \in Seq(Join), incoming' \in Seq(Join),
         Elements(waiting') \subseteq Elements(waiting), Elements(incoming') \subseteq Elements(incoming),
         Len(waiting') + Len(incoming') + 1 = Len(waiting) + Len(incoming),
         UNCHANGED <<acl, changes, joins, gone>>
  PROVE  \E pl, ids, known, lost : Settled(pl, ids, known, lost)
<1>1. j \in Join
  <2>1. ASSUME NEW S, NEW s \in Seq(S) PROVE \A i \in 1..Len(s) : s[i] \in S
    BY <2>1
  <2>2. waiting \in Seq(Join) /\ incoming \in Seq(Join)
    BY DEF TypeOK
  <2> QED BY <2>1, <2>2 DEF Elements
<1>2. j.name \in Name /\ j.conn \in Conn
  BY <1>1 DEF Join
<1>3. /\ Sifted(players, identifiers, present) /\ present \subseteq Id /\ nextId \in Id
      /\ \A full \in Unreachable(players) : full \in SUBSET Name
  BY TablesAreTyped DEF TypeOK, Unreachable
<1>4. /\ Len(waiting) \in Nat /\ Len(incoming) \in Nat /\ Len(waiting') \in Nat /\ Len(incoming') \in Nat
      /\ Len(joins) \in Nat
  BY DEF TypeOK
<1>5. JoinsAreTraced => JoinsAreTraced'
  <2>1. Elements(waiting)' = Elements(waiting') /\ Elements(incoming)' = Elements(incoming')
    BY DEF Elements
  <2> QED BY <2>1 DEF JoinsAreTraced
<1>6. WrappingAdd(nextId) \in Id
  BY <1>3 DEF WrappingAdd, Id
<1>7. CASE TurnAway(j)
  <2>1. EndsIn(players, identifiers, present, {}) /\ task' = task
    BY <1>3, <1>7, RoundEnds DEF TurnAway
  <2>2. OthersTyped'
    BY <1>7, <2>1 DEF TurnAway, TypeOK, OthersTyped
  <2>3. AccessIsEnforced => \A n \in DOMAIN players \ {} : Welcome(n, acl') /\ players[n].kind = KindOf(n, acl')
    BY DEF AccessIsEnforced
  <2>4. UNCHANGED <<joins, nextId, given>>
    BY <1>7 DEF TurnAway
  <2>5. Len(waiting') + Len(incoming') <= Len(waiting) + Len(incoming)
    BY <1>4
  <2>6. Settled(players, identifiers, present, {})
    BY <1>3, <2>1, <2>2, <2>3, <2>4, <2>5, SiftedSettles
  <2> QED BY <2>6
<1>8. CASE Admit(j)
  <2>1. PICK full \in Unreachable(players) :
       \/ Round(players, identifiers, present \ {nextId}, {}, full) /\ given' = given
       \/ /\ given' = given \cup {<<j.conn, nextId>>}
          /\ Round(With(players, j.name,
                        [id |-> nextId, kind |-> KindOf(j.name, acl), conn |-> j.conn]),
                   Identified(identifiers, nextId, j.name), present \cup {nextId}, full, full)
    BY <1>8 DEF Admit
  <2>2. nextId' = WrappingAdd(nextId) /\ Welcome(j.name, acl)
    BY <1>8 DEF Admit
  <2>3. ASSUME MaxJoins <= IdSpace, IdsInOrder
        PROVE  /\ (nextId + 1) + Len(waiting') + Len(incoming') <= Len(joins')
               /\ nextId + 1 \in Nat
               /\ nextId + 1 < IdSpace => nextId' = nextId + 1
               /\ nextId \notin present \cup DOMAIN identifiers
               /\ \A i \in present \cup DOMAIN identifiers \cup {nextId} : i < nextId + 1
    <3>1. Len(waiting) + Len(incoming) > 0
      BY <1>4
    <3>2. /\ nextId \notin present \cup DOMAIN identifiers
          /\ nextId + Len(waiting) + Len(incoming) <= Len(joins)
          /\ nextId + 1 < IdSpace => WrappingAdd(nextId) = nextId + 1
          /\ \A i \in present \cup DOMAIN identifiers : i < nextId
      BY <2>3, <3>1, NextIdIsNew
    <3>3. nextId \in Nat /\ \A i \in present \cup DOMAIN identifiers : i \in Int
      BY DEF TypeOK, Id
    <3>4. (nextId + 1) + Len(waiting') + Len(incoming') <= Len(joins')
      BY <1>4, <3>2, <3>3
    <3> QED BY <2>2, <3>2, <3>3, <3>4
  <2>4. CASE Round(players, identifiers, present \ {nextId}, {}, full) /\ given' = given
    <3> PICK known : known = present \ {nextId}
      OBVIOUS
    <3>1. EndsIn(players, identifiers, known, {}) /\ task' = task
      BY <1>3, <2>4, RoundEnds
    <3>2. OthersTyped'
      BY <1>6, <2>2, <2>4, <3>1 DEF TypeOK, OthersTyped
    <3>3. Typed(players, identifiers, known)
      BY <1>3 DEF Sifted, Typed
    <3>4. AccessIsEnforced => \A n \in DOMAIN players \ {} : Welcome(n, acl') /\ players[n].kind = KindOf(n, acl')
      BY DEF AccessIsEnforced
    <3>5. Traced(players, identifiers, given) => Traced(players, identifiers, given')
      BY <2>4
    <3>6. ASSUME MaxJoins <= IdSpace, IdsInOrder, PlayersAreKnown
          PROVE  /\ Agree(players, identifiers, known)
                 /\ \E k \in Nat : /\ k + Len(waiting') + Len(incoming') <= Len(joins')
                                   /\ k < IdSpace => nextId' = k
                                   /\ \A i \in known \cup DOMAIN identifiers : i < k
      <4>1. Agree(players, identifiers, known)
        BY <2>3, <3>6 DEF PlayersAreKnown, Agree
      <4>2. \A i \in known \cup DOMAIN identifiers : i \in present \cup DOMAIN identifiers \cup {nextId}
        OBVIOUS
      <4> QED BY <2>3, <3>6, <4>1, <4>2
    <3>7. Settled(players, identifiers, known, {})
      BY <1>5, <2>4, <3>1, <3>2, <3>3, <3>4, <3>5, <3>6 DEF Settled
    <3> QED BY <3>7
  <2>5. CASE /\ given' = given \cup {<<j.conn, nextId>>}
             /\ Round(With(players, j.name,
                           [id |-> nextId, kind |-> KindOf(j.name, acl), conn |-> j.conn]),
                      Identified(identifiers, nextId, j.name), present \cup {nextId}, full, full)
    <3>0. PICK p : p = [id |-> nextId, kind |-> KindOf(j.name, acl), conn |-> j.conn]
      OBVIOUS
    <3>9. PICK pl, ids, known : /\ pl = With(players, j.name, p)
                                /\ ids = Identified(identifiers, nextId, j.name)
                                /\ known = present \cup {nextId}
      OBVIOUS
    <3>1. p \in Player /\ p.id = nextId /\ p.conn = j.conn /\ p.kind = KindOf(j.name, acl)
      BY <1>2, <1>3, <3>0 DEF Player, KindOf, Kind
    <3>2. Typed(pl, ids, known) /\ Joined(pl, ids, j.name, p)
      BY <1>2, <3>1, <3>9, NewcomersTables
    <3>3. EndsIn(pl, ids, known, full) /\ task' = task
      <4>1. Round(pl, ids, known, full, full)
        BY <2>5, <3>0, <3>9
      <4>2. known \subseteq Id
        BY <1>3, <3>9
      <4> QED BY <1>3, <4>1, <4>2, RoundEnds
    <3>4. OthersTyped'
      <4>1. <<j.conn, nextId>> \in Conn \X Id
        BY <1>2, <1>3
      <4> QED BY <1>6, <2>2, <2>5, <3>3, <4>1 DEF TypeOK, OthersTyped
    <3>5. AccessIsEnforced => \A n \in DOMAIN pl \ full : Welcome(n, acl') /\ pl[n].kind = KindOf(n, acl')
      BY <2>2, <3>1, <3>2 DEF AccessIsEnforced, Joined
    <3>6. ASSUME JoinsAreTraced, Traced(players, identifiers, given) PROVE Traced(pl, ids, given')
      <4>1. j.conn \in DOMAIN joins /\ joins[j.conn] = j.name
        BY <3>6 DEF JoinsAreTraced
      <4>2. <<j.conn, nextId>> \in given' /\ given \subseteq given'
        BY <2>5
      <4>3. \A n \in DOMAIN pl : /\ pl[n].conn \in DOMAIN joins /\ joins[pl[n].conn] = n
                                 /\ <<pl[n].conn, pl[n].id>> \in given'
        <5>1. ASSUME NEW n \in DOMAIN pl, n = j.name
              PROVE  pl[n].conn = j.conn /\ pl[n].id = nextId
          BY <3>1, <3>2, <5>1 DEF Joined
        <5>2. ASSUME NEW n \in DOMAIN pl, n # j.name
              PROVE  /\ pl[n].conn \in DOMAIN joins /\ joins[pl[n].conn] = n
                     /\ <<pl[n].conn, pl[n].id>> \in given'
          <6>1. n \in DOMAIN players /\ pl[n] = players[n]
            BY <3>2, <5>2 DEF Joined
          <6> QED BY <3>6, <4>2, <6>1 DEF Traced
        <5> QED BY <4>1, <4>2, <5>1, <5>2
      <4>4. \A i \in DOMAIN ids : \E c \in DOMAIN joins : joins[c] = ids[i] /\ <<c, i>> \in given'
        BY <3>2, <3>6, <4>1, <4>2 DEF Traced, Joined
      <4> QED BY <4>3, <4>4 DEF Traced
    <3>7. ASSUME MaxJoins <= IdSpace, IdsInOrder, PlayersAreKnown
          PROVE  /\ Agree(pl, ids, known)
                 /\ \E k \in Nat : /\ k + Len(waiting') + Len(incoming') <= Len(joins')
                                   /\ k < IdSpace => nextId' = k
                                   /\ \A i \in known \cup DOMAIN ids : i < k
      <4>1. ASSUME NEW n \in DOMAIN pl
            PROVE  pl[n].id \in known /\ pl[n].id \in DOMAIN ids /\ ids[pl[n].id] = n
        <5>1. CASE n = j.name
          BY <3>1, <3>2, <3>9, <4>1, <5>1 DEF Joined
        <5>2. CASE n # j.name
          <6>1. n \in DOMAIN players /\ pl[n] = players[n]
            BY <3>2, <4>1, <5>2 DEF Joined
          <6>2. /\ players[n].id \in present /\ players[n].id \in DOMAIN identifiers
                /\ identifiers[players[n].id] = n
            BY <3>7, <6>1 DEF PlayersAreKnown
          <6>3. players[n].id # nextId
            BY <2>3, <3>7, <6>2
          <6> QED BY <3>2, <3>9, <6>1, <6>2, <6>3 DEF Joined
        <5> QED BY <5>1, <5>2
      <4>2. \A i \in known \cup DOMAIN ids : i \in present \cup DOMAIN identifiers \cup {nextId}
        BY <3>2, <3>9 DEF Joined
      <4> QED BY <2>3, <3>7, <4>1, <4>2 DEF Agree
    <3>8. Settled(pl, ids, known, full)
      BY <1>5, <2>5, <3>2, <3>3, <3>4, <3>5, <3>6, <3>7 DEF Settled
    <3> QED BY <3>8
  <2> QED BY <2>1, <2>4, <2>5
<1> QED BY <1>7, <1>8

\* What is not a round: a player comes or hangs up, a join is dropped with its
\* connection, or the task ends.
Quietly ==
  /\ UNCHANGED <<row, acl, table, output, outputs, delivered>>
  /\ OthersTyped'
  /\ JoinsAreTraced => JoinsAreTraced'
  /\ joins' = joins \/ \E n \in Name : joins' = Append(joins, n)
  /\ Len(waiting') + Len(incoming') - Len(joins') <= Len(waiting) + Len(incoming) - Len(joins)

LEMMA ArrivesQuietly ==
  ASSUME TypeOK, NEW n \in Name, Arrive(n)
  PROVE  Quietly
<1> PICK j : j = [name |-> n, conn |-> Len(joins) + 1]
  OBVIOUS
<1>1. joins \in Seq(Name) /\ incoming \in Seq(Join) /\ Len(joins) \in Nat /\ Len(incoming) \in Nat /\ Len(joins) < MaxJoins
  BY DEF TypeOK, Arrive
<1>2. /\ joins' = Append(joins, n) /\ joins' \in Seq(Name) /\ Len(joins') = Len(joins) + 1
      /\ joins'[Len(joins) + 1] = n /\ \A c \in DOMAIN joins : c \in DOMAIN joins' /\ joins'[c] = joins[c]
      /\ Len(joins) + 1 \in DOMAIN joins'
  BY <1>1 DEF Arrive
<1>3. j \in Join /\ j.name = n /\ j.conn = Len(joins) + 1
  BY <1>1 DEF Join, Conn
<1>4. incoming' = Append(incoming, j)
  BY <1>2 DEF Arrive
<1>5. incoming' \in Seq(Join) /\ Len(incoming') = Len(incoming) + 1
  BY <1>1, <1>3, <1>4
<1>6. Elements(incoming') \subseteq Elements(incoming) \cup {j}
  BY <1>1, <1>3, <1>4, <1>5 DEF Elements
<1>7. UNCHANGED <<task, row, acl, changes, waiting, table, nextId, given, output, outputs, delivered>>
  BY DEF Arrive, table
<1>8. gone' \subseteq Conn
  <2>1. ASSUME NEW S, NEW s \in Seq(S) PROVE \A i \in 1..Len(s) : s[i] \in S
    BY <2>1
  <2>2. \A q \in Elements(waiting) \cup Elements(incoming) : q.conn \in Conn
    <3>1. waiting \in Seq(Join) /\ incoming \in Seq(Join)
      BY DEF TypeOK
    <3>2. \A q \in Elements(waiting) \cup Elements(incoming) : q \in Join
      BY <2>1, <3>1 DEF Elements
    <3> QED BY <3>2 DEF Join
  <2>3. \A m \in DOMAIN players : players[m].conn \in Conn
    BY DEF TypeOK
  <2>4. ConnsOf(n) \subseteq Conn
    BY <2>2, <2>3 DEF ConnsOf
  <2> QED BY <2>4 DEF Arrive, TypeOK
<1>9. OthersTyped'
  BY <1>1, <1>2, <1>5, <1>7, <1>8 DEF OthersTyped, TypeOK
<1>10. ASSUME JoinsAreTraced PROVE JoinsAreTraced'
  <2>1. Elements(waiting)' = Elements(waiting) /\ Elements(incoming)' = Elements(incoming')
    BY <1>7 DEF Elements
  <2>2. \A q \in Elements(waiting) \cup Elements(incoming) : q.conn \in DOMAIN joins' /\ joins'[q.conn] = q.name
    BY <1>2, <1>10 DEF JoinsAreTraced
  <2> QED BY <1>2, <1>3, <1>6, <2>1, <2>2 DEF JoinsAreTraced
<1>11. Len(waiting') + Len(incoming') - Len(joins') <= Len(waiting) + Len(incoming) - Len(joins)
  BY <1>1, <1>2, <1>5, <1>7 DEF TypeOK
<1> QED BY <1>2, <1>7, <1>9, <1>10, <1>11 DEF Quietly

\* The joins left when one is taken from either end.
LEMMA JoinsLeft ==
  ASSUME NEW s \in Seq(Join), s # << >>
  PROVE  /\ Tail(s) \in Seq(Join) /\ Len(Tail(s)) + 1 = Len(s) /\ Elements(Tail(s)) \subseteq Elements(s)
         /\ Head(s) \in Elements(s) /\ s[Len(s)] \in Elements(s)
         /\ SubSeq(s, 1, Len(s) - 1) \in Seq(Join) /\ Len(SubSeq(s, 1, Len(s) - 1)) + 1 = Len(s)
         /\ Elements(SubSeq(s, 1, Len(s) - 1)) \subseteq Elements(s)
<1>1. Len(s) \in Nat \ {0}
  OBVIOUS
<1>2. Tail(s) \in Seq(Join) /\ Len(Tail(s)) = Len(s) - 1 /\ \A i \in 1..Len(Tail(s)) : Tail(s)[i] = s[i + 1]
  OBVIOUS
<1>3. Elements(Tail(s)) \subseteq Elements(s)
  <2>1. \A i \in 1..Len(Tail(s)) : i + 1 \in 1..Len(s) /\ Tail(s)[i] = s[i + 1]
    BY <1>1, <1>2
  <2> QED BY <2>1 DEF Elements
<1>4. /\ SubSeq(s, 1, Len(s) - 1) \in Seq(Join) /\ Len(SubSeq(s, 1, Len(s) - 1)) = Len(s) - 1
      /\ \A i \in 1..Len(s) - 1 : SubSeq(s, 1, Len(s) - 1)[i] = s[i]
  <2>1. PICK n \in Int : n = Len(s) - 1
    BY <1>1
  <2>2. \A i \in 1..n : s[i] \in Join
    BY <1>1, <2>1
  <2>3. /\ SubSeq(s, 1, n) \in Seq(Join)
        /\ Len(SubSeq(s, 1, n)) = IF 1 <= n THEN n - 1 + 1 ELSE 0
        /\ \A i \in 1..n - 1 + 1 : SubSeq(s, 1, n)[i] = s[1 + i - 1]
    BY <2>1, <2>2, SubSeqProperties
  <2> QED BY <1>1, <2>1, <2>3
<1>5. Elements(SubSeq(s, 1, Len(s) - 1)) \subseteq Elements(s)
  <2>1. \A i \in 1..Len(SubSeq(s, 1, Len(s) - 1)) : i \in 1..Len(s) /\ SubSeq(s, 1, Len(s) - 1)[i] = s[i]
    BY <1>1, <1>4
  <2> QED BY <2>1 DEF Elements
<1>6. Head(s) \in Elements(s) /\ s[Len(s)] \in Elements(s)
  <2>1. Head(s) = s[1] /\ 1 \in 1..Len(s) /\ Len(s) \in 1..Len(s)
    BY <1>1
  <2> QED BY <2>1 DEF Elements
<1> QED BY <1>1, <1>2, <1>3, <1>4, <1>5, <1>6

LEMMA StepsOfTheTask ==
  ASSUME TypeOK, [Next]_vars
  PROVE  Quietly \/ \E pl, ids, known, lost : Settled(pl, ids, known, lost)
<1>1. waiting \in Seq(Join) /\ incoming \in Seq(Join) /\ Len(waiting) \in Nat /\ Len(incoming) \in Nat /\ Len(joins) \in Nat
  BY DEF TypeOK
<1>2. ASSUME NEW n \in Name, Arrive(n) PROVE Quietly
  BY <1>2, ArrivesQuietly
<1>3. ASSUME NEW n \in Name, HangUp(n) PROVE Quietly
  <2>1. UNCHANGED <<task, row, acl, changes, waiting, incoming, joins, table, nextId, given, output, outputs, delivered>>
    BY <1>3 DEF HangUp, table
  <2>2. ConnsOf(n) \subseteq Conn
    <3>1. ASSUME NEW S, NEW s \in Seq(S) PROVE \A i \in 1..Len(s) : s[i] \in S
      BY <3>1
    <3>2. \A q \in Elements(waiting) \cup Elements(incoming) : q \in Join
      BY <1>1, <3>1 DEF Elements
    <3>3. \A q \in Elements(waiting) \cup Elements(incoming) : q.conn \in Conn
      BY <3>2 DEF Join
    <3>4. \A m \in DOMAIN players : players[m].conn \in Conn
      BY DEF TypeOK
    <3> QED BY <3>3, <3>4 DEF ConnsOf
  <2>3. OthersTyped'
    BY <1>3, <2>1, <2>2 DEF HangUp, TypeOK, OthersTyped
  <2>4. JoinsAreTraced => JoinsAreTraced'
    <3>1. Elements(waiting)' = Elements(waiting) /\ Elements(incoming)' = Elements(incoming)
      BY <2>1 DEF Elements
    <3> QED BY <2>1, <3>1 DEF JoinsAreTraced
  <2>5. Len(waiting') + Len(incoming') - Len(joins') <= Len(waiting) + Len(incoming) - Len(joins)
    BY <1>1, <2>1
  <2> QED BY <2>1, <2>3, <2>4, <2>5 DEF Quietly
<1>4. CASE Quit \/ UNCHANGED vars
  <2>1. /\ task' \in {"running", "over"}
        /\ UNCHANGED <<row, acl, changes, waiting, incoming, joins, gone, table, nextId, given, output, outputs, delivered>>
    BY <1>4 DEF Quit, vars, requests, table, TypeOK
  <2>2. OthersTyped'
    BY <2>1 DEF TypeOK, OthersTyped
  <2>3. JoinsAreTraced => JoinsAreTraced'
    <3>1. Elements(waiting)' = Elements(waiting) /\ Elements(incoming)' = Elements(incoming)
      BY <2>1 DEF Elements
    <3> QED BY <2>1, <3>1 DEF JoinsAreTraced
  <2>4. Len(waiting') + Len(incoming') - Len(joins') <= Len(waiting) + Len(incoming) - Len(joins)
    BY <1>1, <2>1
  <2> QED BY <2>1, <2>2, <2>3, <2>4 DEF Quietly
<1>5. CASE Add
  <2>1. UNCHANGED <<acl, changes, joins, gone>>
    BY <1>5 DEF Add
  <2>2. CASE /\ waiting # << >> /\ UNCHANGED incoming
             /\ waiting' = SubSeq(waiting, 1, Len(waiting) - 1)
    <3>1. /\ waiting' \in Seq(Join) /\ Len(waiting') + 1 = Len(waiting)
          /\ Elements(waiting') \subseteq Elements(waiting)
          /\ waiting[Len(waiting)] \in Elements(waiting)
      BY <1>1, <2>2, JoinsLeft
    <3>2. /\ incoming' \in Seq(Join) /\ Elements(incoming') \subseteq Elements(incoming)
          /\ Len(waiting') + Len(incoming') + 1 = Len(waiting) + Len(incoming)
      BY <1>1, <2>2, <3>1
    <3>3. CASE Admit(waiting[Len(waiting)]) \/ TurnAway(waiting[Len(waiting)])
      BY <2>1, <3>1, <3>2, <3>3, AddSettles
    <3>4. CASE UNCHANGED <<task, row, table, output, outputs, delivered>>
      <4>1. OthersTyped'
        BY <2>1, <3>1, <3>2, <3>4 DEF TypeOK, OthersTyped, table
      <4>2. JoinsAreTraced => JoinsAreTraced'
        <5>1. Elements(waiting)' = Elements(waiting') /\ Elements(incoming)' = Elements(incoming')
          BY DEF Elements
        <5> QED BY <2>1, <3>1, <3>2, <5>1 DEF JoinsAreTraced
      <4>3. Len(waiting') + Len(incoming') - Len(joins') <= Len(waiting) + Len(incoming) - Len(joins)
        BY <1>1, <2>1, <2>2, <3>1
      <4> QED BY <2>1, <3>4, <4>1, <4>2, <4>3 DEF Quietly
    <3> QED BY <1>5, <2>2, <3>3, <3>4 DEF Add
  <2>3. CASE /\ waiting = << >> /\ incoming # << >> /\ UNCHANGED waiting
             /\ incoming' = Tail(incoming)
    <3>1. /\ incoming' \in Seq(Join) /\ Len(incoming') + 1 = Len(incoming)
          /\ Elements(incoming') \subseteq Elements(incoming)
          /\ Head(incoming) \in Elements(incoming)
      BY <1>1, <2>3, JoinsLeft
    <3>2. /\ waiting' \in Seq(Join) /\ Elements(waiting') \subseteq Elements(waiting)
          /\ Len(waiting') + Len(incoming') + 1 = Len(waiting) + Len(incoming)
      BY <1>1, <2>3, <3>1
    <3>3. Admit(Head(incoming)) \/ TurnAway(Head(incoming))
      BY <1>5, <2>3 DEF Add
    <3> QED BY <2>1, <3>1, <3>2, <3>3, AddSettles
  <2> QED BY <1>5, <2>2, <2>3 DEF Add
<1> QED BY <1>2, <1>3, <1>4, <1>5, EventsSettle DEF Next

-----------------------------------------------------------------------------
(* The theorems.                                                           *)

LEMMA TypeIsKept ==
  ASSUME TypeOK, [Next]_vars
  PROVE  TypeOK'
<1>1. CASE Quietly
  BY <1>1 DEF Quietly, OthersTyped, TypeOK, table
<1>2. CASE \E pl, ids, known, lost : Settled(pl, ids, known, lost)
  <2>1. PICK pl, ids, known, lost : Settled(pl, ids, known, lost)
    BY <1>2
  <2>2. Typed(pl, ids, known) /\ EndsIn(pl, ids, known, lost) /\ OthersTyped'
    BY <2>1 DEF Settled
  <2>3. PICK out \in Seq(Output), full \in SUBSET Name :
          Len(out) >= Len(output) /\ EndRound(pl, ids, known, out, lost, full)
    BY <2>2 DEF EndsIn
  <2>4. Len(out) \in Nat
    BY <2>3
  <2>5. Typed(players', identifiers', present')
    BY <2>2, <2>3, RoundsTables
  <2>6. /\ row' \in {"stored", "deleted"} /\ output' \in Seq(Output) /\ outputs' \in 0..MaxOutputs
        /\ delivered' \subseteq Conn \X Id
    BY <2>2, <2>3, <2>4, RoundsOutputs
  <2> QED BY <2>2, <2>5, <2>6 DEF TypeOK, OthersTyped, Typed, Player
<1> QED BY <1>1, <1>2, StepsOfTheTask

LEMMA AccessIsKept ==
  ASSUME TypeOK, AccessIsEnforced, [Next]_vars
  PROVE  AccessIsEnforced'
<1>1. CASE Quietly
  <2>1. players' = players /\ acl' = acl
    BY <1>1 DEF Quietly, table
  <2> QED BY <2>1 DEF AccessIsEnforced
<1>2. CASE \E pl, ids, known, lost : Settled(pl, ids, known, lost)
  <2>1. PICK pl, ids, known, lost : Settled(pl, ids, known, lost)
    BY <1>2
  <2>2. PICK out \in Seq(Output), full \in SUBSET Name : EndRound(pl, ids, known, out, lost, full)
    BY <2>1 DEF Settled, EndsIn
  <2>3. \A n \in DOMAIN players' : n \in DOMAIN pl \ lost /\ players'[n] = pl[n]
    BY <2>1, <2>2, RoundsTables DEF Settled
  <2>4. \A n \in DOMAIN pl \ lost : Welcome(n, acl') /\ pl[n].kind = KindOf(n, acl')
    BY <2>1 DEF Settled
  <2> QED BY <2>3, <2>4 DEF AccessIsEnforced
<1> QED BY <1>1, <1>2, StepsOfTheTask

LEMMA TablesAreKept ==
  ASSUME TypeOK, TablesInv, [Next]_vars
  PROVE  TablesInv'
<1>1. CASE Quietly
  <2>1. UNCHANGED <<players, identifiers, nextId, present, given, delivered>>
    BY <1>1 DEF Quietly, table
  <2>2. /\ \A c \in DOMAIN joins : c \in DOMAIN joins' /\ joins'[c] = joins[c]
        /\ joins \in Seq(Name)
    <3>1. CASE joins' = joins
      BY <3>1 DEF TypeOK
    <3>2. ASSUME NEW n \in Name, joins' = Append(joins, n)
          PROVE  \A c \in DOMAIN joins : c \in DOMAIN joins' /\ joins'[c] = joins[c]
      <4>1. joins \in Seq(Name)
        BY DEF TypeOK
      <4> QED BY <3>2, <4>1
    <3> QED BY <1>1, <3>1, <3>2 DEF Quietly, TypeOK
  <2>3. JoinsAreTraced'
    BY <1>1 DEF Quietly, TablesInv
  <2>4. Traced(players, identifiers, given)'
    BY <2>1, <2>2 DEF TablesInv, Traced
  <2>5. Delivered'
    <3>1. \A n : CameOnce(n)' => CameOnce(n)
      BY <2>2 DEF CameOnce
    <3> QED BY <2>1, <2>2, <3>1 DEF TablesInv, Delivered
  <2>6. ASSUME MaxJoins <= IdSpace PROVE IdsInOrder' /\ PlayersAreKnown'
    <3>1. PICK k \in Nat : /\ k + Len(waiting) + Len(incoming) <= Len(joins)
                           /\ k < IdSpace => nextId = k
                           /\ \A i \in present \cup DOMAIN identifiers : i < k
      BY <2>6 DEF TablesInv, IdsInOrder
    <3>2. /\ Len(waiting) \in Nat /\ Len(incoming) \in Nat /\ Len(joins) \in Nat
          /\ Len(waiting') \in Nat /\ Len(incoming') \in Nat /\ Len(joins') \in Nat
      BY <1>1 DEF TypeOK, Quietly, OthersTyped
    <3>3. k + Len(waiting') + Len(incoming') <= Len(joins')
      BY <1>1, <3>1, <3>2 DEF Quietly
    <3>4. IdsInOrder'
      BY <2>1, <3>1, <3>3 DEF IdsInOrder
    <3>5. PlayersAreKnown'
      BY <2>1, <2>6 DEF TablesInv, PlayersAreKnown
    <3> QED BY <3>4, <3>5
  <2> QED BY <2>3, <2>4, <2>5, <2>6 DEF TablesInv
<1>2. CASE \E pl, ids, known, lost : Settled(pl, ids, known, lost)
  <2>1. PICK pl, ids, known, lost : Settled(pl, ids, known, lost)
    BY <1>2
  <2>2. PICK out \in Seq(Output), full \in SUBSET Name : EndRound(pl, ids, known, out, lost, full)
    BY <2>1 DEF Settled, EndsIn
  <2>3. PICK letIn : letIn = given'
    OBVIOUS
  <2>4. JoinsAreTraced' /\ Traced(pl, ids, letIn) /\ given \subseteq letIn /\ joins' = joins /\ Typed(pl, ids, known)
    BY <2>1, <2>3 DEF Settled, TablesInv
  <2>5. /\ Agree(pl, ids, known) => Agree(players', identifiers', present')
        /\ Traced(players', identifiers', letIn)
        /\ present' \subseteq known /\ DOMAIN identifiers' \subseteq DOMAIN ids
    BY <2>2, <2>4, RoundsTables
  <2>6. Traced(players, identifiers, given)'
    BY <2>3, <2>4, <2>5 DEF Traced
  <2>7. Delivered'
    <3>1. \A d \in delivered' : d[1] \in DOMAIN joins /\ (CameOnce(joins[d[1]]) => d \in letIn)
      BY <2>2, <2>4, RoundsDeliveries DEF TablesInv
    <3>2. \A n : CameOnce(n)' => CameOnce(n)
      BY <2>4 DEF CameOnce
    <3> QED BY <2>3, <2>4, <3>1, <3>2 DEF Delivered
  <2>8. ASSUME MaxJoins <= IdSpace PROVE IdsInOrder' /\ PlayersAreKnown'
    <3>1. IdsInOrder /\ PlayersAreKnown
      BY <2>8 DEF TablesInv
    <3>2. /\ Agree(pl, ids, known)
          /\ \E k \in Nat : /\ k + Len(waiting') + Len(incoming') <= Len(joins')
                            /\ k < IdSpace => nextId' = k
                            /\ \A i \in known \cup DOMAIN ids : i < k
      BY <2>1, <2>8, <3>1 DEF Settled
    <3>3. IdsInOrder'
      BY <2>5, <3>2 DEF IdsInOrder
    <3>4. PlayersAreKnown'
      BY <2>5, <3>2 DEF Agree, PlayersAreKnown
    <3> QED BY <3>3, <3>4
  <2> QED BY <2>4, <2>6, <2>7, <2>8 DEF TablesInv
<1> QED BY <1>1, <1>2, StepsOfTheTask

LEMMA InitHolds ==
  ASSUME Init
  PROVE  TypeOK /\ AccessIsEnforced /\ TablesInv
<1>1. /\ waiting \in Seq(Join) /\ joins \in Seq(Name) /\ Len(joins) = Len(waiting) /\ Len(joins) \in 0..1
      /\ \A j \in Elements(waiting) : j.conn \in DOMAIN joins /\ joins[j.conn] = j.name
  <2>1. CASE waiting = << >>
    <3>1. joins = << >>
      BY <2>1 DEF Init
    <3>2. Elements(waiting) = {}
      BY <2>1 DEF Elements
    <3> QED BY <2>1, <3>1, <3>2
  <2>2. ASSUME NEW n \in Name, waiting = <<[name |-> n, conn |-> 1]>>
        PROVE  /\ waiting \in Seq(Join) /\ joins \in Seq(Name) /\ Len(joins) = Len(waiting) /\ Len(joins) \in 0..1
               /\ \A j \in Elements(waiting) : j.conn \in DOMAIN joins /\ joins[j.conn] = j.name
    <3>1. PICK j \in Join : j = [name |-> n, conn |-> 1]
      BY <2>2 DEF Join, Conn
    <3>2. waiting = <<j>> /\ j.name = n /\ j.conn = 1
      BY <2>2, <3>1
    <3>3. waiting \in Seq(Join) /\ Len(waiting) = 1 /\ Elements(waiting) = {j}
      BY <3>2 DEF Elements
    <3>4. joins = [i \in 1..1 |-> n]
      BY <3>2, <3>3 DEF Init
    <3>5. joins \in Seq(Name) /\ Len(joins) = 1 /\ DOMAIN joins = {1} /\ joins[1] = n
      BY <2>2, <3>4
    <3> QED BY <3>2, <3>3, <3>5
  <2> QED BY <2>1, <2>2 DEF Init
<1>2. incoming = << >> /\ Elements(incoming) = {} /\ Len(incoming) = 0
  BY DEF Init, Elements
<1>3. /\ players = << >> /\ DOMAIN players = {} /\ identifiers = << >> /\ DOMAIN identifiers = {}
      /\ present = {} /\ given = {} /\ delivered = {} /\ gone = {} /\ nextId = 0
  BY DEF Init
<1>4. TypeOK
  <2>1. players \in [DOMAIN players -> [id : Id, kind : Kind, conn : Conn]] /\ identifiers \in [DOMAIN identifiers -> Name]
    BY <1>3
  <2>2. output \in Seq(Output) /\ nextId \in Id
    BY <1>3 DEF Init, Id
  <2>4. outputs \in 0..MaxOutputs /\ changes \in 0..MaxChanges
    BY DEF Init
  <2>3. incoming \in Seq(Join) /\ Len(joins) <= MaxJoins
    <3>1. Len(joins) \in 0..1
      BY <1>1
    <3>2. << >> \in Seq(Join)
      OBVIOUS
    <3> QED BY <1>2, <3>1, <3>2
  <2> QED BY <1>1, <1>3, <2>1, <2>2, <2>3, <2>4 DEF Init, TypeOK
<1>5. AccessIsEnforced /\ JoinsAreTraced /\ Traced(players, identifiers, given) /\ Delivered /\ PlayersAreKnown
  <2>1. JoinsAreTraced
    BY <1>1, <1>2 DEF JoinsAreTraced
  <2>2. AccessIsEnforced /\ Traced(players, identifiers, given) /\ Delivered /\ PlayersAreKnown
    BY <1>3 DEF AccessIsEnforced, Traced, Delivered, PlayersAreKnown
  <2> QED BY <2>1, <2>2
<1>6. IdsInOrder
  <2>1. 0 + Len(waiting) + Len(incoming) <= Len(joins)
    BY <1>1, <1>2
  <2>2. \A i \in present \cup DOMAIN identifiers : i < 0
    BY <1>3
  <2> QED BY <1>3, <2>1, <2>2 DEF IdsInOrder
<1> QED BY <1>4, <1>5, <1>6 DEF TablesInv

\* The tables and the queues of the task always hold what they are made for.
THEOREM TypeIsCorrect == Spec => []TypeOK
<1>1. TypeOK /\ UNCHANGED vars => TypeOK'
  BY TypeIsKept
<1> QED BY <1>1, InitHolds, TypeIsKept, PTL DEF Spec

\* Nobody stays in a location, or is treated as its administrator, against the
\* access setting in force: whoever came in when, whatever the controller
\* answers, and whichever sends fail while a new setting is put in force.
THEOREM NobodyIsInUnlessAllowed == Spec => []AccessIsEnforced
<1>1. TypeOK /\ AccessIsEnforced /\ [Next]_vars => AccessIsEnforced'
  BY AccessIsKept
<1> QED BY <1>1, InitHolds, TypeIsCorrect, PTL DEF Spec

LEMMA TablesInvHolds == Spec => []TablesInv
<1>1. TypeOK /\ TablesInv /\ [Next]_vars => TablesInv'
  BY TablesAreKept
<1> QED BY <1>1, InitHolds, TypeIsCorrect, PTL DEF Spec

\* What reaches the connection of a player who came once was addressed to the
\* id he was given, even when the ids have gone round and are used again.
THEOREM MessagesGoToTheirPlayer == Spec => []ProperRouting
<1>1. TablesInv => ProperRouting
  BY DEF TablesInv, Delivered, ProperRouting
<1> QED BY <1>1, TablesInvHolds, PTL

\* As long as no more players join than there are ids (2^32 in the code), the
\* controller, the players and the identifiers name the same players by the
\* same ids, and messages go where they are addressed.
THEOREM TablesStayInAgreement ==
  ASSUME MaxJoins <= IdSpace
  PROVE  Spec => []TablesAgree
<1>1. TypeOK /\ TablesInv => TablesAgree
  BY DEF TablesInv, Delivered, ProperRouting, TablesAgree
<1> QED BY <1>1, TypeIsCorrect, TablesInvHolds, PTL
=============================================================================
