--------------------------- MODULE MCPuzzleMachine ---------------------------
(***************************************************************************)
(* A door, a bell and a lamp, which trigger one another, over the days     *)
(* around an Easter Sunday. Numbers have three bits.                       *)
(***************************************************************************)
EXTENDS PuzzleMachine, PuzzleExpression

Const(n) == [op |-> "Constant", value |-> n]
Yes == Const(1)
Var(kind, i) == [op |-> "Variable", name |-> [kind |-> kind, index |-> i]]
Players == [op |-> "Variable",
            name |-> [kind |-> "players",
                      condition |-> [op |-> "AnyBits", offset |-> 0, length |-> 2]]]
Binary(op, a, b) == [op |-> op, of |-> <<a, b>>]
AtEaster == [op |-> "IsHoliday", holidays |-> {[is |-> "Easter", offset |-> 0]}]

Raise(target, condition) == [kind |-> "Trigger", target |-> target, condition |-> condition]
Count == [kind |-> "Set", counter |-> 1, condition |-> Yes,
          value |-> Binary("Multiply", Var("counter", 1), Const(3))]
Transition(trigger, next, actions) == [input |-> trigger, next |-> next, actions |-> actions]
Clicked(name) ==
    [kind |-> "click", name |-> name, condition |-> Yes,
     playerCondition |-> [op |-> "NoBits", offset |-> 1, length |-> 1]]
Crowded == [kind |-> "area", name |-> "mat", condition |-> Binary("GreaterThan", Players, Yes)]
On(event) == [kind |-> "internal", source |-> event, condition |-> Yes]
NoTimer == [kind |-> "None"]
TimerOf(kind, duration, next, actions) ==
    [kind |-> kind, duration |-> duration, next |-> next, actions |-> actions]
StateOf(variables, outputs, transitions, timer) ==
    [variables |-> variables, outputs |-> outputs, transitions |-> transitions, timer |-> timer]

Closed == StateOf(<<Binary("Add", Var("global", 1), Const(6))>>, <<Var("local", 1)>>,
                  <<Transition(Clicked("switch"), 2, <<Raise(1, Yes), Count>>),
                    Transition(Crowded, 2, <<Raise(2, Yes), Raise(3, AtEaster)>>)>>, NoTimer)
Open == StateOf(<<>>, <<Binary("Subtract", Const(1), Var("global", 1))>>,
                <<Transition(Clicked("switch"), 1, <<Raise(2, AtEaster)>>)>>,
                TimerOf("Reset", Const(2), 1, <<Raise(1, Yes)>>))

Loud == Binary("GreaterThanOrEqual", Var("local", 1), Const(4))
Silent == StateOf(<<>>, <<Var("global", 1)>>,
                  <<Transition(On(1), 2, <<Raise(2, Yes)>>),
                    Transition(Clicked("switch"), 2, <<>>)>>, NoTimer)
Ringing == StateOf(<<Const(3)>>, <<Binary("Max", Var("local", 1), Var("counter", 1))>>,
                   <<Transition(On(2), 1, <<Raise(1, Var("local", 1))>>),
                     Transition([Clicked("switch") EXCEPT !.condition = Loud], 1, <<>>),
                     Transition([On(1) EXCEPT !.condition = Loud], 1, <<>>),
                     Transition(Clicked("bell"), 3, <<>>)>>,
                   TimerOf("Rollover", Binary("Subtract", Const(2), Var("duration", 1)), 2,
                           <<Raise(2, Binary("LessThan", Var("duration", 1), Var("local", 1)))>>))
Cracked == StateOf(<<>>, <<Var("local", 1)>>, <<>>, NoTimer)

Flag == [op |-> "AsBool", of |-> <<Var("global", 1)>>]
Shade == [op |-> "If", of |-> <<[op |-> "Either", of |-> <<Flag, AtEaster>>],
                                Binary("Modulo", Const(7), Var("global", 1)),
                                [op |-> "Mask", offset |-> 1, length |-> 1]>>]
Hue == [op |-> "Case", of |-> <<Var("global", 1), Const(5), Shade, Const(2), Const(4)>>]
Dark == StateOf(<<>>, <<Hue>>,
                <<Transition(On(1), 2, <<>>),
                  Transition([On(3) EXCEPT !.condition = Var("local", 1)], 2, <<>>)>>,
                NoTimer)
Lit == StateOf(<<Yes>>, <<Shade>>, <<Transition(On(2), 1, <<>>)>>, NoTimer)

MCTemplate ==
    [variables |-> <<[op |-> "Permutation", of |-> <<[op |-> "Seed"], Yes, Const(4)>>]>>,
     machines |-> <<[counters |-> 1, states |-> <<Closed, Open>>],
                    [counters |-> 1, states |-> <<Silent, Ringing, Cracked>>],
                    [counters |-> 0, states |-> <<Dark, Lit>>]>>]
MCInputs ==
    {[kind |-> "click", name |-> "switch", player |-> 1],
     [kind |-> "click", name |-> "switch", player |-> 2],
     [kind |-> "click", name |-> "bell", player |-> 0],
     [kind |-> "area", name |-> "mat", players |-> <<1, 0>>],
     [kind |-> "area", name |-> "mat", players |-> <<1, 2>>]}
MCDay(t) == DayNumber(2024, 3, 30) + t
=============================================================================
