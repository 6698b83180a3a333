-------------------------- MODULE PuzzleExpression --------------------------
(***************************************************************************)
(* What the expressions of a puzzle's template evaluate to. A value is a   *)
(* number, a Bool the number it converts to; Undefined stands for any         *)
(* StateMachineError. An expression is a record with an operator `op'. The *)
(* width of numbers is a parameter, 32 in the code.                        *)
(***************************************************************************)
EXTENDS Integers, Sequences, FiniteSets, Bitwise, PuzzleHoliday

CONSTANTS Width, Undefined

WordLimit == 2 ^ Width
Words == 0 .. WordLimit - 1
AsNumber(b) == IF b THEN 1 ELSE 0
Smaller(a, b) == IF a < b THEN a ELSE b
Larger(a, b) == IF a < b THEN b ELSE a

SaturatingAdd(a, b) == Smaller(a + b, WordLimit - 1)
SaturatingSub(a, b) == Larger(a - b, 0)

\* checked_shl drops the bits that leave the word, and fails for a shift of a
\* word or more. A mask of `length' bits therefore needs length < Width.
Shifted(a, by) == (a * 2 ^ by) % WordLimit
BitsMask(offset, length) ==
    IF length < Width /\ offset < Width THEN Shifted(2 ^ length - 1, offset) ELSE 0

-----------------------------------------------------------------------------
(* PlayerStateCondition::check of the switches a player carries. HasBit and *)
(* NotHasBit are AnyBits and NoBits of length 1.                            *)

RECURSIVE Check(_, _)
Check(condition, player) ==
    CASE condition.op = "Always" -> TRUE
      [] condition.op = "All" -> \A c \in condition.of : Check(c, player)
      [] condition.op = "Any" -> \E c \in condition.of : Check(c, player)
      [] condition.op = "AnyBits" ->
           player & BitsMask(condition.offset, condition.length) # 0
      [] condition.op = "NoBits" ->
           player & BitsMask(condition.offset, condition.length) = 0

CountPlayers(condition, players) ==
    Cardinality({i \in DOMAIN players : Check(condition, players[i])})

-----------------------------------------------------------------------------
(* ExpressionData::variable: `data' holds what the context can name. A name  *)
(* outside of it is an error.                                                *)

At(values, i) == IF i \in DOMAIN values THEN values[i] ELSE Undefined
Variable(name, data) ==
    CASE name.kind = "counter" -> At(data.counters, name.index)
      [] name.kind = "global" -> At(data.globals, name.index)
      [] name.kind = "local" -> At(data.locals, name.index)
      [] name.kind = "duration" -> data.duration
      [] name.kind = "players" -> CountPlayers(name.condition, data.players)

\* SmallRng picks the permutation: some order of 0 .. length - 1 for each seed.
Permuted(seed, index, length) ==
    IF length = 0 \/ index >= length THEN 0 ELSE (index + seed) % length

Arithmetic == {"Add", "And", "Max", "Min", "Multiply", "Or", "Subtract", "XOr"}
Comparisons == {"Equal", "NotEqual", "GreaterThan", "GreaterThanOrEqual",
                "LessThan", "LessThanOrEqual"}

\* NumberExpression::evaluate of two numbers. Multiply adds and Or is And.
Calculated(op, a, b) ==
    CASE op \in {"Add", "Multiply"} -> SaturatingAdd(a, b)
      [] op \in {"And", "Or"} -> a & b
      [] op = "Max" -> Larger(a, b)
      [] op = "Min" -> Smaller(a, b)
      [] op = "Subtract" -> SaturatingSub(a, b)
      [] op = "XOr" -> a ^^ b

Compared(op, a, b) ==
    CASE op = "Equal" -> a = b
      [] op = "NotEqual" -> a # b
      [] op = "GreaterThan" -> a > b
      [] op = "GreaterThanOrEqual" -> a >= b
      [] op = "LessThan" -> a < b
      [] op = "LessThanOrEqual" -> a <= b

\* Operators that need all of their operands.
Strict(op, v) ==
    CASE op \in Arithmetic -> Calculated(op, v[1], v[2])
      [] op \in Comparisons -> AsNumber(Compared(op, v[1], v[2]))
      [] op = "Not" -> AsNumber(v[1] = 0)
      [] op = "AsBool" -> AsNumber(v[1] # 0)
      [] op = "Permutation" -> Permuted(v[1], v[2], v[3])

\* Operators that look only at the operands they need: a divisor of zero spares
\* the dividend, and the others take the value of one operand for theirs.
Divided(op, v) ==
    CASE v[2] = Undefined -> Undefined
      [] v[2] = 0 -> 0
      [] v[1] = Undefined -> Undefined
      [] OTHER -> IF op = "Divide" THEN v[1] \div v[2] ELSE v[1] % v[2]
Chosen(e, v) ==
    CASE e.op = "Both" -> IF v[1] = 0 THEN 1 ELSE 2
      [] e.op = "Either" -> IF v[1] = 0 THEN 2 ELSE 1
      [] e.op = "If" -> IF v[1] = 0 THEN 3 ELSE 2
      [] e.op = "Case" -> IF v[1] + 3 \in DOMAIN e.of THEN v[1] + 3 ELSE 2

\* BoolExpression::evaluate and NumberExpression::evaluate of the operands `of'.
\* A Case has its index and its default before its cases.
RECURSIVE Value(_, _)
Value(e, data) ==
    LET v == [i \in DOMAIN e.of |-> Value(e.of[i], data)]
    IN CASE e.op = "Constant" -> e.value
         [] e.op = "Seed" -> data.seed
         [] e.op = "Variable" -> Variable(e.name, data)
         [] e.op = "Mask" -> BitsMask(e.offset, e.length)
         [] e.op = "IsHoliday" -> AsNumber(\E h \in e.holidays : IsHoliday(h, data.day))
         [] e.op \in {"Divide", "Modulo"} -> Divided(e.op, v)
         [] e.op \in {"Both", "Either", "If", "Case"} ->
              IF v[1] = Undefined THEN Undefined ELSE v[Chosen(e, v)]
         [] OTHER -> IF \E i \in DOMAIN v : v[i] = Undefined THEN Undefined
                     ELSE Strict(e.op, v)
=============================================================================
