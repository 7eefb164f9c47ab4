-------------------------------- MODULE Calc --------------------------------
(***************************************************************************)
(* ede-calc: the stack of pending operands, operators and brackets with    *)
(* which SciCalc evaluates what is typed.                                  *)
(*                                                                         *)
(* SciCalc never sets its array of priorities, which therefore holds any   *)
(* numbers: the initial state chooses them.  A value is the expression it  *)
(* stands for, a tuple: <<n>> is the n-th operand of the line, <<o, l, r>> *)
(* an operation.  Digits, the dot, the exponent, the sign, the constant pi *)
(* and the functions of one operand only change what operand that is.  The *)
(* display, the memory, the bases and the labels of the keys are left out. *)
(*                                                                         *)
(* `line' records what was typed, as a well-formed expression; once the    *)
(* keys do not form one, `good' is FALSE and only the shape of the stack   *)
(* is kept.                                                                *)
(***************************************************************************)
EXTENDS Naturals, Sequences, FiniteSets, SequencesExt

CONSTANTS Operators,    \* PLUS, MINUS, MULT, ...
          Levels,       \* the priorities there are
          MaxBrackets,  \* MaxNumBrkts
          MaxLine       \* the bound on what is typed before an evaluation

VARIABLE calc           \* the calculator, as one record

Num == "num"
Open == "("
Shut == ")"
Zero == <<1>>           \* the 0 that is there before anything is typed

Init ==
    \E priority \in [Operators -> Levels] :
        calc = [ priority |-> priority,
                 value |-> <<Zero>>,       \* value[0] to value[top]
                 oper  |-> <<>>,           \* oper[0] to oper[top - 1]
                 start |-> <<>>,           \* startbrkt[1] to startbrkt[currentbrkt]
                 ready |-> FALSE,
                 lost  |-> FALSE,          \* top is below an open bracket's start
                 line  |-> <<Num>>, good |-> TRUE,
                 asked |-> <<>>, result |-> Zero ]   \* the last line evaluated

Top(s)    == Len(s.oper)
Bottom(s) == IF s.start = <<>> THEN 0 ELSE Last(s.start)     \* startbrkt[currentbrkt]

----------------------------------------------------------------------------
(* The stack.                                                              *)

Apply(s, o, l, r) == IF s.good THEN <<o, l, r>> ELSE Zero

(* calc(top - 1), ..., calc(t): the operators above t are applied, the     *)
(* last one first.                                                         *)
Applied(s, t) ==
    FoldRight(LAMBDA i, acc : Apply(s, s.oper[i], s.value[i], acc),
              [k \in 1..(Top(s) - t) |-> t + k], Last(s.value))

Collapse(s, t) ==
    [s EXCEPT !.value = Append(SubSeq(@, 1, t), Applied(s, t)), !.oper = SubSeq(@, 1, t)]

(* Mutant: an operator of the same priority is not applied either.         *)
StopsAtEqual(s, o) ==
    LET lower == {i \in (Bottom(s) + 1)..Top(s) : s.priority[s.oper[i]] <= s.priority[o]}
    IN  CHOOSE t \in lower \cup {Bottom(s)} : \A u \in lower : u <= t

(* Where the loop of handle_operator() stops: at the bracket, or above the *)
(* last operator of a lower priority.                                      *)
StopsAt(s, o) ==
    LET lower == {i \in (Bottom(s) + 1)..Top(s) : s.priority[s.oper[i]] < s.priority[o]}
    IN  CHOOSE t \in lower \cup {Bottom(s)} : \A u \in lower : u <= t

PushOperator(s, o) ==
    [s EXCEPT !.oper = Append(@, o), !.value = Append(@, Zero), !.ready = FALSE]

CloseBracket(s) ==
    IF s.start = <<>> THEN s
    ELSE [Collapse(s, Bottom(s)) EXCEPT !.start = Front(@), !.ready = TRUE]

(* The evaluation of a whole line: the open brackets are closed first,     *)
(* which leaves the operators to be applied in the same order.             *)
CloseAll(s) == [Collapse(s, 0) EXCEPT !.start = <<>>, !.ready = TRUE]

----------------------------------------------------------------------------
(* What was typed.                                                         *)

Operands(line) == Len(SelectSeq(line, LAMBDA k : k = Num))
Ends(line) == line # <<>> /\ Last(line) \in {Num, Shut}     \* an operand is complete

Bad(s) ==
    [s EXCEPT !.good = FALSE, !.line = <<>>, !.value = [i \in DOMAIN @ |-> Zero]]

Typed(s, k) == IF s.good THEN [s EXCEPT !.line = Append(@, k)] ELSE s

Put(s, v) == [s EXCEPT !.value[Len(s.value)] = v]

----------------------------------------------------------------------------
(* The keys.                                                               *)

(* A number: it takes the place of one that is ready or of the 0 on top,   *)
(* or goes on with the number that is being typed.                         *)
Number ==
    LET s == [calc EXCEPT !.ready = FALSE, !.asked = <<>>, !.result = Zero]
    IN  calc' = IF ~ s.good \/ (s.line # <<>> /\ Last(s.line) = Num) THEN s
                ELSE IF Ends(s.line) THEN Bad(s)
                ELSE Put(Typed(s, Num), <<Operands(s.line) + 1>>)

(* A function of one operand, a constant, memory recall.                   *)
Unary ==
    LET s == [calc EXCEPT !.ready = TRUE, !.asked = <<>>, !.result = Zero]
    IN  calc' = IF s.good /\ ~ (s.line # <<>> /\ Last(s.line) = Num) THEN Bad(s) ELSE s

HandleOperator(o) ==
    LET s == [calc EXCEPT !.asked = <<>>, !.result = Zero]
        t == IF s.good /\ ~ Ends(s.line) THEN Bad(s) ELSE s
    IN  calc' = Typed(PushOperator(Collapse(t, StopsAt(t, o)), o), o)

(* add_left_bracket(): the number before a bracket is overwritten.         *)
LeftBracket ==
    /\ Len(calc.start) < MaxBrackets
    /\ LET s == [calc EXCEPT !.start = Append(@, Top(calc)), !.ready = TRUE,
                             !.asked = <<>>, !.result = Zero]
       IN  calc' = IF ~ s.good THEN s
                   ELSE IF s.line = <<>> \/ Last(s.line) # Shut
                   THEN Typed([s EXCEPT !.line = IF @ # <<>> /\ Last(@) = Num
                                                 THEN Front(@) ELSE @], Open)
                   ELSE Bad(s)

RightBracket ==
    LET s == [calc EXCEPT !.asked = <<>>, !.result = Zero]
        t == IF s.good /\ ~ Ends(s.line) /\ s.start # <<>> THEN Bad(s) ELSE s
    IN  calc' = IF t.start = <<>> THEN t ELSE Typed(CloseBracket(t), Shut)

(* EVAL: the result is the first operand of the next line.                 *)
Eval ==
    LET s == IF calc.good /\ ~ Ends(calc.line) THEN Bad(calc) ELSE calc
        t == CloseAll(s)
    IN  calc' = [t EXCEPT !.value = <<Zero>>, !.line = <<Num>>, !.good = TRUE,
                          !.asked = IF s.good THEN s.line \o [i \in DOMAIN s.start |-> Shut]
                                    ELSE <<>>,
                          !.result = IF s.good THEN Head(t.value) ELSE Zero]

(* C: the operand on top becomes 0.                                        *)
Clear ==
    LET s == [calc EXCEPT !.ready = FALSE, !.asked = <<>>, !.result = Zero]
    IN  calc' = IF s.good /\ s.line # <<>> /\ Last(s.line) = Shut THEN Bad(s) ELSE s

Fresh(s) == [s EXCEPT !.value = <<Zero>>, !.oper = <<>>, !.ready = FALSE,
                      !.line = <<Num>>, !.good = TRUE, !.asked = <<>>, !.result = Zero]

AllClear == calc' = [Fresh(calc) EXCEPT !.start = <<>>]

(* exchange() of the two operands on top.                                  *)
Exchange ==
    /\ Top(calc) > Bottom(calc)
    /\ calc' = [Bad(calc) EXCEPT !.ready = TRUE, !.asked = <<>>, !.result = Zero]

(* factorial() of a negative integer begins again at the bottom of the     *)
(* stack, with the brackets still open: when one of them starts above it,  *)
(* the next operator compares with oper[-1], and a bracket raises the top. *)
FactorialError ==
    calc' = [Fresh(calc) EXCEPT
               !.lost = \E b \in DOMAIN calc.start : calc.start[b] > 0,
               !.line = [b \in DOMAIN calc.start |-> Open] \o <<Num>>]

Next ==
    /\ ~ calc.lost
    /\ \/ Eval \/ Clear \/ AllClear \/ Unary \/ Exchange \/ FactorialError
       \/ /\ Len(calc.line) < MaxLine /\ Len(calc.oper) < MaxLine
          /\ \/ Number \/ LeftBracket \/ RightBracket
             \/ \E o \in Operators : HandleOperator(o)

Spec == Init /\ [][Next]_calc

----------------------------------------------------------------------------
(* The reference: the operator that is applied last is the last one of the *)
(* lowest priority that is in no bracket.                                  *)
Meaning(line, priority) ==
    LET Depth(i, k) == Cardinality({x \in i..k : line[x] = Open})
                       - Cardinality({x \in i..k : line[x] = Shut})
        Outer(i, j) == {k \in i..j : line[k] \in Operators /\ Depth(i, k) = 0}
        Weakest(i, j) ==
            CHOOSE k \in Outer(i, j) : \A m \in Outer(i, j) :
                \/ priority[line[k]] < priority[line[m]]
                \/ priority[line[k]] = priority[line[m]] /\ m <= k
        E[i \in 1..Len(line), j \in 1..Len(line)] ==
            IF Outer(i, j) # {}
            THEN LET k == Weakest(i, j)
                 IN  <<line[k], E[i, k - 1], E[k + 1, j]>>
            ELSE IF line[i] = Open THEN E[i + 1, j - 1]
            ELSE <<Operands(SubSeq(line, 1, i))>>
    IN  E[1, Len(line)]

(* The value shown is the value of the line that was typed, by whatever    *)
(* priorities the array holds: a higher one binds tighter, equal ones from *)
(* the left, brackets first, those that are still open at "=" too.         *)
EvaluatesLine ==
    calc.asked # <<>> => calc.result = Meaning(calc.asked, calc.priority)

(* What is pending above a bracket rises in priority, and every bracket    *)
(* that is open starts at or below the top: the stack is no higher than    *)
(* the number of priorities times one more than that of the brackets.      *)
StackRises ==
    ~ calc.lost =>
        /\ \A b \in 1..Len(calc.start) : calc.start[b] <= Top(calc)
        /\ \A i \in 1..(Top(calc) - 1) :
              \/ calc.priority[calc.oper[i]] < calc.priority[calc.oper[i + 1]]
              \/ i \in ToSet(calc.start)
        /\ Top(calc) <= Cardinality(Levels) * (Len(calc.start) + 1)

(* What is pending fits oper[3*(MaxNumBrkts+1)] (SciCalc.h:17).  This is   *)
(* so for three priorities, by StackRises; it is not for six operators     *)
(* whose priorities, which nothing sets, may all be different.             *)
FitsArray == Top(calc) <= 3 * (MaxBrackets + 1)
=============================================================================
