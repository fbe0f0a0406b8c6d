-------------------------- MODULE CalculationEngine --------------------------
(***************************************************************************)
(* CalculationEngine of forms/calculations.rs: fields with values, some of *)
(* them calculated from others, and recalculated when those change.        *)
(*                                                                         *)
(* A calculation has inputs, the fields it depends on, and adds their      *)
(* values and one.  An expression with an empty pair of parentheses is     *)
(* parsed, and only fails when it is evaluated: it is not sound.           *)
(***************************************************************************)
EXTENDS Integers, SequencesExt

CONSTANTS
    Fields,
    Values,       \* the values that fields are set to
    Expressions,  \* the calculations that are added: [inputs, sound]
    MaxCalls,     \* bound on the calls made
    None

VARIABLES
    field_values, calculations, dependencies, calculation_order,
    told,         \* the last call and its answer
    forgotten,    \* history: the fields whose dependents were dropped
    calls

vars == <<field_values, calculations, dependencies, calculation_order, told, forgotten, calls>>

Calculated(calcs) == {f \in Fields : calcs[f] # None}

Init ==
    /\ field_values = [f \in Fields |-> None]
    /\ calculations = [f \in Fields |-> None]
    /\ dependencies = [f \in Fields |-> {}]
    /\ calculation_order = <<>>
    /\ told = [op |-> "new", field |-> None, answer |-> "ok"]
    /\ forgotten = {}
    /\ calls = 0

Answer(op, field, answer) ==
    /\ calls < MaxCalls
    /\ calls' = calls + 1
    /\ told' = [op |-> op, field |-> field, answer |-> answer]

\* A field without a value counts as 0.
Evaluate(calculation, values) ==
    1 + MapThenSumSet(LAMBDA f : IF values[f] = None THEN 0 ELSE values[f], calculation.inputs)

Sound(calcs, field) == calcs[field] # None /\ calcs[field].sound

\* calculate_field: a value that cannot be calculated stays.
Calculate(calcs, field, values) ==
    IF Sound(calcs, field) THEN [values EXCEPT ![field] = Evaluate(calcs[field], values)] ELSE values

Inputs(calcs, field) == IF calcs[field] = None THEN {} ELSE calcs[field].inputs

\* Field a is b or depends on it.
DependsOn(calcs, a, b) ==
    LET reached[n \in Nat] ==
            IF n = 0 THEN {a} ELSE reached[n - 1] \cup UNION {Inputs(calcs, f) : f \in reached[n - 1]}
    IN  b \in reached[Cardinality(Fields)]

\* What update_calculation_order may make of them: it starts from the fields in
\* any order and puts each behind what it depends on.
Orders(calcs) ==
    {order \in SetToSeqs(Calculated(calcs)) :
        \A i, j \in DOMAIN order : order[j] \in Inputs(calcs, order[i]) => j < i}

-----------------------------------------------------------------------------
\* recalculate_dependents, as a fold over the order: done are the values so far
\* and due the fields to be calculated.
Recalculate(values, order, changed) ==
    FoldLeft(LAMBDA done, f :
                IF f \notin done.due THEN done
                ELSE [values |-> Calculate(calculations, f, done.values), due |-> done.due \cup dependencies[f]],
             [values |-> values, due |-> dependencies[changed]], order).values

SetFieldValue(field, value) ==
    /\ Answer("set", field, "ok")
    /\ calculation_order' \in Orders(calculations)
    /\ field_values' = Recalculate([field_values EXCEPT ![field] = value], calculation_order', field)
    /\ UNCHANGED <<calculations, dependencies, forgotten>>

WouldCreateCycle(field, inputs) ==
    \E dep \in inputs : dep = field \/ DependsOn(calculations, dep, field)

RefuseCalculation(field, calculation) ==
    /\ WouldCreateCycle(field, calculation.inputs)
    /\ Answer("add", field, "cycle")
    /\ UNCHANGED <<field_values, calculations, dependencies, calculation_order, forgotten>>

\* What a calculation that is replaced depended on keeps it as a dependent.  The
\* fields that depend on this one keep their values, and a calculation whose
\* evaluation fails stays.
AddCalculation(field, calculation) ==
    /\ ~WouldCreateCycle(field, calculation.inputs)
    /\ Answer("add", field, IF calculation.sound THEN "ok" ELSE "failed")
    /\ calculations' = [calculations EXCEPT ![field] = calculation]
    /\ dependencies' = [f \in Fields |->
            IF f \in calculation.inputs THEN dependencies[f] \cup {field} ELSE dependencies[f]]
    /\ calculation_order' \in Orders(calculations')
    /\ field_values' = Calculate(calculations', field, field_values)
    /\ UNCHANGED forgotten

\* The field's value goes, and with it what is known of the fields that depend
\* on it.
RemoveCalculation(field) ==
    /\ Answer("remove", field, "ok")
    /\ IF calculations[field] = None
       THEN UNCHANGED <<field_values, calculations, dependencies, calculation_order, forgotten>>
       ELSE /\ calculations' = [calculations EXCEPT ![field] = None]
            /\ calculation_order' = SelectSeq(calculation_order, LAMBDA f : f # field)
            /\ dependencies' = [f \in Fields |-> IF f = field THEN {} ELSE dependencies[f] \ {field}]
            /\ field_values' = [field_values EXCEPT ![field] = None]
            /\ forgotten' = IF dependencies[field] = {} THEN forgotten ELSE forgotten \cup {field}

\* It ends at the first calculation that fails.
RecalculateAll ==
    \E failing \in {SelectInSeq(calculation_order, LAMBDA f : ~Sound(calculations, f))} :
        /\ Answer("all", None, IF failing = 0 THEN "ok" ELSE "failed")
        /\ field_values' = FoldLeft(LAMBDA values, f : Calculate(calculations, f, values), field_values,
                IF failing = 0 THEN calculation_order ELSE SubSeq(calculation_order, 1, failing - 1))
        /\ UNCHANGED <<calculations, dependencies, calculation_order, forgotten>>

Next ==
    \/ \E field \in Fields, value \in Values : SetFieldValue(field, value)
    \/ \E field \in Fields, calculation \in Expressions :
          RefuseCalculation(field, calculation) \/ AddCalculation(field, calculation)
    \/ \E field \in Fields : RemoveCalculation(field)
    \/ RecalculateAll

Spec == Init /\ [][Next]_vars

-----------------------------------------------------------------------------
(* Properties *)

\* Types of the variables.
TypeOK ==
    /\ field_values \in [Fields -> Nat \cup {None}]
    /\ calculations \in [Fields -> Expressions \cup {None}]
    /\ dependencies \in [Fields -> SUBSET Fields]
    /\ calculation_order \in Seq(Fields) /\ forgotten \subseteq Fields
    /\ calls \in 0..MaxCalls

UpToDate(field) ==
    Sound(calculations, field) => field_values[field] = Evaluate(calculations[field], field_values)

Following(field) == {f \in Calculated(calculations) \ {field} : DependsOn(calculations, f, field)}

\* No sequence of calls makes a field depend on itself, and the order has each
\* calculated field once, behind what it depends on.  A field knows those that
\* depend on it unless its own calculation was removed.  So a field that is set
\* takes all that depend on it along, at any distance and each after its inputs,
\* and recalculate_all brings everything up to date if nothing fails.
DependentsFollow ==
    /\ calculation_order \in Orders(calculations)
    /\ \A f \in Calculated(calculations) :
          /\ \A input \in Inputs(calculations, f) : ~DependsOn(calculations, input, f)
          /\ \A input \in Inputs(calculations, f) \ forgotten : f \in dependencies[input]
    /\ told.op = "set" /\ ({told.field} \cup Following(told.field)) \cap forgotten = {} =>
          \A f \in Following(told.field) : UpToDate(f)
    /\ told.op = "add" /\ told.answer # "cycle" => UpToDate(told.field)
    /\ told.op = "all" /\ told.answer = "ok" => \A f \in Calculated(calculations) : UpToDate(f)
=============================================================================
