--------------------------- MODULE FormCalculation ---------------------------
(***************************************************************************)
(* FormCalculationSystem of forms/calculation_system.rs: fields calculated *)
(* from others and formatted, each change followed by everything that      *)
(* depends on it, and undone as a whole when a calculation fails.          *)
(*                                                                         *)
(* A calculation has inputs and a kind: "sum" adds up the inputs that have *)
(* a value, "invalid" is a range that evaluation rejects; the other kinds  *)
(* compute something else and fail in one of these two ways.  Numbers      *)
(* above MaxValue stand for those that are not finite.  The engine below   *)
(* has no calculations of its own, so that it is a map of values.          *)
(***************************************************************************)
EXTENDS Integers, SequencesExt

CONSTANTS
    Fields,       \* numbers, in the order of their names
    Values,       \* the values that fields are set to
    Calculations, \* the calculations that are added: [inputs, kind]
    Formats,      \* the formats that are set
    Depths,       \* the limits on levels of calculations
    MaxValue,
    MaxCalls,     \* bound on the calls made
    None

VARIABLES
    settings,
    field_values, js_calculations, field_formats, events,
    stage,        \* "idle", "own": calculating an added field, or "rest": what depends on it
    field, order, \* the field changed and the fields still to be calculated
    previous,     \* what is restored when a calculation fails
    told,         \* the last call and its answer
    before,       \* history: values, calculations and events when it was made, until it
                  \* returns without an error or another call is made
    calls

vars == <<settings, field_values, js_calculations, field_formats, events, stage, field, order, previous,
          told, before, calls>>

Init ==
    /\ settings \in [auto_recalculate : BOOLEAN, max_depth : Depths, log_events : BOOLEAN]
    /\ field_values = [f \in Fields |-> None]
    /\ js_calculations = [f \in Fields |-> None]
    /\ field_formats = [f \in Fields |-> None]
    /\ events = <<>>
    /\ stage = "idle" /\ field = None /\ order = <<>>
    /\ previous = None
    /\ told = [op |-> "new", field |-> None, answer |-> "ok"]
    /\ before = None
    /\ calls = 0

-----------------------------------------------------------------------------
(* Values.  A text is a negative number, and read as 0. *)

Text(n) == -1 - n
Finite(value) == value <= MaxValue
ToNumber(value) == IF value = None THEN 0 ELSE IF value < 0 THEN 0 ELSE value

\* Evaluation and formatting: a set with the result, empty when one of them fails.
Evaluate(calculation, values) ==
    {n \in {MapThenSumSet(LAMBDA f : ToNumber(values[f]), calculation.inputs)} :
        calculation.kind # "invalid" /\ Finite(n)}

ApplyFormat(format, n) ==
    IF format = "percent" THEN {Text(percent) : percent \in {p \in {100 * n} : Finite(p)}} ELSE {n}

Calculate(f, values) ==
    UNION {ApplyFormat(field_formats[f], n) : n \in Evaluate(js_calculations[f], values)}

-----------------------------------------------------------------------------
(* Dependencies *)

Inputs(calculations, f) == IF calculations[f] = None THEN {} ELSE calculations[f].inputs

\* Field a is b or depends on it.
DependsOn(a, b) ==
    LET reached[n \in Nat] ==
            IF n = 0 THEN {a}
            ELSE reached[n - 1] \cup UNION {Inputs(js_calculations, f) : f \in reached[n - 1]}
    IN  b \in reached[Cardinality(Fields)]

WouldCreateCycle(f, inputs) == \E input \in inputs : input = f \/ DependsOn(input, f)

\* The fields that depend on a changed one.
Affected(changed) ==
    {f \in Fields : \E input \in Inputs(js_calculations, f) : DependsOn(input, changed)}

\* Of the affected fields those whose turn may come after the ones already placed.
Ready(affected, placed) ==
    {f \in affected \ placed : Inputs(js_calculations, f) \cap affected \subseteq placed}

\* recalculation_order takes the smallest of the fields that are ready.  A circle
\* among them, which it refuses, cannot come up: see DepthIsExact.
Order(changed) ==
    LET affected == Affected(changed)
    IN  CHOOSE fields \in SetToSeqs(affected) :
            \A i \in DOMAIN fields :
                LET ready == Ready(affected, Range(SubSeq(fields, 1, i - 1)))
                IN  fields[i] \in ready /\ \A f \in ready : fields[i] <= f

\* The level of each field of an order is one above the highest of its inputs.
Levels(fields) ==
    FoldLeft(LAMBDA levels, f :
                levels @@ (f :> 1 + Max({0} \cup {levels[g] : g \in Inputs(js_calculations, f) \cap DOMAIN levels})),
             <<>>, fields)

TooDeep(fields) == \E f \in Range(fields) : Levels(fields)[f] > settings.max_depth

-----------------------------------------------------------------------------
(* Calls *)

Call ==
    /\ stage = "idle" /\ calls < MaxCalls
    /\ calls' = calls + 1
    /\ UNCHANGED settings

Remember == before' = [values |-> field_values, calculations |-> js_calculations, events |-> events]

Answer(op, f, answer) == told' = [op |-> op, field |-> f, answer |-> answer]

Unchanged ==
    /\ UNCHANGED <<field_values, js_calculations, field_formats, events, stage, field, order, previous>>
    /\ before' = None

Log(type, f, old, new) ==
    IF settings.log_events
    THEN Append(events, [type |-> type, field |-> f, old |-> old, new |-> new])
    ELSE events

SetRefused(f, value) ==
    /\ Call
    /\ \/ ~Finite(value) /\ Answer("set", f, "refused")
       \/ /\ Finite(value) /\ settings.auto_recalculate /\ TooDeep(Order(f))
          /\ Answer("set", f, "deep")
    /\ Unchanged

\* The values are kept for later, as a set with them, only where something is to
\* be calculated.
SetFieldValue(f, value) ==
    /\ Finite(value)
    /\ Call /\ Answer("set", f, "ok") /\ Remember
    /\ order' = (IF settings.auto_recalculate THEN Order(f) ELSE <<>>)
    /\ ~TooDeep(order')
    /\ previous' = [values |-> IF order' = <<>> THEN {} ELSE {field_values}, length |-> Len(events),
                    calculation |-> None]
    /\ events' = Log("changed", f, field_values[f], value)
    /\ field_values' = [field_values EXCEPT ![f] = value]
    /\ stage' = "rest" /\ field' = f
    /\ UNCHANGED <<js_calculations, field_formats>>

AddRefused(f, calculation) ==
    /\ WouldCreateCycle(f, calculation.inputs)
    /\ Call /\ Answer("add", f, "cycle")
    /\ Unchanged

AddCalculation(f, calculation) ==
    /\ ~WouldCreateCycle(f, calculation.inputs)
    /\ Call /\ Answer("add", f, "ok") /\ Remember
    /\ previous' = [values |-> {field_values}, length |-> Len(events), calculation |-> js_calculations[f]]
    /\ js_calculations' = [js_calculations EXCEPT ![f] = calculation]
    /\ stage' = "own" /\ field' = f /\ order' = <<f>>
    /\ UNCHANGED <<field_values, field_formats, events>>

\* Nothing is calculated anew.
SetFieldFormat(f, format) ==
    /\ Call /\ Answer("format", f, "ok") /\ before' = None
    /\ field_formats' = [field_formats EXCEPT ![f] = format]
    /\ UNCHANGED <<field_values, js_calculations, events, stage, field, order, previous>>

ClearEvents ==
    /\ Call /\ Answer("clear", None, "ok") /\ before' = None
    /\ events' = <<>>
    /\ UNCHANGED <<field_values, js_calculations, field_formats, stage, field, order, previous>>

-----------------------------------------------------------------------------
(* Recalculation *)

\* A faulty variant of EventsBefore: the events of the failed call stay.
EventsAfter == events

EventsBefore == SubSeq(events, 1, previous.length)

\* Undoes the call, which stands in told, with an answer other than the "ok" it
\* was begun with.
Restore(answer) ==
    /\ Answer(told.op, field, answer)
    /\ field_values' \in (IF previous.values = {} THEN {field_values} ELSE previous.values)
    /\ js_calculations' = IF told.op = "add" THEN [js_calculations EXCEPT ![field] = previous.calculation]
                          ELSE js_calculations
    /\ events' = EventsBefore
    /\ stage' = "idle" /\ order' = <<>> /\ previous' = None
    /\ UNCHANGED before

CalculateField ==
    /\ stage # "idle" /\ order # <<>>
    /\ \E f \in {Head(order)} :
          \/ /\ Calculate(f, field_values) = {}
             /\ Restore("failed")
          \/ \E value \in Calculate(f, field_values) :
                /\ field_values' = [field_values EXCEPT ![f] = value]
                /\ events' = Log("calculated", f, field_values[f], value)
                /\ order' = Tail(order)
                /\ UNCHANGED <<js_calculations, stage, previous, told, before>>
    /\ UNCHANGED <<settings, field_formats, field, calls>>

\* After the field added come those that depend on it.
RecalculateDependents ==
    /\ stage = "own" /\ order = <<>> /\ settings.auto_recalculate
    /\ \/ /\ order' = Order(field) /\ ~TooDeep(order')
          /\ stage' = "rest"
          /\ UNCHANGED <<field_values, js_calculations, events, previous, told, before>>
       \/ TooDeep(Order(field)) /\ Restore("deep")
    /\ UNCHANGED <<settings, field_formats, field, calls>>

Return ==
    /\ order = <<>>
    /\ stage = "rest" \/ (stage = "own" /\ ~settings.auto_recalculate)
    /\ stage' = "idle" /\ previous' = None /\ before' = None
    /\ UNCHANGED <<settings, field_values, js_calculations, field_formats, events, field, order, told, calls>>

Next ==
    \/ \E f \in Fields, value \in Values : SetRefused(f, value) \/ SetFieldValue(f, value)
    \/ \E f \in Fields, calculation \in Calculations : AddRefused(f, calculation) \/ AddCalculation(f, calculation)
    \/ \E f \in Fields, format \in Formats : SetFieldFormat(f, format)
    \/ ClearEvents
    \/ CalculateField \/ RecalculateDependents \/ Return

Spec == Init /\ [][Next]_vars

-----------------------------------------------------------------------------
(* Properties *)

\* Types of the variables.
TypeOK ==
    /\ field_values \in [Fields -> Int \cup {None}]
    /\ js_calculations \in [Fields -> Calculations \cup {None}]
    /\ field_formats \in [Fields -> Formats \cup {None}]
    /\ stage \in {"idle", "own", "rest"} /\ order \in Seq(Fields) /\ field \in Fields \cup {None}
    /\ told.answer \in {"ok", "refused", "cycle", "deep", "failed"}
    /\ calls \in 0..MaxCalls

\* The fields n calculations away from a changed one, along any path.
Away(changed, n) ==
    LET away[i \in Nat] ==
            IF i = 0 THEN {changed}
            ELSE {f \in Fields : Inputs(js_calculations, f) \cap away[i - 1] # {}}
    IN  away[n]

\* A call that fails leaves values, calculations and events as it found them.
FailureLeavesNoTrace ==
    stage = "idle" /\ before # None =>
        before = [values |-> field_values, calculations |-> js_calculations, events |-> events]

\* After a change everything that depends on it, at any distance, is what its
\* calculation and its format make of the values now there.
DependentsUpToDate ==
    stage = "idle" /\ told.op \in {"set", "add"} /\ told.answer = "ok" =>
        \A f \in (IF settings.auto_recalculate THEN Affected(told.field) ELSE {})
                 \cup (IF told.op = "add" THEN {told.field} ELSE {}) :
            Calculate(f, field_values) = {field_values[f]}

\* No field depends on itself, and a change is too deep exactly when it leads
\* through more calculations than are allowed.
DepthIsExact ==
    /\ \A f \in Fields : ~WouldCreateCycle(f, Inputs(js_calculations, f))
    /\ stage = "idle" /\ told.op = "set" /\ told.answer # "refused" /\ settings.auto_recalculate =>
          (told.answer = "deep" <=> Away(told.field, settings.max_depth + 1) # {})

\* The events of a field lead from value to value up to the one it has.
EventsLeadToValues ==
    \A i \in DOMAIN events :
        LET later == {j \in DOMAIN events : j > i /\ events[j].field = events[i].field}
        IN  IF later = {} THEN events[i].new = field_values[events[i].field]
            ELSE events[i].new = events[Min(later)].old

\* A call takes effect with everything that follows from it, or not at all.
CallsAreWholeOrNothing == FailureLeavesNoTrace /\ DependentsUpToDate /\ DepthIsExact /\ EventsLeadToValues
=============================================================================
