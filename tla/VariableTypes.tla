---------------------------- MODULE VariableTypes ----------------------------
(***************************************************************************)
(* Names, values and variables of the shell (exec/variable.h,              *)
(* opsh/value.h).  A value is a string or an array; of an array one        *)
(* element is told.                                                        *)
(***************************************************************************)
EXTENDS Naturals

CONSTANTS
    Names,          \* of variables
    Texts,          \* what a string or an element of an array can be
    Host,           \* the C environment the shell was started with
    NULL            \* no such variable

Value == [array : BOOLEAN, text : Texts]

\* VF_EXPORT and VF_READONLY; nothing in the code sets VF_PREFIX, dirty or
\* host_origin.
Variable == [value : Value, export : BOOLEAN, readonly : BOOLEAN]

ASSUME NullAssumption == NULL \notin Variable /\ NULL \notin Texts

ASSUME EmptyAssumption == "" \in Texts

ASSUME HostAssumption == Host \in [Names -> Texts \cup {NULL}]

String(t) == [array |-> FALSE, text |-> t]

Array(t) == [array |-> TRUE, text |-> t]

\* An array reads as the empty string where a string is asked for.
value_to_string(v) == IF v.array THEN String("") ELSE v

Fresh(v) == [value |-> v, export |-> FALSE, readonly |-> FALSE]

=============================================================================
