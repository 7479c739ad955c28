---------------------------- MODULE Serializable ----------------------------
(***************************************************************************)
(* util::SerializableMixin (src/utility/serializable.hpp): the fields of a *)
(* structure are read from a YAML node one after the other, in the order   *)
(* of kMetas, until one cannot be.  The structure may be read again, from  *)
(* a node that has changed, as OpenVinoNet does with its config.           *)
(***************************************************************************)
EXTENDS Integers

CONSTANTS
  Fields,   \* number of fields
  Values,   \* the values a field may have
  MaxReads  \* bound: calls of serialize

VARIABLES
  source,   \* the node: for each field its value, or what is wrong with it
  target,   \* the structure
  field,    \* the field that is read next; Fields + 1: serialize has returned
  result,   \* "ok" or what is wrong with the field that could not be read
  calls,    \* number of calls so far
  before    \* history: the structure at the beginning of the call

vars == << source, target, field, result, calls, before >>

Nodes == [1 .. Fields -> Values \union {"missing", "null", "mismatch"}]

Returned == field = Fields + 1 \/ result # "ok"

Init ==
  /\ source = [f \in 1 .. Fields |-> "missing"]
  /\ target \in [1 .. Fields -> Values]
  /\ field = Fields + 1
  /\ result = "ok"
  /\ calls = 0
  /\ before = target

\* serialize() is called, with the node as it is now.
Serialize ==
  /\ Returned
  /\ calls < MaxReads
  /\ source' \in Nodes
  /\ field' = 1
  /\ result' = "ok"
  /\ calls' = calls + 1
  /\ before' = target
  /\ UNCHANGED target

\* The member that kMetas pairs with a name.  Defect: the names and the members
\* are paired the other way round.
Reversed == Fields + 1 - field

Member == field

\* get_param() assigns the field.
GetParam ==
  /\ ~Returned
  /\ source[field] \in Values
  /\ target' = [target EXCEPT ![Member] = source[field]]
  /\ field' = field + 1
  /\ UNCHANGED << source, result, calls, before >>

\* What a field that cannot be read leaves in the structure.  Defect: its value
\* is assigned before it is checked.
Assigned == [target EXCEPT ![field] = source[field]]

Untouched == target

\* get_param() returns an error before it assigns: the key is missing, it is
\* null, or its value is of another type.  The fold stops.
GetParamFails ==
  /\ ~Returned
  /\ source[field] \notin Values
  /\ target' = Untouched
  /\ result' = source[field]
  /\ UNCHANGED << source, field, calls, before >>

Finished == Returned /\ calls = MaxReads /\ UNCHANGED vars

Next == Serialize \/ GetParam \/ GetParamFails \/ Finished

Spec == Init /\ [][Next]_vars

-----------------------------------------------------------------------------
(* Properties.                                                             *)

\* A structure that has been read is a mixture: the fields before the first
\* one that could not be read are those of the node, that one and the ones
\* after it are what they were; all are those of the node if the reading
\* succeeded, whatever an earlier call had left.
PrefixStored ==
  Returned /\ calls > 0 =>
    \E read \in 0 .. Fields :
      /\ \A f \in 1 .. Fields : target[f] = IF f <= read THEN source[f] ELSE before[f]
      /\ result = IF read = Fields THEN "ok" ELSE source[read + 1]
=============================================================================
