---------------------------- MODULE ParamValues ----------------------------
(***************************************************************************)
(* Parameter values, the strings they are printed to and what the code      *)
(* reads back from them.  The public and the distributed parameter server   *)
(* each have a copy of these functions; the wire server has its own test of *)
(* what a string may be.                                                   *)
(*                                                                         *)
(* A string is a pair: <<"int", n>> is a decimal integer, <<"dec", n>> a    *)
(* decimal number of n millionths, <<"bool", b>> is "true" or "false" and   *)
(* <<"word", w>> anything else, Empty when there is nothing at all.  A      *)
(* double is counted in half millionths, so that one in two has a digit     *)
(* more than std::to_string() prints.                                      *)
(***************************************************************************)
EXTENDS Integers

CONSTANT MaxInt         \* the largest int

Types == {"int", "double", "bool", "string"}

IntText(n) == <<"int", n>>
DecText(n) == <<"dec", n>>
BoolText(b) == <<"bool", b>>
Word(w) == <<"word", w>>
Empty == Word("")

IntValue(n) == [type |-> "int", of |-> n]
DoubleValue(n) == [type |-> "double", of |-> n]
BoolValue(b) == [type |-> "bool", of |-> b]
StringValue(s) == [type |-> "string", of |-> s]

paramTypeFromValue(v) == v.type

valueMatchesType(v, type) == type \in Types /\ v.type = type

(* std::to_string() of a double stops after six decimals.                   *)
toString(v) == CASE v.type = "int" -> IntText(v.of)
                 [] v.type = "double" -> DecText(v.of \div 2)
                 [] v.type = "bool" -> BoolText(v.of)
                 [] v.type = "string" -> v.of

NoValue == [type |-> "none"]

(* std::stoi() stops at the first character that is no digit and throws for *)
(* a number no int holds; neither it nor std::stod() reads an empty string. *)
parseFromString(s, type) ==
    CASE type = "int" /\ s[1] = "int" /\ s[2] <= MaxInt -> IntValue(s[2])
      [] type = "int" /\ s[1] = "dec" -> IntValue(s[2] \div 1000000)
      [] type = "double" /\ s[1] = "int" -> DoubleValue(2000000 * s[2])
      [] type = "double" /\ s[1] = "dec" -> DoubleValue(2 * s[2])
      [] type = "bool" /\ s[1] = "bool" -> BoolValue(s[2])
      [] type = "bool" /\ s \in {IntText(0), IntText(1)} ->
            BoolValue(s = IntText(1))
      [] type \notin {"int", "double", "bool"} -> StringValue(s)
      [] OTHER -> NoValue

(* strtol() and strtod() stop at the end of an empty string and saturate    *)
(* where stoi() throws: the wire takes strings that nobody can read.        *)
typeAccepts(type, s) ==
    CASE type \in {"", "string"} -> TRUE
      [] type = "bool" -> s[1] = "bool" \/ s \in {IntText(0), IntText(1)}
      [] type = "int" -> s[1] = "int" \/ s = Empty
      [] type = "double" -> s[1] \in {"int", "dec"} \/ s = Empty
      [] OTHER -> FALSE
=============================================================================
