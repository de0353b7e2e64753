------------------------------- MODULE JsonValue ------------------------------
(***************************************************************************)
(* The values of rapidjson's document.h and what may be read of them.      *)
(*                                                                         *)
(* A value is a record with its type and one more field.  The integer      *)
(* types have the widths W32 and W64, so that their limits are small; the  *)
(* flags of a number are the types it can be read as.  A double is exact:  *)
(* sign, digits and a power of ten, with no zero at the end of the digits; *)
(* the rounding of the hardware is not modelled.  MaxDouble and MaxFloat   *)
(* are the largest doubles and floats, in the range of the checks.         *)
(***************************************************************************)
EXTENDS Encodings, FiniteSets

CONSTANTS W32, W64, MaxDouble, MaxFloat

NullValue == [type |-> "null"]
BoolValue(b) == [type |-> "bool", b |-> b]
StringValue(s) == [type |-> "string", s |-> s]
ArrayValue(elements) == [type |-> "array", elements |-> elements]
ObjectValue(members) == [type |-> "object", members |-> members]
Member(name, value) == [name |-> name, value |-> value]

Integer(flags, n) == [type |-> "number", flags |-> flags, n |-> n]
Fits(flag, holds) == IF holds THEN {flag} ELSE {}

IntValue(i) == Integer({"int", "int64"} \cup IF i >= 0 THEN {"uint", "uint64"} ELSE {}, i)
UintValue(u) == Integer({"uint", "uint64", "int64"} \cup Fits("int", u < 2^(W32 - 1)), u)
Int64Value(i) ==
    Integer({"int64"} \cup Fits("uint64", i >= 0) \cup Fits("uint", i \in 0..2^W32 - 1)
            \cup Fits("int", -(2^(W32 - 1)) <= i /\ i < 2^(W32 - 1)), i)
Uint64Value(u) ==
    Integer({"uint64"} \cup Fits("int64", u < 2^(W64 - 1)) \cup Fits("uint", u < 2^W32)
            \cup Fits("int", u < 2^(W32 - 1)), u)

Double(neg, n, e) == [neg |-> neg, n |-> n, e |-> e]
DoubleValue(d) == [type |-> "number", flags |-> {"double"}, d |-> d]

-------------------------------------------------------------------------------
IsNull(v) == v.type = "null"
IsBool(v) == v.type = "bool"
IsString(v) == v.type = "string"
IsArray(v) == v.type = "array"
IsObject(v) == v.type = "object"
IsNumber(v) == v.type = "number"
Has(v, flag) == IsNumber(v) /\ flag \in v.flags

\* d <= limit, for the magnitude of a double and a limit below 10^10.
Within(d, limit) ==
    \/ d.n = 0
    \/ d.e < 0                                   \* digits before the point fit the limits
    \/ (d.e \in 0..9 /\ d.n <= limit \div 10^d.e)
IsFloat(v) == Has(v, "double") /\ Within(v.d, MaxFloat)
IsNanOrInf(d) == ~Within(d, MaxDouble)

\* The decimal of an integer, without zeros at its end.
RECURSIVE Normal(_, _, _)
Normal(neg, n, e) ==
    IF n = 0 THEN Double(neg, 0, 0)
    ELSE IF n % 10 = 0 THEN Normal(neg, n \div 10, e + 1)
    ELSE Double(neg, n, e)
GetDouble(v) == IF Has(v, "double") THEN v.d ELSE Normal(v.n < 0, IF v.n < 0 THEN -v.n ELSE v.n, 0)

-------------------------------------------------------------------------------
\* The members of an object, in their order; a name may be there more than once.
MemberBegin == 1
MemberEnd(v) == Len(v.members) + 1
FindMember(v, name) ==
    LET found == {i \in 1..Len(v.members) : v.members[i].name = name}
    IN IF found = {} THEN MemberEnd(v) ELSE CHOOSE i \in found : \A j \in found : i <= j
HasMember(v, name) == FindMember(v, name) # MemberEnd(v)
MemberOf(v, name) == v.members[FindMember(v, name)].value

AddMember(v, name, value) == ObjectValue(Append(v.members, Member(name, value)))
EraseMember(v, i) ==
    ObjectValue([k \in 1..Len(v.members) - 1 |-> v.members[IF k < i THEN k ELSE k + 1]])
\* RemoveMember moves the last member into the place.
RemoveMember(v, i) ==
    LET last == Len(v.members)
    IN ObjectValue([k \in 1..last - 1 |-> v.members[IF k = i THEN last ELSE k]])
RemoveByName(v, name) == IF HasMember(v, name) THEN RemoveMember(v, FindMember(v, name)) ELSE v
EraseByName(v, name) == IF HasMember(v, name) THEN EraseMember(v, FindMember(v, name)) ELSE v

PushBack(v, value) == ArrayValue(Append(v.elements, value))
PopBack(v) == ArrayValue(SubSeq(v.elements, 1, Len(v.elements) - 1))
Erase(v, i) ==
    ArrayValue([k \in 1..Len(v.elements) - 1 |-> v.elements[IF k < i THEN k ELSE k + 1]])

\* operator==: by name for objects, by value for numbers.  TRUE and FALSE are types.
RECURSIVE Equal(_, _)
Equal(v, w) ==
    /\ v.type = w.type
    /\ CASE IsObject(v) ->
              /\ Len(v.members) = Len(w.members)
              /\ \A i \in 1..Len(v.members) :
                    /\ HasMember(w, v.members[i].name)
                    /\ Equal(v.members[i].value, MemberOf(w, v.members[i].name))
         [] IsArray(v) ->
              /\ Len(v.elements) = Len(w.elements)
              /\ \A i \in 1..Len(v.elements) : Equal(v.elements[i], w.elements[i])
         [] IsString(v) -> v.s = w.s
         [] IsBool(v) -> v.b = w.b
         [] IsNumber(v) ->
              IF Has(v, "double") \/ Has(w, "double")
              THEN LET d == GetDouble(v)
                       c == GetDouble(w)
                   IN d = c \/ (d.n = 0 /\ c.n = 0)
              ELSE v.n % 2^W64 = w.n % 2^W64
         [] OTHER -> TRUE
===============================================================================
