--------------------------- MODULE ParameterValues ---------------------------
(***************************************************************************)
(* The values of parameters on their way from ROS to a client and back:    *)
(* ROS value, ParameterValue, JSON, and base64 for bytes (base64.cpp and   *)
(* serialization.cpp, parameter_interface.cpp for ROS 2, param_utils.cpp   *)
(* for ROS 1).                                                             *)
(*                                                                         *)
(* A value is a record with one field, named for its type.  Strings are    *)
(* sequences of character codes, doubles are counted in halves.  The range *)
(* of the integers is scaled down: IntLimit stands for 2^63.               *)
(***************************************************************************)
EXTENDS Integers, Sequences, SequencesExt

CONSTANTS
    IntLimit,    \* the least integer that is not an int64_t
    Byte,        \* the bytes that occur
    MaxBytes,    \* bound: bytes in a sequence
    MaxLength    \* bound: elements of an array

Type(v) == CHOOSE t \in DOMAIN v : TRUE
Map(Op(_), s) == [i \in DOMAIN s |-> Op(s[i])]
Error == [error |-> TRUE]           \* an exception
Undefined == [undefined |-> TRUE]   \* front() of an empty vector was read

(* The doubles that are no numbers, and the ones a client writes as an     *)
(* integer between 2^63 and 2^64.                                          *)
NonFinite == [double |-> 8 * IntLimit + 1]
Large(v) == v.double % 2 = 0 /\ v.double \div 2 \in IntLimit .. 2 * IntLimit - 1

-----------------------------------------------------------------------------
(* base64.cpp *)
Pad == 61

ALPHABET(n) ==
    IF n < 26 THEN 65 + n
    ELSE IF n < 52 THEN 71 + n
    ELSE IF n < 62 THEN n - 4
    ELSE IF n = 62 THEN 43 ELSE 47

(* Mutant of Group: the carry of the second byte is shifted one bit short. *)
GroupShort(d) ==
    <<d[1] \div 4, (d[1] % 4) * 16 + d[2] \div 16, (d[2] % 16) * 2 + d[3] \div 64, d[3] % 64>>

(* Three bytes give four digits. *)
Group(d) ==
    <<d[1] \div 4, (d[1] % 4) * 16 + d[2] \div 16, (d[2] % 16) * 4 + d[3] \div 64, d[3] % 64>>

base64_encode(data) ==
    LET Digits(s) == [k \in DOMAIN s |-> ALPHABET(s[k])]
        Encode(i) ==
            LET d == SubSeq(data, 3 * i + 1, IF 3 * i + 3 < Len(data) THEN 3 * i + 3 ELSE Len(data))
            IN  CASE Len(d) = 3 -> Digits(Group(d))
                  [] Len(d) = 2 -> SubSeq(Digits(Group(d \o <<0>>)), 1, 3) \o <<Pad>>
                  [] Len(d) = 1 -> SubSeq(Digits(Group(d \o <<0, 0>>)), 1, 2) \o <<Pad, Pad>>
    IN  FlattenSeq([i \in 1 .. (Len(data) + 2) \div 3 |-> Encode(i - 1)])

Digit(c) ==
    IF c \in 65 .. 90 THEN c - 65
    ELSE IF c \in 97 .. 122 THEN c - 71
    ELSE IF c \in 48 .. 57 THEN c + 4
    ELSE IF c = 43 THEN 62 ELSE IF c = 47 THEN 63 ELSE -1

(* One character.  temp is not cleared between groups; of its 32 bits only *)
(* the lower 24 are ever read, and kept here.                              *)
DecodeChar(st, c, i, n) ==
    LET temp == (st.temp % 2^18) * 64
        byte(k) == (temp \div 2^k) % 256
    IN  IF st.end THEN st
        ELSE IF c = Pad
          THEN CASE n - i = 0 -> [st EXCEPT !.out = @ \o <<byte(16), byte(8)>>, !.end = TRUE]
                 [] n - i = 1 -> [st EXCEPT !.out = Append(@, byte(10)), !.end = TRUE]
                 [] OTHER -> [st EXCEPT !.error = TRUE, !.end = TRUE]
        ELSE IF Digit(c) = -1 THEN [st EXCEPT !.error = TRUE, !.end = TRUE]
        ELSE [st EXCEPT !.temp = temp + Digit(c),
                        !.out = IF i % 4 # 0 THEN @
                                ELSE @ \o <<((temp + Digit(c)) \div 2^16) % 256,
                                            ((temp + Digit(c)) \div 2^8) % 256,
                                            (temp + Digit(c)) % 256>>]

base64_decode(s) ==
    LET st == FoldLeft(LAMBDA acc, i : DecodeChar(acc, s[i], i, Len(s)),
                       [temp |-> 0, out |-> <<>>, end |-> FALSE, error |-> FALSE],
                       [i \in DOMAIN s |-> i])
    IN  IF Len(s) % 4 # 0 \/ st.error THEN Error ELSE [bytes |-> st.out]

-----------------------------------------------------------------------------
(* serialization.cpp *)
RECURSIVE ToJson(_)
ToJson(v) ==
    CASE Type(v) = "bytes" -> [string |-> base64_encode(v.bytes)]
      [] Type(v) = "array" -> [array |-> Map(ToJson, v.array)]
      [] Type(v) = "struct" -> [struct |-> Map(ToJson, v.struct)]
      [] OTHER -> v

to_json(v) ==
    [value |-> ToJson(v),
     type |-> CASE Type(v) = "bytes" -> "byte_array"
                [] Type(v) = "double" -> "float64"
                [] Type(v) = "array" ->
                     IF v.array # <<>> /\ Type(v.array[1]) = "double" THEN "float64_array" ELSE ""
                [] OTHER -> ""]

Double(v) == IF Type(v) = "int" THEN [double |-> 2 * v.int] ELSE v

(* The text of a JSON value: dump writes null for what is not finite. *)
RECURSIVE Text(_)
Text(v) ==
    CASE Type(v) = "array" -> [array |-> Map(Text, v.array)]
      [] Type(v) = "struct" -> [struct |-> Map(Text, v.struct)]
      [] v = NonFinite -> [null |-> TRUE]
      [] OTHER -> v

(* The parser takes an integer of more than 64 bits for a double; one that *)
(* is unsigned is cast to int64_t.  null leaves the value unset.           *)
RECURSIVE FromJson(_)
FromJson(v) ==
    CASE Type(v) = "array" -> [array |-> Map(FromJson, v.array)]
      [] Type(v) = "struct" -> [struct |-> Map(FromJson, v.struct)]
      [] Type(v) = "null" -> [unset |-> TRUE]
      [] Type(v) = "int" ->
           IF v.int \notin -IntLimit .. 2 * IntLimit - 1 THEN Double(v)
           ELSE [int |-> IF v.int < IntLimit THEN v.int ELSE v.int - 2 * IntLimit]
      [] OTHER -> v

from_json(j) ==
    LET v == FromJson(j.value)
    IN  CASE Type(v) = "string" /\ j.type = "byte_array" -> base64_decode(v.string)
          [] Type(v) = "int" /\ j.type = "float64" -> Double(v)
          [] Type(v) = "array" /\ j.type = "float64_array" ->
               IF \E i \in DOMAIN v.array : Type(v.array[i]) \notin {"int", "double"}
                 THEN Error ELSE [array |-> Map(Double, v.array)]
          [] OTHER -> v

(* A client whose numbers have no type writes 2.0 as 2. *)
RECURSIVE Client(_)
Client(v) ==
    CASE Type(v) = "double" -> IF v.double % 2 = 0 THEN [int |-> v.double \div 2] ELSE v
      [] Type(v) = "array" -> [array |-> Map(Client, v.array)]
      [] Type(v) = "struct" -> [struct |-> Map(Client, v.struct)]
      [] OTHER -> v

(* What the bridge gets when such a client sends back what it got. *)
Returned(v) == LET j == to_json(v) IN from_json([j EXCEPT !.value = Client(Text(@))])

-----------------------------------------------------------------------------
(* parameter_interface.cpp.  An array of ROS 2 has one element type. *)
Scalar == {"bool", "int", "double", "string"}

from_ros_param(r) ==
    IF Type(r) \in {"bools", "ints", "doubles", "strings"}
      THEN [array |-> r[Type(r)]] ELSE r

Homogeneous(a) == \A i \in DOMAIN a : Type(a[i]) = Type(a[1])

to_ros_param(v) ==
    CASE Type(v) \in Scalar \cup {"bytes", "unset"} -> v
      [] Type(v) = "array" ->
           LET a == v.array IN
           IF a = <<>> THEN Undefined
           ELSE IF ~Homogeneous(a) THEN Error
           ELSE CASE Type(a[1]) = "bool" -> [bools |-> a]
                  [] Type(a[1]) = "int" -> [ints |-> a]
                  [] Type(a[1]) = "double" -> [doubles |-> a]
                  [] Type(a[1]) = "string" -> [strings |-> a]
                  [] OTHER -> Error
      [] OTHER -> Error

(* param_utils.cpp.  A container without elements stays an XmlRpcValue of  *)
(* no type; fromRosParam is the identity on values of ROS 1.               *)
Invalid == [invalid |-> TRUE]

RECURSIVE ToXmlRpc(_)
ToXmlRpc(v) ==
    CASE Type(v) \in Scalar -> v
      [] Type(v) = "array" ->
           IF v.array = <<>> THEN Invalid ELSE [array |-> Map(ToXmlRpc, v.array)]
      [] Type(v) = "struct" ->
           IF DOMAIN v.struct = {} THEN Invalid ELSE [struct |-> Map(ToXmlRpc, v.struct)]
      [] OTHER -> Error

-----------------------------------------------------------------------------
(* Values that occur: all of ROS 2 and, one level deep, of ROS 1. *)
Bytes == UNION {[1 .. n -> Byte] : n \in 0 .. MaxBytes}
Arrays(S) == UNION {[1 .. n -> S] : n \in 0 .. MaxLength}

Bools == {[bool |-> b] : b \in BOOLEAN}
Ints == {[int |-> n] : n \in -1 .. 1}
Doubles ==
    {[double |-> n] : n \in -1 .. 2} \cup {NonFinite}
    \cup {[double |-> 2 * n] : n \in {-IntLimit - 1, IntLimit - 1, IntLimit, 2 * IntLimit}}
Strings == {[string |-> s] : s \in {<<>>, <<65>>}}

Ros2Samples ==
    Bools \cup Ints \cup Doubles \cup Strings
    \cup {[bytes |-> b] : b \in Bytes}
    \cup {[bools |-> a] : a \in Arrays(Bools)} \cup {[ints |-> a] : a \in Arrays(Ints)}
    \cup {[doubles |-> a] : a \in Arrays(Doubles)} \cup {[strings |-> a] : a \in Arrays(Strings)}

Flat ==
    {[bool |-> TRUE], [int |-> 1], [string |-> <<65>>], [double |-> 1], [double |-> 2],
     [double |-> 2 * IntLimit], [double |-> 4 * IntLimit], NonFinite}
Containers(S) ==
    {[array |-> a] : a \in Arrays(S)}
    \cup UNION {{[struct |-> f] : f \in [K -> S]} : K \in SUBSET {"x", "y"}}
Ros1Samples == Flat \cup Containers(Flat \cup Containers({[int |-> 1], [double |-> 2]}))

(* A double that to_json marks comes back as it was. *)
Kept(d) == d # NonFinite /\ ~Large(d)

(* A value of ROS 2 comes back as it was, unless it is an array without    *)
(* elements that is not one of bytes, whose type is lost and of which      *)
(* to_ros_param reads a first element that is not there, or it has a       *)
(* double that is not kept.  What is not finite comes back unset, and      *)
(* makes an array an error.                                                *)
Ros2Kept ==
    \A r \in Ros2Samples :
        LET got == to_ros_param(Returned(from_ros_param(r)))
        IN  CASE Type(r) = "double" ->
                   IF r = NonFinite THEN got = [unset |-> TRUE] ELSE (got = r) = Kept(r)
              [] Type(r) \in {"bools", "ints", "doubles", "strings"} /\ r[Type(r)] = <<>> ->
                   got = Undefined
              [] Type(r) = "doubles" ->
                   IF NonFinite \in Range(r.doubles) THEN got = Error
                   ELSE (got = r) = \A d \in Range(r.doubles) : Kept(d)
              [] OTHER -> got = r

(* v has no empty container and no double inside that is not finite or     *)
(* that a client writes as an integer of 64 bits.                          *)
RECURSIVE Plain(_)
Plain(v) ==
    CASE Type(v) = "array" -> v.array # <<>> /\ \A i \in DOMAIN v.array : Plain(v.array[i])
      [] Type(v) = "struct" -> DOMAIN v.struct # {} /\ \A k \in DOMAIN v.struct : Plain(v.struct[k])
      [] Type(v) = "double" ->
           /\ v # NonFinite
           /\ v.double % 2 # 0 \/ v.double \div 2 \notin -IntLimit .. 2 * IntLimit - 1
      [] OTHER -> TRUE

(* A value of ROS 1 comes back as it was exactly if it is a double that is *)
(* kept, an array of such doubles, or is plain and no array that begins    *)
(* with a double.                                                          *)
Ros1Kept ==
    \A v \in Ros1Samples :
        LET marked == Type(v) = "array" /\ v.array # <<>> /\ Type(v.array[1]) = "double"
        IN  (ToXmlRpc(Returned(v)) = v) =
                \/ Type(v) = "double" /\ Kept(v)
                \/ marked /\ \A d \in Range(v.array) : Type(d) = "double" /\ Kept(d)
                \/ Type(v) # "double" /\ ~marked /\ Plain(v)
=============================================================================
