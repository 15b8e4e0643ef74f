-------------------------- MODULE ParameterExchange --------------------------
(***************************************************************************)
(* The requests of ParameterRequests with the values of ParameterValues.   *)
(***************************************************************************)
EXTENDS ParameterRequests, ParameterValues

(* What a ROS 2 answer carries can be sent back with setParameters and     *)
(* leaves value and type as they were, bytes in base64 included, although  *)
(* the numbers of a client have no type: to_json marks doubles and         *)
(* from_json turns them back.  The exceptions are an empty array, a double *)
(* that is not finite, which unsets the parameter, and one between 2^63    *)
(* and 2^64 written as an integer, which changes its value.  In ROS 1 that *)
(* holds of doubles, arrays of doubles and what has no whole double and no *)
(* empty container inside, with the same exceptions, and of nothing else:  *)
(* to_json marks no double deeper down, and only looks at the first of an  *)
(* array.                                                                  *)
ValuesReturn == sent # None => IF ros1 THEN Ros1Kept ELSE Ros2Kept
=============================================================================
