------------------------- MODULE MCMessageDefinitions -------------------------
(* A message with a nested one, a service, an action, and a message with a *)
(* wstring field, which is not in the list of primitive types.             *)
EXTENDS MessageDefinitions

F(pkg, type, ext) == [pkg |-> pkg, type |-> type, ext |-> ext]
Local(type) == Name("", "", type, "")
C == Name("q", "", "C", "")
Msg(fields) == <<[fields |-> fields]>>

MCContents ==
    F("p", "A", "msg") :> Msg({Local("string"), Local("B"), C})
    @@ F("p", "B", "msg") :> Msg({Local("int8")}) \o Msg({C})
    @@ F("q", "C", "msg") :> Msg({Local("bool")})
    @@ F("p", "A", "idl") :> Msg({Name("p", "msg", "B", ""), Name("q", "msg", "C", "")})
    @@ F("p", "B", "idl") :> Msg({})
    @@ F("q", "C", "idl") :> Msg({})
    @@ F("p", "S", "srv") :>
         <<[request |-> {C}, response |-> {Local("B"), C}, oneLine |-> FALSE],
           [request |-> {C}, response |-> {Local("wstring")}, oneLine |-> FALSE]>>
    @@ F("p", "Act", "action") :>
         <<[goal |-> {Local("int8")}, result |-> {Local("B")}, feedback |-> {}],
           [goal |-> {Local("bool")}, result |-> {Local("B")}, feedback |-> {C}],
           [goal |-> {}, result |-> {Local("B")}, feedback |-> {C}]>>
    @@ F("unique_identifier_msgs", "UUID", "msg") :> Msg({Local("int8")})

MCTopicType ==
    [t1 |-> Name("p", "msg", "A", ""),
     t2 |-> Name("p", "action", "Act", "FeedbackMessage"),
     t3 |-> Name("p", "action", "Act", "GetResult_Response")]

MCServiceType == [s1 |-> Name("p", "srv", "S", "")]
=============================================================================
