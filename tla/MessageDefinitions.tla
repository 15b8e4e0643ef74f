-------------------------- MODULE MessageDefinitions --------------------------
(***************************************************************************)
(* MessageDefinitionCache and the poll thread that asks it for the schemas *)
(* of new topics and services (message_definition_cache.cpp, ROS 2).       *)
(*                                                                         *)
(* A definition file is found by package, type and extension; what it says *)
(* is the set of field types (or includes) it mentions, and a rebuild of   *)
(* its package gives it a new version.  A schema is the sequence of the    *)
(* sections the code concatenates.  Files never disappear.                 *)
(***************************************************************************)
EXTENDS Naturals, Sequences, FiniteSets, SequencesExt

CONSTANTS
    Contents,      \* definition file -> sequence of its versions
    TopicType,     \* topic -> resource name of its type
    ServiceType,   \* service -> resource name of its type
    MaxBuilds,     \* bound: files built or rebuilt while the bridge runs
    MaxAbsent,     \* bound: files that are absent at the start
    MaxChanges     \* bound: changes of the ROS graph

File == DOMAIN Contents
Topic == DOMAIN TopicType
Service == DOMAIN ServiceType
Package == {f.pkg : f \in File}

VARIABLES
    files,      \* version of each file, 0 while it does not exist
    packages,   \* packages in the ament index
    cache,      \* msg_specs_by_definition_identifier_
    topics,     \* topics in the ROS graph
    services,   \* services in the ROS graph
    changed,    \* the graph event is triggered
    channels,   \* _advertised_topics: topic -> schema
    adverts,    \* _advertised_services: service -> schemas
    builds,     \* files built or rebuilt so far
    changes,    \* changes of the ROS graph so far
    behind,     \* topics and services advertised before the latest build
    unpolled    \* something was built since the poll thread last ran

vars == <<files, packages, cache, topics, services, changed, channels,
          adverts, builds, changes, behind, unpolled>>

EmptyMap == [x \in {} |-> x]

Init ==
    /\ files \in [File -> 0 .. 1]
    /\ Cardinality({f \in File : files[f] = 0}) <= MaxAbsent
    /\ packages \in SUBSET Package
    /\ \A f \in File : files[f] = 1 => f.pkg \in packages
    /\ cache = EmptyMap
    /\ topics = {} /\ services = {}
    /\ changed = FALSE
    /\ channels = EmptyMap /\ adverts = EmptyMap
    /\ builds = 0 /\ changes = 0
    /\ behind = {}
    /\ unpolled = FALSE

-----------------------------------------------------------------------------
(* Resource names, fields and files. *)
PRIMITIVE_TYPES == {"bool", "int8", "string"}

Name(pkg, folder, type, sub) ==
    [pkg |-> pkg, folder |-> folder, type |-> type, sub |-> sub]

Uuid == Name("unique_identifier_msgs", "", "UUID", "")
Stamp == Name("builtin_interfaces", "msg", "Time", "")

(* A field type without a package belongs to the package of its file. *)
parse_msg_dependencies(fields, context) ==
    {IF f.pkg = "" THEN [f EXCEPT !.pkg = context] ELSE f :
        f \in {g \in fields : g.pkg # "" \/ g.type \notin PRIMITIVE_TYPES}}

parse_dependencies(format, fields, context) ==
    IF format = "IDL" THEN fields ELSE parse_msg_dependencies(fields, context)

extension_for_format(format) == IF format = "IDL" THEN "idl" ELSE "msg"

(* What is cached of a file: its dependencies and the version they are from. *)
MessageSpec(format, f, fields) ==
    [deps |-> parse_dependencies(format, fields, f.pkg),
     file |-> f, version |-> files[f]]

(* split_action_msg_definition looks for newline, ---, newline: an action  *)
(* whose goal or result is empty does not split in three.                  *)
Splits(action) == action.goal # {} /\ action.result # {}

(* The five message types of an action, from the three parts of its file. *)
ActionSubtypes(action) ==
    [FeedbackMessage |-> {Uuid} \cup action.feedback,
     GetResult_Request |-> {Uuid},
     GetResult_Response |-> action.result,
     SendGoal_Request |-> {Uuid} \cup action.goal,
     SendGoal_Response |-> {Stamp}]

Subtype == {"FeedbackMessage", "GetResult_Request", "GetResult_Response",
            "SendGoal_Request", "SendGoal_Response"}

(* The subtypes an action's file is cached for when one of them is asked for. *)
StoredWith(sub) == Subtype

-----------------------------------------------------------------------------
(* Loading one definition returns the cache and how it ended: "ok",        *)
(* "notfound" (DefinitionNotFoundError) or "error" (any other exception).  *)
Loaded(c, exc) == [cache |-> c, exc |-> exc]

(* What the cache and the package index say of a definition; "read" when   *)
(* its file has to be read.                                                *)
Lookup(c, id, f) ==
    IF id \in DOMAIN c THEN "ok"
    ELSE IF f.pkg \notin packages THEN "error"
    ELSE IF f \notin File \/ files[f] = 0 THEN "notfound"
    ELSE "read"

load_service_spec(c, id) ==
    LET is_service == id.name.folder = "srv"
        f == [pkg |-> id.name.pkg, type |-> id.name.type,
              ext |-> IF is_service THEN "srv" ELSE extension_for_format(id.format)]
        text == Contents[f][files[f]]
        fields == IF ~is_service THEN text.fields
                  ELSE IF id.format = "SRV_REQ" THEN text.request
                  ELSE text.response
        found == Lookup(c, id, f)
    IN  IF id \notin DOMAIN c /\ id.name.folder \notin {"srv", ""} THEN Loaded(c, "error")
        ELSE IF found # "read" THEN Loaded(c, found)
        ELSE IF is_service /\ text.oneLine THEN Loaded(c, "error")
        ELSE Loaded(c @@ (id :> MessageSpec(id.format, f, fields)), "ok")

(* The name of an action type is the action's name and a subtype suffix. *)
load_message_spec(c, id) ==
    LET is_action == id.name.folder = "action"
        f == [pkg |-> id.name.pkg, type |-> id.name.type,
              ext |-> IF is_action THEN "action" ELSE extension_for_format(id.format)]
        text == Contents[f][files[f]]
        subtypes == ActionSubtypes(text)
        all == [i \in {[id EXCEPT !.name.sub = s] : s \in StoredWith(id.name.sub)} |->
                  MessageSpec(id.format, f, subtypes[i.name.sub])]
        found == Lookup(c, id, f)
    IN  IF found # "read" THEN Loaded(c, found)
        ELSE IF ~is_action
               THEN Loaded(c @@ (id :> MessageSpec(id.format, f, text.fields)), "ok")
        ELSE IF id.format # "MSG" THEN Loaded(c, "notfound")
        ELSE IF ~Splits(text) THEN Loaded(c, "error")
        ELSE Loaded(c @@ all, IF id \in DOMAIN (c @@ all) THEN "ok" ELSE "notfound")

-----------------------------------------------------------------------------
(* Mutant of Load: a definition that is not found is remembered as empty. *)
LoadOnce(c, id) ==
    LET l == IF id.format \in {"SRV_REQ", "SRV_RESP"}
               THEN load_service_spec(c, id) ELSE load_message_spec(c, id)
        f == CHOOSE g \in File : TRUE
    IN  IF l.exc # "notfound" THEN l
        ELSE Loaded(l.cache @@ (id :> MessageSpec(id.format, f, {})), l.exc)

Load(c, id) ==
    IF id.format \in {"SRV_REQ", "SRV_RESP"}
      THEN load_service_spec(c, id) ELSE load_message_spec(c, id)

(* What seen_deps compares: the format and the name as it is spelled. *)
SeenKey(dep) == dep

(* append_recursive: one lambda per caller, the same but for the loader.   *)
(* st holds the cache, seen_deps, the sections so far and how the loading  *)
(* ended; a section is a definition and the version it was read in.        *)
RECURSIVE append_recursive(_, _)
AppendLoaded(st, id, l) ==
    LET spec == l.cache[id]
        Visit(s, name) ==
            LET dep == [format |-> id.format, name |-> name]
            IN  IF s.exc # "ok" \/ SeenKey(dep) \in s.seen THEN s
                ELSE append_recursive([s EXCEPT !.seen = @ \cup {SeenKey(dep)}], dep)
    IN  IF l.exc # "ok" THEN [st EXCEPT !.cache = l.cache, !.exc = l.exc]
        ELSE FoldLeft(Visit,
                      [st EXCEPT !.cache = l.cache,
                                 !.text = Append(@, [id |-> id, version |-> spec.version])],
                      SetToSeq(spec.deps))

append_recursive(st, id) == AppendLoaded(st, id, Load(st.cache, id))

Begin(c) == [cache |-> c, seen |-> {}, text |-> <<>>, exc |-> "ok"]

Again(st) == [st EXCEPT !.text = <<>>, !.exc = "ok"]

(* Mutant of MsgOrIdl: the MSG sections before the missing one stay. *)
MsgAndIdl(msg, root) ==
    IF msg.exc = "notfound"
      THEN [format |-> "IDL",
            st |-> append_recursive([msg EXCEPT !.exc = "ok"],
                                    [format |-> "IDL", name |-> root])]
      ELSE [format |-> "MSG", st |-> msg]

(* The MSG definitions, or the IDL ones when one of those is missing. *)
MsgOrIdl(msg, root) ==
    IF msg.exc = "notfound"
      THEN [format |-> "IDL",
            st |-> append_recursive(Again(msg), [format |-> "IDL", name |-> root])]
      ELSE [format |-> "MSG", st |-> msg]

get_full_msg_text(c, root) ==
    MsgOrIdl(append_recursive(Begin(c), [format |-> "MSG", name |-> root]), root)

(* Request then response; what follows a missing definition stays empty. *)
SrvText(req, resp) ==
    LET last == IF req.exc = "ok" THEN resp ELSE req
    IN  [cache |-> last.cache,
         exc |-> IF last.exc = "error" THEN "error" ELSE "ok",
         request |-> IF req.exc = "ok" THEN req.text ELSE <<>>,
         response |-> IF req.exc = "ok" /\ resp.exc = "ok" THEN resp.text ELSE <<>>]

SrvResponse(req, root) ==
    SrvText(req, append_recursive(Again(req), [format |-> "SRV_RESP", name |-> root]))

get_full_srv_text(c, root) ==
    SrvResponse(append_recursive(Begin(c), [format |-> "SRV_REQ", name |-> root]), root)

-----------------------------------------------------------------------------
(* The poll thread.  The sets of new topics and services have no order. *)
(* Mutant of Advertised: a topic without a definition is skipped. *)
DefinedAdvertised(s, t, r) ==
    [cache |-> r.st.cache,
     channels |-> IF r.st.exc # "ok" THEN s.channels
                  ELSE s.channels @@ (t :> [format |-> r.format, text |-> r.st.text])]

(* A topic is advertised without a schema when a definition is missing; on *)
(* any other exception it is skipped.                                      *)
Schema(r) ==
    IF r.st.exc = "ok" THEN [format |-> r.format, text |-> r.st.text]
                       ELSE [format |-> "", text |-> <<>>]

Advertised(s, t, r) ==
    [cache |-> r.st.cache,
     channels |-> IF r.st.exc = "error" THEN s.channels
                  ELSE s.channels @@ (t :> Schema(r))]

AddTopic(s, t) == Advertised(s, t, get_full_msg_text(s.cache, TopicType[t]))

ServiceAdvertised(s, v, r) ==
    [cache |-> r.cache,
     adverts |-> IF r.exc = "error" THEN s.adverts
                 ELSE s.adverts @@ (v :> [request |-> r.request, response |-> r.response])]

AddService(s, v) == ServiceAdvertised(s, v, get_full_srv_text(s.cache, ServiceType[v]))

(* What has left the graph is removed first. *)
Restricted(f, S) == [x \in DOMAIN f \cap S |-> f[x]]

Poll ==
    /\ changed
    /\ \E order \in SetToSeqs(topics \ DOMAIN channels),
          serviceOrder \in SetToSeqs(services \ DOMAIN adverts) :
         LET t == FoldLeft(AddTopic,
                           [cache |-> cache, channels |-> Restricted(channels, topics)],
                           order)
             v == FoldLeft(AddService,
                           [cache |-> t.cache, adverts |-> Restricted(adverts, services)],
                           serviceOrder)
         IN  /\ channels' = t.channels
             /\ adverts' = v.adverts
             /\ cache' = v.cache
    /\ changed' = FALSE
    /\ behind' = behind \cap (topics \cup services)
    /\ unpolled' = FALSE
    /\ UNCHANGED <<files, packages, topics, services, builds, changes>>

(* The ROS graph: a topic or a service comes or goes. *)
GraphChange ==
    /\ changes < MaxChanges
    /\ \/ \E t \in Topic : topics' = SymDiff(topics, {t}) /\ UNCHANGED services
       \/ \E v \in Service : services' = SymDiff(services, {v}) /\ UNCHANGED topics
    /\ changed' = TRUE
    /\ changes' = changes + 1
    /\ UNCHANGED <<files, packages, cache, channels, adverts, builds, behind, unpolled>>

(* Somebody installs or rebuilds a definition. *)
Build(f) ==
    /\ builds < MaxBuilds
    /\ files[f] < Len(Contents[f])
    /\ files' = [files EXCEPT ![f] = @ + 1]
    /\ packages' = packages \cup {f.pkg}
    /\ builds' = builds + 1
    /\ behind' = DOMAIN channels \cup DOMAIN adverts
    /\ unpolled' = TRUE
    /\ UNCHANGED <<cache, topics, services, changed, channels, adverts, changes>>

(* The bounds are used up and the poll thread has caught up. *)
Exhausted == changes = MaxChanges /\ ~changed /\ UNCHANGED vars

Next == Poll \/ GraphChange \/ (\E f \in File : Build(f)) \/ Exhausted

Spec == Init /\ [][Next]_vars

-----------------------------------------------------------------------------
(* Reference: the definitions reachable from some, as the cache would load *)
(* each of them by itself.                                                 *)
Deps(id) ==
    LET l == Load(cache, id)
    IN  IF l.exc = "ok"
          THEN {[format |-> id.format, name |-> n] : n \in l.cache[id].deps} ELSE {}

RECURSIVE Reached(_, _)
Reached(known, new) ==
    IF new = {} THEN known
    ELSE Reached(known \cup new, UNION {Deps(id) : id \in new} \ (known \cup new))

Root(format, name) == [format |-> format, name |-> name]
Reachable(root) == Reached({}, {root})

Complete(needed) == \A id \in needed : Load(cache, id).exc = "ok"

(* A text is the root's section and one section for each definition it needs. *)
IsTextOf(text, root, needed) ==
    /\ text # <<>> /\ Head(text).id = root
    /\ {text[i].id : i \in 1 .. Len(text)} = needed
    /\ Len(text) = Cardinality(needed)

TopicSchema(name, r, msg, idl) ==
    /\ (r.format = "MSG" /\ r.st.exc = "ok") = Complete(msg)
    /\ r.st.exc = "ok" => IsTextOf(r.st.text, Root(r.format, name),
                                  IF r.format = "MSG" THEN msg ELSE idl)
    /\ r.st.exc = "notfound" => ~Complete(idl)

ServiceSchemas(name, r, req, resp) ==
    /\ r.request # <<>> => IsTextOf(r.request, Root("SRV_REQ", name), req)
    /\ r.response # <<>> => IsTextOf(r.response, Root("SRV_RESP", name), resp)
    /\ (r.request # <<>>) = Complete(req)
    /\ (r.response # <<>>) = (Complete(req) /\ Complete(resp))

(* Schemas are self-contained.  get_full_msg_text gives the MSG            *)
(* definitions exactly when all of them can be loaded, otherwise the IDL   *)
(* ones, each once and all of the same format, also after a MSG attempt    *)
(* that failed half way and with any part of them cached.  For             *)
(* get_full_srv_text, request and response are each complete or empty, a   *)
(* dependency they share is in both, and there is never a response without *)
(* the request, although a service with only one of them is advertised.    *)
SchemasComplete ==
    /\ \A name \in {TopicType[t] : t \in Topic} :
         TopicSchema(name, get_full_msg_text(cache, name),
                     Reachable(Root("MSG", name)), Reachable(Root("IDL", name)))
    /\ \A name \in {ServiceType[v] : v \in Service} :
         ServiceSchemas(name, get_full_srv_text(cache, name),
                        Reachable(Root("SRV_REQ", name)),
                        Reachable(Root("SRV_RESP", name)))

Outdated(id) == cache[id].version # files[cache[id].file]

(* The types of one action are cached from one version of its file, so a   *)
(* client never decodes a goal of one version and a result of another.     *)
ActionsOfOneVersion ==
    \A i, j \in DOMAIN cache :
        /\ i.name.folder = "action" /\ j.name.folder = "action"
        /\ cache[i].file = cache[j].file
        => cache[i].version = cache[j].version

(* The cache is transparent: unless a cached definition was rebuilt, what  *)
(* is asked of it is answered as an empty cache would, whatever was loaded *)
(* before, and for whom.  A failed lookup is not remembered.  And whatever *)
(* was rebuilt, the types of one action fit each other.                    *)
CacheTransparent ==
  /\ ActionsOfOneVersion
  /\ (\A id \in DOMAIN cache : ~Outdated(id)) =>
        /\ \A t \in Topic :
             LET warm == get_full_msg_text(cache, TopicType[t])
                 cold == get_full_msg_text(EmptyMap, TopicType[t])
             IN  /\ warm.format = cold.format
                 /\ warm.st.exc = cold.st.exc
                 /\ warm.st.text = cold.st.text
        /\ \A v \in Service :
             LET warm == get_full_srv_text(cache, ServiceType[v])
                 cold == get_full_srv_text(EmptyMap, ServiceType[v])
             IN  /\ warm.exc = cold.exc
                 /\ warm.request = cold.request /\ warm.response = cold.response

(* What is advertised is what the cache gives now, unless something was    *)
(* built since: only then may a channel keep an empty or an old schema.    *)
AdvertisedAsCached ==
    /\ \A t \in DOMAIN channels \ behind :
         channels[t] = Schema(get_full_msg_text(cache, TopicType[t]))
    /\ \A v \in DOMAIN adverts \ behind :
         LET r == get_full_srv_text(cache, ServiceType[v])
         IN  adverts[v] = [request |-> r.request, response |-> r.response]

(* After a poll the topics and services without an advertisement are those *)
(* whose definition cannot be read at all (package not found, malformed);  *)
(* they are asked for again at every change of the graph, so nothing stays *)
(* out once its package is there and the graph has changed since.  The     *)
(* others are advertised with what the cache has for them.                 *)
AdvertisedUpToDate ==
    /\ AdvertisedAsCached
    /\ ~changed /\ ~unpolled =>
         /\ \A t \in topics \ DOMAIN channels :
              get_full_msg_text(cache, TopicType[t]).st.exc = "error"
         /\ \A v \in services \ DOMAIN adverts :
              get_full_srv_text(cache, ServiceType[v]).exc = "error"
=============================================================================
