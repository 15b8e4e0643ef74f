------------------------- MODULE ClientPublications -------------------------
(***************************************************************************)
(* Channels that clients advertise and publish on.  An advertisement is    *)
(* kept in three places: the server's _client_channels and the client's    *)
(* advertised_channels (websocket_server.hpp), and the bridge's            *)
(* _client_advertised_topics (ros2_bridge.cpp), which owns the publisher.  *)
(* The ROS 1 bridge (ros1_bridge_nodelet.cpp) keeps the same table.        *)
(*                                                                         *)
(* All of it is changed by the handler thread only; what can go wrong is a *)
(* request of several channels that fails in the middle, in one place and  *)
(* not in another, and the requests that follow it.                        *)
(***************************************************************************)
CONSTANTS
    Conn,         \* connection handles
    Channel,      \* channel ids chosen by the clients
    None          \* no connection

VARIABLES
    con,       \* "open", "closed" (close callback queued) or "done"
    clients,   \* handles in _clients
    adv,       \* ClientInfo.advertised_channels
    known,     \* handles in _client_channels
    pub,       \* the channels of each
    bknown,    \* handles in _client_advertised_topics of the bridge
    bpub,      \* the publishers of each
    early,     \* connections that advertised before their login
    refused,   \* connections of which the bridge refused an advertisement
    dropped,   \* the bridge refused a message the server had accepted
    hpc,       \* where the handler thread is
    hc,        \* the connection it serves
    first      \* is_first_publication

serverVars == <<con, clients, adv, known, pub>>
bridgeVars == <<bknown, bpub, dropped>>
history == <<early, refused>>
handlerVars == <<hpc, hc, first>>
vars == <<con, clients, adv, known, pub, bknown, bpub, early, refused,
          dropped, hpc, hc, first>>

Init ==
    /\ con = [c \in Conn |-> "open"]
    /\ clients = {} /\ known = {} /\ bknown = {}
    /\ adv = [c \in Conn |-> {}]
    /\ pub = [c \in Conn |-> {}]
    /\ bpub = [c \in Conn |-> {}]
    /\ early = {} /\ refused = {} /\ dropped = FALSE
    /\ hpc = "idle" /\ hc = None /\ first = FALSE

-----------------------------------------------------------------------------
(* Nothing here asks whether the client has logged in. *)
Receives(c) == hpc = "idle" /\ con[c] # "done"

EndRequest == hpc' = "idle" /\ hc' = None /\ first' = FALSE

(* handle_login: the clients it kicks stay in _clients, with their         *)
(* channels.                                                               *)
Login(c) ==
    /\ Receives(c)
    /\ clients' = clients \cup {c}
    /\ UNCHANGED <<con, adv, known, pub, bridgeVars, history, handlerVars>>

(* handle_advertise creates the client's entry before anything else. *)
Advertise(c) ==
    /\ Receives(c)
    /\ known' = known \cup {c}
    /\ first' = (c \notin known)
    /\ early' = early \cup ({c} \ clients)
    /\ hpc' = "advertise" /\ hc' = c
    /\ UNCHANGED <<con, clients, adv, pub, bridgeVars, refused>>

(* client_advertise of the bridge puts an empty entry for the client in    *)
(* its table if there is none, and then the publisher into the entry.      *)
client_advertise(c, ch) ==
    /\ ch \notin bpub[c]
    /\ bknown' = bknown \cup {c}
    /\ bpub' = [bpub EXCEPT ![c] = @ \cup {ch}]

(* It throws after that when the client has the channel already or ROS     *)
(* refuses the publisher, and in ROS 1 before that when the encoding is    *)
(* not supported.                                                          *)
client_advertise_throws(c) ==
    /\ bknown' \in {bknown, bknown \cup {c}}
    /\ refused' = refused \cup {c}

(* client_unadvertise for each of some channels; an entry that becomes     *)
(* empty goes, and one that has none of them stays as it is.               *)
client_unadvertise(c, chs) ==
    /\ bpub' = [bpub EXCEPT ![c] = @ \ chs]
    /\ bknown' = IF bpub[c] \cap chs # {} /\ bpub[c] \subseteq chs
                   THEN bknown \ {c} ELSE bknown

client_message(c, ch) == dropped' = (dropped \/ ch \notin bpub[c])

(* A channel of the request goes to client_advertise of the bridge unless  *)
(* it is already in the entry and the entry is not new.                    *)
Passes(ch) == first \/ ch \notin pub[hc]

(* The bridge creates the publisher; then _clients.at throws for a client  *)
(* that is not logged in, and the rest of the request is lost.             *)
AdvertiseChannel(ch) ==
    /\ hpc = "advertise"
    /\ Passes(ch) /\ client_advertise(hc, ch)
    /\ IF hc \in clients
         THEN /\ adv' = [adv EXCEPT ![hc] = @ \cup {ch}]
              /\ pub' = [pub EXCEPT ![hc] = @ \cup {ch}]
              /\ UNCHANGED handlerVars
         ELSE EndRequest /\ UNCHANGED <<adv, pub>>
    /\ UNCHANGED <<con, clients, known, history, dropped>>

(* Mutant of AdvertiseThrows: the channel is stored before the call. *)
AdvertiseThrowsStored ==
    /\ hpc = "advertise"
    /\ \E ch \in Channel : Passes(ch) /\ pub' = [pub EXCEPT ![hc] = @ \cup {ch}]
    /\ client_advertise_throws(hc)
    /\ EndRequest
    /\ UNCHANGED <<con, clients, adv, known, bpub, dropped, early>>

(* The bridge refuses the channel, and the rest of the request is lost. *)
AdvertiseThrows ==
    /\ hpc = "advertise"
    /\ \E ch \in Channel : Passes(ch)
    /\ client_advertise_throws(hc)
    /\ EndRequest
    /\ UNCHANGED <<serverVars, bpub, dropped, early>>

(* handle_unadvertise *)
Unadvertise(c) ==
    /\ Receives(c)
    /\ c \in known
    /\ hpc' = "unadvertise" /\ hc' = c
    /\ UNCHANGED <<serverVars, bridgeVars, history, first>>

(* A channel of the request that the server knows; the bridge throws when  *)
(* it does not know it, _clients.at when the client is not logged in.      *)
UnadvertiseChannel(ch) ==
    /\ hpc = "unadvertise"
    /\ ch \in pub[hc]
    /\ client_unadvertise(hc, {ch})
    /\ IF ch \in bpub[hc] /\ hc \in clients
         THEN /\ pub' = [pub EXCEPT ![hc] = @ \ {ch}]
              /\ adv' = [adv EXCEPT ![hc] = @ \ {ch}]
              /\ UNCHANGED handlerVars
         ELSE EndRequest /\ UNCHANGED <<pub, adv>>
    /\ UNCHANGED <<con, clients, known, history, dropped>>

(* The request has no further channel, or one that is malformed. *)
RequestDone ==
    /\ hpc \in {"advertise", "unadvertise"}
    /\ EndRequest
    /\ UNCHANGED <<serverVars, bridgeVars, history>>

(* MESSAGE_DATA of handle_binary_message looks the channel up. *)
Accepts(c, ch) == c \in known /\ ch \in pub[c]

(* client_message of the bridge throws for a channel it does not have. *)
ClientMessage(c, ch) ==
    /\ Receives(c)
    /\ Accepts(c, ch)
    /\ client_message(c, ch)
    /\ UNCHANGED <<serverVars, bknown, bpub, history, handlerVars>>

Disconnect(c) ==
    /\ con[c] = "open"
    /\ con' = [con EXCEPT ![c] = "closed"]
    /\ UNCHANGED <<clients, adv, known, pub, bridgeVars, history, handlerVars>>

(* Mutant of Close: the channels are read after they were moved away. *)
CloseMoved(c) ==
    /\ hpc = "idle" /\ con[c] = "closed"
    /\ con' = [con EXCEPT ![c] = "done"]
    /\ clients' = clients \ {c}
    /\ adv' = [adv EXCEPT ![c] = {}]
    /\ known' = known \ {c}
    /\ pub' = [pub EXCEPT ![c] = {}]
    /\ UNCHANGED <<bridgeVars, history, handlerVars>>

(* handle_connection_closed: the advertised channels go from the bridge,   *)
(* errors are ignored one by one, and the entry goes; a client that is not *)
(* logged in is forgotten by nobody.                                       *)
Close(c) ==
    /\ hpc = "idle" /\ con[c] = "closed"
    /\ con' = [con EXCEPT ![c] = "done"]
    /\ clients' = clients \ {c}
    /\ IF c \in clients
         THEN /\ adv' = [adv EXCEPT ![c] = {}]
              /\ client_unadvertise(c, adv[c])
              /\ known' = known \ {c}
              /\ pub' = [pub EXCEPT ![c] = {}]
         ELSE UNCHANGED <<adv, bknown, bpub, known, pub>>
    /\ UNCHANGED <<history, dropped, handlerVars>>

-----------------------------------------------------------------------------
Request(c) ==
    \/ Login(c) \/ Advertise(c) \/ Unadvertise(c)
    \/ \E ch \in Channel : ClientMessage(c, ch)

Handler ==
    \/ \E ch \in Channel : AdvertiseChannel(ch) \/ UnadvertiseChannel(ch)
    \/ AdvertiseThrows
    \/ RequestDone

(* Every connection is gone. *)
Exhausted ==
    /\ \A c \in Conn : con[c] = "done"
    /\ hpc = "idle"
    /\ UNCHANGED vars

Next ==
    \/ \E c \in Conn : Request(c) \/ Disconnect(c) \/ Close(c)
    \/ Handler
    \/ Exhausted

Spec == Init /\ [][Next]_vars

-----------------------------------------------------------------------------
(* Every variable has the type of the field it stands for. *)
TypeOK ==
    /\ con \in [Conn -> {"open", "closed", "done"}]
    /\ clients \subseteq Conn
    /\ adv \in [Conn -> SUBSET Channel]
    /\ known \subseteq Conn
    /\ pub \in [Conn -> SUBSET Channel]
    /\ bknown \subseteq Conn
    /\ bpub \in [Conn -> SUBSET Channel]
    /\ early \subseteq Conn /\ refused \subseteq Conn
    /\ dropped \in BOOLEAN
    /\ hpc \in {"idle", "advertise", "unadvertise"}
    /\ hc \in Conn \cup {None}
    /\ first \in BOOLEAN

(* Requests that fail in the middle, kicks and closes included, the three  *)
(* records of a client's channels agree: what handle_unadvertise and       *)
(* handle_connection_closed remove is what the bridge has.  Of a client    *)
(* that advertised before its login the bridge may have more, because      *)
(* handle_advertise looks the client up only after it called the bridge.   *)
RecordsAgree ==
    \A c \in clients :
      /\ adv[c] = pub[c] /\ pub[c] \subseteq bpub[c]
      /\ c \notin early => pub[c] = bpub[c]

(* handle_connection_closed leaves no publisher in the bridge and nothing  *)
(* in the server of a client that logged in before it advertised.  It      *)
(* unadvertises channel by channel, so what it can leave is an entry of    *)
(* _client_advertised_topics without publishers; it does so only of a      *)
(* client of which the bridge has refused an advertisement, after it had   *)
(* made the entry for it.                                                  *)
NothingLeftBehind ==
    \A c \in Conn \ early : con[c] = "done" =>
      /\ c \notin known /\ adv[c] = {} /\ pub[c] = {} /\ bpub[c] = {}
      /\ c \in bknown => c \in refused

(* A message that handle_binary_message accepts finds its publisher in     *)
(* client_message: none is accepted and then dropped.                      *)
AcceptedIsPublished == ~dropped
=============================================================================
