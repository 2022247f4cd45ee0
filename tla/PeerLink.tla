------------------------------ MODULE PeerLink ------------------------------
(***************************************************************************)
(* One WebSocket link of the wallet to a full node (core/peerLink.ts), as  *)
(* functions on its state: the socket in use, whether the link counts as   *)
(* connected, the socket that is being opened, and every socket the link   *)
(* ever made that has not closed.  ConnectionManager holds the links.      *)
(***************************************************************************)
EXTENDS Naturals, FiniteSets

CONSTANT Sockets    \* names of sockets of one link; a name is free again once closed

NoSocket == 0
ASSUME SocketsAssumption == NoSocket \notin Sockets

(* "opening": before the node's hello; "open": in use since its hello; "closing": closed
   by this side, its close event is still to come. *)
SocketStates == {"none", "opening", "open", "closing"}

Links == [socket     : Sockets \cup {NoSocket},
          connected  : BOOLEAN,
          connecting : Sockets \cup {NoSocket},
          sockets    : [Sockets -> SocketStates]]

NewLink == [socket |-> NoSocket, connected |-> FALSE, connecting |-> NoSocket,
            sockets |-> [s \in Sockets |-> "none"]]

IsOpen(link) == /\ link.connected /\ link.socket # NoSocket
                /\ link.sockets[link.socket] = "open"
Free(link) == {s \in Sockets : link.sockets[s] = "none"}

(* open(): nothing when the link is open or opening, a new socket otherwise. *)
CanOpen(link) == IsOpen(link) \/ link.connecting # NoSocket \/ Free(link) # {}
opened(link) ==
    IF IsOpen(link) \/ link.connecting # NoSocket THEN link
    ELSE LET s == CHOOSE f \in Free(link) : TRUE
         IN  [link EXCEPT !.connecting = s, !.sockets[s] = "opening"]

(* The node's hello: the new socket takes the place of whatever the link held. *)
greeted(link) ==
    [link EXCEPT !.socket = link.connecting, !.connected = TRUE,
                 !.sockets[link.connecting] = "open", !.connecting = NoSocket]

(* A hello of another network closes the socket; the attempt goes on to its timeout. *)
refused(link) == [link EXCEPT !.sockets[link.connecting] = "closing"]

(* The attempt times out or meets an error. *)
connectFailed(link) ==
    [link EXCEPT !.connecting = NoSocket,
                 !.sockets[link.connecting] = IF @ = "opening" THEN "closing" ELSE @]

(* The close event of a socket, in use or not. *)
socketClosed(link, s) ==
    [link EXCEPT !.connected = FALSE, !.sockets[s] = "none",
                 !.socket = IF @ = s THEN NoSocket ELSE @]

(* Mutant: close() also gives up the attempt under way. *)
closed_Connecting(link) ==
    IF link.socket = NoSocket THEN [link EXCEPT !.connected = FALSE, !.connecting = NoSocket]
    ELSE [link EXCEPT !.connected = FALSE, !.socket = NoSocket, !.connecting = NoSocket,
                      !.sockets[link.socket] = "closing"]
(* close(): a socket that is still opening is not reached. *)
closed(link) ==
    IF link.socket = NoSocket THEN [link EXCEPT !.connected = FALSE]
    ELSE [link EXCEPT !.connected = FALSE, !.socket = NoSocket,
                      !.sockets[link.socket] = "closing"]

(* Facts of a link that every operation keeps. *)
LinkHolds(link) ==
    /\ link \in Links
    /\ link.connected => link.socket # NoSocket
    /\ link.socket # NoSocket => link.sockets[link.socket] = "open"
    /\ link.connecting # NoSocket => link.sockets[link.connecting] \in {"opening", "none", "closing"}
=============================================================================
