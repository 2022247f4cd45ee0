------------------------ MODULE MCConnectionManager ------------------------
(* Peers for ConnectionManager: A answers HTTP, B only its WebSocket, and A may be removed
   and added again as a second entry. *)
EXTENDS ConnectionManager, TLC

CONSTANTS A, B

MCEntries == {1, 2, 3}
MCAddress == <<A, B, B>>
MCLinkCount == <<1, 1, 1>>
=============================================================================
