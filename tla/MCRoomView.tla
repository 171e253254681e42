------------------------------ MODULE MCRoomView ------------------------------
(* A small instance of RoomView for TLC: two agents and a guest. *)
EXTENDS RoomView

CONSTANTS a, g, h

\* A hidden channel that persists, an invisible one, and one that hides nothing,
\* asked for with a bit that is no option.
MCRequests == { Bit.HiddenMemberList + Bit.Persist, Bit.Invisible, Bit.InviteOnly + 4096 }

===============================================================================
