-------------------------- MODULE MCGamepakPaging --------------------------
(***************************************************************************)
(* Two game paks for TLC: one that fills the address space and does not    *)
(* fit into the buffer, and one that does fit.                             *)
(***************************************************************************)
EXTENDS GamepakPaging

MCRomPages == [g \in Games |-> IF g = "large" THEN SpacePages ELSE BufferPages]
=============================================================================
