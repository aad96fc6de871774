--------------------------- MODULE MCSelectServer ---------------------------
(* SelectServer with one client for each kind of socket. *)
EXTENDS SelectServer

MCKind == [c \in Kinds |-> c]

=============================================================================
