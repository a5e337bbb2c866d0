------------------------------ MODULE MCService ------------------------------
(* An instance of Service for TLC. *)
EXTENDS Service

\* Two commands of a user, and something from another one with the same lock.
Senders == <<1, 1, 1 + Locks>>

Texts == <<{"text"}, {"text"}, {"button", "group"}>>
=============================================================================
