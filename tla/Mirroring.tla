----------------------------- MODULE Mirroring ------------------------------
(* What the models of a client that mirrors the properties of a server share. *)
CONSTANTS
  Values,     \* values of a property
  Absent,     \* no such property or interface
  MaxChanges  \* bound: calls by the application that change something

VARIABLES
  outbox,   \* messages on their way to the client
  mirror,   \* what the client believes
  changes   \* how often the application has changed something
=============================================================================
