------------------------------ MODULE Registry ------------------------------
(* What the models of DbusObjectServer (properties.hpp) share: its objects.   *)
CONSTANT Objects  \* DbusObject instances
VARIABLE objects  \* DbusObjectServer::objects
=============================================================================
