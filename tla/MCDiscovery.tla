------------------------------ MODULE MCDiscovery ------------------------------
(* Instances of Discovery for TLC. *)
EXTENDS Discovery, TLC

CONSTANTS container, docker, env, here, there, a1, a2

\* A container that can move, and takes the alias of the place it is at.
OneContainer   == (container :> docker)
ContainerData  == (container :> {here, there})
ContainerAlias == [d \in Data |-> IF d = there THEN a2 ELSE a1]
=============================================================================
