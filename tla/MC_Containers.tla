----------------------------- MODULE MC_Containers -----------------------------
(* One container, which may be rebuilt, as containers share nothing but their pass. *)
EXTENDS ContainerDiscovery
=============================================================================
