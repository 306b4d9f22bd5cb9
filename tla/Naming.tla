------------------------------- MODULE Naming -------------------------------
(***************************************************************************)
(* A server that publishes itself and a client that discovers it, through  *)
(* ZooKeeper, whose links break and whose sessions expire.                 *)
(***************************************************************************)
EXTENDS ServiceRegistry, ServiceDiscovery

namingVars == <<zkVars, registryVars, discoveryVars>>

NamingInit == ZkInit /\ RegistryInit /\ DiscoveryInit

RegistryStep == (RegistryHandles \/ RegistryRenews \/ Publish \/ Unpublish \/ StopRegistry) /\ UNCHANGED discoveryVars
DiscoveryStep == (DiscoveryHandles \/ DiscoveryRenews \/ WatchService \/ StopDiscovery) /\ UNCHANGED registryVars

ZkStep ==
    /\ \/ Serve \/ LoseReply \/ PredecessorExpires \/ OthersPrepare \/ OthersChange
       \/ \E c \in Clients : LoseLink(c) \/ LinkUp(c) \/ Expire(c)
    /\ UNCHANGED <<registryVars, discoveryVars>>

NamingNext == RegistryStep \/ DiscoveryStep \/ ZkStep

\* The threads run, ZooKeeper answers, a broken link comes back, the session of a dead process expires.
NamingFairness ==
    /\ WF_namingVars(RegistryHandles /\ UNCHANGED discoveryVars)
    /\ WF_namingVars(RegistryRenews /\ UNCHANGED discoveryVars)
    /\ WF_namingVars(DiscoveryHandles /\ UNCHANGED registryVars)
    /\ WF_namingVars(DiscoveryRenews /\ UNCHANGED registryVars)
    /\ WF_namingVars(Serve /\ UNCHANGED <<registryVars, discoveryVars>>)
    /\ WF_namingVars(PredecessorExpires /\ UNCHANGED <<registryVars, discoveryVars>>)
    /\ \A c \in Clients : WF_namingVars(LinkUp(c) /\ UNCHANGED <<registryVars, discoveryVars>>)

NamingSpec == NamingInit /\ [][NamingNext]_namingVars /\ NamingFairness

(***************************************************************************)
(* Once all is quiet, a client that watches the service knows its          *)
(* endpoints.  The one exception is a session that expires before          *)
(* ReconnectExpired or Start has stored its handle: Watcher ignores that.  *)
(***************************************************************************)
ViewConverges == <>[](dis.started /\ dis.watched /\ ~deaf => view = Endpoints)

(***************************************************************************)
(* Once all is quiet, a server that published itself is registered.  There *)
(* are two exceptions: the session came up, or expired, before             *)
(* ReconnectExpired had stored its handle, and Watcher ignored it; or the  *)
(* last publication met the node of the process before, still there, and   *)
(* nothing tries again when that goes.                                     *)
(***************************************************************************)
ServerRegisters == <>[](reg.started /\ reg.wanted /\ ~unheard /\ ~refused => OwnsEndpoint("registry"))
=============================================================================
