----------------------- MODULE EngineUpstreamParameters -----------------------
(***************************************************************************)
(* The parameters of EngineUpstream and what is assumed of them.           *)
(***************************************************************************)
EXTENDS Naturals, FiniteSets

CONSTANTS
  Queries,       \* query goroutines, each forwards one query at a time
  Appliers,      \* gRPC goroutines that run SetUpstreamResolvers
  MaxUpstreams,  \* bound: resolvers in one list
  Plain,         \* positions whose transport is plain UDP/TCP, not DoT/DoH
  MaxRetries,    \* attempts per upstream (2)
  MaxManagers    \* bound: managers built during a behaviour

ASSUME EngineUpstreamAssumption ==
  /\ MaxUpstreams \in Nat \ {0} /\ MaxManagers \in Nat \ {0}
  /\ MaxRetries \in Nat \ {0}
  /\ Plain \subseteq 1 .. MaxUpstreams

Managers  == 1 .. MaxManagers
Positions == 1 .. MaxUpstreams
None      == 0
=============================================================================
