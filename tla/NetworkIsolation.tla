--------------------------- MODULE NetworkIsolation ---------------------------
(***************************************************************************)
(* NetworkService of the container service: the network policies in the    *)
(* namespaces of environments.  An environment is isolated by three        *)
(* policies, made one after the other; two environments are given access   *)
(* to each other by a policy in each of their namespaces.  Every policy is *)
(* a call of the Kubernetes API, which may fail and leave the rest undone; *)
(* nothing keeps two requests from working on the same pair.               *)
(***************************************************************************)
EXTENDS Naturals, FiniteSets

CONSTANTS Env,            \* environments
          NetworkCaller,  \* requests under way at once
          MaxUnions,      \* bound: requests for access or its end ever begun
          NoEnv

\* The policies that isolate an environment; those that let a peer in are named for it.
Isolating == {"default-deny-all", "allow-egress", "allow-ingress"}

ASSUME NetworkAssumption ==
    NoEnv \notin Env /\ MaxUnions \in Nat /\ Env \cap Isolating = {}

VARIABLES namespaces,   \* the environments that have a namespace
          policies,     \* the policies in each: isolating ones, and the peers let in
          network,      \* where each request is
          unions,       \* requests for access or its end begun
          isolatedOK,   \* history: environments whose isolation was reported as made
          stripped,     \* history: those whose policies went while they were isolated
          unsettled     \* history: pairs whose requests overlapped, failed half way
                        \*   or whose policies were deleted with all others

networkVars == <<namespaces, policies, network, unions, isolatedOK, stripped, unsettled>>

NetworkPlace == {"idle", "namespace", "allow", "allowReverse", "revoke", "revokeReverse"}
                    \cup Isolating
NetworkTypeOK ==
    /\ namespaces \subseteq Env /\ isolatedOK \subseteq Env /\ stripped \subseteq Env
    /\ policies \in [Env -> SUBSET (Isolating \cup Env)]
    /\ network \in [NetworkCaller -> [at : NetworkPlace, from : Env \cup {NoEnv},
                                      to : Env \cup {NoEnv}]]
    /\ unions \in 0..MaxUnions
    /\ unsettled \subseteq SUBSET Env

NoRequest == [at |-> "idle", from |-> NoEnv, to |-> NoEnv]

NetworkInit ==
    /\ namespaces = {} /\ policies = [e \in Env |-> {}]
    /\ network = [c \in NetworkCaller |-> NoRequest]
    /\ unions = 0 /\ isolatedOK = {} /\ stripped = {} /\ unsettled = {}

Moves(c, place) == network' = [network EXCEPT ![c].at = place]
Done(c) == network' = [network EXCEPT ![c] = NoRequest]
Pair(c) == {network[c].from, network[c].to}
AddPolicy(e, p) == policies' = [policies EXCEPT ![e] = @ \cup {p}]
RemovePolicy(e, p) == policies' = [policies EXCEPT ![e] = @ \ {p}]

\* A request is making the policies that isolate the environment.
IsolationUnderWay(c, e) == network[c].from = e /\ network[c].at \in Isolating

-----------------------------------------------------------------------------
(* Isolation. *)

CreateIsolatedNamespace(c, e) ==
    /\ network[c].at = "idle"
    /\ network' = [network EXCEPT ![c] = [at |-> "namespace", from |-> e, to |-> NoEnv]]
    /\ UNCHANGED <<namespaces, policies, unions, isolatedOK, stripped, unsettled>>

\* What exists already is as good as made.
CreateNamespace(c) ==
    /\ network[c].at = "namespace"
    /\ namespaces' = namespaces \cup {network[c].from}
    /\ Moves(c, "default-deny-all")
    /\ UNCHANGED <<policies, unions, isolatedOK, stripped, unsettled>>

CreatePolicy(c, policy, next) ==
    /\ network[c].at = policy
    /\ AddPolicy(network[c].from, policy)
    /\ Moves(c, next)
    /\ UNCHANGED <<namespaces, unions, isolatedOK, stripped, unsettled>>

CreateDefaultDenyPolicy(c) == CreatePolicy(c, "default-deny-all", "allow-egress")
CreateEgressPolicy(c) == CreatePolicy(c, "allow-egress", "allow-ingress")

CreateIngressPolicy(c) ==
    /\ network[c].at = "allow-ingress"
    /\ AddPolicy(network[c].from, "allow-ingress")
    /\ isolatedOK' = isolatedOK \cup {network[c].from}
    /\ Done(c)
    /\ UNCHANGED <<namespaces, unions, stripped, unsettled>>

\* All managed policies of a namespace, those of its peers' access too.
DeleteNamespaceNetworkPolicies(e) ==
    /\ e \in isolatedOK
    /\ policies' = [policies EXCEPT ![e] = {}]
    /\ isolatedOK' = isolatedOK \ {e}
    /\ stripped' = IF \E c \in NetworkCaller : IsolationUnderWay(c, e)
                   THEN stripped \cup {e} ELSE stripped
    /\ unsettled' = unsettled \cup {{e, f} : f \in Env \ {e}}
    /\ UNCHANGED <<namespaces, network, unions>>

-----------------------------------------------------------------------------
(* Access between two environments. *)

BeginUnion(c, e, f, place) ==
    /\ network[c].at = "idle" /\ e # f /\ unions < MaxUnions
    /\ network' = [network EXCEPT ![c] = [at |-> place, from |-> e, to |-> f]]
    /\ unions' = unions + 1
    /\ unsettled' = IF \E d \in NetworkCaller : Pair(d) = {e, f}
                    THEN unsettled \cup {{e, f}} ELSE unsettled
    /\ UNCHANGED <<namespaces, policies, isolatedOK, stripped>>

AllowCrossNamespaceAccess(c, e, f) == BeginUnion(c, e, f, "allow")
RevokeCrossNamespaceAccess(c, e, f) == BeginUnion(c, e, f, "revoke")

\* A policy needs its namespace.
AllowFrom(c) ==
    /\ network[c].at = "allow" /\ network[c].to \in namespaces
    /\ AddPolicy(network[c].to, network[c].from)
    /\ Moves(c, "allowReverse")
    /\ UNCHANGED <<namespaces, unions, isolatedOK, stripped, unsettled>>

AllowReverse(c) ==
    /\ network[c].at = "allowReverse" /\ network[c].from \in namespaces
    /\ AddPolicy(network[c].from, network[c].to)
    /\ Done(c)
    /\ UNCHANGED <<namespaces, unions, isolatedOK, stripped, unsettled>>

\* A policy that is not found is as good as deleted.
RevokeFrom(c) ==
    /\ network[c].at = "revoke"
    /\ RemovePolicy(network[c].to, network[c].from)
    /\ Moves(c, "revokeReverse")
    /\ UNCHANGED <<namespaces, unions, isolatedOK, stripped, unsettled>>

RevokeSame(c) ==
    /\ network[c].at = "revokeReverse"
    /\ RemovePolicy(network[c].to, network[c].from)
    /\ Done(c)
    /\ UNCHANGED <<namespaces, unions, isolatedOK, stripped, unsettled>>

RevokeReverse(c) ==
    /\ network[c].at = "revokeReverse"
    /\ RemovePolicy(network[c].from, network[c].to)
    /\ Done(c)
    /\ UNCHANGED <<namespaces, unions, isolatedOK, stripped, unsettled>>

\* The API refuses a call: the request returns the error and undoes nothing.
NetworkCallFails(c) ==
    /\ network[c].at # "idle"
    /\ Done(c)
    /\ unsettled' = IF network[c].at \in {"allowReverse", "revokeReverse"}
                    THEN unsettled \cup {Pair(c)} ELSE unsettled
    /\ UNCHANGED <<namespaces, policies, unions, isolatedOK, stripped>>

NetworkNext ==
    \/ \E c \in NetworkCaller, e \in Env : CreateIsolatedNamespace(c, e)
    \/ \E c \in NetworkCaller : CreateNamespace(c)
    \/ \E c \in NetworkCaller : CreateDefaultDenyPolicy(c)
    \/ \E c \in NetworkCaller : CreateEgressPolicy(c)
    \/ \E c \in NetworkCaller : CreateIngressPolicy(c)
    \/ \E e \in Env : DeleteNamespaceNetworkPolicies(e)
    \/ \E c \in NetworkCaller, e, f \in Env : AllowCrossNamespaceAccess(c, e, f)
    \/ \E c \in NetworkCaller, e, f \in Env : RevokeCrossNamespaceAccess(c, e, f)
    \/ \E c \in NetworkCaller : AllowFrom(c)
    \/ \E c \in NetworkCaller : AllowReverse(c)
    \/ \E c \in NetworkCaller : RevokeFrom(c)
    \/ \E c \in NetworkCaller : RevokeReverse(c)
    \/ \E c \in NetworkCaller : NetworkCallFails(c)

-----------------------------------------------------------------------------
\* An environment whose isolation was reported as made has all of its policies,
\* unless they were deleted while another request was isolating it, which then
\* reports success with those missing that it had made before
\* (network_service.go CreateIsolatedNamespace, DeleteNamespaceNetworkPolicies).
IsolatedIsProtected == \A e \in isolatedOK \ stripped : Isolating \subseteq policies[e]

\* Two environments let each other in or neither does, as soon as no request for
\* the two is under way: unless requests for them overlapped, one failed half way or
\* all policies of one were deleted, for which nothing makes up.
AccessIsMutual ==
    \A e, f \in Env :
        (f \in policies[e] /\ e \notin policies[f]) =>
            {e, f} \in unsettled \/ \E c \in NetworkCaller : Pair(c) = {e, f}

=============================================================================
