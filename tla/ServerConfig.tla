---------------------------- MODULE ServerConfig ----------------------------
(***************************************************************************)
(* X server configurations in the SSM.  There is one configuration of each *)
(* X server, ssmState["x_server_config"]; the owner of an allocation sets  *)
(* it with UpdateServerConfig, vs-X reads it when it starts the X server.  *)
(* An allocation holds copies of its servers: it is these that allocation  *)
(* clears and that the check of an update looks at, and no update reaches  *)
(* them, so the usage they report is none.                                 *)
(*                                                                         *)
(* A configuration is what its screens use: a set of GPUs.                 *)
(***************************************************************************)
EXTENDS Integers, FiniteSets

CONSTANTS
    Gpu, Server,
    IndexOf,        \* the number of each X server on its node
    Alloc,          \* room for allocations
    Mistakes        \* do users configure GPUs they did not allocate?

ASSUME ServerConfigAssumption ==
    /\ IsFiniteSet(Server)
    /\ IndexOf \in [Server -> Nat]
    /\ Mistakes \in BOOLEAN

VARIABLES
    gpus, servers,  \* what each allocation holds
    config,         \* x_server_config
    chosen,         \* the servers whose allocation has configured them
    running,        \* the X servers that run
    up              \* is the SSM running?

configVars == <<gpus, servers, config, chosen, running, up>>

ConfigTypeOK ==
    /\ gpus \in [Alloc -> SUBSET Gpu]
    /\ servers \in [Alloc -> SUBSET Server]
    /\ config \in [Server -> SUBSET Gpu]
    /\ chosen \subseteq UNION {servers[a] : a \in Alloc}
    /\ running \subseteq Server
    /\ up \in BOOLEAN

ConfigInit ==
    /\ gpus = [a \in Alloc |-> {}]
    /\ servers = [a \in Alloc |-> {}]
    /\ config = [s \in Server |-> {}]
    /\ chosen = {}
    /\ running = {}
    /\ up = TRUE

InForce(a) == servers[a] # {}

-----------------------------------------------------------------------------
\* GPUs and X servers are granted to one allocation at a time.  clearConfig
\* clears the copies that the allocation holds.
Allocate(a, S, G) ==
    /\ up /\ ~InForce(a) /\ S # {}
    /\ \A b \in Alloc : S \cap servers[b] = {} /\ G \cap gpus[b] = {}
    /\ servers' = [servers EXCEPT ![a] = S]
    /\ gpus' = [gpus EXCEPT ![a] = G]
    /\ UNCHANGED <<config, chosen, running, up>>

\* The X clients are told to exit; their X servers follow in Stop.
Deallocate(a) ==
    /\ up /\ InForce(a)
    /\ servers' = [servers EXCEPT ![a] = {}]
    /\ gpus' = [gpus EXCEPT ![a] = {}]
    /\ chosen' = chosen \ servers[a]
    /\ UNCHANGED <<config, running, up>>

-----------------------------------------------------------------------------
\* A request configures some servers of an allocation at once.
Requests(a) == UNION {[S -> SUBSET Gpu] : S \in (SUBSET servers[a]) \ {{}}}

ForeignGpus_OfAnyone(a, req) == (UNION {req[s] : s \in DOMAIN req}) \ Gpu

ForeignGpus(a, req) == (UNION {req[s] : s \in DOMAIN req}) \ gpus[a]

UsedTwice_ByThree(req) ==
    \E g \in Gpu : Cardinality({IndexOf[s] : s \in {t \in DOMAIN req : g \in req[t]}}) > 2

\* resourceUsage counts, for each GPU, the server numbers that use it.
UsedTwice(req) ==
    \E g \in Gpu : Cardinality({IndexOf[s] : s \in {t \in DOMAIN req : g \in req[t]}}) > 1

Update(a, req) ==
    /\ up /\ InForce(a)
    /\ ForeignGpus(a, req) = {}
    /\ ~UsedTwice(req)
    /\ config' = [s \in Server |-> IF s \in DOMAIN req THEN req[s] ELSE config[s]]
    /\ chosen' = chosen \cup DOMAIN req
    /\ UNCHANGED <<gpus, servers, running, up>>

\* A GPU that is not found in the allocation: the message is built from None,
\* and nothing catches what that raises.
UpdateCrash(a, req) ==
    /\ up /\ InForce(a) /\ Mistakes
    /\ ForeignGpus(a, req) # {}
    /\ up' = FALSE
    /\ servers' = [b \in Alloc |-> {}]
    /\ gpus' = [b \in Alloc |-> {}]
    /\ chosen' = {}
    /\ UNCHANGED <<config, running>>

-----------------------------------------------------------------------------
\* vs-X gets the configuration of an allocated server and starts it.
Start(s) ==
    /\ up /\ s \notin running
    /\ \E a \in Alloc : s \in servers[a]
    /\ running' = running \cup {s}
    /\ UNCHANGED <<gpus, servers, config, chosen, up>>

Stop(s) ==
    /\ s \in running
    /\ running' = running \ {s}
    /\ UNCHANGED <<gpus, servers, config, chosen, up>>

\* The SSM has ended, and so have the X servers.
Down == ~up /\ running = {} /\ UNCHANGED configVars

ConfigNext ==
    \/ \E a \in Alloc, S \in SUBSET Server, G \in SUBSET Gpu : Allocate(a, S, G)
    \/ \E a \in Alloc : Deallocate(a)
    \/ \E a \in Alloc : \E req \in Requests(a) : Update(a, req) \/ UpdateCrash(a, req)
    \/ \E s \in Server : Start(s) \/ Stop(s)
    \/ Down

ConfigSpec == ConfigInit /\ [][ConfigNext]_configVars

-----------------------------------------------------------------------------
\* What an allocation has configured for its servers is its own, so no X server
\* configured by one job drives a GPU of another (vs-ssm:703-714).
ConfiguredIsOwn ==
    \A a \in Alloc : \A s \in servers[a] \cap chosen : config[s] \subseteq gpus[a]

\* One update never gives a GPU to two X servers of a node, while it may move
\* GPUs between them (vs-ssm:565, 732-787).
UpdateKeepsApart ==
    [][\A s, t \in Server :
           config'[s] # config[s] /\ config'[t] # config[t] /\ IndexOf[s] # IndexOf[t]
             => config'[s] \cap config'[t] = {}]_configVars

\* No GPU is configured in two X servers of an allocation (the check at
\* vs-ssm:771).
NoGpuTwice ==
    \A a \in Alloc : \A s, t \in servers[a] \cap chosen :
        s # t => config[s] \cap config[t] = {}

\* Newly allocated X servers are without configuration (the comment at
\* vs-ssm:420).
ClearedWhenAllocated ==
    [][\A a \in Alloc : servers'[a] # servers[a] =>
           \A s \in servers'[a] : config'[s] = {}]_configVars

\* The configuration of an X server stays while it runs (ssm-protocol.txt:28).
FixedWhileRunning ==
    [][\A s \in running \cap running' : config'[s] = config[s]]_configVars

\* An update that asks for a GPU of somebody else is refused: the SSM goes on
\* (the message at vs-ssm:714).
SsmStaysUp == up
=============================================================================
