-------------------------- MODULE GovernanceRouter --------------------------
(***************************************************************************)
(* The governance xApp (GovernanceRouter.sol): one router per chain, and a *)
(* governor on one of them.  Routers talk through Optics, which delivers a *)
(* message at most once, late, and in any order: what a router refuses is  *)
(* not offered to it again.                                                *)
(***************************************************************************)
EXTENDS Naturals, Sequences, FiniteSets

CONSTANTS
    Domains,        \* the chains; the router of a chain has the chain's name as address
    NoDomain,       \* uint32(0), a hole in the list of domains
    NoRouter,       \* bytes32(0)
    Stranger,       \* an address that is nobody's router
    Accounts,       \* addresses that can be governor
    Nobody,         \* address(0)
    FirstGovernor,  \* the chain that governs at the start
    FirstList,      \* per chain, the domains in the order they were enrolled
    Forgeries,      \* what strangers dispatch to routers, and between which chains
    MaxCalls        \* bound on the calls that change or send something

Body ==
    [type : {"transfer"}, domain : Domains, governor : Accounts]
        \cup [type : {"router"}, domain : Domains, router : Domains \cup {NoRouter}]
Message == [from : Domains, to : Domains, nonce : Nat, sender : Domains \cup {Stranger}, body : Body]

ListsExactly(list, S) ==
    /\ \A e \in S : \E i \in DOMAIN list : list[i] = e
    /\ \A i \in DOMAIN list : list[i] # NoDomain => list[i] \in S
    /\ \A i, j \in DOMAIN list : list[i] = list[j] /\ list[i] # NoDomain => i = j

ASSUME GovernanceAssumption ==
    /\ NoDomain \notin Domains
    /\ NoRouter \notin Domains
    /\ Stranger \notin Domains \cup {NoRouter}
    /\ Nobody \notin Accounts
    /\ FirstGovernor \in Domains
    /\ FirstList \in [Domains -> Seq(Domains)]
    /\ \A d \in Domains :
          \/ ListsExactly(FirstList[d], Domains)
          \/ ListsExactly(FirstList[d], Domains \ {d})
    /\ Forgeries \subseteq [from : Domains, to : Domains, body : Body]
    /\ MaxCalls \in Nat

VARIABLES
    governor,        \* per chain: an account, or Nobody where the governor is remote
    governorDomain,  \* per chain: the chain whose router it obeys
    routers,         \* per chain: the address enrolled for every domain
    domains,         \* per chain: the list that messages to all routers follow
    recovery,        \* per chain: recoveryActiveAt is 0, in the future, or past
    nonces,          \* Home.nonces of every chain
    inflight,        \* dispatched messages that no replica has processed yet
    calls,           \* how many calls of governors, recovery managers and strangers so far
    careful          \* history: every transfer waited until nothing else was going on

vars == <<governor, governorDomain, routers, domains, recovery, nonces, inflight, calls, careful>>
seat == <<governor, governorDomain>>
lists == <<routers, domains>>
channel == <<nonces, inflight>>

\* Deployed, enrolled with each other and handed over, as deployNChains leaves
\* the chains once the messages of the deployment are gone (module Deployment
\* shows it).  The first governor's enrollments reach the routers they name, so
\* the others may know a router for their own domain.
Init ==
    /\ \E a \in Accounts :
          governor = [d \in Domains |-> IF d = FirstGovernor THEN a ELSE Nobody]
    /\ governorDomain = [d \in Domains |-> FirstGovernor]
    /\ routers = [d \in Domains |-> [e \in Domains |->
                    IF \E i \in DOMAIN FirstList[d] : FirstList[d][i] = e THEN e ELSE NoRouter]]
    /\ domains = FirstList
    /\ recovery = [d \in Domains |-> "off"]
    /\ nonces = [d \in Domains |-> [e \in Domains |-> 0]]
    /\ inflight = {}
    /\ calls = 0
    /\ careful = TRUE

-----------------------------------------------------------------------------
(* Faults.  None of these is part of the system: each is a slip a           *)
(* maintainer could make in the operator it is named after.                 *)

NewGovernorFault(d, e, a) == IF e = d THEN a ELSE e      \* the chain for its governor
RelistFault(list, known, e, r) ==                        \* removed routers stay listed
    IF r # NoRouter /\ known = NoRouter THEN Append(list, e) ELSE list
IsGovernorRouterFault(d, o, s) == governorDomain[d] = o  \* any sender on the chain will do
RecipientsFault(list) ==                                 \* a hole ends the loop
    {i \in DOMAIN list : \A j \in 1..i : list[j] # NoDomain}

-----------------------------------------------------------------------------
inRecovery(d) == recovery[d] = "active"

\* _isGovernorRouter on chain d, of a message from chain o by sender s
IsGovernorRouter(d, o, s) == governorDomain[d] = o /\ routers[d][o] = s

MustHaveRouter(d, e) == routers[d][e] # NoRouter

\* _removeDomain leaves a hole where the domain was first listed.
FirstPlaces(list, e) == {i \in DOMAIN list : list[i] = e /\ \A j \in 1..(i-1) : list[j] # e}
Erase(list, e) == [i \in DOMAIN list |-> IF i \in FirstPlaces(list, e) THEN NoDomain ELSE list[i]]

\* The list of domains after _setRouter of e to r, known being the router so far
Relist(list, known, e, r) ==
    IF r = NoRouter THEN Erase(list, e)
    ELSE IF known = NoRouter THEN Append(list, e) ELSE list

_setRouter(d, e, r) ==
    /\ routers' = [routers EXCEPT ![d][e] = r]
    /\ domains' = [domains EXCEPT ![d] = Relist(domains[d], routers[d][e], e, r)]

\* Governor is 0x0 unless the governor is local.
NewGovernor(d, e, a) == IF e = d THEN a ELSE Nobody

_transferGovernor(d, e, a) ==
    /\ e # d => MustHaveRouter(d, e)
    /\ governor' = [governor EXCEPT ![d] = NewGovernor(d, e, a)]
    /\ governorDomain' = [governorDomain EXCEPT ![d] = e]

\* _sendToAllRemoteRouters: one dispatch for every entry of the list that is no
\* hole, to the router known there.  The Home of a chain has no replica on the
\* chain itself, so what a chain sends to its own domain is never processed, and
\* neither is what goes to an address without a contract: inflight omits both.
Recipients(list) == {i \in DOMAIN list : list[i] # NoDomain}

Before(list, i) == {j \in Recipients(list) : j < i /\ list[j] = list[i]}

Copy(d, list, i, body) ==
    [from |-> d, to |-> list[i], nonce |-> nonces[d][list[i]] + Cardinality(Before(list, i)),
     sender |-> d, body |-> body]

SendToAll(d, list, known, body) ==
    /\ inflight' = inflight \cup
          {Copy(d, list, i, body) :
              i \in {j \in Recipients(list) : list[j] # d /\ known[list[j]] = list[j]}}
    /\ nonces' = [nonces EXCEPT ![d] =
          [e \in Domains |-> @[e] + Cardinality({i \in Recipients(list) : list[i] = e})]]

\* Nothing is under way and every router knows every other.
Quiet ==
    /\ inflight = {}
    /\ \A d \in Domains, e \in Domains : d # e => MustHaveRouter(d, e)

-----------------------------------------------------------------------------
(* Calls on the router of chain d *)

TransferGovernor(d, e, a) ==
    /\ governor[d] # Nobody  \* onlyGovernor
    /\ ~inRecovery(d)
    /\ calls < MaxCalls
    /\ _transferGovernor(d, e, a)
    /\ IF e = d THEN UNCHANGED channel
       ELSE SendToAll(d, domains[d], routers[d], [type |-> "transfer", domain |-> e, governor |-> a])
    /\ calls' = calls + 1
    /\ careful' = (careful /\ Quiet)
    /\ UNCHANGED <<lists, recovery>>

SetRouter(d, e, r) ==
    /\ governor[d] # Nobody  \* onlyGovernor
    /\ ~inRecovery(d)
    /\ calls < MaxCalls
    /\ _setRouter(d, e, r)
    /\ SendToAll(d, domains'[d], routers'[d], [type |-> "router", domain |-> e, router |-> r])
    /\ calls' = calls + 1
    /\ UNCHANGED <<seat, recovery, careful>>

\* By the governor, or by the recovery manager in recovery.
SetRouterLocal(d, e, r) ==
    /\ inRecovery(d) \/ governor[d] # Nobody
    /\ calls < MaxCalls
    /\ _setRouter(d, e, r)
    /\ calls' = calls + 1
    /\ careful' = (careful /\ inflight = {})
    /\ UNCHANGED <<seat, channel, recovery>>

InitiateRecoveryTimelock(d) ==
    /\ recovery[d] = "off"
    /\ calls < MaxCalls
    /\ recovery' = [recovery EXCEPT ![d] = "initiated"]
    /\ calls' = calls + 1
    /\ UNCHANGED <<seat, lists, channel, careful>>

\* block.timestamp reaches recoveryActiveAt.
TimelockExpires(d) ==
    /\ recovery[d] = "initiated"
    /\ recovery' = [recovery EXCEPT ![d] = "active"]
    /\ UNCHANGED <<seat, lists, channel, calls, careful>>

ExitRecovery(d) ==
    /\ recovery[d] # "off"
    /\ recovery' = [recovery EXCEPT ![d] = "off"]
    /\ UNCHANGED <<seat, lists, channel, calls, careful>>

-----------------------------------------------------------------------------
(* What arrives.  Replica.process has marked the message Processed before it *)
(* calls the router, and a revert of the router does not undo that.          *)

Accepts(m) == IsGovernorRouter(m.to, m.from, m.sender)

HandleTransferGovernor(m) ==
    /\ m.body.type = "transfer"
    /\ Accepts(m)
    /\ _transferGovernor(m.to, m.body.domain, m.body.governor)
    /\ UNCHANGED lists

HandleSetRouter(m) ==
    /\ m.body.type = "router"
    /\ Accepts(m)
    /\ _setRouter(m.to, m.body.domain, m.body.router)
    /\ UNCHANGED seat

\* !governorRouter, or the !router of _transferGovernor
Refuse(m) ==
    /\ Accepts(m) =>
          /\ m.body.type = "transfer"
          /\ m.body.domain # m.to
          /\ ~MustHaveRouter(m.to, m.body.domain)
    /\ UNCHANGED <<seat, lists>>

Process(m) ==
    /\ inflight' = inflight \ {m}
    /\ HandleTransferGovernor(m) \/ HandleSetRouter(m) \/ Refuse(m)
    /\ UNCHANGED <<recovery, nonces, calls, careful>>

\* Anybody may dispatch a message of any form to a router, under their own address.
Forge(f) ==
    /\ calls < MaxCalls
    /\ inflight' = inflight \cup {[from |-> f.from, to |-> f.to, nonce |-> nonces[f.from][f.to],
                                   sender |-> Stranger, body |-> f.body]}
    /\ nonces' = [nonces EXCEPT ![f.from][f.to] = @ + 1]
    /\ calls' = calls + 1
    /\ UNCHANGED <<seat, lists, recovery, careful>>

Next ==
    \/ \E d \in Domains :
          \/ \E e \in Domains, a \in Accounts : TransferGovernor(d, e, a)
          \/ \E e \in Domains : \E r \in {e, NoRouter} : SetRouter(d, e, r) \/ SetRouterLocal(d, e, r)
          \/ InitiateRecoveryTimelock(d) \/ TimelockExpires(d) \/ ExitRecovery(d)
    \/ \E m \in inflight : Process(m)
    \/ \E f \in Forgeries : Forge(f)

\* Relayers and processors deliver what routers send.
Delivery == WF_vars(\E m \in inflight : Process(m))

Spec == Init /\ [][Next]_vars
FairSpec == Spec /\ Delivery

-----------------------------------------------------------------------------
(* Properties *)

TypeOK ==
    /\ governor \in [Domains -> Accounts \cup {Nobody}]
    /\ governorDomain \in [Domains -> Domains]
    /\ routers \in [Domains -> [Domains -> Domains \cup {NoRouter}]]
    /\ domains \in [Domains -> Seq(Domains \cup {NoDomain})]
    /\ recovery \in [Domains -> {"off", "initiated", "active"}]
    /\ nonces \in [Domains -> [Domains -> Nat]]
    /\ inflight \subseteq Message
    /\ calls \in 0..MaxCalls
    /\ careful \in BOOLEAN

\* The list a router sends along names every domain it has a router for, and
\* names it once, whatever order enrollments, removals and re-enrollments come
\* in: nobody is left out and nobody is sent the same order twice.
ListsMatchRouters ==
    \A d \in Domains : ListsExactly(domains[d], {e \in Domains : MustHaveRouter(d, e)})

\* "There is only one governor throughout the Optics system"
\* (docs/governance/cross-chain-governance.md), however late the messages of
\* earlier transfers arrive, and whatever strangers dispatch to the routers.
OneGovernor ==
    \A d, e \in Domains : governor[d] # Nobody /\ governor[e] # Nobody => d = e

\* A governor who transfers only when nothing is under way and all routers know
\* each other is obeyed, in the end, by every chain, and exists.  (A hasty one
\* may lose a chain, or the office, for good: see the README.)
Seated == \E d \in Domains : governor[d] # Nobody /\ \A e \in Domains : governorDomain[e] = d

CarefulTransfersSettle == <>[](careful => Seated)

\* Chain g governs all, and all know each other: what Init says of the routers,
\* whatever was enrolled first.
HandedOver(g) ==
    /\ \A d \in Domains : governorDomain[d] = g /\ (governor[d] # Nobody <=> d = g)
    /\ \A d, e \in Domains : routers[d][e] = e \/ (d = e /\ ~MustHaveRouter(d, e))
    /\ ListsMatchRouters

=============================================================================
