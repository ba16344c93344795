----------------------------- MODULE Deployment -----------------------------
(***************************************************************************)
(* The scripts that deploy Optics and its token bridge                     *)
(* (typescript/optics-deploy, deployNChains and deployBridges) against     *)
(* the governance routers they set up.  A script is what it still has to   *)
(* do: a sequence of blocks, run one after the other; a block is a set of  *)
(* threads (the promises of one Promise.all), run side by side; a thread   *)
(* is a sequence of steps.  A step is one transaction, or one read.        *)
(***************************************************************************)
EXTENDS GovernanceRouter, SequencesExt

CONSTANTS
    Order,         \* deploys: the chains, in the order of the configuration
    Deployer,      \* the account of the scripts
    Appointments,  \* what config.governor of the first chain may be
    NoConfig,      \* config.governor is not given
    MaxReverts     \* bound on transactions that revert without the script looking

ASSUME DeploymentAssumption ==
    /\ Order \in Seq(Domains) /\ Len(Order) > 1 /\ ListsExactly(Order, Domains)
    /\ FirstGovernor = Order[1]
    /\ Deployer \in Accounts
    /\ Appointments \subseteq [domain : Domains, address : Accounts] \cup {NoConfig}
    /\ MaxReverts \in Nat

VARIABLES
    appointed,  \* config.governor of the first chain
    script,     \* the blocks still to run, the first of which is running
    bridging,   \* the second script, deployBridges, has been started
    failed,     \* something was thrown
    applied,    \* the steps that took effect
    reverts     \* how many transactions reverted without the script looking

router == <<governor, governorDomain, routers, domains, recovery, nonces, inflight, calls, careful>>
deployVars == <<router, appointed, script, bridging, failed, applied, reverts>>

-----------------------------------------------------------------------------
(* The steps *)

Step(call, d, to, arg) == [call |-> call, on |-> d, to |-> to, arg |-> arg]

Create(d, c) == Step("create", d, c, "")
SetHome(d, c) == Step("setHome", d, c, "home")
HandOver(d, c) == Step("transferOwnership", d, c, "governance")
Write(name) == Step("write", FirstGovernor, name, "")

DeployOptics(d) ==
    <<Create(d, "upgradeBeaconController"), Create(d, "updaterManager"), Create(d, "xApp"),
      Create(d, "home"), SetHome(d, "xApp"), SetHome(d, "updaterManager"), Create(d, "governance")>>

EnrollRemote(d, e) ==
    <<Step("create", d, "replica", e), Step("ownerEnrollReplica", d, "xApp", e),
      Step("setWatcherPermission", d, "xApp", e), Step("setRouter", d, "governance", e)>>

Relinquish(d) ==
    <<HandOver(d, "updaterManager"), HandOver(d, "xApp"), HandOver(d, "upgradeBeaconController"),
      HandOver(d, "home")>>

AppointGovernor == Step("appointGovernor", FirstGovernor, "governance", "")
TransferGovernorship(d) == Step("transferGovernorship", d, "governance", FirstGovernor)

\* For every chain of S, in the order of the configuration, what F makes of it,
\* one after the other
InOrder(S, F(_)) ==
    FlattenSeq([i \in DOMAIN Order |-> IF Order[i] \in S THEN F(Order[i]) ELSE <<>>])

-----------------------------------------------------------------------------
(* Faults.  None of these is part of the system: each is a slip a           *)
(* maintainer could make in the operator it is named after.                 *)

AwaitedFault(s) ==                       \* enrollGovernanceRouter does not wait either
    ~(\/ s.call = "setHome" \/ s.call = "setRouter"
      \/ s.call = "transferOwnership" /\ s.to \notin {"home", "bridgeRouter"})
RemotesFault(d) ==                       \* only the chains before it
    {e \in Domains : \E i, j \in DOMAIN Order : i < j /\ Order[i] = e /\ Order[j] = d}
OwnedByRouterFault(d) ==                 \* the check forgets the UpdaterManager
    {c \in {"xApp", "upgradeBeaconController", "home"} : HandOver(d, c) \in applied}
        \cup {"updaterManager"}
RestFault(b, t) == (b \ {t}) \cup {Tail(t)}  \* a thread that has ended stays

-----------------------------------------------------------------------------
(* The scripts *)

Remotes(d) == {e \in Domains : e # d}

CoreScript ==
    <<{InOrder(Domains, DeployOptics)},
      {InOrder(Domains, LAMBDA d : InOrder(Remotes(d), LAMBDA e : EnrollRemote(d, e)))},
      {<<AppointGovernor>>},
      {<<TransferGovernorship(Order[i])>> : i \in 2..Len(Order)},
      {Relinquish(d) : d \in Domains},
      {<<Write("first")>> \o InOrder(Domains, LAMBDA d : <<Step("check", d, "", "")>>)
                          \o <<Write("second")>>}>>

BridgeScript ==
    <<{<<Create(d, "bridgeToken"), Create(d, "bridgeRouter"), Create(d, "ethHelper")>> : d \in Domains},
      {InOrder(Remotes(d), LAMBDA e : <<Step("enrollRemoteRouter", d, "bridgeRouter", e)>>) :
          d \in Domains},
      {<<HandOver(d, "bridgeRouter")>> : d \in Domains},
      {<<Step("checkBridge", d, "", "")>> : d \in Domains},
      {<<Write("bridge")>>}>>

Steps(blocks) == UNION {UNION {ToSet(t) : t \in blocks[i]} : i \in DOMAIN blocks}

DeployInit ==
    /\ governor = [d \in Domains |-> Nobody]
    /\ governorDomain = [d \in Domains |-> d]
    /\ routers = [d \in Domains |-> [e \in Domains |-> NoRouter]]
    /\ domains = [d \in Domains |-> <<>>]
    /\ recovery = [d \in Domains |-> "off"]
    /\ nonces = [d \in Domains |-> [e \in Domains |-> 0]]
    /\ inflight = {}
    /\ calls = 0
    /\ careful = TRUE
    /\ appointed \in Appointments
    /\ script = CoreScript
    /\ bridging = FALSE
    /\ failed = FALSE
    /\ applied = {}
    /\ reverts = 0

-----------------------------------------------------------------------------
(* What a step does *)

\* Every other transaction is sent and left to itself: the script goes on once
\* the node has taken it.  All have a gas limit, so that nothing is simulated
\* before it is sent, and a chain runs them in the order of their nonces.
Awaited(s) ==
    ~(\/ s.call = "setHome"
      \/ s.call = "transferOwnership" /\ s.to \notin {"home", "bridgeRouter"})

\* The contracts of chain d that its router owns, as checkCoreDeploy reads them
OwnedByRouter(d) ==
    {c \in {"updaterManager", "xApp", "upgradeBeaconController", "home"} : HandOver(d, c) \in applied}

\* onlyOwner, called by the deployer
OwnerCalls == {"setHome", "ownerEnrollReplica", "setWatcherPermission", "enrollRemoteRouter",
               "transferOwnership"}
MayCall(s) == s.call \in OwnerCalls => HandOver(s.on, s.to) \notin applied

\* routers(domain) is a bytes32, which never equals the 20 zero bytes it is
\* compared with, so that comparison says nothing; the UpdaterManager's home is
\* not looked at; the watchers' permissions are, but nobody waits for the answer.
CheckCoreDeploy(d) ==
    /\ \A e \in Remotes(d) : Step("ownerEnrollReplica", d, "xApp", e) \in applied
    /\ governor[d] # Nobody <=> d = FirstGovernor
    /\ governorDomain[d] = FirstGovernor
    /\ SetHome(d, "xApp") \in applied
    /\ {"updaterManager", "xApp", "upgradeBeaconController", "home"} \subseteq OwnedByRouter(d)

CheckBridgeDeploy(d) ==
    /\ \A e \in Remotes(d) : Step("enrollRemoteRouter", d, "bridgeRouter", e) \in applied
    /\ HandOver(d, "bridgeRouter") \in applied

\* GovernanceRouter.initialize asks the XAppConnectionManager for the domain of
\* its Home, and makes the deployer governor.
CreateRouter(d) ==
    /\ SetHome(d, "xApp") \in applied
    /\ governor' = [governor EXCEPT ![d] = Deployer]
    /\ governorDomain' = [governorDomain EXCEPT ![d] = d]
    /\ UNCHANGED <<routers, domains, recovery, nonces, inflight, calls, careful>>

\* appointGovernor does nothing if no governor is configured.
Appoint ==
    IF appointed = NoConfig THEN UNCHANGED router
    ELSE /\ governor[FirstGovernor] = Deployer
         /\ TransferGovernor(FirstGovernor, appointed.domain, appointed.address)

Execute(s) ==
    /\ MayCall(s)
    /\ \/ s = Create(s.on, "governance") /\ CreateRouter(s.on)
       \/ s.call = "setRouter" /\ governor[s.on] = Deployer /\ SetRouter(s.on, s.arg, s.arg)
       \/ s.call = "appointGovernor" /\ Appoint
       \/ /\ s.call = "transferGovernorship"
          /\ governor[s.on] = Deployer
          /\ TransferGovernor(s.on, FirstGovernor, governor[FirstGovernor])
       \/ s.call = "check" /\ CheckCoreDeploy(s.on) /\ UNCHANGED router
       \/ s.call = "checkBridge" /\ CheckBridgeDeploy(s.on) /\ UNCHANGED router
       \/ /\ s.call = "enrollRemoteRouter"
          /\ Create(s.arg, "bridgeRouter") \in applied
          /\ UNCHANGED router
       \/ /\ s.call \in {"create", "setHome", "ownerEnrollReplica", "setWatcherPermission",
                         "transferOwnership", "write"}
          /\ s.to # "governance"
          /\ UNCHANGED router
    /\ applied' = applied \cup {s}

-----------------------------------------------------------------------------
(* Running a script *)

\* Block b when the first step of thread t is over
Rest(b, t) == (b \ {t}) \cup ({Tail(t)} \ {<<>>})
Advance(b) == script' = IF b = {} THEN Tail(script) ELSE <<b>> \o Tail(script)

Run(t) ==
    /\ Execute(Head(t))
    /\ Advance(Rest(Head(script), t))
    /\ UNCHANGED <<appointed, bridging, failed, reverts>>

RevertUnseen(t) ==
    /\ ~Awaited(Head(t))
    /\ reverts < MaxReverts
    /\ Advance(Rest(Head(script), t))
    /\ reverts' = reverts + 1
    /\ UNCHANGED <<router, appointed, bridging, failed, applied>>

\* What is thrown ends its thread and the script; other threads of the block are
\* not cancelled.
Throw(t) ==
    /\ script' = IF Head(script) = {t} THEN <<>> ELSE <<Head(script) \ {t}>>
    /\ failed' = TRUE
    /\ UNCHANGED <<router, appointed, bridging, applied, reverts>>

\* The process dies.
Kill ==
    /\ script # <<>>
    /\ script' = <<>>
    /\ failed' = TRUE
    /\ UNCHANGED <<router, appointed, bridging, applied, reverts>>

\* The bridge is deployed with the output of the core system.  (That the
\* messages of the core deployment are gone by then is a bound of the model: the
\* contracts of the bridge and the governance routers share no state.)
DeployBridges ==
    /\ script = <<>> /\ ~failed /\ ~bridging
    /\ inflight = {}
    /\ script' = BridgeScript
    /\ bridging' = TRUE
    /\ UNCHANGED <<router, appointed, failed, applied, reverts>>

\* The agents need what writeDeployOutput has written, completed by hand with
\* keys and URLs once the script has ended.  (That it has ended well is a bound
\* of the model: nothing after the first output touches a governance router.)
Deliver ==
    /\ script = <<>> /\ ~failed
    /\ \E m \in inflight : Process(m)
    /\ UNCHANGED <<appointed, script, bridging, failed, applied, reverts>>

RunSome == script # <<>> /\ \E t \in Head(script) : Run(t)

DeployNext ==
    \/ RunSome
    \/ script # <<>> /\ \E t \in Head(script) : RevertUnseen(t) \/ Throw(t)
    \/ Kill
    \/ DeployBridges
    \/ Deliver

DeploySpec == DeployInit /\ [][DeployNext]_deployVars

-----------------------------------------------------------------------------
(* Properties *)

DeployTypeOK ==
    /\ governor \in [Domains -> Accounts \cup {Nobody}]
    /\ governorDomain \in [Domains -> Domains]
    /\ routers \in [Domains -> [Domains -> Domains \cup {NoRouter}]]
    /\ domains \in [Domains -> Seq(Domains \cup {NoDomain})]
    /\ nonces \in [Domains -> [Domains -> Nat]]
    /\ appointed \in Appointments
    /\ applied \subseteq Steps(CoreScript) \cup Steps(BridgeScript)
    /\ Steps(script) \cap applied = {}
    /\ \A i \in DOMAIN script : script[i] # {} /\ <<>> \notin script[i]
    /\ bridging \in BOOLEAN /\ failed \in BOOLEAN
    /\ reverts \in 0..MaxReverts

\* Wherever a script dies, and whatever reverted before, every router that
\* exists obeys somebody: a governor of its own, or that of a chain with which
\* it shares an enrollment in both directions.  No contract is left to a router
\* that nobody can command.
NobodyLockedOut ==
    \A d \in Domains : Create(d, "governance") \in applied =>
        \/ governor[d] # Nobody
        \/ LET g == governorDomain[d] IN
              governor[g] # Nobody /\ routers[d][g] = g /\ routers[g][d] = d

\* A script that ends without an error has done everything it lists, although it
\* does not wait for all of it, but for UpdaterManager.setHome, which nothing
\* checks: without it Home cannot fail (see OneMissedSetHome in the README).
Finished == script = <<>> /\ ~failed
FinishedIsDone ==
    /\ Finished \/ bridging => Steps(CoreScript) \ applied \subseteq {SetHome(d, "updaterManager") : d \in Domains}
    /\ Finished /\ bridging => Steps(BridgeScript) \subseteq applied

\* When the first script has ended without an error and the governor, if
\* configured, is on the first chain, the routers are what module GovernanceRouter
\* starts from, and stay so: the messages of the deployment, delivered early,
\* late or never and in any order, change nothing else.
HandsOver == Finished => HandedOver(FirstGovernor)

=============================================================================
