------------------------------- MODULE Bridge -------------------------------
(***************************************************************************)
(* The token bridge xApp (BridgeRouter.sol with TokenRegistry.sol): one    *)
(* router per chain, and one token that is native to one of the chains and *)
(* represented on the others.  Optics delivers a message at most once,     *)
(* late, and in any order; what a router refuses is consumed all the same. *)
(***************************************************************************)
EXTENDS Naturals, FiniteSets, FiniteSetsExt, Bags

CONSTANTS
    Domains,
    Origin,     \* the chain the token is native to
    Native,     \* the token's contract there
    Default,    \* the representation a router deploys
    Custom,     \* a representation the owner may enroll in its place
    NoToken,    \* address(0), of a token
    Accounts,   \* users and liquidity providers
    Router,     \* the router of a chain, as a holder of tokens
    Nobody,     \* address(0), of a holder
    Amounts,    \* what may be sent in one transfer
    Endowment,  \* what accounts hold of the native token at first
    Wavering,   \* per chain, the remote routers its owner may remove and enroll again
    MaxCalls    \* bounds on sends, fills and other calls of owners

Contracts == {Native, Default, Custom}
Holders == Accounts \cup {Router}

\* A recipient is 32 bytes and not zero, but its last 20, the address, may be.
Transfers == [to : Domains, recipient : Accounts \cup {Nobody}, amount : Amounts]

Message == [from : Domains, to : Domains, action : {"details", "requestDetails"}]
              \cup [from : Domains, to : Domains, action : {"transfer"}, transfer : Transfers]

ASSUME BridgeAssumption ==
    /\ IsFiniteSet(Domains) /\ IsFiniteSet(Accounts)
    /\ Origin \in Domains
    /\ Cardinality(Contracts) = 3
    /\ NoToken \notin Contracts
    /\ Router \notin Accounts /\ Nobody \notin Holders
    /\ Amounts \subseteq Nat \ {0}
    /\ Endowment \in [Accounts -> Nat]
    /\ Wavering \in [Domains -> SUBSET Domains] /\ \A d \in Domains : d \notin Wavering[d]
    /\ MaxCalls \in [{"send", "fill", "owner"} -> Nat]

VARIABLES
    balance,    \* per chain, contract and holder; Router's of Native is the escrow
    canonical,  \* canonicalToRepresentation of the token, per chain
    known,      \* the contracts representationToCanonical names, per chain
    provider,   \* liquidityProvider, per transfer
    named,      \* the representations that have the details of the token, per chain
    remotes,    \* per chain, the chains whose routers are enrolled
    inflight,   \* messages on their way, a bag
    lost,       \* history: the amounts of refused transfers
    steady,     \* history: no remote router has been removed
    calls       \* how many sends, fills and other calls of owners so far

vars == <<balance, canonical, known, provider, named, remotes, inflight, lost, steady, calls>>
registry == <<canonical, known>>

Init ==
    /\ balance = [d \in Domains |-> [c \in Contracts |-> [h \in Holders |->
                    IF d = Origin /\ c = Native /\ h \in Accounts THEN Endowment[h] ELSE 0]]]
    /\ canonical = [d \in Domains |-> NoToken]
    /\ known = [d \in Domains |-> {}]
    /\ provider = [t \in Transfers |-> Nobody]
    /\ named = [d \in Domains |-> {}]
    /\ remotes = [d \in Domains |-> Domains \ {d}]
    /\ inflight = EmptyBag
    /\ lost = 0
    /\ steady = TRUE
    /\ calls = [k \in {"send", "fill", "owner"} |-> 0]

-----------------------------------------------------------------------------
(* Faults.  None of these is part of the system: each is a slip a           *)
(* maintainer could make in the operator it is named after.                 *)

CoversFault(b, d, c, h, x) == TRUE                  \* burn without a balance
MigratedFault(b, d, c, n, a) ==                     \* balanceOf read after the burn
    [b EXCEPT ![d][c][a] = 0, ![d][n][a] = @ + 0]
DetailsFromFault(m) == m.from                       \* asks whoever sent the transfer
PayeeFault(t) == t.recipient                        \* the provider is forgotten

-----------------------------------------------------------------------------
(* Tokens *)

Covers(b, d, c, h, x) == b[d][c][h] >= x

Burnt(b, d, c, h, x) == [b EXCEPT ![d][c][h] = @ - x]
Minted(b, d, c, h, x) == [b EXCEPT ![d][c][h] = @ + x]
Moved(b, d, c, h, k, x) == Minted(Burnt(b, d, c, h, x), d, c, k, x)

\* A contract the registry does not name and that has code
IsLocalOrigin(d, c) == c \notin known[d]

\* _getTokenAddress of the token
TokenAddress(d) == IF d = Origin THEN Native ELSE canonical[d]

\* 5 basis points for the provider, rounded up
AfterFee(x) == (x * 9995) \div 10000

Transfer(d, e, r, x) ==
    [from |-> d, to |-> e, action |-> "transfer", transfer |-> [to |-> e, recipient |-> r, amount |-> x]]
RequestDetails(d, e) == [from |-> d, to |-> e, action |-> "requestDetails"]
Details(d, e) == [from |-> d, to |-> e, action |-> "details"]

One(m) == SetToBag({m})
Remaining(m) == inflight (-) One(m)

-----------------------------------------------------------------------------
(* Calls on the router of chain d *)

Call(k) == calls[k] < MaxCalls[k] /\ calls' = [calls EXCEPT ![k] = @ + 1]

Send(d, c, a, x, e, r) ==
    /\ Call("send")
    /\ e \in remotes[d]
    /\ Covers(balance, d, c, a, x)
    /\ balance' = IF IsLocalOrigin(d, c) THEN Moved(balance, d, c, a, Router, x)
                  ELSE Burnt(balance, d, c, a, x)
    /\ inflight' = inflight (+) One(Transfer(d, e, r, x))
    /\ UNCHANGED <<registry, provider, named, remotes, lost, steady>>

\* Nothing ties the transfer to a message that was ever sent.
PreFill(a, t) ==
    /\ Call("fill")
    /\ provider[t] = Nobody
    /\ provider' = [provider EXCEPT ![t] = a]
    /\ TokenAddress(t.to) # NoToken
    /\ t.recipient # Nobody
    /\ Covers(balance, t.to, TokenAddress(t.to), a, AfterFee(t.amount))
    /\ balance' = Moved(balance, t.to, TokenAddress(t.to), a, t.recipient, AfterFee(t.amount))
    /\ UNCHANGED <<registry, named, remotes, inflight, lost, steady>>

\* By the owner; the router can mint and burn both.
EnrollCustom(d, c) ==
    /\ Call("owner")
    /\ d # Origin
    /\ c \in {Custom} \cup (known[d] \cap {Default})
    /\ known' = [known EXCEPT ![d] = @ \cup {c}]
    /\ canonical' = [canonical EXCEPT ![d] = c]
    /\ UNCHANGED <<balance, provider, named, remotes, inflight, lost, steady>>

\* b after account a moves all it has in contract c of chain d to contract n
Migrated(b, d, c, n, a) == Minted(Burnt(b, d, c, a, b[d][c][a]), d, n, a, b[d][c][a])

Migrate(d, c, a) ==
    /\ c \in known[d]
    /\ canonical[d] # c
    /\ balance' = Migrated(balance, d, c, canonical[d], a)
    /\ UNCHANGED <<registry, provider, named, remotes, inflight, lost, steady, calls>>

\* By the owner
RequestDetailsAgain(d) ==
    /\ Call("owner")
    /\ Origin \in remotes[d]
    /\ inflight' = inflight (+) One(RequestDetails(d, Origin))
    /\ UNCHANGED <<balance, registry, provider, named, remotes, lost, steady>>

\* By the owner: the router of chain e, or none (what it is already is no change)
EnrollRemoteRouter(d, e, enrolled) ==
    /\ enrolled # (e \in remotes[d])
    /\ remotes' = [remotes EXCEPT ![d] = IF enrolled THEN @ \cup {e} ELSE @ \ {e}]
    /\ steady' = (steady /\ enrolled)
    /\ UNCHANGED <<balance, registry, provider, named, inflight, lost, calls>>

-----------------------------------------------------------------------------
(* What arrives: handle of the router of m.to.  Replica.process has marked  *)
(* the message Processed before, and a revert of the router leaves it so.   *)

IsRemoteRouter(m) == m.from \in remotes[m.to]

\* The provider is paid in the recipient's place.
Payee(t) == IF provider[t] = Nobody THEN t.recipient ELSE provider[t]

\* _ensureToken: the representation the transfer is paid in, deployed if need be
EnsuredToken(d) == IF TokenAddress(d) = NoToken THEN Default ELSE TokenAddress(d)

\* Where the details of a representation deployed for m are asked for
DetailsFrom(m) == Origin

Asked(m) ==
    IF TokenAddress(m.to) = NoToken /\ DetailsFrom(m) \in remotes[m.to]
    THEN One(RequestDetails(m.to, DetailsFrom(m))) ELSE EmptyBag

\* mint and transfer refuse address(0), and transfer what escrow does not hold.
CanPay(d, h, x) ==
    /\ h # Nobody
    /\ d = Origin => Covers(balance, d, Native, Router, x)

HandleTransfer(m) ==
    /\ m.action = "transfer"
    /\ CanPay(m.to, Payee(m.transfer), m.transfer.amount)
    /\ known' = [known EXCEPT ![m.to] = IF TokenAddress(m.to) = NoToken THEN @ \cup {Default} ELSE @]
    /\ canonical' = [canonical EXCEPT ![m.to] = IF m.to = Origin THEN @ ELSE EnsuredToken(m.to)]
    /\ balance' = IF m.to = Origin
                  THEN Moved(balance, m.to, Native, Router, Payee(m.transfer), m.transfer.amount)
                  ELSE Minted(balance, m.to, EnsuredToken(m.to), Payee(m.transfer), m.transfer.amount)
    /\ provider' = [provider EXCEPT ![m.transfer] = Nobody]
    /\ inflight' = Remaining(m) (+) Asked(m)
    /\ UNCHANGED <<named, lost>>

\* On whatever represents the token by now
HandleDetails(m) ==
    /\ m.action = "details"
    /\ TokenAddress(m.to) # NoToken
    /\ m.to # Origin
    /\ named' = [named EXCEPT ![m.to] = @ \cup {canonical[m.to]}]
    /\ inflight' = Remaining(m)
    /\ UNCHANGED <<balance, registry, provider, lost>>

HandleRequestDetails(m) ==
    /\ m.action = "requestDetails"
    /\ m.to = Origin  \* elsewhere the token's address has no code, or is no token of the chain
    /\ inflight' = Remaining(m) (+) One(Details(m.to, m.from))
    /\ UNCHANGED <<balance, registry, provider, named, lost>>

Handled(m) ==
    \/ m.action = "transfer" /\ CanPay(m.to, Payee(m.transfer), m.transfer.amount)
    \/ m.action = "details" /\ TokenAddress(m.to) # NoToken /\ m.to # Origin
    \/ m.action = "requestDetails" /\ m.to = Origin

Refuse(m) ==
    /\ IsRemoteRouter(m) => ~Handled(m)
    /\ inflight' = Remaining(m)
    /\ lost' = IF m.action = "transfer" THEN lost + m.transfer.amount ELSE lost
    /\ UNCHANGED <<balance, registry, provider, named>>

Process(m) ==
    /\ \/ IsRemoteRouter(m) /\ (HandleTransfer(m) \/ HandleDetails(m) \/ HandleRequestDetails(m))
       \/ Refuse(m)
    /\ UNCHANGED <<remotes, steady, calls>>

Next ==
    \/ \E d, e \in Domains, c \in Contracts, a \in Accounts, x \in Amounts, r \in Accounts \cup {Nobody} :
          Send(d, c, a, x, e, r)
    \/ \E a \in Accounts, t \in Transfers : PreFill(a, t)
    \/ \E d \in Domains :
          \/ \E c \in Contracts : EnrollCustom(d, c)
          \/ \E c \in Contracts, a \in Accounts : Migrate(d, c, a)
          \/ d # Origin /\ RequestDetailsAgain(d)
          \/ \E e \in Wavering[d], enrolled \in BOOLEAN : EnrollRemoteRouter(d, e, enrolled)
    \/ \E m \in BagToSet(inflight) : Process(m)

\* Relayers and processors deliver what routers send.
Spec == Init /\ [][Next]_vars /\ WF_vars(\E m \in BagToSet(inflight) : Process(m))

-----------------------------------------------------------------------------
(* Properties *)

TypeOK ==
    /\ balance \in [Domains -> [Contracts -> [Holders -> Nat]]]
    /\ canonical \in [Domains -> {NoToken, Default, Custom}]
    /\ known \in [Domains -> SUBSET {Default, Custom}]
    /\ provider \in [Transfers -> Accounts \cup {Nobody}]
    /\ named \in [Domains -> SUBSET Contracts]
    /\ remotes \in [Domains -> SUBSET Domains]
    /\ IsABag(inflight) /\ BagToSet(inflight) \subseteq Message
    /\ lost \in Nat
    /\ steady \in BOOLEAN
    /\ \A k \in DOMAIN MaxCalls : calls[k] \in 0..MaxCalls[k]

\* "Ensures that circulating token supply remains constant across all chains"
\* (docs/xapps/token-bridge.md): what is in escrow is what the representations
\* of all other chains circulate, old ones and new ones, with what is under way
\* and what was refused.
Supply(b, d) == SumFunction([h \in Holders |-> b[d][Default][h] + b[d][Custom][h]])
Circulating(b) == SumFunction([d \in Domains |-> Supply(b, d)])

Underway(B) == {m \in BagToSet(B) : m.action = "transfer"}
Sent(B) == SumFunction([m \in Underway(B) |-> m.transfer.amount * B[m]])

EscrowBacksSupply ==
    balance[Origin][Native][Router] = Circulating(balance) + Sent(inflight) + lost

\* Seen through the sums of what an account holds on a chain, the routers keep
\* one ledger: no representation, migration, provider or refusal, in whatever
\* order, makes a transfer be paid twice, or to anybody but its recipient and
\* the one who advanced it.
Holding(b, d, a) == b[d][Native][a] + b[d][Default][a] + b[d][Custom][a]
Holdings(b) == [d \in Domains |-> [a \in Accounts |-> Holding(b, d, a)]]

Carrying(B, t) == {m \in Underway(B) : m.transfer = t}
Transit(B) ==
    [t \in {m.transfer : m \in Underway(B)} |-> SumFunction([m \in Carrying(B, t) |-> B[m]])]

Ledger == INSTANCE TokenLedger
            WITH holdings <- Holdings(balance), transit <- Transit(inflight), advanced <- provider

ImplementsLedger == Ledger!Spec

\* A representation a router deploys gets its name, symbol and decimals from the
\* token's own chain, unless remote routers are removed, or a custom one takes
\* the details in its place.
NamesArrive ==
    \A d \in Domains :
        known[d] = {Default} ~> Default \in named[d] \/ known[d] # {Default} \/ ~steady

=============================================================================
