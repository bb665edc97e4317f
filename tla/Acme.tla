--------------------------------- MODULE Acme ---------------------------------
(***************************************************************************)
(* The ACME server of internal/protocols/acme: accounts, orders with their *)
(* authorizations, certificates and revocations, kept as an in-memory view *)
(* of the tenant's event log (acme.go, state.go).                          *)
(*                                                                         *)
(* Handlers run concurrently.  They hold the server's mutex while they     *)
(* look at or change the view, and not while a challenge is validated, a   *)
(* certificate is minted or the revocation hook runs.  Each change appends *)
(* its event and then changes the view; a restart builds the view again by *)
(* replaying the log.  The log is represented by the view its replay       *)
(* gives (durable).  An order's authorizations and challenges take ids of  *)
(* their own under the same lock; one id stands for all of them here.      *)
(***************************************************************************)
EXTENDS Naturals, FiniteSets

CONSTANTS
    Keys, NoKey,         \* account keys
    Domains,             \* identifiers an order may ask for
    Csrs, NoCsr,         \* CSRs: the CA answers an equal CSR with an equal leaf
    Threads,             \* concurrent request handlers
    MaxPendingOrders,    \* quota of orders that are not valid
    TrustAuthenticated,  \* the mount's profile needs no domain validation
    MaxSeq,              \* bound: ids given out
    MaxFaults,           \* bound: appends that fail or whose answer is lost
    MaxRestarts          \* bound: restarts

ASSUME AcmeAssumption ==
    /\ NoKey \notin Keys /\ NoCsr \notin Csrs
    /\ MaxPendingOrders \in Nat /\ TrustAuthenticated \in BOOLEAN
    /\ MaxSeq \in Nat /\ MaxFaults \in Nat /\ MaxRestarts \in Nat

VARIABLES
    view,      \* the serving view: seq, accounts, byKey, orders, certs, issued, revoked
    durable,   \* the view a replay of the log gives
    thread,    \* requests that are between two critical sections
    old,       \* orders older than StateTTL
    torn,      \* ids and CSRs whose event is in the log while their request failed
    proved,    \* <<order, domain>> pairs the validator has confirmed
    minted,    \* <<order, CSR>> pairs the CA has answered with a certificate
    platform,  \* certificates the revocation hook has revoked on the platform
    faults, restarts

vars == <<view, durable, thread, old, torn, proved, minted, platform, faults, restarts>>

Ids     == 1..MaxSeq
Idle    == [pc |-> "idle", order |-> 0, domain |-> {}, csr |-> NoCsr]
NoOrder == [status |-> "none", authz |-> [d \in Domains |-> "none"], cert |-> 0]
Empty   == [seq |-> 0, accounts |-> [i \in Ids |-> NoKey], byKey |-> [k \in Keys |-> 0],
            orders |-> [i \in Ids |-> NoOrder], certs |-> [i \in Ids |-> NoCsr],
            issued |-> {}, revoked |-> {}]

Exists(v, o) == v.orders[o].status # "none"

\* Mutant of rememberSeq: a replayed event does not move the counter.
rememberNothing(v, seq) == v.seq

\* The counter ids come from never falls behind the log.
rememberSeq(v, seq) == IF seq > v.seq THEN seq ELSE v.seq

-----------------------------------------------------------------------------
(* Applying an event: what the replay does, and what a handler does to the *)
(* view once its event is appended.                                        *)

\* applyAccountEventLocked, newAccount and keyChange: the account takes the key
\* and the thumbprint index follows.
ApplyAccount(v, id, key, seq) ==
    LET was == v.accounts[id] IN
    [v EXCEPT !.accounts[id] = key,
              !.byKey = [k \in Keys |-> IF k = key THEN id ELSE IF k = was THEN 0 ELSE v.byKey[k]],
              !.seq = rememberSeq(v, seq)]

\* applyOrderCreatedEventLocked.
ApplyOrder(v, id, o, seq) == [v EXCEPT !.orders[id] = o, !.seq = rememberSeq(v, seq)]

\* applyChallengeValidatedEventLocked: the event carries the order's new status.
ApplyValidated(v, id, d, status) ==
    [v EXCEPT !.orders[id].authz[d] = "valid", !.orders[id].status = status]

\* Mutant of ApplyIssued: the chain is not kept for getCert.
ApplyIssuedUnkept(v, id, cert, csr, seq) ==
    [v EXCEPT !.orders[id].cert = cert, !.orders[id].status = "valid",
              !.issued = @ \cup {csr}, !.seq = rememberSeq(v, seq)]

\* applyCertificateIssuedEventLocked, shared by the replay and finalize.
ApplyIssued(v, id, cert, csr, seq) ==
    [v EXCEPT !.orders[id].cert = cert, !.orders[id].status = "valid",
              !.certs[cert] = csr, !.issued = @ \cup {csr}, !.seq = rememberSeq(v, seq)]

\* applyCertificateRevokedEventLocked.
ApplyRevoked(v, csr) == [v EXCEPT !.revoked = @ \cup {csr}]

\* pruneExpiredLocked: orders past StateTTL that are not valid are dropped from
\* the view; the log keeps them.
Pruned(v) ==
    [v EXCEPT !.orders = [i \in Ids |->
        IF i \in old /\ v.orders[i].status # "valid" THEN NoOrder ELSE v.orders[i]]]

\* appendStateEventLocked, and what follows it under the same lock: the view
\* becomes `after' once the event is in the log, and stays `before' when the
\* append fails.  A lost answer is an append that landed and is reported failed.
Append(outcome, event, before, after, subject) ==
    /\ outcome # "ok" => faults < MaxFaults
    /\ faults' = IF outcome = "ok" THEN faults ELSE faults + 1
    /\ durable' = IF outcome = "failed" THEN durable ELSE event
    /\ view' = IF outcome = "ok" THEN after ELSE before
    /\ torn' = IF outcome = "lost" THEN torn \cup {subject} ELSE torn

Outcomes == {"ok", "failed", "lost"}

-----------------------------------------------------------------------------
(* Accounts. *)

\* newAccount with a key no account has: a new id; the view's counter has moved
\* even if the append fails.
NewAccount(k, outcome) ==
    LET v  == Pruned(view)
        id == v.seq + 1 IN
    /\ v.byKey[k] = 0
    /\ id \in Ids
    /\ Append(outcome, ApplyAccount(durable, id, k, id), [v EXCEPT !.seq = id],
              ApplyAccount(v, id, k, id), id)
    /\ UNCHANGED <<thread, old, proved, minted, platform, restarts>>

\* newAccount with the key of an account: its contacts are updated.
UpdateAccount(k, outcome) ==
    LET v  == Pruned(view)
        id == v.byKey[k] IN
    /\ id # 0
    /\ Append(outcome, ApplyAccount(durable, id, k, 0), v, v, id)
    /\ UNCHANGED <<thread, old, proved, minted, platform, restarts>>

\* Mutant of keyChange: a key another account has is accepted.
keyChangeUnchecked(id, k, outcome) ==
    LET v == Pruned(view) IN
    /\ v.accounts[id] # NoKey
    /\ Append(outcome, ApplyAccount(durable, id, k, 0), v, ApplyAccount(v, id, k, 0), id)
    /\ UNCHANGED <<thread, old, proved, minted, platform, restarts>>

\* keyChange: the new key must not belong to another account.
keyChange(id, k, outcome) ==
    LET v == Pruned(view) IN
    /\ v.accounts[id] # NoKey
    /\ v.byKey[k] \in {0, id}
    /\ Append(outcome, ApplyAccount(durable, id, k, 0), v, ApplyAccount(v, id, k, 0), id)
    /\ UNCHANGED <<thread, old, proved, minted, platform, restarts>>

-----------------------------------------------------------------------------
(* Orders. *)

PendingOrders(v) == {i \in Ids : v.orders[i].status \in {"pending", "ready"}}

Fresh(asked) ==
    [status |-> IF TrustAuthenticated THEN "ready" ELSE "pending", cert |-> 0,
     authz |-> [d \in Domains |-> IF d \notin asked THEN "none"
                                  ELSE IF TrustAuthenticated THEN "valid" ELSE "pending"]]

\* Mutant of NewOrder: the order is served before its event is in the log.
NewOrderEager(asked, outcome) ==
    LET v  == Pruned(view)
        id == v.seq + 1 IN
    /\ \E a \in Ids : v.accounts[a] # NoKey
    /\ Cardinality(PendingOrders(v)) < MaxPendingOrders
    /\ id \in Ids
    /\ Append(outcome, ApplyOrder(durable, id, Fresh(asked), id),
              ApplyOrder(v, id, Fresh(asked), id), ApplyOrder(v, id, Fresh(asked), id), id)
    /\ UNCHANGED <<thread, old, proved, minted, platform, restarts>>

\* newOrder, within the quota of orders that are not valid.
NewOrder(asked, outcome) ==
    LET v  == Pruned(view)
        id == v.seq + 1 IN
    /\ \E a \in Ids : v.accounts[a] # NoKey
    /\ Cardinality(PendingOrders(v)) < MaxPendingOrders
    /\ id \in Ids
    /\ Append(outcome, ApplyOrder(durable, id, Fresh(asked), id), [v EXCEPT !.seq = id],
              ApplyOrder(v, id, Fresh(asked), id), id)
    /\ UNCHANGED <<thread, old, proved, minted, platform, restarts>>

\* acceptChallenge looks the challenge up, whatever its authorization's status.
acceptChallenge(t, o, d) ==
    LET v == Pruned(view) IN
    /\ thread[t].pc = "idle"
    /\ v.orders[o].authz[d] # "none"
    /\ view' = v
    /\ thread' = [thread EXCEPT ![t] = [pc |-> "validating", order |-> o, domain |-> {d}, csr |-> NoCsr]]
    /\ UNCHANGED <<durable, old, torn, proved, minted, platform, faults, restarts>>

\* Every other authorization of the order is valid.
OthersValid(order, d) == \A e \in Domains \ {d} : order.authz[e] \in {"none", "valid"}

\* Mutant of ValidatedStatus: the event leaves the order as it is.
SameStatus(order, d) == order.status

\* The status the event records for the order.
ValidatedStatus(order, d) == IF OthersValid(order, d) THEN "ready" ELSE order.status

\* The validation succeeded and the order is still there: the event is appended,
\* the authorization becomes valid, and the order ready when allAuthzValid.
ChallengeValid(t, outcome) ==
    LET o     == thread[t].order
        order == view.orders[o] IN
    /\ thread[t].pc = "validating"
    /\ Exists(view, o)
    /\ \E d \in thread[t].domain :
         LET after == [order EXCEPT !.authz[d] = "valid"] IN
         /\ Append(outcome, ApplyValidated(durable, o, d, ValidatedStatus(order, d)), view,
                   [view EXCEPT !.orders[o] = [after EXCEPT !.status =
                       IF \A e \in Domains : after.authz[e] \in {"none", "valid"}
                       THEN "ready" ELSE @]], o)
         /\ proved' = proved \cup {<<o, d>>}
    /\ thread' = [thread EXCEPT ![t] = Idle]
    /\ UNCHANGED <<old, minted, platform, restarts>>

\* The validation, the minting or the hook failed, or the order was pruned while
\* the validator ran: the request is refused.
Refuse(t) ==
    /\ thread[t].pc \in {"validating", "issuing", "revoking"}
    /\ thread' = [thread EXCEPT ![t] = Idle]
    /\ UNCHANGED <<view, durable, old, torn, proved, minted, platform, faults, restarts>>

\* Mutant of finalize: the order's status is not looked at.
finalizeAny(t, o, csr) ==
    LET v == Pruned(view) IN
    /\ thread[t].pc = "idle"
    /\ Exists(v, o)
    /\ view' = v
    /\ thread' = [thread EXCEPT ![t] = [pc |-> "issuing", order |-> o, domain |-> {}, csr |-> csr]]
    /\ UNCHANGED <<durable, old, torn, proved, minted, platform, faults, restarts>>

\* finalize of a ready order; a valid one is answered from the view.
finalize(t, o, csr) ==
    LET v == Pruned(view) IN
    /\ thread[t].pc = "idle"
    /\ v.orders[o].status = "ready"
    /\ view' = v
    /\ thread' = [thread EXCEPT ![t] = [pc |-> "issuing", order |-> o, domain |-> {}, csr |-> csr]]
    /\ UNCHANGED <<durable, old, torn, proved, minted, platform, faults, restarts>>

\* ca.Issue returns a certificate.
Issue(t) ==
    /\ thread[t].pc = "issuing"
    /\ minted' = minted \cup {<<thread[t].order, thread[t].csr>>}
    /\ thread' = [thread EXCEPT ![t].pc = "issued"]
    /\ UNCHANGED <<view, durable, old, torn, proved, platform, faults, restarts>>

\* The event is appended without looking at the order again.  If it has been
\* pruned meanwhile the view refuses the event and the request fails.
Issued(t, outcome) ==
    LET o    == thread[t].order
        csr  == thread[t].csr
        cert == view.seq + 1
        seen == [view EXCEPT !.seq = cert]
        lost == outcome = "ok" /\ ~Exists(view, o) IN
    /\ thread[t].pc = "issued"
    /\ cert \in Ids
    /\ outcome # "ok" => faults < MaxFaults
    /\ faults' = IF outcome = "ok" THEN faults ELSE faults + 1
    /\ durable' = IF outcome = "failed" THEN durable ELSE ApplyIssued(durable, o, cert, csr, cert)
    /\ view' = IF outcome = "ok" /\ ~lost THEN ApplyIssued(view, o, cert, csr, cert) ELSE seen
    /\ torn' = IF outcome = "lost" \/ lost THEN torn \cup {o, csr} ELSE torn
    /\ thread' = [thread EXCEPT ![t] = Idle]
    /\ UNCHANGED <<old, proved, minted, platform, restarts>>

-----------------------------------------------------------------------------
(* Revocation. *)

\* revokeCert, authorized, of a certificate the view knows and has not revoked.
revokeCert(t, csr) ==
    /\ thread[t].pc = "idle"
    /\ csr \in view.issued \ view.revoked
    /\ view' = Pruned(view)
    /\ thread' = [thread EXCEPT ![t] = [Idle EXCEPT !.pc = "revoking", !.csr = csr]]
    /\ UNCHANGED <<durable, old, torn, proved, minted, platform, faults, restarts>>

\* Mutant of RevocationHook: the effect is left to later.
RevocationHookLater(t) ==
    /\ thread[t].pc = "revoking"
    /\ thread' = [thread EXCEPT ![t].pc = "revoked"]
    /\ UNCHANGED <<view, durable, old, torn, proved, minted, platform, faults, restarts>>

\* The hook revokes the certificate on the platform (OCSP, CRL, inventory).
RevocationHook(t) ==
    /\ thread[t].pc = "revoking"
    /\ platform' = platform \cup {thread[t].csr}
    /\ thread' = [thread EXCEPT ![t].pc = "revoked"]
    /\ UNCHANGED <<view, durable, old, torn, proved, minted, faults, restarts>>

\* The revocation is recorded, unless a concurrent request has done so.
Revoked(t, outcome) ==
    LET csr == thread[t].csr IN
    /\ thread[t].pc = "revoked"
    /\ IF csr \in view.revoked
       THEN outcome = "ok" /\ UNCHANGED <<view, durable, torn, faults>>
       ELSE Append(outcome, ApplyRevoked(durable, csr), view, ApplyRevoked(view, csr), csr)
    /\ thread' = [thread EXCEPT ![t] = Idle]
    /\ UNCHANGED <<old, proved, minted, platform, restarts>>

-----------------------------------------------------------------------------
\* An order passes StateTTL.
Age(o) ==
    /\ Exists(durable, o)
    /\ o \notin old
    /\ old' = old \cup {o}
    /\ UNCHANGED <<view, durable, thread, torn, proved, minted, platform, faults, restarts>>

\* newNonce, or any request that is refused after the janitor ran.
Prune ==
    /\ view' = Pruned(view)
    /\ UNCHANGED <<durable, thread, old, torn, proved, minted, platform, faults, restarts>>

\* The process stops, and WithStateLog replays the log before it serves again.
Restart ==
    /\ restarts < MaxRestarts
    /\ restarts' = restarts + 1
    /\ view' = durable
    /\ thread' = [t \in Threads |-> Idle]
    /\ UNCHANGED <<durable, old, torn, proved, minted, platform, faults>>

Init ==
    /\ view = Empty /\ durable = Empty
    /\ thread = [t \in Threads |-> Idle]
    /\ old = {} /\ torn = {} /\ proved = {} /\ minted = {} /\ platform = {}
    /\ faults = 0 /\ restarts = 0

Next ==
    \/ \E k \in Keys, r \in Outcomes : NewAccount(k, r) \/ UpdateAccount(k, r)
    \/ \E id \in Ids, k \in Keys, r \in Outcomes : keyChange(id, k, r)
    \/ \E asked \in (SUBSET Domains) \ {{}}, r \in Outcomes : NewOrder(asked, r)
    \/ \E t \in Threads, o \in Ids : \/ \E d \in Domains : acceptChallenge(t, o, d)
                                     \/ \E csr \in Csrs : finalize(t, o, csr)
    \/ \E t \in Threads : Issue(t) \/ RevocationHook(t) \/ Refuse(t)
    \/ \E t \in Threads, r \in Outcomes : ChallengeValid(t, r) \/ Issued(t, r) \/ Revoked(t, r)
    \/ \E t \in Threads, csr \in Csrs : revokeCert(t, csr)
    \/ \E o \in Ids : Age(o)
    \/ Prune \/ Restart

Spec == Init /\ [][Next]_vars

-----------------------------------------------------------------------------
(* Properties *)

Order == [status : {"none", "pending", "ready", "valid"},
          authz : [Domains -> {"none", "pending", "valid"}], cert : 0..MaxSeq]
View  == [seq : 0..MaxSeq, accounts : [Ids -> Keys \cup {NoKey}], byKey : [Keys -> 0..MaxSeq],
          orders : [Ids -> Order], certs : [Ids -> Csrs \cup {NoCsr}],
          issued : SUBSET Csrs, revoked : SUBSET Csrs]

Requests == [pc : {"idle", "validating", "issuing", "issued", "revoking", "revoked"},
             order : 0..MaxSeq, domain : SUBSET Domains, csr : Csrs \cup {NoCsr}]

\* getCert can serve what a valid order names.
CertsKept(v) == \A o \in Ids : v.orders[o].status = "valid" =>
    v.orders[o].cert \in Ids /\ v.certs[v.orders[o].cert] # NoCsr

\* The view, the log's view and the handlers have their types, and a valid order
\* names a certificate that is kept.
TypeOK ==
    /\ view \in View /\ durable \in View
    /\ thread \in [Threads -> Requests]
    /\ old \subseteq Ids /\ torn \subseteq Ids \cup Csrs
    /\ proved \subseteq Ids \X Domains /\ minted \subseteq Ids \X Csrs /\ platform \subseteq Csrs
    /\ faults \in 0..MaxFaults /\ restarts \in 0..MaxRestarts
    /\ CertsKept(view) /\ CertsKept(durable)

\* The replay of the log never stops: every order that is served, or that a request
\* between two critical sections will append an event about, is in the log, so
\* WithStateLog meets no event that "references missing state".
ReplayFindsOrders ==
    /\ \A o \in Ids : Exists(view, o) => Exists(durable, o)
    /\ \A t \in Threads : thread[t].order # 0 => Exists(durable, thread[t].order)

\* A restart changes nothing a client was told: the view equals the replay of the
\* log, but for orders the janitor dropped after StateTTL (which come back until
\* it runs again) and for what an append with a lost answer, or a finalize that
\* met a pruned order, left in the log while the request failed.
RestartKeepsAnswers ==
    /\ \A a \in Ids \ torn : view.accounts[a] = durable.accounts[a]
    /\ \A o \in Ids \ torn :
         \/ view.orders[o] = durable.orders[o]
         \/ view.orders[o] = NoOrder /\ o \in old
    /\ \A c \in Csrs \ torn :
         (c \in view.issued <=> c \in durable.issued) /\ (c \in view.revoked <=> c \in durable.revoked)

\* Ids are not given out twice: whatever failed or was replayed, the counter is
\* past every account, order and certificate of the view and of the log.
IdsFresh ==
    /\ durable.seq <= view.seq
    /\ \A v \in {view, durable}, i \in Ids :
         v.accounts[i] # NoKey \/ Exists(v, i) \/ v.certs[i] # NoCsr => i <= v.seq

\* No certificate without domain validation: whatever order the challenges,
\* finalizes, prunings and restarts come in, the CA mints for an order only if the
\* validator has confirmed each domain the order asks for (public_trust mode).
IssuedNeedsValidation ==
    \A o \in Ids : \A csr \in Csrs :
        <<o, csr>> \in minted /\ ~TrustAuthenticated
        => \A d \in Domains : durable.orders[o].authz[d] # "none" => <<o, d>> \in proved

\* Registration is idempotent by key: an account is found under its key and no
\* two accounts have the same key, as long as no append's answer was lost.
KeysIdentifyAccounts ==
    torn \cap Ids = {} =>
        \A a \in Ids : view.accounts[a] # NoKey => view.byKey[view.accounts[a]] = a

\* A certificate is reported revoked, now or after a restart, only when the
\* revocation hook has taken effect on the platform.
RevokedOnPlatform == view.revoked \cup durable.revoked \subseteq platform

=============================================================================
