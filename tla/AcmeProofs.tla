------------------------------ MODULE AcmeProofs ------------------------------
(***************************************************************************)
(* Proofs about the ACME server, for any number of keys, domains, CSRs,    *)
(* handlers, failed appends and restarts.                                  *)
(*                                                                         *)
(* Every handler applies one event to the log and, when the append is      *)
(* answered, the same event to the view.  The invariant says what the view *)
(* and the replay of the log each satisfy (ViewSound), how far apart the   *)
(* two may be (Behind), and what a handler between two critical sections   *)
(* still knows (ThreadSound).  Its parts take their state as arguments, so *)
(* that a lemma about an event serves for the log and for the view.        *)
(***************************************************************************)
EXTENDS Acme, TLAPS

\* A view's counter is past its ids, its index finds the accounts it names, an order
\* that is not there is empty, an order that is ready or valid has all its
\* authorizations, and in public_trust mode each of them was proved (P).
ViewSound(v, P) ==
    /\ v \in View
    /\ CertsKept(v)
    /\ \A i \in Ids : v.accounts[i] # NoKey \/ Exists(v, i) \/ v.certs[i] # NoCsr => i <= v.seq
    /\ \A k \in Keys : v.byKey[k] # 0 => v.byKey[k] \in Ids /\ v.accounts[v.byKey[k]] = k
    /\ \A o \in Ids :
         /\ ~Exists(v, o) => v.orders[o] = NoOrder
         /\ v.orders[o].status \in {"ready", "valid"} => \A d \in Domains : v.orders[o].authz[d] \in {"none", "valid"}
         /\ ~TrustAuthenticated => \A d \in Domains : v.orders[o].authz[d] = "valid" => <<o, d>> \in P

\* Accounts have different keys and the index finds each.
KeysIndexed(v) == \A a \in Ids : v.accounts[a] # NoKey => v.byKey[v.accounts[a]] = a

\* The view v and the log's w: the log has everything the view serves, with the same
\* domains and no authorization fewer; they agree but for T, torn, and O, old.
OrderBehind(v, w, o) ==
    Exists(v, o) =>
        /\ Exists(w, o)
        /\ \A d \in Domains : /\ v.orders[o].authz[d] = "none" <=> w.orders[o].authz[d] = "none"
                              /\ v.orders[o].authz[d] = "valid" => w.orders[o].authz[d] = "valid"

Behind(v, w, T, O) ==
    /\ w.seq <= v.seq
    /\ \A a \in Ids : v.accounts[a] # NoKey => w.accounts[a] # NoKey
    /\ \A a \in Ids \ T : v.accounts[a] = w.accounts[a]
    /\ T \cap Ids = {} => v.byKey = w.byKey /\ KeysIndexed(w)
    /\ \A o \in Ids : OrderBehind(v, w, o)
    /\ \A o \in Ids \ T : v.orders[o] = w.orders[o] \/ (v.orders[o] = NoOrder /\ o \in O)
    /\ \A c \in Csrs \ T : (c \in v.issued <=> c \in w.issued) /\ (c \in v.revoked <=> c \in w.revoked)

\* Every authorization that order o of view v has is valid.
AllSettled(v, o) == \A d \in Domains : v.orders[o].authz[d] \in {"none", "valid"}

\* What a handler with job j relies on when it takes the lock again, of the view v,
\* the log w and the certificates R revoked on the platform.
ThreadSound(j, v, w, R) ==
    /\ j.pc \in {"validating", "issuing", "issued"} => j.order \in Ids
    /\ j.order # 0 => Exists(w, j.order)
    /\ j.pc \in {"issuing", "issued", "revoking", "revoked"} => j.csr \in Csrs
    /\ j.pc = "validating" => \A d \in j.domain : w.orders[j.order].authz[d] # "none"
    /\ j.pc \in {"issuing", "issued"} => AllSettled(v, j.order) /\ AllSettled(w, j.order)
    /\ j.pc = "revoked" => j.csr \in R

\* A certificate is minted for an order of the log that has its authorizations.
MintedSound(M, w) == \A o \in Ids, c \in Csrs : <<o, c>> \in M => Exists(w, o) /\ AllSettled(w, o)

IInv ==
    /\ TypeOK
    /\ ViewSound(view, proved) /\ ViewSound(durable, proved)
    /\ Behind(view, durable, torn, old)
    /\ \A t \in Threads : ThreadSound(thread[t], view, durable, platform)
    /\ MintedSound(minted, durable)
    /\ RevokedOnPlatform

-----------------------------------------------------------------------------
(* Events *)

\* The status of an order that still waits for a finalize.
OpenStatuses == {"pending", "ready"}

LEMMA IdsTyped == Ids \subseteq 0..MaxSeq /\ Ids \subseteq Nat /\ 0 \notin Ids /\ NoOrder \in Order /\ NoOrder.status = "none"
  BY AcmeAssumption DEF Ids, NoOrder, Order

LEMMA SeqTyped ==
    ASSUME NEW v \in View, NEW n \in 0..MaxSeq
    PROVE  /\ rememberSeq(v, n) \in 0..MaxSeq /\ v.seq <= rememberSeq(v, n) /\ n <= rememberSeq(v, n)
           /\ v.seq \in Nat /\ n \in Nat /\ rememberSeq(v, n) \in Nat
  BY AcmeAssumption DEF View, rememberSeq

\* What each event changes, field by field.
LEMMA AccountFields ==
    ASSUME NEW v \in View, NEW id \in Ids, NEW key \in Keys, NEW n \in 0..MaxSeq, NEW w, w = ApplyAccount(v, id, key, n)
    PROVE  /\ w \in View /\ w.seq = rememberSeq(v, n)
           /\ w.accounts = [v.accounts EXCEPT ![id] = key]
           /\ \A k \in Keys : w.byKey[k] = IF k = key THEN id ELSE IF k = v.accounts[id] THEN 0 ELSE v.byKey[k]
           /\ w.orders = v.orders /\ w.certs = v.certs /\ w.issued = v.issued /\ w.revoked = v.revoked
  <1>1. rememberSeq(v, n) \in 0..MaxSeq /\ id \in 0..MaxSeq /\ 0 \in 0..MaxSeq
    BY SeqTyped, IdsTyped, AcmeAssumption
  <1>2. [k \in Keys |-> IF k = key THEN id ELSE IF k = v.accounts[id] THEN 0 ELSE v.byKey[k]] \in [Keys -> 0..MaxSeq]
    BY <1>1 DEF View
  <1>3. [v.accounts EXCEPT ![id] = key] \in [Ids -> Keys \cup {NoKey}]
    BY DEF View
  <1>4. QED BY <1>1, <1>2, <1>3 DEF ApplyAccount, View

LEMMA AccountElse ==
    ASSUME NEW v \in View, NEW id \in Ids, NEW key \in Keys, NEW n \in 0..MaxSeq, NEW w, w = ApplyAccount(v, id, key, n)
    PROVE  w \in View /\ w.orders = v.orders /\ w.certs = v.certs /\ w.issued = v.issued /\ w.revoked = v.revoked
  <1>1. /\ w \in View /\ w.seq = rememberSeq(v, n)
        /\ w.accounts = [v.accounts EXCEPT ![id] = key]
        /\ w.orders = v.orders /\ w.certs = v.certs /\ w.issued = v.issued /\ w.revoked = v.revoked
    BY AccountFields
  <1>2. QED BY <1>1

LEMMA OrderFields ==
    ASSUME NEW v \in View, NEW id \in Ids, NEW o \in Order, NEW n \in 0..MaxSeq, NEW w, w = ApplyOrder(v, id, o, n)
    PROVE  /\ w \in View /\ w.seq = rememberSeq(v, n) /\ w.orders = [v.orders EXCEPT ![id] = o]
           /\ w.accounts = v.accounts /\ w.byKey = v.byKey
           /\ w.certs = v.certs /\ w.issued = v.issued /\ w.revoked = v.revoked
  <1>1. rememberSeq(v, n) \in 0..MaxSeq
    BY SeqTyped
  <1>2. QED BY <1>1 DEF ApplyOrder, View

LEMMA ValidatedFields ==
    ASSUME NEW v \in View, NEW id \in Ids, NEW d \in Domains, NEW st \in OpenStatuses,
           NEW w, w = ApplyValidated(v, id, d, st)
    PROVE  /\ w \in View
           /\ w.orders = [v.orders EXCEPT ![id] = [status |-> st, authz |-> [v.orders[id].authz EXCEPT ![d] = "valid"],
                                                   cert |-> v.orders[id].cert]]
           /\ w.seq = v.seq /\ w.accounts = v.accounts /\ w.byKey = v.byKey
           /\ w.certs = v.certs /\ w.issued = v.issued /\ w.revoked = v.revoked
  <1>1. v.orders[id] \in Order
    BY DEF View
  <1>2. [status |-> st, authz |-> [v.orders[id].authz EXCEPT ![d] = "valid"], cert |-> v.orders[id].cert] \in Order
    BY <1>1 DEF Order, OpenStatuses
  <1> DEFINE z == [v EXCEPT !.orders[id].authz[d] = "valid"]
             n == [v.orders[id] EXCEPT !.authz[d] = "valid"]
  <1>3. n = [status |-> v.orders[id].status, authz |-> [v.orders[id].authz EXCEPT ![d] = "valid"], cert |-> v.orders[id].cert]
    BY <1>1 DEF Order
  <1>4. /\ z.orders = [v.orders EXCEPT ![id] = n]
        /\ z = [v EXCEPT !.orders = [v.orders EXCEPT ![id] = n]]
    BY DEF View
  <1>5. w = [z EXCEPT !.orders[id].status = st]
    BY DEF ApplyValidated
  <1> HIDE DEF z, n
  <1>6. w.orders = [z.orders EXCEPT ![id].status = st] /\ w = [v EXCEPT !.orders = w.orders]
    BY <1>4, <1>5 DEF View
  <1>7. w.orders = [v.orders EXCEPT ![id] = [status |-> st, authz |-> [v.orders[id].authz EXCEPT ![d] = "valid"],
                                             cert |-> v.orders[id].cert]]
    <2>1. z.orders[id] = n /\ z.orders \in [Ids -> {n} \cup Order] /\ v.orders \in [Ids -> Order]
      BY <1>4 DEF View
    <2>2. [n EXCEPT !.status = st] = [status |-> st, authz |-> [v.orders[id].authz EXCEPT ![d] = "valid"],
                                      cert |-> v.orders[id].cert]
      BY <1>3
    <2>3. QED BY <1>4, <1>6, <2>1, <2>2
  <1>8. QED BY <1>2, <1>6, <1>7 DEF View

LEMMA IssuedFields ==
    ASSUME NEW v \in View, NEW id \in Ids, NEW c \in Ids, NEW csr \in Csrs,
           NEW w, w = ApplyIssued(v, id, c, csr, c)
    PROVE  /\ w \in View /\ w.seq = rememberSeq(v, c)
           /\ w.orders = [v.orders EXCEPT ![id] = [status |-> "valid", authz |-> v.orders[id].authz, cert |-> c]]
           /\ w.certs = [v.certs EXCEPT ![c] = csr] /\ w.issued = v.issued \cup {csr}
           /\ w.accounts = v.accounts /\ w.byKey = v.byKey /\ w.revoked = v.revoked
  <1>1. v.orders[id] \in Order /\ rememberSeq(v, c) \in 0..MaxSeq /\ c \in 0..MaxSeq
    BY SeqTyped, IdsTyped DEF View
  <1>2. [status |-> "valid", authz |-> v.orders[id].authz, cert |-> c] \in Order
    BY <1>1 DEF Order
  <1> DEFINE z == [v EXCEPT !.orders[id].cert = c]
             n == [v.orders[id] EXCEPT !.cert = c]
             y == [z EXCEPT !.orders[id].status = "valid"]
  <1>3. n = [status |-> v.orders[id].status, authz |-> v.orders[id].authz, cert |-> c]
    BY <1>1 DEF Order
  <1>4. z = [v EXCEPT !.orders = [v.orders EXCEPT ![id] = n]]
    BY DEF View
  <1>5. /\ w = [y EXCEPT !.certs[c] = csr, !.issued = @ \cup {csr}, !.seq = rememberSeq(v, c)]
    BY DEF ApplyIssued
  <1> HIDE DEF z, n
  <1>6. y.orders = [z.orders EXCEPT ![id].status = "valid"] /\ y = [v EXCEPT !.orders = y.orders]
    BY <1>4 DEF View
  <1>7. y.orders = [v.orders EXCEPT ![id] = [status |-> "valid", authz |-> v.orders[id].authz, cert |-> c]]
    <2>1. z.orders[id] = n /\ z.orders = [v.orders EXCEPT ![id] = n] /\ v.orders \in [Ids -> Order]
      BY <1>4 DEF View
    <2>2. [n EXCEPT !.status = "valid"] = [status |-> "valid", authz |-> v.orders[id].authz, cert |-> c]
      BY <1>3
    <2>3. QED BY <1>6, <2>1, <2>2
  <1> HIDE DEF y
  <1>8. /\ y \in View /\ y.accounts = v.accounts /\ y.byKey = v.byKey /\ y.certs = v.certs
        /\ y.issued = v.issued /\ y.revoked = v.revoked
    BY <1>2, <1>6, <1>7 DEF View
  <1>9. [y.certs EXCEPT ![c] = csr] \in [Ids -> Csrs \cup {NoCsr}] /\ y.issued \cup {csr} \in SUBSET Csrs
    BY <1>8 DEF View
  <1>10. /\ w \in View /\ w.seq = rememberSeq(v, c) /\ w.certs = [y.certs EXCEPT ![c] = csr]
         /\ w.issued = y.issued \cup {csr} /\ w.orders = y.orders /\ w.accounts = y.accounts
         /\ w.byKey = y.byKey /\ w.revoked = y.revoked
    BY <1>1, <1>5, <1>8, <1>9 DEF View
  <1>11. QED BY <1>7, <1>8, <1>10

LEMMA RevokedFields ==
    ASSUME NEW v \in View, NEW csr \in Csrs, NEW w, w = ApplyRevoked(v, csr)
    PROVE  /\ w \in View /\ w.revoked = v.revoked \cup {csr}
           /\ w.seq = v.seq /\ w.accounts = v.accounts /\ w.byKey = v.byKey
           /\ w.orders = v.orders /\ w.certs = v.certs /\ w.issued = v.issued
  BY DEF ApplyRevoked, View

LEMMA PrunedFields ==
    ASSUME NEW v \in View, NEW w, w = Pruned(v)
    PROVE  /\ w \in View
           /\ \A i \in Ids : w.orders[i] = IF i \in old /\ v.orders[i].status # "valid" THEN NoOrder ELSE v.orders[i]
           /\ w.seq = v.seq /\ w.accounts = v.accounts /\ w.byKey = v.byKey
           /\ w.certs = v.certs /\ w.issued = v.issued /\ w.revoked = v.revoked
  BY IdsTyped DEF Pruned, View

LEMMA CountedFields ==
    ASSUME NEW v \in View, NEW n \in 0..MaxSeq, NEW w, w = [v EXCEPT !.seq = n]
    PROVE  /\ w \in View /\ w.seq = n
           /\ w.accounts = v.accounts /\ w.byKey = v.byKey /\ w.orders = v.orders
           /\ w.certs = v.certs /\ w.issued = v.issued /\ w.revoked = v.revoked
  BY DEF View

-----------------------------------------------------------------------------
(* Events and the soundness of a view *)

LEMMA PrunedSound ==
    ASSUME NEW P, NEW v, ViewSound(v, P), NEW w, w = Pruned(v)
    PROVE  ViewSound(w, P)
  <1>1. /\ v \in View /\ w \in View
        /\ \A i \in Ids : w.orders[i] = IF i \in old /\ v.orders[i].status # "valid" THEN NoOrder ELSE v.orders[i]
        /\ w.seq = v.seq /\ w.accounts = v.accounts /\ w.byKey = v.byKey
        /\ w.certs = v.certs /\ w.issued = v.issued /\ w.revoked = v.revoked
    BY PrunedFields DEF ViewSound
  <1>2. \A o \in Ids : w.orders[o] = NoOrder \/ w.orders[o] = v.orders[o]
    BY <1>1
  <1>3. NoOrder.status = "none" /\ \A d \in Domains : NoOrder.authz[d] = "none"
    BY DEF NoOrder
  <1>4. CertsKept(w)
    BY <1>1, <1>2, <1>3 DEF ViewSound, CertsKept
  <1>5. QED BY <1>1, <1>2, <1>3, <1>4 DEF ViewSound, Exists

LEMMA CountedSound ==
    ASSUME NEW P, NEW v, ViewSound(v, P), NEW n \in 0..MaxSeq, v.seq <= n, NEW w, w = [v EXCEPT !.seq = n]
    PROVE  ViewSound(w, P)
  <1>1. /\ v \in View /\ w \in View /\ w.seq = n
        /\ w.accounts = v.accounts /\ w.byKey = v.byKey /\ w.orders = v.orders
        /\ w.certs = v.certs /\ w.issued = v.issued /\ w.revoked = v.revoked
    BY CountedFields DEF ViewSound
  <1>2. v.seq \in Nat /\ n \in Nat /\ Ids \subseteq Nat
    BY <1>1, AcmeAssumption DEF View, Ids
  <1>3. \A i \in Ids : w.accounts[i] # NoKey \/ Exists(w, i) \/ w.certs[i] # NoCsr => i <= w.seq
    BY <1>1, <1>2 DEF ViewSound, Exists
  <1>4. QED BY <1>1, <1>3 DEF ViewSound, Exists, CertsKept

LEMMA AccountSound ==
    ASSUME NEW P, NEW v, ViewSound(v, P), NEW id \in Ids, NEW k \in Keys, NEW n \in 0..MaxSeq,
           v.accounts[id] # NoKey \/ n = id, NEW w, w = ApplyAccount(v, id, k, n)
    PROVE  ViewSound(w, P)
  <1>1. /\ v \in View /\ w \in View /\ w.seq = rememberSeq(v, n)
        /\ w.accounts = [v.accounts EXCEPT ![id] = k]
        /\ \A x \in Keys : w.byKey[x] = IF x = k THEN id ELSE IF x = v.accounts[id] THEN 0 ELSE v.byKey[x]
        /\ w.orders = v.orders /\ w.certs = v.certs /\ w.issued = v.issued /\ w.revoked = v.revoked
    BY AccountFields DEF ViewSound
  <1>2. v.seq <= w.seq /\ n <= w.seq /\ v.seq \in Nat /\ w.seq \in Nat /\ n \in Nat /\ Ids \subseteq Nat
    BY <1>1, SeqTyped, IdsTyped
  <1>3. \A i \in Ids : w.accounts[i] # NoKey \/ Exists(w, i) \/ w.certs[i] # NoCsr => i <= w.seq
    <2> SUFFICES ASSUME NEW i \in Ids, w.accounts[i] # NoKey \/ Exists(w, i) \/ w.certs[i] # NoCsr PROVE i <= w.seq
      OBVIOUS
    <2>1. CASE i = id /\ n = id
      BY <1>2, <2>1
    <2>2. CASE ~(i = id /\ n = id)
      <3>1. v.accounts[i] # NoKey \/ Exists(v, i) \/ v.certs[i] # NoCsr
        BY <1>1, <2>2 DEF Exists, View
      <3>2. i <= v.seq
        BY <3>1 DEF ViewSound
      <3>3. QED BY <1>2, <3>2
    <2>3. QED BY <2>1, <2>2
  <1>4. \A x \in Keys : w.byKey[x] # 0 => w.byKey[x] \in Ids /\ w.accounts[w.byKey[x]] = x
    BY <1>1 DEF ViewSound, View
  <1>5. QED BY <1>1, <1>3, <1>4 DEF ViewSound, Exists, CertsKept

LEMMA FreshTyped ==
    ASSUME NEW asked \in SUBSET Domains
    PROVE  /\ Fresh(asked) \in Order /\ Fresh(asked).status \in {"pending", "ready"}
           /\ Fresh(asked).status = "ready" => TrustAuthenticated
           /\ \A d \in Domains : Fresh(asked).authz[d] = "valid" => TrustAuthenticated
           /\ TrustAuthenticated => \A d \in Domains : Fresh(asked).authz[d] \in {"none", "valid"}
  BY AcmeAssumption DEF Fresh, Order

LEMMA OrderSound ==
    ASSUME NEW P, NEW v, ViewSound(v, P), NEW id \in Ids, NEW asked \in SUBSET Domains,
           NEW w, w = ApplyOrder(v, id, Fresh(asked), id)
    PROVE  ViewSound(w, P)
  <1>0. id \in 0..MaxSeq /\ Fresh(asked) \in Order /\ v \in View
    BY IdsTyped, FreshTyped DEF ViewSound
  <1>1. /\ v \in View /\ w \in View /\ w.seq = rememberSeq(v, id) /\ w.orders = [v.orders EXCEPT ![id] = Fresh(asked)]
        /\ w.accounts = v.accounts /\ w.byKey = v.byKey
        /\ w.certs = v.certs /\ w.issued = v.issued /\ w.revoked = v.revoked
    BY <1>0, OrderFields
  <1>2. v.seq <= w.seq /\ id <= w.seq /\ v.seq \in Nat /\ w.seq \in Nat /\ Ids \subseteq Nat
    BY <1>0, <1>1, SeqTyped, IdsTyped
  <1>3. w.orders[id] = Fresh(asked) /\ \A o \in Ids : o # id => w.orders[o] = v.orders[o]
    BY <1>1 DEF View
  <1>4. \A i \in Ids : w.accounts[i] # NoKey \/ Exists(w, i) \/ w.certs[i] # NoCsr => i <= w.seq
    <2> SUFFICES ASSUME NEW i \in Ids, w.accounts[i] # NoKey \/ Exists(w, i) \/ w.certs[i] # NoCsr PROVE i <= w.seq
      OBVIOUS
    <2>1. CASE i = id
      BY <1>2, <2>1
    <2>2. CASE i # id
      <3>1. i <= v.seq
        BY <1>1, <1>3, <2>2 DEF Exists, ViewSound
      <3>2. QED BY <1>2, <3>1
    <2>3. QED BY <2>1, <2>2
  <1>5. \A o \in Ids :
          /\ ~Exists(w, o) => w.orders[o] = NoOrder
          /\ w.orders[o].status \in {"ready", "valid"} => \A d \in Domains : w.orders[o].authz[d] \in {"none", "valid"}
          /\ ~TrustAuthenticated => \A d \in Domains : w.orders[o].authz[d] = "valid" => <<o, d>> \in P
    BY <1>3, FreshTyped DEF ViewSound, Exists
  <1>6. CertsKept(w)
    BY <1>1, <1>3, FreshTyped DEF ViewSound, CertsKept
  <1>7. QED BY <1>1, <1>4, <1>5, <1>6 DEF ViewSound

LEMMA ValidatedSound ==
    ASSUME NEW P, NEW v, ViewSound(v, P), NEW id \in Ids, NEW d \in Domains, NEW st \in OpenStatuses,
           Exists(v, id), <<id, d>> \in P,
           st = "ready" => \A e \in Domains \ {d} : v.orders[id].authz[e] \in {"none", "valid"},
           NEW w, w = ApplyValidated(v, id, d, st)
    PROVE  ViewSound(w, P)
  <1>0. v \in View
    BY DEF ViewSound
  <1>1. /\ v \in View /\ w \in View
        /\ w.orders = [v.orders EXCEPT ![id] = [status |-> st, authz |-> [v.orders[id].authz EXCEPT ![d] = "valid"],
                                                cert |-> v.orders[id].cert]]
        /\ w.seq = v.seq /\ w.accounts = v.accounts /\ w.byKey = v.byKey
        /\ w.certs = v.certs /\ w.issued = v.issued /\ w.revoked = v.revoked
    BY <1>0, ValidatedFields
  <1>2. /\ w.orders[id].status = st /\ w.orders[id].authz = [v.orders[id].authz EXCEPT ![d] = "valid"]
        /\ \A o \in Ids : o # id => w.orders[o] = v.orders[o]
    BY <1>1 DEF View
  <1>3. w.orders[id].authz[d] = "valid" /\ \A e \in Domains : e # d => w.orders[id].authz[e] = v.orders[id].authz[e]
    BY <1>1, <1>2 DEF View, Order
  <1>4. CertsKept(w)
    BY <1>1, <1>2 DEF ViewSound, CertsKept, OpenStatuses
  <1>5. \A o \in Ids :
          /\ ~Exists(w, o) => w.orders[o] = NoOrder
          /\ w.orders[o].status \in {"ready", "valid"} => \A e \in Domains : w.orders[o].authz[e] \in {"none", "valid"}
          /\ ~TrustAuthenticated => \A e \in Domains : w.orders[o].authz[e] = "valid" => <<o, e>> \in P
    <2> TAKE o \in Ids
    <2>1. CASE o = id
      <3>1. Exists(w, id)
        BY <1>2 DEF Exists, OpenStatuses
      <3>2. w.orders[id].status \in {"ready", "valid"} => \A e \in Domains : w.orders[id].authz[e] \in {"none", "valid"}
        BY <1>2, <1>3 DEF OpenStatuses
      <3>3. ~TrustAuthenticated => \A e \in Domains : w.orders[id].authz[e] = "valid" => <<id, e>> \in P
        BY <1>3 DEF ViewSound
      <3>4. QED BY <2>1, <3>1, <3>2, <3>3
    <2>2. CASE o # id
      BY <1>2, <2>2 DEF ViewSound, Exists
    <2>3. QED BY <2>1, <2>2
  <1>6. \A i \in Ids : Exists(w, i) <=> Exists(v, i)
    BY <1>2 DEF Exists, OpenStatuses
  <1>7. QED BY <1>1, <1>4, <1>5, <1>6 DEF ViewSound

LEMMA IssuedSound ==
    ASSUME NEW P, NEW v, ViewSound(v, P), NEW id \in Ids, NEW c \in Ids, NEW csr \in Csrs,
           Exists(v, id), AllSettled(v, id), NEW w, w = ApplyIssued(v, id, c, csr, c)
    PROVE  ViewSound(w, P)
  <1>0. c \in 0..MaxSeq /\ v \in View
    BY IdsTyped DEF ViewSound
  <1>1. /\ w \in View /\ w.seq = rememberSeq(v, c)
        /\ w.orders = [v.orders EXCEPT ![id] = [status |-> "valid", authz |-> v.orders[id].authz, cert |-> c]]
        /\ w.certs = [v.certs EXCEPT ![c] = csr] /\ w.issued = v.issued \cup {csr}
        /\ w.accounts = v.accounts /\ w.byKey = v.byKey /\ w.revoked = v.revoked
    BY <1>0, IssuedFields
  <1>2. v.seq <= w.seq /\ c <= w.seq /\ v.seq \in Nat /\ w.seq \in Nat /\ Ids \subseteq Nat
    BY <1>0, <1>1, SeqTyped, IdsTyped
  <1>3. /\ w.orders[id].status = "valid" /\ w.orders[id].authz = v.orders[id].authz /\ w.orders[id].cert = c
        /\ \A o \in Ids : o # id => w.orders[o] = v.orders[o]
        /\ w.certs[c] = csr /\ \A i \in Ids : i # c => w.certs[i] = v.certs[i]
    BY <1>0, <1>1 DEF View
  <1>4. \A i \in Ids : w.accounts[i] # NoKey \/ Exists(w, i) \/ w.certs[i] # NoCsr => i <= w.seq
    <2> SUFFICES ASSUME NEW i \in Ids, w.accounts[i] # NoKey \/ Exists(w, i) \/ w.certs[i] # NoCsr PROVE i <= w.seq
      OBVIOUS
    <2>1. CASE i = c
      BY <1>2, <2>1
    <2>2. CASE i # c
      <3>1. i <= v.seq
        BY <1>1, <1>3, <2>2 DEF Exists, ViewSound
      <3>2. QED BY <1>2, <3>1
    <2>3. QED BY <2>1, <2>2
  <1>5. \A o \in Ids :
          /\ ~Exists(w, o) => w.orders[o] = NoOrder
          /\ w.orders[o].status \in {"ready", "valid"} => \A d \in Domains : w.orders[o].authz[d] \in {"none", "valid"}
          /\ ~TrustAuthenticated => \A d \in Domains : w.orders[o].authz[d] = "valid" => <<o, d>> \in P
    BY <1>3 DEF ViewSound, Exists, AllSettled
  <1>6. CertsKept(w)
    BY <1>3, AcmeAssumption DEF ViewSound, CertsKept
  <1>7. QED BY <1>1, <1>4, <1>5, <1>6 DEF ViewSound

LEMMA RevokedSound ==
    ASSUME NEW P, NEW v, ViewSound(v, P), NEW csr \in Csrs, NEW w, w = ApplyRevoked(v, csr)
    PROVE  ViewSound(w, P)
  <1>1. /\ w \in View /\ w.seq = v.seq /\ w.accounts = v.accounts /\ w.byKey = v.byKey
        /\ w.orders = v.orders /\ w.certs = v.certs /\ w.issued = v.issued
    BY RevokedFields DEF ViewSound
  <1>2. QED BY <1>1 DEF ViewSound, Exists, CertsKept

\* More domains are proved.
LEMMA ProvedSound ==
    ASSUME NEW P, NEW Q, P \subseteq Q, NEW v, ViewSound(v, P)
    PROVE  ViewSound(v, Q)
  BY DEF ViewSound

-----------------------------------------------------------------------------
(* Events and the distance between the view and the log *)

LEMMA PrunedBehind ==
    ASSUME NEW T, NEW v \in View, NEW w, Behind(v, w, T, old), NEW u, u = Pruned(v)
    PROVE  Behind(u, w, T, old)
  <1>1. /\ \A i \in Ids : u.orders[i] = IF i \in old /\ v.orders[i].status # "valid" THEN NoOrder ELSE v.orders[i]
        /\ u.seq = v.seq /\ u.accounts = v.accounts /\ u.byKey = v.byKey
        /\ u.certs = v.certs /\ u.issued = v.issued /\ u.revoked = v.revoked
    BY PrunedFields
  <1>2. \A o \in Ids : u.orders[o] = v.orders[o] \/ (u.orders[o] = NoOrder /\ o \in old)
    BY <1>1
  <1>3. \A o \in Ids : OrderBehind(u, w, o)
    BY <1>2, IdsTyped DEF Behind, OrderBehind, Exists
  <1>4. QED BY <1>1, <1>2, <1>3 DEF Behind

LEMMA CountedBehind ==
    ASSUME NEW T, NEW O, NEW v \in View, NEW w \in View, Behind(v, w, T, O), NEW n \in 0..MaxSeq, v.seq <= n,
           NEW u, u = [v EXCEPT !.seq = n]
    PROVE  Behind(u, w, T, O)
  <1>1. /\ u.seq = n /\ u.accounts = v.accounts /\ u.byKey = v.byKey /\ u.orders = v.orders
        /\ u.issued = v.issued /\ u.revoked = v.revoked
    BY CountedFields
  <1>2. w.seq <= u.seq
    BY <1>1, SeqTyped DEF Behind
  <1>3. QED BY <1>1, <1>2 DEF Behind, OrderBehind, Exists

\* More is torn.
LEMMA TornBehind ==
    ASSUME NEW T, NEW S, T \subseteq S, NEW O, NEW v, NEW w, Behind(v, w, T, O)
    PROVE  Behind(v, w, S, O)
  BY DEF Behind

\* A new account, or a new key for one: both sides take the event, or the log does
\* and the id is torn.
LEMMA AccountBehind ==
    ASSUME NEW T, NEW O, NEW v \in View, NEW w \in View, Behind(v, w, T, O),
           NEW id \in Ids, NEW k \in Keys, NEW n \in 0..MaxSeq, v.byKey[k] \in {0, id},
           NEW u, u = ApplyAccount(v, id, k, n), NEW z, z = ApplyAccount(w, id, k, n)
    PROVE  Behind(u, z, T, O)
  <1>1. /\ u \in View /\ u.seq = rememberSeq(v, n) /\ u.accounts = [v.accounts EXCEPT ![id] = k]
        /\ \A x \in Keys : u.byKey[x] = IF x = k THEN id ELSE IF x = v.accounts[id] THEN 0 ELSE v.byKey[x]
        /\ u.orders = v.orders /\ u.issued = v.issued /\ u.revoked = v.revoked
    BY AccountFields
  <1>2. /\ z \in View /\ z.seq = rememberSeq(w, n) /\ z.accounts = [w.accounts EXCEPT ![id] = k]
        /\ \A x \in Keys : z.byKey[x] = IF x = k THEN id ELSE IF x = w.accounts[id] THEN 0 ELSE w.byKey[x]
        /\ z.orders = w.orders /\ z.issued = w.issued /\ z.revoked = w.revoked
    BY AccountFields
  <1>3. z.seq <= u.seq
    BY <1>1, <1>2, SeqTyped DEF Behind, rememberSeq
  <1>4. /\ \A a \in Ids : u.accounts[a] # NoKey => z.accounts[a] # NoKey
        /\ \A a \in Ids \ T : u.accounts[a] = z.accounts[a]
    BY <1>1, <1>2, AcmeAssumption DEF Behind, View
  <1>5. ASSUME T \cap Ids = {} PROVE u.byKey = z.byKey /\ KeysIndexed(z)
    <2>1. v.byKey = w.byKey /\ KeysIndexed(w) /\ v.accounts[id] = w.accounts[id]
      BY <1>5 DEF Behind
    <2>2. u.byKey = z.byKey
      BY <1>1, <1>2, <2>1 DEF View
    <2>3. ASSUME NEW a \in Ids, z.accounts[a] # NoKey PROVE z.byKey[z.accounts[a]] = a
      <3>1. CASE a = id
        BY <1>2, <3>1 DEF View
      <3>2. CASE a # id
        <4>1. z.accounts[a] = w.accounts[a] /\ w.accounts[a] \in Keys
          BY <1>2, <2>3, <3>2 DEF View
        <4>2. w.byKey[w.accounts[a]] = a
          BY <2>1, <2>3, <4>1 DEF KeysIndexed
        <4>3. w.accounts[a] # k
          BY <2>1, <3>2, <4>2, IdsTyped
        <4>4. w.accounts[a] # w.accounts[id]
          BY <2>1, <3>2, <4>1, <4>2, AcmeAssumption DEF KeysIndexed
        <4>5. QED BY <1>2, <4>1, <4>2, <4>3, <4>4
      <3>3. QED BY <3>1, <3>2
    <2>4. QED BY <2>2, <2>3 DEF KeysIndexed
  <1>6. QED BY <1>1, <1>2, <1>3, <1>4, <1>5 DEF Behind, OrderBehind, Exists

LEMMA AccountLost ==
    ASSUME NEW T, NEW O, NEW v \in View, NEW w \in View, Behind(v, w, T, O),
           NEW id \in Ids, NEW k \in Keys, NEW n \in 0..MaxSeq, n <= v.seq, NEW z, z = ApplyAccount(w, id, k, n)
    PROVE  Behind(v, z, T \cup {id}, O)
  <1>1. /\ z.seq = rememberSeq(w, n) /\ z.accounts = [w.accounts EXCEPT ![id] = k]
        /\ z.orders = w.orders /\ z.issued = w.issued /\ z.revoked = w.revoked
    BY AccountFields
  <1>2. z.seq <= v.seq
    BY <1>1, SeqTyped DEF Behind, rememberSeq
  <1>3. /\ \A a \in Ids : v.accounts[a] # NoKey => z.accounts[a] # NoKey
        /\ \A a \in Ids \ (T \cup {id}) : v.accounts[a] = z.accounts[a]
    BY <1>1, AcmeAssumption DEF Behind, View
  <1>4. QED BY <1>1, <1>2, <1>3 DEF Behind, OrderBehind, Exists

\* A new order, whose id neither side knows.
LEMMA OrderBehindKept ==
    ASSUME NEW T, NEW O, NEW v \in View, NEW w \in View, Behind(v, w, T, O), NEW id \in Ids, NEW f \in Order,
           f.status # "none", NEW u, u = ApplyOrder(v, id, f, id), NEW z, z = ApplyOrder(w, id, f, id)
    PROVE  Behind(u, z, T, O)
  <1>0. id \in 0..MaxSeq
    BY IdsTyped
  <1>1. /\ u.seq = rememberSeq(v, id) /\ u.orders = [v.orders EXCEPT ![id] = f]
        /\ u.accounts = v.accounts /\ u.byKey = v.byKey /\ u.issued = v.issued /\ u.revoked = v.revoked
    BY <1>0, OrderFields
  <1>2. /\ z.seq = rememberSeq(w, id) /\ z.orders = [w.orders EXCEPT ![id] = f]
        /\ z.accounts = w.accounts /\ z.byKey = w.byKey /\ z.issued = w.issued /\ z.revoked = w.revoked
    BY <1>0, OrderFields
  <1>3. z.seq <= u.seq
    BY <1>0, <1>1, <1>2, SeqTyped DEF Behind, rememberSeq
  <1>4. /\ u.orders[id] = f /\ z.orders[id] = f
        /\ \A o \in Ids : o # id => u.orders[o] = v.orders[o] /\ z.orders[o] = w.orders[o]
    BY <1>1, <1>2 DEF View
  <1>5. \A o \in Ids : OrderBehind(u, z, o)
    BY <1>4 DEF Behind, OrderBehind, Exists
  <1>6. QED BY <1>1, <1>2, <1>3, <1>4, <1>5 DEF Behind, KeysIndexed

LEMMA OrderLost ==
    ASSUME NEW T, NEW O, NEW v \in View, NEW w \in View, Behind(v, w, T, O), NEW id \in Ids, NEW f \in Order,
           ~Exists(v, id), id <= v.seq, NEW z, z = ApplyOrder(w, id, f, id)
    PROVE  Behind(v, z, T \cup {id}, O)
  <1>0. id \in 0..MaxSeq
    BY IdsTyped
  <1>1. /\ z.seq = rememberSeq(w, id) /\ z.orders = [w.orders EXCEPT ![id] = f]
        /\ z.accounts = w.accounts /\ z.byKey = w.byKey /\ z.issued = w.issued /\ z.revoked = w.revoked
    BY <1>0, OrderFields
  <1>2. z.seq <= v.seq
    BY <1>0, <1>1, SeqTyped DEF Behind, rememberSeq
  <1>3. \A o \in Ids : o # id => z.orders[o] = w.orders[o]
    BY <1>1 DEF View
  <1>4. \A o \in Ids : OrderBehind(v, z, o)
    BY <1>3 DEF Behind, OrderBehind, Exists
  <1>5. QED BY <1>1, <1>2, <1>3, <1>4 DEF Behind, KeysIndexed

\* A validated challenge of an order the view still has.
LEMMA ValidatedBehind ==
    ASSUME NEW T, NEW O, NEW v \in View, NEW w \in View, Behind(v, w, T, O), NEW id \in Ids, NEW d \in Domains,
           Exists(v, id), NEW st \in OpenStatuses,
           NEW u, u = ApplyValidated(v, id, d, st), NEW z, z = ApplyValidated(w, id, d, st)
    PROVE  Behind(u, z, T, O)
  <1>1. /\ u.orders = [v.orders EXCEPT ![id] = [status |-> st, authz |-> [v.orders[id].authz EXCEPT ![d] = "valid"],
                                                cert |-> v.orders[id].cert]]
        /\ u.seq = v.seq /\ u.accounts = v.accounts /\ u.byKey = v.byKey /\ u.issued = v.issued /\ u.revoked = v.revoked
    BY ValidatedFields
  <1>2. /\ z.orders = [w.orders EXCEPT ![id] = [status |-> st, authz |-> [w.orders[id].authz EXCEPT ![d] = "valid"],
                                                cert |-> w.orders[id].cert]]
        /\ z.seq = w.seq /\ z.accounts = w.accounts /\ z.byKey = w.byKey /\ z.issued = w.issued /\ z.revoked = w.revoked
    BY ValidatedFields
  <1>3. /\ \A o \in Ids : o # id => u.orders[o] = v.orders[o] /\ z.orders[o] = w.orders[o]
        /\ u.orders[id].status = st /\ z.orders[id].status = st
        /\ u.orders[id].authz = [v.orders[id].authz EXCEPT ![d] = "valid"]
        /\ z.orders[id].authz = [w.orders[id].authz EXCEPT ![d] = "valid"]
        /\ v.orders[id] = w.orders[id] => u.orders[id] = z.orders[id]
    BY <1>1, <1>2 DEF View
  <1>4. /\ u.orders[id].authz[d] = "valid" /\ z.orders[id].authz[d] = "valid"
        /\ \A e \in Domains : e # d => /\ u.orders[id].authz[e] = v.orders[id].authz[e]
                                       /\ z.orders[id].authz[e] = w.orders[id].authz[e]
    BY <1>3 DEF View, Order
  <1>5. ASSUME NEW o \in Ids PROVE OrderBehind(u, z, o)
    <2>1. CASE o = id
      <3>1. Exists(z, id)
        BY <1>3 DEF Exists, OpenStatuses
      <3>2. QED BY <1>4, <2>1, <3>1 DEF Behind, OrderBehind
    <2>2. CASE o # id
      BY <1>3, <2>2 DEF Behind, OrderBehind, Exists
    <2>3. QED BY <2>1, <2>2
  <1>6. v.orders[id] # NoOrder
    BY IdsTyped DEF Exists
  <1>7. \A o \in Ids \ T : u.orders[o] = z.orders[o] \/ (u.orders[o] = NoOrder /\ o \in O)
    BY <1>3, <1>6 DEF Behind
  <1>8. QED BY <1>1, <1>2, <1>5, <1>7 DEF Behind, KeysIndexed

LEMMA ValidatedLost ==
    ASSUME NEW T, NEW O, NEW v \in View, NEW w \in View, Behind(v, w, T, O), NEW id \in Ids, NEW d \in Domains,
           w.orders[id].authz[d] # "none", NEW st \in OpenStatuses, NEW z, z = ApplyValidated(w, id, d, st)
    PROVE  Behind(v, z, T \cup {id}, O)
  <1>1. /\ z.orders = [w.orders EXCEPT ![id] = [status |-> st, authz |-> [w.orders[id].authz EXCEPT ![d] = "valid"],
                                                cert |-> w.orders[id].cert]]
        /\ z.seq = w.seq /\ z.accounts = w.accounts /\ z.byKey = w.byKey /\ z.issued = w.issued /\ z.revoked = w.revoked
    BY ValidatedFields
  <1>2. /\ \A o \in Ids : o # id => z.orders[o] = w.orders[o]
        /\ z.orders[id].status = st
        /\ z.orders[id].authz = [w.orders[id].authz EXCEPT ![d] = "valid"]
    BY <1>1 DEF View
  <1>3. /\ z.orders[id].authz[d] = "valid"
        /\ \A e \in Domains : e # d => z.orders[id].authz[e] = w.orders[id].authz[e]
    BY <1>2 DEF View, Order
  <1>4. ASSUME NEW o \in Ids PROVE OrderBehind(v, z, o)
    <2>1. CASE o = id
      <3>1. Exists(z, id)
        BY <1>2 DEF Exists, OpenStatuses
      <3>2. QED BY <1>3, <2>1, <3>1 DEF Behind, OrderBehind
    <2>2. CASE o # id
      BY <1>2, <2>2 DEF Behind, OrderBehind, Exists
    <2>3. QED BY <2>1, <2>2
  <1>5. QED BY <1>1, <1>2, <1>4 DEF Behind, KeysIndexed

\* An issued certificate: the view takes the event only if it still has the order.
LEMMA IssuedBehind ==
    ASSUME NEW T, NEW O, NEW v \in View, NEW w \in View, Behind(v, w, T, O),
           NEW id \in Ids, Exists(v, id), NEW c \in Ids, NEW csr \in Csrs,
           NEW u, u = ApplyIssued(v, id, c, csr, c), NEW z, z = ApplyIssued(w, id, c, csr, c)
    PROVE  Behind(u, z, T, O)
  <1>0. c \in 0..MaxSeq
    BY IdsTyped
  <1>1. /\ u \in View /\ u.seq = rememberSeq(v, c) /\ u.issued = v.issued \cup {csr}
        /\ u.certs = [v.certs EXCEPT ![c] = csr]
        /\ u.orders = [v.orders EXCEPT ![id] = [status |-> "valid", authz |-> v.orders[id].authz, cert |-> c]]
        /\ u.accounts = v.accounts /\ u.byKey = v.byKey /\ u.revoked = v.revoked
    BY IssuedFields
  <1>2. /\ z \in View /\ z.seq = rememberSeq(w, c) /\ z.issued = w.issued \cup {csr}
        /\ z.certs = [w.certs EXCEPT ![c] = csr]
        /\ z.orders = [w.orders EXCEPT ![id] = [status |-> "valid", authz |-> w.orders[id].authz, cert |-> c]]
        /\ z.accounts = w.accounts /\ z.byKey = w.byKey /\ z.revoked = w.revoked
    BY IssuedFields
  <1>3. z.seq <= u.seq
    BY <1>0, <1>1, <1>2, SeqTyped DEF Behind, rememberSeq
  <1>4. /\ \A o \in Ids : o # id => u.orders[o] = v.orders[o] /\ z.orders[o] = w.orders[o]
        /\ u.orders[id].authz = v.orders[id].authz /\ z.orders[id].authz = w.orders[id].authz
        /\ z.orders[id].status = "valid"
        /\ v.orders[id] = w.orders[id] => u.orders[id] = z.orders[id]
    BY <1>1, <1>2 DEF View
  <1>5. \A o \in Ids : OrderBehind(u, z, o)
    BY <1>4 DEF Behind, OrderBehind, Exists
  <1>6. v.orders[id] # NoOrder
    BY IdsTyped DEF Exists
  <1>7. \A o \in Ids \ T : u.orders[o] = z.orders[o] \/ (u.orders[o] = NoOrder /\ o \in O)
    BY <1>4, <1>6 DEF Behind
  <1>8. QED BY <1>1, <1>2, <1>3, <1>5, <1>7 DEF Behind, KeysIndexed

LEMMA IssuedLost ==
    ASSUME NEW T, NEW O, NEW v \in View, NEW w \in View, Behind(v, w, T, O),
           NEW id \in Ids, NEW c \in Ids, c <= v.seq, NEW csr \in Csrs, NEW z, z = ApplyIssued(w, id, c, csr, c)
    PROVE  Behind(v, z, T \cup {id, csr}, O)
  <1>0. c \in 0..MaxSeq
    BY IdsTyped
  <1>1. /\ z \in View /\ z.seq = rememberSeq(w, c) /\ z.issued = w.issued \cup {csr}
        /\ z.certs = [w.certs EXCEPT ![c] = csr]
        /\ z.orders = [w.orders EXCEPT ![id] = [status |-> "valid", authz |-> w.orders[id].authz, cert |-> c]]
        /\ z.accounts = w.accounts /\ z.byKey = w.byKey /\ z.revoked = w.revoked
    BY IssuedFields
  <1>2. z.seq <= v.seq
    BY <1>0, <1>1, SeqTyped DEF Behind, rememberSeq
  <1>3. /\ \A o \in Ids : o # id => z.orders[o] = w.orders[o]
        /\ z.orders[id].authz = w.orders[id].authz /\ z.orders[id].status = "valid"
    BY <1>1 DEF View
  <1>4. \A o \in Ids : OrderBehind(v, z, o)
    BY <1>3 DEF Behind, OrderBehind, Exists
  <1>5. QED BY <1>1, <1>2, <1>3, <1>4 DEF Behind, KeysIndexed

LEMMA RevokedBehind ==
    ASSUME NEW T, NEW O, NEW v \in View, NEW w \in View, Behind(v, w, T, O), NEW csr \in Csrs,
           NEW z, z = ApplyRevoked(w, csr)
    PROVE  /\ \A u : u = ApplyRevoked(v, csr) => Behind(u, z, T, O)
           /\ Behind(v, z, T \cup {csr}, O)
  <1>1. /\ z.revoked = w.revoked \cup {csr} /\ z.seq = w.seq /\ z.accounts = w.accounts /\ z.byKey = w.byKey
        /\ z.orders = w.orders /\ z.issued = w.issued
    BY RevokedFields
  <1>2. ASSUME NEW u, u = ApplyRevoked(v, csr) PROVE Behind(u, z, T, O)
    <2>1. /\ u.revoked = v.revoked \cup {csr} /\ u.seq = v.seq /\ u.accounts = v.accounts /\ u.byKey = v.byKey
          /\ u.orders = v.orders /\ u.issued = v.issued
      BY <1>2, RevokedFields
    <2>2. QED BY <1>1, <2>1 DEF Behind, KeysIndexed, OrderBehind, Exists
  <1>3. Behind(v, z, T \cup {csr}, O)
    BY <1>1 DEF Behind, KeysIndexed, OrderBehind, Exists
  <1>4. QED BY <1>2, <1>3

\* A restart serves the log's view.
LEMMA RestartBehind ==
    ASSUME NEW T, NEW O, NEW v, NEW w \in View, Behind(v, w, T, O)
    PROVE  Behind(w, w, T, O)
  <1>1. w.seq <= w.seq
    BY SeqTyped, AcmeAssumption DEF View
  <1>2. QED BY <1>1 DEF Behind, OrderBehind

-----------------------------------------------------------------------------
(* Events and the handlers between two critical sections *)

\* Orders of the log w stay there, keep their domains, and lose no authorization,
\* in the log or in the view.
OrdersKept(v, w, u, z) ==
    \A o \in Ids : Exists(w, o) =>
        /\ Exists(z, o)
        /\ \A d \in Domains : w.orders[o].authz[d] # "none" => z.orders[o].authz[d] # "none"
        /\ AllSettled(w, o) => AllSettled(z, o)
        /\ AllSettled(v, o) => AllSettled(u, o)

LEMMA ThreadKept ==
    ASSUME NEW v, NEW w, NEW u, NEW z, OrdersKept(v, w, u, z), NEW R, NEW S, R \subseteq S,
           NEW j, j.order \in 0..MaxSeq, j.domain \subseteq Domains, ThreadSound(j, v, w, R)
    PROVE  ThreadSound(j, u, z, S)
  <1>1. j.order # 0 => j.order \in Ids
    BY AcmeAssumption DEF Ids
  <1>2. j.order \in Ids => j.order # 0
    BY IdsTyped
  <1>3. QED BY <1>1, <1>2 DEF ThreadSound, OrdersKept

LEMMA MintedKept ==
    ASSUME NEW v, NEW w, NEW u, NEW z, OrdersKept(v, w, u, z), NEW M, MintedSound(M, w)
    PROVE  MintedSound(M, z)
  BY DEF MintedSound, OrdersKept

\* Orders that a step leaves alone are kept; a pruned one has nothing to settle.
LEMMA SameOrdersKept ==
    ASSUME NEW v, NEW w, NEW u, NEW z, z.orders = w.orders,
           \A o \in Ids : u.orders[o] = v.orders[o] \/ u.orders[o] = NoOrder
    PROVE  OrdersKept(v, w, u, z)
  <1>1. \A d \in Domains : NoOrder.authz[d] = "none"
    BY DEF NoOrder
  <1>2. QED BY <1>1 DEF OrdersKept, AllSettled, Exists

\* An event about one order of the log adds authorizations to it at most.
LEMMA OneOrderKept ==
    ASSUME NEW v, NEW w, NEW u, NEW z, NEW id \in Ids,
           \A o \in Ids : o # id => z.orders[o] = w.orders[o] /\ (u.orders[o] = v.orders[o] \/ u.orders[o] = NoOrder),
           Exists(w, id) => /\ Exists(z, id)
                            /\ \A d \in Domains : /\ z.orders[id].authz[d] = w.orders[id].authz[d] \/ z.orders[id].authz[d] = "valid"
                                                  /\ u.orders[id].authz[d] = v.orders[id].authz[d]
                                                       \/ u.orders[id].authz[d] \in {"none", "valid"}
    PROVE  OrdersKept(v, w, u, z)
  <1>1. \A d \in Domains : NoOrder.authz[d] = "none"
    BY DEF NoOrder
  <1> SUFFICES ASSUME NEW o \in Ids, Exists(w, o)
               PROVE  /\ Exists(z, o)
                      /\ \A d \in Domains : w.orders[o].authz[d] # "none" => z.orders[o].authz[d] # "none"
                      /\ AllSettled(w, o) => AllSettled(z, o)
                      /\ AllSettled(v, o) => AllSettled(u, o)
    BY DEF OrdersKept
  <1>2. CASE o = id
    BY <1>2 DEF AllSettled
  <1>3. CASE o # id
    BY <1>1, <1>3 DEF AllSettled, Exists
  <1>4. QED BY <1>2, <1>3

-----------------------------------------------------------------------------
(* Steps *)

\* What a step has to keep.
LEMMA StepIInv ==
    ASSUME IInv,
           ViewSound(view', proved'), ViewSound(durable', proved'), Behind(view', durable', torn', old'),
           OrdersKept(view, durable, view', durable'), platform \subseteq platform',
           MintedSound(minted, durable') => MintedSound(minted', durable'),
           thread' \in [Threads -> Requests],
           \A t \in Threads : thread'[t] = thread[t] \/ ThreadSound(thread'[t], view', durable', platform'),
           old' \subseteq Ids, torn' \subseteq Ids \cup Csrs, proved' \subseteq Ids \X Domains,
           minted' \subseteq Ids \X Csrs, platform' \subseteq Csrs,
           faults' \in 0..MaxFaults, restarts' \in 0..MaxRestarts,
           view'.revoked \cup durable'.revoked \subseteq platform'
    PROVE  IInv'
  <1>1. TypeOK'
    BY DEF TypeOK, ViewSound
  <1>2. \A t \in Threads : ThreadSound(thread[t], view', durable', platform')
    <2> TAKE t \in Threads
    <2>1. thread[t].order \in 0..MaxSeq /\ thread[t].domain \subseteq Domains
      BY DEF IInv, TypeOK, Requests
    <2>2. ThreadSound(thread[t], view, durable, platform)
      BY DEF IInv
    <2>3. QED BY <2>1, <2>2, ThreadKept
  <1>3. \A t \in Threads : ThreadSound(thread'[t], view', durable', platform')
    BY <1>2
  <1>4. MintedSound(minted', durable')
    BY MintedKept DEF IInv
  <1>5. RevokedOnPlatform'
    BY DEF RevokedOnPlatform
  <1>6. QED BY <1>1, <1>3, <1>4, <1>5 DEF IInv

LEMMA IdleTyped == Idle \in Requests /\ Idle.pc = "idle" /\ Idle.order = 0
  BY AcmeAssumption DEF Idle, Requests

LEMMA IdleSound == ASSUME NEW v, NEW w, NEW R PROVE ThreadSound(Idle, v, w, R)
  BY IdleTyped DEF ThreadSound

\* The view after the janitor.
LEMMA PrunedView ==
    ASSUME IInv, NEW v, v = Pruned(view)
    PROVE  /\ v \in View /\ ViewSound(v, proved) /\ Behind(v, durable, torn, old)
           /\ v.revoked = view.revoked /\ v.issued = view.issued /\ v.seq = view.seq
           /\ \A o \in Ids : v.orders[o] = view.orders[o] \/ v.orders[o] = NoOrder
  <1>1. view \in View /\ ViewSound(view, proved) /\ Behind(view, durable, torn, old)
    BY DEF IInv, ViewSound
  <1>2. v \in View /\ v.revoked = view.revoked /\ v.issued = view.issued /\ v.seq = view.seq
    BY <1>1, PrunedFields
  <1>3. \A o \in Ids : v.orders[o] = view.orders[o] \/ v.orders[o] = NoOrder
    BY <1>1, PrunedFields
  <1>4. QED BY <1>1, <1>2, <1>3, PrunedSound, PrunedBehind

LEMMA FaultBounded ==
    ASSUME faults \in 0..MaxFaults, NEW o \in Outcomes, o # "ok" => faults < MaxFaults,
           faults' = IF o = "ok" THEN faults ELSE faults + 1
    PROVE  faults' \in 0..MaxFaults
  BY AcmeAssumption

-----------------------------------------------------------------------------
(* Accounts *)

LEMMA NewAccountIInv ==
    ASSUME IInv, NEW k \in Keys, NEW r \in Outcomes, NewAccount(k, r)
    PROVE  IInv'
  <1> DEFINE v  == Pruned(view)
             id == v.seq + 1
             c  == [v EXCEPT !.seq = id]
  <1>1. /\ v \in View /\ ViewSound(v, proved) /\ Behind(v, durable, torn, old)
        /\ v.revoked = view.revoked /\ v.seq = view.seq
        /\ \A o \in Ids : v.orders[o] = view.orders[o] \/ v.orders[o] = NoOrder
    BY PrunedView
  <1>2. /\ v.byKey[k] = 0 /\ id \in Ids
        /\ r # "ok" => faults < MaxFaults
        /\ faults' = IF r = "ok" THEN faults ELSE faults + 1
        /\ durable' = IF r = "failed" THEN durable ELSE ApplyAccount(durable, id, k, id)
        /\ view' = IF r = "ok" THEN ApplyAccount(v, id, k, id) ELSE c
        /\ torn' = IF r = "lost" THEN torn \cup {id} ELSE torn
        /\ UNCHANGED <<thread, old, proved, minted, platform, restarts>>
    BY DEF NewAccount, Append
  <1> HIDE DEF v
  <1>3. durable \in View /\ ViewSound(durable, proved) /\ TypeOK /\ RevokedOnPlatform
    BY DEF IInv, ViewSound
  <1>4. v.seq \in Nat /\ v.seq <= id /\ id <= id
    BY <1>1 DEF View
  <1> HIDE DEF id
  <1>5. id \in 0..MaxSeq
    BY <1>2, IdsTyped
  <1>6. /\ c \in View /\ c.seq = id /\ c.orders = v.orders /\ c.revoked = v.revoked
        /\ ViewSound(c, proved) /\ Behind(c, durable, torn, old)
    BY <1>1, <1>3, <1>4, <1>5, CountedFields, CountedSound, CountedBehind
  <1> HIDE DEF c
  <1>7. ASSUME NEW x, x \in View, ViewSound(x, proved), NEW y, y = ApplyAccount(x, id, k, id)
        PROVE  y \in View /\ ViewSound(y, proved) /\ y.orders = x.orders /\ y.revoked = x.revoked
    <2>1. id \in Ids
      BY <1>2
    <2>2. y \in View /\ y.orders = x.orders /\ y.revoked = x.revoked
      BY <1>5, <1>7, <2>1, AccountElse
    <2>3. ViewSound(y, proved)
      BY <1>5, <1>7, <2>1, AccountSound
    <2>4. QED BY <2>2, <2>3
  <1>8. faults' \in 0..MaxFaults /\ torn' \subseteq Ids \cup Csrs
    BY <1>2, <1>3, FaultBounded DEF TypeOK
  <1>9. /\ ViewSound(view', proved') /\ ViewSound(durable', proved')
        /\ durable'.orders = durable.orders /\ durable'.revoked = durable.revoked
        /\ view'.orders = v.orders /\ view'.revoked = view.revoked
    BY <1>1, <1>2, <1>3, <1>6, <1>7
  <1>10. Behind(view', durable', torn', old')
    <2>1. CASE r = "ok"
      BY <1>1, <1>2, <1>3, <1>5, <2>1, AccountBehind
    <2>2. CASE r = "failed"
      BY <1>2, <1>6, <2>2
    <2>3. CASE r = "lost"
      <3>1. Behind(c, durable', torn \cup {id}, old)
        BY <1>2, <1>3, <1>4, <1>5, <1>6, <2>3, AccountLost
      <3>2. QED BY <1>2, <2>3, <3>1
    <2>4. QED BY <2>1, <2>2, <2>3 DEF Outcomes
  <1>11. OrdersKept(view, durable, view', durable')
    BY <1>1, <1>9, SameOrdersKept
  <1>12. QED BY <1>2, <1>3, <1>8, <1>9, <1>10, <1>11, StepIInv DEF TypeOK, RevokedOnPlatform

\* An account that the view has takes a key that no other account has.
LEMMA KeyIInv ==
    ASSUME IInv, NEW v, v = Pruned(view), NEW id \in Ids, NEW k \in Keys, NEW r \in Outcomes,
           v.accounts[id] # NoKey, v.byKey[k] \in {0, id},
           Append(r, ApplyAccount(durable, id, k, 0), v, ApplyAccount(v, id, k, 0), id),
           UNCHANGED <<thread, old, proved, minted, platform, restarts>>
    PROVE  IInv'
  <1>1. /\ v \in View /\ ViewSound(v, proved) /\ Behind(v, durable, torn, old) /\ v.revoked = view.revoked
        /\ \A o \in Ids : v.orders[o] = view.orders[o] \/ v.orders[o] = NoOrder
    BY PrunedView
  <1>2. /\ r # "ok" => faults < MaxFaults
        /\ faults' = IF r = "ok" THEN faults ELSE faults + 1
        /\ durable' = IF r = "failed" THEN durable ELSE ApplyAccount(durable, id, k, 0)
        /\ view' = IF r = "ok" THEN ApplyAccount(v, id, k, 0) ELSE v
        /\ torn' = IF r = "lost" THEN torn \cup {id} ELSE torn
    BY DEF Append
  <1>3. durable \in View /\ ViewSound(durable, proved) /\ TypeOK /\ RevokedOnPlatform
    BY DEF IInv, ViewSound
  <1>4. 0 \in 0..MaxSeq /\ 0 <= v.seq /\ durable.accounts[id] # NoKey
    BY <1>1, AcmeAssumption DEF View, Behind
  <1>5. ASSUME NEW x, x \in View, ViewSound(x, proved), x.accounts[id] # NoKey, NEW y, y = ApplyAccount(x, id, k, 0)
        PROVE  y \in View /\ ViewSound(y, proved) /\ y.orders = x.orders /\ y.revoked = x.revoked
    BY <1>4, <1>5, AccountElse, AccountSound
  <1>6. faults' \in 0..MaxFaults /\ torn' \subseteq Ids \cup Csrs
    BY <1>2, <1>3, FaultBounded DEF TypeOK
  <1>7. /\ ViewSound(view', proved') /\ ViewSound(durable', proved')
        /\ durable'.orders = durable.orders /\ durable'.revoked = durable.revoked
        /\ view'.orders = v.orders /\ view'.revoked = view.revoked
    BY <1>1, <1>2, <1>3, <1>4, <1>5
  <1>8. Behind(view', durable', torn', old')
    <2>1. CASE r = "ok"
      BY <1>1, <1>2, <1>3, <1>4, <2>1, AccountBehind
    <2>2. CASE r = "failed"
      BY <1>1, <1>2, <2>2
    <2>3. CASE r = "lost"
      <3>1. Behind(v, durable', torn \cup {id}, old)
        BY <1>1, <1>2, <1>3, <1>4, <2>3, AccountLost
      <3>2. QED BY <1>2, <2>3, <3>1
    <2>4. QED BY <2>1, <2>2, <2>3 DEF Outcomes
  <1>9. OrdersKept(view, durable, view', durable')
    BY <1>1, <1>7, SameOrdersKept
  <1>10. QED BY <1>2, <1>3, <1>6, <1>7, <1>8, <1>9, StepIInv DEF TypeOK, RevokedOnPlatform

\* An update of an account's contacts gives it the key it has.
LEMMA UpdateAccountIInv ==
    ASSUME IInv, NEW k \in Keys, NEW r \in Outcomes, UpdateAccount(k, r)
    PROVE  IInv'
  <1> DEFINE v  == Pruned(view)
             id == v.byKey[k]
  <1>1. v \in View /\ ViewSound(v, proved)
    BY PrunedView
  <1>2. /\ id # 0 /\ Append(r, ApplyAccount(durable, id, k, 0), v, v, id)
        /\ UNCHANGED <<thread, old, proved, minted, platform, restarts>>
    BY DEF UpdateAccount
  <1> HIDE DEF v
  <1>3. id \in Ids /\ v.accounts[id] = k
    BY <1>1, <1>2 DEF ViewSound
  <1>4. ApplyAccount(v, id, k, 0) = v
    <2>1. rememberSeq(v, 0) = v.seq
      BY <1>1, AcmeAssumption DEF rememberSeq, View
    <2>2. [v.accounts EXCEPT ![id] = k] = v.accounts
      BY <1>1, <1>3 DEF View
    <2>3. [x \in Keys |-> IF x = k THEN id ELSE IF x = v.accounts[id] THEN 0 ELSE v.byKey[x]] = v.byKey
      BY <1>1, <1>3 DEF View
    <2>4. QED BY <1>1, <2>1, <2>2, <2>3 DEF ApplyAccount, View
  <1>5. v.accounts[id] # NoKey /\ v.byKey[k] \in {0, id}
    BY <1>3, AcmeAssumption
  <1>6. v = Pruned(view)
    BY DEF v
  <1> HIDE DEF id
  <1>7. Append(r, ApplyAccount(durable, id, k, 0), v, ApplyAccount(v, id, k, 0), id)
    BY <1>2, <1>4
  <1>8. QED BY <1>2, <1>3, <1>5, <1>6, <1>7, KeyIInv

LEMMA keyChangeIInv ==
    ASSUME IInv, NEW id \in Ids, NEW k \in Keys, NEW r \in Outcomes, keyChange(id, k, r)
    PROVE  IInv'
  BY KeyIInv DEF keyChange

-----------------------------------------------------------------------------
(* Orders *)

LEMMA NewOrderIInv ==
    ASSUME IInv, NEW asked \in SUBSET Domains, NEW r \in Outcomes, NewOrder(asked, r)
    PROVE  IInv'
  <1> DEFINE v  == Pruned(view)
             id == v.seq + 1
             c  == [v EXCEPT !.seq = id]
             f  == Fresh(asked)
  <1>1. /\ v \in View /\ ViewSound(v, proved) /\ Behind(v, durable, torn, old)
        /\ v.revoked = view.revoked /\ v.seq = view.seq
        /\ \A o \in Ids : v.orders[o] = view.orders[o] \/ v.orders[o] = NoOrder
    BY PrunedView
  <1>2. /\ id \in Ids
        /\ r # "ok" => faults < MaxFaults
        /\ faults' = IF r = "ok" THEN faults ELSE faults + 1
        /\ durable' = IF r = "failed" THEN durable ELSE ApplyOrder(durable, id, f, id)
        /\ view' = IF r = "ok" THEN ApplyOrder(v, id, f, id) ELSE c
        /\ torn' = IF r = "lost" THEN torn \cup {id} ELSE torn
        /\ UNCHANGED <<thread, old, proved, minted, platform, restarts>>
    BY DEF NewOrder, Append
  <1> HIDE DEF v
  <1>3. durable \in View /\ ViewSound(durable, proved) /\ TypeOK /\ RevokedOnPlatform
    BY DEF IInv, ViewSound
  <1>4. v.seq \in Nat /\ durable.seq \in Nat /\ v.seq <= id /\ id <= id /\ ~(id <= v.seq) /\ durable.seq <= v.seq
    BY <1>1, <1>3 DEF View, Behind
  <1>5. ~Exists(v, id) /\ ~Exists(durable, id)
    <2>1. ~(id <= durable.seq)
      BY <1>4
    <2>2. QED BY <1>1, <1>2, <1>3, <1>4, <2>1 DEF ViewSound
  <1> HIDE DEF id
  <1>6. id \in 0..MaxSeq /\ f \in Order /\ f.status # "none"
    BY <1>2, IdsTyped, FreshTyped
  <1>7. /\ c \in View /\ c.seq = id /\ c.orders = v.orders /\ c.revoked = v.revoked
        /\ ViewSound(c, proved) /\ Behind(c, durable, torn, old)
    BY <1>1, <1>3, <1>4, <1>6, CountedFields, CountedSound, CountedBehind
  <1> HIDE DEF c
  <1>8. ASSUME NEW x, x \in View, ViewSound(x, proved), NEW y, y = ApplyOrder(x, id, f, id)
        PROVE  /\ y \in View /\ ViewSound(y, proved) /\ y.revoked = x.revoked
               /\ \A o \in Ids : o # id => y.orders[o] = x.orders[o]
    <2>1. y \in View /\ y.orders = [x.orders EXCEPT ![id] = f] /\ y.revoked = x.revoked
      BY <1>2, <1>6, <1>8, OrderFields
    <2>2. ViewSound(y, proved)
      BY <1>2, <1>8, OrderSound
    <2>3. QED BY <1>8, <2>1, <2>2 DEF View
  <1> HIDE DEF f
  <1>9. faults' \in 0..MaxFaults /\ torn' \subseteq Ids \cup Csrs
    BY <1>2, <1>3, FaultBounded DEF TypeOK
  <1>10. /\ ViewSound(view', proved') /\ ViewSound(durable', proved')
         /\ durable'.revoked = durable.revoked /\ view'.revoked = view.revoked
         /\ \A o \in Ids : o # id => durable'.orders[o] = durable.orders[o] /\ view'.orders[o] = v.orders[o]
    BY <1>1, <1>2, <1>3, <1>7, <1>8
  <1>11. Behind(view', durable', torn', old')
    <2>1. CASE r = "ok"
      BY <1>1, <1>2, <1>3, <1>6, <2>1, OrderBehindKept
    <2>2. CASE r = "failed"
      BY <1>2, <1>7, <2>2
    <2>3. CASE r = "lost"
      <3>1. Behind(c, durable', torn \cup {id}, old)
        <4>1. ~Exists(c, id) /\ id <= c.seq
          BY <1>4, <1>5, <1>7 DEF Exists
        <4>2. QED BY <1>2, <1>3, <1>6, <1>7, <2>3, <4>1, OrderLost
      <3>2. QED BY <1>2, <2>3, <3>1
    <2>4. QED BY <2>1, <2>2, <2>3 DEF Outcomes
  <1>12. OrdersKept(view, durable, view', durable')
    BY <1>1, <1>2, <1>5, <1>10, OneOrderKept
  <1>13. QED BY <1>2, <1>3, <1>9, <1>10, <1>11, <1>12, StepIInv DEF TypeOK, RevokedOnPlatform

-----------------------------------------------------------------------------
(* Handlers that take the lock, look at the view and leave the log alone *)

\* A handler t goes on with job j, after the janitor ran or without it.
LEMMA HandlerIInv ==
    ASSUME IInv, view' = view \/ view' = Pruned(view), NEW t \in Threads, NEW j \in Requests,
           thread' = [thread EXCEPT ![t] = j], ThreadSound(j, view', durable, platform'),
           platform \subseteq platform', platform' \subseteq Csrs,
           MintedSound(minted, durable) => MintedSound(minted', durable), minted' \subseteq Ids \X Csrs,
           UNCHANGED <<durable, old, torn, proved, faults, restarts>>
    PROVE  IInv'
  <1>1. TypeOK /\ RevokedOnPlatform /\ ViewSound(durable, proved)
    BY DEF IInv
  <1>2. /\ ViewSound(view', proved) /\ Behind(view', durable, torn, old) /\ view'.revoked = view.revoked
        /\ \A o \in Ids : view'.orders[o] = view.orders[o] \/ view'.orders[o] = NoOrder
    BY PrunedView DEF IInv
  <1>3. OrdersKept(view, durable, view', durable')
    BY <1>2, SameOrdersKept
  <1>4. thread' \in [Threads -> Requests] /\ thread'[t] = j /\ \A x \in Threads : x # t => thread'[x] = thread[x]
    BY <1>1 DEF TypeOK
  <1>5. \A x \in Threads : thread'[x] = thread[x] \/ ThreadSound(thread'[x], view', durable', platform')
    BY <1>4
  <1>6. view'.revoked \cup durable'.revoked \subseteq platform'
    BY <1>1, <1>2 DEF RevokedOnPlatform
  <1>7. /\ old' \subseteq Ids /\ torn' \subseteq Ids \cup Csrs /\ proved' \subseteq Ids \X Domains
        /\ faults' \in 0..MaxFaults /\ restarts' \in 0..MaxRestarts
    BY <1>1 DEF TypeOK
  <1>8. /\ ViewSound(view', proved') /\ ViewSound(durable', proved') /\ Behind(view', durable', torn', old')
        /\ MintedSound(minted, durable') => MintedSound(minted', durable')
    BY <1>1, <1>2
  <1>9. QED BY <1>3, <1>4, <1>5, <1>6, <1>7, <1>8, StepIInv

LEMMA acceptChallengeIInv ==
    ASSUME IInv, NEW t \in Threads, NEW o \in Ids, NEW d \in Domains, acceptChallenge(t, o, d)
    PROVE  IInv'
  <1> DEFINE v == Pruned(view)
             j == [pc |-> "validating", order |-> o, domain |-> {d}, csr |-> NoCsr]
  <1>1. /\ view' = v /\ v.orders[o].authz[d] # "none" /\ thread' = [thread EXCEPT ![t] = j]
        /\ UNCHANGED <<durable, old, torn, proved, minted, platform, faults, restarts>>
    BY DEF acceptChallenge
  <1>2. ViewSound(v, proved) /\ Behind(v, durable, torn, old)
    BY PrunedView
  <1>3. view' = Pruned(view)
    BY <1>1
  <1> HIDE DEF v
  <1>4. Exists(v, o)
    BY <1>1, <1>2 DEF ViewSound, NoOrder
  <1>5. Exists(durable, o) /\ durable.orders[o].authz[d] # "none"
    BY <1>1, <1>2, <1>4 DEF Behind, OrderBehind
  <1>6. j \in Requests
    BY IdsTyped DEF Requests
  <1>7. ThreadSound(j, view', durable, platform')
    BY <1>5 DEF ThreadSound
  <1>8. minted \subseteq Ids \X Csrs /\ platform \subseteq Csrs
    BY DEF IInv, TypeOK
  <1> HIDE DEF j
  <1>9. QED BY <1>1, <1>3, <1>6, <1>7, <1>8, HandlerIInv

LEMMA RefuseIInv ==
    ASSUME IInv, NEW t \in Threads, Refuse(t)
    PROVE  IInv'
  <1>1. minted \subseteq Ids \X Csrs /\ platform \subseteq Csrs
    BY DEF IInv, TypeOK
  <1>2. QED BY <1>1, IdleTyped, IdleSound, HandlerIInv DEF Refuse

\* A ready order has its authorizations, in the view and in the log.
LEMMA finalizeIInv ==
    ASSUME IInv, NEW t \in Threads, NEW o \in Ids, NEW csr \in Csrs, finalize(t, o, csr)
    PROVE  IInv'
  <1> DEFINE v == Pruned(view)
             j == [pc |-> "issuing", order |-> o, domain |-> {}, csr |-> csr]
  <1>1. /\ view' = v /\ v.orders[o].status = "ready" /\ thread' = [thread EXCEPT ![t] = j]
        /\ UNCHANGED <<durable, old, torn, proved, minted, platform, faults, restarts>>
    BY DEF finalize
  <1>2. ViewSound(v, proved) /\ Behind(v, durable, torn, old)
    BY PrunedView
  <1>3. view' = Pruned(view)
    BY <1>1
  <1> HIDE DEF v
  <1>4. Exists(v, o) /\ AllSettled(v, o)
    BY <1>1, <1>2 DEF ViewSound, AllSettled, Exists
  <1>5. Exists(durable, o) /\ AllSettled(durable, o)
    BY <1>2, <1>4 DEF Behind, OrderBehind, AllSettled
  <1>6. j \in Requests
    BY IdsTyped DEF Requests
  <1>7. ThreadSound(j, view', durable, platform')
    BY <1>1, <1>4, <1>5 DEF ThreadSound
  <1>8. minted \subseteq Ids \X Csrs /\ platform \subseteq Csrs
    BY DEF IInv, TypeOK
  <1> HIDE DEF j
  <1>9. QED BY <1>1, <1>3, <1>6, <1>7, <1>8, HandlerIInv

\* A handler of t that only moves on to pc p.
LEMMA MovedJob ==
    ASSUME NEW j \in Requests, NEW p \in {"issued", "revoked"}, NEW k, k = [j EXCEPT !.pc = p]
    PROVE  k \in Requests /\ k.pc = p /\ k.order = j.order /\ k.domain = j.domain /\ k.csr = j.csr
  BY DEF Requests

LEMMA IssueIInv ==
    ASSUME IInv, NEW t \in Threads, Issue(t)
    PROVE  IInv'
  <1> DEFINE j == thread[t]
             k == [j EXCEPT !.pc = "issued"]
  <1>1. /\ j.pc = "issuing" /\ minted' = minted \cup {<<j.order, j.csr>>} /\ thread' = [thread EXCEPT ![t] = k]
        /\ UNCHANGED <<view, durable, old, torn, proved, platform, faults, restarts>>
    BY DEF Issue
  <1>2. j \in Requests /\ ThreadSound(j, view, durable, platform) /\ minted \subseteq Ids \X Csrs /\ platform \subseteq Csrs
    BY DEF IInv, TypeOK
  <1> HIDE DEF j
  <1>3. k \in Requests /\ k.pc = "issued" /\ k.order = j.order /\ k.csr = j.csr
    BY <1>2, MovedJob
  <1> HIDE DEF k
  <1>4. j.order \in Ids /\ j.csr \in Csrs /\ Exists(durable, j.order) /\ AllSettled(view, j.order) /\ AllSettled(durable, j.order)
    BY <1>1, <1>2, IdsTyped DEF ThreadSound
  <1>5. ThreadSound(k, view', durable, platform')
    BY <1>1, <1>3, <1>4 DEF ThreadSound
  <1>6. MintedSound(minted, durable) => MintedSound(minted', durable)
    BY <1>1, <1>4 DEF MintedSound
  <1>7. minted' \subseteq Ids \X Csrs
    BY <1>1, <1>2, <1>4
  <1>8. QED BY <1>1, <1>2, <1>3, <1>5, <1>6, <1>7, HandlerIInv

LEMMA revokeCertIInv ==
    ASSUME IInv, NEW t \in Threads, NEW csr \in Csrs, revokeCert(t, csr)
    PROVE  IInv'
  <1> DEFINE j == [Idle EXCEPT !.pc = "revoking", !.csr = csr]
  <1>1. j \in Requests /\ j.pc = "revoking" /\ j.order = 0 /\ j.csr = csr
    <2>1. ASSUME NEW i, i \in Requests PROVE LET k == [i EXCEPT !.pc = "revoking", !.csr = csr] IN
            k \in Requests /\ k.pc = "revoking" /\ k.order = i.order /\ k.csr = csr
      BY <2>1 DEF Requests
    <2>2. QED BY <2>1, IdleTyped, Zenon
  <1>2. /\ view' = Pruned(view) /\ thread' = [thread EXCEPT ![t] = j]
        /\ UNCHANGED <<durable, old, torn, proved, minted, platform, faults, restarts>>
    BY DEF revokeCert
  <1> HIDE DEF j
  <1>3. ThreadSound(j, view', durable, platform')
    BY <1>1 DEF ThreadSound
  <1>4. minted \subseteq Ids \X Csrs /\ platform \subseteq Csrs
    BY DEF IInv, TypeOK
  <1>5. QED BY <1>1, <1>2, <1>3, <1>4, HandlerIInv

LEMMA RevocationHookIInv ==
    ASSUME IInv, NEW t \in Threads, RevocationHook(t)
    PROVE  IInv'
  <1> DEFINE j == thread[t]
             k == [j EXCEPT !.pc = "revoked"]
  <1>1. /\ j.pc = "revoking" /\ platform' = platform \cup {j.csr} /\ thread' = [thread EXCEPT ![t] = k]
        /\ UNCHANGED <<view, durable, old, torn, proved, minted, faults, restarts>>
    BY DEF RevocationHook
  <1>2. j \in Requests /\ ThreadSound(j, view, durable, platform) /\ minted \subseteq Ids \X Csrs /\ platform \subseteq Csrs
    BY DEF IInv, TypeOK
  <1> HIDE DEF j
  <1>3. k \in Requests /\ k.pc = "revoked" /\ k.order = j.order /\ k.csr = j.csr
    BY <1>2, MovedJob
  <1> HIDE DEF k
  <1>4. j.csr \in Csrs /\ (j.order # 0 => Exists(durable, j.order))
    BY <1>1, <1>2 DEF ThreadSound
  <1>5. ThreadSound(k, view', durable, platform')
    BY <1>1, <1>3, <1>4 DEF ThreadSound
  <1>6. platform \subseteq platform' /\ platform' \subseteq Csrs
    BY <1>1, <1>2, <1>4
  <1>7. QED BY <1>1, <1>2, <1>3, <1>5, <1>6, HandlerIInv

-----------------------------------------------------------------------------
(* Time, the janitor and restarts *)

\* More orders are old.
LEMMA OldBehind ==
    ASSUME NEW T, NEW O, NEW N, O \subseteq N, NEW v, NEW w, Behind(v, w, T, O)
    PROVE  Behind(v, w, T, N)
  BY DEF Behind

LEMMA AgeIInv ==
    ASSUME IInv, NEW o \in Ids, Age(o)
    PROVE  IInv'
  <1>1. /\ old' = old \cup {o}
        /\ UNCHANGED <<view, durable, thread, torn, proved, minted, platform, faults, restarts>>
    BY DEF Age
  <1>2. TypeOK /\ RevokedOnPlatform /\ ViewSound(view, proved) /\ ViewSound(durable, proved) /\ Behind(view, durable, torn, old)
    BY DEF IInv
  <1>3. Behind(view, durable, torn, old')
    BY <1>1, <1>2, OldBehind
  <1>4. OrdersKept(view, durable, view', durable')
    BY <1>1, SameOrdersKept
  <1>5. QED BY <1>1, <1>2, <1>3, <1>4, StepIInv DEF TypeOK, RevokedOnPlatform

LEMMA PruneIInv ==
    ASSUME IInv, Prune
    PROVE  IInv'
  <1>1. /\ view' = Pruned(view)
        /\ UNCHANGED <<durable, thread, old, torn, proved, minted, platform, faults, restarts>>
    BY DEF Prune
  <1>2. TypeOK /\ RevokedOnPlatform /\ ViewSound(durable, proved)
    BY DEF IInv
  <1>3. /\ ViewSound(view', proved) /\ Behind(view', durable, torn, old) /\ view'.revoked = view.revoked
        /\ \A o \in Ids : view'.orders[o] = view.orders[o] \/ view'.orders[o] = NoOrder
    BY <1>1, PrunedView
  <1>4. OrdersKept(view, durable, view', durable')
    BY <1>1, <1>3, SameOrdersKept
  <1>5. QED BY <1>1, <1>2, <1>3, <1>4, StepIInv DEF TypeOK, RevokedOnPlatform

LEMMA RestartIInv ==
    ASSUME IInv, Restart
    PROVE  IInv'
  <1>1. /\ restarts < MaxRestarts /\ restarts' = restarts + 1 /\ view' = durable /\ thread' = [t \in Threads |-> Idle]
        /\ UNCHANGED <<durable, old, torn, proved, minted, platform, faults>>
    BY DEF Restart
  <1>2. TypeOK /\ RevokedOnPlatform /\ ViewSound(durable, proved) /\ Behind(view, durable, torn, old) /\ MintedSound(minted, durable)
    BY DEF IInv
  <1>3. durable \in View
    BY <1>2 DEF ViewSound
  <1>4. Behind(durable, durable, torn, old)
    BY <1>2, <1>3, RestartBehind
  <1>5. thread' \in [Threads -> Requests] /\ restarts' \in 0..MaxRestarts
    BY <1>1, <1>2, IdleTyped, AcmeAssumption DEF TypeOK
  <1>6. TypeOK'
    BY <1>1, <1>2, <1>5 DEF TypeOK
  <1>7. \A t \in Threads : ThreadSound(thread'[t], view', durable', platform')
    BY <1>1, IdleSound
  <1>8. RevokedOnPlatform'
    BY <1>1, <1>2 DEF RevokedOnPlatform
  <1>9. QED BY <1>1, <1>2, <1>4, <1>6, <1>7, <1>8 DEF IInv

-----------------------------------------------------------------------------
(* Handlers that take the lock again and append their event *)

\* A handler t that ends after a step of the log and the view.
LEMMA EndIInv ==
    ASSUME IInv, NEW t \in Threads, thread' = [thread EXCEPT ![t] = Idle],
           ViewSound(view', proved'), ViewSound(durable', proved'), Behind(view', durable', torn', old),
           OrdersKept(view, durable, view', durable'), view'.revoked \cup durable'.revoked \subseteq platform,
           torn' \subseteq Ids \cup Csrs, proved' \subseteq Ids \X Domains, faults' \in 0..MaxFaults,
           UNCHANGED <<old, minted, platform, restarts>>
    PROVE  IInv'
  <1>1. TypeOK
    BY DEF IInv
  <1>2. thread' \in [Threads -> Requests] /\ thread'[t] = Idle /\ \A x \in Threads : x # t => thread'[x] = thread[x]
    BY <1>1, IdleTyped DEF TypeOK
  <1>3. \A x \in Threads : thread'[x] = thread[x] \/ ThreadSound(thread'[x], view', durable', platform')
    BY <1>2, IdleSound
  <1>4. QED BY <1>1, <1>2, <1>3, StepIInv DEF TypeOK

LEMMA ChallengeValidIInv ==
    ASSUME IInv, NEW t \in Threads, NEW r \in Outcomes, ChallengeValid(t, r)
    PROVE  IInv'
  <1> DEFINE o == thread[t].order
             x == view.orders[o]
             A(d) == [x EXCEPT !.authz[d] = "valid"]
             S(d) == IF \A e \in Domains : A(d).authz[e] \in {"none", "valid"} THEN "ready" ELSE A(d).status
  <1>1. /\ thread[t].pc = "validating" /\ Exists(view, o) /\ thread' = [thread EXCEPT ![t] = Idle]
        /\ UNCHANGED <<old, minted, platform, restarts>>
    BY DEF ChallengeValid
  <1>2. PICK d \in thread[t].domain :
          /\ Append(r, ApplyValidated(durable, o, d, ValidatedStatus(x, d)), view,
                    [view EXCEPT !.orders[o] = [A(d) EXCEPT !.status = S(d)]], o)
          /\ proved' = proved \cup {<<o, d>>}
    BY DEF ChallengeValid
  <1>3. /\ TypeOK /\ RevokedOnPlatform /\ ViewSound(view, proved) /\ ViewSound(durable, proved)
        /\ Behind(view, durable, torn, old) /\ ThreadSound(thread[t], view, durable, platform)
        /\ view \in View /\ durable \in View /\ thread[t] \in Requests
    BY DEF IInv, ViewSound, TypeOK
  <1>4. o \in Ids /\ d \in Domains /\ durable.orders[o].authz[d] # "none" /\ Exists(durable, o)
    BY <1>1, <1>2, <1>3, IdsTyped DEF ThreadSound, Requests
  <1> DEFINE st == ValidatedStatus(x, d)
             u  == ApplyValidated(view, o, d, st)
             z  == ApplyValidated(durable, o, d, st)
  \* What the handler writes to the view is what the replay of its event gives.
  <1>5. [view EXCEPT !.orders[o] = [A(d) EXCEPT !.status = S(d)]] = u
    <2>1. view \in View /\ o \in Ids /\ d \in Domains /\ x = view.orders[o] /\ x \in Order
      BY <1>3, <1>4 DEF View
    <2> HIDE DEF o, x
    <2>2. PICK a : a = [x EXCEPT !.authz[d] = "valid"]
      OBVIOUS
    <2>3. A(d) = a
      BY <2>2
    <2> HIDE DEF A
    <2>4. a.status = x.status /\ ((\A e \in Domains : a.authz[e] \in {"none", "valid"}) <=> OthersValid(x, d))
      BY <2>1, <2>2 DEF Order, OthersValid
    <2>5. S(d) = ValidatedStatus(x, d)
      BY <2>3, <2>4 DEF ValidatedStatus
    <2> HIDE DEF S
    <2>6. a = [view.orders[o] EXCEPT !.authz[d] = "valid"]
      BY <2>1, <2>2
    <2>7. [view EXCEPT !.orders[o] = [a EXCEPT !.status = S(d)]] = ApplyValidated(view, o, d, S(d))
      <3> DEFINE w == [view EXCEPT !.orders[o].authz[d] = "valid"]
                 n == [a EXCEPT !.status = S(d)]
      <3>1. w = [view EXCEPT !.orders = [view.orders EXCEPT ![o] = a]]
        BY <2>1, <2>6 DEF View
      <3>2. ApplyValidated(view, o, d, S(d)) = [w EXCEPT !.orders[o].status = S(d)]
        BY DEF ApplyValidated
      <3> HIDE DEF w
      <3>3. w.orders = [view.orders EXCEPT ![o] = a] /\ w.orders[o] = a /\ view.orders \in [Ids -> Order]
        BY <2>1, <3>1 DEF View
      <3>4. [w EXCEPT !.orders[o].status = S(d)] = [w EXCEPT !.orders = [w.orders EXCEPT ![o] = n]]
        BY <3>3
      <3> HIDE DEF n
      <3>5. [w.orders EXCEPT ![o] = n] = [view.orders EXCEPT ![o] = n]
        BY <2>1, <3>3
      <3>6. [w EXCEPT !.orders = [view.orders EXCEPT ![o] = n]] = [view EXCEPT !.orders = [view.orders EXCEPT ![o] = n]]
        <4>1. ASSUME NEW f, NEW g PROVE [[view EXCEPT !.orders = f] EXCEPT !.orders = g] = [view EXCEPT !.orders = g]
          BY <2>1 DEF View
        <4>2. QED BY <3>1, <4>1
      <3>7. QED BY <3>2, <3>4, <3>5, <3>6 DEF n
    <2>8. QED BY <2>3, <2>5, <2>7
  <1>6. /\ r # "ok" => faults < MaxFaults
        /\ faults' = IF r = "ok" THEN faults ELSE faults + 1
        /\ durable' = IF r = "failed" THEN durable ELSE z
        /\ view' = IF r = "ok" THEN u ELSE view
        /\ torn' = IF r = "lost" THEN torn \cup {o} ELSE torn
        /\ proved' = proved \cup {<<o, d>>}
    BY <1>2, <1>5 DEF Append
  <1>7. st \in OpenStatuses /\ (st = "ready" => OthersValid(x, d))
    <2>1. x \in Order /\ x.status # "none"
      BY <1>1, <1>3, <1>4 DEF View, Exists
    <2>2. CASE x.status \in {"ready", "valid"}
      <3>1. \A e \in Domains : x.authz[e] \in {"none", "valid"}
        BY <1>3, <1>4, <2>2 DEF ViewSound
      <3>2. OthersValid(x, d)
        BY <3>1 DEF OthersValid
      <3>3. QED BY <3>2 DEF ValidatedStatus, OpenStatuses
    <2>3. CASE x.status = "pending"
      BY <2>3 DEF ValidatedStatus, OpenStatuses
    <2>4. QED BY <2>1, <2>2, <2>3 DEF Order
  <1>8. st = "ready" => /\ \A e \in Domains \ {d} : view.orders[o].authz[e] \in {"none", "valid"}
                        /\ \A e \in Domains \ {d} : durable.orders[o].authz[e] \in {"none", "valid"}
    <2>1. \A e \in Domains : /\ view.orders[o].authz[e] = "none" => durable.orders[o].authz[e] = "none"
                             /\ view.orders[o].authz[e] = "valid" => durable.orders[o].authz[e] = "valid"
      BY <1>1, <1>3, <1>4 DEF Behind, OrderBehind
    <2>2. st = "ready" => \A e \in Domains \ {d} : view.orders[o].authz[e] \in {"none", "valid"}
      BY <1>7 DEF OthersValid
    <2>3. QED BY <2>1, <2>2
  <1> HIDE DEF o, x, A, S, st
  <1>9. /\ ViewSound(view, proved') /\ ViewSound(durable, proved') /\ <<o, d>> \in proved'
        /\ proved' \subseteq Ids \X Domains
    BY <1>3, <1>4, <1>6, ProvedSound DEF TypeOK
  <1>10. ViewSound(u, proved') /\ ViewSound(z, proved')
    BY <1>1, <1>4, <1>7, <1>8, <1>9, ValidatedSound
  <1>11. ASSUME NEW v \in View, NEW w, w = ApplyValidated(v, o, d, st)
         PROVE  /\ w.revoked = v.revoked /\ w.orders[o].status # "none"
                /\ \A i \in Ids : i # o => w.orders[i] = v.orders[i]
                /\ \A e \in Domains : w.orders[o].authz[e] = v.orders[o].authz[e] \/ w.orders[o].authz[e] = "valid"
    <2>1. /\ w.orders = [v.orders EXCEPT ![o] = [status |-> st, authz |-> [v.orders[o].authz EXCEPT ![d] = "valid"],
                                                 cert |-> v.orders[o].cert]]
          /\ w.seq = v.seq /\ w.accounts = v.accounts /\ w.byKey = v.byKey
          /\ w.certs = v.certs /\ w.issued = v.issued /\ w.revoked = v.revoked
      BY <1>4, <1>7, <1>11, ValidatedFields
    <2>2. /\ \A i \in Ids : i # o => w.orders[i] = v.orders[i]
          /\ w.orders[o].status = st /\ w.orders[o].authz = [v.orders[o].authz EXCEPT ![d] = "valid"]
      BY <1>4, <2>1 DEF View
    <2>3. v.orders[o].authz \in [Domains -> {"none", "pending", "valid"}]
      BY <1>4 DEF View, Order
    <2>4. QED BY <1>4, <1>7, <2>1, <2>2, <2>3 DEF OpenStatuses
  <1>12. Behind(view', durable', torn', old)
    <2>1. CASE r = "ok"
      <3>1. Behind(u, z, torn, old)
        BY <1>1, <1>3, <1>4, <1>7, ValidatedBehind
      <3>2. QED BY <1>6, <2>1, <3>1
    <2>2. CASE r = "failed"
      BY <1>3, <1>6, <2>2
    <2>3. CASE r = "lost"
      <3>1. Behind(view, z, torn \cup {o}, old)
        BY <1>3, <1>4, <1>7, ValidatedLost
      <3>2. QED BY <1>6, <2>3, <3>1
    <2>4. QED BY <2>1, <2>2, <2>3 DEF Outcomes
  <1>13. /\ u.revoked = view.revoked /\ z.revoked = durable.revoked /\ z.orders[o].status # "none"
         /\ \A i \in Ids : i # o => u.orders[i] = view.orders[i] /\ z.orders[i] = durable.orders[i]
         /\ \A e \in Domains : u.orders[o].authz[e] = view.orders[o].authz[e] \/ u.orders[o].authz[e] = "valid"
         /\ \A e \in Domains : z.orders[o].authz[e] = durable.orders[o].authz[e] \/ z.orders[o].authz[e] = "valid"
    BY <1>3, <1>11
  <1> HIDE DEF u, z
  <1>14. OrdersKept(view, durable, view', durable')
    <2>1. \A i \in Ids : i # o => durable'.orders[i] = durable.orders[i] /\ view'.orders[i] = view.orders[i]
      BY <1>6, <1>13
    <2>2. /\ Exists(durable', o)
          /\ \A e \in Domains : /\ durable'.orders[o].authz[e] = durable.orders[o].authz[e] \/ durable'.orders[o].authz[e] = "valid"
                                /\ view'.orders[o].authz[e] = view.orders[o].authz[e] \/ view'.orders[o].authz[e] = "valid"
      BY <1>4, <1>6, <1>13 DEF Exists
    <2>3. QED BY <1>4, <2>1, <2>2, OneOrderKept
  <1>15. faults' \in 0..MaxFaults /\ torn' \subseteq Ids \cup Csrs
    BY <1>3, <1>4, <1>6, FaultBounded DEF TypeOK
  <1>16. /\ ViewSound(view', proved') /\ ViewSound(durable', proved')
         /\ view'.revoked \cup durable'.revoked \subseteq platform
    BY <1>3, <1>6, <1>9, <1>10, <1>13 DEF RevokedOnPlatform
  <1>17. QED BY <1>1, <1>9, <1>12, <1>14, <1>15, <1>16, EndIInv

LEMMA IssuedIInv ==
    ASSUME IInv, NEW t \in Threads, NEW r \in Outcomes, Issued(t, r)
    PROVE  IInv'
  <1> DEFINE o    == thread[t].order
             csr  == thread[t].csr
             c    == view.seq + 1
             seen == [view EXCEPT !.seq = c]
             u    == ApplyIssued(view, o, c, csr, c)
             z    == ApplyIssued(durable, o, c, csr, c)
             gone == r = "ok" /\ ~Exists(view, o)
  <1>1. /\ thread[t].pc = "issued" /\ c \in Ids
        /\ r # "ok" => faults < MaxFaults
        /\ faults' = IF r = "ok" THEN faults ELSE faults + 1
        /\ durable' = IF r = "failed" THEN durable ELSE z
        /\ view' = IF r = "ok" /\ ~gone THEN u ELSE seen
        /\ torn' = IF r = "lost" \/ gone THEN torn \cup {o, csr} ELSE torn
        /\ thread' = [thread EXCEPT ![t] = Idle]
        /\ UNCHANGED <<old, proved, minted, platform, restarts>>
    BY DEF Issued
  <1>2. /\ TypeOK /\ RevokedOnPlatform /\ ViewSound(view, proved) /\ ViewSound(durable, proved)
        /\ Behind(view, durable, torn, old) /\ ThreadSound(thread[t], view, durable, platform)
        /\ view \in View /\ durable \in View
    BY DEF IInv, ViewSound
  <1>3. o \in Ids /\ csr \in Csrs /\ Exists(durable, o) /\ AllSettled(view, o) /\ AllSettled(durable, o)
    BY <1>1, <1>2, IdsTyped DEF ThreadSound
  <1>4. view.seq <= c /\ c <= c /\ c \in 0..MaxSeq
    BY <1>1, <1>2, IdsTyped DEF View
  <1> HIDE DEF o, csr, c
  <1>5. /\ seen \in View /\ seen.seq = c /\ seen.orders = view.orders /\ seen.revoked = view.revoked
        /\ ViewSound(seen, proved) /\ Behind(seen, durable, torn, old)
    BY <1>2, <1>4, CountedFields, CountedSound, CountedBehind
  <1> HIDE DEF seen
  <1>6. ASSUME NEW v \in View, NEW w, w = ApplyIssued(v, o, c, csr, c)
        PROVE  /\ w.revoked = v.revoked /\ w.orders[o].status = "valid" /\ w.orders[o].authz = v.orders[o].authz
               /\ \A i \in Ids : i # o => w.orders[i] = v.orders[i]
    <2>1. /\ w \in View /\ w.seq = rememberSeq(v, c)
          /\ w.orders = [v.orders EXCEPT ![o] = [status |-> "valid", authz |-> v.orders[o].authz, cert |-> c]]
          /\ w.certs = [v.certs EXCEPT ![c] = csr] /\ w.issued = v.issued \cup {csr}
          /\ w.accounts = v.accounts /\ w.byKey = v.byKey /\ w.revoked = v.revoked
      BY <1>1, <1>3, <1>6, IssuedFields
    <2>2. QED BY <1>3, <2>1 DEF View
  <1>7. /\ z.revoked = durable.revoked /\ z.orders[o].status = "valid" /\ z.orders[o].authz = durable.orders[o].authz
        /\ u.revoked = view.revoked /\ u.orders[o].authz = view.orders[o].authz
        /\ \A i \in Ids : i # o => u.orders[i] = view.orders[i] /\ z.orders[i] = durable.orders[i]
    BY <1>2, <1>6
  <1>8. ViewSound(z, proved) /\ (Exists(view, o) => ViewSound(u, proved))
    BY <1>1, <1>2, <1>3, IssuedSound
  <1>9. Exists(view, o) => Behind(u, z, torn, old)
    BY <1>1, <1>2, <1>3, IssuedBehind
  <1>10. Behind(seen, z, torn \cup {o, csr}, old)
    <2>1. c \in Ids /\ c <= seen.seq
      BY <1>1, <1>4, <1>5
    <2>2. QED BY <1>2, <1>3, <1>5, <2>1, IssuedLost
  <1> HIDE DEF u, z
  <1>11. /\ ViewSound(view', proved') /\ ViewSound(durable', proved') /\ Behind(view', durable', torn', old)
    BY <1>1, <1>2, <1>5, <1>8, <1>9, <1>10 DEF Outcomes
  <1>12. OrdersKept(view, durable, view', durable')
    <2>1. \A i \in Ids : i # o => durable'.orders[i] = durable.orders[i] /\ view'.orders[i] = view.orders[i]
      BY <1>1, <1>5, <1>7
    <2>2. Exists(durable', o) /\ durable'.orders[o].authz = durable.orders[o].authz /\ view'.orders[o].authz = view.orders[o].authz
      BY <1>1, <1>3, <1>5, <1>7 DEF Exists
    <2>3. QED BY <1>3, <2>1, <2>2, OneOrderKept
  <1>13. view'.revoked \cup durable'.revoked \subseteq platform
    BY <1>1, <1>2, <1>5, <1>7 DEF RevokedOnPlatform
  <1>14. faults' \in 0..MaxFaults
    BY <1>1, <1>2, FaultBounded DEF TypeOK
  <1>15. torn' \subseteq Ids \cup Csrs /\ proved' \subseteq Ids \X Domains
    BY <1>1, <1>2, <1>3 DEF TypeOK
  <1>16. QED BY <1>1, <1>11, <1>12, <1>13, <1>14, <1>15, EndIInv

LEMMA RevokedIInv ==
    ASSUME IInv, NEW t \in Threads, NEW r \in Outcomes, Revoked(t, r)
    PROVE  IInv'
  <1> DEFINE csr == thread[t].csr
             u   == ApplyRevoked(view, csr)
             z   == ApplyRevoked(durable, csr)
  <1>1. /\ thread[t].pc = "revoked" /\ thread' = [thread EXCEPT ![t] = Idle]
        /\ UNCHANGED <<old, proved, minted, platform, restarts>>
    BY DEF Revoked
  <1>2. /\ TypeOK /\ RevokedOnPlatform /\ ViewSound(view, proved) /\ ViewSound(durable, proved)
        /\ Behind(view, durable, torn, old) /\ ThreadSound(thread[t], view, durable, platform)
        /\ view \in View /\ durable \in View
    BY DEF IInv, ViewSound
  <1>3. csr \in Csrs /\ csr \in platform
    BY <1>1, <1>2 DEF ThreadSound
  <1>4. CASE csr \in view.revoked
    <2>1. UNCHANGED <<view, durable, torn, faults>>
      BY <1>4 DEF Revoked
    <2>2. OrdersKept(view, durable, view', durable')
      BY <2>1, SameOrdersKept
    <2>3. QED BY <1>1, <1>2, <2>1, <2>2, EndIInv DEF TypeOK, RevokedOnPlatform
  <1>5. CASE csr \notin view.revoked
    <2>1. /\ r # "ok" => faults < MaxFaults
          /\ faults' = IF r = "ok" THEN faults ELSE faults + 1
          /\ durable' = IF r = "failed" THEN durable ELSE z
          /\ view' = IF r = "ok" THEN u ELSE view
          /\ torn' = IF r = "lost" THEN torn \cup {csr} ELSE torn
      BY <1>5 DEF Revoked, Append
    <2> HIDE DEF csr
    <2>2. /\ u.revoked = view.revoked \cup {csr} /\ u.orders = view.orders
          /\ z.revoked = durable.revoked \cup {csr} /\ z.orders = durable.orders
      BY <1>2, <1>3, RevokedFields
    <2>3. ViewSound(u, proved) /\ ViewSound(z, proved)
      BY <1>2, <1>3, RevokedSound
    <2>4. Behind(u, z, torn, old) /\ Behind(view, z, torn \cup {csr}, old)
      BY <1>2, <1>3, RevokedBehind
    <2> HIDE DEF u, z
    <2>5. ViewSound(view', proved') /\ ViewSound(durable', proved') /\ Behind(view', durable', torn', old)
      BY <1>1, <1>2, <2>1, <2>3, <2>4 DEF Outcomes
    <2>6. OrdersKept(view, durable, view', durable')
      <3>1. view'.orders = view.orders /\ durable'.orders = durable.orders
        BY <2>1, <2>2
      <3>2. QED BY <3>1, SameOrdersKept
    <2>7. view'.revoked \cup durable'.revoked \subseteq platform
      BY <1>2, <1>3, <2>1, <2>2 DEF RevokedOnPlatform
    <2>8. faults' \in 0..MaxFaults
      BY <1>2, <2>1, FaultBounded DEF TypeOK
    <2>9. torn' \subseteq Ids \cup Csrs /\ proved' \subseteq Ids \X Domains
      BY <1>1, <1>2, <1>3, <2>1 DEF TypeOK
    <2>10. QED BY <1>1, <2>5, <2>6, <2>7, <2>8, <2>9, EndIInv
  <1>6. QED BY <1>4, <1>5

-----------------------------------------------------------------------------
(* The invariant holds *)

LEMMA EmptyFields ==
    /\ Empty \in View /\ Empty.seq = 0 /\ Empty.issued = {} /\ Empty.revoked = {}
    /\ \A i \in Ids : Empty.accounts[i] = NoKey /\ Empty.orders[i] = NoOrder /\ Empty.certs[i] = NoCsr
    /\ \A k \in Keys : Empty.byKey[k] = 0
  <1>1. NoOrder \in Order /\ 0 \in 0..MaxSeq
    BY IdsTyped, AcmeAssumption
  <1>2. QED BY <1>1 DEF Empty, View

LEMMA EmptySound == ViewSound(Empty, {})
  <1>1. NoOrder.status = "none" /\ \A d \in Domains : NoOrder.authz[d] = "none"
    BY DEF NoOrder
  <1>2. CertsKept(Empty)
    BY <1>1, EmptyFields DEF CertsKept
  <1>3. QED BY <1>1, <1>2, EmptyFields DEF ViewSound, Exists

LEMMA InitIInv == Init => IInv
  <1> SUFFICES ASSUME Init PROVE IInv
    OBVIOUS
  <1>1. /\ view = Empty /\ durable = Empty /\ thread = [t \in Threads |-> Idle]
        /\ old = {} /\ torn = {} /\ proved = {} /\ minted = {} /\ platform = {}
        /\ faults = 0 /\ restarts = 0
    BY DEF Init
  <1>2. ViewSound(view, proved) /\ ViewSound(durable, proved)
    BY <1>1, EmptySound
  <1>3. thread \in [Threads -> Requests] /\ faults \in 0..MaxFaults /\ restarts \in 0..MaxRestarts
    BY <1>1, IdleTyped, AcmeAssumption
  <1>4. TypeOK
    BY <1>1, <1>2, <1>3 DEF TypeOK, ViewSound
  <1>5. Behind(view, durable, torn, old)
    <2>1. KeysIndexed(durable) /\ \A o \in Ids : OrderBehind(view, durable, o)
      BY <1>1, EmptyFields DEF KeysIndexed, OrderBehind
    <2>2. QED BY <1>1, <2>1, EmptyFields DEF Behind
  <1>6. \A t \in Threads : ThreadSound(thread[t], view, durable, platform)
    BY <1>1, IdleSound
  <1>7. MintedSound(minted, durable) /\ RevokedOnPlatform
    BY <1>1, EmptyFields DEF MintedSound, RevokedOnPlatform
  <1>8. QED BY <1>2, <1>4, <1>5, <1>6, <1>7 DEF IInv

LEMMA StutterIInv == IInv /\ UNCHANGED vars => IInv'
  <1> SUFFICES ASSUME IInv, UNCHANGED vars PROVE IInv'
    OBVIOUS
  <1>1. UNCHANGED <<view, durable, thread, old, torn, proved, minted, platform, faults, restarts>>
    BY DEF vars
  <1>2. TypeOK' /\ RevokedOnPlatform'
    BY <1>1 DEF IInv, TypeOK, RevokedOnPlatform
  <1>3. QED BY <1>1, <1>2 DEF IInv

LEMMA NextIInv == IInv /\ [Next]_vars => IInv'
  <1> SUFFICES ASSUME IInv, [Next]_vars PROVE IInv'
    OBVIOUS
  <1>1. ASSUME NEW k \in Keys, NEW r \in Outcomes, NewAccount(k, r) \/ UpdateAccount(k, r) PROVE IInv'
    BY <1>1, NewAccountIInv, UpdateAccountIInv
  <1>2. ASSUME NEW id \in Ids, NEW k \in Keys, NEW r \in Outcomes, keyChange(id, k, r) PROVE IInv'
    BY <1>2, keyChangeIInv
  <1>3. ASSUME NEW asked \in (SUBSET Domains) \ {{}}, NEW r \in Outcomes, NewOrder(asked, r) PROVE IInv'
    BY <1>3, NewOrderIInv
  <1>4. ASSUME NEW t \in Threads, NEW o \in Ids,
               (\E d \in Domains : acceptChallenge(t, o, d)) \/ (\E csr \in Csrs : finalize(t, o, csr))
        PROVE  IInv'
    BY <1>4, acceptChallengeIInv, finalizeIInv
  <1>5. ASSUME NEW t \in Threads, Issue(t) \/ RevocationHook(t) \/ Refuse(t) PROVE IInv'
    BY <1>5, IssueIInv, RevocationHookIInv, RefuseIInv
  <1>6. ASSUME NEW t \in Threads, NEW r \in Outcomes, ChallengeValid(t, r) \/ Issued(t, r) \/ Revoked(t, r) PROVE IInv'
    BY <1>6, ChallengeValidIInv, IssuedIInv, RevokedIInv
  <1>7. ASSUME NEW t \in Threads, NEW csr \in Csrs, revokeCert(t, csr) PROVE IInv'
    BY <1>7, revokeCertIInv
  <1>8. ASSUME NEW o \in Ids, Age(o) PROVE IInv'
    BY <1>8, AgeIInv
  <1>9. Prune \/ Restart => IInv'
    BY PruneIInv, RestartIInv
  <1>10. UNCHANGED vars => IInv'
    BY StutterIInv
  <1>11. QED BY <1>1, <1>2, <1>3, <1>4, <1>5, <1>6, <1>7, <1>8, <1>9, <1>10 DEF Next

-----------------------------------------------------------------------------
(* Theorems *)

\* The inductive invariant: the view and the log's view are sound, the view lags the
\* log only in what is torn or old, and every handler between two critical sections
\* can rely on what it saw.
THEOREM InvariantHolds == Spec => []IInv
  BY InitIInv, NextIInv, PTL DEF Spec

\* The view, the replay of the log and the requests in flight have their types, and
\* every valid order names a certificate that getCert can serve.
THEOREM TypeCorrect == Spec => []TypeOK
  <1>1. IInv => TypeOK
    BY DEF IInv
  <1>2. QED BY <1>1, InvariantHolds, PTL

\* WithStateLog never meets an event about an order the log does not have, however
\* the janitor, restarts and failed appends interleave with the handlers.
THEOREM ReplaysFindOrders == Spec => []ReplayFindsOrders
  <1>1. IInv => ReplayFindsOrders
    BY DEF IInv, ReplayFindsOrders, Behind, OrderBehind, ThreadSound
  <1>2. QED BY <1>1, InvariantHolds, PTL

\* The view and the replay of the log agree on everything but torn requests and
\* orders the janitor dropped, so a restart takes back no answer.
THEOREM RestartsKeepAnswers == Spec => []RestartKeepsAnswers
  <1>1. IInv => RestartKeepsAnswers
    BY DEF IInv, RestartKeepsAnswers, Behind
  <1>2. QED BY <1>1, InvariantHolds, PTL

\* newAccount, newOrder and finalize never give an id out twice, after a failed
\* append or a restart either.
THEOREM IdsAreFresh == Spec => []IdsFresh
  <1>1. IInv => IdsFresh
    BY DEF IInv, IdsFresh, Behind, ViewSound
  <1>2. QED BY <1>1, InvariantHolds, PTL

\* In public_trust mode the CA mints for an order only when the validator has
\* confirmed every domain of it, in any interleaving.
THEOREM IssuesAreValidated == Spec => []IssuedNeedsValidation
  <1>1. IInv => IssuedNeedsValidation
    BY DEF IInv, IssuedNeedsValidation, MintedSound, AllSettled, ViewSound
  <1>2. QED BY <1>1, InvariantHolds, PTL

\* Until an append's answer is lost, the thumbprint index finds every account and no
\* two accounts have one key.
THEOREM KeysIdentify == Spec => []KeysIdentifyAccounts
  <1>1. IInv => KeysIdentifyAccounts
    BY DEF IInv, KeysIdentifyAccounts, Behind, KeysIndexed
  <1>2. QED BY <1>1, InvariantHolds, PTL

\* No certificate is reported revoked before the hook has revoked it on the platform.
THEOREM RevocationsAreOnPlatform == Spec => []RevokedOnPlatform
  <1>1. IInv => RevokedOnPlatform
    BY DEF IInv
  <1>2. QED BY <1>1, InvariantHolds, PTL

=============================================================================
