---------------------------- MODULE Registry_proofs ----------------------------
(***************************************************************************)
(* Proofs about Registry, for any names, processes and TUIs: no interleaving *)
(* of loads, changes and saves makes two hosts share a name, hides a        *)
(* credential a host refers to, or leaves a reference dangling unannounced. *)
(*                                                                         *)
(* Files are never merged: each is one process's copy after one change.  So *)
(* what every change preserves (Good) holds of every copy there is.        *)
(***************************************************************************)
EXTENDS Registry, TLAPS

Keyed(S) == \A x, y \in S : x.id = y.id => x = y

\* What every config in a file or in memory is, when `last' ids were given out.
Coherent(c, last) ==
    /\ c \in Config
    /\ \A h \in c.hosts : h.id <= last /\ (h.ref # None => h.ref <= last)
    /\ \A e \in c.credentials : e.id <= last
    /\ Keyed(c.hosts)
    /\ Keyed(c.credentials)
    /\ DistinctNames(c.hosts)
    /\ RefsFirst(c)

Good(c, last, P) == Coherent(c, last) /\ Announced(c, P)

IInv ==
    /\ TypeOK
    /\ Good(file, lastId, parted)
    /\ \A p \in Procs : Good(copy[p], lastId, parted) /\ Good(next[p], lastId, parted)

-------------------------------------------------------------------------------
(* Changes of one config.                                                     *)

\* An empty config is a good one.
LEMMA GoodEmpty == ASSUME NEW last, NEW P PROVE Good(NoConfig, last, P)
  BY SMT DEF Good, Coherent, Announced, NoConfig, Config, Keyed, DistinctNames, RefsFirst

\* A good config stays one when ids are given out and removals are recorded.
LEMMA GoodLater ==
    ASSUME NEW c, NEW last \in Nat, NEW P, Good(c, last, P),
           NEW later \in Nat, NEW Q, last <= later, P \subseteq Q
    PROVE  Good(c, later, Q)
  <1>1. \A h \in c.hosts : h.id \in Nat /\ (h.ref # None => h.ref \in Nat)
    BY DEF Good, Coherent, Config, Host, Id
  <1>2. \A e \in c.credentials : e.id \in Nat
    BY DEF Good, Coherent, Config, Credential, Id
  <1>3. Coherent(c, later)
    BY <1>1, <1>2, SMT DEF Good, Coherent
  <1> QED BY <1>3, Zenon DEF Good, Announced

\* The first entries of a name are entries of that name.
LEMMA FirstNamed == ASSUME NEW S, NEW n PROVE First(S, n) \subseteq Named(S, n)
  BY DEF First

\* A login a user may choose is that of a credential which its name finds.
LEMMA LoginsFirst ==
    ASSUME NEW c, NEW r \in Logins(c), r # None
    PROVE  \E e \in c.credentials : e.id = r /\ e \in First(c.credentials, e.name)
  <1>1. PICK n \in Name : \E e \in First(c.credentials, n) : e.id = r
    BY DEF Logins
  <1>2. PICK e \in First(c.credentials, n) : e.id = r
    BY <1>1
  <1>3. e \in c.credentials /\ e.name = n
    BY <1>2 DEF First, Named
  <1> QED BY <1>2, <1>3

\* What a config of hosts replaced is made of.
LEMMA WithHosts ==
    ASSUME NEW c \in Config, NEW S \in SUBSET Host
    PROVE  LET d == [c EXCEPT !.hosts = S]
           IN  d \in Config /\ d.hosts = S /\ d.credentials = c.credentials
  BY DEF Config

\* The same for credentials.
LEMMA WithCredentials ==
    ASSUME NEW c \in Config, NEW S \in SUBSET Credential
    PROVE  LET d == [c EXCEPT !.credentials = S]
           IN  d \in Config /\ d.hosts = c.hosts /\ d.credentials = S
  BY DEF Config

\* A login a host may be given: none, the one it had, or one that can be chosen.
Fit(c, h, ref) == ref = h.ref \/ ref \in Logins(c)

\* One host more, with a new id, a name nobody has, and a fit login.
LEMMA HostAdded ==
    ASSUME NEW c, NEW last \in Nat, NEW P, Good(c, last, P), last < MaxId,
           NEW S \in SUBSET c.hosts, NEW n \in Name, \A x \in S : x.name # n,
           NEW ref \in Id \cup {None},
           ref \in Logins(c) \/ \E h \in c.hosts : ref = h.ref
    PROVE  Good([c EXCEPT !.hosts = S \cup {[id |-> last + 1, name |-> n, ref |-> ref]}],
                last + 1, P)
  <1> DEFINE new == [id |-> last + 1, name |-> n, ref |-> ref]
             T == S \cup {new}
             d == [c EXCEPT !.hosts = T]
  <1>1. c \in Config /\ Coherent(c, last) /\ Announced(c, P) /\ MaxId \in Nat
    BY RegistryAssumption DEF Good, Coherent
  <1>2. new \in Host /\ T \in SUBSET Host
    BY <1>1 DEF Host, Id, Config
  <1>3. d \in Config /\ d.hosts = T /\ d.credentials = c.credentials
    BY <1>1, <1>2, WithHosts
  <1>4. ref # None => ref \in Nat /\ ref <= last
    BY <1>1, LoginsFirst DEF Coherent, Id, Config, Host, Credential
  <1>5. \A x \in S : x \in c.hosts /\ x.id \in Nat /\ x.id <= last
    BY <1>1 DEF Coherent, Config, Host, Id
  <1>6. \A h \in T : h.id <= last + 1 /\ (h.ref # None => h.ref <= last + 1)
    BY <1>1, <1>4, <1>5 DEF Coherent, Config, Host, Id
  <1>7. \A e \in c.credentials : e.id <= last + 1
    BY <1>1 DEF Coherent, Config, Credential, Id
  <1>8. Keyed(T) /\ DistinctNames(T)
    BY <1>1, <1>5 DEF Keyed, DistinctNames, Coherent
  <1>9. \A e \in c.credentials : ref = e.id => e \in First(c.credentials, e.name)
    <2>1. CASE ref \in Logins(c) /\ ref # None
      BY <2>1, <1>1, LoginsFirst DEF Coherent, Keyed
    <2>2. CASE \E h \in c.hosts : ref = h.ref
      BY <2>2, <1>1 DEF Coherent, RefsFirst
    <2>3. CASE ref = None
      BY <2>3, <1>1, RegistryAssumption DEF Config, Credential, Id
    <2> QED BY <2>1, <2>2, <2>3
  <1>10. RefsFirst(d)
    BY <1>1, <1>3, <1>9 DEF RefsFirst, Coherent
  <1>11. Announced(d, P)
    <2>1. ref # None /\ WithId(c.credentials, ref) = {} => ref \in P
      BY <1>1, LoginsFirst DEF Announced, WithId
    <2> QED BY <2>1, <1>1, <1>3 DEF Announced
  <1> QED BY <1>3, <1>6, <1>7, <1>8, <1>10, <1>11, <1>1 DEF Good, Coherent

\* Hosts fewer.
LEMMA HostsRemoved ==
    ASSUME NEW c, NEW last \in Nat, NEW P, Good(c, last, P), NEW S \in SUBSET c.hosts
    PROVE  Good([c EXCEPT !.hosts = S], last, P)
  <1> DEFINE d == [c EXCEPT !.hosts = S]
  <1>1. c \in Config /\ S \in SUBSET Host
    BY DEF Good, Coherent, Config
  <1>2. d \in Config /\ d.hosts = S /\ d.credentials = c.credentials
    BY <1>1, WithHosts
  <1>3. Coherent(d, last)
    BY <1>2 DEF Good, Coherent, Keyed, DistinctNames, RefsFirst
  <1>4. Announced(d, P)
    BY <1>2 DEF Good, Announced
  <1> QED BY <1>3, <1>4 DEF Good

\* A host in the place of its old self: a name nobody else has, a fit login.
LEMMA HostEdited ==
    ASSUME NEW c, NEW last \in Nat, NEW P, Good(c, last, P),
           NEW h \in c.hosts, NEW n \in Name, Free(c.hosts, h, n),
           NEW ref \in Id \cup {None}, Fit(c, h, ref)
    PROVE  Good([c EXCEPT !.hosts = Edited(c.hosts, h, [h EXCEPT !.name = n, !.ref = ref])],
                last, P)
  <1> DEFINE new == [h EXCEPT !.name = n, !.ref = ref]
             T == Edited(c.hosts, h, new)
             d == [c EXCEPT !.hosts = T]
  <1>1. c \in Config /\ Coherent(c, last) /\ Announced(c, P) /\ h \in Host
    BY DEF Good, Coherent, Config
  <1>2. new \in Host /\ new.id = h.id /\ new.name = n /\ new.ref = ref
    BY <1>1 DEF Host
  <1>3. \A x \in T : x = new \/ (x \in c.hosts /\ x.id # h.id)
    BY DEF Edited, WithId
  <1>4. T \in SUBSET Host
    BY <1>1, <1>2, <1>3 DEF Config
  <1>5. d \in Config /\ d.hosts = T /\ d.credentials = c.credentials
    BY <1>1, <1>4, WithHosts
  <1>6. ref # None => ref <= last
    BY <1>1, LoginsFirst DEF Coherent, Fit
  <1>7. \A x \in T : x.id <= last /\ (x.ref # None => x.ref <= last)
    BY <1>1, <1>2, <1>3, <1>6 DEF Coherent
  <1>8. Keyed(T)
    BY <1>1, <1>2, <1>3 DEF Keyed, Coherent
  <1>9. DistinctNames(T)
    <2>1. \A x \in c.hosts : x.id # h.id => x.name # n
      BY <1>1 DEF Free, Named, DistinctNames, Coherent
    <2> QED BY <2>1, <1>1, <1>2, <1>3 DEF DistinctNames, Coherent
  <1>10. \A e \in c.credentials : ref = e.id => e \in First(c.credentials, e.name)
    <2>1. CASE ref \in Logins(c) /\ ref # None
      BY <2>1, <1>1, LoginsFirst DEF Coherent, Keyed
    <2>2. CASE ref = h.ref
      BY <2>2, <1>1 DEF Coherent, RefsFirst
    <2>3. CASE ref = None
      BY <2>3, <1>1, RegistryAssumption DEF Config, Credential, Id
    <2> QED BY <2>1, <2>2, <2>3 DEF Fit
  <1>11. RefsFirst(d)
    BY <1>1, <1>2, <1>3, <1>5, <1>10 DEF RefsFirst, Coherent
  <1>12. Announced(d, P)
    <2>1. ref # None /\ WithId(c.credentials, ref) = {} => ref \in P
      BY <1>1, LoginsFirst DEF Announced, WithId, Fit
    <2> QED BY <2>1, <1>1, <1>2, <1>3, <1>5 DEF Announced
  <1> QED BY <1>1, <1>5, <1>7, <1>8, <1>9, <1>11, <1>12 DEF Good, Coherent

\* One credential more, with a new id: no reference is to it, and it hides none.
LEMMA CredentialAdded ==
    ASSUME NEW c, NEW last \in Nat, NEW P, Good(c, last, P), last < MaxId, NEW n \in Name
    PROVE  Good([c EXCEPT !.credentials = c.credentials \cup {[id |-> last + 1, name |-> n]}],
                last + 1, P)
  <1> DEFINE new == [id |-> last + 1, name |-> n]
             T == c.credentials \cup {new}
             d == [c EXCEPT !.credentials = T]
  <1>1. c \in Config /\ Coherent(c, last) /\ Announced(c, P) /\ MaxId \in Nat
    BY RegistryAssumption DEF Good, Coherent
  <1>2. new \in Credential /\ T \in SUBSET Credential
    BY <1>1 DEF Credential, Id, Config
  <1>3. d \in Config /\ d.hosts = c.hosts /\ d.credentials = T
    BY <1>1, <1>2, WithCredentials
  <1>4. \A h \in c.hosts : h.id <= last /\ (h.ref # None => h.ref \in Nat /\ h.ref <= last)
    BY <1>1 DEF Coherent, Config, Host, Id
  <1>5. \A e \in c.credentials : e.id \in Nat /\ e.id <= last
    BY <1>1 DEF Coherent, Config, Credential, Id
  <1>6. Keyed(T)
    BY <1>1, <1>5 DEF Keyed, Coherent
  <1>7. \A h \in c.hosts : h.ref # new.id
    <2> SUFFICES ASSUME NEW h \in c.hosts, h.ref = last + 1 PROVE FALSE
      OBVIOUS
    <2>1. CASE h.ref = None
      BY <2>1, RegistryAssumption
    <2>2. CASE h.ref # None
      BY <2>2, <1>4
    <2> QED BY <2>1, <2>2
  <1>8. \A e \in c.credentials : e \in First(c.credentials, e.name) => e \in First(T, e.name)
    BY <1>5 DEF First, Named
  <1>9. RefsFirst(d)
    BY <1>1, <1>3, <1>7, <1>8 DEF RefsFirst, Coherent
  <1>10. Announced(d, P)
    <2>1. \A r : WithId(c.credentials, r) \subseteq WithId(T, r)
      BY DEF WithId
    <2> HIDE DEF T
    <2> QED BY <2>1, <1>1, <1>3 DEF Announced
  <1>11. /\ \A x \in T : x.id <= last + 1
         /\ \A h \in c.hosts : h.id <= last + 1 /\ (h.ref # None => h.ref <= last + 1)
    BY <1>1, <1>4, <1>5 DEF Config, Host, Id
  <1> HIDE DEF d, T
  <1>12. Coherent(d, last + 1)
    BY <1>1, <1>3, <1>6, <1>9, <1>11 DEF Coherent
  <1>13. Good(d, last + 1, P)
    BY <1>10, <1>12 DEF Good
  <1> QED BY <1>13 DEF d, T

\* A credential in the place of its old self, first of its name, with a name
\* nobody else has: those it hid are referred to by nobody.
LEMMA CredentialEdited ==
    ASSUME NEW c, NEW last \in Nat, NEW P, Good(c, last, P),
           NEW e \in c.credentials, e \in First(c.credentials, e.name),
           NEW n \in Name, Free(c.credentials, e, n)
    PROVE  Good([c EXCEPT !.credentials = Edited(c.credentials, e, [e EXCEPT !.name = n])],
                last, P)
  <1> DEFINE new == [e EXCEPT !.name = n]
             T == Edited(c.credentials, e, new)
             d == [c EXCEPT !.credentials = T]
  <1>1. c \in Config /\ Coherent(c, last) /\ Announced(c, P) /\ e \in Credential
    BY DEF Good, Coherent, Config
  <1>2. new \in Credential /\ new.id = e.id /\ new.name = n
    BY <1>1 DEF Credential
  <1>3. \A x \in T : x = new \/ (x \in c.credentials /\ x.id # e.id)
    BY DEF Edited, WithId
  <1>4. new \in T /\ \A x \in c.credentials : x.id # e.id => x \in T
    BY DEF Edited, WithId
  <1> HIDE DEF new, T
  <1>5. T \in SUBSET Credential
    BY <1>1, <1>2, <1>3 DEF Config
  <1>6. d \in Config /\ d.hosts = c.hosts /\ d.credentials = T
    BY <1>1, <1>5, WithCredentials
  <1>7. Keyed(T) /\ \A x \in T : x.id <= last
    BY <1>1, <1>2, <1>3 DEF Keyed, Coherent
  <1>8. RefsFirst(d)
    <2> SUFFICES ASSUME NEW h \in c.hosts, NEW x \in T, h.ref = x.id
                 PROVE  x \in First(T, x.name)
      BY <1>6 DEF RefsFirst
    <2>1. \A y \in c.credentials : y.id # e.id /\ y.name = n => e.name = n
      BY DEF Free, Named
    <2>2. CASE x = new
      <3>1. \A y \in T : y.name = n => new.id <= y.id
        <4> SUFFICES ASSUME NEW y \in T, y.name = n, y # new PROVE e.id <= y.id
          BY <1>2, <1>7, <1>5 DEF Credential, Id
        <4>1. y \in c.credentials /\ e.name = n
          BY <1>3, <2>1
        <4> QED BY <4>1 DEF First, Named
      <3> QED BY <2>2, <3>1, <1>2, <1>4 DEF First, Named
    <2>3. CASE x # new
      <3>1. x \in c.credentials /\ x.id # e.id
        BY <2>3, <1>3
      <3>2. x \in First(c.credentials, x.name)
        BY <3>1, <1>1 DEF Coherent, RefsFirst
      <3>3. x.name = n => e.name = n
        BY <3>1, <2>1
      <3>4. x.name # n
        <4> SUFFICES ASSUME x.name = n PROVE FALSE
          OBVIOUS
        <4>1. e \in First(c.credentials, n) /\ x \in First(c.credentials, n)
          BY <3>2, <3>3
        <4>2. e.id <= x.id /\ x.id <= e.id
          BY <4>1 DEF First, Named
        <4> QED BY <4>2, <3>1, <1>1 DEF Config, Credential, Id
      <3>5. \A y \in T : y.name = x.name => x.id <= y.id
        BY <3>2, <3>4, <1>2, <1>3 DEF First, Named
      <3> QED BY <3>5 DEF First, Named
    <2> QED BY <2>2, <2>3
  <1>9. Announced(d, P)
    <2>1. \A r : WithId(T, r) = {} => WithId(c.credentials, r) = {}
      BY <1>2, <1>4 DEF WithId
    <2> QED BY <2>1, <1>1, <1>6 DEF Announced
  <1> HIDE DEF d
  <1>10. Good(d, last, P)
    BY <1>1, <1>6, <1>7, <1>8, <1>9 DEF Good, Coherent
  <1> QED BY <1>10 DEF d, T, new

\* The credentials of one name removed: of those only the first can have been
\* referred to, and if it was, it is in the new record.
LEMMA CredentialsRemoved ==
    ASSUME NEW c, NEW last \in Nat, NEW P, Good(c, last, P), NEW n,
           NEW Q, P \subseteq Q,
           \A e \in First(c.credentials, n) : Referrers(c, e.id) # {} => e.id \in Q
    PROVE  Good([c EXCEPT !.credentials = c.credentials \ Named(c.credentials, n)], last, Q)
  <1> DEFINE T == c.credentials \ Named(c.credentials, n)
             d == [c EXCEPT !.credentials = T]
  <1>1. c \in Config /\ Coherent(c, last) /\ Announced(c, P)
    BY DEF Good, Coherent
  <1>2. T \in SUBSET Credential /\ T \subseteq c.credentials
    BY <1>1 DEF Config
  <1>3. d \in Config /\ d.hosts = c.hosts /\ d.credentials = T
    BY <1>1, <1>2, WithCredentials
  <1>4. \A e \in c.credentials : e \notin T => e.name = n
    BY DEF Named
  <1>5. \A e \in T : e.name # n
    BY DEF Named
  <1> HIDE DEF T
  <1>6. Keyed(T) /\ \A e \in T : e.id <= last
    BY <1>1, <1>2 DEF Keyed, Coherent
  <1>7. RefsFirst(d)
    <2>1. \A e \in T : e \in First(c.credentials, e.name) => e \in First(T, e.name)
      BY <1>2 DEF First, Named
    <2> QED BY <2>1, <1>1, <1>2, <1>3 DEF RefsFirst, Coherent
  <1>8. Announced(d, Q)
    <2> SUFFICES ASSUME NEW h \in c.hosts, h.ref # None, WithId(T, h.ref) = {}
                 PROVE  h.ref \in Q
      BY <1>3 DEF Announced
    <2>1. CASE WithId(c.credentials, h.ref) = {}
      BY <2>1, <1>1 DEF Announced
    <2>2. CASE WithId(c.credentials, h.ref) # {}
      <3>1. PICK e \in c.credentials : e.id = h.ref
        BY <2>2 DEF WithId
      <3>2. e \notin T
        BY <3>1 DEF WithId
      <3>3. e \in First(c.credentials, n)
        BY <3>1, <3>2, <1>1, <1>4 DEF Coherent, RefsFirst
      <3>4. Referrers(c, e.id) # {}
        BY <3>1 DEF Referrers
      <3> QED BY <3>1, <3>3, <3>4
    <2> QED BY <2>1, <2>2
  <1> HIDE DEF d
  <1>9. Good(d, last, Q)
    BY <1>1, <1>3, <1>6, <1>7, <1>8 DEF Good, Coherent
  <1> QED BY <1>9 DEF d, T

\* What a form shows is a login a user could choose: the first credential of
\* the table is the first of its name.
LEMMA ShownChosen ==
    ASSUME NEW c \in Config, NEW h PROVE Shown(c, h) \subseteq Logins(c)
  <1> DEFINE table == c.credentials
             named == UNION {First(table, e.name) : e \in WithId(table, h.ref)}
             first == {e \in table : \A x \in table : e.id <= x.id}
  <1>1. \A e \in table : e.name \in Name
    BY DEF Config, Credential
  <1>2. \A e \in first : e \in First(table, e.name)
    BY DEF First, Named
  <1>3. \A e \in named : \E n \in Name : e \in First(table, n)
    BY <1>1 DEF WithId
  <1>4. \A e \in named \cup first : \E n \in Name : e \in First(table, n)
    BY <1>1, <1>2, <1>3
  <1>5. \A n \in Name : \A e \in First(table, n) : e.id \in Logins(c)
    BY DEF Logins
  <1>6. None \in Logins(c)
    BY DEF Logins
  <1>7. \A r \in Shown(c, h) : r = None \/ \E e \in named \cup first : e.id = r
    BY DEF Shown
  <1> QED BY <1>4, <1>5, <1>6, <1>7

\* Logins are ids, or none.
LEMMA LoginsIds == ASSUME NEW c \in Config PROVE Logins(c) \subseteq Id \cup {None}
  BY LoginsFirst DEF Config, Credential

-------------------------------------------------------------------------------
(* Steps.                                                                     *)

\* A process that stages a good config keeps every config good.
LEMMA StageKeeps ==
    ASSUME IInv, NEW p \in Procs, NEW c, Stage(p, c),
           lastId' \in 0..MaxId, lastId <= lastId', parted \subseteq parted', parted' \subseteq Id,
           Good(c, lastId', parted')
    PROVE  IInv'
  <1>1. TypeOK /\ lastId \in Nat /\ lastId' \in Nat
    BY RegistryAssumption DEF IInv, TypeOK
  <1>2. c \in Config
    BY DEF Good, Coherent
  <1>3. /\ file' = file /\ copy' = copy
        /\ pc[p] = "ready" /\ pc' = [pc EXCEPT ![p] = "saving"]
        /\ changes' = changes + 1 /\ changes < MaxChanges
        /\ next' = [next EXCEPT ![p] = c]
    BY DEF Stage
  <1>4. TypeOK'
    <2>1. /\ file' \in Config /\ copy' \in [Procs -> Config] /\ next' \in [Procs -> Config]
          /\ pc' \in [Procs -> {"idle", "ready", "saving", "saved"}]
      BY <1>1, <1>2, <1>3 DEF TypeOK
    <2>2. changes' \in 0..MaxChanges
      BY <1>1, <1>3, RegistryAssumption DEF TypeOK
    <2>3. \A q \in Procs : pc'[q] # "saving" => next'[q] = NoConfig
      BY <1>1, <1>3 DEF TypeOK
    <2> QED BY <2>1, <2>2, <2>3 DEF TypeOK
  <1>5. Good(file, lastId', parted') /\ \A q \in Procs : Good(copy[q], lastId', parted')
    BY <1>1, GoodLater DEF IInv
  <1>6. \A q \in Procs : Good(next'[q], lastId', parted')
    <2> TAKE q \in Procs
    <2>1. next'[q] = IF q = p THEN c ELSE next[q]
      BY <1>1, <1>3 DEF TypeOK
    <2> QED BY <2>1, <1>1, GoodLater DEF IInv
  <1> QED BY <1>3, <1>4, <1>5, <1>6 DEF IInv

\* What an id given out does to the bounds.
LEMMA IdGiven ==
    ASSUME IInv, NewId
    PROVE  /\ lastId \in Nat /\ lastId < MaxId
           /\ lastId' = lastId + 1 /\ lastId' \in 0..MaxId /\ lastId <= lastId'
  BY RegistryAssumption DEF IInv, TypeOK, NewId

\* In every config in memory, and in what the proofs below say of it.
LEMMA CopyGood ==
    ASSUME IInv, NEW p \in Procs
    PROVE  /\ Good(copy[p], lastId, parted) /\ copy[p] \in Config
           /\ lastId \in Nat /\ lastId \in 0..MaxId /\ lastId <= lastId /\ parted \subseteq Id
  BY RegistryAssumption DEF IInv, TypeOK

\* Adding a host.
LEMMA AddHostKeeps ==
    ASSUME IInv, NEW p \in Procs, NEW n \in Name, NEW ref \in Logins(copy[p]), NEW force,
           AddHost(p, n, ref, force)
    PROVE  IInv'
  <1> DEFINE S == Hosts(p) \ First(Hosts(p), n)
             T == S \cup {[id |-> lastId + 1, name |-> n, ref |-> ref]}
  <1>1. Good(copy[p], lastId, parted) /\ copy[p] \in Config /\ parted \subseteq Id
    BY CopyGood
  <1>2. \A x \in S : x.name # n
    <2> SUFFICES ASSUME NEW x \in Hosts(p), x.name = n PROVE x \in First(Hosts(p), n)
      OBVIOUS
    <2>1. \A y \in Named(Hosts(p), n) : y = x
      BY <1>1 DEF Good, Coherent, DistinctNames, Hosts, Named
    <2>2. x.id <= x.id
      BY <1>1 DEF Hosts, Config, Host, Id
    <2> QED BY <2>1, <2>2 DEF First, Named
  <1>3. ref \in Id \cup {None}
    BY <1>1, LoginsIds
  <1>4. NewId /\ parted' = parted /\ Stage(p, [copy[p] EXCEPT !.hosts = T])
    BY DEF AddHost, StageHosts
  <1>5. S \in SUBSET copy[p].hosts
    BY DEF Hosts
  <1>6. Good([copy[p] EXCEPT !.hosts = T], lastId + 1, parted)
    BY <1>1, <1>2, <1>3, <1>4, <1>5, IdGiven, HostAdded
  <1> QED BY <1>1, <1>4, <1>6, IdGiven, StageKeeps

\* Editing a host, its login kept or chosen.
LEMMA EditHostKeeps ==
    ASSUME IInv, NEW p \in Procs, NEW h \in Hosts(p), NEW n \in Name, NEW ref,
           Fit(copy[p], h, ref), EditHost(p, h, n, ref)
    PROVE  IInv'
  <1>1. /\ Good(copy[p], lastId, parted) /\ copy[p] \in Config /\ parted \subseteq Id
        /\ lastId \in 0..MaxId /\ lastId \in Nat /\ lastId <= lastId
    BY CopyGood
  <1>2. h \in copy[p].hosts /\ Free(copy[p].hosts, h, n)
    BY DEF EditHost, Hosts
  <1>3. ref \in Id \cup {None}
    BY <1>1, <1>2, LoginsIds DEF Fit, Config, Host
  <1>4. Good([copy[p] EXCEPT !.hosts =
                 Edited(copy[p].hosts, h, [h EXCEPT !.name = n, !.ref = ref])], lastId, parted)
    BY <1>1, <1>2, <1>3, HostEdited
  <1>5. /\ Stage(p, [copy[p] EXCEPT !.hosts =
                         Edited(copy[p].hosts, h, [h EXCEPT !.name = n, !.ref = ref])])
        /\ lastId' = lastId /\ parted' = parted
    BY DEF EditHost, StageHosts, Hosts
  <1> QED BY <1>1, <1>4, <1>5, StageKeeps

\* Removing hosts.
LEMMA RemoveHostKeeps ==
    ASSUME IInv, NEW p \in Procs, NEW n, RemoveHost(p, n)
    PROVE  IInv'
  <1> DEFINE S == Hosts(p) \ Named(Hosts(p), n)
  <1>1. /\ Good(copy[p], lastId, parted) /\ parted \subseteq Id
        /\ lastId \in 0..MaxId /\ lastId \in Nat /\ lastId <= lastId
    BY CopyGood
  <1>2. Good([copy[p] EXCEPT !.hosts = S], lastId, parted)
    BY <1>1, HostsRemoved DEF Hosts
  <1>3. Stage(p, [copy[p] EXCEPT !.hosts = S]) /\ lastId' = lastId /\ parted' = parted
    BY DEF RemoveHost, StageHosts
  <1> QED BY <1>1, <1>2, <1>3, StageKeeps

\* Copying a host: one more, with its login.
LEMMA CopyHostKeeps ==
    ASSUME IInv, NEW p \in Procs, NEW n, NEW dst \in Name, CopyHost(p, n, dst)
    PROVE  IInv'
  <1>1. Good(copy[p], lastId, parted) /\ copy[p] \in Config /\ parted \subseteq Id
    BY CopyGood
  <1>2. PICK h \in First(Hosts(p), n) :
            StageHosts(p, Hosts(p) \cup {[id |-> lastId + 1, name |-> dst, ref |-> h.ref]})
    BY DEF CopyHost
  <1> DEFINE T == copy[p].hosts \cup {[id |-> lastId + 1, name |-> dst, ref |-> h.ref]}
  <1>3. h \in copy[p].hosts /\ h \in Host
    BY <1>1 DEF First, Named, Hosts, Config
  <1>4. Stage(p, [copy[p] EXCEPT !.hosts = T]) /\ NewId /\ parted' = parted
    BY <1>2 DEF StageHosts, CopyHost, Hosts
  <1>5. \A x \in copy[p].hosts : x.name # dst
    BY DEF CopyHost, Named, Hosts
  <1>6. h.ref \in Id \cup {None}
    BY <1>3 DEF Host
  <1>7. Good([copy[p] EXCEPT !.hosts = T], lastId + 1, parted)
    <2>1. copy[p].hosts \in SUBSET copy[p].hosts
      OBVIOUS
    <2> QED BY <1>1, <1>3, <1>4, <1>5, <1>6, <2>1, IdGiven, HostAdded
  <1> QED BY <1>1, <1>4, <1>7, IdGiven, StageKeeps

\* A command's edit keeps the login, chooses one, or is no edit at all.
LEMMA HostStepKeeps == ASSUME IInv, NEW p \in Procs, HostStep(p) PROVE IInv'
  <1>1. copy[p] \in Config
    BY CopyGood
  <1>2. ASSUME NEW n \in Name, NEW ref \in Logins(copy[p]), NEW force \in BOOLEAN,
               AddHost(p, n, ref, force)
        PROVE  IInv'
    BY <1>2, AddHostKeeps
  <1>3. ASSUME NEW h \in Hosts(p), NEW n \in Name, NEW ref, CliEditHost(p, h, n, ref)
        PROVE  IInv'
    BY <1>3, EditHostKeeps DEF CliEditHost, Fit
  <1>4. ASSUME NEW h \in Hosts(p), NEW n \in Name, NEW ref, TuiEditHost(p, h, n, ref)
        PROVE  IInv'
    BY <1>4, EditHostKeeps DEF TuiEditHost, Fit
  <1>5. ASSUME NEW h \in Hosts(p), NEW n \in Name, TuiRenameHost(p, h, n)
        PROVE  IInv'
    <2>1. PICK ref \in Shown(copy[p], h) : EditHost(p, h, n, ref)
      BY <1>5 DEF TuiRenameHost
    <2> QED BY <2>1, <1>1, ShownChosen, EditHostKeeps DEF Fit
  <1> QED BY <1>2, <1>3, <1>4, <1>5, RemoveHostKeeps, CopyHostKeeps DEF HostStep

\* Adding a credential.
LEMMA AddCredentialKeeps ==
    ASSUME IInv, NEW p \in Procs, NEW n \in Name, NEW force, AddCredential(p, n, force)
    PROVE  IInv'
  <1> DEFINE T == copy[p].credentials \cup {[id |-> lastId + 1, name |-> n]}
  <1>1. Good(copy[p], lastId, parted) /\ parted \subseteq Id
    BY CopyGood
  <1>2. NewId /\ parted' = parted /\ Stage(p, [copy[p] EXCEPT !.credentials = T])
    BY DEF AddCredential, StageCredentials, Credentials
  <1>3. Good([copy[p] EXCEPT !.credentials = T], lastId + 1, parted)
    BY <1>1, <1>2, IdGiven, CredentialAdded
  <1> QED BY <1>1, <1>2, <1>3, IdGiven, StageKeeps

\* Editing a credential.
LEMMA EditCredentialKeeps ==
    ASSUME IInv, NEW p \in Procs, NEW n \in Name, NEW new \in Name, EditCredential(p, n, new)
    PROVE  IInv'
  <1>1. /\ Good(copy[p], lastId, parted) /\ parted \subseteq Id
        /\ lastId \in 0..MaxId /\ lastId \in Nat /\ lastId <= lastId
    BY CopyGood
  <1>2. PICK e \in First(Credentials(p), n) :
            /\ Free(Credentials(p), e, new)
            /\ StageCredentials(p, Edited(Credentials(p), e, [e EXCEPT !.name = new]))
    BY DEF EditCredential
  <1> DEFINE T == Edited(copy[p].credentials, e, [e EXCEPT !.name = new])
  <1>3. e \in copy[p].credentials /\ e \in First(copy[p].credentials, e.name)
    BY <1>2 DEF First, Named, Credentials
  <1>4. Good([copy[p] EXCEPT !.credentials = T], lastId, parted)
    BY <1>1, <1>2, <1>3, CredentialEdited DEF Credentials
  <1>5. Stage(p, [copy[p] EXCEPT !.credentials = T]) /\ lastId' = lastId /\ parted' = parted
    BY <1>2 DEF EditCredential, StageCredentials, Credentials
  <1> QED BY <1>1, <1>4, <1>5, StageKeeps

\* Removing credentials: of their ids, those referred to are recorded.
LEMMA RemoveCredentialKeeps ==
    ASSUME IInv, NEW p \in Procs, NEW n, RemoveCredential(p, n)
    PROVE  IInv'
  <1> DEFINE all == copy[p].credentials
             gone == Named(all, n)
             listed == IF p \in Tui THEN gone
                       ELSE {e \in First(all, n) : Referrers(copy[p], e.id) # {}}
             T == all \ gone
  <1>1. /\ Good(copy[p], lastId, parted) /\ copy[p] \in Config /\ parted \subseteq Id
        /\ lastId \in 0..MaxId /\ lastId \in Nat /\ lastId <= lastId
    BY CopyGood
  <1>2. /\ Stage(p, [copy[p] EXCEPT !.credentials = T])
        /\ parted' = parted \cup {e.id : e \in listed} /\ lastId' = lastId
    BY DEF RemoveCredential, StageCredentials, Credentials
  <1>3. listed \subseteq all
    BY DEF First, Named
  <1>4. \A e \in all : e.id \in Id
    BY <1>1 DEF Config, Credential
  <1>5. parted' \subseteq Id /\ parted \subseteq parted'
    BY <1>1, <1>2, <1>3, <1>4
  <1>6. \A e \in First(all, n) : Referrers(copy[p], e.id) # {} => e.id \in parted'
    BY <1>2, FirstNamed
  <1>7. Good([copy[p] EXCEPT !.credentials = T], lastId, parted')
    BY <1>1, <1>5, <1>6, CredentialsRemoved
  <1> QED BY <1>1, <1>2, <1>5, <1>7, StageKeeps

\* Steps that stage nothing move good configs between file, copy and next.
LEMMA MovesKeep ==
    ASSUME IInv, NEW p \in Procs,
           Load(p) \/ Leave(p) \/ Save(p) \/ SaveFails(p) \/ Reload(p) \/ ReloadFails(p)
    PROVE  IInv'
  <1>1. lastId' = lastId /\ parted' = parted /\ changes' = changes
    BY DEF Load, Leave, Save, SaveFails, Reload, ReloadFails
  <1>2. /\ file' \in {file, next[p]}
        /\ \E c \in {file, copy[p], NoConfig} : copy' = [copy EXCEPT ![p] = c]
        /\ \E c \in {next[p], NoConfig} : next' = [next EXCEPT ![p] = c]
        /\ \E l \in {"idle", "ready", "saved"} : pc' = [pc EXCEPT ![p] = l]
    <2>1. /\ copy \in [Procs -> Config] /\ next \in [Procs -> Config]
          /\ copy = [copy EXCEPT ![p] = copy[p]] /\ next = [next EXCEPT ![p] = next[p]]
      BY DEF IInv, TypeOK
    <2>2. CASE Load(p) \/ Leave(p) \/ Reload(p) \/ ReloadFails(p)
      BY <2>1, <2>2 DEF Load, Leave, Reload, ReloadFails
    <2>3. CASE Save(p) \/ SaveFails(p)
      BY <2>1, <2>3 DEF Save, SaveFails
    <2> QED BY <2>2, <2>3
  <1>3. pc'[p] # "saving" /\ next'[p] = NoConfig
    <2>1. CASE Load(p) \/ Leave(p) \/ Reload(p) \/ ReloadFails(p)
      BY <2>1 DEF Load, Leave, Reload, ReloadFails, IInv, TypeOK
    <2>2. CASE Save(p) \/ SaveFails(p)
      BY <2>2 DEF Save, SaveFails, IInv, TypeOK
    <2> QED BY <2>1, <2>2
  <1>4. \A q \in Procs : q # p => pc'[q] = pc[q] /\ next'[q] = next[q] /\ copy'[q] = copy[q]
    BY <1>2 DEF IInv, TypeOK
  <1>5. NoConfig \in Config /\ Good(NoConfig, lastId, parted)
    BY GoodEmpty DEF NoConfig, Config
  <1>6. copy'[p] \in {file, copy[p], NoConfig}
    BY <1>2 DEF IInv, TypeOK
  <1>7. TypeOK'
    <2>1. /\ file' \in Config /\ copy' \in [Procs -> Config] /\ next' \in [Procs -> Config]
          /\ pc' \in [Procs -> {"idle", "ready", "saving", "saved"}]
      BY <1>2, <1>5 DEF IInv, TypeOK
    <2>2. \A q \in Procs : pc'[q] # "saving" => next'[q] = NoConfig
      BY <1>3, <1>4 DEF IInv, TypeOK
    <2> QED BY <1>1, <2>1, <2>2 DEF IInv, TypeOK
  <1>8. Good(file', lastId, parted)
    BY <1>2 DEF IInv
  <1>9. \A q \in Procs : Good(copy'[q], lastId, parted) /\ Good(next'[q], lastId, parted)
    BY <1>3, <1>4, <1>5, <1>6 DEF IInv
  <1> QED BY <1>1, <1>7, <1>8, <1>9 DEF IInv

\* Every config, in every reachable state, is a good one.
THEOREM Invariant == Spec => []IInv
  <1>1. Init => IInv
    <2> SUFFICES ASSUME Init PROVE IInv
      OBVIOUS
    <2>1. TypeOK
      BY RegistryAssumption DEF Init, TypeOK, NoConfig, Config
    <2>2. Good(file, lastId, parted)
      BY GoodEmpty DEF Init
    <2>3. \A p \in Procs : Good(copy[p], lastId, parted) /\ Good(next[p], lastId, parted)
      BY GoodEmpty DEF Init
    <2> QED BY <2>1, <2>2, <2>3 DEF IInv
  <1>2. IInv /\ [Next]_vars => IInv'
    <2> SUFFICES ASSUME IInv, [Next]_vars PROVE IInv'
      OBVIOUS
    <2>1. CASE UNCHANGED vars
      <3>1. /\ file' = file /\ copy' = copy /\ next' = next /\ pc' = pc
            /\ lastId' = lastId /\ changes' = changes /\ parted' = parted
        BY <2>1 DEF vars
      <3>2. TypeOK'
        BY <3>1 DEF IInv, TypeOK
      <3> QED BY <3>1, <3>2 DEF IInv
    <2>2. ASSUME NEW p \in Procs, CredentialStep(p) PROVE IInv'
      BY <2>2, AddCredentialKeeps, EditCredentialKeeps, RemoveCredentialKeeps
         DEF CredentialStep
    <2> QED BY <2>1, <2>2, MovesKeep, HostStepKeeps DEF Next
  <1> QED BY <1>1, <1>2, PTL DEF Spec

\* Every variable holds what it should, whatever the processes race over.
THEOREM TypesHold == Spec => []TypeOK
  BY Invariant, PTL DEF IInv

\* No two hosts of config.toml ever have one name, whatever the processes race
\* over and whichever of them saves last.
THEOREM HostNamesStayDistinct == Spec => []HostNamesDistinct
  <1>1. IInv => HostNamesDistinct
    BY DEF IInv, Good, Coherent, HostNamesDistinct
  <1> QED BY <1>1, Invariant, PTL

\* No host ever refers to a credential that another of its name hides.
THEOREM ReferencesFindThemselves == Spec => []RefFindsItself
  <1>1. IInv => RefFindsItself
    BY DEF IInv, Good, Coherent, RefFindsItself
  <1> QED BY <1>1, Invariant, PTL

\* A reference that dangles is to a credential whose removal listed the hosts
\* it would leave without a login, or was a TUI's.
THEOREM DanglingIsAnnounced == Spec => []DanglingAnnounced
  <1>1. IInv => DanglingAnnounced
    BY DEF IInv, Good, DanglingAnnounced
  <1> QED BY <1>1, Invariant, PTL

\* What a form shows for a reference that does not dangle is that reference:
\* the name it goes through is one that finds its credential.
LEMMA ShownIsRef ==
    ASSUME NEW c, NEW last, NEW P, Good(c, last, P), NEW h \in c.hosts,
           WithId(c.credentials, h.ref) # {}
    PROVE  Shown(c, h) = {h.ref}
  <1> DEFINE table == c.credentials
             named == UNION {First(table, e.name) : e \in WithId(table, h.ref)}
  <1>1. c \in Config /\ Keyed(table) /\ RefsFirst(c)
    BY DEF Good, Coherent
  <1>2. PICK e \in table : e.id = h.ref
    BY DEF WithId
  <1>3. h.ref # None /\ table # {}
    BY <1>1, <1>2, RegistryAssumption DEF Config, Credential, Id
  <1>4. WithId(table, h.ref) = {e}
    BY <1>1, <1>2 DEF WithId, Keyed
  <1>5. e \in First(table, e.name)
    BY <1>1, <1>2 DEF RefsFirst
  <1>6. \A x \in First(table, e.name) : x = e
    <2> SUFFICES ASSUME NEW x \in First(table, e.name) PROVE x.id = e.id
      BY <1>1 DEF Keyed, First, Named
    <2>1. x \in table /\ x.id <= e.id /\ e.id <= x.id
      BY <1>5 DEF First, Named
    <2> QED BY <2>1, <1>1 DEF Config, Credential, Id
  <1>7. First(table, e.name) = {e}
    BY <1>5, <1>6
  <1>8. named = {e}
    BY <1>4, <1>7
  <1>9. Shown(c, h) = {x.id : x \in named}
    <2>1. named # {}
      BY <1>8
    <2> QED BY <2>1, <1>3, Zenon DEF Shown
  <1> QED BY <1>2, <1>8, <1>9

\* A host renamed in a form keeps a login that is there.
THEOREM LoginsAreKept == Spec => LoginKept
  <1> DEFINE Kept == \A p \in Procs : \A h \in Hosts(p), n \in Name :
                         /\ TuiRenameHost(p, h, n)
                         /\ WithId(Credentials(p), h.ref) # {}
                         => \A g \in next'[p].hosts : g.id = h.id => g.ref = h.ref
  <1>1. IInv => Kept
    <2> SUFFICES ASSUME IInv, NEW p \in Procs, NEW h \in Hosts(p), NEW n \in Name,
                        TuiRenameHost(p, h, n), WithId(Credentials(p), h.ref) # {},
                        NEW g \in next'[p].hosts, g.id = h.id
                 PROVE  g.ref = h.ref
      OBVIOUS
    <2>1. Good(copy[p], lastId, parted) /\ copy[p] \in Config
      BY CopyGood
    <2>2. h \in copy[p].hosts /\ WithId(copy[p].credentials, h.ref) # {}
      BY DEF Hosts, Credentials
    <2>3. Shown(copy[p], h) = {h.ref}
      BY <2>1, <2>2, ShownIsRef
    <2>4. EditHost(p, h, n, h.ref)
      BY <2>3 DEF TuiRenameHost
    <2> DEFINE new == [h EXCEPT !.name = n, !.ref = h.ref]
               T == Edited(copy[p].hosts, h, new)
    <2>5. next' = [next EXCEPT ![p] = [copy[p] EXCEPT !.hosts = T]]
      BY <2>4 DEF EditHost, StageHosts, Stage, Hosts
    <2>6. h \in Host /\ new \in Host /\ new.ref = h.ref
      BY <2>1, <2>2 DEF Config, Host
    <2>7. \A x \in T : x = new \/ (x \in copy[p].hosts /\ x.id # h.id)
      BY DEF Edited, WithId
    <2>8. T \in SUBSET Host
      BY <2>1, <2>6, <2>7 DEF Config
    <2>9. next'[p].hosts = T
      BY <2>1, <2>5, <2>8, WithHosts DEF IInv, TypeOK
    <2> QED BY <2>6, <2>7, <2>9
  <1>2. IInv /\ [Next]_vars => [Kept]_vars
    BY <1>1
  <1> QED BY <1>2, Invariant, PTL DEF Spec, LoginKept
===============================================================================
