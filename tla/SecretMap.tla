------------------------------- MODULE SecretMap -------------------------------
(***************************************************************************)
(* What the secret store promises its user: each owner holds a text in     *)
(* each of its slots, and a text changes only for an owner the user is     *)
(* changing, into what the user asked for.  Modes, keys, files and         *)
(* keyrings are nowhere to be seen: a mode switch or a rekey changes       *)
(* nothing.  An edit that is cut short may leave some slots changed and    *)
(* others not, but never a third value.                                    *)
(*                                                                         *)
(* With one exception.  Certificates that an owner held or was asked to    *)
(* hold may stay around (`left'), and where there is no certificate, or    *)
(* none is asked for, one of that owner's may come back.                   *)
(***************************************************************************)
CONSTANTS Owners, Slots, Texts,
          None,     \* the text of an empty slot
          Cert      \* the slot of certificates

VARIABLES held,     \* [Owners -> [Slots -> Texts]]: what a connection would get
          left,     \* [Owners -> SUBSET Texts]: the certificates around
          asks      \* the edit under way: what the owners concerned shall hold

mvars == <<held, left, asks>>

NoAsks == [o \in {} |-> {}]

MTypeOK ==
    /\ held \in [Owners -> [Slots -> Texts]]
    /\ left \in [Owners -> SUBSET Texts]
    /\ asks \in UNION {[S -> [Slots -> Texts]] : S \in SUBSET Owners}

MInit ==
    /\ held \in [Owners -> [Slots -> Texts]]
    /\ \A o \in Owners : left[o] \subseteq {held[o][Cert]}
    /\ asks = NoAsks

\* A certificate comes back where one is missing among what may be there.
Back(o, s, may) == IF s = Cert /\ None \in may THEN left[o] ELSE {}

\* Every slot holds what it held, or what `wanted` asks of it.
Toward(wanted) ==
    \A o \in Owners, s \in Slots :
        LET may == {held[o][s]} \cup {wanted[q][s] : q \in {o} \cap DOMAIN wanted}
        IN  held'[o][s] \in may \cup Back(o, s, may)

\* What stays around was around, or was the owner's.
Leaves(wanted) ==
    \A o \in Owners :
        left'[o] \subseteq left[o] \cup {held[o][Cert]}
                           \cup {wanted[q][Cert] : q \in {o} \cap DOMAIN wanted}

\* The user asks for a change; some of it may be there at once.
Ask == asks = NoAsks /\ asks' # NoAsks /\ Toward(asks') /\ Leaves(asks')

\* The change is made, or given up half way.
Settle == asks # NoAsks /\ asks' = NoAsks /\ Toward(asks) /\ Leaves(asks)

\* Nothing is asked for: at most a certificate comes back.
Rest == asks = NoAsks /\ asks' = NoAsks /\ Toward(NoAsks) /\ Leaves(NoAsks)

MNext == Ask \/ Settle \/ Rest

MSpec == MInit /\ [][MNext]_mvars
===============================================================================
