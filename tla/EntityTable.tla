---------------------------- MODULE EntityTable ----------------------------
(***************************************************************************)
(* What the discovery state machine promises the program that hands it      *)
(* notices: a table of entities, true as of some instant.  An entity enters *)
(* the table, or stays in it for longer, because of an announcement that    *)
(* has not been acted on before, and leaves it because its time is up or    *)
(* because of such a departure.  What is recorded or removed is the entity  *)
(* of the notice given last: that notice, or another after it.  The instant *)
(* never moves on while the table holds an entity whose time is up.  No     *)
(* flag, event or thread is part of it.                                     *)
(***************************************************************************)
EXTENDS Naturals, Sequences

VARIABLES
    table,   \* entity id -> the instant its announcement expires
    asof,    \* the instant the table is true of
    heard,   \* the notices given so far, as [kind, info]
    acted    \* kind -> the last notice of that kind that was acted on

vars == << table, asof, heard, acted >>

Init ==
    /\ table = << >>
    /\ asof = 0
    /\ heard = << >>
    /\ acted = [kind \in {"available", "departing"} |-> 0]

Hear ==
    /\ Len(heard') = Len(heard) + 1
    /\ heard = SubSeq(heard', 1, Len(heard))
    /\ UNCHANGED << table, asof, acted >>

\* A notice is acted on once, and none after one that was given later.
ActOn(kind) ==
    /\ \E i \in acted[kind] + 1 .. Len(heard) :
         heard[i].kind = kind /\ acted' = [acted EXCEPT ![kind] = i]
    /\ UNCHANGED << asof, heard >>

Latest == heard[Len(heard)].info

\* An id of zero is no entity.
Learn ==
    /\ ActOn("available")
    /\ table' = IF Latest.id = 0 THEN table
                ELSE [ id \in DOMAIN table \cup {Latest.id} |->
                         IF id = Latest.id THEN asof + Latest.valid ELSE table[id] ]

Remove(id) == table' = [ k \in DOMAIN table \ {id} |-> table[k] ]

Dismiss == ActOn("departing") /\ Remove(Latest.id)

Expire(id) ==
    /\ table[id] <= asof
    /\ Remove(id)
    /\ UNCHANGED << asof, heard, acted >>

MoveOn(t) ==
    /\ t >= asof
    /\ \A id \in DOMAIN table : table[id] > asof
    /\ asof' = t
    /\ UNCHANGED << table, heard, acted >>

Next ==
    \/ Hear
    \/ Learn
    \/ Dismiss
    \/ \E id \in DOMAIN table : Expire(id)
    \/ MoveOn(asof')

Spec == Init /\ [][Next]_vars
=============================================================================
