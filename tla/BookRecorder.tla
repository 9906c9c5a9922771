----------------------------- MODULE BookRecorder -----------------------------
(***************************************************************************)
(* What the collector promises of book_snapshots, without threads, buffers *)
(* or filters: books are observed one after the other, and an observed     *)
(* book is stored, once and in the order of observation, or given up.  A   *)
(* book that was given up never comes back, and a row is never removed.    *)
(***************************************************************************)
EXTENDS Integers

CONSTANT NoStamp     \* a snapshot without an API timestamp

VARIABLES
    observed,        \* number of books observed so far
    held,            \* snapshots whose fate is open
    stored           \* rows of book_snapshots

recorderVars == <<observed, held, stored>>

Init == observed = 0 /\ held = {} /\ stored = {}

(* A response brings one or more books, numbered after the earlier ones. *)
Observe ==
    /\ observed' > observed
    /\ held \subseteq held'
    /\ {s.id : s \in held' \ held} = (observed + 1)..observed'
    /\ UNCHANGED stored

(* Some held snapshots are stored, others are given up. *)
Release ==
    LET new == stored' \ stored IN
    /\ held' \subseteq held
    /\ stored \subseteq stored'
    /\ new \subseteq held \ held'
    /\ \A r \in new, q \in stored : q.id < r.id
    /\ \A r \in new, q \in stored' :
          q # r /\ q.token = r.token => q.stamp # r.stamp \/ r.stamp = NoStamp
    /\ UNCHANGED observed

Next == Observe \/ Release

Spec == Init /\ [][Next]_recorderVars
=============================================================================
