-------------------------------- MODULE History --------------------------------
(***************************************************************************)
(* What Git Editor promises its user: a level has versions, one of which   *)
(* is current.  A version can be recorded, checked out and, by a squash    *)
(* that selected it or with its whole level, removed; nothing else changes *)
(* what a version holds, whatever else is in progress.                     *)
(***************************************************************************)
CONSTANTS
    Level,
    State,       \* contents of a level
    NoState

VARIABLES
    current,     \* level -> the state that HEAD stands for, NoState if there is none
    versions,    \* level -> the states that can be had back
    prepared     \* checkouts and squashes that were begun: the state that they promise, and the
                 \* versions that may be lost

historyVars == <<current, versions, prepared>>

Promise == [level : Level, state : State, gone : SUBSET State]

HistoryInit ==
    /\ current = [k \in Level |-> NoState]
    /\ versions = [k \in Level |-> {}]
    /\ prepared = {}

\* A commit, a revert, an import.
Record(k, s) ==
    /\ current' = [current EXCEPT ![k] = s]
    /\ versions' = [versions EXCEPT ![k] = @ \cup {s}]
    /\ UNCHANGED prepared

\* A checkout promises one of the versions, a squash the newest of those that it combines.
PrepareCheckout(k) ==
    /\ \E s \in versions[k] : prepared' = prepared \cup {[level |-> k, state |-> s, gone |-> {}]}
    /\ UNCHANGED <<current, versions>>

PrepareSquash(k) ==
    /\ \E gone \in SUBSET versions[k] : \E s \in gone :
        prepared' = prepared \cup {[level |-> k, state |-> s, gone |-> gone]}
    /\ UNCHANGED <<current, versions>>

\* Promises that are equal are one; those that are not kept may be forgotten at any time.
Forget == prepared' \subseteq prepared

Checkout(p) ==
    /\ p.gone = {}
    /\ current' = [current EXCEPT ![p.level] = p.state]
    /\ versions' = [versions EXCEPT ![p.level] = @ \cup {p.state}]
    /\ Forget

Squash(p) ==
    /\ p.gone # {}
    /\ UNCHANGED current
    /\ \E lost \in SUBSET p.gone :
        versions' = [versions EXCEPT ![p.level] = (@ \ lost) \cup {p.state}]
    /\ Forget

Load(dest, src) ==
    /\ current' = [current EXCEPT ![dest] = current[src]]
    /\ versions' = [versions EXCEPT ![dest] = versions[src]]
    /\ Forget

Delete(k) ==
    /\ current' = [current EXCEPT ![k] = NoState]
    /\ versions' = [versions EXCEPT ![k] = {}]
    /\ UNCHANGED prepared

HistoryNext ==
    \/ \E k \in Level :
        \/ \E s \in State : Record(k, s)
        \/ PrepareCheckout(k) \/ PrepareSquash(k) \/ Delete(k)
        \/ \E src \in Level : Load(k, src)
    \/ \E p \in prepared : Checkout(p) \/ Squash(p)
    \/ Forget /\ UNCHANGED <<current, versions>>

HistorySpec == HistoryInit /\ [][HistoryNext]_historyVars
===============================================================================
