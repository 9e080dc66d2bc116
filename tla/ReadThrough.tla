----------------------------- MODULE ReadThrough -----------------------------
(***************************************************************************)
(* What a route file promises with its entries in Redis: a cache that is   *)
(* filled, replaced and emptied in the same step as the data it stands     *)
(* for, and read in one step, when the request comes in. There is no queue *)
(* of commands here and no Redis that lags behind.                         *)
(***************************************************************************)
CONSTANTS
    Key, Value, Req, None,
    Bypassed    \* keys that writes of another key may leave behind

VARIABLES
    truth,   \* what each key stands for; None when it stands for nothing
    entry,   \* what the cache holds for each key, or None
    call,    \* the key each request reads, and what it was given: None is a miss
    lost     \* keys given up: the process died, or a write left them behind

Idle == [key |-> None, val |-> None]

Current(k) == entry[k] \in {None, truth[k]}

\* A read sees the cache at the moment of the request.
Read(r, k) ==
    /\ call[r] = Idle
    /\ call' = [call EXCEPT ![r] = [key |-> k, val |-> entry[k]]]
    /\ UNCHANGED <<truth, entry, lost>>

\* The end of a read: after a miss the key is filled, if it stands for anything.
Answer(r) ==
    /\ call[r] # Idle
    /\ LET k == call[r].key IN
        entry' = IF call[r].val = None /\ truth[k] # None
                 THEN [entry EXCEPT ![k] = truth[k]]
                 ELSE entry
    /\ call' = [call EXCEPT ![r] = Idle]
    /\ UNCHANGED <<truth, lost>>

\* A write: whatever changes is emptied or replaced in the same step, unless it
\* is gone. That repairs a lost key too.
Write ==
    /\ UNCHANGED call
    /\ truth' \in [Key -> Value \cup {None}]
    /\ entry' \in [Key -> Value \cup {None}]
    /\ \A k \in Key :
        \/ Current(k)'
        \/ entry'[k] = entry[k] /\ truth'[k] \in {truth[k], None}
    /\ lost' \subseteq lost
    /\ \A k \in lost \ lost' : Current(k)'

\* A write that changes what f stands for as well, and does nothing about its entry.
Bypass(f) ==
    /\ UNCHANGED call
    /\ truth' \in [Key -> Value \cup {None}]
    /\ entry' \in [Key -> Value \cup {None}]
    /\ entry'[f] = entry[f]
    /\ \A k \in Key \ {f} :
        \/ Current(k)'
        \/ entry'[k] = entry[k] /\ truth'[k] = truth[k]
    /\ f \in lost' /\ lost' \subseteq lost \cup {f}
    /\ \A k \in lost \ lost' : Current(k)'

\* The process dies with the reads in flight; keys it was writing are lost, the
\* others keep their entries.
Die ==
    /\ lost \subseteq lost' /\ lost' \subseteq Key
    /\ entry' \in [Key -> Value \cup {None}]
    /\ \A k \in Key \ lost' : entry'[k] = entry[k]
    /\ call' = [r \in Req |-> Idle]
    /\ UNCHANGED truth

Init ==
    /\ truth \in [Key -> Value \cup {None}]
    /\ entry = [k \in Key |-> None]
    /\ call = [r \in Req |-> Idle]
    /\ lost = {}

Next ==
    \/ Write
    \/ \E f \in Bypassed : Bypass(f)
    \/ \E r \in Req : Answer(r) \/ \E k \in Key : Read(r, k)
    \/ Die

Spec == Init /\ [][Next]_<<truth, entry, call, lost>>

-----------------------------------------------------------------------------

\* A key that stands for something and is not lost is absent or current.
Coherent == \A k \in Key \ lost : truth[k] # None => Current(k)
=============================================================================
