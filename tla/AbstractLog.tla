----------------------------- MODULE AbstractLog -----------------------------
(***************************************************************************)
(* What a storage node promises about the logspaces it holds (spec.md 4.3  *)
(* and 8), with no memory ring, backend, locks or messages: a record is    *)
(* stored at most once per position and never changes or disappears        *)
(* afterwards ("seqnum immutability"); the confirmed position only grows   *)
(* and covers only stored records; a sealed logspace takes no new record.  *)
(***************************************************************************)
EXTENDS Naturals

CONSTANTS Logs, Positions, Payloads, None

VARIABLES
    recs,       \* recs[l][s]: the record at position s of logspace l
    conf,       \* conf[l]: the position metalogs have confirmed
    closed      \* the sealed logspaces

vars == <<recs, conf, closed>>

Init ==
    /\ recs = [l \in Logs |-> [s \in Positions |-> None]]
    /\ conf = [l \in Logs |-> 0]
    /\ closed = {}

StoredUpTo(l, pos) == \A s \in Positions : s <= pos => recs[l][s] # None

Store(l, s, p) ==
    /\ l \notin closed /\ recs[l][s] = None
    /\ recs' = [recs EXCEPT ![l][s] = p]
    /\ UNCHANGED <<conf, closed>>

Confirm(l, pos) ==
    /\ pos > conf[l] /\ StoredUpTo(l, pos)
    /\ conf' = [conf EXCEPT ![l] = pos]
    /\ UNCHANGED <<recs, closed>>

\* Finalization: confirm up to the final position and seal, in one step.
Seal(l, pos) ==
    /\ l \notin closed /\ StoredUpTo(l, pos)
    /\ conf' = [conf EXCEPT ![l] = IF pos > @ THEN pos ELSE @]
    /\ closed' = closed \cup {l}
    /\ UNCHANGED recs

Next ==
    \E l \in Logs :
        \/ \E s \in Positions, p \in Payloads : Store(l, s, p)
        \/ \E pos \in Positions : Confirm(l, pos)
        \/ \E pos \in {0} \cup Positions : Seal(l, pos)

Spec == Init /\ [][Next]_vars

====
