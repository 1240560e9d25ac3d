--------------------------- MODULE ConsentContract ---------------------------
(***************************************************************************)
(* What the preflight gate promises, with none of its mechanism.  A plan   *)
(* is locked once.  If it was locked behind a confirmation it waits until  *)
(* the operator clears it; work starts only on a cleared plan and at most  *)
(* once; a plan that has not started may lapse, and then it never starts.  *)
(***************************************************************************)
CONSTANT Plan        \* plan identifiers

VARIABLE phase       \* phase[p]: where plan p is in its life

Phase == {"unlocked", "waiting", "cleared", "worked", "lapsed"}

Init == phase = [p \in Plan |-> "unlocked"]

Lock(p) == /\ phase[p] = "unlocked"
           /\ \E first \in {"waiting", "cleared"} : phase' = [phase EXCEPT ![p] = first]

\* Plans that have not started may lapse, several at a time.
MayLapse(S) == \A p \in S : phase[p] \in {"waiting", "cleared"}

Lapse(S) == /\ MayLapse(S)
            /\ phase' = [p \in Plan |-> IF p \in S THEN "lapsed" ELSE phase[p]]

\* One call may notice that the plans of S have lapsed and move plan q on.
Advance(q, from, to, S) ==
    /\ MayLapse(S)
    /\ q \notin S /\ phase[q] = from
    /\ phase' = [p \in Plan |-> IF p \in S THEN "lapsed" ELSE IF p = q THEN to ELSE phase[p]]

Clear(p, S) == Advance(p, "waiting", "cleared", S)
Work(p, S)  == Advance(p, "cleared", "worked", S)

Next == \/ \E p \in Plan : Lock(p)
        \/ \E S \in SUBSET Plan :
              Lapse(S) \/ \E p \in Plan : Clear(p, S) \/ Work(p, S)

Spec == Init /\ [][Next]_phase
==============================================================================
