-------------------------------- MODULE Rites --------------------------------
(***************************************************************************)
(* rite_pipeline.py and what it calls: processes that try, for a commit, a *)
(* recurring job in a worktree of its own, and remember in a state file    *)
(* which commit was tried last.                                            *)
(***************************************************************************)
EXTENDS Naturals, Sequences

CONSTANTS
    Runner,    \* processes that call run_rite
    Commit,
    NoCommit,
    Unreadable,  \* a state file that is no JSON
    MaxTries   \* bound: rites begun

ASSUME RitesAssumption == {NoCommit, Unreadable} \cap Commit = {} /\ MaxTries \in Nat

\* What must be configured and verified, in the order it is asked for.
Gates == <<"agent_runner", "kernel", "attestation", "policy", "evidence", "collection", "image">>

VARIABLES
    rite,      \* where each process is: "idle", "gated", "tree", "candidate", "leaving", "record"
    commit,    \* the commit it tries
    last,      \* last_sha of the state file
    failures,  \* consecutive_failures of the state file
    read,      \* consecutive_failures as a process read it, to write one more
    raced,     \* processes whose temporary state file another one has opened or renamed
    tree,      \* processes whose worktree exists
    evidence,  \* commits evidence was collected for
    dropped,   \* history: processes that died with a worktree, or could not remove it
    begun      \* bound

ritesVars == <<rite, commit, last, failures, read, raced, tree, evidence, dropped, begun>>

Places == {"idle", "gated", "tree", "candidate", "leaving", "record", "replace"}

RitesTypeOK ==
    /\ rite \in [Runner -> Places]
    /\ commit \in [Runner -> Commit \cup {NoCommit}]
    /\ last \in Commit \cup {NoCommit, Unreadable}
    /\ failures \in Nat /\ read \in [Runner -> Nat]
    /\ raced \subseteq Runner /\ tree \subseteq Runner /\ dropped \subseteq Runner /\ evidence \subseteq Commit
    /\ begun \in 0..MaxTries

RitesInit ==
    /\ rite = [p \in Runner |-> "idle"]
    /\ commit = [p \in Runner |-> NoCommit]
    /\ last = NoCommit /\ failures = 0
    /\ read = [p \in Runner |-> 0]
    /\ raced = {} /\ tree = {} /\ dropped = {} /\ evidence = {}
    /\ begun = 0

At(p, where) == rite' = [rite EXCEPT ![p] = where]
Store == <<last, failures, read, raced>>

\* The preflight: a commit that was tried last is skipped, and without a readable state nothing
\* begins.
Begin(p, c) ==
    /\ rite[p] = "idle" /\ p \notin dropped /\ begun < MaxTries
    /\ last \notin {c, Unreadable}
    /\ At(p, "gated")
    /\ commit' = [commit EXCEPT ![p] = c]
    /\ begun' = begun + 1
    /\ UNCHANGED <<Store, tree, evidence, dropped>>

\* The gates are asked in order and the first that is shut ends the rite, unrecorded.  Evidence
\* is given, or collected once the gates before it are passed.
PassGates(p, shut) ==
    /\ rite[p] = "gated"
    /\ LET open == {i \in DOMAIN Gates : \A j \in 1..i : Gates[j] \notin shut} IN
       /\ evidence' \in IF \E i \in open : Gates[i] = "collection"
                        THEN {evidence, evidence \cup {commit[p]}} ELSE {evidence}
       /\ At(p, IF open = DOMAIN Gates THEN "tree" ELSE "idle")
    /\ UNCHANGED <<commit, Store, tree, dropped, begun>>

\* git worktree add; one that fails may leave a directory behind.
AddTree(p) ==
    /\ rite[p] = "tree"
    /\ \E where \in {"candidate", "leaving"} : At(p, where)
    /\ tree' \in {tree, tree \cup {p}}
    /\ rite'[p] = "candidate" => p \in tree'
    /\ UNCHANGED <<commit, Store, evidence, dropped, begun>>

\* Mutant of Judge: an agent that raises is not followed by the removal.
JudgeQuick(p) ==
    /\ rite[p] = "candidate"
    /\ \E where \in {"leaving", "record"} : At(p, where)
    /\ UNCHANGED <<commit, Store, tree, evidence, dropped, begun>>

\* The agent raises, or its candidate is verified and judged; nothing is promoted either way.
Judge(p) ==
    /\ rite[p] = "candidate"
    /\ At(p, "leaving")
    /\ UNCHANGED <<commit, Store, tree, evidence, dropped, begun>>

\* git worktree remove, if there is one; it may fail.
RemoveTree(p) ==
    /\ rite[p] = "leaving"
    /\ At(p, "record")
    /\ tree' \in {tree \ {p}, tree}
    /\ dropped' = IF p \in tree' THEN dropped \cup {p} ELSE dropped
    /\ UNCHANGED <<commit, Store, evidence, begun>>

\* state.record, which says success=False whatever was judged: the state is read, if it can be ...
ReadState(p) ==
    LET others == {q \in Runner \ {p} : rite[q] = "replace"} IN
    /\ rite[p] = "record"
    /\ IF last = Unreadable
       THEN At(p, "idle") /\ UNCHANGED <<read, raced>>
       ELSE /\ At(p, "replace")
            /\ read' = [read EXCEPT ![p] = failures]
            /\ raced' = IF others = {} THEN raced ELSE raced \cup others \cup {p}
    /\ UNCHANGED <<commit, last, failures, tree, evidence, dropped, begun>>

\* ... and replaced through a temporary file of one name for all processes: of two at a time one
\* may rename what the other has written, truncated or mixed up, and one may find nothing to rename.
Replace(p) ==
    /\ rite[p] = "replace"
    /\ At(p, "idle")
    /\ raced' = raced \ {p}
    /\ \/ \E q \in Runner :
            /\ q = p \/ (p \in raced /\ commit[q] # NoCommit)
            /\ last' = commit[q] /\ failures' = read[q] + 1
       \/ p \in raced /\ last' \in {last, Unreadable} /\ UNCHANGED failures
    /\ UNCHANGED <<commit, read, tree, evidence, dropped, begun>>

Perish(p) ==
    /\ rite[p] # "idle"
    /\ At(p, "idle")
    /\ dropped' = IF p \in tree THEN dropped \cup {p} ELSE dropped
    /\ raced' = raced \ {p}
    /\ UNCHANGED <<commit, last, failures, read, tree, evidence, begun>>

RitesNext ==
    \E p \in Runner :
        \/ \E c \in Commit : Begin(p, c)
        \/ \E shut \in {{}} \cup {{Gates[i]} : i \in DOMAIN Gates} : PassGates(p, shut)
        \/ AddTree(p) \/ Judge(p) \/ RemoveTree(p) \/ ReadState(p) \/ Replace(p) \/ Perish(p)

RitesSpec == RitesInit /\ [][RitesNext]_ritesVars

------------------------------------------------------------------------------

\* A worktree does not outlive its rite, however the agent, the checks or git end it; only a
\* process that died or a removal that failed leaves one (rite_pipeline.py:50-65,
\* worktree_transaction.py:24-37).
TreesAreRemoved == \A p \in tree : rite[p] \in {"idle", "record", "replace"} => p \in dropped
==============================================================================
