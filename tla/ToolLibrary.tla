---------------------------- MODULE ToolLibrary ----------------------------
(***************************************************************************)
(* tool_library.py and patterns.py: processes (the MCP server, the         *)
(* dashboard, the command line) share one registry.json and one ledger of  *)
(* workflow patterns.  A ledger statement is atomic; a registry update is  *)
(* a read, then a temporary file truncated, filled and renamed over the    *)
(* registry, and the temporary file has one name for all processes.  The   *)
(* slug of an added tool is chosen from the registry as it was read, so    *)
(* two processes may choose one slug, and the second script replaces the   *)
(* first.  CATALOG.md, the manifest and the wrapper of a tool are derived  *)
(* from its registry entry and left out.                                   *)
(***************************************************************************)
EXTENDS Naturals, FiniteSets

CONSTANTS
    Process,        \* processes that share the library
    Pattern,        \* workflow signatures; a generated tool is named by its pattern
    Added,          \* slugs of the tools an operator adds
    MinSuccesses,   \* pattern_min_occurrences
    AutoActivate,   \* auto_activate_prompt_tools
    RunsScripts,    \* allow_reviewed_script_execution
    Truncated,      \* content of a file truncated and not yet filled
    Garbled,        \* content of a file that two processes filled through one another
    Absent,         \* no such file
    NoOp,           \* no operation in progress
    MaxObservations,  \* bound on the observations of a pattern
    MaxRegistrations, \* bound on the tools an operator adds: no more than there are slugs
    MaxChanges      \* bound on the operator's other calls and crashes

Tool == [kind : {"recipe", "script"}, status : {"draft", "active", "disabled"}, approved : BOOLEAN]
Content == UNION {[S -> Tool] : S \in SUBSET (Pattern \cup Added)}

ASSUME LibraryAssumption ==
    /\ Pattern \cap Added = {}
    /\ Truncated \notin Content /\ Garbled \notin Content
    /\ Absent \notin Content \cup {Truncated, Garbled} /\ Garbled # Truncated
    /\ MinSuccesses \in Nat \ {0}
    /\ AutoActivate \in BOOLEAN /\ RunsScripts \in BOOLEAN
    /\ MaxObservations \in Nat /\ MaxRegistrations \in Nat /\ MaxChanges \in Nat

VARIABLES
    registry,     \* registry.json
    temp,         \* registry.json.tmp
    source,       \* whose script tools/<slug>/tool.py holds: a registration's number, or 0
    occurrences,  \* workflow_patterns.occurrences
    successes,    \* workflow_patterns.successes
    confidence,   \* the number of occurrences workflow_patterns.confidence was computed from
    bound,        \* patterns whose tool_slug is set
    pc,           \* where each process is
    op,           \* the operation it is in, or NoOp
    copy,         \* the registry as it last read it, with its change
    handle,       \* the file a process that fills its temporary file has open
    observed,     \* history: completed observations of each pattern
    registered,   \* how many tools an operator has asked to add
    reviewed,     \* history: slugs an operator has approved
    seen,         \* history: the scripts that were there when an operator approved
    hasty,        \* history: slugs approved while their script was not there
    ran,          \* history: the scripts that were started, with their slugs
    overlapped,   \* history: two registry updates have been in progress at once
    changes       \* how many bounded changes have happened

fileVars == <<registry, temp, source, handle>>
ledgerVars == <<occurrences, successes, confidence, bound, observed>>
procVars == <<pc, op, copy>>
reviewVars == <<reviewed, seen, hasty>>
operatorVars == <<registered, reviewVars, changes>>
libraryVars == <<fileVars, ledgerVars, procVars, operatorVars, overlapped, ran>>

Unreadable == {Truncated, Garbled}
Empty == [t \in {} |-> 0]
\* registry[tool] = entry
Entered(c, t, entry) == [u \in DOMAIN c \cup {t} |-> IF u = t THEN entry ELSE c[u]]

\* What a call of the library is about.
Operation ==
    [kind : {"observe"}, tool : Pattern, success : BOOLEAN, known : Nat]
    \cup [kind : {"evidence", "scaffold"}, tool : Pattern]
    \cup [kind : {"recipe", "script"}, tool : Added, active : BOOLEAN, number : Nat \ {0}]
    \cup [kind : {"status"}, tool : Added \cup Pattern, status : {"active", "disabled"},
          approved : BOOLEAN, there : Nat]

LibraryTypeOK ==
    /\ registry \in Content \cup Unreadable
    /\ temp \in Content \cup Unreadable \cup {Absent}
    /\ occurrences \in [Pattern -> Nat] /\ successes \in [Pattern -> Nat]
    /\ confidence \in [Pattern -> Nat] /\ observed \in [Pattern -> Nat]
    /\ bound \subseteq Pattern
    /\ pc \in [Process -> {"idle", "observing", "reading", "getting", "opening", "filling",
                           "renaming", "binding", "sourcing"}]
    /\ op \in [Process -> Operation \cup {NoOp}] /\ copy \in [Process -> Content]
    /\ handle \in [Process -> {"none", "temp", "registry", "orphan"}]
    /\ source \in [Added \cup Pattern -> Nat] /\ registered \in 0..MaxRegistrations
    /\ reviewed \subseteq Added \cup Pattern /\ hasty \subseteq Added \cup Pattern
    /\ seen \subseteq Nat \ {0}
    /\ ran \subseteq (Added \cup Pattern) \X (Nat \ {0})
    /\ overlapped \in BOOLEAN
    /\ changes \in 0..MaxChanges

LibraryInit ==
    /\ registry = Empty /\ temp = Absent
    /\ occurrences = [g \in Pattern |-> 0]
    /\ successes = [g \in Pattern |-> 0]
    /\ confidence = [g \in Pattern |-> 0]
    /\ bound = {}
    /\ pc = [p \in Process |-> "idle"]
    /\ op = [p \in Process |-> NoOp]
    /\ copy = [p \in Process |-> Empty]
    /\ handle = [p \in Process |-> "none"]
    /\ observed = [g \in Pattern |-> 0]
    /\ source = [t \in Added \cup Pattern |-> 0] /\ registered = 0
    /\ reviewed = {} /\ seen = {} /\ hasty = {} /\ ran = {}
    /\ overlapped = FALSE
    /\ changes = 0

------------------------------------------------------------------------------
(* A process's steps *)

At(p, place) == pc[p] = place
Go(p, place) == pc' = [pc EXCEPT ![p] = place]

\* An operation begins, at the given step.
Begin(p, what, place) ==
    /\ At(p, "idle")
    /\ op' = [op EXCEPT ![p] = what]
    /\ Go(p, place)
    /\ UNCHANGED copy

\* An operation returns, raises, or dies with its process.
Finish(p) ==
    /\ op' = [op EXCEPT ![p] = NoOp]
    /\ copy' = [copy EXCEPT ![p] = Empty]
    /\ Go(p, "idle")

\* _read_registry: what cannot be parsed counts as no tools.
ReadRegistry == IF registry \in Unreadable THEN Empty ELSE registry

\* observe, up to the lookup of the pattern's row.
Observe(p, g, success) ==
    /\ Cardinality({q \in Process : At(q, "observing")}) + observed[g] < MaxObservations
    /\ Begin(p, [kind |-> "observe", tool |-> g, success |-> success, known |-> occurrences[g]],
             "observing")
    /\ UNCHANGED <<fileVars, ledgerVars, operatorVars, overlapped, ran>>

\* The pattern's next step: its tool's evidence, its tool's creation, or nothing.
AfterUpsert(p, g) ==
    IF g \in bound THEN
        /\ op' = [op EXCEPT ![p] = [kind |-> "evidence", tool |-> g]]
        /\ Go(p, "reading") /\ UNCHANGED copy
    ELSE IF successes'[g] >= MinSuccesses THEN
        /\ op' = [op EXCEPT ![p] = [kind |-> "scaffold", tool |-> g]]
        /\ Go(p, "reading") /\ UNCHANGED copy
    ELSE Finish(p)

\* upsert_workflow_pattern: the counts grow in the row, the confidence comes from the lookup.
Upsert(p) ==
    LET g == op[p].tool
    IN  /\ At(p, "observing")
        /\ occurrences' = [occurrences EXCEPT ![g] = @ + 1]
        /\ successes' = [successes EXCEPT ![g] = IF op[p].success THEN @ + 1 ELSE @]
        /\ confidence' = [confidence EXCEPT ![g] = op[p].known + 1]
        /\ observed' = [observed EXCEPT ![g] = @ + 1]
        /\ AfterUpsert(p, g)
        /\ UNCHANGED <<fileVars, bound, operatorVars, overlapped, ran>>

Change == changes < MaxChanges /\ changes' = changes + 1

\* analyze, of one pattern: create the tool it has earned and has not got.
Analyze(p, g) ==
    /\ Change
    /\ g \notin bound /\ successes[g] >= MinSuccesses
    /\ Begin(p, [kind |-> "scaffold", tool |-> g], "reading")
    /\ UNCHANGED <<fileVars, ledgerVars, registered, reviewVars, overlapped, ran>>

\* create_prompt_tool and register_script by an operator, under a name of its own choice; a
\* script is never activated with it.
Add(p, t, kind, active) ==
    /\ kind = "script" => ~active
    /\ registered < MaxRegistrations /\ registered' = registered + 1
    /\ Begin(p, [kind |-> kind, tool |-> t, active |-> active, number |-> registered'], "reading")
    /\ UNCHANGED <<fileVars, ledgerVars, reviewVars, changes, overlapped, ran>>

\* set_status, by an operator who has the tool's script before him, if there is one.
SetStatus(p, t, status, approved) ==
    /\ Change
    /\ Begin(p, [kind |-> "status", tool |-> t, status |-> status, approved |-> approved,
                 there |-> IF approved THEN source[t] ELSE 0], "reading")
    /\ UNCHANGED <<fileVars, ledgerVars, registered, reviewVars, overlapped, ran>>

Updating == {"getting", "opening", "filling", "renaming"}

\* Mutant of NewTool: a script is trusted as soon as it is registered.
NewToolTrusted(what) ==
    [kind |-> IF what.kind = "script" THEN "script" ELSE "recipe",
     status |-> IF what.kind = "script" \/ ~what.active THEN "draft" ELSE "active",
     approved |-> TRUE]

\* A new entry: recipes are approved, scripts are drafts that await a review.
NewTool(what) ==
    [kind |-> IF what.kind = "script" THEN "script" ELSE "recipe",
     status |-> IF what.kind = "script" \/ ~what.active THEN "draft" ELSE "active",
     approved |-> what.kind # "script"]

\* The slug of a tool: an operator's is the name it asked for, or with a number behind it if
\* the registry it has read has that name (_unique_slug).
Slugs(what) ==
    IF what.kind \in {"recipe", "script"} /\ what.tool \in DOMAIN ReadRegistry
    THEN Added \ DOMAIN ReadRegistry
    ELSE {what.tool}

\* Mutant of Read: a creation starts from an empty list.
ReadForgets(p) ==
    LET creates == op[p].kind \in {"scaffold", "recipe", "script"}
        entry == NewTool(IF op[p].kind = "scaffold"
                         THEN [kind |-> "recipe", active |-> AutoActivate] ELSE op[p])
    IN  /\ At(p, "reading")
        /\ overlapped' = (overlapped \/ \E q \in Process \ {p} : pc[q] \in Updating)
        /\ \E t \in Slugs(op[p]) :
              /\ op' = [op EXCEPT ![p].tool = t]
              /\ copy' = [copy EXCEPT ![p] = IF creates THEN Entered(Empty, t, entry)
                                             ELSE ReadRegistry]
        /\ Go(p, IF creates THEN "opening" ELSE "getting")
        /\ UNCHANGED <<fileVars, ledgerVars, operatorVars, ran>>

\* The first read of the registry.  A creation chooses its slug and puts its entry in at once;
\* an update of an existing entry looks it up with a read of its own.
Read(p) ==
    LET creates == op[p].kind \in {"scaffold", "recipe", "script"}
        entry == NewTool(IF op[p].kind = "scaffold"
                         THEN [kind |-> "recipe", active |-> AutoActivate] ELSE op[p])
    IN  /\ At(p, "reading")
        /\ overlapped' = (overlapped \/ \E q \in Process \ {p} : pc[q] \in Updating)
        /\ \E t \in Slugs(op[p]) :
              /\ op' = [op EXCEPT ![p].tool = t]
              /\ copy' = [copy EXCEPT ![p] = IF creates THEN Entered(ReadRegistry, t, entry)
                                             ELSE ReadRegistry]
        /\ Go(p, IF creates THEN "opening" ELSE "getting")
        /\ UNCHANGED <<fileVars, ledgerVars, operatorVars, ran>>

\* The entry as an update of its evidence or of its status leaves it.
Changed(what, entry) ==
    IF what.kind = "evidence" THEN entry
    ELSE [entry EXCEPT !.status = what.status,
                       !.approved = IF what.approved THEN TRUE ELSE @]

\* An approval is of the script the operator saw; without one it is hasty.
Reviews(what) ==
    IF what.kind = "status" /\ what.approved
    THEN /\ reviewed' = reviewed \cup {what.tool}
         /\ seen' = IF what.there = 0 THEN seen ELSE seen \cup {what.there}
         /\ hasty' = IF what.there = 0 THEN hasty \cup {what.tool} ELSE hasty
    ELSE UNCHANGED reviewVars

\* get: the entry is read again and put into the copy; a missing one raises KeyError.
Get(p) ==
    LET t == op[p].tool
    IN  /\ At(p, "getting")
        /\ IF t \in DOMAIN ReadRegistry
           THEN /\ copy' = [copy EXCEPT ![p] = Entered(@, t, Changed(op[p], ReadRegistry[t]))]
                /\ Go(p, "opening")
                /\ Reviews(op[p])
                /\ UNCHANGED op
           ELSE Finish(p) /\ UNCHANGED reviewVars
        /\ UNCHANGED <<fileVars, ledgerVars, registered, changes, overlapped, ran>>

\* write_text opens the temporary file, which empties it.
Open(p) ==
    /\ At(p, "opening")
    /\ temp' = Truncated
    /\ handle' = [handle EXCEPT ![p] = "temp"]
    /\ Go(p, "filling")
    /\ UNCHANGED <<registry, source, ledgerVars, op, copy, operatorVars, overlapped, ran>>

\* What a file may hold once a process has filled it: over another's content, the longer
\* of the two may stick out.
Filled(p, was) == IF was = Truncated THEN {copy[p]} ELSE {copy[p], Garbled}

\* write_text fills the file it opened, whatever name that file has by now.
Fill(p) ==
    /\ At(p, "filling")
    /\ IF handle[p] = "temp" THEN temp' \in Filled(p, temp) ELSE UNCHANGED temp
    /\ IF handle[p] = "registry" THEN registry' \in Filled(p, registry) ELSE UNCHANGED registry
    /\ handle' = [handle EXCEPT ![p] = "none"]
    /\ Go(p, "renaming")
    /\ UNCHANGED <<source, ledgerVars, op, copy, operatorVars, overlapped, ran>>

\* os.replace: the temporary file becomes the registry, for those who have it open too.
Rename(p) ==
    /\ At(p, "renaming")
    /\ IF temp = Absent
       THEN Finish(p) /\ UNCHANGED fileVars
       ELSE /\ registry' = temp /\ temp' = Absent
            /\ handle' = [q \in Process |-> IF handle[q] = "temp" THEN "registry"
                                            ELSE IF handle[q] = "registry" THEN "orphan"
                                            ELSE handle[q]]
            /\ CASE op[p].kind = "scaffold" -> Go(p, "binding") /\ UNCHANGED <<op, copy>>
                 [] op[p].kind = "script" -> Go(p, "sourcing") /\ UNCHANGED <<op, copy>>
                 [] OTHER -> Finish(p)
            /\ UNCHANGED source
    /\ UNCHANGED <<ledgerVars, operatorVars, overlapped, ran>>

\* bind_pattern_tool
Bind(p) ==
    /\ At(p, "binding")
    /\ bound' = bound \cup {op[p].tool}
    /\ Finish(p)
    /\ UNCHANGED <<fileVars, occurrences, successes, confidence, observed, operatorVars,
                   overlapped, ran>>

\* register_script writes the script once the registry has its entry, over what is there.
WriteSource(p) ==
    /\ At(p, "sourcing")
    /\ source' = [source EXCEPT ![op[p].tool] = op[p].number]
    /\ Finish(p)
    /\ UNCHANGED <<registry, temp, handle, ledgerVars, operatorVars, overlapped, ran>>

\* The process dies between two steps and is started again.
Crash(p) ==
    /\ Change
    /\ ~At(p, "idle")
    /\ Finish(p)
    /\ handle' = [handle EXCEPT ![p] = "none"]
    /\ UNCHANGED <<registry, temp, source, ledgerVars, registered, reviewVars, overlapped, ran>>

\* Mutant of Run: the review is not asked for.
RunAnything(t) ==
    /\ t \in DOMAIN ReadRegistry /\ ReadRegistry[t].kind = "script"
    /\ RunsScripts /\ source[t] # 0
    /\ ran' = ran \cup {<<t, source[t]>>}
    /\ UNCHANGED <<fileVars, ledgerVars, procVars, operatorVars, overlapped>>

\* run_library_tool: one read of the entry decides; a recipe becomes a prompt and starts nothing.
Run(t) ==
    /\ t \in DOMAIN ReadRegistry /\ ReadRegistry[t].kind = "script"
    /\ ReadRegistry[t].status = "active" /\ ReadRegistry[t].approved
    /\ RunsScripts /\ source[t] # 0
    /\ ran' = ran \cup {<<t, source[t]>>}
    /\ UNCHANGED <<fileVars, ledgerVars, procVars, operatorVars, overlapped>>

Step(p) ==
    \/ Upsert(p) \/ Read(p) \/ Get(p) \/ Open(p) \/ Fill(p) \/ Rename(p) \/ Bind(p)
    \/ WriteSource(p)

\* Nothing is asked of the library any more.
Quiet == (\A p \in Process : At(p, "idle")) /\ UNCHANGED libraryVars

LibraryNext ==
    \/ Quiet
    \/ \E t \in Added : Run(t)
    \/ \E p \in Process :
        \/ \E g \in Pattern, success \in BOOLEAN : Observe(p, g, success)
        \/ \E g \in Pattern : Analyze(p, g)
        \/ \E t \in Added, kind \in {"recipe", "script"}, active \in BOOLEAN : Add(p, t, kind, active)
        \/ \E t \in Added \cup Pattern :
              SetStatus(p, t, "active", TRUE) \/ SetStatus(p, t, "disabled", FALSE)
        \/ Step(p)
        \/ Crash(p)

LibrarySpec == LibraryInit /\ [][LibraryNext]_libraryVars

------------------------------------------------------------------------------
(* Properties *)

\* No interleaving, torn read or crash makes a script approved under a slug that no operator
\* approved.  And while registry updates have not overlapped, no script is started but one that
\* was there when an operator approved its slug; only an approval given in the gap between a
\* registration's entry and its script lets another run (README.md:61 "Script entries begin as
\* drafts, require explicit approval"; service.py:1048-1081, tool_library.py:195, 218-222).
\* Two registrations that overlap may take one slug: the approval of one runs the other.
ScriptsNeedReview ==
    /\ registry \notin Unreadable => \A t \in DOMAIN registry :
           registry[t].kind = "script" /\ registry[t].approved => t \in reviewed
    /\ ~overlapped => \A r \in ran : r[2] \in seen \/ r[1] \in hasty

\* While updates have not overlapped, the registry stays readable, no tool ever leaves it and
\* every pattern that has a tool finds it there, a crash at any point of an update included
\* (tool_library.py:52-66, patterns.py:77-90).  Overlapping updates lose tools: the temporary
\* file has one name for all processes.
ToolsSurviveAlone ==
    [][~overlapped' =>
          /\ registry' \notin Unreadable
          /\ DOMAIN registry \subseteq DOMAIN registry'
          /\ bound' \subseteq DOMAIN registry']_libraryVars
==============================================================================
