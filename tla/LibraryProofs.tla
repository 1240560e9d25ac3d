--------------------------- MODULE LibraryProofs -----------------------------
(***************************************************************************)
(* Proofs about the files of the tool library (ToolLibrary.tla) and of the *)
(* usage database (UsageStore.tla), which several processes share without  *)
(* a lock.  They have no variable in common, and each part speaks of one   *)
(* of them.                                                                *)
(***************************************************************************)
EXTENDS ToolLibrary, UsageStore, TLAPS

(***************************************************************************)
(* The tool library, for any processes, patterns and tools: no script is   *)
(* approved whose slug no operator approved, updates that do not overlap   *)
(* lose nothing, and while none overlapped no script runs but one that an  *)
(* operator saw, or whose slug was approved before the script was there.   *)
(*                                                                         *)
(* A review is not in the registry alone.  It travels in calls, in the     *)
(* copies that updates have read and in the temporary file, so the         *)
(* invariant asks it of all of them.  For what survives an update, the     *)
(* invariant says what an update that is alone has in its hands at every   *)
(* one of its steps: the slug it has chosen is not in the registry, so     *)
(* the script that is written after it replaces none.                      *)
(***************************************************************************)

\* What a process is doing tells which operation it is in.
OperationFits(p) ==
    /\ pc[p] # "idle" => op[p] \in Operation
    /\ pc[p] = "observing" => op[p].kind = "observe"
    /\ pc[p] \notin {"idle", "observing"} => op[p].kind # "observe"
    /\ pc[p] = "getting" => op[p].kind \in {"evidence", "status"}
    /\ pc[p] = "binding" => op[p].kind = "scaffold"
    /\ pc[p] = "sourcing" => op[p].kind = "script"
    /\ pc[p] # "filling" => handle[p] = "none"

\* A slug an operator approved, and, while updates have not overlapped, one whose script an
\* operator saw or that was approved before its script was there.
Trusted(t) ==
    /\ t \in reviewed
    /\ ~overlapped => t \in hasty \/ source[t] \in seen

\* Content that has approved scripts under trusted slugs only.
Vetted(c) == \A t \in DOMAIN c : c[t].kind = "script" /\ c[t].approved => Trusted(t)

\* An approval in progress is of the script that is still there.
SeesItsScript(p) ==
    ~overlapped /\ pc[p] # "idle" /\ op[p].kind = "status" /\ op[p].there # 0 =>
        source[op[p].tool] = op[p].there

\* The review travels with a call, and with every copy of the registry.
ReviewsTravel ==
    /\ registry \notin Unreadable => Vetted(registry)
    /\ temp \notin Unreadable \cup {Absent} => Vetted(temp)
    /\ \A p \in Process : Vetted(copy[p])
    /\ \A p \in Process : SeesItsScript(p)
    /\ ~overlapped => \A r \in ran : r[2] \in seen \/ r[1] \in hasty

\* An update that is alone works on all the registry has.
AloneWithAll(p) ==
    /\ pc[p] \in Updating => \A q \in Process \ {p} : pc[q] \notin Updating
    /\ pc[p] \in Updating => DOMAIN registry \subseteq DOMAIN copy[p]
    /\ pc[p] = "filling" => handle[p] = "temp" /\ temp = Truncated
    /\ pc[p] = "renaming" => temp = copy[p]
    /\ pc[p] \in {"opening", "filling", "renaming"} /\ op[p].kind \in {"scaffold", "script"} =>
          op[p].tool \in DOMAIN copy[p]
    /\ pc[p] = "binding" => op[p].tool \in DOMAIN registry

\* The slug an addition has chosen stays its own until its script is written.
SlugIsOwn(p) ==
    /\ pc[p] \in {"opening", "filling", "renaming"} /\ op[p].kind \in {"recipe", "script"} =>
          op[p].tool \notin DOMAIN registry
    /\ pc[p] = "sourcing" =>
          /\ op[p].tool \in DOMAIN registry /\ source[op[p].tool] = 0
          /\ \A q \in Process \ {p} : pc[q] = "sourcing" => op[q].tool # op[p].tool

UpdatesAreAlone ==
    /\ registry \notin Unreadable
    /\ \A t \in Added \cup Pattern : source[t] # 0 => t \in DOMAIN registry
    /\ \A p \in Process : SlugIsOwn(p)
    /\ bound \subseteq DOMAIN registry
    /\ \A p \in Process : AloneWithAll(p)

LibraryInv ==
    /\ LibraryTypeOK
    /\ \A p \in Process : OperationFits(p)
    /\ ReviewsTravel
    /\ ~overlapped => UpdatesAreAlone

\* Content with one entry put in has what it had, and is vetted if the entry is.
LEMMA EntryPut ==
    ASSUME NEW c \in Content, NEW t \in Pattern \cup Added, NEW e \in Tool
    PROVE  /\ Entered(c, t, e) \in Content
           /\ DOMAIN c \subseteq DOMAIN Entered(c, t, e) /\ t \in DOMAIN Entered(c, t, e)
           /\ Vetted(c) /\ (e.kind = "script" /\ e.approved => Trusted(t))
                  => Vetted(Entered(c, t, e))
<1>1. PICK S \in SUBSET (Pattern \cup Added) : c \in [S -> Tool]
  BY DEF Content
<1>2. Entered(c, t, e) \in [S \cup {t} -> Tool]
  BY <1>1 DEF Entered
<1>3. S \cup {t} \in SUBSET (Pattern \cup Added)
  BY <1>1
<1>4. Entered(c, t, e)[t] = e /\ \A u \in S \ {t} : Entered(c, t, e)[u] = c[u]
  BY <1>1 DEF Entered
<1> QED
  BY <1>1, <1>2, <1>3, <1>4 DEF Content, Vetted

\* An entry that is there is a tool, whatever else the content holds.
LEMMA EntryIsTool ==
    ASSUME NEW c \in Content, NEW t \in DOMAIN c
    PROVE  t \in Pattern \cup Added /\ c[t] \in Tool
<1>1. PICK S \in SUBSET (Pattern \cup Added) : c \in [S -> Tool]
  BY DEF Content
<1> QED
  BY <1>1

\* A registry without entries is one.
LEMMA EmptyIsContent ==
    Empty \in Content /\ DOMAIN Empty = {}
<1>1. Empty \in [{} -> Tool] /\ {} \in SUBSET (Pattern \cup Added)
  BY DEF Empty
<1> QED
  BY <1>1 DEF Content, Empty

\* What _read_registry returns is content, and vetted.
LEMMA ReadIsContent ==
    ASSUME LibraryTypeOK
    PROVE  /\ ReadRegistry \in Content
           /\ registry \notin Unreadable => ReadRegistry = registry /\ registry \in Content
           /\ ReviewsTravel => Vetted(ReadRegistry)
<1>1. Vetted(Empty)
  BY EmptyIsContent DEF Vetted
<1> QED
  BY <1>1, EmptyIsContent DEF LibraryTypeOK, ReadRegistry, ReviewsTravel

\* The fields of an operation, by its kind.
LEMMA OperationShape ==
    ASSUME NEW o \in Operation
    PROVE  /\ o.kind \in {"observe", "evidence", "scaffold", "recipe", "script", "status"}
           /\ o.tool \in Pattern \cup Added
           /\ o.kind \in {"observe", "evidence", "scaffold"} => o.tool \in Pattern
           /\ o.kind = "observe" => o.success \in BOOLEAN /\ o.known \in Nat
           /\ o.kind \in {"recipe", "script"} =>
                  o.tool \in Added /\ o.active \in BOOLEAN /\ o.number \in Nat \ {0}
           /\ o.kind = "status" => /\ o.status \in {"active", "disabled"} /\ o.approved \in BOOLEAN
                                  /\ o.there \in Nat
           /\ \A u \in Added : o.kind \in {"recipe", "script"} => [o EXCEPT !.tool = u] \in Operation
           /\ [o EXCEPT !.tool = o.tool] = o
<1>1. CASE o \in [kind : {"observe"}, tool : Pattern, success : BOOLEAN, known : Nat]
  BY <1>1
<1>2. CASE o \in [kind : {"evidence", "scaffold"}, tool : Pattern]
  BY <1>2
<1>3. CASE o \in [kind : {"recipe", "script"}, tool : Added, active : BOOLEAN, number : Nat \ {0}]
  BY <1>3 DEF Operation
<1>4. CASE o \in [kind : {"status"}, tool : Added \cup Pattern, status : {"active", "disabled"},
                  approved : BOOLEAN, there : Nat]
  BY <1>4
<1> QED
  BY <1>1, <1>2, <1>3, <1>4 DEF Operation

\* At the start the registry is empty and nothing is reviewed.
LEMMA LibraryInitially ==
    ASSUME LibraryInit
    PROVE  LibraryInv
<1>1. LibraryTypeOK
  <2>1. registry \in Content /\ copy \in [Process -> Content]
    BY EmptyIsContent DEF LibraryInit
  <2>2. /\ occurrences \in [Pattern -> Nat] /\ successes \in [Pattern -> Nat]
        /\ confidence \in [Pattern -> Nat] /\ observed \in [Pattern -> Nat]
    BY DEF LibraryInit
  <2>3. changes \in 0..MaxChanges
    BY LibraryAssumption DEF LibraryInit
  <2>4. registered \in 0..MaxRegistrations /\ source \in [Added \cup Pattern -> Nat]
    BY LibraryAssumption DEF LibraryInit
  <2> QED
    BY <2>1, <2>2, <2>3, <2>4 DEF LibraryInit, LibraryTypeOK
<1>2. \A p \in Process : OperationFits(p) /\ AloneWithAll(p) /\ SlugIsOwn(p) /\ SeesItsScript(p)
  BY DEF LibraryInit, OperationFits, AloneWithAll, SlugIsOwn, SeesItsScript, Updating
<1>3. Vetted(Empty)
  BY EmptyIsContent DEF Vetted
<1>4. ReviewsTravel
  BY <1>2, <1>3 DEF LibraryInit, ReviewsTravel
<1>5. UpdatesAreAlone
  BY <1>2, EmptyIsContent, LibraryAssumption DEF LibraryInit, UpdatesAreAlone, Unreadable
<1> QED
  BY <1>1, <1>2, <1>4, <1>5 DEF LibraryInv

\* A call begins: observe, analyze, create_prompt_tool, register_script, set_status.
LEMMA BeginKeeps ==
    ASSUME LibraryInv, NEW p \in Process, NEW what \in Operation, NEW where \in {"observing", "reading"},
           Begin(p, what, where), what.kind = "observe" <=> where = "observing",
           UNCHANGED <<fileVars, ledgerVars, reviewVars, overlapped, ran>>,
           registered' \in 0..MaxRegistrations, changes' \in 0..MaxChanges,
           what.kind = "status" /\ what.there # 0 => what.there = source[what.tool]
    PROVE  LibraryInv'
<1> USE DEF LibraryInv
<1>1. /\ op' = [op EXCEPT ![p] = what] /\ pc' = [pc EXCEPT ![p] = where] /\ copy' = copy
      /\ pc[p] = "idle"
      /\ UNCHANGED <<registry, temp, handle, occurrences, successes, confidence, bound, observed,
                     source, reviewed, seen, hasty, overlapped, ran>>
  BY DEF Begin, Go, At, fileVars, ledgerVars, reviewVars
<1>2. /\ pc'[p] = where /\ op'[p] = what
      /\ \A q \in Process \ {p} : pc'[q] = pc[q] /\ op'[q] = op[q]
  BY <1>1 DEF LibraryTypeOK
<1>3. LibraryTypeOK'
  BY <1>1 DEF LibraryTypeOK
<1>4. \A q \in Process : OperationFits(q)'
  BY <1>1, <1>2 DEF OperationFits
<1>5. ReviewsTravel'
  <2>1. \A t : Trusted(t) => Trusted(t)'
    BY <1>1 DEF Trusted
  <2>2. \A q \in Process : SeesItsScript(q)'
    BY <1>1, <1>2 DEF ReviewsTravel, SeesItsScript
  <2> QED
    BY <1>1, <2>1, <2>2 DEF ReviewsTravel, Vetted
<1>6. ~overlapped' => UpdatesAreAlone'
  BY <1>1, <1>2 DEF UpdatesAreAlone, AloneWithAll, SlugIsOwn, Updating
<1> QED
  BY <1>3, <1>4, <1>5, <1>6

\* A call returns, raises or dies with its process.
LEMMA FinishKeeps ==
    ASSUME LibraryInv, NEW p \in Process, Finish(p),
           UNCHANGED <<registry, temp, source, overlapped, ran, registered, reviewed, seen, hasty>>,
           handle' = [handle EXCEPT ![p] = "none"],
           bound' \subseteq Pattern, ~overlapped => bound' \subseteq DOMAIN registry,
           occurrences' \in [Pattern -> Nat], successes' \in [Pattern -> Nat],
           confidence' \in [Pattern -> Nat], observed' \in [Pattern -> Nat],
           changes' \in 0..MaxChanges
    PROVE  LibraryInv'
<1> USE DEF LibraryInv
<1>1. /\ op' = [op EXCEPT ![p] = NoOp] /\ pc' = [pc EXCEPT ![p] = "idle"]
      /\ copy' = [copy EXCEPT ![p] = Empty]
  BY DEF Finish, Go
<1>2. /\ pc'[p] = "idle" /\ copy'[p] = Empty /\ handle'[p] = "none"
      /\ \A q \in Process \ {p} : /\ pc'[q] = pc[q] /\ op'[q] = op[q] /\ copy'[q] = copy[q]
                                  /\ handle'[q] = handle[q]
  BY <1>1 DEF LibraryTypeOK
<1>3. LibraryTypeOK'
  BY <1>1, EmptyIsContent DEF LibraryTypeOK
<1>4. \A q \in Process : OperationFits(q)'
  BY <1>2 DEF OperationFits
<1>5. ReviewsTravel'
  <2>1. Vetted(Empty)'
    BY EmptyIsContent DEF Vetted
  <2>2. \A t : Trusted(t) => Trusted(t)'
    BY DEF Trusted
  <2>3. \A q \in Process : SeesItsScript(q)'
    BY <1>2 DEF ReviewsTravel, SeesItsScript
  <2> QED
    BY <1>2, <2>1, <2>2, <2>3 DEF ReviewsTravel, Vetted
<1>6. ~overlapped' => UpdatesAreAlone'
  BY <1>2 DEF UpdatesAreAlone, AloneWithAll, SlugIsOwn, Updating
<1> QED
  BY <1>3, <1>4, <1>5, <1>6

\* Every call that begins, and observing an outcome, keep the invariant.
LEMMA CallKeeps ==
    ASSUME LibraryInv, NEW p \in Process,
           \/ \E g \in Pattern, success \in BOOLEAN : Observe(p, g, success)
           \/ \E g \in Pattern : Analyze(p, g)
           \/ \E t \in Added, kind \in {"recipe", "script"}, active \in BOOLEAN :
                  Add(p, t, kind, active)
           \/ \E t \in Added \cup Pattern :
                  SetStatus(p, t, "active", TRUE) \/ SetStatus(p, t, "disabled", FALSE)
    PROVE  LibraryInv'
<1>1. ASSUME NEW g \in Pattern, NEW success \in BOOLEAN, Observe(p, g, success)
      PROVE  LibraryInv'
  <2> DEFINE what == [kind |-> "observe", tool |-> g, success |-> success, known |-> occurrences[g]]
  <2>1. what \in Operation
    BY DEF Operation, LibraryInv, LibraryTypeOK
  <2>2. /\ Begin(p, what, "observing")
        /\ UNCHANGED <<fileVars, ledgerVars, operatorVars, overlapped, ran>>
    BY <1>1 DEF Observe
  <2>3. what.kind = "observe"
    OBVIOUS
  <2>4. UNCHANGED <<reviewVars, registered, changes>>
    BY <2>2 DEF operatorVars
  <2> HIDE DEF what
  <2> QED
    BY <2>1, <2>2, <2>3, <2>4, BeginKeeps DEF LibraryInv, LibraryTypeOK
<1>2. ASSUME NEW g \in Pattern, Analyze(p, g)
      PROVE  LibraryInv'
  <2> DEFINE what == [kind |-> "scaffold", tool |-> g]
  <2>1. what \in Operation
    BY DEF Operation
  <2>2. /\ Begin(p, what, "reading") /\ Change
        /\ UNCHANGED <<fileVars, ledgerVars, registered, reviewVars, overlapped, ran>>
    BY <1>2 DEF Analyze
  <2>3. what.kind = "scaffold"
    OBVIOUS
  <2>4. changes' \in 0..MaxChanges
    BY <2>2, LibraryAssumption DEF Change, LibraryInv, LibraryTypeOK
  <2> HIDE DEF what
  <2> QED
    BY <2>1, <2>2, <2>3, <2>4, BeginKeeps DEF LibraryInv, LibraryTypeOK
<1>3. ASSUME NEW t \in Added, NEW kind \in {"recipe", "script"}, NEW active \in BOOLEAN,
             Add(p, t, kind, active)
      PROVE  LibraryInv'
  <2> DEFINE what == [kind |-> kind, tool |-> t, active |-> active, number |-> registered']
  <2>2. /\ Begin(p, what, "reading")
        /\ UNCHANGED <<fileVars, ledgerVars, reviewVars, changes, overlapped, ran>>
        /\ registered < MaxRegistrations /\ registered' = registered + 1
    BY <1>3 DEF Add
  <2>4. registered' \in 0..MaxRegistrations /\ registered' \in Nat \ {0}
    BY <2>2, LibraryAssumption DEF LibraryInv, LibraryTypeOK
  <2>1. what \in Operation
    BY <2>4 DEF Operation
  <2>3. what.kind \in {"recipe", "script"}
    OBVIOUS
  <2> HIDE DEF what
  <2> QED
    BY <2>1, <2>2, <2>3, <2>4, BeginKeeps DEF LibraryInv, LibraryTypeOK
<1>4. ASSUME NEW t \in Added \cup Pattern, NEW status \in {"active", "disabled"},
             NEW approved \in BOOLEAN, SetStatus(p, t, status, approved)
      PROVE  LibraryInv'
  <2> DEFINE what == [kind |-> "status", tool |-> t, status |-> status, approved |-> approved,
                      there |-> IF approved THEN source[t] ELSE 0]
  <2>1. what \in Operation
    BY DEF Operation, LibraryInv, LibraryTypeOK
  <2>2. /\ Begin(p, what, "reading") /\ Change
        /\ UNCHANGED <<fileVars, ledgerVars, registered, reviewVars, overlapped, ran>>
    BY <1>4 DEF SetStatus
  <2>3. what.kind = "status" /\ (what.there # 0 => what.there = source[what.tool])
    OBVIOUS
  <2>4. changes' \in 0..MaxChanges
    BY <2>2, LibraryAssumption DEF Change, LibraryInv, LibraryTypeOK
  <2> HIDE DEF what
  <2> QED
    BY <2>1, <2>2, <2>3, <2>4, BeginKeeps DEF LibraryInv, LibraryTypeOK
<1> QED
  BY <1>1, <1>2, <1>3, <1>4

\* The upsert of a pattern counts one more occurrence, and leaves the registry alone.
LEMMA UpsertKeeps ==
    ASSUME LibraryInv, NEW p \in Process, Upsert(p)
    PROVE  LibraryInv'
<1> USE DEF LibraryInv
<1> DEFINE g == op[p].tool
<1>1. /\ pc[p] = "observing"
      /\ occurrences' = [occurrences EXCEPT ![g] = @ + 1]
      /\ successes' = [successes EXCEPT ![g] = IF op[p].success THEN @ + 1 ELSE @]
      /\ confidence' = [confidence EXCEPT ![g] = op[p].known + 1]
      /\ observed' = [observed EXCEPT ![g] = @ + 1]
      /\ AfterUpsert(p, g)
      /\ UNCHANGED <<registry, temp, source, handle, bound, registered, reviewed, seen, hasty,
                     changes, overlapped, ran>>
  BY DEF Upsert, At, fileVars, operatorVars, reviewVars
<1>2. g \in Pattern /\ op[p].success \in BOOLEAN /\ op[p].known \in Nat
  BY <1>1, OperationShape DEF OperationFits
<1>3. /\ occurrences' \in [Pattern -> Nat] /\ successes' \in [Pattern -> Nat]
      /\ confidence' \in [Pattern -> Nat] /\ observed' \in [Pattern -> Nat]
  BY <1>1, <1>2 DEF LibraryTypeOK
<1>4. CASE Finish(p)
  <2>1. handle' = [handle EXCEPT ![p] = "none"]
    BY <1>1 DEF OperationFits, LibraryTypeOK
  <2> QED
    BY <1>1, <1>3, <1>4, <2>1, FinishKeeps DEF UpdatesAreAlone, LibraryTypeOK
<1>5. ASSUME NEW kind \in {"evidence", "scaffold"},
             op' = [op EXCEPT ![p] = [kind |-> kind, tool |-> g]],
             pc' = [pc EXCEPT ![p] = "reading"], copy' = copy
      PROVE  LibraryInv'
  <2> DEFINE what == [kind |-> kind, tool |-> g]
  <2>1. what \in Operation /\ what.kind = kind
    BY <1>2 DEF Operation
  <2> HIDE DEF what
  <2>2. /\ pc'[p] = "reading" /\ op'[p] = what /\ handle[p] = "none"
        /\ \A q \in Process \ {p} : pc'[q] = pc[q] /\ op'[q] = op[q]
    BY <1>1, <1>5 DEF what, LibraryTypeOK, OperationFits
  <2>3. LibraryTypeOK'
    BY <1>1, <1>3, <1>5, <2>1 DEF LibraryTypeOK, what
  <2>4. \A q \in Process : OperationFits(q)'
    BY <1>1, <2>1, <2>2 DEF OperationFits
  <2>5. ReviewsTravel'
    <3>1. \A t : Trusted(t) => Trusted(t)'
      BY <1>1 DEF Trusted
    <3>2. \A q \in Process : SeesItsScript(q)'
      BY <1>1, <2>1, <2>2 DEF ReviewsTravel, SeesItsScript
    <3> QED
      BY <1>1, <1>5, <3>1, <3>2 DEF ReviewsTravel, Vetted
  <2>6. ~overlapped' => UpdatesAreAlone'
    BY <1>1, <1>5, <2>2 DEF UpdatesAreAlone, AloneWithAll, SlugIsOwn, Updating
  <2> QED
    BY <2>3, <2>4, <2>5, <2>6
<1> QED
  BY <1>1, <1>4, <1>5 DEF AfterUpsert, Go

\* An update reads the registry and puts its entry in the copy it has read.
LEMMA ReadKeeps ==
    ASSUME LibraryInv, NEW p \in Process, Read(p)
    PROVE  LibraryInv'
<1> USE DEF LibraryInv
<1> DEFINE creates == op[p].kind \in {"scaffold", "recipe", "script"}
           what == IF op[p].kind = "scaffold"
                   THEN [kind |-> "recipe", active |-> AutoActivate] ELSE op[p]
           entry == NewTool(what)
<1>0. PICK t \in Slugs(op[p]) :
          /\ op' = [op EXCEPT ![p].tool = t]
          /\ copy' = [copy EXCEPT ![p] = IF creates THEN Entered(ReadRegistry, t, entry)
                                         ELSE ReadRegistry]
  BY DEF Read
<1> DEFINE new == IF creates THEN Entered(ReadRegistry, t, entry) ELSE ReadRegistry
<1>1. /\ pc[p] = "reading"
      /\ overlapped' = (overlapped \/ \E q \in Process \ {p} : pc[q] \in Updating)
      /\ copy' = [copy EXCEPT ![p] = new]
      /\ pc' = [pc EXCEPT ![p] = IF creates THEN "opening" ELSE "getting"]
      /\ UNCHANGED <<registry, temp, source, handle, occurrences, successes, confidence, bound,
                     observed, registered, reviewed, seen, hasty, changes, ran>>
  BY <1>0 DEF Read, At, Go, fileVars, ledgerVars, operatorVars, reviewVars
<1>2. /\ op[p] \in Operation /\ op[p].kind \in {"evidence", "scaffold", "recipe", "script", "status"}
      /\ op[p].tool \in Pattern \cup Added
      /\ op[p].kind \in {"recipe", "script"} => op[p].active \in BOOLEAN /\ op[p].tool \in Added
      /\ handle[p] = "none"
  BY <1>1, OperationShape DEF OperationFits
<1>3. creates => entry \in Tool /\ (entry.kind = "script" => ~entry.approved)
  <2>1. creates => what.kind \in {"recipe", "script"} /\ what.active \in BOOLEAN
    BY <1>2, LibraryAssumption
  <2> HIDE DEF what
  <2> QED
    BY <2>1 DEF NewTool, Tool
<1>4. ReadRegistry \in Content /\ Vetted(ReadRegistry)
  BY ReadIsContent
<1>13. /\ t \in Pattern \cup Added
       /\ op[p].kind \in {"recipe", "script"} => t \in Added /\ t \notin DOMAIN ReadRegistry
       /\ op[p].kind \notin {"recipe", "script"} => t = op[p].tool
  BY <1>2 DEF Slugs
<1>14. /\ op' \in [Process -> Operation \cup {NoOp}]
       /\ op'[p] \in Operation /\ op'[p].kind = op[p].kind /\ op'[p].tool = t
       /\ op[p].kind \notin {"recipe", "script"} => op'[p] = op[p]
       /\ \A q \in Process \ {p} : op'[q] = op[q]
  <2>1. op' = [op EXCEPT ![p] = [op[p] EXCEPT !.tool = t]]
    BY <1>0
  <2>2. CASE op[p].kind \in {"recipe", "script"}
    <3>1. [op[p] EXCEPT !.tool = t] \in Operation
      BY <1>2, <1>13, <2>2, OperationShape
    <3>2. /\ [op[p] EXCEPT !.tool = t].kind = op[p].kind
          /\ [op[p] EXCEPT !.tool = t].tool = t
      <4>1. op[p] \in [kind : {"recipe", "script"}, tool : Added, active : BOOLEAN,
                       number : Nat \ {0}]
        BY <1>2, <2>2 DEF Operation
      <4> QED
        BY <4>1
    <3> DEFINE o == [op[p] EXCEPT !.tool = t]
    <3> HIDE DEF o
    <3>3. op' = [op EXCEPT ![p] = o] /\ o \in Operation /\ o.kind = op[p].kind /\ o.tool = t
      BY <2>1, <3>1, <3>2 DEF o
    <3> QED
      BY <2>2, <3>3 DEF LibraryTypeOK
  <2>3. CASE op[p].kind \notin {"recipe", "script"}
    <3>1. [op[p] EXCEPT !.tool = t] = op[p]
      BY <1>2, <1>13, <2>3, OperationShape
    <3>2. op' = op
      BY <2>1, <3>1 DEF LibraryTypeOK
    <3> QED
      BY <1>2, <1>13, <2>3, <3>2 DEF LibraryTypeOK
  <2> QED
    BY <2>2, <2>3
<1>5. ASSUME creates
      PROVE  new \in Content /\ Vetted(new) /\ DOMAIN ReadRegistry \subseteq DOMAIN new
             /\ t \in DOMAIN new
  <2> HIDE DEF entry
  <2>1. /\ entry \in Tool /\ t \in Pattern \cup Added /\ ReadRegistry \in Content
        /\ new = Entered(ReadRegistry, t, entry)
    BY <1>13, <1>3, <1>4, <1>5
  <2> HIDE DEF new
  <2>2. new \in Content /\ DOMAIN ReadRegistry \subseteq DOMAIN new /\ t \in DOMAIN new
    BY <2>1, EntryPut
  <2>3. Vetted(new)
    BY <2>1, <1>3, <1>4, <1>5, EntryPut
  <2> QED
    BY <2>2, <2>3
<1>6. new \in Content /\ Vetted(new) /\ DOMAIN ReadRegistry \subseteq DOMAIN new
  BY <1>4, <1>5
<1>7. (creates => t \in DOMAIN new) /\ creates \in BOOLEAN
      /\ (~creates => op[p].kind \in {"evidence", "status"})
  BY <1>2, <1>5
<1> HIDE DEF entry, creates, new, what
<1>8. /\ pc'[p] = IF creates THEN "opening" ELSE "getting"
      /\ copy'[p] = new
      /\ \A q \in Process \ {p} : pc'[q] = pc[q] /\ copy'[q] = copy[q]
  BY <1>1 DEF LibraryTypeOK
<1>9. LibraryTypeOK'
  BY <1>1, <1>6, <1>7, <1>14 DEF LibraryTypeOK
<1>10. \A q \in Process : OperationFits(q)'
  BY <1>1, <1>2, <1>7, <1>8, <1>14 DEF OperationFits
<1>11. ReviewsTravel'
  <2>1. \A u : Trusted(u) => Trusted(u)'
    BY <1>1 DEF Trusted
  <2>2. \A q \in Process : Vetted(copy[q])'
    BY <1>6, <1>8, <2>1 DEF Vetted, ReviewsTravel
  <2>3. \A q \in Process : SeesItsScript(q)'
    <3>1. ASSUME NEW q \in Process
          PROVE  SeesItsScript(q)'
      <4>1. ~overlapped' => ~overlapped
        BY <1>1 DEF LibraryTypeOK
      <4>2. pc[p] # "idle" /\ SeesItsScript(q) /\ source' = source
        BY <1>1 DEF ReviewsTravel
      <4>3. op'[q].kind = "status" => op'[q] = op[q]
        BY <1>14
      <4>4. pc'[q] # "idle" => pc[q] # "idle"
        BY <1>8, <4>2
      <4> QED
        BY <4>1, <4>2, <4>3, <4>4 DEF SeesItsScript
    <3> QED
      BY <3>1
  <2> QED
    BY <1>1, <2>1, <2>2, <2>3 DEF ReviewsTravel, Vetted
<1>12. ASSUME ~overlapped'
       PROVE  UpdatesAreAlone'
  <2>1. ~overlapped /\ \A q \in Process \ {p} : pc[q] \notin Updating
    BY <1>1, <1>12 DEF LibraryTypeOK
  <2>2. ReadRegistry = registry
    BY <2>1, ReadIsContent DEF UpdatesAreAlone
  <2>3. AloneWithAll(p)'
    BY <2>1, <2>2, <1>1, <1>6, <1>7, <1>8, <1>14 DEF AloneWithAll
  <2>4. ASSUME NEW q \in Process \ {p}
        PROVE  AloneWithAll(q)'
    BY <2>1, <1>1, <1>8, <1>14 DEF AloneWithAll, UpdatesAreAlone, Updating
  <2>5. SlugIsOwn(p)'
    BY <2>2, <1>1, <1>8, <1>13, <1>14 DEF SlugIsOwn
  <2>6. ASSUME NEW q \in Process \ {p}
        PROVE  SlugIsOwn(q)'
    BY <2>1, <1>1, <1>8, <1>14 DEF SlugIsOwn, UpdatesAreAlone
  <2> QED
    BY <2>1, <2>3, <2>4, <2>5, <2>6, <1>1 DEF UpdatesAreAlone
<1> QED
  BY <1>9, <1>10, <1>11, <1>12

\* Changing an entry that is there keeps who has reviewed it.
LEMMA GetKeeps ==
    ASSUME LibraryInv, NEW p \in Process, Get(p)
    PROVE  LibraryInv'
<1> USE DEF LibraryInv
<1> DEFINE t == op[p].tool
           entry == Changed(op[p], ReadRegistry[t])
           new == Entered(copy[p], t, entry)
<1>1. /\ pc[p] = "getting"
      /\ UNCHANGED <<registry, temp, source, handle, occurrences, successes, confidence, bound,
                     observed, registered, changes, overlapped, ran>>
  BY DEF Get, At, fileVars, ledgerVars, operatorVars
<1>2. /\ op[p] \in Operation /\ op[p].kind \in {"evidence", "status"} /\ t \in Pattern \cup Added
      /\ op[p].kind = "status" => /\ op[p].status \in {"active", "disabled"} /\ op[p].approved \in BOOLEAN
                                /\ op[p].there \in Nat
      /\ handle[p] = "none"
  BY <1>1, OperationShape DEF OperationFits
<1>3. CASE t \notin DOMAIN ReadRegistry
  <2>1. Finish(p) /\ UNCHANGED <<reviewed, seen, hasty>>
    BY <1>3 DEF Get, reviewVars
  <2>2. handle' = [handle EXCEPT ![p] = "none"]
    BY <1>1, <1>2 DEF LibraryTypeOK
  <2> QED
    BY <1>1, <2>1, <2>2, FinishKeeps DEF UpdatesAreAlone, LibraryTypeOK
<1>4. CASE t \in DOMAIN ReadRegistry
  <2>1. /\ copy' = [copy EXCEPT ![p] = new]
        /\ pc' = [pc EXCEPT ![p] = "opening"] /\ op' = op
        /\ Reviews(op[p])
    BY <1>4 DEF Get, Go
  <2>16. PICK x : x = t
    OBVIOUS
  <2>12. /\ reviewed \subseteq reviewed' /\ seen \subseteq seen' /\ hasty \subseteq hasty'
         /\ reviewed' \subseteq Added \cup Pattern /\ hasty' \subseteq Added \cup Pattern
         /\ seen' \subseteq Nat \ {0}
         /\ op[p].kind = "status" /\ op[p].approved =>
                 /\ t \in reviewed'
                 /\ op[p].there = 0 => t \in hasty'
                 /\ op[p].there # 0 => op[p].there \in seen'
    BY <1>2, <2>1 DEF Reviews, reviewVars, LibraryTypeOK
  <2>13. \A u : Trusted(u) => Trusted(u)'
    BY <1>1, <2>12 DEF Trusted
  <2>14. op[p].kind = "status" /\ op[p].approved => Trusted(x)'
    BY <1>1, <2>1, <2>12, <2>16 DEF Trusted, ReviewsTravel, SeesItsScript
  <2>2. ReadRegistry \in Content /\ Vetted(ReadRegistry)
    BY ReadIsContent
  <2>3. entry \in Tool /\ (entry.kind = "script" /\ entry.approved => Trusted(x)')
    <3>1. ReadRegistry[t] \in Tool
      BY <1>4, <2>2, EntryIsTool
    <3>2. ReadRegistry[t].kind = "script" /\ ReadRegistry[t].approved => Trusted(x)'
      BY <1>4, <2>2, <2>13, <2>16 DEF Vetted
    <3>3. CASE op[p].kind = "evidence"
      BY <3>1, <3>2, <3>3 DEF Changed
    <3>4. CASE op[p].kind = "status"
      <4>1. op[p].approved => Trusted(x)'
        BY <2>14, <3>4
      <4>2. op[p].status \in {"active", "disabled"} /\ op[p].approved \in BOOLEAN
        BY <1>2, <3>4
      <4>3. entry = [ReadRegistry[t] EXCEPT !.status = op[p].status,
                        !.approved = IF op[p].approved THEN TRUE ELSE @]
        BY <3>4 DEF Changed
      <4> HIDE DEF entry
      <4>4. /\ entry \in Tool /\ entry.kind = ReadRegistry[t].kind
            /\ entry.approved => ReadRegistry[t].approved \/ op[p].approved
        BY <3>1, <4>2, <4>3 DEF Tool
      <4>5. ASSUME entry.kind = "script", entry.approved
            PROVE  Trusted(x)'
        <5>1. CASE op[p].approved
          BY <4>1, <5>1
        <5>2. CASE ReadRegistry[t].approved
          <6>1. ReadRegistry[t].kind = "script"
            BY <4>4, <4>5
          <6> QED
            BY <3>2, <5>2, <6>1
        <5> QED
          BY <4>4, <4>5, <5>1, <5>2
      <4> QED
        BY <4>4, <4>5
    <3> QED
      BY <1>2, <3>3, <3>4
  <2>4. copy[p] \in Content /\ Vetted(copy[p])
    BY DEF LibraryTypeOK, ReviewsTravel
  <2> HIDE DEF entry
  <2>5. /\ new \in Content
        /\ DOMAIN copy[p] \subseteq DOMAIN new /\ t \in DOMAIN new
    BY <1>2, <2>3, <2>4, EntryPut
  <2>15. \A u \in DOMAIN new : new[u].kind = "script" /\ new[u].approved => Trusted(u)'
    <3>1. ASSUME NEW u \in DOMAIN new, new[u].kind = "script", new[u].approved
          PROVE  Trusted(u)'
      <4>1. CASE u = t
        <5>1. new[u] = entry
          BY <4>1 DEF Entered
        <5>2. entry.kind = "script" /\ entry.approved
          BY <3>1, <5>1
        <5>3. Trusted(x)'
          BY <2>3, <5>2
        <5> QED
          BY <2>16, <4>1, <5>3
      <4>2. CASE u # t
        <5>1. u \in DOMAIN copy[p] /\ new[u] = copy[p][u]
          BY <4>2 DEF Entered
        <5> QED
          BY <2>4, <2>13, <3>1, <5>1 DEF Vetted
      <4> QED
        BY <4>1, <4>2
    <3> QED
      BY <3>1
  <2> HIDE DEF new
  <2>7. /\ pc'[p] = "opening" /\ copy'[p] = new
        /\ \A q \in Process \ {p} : pc'[q] = pc[q] /\ copy'[q] = copy[q]
    BY <2>1 DEF LibraryTypeOK
  <2>8. LibraryTypeOK'
    BY <1>1, <2>1, <2>5, <2>12 DEF LibraryTypeOK
  <2>9. \A q \in Process : OperationFits(q)'
    BY <1>1, <1>2, <2>1, <2>7 DEF OperationFits
  <2>10. ReviewsTravel'
    <3>1. \A q \in Process : SeesItsScript(q)'
      BY <1>1, <2>1, <2>7 DEF ReviewsTravel, SeesItsScript
    <3>2. \A q \in Process : Vetted(copy[q])'
      BY <2>7, <2>13, <2>15 DEF ReviewsTravel, Vetted
    <3> QED
      BY <1>1, <2>12, <2>13, <3>1, <3>2 DEF ReviewsTravel, Vetted
  <2>11. ASSUME ~overlapped
         PROVE  UpdatesAreAlone'
    <3>1. UpdatesAreAlone /\ AloneWithAll(p)
      BY <2>11 DEF UpdatesAreAlone
    <3>2. AloneWithAll(p)'
      BY <3>1, <1>1, <1>2, <2>1, <2>5, <2>7 DEF AloneWithAll, Updating
    <3>3. ASSUME NEW q \in Process \ {p}
          PROVE  AloneWithAll(q)'
      BY <3>1, <1>1, <2>1, <2>7 DEF AloneWithAll, UpdatesAreAlone, Updating
    <3>4. \A q \in Process : SlugIsOwn(q)'
      BY <3>1, <1>1, <1>2, <2>1, <2>7 DEF SlugIsOwn, UpdatesAreAlone
    <3> QED
      BY <3>1, <3>2, <3>3, <3>4, <1>1 DEF UpdatesAreAlone
  <2> QED
    BY <1>1, <2>8, <2>9, <2>10, <2>11
<1> QED
  BY <1>3, <1>4

\* write_text truncates the temporary file, whoever else has it open.
LEMMA OpenKeeps ==
    ASSUME LibraryInv, NEW p \in Process, Open(p)
    PROVE  LibraryInv'
<1> USE DEF LibraryInv
<1>1. /\ pc[p] = "opening" /\ temp' = Truncated
      /\ handle' = [handle EXCEPT ![p] = "temp"] /\ pc' = [pc EXCEPT ![p] = "filling"]
      /\ UNCHANGED <<registry, occurrences, successes, confidence, bound, observed, op, copy,
                     source, registered, reviewed, seen, hasty, changes, overlapped, ran>>
  BY DEF Open, At, Go, ledgerVars, operatorVars, reviewVars
<1>2. /\ pc'[p] = "filling" /\ handle'[p] = "temp"
      /\ \A q \in Process \ {p} : pc'[q] = pc[q] /\ handle'[q] = handle[q]
  BY <1>1 DEF LibraryTypeOK
<1>3. LibraryTypeOK'
  BY <1>1 DEF LibraryTypeOK, Unreadable
<1>4. \A q \in Process : OperationFits(q)'
  BY <1>1, <1>2 DEF OperationFits
<1>5. ReviewsTravel'
  <2>1. \A t : Trusted(t) => Trusted(t)'
    BY <1>1 DEF Trusted
  <2>2. \A q \in Process : SeesItsScript(q)'
    BY <1>1, <1>2 DEF ReviewsTravel, SeesItsScript
  <2> QED
    BY <1>1, <2>1, <2>2 DEF ReviewsTravel, Vetted, Unreadable
<1>6. ASSUME ~overlapped
      PROVE  UpdatesAreAlone'
  <2>1. UpdatesAreAlone /\ AloneWithAll(p)
    BY <1>6 DEF UpdatesAreAlone
  <2>2. AloneWithAll(p)'
    BY <2>1, <1>1, <1>2 DEF AloneWithAll, Updating
  <2>3. ASSUME NEW q \in Process \ {p}
        PROVE  AloneWithAll(q)'
    BY <2>1, <1>1, <1>2 DEF AloneWithAll, UpdatesAreAlone, Updating
  <2>4. \A q \in Process : SlugIsOwn(q)'
    BY <2>1, <1>1, <1>2 DEF SlugIsOwn, UpdatesAreAlone
  <2> QED
    BY <2>1, <2>2, <2>3, <2>4, <1>1 DEF UpdatesAreAlone
<1> QED
  BY <1>1, <1>3, <1>4, <1>5, <1>6

\* The registry is filled, or mixed up, only when the temporary file was renamed
\* under the process that fills it.
LEMMA FillKeeps ==
    ASSUME LibraryInv, NEW p \in Process, Fill(p)
    PROVE  LibraryInv' /\ (~overlapped' => registry' = registry)
<1> USE DEF LibraryInv
<1>1. /\ pc[p] = "filling"
      /\ handle' = [handle EXCEPT ![p] = "none"] /\ pc' = [pc EXCEPT ![p] = "renaming"]
      /\ UNCHANGED <<occurrences, successes, confidence, bound, observed, op, copy,
                     source, registered, reviewed, seen, hasty, changes, overlapped, ran>>
  BY DEF Fill, At, Go, ledgerVars, operatorVars, reviewVars
<1>2. /\ temp' = temp \/ temp' \in {copy[p], Garbled}
      /\ registry' = registry \/ registry' \in {copy[p], Garbled}
      /\ handle[p] = "temp" => temp' \in Filled(p, temp) /\ registry' = registry
  BY DEF Fill, Filled
<1>3. /\ pc'[p] = "renaming" /\ handle'[p] = "none"
      /\ \A q \in Process \ {p} : pc'[q] = pc[q] /\ handle'[q] = handle[q]
  BY <1>1 DEF LibraryTypeOK
<1>4. LibraryTypeOK'
  BY <1>1, <1>2 DEF LibraryTypeOK, Unreadable
<1>5. \A q \in Process : OperationFits(q)'
  BY <1>1, <1>3 DEF OperationFits
<1>6. ReviewsTravel'
  <2>2. \A t : Trusted(t) => Trusted(t)'
    BY <1>1 DEF Trusted
  <2>1. (registry' \notin Unreadable => Vetted(registry)')
        /\ (temp' \notin Unreadable \cup {Absent} => Vetted(temp)')
    BY <1>2, <2>2 DEF ReviewsTravel, Vetted, Unreadable
  <2>3. \A q \in Process : SeesItsScript(q)'
    BY <1>1, <1>3 DEF ReviewsTravel, SeesItsScript
  <2> QED
    BY <2>1, <2>2, <2>3, <1>1 DEF ReviewsTravel, Vetted
<1>7. ASSUME ~overlapped
      PROVE  UpdatesAreAlone' /\ registry' = registry
  <2>1. UpdatesAreAlone /\ AloneWithAll(p)
    BY <1>7 DEF UpdatesAreAlone
  <2>2. temp' = copy[p] /\ registry' = registry
    BY <2>1, <1>1, <1>2 DEF AloneWithAll, Filled
  <2>3. AloneWithAll(p)'
    BY <2>1, <2>2, <1>1, <1>3 DEF AloneWithAll, Updating
  <2>4. ASSUME NEW q \in Process \ {p}
        PROVE  AloneWithAll(q)'
    BY <2>1, <2>2, <1>1, <1>3 DEF AloneWithAll, UpdatesAreAlone, Updating
  <2>5. \A q \in Process : SlugIsOwn(q)'
    BY <2>1, <2>2, <1>1, <1>3 DEF SlugIsOwn, UpdatesAreAlone
  <2> QED
    BY <2>1, <2>2, <2>3, <2>4, <2>5, <1>1 DEF UpdatesAreAlone
<1> QED
  BY <1>1, <1>4, <1>5, <1>6, <1>7

\* What os.replace puts in the registry's where has, of an update that was alone,
\* every tool that was there.
LEMMA RenameKeeps ==
    ASSUME LibraryInv, NEW p \in Process, Rename(p)
    PROVE  LibraryInv' /\ (~overlapped' => DOMAIN registry \subseteq DOMAIN registry')
<1> USE DEF LibraryInv
<1>1. /\ pc[p] = "renaming" /\ handle[p] = "none" /\ op[p] \in Operation
      /\ UNCHANGED <<source, occurrences, successes, confidence, bound, observed, registered,
                     reviewed, seen, hasty, changes, overlapped, ran>>
  BY DEF Rename, At, fileVars, ledgerVars, operatorVars, reviewVars, OperationFits
<1>2. CASE temp = Absent
  <2>1. Finish(p) /\ UNCHANGED <<registry, temp, handle>>
    BY <1>2 DEF Rename, fileVars
  <2>2. handle' = [handle EXCEPT ![p] = "none"]
    BY <1>1, <2>1 DEF LibraryTypeOK
  <2> QED
    BY <1>1, <2>1, <2>2, FinishKeeps DEF UpdatesAreAlone, LibraryTypeOK
<1>3. CASE temp # Absent
  <2>1. /\ registry' = temp /\ temp' = Absent
        /\ handle' = [q \in Process |-> IF handle[q] = "temp" THEN "registry"
                                        ELSE IF handle[q] = "registry" THEN "orphan"
                                        ELSE handle[q]]
        /\ \/ /\ op[p].kind = "scaffold"
              /\ pc' = [pc EXCEPT ![p] = "binding"] /\ op' = op /\ copy' = copy
           \/ /\ op[p].kind = "script"
              /\ pc' = [pc EXCEPT ![p] = "sourcing"] /\ op' = op /\ copy' = copy
           \/ /\ op' = [op EXCEPT ![p] = NoOp] /\ copy' = [copy EXCEPT ![p] = Empty]
              /\ pc' = [pc EXCEPT ![p] = "idle"]
    BY <1>3 DEF Rename, Finish, Go
  <2>2. /\ \/ pc'[p] = "binding" /\ op[p].kind = "scaffold" /\ op'[p] = op[p] /\ copy'[p] = copy[p]
           \/ pc'[p] = "sourcing" /\ op[p].kind = "script" /\ op'[p] = op[p] /\ copy'[p] = copy[p]
           \/ pc'[p] = "idle" /\ copy'[p] = Empty
        /\ \A q \in Process \ {p} : pc'[q] = pc[q] /\ op'[q] = op[q] /\ copy'[q] = copy[q]
        /\ \A q \in Process : handle[q] = "none" => handle'[q] = "none"
    BY <2>1 DEF LibraryTypeOK
  <2>3. LibraryTypeOK'
    <3>1. handle' \in [Process -> {"none", "temp", "registry", "orphan"}]
      BY <2>1 DEF LibraryTypeOK
    <3>2. registry' \in Content \cup Unreadable /\ temp' \in Content \cup Unreadable \cup {Absent}
      BY <1>3, <2>1 DEF LibraryTypeOK
    <3>3. /\ op' \in [Process -> Operation \cup {NoOp}] /\ copy' \in [Process -> Content]
          /\ pc' \in [Process -> {"idle", "observing", "reading", "getting", "opening", "filling",
                           "renaming", "binding", "sourcing"}]
      BY <2>1, EmptyIsContent DEF LibraryTypeOK
    <3> QED
      BY <3>1, <3>2, <3>3, <1>1 DEF LibraryTypeOK
  <2>4. \A q \in Process : OperationFits(q)'
    BY <1>1, <2>2 DEF OperationFits
  <2>5. ReviewsTravel'
    <3>1. Vetted(Empty)'
      BY EmptyIsContent DEF Vetted
    <3>5. \A t : Trusted(t) => Trusted(t)'
      BY <1>1 DEF Trusted
    <3>2. registry' \notin Unreadable => Vetted(registry)'
      BY <1>3, <2>1, <3>5 DEF ReviewsTravel, Vetted
    <3>3. \A q \in Process : Vetted(copy[q])'
      BY <2>2, <3>1, <3>5 DEF ReviewsTravel, Vetted
    <3>4. temp' \in Unreadable \cup {Absent}
      BY <2>1
    <3>6. \A q \in Process : SeesItsScript(q)'
      BY <1>1, <2>2 DEF ReviewsTravel, SeesItsScript
    <3> QED
      BY <1>1, <3>2, <3>3, <3>4, <3>6 DEF ReviewsTravel
  <2>6. ASSUME ~overlapped
        PROVE  UpdatesAreAlone' /\ DOMAIN registry \subseteq DOMAIN registry'
    <3>1. UpdatesAreAlone /\ AloneWithAll(p)
      BY <2>6 DEF UpdatesAreAlone
    <3>2. registry' = copy[p] /\ DOMAIN registry \subseteq DOMAIN copy[p]
      BY <3>1, <1>1, <2>1 DEF AloneWithAll, Updating
    <3>3. registry' \notin Unreadable
      BY <3>2, LibraryAssumption DEF LibraryTypeOK, Unreadable
    <3>4. AloneWithAll(p)'
      BY <3>1, <3>2, <1>1, <2>2 DEF AloneWithAll, Updating
    <3>5. ASSUME NEW q \in Process \ {p}
          PROVE  AloneWithAll(q)'
      BY <3>1, <3>2, <1>1, <2>2 DEF AloneWithAll, UpdatesAreAlone, Updating
    <3>6. SlugIsOwn(p)'
      <4>1. op[p].kind = "script" => op[p].tool \in DOMAIN registry'
        BY <3>1, <3>2, <1>1 DEF AloneWithAll
      <4>2. op[p].kind = "script" => /\ source[op[p].tool] = 0
                                     /\ op[p].tool \notin DOMAIN registry
        BY <3>1, <1>1, OperationShape DEF UpdatesAreAlone, SlugIsOwn
      <4>3. ASSUME NEW q \in Process \ {p}, pc[q] = "sourcing"
            PROVE  op[q].tool \in DOMAIN registry
        BY <3>1, <4>3 DEF UpdatesAreAlone, SlugIsOwn
      <4> QED
        BY <1>1, <2>2, <4>1, <4>2, <4>3 DEF SlugIsOwn
    <3>7. ASSUME NEW q \in Process \ {p}
          PROVE  SlugIsOwn(q)'
      <4>1. pc[q] \notin Updating /\ SlugIsOwn(q)
        BY <3>1, <1>1 DEF AloneWithAll, UpdatesAreAlone, Updating
      <4>2. op[p].kind = "script" => op[p].tool \notin DOMAIN registry
        BY <3>1, <1>1 DEF UpdatesAreAlone, SlugIsOwn
      <4> QED
        BY <1>1, <2>2, <3>2, <4>1, <4>2 DEF SlugIsOwn, Updating
    <3>8. \A t \in Added \cup Pattern : source'[t] # 0 => t \in DOMAIN registry'
      BY <3>1, <3>2, <1>1 DEF UpdatesAreAlone
    <3> QED
      BY <3>1, <3>2, <3>3, <3>4, <3>5, <3>6, <3>7, <3>8, <1>1 DEF UpdatesAreAlone
  <2> QED
    BY <1>1, <2>3, <2>4, <2>5, <2>6
<1> QED
  BY <1>2, <1>3

\* A pattern is bound to the tool that its update has put in the registry.
LEMMA BindKeeps ==
    ASSUME LibraryInv, NEW p \in Process, Bind(p)
    PROVE  LibraryInv'
<1>1. /\ pc[p] = "binding" /\ bound' = bound \cup {op[p].tool} /\ Finish(p)
      /\ UNCHANGED <<registry, temp, source, handle, occurrences, successes, confidence, observed,
                     registered, reviewed, seen, hasty, changes, overlapped, ran>>
  BY DEF Bind, At, fileVars, operatorVars, reviewVars
<1>2. op[p].tool \in Pattern /\ handle[p] = "none"
  BY <1>1, OperationShape DEF LibraryInv, OperationFits
<1>3. handle' = [handle EXCEPT ![p] = "none"]
  BY <1>1, <1>2 DEF LibraryInv, LibraryTypeOK
<1>4. bound' \subseteq Pattern /\ (~overlapped => bound' \subseteq DOMAIN registry)
  BY <1>1, <1>2 DEF LibraryInv, LibraryTypeOK, UpdatesAreAlone, AloneWithAll
<1> QED
  BY <1>1, <1>3, <1>4, FinishKeeps DEF LibraryInv, LibraryTypeOK

\* A crash ends one process's call and leaves the files as they are.
LEMMA CrashKeeps ==
    ASSUME LibraryInv, NEW p \in Process, Crash(p)
    PROVE  LibraryInv'
<1>1. /\ Finish(p) /\ handle' = [handle EXCEPT ![p] = "none"] /\ Change
      /\ UNCHANGED <<registry, temp, source, occurrences, successes, confidence, bound, observed,
                     registered, reviewed, seen, hasty, overlapped, ran>>
  BY DEF Crash, ledgerVars, reviewVars
<1>2. changes' \in 0..MaxChanges
  BY <1>1, LibraryAssumption DEF Change, LibraryInv, LibraryTypeOK
<1>3. bound' \subseteq Pattern /\ (~overlapped => bound' \subseteq DOMAIN registry)
  BY <1>1 DEF LibraryInv, LibraryTypeOK, UpdatesAreAlone
<1> QED
  BY <1>1, <1>2, <1>3, FinishKeeps DEF LibraryInv, LibraryTypeOK

\* A script is written where there was none, so no slug that is trusted gets another script.
LEMMA WriteSourceKeeps ==
    ASSUME LibraryInv, NEW p \in Process, WriteSource(p)
    PROVE  LibraryInv'
<1> USE DEF LibraryInv
<1> DEFINE t == op[p].tool
<1>1. /\ pc[p] = "sourcing" /\ source' = [source EXCEPT ![t] = op[p].number]
      /\ op' = [op EXCEPT ![p] = NoOp] /\ pc' = [pc EXCEPT ![p] = "idle"]
      /\ copy' = [copy EXCEPT ![p] = Empty]
      /\ UNCHANGED <<registry, temp, handle, occurrences, successes, confidence, bound, observed,
                     registered, reviewed, seen, hasty, changes, overlapped, ran>>
  BY DEF WriteSource, At, Finish, Go, ledgerVars, operatorVars, reviewVars
<1>2. t \in Added /\ op[p].number \in Nat \ {0} /\ handle[p] = "none"
  BY <1>1, OperationShape DEF OperationFits
<1>3. /\ pc'[p] = "idle" /\ copy'[p] = Empty
      /\ \A q \in Process \ {p} : pc'[q] = pc[q] /\ op'[q] = op[q] /\ copy'[q] = copy[q]
  BY <1>1 DEF LibraryTypeOK
<1>4. source' \in [Added \cup Pattern -> Nat] /\ \A u \in (Added \cup Pattern) \ {t} : source'[u] = source[u]
  BY <1>1, <1>2 DEF LibraryTypeOK
<1>5. LibraryTypeOK'
  BY <1>1, <1>4, EmptyIsContent DEF LibraryTypeOK
<1>6. \A q \in Process : OperationFits(q)'
  BY <1>1, <1>2, <1>3 DEF OperationFits
<1>7. ~overlapped => source[t] = 0 /\ t \in DOMAIN registry
  BY <1>1 DEF UpdatesAreAlone, SlugIsOwn
<1>8. ASSUME NEW u \in Added \cup Pattern, Trusted(u)
      PROVE  Trusted(u)'
  <2>1. CASE u = t
    BY <1>1, <1>7, <1>8, <2>1 DEF Trusted, LibraryTypeOK
  <2>2. CASE u # t
    BY <1>1, <1>4, <1>8, <2>2 DEF Trusted
  <2> QED
    BY <2>1, <2>2
<1>9. ASSUME NEW c \in Content, Vetted(c)
      PROVE  \A u \in DOMAIN c : c[u].kind = "script" /\ c[u].approved => Trusted(u)'
  BY <1>8, <1>9, EntryIsTool DEF Vetted
<1>10. ReviewsTravel'
  <2>1. Vetted(Empty)'
    BY EmptyIsContent DEF Vetted
  <2>2. \A q \in Process : Vetted(copy[q])'
    <3>1. \A q \in Process : copy[q] \in Content /\ Vetted(copy[q])
      BY DEF LibraryTypeOK, ReviewsTravel
    <3> QED
      BY <1>3, <1>9, <2>1, <3>1 DEF Vetted
  <2>3. registry' \notin Unreadable => Vetted(registry)'
    BY <1>1, <1>9 DEF LibraryTypeOK, ReviewsTravel, Vetted
  <2>4. temp' \notin Unreadable \cup {Absent} => Vetted(temp)'
    BY <1>1, <1>9 DEF LibraryTypeOK, ReviewsTravel, Vetted
  <2>5. ASSUME NEW q \in Process
        PROVE  SeesItsScript(q)'
    <3>1. CASE q = p
      BY <1>3, <3>1 DEF SeesItsScript
    <3>2. CASE q # p
      <4>1. SeesItsScript(q) /\ OperationFits(q)
        BY DEF ReviewsTravel
      <4>2. pc[q] # "idle" /\ op[q].kind = "status" => /\ op[q].tool \in Added \cup Pattern
                                                      /\ op[q].there \in Nat
        BY <4>1, OperationShape DEF OperationFits
      <4> QED
        BY <1>1, <1>3, <1>4, <1>7, <3>2, <4>1, <4>2 DEF SeesItsScript
    <3> QED
      BY <3>1, <3>2
  <2> QED
    BY <1>1, <2>2, <2>3, <2>4, <2>5 DEF ReviewsTravel
<1>11. ASSUME ~overlapped
       PROVE  UpdatesAreAlone'
  <2>1. UpdatesAreAlone
    BY <1>11
  <2>2. \A q \in Process : AloneWithAll(q)'
    BY <2>1, <1>1, <1>3 DEF UpdatesAreAlone, AloneWithAll, Updating
  <2>3. \A u \in Added \cup Pattern : source'[u] # 0 => u \in DOMAIN registry'
    BY <2>1, <1>1, <1>4, <1>7, <1>11 DEF UpdatesAreAlone
  <2>4. ASSUME NEW q \in Process
        PROVE  SlugIsOwn(q)'
    <3>1. CASE q = p
      BY <1>3, <3>1 DEF SlugIsOwn
    <3>2. CASE q # p
      <4>1. SlugIsOwn(q) /\ SlugIsOwn(p) /\ OperationFits(q)
        BY <2>1 DEF UpdatesAreAlone
      <4>2. pc[q] = "sourcing" => op[q].tool \in Added /\ op[q].tool # t
        BY <1>1, <3>2, <4>1, OperationShape DEF OperationFits, SlugIsOwn
      <4> QED
        BY <1>1, <1>3, <1>4, <3>2, <4>1, <4>2 DEF SlugIsOwn
    <3> QED
      BY <3>1, <3>2
  <2> QED
    BY <1>1, <2>1, <2>2, <2>3, <2>4 DEF UpdatesAreAlone
<1> QED
  BY <1>1, <1>5, <1>6, <1>10, <1>11

\* Nothing but the scripts that were started is changed, or not even they.
LEMMA RunKeeps ==
    ASSUME LibraryInv,
           UNCHANGED <<fileVars, ledgerVars, procVars, operatorVars, overlapped>>,
           ~overlapped => \A r \in ran' : r[2] \in seen \/ r[1] \in hasty,
           ran' \subseteq (Added \cup Pattern) \X (Nat \ {0})
    PROVE  LibraryInv'
<1> USE DEF LibraryInv
<1>1. /\ UNCHANGED <<registry, temp, source, handle, occurrences, successes, confidence, bound,
                     observed, pc, op, copy>>
      /\ UNCHANGED <<registered, reviewed, seen, hasty, changes, overlapped>>
  BY DEF fileVars, ledgerVars, procVars, operatorVars, reviewVars
<1>2. LibraryTypeOK'
  BY <1>1 DEF LibraryTypeOK
<1>3. \A q \in Process : OperationFits(q)'
  BY <1>1 DEF OperationFits
<1>4. ReviewsTravel'
  BY <1>1 DEF ReviewsTravel, Vetted, Trusted, SeesItsScript
<1>5. ~overlapped' => UpdatesAreAlone'
  BY <1>1 DEF UpdatesAreAlone, AloneWithAll, SlugIsOwn
<1> QED
  BY <1>2, <1>3, <1>4, <1>5

\* A script is started on one read of an entry that is approved.
LEMMA RunIsReviewed ==
    ASSUME LibraryInv, NEW t \in Added, Run(t)
    PROVE  /\ UNCHANGED <<fileVars, ledgerVars, procVars, operatorVars, overlapped>>
           /\ ~overlapped => \A r \in ran' : r[2] \in seen \/ r[1] \in hasty
           /\ ran' \subseteq (Added \cup Pattern) \X (Nat \ {0})
<1>1. Vetted(ReadRegistry)
  BY ReadIsContent DEF LibraryInv
<1>2. Trusted(t)
  BY <1>1 DEF Run, Vetted
<1>3. ran' = ran \cup {<<t, source[t]>>} /\ source[t] \in Nat \ {0}
  BY DEF Run, LibraryInv, LibraryTypeOK
<1>4. UNCHANGED <<fileVars, ledgerVars, procVars, operatorVars, overlapped>>
  BY DEF Run
<1> QED
  BY <1>2, <1>3, <1>4 DEF Trusted, LibraryInv, LibraryTypeOK, ReviewsTravel

\* Every step keeps the invariant, and of an installation whose updates have not
\* overlapped it takes no tool away.
LEMMA LibraryKeeps ==
    ASSUME LibraryInv, [LibraryNext]_libraryVars
    PROVE  LibraryInv' /\ (~overlapped' => DOMAIN registry \subseteq DOMAIN registry')
<1>1. CASE Quiet \/ UNCHANGED libraryVars
  <2>1. UNCHANGED <<fileVars, ledgerVars, procVars, operatorVars, overlapped, ran>>
    BY <1>1 DEF Quiet, libraryVars
  <2>2. /\ ~overlapped => \A r \in ran' : r[2] \in seen \/ r[1] \in hasty
        /\ ran' \subseteq (Added \cup Pattern) \X (Nat \ {0}) /\ registry' = registry
    BY <2>1 DEF LibraryInv, LibraryTypeOK, ReviewsTravel, fileVars
  <2> QED
    BY <2>1, <2>2, RunKeeps
<1>2. CASE \E t \in Added : Run(t)
  <2>1. PICK t \in Added : Run(t)
    BY <1>2
  <2>2. registry' = registry
    BY <2>1 DEF Run, fileVars
  <2> QED
    BY <2>1, <2>2, RunIsReviewed, RunKeeps
<1>3. ASSUME NEW p \in Process,
             \/ \E g \in Pattern, success \in BOOLEAN : Observe(p, g, success)
             \/ \E g \in Pattern : Analyze(p, g)
             \/ \E t \in Added, kind \in {"recipe", "script"}, active \in BOOLEAN :
                    Add(p, t, kind, active)
             \/ \E t \in Added \cup Pattern :
                    SetStatus(p, t, "active", TRUE) \/ SetStatus(p, t, "disabled", FALSE)
      PROVE  LibraryInv' /\ registry' = registry
  <2>1. registry' = registry
    BY <1>3 DEF Observe, Analyze, Add, SetStatus, fileVars
  <2> QED
    BY <1>3, <2>1, CallKeeps
<1>4. ASSUME NEW p \in Process, Upsert(p) \/ Read(p) \/ Get(p) \/ Open(p) \/ Bind(p) \/ WriteSource(p)
                               \/ Crash(p)
      PROVE  LibraryInv' /\ registry' = registry
  <2>1. registry' = registry
    BY <1>4 DEF Upsert, Read, Get, Open, Bind, WriteSource, Crash, fileVars
  <2> QED
    BY <1>4, <2>1, UpsertKeeps, ReadKeeps, GetKeeps, OpenKeeps, BindKeeps, WriteSourceKeeps,
       CrashKeeps
<1>5. ASSUME NEW p \in Process, Fill(p) \/ Rename(p)
      PROVE  LibraryInv' /\ (~overlapped' => DOMAIN registry \subseteq DOMAIN registry')
  <2>1. CASE Fill(p)
    BY <2>1, FillKeeps
  <2>2. CASE Rename(p)
    BY <2>2, RenameKeeps
  <2> QED
    BY <1>5, <2>1, <2>2
<1> QED
  <2>1. CASE LibraryNext
    <3>1. CASE \E p \in Process : \/ \E g \in Pattern, success \in BOOLEAN : Observe(p, g, success)
                                  \/ \E g \in Pattern : Analyze(p, g)
                                  \/ \E t \in Added, kind \in {"recipe", "script"}, active \in BOOLEAN :
                                         Add(p, t, kind, active)
                                  \/ \E t \in Added \cup Pattern :
                                         \/ SetStatus(p, t, "active", TRUE)
                                         \/ SetStatus(p, t, "disabled", FALSE)
      BY <3>1, <1>3
    <3>2. CASE \E p \in Process : Step(p) \/ Crash(p)
      BY <3>2, <1>4, <1>5 DEF Step
    <3> QED
      BY <2>1, <3>1, <3>2, <1>1, <1>2 DEF LibraryNext
  <2> QED
    BY <2>1, <1>1

\* The invariant holds in every state, for any processes, patterns and tools.
THEOREM LibraryInvariant == LibrarySpec => []LibraryInv
<1> QED
  BY LibraryInitially, LibraryKeeps, PTL DEF LibrarySpec

\* Every variable of the tool library keeps its type.
THEOREM LibraryTypeCorrect == LibrarySpec => []LibraryTypeOK
<1>1. LibraryInv => LibraryTypeOK
  BY DEF LibraryInv
<1> QED
  BY <1>1, LibraryInvariant, PTL

\* No interleaving, torn read or crash makes a script approved under a slug no operator approved;
\* and while updates have not overlapped, no script is started but one an operator saw when
\* approving its slug, or whose slug was approved before the script was there
\* (service.py:1048-1081, tool_library.py:195-222).
THEOREM ScriptsAlwaysReviewed == LibrarySpec => []ScriptsNeedReview
<1>1. LibraryInv => ScriptsNeedReview
  BY DEF LibraryInv, ReviewsTravel, Vetted, Trusted, ScriptsNeedReview
<1> QED
  BY <1>1, LibraryInvariant, PTL

\* No update that overlapped with none takes a tool out, makes the registry unreadable or leaves
\* a pattern without its tool (tool_library.py:52-66, patterns.py:77-90).
THEOREM ToolsAlwaysSurvive == LibrarySpec => ToolsSurviveAlone
<1>1. ASSUME LibraryInv, [LibraryNext]_libraryVars
      PROVE  [~overlapped' =>
                 /\ registry' \notin Unreadable
                 /\ DOMAIN registry \subseteq DOMAIN registry'
                 /\ bound' \subseteq DOMAIN registry']_libraryVars
  <2>1. LibraryInv' /\ (~overlapped' => DOMAIN registry \subseteq DOMAIN registry')
    BY <1>1, LibraryKeeps
  <2>2. Unreadable' = Unreadable
    BY DEF Unreadable
  <2> QED
    BY <2>1, <2>2 DEF LibraryInv, UpdatesAreAlone
<1> QED
  BY <1>1, LibraryInvariant, PTL DEF LibrarySpec, ToolsSurviveAlone

------------------------------------------------------------------------------
(***************************************************************************)
(* The usage database, for any processes, places, files and rows.  A row   *)
(* is safe because the file it was written to has a name; so the invariant *)
(* says that whoever is about to write has a file open that still has one, *)
(* as long as no backup was overwritten.                                   *)
(***************************************************************************)

\* A process that writes has a file open, and while no place was quarantined
\* twice in a second the file it has open still has a name.
OpenedStays ==
    /\ \A p \in Proc : step[p] \in {"looking", "writing"} => opened[p] # NoFile
    /\ ~doubled => \A p \in Proc : opened[p] # NoFile => opened[p] \in Named

UsageInv == UsageTypeOK /\ OpenedStays /\ RowsAreKept

\* At the start nothing is open and nothing is inserted.
LEMMA UsageInitially ==
    ASSUME UsageInit
    PROVE  UsageInv
<1>1. \E first \in FileId \cup {NoFile} :
          /\ at = [x \in Place |-> IF x = "state" THEN first ELSE NoFile]
          /\ columns = [f \in FileId |-> IF f = first THEN "old" ELSE "none"]
  BY UsageAssumption DEF UsageInit
<1>2. at \in [Place -> FileId \cup {NoFile}] /\ columns \in [FileId -> {"none", "old", "new"}]
  BY <1>1
<1>3. /\ step \in [Proc -> {"stopped", "connecting", "looking", "refused", "up", "writing"}]
      /\ place \in [Proc -> Place] /\ recovers \in [Proc -> BOOLEAN]
      /\ opened \in [Proc -> FileId \cup {NoFile}] /\ saw \in [Proc -> {"old", "new"}]
      /\ inserted \subseteq Row /\ doubled \in BOOLEAN
  BY DEF UsageInit, Place
<1>4. /\ backup \in [Place -> [Second -> FileId \cup {NoFile}]]
      /\ rows \in [FileId -> [Row -> {"none", "prepared", "done"}]]
  BY DEF UsageInit
<1>5. second \in Second
  BY UsageAssumption DEF UsageInit, Second
<1>6. OpenedStays /\ RowsAreKept
  BY DEF UsageInit, OpenedStays, RowsAreKept
<1> QED
  BY <1>2, <1>3, <1>4, <1>5, <1>6 DEF UsageInv, UsageTypeOK

\* A name that is given to a file where there was none takes no file's name away.
LEMMA NamesStay ==
    ASSUME UsageTypeOK, backup' = backup,
           \A x \in Place : at[x] # NoFile => at'[x] = at[x]
    PROVE  Named \ {NoFile} \subseteq Named'
BY DEF Named

\* Rows stay kept when what they are in keeps its name and no row of a named
\* file is taken out.
LEMMA RowsStay ==
    ASSUME RowsAreKept, doubled' = doubled, inserted' = inserted,
           ~doubled => Named \ {NoFile} \subseteq Named',
           \A f \in Named \ {NoFile}, r \in Row : rows[f][r] # "none" => rows'[f][r] # "none",
           inserted \subseteq Row
    PROVE  RowsAreKept'
BY DEF RowsAreKept

\* What sqlite3.connect does: the file that is opened has a name afterwards, no
\* file loses its own, and a file that is created was none of those in use.
LEMMA Connected ==
    ASSUME UsageInv, NEW p \in Proc, Connects(p), backup' = backup
    PROVE  /\ opened'[p] \in FileId /\ opened' = Put(opened, p, opened'[p])
           /\ at' \in [Place -> FileId \cup {NoFile}]
           /\ opened'[p] \in Named' /\ Named \ {NoFile} \subseteq Named'
           /\ Contents(p)[1] \in [FileId -> {"none", "old", "new"}]
           /\ Contents(p)[2] \in [FileId -> [Row -> {"none", "prepared", "done"}]]
           /\ \A f \in Named \ {NoFile} : Contents(p)[2][f] = rows[f]
<1> USE DEF UsageInv
<1>0. place[p] \in Place
  BY DEF UsageTypeOK
<1>1. CASE at[place[p]] # NoFile
  <2>1. opened' = Put(opened, p, at[place[p]]) /\ at' = at
    BY <1>1 DEF Connects
  <2>2. opened'[p] = at[place[p]] /\ opened'[p] \in FileId
    BY <2>1, <1>0, <1>1 DEF Put, UsageTypeOK
  <2>3. Named' = Named /\ opened'[p] \in Named
    BY <2>1, <2>2, <1>0 DEF Named
  <2>4. Contents(p) = <<columns, rows>>
    BY <1>1 DEF Contents
  <2> QED
    BY <2>1, <2>2, <2>3, <2>4 DEF UsageTypeOK
<1>2. CASE at[place[p]] = NoFile
  <2>1. /\ FileId \ InUse # {}
        /\ opened' = Put(opened, p, Fresh) /\ at' = Put(at, place[p], Fresh)
    BY <1>2 DEF Connects
  <2>2. Fresh \in FileId /\ Fresh \notin InUse
    BY <2>1 DEF Fresh
  <2>3. opened'[p] = Fresh
    BY <2>1 DEF Put, UsageTypeOK
  <2>4. at' \in [Place -> FileId \cup {NoFile}] /\ at'[place[p]] = Fresh
    BY <2>1, <2>2, <1>0 DEF Put, UsageTypeOK
  <2>5. Fresh \in Named'
    BY <2>4, <1>0 DEF Named
  <2>6. Named \ {NoFile} \subseteq Named'
    <3>1. \A x \in Place : at[x] # NoFile => at'[x] = at[x]
      BY <2>1, <1>2, <1>0 DEF Put, UsageTypeOK
    <3> QED
      BY <3>1, NamesStay
  <2>7. Contents(p) = <<Put(columns, Fresh, "none"), Put(rows, Fresh, [r \in Row |-> "none"])>>
    BY <1>2, <2>3 DEF Contents
  <2>8. Contents(p)[1] \in [FileId -> {"none", "old", "new"}]
    BY <2>2, <2>7 DEF Put, UsageTypeOK
  <2>9. Contents(p)[2] \in [FileId -> [Row -> {"none", "prepared", "done"}]]
    <3>1. [r \in Row |-> "none"] \in [Row -> {"none", "prepared", "done"}]
      OBVIOUS
    <3> QED
      BY <3>1, <2>2, <2>7 DEF Put, UsageTypeOK
  <2>10. \A f \in Named \ {NoFile} : Contents(p)[2][f] = rows[f]
    <3>1. Named \ {NoFile} \subseteq FileId
      BY DEF Named, UsageTypeOK
    <3>2. Fresh \notin Named
      BY <2>2 DEF InUse
    <3> QED
      BY <3>1, <3>2, <2>7 DEF Put, UsageTypeOK
  <2> QED
    BY <2>1, <2>2, <2>3, <2>4, <2>5, <2>6, <2>8, <2>9, <2>10
<1> QED
  BY <1>1, <1>2

\* Opening the database makes its tables, and takes no row out.
LEMMA OpenTablesKeeps ==
    ASSUME UsageInv, NEW p \in Proc, OpenTables(p)
    PROVE  UsageInv'
<1> USE DEF UsageInv
<1>1. /\ step[p] = "connecting" /\ step' = [step EXCEPT ![p] = "looking"] /\ Connects(p)
      /\ rows' = Contents(p)[2]
      /\ UNCHANGED <<place, recovers, backup, second, inserted, doubled>>
  BY DEF OpenTables, Goes, Put, usageHistory
<1>2. /\ opened'[p] \in FileId /\ opened' = Put(opened, p, opened'[p])
      /\ at' \in [Place -> FileId \cup {NoFile}]
      /\ opened'[p] \in Named' /\ Named \ {NoFile} \subseteq Named'
      /\ Contents(p)[1] \in [FileId -> {"none", "old", "new"}]
      /\ Contents(p)[2] \in [FileId -> [Row -> {"none", "prepared", "done"}]]
      /\ \A f \in Named \ {NoFile} : Contents(p)[2][f] = rows[f]
  BY <1>1, Connected
<1>3. /\ columns' = IF Contents(p)[1][opened'[p]] = "none" THEN Put(Contents(p)[1], opened'[p], "new")
                    ELSE Contents(p)[1]
      /\ saw' = Put(saw, p, columns'[opened'[p]])
  BY DEF OpenTables
<1>4. columns' \in [FileId -> {"none", "old", "new"}] /\ columns'[opened'[p]] \in {"old", "new"}
  <2> DEFINE c == Contents(p)[1]
             f == opened'[p]
  <2>1. c \in [FileId -> {"none", "old", "new"}] /\ f \in FileId
    BY <1>2
  <2>2. columns' = IF c[f] = "none" THEN [c EXCEPT ![f] = "new"] ELSE c
    BY <1>3 DEF Put
  <2> HIDE DEF c, f
  <2>3. columns' \in [FileId -> {"none", "old", "new"}] /\ columns'[f] \in {"old", "new"}
    BY <2>1, <2>2
  <2> QED
    BY <2>3 DEF f
<1>5. saw' \in [Proc -> {"old", "new"}]
  BY <1>3, <1>4 DEF Put, UsageTypeOK
<1>6. opened' \in [Proc -> FileId \cup {NoFile}] /\ \A q \in Proc \ {p} : opened'[q] = opened[q]
  BY <1>2 DEF Put, UsageTypeOK
<1>7. UsageTypeOK'
  <2>1. step' \in [Proc -> {"stopped", "connecting", "looking", "refused", "up", "writing"}]
    BY <1>1 DEF UsageTypeOK
  <2> QED
    BY <2>1, <1>1, <1>2, <1>4, <1>5, <1>6 DEF UsageTypeOK
<1>8. OpenedStays'
  <2>1. \A q \in Proc : q # p => (step'[q] = step[q] /\ opened'[q] = opened[q])
    BY <1>1, <1>6 DEF UsageTypeOK
  <2>2. \A q \in Proc : step'[q] \in {"looking", "writing"} => opened'[q] # NoFile
    BY <1>2, <2>1, UsageAssumption DEF OpenedStays
  <2>3. ASSUME ~doubled', NEW q \in Proc, opened'[q] # NoFile
        PROVE  opened'[q] \in Named'
    <3>1. CASE q = p
      BY <1>2, <3>1
    <3>2. CASE q # p
      BY <1>1, <1>2, <2>1, <2>3, <3>2 DEF OpenedStays
    <3> QED
      BY <3>1, <3>2
  <2> QED
    BY <2>2, <2>3 DEF OpenedStays
<1>9. RowsAreKept'
  BY <1>1, <1>2, RowsStay DEF UsageTypeOK
<1> QED
  BY <1>7, <1>8, <1>9

\* So does the connection a write opens.
LEMMA OpenToWriteKeeps ==
    ASSUME UsageInv, NEW p \in Proc, OpenToWrite(p)
    PROVE  UsageInv'
<1> USE DEF UsageInv
<1>1. /\ step' = [step EXCEPT ![p] = "writing"] /\ Connects(p)
      /\ columns' = Contents(p)[1] /\ rows' = Contents(p)[2]
      /\ UNCHANGED <<place, recovers, saw, backup, second, inserted, doubled>>
  BY DEF OpenToWrite, Goes, Put, usageHistory
<1>2. /\ opened'[p] \in FileId /\ opened' = Put(opened, p, opened'[p])
      /\ at' \in [Place -> FileId \cup {NoFile}]
      /\ opened'[p] \in Named' /\ Named \ {NoFile} \subseteq Named'
      /\ Contents(p)[1] \in [FileId -> {"none", "old", "new"}]
      /\ Contents(p)[2] \in [FileId -> [Row -> {"none", "prepared", "done"}]]
      /\ \A f \in Named \ {NoFile} : Contents(p)[2][f] = rows[f]
  BY <1>1, Connected
<1>3. opened' \in [Proc -> FileId \cup {NoFile}] /\ \A q \in Proc \ {p} : opened'[q] = opened[q]
  BY <1>2 DEF Put, UsageTypeOK
<1>4. UsageTypeOK'
  <2>1. step' \in [Proc -> {"stopped", "connecting", "looking", "refused", "up", "writing"}]
    BY <1>1 DEF UsageTypeOK
  <2> QED
    BY <2>1, <1>1, <1>2, <1>3 DEF UsageTypeOK
<1>5. OpenedStays'
  <2>1. \A q \in Proc : q # p => (step'[q] = step[q] /\ opened'[q] = opened[q])
    BY <1>1, <1>3 DEF UsageTypeOK
  <2>2. \A q \in Proc : step'[q] \in {"looking", "writing"} => opened'[q] # NoFile
    BY <1>2, <2>1, UsageAssumption DEF OpenedStays
  <2>3. ASSUME ~doubled', NEW q \in Proc, opened'[q] # NoFile
        PROVE  opened'[q] \in Named'
    <3>1. CASE q = p
      BY <1>2, <3>1
    <3>2. CASE q # p
      BY <1>1, <1>2, <2>1, <2>3, <3>2 DEF OpenedStays
    <3> QED
      BY <3>1, <3>2
  <2> QED
    BY <2>2, <2>3 DEF OpenedStays
<1>6. RowsAreKept'
  BY <1>1, <1>2, RowsStay DEF UsageTypeOK
<1> QED
  BY <1>4, <1>5, <1>6

\* A place that is moved aside is named by a backup, in place of an older one of the same second.
LEMMA QuarantineKeeps ==
    ASSUME UsageInv, NEW p \in Proc, Quarantine(p)
    PROVE  UsageInv'
<1> USE DEF UsageInv
<1> DEFINE x == place[p]
<1>1. /\ step' = [step EXCEPT ![p] = "connecting"] /\ recovers' = [recovers EXCEPT ![p] = FALSE]
      /\ UNCHANGED <<place, opened, saw, columns, rows, second, inserted>>
  BY DEF Quarantine, Goes, Put
<1>2. x \in Place /\ second \in Second
  BY DEF UsageTypeOK
<1>3. /\ step' \in [Proc -> {"stopped", "connecting", "looking", "refused", "up", "writing"}]
      /\ recovers' \in [Proc -> BOOLEAN]
      /\ \A q \in Proc : step'[q] \in {"looking", "writing"} => step[q] \in {"looking", "writing"}
  BY <1>1 DEF UsageTypeOK
<1>4. CASE UNCHANGED <<at, backup, doubled>>
  <2>1. Named' = Named
    BY <1>4 DEF Named
  <2> QED
    BY <2>1, <1>1, <1>3, <1>4 DEF UsageTypeOK, OpenedStays, RowsAreKept
<1>5. CASE /\ at[x] # NoFile
           /\ backup' = [backup EXCEPT ![x][second] = at[x]]
           /\ at' = Put(at, x, NoFile)
           /\ doubled' = (doubled \/ backup[x][second] # NoFile)
  <2>1. at' \in [Place -> FileId \cup {NoFile}] /\ \A y \in Place \ {x} : at'[y] = at[y]
    BY <1>2, <1>5 DEF Put, UsageTypeOK
  <2>2. /\ backup' \in [Place -> [Second -> FileId \cup {NoFile}]]
        /\ backup'[x][second] = at[x]
        /\ \A y \in Place, s \in Second : y # x \/ s # second => backup'[y][s] = backup[y][s]
    BY <1>2, <1>5 DEF UsageTypeOK
  <2>3. doubled' \in BOOLEAN
    BY <1>5 DEF UsageTypeOK
  <2>4. ASSUME ~doubled'
        PROVE  Named \ {NoFile} \subseteq Named'
    <3>1. backup[x][second] = NoFile
      BY <1>5, <2>4 DEF UsageTypeOK
    <3>2. ASSUME NEW y \in Place, at[y] # NoFile
          PROVE  at[y] \in Named'
      BY <3>2, <1>2, <2>1, <2>2 DEF Named
    <3>3. ASSUME NEW y \in Place, NEW s \in Second, backup[y][s] # NoFile
          PROVE  backup[y][s] \in Named'
      BY <3>1, <3>3, <2>2 DEF Named
    <3> QED
      BY <3>2, <3>3 DEF Named
  <2>5. ~doubled' => ~doubled
    BY <1>5 DEF UsageTypeOK
  <2>6. UsageTypeOK'
    BY <1>1, <1>3, <2>1, <2>2, <2>3 DEF UsageTypeOK
  <2>7. OpenedStays'
    BY <1>1, <1>3, <2>4, <2>5 DEF OpenedStays
  <2>8. RowsAreKept'
    BY <1>1, <2>4, <2>5 DEF RowsAreKept
  <2> QED
    BY <2>6, <2>7, <2>8
<1> QED
  BY <1>4, <1>5 DEF Quarantine

\* The end of a process, or of its opening, takes nothing but what it had open.
LEMMA ForgettingKeeps ==
    ASSUME UsageInv, NEW p \in Proc, Forgets(p),
           UNCHANGED <<at, backup, rows, second, inserted, doubled>>,
           columns' \in [FileId -> {"none", "old", "new"}],
           step' \in [Proc -> {"stopped", "connecting", "looking", "refused", "up", "writing"}],
           place' \in [Proc -> Place],
           step'[p] \notin {"looking", "writing"}, \A q \in Proc \ {p} : step'[q] = step[q]
    PROVE  UsageInv'
<1> USE DEF UsageInv
<1>1. /\ opened' = [opened EXCEPT ![p] = NoFile] /\ recovers' = [recovers EXCEPT ![p] = TRUE]
      /\ saw' = [saw EXCEPT ![p] = "new"]
  BY DEF Forgets, Put
<1>2. UsageTypeOK'
  BY <1>1 DEF UsageTypeOK
<1>3. Named' = Named
  BY DEF Named
<1>4. opened'[p] = NoFile /\ \A q \in Proc \ {p} : opened'[q] = opened[q]
  BY <1>1 DEF UsageTypeOK
<1>5. OpenedStays'
  BY <1>3, <1>4 DEF OpenedStays
<1>6. RowsAreKept'
  BY <1>3 DEF RowsAreKept
<1> QED
  BY <1>2, <1>5, <1>6

\* Adding the columns, or failing to, ends the opening.
LEMMA EnsureColumnsKeeps ==
    ASSUME UsageInv, NEW p \in Proc, EnsureColumns(p)
    PROVE  UsageInv'
<1>1. Forgets(p) /\ UNCHANGED <<at, backup, rows, second, inserted, doubled>>
  BY DEF EnsureColumns, usageHistory
<1>2. \/ /\ columns' = [columns EXCEPT ![opened[p]] = "new"]
         /\ step' = [step EXCEPT ![p] = "up"] /\ place' = place
      \/ /\ columns' = columns
         /\ step' = [step EXCEPT ![p] = "stopped"] /\ place' = [place EXCEPT ![p] = "state"]
  BY DEF EnsureColumns, Ends, Goes, Put
<1>3. /\ columns' \in [FileId -> {"none", "old", "new"}]
      /\ step' \in [Proc -> {"stopped", "connecting", "looking", "refused", "up", "writing"}]
      /\ place' \in [Proc -> Place]
  BY <1>2 DEF UsageInv, UsageTypeOK, Place
<1>4. step'[p] \notin {"looking", "writing"} /\ \A q \in Proc \ {p} : step'[q] = step[q]
  BY <1>2 DEF UsageInv, UsageTypeOK
<1> QED
  BY <1>1, <1>3, <1>4, ForgettingKeeps

\* A process that stops forgets what it had open.
LEMMA StopProcessKeeps ==
    ASSUME UsageInv, NEW p \in Proc, StopProcess(p)
    PROVE  UsageInv'
<1>1. Forgets(p) /\ UNCHANGED <<at, backup, columns, rows, second, inserted, doubled>>
  BY DEF StopProcess, usageFiles, usageHistory
<1>2. step' = [step EXCEPT ![p] = "stopped"] /\ place' = [place EXCEPT ![p] = "state"]
  BY DEF StopProcess, Ends, Goes, Put
<1>3. /\ columns' \in [FileId -> {"none", "old", "new"}]
      /\ step' \in [Proc -> {"stopped", "connecting", "looking", "refused", "up", "writing"}]
      /\ place' \in [Proc -> Place]
      /\ step'[p] \notin {"looking", "writing"} /\ \A q \in Proc \ {p} : step'[q] = step[q]
  BY <1>1, <1>2 DEF UsageInv, UsageTypeOK, Place
<1> QED
  BY <1>1, <1>3, ForgettingKeeps

\* An open that fails moves on to the other place, or to the quarantine.
LEMMA RefusedKeeps ==
    ASSUME UsageInv, NEW p \in Proc, Refused(p)
    PROVE  UsageInv'
<1>1. UNCHANGED <<at, backup, columns, rows, second, inserted, doubled>> /\ step[p] = "connecting"
  BY DEF Refused, usageFiles, usageHistory
<1>2. CASE recovers[p]
  <2>1. step' = [step EXCEPT ![p] = "refused"] /\ UNCHANGED <<place, recovers, opened, saw>>
    BY <1>2 DEF Refused, Goes, Put
  <2>2. Named' = Named
    BY <1>1 DEF Named
  <2> QED
    BY <1>1, <2>1, <2>2 DEF UsageInv, UsageTypeOK, OpenedStays, RowsAreKept
<1>3. CASE ~recovers[p]
  <2>1. /\ Forgets(p)
        /\ \/ place' = [place EXCEPT ![p] = "temporary"] /\ step' = step
           \/ place' = [place EXCEPT ![p] = "state"] /\ step' = [step EXCEPT ![p] = "stopped"]
    BY <1>3 DEF Refused, Ends, Goes, Put
  <2>2. /\ columns' \in [FileId -> {"none", "old", "new"}]
        /\ step' \in [Proc -> {"stopped", "connecting", "looking", "refused", "up", "writing"}]
        /\ place' \in [Proc -> Place]
        /\ step'[p] \notin {"looking", "writing"} /\ \A q \in Proc \ {p} : step'[q] = step[q]
    BY <1>1, <2>1 DEF UsageInv, UsageTypeOK, Place
  <2> QED
    BY <1>1, <2>1, <2>2, ForgettingKeeps
<1> QED
  BY <1>2, <1>3

\* A process starts with nothing open.
LEMMA StartProcessKeeps ==
    ASSUME UsageInv, NEW p \in Proc, StartProcess(p)
    PROVE  UsageInv'
<1>1. /\ step' = [step EXCEPT ![p] = "connecting"]
      /\ UNCHANGED <<place, recovers, opened, saw, at, backup, columns, rows, second, inserted,
                     doubled>>
  BY DEF StartProcess, Goes, Put, usageFiles, usageHistory
<1>2. Named' = Named
  BY <1>1 DEF Named
<1> QED
  BY <1>1, <1>2 DEF UsageInv, UsageTypeOK, OpenedStays, RowsAreKept

\* A write adds a row to the file that is open, or changes one.
LEMMA WriteKeeps ==
    ASSUME UsageInv, NEW p \in Proc, NEW r \in Row, Insert(p, r) \/ Update(p, r)
    PROVE  UsageInv'
<1> USE DEF UsageInv
<1> DEFINE f == opened[p]
<1>1. /\ step[p] = "writing" /\ step' = [step EXCEPT ![p] = "up"]
      /\ opened' = [opened EXCEPT ![p] = NoFile]
      /\ UNCHANGED <<place, recovers, saw, at, backup, columns, second, doubled>>
  BY DEF Insert, Update, Goes, Put, usageHistory
<1>2. /\ inserted \subseteq inserted' /\ inserted' \subseteq inserted \cup {r}
      /\ \/ rows' = rows
         \/ rows' = [rows EXCEPT ![f][r] = "prepared"]
         \/ rows' = [rows EXCEPT ![f][r] = "done"]
      /\ r \in inserted' => r \in inserted \/ rows' = [rows EXCEPT ![f][r] = "prepared"]
  BY DEF Insert, Update, usageHistory
<1>3. f \in FileId
  BY <1>1 DEF OpenedStays, UsageTypeOK
<1>4. rows' \in [FileId -> [Row -> {"none", "prepared", "done"}]]
  <2>1. ASSUME NEW v \in {"prepared", "done"}
        PROVE  [rows EXCEPT ![f][r] = v] \in [FileId -> [Row -> {"none", "prepared", "done"}]]
    BY <1>3 DEF UsageTypeOK
  <2> QED
    BY <2>1, <1>2 DEF UsageTypeOK
<1>5. \A g \in FileId, s \in Row : rows[g][s] # "none" => rows'[g][s] # "none"
  BY <1>2, <1>3 DEF UsageTypeOK
<1>6. r \in inserted' \ inserted => rows'[f][r] # "none"
  BY <1>2, <1>3 DEF UsageTypeOK
<1>7. Named' = Named /\ Named \ {NoFile} \subseteq FileId
  BY <1>1 DEF Named, UsageTypeOK
<1>8. UsageTypeOK'
  <2>1. /\ step' \in [Proc -> {"stopped", "connecting", "looking", "refused", "up", "writing"}]
        /\ opened' \in [Proc -> FileId \cup {NoFile}] /\ inserted' \subseteq Row
    BY <1>1, <1>2 DEF UsageTypeOK
  <2> QED
    BY <2>1, <1>1, <1>4 DEF UsageTypeOK
<1>9. OpenedStays'
  BY <1>1, <1>7 DEF OpenedStays, UsageTypeOK
<1>10. RowsAreKept'
  <2>1. SUFFICES ASSUME ~doubled, NEW s \in inserted'
                 PROVE  \E g \in Named \ {NoFile} : rows'[g][s] # "none"
    BY <1>1, <1>7 DEF RowsAreKept
  <2>2. CASE s \in inserted
    BY <2>1, <2>2, <1>5, <1>7 DEF RowsAreKept, UsageTypeOK
  <2>3. CASE s \notin inserted
    <3>1. s = r /\ rows'[f][r] # "none"
      BY <2>1, <2>3, <1>2, <1>6
    <3>2. f \in Named \ {NoFile}
      BY <2>1, <1>3, UsageAssumption DEF OpenedStays
    <3> QED
      BY <3>1, <3>2
  <2> QED
    BY <2>2, <2>3
<1> QED
  BY <1>8, <1>9, <1>10

\* Every step keeps the invariant.
LEMMA UsageKeeps ==
    ASSUME UsageInv, [UsageNext]_usageVars
    PROVE  UsageInv'
<1>1. CASE UNCHANGED usageVars
  BY <1>1 DEF usageVars, usageProcs, usageFiles, usageHistory, UsageInv, UsageTypeOK, OpenedStays,
     RowsAreKept, Named
<1>2. CASE NextSecond
  <2>1. second' \in Second
    BY <1>2, UsageAssumption DEF NextSecond, Second, UsageInv, UsageTypeOK
  <2> QED
    BY <2>1, <1>2 DEF NextSecond, usageProcs, usageFiles, usageHistory, UsageInv, UsageTypeOK,
       OpenedStays, RowsAreKept, Named
<1> QED
  BY <1>1, <1>2, StartProcessKeeps, OpenTablesKeeps, EnsureColumnsKeeps, RefusedKeeps,
     QuarantineKeeps, OpenToWriteKeeps, StopProcessKeeps, WriteKeeps DEF UsageNext

\* The invariant holds in every state, for any processes, places, files and rows.
THEOREM UsageInvariant == UsageSpec => []UsageInv
<1> QED
  BY UsageInitially, UsageKeeps, PTL DEF UsageSpec

\* A row once inserted stays in the database of a place or in a backup, unless one place was
\* quarantined twice within a second (db.py:131-136, 195-210).
THEOREM RowsAlwaysKept == UsageSpec => []RowsAreKept
<1>1. UsageInv => RowsAreKept
  BY DEF UsageInv
<1> QED
  BY <1>1, UsageInvariant, PTL
==============================================================================
