-------------------------------- MODULE Pets ---------------------------------
(***************************************************************************)
(* The pet a frame keeps beside Codex: pet_renderer.py, which finds its    *)
(* pictures in Codex's cache, and what terminal_frame.py plays of them.    *)
(* The pet has a mood, which keys, session events and the prompt pipeline  *)
(* set at any time, and a track, which its state, a welcome or an action   *)
(* chose; the drawing loop steps through the track.                        *)
(*                                                                         *)
(* A track is the part of the cached cycle it plays, so the pictures       *)
(* themselves are not here.                                                *)
(***************************************************************************)
EXTENDS Naturals

CONSTANTS
    Pet,          \* names of pets
    NoPet,        \* no pet configured
    AssetDirs,    \* what LWA_PET_ASSET_DIR may be: sets of pets with a picture there, or NoDir
    NoDir,
    LengthOf,     \* the number of pictures of each part of a cycle
    MaxLoads      \* bound: pets loaded in one frame

ASSUME PetsAssumption ==
    /\ NoPet \notin Pet
    /\ \A dir \in AssetDirs \ {NoDir} : dir \subseteq Pet
    /\ MaxLoads \in Nat \ {0}

Mood == {"idle", "running", "needs-input", "ready", "blocked"}
Part == {"idle", "welcome", "action-1", "action-2", "completion"}

ASSUME LengthAssumption == LengthOf \in [Part -> Nat \ {0}]

Oneshot == {"welcome", "first action", "second action"}

VARIABLES
    host,     \* the frame's host: [graphics, events, assets], fixed for its life
    started,  \* the configured pet was looked for
    pet,      \* native_pet_playback: [generation, kind], of kind "none" before there is one
    mood,     \* native_pet_state
    play,     \* the track: [of, part, name, index], of a pet's generation
    drawn,    \* native_pet_frames is not empty
    placed,   \* native_pet_placed: the signature of the last painting, or << >>
    shown,    \* the picture the terminal shows, or << >>
    acting,   \* the time of native_pet_action_until is not over
    turn,     \* which action comes next
    pending   \* native_pet_response_pending

looks == <<drawn, placed, shown>>
petVars == <<host, started, pet, mood, play, looks, acting, turn, pending>>

Host == [graphics : BOOLEAN, events : BOOLEAN, assets : AssetDirs]

PetsTypeOK ==
    /\ host \in Host /\ started \in BOOLEAN
    /\ pet \in [generation : 0..MaxLoads, kind : {"none", "plain", "rich"}]
    /\ mood \in Mood
    /\ play \in [of : 0..MaxLoads, part : Part, name : Mood \cup Oneshot, index : Nat]
    /\ placed \in {<<>>} \cup ((Mood \cup Oneshot) \X Nat \X Nat)
    /\ shown \in {<<>>} \cup (Nat \X Part \X Nat)
    /\ drawn \in BOOLEAN /\ acting \in BOOLEAN /\ pending \in BOOLEAN
    /\ turn \in {1, 2}

Track(generation, part, name) ==
    [of |-> generation, part |-> part, name |-> name, index |-> 0]

PetsInit ==
    /\ host \in Host
    /\ started = FALSE
    /\ pet = [generation |-> 0, kind |-> "none"]
    /\ mood = "idle"
    /\ play = Track(0, "idle", "idle")
    /\ placed = <<>> /\ shown = <<>>
    /\ drawn = FALSE /\ acting = FALSE /\ pending = FALSE
    /\ turn = 1

------------------------------------------------------------------------------
(* Pictures *)

\* build_pet_playback_state and pet_track_for_state: a cycle of 72 pictures has all parts, a
\* shorter one is idle throughout, and none has a part for a blocked pet.
PartFor(kind, state) ==
    IF kind # "rich" THEN "idle"
    ELSE IF state = "running" THEN "action-1"
    ELSE IF state = "needs-input" THEN "welcome"
    ELSE IF state = "ready" THEN "completion"
    ELSE "idle"

\* resolve_pet_name: LWA_PET or the key of Codex's configuration.
Configured == Pet \cup {NoPet}

\* Pictures with something to see: a long cycle and a short one.
Visible == {"plain", "rich"}

\* What Codex's cache holds of a pet when it is read: nothing, a first picture that cannot be
\* shown, or a cycle, whose later pictures are left out where they cannot.
Cached == {"nothing", "unreadable"} \cup Visible

\* A pet with a first picture has a name, a number and a turn under /pets, whatever the picture.
Listed(cached) == cached # "nothing"

\* render_configured_pet: a pet asked for by name is taken from the cache, if it is there at all;
\* otherwise a directory of assets comes first, and gives single pictures.
Rendered(name, asked, cached) ==
    LET fromCache == IF cached \in Visible THEN cached ELSE "none" IN
    IF name = NoPet THEN "none"
    ELSE IF host.assets = NoDir \/ (asked /\ Listed(cached)) THEN fromCache
    ELSE IF name \in host.assets THEN "plain" ELSE "none"

------------------------------------------------------------------------------
(* Moods and tracks *)

\* Mutant of SetMood: a track that plays is left to its end.
SetMoodLater(state) ==
    /\ mood' = state
    /\ play' = IF acting THEN play ELSE Track(pet.generation, PartFor(pet.kind, state), state)
    /\ placed' = <<>>

\* set_pet_state
SetMood(state) ==
    /\ mood' = state
    /\ IF pet.kind = "none" THEN UNCHANGED <<play, placed>>
       ELSE play' = Track(pet.generation, PartFor(pet.kind, state), state) /\ placed' = <<>>

\* A pet has actions where pictures are drawn and its cycle has them.
HasActions == host.graphics /\ pet.kind = "rich"
Busy == HasActions /\ acting

ActionName(n) == IF n = 1 THEN "first action" ELSE "second action"

\* trigger_pet_action: one action at a time, in turn.
Stir ==
    \/ ~HasActions /\ SetMood("running") /\ UNCHANGED <<acting, turn>>
    \/ Busy /\ UNCHANGED <<mood, play, placed, acting, turn>>
    \/ /\ HasActions /\ ~acting
       /\ mood' = "running"
       /\ play' = Track(pet.generation, IF turn = 1 THEN "action-1" ELSE "action-2",
                        ActionName(turn))
       /\ placed' = <<>>
       /\ acting' = TRUE
       /\ turn' = 3 - turn

\* refresh_independent_pet, of a pet that could be rendered, in a mood: what is drawn becomes its.
Install(kind, state) ==
    /\ pet.generation < MaxLoads
    /\ pet' = [generation |-> pet.generation + 1, kind |-> kind]
    /\ drawn' = TRUE /\ placed' = <<>>
    /\ play' = IF kind = "rich" THEN Track(pet.generation + 1, "welcome", "welcome")
               ELSE Track(pet.generation + 1, PartFor(kind, state), state)
    /\ acting' = FALSE /\ turn' = 1
    /\ mood' = state

------------------------------------------------------------------------------
(* The frame *)

\* The first refresh, of the configured pet, once the session is up.
Start(name, cached) ==
    LET kind == Rendered(name, FALSE, cached) IN
    /\ ~started /\ started' = TRUE
    /\ \/ kind = "none" /\ UNCHANGED <<pet, mood, play, drawn, placed, acting, turn>>
       \/ kind # "none" /\ host.graphics /\ Install(kind, mood)
       \/ /\ kind # "none" /\ ~host.graphics
          /\ pet' = [generation |-> 1, kind |-> kind]
          /\ UNCHANGED <<mood, play, drawn, placed, acting, turn>>
    /\ UNCHANGED <<host, shown, pending>>

\* Enter with a command or a prompt for LWA, or one for Codex that no session takes.
EnterLwa ==
    /\ started /\ Stir
    /\ UNCHANGED <<host, started, pet, drawn, shown, pending>>

\* A prompt sent to Codex.
Submit ==
    /\ started /\ Stir
    /\ pending' = TRUE
    /\ UNCHANGED <<host, started, pet, drawn, shown>>

\* /pets: a pet the cache lists; one that cannot be rendered leaves the one there is.
Select(name, cached) ==
    LET kind == Rendered(name, TRUE, cached) IN
    /\ started /\ Listed(cached)
    /\ \/ kind = "none" /\ Stir /\ UNCHANGED <<pet, drawn>>
       \/ kind # "none" /\ host.graphics /\ Install(kind, IF Busy THEN mood ELSE "running")
       \/ /\ kind # "none" /\ ~host.graphics /\ pet.generation < MaxLoads
          /\ Stir
          /\ pet' = [generation |-> pet.generation + 1, kind |-> kind]
          /\ UNCHANGED drawn
    /\ UNCHANGED <<host, started, shown, pending>>

\* emit: a status line's mood; and the first visible output after a prompt was sent.
Status(state) ==
    /\ host.events
    /\ SetMood(state)
    /\ UNCHANGED <<host, started, pet, drawn, shown, acting, turn, pending>>

Answer ==
    /\ host.events /\ pending
    /\ pending' = FALSE
    /\ SetMood("running")
    /\ UNCHANGED <<host, started, pet, drawn, shown, acting, turn>>

\* The prompt pipeline ends: trigger_pet_completion, or a blocked pet.
Improved ==
    /\ started /\ pet.kind = "rich"
    /\ SetMood("ready")
    /\ acting' = TRUE
    /\ UNCHANGED <<host, started, pet, drawn, shown, turn, pending>>

NotImproved ==
    /\ started /\ SetMood("blocked")
    /\ UNCHANGED <<host, started, pet, drawn, shown, acting, turn, pending>>

ActionTimeEnds ==
    /\ acting /\ acting' = FALSE
    /\ UNCHANGED <<host, started, pet, mood, play, looks, turn, pending>>

\* The drawing loop, at a track's interval: at its end a pet at work rests, unless Codex's answer
\* is waited for, and any other repeats its mood.
Advance ==
    /\ drawn
    /\ \/ /\ play.index + 1 < LengthOf[play.part]
          /\ play' = [play EXCEPT !.index = @ + 1] /\ placed' = <<>>
          /\ UNCHANGED mood
       \/ /\ play.index + 1 >= LengthOf[play.part]
          /\ IF mood \in {"running", "ready"} /\ ~pending THEN SetMood("idle") ELSE SetMood(mood)
    /\ UNCHANGED <<host, started, pet, drawn, shown, acting, turn, pending>>

Signature == <<play.name, play.index, play.of>>
Picture == <<play.of, play.part, play.index>>

\* A picture is painted when its signature is not the last painting's, under one image for all.
Paint ==
    /\ drawn /\ placed # Signature
    /\ placed' = Signature /\ shown' = Picture
    /\ UNCHANGED <<host, started, pet, mood, play, drawn, acting, turn, pending>>

\* One that cannot be ends the drawing until another pet is loaded, and the last stays on screen.
PaintFails ==
    /\ drawn /\ placed # Signature
    /\ drawn' = FALSE /\ placed' = <<>>
    /\ UNCHANGED <<host, started, pet, mood, play, shown, acting, turn, pending>>

PetsNext ==
    \/ \E name \in Configured, cached \in Cached : Start(name, cached)
    \/ \E name \in Pet, cached \in Cached : Select(name, cached)
    \/ EnterLwa \/ Submit \/ Answer \/ Improved \/ NotImproved
    \/ \E state \in Mood \ {"idle"} : Status(state)
    \/ ActionTimeEnds \/ Advance \/ Paint \/ PaintFails

PetsSpec == PetsInit /\ [][PetsNext]_petVars

------------------------------------------------------------------------------
(* Properties *)

\* What is drawn is the loaded pet's, inside its track, and is what its mood calls for: whichever
\* of keys, events, pipeline and drawing loop set the mood last, only a welcome or a running pet's
\* action plays on.  No painting is skipped: a frame that believes its picture to be on screen is
\* right (terminal_frame.py:1026-1096, 1424-1482).
PetShowsItsState ==
    drawn =>
        /\ play.of = pet.generation
        /\ play.index < LengthOf[play.part]
        /\ \/ play.name = "welcome" /\ play.part = "welcome"
           \/ play.name \in {"first action", "second action"} /\ mood = "running"
           \/ play.name = mood /\ play.part = PartFor(pet.kind, mood)
        /\ placed = Signature => shown = Picture
==============================================================================
