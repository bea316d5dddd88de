---------------------------- MODULE MCPlayWrites ----------------------------
(***************************************************************************)
(* For TLC, everything that is read in one transaction and written in      *)
(* another, in scenes: one Character and every operation, or two and       *)
(* create drafts only (CharacterVersions); rolls, lines, the Stage, a      *)
(* pending action that waits for its roll (Exploration); the world of a    *)
(* Campaign, its doors or its Adventures (CampaignWorld).                  *)
(***************************************************************************)
EXTENDS CharacterVersions, Exploration, CampaignWorld, TLC

CONSTANTS
    Second,     \* a Character whose id is already used in the first scene
    human, other, seat, check, act, clientKey, WorldKeys, adventure, theirScene

VARIABLE scene

TheirAdventure == theirScene :> adventure

mcVars == <<vars, scene, playVars, campaignVars>>
-----------------------------------------------------------------------------
(* Characters *)

Creating ==
    /\ \A c \in Characters : status[c] \in {"none", "active"} /\ played[c] = "no"
    /\ \A d \in Drafts : draft[d].mode \notin Modes \ {"create"}
    /\ \A k \in Calls : call[k].op \in {"none", "edit", "confirm"}

\* one draft and its edits, or two drafts
EditedAlone == \A d, e \in Drafts : draft[d].rev > 1 /\ draft[e].rev > 0 => d = e

CharactersNext == Next /\ EditedAlone' /\ (IF status[Second] = "deleted" THEN TRUE ELSE Creating')

-----------------------------------------------------------------------------
(* Exploration *)

\* a Check that was asked and an action that was declared
PlayReady ==
    /\ running = "active" /\ holder = [s \in Seats |-> human]
    /\ roll = (check :> [state |-> "pending", seat |-> seat]) /\ result = (check :> Null)
    /\ action = (act :> [state |-> "pending", seat |-> seat, roll |-> Null, version |-> 1])
    /\ stage = NoStage /\ images = {}
    /\ log = << [op |-> "roll.requested", key |-> Null, row |-> check, stage |-> NoStage],
                [op |-> "pending_action.created", key |-> Null, row |-> act, stage |-> NoStage] >>
    /\ asked = [c \in Requests |-> Null] /\ answers = {}

PlayAsks(c, key) ==
    \/ scene = "rolls" /\ \/ AskCheck(c, seat, key)
                          \/ \E by \in {human, other, DM} : AskRoll(c, by, check, key)
    \/ scene = "lines" /\ AskLine(c, human, seat, key)
    \/ scene = "stage" /\ \E image \in Images \cup {"new", Null} : AskStage(c, image, key)
    \/ scene = "actions" /\ \/ AskRoll(c, human, check, Null)
                            \/ \E to \in DOMAIN Allowed, r \in {check, Null} :
                                  AskTransition(c, human, act, to, r, key)

PlayStep ==
    \/ PlayEnds
    \/ \E c \in Requests :
          \/ Drop(c)
          \/ Commit(c) /\ Len(log') <= (CASE scene \in {"lines", "stage"} -> 2 [] scene = "actions" -> 5 [] OTHER -> 3)
          \/ \E key \in {clientKey, Null} : PlayAsks(c, key)
    \/ scene = "rolls" /\ (AskKnownRoll(check) \/ \E who \in {human, other} : Reassign(seat, who))
-----------------------------------------------------------------------------
(* The world *)

SomeChange == Change("context.clear", "context", Null, 0, Null)

WorldAsks(c, k) ==
    \/ /\ scene = "doors"
       /\ \/ Ask(c, "append", k, SomeChange)
          \/ \E kind \in Kinds \ {"append"},
                ch \in EntryChanges \cup {x \in ContextChanges : x.to \in SceneEntries} :
                   Ask(c, kind, k, ch)
    \/ /\ scene = "adventures"
       /\ \E kind \in {"management", "action"},
             ch \in OverrideChanges \cup {x \in ContextChanges : x.to \notin SceneEntries} :
                Ask(c, kind, k, ch)

WorldStep ==
    \/ EndSession
    \/ \E n \in Sessions : Start(n)
    \/ scene = "adventures" /\ (Attach(adventure) \/ Detach(adventure))
    \/ \E c \in Requests :
          \/ Locking(c) \/ Write(c) \/ Abort(c)
          \/ \E k \in WorldKeys : WorldAsks(c, k)
-----------------------------------------------------------------------------
PlayScenes == {"rolls", "lines", "stage", "actions"}
WorldScenes == {"doors", "adventures"}

MCInit ==
    /\ scene \in {"characters"} \cup PlayScenes \cup WorldScenes
    /\ InitWith({Second}) \/ (scene = "characters" /\ InitWith({}))
    /\ scene # "characters" => web
    /\ IF scene = "actions" THEN PlayReady ELSE PlayInit /\ holder[seat] = human
    /\ WorldInit

MCNext ==
    /\ UNCHANGED scene
    /\ \/ scene = "characters" /\ CharactersNext /\ UNCHANGED <<playVars, campaignVars>>
       \/ scene \in PlayScenes /\ PlayStep /\ UNCHANGED <<vars, campaignVars>>
       \/ scene \in WorldScenes /\ WorldStep /\ UNCHANGED <<vars, playVars>>

MCSpec == MCInit /\ [][MCNext]_mcVars

\* calls, drafts, fields and keys are interchangeable
Swaps(S) == {p \in Permutations(S) : \E x \in S : p[x] # x}
Symmetry == Permutations(Calls) \cup Swaps(Drafts) \cup Swaps(Fields) \cup Swaps(WorldKeys)
=============================================================================
