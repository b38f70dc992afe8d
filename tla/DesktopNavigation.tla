------------------------- MODULE DesktopNavigation --------------------------
(***************************************************************************)
(* What a window shows, and the drafts of new conversations in it.         *)
(*                                                                         *)
(*   choice    the number of the last choice of the user: selection of     *)
(*             app/useNavigation.ts;                                       *)
(*   location  what is shown, and the choice it was shown for;             *)
(*   active    the draft whose submission may show its conversation, and   *)
(*             the choice it was selected by (activeDraft);                *)
(*   awaiting  choices that wait for a workspace to be connected or for a  *)
(*             conversation to be opened;                                  *)
(*   access    the request by which a workspace is connected, shared by    *)
(*             all that need it (app/useWorkspaceAccess.ts);               *)
(*   draft     the draft of a workspace (chat/drafts/store.ts);            *)
(*   task      its submission (chat/drafts/submit.ts);                     *)
(*   chat      the conversations that submissions have opened: whether the *)
(*             last is open, and what stands in their composers.           *)
(*                                                                         *)
(* A workspace that is forgotten while its draft is being submitted is not *)
(* chosen again before the submission has ended, and nothing is typed into *)
(* a conversation before its draft has been submitted.                     *)
(***************************************************************************)
EXTENDS Naturals, FiniteSets

CONSTANTS
  Works,       \* workspaces
  Saved,       \* conversations that can be resumed, all of the workspace Home
  Home,        \* a workspace
  NoWork,      \* not a workspace
  MaxChoices,  \* bound: choices of the user
  MaxTyped     \* bound: texts typed into drafts

ASSUME NavigationAssumption == Home \in Works /\ NoWork \notin Works /\ {MaxChoices, MaxTyped} \subseteq Nat

VARIABLES choice, location, active, awaiting, access, draft, task, chat, typed,
          \* history:
          runs,       \* the texts that an engine was given, with how often
          abandoned   \* texts of drafts that were forgotten with their workspace

navigationVars == <<choice, location, active, awaiting, access, draft, task, chat, typed, runs, abandoned>>

Place(kind, of, by) == [kind |-> kind, of |-> of, by |-> by]
NoDraft == [exists |-> FALSE, text |-> {}, pending |-> {}, preparing |-> FALSE, opened |-> FALSE]
NoTask == [at |-> "none", text |-> {}]
NoChat == [open |-> FALSE, text |-> {}]

NavigationInit ==
  /\ choice = 0 /\ location = Place("home", NoWork, 0)
  /\ active = [of |-> NoWork, by |-> 0]
  /\ awaiting = {} /\ access = [w \in Works |-> "none"]
  /\ draft = [w \in Works |-> NoDraft] /\ task = [w \in Works |-> NoTask] /\ chat = [w \in Works |-> NoChat]
  /\ typed = 0 /\ runs = [n \in 1 .. MaxTyped |-> 0] /\ abandoned = {}

-----------------------------------------------------------------------------
(* Choices.                                                                *)

Chooses == choice < MaxChoices /\ choice' = choice + 1

\* connect: requests that have not failed are shared.
Connects(w) == access' = [access EXCEPT ![w] = IF @ \in {"none", "failed"} THEN "busy" ELSE @]

\* Mutant: the draft that was left stays the active one.
ActivateKeeping(kind, of, by) ==
  /\ location' = Place(kind, of, by)
  /\ UNCHANGED active

\* activate
Activate(kind, of, by) ==
  /\ location' = Place(kind, of, by)
  /\ active' = [of |-> NoWork, by |-> by]

\* openWorkspace
OpenWorkspace(w) ==
  /\ Chooses /\ Connects(w)
  /\ awaiting' = awaiting \cup {Place("workspace", w, choice')}
  /\ UNCHANGED <<location, active, draft, task, chat, typed, runs, abandoned>>

\* openSession: a conversation that is open in a connected workspace is shown at once.
ChooseSession(s) ==
  /\ Chooses
  /\ \/ Connects(Home) /\ awaiting' = awaiting \cup {Place("session", s, choice')} /\ UNCHANGED <<location, active>>
     \/ access[Home] = "ready" /\ Activate("session", s, choice') /\ UNCHANGED <<access, awaiting>>
  /\ UNCHANGED <<draft, task, chat, typed, runs, abandoned>>

\* newSession: the draft of the workspace is shown at once.
NewSession(w) ==
  /\ task[w].at # "none" => draft[w].exists
  /\ Chooses /\ Connects(w)
  /\ draft' = [draft EXCEPT ![w].exists = TRUE]
  /\ location' = Place("draft", w, choice') /\ active' = [of |-> w, by |-> choice']
  /\ UNCHANGED <<awaiting, task, chat, typed, runs, abandoned>>

\* goHome, with the server or directory pages that it leads to.
GoHome ==
  /\ Chooses /\ Activate("home", NoWork, choice')
  /\ UNCHANGED <<awaiting, access, draft, task, chat, typed, runs, abandoned>>

\* backFromOpening: what was shown before stays.
Back ==
  /\ awaiting # {} /\ Chooses
  /\ UNCHANGED <<location, active, awaiting, access, draft, task, chat, typed, runs, abandoned>>

\* workspace_open is answered, for every one that waits for it.
Connected(w) ==
  /\ access[w] = "busy"
  /\ \E end \in {"ready", "failed"} : access' = [access EXCEPT ![w] = end]
  /\ UNCHANGED <<choice, location, active, awaiting, draft, task, chat, typed, runs, abandoned>>

\* A result is shown if nothing was chosen since.
Arrives(a) == IF a.by = choice THEN Activate(a.kind, a.of, a.by) ELSE UNCHANGED <<location, active>>

\* What a choice has waited for is there, or has failed.
Arrive(a) ==
  LET w == IF a.kind = "workspace" THEN a.of ELSE Home
  IN  /\ access[w] # "busy"
      /\ \/ access[w] = "ready" /\ Arrives(a)
         \/ (access[w] # "ready" \/ a.kind = "session") /\ UNCHANGED <<location, active>>
      /\ awaiting' = awaiting \ {a}
      /\ UNCHANGED <<choice, access, draft, task, chat, typed, runs, abandoned>>

\* forgetWorkspace: its drafts are dropped, and it is not shown any more.
ForgetWorkspace(w) ==
  /\ Chooses
  /\ draft' = [draft EXCEPT ![w] = NoDraft]
  /\ abandoned' = abandoned \cup draft[w].text \cup draft[w].pending
  /\ IF location.of = w \/ (location.kind = "session" /\ w = Home)
     THEN Activate("home", NoWork, choice') ELSE UNCHANGED <<location, active>>
  /\ access' = [access EXCEPT ![w] = "none"]
  /\ UNCHANGED <<awaiting, task, chat, typed, runs>>

-----------------------------------------------------------------------------
(* The submission of a draft.                                              *)

TypeDraft(w) ==
  /\ typed < MaxTyped /\ location.kind = "draft" /\ location.of = w
  /\ typed' = typed + 1
  /\ draft' = [draft EXCEPT ![w].text = @ \cup {typed'}]
  /\ UNCHANGED <<choice, location, active, awaiting, access, task, chat, runs, abandoned>>

\* A submission that is tried again is the one that failed; the text belongs to a later one.
RestOfText(d) == IF d.pending # {} THEN d.text ELSE {}

\* submitDraft, up to the opening of a conversation.
SubmitDraft(w) ==
  LET d == draft[w]
      submission == IF d.pending # {} THEN d.pending ELSE d.text
  IN  /\ location.kind = "draft" /\ location.of = w
      /\ d.exists /\ ~d.preparing /\ submission # {} /\ task[w].at = "none"
      /\ draft' = [draft EXCEPT ![w].pending = submission, ![w].text = RestOfText(d), ![w].preparing = TRUE]
      /\ task' = [task EXCEPT ![w] = [at |-> IF d.opened /\ chat[w].open THEN "settings" ELSE "opening", text |-> submission]]
      /\ UNCHANGED <<choice, location, active, awaiting, access, chat, typed, runs, abandoned>>

\* The submission ends with the draft still there: it may be tried again.
Fails(w) ==
  /\ draft' = [draft EXCEPT ![w].preparing = FALSE]
  /\ task' = [task EXCEPT ![w] = NoTask]

\* prepare has ended; the conversation of a draft that was forgotten meanwhile is closed.
DraftOpened(w) ==
  /\ task[w].at = "opening"
  /\ \/ Fails(w) /\ UNCHANGED chat
     \/ IF draft[w].exists
        THEN /\ draft' = [draft EXCEPT ![w].opened = TRUE]
             /\ chat' = [chat EXCEPT ![w].open = TRUE]
             /\ task' = [task EXCEPT ![w].at = "settings"]
        ELSE task' = [task EXCEPT ![w] = NoTask] /\ UNCHANGED <<draft, chat>>
  /\ UNCHANGED <<choice, location, active, awaiting, access, typed, runs, abandoned>>

\* The settings are applied or refused.
DraftSettings(w) ==
  /\ task[w].at = "settings"
  /\ \/ Fails(w)
     \/ task' = [task EXCEPT ![w].at = "submitting"] /\ UNCHANGED draft
  /\ UNCHANGED <<choice, location, active, awaiting, access, chat, typed, runs, abandoned>>

\* The conversation takes the place of its draft, with what was typed since.
Bound(w) ==
  /\ chat' = [chat EXCEPT ![w].text = @ \cup draft[w].text]
  /\ IF active.of = w THEN Activate("chat", w, active.by) ELSE UNCHANGED <<location, active>>
  /\ draft' = [draft EXCEPT ![w] = NoDraft]
  /\ task' = [task EXCEPT ![w] = NoTask]

Runs(w) == runs' = [n \in DOMAIN runs |-> IF n \in task[w].text THEN runs[n] + 1 ELSE runs[n]]

\* Mutant: an unknown outcome is a failure.
OutcomeUnknownRetried(w) == Runs(w) /\ Fails(w) /\ UNCHANGED <<chat, location, active>>

\* What is perhaps running already is not kept for another try.
OutcomeUnknown(w) == Runs(w) /\ Bound(w)

\* The message is taken, refused, or not known to be.
DraftSubmitted(w) ==
  /\ task[w].at = "submitting"
  /\ \/ Runs(w) /\ Bound(w)
     \/ OutcomeUnknown(w)
     \/ Fails(w) /\ UNCHANGED <<chat, location, active, runs>>
  /\ UNCHANGED <<choice, awaiting, access, typed, abandoned>>

\* The conversation that a failed submission has left is closed by another window, or fails.
ChatCloses(w) ==
  /\ chat[w].open /\ task[w].at = "none" /\ draft[w].opened
  /\ chat' = [chat EXCEPT ![w].open = FALSE]
  /\ UNCHANGED <<choice, location, active, awaiting, access, draft, task, typed, runs, abandoned>>

-----------------------------------------------------------------------------
NavigationNext ==
  \/ \E w \in Works :
       \/ OpenWorkspace(w) \/ NewSession(w) \/ Connected(w) \/ ForgetWorkspace(w)
       \/ TypeDraft(w) \/ SubmitDraft(w) \/ DraftOpened(w) \/ DraftSettings(w) \/ DraftSubmitted(w) \/ ChatCloses(w)
  \/ \E s \in Saved : ChooseSession(s)
  \/ \E a \in awaiting : Arrive(a)
  \/ GoHome \/ Back

NavigationSpec == NavigationInit /\ [][NavigationNext]_navigationVars

-----------------------------------------------------------------------------
(* Properties *)

\* What is shown for a choice is never replaced by what was chosen before it, however the openings,
\* connections and submissions of a window end (app/useNavigation.ts).
LastChoiceWins == [][location'.by >= location.by]_navigationVars

\* A message typed into a draft runs at most once, through failures, retries and unknown outcomes, and
\* until it does it is in the draft, its submission or the composer (chat/drafts/submit.ts).
DraftIsKept ==
  \A n \in 1 .. typed :
    /\ runs[n] <= 1
    /\ \/ runs[n] = 1 \/ n \in abandoned
       \/ \E w \in Works : n \in draft[w].text \cup draft[w].pending \cup chat[w].text
=============================================================================
