---------------------------- MODULE DesktopProofs ----------------------------
(***************************************************************************)
(* Theorems about the interface of the desktop application: what a window  *)
(* shows and the drafts in it (DesktopNavigation), documents that move     *)
(* between windows (DesktopWindows), the files that are edited in a window *)
(* (FileEditing), and the conversations in it (ConversationView).          *)
(***************************************************************************)
EXTENDS FileEditing, ConversationView, DesktopNavigation, DesktopWindows, SequenceTheorems, FiniteSetTheorems, WellFoundedInduction, TLAPS

-----------------------------------------------------------------------------
(* DesktopNavigation: what is shown.                                       *)
PlaceKinds == {"home", "workspace", "session", "draft", "chat"}
PlaceRecord == [kind : PlaceKinds, of : Works \cup Saved \cup {NoWork}, by : Nat]
ActiveRecord == [of : Works \cup {NoWork}, by : Nat]
DraftRecord == [exists : BOOLEAN, text : SUBSET Nat, pending : SUBSET Nat, preparing : BOOLEAN, opened : BOOLEAN]
SubmissionRecord == [at : {"none", "opening", "settings", "submitting"}, text : SUBSET Nat]
ComposerRecord == [open : BOOLEAN, text : SUBSET Nat]
DraftTable == [Works -> DraftRecord]
SubmissionTable == [Works -> SubmissionRecord]
ComposerTable == [Works -> ComposerRecord]
RunTable == [1 .. MaxTyped -> Nat]

NavigationTypes ==
  /\ choice \in Nat /\ location \in PlaceRecord /\ active \in ActiveRecord
  /\ awaiting \subseteq {a \in PlaceRecord : a.kind # "draft"}
  /\ draft \in DraftTable /\ task \in SubmissionTable /\ chat \in ComposerTable
  /\ typed \in Nat /\ typed <= MaxTyped /\ runs \in RunTable

\* Nothing is shown for a choice that was not made, and a draft on the screen is the active one.
ChoiceInv ==
  /\ location.by <= choice /\ active.by = location.by
  /\ location.kind = "draft" => location.of \in Works /\ active.of = location.of /\ draft[location.of].exists

\* A submission is of the text that waits in its draft; what is typed meanwhile is not part of it.
WellFormed(d, t) ==
  /\ ~d.exists => d.text = {} /\ d.pending = {}
  /\ t.at = "none" => t.text = {}
  /\ t.at # "none" /\ d.exists => t.text = d.pending
  /\ d.text \cap (d.pending \cup t.text) = {}

HeldBy(d, t) == d.text \cup d.pending \cup t.text
Held(w) == HeldBy(draft[w], task[w])

\* What a draft or its submission holds has not run yet, and no other draft holds it.
DraftInv ==
  /\ \A w \in Works : WellFormed(draft[w], task[w])
  /\ \A w \in Works : \A n \in Held(w) : n \in 1 .. typed /\ runs[n] = 0
  /\ \A v, w \in Works : v # w => Held(v) \cap Held(w) = {}
  /\ \A n \in 1 .. MaxTyped : n > typed => runs[n] = 0

NavigationInv == NavigationTypes /\ ChoiceInv /\ DraftInv /\ DraftIsKept

LEMMA NavigationInitially == NavigationInit => NavigationInv
<1> SUFFICES ASSUME NavigationInit PROVE NavigationInv
  OBVIOUS
<1>1. NavigationTypes
  <2>1. location = [kind |-> "home", of |-> NoWork, by |-> 0] /\ active = [of |-> NoWork, by |-> 0]
        /\ awaiting = {} /\ choice \in Nat /\ typed = 0
    BY DEF NavigationInit, Place
  <2>4. location \in PlaceRecord /\ active \in ActiveRecord
    BY <2>1 DEF PlaceRecord, PlaceKinds, ActiveRecord
  <2>2. draft \in DraftTable /\ task \in SubmissionTable /\ chat \in ComposerTable
    BY DEF NavigationInit, NoDraft, NoTask, NoChat, DraftTable, SubmissionTable, ComposerTable, DraftRecord,
           SubmissionRecord, ComposerRecord
  <2>3. runs \in RunTable /\ typed <= MaxTyped
    BY NavigationAssumption DEF NavigationInit, RunTable
  <2> QED  BY <2>1, <2>2, <2>3, <2>4 DEF NavigationTypes
<1>2. ChoiceInv
  BY DEF NavigationInit, Place, ChoiceInv
<1>3. \A w \in Works : draft[w] = NoDraft /\ task[w] = NoTask /\ Held(w) = {}
  BY DEF NavigationInit, NoDraft, NoTask, Held, HeldBy
<1>4. DraftInv
  BY <1>3 DEF DraftInv, WellFormed, NoDraft, NoTask, NavigationInit
<1>5. DraftIsKept
  BY DEF NavigationInit, DraftIsKept
<1> QED  BY <1>1, <1>2, <1>4, <1>5 DEF NavigationInv

\* What is shown changes to a choice that is not older, and the draft on the screen stays the active one.
LEMMA ChoiceStays ==
  ASSUME NavigationInv, choice' \in {choice, choice + 1}, location'.by <= choice', location' \in PlaceRecord,
         active' \in ActiveRecord, active'.by = location'.by, location'.kind # "draft"
  PROVE  ChoiceInv' /\ choice' \in Nat
BY DEF NavigationInv, NavigationTypes, ChoiceInv, PlaceRecord

LEMMA ActivateMeans ==
  ASSUME NavigationTypes, NEW kind \in PlaceKinds, NEW of \in Works \cup Saved \cup {NoWork}, NEW by \in Nat, Activate(kind, of, by)
  PROVE  /\ location' \in PlaceRecord /\ location'.by = by /\ location'.kind = kind
         /\ active' \in ActiveRecord /\ active'.by = by
BY DEF Activate, Place, PlaceRecord, ActiveRecord, NavigationTypes

\* Drafts, submissions and composers rest.
DraftsRest == UNCHANGED <<draft, task, chat, typed, runs, abandoned>>

LEMMA DraftsStay ==
  ASSUME NavigationInv, UNCHANGED <<draft, task, typed, runs, abandoned>>,
         \A w \in Works : chat'[w].text = chat[w].text
  PROVE  DraftInv' /\ DraftIsKept'
BY DEF NavigationInv, DraftInv, DraftIsKept, Held

LEMMA ChoicesKeep ==
  ASSUME NavigationInv, DraftsRest, choice' \in {choice, choice + 1}, awaiting' \subseteq {a \in PlaceRecord : a.kind # "draft"},
         \/ UNCHANGED <<location, active>>
         \/ \E kind \in PlaceKinds \ {"draft"}, of \in Works \cup Saved \cup {NoWork} : Activate(kind, of, choice')
  PROVE  NavigationInv' /\ location'.by >= location.by
<1>1. /\ choice \in Nat /\ choice' \in Nat /\ choice <= choice' /\ location \in PlaceRecord /\ active \in ActiveRecord
      /\ location.by \in Nat /\ location.by <= choice
  BY DEF NavigationInv, NavigationTypes, ChoiceInv, PlaceRecord
<1>2. DraftInv' /\ DraftIsKept'
  BY DraftsStay DEF DraftsRest
<1>3. CASE UNCHANGED <<location, active>>
  <2>1. ChoiceInv'
    BY <1>1, <1>3 DEF NavigationInv, ChoiceInv, DraftsRest
  <2>2. NavigationTypes'
    BY <1>1, <1>3 DEF NavigationInv, NavigationTypes, DraftsRest
  <2> QED  BY <1>1, <1>2, <1>3, <2>1, <2>2 DEF NavigationInv
<1>4. CASE \E kind \in PlaceKinds \ {"draft"}, of \in Works \cup Saved \cup {NoWork} : Activate(kind, of, choice')
  <2>1. /\ location' \in PlaceRecord /\ location'.by = choice' /\ location'.kind # "draft"
        /\ active' \in ActiveRecord /\ active'.by = choice'
    BY <1>1, <1>4, ActivateMeans DEF NavigationInv
  <2>2. ChoiceInv'
    BY <1>1, <2>1, ChoiceStays
  <2>3. NavigationTypes'
    BY <1>1, <2>1 DEF NavigationInv, NavigationTypes, DraftsRest
  <2> QED  BY <1>1, <1>2, <2>1, <2>2, <2>3 DEF NavigationInv
<1> QED  BY <1>3, <1>4
\* The actions of a choice that leave the drafts alone.
LEMMA ChoiceActionsKeep ==
  ASSUME NavigationInv,
         \/ \E w \in Works : OpenWorkspace(w) \/ Connected(w)
         \/ \E s \in Saved : ChooseSession(s)
         \/ \E a \in awaiting : Arrive(a)
         \/ GoHome \/ Back
  PROVE  NavigationInv' /\ location'.by >= location.by
<1>1. choice \in Nat /\ awaiting \subseteq {a \in PlaceRecord : a.kind # "draft"}
  BY DEF NavigationInv, NavigationTypes
<1>2. ASSUME NEW w \in Works, OpenWorkspace(w) PROVE NavigationInv' /\ location'.by >= location.by
  <2>1. /\ choice' = choice + 1 /\ awaiting' = awaiting \cup {Place("workspace", w, choice')} /\ UNCHANGED <<location, active>>
        /\ DraftsRest
    BY <1>2 DEF OpenWorkspace, Chooses, DraftsRest
  <2>2. Place("workspace", w, choice') \in PlaceRecord /\ Place("workspace", w, choice').kind # "draft"
    BY <1>1, <2>1 DEF Place, PlaceRecord, PlaceKinds
  <2> QED  BY <1>1, <2>1, <2>2, ChoicesKeep
<1>3. ASSUME NEW w \in Works, Connected(w) PROVE NavigationInv' /\ location'.by >= location.by
  BY <1>1, <1>3, ChoicesKeep DEF Connected, DraftsRest
<1>4. ASSUME NEW s \in Saved, ChooseSession(s) PROVE NavigationInv' /\ location'.by >= location.by
  <2>1. choice' = choice + 1 /\ DraftsRest
    BY <1>4 DEF ChooseSession, Chooses, DraftsRest
  <2>2. CASE awaiting' = awaiting \cup {Place("session", s, choice')} /\ UNCHANGED <<location, active>>
    <3>1. Place("session", s, choice') \in PlaceRecord /\ Place("session", s, choice').kind # "draft"
      BY <1>1, <2>1 DEF Place, PlaceRecord, PlaceKinds
    <3> QED  BY <1>1, <2>1, <2>2, <3>1, ChoicesKeep
  <2>3. CASE Activate("session", s, choice') /\ UNCHANGED awaiting
    <3>1. "session" \in PlaceKinds \ {"draft"} /\ s \in Works \cup Saved \cup {NoWork}
      BY DEF PlaceKinds
    <3> QED  BY <1>1, <2>1, <2>3, <3>1, ChoicesKeep
  <2> QED  BY <1>4, <2>2, <2>3 DEF ChooseSession
<1>5. ASSUME NEW a \in awaiting, Arrive(a) PROVE NavigationInv' /\ location'.by >= location.by
  <2>1. a.kind \in PlaceKinds \ {"draft"} /\ a.of \in Works \cup Saved \cup {NoWork}
    BY <1>1 DEF PlaceRecord
  <2>2. choice' = choice /\ awaiting' \subseteq awaiting /\ DraftsRest
    BY <1>5 DEF Arrive, DraftsRest
  <2>3. UNCHANGED <<location, active>> \/ Activate(a.kind, a.of, choice')
    BY <1>5, <2>2 DEF Arrive, Arrives
  <2> QED  BY <1>1, <2>1, <2>2, <2>3, ChoicesKeep
<1>6. ASSUME GoHome PROVE NavigationInv' /\ location'.by >= location.by
  <2>1. choice' = choice + 1 /\ DraftsRest /\ UNCHANGED awaiting /\ Activate("home", NoWork, choice')
    BY <1>6 DEF GoHome, Chooses, DraftsRest
  <2>2. "home" \in PlaceKinds \ {"draft"} /\ NoWork \in Works \cup Saved \cup {NoWork}
    BY DEF PlaceKinds
  <2> QED  BY <1>1, <2>1, <2>2, ChoicesKeep
<1>7. ASSUME Back PROVE NavigationInv' /\ location'.by >= location.by
  BY <1>1, <1>7, ChoicesKeep DEF Back, Chooses, DraftsRest
<1> QED  BY <1>2, <1>3, <1>4, <1>5, <1>6, <1>7

\* A draft and its submission change, and what they hold was theirs already.
LEMMA DraftChanges ==
  ASSUME NavigationInv, NEW w \in Works, NEW d \in DraftRecord, NEW t \in SubmissionRecord,
         draft' = [draft EXCEPT ![w] = d], task' = [task EXCEPT ![w] = t],
         HeldBy(d, t) \subseteq Held(w), WellFormed(d, t), UNCHANGED <<typed, runs>>
  PROVE  draft' \in DraftTable /\ task' \in SubmissionTable /\ DraftInv'
<1>1. draft \in DraftTable /\ task \in SubmissionTable
  BY DEF NavigationInv, NavigationTypes
<1>2. /\ draft' \in DraftTable /\ task' \in SubmissionTable
      /\ \A v \in Works : draft'[v] = (IF v = w THEN d ELSE draft[v]) /\ task'[v] = IF v = w THEN t ELSE task[v]
  BY <1>1 DEF DraftTable, SubmissionTable
<1>3. \A v \in Works : Held(v)' \subseteq Held(v)
  BY <1>2 DEF Held
<1>4. \A v \in Works : WellFormed(draft'[v], task'[v])
  BY <1>2 DEF NavigationInv, DraftInv
<1>5. /\ \A v \in Works : \A n \in Held(v) : n \in 1 .. typed /\ runs[n] = 0
      /\ \A u, v \in Works : u # v => Held(u) \cap Held(v) = {}
  BY DEF NavigationInv, DraftInv
<1>6. \A v \in Works : \A n \in Held(v)' : n \in 1 .. typed' /\ runs'[n] = 0
  BY <1>3, <1>5
<1>7. \A u, v \in Works : u # v => Held(u)' \cap Held(v)' = {}
  BY <1>3, <1>5
<1>8. \A n \in 1 .. MaxTyped : n > typed' => runs'[n] = 0
  BY DEF NavigationInv, DraftInv
<1> QED  BY <1>2, <1>4, <1>6, <1>7, <1>8 DEF DraftInv

\* What a draft gives up is in the composer, abandoned, or has been run.
LEMMA KeptStays ==
  ASSUME NavigationInv, NEW w \in Works, NEW d \in DraftRecord,
         draft' = [draft EXCEPT ![w] = d], typed' = typed, runs' \in RunTable,
         \A n \in 1 .. typed : runs'[n] <= 1 /\ (runs[n] = 1 => runs'[n] = 1),
         abandoned \subseteq abandoned', \A v \in Works : chat[v].text \subseteq chat'[v].text,
         \A n \in draft[w].text \cup draft[w].pending :
            n \in 1 .. typed => runs'[n] = 1 \/ n \in abandoned' \cup d.text \cup d.pending \cup chat'[w].text
  PROVE  DraftIsKept'
<1>1. draft \in DraftTable
  BY DEF NavigationInv, NavigationTypes
<1>2. \A v \in Works : draft'[v] = IF v = w THEN d ELSE draft[v]
  BY <1>1 DEF DraftTable
<1>3. ASSUME NEW n \in 1 .. typed
      PROVE  \/ runs'[n] = 1 \/ n \in abandoned'
             \/ \E v \in Works : n \in draft'[v].text \cup draft'[v].pending \cup chat'[v].text
  <2>1. CASE runs[n] = 1 \/ n \in abandoned
    BY <2>1
  <2>2. CASE \E v \in Works : n \in draft[v].text \cup draft[v].pending \cup chat[v].text
    <3>1. PICK v \in Works : n \in draft[v].text \cup draft[v].pending \cup chat[v].text
      BY <2>2
    <3> QED  BY <1>2, <3>1
  <2> QED  BY <2>1, <2>2 DEF NavigationInv, DraftIsKept
<1> QED  BY <1>3 DEF DraftIsKept
LEMMA ChoiceRests ==
  ASSUME NavigationInv, UNCHANGED <<choice, location, active>>,
         \A v \in Works : location.kind = "draft" /\ location.of = v => draft'[v].exists
  PROVE  ChoiceInv' /\ location'.by >= location.by
<1>1. location.by \in Nat
  BY DEF NavigationInv, NavigationTypes, PlaceRecord
<1> QED  BY <1>1 DEF NavigationInv, ChoiceInv

LEMMA DraftMeans ==
  ASSUME NavigationInv, NEW w \in Works
  PROVE  /\ draft[w] \in DraftRecord /\ task[w] \in SubmissionRecord /\ chat[w] \in ComposerRecord
         /\ WellFormed(draft[w], task[w])
         /\ draft[w].text \cup draft[w].pending \cup task[w].text = Held(w)
         /\ task = [task EXCEPT ![w] = task[w]] /\ draft = [draft EXCEPT ![w] = draft[w]]
BY DEF NavigationInv, NavigationTypes, DraftTable, SubmissionTable, ComposerTable, DraftInv, Held, HeldBy

LEMMA NewSessionKeeps ==
  ASSUME NavigationInv, NEW w \in Works, NewSession(w) PROVE NavigationInv' /\ location'.by >= location.by
<1> DEFINE d == [draft[w] EXCEPT !.exists = TRUE]
<1>1. /\ choice' = choice + 1 /\ draft' = [draft EXCEPT ![w] = d]
      /\ location' = [kind |-> "draft", of |-> w, by |-> choice'] /\ active' = [of |-> w, by |-> choice']
      /\ UNCHANGED <<awaiting, task, chat, typed, runs, abandoned>> /\ (task[w].at # "none" => draft[w].exists)
  BY DEF NewSession, Chooses, Place
<1>2. /\ d \in DraftRecord /\ d.exists /\ d.text = draft[w].text /\ d.pending = draft[w].pending
      /\ WellFormed(d, task[w])
  BY <1>1, DraftMeans DEF DraftRecord, WellFormed
<1> HIDE DEF d
<1>3. HeldBy(d, task[w]) \subseteq Held(w) /\ task[w] \in SubmissionRecord /\ task' = [task EXCEPT ![w] = task[w]]
  BY <1>1, <1>2, DraftMeans DEF HeldBy
<1>4. draft' \in DraftTable /\ DraftInv'
  BY <1>1, <1>2, <1>3, DraftChanges
<1>5. DraftIsKept'
  BY <1>1, <1>2, KeptStays DEF NavigationInv, NavigationTypes, DraftIsKept
<1>6. choice \in Nat /\ location.by <= choice /\ location.by \in Nat
  BY DEF NavigationInv, NavigationTypes, ChoiceInv, PlaceRecord
<1>7. ChoiceInv'
  <2>1. draft'[w].exists
    BY <1>1, <1>2, <1>4 DEF NavigationInv, NavigationTypes, DraftTable
  <2> QED  BY <1>1, <1>6, <2>1 DEF ChoiceInv
<1>8. location' \in PlaceRecord /\ active' \in ActiveRecord /\ location'.by >= location.by
  BY <1>1, <1>6 DEF PlaceRecord, PlaceKinds, ActiveRecord
<1>9. NavigationTypes'
  BY <1>1, <1>4, <1>6, <1>8 DEF NavigationInv, NavigationTypes
<1> QED  BY <1>4, <1>5, <1>7, <1>8, <1>9 DEF NavigationInv

\* A draft and its submission end.
LEMMA DraftEnds ==
  ASSUME NavigationInv, NEW w \in Works, NEW t \in SubmissionRecord, draft' = [draft EXCEPT ![w] = NoDraft],
         task' = [task EXCEPT ![w] = t], t.text \subseteq task[w].text, t.at = "none" => t.text = {},
         UNCHANGED <<typed, runs>>
  PROVE  draft' \in DraftTable /\ task' \in SubmissionTable /\ DraftInv'
<1>1. NoDraft \in DraftRecord /\ WellFormed(NoDraft, t) /\ HeldBy(NoDraft, t) \subseteq Held(w)
  BY DraftMeans DEF NoDraft, DraftRecord, WellFormed, HeldBy
<1> QED  BY <1>1, DraftChanges

LEMMA ForgetWorkspaceKeeps ==
  ASSUME NavigationInv, NEW w \in Works, ForgetWorkspace(w) PROVE NavigationInv' /\ location'.by >= location.by
<1>1. /\ choice' = choice + 1 /\ draft' = [draft EXCEPT ![w] = NoDraft]
      /\ abandoned' = abandoned \cup draft[w].text \cup draft[w].pending
      /\ UNCHANGED <<awaiting, task, chat, typed, runs>>
  BY DEF ForgetWorkspace, Chooses
<1>2. draft' \in DraftTable /\ DraftInv'
  <2>1. task[w].at = "none" => task[w].text = {}
    BY DraftMeans DEF WellFormed
  <2> QED  BY <1>1, <2>1, DraftMeans, DraftEnds
<1>3. NoDraft \in DraftRecord
  BY DEF NoDraft, DraftRecord
<1>4. DraftIsKept'
  BY <1>1, <1>3, KeptStays DEF NavigationInv, NavigationTypes, DraftIsKept
<1>5. choice \in Nat /\ choice' \in Nat /\ location.by <= choice /\ location.by \in Nat /\ location \in PlaceRecord /\ active \in ActiveRecord
  BY <1>1 DEF NavigationInv, NavigationTypes, ChoiceInv, PlaceRecord
<1>6. CASE location.of # w /\ UNCHANGED <<location, active>>
  <2>1. \A v \in Works : v # w => draft'[v] = draft[v]
    BY <1>1 DEF NavigationInv, NavigationTypes, DraftTable
  <2>2. ChoiceInv'
    BY <1>1, <1>5, <1>6, <2>1 DEF NavigationInv, ChoiceInv
  <2>3. NavigationTypes'
    BY <1>1, <1>2, <1>5, <1>6 DEF NavigationInv, NavigationTypes
  <2> QED  BY <1>2, <1>4, <1>5, <1>6, <2>2, <2>3 DEF NavigationInv
<1>7. CASE Activate("home", NoWork, choice')
  <2>1. /\ location' \in PlaceRecord /\ location'.by = choice' /\ location'.kind = "home"
        /\ active' \in ActiveRecord /\ active'.by = choice'
    BY <1>5, <1>7, ActivateMeans DEF NavigationInv, PlaceKinds
  <2>2. ChoiceInv'
    BY <1>1, <1>5, <2>1, ChoiceStays
  <2>3. NavigationTypes'
    BY <1>1, <1>2, <1>5, <2>1 DEF NavigationInv, NavigationTypes
  <2> QED  BY <1>1, <1>2, <1>4, <1>5, <2>1, <2>2, <2>3 DEF NavigationInv
<1> QED  BY <1>6, <1>7 DEF ForgetWorkspace

LEMMA TypeDraftKeeps ==
  ASSUME NavigationInv, NEW w \in Works, TypeDraft(w) PROVE NavigationInv' /\ location'.by >= location.by
<1> DEFINE n == typed + 1
           d == [draft[w] EXCEPT !.text = @ \cup {n}]
<1>1. /\ n <= MaxTyped /\ n \in Nat /\ typed' = n /\ draft' = [draft EXCEPT ![w] = d] /\ typed \in Nat
      /\ location.kind = "draft" /\ location.of = w
      /\ UNCHANGED <<choice, location, active, awaiting, task, chat, runs, abandoned>>
  BY NavigationAssumption DEF TypeDraft, NavigationInv, NavigationTypes
<1>2. draft[w].exists
  BY <1>1 DEF NavigationInv, ChoiceInv
<1>3. n \in 1 .. MaxTyped /\ n \notin 1 .. typed /\ runs[n] = 0
  BY <1>1, NavigationAssumption DEF NavigationInv, DraftInv
<1>4. \A v \in Works : n \notin Held(v)
  BY <1>3 DEF NavigationInv, DraftInv
<1>5. /\ d \in DraftRecord /\ d.exists /\ d.text = draft[w].text \cup {n} /\ d.pending = draft[w].pending
  BY <1>1, <1>2, DraftMeans DEF DraftRecord
<1> HIDE DEF d
<1>6. /\ draft' \in DraftTable /\ \A v \in Works : draft'[v] = IF v = w THEN d ELSE draft[v]
  BY <1>1, <1>5 DEF NavigationInv, NavigationTypes, DraftTable
<1>7. DraftInv'
  <2>1. \A v \in Works : Held(v)' = IF v = w THEN Held(w) \cup {n} ELSE Held(v)
    BY <1>1, <1>5, <1>6 DEF Held, HeldBy
  <2>2. WellFormed(d, task[w])
    BY <1>2, <1>4, <1>5, DraftMeans DEF WellFormed
  <2>3. \A v \in Works : WellFormed(draft'[v], task'[v])
    BY <1>1, <1>6, <2>2 DEF NavigationInv, DraftInv
  <2>4. \A v \in Works : \A m \in Held(v)' : m \in 1 .. typed' /\ runs'[m] = 0
    BY <1>1, <1>3, <2>1 DEF NavigationInv, DraftInv
  <2>5. \A u, v \in Works : u # v => Held(u)' \cap Held(v)' = {}
    BY <1>4, <2>1 DEF NavigationInv, DraftInv
  <2>6. \A m \in 1 .. MaxTyped : m > typed' => runs'[m] = 0
    BY <1>1 DEF NavigationInv, DraftInv
  <2> QED  BY <2>3, <2>4, <2>5, <2>6 DEF DraftInv
<1>8. DraftIsKept'
  <2>1. ASSUME NEW m \in 1 .. typed', m # n
        PROVE  /\ runs'[m] <= 1
               /\ \/ runs'[m] = 1 \/ m \in abandoned'
                  \/ \E v \in Works : m \in draft'[v].text \cup draft'[v].pending \cup chat'[v].text
    <3>1. m \in 1 .. typed
      BY <1>1, <2>1
    <3> QED  BY <1>1, <1>5, <1>6, <3>1 DEF NavigationInv, DraftIsKept
  <2>2. n \in draft'[w].text /\ runs'[n] <= 1
    BY <1>1, <1>3, <1>5, <1>6
  <2> QED  BY <2>1, <2>2 DEF DraftIsKept
<1>9. ChoiceInv' /\ location'.by >= location.by
  BY <1>1, <1>5, <1>6, ChoiceRests
<1>10. NavigationTypes'
  BY <1>1, <1>6 DEF NavigationInv, NavigationTypes
<1> QED  BY <1>7, <1>8, <1>9, <1>10 DEF NavigationInv

\* A draft and its submission go on, and keep what they hold.
LEMMA DraftGoesOn ==
  ASSUME NavigationInv, NEW w \in Works, NEW d \in DraftRecord, NEW t \in SubmissionRecord,
         draft' = [draft EXCEPT ![w] = d], task' = [task EXCEPT ![w] = t],
         d.exists = draft[w].exists, d.text \cup d.pending = draft[w].text \cup draft[w].pending,
         HeldBy(d, t) \subseteq Held(w), WellFormed(d, t),
         chat' \in ComposerTable, \A v \in Works : chat'[v].text = chat[v].text,
         UNCHANGED <<choice, location, active, awaiting, typed, runs, abandoned>>
  PROVE  NavigationInv' /\ location'.by >= location.by
<1>1. draft' \in DraftTable /\ task' \in SubmissionTable /\ DraftInv'
  BY DraftChanges
<1>2. DraftIsKept'
  BY KeptStays DEF NavigationInv, NavigationTypes, DraftIsKept
<1>3. \A v \in Works : draft[v].exists => draft'[v].exists
  BY DEF NavigationInv, NavigationTypes, DraftTable
<1>4. ChoiceInv' /\ location'.by >= location.by
  BY <1>3, ChoiceRests DEF NavigationInv, ChoiceInv
<1>5. NavigationTypes'
  BY <1>1 DEF NavigationInv, NavigationTypes
<1> QED  BY <1>1, <1>2, <1>4, <1>5 DEF NavigationInv
LEMMA SubmitDraftKeeps ==
  ASSUME NavigationInv, NEW w \in Works, SubmitDraft(w) PROVE NavigationInv' /\ location'.by >= location.by
<1> DEFINE s == IF draft[w].pending # {} THEN draft[w].pending ELSE draft[w].text
           rest == IF draft[w].pending # {} THEN draft[w].text ELSE {}
           d == [draft[w] EXCEPT !.pending = s, !.text = rest, !.preparing = TRUE]
           t == [at |-> IF draft[w].opened /\ chat[w].open THEN "settings" ELSE "opening", text |-> s]
<1>1. /\ draft' = [draft EXCEPT ![w] = d] /\ task' = [task EXCEPT ![w] = t] /\ task[w].at = "none" /\ draft[w].exists
      /\ UNCHANGED <<choice, location, active, awaiting, chat, typed, runs, abandoned>>
  BY DEF SubmitDraft, RestOfText
<1>2. /\ d \in DraftRecord /\ d.exists = draft[w].exists /\ d.text = rest /\ d.pending = s
      /\ t \in SubmissionRecord /\ t.text = s /\ t.at # "none"
  BY DraftMeans DEF DraftRecord, SubmissionRecord
<1> HIDE DEF d, t
<1>3. draft[w].text \cap draft[w].pending = {}
  BY DraftMeans DEF WellFormed
<1>4. HeldBy(d, t) \subseteq Held(w) /\ WellFormed(d, t) /\ d.text \cup d.pending = draft[w].text \cup draft[w].pending
  BY <1>1, <1>2, <1>3, DraftMeans DEF HeldBy, WellFormed
<1>5. chat' \in ComposerTable
  BY <1>1 DEF NavigationInv, NavigationTypes
<1> QED  BY <1>1, <1>2, <1>4, <1>5, DraftGoesOn

\* Fails: the submission ends with the draft still there.
LEMMA FailsKeep ==
  ASSUME NavigationInv, NEW w \in Works, Fails(w), UNCHANGED <<choice, location, active, awaiting, chat, typed, runs, abandoned>>
  PROVE  NavigationInv' /\ location'.by >= location.by
<1> DEFINE d == [draft[w] EXCEPT !.preparing = FALSE]
<1>1. draft' = [draft EXCEPT ![w] = d] /\ task' = [task EXCEPT ![w] = NoTask]
  BY DEF Fails
<1>2. d \in DraftRecord /\ d.exists = draft[w].exists /\ d.text = draft[w].text /\ d.pending = draft[w].pending
  BY DraftMeans DEF DraftRecord
<1>3. NoTask \in SubmissionRecord /\ NoTask.text = {} /\ NoTask.at = "none"
  BY DEF NoTask, SubmissionRecord
<1> HIDE DEF d
<1>4. HeldBy(d, NoTask) \subseteq Held(w) /\ WellFormed(d, NoTask)
  BY <1>2, <1>3, DraftMeans DEF HeldBy, WellFormed
<1>5. chat' \in ComposerTable
  BY DEF NavigationInv, NavigationTypes
<1> QED  BY <1>1, <1>2, <1>3, <1>4, <1>5, DraftGoesOn

\* The submission goes on to its next step.
LEMMA SubmissionGoesOn ==
  ASSUME NavigationInv, NEW w \in Works, NEW d \in DraftRecord, NEW at \in {"settings", "submitting"}, task[w].at # "none",
         draft' = [draft EXCEPT ![w] = d], d.exists = draft[w].exists, d.text = draft[w].text, d.pending = draft[w].pending,
         task' = [task EXCEPT ![w].at = at],
         chat' \in ComposerTable, \A v \in Works : chat'[v].text = chat[v].text,
         UNCHANGED <<choice, location, active, awaiting, typed, runs, abandoned>>
  PROVE  NavigationInv' /\ location'.by >= location.by
<1> DEFINE t == [task[w] EXCEPT !.at = at]
<1>1. task' = [task EXCEPT ![w] = t] /\ t \in SubmissionRecord /\ t.text = task[w].text /\ t.at # "none"
  BY DraftMeans DEF SubmissionRecord
<1> HIDE DEF t
<1>2. HeldBy(d, t) \subseteq Held(w) /\ WellFormed(d, t)
  BY <1>1, DraftMeans DEF HeldBy, WellFormed
<1> QED  BY <1>1, <1>2, DraftGoesOn

LEMMA DraftOpenedKeeps ==
  ASSUME NavigationInv, NEW w \in Works, DraftOpened(w) PROVE NavigationInv' /\ location'.by >= location.by
<1>1. task[w].at = "opening" /\ UNCHANGED <<choice, location, active, awaiting, typed, runs, abandoned>>
  BY DEF DraftOpened
<1>2. chat \in ComposerTable
  BY DEF NavigationInv, NavigationTypes
<1>3. CASE Fails(w) /\ UNCHANGED chat
  BY <1>1, <1>3, FailsKeep
<1>4. CASE /\ draft' = [draft EXCEPT ![w].opened = TRUE] /\ chat' = [chat EXCEPT ![w].open = TRUE]
           /\ task' = [task EXCEPT ![w].at = "settings"]
  <2> DEFINE d == [draft[w] EXCEPT !.opened = TRUE]
  <2>1. d \in DraftRecord /\ d.exists = draft[w].exists /\ d.text = draft[w].text /\ d.pending = draft[w].pending
        /\ draft' = [draft EXCEPT ![w] = d]
    BY <1>4, DraftMeans DEF DraftRecord
  <2>2. chat' \in ComposerTable /\ \A v \in Works : chat'[v].text = chat[v].text
    BY <1>2, <1>4 DEF ComposerTable, ComposerRecord
  <2> HIDE DEF d
  <2> QED  BY <1>1, <1>4, <2>1, <2>2, SubmissionGoesOn
<1>5. CASE task' = [task EXCEPT ![w] = NoTask] /\ UNCHANGED <<draft, chat>>
  <2>1. NoTask \in SubmissionRecord /\ NoTask.text = {} /\ NoTask.at = "none"
    BY DEF NoTask, SubmissionRecord
  <2>2. HeldBy(draft[w], NoTask) \subseteq Held(w) /\ WellFormed(draft[w], NoTask)
    BY <2>1, DraftMeans DEF HeldBy, WellFormed
  <2>3. draft' = [draft EXCEPT ![w] = draft[w]] /\ draft[w] \in DraftRecord
    BY <1>5, DraftMeans
  <2> QED  BY <1>1, <1>2, <1>5, <2>1, <2>2, <2>3, DraftGoesOn
<1> QED  BY <1>3, <1>4, <1>5 DEF DraftOpened

LEMMA DraftSettingsKeep ==
  ASSUME NavigationInv, NEW w \in Works, DraftSettings(w) PROVE NavigationInv' /\ location'.by >= location.by
<1>1. task[w].at = "settings" /\ UNCHANGED <<choice, location, active, awaiting, chat, typed, runs, abandoned>>
  BY DEF DraftSettings
<1>2. CASE Fails(w)
  BY <1>1, <1>2, FailsKeep
<1>3. CASE task' = [task EXCEPT ![w].at = "submitting"] /\ UNCHANGED draft
  <2>1. draft' = [draft EXCEPT ![w] = draft[w]] /\ draft[w] \in DraftRecord /\ chat' \in ComposerTable
    BY <1>1, <1>3, DraftMeans DEF NavigationInv, NavigationTypes
  <2> QED  BY <1>1, <1>3, <2>1, SubmissionGoesOn
<1> QED  BY <1>2, <1>3 DEF DraftSettings

\* The message runs, or perhaps does, and its conversation takes the place of the draft.
LEMMA BoundKeeps ==
  ASSUME NavigationInv, NEW w \in Works, Runs(w), Bound(w), task[w].at = "submitting",
         UNCHANGED <<choice, awaiting, typed, abandoned>>
  PROVE  NavigationInv' /\ location'.by >= location.by
<1>1. /\ runs' = [n \in DOMAIN runs |-> IF n \in task[w].text THEN runs[n] + 1 ELSE runs[n]]
      /\ chat' = [chat EXCEPT ![w].text = @ \cup draft[w].text]
      /\ draft' = [draft EXCEPT ![w] = NoDraft] /\ task' = [task EXCEPT ![w] = NoTask]
  BY DEF Runs, Bound
<1>2. /\ draft \in DraftTable /\ task \in SubmissionTable /\ chat \in ComposerTable /\ runs \in RunTable
      /\ typed \in Nat /\ typed <= MaxTyped
  BY DEF NavigationInv, NavigationTypes
<1>3. NoDraft \in DraftRecord /\ NoTask \in SubmissionRecord /\ NoDraft.text = {} /\ NoDraft.pending = {} /\ NoTask.text = {}
  BY DEF NoDraft, NoTask, DraftRecord, SubmissionRecord
<1>4. /\ draft' \in DraftTable /\ task' \in SubmissionTable
      /\ \A v \in Works : /\ draft'[v] = IF v = w THEN NoDraft ELSE draft[v]
                          /\ task'[v] = IF v = w THEN NoTask ELSE task[v]
  BY <1>1, <1>2, <1>3 DEF DraftTable, SubmissionTable
<1>5. /\ chat' \in ComposerTable /\ chat'[w].text = chat[w].text \cup draft[w].text
      /\ \A v \in Works : chat[v].text \subseteq chat'[v].text
  <2>1. chat[w] \in ComposerRecord /\ draft[w].text \in SUBSET Nat
    BY <1>2 DEF ComposerTable, DraftTable, DraftRecord
  <2> QED  BY <1>1, <1>2, <2>1 DEF ComposerTable, ComposerRecord
<1>6. \A n \in task[w].text : n \in 1 .. typed /\ runs[n] = 0
  BY DraftMeans DEF NavigationInv, DraftInv
<1>7. runs' \in RunTable /\ \A n \in 1 .. MaxTyped : runs'[n] = IF n \in task[w].text THEN runs[n] + 1 ELSE runs[n]
  BY <1>1, <1>2 DEF RunTable
<1>8. DraftInv'
  <2>1. \A v \in Works : Held(v)' = IF v = w THEN {} ELSE Held(v)
    BY <1>3, <1>4 DEF Held, HeldBy
  <2>2. \A v \in Works : WellFormed(draft'[v], task'[v])
    <3>1. WellFormed(NoDraft, NoTask)
      BY DEF NoDraft, NoTask, WellFormed
    <3> QED  BY <1>4, <3>1 DEF NavigationInv, DraftInv
  <2>3. \A v \in Works : \A n \in Held(v)' : n \in 1 .. typed' /\ runs'[n] = 0
    <3>1. ASSUME NEW v \in Works, NEW n \in Held(v), v # w PROVE n \in 1 .. typed /\ runs'[n] = 0
      <4>1. n \in 1 .. typed /\ runs[n] = 0 /\ Held(v) \cap Held(w) = {}
        BY <3>1 DEF NavigationInv, DraftInv
      <4>2. n \notin task[w].text
        BY <3>1, <4>1, DraftMeans
      <4>3. n \in 1 .. MaxTyped
        BY <1>2, <4>1, NavigationAssumption
      <4> QED  BY <1>7, <4>1, <4>2, <4>3
    <3> QED  BY <2>1, <3>1
  <2>4. \A u, v \in Works : u # v => Held(u)' \cap Held(v)' = {}
    BY <2>1 DEF NavigationInv, DraftInv
  <2>5. \A n \in 1 .. MaxTyped : n > typed' => runs'[n] = 0
    BY <1>2, <1>6, <1>7 DEF NavigationInv, DraftInv
  <2> QED  BY <2>2, <2>3, <2>4, <2>5 DEF DraftInv
<1>9. DraftIsKept'
  <2>1. 1 .. typed \subseteq 1 .. MaxTyped
    BY <1>2, NavigationAssumption
  <2>2. \A n \in 1 .. typed : runs[n] <= 1
    BY DEF NavigationInv, DraftIsKept
  <2>3. \A n \in 1 .. typed : runs'[n] <= 1 /\ (runs[n] = 1 => runs'[n] = 1)
    BY <1>6, <1>7, <2>1, <2>2
  <2>4. \A n \in draft[w].pending : runs'[n] = 1
    <3>1. draft[w].pending \subseteq task[w].text
      BY DraftMeans DEF WellFormed
    <3> QED  BY <1>2, <1>6, <1>7, <2>1, <3>1
  <2> QED  BY <1>1, <1>3, <1>5, <1>7, <2>3, <2>4, KeptStays
<1>10. location.by \in Nat /\ location \in PlaceRecord /\ active \in ActiveRecord /\ active.by = location.by /\ location.by <= choice
  BY DEF NavigationInv, NavigationTypes, ChoiceInv, PlaceRecord
<1>11. CASE active.of # w /\ UNCHANGED <<location, active>>
  <2>1. ChoiceInv' /\ location'.by >= location.by
    BY <1>4, <1>10, <1>11, ChoiceRests DEF NavigationInv, ChoiceInv
  <2>2. NavigationTypes'
    BY <1>4, <1>5, <1>7, <1>11 DEF NavigationInv, NavigationTypes
  <2> QED  BY <1>8, <1>9, <2>1, <2>2 DEF NavigationInv
<1>12. CASE Activate("chat", w, active.by)
  <2>1. /\ location' \in PlaceRecord /\ location'.by = location.by /\ location'.kind = "chat"
        /\ active' \in ActiveRecord /\ active'.by = location.by
    BY <1>10, <1>12, ActivateMeans DEF NavigationInv, PlaceKinds
  <2>2. ChoiceInv'
    BY <1>10, <2>1, ChoiceStays
  <2>3. NavigationTypes'
    BY <1>4, <1>5, <1>7, <2>1 DEF NavigationInv, NavigationTypes
  <2> QED  BY <1>8, <1>9, <1>10, <2>1, <2>2, <2>3 DEF NavigationInv
<1> QED  BY <1>11, <1>12 DEF Bound

LEMMA DraftSubmittedKeeps ==
  ASSUME NavigationInv, NEW w \in Works, DraftSubmitted(w) PROVE NavigationInv' /\ location'.by >= location.by
<1>1. task[w].at = "submitting" /\ UNCHANGED <<choice, awaiting, typed, abandoned>>
  BY DEF DraftSubmitted
<1>2. CASE Runs(w) /\ Bound(w)
  BY <1>1, <1>2, BoundKeeps
<1>3. CASE Fails(w) /\ UNCHANGED <<chat, location, active, runs>>
  BY <1>1, <1>3, FailsKeep, ZenonT(30)
<1> QED  BY <1>2, <1>3 DEF DraftSubmitted, OutcomeUnknown

LEMMA ChatClosesKeeps ==
  ASSUME NavigationInv, NEW w \in Works, ChatCloses(w) PROVE NavigationInv' /\ location'.by >= location.by
<1>1. /\ chat' = [chat EXCEPT ![w].open = FALSE]
      /\ UNCHANGED <<choice, location, active, awaiting, draft, task, typed, runs, abandoned>>
  BY DEF ChatCloses
<1>2. chat' \in ComposerTable /\ \A v \in Works : chat'[v].text = chat[v].text
  BY <1>1 DEF NavigationInv, NavigationTypes, ComposerTable, ComposerRecord
<1>3. DraftInv' /\ DraftIsKept'
  BY <1>1, <1>2, DraftsStay
<1>4. ChoiceInv' /\ location'.by >= location.by
  BY <1>1, ChoiceRests DEF NavigationInv, ChoiceInv
<1>5. NavigationTypes'
  BY <1>1, <1>2 DEF NavigationInv, NavigationTypes
<1> QED  BY <1>3, <1>4, <1>5 DEF NavigationInv

LEMMA NavigationStep ==
  ASSUME NavigationInv, [NavigationNext]_navigationVars PROVE NavigationInv' /\ location'.by >= location.by
<1>1. CASE UNCHANGED navigationVars
  <2>1. UNCHANGED <<choice, location, active, awaiting, draft, task, chat, typed, runs, abandoned>> /\ UNCHANGED access
    BY <1>1 DEF navigationVars
  <2>2. awaiting' \subseteq {a \in PlaceRecord : a.kind # "draft"}
    BY <2>1 DEF NavigationInv, NavigationTypes
  <2> QED  BY <2>1, <2>2, ChoicesKeep DEF DraftsRest
<1> QED  BY <1>1, ChoiceActionsKeep, NewSessionKeeps, ForgetWorkspaceKeeps, TypeDraftKeeps, SubmitDraftKeeps, DraftOpenedKeeps,
            DraftSettingsKeep, DraftSubmittedKeeps, ChatClosesKeeps DEF NavigationNext

\* chat/drafts/submit.ts and store.ts: through any number of failures, retries, unknown outcomes and forgotten
\* workspaces, a message typed into a draft is given to an engine at most once, and until it is it stays in
\* the draft, in its submission or in a composer.
THEOREM DraftIsAlwaysKept == NavigationSpec => []DraftIsKept
<1>1. NavigationInv => DraftIsKept
  BY DEF NavigationInv
<1> QED  BY <1>1, NavigationInitially, NavigationStep, PTL DEF NavigationSpec

\* app/useNavigation.ts: however openings, connections and submissions end, what a window shows for a choice
\* gives way only to what was chosen later.
THEOREM LastChoiceAlwaysWins == NavigationSpec => LastChoiceWins
<1>1. NavigationInv /\ [NavigationNext]_navigationVars => [location'.by >= location.by]_navigationVars
  BY NavigationStep
<1>2. NavigationInv /\ [NavigationNext]_navigationVars => NavigationInv'
  BY NavigationStep
<1> QED  BY <1>1, <1>2, NavigationInitially, PTL DEF NavigationSpec, LastChoiceWins
-----------------------------------------------------------------------------
(* DesktopWindows: a document that moves.                                  *)
DocRecord == [text : Nat, dirty : BOOLEAN, lock : Children \cup {"no"}]
Moves == {"none", "sent", "waits", "ready", "failed", "discards", "unlocks", "done"}
Docs == [Windows -> DocRecord]
Wins == [Windows -> {"none", "built", "attached", "closing", "gone"}]
Creations == [Children -> Moves]
Phases == [Windows -> {"opening", "adopted", "failing", "ready", "orphan"}]
Leavings == [Windows -> {"no", "cancels", "asks", "decided", "closes"}]

WindowTypes ==
  /\ win \in Wins /\ doc \in Docs /\ target \in Docs
  /\ handoff \subseteq Children /\ creation \in Creations /\ phase \in Phases /\ asked \subseteq Windows /\ leaving \in Leavings
  /\ restarting \in BOOLEAN /\ inputs \in Nat /\ unsaved \subseteq Nat
  /\ \A w \in Windows : doc[w].text <= inputs /\ target[w].text <= inputs
  /\ \A w \in Windows : target[w].lock = "no" /\ (w # "main" => doc[w].lock = "no")
  /\ phase["main"] = "ready" /\ win["main"] \in {"attached", "closing", "gone"}

\* A window that is being built is not left, and one that closes is no longer attached.
LeavingInv ==
  \A w \in Windows : /\ win[w] \in {"none", "built"} \/ phase[w] = "opening" => leaving[w] = "no"
                     /\ win[w] = "attached" => leaving[w] # "closes"

\* How far the move of a document to window c is.
MoveInv ==
  \A c \in Children :
    /\ creation[c] \in Moves \ {"none", "done"} <=> doc["main"].lock = c
    /\ doc["main"].lock = c => doc["main"].text # 0
    /\ c \in handoff <=> creation[c] = "waits"
    /\ creation[c] \in {"none", "sent"} => doc[c].text = 0 /\ target[c].text = 0
    /\ creation[c] = "sent" => win[c] = "none"
    /\ creation[c] = "waits" => win[c] \in {"built", "attached"} /\ phase[c] \in {"opening", "adopted", "failing"}
    /\ creation[c] = "failed" => phase[c] # "ready"
    /\ creation[c] \in {"discards", "unlocks"} => win[c] \notin {"built", "attached"}

Has(c) == (win[c] = "built" /\ target[c].text # 0) \/ (win[c] = "attached" /\ doc[c].text # 0)

\* One new window has the document, and while the first has it too, it is locked there.
CopyInv ==
  \A c \in Children : Has(c) => /\ doc["main"].text # 0 => doc["main"].lock = c
                                /\ \A d \in Children : Has(d) => c = d

Handed == \E c \in Children : doc["main"].lock = c /\ creation[c] = "ready"

\* Window w has the document to stay.
Holds(w, d) ==
  /\ win[w] = "attached" /\ leaving[w] \notin {"decided", "closes"} /\ phase[w] = "ready"
  /\ doc[w].text = d /\ (w = "main" => ~Handed)

HolderInv == \A d \in unsaved : app = "running" /\ \E w \in Windows : Holds(w, d)

\* What a window is about to adopt is what the first window still has, unless the user gave it up there.
AdoptInv ==
  \A c \in handoff :
    /\ win[c] = "built" => phase[c] = "opening" /\ target[c].text = doc["main"].text
    /\ win[c] = "attached" /\ phase[c] = "opening" => doc[c].text = doc["main"].text
    /\ win[c] = "attached" /\ phase[c] = "adopted" /\ doc["main"].text \in unsaved =>
         doc[c].text = doc["main"].text /\ leaving[c] # "decided"

WindowInv == WindowTypes /\ LeavingInv /\ MoveInv /\ CopyInv /\ HolderInv /\ AdoptInv

LEMMA WindowsInitially == WindowsInit => WindowInv
<1> SUFFICES ASSUME WindowsInit PROVE WindowInv
  OBVIOUS
<1> USE WindowsAssumption DEF WindowsInit, Windows
<1>0. NoDoc \in DocRecord /\ NoDoc.text = 0 /\ NoDoc.lock = "no"
  BY DEF NoDoc, DocRecord
<1>1. PICK dirty \in BOOLEAN :
        /\ doc = [w \in Windows |-> IF w = "main" THEN [NoDoc EXCEPT !.text = 1, !.dirty = dirty] ELSE NoDoc]
        /\ unsaved = IF dirty THEN {1} ELSE {}
  OBVIOUS
<1> DEFINE r == [NoDoc EXCEPT !.text = 1, !.dirty = dirty]
<1>2. r \in DocRecord /\ r.text = 1 /\ r.lock = "no"
  BY DEF NoDoc, DocRecord
<1>3. doc = [w \in Windows |-> IF w = "main" THEN r ELSE NoDoc]
  BY <1>1
<1> HIDE DEF r
<1>4. /\ doc \in Docs /\ target \in Docs /\ \A c \in Children : doc[c] = NoDoc /\ target[c] = NoDoc
      /\ target["main"] = NoDoc /\ doc["main"].text = 1 /\ doc["main"].lock = "no" /\ unsaved \subseteq {1}
  BY <1>0, <1>1, <1>2, <1>3 DEF Docs
<1>5. win \in Wins /\ creation \in Creations
  BY DEF Wins, Creations, Moves
<1>6. phase \in Phases /\ leaving \in Leavings
  BY DEF Phases, Leavings
<1>7. \A w \in Windows : /\ doc[w].text <= inputs /\ target[w].text <= inputs /\ target[w].lock = "no"
                         /\ w # "main" => doc[w].lock = "no"
  BY <1>0, <1>4
<1>8. /\ handoff \subseteq Children /\ asked \subseteq Windows /\ restarting \in BOOLEAN /\ inputs \in Nat
      /\ phase["main"] = "ready" /\ win["main"] \in {"attached", "closing", "gone"}
  OBVIOUS
<1>9. WindowTypes
  BY <1>4, <1>5, <1>6, <1>7, <1>8 DEF WindowTypes
<1>10. LeavingInv /\ MoveInv /\ CopyInv /\ AdoptInv
  BY <1>0, <1>4 DEF LeavingInv, MoveInv, CopyInv, AdoptInv, Has, Moves
<1>11. ASSUME NEW d \in unsaved PROVE Holds("main", d)
  BY <1>4 DEF Holds, Handed
<1>12. HolderInv
  BY <1>11 DEF HolderInv
<1> QED  BY <1>9, <1>10, <1>12 DEF WindowInv

\* What the steps read of the types.
LEMMA WindowFacts ==
  ASSUME WindowTypes
  PROVE  /\ \A w \in Windows : /\ doc[w] \in DocRecord /\ target[w] \in DocRecord /\ doc[w].text \in Nat /\ target[w].text \in Nat
                               /\ doc[w].text <= inputs /\ target[w].text <= inputs
         /\ "main" \in Windows /\ "main" \notin Children /\ "no" \notin Children /\ Children \subseteq Windows
         /\ \A w \in Windows : w = "main" \/ w \in Children
         /\ doc["main"].lock \in Children \cup {"no"}
BY WindowsAssumption DEF WindowTypes, Docs, DocRecord, Windows

LEMMA TypeInKeeps == ASSUME WindowInv, NEW w \in Windows, TypeIn(w), app = "running" PROVE WindowInv'
<1> DEFINE r == [doc[w] EXCEPT !.text = inputs + 1, !.dirty = TRUE]
<1>0. WindowTypes /\ inputs \in Nat /\ inputs' = inputs + 1
  BY DEF WindowInv, WindowTypes, TypeIn
<1>a. doc[w] \in DocRecord /\ doc[w].text # 0 /\ doc[w].lock = "no"
  BY <1>0, WindowFacts DEF TypeIn
<1>1. r \in DocRecord /\ r.text = inputs + 1 /\ r.lock = "no" /\ doc[w].text # 0 /\ doc[w].lock = "no"
  <2>1. inputs + 1 \in Nat /\ inputs + 1 # 0
    BY <1>0
  <2>2. r.text = inputs + 1 /\ r.lock = doc[w].lock /\ r.dirty = TRUE /\ r \in DocRecord
    BY <1>a, <2>1 DEF DocRecord
  <2> QED  BY <1>a, <2>2
<1>2. doc' = [doc EXCEPT ![w] = r]
  BY <1>0 DEF TypeIn
<1> HIDE DEF r
<1>3. doc' \in Docs /\ doc'[w] = r /\ \A v \in Windows \ {w} : doc'[v] = doc[v]
  BY <1>0, <1>1, <1>2 DEF WindowTypes, Docs
<1>4. /\ \A v \in Windows : doc'[v].lock = doc[v].lock
      /\ doc'[w].text = inputs + 1 /\ doc'[w].text # 0
      /\ \A v \in Windows \ {w} : doc'[v].text = doc[v].text
  BY <1>0, <1>1, <1>3
<1>5. /\ UNCHANGED <<win, target, handoff, creation, phase, asked, leaving, restarting, app>>
      /\ unsaved' = (unsaved \ {doc[w].text}) \cup (IF win[w] = "attached" /\ leaving[w] # "decided" /\ phase[w] = "ready" THEN {inputs'} ELSE {})
      /\ phase[w] # "opening"
  BY DEF TypeIn
<1>6. WindowTypes'
  <2>1. \A v \in Windows : doc'[v].text <= inputs' /\ target'[v].text <= inputs'
    BY <1>0, <1>4, <1>5, WindowFacts
  <2>2. unsaved' \subseteq Nat
    <3>1. unsaved \subseteq Nat /\ inputs' \in Nat
      BY <1>0 DEF WindowTypes
    <3> QED  BY <1>5, <3>1
  <2> QED  BY <1>0, <1>3, <1>4, <1>5, <2>1, <2>2 DEF WindowTypes
<1>7. LeavingInv'
  BY <1>5 DEF WindowInv, LeavingInv
<1>8. MoveInv'
  BY <1>0, <1>1, <1>4, <1>5, WindowFacts DEF WindowInv, MoveInv
<1>9. CopyInv'
  BY <1>0, <1>1, <1>4, <1>5, WindowFacts DEF WindowInv, CopyInv, Has
<1>10. HolderInv'
  <2> SUFFICES ASSUME NEW d \in unsaved' PROVE app' = "running" /\ \E v \in Windows : Holds(v, d)'
    BY DEF HolderInv
  <2>1. Handed' <=> Handed
    BY <1>0, <1>4, <1>5, WindowFacts DEF Handed
  <2>2. CASE d \in unsaved /\ d # doc[w].text
    <3>1. PICK v \in Windows : Holds(v, d)
      BY <2>2 DEF WindowInv, HolderInv
    <3>2. Holds(v, d)'
      BY <2>1, <2>2, <3>1, <1>3, <1>4, <1>5 DEF Holds
    <3> QED  BY <3>2, <2>2, <1>5 DEF WindowInv, HolderInv
  <2>3. CASE d = inputs' /\ win[w] = "attached" /\ leaving[w] # "decided" /\ phase[w] = "ready"
    <3>1. Handed /\ w = "main" => FALSE
      BY <1>0, <1>1, WindowFacts DEF Handed
    <3>2. Holds(w, d)'
      BY <2>1, <2>3, <3>1, <1>0, <1>4, <1>5 DEF Holds, WindowInv, LeavingInv
    <3> QED  BY <3>2 , <1>5
  <2> QED  BY <2>2, <2>3, <1>5
<1>11. AdoptInv'
  <2>1. handoff # {} => w # "main" /\ doc'["main"].text = doc["main"].text /\ doc["main"].text <= inputs
    <3> SUFFICES ASSUME NEW c \in handoff PROVE w # "main" /\ doc'["main"].text = doc["main"].text /\ doc["main"].text <= inputs
      OBVIOUS
    <3>1. doc["main"].lock = c /\ c # "no"
      BY <1>0, WindowFacts DEF WindowInv, MoveInv, WindowTypes, Moves
    <3> QED  BY <1>0, <1>1, <1>4, <3>1, WindowFacts
  <2>2. handoff # {} /\ doc["main"].text \in unsaved' => doc["main"].text \in unsaved /\ doc["main"].text # doc[w].text
    BY <1>0, <1>5, <2>1, WindowFacts
  <2>3. ASSUME NEW c \in handoff, win[c] = "built" PROVE phase[c] = "opening" /\ target[c].text = doc'["main"].text
    BY <2>1, <2>3 DEF WindowInv, AdoptInv
  <2>4. ASSUME NEW c \in handoff, win[c] = "attached", phase[c] = "opening" PROVE doc'[c].text = doc'["main"].text
    BY <1>0, <1>4, <1>5, <2>1, <2>4, WindowFacts DEF WindowInv, AdoptInv, WindowTypes
  <2>5. ASSUME NEW c \in handoff, win[c] = "attached", phase[c] = "adopted", doc["main"].text \in unsaved'
        PROVE doc'[c].text = doc'["main"].text /\ leaving[c] # "decided"
    BY <1>0, <1>4, <1>5, <2>1, <2>2, <2>5, WindowFacts DEF WindowInv, AdoptInv, WindowTypes
  <2> QED  BY <1>5, <2>1, <2>3, <2>4, <2>5 DEF AdoptInv
<1> QED  BY <1>6, <1>7, <1>8, <1>9, <1>10, <1>11 DEF WindowInv

\* Who holds a document goes on holding it.
LEMMA HoldersStay ==
  ASSUME HolderInv, unsaved' \subseteq unsaved, unsaved # {} /\ app = "running" => app' = "running",
         \A w \in Windows : \A d \in unsaved' : Holds(w, d) => Holds(w, d)'
  PROVE  HolderInv'
BY DEF HolderInv

LEMMA MoveToWindowKeeps == ASSUME WindowInv, NEW c \in Children, MoveToWindow(c), app = "running" PROVE WindowInv'
<1> DEFINE r == [doc["main"] EXCEPT !.lock = c]
<1>0. WindowTypes
  BY DEF WindowInv
<1>a. doc["main"] \in DocRecord /\ doc["main"].text # 0 /\ doc["main"].lock = "no" /\ "main" \in Windows /\ c # "no" /\ c # "main"
  BY <1>0, WindowFacts DEF MoveToWindow
<1>1. r \in DocRecord /\ r.text = doc["main"].text /\ r.lock = c
  BY <1>a DEF DocRecord
<1>2. doc' = [doc EXCEPT !["main"] = r]
  BY DEF MoveToWindow
<1> HIDE DEF r
<1>3. doc' \in Docs /\ doc'["main"] = r /\ \A v \in Children : doc'[v] = doc[v]
  BY <1>0, <1>1, <1>2, <1>a, WindowFacts DEF WindowTypes, Docs
<1>4. doc'["main"].lock = c /\ \A v \in Windows : doc'[v].text = doc[v].text
  BY <1>0, <1>1, <1>3, WindowFacts
<1>5. /\ UNCHANGED <<win, target, handoff, phase, asked, leaving, restarting, app, inputs, restarts, unsaved>>
      /\ win[c] = "none" /\ creation[c] = "none" /\ creation' = [creation EXCEPT ![c] = "sent"]
  BY DEF MoveToWindow
<1>6. creation' \in Creations /\ creation'[c] = "sent" /\ \A x \in Children \ {c} : creation'[x] = creation[x]
  BY <1>0, <1>5 DEF WindowTypes, Creations, Moves
<1>7. WindowTypes'
  BY <1>0, <1>3, <1>4, <1>5, <1>6, WindowFacts DEF WindowTypes
<1>8. LeavingInv'
  BY <1>5 DEF WindowInv, LeavingInv
<1>9. \A x \in Children : ~Has(x)
  BY <1>0, <1>a, WindowFacts DEF WindowInv, CopyInv
<1>10. \A x \in Children : Has(x)' <=> Has(x)
  BY <1>0, <1>4, <1>5, WindowFacts DEF Has
<1>11. CopyInv'
  BY <1>9, <1>10 DEF CopyInv
<1>12. MoveInv'
  <2> SUFFICES ASSUME NEW x \in Children
               PROVE  /\ creation'[x] \in Moves \ {"none", "done"} <=> doc'["main"].lock = x
                      /\ doc'["main"].lock = x => doc'["main"].text # 0
                      /\ x \in handoff <=> creation'[x] = "waits"
                      /\ creation'[x] \in {"none", "sent"} => doc'[x].text = 0 /\ target[x].text = 0
                      /\ creation'[x] = "sent" => win[x] = "none"
                      /\ creation'[x] = "waits" => win[x] \in {"built", "attached"} /\ phase[x] \in {"opening", "adopted", "failing"}
                      /\ creation'[x] = "failed" => phase[x] # "ready"
                      /\ creation'[x] \in {"discards", "unlocks"} => win[x] \notin {"built", "attached"}
    BY <1>5 DEF MoveInv
  <2>1. CASE x = c
    BY <2>1, <1>a, <1>4, <1>5, <1>6, <1>0, WindowFacts DEF WindowInv, MoveInv, Moves
  <2>2. CASE x # c
    BY <2>2, <1>a, <1>4, <1>5, <1>6, <1>0, WindowFacts DEF WindowInv, MoveInv, Moves
  <2> QED  BY <2>1, <2>2
<1>13. \A w \in Windows : \A d \in unsaved' : Holds(w, d) => Holds(w, d)'
  BY <1>a, <1>4, <1>5, <1>6 DEF Holds, Handed
<1>14. HolderInv'
  BY <1>5, <1>13, HoldersStay DEF WindowInv
<1>15. AdoptInv'
  BY <1>0, <1>4, <1>5, <1>6, WindowFacts DEF WindowInv, AdoptInv, WindowTypes
<1> QED  BY <1>7, <1>8, <1>11, <1>12, <1>14, <1>15 DEF WindowInv

\* Only the restart and what is asked of windows.
LEMMA RestartAppKeeps == ASSUME WindowInv, RestartApp PROVE WindowInv'
<1>1. UNCHANGED <<win, target, handoff, creation, doc, phase, leaving, app, inputs, unsaved>>
  BY DEF RestartApp
<1>2. asked' \subseteq Windows /\ restarting' \in BOOLEAN
  BY DEF RestartApp, WindowInv, WindowTypes
<1>3. WindowTypes'
  BY <1>1, <1>2 DEF WindowInv, WindowTypes
<1>4. LeavingInv' /\ MoveInv'
  BY <1>1 DEF WindowInv, LeavingInv, MoveInv
<1>5. CopyInv'
  BY <1>1 DEF WindowInv, CopyInv, Has
<1>6. HolderInv' /\ AdoptInv'
  BY <1>1 DEF WindowInv, HolderInv, AdoptInv, Holds, Handed
<1> QED  BY <1>3, <1>4, <1>5, <1>6 DEF WindowInv

LEMMA CloseAskedKeeps == ASSUME WindowInv, NEW w \in Windows, CloseAsked(w) PROVE WindowInv'
<1>0. WindowTypes
  BY DEF WindowInv
<1>1. /\ UNCHANGED <<win, target, handoff, creation, doc, phase, restarting, app, inputs, restarts, unsaved>>
      /\ asked' = asked \ {w} /\ win[w] \in {"attached", "closing"}
      /\ leaving' = IF leaving[w] # "no" THEN leaving
                    ELSE [leaving EXCEPT ![w] = IF w = "main" THEN "cancels" ELSE IF phase[w] = "opening" THEN "no" ELSE "asks"]
  BY DEF CloseAsked, Listed
<1>2. /\ leaving' \in Leavings /\ \A v \in Windows : v # w => leaving'[v] = leaving[v]
      /\ \/ leaving'[w] = leaving[w]
         \/ leaving[w] = "no" /\ leaving'[w] \in {"cancels", "asks"} /\ (w = "main" \/ phase[w] # "opening")
  <2>1. leaving \in Leavings
    BY <1>0 DEF WindowTypes
  <2>2. CASE leaving[w] # "no"
    BY <1>1, <2>1, <2>2
  <2>3. CASE leaving[w] = "no" /\ (w = "main" \/ phase[w] # "opening")
    <3> DEFINE to == IF w = "main" THEN "cancels" ELSE IF phase[w] = "opening" THEN "no" ELSE "asks"
    <3>1. to \in {"cancels", "asks"} /\ leaving' = [leaving EXCEPT ![w] = to]
      BY <1>1, <2>3
    <3> HIDE DEF to
    <3> QED  BY <2>1, <2>3, <3>1 DEF Leavings
  <2>4. CASE leaving[w] = "no" /\ w # "main" /\ phase[w] = "opening"
    <3>1. leaving' = [leaving EXCEPT ![w] = "no"]
      BY <1>1, <2>4
    <3> QED  BY <2>1, <2>4, <3>1 DEF Leavings
  <2> QED  BY <2>2, <2>3, <2>4
<1>3. WindowTypes'
  BY <1>1, <1>2 DEF WindowInv, WindowTypes
<1>4. LeavingInv'
  BY <1>0, <1>1, <1>2 DEF WindowInv, LeavingInv, WindowTypes
<1>5. MoveInv'
  BY <1>1 DEF WindowInv, MoveInv
<1>6. CopyInv'
  BY <1>1 DEF WindowInv, CopyInv, Has
<1>7. \A v \in Windows : \A d \in unsaved' : Holds(v, d) => Holds(v, d)'
  BY <1>1, <1>2 DEF Holds, Handed
<1>8. HolderInv'
  BY <1>1, <1>7, HoldersStay DEF WindowInv
<1>9. AdoptInv'
  BY <1>0, <1>1, <1>2, WindowFacts DEF WindowInv, AdoptInv, WindowTypes
<1> QED  BY <1>3, <1>4, <1>5, <1>6, <1>8, <1>9 DEF WindowInv

\* What is cancelled was waiting for its window, and has failed.
LEMMA CancelledMeans ==
  ASSUME WindowInv, NEW cs \in SUBSET handoff, creation' = Cancelled(cs)
  PROVE  /\ creation' \in Creations
         /\ \A x \in cs : x \in Children /\ creation[x] = "waits" /\ creation'[x] = "failed" /\ phase[x] \in {"opening", "adopted", "failing"}
         /\ \A x \in Children \ cs : creation'[x] = creation[x]
         /\ Handed' /\ doc'["main"].lock = doc["main"].lock => Handed
<1>1. creation \in Creations /\ handoff \subseteq Children
  BY DEF WindowInv, WindowTypes
<1>2. /\ creation' \in Creations /\ \A x \in cs : creation'[x] = "failed"
      /\ \A x \in Children \ cs : creation'[x] = creation[x]
  BY <1>1 DEF Cancelled, Creations, Moves
<1>3. \A x \in cs : x \in Children /\ creation[x] = "waits" /\ phase[x] \in {"opening", "adopted", "failing"}
  BY <1>1 DEF WindowInv, MoveInv
<1>4. ASSUME NEW x \in Children, doc["main"].lock = x, creation'[x] = "ready" PROVE creation[x] = "ready"
  BY <1>2, <1>4
<1>5. Handed' /\ doc'["main"].lock = doc["main"].lock => Handed
  BY <1>4 DEF Handed
<1> QED  BY <1>2, <1>3, <1>5

\* A window closes that is not attached, or that is being left: it holds nothing.
LEMMA DestroyedKeeps ==
  ASSUME WindowInv, NEW w \in Windows, Destroyed(w), win[w] \in {"built", "closing"}, app = "running",
         NEW cs \in SUBSET handoff, creation' = Cancelled(cs), handoff' = handoff \ cs, w \in handoff => w \in cs,
         w = "main" => cs = handoff,
         UNCHANGED <<asked, doc, phase, leaving, restarting, inputs, restarts, unsaved>>
  PROVE  WindowInv'
<1>0. WindowTypes
  BY DEF WindowInv
<1>1. /\ creation' \in Creations
      /\ \A x \in cs : x \in Children /\ creation[x] = "waits" /\ creation'[x] = "failed" /\ phase[x] \in {"opening", "adopted", "failing"}
      /\ \A x \in Children \ cs : creation'[x] = creation[x]
      /\ Handed' => Handed
  BY CancelledMeans
<1>2. /\ win' \in Wins /\ win'[w] = "gone" /\ \A v \in Windows \ {w} : win'[v] = win[v]
      /\ target' \in Docs /\ target'[w] = NoDoc /\ \A v \in Windows \ {w} : target'[v] = target[v]
      /\ NoDoc.text = 0 /\ NoDoc.lock = "no"
  <2>1. NoDoc \in DocRecord /\ NoDoc.text = 0 /\ NoDoc.lock = "no"
    BY DEF NoDoc, DocRecord
  <2>2. win \in Wins /\ target \in Docs /\ win' = [win EXCEPT ![w] = "gone"] /\ target' = [target EXCEPT ![w] = NoDoc]
    BY <1>0 DEF Destroyed, WindowTypes
  <2> QED  BY <2>1, <2>2 DEF Wins, Docs
<1>3. WindowTypes'
  <2>1. \A v \in Windows : doc'[v].text <= inputs' /\ target'[v].text <= inputs' /\ target'[v].lock = "no"
    BY <1>0, <1>2, WindowFacts DEF WindowTypes
  <2>2. win'["main"] \in {"attached", "closing", "gone"} /\ handoff' \subseteq Children
    BY <1>0, <1>2, WindowFacts DEF WindowTypes
  <2> QED  BY <1>0, <1>1, <1>2, <2>1, <2>2 DEF WindowTypes
<1>4. LeavingInv'
  BY <1>2 DEF WindowInv, LeavingInv
<1>5. MoveInv'
  <2> SUFFICES ASSUME NEW x \in Children
               PROVE  /\ creation'[x] \in Moves \ {"none", "done"} <=> doc["main"].lock = x
                      /\ doc["main"].lock = x => doc["main"].text # 0
                      /\ x \in handoff' <=> creation'[x] = "waits"
                      /\ creation'[x] \in {"none", "sent"} => doc[x].text = 0 /\ target'[x].text = 0
                      /\ creation'[x] = "sent" => win'[x] = "none"
                      /\ creation'[x] = "waits" => win'[x] \in {"built", "attached"} /\ phase[x] \in {"opening", "adopted", "failing"}
                      /\ creation'[x] = "failed" => phase[x] # "ready"
                      /\ creation'[x] \in {"discards", "unlocks"} => win'[x] \notin {"built", "attached"}
    BY DEF MoveInv
  <2>1. CASE x \in cs
    BY <2>1, <1>1 DEF WindowInv, MoveInv, Moves
  <2>2. CASE x \notin cs /\ x # w
    BY <2>2, <1>0, <1>1, <1>2, WindowFacts DEF WindowInv, MoveInv, Moves
  <2>3. CASE x \notin cs /\ x = w
    <3>1. creation[x] # "waits" /\ win[w] # "none"
      BY <2>3 DEF WindowInv, MoveInv
    <3> QED  BY <2>3, <3>1, <1>0, <1>1, <1>2, WindowFacts DEF WindowInv, MoveInv, Moves
  <2> QED  BY <2>1, <2>2, <2>3
<1>6. \A x \in Children : Has(x)' => Has(x)
  BY <1>0, <1>2, WindowFacts DEF Has
<1>7. CopyInv'
  BY <1>6 DEF WindowInv, CopyInv
<1>8. \A v \in Windows : \A d \in unsaved' : Holds(v, d) => Holds(v, d)'
  BY <1>1, <1>2 DEF Holds
<1>9. unsaved # {} => app' = "running"
  BY <1>2 DEF WindowInv, HolderInv, Holds, Destroyed, Shown
<1>10. HolderInv'
  BY <1>8, <1>9, HoldersStay DEF WindowInv
<1>11. AdoptInv'
  BY <1>0, <1>1, <1>2, WindowFacts DEF WindowInv, AdoptInv, WindowTypes
<1> QED  BY <1>3, <1>4, <1>5, <1>7, <1>10, <1>11 DEF WindowInv

LEMMA UserClosesKeeps == ASSUME WindowInv, NEW w \in Windows, UserCloses(w), app = "running" PROVE WindowInv'
<1>0. WindowTypes
  BY DEF WindowInv
<1>1. CASE win[w] = "attached"
  <2>1. /\ UNCHANGED <<win, target, handoff, creation, doc, phase, leaving, restarting, app, inputs, unsaved>>
        /\ asked' \subseteq Windows
    BY <1>0, <1>1 DEF UserCloses, WindowTypes
  <2>2. WindowTypes'
    BY <1>0, <2>1 DEF WindowTypes
  <2>3. LeavingInv' /\ MoveInv'
    BY <2>1 DEF WindowInv, LeavingInv, MoveInv
  <2>4. CopyInv'
    BY <2>1 DEF WindowInv, CopyInv, Has
  <2>5. HolderInv' /\ AdoptInv'
    BY <2>1 DEF WindowInv, HolderInv, AdoptInv, Holds, Handed
  <2> QED  BY <2>2, <2>3, <2>4, <2>5 DEF WindowInv
<1>2. CASE win[w] # "attached"
  <2> DEFINE cs == IF w = "main" THEN handoff ELSE handoff \cap {w}
  <2>1. /\ Destroyed(w) /\ creation' = Cancelled(cs) /\ win[w] \in {"built", "closing"}
        /\ UNCHANGED <<asked, doc, phase, leaving, restarting, inputs, restarts, unsaved>>
    BY <1>2 DEF UserCloses, Shown
  <2>2. handoff' = handoff \ cs
    BY <1>2 DEF UserCloses
  <2>3. cs \in SUBSET handoff /\ (w \in handoff => w \in cs) /\ (w = "main" => cs = handoff)
    BY <1>0, WindowFacts DEF WindowTypes
  <2> HIDE DEF cs
  <2> QED  BY <2>1, <2>2, <2>3, DestroyedKeeps
<1> QED  BY <1>1, <1>2

\* The new window is offered what the first window has locked.
LEMMA BuiltKeeps ==
  ASSUME WindowInv, NEW c \in Children, creation[c] = "sent",
         win' = [win EXCEPT ![c] = "built"], target' = [target EXCEPT ![c] = [doc["main"] EXCEPT !.lock = "no"]],
         handoff' = handoff \cup {c}, creation' = [creation EXCEPT ![c] = "waits"], phase' = [phase EXCEPT ![c] = "opening"],
         UNCHANGED <<doc, asked, leaving, restarting, app, inputs, restarts, unsaved>>
  PROVE  WindowInv'
<1> DEFINE r == [doc["main"] EXCEPT !.lock = "no"]
<1>0. WindowTypes
  BY DEF WindowInv
<1>1. r \in DocRecord /\ r.text = doc["main"].text /\ r.lock = "no"
  BY <1>0, WindowFacts DEF DocRecord
<1>a. target' = [target EXCEPT ![c] = r]
  OBVIOUS
<1> HIDE DEF r
<1>2. /\ doc["main"].lock = c /\ doc["main"].text # 0 /\ win[c] = "none" /\ doc[c].text = 0 /\ c \notin handoff
      /\ c # "main" /\ c \in Windows /\ leaving[c] = "no"
  BY <1>0, WindowFacts DEF WindowInv, MoveInv, Moves, LeavingInv
<1>3. /\ win' \in Wins /\ win'[c] = "built" /\ \A v \in Windows \ {c} : win'[v] = win[v]
      /\ target' \in Docs /\ target'[c] = r /\ \A v \in Windows \ {c} : target'[v] = target[v]
  BY <1>0, <1>1, <1>2, <1>a DEF WindowTypes, Wins, Docs
<1>4. /\ creation' \in Creations /\ creation'[c] = "waits" /\ \A x \in Children \ {c} : creation'[x] = creation[x]
      /\ phase' \in Phases /\ phase'[c] = "opening" /\ \A v \in Windows \ {c} : phase'[v] = phase[v]
  BY <1>0, <1>2 DEF WindowTypes, Creations, Moves, Phases
<1>5. WindowTypes'
  <2>1. \A v \in Windows : doc'[v].text <= inputs' /\ target'[v].text <= inputs' /\ target'[v].lock = "no"
    BY <1>0, <1>1, <1>3, WindowFacts DEF WindowTypes
  <2>2. win'["main"] \in {"attached", "closing", "gone"} /\ phase'["main"] = "ready" /\ handoff' \subseteq Children
    BY <1>0, <1>2, <1>3, <1>4, WindowFacts DEF WindowTypes
  <2> QED  BY <1>0, <1>3, <1>4, <2>1, <2>2 DEF WindowTypes
<1>6. LeavingInv'
  BY <1>2, <1>3, <1>4 DEF WindowInv, LeavingInv
<1>7. MoveInv'
  <2> SUFFICES ASSUME NEW x \in Children
               PROVE  /\ creation'[x] \in Moves \ {"none", "done"} <=> doc["main"].lock = x
                      /\ doc["main"].lock = x => doc["main"].text # 0
                      /\ x \in handoff' <=> creation'[x] = "waits"
                      /\ creation'[x] \in {"none", "sent"} => doc[x].text = 0 /\ target'[x].text = 0
                      /\ creation'[x] = "sent" => win'[x] = "none"
                      /\ creation'[x] = "waits" => win'[x] \in {"built", "attached"} /\ phase'[x] \in {"opening", "adopted", "failing"}
                      /\ creation'[x] = "failed" => phase'[x] # "ready"
                      /\ creation'[x] \in {"discards", "unlocks"} => win'[x] \notin {"built", "attached"}
    BY DEF MoveInv
  <2>1. CASE x = c
    BY <2>1, <1>2, <1>3, <1>4 DEF Moves
  <2>2. CASE x # c
    BY <2>2, <1>0, <1>2, <1>3, <1>4, WindowFacts DEF WindowInv, MoveInv, Moves
  <2> QED  BY <2>1, <2>2
<1>8. \A x \in Children : Has(x) => x = c
  BY <1>2 DEF WindowInv, CopyInv
<1>9. \A x \in Children : Has(x)' => x = c
  BY <1>0, <1>3, <1>8, WindowFacts DEF Has
<1>10. CopyInv'
  BY <1>2, <1>9 DEF CopyInv
<1>11. \A v \in Windows : \A d \in unsaved' : Holds(v, d) => Holds(v, d)'
  <2> SUFFICES ASSUME NEW v \in Windows, NEW d \in unsaved', Holds(v, d) PROVE Holds(v, d)'
    OBVIOUS
  <2>1. v # c
    BY <1>2 DEF Holds
  <2>2. Handed' => Handed
    BY <1>2, <1>4 DEF Handed
  <2> QED  BY <2>1, <2>2, <1>3, <1>4 DEF Holds
<1>12. HolderInv'
  BY <1>11, HoldersStay DEF WindowInv
<1>13. AdoptInv'
  BY <1>0, <1>1, <1>2, <1>3, <1>4, WindowFacts DEF WindowInv, AdoptInv, WindowTypes
<1> QED  BY <1>5, <1>6, <1>7, <1>10, <1>12, <1>13 DEF WindowInv

\* No window could be built for the document.
LEMMA NotBuiltKeeps ==
  ASSUME WindowInv, NEW c \in Children, creation[c] = "sent", creation' = [creation EXCEPT ![c] = "unlocks"],
         UNCHANGED <<win, target, handoff, doc, phase, asked, leaving, restarting, app, inputs, restarts, unsaved>>
  PROVE  WindowInv'
<1>0. WindowTypes
  BY DEF WindowInv
<1>1. creation' \in Creations /\ creation'[c] = "unlocks" /\ \A x \in Children \ {c} : creation'[x] = creation[x]
  BY <1>0 DEF WindowTypes, Creations, Moves
<1>2. WindowTypes'
  BY <1>0, <1>1 DEF WindowTypes
<1>3. LeavingInv'
  BY DEF WindowInv, LeavingInv
<1>4. MoveInv'
  BY <1>1 DEF WindowInv, MoveInv, Moves
<1>5. CopyInv'
  BY DEF WindowInv, CopyInv, Has
<1>6. \A v \in Windows : \A d \in unsaved' : Holds(v, d) => Holds(v, d)'
  BY <1>1 DEF Holds, Handed
<1>7. HolderInv'
  BY <1>6, HoldersStay DEF WindowInv
<1>8. AdoptInv'
  BY DEF WindowInv, AdoptInv
<1> QED  BY <1>2, <1>3, <1>4, <1>5, <1>7, <1>8 DEF WindowInv

LEMMA NewWindowKeeps == ASSUME WindowInv, NEW c \in Children, NewWindow(c) PROVE WindowInv'
BY BuiltKeeps, NotBuiltKeeps DEF NewWindow

LEMMA EmptyWindowKeeps == ASSUME WindowInv, NEW c \in Children, EmptyWindow(c) PROVE WindowInv'
<1>0. WindowTypes
  BY DEF WindowInv
<1>1. /\ win' = [win EXCEPT ![c] = "built"] /\ win[c] = "none" /\ creation[c] = "none"
      /\ UNCHANGED <<target, handoff, creation, doc, phase, asked, leaving, restarting, app, inputs, restarts, unsaved>>
  BY DEF EmptyWindow
<1>2. c # "main" /\ c \in Windows /\ target[c].text = 0 /\ c \notin handoff
  BY <1>0, <1>1, WindowFacts DEF WindowInv, MoveInv
<1>3. win' \in Wins /\ win'[c] = "built" /\ \A v \in Windows \ {c} : win'[v] = win[v]
  BY <1>0, <1>1, <1>2 DEF WindowTypes, Wins
<1>4. WindowTypes'
  BY <1>0, <1>1, <1>2, <1>3, WindowFacts DEF WindowTypes
<1>5. LeavingInv'
  BY <1>1, <1>2, <1>3 DEF WindowInv, LeavingInv
<1>6. MoveInv'
  BY <1>0, <1>1, <1>2, <1>3, WindowFacts DEF WindowInv, MoveInv
<1>7. \A x \in Children : Has(x)' => Has(x)
  BY <1>0, <1>1, <1>2, <1>3, WindowFacts DEF Has
<1>8. CopyInv'
  BY <1>1, <1>7 DEF WindowInv, CopyInv
<1>9. \A v \in Windows : \A d \in unsaved' : Holds(v, d) => Holds(v, d)'
  BY <1>1, <1>3 DEF Holds, Handed
<1>10. HolderInv'
  BY <1>1, <1>9, HoldersStay DEF WindowInv
<1>11. AdoptInv'
  BY <1>0, <1>1, <1>2, <1>3, WindowFacts DEF WindowInv, AdoptInv, WindowTypes
<1> QED  BY <1>4, <1>5, <1>6, <1>8, <1>10, <1>11 DEF WindowInv

LEMMA AttachKeeps == ASSUME WindowInv, NEW w \in Windows, Attach(w) PROVE WindowInv'
<1>0. WindowTypes
  BY DEF WindowInv
<1>1. /\ win' = [win EXCEPT ![w] = "attached"] /\ win[w] = "built" /\ doc' = [doc EXCEPT ![w] = target[w]]
      /\ UNCHANGED <<target, handoff, creation, phase, asked, leaving, restarting, app, inputs, restarts, unsaved>>
  BY DEF Attach
<1>2. w # "main" /\ w \in Children /\ leaving[w] = "no" /\ target[w] \in DocRecord
  BY <1>0, <1>1, WindowFacts DEF WindowInv, LeavingInv, WindowTypes
<1>3. /\ win' \in Wins /\ win'[w] = "attached" /\ \A v \in Windows \ {w} : win'[v] = win[v]
      /\ doc' \in Docs /\ doc'[w] = target[w] /\ \A v \in Windows \ {w} : doc'[v] = doc[v]
      /\ doc'["main"] = doc["main"]
  BY <1>0, <1>1, <1>2, WindowFacts DEF WindowTypes, Wins, Docs
<1>4. WindowTypes'
  <2>1. \A v \in Windows : /\ doc'[v].text <= inputs' /\ target'[v].text <= inputs' /\ target'[v].lock = "no"
                           /\ v # "main" => doc'[v].lock = "no"
    BY <1>0, <1>1, <1>3, WindowFacts DEF WindowTypes
  <2>2. win'["main"] \in {"attached", "closing", "gone"}
    BY <1>0, <1>2, <1>3, WindowFacts DEF WindowTypes
  <2> QED  BY <1>0, <1>1, <1>3, <2>1, <2>2 DEF WindowTypes
<1>5. LeavingInv'
  BY <1>1, <1>2, <1>3 DEF WindowInv, LeavingInv
<1>6. MoveInv'
  BY <1>0, <1>1, <1>2, <1>3, WindowFacts DEF WindowInv, MoveInv
<1>7. \A x \in Children : Has(x)' => Has(x)
  BY <1>0, <1>1, <1>2, <1>3, WindowFacts DEF Has
<1>8. CopyInv'
  BY <1>3, <1>7 DEF WindowInv, CopyInv
<1>9. Handed' => Handed
  BY <1>1, <1>3 DEF Handed
<1>10. \A v \in Windows : \A d \in unsaved' : Holds(v, d) => Holds(v, d)'
  BY <1>1, <1>3, <1>9 DEF Holds
<1>11. HolderInv'
  BY <1>1, <1>10, HoldersStay DEF WindowInv
<1>12. AdoptInv'
  BY <1>0, <1>1, <1>2, <1>3, WindowFacts DEF WindowInv, AdoptInv, WindowTypes
<1> QED  BY <1>4, <1>5, <1>6, <1>8, <1>11, <1>12 DEF WindowInv

LEMMA AdoptKeeps == ASSUME WindowInv, NEW c \in Children, Adopt(c) PROVE WindowInv'
<1>0. WindowTypes
  BY DEF WindowInv
<1>1. /\ UNCHANGED <<win, target, handoff, creation, asked, leaving, restarting, app, inputs, restarts, unsaved>>
      /\ phase[c] = "opening" /\ win[c] \in {"attached", "closing"} /\ c # "main" /\ c \in Windows /\ leaving[c] = "no"
      /\ NoDoc \in DocRecord /\ NoDoc.text = 0 /\ NoDoc.lock = "no"
  BY <1>0, WindowFacts DEF Adopt, Listed, WindowInv, LeavingInv, NoDoc, DocRecord
<1>2. /\ phase' \in Phases /\ phase'[c] \in {"adopted", "failing"} /\ \A v \in Windows \ {c} : phase'[v] = phase[v]
      /\ doc' \in Docs /\ \A v \in Windows \ {c} : doc'[v] = doc[v]
      /\ doc'[c] = doc[c] \/ doc'[c] = NoDoc
      /\ phase'[c] = "adopted" => doc' = doc
      /\ doc'["main"] = doc["main"]
  BY <1>0, <1>1, WindowFacts DEF Adopt, WindowTypes, Phases, Docs
<1>3. WindowTypes'
  <2>1. \A v \in Windows : /\ doc'[v].text <= inputs' /\ target'[v].text <= inputs' /\ target'[v].lock = "no"
                           /\ v # "main" => doc'[v].lock = "no"
    BY <1>0, <1>1, <1>2, WindowFacts DEF WindowTypes
  <2>2. phase'["main"] = "ready"
    BY <1>0, <1>1, <1>2, WindowFacts DEF WindowTypes
  <2> QED  BY <1>0, <1>1, <1>2, <2>1, <2>2 DEF WindowTypes
<1>4. LeavingInv'
  BY <1>1, <1>2 DEF WindowInv, LeavingInv
<1>5. MoveInv'
  BY <1>0, <1>1, <1>2, WindowFacts DEF WindowInv, MoveInv
<1>6. \A x \in Children : Has(x)' => Has(x)
  BY <1>0, <1>1, <1>2, WindowFacts DEF Has
<1>7. CopyInv'
  BY <1>2, <1>6 DEF WindowInv, CopyInv
<1>8. Handed' => Handed
  BY <1>1, <1>2 DEF Handed
<1>9. \A v \in Windows : \A d \in unsaved' : Holds(v, d) => Holds(v, d)'
  BY <1>1, <1>2, <1>8 DEF Holds
<1>10. HolderInv'
  BY <1>1, <1>9, HoldersStay DEF WindowInv
<1>11. AdoptInv'
  BY <1>0, <1>1, <1>2, WindowFacts DEF WindowInv, AdoptInv, WindowTypes
<1> QED  BY <1>3, <1>4, <1>5, <1>7, <1>10, <1>11 DEF WindowInv

\* The new window has adopted the document, and says so in time.
LEMMA ReadyKeeps ==
  ASSUME WindowInv, NEW c \in handoff, win[c] \in {"attached", "closing"}, phase[c] = "adopted",
         phase' = [phase EXCEPT ![c] = "ready"], creation' = [creation EXCEPT ![c] = "ready"],
         target' = [target EXCEPT ![c] = NoDoc], handoff' = handoff \ {c},
         UNCHANGED <<win, doc, asked, leaving, restarting, app, inputs, restarts, unsaved>>
  PROVE  WindowInv'
<1>0. WindowTypes
  BY DEF WindowInv
<1>1. /\ c \in Children /\ c # "main" /\ c \in Windows /\ creation[c] = "waits" /\ win[c] = "attached"
      /\ doc["main"].lock = c /\ NoDoc \in DocRecord /\ NoDoc.text = 0 /\ NoDoc.lock = "no"
  BY <1>0, WindowFacts DEF WindowInv, MoveInv, WindowTypes, Moves, NoDoc, DocRecord
<1>2. /\ creation' \in Creations /\ creation'[c] = "ready" /\ \A x \in Children \ {c} : creation'[x] = creation[x]
      /\ phase' \in Phases /\ phase'[c] = "ready" /\ \A v \in Windows \ {c} : phase'[v] = phase[v]
      /\ target' \in Docs /\ target'[c] = NoDoc /\ \A v \in Windows \ {c} : target'[v] = target[v]
  BY <1>0, <1>1 DEF WindowTypes, Creations, Moves, Phases, Docs
<1>3. WindowTypes'
  <2>1. \A v \in Windows : doc'[v].text <= inputs' /\ target'[v].text <= inputs' /\ target'[v].lock = "no"
    BY <1>0, <1>1, <1>2, WindowFacts DEF WindowTypes
  <2>2. phase'["main"] = "ready" /\ handoff' \subseteq Children
    BY <1>0, <1>1, <1>2, WindowFacts DEF WindowTypes
  <2> QED  BY <1>0, <1>1, <1>2, <2>1, <2>2 DEF WindowTypes
<1>4. LeavingInv'
  BY <1>1, <1>2 DEF WindowInv, LeavingInv
<1>5. MoveInv'
  <2> SUFFICES ASSUME NEW x \in Children
               PROVE  /\ creation'[x] \in Moves \ {"none", "done"} <=> doc["main"].lock = x
                      /\ doc["main"].lock = x => doc["main"].text # 0
                      /\ x \in handoff' <=> creation'[x] = "waits"
                      /\ creation'[x] \in {"none", "sent"} => doc[x].text = 0 /\ target'[x].text = 0
                      /\ creation'[x] = "sent" => win[x] = "none"
                      /\ creation'[x] = "waits" => win[x] \in {"built", "attached"} /\ phase'[x] \in {"opening", "adopted", "failing"}
                      /\ creation'[x] = "failed" => phase'[x] # "ready"
                      /\ creation'[x] \in {"discards", "unlocks"} => win[x] \notin {"built", "attached"}
    BY DEF MoveInv
  <2>1. CASE x = c
    BY <2>1, <1>1, <1>2 DEF Moves, WindowInv, MoveInv
  <2>2. CASE x # c
    BY <2>2, <1>0, <1>1, <1>2, WindowFacts DEF WindowInv, MoveInv, Moves
  <2> QED  BY <2>1, <2>2
<1>6. \A x \in Children : Has(x)' => Has(x)
  BY <1>0, <1>1, <1>2, WindowFacts DEF Has
<1>7. CopyInv'
  BY <1>6 DEF WindowInv, CopyInv
<1>8. HolderInv'
  <2> SUFFICES ASSUME NEW d \in unsaved PROVE app = "running" /\ \E v \in Windows : Holds(v, d)'
    BY DEF HolderInv
  <2>1. PICK v \in Windows : Holds(v, d)
    BY DEF WindowInv, HolderInv
  <2>2. CASE v = "main"
    <3>1. doc["main"].text = d
      BY <2>1, <2>2 DEF Holds
    <3>2. doc[c].text = d /\ leaving[c] # "decided"
      BY <1>1, <3>1 DEF WindowInv, AdoptInv
    <3>3. Holds(c, d)'
      BY <1>1, <1>2, <3>2 DEF Holds, WindowInv, LeavingInv
    <3> QED  BY <1>1, <3>3 DEF WindowInv, HolderInv
  <2>3. CASE v # "main"
    <3>1. Holds(v, d)'
      BY <1>2, <2>1, <2>3 DEF Holds
    <3> QED  BY <3>1 DEF WindowInv, HolderInv
  <2> QED  BY <2>2, <2>3
<1>9. AdoptInv'
  BY <1>0, <1>1, <1>2, WindowFacts DEF WindowInv, AdoptInv, WindowTypes
<1> QED  BY <1>3, <1>4, <1>5, <1>7, <1>8, <1>9 DEF WindowInv

\* The new window has not adopted the document, or is too late: it is nobody's.
LEMMA OrphanKeeps ==
  ASSUME WindowInv, NEW c \in Children, win[c] \in {"attached", "closing"}, phase[c] \in {"adopted", "failing"},
         phase' = [phase EXCEPT ![c] = "orphan"], creation' = Cancelled(handoff \cap {c}), handoff' = handoff \ {c},
         UNCHANGED <<target, win, doc, asked, leaving, restarting, app, inputs, restarts, unsaved>>
  PROVE  WindowInv'
<1> DEFINE cs == handoff \cap {c}
<1>0. WindowTypes
  BY DEF WindowInv
<1>a. cs \in SUBSET handoff /\ creation' = Cancelled(cs) /\ handoff' = handoff \ cs /\ \A x \in cs : x = c
  OBVIOUS
<1>b. c \in handoff => c \in cs
  OBVIOUS
<1> HIDE DEF cs
<1>1. /\ creation' \in Creations
      /\ \A x \in cs : x \in Children /\ creation[x] = "waits" /\ creation'[x] = "failed"
      /\ \A x \in Children \ cs : creation'[x] = creation[x]
      /\ Handed' => Handed
  BY <1>a, CancelledMeans
<1>2. /\ c # "main" /\ c \in Windows
      /\ phase' \in Phases /\ phase'[c] = "orphan" /\ \A v \in Windows \ {c} : phase'[v] = phase[v]
  BY <1>0, WindowFacts DEF WindowTypes, Phases
<1>3. WindowTypes'
  <2>1. phase'["main"] = "ready" /\ handoff' \subseteq Children
    BY <1>0, <1>2, WindowFacts DEF WindowTypes
  <2> QED  BY <1>0, <1>1, <1>2, <2>1 DEF WindowTypes
<1>4. LeavingInv'
  BY <1>2 DEF WindowInv, LeavingInv
<1>5. MoveInv'
  <2> SUFFICES ASSUME NEW x \in Children
               PROVE  /\ creation'[x] \in Moves \ {"none", "done"} <=> doc["main"].lock = x
                      /\ doc["main"].lock = x => doc["main"].text # 0
                      /\ x \in handoff' <=> creation'[x] = "waits"
                      /\ creation'[x] \in {"none", "sent"} => doc[x].text = 0 /\ target[x].text = 0
                      /\ creation'[x] = "sent" => win[x] = "none"
                      /\ creation'[x] = "waits" => win[x] \in {"built", "attached"} /\ phase'[x] \in {"opening", "adopted", "failing"}
                      /\ creation'[x] = "failed" => phase'[x] # "ready"
                      /\ creation'[x] \in {"discards", "unlocks"} => win[x] \notin {"built", "attached"}
    BY DEF MoveInv
  <2>1. CASE x \in cs
    BY <2>1, <1>1, <1>2, <1>a DEF WindowInv, MoveInv, Moves
  <2>2. CASE x \notin cs /\ x # c
    <3>1. (x \in handoff' <=> x \in handoff) /\ creation'[x] = creation[x] /\ phase'[x] = phase[x]
      BY <2>2, <1>0, <1>1, <1>2, <1>a, WindowFacts
    <3> QED  BY <3>1 DEF WindowInv, MoveInv
  <2>3. CASE x \notin cs /\ x = c
    <3>1. (x \in handoff' <=> x \in handoff) /\ creation'[x] = creation[x] /\ phase'[x] = "orphan"
      BY <2>3, <1>0, <1>1, <1>2, <1>a, WindowFacts
    <3>2. x \notin handoff
      BY <2>3, <1>b
    <3> QED  BY <3>1, <3>2 DEF WindowInv, MoveInv
  <2> QED  BY <2>1, <2>2, <2>3
<1>6. CopyInv'
  BY DEF WindowInv, CopyInv, Has
<1>7. \A v \in Windows : \A d \in unsaved' : Holds(v, d) => Holds(v, d)'
  BY <1>1, <1>2 DEF Holds
<1>8. HolderInv'
  BY <1>7, HoldersStay DEF WindowInv
<1>9. AdoptInv'
  BY <1>0, <1>2, <1>a, WindowFacts DEF WindowInv, AdoptInv, WindowTypes
<1> QED  BY <1>3, <1>4, <1>5, <1>6, <1>8, <1>9 DEF WindowInv

LEMMA EditorReadyKeeps == ASSUME WindowInv, NEW c \in Children, EditorReady(c) PROVE WindowInv'
BY ReadyKeeps, OrphanKeeps DEF EditorReady, Listed

\* The call of the first window is over, and its tab is closed or no longer locked.
LEMMA MoveIsOver ==
  ASSUME WindowInv, NEW c \in Children, creation[c] \in {"ready", "unlocks"}, creation' = [creation EXCEPT ![c] = "done"],
         NEW r \in DocRecord, doc' = [doc EXCEPT !["main"] = r], r.lock = "no",
         \/ r.text = 0 /\ creation[c] = "ready"
         \/ r.text = doc["main"].text /\ creation[c] = "unlocks",
         UNCHANGED <<win, target, handoff, phase, asked, leaving, restarting, app, inputs, restarts, unsaved>>
  PROVE  WindowInv'
<1>0. WindowTypes
  BY DEF WindowInv
<1>1. doc["main"].lock = c /\ doc["main"].text # 0 /\ c # "no" /\ c # "main" /\ "main" \in Windows /\ c \notin handoff
  BY <1>0, WindowFacts DEF WindowInv, MoveInv, Moves
<1>2. /\ creation' \in Creations /\ creation'[c] = "done" /\ \A x \in Children \ {c} : creation'[x] = creation[x]
      /\ doc' \in Docs /\ doc'["main"] = r /\ \A v \in Windows \ {"main"} : doc'[v] = doc[v]
      /\ \A x \in Children : doc'[x] = doc[x]
  BY <1>0, <1>1, WindowFacts DEF WindowTypes, Creations, Moves, Docs
<1>3. WindowTypes'
  <2>1. \A v \in Windows : /\ doc'[v].text <= inputs' /\ target'[v].text <= inputs' /\ target'[v].lock = "no"
                           /\ v # "main" => doc'[v].lock = "no"
    BY <1>0, <1>1, <1>2, WindowFacts DEF WindowTypes
  <2> QED  BY <1>0, <1>1, <1>2, <2>1 DEF WindowTypes
<1>4. LeavingInv'
  BY DEF WindowInv, LeavingInv
<1>5. handoff = {}
  BY <1>0, <1>1 DEF WindowInv, MoveInv, WindowTypes, Moves
<1>6. MoveInv'
  BY <1>0, <1>1, <1>2, WindowFacts DEF WindowInv, MoveInv, Moves
<1>7. \A x \in Children : Has(x)' <=> Has(x)
  BY <1>2 DEF Has
<1>8. CopyInv'
  <2>1. ASSUME NEW x \in Children, Has(x) PROVE r.text = 0
    <3>1. x = c
      BY <1>1, <2>1 DEF WindowInv, CopyInv
    <3> QED  BY <2>1, <3>1 DEF WindowInv, MoveInv, Has
  <2> QED  BY <1>2, <1>7, <2>1 DEF WindowInv, CopyInv
<1>9. \A v \in Windows : \A d \in unsaved' : Holds(v, d) => Holds(v, d)'
  <2> SUFFICES ASSUME NEW v \in Windows, NEW d \in unsaved, Holds(v, d) PROVE Holds(v, d)'
    OBVIOUS
  <2>1. CASE v # "main"
    BY <1>2, <2>1 DEF Holds
  <2>2. CASE v = "main"
    <3>1. ~Handed /\ creation[c] = "unlocks"
      BY <1>1, <2>2 DEF Holds, Handed
    <3>2. doc'["main"].text = doc["main"].text /\ ~Handed'
      BY <1>0, <1>2, <3>1, WindowFacts DEF Handed
    <3> QED  BY <2>2, <3>2 DEF Holds
  <2> QED  BY <2>1, <2>2
<1>10. HolderInv'
  BY <1>9, HoldersStay DEF WindowInv
<1>11. AdoptInv'
  BY <1>5 DEF AdoptInv
<1> QED  BY <1>3, <1>4, <1>6, <1>8, <1>10, <1>11 DEF WindowInv

LEMMA MovedKeeps == ASSUME WindowInv, NEW c \in Children, Moved(c) \/ Unlocks(c) PROVE WindowInv'
<1>0. WindowTypes
  BY DEF WindowInv
<1>1. doc["main"].lock = c
  BY DEF WindowInv, MoveInv, Moved, Unlocks, Moves
<1>2. CASE Moved(c)
  <2>1. NoDoc \in DocRecord /\ NoDoc.text = 0 /\ NoDoc.lock = "no"
    BY DEF NoDoc, DocRecord
  <2>2. /\ creation[c] = "ready" /\ creation' = [creation EXCEPT ![c] = "done"] /\ doc' = [doc EXCEPT !["main"] = NoDoc]
        /\ UNCHANGED <<win, target, handoff, phase, asked, leaving, restarting, app, inputs, restarts, unsaved>>
    BY <1>1, <1>2 DEF Moved
  <2> QED  BY <2>1, <2>2, MoveIsOver
<1>3. CASE Unlocks(c)
  <2> DEFINE r == [doc["main"] EXCEPT !.lock = "no"]
  <2>1. r \in DocRecord /\ r.text = doc["main"].text /\ r.lock = "no"
    BY <1>0, WindowFacts DEF DocRecord
  <2>2. /\ creation[c] = "unlocks" /\ creation' = [creation EXCEPT ![c] = "done"] /\ doc' = [doc EXCEPT !["main"] = r]
        /\ UNCHANGED <<win, target, handoff, phase, asked, leaving, restarting, app, inputs, restarts, unsaved>>
    BY <1>1, <1>3 DEF Unlocks
  <2> HIDE DEF r
  <2> QED  BY <2>1, <2>2, MoveIsOver
<1> QED  BY <1>2, <1>3

\* A window whose move has failed is closed, or closes; it holds nothing.
LEMMA DiscardKeeps ==
  ASSUME WindowInv, NEW c \in Children, creation[c] \in {"failed", "discards"}, app = "running",
         NEW cw \in {"closing", "gone", "none"}, win' = [win EXCEPT ![c] = cw],
         NEW cc \in {"discards", "unlocks"}, creation' = [creation EXCEPT ![c] = cc],
         target' \in {target, [target EXCEPT ![c] = NoDoc]},
         app' = app \/ (app' = "exited" /\ \A v \in Windows \ {c} : ~Shown(v)),
         UNCHANGED <<handoff, doc, phase, asked, leaving, restarting, inputs, restarts, unsaved>>,
         cw = "none" => win[c] = "none"
  PROVE  WindowInv'
<1>0. WindowTypes
  BY DEF WindowInv
<1>1. /\ c # "main" /\ c \in Windows /\ c \notin handoff /\ doc["main"].lock = c
      /\ NoDoc \in DocRecord /\ NoDoc.text = 0 /\ NoDoc.lock = "no"
  BY <1>0, WindowFacts DEF WindowInv, MoveInv, Moves, NoDoc, DocRecord
<1>2. /\ win' \in Wins /\ win'[c] = cw /\ \A v \in Windows \ {c} : win'[v] = win[v]
      /\ creation' \in Creations /\ creation'[c] = cc /\ \A x \in Children \ {c} : creation'[x] = creation[x]
      /\ target' \in Docs /\ target'[c] \in {target[c], NoDoc} /\ \A v \in Windows \ {c} : target'[v] = target[v]
  BY <1>0, <1>1 DEF WindowTypes, Wins, Creations, Moves, Docs
<1>3. WindowTypes'
  <2>1. \A v \in Windows : doc'[v].text <= inputs' /\ target'[v].text <= inputs' /\ target'[v].lock = "no"
    BY <1>0, <1>1, <1>2, WindowFacts DEF WindowTypes
  <2>2. win'["main"] \in {"attached", "closing", "gone"}
    BY <1>0, <1>1, <1>2, WindowFacts DEF WindowTypes
  <2> QED  BY <1>0, <1>2, <2>1, <2>2 DEF WindowTypes
<1>4. LeavingInv'
  BY <1>2 DEF WindowInv, LeavingInv
<1>5. MoveInv'
  <2> SUFFICES ASSUME NEW x \in Children
               PROVE  /\ creation'[x] \in Moves \ {"none", "done"} <=> doc["main"].lock = x
                      /\ doc["main"].lock = x => doc["main"].text # 0
                      /\ x \in handoff <=> creation'[x] = "waits"
                      /\ creation'[x] \in {"none", "sent"} => doc[x].text = 0 /\ target'[x].text = 0
                      /\ creation'[x] = "sent" => win'[x] = "none"
                      /\ creation'[x] = "waits" => win'[x] \in {"built", "attached"} /\ phase[x] \in {"opening", "adopted", "failing"}
                      /\ creation'[x] = "failed" => phase[x] # "ready"
                      /\ creation'[x] \in {"discards", "unlocks"} => win'[x] \notin {"built", "attached"}
    BY DEF MoveInv
  <2>1. CASE x = c
    BY <2>1, <1>1, <1>2 DEF WindowInv, MoveInv, Moves
  <2>2. CASE x # c
    <3>1. creation'[x] = creation[x] /\ win'[x] = win[x] /\ target'[x] = target[x]
      BY <2>2, <1>0, <1>2, WindowFacts
    <3> QED  BY <3>1 DEF WindowInv, MoveInv
  <2> QED  BY <2>1, <2>2
<1>6. \A x \in Children : Has(x)' => Has(x)
  BY <1>0, <1>2, WindowFacts DEF Has
<1>7. CopyInv'
  BY <1>6 DEF WindowInv, CopyInv
<1>8. ~Handed'
  BY <1>1, <1>2 DEF Handed
<1>9. \A d \in unsaved : ~Holds(c, d)
  BY <1>1 DEF Holds, WindowInv, MoveInv
<1>10. \A v \in Windows : \A d \in unsaved' : Holds(v, d) => Holds(v, d)'
  BY <1>2, <1>8, <1>9 DEF Holds
<1>11. unsaved # {} => app' = "running"
  BY <1>9 DEF WindowInv, HolderInv, Holds, Shown
<1>12. HolderInv'
  BY <1>10, <1>11, HoldersStay DEF WindowInv
<1>13. AdoptInv'
  BY <1>0, <1>1, <1>2, WindowFacts DEF WindowInv, AdoptInv, WindowTypes
<1> QED  BY <1>3, <1>4, <1>5, <1>7, <1>12, <1>13 DEF WindowInv

LEMMA DiscardsKeeps == ASSUME WindowInv, NEW c \in Children, Discards(c), app = "running" PROVE WindowInv'
<1>1. win \in Wins /\ c \in Windows
  BY WindowFacts DEF WindowInv, WindowTypes
<1>2. win[c] \in {"none", "built", "attached", "closing", "gone"}
  BY <1>1 DEF Wins
<1> DEFINE cw == IF win[c] = "attached" THEN "closing" ELSE IF win[c] = "built" THEN "gone" ELSE win[c]
           cc == IF win[c] = "attached" THEN "discards" ELSE "unlocks"
<1>3. /\ cw \in {"closing", "gone", "none"} /\ cc \in {"discards", "unlocks"} /\ (cw = "none" => win[c] = "none")
      /\ win' = [win EXCEPT ![c] = cw] /\ creation' = [creation EXCEPT ![c] = cc] /\ creation[c] = "failed"
      /\ target' = [target EXCEPT ![c] = NoDoc]
      /\ UNCHANGED <<handoff, doc, phase, asked, leaving, restarting, app, inputs, restarts, unsaved>>
  BY <1>2 DEF Discards
<1> HIDE DEF cw, cc
<1> QED  BY <1>3, DiscardKeeps

LEMMA DiscardedKeeps == ASSUME WindowInv, NEW c \in Children, Discarded(c), app = "running" PROVE WindowInv'
<1>1. /\ win' = [win EXCEPT ![c] = "gone"] /\ creation' = [creation EXCEPT ![c] = "unlocks"] /\ creation[c] = "discards"
      /\ target' = target /\ (app' = app \/ (app' = "exited" /\ \A v \in Windows \ {c} : ~Shown(v)))
      /\ UNCHANGED <<handoff, doc, phase, asked, leaving, restarting, inputs, restarts, unsaved>>
  BY DEF Discarded
<1> QED  BY <1>1, DiscardKeeps

\* What is moving is cancelled, and window w is left or closed, which held nothing any more.
LEMMA CancelKeeps ==
  ASSUME WindowInv, NEW w \in Windows, win[w] \in {"attached", "closing"}, leaving[w] \in {"cancels", "decided"},
         NEW to \in {"asks", "closes"}, leaving' = [leaving EXCEPT ![w] = to],
         NEW cs \in SUBSET handoff, creation' = Cancelled(cs), handoff' = handoff \ cs, w \in handoff => w \in cs,
         \/ to = "asks" /\ UNCHANGED <<win, target>>
         \/ to = "closes" /\ leaving[w] = "decided"
            /\ win' = [win EXCEPT ![w] = "closing"] /\ target' = [target EXCEPT ![w] = NoDoc],
         UNCHANGED <<doc, phase, asked, restarting, app, inputs, restarts, unsaved>>
  PROVE  WindowInv'
<1>0. WindowTypes
  BY DEF WindowInv
<1>1. /\ creation' \in Creations
      /\ \A x \in cs : x \in Children /\ creation[x] = "waits" /\ creation'[x] = "failed" /\ phase[x] \in {"opening", "adopted", "failing"}
      /\ \A x \in Children \ cs : creation'[x] = creation[x]
      /\ Handed' => Handed
  BY CancelledMeans
<1>2. /\ leaving' \in Leavings /\ leaving'[w] = to /\ \A v \in Windows \ {w} : leaving'[v] = leaving[v]
      /\ phase[w] # "opening"
  BY <1>0 DEF WindowTypes, Leavings, WindowInv, LeavingInv
<1>3. /\ win' \in Wins /\ target' \in Docs /\ \A v \in Windows \ {w} : win'[v] = win[v] /\ target'[v] = target[v]
      /\ win'[w] \in {win[w], "closing"} /\ target'[w] \in {target[w], NoDoc}
      /\ to = "closes" => win'[w] = "closing" /\ leaving[w] = "decided"
      /\ NoDoc.text = 0 /\ NoDoc.lock = "no"
  <2>1. NoDoc \in DocRecord /\ NoDoc.text = 0 /\ NoDoc.lock = "no"
    BY DEF NoDoc, DocRecord
  <2>2. CASE to = "asks" /\ UNCHANGED <<win, target>>
    BY <2>1, <2>2, <1>0 DEF WindowTypes
  <2>3. CASE /\ to = "closes" /\ leaving[w] = "decided"
             /\ win' = [win EXCEPT ![w] = "closing"] /\ target' = [target EXCEPT ![w] = NoDoc]
    BY <2>1, <2>3, <1>0 DEF WindowTypes, Wins, Docs
  <2> QED  BY <2>2, <2>3
<1>4. WindowTypes'
  <2>1. \A v \in Windows : doc'[v].text <= inputs' /\ target'[v].text <= inputs' /\ target'[v].lock = "no"
    BY <1>0, <1>3, WindowFacts DEF WindowTypes
  <2>2. win'["main"] \in {"attached", "closing", "gone"} /\ handoff' \subseteq Children
    BY <1>0, <1>3, WindowFacts DEF WindowTypes
  <2> QED  BY <1>0, <1>1, <1>2, <1>3, <2>1, <2>2 DEF WindowTypes
<1>5. LeavingInv'
  BY <1>2, <1>3 DEF WindowInv, LeavingInv
<1>6. MoveInv'
  <2> SUFFICES ASSUME NEW x \in Children
               PROVE  /\ creation'[x] \in Moves \ {"none", "done"} <=> doc["main"].lock = x
                      /\ doc["main"].lock = x => doc["main"].text # 0
                      /\ x \in handoff' <=> creation'[x] = "waits"
                      /\ creation'[x] \in {"none", "sent"} => doc[x].text = 0 /\ target'[x].text = 0
                      /\ creation'[x] = "sent" => win'[x] = "none"
                      /\ creation'[x] = "waits" => win'[x] \in {"built", "attached"} /\ phase[x] \in {"opening", "adopted", "failing"}
                      /\ creation'[x] = "failed" => phase[x] # "ready"
                      /\ creation'[x] \in {"discards", "unlocks"} => win'[x] \notin {"built", "attached"}
    BY DEF MoveInv
  <2>1. CASE x \in cs
    BY <2>1, <1>1 DEF WindowInv, MoveInv, Moves
  <2>2. CASE x \notin cs /\ x # w
    <3>1. (x \in handoff' <=> x \in handoff) /\ creation'[x] = creation[x] /\ win'[x] = win[x] /\ target'[x] = target[x]
      BY <2>2, <1>0, <1>1, <1>3, WindowFacts
    <3> QED  BY <3>1 DEF WindowInv, MoveInv
  <2>3. CASE x \notin cs /\ x = w
    <3>1. creation[x] \notin {"waits", "sent"} /\ x \notin handoff'
      BY <2>3 DEF WindowInv, MoveInv
    <3>2. creation'[x] = creation[x] /\ win'[x] \in {win[x], "closing"} /\ target'[x] \in {target[x], NoDoc}
      BY <2>3, <1>1, <1>3
    <3> QED  BY <3>1, <3>2, <1>3, <2>3 DEF WindowInv, MoveInv, Moves
  <2> QED  BY <2>1, <2>2, <2>3
<1>7. \A x \in Children : Has(x)' => Has(x)
  BY <1>0, <1>3, WindowFacts DEF Has
<1>8. CopyInv'
  BY <1>7 DEF WindowInv, CopyInv
<1>9. \A v \in Windows : \A d \in unsaved' : Holds(v, d) => Holds(v, d)'
  <2> SUFFICES ASSUME NEW v \in Windows, NEW d \in unsaved, Holds(v, d) PROVE Holds(v, d)'
    OBVIOUS
  <2>1. CASE v # w
    BY <1>1, <1>2, <1>3, <2>1 DEF Holds
  <2>2. CASE v = w
    <3>1. leaving[w] # "decided" /\ to = "asks"
      BY <1>3, <2>2 DEF Holds
    <3> QED  BY <1>1, <1>2, <1>3, <2>2, <3>1 DEF Holds
  <2> QED  BY <2>1, <2>2
<1>10. HolderInv'
  BY <1>9, HoldersStay DEF WindowInv
<1>11. AdoptInv'
  BY <1>0, <1>2, <1>3, WindowFacts DEF WindowInv, AdoptInv, WindowTypes
<1> QED  BY <1>4, <1>5, <1>6, <1>8, <1>10, <1>11 DEF WindowInv

LEMMA CancelsMoveKeeps == ASSUME WindowInv, CancelsMove PROVE WindowInv'
<1> DEFINE cs == handoff \cap {doc["main"].lock}
<1>1. /\ win["main"] \in {"attached", "closing"} /\ leaving["main"] = "cancels" /\ leaving' = [leaving EXCEPT !["main"] = "asks"]
      /\ creation' = Cancelled(cs) /\ handoff' = handoff \ cs
      /\ UNCHANGED <<win, target, doc, phase, asked, restarting, app, inputs, restarts, unsaved>>
  BY DEF CancelsMove, Listed
<1>2. "main" \in Windows /\ "main" \notin handoff /\ cs \in SUBSET handoff
  BY WindowFacts DEF WindowInv, WindowTypes
<1> HIDE DEF cs
<1> QED  BY <1>1, <1>2, CancelKeeps

\* A window stays.
LEMMA KeptKeeps ==
  ASSUME WindowInv, NEW w \in Windows, Kept(w), leaving[w] \in {"asks", "decided"},
         UNCHANGED <<win, target, handoff, creation, phase, asked, app, inputs, restarts>>
  PROVE  WindowInv'
<1>0. WindowTypes
  BY DEF WindowInv
<1>1. UNCHANGED <<doc, unsaved>> /\ restarting' = FALSE /\ leaving' = [leaving EXCEPT ![w] = "no"]
  BY DEF Kept
<1>2. leaving' \in Leavings /\ leaving'[w] = "no" /\ \A v \in Windows \ {w} : leaving'[v] = leaving[v]
  BY <1>0, <1>1 DEF WindowTypes, Leavings
<1>3. WindowTypes'
  BY <1>0, <1>1, <1>2 DEF WindowTypes
<1>4. LeavingInv'
  BY <1>2 DEF WindowInv, LeavingInv
<1>5. MoveInv'
  BY <1>1 DEF WindowInv, MoveInv
<1>6. CopyInv'
  BY <1>1 DEF WindowInv, CopyInv, Has
<1>7. \A v \in Windows : \A d \in unsaved' : Holds(v, d) => Holds(v, d)'
  BY <1>1, <1>2 DEF Holds, Handed
<1>8. HolderInv'
  BY <1>1, <1>7, HoldersStay DEF WindowInv
<1>9. AdoptInv'
  BY <1>0, <1>1, <1>2, WindowFacts DEF WindowInv, AdoptInv, WindowTypes
<1> QED  BY <1>3, <1>4, <1>5, <1>6, <1>8, <1>9 DEF WindowInv

\* A window is left: what it shows is saved or given up.
LEMMA DecidedKeeps ==
  ASSUME WindowInv, NEW w \in Windows, win[w] \in {"attached", "closing"}, leaving[w] = "asks", doc[w].lock = "no",
         leaving' = [leaving EXCEPT ![w] = "decided"], unsaved' = unsaved \ {doc[w].text},
         NEW r \in DocRecord, doc' = [doc EXCEPT ![w] = r], r.lock = "no", r.text \in {0, doc[w].text},
         w = "main" => r.text = doc[w].text, w # "main" => r.text = 0,
         UNCHANGED <<win, target, handoff, creation, phase, asked, restarting, app, inputs, restarts>>
  PROVE  WindowInv'
<1>0. WindowTypes
  BY DEF WindowInv
<1>1. /\ leaving' \in Leavings /\ leaving'[w] = "decided" /\ \A v \in Windows \ {w} : leaving'[v] = leaving[v]
      /\ phase[w] # "opening"
  BY <1>0 DEF WindowTypes, Leavings, WindowInv, LeavingInv
<1>2. /\ doc' \in Docs /\ doc'[w] = r /\ \A v \in Windows \ {w} : doc'[v] = doc[v]
      /\ doc'["main"].text = doc["main"].text
      /\ \A v \in Windows : doc'[v].lock = doc[v].lock /\ doc'[v].text \in {0, doc[v].text}
  BY <1>0, WindowFacts DEF WindowTypes, Docs
<1>3. WindowTypes'
  <2>1. \A v \in Windows : /\ doc'[v].text <= inputs' /\ target'[v].text <= inputs' /\ target'[v].lock = "no"
                           /\ v # "main" => doc'[v].lock = "no"
    BY <1>0, <1>2, WindowFacts DEF WindowTypes
  <2> QED  BY <1>0, <1>1, <1>2, <2>1 DEF WindowTypes
<1>4. LeavingInv'
  BY <1>0, <1>1, WindowFacts DEF WindowInv, LeavingInv
<1>5. MoveInv'
  <2>1. \A x \in Children : doc[x].text = 0 => doc'[x].text = 0
    BY <1>0, <1>2, WindowFacts
  <2> QED  BY <1>0, <1>2, <2>1, WindowFacts DEF WindowInv, MoveInv
<1>6. \A x \in Children : Has(x)' => Has(x)
  BY <1>0, <1>2, WindowFacts DEF Has
<1>7. CopyInv'
  BY <1>0, <1>2, <1>6, WindowFacts DEF WindowInv, CopyInv
<1>8. Handed' <=> Handed
  BY <1>0, <1>2, WindowFacts DEF Handed
<1>9. \A v \in Windows : \A d \in unsaved' : Holds(v, d) => Holds(v, d)'
  BY <1>1, <1>2, <1>8 DEF Holds
<1>10. HolderInv'
  BY <1>9, HoldersStay DEF WindowInv
<1>11. AdoptInv'
  <2> SUFFICES ASSUME NEW c \in handoff
               PROVE  /\ win[c] = "built" => phase[c] = "opening" /\ target[c].text = doc'["main"].text
                      /\ win[c] = "attached" /\ phase[c] = "opening" => doc'[c].text = doc'["main"].text
                      /\ win[c] = "attached" /\ phase[c] = "adopted" /\ doc'["main"].text \in unsaved' =>
                           doc'[c].text = doc'["main"].text /\ leaving'[c] # "decided"
    BY DEF AdoptInv
  <2>1. c \in Windows
    BY <1>0, WindowFacts DEF WindowTypes
  <2>2. CASE c = w
    BY <1>1, <1>2, <2>2 DEF WindowInv, AdoptInv
  <2>3. CASE c # w
    <3>1. doc'[c] = doc[c] /\ leaving'[c] = leaving[c]
      BY <1>1, <1>2, <2>1, <2>3
    <3> QED  BY <1>2, <3>1 DEF WindowInv, AdoptInv
  <2> QED  BY <2>2, <2>3
<1> QED  BY <1>3, <1>4, <1>5, <1>7, <1>10, <1>11 DEF WindowInv

LEMMA CloseAnsweredKeeps == ASSUME WindowInv, NEW w \in Windows, CloseAnswered(w) PROVE WindowInv'
<1>0. WindowTypes
  BY DEF WindowInv
<1>1. /\ win[w] \in {"attached", "closing"} /\ leaving[w] = "asks" /\ doc[w].lock = "no"
      /\ UNCHANGED <<win, target, handoff, creation, phase, asked, app, inputs, restarts>>
  BY DEF CloseAnswered, Listed
<1>2. CASE doc[w].dirty /\ Kept(w)
  BY <1>1, <1>2, KeptKeeps
<1>3. CASE /\ leaving' = [leaving EXCEPT ![w] = "decided"]
           /\ unsaved' = unsaved \ {doc[w].text}
           /\ doc' = [doc EXCEPT ![w] = IF w = "main" THEN [@ EXCEPT !.dirty = FALSE] ELSE NoDoc]
           /\ UNCHANGED restarting
  <2>1. NoDoc \in DocRecord /\ NoDoc.text = 0 /\ NoDoc.lock = "no"
    BY DEF NoDoc, DocRecord
  <2> DEFINE s == [doc[w] EXCEPT !.dirty = FALSE]
  <2>2. s \in DocRecord /\ s.text = doc[w].text /\ s.lock = "no"
    BY <1>0, <1>1, WindowFacts DEF DocRecord
  <2>3. w = "main" => doc' = [doc EXCEPT ![w] = s]
    BY <1>3
  <2>4. w # "main" => doc' = [doc EXCEPT ![w] = NoDoc]
    BY <1>3
  <2> HIDE DEF s
  <2>5. CASE w = "main"
    BY <1>1, <1>3, <2>2, <2>3, <2>5, DecidedKeeps
  <2>6. CASE w # "main"
    BY <1>1, <1>3, <2>1, <2>4, <2>6, DecidedKeeps
  <2> QED  BY <2>5, <2>6
<1> QED  BY <1>2, <1>3 DEF CloseAnswered

LEMMA CloseWindowKeeps == ASSUME WindowInv, NEW w \in Windows, CloseWindow(w) PROVE WindowInv'
<1> DEFINE cs == IF w = "main" THEN handoff ELSE handoff \cap {w}
<1>1. win[w] \in {"attached", "closing"} /\ leaving[w] = "decided" /\ UNCHANGED <<phase, asked, app, inputs, restarts>>
  BY DEF CloseWindow, Listed
<1>2. CASE Kept(w) /\ UNCHANGED <<win, target, handoff, creation>>
  BY <1>1, <1>2, KeptKeeps
<1>3. CASE /\ leaving' = [leaving EXCEPT ![w] = "closes"] /\ creation' = Cancelled(cs) /\ handoff' = handoff \ cs
           /\ target' = [target EXCEPT ![w] = NoDoc] /\ win' = [win EXCEPT ![w] = "closing"]
           /\ UNCHANGED <<doc, restarting, unsaved>>
  <2>1. cs \in SUBSET handoff /\ (w \in handoff => w \in cs)
    BY WindowFacts DEF WindowInv, WindowTypes
  <2> HIDE DEF cs
  <2> QED  BY <1>1, <1>3, <2>1, CancelKeeps
<1> QED  BY <1>2, <1>3 DEF CloseWindow

\* A window that has closed goes, and the application with the last one.
LEMMA WindowClosesKeeps == ASSUME WindowInv, NEW w \in Windows, WindowCloses(w), app = "running" PROVE WindowInv'
<1>0. WindowTypes
  BY DEF WindowInv
<1>1. /\ win[w] = "closing" /\ win' = [win EXCEPT ![w] = "gone"] /\ restarting' \in BOOLEAN
      /\ (app' = app \/ \A v \in Windows \ {w} : ~Listed(v))
      /\ UNCHANGED <<target, handoff, creation, doc, phase, asked, leaving, inputs, restarts, unsaved>>
  BY <1>0 DEF WindowCloses, WindowTypes
<1>2. win' \in Wins /\ win'[w] = "gone" /\ \A v \in Windows \ {w} : win'[v] = win[v]
  BY <1>0, <1>1 DEF WindowTypes, Wins
<1>3. WindowTypes'
  <2>1. win'["main"] \in {"attached", "closing", "gone"}
    BY <1>0, <1>2, WindowFacts DEF WindowTypes
  <2> QED  BY <1>0, <1>1, <1>2, <2>1 DEF WindowTypes
<1>4. LeavingInv'
  BY <1>1, <1>2 DEF WindowInv, LeavingInv
<1>5. MoveInv'
  BY <1>0, <1>1, <1>2, WindowFacts DEF WindowInv, MoveInv
<1>6. \A x \in Children : Has(x)' => Has(x)
  BY <1>0, <1>1, <1>2, WindowFacts DEF Has
<1>7. CopyInv'
  BY <1>1, <1>6 DEF WindowInv, CopyInv
<1>8. \A v \in Windows : \A d \in unsaved' : Holds(v, d) => Holds(v, d)'
  BY <1>1, <1>2 DEF Holds, Handed
<1>9. unsaved # {} => app' = "running"
  BY <1>1 DEF WindowInv, HolderInv, Holds, Listed
<1>10. HolderInv'
  BY <1>1, <1>8, <1>9, HoldersStay DEF WindowInv
<1>11. AdoptInv'
  BY <1>0, <1>1, <1>2, WindowFacts DEF WindowInv, AdoptInv, WindowTypes
<1> QED  BY <1>3, <1>4, <1>5, <1>7, <1>10, <1>11 DEF WindowInv

LEMMA WindowsStep == WindowInv /\ [WindowsNext]_windowVars => WindowInv'
<1> SUFFICES ASSUME WindowInv, [WindowsNext]_windowVars PROVE WindowInv'
  OBVIOUS
<1>1. CASE UNCHANGED windowVars
  <2>1. WindowTypes' /\ LeavingInv' /\ MoveInv'
    BY <1>1 DEF WindowInv, WindowTypes, LeavingInv, MoveInv, windowVars
  <2>2. CopyInv' /\ AdoptInv'
    BY <1>1 DEF WindowInv, CopyInv, Has, AdoptInv, windowVars
  <2>3. HolderInv'
    BY <1>1 DEF WindowInv, HolderInv, Holds, Handed, windowVars
  <2> QED  BY <2>1, <2>2, <2>3 DEF WindowInv
<1>2. CASE WindowsNext
  <2>1. app = "running"
    BY <1>2 DEF WindowsNext
  <2>2. ASSUME NEW w \in Windows, \/ TypeIn(w) \/ UserCloses(w) \/ Attach(w)
                                  \/ CloseAsked(w) \/ CloseAnswered(w) \/ CloseWindow(w) \/ WindowCloses(w)
        PROVE WindowInv'
    BY <2>1, <2>2, TypeInKeeps, UserClosesKeeps, AttachKeeps, CloseAskedKeeps, CloseAnsweredKeeps, CloseWindowKeeps, WindowClosesKeeps
  <2>3. ASSUME NEW c \in Children, \/ MoveToWindow(c) \/ NewWindow(c) \/ EmptyWindow(c) \/ Adopt(c) \/ EditorReady(c)
                                   \/ Moved(c) \/ Discards(c) \/ Discarded(c) \/ Unlocks(c)
        PROVE WindowInv'
    BY <2>1, <2>3, MoveToWindowKeeps, NewWindowKeeps, EmptyWindowKeeps, AdoptKeeps, EditorReadyKeeps, MovedKeeps, DiscardsKeeps, DiscardedKeeps
  <2>4. CASE CancelsMove \/ RestartApp
    BY <2>4, CancelsMoveKeeps, RestartAppKeeps
  <2> QED  BY <1>2, <2>2, <2>3, <2>4 DEF WindowsNext
<1> QED  BY <1>1, <1>2

\* What is unsaved is held, and no two windows can edit the document.
LEMMA HeldIsSafe == WindowInv => DocumentIsSafe
<1> SUFFICES ASSUME WindowInv PROVE DocumentIsSafe
  OBVIOUS
<1>0. WindowTypes
  BY DEF WindowInv
<1>1. DocumentKept
  BY DEF WindowInv, HolderInv, Holds, DocumentKept, Shown
<1> DEFINE Editable(w) == win[w] = "attached" /\ phase[w] # "opening" /\ doc[w].text # 0 /\ doc[w].lock = "no"
           E == {w \in Windows : Editable(w)}
<1>2. ASSUME NEW v \in Windows, NEW w \in Windows, Editable(v), Editable(w) PROVE v = w
  BY <1>0, <1>2, WindowFacts DEF WindowInv, CopyInv, Has
<1>3. Cardinality(E) <= 1
  <2>1. CASE E = {}
    BY <2>1, FS_EmptySet
  <2>2. CASE E # {}
    <3>1. PICK v \in E : TRUE
      BY <2>2
    <3>2. E = {v}
      BY <1>2, <3>1
    <3>3. Cardinality({v}) = 1
      BY FS_Singleton
    <3> HIDE DEF E
    <3> QED  BY <3>2, <3>3
  <2> QED  BY <2>1, <2>2
<1>4. OneEditor
  BY <1>3 DEF OneEditor
<1> QED  BY <1>1, <1>4 DEF DocumentIsSafe

\* "Your original tab is kept" (commands/editor_windows.rs cancelled), for every set of windows: what the
\* user typed and did not give up is in a window that stays, and one window at a time can edit the
\* document that moves, whatever windows and the application do meanwhile.
THEOREM DocumentIsAlwaysSafe == WindowsSpec => []DocumentIsSafe
<1>1. WindowsSpec => []WindowInv
  BY WindowsInitially, WindowsStep, PTL DEF WindowsSpec
<1> QED  BY <1>1, HeldIsSafe, PTL
-----------------------------------------------------------------------------
(* FileEditing: what was typed and what is replaced.                       *)
TabRecord == [status : {"none", "loading", "failed", "ready"}, text : Nat, original : Nat, revision : Nat,
              saving : BOOLEAN, conflict : Nat, token : Nat, moved : {"no", "a", "b"}]
ReadRecord == [kind : {"load", "refresh"}, key : Paths, got : Nat, at : {"asked", "read", "done"}]
SaveRecord == [key : Paths, resolve : BOOLEAN, after : Nat,
               at : {"queued", "begin", "staged", "checked", "replaced", "refused", "compared", "done", "failed"},
               text : Nat, expected : Nat, checked : Nat]
TabTable == [Paths -> TabRecord]
DiskTable == [Paths -> Nat]
CommitTable == [Paths -> Nat]
ReadList == Seq(ReadRecord)
SaveList == Seq(SaveRecord)
Requests == Seq(Paths)

Known(n, sn) == n \in sn \cup {0}

EditingTypes ==
  /\ disk \in DiskTable /\ tabs \in TabTable /\ reads \in ReadList /\ saves \in SaveList /\ commits \in CommitTable
  /\ moving \in {"no", "a", "b"} /\ upload \in {"no", "a", "b"} /\ told \in Requests
  /\ texts \in Nat /\ drafts \subseteq Nat \ {0} /\ stored \subseteq Nat /\ seen \subseteq Nat
  /\ \A p \in Paths : Known(disk[p], stored)

\* A tab shows text only when it is ready, what it shows and compares with was shown to the user (sn), and
\* what it takes for the text of the file was in the file (st).
GoodTab(tab, sn, st) ==
  /\ tab.status # "ready" => tab.text = 0
  /\ tab.token # 0 => tab.status = "loading"
  /\ Known(tab.text, sn) /\ Known(tab.revision, sn) /\ Known(tab.conflict, sn)
  /\ Known(tab.original, st) /\ Known(tab.conflict, st)

GoodTabs(ts, sn, st) == ts \in TabTable /\ \A p \in Paths : GoodTab(ts[p], sn, st)

\* A save writes and replaces what the user has been shown.
GoodSave(save, sn, st) ==
  /\ Known(save.text, sn) /\ Known(save.expected, sn) /\ Known(save.checked, st)
  /\ save.at = "checked" => save.checked = save.expected
  /\ save.at = "replaced" => Known(save.text, st)

EditingInv ==
  /\ EditingTypes /\ GoodTabs(tabs, seen, stored)
  /\ \A s \in DOMAIN saves : GoodSave(saves[s], seen, stored)
  /\ \A r \in DOMAIN reads : Known(reads[r].got, stored)
  /\ EditsAreKept /\ OnlySeenIsReplaced

LEMMA ListAppend ==
  ASSUME NEW X, NEW s \in Seq(X), NEW e \in X
  PROVE  /\ Append(s, e) \in Seq(X) /\ Len(s) \in Nat /\ DOMAIN s = 1 .. Len(s)
         /\ DOMAIN Append(s, e) = 1 .. (Len(s) + 1)
         /\ Append(s, e)[Len(s) + 1] = e /\ \A n \in 1 .. Len(s) : Append(s, e)[n] = s[n]
BY AppendProperties, LenProperties

LEMMA ListExcept ==
  ASSUME NEW X, NEW s \in Seq(X), NEW n \in DOMAIN s, NEW e \in X
  PROVE  /\ [s EXCEPT ![n] = e] \in Seq(X) /\ DOMAIN [s EXCEPT ![n] = e] = DOMAIN s
         /\ [s EXCEPT ![n] = e][n] = e /\ \A m \in DOMAIN s \ {n} : [s EXCEPT ![n] = e][m] = s[m]
<1>1. s \in [1 .. Len(s) -> X] /\ Len(s) \in Nat
  BY LenProperties
<1>2. [s EXCEPT ![n] = e] \in [1 .. Len(s) -> X]
  BY <1>1
<1> QED  BY <1>1, <1>2, IsASeq

LEMMA ListElement == ASSUME NEW X, NEW s \in Seq(X), NEW n \in DOMAIN s PROVE s[n] \in X /\ n \in Nat \ {0}
BY LenProperties, ElementOfSeq

LEMMA OtherPath == ASSUME NEW p \in Paths PROVE Other(p) \in Paths /\ Other(p) # p
<1>1. \E q \in Paths : q # p
  BY DEF Paths
<1> QED  BY <1>1 DEF Other

LEMMA EditingInitially == EditingInit => EditingInv
<1> SUFFICES ASSUME EditingInit PROVE EditingInv
  OBVIOUS
<1>1. NoTab \in TabRecord /\ Ready(1) \in TabRecord
  BY DEF NoTab, Ready, TabRecord
<1>2. /\ NoTab.status = "none" /\ NoTab.text = 0 /\ NoTab.token = 0 /\ NoTab.original = 0 /\ NoTab.revision = 0 /\ NoTab.conflict = 0
      /\ Ready(1).status = "ready" /\ Ready(1).text = 1 /\ Ready(1).token = 0 /\ Ready(1).original = 1 /\ Ready(1).revision = 1
      /\ Ready(1).conflict = 0
  BY DEF NoTab, Ready
<1>3. tabs \in TabTable /\ \A p \in Paths : tabs[p] \in {NoTab, Ready(1)}
  BY <1>1 DEF EditingInit, TabTable
<1>4. GoodTabs(tabs, seen, stored)
  BY <1>2, <1>3 DEF GoodTabs, GoodTab, Known, EditingInit
<1>5. reads \in ReadList /\ saves \in SaveList /\ told \in Requests /\ DOMAIN saves = {} /\ DOMAIN reads = {}
  BY DEF EditingInit, ReadList, SaveList, Requests
<1>6. disk \in DiskTable /\ (\A p \in Paths : Known(disk[p], stored)) /\ commits \in CommitTable
  BY DEF EditingInit, DiskTable, CommitTable, Paths, Known
<1>7. EditingTypes
  BY <1>3, <1>5, <1>6 DEF EditingTypes, EditingInit
<1>8. EditsAreKept /\ OnlySeenIsReplaced
  BY DEF EditingInit, EditsAreKept, OnlySeenIsReplaced
<1> QED  BY <1>4, <1>5, <1>7, <1>8 DEF EditingInv

\* What was shown or stored stays so.
LEMMA GoodStays ==
  ASSUME NEW sn, NEW st, NEW sm \in SUBSET sn, NEW su \in SUBSET st
  PROVE  /\ \A tab : GoodTab(tab, sm, su) => GoodTab(tab, sn, st)
         /\ \A ts : GoodTabs(ts, sm, su) => GoodTabs(ts, sn, st)
         /\ \A save : GoodSave(save, sm, su) => GoodSave(save, sn, st)
<1>1. \A n : (Known(n, sm) => Known(n, sn)) /\ (Known(n, su) => Known(n, st))
  BY DEF Known
<1>2. ASSUME NEW tab, GoodTab(tab, sm, su) PROVE GoodTab(tab, sn, st)
  BY <1>1, <1>2 DEF GoodTab
<1>3. ASSUME NEW save, GoodSave(save, sm, su) PROVE GoodSave(save, sn, st)
  BY <1>1, <1>3 DEF GoodSave
<1>4. ASSUME NEW ts, GoodTabs(ts, sm, su) PROVE GoodTabs(ts, sn, st)
  BY <1>2, <1>4 DEF GoodTabs
<1> QED  BY <1>2, <1>3, <1>4

LEMMA EditingFacts ==
  ASSUME EditingInv
  PROVE  /\ \A p \in Paths : tabs[p] \in TabRecord /\ GoodTab(tabs[p], seen, stored) /\ disk[p] \in Nat /\ Known(disk[p], stored)
         /\ \A s \in DOMAIN saves : saves[s] \in SaveRecord /\ saves[s].key \in Paths /\ GoodSave(saves[s], seen, stored)
         /\ \A r \in DOMAIN reads : reads[r] \in ReadRecord /\ reads[r].key \in Paths /\ Known(reads[r].got, stored) /\ r # 0
         /\ texts \in Nat /\ drafts \subseteq Nat \ {0} /\ stored \subseteq Nat /\ seen \subseteq Nat
         /\ \A d \in drafts : d \in stored \/ \E p \in Paths : tabs[p].text = d
<1>1. EditingTypes /\ GoodTabs(tabs, seen, stored)
  BY DEF EditingInv
<1>2. \A s \in DOMAIN saves : saves[s] \in SaveRecord /\ saves[s].key \in Paths
  <2>1. saves \in Seq(SaveRecord)
    BY <1>1 DEF EditingTypes, SaveList
  <2>2. \A s \in DOMAIN saves : saves[s] \in SaveRecord
    BY <2>1, ListElement
  <2> QED  BY <2>2 DEF SaveRecord
<1>3. \A r \in DOMAIN reads : reads[r] \in ReadRecord /\ reads[r].key \in Paths /\ r # 0
  <2>1. reads \in Seq(ReadRecord)
    BY <1>1 DEF EditingTypes, ReadList
  <2>2. \A r \in DOMAIN reads : reads[r] \in ReadRecord /\ r # 0
    BY <2>1, ListElement
  <2> QED  BY <2>2 DEF ReadRecord
<1>4. \A p \in Paths : tabs[p] \in TabRecord /\ GoodTab(tabs[p], seen, stored) /\ disk[p] \in Nat /\ Known(disk[p], stored)
  BY <1>1 DEF EditingTypes, GoodTabs, TabTable, DiskTable
<1> QED  BY <1>1, <1>2, <1>3, <1>4 DEF EditingInv, EditingTypes, EditsAreKept

\* The steps: what each of them has to show.
LEMMA EditingStep ==
  ASSUME EditingInv, EditingTypes', GoodTabs(tabs', seen', stored'), seen \subseteq seen', stored \subseteq stored',
         \A s \in DOMAIN saves' : (s \in DOMAIN saves /\ saves'[s] = saves[s]) \/ GoodSave(saves'[s], seen', stored'),
         \A r \in DOMAIN reads' : (r \in DOMAIN reads /\ reads'[r].got = reads[r].got) \/ Known(reads'[r].got, stored'),
         \A d \in drafts' : \/ d \in drafts /\ (d \in stored' \/ ((\E p \in Paths : tabs[p].text = d) => \E p \in Paths : tabs'[p].text = d))
                            \/ \E p \in Paths : tabs'[p].text = d,
         OnlySeenIsReplaced'
  PROVE  EditingInv'
<1>1. /\ \A save : GoodSave(save, seen, stored) => GoodSave(save, seen', stored')
      /\ \A n : Known(n, stored) => Known(n, stored')
  BY GoodStays DEF Known
<1>2. \A s \in DOMAIN saves' : GoodSave(saves'[s], seen', stored')
  BY <1>1 DEF EditingInv
<1>3. \A r \in DOMAIN reads' : Known(reads'[r].got, stored')
  BY <1>1 DEF EditingInv
<1>4. EditsAreKept'
  BY DEF EditingInv, EditsAreKept
<1> QED  BY <1>2, <1>3, <1>4 DEF EditingInv

LEMMA EditingRests == ASSUME EditingInv, UNCHANGED editingVars PROVE EditingInv'
<1>1. UNCHANGED <<disk, tabs, reads, saves, commits, moving, told, upload, texts, drafts, stored, seen, overwritten>>
  BY DEF editingVars, others
<1>2. EditingTypes'
  BY <1>1 DEF EditingInv, EditingTypes
<1>3. GoodTabs(tabs', seen', stored') /\ OnlySeenIsReplaced'
  BY <1>1 DEF EditingInv, OnlySeenIsReplaced
<1> QED  BY <1>1, <1>2, <1>3, EditingStep

\* One tab changes, and keeps to the rules.
LEMMA GoodTabSet ==
  ASSUME NEW sn, NEW st, NEW ts, GoodTabs(ts, sn, st), NEW p \in Paths, NEW tab \in TabRecord, GoodTab(tab, sn, st)
  PROVE  /\ GoodTabs([ts EXCEPT ![p] = tab], sn, st) /\ [ts EXCEPT ![p] = tab] \in TabTable /\ [ts EXCEPT ![p] = tab][p] = tab
         /\ \A q \in Paths \ {p} : [ts EXCEPT ![p] = tab][q] = ts[q]
BY DEF GoodTabs, TabTable

LEMMA FreshTabs ==
  /\ NoTab \in TabRecord /\ NoTab.text = 0 /\ NoTab.moved = "no" /\ NoTab.status = "none" /\ ~NoTab.saving
  /\ \A n \in Nat : Loading(n) \in TabRecord /\ Ready(n) \in TabRecord /\ Ready(n).text = n /\ Loading(n).text = 0
  /\ \A sn, st : /\ GoodTab(NoTab, sn, st)
                 /\ \A n \in Nat : GoodTab(Loading(n), sn, st) /\ (Known(n, sn) /\ Known(n, st) => GoodTab(Ready(n), sn, st))
  /\ [NoTab EXCEPT !.status = "failed"] \in TabRecord /\ [NoTab EXCEPT !.status = "failed"].text = 0
  /\ \A sn, st : GoodTab([NoTab EXCEPT !.status = "failed"], sn, st)
<1> USE DEF NoTab, TabRecord, GoodTab, Known
<1>1. NoTab \in TabRecord /\ NoTab.text = 0 /\ NoTab.moved = "no" /\ NoTab.status = "none" /\ ~NoTab.saving
  OBVIOUS
<1>2. ASSUME NEW n \in Nat PROVE Loading(n) \in TabRecord /\ Loading(n).text = 0 /\ \A sn, st : GoodTab(Loading(n), sn, st)
  BY DEF Loading
<1>3. ASSUME NEW n \in Nat
      PROVE  Ready(n) \in TabRecord /\ Ready(n).text = n /\ \A sn, st : Known(n, sn) /\ Known(n, st) => GoodTab(Ready(n), sn, st)
  BY DEF Ready
<1>4. \A sn, st : GoodTab(NoTab, sn, st)
  OBVIOUS
<1>5. /\ [NoTab EXCEPT !.status = "failed"] \in TabRecord /\ [NoTab EXCEPT !.status = "failed"].text = 0
      /\ \A sn, st : GoodTab([NoTab EXCEPT !.status = "failed"], sn, st)
  OBVIOUS
<1> QED  BY SMTT(60), <1>1, <1>2, <1>3, <1>4, <1>5

\* A change of the tab with this key (Updated), when it shows text.
LEMMA UpdatedMeans ==
  ASSUME EditingInv, NEW key \in Paths, NEW into, NEW tab \in TabRecord, NEW sn, NEW st, seen \subseteq sn, stored \subseteq st,
         IsText(tabs[key]) => GoodTab(tab, sn, st) /\ tab.text = tabs[key].text,
         into = IF IsText(tabs[key]) THEN [tabs EXCEPT ![key] = tab] ELSE tabs
  PROVE  GoodTabs(into, sn, st) /\ into \in TabTable /\ \A p \in Paths : into[p].text = tabs[p].text
<1>1. GoodTabs(tabs, sn, st) /\ tabs \in TabTable
  BY GoodStays DEF EditingInv, GoodTabs
<1> QED  BY <1>1, GoodTabSet

LEMMA TypeKeeps == ASSUME EditingInv, NEW p \in Paths, NEW text \in 1 .. MaxTexts, Type(p, text) PROVE EditingInv'
<1> DEFINE tab == [tabs[p] EXCEPT !.text = text]
<1>1. /\ IsText(tabs[p]) /\ seen' = seen \cup {text} /\ texts' = (IF text > texts THEN text ELSE texts)
      /\ drafts' = (drafts \ {tabs[p].text}) \cup (IF text > texts THEN {text} ELSE {})
      /\ UNCHANGED <<disk, reads, saves, commits, moving, told, upload, stored, overwritten>>
      /\ tabs' = [tabs EXCEPT ![p] = tab]
  BY DEF Type, others
<1>2. text \in Nat /\ text # 0
  BY EditingAssumption
<1>3. tabs[p] \in TabRecord /\ GoodTab(tabs[p], seen, stored)
  BY EditingFacts
<1>4. tab \in TabRecord /\ tab.text = text /\ GoodTab(tab, seen', stored')
  BY <1>1, <1>2, <1>3 DEF TabRecord, GoodTab, IsText, Known
<1> HIDE DEF tab
<1>5. GoodTabs(tabs, seen', stored')
  BY <1>1, GoodStays DEF EditingInv
<1>6. GoodTabs(tabs', seen', stored') /\ tabs' \in TabTable /\ tabs'[p] = tab /\ \A q \in Paths \ {p} : tabs'[q] = tabs[q]
  <2>1. /\ GoodTabs([tabs EXCEPT ![p] = tab], seen', stored') /\ [tabs EXCEPT ![p] = tab] \in TabTable
        /\ [tabs EXCEPT ![p] = tab][p] = tab /\ \A q \in Paths \ {p} : [tabs EXCEPT ![p] = tab][q] = tabs[q]
    BY <1>4, <1>5, GoodTabSet
  <2> QED  BY <1>1, <2>1
<1>7. EditingTypes'
  <2>1. texts' \in Nat /\ drafts' \subseteq Nat \ {0} /\ seen' \subseteq Nat
    BY <1>1, <1>2, EditingFacts
  <2> QED  BY <1>1, <1>6, <2>1 DEF EditingInv, EditingTypes, Known
<1>8. \A d \in drafts' : \/ d \in drafts /\ (d \in stored' \/ ((\E q \in Paths : tabs[q].text = d) => \E q \in Paths : tabs'[q].text = d))
                         \/ \E q \in Paths : tabs'[q].text = d
  BY <1>1, <1>4, <1>6
<1>9. OnlySeenIsReplaced'
  BY <1>1 DEF EditingInv, OnlySeenIsReplaced
<1> QED  BY <1>1, <1>6, <1>7, <1>8, <1>9, EditingStep

\* What is read into a new tab has its token.
LEMMA LoadMeans ==
  ASSUME EditingInv, NEW ts, GoodTabs(ts, seen, stored), NEW p \in Paths, Load(ts, p), ts[p].text = 0
  PROVE  /\ GoodTabs(tabs', seen, stored) /\ tabs' \in TabTable /\ reads' \in ReadList
         /\ \A q \in Paths : tabs'[q].text = ts[q].text
         /\ \A r \in DOMAIN reads' : (r \in DOMAIN reads /\ reads'[r].got = reads[r].got) \/ Known(reads'[r].got, stored)
<1> DEFINE e == Read("load", p)
<1>1. e \in ReadRecord /\ e.got = 0
  BY DEF Read, ReadRecord
<1>2. reads \in Seq(ReadRecord) /\ reads' = Append(reads, e)
  BY DEF EditingInv, EditingTypes, ReadList, Load
<1> HIDE DEF e
<1>3. /\ reads' \in Seq(ReadRecord) /\ Len(reads) \in Nat /\ DOMAIN reads = 1 .. Len(reads) /\ DOMAIN reads' = 1 .. (Len(reads) + 1)
      /\ reads'[Len(reads) + 1] = e /\ \A n \in 1 .. Len(reads) : reads'[n] = reads[n]
  BY <1>1, <1>2, ListAppend
<1> DEFINE tab == Loading(Len(reads) + 1)
<1>4. tab \in TabRecord /\ tab.text = 0 /\ GoodTab(tab, seen, stored)
  <2>1. Len(reads) + 1 \in Nat
    BY <1>3
  <2> QED  BY <2>1, FreshTabs
<1>5. tabs' = [ts EXCEPT ![p] = tab]
  BY DEF Load
<1> HIDE DEF tab
<1>6. GoodTabs(tabs', seen, stored) /\ tabs' \in TabTable /\ \A q \in Paths : tabs'[q].text = ts[q].text
  <2>1. /\ GoodTabs([ts EXCEPT ![p] = tab], seen, stored) /\ [ts EXCEPT ![p] = tab] \in TabTable
        /\ [ts EXCEPT ![p] = tab][p] = tab /\ \A q \in Paths \ {p} : [ts EXCEPT ![p] = tab][q] = ts[q]
    BY <1>4, GoodTabSet
  <2> QED  BY <1>4, <1>5, <2>1
<1>7. \A r \in DOMAIN reads' : (r \in DOMAIN reads /\ reads'[r].got = reads[r].got) \/ Known(reads'[r].got, stored)
  BY <1>1, <1>3 DEF Known
<1> QED  BY <1>3, <1>6, <1>7 DEF ReadList

\* A step of the tabs and the reads that loses no text.
LEMMA TabsKeep ==
  ASSUME EditingInv, GoodTabs(tabs', seen, stored), tabs' \in TabTable, reads' \in ReadList, told' \in Requests,
         \A r \in DOMAIN reads' : (r \in DOMAIN reads /\ reads'[r].got = reads[r].got) \/ Known(reads'[r].got, stored),
         drafts' \subseteq drafts,
         \A d \in drafts' : d \in stored \/ ((\E p \in Paths : tabs[p].text = d) => \E p \in Paths : tabs'[p].text = d),
         UNCHANGED <<disk, saves, commits, moving, upload, texts, stored, seen, overwritten>>
  PROVE  EditingInv'
<1>1. EditingTypes'
  BY EditingFacts DEF EditingInv, EditingTypes
<1>2. OnlySeenIsReplaced'
  BY DEF EditingInv, OnlySeenIsReplaced
<1> QED  BY <1>1, <1>2, EditingStep

LEMMA OpenKeeps == ASSUME EditingInv, NEW p \in Paths, Open(p) PROVE EditingInv'
<1>1. /\ tabs[p].status = "none" /\ Load(tabs, p)
      /\ UNCHANGED <<disk, saves, commits, moving, told, upload, texts, drafts, stored, seen, overwritten>>
  BY DEF Open, others
<1>2. GoodTabs(tabs, seen, stored) /\ tabs[p].text = 0 /\ told \in Requests
  BY <1>1, EditingFacts DEF EditingInv, GoodTab, EditingTypes
<1>3. /\ GoodTabs(tabs', seen, stored) /\ tabs' \in TabTable /\ reads' \in ReadList
      /\ \A q \in Paths : tabs'[q].text = tabs[q].text
      /\ \A r \in DOMAIN reads' : (r \in DOMAIN reads /\ reads'[r].got = reads[r].got) \/ Known(reads'[r].got, stored)
  BY <1>1, <1>2, LoadMeans
<1> QED  BY <1>1, <1>2, <1>3, TabsKeep

\* A tab is closed or shows another text, and what it showed was given up or is in the file.
LEMMA TabGivesUp ==
  ASSUME EditingInv, NEW p \in Paths, NEW tab \in TabRecord, GoodTab(tab, seen, stored), tabs' = [tabs EXCEPT ![p] = tab],
         drafts' \subseteq drafts, tabs[p].text \in drafts' => Known(tabs[p].text, stored),
         UNCHANGED <<disk, reads, saves, commits, moving, told, upload, texts, stored, seen, overwritten>>
  PROVE  EditingInv'
<1>1. GoodTabs(tabs, seen, stored) /\ reads \in ReadList /\ told \in Requests
  BY DEF EditingInv, EditingTypes
<1>2. tabs \in TabTable /\ \A q \in Paths : GoodTab(tabs[q], seen, stored)
  BY <1>1 DEF GoodTabs
<1>3. GoodTabs(tabs', seen, stored) /\ tabs' \in TabTable /\ \A q \in Paths \ {p} : tabs'[q] = tabs[q]
  <2>1. tabs' \in TabTable /\ tabs'[p] = tab /\ \A q \in Paths \ {p} : tabs'[q] = tabs[q]
    BY <1>2 DEF TabTable
  <2> QED  BY <1>2, <2>1 DEF GoodTabs
<1>4. \A d \in drafts' : d \in stored \/ ((\E q \in Paths : tabs[q].text = d) => \E q \in Paths : tabs'[q].text = d)
  <2> SUFFICES ASSUME NEW d \in drafts', d \notin stored, NEW q \in Paths, tabs[q].text = d PROVE tabs'[q].text = d
    OBVIOUS
  <2>1. q # p
    BY EditingFacts DEF Known
  <2> QED  BY <1>3, <2>1
<1> QED  BY <1>1, <1>3, <1>4, TabsKeep

LEMMA CloseKeeps == ASSUME EditingInv, NEW p \in Paths, Close(p) PROVE EditingInv'
<1>1. /\ tabs' = [tabs EXCEPT ![p] = NoTab]
      /\ drafts' = (IF Dirty(tabs[p]) THEN drafts \ {tabs[p].text} ELSE drafts)
      /\ UNCHANGED <<disk, reads, saves, commits, moving, told, upload, texts, stored, seen, overwritten>>
  BY DEF Close, others
<1>2. GoodTab(tabs[p], seen, stored)
  BY EditingFacts
<1>3. ~Dirty(tabs[p]) => Known(tabs[p].text, stored)
  BY <1>2 DEF Dirty, IsText, GoodTab, Known
<1>4. drafts' \subseteq drafts /\ (tabs[p].text \in drafts' => Known(tabs[p].text, stored))
  BY <1>1, <1>3
<1>5. NoTab \in TabRecord /\ GoodTab(NoTab, seen, stored)
  BY FreshTabs
<1> QED  BY <1>1, <1>4, <1>5, TabGivesUp

LEMMA DiscardTabKeeps == ASSUME EditingInv, NEW p \in Paths, Discard(p) PROVE EditingInv'
<1> DEFINE base == Ready(tabs[p].conflict)
           tab == [base EXCEPT !.saving = tabs[p].saving, !.moved = tabs[p].moved]
<1>1. /\ tabs' = [tabs EXCEPT ![p] = tab] /\ drafts' = drafts \ {tabs[p].text}
      /\ UNCHANGED <<disk, reads, saves, commits, moving, told, upload, texts, stored, seen, overwritten>>
  BY DEF Discard, others
<1>2. /\ tabs[p] \in TabRecord /\ GoodTab(tabs[p], seen, stored) /\ tabs[p].conflict \in Nat /\ tabs[p].saving \in BOOLEAN
      /\ tabs[p].moved \in {"no", "a", "b"}
  BY EditingFacts DEF TabRecord
<1>3. base \in TabRecord /\ GoodTab(base, seen, stored)
  BY <1>2, FreshTabs DEF GoodTab
<1> HIDE DEF base
<1>4. tab \in TabRecord /\ GoodTab(tab, seen, stored)
  BY <1>2, <1>3 DEF TabRecord, GoodTab
<1> HIDE DEF tab
<1>5. drafts' \subseteq drafts /\ (tabs[p].text \in drafts' => Known(tabs[p].text, stored))
  BY <1>1
<1> QED  BY <1>1, <1>4, <1>5, TabGivesUp

-----------------------------------------------------------------------------
(* Saves. *)

\* A save is at its next step; what it writes was shown, and what it writes to a file was written there.
LEMMA SaveKeeps ==
  ASSUME EditingInv, NEW s \in DOMAIN saves, NEW r \in SaveRecord, saves' = [saves EXCEPT ![s] = r],
         GoodSave(r, seen', stored'), commits' \in CommitTable,
         disk' \in DiskTable, \A p \in Paths : Known(disk'[p], stored'),
         GoodTabs(tabs', seen', stored'), tabs' \in TabTable, \A p \in Paths : tabs'[p].text = tabs[p].text,
         seen \subseteq seen', seen' \subseteq Nat, stored \subseteq stored', stored' \subseteq Nat,
         overwritten' = {},
         UNCHANGED <<reads, moving, told, upload, texts, drafts>>
  PROVE  EditingInv'
<1>1. saves \in Seq(SaveRecord)
  BY DEF EditingInv, EditingTypes, SaveList
<1>2. /\ saves' \in SaveList /\ DOMAIN saves' = DOMAIN saves /\ saves'[s] = r /\ \A t \in DOMAIN saves \ {s} : saves'[t] = saves[t]
  <2>1. /\ [saves EXCEPT ![s] = r] \in Seq(SaveRecord) /\ DOMAIN [saves EXCEPT ![s] = r] = DOMAIN saves
        /\ [saves EXCEPT ![s] = r][s] = r /\ \A m \in DOMAIN saves \ {s} : [saves EXCEPT ![s] = r][m] = saves[m]
    BY <1>1, ListExcept
  <2> QED  BY <2>1 DEF SaveList
<1>3. EditingTypes'
  BY <1>2 DEF EditingInv, EditingTypes
<1>4. OnlySeenIsReplaced'
  BY DEF OnlySeenIsReplaced
<1>5. \A t \in DOMAIN saves' : (t \in DOMAIN saves /\ saves'[t] = saves[t]) \/ GoodSave(saves'[t], seen', stored')
  BY <1>2
<1>6. \A n \in DOMAIN reads' : n \in DOMAIN reads /\ reads'[n].got = reads[n].got
  OBVIOUS
<1>7. \A d \in drafts' : d \in drafts /\ ((\E p \in Paths : tabs[p].text = d) => \E p \in Paths : tabs'[p].text = d)
  OBVIOUS
<1> QED  BY <1>3, <1>4, <1>5, <1>6, <1>7, EditingStep

\* The same, for a step that changes neither the tabs nor the files.
LEMMA SaveOnlyKeeps ==
  ASSUME EditingInv, NEW s \in DOMAIN saves, NEW r \in SaveRecord, saves' = [saves EXCEPT ![s] = r], GoodSave(r, seen, stored),
         commits' \in CommitTable,
         UNCHANGED <<disk, tabs, reads, moving, told, upload, texts, drafts, stored, seen, overwritten>>
  PROVE  EditingInv'
<1>1. /\ disk \in DiskTable /\ GoodTabs(tabs, seen, stored) /\ tabs \in TabTable /\ (\A p \in Paths : Known(disk[p], stored))
      /\ seen \subseteq Nat /\ stored \subseteq Nat /\ overwritten = {}
  BY DEF EditingInv, EditingTypes, OnlySeenIsReplaced
<1> QED  BY <1>1, SaveKeeps

LEMMA SaveAsksKeeps == ASSUME EditingInv, NEW p \in Paths, NEW resolve \in BOOLEAN, Save(p, resolve) PROVE EditingInv'
<1> DEFINE e == [key |-> p, resolve |-> resolve, after |-> commits[p], at |-> "queued", text |-> 0, expected |-> 0, checked |-> 0]
<1>1. /\ saves' = Append(saves, e) /\ commits' = [commits EXCEPT ![p] = Len(saves) + 1]
      /\ UNCHANGED <<disk, tabs, reads, moving, told, upload, texts, drafts, stored, seen, overwritten>>
  BY DEF Save, others
<1>2. commits \in CommitTable /\ saves \in Seq(SaveRecord)
  BY DEF EditingInv, EditingTypes, SaveList
<1>3. e \in SaveRecord /\ GoodSave(e, seen, stored)
  BY <1>2 DEF SaveRecord, CommitTable, GoodSave, Known
<1> HIDE DEF e
<1>4. /\ saves' \in Seq(SaveRecord) /\ Len(saves) \in Nat /\ DOMAIN saves = 1 .. Len(saves) /\ DOMAIN saves' = 1 .. (Len(saves) + 1)
      /\ saves'[Len(saves) + 1] = e /\ \A n \in 1 .. Len(saves) : saves'[n] = saves[n]
  BY <1>1, <1>2, <1>3, ListAppend
<1>5. commits' \in CommitTable
  BY <1>1, <1>2, <1>4 DEF CommitTable
<1>6. EditingTypes'
  BY <1>1, <1>4, <1>5 DEF EditingInv, EditingTypes, SaveList
<1>7. \A t \in DOMAIN saves' : (t \in DOMAIN saves /\ saves'[t] = saves[t]) \/ GoodSave(saves'[t], seen', stored')
  BY <1>1, <1>3, <1>4
<1>8. GoodTabs(tabs', seen', stored') /\ OnlySeenIsReplaced'
  BY <1>1 DEF EditingInv, OnlySeenIsReplaced
<1> QED  BY <1>1, <1>6, <1>7, <1>8, EditingStep

\* A save is over; it is forgotten when no other was asked for meanwhile.
LEMMA SettlesMeans ==
  ASSUME EditingInv, NEW s \in DOMAIN saves, NEW at \in {"done", "failed"}, Settles(s, at)
  PROVE  \E r \in SaveRecord : saves' = [saves EXCEPT ![s] = r] /\ GoodSave(r, seen, stored) /\ commits' \in CommitTable
<1> DEFINE r == [saves[s] EXCEPT !.at = at]
<1>1. saves[s] \in SaveRecord /\ GoodSave(saves[s], seen, stored) /\ commits \in CommitTable /\ saves[s].key \in Paths
  BY EditingFacts DEF EditingInv, EditingTypes
<1>2. r \in SaveRecord /\ GoodSave(r, seen, stored) /\ saves' = [saves EXCEPT ![s] = r]
  BY <1>1 DEF Settles, SaveRecord, GoodSave
<1> HIDE DEF r
<1>3. commits' \in CommitTable
  BY <1>1 DEF Settles, CommitTable
<1> QED  BY <1>2, <1>3

LEMMA SaveStartsKeeps == ASSUME EditingInv, NEW s \in DOMAIN saves, SaveStarts(s) PROVE EditingInv'
<1> DEFINE save == saves[s]
           tab == tabs[save.key]
<1>1. UNCHANGED <<disk, reads, moving, told, upload, texts, drafts, stored, seen, overwritten>>
  BY DEF SaveStarts, others
<1>2. CASE /\ \/ Settles(s, "failed")
              \/ Settles(s, "done")
           /\ UNCHANGED tabs
  BY <1>1, <1>2, SettlesMeans, SaveOnlyKeeps
<1>3. CASE /\ IsText(tab)
           /\ saves' = [saves EXCEPT ![s].at = "begin", ![s].text = tab.text,
                                     ![s].expected = IF save.resolve THEN tab.conflict ELSE tab.revision]
           /\ tabs' = [tabs EXCEPT ![save.key].saving = TRUE]
           /\ UNCHANGED commits
  <2> DEFINE expected == IF save.resolve THEN tab.conflict ELSE tab.revision
             r == [saves[s] EXCEPT !.at = "begin", !.text = tab.text, !.expected = expected]
             into == [tab EXCEPT !.saving = TRUE]
  <2>1. /\ saves[s] \in SaveRecord /\ save.key \in Paths /\ GoodSave(saves[s], seen, stored)
        /\ tab \in TabRecord /\ GoodTab(tab, seen, stored)
    BY EditingFacts
  <2>2. expected \in Nat /\ Known(expected, seen) /\ tab.text \in Nat /\ Known(tab.text, seen)
    BY <2>1 DEF TabRecord, GoodTab
  <2>3. saves' = [saves EXCEPT ![s] = r] /\ tabs' = [tabs EXCEPT ![save.key] = into]
    BY <1>3
  <2>4. into \in TabRecord /\ into.text = tab.text /\ GoodTab(into, seen, stored)
    BY <2>1 DEF TabRecord, GoodTab
  <2> HIDE DEF expected
  <2>5. r \in SaveRecord /\ GoodSave(r, seen, stored)
    BY <2>1, <2>2 DEF SaveRecord, GoodSave
  <2>6. tabs' = IF IsText(tabs[save.key]) THEN [tabs EXCEPT ![save.key] = into] ELSE tabs
    BY <1>3, <2>3
  <2> HIDE DEF r, into
  <2>7. GoodTabs(tabs', seen, stored) /\ tabs' \in TabTable /\ \A p \in Paths : tabs'[p].text = tabs[p].text
    BY <2>1, <2>4, <2>6, UpdatedMeans
  <2>8. /\ disk \in DiskTable /\ (\A p \in Paths : Known(disk[p], stored)) /\ commits \in CommitTable
        /\ seen \subseteq Nat /\ stored \subseteq Nat /\ overwritten = {}
    BY DEF EditingInv, EditingTypes, OnlySeenIsReplaced
  <2> QED  BY <1>1, <1>3, <2>3, <2>5, <2>7, <2>8, SaveKeeps
<1> QED  BY <1>2, <1>3 DEF SaveStarts

\* The steps of a save on the server, up to the file itself.
LEMMA SaveChecksKeeps ==
  ASSUME EditingInv, NEW s \in DOMAIN saves, BeginWrite(s) \/ CommitChecks(s) \/ ConflictReads(s)
  PROVE  EditingInv'
<1> DEFINE save == saves[s]
           onDisk == disk[save.key]
<1>1. /\ saves[s] \in SaveRecord /\ save.key \in Paths /\ GoodSave(saves[s], seen, stored) /\ onDisk \in Nat /\ Known(onDisk, stored)
      /\ commits \in CommitTable
  BY EditingFacts DEF EditingInv, EditingTypes
<1>2. UNCHANGED <<disk, tabs, reads, commits, moving, told, upload, texts, drafts, stored, seen, overwritten>>
  BY DEF BeginWrite, CommitChecks, ConflictReads, others
<1>3. CASE BeginWrite(s)
  <2> DEFINE at == IF onDisk = save.expected THEN "staged" ELSE "refused"
             r == [saves[s] EXCEPT !.at = at]
  <2>1. saves' = [saves EXCEPT ![s] = r]
    BY <1>3 DEF BeginWrite
  <2>2. at \in {"staged", "refused"}
    OBVIOUS
  <2> HIDE DEF at
  <2>3. r \in SaveRecord /\ GoodSave(r, seen, stored)
    BY <1>1, <2>2 DEF SaveRecord, GoodSave
  <2> HIDE DEF r
  <2> QED  BY <1>1, <1>2, <2>1, <2>3, SaveOnlyKeeps
<1>4. CASE CommitChecks(s)
  <2> DEFINE at == IF onDisk = save.expected THEN "checked" ELSE "refused"
             r == [saves[s] EXCEPT !.at = at, !.checked = onDisk]
  <2>1. saves' = [saves EXCEPT ![s] = r]
    BY <1>4 DEF CommitChecks
  <2>2. at \in {"checked", "refused"} /\ (at = "checked" => onDisk = save.expected)
    OBVIOUS
  <2> HIDE DEF at
  <2>3. r \in SaveRecord /\ GoodSave(r, seen, stored)
    BY <1>1, <2>2 DEF SaveRecord, GoodSave
  <2> HIDE DEF r
  <2> QED  BY <1>1, <1>2, <2>1, <2>3, SaveOnlyKeeps
<1>5. CASE ConflictReads(s)
  <2> DEFINE r == [saves[s] EXCEPT !.at = "compared", !.checked = onDisk]
  <2>1. saves' = [saves EXCEPT ![s] = r]
    BY <1>5 DEF ConflictReads
  <2>2. r \in SaveRecord /\ GoodSave(r, seen, stored)
    BY <1>1 DEF SaveRecord, GoodSave
  <2> HIDE DEF r
  <2> QED  BY <1>1, <1>2, <2>1, <2>2, SaveOnlyKeeps
<1> QED  BY <1>3, <1>4, <1>5

LEMMA CommitReplacesKeeps == ASSUME EditingInv, NEW s \in DOMAIN saves, CommitReplaces(s) PROVE EditingInv'
<1> DEFINE save == saves[s]
           onDisk == disk[save.key]
<1>1. /\ saves[s] \in SaveRecord /\ save.key \in Paths /\ GoodSave(saves[s], seen, stored) /\ save.text \in Nat
      /\ commits \in CommitTable /\ disk \in DiskTable /\ tabs \in TabTable /\ seen \subseteq Nat /\ stored \subseteq Nat /\ overwritten = {}
      /\ (\A p \in Paths : Known(disk[p], stored)) /\ GoodTabs(tabs, seen, stored)
  BY EditingFacts DEF EditingInv, EditingTypes, OnlySeenIsReplaced, SaveRecord
<1>2. /\ UNCHANGED <<tabs, reads, commits, moving, told, upload, texts, drafts, seen>>
      /\ saves[s].at = "checked"
  BY DEF CommitReplaces, others, At
<1>3. CASE save.expected = 0 /\ onDisk # 0
  <2> DEFINE r == [saves[s] EXCEPT !.at = "refused"]
  <2>1. saves' = [saves EXCEPT ![s] = r] /\ UNCHANGED <<disk, stored, overwritten>>
    BY <1>3 DEF CommitReplaces
  <2>2. r \in SaveRecord /\ GoodSave(r, seen, stored)
    BY <1>1 DEF SaveRecord, GoodSave
  <2> HIDE DEF r
  <2> QED  BY <1>1, <1>2, <2>1, <2>2, SaveOnlyKeeps
<1>4. CASE ~(save.expected = 0 /\ onDisk # 0)
  <2> DEFINE r == [saves[s] EXCEPT !.at = "replaced"]
  <2>1. /\ saves' = [saves EXCEPT ![s] = r] /\ disk' = [disk EXCEPT ![save.key] = save.text] /\ stored' = stored \cup {save.text}
        /\ overwritten' = IF onDisk = save.checked THEN overwritten \cup ({onDisk} \ (seen \cup {0})) ELSE overwritten
    BY <1>4 DEF CommitReplaces
  <2>2. overwritten' = {}
    BY <1>1, <1>2, <2>1 DEF GoodSave, Known
  <2>3. r \in SaveRecord /\ GoodSave(r, seen', stored')
    BY <1>1, <1>2, <2>1 DEF SaveRecord, GoodSave, Known
  <2> HIDE DEF r
  <2>4. disk' \in DiskTable /\ \A p \in Paths : Known(disk'[p], stored')
    BY <1>1, <2>1 DEF DiskTable, Known
  <2>5. GoodTabs(tabs', seen', stored') /\ stored \subseteq stored' /\ stored' \subseteq Nat
    BY <1>1, <1>2, <2>1, GoodStays
  <2> QED  BY <1>1, <1>2, <2>1, <2>2, <2>3, <2>4, <2>5, SaveKeeps
<1> QED  BY <1>3, <1>4

\* A save is over, and the tab that it was of is told.
LEMMA SaveEndsKeeps ==
  ASSUME EditingInv, NEW s \in DOMAIN saves, NEW at \in {"done", "failed"}, Settles(s, at),
         NEW tab \in TabRecord, IsText(tabs[saves[s].key]) => GoodTab(tab, seen', stored) /\ tab.text = tabs[saves[s].key].text,
         tabs' = IF IsText(tabs[saves[s].key]) THEN [tabs EXCEPT ![saves[s].key] = tab] ELSE tabs,
         seen \subseteq seen', seen' \subseteq Nat,
         UNCHANGED <<disk, reads, moving, told, upload, texts, drafts, stored, overwritten>>
  PROVE  EditingInv'
<1>1. PICK r \in SaveRecord : saves' = [saves EXCEPT ![s] = r] /\ GoodSave(r, seen, stored) /\ commits' \in CommitTable
  BY SettlesMeans
<1>2. GoodSave(r, seen', stored)
  BY <1>1, GoodStays
<1>3. saves[s].key \in Paths
  BY EditingFacts
<1>4. GoodTabs(tabs', seen', stored) /\ tabs' \in TabTable /\ \A p \in Paths : tabs'[p].text = tabs[p].text
  BY <1>3, UpdatedMeans
<1>5. disk \in DiskTable /\ stored \subseteq Nat /\ overwritten = {} /\ \A p \in Paths : Known(disk[p], stored)
  BY DEF EditingInv, EditingTypes, OnlySeenIsReplaced
<1> QED  BY <1>1, <1>2, <1>4, <1>5, SaveKeeps

LEMMA SaveDoneKeeps == ASSUME EditingInv, NEW s \in DOMAIN saves, SaveDone(s) PROVE EditingInv'
<1> DEFINE n == saves[s].text
           old == tabs[saves[s].key]
           tab == [old EXCEPT !.revision = n, !.original = n, !.conflict = 0, !.saving = FALSE]
<1>1. saves[s] \in SaveRecord /\ saves[s].key \in Paths /\ GoodSave(saves[s], seen, stored) /\ old \in TabRecord /\ GoodTab(old, seen, stored)
  BY EditingFacts
<1>2. /\ saves[s].at = "replaced" /\ Settles(s, "done") /\ n \in Nat
      /\ UNCHANGED <<disk, reads, moving, told, upload, texts, drafts, stored, seen, overwritten>>
  BY <1>1 DEF SaveDone, others, At, SaveRecord
<1>3. Known(n, seen) /\ Known(n, stored)
  BY <1>1, <1>2 DEF GoodSave
<1>4. tabs' = IF IsText(old) THEN [tabs EXCEPT ![saves[s].key] = tab] ELSE tabs
  BY DEF SaveDone, Updated
<1> HIDE DEF n
<1>5. tab \in TabRecord /\ tab.text = old.text /\ GoodTab(tab, seen, stored)
  BY <1>1, <1>2, <1>3 DEF TabRecord, GoodTab, Known
<1>6. seen \subseteq Nat
  BY EditingFacts
<1> HIDE DEF tab
<1> QED  BY <1>2, <1>4, <1>5, <1>6, SaveEndsKeeps

LEMMA SaveFailsKeeps == ASSUME EditingInv, NEW s \in DOMAIN saves, SaveFails(s) PROVE EditingInv'
<1> DEFINE old == tabs[saves[s].key]
           tab == [old EXCEPT !.saving = FALSE]
<1>1. old \in TabRecord /\ GoodTab(old, seen, stored) /\ seen \subseteq Nat
  BY EditingFacts
<1>2. Settles(s, "failed") /\ UNCHANGED <<disk, reads, moving, told, upload, texts, drafts, stored, seen, overwritten>>
  BY DEF SaveFails, others
<1>3. tabs' = IF IsText(old) THEN [tabs EXCEPT ![saves[s].key] = tab] ELSE tabs
  BY DEF SaveFails, Updated, NotSaving
<1>4. tab \in TabRecord /\ tab.text = old.text /\ GoodTab(tab, seen, stored)
  BY <1>1 DEF TabRecord, GoodTab
<1> HIDE DEF tab
<1> QED  BY <1>1, <1>2, <1>3, <1>4, SaveEndsKeeps

LEMMA ConflictShownKeeps == ASSUME EditingInv, NEW s \in DOMAIN saves, ConflictShown(s) PROVE EditingInv'
<1> DEFINE remote == saves[s].checked
           old == tabs[saves[s].key]
           conflict == IF remote # 0 THEN remote ELSE old.conflict
           tab == [old EXCEPT !.conflict = conflict, !.saving = FALSE]
<1>1. saves[s] \in SaveRecord /\ GoodSave(saves[s], seen, stored) /\ old \in TabRecord /\ GoodTab(old, seen, stored) /\ seen \subseteq Nat
  BY EditingFacts
<1>2. /\ Settles(s, "failed") /\ UNCHANGED <<disk, reads, moving, told, upload, texts, drafts, stored, overwritten>>
      /\ seen' = IF IsText(old) THEN seen \cup {remote} ELSE seen
  BY DEF ConflictShown, others
<1>3. tabs' = IF IsText(old) THEN [tabs EXCEPT ![saves[s].key] = tab] ELSE tabs
  BY DEF ConflictShown, Updated
<1>4. remote \in Nat /\ Known(remote, stored)
  BY <1>1 DEF SaveRecord, GoodSave
<1>5. conflict \in Nat /\ Known(conflict, stored) /\ (IsText(old) => Known(conflict, seen'))
  BY <1>1, <1>2, <1>4 DEF TabRecord, GoodTab, Known
<1>6. GoodTab(old, seen', stored) /\ seen \subseteq seen' /\ seen' \subseteq Nat
  BY <1>1, <1>2, <1>4, GoodStays
<1> HIDE DEF conflict, remote
<1>7. tab \in TabRecord /\ tab.text = old.text /\ (IsText(old) => GoodTab(tab, seen', stored))
  BY <1>1, <1>5, <1>6 DEF TabRecord, GoodTab
<1> HIDE DEF tab
<1> QED  BY <1>2, <1>3, <1>6, <1>7, SaveEndsKeeps

-----------------------------------------------------------------------------
(* Reads. *)

\* A read is at its next step.
LEMMA ReadBecomes ==
  ASSUME EditingInv, NEW r \in DOMAIN reads, NEW e \in ReadRecord, reads' = [reads EXCEPT ![r] = e], Known(e.got, stored)
  PROVE  /\ reads' \in ReadList
         /\ \A n \in DOMAIN reads' : (n \in DOMAIN reads /\ reads'[n].got = reads[n].got) \/ Known(reads'[n].got, stored)
<1>1. reads \in Seq(ReadRecord)
  BY DEF EditingInv, EditingTypes, ReadList
<1>2. /\ [reads EXCEPT ![r] = e] \in Seq(ReadRecord) /\ DOMAIN [reads EXCEPT ![r] = e] = DOMAIN reads
      /\ [reads EXCEPT ![r] = e][r] = e /\ \A m \in DOMAIN reads \ {r} : [reads EXCEPT ![r] = e][m] = reads[m]
  BY <1>1, ListExcept
<1> QED  BY <1>2 DEF ReadList

LEMMA ServerReadsKeeps == ASSUME EditingInv, NEW r \in DOMAIN reads, ServerReads(r) PROVE EditingInv'
<1> DEFINE e == [reads[r] EXCEPT !.at = "read", !.got = disk[reads[r].key]]
<1>1. reads[r] \in ReadRecord /\ disk[reads[r].key] \in Nat /\ Known(disk[reads[r].key], stored)
  BY EditingFacts
<1>2. e \in ReadRecord /\ Known(e.got, stored)
  BY <1>1 DEF ReadRecord
<1>3. /\ reads' = [reads EXCEPT ![r] = e]
      /\ UNCHANGED <<disk, tabs, saves, commits, moving, told, upload, texts, drafts, stored, seen, overwritten>>
  BY DEF ServerReads, others
<1> HIDE DEF e
<1>4. /\ reads' \in ReadList
      /\ \A n \in DOMAIN reads' : (n \in DOMAIN reads /\ reads'[n].got = reads[n].got) \/ Known(reads'[n].got, stored)
  BY <1>2, <1>3, ReadBecomes
<1>5. GoodTabs(tabs, seen, stored) /\ tabs \in TabTable /\ told \in Requests
  BY DEF EditingInv, EditingTypes
<1> QED  BY <1>3, <1>4, <1>5, TabsKeep

\* A read is over, and a tab may show what was read: it showed nothing that is not in the file.
LEMMA ReadShownKeeps ==
  ASSUME EditingInv, NEW r \in DOMAIN reads, reads' = [reads EXCEPT ![r].at = "done"],
         NEW p \in Paths, NEW tab \in TabRecord, GoodTab(tab, seen', stored), tabs' = [tabs EXCEPT ![p] = tab],
         tabs[p].text \in drafts => Known(tabs[p].text, stored), seen' \in {seen, seen \cup {reads[r].got}},
         UNCHANGED <<disk, saves, commits, moving, told, upload, texts, drafts, stored, overwritten>>
  PROVE  EditingInv'
<1> DEFINE e == [reads[r] EXCEPT !.at = "done"]
<1>1. reads[r] \in ReadRecord /\ Known(reads[r].got, stored) /\ reads[r].got \in Nat
  BY EditingFacts DEF ReadRecord
<1>2. e \in ReadRecord /\ Known(e.got, stored) /\ reads' = [reads EXCEPT ![r] = e]
  BY <1>1 DEF ReadRecord
<1> HIDE DEF e
<1>3. /\ reads' \in ReadList
      /\ \A n \in DOMAIN reads' : (n \in DOMAIN reads /\ reads'[n].got = reads[n].got) \/ Known(reads'[n].got, stored)
  BY <1>2, ReadBecomes
<1>4. seen \subseteq seen' /\ seen' \subseteq Nat
  BY <1>1, EditingFacts
<1>5. GoodTabs(tabs, seen', stored)
  BY <1>4, GoodStays DEF EditingInv
<1>6. tabs' \in TabTable /\ tabs'[p] = tab /\ \A q \in Paths \ {p} : tabs'[q] = tabs[q]
  BY <1>5 DEF TabTable, GoodTabs
<1>7. GoodTabs(tabs', seen', stored)
  BY <1>5, <1>6 DEF GoodTabs
<1>8. EditingTypes'
  BY <1>3, <1>4, <1>6 DEF EditingInv, EditingTypes
<1>9. \A d \in drafts' : d \in drafts /\ (d \in stored' \/ ((\E q \in Paths : tabs[q].text = d) => \E q \in Paths : tabs'[q].text = d))
  <2> SUFFICES ASSUME NEW d \in drafts, d \notin stored, NEW q \in Paths, tabs[q].text = d PROVE tabs'[q].text = d
    OBVIOUS
  <2>1. q # p
    BY EditingFacts DEF Known
  <2> QED  BY <1>6, <2>1
<1>10. OnlySeenIsReplaced'
  BY DEF EditingInv, OnlySeenIsReplaced
<1>11. \A t \in DOMAIN saves' : t \in DOMAIN saves /\ saves'[t] = saves[t]
  OBVIOUS
<1> QED  BY <1>3, <1>4, <1>7, <1>8, <1>9, <1>10, <1>11, EditingStep

\* A read is over, and no tab shows it.
LEMMA ReadDropped ==
  ASSUME EditingInv, NEW r \in DOMAIN reads, reads' = [reads EXCEPT ![r].at = "done"],
         UNCHANGED <<disk, tabs, saves, commits, moving, told, upload, texts, drafts, stored, seen, overwritten>>
  PROVE  EditingInv'
<1> DEFINE e == [reads[r] EXCEPT !.at = "done"]
<1>1. reads[r] \in ReadRecord /\ Known(reads[r].got, stored)
  BY EditingFacts
<1>2. e \in ReadRecord /\ Known(e.got, stored) /\ reads' = [reads EXCEPT ![r] = e]
  BY <1>1 DEF ReadRecord
<1> HIDE DEF e
<1>3. /\ reads' \in ReadList
      /\ \A n \in DOMAIN reads' : (n \in DOMAIN reads /\ reads'[n].got = reads[n].got) \/ Known(reads'[n].got, stored)
  BY <1>2, ReadBecomes
<1>4. GoodTabs(tabs, seen, stored) /\ tabs \in TabTable /\ told \in Requests
  BY DEF EditingInv, EditingTypes
<1> QED  BY <1>3, <1>4, TabsKeep

LEMMA LoadDoneKeeps == ASSUME EditingInv, NEW r \in DOMAIN reads, LoadDone(r) PROVE EditingInv'
<1> DEFINE p == reads[r].key
           got == reads[r].got
           live == tabs[p].token = r
           tab == IF got = 0 THEN [NoTab EXCEPT !.status = "failed"] ELSE Ready(got)
<1>1. /\ p \in Paths /\ Known(got, stored) /\ got \in Nat /\ r # 0 /\ GoodTab(tabs[p], seen, stored) /\ drafts \subseteq Nat \ {0}
  BY EditingFacts DEF ReadRecord
<1>2. /\ tabs' = IF ~live THEN tabs ELSE [tabs EXCEPT ![p] = tab]
      /\ seen' = IF live THEN seen \cup {got} ELSE seen
      /\ reads' = [reads EXCEPT ![r].at = "done"]
      /\ UNCHANGED <<disk, saves, commits, moving, told, upload, texts, drafts, stored, overwritten>>
  BY DEF LoadDone, others
<1>3. CASE ~live
  BY <1>2, <1>3, ReadDropped
<1>4. CASE live
  <2>1. tabs[p].text = 0
    BY <1>1, <1>4 DEF GoodTab
  <2>2. Known(got, seen')
    BY <1>2, <1>4 DEF Known
  <2>3. tab \in TabRecord /\ GoodTab(tab, seen', stored)
    BY <1>1, <2>2, FreshTabs
  <2> HIDE DEF tab
  <2>4. (tabs[p].text \in drafts => Known(tabs[p].text, stored)) /\ seen' \in {seen, seen \cup {reads[r].got}}
    BY <1>1, <1>2, <1>4, <2>1
  <2>5. tabs' = [tabs EXCEPT ![p] = tab]
    BY <1>2, <1>4
  <2> QED  BY <1>1, <1>2, <2>3, <2>4, <2>5, ReadShownKeeps
<1> QED  BY <1>3, <1>4

LEMMA RefreshDoneKeeps == ASSUME EditingInv, NEW r \in DOMAIN reads, RefreshDone(r) PROVE EditingInv'
<1> DEFINE p == reads[r].key
           got == reads[r].got
           old == tabs[p]
           tab == [old EXCEPT !.text = got, !.original = got, !.revision = got]
           shows == got # 0 /\ IsText(old) /\ ~Dirty(old) /\ old.moved = "no"
<1>1. p \in Paths /\ Known(got, stored) /\ got \in Nat /\ old \in TabRecord /\ GoodTab(old, seen, stored) /\ seen \subseteq Nat
  BY EditingFacts DEF ReadRecord
<1>2. /\ IF shows THEN tabs' = [tabs EXCEPT ![p] = tab] /\ seen' = seen \cup {got} ELSE UNCHANGED <<tabs, seen>>
      /\ reads' = [reads EXCEPT ![r].at = "done"]
      /\ UNCHANGED <<disk, saves, commits, moving, told, upload, texts, drafts, stored, overwritten>>
  BY DEF RefreshDone, others
<1>3. CASE ~shows
  BY <1>2, <1>3, ReadDropped
<1>4. CASE shows
  <2>1. Known(old.text, stored)
    BY <1>1, <1>4 DEF GoodTab, Dirty
  <2>2. Known(got, seen') /\ seen \subseteq seen' /\ seen' \subseteq Nat
    BY <1>1, <1>2, <1>4 DEF Known
  <2>3. GoodTab(old, seen', stored)
    BY <1>1, <2>2, GoodStays
  <2>4. tab \in TabRecord /\ GoodTab(tab, seen', stored)
    BY <1>1, <1>4, <2>2, <2>3 DEF GoodTab, TabRecord, IsText
  <2>5. tabs' = [tabs EXCEPT ![p] = tab] /\ seen' = seen \cup {reads[r].got}
    BY <1>2, <1>4
  <2> HIDE DEF tab
  <2> QED  BY <1>1, <1>2, <2>1, <2>4, <2>5, ReadShownKeeps
<1> QED  BY <1>3, <1>4

-----------------------------------------------------------------------------
(* Others, uploads and moves. *)

\* The files change, and the window not.
LEMMA FilesKeep ==
  ASSUME EditingInv, disk' \in DiskTable, \A p \in Paths : Known(disk'[p], stored'), stored \subseteq stored', stored' \subseteq Nat,
         texts' \in Nat, told' \in Requests, moving' \in {"no", "a", "b"}, upload' \in {"no", "a", "b"},
         UNCHANGED <<tabs, reads, saves, commits, drafts, seen, overwritten>>
  PROVE  EditingInv'
<1>1. EditingTypes'
  BY DEF EditingInv, EditingTypes
<1>2. GoodTabs(tabs', seen', stored') /\ OnlySeenIsReplaced'
  BY GoodStays DEF EditingInv, OnlySeenIsReplaced
<1> QED  BY <1>1, <1>2, EditingStep

LEMMA OthersWriteKeeps == ASSUME EditingInv, NEW p \in Paths, OthersWrite(p) PROVE EditingInv'
<1>1. /\ texts \in Nat /\ disk \in DiskTable /\ stored \subseteq Nat /\ told \in Requests /\ moving \in {"no", "a", "b"}
      /\ upload \in {"no", "a", "b"} /\ \A q \in Paths : Known(disk[q], stored)
  BY DEF EditingInv, EditingTypes
<1>2. /\ texts' = texts + 1
      /\ \/ disk' = [disk EXCEPT ![p] = texts'] /\ stored' = stored \cup {texts'}
         \/ disk' = [disk EXCEPT ![p] = 0] /\ stored' = stored
      /\ UNCHANGED <<tabs, reads, saves, commits, moving, told, upload, drafts, seen, overwritten>>
  BY DEF OthersWrite, others
<1>3. /\ texts' \in Nat /\ disk' \in DiskTable /\ stored \subseteq stored' /\ stored' \subseteq Nat
      /\ \A q \in Paths : Known(disk'[q], stored')
  <2>1. texts' \in Nat
    BY <1>1, <1>2
  <2>2. CASE disk' = [disk EXCEPT ![p] = texts'] /\ stored' = stored \cup {texts'}
    BY <1>1, <2>1, <2>2 DEF DiskTable, Known
  <2>3. CASE disk' = [disk EXCEPT ![p] = 0] /\ stored' = stored
    BY <1>1, <2>1, <2>3 DEF DiskTable, Known
  <2> QED  BY <1>2, <2>2, <2>3
<1> QED  BY <1>1, <1>2, <1>3, FilesKeep

LEMMA UploadStartsKeeps == ASSUME EditingInv, NEW p \in Paths, UploadStarts(p) \/ Move(p) PROVE EditingInv'
<1>1. /\ texts \in Nat /\ disk \in DiskTable /\ stored \subseteq Nat /\ told \in Requests /\ moving \in {"no", "a", "b"}
      /\ upload \in {"no", "a", "b"} /\ \A q \in Paths : Known(disk[q], stored)
  BY DEF EditingInv, EditingTypes
<1>2. /\ UNCHANGED <<disk, tabs, reads, saves, commits, told, texts, drafts, stored, seen, overwritten>>
      /\ moving' \in {moving, p} /\ upload' \in {upload, p}
  BY DEF UploadStarts, Move
<1>3. moving' \in {"no", "a", "b"} /\ upload' \in {"no", "a", "b"}
  BY <1>1, <1>2 DEF Paths
<1> QED  BY <1>1, <1>2, <1>3, FilesKeep

LEMMA UploadEndsKeeps == ASSUME EditingInv, UploadEnds PROVE EditingInv'
<1> DEFINE e == Read("refresh", upload)
<1>1. /\ upload \in Paths /\ upload' = "no" /\ (reads' = reads \/ reads' = Append(reads, e))
      /\ UNCHANGED <<disk, tabs, saves, commits, moving, told, texts, drafts, stored, seen, overwritten>>
  BY DEF UploadEnds, EditingInv, EditingTypes, Paths
<1>2. e \in ReadRecord /\ e.got = 0
  BY <1>1 DEF Read, ReadRecord
<1>3. reads \in Seq(ReadRecord)
  BY DEF EditingInv, EditingTypes, ReadList
<1> HIDE DEF e
<1>4. /\ reads' \in Seq(ReadRecord)
      /\ \A r \in DOMAIN reads' : (r \in DOMAIN reads /\ reads'[r].got = reads[r].got) \/ Known(reads'[r].got, stored)
  <2>1. CASE reads' = reads
    BY <1>3, <2>1
  <2>2. CASE reads' = Append(reads, e)
    <3>1. /\ Append(reads, e) \in Seq(ReadRecord) /\ Len(reads) \in Nat /\ DOMAIN reads = 1 .. Len(reads)
          /\ DOMAIN Append(reads, e) = 1 .. (Len(reads) + 1)
          /\ Append(reads, e)[Len(reads) + 1] = e /\ \A n \in 1 .. Len(reads) : Append(reads, e)[n] = reads[n]
      BY <1>2, <1>3, ListAppend
    <3> QED  BY <1>2, <2>2, <3>1 DEF Known
  <2> QED  BY <1>1, <2>1, <2>2
<1>5. EditingTypes'
  BY <1>1, <1>4 DEF EditingInv, EditingTypes, ReadList
<1>6. GoodTabs(tabs', seen', stored') /\ OnlySeenIsReplaced'
  BY <1>1 DEF EditingInv, OnlySeenIsReplaced
<1> QED  BY <1>1, <1>4, <1>5, <1>6, EditingStep

LEMMA RenamesMeans ==
  ASSUME EditingInv, NEW p \in Paths, Renames(p)
  PROVE  disk' \in DiskTable /\ told' \in Requests /\ \A q \in Paths : Known(disk'[q], stored)
<1>1. Other(p) \in Paths /\ disk \in DiskTable /\ told \in Seq(Paths) /\ \A q \in Paths : Known(disk[q], stored)
  BY OtherPath DEF EditingInv, EditingTypes, Requests
<1>2. told' \in Requests
  BY <1>1, ListAppend DEF Renames, Requests
<1>3. disk' \in DiskTable /\ \A q \in Paths : disk'[q] \in {disk[q], disk[p], 0}
  BY <1>1 DEF Renames, DiskTable
<1> QED  BY <1>1, <1>2, <1>3 DEF Known

LEMMA MovesKeep ==
  ASSUME EditingInv, \/ MoveEnds
                     \/ \E p \in Paths : MovedElsewhere(p)
  PROVE  EditingInv'
<1>1. /\ texts \in Nat /\ disk \in DiskTable /\ stored \subseteq Nat /\ told \in Requests /\ moving \in {"no", "a", "b"}
      /\ upload \in {"no", "a", "b"} /\ \A q \in Paths : Known(disk[q], stored)
  BY DEF EditingInv, EditingTypes
<1>2. CASE MoveEnds
  <2>1. /\ moving \in Paths /\ moving' = "no" /\ (Renames(moving) \/ UNCHANGED <<disk, told>>)
        /\ UNCHANGED <<tabs, reads, saves, commits, upload, texts, drafts, stored, seen, overwritten>>
    BY <1>1, <1>2 DEF MoveEnds, Paths
  <2>2. disk' \in DiskTable /\ told' \in Requests /\ \A q \in Paths : Known(disk'[q], stored)
    BY <1>1, <2>1, RenamesMeans
  <2> QED  BY <1>1, <2>1, <2>2, FilesKeep
<1>3. CASE \E p \in Paths : MovedElsewhere(p)
  <2>1. PICK p \in Paths : MovedElsewhere(p)
    BY <1>3
  <2>2. /\ Renames(p)
        /\ UNCHANGED <<tabs, reads, saves, commits, moving, upload, texts, drafts, stored, seen, overwritten>>
    BY <2>1 DEF MovedElsewhere
  <2>3. disk' \in DiskTable /\ told' \in Requests /\ \A q \in Paths : Known(disk'[q], stored)
    BY <2>2, RenamesMeans
  <2> QED  BY <1>1, <2>2, <2>3, FilesKeep
<1> QED  BY <1>2, <1>3

\* Table "into" has each text of table "ts" that is not in a file.
Carries(ts, into, st) == \A p \in Paths : Known(ts[p].text, st) \/ \E q \in Paths : into[q].text = ts[p].text

\* Rebinding a tab loses no text: the tab of the destination gives way when it has no changes.
LEMMA ReboundMeans ==
  ASSUME NEW sn, NEW st, NEW ts, GoodTabs(ts, sn, st), NEW key \in Paths, NEW path \in Paths
  PROVE  GoodTabs(Rebound(ts, key, path), sn, st) /\ Carries(ts, Rebound(ts, key, path), st)
<1> DEFINE tab == IF IsText(ts[key]) THEN NotSaving(ts[key]) ELSE [NoTab EXCEPT !.status = "failed"]
           stays == [tab EXCEPT !.moved = path]
           goes == [tab EXCEPT !.moved = "no"]
<1>1. ts \in TabTable /\ \A p \in Paths : ts[p] \in TabRecord /\ GoodTab(ts[p], sn, st)
  BY DEF GoodTabs, TabTable
<1>2. tab \in TabRecord /\ GoodTab(tab, sn, st) /\ tab.text = ts[key].text
  <2>1. CASE IsText(ts[key])
    <3> DEFINE n == NotSaving(ts[key])
    <3>1. n \in TabRecord /\ GoodTab(n, sn, st) /\ n.text = ts[key].text
      BY <1>1 DEF NotSaving, TabRecord, GoodTab
    <3> QED  BY <2>1, <3>1
  <2>2. CASE ~IsText(ts[key])
    <3>1. ts[key].text = 0
      BY <1>1, <2>2 DEF GoodTab, IsText
    <3> QED  BY <2>2, <3>1, FreshTabs
  <2> QED  BY <2>1, <2>2
<1>a. Rebound(ts, key, path) = IF key # path /\ Protected(ts[path]) THEN [ts EXCEPT ![key] = stays]
                               ELSE [ts EXCEPT ![key] = NoTab, ![path] = goes]
  BY DEF Rebound
<1> HIDE DEF tab
<1>3. /\ stays \in TabRecord /\ GoodTab(stays, sn, st) /\ stays.text = ts[key].text
      /\ goes \in TabRecord /\ GoodTab(goes, sn, st) /\ goes.text = ts[key].text
  BY <1>2 DEF TabRecord, GoodTab, Paths
<1> HIDE DEF stays, goes
<1>4. NoTab \in TabRecord /\ GoodTab(NoTab, sn, st)
  BY FreshTabs
<1>5. CASE key # path /\ Protected(ts[path])
  <2> DEFINE into == [ts EXCEPT ![key] = stays]
  <2>1. Rebound(ts, key, path) = into
    BY <1>a, <1>5
  <2>2. into \in TabTable /\ into[key] = stays /\ \A q \in Paths \ {key} : into[q] = ts[q]
    BY <1>1, <1>3 DEF TabTable
  <2> HIDE DEF into
  <2>3. GoodTabs(into, sn, st) /\ Carries(ts, into, st)
    BY <1>1, <1>3, <2>2 DEF GoodTabs, Carries
  <2> QED  BY <2>1, <2>3
<1>6. CASE ~(key # path /\ Protected(ts[path]))
  <2> DEFINE into == [ts EXCEPT ![key] = NoTab, ![path] = goes]
  <2>1. Rebound(ts, key, path) = into
    BY <1>a, <1>6
  <2>2. into \in TabTable /\ into[path] = goes /\ \A q \in Paths \ {path} : into[q] = ts[q] \/ (q = key /\ into[q] = NoTab)
    BY <1>1, <1>3, <1>4 DEF TabTable
  <2> HIDE DEF into
  <2>3. key # path => Known(ts[path].text, st)
    BY <1>1, <1>6 DEF Protected, Dirty, IsText, GoodTab, Known
  <2>4. GoodTabs(into, sn, st) /\ Carries(ts, into, st)
    BY <1>1, <1>3, <1>4, <2>2, <2>3 DEF GoodTabs, Carries
  <2> QED  BY <2>1, <2>4
<1> QED  BY <1>5, <1>6

LEMMA RelocatedMeans ==
  ASSUME NEW sn, NEW st, EditingInv, sn = seen, st = stored, NEW p \in Paths, NEW q \in Paths
  PROVE  GoodTabs(Relocated(p, q), sn, st) /\ Carries(tabs, Relocated(p, q), st)
<1> DEFINE bound == IF p # q /\ tabs[p].status # "none" /\ tabs[p].moved = "no" THEN Rebound(tabs, p, q) ELSE tabs
           waits == {k \in Paths : tabs[k].moved = p}
           k == CHOOSE k \in waits : TRUE
<1>1. GoodTabs(tabs, sn, st)
  BY DEF EditingInv
<1>2. GoodTabs(bound, sn, st) /\ Carries(tabs, bound, st)
  BY <1>1, ReboundMeans DEF Carries
<1>a. Relocated(p, q) = IF waits = {} THEN bound ELSE Rebound(bound, k, q)
  BY DEF Relocated
<1>3. waits # {} => k \in Paths
  OBVIOUS
<1> HIDE DEF bound, waits, k
<1>4. CASE waits = {}
  BY <1>2, <1>4, <1>a
<1>5. CASE waits # {}
  <2>1. GoodTabs(Rebound(bound, k, q), sn, st) /\ Carries(bound, Rebound(bound, k, q), st)
    BY <1>2, <1>3, <1>5, ReboundMeans
  <2>2. Carries(tabs, Rebound(bound, k, q), st)
    BY <1>2, <2>1 DEF Carries, Known
  <2> QED  BY <2>1, <2>2, <1>5, <1>a
<1> QED  BY <1>4, <1>5

\* The window has another table of tabs, and loads one of them.
LEMMA FollowKeeps ==
  ASSUME EditingInv, NEW ts, GoodTabs(ts, seen, stored), Carries(tabs, ts, stored), NEW p \in Paths, Follow(ts, p), told' \in Requests,
         UNCHANGED <<disk, saves, commits, moving, upload, texts, drafts, stored, seen, overwritten>>
  PROVE  EditingInv'
<1>1. ts \in TabTable /\ reads \in ReadList /\ drafts \subseteq Nat \ {0}
  BY DEF GoodTabs, EditingInv, EditingTypes
<1>2. CASE tabs' = ts /\ reads' = reads
  <2>1. \A d \in drafts' : d \in stored \/ ((\E q \in Paths : tabs[q].text = d) => \E q \in Paths : tabs'[q].text = d)
    BY <1>1, <1>2 DEF Carries, Known
  <2>2. GoodTabs(tabs', seen, stored) /\ tabs' \in TabTable /\ reads' \in ReadList
        /\ \A r \in DOMAIN reads' : r \in DOMAIN reads /\ reads'[r].got = reads[r].got
    BY <1>1, <1>2
  <2> QED  BY <2>1, <2>2, TabsKeep
<1>3. CASE ts[p].status = "failed" /\ ts[p].moved = "no" /\ Load(ts, p)
  <2>1. ts[p].text = 0
    BY <1>3 DEF GoodTabs, GoodTab
  <2>2. /\ GoodTabs(tabs', seen, stored) /\ tabs' \in TabTable /\ reads' \in ReadList
        /\ \A q \in Paths : tabs'[q].text = ts[q].text
        /\ \A r \in DOMAIN reads' : (r \in DOMAIN reads /\ reads'[r].got = reads[r].got) \/ Known(reads'[r].got, stored)
    BY <1>3, <2>1, LoadMeans
  <2>3. \A d \in drafts' : d \in stored \/ ((\E q \in Paths : tabs[q].text = d) => \E q \in Paths : tabs'[q].text = d)
    BY <1>1, <2>2 DEF Carries, Known
  <2> QED  BY <2>2, <2>3, TabsKeep
<1> QED  BY <1>2, <1>3 DEF Follow

LEMMA WindowIsToldKeeps == ASSUME EditingInv, WindowIsTold PROVE EditingInv'
<1> DEFINE p == Head(told)
           moved == Relocated(p, Other(p))
<1>1. told \in Seq(Paths) /\ told # <<>>
  BY DEF WindowIsTold, EditingInv, EditingTypes, Requests
<1>2. p \in Paths /\ told' \in Requests
  BY <1>1, HeadTailProperties DEF WindowIsTold, Requests
<1>3. Other(p) \in Paths
  BY <1>2, OtherPath
<1>4. GoodTabs(moved, seen, stored) /\ Carries(tabs, moved, stored)
  BY <1>2, <1>3, RelocatedMeans
<1>5. /\ IF moved = tabs THEN UNCHANGED <<tabs, reads>> ELSE Follow(moved, Other(p))
      /\ UNCHANGED <<disk, saves, commits, moving, upload, texts, drafts, stored, seen, overwritten>>
  BY DEF WindowIsTold
<1>6. moved = tabs => Follow(moved, Other(p))
  BY <1>5 DEF Follow
<1> HIDE DEF moved
<1>7. Follow(moved, Other(p))
  BY <1>5, <1>6
<1> QED  BY <1>2, <1>3, <1>4, <1>5, <1>7, FollowKeeps

LEMMA RetryKeeps == ASSUME EditingInv, NEW p \in Paths, Retry(p) PROVE EditingInv'
<1> DEFINE at == Location(p)
           moved == IF tabs[p].moved = "no" THEN tabs ELSE Relocated(at, at)
<1>1. told \in Requests /\ tabs \in TabTable /\ GoodTabs(tabs, seen, stored)
  BY DEF EditingInv, EditingTypes
<1>2. at \in Paths
  BY EditingFacts DEF Location, TabRecord, Paths
<1>3. Follow(moved, at) /\ UNCHANGED <<disk, saves, commits, moving, told, upload, texts, drafts, stored, seen, overwritten>>
  BY DEF Retry, others
<1> HIDE DEF at
<1>4. GoodTabs(moved, seen, stored) /\ Carries(tabs, moved, stored)
  BY <1>1, <1>2, RelocatedMeans DEF Carries
<1> HIDE DEF moved
<1> QED  BY <1>1, <1>2, <1>3, <1>4, FollowKeeps

LEMMA EditingSteps == EditingInv /\ [EditingNext]_editingVars => EditingInv'
<1> SUFFICES ASSUME EditingInv, [EditingNext]_editingVars PROVE EditingInv'
  OBVIOUS
<1>1. CASE UNCHANGED editingVars
  BY <1>1, EditingRests
<1>2. ASSUME NEW p \in Paths,
             \/ \E text \in 1 .. MaxTexts : Type(p, text)
             \/ \E resolve \in BOOLEAN : Save(p, resolve)
             \/ Open(p) \/ Close(p) \/ Discard(p) \/ Retry(p)
             \/ OthersWrite(p) \/ UploadStarts(p) \/ Move(p) \/ MovedElsewhere(p)
      PROVE EditingInv'
  BY <1>2, TypeKeeps, SaveAsksKeeps, OpenKeeps, CloseKeeps, DiscardTabKeeps, RetryKeeps, OthersWriteKeeps, UploadStartsKeeps, MovesKeep
<1>3. ASSUME NEW s \in DOMAIN saves, SaveStep(s) \/ SaveFails(s) PROVE EditingInv'
  BY <1>3, SaveStartsKeeps, SaveChecksKeeps, CommitReplacesKeeps, SaveDoneKeeps, ConflictShownKeeps, SaveFailsKeeps DEF SaveStep
<1>4. ASSUME NEW r \in DOMAIN reads, ServerReads(r) \/ LoadDone(r) \/ RefreshDone(r) PROVE EditingInv'
  BY <1>4, ServerReadsKeeps, LoadDoneKeeps, RefreshDoneKeeps
<1>5. CASE UploadEnds \/ MoveEnds \/ WindowIsTold
  BY <1>5, UploadEndsKeeps, MovesKeep, WindowIsToldKeeps
<1> QED  BY <1>1, <1>2, <1>3, <1>4, <1>5 DEF EditingNext

\* Saving (files/useFiles.ts write, server/src/files/staging.rs), for every number of texts, saves, reads
\* and moves: what the user typed stays in a tab or is in the file until he gives it up, and a save
\* replaces only what he has been shown, however saves, conflicts, refreshes and moves of the file end.
THEOREM EditsAreAlwaysSafe == EditingSpec => []EditsAreSafe
<1>1. EditingSpec => []EditingInv
  BY EditingInitially, EditingSteps, PTL DEF EditingSpec
<1>2. EditingInv => EditsAreSafe
  BY DEF EditingInv, EditsAreSafe
<1> QED  BY <1>1, <1>2, PTL

-----------------------------------------------------------------------------
(* Natural numbers one after the other.                                    *)

\* Less is well founded on the numbers, which the library states of an operator.
LEMMA LessIsWellFounded == IsWellFoundedOn({ss \in Nat \X Nat : ss[1] < ss[2]}, Nat)
BY NatLessThanWellFounded DEF OpToRel

\* A set of numbers that is not empty has a least one.
LEMMA Least ==
  ASSUME NEW T \in SUBSET Nat, T # {}
  PROVE  \E x \in T : \A y \in T : ~(y < x)
<1> DEFINE R == {ss \in Nat \X Nat : ss[1] < ss[2]}
<1>1. \E x \in T : \A y \in T : ~(<<y, x>> \in R)
  <2> HIDE DEF R
  <2>1. IsWellFoundedOn(R, Nat)
    BY LessIsWellFounded DEF R
  <2> QED  BY <2>1, WFMin
<1> QED BY <1>1

\* A set of numbers that has 0, and each number after one of its own, has all of them.
LEMMA Induction ==
  ASSUME NEW S, 0 \in S, \A n \in Nat : n \in S => n + 1 \in S
  PROVE  Nat \subseteq S
<1> DEFINE T == Nat \ S
<1>1. SUFFICES ASSUME T # {} PROVE FALSE
  OBVIOUS
<1>2. PICK x \in T : \A y \in T : ~(y < x)
  BY <1>1, Least
<1>3. x # 0 /\ x - 1 \in Nat /\ x - 1 < x
  BY <1>2
<1> QED BY <1>2, <1>3

-----------------------------------------------------------------------------
(* ConversationView: what a conversation shows.                            *)
Kinds == {"started", "usage", "completed"}
ViewEvents == [kind : Kinds, turn : Nat]
Snaps == [turn : Nat, usage : Nat, last : Nat]
Views == [turn : Nat, usage : Nat, discarded : SUBSET Nat]
ReadRecords == [at : {"idle", "history", "asked", "taken"}, usage : Nat, snap : Snaps, late : BOOLEAN, crossed : BOOLEAN, gone : BOOLEAN]

ViewTypes ==
  /\ now \in Snaps /\ turns \in Nat /\ turns <= MaxTurns
  /\ feed \in Seq(ViewEvents) /\ waiting \in Seq(ViewEvents) /\ lagged \in BOOLEAN
  /\ opening \in [at : {"none", "joined", "streams"}, snap : Snaps]
  /\ sent \in ViewEvents \cup {Nothing, Event("resync", 0)}
  /\ view \in Views /\ read \in [Reads -> ReadRecords]
  /\ removed \in SUBSET Nat /\ actions \in Nat /\ edits \in Nat
  /\ stale \in SUBSET {"turn", "usage"} /\ erased \in Nat /\ missed \in BOOLEAN

Taken(r) == read[r].at = "taken"
Edits == {"revert", "reload"}
Plain == Slots \cup {"resync"}
Resync == Event("resync", 0)
Resyncing == sent = Resync

\* The order in which a session sends.
Rank(e) == 3 * e.turn + (IF e.kind = "started" THEN 0 ELSE IF e.kind = "usage" THEN 1 ELSE 2)
Before(D, E) == \A d \in D, e \in E : Rank(d) < Rank(e)
Increasing(s) == \A m, n \in 1 .. Len(s) : m < n => Rank(s[m]) < Rank(s[n])
Members(s) == {s[n] : n \in 1 .. Len(s)}
SentSet == IF sent.kind \in Kinds THEN {sent} ELSE {}
Under == SentSet \cup Members(feed)      \* what the chat has not heard
Coming == Members(waiting) \cup Under

OrderInv ==
  /\ Increasing(waiting) /\ Increasing(feed)
  /\ Before(Members(waiting), Under) /\ Before(SentSet, Members(feed))

PhaseInv ==
  /\ opening.at = "none" => feed = <<>> /\ ~lagged
  /\ opening.at # "streams" => sent = Nothing /\ ~Registered /\ (\A r \in Reads : read[r].at = "idle") /\ waiting = <<>> /\ ~missed
  /\ Registered => waiting = <<>>
  /\ ~Registered => removed = {} /\ erased = 0 /\ (\A r \in Reads : r # "resync" => read[r].at = "idle") /\ stale = {}
  /\ ~Registered /\ read["resync"].at # "idle" => missed
  /\ read["resync"].at # "idle" => Resyncing
  /\ \A r \in Reads : read[r].at = "history" => r = "reload"

TurnInv ==
  /\ now.turn # 0 => now.turn = turns /\ now.last = turns
  /\ now.last <= turns /\ erased <= turns /\ now.usage <= turns

\* Turns that are discarded are over, and no snapshot that counts is of one.
DiscardInv ==
  Registered =>
  /\ view.discarded \subseteq 1 .. turns
  /\ now.turn \notin view.discarded /\ now.last \notin view.discarded /\ view.turn \notin view.discarded
  /\ removed \subseteq 1 .. turns /\ removed \cap view.discarded = {}
  /\ removed = {} <=> (read["revert"].at = "idle" /\ read["reload"].at = "idle")
  /\ read["revert"].at = "idle" \/ read["reload"].at = "idle"
  /\ (Taken("revert") \/ (read["reload"].at # "idle" /\ read["reload"].gone)) => now.last \notin removed
  /\ \A r \in Edits : Taken(r) => /\ read[r].snap.last \notin view.discarded
                                  /\ read[r].snap.turn \notin view.discarded
                                  /\ (r = "revert" \/ read[r].gone) => read[r].snap.last \notin removed /\ read[r].snap.turn \notin removed
  /\ \A r \in Plain : Taken(r) /\ ~read[r].crossed => read[r].snap.last \notin view.discarded /\ read[r].snap.turn \notin view.discarded

\* An event under way tells of a turn as it went.
Dated(k) == k <= turns /\ (now.turn # 0 /\ k = now.turn => now.usage = k)
Actual(e) ==
  /\ e.turn \in 1 .. turns
  /\ e.kind = "completed" => e.turn # now.turn
  /\ e.kind = "usage" => Dated(e.turn) /\ (e.turn > erased => e.turn <= now.usage)
ActualInv ==
  /\ \A e \in Coming : Actual(e)
  /\ Dated(now.usage) /\ Dated(view.usage) /\ Dated(opening.snap.usage)
  /\ \A r \in Reads : Dated(read[r].usage) /\ Dated(read[r].snap.usage)

\* What is under way leads from what is shown to what is.
TurnFollows(b, t, E) ==
  /\ b # 0 /\ b # t => Event("completed", b) \in E
  /\ t # 0 /\ b # t => Event("started", t) \in E
UsageFollows(b, u, E) == b # u => Event("usage", u) \in E
Whole(E, n, k) ==
  \A e \in E :
    /\ e.kind = "started" => (e.turn = n.turn \/ Event("completed", e.turn) \in E)
    /\ e.kind = "started" /\ n.turn # 0 => Event("started", n.turn) \in E
    /\ e.kind = "completed" /\ n.turn # 0 => Event("started", n.turn) \in E
    /\ e.kind = "usage" /\ e.turn > k => Event("usage", n.usage) \in E

WholeInv ==
  /\ ~lagged => Whole(Under, now, erased)
  /\ ~Registered /\ ~lagged /\ ~Resyncing /\ ~missed => Whole(Coming, now, erased)

Current == ~lagged /\ ~Resyncing
TurnShownInv ==
  /\ Registered /\ Current /\ ~missed /\ "turn" \notin stale => TurnFollows(view.turn, now.turn, Under)
  /\ \A r \in Slots \cup Edits : Taken(r) /\ ~read[r].late /\ Current => TurnFollows(read[r].snap.turn, now.turn, Under)
  /\ Taken("resync") /\ ~lagged => TurnFollows(read["resync"].snap.turn, now.turn, Under)
  /\ opening.at = "streams" /\ ~Registered /\ Current /\ ~missed => TurnFollows(opening.snap.turn, now.turn, Coming)

UsageShownInv ==
  /\ Registered /\ Current /\ ~missed /\ "usage" \notin stale /\ removed = {} => UsageFollows(view.usage, now.usage, Under)
  /\ Registered /\ removed = {} /\ "usage" \notin stale /\ now.usage = 0 => view.usage = 0
  /\ opening.at = "streams" /\ ~Registered => /\ now.usage = 0 => opening.snap.usage = 0
                                              /\ Current /\ ~missed => UsageFollows(opening.snap.usage, now.usage, Coming)

\* What applying a snapshot makes of the usage that is shown.
UsageReadInv ==
  /\ \A r \in Plain : Taken(r) /\ ~read[r].crossed /\ removed = {} =>
       /\ now.usage = 0 => read[r].snap.usage = 0
       /\ read[r].snap.usage # now.usage => read[r].usage # now.usage
  /\ read["resync"].at # "idle" /\ ~read["resync"].crossed /\ ~missed => view.usage = read["resync"].usage
  /\ Taken("resync") /\ ~read["resync"].crossed /\ removed = {} /\ ~lagged => UsageFollows(read["resync"].snap.usage, now.usage, Under)
  /\ \A r \in Edits : Taken(r) => /\ now.usage = 0 => read[r].snap.usage = 0
                                  /\ ~read[r].late /\ Current => UsageFollows(read[r].snap.usage, now.usage, Under)

ViewInv == /\ ViewTypes /\ OrderInv /\ PhaseInv /\ TurnInv /\ DiscardInv /\ ActualInv
           /\ WholeInv /\ TurnShownInv /\ UsageShownInv /\ UsageReadInv

-----------------------------------------------------------------------------
(* What is in a feed.                                                      *)

LEMMA MembersMeans ==
  ASSUME NEW s \in Seq(ViewEvents)
  PROVE  /\ Members(s) \subseteq ViewEvents
         /\ Len(s) \in Nat
         /\ \A n \in 1 .. Len(s) : s[n] \in ViewEvents /\ s[n] \in Members(s)
BY LenProperties, ElementOfSeq DEF Members

\* The first of a feed that is in order comes before the rest of it.
LEMMA FirstHeard ==
  ASSUME NEW s \in Seq(ViewEvents), s # <<>>, Increasing(s)
  PROVE  /\ Head(s) \in Members(s) /\ Head(s) \in ViewEvents
         /\ Tail(s) \in Seq(ViewEvents) /\ Increasing(Tail(s))
         /\ Before({Head(s)}, Members(Tail(s)))
         /\ Members(s) = {Head(s)} \cup Members(Tail(s))
<1>1. /\ Len(s) \in Nat /\ Len(s) >= 1 /\ Head(s) = s[1] /\ Len(Tail(s)) = Len(s) - 1
      /\ Tail(s) \in Seq(ViewEvents)
      /\ \A n \in 1 .. Len(Tail(s)) : Tail(s)[n] = s[n + 1]
  BY HeadTailProperties, LenProperties, EmptySeq
<1>2. \A n \in 1 .. Len(s) : s[n] \in ViewEvents
  BY ElementOfSeq
<1>3. Head(s) \in Members(s) /\ Head(s) \in ViewEvents
  BY <1>1, <1>2 DEF Members
<1>4. \A n \in 1 .. Len(Tail(s)) : n + 1 \in 1 .. Len(s) /\ 1 < n + 1
  BY <1>1
<1>5. Increasing(Tail(s))
  <2> SUFFICES ASSUME NEW m \in 1 .. Len(Tail(s)), NEW n \in 1 .. Len(Tail(s)), m < n
               PROVE  Rank(Tail(s)[m]) < Rank(Tail(s)[n])
    BY DEF Increasing
  <2>1. m + 1 < n + 1 /\ m + 1 \in 1 .. Len(s) /\ n + 1 \in 1 .. Len(s)
    BY <1>4, <1>1
  <2> QED  BY <2>1, <1>1 DEF Increasing
<1>6. Before({Head(s)}, Members(Tail(s)))
  <2> SUFFICES ASSUME NEW n \in 1 .. Len(Tail(s)) PROVE Rank(s[1]) < Rank(Tail(s)[n])
    BY <1>1 DEF Before, Members
  <2>1. 1 \in 1 .. Len(s) /\ n + 1 \in 1 .. Len(s) /\ 1 < n + 1 /\ Tail(s)[n] = s[n + 1]
    BY <1>1, <1>4
  <2> QED  BY <2>1 DEF Increasing
<1>7. Members(s) = {Head(s)} \cup Members(Tail(s))
  <2>1. ASSUME NEW n \in 1 .. Len(s) PROVE s[n] \in {Head(s)} \cup Members(Tail(s))
    <3>1. CASE n = 1
      BY <3>1, <1>1
    <3>2. CASE n # 1
      <4>1. n - 1 \in 1 .. Len(Tail(s)) /\ Tail(s)[n - 1] = s[n]
        BY <3>2, <1>1
      <4> QED  BY <4>1 DEF Members
    <3> QED  BY <3>1, <3>2
  <2>2. ASSUME NEW n \in 1 .. Len(Tail(s)) PROVE Tail(s)[n] \in Members(s)
    BY <1>1, <1>4 DEF Members
  <2>3. Members(s) \subseteq {Head(s)} \cup Members(Tail(s))
    BY <2>1 DEF Members
  <2>4. Members(Tail(s)) \subseteq Members(s)
    BY <2>2 DEF Members
  <2> QED  BY <2>3, <2>4, <1>3
<1> QED  BY <1>1, <1>3, <1>5, <1>6, <1>7

\* What is sent last comes last.
LEMMA LastSent ==
  ASSUME NEW s \in Seq(ViewEvents), NEW e \in ViewEvents, Increasing(s), Before(Members(s), {e})
  PROVE  /\ Append(s, e) \in Seq(ViewEvents) /\ Append(s, e) # <<>>
         /\ Increasing(Append(s, e)) /\ Members(Append(s, e)) = Members(s) \cup {e}
<1> DEFINE t == Append(s, e)
<1>1. /\ t \in Seq(ViewEvents) /\ Len(t) = Len(s) + 1 /\ Len(s) \in Nat /\ t # <<>>
      /\ t[Len(s) + 1] = e /\ \A n \in 1 .. Len(s) : t[n] = s[n]
  BY AppendProperties, LenProperties
<1> HIDE DEF t
<1>2. \A n \in 1 .. Len(t) : n \in 1 .. Len(s) \/ n = Len(s) + 1
  BY <1>1
<1>3. Increasing(t)
  <2> SUFFICES ASSUME NEW m \in 1 .. Len(t), NEW n \in 1 .. Len(t), m < n
               PROVE  Rank(t[m]) < Rank(t[n])
    BY DEF Increasing
  <2>1. m \in 1 .. Len(s) /\ t[m] = s[m]
    BY <1>1, <1>2
  <2>2. CASE n \in 1 .. Len(s)
    BY <2>1, <2>2, <1>1 DEF Increasing
  <2>3. CASE n = Len(s) + 1
    BY <2>1, <2>3, <1>1 DEF Before, Members
  <2> QED  BY <2>2, <2>3, <1>2
<1>4. Members(t) = Members(s) \cup {e}
  <2>1. Len(s) + 1 \in 1 .. Len(t) /\ 1 .. Len(s) \subseteq 1 .. Len(t)
    BY <1>1
  <2> QED  BY <1>1, <1>2, <2>1 DEF Members
<1> QED  BY <1>1, <1>3, <1>4 DEF t

LEMMA NothingComes == Members(<<>>) = {} /\ Increasing(<<>>) /\ <<>> \in Seq(ViewEvents)
BY DEF Members, Increasing

-----------------------------------------------------------------------------
(* What the first of the events under way does to what is shown.           *)

LEMMA RankMeans ==
  ASSUME NEW d \in ViewEvents, NEW e \in ViewEvents, Rank(d) < Rank(e)
  PROVE  /\ d.turn <= e.turn /\ d # e
         /\ d.turn = e.turn => (d.kind = "started" /\ e.kind # "started") \/ (d.kind = "usage" /\ e.kind = "completed")
BY DEF Rank, ViewEvents, Kinds

LEMMA EventIs ==
  ASSUME NEW e \in ViewEvents
  PROVE  e = Event(e.kind, e.turn) /\ e.kind \in Kinds /\ e.turn \in Nat
BY DEF ViewEvents, Event

\* Events that are complete stay so as the first of them is heard.
LEMMA RestIsWhole ==
  ASSUME now \in Snaps, turns \in Nat, erased \in Nat, TurnInv,
         NEW E \in SUBSET ViewEvents, NEW F \in SUBSET ViewEvents, NEW e \in ViewEvents,
         E = {e} \cup F, Before({e}, F), \A x \in E : Actual(x), Whole(E, now, erased)
  PROVE  Whole(F, now, erased)
<1> SUFFICES ASSUME NEW x \in F
             PROVE  /\ x.kind = "started" => (x.turn = now.turn \/ Event("completed", x.turn) \in F)
                    /\ x.kind = "started" /\ now.turn # 0 => Event("started", now.turn) \in F
                    /\ x.kind = "completed" /\ now.turn # 0 => Event("started", now.turn) \in F
                    /\ x.kind = "usage" /\ x.turn > erased => Event("usage", now.usage) \in F
  BY DEF Whole
<1>1. x \in ViewEvents /\ Rank(e) < Rank(x) /\ Actual(x)
  BY DEF Before
<1>2. /\ e.turn <= x.turn /\ x.turn \in 1 .. turns /\ x.turn \in Nat /\ e.turn \in Nat
      /\ e.turn = x.turn => (e.kind = "started" /\ x.kind # "started") \/ (e.kind = "usage" /\ x.kind = "completed")
  BY <1>1, RankMeans DEF Actual, ViewEvents
<1>3. x.kind = "started" => (x.turn = now.turn \/ Event("completed", x.turn) \in F)
  <2>1. SUFFICES ASSUME x.kind = "started", e = Event("completed", x.turn) PROVE FALSE
    BY DEF Whole
  <2> QED  BY <2>1, <1>2 DEF Event
<1>4. now.turn # 0 => now.turn = turns
  BY DEF TurnInv
<1>5. ASSUME x.kind \in {"started", "completed"}, now.turn # 0 PROVE Event("started", now.turn) \in F
  <2>1. SUFFICES ASSUME e = Event("started", now.turn) PROVE FALSE
    BY <1>5 DEF Whole
  <2>2. x.turn = now.turn
    BY <2>1, <1>2, <1>4, <1>5 DEF Event
  <2> QED  BY <2>1, <2>2, <1>1, <1>2, <1>5 DEF Event, Actual
<1>6. ASSUME x.kind = "usage", x.turn > erased PROVE Event("usage", now.usage) \in F
  <2>1. SUFFICES ASSUME e = Event("usage", now.usage) PROVE FALSE
    BY <1>6 DEF Whole
  <2>2. x.turn <= now.usage /\ now.usage \in Nat
    BY <1>6, <1>1 DEF Actual, Snaps
  <2> QED  BY <2>1, <2>2, <1>2, <1>6 DEF Event
<1> QED  BY <1>3, <1>5, <1>6

\* An event that is heard leaves what leads from the turn it makes to the turn of the session.
LEMMA TurnIsFollowed ==
  ASSUME now \in Snaps, turns \in Nat, TurnInv,
         NEW E \in SUBSET ViewEvents, NEW F \in SUBSET ViewEvents, NEW e \in ViewEvents,
         E = {e} \cup F, Before({e}, F), \A x \in E : Actual(x), Whole(E, now, erased),
         NEW b \in Nat, TurnFollows(b, now.turn, E) \/ TurnAfter(b, e) # b
  PROVE  TurnFollows(TurnAfter(b, e), now.turn, F) /\ TurnAfter(b, e) \in Nat
<1> DEFINE c == TurnAfter(b, e)
<1>1. e \in E /\ Actual(e) /\ e = Event(e.kind, e.turn) /\ e.turn \in Nat
  BY EventIs
<1>2. CASE e.kind = "started"
  <2>1. c = e.turn /\ c # 0
    BY <1>2, <1>1 DEF TurnAfter, Actual
  <2>2. Event("completed", c) # e /\ (c # now.turn => Event("started", now.turn) # e)
    BY <1>2, <2>1 DEF Event
  <2>3. c # now.turn => Event("completed", c) \in E
    BY <1>1, <1>2, <2>1 DEF Whole
  <2>4. now.turn # 0 => Event("started", now.turn) \in E
    BY <1>1, <1>2 DEF Whole
  <2> HIDE DEF c
  <2> QED  BY <2>1, <2>2, <2>3, <2>4, <1>1 DEF TurnFollows, c
<1>3. CASE e.kind = "completed" /\ e.turn = b
  <2>1. c = 0
    BY <1>3 DEF TurnAfter
  <2>2. now.turn # 0 => Event("started", now.turn) \in E
    BY <1>1, <1>3 DEF Whole
  <2>3. Event("started", now.turn) # e
    BY <1>3 DEF Event
  <2> HIDE DEF c
  <2> QED  BY <2>1, <2>2, <2>3 DEF TurnFollows, c
<1>4. CASE e.kind # "started" /\ ~(e.kind = "completed" /\ e.turn = b)
  <2>1. c = b /\ TurnFollows(b, now.turn, E)
    BY <1>4 DEF TurnAfter
  <2>2. Event("completed", b) # e /\ Event("started", now.turn) # e
    BY <1>4 DEF Event
  <2> HIDE DEF c
  <2> QED  BY <2>1, <2>2 DEF TurnFollows, c
<1> QED  BY <1>2, <1>3, <1>4

\* An event of a turn that is neither shown nor under way says nothing of it.
LEMMA TurnIsLeft ==
  ASSUME NEW E, NEW F, NEW e, E = {e} \cup F, NEW b, TurnFollows(b, now.turn, E), e.turn # b, e.turn # now.turn
  PROVE  TurnFollows(b, now.turn, F)
BY DEF TurnFollows, Event

LEMMA UsageIsLeft ==
  ASSUME NEW E, NEW F, NEW e, E = {e} \cup F, NEW b, UsageFollows(b, now.usage, E), e.kind # "usage"
  PROVE  UsageFollows(b, now.usage, F)
BY DEF UsageFollows, Event

LEMMA UsageIsFollowed ==
  ASSUME now \in Snaps, erased \in Nat,
         NEW E, NEW F, NEW e \in ViewEvents, E = {e} \cup F, Whole(E, now, erased), e.kind = "usage", e.turn > erased
  PROVE  UsageFollows(e.turn, now.usage, F)
<1>1. Event("usage", now.usage) \in E
  BY DEF Whole
<1> QED  BY <1>1, EventIs DEF UsageFollows, Event

\* What the session sends leads from what led to its state before.
Leads(E, n, D, m, k) ==
  /\ Whole(E, n, k) => Whole(D, m, k)
  /\ \A b \in Nat : TurnFollows(b, n.turn, E) => TurnFollows(b, m.turn, D)
  /\ \A b \in Nat : UsageFollows(b, n.usage, E) => UsageFollows(b, m.usage, D)

LEMMA StartedLeads ==
  ASSUME NEW n \in Snaps, NEW m \in Snaps, NEW t \in Nat, n.turn = 0, t # 0, m.turn = t, m.usage = n.usage,
         NEW E \in SUBSET ViewEvents, NEW k \in Nat, NEW D, D = E \cup {Event("started", t)},
         \A x \in E : x.turn # 0 /\ x.turn # t
  PROVE  Leads(E, n, D, m, k)
<1>1. Whole(E, n, k) => Whole(D, m, k)
  <2> SUFFICES ASSUME Whole(E, n, k), NEW x \in D
               PROVE  /\ x.kind = "started" => (x.turn = t \/ Event("completed", x.turn) \in D)
                      /\ x.kind = "usage" /\ x.turn > k => Event("usage", m.usage) \in D
    BY DEF Whole
  <2>1. CASE x \in E
    BY <2>1 DEF Whole
  <2>2. CASE x = Event("started", t)
    BY <2>2 DEF Event
  <2> QED  BY <2>1, <2>2
<1>2. \A b \in Nat : TurnFollows(b, n.turn, E) => TurnFollows(b, m.turn, D)
  BY DEF TurnFollows
<1>3. \A b \in Nat : UsageFollows(b, n.usage, E) => UsageFollows(b, m.usage, D)
  BY DEF UsageFollows
<1> QED  BY <1>1, <1>2, <1>3 DEF Leads

LEMMA UsageLeads ==
  ASSUME NEW n \in Snaps, NEW m \in Snaps, m.turn = n.turn, m.usage = n.turn,
         NEW E \in SUBSET ViewEvents, NEW k \in Nat, NEW D, D = E \cup {Event("usage", n.turn)}
  PROVE  Leads(E, n, D, m, k)
<1>1. Whole(E, n, k) => Whole(D, m, k)
  <2> SUFFICES ASSUME Whole(E, n, k), NEW x \in D
               PROVE  /\ x.kind = "started" => (x.turn = n.turn \/ Event("completed", x.turn) \in D)
                      /\ x.kind \in {"started", "completed"} /\ n.turn # 0 => Event("started", n.turn) \in D
    BY DEF Whole
  <2>1. CASE x \in E
    BY <2>1 DEF Whole
  <2>2. CASE x = Event("usage", n.turn)
    BY <2>2 DEF Event
  <2> QED  BY <2>1, <2>2
<1>2. \A b \in Nat : TurnFollows(b, n.turn, E) => TurnFollows(b, m.turn, D)
  BY DEF TurnFollows
<1>3. \A b : UsageFollows(b, m.usage, D)
  BY DEF UsageFollows
<1> QED  BY <1>1, <1>2, <1>3 DEF Leads

LEMMA CompletedLeads ==
  ASSUME NEW n \in Snaps, NEW m \in Snaps, m.turn = 0, m.usage = n.usage,
         NEW E \in SUBSET ViewEvents, NEW k \in Nat, NEW D, D = E \cup {Event("completed", n.turn)}
  PROVE  Leads(E, n, D, m, k)
<1>1. Whole(E, n, k) => Whole(D, m, k)
  <2> SUFFICES ASSUME Whole(E, n, k), NEW x \in D
               PROVE  /\ x.kind = "started" => Event("completed", x.turn) \in D
                      /\ x.kind = "usage" /\ x.turn > k => Event("usage", m.usage) \in D
    BY DEF Whole
  <2>1. CASE x \in E
    BY <2>1 DEF Whole
  <2>2. CASE x = Event("completed", n.turn)
    BY <2>2 DEF Event
  <2> QED  BY <2>1, <2>2
<1>2. \A b \in Nat : TurnFollows(b, n.turn, E) => TurnFollows(b, m.turn, D)
  BY DEF TurnFollows
<1>3. \A b \in Nat : UsageFollows(b, n.usage, E) => UsageFollows(b, m.usage, D)
  BY DEF UsageFollows
<1> QED  BY <1>1, <1>2, <1>3 DEF Leads

-----------------------------------------------------------------------------
(* The session.                                                            *)

LEMMA SentMeans ==
  ASSUME ViewTypes
  PROVE  /\ SentSet \subseteq ViewEvents /\ Members(feed) \subseteq ViewEvents
         /\ Under \subseteq ViewEvents /\ Coming \subseteq ViewEvents
         /\ sent = Nothing => SentSet = {} /\ ~Resyncing
         /\ Resyncing => SentSet = {} /\ sent # Nothing /\ sent.kind = "resync"
         /\ sent # Nothing /\ sent.kind # "resync" => sent \in ViewEvents /\ SentSet = {sent} /\ ~Resyncing
<1>1. sent \in ViewEvents \/ sent = Nothing \/ sent = Resync
  BY DEF ViewTypes, Resync
<1>2. Nothing.kind = "none" /\ Resync.kind = "resync"
  BY DEF Nothing, Resync, Event
<1>3. sent \in ViewEvents => sent.kind \in Kinds
  BY EventIs
<1>4. "none" \notin Kinds /\ "resync" \notin Kinds
  BY DEF Kinds
<1>5. SentSet \subseteq ViewEvents
  BY <1>1, <1>2, <1>4 DEF SentSet
<1>6. Members(feed) \subseteq ViewEvents /\ Members(waiting) \subseteq ViewEvents
  BY MembersMeans DEF ViewTypes
<1>7. sent = Nothing => SentSet = {} /\ ~Resyncing
  BY <1>2, <1>4 DEF SentSet, Resyncing
<1>8. Resyncing => SentSet = {} /\ sent # Nothing /\ sent.kind = "resync"
  BY <1>2, <1>4 DEF SentSet, Resyncing
<1>9. sent # Nothing /\ sent.kind # "resync" => sent \in ViewEvents /\ SentSet = {sent} /\ ~Resyncing
  BY <1>1, <1>2, <1>3 DEF SentSet, Resyncing
<1>10. Under \subseteq ViewEvents /\ Coming \subseteq ViewEvents
  BY <1>5, <1>6 DEF Under, Coming
<1> QED  BY <1>5, <1>6, <1>7, <1>8, <1>9, <1>10

\* What the session sends comes last, unless the window lags.
LEMMA EmitMeans ==
  ASSUME ViewTypes, OrderInv, PhaseInv, NEW e \in ViewEvents, Before(Coming, {e}), Emit(e),
         UNCHANGED <<opening, sent, waiting>>
  PROVE  /\ feed' \in Seq(ViewEvents) /\ lagged' \in BOOLEAN /\ OrderInv'
         /\ opening.at = "none" => feed' = <<>> /\ ~lagged'
         /\ Under' \subseteq Under \cup {e} /\ Coming' \subseteq Coming \cup {e}
         /\ ~lagged' => /\ ~lagged
                        /\ \/ Under' = Under \cup {e} /\ Coming' = Coming \cup {e}
                           \/ opening.at = "none" /\ Under = {} /\ Coming = {} /\ Under' = {} /\ Coming' = {}
<1>1. CASE opening.at = "none"
  <2>1. feed' = feed /\ lagged' = lagged /\ feed = <<>> /\ ~lagged /\ sent = Nothing /\ waiting = <<>>
    BY <1>1 DEF Emit, PhaseInv
  <2>2. Under' = Under /\ Coming' = Coming /\ OrderInv'
    BY <2>1 DEF Under, Coming, SentSet, OrderInv, Members, Increasing, Before
  <2>3. Under = {} /\ Coming = {}
    BY <2>1, NothingComes, SentMeans DEF Under, Coming
  <2> QED  BY <2>1, <2>2, <2>3, <1>1 DEF ViewTypes
<1>2. CASE opening.at # "none"
  <2> DEFINE kept == IF Len(feed) = Capacity THEN Tail(feed) ELSE feed
  <2>1. feed' = Append(kept, e) /\ lagged' = (lagged \/ Len(feed) = Capacity)
    BY <1>2 DEF Emit
  <2>2. Len(feed) = Capacity => feed # <<>>
    BY ViewAssumption, EmptySeq DEF ViewTypes
  <2>3. kept \in Seq(ViewEvents) /\ Increasing(kept) /\ Members(kept) \subseteq Members(feed)
        /\ (Len(feed) # Capacity => Members(kept) = Members(feed))
    BY <2>2, FirstHeard DEF ViewTypes, OrderInv
  <2> HIDE DEF kept
  <2>4. Before(Members(kept), {e})
    BY <2>3 DEF Before, Coming, Under
  <2>5. feed' \in Seq(ViewEvents) /\ Increasing(feed') /\ Members(feed') = Members(kept) \cup {e}
    BY <2>1, <2>3, <2>4, LastSent
  <2>6. SentSet' = SentSet /\ Members(waiting)' = Members(waiting)
    BY DEF SentSet, Members
  <2>7. Under' = SentSet \cup Members(kept) \cup {e} /\ Coming' = Members(waiting) \cup SentSet \cup Members(kept) \cup {e}
    BY <2>5, <2>6 DEF Under, Coming
  <2>8. Under' \subseteq Under \cup {e} /\ Coming' \subseteq Coming \cup {e}
    BY <2>7, <2>3 DEF Under, Coming
  <2>9. ~lagged' => ~lagged /\ Under' = Under \cup {e} /\ Coming' = Coming \cup {e}
    BY <2>1, <2>7, <2>3 DEF Under, Coming
  <2>10. OrderInv'
    <3>1. Increasing(waiting')
      BY DEF OrderInv, Increasing
    <3>2. Before(Members(waiting), Under \cup {e}) /\ Before(SentSet, Members(feed) \cup {e})
      BY DEF OrderInv, Before, Coming, Under
    <3>3. Before(Members(waiting), Under') /\ Before(SentSet, Members(feed'))
      BY <3>2, <2>8, <2>5, <2>3 DEF Before
    <3> QED  BY <3>1, <3>3, <2>5, <2>6 DEF OrderInv
  <2> QED  BY <2>1, <2>5, <2>8, <2>9, <2>10, <1>2
<1> QED  BY <1>1, <1>2

LEMMA NumbersAre ==
  ASSUME ViewTypes
  PROVE  /\ now.turn \in Nat /\ now.usage \in Nat /\ now.last \in Nat /\ now = [turn |-> now.turn, usage |-> now.usage, last |-> now.last]
         /\ turns \in Nat /\ turns <= MaxTurns /\ MaxTurns \in Nat /\ erased \in Nat
         /\ view.turn \in Nat /\ view.usage \in Nat /\ view.discarded \in SUBSET Nat
         /\ view = [turn |-> view.turn, usage |-> view.usage, discarded |-> view.discarded]
         /\ opening.snap.turn \in Nat /\ opening.snap.usage \in Nat /\ opening.snap.last \in Nat
         /\ \A r \in Reads : /\ read[r] \in ReadRecords /\ read[r].usage \in Nat /\ read[r].snap \in Snaps
                             /\ read[r].snap.turn \in Nat /\ read[r].snap.usage \in Nat /\ read[r].snap.last \in Nat
<1>1. MaxTurns \in Nat
  BY ViewAssumption
<1>2. \A r \in Reads : read[r] \in ReadRecords
  BY DEF ViewTypes
<1>3. \A x \in ReadRecords : x.usage \in Nat /\ x.snap \in Snaps
  BY DEF ReadRecords
<1>4. \A x \in Snaps : x.turn \in Nat /\ x.usage \in Nat /\ x.last \in Nat /\ x = [turn |-> x.turn, usage |-> x.usage, last |-> x.last]
  BY DEF Snaps
<1>5. \A x \in Views : /\ x.turn \in Nat /\ x.usage \in Nat /\ x.discarded \in SUBSET Nat
                       /\ x = [turn |-> x.turn, usage |-> x.usage, discarded |-> x.discarded]
  BY DEF Views
<1>6. now \in Snaps /\ view \in Views /\ opening.snap \in Snaps /\ turns \in Nat /\ erased \in Nat /\ turns <= MaxTurns
  BY DEF ViewTypes
<1> QED  BY <1>1, <1>2, <1>3, <1>4, <1>5, <1>6

LEMMA ReadsAre == Slots \cup Edits \subseteq Reads /\ Plain \subseteq Reads /\ {"resync", "revert", "reload"} \subseteq Reads
BY DEF Reads, Edits, Plain

LEMMA PhasesAre ==
  ASSUME UNCHANGED <<view, sent>>
  PROVE  (Registered' <=> Registered) /\ (Resyncing' <=> Resyncing)
BY DEF Registered, Resyncing, NoView, Resync

\* What led from what is shown to what the session was in still does once the session has sent an event.
LEMMA ShownAsBefore ==
  ASSUME ViewTypes, PhaseInv, WholeInv, TurnShownInv, UsageShownInv, UsageReadInv,
         UNCHANGED <<opening, sent, view, read, removed, stale, erased, missed>>,
         ~lagged' => /\ ~lagged
                     /\ \/ Leads(Under, now, Under', now', erased) /\ Leads(Coming, now, Coming', now', erased)
                        \/ opening.at = "none" /\ Under' = {} /\ Coming' = {},
         now'.usage = 0 => now.usage = 0,
         \A r \in Reads : read[r].usage = now'.usage => now'.usage = now.usage
  PROVE  WholeInv' /\ TurnShownInv' /\ UsageShownInv' /\ UsageReadInv'
<1>1. (Registered' <=> Registered) /\ (Resyncing' <=> Resyncing) /\ (Current' => Current) /\ (\A r : Taken(r)' <=> Taken(r))
  BY PhasesAre DEF Current, Taken
<1>2. Whole({}, now', erased)
  BY DEF Whole
<1>3. opening.at = "none" => ~Registered /\ (\A r \in Reads : read[r].at = "idle")
  BY DEF PhaseInv
<1>4. WholeInv'
  BY <1>1, <1>2 DEF WholeInv, Leads
<1>5. TurnShownInv'
  BY <1>1, <1>3, NumbersAre, ReadsAre DEF TurnShownInv, Leads, Taken, Current
<1>6. UsageShownInv'
  BY <1>1, <1>3, NumbersAre DEF UsageShownInv, Leads, Current
<1>7. UsageReadInv'
  <2>1. \A r \in Plain : Taken(r)' /\ ~read'[r].crossed /\ removed' = {} =>
          /\ now'.usage = 0 => read'[r].snap.usage = 0
          /\ read'[r].snap.usage # now'.usage => read'[r].usage # now'.usage
    BY <1>1, ReadsAre DEF UsageReadInv
  <2>2. \A r \in Edits : Taken(r)' => /\ now'.usage = 0 => read'[r].snap.usage = 0
                                      /\ ~read'[r].late /\ Current' => UsageFollows(read'[r].snap.usage, now'.usage, Under')
    BY <1>1, <1>3, NumbersAre, ReadsAre DEF UsageReadInv, Leads, Taken, Current
  <2>3. Taken("resync")' /\ ~read'["resync"].crossed /\ removed' = {} /\ ~lagged' => UsageFollows(read'["resync"].snap.usage, now'.usage, Under')
    BY <1>1, <1>3, NumbersAre, ReadsAre DEF UsageReadInv, Leads, Taken
  <2> QED  BY <2>1, <2>2, <2>3, <1>1 DEF UsageReadInv
<1> QED  BY <1>4, <1>5, <1>6, <1>7

\* The session sends that a turn has started.
LEMMA ObserveStarted ==
  ASSUME ViewInv, now.turn = 0, turns < MaxTurns, turns' = turns + 1,
         now' = [now EXCEPT !.turn = turns', !.last = turns'], Emit(Event("started", turns')),
         UNCHANGED <<opening, sent, view, waiting, read, removed, actions, edits, stale, erased, missed>>
  PROVE  ViewInv'
<1>0. ViewTypes /\ OrderInv /\ PhaseInv /\ TurnInv /\ DiscardInv /\ ActualInv /\ WholeInv /\ TurnShownInv /\ UsageShownInv /\ UsageReadInv
  BY DEF ViewInv
<1> PICK e : e = Event("started", turns')
  OBVIOUS
<1>1. /\ now'.turn = turns + 1 /\ now'.last = turns + 1 /\ now'.usage = now.usage /\ now' \in Snaps
      /\ turns' \in Nat /\ turns + 1 <= MaxTurns
  <2>1. now' = [turn |-> turns + 1, usage |-> now.usage, last |-> turns + 1]
    BY <1>0, NumbersAre
  <2> QED  BY <2>1, <1>0, NumbersAre DEF Snaps
<1>2. e \in ViewEvents /\ e.turn = turns + 1 /\ e.kind = "started"
  BY <1>1 DEF ViewEvents, Kinds, Event
<1>3. \A x \in Coming : x \in ViewEvents /\ x.turn <= turns /\ x.turn \in Nat /\ x.turn # 0 /\ Actual(x)
  BY <1>0, SentMeans, EventIs DEF ActualInv, Actual
<1>4. Before(Coming, {e})
  BY <1>0, <1>3, <1>1, <1>2, NumbersAre DEF Before, Rank, ViewEvents, Kinds
<1>5. /\ feed' \in Seq(ViewEvents) /\ lagged' \in BOOLEAN /\ OrderInv'
      /\ opening.at = "none" => feed' = <<>> /\ ~lagged'
      /\ Under' \subseteq Under \cup {e} /\ Coming' \subseteq Coming \cup {e}
      /\ ~lagged' => /\ ~lagged
                     /\ \/ Under' = Under \cup {e} /\ Coming' = Coming \cup {e}
                        \/ opening.at = "none" /\ Under = {} /\ Coming = {} /\ Under' = {} /\ Coming' = {}
  BY <1>0, <1>2, <1>4, EmitMeans
<1>6. ViewTypes'
  BY <1>0, <1>1, <1>5 DEF ViewTypes
<1>7. PhaseInv'
  BY <1>0, <1>5 DEF PhaseInv, Registered, Resyncing, NoView, Resync
<1>8. TurnInv'
  BY <1>0, <1>1, NumbersAre DEF TurnInv
<1>9. DiscardInv'
  BY <1>0, <1>1, NumbersAre DEF DiscardInv, Registered, Taken, Edits, Plain, NoView
<1>10. ActualInv'
  <2>1. \A k \in Nat : Dated(k) => Dated(k)'
    BY <1>0, <1>1, NumbersAre DEF Dated
  <2>2. \A x \in Coming' : Actual(x)'
    <3> SUFFICES ASSUME NEW x \in Coming' PROVE Actual(x)'
      OBVIOUS
    <3>1. CASE x = e
      BY <3>1, <1>0, <1>1, <1>2, NumbersAre DEF Actual
    <3>2. CASE x \in Coming
      BY <3>2, <2>1, <1>0, <1>1, <1>3, NumbersAre DEF Actual
    <3> QED  BY <3>1, <3>2, <1>5
  <2> QED  BY <2>1, <2>2, <1>0, <1>1, NumbersAre DEF ActualInv
<1>11. \A E : E \subseteq Coming => Leads(E, now, E \cup {e}, now', erased)
  <2> SUFFICES ASSUME NEW E, E \subseteq Coming PROVE Leads(E, now, E \cup {e}, now', erased)
    OBVIOUS
  <2>1. E \in SUBSET ViewEvents /\ (\A x \in E : x.turn # 0 /\ x.turn # turns + 1)
    BY <1>3, NumbersAre, <1>0
  <2>2. now \in Snaps /\ now' \in Snaps /\ erased \in Nat /\ turns + 1 \in Nat /\ turns + 1 # 0 /\ e = Event("started", turns + 1)
    BY <1>0, <1>1, NumbersAre DEF ViewTypes
  <2> QED  BY <2>1, <2>2, <1>1, StartedLeads
<1>12. WholeInv' /\ TurnShownInv' /\ UsageShownInv' /\ UsageReadInv'
  <2>1. Leads(Under, now, Under \cup {e}, now', erased) /\ Leads(Coming, now, Coming \cup {e}, now', erased)
    BY <1>11 DEF Coming
  <2> QED  BY <2>1, <1>0, <1>1, <1>5, ShownAsBefore
<1> QED  BY <1>5, <1>6, <1>7, <1>8, <1>9, <1>10, <1>12 DEF ViewInv

\* The session sends the usage of the turn.
LEMMA ObserveUsage ==
  ASSUME ViewInv, now.turn # 0, now.usage # now.turn,
         now' = [now EXCEPT !.usage = now.turn], Emit(Event("usage", now.turn)),
         UNCHANGED <<turns, opening, sent, view, waiting, read, removed, actions, edits, stale, erased, missed>>
  PROVE  ViewInv'
<1>0. ViewTypes /\ OrderInv /\ PhaseInv /\ TurnInv /\ DiscardInv /\ ActualInv /\ WholeInv /\ TurnShownInv /\ UsageShownInv /\ UsageReadInv
  BY DEF ViewInv
<1> PICK e : e = Event("usage", now.turn)
  OBVIOUS
<1>1. /\ now'.turn = now.turn /\ now'.last = now.last /\ now'.usage = now.turn /\ now' \in Snaps
      /\ now.turn = turns /\ now.last = turns /\ turns # 0
  <2>1. now' = [turn |-> now.turn, usage |-> now.turn, last |-> now.last]
    BY <1>0, NumbersAre
  <2> QED  BY <2>1, <1>0, NumbersAre DEF Snaps, TurnInv
<1>2. e \in ViewEvents /\ e.turn = turns /\ e.kind = "usage"
  BY <1>0, <1>1, NumbersAre DEF ViewEvents, Kinds, Event
<1>3. \A x \in Coming : x \in ViewEvents /\ x.turn <= turns /\ x.turn \in Nat /\ x.turn # 0 /\ Actual(x)
  BY <1>0, SentMeans, EventIs DEF ActualInv, Actual
<1>4. Before(Coming, {e})
  <2> SUFFICES ASSUME NEW x \in Coming PROVE Rank(x) < Rank(e)
    BY DEF Before
  <2>1. x.turn = turns => x.kind = "started"
    BY <1>0, <1>3, <1>1, EventIs DEF Actual, Dated, Kinds
  <2> QED  BY <2>1, <1>0, <1>3, <1>2, NumbersAre DEF Rank
<1>5. /\ feed' \in Seq(ViewEvents) /\ lagged' \in BOOLEAN /\ OrderInv'
      /\ opening.at = "none" => feed' = <<>> /\ ~lagged'
      /\ Under' \subseteq Under \cup {e} /\ Coming' \subseteq Coming \cup {e}
      /\ ~lagged' => /\ ~lagged
                     /\ \/ Under' = Under \cup {e} /\ Coming' = Coming \cup {e}
                        \/ opening.at = "none" /\ Under = {} /\ Coming = {} /\ Under' = {} /\ Coming' = {}
  BY <1>0, <1>2, <1>4, EmitMeans
<1>6. ViewTypes'
  BY <1>0, <1>1, <1>5 DEF ViewTypes
<1>7. PhaseInv'
  BY <1>0, <1>5 DEF PhaseInv, Registered, Resyncing, NoView, Resync
<1>8. TurnInv'
  BY <1>0, <1>1, NumbersAre DEF TurnInv
<1>9. DiscardInv'
  BY <1>0, <1>1, NumbersAre DEF DiscardInv, Registered, Taken, Edits, Plain, NoView
<1>10. ActualInv'
  <2>1. \A k \in Nat : Dated(k) => Dated(k)'
    BY <1>0, <1>1, NumbersAre DEF Dated
  <2>2. \A x \in Coming' : Actual(x)'
    <3> SUFFICES ASSUME NEW x \in Coming' PROVE Actual(x)'
      OBVIOUS
    <3>1. CASE x = e
      BY <3>1, <1>0, <1>1, <1>2, NumbersAre DEF Actual, Dated
    <3>2. CASE x \in Coming
      BY <3>2, <2>1, <1>0, <1>1, <1>3, NumbersAre DEF Actual
    <3> QED  BY <3>1, <3>2, <1>5
  <2>3. Dated(now.usage)'
    BY <1>0, <1>1, NumbersAre DEF Dated
  <2> QED  BY <2>1, <2>2, <2>3, <1>0, <1>1, NumbersAre DEF ActualInv
<1>11. \A E : E \subseteq Coming => Leads(E, now, E \cup {e}, now', erased)
  BY <1>0, <1>1, <1>3, NumbersAre, UsageLeads DEF ViewTypes
<1>12. WholeInv' /\ TurnShownInv' /\ UsageShownInv' /\ UsageReadInv'
  <2>1. Leads(Under, now, Under \cup {e}, now', erased) /\ Leads(Coming, now, Coming \cup {e}, now', erased)
    BY <1>11 DEF Coming
  <2>2. \A r \in Reads : read[r].usage # now.turn
    BY <1>0 DEF ActualInv, Dated
  <2> QED  BY <2>1, <2>2, <1>0, <1>1, <1>5, NumbersAre, ShownAsBefore
<1> QED  BY <1>5, <1>6, <1>7, <1>8, <1>9, <1>10, <1>12 DEF ViewInv

\* The session sends that the turn has ended.
LEMMA ObserveCompleted ==
  ASSUME ViewInv, now.turn # 0,
         now' = [now EXCEPT !.turn = 0], Emit(Event("completed", now.turn)),
         UNCHANGED <<turns, opening, sent, view, waiting, read, removed, actions, edits, stale, erased, missed>>
  PROVE  ViewInv'
<1>0. ViewTypes /\ OrderInv /\ PhaseInv /\ TurnInv /\ DiscardInv /\ ActualInv /\ WholeInv /\ TurnShownInv /\ UsageShownInv /\ UsageReadInv
  BY DEF ViewInv
<1> PICK e : e = Event("completed", now.turn)
  OBVIOUS
<1>1. /\ now'.turn = 0 /\ now'.last = now.last /\ now'.usage = now.usage /\ now' \in Snaps
      /\ now.turn = turns /\ now.last = turns /\ turns # 0
  <2>1. now' = [turn |-> 0, usage |-> now.usage, last |-> now.last]
    BY <1>0, NumbersAre
  <2> QED  BY <2>1, <1>0, NumbersAre DEF Snaps, TurnInv
<1>2. e \in ViewEvents /\ e.turn = turns /\ e.kind = "completed"
  BY <1>0, <1>1, NumbersAre DEF ViewEvents, Kinds, Event
<1>3. \A x \in Coming : x \in ViewEvents /\ x.turn <= turns /\ x.turn \in Nat /\ x.turn # 0 /\ Actual(x)
  BY <1>0, SentMeans, EventIs DEF ActualInv, Actual
<1>4. Before(Coming, {e})
  <2> SUFFICES ASSUME NEW x \in Coming PROVE Rank(x) < Rank(e)
    BY DEF Before
  <2>1. x.turn = turns => x.kind \in {"started", "usage"}
    BY <1>0, <1>3, <1>1, EventIs DEF Actual, Kinds
  <2> QED  BY <2>1, <1>0, <1>3, <1>2, NumbersAre DEF Rank
<1>5. /\ feed' \in Seq(ViewEvents) /\ lagged' \in BOOLEAN /\ OrderInv'
      /\ opening.at = "none" => feed' = <<>> /\ ~lagged'
      /\ Under' \subseteq Under \cup {e} /\ Coming' \subseteq Coming \cup {e}
      /\ ~lagged' => /\ ~lagged
                     /\ \/ Under' = Under \cup {e} /\ Coming' = Coming \cup {e}
                        \/ opening.at = "none" /\ Under = {} /\ Coming = {} /\ Under' = {} /\ Coming' = {}
  BY <1>0, <1>2, <1>4, EmitMeans
<1>6. ViewTypes'
  BY <1>0, <1>1, <1>5 DEF ViewTypes
<1>7. PhaseInv'
  BY <1>0, <1>5 DEF PhaseInv, Registered, Resyncing, NoView, Resync
<1>8. TurnInv'
  BY <1>0, <1>1, NumbersAre DEF TurnInv
<1>9. DiscardInv'
  BY <1>0, <1>1, NumbersAre DEF DiscardInv, Registered, Taken, Edits, Plain, NoView
<1>10. ActualInv'
  <2>1. \A k \in Nat : Dated(k) => Dated(k)'
    BY <1>0, <1>1, NumbersAre DEF Dated
  <2>2. \A x \in Coming' : Actual(x)'
    <3> SUFFICES ASSUME NEW x \in Coming' PROVE Actual(x)'
      OBVIOUS
    <3>1. CASE x = e
      BY <3>1, <1>0, <1>1, <1>2, NumbersAre DEF Actual
    <3>2. CASE x \in Coming
      BY <3>2, <2>1, <1>0, <1>1, <1>3, NumbersAre DEF Actual
    <3> QED  BY <3>1, <3>2, <1>5
  <2> QED  BY <2>1, <2>2, <1>0, <1>1, NumbersAre DEF ActualInv
<1>11. \A E : E \subseteq Coming => Leads(E, now, E \cup {e}, now', erased)
  BY <1>0, <1>1, <1>3, NumbersAre, CompletedLeads DEF ViewTypes
<1>12. WholeInv' /\ TurnShownInv' /\ UsageShownInv' /\ UsageReadInv'
  <2>1. Leads(Under, now, Under \cup {e}, now', erased) /\ Leads(Coming, now, Coming \cup {e}, now', erased)
    BY <1>11 DEF Coming
  <2> QED  BY <2>1, <1>0, <1>1, <1>5, ShownAsBefore
<1> QED  BY <1>5, <1>6, <1>7, <1>8, <1>9, <1>10, <1>12 DEF ViewInv

LEMMA ObserveKeeps == ASSUME ViewInv, Observe PROVE ViewInv'
<1>1. CASE now.turn = 0 /\ turns < MaxTurns
  BY <1>1, ObserveStarted DEF Observe
<1>2. CASE now.turn # 0 /\ now.usage # now.turn /\ now' = [now EXCEPT !.usage = now.turn] /\ Emit(Event("usage", now.turn)) /\ UNCHANGED turns
  BY <1>2, ObserveUsage DEF Observe
<1>3. CASE now.turn # 0 /\ now' = [now EXCEPT !.turn = 0] /\ Emit(Event("completed", now.turn)) /\ UNCHANGED turns
  BY <1>3, ObserveCompleted DEF Observe
<1> QED  BY <1>1, <1>2, <1>3 DEF Observe

-----------------------------------------------------------------------------
(* The window.                                                             *)

LEMMA PartsOf ==
  ViewInv <=> ViewTypes /\ OrderInv /\ PhaseInv /\ TurnInv /\ DiscardInv /\ ActualInv /\ WholeInv /\ TurnShownInv /\ UsageShownInv /\ UsageReadInv
BY DEF ViewInv

\* What leads anywhere leads there by itself.
LEMMA ArrivedAlready ==
  ASSUME NEW b, NEW E
  PROVE  TurnFollows(b, b, E) /\ UsageFollows(b, b, E)
BY DEF TurnFollows, UsageFollows

LEMMA UnderIs ==
  ASSUME UNCHANGED <<feed, sent, waiting>>
  PROVE  SentSet' = SentSet /\ Under' = Under /\ Coming' = Coming /\ Members(feed)' = Members(feed) /\ Members(waiting)' = Members(waiting)
         /\ (OrderInv => OrderInv')
BY DEF SentSet, Under, Coming, Members, OrderInv, Increasing, Before

\* Parts of the invariant that say nothing of the opening, the reads, or what is shown.
LEMMA SessionRests ==
  ASSUME ViewTypes, TurnInv, ActualInv, UNCHANGED <<now, turns, erased>>, Coming' \subseteq Coming,
         Dated(view'.usage), Dated(opening'.snap.usage),
         \A r \in Reads : Dated(read'[r].usage) /\ Dated(read'[r].snap.usage)
  PROVE  TurnInv' /\ ActualInv' /\ (\A k : Dated(k)' <=> Dated(k))
<1>1. TurnInv'
  BY DEF TurnInv
<1>2. \A k : Dated(k)' <=> Dated(k)
  BY DEF Dated
<1>3. \A x \in Coming' : Actual(x)'
  BY <1>2 DEF ActualInv, Actual
<1>4. Dated(now.usage)
  BY DEF ActualInv
<1> QED  BY <1>1, <1>2, <1>3, <1>4 DEF ActualInv

LEMMA OpeningKeeps == ASSUME ViewInv, OpenSession PROVE ViewInv'
<1>0. ViewTypes /\ OrderInv /\ PhaseInv /\ TurnInv /\ DiscardInv /\ ActualInv /\ WholeInv /\ TurnShownInv /\ UsageShownInv /\ UsageReadInv
  BY PartsOf
<1>1. /\ UNCHANGED <<now, turns, sent, view, waiting, read, removed, actions, edits, stale, erased, missed, feed, lagged>>
      /\ opening.at # "streams"
      /\ opening' = [at |-> "joined", snap |-> opening.snap] \/ opening' = [at |-> "streams", snap |-> now]
  BY <1>0 DEF OpenSession, Join, ViewTypes
<1>2. /\ \/ opening'.at = "joined" /\ opening'.snap = opening.snap
         \/ opening'.at = "streams" /\ opening'.snap = now
      /\ opening' \in [at : {"none", "joined", "streams"}, snap : Snaps]
  <2>1. PICK old \in Snaps : old = opening.snap
    BY <1>0 DEF ViewTypes
  <2>4. now \in Snaps
    BY <1>0 DEF ViewTypes
  <2>2. CASE opening' = [at |-> "joined", snap |-> opening.snap]
    BY <2>1, <2>2
  <2>3. CASE opening' = [at |-> "streams", snap |-> now]
    BY <2>4, <2>3
  <2> QED  BY <2>2, <2>3, <1>1
<1>3. Under' = Under /\ Coming' = Coming /\ OrderInv' /\ (Registered' <=> Registered) /\ (Resyncing' <=> Resyncing)
  BY <1>0, <1>1, UnderIs, PhasesAre
<1>4. sent = Nothing /\ ~Registered /\ (\A r \in Reads : read[r].at = "idle") /\ waiting = <<>> /\ ~missed
  BY <1>0, <1>1 DEF PhaseInv
<1>5. ViewTypes'
  BY <1>0, <1>1, <1>2 DEF ViewTypes
<1>6. PhaseInv'
  BY <1>0, <1>1, <1>2, <1>3, <1>4 DEF PhaseInv
<1>7. DiscardInv'
  BY <1>3, <1>4 DEF DiscardInv
<1>8. TurnInv' /\ ActualInv'
  BY <1>0, <1>1, <1>2, <1>3, SessionRests DEF ActualInv
<1>9. WholeInv'
  BY <1>0, <1>1, <1>3 DEF WholeInv
<1>10. TurnShownInv'
  BY <1>1, <1>2, <1>3, <1>4, ReadsAre, ArrivedAlready DEF TurnShownInv, Taken
<1>11. UsageShownInv'
  BY <1>1, <1>2, <1>3, <1>4, ArrivedAlready DEF UsageShownInv
<1>12. UsageReadInv'
  BY <1>1, <1>3, <1>4, ReadsAre DEF UsageReadInv, Taken
<1> QED  BY <1>3, <1>5, <1>6, <1>7, <1>8, <1>9, <1>10, <1>11, <1>12, PartsOf, PTL

LEMMA DeliverKeeps == ASSUME ViewInv, Deliver PROVE ViewInv'
<1>0. ViewTypes /\ OrderInv /\ PhaseInv /\ TurnInv /\ DiscardInv /\ ActualInv /\ WholeInv /\ TurnShownInv /\ UsageShownInv /\ UsageReadInv
  BY PartsOf
<1>1. /\ UNCHANGED <<now, turns, opening, view, waiting, read, removed, actions, edits, stale, erased, missed>>
      /\ opening.at = "streams" /\ sent = Nothing
      /\ \/ ~lagged /\ feed # <<>> /\ sent' = Head(feed) /\ feed' = Tail(feed) /\ lagged' = lagged
         \/ lagged /\ sent' = Resync /\ feed' = <<>> /\ lagged' = FALSE
  BY DEF Deliver, Resync
<1>2. SentSet = {} /\ ~Resyncing /\ Under = Members(feed) /\ Members(waiting)' = Members(waiting) /\ read["resync"].at = "idle"
  BY <1>0, <1>1, SentMeans DEF Under, Members, PhaseInv
<1>3. \/ /\ ~lagged /\ ~lagged' /\ Under' = Under /\ Coming' = Coming /\ ~Resyncing' /\ OrderInv'
         /\ sent' \in ViewEvents /\ feed' \in Seq(ViewEvents)
      \/ /\ lagged /\ ~lagged' /\ Under' = {} /\ Coming' \subseteq Coming /\ Resyncing' /\ OrderInv' /\ sent' = Resync /\ feed' = <<>>
  <2>1. CASE ~lagged
    <3>1. /\ Head(feed) \in ViewEvents /\ Tail(feed) \in Seq(ViewEvents) /\ Increasing(Tail(feed))
          /\ Before({Head(feed)}, Members(Tail(feed))) /\ Members(feed) = {Head(feed)} \cup Members(Tail(feed))
      BY <1>0, <1>1, <2>1, FirstHeard DEF ViewTypes, OrderInv
    <3>2. SentSet' = {Head(feed)} /\ ~Resyncing' /\ feed' = Tail(feed) /\ lagged' = lagged /\ sent' = Head(feed)
      BY <1>1, <2>1, <3>1, EventIs DEF SentSet, Resyncing, Resync, Event, Kinds
    <3>3. Members(feed)' = Members(Tail(feed))
      BY <3>2 DEF Members
    <3>4. Under' = Under /\ Coming' = Coming
      BY <3>1, <3>2, <3>3, <1>2 DEF Under, Coming
    <3>5. OrderInv'
      BY <3>1, <3>2, <3>3, <3>4, <1>0, <1>1, <1>2 DEF OrderInv, Increasing
    <3> QED  BY <2>1, <3>1, <3>2, <3>4, <3>5
  <2>2. CASE lagged
    <3>1. SentSet' = {} /\ Resyncing' /\ feed' = <<>> /\ ~lagged' /\ sent' = Resync
      BY <1>1, <2>2 DEF SentSet, Resyncing, Resync, Event, Kinds
    <3>2. Members(feed)' = {} /\ Increasing(feed')
      BY <3>1, NothingComes DEF Members
    <3>3. Under' = {} /\ Coming' = Members(waiting)
      BY <3>1, <3>2, <1>2 DEF Under, Coming
    <3>4. OrderInv'
      BY <3>1, <3>2, <3>3, <1>0, <1>1 DEF OrderInv, Before, Increasing
    <3> QED  BY <2>2, <3>1, <3>3, <3>4 DEF Coming
  <2> QED  BY <2>1, <2>2, <1>0 DEF ViewTypes
<1>4. Registered' <=> Registered
  BY <1>1 DEF Registered, NoView
<1>5. ViewTypes'
  <2>1. feed' \in Seq(ViewEvents) /\ lagged' \in BOOLEAN /\ sent' \in ViewEvents \cup {Nothing, Event("resync", 0)}
    BY <1>0, <1>1, <1>3, NothingComes DEF Resync, ViewTypes
  <2> QED  BY <2>1, <1>0, <1>1 DEF ViewTypes
<1>6. PhaseInv'
  BY <1>0, <1>1, <1>2, <1>4 DEF PhaseInv
<1>7. DiscardInv'
  BY <1>0, <1>1, <1>4 DEF DiscardInv, Taken
<1>8. TurnInv' /\ ActualInv'
  BY <1>0, <1>1, <1>3, SessionRests DEF ActualInv
<1>9. WholeInv'
  BY <1>0, <1>1, <1>2, <1>3, <1>4 DEF WholeInv, Whole
<1>10. TurnShownInv'
  BY <1>0, <1>1, <1>2, <1>3, <1>4, ReadsAre DEF TurnShownInv, Taken, Current
<1>11. UsageShownInv'
  BY <1>0, <1>1, <1>2, <1>3, <1>4 DEF UsageShownInv, Current
<1>12. UsageReadInv'
  BY <1>0, <1>1, <1>2, <1>3, <1>4, ReadsAre DEF UsageReadInv, Taken, Current
<1> QED  BY <1>3, <1>5, <1>6, <1>7, <1>8, <1>9, <1>10, <1>11, <1>12, PartsOf, PTL

\* The interface has registered a chat that has discarded only turns that there were.
LEMMA RegisteredMeans ==
  ASSUME ViewTypes, DiscardInv, Registered
  PROVE  0 \notin view.discarded
BY NumbersAre DEF DiscardInv

LEMMA IsRegistered ==
  ASSUME NEW v, 0 \notin v.discarded
  PROVE  v # NoView
BY DEF NoView

LEMMA ReduceMeans ==
  ASSUME NEW v \in Views, NEW e \in ViewEvents
  PROVE  /\ Reduce(v, e) \in Views /\ Reduce(v, e).discarded = v.discarded
         /\ e.turn \in v.discarded /\ e.kind # "usage" => Reduce(v, e) = v
         /\ e.turn \notin v.discarded \/ e.kind = "usage" =>
              /\ Reduce(v, e).turn = TurnAfter(v.turn, e)
              /\ Reduce(v, e).usage = IF e.kind = "usage" THEN e.turn ELSE v.usage
              /\ Reduce(v, e) = [turn |-> TurnAfter(v.turn, e), usage |-> IF e.kind = "usage" THEN e.turn ELSE v.usage, discarded |-> v.discarded]
<1>1. v = [turn |-> v.turn, usage |-> v.usage, discarded |-> v.discarded] /\ v.turn \in Nat /\ v.usage \in Nat /\ v.discarded \in SUBSET Nat
  BY DEF Views
<1>2. e.turn \in Nat /\ TurnAfter(v.turn, e) \in Nat
  BY <1>1, EventIs DEF TurnAfter
<1>3. CASE e.turn \in v.discarded /\ e.kind # "usage"
  BY <1>3 DEF Reduce
<1>4. CASE e.turn \notin v.discarded \/ e.kind = "usage"
  <2> DEFINE u == IF e.kind = "usage" THEN e.turn ELSE v.usage
  <2>1. u \in Nat
    BY <1>1, <1>2
  <2>2. Reduce(v, e) = [v EXCEPT !.turn = TurnAfter(v.turn, e), !.usage = u]
    BY <1>4 DEF Reduce
  <2> HIDE DEF u
  <2>3. Reduce(v, e) = [turn |-> TurnAfter(v.turn, e), usage |-> u, discarded |-> v.discarded]
    BY <1>1, <2>2
  <2> QED  BY <1>1, <1>2, <1>4, <2>1, <2>3 DEF Views, u
<1> QED  BY <1>3, <1>4

\* The chat hears an event.
LEMMA HearKeeps ==
  ASSUME ViewInv, HearEvent, Registered
  PROVE  ViewInv'
<1>0. ViewTypes /\ OrderInv /\ PhaseInv /\ TurnInv /\ DiscardInv /\ ActualInv /\ WholeInv /\ TurnShownInv /\ UsageShownInv /\ UsageReadInv
  BY PartsOf
<1>1. /\ UNCHANGED <<now, turns, feed, lagged, opening, waiting, removed, actions, edits, erased, missed>>
      /\ sent # Nothing /\ sent.kind # "resync" /\ sent' = Nothing
      /\ view' = Reduce(view, sent) /\ read' = Late
      /\ stale' = (stale \ (IF sent.kind = "usage" THEN {"usage"} ELSE IF view' # view THEN {"turn"} ELSE {}))
                   \cup (IF sent.kind = "usage" /\ sent.turn <= erased THEN {"usage"} ELSE {})
  BY DEF HearEvent, Shows
<1> PICK e : e = sent
  OBVIOUS
<1>2. e \in ViewEvents /\ e.kind \in Kinds /\ e.turn \in Nat /\ SentSet = {e} /\ ~Resyncing /\ SentSet' = {} /\ ~Resyncing' /\ read["resync"].at = "idle"
  BY <1>0, <1>1, SentMeans, EventIs DEF SentSet, Resyncing, Resync, Nothing, Event, Kinds, PhaseInv
<1>3. waiting = <<>> /\ Members(waiting) = {} /\ 0 \notin view.discarded /\ opening.at = "streams"
  BY <1>0, RegisteredMeans, NothingComes DEF PhaseInv
<1>4. Members(feed)' = Members(feed) /\ Members(waiting)' = {} /\ Members(feed) \subseteq ViewEvents
  BY <1>0, <1>1, <1>3, SentMeans, NothingComes DEF Members
<1> DEFINE F == Members(feed)
<1>5. Under = {e} \cup F /\ Coming = Under /\ Under' = F /\ Coming' = F /\ F \in SUBSET ViewEvents /\ Under \in SUBSET ViewEvents
  BY <1>2, <1>3, <1>4 DEF Under, Coming
<1>6. Before({e}, F) /\ OrderInv'
  BY <1>0, <1>1, <1>2, <1>3, <1>4, <1>5 DEF OrderInv, Before, Increasing
<1>7. Actual(e) /\ (\A x \in Under : Actual(x))
  BY <1>0, <1>5 DEF ActualInv
<1>8. view \in Views /\ now \in Snaps /\ turns \in Nat /\ erased \in Nat /\ view.turn \in Nat
  BY <1>0, NumbersAre DEF ViewTypes
<1>9. /\ view' \in Views /\ view'.discarded = view.discarded
      /\ e.turn \in view.discarded /\ e.kind # "usage" => view' = view
      /\ e.turn \notin view.discarded \/ e.kind = "usage" =>
           /\ view'.turn = TurnAfter(view.turn, e)
           /\ view'.usage = IF e.kind = "usage" THEN e.turn ELSE view.usage
  BY <1>1, <1>2, <1>8, ReduceMeans
<1>10. Registered'
  BY <1>3, <1>9, IsRegistered DEF Registered, NoView
<1>11. \A r \in Reads : /\ read'[r].at = read[r].at /\ read'[r].usage = read[r].usage /\ read'[r].snap = read[r].snap
                        /\ read'[r].crossed = read[r].crossed /\ read'[r].gone = read[r].gone
                        /\ read'[r].late = Taken(r) /\ read'[r] \in ReadRecords
  <2> SUFFICES ASSUME NEW r \in Reads
               PROVE  /\ read'[r].at = read[r].at /\ read'[r].usage = read[r].usage /\ read'[r].snap = read[r].snap
                      /\ read'[r].crossed = read[r].crossed /\ read'[r].gone = read[r].gone
                      /\ read'[r].late = Taken(r) /\ read'[r] \in ReadRecords
    OBVIOUS
  <2>1. read'[r] = [read[r] EXCEPT !.late = Taken(r)] /\ read[r] \in ReadRecords
    BY <1>0, <1>1, NumbersAre DEF Late, Taken
  <2>2. Taken(r) \in BOOLEAN
    BY DEF Taken
  <2> QED  BY <2>1, <2>2 DEF ReadRecords
<1> HIDE DEF F
<1>12. ViewTypes'
  <2>1. read' \in [Reads -> ReadRecords]
    BY <1>1, <1>11 DEF Late
  <2>2. stale' \in SUBSET {"turn", "usage"} /\ sent' \in ViewEvents \cup {Nothing, Event("resync", 0)}
    BY <1>0, <1>1 DEF ViewTypes
  <2> QED  BY <2>1, <2>2, <1>0, <1>1, <1>9 DEF ViewTypes
<1>13. PhaseInv'
  BY <1>0, <1>1, <1>2, <1>3, <1>10, <1>11, ReadsAre DEF PhaseInv
<1>14. DiscardInv'
  <2>1. view'.turn \notin view.discarded
    BY <1>0, <1>3, <1>9 DEF TurnAfter, DiscardInv
  <2>2. view.discarded \subseteq 1 .. turns /\ now.turn \notin view.discarded /\ now.last \notin view.discarded
    BY <1>0 DEF DiscardInv
  <2> QED  BY <2>1, <2>2, <1>0, <1>1, <1>9, <1>10, <1>11, ReadsAre DEF DiscardInv, Taken
<1>15. TurnInv' /\ ActualInv'
  <2>1. Dated(view'.usage)
    BY <1>0, <1>7, <1>9 DEF ActualInv, Actual
  <2> QED  BY <2>1, <1>0, <1>1, <1>5, <1>11, SessionRests DEF ActualInv
<1>16. WholeInv'
  <2>1. ~lagged => Whole(F, now, erased)
    BY <1>0, <1>2, <1>5, <1>6, <1>7, <1>8, RestIsWhole DEF WholeInv
  <2> QED  BY <2>1, <1>1, <1>5, <1>10 DEF WholeInv
<1>17. TurnShownInv'
  <2>1. ASSUME ~lagged, ~missed, "turn" \notin stale' PROVE TurnFollows(view'.turn, now.turn, F)
    <3>1. Whole(Under, now, erased)
      BY <1>0, <2>1 DEF WholeInv
    <3>2. TurnFollows(view.turn, now.turn, Under) \/ view' # view
      BY <1>0, <1>1, <1>2, <2>1 DEF TurnShownInv, Current
    <3>3. CASE e.turn \in view.discarded /\ e.kind # "usage"
      <4>1. view' = view /\ e.turn # view.turn /\ e.turn # now.turn
        BY <1>0, <1>9, <3>3 DEF DiscardInv
      <4> QED  BY <4>1, <3>2, <1>5, TurnIsLeft
    <3>4. CASE e.turn \notin view.discarded \/ e.kind = "usage"
      <4>1. view'.turn = TurnAfter(view.turn, e)
        BY <1>9, <3>4
      <4>2. TurnFollows(view.turn, now.turn, Under) \/ TurnAfter(view.turn, e) # view.turn
        <5>1. CASE e.kind = "usage"
          BY <5>1, <1>0, <1>1, <1>2, <2>1 DEF TurnShownInv, Current
        <5>2. CASE e.kind # "usage" /\ view'.turn = view.turn
          <6>1. view' = view
            BY <1>1, <1>2, <1>8, <3>4, <5>2, ReduceMeans DEF Views
          <6> QED  BY <6>1, <3>2
        <5> QED  BY <5>1, <5>2, <4>1
      <4> QED  BY <4>1, <4>2, <3>1, <1>0, <1>2, <1>5, <1>6, <1>7, <1>8, TurnIsFollowed
    <3> QED  BY <3>3, <3>4
  <2> QED  BY <2>1, <1>1, <1>2, <1>5, <1>10, <1>11, ReadsAre DEF TurnShownInv, Taken, Current
<1>18. UsageShownInv'
  <2>1. ASSUME ~lagged, ~missed, "usage" \notin stale', removed = {} PROVE UsageFollows(view'.usage, now.usage, F)
    <3>1. CASE e.kind = "usage"
      <4>1. view'.usage = e.turn /\ ~(e.turn <= erased)
        BY <1>1, <1>9, <2>1, <3>1
      <4>2. e.turn > erased /\ Whole(Under, now, erased)
        BY <4>1, <1>0, <1>2, <1>8, <2>1 DEF WholeInv
      <4> QED  BY <4>1, <4>2, <1>2, <1>5, <1>8, <3>1, UsageIsFollowed
    <3>2. CASE e.kind # "usage"
      <4>1. "usage" \notin stale /\ view'.usage = view.usage
        BY <1>1, <1>9, <2>1, <3>2
      <4>2. UsageFollows(view.usage, now.usage, Under)
        BY <4>1, <1>0, <1>2, <2>1 DEF UsageShownInv, Current
      <4> QED  BY <4>1, <4>2, <1>5, <3>2, UsageIsLeft
    <3> QED  BY <3>1, <3>2
  <2>2. ASSUME removed = {}, "usage" \notin stale', now.usage = 0 PROVE view'.usage = 0
    <3>1. CASE e.kind = "usage"
      <4>1. e.turn > erased
        BY <1>1, <1>2, <1>8, <2>2, <3>1
      <4> QED  BY <4>1, <1>2, <1>7, <1>8, <2>2, <3>1 DEF Actual
    <3>2. CASE e.kind # "usage"
      BY <1>0, <1>1, <1>9, <2>2, <3>2 DEF UsageShownInv
    <3> QED  BY <3>1, <3>2
  <2> QED  BY <2>1, <2>2, <1>1, <1>2, <1>5, <1>10 DEF UsageShownInv, Current
<1>19. UsageReadInv'
  <2>1. \A r \in Reads : Taken(r)' <=> Taken(r)
    BY <1>11 DEF Taken
  <2>2. \A r \in Plain : Taken(r)' /\ ~read'[r].crossed /\ removed' = {} =>
          /\ now'.usage = 0 => read'[r].snap.usage = 0
          /\ read'[r].snap.usage # now'.usage => read'[r].usage # now'.usage
    BY <2>1, <1>0, <1>1, <1>11, ReadsAre DEF UsageReadInv
  <2>3. \A r \in Edits : Taken(r)' => read'[r].late /\ (now'.usage = 0 => read'[r].snap.usage = 0)
    BY <2>1, <1>0, <1>1, <1>11, ReadsAre DEF UsageReadInv
  <2>4. read'["resync"].at = "idle" /\ ~Taken("resync")'
    BY <1>2, <1>11, ReadsAre DEF Taken
  <2> QED  BY <2>2, <2>3, <2>4 DEF UsageReadInv
<1> QED  BY <1>6, <1>12, <1>13, <1>14, <1>15, <1>16, <1>17, <1>18, <1>19, PartsOf, PTL

\* An event waits for the chat to be registered.
LEMMA WaitKeeps ==
  ASSUME ViewInv, HearEvent, ~Registered
  PROVE  ViewInv'
<1>0. ViewTypes /\ OrderInv /\ PhaseInv /\ TurnInv /\ DiscardInv /\ ActualInv /\ WholeInv /\ TurnShownInv /\ UsageShownInv /\ UsageReadInv
  BY PartsOf
<1>1. /\ UNCHANGED <<now, turns, feed, lagged, opening, removed, actions, edits, erased, missed, view, read, stale>>
      /\ sent # Nothing /\ sent.kind # "resync" /\ sent' = Nothing /\ waiting' = Append(waiting, sent)
  BY DEF HearEvent
<1> PICK e : e = sent
  OBVIOUS
<1>2. e \in ViewEvents /\ SentSet = {e} /\ ~Resyncing /\ SentSet' = {} /\ ~Resyncing' /\ opening.at = "streams"
  BY <1>0, <1>1, SentMeans DEF SentSet, Resyncing, Resync, Nothing, Event, Kinds, PhaseInv
<1>3. Members(feed)' = Members(feed) /\ Members(feed) \subseteq ViewEvents /\ waiting \in Seq(ViewEvents)
  BY <1>0, <1>1, SentMeans DEF Members, ViewTypes
<1> DEFINE F == Members(feed)
<1>4. Under = {e} \cup F /\ Coming = Members(waiting) \cup {e} \cup F /\ Under' = F /\ F \in SUBSET ViewEvents /\ Under \in SUBSET ViewEvents
  BY <1>2, <1>3 DEF Under, Coming
<1>5. waiting' \in Seq(ViewEvents) /\ Increasing(waiting') /\ Members(waiting') = Members(waiting) \cup {e}
  <2>1. Before(Members(waiting), {e}) /\ Increasing(waiting)
    BY <1>0, <1>4 DEF OrderInv, Before
  <2> QED  BY <2>1, <1>1, <1>2, <1>3, LastSent
<1>6. Coming' = Coming
  BY <1>4, <1>5 DEF Coming, Members
<1>7. Before({e}, F) /\ OrderInv'
  <2>1. Before(Members(waiting), Under) /\ Before({e}, F) /\ Increasing(feed)
    BY <1>0, <1>2 DEF OrderInv
  <2>2. Before(Members(waiting) \cup {e}, F) /\ Before({}, F)
    BY <2>1, <1>4 DEF Before
  <2> QED  BY <2>1, <2>2, <1>1, <1>2, <1>3, <1>4, <1>5 DEF OrderInv, Members
<1>8. (Registered' <=> Registered) /\ ~Registered
  BY <1>1 DEF Registered, NoView
<1>9. now \in Snaps /\ turns \in Nat /\ erased \in Nat /\ (\A x \in Under : Actual(x))
  BY <1>0, <1>4 DEF ViewTypes, ActualInv, Coming
<1>10. ViewTypes'
  <2>1. sent' \in ViewEvents \cup {Nothing, Event("resync", 0)}
    BY <1>1
  <2> QED  BY <2>1, <1>0, <1>1, <1>5 DEF ViewTypes
<1>11. read["resync"].at = "idle" /\ (\A r \in Reads : read[r].at = "idle")
  BY <1>0, <1>2, <1>8 DEF PhaseInv
<1>12. PhaseInv'
  BY <1>0, <1>1, <1>2, <1>8, <1>11, ReadsAre DEF PhaseInv
<1>13. DiscardInv'
  BY <1>8 DEF DiscardInv
<1>14. TurnInv' /\ ActualInv'
  BY <1>0, <1>1, <1>6, SessionRests DEF ActualInv
<1>15. WholeInv'
  <2>1. ~lagged => Whole(F, now, erased)
    BY <1>0, <1>2, <1>4, <1>7, <1>9, RestIsWhole DEF WholeInv
  <2> QED  BY <2>1, <1>0, <1>1, <1>2, <1>4, <1>6, <1>8 DEF WholeInv
<1>16. TurnShownInv'
  BY <1>0, <1>1, <1>2, <1>6, <1>8, <1>11, ReadsAre DEF TurnShownInv, Taken, Current
<1>17. UsageShownInv'
  BY <1>0, <1>1, <1>2, <1>6, <1>8 DEF UsageShownInv, Current
<1>18. UsageReadInv'
  BY <1>0, <1>1, <1>11, ReadsAre DEF UsageReadInv, Taken
<1> QED  BY <1>7, <1>10, <1>12, <1>13, <1>14, <1>15, <1>16, <1>17, <1>18, PartsOf, PTL

\* A read is asked for, and nothing else changes.
LEMMA AskKeeps ==
  ASSUME ViewInv, NEW r \in Plain, read[r].at = "idle",
         read' = [read EXCEPT ![r] = [Idle EXCEPT !.at = "asked", !.usage = view.usage]],
         UNCHANGED <<now, turns, feed, lagged, opening, sent, view, waiting, removed, edits, stale, erased>>,
         r = "resync" => Resyncing /\ opening.at = "streams" /\ missed' = (missed \/ ~Registered),
         r # "resync" => Registered /\ missed' = missed,
         missed' \in BOOLEAN, actions' \in Nat
  PROVE  ViewInv'
<1>0. ViewTypes /\ OrderInv /\ PhaseInv /\ TurnInv /\ DiscardInv /\ ActualInv /\ WholeInv /\ TurnShownInv /\ UsageShownInv /\ UsageReadInv
  BY PartsOf
<1>1. r \in Reads /\ r \notin Edits /\ "resync" \notin Slots \cup Edits
  BY ReadsAre, ViewAssumption DEF Edits, Plain
<1>2. read'[r] = [at |-> "asked", usage |-> view.usage, snap |-> Blank, late |-> FALSE, crossed |-> FALSE, gone |-> FALSE]
  BY <1>0, <1>1 DEF Idle, ViewTypes
<1>3. /\ read'[r].at = "asked" /\ read'[r].usage = view.usage /\ read'[r].snap = Blank /\ ~Taken(r)'
      /\ \A q \in Reads : q # r => read'[q] = read[q] /\ (Taken(q)' <=> Taken(q))
  <2>1. \A q \in Reads : q # r => read'[q] = read[q]
    BY <1>0, <1>1 DEF ViewTypes
  <2>2. \A q \in Reads : q # r => (Taken(q)' <=> Taken(q))
    BY <2>1 DEF Taken
  <2>3. read'[r].at = "asked" /\ read'[r].usage = view.usage /\ read'[r].snap = Blank
    BY ONLY <1>2
  <2>4. ~Taken(r)'
    BY <2>3 DEF Taken
  <2> QED  BY <2>1, <2>2, <2>3, <2>4
<1>4. Under' = Under /\ Coming' = Coming /\ OrderInv' /\ (Registered' <=> Registered) /\ (Resyncing' <=> Resyncing) /\ (Current' <=> Current)
  BY <1>0, UnderIs, PhasesAre DEF Current
<1>5. Blank \in Snaps /\ Blank.usage = 0 /\ view.usage \in Nat
  BY <1>0, NumbersAre DEF Blank, Snaps
<1>6. ViewTypes'
  <2>1. read'[r] \in ReadRecords
    <3>1. \A n \in Nat, s \in Snaps :
            [at |-> "asked", usage |-> n, snap |-> s, late |-> FALSE, crossed |-> FALSE, gone |-> FALSE] \in ReadRecords
      BY DEF ReadRecords
    <3> QED  BY <3>1, <1>2, <1>5
  <2>2. read' \in [Reads -> ReadRecords]
    BY <2>1, <1>0, <1>1 DEF ViewTypes
  <2> QED  BY <2>2, <1>0 DEF ViewTypes
<1>7. PhaseInv'
  <2>1. read'["resync"].at # "idle" => Resyncing /\ (~Registered => missed')
    BY <1>0, <1>3, ReadsAre DEF PhaseInv
  <2>2. \A q \in Reads : read'[q].at = "history" => q = "reload"
    BY <1>0, <1>3 DEF PhaseInv
  <2>3. ~Registered => \A q \in Reads : q # "resync" => read'[q].at = "idle"
    BY <1>0, <1>3 DEF PhaseInv
  <2>4. opening.at = "streams"
    BY <1>0 DEF PhaseInv
  <2> QED  BY <2>1, <2>2, <2>3, <2>4, <1>0, <1>4 DEF PhaseInv
<1>8. DiscardInv'
  <2>1. \A q \in Edits : q # r /\ read'[q] = read[q] /\ (Taken(q)' <=> Taken(q))
    BY <1>1, <1>3, ReadsAre
  <2>2. \A q \in Plain : Taken(q)' => read'[q] = read[q] /\ Taken(q)
    BY <1>3, ReadsAre
  <2>3. read'["revert"] = read["revert"] /\ read'["reload"] = read["reload"] /\ (Taken("revert")' <=> Taken("revert"))
    BY <2>1 DEF Edits
  <2> SUFFICES ASSUME Registered PROVE DiscardInv'
    BY <1>4 DEF DiscardInv
  <2>4. \A q \in Edits : Taken(q)' => /\ read'[q].snap.last \notin view.discarded
                                      /\ read'[q].snap.turn \notin view.discarded
                                      /\ (q = "revert" \/ read'[q].gone) => read'[q].snap.last \notin removed /\ read'[q].snap.turn \notin removed
    BY <2>1, <1>0 DEF DiscardInv
  <2>5. \A q \in Plain : Taken(q)' /\ ~read'[q].crossed => read'[q].snap.last \notin view.discarded /\ read'[q].snap.turn \notin view.discarded
    BY <2>2, <1>0 DEF DiscardInv
  <2> QED  BY <2>3, <2>4, <2>5, <1>0, <1>4 DEF DiscardInv
<1>9. TurnInv' /\ ActualInv'
  <2>1. Dated(view.usage) /\ Dated(opening.snap.usage) /\ Dated(0)
    BY <1>0, NumbersAre DEF ActualInv, Dated
  <2>2. \A q \in Reads : Dated(read'[q].usage) /\ Dated(read'[q].snap.usage)
    BY <2>1, <1>0, <1>3, <1>5 DEF ActualInv
  <2> QED  BY <2>1, <2>2, <1>0, <1>4, SessionRests
<1>10. WholeInv'
  BY <1>0, <1>4 DEF WholeInv
<1>11. TurnShownInv'
  <2>1. \A q \in Reads : Taken(q)' => read'[q] = read[q] /\ Taken(q)
    BY <1>3
  <2>2. missed => missed'
    BY DEF Plain
  <2> QED  BY <2>1, <2>2, <1>0, <1>4, ReadsAre DEF TurnShownInv
<1>12. UsageShownInv'
  BY <1>0, <1>4 DEF UsageShownInv
<1>13. UsageReadInv'
  <2>1. \A q \in Reads : Taken(q)' => read'[q] = read[q] /\ Taken(q)
    BY <1>3
  <2>2. read'["resync"].at # "idle" /\ ~read'["resync"].crossed /\ ~missed' => view.usage = read'["resync"].usage
    BY <1>0, <1>3, ReadsAre DEF UsageReadInv
  <2> QED  BY <2>1, <2>2, <1>0, <1>4, ReadsAre DEF UsageReadInv
<1> QED  BY <1>4, <1>6, <1>7, <1>8, <1>9, <1>10, <1>11, <1>12, <1>13, PartsOf, PTL

LEMMA HearResyncKeeps == ASSUME ViewInv, HearResync PROVE ViewInv'
<1>1. ViewTypes /\ PhaseInv
  BY PartsOf
<1>2. Resyncing /\ opening.at = "streams"
  BY <1>1 DEF HearResync, Resyncing, Resync, ViewTypes, ViewEvents, Kinds, Nothing, Event, PhaseInv
<1>3. "resync" \in Plain
  BY DEF Plain
<1>4. (missed \/ ~Registered) \in BOOLEAN
  OBVIOUS
<1> QED  BY <1>1, <1>2, <1>3, <1>4, AskKeeps DEF HearResync, ViewTypes

LEMMA ActKeeps == ASSUME ViewInv, NEW r \in Slots, Act(r) PROVE ViewInv'
<1>1. r \in Plain /\ r # "resync" /\ actions' \in Nat /\ missed \in BOOLEAN
  BY PartsOf, ViewAssumption DEF Act, ViewTypes, Plain
<1> QED  BY <1>1, AskKeeps DEF Act

LEMMA TakeKeeps == ASSUME ViewInv, NEW r \in Reads, TakeSnapshot(r) PROVE ViewInv'
<1>0. ViewTypes /\ OrderInv /\ PhaseInv /\ TurnInv /\ DiscardInv /\ ActualInv /\ WholeInv /\ TurnShownInv /\ UsageShownInv /\ UsageReadInv
  BY PartsOf
<1>1. /\ UNCHANGED <<now, turns, feed, lagged, opening, sent, view, waiting, removed, actions, edits, stale, erased, missed>>
      /\ r # "revert" /\ read[r].at = "asked" /\ read' = [read EXCEPT ![r] = [@ EXCEPT !.at = "taken", !.snap = now]]
  BY <1>0 DEF TakeSnapshot, ViewTypes
<1>2. read[r] \in ReadRecords /\ now \in Snaps /\ read \in [Reads -> ReadRecords]
  BY <1>0, NumbersAre DEF ViewTypes
<1>3. read'[r] = [read[r] EXCEPT !.at = "taken", !.snap = now] /\ (\A q \in Reads : q # r => read'[q] = read[q])
  BY ONLY <1>1, <1>2
<1>4. /\ read'[r].at = "taken" /\ read'[r].snap = now /\ read'[r].usage = read[r].usage /\ read'[r].late = read[r].late
      /\ read'[r].crossed = read[r].crossed /\ read'[r].gone = read[r].gone /\ read'[r] \in ReadRecords
  BY ONLY <1>2, <1>3 DEF ReadRecords
<1>5. Taken(r)' /\ (\A q \in Reads : q # r => (Taken(q)' <=> Taken(q)))
  BY <1>3, <1>4 DEF Taken
<1>6. Under' = Under /\ Coming' = Coming /\ OrderInv' /\ (Registered' <=> Registered) /\ (Resyncing' <=> Resyncing) /\ (Current' <=> Current)
  BY <1>0, <1>1, UnderIs, PhasesAre DEF Current
<1>7. ViewTypes'
  <2>1. read' \in [Reads -> ReadRecords]
    BY ONLY <1>1, <1>2, <1>3, <1>4
  <2> QED  BY <2>1, <1>0, <1>1 DEF ViewTypes
<1>8. PhaseInv'
  <2>1. \A q \in Reads : /\ read'[q].at = "idle" <=> read[q].at = "idle"
                         /\ read'[q].at = "history" => read[q].at = "history"
    BY <1>1, <1>3, <1>4
  <2> QED  BY <2>1, <1>0, <1>1, <1>6, ReadsAre DEF PhaseInv
<1>9. DiscardInv'
  <2> SUFFICES ASSUME Registered PROVE DiscardInv'
    BY <1>6 DEF DiscardInv
  <2>1. /\ now.turn \notin view.discarded /\ now.last \notin view.discarded /\ removed \subseteq 1 .. turns
        /\ now.turn = 0 \/ now.turn = now.last
    BY <1>0 DEF DiscardInv, TurnInv
  <2>2. read[r].gone /\ r = "reload" => now.last \notin removed /\ now.turn \notin removed
    BY <2>1, <1>0, <1>1 DEF DiscardInv
  <2>3. \A q \in Edits : Taken(q)' => /\ read'[q].snap.last \notin view.discarded
                                      /\ read'[q].snap.turn \notin view.discarded
                                      /\ (q = "revert" \/ read'[q].gone) => read'[q].snap.last \notin removed /\ read'[q].snap.turn \notin removed
    <3> SUFFICES ASSUME NEW q \in Edits, Taken(q)'
                 PROVE  /\ read'[q].snap.last \notin view.discarded
                        /\ read'[q].snap.turn \notin view.discarded
                        /\ (q = "revert" \/ read'[q].gone) => read'[q].snap.last \notin removed /\ read'[q].snap.turn \notin removed
      OBVIOUS
    <3>1. CASE q = r
      BY <3>1, <2>1, <2>2, <1>1, <1>4 DEF Edits
    <3>2. CASE q # r
      <4>1. read'[q] = read[q] /\ Taken(q)
        BY <3>2, <1>3, <1>5, ReadsAre
      <4> QED  BY <4>1, <1>0 DEF DiscardInv
    <3> QED  BY <3>1, <3>2
  <2>4. \A q \in Plain : Taken(q)' /\ ~read'[q].crossed => read'[q].snap.last \notin view.discarded /\ read'[q].snap.turn \notin view.discarded
    BY <2>1, <1>0, <1>3, <1>4, <1>5, ReadsAre DEF DiscardInv
  <2>5. /\ read'["revert"] = read["revert"] /\ (Taken("revert")' <=> Taken("revert"))
        /\ read'["reload"].at = "idle" <=> read["reload"].at = "idle"
        /\ read'["reload"].gone = read["reload"].gone
    BY <1>1, <1>3, <1>4, <1>5, ReadsAre
  <2> QED  BY <2>3, <2>4, <2>5, <1>0, <1>1, <1>6 DEF DiscardInv
<1>10. TurnInv' /\ ActualInv'
  <2>1. \A q \in Reads : Dated(read'[q].usage) /\ Dated(read'[q].snap.usage)
    BY <1>0, <1>3, <1>4 DEF ActualInv
  <2> QED  BY <2>1, <1>0, <1>1, <1>6, SessionRests DEF ActualInv
<1>11. WholeInv'
  BY <1>0, <1>1, <1>6 DEF WholeInv
<1>12. TurnShownInv'
  <2>1. \A q \in Reads : Taken(q)' => q = r \/ (read'[q] = read[q] /\ Taken(q))
    BY <1>3, <1>5
  <2> QED  BY <2>1, <1>0, <1>1, <1>4, <1>6, ReadsAre, ArrivedAlready DEF TurnShownInv
<1>13. UsageShownInv'
  BY <1>0, <1>1, <1>6 DEF UsageShownInv
<1>14. UsageReadInv'
  <2>1. \A q \in Reads : Taken(q)' => q = r \/ (read'[q] = read[q] /\ Taken(q))
    BY <1>3, <1>5
  <2>2. /\ read'["resync"].at = "idle" <=> read["resync"].at = "idle"
        /\ read'["resync"].crossed = read["resync"].crossed /\ read'["resync"].usage = read["resync"].usage
    BY <1>1, <1>3, <1>4, ReadsAre
  <2> QED  BY <2>1, <2>2, <1>0, <1>1, <1>4, <1>6, ReadsAre, ArrivedAlready DEF UsageReadInv
<1> QED  BY <1>6, <1>7, <1>8, <1>9, <1>10, <1>11, <1>12, <1>13, <1>14, PartsOf, PTL

-----------------------------------------------------------------------------
(* Snapshots.                                                              *)

LEMMA ApplyMeans ==
  ASSUME NEW v \in Views, NEW s \in Snaps, NEW u
  PROVE  LET w == Apply(v, s, u)
         IN  /\ w \in Views /\ w.discarded = v.discarded
             /\ w.turn = IF s.turn \in v.discarded THEN 0 ELSE s.turn
             /\ w.usage = IF s.last \in v.discarded THEN 0
                          ELSE IF v.usage # u \/ s.usage = 0 THEN v.usage ELSE s.usage
<1>1. v = [turn |-> v.turn, usage |-> v.usage, discarded |-> v.discarded] /\ v.turn \in Nat /\ v.usage \in Nat /\ v.discarded \in SUBSET Nat
  BY DEF Views
<1>2. s.turn \in Nat /\ s.usage \in Nat
  BY DEF Snaps
<1> DEFINE t == IF s.turn \in v.discarded THEN 0 ELSE s.turn
           x == IF s.last \in v.discarded THEN 0 ELSE IF v.usage # u \/ s.usage = 0 THEN v.usage ELSE s.usage
<1>3. t \in Nat /\ x \in Nat
  BY <1>1, <1>2
<1>4. Apply(v, s, u) = [[v EXCEPT !.turn = t] EXCEPT !.usage = x]
  BY <1>1 DEF Apply
<1> HIDE DEF t, x
<1>5. Apply(v, s, u) = [turn |-> t, usage |-> x, discarded |-> v.discarded]
  BY <1>1, <1>4
<1> QED  BY <1>1, <1>3, <1>5 DEF Views, t, x

\* A snapshot that is applied crosses the others, and makes them late.
LEMMA CrossedMeans ==
  ASSUME ViewTypes, NEW r \in Reads, read' = Crossed(r)
  PROVE  /\ read' \in [Reads -> ReadRecords]
         /\ read'[r] = Idle /\ read'[r].at = "idle" /\ ~Taken(r)' /\ read'[r].usage = 0 /\ read'[r].snap = Blank
         /\ \A q \in Reads : q # r =>
              /\ read'[q].at = read[q].at /\ read'[q].usage = read[q].usage /\ read'[q].snap = read[q].snap /\ read'[q].gone = read[q].gone
              /\ read'[q].late = Taken(q) /\ (read'[q].crossed <=> read[q].at # "idle") /\ (Taken(q)' <=> Taken(q))
<1>1. \A q \in Reads : read[q] \in ReadRecords
  BY NumbersAre
<1>2. Blank \in Snaps
  BY DEF Blank, Snaps
<1>3. Idle \in ReadRecords
  BY <1>2 DEF Idle, ReadRecords
<1>4. read'[r] = Idle /\ read' = [q \in Reads |-> read'[q]]
  BY DEF Crossed
<1>5. ASSUME NEW q \in Reads, q # r
      PROVE  /\ read'[q].at = read[q].at /\ read'[q].usage = read[q].usage /\ read'[q].snap = read[q].snap /\ read'[q].gone = read[q].gone
             /\ read'[q].late = Taken(q) /\ (read'[q].crossed <=> read[q].at # "idle") /\ read'[q] \in ReadRecords
  <2> DEFINE l == Taken(q)
             c == read[q].at # "idle"
  <2>1. l \in BOOLEAN /\ c \in BOOLEAN
    BY DEF Taken
  <2>2. read'[q] = [[read[q] EXCEPT !.late = l] EXCEPT !.crossed = c]
    BY <1>5 DEF Crossed, Taken
  <2>3. read[q] \in ReadRecords
    BY <1>1
  <2> HIDE DEF l, c
  <2>4. /\ read'[q].at = read[q].at /\ read'[q].usage = read[q].usage /\ read'[q].snap = read[q].snap /\ read'[q].gone = read[q].gone
        /\ read'[q].late = l /\ read'[q].crossed = c /\ read'[q] \in ReadRecords
    BY ONLY <2>1, <2>2, <2>3 DEF ReadRecords
  <2> QED  BY <2>4 DEF l, c
<1>6. read' \in [Reads -> ReadRecords]
  BY <1>3, <1>4, <1>5
<1>7. read'[r].at = "idle" /\ read'[r].usage = 0 /\ read'[r].snap = Blank /\ ~Taken(r)'
  BY ONLY <1>4 DEF Idle, Taken
<1>8. \A q \in Reads : q # r => (Taken(q)' <=> Taken(q))
  BY <1>5 DEF Taken
<1> QED  BY <1>4, <1>5, <1>6, <1>7, <1>8

\* What is left to show of the reads that a snapshot has crossed.
LEMMA OthersAreLate ==
  ASSUME ViewTypes, TurnShownInv, UsageReadInv, NEW r \in Reads, read' = Crossed(r),
         UNCHANGED <<now, lagged>>, Under' = Under
  PROVE  /\ \A q \in Slots \cup Edits : Taken(q)' => read'[q].late
         /\ \A q \in Plain : Taken(q)' => read'[q].crossed
         /\ read'["resync"].at # "idle" => read'["resync"].crossed
         /\ Taken("resync")' /\ ~lagged' => TurnFollows(read'["resync"].snap.turn, now'.turn, Under')
         /\ UsageReadInv'
<1>1. \A q \in Slots \cup Edits : Taken(q)' => read'[q].late
  BY CrossedMeans, ReadsAre
<1>2. \A q \in Plain : Taken(q)' => read'[q].crossed
  BY CrossedMeans, ReadsAre DEF Taken
<1>3. read'["resync"].at # "idle" => read'["resync"].crossed
  BY CrossedMeans, ReadsAre
<1>4. Taken("resync")' /\ ~lagged' => TurnFollows(read'["resync"].snap.turn, now'.turn, Under')
  BY CrossedMeans, ReadsAre DEF TurnShownInv
<1>5. \A q \in Edits : Taken(q)' => (now'.usage = 0 => read'[q].snap.usage = 0)
  BY CrossedMeans, ReadsAre DEF UsageReadInv
<1>6. UsageReadInv'
  BY <1>1, <1>2, <1>3, <1>5, ReadsAre DEF UsageReadInv, Plain
<1> QED  BY <1>1, <1>2, <1>3, <1>4, <1>6

LEMMA AppliedUnder ==
  ASSUME ViewTypes, OrderInv, PhaseInv, NEW r \in Plain, Taken(r),
         UNCHANGED <<feed, waiting, lagged>>, sent' = IF r = "resync" THEN Nothing ELSE sent
  PROVE  /\ SentSet' = SentSet /\ Under' = Under /\ Coming' = Coming /\ OrderInv'
         /\ r = "resync" => Resyncing /\ ~Resyncing' /\ sent' = Nothing
         /\ r # "resync" => sent' = sent /\ (Resyncing' <=> Resyncing) /\ (Current' <=> Current)
<1>1. CASE r = "resync"
  <2>1. Resyncing /\ SentSet = {}
    BY <1>1, SentMeans DEF PhaseInv, Taken
  <2>2. sent' = Nothing /\ SentSet' = {} /\ ~Resyncing'
    BY <1>1 DEF SentSet, Resyncing, Nothing, Resync, Event, Kinds
  <2>3. Members(feed)' = Members(feed) /\ Members(waiting)' = Members(waiting)
    BY DEF Members
  <2>4. Under' = Under /\ Coming' = Coming
    BY <2>1, <2>2, <2>3 DEF Under, Coming
  <2>5. OrderInv'
    BY <2>1, <2>2, <2>3, <2>4 DEF OrderInv, Increasing
  <2> QED  BY <1>1, <2>1, <2>2, <2>4, <2>5
<1>2. CASE r # "resync"
  <2>1. sent' = sent
    BY <1>2
  <2> QED  BY <1>2, <2>1, UnderIs DEF Resyncing, Resync, Current
<1> QED  BY <1>1, <1>2

\* The answer to a resynchronization that began before the chat was registered.
LEMMA IgnoredKeeps ==
  ASSUME ViewInv, NEW r \in Reads, ApplySnapshot(r), ~Registered
  PROVE  ViewInv'
<1>0. ViewTypes /\ OrderInv /\ PhaseInv /\ TurnInv /\ DiscardInv /\ ActualInv /\ WholeInv /\ TurnShownInv /\ UsageShownInv /\ UsageReadInv
  BY PartsOf
<1>1. /\ UNCHANGED <<now, turns, feed, lagged, opening, waiting, removed, actions, edits, erased, missed, view, stale>>
      /\ r \in Plain /\ Taken(r) /\ read' = Crossed(r) /\ sent' = IF r = "resync" THEN Nothing ELSE sent
  BY DEF ApplySnapshot, Plain, Taken
<1>2. r = "resync" /\ missed /\ opening.at = "streams"
  BY <1>0, <1>1 DEF PhaseInv, Taken
<1>3. SentSet' = SentSet /\ Under' = Under /\ Coming' = Coming /\ OrderInv' /\ sent' = Nothing /\ ~Resyncing'
  BY <1>0, <1>1, <1>2, AppliedUnder
<1>4. (Registered' <=> Registered) /\ ~Registered
  BY <1>1 DEF Registered, NoView
<1>5. /\ read' \in [Reads -> ReadRecords]
      /\ read'[r].at = "idle" /\ ~Taken(r)' /\ read'[r].usage = 0 /\ read'[r].snap = Blank
      /\ \A q \in Reads : q # r =>
           /\ read'[q].at = read[q].at /\ read'[q].usage = read[q].usage /\ read'[q].snap = read[q].snap
  BY <1>0, <1>1, CrossedMeans
<1>6. \A q \in Reads : read'[q].at = "idle"
  BY <1>0, <1>2, <1>4, <1>5 DEF PhaseInv
<1>7. ViewTypes'
  BY <1>0, <1>1, <1>3, <1>5 DEF ViewTypes
<1>8. PhaseInv'
  BY <1>0, <1>1, <1>2, <1>3, <1>4, <1>6, ReadsAre DEF PhaseInv
<1>9. DiscardInv'
  BY <1>4 DEF DiscardInv
<1>10. TurnInv' /\ ActualInv'
  <2>1. Dated(0)
    BY <1>0, NumbersAre DEF Dated
  <2>2. \A q \in Reads : Dated(read'[q].usage) /\ Dated(read'[q].snap.usage)
    BY <2>1, <1>0, <1>5 DEF ActualInv, Blank
  <2> QED  BY <2>2, <1>0, <1>1, <1>3, SessionRests DEF ActualInv
<1>11. WholeInv'
  BY <1>0, <1>1, <1>2, <1>3 DEF WholeInv
<1>12. TurnShownInv'
  BY <1>1, <1>2, <1>4, <1>6, ReadsAre DEF TurnShownInv, Taken
<1>13. UsageShownInv'
  BY <1>0, <1>1, <1>2, <1>4 DEF UsageShownInv
<1>14. UsageReadInv'
  BY <1>6, ReadsAre DEF UsageReadInv, Taken
<1> QED  BY <1>3, <1>7, <1>8, <1>9, <1>10, <1>11, <1>12, <1>13, <1>14, PartsOf, PTL

\* The chat takes what the snapshot of an action or of a resynchronization says.
LEMMA ApplyKeeps ==
  ASSUME ViewInv, NEW r \in Reads, ApplySnapshot(r), Registered
  PROVE  ViewInv'
<1>0. ViewTypes /\ OrderInv /\ PhaseInv /\ TurnInv /\ DiscardInv /\ ActualInv /\ WholeInv /\ TurnShownInv /\ UsageShownInv /\ UsageReadInv
  BY PartsOf
<1>1. /\ UNCHANGED <<now, turns, feed, lagged, opening, waiting, removed, actions, edits, erased, missed>>
      /\ r \in Plain /\ Taken(r) /\ read' = Crossed(r) /\ sent' = IF r = "resync" THEN Nothing ELSE sent
      /\ view' = Apply(view, read[r].snap, read[r].usage)
      /\ stale' = (stale \ {"turn"}) \cup ((IF r \in Slots /\ read[r].late THEN {"turn"} ELSE {}) \cup (IF read[r].crossed THEN {"usage"} ELSE {}))
  BY DEF ApplySnapshot, Plain, Taken, Shows
<1>2. opening.at = "streams" /\ 0 \notin view.discarded /\ waiting = <<>>
  BY <1>0, RegisteredMeans DEF PhaseInv
<1>3. /\ SentSet' = SentSet /\ Under' = Under /\ Coming' = Coming /\ OrderInv'
      /\ r = "resync" => Resyncing /\ ~Resyncing' /\ sent' = Nothing
      /\ r # "resync" => sent' = sent /\ (Resyncing' <=> Resyncing) /\ (Current' <=> Current)
  BY <1>0, <1>1, AppliedUnder
<1>4. read[r].snap \in Snaps /\ view \in Views /\ (r # "resync" => r \in Slots)
  BY <1>0, <1>1, NumbersAre DEF ViewTypes, Plain
<1>5. /\ view' \in Views /\ view'.discarded = view.discarded
      /\ view'.turn = IF read[r].snap.turn \in view.discarded THEN 0 ELSE read[r].snap.turn
      /\ view'.usage = IF read[r].snap.last \in view.discarded THEN 0
                       ELSE IF view.usage # read[r].usage \/ read[r].snap.usage = 0 THEN view.usage ELSE read[r].snap.usage
  BY <1>1, <1>4, ApplyMeans
<1>6. Registered'
  BY <1>2, <1>5, IsRegistered DEF Registered, NoView
<1>7. /\ read' \in [Reads -> ReadRecords]
      /\ read'[r].at = "idle" /\ ~Taken(r)' /\ read'[r].usage = 0 /\ read'[r].snap = Blank
      /\ \A q \in Reads : q # r =>
           /\ read'[q].at = read[q].at /\ read'[q].usage = read[q].usage /\ read'[q].snap = read[q].snap /\ read'[q].gone = read[q].gone
           /\ (Taken(q)' <=> Taken(q))
  BY <1>0, <1>1, CrossedMeans
<1>8. /\ \A q \in Slots \cup Edits : Taken(q)' => read'[q].late
      /\ \A q \in Plain : Taken(q)' => read'[q].crossed
      /\ read'["resync"].at # "idle" => read'["resync"].crossed
      /\ Taken("resync")' /\ ~lagged' => TurnFollows(read'["resync"].snap.turn, now'.turn, Under')
      /\ UsageReadInv'
  BY <1>0, <1>1, <1>3, OthersAreLate
<1>9. r \notin Edits /\ (r = "resync" => r \notin Slots)
  BY <1>1, ViewAssumption DEF Edits, Plain
<1>10. ViewTypes'
  <2>1. stale' \in SUBSET {"turn", "usage"} /\ sent' \in ViewEvents \cup {Nothing, Event("resync", 0)}
    BY <1>0, <1>1 DEF ViewTypes
  <2> QED  BY <2>1, <1>0, <1>1, <1>5, <1>7 DEF ViewTypes
<1>11. PhaseInv'
  <2>1. read'["resync"].at # "idle" => Resyncing'
    BY <1>0, <1>3, <1>7, ReadsAre DEF PhaseInv
  <2>2. \A q \in Reads : read'[q].at = "history" => q = "reload"
    BY <1>0, <1>7 DEF PhaseInv
  <2> QED  BY <2>1, <2>2, <1>0, <1>1, <1>2, <1>6 DEF PhaseInv
<1>12. DiscardInv'
  <2>1. view'.turn \notin view.discarded
    BY <1>2, <1>5
  <2>2. \A q \in Edits : /\ q \in Reads /\ q # r /\ read'[q].at = read[q].at /\ read'[q].gone = read[q].gone /\ (Taken(q)' <=> Taken(q))
                         /\ read'[q].snap = read[q].snap
    BY <1>7, <1>9, ReadsAre
  <2>3. {"revert", "reload"} \subseteq Edits
    BY DEF Edits
  <2>4. \A q \in Edits : Taken(q)' => /\ read'[q].snap.last \notin view.discarded
                                      /\ read'[q].snap.turn \notin view.discarded
                                      /\ (q = "revert" \/ read'[q].gone) => read'[q].snap.last \notin removed /\ read'[q].snap.turn \notin removed
    BY <2>2, <1>0 DEF DiscardInv
  <2> QED  BY <2>1, <2>2, <2>3, <2>4, <1>0, <1>1, <1>5, <1>6, <1>8 DEF DiscardInv
<1>13. TurnInv' /\ ActualInv'
  <2>1. Dated(0) /\ Dated(view'.usage)
    BY <1>0, <1>5, NumbersAre DEF Dated, ActualInv
  <2>2. \A q \in Reads : Dated(read'[q].usage) /\ Dated(read'[q].snap.usage)
    BY <2>1, <1>0, <1>7 DEF ActualInv, Blank
  <2> QED  BY <2>1, <2>2, <1>0, <1>1, <1>3, SessionRests DEF ActualInv
<1>14. WholeInv'
  BY <1>0, <1>1, <1>3, <1>6 DEF WholeInv
<1>15. TurnShownInv'
  <2>1. ASSUME Current', ~missed, "turn" \notin stale' PROVE TurnFollows(view'.turn, now.turn, Under)
    <3>1. TurnFollows(read[r].snap.turn, now.turn, Under)
      <4>1. CASE r = "resync"
        BY <4>1, <2>1, <1>0, <1>1 DEF TurnShownInv, Current
      <4>2. CASE r # "resync"
        BY <4>2, <2>1, <1>0, <1>1, <1>3, <1>4 DEF TurnShownInv
      <4> QED  BY <4>1, <4>2
    <3>2. CASE read[r].snap.turn \in view.discarded
      <4>1. view'.turn = 0 /\ read[r].snap.turn # now.turn
        BY <3>2, <1>0, <1>5 DEF DiscardInv
      <4> QED  BY <4>1, <3>1 DEF TurnFollows
    <3>3. CASE read[r].snap.turn \notin view.discarded
      BY <3>1, <3>3, <1>5
    <3> QED  BY <3>2, <3>3
  <2> QED  BY <2>1, <1>1, <1>3, <1>6, <1>8 DEF TurnShownInv
<1>16. UsageShownInv'
  <2>1. ASSUME removed = {}, "usage" \notin stale'
        PROVE  /\ "usage" \notin stale /\ ~read[r].crossed
               /\ read[r].snap.last \notin view.discarded
               /\ now.usage = 0 => read[r].snap.usage = 0
               /\ read[r].snap.usage # now.usage => read[r].usage # now.usage
               /\ now.usage = 0 => view.usage = 0
               /\ view'.usage = IF view.usage # read[r].usage \/ read[r].snap.usage = 0 THEN view.usage ELSE read[r].snap.usage
    <3>1. "usage" \notin stale /\ ~read[r].crossed
      BY <1>1, <2>1
    <3>2. read[r].snap.last \notin view.discarded
      BY <3>1, <1>0, <1>1 DEF DiscardInv
    <3>3. /\ now.usage = 0 => read[r].snap.usage = 0
          /\ read[r].snap.usage # now.usage => read[r].usage # now.usage
      BY <3>1, <2>1, <1>0, <1>1 DEF UsageReadInv
    <3>4. now.usage = 0 => view.usage = 0
      BY <3>1, <2>1, <1>0 DEF UsageShownInv
    <3> QED  BY <3>1, <3>2, <3>3, <3>4, <1>5
  <2>2. ASSUME removed = {}, "usage" \notin stale', now.usage = 0 PROVE view'.usage = 0
    BY <2>1, <2>2
  <2>3. ASSUME Current', ~missed, removed = {}, "usage" \notin stale' PROVE UsageFollows(view'.usage, now.usage, Under)
    <3>1. CASE r = "resync"
      <4>1. view.usage = read[r].usage /\ UsageFollows(read[r].snap.usage, now.usage, Under)
        BY <3>1, <2>1, <2>3, <1>0, <1>1 DEF UsageReadInv, Current, Taken
      <4>2. CASE read[r].snap.usage # 0
        <5>1. view'.usage = read[r].snap.usage
          BY <4>1, <4>2, <2>1, <2>3
        <5> QED  BY <4>1, <5>1
      <4>3. CASE read[r].snap.usage = 0
        BY <4>1, <4>3, <2>1, <2>3 DEF UsageFollows
      <4> QED  BY <4>2, <4>3
    <3>2. CASE r # "resync"
      <4>1. UsageFollows(view.usage, now.usage, Under)
        BY <3>2, <2>1, <2>3, <1>0, <1>3 DEF UsageShownInv
      <4> QED  BY <4>1, <2>1, <2>3 DEF UsageFollows
    <3> QED  BY <3>1, <3>2
  <2> QED  BY <2>2, <2>3, <1>1, <1>3, <1>6 DEF UsageShownInv
<1> QED  BY <1>3, <1>8, <1>10, <1>11, <1>12, <1>13, <1>14, <1>15, <1>16, PartsOf, PTL

-----------------------------------------------------------------------------
(* The edit of a message.                                                  *)

LEMMA EditKeeps == ASSUME ViewInv, Edit PROVE ViewInv'
<1>0. ViewTypes /\ OrderInv /\ PhaseInv /\ TurnInv /\ DiscardInv /\ ActualInv /\ WholeInv /\ TurnShownInv /\ UsageShownInv /\ UsageReadInv
  BY PartsOf
<1>1. /\ UNCHANGED <<now, turns, feed, lagged, opening, sent, view, waiting, actions, stale, erased, missed>>
      /\ Registered /\ removed = {} /\ read' = [read EXCEPT !["revert"] = [Idle EXCEPT !.at = "asked"]] /\ edits' = edits + 1
  BY DEF Edit
<1>2. PICK first \in 1 .. turns : removed' = first .. turns /\ (\A t \in first .. turns : t \notin view.discarded)
  BY DEF Edit
<1>3. removed' # {} /\ removed' \subseteq 1 .. turns /\ removed' \cap view.discarded = {} /\ removed' \in SUBSET Nat
  BY <1>0, <1>2, NumbersAre
<1>4. "revert" \in Reads /\ "reload" \in Reads /\ "resync" \in Reads /\ "revert" \notin Plain /\ Edits = {"revert", "reload"}
  BY ReadsAre, ViewAssumption DEF Plain, Edits
<1>5. read \in [Reads -> ReadRecords]
  BY <1>0 DEF ViewTypes
<1>6. Blank \in Snaps /\ Blank.usage = 0
  BY DEF Blank, Snaps
<1>7. read'["revert"] = [at |-> "asked", usage |-> 0, snap |-> Blank, late |-> FALSE, crossed |-> FALSE, gone |-> FALSE]
      /\ (\A q \in Reads : q # "revert" => read'[q] = read[q])
  BY ONLY <1>1, <1>4, <1>5 DEF Idle
<1>8. /\ read'["revert"].at = "asked" /\ read'["revert"].usage = 0 /\ read'["revert"].snap = Blank /\ read'["revert"] \in ReadRecords
  BY ONLY <1>6, <1>7 DEF ReadRecords
<1>9. ~Taken("revert")' /\ (\A q \in Reads : q # "revert" => (Taken(q)' <=> Taken(q)))
  BY <1>7, <1>8 DEF Taken
<1>10. \A q \in Reads : Taken(q)' => read'[q] = read[q] /\ Taken(q)
  BY <1>7, <1>9
<1>11. Under' = Under /\ Coming' = Coming /\ OrderInv' /\ (Registered' <=> Registered) /\ (Resyncing' <=> Resyncing) /\ (Current' <=> Current)
  BY <1>0, <1>1, UnderIs, PhasesAre DEF Current
<1>12. read["reload"].at = "idle" /\ opening.at = "streams" /\ waiting = <<>>
  BY <1>0, <1>1 DEF DiscardInv, PhaseInv
<1>13. ViewTypes'
  <2>1. read' \in [Reads -> ReadRecords]
    BY ONLY <1>1, <1>4, <1>5, <1>7, <1>8
  <2> QED  BY <2>1, <1>0, <1>1, <1>3 DEF ViewTypes
<1>14. PhaseInv'
  <2>1. read'["resync"] = read["resync"] /\ (\A q \in Reads : read'[q].at = "history" => q = "reload")
    BY <1>0, <1>4, <1>7, <1>8 DEF PhaseInv
  <2> QED  BY <2>1, <1>0, <1>1, <1>11, <1>12 DEF PhaseInv
<1>15. DiscardInv'
  <2>1. read'["reload"].at = "idle"
    BY <1>4, <1>7, <1>12
  <2>2. \A q \in Edits : ~Taken(q)'
    BY <2>1, <1>4, <1>9 DEF Taken
  <2>3. \A q \in Plain : Taken(q)' /\ ~read'[q].crossed => read'[q].snap.last \notin view.discarded /\ read'[q].snap.turn \notin view.discarded
    BY <1>0, <1>1, <1>10, ReadsAre DEF DiscardInv
  <2> QED  BY <2>1, <2>2, <2>3, <1>0, <1>1, <1>3, <1>8, <1>9, <1>11 DEF DiscardInv
<1>16. TurnInv' /\ ActualInv'
  <2>1. Dated(0)
    BY <1>0, NumbersAre DEF Dated
  <2>2. \A q \in Reads : Dated(read'[q].usage) /\ Dated(read'[q].snap.usage)
    BY <2>1, <1>0, <1>6, <1>7, <1>8 DEF ActualInv
  <2> QED  BY <2>2, <1>0, <1>1, <1>11, SessionRests DEF ActualInv
<1>17. WholeInv'
  BY <1>0, <1>1, <1>11 DEF WholeInv
<1>18. TurnShownInv'
  BY <1>0, <1>1, <1>10, <1>11, ReadsAre DEF TurnShownInv
<1>19. UsageShownInv'
  BY <1>0, <1>1, <1>3, <1>11 DEF UsageShownInv
<1>20. UsageReadInv'
  <2>1. read'["resync"] = read["resync"]
    BY <1>4, <1>7
  <2> QED  BY <2>1, <1>0, <1>1, <1>3, <1>10, <1>11, ReadsAre DEF UsageReadInv
<1> QED  BY <1>11, <1>13, <1>14, <1>15, <1>16, <1>17, <1>18, <1>19, <1>20, PartsOf, PTL

\* The session removes the turns, or what it answers is lost, or it refuses.
LEMMA RevertKeeps == ASSUME ViewInv, Revert PROVE ViewInv'
<1>0. ViewTypes /\ OrderInv /\ PhaseInv /\ TurnInv /\ DiscardInv /\ ActualInv /\ WholeInv /\ TurnShownInv /\ UsageShownInv /\ UsageReadInv
  BY PartsOf
<1>1. "revert" \in Reads /\ "reload" \in Reads /\ "resync" \in Reads /\ Edits = {"revert", "reload"} /\ "resync" \notin Edits
      /\ "revert" \notin Plain /\ "reload" \notin Plain
  BY ReadsAre, ViewAssumption DEF Plain, Edits
<1>2. /\ UNCHANGED <<turns, feed, lagged, opening, sent, view, waiting, removed, actions, edits, stale, missed>>
      /\ read["revert"].at = "asked"
      /\ \/ now.turn = 0 /\ now' = Blank /\ erased' = turns
         \/ now' = now /\ erased' = erased
      /\ \/ now' = Blank /\ read' = [read EXCEPT !["revert"] = [@ EXCEPT !.at = "taken", !.snap = now']]
         \/ read' = [read EXCEPT !["revert"] = Idle, !["reload"] = [Idle EXCEPT !.at = "history"]]
  BY DEF Revert
<1>3. /\ Registered /\ removed # {} /\ opening.at = "streams" /\ waiting = <<>> /\ read["reload"].at = "idle"
      /\ 0 \notin view.discarded /\ removed \subseteq 1 .. turns /\ 0 \notin removed
  <2>1. Registered /\ opening.at = "streams"
    BY <1>0, <1>1, <1>2 DEF PhaseInv
  <2>2. removed # {} /\ read["reload"].at = "idle" /\ removed \subseteq 1 .. turns
    BY <2>1, <1>0, <1>2 DEF DiscardInv
  <2> QED  BY <2>1, <2>2, <1>0, RegisteredMeans, NumbersAre DEF PhaseInv
<1>4. read \in [Reads -> ReadRecords] /\ Blank \in Snaps /\ Blank.turn = 0 /\ Blank.last = 0 /\ Blank.usage = 0
  BY <1>0 DEF ViewTypes, Blank, Snaps
<1>5. /\ now' \in Snaps /\ now'.turn = now.turn /\ (now'.last = now.last \/ now'.last = 0) /\ (now'.usage = now.usage \/ (now'.usage = 0 /\ now.turn = 0))
      /\ now'.turn # 0 => now' = now
      /\ erased' \in Nat /\ erased' <= turns /\ (erased' = erased \/ erased' = turns)
      /\ \/ now' = now /\ erased' = erased
         \/ now' = Blank /\ now.turn = 0 /\ erased' = turns
  <2>1. now \in Snaps /\ turns \in Nat /\ erased \in Nat /\ erased <= turns
    BY <1>0 DEF TurnInv, ViewTypes
  <2>2. CASE now' = now /\ erased' = erased
    BY <2>1, <2>2
  <2>3. CASE now' = Blank /\ now.turn = 0 /\ erased' = turns
    BY <2>1, <2>3, <1>4
  <2> QED  BY <2>2, <2>3, <1>2
<1>6. /\ \A q \in Reads \ Edits : read'[q] = read[q]
      /\ read' \in [Reads -> ReadRecords]
      /\ \/ /\ now' = Blank /\ read'["revert"].at = "taken" /\ read'["revert"].snap = Blank /\ read'["revert"].usage = read["revert"].usage
            /\ read'["reload"] = read["reload"]
         \/ /\ read'["revert"].at = "idle" /\ read'["revert"].snap = Blank /\ read'["revert"].usage = 0
            /\ read'["reload"].at = "history" /\ read'["reload"].snap = Blank /\ read'["reload"].usage = 0 /\ ~read'["reload"].gone
  <2>1. CASE now' = Blank /\ read' = [read EXCEPT !["revert"] = [@ EXCEPT !.at = "taken", !.snap = now']]
    <3>1. /\ \A q \in Reads : q # "revert" => read'[q] = read[q]
          /\ read'["revert"] = [read["revert"] EXCEPT !.at = "taken", !.snap = Blank] /\ read["revert"] \in ReadRecords
      BY ONLY <2>1, <1>1, <1>4
    <3>2. read'["revert"].at = "taken" /\ read'["revert"].snap = Blank /\ read'["revert"].usage = read["revert"].usage /\ read'["revert"] \in ReadRecords
      BY ONLY <3>1, <1>4 DEF ReadRecords
    <3>3. read' \in [Reads -> ReadRecords]
      BY ONLY <2>1, <3>1, <3>2, <1>4
    <3> QED  BY <2>1, <3>1, <3>2, <3>3, <1>1
  <2>2. CASE read' = [read EXCEPT !["revert"] = Idle, !["reload"] = [Idle EXCEPT !.at = "history"]]
    <3>1. /\ \A q \in Reads : q # "revert" /\ q # "reload" => read'[q] = read[q]
          /\ read'["revert"] = Idle /\ read'["reload"] = [Idle EXCEPT !.at = "history"]
      BY ONLY <2>2, <1>1, <1>4
    <3>2. /\ Idle \in ReadRecords /\ [Idle EXCEPT !.at = "history"] \in ReadRecords
          /\ read'["revert"].at = "idle" /\ read'["revert"].snap = Blank /\ read'["revert"].usage = 0
          /\ read'["reload"].at = "history" /\ read'["reload"].snap = Blank /\ read'["reload"].usage = 0 /\ ~read'["reload"].gone
      <4>1. Idle \in ReadRecords /\ Idle.at = "idle" /\ Idle.snap = Blank /\ Idle.usage = 0 /\ Idle.gone = FALSE
        BY ONLY <1>4 DEF ReadRecords, Idle
      <4>2. /\ read'["reload"] \in ReadRecords /\ read'["reload"].at = "history" /\ read'["reload"].snap = Blank
            /\ read'["reload"].usage = 0 /\ ~read'["reload"].gone
        BY ONLY <3>1, <4>1 DEF ReadRecords
      <4> QED  BY <3>1, <4>1, <4>2
    <3>3. read' \in [Reads -> ReadRecords]
      BY ONLY <2>2, <3>1, <3>2, <1>4
    <3> QED  BY <3>1, <3>2, <3>3, <1>1
  <2> QED  BY <2>1, <2>2, <1>2
<1>7. /\ \A q \in Plain : q \in Reads \ Edits /\ read'[q] = read[q] /\ (Taken(q)' <=> Taken(q))
      /\ ~Taken("reload")' /\ (Taken("revert")' => now' = Blank /\ read'["revert"].snap = Blank)
      /\ read'["reload"].at # "idle" => ~read'["reload"].gone
  BY <1>1, <1>3, <1>6, ReadsAre DEF Taken, Plain
<1>8. Under' = Under /\ Coming' = Coming /\ OrderInv' /\ (Registered' <=> Registered) /\ (Resyncing' <=> Resyncing) /\ (Current' <=> Current)
  BY <1>0, <1>2, UnderIs, PhasesAre DEF Current
<1>9. ViewTypes'
  BY <1>0, <1>2, <1>5, <1>6 DEF ViewTypes
<1>10. PhaseInv'
  <2>1. read'["resync"] = read["resync"]
    BY <1>1, <1>6
  <2>2. \A q \in Reads : read'[q].at = "history" => q = "reload"
    BY <1>0, <1>1, <1>6 DEF PhaseInv
  <2> QED  BY <2>1, <2>2, <1>0, <1>2, <1>3, <1>8 DEF PhaseInv
<1>11. TurnInv'
  BY <1>0, <1>2, <1>5, NumbersAre DEF TurnInv
<1>12. DiscardInv'
  <2>1. now'.turn \notin view.discarded /\ now'.last \notin view.discarded
    BY <1>0, <1>3, <1>5 DEF DiscardInv
  <2>2. \A q \in Edits : Taken(q)' => q = "revert" /\ read'[q].snap.turn = 0 /\ read'[q].snap.last = 0 /\ now'.last = 0
    BY <1>1, <1>4, <1>7
  <2>3. \A q \in Plain : Taken(q)' /\ ~read'[q].crossed => read'[q].snap.last \notin view.discarded /\ read'[q].snap.turn \notin view.discarded
    BY <1>0, <1>3, <1>7 DEF DiscardInv
  <2>4. (read'["revert"].at = "idle" \/ read'["reload"].at = "idle") /\ ~(read'["revert"].at = "idle" /\ read'["reload"].at = "idle")
    BY <1>3, <1>6
  <2> QED  BY <2>1, <2>2, <2>3, <2>4, <1>0, <1>1, <1>2, <1>3, <1>7, <1>8 DEF DiscardInv
<1>13. \A k \in Nat : Dated(k) => Dated(k)'
  BY <1>2, <1>5 DEF Dated
<1>14. ActualInv'
  <2>1. Dated(0)
    BY <1>0, NumbersAre DEF Dated
  <2>2. \A q \in Reads : Dated(read'[q].usage) /\ Dated(read'[q].snap.usage) /\ read'[q].usage \in Nat /\ read'[q].snap.usage \in Nat
    BY <2>1, <1>0, <1>1, <1>4, <1>6, NumbersAre DEF ActualInv
  <2>3. \A x \in Coming : Actual(x)'
    <3> SUFFICES ASSUME NEW x \in Coming PROVE Actual(x)'
      OBVIOUS
    <3>1. Actual(x) /\ x.turn \in Nat
      BY <1>0, SentMeans, EventIs DEF ActualInv
    <3>2. x.turn > erased' => now' = now /\ erased' = erased
      BY <3>1, <1>0, <1>5, NumbersAre DEF Actual
    <3> QED  BY <3>1, <3>2, <1>2, <1>5, <1>13 DEF Actual
  <2>4. Dated(now'.usage) /\ now'.usage \in Nat
    BY <2>1, <1>0, <1>5, NumbersAre DEF ActualInv
  <2> QED  BY <2>2, <2>3, <2>4, <1>0, <1>2, <1>8, <1>13, NumbersAre DEF ActualInv
<1>15. WholeInv'
  <2>1. \A E : E \subseteq Coming /\ Whole(E, now, erased) => Whole(E, now', erased')
    <3> SUFFICES ASSUME NEW E, E \subseteq Coming, Whole(E, now, erased) PROVE Whole(E, now', erased')
      OBVIOUS
    <3>1. \A x \in E : x.turn \in Nat /\ x.turn <= turns
      BY <1>0, SentMeans, EventIs, NumbersAre DEF ActualInv, Actual
    <3>2. CASE now' = now /\ erased' = erased
      BY <3>2
    <3>3. CASE now' = Blank /\ now.turn = 0 /\ erased' = turns
      BY <3>1, <3>3, <1>0, <1>4, NumbersAre DEF Whole
    <3> QED  BY <3>2, <3>3, <1>5
  <2>2. Under \subseteq Coming
    BY DEF Coming
  <2> QED  BY <2>1, <2>2, <1>0, <1>2, <1>3, <1>8 DEF WholeInv
<1>16. TurnShownInv'
  <2>1. \A q \in Edits : Taken(q)' => TurnFollows(read'[q].snap.turn, now'.turn, Under')
    BY <1>1, <1>4, <1>7, ArrivedAlready
  <2>2. \A q \in Slots : q \in Plain
    BY DEF Plain
  <2>3. "resync" \in Plain
    BY DEF Plain
  <2> QED  BY <2>1, <2>2, <2>3, <1>0, <1>2, <1>3, <1>5, <1>7, <1>8 DEF TurnShownInv
<1>17. UsageShownInv'
  BY <1>2, <1>3, <1>8 DEF UsageShownInv
<1>18. UsageReadInv'
  <2>1. \A q \in Edits : Taken(q)' => /\ now'.usage = 0 => read'[q].snap.usage = 0
                                      /\ UsageFollows(read'[q].snap.usage, now'.usage, Under')
    BY <1>1, <1>4, <1>7, ArrivedAlready
  <2>2. "resync" \in Plain
    BY DEF Plain
  <2> QED  BY <2>1, <2>2, <1>0, <1>2, <1>3, <1>7, <1>8 DEF UsageReadInv
<1> QED  BY <1>8, <1>9, <1>10, <1>11, <1>12, <1>14, <1>15, <1>16, <1>17, <1>18, PartsOf, PTL

LEMMA HistoryKeeps == ASSUME ViewInv, ReadHistory PROVE ViewInv'
<1>0. ViewTypes /\ OrderInv /\ PhaseInv /\ TurnInv /\ DiscardInv /\ ActualInv /\ WholeInv /\ TurnShownInv /\ UsageShownInv /\ UsageReadInv
  BY PartsOf
<1>1. "revert" \in Reads /\ "reload" \in Reads /\ "resync" \in Reads /\ Edits = {"revert", "reload"} /\ "reload" \notin Plain
  BY ReadsAre, ViewAssumption DEF Plain, Edits
<1>2. /\ UNCHANGED <<now, turns, feed, lagged, opening, sent, view, waiting, removed, actions, edits, stale, erased, missed>>
      /\ read["reload"].at = "history"
      /\ read' = [read EXCEPT !["reload"].at = "asked", !["reload"].gone = now.last \notin removed]
  BY DEF ReadHistory
<1>3. read \in [Reads -> ReadRecords] /\ read["reload"] \in ReadRecords
  BY <1>0, <1>1, NumbersAre DEF ViewTypes
<1> DEFINE c == now.last \notin removed
<1>4. c \in BOOLEAN
  OBVIOUS
<1> HIDE DEF c
<1>5. /\ read'["reload"] = [[read["reload"] EXCEPT !.at = "asked"] EXCEPT !.gone = c]
      /\ \A q \in Reads : q # "reload" => read'[q] = read[q]
  <2>1. read' = [read EXCEPT !["reload"].at = "asked", !["reload"].gone = c]
    BY <1>2 DEF c
  <2> QED  BY ONLY <2>1, <1>1, <1>3
<1>6. /\ read'["reload"].at = "asked" /\ read'["reload"].usage = read["reload"].usage /\ read'["reload"].snap = read["reload"].snap
      /\ read'["reload"].gone = c /\ read'["reload"] \in ReadRecords
  BY ONLY <1>3, <1>4, <1>5 DEF ReadRecords
<1>7. read' \in [Reads -> ReadRecords]
  <2>1. read' = [q \in Reads |-> read'[q]]
    BY ONLY <1>2, <1>3
  <2> QED  BY ONLY <2>1, <1>3, <1>5, <1>6
<1>8. /\ Registered /\ opening.at = "streams" /\ read["revert"].at = "idle"
  BY <1>0, <1>1, <1>2 DEF PhaseInv, DiscardInv
<1>9. ~Taken("reload")' /\ (\A q \in Reads : Taken(q)' => q # "reload" /\ read'[q] = read[q] /\ Taken(q))
  BY <1>5, <1>6 DEF Taken
<1>10. Under' = Under /\ Coming' = Coming /\ OrderInv' /\ (Registered' <=> Registered) /\ (Resyncing' <=> Resyncing) /\ (Current' <=> Current)
  BY <1>0, <1>2, UnderIs, PhasesAre DEF Current
<1>11. read'["resync"] = read["resync"] /\ read'["revert"] = read["revert"]
  BY <1>1, <1>5
<1>12. ViewTypes'
  BY <1>0, <1>2, <1>7 DEF ViewTypes
<1>13. PhaseInv'
  <2>1. \A q \in Reads : read'[q].at = "history" => q = "reload"
    BY <1>0, <1>5, <1>6 DEF PhaseInv
  <2> QED  BY <2>1, <1>0, <1>2, <1>8, <1>10, <1>11 DEF PhaseInv
<1>14. DiscardInv'
  <2>1. removed # {}
    BY <1>0, <1>2, <1>8 DEF DiscardInv
  <2>2. \A q \in Edits : ~Taken(q)'
    BY <1>1, <1>8, <1>9, <1>11 DEF Taken
  <2>3. \A q \in Plain : Taken(q)' /\ ~read'[q].crossed => read'[q].snap.last \notin view.discarded /\ read'[q].snap.turn \notin view.discarded
    BY <1>0, <1>8, <1>9, ReadsAre DEF DiscardInv
  <2>4. read'["reload"].gone => now.last \notin removed
    BY <1>6 DEF c
  <2> QED  BY <2>1, <2>2, <2>3, <2>4, <1>0, <1>1, <1>2, <1>6, <1>8, <1>10, <1>11 DEF DiscardInv
<1>15. TurnInv' /\ ActualInv'
  <2>1. \A q \in Reads : Dated(read'[q].usage) /\ Dated(read'[q].snap.usage)
    BY <1>0, <1>5, <1>6 DEF ActualInv
  <2> QED  BY <2>1, <1>0, <1>2, <1>10, SessionRests DEF ActualInv
<1>16. WholeInv'
  BY <1>0, <1>2, <1>10 DEF WholeInv
<1>17. TurnShownInv'
  BY <1>0, <1>2, <1>9, <1>10, <1>11, ReadsAre DEF TurnShownInv
<1>18. UsageShownInv'
  BY <1>0, <1>2, <1>10 DEF UsageShownInv
<1>19. UsageReadInv'
  BY <1>0, <1>2, <1>9, <1>10, <1>11, ReadsAre DEF UsageReadInv
<1> QED  BY <1>10, <1>12, <1>13, <1>14, <1>15, <1>16, <1>17, <1>18, <1>19, PartsOf, PTL

LEMMA ApplyEditKeeps == ASSUME ViewInv, NEW r \in Reads, ApplyEdit(r) PROVE ViewInv'
<1>0. ViewTypes /\ OrderInv /\ PhaseInv /\ TurnInv /\ DiscardInv /\ ActualInv /\ WholeInv /\ TurnShownInv /\ UsageShownInv /\ UsageReadInv
  BY PartsOf
<1> DEFINE gone == IF r = "revert" \/ read[r].gone THEN removed ELSE {}
           bare == Edited(view, gone)
<1>1. /\ UNCHANGED <<now, turns, feed, lagged, opening, sent, waiting, actions, edits, erased, missed>>
      /\ r \in Edits /\ Taken(r) /\ read' = Crossed(r) /\ removed' = {}
      /\ view' = Apply(bare, read[r].snap, 0)
      /\ stale' = (stale \ {"turn", "usage"}) \cup (IF read[r].late THEN {"turn", "usage"} ELSE {})
  BY DEF ApplyEdit, Edits, Taken, Shows
<1>2. Registered /\ opening.at = "streams" /\ waiting = <<>> /\ 0 \notin view.discarded /\ r # "resync" /\ r \notin Plain
  <2>1. r # "resync" /\ r \notin Plain
    BY <1>1, ViewAssumption DEF Edits, Plain
  <2>2. Registered
    BY <2>1, <1>0, <1>1 DEF PhaseInv, Taken
  <2> QED  BY <2>1, <2>2, <1>0, RegisteredMeans DEF PhaseInv
<1>3. gone \subseteq removed /\ removed \subseteq 1 .. turns /\ view.discarded \subseteq 1 .. turns /\ gone \in SUBSET Nat /\ 0 \notin gone
  BY <1>0, <1>2, NumbersAre DEF DiscardInv, ViewTypes
<1>4. /\ read[r].snap \in Snaps /\ read[r].snap.usage \in Nat
      /\ read[r].snap.last \notin view.discarded \cup gone /\ read[r].snap.turn \notin view.discarded \cup gone
      /\ now.turn \notin view.discarded \cup gone /\ now.last \notin view.discarded \cup gone
  <2>1. read[r].snap \in Snaps /\ read[r].snap.usage \in Nat
    BY <1>0, NumbersAre
  <2>2. /\ read[r].snap.last \notin view.discarded /\ read[r].snap.turn \notin view.discarded
        /\ (r = "revert" \/ read[r].gone) => read[r].snap.last \notin removed /\ read[r].snap.turn \notin removed
    BY <1>0, <1>1, <1>2 DEF DiscardInv
  <2>3. (r = "revert" \/ read[r].gone) => now.last \notin removed
    BY <1>0, <1>1, <1>2 DEF DiscardInv, Edits, Taken
  <2>4. now.turn \notin view.discarded /\ now.last \notin view.discarded /\ (now.turn = 0 \/ now.turn = now.last)
    BY <1>0, <1>2 DEF DiscardInv, TurnInv
  <2> QED  BY <2>1, <2>2, <2>3, <2>4, <1>3
<1> HIDE DEF gone
<1>5. bare \in Views /\ bare.discarded = view.discarded \cup gone /\ bare.usage = 0 /\ bare.turn = 0
  BY <1>0, <1>3, NumbersAre DEF Edited, Views
<1> HIDE DEF bare
<1>6. /\ view' \in Views /\ view'.discarded = view.discarded \cup gone
      /\ view'.turn = read[r].snap.turn /\ view'.usage = read[r].snap.usage
  <2>1. /\ view' \in Views /\ view'.discarded = bare.discarded
        /\ view'.turn = IF read[r].snap.turn \in bare.discarded THEN 0 ELSE read[r].snap.turn
        /\ view'.usage = IF read[r].snap.last \in bare.discarded THEN 0
                         ELSE IF bare.usage # 0 \/ read[r].snap.usage = 0 THEN bare.usage ELSE read[r].snap.usage
    BY <1>1, <1>4, <1>5, ApplyMeans
  <2> QED  BY <2>1, <1>4, <1>5
<1>7. Registered'
  BY <1>2, <1>3, <1>6, IsRegistered DEF Registered, NoView
<1>8. /\ read' \in [Reads -> ReadRecords]
      /\ read'[r].at = "idle" /\ ~Taken(r)' /\ read'[r].usage = 0 /\ read'[r].snap = Blank
      /\ \A q \in Reads : q # r =>
           /\ read'[q].at = read[q].at /\ read'[q].usage = read[q].usage /\ read'[q].snap = read[q].snap /\ read'[q].gone = read[q].gone
           /\ (Taken(q)' <=> Taken(q))
  BY <1>0, <1>1, CrossedMeans
<1>9. Under' = Under /\ Coming' = Coming /\ OrderInv' /\ (Resyncing' <=> Resyncing) /\ (Current' <=> Current)
  BY <1>0, <1>1, UnderIs DEF Current, Resyncing, Resync
<1>10. /\ \A q \in Slots \cup Edits : Taken(q)' => read'[q].late
       /\ \A q \in Plain : Taken(q)' => read'[q].crossed
       /\ Taken("resync")' /\ ~lagged' => TurnFollows(read'["resync"].snap.turn, now'.turn, Under')
       /\ UsageReadInv'
  BY <1>0, <1>1, <1>9, OthersAreLate
<1>11. \A q \in Edits : read'[q].at = "idle"
  BY <1>0, <1>1, <1>2, <1>8, ReadsAre DEF DiscardInv, Edits, Taken
<1>12. ViewTypes'
  <2>1. stale' \in SUBSET {"turn", "usage"} /\ removed' \in SUBSET Nat
    BY <1>0, <1>1 DEF ViewTypes
  <2> QED  BY <2>1, <1>0, <1>1, <1>6, <1>8 DEF ViewTypes
<1>13. PhaseInv'
  <2>1. read'["resync"].at = read["resync"].at
    BY <1>2, <1>8, ReadsAre
  <2>2. \A q \in Reads : read'[q].at = "history" => q = "reload"
    BY <1>0, <1>8 DEF PhaseInv
  <2> QED  BY <2>1, <2>2, <1>0, <1>1, <1>2, <1>7, <1>9 DEF PhaseInv
<1>14. DiscardInv'
  <2>1. \A q \in Edits : ~Taken(q)'
    BY <1>11 DEF Taken
  <2>2. read'["revert"].at = "idle" /\ read'["reload"].at = "idle" /\ ~Taken("revert")'
    BY <2>1, <1>11 DEF Edits
  <2>3. view'.discarded \subseteq 1 .. turns /\ view'.turn \notin view'.discarded
    BY <1>3, <1>4, <1>6
  <2> QED  BY <2>1, <2>2, <2>3, <1>1, <1>4, <1>6, <1>7, <1>10 DEF DiscardInv
<1>15. TurnInv' /\ ActualInv'
  <2>1. Dated(0) /\ Dated(view'.usage)
    BY <1>0, <1>6, NumbersAre DEF Dated, ActualInv
  <2>2. \A q \in Reads : Dated(read'[q].usage) /\ Dated(read'[q].snap.usage)
    BY <2>1, <1>0, <1>8 DEF ActualInv, Blank
  <2> QED  BY <2>1, <2>2, <1>0, <1>1, <1>9, SessionRests DEF ActualInv
<1>16. WholeInv'
  BY <1>0, <1>1, <1>2, <1>7, <1>9 DEF WholeInv
<1>17. TurnShownInv'
  <2>1. Current /\ "turn" \notin stale' => TurnFollows(view'.turn, now.turn, Under)
    BY <1>0, <1>1, <1>6 DEF TurnShownInv
  <2> QED  BY <2>1, <1>1, <1>7, <1>9, <1>10 DEF TurnShownInv
<1>18. UsageShownInv'
  <2>1. now.usage = 0 => view'.usage = 0
    BY <1>0, <1>1, <1>6 DEF UsageReadInv
  <2>2. Current /\ "usage" \notin stale' => UsageFollows(view'.usage, now.usage, Under)
    BY <1>0, <1>1, <1>6 DEF UsageReadInv
  <2> QED  BY <2>1, <2>2, <1>1, <1>7, <1>9 DEF UsageShownInv
<1> QED  BY <1>9, <1>10, <1>12, <1>13, <1>14, <1>15, <1>16, <1>17, <1>18, PartsOf, PTL

-----------------------------------------------------------------------------
(* The chat is registered, and hears what has waited for it.               *)

\* Events that are heard one after the other change the chat one at a time.
Stages(g, start, events) ==
  /\ g[0] = start
  /\ \A n \in 1 .. Len(events) : g[n] = Reduce(g[n - 1], events[n])
  /\ Heard(start, events) = g[Len(events)]

LEMMA HeardOneByOne ==
  ASSUME NEW start, NEW events, Len(events) \in Nat
  PROVE  \E g : Stages(g, start, events)
<1> DEFINE Stepwise(f, k) == f = [n \in 0 .. k |-> IF n = 0 THEN start ELSE Reduce(f[n - 1], events[n])]
           S == {k \in Nat : \E f : Stepwise(f, k)}
           h == [n \in 0 .. 0 |-> start]
<1>1. Stepwise(h, 0)
  <2>1. \A n \in 0 .. 0 : n = 0
    OBVIOUS
  <2> QED  BY <2>1, Zenon
<1>2. ASSUME NEW k \in Nat, NEW f, Stepwise(f, k)
      PROVE  \E f2 : Stepwise(f2, k + 1)
  <2> DEFINE last == Reduce(f[k], events[k + 1])
             f2 == [n \in 0 .. (k + 1) |-> IF n = k + 1 THEN last ELSE f[n]]
  <2>1. \A n \in 0 .. k : f[n] = IF n = 0 THEN start ELSE Reduce(f[n - 1], events[n])
    BY <1>2, Zenon
  <2>2. \A n \in 0 .. (k + 1) : f2[n] = IF n = 0 THEN start ELSE Reduce(f2[n - 1], events[n])
    <3> SUFFICES ASSUME NEW n \in 0 .. (k + 1) PROVE f2[n] = IF n = 0 THEN start ELSE Reduce(f2[n - 1], events[n])
      OBVIOUS
    <3>1. CASE n = 0
      <4>1. f2[n] = f[0] /\ 0 \in 0 .. k
        BY <3>1
      <4> QED  BY <4>1, <2>1, <3>1
    <3>2. CASE n = k + 1
      <4>1. f2[n] = last /\ f2[n - 1] = f[k] /\ n # 0
        BY <3>2
      <4> QED  BY <4>1, <3>2
    <3>3. CASE n # 0 /\ n # k + 1
      <4>1. n \in 0 .. k /\ f2[n] = f[n] /\ f2[n - 1] = f[n - 1]
        BY <3>3
      <4> QED  BY <4>1, <2>1, <3>3
    <3> QED  BY <3>1, <3>2, <3>3
  <2>3. f2 = [n \in 0 .. (k + 1) |-> f2[n]]
    OBVIOUS
  <2>4. Stepwise(f2, k + 1)
    <3> HIDE DEF f2
    <3> QED  BY <2>2, <2>3
  <2> QED  BY <2>4
<1>3. Nat \subseteq S
  <2>1. 0 \in S
    <3> HIDE DEF h
    <3> QED  BY <1>1
  <2>2. ASSUME NEW k \in Nat, k \in S PROVE k + 1 \in S
    <3>1. PICK f : Stepwise(f, k)
      BY <2>2
    <3>2. \E f2 : Stepwise(f2, k + 1)
      BY <3>1, <1>2
    <3> QED  BY <3>2
  <2> HIDE DEF S
  <2> QED  BY <2>1, <2>2, Induction
<1>4. \E f : Stepwise(f, Len(events))
  BY <1>3
<1> DEFINE g == CHOOSE f : Stepwise(f, Len(events))
<1>5. Stepwise(g, Len(events))
  BY <1>4
<1>6. Heard(start, events) = g[Len(events)]
  BY DEF Heard
<1>7. g[0] = start /\ (\A n \in 1 .. Len(events) : g[n] = Reduce(g[n - 1], events[n]))
  <2> HIDE DEF g
  <2>1. \A n \in 0 .. Len(events) : g[n] = IF n = 0 THEN start ELSE Reduce(g[n - 1], events[n])
    BY <1>5, Zenon
  <2>2. 0 \in 0 .. Len(events) /\ (\A n \in 1 .. Len(events) : n # 0 /\ n \in 0 .. Len(events))
    OBVIOUS
  <2> QED  BY <2>1, <2>2, Zenon
<1>8. Stages(g, start, events)
  <2> HIDE DEF g
  <2> QED  BY <1>6, <1>7 DEF Stages
<1> QED  BY <1>8

\* A chat that no edit has touched, and the events that it has not heard.
Follows(c, E) == Whole(E, now, erased) /\ TurnFollows(c.turn, now.turn, E) /\ UsageFollows(c.usage, now.usage, E)
Fresh(c) == c \in Views /\ c.discarded = {} /\ Dated(c.usage) /\ (now.usage = 0 => c.usage = 0)

LEMMA HearsOne ==
  ASSUME now \in Snaps, turns \in Nat, erased = 0, TurnInv,
         NEW E \in SUBSET ViewEvents, NEW F \in SUBSET ViewEvents, NEW e \in ViewEvents,
         E = {e} \cup F, Before({e}, F), \A x \in E : Actual(x), NEW c, Fresh(c)
  PROVE  Fresh(Reduce(c, e)) /\ (Follows(c, E) => Follows(Reduce(c, e), F))
<1> DEFINE d == Reduce(c, e)
<1>1. /\ d \in Views /\ d.discarded = {} /\ d.turn = TurnAfter(c.turn, e)
      /\ d.usage = IF e.kind = "usage" THEN e.turn ELSE c.usage
  BY ReduceMeans DEF Fresh
<1> HIDE DEF d
<1>2. Actual(e) /\ e.turn \in Nat /\ e.turn # 0 /\ now.usage \in Nat /\ c.turn \in Nat
  BY EventIs DEF Actual, Fresh, Views, Snaps
<1>3. Fresh(d)
  BY <1>1, <1>2 DEF Fresh, Actual
<1>4. ASSUME Follows(c, E) PROVE Follows(d, F)
  <2>1. Whole(F, now, erased)
    BY <1>4, RestIsWhole DEF Follows
  <2>2. TurnFollows(d.turn, now.turn, F)
    BY <1>1, <1>2, <1>4, TurnIsFollowed DEF Follows
  <2>3. CASE e.kind = "usage"
    BY <2>1, <2>2, <2>3, <1>1, <1>2, <1>4, UsageIsFollowed DEF Follows
  <2>4. CASE e.kind # "usage"
    BY <2>1, <2>2, <2>4, <1>1, <1>4, UsageIsLeft DEF Follows
  <2> QED  BY <2>3, <2>4
<1> QED  BY <1>3, <1>4 DEF d

LEMMA HearsAll ==
  ASSUME ViewTypes, OrderInv, TurnInv, ActualInv, erased = 0, NEW c, Fresh(c)
  PROVE  Fresh(Heard(c, waiting)) /\ (Follows(c, Coming) => Follows(Heard(c, waiting), Under))
<1>1. waiting \in Seq(ViewEvents) /\ Len(waiting) \in Nat /\ (\A n \in 1 .. Len(waiting) : waiting[n] \in ViewEvents)
  BY MembersMeans DEF ViewTypes
<1> PICK g : Stages(g, c, waiting)
  BY <1>1, HeardOneByOne
<1>2. /\ g[0] = c
      /\ \A n \in 1 .. Len(waiting) : g[n] = Reduce(g[n - 1], waiting[n])
      /\ Heard(c, waiting) = g[Len(waiting)]
  BY DEF Stages
<1> DEFINE Rest(n) == {waiting[m] : m \in {k \in 1 .. Len(waiting) : k > n}} \cup Under
           Good(n) == Fresh(g[n]) /\ (Follows(c, Coming) => Follows(g[n], Rest(n)))
           S == {n \in Nat : n <= Len(waiting) => Good(n)}
<1>3. Rest(0) = Coming /\ Rest(Len(waiting)) = Under
  <2>1. {k \in 1 .. Len(waiting) : k > 0} = 1 .. Len(waiting) /\ {k \in 1 .. Len(waiting) : k > Len(waiting)} = {}
    BY <1>1
  <2> QED  BY <2>1 DEF Coming, Members
<1>4. Good(0)
  BY <1>2, <1>3
<1>5. ASSUME NEW n \in Nat, n + 1 <= Len(waiting), Good(n) PROVE Good(n + 1)
  <2> DEFINE e == waiting[n + 1]
             E == Rest(n)
             F == Rest(n + 1)
  <2>1. n + 1 \in 1 .. Len(waiting) /\ e \in ViewEvents
    BY <1>1, <1>5
  <2>2. E = {e} \cup F
    <3>1. {k \in 1 .. Len(waiting) : k > n} = {n + 1} \cup {k \in 1 .. Len(waiting) : k > n + 1}
      BY <1>1, <2>1
    <3> QED  BY <3>1
  <2>3. E \subseteq Coming
    BY DEF Coming, Members
  <2>4. Coming \in SUBSET ViewEvents /\ (\A x \in Coming : Actual(x))
    BY SentMeans DEF ActualInv
  <2>5. Before({e}, F)
    <3>1. \A m \in 1 .. Len(waiting) : m > n + 1 => Rank(e) < Rank(waiting[m])
      BY <2>1 DEF OrderInv, Increasing
    <3>2. \A x \in Under : Rank(e) < Rank(x)
      BY <2>1 DEF OrderInv, Before, Members
    <3> QED  BY <3>1, <3>2 DEF Before
  <2>6. E \in SUBSET ViewEvents /\ F \in SUBSET ViewEvents /\ (\A x \in E : Actual(x))
    BY <2>2, <2>3, <2>4
  <2>7. g[n + 1] = Reduce(g[n], e)
    <3>1. (n + 1) - 1 = n
      OBVIOUS
    <3> QED  BY <3>1, <2>1, <1>2
  <2>8. Fresh(g[n]) /\ (Follows(c, Coming) => Follows(g[n], E)) /\ now \in Snaps /\ turns \in Nat
    BY <1>5 DEF ViewTypes
  <2> HIDE DEF E, F, e
  <2>9. Fresh(g[n + 1]) /\ (Follows(g[n], E) => Follows(g[n + 1], F))
    <3> PICK d : d = g[n]
      OBVIOUS
    <3>1. Fresh(d)
      BY <2>8
    <3>2. Fresh(Reduce(d, e)) /\ (Follows(d, E) => Follows(Reduce(d, e), F))
      BY <3>1, <2>1, <2>2, <2>5, <2>6, <2>8, HearsOne
    <3> QED  BY <3>2, <2>7
  <2> QED  BY <2>8, <2>9 DEF F
<1>6. Nat \subseteq S
  <2> HIDE DEF Good
  <2>1. 0 \in S
    BY <1>4
  <2>2. \A n \in Nat : n \in S => n + 1 \in S
    BY <1>1, <1>5
  <2> HIDE DEF S
  <2> QED  BY <2>1, <2>2, Induction
<1>7. Good(Len(waiting))
  <2> HIDE DEF Good
  <2> QED  BY <1>1, <1>6
<1> QED  BY <1>2, <1>3, <1>7

LEMMA RegisterKeeps == ASSUME ViewInv, RegisterChat PROVE ViewInv'
<1>0. ViewTypes /\ OrderInv /\ PhaseInv /\ TurnInv /\ DiscardInv /\ ActualInv /\ WholeInv /\ TurnShownInv /\ UsageShownInv /\ UsageReadInv
  BY PartsOf
<1> DEFINE c == Apply([NoView EXCEPT !.discarded = {}], opening.snap, 0)
<1>1. /\ UNCHANGED <<now, turns, feed, lagged, opening, sent, read, removed, actions, edits, erased, missed>>
      /\ opening.at = "streams" /\ ~Registered /\ view' = Heard(c, waiting) /\ waiting' = <<>>
      /\ stale' = (stale \ {}) \cup {}
  BY DEF RegisterChat, Shows
<1>2. stale' = {} /\ stale = {} /\ removed = {} /\ erased = 0 /\ (\A r \in Reads : r # "resync" => read[r].at = "idle")
      /\ (read["resync"].at # "idle" => missed /\ Resyncing)
  BY <1>0, <1>1 DEF PhaseInv
<1>3. c \in Views /\ c.discarded = {} /\ c.turn = opening.snap.turn /\ c.usage = opening.snap.usage
  <2> DEFINE v == [turn |-> 0, usage |-> 0, discarded |-> {}]
  <2>1. [NoView EXCEPT !.discarded = {}] = v /\ v \in Views /\ v.usage = 0 /\ v.discarded = {}
    BY DEF NoView, Views
  <2>2. opening.snap \in Snaps /\ opening.snap.usage \in Nat
    BY <1>0, NumbersAre DEF ViewTypes
  <2> HIDE DEF v
  <2>3. LET w == Apply(v, opening.snap, 0)
        IN  /\ w \in Views /\ w.discarded = v.discarded
            /\ w.turn = IF opening.snap.turn \in v.discarded THEN 0 ELSE opening.snap.turn
            /\ w.usage = IF opening.snap.last \in v.discarded THEN 0
                         ELSE IF v.usage # 0 \/ opening.snap.usage = 0 THEN v.usage ELSE opening.snap.usage
    BY <2>1, <2>2, ApplyMeans
  <2> QED  BY <2>1, <2>2, <2>3
<1> HIDE DEF c
<1>4. Fresh(c)
  BY <1>0, <1>1, <1>3 DEF Fresh, ActualInv, UsageShownInv
<1>5. Fresh(view') /\ (Follows(c, Coming) => Follows(view', Under))
  BY <1>0, <1>1, <1>2, <1>4, HearsAll
<1>6. view' \in Views /\ view'.discarded = {} /\ Dated(view'.usage) /\ (now.usage = 0 => view'.usage = 0)
  BY <1>5 DEF Fresh
<1>7. Registered'
  BY <1>6, IsRegistered DEF Registered, NoView
<1>8. /\ SentSet' = SentSet /\ Members(feed)' = Members(feed) /\ Under' = Under /\ (Resyncing' <=> Resyncing) /\ (Current' <=> Current)
      /\ Members(waiting)' = {} /\ Coming' = Under
  <2>1. SentSet' = SentSet /\ Members(feed)' = Members(feed) /\ (Resyncing' <=> Resyncing)
    BY <1>1 DEF SentSet, Members, Resyncing, Resync
  <2>2. Members(waiting)' = {}
    BY <1>1, NothingComes DEF Members
  <2> QED  BY <2>1, <2>2, <1>1 DEF Under, Coming, Current
<1>9. OrderInv'
  BY <1>0, <1>1, <1>8, NothingComes DEF OrderInv, Before, Increasing
<1>10. ViewTypes'
  BY <1>0, <1>1, <1>2, <1>6, NothingComes DEF ViewTypes
<1>11. PhaseInv'
  BY <1>0, <1>1, <1>7, <1>8 DEF PhaseInv
<1>12. DiscardInv'
  <2>1. {"revert", "reload"} \subseteq Reads /\ "revert" # "resync" /\ "reload" # "resync"
    BY ReadsAre
  <2>2. \A q \in Edits : ~Taken(q)'
    BY <2>1, <1>1, <1>2, ReadsAre DEF Taken, Edits
  <2> QED  BY <2>1, <2>2, <1>1, <1>2, <1>6, <1>7 DEF DiscardInv, Taken
<1>13. TurnInv' /\ ActualInv'
  <2>1. Coming' \subseteq Coming
    BY <1>8 DEF Coming
  <2> QED  BY <2>1, <1>0, <1>1, <1>6, SessionRests DEF ActualInv
<1>14. WholeInv'
  BY <1>0, <1>1, <1>7, <1>8 DEF WholeInv
<1>15. Current /\ ~missed => Follows(view', Under)
  <2>1. Current /\ ~missed => Follows(c, Coming)
    BY <1>0, <1>1, <1>3 DEF Follows, WholeInv, TurnShownInv, UsageShownInv, Current
  <2> QED  BY <2>1, <1>5
<1>16. TurnShownInv'
  <2>1. \A q \in Slots \cup Edits : ~Taken(q)'
    BY <1>1, <1>2, ReadsAre, ViewAssumption DEF Taken, Edits
  <2>2. Taken("resync")' /\ ~lagged' => TurnFollows(read'["resync"].snap.turn, now'.turn, Under')
    BY <1>0, <1>1, <1>8 DEF TurnShownInv, Taken
  <2> QED  BY <2>1, <2>2, <1>1, <1>7, <1>8, <1>15 DEF TurnShownInv, Follows
<1>17. UsageShownInv'
  BY <1>1, <1>6, <1>7, <1>8, <1>15 DEF UsageShownInv, Follows
<1>18. UsageReadInv'
  <2>1. \A q \in Edits : ~Taken(q)'
    BY <1>1, <1>2, ReadsAre DEF Taken, Edits
  <2>2. \A q \in Plain : Taken(q)' /\ ~read'[q].crossed /\ removed' = {} =>
          /\ now'.usage = 0 => read'[q].snap.usage = 0
          /\ read'[q].snap.usage # now'.usage => read'[q].usage # now'.usage
    BY <1>0, <1>1 DEF UsageReadInv, Taken
  <2>3. read'["resync"].at # "idle" => missed'
    BY <1>1, <1>2
  <2>4. Taken("resync")' /\ ~read'["resync"].crossed /\ removed' = {} /\ ~lagged' => UsageFollows(read'["resync"].snap.usage, now'.usage, Under')
    BY <1>0, <1>1, <1>8 DEF UsageReadInv, Taken
  <2> QED  BY <2>1, <2>2, <2>3, <2>4 DEF UsageReadInv
<1> QED  BY <1>9, <1>10, <1>11, <1>12, <1>13, <1>14, <1>16, <1>17, <1>18, PartsOf, PTL

-----------------------------------------------------------------------------
LEMMA ViewInitially == ViewInit => ViewInv
<1> SUFFICES ASSUME ViewInit PROVE ViewInv
  OBVIOUS
<1>1. /\ now = Blank /\ turns = 0 /\ feed = <<>> /\ lagged = FALSE /\ opening = [at |-> "none", snap |-> Blank] /\ sent = Nothing
      /\ view = NoView /\ waiting = <<>> /\ read = [r \in Reads |-> Idle] /\ removed = {} /\ actions = 0 /\ edits = 0 /\ stale = {}
      /\ erased = 0 /\ missed = FALSE
  BY DEF ViewInit
<1>2. Blank \in Snaps /\ Blank.turn = 0 /\ Blank.usage = 0 /\ Blank.last = 0
  BY DEF Blank, Snaps
<1>3. Idle \in ReadRecords /\ Idle.at = "idle" /\ Idle.usage = 0 /\ Idle.snap = Blank
  BY <1>2 DEF Idle, ReadRecords
<1>4. NoView \in Views /\ NoView.usage = 0 /\ ~Registered
  BY <1>1 DEF NoView, Views, Registered
<1>5. SentSet = {} /\ ~Resyncing
  BY <1>1 DEF SentSet, Resyncing, Nothing, Resync, Event, Kinds
<1>6. Under = {} /\ Coming = {}
  BY <1>1, <1>5, NothingComes DEF Under, Coming
<1>7. \A r \in Reads : read[r] = Idle /\ ~Taken(r)
  BY <1>1, <1>3 DEF Taken
<1>8. ViewTypes
  <2>1. MaxTurns \in Nat
    BY ViewAssumption
  <2>2. opening \in [at : {"none", "joined", "streams"}, snap : Snaps] /\ read \in [Reads -> ReadRecords]
    BY <1>1, <1>2, <1>3
  <2>3. feed \in Seq(ViewEvents) /\ waiting \in Seq(ViewEvents)
    BY <1>1, NothingComes
  <2>4. now \in Snaps /\ view \in Views /\ turns \in Nat /\ turns <= MaxTurns
    BY <2>1, <1>1, <1>2, <1>4
  <2> QED  BY <2>2, <2>3, <2>4, <1>1 DEF ViewTypes
<1>9. OrderInv
  BY <1>1, <1>5, <1>6, NothingComes DEF OrderInv, Before
<1>10. PhaseInv
  BY <1>1, <1>3, <1>4, <1>7, ReadsAre DEF PhaseInv
<1>11. TurnInv
  BY <1>1, <1>2 DEF TurnInv
<1>12. DiscardInv
  BY <1>4 DEF DiscardInv
<1>13. ActualInv
  BY <1>1, <1>2, <1>3, <1>4, <1>6, <1>7 DEF ActualInv, Dated
<1>14. WholeInv
  BY <1>6 DEF WholeInv, Whole
<1>15. TurnShownInv
  BY <1>1, <1>4, <1>7, ReadsAre DEF TurnShownInv
<1>16. UsageShownInv
  BY <1>1, <1>4 DEF UsageShownInv
<1>17. UsageReadInv
  BY <1>3, <1>7, ReadsAre DEF UsageReadInv
<1> QED  BY <1>8, <1>9, <1>10, <1>11, <1>12, <1>13, <1>14, <1>15, <1>16, <1>17 DEF ViewInv

\* What is shown is current once nothing is under way or being read.
LEMMA QuietConverges == ViewInv => ChatConverges
<1> SUFFICES ASSUME ViewInv, opening.at = "streams", Registered, ~missed, feed = <<>>, ~lagged, sent = Nothing,
                    \A r \in Reads : read[r].at = "idle"
             PROVE  /\ view.turn = now.turn \/ "turn" \in stale
                    /\ view.usage = now.usage \/ "usage" \in stale
  BY DEF ChatConverges
<1>0. ViewTypes /\ DiscardInv /\ TurnShownInv /\ UsageShownInv
  BY PartsOf
<1>1. Under = {} /\ Current
  BY <1>0, SentMeans, NothingComes DEF Under, Current
<1>2. "turn" \in stale \/ view.turn = now.turn
  BY <1>0, <1>1 DEF TurnShownInv, TurnFollows
<1>3. removed = {}
  BY <1>0, ReadsAre DEF DiscardInv
<1>4. "usage" \in stale \/ view.usage = now.usage
  BY <1>0, <1>1, <1>3 DEF UsageShownInv, UsageFollows
<1> QED  BY <1>2, <1>4

ViewSpec == ViewInit /\ [][ViewNext]_viewVars

LEMMA ViewStep == ViewInv /\ [ViewNext]_viewVars => ViewInv'
<1> SUFFICES ASSUME ViewInv, [ViewNext]_viewVars PROVE ViewInv'
  OBVIOUS
<1>1. CASE Observe
  BY <1>1, ObserveKeeps
<1>2. CASE OpenSession
  BY <1>2, OpeningKeeps
<1>3. CASE RegisterChat
  BY <1>3, RegisterKeeps
<1>4. CASE Deliver
  BY <1>4, DeliverKeeps
<1>5. CASE HearEvent
  BY <1>5, HearKeeps, WaitKeeps
<1>6. CASE HearResync
  BY <1>6, HearResyncKeeps
<1>7. ASSUME NEW r \in Slots, Act(r) PROVE ViewInv'
  BY <1>7, ActKeeps
<1>8. ASSUME NEW r \in Reads, TakeSnapshot(r) PROVE ViewInv'
  BY <1>8, TakeKeeps
<1>9. ASSUME NEW r \in Reads, ApplySnapshot(r) PROVE ViewInv'
  BY <1>9, ApplyKeeps, IgnoredKeeps
<1>10. ASSUME NEW r \in Reads, ApplyEdit(r) PROVE ViewInv'
  BY <1>10, ApplyEditKeeps
<1>11. CASE Edit
  BY <1>11, EditKeeps
<1>12. CASE Revert
  BY <1>12, RevertKeeps
<1>13. CASE ReadHistory
  BY <1>13, HistoryKeeps
<1>14. CASE UNCHANGED viewVars
  <2>1. /\ UNCHANGED <<now, turns, feed, lagged, opening, sent, view, waiting>>
        /\ UNCHANGED <<read, removed, actions, edits, stale, erased, missed>>
    BY <1>14 DEF viewVars
  <2>2. Under' = Under /\ Coming' = Coming /\ (OrderInv => OrderInv') /\ (Registered' <=> Registered) /\ (Resyncing' <=> Resyncing) /\ (Current' <=> Current)
    BY <2>1, UnderIs, PhasesAre DEF Current
  <2>3. \A r : Taken(r)' <=> Taken(r)
    BY <2>1 DEF Taken
  <2>4. \A k : Dated(k)' <=> Dated(k)
    BY <2>1 DEF Dated
  <2>5. \A x : Actual(x)' <=> Actual(x)
    BY <2>1, <2>4 DEF Actual
  <2>6. ViewTypes' /\ PhaseInv' /\ TurnInv'
    BY <2>1, <2>2, PartsOf DEF ViewTypes, PhaseInv, TurnInv
  <2>7. DiscardInv' /\ ActualInv'
    BY <2>1, <2>2, <2>3, <2>4, <2>5, PartsOf DEF DiscardInv, ActualInv
  <2>8. WholeInv' /\ TurnShownInv'
    BY <2>1, <2>2, <2>3, PartsOf DEF WholeInv, TurnShownInv
  <2>9. UsageShownInv' /\ UsageReadInv'
    BY <2>1, <2>2, <2>3, PartsOf DEF UsageShownInv, UsageReadInv
  <2> QED  BY <2>2, <2>6, <2>7, <2>8, <2>9, PartsOf, PTL
<1> QED  BY <1>1, <1>2, <1>3, <1>4, <1>5, <1>6, <1>7, <1>8, <1>9, <1>10, <1>11, <1>12, <1>13, <1>14 DEF ViewNext

\* A conversation shows what its session is in once everything has been delivered and read, for any
\* number of turns, actions and edits and any capacity of the channel (chat/useChats.ts,
\* commands/session.rs register, streams.rs deliver).
THEOREM ConversationsAlwaysConverge == ViewSpec => []ChatConverges
<1>1. ViewSpec => []ViewInv
  BY ViewInitially, ViewStep, PTL DEF ViewSpec
<1> QED  BY <1>1, QuietConverges, PTL
=============================================================================
