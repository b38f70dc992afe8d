----------------------- MODULE SessionRecoveryProofs -----------------------
(***************************************************************************)
(* Theorems about SessionRecovery, for every limit of attempts and every   *)
(* number of outages, messages and turns.                                  *)
(***************************************************************************)
EXTENDS SessionRecovery, TLAPS

Envs == {"ready", "reconnecting", "recovering", "closed"} \cup ActionRequired
RecType == [env : Envs, attempts : Nat \cup {Unset}, rebuilding : BOOLEAN, news : BOOLEAN, told : BOOLEAN]
RelayType == [at : RelayPlaces, err : Errors]
PumpType == [at : PumpPlaces, err : Errors]
StatusType == [at : {"idle", "disconnect", "continuing", "done"}, ready : BOOLEAN]
IntentType == [active : Nat, current : Nat, completed : Nat, interrupted : Nat, cancelled : Nat,
               episode : Nat, drawn : Nat, pending : {"none", "waiting", "cancelled"}, resend : BOOLEAN]
EventQueue == Seq(Events)
NativeRecord == [alive : BOOLEAN, running : Nat, made : Nat, events : EventQueue]
NativeType == {n \in NativeRecord : n.running <= n.made}
SubPlaces == {"none", "take", "check", "send", "answer", "confirm"}
SubRecord == [at : SubPlaces, turn : Nat, episode : Nat, gen : Nat, got : Nat, rebuilt : BOOLEAN]
SubType == [Submitters -> SubRecord]
UserType == [at : {"none", "waiting", "captured", "checked", "sent"}, gen : Nat]
GateType == Submitters \cup {"free", "user"}
HistType == [continued : SUBSET (Nat \X Nat), cancelled : SUBSET Nat, replaced : SUBSET Nat, completed : SUBSET Nat]

\* The owner has closed the old generation, and there is no other transport yet.
RelayStopped ==
  pump.at \in {"wait", "asleep", "parked", "woken", "replacing"} => relay.at = "stopped"

\* The transport of a replacement never came to wait while its owner is rebuilding.
RelayFailsBack ==
  rec.rebuilding /\ pump.at \in {"verifying", "continuing"} => relay.at \in {"up", "lost", "failed", "stopped"}

\* Whoever waits for the next attempt has one left.
AttemptIsLeft == relay.at = "asleep" \/ pump.at = "asleep" => rec.attempts < Limit

BudgetInv == OwnerHearsRetry /\ BudgetHeld /\ RelayStopped /\ RelayFailsBack /\ AttemptIsLeft

\* A marker is in one place: in the intent, with a task that will send it, or sent.
Holding(a) == sub[a].at \in {"check", "send"}
MarkersApart ==
  /\ intent.episode <= intent.drawn
  /\ \A a \in Submitters : Holding(a) => /\ sub[a].episode <= intent.drawn /\ sub[a].episode \notin {None, intent.episode}
                                         /\ \A b \in Submitters : Holding(b) /\ sub[b].episode = sub[a].episode => b = a
  /\ \A p \in hist.continued : /\ p[1] <= intent.drawn /\ p[1] # intent.episode /\ p[1] # None
                               /\ \A a \in Submitters : Holding(a) => p[1] # sub[a].episode

EpisodeInv == MarkersApart /\ ContinuedOnce

LEMMA TypeMeans == TypeOK <=>
  /\ rec \in RecType /\ relay \in RelayType /\ pump \in PumpType /\ status \in StatusType /\ intent \in IntentType
  /\ native \in NativeType /\ sub \in SubType /\ user \in UserType /\ gate \in GateType
  /\ gen \in Nat /\ closed \in BOOLEAN /\ outages \in Nat /\ messages \in Nat /\ hist \in HistType
BY DEF TypeOK, Envs, RecType, RelayType, PumpType, StatusType, IntentType, EventQueue, NativeRecord, NativeType, SubPlaces, SubRecord, SubType,
       UserType, GateType, HistType

LEMMA LimitIsPositive == Limit \in Nat /\ 1 <= Limit
BY LimitsAssumption DEF LimitsAssumption

LEMMA TypeFollows ==
  ASSUME rec' \in RecType, relay' \in RelayType, pump' \in PumpType, status' \in StatusType, intent' \in IntentType,
         native' \in NativeType, sub' \in SubType, user' \in UserType, gate' \in GateType,
         gen' \in Nat, closed' \in BOOLEAN, outages' \in Nat, messages' \in Nat, hist' \in HistType
  PROVE  TypeOK'
BY DEF TypeOK, Envs, RecType, RelayType, PumpType, StatusType, IntentType, EventQueue, NativeRecord, NativeType, SubPlaces, SubRecord, SubType,
       UserType, GateType, HistType

LEMMA RecoveryInitially == Init => TypeOK /\ BudgetInv /\ EpisodeInv
<1> SUFFICES ASSUME Init PROVE TypeOK /\ BudgetInv /\ EpisodeInv
  OBVIOUS
<1>1. TypeOK
  <2>1. native = [alive |-> TRUE, running |-> 0, made |-> 0, events |-> <<>>] /\ <<>> \in EventQueue
    BY DEF Init, None, EventQueue
  <2>2. native \in NativeType
    BY <2>1 DEF NativeType, NativeRecord
  <2>3. sub \in SubType /\ intent \in IntentType
    BY DEF Init, SubType, SubRecord, SubPlaces, NoSubmission, IntentType, None
  <2>4. rec \in RecType /\ relay \in RelayType /\ pump \in PumpType /\ status \in StatusType /\ hist \in HistType
    BY DEF Init, RecType, Envs, RelayType, PumpType, StatusType, HistType, RelayPlaces, PumpPlaces, Errors
  <2>5. user \in UserType /\ gate \in GateType /\ gen \in Nat /\ closed \in BOOLEAN /\ outages \in Nat /\ messages \in Nat
    BY DEF Init, UserType, GateType, NoMessage
  <2> QED  BY <2>2, <2>3, <2>4, <2>5, TypeMeans
<1>2. BudgetInv
  BY LimitIsPositive DEF Init, BudgetInv, OwnerHearsRetry, BudgetHeld, RelayStopped, RelayFailsBack, AttemptIsLeft, Unset
<1>3. EpisodeInv
  BY DEF Init, EpisodeInv, MarkersApart, ContinuedOnce, Holding, NoSubmission, None
<1> QED  BY <1>1, <1>2, <1>3

-----------------------------------------------------------------------------
(* What the operators of recovery.rs do to the state they are given. *)

LEMMA PublishedMeans ==
  ASSUME NEW r \in RecType, NEW env \in Envs
  PROVE  /\ Published(r, env) \in RecType
         /\ Published(r, env).env = IF r.env = "closed" THEN "closed" ELSE env
         /\ Published(r, env).attempts \in {r.attempts, Unset}
         /\ env # "ready" => Published(r, env).attempts = r.attempts
         /\ Published(r, env).rebuilding => r.rebuilding
         /\ env # "ready" => (Published(r, env).rebuilding <=> r.rebuilding)
BY DEF Published, RecType, Envs

LEMMA UsedMeans ==
  ASSUME rec \in RecType, BudgetHeld
  PROVE  Used \in Nat /\ Used <= Limit /\ Counting \in RecType /\ Counting.attempts = Used
         /\ Counting.env = rec.env /\ (Counting.rebuilding <=> rec.rebuilding)
BY LimitIsPositive DEF Used, BudgetHeld, RecType, Unset, Counting

LEMMA ParkedMeans ==
  ASSUME rec \in RecType, BudgetHeld, NEW error
  PROVE  /\ Parked(error) \in RecType
         /\ Parked(error).env \in {"exhausted", "refused", "closed"}
         /\ Parked(error).attempts <= Limit /\ (Parked(error).rebuilding <=> rec.rebuilding)
<1>1. Counting \in RecType /\ Counting.attempts = Used /\ Used \in Nat /\ Used <= Limit
      /\ (Counting.rebuilding <=> rec.rebuilding)
  BY UsedMeans
<1>2. {"exhausted", "refused"} \subseteq Envs
  BY DEF Envs, ActionRequired
<1> QED  BY <1>1, <1>2, PublishedMeans DEF Parked

LEMMA AsleepMeans ==
  ASSUME rec \in RecType, BudgetHeld
  PROVE  /\ Asleep \in RecType /\ Asleep.env \in {"reconnecting", "closed"}
         /\ Asleep.attempts = Used /\ Used <= Limit /\ (Asleep.rebuilding <=> rec.rebuilding)
<1>1. Counting \in RecType /\ Counting.attempts = Used /\ Used <= Limit /\ (Counting.rebuilding <=> rec.rebuilding)
  BY UsedMeans
<1>2. "reconnecting" \in Envs
  BY DEF Envs
<1> QED  BY <1>1, <1>2, PublishedMeans DEF Asleep

LEMMA AttemptedMeans ==
  ASSUME rec \in RecType, NEW woken \in BOOLEAN, ~woken => rec.attempts \in Nat /\ rec.attempts < Limit
  PROVE  /\ Attempted(woken) \in RecType /\ Attempted(woken).env \in {"reconnecting", "closed"}
         /\ Attempted(woken).attempts <= Limit /\ (Attempted(woken).rebuilding <=> rec.rebuilding)
<1> DEFINE counted == [rec EXCEPT !.attempts = IF woken THEN 1 ELSE @ + 1]
<1>1. counted \in RecType /\ counted.attempts <= Limit /\ (counted.rebuilding <=> rec.rebuilding)
  BY LimitIsPositive DEF RecType
<1>2. "reconnecting" \in Envs
  BY DEF Envs
<1> HIDE DEF counted
<1>3. Attempted(woken) = Published(counted, "reconnecting")
  BY DEF Attempted, counted
<1> QED  BY <1>1, <1>2, <1>3, PublishedMeans

LEMMA ShutDownMeans ==
  ASSUME rec \in RecType, relay \in RelayType, native \in NativeType, ShutDown
  PROVE  /\ rec' \in RecType /\ relay' \in RelayType /\ native' \in NativeType
         /\ closed' = TRUE /\ rec'.env = "closed" /\ rec'.attempts = rec.attempts /\ relay'.at = "stopped"
<1>1. "closed" \in Envs
  BY DEF Envs
<1>2. rec' = Published(rec, "closed")
  BY DEF ShutDown
<1>3. relay' \in RelayType /\ relay'.at = "stopped"
  BY DEF ShutDown, RelayType, RelayPlaces
<1>4. native' \in NativeType
  <2>1. <<>> \in EventQueue
    BY DEF EventQueue
  <2>2. native' \in NativeRecord /\ native'.running = 0 /\ native'.made \in Nat
    BY <2>1 DEF ShutDown, NativeType, NativeRecord, None
  <2> QED  BY <2>2 DEF NativeType
<1> QED  BY <1>1, <1>2, <1>3, <1>4, PublishedMeans DEF ShutDown

LEMMA NotifyMeans ==
  ASSUME relay \in RelayType, pump \in PumpType, Notify
  PROVE  /\ relay' \in RelayType /\ pump' \in PumpType
         /\ relay'.at = Woken(relay.at) /\ pump'.at = Woken(pump.at)
BY DEF Notify, Woken, RelayType, PumpType, RelayPlaces, PumpPlaces

(* intent.rs: only Disconnected names an episode, and it takes a name that was never given. *)
LEMMA IntentMeans ==
  ASSUME NEW i \in IntentType, NEW turn \in Nat, NEW outcome, NEW rebuilt \in BOOLEAN
  PROVE  /\ \A j \in {Started(i, turn), Ended(i, turn, outcome), Cancelled(i, turn), Finished(i)} :
              j \in IntentType /\ j.episode = i.episode /\ j.drawn = i.drawn
         /\ \A j \in {Consumed(i, rebuilt), Forgotten(i)} :
              j \in IntentType /\ j.episode = None /\ j.drawn = i.drawn
         /\ Disconnected(i) \in IntentType
         /\ \/ Disconnected(i) = i
            \/ Disconnected(i).drawn = i.drawn + 1 /\ Disconnected(i).episode = i.drawn + 1
<1>1. Started(i, turn) \in IntentType /\ Started(i, turn).episode = i.episode /\ Started(i, turn).drawn = i.drawn
  BY DEF Started, IntentType
<1>2. ASSUME NEW k \in Nat
      PROVE Ended(i, k, outcome) \in IntentType /\ Ended(i, k, outcome).episode = i.episode /\ Ended(i, k, outcome).drawn = i.drawn
  BY DEF Ended, IntentType, None
<1>3. Cancelled(i, turn) \in IntentType /\ Cancelled(i, turn).episode = i.episode /\ Cancelled(i, turn).drawn = i.drawn
  BY DEF Cancelled, IntentType, None
<1>4. Finished(i) \in IntentType /\ Finished(i).episode = i.episode /\ Finished(i).drawn = i.drawn
  <2>1. ASSUME NEW k \in Nat
        PROVE Ended(i, k, "failed") \in IntentType /\ Ended(i, k, "failed").episode = i.episode /\ Ended(i, k, "failed").drawn = i.drawn
    BY DEF Ended, IntentType, None
  <2>2. i.current \in Nat
    BY DEF IntentType
  <2> QED  BY <2>1, <2>2 DEF Finished
<1>5. Consumed(i, rebuilt) \in IntentType /\ Consumed(i, rebuilt).episode = None /\ Consumed(i, rebuilt).drawn = i.drawn
  BY DEF Consumed, IntentType, None
<1>6. Forgotten(i) \in IntentType /\ Forgotten(i).episode = None /\ Forgotten(i).drawn = i.drawn
  BY DEF Forgotten, IntentType, None
<1>7. /\ Disconnected(i) \in IntentType
      /\ \/ Disconnected(i) = i
         \/ Disconnected(i).drawn = i.drawn + 1 /\ Disconnected(i).episode = i.drawn + 1
  <2>1. CASE i.episode # None
    BY <2>1 DEF Disconnected
  <2>2. CASE i.episode = None
    <3>1. Disconnected(i) = [i EXCEPT !.episode = i.drawn + 1, !.drawn = @ + 1,
                                      !.interrupted = IF i.active = i.cancelled THEN None ELSE i.active]
      BY <2>2 DEF Disconnected
    <3> DEFINE turn1 == IF i.active = i.cancelled THEN None ELSE i.active
    <3>2. turn1 \in Nat /\ i.drawn \in Nat /\ i.drawn + 1 \in Nat
      BY DEF IntentType, None
    <3> HIDE DEF turn1
    <3>3. Disconnected(i) = [i EXCEPT !.episode = i.drawn + 1, !.drawn = i.drawn + 1, !.interrupted = turn1]
      BY <3>1 DEF turn1, IntentType
    <3> QED  BY <3>2, <3>3 DEF IntentType
  <2> QED  BY <2>1, <2>2
<1> QED  BY <1>1, <1>2, <1>3, <1>4, <1>5, <1>6, <1>7

(* Codex: a turn begins only when none runs, and the events are queued in their order. *)
LEMMA NativeMeans ==
  ASSUME native \in NativeType
  PROVE  /\ Begins \in NativeType /\ Begins.running \in Nat
         /\ \A turn \in Nat, outcome \in {"none", "completed", "failed", "interrupted"} : TurnEnded(turn, outcome) \in NativeType
         /\ native.events # <<>> => Event \in Events /\ [native EXCEPT !.events = Tail(@)] \in NativeType
         /\ \A alive \in BOOLEAN : [native EXCEPT !.alive = alive] \in NativeType
         /\ [native EXCEPT !.alive = FALSE, !.events = <<>>] \in NativeType
         /\ [native EXCEPT !.alive = FALSE, !.running = None, !.events = <<>>] \in NativeType
         /\ [native EXCEPT !.alive = FALSE, !.running = None,
                           !.events = Append(@, [kind |-> "closed", turn |-> None, outcome |-> "none"])] \in NativeType
<1>1. /\ native \in NativeRecord /\ native.running <= native.made /\ native.made \in Nat /\ native.running \in Nat
      /\ native.events \in EventQueue /\ <<>> \in EventQueue
  BY DEF NativeType, NativeRecord, EventQueue
<1>2. ASSUME NEW e \in Events PROVE Append(native.events, e) \in EventQueue
  BY <1>1 DEF EventQueue
<1>0. ASSUME NEW n \in NativeRecord, n.running <= n.made PROVE n \in NativeType
  BY <1>0 DEF NativeType
<1>3. Begins \in NativeType /\ Begins.running \in Nat
  <2>1. [kind |-> "started", turn |-> native.made + 1, outcome |-> "none"] \in Events
    BY <1>1 DEF Events
  <2>2. Append(native.events, [kind |-> "started", turn |-> native.made + 1, outcome |-> "none"]) \in EventQueue
    BY <1>2, <2>1
  <2>3. CASE native.running # None
    BY <1>1, <2>3 DEF Begins
  <2>4. CASE native.running = None
    <3> DEFINE q == Append(native.events, [kind |-> "started", turn |-> native.made + 1, outcome |-> "none"])
    <3>1. Begins = [native EXCEPT !.running = native.made + 1, !.made = native.made + 1, !.events = q]
      BY <1>1, <2>4 DEF Begins, NativeRecord
    <3>2. q \in EventQueue
      BY <2>2
    <3> DEFINE next == native.made + 1
    <3>4. next \in Nat
      BY <1>1
    <3> HIDE DEF q, next
    <3>5. Begins = [native EXCEPT !.running = next, !.made = next, !.events = q]
      BY <3>1 DEF next
    <3>3. Begins \in NativeRecord /\ Begins.running = next /\ Begins.made = next
      BY <1>1, <3>2, <3>4, <3>5 DEF NativeRecord
    <3> QED  BY <1>0, <1>1, <3>3, <3>4
  <2> QED  BY <2>3, <2>4
<1>4. ASSUME NEW turn \in Nat, NEW outcome \in {"none", "completed", "failed", "interrupted"}
      PROVE TurnEnded(turn, outcome) \in NativeType
  <2>1. Append(native.events, [kind |-> "ended", turn |-> turn, outcome |-> outcome]) \in EventQueue
    BY <1>2 DEF Events
  <2>2. TurnEnded(turn, outcome) \in NativeRecord /\ TurnEnded(turn, outcome).running = 0
        /\ TurnEnded(turn, outcome).made = native.made
    BY <1>1, <2>1 DEF TurnEnded, NativeRecord, None
  <2> QED  BY <1>0, <1>1, <2>2
<1>5. ASSUME native.events # <<>> PROVE Event \in Events /\ [native EXCEPT !.events = Tail(@)] \in NativeType
  <2>1. Head(native.events) \in Events /\ Tail(native.events) \in EventQueue
    BY <1>1, <1>5 DEF EventQueue
  <2> QED  BY <1>1, <2>1 DEF Event, NativeType, NativeRecord
<1>6. ASSUME NEW alive \in BOOLEAN PROVE [native EXCEPT !.alive = alive] \in NativeType
  BY <1>1 DEF NativeType, NativeRecord
<1>7. /\ [native EXCEPT !.alive = FALSE, !.events = <<>>] \in NativeType
      /\ [native EXCEPT !.alive = FALSE, !.running = None, !.events = <<>>] \in NativeType
  <2> DEFINE m == [native EXCEPT !.alive = FALSE, !.events = <<>>]
             n == [native EXCEPT !.alive = FALSE, !.running = None, !.events = <<>>]
  <2>1. m \in NativeRecord /\ m.running = native.running /\ m.made = native.made
    BY <1>1 DEF NativeRecord
  <2>2. n \in NativeRecord /\ n.running = 0 /\ n.made = native.made
    BY <1>1 DEF NativeRecord, None
  <2> HIDE DEF m, n
  <2>3. m \in NativeType /\ n \in NativeType
    BY <1>0, <1>1, <2>1, <2>2
  <2> QED  BY <2>3 DEF m, n
<1>8. [native EXCEPT !.alive = FALSE, !.running = None,
                     !.events = Append(@, [kind |-> "closed", turn |-> None, outcome |-> "none"])] \in NativeType
  <2> DEFINE n == [native EXCEPT !.alive = FALSE, !.running = None,
                     !.events = Append(@, [kind |-> "closed", turn |-> None, outcome |-> "none"])]
  <2>1. Append(native.events, [kind |-> "closed", turn |-> None, outcome |-> "none"]) \in EventQueue
    BY <1>2 DEF Events, None
  <2>2. n \in NativeRecord /\ n.running = 0 /\ n.made = native.made
    BY <1>1, <2>1 DEF NativeRecord, None
  <2> HIDE DEF n
  <2>3. n \in NativeType
    BY <1>0, <1>1, <2>2
  <2> QED  BY <2>3 DEF n
<1> QED  BY <1>3, <1>4, <1>5, <1>6, <1>7, <1>8

LEMMA SubMeans ==
  ASSUME sub \in SubType
  PROVE  /\ \A a \in Submitters, x \in SubRecord : [sub EXCEPT ![a] = x] \in SubType
         /\ \A a \in Submitters, at \in SubPlaces : [sub EXCEPT ![a].at = at] \in SubType
         /\ NoSubmission \in SubRecord
         /\ [NoSubmission EXCEPT !.at = "take"] \in SubRecord
         /\ [NoSubmission EXCEPT !.at = "take", !.rebuilt = TRUE] \in SubRecord
         /\ \A a \in Submitters, at \in SubPlaces : [sub[a] EXCEPT !.at = at] \in SubRecord
BY DEF SubType, SubRecord, SubPlaces, NoSubmission, None

LEMMA ErrorMeans ==
  ASSUME NEW error \in Errors
  PROVE  AsFault(error) \in Errors /\ Reported(error) \in Errors /\ AsFault(Reported(error)) \in Errors
BY DEF AsFault, Reported, Errors

LEMMA IntentMarked ==
  ASSUME NEW i \in IntentType
  PROVE  /\ \A pending \in {"none", "waiting", "cancelled"} : LET j == [i EXCEPT !.pending = pending]
              IN j \in IntentType /\ j.episode = i.episode /\ j.drawn = i.drawn
         /\ \A b \in BOOLEAN : LET j == [i EXCEPT !.resend = b] IN j \in IntentType /\ j.episode = i.episode /\ j.drawn = i.drawn
         /\ \A turn \in Nat : LET j == [i EXCEPT !.active = turn] IN j \in IntentType /\ j.episode = i.episode /\ j.drawn = i.drawn
BY DEF IntentType

LEMMA HistMeans ==
  ASSUME hist \in HistType
  PROVE  /\ hist.continued \in SUBSET (Nat \X Nat)
         /\ \A m, n \in Nat : [hist EXCEPT !.continued = @ \cup {<<m, n>>}] \in HistType
         /\ \A s \in SUBSET Nat : /\ [hist EXCEPT !.completed = @ \cup s] \in HistType
                                 /\ [hist EXCEPT !.replaced = @ \cup s] \in HistType
                                 /\ [hist EXCEPT !.cancelled = @ \cup s] \in HistType
BY DEF HistType

LEMMA UserMeans ==
  ASSUME user \in UserType
  PROVE  /\ \A at \in {"none", "waiting", "captured", "checked", "sent"} : [user EXCEPT !.at = at] \in UserType
         /\ \A g \in Nat : [at |-> "captured", gen |-> g] \in UserType
         /\ NoMessage \in UserType
BY DEF UserType, NoMessage

LEMMA MessageDoneMeans ==
  ASSUME intent \in IntentType, MessageDone
  PROVE  user' \in UserType /\ intent' \in IntentType /\ intent'.episode = intent.episode /\ intent'.drawn = intent.drawn
BY IntentMarked DEF MessageDone, UserType, NoMessage

LEMMA TypeKept == TypeOK /\ BudgetInv /\ Next => TypeOK'
<1> SUFFICES ASSUME TypeOK, BudgetInv, Next PROVE TypeOK'
  OBVIOUS
<1>0. /\ rec \in RecType /\ relay \in RelayType /\ pump \in PumpType /\ status \in StatusType /\ intent \in IntentType
      /\ native \in NativeType /\ sub \in SubType /\ user \in UserType /\ gate \in GateType
      /\ gen \in Nat /\ closed \in BOOLEAN /\ outages \in Nat /\ messages \in Nat /\ hist \in HistType
  BY TypeMeans
<1>00. BudgetHeld
  BY DEF BudgetInv
<1>1. CASE RelayBreaks
  BY <1>0, <1>00, <1>1, TypeFollows DEF RelayBreaks, RelayType, RelayPlaces, Errors
<1>2. CASE RelayEnds
  BY <1>0, <1>00, <1>2, TypeFollows DEF RelayEnds, RelayType, RelayPlaces, Errors
<1>3. CASE RelayWaits
  BY <1>0, <1>00, <1>3, ErrorMeans, UsedMeans, AsleepMeans, TypeFollows DEF RelayWaits, RelayType, RelayPlaces
<1>4. CASE RelayWakes
  <2>1. CASE relay.at = "asleep" /\ rec.attempts = Unset
    BY <1>0, <1>4, <2>1, TypeFollows DEF RelayWakes, RelayType, RelayPlaces, Errors
  <2>2. CASE ~(relay.at = "asleep" /\ rec.attempts = Unset)
    <3>1. relay.at # "woken" => rec.attempts \in Nat /\ rec.attempts < Limit
      BY <1>0, <1>4, <2>2 DEF RelayWakes, RecType, BudgetInv, AttemptIsLeft
    <3>2. rec' = Attempted(relay.at = "woken") /\ relay' = [relay EXCEPT !.at = "trying"]
      BY <1>4, <2>2 DEF RelayWakes
    <3>3. rec' \in RecType
      BY <1>0, <3>1, <3>2, AttemptedMeans
    <3>4. relay' \in RelayType
      BY <1>0, <3>2 DEF RelayType, RelayPlaces
    <3> QED  BY <1>0, <1>4, <3>3, <3>4, TypeFollows DEF RelayWakes
  <2> QED  BY <2>1, <2>2
<1>5. CASE RelayTries
  BY <1>0, <1>00, <1>5, TypeFollows DEF RelayTries, RelayType, RelayPlaces, Errors
<1>6. CASE RelayResends
  BY <1>0, <1>00, <1>6, TypeFollows DEF RelayResends, RelayType, RelayPlaces, Errors
<1>7. CASE RelayAnnounces
  BY <1>0, <1>00, <1>7, PublishedMeans, TypeFollows DEF RelayAnnounces, RelayType, RelayPlaces, Errors, Envs
<1>8. CASE PumpTakes
  <2>1. native' \in NativeType /\ Event \in Events
    BY <1>0, <1>8, NativeMeans DEF PumpTakes
  <2>2. Event.turn \in Nat /\ intent' \in IntentType
    <3>1. Event.turn \in Nat
      BY <2>1 DEF Events
    <3>2. Started(intent, Event.turn) \in IntentType /\ Ended(intent, Event.turn, Event.outcome) \in IntentType
      BY <1>0, <3>1, IntentMeans
    <3> QED  BY <1>8, <3>1, <3>2 DEF PumpTakes
  <2>3. pump' \in PumpType
    BY <1>0, <1>8 DEF PumpTakes, PumpType, PumpPlaces
  <2>4. hist' \in HistType
    BY <1>0, <1>8, <2>2, HistMeans DEF PumpTakes
  <2> QED  BY <1>0, <1>8, <2>1, <2>2, <2>3, <2>4, TypeFollows DEF PumpTakes
<1>9. CASE PumpTakesEnd
  <2>1. CASE rec.env = "ready"
    <3>1. ShutDown /\ pump' = [at |-> "dead", err |-> "engine"]
      BY <1>9, <2>1 DEF PumpTakesEnd, Dies
    <3>2. pump' \in PumpType
      BY <3>1 DEF PumpType, PumpPlaces, Errors
    <3> QED  BY <1>0, <1>9, <3>1, <3>2, ShutDownMeans, TypeFollows DEF PumpTakesEnd
  <2>2. CASE rec.env /= "ready"
    <3>1. pump' \in PumpType
      BY <1>0, <1>9, <2>2 DEF PumpTakesEnd, PumpType, PumpPlaces, RelayType, Errors
    <3>2. native' \in NativeType
      BY <1>0, <1>9, <2>2, NativeMeans DEF PumpTakesEnd
    <3> QED  BY <1>0, <1>9, <2>2, <3>1, <3>2, TypeFollows DEF PumpTakesEnd
  <2> QED  BY <2>1, <2>2
<1>10. CASE PumpNotices
  BY <1>0, <1>00, <1>10, TypeFollows DEF PumpNotices, RelayType, PumpType, PumpPlaces
<1>11. CASE PumpLooks
  BY <1>0, <1>00, <1>11, SubMeans, TypeFollows DEF PumpLooks, PumpType, PumpPlaces, Errors, Submitters
<1>12. CASE PumpResumes
  BY <1>0, <1>00, <1>12, TypeFollows DEF PumpResumes, PumpType, PumpPlaces, Errors
<1>13. CASE PumpRebuilds
  <2>1. [rec EXCEPT !.rebuilding = TRUE] \in RecType /\ "recovering" \in Envs
    BY <1>0 DEF RecType, Envs
  <2>2. rec' \in RecType
    BY <1>13, <2>1, PublishedMeans DEF PumpRebuilds
  <2>3. intent' \in IntentType /\ pump' \in PumpType
    BY <1>0, <1>13, IntentMeans DEF PumpRebuilds, PumpType, PumpPlaces
  <2> QED  BY <1>0, <1>13, <2>2, <2>3, TypeFollows DEF PumpRebuilds
<1>14. CASE PumpCloses
  <2>1. relay' \in RelayType /\ pump' \in PumpType
    BY <1>0, <1>14 DEF PumpCloses, RelayType, RelayPlaces, PumpType, PumpPlaces, Errors
  <2>2. native' \in NativeType /\ intent' \in IntentType
    BY <1>0, <1>14, NativeMeans, IntentMeans DEF PumpCloses
  <2> QED  BY <1>0, <1>14, <2>1, <2>2, TypeFollows DEF PumpCloses
<1>15. CASE PumpWaits
  <2>1. ASSUME NEW at \in PumpPlaces PROVE [pump EXCEPT !.at = at] \in PumpType
    BY <1>0 DEF PumpType
  <2>2. "asleep" \in PumpPlaces /\ "parked" \in PumpPlaces /\ "dead" \in PumpPlaces /\ pump.err \in Errors
    BY <1>0 DEF PumpPlaces, PumpType
  <2>3. CASE Manual(pump.err) /\ ~rec.rebuilding
    <3>1. ShutDown /\ pump' \in PumpType
      BY <1>15, <2>2, <2>3 DEF PumpWaits, Dies, PumpType
    <3> QED  BY <1>0, <1>15, <3>1, ShutDownMeans, TypeFollows DEF PumpWaits
  <2>4. CASE ~(Manual(pump.err) /\ ~rec.rebuilding)
    <3>1. /\ \/ rec' = Asleep /\ pump' = [pump EXCEPT !.at = "asleep"]
             \/ rec' = Parked(pump.err) /\ pump' = [pump EXCEPT !.at = "parked"]
          /\ UNCHANGED <<relay, native, closed>>
      BY <1>15, <2>4 DEF PumpWaits
    <3>2. rec' \in RecType /\ pump' \in PumpType
      BY <1>0, <1>00, <2>1, <2>2, <3>1, AsleepMeans, ParkedMeans
    <3> QED  BY <1>0, <1>15, <3>1, <3>2, TypeFollows DEF PumpWaits
  <2> QED  BY <2>3, <2>4
<1>16. CASE PumpWakes
  <2>1. CASE pump.at = "asleep" /\ rec.attempts = Unset
    <3>1. ShutDown /\ pump' = [at |-> "dead", err |-> "late"]
      BY <1>16, <2>1 DEF PumpWakes, Dies
    <3>2. pump' \in PumpType
      BY <3>1 DEF PumpType, PumpPlaces, Errors
    <3> QED  BY <1>0, <1>16, <3>1, <3>2, ShutDownMeans, TypeFollows DEF PumpWakes
  <2>2. CASE ~(pump.at = "asleep" /\ rec.attempts = Unset)
    <3>1. pump.at /= "woken" => rec.attempts \in Nat /\ rec.attempts < Limit
      BY <1>0, <1>16, <2>2 DEF PumpWakes, RecType, BudgetInv, AttemptIsLeft
    <3>2. rec' = Attempted(pump.at = "woken") /\ pump' = [pump EXCEPT !.at = "replacing"] /\ UNCHANGED <<relay, native, closed>>
      BY <1>16, <2>2 DEF PumpWakes
    <3>3. rec' \in RecType
      BY <1>0, <3>1, <3>2, AttemptedMeans
    <3>4. pump' \in PumpType
      BY <1>0, <3>2 DEF PumpType, PumpPlaces
    <3> QED  BY <1>0, <1>16, <3>2, <3>3, <3>4, TypeFollows DEF PumpWakes
  <2> QED  BY <2>1, <2>2
<1>17. CASE PumpReplaces
  <2>1. pump' \in PumpType /\ relay' \in RelayType
    BY <1>0, <1>17 DEF PumpReplaces, PumpType, PumpPlaces, RelayType, RelayPlaces, Errors
  <2>2. native' \in NativeType
    BY <1>0, <1>17, NativeMeans DEF PumpReplaces
  <2> QED  BY <1>0, <1>17, <2>1, <2>2, TypeFollows DEF PumpReplaces
<1>18. CASE PumpVerifies
  <2>1. pump' \in PumpType /\ relay' \in RelayType
    BY <1>0, <1>18 DEF PumpVerifies, PumpType, PumpPlaces, RelayType, RelayPlaces, Errors
  <2>2. native' \in NativeType
    BY <1>0, <1>18, NativeMeans DEF PumpVerifies
  <2>3. "recovering" \in Envs
    BY DEF Envs
  <2>4. rec' \in RecType
    BY <1>0, <1>18, <2>3, PublishedMeans DEF PumpVerifies
  <2>5. sub' \in SubType
    BY <1>0, <1>18, SubMeans DEF PumpVerifies, Submitters
  <2>6. gen' \in Nat
    BY <1>0, <1>18 DEF PumpVerifies
  <2> QED  BY <1>0, <1>18, <2>1, <2>2, <2>4, <2>5, <2>6, TypeFollows DEF PumpVerifies
<1>19. CASE PumpAnnounces
  BY <1>0, <1>00, <1>19, PublishedMeans, TypeFollows DEF PumpAnnounces, Envs, PumpType, PumpPlaces
<1>20. CASE PumpStops
  BY <1>0, <1>00, <1>20, SubMeans, TypeFollows DEF PumpStops, PumpType, PumpPlaces, Errors, GateType, Submitters
<1>21. CASE StatusReads
  <2>1. rec' \in RecType
    BY <1>0, <1>21 DEF StatusReads, RecType
  <2>2. status' \in StatusType
    BY <1>21 DEF StatusReads, StatusType
  <2>3. sub' \in SubType
    BY <1>0, <1>21, SubMeans DEF StatusReads, Submitters
  <2>4. intent.resend \in BOOLEAN
    BY <1>0 DEF IntentType
  <2>5. intent' \in IntentType
    BY <1>0, <1>21, <2>4, IntentMeans, IntentMarked DEF StatusReads
  <2> QED  BY <1>0, <1>21, <2>1, <2>2, <2>3, <2>5, TypeFollows DEF StatusReads
<1>22. CASE StatusDisconnects
  BY <1>0, <1>00, <1>22, IntentMeans, TypeFollows DEF StatusDisconnects, StatusType
<1>23. CASE StatusResumes
  BY <1>0, <1>00, <1>23, TypeFollows DEF StatusResumes, StatusType
<1>24. ASSUME NEW a \in Submitters, Take(a) PROVE TypeOK'
  <2>0. sub[a] \in SubRecord /\ sub[a].rebuilt \in BOOLEAN /\ intent.interrupted \in Nat /\ intent.episode \in Nat
    BY <1>0 DEF SubType, SubRecord, IntentType
  <2>1. intent' \in IntentType
    BY <1>0, <1>24, <2>0, IntentMeans DEF Take
  <2>2. [sub[a] EXCEPT !.at = "check", !.turn = intent.interrupted, !.episode = intent.episode, !.gen = gen] \in SubRecord
    BY <1>0, <2>0 DEF SubRecord, SubPlaces
  <2>3. sub' \in SubType
    BY <1>0, <1>24, <2>2, SubMeans DEF Take
  <2> QED  BY <1>0, <1>24, <2>1, <2>3, TypeFollows DEF Take
<1>25. ASSUME NEW a \in Submitters, Check(a) PROVE TypeOK'
  <2>1. sub' \in SubType
    BY <1>0, <1>25, SubMeans DEF Check, SubPlaces
  <2>2. gate' \in GateType
    BY <1>0, <1>25 DEF Check, GateType
  <2> QED  BY <1>0, <1>25, <2>1, <2>2, TypeFollows DEF Check
<1>26. ASSUME NEW a \in Submitters, Send(a) PROVE TypeOK'
  <2>1. CASE Alive(sub[a].gen)
    <3>1. /\ native' = Begins /\ sub' = [sub EXCEPT ![a].at = "answer", ![a].got = native'.running]
          /\ hist' = [hist EXCEPT !.continued = @ \cup {<<sub[a].episode, native'.running>>}] /\ UNCHANGED gate
      BY <1>26, <2>1 DEF Send
    <3>2. native' \in NativeType /\ native'.running \in Nat
      BY <1>0, <3>1, NativeMeans
    <3>3. sub' \in SubType /\ sub[a].episode \in Nat
      BY ZenonT(60), <1>0, <3>1, <3>2 DEF SubType, SubRecord, SubPlaces
    <3>4. hist' \in HistType
      BY <1>0, <3>1, <3>2, <3>3, HistMeans
    <3> QED  BY <1>0, <1>26, <3>1, <3>2, <3>3, <3>4, TypeFollows DEF Send
  <2>2. CASE ~Alive(sub[a].gen)
    <3>1. sub' = [sub EXCEPT ![a].at = "confirm"] /\ gate' = "free" /\ UNCHANGED <<native, hist>>
      BY <1>26, <2>2 DEF Send
    <3>2. sub' \in SubType /\ gate' \in GateType
      BY <1>0, <3>1, SubMeans DEF SubPlaces, GateType
    <3> QED  BY <1>0, <1>26, <3>1, <3>2, TypeFollows DEF Send
  <2> QED  BY <2>1, <2>2
<1>27. ASSUME NEW a \in Submitters, Answer(a) PROVE TypeOK'
  <2>0. sub[a].got \in Nat
    BY <1>0 DEF SubType, SubRecord
  <2>1. sub' \in SubType /\ gate' \in GateType
    BY ZenonT(60), <1>0, <1>27, SubMeans DEF Answer, SubPlaces, GateType
  <2>2. intent' \in IntentType
    BY <1>0, <1>27, <2>0, IntentMarked DEF Answer
  <2> QED  BY <1>0, <1>27, <2>1, <2>2, TypeFollows DEF Answer
<1>28. ASSUME NEW a \in Submitters, Confirm(a) PROVE TypeOK'
  <2>1. "unconfirmed" \in Envs
    BY DEF Envs, ActionRequired
  <2>2. rec' \in RecType
    BY <1>0, <1>28, <2>1, PublishedMeans DEF Confirm
  <2>3. sub' \in SubType
    BY <1>0, <1>28, SubMeans DEF Confirm
  <2> QED  BY <1>0, <1>28, <2>2, <2>3, TypeFollows DEF Confirm
<1>29. CASE Message
  <2>1. messages' \in Nat
    BY <1>0, <1>29 DEF Message
  <2>2. CASE rec.env = "exhausted" /\ Notify /\ rec' = [rec EXCEPT !.told = FALSE]
             /\ intent' = [Forgotten(intent) EXCEPT !.pending = "waiting"] /\ user' = [user EXCEPT !.at = "waiting"]
             /\ hist' = [hist EXCEPT !.replaced = @ \cup 1 .. native.made]
    <3>1. rec' \in RecType
      BY <1>0, <2>2 DEF RecType
    <3>2. Forgotten(intent) \in IntentType
      BY <1>0, IntentMeans
    <3>3. intent' \in IntentType /\ user' \in UserType
      BY <1>0, <2>2, <3>2, IntentMarked, UserMeans
    <3>4. hist' \in HistType
      <4>1. 1 .. native.made \in SUBSET Nat
        OBVIOUS
      <4> QED  BY <1>0, <2>2, <4>1, HistMeans
    <3> QED  BY <1>0, <1>29, <2>1, <2>2, <3>1, <3>3, <3>4, NotifyMeans, TypeFollows DEF Message
  <2>3. CASE user' = [at |-> "captured", gen |-> gen] /\ UNCHANGED <<rec, intent, hist, relay, pump>>
    BY <1>0, <1>29, <2>1, <2>3, UserMeans, TypeFollows DEF Message
  <2> QED  BY <1>29, <2>2, <2>3 DEF Message
<1>30. CASE MessageRetries
  <2>1. Forgotten(intent) \in IntentType
    BY <1>0, IntentMeans
  <2>2. intent' \in IntentType
    BY <1>30, <2>1, IntentMarked DEF MessageRetries
  <2>3. hist' \in HistType
    <3>1. 1 .. native.made \in SUBSET Nat
      OBVIOUS
    <3> QED  BY <1>0, <1>30, <3>1, HistMeans DEF MessageRetries
  <2> QED  BY <1>0, <1>30, <2>2, <2>3, NotifyMeans, TypeFollows DEF MessageRetries
<1>31. CASE MessageHears
  <2>1. rec' \in RecType
    BY <1>0, <1>31 DEF MessageHears, RecType
  <2>2. user' \in UserType /\ intent' \in IntentType
    BY <1>0, <1>31, UserMeans, MessageDoneMeans DEF MessageHears
  <2> QED  BY <1>0, <1>31, <2>1, <2>2, TypeFollows DEF MessageHears
<1>32. CASE MessageChecks
  <2>1. user' \in UserType /\ intent' \in IntentType
    BY <1>0, <1>32, UserMeans, MessageDoneMeans DEF MessageChecks
  <2>2. gate' \in GateType
    BY <1>0, <1>32 DEF MessageChecks, GateType
  <2> QED  BY <1>0, <1>32, <2>1, <2>2, TypeFollows DEF MessageChecks
<1>33. CASE MessageSends
  <2>1. user' \in UserType /\ intent' \in IntentType
    BY <1>0, <1>33, UserMeans, MessageDoneMeans DEF MessageSends
  <2>2. gate' \in GateType
    BY <1>0, <1>33 DEF MessageSends, GateType
  <2>3. native' \in NativeType
    BY <1>0, <1>33, NativeMeans DEF MessageSends
  <2> QED  BY <1>0, <1>33, <2>1, <2>2, <2>3, TypeFollows DEF MessageSends
<1>34. CASE MessageAnswered
  <2>1. gate' \in GateType
    BY <1>34 DEF MessageAnswered, GateType
  <2> QED  BY <1>0, <1>34, <2>1, MessageDoneMeans, TypeFollows DEF MessageAnswered
<1>35. CASE Interrupt
  <2>1. intent.current \in Nat
    BY <1>0 DEF IntentType
  <2>2. intent' \in IntentType /\ hist' \in HistType
    BY <1>0, <1>35, <2>1, IntentMeans, HistMeans DEF Interrupt
  <2>3. native' \in NativeType
    BY <1>0, <1>35, <2>1, NativeMeans DEF Interrupt
  <2> QED  BY <1>0, <1>35, <2>2, <2>3, TypeFollows DEF Interrupt
<1>36. CASE Retry
  BY <1>0, <1>00, <1>36, NotifyMeans, TypeFollows DEF Retry
<1>37. CASE Close
  BY <1>0, <1>00, <1>37, ShutDownMeans, TypeFollows DEF Close
<1>38. CASE TurnEnds
  BY <1>0, <1>00, <1>38, NativeMeans, TypeFollows DEF TurnEnds, NativeType, NativeRecord
<1>39. CASE EngineEnds
  BY <1>0, <1>00, <1>39, NativeMeans, TypeFollows DEF EngineEnds
<1> QED
  BY <1>1, <1>2, <1>3, <1>4, <1>5, <1>6, <1>7, <1>8, <1>9, <1>10, <1>11, <1>12, <1>13, <1>14, <1>15, <1>16, <1>17, <1>18, <1>19, <1>20, <1>21, <1>22, <1>23, <1>24, <1>25, <1>26, <1>27, <1>28, <1>29, <1>30, <1>31, <1>32, <1>33, <1>34, <1>35, <1>36, <1>37, <1>38, <1>39
     DEF Next, RelaySteps, PumpSteps, StatusSteps, Submits, MessageSteps

LEMMA BudgetFrame == BudgetInv /\ UNCHANGED <<rec, relay, pump, closed>> => BudgetInv'
BY DEF BudgetInv, OwnerHearsRetry, BudgetHeld, RelayStopped, RelayFailsBack, AttemptIsLeft

\* A closed session: nothing moves any more.
LEMMA BudgetClosed ==
  ASSUME TypeOK, BudgetInv, ShutDown, pump' = pump \/ pump'.at = "dead"
  PROVE  BudgetInv'
<1>1. rec \in RecType /\ relay \in RelayType /\ native \in NativeType
  BY TypeMeans
<1>2. closed' = TRUE /\ rec'.env = "closed" /\ rec'.attempts = rec.attempts /\ relay'.at = "stopped"
  BY <1>1, ShutDownMeans
<1> QED  BY <1>2 DEF BudgetInv, OwnerHearsRetry, BudgetHeld, RelayStopped, RelayFailsBack, AttemptIsLeft

LEMMA BudgetKept == TypeOK /\ BudgetInv /\ Next => BudgetInv'
<1> SUFFICES ASSUME TypeOK, BudgetInv, Next PROVE BudgetInv'
  OBVIOUS
<1>0. /\ rec \in RecType /\ relay \in RelayType /\ pump \in PumpType /\ native \in NativeType /\ BudgetHeld
  BY TypeMeans DEF BudgetInv
<1>1. CASE RelayBreaks
  BY <1>0, <1>1, LimitIsPositive DEF RelayBreaks, RecType, RelayType, PumpType, BudgetInv, OwnerHearsRetry, BudgetHeld, RelayStopped, RelayFailsBack, AttemptIsLeft
<1>2. CASE RelayEnds
  BY <1>0, <1>2, LimitIsPositive DEF RelayEnds, RecType, RelayType, PumpType, BudgetInv, OwnerHearsRetry, BudgetHeld, RelayStopped, RelayFailsBack, AttemptIsLeft
<1>3. CASE RelayWaits
  <2>0. Used \in Nat /\ (~Manual(relay.err) => Used < Limit)
    BY <1>0, LimitIsPositive, UsedMeans DEF Manual
  <2>1. CASE rec.rebuilding
    BY <1>0, <1>3, <2>1 DEF RelayWaits, BudgetInv, OwnerHearsRetry, BudgetHeld, RelayStopped, RelayFailsBack, AttemptIsLeft, RelayType
  <2>2. CASE ~rec.rebuilding /\ Manual(relay.err)
    <3>1. rec' = Counting /\ relay'.at = "failed" /\ relay.at = "lost" /\ UNCHANGED <<pump, closed>>
      BY <1>3, <2>2 DEF RelayWaits
    <3>2. rec'.env = rec.env /\ rec'.attempts = Used /\ Used <= Limit /\ ~rec'.rebuilding
      BY <1>0, <2>2, <3>1, UsedMeans
    <3>3. pump.at /= "asleep"
      BY <3>1 DEF BudgetInv, RelayStopped
    <3> QED  BY <3>1, <3>2, <3>3 DEF BudgetInv, OwnerHearsRetry, BudgetHeld, RelayStopped, RelayFailsBack, AttemptIsLeft
  <2>3. CASE ~rec.rebuilding /\ ~Manual(relay.err)
    <3>1. rec' = Asleep /\ relay'.at = "asleep" /\ relay.at = "lost" /\ UNCHANGED <<pump, closed>>
      BY <1>0, <1>3, <2>3 DEF RelayWaits, RelayType
    <3>2. rec'.env \in {"reconnecting", "closed"} /\ rec'.attempts < Limit /\ rec'.attempts \in Nat /\ ~rec'.rebuilding
      BY <1>0, <2>0, <2>3, <3>1, AsleepMeans
    <3>3. pump.at /= "asleep"
      BY <3>1 DEF BudgetInv, RelayStopped
    <3> QED  BY <3>1, <3>2, <3>3, LimitIsPositive DEF BudgetInv, OwnerHearsRetry, BudgetHeld, RelayStopped, RelayFailsBack, AttemptIsLeft
  <2> QED  BY <2>1, <2>2, <2>3
<1>4. CASE RelayWakes
  <2>0. relay.at \in {"asleep", "woken"} /\ UNCHANGED <<pump, closed>>
    BY <1>4 DEF RelayWakes
  <2>1. CASE relay.at = "asleep" /\ rec.attempts = Unset
    BY <1>0, <1>4, <2>0, <2>1 DEF RelayWakes, BudgetInv, OwnerHearsRetry, BudgetHeld, RelayStopped, RelayFailsBack, AttemptIsLeft
  <2>2. CASE ~(relay.at = "asleep" /\ rec.attempts = Unset)
    <3>1. relay.at /= "woken" => rec.attempts \in Nat /\ rec.attempts < Limit
      BY <1>0, <2>0, <2>2 DEF RecType, BudgetInv, AttemptIsLeft
    <3>2. rec' = Attempted(relay.at = "woken") /\ relay'.at = "trying"
      BY <1>0, <1>4, <2>2 DEF RelayWakes, RelayType
    <3>3. rec'.env \in {"reconnecting", "closed"} /\ rec'.attempts <= Limit /\ (rec'.rebuilding <=> rec.rebuilding)
      BY <1>0, <3>1, <3>2, AttemptedMeans
    <3> QED  BY <2>0, <3>2, <3>3 DEF BudgetInv, OwnerHearsRetry, BudgetHeld, RelayStopped, RelayFailsBack, AttemptIsLeft
  <2> QED  BY <2>1, <2>2
<1>5. CASE RelayTries
  BY <1>0, <1>5, LimitIsPositive DEF RelayTries, RecType, RelayType, PumpType, BudgetInv, OwnerHearsRetry, BudgetHeld, RelayStopped, RelayFailsBack, AttemptIsLeft
<1>6. CASE RelayResends
  BY <1>0, <1>6, LimitIsPositive DEF RelayResends, RecType, RelayType, PumpType, BudgetInv, OwnerHearsRetry, BudgetHeld, RelayStopped, RelayFailsBack, AttemptIsLeft
<1>7. CASE RelayAnnounces
  BY <1>0, <1>7, PublishedMeans, LimitIsPositive, LimitIsPositive DEF RelayAnnounces, Envs, Unset, RecType, RelayType, PumpType, BudgetInv, OwnerHearsRetry, BudgetHeld, RelayStopped, RelayFailsBack, AttemptIsLeft
<1>8. CASE PumpTakes
  BY <1>0, <1>8, LimitIsPositive DEF PumpTakes, RecType, RelayType, PumpType, BudgetInv, OwnerHearsRetry, BudgetHeld, RelayStopped, RelayFailsBack, AttemptIsLeft
<1>9. CASE PumpTakesEnd
  <2>1. CASE rec.env = "ready"
    BY <1>9, <2>1, BudgetClosed DEF PumpTakesEnd, Dies
  <2>2. CASE rec.env /= "ready"
    BY <1>9, <2>2 DEF PumpTakesEnd, BudgetInv, OwnerHearsRetry, BudgetHeld, RelayStopped, RelayFailsBack, AttemptIsLeft
  <2> QED  BY <2>1, <2>2
<1>10. CASE PumpNotices
  BY <1>0, <1>10, LimitIsPositive DEF PumpNotices, RecType, RelayType, PumpType, BudgetInv, OwnerHearsRetry, BudgetHeld, RelayStopped, RelayFailsBack, AttemptIsLeft
<1>11. CASE PumpLooks
  BY <1>0, <1>11, LimitIsPositive DEF PumpLooks, RecType, RelayType, PumpType, BudgetInv, OwnerHearsRetry, BudgetHeld, RelayStopped, RelayFailsBack, AttemptIsLeft
<1>12. CASE PumpResumes
  BY <1>0, <1>12, LimitIsPositive DEF PumpResumes, RecType, RelayType, PumpType, BudgetInv, OwnerHearsRetry, BudgetHeld, RelayStopped, RelayFailsBack, AttemptIsLeft
<1>13. CASE PumpRebuilds
  <2>1. [rec EXCEPT !.rebuilding = TRUE] \in RecType /\ [rec EXCEPT !.rebuilding = TRUE].attempts = rec.attempts
        /\ "recovering" \in Envs
    BY <1>0 DEF RecType, Envs
  <2>2. rec'.env \in {"recovering", "closed"} /\ rec'.attempts = rec.attempts
    BY <1>13, <2>1, PublishedMeans DEF PumpRebuilds
  <2>3. pump'.at = "closing" /\ pump.at = "rebuild" /\ UNCHANGED <<relay, closed>>
    BY <1>0, <1>13 DEF PumpRebuilds, PumpType
  <2> QED  BY <2>2, <2>3 DEF BudgetInv, OwnerHearsRetry, BudgetHeld, RelayStopped, RelayFailsBack, AttemptIsLeft
<1>14. CASE PumpCloses
  BY <1>0, <1>14, LimitIsPositive DEF PumpCloses, RecType, RelayType, PumpType, BudgetInv, OwnerHearsRetry, BudgetHeld, RelayStopped, RelayFailsBack, AttemptIsLeft
<1>15. CASE PumpWaits
  <2>0. Used \in Nat /\ (~Manual(pump.err) => Used < Limit) /\ pump.at = "wait" /\ relay.at = "stopped"
    BY <1>0, <1>15, LimitIsPositive, UsedMeans DEF Manual, PumpWaits, BudgetInv, RelayStopped
  <2>1. CASE ~Manual(pump.err)
    <3>1. rec' = Asleep /\ pump'.at = "asleep" /\ UNCHANGED <<relay, closed>>
      BY <1>0, <1>15, <2>1 DEF PumpWaits, PumpType
    <3>2. rec'.env \in {"reconnecting", "closed"} /\ rec'.attempts < Limit /\ rec'.attempts \in Nat
      BY <1>0, <2>0, <2>1, <3>1, AsleepMeans
    <3> QED  BY <2>0, <3>1, <3>2, LimitIsPositive DEF BudgetInv, OwnerHearsRetry, BudgetHeld, RelayStopped, RelayFailsBack, AttemptIsLeft
  <2>2. CASE Manual(pump.err) /\ rec.rebuilding
    <3>1. rec' = Parked(pump.err) /\ pump'.at = "parked" /\ UNCHANGED <<relay, closed>>
      BY <1>0, <1>15, <2>2 DEF PumpWaits, PumpType
    <3>2. rec'.attempts <= Limit
      BY <1>0, <3>1, ParkedMeans
    <3> QED  BY <2>0, <3>1, <3>2 DEF BudgetInv, OwnerHearsRetry, BudgetHeld, RelayStopped, RelayFailsBack, AttemptIsLeft
  <2>3. CASE Manual(pump.err) /\ ~rec.rebuilding
    BY <1>15, <2>3, BudgetClosed DEF PumpWaits, Dies
  <2> QED  BY <2>1, <2>2, <2>3
<1>16. CASE PumpWakes
  <2>0. pump.at \in {"asleep", "woken"} /\ relay.at = "stopped"
    BY <1>16 DEF PumpWakes, BudgetInv, RelayStopped
  <2>1. CASE pump.at = "asleep" /\ rec.attempts = Unset
    BY <1>16, <2>1, BudgetClosed DEF PumpWakes, Dies
  <2>2. CASE ~(pump.at = "asleep" /\ rec.attempts = Unset)
    <3>1. pump.at /= "woken" => rec.attempts \in Nat /\ rec.attempts < Limit
      BY <1>0, <2>0, <2>2 DEF RecType, BudgetInv, AttemptIsLeft
    <3>2. rec' = Attempted(pump.at = "woken") /\ pump'.at = "replacing" /\ UNCHANGED <<relay, closed>>
      BY <1>0, <1>16, <2>2 DEF PumpWakes, PumpType
    <3>3. rec'.env \in {"reconnecting", "closed"} /\ rec'.attempts <= Limit
      BY <1>0, <3>1, <3>2, AttemptedMeans
    <3> QED  BY <2>0, <3>2, <3>3 DEF BudgetInv, OwnerHearsRetry, BudgetHeld, RelayStopped, RelayFailsBack, AttemptIsLeft
  <2> QED  BY <2>1, <2>2
<1>17. CASE PumpReplaces
  BY <1>0, <1>17, LimitIsPositive DEF PumpReplaces, RecType, RelayType, PumpType, BudgetInv, OwnerHearsRetry, BudgetHeld, RelayStopped, RelayFailsBack, AttemptIsLeft
<1>18. CASE PumpVerifies
  <2>0. "recovering" \in Envs /\ pump.at = "verifying" /\ closed' = closed
    BY <1>18 DEF Envs, PumpVerifies
  <2>1. CASE pump'.at = "wait" /\ relay'.at = "stopped" /\ UNCHANGED rec
    BY <2>0, <2>1 DEF BudgetInv, OwnerHearsRetry, BudgetHeld, RelayStopped, RelayFailsBack, AttemptIsLeft
  <2>2. CASE pump'.at = "continuing" /\ rec' = Published(rec, "recovering") /\ UNCHANGED relay
    <3>1. rec'.env \in {"recovering", "closed"} /\ rec'.attempts = rec.attempts /\ (rec'.rebuilding <=> rec.rebuilding)
      BY <1>0, <2>0, <2>2, PublishedMeans
    <3> QED  BY <2>0, <2>2, <3>1 DEF BudgetInv, OwnerHearsRetry, BudgetHeld, RelayStopped, RelayFailsBack, AttemptIsLeft
  <2> QED  BY <1>0, <1>18, <2>1, <2>2 DEF PumpVerifies, RelayType
<1>19. CASE PumpAnnounces
  <2>0. "ready" \in Envs /\ pump.at = "continuing" /\ pump'.at = "select" /\ UNCHANGED <<relay, closed>>
    BY <1>0, <1>19 DEF Envs, PumpAnnounces, PumpType
  <2>1. CASE rec' = rec
    BY <2>0, <2>1 DEF BudgetInv, OwnerHearsRetry, BudgetHeld, RelayStopped, RelayFailsBack, AttemptIsLeft
  <2>2. CASE rec' = Published(rec, "ready")
    <3>1. rec'.env \in {"ready", "closed"} /\ rec'.attempts \in {rec.attempts, Unset}
      BY <1>0, <2>0, <2>2, PublishedMeans
    <3> QED  BY <2>0, <2>2, <3>1, LimitIsPositive DEF BudgetInv, OwnerHearsRetry, BudgetHeld, RelayStopped, RelayFailsBack, AttemptIsLeft, Unset
  <2> QED  BY <1>19, <2>1, <2>2 DEF PumpAnnounces
<1>20. CASE PumpStops
  BY <1>0, <1>20, LimitIsPositive DEF PumpStops, RecType, RelayType, PumpType, BudgetInv, OwnerHearsRetry, BudgetHeld, RelayStopped, RelayFailsBack, AttemptIsLeft
<1>21. CASE StatusReads
  BY <1>0, <1>21, LimitIsPositive DEF StatusReads, RecType, RelayType, PumpType, BudgetInv, OwnerHearsRetry, BudgetHeld, RelayStopped, RelayFailsBack, AttemptIsLeft
<1>22. CASE StatusDisconnects
  BY <1>22, BudgetFrame DEF StatusDisconnects
<1>23. CASE StatusResumes
  BY <1>23, BudgetFrame DEF StatusResumes
<1>24. ASSUME NEW a \in Submitters, Take(a) PROVE BudgetInv'
  BY <1>24, BudgetFrame DEF Take
<1>25. ASSUME NEW a \in Submitters, Check(a) PROVE BudgetInv'
  BY <1>25, BudgetFrame DEF Check
<1>26. ASSUME NEW a \in Submitters, Send(a) PROVE BudgetInv'
  BY <1>26, BudgetFrame DEF Send
<1>27. ASSUME NEW a \in Submitters, Answer(a) PROVE BudgetInv'
  BY <1>27, BudgetFrame DEF Answer
<1>28. ASSUME NEW a \in Submitters, Confirm(a) PROVE BudgetInv'
  BY <1>0, <1>28, PublishedMeans, LimitIsPositive DEF Confirm, Envs, ActionRequired, RecType, RelayType, PumpType, BudgetInv, OwnerHearsRetry, BudgetHeld, RelayStopped, RelayFailsBack, AttemptIsLeft
<1>29. CASE Message
  BY <1>0, <1>29, NotifyMeans, LimitIsPositive DEF Message, Woken, RecType, RelayType, PumpType, BudgetInv, OwnerHearsRetry, BudgetHeld, RelayStopped, RelayFailsBack, AttemptIsLeft
<1>30. CASE MessageRetries
  BY <1>0, <1>30, NotifyMeans, LimitIsPositive DEF MessageRetries, Woken, RecType, RelayType, PumpType, BudgetInv, OwnerHearsRetry, BudgetHeld, RelayStopped, RelayFailsBack, AttemptIsLeft
<1>31. CASE MessageHears
  BY <1>0, <1>31, LimitIsPositive DEF MessageHears, RecType, RelayType, PumpType, BudgetInv, OwnerHearsRetry, BudgetHeld, RelayStopped, RelayFailsBack, AttemptIsLeft
<1>32. CASE MessageChecks
  BY <1>32, BudgetFrame DEF MessageChecks
<1>33. CASE MessageSends
  BY <1>33, BudgetFrame DEF MessageSends
<1>34. CASE MessageAnswered
  BY <1>34, BudgetFrame DEF MessageAnswered
<1>35. CASE Interrupt
  BY <1>35, BudgetFrame DEF Interrupt
<1>36. CASE Retry
  BY <1>0, <1>36, NotifyMeans, LimitIsPositive DEF Retry, Woken, RecType, RelayType, PumpType, BudgetInv, OwnerHearsRetry, BudgetHeld, RelayStopped, RelayFailsBack, AttemptIsLeft
<1>37. CASE Close
  BY <1>37, BudgetClosed DEF Close
<1>38. CASE TurnEnds
  BY <1>38, BudgetFrame DEF TurnEnds
<1>39. CASE EngineEnds
  BY <1>39, BudgetFrame DEF EngineEnds
<1> QED
  BY <1>1, <1>2, <1>3, <1>4, <1>5, <1>6, <1>7, <1>8, <1>9, <1>10, <1>11, <1>12, <1>13, <1>14, <1>15, <1>16, <1>17, <1>18, <1>19, <1>20, <1>21, <1>22, <1>23, <1>24, <1>25, <1>26, <1>27, <1>28, <1>29, <1>30, <1>31, <1>32, <1>33, <1>34, <1>35, <1>36, <1>37, <1>38, <1>39
     DEF Next, RelaySteps, PumpSteps, StatusSteps, Submits, MessageSteps

LEMMA EpisodeFrame ==
  ASSUME EpisodeInv, intent \in IntentType, intent'.drawn = intent.drawn, intent'.episode \in {None, intent.episode},
         hist'.continued = hist.continued,
         \A a \in Submitters : sub'[a].at \in {"check", "send"} => Holding(a) /\ sub'[a].episode = sub[a].episode
  PROVE  EpisodeInv'
<1>1. None <= intent.drawn
  BY DEF None, IntentType
<1> QED  BY <1>1 DEF EpisodeInv, MarkersApart, ContinuedOnce, Holding

LEMMA EpisodeBegins ==
  ASSUME EpisodeInv, intent \in IntentType, sub \in SubType, hist \in HistType,
         intent' = Disconnected(intent), UNCHANGED <<sub, hist>>
  PROVE  EpisodeInv'
<1>1. CASE Disconnected(intent) = intent
  BY <1>1 DEF EpisodeInv, MarkersApart, ContinuedOnce, Holding
<1>2. CASE intent'.drawn = intent.drawn + 1 /\ intent'.episode = intent.drawn + 1
  <2>1. intent.drawn \in Nat /\ (\A a \in Submitters : sub[a].episode \in Nat) /\ (\A p \in hist.continued : p[1] \in Nat)
    BY DEF IntentType, SubType, SubRecord, HistType
  <2> QED  BY <1>2, <2>1 DEF EpisodeInv, MarkersApart, ContinuedOnce, Holding, None
<1> QED  BY <1>1, <1>2, IntentMeans

LEMMA EpisodeKept == TypeOK /\ EpisodeInv /\ Next => EpisodeInv'
<1> SUFFICES ASSUME TypeOK, EpisodeInv, Next PROVE EpisodeInv'
  OBVIOUS
<1>0. /\ intent \in IntentType /\ sub \in SubType /\ hist \in HistType /\ native \in NativeType /\ EpisodeInv
  BY TypeMeans
<1>1. CASE RelayBreaks
  BY <1>0, <1>1, EpisodeFrame DEF RelayBreaks, Holding
<1>2. CASE RelayEnds
  BY <1>0, <1>2, EpisodeFrame DEF RelayEnds, Holding
<1>3. CASE RelayWaits
  BY <1>0, <1>3, EpisodeFrame DEF RelayWaits, Holding
<1>4. CASE RelayWakes
  BY <1>0, <1>4, EpisodeFrame DEF RelayWakes, Holding
<1>5. CASE RelayTries
  BY <1>0, <1>5, EpisodeFrame DEF RelayTries, Holding
<1>6. CASE RelayResends
  BY <1>0, <1>6, EpisodeFrame DEF RelayResends, Holding
<1>7. CASE RelayAnnounces
  BY <1>0, <1>7, EpisodeFrame DEF RelayAnnounces, Holding
<1>8. CASE PumpTakes
  <2>1. Event \in Events /\ Event.turn \in Nat
    BY <1>0, <1>8, NativeMeans DEF PumpTakes, Events
  <2>2. \A j \in {Started(intent, Event.turn), Ended(intent, Event.turn, Event.outcome)} :
          j.episode = intent.episode /\ j.drawn = intent.drawn
    BY <1>0, <2>1 DEF Started, Ended, IntentType
  <2>3. intent'.episode = intent.episode /\ intent'.drawn = intent.drawn
    BY <1>8, <2>2 DEF PumpTakes
  <2>4. hist'.continued = hist.continued /\ sub' = sub
    BY <1>0, <1>8 DEF PumpTakes, HistType
  <2> QED  BY <1>0, <2>3, <2>4, EpisodeFrame DEF Holding
<1>9. CASE PumpTakesEnd
  BY <1>0, <1>9, EpisodeFrame DEF PumpTakesEnd, Holding
<1>10. CASE PumpNotices
  BY <1>0, <1>10, EpisodeFrame DEF PumpNotices, Holding
<1>11. CASE PumpLooks
  BY <1>0, <1>11, EpisodeFrame DEF PumpLooks, NoSubmission, SubType, Holding
<1>12. CASE PumpResumes
  BY <1>0, <1>12, EpisodeFrame DEF PumpResumes, Holding
<1>13. CASE PumpRebuilds
  BY <1>0, <1>13, EpisodeBegins, EpisodeFrame DEF PumpRebuilds, Holding
<1>14. CASE PumpCloses
  BY <1>0, <1>14, IntentMeans, EpisodeFrame DEF PumpCloses, Holding
<1>15. CASE PumpWaits
  BY <1>0, <1>15, EpisodeFrame DEF PumpWaits, Holding
<1>16. CASE PumpWakes
  BY <1>0, <1>16, EpisodeFrame DEF PumpWakes, Holding
<1>17. CASE PumpReplaces
  BY <1>0, <1>17, EpisodeFrame DEF PumpReplaces, Holding
<1>18. CASE PumpVerifies
  BY <1>0, <1>18, EpisodeFrame DEF PumpVerifies, NoSubmission, SubType, Holding
<1>19. CASE PumpAnnounces
  BY <1>0, <1>19, EpisodeFrame DEF PumpAnnounces, Holding
<1>20. CASE PumpStops
  BY <1>0, <1>20, EpisodeFrame DEF PumpStops, NoSubmission, SubType, Holding
<1>21. CASE StatusReads
  <2>1. intent.resend \in BOOLEAN
    BY <1>0 DEF IntentType
  <2>2. intent'.episode = intent.episode /\ intent'.drawn = intent.drawn
    <3>1. Finished(intent).episode = intent.episode /\ Finished(intent).drawn = intent.drawn
      BY <1>0 DEF Finished, Ended, IntentType
    <3>2. intent' = Finished(intent) \/ \E b \in BOOLEAN : intent' = [intent EXCEPT !.resend = b]
      BY <1>21, <2>1 DEF StatusReads
    <3> QED  BY ZenonT(60), <1>0, <3>1, <3>2, IntentMarked
  <2>3. ASSUME NEW a \in Submitters, sub'[a].at \in {"check", "send"} PROVE Holding(a) /\ sub'[a].episode = sub[a].episode
    <3>1. sub' = sub \/ sub' = [sub EXCEPT !["status"] = [NoSubmission EXCEPT !.at = "take"]]
      BY <1>21 DEF StatusReads
    <3> QED  BY <1>0, <2>3, <3>1 DEF SubType, NoSubmission, Holding
  <2> QED  BY <1>0, <1>21, <2>2, <2>3, EpisodeFrame DEF StatusReads
<1>22. CASE StatusDisconnects
  BY <1>0, <1>22, EpisodeBegins, EpisodeFrame DEF StatusDisconnects, Holding
<1>23. CASE StatusResumes
  BY <1>0, <1>23, EpisodeFrame DEF StatusResumes, Holding
<1>24. ASSUME NEW a \in Submitters, Take(a) PROVE EpisodeInv'
  <2>0. sub[a].rebuilt \in BOOLEAN /\ sub[a].at = "take" /\ hist' = hist
    BY <1>0, <1>24 DEF SubType, SubRecord, Take
  <2>1. intent' = intent \/ (intent'.episode = None /\ intent'.drawn = intent.drawn)
    BY <1>0, <1>24, <2>0, IntentMeans DEF Take
  <2>2. CASE sub' = [sub EXCEPT ![a] = NoSubmission]
    BY <1>0, <2>0, <2>1, <2>2, EpisodeFrame DEF SubType, NoSubmission, Holding
  <2>3. CASE /\ intent.episode /= None /\ intent' = Consumed(intent, sub[a].rebuilt)
             /\ sub' = [sub EXCEPT ![a] = [@ EXCEPT !.at = "check", !.turn = intent.interrupted,
                                                    !.episode = intent.episode, !.gen = gen]]
    <3>1. intent'.episode = None /\ intent'.drawn = intent.drawn /\ ~Holding(a)
      BY <1>0, <2>0, <2>3, IntentMeans DEF Holding
    <3>2. sub'[a].episode = intent.episode /\ \A b \in Submitters : b /= a => sub'[b] = sub[b]
      BY <1>0, <2>3 DEF SubType, SubRecord
    <3>3. intent.episode \in Nat /\ intent.drawn \in Nat
      BY <1>0 DEF IntentType
    <3> QED  BY <1>0, <2>0, <2>3, <3>1, <3>2, <3>3 DEF EpisodeInv, MarkersApart, ContinuedOnce, Holding, None
  <2> QED  BY <1>24, <2>2, <2>3 DEF Take
<1>25. ASSUME NEW a \in Submitters, Check(a) PROVE EpisodeInv'
  BY <1>0, <1>25, EpisodeFrame DEF Check, NoSubmission, SubType, SubRecord, Holding
<1>26. ASSUME NEW a \in Submitters, Send(a) PROVE EpisodeInv'
  <2>0. sub[a].at = "send" /\ intent' = intent /\ Holding(a)
    BY <1>26 DEF Send, Holding
  <2>1. CASE sub' = [sub EXCEPT ![a].at = "confirm"] /\ hist' = hist
    BY <1>0, <2>0, <2>1, EpisodeFrame DEF SubType, SubRecord, Holding
  <2>2. CASE /\ sub' = [sub EXCEPT ![a].at = "answer", ![a].got = native'.running]
             /\ hist' = [hist EXCEPT !.continued = @ \cup {<<sub[a].episode, native'.running>>}]
    <3>1. /\ sub'[a].at = "answer"
          /\ \A b \in Submitters : b /= a => sub'[b] = sub[b]
          /\ hist'.continued = hist.continued \cup {<<sub[a].episode, native'.running>>}
      BY <1>0, <2>2 DEF SubType, SubRecord, HistType
    <3>2. /\ sub[a].episode <= intent.drawn /\ sub[a].episode \notin {None, intent.episode}
          /\ \A b \in Submitters : Holding(b) /\ sub[b].episode = sub[a].episode => b = a
          /\ \A p \in hist.continued : p[1] /= sub[a].episode
      BY <1>0, <2>0 DEF EpisodeInv, MarkersApart
    <3>3. MarkersApart'
      BY <1>0, <2>0, <3>1, <3>2 DEF EpisodeInv, MarkersApart, Holding
    <3>4. ContinuedOnce'
      BY <1>0, <3>1, <3>2 DEF EpisodeInv, ContinuedOnce
    <3> QED  BY <3>3, <3>4 DEF EpisodeInv
  <2> QED  BY <1>26, <2>1, <2>2 DEF Send
<1>27. ASSUME NEW a \in Submitters, Answer(a) PROVE EpisodeInv'
  <2>1. sub[a].got \in Nat
    BY <1>0 DEF SubType, SubRecord
  <2>2. intent'.episode = intent.episode /\ intent'.drawn = intent.drawn
    BY ZenonT(60), <1>0, <1>27, <2>1, IntentMarked DEF Answer
  <2>3. ASSUME NEW b \in Submitters, sub'[b].at \in {"check", "send"} PROVE Holding(b) /\ sub'[b].episode = sub[b].episode
    BY <1>0, <1>27, <2>3 DEF Answer, SubType, SubRecord, NoSubmission, Holding
  <2> QED  BY <1>0, <1>27, <2>2, <2>3, EpisodeFrame DEF Answer
<1>28. ASSUME NEW a \in Submitters, Confirm(a) PROVE EpisodeInv'
  BY <1>0, <1>28, EpisodeFrame DEF Confirm, NoSubmission, SubType, Holding
<1>29. CASE Message
  <2>1. Forgotten(intent) \in IntentType /\ Forgotten(intent).episode = None /\ Forgotten(intent).drawn = intent.drawn
    BY <1>0, IntentMeans
  <2>2. intent'.episode \in {None, intent.episode} /\ intent'.drawn = intent.drawn
    BY <1>29, <2>1, IntentMarked DEF Message
  <2>3. hist'.continued = hist.continued /\ sub' = sub
    BY <1>0, <1>29 DEF Message, HistType
  <2> QED  BY <1>0, <2>2, <2>3, EpisodeFrame DEF Holding
<1>30. CASE MessageRetries
  BY ZenonT(60), <1>0, <1>30, IntentMeans, IntentMarked, EpisodeFrame DEF MessageRetries, HistType, Holding
<1>31. CASE MessageHears
  BY <1>0, <1>31, MessageDoneMeans, EpisodeFrame DEF MessageHears, Holding
<1>32. CASE MessageChecks
  BY <1>0, <1>32, MessageDoneMeans, EpisodeFrame DEF MessageChecks, Holding
<1>33. CASE MessageSends
  BY <1>0, <1>33, MessageDoneMeans, EpisodeFrame DEF MessageSends, Holding
<1>34. CASE MessageAnswered
  BY <1>0, <1>34, MessageDoneMeans, EpisodeFrame DEF MessageAnswered, Holding
<1>35. CASE Interrupt
  BY <1>0, <1>35, IntentMeans, EpisodeFrame DEF Interrupt, HistType, IntentType, Holding
<1>36. CASE Retry
  BY <1>0, <1>36, EpisodeFrame DEF Retry, Holding
<1>37. CASE Close
  BY <1>0, <1>37, EpisodeFrame DEF Close, Holding
<1>38. CASE TurnEnds
  BY <1>0, <1>38, EpisodeFrame DEF TurnEnds, Holding
<1>39. CASE EngineEnds
  BY <1>0, <1>39, EpisodeFrame DEF EngineEnds, Holding
<1> QED
  BY <1>1, <1>2, <1>3, <1>4, <1>5, <1>6, <1>7, <1>8, <1>9, <1>10, <1>11, <1>12, <1>13, <1>14, <1>15, <1>16, <1>17, <1>18, <1>19, <1>20, <1>21, <1>22, <1>23, <1>24, <1>25, <1>26, <1>27, <1>28, <1>29, <1>30, <1>31, <1>32, <1>33, <1>34, <1>35, <1>36, <1>37, <1>38, <1>39
     DEF Next, RelaySteps, PumpSteps, StatusSteps, Submits, MessageSteps

-----------------------------------------------------------------------------
RecoveryInv == TypeOK /\ BudgetInv /\ EpisodeInv

LEMMA RecoveryKept == RecoveryInv /\ [Next]_vars => RecoveryInv'
<1> SUFFICES ASSUME RecoveryInv, [Next]_vars PROVE RecoveryInv'
  OBVIOUS
<1>1. CASE Next
  BY <1>1, TypeKept, BudgetKept, EpisodeKept DEF RecoveryInv
<1>2. CASE UNCHANGED vars
  <2>1. TypeOK'
    BY <1>2, TypeMeans, TypeFollows DEF vars, RecoveryInv
  <2>2. BudgetInv'
    BY <1>2, BudgetFrame DEF vars, RecoveryInv
  <2>3. EpisodeInv'
    BY <1>2 DEF vars, RecoveryInv, EpisodeInv, MarkersApart, ContinuedOnce, Holding
  <2> QED  BY <2>1, <2>2, <2>3 DEF RecoveryInv
<1> QED  BY <1>1, <1>2

(* The budget, the waiters and the markers of a session agree in every state it reaches. *)
THEOREM RecoveryHolds == Spec => []RecoveryInv
<1>1. Init => RecoveryInv
  BY RecoveryInitially DEF RecoveryInv
<1>2. RecoveryInv /\ [Next]_vars => RecoveryInv'
  BY RecoveryKept
<1> QED  BY <1>1, <1>2, PTL DEF Spec

(* Each task, the intent of the session and the engine keep their types. *)
THEOREM RecoveryTypes == Spec => []TypeOK
<1>1. RecoveryInv => TypeOK
  BY DEF RecoveryInv
<1> QED  BY <1>1, RecoveryHolds, PTL

(* recovery.rs, wait: a Retry that is offered is heard, because only the owner of the session
   parks, and it is registered before the state it publishes. *)
THEOREM RetryIsHeard == Spec => []OwnerHearsRetry
<1>1. RecoveryInv => OwnerHearsRetry
  BY DEF RecoveryInv, BudgetInv
<1> QED  BY <1>1, RecoveryHolds, PTL

(* recovery.rs, attempts: whatever the transport and the owner do, and however often the user asks
   for another attempt, they never use more than the limit, and never wait both while rebuilding. *)
THEOREM BudgetIsShared == Spec => []OneBudget
<1>1. RecoveryInv => OneBudget
  BY DEF RecoveryInv, BudgetInv, OneBudget, RelayStopped, RelayFailsBack, OneWaiter, Waiting
<1> QED  BY <1>1, RecoveryHolds, PTL

(* supervisor.rs, continue_interrupted: the marker of an episode reaches Codex at most once. *)
THEOREM MarkerIsSubmittedOnce == Spec => []ContinuedOnce
<1>1. RecoveryInv => ContinuedOnce
  BY DEF RecoveryInv, EpisodeInv
<1> QED  BY <1>1, RecoveryHolds, PTL

-----------------------------------------------------------------------------
(* Which turns a continuation may be of. *)

\* What Codex has said of its turns, and the session has not read yet: each turn starts after those
\* before it have ended, and only one that has started ends.
Known(q, k, current) ==
  \/ \E j \in 1 .. k - 1 : q[j].kind = "started" /\ q[j].turn = q[k].turn
  \/ (\A j \in 1 .. k - 1 : q[j].kind # "started") /\ current \in {None, q[k].turn}
Unread(q, current, completed, cancelled, made) ==
  /\ \A k \in 1 .. Len(q) : q[k].turn <= made /\ (q[k].kind = "ended" => q[k].turn # None)
  /\ \A k \in 1 .. Len(q) : q[k].kind = "started" =>
       /\ q[k].turn > current /\ q[k].turn > completed /\ q[k].turn > cancelled
       /\ \A j \in 1 .. k - 1 : q[j].turn < q[k].turn
  /\ \A k \in 1 .. Len(q) : q[k].kind = "ended" =>
       /\ q[k].turn >= completed /\ Known(q, k, current)
       /\ \A j \in 1 .. k - 1 : q[j].turn <= q[k].turn
TurnAtWork(q, current, running, made) ==
  running # None =>
    /\ running = made
    /\ \/ \E j \in 1 .. Len(q) : q[j].kind = "started" /\ q[j].turn = running
       \/ (\A j \in 1 .. Len(q) : q[j].kind # "started") /\ current \in {None, running}
QueueInv ==
  /\ Unread(native.events, intent.current, intent.completed, intent.cancelled, native.made)
  /\ TurnAtWork(native.events, intent.current, native.running, native.made)

\* Turns are seen, stopped and completed in the order of their numbers.
StopsInv ==
  /\ intent.current <= native.made /\ intent.completed <= native.made /\ intent.cancelled <= native.made
  /\ intent.current # None => intent.completed < intent.current /\ intent.cancelled <= intent.current
  /\ hist.cancelled # {} => intent.cancelled \in hist.cancelled
  /\ \A t \in hist.cancelled : t # None /\ t <= intent.cancelled
  /\ \A t \in hist.completed : t # None /\ t <= intent.completed

\* A turn at work, or to be continued, is neither stopped nor completed.
ContinuableInv ==
  /\ intent.active # None /\ intent.current # None => intent.active >= intent.current
  /\ intent.active \in hist.cancelled => intent.active = intent.cancelled
  /\ intent.active \notin hist.completed
  /\ intent.interrupted \notin hist.cancelled \cup hist.completed

\* The turn gate: while a continuation waits for its answer no other turn begins.
GateInv ==
  /\ \A a \in Submitters : sub[a].at \in {"send", "answer"} => gate = a
  /\ user.at \in {"checked", "sent"} => gate = "user"
  /\ \A a \in Submitters : sub[a].at = "answer" => sub[a].got = native.made

\* While the owner waits, replaces or verifies there is no engine at work.
RestInv ==
  /\ pump.at \in Waiting \cup {"wait", "replacing"} => ~native.alive
  /\ pump.at \in Waiting \cup {"wait", "replacing", "verifying"} => native.running = None

MarksInv == QueueInv /\ StopsInv /\ ContinuableInv
TurnInv == MarksInv /\ GateInv /\ RestInv

(* The queue of Codex: its elements, and what is left when the first is read. *)
LEMMA QueueReads ==
  ASSUME NEW q \in EventQueue
  PROVE  /\ Len(q) \in Nat /\ \A k \in 1 .. Len(q) : q[k] \in Events /\ q[k].turn \in Nat
         /\ q # <<>> => /\ Head(q) = q[1] /\ 1 \in 1 .. Len(q)
                        /\ Tail(q) \in EventQueue /\ Len(Tail(q)) = Len(q) - 1
                        /\ \A k \in 1 .. Len(q) - 1 : Tail(q)[k] = q[k + 1] /\ k + 1 \in 1 .. Len(q)
<1>1. q \in Seq(Events) /\ Len(q) \in Nat
  BY DEF EventQueue
<1>2. ASSUME NEW k \in 1 .. Len(q) PROVE q[k] \in Events /\ q[k].turn \in Nat
  <2>1. q[k] \in Events
    BY <1>1
  <2> QED  BY <2>1 DEF Events
<1>3. ASSUME q # <<>>
      PROVE  /\ Head(q) = q[1] /\ 1 \in 1 .. Len(q)
             /\ Tail(q) \in EventQueue /\ Len(Tail(q)) = Len(q) - 1
             /\ \A k \in 1 .. Len(q) - 1 : Tail(q)[k] = q[k + 1] /\ k + 1 \in 1 .. Len(q)
  BY <1>1, <1>3 DEF EventQueue
<1> QED  BY <1>1, <1>2, <1>3

LEMMA QueueAppends ==
  ASSUME NEW q \in EventQueue, NEW e \in Events
  PROVE  /\ Append(q, e) \in EventQueue /\ Len(Append(q, e)) = Len(q) + 1 /\ Append(q, e)[Len(q) + 1] = e
         /\ \A k \in 1 .. Len(q) : Append(q, e)[k] = q[k]
BY DEF EventQueue

(* Reading that a turn has started: it is the current one. *)
LEMMA StartedRead ==
  ASSUME NEW q \in EventQueue, q # <<>>, NEW current \in Nat, NEW completed \in Nat, NEW cancelled \in Nat,
         NEW made \in Nat, Unread(q, current, completed, cancelled, made), Head(q).kind = "started"
  PROVE  /\ Unread(Tail(q), Head(q).turn, completed, cancelled, made)
         /\ Head(q).turn > current /\ Head(q).turn > completed /\ Head(q).turn > cancelled /\ Head(q).turn <= made
<1> DEFINE t == Head(q).turn
           r == Tail(q)
           n == Len(q) - 1
<1>0. /\ Len(q) \in Nat /\ n \in Nat /\ Len(r) = n /\ q[1].kind = "started" /\ q[1].turn = t /\ t \in Nat /\ 1 \in 1 .. Len(q)
      /\ \A k \in 1 .. n : r[k] = q[k + 1] /\ k + 1 \in 1 .. Len(q) /\ q[k + 1].turn \in Nat
  BY QueueReads
<1>1. t > current /\ t > completed /\ t > cancelled /\ t <= made
  BY <1>0 DEF Unread
<1> HIDE DEF t, r, n
<1>2. ASSUME NEW k \in 1 .. n PROVE r[k].turn <= made /\ (r[k].kind = "ended" => r[k].turn # None)
  BY <1>0, <1>2 DEF Unread
<1>3. ASSUME NEW k \in 1 .. n, r[k].kind = "started"
      PROVE  /\ r[k].turn > t /\ r[k].turn > completed /\ r[k].turn > cancelled
             /\ \A j \in 1 .. k - 1 : r[j].turn < r[k].turn
  <2>1. k + 1 \in 1 .. Len(q) /\ q[k + 1].kind = "started" /\ r[k].turn = q[k + 1].turn
    BY <1>0, <1>3
  <2>2. /\ q[k + 1].turn > completed /\ q[k + 1].turn > cancelled
        /\ \A j \in 1 .. (k + 1) - 1 : q[j].turn < q[k + 1].turn
    BY <2>1 DEF Unread
  <2>3. 1 \in 1 .. (k + 1) - 1 /\ \A j \in 1 .. k - 1 : j + 1 \in 1 .. (k + 1) - 1 /\ j \in 1 .. n
    <3>1. n \in Nat /\ k \in Nat /\ 1 <= k /\ k <= n
      BY <1>0
    <3> QED  BY ONLY <3>1, SMTT(30)
  <2>4. \A j \in 1 .. k - 1 : r[j].turn < r[k].turn
    BY <1>0, <2>1, <2>2, <2>3
  <2>5. q[1].turn < q[k + 1].turn
    BY <2>2, <2>3
  <2>6. r[k].turn > t
    BY <1>0, <2>1, <2>5
  <2> QED  BY <2>1, <2>2, <2>4, <2>6
<1>4. ASSUME NEW k \in 1 .. n, r[k].kind = "ended"
      PROVE  /\ r[k].turn >= completed /\ Known(r, k, t)
             /\ \A j \in 1 .. k - 1 : r[j].turn <= r[k].turn
  <2>1. k + 1 \in 1 .. Len(q) /\ q[k + 1].kind = "ended" /\ r[k].turn = q[k + 1].turn
    BY <1>0, <1>4
  <2>2. /\ q[k + 1].turn >= completed /\ Known(q, k + 1, current)
        /\ \A j \in 1 .. (k + 1) - 1 : q[j].turn <= q[k + 1].turn
    BY <2>1 DEF Unread
  <2>3. 1 \in 1 .. (k + 1) - 1 /\ \A j \in 1 .. k - 1 : j + 1 \in 1 .. (k + 1) - 1 /\ j \in 1 .. n
    <3>1. n \in Nat /\ k \in Nat /\ 1 <= k /\ k <= n
      BY <1>0
    <3> QED  BY ONLY <3>1, SMTT(30)
  <2>4. \A j \in 1 .. k - 1 : r[j].turn <= r[k].turn
    BY <1>0, <2>1, <2>2, <2>3
  <2>5. PICK j \in 1 .. (k + 1) - 1 : q[j].kind = "started" /\ q[j].turn = q[k + 1].turn
    BY <1>0, <2>2, <2>3 DEF Known
  <2>6. CASE j = 1
    <3>1. \A i \in 1 .. k - 1 : r[i].kind # "started"
      <4>1. SUFFICES ASSUME NEW i \in 1 .. k - 1, r[i].kind = "started" PROVE FALSE
        OBVIOUS
      <4>2. i \in 1 .. n /\ r[i].turn > t
        BY <1>3, <2>3, <4>1
      <4>3. r[i].turn <= r[k].turn /\ r[k].turn = t
        BY <1>0, <2>1, <2>4, <2>5, <2>6, <4>1
      <4>4. r[i].turn \in Nat
        BY <1>0, <4>2
      <4> QED  BY <1>0, <4>2, <4>3, <4>4
    <3> QED  BY <1>0, <2>1, <2>2, <2>4, <2>5, <2>6, <3>1 DEF Known
  <2>7. CASE j # 1
    <3>1. j - 1 \in 1 .. k - 1 /\ j - 1 \in 1 .. n /\ (j - 1) + 1 = j
      BY <1>0, <2>5, <2>7
    <3>2. r[j - 1] = q[j]
      BY <1>0, <3>1
    <3> QED  BY <2>1, <2>2, <2>4, <2>5, <3>1, <3>2 DEF Known
  <2> QED  BY <2>6, <2>7
<1>5. Unread(r, t, completed, cancelled, made)
  BY <1>0, <1>2, <1>3, <1>4 DEF Unread
<1> QED  BY <1>1, <1>5 DEF t, r

(* Reading that a turn has ended: it was the current one, if any was. *)
LEMMA EndedRead ==
  ASSUME NEW q \in EventQueue, q # <<>>, NEW current \in Nat, NEW completed \in Nat, NEW cancelled \in Nat,
         NEW made \in Nat, Unread(q, current, completed, cancelled, made), Head(q).kind = "ended"
  PROVE  /\ Unread(Tail(q), None, Head(q).turn, cancelled, made)
         /\ current \in {None, Head(q).turn} /\ Head(q).turn >= completed /\ Head(q).turn <= made /\ Head(q).turn # None
<1> DEFINE t == Head(q).turn
           r == Tail(q)
           n == Len(q) - 1
<1>0. /\ Len(q) \in Nat /\ n \in Nat /\ Len(r) = n /\ q[1].kind = "ended" /\ q[1].turn = t /\ t \in Nat /\ 1 \in 1 .. Len(q)
      /\ \A k \in 1 .. n : r[k] = q[k + 1] /\ k + 1 \in 1 .. Len(q) /\ q[k + 1].turn \in Nat
  BY QueueReads
<1>1. current \in {None, t} /\ t >= completed /\ t <= made /\ t # None
  BY <1>0 DEF Unread, Known
<1> HIDE DEF t, r, n
<1>2. ASSUME NEW k \in 1 .. n PROVE r[k].turn <= made /\ (r[k].kind = "ended" => r[k].turn # None)
  BY <1>0, <1>2 DEF Unread
<1>3. ASSUME NEW k \in 1 .. n, r[k].kind = "started"
      PROVE  /\ r[k].turn > None /\ r[k].turn > t /\ r[k].turn > cancelled
             /\ \A j \in 1 .. k - 1 : r[j].turn < r[k].turn
  <2>1. k + 1 \in 1 .. Len(q) /\ q[k + 1].kind = "started" /\ r[k].turn = q[k + 1].turn /\ r[k].turn \in Nat
    BY <1>0, <1>3
  <2>2. /\ q[k + 1].turn > current /\ q[k + 1].turn > cancelled
        /\ \A j \in 1 .. (k + 1) - 1 : q[j].turn < q[k + 1].turn
    BY <2>1 DEF Unread
  <2>3. 1 \in 1 .. (k + 1) - 1 /\ \A j \in 1 .. k - 1 : j + 1 \in 1 .. (k + 1) - 1 /\ j \in 1 .. n
    <3>1. n \in Nat /\ k \in Nat /\ 1 <= k /\ k <= n
      BY <1>0
    <3> QED  BY ONLY <3>1, SMTT(30)
  <2>4. \A j \in 1 .. k - 1 : r[j].turn < r[k].turn
    BY <1>0, <2>1, <2>2, <2>3
  <2>5. q[1].turn < q[k + 1].turn
    BY <2>2, <2>3
  <2>6. r[k].turn > t /\ r[k].turn > None
    BY <1>0, <2>1, <2>5 DEF None
  <2> QED  BY <2>1, <2>2, <2>4, <2>6
<1>4. ASSUME NEW k \in 1 .. n, r[k].kind = "ended"
      PROVE  /\ r[k].turn >= t /\ Known(r, k, None)
             /\ \A j \in 1 .. k - 1 : r[j].turn <= r[k].turn
  <2>1. k + 1 \in 1 .. Len(q) /\ q[k + 1].kind = "ended" /\ r[k].turn = q[k + 1].turn /\ r[k].turn \in Nat
    BY <1>0, <1>4
  <2>2. Known(q, k + 1, current) /\ \A j \in 1 .. (k + 1) - 1 : q[j].turn <= q[k + 1].turn
    BY <2>1 DEF Unread
  <2>3. 1 \in 1 .. (k + 1) - 1 /\ \A j \in 1 .. k - 1 : j + 1 \in 1 .. (k + 1) - 1 /\ j \in 1 .. n
    <3>1. n \in Nat /\ k \in Nat /\ 1 <= k /\ k <= n
      BY <1>0
    <3> QED  BY ONLY <3>1, SMTT(30)
  <2>4. \A j \in 1 .. k - 1 : r[j].turn <= r[k].turn
    BY <1>0, <2>1, <2>2, <2>3
  <2>5. r[k].turn >= t
    <3>1. q[1].turn <= q[k + 1].turn
      BY <2>2, <2>3
    <3> QED  BY <1>0, <2>1, <3>1
  <2>6. CASE \E j \in 1 .. (k + 1) - 1 : q[j].kind = "started" /\ q[j].turn = q[k + 1].turn
    <3>1. PICK j \in 1 .. (k + 1) - 1 : q[j].kind = "started" /\ q[j].turn = q[k + 1].turn
      BY <2>6
    <3>2. j # 1
      BY <1>0, <3>1
    <3>3. j - 1 \in 1 .. k - 1 /\ j - 1 \in 1 .. n /\ (j - 1) + 1 = j
      BY <1>0, <3>1, <3>2
    <3>4. r[j - 1] = q[j]
      BY <1>0, <3>3
    <3> QED  BY <2>1, <2>4, <2>5, <3>1, <3>3, <3>4 DEF Known
  <2>7. CASE \A j \in 1 .. (k + 1) - 1 : q[j].kind # "started"
    <3>1. \A j \in 1 .. k - 1 : r[j].kind # "started"
      BY <1>0, <2>3, <2>7
    <3> QED  BY <2>4, <2>5, <3>1 DEF Known
  <2> QED  BY <2>2, <2>6, <2>7 DEF Known
<1>5. Unread(r, None, t, cancelled, made)
  BY <1>0, <1>2, <1>3, <1>4 DEF Unread
<1> QED  BY <1>1, <1>5 DEF t, r

(* Reading that the engine has ended changes nothing for its turns. *)
LEMMA ClosedRead ==
  ASSUME NEW q \in EventQueue, q # <<>>, NEW current \in Nat, NEW completed \in Nat, NEW cancelled \in Nat,
         NEW made \in Nat, Unread(q, current, completed, cancelled, made), Head(q).kind = "closed"
  PROVE  Unread(Tail(q), current, completed, cancelled, made)
<1> DEFINE r == Tail(q)
           n == Len(q) - 1
<1>0. /\ Len(q) \in Nat /\ n \in Nat /\ Len(r) = n /\ q[1].kind = "closed" /\ 1 \in 1 .. Len(q)
      /\ \A k \in 1 .. n : r[k] = q[k + 1] /\ k + 1 \in 1 .. Len(q) /\ q[k + 1].turn \in Nat
  BY QueueReads
<1> HIDE DEF r, n
<1>2. ASSUME NEW k \in 1 .. n PROVE r[k].turn <= made /\ (r[k].kind = "ended" => r[k].turn # None)
  BY <1>0, <1>2 DEF Unread
<1>3. ASSUME NEW k \in 1 .. n, r[k].kind = "started"
      PROVE  /\ r[k].turn > current /\ r[k].turn > completed /\ r[k].turn > cancelled
             /\ \A j \in 1 .. k - 1 : r[j].turn < r[k].turn
  <2>1. k + 1 \in 1 .. Len(q) /\ q[k + 1].kind = "started" /\ r[k].turn = q[k + 1].turn
    BY <1>0, <1>3
  <2>2. /\ q[k + 1].turn > current /\ q[k + 1].turn > completed /\ q[k + 1].turn > cancelled
        /\ \A j \in 1 .. (k + 1) - 1 : q[j].turn < q[k + 1].turn
    BY <2>1 DEF Unread
  <2>3. \A j \in 1 .. k - 1 : j + 1 \in 1 .. (k + 1) - 1 /\ j \in 1 .. n
    BY <1>0
  <2> QED  BY <1>0, <2>1, <2>2, <2>3
<1>4. ASSUME NEW k \in 1 .. n, r[k].kind = "ended"
      PROVE  /\ r[k].turn >= completed /\ Known(r, k, current)
             /\ \A j \in 1 .. k - 1 : r[j].turn <= r[k].turn
  <2>1. k + 1 \in 1 .. Len(q) /\ q[k + 1].kind = "ended" /\ r[k].turn = q[k + 1].turn
    BY <1>0, <1>4
  <2>2. /\ q[k + 1].turn >= completed /\ Known(q, k + 1, current)
        /\ \A j \in 1 .. (k + 1) - 1 : q[j].turn <= q[k + 1].turn
    BY <2>1 DEF Unread
  <2>3. \A j \in 1 .. k - 1 : j + 1 \in 1 .. (k + 1) - 1 /\ j \in 1 .. n
    BY <1>0
  <2>4. \A j \in 1 .. k - 1 : r[j].turn <= r[k].turn
    BY <1>0, <2>1, <2>2, <2>3
  <2>6. CASE \E j \in 1 .. (k + 1) - 1 : q[j].kind = "started" /\ q[j].turn = q[k + 1].turn
    <3>1. PICK j \in 1 .. (k + 1) - 1 : q[j].kind = "started" /\ q[j].turn = q[k + 1].turn
      BY <2>6
    <3>2. j # 1
      BY <1>0, <3>1
    <3>3. j - 1 \in 1 .. k - 1 /\ j - 1 \in 1 .. n /\ (j - 1) + 1 = j
      BY <1>0, <3>1, <3>2
    <3>4. r[j - 1] = q[j]
      BY <1>0, <3>3
    <3> QED  BY <2>1, <2>2, <2>4, <3>1, <3>3, <3>4 DEF Known
  <2>7. CASE (\A j \in 1 .. (k + 1) - 1 : q[j].kind # "started") /\ current \in {None, q[k + 1].turn}
    <3>1. \A j \in 1 .. k - 1 : r[j].kind # "started"
      BY <1>0, <2>3, <2>7
    <3> QED  BY <2>1, <2>2, <2>4, <2>7, <3>1 DEF Known
  <2> QED  BY <2>2, <2>6, <2>7 DEF Known
<1>5. Unread(r, current, completed, cancelled, made)
  BY <1>0, <1>2, <1>3, <1>4 DEF Unread
<1> QED  BY <1>5 DEF r

(* What runs has been read to start, or is the last that starts. *)
LEMMA AtWorkRead ==
  ASSUME NEW q \in EventQueue, q # <<>>, NEW current \in Nat, NEW next \in Nat, NEW completed \in Nat,
         NEW cancelled \in Nat, NEW made \in Nat, NEW running \in Nat,
         Unread(q, current, completed, cancelled, made), TurnAtWork(q, current, running, made),
         IF Head(q).kind = "started" THEN next = Head(q).turn ELSE next \in {None, current}
  PROVE  TurnAtWork(Tail(q), next, running, made)
<1> DEFINE r == Tail(q)
           n == Len(q) - 1
<1>0. /\ Len(q) \in Nat /\ n \in Nat /\ Len(r) = n /\ Head(q) = q[1] /\ 1 \in 1 .. Len(q) /\ q[1].turn \in Nat
      /\ \A k \in 1 .. n : r[k] = q[k + 1] /\ k + 1 \in 1 .. Len(q) /\ q[k + 1].turn \in Nat
  BY QueueReads
<1>m. n = Len(q) - 1
  OBVIOUS
<1> HIDE DEF r, n
<1>s. SUFFICES ASSUME running # None, running = made
               PROVE  \/ \E j \in 1 .. Len(r) : r[j].kind = "started" /\ r[j].turn = running
                      \/ (\A j \in 1 .. Len(r) : r[j].kind # "started") /\ next \in {None, running}
  BY DEF TurnAtWork, r
<1>1. CASE \E j \in 1 .. Len(q) : q[j].kind = "started" /\ q[j].turn = running
  <2>1. PICK j \in 1 .. Len(q) : q[j].kind = "started" /\ q[j].turn = running
    BY <1>1
  <2>2. CASE j = 1
    <3>1. ASSUME NEW k \in 1 .. n, r[k].kind = "started" PROVE FALSE
      <4>1. k + 1 \in 1 .. Len(q) /\ q[k + 1].kind = "started" /\ 1 \in 1 .. (k + 1) - 1
        BY <1>0, <3>1
      <4>2. q[1].turn < q[k + 1].turn /\ q[k + 1].turn <= made
        BY <4>1 DEF Unread
      <4>3. q[1].turn = running /\ q[k + 1].turn \in Nat
        BY <1>0, <2>1, <2>2, <3>1
      <4> QED  BY <1>s, <4>2, <4>3
    <3>2. next = running
      BY <1>0, <2>1, <2>2
    <3> QED  BY <1>0, <3>1, <3>2
  <2>3. CASE j # 1
    <3>1. j - 1 \in 1 .. n /\ (j - 1) + 1 = j
      BY <1>0, <1>m, <2>1, <2>3
    <3> QED  BY <1>0, <2>1, <3>1
  <2> QED  BY <2>2, <2>3
<1>2. CASE (\A j \in 1 .. Len(q) : q[j].kind # "started") /\ current \in {None, running}
  <2>1. \A k \in 1 .. n : r[k].kind # "started"
    BY <1>0, <1>2
  <2>2. next \in {None, running}
    BY <1>0, <1>2
  <2> QED  BY <1>0, <2>1, <2>2
<1>3. running # None
  BY <1>s
<1> QED  BY <1>1, <1>2, <1>3 DEF TurnAtWork

(* A turn begins with a number that no turn had. *)
LEMMA StartedQueued ==
  ASSUME NEW q \in EventQueue, NEW current \in Nat, NEW completed \in Nat, NEW cancelled \in Nat, NEW made \in Nat,
         Unread(q, current, completed, cancelled, made), current <= made, completed <= made, cancelled <= made
  PROVE  LET r == Append(q, [kind |-> "started", turn |-> made + 1, outcome |-> "none"])
         IN  Unread(r, current, completed, cancelled, made + 1) /\ TurnAtWork(r, current, made + 1, made + 1)
<1> DEFINE e == [kind |-> "started", turn |-> made + 1, outcome |-> "none"]
           r == Append(q, e)
<1>1. e \in Events /\ e.kind = "started" /\ e.turn = made + 1
  BY DEF Events
<1>2. Len(r) = Len(q) + 1 /\ r[Len(q) + 1] = e /\ \A k \in 1 .. Len(q) : r[k] = q[k]
  BY <1>1, QueueAppends
<1>3. Len(q) \in Nat /\ \A k \in 1 .. Len(q) : q[k].turn \in Nat
  BY QueueReads
<1> HIDE DEF e, r
<1>4. ASSUME NEW k \in 1 .. Len(r) PROVE k \in 1 .. Len(q) \/ k = Len(q) + 1
  BY <1>2, <1>3
<1>5. ASSUME NEW k \in 1 .. Len(q) PROVE \A j \in 1 .. k - 1 : j \in 1 .. Len(q) /\ r[j] = q[j]
  BY <1>2, <1>3
<1>6. \A k \in 1 .. Len(r) : r[k].turn <= made + 1 /\ (r[k].kind = "ended" => r[k].turn # None)
  BY <1>1, <1>2, <1>3, <1>4 DEF Unread
<1>7. ASSUME NEW k \in 1 .. Len(r), r[k].kind = "started"
      PROVE  /\ r[k].turn > current /\ r[k].turn > completed /\ r[k].turn > cancelled
             /\ \A j \in 1 .. k - 1 : r[j].turn < r[k].turn
  <2>1. CASE k \in 1 .. Len(q)
    BY <1>2, <1>5, <1>7, <2>1 DEF Unread
  <2>2. CASE k = Len(q) + 1
    <3>1. ASSUME NEW j \in 1 .. k - 1 PROVE r[j].turn < r[k].turn
      <4>1. j \in 1 .. Len(q) /\ q[j].turn <= made
        BY <1>3, <2>2, <3>1 DEF Unread
      <4> QED  BY <1>1, <1>2, <1>3, <2>2, <4>1
    <3> QED  BY <1>1, <1>2, <2>2, <3>1
  <2> QED  BY <1>4, <2>1, <2>2
<1>8. ASSUME NEW k \in 1 .. Len(r), r[k].kind = "ended"
      PROVE  /\ r[k].turn >= completed /\ Known(r, k, current)
             /\ \A j \in 1 .. k - 1 : r[j].turn <= r[k].turn
  <2>1. k \in 1 .. Len(q) /\ r[k] = q[k]
    BY <1>1, <1>2, <1>4, <1>8
  <2>2. q[k].turn >= completed /\ Known(q, k, current) /\ \A j \in 1 .. k - 1 : q[j].turn <= q[k].turn
    BY <1>8, <2>1 DEF Unread
  <2> QED  BY <1>5, <2>1, <2>2 DEF Known
<1>9. TurnAtWork(r, current, made + 1, made + 1)
  <2>1. Len(q) + 1 \in 1 .. Len(r)
    BY <1>2, <1>3
  <2> QED  BY <1>1, <1>2, <2>1 DEF TurnAtWork
<1>10. Unread(r, current, completed, cancelled, made + 1)
  BY <1>6, <1>7, <1>8 DEF Unread
<1> QED  BY <1>9, <1>10 DEF r, e

(* The turn at work ends, or the engine does. *)
LEMMA EndedQueued ==
  ASSUME NEW q \in EventQueue, NEW current \in Nat, NEW completed \in Nat, NEW cancelled \in Nat, NEW made \in Nat,
         NEW running \in Nat, Unread(q, current, completed, cancelled, made), completed <= made,
         TurnAtWork(q, current, running, made), NEW e \in Events,
         \/ e.kind = "closed" /\ e.turn = None
         \/ e.kind = "ended" /\ e.turn = running /\ running # None
  PROVE  Unread(Append(q, e), current, completed, cancelled, made)
<1> DEFINE r == Append(q, e)
<1>2. Len(r) = Len(q) + 1 /\ r[Len(q) + 1] = e /\ \A k \in 1 .. Len(q) : r[k] = q[k]
  BY QueueAppends
<1>3. Len(q) \in Nat /\ \A k \in 1 .. Len(q) : q[k].turn \in Nat
  BY QueueReads
<1> HIDE DEF r
<1>1. e.turn <= made /\ (e.kind = "ended" => e.turn # None)
  BY DEF None, TurnAtWork
<1>4. ASSUME NEW k \in 1 .. Len(r) PROVE k \in 1 .. Len(q) \/ k = Len(q) + 1
  BY <1>2, <1>3
<1>5. ASSUME NEW k \in 1 .. Len(q) + 1 PROVE \A j \in 1 .. k - 1 : j \in 1 .. Len(q) /\ r[j] = q[j]
  BY <1>2, <1>3
<1>6. \A k \in 1 .. Len(r) : r[k].turn <= made /\ (r[k].kind = "ended" => r[k].turn # None)
  BY <1>1, <1>2, <1>3, <1>4 DEF Unread
<1>7. ASSUME NEW k \in 1 .. Len(r), r[k].kind = "started"
      PROVE  /\ r[k].turn > current /\ r[k].turn > completed /\ r[k].turn > cancelled
             /\ \A j \in 1 .. k - 1 : r[j].turn < r[k].turn
  <2>1. k \in 1 .. Len(q) /\ k \in 1 .. Len(q) + 1
    BY <1>2, <1>3, <1>4, <1>7
  <2> QED  BY <1>2, <1>5, <1>7, <2>1 DEF Unread
<1>8. ASSUME NEW k \in 1 .. Len(r), r[k].kind = "ended"
      PROVE  /\ r[k].turn >= completed /\ Known(r, k, current)
             /\ \A j \in 1 .. k - 1 : r[j].turn <= r[k].turn
  <2>0. k \in 1 .. Len(q) + 1
    BY <1>2
  <2>1. CASE k \in 1 .. Len(q)
    <3>1. r[k] = q[k]
      BY <1>2, <2>1
    <3>2. q[k].turn >= completed /\ Known(q, k, current) /\ \A j \in 1 .. k - 1 : q[j].turn <= q[k].turn
      BY <1>8, <2>1, <3>1 DEF Unread
    <3> QED  BY <1>5, <2>0, <3>1, <3>2 DEF Known
  <2>2. CASE k = Len(q) + 1
    <3>1. e.kind = "ended" /\ e.turn = running /\ running # None /\ r[k] = e /\ running = made
      BY <1>2, <1>8, <2>2 DEF TurnAtWork
    <3>2. \A j \in 1 .. k - 1 : j \in 1 .. Len(q) /\ r[j] = q[j] /\ r[j].turn <= r[k].turn
      BY <1>5, <2>0, <3>1 DEF Unread
    <3>3. k - 1 = Len(q)
      BY <1>3, <2>2
    <3>4. Known(r, k, current)
      BY <3>1, <3>2, <3>3 DEF TurnAtWork, Known
    <3> QED  BY <3>1, <3>2, <3>4
  <2> QED  BY <1>4, <2>1, <2>2
<1>10. Unread(r, current, completed, cancelled, made)
  BY <1>6, <1>7, <1>8 DEF Unread
<1> QED  BY <1>10 DEF r

(* The session ends the turn it shows, or the user stops it: what is unread comes later. *)
LEMMA UnreadSettles ==
  ASSUME NEW q \in EventQueue, NEW current \in Nat, NEW completed \in Nat, NEW cancelled \in Nat, NEW made \in Nat,
         NEW running \in Nat, current # None,
         Unread(q, current, completed, cancelled, made), TurnAtWork(q, current, running, made)
  PROVE  /\ Unread(q, None, current, cancelled, made) /\ TurnAtWork(q, None, running, made)
         /\ Unread(q, current, completed, current, made)
<1>1. Len(q) \in Nat /\ \A k \in 1 .. Len(q) : q[k].turn \in Nat
  BY QueueReads
<1>2. ASSUME NEW k \in 1 .. Len(q), q[k].kind = "ended" PROVE q[k].turn >= current /\ Known(q, k, None)
  <2>1. Known(q, k, current)
    BY <1>2 DEF Unread
  <2>2. CASE \E j \in 1 .. k - 1 : q[j].kind = "started" /\ q[j].turn = q[k].turn
    <3>1. PICK j \in 1 .. k - 1 : q[j].kind = "started" /\ q[j].turn = q[k].turn
      BY <2>2
    <3>2. j \in 1 .. Len(q)
      BY <1>1, <3>1
    <3>3. q[j].turn > current
      BY <3>1, <3>2 DEF Unread
    <3> QED  BY SMTT(60), <1>1, <2>2, <3>1, <3>2, <3>3 DEF Known
  <2>3. CASE (\A j \in 1 .. k - 1 : q[j].kind # "started") /\ current \in {None, q[k].turn}
    BY <1>1, <2>3 DEF Known
  <2> QED  BY <2>1, <2>2, <2>3 DEF Known
<1>3. Unread(q, None, current, cancelled, made)
  <2>1. ASSUME NEW k \in 1 .. Len(q), q[k].kind = "started"
        PROVE  /\ q[k].turn > None /\ q[k].turn > current /\ q[k].turn > cancelled
               /\ \A j \in 1 .. k - 1 : q[j].turn < q[k].turn
    BY <1>1, <2>1 DEF Unread, None
  <2> QED  BY <1>2, <2>1 DEF Unread
<1>4. TurnAtWork(q, None, running, made)
  BY DEF TurnAtWork
<1>5. Unread(q, current, completed, current, made)
  BY DEF Unread
<1> QED  BY <1>3, <1>4, <1>5

LEMMA NothingUnread ==
  ASSUME NEW current, NEW completed, NEW cancelled, NEW made
  PROVE  Unread(<<>>, current, completed, cancelled, made) /\ TurnAtWork(<<>>, current, None, made)
<1>1. 1 .. Len(<<>>) = {}
  OBVIOUS
<1> QED  BY <1>1 DEF Unread, TurnAtWork

-----------------------------------------------------------------------------
(* What intent.rs does to the turns it remembers. *)
LEMMA StartedFields ==
  ASSUME NEW i \in IntentType, NEW turn \in Nat
  PROVE  LET j == Started(i, turn) IN
         /\ j.active = turn /\ j.current = turn /\ j.completed = i.completed
         /\ j.interrupted = i.interrupted /\ j.cancelled = i.cancelled
BY DEF Started, IntentType

LEMMA EndedFields ==
  ASSUME NEW i \in IntentType, NEW turn \in Nat, NEW outcome
  PROVE  LET j == Ended(i, turn, outcome) IN
         /\ j.active = (IF i.active = turn THEN None ELSE i.active)
         /\ j.current = (IF i.current = turn THEN None ELSE i.current)
         /\ j.completed = turn /\ j.cancelled = i.cancelled
         /\ j.interrupted = (IF outcome = "completed" THEN None ELSE i.interrupted)
BY DEF Ended, IntentType

LEMMA CancelledFields ==
  ASSUME NEW i \in IntentType, NEW turn \in Nat
  PROVE  LET j == Cancelled(i, turn) IN
         /\ j.active = i.active /\ j.current = i.current /\ j.completed = i.completed /\ j.cancelled = turn
         /\ j.interrupted = (IF i.interrupted = turn THEN None ELSE i.interrupted)
BY DEF Cancelled, IntentType

LEMMA DisconnectedFields ==
  ASSUME NEW i \in IntentType
  PROVE  LET j == Disconnected(i) IN
         /\ j.active = i.active /\ j.current = i.current /\ j.completed = i.completed /\ j.cancelled = i.cancelled
         /\ j.interrupted \in {None, i.interrupted, i.active}
         /\ j.interrupted = i.interrupted \/ i.active # i.cancelled \/ j.interrupted = None
BY DEF Disconnected, IntentType

\* The same turns are remembered, but that work and its continuation may be forgotten.
Remembers(i, j) ==
  /\ j.current = i.current /\ j.completed = i.completed /\ j.cancelled = i.cancelled
  /\ j.active \in {None, i.active} /\ j.interrupted \in {None, i.interrupted}

LEMMA Remembered ==
  ASSUME NEW i \in IntentType, NEW rebuilt \in BOOLEAN, NEW pending, NEW resend
  PROVE  /\ Remembers(i, i) /\ Remembers(i, Consumed(i, rebuilt)) /\ Remembers(i, Forgotten(i))
         /\ Remembers(i, [i EXCEPT !.pending = pending]) /\ Remembers(i, [i EXCEPT !.resend = resend])
         /\ Remembers(i, [Forgotten(i) EXCEPT !.pending = pending])
         /\ Remembers(i, [Forgotten(i) EXCEPT !.resend = resend])
BY DEF Remembers, Consumed, Forgotten, IntentType

\* The engine goes on as it was, or is gone with what it had to say.
Unheard(n, m) ==
  /\ m.made = n.made
  /\ \/ m.events = n.events /\ m.running = n.running
     \/ m.events = <<>> /\ m.running = None

LEMMA UnheardKeeps ==
  ASSUME NEW n, NEW m, Unheard(n, m), NEW current, NEW completed, NEW cancelled,
         Unread(n.events, current, completed, cancelled, n.made), TurnAtWork(n.events, current, n.running, n.made)
  PROVE  Unread(m.events, current, completed, cancelled, m.made) /\ TurnAtWork(m.events, current, m.running, m.made)
<1>1. CASE m.events = n.events /\ m.running = n.running
  BY <1>1 DEF Unheard
<1>2. CASE m.events = <<>> /\ m.running = None
  BY <1>2, NothingUnread DEF Unheard
<1> QED  BY <1>1, <1>2 DEF Unheard

LEMMA MarksTyped ==
  ASSUME TypeOK
  PROVE  /\ intent \in IntentType /\ native \in NativeType /\ native.events \in EventQueue
         /\ intent.active \in Nat /\ intent.current \in Nat /\ intent.completed \in Nat /\ intent.interrupted \in Nat
         /\ intent.cancelled \in Nat /\ native.running \in Nat /\ native.made \in Nat
         /\ hist \in HistType /\ hist.cancelled \subseteq Nat /\ hist.completed \subseteq Nat
<1>1. intent \in IntentType /\ native \in NativeType /\ hist \in HistType
  BY TypeMeans
<1>2. native \in NativeRecord
  BY <1>1 DEF NativeType
<1> QED  BY <1>1, <1>2 DEF IntentType, NativeRecord, HistType

LEMMA MarksFrame ==
  ASSUME TypeOK, MarksInv, Remembers(intent, intent'), Unheard(native, native'),
         hist'.cancelled = hist.cancelled, hist'.completed = hist.completed
  PROVE  MarksInv'
<1>0. MarksInv /\ intent'.current = intent.current /\ intent'.completed = intent.completed /\ intent'.cancelled = intent.cancelled
  BY DEF Remembers
<1>1. QueueInv'
  <2>1. /\ Unread(native'.events, intent.current, intent.completed, intent.cancelled, native'.made)
        /\ TurnAtWork(native'.events, intent.current, native'.running, native'.made)
    BY UnheardKeeps DEF MarksInv, QueueInv
  <2> QED  BY <1>0, <2>1 DEF QueueInv
<1>2. StopsInv'
  BY <1>0 DEF MarksInv, StopsInv, Unheard
<1>3. ContinuableInv'
  <2>1. \A t \in hist.cancelled \cup hist.completed : t # None
    BY DEF MarksInv, StopsInv
  <2> QED  BY <1>0, <2>1 DEF MarksInv, ContinuableInv, Remembers
<1> QED  BY <1>1, <1>2, <1>3 DEF MarksInv

LEMMA MarksBegin ==
  ASSUME TypeOK, MarksInv, intent' = Disconnected(intent), native' = native, hist' = hist
  PROVE  MarksInv'
<1>1. /\ intent \in IntentType /\ intent.active \in Nat
      /\ intent'.active = intent.active /\ intent'.current = intent.current
      /\ intent'.completed = intent.completed /\ intent'.cancelled = intent.cancelled
      /\ intent'.interrupted \in {None, intent.interrupted, intent.active}
      /\ intent'.interrupted = intent.interrupted \/ intent.active # intent.cancelled \/ intent'.interrupted = None
  BY MarksTyped, DisconnectedFields
<1>2. QueueInv' /\ StopsInv'
  BY <1>1 DEF MarksInv, QueueInv, StopsInv
<1>3. ContinuableInv'
  <2>1. \A t \in hist.cancelled \cup hist.completed : t # None
    BY DEF MarksInv, StopsInv
  <2> QED  BY <1>1, <2>1 DEF MarksInv, ContinuableInv
<1> QED  BY <1>2, <1>3 DEF MarksInv

\* finish_disconnected_turn: the turn that is shown ends, and what is unread of it says no more.
LEMMA MarksFinish ==
  ASSUME TypeOK, MarksInv, intent' = Finished(intent), Unheard(native, native'), hist' = hist
  PROVE  MarksInv'
<1>0. /\ intent \in IntentType /\ native.events \in EventQueue /\ intent.active \in Nat /\ intent.current \in Nat
      /\ intent.completed \in Nat /\ intent.cancelled \in Nat /\ native.running \in Nat /\ native.made \in Nat
      /\ hist.completed \subseteq Nat
  BY MarksTyped
<1>1. CASE intent.current = None
  <2>1. Remembers(intent, intent')
    BY <1>1 DEF Finished, Remembers
  <2> QED  BY <2>1, MarksFrame
<1>2. CASE intent.current # None
  <2>1. /\ intent'.active \in {None, intent.active} /\ intent'.active # intent.current /\ intent'.current = None
        /\ intent'.completed = intent.current /\ intent'.cancelled = intent.cancelled
        /\ intent'.interrupted = intent.interrupted
    BY <1>0, <1>2, EndedFields DEF Finished
  <2>2. /\ Unread(native.events, None, intent.current, intent.cancelled, native.made)
        /\ TurnAtWork(native.events, None, native.running, native.made)
    BY <1>0, <1>2, UnreadSettles DEF MarksInv, QueueInv
  <2>3. QueueInv'
    <3>1. /\ Unread(native'.events, None, intent.current, intent.cancelled, native'.made)
          /\ TurnAtWork(native'.events, None, native'.running, native'.made)
      BY <2>2, UnheardKeeps
    <3> QED  BY <2>1, <3>1 DEF QueueInv
  <2>4. StopsInv'
    <3>1. intent.completed < intent.current /\ \A t \in hist.completed : t <= intent.current
      BY <1>0, <1>2 DEF MarksInv, StopsInv
    <3>2. native'.made = native.made /\ hist'.cancelled = hist.cancelled /\ hist'.completed = hist.completed
      BY DEF Unheard
    <3>3. /\ intent.current <= native.made /\ intent.cancelled <= native.made
          /\ hist.cancelled # {} => intent.cancelled \in hist.cancelled
          /\ \A t \in hist.cancelled : t # None /\ t <= intent.cancelled
          /\ \A t \in hist.completed : t # None
      BY DEF MarksInv, StopsInv
    <3>4. intent'.current <= native'.made
      BY <1>0, <2>1, <3>2 DEF None
    <3> QED  BY <2>1, <3>1, <3>2, <3>3, <3>4 DEF StopsInv
  <2>5. ContinuableInv'
    <3>1. \A t \in hist.cancelled \cup hist.completed : t # None
      BY DEF MarksInv, StopsInv
    <3> QED  BY <2>1, <3>1 DEF MarksInv, ContinuableInv
  <2> QED  BY <2>3, <2>4, <2>5 DEF MarksInv
<1> QED  BY <1>1, <1>2

\* An event is read: the turn is the one at work, or it is over.
LEMMA MarksRead ==
  ASSUME TypeOK, MarksInv, PumpTakes
  PROVE  MarksInv'
<1> DEFINE q == native.events
           t == Head(native.events).turn
<1>0. /\ intent \in IntentType /\ q \in EventQueue /\ intent.active \in Nat /\ intent.current \in Nat
      /\ intent.completed \in Nat /\ intent.cancelled \in Nat /\ native.running \in Nat /\ native.made \in Nat
      /\ hist \in HistType /\ hist.cancelled \subseteq Nat /\ hist.completed \subseteq Nat /\ native \in NativeRecord
  BY MarksTyped DEF NativeType
<1>1. q # <<>> /\ Head(q) \in Events /\ t \in Nat /\ Head(q).kind \in {"started", "ended"}
  <2>1. q # <<>> /\ Head(q).kind \in {"started", "ended"}
    BY DEF PumpTakes, Event
  <2>2. Head(q) = q[1] /\ 1 \in 1 .. Len(q)
    BY <1>0, <2>1, QueueReads
  <2> QED  BY <1>0, <2>1, <2>2, QueueReads
<1>2. native'.events = Tail(q) /\ native'.running = native.running /\ native'.made = native.made
  BY <1>0 DEF PumpTakes, NativeRecord
<1>3. /\ Unread(q, intent.current, intent.completed, intent.cancelled, native.made)
      /\ TurnAtWork(q, intent.current, native.running, native.made)
  BY DEF MarksInv, QueueInv
<1>4. \A u \in hist.cancelled \cup hist.completed : u # None
  BY DEF MarksInv, StopsInv
<1>5. CASE Head(q).kind = "started"
  <2>1. intent' = Started(intent, t) /\ hist' = hist
    BY <1>5 DEF PumpTakes, Event
  <2>2. /\ intent'.active = t /\ intent'.current = t /\ intent'.completed = intent.completed
        /\ intent'.interrupted = intent.interrupted /\ intent'.cancelled = intent.cancelled
    BY <1>0, <1>1, <2>1, StartedFields
  <2>3. /\ Unread(Tail(q), t, intent.completed, intent.cancelled, native.made)
        /\ t > intent.current /\ t > intent.completed /\ t > intent.cancelled /\ t <= native.made
    BY <1>0, <1>1, <1>3, <1>5, StartedRead
  <2>4. TurnAtWork(Tail(q), t, native.running, native.made)
    BY <1>0, <1>1, <1>3, <1>5, AtWorkRead
  <2> HIDE DEF q, t
  <2>5. QueueInv'
    BY <1>2, <2>2, <2>3, <2>4 DEF QueueInv
  <2>6. StopsInv'
    BY <1>0, <1>1, <1>2, <2>1, <2>2, <2>3 DEF MarksInv, StopsInv
  <2>7. t \notin hist.cancelled \cup hist.completed
    <3>1. \A u \in hist.cancelled : u <= intent.cancelled
      BY DEF MarksInv, StopsInv
    <3>2. \A u \in hist.completed : u <= intent.completed
      BY DEF MarksInv, StopsInv
    <3> QED  BY <1>0, <1>1, <2>3, <3>1, <3>2
  <2>8. ContinuableInv'
    BY <1>1, <2>1, <2>2, <2>7 DEF MarksInv, ContinuableInv
  <2> QED  BY <2>5, <2>6, <2>8 DEF MarksInv
<1>6. CASE Head(q).kind = "ended"
  <2> DEFINE outcome == Head(native.events).outcome
  <2>1. /\ intent' = Ended(intent, t, outcome)
        /\ hist' = [hist EXCEPT !.completed = @ \cup {u \in {t} : outcome = "completed"}]
    BY <1>6 DEF PumpTakes, Event
  <2>2. /\ Unread(Tail(q), None, t, intent.cancelled, native.made)
        /\ intent.current \in {None, t} /\ t >= intent.completed /\ t <= native.made /\ t # None
    BY <1>0, <1>1, <1>3, <1>6, EndedRead
  <2>3. TurnAtWork(Tail(q), None, native.running, native.made)
    <3>1. None \in Nat
      BY DEF None
    <3> QED  BY <1>0, <1>1, <1>3, <1>6, <3>1, AtWorkRead
  <2> HIDE DEF q, t, outcome
  <2>4. /\ intent'.active \in {None, intent.active} /\ intent'.active # t /\ intent'.current = None
        /\ intent'.completed = t /\ intent'.cancelled = intent.cancelled
        /\ intent'.interrupted = (IF outcome = "completed" THEN None ELSE intent.interrupted)
    BY <1>0, <1>1, <2>1, <2>2, EndedFields
  <2>5. /\ hist'.cancelled = hist.cancelled
        /\ hist'.completed = hist.completed \cup {u \in {t} : outcome = "completed"}
    BY <1>0, <2>1 DEF HistType
  <2>6. QueueInv'
    BY <1>2, <2>2, <2>3, <2>4 DEF QueueInv
  <2>7. StopsInv'
    <3>1. \A u \in hist.completed : u <= t
      BY <1>0, <1>1, <2>2 DEF MarksInv, StopsInv
    <3>2. \A u \in hist'.completed : u # None /\ u <= intent'.completed
      BY <1>1, <1>4, <2>2, <2>4, <2>5, <3>1
    <3>3. intent'.current <= native'.made
      BY <1>0, <1>2, <2>4 DEF None
    <3> QED  BY <1>2, <2>2, <2>4, <2>5, <3>2, <3>3 DEF MarksInv, StopsInv
  <2>8. ContinuableInv'
    <3>1. None \notin hist'.cancelled \cup hist'.completed
      BY <1>4, <2>2, <2>5
    <3>2. intent'.active \notin hist'.completed
      BY <2>4, <2>5, <3>1 DEF MarksInv, ContinuableInv
    <3>3. intent'.interrupted \notin hist'.cancelled \cup hist'.completed
      BY <2>4, <2>5, <3>1 DEF MarksInv, ContinuableInv
    <3> QED  BY <2>4, <2>5, <3>1, <3>2, <3>3 DEF MarksInv, ContinuableInv
  <2> QED  BY <2>6, <2>7, <2>8 DEF MarksInv
<1> QED  BY <1>1, <1>5, <1>6

\* A new turn, or an input of the one at work: nothing that is remembered is of it.
LEMMA MarksBegins ==
  ASSUME TypeOK, MarksInv, native' = Begins, intent' = intent,
         hist'.cancelled = hist.cancelled, hist'.completed = hist.completed
  PROVE  MarksInv' /\ native'.running = native'.made /\ native'.made \in {native.made, native.made + 1}
<1>0. /\ native.events \in EventQueue /\ intent.current \in Nat /\ intent.completed \in Nat /\ intent.cancelled \in Nat
      /\ native.running \in Nat /\ native.made \in Nat /\ intent \in IntentType /\ native \in NativeRecord
  BY MarksTyped DEF NativeType
<1>1. CASE native.running # None
  <2>1. native' = native /\ native.running = native.made
    BY <1>1 DEF Begins, MarksInv, QueueInv, TurnAtWork
  <2>2. Unheard(native, native') /\ Remembers(intent, intent')
    BY <2>1 DEF Unheard, Remembers
  <2> QED  BY <2>1, <2>2, MarksFrame
<1>2. CASE native.running = None
  <2> DEFINE made == native.made + 1
             r == Append(native.events, [kind |-> "started", turn |-> native.made + 1, outcome |-> "none"])
  <2>1. native'.running = made /\ native'.made = made /\ native'.events = r
    BY <1>0, <1>2 DEF Begins, NativeRecord
  <2>2. /\ intent.current <= native.made /\ intent.completed <= native.made /\ intent.cancelled <= native.made
        /\ Unread(native.events, intent.current, intent.completed, intent.cancelled, native.made)
    BY DEF MarksInv, StopsInv, QueueInv
  <2>3. Unread(r, intent.current, intent.completed, intent.cancelled, made) /\ TurnAtWork(r, intent.current, made, made)
    BY <1>0, <2>2, StartedQueued
  <2>4. intent.current <= made /\ intent.completed <= made /\ intent.cancelled <= made /\ made \in {native.made, native.made + 1}
    BY <1>0, <2>2
  <2> HIDE DEF made, r
  <2>5. QueueInv'
    BY <2>1, <2>3 DEF QueueInv
  <2>6. StopsInv' /\ ContinuableInv'
    BY <2>1, <2>4 DEF MarksInv, StopsInv, ContinuableInv
  <2> QED  BY <2>1, <2>4, <2>5, <2>6 DEF MarksInv
<1> QED  BY <1>1, <1>2

LEMMA TurnEndedMeans ==
  ASSUME native \in NativeRecord, NEW turn \in Nat, NEW outcome \in {"completed", "failed", "interrupted"}
  PROVE  LET e == [kind |-> "ended", turn |-> turn, outcome |-> outcome] IN
         /\ TurnEnded(turn, outcome).events = Append(native.events, e) /\ e \in Events
         /\ TurnEnded(turn, outcome).running = None /\ TurnEnded(turn, outcome).made = native.made
         /\ TurnEnded(turn, outcome).alive = native.alive
BY DEF TurnEnded, NativeRecord, Events

\* Stop: the turn that is shown is the last that was stopped.
LEMMA MarksStop ==
  ASSUME TypeOK, MarksInv, Interrupt
  PROVE  MarksInv'
<1> DEFINE t == intent.current
<1>0. /\ intent \in IntentType /\ native.events \in EventQueue /\ intent.active \in Nat /\ intent.current \in Nat
      /\ intent.completed \in Nat /\ intent.cancelled \in Nat /\ native.running \in Nat /\ native.made \in Nat
      /\ hist \in HistType /\ hist.cancelled \subseteq Nat /\ hist.completed \subseteq Nat /\ native \in NativeRecord
  BY MarksTyped DEF NativeType
<1>1. /\ t # None /\ t # intent.cancelled /\ intent' = Cancelled(intent, t)
      /\ hist' = [hist EXCEPT !.cancelled = @ \cup {t}]
      /\ native' = native \/ (native.running = t /\ native' = TurnEnded(t, "interrupted"))
  BY DEF Interrupt
<1>2. /\ intent'.active = intent.active /\ intent'.current = t /\ intent'.completed = intent.completed
      /\ intent'.cancelled = t
      /\ intent'.interrupted = (IF intent.interrupted = t THEN None ELSE intent.interrupted)
      /\ hist'.cancelled = hist.cancelled \cup {t} /\ hist'.completed = hist.completed
  BY <1>0, <1>1, CancelledFields DEF HistType
<1>3. /\ Unread(native.events, t, intent.completed, t, native.made)
      /\ TurnAtWork(native.events, t, native.running, native.made)
  BY <1>0, <1>1, UnreadSettles DEF MarksInv, QueueInv
<1>4. intent.completed <= native.made /\ t <= native.made /\ intent.completed < t /\ intent.cancelled < t
  BY <1>0, <1>1 DEF MarksInv, StopsInv
<1>5. \A u \in hist.cancelled \cup hist.completed : u # None
  BY DEF MarksInv, StopsInv
<1>6. QueueInv' /\ native'.made = native.made
  <2>1. CASE native' = native
    BY <1>2, <1>3, <2>1 DEF QueueInv
  <2>2. CASE native.running = t /\ native' = TurnEnded(t, "interrupted")
    <3> DEFINE e == [kind |-> "ended", turn |-> t, outcome |-> "interrupted"]
    <3>1. /\ native'.events = Append(native.events, e) /\ e \in Events
          /\ native'.running = None /\ native'.made = native.made
      BY <1>0, <2>2, TurnEndedMeans
    <3>2. e.kind = "ended" /\ e.turn = native.running /\ native.running # None
      BY <1>1, <2>2
    <3> HIDE DEF e, t
    <3>3. t \in Nat
      BY <1>0 DEF t
    <3>4. Unread(Append(native.events, e), t, intent.completed, t, native.made)
      BY <1>0, <1>3, <1>4, <3>1, <3>2, <3>3, EndedQueued
    <3>5. TurnAtWork(Append(native.events, e), t, None, native.made)
      BY DEF TurnAtWork
    <3> QED  BY <1>2, <3>1, <3>4, <3>5 DEF QueueInv
  <2> QED  BY <1>1, <2>1, <2>2
<1> HIDE DEF t
<1>7. StopsInv'
  <2>1. \A u \in hist.cancelled : u <= intent.cancelled
    BY DEF MarksInv, StopsInv
  <2>2. \A u \in hist'.cancelled : u # None /\ u <= t
    BY <1>0, <1>1, <1>2, <1>4, <1>5, <2>1 DEF t
  <2>3. t <= t
    BY <1>0 DEF t
  <2>4. \A u \in hist'.completed : u # None /\ u <= intent'.completed
    BY <1>2 DEF MarksInv, StopsInv
  <2> QED  BY <1>2, <1>4, <1>6, <2>2, <2>3, <2>4 DEF StopsInv
<1>8. ContinuableInv'
  <2>1. intent.active # None => intent.active >= t
    BY <1>1 DEF MarksInv, ContinuableInv, t
  <2>2. intent.active \in hist.cancelled => FALSE
    BY <1>0, <1>4, <1>5, <2>1 DEF MarksInv, ContinuableInv, t
  <2>3. intent'.active \in hist'.cancelled => intent'.active = intent'.cancelled
    BY <1>2, <2>2
  <2>4. intent'.interrupted \notin hist'.cancelled \cup hist'.completed
    BY <1>1, <1>2, <1>5 DEF MarksInv, ContinuableInv
  <2> QED  BY <1>2, <2>1, <2>3, <2>4 DEF MarksInv, ContinuableInv
<1> QED  BY <1>6, <1>7, <1>8 DEF MarksInv

LEMMA MarksEnd ==
  ASSUME TypeOK, MarksInv, TurnEnds \/ EngineEnds
  PROVE  MarksInv'
<1>0. /\ intent \in IntentType /\ native.events \in EventQueue /\ intent.current \in Nat
      /\ intent.completed \in Nat /\ intent.cancelled \in Nat /\ native.running \in Nat /\ native.made \in Nat
      /\ native \in NativeRecord
  BY MarksTyped DEF NativeType
<1>1. intent' = intent /\ hist' = hist
  BY DEF TurnEnds, EngineEnds
<1>2. PICK e \in Events : /\ native'.events = Append(native.events, e) /\ native'.running = None
                          /\ native'.made = native.made
                          /\ \/ e.kind = "closed" /\ e.turn = None
                             \/ e.kind = "ended" /\ e.turn = native.running /\ native.running # None
  <2>1. CASE TurnEnds
    <3>1. PICK outcome \in {"completed", "failed"} : native' = TurnEnded(native.running, outcome)
      BY <2>1 DEF TurnEnds
    <3>2. native.running # None
      BY <2>1 DEF TurnEnds
    <3> DEFINE e == [kind |-> "ended", turn |-> native.running, outcome |-> outcome]
               n == TurnEnded(native.running, outcome)
    <3>a. n.events = Append(native.events, e) /\ e \in Events /\ n.running = None /\ n.made = native.made
      <4>1. native.running \in Nat /\ outcome \in {"completed", "failed", "interrupted"} /\ native \in NativeRecord
        BY <1>0
      <4> HIDE <1>0
      <4> QED  BY <4>1 DEF TurnEnded, NativeRecord, Events
    <3>b. native' = n
      BY <3>1
    <3> HIDE DEF n
    <3>3. /\ native'.events = Append(native.events, e) /\ e \in Events
          /\ native'.running = None /\ native'.made = native.made
      BY <3>a, <3>b
    <3>4. e.kind = "ended" /\ e.turn = native.running
      OBVIOUS
    <3> HIDE DEF e
    <3> QED  BY <3>2, <3>3, <3>4
  <2>2. CASE EngineEnds
    <3> DEFINE e == [kind |-> "closed", turn |-> None, outcome |-> "none"]
    <3>1. e \in Events /\ e.kind = "closed" /\ e.turn = None
      BY DEF Events, None
    <3>2. native'.events = Append(native.events, e) /\ native'.running = None /\ native'.made = native.made
      BY <1>0, <2>2 DEF EngineEnds, NativeRecord
    <3> HIDE DEF e
    <3> QED  BY <3>1, <3>2
  <2> QED  BY <2>1, <2>2
<1>3. /\ intent.completed <= native.made
      /\ Unread(native.events, intent.current, intent.completed, intent.cancelled, native.made)
      /\ TurnAtWork(native.events, intent.current, native.running, native.made)
  BY DEF MarksInv, StopsInv, QueueInv
<1>4. Unread(Append(native.events, e), intent.current, intent.completed, intent.cancelled, native.made)
  BY <1>0, <1>2, <1>3, EndedQueued
<1>5. TurnAtWork(Append(native.events, e), intent.current, None, native.made)
  BY DEF TurnAtWork
<1>6. QueueInv'
  BY <1>1, <1>2, <1>4, <1>5 DEF QueueInv
<1>7. StopsInv' /\ ContinuableInv'
  BY <1>1, <1>2 DEF MarksInv, StopsInv, ContinuableInv
<1> QED  BY <1>6, <1>7 DEF MarksInv

\* The answer is of the last turn that began, because the gate was held since.
LEMMA MarksAnswer ==
  ASSUME TypeOK, MarksInv, GateInv, NEW a \in Submitters, Answer(a)
  PROVE  MarksInv'
<1>0. /\ intent \in IntentType /\ intent.current \in Nat /\ intent.completed \in Nat /\ intent.cancelled \in Nat
      /\ native.made \in Nat /\ hist.cancelled \subseteq Nat /\ hist.completed \subseteq Nat
  BY MarksTyped
<1>1. /\ native' = native /\ hist' = hist /\ sub[a].got = native.made
      /\ intent' = intent \/ (intent.completed # sub[a].got /\ intent' = [intent EXCEPT !.active = sub[a].got])
  BY DEF Answer, GateInv
<1>2. CASE intent' = intent
  BY <1>1, <1>2, MarksFrame DEF Remembers, Unheard
<1>3. CASE intent.completed # native.made /\ intent' = [intent EXCEPT !.active = native.made]
  <2>1. /\ intent'.active = native.made /\ intent'.current = intent.current /\ intent'.completed = intent.completed
        /\ intent'.interrupted = intent.interrupted /\ intent'.cancelled = intent.cancelled
    BY <1>0, <1>3 DEF IntentType
  <2>2. QueueInv' /\ StopsInv'
    BY <1>1, <2>1 DEF MarksInv, QueueInv, StopsInv
  <2>3. native.made \notin hist.completed
    BY <1>0, <1>3 DEF MarksInv, StopsInv
  <2>4. native.made \in hist.cancelled => native.made = intent.cancelled
    BY <1>0 DEF MarksInv, StopsInv
  <2>5. native.made >= intent.current
    BY <1>0 DEF MarksInv, StopsInv
  <2> QED  BY <1>1, <2>1, <2>2, <2>3, <2>4, <2>5 DEF MarksInv, ContinuableInv
<1> QED  BY <1>1, <1>2, <1>3

LEMMA MarksKept == TypeOK /\ MarksInv /\ GateInv /\ RestInv /\ Next => MarksInv'
<1> SUFFICES ASSUME TypeOK, MarksInv, GateInv, RestInv, Next PROVE MarksInv'
  OBVIOUS
<1>0. intent \in IntentType /\ native \in NativeRecord /\ sub \in SubType /\ hist \in HistType
  BY TypeMeans DEF NativeType
<1>a. Remembers(intent, intent) /\ Unheard(native, native)
  BY DEF Remembers, Unheard
<1>b. ShutDown => Unheard(native, native')
  BY <1>0 DEF ShutDown, Unheard, NativeRecord
<1>1. CASE RelayBreaks
  BY <1>1, <1>a, MarksFrame DEF RelayBreaks
<1>2. CASE RelayEnds
  BY <1>2, <1>a, MarksFrame DEF RelayEnds
<1>3. CASE RelayWaits
  BY <1>3, <1>a, MarksFrame DEF RelayWaits
<1>4. CASE RelayWakes
  BY <1>4, <1>a, MarksFrame DEF RelayWakes
<1>5. CASE RelayTries
  BY <1>5, <1>a, MarksFrame DEF RelayTries
<1>6. CASE RelayResends
  BY <1>6, <1>a, MarksFrame DEF RelayResends
<1>7. CASE RelayAnnounces
  BY <1>7, <1>a, MarksFrame DEF RelayAnnounces
<1>8. CASE PumpTakes
  BY <1>8, MarksRead
<1>9. CASE PumpTakesEnd
  <2>1. CASE Dies("engine")
    <3>1. Unheard(native, native') /\ intent' = intent /\ hist' = hist
      BY <1>9, <1>b, <2>1 DEF PumpTakesEnd, Dies
    <3> QED  BY <1>a, <3>1, MarksFrame
  <2>2. CASE native' = [native EXCEPT !.events = Tail(@)]
    <3>0. /\ intent.current \in Nat /\ intent.completed \in Nat /\ intent.cancelled \in Nat
          /\ native.running \in Nat /\ native.made \in Nat /\ native.events \in EventQueue
      BY MarksTyped
    <3>1. /\ native'.events = Tail(native.events) /\ native'.running = native.running /\ native'.made = native.made
          /\ native.events # <<>> /\ Head(native.events).kind = "closed" /\ intent' = intent /\ hist' = hist
      BY <1>0, <1>9, <2>2 DEF PumpTakesEnd, Event, NativeRecord
    <3>2. /\ Unread(native.events, intent.current, intent.completed, intent.cancelled, native.made)
          /\ TurnAtWork(native.events, intent.current, native.running, native.made)
      BY DEF MarksInv, QueueInv
    <3>3. Unread(Tail(native.events), intent.current, intent.completed, intent.cancelled, native.made)
      BY <3>0, <3>1, <3>2, ClosedRead
    <3>4. TurnAtWork(Tail(native.events), intent.current, native.running, native.made)
      BY <3>0, <3>1, <3>2, AtWorkRead
    <3>5. QueueInv'
      BY <3>1, <3>3, <3>4 DEF QueueInv
    <3>6. StopsInv' /\ ContinuableInv'
      BY <3>1 DEF MarksInv, StopsInv, ContinuableInv
    <3> QED  BY <3>5, <3>6 DEF MarksInv
  <2> QED  BY <1>9, <2>1, <2>2 DEF PumpTakesEnd
<1>10. CASE PumpNotices
  BY <1>10, <1>a, MarksFrame DEF PumpNotices
<1>11. CASE PumpLooks
  BY <1>11, <1>a, MarksFrame DEF PumpLooks
<1>12. CASE PumpResumes
  BY <1>12, <1>a, MarksFrame DEF PumpResumes
<1>13. CASE PumpRebuilds
  BY <1>13, MarksBegin DEF PumpRebuilds
<1>14. CASE PumpCloses
  <2>1. Unheard(native, native') /\ hist' = hist /\ (intent' = intent \/ intent' = Finished(intent))
    BY <1>0, <1>14 DEF PumpCloses, Unheard, NativeRecord
  <2> QED  BY <1>a, <2>1, MarksFrame, MarksFinish
<1>15. CASE PumpWaits
  <2>1. Unheard(native, native') /\ intent' = intent /\ hist' = hist
    BY <1>15, <1>a, <1>b DEF PumpWaits, Dies
  <2> QED  BY <1>a, <2>1, MarksFrame
<1>16. CASE PumpWakes
  <2>1. Unheard(native, native') /\ intent' = intent /\ hist' = hist
    BY <1>16, <1>a, <1>b DEF PumpWakes, Dies
  <2> QED  BY <1>a, <2>1, MarksFrame
<1>17. CASE PumpReplaces
  <2>1. Unheard(native, native') /\ intent' = intent /\ hist' = hist
    BY <1>0, <1>17 DEF PumpReplaces, Unheard, NativeRecord
  <2> QED  BY <1>a, <2>1, MarksFrame
<1>18. CASE PumpVerifies
  <2>1. native.running = None
    BY <1>18 DEF PumpVerifies, RestInv
  <2>2. Unheard(native, native') /\ intent' = intent /\ hist' = hist
    BY <1>0, <1>18, <2>1 DEF PumpVerifies, Unheard, NativeRecord
  <2> QED  BY <1>a, <2>2, MarksFrame
<1>19. CASE PumpAnnounces
  BY <1>19, <1>a, MarksFrame DEF PumpAnnounces
<1>20. CASE PumpStops
  BY <1>20, <1>a, MarksFrame DEF PumpStops
<1>21. CASE StatusReads
  <2>1. intent.resend \in BOOLEAN
    BY <1>0 DEF IntentType
  <2>2. intent' = Finished(intent) \/ \E b \in BOOLEAN : intent' = [intent EXCEPT !.resend = b]
    BY <1>21, <2>1 DEF StatusReads
  <2>3. intent' = Finished(intent) \/ Remembers(intent, intent')
    BY <1>0, <2>2, Remembered
  <2>4. native' = native /\ hist' = hist
    BY <1>21 DEF StatusReads
  <2> QED  BY <1>a, <2>3, <2>4, MarksFrame, MarksFinish
<1>22. CASE StatusDisconnects
  BY <1>22, MarksBegin DEF StatusDisconnects
<1>23. CASE StatusResumes
  BY <1>23, <1>a, MarksFrame DEF StatusResumes
<1>24. ASSUME NEW a \in Submitters, Take(a) PROVE MarksInv'
  <2>1. sub[a].rebuilt \in BOOLEAN
    BY <1>0 DEF SubType, SubRecord
  <2>2. Remembers(intent, intent')
    BY <1>0, <1>24, <2>1, <1>a, Remembered DEF Take
  <2> QED  BY <1>24, <1>a, <2>2, MarksFrame DEF Take
<1>25. ASSUME NEW a \in Submitters, Check(a) PROVE MarksInv'
  BY <1>25, <1>a, MarksFrame DEF Check
<1>26. ASSUME NEW a \in Submitters, Send(a) PROVE MarksInv'
  <2>1. intent' = intent /\ hist'.cancelled = hist.cancelled /\ hist'.completed = hist.completed
    BY <1>0, <1>26 DEF Send, HistType
  <2>2. native' = Begins \/ native' = native
    BY <1>26 DEF Send
  <2> QED  BY <1>a, <2>1, <2>2, MarksBegins, MarksFrame
<1>27. ASSUME NEW a \in Submitters, Answer(a) PROVE MarksInv'
  BY <1>27, MarksAnswer
<1>28. ASSUME NEW a \in Submitters, Confirm(a) PROVE MarksInv'
  BY <1>28, <1>a, MarksFrame DEF Confirm
<1>29. CASE Message
  <2>0. intent' = intent \/ intent' = [Forgotten(intent) EXCEPT !.pending = "waiting"]
    BY <1>29 DEF Message
  <2>1. Remembers(intent, intent')
    BY ZenonT(60), <1>0, <1>a, <2>0, Remembered
  <2>2. hist'.cancelled = hist.cancelled /\ hist'.completed = hist.completed /\ native' = native
    BY <1>0, <1>29 DEF Message, HistType
  <2> QED  BY <1>a, <2>1, <2>2, MarksFrame
<1>30. CASE MessageRetries
  <2>1. Remembers(intent, intent')
    BY <1>0, <1>30, Remembered DEF MessageRetries
  <2>2. hist'.cancelled = hist.cancelled /\ hist'.completed = hist.completed /\ native' = native
    BY <1>0, <1>30 DEF MessageRetries, HistType
  <2> QED  BY <1>a, <2>1, <2>2, MarksFrame
<1>c. MessageDone => Remembers(intent, intent')
  BY ZenonT(60), <1>0, Remembered DEF MessageDone
<1>31. CASE MessageHears
  <2>1. Remembers(intent, intent')
    BY <1>31, <1>a, <1>c DEF MessageHears
  <2> QED  BY <1>31, <1>a, <2>1, MarksFrame DEF MessageHears
<1>32. CASE MessageChecks
  <2>1. Remembers(intent, intent')
    BY <1>32, <1>a, <1>c DEF MessageChecks
  <2> QED  BY <1>32, <1>a, <2>1, MarksFrame DEF MessageChecks
<1>33. CASE MessageSends
  <2>1. hist' = hist /\ ((native' = Begins /\ intent' = intent) \/ (native' = native /\ Remembers(intent, intent')))
    BY <1>33, <1>c DEF MessageSends
  <2> QED  BY <1>a, <2>1, MarksBegins, MarksFrame
<1>34. CASE MessageAnswered
  <2>1. Remembers(intent, intent')
    BY <1>34, <1>c DEF MessageAnswered
  <2> QED  BY <1>34, <1>a, <2>1, MarksFrame DEF MessageAnswered
<1>35. CASE Interrupt
  BY <1>35, MarksStop
<1>36. CASE Retry
  BY <1>36, <1>a, MarksFrame DEF Retry
<1>37. CASE Close
  <2>1. Unheard(native, native') /\ intent' = intent /\ hist' = hist
    BY <1>37, <1>b DEF Close
  <2> QED  BY <1>a, <2>1, MarksFrame
<1>38. CASE TurnEnds
  BY <1>38, MarksEnd
<1>39. CASE EngineEnds
  BY <1>39, MarksEnd
<1> QED
  BY <1>1, <1>2, <1>3, <1>4, <1>5, <1>6, <1>7, <1>8, <1>9, <1>10, <1>11, <1>12, <1>13, <1>14, <1>15, <1>16, <1>17, <1>18, <1>19, <1>20, <1>21, <1>22, <1>23, <1>24, <1>25, <1>26, <1>27, <1>28, <1>29, <1>30, <1>31, <1>32, <1>33, <1>34, <1>35, <1>36, <1>37, <1>38, <1>39
     DEF Next, RelaySteps, PumpSteps, StatusSteps, Submits, MessageSteps

LEMMA GateFrame ==
  ASSUME GateInv, native'.made = native.made, gate' = gate,
         user'.at \in {"checked", "sent"} => user.at \in {"checked", "sent"},
         \A a \in Submitters : sub'[a].at \in {"send", "answer"} => sub'[a].at = sub[a].at /\ sub'[a].got = sub[a].got
  PROVE  GateInv'
BY DEF GateInv

\* A turn begins for the one that holds the gate.
LEMMA GateBegins ==
  ASSUME TypeOK, MarksInv, native' = Begins
  PROVE  native'.running = native'.made
<1>1. native \in NativeRecord
  BY TypeMeans DEF NativeType
<1> QED  BY <1>1 DEF Begins, NativeRecord, MarksInv, QueueInv, TurnAtWork

LEMMA GateSend ==
  ASSUME TypeOK, MarksInv, GateInv, NEW a \in Submitters, Send(a)
  PROVE  GateInv'
<1>0. sub \in SubType /\ sub[a].at = "send" /\ user' = user
  BY TypeMeans DEF Send
<1>1. gate = a /\ a # "user" /\ a # "free"
  BY <1>0 DEF GateInv, Submitters
<1>2. user.at \notin {"checked", "sent"} /\ \A b \in Submitters : b # a => sub[b].at \notin {"send", "answer"}
  BY <1>1 DEF GateInv
<1>3. CASE native' = Begins /\ sub' = [sub EXCEPT ![a].at = "answer", ![a].got = native'.running] /\ gate' = gate
  <2>1. native'.running = native'.made
    BY <1>3, GateBegins
  <2>2. sub'[a].at = "answer" /\ sub'[a].got = native'.made /\ \A b \in Submitters : b # a => sub'[b] = sub[b]
    BY <1>0, <1>3, <2>1 DEF SubType, SubRecord
  <2> QED  BY <1>0, <1>1, <1>2, <1>3, <2>2 DEF GateInv
<1>4. CASE sub' = [sub EXCEPT ![a].at = "confirm"]
  <2>1. sub'[a].at = "confirm" /\ \A b \in Submitters : b # a => sub'[b] = sub[b]
    BY <1>0, <1>4 DEF SubType, SubRecord
  <2> QED  BY <1>0, <1>2, <2>1 DEF GateInv
<1> QED  BY <1>3, <1>4 DEF Send

LEMMA GateKept == TypeOK /\ MarksInv /\ GateInv /\ Next => GateInv'
<1> SUFFICES ASSUME TypeOK, MarksInv, GateInv, Next PROVE GateInv'
  OBVIOUS
<1>0. native \in NativeRecord /\ sub \in SubType /\ user \in UserType /\ gate \in GateType
  BY TypeMeans DEF NativeType
<1>b. ShutDown => native'.made = native.made
  BY <1>0 DEF ShutDown, NativeRecord
<1>d. MessageDone => user'.at = "none"
  BY DEF MessageDone, NoMessage
<1>1. CASE RelayBreaks
  BY <1>1, GateFrame DEF RelayBreaks
<1>2. CASE RelayEnds
  BY <1>2, GateFrame DEF RelayEnds
<1>3. CASE RelayWaits
  BY <1>3, GateFrame DEF RelayWaits
<1>4. CASE RelayWakes
  BY <1>4, GateFrame DEF RelayWakes
<1>5. CASE RelayTries
  BY <1>5, GateFrame DEF RelayTries
<1>6. CASE RelayResends
  BY <1>6, GateFrame DEF RelayResends
<1>7. CASE RelayAnnounces
  BY <1>7, GateFrame DEF RelayAnnounces
<1>8. CASE PumpTakes
  BY <1>0, <1>8, GateFrame DEF PumpTakes, NativeRecord
<1>9. CASE PumpTakesEnd
  <2>1. native'.made = native.made
    BY <1>0, <1>9, <1>b DEF PumpTakesEnd, Dies, NativeRecord
  <2> QED  BY <1>9, <2>1, GateFrame DEF PumpTakesEnd
<1>10. CASE PumpNotices
  BY <1>10, GateFrame DEF PumpNotices
<1>11. CASE PumpLooks
  BY <1>0, <1>11, GateFrame DEF PumpLooks, SubType, NoSubmission
<1>12. CASE PumpResumes
  BY <1>12, GateFrame DEF PumpResumes
<1>13. CASE PumpRebuilds
  BY <1>13, GateFrame DEF PumpRebuilds
<1>14. CASE PumpCloses
  BY <1>0, <1>14, GateFrame DEF PumpCloses, NativeRecord
<1>15. CASE PumpWaits
  <2>1. native'.made = native.made
    BY <1>15, <1>b DEF PumpWaits, Dies
  <2> QED  BY <1>15, <2>1, GateFrame DEF PumpWaits
<1>16. CASE PumpWakes
  <2>1. native'.made = native.made
    BY <1>16, <1>b DEF PumpWakes, Dies
  <2> QED  BY <1>16, <2>1, GateFrame DEF PumpWakes
<1>17. CASE PumpReplaces
  BY <1>0, <1>17, GateFrame DEF PumpReplaces, NativeRecord
<1>18. CASE PumpVerifies
  <2>1. native'.made = native.made
    BY <1>0, <1>18 DEF PumpVerifies, NativeRecord
  <2>2. sub' = sub \/ sub' = [sub EXCEPT !["pump"] = [NoSubmission EXCEPT !.at = "take", !.rebuilt = TRUE]]
    BY <1>18 DEF PumpVerifies
  <2>3. \A a \in Submitters : sub'[a].at \in {"send", "answer"} => sub'[a].at = sub[a].at /\ sub'[a].got = sub[a].got
    BY <1>0, <2>2 DEF SubType, NoSubmission
  <2> QED  BY <1>18, <2>1, <2>3, GateFrame DEF PumpVerifies
<1>19. CASE PumpAnnounces
  BY <1>19, GateFrame DEF PumpAnnounces
<1>20. CASE PumpStops
  <2>1. /\ sub' = [sub EXCEPT !["pump"] = NoSubmission] /\ user' = user /\ native' = native
        /\ gate' = IF gate = "pump" THEN "free" ELSE gate
    BY <1>20 DEF PumpStops
  <2>2. \A a \in Submitters : IF a = "pump" THEN sub'[a].at = "none" ELSE sub'[a] = sub[a]
    BY <1>0, <2>1 DEF SubType, NoSubmission
  <2> QED  BY <2>1, <2>2 DEF GateInv
<1>21. CASE StatusReads
  <2>1. sub' = sub \/ sub' = [sub EXCEPT !["status"] = [NoSubmission EXCEPT !.at = "take"]]
    BY <1>21 DEF StatusReads
  <2>2. \A a \in Submitters : sub'[a].at \in {"send", "answer"} => sub'[a].at = sub[a].at /\ sub'[a].got = sub[a].got
    BY <1>0, <2>1 DEF SubType, NoSubmission
  <2> QED  BY <1>21, <2>2, GateFrame DEF StatusReads
<1>22. CASE StatusDisconnects
  BY <1>22, GateFrame DEF StatusDisconnects
<1>23. CASE StatusResumes
  BY <1>23, GateFrame DEF StatusResumes
<1>24. ASSUME NEW a \in Submitters, Take(a) PROVE GateInv'
  <2>1. \A b \in Submitters : IF b = a THEN sub'[b].at \in {"check", "none"} ELSE sub'[b] = sub[b]
    BY <1>0, <1>24 DEF Take, SubType, SubRecord, NoSubmission
  <2> QED  BY <1>24, <2>1, GateFrame DEF Take
<1>25. ASSUME NEW a \in Submitters, Check(a) PROVE GateInv'
  <2>1. gate = "free" /\ user' = user /\ native' = native /\ sub[a].at = "check"
    BY <1>25 DEF Check
  <2>2. user.at \notin {"checked", "sent"} /\ \A b \in Submitters : sub[b].at \notin {"send", "answer"}
    BY <2>1 DEF GateInv, Submitters
  <2>3. \A b \in Submitters : b # a => sub'[b] = sub[b]
    BY <1>0, <1>25 DEF Check, SubType
  <2>4. sub'[a].at \in {"none", "send", "confirm"} /\ (sub'[a].at = "send" => gate' = a)
    BY <1>0, <1>25 DEF Check, SubType, SubRecord, NoSubmission
  <2> QED  BY <2>1, <2>2, <2>3, <2>4 DEF GateInv
<1>26. ASSUME NEW a \in Submitters, Send(a) PROVE GateInv'
  BY <1>26, GateSend
<1>27. ASSUME NEW a \in Submitters, Answer(a) PROVE GateInv'
  <2>1. gate = a /\ a # "user" /\ user' = user /\ native' = native
    BY <1>27 DEF Answer, GateInv, Submitters
  <2>2. user.at \notin {"checked", "sent"} /\ \A b \in Submitters : b # a => sub[b].at \notin {"send", "answer"}
    BY <2>1 DEF GateInv
  <2>3. sub'[a].at \in {"none", "confirm"} /\ \A b \in Submitters : b # a => sub'[b] = sub[b]
    BY <1>0, <1>27 DEF Answer, SubType, SubRecord, NoSubmission
  <2> QED  BY <2>1, <2>2, <2>3 DEF GateInv
<1>28. ASSUME NEW a \in Submitters, Confirm(a) PROVE GateInv'
  BY <1>0, <1>28, GateFrame DEF Confirm, SubType, NoSubmission
<1>29. CASE Message
  BY <1>0, <1>29, GateFrame DEF Message, UserType
<1>30. CASE MessageRetries
  BY <1>30, GateFrame DEF MessageRetries
<1>31. CASE MessageHears
  BY <1>0, <1>31, <1>d, GateFrame DEF MessageHears
<1>32. CASE MessageChecks
  <2>1. gate = "free" /\ sub' = sub /\ native' = native
    BY <1>32 DEF MessageChecks
  <2>2. user.at \notin {"checked", "sent"} /\ \A b \in Submitters : sub[b].at \notin {"send", "answer"}
    BY <2>1 DEF GateInv, Submitters
  <2>3. gate' = "user" \/ user'.at = "none"
    BY <1>32, <1>d DEF MessageChecks
  <2> QED  BY <2>1, <2>2, <2>3 DEF GateInv
<1>33. CASE MessageSends
  <2>1. gate = "user" /\ sub' = sub
    BY <1>33 DEF MessageSends, GateInv
  <2>2. \A b \in Submitters : sub[b].at \notin {"send", "answer"}
    BY <2>1 DEF GateInv, Submitters
  <2>3. user'.at = "none" \/ gate' = gate
    BY <1>33, <1>d DEF MessageSends
  <2> QED  BY <2>1, <2>2, <2>3 DEF GateInv
<1>34. CASE MessageAnswered
  <2>1. gate = "user" /\ sub' = sub /\ user'.at = "none"
    BY <1>34, <1>d DEF MessageAnswered, GateInv
  <2>2. \A b \in Submitters : sub[b].at \notin {"send", "answer"}
    BY <2>1 DEF GateInv, Submitters
  <2> QED  BY <2>1, <2>2 DEF GateInv
<1>35. CASE Interrupt
  <2>1. native'.made = native.made
    BY <1>0, <1>35 DEF Interrupt, TurnEnded, NativeRecord
  <2> QED  BY <1>35, <2>1, GateFrame DEF Interrupt
<1>36. CASE Retry
  BY <1>36, GateFrame DEF Retry
<1>37. CASE Close
  BY <1>37, <1>b, GateFrame DEF Close
<1>38. CASE TurnEnds
  <2>1. native'.made = native.made
    BY <1>0, <1>38 DEF TurnEnds, TurnEnded, NativeRecord
  <2> QED  BY <1>38, <2>1, GateFrame DEF TurnEnds
<1>39. CASE EngineEnds
  <2>1. native'.made = native.made
    BY <1>0, <1>39 DEF EngineEnds, NativeRecord
  <2> QED  BY <1>39, <2>1, GateFrame DEF EngineEnds
<1> QED
  BY <1>1, <1>2, <1>3, <1>4, <1>5, <1>6, <1>7, <1>8, <1>9, <1>10, <1>11, <1>12, <1>13, <1>14, <1>15, <1>16, <1>17, <1>18, <1>19, <1>20, <1>21, <1>22, <1>23, <1>24, <1>25, <1>26, <1>27, <1>28, <1>29, <1>30, <1>31, <1>32, <1>33, <1>34, <1>35, <1>36, <1>37, <1>38, <1>39
     DEF Next, RelaySteps, PumpSteps, StatusSteps, Submits, MessageSteps

LEMMA RestFrame ==
  ASSUME RestInv, pump'.at \in Waiting \cup {"wait", "replacing"} => pump.at \in Waiting \cup {"wait", "replacing"},
         pump'.at = "verifying" => pump.at = "verifying",
         native'.alive => native.alive, native'.running \in {None, native.running}
  PROVE  RestInv'
BY DEF RestInv

\* Only an engine that is alive, and known, begins a turn.
LEMMA RestBegins ==
  ASSUME TypeOK, RestInv, NEW number \in Nat, Alive(number), native' = Begins, pump' = pump
  PROVE  RestInv'
<1>1. native.alive /\ pump.at # "verifying"
  BY DEF Alive
<1> QED  BY <1>1 DEF RestInv

LEMMA RestKept == TypeOK /\ RestInv /\ Next => RestInv'
<1> SUFFICES ASSUME TypeOK, RestInv, Next PROVE RestInv'
  OBVIOUS
<1>0. native \in NativeRecord /\ pump \in PumpType /\ sub \in SubType /\ user \in UserType
  BY TypeMeans DEF NativeType
<1>b. ShutDown => ~native'.alive /\ native'.running = None
  BY <1>0 DEF ShutDown, NativeRecord
<1>c. ShutDown => RestInv'
  BY <1>b DEF RestInv
<1>n. Notify /\ native' = native => RestInv'
  <2> SUFFICES ASSUME Notify, native' = native PROVE RestInv'
    OBVIOUS
  <2>1. pump'.at = Woken(pump.at)
    BY <1>0 DEF Notify, PumpType
  <2> QED  BY <2>1, RestFrame DEF Woken, Waiting
<1>1. CASE RelayBreaks
  BY <1>1, RestFrame DEF RelayBreaks
<1>2. CASE RelayEnds
  BY <1>2, RestFrame DEF RelayEnds
<1>3. CASE RelayWaits
  BY <1>3, RestFrame DEF RelayWaits
<1>4. CASE RelayWakes
  BY <1>4, RestFrame DEF RelayWakes
<1>5. CASE RelayTries
  BY <1>5, RestFrame DEF RelayTries
<1>6. CASE RelayResends
  BY <1>6, RestFrame DEF RelayResends
<1>7. CASE RelayAnnounces
  BY <1>7, RestFrame DEF RelayAnnounces
<1>8. CASE PumpTakes
  <2>1. native'.alive = native.alive /\ native'.running = native.running
    BY <1>0, <1>8 DEF PumpTakes, NativeRecord
  <2>2. pump'.at \in {"select", "ended"}
    BY <1>0, <1>8 DEF PumpTakes, PumpType
  <2> QED  BY <2>1, <2>2, RestFrame DEF Waiting
<1>9. CASE PumpTakesEnd
  <2>1. pump'.at \in {"dead", "rebuild"}
    BY <1>9 DEF PumpTakesEnd, Dies
  <2> QED  BY <2>1 DEF RestInv, Waiting
<1>10. CASE PumpNotices
  BY <1>10 DEF PumpNotices, RestInv, Waiting
<1>11. CASE PumpLooks
  BY <1>0, <1>11 DEF PumpLooks, RestInv, Waiting, PumpType
<1>12. CASE PumpResumes
  BY <1>0, <1>12 DEF PumpResumes, RestInv, Waiting, PumpType
<1>13. CASE PumpRebuilds
  BY <1>0, <1>13 DEF PumpRebuilds, RestInv, Waiting, PumpType
<1>14. CASE PumpCloses
  BY <1>0, <1>14 DEF PumpCloses, RestInv, NativeRecord
<1>15. CASE PumpWaits
  <2>1. ShutDown \/ (native' = native /\ pump.at = "wait" /\ pump'.at \in {"asleep", "parked"})
    BY <1>0, <1>15 DEF PumpWaits, Dies, PumpType
  <2> QED  BY <1>c, <2>1 DEF RestInv, Waiting
<1>16. CASE PumpWakes
  <2>1. ShutDown \/ (native' = native /\ pump.at \in Waiting /\ pump'.at = "replacing")
    BY <1>0, <1>16 DEF PumpWakes, Dies, PumpType, Waiting
  <2> QED  BY <1>c, <2>1 DEF RestInv, Waiting
<1>17. CASE PumpReplaces
  <2>1. pump.at = "replacing" /\ native'.running = native.running
    BY <1>0, <1>17 DEF PumpReplaces, NativeRecord
  <2>2. pump'.at = "verifying" \/ (pump'.at = "wait" /\ native' = native)
    BY <1>17 DEF PumpReplaces
  <2> QED  BY <2>1, <2>2 DEF RestInv, Waiting
<1>18. CASE PumpVerifies
  <2>1. native.running = None
    BY <1>18 DEF PumpVerifies, RestInv
  <2>2. pump'.at = "continuing" \/ native' = [native EXCEPT !.alive = FALSE, !.events = <<>>]
    BY <1>18 DEF PumpVerifies
  <2>3. pump'.at = "continuing" \/ (~native'.alive /\ native'.running = None)
    BY <1>0, <2>1, <2>2 DEF NativeRecord
  <2> QED  BY <2>3 DEF RestInv, Waiting
<1>19. CASE PumpAnnounces
  BY <1>0, <1>19 DEF PumpAnnounces, RestInv, Waiting, PumpType
<1>20. CASE PumpStops
  BY <1>20 DEF PumpStops, RestInv, Waiting
<1>21. CASE StatusReads
  BY <1>21, RestFrame DEF StatusReads
<1>22. CASE StatusDisconnects
  BY <1>22, RestFrame DEF StatusDisconnects
<1>23. CASE StatusResumes
  BY <1>23, RestFrame DEF StatusResumes
<1>24. ASSUME NEW a \in Submitters, Take(a) PROVE RestInv'
  BY <1>24, RestFrame DEF Take
<1>25. ASSUME NEW a \in Submitters, Check(a) PROVE RestInv'
  BY <1>25, RestFrame DEF Check
<1>26. ASSUME NEW a \in Submitters, Send(a) PROVE RestInv'
  <2>1. sub[a].gen \in Nat /\ pump' = pump
    BY <1>0, <1>26 DEF Send, SubType, SubRecord
  <2>2. (Alive(sub[a].gen) /\ native' = Begins) \/ native' = native
    BY <1>26 DEF Send
  <2> QED  BY <2>1, <2>2, RestBegins, RestFrame
<1>27. ASSUME NEW a \in Submitters, Answer(a) PROVE RestInv'
  BY <1>27, RestFrame DEF Answer
<1>28. ASSUME NEW a \in Submitters, Confirm(a) PROVE RestInv'
  BY <1>28, RestFrame DEF Confirm
<1>29. CASE Message
  <2>1. native' = native /\ (Notify \/ pump' = pump)
    BY <1>29 DEF Message
  <2> QED  BY <1>n, <2>1, RestFrame
<1>30. CASE MessageRetries
  BY <1>30, <1>n DEF MessageRetries
<1>31. CASE MessageHears
  BY <1>31, RestFrame DEF MessageHears
<1>32. CASE MessageChecks
  BY <1>32, RestFrame DEF MessageChecks
<1>33. CASE MessageSends
  <2>1. user.gen \in Nat /\ pump' = pump
    BY <1>0, <1>33 DEF MessageSends, UserType
  <2>2. (Alive(user.gen) /\ native' = Begins) \/ native' = native
    BY <1>33 DEF MessageSends
  <2> QED  BY <2>1, <2>2, RestBegins, RestFrame
<1>34. CASE MessageAnswered
  BY <1>34, RestFrame DEF MessageAnswered
<1>35. CASE Interrupt
  <2>1. pump' = pump /\ native'.alive = native.alive /\ native'.running \in {None, native.running}
    BY <1>0, <1>35 DEF Interrupt, TurnEnded, NativeRecord
  <2> QED  BY <2>1, RestFrame
<1>36. CASE Retry
  BY <1>36, <1>n DEF Retry
<1>37. CASE Close
  BY <1>37, <1>c DEF Close
<1>38. CASE TurnEnds
  <2>1. pump' = pump /\ native'.alive = native.alive /\ native'.running = None
    BY <1>0, <1>38 DEF TurnEnds, TurnEnded, NativeRecord
  <2> QED  BY <2>1, RestFrame
<1>39. CASE EngineEnds
  <2>1. pump' = pump /\ native'.alive = FALSE /\ native'.running = None
    BY <1>0, <1>39 DEF EngineEnds, NativeRecord
  <2> QED  BY <2>1, RestFrame
<1> QED
  BY <1>1, <1>2, <1>3, <1>4, <1>5, <1>6, <1>7, <1>8, <1>9, <1>10, <1>11, <1>12, <1>13, <1>14, <1>15, <1>16, <1>17, <1>18, <1>19, <1>20, <1>21, <1>22, <1>23, <1>24, <1>25, <1>26, <1>27, <1>28, <1>29, <1>30, <1>31, <1>32, <1>33, <1>34, <1>35, <1>36, <1>37, <1>38, <1>39
     DEF Next, RelaySteps, PumpSteps, StatusSteps, Submits, MessageSteps

-----------------------------------------------------------------------------
LEMMA TurnsInitially == Init => TurnInv
<1> SUFFICES ASSUME Init PROVE TurnInv
  OBVIOUS
<1>1. QueueInv
  BY NothingUnread DEF Init, QueueInv
<1>2. StopsInv /\ ContinuableInv
  BY DEF Init, StopsInv, ContinuableInv, None
<1>3. GateInv
  BY DEF Init, GateInv, NoSubmission, NoMessage
<1>4. RestInv
  BY DEF Init, RestInv, Waiting
<1> QED  BY <1>1, <1>2, <1>3, <1>4 DEF TurnInv, MarksInv

LEMMA TurnsKept == TypeOK /\ TurnInv /\ [Next]_vars => TurnInv'
<1> SUFFICES ASSUME TypeOK, TurnInv, [Next]_vars PROVE TurnInv'
  OBVIOUS
<1>1. CASE Next
  BY <1>1, MarksKept, GateKept, RestKept DEF TurnInv
<1>2. CASE UNCHANGED vars
  <2>1. MarksInv'
    BY <1>2 DEF vars, TurnInv, MarksInv, QueueInv, StopsInv, ContinuableInv
  <2>2. GateInv' /\ RestInv'
    BY <1>2 DEF vars, TurnInv, GateInv, RestInv
  <2> QED  BY <2>1, <2>2 DEF TurnInv
<1> QED  BY <1>1, <1>2

\* A submission moves on by a step of its own only.
LEMMA TakenOrChecked ==
  ASSUME TypeOK, Next, NEW a \in Submitters,
         \/ sub[a].at = "take" /\ sub'[a].at = "check"
         \/ sub[a].at = "check" /\ sub'[a].at = "send"
  PROVE  Take(a) \/ Check(a)
<1>0. sub \in SubType
  BY TypeMeans
<1>1. sub' # sub
  OBVIOUS
<1>2. ASSUME NEW b \in Submitters, sub' = [sub EXCEPT ![b] = NoSubmission] \/ sub' = [sub EXCEPT ![b] = [NoSubmission EXCEPT !.at = "take"]]
                                   \/ sub' = [sub EXCEPT ![b] = [NoSubmission EXCEPT !.at = "take", !.rebuilt = TRUE]]
      PROVE  FALSE
  <2> DEFINE r == [NoSubmission EXCEPT !.at = "take"]
             s == [NoSubmission EXCEPT !.at = "take", !.rebuilt = TRUE]
  <2>1. NoSubmission.at = "none" /\ r.at = "take" /\ s.at = "take"
    BY DEF NoSubmission
  <2> HIDE DEF r, s
  <2>2. PICK t \in {NoSubmission, r, s} : sub' = [sub EXCEPT ![b] = t]
    BY <1>2 DEF r, s
  <2>3. sub'[a] = sub[a] \/ sub'[a] = t
    BY <1>0, <2>2 DEF SubType
  <2> QED  BY <2>1, <2>2, <2>3
<1>3. "pump" \in Submitters /\ "status" \in Submitters
  BY DEF Submitters
<1>4. ~RelayBreaks /\ ~RelaySteps
  BY <1>1 DEF RelayBreaks, RelaySteps, RelayEnds, RelayWaits, RelayWakes, RelayTries, RelayResends, RelayAnnounces
<1>5. ~PumpTakes /\ ~PumpTakesEnd /\ ~PumpNotices /\ ~PumpResumes /\ ~PumpRebuilds /\ ~PumpCloses /\ ~PumpWaits
      /\ ~PumpWakes /\ ~PumpReplaces /\ ~PumpAnnounces
  BY <1>1 DEF PumpTakes, PumpTakesEnd, PumpNotices, PumpResumes, PumpRebuilds, PumpCloses, PumpWaits, PumpWakes,
              PumpReplaces, PumpAnnounces
<1>6. ~PumpLooks /\ ~PumpStops
  BY <1>1, <1>2, <1>3 DEF PumpLooks, PumpStops
<1>7. ~PumpVerifies
  BY <1>1, <1>2, <1>3 DEF PumpVerifies
<1>8. ~StatusSteps
  BY <1>1, <1>2, <1>3 DEF StatusSteps, StatusReads, StatusDisconnects, StatusResumes
<1>9. ~Message /\ ~MessageRetries /\ ~MessageSteps /\ ~Interrupt /\ ~Retry /\ ~Close /\ ~TurnEnds /\ ~EngineEnds
  BY <1>1 DEF Message, MessageRetries, MessageSteps, MessageHears, MessageChecks, MessageSends, MessageAnswered,
              Interrupt, Retry, Close, TurnEnds, EngineEnds
<1>10. PICK b \in Submitters : Submits(b)
  BY <1>4, <1>5, <1>6, <1>7, <1>8, <1>9 DEF Next, PumpSteps
<1>11. ~Confirm(b)
  BY <1>2, <1>10 DEF Confirm
<1>12. sub[b].at \in {"take", "check", "send", "answer"} /\ \A c \in Submitters : c # b => sub'[c] = sub[c]
  BY <1>0, <1>10, <1>11 DEF Submits, Take, Check, Send, Answer, SubType
<1>13. a = b
  BY <1>12
<1>14. ~Send(a) /\ ~Answer(a)
  BY DEF Send, Answer
<1> QED  BY <1>10, <1>11, <1>13, <1>14 DEF Submits

(* intent.rs: what is taken is the interrupted turn, and what is sent is not the one stopped last. *)
LEMMA EndedStep ==
  ASSUME TypeOK, TurnInv, Next, NEW a \in Submitters
  PROVE  ~TakenFor(a, hist.cancelled \cup hist.completed) /\ ~SentFor(a, LastStopped)
<1>0. sub \in SubType
  BY TypeMeans
<1>1. ASSUME TakenFor(a, hist.cancelled \cup hist.completed) PROVE FALSE
  <2>1. sub[a].at = "take" /\ sub'[a].at = "check" /\ sub'[a].turn \in hist.cancelled \cup hist.completed
    BY <1>1 DEF TakenFor
  <2>2. Take(a)
    BY <2>1, TakenOrChecked DEF Check
  <2>3. sub' # [sub EXCEPT ![a] = NoSubmission]
    BY <1>0, <2>1 DEF SubType, NoSubmission
  <2>4. sub'[a].turn = intent.interrupted
    BY <1>0, <2>2, <2>3 DEF Take, SubType, SubRecord
  <2> QED  BY <2>1, <2>4 DEF TurnInv, MarksInv, ContinuableInv
<1>2. ASSUME SentFor(a, LastStopped) PROVE FALSE
  <2>1. sub[a].at = "check" /\ sub'[a].at = "send" /\ sub[a].turn \in LastStopped
    BY <1>2 DEF SentFor
  <2>2. Check(a)
    BY <2>1, TakenOrChecked DEF Take
  <2>3. sub[a].turn # intent.cancelled
    BY <1>0, <2>1, <2>2 DEF Check, SubType, SubRecord, NoSubmission
  <2>4. hist.cancelled \subseteq Nat /\ intent.cancelled \in Nat
    BY MarksTyped
  <2>5. sub[a].turn \in hist.cancelled /\ \A u \in hist.cancelled : u <= sub[a].turn
    BY <2>1 DEF LastStopped
  <2>6. intent.cancelled \in hist.cancelled /\ sub[a].turn <= intent.cancelled
    BY <2>5 DEF TurnInv, MarksInv, StopsInv
  <2> QED  BY <2>3, <2>4, <2>5, <2>6
<1> QED  BY <1>1, <1>2

(* cancel, observe and is_cancelled, in intent.rs: no continuation is taken for a turn that the user
   stopped or that the session saw completed, and none is sent for the turn he stopped last. *)
THEOREM EndedIsNotContinued == Spec => EndedStays
<1>1. Init => TurnInv
  BY TurnsInitially
<1>2. TypeOK /\ TurnInv /\ [Next]_vars => TurnInv'
  BY TurnsKept
<1>3. TypeOK /\ TurnInv /\ Next => ContinuesUnended
  BY EndedStep DEF ContinuesUnended
<1> QED  BY <1>1, <1>2, <1>3, RecoveryTypes, PTL DEF Spec, EndedStays
=============================================================================
