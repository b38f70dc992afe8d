--------------------------- MODULE SessionProofs ---------------------------
(***************************************************************************)
(* Theorems about the parts of a session and of the connection to its      *)
(* server, for every number of calls, commands, windows and replacements.  *)
(***************************************************************************)
EXTENDS SessionAuthority, SessionGoals, NativeFrontend, SessionOwnership, ServerConnection,
        SequenceTheorems, FiniteSetTheorems, TLAPS

-----------------------------------------------------------------------------
(* Sequences: what is appended is last, and what is read was first. *)

LEMMA AppendMeans ==
  ASSUME NEW X, NEW s \in Seq(X), NEW e \in X
  PROVE  /\ Append(s, e) \in Seq(X) /\ Len(s) \in Nat /\ DOMAIN s = 1 .. Len(s)
         /\ DOMAIN Append(s, e) = 1 .. (Len(s) + 1)
         /\ Append(s, e)[Len(s) + 1] = e /\ \A n \in 1 .. Len(s) : Append(s, e)[n] = s[n]
BY AppendProperties, LenProperties

LEMMA TailMeans ==
  ASSUME NEW X, NEW s \in Seq(X), s # <<>>
  PROVE  /\ Head(s) \in X /\ Head(s) = s[1] /\ Tail(s) \in Seq(X)
         /\ Len(s) \in Nat \ {0} /\ DOMAIN s = 1 .. Len(s) /\ DOMAIN Tail(s) = 1 .. (Len(s) - 1)
         /\ \A n \in 1 .. (Len(s) - 1) : Tail(s)[n] = s[n + 1]
<1>1. Len(s) \in Nat \ {0} /\ DOMAIN s = 1 .. Len(s)
  BY EmptySeq, LenProperties
<1>2. Head(s) \in X /\ Tail(s) \in Seq(X) /\ Len(Tail(s)) = Len(s) - 1
      /\ \A n \in 1 .. Len(Tail(s)) : Tail(s)[n] = s[n + 1]
  BY HeadTailProperties
<1>3. DOMAIN Tail(s) = 1 .. Len(Tail(s))
  BY <1>2, LenProperties
<1>4. Head(s) = s[1]
  BY <1>1
<1> QED  BY <1>1, <1>2, <1>3, <1>4

-----------------------------------------------------------------------------
(* SessionAuthority: the types of its variables. *)

Kinds == {"ask", "resolved", "end"}
SettingsNotes == [kind : {"settings"}, value : BOOLEAN]
ItemNotes == [kind : Kinds, value : Items]
Notes == SettingsNotes \cup ItemNotes
Stream == Seq(Notes)
CallRecord == [kind : {"settings", "turn"}, full : BOOLEAN,
               at : {"ready", "sent", "accepted", "lost", "confirming", "over"}]
CallList == Seq(CallRecord)
Change == [call : Nat \ {0}, full : BOOLEAN, observed : BOOLEAN, acknowledged : BOOLEAN]
PermissionsType == [grant : BOOLEAN, change : {NoChange} \cup Change]
Queue == Seq(Nat)
EngineType == [up : BOOLEAN, full : BOOLEAN, requests : Queue, accepted : Queue]
ItemRecord == [at : {"idle", "asked", "accepted", "started", "over"}, prompt : BOOLEAN,
               held : {"none", "pending", "accepted"}, answer : {"none", "accept", "decline"}]
ItemsType == [Items -> ItemRecord]
InRange(q, cs) == \A n \in DOMAIN q : q[n] \in 1 .. Len(cs)

AuthorityTypeOK ==
  /\ engine \in EngineType /\ stream \in Stream /\ permissions \in PermissionsType /\ snapshot \in BOOLEAN
  /\ calls \in CallList /\ items \in ItemsType /\ wish \in BOOLEAN
  /\ InRange(engine.requests, calls) /\ InRange(engine.accepted, calls)

Settled == permissions.change = NoChange
Lowers(note) == note.kind = "settings" /\ ~note.value
Raises(note) == note.kind = "settings" /\ note.value
AcceptedComing == \E n \in DOMAIN engine.accepted : calls[engine.accepted[n]].full
\* Full Access is in force, or what ends or begins it is not known to the session yet.
Covered == engine.full \/ LoweringUnread(stream) \/ AcceptedComing

\* The change under way is the last one begun; it is settled when it is acknowledged and observed.
ChangeInv ==
  /\ permissions.grant => wish
  /\ ~Settled => /\ permissions.change.call \in CallIds
                 /\ calls[permissions.change.call].full = permissions.change.full
                 /\ permissions.change.full = wish
                 /\ ~(permissions.change.observed /\ permissions.change.acknowledged)

\* The stream tells every change of the policy: what it raises is in force or lowered later on.
ToldAll(s, full) ==
  \A n \in DOMAIN s : Raises(s[n]) => full \/ \E m \in DOMAIN s : n < m /\ Lowers(s[m])
StreamInv == ToldAll(stream, engine.full)

\* The grant, and a change that the engine has accepted and the session does not know of yet.
GrantInv ==
  /\ engine.up /\ permissions.grant => Covered
  /\ engine.up /\ ~Settled /\ permissions.change.full
       => (calls[permissions.change.call].at = "accepted" => Covered)
  /\ ~engine.up => stream = <<>> /\ engine.requests = <<>> /\ engine.accepted = <<>>

About(note, i) == note.kind # "settings" /\ note.value = i
Silent(s, i) == \A n \in DOMAIN s : ~About(s[n], i)
LastIsEnd(s, i) == \E n \in DOMAIN s : /\ About(s[n], i) /\ s[n].kind = "end"
                                       /\ \A m \in DOMAIN s : n < m => ~About(s[m], i)
EndOf(i) == items[i].at = "over" => (items[i].held = "none" /\ Silent(stream, i)) \/ LastIsEnd(stream, i)
\* The last that the stream tells of a command that is over is its end.
EndInv ==
  \A i \in Items : EndOf(i)

-----------------------------------------------------------------------------
(* The notifications, as the engine tells them and the pump reads them. *)

LEMMA NoteMeans ==
  /\ \A full \in BOOLEAN : /\ Note("settings", full) \in Notes /\ Note("settings", full).kind = "settings"
                           /\ Note("settings", full).value = full
  /\ \A i \in Items, kind \in Kinds : /\ Note(kind, i) \in Notes /\ Note(kind, i).kind = kind /\ kind # "settings"
                                     /\ Note(kind, i).value = i
  /\ \A note \in Notes : /\ note.kind = "settings" => note.value \in BOOLEAN
                         /\ note.kind # "settings" => note.value \in Items /\ note.kind \in Kinds
BY DEF Note, Notes, SettingsNotes, ItemNotes, Kinds

LEMMA StreamGrows ==
  ASSUME NEW s \in Stream, NEW note \in Notes, NEW full \in BOOLEAN
  PROVE  /\ Append(s, note) \in Stream
         /\ LoweringUnread(s) => LoweringUnread(Append(s, note))
         /\ Lowers(note) => LoweringUnread(Append(s, note))
         /\ note.kind # "settings" /\ ToldAll(s, full) => ToldAll(Append(s, note), full)
         /\ note.kind = "settings" /\ note.value = ~full /\ ToldAll(s, full) => ToldAll(Append(s, note), ~full)
         /\ \A i \in Items : /\ ~About(note, i) /\ Silent(s, i) => Silent(Append(s, note), i)
                             /\ ~About(note, i) /\ LastIsEnd(s, i) => LastIsEnd(Append(s, note), i)
                             /\ About(note, i) /\ note.kind = "end" => LastIsEnd(Append(s, note), i)
<1> DEFINE t == Append(s, note)
<1>1. /\ t \in Stream /\ Len(s) \in Nat /\ DOMAIN s = 1 .. Len(s)
      /\ DOMAIN t = 1 .. (Len(s) + 1)
      /\ t[Len(s) + 1] = note /\ \A n \in 1 .. Len(s) : t[n] = s[n]
  BY AppendMeans DEF Stream
<1> HIDE DEF t
<1>2. LoweringUnread(s) => LoweringUnread(t)
  BY <1>1 DEF LoweringUnread
<1>3. Lowers(note) => LoweringUnread(t)
  BY <1>1 DEF LoweringUnread, Lowers
<1>4. note.kind # "settings" /\ ToldAll(s, full) => ToldAll(t, full)
  BY <1>1 DEF ToldAll, Raises, Lowers
<1>5. note.kind = "settings" /\ note.value = ~full /\ ToldAll(s, full) => ToldAll(t, ~full)
  <2>1. ASSUME note.kind = "settings", note.value = ~full, full, NEW n \in DOMAIN t, Raises(t[n])
        PROVE  \E m \in DOMAIN t : n < m /\ Lowers(t[m])
    <3>0. note.kind = "settings" /\ ~note.value
      BY <2>1
    <3>1. Lowers(t[Len(s) + 1]) /\ Len(s) + 1 \in DOMAIN t
      BY <1>1, <3>0 DEF Lowers
    <3>2. n # Len(s) + 1
      BY <2>1, <3>1 DEF Raises, Lowers
    <3>3. n < Len(s) + 1
      BY <1>1, <2>1, <3>2
    <3> QED  BY <3>1, <3>3
  <2> QED  BY <2>1 DEF ToldAll
<1>6. ASSUME NEW i \in Items
      PROVE  /\ ~About(note, i) /\ Silent(s, i) => Silent(t, i)
             /\ ~About(note, i) /\ LastIsEnd(s, i) => LastIsEnd(t, i)
             /\ About(note, i) /\ note.kind = "end" => LastIsEnd(t, i)
  <2>1. ~About(note, i) /\ Silent(s, i) => Silent(t, i)
    BY <1>1 DEF Silent
  <2>2. ~About(note, i) /\ LastIsEnd(s, i) => LastIsEnd(t, i)
    BY <1>1 DEF LastIsEnd
  <2>3. About(note, i) /\ note.kind = "end" => LastIsEnd(t, i)
    BY <1>1 DEF LastIsEnd
  <2> QED  BY <2>1, <2>2, <2>3
<1> QED  BY <1>1, <1>2, <1>3, <1>4, <1>5, <1>6 DEF t

LEMMA StreamShrinks ==
  ASSUME NEW s \in Stream, s # <<>>, NEW full \in BOOLEAN
  PROVE  /\ Head(s) \in Notes /\ Tail(s) \in Stream
         /\ LoweringUnread(s) /\ ~Lowers(Head(s)) => LoweringUnread(Tail(s))
         /\ ToldAll(s, full) => ToldAll(Tail(s), full)
         /\ ToldAll(s, full) /\ Raises(Head(s)) => full \/ LoweringUnread(Tail(s))
         /\ \A i \in Items : /\ Silent(s, i) => Silent(Tail(s), i) /\ ~About(Head(s), i)
                             /\ LastIsEnd(s, i) => \/ LastIsEnd(Tail(s), i)
                                                   \/ About(Head(s), i) /\ Head(s).kind = "end" /\ Silent(Tail(s), i)
<1> DEFINE t == Tail(s)
           h == Head(s)
<1>1. /\ h \in Notes /\ h = s[1] /\ t \in Stream
      /\ Len(s) \in Nat \ {0} /\ DOMAIN s = 1 .. Len(s) /\ DOMAIN t = 1 .. (Len(s) - 1)
      /\ \A n \in 1 .. (Len(s) - 1) : t[n] = s[n + 1]
  BY TailMeans DEF Stream
<1> HIDE DEF t, h
<1>0. ASSUME NEW n \in DOMAIN s, n # 1 PROVE n - 1 \in DOMAIN t /\ t[n - 1] = s[n]
  <2>1. n - 1 \in 1 .. (Len(s) - 1) /\ (n - 1) + 1 = n
    BY <1>0, <1>1
  <2> QED  BY <1>1, <2>1
<1>9. \A n \in DOMAIN t : n + 1 \in DOMAIN s /\ t[n] = s[n + 1]
  BY <1>1
<1>2. LoweringUnread(s) /\ ~Lowers(h) => LoweringUnread(t)
  BY <1>0, <1>1 DEF LoweringUnread, Lowers
<1>3. ToldAll(s, full) => ToldAll(t, full)
  <2> SUFFICES ASSUME ToldAll(s, full), NEW n \in DOMAIN t, Raises(t[n]), ~full
               PROVE  \E m \in DOMAIN t : n < m /\ Lowers(t[m])
    BY DEF ToldAll
  <2>1. PICK m \in DOMAIN s : n + 1 < m /\ Lowers(s[m])
    BY <1>9 DEF ToldAll
  <2>2. n \in Nat /\ m \in Nat /\ m # 1
    BY <1>1, <2>1
  <2>3. m - 1 \in DOMAIN t /\ t[m - 1] = s[m] /\ n < m - 1
    BY <1>0, <2>1, <2>2
  <2> QED  BY <2>1, <2>3
<1>4. ToldAll(s, full) /\ Raises(h) => full \/ LoweringUnread(t)
  <2> SUFFICES ASSUME ToldAll(s, full), Raises(h), ~full PROVE LoweringUnread(t)
    OBVIOUS
  <2>1. 1 \in DOMAIN s
    BY <1>1
  <2>2. PICK m \in DOMAIN s : 1 < m /\ Lowers(s[m])
    BY <1>1, <2>1 DEF ToldAll
  <2>3. m - 1 \in DOMAIN t /\ t[m - 1] = s[m]
    BY <1>0, <1>1, <2>2
  <2> QED  BY <2>2, <2>3 DEF LoweringUnread, Lowers
<1>5. ASSUME NEW i \in Items
      PROVE  /\ Silent(s, i) => Silent(t, i) /\ ~About(h, i)
             /\ LastIsEnd(s, i) => LastIsEnd(t, i) \/ (About(h, i) /\ h.kind = "end" /\ Silent(t, i))
  <2>1. Silent(s, i) => Silent(t, i) /\ ~About(h, i)
    BY <1>1, <1>9 DEF Silent
  <2>2. ASSUME LastIsEnd(s, i) PROVE LastIsEnd(t, i) \/ (About(h, i) /\ h.kind = "end" /\ Silent(t, i))
    <3>1. PICK n \in DOMAIN s : /\ About(s[n], i) /\ s[n].kind = "end"
                                /\ \A m \in DOMAIN s : n < m => ~About(s[m], i)
      BY <2>2 DEF LastIsEnd
    <3>2. CASE n = 1
      BY <1>1, <1>9, <3>1, <3>2 DEF Silent
    <3>3. CASE n # 1
      <4>1. n - 1 \in DOMAIN t /\ t[n - 1] = s[n]
        BY <1>0, <3>3
      <4>2. ASSUME NEW m \in DOMAIN t, n - 1 < m PROVE ~About(t[m], i)
        <5>1. n < m + 1
          BY <1>1, <4>2
        <5> QED  BY <1>9, <3>1, <5>1
      <4> QED  BY <3>1, <4>1, <4>2 DEF LastIsEnd
    <3> QED  BY <3>2, <3>3
  <2> QED  BY <2>1, <2>2
<1> QED  BY <1>1, <1>2, <1>3, <1>4, <1>5 DEF t, h

-----------------------------------------------------------------------------
(* The calls and the queues of the engine. *)

Steps == {"ready", "sent", "accepted", "lost", "confirming", "over"}

LEMMA CallListMeans ==
  ASSUME NEW s \in CallList
  PROVE  Len(s) \in Nat /\ DOMAIN s = 1 .. Len(s) /\ \A d \in 1 .. Len(s) : s[d] \in CallRecord
BY LenProperties, ElementOfSeq DEF CallList

LEMMA CallMoves ==
  ASSUME NEW s \in CallList, NEW c \in 1 .. Len(s), NEW at \in Steps, NEW t, t = [s EXCEPT ![c].at = at]
  PROVE  /\ t \in CallList /\ Len(t) = Len(s) /\ t[c].at = at
         /\ \A d \in 1 .. Len(s) : t[d].full = s[d].full /\ (d # c => t[d] = s[d])
<1> DEFINE r == [s[c] EXCEPT !.at = at]
<1>1. r \in CallRecord /\ r.at = at /\ r.full = s[c].full
  BY CallListMeans DEF CallRecord, Steps
<1>2. t = [s EXCEPT ![c] = r]
  OBVIOUS
<1> HIDE DEF r
<1>3. t \in CallList /\ Len(t) = Len(s) /\ \A d \in 1 .. Len(s) : t[d] = IF d = c THEN r ELSE s[d]
  BY <1>1, <1>2, CallListMeans, ExceptSeq DEF CallList
<1> QED  BY <1>1, <1>3

LEMMA NewCallMeans ==
  ASSUME NEW s \in CallList, NEW kind \in {"settings", "turn"}, NEW full \in BOOLEAN
  PROVE  LET t == Append(s, [kind |-> kind, full |-> full, at |-> "ready"])
         IN  /\ t \in CallList /\ Len(t) = Len(s) + 1 /\ Len(s) \in Nat
             /\ t[Len(s) + 1].full = full /\ t[Len(s) + 1].at = "ready"
             /\ \A d \in 1 .. Len(s) : t[d] = s[d]
<1>1. [kind |-> kind, full |-> full, at |-> "ready"] \in CallRecord
  BY DEF CallRecord
<1> QED  BY <1>1, AppendProperties, LenProperties DEF CallList

LEMMA QueueMeans ==
  ASSUME NEW q \in Queue
  PROVE  /\ \A c \in Nat : /\ Append(q, c) \in Queue
                           /\ \A s \in CallList : c \in 1 .. Len(s) /\ InRange(q, s) => InRange(Append(q, c), s)
                           /\ \E n \in DOMAIN Append(q, c) : Append(q, c)[n] = c
                           /\ \A n \in DOMAIN q : n \in DOMAIN Append(q, c) /\ Append(q, c)[n] = q[n]
         /\ q # <<>> => /\ Head(q) \in Nat /\ Tail(q) \in Queue
                        /\ \A s \in CallList : InRange(q, s) => InRange(Tail(q), s) /\ Head(q) \in 1 .. Len(s)
                        /\ \A n \in DOMAIN q : q[n] = Head(q) \/ \E m \in DOMAIN Tail(q) : Tail(q)[m] = q[n]
         /\ <<>> \in Queue /\ \A s \in CallList : InRange(<<>>, s)
<1>1. ASSUME NEW c \in Nat
      PROVE  /\ Append(q, c) \in Queue
             /\ \A s \in CallList : c \in 1 .. Len(s) /\ InRange(q, s) => InRange(Append(q, c), s)
             /\ \E n \in DOMAIN Append(q, c) : Append(q, c)[n] = c
             /\ \A n \in DOMAIN q : n \in DOMAIN Append(q, c) /\ Append(q, c)[n] = q[n]
  <2> DEFINE t == Append(q, c)
  <2>1. /\ t \in Queue /\ Len(q) \in Nat /\ DOMAIN q = 1 .. Len(q) /\ DOMAIN t = 1 .. (Len(q) + 1)
        /\ t[Len(q) + 1] = c /\ \A n \in 1 .. Len(q) : t[n] = q[n]
    BY AppendMeans DEF Queue
  <2> HIDE DEF t
  <2>2. Len(q) + 1 \in DOMAIN t /\ \A n \in DOMAIN q : n \in DOMAIN t
    BY <2>1
  <2>3. \A s \in CallList : c \in 1 .. Len(s) /\ InRange(q, s) => InRange(t, s)
    BY <2>1 DEF InRange
  <2> QED  BY <2>1, <2>2, <2>3 DEF t
<1>2. ASSUME q # <<>>
      PROVE  /\ Head(q) \in Nat /\ Tail(q) \in Queue
             /\ \A s \in CallList : InRange(q, s) => InRange(Tail(q), s) /\ Head(q) \in 1 .. Len(s)
             /\ \A n \in DOMAIN q : q[n] = Head(q) \/ \E m \in DOMAIN Tail(q) : Tail(q)[m] = q[n]
  <2> DEFINE t == Tail(q)
             h == Head(q)
  <2>1. /\ h \in Nat /\ h = q[1] /\ t \in Queue /\ Len(q) \in Nat \ {0} /\ DOMAIN q = 1 .. Len(q)
        /\ DOMAIN t = 1 .. (Len(q) - 1) /\ \A n \in 1 .. (Len(q) - 1) : t[n] = q[n + 1]
    BY <1>2, TailMeans DEF Queue
  <2> HIDE DEF t, h
  <2>2. \A n \in DOMAIN t : n + 1 \in DOMAIN q /\ t[n] = q[n + 1]
    BY <2>1
  <2>3. 1 \in DOMAIN q
    BY <2>1
  <2>4. ASSUME NEW n \in DOMAIN q, n # 1 PROVE n - 1 \in DOMAIN t /\ t[n - 1] = q[n]
    <3>1. n - 1 \in 1 .. (Len(q) - 1) /\ (n - 1) + 1 = n
      BY <2>1, <2>4
    <3> QED  BY <2>1, <3>1
  <2>5. \A n \in DOMAIN q : q[n] = h \/ \E m \in DOMAIN t : t[m] = q[n]
    BY <2>1, <2>4
  <2>6. \A s \in CallList : InRange(q, s) => InRange(t, s) /\ h \in 1 .. Len(s)
    BY <2>1, <2>2, <2>3 DEF InRange
  <2> QED  BY <2>1, <2>5, <2>6 DEF t, h
<1>3. <<>> \in Queue /\ \A s \in CallList : InRange(<<>>, s)
  BY DEF Queue, InRange
<1> QED  BY <1>1, <1>2, <1>3

LEMMA RangeGrows ==
  ASSUME NEW q \in Queue, NEW s \in CallList, NEW t \in CallList, Len(s) <= Len(t), InRange(q, s)
  PROVE  InRange(q, t)
BY CallListMeans DEF InRange

-----------------------------------------------------------------------------
(* permissions.rs *)

LEMMA ChangeMeans ==
  /\ \A ch \in Change : ch # NoChange /\ ch.call \in Nat \ {0} /\ ch.full \in BOOLEAN
                        /\ ch.observed \in BOOLEAN /\ ch.acknowledged \in BOOLEAN
  /\ NoChange.call = 0
  /\ \A p \in PermissionsType : p.grant \in BOOLEAN /\ (p.change # NoChange => p.change \in Change)
<1>1. ASSUME NEW ch \in Change PROVE ch # NoChange
  <2>1. ch.call # 0 /\ NoChange.call = 0
    BY DEF Change, NoChange
  <2> QED  BY <2>1
<1> QED  BY <1>1 DEF Change, NoChange, PermissionsType

Both(p) == p.change # NoChange /\ p.change.observed /\ p.change.acknowledged

LEMMA CommittedMeans ==
  ASSUME NEW p \in PermissionsType, NEW q, q = Committed(p)
  PROVE  /\ q \in PermissionsType /\ ~Both(q)
         /\ q.change # NoChange => q = p
         /\ q.grant => p.grant \/ (Both(p) /\ p.change.full)
         /\ ~Both(p) => q = p
<1>1. CASE Both(p)
  <2>1. q = [grant |-> p.change.full, change |-> NoChange]
    BY <1>1 DEF Committed, Both
  <2> QED  BY <1>1, <2>1, ChangeMeans DEF Both, PermissionsType
<1>2. CASE ~Both(p)
  BY <1>2 DEF Committed, Both
<1> QED  BY <1>1, <1>2

LEMMA ObservedMeans ==
  ASSUME NEW p \in PermissionsType, NEW full \in BOOLEAN, NEW q, q = Observed(p, full)
  PROVE  /\ q \in PermissionsType /\ ~Both(q)
         /\ q.change # NoChange => /\ p.change # NoChange /\ q.change.call = p.change.call
                                   /\ q.change.full = p.change.full
         /\ q.grant /\ ~Both(p) => full /\ (p.grant \/ (p.change # NoChange /\ p.change.full))
<1> DEFINE agrees == p.change # NoChange /\ p.change.full = full
           ch == IF agrees THEN [p.change EXCEPT !.observed = TRUE] ELSE p.change
           r == [grant |-> p.grant /\ full, change |-> ch]
<1>1. q = Committed(r)
  BY DEF Observed
<1>2. agrees => /\ ch \in Change /\ ch # NoChange /\ ch.call = p.change.call /\ ch.full = p.change.full /\ p.change.full = full
              /\ p.change # NoChange
  BY ChangeMeans DEF Change
<1>3. ~agrees => ch = p.change
  OBVIOUS
<1>4. p.grant \in BOOLEAN /\ (p.change = NoChange \/ p.change \in Change)
  BY ChangeMeans
<1>5. ch \in {NoChange} \cup Change
  BY <1>2, <1>3, <1>4
<1> HIDE DEF agrees, ch
<1>6. r \in PermissionsType /\ r.grant = (p.grant /\ full) /\ r.change = ch
  BY <1>4, <1>5 DEF PermissionsType
<1> HIDE DEF r
<1>7. Both(r) /\ ~Both(p) => agrees
  BY <1>3, <1>6 DEF Both
<1>8. /\ q \in PermissionsType /\ ~Both(q) /\ (q.change # NoChange => q = r)
      /\ q.grant => r.grant \/ (Both(r) /\ r.change.full)
  BY <1>1, <1>6, CommittedMeans
<1> QED  BY <1>2, <1>3, <1>4, <1>6, <1>7, <1>8

LEMMA AcknowledgedMeans ==
  ASSUME NEW p \in PermissionsType, NEW caller \in Nat \ {0}, NEW success \in BOOLEAN,
         NEW q, q = Acknowledged(p, caller, success)
  PROVE  /\ q \in PermissionsType /\ ~Both(q)
         /\ q.change # NoChange => /\ p.change # NoChange /\ q.change.call = p.change.call
                                   /\ q.change.full = p.change.full
         /\ q.grant /\ ~Both(p) => p.grant \/ (success /\ p.change # NoChange /\ p.change.call = caller /\ p.change.full)
<1>1. CASE p.change.call # caller
  BY <1>1, CommittedMeans DEF Acknowledged
<1>2. CASE p.change.call = caller /\ ~success
  <2>1. q = [p EXCEPT !.change = NoChange]
    BY <1>2 DEF Acknowledged
  <2>2. q \in PermissionsType /\ q.change = NoChange /\ q.grant = p.grant
    BY <2>1 DEF PermissionsType
  <2> QED  BY <2>2 DEF Both
<1>3. CASE p.change.call = caller /\ success
  <2> DEFINE ch == [p.change EXCEPT !.acknowledged = TRUE]
             r == [p EXCEPT !.change = ch]
  <2>1. q = Committed(r)
    BY <1>3 DEF Acknowledged
  <2>2. p.change # NoChange /\ p.change \in Change
    BY <1>3, ChangeMeans
  <2>3. ch \in Change /\ ch # NoChange /\ ch.call = p.change.call /\ ch.full = p.change.full
    BY <2>2, ChangeMeans DEF Change
  <2> HIDE DEF ch
  <2>4. r \in PermissionsType /\ r.change = ch /\ r.grant = p.grant
    BY <2>3 DEF PermissionsType
  <2> HIDE DEF r
  <2>5. /\ q \in PermissionsType /\ ~Both(q) /\ (q.change # NoChange => q = r)
        /\ q.grant => r.grant \/ (Both(r) /\ r.change.full)
    BY <2>1, <2>4, CommittedMeans
  <2> QED  BY <1>3, <2>2, <2>3, <2>4, <2>5
<1> QED  BY <1>1, <1>2, <1>3

-----------------------------------------------------------------------------
(* What a step does: the calls stay what they were asked for. *)

LEMMA AuthorityTypeMeans ==
  ASSUME AuthorityTypeOK
  PROVE  /\ engine.up \in BOOLEAN /\ engine.full \in BOOLEAN
         /\ engine.requests \in Queue /\ engine.accepted \in Queue
         /\ InRange(engine.requests, calls) /\ InRange(engine.accepted, calls)
         /\ stream \in Stream /\ permissions \in PermissionsType /\ snapshot \in BOOLEAN
         /\ calls \in CallList /\ items \in ItemsType /\ wish \in BOOLEAN
         /\ Len(calls) \in Nat /\ DOMAIN calls = CallIds /\ \A c \in CallIds : calls[c] \in CallRecord
         /\ \A i \in Items : items[i] \in ItemRecord
BY CallListMeans DEF AuthorityTypeOK, EngineType, ItemsType, CallIds

\* A call that the engine has accepted is among those it is to apply.
CallsKept ==
  /\ calls' \in CallList /\ Len(calls) <= Len(calls')
  /\ \A c \in CallIds : /\ calls'[c].full = calls[c].full
                        /\ calls'[c].at = "accepted" =>
                             calls[c].at = "accepted" \/ \E n \in DOMAIN engine'.accepted : engine'.accepted[n] = c

LEMMA OneCallMoves ==
  ASSUME AuthorityTypeOK, NEW c \in CallIds, NEW at \in Steps, calls' = [calls EXCEPT ![c].at = at],
         at # "accepted" \/ \E n \in DOMAIN engine'.accepted : engine'.accepted[n] = c
  PROVE  CallsKept
<1>1. calls \in CallList /\ Len(calls) \in Nat /\ c \in 1 .. Len(calls)
  BY AuthorityTypeMeans DEF CallIds
<1>2. /\ calls' \in CallList /\ Len(calls') = Len(calls) /\ calls'[c].at = at
      /\ \A d \in 1 .. Len(calls) : calls'[d].full = calls[d].full /\ (d # c => calls'[d] = calls[d])
  <2> DEFINE t == [calls EXCEPT ![c].at = at]
  <2>1. t = calls'
    OBVIOUS
  <2>2. \A u : u = t => /\ u \in CallList /\ Len(u) = Len(calls) /\ u[c].at = at
                        /\ \A d \in 1 .. Len(calls) : u[d].full = calls[d].full /\ (d # c => u[d] = calls[d])
    BY <1>1, CallMoves
  <2> HIDE DEF t
  <2> QED  BY <2>1, <2>2
<1>3. \A d \in CallIds : calls'[d].at = "accepted" =>
        calls[d].at = "accepted" \/ \E n \in DOMAIN engine'.accepted : engine'.accepted[n] = d
  BY <1>2 DEF CallIds
<1> QED  BY <1>1, <1>2, <1>3 DEF CallsKept, CallIds

LEMMA CallsStay ==
  ASSUME AuthorityTypeOK, calls' = calls
  PROVE  CallsKept
BY AuthorityTypeMeans DEF CallsKept

LEMMA CallsAreKept ==
  ASSUME AuthorityTypeOK, AuthorityNext
  PROVE  CallsKept
<1>0. /\ calls \in CallList /\ Len(calls) \in Nat /\ CallIds = 1 .. Len(calls)
      /\ engine.requests \in Queue /\ engine.accepted \in Queue /\ InRange(engine.requests, calls)
  BY AuthorityTypeMeans DEF CallIds
<1>1. ASSUME NEW full \in BOOLEAN, BeginChange(full) \/ BeginTurn(full) PROVE CallsKept
  <2>1. PICK kind \in {"settings", "turn"} : calls' = Append(calls, [kind |-> kind, full |-> full, at |-> "ready"])
    BY <1>1 DEF BeginChange, BeginTurn, NewCall
  <2>2. /\ calls' \in CallList /\ Len(calls') = Len(calls) + 1
        /\ \A d \in 1 .. Len(calls) : calls'[d] = calls[d]
    BY <1>0, <2>1, NewCallMeans
  <2> QED  BY <1>0, <2>2 DEF CallsKept
<1>2. ASSUME NEW c \in CallIds, CallStep(c) \/ CallTimesOut(c) PROVE CallsKept
  <2>1. \E at \in Steps \ {"accepted"} : calls' = [calls EXCEPT ![c].at = at]
    BY <1>2 DEF CallStep, SendCall, CallReturns, CallConfirmed, ConfirmTimesOut, CallTimesOut, Steps
  <2> QED  BY <2>1, OneCallMoves
<1>3. ASSUME NEW accepts \in BOOLEAN, EngineAnswers(accepts) PROVE CallsKept
  <2> DEFINE c == Head(engine.requests)
  <2>1. c \in CallIds /\ c \in Nat
    BY <1>0, <1>3, QueueMeans DEF EngineAnswers
  <2>2. CASE calls[c].at # "sent"
    BY <1>3, <2>2, CallsStay DEF EngineAnswers
  <2>3. CASE calls[c].at = "sent" /\ ~accepts
    <3>1. calls' = [calls EXCEPT ![c].at = "lost"]
      BY <1>3, <2>3 DEF EngineAnswers
    <3> HIDE DEF c
    <3> QED  BY <2>1, <3>1, OneCallMoves DEF Steps
  <2>4. CASE calls[c].at = "sent" /\ accepts
    <3>1. calls' = [calls EXCEPT ![c].at = "accepted"]
      BY <1>3, <2>4 DEF EngineAnswers
    <3>2. engine'.accepted = Append(engine.accepted, c)
      BY <1>3, <2>4, AuthorityTypeMeans DEF EngineAnswers, AuthorityTypeOK, EngineType
    <3> HIDE DEF c
    <3>4. \E n \in DOMAIN Append(engine.accepted, c) : Append(engine.accepted, c)[n] = c
      BY <1>0, <2>1, QueueMeans
    <3>3. \E n \in DOMAIN engine'.accepted : engine'.accepted[n] = c
      BY <3>2, <3>4
    <3> QED  BY <2>1, <3>1, <3>3, OneCallMoves DEF Steps
  <2> QED  BY <2>2, <2>3, <2>4
<1>4. ASSUME CloseGeneration PROVE CallsKept
  <2> DEFINE new(c) == IF calls[c].at = "sent" THEN [calls[c] EXCEPT !.at = "lost"] ELSE calls[c]
  <2>1. calls' = [c \in 1 .. Len(calls) |-> new(c)]
    BY <1>0, <1>4 DEF CloseGeneration
  <2>2. \A c \in CallIds : /\ new(c) \in CallRecord /\ new(c).full = calls[c].full
                           /\ new(c).at = "accepted" => calls[c].at = "accepted"
    BY AuthorityTypeMeans DEF CallRecord
  <2> HIDE DEF new
  <2>3. calls' \in CallList /\ Len(calls') = Len(calls)
    BY <1>0, <2>1, <2>2, IsASeq, LenProperties DEF CallList
  <2> QED  BY <1>0, <2>1, <2>2, <2>3 DEF CallsKept
<1>5. (EngineApplies \/ PumpStep \/ OpenGeneration
        \/ \E i \in Items : \/ EngineAsks(i) \/ EngineEnds(i) \/ Respond(i) \/ RelayTakes(i)
                            \/ UserAnswers(i, "accept") \/ UserAnswers(i, "decline")) => calls' = calls
  BY DEF EngineApplies, PumpStep, PumpReadsSettings, PumpReadsItem, OpenGeneration, EngineAsks, EngineEnds,
         Respond, RelayTakes, UserAnswers
<1> QED  BY <1>1, <1>2, <1>3, <1>4, <1>5, CallsStay DEF AuthorityNext, EngineStep

-----------------------------------------------------------------------------
(* The types of SessionAuthority, step by step. *)

LEMMA AuthorityTypeFollows ==
  ASSUME AuthorityTypeOK, CallsKept,
         engine' \in EngineType,
         InRange(engine'.requests, calls), InRange(engine'.accepted, calls),
         stream' \in Stream, permissions' \in PermissionsType, snapshot' \in BOOLEAN, items' \in ItemsType,
         wish' \in BOOLEAN
  PROVE  AuthorityTypeOK'
<1>1. engine'.requests \in Queue /\ engine'.accepted \in Queue
  BY DEF EngineType
<1>2. calls \in CallList /\ calls' \in CallList /\ Len(calls) <= Len(calls')
  BY AuthorityTypeMeans DEF CallsKept
<1>3. InRange(engine'.requests, calls') /\ InRange(engine'.accepted, calls')
  BY <1>1, <1>2, RangeGrows
<1> QED  BY <1>1, <1>2, <1>3 DEF AuthorityTypeOK

LEMMA EngineStays ==
  ASSUME AuthorityTypeOK, CallsKept, UNCHANGED engine,
         stream' \in Stream, permissions' \in PermissionsType, snapshot' \in BOOLEAN, items' \in ItemsType,
         wish' \in BOOLEAN
  PROVE  AuthorityTypeOK'
<1>1. /\ engine' \in EngineType
      /\ InRange(engine'.requests, calls) /\ InRange(engine'.accepted, calls)
  BY AuthorityTypeMeans DEF AuthorityTypeOK, EngineType
<1> QED  BY <1>1, AuthorityTypeFollows

LEMMA StreamEnds ==
  ASSUME NEW s \in Stream
  PROVE  /\ s \o <<>> = s /\ <<>> \in Stream
         /\ \A note \in Notes : s \o <<note>> = Append(s, note)
BY ConcatEmptySeq, AppendIsConcat, EmptySeq DEF Stream

LEMMA ItemMeans ==
  ASSUME AuthorityTypeOK, NEW i \in Items
  PROVE  /\ items[i] \in ItemRecord
         /\ items[i].at \in {"idle", "asked", "accepted", "started", "over"} /\ items[i].prompt \in BOOLEAN
         /\ items[i].held \in {"none", "pending", "accepted"} /\ items[i].answer \in {"none", "accept", "decline"}
BY AuthorityTypeMeans DEF ItemRecord

-----------------------------------------------------------------------------
(* Each step on a command: what it becomes, and what is told of it. *)

\* One item moves and the stream is extended, read at its head or left alone.
ItemGoes(i, r, s) ==
  /\ r \in ItemRecord /\ s \in Stream
  /\ items' = [items EXCEPT ![i] = r] /\ stream' = s
  /\ UNCHANGED <<engine, permissions, snapshot, calls, replaced, wish>>

LEMMA AskGoes ==
  ASSUME AuthorityTypeOK, NEW i \in Items, EngineAsks(i)
  PROVE  ItemGoes(i, [items[i] EXCEPT !.at = "asked"], Append(stream, Note("ask", i)))
<1>1. [items[i] EXCEPT !.at = "asked"] \in ItemRecord
  BY AuthorityTypeMeans DEF ItemRecord
<1>2. Append(stream, Note("ask", i)) \in Stream
  BY AuthorityTypeMeans, NoteMeans, StreamGrows DEF Kinds
<1> QED  BY <1>1, <1>2 DEF ItemGoes, EngineAsks

LEMMA EndGoes ==
  ASSUME AuthorityTypeOK, NEW i \in Items, EngineEnds(i)
  PROVE  \E s \in Stream : /\ s = stream \/ s = Append(stream, Note("resolved", i))
                           /\ ItemGoes(i, [items[i] EXCEPT !.at = "over"], Append(s, Note("end", i)))
<1> DEFINE s == IF items[i].at = "asked" THEN Append(stream, Note("resolved", i)) ELSE stream
<1>1. [items[i] EXCEPT !.at = "over"] \in ItemRecord
  BY AuthorityTypeMeans DEF ItemRecord
<1>2. stream \in Stream /\ Note("resolved", i) \in Notes /\ Note("end", i) \in Notes
  BY AuthorityTypeMeans, NoteMeans DEF Kinds
<1>3. s \in Stream
  BY <1>2, StreamGrows
<1>4. Append(s, Note("end", i)) \in Stream
  BY <1>2, <1>3, StreamGrows
<1>5. stream \o (IF items[i].at = "asked" THEN <<Note("resolved", i)>> ELSE <<>>) = s
  BY <1>2, StreamEnds
<1>6. s \o <<Note("end", i)>> = Append(s, Note("end", i))
  BY <1>2, <1>3, StreamEnds
<1>7. stream' = Append(s, Note("end", i))
  BY <1>5, <1>6 DEF EngineEnds
<1>8. items' = [items EXCEPT ![i] = [items[i] EXCEPT !.at = "over"]]
      /\ UNCHANGED <<engine, permissions, snapshot, calls, replaced, wish>>
  BY DEF EngineEnds
<1>9. s = stream \/ s = Append(stream, Note("resolved", i))
  OBVIOUS
<1> HIDE DEF s
<1> QED  BY <1>1, <1>3, <1>4, <1>7, <1>8, <1>9 DEF ItemGoes

LEMMA AnswerGoes ==
  ASSUME AuthorityTypeOK, NEW i \in Items, NEW answer \in {"accept", "decline"}, UserAnswers(i, answer)
  PROVE  ItemGoes(i, [items[i] EXCEPT !.prompt = FALSE, !.answer = answer], stream)
<1>1. [items[i] EXCEPT !.prompt = FALSE, !.answer = answer] \in ItemRecord
  BY AuthorityTypeMeans DEF ItemRecord
<1> QED  BY <1>1, AuthorityTypeMeans DEF ItemGoes, UserAnswers

LEMMA RelayGoes ==
  ASSUME AuthorityTypeOK, NEW i \in Items, RelayTakes(i)
  PROVE  ItemGoes(i, [items[i] EXCEPT !.at = "started", !.held = IF @ = "accepted" THEN "none" ELSE @], stream)
<1>1. [items[i] EXCEPT !.at = "started", !.held = IF @ = "accepted" THEN "none" ELSE @] \in ItemRecord
  BY AuthorityTypeMeans DEF ItemRecord
<1>2. items' = [items EXCEPT ![i] = [items[i] EXCEPT !.at = "started", !.held = IF @ = "accepted" THEN "none" ELSE @]]
  BY DEF RelayTakes
<1> QED  BY <1>1, <1>2, AuthorityTypeMeans DEF ItemGoes, RelayTakes

\* respond: what was asked is answered once; the approval is kept only if it is still pending.
LEMMA RespondGoes ==
  ASSUME AuthorityTypeOK, NEW i \in Items, Respond(i)
  PROVE  \E r \in ItemRecord, s \in Stream :
           /\ ItemGoes(i, r, s)
           /\ items[i].held = "none" => r.held = "none"
           /\ \/ r.at = items[i].at /\ s = stream /\ (r.at # "asked" \/ ~engine.up)
              \/ r.at = "accepted" /\ s = Append(stream, Note("resolved", i))
              \/ r.at = "over" /\ s = Append(Append(stream, Note("resolved", i)), Note("end", i))
<1> DEFINE kept == items[i].held = "pending" /\ items[i].answer = "accept"
           told == items[i].at = "asked" /\ engine.up
           heldNow == IF kept THEN "accepted" ELSE IF items[i].held = "pending" THEN "none" ELSE items[i].held
           atNow == IF ~told THEN items[i].at ELSE IF items[i].answer = "accept" THEN "accepted" ELSE "over"
           r == [items[i] EXCEPT !.answer = "none", !.held = heldNow, !.at = atNow]
           m == Append(stream, Note("resolved", i))
           s == IF ~told THEN stream ELSE IF items[i].answer = "accept" THEN m ELSE Append(m, Note("end", i))
<1>1. heldNow \in {"none", "pending", "accepted"} /\ (items[i].held = "none" => heldNow = "none")
  BY ItemMeans
<1>2. atNow \in {"idle", "asked", "accepted", "started", "over"}
  BY ItemMeans
<1>3. r \in ItemRecord /\ r.at = atNow /\ r.held = heldNow
  <2> HIDE DEF heldNow, atNow
  <2> QED  BY <1>1, <1>2, ItemMeans DEF ItemRecord
<1>4. items' = [items EXCEPT ![i] = r]
  <2>1. items' = [items EXCEPT ![i].answer = "none", ![i].held = heldNow,
                               ![i].at = IF @ # "asked" \/ ~engine.up THEN @
                                         ELSE IF items[i].answer = "accept" THEN "accepted" ELSE "over"]
    BY DEF Respond
  <2>2. (IF items[i].at # "asked" \/ ~engine.up THEN items[i].at
         ELSE IF items[i].answer = "accept" THEN "accepted" ELSE "over") = atNow
    OBVIOUS
  <2> HIDE DEF heldNow, atNow
  <2> QED  BY <2>1, <2>2
<1>6. stream \in Stream /\ Note("resolved", i) \in Notes /\ Note("end", i) \in Notes
  BY AuthorityTypeMeans, NoteMeans DEF Kinds
<1>7. m \in Stream /\ stream \o <<Note("resolved", i)>> = m
  BY <1>6, StreamGrows, StreamEnds
<1> HIDE DEF m
<1>8. m \o <<>> = m /\ m \o <<Note("end", i)>> = Append(m, Note("end", i)) /\ Append(m, Note("end", i)) \in Stream
  BY <1>6, <1>7, StreamGrows, StreamEnds
<1>9. stream' = s
  BY <1>7, <1>8 DEF Respond
<1>10. s \in Stream
  BY <1>6, <1>7, <1>8
<1>11. ItemGoes(i, r, s)
  BY <1>3, <1>4, <1>9, <1>10 DEF ItemGoes, Respond
<1>12. \/ r.at = items[i].at /\ s = stream /\ (r.at # "asked" \/ ~engine.up)
       \/ r.at = "accepted" /\ s = m
       \/ r.at = "over" /\ s = Append(m, Note("end", i))
  BY <1>3
<1> HIDE DEF r, s, heldNow
<1> QED  BY <1>1, <1>3, <1>7, <1>10, <1>11, <1>12 DEF m

LEMMA ReadGoes ==
  ASSUME AuthorityTypeOK, PumpReadsItem
  PROVE  LET note == Head(stream)
         IN  /\ note \in Notes /\ note.kind # "settings" /\ note.kind \in Kinds /\ note.value \in Items
             /\ AfterNote(items[note.value], note.kind).at = items[note.value].at
             /\ note.kind = "end" => AfterNote(items[note.value], note.kind).held = "none"
             /\ ItemGoes(note.value, AfterNote(items[note.value], note.kind), Tail(stream))
<1> DEFINE note == Head(stream)
           i == note.value
<1>1. stream # <<>> /\ note \in Notes /\ note.kind # "settings" /\ Tail(stream) \in Stream
  BY AuthorityTypeMeans, StreamShrinks DEF PumpReadsItem
<1>2. items' = [items EXCEPT ![i] = AfterNote(items[i], note.kind)] /\ stream' = Tail(stream)
      /\ UNCHANGED <<engine, permissions, snapshot, calls, replaced, wish>>
  BY DEF PumpReadsItem
<1> HIDE DEF note
<1>3. i \in Items /\ note.kind \in Kinds
  BY <1>1, NoteMeans
<1>4. /\ AfterNote(items[i], note.kind) \in ItemRecord
      /\ AfterNote(items[i], note.kind).at = items[i].at
      /\ note.kind = "end" => AfterNote(items[i], note.kind).held = "none"
  BY <1>3, AuthorityTypeMeans DEF AfterNote, ItemRecord, Kinds
<1> QED  BY <1>1, <1>2, <1>3, <1>4 DEF ItemGoes, note

\* The steps on commands are these, and no other step changes a command or tells of one, but the end
\* of a generation.
LEMMA ItemSteps ==
  ASSUME AuthorityTypeOK, NEW i \in Items,
         \/ EngineAsks(i) \/ EngineEnds(i) \/ Respond(i) \/ RelayTakes(i)
         \/ UserAnswers(i, "accept") \/ UserAnswers(i, "decline")
  PROVE  \E r \in ItemRecord, s \in Stream : ItemGoes(i, r, s)
<1>1. CASE EngineAsks(i)
  BY <1>1, AskGoes DEF ItemGoes
<1>2. CASE EngineEnds(i)
  BY <1>2, EndGoes DEF ItemGoes
<1>3. CASE Respond(i)
  BY <1>3, RespondGoes
<1>4. CASE RelayTakes(i)
  BY <1>4, RelayGoes DEF ItemGoes
<1>5. CASE UserAnswers(i, "accept") \/ UserAnswers(i, "decline")
  BY <1>5, AnswerGoes DEF ItemGoes
<1> QED  BY <1>1, <1>2, <1>3, <1>4, <1>5

LEMMA ItemTypeStep ==
  ASSUME AuthorityTypeOK, NEW i \in Items, NEW r, NEW s, ItemGoes(i, r, s)
  PROVE  /\ AuthorityTypeOK' /\ items'[i] = r /\ \A j \in Items : j # i => items'[j] = items[j]
<1>1. items' \in ItemsType /\ items'[i] = r /\ \A j \in Items : j # i => items'[j] = items[j]
  BY AuthorityTypeMeans DEF ItemGoes, ItemsType
<1>2. CallsKept
  BY CallsStay DEF ItemGoes
<1>3. stream' \in Stream /\ permissions' \in PermissionsType /\ snapshot' \in BOOLEAN /\ wish' \in BOOLEAN
  BY AuthorityTypeMeans DEF ItemGoes
<1>4. AuthorityTypeOK'
  BY <1>1, <1>2, <1>3, EngineStays DEF ItemGoes
<1> QED  BY <1>1, <1>4

\* The end of a generation settles every command.
LEMMA ClosedItems ==
  ASSUME AuthorityTypeOK, CloseGeneration
  PROVE  items' \in ItemsType /\ \A i \in Items : items'[i].held = "none"
<1> DEFINE rest(i) == [items[i] EXCEPT !.prompt = FALSE, !.held = "none", !.at = IF @ = "idle" THEN @ ELSE "over"]
<1>1. \A i \in Items : rest(i) \in ItemRecord /\ rest(i).held = "none"
  BY AuthorityTypeMeans DEF ItemRecord
<1>2. items' = [i \in Items |-> rest(i)]
  BY DEF CloseGeneration
<1> HIDE DEF rest
<1> QED  BY <1>1, <1>2 DEF ItemsType

\* A change of the settings or a turn begins.
LEMMA BegunMeans ==
  ASSUME NEW p \in PermissionsType, NEW c \in Nat \ {0}, NEW full \in BOOLEAN, NEW q, q = Begun(p, c, full)
  PROVE  /\ q \in PermissionsType /\ ~Both(q) /\ q.grant = (p.grant /\ full)
         /\ q.change # NoChange /\ q.change.call = c /\ q.change.full = full
<1> DEFINE ch == [call |-> c, full |-> full, observed |-> p.grant = full, acknowledged |-> FALSE]
<1>1. ch \in Change /\ ~ch.acknowledged /\ ch.call = c /\ ch.full = full
  BY ChangeMeans DEF Change
<1>2. q = [grant |-> p.grant /\ full, change |-> ch]
  BY DEF Begun
<1> HIDE DEF ch
<1>3. (p.grant /\ full) \in BOOLEAN
  BY ChangeMeans
<1> QED  BY <1>1, <1>2, <1>3, ChangeMeans DEF PermissionsType, Both

\* What CallReturns and PumpReadsSettings make of the permissions; the caller is part of the change.
LEMMA ReturnMeans ==
  ASSUME AuthorityTypeOK, NEW c \in CallIds, CallReturns(c)
  PROVE  /\ permissions' \in PermissionsType /\ UNCHANGED <<engine, stream, snapshot, items, replaced, wish>>
         /\ ~Both(permissions) =>
              /\ ~Both(permissions')
              /\ permissions'.change # NoChange =>
                   /\ permissions.change # NoChange /\ permissions'.change.call = permissions.change.call
                   /\ permissions'.change.full = permissions.change.full
              /\ permissions'.grant => \/ permissions.grant
                                       \/ /\ calls[c].at = "accepted" /\ permissions.change # NoChange
                                          /\ permissions.change.call = c /\ permissions.change.full
<1> DEFINE success == calls[c].at = "accepted"
<1>1. permissions \in PermissionsType /\ c \in Nat \ {0}
  BY AuthorityTypeMeans DEF CallIds
<1>2. permissions' = IF calls[c].kind = "settings" THEN Acknowledged(permissions, c, success) ELSE permissions
  BY DEF CallReturns
<1>3. UNCHANGED <<engine, stream, snapshot, items, replaced, wish>>
  BY DEF CallReturns
<1>4. success \in BOOLEAN
  OBVIOUS
<1>5. Acknowledged(permissions, c, success) \in PermissionsType
  BY <1>1, <1>4, AcknowledgedMeans
<1>6. CASE calls[c].kind = "settings"
  <2>1. permissions' = Acknowledged(permissions, c, success)
    BY <1>2, <1>6
  <2> HIDE DEF success
  <2>2. ASSUME ~Both(permissions)
        PROVE  /\ ~Both(permissions')
               /\ permissions'.change # NoChange =>
                   /\ permissions.change # NoChange /\ permissions'.change.call = permissions.change.call
                   /\ permissions'.change.full = permissions.change.full
               /\ permissions'.grant => \/ permissions.grant
                                        \/ /\ success /\ permissions.change # NoChange
                                           /\ permissions.change.call = c /\ permissions.change.full
    BY <1>1, <1>4, <2>1, <2>2, AcknowledgedMeans DEF Both
  <2> QED  BY <1>3, <1>5, <2>1, <2>2 DEF success
<1>7. CASE calls[c].kind # "settings"
  BY <1>1, <1>2, <1>3, <1>7 DEF Both
<1> QED  BY <1>6, <1>7

LEMMA ReadMeans ==
  ASSUME AuthorityTypeOK, PumpReadsSettings
  PROVE  LET full == Head(stream).value
         IN  /\ full \in BOOLEAN /\ stream # <<>> /\ Head(stream).kind = "settings"
             /\ permissions' \in PermissionsType /\ snapshot' \in BOOLEAN /\ stream' \in Stream
             /\ ~Both(permissions) =>
                  /\ ~Both(permissions')
                  /\ permissions'.change # NoChange =>
                       /\ permissions.change # NoChange /\ permissions'.change.call = permissions.change.call
                       /\ permissions'.change.full = permissions.change.full
                  /\ permissions'.grant => full /\ \/ permissions.grant
                                                   \/ permissions.change # NoChange /\ permissions.change.full
<1> DEFINE full == Head(stream).value
<1>1. stream # <<>> /\ Head(stream).kind = "settings" /\ Head(stream) \in Notes /\ Tail(stream) \in Stream
  BY AuthorityTypeMeans, StreamShrinks DEF PumpReadsSettings
<1>2. full \in BOOLEAN
  BY <1>1, NoteMeans
<1>3. permissions' = Observed(permissions, full) /\ snapshot' = full /\ stream' = Tail(stream)
  BY DEF PumpReadsSettings
<1>4. permissions \in PermissionsType
  BY AuthorityTypeMeans
<1> HIDE DEF full
<1>5. Observed(permissions, full) \in PermissionsType
  BY <1>2, <1>4, ObservedMeans
<1>6. ASSUME ~Both(permissions)
      PROVE  /\ ~Both(permissions')
             /\ permissions'.change # NoChange =>
                       /\ permissions.change # NoChange /\ permissions'.change.call = permissions.change.call
                       /\ permissions'.change.full = permissions.change.full
             /\ permissions'.grant => full /\ \/ permissions.grant
                                              \/ permissions.change # NoChange /\ permissions.change.full
  BY <1>2, <1>3, <1>4, <1>6, ObservedMeans DEF Both
<1> QED  BY <1>1, <1>2, <1>3, <1>5, <1>6 DEF full

LEMMA AuthorityTypeInit == AuthorityInit => AuthorityTypeOK
<1> SUFFICES ASSUME AuthorityInit PROVE AuthorityTypeOK
  OBVIOUS
<1>1. engine \in EngineType /\ InRange(engine.requests, calls) /\ InRange(engine.accepted, calls)
  <2>1. <<>> \in Queue
    BY DEF Queue
  <2> QED  BY <2>1 DEF AuthorityInit, EngineType, InRange
<1>2. stream \in Stream /\ calls \in CallList
  BY DEF AuthorityInit, Stream, CallList
<1>3. permissions \in PermissionsType /\ snapshot \in BOOLEAN /\ wish \in BOOLEAN
  BY DEF AuthorityInit, PermissionsType
<1>4. items \in ItemsType
  BY DEF AuthorityInit, ItemsType, ItemRecord
<1> QED  BY <1>1, <1>2, <1>3, <1>4 DEF AuthorityTypeOK

\* What EngineAnswers and EngineApplies do to the queues.
LEMMA AnswersMeans ==
  ASSUME AuthorityTypeOK, NEW accepts \in BOOLEAN, EngineAnswers(accepts)
  PROVE  /\ engine' \in EngineType /\ engine'.up = engine.up /\ engine'.full = engine.full
         /\ InRange(engine'.requests, calls) /\ InRange(engine'.accepted, calls)
         /\ \A n \in DOMAIN engine.accepted : n \in DOMAIN engine'.accepted /\ engine'.accepted[n] = engine.accepted[n]
<1> DEFINE c == Head(engine.requests)
           a == IF accepts THEN Append(engine.accepted, c) ELSE engine.accepted
           q == Tail(engine.requests)
<1>1. /\ engine \in EngineType /\ engine.requests \in Queue /\ engine.accepted \in Queue /\ calls \in CallList
      /\ InRange(engine.requests, calls) /\ InRange(engine.accepted, calls) /\ engine.requests # <<>>
  BY AuthorityTypeMeans DEF EngineAnswers, AuthorityTypeOK
<1>2. engine' = [engine EXCEPT !.requests = q, !.accepted = a]
  BY DEF EngineAnswers
<1>3. c \in Nat /\ c \in 1 .. Len(calls) /\ q \in Queue /\ InRange(q, calls)
  BY <1>1, QueueMeans
<1> HIDE DEF c, q
<1>4. /\ Append(engine.accepted, c) \in Queue
      /\ InRange(Append(engine.accepted, c), calls)
      /\ \A n \in DOMAIN engine.accepted : /\ n \in DOMAIN Append(engine.accepted, c)
                                           /\ Append(engine.accepted, c)[n] = engine.accepted[n]
  BY <1>1, <1>3, QueueMeans
<1>5. /\ a \in Queue /\ InRange(a, calls)
      /\ \A n \in DOMAIN engine.accepted : n \in DOMAIN a /\ a[n] = engine.accepted[n]
  BY <1>1, <1>4
<1> HIDE DEF a
<1>6. engine' \in EngineType /\ engine'.up = engine.up /\ engine'.full = engine.full
      /\ engine'.requests = q /\ engine'.accepted = a
  BY <1>1, <1>2, <1>3, <1>5 DEF EngineType
<1> QED  BY <1>3, <1>5, <1>6

LEMMA AppliesMeans ==
  ASSUME AuthorityTypeOK, EngineApplies
  PROVE  LET full == calls[Head(engine.accepted)].full
         IN  /\ full \in BOOLEAN /\ engine' \in EngineType /\ engine'.up = engine.up /\ engine'.full = full
             /\ engine'.accepted = Tail(engine.accepted) /\ engine.accepted # <<>>
             /\ InRange(engine'.requests, calls) /\ InRange(engine'.accepted, calls)
             /\ \A n \in DOMAIN engine.accepted :
                  \/ engine.accepted[n] = Head(engine.accepted)
                  \/ \E m \in DOMAIN engine'.accepted : engine'.accepted[m] = engine.accepted[n]
<1> DEFINE c == Head(engine.accepted)
           full == calls[c].full
           a == Tail(engine.accepted)
<1>1. /\ engine \in EngineType /\ engine.accepted \in Queue /\ calls \in CallList
      /\ InRange(engine.requests, calls) /\ InRange(engine.accepted, calls) /\ engine.accepted # <<>>
  BY AuthorityTypeMeans DEF EngineApplies, AuthorityTypeOK
<1>2. engine' = [engine EXCEPT !.accepted = a, !.full = full]
  BY DEF EngineApplies
<1>3. /\ c \in 1 .. Len(calls) /\ a \in Queue /\ InRange(a, calls)
      /\ \A n \in DOMAIN engine.accepted : \/ engine.accepted[n] = c
                                           \/ \E m \in DOMAIN a : a[m] = engine.accepted[n]
  BY <1>1, QueueMeans
<1> HIDE DEF c, a
<1>4. full \in BOOLEAN
  BY <1>1, <1>3, CallListMeans DEF CallRecord
<1> HIDE DEF full
<1>5. engine' \in EngineType /\ engine'.up = engine.up /\ engine'.full = full
      /\ engine'.requests = engine.requests /\ engine'.accepted = a
  BY <1>1, <1>2, <1>3, <1>4 DEF EngineType
<1> QED  BY <1>1, <1>3, <1>4, <1>5 DEF c, a, full

LEMMA AuthorityTypeStep ==
  ASSUME AuthorityTypeOK, AuthorityNext
  PROVE  AuthorityTypeOK'
<1>0. CallsKept
  BY CallsAreKept
<1>1. ASSUME NEW full \in BOOLEAN, BeginChange(full) PROVE AuthorityTypeOK'
  <2>1. permissions' \in PermissionsType
    BY <1>1, AuthorityTypeMeans, BegunMeans DEF BeginChange
  <2> QED  BY <1>0, <1>1, <2>1, AuthorityTypeMeans, EngineStays DEF BeginChange
<1>2. ASSUME NEW full \in BOOLEAN, BeginTurn(full) PROVE AuthorityTypeOK'
  BY <1>0, <1>2, AuthorityTypeMeans, EngineStays DEF BeginTurn
<1>3. ASSUME NEW c \in CallIds, SendCall(c) PROVE AuthorityTypeOK'
  <2>1. CASE engine.up
    <3> DEFINE q == Append(engine.requests, c)
    <3>1. engine \in EngineType /\ calls \in CallList /\ engine.requests \in Queue /\ c \in Nat /\ c \in 1 .. Len(calls)
          /\ engine.accepted \in Queue /\ InRange(engine.requests, calls) /\ InRange(engine.accepted, calls)
      BY AuthorityTypeMeans DEF AuthorityTypeOK, CallIds
    <3>2. q \in Queue /\ InRange(q, calls)
      BY <3>1, QueueMeans
    <3>3. engine' = [engine EXCEPT !.requests = q]
      BY <1>3, <2>1 DEF SendCall
    <3> HIDE DEF q
    <3>4. engine' \in EngineType /\ engine'.requests = q /\ engine'.accepted = engine.accepted
      BY <3>1, <3>2, <3>3 DEF EngineType
    <3> QED  BY <1>0, <1>3, <3>1, <3>2, <3>4, AuthorityTypeMeans, AuthorityTypeFollows DEF SendCall
  <2>2. CASE ~engine.up
    <3>1. UNCHANGED engine
      BY <1>3, <2>2 DEF SendCall
    <3> QED  BY <1>0, <1>3, <3>1, AuthorityTypeMeans, EngineStays DEF SendCall
  <2> QED  BY <2>1, <2>2
<1>4. ASSUME NEW accepts \in BOOLEAN, EngineAnswers(accepts) PROVE AuthorityTypeOK'
  BY <1>0, <1>4, AnswersMeans, AuthorityTypeMeans, AuthorityTypeFollows DEF EngineAnswers
<1>5. CASE EngineApplies
  <2>1. stream' \in Stream
    <3> DEFINE full == calls[Head(engine.accepted)].full
    <3>1. full \in BOOLEAN /\ stream \in Stream
      BY <1>5, AppliesMeans, AuthorityTypeMeans
    <3>2. stream' = stream \/ stream' = Append(stream, Note("settings", full))
      BY <1>5 DEF EngineApplies
    <3> HIDE DEF full
    <3>3. Note("settings", full) \in Notes
      BY <3>1, NoteMeans
    <3>4. Append(stream, Note("settings", full)) \in Stream
      BY <3>1, <3>3, StreamGrows
    <3> QED  BY <3>1, <3>2, <3>4
  <2> QED  BY <1>0, <1>5, <2>1, AppliesMeans, AuthorityTypeMeans, AuthorityTypeFollows DEF EngineApplies
<1>6. ASSUME NEW c \in CallIds, CallTimesOut(c) \/ CallConfirmed(c) PROVE AuthorityTypeOK'
  BY <1>0, <1>6, AuthorityTypeMeans, EngineStays DEF CallTimesOut, CallConfirmed
<1>7. ASSUME NEW c \in CallIds, CallReturns(c) PROVE AuthorityTypeOK'
  BY <1>0, <1>7, AuthorityTypeMeans, EngineStays, ReturnMeans
<1>8. ASSUME NEW c \in CallIds, ConfirmTimesOut(c) PROVE AuthorityTypeOK'
  <2>1. permissions' \in PermissionsType
    BY <1>8, AuthorityTypeMeans DEF ConfirmTimesOut, PermissionsType
  <2> QED  BY <1>0, <1>8, <2>1, AuthorityTypeMeans, EngineStays DEF ConfirmTimesOut
<1>9. ASSUME NEW i \in Items, \/ EngineAsks(i) \/ EngineEnds(i) \/ Respond(i) \/ RelayTakes(i)
                              \/ UserAnswers(i, "accept") \/ UserAnswers(i, "decline")
      PROVE  AuthorityTypeOK'
  BY <1>9, ItemSteps, ItemTypeStep
<1>10. CASE PumpReadsItem
  BY <1>10, ReadGoes, ItemTypeStep
<1>11. CASE PumpReadsSettings
  BY <1>0, <1>11, ReadMeans, AuthorityTypeMeans, EngineStays DEF PumpReadsSettings
<1>12. CASE CloseGeneration
  <2>1. engine \in EngineType /\ <<>> \in Queue /\ InRange(<<>>, calls) /\ calls \in CallList
    BY AuthorityTypeMeans, QueueMeans DEF AuthorityTypeOK
  <2>2. engine' \in EngineType /\ engine'.requests = <<>> /\ engine'.accepted = <<>>
    BY <1>12, <2>1 DEF CloseGeneration, EngineType
  <2>3. stream' \in Stream
    BY <1>12, AuthorityTypeMeans, StreamEnds DEF CloseGeneration
  <2> QED  BY <1>0, <1>12, <2>1, <2>2, <2>3, ClosedItems, AuthorityTypeMeans, AuthorityTypeFollows DEF CloseGeneration
<1>13. CASE OpenGeneration
  <2>1. engine \in EngineType /\ engine.requests \in Queue /\ engine.accepted \in Queue /\ snapshot \in BOOLEAN
    BY AuthorityTypeMeans DEF AuthorityTypeOK
  <2>2. engine' \in EngineType /\ engine'.requests = engine.requests /\ engine'.accepted = engine.accepted
    BY <1>13, <2>1 DEF OpenGeneration, EngineType
  <2>3. permissions' \in PermissionsType
    BY <1>13, <2>1 DEF OpenGeneration, PermissionsType
  <2> QED  BY <1>0, <1>13, <2>2, <2>3, AuthorityTypeMeans, AuthorityTypeFollows DEF OpenGeneration
<1> QED  BY <1>1, <1>2, <1>3, <1>4, <1>5, <1>6, <1>7, <1>8, <1>9, <1>10, <1>11, <1>12, <1>13
            DEF AuthorityNext, CallStep, EngineStep, PumpStep

-----------------------------------------------------------------------------
(* The end of a command, step by step. *)

\* A step on command i keeps the end of the others, if it tells of i alone.
LEMMA OthersEnd ==
  ASSUME AuthorityTypeOK, EndInv, NEW i \in Items, NEW r, NEW s, ItemGoes(i, r, s),
         \A j \in Items : j # i => /\ Silent(stream, j) => Silent(s, j)
                                   /\ LastIsEnd(stream, j) => LastIsEnd(s, j) \/ (Silent(s, j) /\ items[j].held = "none"),
         r.at = "over" => (r.held = "none" /\ Silent(s, i)) \/ LastIsEnd(s, i)
  PROVE  EndInv'
<1>1. items'[i] = r /\ stream' = s /\ \A j \in Items : j # i => items'[j] = items[j]
  BY ItemTypeStep DEF ItemGoes
<1>2. ASSUME NEW j \in Items PROVE EndOf(j)'
  <2>1. CASE j = i
    BY <1>1, <2>1 DEF EndOf
  <2>2. CASE j # i
    BY <1>1, <2>2 DEF EndOf, EndInv
  <2> QED  BY <2>1, <2>2
<1> QED  BY <1>2 DEF EndInv

LEMMA TellsOfOne ==
  ASSUME NEW i \in Items, NEW j \in Items, NEW kind \in Kinds
  PROVE  About(Note(kind, i), j) <=> j = i
BY NoteMeans DEF About

\* What is told of command i leaves the others as they were.
LEMMA OneIsTold ==
  ASSUME NEW s \in Stream, NEW i \in Items, NEW kind \in Kinds
  PROVE  /\ Append(s, Note(kind, i)) \in Stream
         /\ kind = "end" => LastIsEnd(Append(s, Note(kind, i)), i)
         /\ \A j \in Items : j # i => /\ Silent(s, j) => Silent(Append(s, Note(kind, i)), j)
                                      /\ LastIsEnd(s, j) => LastIsEnd(Append(s, Note(kind, i)), j)
<1> DEFINE note == Note(kind, i)
<1>1. note \in Notes /\ note.kind = kind
  BY NoteMeans
<1>2. \A j \in Items : About(note, j) <=> j = i
  BY TellsOfOne
<1> HIDE DEF note
<1> QED  BY <1>1, <1>2, StreamGrows DEF note

LEMMA EndStep ==
  ASSUME AuthorityTypeOK, EndInv, AuthorityNext
  PROVE  EndInv'
<1>0. stream \in Stream /\ {"ask", "resolved", "end"} = Kinds
  BY AuthorityTypeMeans DEF Kinds
<1>1. ASSUME NEW i \in Items, EngineAsks(i) PROVE EndInv'
  <2> DEFINE s == Append(stream, Note("ask", i))
             r == [items[i] EXCEPT !.at = "asked"]
  <2>1. ItemGoes(i, r, s)
    BY <1>1, AskGoes
  <2>2. \A j \in Items : j # i => (Silent(stream, j) => Silent(s, j)) /\ (LastIsEnd(stream, j) => LastIsEnd(s, j))
    BY <1>0, OneIsTold
  <2>3. r.at = "asked"
    BY AuthorityTypeMeans DEF ItemRecord
  <2> HIDE DEF r, s
  <2> QED  BY <2>1, <2>2, <2>3, OthersEnd
<1>2. ASSUME NEW i \in Items, EngineEnds(i) PROVE EndInv'
  <2> DEFINE r == [items[i] EXCEPT !.at = "over"]
  <2>1. PICK m \in Stream : (m = stream \/ m = Append(stream, Note("resolved", i))) /\ ItemGoes(i, r, Append(m, Note("end", i)))
    BY <1>2, EndGoes
  <2>2. \A j \in Items : j # i => (Silent(stream, j) => Silent(m, j)) /\ (LastIsEnd(stream, j) => LastIsEnd(m, j))
    <3>1. CASE m = stream
      BY <3>1
    <3>2. CASE m = Append(stream, Note("resolved", i))
      BY <1>0, <3>2, OneIsTold
    <3> QED  BY <2>1, <3>1, <3>2
  <2> DEFINE s == Append(m, Note("end", i))
  <2>3. /\ \A j \in Items : j # i => (Silent(m, j) => Silent(s, j)) /\ (LastIsEnd(m, j) => LastIsEnd(s, j))
        /\ LastIsEnd(s, i)
    BY <1>0, OneIsTold
  <2> HIDE DEF r, s
  <2>4. ItemGoes(i, r, s)
    BY <2>1 DEF s
  <2> QED  BY <2>2, <2>3, <2>4, OthersEnd
<1>3. ASSUME NEW i \in Items, Respond(i) PROVE EndInv'
  <2>1. PICK r \in ItemRecord, s \in Stream :
          /\ ItemGoes(i, r, s)
          /\ items[i].held = "none" => r.held = "none"
          /\ \/ r.at = items[i].at /\ s = stream /\ (r.at # "asked" \/ ~engine.up)
             \/ r.at = "accepted" /\ s = Append(stream, Note("resolved", i))
             \/ r.at = "over" /\ s = Append(Append(stream, Note("resolved", i)), Note("end", i))
    BY <1>3, RespondGoes
  <2>2. CASE r.at = items[i].at /\ s = stream
    BY <2>1, <2>2, OthersEnd DEF EndInv, EndOf
  <2> DEFINE m == Append(stream, Note("resolved", i))
  <2>3. m \in Stream /\ \A j \in Items : j # i => (Silent(stream, j) => Silent(m, j)) /\ (LastIsEnd(stream, j) => LastIsEnd(m, j))
    BY <1>0, OneIsTold
  <2>4. CASE r.at = "accepted" /\ s = m
    BY <2>1, <2>3, <2>4, OthersEnd
  <2>5. CASE r.at = "over" /\ s = Append(m, Note("end", i))
    <3> HIDE DEF m
    <3>1. /\ \A j \in Items : j # i => (Silent(m, j) => Silent(s, j)) /\ (LastIsEnd(m, j) => LastIsEnd(s, j))
          /\ LastIsEnd(s, i)
      BY <1>0, <2>3, <2>5, OneIsTold
    <3> QED  BY <2>1, <2>3, <3>1, OthersEnd
  <2> QED  BY <2>1, <2>2, <2>4, <2>5
<1>4. ASSUME NEW i \in Items, RelayTakes(i) PROVE EndInv'
  <2> DEFINE r == [items[i] EXCEPT !.at = "started", !.held = IF @ = "accepted" THEN "none" ELSE @]
  <2>1. ItemGoes(i, r, stream)
    BY <1>4, RelayGoes
  <2>2. r.at = "started"
    BY AuthorityTypeMeans DEF ItemRecord
  <2> HIDE DEF r
  <2> QED  BY <2>1, <2>2, OthersEnd
<1>5. ASSUME NEW i \in Items, NEW answer \in {"accept", "decline"}, UserAnswers(i, answer) PROVE EndInv'
  <2> DEFINE r == [items[i] EXCEPT !.prompt = FALSE, !.answer = answer]
  <2>1. ItemGoes(i, r, stream)
    BY <1>5, AnswerGoes
  <2>2. r.at = items[i].at /\ r.held = items[i].held
    BY AuthorityTypeMeans DEF ItemRecord
  <2> HIDE DEF r
  <2> QED  BY <2>1, <2>2, OthersEnd DEF EndInv, EndOf
<1>6. CASE PumpReadsItem
  <2> DEFINE note == Head(stream)
             i == note.value
             r == AfterNote(items[i], note.kind)
             s == Tail(stream)
  <2>1. /\ note.kind # "settings" /\ i \in Items /\ r.at = items[i].at
        /\ note.kind = "end" => r.held = "none"
        /\ ItemGoes(i, r, s)
    BY <1>6, ReadGoes
  <2>2. \A j \in Items : About(note, j) <=> j = i
    BY <2>1 DEF About
  <2>3. stream # <<>>
    BY <1>6 DEF PumpReadsItem
  <2>4. \A j \in Items : /\ Silent(stream, j) => Silent(s, j) /\ ~About(note, j)
                         /\ LastIsEnd(stream, j) => \/ LastIsEnd(s, j)
                                                    \/ About(note, j) /\ note.kind = "end" /\ Silent(s, j)
    BY <1>0, <2>3, StreamShrinks
  <2> HIDE DEF note, r, s, i
  <2>5. \A j \in Items : j # i => /\ Silent(stream, j) => Silent(s, j)
                                  /\ LastIsEnd(stream, j) => LastIsEnd(s, j)
    BY <2>2, <2>4
  <2>6. r.at = "over" => (r.held = "none" /\ Silent(s, i)) \/ LastIsEnd(s, i)
    BY <2>1, <2>2, <2>4 DEF EndInv, EndOf
  <2> QED  BY <2>1, <2>5, <2>6, OthersEnd
<1>7. CASE PumpReadsSettings
  <2>1. stream # <<>> /\ Head(stream).kind = "settings" /\ stream' = Tail(stream) /\ items' = items
    BY <1>7 DEF PumpReadsSettings
  <2>2. \A j \in Items : ~About(Head(stream), j)
    BY <2>1 DEF About
  <2>3. \A j \in Items : /\ Silent(stream, j) => Silent(stream', j)
                         /\ LastIsEnd(stream, j) => LastIsEnd(stream', j)
    BY <1>0, <2>1, <2>2, StreamShrinks
  <2> QED  BY <2>1, <2>3 DEF EndInv, EndOf
<1>8. CASE EngineApplies
  <2> DEFINE full == calls[Head(engine.accepted)].full
  <2>1. full \in BOOLEAN
    BY <1>8, AppliesMeans
  <2>2. items' = items /\ (stream' = stream \/ stream' = Append(stream, Note("settings", full)))
    BY <1>8 DEF EngineApplies
  <2> HIDE DEF full
  <2>3. Note("settings", full) \in Notes /\ \A j \in Items : ~About(Note("settings", full), j)
    BY <2>1, NoteMeans DEF About
  <2>4. \A j \in Items : /\ Silent(stream, j) => Silent(stream', j)
                         /\ LastIsEnd(stream, j) => LastIsEnd(stream', j)
    BY <1>0, <2>1, <2>2, <2>3, StreamGrows
  <2> QED  BY <2>2, <2>4 DEF EndInv, EndOf
<1>9. CASE CloseGeneration
  <2>1. \A j \in Items : Silent(stream', j) /\ items'[j].held = "none"
    <3>1. stream' = <<>>
      BY <1>9 DEF CloseGeneration
    <3>2. \A j \in Items : Silent(<<>>, j)
      BY DEF Silent
    <3> QED  BY <1>9, <3>1, <3>2, ClosedItems
  <2> QED  BY <2>1 DEF EndInv, EndOf
<1>10. ASSUME \/ \E full \in BOOLEAN : BeginChange(full) \/ BeginTurn(full)
              \/ \E c \in CallIds : CallStep(c) \/ CallTimesOut(c)
              \/ EngineAnswers(TRUE) \/ EngineAnswers(FALSE) \/ OpenGeneration
       PROVE  EndInv'
  <2>1. UNCHANGED <<items, stream>>
    BY <1>10 DEF BeginChange, BeginTurn, CallStep, SendCall, CallReturns, CallConfirmed, ConfirmTimesOut, CallTimesOut,
                 EngineAnswers, OpenGeneration
  <2> QED  BY <2>1 DEF EndInv, EndOf
<1> QED  BY <1>1, <1>2, <1>3, <1>4, <1>5, <1>6, <1>7, <1>8, <1>9, <1>10 DEF AuthorityNext, EngineStep, PumpStep

LEMMA EndGives == AuthorityTypeOK /\ EndInv => NoApprovalLeft
<1> SUFFICES ASSUME AuthorityTypeOK, EndInv, NEW i \in Items, items[i].at = "over",
                    \A n \in DOMAIN stream : stream[n].kind = "settings" \/ stream[n].value # i
             PROVE  items[i].held = "none"
  BY DEF NoApprovalLeft
<1>1. ~LastIsEnd(stream, i)
  BY DEF LastIsEnd, About
<1> QED  BY <1>1 DEF EndInv, EndOf

\* approvals.rs observe and respond, with the prompts of generation.rs: however the answers of the
\* user, the ends of commands, the pump and replacements of the generation are ordered, no approval is
\* held for a command whose end the pump has read, and another command cannot take it.
THEOREM NoApprovalIsLeft == AuthoritySpec => []NoApprovalLeft
<1>1. AuthorityInit => AuthorityTypeOK /\ EndInv
  BY AuthorityTypeInit DEF AuthorityInit, EndInv, EndOf
<1>2. AuthorityTypeOK /\ EndInv /\ [AuthorityNext]_authorityVars => AuthorityTypeOK' /\ EndInv'
  <2>1. UNCHANGED authorityVars /\ AuthorityTypeOK /\ EndInv => AuthorityTypeOK' /\ EndInv'
    BY DEF authorityVars, AuthorityTypeOK, EndInv, EndOf
  <2> QED  BY <2>1, AuthorityTypeStep, EndStep
<1> QED  BY <1>1, <1>2, EndGives, PTL DEF AuthoritySpec

-----------------------------------------------------------------------------
(* The grant, step by step. *)

\* Full Access stays covered while the policy stays, and what is accepted or told waits.
LEMMA CoveredStays ==
  ASSUME AuthorityTypeOK, CallsKept, Covered, engine'.full = engine.full,
         LoweringUnread(stream) => LoweringUnread(stream'),
         \A n \in DOMAIN engine.accepted : n \in DOMAIN engine'.accepted /\ engine'.accepted[n] = engine.accepted[n]
  PROVE  Covered'
<1>1. CASE engine.full
  BY <1>1 DEF Covered
<1>2. CASE LoweringUnread(stream)
  BY <1>2 DEF Covered
<1>3. CASE AcceptedComing
  <2>1. PICK n \in DOMAIN engine.accepted : calls[engine.accepted[n]].full
    BY <1>3 DEF AcceptedComing
  <2>2. engine.accepted[n] \in CallIds
    BY AuthorityTypeMeans DEF InRange, CallIds
  <2>3. calls'[engine'.accepted[n]].full /\ n \in DOMAIN engine'.accepted
    BY <2>1, <2>2 DEF CallsKept
  <2> QED  BY <2>3 DEF Covered, AcceptedComing
<1> QED  BY <1>1, <1>2, <1>3 DEF Covered

ChangeKept ==
  /\ permissions'.grant => permissions.grant
  /\ permissions'.change # NoChange => permissions'.change = permissions.change

\* What a change under way stands for does not move.
LEMMA ChangeStays ==
  ASSUME AuthorityTypeOK, CallsKept, ChangeInv, ChangeKept, wish' = wish
  PROVE  /\ ChangeInv'
         /\ permissions'.change # NoChange =>
              /\ permissions.change # NoChange /\ permissions'.change = permissions.change
              /\ permissions.change.call \in CallIds
              /\ calls[permissions.change.call].full = permissions.change.full
<1>1. /\ permissions.grant => wish
      /\ permissions'.change # NoChange =>
           /\ permissions.change.call \in CallIds
           /\ calls[permissions.change.call].full = permissions.change.full /\ permissions.change.full = wish
           /\ ~(permissions.change.observed /\ permissions.change.acknowledged)
           /\ permissions'.change = permissions.change /\ permissions.change # NoChange
  BY DEF ChangeInv, Settled, ChangeKept
<1>2. CallIds \subseteq CallIds' /\ \A c \in CallIds : calls'[c].full = calls[c].full
  BY AuthorityTypeMeans, CallListMeans DEF CallsKept, CallIds
<1>3. ChangeInv'
  BY <1>1, <1>2 DEF ChangeInv, Settled, ChangeKept
<1> QED  BY <1>1, <1>3

\* A call that comes to be accepted is with the engine.
LEMMA AcceptedIsCovered ==
  ASSUME CallsKept, NEW c \in CallIds, calls'[c].at = "accepted", calls[c].full
  PROVE  calls[c].at = "accepted" \/ Covered'
<1>1. CASE calls[c].at = "accepted"
  BY <1>1
<1>2. ASSUME NEW n \in DOMAIN engine'.accepted, engine'.accepted[n] = c PROVE Covered'
  <2>1. calls'[engine'.accepted[n]].full
    BY <1>2 DEF CallsKept
  <2> QED  BY <2>1 DEF Covered, AcceptedComing
<1> QED  BY <1>1, <1>2 DEF CallsKept

LEMMA GrantStays ==
  ASSUME AuthorityTypeOK, CallsKept, ChangeInv, GrantInv, ChangeKept,
         engine'.up = engine.up, wish' = wish, Covered => Covered',
         ~engine.up => stream' = <<>> /\ engine'.requests = <<>> /\ engine'.accepted = <<>>
  PROVE  ChangeInv' /\ GrantInv'
<1>1. ChangeInv'
  BY ChangeStays
<1>2. engine.up /\ permissions'.grant => Covered'
  BY DEF GrantInv, ChangeKept
<1>3. ASSUME engine.up, permissions'.change # NoChange, permissions'.change.full,
             calls'[permissions'.change.call].at = "accepted"
      PROVE  Covered'
  <2>1. /\ permissions.change # NoChange /\ permissions'.change = permissions.change
        /\ permissions.change.call \in CallIds
        /\ calls[permissions.change.call].full = permissions.change.full
    BY <1>3, ChangeStays
  <2>2. calls[permissions.change.call].at = "accepted" \/ Covered'
    BY <1>3, <2>1, AcceptedIsCovered
  <2> QED  BY <1>3, <2>1, <2>2 DEF GrantInv, Settled
<1> QED  BY <1>1, <1>2, <1>3 DEF GrantInv, Settled

\* While the pump has not read it, what lowers the policy is not lost.
LEMMA ItemStepGrant ==
  ASSUME AuthorityTypeOK, ChangeInv, GrantInv, engine.up, UNCHANGED <<engine, permissions, calls, wish>>,
         LoweringUnread(stream) => LoweringUnread(stream')
  PROVE  ChangeInv' /\ GrantInv'
<1>1. CallsKept /\ ChangeKept
  BY CallsStay DEF ChangeKept
<1>2. Covered => Covered'
  BY <1>1, CoveredStays
<1> QED  BY <1>1, <1>2, GrantStays

\* Without the engine nobody is told, but permissions and calls may settle.
LEMMA QuietStepGrant ==
  ASSUME AuthorityTypeOK, ChangeInv, GrantInv, CallsKept, ChangeKept, UNCHANGED <<engine, stream, wish>>
  PROVE  ChangeInv' /\ GrantInv'
<1>1. Covered => Covered'
  BY CoveredStays
<1> QED  BY <1>1, GrantStays DEF GrantInv

-----------------------------------------------------------------------------
(* The policy that the stream tells. *)

LEMMA ItemNoteTold ==
  ASSUME NEW s \in Stream, NEW i \in Items, NEW kind \in Kinds, NEW full \in BOOLEAN
  PROVE  /\ Append(s, Note(kind, i)) \in Stream
         /\ LoweringUnread(s) => LoweringUnread(Append(s, Note(kind, i)))
         /\ ToldAll(s, full) => ToldAll(Append(s, Note(kind, i)), full)
<1> DEFINE note == Note(kind, i)
<1>1. note \in Notes /\ note.kind # "settings"
  BY NoteMeans
<1> HIDE DEF note
<1> QED  BY <1>1, StreamGrows DEF note

\* A step on a command neither loses nor adds a settings notification.
LEMMA ItemStepTold ==
  ASSUME AuthorityTypeOK, NEW i \in Items,
         \/ EngineAsks(i) \/ EngineEnds(i) \/ Respond(i) \/ RelayTakes(i)
         \/ UserAnswers(i, "accept") \/ UserAnswers(i, "decline")
  PROVE  /\ UNCHANGED <<engine, permissions, calls, wish>> /\ (~engine.up => stream' = stream)
         /\ LoweringUnread(stream) => LoweringUnread(stream')
         /\ ToldAll(stream, engine.full) => ToldAll(stream', engine.full)
<1>0. stream \in Stream /\ engine.full \in BOOLEAN /\ {"ask", "resolved", "end"} = Kinds
  BY AuthorityTypeMeans DEF Kinds
<1>1. CASE EngineAsks(i)
  BY <1>0, <1>1, ItemNoteTold DEF EngineAsks
<1> DEFINE m == Append(stream, Note("resolved", i))
<1>5. /\ m \in Stream
      /\ LoweringUnread(stream) => LoweringUnread(m)
      /\ ToldAll(stream, engine.full) => ToldAll(m, engine.full)
  BY <1>0, ItemNoteTold
<1> HIDE DEF m
<1>2. CASE EngineEnds(i)
  <2>1. PICK s \in Stream : (s = stream \/ s = m) /\ stream' = Append(s, Note("end", i))
                            /\ UNCHANGED <<engine, permissions, calls, wish>>
    BY <1>2, EndGoes DEF ItemGoes, m
  <2> QED  BY <1>0, <1>2, <1>5, <2>1, ItemNoteTold DEF EngineEnds
<1>3. CASE Respond(i)
  <2>1. PICK s \in Stream : (s = stream \/ s = m \/ s = Append(m, Note("end", i))) /\ stream' = s
    BY <1>3, RespondGoes DEF ItemGoes, m
  <2>2. UNCHANGED <<engine, permissions, calls, wish>> /\ (~engine.up => stream' = stream)
    BY <1>3 DEF Respond
  <2> DEFINE e == Append(m, Note("end", i))
             full == engine.full
  <2>3. "end" \in Kinds
    BY <1>0
  <2>4. (LoweringUnread(m) => LoweringUnread(e)) /\ (ToldAll(m, full) => ToldAll(e, full))
    <3>1. m \in Stream /\ full \in BOOLEAN
      BY <1>0, <1>5
    <3> HIDE DEF full
    <3> QED  BY <2>3, <3>1, ItemNoteTold
  <2>5. stream' = stream \/ stream' = m \/ stream' = e
    BY <2>1
  <2>6. (LoweringUnread(stream) => LoweringUnread(e)) /\ (ToldAll(stream, full) => ToldAll(e, full))
    BY <1>5, <2>4
  <2> HIDE DEF e
  <2>7. LoweringUnread(stream) => LoweringUnread(stream')
    BY <1>5, <2>5, <2>6
  <2>8. ToldAll(stream, engine.full) => ToldAll(stream', engine.full)
    BY <1>5, <2>5, <2>6
  <2> QED  BY <2>2, <2>7, <2>8
<1>4. CASE RelayTakes(i) \/ UserAnswers(i, "accept") \/ UserAnswers(i, "decline")
  BY <1>4 DEF RelayTakes, UserAnswers
<1> QED  BY <1>1, <1>2, <1>3, <1>4

LEMMA EmptyTold == /\ \A full : ToldAll(<<>>, full)
                   /\ ~LoweringUnread(<<>>)
BY DEF ToldAll, LoweringUnread

LEMMA ItemIsRead ==
  ASSUME AuthorityTypeOK, PumpReadsItem
  PROVE  /\ UNCHANGED <<engine, permissions, calls, wish>> /\ engine.up
         /\ LoweringUnread(stream) => LoweringUnread(stream')
         /\ ToldAll(stream, engine.full) => ToldAll(stream', engine.full)
<1>1. stream \in Stream /\ stream # <<>> /\ engine.full \in BOOLEAN /\ ~Lowers(Head(stream)) /\ stream' = Tail(stream)
  BY AuthorityTypeMeans DEF PumpReadsItem, Lowers
<1>2. UNCHANGED <<engine, permissions, calls, wish>> /\ engine.up
  BY DEF PumpReadsItem
<1> QED  BY <1>1, <1>2, StreamShrinks

LEMMA StreamStep ==
  ASSUME AuthorityTypeOK, StreamInv, GrantInv, AuthorityNext
  PROVE  StreamInv'
<1>0. stream \in Stream /\ engine.full \in BOOLEAN
  BY AuthorityTypeMeans
<1>1. ASSUME NEW i \in Items, \/ EngineAsks(i) \/ EngineEnds(i) \/ Respond(i) \/ RelayTakes(i)
                              \/ UserAnswers(i, "accept") \/ UserAnswers(i, "decline")
      PROVE  StreamInv'
  BY <1>1, ItemStepTold DEF StreamInv
<1>2. CASE PumpReadsItem
  BY <1>2, ItemIsRead DEF StreamInv
<1>3. CASE PumpReadsSettings
  <2>1. stream # <<>> /\ stream' = Tail(stream) /\ engine' = engine
    BY <1>3 DEF PumpReadsSettings
  <2> QED  BY <1>0, <2>1, StreamShrinks DEF StreamInv
<1>4. CASE EngineApplies
  <2> DEFINE full == calls[Head(engine.accepted)].full
  <2>1. full \in BOOLEAN /\ engine'.full = full
    BY <1>4, AppliesMeans
  <2>2. stream' = IF full = engine.full THEN stream ELSE Append(stream, Note("settings", full))
    BY <1>4 DEF EngineApplies
  <2> HIDE DEF full
  <2>3. Note("settings", full) \in Notes /\ Note("settings", full).kind = "settings" /\ Note("settings", full).value = full
    BY <2>1, NoteMeans
  <2>4. CASE full = engine.full
    BY <2>1, <2>2, <2>4 DEF StreamInv
  <2>5. CASE full # engine.full
    <3>1. full = ~engine.full /\ stream' = Append(stream, Note("settings", full))
      BY <1>0, <2>1, <2>2, <2>5
    <3>2. ToldAll(stream', ~engine.full)
      BY <1>0, <2>3, <3>1, StreamGrows DEF StreamInv
    <3> QED  BY <2>1, <3>1, <3>2 DEF StreamInv
  <2> QED  BY <2>4, <2>5
<1>5. CASE CloseGeneration \/ OpenGeneration
  <2>1. stream' = <<>>
    BY <1>5 DEF CloseGeneration, OpenGeneration, GrantInv
  <2> QED  BY <2>1, EmptyTold DEF StreamInv
<1>6. ASSUME NEW accepts \in BOOLEAN, EngineAnswers(accepts) PROVE StreamInv'
  <2>1. engine'.full = engine.full /\ stream' = stream
    BY <1>6, AnswersMeans DEF EngineAnswers
  <2> QED  BY <2>1 DEF StreamInv
<1>7. ASSUME NEW c \in CallIds, SendCall(c) PROVE StreamInv'
  <2>1. engine'.full = engine.full /\ stream' = stream
    BY <1>7, AuthorityTypeMeans DEF SendCall, AuthorityTypeOK, EngineType
  <2> QED  BY <2>1 DEF StreamInv
<1>8. ASSUME \/ \E full \in BOOLEAN : BeginChange(full) \/ BeginTurn(full)
             \/ \E c \in CallIds : CallReturns(c) \/ CallConfirmed(c) \/ ConfirmTimesOut(c) \/ CallTimesOut(c)
      PROVE  StreamInv'
  <2>1. UNCHANGED <<engine, stream>>
    BY <1>8 DEF BeginChange, BeginTurn, CallReturns, CallConfirmed, ConfirmTimesOut, CallTimesOut
  <2> QED  BY <2>1 DEF StreamInv
<1> QED  BY <1>1, <1>2, <1>3, <1>4, <1>5, <1>6, <1>7, <1>8 DEF AuthorityNext, CallStep, EngineStep, PumpStep

-----------------------------------------------------------------------------
(* The grant, step by step: the caller handles its answer before the pump reads what followed it. *)

\* EngineApplies: what was accepted is in force, and what is lowered is told.
LEMMA AppliedIsCovered ==
  ASSUME AuthorityTypeOK, EngineApplies, Covered
  PROVE  Covered'
<1> DEFINE c == Head(engine.accepted)
           full == calls[c].full
<1>1. /\ full \in BOOLEAN /\ engine'.full = full /\ calls' = calls
      /\ \A n \in DOMAIN engine.accepted :
           engine.accepted[n] = c \/ \E m \in DOMAIN engine'.accepted : engine'.accepted[m] = engine.accepted[n]
  BY AppliesMeans DEF EngineApplies
<1>2. stream \in Stream /\ engine.full \in BOOLEAN
  BY AuthorityTypeMeans
<1>3. stream' = IF full = engine.full THEN stream ELSE Append(stream, Note("settings", full))
  BY DEF EngineApplies
<1>4. CASE full
  BY <1>1, <1>4 DEF Covered
<1>5. CASE ~full /\ engine.full
  <2>1. stream' = Append(stream, Note("settings", full))
    BY <1>3, <1>5
  <2> HIDE DEF full
  <2>2. Note("settings", full) \in Notes /\ Lowers(Note("settings", full))
    BY <1>1, <1>5, NoteMeans DEF Lowers
  <2> QED  BY <1>2, <2>1, <2>2, StreamGrows DEF Covered
<1>6. CASE ~full /\ ~engine.full /\ LoweringUnread(stream)
  <2>1. stream' = stream
    BY <1>1, <1>2, <1>3, <1>6
  <2> QED  BY <1>6, <2>1 DEF Covered
<1>7. CASE ~full /\ AcceptedComing
  <2>1. PICK n \in DOMAIN engine.accepted : calls[engine.accepted[n]].full
    BY <1>7 DEF AcceptedComing
  <2>2. engine.accepted[n] # c
    BY <1>7, <2>1
  <2>3. PICK k \in DOMAIN engine'.accepted : engine'.accepted[k] = engine.accepted[n]
    BY <1>1, <2>2
  <2> QED  BY <1>1, <2>1, <2>3 DEF Covered, AcceptedComing
<1> QED  BY <1>1, <1>4, <1>5, <1>6, <1>7 DEF Covered

\* PumpReadsSettings: Full Access that is told is in force, or what lowers it is told later on.
LEMMA ReadIsCovered ==
  ASSUME AuthorityTypeOK, StreamInv, PumpReadsSettings, Head(stream).value
  PROVE  Covered'
<1>1. /\ stream \in Stream /\ stream # <<>> /\ stream' = Tail(stream) /\ engine' = engine /\ engine.full \in BOOLEAN
      /\ Raises(Head(stream))
  BY AuthorityTypeMeans DEF PumpReadsSettings, Raises
<1>2. engine.full \/ LoweringUnread(Tail(stream))
  BY <1>1, StreamShrinks DEF StreamInv
<1> QED  BY <1>1, <1>2 DEF Covered

LEMMA ReadStep ==
  ASSUME AnswersFirst, AuthorityTypeOK, ChangeInv, StreamInv, GrantInv, PumpReadsSettings
  PROVE  ChangeInv' /\ GrantInv'
<1> DEFINE full == Head(stream).value
<1>0. /\ calls' = calls /\ wish' = wish /\ engine' = engine /\ engine.up /\ CallIds' = CallIds
      /\ \A c \in CallIds : calls[c].at # "accepted"
  BY DEF PumpReadsSettings, InTurn, CallIds
<1>1. /\ full \in BOOLEAN /\ ~Both(permissions')
      /\ permissions'.change # NoChange =>
           /\ permissions.change # NoChange /\ permissions'.change.call = permissions.change.call
           /\ permissions'.change.full = permissions.change.full
      /\ permissions'.grant => full /\ (permissions.grant \/ (permissions.change # NoChange /\ permissions.change.full))
  BY ReadMeans DEF ChangeInv, Settled, Both
<1>2. full => Covered'
  BY ReadIsCovered
<1> HIDE DEF full
<1>3. ChangeInv'
  BY <1>0, <1>1 DEF ChangeInv, Settled, Both
<1>4. permissions'.grant => Covered'
  BY <1>1, <1>2
<1>5. permissions'.change # NoChange => calls'[permissions'.change.call].at # "accepted"
  BY <1>0, <1>1 DEF ChangeInv, Settled
<1> QED  BY <1>0, <1>3, <1>4, <1>5 DEF GrantInv, Settled

LEMMA ReturnStep ==
  ASSUME AuthorityTypeOK, ChangeInv, GrantInv, CallsKept, NEW c \in CallIds, CallReturns(c)
  PROVE  ChangeInv' /\ GrantInv'
<1>0. UNCHANGED <<engine, stream, snapshot, items, replaced, wish>>
  BY DEF CallReturns
<1>1. /\ ~Both(permissions')
      /\ permissions'.change # NoChange =>
           /\ permissions.change # NoChange /\ permissions'.change.call = permissions.change.call
           /\ permissions'.change.full = permissions.change.full
      /\ permissions'.grant => \/ permissions.grant
                               \/ /\ calls[c].at = "accepted" /\ permissions.change # NoChange
                                  /\ permissions.change.call = c /\ permissions.change.full
  BY ReturnMeans DEF ChangeInv, Settled, Both
<1>2. CallIds \subseteq CallIds' /\ \A d \in CallIds : calls'[d].full = calls[d].full
  BY AuthorityTypeMeans, CallListMeans DEF CallsKept, CallIds
<1>3. Covered => Covered'
  BY <1>0, CoveredStays
<1>4. ChangeInv'
  BY <1>0, <1>1, <1>2 DEF ChangeInv, Settled, Both
<1>5. engine'.up /\ permissions'.grant => Covered'
  BY <1>0, <1>1, <1>3 DEF GrantInv, Settled
<1>6. ASSUME engine'.up, permissions'.change # NoChange, permissions'.change.full,
             calls'[permissions'.change.call].at = "accepted"
      PROVE  Covered'
  <2>1. /\ permissions.change # NoChange /\ permissions.change.full
        /\ permissions'.change.call = permissions.change.call /\ permissions.change.call \in CallIds
        /\ calls[permissions.change.call].full
    BY <1>1, <1>6 DEF ChangeInv, Settled
  <2>2. calls[permissions.change.call].at = "accepted" \/ Covered'
    BY <1>6, <2>1, AcceptedIsCovered
  <2> QED  BY <1>0, <1>3, <1>6, <2>1, <2>2 DEF GrantInv, Settled
<1> QED  BY <1>0, <1>4, <1>5, <1>6 DEF GrantInv, Settled

LEMMA BeginStep ==
  ASSUME AuthorityTypeOK, ChangeInv, GrantInv, CallsKept, NEW full \in BOOLEAN, BeginChange(full)
  PROVE  ChangeInv' /\ GrantInv'
<1> DEFINE c == Len(calls) + 1
<1>0. UNCHANGED <<engine, stream>> /\ wish' = full /\ engine.up /\ Len(calls) \in Nat /\ calls \in CallList
      /\ permissions \in PermissionsType
  BY AuthorityTypeMeans DEF BeginChange
<1>1. c \in Nat \ {0}
  BY <1>0
<1>2. permissions' = Begun(permissions, c, full)
  BY DEF BeginChange
<1>3. calls' = Append(calls, [kind |-> "settings", full |-> full, at |-> "ready"])
  BY DEF BeginChange, NewCall
<1>4. Len(calls') = c /\ calls'[c].full = full /\ calls'[c].at = "ready"
  BY <1>0, <1>3, NewCallMeans
<1> HIDE DEF c
<1>5. /\ ~Both(permissions') /\ permissions'.grant = (permissions.grant /\ full)
      /\ permissions'.change # NoChange /\ permissions'.change.call = c /\ permissions'.change.full = full
  BY <1>0, <1>1, <1>2, BegunMeans
<1>6. c \in CallIds'
  BY <1>1, <1>4 DEF CallIds
<1>7. Covered => Covered'
  BY <1>0, CoveredStays
<1>8. ChangeInv'
  BY <1>0, <1>4, <1>5, <1>6 DEF ChangeInv, Settled, Both
<1>9. GrantInv'
  BY <1>0, <1>4, <1>5, <1>7 DEF GrantInv, Settled
<1> QED  BY <1>8, <1>9

LEMMA GrantStep ==
  ASSUME AnswersFirst, AuthorityTypeOK, ChangeInv, StreamInv, GrantInv, AuthorityNext
  PROVE  ChangeInv' /\ GrantInv'
<1>0. CallsKept
  BY CallsAreKept
<1>1. ASSUME NEW full \in BOOLEAN, BeginChange(full) PROVE ChangeInv' /\ GrantInv'
  BY <1>0, <1>1, BeginStep
<1>2. ASSUME \/ \E full \in BOOLEAN : BeginTurn(full)
             \/ \E c \in CallIds : CallTimesOut(c) \/ CallConfirmed(c)
      PROVE  ChangeInv' /\ GrantInv'
  <2>1. ChangeKept /\ UNCHANGED <<engine, stream, wish>>
    BY <1>2 DEF BeginTurn, CallTimesOut, CallConfirmed, ChangeKept
  <2> QED  BY <1>0, <2>1, QuietStepGrant
<1>3. ASSUME NEW c \in CallIds, ConfirmTimesOut(c) PROVE ChangeInv' /\ GrantInv'
  <2>1. permissions'.change = NoChange /\ permissions'.grant = permissions.grant
    BY <1>3, AuthorityTypeMeans DEF ConfirmTimesOut, PermissionsType
  <2>2. UNCHANGED <<engine, stream, wish>>
    BY <1>3 DEF ConfirmTimesOut
  <2> QED  BY <1>0, <2>1, <2>2, QuietStepGrant DEF ChangeKept
<1>4. ASSUME NEW c \in CallIds, CallReturns(c) PROVE ChangeInv' /\ GrantInv'
  BY <1>0, <1>4, ReturnStep
<1>5. ASSUME NEW c \in CallIds, SendCall(c) PROVE ChangeInv' /\ GrantInv'
  <2>1. /\ engine'.full = engine.full /\ engine'.up = engine.up /\ engine'.accepted = engine.accepted
        /\ ~engine.up => engine' = engine
    BY <1>5, AuthorityTypeMeans DEF SendCall, AuthorityTypeOK, EngineType
  <2>2. UNCHANGED <<stream, permissions, wish>> /\ ChangeKept
    BY <1>5 DEF SendCall, ChangeKept
  <2>3. Covered => Covered'
    BY <1>0, <2>1, <2>2, CoveredStays
  <2>4. ~engine.up => stream' = <<>> /\ engine'.requests = <<>> /\ engine'.accepted = <<>>
    BY <2>1, <2>2 DEF GrantInv
  <2> QED  BY <1>0, <2>1, <2>2, <2>3, <2>4, GrantStays
<1>6. ASSUME NEW accepts \in BOOLEAN, EngineAnswers(accepts) PROVE ChangeInv' /\ GrantInv'
  <2>1. UNCHANGED <<stream, permissions, wish>> /\ ChangeKept /\ engine.up
    BY <1>6 DEF EngineAnswers, ChangeKept
  <2>2. Covered => Covered'
    BY <1>0, <1>6, <2>1, AnswersMeans, CoveredStays
  <2> QED  BY <1>0, <1>6, <2>1, <2>2, AnswersMeans, GrantStays
<1>7. CASE EngineApplies
  <2>1. UNCHANGED <<permissions, wish>> /\ ChangeKept /\ engine.up
    BY <1>7 DEF EngineApplies, ChangeKept
  <2>2. Covered => Covered'
    BY <1>7, AppliedIsCovered
  <2> QED  BY <1>0, <1>7, <2>1, <2>2, AppliesMeans, GrantStays
<1>8. ASSUME NEW i \in Items, \/ EngineAsks(i) \/ EngineEnds(i) \/ Respond(i) \/ RelayTakes(i)
                              \/ UserAnswers(i, "accept") \/ UserAnswers(i, "decline")
      PROVE  ChangeInv' /\ GrantInv'
  <2>1. CASE engine.up
    BY <1>8, <2>1, ItemStepTold, ItemStepGrant
  <2>2. CASE ~engine.up
    BY <1>0, <1>8, <2>2, ItemStepTold, QuietStepGrant DEF ChangeKept
  <2> QED  BY <2>1, <2>2
<1>9. CASE PumpReadsItem
  BY <1>9, ItemIsRead, ItemStepGrant
<1>10. CASE PumpReadsSettings
  BY <1>10, ReadStep
<1>11. CASE CloseGeneration
  <2>1. ChangeKept /\ wish' = wish /\ stream' = <<>> /\ permissions' = permissions
    BY <1>11 DEF CloseGeneration, ChangeKept
  <2>2. ~engine'.up /\ engine'.requests = <<>> /\ engine'.accepted = <<>>
    BY <1>11, AuthorityTypeMeans DEF CloseGeneration, AuthorityTypeOK, EngineType
  <2> QED  BY <1>0, <2>1, <2>2, ChangeStays DEF GrantInv
<1>12. CASE OpenGeneration
  <2>1. /\ permissions'.grant = snapshot /\ permissions'.change = NoChange /\ wish' = wish /\ stream' = stream
        /\ snapshot => permissions.grant
    BY <1>12 DEF OpenGeneration, Restorable
  <2>2. engine'.up /\ engine'.full = snapshot
    BY <1>12, AuthorityTypeMeans DEF OpenGeneration, AuthorityTypeOK, EngineType
  <2>3. ChangeInv'
    BY <2>1 DEF ChangeInv, Settled
  <2> QED  BY <2>1, <2>2, <2>3 DEF GrantInv, Settled, Covered
<1> QED  BY <1>1, <1>2, <1>3, <1>4, <1>5, <1>6, <1>7, <1>8, <1>9, <1>10, <1>11, <1>12
            DEF AuthorityNext, CallStep, EngineStep, PumpStep

LEMMA GrantGives == AuthorityTypeOK /\ ChangeInv /\ GrantInv => GrantIsCurrent
<1> SUFFICES ASSUME AuthorityTypeOK, ChangeInv, GrantInv, permissions.grant, engine.up
             PROVE  wish /\ (engine.full \/ LoweringUnread(stream) \/ UpdateComing)
  BY DEF GrantIsCurrent
<1>1. wish /\ Covered
  BY DEF ChangeInv, GrantInv
<1>2. AcceptedComing => UpdateComing
  <2> DEFINE q == engine.requests
             a == engine.accepted
  <2>1. q \in Seq(Nat) /\ a \in Seq(Nat)
    BY AuthorityTypeMeans DEF Queue
  <2> HIDE DEF q, a
  <2>2. /\ Len(q) \in Nat /\ Len(a) \in Nat /\ DOMAIN a = 1 .. Len(a)
        /\ DOMAIN (q \o a) = 1 .. (Len(q) + Len(a))
        /\ \A n \in 1 .. (Len(q) + Len(a)) : (q \o a)[n] = IF n <= Len(q) THEN q[n] ELSE a[n - Len(q)]
    BY <2>1, ConcatProperties, LenProperties
  <2>3. ASSUME NEW n \in DOMAIN a PROVE \E m \in DOMAIN (q \o a) : (q \o a)[m] = a[n]
    <3>1. n + Len(q) \in DOMAIN (q \o a) /\ ~(n + Len(q) <= Len(q)) /\ (n + Len(q)) - Len(q) = n
      BY <2>2, <2>3
    <3> QED  BY <2>2, <3>1
  <2> QED  BY <2>3 DEF AcceptedComing, UpdateComing, q, a
<1> QED  BY <1>1, <1>2 DEF Covered

\* permissions.rs and route.rs: while a caller handles its answer before the pump reads what the engine
\* told after it, frames go with Full Access only if the last change begun asked for it, and the policy
\* of the engine bears it out, will, or was lowered by a notification the pump has yet to read.
THEOREM GrantIsAlwaysCurrent ==
  ASSUME AnswersFirst
  PROVE  AuthoritySpec => []GrantIsCurrent
<1> DEFINE Inv == AuthorityTypeOK /\ ChangeInv /\ StreamInv /\ GrantInv
<1>1. AuthorityInit => Inv
  <2> SUFFICES ASSUME AuthorityInit PROVE Inv
    OBVIOUS
  <2>1. permissions.change = NoChange /\ ~permissions.grant /\ engine.up /\ stream = <<>>
    BY DEF AuthorityInit
  <2> QED  BY <2>1, AuthorityTypeInit, EmptyTold DEF ChangeInv, StreamInv, GrantInv, Settled
<1>2. Inv /\ [AuthorityNext]_authorityVars => Inv'
  <2>1. UNCHANGED authorityVars /\ Inv => Inv'
    BY DEF authorityVars, AuthorityTypeOK, ChangeInv, StreamInv, GrantInv, Settled, Covered, AcceptedComing, CallIds
  <2> QED  BY <2>1, AuthorityTypeStep, StreamStep, GrantStep
<1>3. Inv => GrantIsCurrent
  BY GrantGives
<1> HIDE DEF Inv
<1> QED  BY <1>1, <1>2, <1>3, PTL DEF AuthoritySpec
-----------------------------------------------------------------------------
(* SessionGoals: what a task does, and what it has of the goal. *)

GoalRecord == [objective : Nat \ {0}, state : {"active", "paused", "complete", "none"}]
Unread == Goal(0, "unread")
GoalValues == GoalRecord \cup {NoGoal, Unread}
Inside == {"asking", "asked"} \cup Loading
TaskSteps == {"idle", "gate"} \cup Inside
TaskOps == {"none", "suspend", "restore"} \cup Orders
TaskRecord == [op : TaskOps, at : TaskSteps, objective : Nat, value : GoalValues, fresh : BOOLEAN]
TaskTable == [Tasks -> TaskRecord]
GoalNews == Seq(GoalRecord)
TurnType == [active : BOOLEAN, episode : BOOLEAN]

GoalTypes ==
  /\ native \in GoalRecord /\ shown \in GoalRecord /\ news \in GoalNews
  /\ resume \in Nat /\ gate \in Tasks \cup {"free"} /\ task \in TaskTable
  /\ turn \in TurnType /\ ready \in BOOLEAN /\ status \in BOOLEAN /\ paused \in BOOLEAN

\* The last notification is of the goal as it is; when all are read, that is what is shown.
NewsInv ==
  /\ news # <<>> => news[Len(news)] = native
  /\ news = <<>> => shown = native

OpsOf(t, op) ==
  /\ t = "user" => op \in Orders
  /\ t = "status" => op \in {"suspend", "restore"}
  /\ t = "pump" => op = "restore"

\* The gate is kept from the order to its last read, a pause has cleared the intention to resume, and
\* what may still be stored is the goal as it is, unless a notification is on its way.
TaskInv(t) ==
  /\ task[t].at \in Inside => gate = t
  /\ task[t].at # "idle" => OpsOf(t, task[t].op)
  /\ task[t].at = "idle" => task[t].op = "none"
  /\ task[t].at \in Inside /\ task[t].op = "restore" => task[t].objective # 0
  /\ task[t].at \in Inside /\ task[t].op \in {"pause", "interrupt"} => resume = 0
  /\ task[t].at \in {"finishing", "confirming"} => task[t].op = "restore"
  /\ task[t].fresh => task[t].at \in Loading
  /\ task[t].fresh /\ task[t].value # Unread => task[t].value = native \/ news # <<>>

\* After a pause nothing is left that says active, and nothing that would make the goal so.
PauseInv ==
  paused =>
    /\ native.state # "active" /\ shown.state # "active" /\ resume = 0
    /\ \A n \in DOMAIN news : news[n].state # "active"
    /\ \A t \in Tasks : /\ task[t].fresh => task[t].value.state # "active"
                        /\ task[t].at \in Inside => task[t].op # "restore"
    /\ task["user"].op \in {"none", "pause", "interrupt"}

GoalInv == GoalTypes /\ NewsInv /\ (\A t \in Tasks : TaskInv(t)) /\ PauseInv

LEMMA GoalsInitially == GoalsInit => GoalInv
<1> SUFFICES ASSUME GoalsInit PROVE GoalInv
  OBVIOUS
<1>1. Goal(1, "active") \in GoalRecord /\ <<>> \in GoalNews
  BY DEF Goal, GoalRecord, GoalNews
<1>2. Idle \in TaskRecord /\ Idle.op = "none" /\ Idle.at = "idle" /\ ~Idle.fresh
  BY DEF Idle, TaskRecord, TaskOps, TaskSteps, GoalValues
<1>3. GoalTypes
  BY <1>1, <1>2 DEF GoalsInit, GoalTypes, TaskTable, TurnType
<1>4. NewsInv /\ PauseInv
  BY DEF GoalsInit, NewsInv, PauseInv
<1>5. ASSUME NEW t \in Tasks PROVE TaskInv(t)
  <2>1. task[t] = Idle
    BY DEF GoalsInit
  <2>2. "idle" \notin Inside /\ "idle" \notin {"finishing", "confirming"}
    BY DEF Inside, Loading
  <2> QED  BY <1>2, <2>1, <2>2 DEF TaskInv
<1> QED  BY <1>3, <1>4, <1>5 DEF GoalInv

LEMMA GoalImplies == GoalInv => GoalIsKept
BY DEF GoalInv, NewsInv, PauseInv, GoalIsKept, GoalIsCurrent, PausedStays

LEMMA TaskMeans ==
  ASSUME GoalInv, NEW t \in Tasks
  PROVE  /\ task[t] \in TaskRecord /\ TaskInv(t) /\ task \in TaskTable
         /\ task[t].op \in TaskOps /\ task[t].at \in TaskSteps /\ task[t].objective \in Nat
         /\ task[t].value \in GoalValues /\ task[t].fresh \in BOOLEAN
<1>1. task[t] \in TaskRecord /\ TaskInv(t) /\ task \in TaskTable
  BY DEF GoalInv, GoalTypes, TaskTable
<1> QED  BY <1>1 DEF TaskRecord

\* Who is outside of the gate has nothing to store and no promise to keep.
LEMMA OutsideMeans ==
  ASSUME GoalInv, NEW t \in Tasks, gate \in {t, "free"}, NEW u \in Tasks, u # t
  PROVE  task[u].at \notin Inside /\ ~task[u].fresh
<1>1. TaskInv(u) /\ "free" \notin Tasks /\ task[u].fresh \in BOOLEAN
  BY TaskMeans DEF Tasks
<1> QED  BY <1>1 DEF TaskInv, Inside

\* A task that is outside of the gate, and stays there.
Rests(u) == /\ task'[u].op = task[u].op /\ task'[u].at = task[u].at /\ task'[u].at \notin Inside
            /\ ~task'[u].fresh

LEMMA RestsKeeps ==
  ASSUME GoalInv, NEW u \in Tasks, Rests(u)
  PROVE  TaskInv(u)'
<1>1. TaskInv(u) /\ task[u].at \in TaskSteps
  BY TaskMeans
<1> QED  BY <1>1 DEF TaskInv, Rests, Inside, Loading

\* The record of the task that moves is replaced.
LEMMA TaskBecomes ==
  ASSUME GoalInv, NEW t \in Tasks, NEW r \in TaskRecord, task' = [task EXCEPT ![t] = r]
  PROVE  /\ task' \in TaskTable /\ task'[t] = r
         /\ \A u \in Tasks : u # t => task'[u] = task[u]
BY DEF GoalInv, GoalTypes, TaskTable

LEMMA OthersRest ==
  ASSUME GoalInv, NEW t \in Tasks, gate \in {t, "free"}, NEW r \in TaskRecord, task' = [task EXCEPT ![t] = r]
  PROVE  \A u \in Tasks : u # t => Rests(u)
BY TaskBecomes, OutsideMeans DEF Rests

\* One task moves under the gate, and the goal stays as it is, and is told and shown as it was.
LEMMA GateKeeps ==
  ASSUME GoalInv, NEW t \in Tasks, gate \in {t, "free"}, NEW r \in TaskRecord, task' = [task EXCEPT ![t] = r],
         UNCHANGED <<native, news, shown, ready, status, paused>>,
         gate' \in Tasks \cup {"free"}, turn' \in TurnType, resume' \in Nat,
         TaskInv(t)', paused => resume' = 0,
         paused => (r.fresh => r.value.state # "active") /\ (r.at \in Inside => r.op # "restore"),
         paused /\ t = "user" => r.op \in {"none", "pause", "interrupt"}
  PROVE  GoalInv'
<1>1. task' \in TaskTable /\ task'[t] = r /\ (\A u \in Tasks : u # t => Rests(u) /\ task'[u] = task[u])
  BY TaskBecomes, OthersRest
<1>2. GoalTypes' /\ NewsInv'
  BY <1>1 DEF GoalInv, GoalTypes, NewsInv
<1>3. \A u \in Tasks : TaskInv(u)'
  BY <1>1, RestsKeeps
<1>4. ASSUME paused' PROVE PauseInv'
  <2>1. paused /\ PauseInv
    BY <1>4 DEF GoalInv
  <2>2. task'["user"].op \in {"none", "pause", "interrupt"}
    BY <1>1, <2>1 DEF PauseInv, Tasks
  <2>3. \A u \in Tasks : /\ task'[u].fresh => task'[u].value.state # "active"
                         /\ task'[u].at \in Inside => task'[u].op # "restore"
    BY <1>1, <2>1 DEF Rests
  <2> QED  BY <2>1, <2>2, <2>3 DEF PauseInv
<1> QED  BY <1>2, <1>3, <1>4 DEF GoalInv, PauseInv

\* Nothing of the goal moves, and no task does.
LEMMA QuietKeeps ==
  ASSUME GoalInv, UNCHANGED <<native, news, shown, gate, task>>, resume' \in {resume, 0}, turn' \in TurnType,
         ready' \in BOOLEAN, status' \in BOOLEAN, paused' \in BOOLEAN, paused' => paused
  PROVE  GoalInv'
<1>1. GoalTypes' /\ NewsInv'
  BY DEF GoalInv, GoalTypes, NewsInv
<1>2. \A u \in Tasks : TaskInv(u)'
  BY DEF GoalInv, TaskInv
<1>3. PauseInv'
  BY DEF GoalInv, PauseInv
<1> QED  BY <1>1, <1>2, <1>3 DEF GoalInv

\* A task asks for the gate.
LEMMA BeginsKeeps ==
  ASSUME GoalInv, NEW t \in Tasks, NEW op \in TaskOps, OpsOf(t, op), task[t].at = "idle", Begins(t, op),
         UNCHANGED <<native, news, shown, gate>>, resume' \in {resume, 0}, turn' \in TurnType,
         ready' \in BOOLEAN, status' \in BOOLEAN, paused' \in BOOLEAN, paused' => paused,
         paused' /\ t = "user" => op \in {"pause", "interrupt"}
  PROVE  GoalInv'
<1> DEFINE r == [Idle EXCEPT !.op = op, !.at = "gate"]
<1>1. r \in TaskRecord /\ r.op = op /\ r.at = "gate" /\ ~r.fresh
  BY DEF Idle, TaskRecord, TaskSteps, GoalValues
<1>2. task' = [task EXCEPT ![t] = r]
  BY DEF Begins
<1> HIDE DEF r
<1>3. task' \in TaskTable /\ task'[t] = r /\ (\A u \in Tasks : u # t => task'[u] = task[u])
  BY <1>1, <1>2, TaskBecomes
<1>4. GoalTypes' /\ NewsInv'
  BY <1>3 DEF GoalInv, GoalTypes, NewsInv
<1>5. TaskInv(t)'
  BY <1>1, <1>3 DEF TaskInv, Inside, Loading
<1>6. ASSUME NEW u \in Tasks, u # t PROVE TaskInv(u)'
  BY <1>3, <1>6 DEF GoalInv, TaskInv
<1>7. ASSUME paused' PROVE PauseInv'
  <2>1. PauseInv /\ paused /\ "gate" \notin Inside
    BY <1>7 DEF GoalInv, Inside, Loading
  <2>2. task'["user"].op \in {"none", "pause", "interrupt"}
    BY <1>1, <1>3, <1>7, <2>1 DEF PauseInv, Tasks
  <2>3. \A u \in Tasks : /\ task'[u].fresh => task'[u].value.state # "active"
                         /\ task'[u].at \in Inside => task'[u].op # "restore"
    BY <1>1, <1>3, <2>1 DEF PauseInv
  <2> QED  BY <2>1, <2>2, <2>3 DEF PauseInv
<1> QED  BY <1>4, <1>5, <1>6, <1>7 DEF GoalInv, PauseInv

LEMMA UserOrdersKeeps == ASSUME GoalInv, NEW op \in Orders \ {"interrupt"}, UserOrders(op) PROVE GoalInv'
<1>1. /\ "user" \in Tasks /\ op \in TaskOps /\ OpsOf("user", op) /\ task["user"].at = "idle" /\ Begins("user", op)
      /\ UNCHANGED <<native, news, shown, resume, gate, ready, status, turn>>
      /\ paused' = (paused /\ op = "pause") /\ paused \in BOOLEAN
  BY DEF UserOrders, Tasks, TaskOps, OpsOf, GoalInv, GoalTypes
<1>2. ready \in BOOLEAN /\ status \in BOOLEAN /\ turn \in TurnType
  BY DEF GoalInv, GoalTypes
<1> QED  BY <1>1, <1>2, BeginsKeeps

LEMMA UserInterruptsKeeps == ASSUME GoalInv, UserInterrupts PROVE GoalInv'
<1>1. ready \in BOOLEAN /\ status \in BOOLEAN /\ turn \in TurnType /\ paused \in BOOLEAN
  BY DEF GoalInv, GoalTypes
<1>2. CASE ready
  <2>1. /\ "user" \in Tasks /\ "interrupt" \in TaskOps /\ OpsOf("user", "interrupt") /\ task["user"].at = "idle"
        /\ Begins("user", "interrupt") /\ UNCHANGED <<native, news, shown, gate, ready, status, turn, paused>>
        /\ resume' = 0
    BY <1>2 DEF UserInterrupts, Tasks, TaskOps, OpsOf, Orders
  <2> QED  BY <1>1, <2>1, BeginsKeeps
<1>3. CASE ~ready
  BY <1>1, <1>3, QuietKeeps DEF UserInterrupts
<1> QED  BY <1>2, <1>3

LEMMA ConnectionKeeps == ASSUME GoalInv, ConnectionBreaks \/ ConnectionReturns PROVE GoalInv'
<1>1. status \in BOOLEAN /\ turn \in TurnType /\ paused \in BOOLEAN
  BY DEF GoalInv, GoalTypes
<1>2. /\ UNCHANGED <<native, news, shown, gate, task, resume, turn, status, paused>>
      /\ ready' \in BOOLEAN
  BY DEF ConnectionBreaks, ConnectionReturns
<1> QED  BY <1>1, <1>2, QuietKeeps

LEMMA StatusKeeps == ASSUME GoalInv, StatusSuspends \/ StatusRestores PROVE GoalInv'
<1>1. ready \in BOOLEAN /\ turn \in TurnType /\ paused \in BOOLEAN /\ "status" \in Tasks
  BY DEF GoalInv, GoalTypes, Tasks
<1>2. /\ "suspend" \in TaskOps /\ OpsOf("status", "suspend")
      /\ "restore" \in TaskOps /\ OpsOf("status", "restore")
  BY DEF TaskOps, OpsOf
<1>3. [turn EXCEPT !.episode = @ /\ turn.active] \in TurnType
  BY <1>1 DEF TurnType
<1>4. CASE StatusSuspends
  BY <1>1, <1>2, <1>4, BeginsKeeps DEF StatusSuspends
<1>5. CASE StatusRestores
  BY <1>1, <1>2, <1>3, <1>5, BeginsKeeps DEF StatusRestores
<1> QED  BY <1>4, <1>5

LEMMA TurnKeeps == ASSUME GoalInv, TurnCompletes PROVE GoalInv'
<1>1. ready \in BOOLEAN /\ status \in BOOLEAN /\ paused \in BOOLEAN /\ turn \in TurnType
  BY DEF GoalInv, GoalTypes
<1>2. turn' \in TurnType
  <2>1. (turn.episode /\ ~ready) \in BOOLEAN
    OBVIOUS
  <2> QED  BY <2>1 DEF TurnCompletes, TurnType
<1>3. CASE ready
  <2>1. "pump" \in Tasks /\ "restore" \in TaskOps /\ OpsOf("pump", "restore")
    BY DEF Tasks, TaskOps, OpsOf
  <2> QED  BY <1>1, <1>2, <1>3, <2>1, BeginsKeeps DEF TurnCompletes
<1>4. CASE ~ready
  BY <1>1, <1>2, <1>4, QuietKeeps DEF TurnCompletes
<1> QED  BY <1>3, <1>4

-----------------------------------------------------------------------------
(* Under the gate. *)

LEMMA EntersMeans ==
  ASSUME GoalInv, NEW t \in Tasks, NEW ops, Enters(t, ops)
  PROVE  /\ gate = "free" /\ task[t].op \in ops /\ ~task[t].fresh /\ OpsOf(t, task[t].op)
         /\ task[t] \in TaskRecord /\ task[t].op \in TaskOps
         /\ paused /\ t = "user" => task[t].op \in {"pause", "interrupt"}
<1>1. task[t].at = "gate" /\ gate = "free" /\ task[t].op \in ops
  BY DEF Enters
<1>2. TaskInv(t) /\ task[t] \in TaskRecord /\ task[t].op \in TaskOps
  BY TaskMeans
<1>3. ~task[t].fresh /\ OpsOf(t, task[t].op)
  BY <1>1, <1>2, TaskMeans DEF TaskInv, Loading
<1>4. paused /\ t = "user" => task[t].op \in {"pause", "interrupt"}
  BY <1>3 DEF GoalInv, PauseInv, OpsOf, Orders
<1> QED  BY <1>1, <1>2, <1>3, <1>4

\* What a task becomes at a step of its operation, and at its end.
LEMMA AtMeans ==
  ASSUME NEW r \in TaskRecord, NEW at \in TaskSteps
  PROVE  /\ [r EXCEPT !.at = at] \in TaskRecord /\ [r EXCEPT !.at = at].at = at
         /\ [r EXCEPT !.at = at].op = r.op /\ [r EXCEPT !.at = at].objective = r.objective
         /\ [r EXCEPT !.at = at].value = r.value /\ [r EXCEPT !.at = at].fresh = r.fresh
BY DEF TaskRecord

LEMMA IdleMeans == Idle \in TaskRecord /\ Idle.at = "idle" /\ Idle.op = "none" /\ ~Idle.fresh /\ "idle" \notin Inside
BY DEF Idle, TaskRecord, TaskOps, TaskSteps, GoalValues, Inside, Loading

\* A task that ends its operation without a word about the goal.
LEMMA EndsKeeps ==
  ASSUME GoalInv, NEW t \in Tasks, gate \in {t, "free"}, Ends(t),
         UNCHANGED <<native, news, shown, ready, status, paused>>,
         resume' \in Nat, paused => resume' = 0
  PROVE  GoalInv'
<1>1. task' = [task EXCEPT ![t] = Idle] /\ gate' = "free"
  BY DEF Ends
<1>2. turn' \in TurnType
  BY DEF Ends, GoalInv, GoalTypes, TurnType
<1>3. task'[t] = Idle
  BY <1>1, IdleMeans, TaskBecomes
<1>4. TaskInv(t)'
  BY <1>3, IdleMeans DEF TaskInv
<1> QED  BY <1>1, <1>2, <1>4, IdleMeans, GateKeeps

LEMMA EnterOrderKeeps == ASSUME GoalInv, NEW t \in Tasks, EnterOrder(t) PROVE GoalInv'
<1> DEFINE r == [task[t] EXCEPT !.at = "asking"]
<1>1. /\ gate = "free" /\ task[t].op \in {"pause", "resume", "set", "clear"} /\ ~task[t].fresh
      /\ OpsOf(t, task[t].op) /\ task[t] \in TaskRecord /\ (paused /\ t = "user" => task[t].op \in {"pause", "interrupt"})
  BY EntersMeans DEF EnterOrder
<1>2. r \in TaskRecord /\ r.at = "asking" /\ r.op = task[t].op /\ r.fresh = task[t].fresh
  BY <1>1, AtMeans DEF TaskSteps, Inside
<1>3. task' = [task EXCEPT ![t] = r] /\ gate' = t /\ UNCHANGED <<native, news, shown, ready, status, turn, paused>>
  BY DEF EnterOrder, Moves
<1> HIDE DEF r
<1>4. /\ resume' = IF task[t].op \in {"pause", "clear"} THEN 0 ELSE resume
      /\ resume \in Nat /\ turn \in TurnType /\ (paused => resume = 0)
  BY DEF EnterOrder, GoalInv, GoalTypes, PauseInv
<1>5. task'[t] = r
  BY <1>2, <1>3, TaskBecomes
<1>6. TaskInv(t)'
  BY <1>1, <1>2, <1>3, <1>4, <1>5 DEF TaskInv, Loading
<1>7. resume' \in Nat /\ (paused => resume' = 0)
  BY <1>4
<1> QED  BY <1>1, <1>2, <1>3, <1>4, <1>6, <1>7, GateKeeps

LEMMA EnterPauseKeeps == ASSUME GoalInv, NEW t \in Tasks, EnterPause(t) PROVE GoalInv'
<1> DEFINE r == [task[t] EXCEPT !.at = "asking"]
<1>1. /\ gate = "free" /\ task[t].op \in {"interrupt", "suspend"} /\ ~task[t].fresh
      /\ OpsOf(t, task[t].op) /\ task[t] \in TaskRecord /\ (paused /\ t = "user" => task[t].op \in {"pause", "interrupt"})
  BY EntersMeans DEF EnterPause
<1>2. /\ UNCHANGED <<native, news, shown, ready, status, paused>> /\ resume \in Nat /\ shown.objective \in Nat
      /\ turn \in TurnType /\ (paused => resume = 0 /\ shown.state # "active")
  BY DEF EnterPause, GoalInv, GoalTypes, GoalRecord, PauseInv
<1>3. CASE shown.state = "active"
  <2>1. r \in TaskRecord /\ r.at = "asking" /\ r.op = task[t].op /\ r.fresh = task[t].fresh
    BY <1>1, AtMeans DEF TaskSteps, Inside
  <2>2. task' = [task EXCEPT ![t] = r] /\ gate' = t /\ turn' = turn
    BY <1>3 DEF EnterPause, Moves
  <2> HIDE DEF r
  <2>3. resume' \in Nat /\ (task[t].op = "interrupt" => resume' = 0)
    BY <1>2, <1>3 DEF EnterPause
  <2>4. task'[t] = r
    BY <2>1, <2>2, TaskBecomes
  <2>5. TaskInv(t)'
    BY <1>1, <2>1, <2>2, <2>3, <2>4 DEF TaskInv, Loading
  <2> QED  BY <1>1, <1>2, <1>3, <2>1, <2>2, <2>3, <2>5, GateKeeps
<1>4. CASE shown.state # "active"
  <2>1. Ends(t) /\ resume' \in Nat /\ (paused => resume' = 0)
    BY <1>2, <1>4 DEF EnterPause
  <2> QED  BY <1>1, <1>2, <2>1, EndsKeeps
<1> QED  BY <1>3, <1>4

LEMMA EnterRestoreKeeps == ASSUME GoalInv, NEW t \in Tasks, EnterRestore(t) PROVE GoalInv'
<1> DEFINE r == [task[t] EXCEPT !.at = "loading", !.objective = resume]
<1>1. /\ gate = "free" /\ task[t].op \in {"restore"} /\ ~task[t].fresh
      /\ OpsOf(t, task[t].op) /\ task[t] \in TaskRecord
  BY EntersMeans DEF EnterRestore
<1>2. /\ UNCHANGED <<native, news, shown, ready, status, resume, paused>> /\ resume \in Nat
      /\ turn \in TurnType /\ (paused => resume = 0)
  BY DEF EnterRestore, GoalInv, GoalTypes, PauseInv
<1>3. CASE ready /\ resume # 0 /\ ~turn.episode
  <2>1. r \in TaskRecord /\ r.at = "loading" /\ r.op = "restore" /\ ~r.fresh /\ r.objective = resume
    BY <1>1, <1>2 DEF TaskRecord, TaskSteps, Inside, Loading
  <2>2. task' = [task EXCEPT ![t] = r] /\ gate' = t /\ turn' = turn
    BY <1>3 DEF EnterRestore
  <2> HIDE DEF r
  <2>3. task'[t] = r
    BY <2>1, <2>2, TaskBecomes
  <2>4. TaskInv(t)'
    BY <1>1, <1>2, <1>3, <2>1, <2>2, <2>3 DEF TaskInv, Loading
  <2> QED  BY <1>1, <1>2, <1>3, <2>1, <2>2, <2>4, GateKeeps
<1>4. CASE ~(ready /\ resume # 0 /\ ~turn.episode)
  <2>1. Ends(t)
    BY <1>4 DEF EnterRestore
  <2> QED  BY <1>1, <1>2, <2>1, EndsKeeps
<1> QED  BY <1>3, <1>4

\* Whoever is at a step inside the gate has it.
LEMMA InsideMeans ==
  ASSUME GoalInv, NEW t \in Tasks, task[t].at \in Inside
  PROVE  /\ gate = t /\ task[t] \in TaskRecord /\ OpsOf(t, task[t].op) /\ TaskInv(t)
         /\ turn \in TurnType /\ resume \in Nat
         /\ paused => resume = 0 /\ task[t].op # "restore" /\ (t = "user" => task[t].op \in {"pause", "interrupt"})
<1>1. TaskInv(t) /\ task[t] \in TaskRecord
  BY TaskMeans
<1>2. gate = t /\ OpsOf(t, task[t].op) /\ task[t].op # "none"
  BY <1>1 DEF TaskInv, Inside, Loading, OpsOf, Tasks, Orders
<1> QED  BY <1>1, <1>2 DEF GoalInv, PauseInv, GoalTypes

LEMMA RefusedKeeps == ASSUME GoalInv, NEW t \in Tasks, Refused(t) PROVE GoalInv'
<1>1. task[t].at \in Inside
  BY DEF Refused, Inside
<1> QED  BY <1>1, InsideMeans, EndsKeeps DEF Refused

LEMMA AnswerKeeps == ASSUME GoalInv, NEW t \in Tasks, Answer(t) PROVE GoalInv'
<1> DEFINE at == IF task[t].op = "restore" THEN "finishing" ELSE "loading"
           r == [task[t] EXCEPT !.at = at]
<1>1. task[t].at \in Inside /\ at \in TaskSteps /\ at \in Loading
  BY DEF Answer, Inside, TaskSteps, Loading
<1>2. at \in {"finishing", "confirming"} => task[t].op = "restore"
  OBVIOUS
<1>3. task' = [task EXCEPT ![t] = [task[t] EXCEPT !.at = at]] /\ UNCHANGED <<native, news, shown, resume, gate, ready, status, turn, paused>>
  BY DEF Answer, Moves
<1> HIDE DEF at
<1>4. /\ gate = t /\ task[t] \in TaskRecord /\ TaskInv(t) /\ OpsOf(t, task[t].op) /\ turn \in TurnType /\ resume \in Nat
      /\ paused => resume = 0 /\ task[t].op # "restore" /\ (t = "user" => task[t].op \in {"pause", "interrupt"})
  BY <1>1, InsideMeans
<1>5. r \in TaskRecord /\ r.at = at /\ r.op = task[t].op /\ r.fresh = task[t].fresh /\ r.objective = task[t].objective
      /\ r.value = task[t].value
  BY <1>1, <1>4, AtMeans
<1>6. ~task[t].fresh /\ task[t].fresh \in BOOLEAN
  <2>1. task[t].at = "asked"
    BY DEF Answer
  <2> QED  BY <1>4, <2>1 DEF TaskInv, Loading, TaskRecord
<1> HIDE DEF r
<1>7. task' = [task EXCEPT ![t] = r]
  BY <1>3 DEF r
<1>8. task'[t] = r
  BY <1>5, <1>7, TaskBecomes
<1>9. TaskInv(t)'
  <2>1. task[t].op = "restore" => task[t].objective # 0
    BY <1>1, <1>4 DEF TaskInv
  <2>2. task[t].op \in {"pause", "interrupt"} => resume = 0
    BY <1>1, <1>4 DEF TaskInv
  <2>3. at # "idle"
    BY <1>1 DEF Loading
  <2> QED  BY <1>1, <1>2, <1>3, <1>4, <1>5, <1>6, <1>8, <2>1, <2>2, <2>3 DEF TaskInv
<1> QED  BY <1>3, <1>4, <1>5, <1>6, <1>7, <1>9, GateKeeps

LEMMA AnswerIsLostKeeps == ASSUME GoalInv, NEW t \in Tasks, AnswerIsLost(t) PROVE GoalInv'
<1> DEFINE r == [task[t] EXCEPT !.at = "confirming"]
<1>1. task[t].at \in Inside /\ task[t].at = "asked"
  BY DEF AnswerIsLost, Inside
<1>2. /\ gate = t /\ task[t] \in TaskRecord /\ TaskInv(t) /\ OpsOf(t, task[t].op) /\ turn \in TurnType /\ resume \in Nat
      /\ paused => resume = 0 /\ task[t].op # "restore" /\ (t = "user" => task[t].op \in {"pause", "interrupt"})
  BY <1>1, InsideMeans
<1>3. UNCHANGED <<native, news, shown, resume, ready, status, paused>>
  BY DEF AnswerIsLost
<1>4. CASE task[t].op = "restore" /\ ready
  <2>1. task' = [task EXCEPT ![t] = r] /\ UNCHANGED <<gate, turn>>
    BY <1>4 DEF AnswerIsLost, Moves
  <2>2. r \in TaskRecord /\ r.at = "confirming" /\ r.op = task[t].op /\ r.fresh = task[t].fresh
        /\ r.objective = task[t].objective
    BY <1>2, AtMeans DEF TaskSteps, Inside, Loading
  <2>3. ~task[t].fresh
    BY <1>1, <1>2 DEF TaskInv, Loading, TaskRecord
  <2> HIDE DEF r
  <2>4. task'[t] = r
    BY <2>1, <2>2, TaskBecomes
  <2>5. TaskInv(t)'
    <3>1. task[t].objective # 0
      BY <1>1, <1>2, <1>4 DEF TaskInv
    <3>2. "confirming" \in Inside /\ "confirming" \in Loading
      BY DEF Inside, Loading
    <3> QED  BY <1>2, <1>3, <1>4, <2>1, <2>2, <2>3, <2>4, <3>1, <3>2 DEF TaskInv
  <2> QED  BY <1>2, <1>3, <1>4, <2>1, <2>2, <2>3, <2>5, GateKeeps
<1>5. CASE ~(task[t].op = "restore" /\ ready)
  <2>1. Ends(t)
    BY <1>5 DEF AnswerIsLost
  <2> QED  BY <1>2, <1>3, <2>1, EndsKeeps
<1> QED  BY <1>4, <1>5

\* A read begins, and the engine answers it with the goal as it is.
LEMMA ReadKeeps ==
  ASSUME GoalInv, NEW t \in Tasks, task[t].at \in Loading, NEW fresh \in BOOLEAN,
         NEW value \in {Unread, native},
         task' = [task EXCEPT ![t] = [task[t] EXCEPT !.fresh = fresh, !.value = value]],
         UNCHANGED <<native, news, shown, resume, gate, ready, status, turn, paused>>
  PROVE  GoalInv'
<1> DEFINE r == [task[t] EXCEPT !.fresh = fresh, !.value = value]
<1>1. task[t].at \in Inside
  BY DEF Inside
<1>2. /\ gate = t /\ task[t] \in TaskRecord /\ TaskInv(t) /\ OpsOf(t, task[t].op) /\ turn \in TurnType /\ resume \in Nat
      /\ paused => resume = 0 /\ task[t].op # "restore" /\ (t = "user" => task[t].op \in {"pause", "interrupt"})
  BY <1>1, InsideMeans
<1>3. native \in GoalRecord /\ value \in GoalValues
  BY DEF GoalInv, GoalTypes, GoalValues
<1>4. r \in TaskRecord /\ r.at = task[t].at /\ r.op = task[t].op /\ r.fresh = fresh
      /\ r.objective = task[t].objective /\ r.value = value
  BY <1>2, <1>3 DEF TaskRecord
<1> HIDE DEF r
<1>5. task' = [task EXCEPT ![t] = r]
  BY DEF r
<1>6. task'[t] = r
  BY <1>4, <1>5, TaskBecomes
<1>7. TaskInv(t)'
  BY <1>2, <1>4, <1>6 DEF TaskInv
<1>8. paused => value.state # "active"
  BY DEF GoalInv, PauseInv, Unread, Goal
<1> QED  BY <1>2, <1>4, <1>5, <1>7, <1>8, GateKeeps

LEMMA LoadBeginsKeeps == ASSUME GoalInv, NEW t \in Tasks, LoadBegins(t) PROVE GoalInv'
<1>1. task' = [task EXCEPT ![t] = [task[t] EXCEPT !.fresh = TRUE, !.value = Unread]]
  BY DEF LoadBegins, Unread
<1> QED  BY <1>1, ReadKeeps DEF LoadBegins

LEMMA EngineReadsKeeps == ASSUME GoalInv, NEW t \in Tasks, EngineReads(t) PROVE GoalInv'
<1>0. task[t] \in TaskRecord /\ task[t].fresh \in BOOLEAN
  BY TaskMeans
<1>1. task' = [task EXCEPT ![t] = [task[t] EXCEPT !.value = native]]
  BY DEF EngineReads
<1>2. [task[t] EXCEPT !.value = native] = [task[t] EXCEPT !.fresh = task[t].fresh, !.value = native]
  BY <1>0 DEF TaskRecord
<1>3. task' = [task EXCEPT ![t] = [task[t] EXCEPT !.fresh = task[t].fresh, !.value = native]]
  BY <1>1, <1>2
<1> QED  BY <1>0, <1>3, ReadKeeps DEF EngineReads

\* Told of a goal, the notifications end with it.
LEMMA ToldMeans ==
  ASSUME GoalInv, NEW g \in GoalRecord
  PROVE  /\ Append(news, g) \in GoalNews /\ Append(news, g) # <<>>
         /\ Append(news, g)[Len(Append(news, g))] = g
         /\ \A n \in DOMAIN Append(news, g) : Append(news, g)[n] = g \/ \E m \in DOMAIN news : Append(news, g)[n] = news[m]
<1>1. news \in Seq(GoalRecord)
  BY DEF GoalInv, GoalTypes, GoalNews
<1>2. /\ Append(news, g) \in Seq(GoalRecord) /\ Len(news) \in Nat /\ DOMAIN news = 1 .. Len(news)
      /\ DOMAIN Append(news, g) = 1 .. (Len(news) + 1) /\ Append(news, g)[Len(news) + 1] = g
      /\ \A n \in 1 .. Len(news) : Append(news, g)[n] = news[n]
  BY <1>1, AppendMeans
<1>3. Len(Append(news, g)) = Len(news) + 1
  BY <1>1, AppendProperties
<1>4. Append(news, g) # <<>>
  BY <1>2, <1>3
<1>5. \A n \in 1 .. (Len(news) + 1) : n = Len(news) + 1 \/ n \in 1 .. Len(news)
  BY <1>2
<1> QED  BY <1>2, <1>3, <1>4, <1>5 DEF GoalNews

LEMMA AskedMeans ==
  ASSUME GoalInv, NEW t \in Tasks, task[t].at = "asking", AskEngine(t)
  PROVE  /\ native' \in GoalRecord
         /\ paused => native'.state # "active"
<1>0. task[t].at \in Inside
  BY DEF Inside
<1>1. /\ OpsOf(t, task[t].op) /\ TaskInv(t)
      /\ paused => task[t].op # "restore" /\ (t = "user" => task[t].op \in {"pause", "interrupt"})
  BY <1>0, InsideMeans
<1>2. native \in GoalRecord /\ (paused => native.state # "active")
  BY DEF GoalInv, GoalTypes, PauseInv
<1>3. /\ [native EXCEPT !.state = "paused"] \in GoalRecord /\ [native EXCEPT !.state = "paused"].state = "paused"
      /\ [native EXCEPT !.state = "active"] \in GoalRecord
      /\ [native EXCEPT !.state = "none"] \in GoalRecord /\ [native EXCEPT !.state = "none"].state = "none"
  BY <1>2 DEF GoalRecord
<1>4. Goal(native.objective + 1, IF shown.state = "paused" THEN "paused" ELSE "active") \in GoalRecord
  BY <1>2 DEF Goal, GoalRecord
<1>5. native' = Asked(task[t].op)
  BY DEF AskEngine
<1>6. CASE task[t].op \in {"pause", "interrupt", "suspend"}
  BY <1>2, <1>3, <1>5, <1>6 DEF Asked
<1>7. CASE task[t].op \in {"resume", "restore"}
  <2>1. ~paused
    BY <1>1, <1>7 DEF OpsOf, Tasks
  <2> QED  BY <1>2, <1>3, <1>5, <1>7, <2>1 DEF Asked
<1>8. CASE task[t].op = "set"
  <2>1. ~paused
    BY <1>1, <1>8 DEF OpsOf, Tasks
  <2> QED  BY <1>4, <1>5, <1>8, <2>1 DEF Asked
<1>9. CASE task[t].op = "clear"
  BY <1>2, <1>3, <1>5, <1>9 DEF Asked
<1> QED  BY <1>1, <1>6, <1>7, <1>8, <1>9 DEF OpsOf, Tasks, Orders

LEMMA AskEngineKeeps == ASSUME GoalInv, NEW t \in Tasks, AskEngine(t) PROVE GoalInv'
<1> DEFINE r == [task[t] EXCEPT !.at = "asked"]
<1>1. task[t].at = "asking" /\ task[t].at \in Inside
  BY DEF AskEngine, Inside
<1>2. /\ gate = t /\ task[t] \in TaskRecord /\ TaskInv(t) /\ OpsOf(t, task[t].op) /\ turn \in TurnType /\ resume \in Nat
      /\ paused => resume = 0 /\ task[t].op # "restore" /\ (t = "user" => task[t].op \in {"pause", "interrupt"})
  BY <1>1, InsideMeans
<1>3. native' \in GoalRecord /\ (paused => native'.state # "active")
  BY <1>1, AskedMeans
<1>4. r \in TaskRecord /\ r.at = "asked" /\ r.op = task[t].op /\ r.fresh = task[t].fresh /\ r.objective = task[t].objective
  BY <1>2, AtMeans DEF TaskSteps, Inside
<1>5. task' = [task EXCEPT ![t] = r] /\ UNCHANGED <<shown, resume, gate, ready, status, turn, paused>>
      /\ news' = Told(native')
  BY DEF AskEngine, Moves
<1> HIDE DEF r
<1>6. task' \in TaskTable /\ task'[t] = r /\ (\A u \in Tasks : u # t => task'[u] = task[u] /\ Rests(u))
  BY <1>2, <1>4, <1>5, TaskBecomes, OthersRest
<1>7. ~task[t].fresh
  BY <1>1, <1>2 DEF TaskInv, Loading, TaskRecord
<1>8. TaskInv(t)'
  <2>1. "asked" \in Inside
    BY DEF Inside
  <2> QED  BY <1>1, <1>2, <1>4, <1>5, <1>6, <1>7, <2>1 DEF TaskInv
<1>9. (\A u \in Tasks : TaskInv(u)')
  BY <1>6, <1>8, RestsKeeps
<1>10. GoalTypes' /\ NewsInv'
  <2>1. CASE native' = native
    <3>1. news' = news
      BY <1>5, <2>1 DEF Told
    <3> QED  BY <1>3, <1>5, <1>6, <2>1, <3>1 DEF GoalInv, GoalTypes, NewsInv
  <2>2. CASE native' # native
    <3>1. news' = Append(news, native')
      BY <1>5, <2>2 DEF Told
    <3>2. news' \in GoalNews /\ news' # <<>> /\ news'[Len(news')] = native'
      BY <1>3, <3>1, ToldMeans
    <3> QED  BY <1>3, <1>5, <1>6, <3>2 DEF GoalInv, GoalTypes, NewsInv
  <2> QED  BY <2>1, <2>2
<1>11. ASSUME paused' PROVE PauseInv'
  <2>1. paused /\ PauseInv
    BY <1>5, <1>11 DEF GoalInv
  <2>2. \A n \in DOMAIN news' : news'[n].state # "active"
    <3>1. CASE news' = news
      BY <2>1, <3>1 DEF PauseInv
    <3>2. CASE news' = Append(news, native')
      BY <1>3, <2>1, <3>2, ToldMeans DEF PauseInv
    <3> QED  BY <1>5, <3>1, <3>2 DEF Told
  <2>3. task'["user"].op \in {"none", "pause", "interrupt"}
    BY <1>2, <1>4, <1>6, <2>1 DEF PauseInv, Tasks
  <2>4. \A u \in Tasks : /\ task'[u].fresh => task'[u].value.state # "active"
                         /\ task'[u].at \in Inside => task'[u].op # "restore"
    BY <1>2, <1>4, <1>6, <1>7, <2>1 DEF Rests
  <2> QED  BY <1>3, <1>5, <2>1, <2>2, <2>3, <2>4 DEF PauseInv
<1> QED  BY <1>9, <1>10, <1>11 DEF GoalInv, PauseInv

LEMMA EngineCompletesKeeps == ASSUME GoalInv, EngineCompletes PROVE GoalInv'
<1>1. /\ native \in GoalRecord /\ native.state = "active" /\ ~paused
      /\ native' = [native EXCEPT !.state = "complete"]
      /\ UNCHANGED <<shown, resume, gate, task, ready, status, turn, paused>>
  BY DEF EngineCompletes, GoalInv, GoalTypes, PauseInv
<1>2. native' \in GoalRecord
  BY <1>1 DEF GoalRecord
<1>3. news' = Append(news, native')
  BY DEF EngineCompletes
<1>4. news' \in GoalNews /\ news' # <<>> /\ news'[Len(news')] = native'
  BY <1>2, <1>3, ToldMeans
<1>5. GoalTypes' /\ NewsInv' /\ PauseInv'
  BY <1>1, <1>2, <1>4 DEF GoalInv, GoalTypes, NewsInv, PauseInv
<1>6. \A u \in Tasks : TaskInv(u)'
  BY <1>1, <1>4 DEF GoalInv, TaskInv
<1> QED  BY <1>5, <1>6 DEF GoalInv

-----------------------------------------------------------------------------
(* What was read or told is shown, and nobody who reads may store what is older. *)

LEMMA StaleMeans ==
  ASSUME GoalInv
  PROVE  /\ Stale(task) \in TaskTable
         /\ \A u \in Tasks : /\ Stale(task)[u].op = task[u].op /\ Stale(task)[u].at = task[u].at
                             /\ Stale(task)[u].objective = task[u].objective
                             /\ Stale(task)[u].value = task[u].value /\ ~Stale(task)[u].fresh
<1>1. ASSUME NEW u \in Tasks
      PROVE  /\ [task[u] EXCEPT !.fresh = FALSE] \in TaskRecord /\ Stale(task)[u].op = task[u].op
             /\ Stale(task)[u].at = task[u].at /\ Stale(task)[u].objective = task[u].objective
             /\ Stale(task)[u].value = task[u].value /\ ~Stale(task)[u].fresh
  <2>1. task[u] \in TaskRecord
    BY TaskMeans
  <2>2. Stale(task)[u] = [task[u] EXCEPT !.fresh = FALSE]
    BY DEF Stale
  <2> QED  BY <2>1, <2>2 DEF TaskRecord
<1>2. Stale(task) = [u \in Tasks |-> [task[u] EXCEPT !.fresh = FALSE]]
  BY DEF Stale
<1> QED  BY <1>1, <1>2 DEF TaskTable

LEMMA StoredMeans ==
  ASSUME GoalInv, NEW t \in Tasks, task[t].value \notin {NoGoal, Unread}
  PROVE  /\ Stored(t) \in GoalRecord
         /\ news = <<>> => Stored(t) = native
         /\ paused => Stored(t).state # "active"
<1>1. TaskInv(t) /\ task[t].value \in GoalRecord
  BY TaskMeans DEF GoalValues
<1> QED  BY <1>1 DEF Stored, TaskInv, GoalInv, GoalTypes, NewsInv, PauseInv

LEMMA StoreKeeps ==
  ASSUME GoalInv, NEW t \in Tasks, task[t].at \in Loading, task[t].value \notin {NoGoal, Unread},
         NEW r \in TaskRecord, ~r.fresh, task' = [Stale(task) EXCEPT ![t] = r],
         shown' = Stored(t), UNCHANGED <<native, news, ready, status>>,
         gate' \in Tasks \cup {"free"}, turn' \in TurnType, resume' \in Nat, paused' \in BOOLEAN,
         r.at \in Inside => gate' = t, r.at = "idle" => r.op = "none", r.at # "idle" => OpsOf(t, r.op),
         r.at \in Inside => r.op = "restore" /\ r.objective # 0,
         r.at \notin {"finishing", "confirming"}, paused' => resume' = 0, paused' => r.at \notin Inside,
         paused' => paused \/ (t = "user" /\ native.state # "active" /\ news = <<>>),
         paused' /\ t = "user" => r.op \in {"none", "pause", "interrupt"}
  PROVE  GoalInv'
<1>0. gate = t
  <2>1. task[t].at \in Inside
    BY DEF Inside
  <2> QED  BY <2>1, InsideMeans
<1>1. task' \in TaskTable /\ task'[t] = r /\ (\A u \in Tasks : u # t => task'[u] = Stale(task)[u])
  BY StaleMeans DEF TaskTable
<1>2. \A u \in Tasks : u # t => Rests(u)
  BY <1>0, <1>1, StaleMeans, OutsideMeans DEF Rests
<1>3. GoalTypes' /\ NewsInv'
  BY <1>1, StoredMeans DEF GoalInv, GoalTypes, NewsInv
<1>4. TaskInv(t)'
  BY <1>1 DEF TaskInv
<1>5. \A u \in Tasks : TaskInv(u)'
  BY <1>2, <1>4, RestsKeeps
<1>6. ASSUME paused' PROVE PauseInv'
  <2>1. paused \/ (t = "user" /\ native.state # "active" /\ news = <<>>)
    BY <1>6
  <2>2. native.state # "active" /\ Stored(t).state # "active" /\ \A n \in DOMAIN news : news[n].state # "active"
    <3>1. CASE paused
      BY <3>1, StoredMeans DEF GoalInv, PauseInv
    <3>2. CASE t = "user" /\ native.state # "active" /\ news = <<>>
      BY <3>2, StoredMeans
    <3> QED  BY <2>1, <3>1, <3>2
  <2>3. task'["user"].op \in {"none", "pause", "interrupt"}
    <3>1. CASE t = "user"
      BY <1>1, <1>6, <3>1
    <3>2. CASE t # "user"
      <4>1. paused /\ PauseInv /\ task'["user"].op = task["user"].op
        BY <1>2, <2>1, <3>2 DEF GoalInv, Rests, Tasks
      <4> QED  BY <4>1 DEF PauseInv
    <3> QED  BY <3>1, <3>2
  <2>4. \A u \in Tasks : /\ task'[u].fresh => task'[u].value.state # "active"
                         /\ task'[u].at \in Inside => task'[u].op # "restore"
    BY <1>1, <1>2, <1>6 DEF Rests
  <2> QED  BY <1>6, <2>2, <2>3, <2>4 DEF PauseInv
<1> QED  BY <1>3, <1>5, <1>6 DEF GoalInv, PauseInv

LEMMA HasReadMeans ==
  ASSUME GoalInv, NEW t \in Tasks, NEW at, at \in Loading, HasRead(t, at)
  PROVE  /\ task[t].at = at /\ task[t].at \in Loading /\ task[t].value \notin {NoGoal, Unread} /\ gate = t
         /\ task[t] \in TaskRecord /\ OpsOf(t, task[t].op) /\ TaskInv(t) /\ turn \in TurnType /\ resume \in Nat
         /\ paused \in BOOLEAN
         /\ paused => resume = 0 /\ task[t].op # "restore" /\ (t = "user" => task[t].op \in {"pause", "interrupt"})
<1>1. task[t].at = at /\ task[t].at \in Loading /\ task[t].at \in Inside /\ task[t].value \notin {NoGoal, Unread}
  BY DEF HasRead, Inside, Unread
<1> QED  BY <1>1, InsideMeans DEF GoalInv, GoalTypes

LEMMA OrderDoneKeeps == ASSUME GoalInv, NEW t \in Tasks, OrderDone(t) PROVE GoalInv'
<1>1. /\ task[t].at \in Loading /\ task[t].value \notin {NoGoal, Unread} /\ gate = t /\ task[t].op # "restore"
      /\ OpsOf(t, task[t].op) /\ TaskInv(t) /\ turn \in TurnType /\ resume \in Nat /\ paused \in BOOLEAN
      /\ paused => resume = 0
  BY HasReadMeans DEF OrderDone, Loading
<1>2. /\ shown' = Stored(t) /\ gate' = "free" /\ task' = [Stale(task) EXCEPT ![t] = Idle]
      /\ resume' = IF task[t].op \in {"resume", "set"} THEN 0 ELSE resume
      /\ UNCHANGED <<native, news, ready, status>>
  BY DEF OrderDone
<1>3. turn' \in TurnType /\ resume' \in Nat
  <2>1. [turn EXCEPT !.episode = TRUE] \in TurnType
    BY <1>1 DEF TurnType
  <2>2. turn' \in {turn, [turn EXCEPT !.episode = TRUE]}
    BY DEF OrderDone
  <2> QED  BY <1>1, <1>2, <2>1, <2>2
<1>4. /\ paused' \in BOOLEAN
      /\ paused' => paused \/ (t = "user" /\ native.state # "active" /\ news = <<>>)
      /\ paused' => resume' = 0
  <2>1. CASE task[t].op \in {"pause", "interrupt"}
    <3>1. paused' = (native.state # "active" /\ news = <<>>)
      BY <2>1 DEF OrderDone
    <3>2. t = "user"
      BY <1>1, <2>1 DEF OpsOf, Tasks
    <3>3. resume = 0
      BY <1>1, <2>1 DEF TaskInv, Inside
    <3> QED  BY <1>2, <3>1, <3>2, <3>3
  <2>2. CASE task[t].op \notin {"pause", "interrupt"}
    <3>1. paused' = paused
      BY <2>2 DEF OrderDone
    <3> QED  BY <1>1, <1>2, <3>1
  <2> QED  BY <2>1, <2>2
<1> QED  BY <1>1, <1>2, <1>3, <1>4, IdleMeans, StoreKeeps

LEMMA RestoreLooksKeeps == ASSUME GoalInv, NEW t \in Tasks, RestoreLooks(t) PROVE GoalInv'
<1> DEFINE r == [task[t] EXCEPT !.at = "asking", !.value = NoGoal, !.fresh = FALSE]
<1>1. /\ task[t].at = "loading" /\ task[t].at \in Loading /\ task[t].value \notin {NoGoal, Unread} /\ gate = t
      /\ task[t] \in TaskRecord /\ task[t].op = "restore"
      /\ OpsOf(t, task[t].op) /\ TaskInv(t) /\ turn \in TurnType /\ resume \in Nat /\ paused \in BOOLEAN
      /\ ~paused
  BY HasReadMeans DEF RestoreLooks, Loading
<1>2. shown' = Stored(t) /\ UNCHANGED <<native, news, ready, status, turn, paused>>
  BY DEF RestoreLooks
<1>3. CASE task' = [Stale(task) EXCEPT ![t] = Idle] /\ gate' = "free"
           /\ resume' = IF StillWanted(t) THEN 0 ELSE resume
  <2>1. resume' \in Nat
    BY <1>1, <1>3
  <2> QED  BY <1>1, <1>2, <1>3, <2>1, IdleMeans, StoreKeeps
<1>4. CASE task' = [Stale(task) EXCEPT ![t] = [@ EXCEPT !.at = "asking", !.value = NoGoal, !.fresh = FALSE]]
           /\ UNCHANGED <<resume, gate>>
  <2>1. r \in TaskRecord /\ r.at = "asking" /\ ~r.fresh /\ r.op = "restore" /\ r.objective = task[t].objective
    BY <1>1 DEF TaskRecord, TaskSteps, Inside, GoalValues
  <2>2. [Stale(task)[t] EXCEPT !.at = "asking", !.value = NoGoal, !.fresh = FALSE] = r
    <3>1. Stale(task)[t] = [task[t] EXCEPT !.fresh = FALSE]
      BY DEF Stale
    <3> QED  BY <1>1, <3>1 DEF TaskRecord
  <2>3. task' = [Stale(task) EXCEPT ![t] = r]
    BY <1>4, <2>2
  <2> HIDE DEF r
  <2>4. task[t].objective # 0
    BY <1>1 DEF TaskInv, Inside
  <2> QED  BY <1>1, <1>2, <1>4, <2>1, <2>3, <2>4, StoreKeeps
<1> QED  BY <1>3, <1>4 DEF RestoreLooks

LEMMA RestoreDoneKeeps == ASSUME GoalInv, NEW t \in Tasks, RestoreDone(t) PROVE GoalInv'
<1>1. /\ task[t].at \in Loading /\ task[t].value \notin {NoGoal, Unread} /\ gate = t
      /\ TaskInv(t) /\ turn \in TurnType /\ resume \in Nat /\ paused \in BOOLEAN
      /\ paused => resume = 0
  BY HasReadMeans DEF RestoreDone, Loading
<1>2. /\ shown' = Stored(t) /\ gate' = "free" /\ task' = [Stale(task) EXCEPT ![t] = Idle]
      /\ UNCHANGED <<native, news, ready, status, turn, paused>> /\ resume' \in {0, resume}
  BY DEF RestoreDone
<1>3. resume' \in Nat /\ (paused => resume' = 0)
  BY <1>1, <1>2
<1> QED  BY <1>1, <1>2, <1>3, IdleMeans, StoreKeeps

LEMMA PumpReadsKeeps == ASSUME GoalInv, PumpReads PROVE GoalInv'
<1>1. /\ news # <<>> /\ shown' = Head(news) /\ news' = Tail(news) /\ task' = Stale(task)
      /\ UNCHANGED <<native, resume, gate, ready, status, turn, paused>>
  BY DEF PumpReads
<1>2. news \in Seq(GoalRecord) /\ native \in GoalRecord /\ news[Len(news)] = native
  BY <1>1 DEF GoalInv, GoalTypes, GoalNews, NewsInv
<1>3. /\ Head(news) \in GoalRecord /\ Head(news) = news[1] /\ Tail(news) \in Seq(GoalRecord)
      /\ Len(news) \in Nat \ {0} /\ DOMAIN news = 1 .. Len(news) /\ DOMAIN Tail(news) = 1 .. (Len(news) - 1)
      /\ \A n \in 1 .. (Len(news) - 1) : Tail(news)[n] = news[n + 1]
  BY <1>1, <1>2, TailMeans
<1>4. Len(Tail(news)) = Len(news) - 1
  BY <1>1, <1>2, HeadTailProperties
<1>5. GoalTypes'
  BY <1>1, <1>3, StaleMeans DEF GoalInv, GoalTypes, GoalNews
<1>6. NewsInv'
  <2>1. CASE Len(news) = 1
    <3>1. news' = <<>>
      BY <1>1, <1>3, <1>4, <2>1, EmptySeq
    <3> QED  BY <1>1, <1>2, <1>3, <2>1, <3>1 DEF NewsInv
  <2>2. CASE Len(news) # 1
    <3>1. Len(news') \in 1 .. (Len(news) - 1) /\ Len(news') + 1 = Len(news)
      BY <1>1, <1>3, <1>4, <2>2
    <3>2. news'[Len(news')] = news[Len(news)]
      BY <1>1, <1>3, <3>1
    <3>3. news' # <<>>
      BY <3>1
    <3> QED  BY <1>1, <1>2, <3>2, <3>3 DEF NewsInv
  <2> QED  BY <2>1, <2>2
<1>7. ASSUME NEW u \in Tasks PROVE TaskInv(u)'
  <2>1. TaskInv(u) /\ task'[u].op = task[u].op /\ task'[u].at = task[u].at /\ task'[u].objective = task[u].objective
        /\ ~task'[u].fresh
    BY <1>1, StaleMeans, TaskMeans
  <2> QED  BY <1>1, <2>1 DEF TaskInv
<1>8. ASSUME paused' PROVE PauseInv'
  <2>1. PauseInv /\ paused
    BY <1>1, <1>8 DEF GoalInv
  <2>2. \A n \in DOMAIN news' : news'[n].state # "active"
    <3>1. \A n \in 1 .. (Len(news) - 1) : n + 1 \in 1 .. Len(news)
      BY <1>3
    <3> QED  BY <1>1, <1>3, <2>1, <3>1 DEF PauseInv
  <2>3. shown'.state # "active"
    <3>1. 1 \in DOMAIN news
      BY <1>3
    <3> QED  BY <1>1, <1>3, <2>1, <3>1 DEF PauseInv
  <2>4. /\ task'["user"].op \in {"none", "pause", "interrupt"}
        /\ \A u \in Tasks : /\ task'[u].fresh => task'[u].value.state # "active"
                            /\ task'[u].at \in Inside => task'[u].op # "restore"
    BY <1>1, <2>1, StaleMeans DEF PauseInv, Tasks
  <2> QED  BY <1>1, <2>1, <2>2, <2>3, <2>4 DEF PauseInv
<1> QED  BY <1>5, <1>6, <1>7, <1>8 DEF GoalInv, PauseInv

\* goals.rs load_goal, route.rs request: once every notification is read, what a session shows is the
\* goal that Codex has, however reads, changes and notifications overlap; and a goal that the user has
\* paused, and whose pause was heard, is not activated by an outage that ends nor by a turn that does.
THEOREM GoalIsAlwaysKept == GoalsSpec => []GoalIsKept
<1>1. GoalInv /\ [GoalsNext]_goalVars => GoalInv'
  <2>1. ASSUME GoalInv, UNCHANGED goalVars PROVE GoalInv'
    <3>1. UNCHANGED <<native, news, shown, resume, gate, task, ready, status, turn, paused>>
      BY <2>1 DEF goalVars
    <3>2. ready \in BOOLEAN /\ status \in BOOLEAN /\ turn \in TurnType /\ paused \in BOOLEAN
      BY <2>1 DEF GoalInv, GoalTypes
    <3> QED  BY <2>1, <3>1, <3>2, QuietKeeps
  <2>2. ASSUME GoalInv, NEW t \in Tasks, TaskStep(t) \/ AnswerIsLost(t) PROVE GoalInv'
    BY <2>2, EnterOrderKeeps, EnterPauseKeeps, EnterRestoreKeeps, RefusedKeeps, AskEngineKeeps, AnswerKeeps,
       LoadBeginsKeeps, EngineReadsKeeps, OrderDoneKeeps, RestoreLooksKeeps, RestoreDoneKeeps, AnswerIsLostKeeps
       DEF TaskStep
  <2> QED  BY <2>1, <2>2, UserOrdersKeeps, UserInterruptsKeeps, ConnectionKeeps, StatusKeeps, TurnKeeps,
              EngineCompletesKeeps, PumpReadsKeeps DEF GoalsNext
<1> QED  BY <1>1, GoalsInitially, GoalImplies, PTL DEF GoalsSpec

-----------------------------------------------------------------------------
(* ServerConnection: what a peer does, and whose a connection is. *)

FreshSteps == {"dial", "prepare", "start", "attach"}
SyncSteps == {"resolve", "configure", "acknowledge"}
AgainSteps == {"reconnect", "redial", "hello", "restart", "again"}
PeerSteps == {"idle", "slot", "ready"} \cup FreshSteps \cup SyncSteps \cup AgainSteps
LinkIds == Links \cup {0}
Identities == Installed \cup {0}
AccessRecord == [revision : Nat, applied : Nat, identity : Identities]
PeerRecord == [at : PeerSteps, link : LinkIds, known : Identities, rev : Nat, sync : BOOLEAN]
PeerTable == [Peers -> PeerRecord]
SlotRecord == [holder : Users \cup {Nobody}, link : LinkIds]
RemoteRecord == [identity : Identities, alive : BOOLEAN]
RemoteTable == [Links -> RemoteRecord]
StoredTable == [Installed -> Nat]

ConnectionTypes ==
  /\ access \in AccessRecord /\ stored \in StoredTable /\ slot \in SlotRecord
  /\ service.identity \in 1 .. (broken + 1) /\ broken \in 0 .. MaxBroken
  /\ remote \in RemoteTable /\ doing \in PeerTable

\* A user that opens a connection, or brings the configuration up to date over one, has the mutex.
Taking(c) == doing[c].at \in FreshSteps \cup SyncSteps \/ (doing[c].at \in AgainSteps /\ doing[c].sync)

PeerInv(c) ==
  /\ doing[c].at \in {"idle", "slot", "dial"} <=> doing[c].link = 0
  /\ c \in Callers => doing[c].at \in {"idle", "dial", "attach"} \cup SyncSteps
  /\ c \in Users /\ Taking(c) => slot.holder = c /\ slot.link \in {0, doing[c].link}
  /\ c \in Users /\ doing[c].at \in FreshSteps => slot.link = 0
  /\ c \in Users /\ doing[c].at \in AgainSteps \cup {"ready"} => slot.link = doing[c].link
  /\ doing[c].at \in SyncSteps => remote[doing[c].link].identity \in Installed
  /\ doing[c].at = "acknowledge" => doing[c].rev <= stored[remote[doing[c].link].identity]

\* A caller shares its connection with nobody, and the slot refers to one that a user holds and that
\* belongs to the installation of the row.
LinkInv ==
  /\ \A c \in Callers : \A d \in Peers : c # d /\ doing[c].link # 0 => doing[c].link # doing[d].link
  /\ slot.link # 0 => \E u \in Users : doing[u].link = slot.link
  /\ slot.link # 0 => access.identity # 0 /\ remote[slot.link].identity = access.identity

RowInv == (access.identity = 0 => access.applied = 0) /\ AppliedIsHeld

ConnectionInv == ConnectionTypes /\ (\A c \in Peers : PeerInv(c)) /\ LinkInv /\ RowInv

LEMMA NoLink == 0 \notin Links /\ 0 \notin Installed /\ 1 \in Installed /\ Nobody \notin Users
BY ConnectionAssumption DEF Links, Installed, Nobody

LEMMA ConnectionInitially == ConnectionInit => ConnectionInv
<1> SUFFICES ASSUME ConnectionInit PROVE ConnectionInv
  OBVIOUS
<1>1. Resting \in PeerRecord /\ Dead \in RemoteRecord
  BY DEF Resting, Dead, PeerRecord, RemoteRecord, PeerSteps, LinkIds, Identities
<1>2. service.identity \in 1 .. (broken + 1) /\ broken \in 0 .. MaxBroken
  BY ConnectionAssumption DEF ConnectionInit
<1>3. access \in AccessRecord /\ stored \in StoredTable /\ slot \in SlotRecord
  BY DEF ConnectionInit, AccessRecord, StoredTable, SlotRecord, Identities, LinkIds
<1>4. ConnectionTypes
  BY <1>1, <1>2, <1>3 DEF ConnectionInit, ConnectionTypes, RemoteTable, PeerTable
<1>5. ASSUME NEW c \in Peers PROVE PeerInv(c) /\ doing[c].link = 0
  BY DEF ConnectionInit, Resting, PeerInv, Taking, FreshSteps, SyncSteps, AgainSteps
<1>6. LinkInv /\ RowInv
  BY <1>5 DEF ConnectionInit, LinkInv, RowInv, AppliedIsHeld, Peers
<1> QED  BY <1>4, <1>5, <1>6 DEF ConnectionInv

LEMMA PeerMeans ==
  ASSUME ConnectionInv, NEW c \in Peers
  PROVE  /\ doing[c] \in PeerRecord /\ PeerInv(c)
         /\ doing[c].at \in PeerSteps /\ doing[c].link \in LinkIds /\ doing[c].known \in Identities
         /\ doing[c].rev \in Nat /\ doing[c].sync \in BOOLEAN
<1>1. doing[c] \in PeerRecord /\ PeerInv(c)
  BY DEF ConnectionInv, ConnectionTypes, PeerTable
<1> QED  BY <1>1 DEF PeerRecord

LEMMA UsesMeans ==
  ASSUME ConnectionInv, NEW u \in Users, Uses(u)
  PROVE  slot.link = doing[u].link /\ doing[u].link # 0 /\ doing[u].at \in AgainSteps \cup {"ready"}
<1>1. PeerInv(u) /\ u \in Peers
  BY PeerMeans DEF Peers
<1>2. doing[u].at \in AgainSteps \cup {"ready"}
  BY DEF Uses, Stands, Keeps, Recovering, AgainSteps
<1> QED  BY <1>1, <1>2 DEF PeerInv, AgainSteps

LEMMA ConnectionImplies == ConnectionInv => ConnectionsAgree
<1> SUFFICES ASSUME ConnectionInv PROVE ConnectionsAgree
  OBVIOUS
<1>1. AppliedIsHeld
  BY DEF ConnectionInv, RowInv
<1>2. ConnectionIsKnown
  BY UsesMeans DEF ConnectionInv, LinkInv, ConnectionIsKnown, Mine
<1>3. SharesOne
  BY UsesMeans DEF SharesOne
<1> QED  BY <1>1, <1>2, <1>3 DEF ConnectionsAgree

LEMMA PeerBecomes ==
  ASSUME ConnectionInv, NEW c \in Peers, NEW p \in PeerRecord, doing' = [doing EXCEPT ![c] = p]
  PROVE  doing' \in PeerTable /\ doing'[c] = p /\ \A d \in Peers : d # c => doing'[d] = doing[d]
BY DEF ConnectionInv, ConnectionTypes, PeerTable

\* Masters start and die; whom a connection belongs to stays.
SameOwners == remote' \in RemoteTable /\ \A l \in Links : remote'[l].identity = remote[l].identity

LEMMA OwnerMeans ==
  ASSUME ConnectionInv, SameOwners, NEW c \in Peers, doing[c].link # 0
  PROVE  remote'[doing[c].link].identity = remote[doing[c].link].identity
BY PeerMeans DEF SameOwners, LinkIds

\* One peer moves and keeps its connection; the slot, the row and what is stored stay.
LEMMA PeerKeeps ==
  ASSUME ConnectionInv, NEW c \in Peers, NEW p \in PeerRecord, doing' = [doing EXCEPT ![c] = p],
         p.link = doing[c].link, UNCHANGED <<slot, stored, broken>>, SameOwners,
         access' \in AccessRecord, access'.identity = access.identity, access'.applied = access.applied,
         service'.identity = service.identity, PeerInv(c)'
  PROVE  ConnectionInv'
<1>1. doing' \in PeerTable /\ doing'[c] = p /\ \A d \in Peers : d # c => doing'[d] = doing[d]
  BY PeerBecomes
<1>2. ConnectionTypes'
  BY <1>1 DEF ConnectionInv, ConnectionTypes, SameOwners
<1>3. \A d \in Peers : doing'[d].link = doing[d].link
  BY <1>1
<1>4. ASSUME NEW d \in Peers, d # c PROVE PeerInv(d)'
  <2>1. PeerInv(d) /\ doing'[d] = doing[d]
    BY <1>1, <1>4, PeerMeans
  <2>2. doing[d].link # 0 => remote'[doing[d].link].identity = remote[doing[d].link].identity
    BY OwnerMeans
  <2>3. doing[d].at \in SyncSteps => doing[d].link # 0
    BY <2>1 DEF PeerInv, SyncSteps
  <2>4. doing[d].at = "acknowledge" => doing[d].at \in SyncSteps
    BY DEF SyncSteps
  <2> QED  BY <2>1, <2>2, <2>3, <2>4 DEF PeerInv, Taking
<1>5. LinkInv'
  <2>1. \A e \in Callers : \A d \in Peers : e # d /\ doing'[e].link # 0 => doing'[e].link # doing'[d].link
    BY <1>3 DEF ConnectionInv, LinkInv, Peers
  <2>2. slot.link # 0 => \E u \in Users : doing'[u].link = slot.link
    BY <1>3 DEF ConnectionInv, LinkInv, Peers
  <2>3. slot.link # 0 => remote'[slot.link].identity = remote[slot.link].identity
    <3>1. slot.link \in LinkIds
      BY DEF ConnectionInv, ConnectionTypes, SlotRecord
    <3> QED  BY <3>1 DEF SameOwners, LinkIds
  <2> QED  BY <2>1, <2>2, <2>3 DEF ConnectionInv, LinkInv
<1>6. RowInv'
  BY DEF ConnectionInv, RowInv, AppliedIsHeld
<1> QED  BY <1>2, <1>4, <1>5, <1>6 DEF ConnectionInv

LEMMA PeerAt ==
  ASSUME NEW p \in PeerRecord, NEW step \in PeerSteps
  PROVE  /\ [p EXCEPT !.at = step] \in PeerRecord /\ [p EXCEPT !.at = step].at = step
         /\ [p EXCEPT !.at = step].link = p.link /\ [p EXCEPT !.at = step].known = p.known
         /\ [p EXCEPT !.at = step].rev = p.rev /\ [p EXCEPT !.at = step].sync = p.sync
BY DEF PeerRecord

\* The steps that a peer may take with the connection that it has.
MayGo(c, step) ==
  /\ step \in {"idle", "slot", "dial"} <=> doing[c].link = 0
  /\ c \in Callers => step \in {"idle", "dial", "attach"} \cup SyncSteps
  /\ c \in Users /\ (step \in FreshSteps \cup SyncSteps \/ (step \in AgainSteps /\ doing[c].sync)) => Taking(c)
  /\ c \in Users /\ step \in FreshSteps => slot.link = 0
  /\ c \in Users /\ step \in AgainSteps \cup {"ready"} => slot.link = doing[c].link
  /\ step \in SyncSteps => remote[doing[c].link].identity \in Installed
  /\ step # "acknowledge"

LEMMA StepKeeps ==
  ASSUME ConnectionInv, NEW c \in Peers, NEW step \in PeerSteps, MayGo(c, step), Advance(c, step),
         UNCHANGED <<slot, stored, broken, access>>, SameOwners, service'.identity = service.identity
  PROVE  ConnectionInv'
<1> DEFINE p == [doing[c] EXCEPT !.at = step]
<1>1. p \in PeerRecord /\ p.at = step /\ p.link = doing[c].link /\ p.rev = doing[c].rev /\ p.sync = doing[c].sync
  BY PeerMeans, PeerAt
<1>2. doing' = [doing EXCEPT ![c] = p]
  BY DEF Advance
<1> HIDE DEF p
<1>3. doing'[c] = p /\ PeerInv(c)
  BY <1>1, <1>2, PeerBecomes, PeerMeans
<1>4. PeerInv(c)'
  <2>1. doing[c].link # 0 => remote'[doing[c].link].identity = remote[doing[c].link].identity
    BY OwnerMeans
  <2>2. step \in SyncSteps => doing[c].link # 0
    BY DEF MayGo, SyncSteps
  <2> QED  BY <1>1, <1>3, <2>1, <2>2 DEF PeerInv, MayGo, Taking
<1>5. access \in AccessRecord
  BY DEF ConnectionInv, ConnectionTypes
<1> QED  BY <1>1, <1>2, <1>4, <1>5, PeerKeeps

LEMMA SameMasters == ASSUME ConnectionInv, UNCHANGED remote PROVE SameOwners
BY DEF ConnectionInv, ConnectionTypes, SameOwners

LEMMA UserIsPeer == \A u \in Users : u \in Peers /\ u \notin Callers
BY ConnectionAssumption DEF Peers

LEMMA ConnectKeeps == ASSUME ConnectionInv, NEW u \in Users, Connect(u) PROVE ConnectionInv'
<1>1. u \in Peers /\ u \notin Callers /\ PeerInv(u) /\ doing[u].at = "idle" /\ "slot" \in PeerSteps
  BY UserIsPeer, PeerMeans DEF Connect, Stands, PeerSteps
<1>2. MayGo(u, "slot")
  BY <1>1 DEF MayGo, PeerInv, FreshSteps, SyncSteps, AgainSteps
<1> QED  BY <1>1, <1>2, SameMasters, StepKeeps DEF Connect

LEMMA LockReconnectKeeps == ASSUME ConnectionInv, NEW u \in Users, LockReconnect(u) PROVE ConnectionInv'
<1>1. u \in Peers /\ u \notin Callers /\ PeerInv(u) /\ doing[u].at = "reconnect" /\ "redial" \in PeerSteps
  BY UserIsPeer, PeerMeans DEF LockReconnect, Stands, PeerSteps, AgainSteps
<1>2. MayGo(u, "redial")
  BY <1>1 DEF MayGo, PeerInv, Taking, FreshSteps, SyncSteps, AgainSteps
<1> QED  BY <1>1, <1>2, SameMasters, StepKeeps DEF LockReconnect

LEMMA RedialKeeps == ASSUME ConnectionInv, NEW u \in Users, Redial(u) PROVE ConnectionInv'
<1>1. u \in Peers /\ u \notin Callers /\ PeerInv(u) /\ doing[u].at = "redial" /\ "hello" \in PeerSteps
  BY UserIsPeer, PeerMeans DEF Redial, Stands, PeerSteps, AgainSteps
<1>2. MayGo(u, "hello")
  BY <1>1 DEF MayGo, PeerInv, Taking, FreshSteps, SyncSteps, AgainSteps
<1>3. SameOwners
  <2>1. remote' = [remote EXCEPT ![doing[u].link].alive = TRUE] /\ remote \in RemoteTable
    BY DEF Redial, ConnectionInv, ConnectionTypes
  <2> QED  BY <2>1 DEF SameOwners, RemoteTable, RemoteRecord
<1> QED  BY <1>1, <1>2, <1>3, StepKeeps DEF Redial

LEMMA HelloKeeps == ASSUME ConnectionInv, NEW u \in Users, Hello(u) PROVE ConnectionInv'
<1>1. u \in Peers /\ u \notin Callers /\ PeerInv(u) /\ doing[u].at \in {"hello", "again"}
      /\ {"resolve", "ready", "restart"} \subseteq PeerSteps /\ doing[u].sync \in BOOLEAN
  BY UserIsPeer, PeerMeans DEF Hello, Stands, PeerSteps, AgainSteps, SyncSteps
<1>2. slot.link = doing[u].link /\ doing[u].link # 0
  BY <1>1 DEF PeerInv, AgainSteps
<1>3. CASE Advance(u, "restart")
  <2>1. MayGo(u, "restart")
    BY <1>1, <1>2 DEF MayGo, PeerInv, Taking, FreshSteps, SyncSteps, AgainSteps
  <2> QED  BY <1>1, <1>3, <2>1, SameMasters, StepKeeps DEF Hello
<1>4. CASE Advance(u, "ready")
  <2>1. MayGo(u, "ready")
    BY <1>1, <1>2 DEF MayGo, PeerInv, Taking, FreshSteps, SyncSteps, AgainSteps
  <2> QED  BY <1>1, <1>4, <2>1, SameMasters, StepKeeps DEF Hello
<1>5. CASE doing[u].sync /\ Advance(u, "resolve")
  <2>1. remote[slot.link].identity \in Installed
    BY <1>2 DEF ConnectionInv, LinkInv, ConnectionTypes, AccessRecord, Identities
  <2>2. MayGo(u, "resolve")
    BY <1>1, <1>2, <1>5, <2>1 DEF MayGo, PeerInv, Taking, FreshSteps, SyncSteps, AgainSteps
  <2> QED  BY <1>1, <1>5, <2>2, SameMasters, StepKeeps DEF Hello
<1> QED  BY <1>1, <1>3, <1>4, <1>5 DEF Hello

LEMMA StartsKeeps ==
  ASSUME ConnectionInv, NEW u \in Users, Start(u) \/ Restart(u)
  PROVE  ConnectionInv'
<1>0. PICK from \in {"start", "restart"} : Starts(u, from, IF from = "start" THEN "attach" ELSE "again")
  BY DEF Start, Restart
<1> DEFINE to == IF from = "start" THEN "attach" ELSE "again"
<1>1. u \in Peers /\ u \notin Callers /\ PeerInv(u) /\ doing[u].at = from /\ to \in PeerSteps /\ Advance(u, to)
      /\ UNCHANGED <<access, stored, slot, remote, broken>>
  BY <1>0, UserIsPeer, PeerMeans DEF Starts, Stands, PeerSteps, AgainSteps, FreshSteps
<1>2. MayGo(u, to)
  BY <1>1 DEF MayGo, PeerInv, Taking, FreshSteps, SyncSteps, AgainSteps
<1>3. service'.identity = service.identity
  <2>1. service' = [service EXCEPT !.up = TRUE]
    BY <1>0 DEF Starts
  <2> QED  BY <2>1
<1> HIDE DEF to
<1> QED  BY <1>1, <1>2, <1>3, SameMasters, StepKeeps

LEMMA AskAgainKeeps == ASSUME ConnectionInv, NEW u \in Users, AskAgain(u) PROVE ConnectionInv'
<1> DEFINE p == [doing[u] EXCEPT !.at = "reconnect", !.sync = FALSE]
<1>1. u \in Peers /\ u \notin Callers /\ PeerInv(u) /\ doing[u].at = "ready" /\ doing[u] \in PeerRecord
  BY UserIsPeer, PeerMeans DEF AskAgain, Stands
<1>2. p \in PeerRecord /\ p.at = "reconnect" /\ p.link = doing[u].link /\ ~p.sync
  BY <1>1 DEF PeerRecord, PeerSteps, AgainSteps
<1>3. doing' = [doing EXCEPT ![u] = p] /\ UNCHANGED <<access, stored, service, slot, remote, broken>>
  BY DEF AskAgain
<1> HIDE DEF p
<1>4. doing'[u] = p /\ access \in AccessRecord
  BY <1>1, <1>2, <1>3, PeerBecomes DEF ConnectionInv, ConnectionTypes
<1>5. PeerInv(u)'
  BY <1>1, <1>2, <1>3, <1>4 DEF PeerInv, Taking, FreshSteps, SyncSteps, AgainSteps
<1> QED  BY <1>1, <1>2, <1>3, <1>4, <1>5, SameMasters, PeerKeeps

LEMMA PrepareServerKeeps == ASSUME ConnectionInv, NEW u \in Users, PrepareServer(u) PROVE ConnectionInv'
<1> DEFINE p == [doing[u] EXCEPT !.at = "start", !.known = access.identity]
<1>1. u \in Peers /\ u \notin Callers /\ PeerInv(u) /\ doing[u].at = "prepare" /\ doing[u] \in PeerRecord
  BY UserIsPeer, PeerMeans DEF PrepareServer, Stands
<1>2. access \in AccessRecord
  BY DEF ConnectionInv, ConnectionTypes
<1>3. p \in PeerRecord /\ p.at = "start" /\ p.link = doing[u].link /\ p.sync = doing[u].sync
  BY <1>1, <1>2 DEF PeerRecord, PeerSteps, FreshSteps, AccessRecord
<1>4. doing' = [doing EXCEPT ![u] = p] /\ UNCHANGED <<access, stored, service, slot, remote, broken>>
  BY DEF PrepareServer
<1> HIDE DEF p
<1>5. doing'[u] = p
  BY <1>1, <1>3, <1>4, PeerBecomes
<1>6. PeerInv(u)'
  BY <1>1, <1>3, <1>4, <1>5 DEF PeerInv, Taking, FreshSteps, SyncSteps, AgainSteps
<1> QED  BY <1>1, <1>2, <1>3, <1>4, <1>6, SameMasters, PeerKeeps

LEMMA CallKeeps == ASSUME ConnectionInv, NEW c \in Callers, Call(c) \/ SetConfig(c) PROVE ConnectionInv'
<1> DEFINE p == [Resting EXCEPT !.at = "dial", !.known = access.identity]
<1>1. c \in Peers /\ c \notin Users /\ PeerInv(c) /\ doing[c].at = "idle"
  BY ConnectionAssumption, PeerMeans DEF Call, SetConfig, Stands, Peers
<1>2. access \in AccessRecord
  BY DEF ConnectionInv, ConnectionTypes
<1>3. p \in PeerRecord /\ p.at = "dial" /\ p.link = 0
  BY <1>2 DEF PeerRecord, PeerSteps, FreshSteps, AccessRecord, Resting, LinkIds
<1>4. doing' = [doing EXCEPT ![c] = p] /\ UNCHANGED <<stored, service, slot, remote, broken>>
  BY DEF Call, SetConfig
<1>5. access' \in AccessRecord /\ access'.identity = access.identity /\ access'.applied = access.applied
  <2>1. CASE access' = access
    BY <1>2, <2>1
  <2>2. CASE access' = [access EXCEPT !.revision = @ + 1]
    BY <1>2, <2>2 DEF AccessRecord
  <2> QED  BY <2>1, <2>2 DEF Call, SetConfig
<1> HIDE DEF p
<1>6. doing'[c] = p
  BY <1>1, <1>3, <1>4, PeerBecomes
<1>7. PeerInv(c)'
  BY <1>1, <1>3, <1>6 DEF PeerInv, Taking, FreshSteps, SyncSteps, AgainSteps
<1>8. p.link = doing[c].link
  BY <1>1, <1>3 DEF PeerInv
<1> QED  BY <1>1, <1>3, <1>4, <1>5, <1>7, <1>8, SameMasters, PeerKeeps

LEMMA ResolveKeeps == ASSUME ConnectionInv, NEW c \in Peers, Resolve(c) PROVE ConnectionInv'
<1> DEFINE p == [doing[c] EXCEPT !.at = "configure", !.rev = access.revision]
<1>1. PeerInv(c) /\ doing[c].at = "resolve" /\ doing[c] \in PeerRecord
  BY PeerMeans DEF Resolve, Stands
<1>2. access \in AccessRecord
  BY DEF ConnectionInv, ConnectionTypes
<1>3. p \in PeerRecord /\ p.at = "configure" /\ p.link = doing[c].link /\ p.sync = doing[c].sync
  BY <1>1, <1>2 DEF PeerRecord, PeerSteps, SyncSteps, AccessRecord
<1>4. doing' = [doing EXCEPT ![c] = p] /\ UNCHANGED <<access, stored, service, slot, remote, broken>>
  BY DEF Resolve
<1> HIDE DEF p
<1>5. doing'[c] = p
  BY <1>3, <1>4, PeerBecomes
<1>6. PeerInv(c)'
  BY <1>1, <1>3, <1>4, <1>5 DEF PeerInv, Taking, FreshSteps, SyncSteps, AgainSteps
<1> QED  BY <1>1, <1>2, <1>3, <1>4, <1>6, SameMasters, PeerKeeps

\* Who dials, or calls, is alone with its connection.
LEMMA CallersApart ==
  ASSUME ConnectionInv, NEW c \in Callers, doing[c].link # 0
  PROVE  doing[c].link # slot.link /\ \A d \in Peers : d # c => doing[d].link # doing[c].link
<1>1. \A d \in Peers : d # c => doing[d].link # doing[c].link
  BY DEF ConnectionInv, LinkInv
<1>2. slot.link # 0 => \E u \in Users : doing[u].link = slot.link
  BY DEF ConnectionInv, LinkInv
<1> QED  BY <1>1, <1>2, UserIsPeer

LEMMA LinkedUser ==
  ASSUME ConnectionInv, NEW u \in Users, doing[u].link # 0
  PROVE  Taking(u) \/ (slot.link = doing[u].link /\ doing[u].at \in AgainSteps \cup {"ready"})
<1>1. u \in Peers /\ PeerInv(u) /\ doing[u].at \in PeerSteps
  BY UserIsPeer, PeerMeans
<1> QED  BY <1>1 DEF PeerInv, Taking, PeerSteps, FreshSteps

LEMMA FreshIsAlone ==
  ASSUME ConnectionInv, NEW c \in Peers, c \in Callers \/ doing[c].at \in FreshSteps, doing[c].link # 0
  PROVE  doing[c].link # slot.link /\ \A d \in Peers : d # c => doing[d].link # doing[c].link
<1>1. CASE c \in Callers
  BY <1>1, CallersApart
<1>2. CASE c \in Users /\ doing[c].at \in FreshSteps
  <2>1. slot.link = 0 /\ slot.holder = c
    BY <1>2, PeerMeans DEF PeerInv, Taking
  <2>2. ASSUME NEW d \in Callers, doing[d].link # 0, d # c PROVE doing[d].link # doing[c].link
    BY <2>2, CallersApart
  <2>3. ASSUME NEW d \in Users, doing[d].link # 0, d # c PROVE FALSE
    <3>1. Taking(d)
      BY <2>1, <2>3, LinkedUser
    <3> QED  BY <2>1, <2>3, <3>1, UserIsPeer, PeerMeans DEF PeerInv
  <2> QED  BY <2>1, <2>2, <2>3 DEF Peers
<1> QED  BY <1>1, <1>2 DEF Peers

LEMMA TakeSlotKeeps == ASSUME ConnectionInv, NEW u \in Users, TakeSlot(u) PROVE ConnectionInv'
<1> DEFINE p == [Resting EXCEPT !.at = IF slot.link # 0 THEN "reconnect" ELSE "dial", !.link = slot.link, !.sync = TRUE]
<1>1. u \in Peers /\ u \notin Callers /\ PeerInv(u) /\ doing[u].at = "slot" /\ slot.holder = Nobody /\ slot \in SlotRecord
      /\ slot.link \in LinkIds
  BY UserIsPeer, PeerMeans DEF TakeSlot, Stands, ConnectionInv, ConnectionTypes, SlotRecord
<1>2. /\ p \in PeerRecord /\ p.link = slot.link /\ p.sync
      /\ p.at = IF slot.link # 0 THEN "reconnect" ELSE "dial"
  BY <1>1 DEF PeerRecord, PeerSteps, FreshSteps, AgainSteps, Resting, Identities
<1>3. doing' = [doing EXCEPT ![u] = p] /\ UNCHANGED <<access, stored, service, remote, broken>>
      /\ slot' = [slot EXCEPT !.holder = u]
  BY DEF TakeSlot, Chooses
<1> HIDE DEF p
<1>4. doing' \in PeerTable /\ doing'[u] = p /\ \A d \in Peers : d # u => doing'[d] = doing[d]
  BY <1>1, <1>2, <1>3, PeerBecomes
<1>5. slot' \in SlotRecord /\ slot'.holder = u /\ slot'.link = slot.link
  BY <1>1, <1>3 DEF SlotRecord
<1>6. ConnectionTypes'
  BY <1>3, <1>4, <1>5 DEF ConnectionInv, ConnectionTypes
<1>7. PeerInv(u)'
  BY <1>1, <1>2, <1>4, <1>5 DEF PeerInv, Taking, FreshSteps, SyncSteps, AgainSteps
<1>8. ASSUME NEW d \in Peers, d # u PROVE PeerInv(d)'
  <2>1. PeerInv(d) /\ doing'[d] = doing[d]
    BY <1>4, <1>8, PeerMeans
  <2>2. d \in Users => ~Taking(d)
    BY <1>1, <2>1, NoLink DEF PeerInv
  <2> QED  BY <1>3, <1>5, <2>1, <2>2 DEF PeerInv, Taking
<1>9. LinkInv'
  <2>1. ASSUME NEW e \in Callers, NEW d \in Peers, e # d, doing'[e].link # 0 PROVE doing'[e].link # doing'[d].link
    <3>1. doing'[e] = doing[e]
      BY <1>1, <1>4 DEF Peers
    <3> QED  BY <1>2, <1>4, <2>1, <3>1, CallersApart
  <2>2. slot'.link # 0 => \E v \in Users : doing'[v].link = slot'.link
    BY <1>2, <1>4, <1>5
  <2> QED  BY <1>3, <1>5, <2>1, <2>2 DEF ConnectionInv, LinkInv
<1>10. RowInv'
  BY <1>3 DEF ConnectionInv, RowInv, AppliedIsHeld
<1> QED  BY <1>6, <1>7, <1>8, <1>9, <1>10 DEF ConnectionInv

\* A connection that one peer is alone with changes, and with it where that peer is.
LEMMA AloneKeeps ==
  ASSUME ConnectionInv, NEW c \in Peers, NEW p \in PeerRecord, doing' = [doing EXCEPT ![c] = p],
         NEW l \in Links, NEW m \in RemoteRecord, remote' = [remote EXCEPT ![l] = m],
         UNCHANGED <<stored, service, slot, broken>>, p.link \in {0, l}, l # slot.link,
         \A d \in Peers : d # c => doing[d].link # l,
         c \in Users => p.link # 0, doing[c].link # 0 => l = doing[c].link,
         access' \in AccessRecord, slot.link # 0 => access'.identity = access.identity,
         RowInv', PeerInv(c)'
  PROVE  ConnectionInv'
<1>1. doing' \in PeerTable /\ doing'[c] = p /\ \A d \in Peers : d # c => doing'[d] = doing[d]
  BY PeerBecomes
<1>2. remote' \in RemoteTable /\ \A k \in Links : k # l => remote'[k] = remote[k]
  BY DEF ConnectionInv, ConnectionTypes, RemoteTable
<1>3. ConnectionTypes'
  BY <1>1, <1>2 DEF ConnectionInv, ConnectionTypes
<1>4. ASSUME NEW d \in Peers, d # c PROVE PeerInv(d)'
  <2>1. PeerInv(d) /\ doing'[d] = doing[d] /\ doing[d].link \in LinkIds
    BY <1>1, <1>4, PeerMeans
  <2>2. doing[d].link # 0 => remote'[doing[d].link] = remote[doing[d].link]
    BY <1>2, <1>4, <2>1 DEF LinkIds
  <2>3. doing[d].at \in SyncSteps => doing[d].link # 0
    BY <2>1 DEF PeerInv, SyncSteps
  <2>4. doing[d].at = "acknowledge" => doing[d].at \in SyncSteps
    BY DEF SyncSteps
  <2> QED  BY <2>1, <2>2, <2>3, <2>4 DEF PeerInv, Taking
<1>5. LinkInv'
  <2>1. ASSUME NEW e \in Callers, NEW d \in Peers, e # d, doing'[e].link # 0 PROVE doing'[e].link # doing'[d].link
    <3>1. CASE e = c
      BY <1>1, <2>1, <3>1
    <3>2. CASE e # c
      <4>1. doing'[e] = doing[e] /\ doing[e].link # l /\ e \in Peers
        BY <1>1, <3>2 DEF Peers
      <4> QED  BY <1>1, <2>1, <4>1, CallersApart
    <3> QED  BY <3>1, <3>2
  <2>2. slot.link # 0 => \E u \in Users : doing'[u].link = slot.link
    <3>1. ASSUME slot.link # 0 PROVE \E u \in Users : doing'[u].link = slot.link
      <4>1. PICK u \in Users : doing[u].link = slot.link
        BY <3>1 DEF ConnectionInv, LinkInv
      <4>2. u # c
        BY <3>1, <4>1
      <4> QED  BY <1>1, <4>1, <4>2 DEF Peers
    <3> QED  BY <3>1
  <2>3. slot.link # 0 => remote'[slot.link] = remote[slot.link]
    <3>1. slot.link \in LinkIds
      BY DEF ConnectionInv, ConnectionTypes, SlotRecord
    <3> QED  BY <1>2, <3>1 DEF LinkIds
  <2> QED  BY <2>1, <2>2, <2>3 DEF ConnectionInv, LinkInv
<1> QED  BY <1>3, <1>4, <1>5 DEF ConnectionInv

LEMMA DialKeeps == ASSUME ConnectionInv, NEW c \in Peers, Dial(c) PROVE ConnectionInv'
<1>1. PeerInv(c) /\ doing[c].at = "dial" /\ doing[c].link = 0 /\ doing[c] \in PeerRecord /\ (c \in Callers => c \notin Users)
  BY PeerMeans, UserIsPeer DEF Dial, Stands, PeerInv
<1>2. PICK l \in Links : /\ Holders(l) = {} /\ remote' = [remote EXCEPT ![l] = [identity |-> 0, alive |-> TRUE]]
                         /\ doing' = [doing EXCEPT ![c].at = IF c \in Users THEN "prepare" ELSE "attach", ![c].link = l]
  BY DEF Dial
<1> DEFINE to == IF c \in Users THEN "prepare" ELSE "attach"
           p == [doing[c] EXCEPT !.at = to, !.link = l]
           m == [identity |-> 0, alive |-> TRUE]
<1>3. p \in PeerRecord /\ p.at = to /\ p.link = l /\ p.sync = doing[c].sync /\ to \in {"prepare", "attach"}
  BY <1>1 DEF PeerRecord, PeerSteps, FreshSteps, LinkIds
<1>4. m \in RemoteRecord
  BY DEF RemoteRecord, Identities
<1>5. doing' = [doing EXCEPT ![c] = p] /\ remote' = [remote EXCEPT ![l] = m]
  BY <1>2
<1> HIDE DEF p, m
<1>6. doing'[c] = p /\ l # 0 /\ UNCHANGED <<access, stored, service, slot, broken>>
  BY <1>3, <1>5, PeerBecomes, NoLink DEF Dial
<1>7. \A d \in Peers : doing[d].link # l
  BY <1>2 DEF Holders
<1>8. slot.link # l
  BY <1>6, <1>7, UserIsPeer DEF ConnectionInv, LinkInv
<1>9. PeerInv(c)'
  BY <1>1, <1>3, <1>6 DEF PeerInv, Taking, FreshSteps, SyncSteps, AgainSteps
<1>10. access \in AccessRecord /\ RowInv'
  BY <1>6 DEF ConnectionInv, ConnectionTypes, RowInv, AppliedIsHeld
<1> QED  BY <1>1, <1>3, <1>4, <1>5, <1>6, <1>7, <1>8, <1>9, <1>10, AloneKeeps

LEMMA AttachKeeps == ASSUME ConnectionInv, NEW c \in Peers, Attach(c) PROVE ConnectionInv'
<1>1. PeerInv(c) /\ doing[c].at = "attach" /\ doing[c].link # 0 /\ doing[c] \in PeerRecord /\ doing[c].link \in Links
  BY PeerMeans DEF Attach, Stands, PeerInv, LinkIds
<1> DEFINE l == doing[c].link
           p == [doing[c] EXCEPT !.at = "resolve"]
           m == [remote[l] EXCEPT !.identity = service.identity]
<1>2. p \in PeerRecord /\ p.at = "resolve" /\ p.link = l /\ p.sync = doing[c].sync
  BY <1>1, PeerAt DEF PeerSteps, SyncSteps
<1>3. m \in RemoteRecord /\ m.identity = service.identity /\ service.identity \in Installed /\ remote \in RemoteTable
  <2>1. service.identity \in 1 .. (broken + 1) /\ broken \in 0 .. MaxBroken /\ remote \in RemoteTable
    BY DEF ConnectionInv, ConnectionTypes
  <2>2. service.identity \in Installed
    BY <2>1, ConnectionAssumption DEF Installed
  <2>3. remote[l] \in RemoteRecord
    BY <1>1, <2>1 DEF RemoteTable
  <2> QED  BY <2>1, <2>2, <2>3 DEF RemoteRecord, Identities
<1>4. doing' = [doing EXCEPT ![c] = p] /\ remote' = [remote EXCEPT ![l] = m]
      /\ UNCHANGED <<access, stored, service, slot, broken>>
  BY DEF Attach, Advance
<1> HIDE DEF p, m
<1>5. doing'[c] = p /\ remote'[l] = m
  BY <1>1, <1>2, <1>3, <1>4, PeerBecomes DEF RemoteTable
<1>6. l # slot.link /\ \A d \in Peers : d # c => doing[d].link # l
  BY <1>1, FreshIsAlone DEF FreshSteps
<1>7. PeerInv(c)'
  BY <1>1, <1>2, <1>3, <1>4, <1>5 DEF PeerInv, Taking, FreshSteps, SyncSteps, AgainSteps
<1>8. access \in AccessRecord /\ RowInv'
  BY <1>4 DEF ConnectionInv, ConnectionTypes, RowInv, AppliedIsHeld
<1>9. l \in Links /\ l # 0
  BY <1>1
<1> HIDE DEF l
<1>10. doing[c].link = l
  BY DEF l
<1> QED  BY <1>2, <1>3, <1>4, <1>6, <1>7, <1>8, <1>9, <1>10, AloneKeeps

LEMMA ConfigureKeeps == ASSUME ConnectionInv, NEW c \in Peers, Configure(c) PROVE ConnectionInv'
<1> DEFINE p == [doing[c] EXCEPT !.at = "acknowledge"]
           i == service.identity
<1>1. PeerInv(c) /\ doing[c].at = "configure" /\ doing[c] \in PeerRecord /\ doing[c].rev \in Nat
      /\ stored[i] <= doing[c].rev /\ remote[doing[c].link].identity = i
  BY PeerMeans DEF Configure, Stands, Expected, Mine
<1>2. p \in PeerRecord /\ p.at = "acknowledge" /\ p.link = doing[c].link /\ p.sync = doing[c].sync /\ p.rev = doing[c].rev
  BY <1>1, PeerAt DEF PeerSteps, SyncSteps
<1>3. doing' = [doing EXCEPT ![c] = p] /\ stored' = [stored EXCEPT ![i] = doing[c].rev]
      /\ UNCHANGED <<access, service, slot, remote, broken>>
  BY DEF Configure, Advance
<1> HIDE DEF p
<1>4. i \in Installed /\ stored \in StoredTable
  BY <1>1 DEF PeerInv, SyncSteps, ConnectionInv, ConnectionTypes
<1> HIDE DEF i
<1>5. stored' \in StoredTable /\ stored'[i] = doing[c].rev /\ \A j \in Installed : stored[j] <= stored'[j]
  BY <1>1, <1>3, <1>4 DEF StoredTable
<1>6. doing' \in PeerTable /\ doing'[c] = p /\ \A d \in Peers : d # c => doing'[d] = doing[d]
  BY <1>2, <1>3, PeerBecomes
<1>7. ConnectionTypes'
  BY <1>3, <1>5, <1>6 DEF ConnectionInv, ConnectionTypes
<1>8. PeerInv(c)'
  BY <1>1, <1>2, <1>3, <1>5, <1>6 DEF PeerInv, Taking, FreshSteps, SyncSteps, AgainSteps
<1>9. ASSUME NEW d \in Peers, d # c PROVE PeerInv(d)'
  <2>1. PeerInv(d) /\ doing'[d] = doing[d] /\ doing[d].rev \in Nat
    BY <1>6, <1>9, PeerMeans
  <2>2. doing[d].at = "acknowledge" => doing[d].rev <= stored'[remote[doing[d].link].identity]
    <3>1. ASSUME doing[d].at = "acknowledge"
          PROVE  doing[d].rev <= stored'[remote[doing[d].link].identity]
      <4> DEFINE j == remote[doing[d].link].identity
      <4>1. j \in Installed /\ doing[d].rev <= stored[j]
        BY <2>1, <3>1 DEF PeerInv, SyncSteps
      <4> HIDE DEF j
      <4>2. stored[j] \in Nat /\ stored'[j] \in Nat /\ stored[j] <= stored'[j]
        BY <1>4, <1>5, <4>1 DEF StoredTable
      <4>3. doing[d].rev <= stored'[j]
        BY <2>1, <4>1, <4>2
      <4> QED  BY <4>3 DEF j
    <3> QED  BY <3>1
  <2> QED  BY <1>3, <2>1, <2>2 DEF PeerInv, Taking
<1>10. LinkInv'
  <2>1. \A d \in Peers : doing'[d].link = doing[d].link
    BY <1>2, <1>6
  <2> QED  BY <1>3, <2>1 DEF ConnectionInv, LinkInv, Peers
<1>11. RowInv'
  <2>1. access.applied \in Nat /\ access.identity \in Installed \cup {0} /\ RowInv
    BY DEF ConnectionInv, ConnectionTypes, AccessRecord, Identities
  <2>2. access.identity # 0 => access.applied <= stored'[access.identity]
    <3>1. ASSUME access.identity # 0 PROVE access.applied <= stored'[access.identity]
      <4>1. /\ stored[access.identity] \in Nat /\ stored'[access.identity] \in Nat
            /\ stored[access.identity] <= stored'[access.identity] /\ access.applied <= stored[access.identity]
        BY <1>4, <1>5, <2>1, <3>1 DEF StoredTable, RowInv, AppliedIsHeld
      <4> QED  BY <2>1, <4>1
    <3> QED  BY <3>1
  <2> QED  BY <1>3, <2>1, <2>2 DEF RowInv, AppliedIsHeld
<1> QED  BY <1>7, <1>8, <1>9, <1>10, <1>11 DEF ConnectionInv

\* The row that is acknowledged names an installation that has the revision.
LEMMA RecordsMeans ==
  ASSUME ConnectionInv, NEW c \in Peers, Acknowledge(c)
  PROVE  /\ access' \in AccessRecord /\ access'.identity = remote[doing[c].link].identity
         /\ access'.identity \in Installed /\ access.identity \in {0, access'.identity}
         /\ access'.applied <= stored[access'.identity]
<1> DEFINE i == remote[doing[c].link].identity
           a == [access EXCEPT !.applied = doing[c].rev, !.identity = i]
<1>1. PeerInv(c) /\ doing[c].at = "acknowledge" /\ doing[c].rev \in Nat /\ access.identity \in {0, i}
  BY PeerMeans DEF Acknowledge, Connected, Stands, Mine
<1>2. i \in Installed /\ doing[c].rev <= stored[i]
  BY <1>1 DEF PeerInv, SyncSteps
<1>3. access \in AccessRecord /\ RowInv
  BY DEF ConnectionInv, ConnectionTypes
<1>4. access' = IF access.applied <= doing[c].rev THEN a ELSE access
  BY DEF Acknowledge, Records, Mine
<1> HIDE DEF i
<1>5. a \in AccessRecord /\ a.identity = i /\ a.applied = doing[c].rev
  BY <1>1, <1>2, <1>3 DEF AccessRecord, Identities
<1> HIDE DEF a
<1>6. CASE access.applied <= doing[c].rev
  BY <1>1, <1>2, <1>4, <1>5, <1>6 DEF i
<1>7. CASE ~(access.applied <= doing[c].rev)
  <2>1. access.applied \in Nat /\ access' = access
    BY <1>3, <1>4, <1>7 DEF AccessRecord
  <2>2. access.applied # 0
    BY <1>1, <1>7, <2>1
  <2>3. access.identity = i
    BY <1>1, <1>3, <2>2 DEF RowInv
  <2> QED  BY <1>2, <1>3, <2>1, <2>3, NoLink DEF RowInv, AppliedIsHeld, i
<1> QED  BY <1>6, <1>7

LEMMA UserAcknowledges == ASSUME ConnectionInv, NEW c \in Users, Acknowledge(c) PROVE ConnectionInv'
<1> DEFINE p == [doing[c] EXCEPT !.at = "ready"]
           l == doing[c].link
<1>1. c \in Peers /\ c \notin Callers /\ PeerInv(c) /\ doing[c].at = "acknowledge" /\ doing[c] \in PeerRecord
  BY UserIsPeer, PeerMeans DEF Acknowledge, Connected, Stands
<1>2. slot.holder = c /\ slot.link \in {0, l} /\ l # 0 /\ l \in LinkIds /\ slot \in SlotRecord
  BY <1>1, PeerMeans DEF PeerInv, Taking, SyncSteps, ConnectionInv, ConnectionTypes
<1>3. p \in PeerRecord /\ p.at = "ready" /\ p.link = l
  BY <1>1, PeerAt DEF PeerSteps
<1>4. /\ doing' = [doing EXCEPT ![c] = p] /\ UNCHANGED <<stored, service, remote, broken>>
      /\ slot' = [slot EXCEPT !.link = l, !.holder = IF @ = c THEN Nobody ELSE @]
  BY DEF Acknowledge, Connected, Advance
<1>5. /\ access' \in AccessRecord /\ access'.identity = remote[l].identity
      /\ access'.identity \in Installed /\ access.identity \in {0, access'.identity}
      /\ access'.applied <= stored[access'.identity]
  BY <1>1, RecordsMeans
<1> HIDE DEF p, l
<1>6. doing' \in PeerTable /\ doing'[c] = p /\ \A d \in Peers : d # c => doing'[d] = doing[d]
  BY <1>1, <1>3, <1>4, PeerBecomes
<1>7. slot' \in SlotRecord /\ slot'.link = l /\ slot'.holder = Nobody
  BY <1>2, <1>4 DEF SlotRecord
<1>8. ConnectionTypes'
  BY <1>4, <1>5, <1>6, <1>7 DEF ConnectionInv, ConnectionTypes
<1>9. PeerInv(c)'
  BY <1>1, <1>2, <1>3, <1>4, <1>6, <1>7 DEF PeerInv, Taking, FreshSteps, SyncSteps, AgainSteps
<1>10. ASSUME NEW d \in Peers, d # c PROVE PeerInv(d)'
  <2>1. PeerInv(d) /\ doing'[d] = doing[d]
    BY <1>6, <1>10, PeerMeans
  <2>2. d \in Users => ~Taking(d)
    BY <1>2, <1>10, <2>1 DEF PeerInv
  <2>3. d \in Users /\ doing[d].at \in AgainSteps \cup {"ready"} => doing[d].link = l
    <3>1. doing[d].at \in AgainSteps \cup {"ready"} => doing[d].link # 0
      BY <2>1 DEF PeerInv, AgainSteps
    <3> QED  BY <1>2, <2>1, <3>1 DEF PeerInv
  <2>4. d \in Users => doing[d].at \notin FreshSteps
    BY <2>2 DEF Taking
  <2> QED  BY <1>4, <1>7, <2>1, <2>2, <2>3, <2>4 DEF PeerInv, Taking
<1>11. LinkInv'
  <2>1. \A d \in Peers : doing'[d].link = doing[d].link
    BY <1>3, <1>6 DEF l
  <2>2. doing'[c].link = l
    BY <1>3, <1>6
  <2>3. access'.identity # 0
    BY <1>5, NoLink
  <2> QED  BY <1>4, <1>5, <1>7, <2>1, <2>2, <2>3 DEF ConnectionInv, LinkInv, Peers
<1>12. RowInv'
  BY <1>4, <1>5, NoLink DEF RowInv, AppliedIsHeld
<1> QED  BY <1>8, <1>9, <1>10, <1>11, <1>12 DEF ConnectionInv

LEMMA CallerAcknowledges == ASSUME ConnectionInv, NEW c \in Callers, Acknowledge(c) PROVE ConnectionInv'
<1> DEFINE l == doing[c].link
<1>1. c \in Peers /\ c \notin Users /\ PeerInv(c) /\ doing[c].at = "acknowledge" /\ l \in LinkIds
  BY UserIsPeer, PeerMeans DEF Acknowledge, Connected, Stands, Peers
<1>2. l # 0 /\ l \in Links
  BY <1>1 DEF PeerInv, LinkIds
<1>3. doing' = [doing EXCEPT ![c] = Resting] /\ remote' = [remote EXCEPT ![l] = Dead]
      /\ UNCHANGED <<stored, service, slot, broken>>
  BY <1>1 DEF Acknowledge, Connected
<1>4. Resting \in PeerRecord /\ Dead \in RemoteRecord /\ Resting.link = 0 /\ Resting.at = "idle"
  BY DEF Resting, Dead, PeerRecord, RemoteRecord, PeerSteps, LinkIds, Identities
<1>5. l # slot.link /\ \A d \in Peers : d # c => doing[d].link # l
  BY <1>2, CallersApart
<1>6. /\ access' \in AccessRecord /\ access'.identity \in Installed /\ access.identity \in {0, access'.identity}
      /\ access'.applied <= stored[access'.identity]
  BY <1>1, RecordsMeans
<1>7. RowInv'
  BY <1>3, <1>6, NoLink DEF RowInv, AppliedIsHeld
<1>8. doing'[c] = Resting
  BY <1>1, <1>3, <1>4, PeerBecomes
<1>9. PeerInv(c)'
  BY <1>1, <1>4, <1>8 DEF PeerInv, Taking, FreshSteps, SyncSteps, AgainSteps
<1>10. slot.link # 0 => access'.identity = access.identity
  BY <1>6 DEF ConnectionInv, LinkInv
<1> HIDE DEF l
<1>11. doing[c].link = l
  BY DEF l
<1> QED  BY <1>1, <1>2, <1>3, <1>4, <1>5, <1>6, <1>7, <1>9, <1>10, <1>11, AloneKeeps

LEMMA DropsKeeps == ASSUME ConnectionInv, NEW c \in Peers, Drops(c) PROVE ConnectionInv'
<1>1. /\ doing' = [doing EXCEPT ![c] = Resting] /\ UNCHANGED <<access, stored, service, broken>>
      /\ slot'.holder = IF slot.holder = c THEN Nobody ELSE slot.holder
      /\ slot'.link = IF Holders(slot.link) = {c} THEN 0 ELSE slot.link
      /\ slot' = [holder |-> slot'.holder, link |-> slot'.link]
  BY DEF Drops
<1>2. Resting \in PeerRecord /\ Dead \in RemoteRecord /\ Resting.link = 0 /\ Resting.at = "idle"
  BY DEF Resting, Dead, PeerRecord, RemoteRecord, PeerSteps, LinkIds, Identities
<1>3. doing' \in PeerTable /\ doing'[c] = Resting /\ \A d \in Peers : d # c => doing'[d] = doing[d]
  BY <1>1, <1>2, PeerBecomes
<1>4. slot \in SlotRecord /\ remote \in RemoteTable /\ slot.link \in LinkIds
  BY DEF ConnectionInv, ConnectionTypes, SlotRecord
<1>5. slot' \in SlotRecord
  BY <1>1, <1>4 DEF SlotRecord, LinkIds
<1>6. remote' \in RemoteTable /\ \A k \in Links : remote'[k] # remote[k] => k = doing[c].link /\ Holders(k) = {c}
  BY <1>2, <1>4 DEF Drops, RemoteTable
<1>7. ConnectionTypes'
  BY <1>1, <1>3, <1>5, <1>6 DEF ConnectionInv, ConnectionTypes
<1>8. PeerInv(c)'
  BY <1>2, <1>3 DEF PeerInv, Taking, FreshSteps, SyncSteps, AgainSteps
<1>9. ASSUME NEW d \in Peers, d # c PROVE PeerInv(d)'
  <2>1. PeerInv(d) /\ doing'[d] = doing[d] /\ doing[d].link \in LinkIds
    BY <1>3, <1>9, PeerMeans
  <2>2. doing[d].link # 0 => remote'[doing[d].link] = remote[doing[d].link]
    BY <1>6, <1>9, <2>1 DEF LinkIds, Holders
  <2>3. doing[d].at \in SyncSteps => doing[d].link # 0
    BY <2>1 DEF PeerInv, SyncSteps
  <2>4. doing[d].at = "acknowledge" => doing[d].at \in SyncSteps
    BY DEF SyncSteps
  <2>5. slot'.link \in {0, slot.link} /\ (slot.link = doing[d].link => slot'.link = slot.link)
    BY <1>1, <1>9 DEF Holders
  <2>6. slot.holder = d => slot'.holder = d
    BY <1>1, <1>9
  <2> QED  BY <1>1, <2>1, <2>2, <2>3, <2>4, <2>5, <2>6 DEF PeerInv, Taking
<1>10. LinkInv'
  <2>1. ASSUME NEW e \in Callers, NEW d \in Peers, e # d, doing'[e].link # 0 PROVE doing'[e].link # doing'[d].link
    <3>1. e # c /\ e \in Peers
      BY <1>2, <1>3, <2>1 DEF Peers
    <3>2. doing'[e] = doing[e] /\ doing'[d].link \in {0, doing[d].link}
      BY <1>2, <1>3, <3>1
    <3> QED  BY <2>1, <3>2, CallersApart
  <2>2. ASSUME slot'.link # 0
        PROVE  /\ \E u \in Users : doing'[u].link = slot'.link
               /\ access.identity # 0 /\ remote'[slot'.link].identity = access.identity
    <3>1. slot'.link = slot.link /\ slot.link # 0 /\ Holders(slot.link) # {c} /\ slot.link \in Links
      BY <1>1, <1>4, <2>2 DEF LinkIds
    <3>2. PICK u \in Users : doing[u].link = slot.link
      BY <3>1 DEF ConnectionInv, LinkInv
    <3>3. PICK d \in Peers : d # c /\ doing[d].link = slot.link
      BY <3>1, <3>2, UserIsPeer DEF Holders
    <3>4. d \in Users
      BY <3>1, <3>3, CallersApart DEF Peers
    <3>5. doing'[d].link = slot'.link
      BY <1>3, <3>1, <3>3
    <3>6. remote'[slot.link] = remote[slot.link]
      BY <1>6, <3>1
    <3> QED  BY <3>1, <3>4, <3>5, <3>6 DEF ConnectionInv, LinkInv
  <2> QED  BY <1>1, <2>1, <2>2 DEF LinkInv
<1>11. RowInv'
  BY <1>1 DEF ConnectionInv, RowInv, AppliedIsHeld
<1> QED  BY <1>7, <1>8, <1>9, <1>10, <1>11 DEF ConnectionInv

LEMMA GivesUpKeeps == ASSUME ConnectionInv, NEW c \in Peers, GivesUp(c) PROVE ConnectionInv'
<1>1. CASE Drops(c)
  BY <1>1, DropsKeeps
<1>2. CASE Keeps(c) /\ Advance(c, "ready") /\ UNCHANGED <<access, stored, service, slot, remote, broken>>
  <2>1. c \in Users /\ c \notin Callers /\ "ready" \in PeerSteps /\ PeerInv(c) /\ doing[c].at \in AgainSteps
    BY <1>2, UserIsPeer, PeerMeans DEF Keeps, Stands, Recovering, PeerSteps, AgainSteps
  <2>2. MayGo(c, "ready")
    BY <2>1 DEF MayGo, PeerInv, FreshSteps, SyncSteps, AgainSteps
  <2> QED  BY <1>2, <2>1, <2>2, SameMasters, StepKeeps
<1> QED  BY <1>1, <1>2 DEF GivesUp

\* What breaks is a master or the service; the peers find out.
LEMMA BreaksKeeps ==
  ASSUME ConnectionInv, UNCHANGED <<access, stored, slot, doing>>, SameOwners,
         service'.identity \in 1 .. (broken' + 1), broken' \in 0 .. MaxBroken
  PROVE  ConnectionInv'
<1>1. ConnectionTypes'
  BY DEF ConnectionInv, ConnectionTypes, SameOwners
<1>2. ASSUME NEW d \in Peers PROVE PeerInv(d)'
  <2>1. PeerInv(d)
    BY PeerMeans
  <2>2. doing[d].link # 0 => remote'[doing[d].link].identity = remote[doing[d].link].identity
    BY OwnerMeans
  <2>3. doing[d].at \in SyncSteps => doing[d].link # 0
    BY <2>1 DEF PeerInv, SyncSteps
  <2>4. doing[d].at = "acknowledge" => doing[d].at \in SyncSteps
    BY DEF SyncSteps
  <2> QED  BY <2>1, <2>2, <2>3, <2>4 DEF PeerInv, Taking
<1>3. slot.link # 0 => remote'[slot.link].identity = remote[slot.link].identity
  <2>1. slot.link \in LinkIds
    BY DEF ConnectionInv, ConnectionTypes, SlotRecord
  <2> QED  BY <2>1 DEF SameOwners, LinkIds
<1>4. LinkInv' /\ RowInv'
  BY <1>3 DEF ConnectionInv, LinkInv, RowInv, AppliedIsHeld
<1> QED  BY <1>1, <1>2, <1>4 DEF ConnectionInv

LEMMA FaultsKeep == ASSUME ConnectionInv, MasterDies \/ ServiceStops \/ ServerIsReplaced PROVE ConnectionInv'
<1>1. service.identity \in 1 .. (broken + 1) /\ broken \in 0 .. MaxBroken /\ remote \in RemoteTable
  BY DEF ConnectionInv, ConnectionTypes
<1>2. broken' = broken + 1 /\ broken < MaxBroken /\ UNCHANGED <<access, stored, slot, doing>>
  BY DEF MasterDies, ServiceStops, ServerIsReplaced, Breaks
<1>3. broken' \in 0 .. MaxBroken
  BY <1>1, <1>2, ConnectionAssumption
<1>4. CASE MasterDies
  <2>1. PICK l \in Links : remote' = [remote EXCEPT ![l].alive = FALSE]
    BY <1>4 DEF MasterDies
  <2>2. SameOwners
    BY <1>1, <2>1 DEF SameOwners, RemoteTable, RemoteRecord
  <2>3. service' = service
    BY <1>4 DEF MasterDies
  <2>4. service'.identity \in 1 .. (broken' + 1)
    BY <1>1, <1>2, <2>3
  <2> QED  BY <1>2, <1>3, <2>2, <2>4, BreaksKeeps
<1>5. CASE ServiceStops
  <2>1. service' = [service EXCEPT !.up = FALSE] /\ remote' = remote
    BY <1>5 DEF ServiceStops
  <2>2. service'.identity = service.identity
    BY <2>1
  <2>3. service'.identity \in 1 .. (broken' + 1)
    BY <1>1, <1>2, <2>2
  <2> QED  BY <1>2, <1>3, <2>1, <2>3, SameMasters, BreaksKeeps
<1>6. CASE ServerIsReplaced
  <2>1. service'.identity = service.identity + 1 /\ remote' = remote
    BY <1>6 DEF ServerIsReplaced
  <2>2. service'.identity \in 1 .. (broken' + 1)
    BY <1>1, <1>2, <2>1
  <2> QED  BY <1>2, <1>3, <2>1, <2>2, SameMasters, BreaksKeeps
<1> QED  BY <1>4, <1>5, <1>6

\* application/mod.rs connect, remote.rs attach and synchronize, store/access.rs: whatever dies, is
\* replaced or given up, the revision that the row calls applied is stored by the installation that the
\* row names, and all users of a process use one connection, which belongs to that installation.
THEOREM ConnectionsAlwaysAgree == ConnectionSpec => []ConnectionsAgree
<1>1. ConnectionInv /\ [ConnectionNext]_connectionVars => ConnectionInv'
  <2>1. ASSUME ConnectionInv, UNCHANGED connectionVars PROVE ConnectionInv'
    <3>1. UNCHANGED <<access, stored, slot, doing, remote, service, broken>>
      BY <2>1 DEF connectionVars
    <3>2. service'.identity \in 1 .. (broken' + 1) /\ broken' \in 0 .. MaxBroken
      BY <2>1, <3>1 DEF ConnectionInv, ConnectionTypes
    <3> QED  BY <2>1, <3>1, <3>2, SameMasters, BreaksKeeps
  <2>2. ASSUME ConnectionInv, NEW c \in Peers, Acknowledge(c) PROVE ConnectionInv'
    BY <2>2, UserAcknowledges, CallerAcknowledges DEF Peers
  <2> QED  BY <2>1, <2>2, ConnectKeeps, TakeSlotKeeps, AskAgainKeeps, LockReconnectKeeps, RedialKeeps, HelloKeeps,
              StartsKeeps, PrepareServerKeeps, CallKeeps, DialKeeps, AttachKeeps, ResolveKeeps, ConfigureKeeps,
              GivesUpKeeps, FaultsKeep DEF ConnectionNext
<1> QED  BY <1>1, ConnectionInitially, ConnectionImplies, PTL DEF ConnectionSpec

-----------------------------------------------------------------------------
(* SessionOwnership: a call that works, and what it has. *)

OpenSteps == {"waits", "guarded", "prepares", "trust", "opens", "denied", "asked", "locked", "starts", "registered", "over"}
OpenRecord == [window : Clients, takeover : BOOLEAN, next : {"prepares", "opens"}, at : OpenSteps]
OpenList == Seq(OpenRecord)
WindowStates == [Clients -> {"open", "closing", "closed", "gone"}]
HeldTable == [Clients -> Nat]
RunTable == [Ids -> {"none", "open", "closed"}]

OwnershipTypes ==
  /\ window \in WindowStates /\ listed \subseteq AppWindows /\ door \subseteq Nat
  /\ call \in OpenList /\ Len(call) <= MaxOpens
  /\ held \in HeldTable /\ run \in RunTable
  /\ lock \in Nat /\ (lock # 0 => lock \in Calls) /\ revoked \in BOOLEAN /\ demanded \in BOOLEAN

\* A call of the application that works is the first at the gate, and no window holds the thread.
GateInv ==
  \A i \in Calls : InApp(i) /\ At(i) \notin {"waits", "over"} => First(i) /\ \A w \in listed : held[w] = 0

\* An engine runs under the lease only, and none runs before the call has begun it.
LeaseInv ==
  /\ \A i \in Ids : run[i] # "none" => lock = i
  /\ \A i \in Calls : /\ At(i) \in {"locked", "starts"} => lock = i
                      /\ At(i) \notin {"registered", "over"} => run[i] = "none"
  /\ \A i \in Ids : i \notin Calls => run[i] = "none"

HeldInv == \A v, w \in listed : held[v] # 0 /\ held[w] # 0 => v = w

\* What an owner finds that it did not read when it began was asked of it.
AskedInv ==
  /\ lock = 0 => ~revoked
  /\ RevokedWasAsked
  /\ lock # 0 /\ At(lock) # "locked" /\ marker # seen => demanded

OwnershipInv == OwnershipTypes /\ GateInv /\ LeaseInv /\ HeldInv /\ AskedInv

LEMMA OwnershipInitially == OwnershipInit => OwnershipInv
<1> SUFFICES ASSUME OwnershipInit PROVE OwnershipInv
  OBVIOUS
<1>1. call = <<>> /\ Len(call) = 0 /\ Calls = {} /\ call \in OpenList
  BY DEF OwnershipInit, Calls, OpenList
<1>2. OwnershipTypes
  <2>1. window \in WindowStates /\ held \in HeldTable /\ run \in RunTable
    BY DEF OwnershipInit, WindowStates, HeldTable, RunTable
  <2>2. listed \subseteq AppWindows /\ door \subseteq Nat /\ lock = 0 /\ revoked \in BOOLEAN /\ demanded \in BOOLEAN
    BY DEF OwnershipInit
  <2>3. Len(call) <= MaxOpens
    BY <1>1, OwnershipAssumption
  <2> QED  BY <1>1, <2>1, <2>2, <2>3 DEF OwnershipTypes
<1>3. GateInv /\ LeaseInv /\ HeldInv /\ AskedInv
  BY <1>1 DEF OwnershipInit, GateInv, LeaseInv, HeldInv, AskedInv, RevokedWasAsked, Clients
<1> QED  BY <1>2, <1>3 DEF OwnershipInv

LEMMA AtMostOne ==
  ASSUME NEW S, \A x, y \in S : x = y
  PROVE  Cardinality(S) <= 1
<1>1. CASE S = {}
  BY <1>1, FS_EmptySet
<1>2. CASE S # {}
  <2>1. PICK x \in S : TRUE
    BY <1>2
  <2>2. S = {x}
    BY <2>1
  <2> QED  BY <2>2, FS_Singleton
<1> QED  BY <1>1, <1>2

LEMMA OwnershipImplies == OwnershipInv => OneOwner
<1> SUFFICES ASSUME OwnershipInv PROVE OneOwner
  OBVIOUS
<1>1. \A x, y \in {w \in listed : held[w] # 0} : x = y
  BY DEF OwnershipInv, HeldInv
<1>2. \A x, y \in {i \in Ids : run[i] = "open"} : x = y
  BY DEF OwnershipInv, LeaseInv
<1>3. NeverTwo
  BY <1>1, <1>2, AtMostOne DEF NeverTwo
<1> QED  BY <1>3 DEF OwnershipInv, AskedInv, OneOwner

LEMMA OpenListMeans ==
  ASSUME OwnershipTypes
  PROVE  /\ Len(call) \in Nat /\ Calls = 1 .. Len(call) /\ Calls \subseteq Ids /\ 0 \notin Ids
         /\ \A i \in Calls : /\ i \in Nat \ {0} /\ call[i] \in OpenRecord /\ At(i) \in OpenSteps /\ Of(i) \in Clients
                             /\ call[i].next \in {"prepares", "opens"}
<1>1. call \in Seq(OpenRecord) /\ Len(call) <= MaxOpens
  BY DEF OwnershipTypes, OpenList
<1>2. Len(call) \in Nat /\ DOMAIN call = 1 .. Len(call) /\ \A i \in 1 .. Len(call) : call[i] \in OpenRecord
  BY <1>1, LenProperties, ElementOfSeq
<1>3. 1 .. Len(call) \subseteq Ids /\ 0 \notin Ids
  BY <1>1, <1>2, OwnershipAssumption DEF Ids
<1> QED  BY <1>2, <1>3 DEF Calls, At, Of, OpenRecord

\* The calls stay, each of its window; some of them go on.
SameCalls == /\ call' \in OpenList /\ Len(call') = Len(call) /\ Calls' = Calls
             /\ \A i \in Calls : Of(i)' = Of(i)

LEMMA BecomesMeans ==
  ASSUME OwnershipTypes, NEW i \in Calls, NEW c \in OpenRecord, c.window = call[i].window,
         call' = [call EXCEPT ![i] = c]
  PROVE  /\ SameCalls /\ At(i)' = c.at
         /\ \A k \in Calls : k # i => At(k)' = At(k)
<1>1. call \in Seq(OpenRecord) /\ Calls = 1 .. Len(call) /\ Len(call) \in Nat
  BY OpenListMeans DEF OwnershipTypes, OpenList
<1>2. /\ call' \in Seq(OpenRecord) /\ Len(call') = Len(call)
      /\ \A k \in 1 .. Len(call) : call'[k] = IF k = i THEN c ELSE call[k]
  BY <1>1, ExceptSeq
<1>3. DOMAIN call' = DOMAIN call
  OBVIOUS
<1> QED  BY <1>1, <1>2, <1>3 DEF SameCalls, OpenList, Calls, Of, At

LEMMA GoesMeans ==
  ASSUME OwnershipTypes, NEW i \in Calls, NEW at \in OpenSteps, Goes(i, at)
  PROVE  /\ SameCalls /\ At(i)' = at
         /\ \A k \in Calls : k # i => At(k)' = At(k)
<1> DEFINE c == [call[i] EXCEPT !.at = at]
<1>1. c \in OpenRecord /\ c.window = call[i].window /\ c.at = at
  BY OpenListMeans DEF OpenRecord
<1>2. call' = [call EXCEPT ![i] = c]
  BY DEF Goes
<1> HIDE DEF c
<1> QED  BY <1>1, <1>2, BecomesMeans

LEMMA EndsMeans ==
  ASSUME OwnershipTypes, NEW ids, EndsCalls(ids)
  PROVE  /\ SameCalls /\ door' = door \ ids
         /\ \A k \in Calls : At(k)' = IF k \in ids THEN "over" ELSE At(k)
<1> DEFINE c(i) == IF i \in ids THEN [call[i] EXCEPT !.at = "over", !.takeover = FALSE, !.next = "opens"] ELSE call[i]
<1>1. Calls = 1 .. Len(call) /\ Len(call) \in Nat
  BY OpenListMeans
<1>2. ASSUME NEW i \in 1 .. Len(call)
      PROVE  c(i) \in OpenRecord /\ c(i).window = call[i].window /\ c(i).at = IF i \in ids THEN "over" ELSE call[i].at
  <2>1. call[i] \in OpenRecord
    BY <1>1, OpenListMeans
  <2> QED  BY <2>1 DEF OpenRecord, OpenSteps
<1>3. call' = [i \in 1 .. Len(call) |-> c(i)] /\ door' = door \ ids
  BY <1>1 DEF EndsCalls, Calls
<1> HIDE DEF c
<1>4. call' \in Seq(OpenRecord)
  BY <1>1, <1>2, <1>3, IsASeq
<1>5. Len(call') = Len(call) /\ DOMAIN call' = 1 .. Len(call)
  BY <1>1, <1>3, <1>4, LenProperties
<1> QED  BY <1>1, <1>2, <1>3, <1>4, <1>5 DEF SameCalls, OpenList, Calls, Of, At

\* Nobody passes the gate, and no window gets the thread.
LEMMA GateStays ==
  ASSUME OwnershipInv, SameCalls, listed' \subseteq listed, door' \subseteq door,
         \A w \in listed : held'[w] \in {0, held[w]},
         \A k \in Calls : At(k)' \notin {"waits", "over"} => At(k) \notin {"waits", "over"} /\ (k \in door => k \in door')
  PROVE  GateInv' /\ HeldInv'
<1>1. HeldInv'
  BY DEF OwnershipInv, HeldInv
<1>2. ASSUME NEW i \in Calls, InApp(i)', At(i)' \notin {"waits", "over"}
      PROVE  First(i)' /\ \A w \in listed' : held'[w] = 0
  <2>1. InApp(i) /\ At(i) \notin {"waits", "over"} /\ (i \in door => i \in door')
    BY <1>2 DEF SameCalls, InApp
  <2>2. First(i) /\ \A w \in listed : held[w] = 0
    BY <2>1 DEF OwnershipInv, GateInv
  <2> QED  BY <2>1, <2>2 DEF First
<1> QED  BY <1>1, <1>2 DEF GateInv, SameCalls

LEMMA GoesStays ==
  ASSUME OwnershipInv, NEW i \in Calls, NEW at \in OpenSteps, Goes(i, at), At(i) \notin {"waits", "over"},
         UNCHANGED <<listed, door, held>>
  PROVE  GateInv' /\ HeldInv'
<1>1. SameCalls /\ \A k \in Calls : k # i => At(k)' = At(k)
  BY GoesMeans DEF OwnershipInv
<1> QED  BY <1>1, GateStays

LEMMA EndsStays ==
  ASSUME OwnershipInv, NEW ids, EndsCalls(ids), listed' \subseteq listed, \A w \in listed : held'[w] \in {0, held[w]}
  PROVE  GateInv' /\ HeldInv'
<1>1. SameCalls /\ door' = door \ ids /\ \A k \in Calls : At(k)' = IF k \in ids THEN "over" ELSE At(k)
  BY EndsMeans DEF OwnershipInv
<1> QED  BY <1>1, GateStays

LEMMA RestStays ==
  ASSUME OwnershipInv, UNCHANGED <<call, door>>, listed' \subseteq listed, \A w \in listed : held'[w] \in {0, held[w]}
  PROVE  GateInv' /\ HeldInv' /\ SameCalls /\ \A k \in Calls : At(k)' = At(k)
<1>1. SameCalls /\ \A k \in Calls : At(k)' = At(k)
  BY DEF OwnershipInv, OwnershipTypes, SameCalls, Calls, Of, At
<1> QED  BY <1>1, GateStays

\* No engine is started, and no lease begins.
LEMMA RunStays ==
  ASSUME OwnershipInv, SameCalls, run' \in RunTable, lock' = lock,
         \A k \in Ids : run'[k] # "none" => run[k] # "none",
         \A k \in Calls : /\ At(k)' \in {"locked", "starts"} => At(k) \in {"locked", "starts"}
                          /\ At(k)' \notin {"registered", "over"} => At(k) \notin {"registered", "over"}
  PROVE  LeaseInv'
<1>1. /\ \A i \in Ids : run[i] # "none" => lock = i
      /\ \A i \in Calls : /\ At(i) \in {"locked", "starts"} => lock = i
                          /\ At(i) \notin {"registered", "over"} => run[i] = "none"
      /\ \A i \in Ids : i \notin Calls => run[i] = "none"
  BY DEF OwnershipInv, LeaseInv
<1>2. Calls \subseteq Ids
  BY OpenListMeans DEF OwnershipInv
<1>3. \A i \in Ids : run[i] = "none" => run'[i] = "none"
  BY DEF Ids
<1> QED  BY <1>1, <1>2, <1>3 DEF SameCalls, LeaseInv, Ids

\* Nothing happens to the lease and to the engines under it.
LeaseRests == UNCHANGED <<lock, marker, seen, revoked, demanded>>

LEMMA AskedStays ==
  ASSUME OwnershipInv, LeaseRests, \A k \in Calls : At(k) = "locked" => At(k)' = "locked"
  PROVE  AskedInv'
<1>1. lock # 0 => lock \in Calls
  BY DEF OwnershipInv, OwnershipTypes
<1>2. (lock = 0 => ~revoked) /\ RevokedWasAsked /\ (lock # 0 /\ At(lock) # "locked" /\ marker # seen => demanded)
  BY DEF OwnershipInv, AskedInv
<1>3. lock # 0 => (At(lock) = "locked" => call'[lock].at = "locked")
  BY <1>1 DEF At
<1>4. lock' # 0 /\ At(lock)' # "locked" => At(lock) # "locked" /\ lock # 0
  BY <1>3 DEF LeaseRests, At
<1> QED  BY <1>2, <1>4 DEF LeaseRests, AskedInv, RevokedWasAsked

LEMMA LeaseStays ==
  ASSUME OwnershipInv, SameCalls, LeaseRests, run' = run,
         \A k \in Calls : /\ At(k)' \in {"locked", "starts"} => At(k)' = At(k)
                          /\ At(k)' \notin {"registered", "over"} => At(k) \notin {"registered", "over"}
                          /\ At(k) = "locked" => At(k)' = "locked"
  PROVE  LeaseInv' /\ AskedInv'
<1>1. run \in RunTable
  BY DEF OwnershipInv, OwnershipTypes
<1> QED  BY <1>1, RunStays, AskedStays DEF LeaseRests

LEMMA TypesStay ==
  ASSUME OwnershipInv, SameCalls, window' \in WindowStates, listed' \subseteq listed, door' \subseteq door,
         held' \in HeldTable, run' \in RunTable, lock' \in Nat, lock' # 0 => lock' \in Calls,
         revoked' \in BOOLEAN, demanded' \in BOOLEAN
  PROVE  OwnershipTypes'
BY DEF OwnershipInv, OwnershipTypes, SameCalls

\* A call goes on, or ends, and the lease rests.
LEMMA GoesOn ==
  ASSUME OwnershipInv, NEW i \in Calls, NEW at \in OpenSteps \ {"locked", "starts"}, Goes(i, at),
         At(i) \notin {"waits", "locked", "registered", "over"},
         UNCHANGED <<window, listed, door, held, run>>, LeaseRests
  PROVE  OwnershipInv'
<1>1. SameCalls /\ At(i)' = at /\ \A k \in Calls : k # i => At(k)' = At(k)
  BY GoesMeans DEF OwnershipInv
<1>2. GateInv' /\ HeldInv'
  BY GoesStays
<1>3. LeaseInv' /\ AskedInv'
  BY <1>1, LeaseStays
<1>4. OwnershipTypes'
  BY <1>1, TypesStay DEF OwnershipInv, OwnershipTypes, LeaseRests
<1> QED  BY <1>2, <1>3, <1>4 DEF OwnershipInv

LEMMA EndsOn ==
  ASSUME OwnershipInv, NEW ids, EndsCalls(ids), \A k \in Calls : k \in ids => At(k) # "locked",
         listed' \subseteq listed, window' \in WindowStates, held' \in HeldTable,
         \A w \in listed : held'[w] \in {0, held[w]}, run' = run, LeaseRests
  PROVE  OwnershipInv'
<1>1. SameCalls /\ door' = door \ ids /\ \A k \in Calls : At(k)' = IF k \in ids THEN "over" ELSE At(k)
  BY EndsMeans DEF OwnershipInv
<1>2. GateInv' /\ HeldInv'
  BY EndsStays
<1>3. LeaseInv' /\ AskedInv'
  BY <1>1, LeaseStays
<1>4. OwnershipTypes'
  BY <1>1, TypesStay DEF OwnershipInv, OwnershipTypes, LeaseRests
<1> QED  BY <1>2, <1>3, <1>4 DEF OwnershipInv

LEMMA EndsOne ==
  ASSUME OwnershipInv, NEW i \in Calls, EndsCalls({i}), At(i) # "locked",
         UNCHANGED <<window, listed, held, run>>, LeaseRests
  PROVE  OwnershipInv'
<1>1. window \in WindowStates /\ held \in HeldTable
  BY DEF OwnershipInv, OwnershipTypes
<1>2. \A k \in Calls : k \in {i} => At(k) # "locked"
  OBVIOUS
<1> HIDE DEF EndsCalls
<1> QED  BY <1>1, <1>2, EndsOn

LEMMA AskToOpenKeeps ==
  ASSUME OwnershipInv, NEW w \in Clients, NEW takeover \in BOOLEAN, AskToOpen(w, takeover)
  PROVE  OwnershipInv'
<1> DEFINE n == Len(call) + 1
           c == [window |-> w, takeover |-> takeover, next |-> "prepares", at |-> IF w \in Others THEN "prepares" ELSE "waits"]
<1>1. c \in OpenRecord /\ c.window = w /\ c.at = (IF w \in Others THEN "prepares" ELSE "waits")
  BY DEF OpenRecord, OpenSteps
<1>2. /\ Len(call) \in Nat /\ Calls = 1 .. Len(call) /\ 0 \notin Ids /\ call \in Seq(OpenRecord)
      /\ \A i \in Calls : i \in Nat \ {0}
  BY OpenListMeans DEF OwnershipInv, OwnershipTypes, OpenList
<1>3. /\ call' = Append(call, c) /\ Len(call) < MaxOpens /\ door' \in {door, door \cup {n}}
      /\ UNCHANGED <<window, listed, held, run, lock, marker, seen, revoked, demanded>>
  BY DEF AskToOpen
<1> HIDE DEF c
<1>4. /\ call' \in OpenList /\ Len(call') = Len(call) + 1 /\ Calls' = 1 .. n /\ call'[n] = c
      /\ \A k \in 1 .. Len(call) : call'[k] = call[k]
  BY <1>1, <1>2, <1>3, AppendMeans, AppendProperties DEF OpenList, Calls
<1>5. n \in Ids /\ n \notin Calls /\ n \in Nat /\ \A k \in Calls' : k = n \/ k \in Calls
  BY <1>2, <1>3, <1>4, OwnershipAssumption DEF Ids
<1>6. OwnershipTypes'
  <2>1. Len(call') <= MaxOpens
    BY <1>2, <1>3, <1>4, OwnershipAssumption
  <2>2. door' \subseteq Nat /\ (lock' # 0 => lock' \in Calls')
    BY <1>2, <1>3, <1>4, <1>5 DEF OwnershipInv, OwnershipTypes
  <2> QED  BY <1>3, <1>4, <2>1, <2>2 DEF OwnershipInv, OwnershipTypes
<1>7. GateInv'
  <2>1. ASSUME NEW i \in Calls', InApp(i)', At(i)' \notin {"waits", "over"}
        PROVE  First(i)' /\ \A v \in listed' : held'[v] = 0
    <3>1. i \in Calls
      <4>1. CASE i = n
        BY <1>1, <1>4, <2>1, <4>1, OwnershipAssumption DEF InApp, Of, At, Clients
      <4> QED  BY <1>5, <4>1
    <3>2. First(i) /\ \A v \in listed : held[v] = 0
      BY <1>2, <1>4, <2>1, <3>1 DEF OwnershipInv, GateInv, InApp, Of, At
    <3>3. i <= n
      BY <1>2, <3>1
    <3> QED  BY <1>3, <3>2, <3>3 DEF First
  <2> QED  BY <2>1 DEF GateInv
<1>8. HeldInv'
  BY <1>3 DEF OwnershipInv, HeldInv
<1>9. LeaseInv'
  <2>1. run[n] = "none"
    BY <1>5 DEF OwnershipInv, LeaseInv
  <2>2. call'[n].at \in {"prepares", "waits"}
    BY <1>1, <1>4
  <2>3. \A i \in Calls : At(i)' = At(i)
    BY <1>2, <1>4 DEF At
  <2>4. Calls \subseteq Calls'
    BY <1>2, <1>4
  <2>5. /\ \A i \in Ids : run'[i] # "none" => lock' = i
        /\ \A i \in Ids : i \notin Calls' => run'[i] = "none"
    BY <1>3, <2>4 DEF OwnershipInv, LeaseInv, Ids
  <2>6. \A i \in Calls' : /\ At(i)' \in {"locked", "starts"} => lock' = i
                          /\ At(i)' \notin {"registered", "over"} => run'[i] = "none"
    <3>1. ASSUME NEW i \in Calls PROVE /\ At(i)' \in {"locked", "starts"} => lock' = i
                                       /\ At(i)' \notin {"registered", "over"} => run'[i] = "none"
      BY <1>3, <2>3 DEF OwnershipInv, LeaseInv
    <3>2. ASSUME NEW i \in Calls' PROVE /\ At(i)' \in {"locked", "starts"} => lock' = i
                                        /\ At(i)' \notin {"registered", "over"} => run'[i] = "none"
      <4>1. CASE i = n
        BY <1>3, <2>1, <2>2, <4>1 DEF At
      <4>2. CASE i # n
        BY <1>5, <3>1, <3>2, <4>2
      <4> QED  BY <4>1, <4>2
    <3> QED  BY <3>2
  <2> QED  BY <2>5, <2>6 DEF LeaseInv, Ids
<1>10. AskedInv'
  <2>1. lock # 0 => call'[lock] = call[lock]
    BY <1>2, <1>4 DEF OwnershipInv, OwnershipTypes
  <2> QED  BY <1>3, <2>1 DEF OwnershipInv, AskedInv, RevokedWasAsked, At
<1> QED  BY <1>6, <1>7, <1>8, <1>9, <1>10 DEF OwnershipInv

LEMMA EnterKeeps == ASSUME OwnershipInv, NEW i \in Calls, Enter(i) PROVE OwnershipInv'
<1>1. /\ At(i) = "waits" /\ First(i) /\ UNCHANGED <<window, listed, held, run>> /\ LeaseRests
  BY DEF Enter, LeaseRests
<1>2. CASE EndsCalls({i})
  BY <1>1, <1>2, EndsOne
<1>3. CASE Goes(i, "guarded") /\ UNCHANGED door /\ \A v \in listed \cup {Of(i)} : held[v] = 0
  <2>1. SameCalls /\ At(i)' = "guarded" /\ \A k \in Calls : k # i => At(k)' = At(k)
    BY <1>3, GoesMeans DEF OwnershipInv, OpenSteps
  <2>2. GateInv'
    <3>1. ASSUME NEW k \in Calls, InApp(k)', At(k)' \notin {"waits", "over"}
          PROVE  First(k)' /\ \A v \in listed' : held'[v] = 0
      <4>1. InApp(k)
        BY <2>1, <3>1 DEF SameCalls, InApp
      <4>2. CASE k = i
        BY <1>1, <1>3, <4>2 DEF First
      <4>3. CASE k # i
        BY <1>1, <1>3, <2>1, <3>1, <4>1, <4>3 DEF OwnershipInv, GateInv, First
      <4> QED  BY <4>2, <4>3
    <3> QED  BY <2>1, <3>1 DEF GateInv, SameCalls
  <2>3. HeldInv'
    BY <1>1 DEF OwnershipInv, HeldInv
  <2>4. LeaseInv' /\ AskedInv'
    BY <1>1, <2>1, LeaseStays
  <2>5. OwnershipTypes'
    BY <1>1, <1>3, <2>1, TypesStay DEF OwnershipInv, OwnershipTypes, LeaseRests
  <2> QED  BY <2>2, <2>3, <2>4, <2>5 DEF OwnershipInv
<1> QED  BY <1>2, <1>3 DEF Enter

LEMMA OperateKeeps == ASSUME OwnershipInv, NEW i \in Calls, Operate(i) PROVE OwnershipInv'
<1> DEFINE c == [call[i] EXCEPT !.at = call[i].next, !.next = "opens"]
<1>1. /\ At(i) = "guarded" /\ UNCHANGED <<window, listed, door, held, run>> /\ LeaseRests
      /\ call' = [call EXCEPT ![i] = c]
  BY DEF Operate, LeaseRests
<1>2. c \in OpenRecord /\ c.window = call[i].window /\ c.at \in {"prepares", "opens"}
  <2>1. call[i] \in OpenRecord /\ call[i].next \in {"prepares", "opens"}
    BY OpenListMeans DEF OwnershipInv
  <2> QED  BY <2>1 DEF OpenRecord, OpenSteps
<1> HIDE DEF c
<1>3. SameCalls /\ At(i)' = c.at /\ \A k \in Calls : k # i => At(k)' = At(k)
  BY <1>1, <1>2, BecomesMeans DEF OwnershipInv
<1>4. GateInv' /\ HeldInv'
  BY <1>1, <1>3, GateStays
<1>5. LeaseInv' /\ AskedInv'
  BY <1>1, <1>2, <1>3, LeaseStays
<1>6. OwnershipTypes'
  BY <1>1, <1>3, TypesStay DEF OwnershipInv, OwnershipTypes, LeaseRests
<1> QED  BY <1>4, <1>5, <1>6 DEF OwnershipInv

LEMMA TrustKeeps == ASSUME OwnershipInv, NEW i \in Calls, Prepare(i) \/ AnswerTrust(i) \/ GiveUp(i) PROVE OwnershipInv'
<1>1. /\ At(i) \in {"prepares", "trust", "asked"} /\ UNCHANGED <<window, listed, held, run>> /\ LeaseRests
  BY DEF Prepare, AnswerTrust, GiveUp, LeaseRests
<1>2. \/ EndsCalls({i})
      \/ UNCHANGED door /\ \E at \in {"opens", "trust", "guarded"} : Goes(i, at)
  BY DEF Prepare, AnswerTrust, GiveUp
<1>3. CASE EndsCalls({i})
  BY <1>1, <1>3, EndsOne
<1>4. CASE UNCHANGED door /\ \E at \in {"opens", "trust", "guarded"} : Goes(i, at)
  BY <1>1, <1>4, GoesOn DEF OpenSteps
<1> QED  BY <1>2, <1>3, <1>4

LEMMA TryLockKeeps == ASSUME OwnershipInv, NEW i \in Calls, TryLock(i) PROVE OwnershipInv'
<1>1. At(i) \in {"opens", "asked"} /\ UNCHANGED <<window, listed, held, run, marker, seen, revoked, demanded>>
  BY DEF TryLock
<1>2. CASE EndsCalls({i}) /\ lock' = lock
  BY <1>1, <1>2, EndsOne DEF LeaseRests
<1>3. CASE Goes(i, "denied") /\ UNCHANGED <<door, lock>>
  BY <1>1, <1>3, GoesOn DEF OpenSteps, LeaseRests
<1>4. CASE lock = 0 /\ lock' = i /\ Goes(i, "locked") /\ UNCHANGED door
  <2>1. SameCalls /\ At(i)' = "locked" /\ \A k \in Calls : k # i => At(k)' = At(k)
    BY <1>4, GoesMeans DEF OwnershipInv, OpenSteps
  <2>2. GateInv' /\ HeldInv'
    BY <1>1, <1>4, GoesStays DEF OpenSteps
  <2>3. Calls \subseteq Ids /\ 0 \notin Ids /\ i \in Nat \ {0}
    BY OpenListMeans DEF OwnershipInv
  <2>4. LeaseInv'
    <3>1. \A k \in Ids : run[k] = "none"
      BY <1>4, <2>3 DEF OwnershipInv, LeaseInv
    <3>2. \A k \in Calls : At(k) \notin {"locked", "starts"}
      BY <1>4, <2>3 DEF OwnershipInv, LeaseInv
    <3> QED  BY <1>1, <1>4, <2>1, <2>3, <3>1, <3>2 DEF LeaseInv, SameCalls, Ids
  <2>5. AskedInv'
    <3>1. call'[i].at = "locked" /\ ~revoked
      BY <1>4, <2>1 DEF At, OwnershipInv, AskedInv
    <3> QED  BY <1>1, <1>4, <2>3, <3>1 DEF AskedInv, RevokedWasAsked, At
  <2>6. OwnershipTypes'
    BY <1>1, <1>4, <2>1, <2>3, TypesStay DEF OwnershipInv, OwnershipTypes
  <2> QED  BY <2>2, <2>4, <2>5, <2>6 DEF OwnershipInv
<1> QED  BY <1>2, <1>3, <1>4 DEF TryLock

LEMMA AskOwnerKeeps == ASSUME OwnershipInv, NEW i \in Calls, AskOwner(i) PROVE OwnershipInv'
<1>1. /\ At(i) = "denied" /\ Goes(i, "asked") /\ demanded' = (lock # 0)
      /\ UNCHANGED <<window, listed, door, held, run, lock, seen, revoked>>
  BY DEF AskOwner
<1>2. SameCalls /\ At(i)' = "asked" /\ \A k \in Calls : k # i => At(k)' = At(k)
  BY <1>1, GoesMeans DEF OwnershipInv, OpenSteps
<1>3. GateInv' /\ HeldInv'
  BY <1>1, GoesStays DEF OpenSteps
<1>4. LeaseInv'
  BY <1>1, <1>2, RunStays DEF OwnershipInv, OwnershipTypes
<1>5. AskedInv'
  <2>1. lock = 0 => ~revoked
    BY DEF OwnershipInv, AskedInv
  <2>2. revoked' => lock # 0
    BY <1>1, <2>1
  <2> QED  BY <1>1, <2>1, <2>2 DEF AskedInv, RevokedWasAsked
<1>6. OwnershipTypes'
  BY <1>1, <1>2, TypesStay DEF OwnershipInv, OwnershipTypes
<1> QED  BY <1>3, <1>4, <1>5, <1>6 DEF OwnershipInv

LEMMA BeginLeaseKeeps == ASSUME OwnershipInv, NEW i \in Calls, BeginLease(i) PROVE OwnershipInv'
<1>1. /\ At(i) = "locked" /\ Goes(i, "starts") /\ seen' = marker
      /\ UNCHANGED <<window, listed, door, held, run, lock, marker, revoked, demanded>>
  BY DEF BeginLease
<1>2. SameCalls /\ At(i)' = "starts" /\ \A k \in Calls : k # i => At(k)' = At(k)
  BY <1>1, GoesMeans DEF OwnershipInv, OpenSteps
<1>3. GateInv' /\ HeldInv'
  BY <1>1, GoesStays DEF OpenSteps
<1>4. LeaseInv'
  BY <1>1, <1>2, RunStays DEF OwnershipInv, OwnershipTypes
<1>5. AskedInv'
  BY <1>1 DEF OwnershipInv, AskedInv, RevokedWasAsked
<1>6. OwnershipTypes'
  BY <1>1, <1>2, TypesStay DEF OwnershipInv, OwnershipTypes
<1> QED  BY <1>3, <1>4, <1>5, <1>6 DEF OwnershipInv

LEMMA SeeRequestKeeps == ASSUME OwnershipInv, NEW i \in Calls, SeeRequest(i) PROVE OwnershipInv'
<1>1. /\ lock = i /\ At(i) # "locked" /\ marker # seen /\ revoked' = TRUE
      /\ UNCHANGED <<window, listed, door, call, held, run, lock, marker, seen, demanded>>
  BY DEF SeeRequest
<1>2. GateInv' /\ HeldInv' /\ SameCalls /\ \A k \in Calls : At(k)' = At(k)
  BY <1>1, RestStays
<1>3. LeaseInv'
  BY <1>1, <1>2, RunStays DEF OwnershipInv, OwnershipTypes
<1>4. AskedInv'
  <2>1. lock # 0 /\ demanded
    BY <1>1, OpenListMeans DEF OwnershipInv, AskedInv
  <2> QED  BY <1>1, <2>1 DEF AskedInv, RevokedWasAsked
<1>5. OwnershipTypes'
  BY <1>1, <1>2, TypesStay DEF OwnershipInv, OwnershipTypes
<1> QED  BY <1>2, <1>3, <1>4, <1>5 DEF OwnershipInv

\* The lease is released when no engine runs under it and no call is to start one.
LEMMA ReleaseStays ==
  ASSUME OwnershipInv, SameCalls, lock' = 0, revoked' = FALSE, demanded' = FALSE,
         \A k \in Ids : run'[k] = "none", \A k \in Calls : At(k)' \notin {"locked", "starts"}
  PROVE  LeaseInv' /\ AskedInv'
<1>1. Calls \subseteq Ids
  BY OpenListMeans DEF OwnershipInv
<1>2. LeaseInv'
  BY <1>1 DEF LeaseInv, SameCalls, Ids
<1> QED  BY <1>2 DEF AskedInv, RevokedWasAsked

LEMMA StartRuntimeKeeps == ASSUME OwnershipInv, NEW i \in Calls, StartRuntime(i) PROVE OwnershipInv'
<1>1. /\ At(i) = "starts" /\ UNCHANGED <<window, listed, held>>
      /\ lock = i /\ i \in Ids /\ run[i] = "none" /\ run \in RunTable
  BY OpenListMeans DEF StartRuntime, OwnershipInv, LeaseInv, OwnershipTypes
<1>2. \A k \in Calls : k # i => At(k) \notin {"locked", "starts"}
  BY <1>1 DEF OwnershipInv, LeaseInv
<1>3. \A k \in Ids : k # i => run[k] = "none"
  BY <1>1 DEF OwnershipInv, LeaseInv
<1>4. \A s \in {"open", "closed"} : [run EXCEPT ![i] = s] \in RunTable
  BY <1>1 DEF RunTable
<1>5. ASSUME SameCalls, At(i)' \in {"registered", "over"}, \A k \in Calls : k # i => At(k)' = At(k),
             NEW s \in {"open", "closed"}, run' = [run EXCEPT ![i] = s], LeaseRests
      PROVE  LeaseInv' /\ AskedInv'
  <2>1. \A k \in Ids : k # i => run'[k] = "none"
    BY <1>1, <1>3, <1>5 DEF RunTable
  <2>2. LeaseInv'
    <3>1. Calls \subseteq Ids
      BY OpenListMeans DEF OwnershipInv
    <3> QED  BY <1>1, <1>2, <1>5, <2>1, <3>1 DEF LeaseInv, SameCalls, LeaseRests, Ids
  <2>3. AskedInv'
    BY <1>1, <1>5, AskedStays
  <2> QED  BY <2>2, <2>3
<1>6. CASE /\ run' = [run EXCEPT ![i] = "open"] /\ Goes(i, "registered") /\ UNCHANGED door /\ LeaseRests
  <2>1. SameCalls /\ At(i)' = "registered" /\ \A k \in Calls : k # i => At(k)' = At(k)
    BY <1>6, GoesMeans DEF OwnershipInv, OpenSteps
  <2>2. GateInv' /\ HeldInv'
    BY <1>1, <1>6, GoesStays DEF OpenSteps
  <2>3. OwnershipTypes'
    BY <1>1, <1>4, <1>6, <2>1, TypesStay DEF OwnershipInv, OwnershipTypes, LeaseRests
  <2> QED  BY <1>5, <1>6, <2>1, <2>2, <2>3 DEF OwnershipInv
<1>7. CASE /\ run' = [run EXCEPT ![i] = "closed"] /\ EndsCalls({i}) /\ LeaseRests
  <2>1. SameCalls /\ door' \subseteq door /\ At(i)' = "over" /\ \A k \in Calls : k # i => At(k)' = At(k)
    BY <1>7, EndsMeans DEF OwnershipInv
  <2>2. GateInv' /\ HeldInv'
    BY <1>1, <1>7, EndsStays
  <2>3. OwnershipTypes'
    BY <1>1, <1>4, <1>7, <2>1, TypesStay DEF OwnershipInv, OwnershipTypes, LeaseRests
  <2> QED  BY <1>5, <1>7, <2>1, <2>2, <2>3 DEF OwnershipInv
<1>8. CASE EndsCalls({i}) /\ Released(i) /\ UNCHANGED run
  <2>1. SameCalls /\ door' \subseteq door /\ At(i)' = "over" /\ \A k \in Calls : k # i => At(k)' = At(k)
    BY <1>8, EndsMeans DEF OwnershipInv
  <2>2. GateInv' /\ HeldInv'
    BY <1>1, <1>8, EndsStays
  <2>3. lock' = 0 /\ revoked' = FALSE /\ demanded' = FALSE
    BY <1>8 DEF Released
  <2>4. LeaseInv' /\ AskedInv'
    <3>1. \A k \in Calls : At(k)' \notin {"locked", "starts"}
      BY <1>2, <2>1
    <3>2. \A k \in Ids : run'[k] = "none"
      BY <1>1, <1>3, <1>8
    <3> QED  BY <2>1, <2>3, <3>1, <3>2, ReleaseStays
  <2>5. OwnershipTypes'
    BY <1>1, <1>8, <2>1, <2>3, TypesStay DEF OwnershipInv, OwnershipTypes
  <2> QED  BY <2>2, <2>4, <2>5 DEF OwnershipInv
<1> QED  BY <1>6, <1>7, <1>8 DEF StartRuntime, LeaseRests

LEMMA ShutMeans ==
  ASSUME OwnershipTypes, NEW ids, Shut(ids)
  PROVE  run' \in RunTable /\ \A k \in Ids : run'[k] # "none" => run[k] # "none"
BY DEF OwnershipTypes, Shut, RunTable

LEMMA HoldKeeps == ASSUME OwnershipInv, NEW i \in Calls, Hold(i) PROVE OwnershipInv'
<1>1. At(i) = "registered" /\ EndsCalls({i}) /\ UNCHANGED <<window, listed>> /\ LeaseRests
  BY DEF Hold, LeaseRests
<1>2. SameCalls /\ door' = door \ {i} /\ At(i)' = "over" /\ \A k \in Calls : k # i => At(k)' = At(k)
  BY <1>1, EndsMeans DEF OwnershipInv
<1>3. AskedInv'
  BY <1>1, <1>2, AskedStays
<1>4. CASE Shut({i}) /\ UNCHANGED held
  <2>1. run' \in RunTable /\ \A k \in Ids : run'[k] # "none" => run[k] # "none"
    BY <1>4, ShutMeans DEF OwnershipInv
  <2>2. GateInv' /\ HeldInv'
    BY <1>1, <1>4, EndsStays
  <2>3. LeaseInv'
    BY <1>1, <1>2, <2>1, RunStays DEF LeaseRests
  <2>4. OwnershipTypes'
    BY <1>1, <1>2, <1>4, <2>1, TypesStay DEF OwnershipInv, OwnershipTypes, LeaseRests
  <2> QED  BY <1>3, <2>2, <2>3, <2>4 DEF OwnershipInv
<1>5. CASE held' = [held EXCEPT ![Of(i)] = i] /\ UNCHANGED run
  <2>1. held \in HeldTable /\ listed \subseteq AppWindows /\ AppWindows \subseteq Clients /\ i \in Nat
    BY OpenListMeans DEF OwnershipInv, OwnershipTypes, Clients
  <2>2. held' \in HeldTable /\ \A w \in listed : held'[w] = IF w = Of(i) THEN i ELSE held[w]
    BY <1>5, <2>1 DEF HeldTable
  <2>3. InApp(i) => First(i) /\ \A w \in listed : held[w] = 0
    BY <1>1 DEF OwnershipInv, GateInv
  <2>4. ~InApp(i) => \A w \in listed : held'[w] = held[w]
    BY <2>1, <2>2 DEF InApp
  <2>5. HeldInv'
    BY <1>1, <2>2, <2>3, <2>4 DEF OwnershipInv, HeldInv
  <2>6. GateInv'
    <3>1. ASSUME NEW k \in Calls, InApp(k)', At(k)' \notin {"waits", "over"}
          PROVE  First(k)' /\ \A w \in listed' : held'[w] = 0
      <4>1. InApp(k) /\ k # i /\ At(k) \notin {"waits", "over"}
        BY <1>2, <3>1 DEF SameCalls, InApp
      <4>2. First(k) /\ \A w \in listed : held[w] = 0
        BY <4>1 DEF OwnershipInv, GateInv
      <4>3. ~InApp(i)
        <5>1. k \in Nat /\ i \in Nat
          BY OpenListMeans DEF OwnershipInv
        <5> QED  BY <2>3, <4>1, <4>2, <5>1 DEF First
      <4>4. First(k)'
        BY <1>2, <4>1, <4>2 DEF First
      <4> QED  BY <1>1, <2>4, <4>2, <4>3, <4>4
    <3> QED  BY <1>2, <3>1 DEF GateInv, SameCalls
  <2>7. LeaseInv'
    BY <1>1, <1>2, <1>5, LeaseStays
  <2>8. OwnershipTypes'
    BY <1>1, <1>2, <1>5, <2>2, TypesStay DEF OwnershipInv, OwnershipTypes, LeaseRests
  <2> QED  BY <1>3, <2>5, <2>6, <2>7, <2>8 DEF OwnershipInv
<1> QED  BY <1>4, <1>5 DEF Hold

\* Engines are closed, and windows let go of the thread.
LEMMA ShutKeeps ==
  ASSUME OwnershipInv, NEW ids, Shut(ids), UNCHANGED <<call, door, listed>>, LeaseRests,
         window' \in WindowStates, held' \in HeldTable, \A w \in listed : held'[w] \in {0, held[w]}
  PROVE  OwnershipInv'
<1>1. run' \in RunTable /\ \A k \in Ids : run'[k] # "none" => run[k] # "none"
  BY ShutMeans DEF OwnershipInv
<1>2. GateInv' /\ HeldInv' /\ SameCalls /\ \A k \in Calls : At(k)' = At(k)
  BY RestStays
<1>3. LeaseInv'
  BY <1>1, <1>2, RunStays DEF LeaseRests
<1>4. AskedInv'
  BY <1>2, AskedStays
<1>5. OwnershipTypes'
  BY <1>1, <1>2, TypesStay DEF OwnershipInv, OwnershipTypes, LeaseRests
<1> QED  BY <1>2, <1>3, <1>4, <1>5 DEF OwnershipInv

LEMMA LettingGoKeeps ==
  ASSUME OwnershipInv,
         (\E i \in Calls : HearRevoked(i)) \/ (\E w \in Clients : LetGo(w) \/ CloseClient(w))
  PROVE  OwnershipInv'
<1>1. window \in WindowStates /\ held \in HeldTable /\ listed \subseteq Clients
  BY DEF OwnershipInv, OwnershipTypes, Clients
<1>2. ASSUME NEW i \in Calls, HearRevoked(i) PROVE OwnershipInv'
  <2>1. Shut({i}) /\ UNCHANGED <<window, listed, door, call, held>> /\ LeaseRests
    BY <1>2 DEF HearRevoked, LeaseRests
  <2> HIDE DEF Shut
  <2> QED  BY <1>1, <2>1, ShutKeeps
<1>3. ASSUME NEW w \in Clients, LetGo(w) PROVE OwnershipInv'
  <2>1. Shut({held[w]}) /\ UNCHANGED <<window, listed, door, call>> /\ LeaseRests /\ held' = [held EXCEPT ![w] = 0]
    BY <1>3 DEF LetGo, LeaseRests
  <2>2. held' \in HeldTable /\ \A v \in listed : held'[v] \in {0, held[v]}
    BY <1>1, <2>1 DEF HeldTable
  <2> QED  BY <1>1, <2>1, <2>2, ShutKeeps
<1>4. ASSUME NEW w \in Clients, CloseClient(w) PROVE OwnershipInv'
  <2>1. Shut({i \in known : Of(i) = w}) /\ UNCHANGED <<listed, door, call, held>> /\ LeaseRests
        /\ window' = [window EXCEPT ![w] = "closed"]
    BY <1>4 DEF CloseClient, LeaseRests
  <2>2. window' \in WindowStates
    BY <1>1, <2>1 DEF WindowStates
  <2> QED  BY <1>1, <2>1, <2>2, ShutKeeps
<1> QED  BY <1>2, <1>3, <1>4

LEMMA ShutdownKeeps == ASSUME OwnershipInv, NEW i \in Calls, Shutdown(i) PROVE OwnershipInv'
<1>1. /\ run[i] = "closed" /\ run' = [run EXCEPT ![i] = "none"] /\ UNCHANGED <<window, listed, door, call, held>>
      /\ lock' = 0 /\ revoked' = FALSE /\ demanded' = FALSE
  BY DEF Shutdown, Released
<1>2. i \in Ids /\ run \in RunTable
  BY OpenListMeans DEF OwnershipInv, OwnershipTypes
<1>3. lock = i /\ At(i) \in {"registered", "over"}
  BY <1>1, <1>2 DEF OwnershipInv, LeaseInv
<1>4. run' \in RunTable /\ \A k \in Ids : run'[k] = "none"
  BY <1>1, <1>2, <1>3 DEF OwnershipInv, LeaseInv, RunTable
<1>5. GateInv' /\ HeldInv' /\ SameCalls /\ \A k \in Calls : At(k)' = At(k)
  BY <1>1, RestStays
<1>6. \A k \in Calls : At(k)' \notin {"locked", "starts"}
  BY <1>3, <1>5 DEF OwnershipInv, LeaseInv
<1>7. LeaseInv' /\ AskedInv'
  BY <1>1, <1>4, <1>5, <1>6, ReleaseStays
<1>8. OwnershipTypes'
  BY <1>1, <1>4, <1>5, TypesStay DEF OwnershipInv, OwnershipTypes
<1> QED  BY <1>5, <1>7, <1>8 DEF OwnershipInv

\* Calls of a window or of a process are dropped, and the lease with the one that holds it.
LEMMA DroppedKeeps ==
  ASSUME OwnershipInv, NEW ids, Dropped(ids), listed' \subseteq listed, window' \in WindowStates,
         held' \in HeldTable, \A w \in listed : held'[w] \in {0, held[w]},
         \/ lock \in ids /\ lock' = 0 /\ revoked' = FALSE /\ demanded' = FALSE
         \/ lock \notin ids /\ UNCHANGED <<lock, marker, seen, revoked, demanded>>
  PROVE  OwnershipInv'
<1>1. EndsCalls(ids) /\ run' = [i \in Ids |-> IF i \in ids THEN "none" ELSE run[i]]
  BY DEF Dropped
<1>2. SameCalls /\ door' = door \ ids /\ \A k \in Calls : At(k)' = IF k \in ids THEN "over" ELSE At(k)
  BY <1>1, EndsMeans DEF OwnershipInv
<1>3. GateInv' /\ HeldInv'
  BY <1>1, EndsStays
<1>4. run' \in RunTable
  BY <1>1 DEF OwnershipInv, OwnershipTypes, RunTable
<1>5. /\ \A k \in Ids : run[k] # "none" => lock = k
      /\ \A k \in Calls : At(k) \in {"locked", "starts"} => lock = k
  BY DEF OwnershipInv, LeaseInv
<1>6. CASE lock \in ids /\ lock' = 0 /\ revoked' = FALSE /\ demanded' = FALSE
  <2>1. \A k \in Ids : run'[k] = "none"
    BY <1>1, <1>5, <1>6
  <2>2. \A k \in Calls : At(k)' \notin {"locked", "starts"}
    BY <1>2, <1>5, <1>6
  <2>3. LeaseInv' /\ AskedInv'
    BY <1>2, <1>6, <2>1, <2>2, ReleaseStays
  <2>4. OwnershipTypes'
    BY <1>2, <1>4, <1>6, TypesStay
  <2> QED  BY <1>3, <2>3, <2>4 DEF OwnershipInv
<1>7. CASE lock \notin ids /\ LeaseRests
  <2>1. \A k \in Ids : run'[k] # "none" => run[k] # "none"
    BY <1>1
  <2>2. LeaseInv'
    BY <1>2, <1>4, <1>7, <2>1, RunStays DEF LeaseRests
  <2>3. AskedInv'
    BY <1>2, <1>5, <1>7, AskedStays
  <2>4. OwnershipTypes'
    BY <1>2, <1>4, <1>7, TypesStay DEF OwnershipInv, OwnershipTypes, LeaseRests
  <2> QED  BY <1>3, <2>2, <2>3, <2>4 DEF OwnershipInv
<1> QED  BY <1>6, <1>7 DEF LeaseRests

LEMMA ClosingKeeps ==
  ASSUME OwnershipInv, NEW w \in Clients, CloseStarts(w) \/ CloseEnds(w) \/ Crash(w)
  PROVE  OwnershipInv'
<1>1. window \in WindowStates /\ held \in HeldTable /\ listed \subseteq Clients
  BY DEF OwnershipInv, OwnershipTypes, Clients
<1>2. \A s \in {"closing", "gone"} : [window EXCEPT ![w] = s] \in WindowStates
  BY <1>1 DEF WindowStates
<1>3. [held EXCEPT ![w] = 0] \in HeldTable /\ \A v \in listed : [held EXCEPT ![w] = 0][v] \in {0, held[v]}
  BY <1>1 DEF HeldTable
<1>4. CASE CloseStarts(w)
  <2> DEFINE aborted == {i \in Calls : Of(i) = w /\ At(i) \notin {"waits", "guarded", "over"}}
  <2>1. /\ window' = [window EXCEPT ![w] = "closing"] /\ listed' \subseteq listed /\ held' = held /\ Dropped(aborted)
        /\ IF lock \in aborted THEN Released(lock) ELSE UNCHANGED <<lock, marker, seen, revoked, demanded>>
    BY <1>4 DEF CloseStarts
  <2> HIDE DEF aborted
  <2>2. \/ lock \in aborted /\ lock' = 0 /\ revoked' = FALSE /\ demanded' = FALSE
        \/ lock \notin aborted /\ UNCHANGED <<lock, marker, seen, revoked, demanded>>
    BY <2>1 DEF Released
  <2> QED  BY <1>1, <1>2, <2>1, <2>2, DroppedKeeps
<1>5. CASE CloseEnds(w)
  <2> DEFINE asking == {i \in Calls : Of(i) = w /\ At(i) = "trust"}
  <2>1. /\ window' = [window EXCEPT ![w] = "gone"] /\ listed' \subseteq listed /\ held' = [held EXCEPT ![w] = 0]
        /\ EndsCalls(asking) /\ run' = run /\ LeaseRests
    BY <1>5 DEF CloseEnds, LeaseRests
  <2>2. \A k \in Calls : k \in asking => At(k) # "locked"
    OBVIOUS
  <2> HIDE DEF asking
  <2> QED  BY <1>2, <1>3, <2>1, <2>2, EndsOn
<1>6. CASE Crash(w)
  <2> DEFINE dropped == {i \in Calls : Of(i) = w}
  <2>1. /\ window' = [window EXCEPT ![w] = "gone"] /\ listed' = listed /\ held' = [held EXCEPT ![w] = 0] /\ Dropped(dropped)
        /\ marker' = marker
        /\ IF lock \in dropped THEN Released(0) ELSE UNCHANGED <<lock, seen, revoked, demanded>>
    BY <1>6 DEF Crash
  <2> HIDE DEF dropped
  <2>2. \/ lock \in dropped /\ lock' = 0 /\ revoked' = FALSE /\ demanded' = FALSE
        \/ lock \notin dropped /\ UNCHANGED <<lock, marker, seen, revoked, demanded>>
    BY <2>1 DEF Released
  <2> QED  BY <1>2, <1>3, <2>1, <2>2, DroppedKeeps
<1> QED  BY <1>4, <1>5, <1>6

\* opening.rs, state.rs owned_elsewhere and local/lease.rs: whatever windows and other processes ask, trust,
\* abort, take over and close, at most one window of the application shows the thread and at most one runtime
\* of it is open, and the owner of its lease is revoked only by a takeover that was asked of it.
THEOREM OwnerIsAlwaysOne == OwnershipSpec => []OneOwner
<1>1. OwnershipInv /\ [OwnershipNext]_ownershipVars => OwnershipInv'
  <2>1. ASSUME OwnershipInv, UNCHANGED ownershipVars PROVE OwnershipInv'
    <3>1. UNCHANGED <<window, listed, door, call, held, run, lock, marker, seen, revoked, demanded>>
      BY <2>1 DEF ownershipVars
    <3>2. GateInv' /\ HeldInv' /\ SameCalls /\ \A k \in Calls : At(k)' = At(k)
      BY <2>1, <3>1, RestStays
    <3>3. LeaseInv' /\ AskedInv'
      BY <2>1, <3>1, <3>2, LeaseStays DEF LeaseRests
    <3>4. OwnershipTypes'
      BY <2>1, <3>1, <3>2, TypesStay DEF OwnershipInv, OwnershipTypes
    <3> QED  BY <3>2, <3>3, <3>4 DEF OwnershipInv
  <2> QED  BY <2>1, AskToOpenKeeps, EnterKeeps, OperateKeeps, TrustKeeps, TryLockKeeps, AskOwnerKeeps, BeginLeaseKeeps,
              SeeRequestKeeps, StartRuntimeKeeps, HoldKeeps, LettingGoKeeps, ShutdownKeeps, ClosingKeeps DEF OwnershipNext
<1> QED  BY <1>1, OwnershipInitially, OwnershipImplies, PTL DEF OwnershipSpec

-----------------------------------------------------------------------------
(* NativeFrontend: where the notices of a prompt are, between the engine and the user. *)

FrontendSpec == FrontendInit /\ [][FrontendNext]_frontendVars

PromptNotes == [kind : {"ask", "resolved"}, prompt : Nat \ {0}]
PromptRecord == [id : Int, at : {"asked", "answered", "over"}]
FrontendConnection == [on : BOOLEAN, delivered : SUBSET (Nat \ {0}), out : Seq(PromptNotes), failed : BOOLEAN,
                       resume : {"no", "asked", "answered", "done"}, taken : SUBSET (Nat \ {0})]

FrontendTypeOK ==
  /\ prompts \in Seq(PromptRecord)
  /\ inbox \in Seq(PromptNotes) /\ live \in Seq(PromptNotes) /\ hand \in PromptNotes \cup {NoEvent}
  /\ pending \in SUBSET (Nat \ {0}) /\ screen \in SUBSET (Nat \ {0}) /\ silenced \in SUBSET (Nat \ {0})
  /\ said \in Seq(Nat \ {0})
  /\ conn \in FrontendConnection /\ lagged \in BOOLEAN /\ gone \in BOOLEAN
  /\ since \in Nat

AskComing(p) == Ask(p) \in Range(inbox)
EndComing(p) == Resolved(p) \in Range(inbox)
AskTold(p) == hand = Ask(p) \/ Ask(p) \in Range(live)
EndTold(p) == hand = Resolved(p) \/ Resolved(p) \in Range(live)
AskQueued(p) == Ask(p) \in Range(conn.out)
EndQueued(p) == Resolved(p) \in Range(conn.out)
Shown(p) == p \in screen \/ p \in Range(said) \/ p \in conn.taken
Nowhere(p) == /\ ~AskComing(p) /\ ~EndComing(p) /\ ~AskTold(p) /\ ~EndTold(p) /\ ~AskQueued(p) /\ ~EndQueued(p) /\ ~Shown(p)
              /\ p \notin pending /\ p \notin conn.delivered

\* A request is the first that a queue says of its prompt.
AsksFirst(s) == \A n, m \in DOMAIN s : n < m /\ s[m].kind = "ask" => s[n].prompt # s[m].prompt

\* Nothing tells of a prompt before the engine does, and a request is nowhere but where it is read first.
ComingInv(p) ==
  /\ p \notin DOMAIN prompts => Nowhere(p)
  /\ AskComing(p) => /\ p \notin pending /\ p \notin conn.delivered /\ ~Shown(p)
                  /\ ~AskQueued(p) /\ ~EndQueued(p) /\ ~AskTold(p) /\ ~EndTold(p)
  /\ hand = Ask(p) => Ask(p) \notin Range(live) /\ Resolved(p) \notin Range(live)
\* What is pending is what the engine asks, answered and resolved notices apart.
StageOf(p) ==
  p \in DOMAIN prompts =>
    /\ prompts[p].at = "asked" => (p \in pending \/ AskComing(p)) /\ ~EndComing(p) /\ ~EndTold(p) /\ ~EndQueued(p)
    /\ prompts[p].at = "answered" => p \notin pending /\ ~AskComing(p)
    /\ prompts[p].at = "over" /\ (p \in pending \/ AskComing(p)) => EndComing(p)
EndedInv(p) ==
  /\ EndTold(p) \/ EndQueued(p) => p \notin pending
  /\ EndQueued(p) => ~AskTold(p)
\* What a connection was given of a prompt is recorded as delivered as long as another copy may come.
DeliveredInv(p) ==
  /\ Shown(p) \/ AskQueued(p) => p \in conn.delivered \/ (p \notin pending /\ ~AskTold(p))
  /\ Shown(p) => ~AskQueued(p)
  /\ p \in screen => p \notin Range(said) /\ p \notin conn.taken
  /\ p \in conn.taken => p \notin pending
\* A prompt that waits for the user is before him, or on its way to him.
SeenInv(p) ==
  /\ p \in pending /\ p \in conn.delivered /\ ~conn.failed => p \in screen \/ p \in Range(said) \/ AskQueued(p)
  /\ p \in pending /\ conn.resume = "done" /\ ~conn.failed /\ ~lagged /\ ~gone
       => p \in screen \/ p \in Range(said) \/ AskQueued(p) \/ AskTold(p)
\* One that does not wait any more is followed by its end.
Settling(p) == p \in pending \/ p \in silenced \/ prompts[p].at = "answered" \/ EndComing(p) \/ EndTold(p)
LeftInv(p) ==
  /\ AskTold(p) => Settling(p)
  /\ p \in screen \/ AskQueued(p) => Settling(p) \/ EndQueued(p) \/ lagged \/ gone \/ conn.failed
ConnInv == ~conn.on => conn = NoConnection /\ screen = {} /\ said = <<>>

NoticeInv(p) == ComingInv(p) /\ StageOf(p) /\ EndedInv(p) /\ DeliveredInv(p) /\ SeenInv(p) /\ LeftInv(p)
FrontendInv == /\ AsksFirst(inbox) /\ AsksFirst(live) /\ AsksFirst(conn.out) /\ ConnInv
               /\ \A p \in Nat \ {0} : NoticeInv(p)

LEMMA NoticesAre ==
  /\ \A p \in Nat \ {0} : /\ Ask(p) \in PromptNotes /\ Ask(p).kind = "ask" /\ Ask(p).prompt = p
                          /\ Resolved(p) \in PromptNotes /\ Resolved(p).kind = "resolved" /\ Resolved(p).prompt = p
  /\ \A p, q : /\ Ask(p) # Resolved(q) /\ Ask(p) # NoEvent /\ Resolved(p) # NoEvent
               /\ Ask(p) = Ask(q) => p = q
               /\ Resolved(p) = Resolved(q) => p = q
  /\ \A e \in PromptNotes : /\ e.prompt \in Nat \ {0} /\ e # NoEvent
                            /\ e.kind = "ask" => e = Ask(e.prompt)
                            /\ e.kind # "ask" => e = Resolved(e.prompt) /\ e.kind = "resolved"
<1>1. \A p \in Nat \ {0} : /\ Ask(p) \in PromptNotes /\ Ask(p).kind = "ask" /\ Ask(p).prompt = p
                           /\ Resolved(p) \in PromptNotes /\ Resolved(p).kind = "resolved" /\ Resolved(p).prompt = p
  BY DEF Ask, Resolved, PromptNotes
<1>2. ASSUME NEW p, NEW q
      PROVE  /\ Ask(p) # Resolved(q) /\ Ask(p) # NoEvent /\ Resolved(p) # NoEvent
             /\ Ask(p) = Ask(q) => p = q
             /\ Resolved(p) = Resolved(q) => p = q
  <2>1. /\ Ask(p).kind = "ask" /\ Resolved(p).kind = "resolved" /\ Resolved(q).kind = "resolved" /\ NoEvent.kind = "none"
        /\ Ask(p).prompt = p /\ Ask(q).prompt = q /\ Resolved(p).prompt = p /\ Resolved(q).prompt = q
    BY DEF Ask, Resolved, NoEvent
  <2> QED  BY <2>1
<1>3. ASSUME NEW e \in PromptNotes
      PROVE  /\ e.prompt \in Nat \ {0} /\ e # NoEvent
             /\ e.kind = "ask" => e = Ask(e.prompt)
             /\ e.kind # "ask" => e = Resolved(e.prompt) /\ e.kind = "resolved"
  <2>1. e.prompt \in Nat \ {0} /\ e.kind \in {"ask", "resolved"} /\ e = [kind |-> e.kind, prompt |-> e.prompt]
    BY DEF PromptNotes
  <2>2. NoEvent.kind = "none"
    BY DEF NoEvent
  <2> QED  BY <2>1, <2>2 DEF Ask, Resolved
<1> QED  BY <1>1, <1>2, <1>3

\* What a queue of notices holds, at each of its places.
LEMMA RangeMeans ==
  ASSUME NEW X, NEW s \in Seq(X)
  PROVE  /\ \A e : e \in Range(s) <=> \E n \in DOMAIN s : s[n] = e
         /\ \A n \in DOMAIN s : s[n] \in Range(s) /\ s[n] \in X
         /\ Range(s) \subseteq X /\ DOMAIN s = 1 .. Len(s) /\ Len(s) \in Nat
         /\ s = <<>> => Range(s) = {}
<1>1. DOMAIN s = 1 .. Len(s) /\ Len(s) \in Nat
  BY LenProperties
<1>2. \A n \in DOMAIN s : s[n] \in X
  BY <1>1, ElementOfSeq
<1>3. s = <<>> => DOMAIN s = {}
  BY <1>1, EmptySeq
<1> QED  BY <1>1, <1>2, <1>3 DEF Range

LEMMA AppendHolds ==
  ASSUME NEW X, NEW s \in Seq(X), NEW e \in X
  PROVE  /\ Append(s, e) \in Seq(X) /\ Range(Append(s, e)) = Range(s) \cup {e}
         /\ Append(s, e) # <<>>
<1> DEFINE t == Append(s, e)
<1>1. /\ t \in Seq(X) /\ Len(s) \in Nat /\ DOMAIN s = 1 .. Len(s) /\ DOMAIN t = 1 .. (Len(s) + 1)
      /\ t[Len(s) + 1] = e /\ \A n \in 1 .. Len(s) : t[n] = s[n]
  BY AppendMeans
<1>2. t # <<>>
  BY AppendProperties
<1> HIDE DEF t
<1>3. DOMAIN t = DOMAIN s \cup {Len(s) + 1}
  BY <1>1
<1>4. Range(t) = Range(s) \cup {e}
  BY <1>1, <1>3 DEF Range
<1> QED  BY <1>1, <1>2, <1>4 DEF t

LEMMA TailHolds ==
  ASSUME NEW X, NEW s \in Seq(X), s # <<>>
  PROVE  /\ Head(s) \in X /\ Tail(s) \in Seq(X) /\ Range(s) = {Head(s)} \cup Range(Tail(s))
<1> DEFINE t == Tail(s)
           h == Head(s)
<1>1. /\ h \in X /\ h = s[1] /\ t \in Seq(X) /\ Len(s) \in Nat \ {0}
      /\ DOMAIN s = 1 .. Len(s) /\ DOMAIN t = 1 .. (Len(s) - 1)
      /\ \A n \in 1 .. (Len(s) - 1) : t[n] = s[n + 1]
  BY TailMeans
<1> HIDE DEF t, h
<1>2. ASSUME NEW n \in DOMAIN t PROVE t[n] \in Range(s)
  <2>1. n + 1 \in DOMAIN s /\ t[n] = s[n + 1]
    BY <1>1
  <2> QED  BY <2>1 DEF Range
<1>3. ASSUME NEW n \in DOMAIN s, s[n] # h PROVE s[n] \in Range(t)
  <2>1. n - 1 \in DOMAIN t /\ t[n - 1] = s[n]
    BY <1>1, <1>3
  <2> QED  BY <2>1 DEF Range
<1>4. h \in Range(s)
  <2>1. 1 \in DOMAIN s /\ s[1] = h
    BY <1>1
  <2> QED  BY <2>1 DEF Range
<1>5. Range(s) = {h} \cup Range(t)
  BY <1>2, <1>3, <1>4 DEF Range
<1> QED  BY <1>1, <1>5 DEF t, h

LEMMA JoinHolds ==
  ASSUME NEW X, NEW s \in Seq(X), NEW t \in Seq(X)
  PROVE  s \o t \in Seq(X) /\ Range(s \o t) = Range(s) \cup Range(t)
BY ConcatProperties, RangeConcatenation

-----------------------------------------------------------------------------
(* The order of the notices about one prompt. *)

Unsaid(p, s) == Ask(p) \notin Range(s) /\ Resolved(p) \notin Range(s)

LEMMA UnsaidMeans ==
  ASSUME NEW s \in Seq(PromptNotes), NEW p
  PROVE  Unsaid(p, s) => \A n \in DOMAIN s : s[n].prompt # p
<1>1. \A n \in DOMAIN s : s[n] \in Range(s) /\ s[n] \in PromptNotes
  BY RangeMeans
<1> QED  BY <1>1, NoticesAre DEF Unsaid

LEMMA AppendOrdered ==
  ASSUME NEW s \in Seq(PromptNotes), NEW e \in PromptNotes, AsksFirst(s), e.kind = "ask" => Unsaid(e.prompt, s)
  PROVE  AsksFirst(Append(s, e))
<1> DEFINE t == Append(s, e)
<1>1. /\ Len(s) \in Nat /\ DOMAIN s = 1 .. Len(s) /\ DOMAIN t = 1 .. (Len(s) + 1)
      /\ t[Len(s) + 1] = e /\ \A n \in 1 .. Len(s) : t[n] = s[n]
  BY AppendMeans
<1>2. e.kind = "ask" => \A n \in DOMAIN s : s[n].prompt # e.prompt
  BY UnsaidMeans
<1> HIDE DEF t
<1>3. ASSUME NEW n \in DOMAIN t, NEW m \in DOMAIN t, n < m, t[m].kind = "ask" PROVE t[n].prompt # t[m].prompt
  <2>1. n \in DOMAIN s /\ t[n] = s[n]
    BY <1>1, <1>3
  <2>2. CASE m = Len(s) + 1
    BY <1>1, <1>2, <1>3, <2>1, <2>2
  <2>3. CASE m # Len(s) + 1
    <3>1. m \in DOMAIN s /\ t[m] = s[m]
      BY <1>1, <2>3
    <3> QED  BY <1>3, <2>1, <3>1 DEF AsksFirst
  <2> QED  BY <2>2, <2>3
<1>4. AsksFirst(t)
  BY <1>3 DEF AsksFirst
<1> QED  BY <1>4 DEF t

LEMMA TailOrdered ==
  ASSUME NEW s \in Seq(PromptNotes), s # <<>>, AsksFirst(s)
  PROVE  AsksFirst(Tail(s)) /\ Ask(Head(s).prompt) \notin Range(Tail(s))
<1> DEFINE t == Tail(s)
           h == Head(s)
<1>1. /\ h = s[1] /\ Len(s) \in Nat \ {0}
      /\ DOMAIN s = 1 .. Len(s) /\ DOMAIN t = 1 .. (Len(s) - 1) /\ t \in Seq(PromptNotes)
      /\ \A n \in 1 .. (Len(s) - 1) : t[n] = s[n + 1]
  BY TailMeans
<1> HIDE DEF t, h
<1>2. ASSUME NEW n \in DOMAIN t, NEW m \in DOMAIN t, n < m, t[m].kind = "ask" PROVE t[n].prompt # t[m].prompt
  <2>1. n + 1 \in DOMAIN s /\ m + 1 \in DOMAIN s /\ n + 1 < m + 1 /\ t[n] = s[n + 1] /\ t[m] = s[m + 1]
    BY <1>1, <1>2
  <2> QED  BY <1>2, <2>1 DEF AsksFirst
<1>3. ASSUME NEW n \in DOMAIN t, t[n] = Ask(h.prompt) PROVE FALSE
  <2>1. n + 1 \in DOMAIN s /\ 1 \in DOMAIN s /\ 1 < n + 1 /\ t[n] = s[n + 1] /\ t[n] \in PromptNotes
    BY <1>1, RangeMeans
  <2>2. t[n].kind = "ask" /\ t[n].prompt = h.prompt
    BY <1>3 DEF Ask
  <2> QED  BY <1>1, <2>1, <2>2 DEF AsksFirst
<1>4. AsksFirst(t) /\ Ask(h.prompt) \notin Range(t)
  BY <1>2, <1>3 DEF AsksFirst, Range
<1> QED  BY <1>4 DEF t, h

LEMMA JoinOrdered ==
  ASSUME NEW s \in Seq(PromptNotes), NEW t \in Seq(PromptNotes), AsksFirst(s), AsksFirst(t),
         \A p \in Nat \ {0} : Ask(p) \in Range(t) => Unsaid(p, s)
  PROVE  AsksFirst(s \o t)
<1> DEFINE u == s \o t
<1>1. /\ Len(s) \in Nat /\ Len(t) \in Nat /\ DOMAIN s = 1 .. Len(s) /\ DOMAIN t = 1 .. Len(t)
      /\ DOMAIN u = 1 .. (Len(s) + Len(t))
      /\ \A i \in 1 .. (Len(s) + Len(t)) : u[i] = IF i <= Len(s) THEN s[i] ELSE t[i - Len(s)]
  BY ConcatProperties, LenProperties
<1>2. \A n \in DOMAIN t : t[n] \in Range(t) /\ t[n] \in PromptNotes
  BY RangeMeans
<1> HIDE DEF u
<1>3. ASSUME NEW n \in DOMAIN u, NEW m \in DOMAIN u, n < m, u[m].kind = "ask" PROVE u[n].prompt # u[m].prompt
  <2>1. CASE m <= Len(s)
    <3>1. n \in DOMAIN s /\ m \in DOMAIN s /\ u[n] = s[n] /\ u[m] = s[m]
      BY <1>1, <1>3, <2>1
    <3> QED  BY <1>3, <3>1 DEF AsksFirst
  <2>2. CASE ~(n <= Len(s))
    <3>1. /\ n - Len(s) \in DOMAIN t /\ m - Len(s) \in DOMAIN t /\ n - Len(s) < m - Len(s)
          /\ u[n] = t[n - Len(s)] /\ u[m] = t[m - Len(s)]
      BY <1>1, <1>3, <2>2
    <3> QED  BY <1>3, <3>1 DEF AsksFirst
  <2>3. CASE n <= Len(s) /\ ~(m <= Len(s))
    <3>1. n \in DOMAIN s /\ m - Len(s) \in DOMAIN t /\ u[n] = s[n] /\ u[m] = t[m - Len(s)]
      BY <1>1, <1>3, <2>3
    <3>2. u[m] \in PromptNotes /\ u[m] \in Range(t) /\ u[m].kind = "ask"
      BY <1>2, <1>3, <3>1
    <3>3. u[m].prompt \in Nat \ {0} /\ u[m] = Ask(u[m].prompt)
      BY <3>2, NoticesAre
    <3>4. Unsaid(u[m].prompt, s)
      BY <3>2, <3>3
    <3> QED  BY <3>1, <3>4, UnsaidMeans
  <2> QED  BY <1>1, <1>3, <2>1, <2>2, <2>3
<1>4. AsksFirst(u)
  BY <1>3 DEF AsksFirst
<1> QED  BY <1>4 DEF u

\* What is left when the oldest are lost.
LEMMA SuffixOrdered ==
  ASSUME NEW s \in Seq(PromptNotes), NEW k \in 0 .. Len(s), AsksFirst(s)
  PROVE  LET t == SubSeq(s, k + 1, Len(s))
         IN  /\ t \in Seq(PromptNotes) /\ Range(t) \subseteq Range(s) /\ AsksFirst(t)
             /\ k = 0 => t = s
             /\ \A p \in Nat \ {0} : Ask(p) \in Range(t) /\ Resolved(p) \in Range(s) => Resolved(p) \in Range(t)
<1> DEFINE t == SubSeq(s, k + 1, Len(s))
           l == Len(s)
<1>0. Len(s) \in Nat /\ DOMAIN s = 1 .. Len(s) /\ k \in Nat /\ k <= Len(s) /\ \A n \in DOMAIN s : s[n] \in PromptNotes
  BY RangeMeans
<1>1. \A n \in (k + 1) .. l : s[n] \in PromptNotes
  BY <1>0
<1>2. k + 1 \in Int /\ l \in Int
  BY <1>0
<1>3. /\ t \in Seq(PromptNotes) /\ Len(t) = IF k + 1 <= l THEN l - (k + 1) + 1 ELSE 0
      /\ \A i \in 1 .. l - (k + 1) + 1 : t[i] = s[(k + 1) + i - 1]
  BY <1>1, <1>2, SubSeqProperties
<1>4. k = 0 => t = s
  BY SubSeqFull
<1>5. DOMAIN t = 1 .. Len(t)
  BY <1>3, LenProperties
<1> HIDE DEF t, l
<1>6. DOMAIN t = 1 .. (l - k) /\ \A n \in DOMAIN t : n + k \in DOMAIN s /\ t[n] = s[n + k]
  <2>0. l \in Nat /\ k \in Nat /\ k <= l /\ Len(t) = IF k + 1 <= l THEN l - (k + 1) + 1 ELSE 0
    BY <1>0, <1>3 DEF l
  <2>1. Len(t) = l - k
    BY ONLY <2>0
  <2>2. \A n \in 1 .. (l - k) : n + k \in DOMAIN s /\ (k + 1) + n - 1 = n + k /\ n \in 1 .. l - (k + 1) + 1
    BY <1>0 DEF l
  <2> QED  BY <1>3, <1>5, <2>1, <2>2
<1>7. Range(t) \subseteq Range(s)
  BY <1>6 DEF Range
<1>8. ASSUME NEW n \in DOMAIN t, NEW m \in DOMAIN t, n < m, t[m].kind = "ask" PROVE t[n].prompt # t[m].prompt
  <2>1. n + k < m + k
    BY <1>0, <1>6, <1>8
  <2> QED  BY <1>6, <1>8, <2>1 DEF AsksFirst
<1>9. ASSUME NEW p \in Nat \ {0}, NEW n \in DOMAIN t, NEW m \in DOMAIN s, t[n] = Ask(p), s[m] = Resolved(p)
      PROVE  Resolved(p) \in Range(t)
  <2>1. t[n].kind = "ask" /\ t[n].prompt = p /\ s[m].prompt = p
    BY <1>9, NoticesAre
  <2>2. ~(m < n + k)
    BY <1>6, <2>1 DEF AsksFirst
  <2>3. m # n + k
    BY <1>6, <1>9, NoticesAre
  <2>4. m - k \in DOMAIN t /\ (m - k) + k = m
    BY <1>0, <1>6, <2>2, <2>3 DEF l
  <2> QED  BY <1>6, <1>9, <2>4 DEF Range
<1>10. /\ t \in Seq(PromptNotes) /\ Range(t) \subseteq Range(s) /\ AsksFirst(t)
       /\ k = 0 => t = s
       /\ \A p \in Nat \ {0} : Ask(p) \in Range(t) /\ Resolved(p) \in Range(s) => Resolved(p) \in Range(t)
  BY <1>3, <1>4, <1>7, <1>8, <1>9 DEF AsksFirst, Range
<1> QED  BY <1>10 DEF t, l

\* What is left when the newest are lost.
LEMMA PrefixOrdered ==
  ASSUME NEW s \in Seq(PromptNotes), NEW k \in 0 .. Len(s), AsksFirst(s)
  PROVE  LET t == SubSeq(s, 1, k)
         IN  /\ t \in Seq(PromptNotes) /\ Range(t) \subseteq Range(s) /\ AsksFirst(t)
             /\ k = Len(s) => t = s
<1> DEFINE t == SubSeq(s, 1, k)
<1>0. Len(s) \in Nat /\ DOMAIN s = 1 .. Len(s) /\ k \in Nat /\ k <= Len(s) /\ \A n \in DOMAIN s : s[n] \in PromptNotes
  BY RangeMeans
<1>1. \A n \in 1 .. k : s[n] \in PromptNotes
  BY <1>0
<1>2. 1 \in Int /\ k \in Int
  BY <1>0
<1>3. /\ t \in Seq(PromptNotes) /\ Len(t) = IF 1 <= k THEN k - 1 + 1 ELSE 0
      /\ \A i \in 1 .. k - 1 + 1 : t[i] = s[1 + i - 1]
  BY <1>1, <1>2, SubSeqProperties
<1>4. k = Len(s) => t = s
  BY SubSeqFull
<1>5. DOMAIN t = 1 .. Len(t)
  BY <1>3, LenProperties
<1> HIDE DEF t
<1>6. DOMAIN t = 1 .. k /\ \A n \in DOMAIN t : n \in DOMAIN s /\ t[n] = s[n]
  <2>1. Len(t) = k
    BY <1>0, <1>3
  <2>2. \A n \in 1 .. k : n \in DOMAIN s /\ 1 + n - 1 = n /\ n \in 1 .. k - 1 + 1
    BY <1>0
  <2> QED  BY <1>3, <1>5, <2>1, <2>2
<1>7. Range(t) \subseteq Range(s)
  BY <1>6 DEF Range
<1>8. AsksFirst(t)
  BY <1>6 DEF AsksFirst
<1> QED  BY <1>3, <1>4, <1>7, <1>8 DEF t

-----------------------------------------------------------------------------
(* What is broadcast, and what a connection is sent. *)

LEMMA BroadcastMeans ==
  ASSUME FrontendTypeOK, AsksFirst(live), NEW events \in Seq(PromptNotes), AsksFirst(events),
         \A p \in Nat \ {0} : Ask(p) \in Range(events) => Unsaid(p, live), Broadcast(events)
  PROVE  /\ live' \in Seq(PromptNotes) /\ AsksFirst(live') /\ lagged' \in BOOLEAN /\ gone' \in BOOLEAN
         /\ lagged => lagged'
         /\ gone => gone'
         /\ Range(live') \subseteq Range(live) \cup Range(events)
         /\ lagged' \/ gone' \/ Range(live') = Range(live) \cup Range(events)
         /\ \A p \in Nat \ {0} : Ask(p) \in Range(live') /\ Resolved(p) \in Range(live) \cup Range(events)
                                  => Resolved(p) \in Range(live')
<1> DEFINE all == live \o events
           missed == IF Len(all) > Capacity THEN Len(all) - Capacity ELSE 0
<1>1. all \in Seq(PromptNotes) /\ Range(all) = Range(live) \cup Range(events)
  BY JoinHolds DEF FrontendTypeOK
<1>2. AsksFirst(all)
  BY JoinOrdered DEF FrontendTypeOK
<1>3. /\ live' = SubSeq(all, missed + 1, Len(all))
      /\ \/ lagged' = (lagged \/ missed > 0) /\ gone' = gone
         \/ missed > 0 /\ lagged' = lagged /\ gone' = TRUE
  BY DEF Broadcast
<1>4. Len(all) \in Nat
  BY <1>1, LenProperties
<1> HIDE DEF all
<1>5. missed \in 0 .. Len(all)
  BY <1>4, FrontendAssumption
<1> HIDE DEF missed
<1>6. /\ live' \in Seq(PromptNotes) /\ Range(live') \subseteq Range(all) /\ AsksFirst(live')
      /\ missed = 0 => live' = all
      /\ \A p \in Nat \ {0} : Ask(p) \in Range(live') /\ Resolved(p) \in Range(all) => Resolved(p) \in Range(live')
  BY <1>1, <1>2, <1>3, <1>5, SuffixOrdered
<1>7. missed = 0 \/ missed > 0
  BY <1>4, <1>5
<1>8. lagged' \in BOOLEAN /\ gone' \in BOOLEAN /\ (lagged => lagged') /\ (gone => gone') /\ (missed > 0 => lagged' \/ gone')
  BY <1>3 DEF FrontendTypeOK
<1> QED  BY <1>1, <1>6, <1>7, <1>8

LEMMA ListingMeans ==
  ASSUME NEW S \in SUBSET (Nat \ {0}), IsFiniteSet(S), NEW order \in Listings(S)
  PROVE  /\ {order[n] : n \in DOMAIN order} = S
         /\ Each(Ask, order) \in Seq(PromptNotes) /\ Range(Each(Ask, order)) = {Ask(p) : p \in S}
         /\ AsksFirst(Each(Ask, order))
         /\ Each(Resolved, order) \in Seq(PromptNotes) /\ Range(Each(Resolved, order)) = {Resolved(p) : p \in S}
         /\ AsksFirst(Each(Resolved, order))
<1> DEFINE c == Cardinality(S)
           asks == [n \in 1 .. c |-> Ask(order[n])]
           ends == [n \in 1 .. c |-> Resolved(order[n])]
<1>1. c \in Nat
  BY FS_CardinalityType
<1>2. order \in Bijection(1 .. c, S)
  BY DEF Listings
<1> HIDE DEF c
<1>3. DOMAIN order = 1 .. c /\ \A n \in 1 .. c : order[n] \in S
  BY <1>2 DEF Bijection, Injection, Surjection
<1>4. \A n, m \in 1 .. c : order[n] = order[m] => n = m
  BY <1>2 DEF Bijection, Injection, IsInjective
<1>5. \A p \in S : \E n \in 1 .. c : order[n] = p
  BY <1>2 DEF Bijection, Surjection
<1>6. {order[n] : n \in DOMAIN order} = S
  BY <1>3, <1>5
<1>7. Each(Ask, order) = asks /\ Each(Resolved, order) = ends
  BY <1>3 DEF Each
<1>8. \A n \in 1 .. c : Ask(order[n]) \in PromptNotes /\ Resolved(order[n]) \in PromptNotes
  BY <1>3, NoticesAre
<1>9. asks \in Seq(PromptNotes) /\ ends \in Seq(PromptNotes)
  BY <1>1, <1>8
<1>10. DOMAIN asks = 1 .. c /\ DOMAIN ends = 1 .. c
  OBVIOUS
<1>11. Range(asks) = {Ask(p) : p \in S}
  BY <1>3, <1>5, <1>10 DEF Range
<1>12. Range(ends) = {Resolved(p) : p \in S}
  BY <1>3, <1>5, <1>10 DEF Range
<1>13. \A n \in 1 .. c : asks[n].prompt = order[n]
  BY <1>3, NoticesAre
<1>14. \A n \in 1 .. c : ends[n].kind = "resolved"
  BY <1>3, NoticesAre
<1> HIDE DEF asks, ends
<1>15. AsksFirst(asks)
  <2>1. \A n, m \in 1 .. c : n < m => asks[n].prompt # asks[m].prompt
    BY <1>1, <1>4, <1>13
  <2> QED  BY <1>10, <2>1 DEF AsksFirst
<1>16. AsksFirst(ends)
  BY <1>10, <1>14 DEF AsksFirst
<1> QED  BY <1>6, <1>7, <1>9, <1>11, <1>12, <1>15, <1>16

LEMMA SentAllMeans ==
  ASSUME FrontendTypeOK, AsksFirst(conn.out),
         NEW S \in SUBSET (Nat \ {0}), IsFiniteSet(S), NEW order \in Listings(S),
         \A p \in S : Id(p) = p /\ Unsaid(p, conn.out)
  PROVE  LET c == SentAll(conn, order)
         IN  /\ c \in FrontendConnection /\ AsksFirst(c.out)
             /\ c.delivered = conn.delivered \cup S
             /\ c.on = conn.on /\ c.taken = conn.taken
             /\ conn.failed => c.failed
             /\ Range(c.out) \subseteq Range(conn.out) \cup {Ask(p) : p \in S}
             /\ c.failed \/ Range(c.out) = Range(conn.out) \cup {Ask(p) : p \in S}
<1> DEFINE all == conn.out \o Each(Ask, order)
           kept == IF Len(all) > OutputCapacity THEN OutputCapacity ELSE Len(all)
           c == SentAll(conn, order)
           sent == SubSeq(all, 1, kept)
<1>1. /\ {order[n] : n \in DOMAIN order} = S
      /\ Each(Ask, order) \in Seq(PromptNotes) /\ Range(Each(Ask, order)) = {Ask(p) : p \in S}
      /\ AsksFirst(Each(Ask, order))
  BY ListingMeans
<1>2. conn \in FrontendConnection /\ conn.out \in Seq(PromptNotes) /\ conn.failed \in BOOLEAN
  BY DEF FrontendTypeOK, FrontendConnection
<1>3. all \in Seq(PromptNotes) /\ Range(all) = Range(conn.out) \cup {Ask(p) : p \in S}
  <2>1. all \in Seq(PromptNotes) /\ Range(all) = Range(conn.out) \cup Range(Each(Ask, order))
    <3> DEFINE asks == Each(Ask, order)
    <3>1. asks \in Seq(PromptNotes)
      BY <1>1
    <3> HIDE DEF asks
    <3>2. conn.out \o asks \in Seq(PromptNotes) /\ Range(conn.out \o asks) = Range(conn.out) \cup Range(asks)
      BY <1>2, <3>1, JoinHolds
    <3> QED  BY <3>2 DEF asks
  <2> QED  BY <1>1, <2>1
<1>4. \A p \in Nat \ {0} : Ask(p) \in Range(Each(Ask, order)) => Unsaid(p, conn.out)
  BY <1>1, NoticesAre
<1>5. AsksFirst(all)
  BY <1>1, <1>2, <1>4, JoinOrdered
<1>6. {Id(order[n]) : n \in DOMAIN order} = S
  BY <1>1
<1>7. c = [conn EXCEPT !.delivered = @ \cup S, !.out = sent, !.failed = @ \/ kept < Len(all)]
  BY <1>6 DEF SentAll
<1>8. Len(all) \in Nat
  BY <1>3, LenProperties
<1> HIDE DEF all, c
<1>9. kept \in 0 .. Len(all) /\ (kept = Len(all) \/ kept < Len(all))
  BY <1>8, FrontendAssumption
<1> HIDE DEF kept
<1>10. /\ sent \in Seq(PromptNotes) /\ Range(sent) \subseteq Range(all) /\ AsksFirst(sent)
       /\ kept = Len(all) => sent = all
  BY <1>3, <1>5, <1>9, PrefixOrdered
<1> HIDE DEF sent
<1>11. /\ c.delivered = conn.delivered \cup S /\ c.on = conn.on /\ c.taken = conn.taken /\ c.out = sent
       /\ c.failed = (conn.failed \/ kept < Len(all)) /\ c \in FrontendConnection
  BY <1>2, <1>7, <1>10 DEF FrontendConnection
<1> QED  BY <1>3, <1>9, <1>10, <1>11 DEF c

LEMMA SentMeans ==
  ASSUME FrontendTypeOK, AsksFirst(conn.out), NEW e \in PromptNotes, Id(e.prompt) = e.prompt,
         e.kind = "ask" /\ e.prompt \notin conn.delivered => Unsaid(e.prompt, conn.out)
  PROVE  LET c == Sent(conn, e)
         IN  /\ c \in FrontendConnection /\ AsksFirst(c.out) /\ c.on = conn.on /\ c.taken = conn.taken /\ c.resume = conn.resume
             /\ conn.failed => c.failed
             /\ e.kind = "ask" /\ e.prompt \in conn.delivered => c = conn
             /\ e.kind = "ask" => c.delivered = conn.delivered \cup {e.prompt}
             /\ e.kind # "ask" => c.delivered = conn.delivered \ {e.prompt}
             /\ Range(conn.out) \subseteq Range(c.out) /\ Range(c.out) \subseteq Range(conn.out) \cup {e}
             /\ (e.kind = "ask" /\ e.prompt \in conn.delivered) \/ c.failed \/ e \in Range(c.out)
<1> DEFINE c == Sent(conn, e)
           d == [conn EXCEPT !.delivered = IF e.kind = "ask" THEN @ \cup {e.prompt} ELSE @ \ {e.prompt}]
<1>1. conn \in FrontendConnection /\ conn.out \in Seq(PromptNotes) /\ e.prompt \in Nat \ {0}
  BY NoticesAre DEF FrontendTypeOK, FrontendConnection
<1>2. CASE e.kind = "ask" /\ e.prompt \in conn.delivered
  <2>1. c = conn
    BY <1>2 DEF Sent
  <2> HIDE DEF c
  <2> QED  BY <1>1, <1>2, <2>1 DEF c
<1>3. CASE ~(e.kind = "ask" /\ e.prompt \in conn.delivered)
  <2>1. c = Enqueued(d, e)
    BY <1>3 DEF Sent
  <2>2. /\ d \in FrontendConnection /\ d.out = conn.out /\ d.on = conn.on /\ d.taken = conn.taken /\ d.resume = conn.resume
        /\ d.failed = conn.failed
        /\ e.kind = "ask" => d.delivered = conn.delivered \cup {e.prompt}
        /\ e.kind # "ask" => d.delivered = conn.delivered \ {e.prompt}
    BY <1>1 DEF FrontendConnection
  <2> HIDE DEF c, d
  <2>3. CASE Len(d.out) < OutputCapacity
    <3>1. c = [d EXCEPT !.out = Append(@, e)]
      BY <2>1, <2>3 DEF Enqueued
    <3>2. Append(conn.out, e) \in Seq(PromptNotes) /\ Range(Append(conn.out, e)) = Range(conn.out) \cup {e}
      BY <1>1, AppendHolds
    <3>3. AsksFirst(Append(conn.out, e))
      BY <1>1, <1>3, AppendOrdered
    <3>4. /\ c \in FrontendConnection /\ c.out = Append(conn.out, e) /\ c.on = d.on /\ c.taken = d.taken /\ c.resume = d.resume
          /\ c.failed = d.failed /\ c.delivered = d.delivered
      BY <2>2, <3>1, <3>2 DEF FrontendConnection
    <3> QED  BY <1>3, <2>2, <3>2, <3>3, <3>4 DEF c
  <2>4. CASE ~(Len(d.out) < OutputCapacity)
    <3>1. c = [d EXCEPT !.failed = TRUE]
      BY <2>1, <2>4 DEF Enqueued
    <3>2. /\ c \in FrontendConnection /\ c.out = conn.out /\ c.on = d.on /\ c.taken = d.taken /\ c.resume = d.resume
          /\ c.failed /\ c.delivered = d.delivered
      BY <2>2, <3>1 DEF FrontendConnection
    <3> QED  BY <1>3, <2>2, <3>2 DEF c
  <2> QED  BY <2>3, <2>4
<1> QED  BY <1>2, <1>3

-----------------------------------------------------------------------------
(* Every step keeps the notices where they may be. *)

\* Every prompt has an identity of its own: those of an engine that counts anew are numbered like the first's.
Numbered == IdsRestart => since = 0 /\ \A p \in DOMAIN prompts : prompts[p].id = p
Good == FrontendTypeOK /\ FrontendInv /\ Numbered

LEMMA GoodMeans ==
  ASSUME Good
  PROVE  /\ FrontendTypeOK /\ FrontendInv /\ ConnInv
         /\ \A p \in DOMAIN prompts : Id(p) = p
         /\ pending \subseteq DOMAIN prompts /\ screen \subseteq DOMAIN prompts
         /\ AsksFirst(inbox) /\ AsksFirst(live) /\ AsksFirst(conn.out)
         /\ DOMAIN prompts = 1 .. Len(prompts) /\ Len(prompts) \in Nat
         /\ \A p \in DOMAIN prompts : p \in Nat \ {0} /\ prompts[p] \in PromptRecord /\ prompts[p].at \in {"asked", "answered", "over"}
         /\ \A p \in Nat \ {0} : NoticeInv(p)
         /\ conn.out \in Seq(PromptNotes) /\ conn.on \in BOOLEAN /\ conn.failed \in BOOLEAN
         /\ conn.delivered \in SUBSET (Nat \ {0}) /\ conn.taken \in SUBSET (Nat \ {0})
<1>1. DOMAIN prompts = 1 .. Len(prompts) /\ Len(prompts) \in Nat
  BY LenProperties DEF Good, FrontendTypeOK
<1>2. \A p \in DOMAIN prompts : prompts[p] \in PromptRecord
  BY <1>1, ElementOfSeq DEF Good, FrontendTypeOK
<1>3. \A p \in DOMAIN prompts : p \in Nat \ {0} /\ prompts[p].at \in {"asked", "answered", "over"}
  BY <1>1, <1>2 DEF PromptRecord
<1>4. /\ conn.out \in Seq(PromptNotes) /\ conn.on \in BOOLEAN /\ conn.failed \in BOOLEAN
      /\ conn.delivered \in SUBSET (Nat \ {0}) /\ conn.taken \in SUBSET (Nat \ {0})
  BY DEF Good, FrontendTypeOK, FrontendConnection
<1>5. \A p \in DOMAIN prompts : Id(p) = p
  BY DEF Good, Numbered, Id
<1>6. \A p \in Nat \ {0} : NoticeInv(p)
  BY DEF Good, FrontendInv
<1>7. pending \subseteq DOMAIN prompts /\ screen \subseteq DOMAIN prompts
  BY <1>6 DEF Good, FrontendTypeOK, NoticeInv, ComingInv, Nowhere, Shown
<1> QED  BY <1>1, <1>2, <1>3, <1>4, <1>5, <1>6, <1>7 DEF Good, FrontendInv

LEMMA EngineAsksUserKeeps ==
  ASSUME Good, EngineAsksUser
  PROVE  FrontendTypeOK' /\ FrontendInv'
<1> DEFINE new == Len(prompts) + 1
           record == [id |-> Len(prompts) + 1 - since, at |-> "asked"]
<1>1. /\ prompts' = Append(prompts, record) /\ inbox' = Append(inbox, Ask(new))
      /\ UNCHANGED <<hand, pending, live, lagged, conn, screen, said, gone, since, silenced>>
  BY DEF EngineAsksUser
<1>2. new \in Nat \ {0} /\ new \notin DOMAIN prompts /\ record \in PromptRecord /\ record.at = "asked" /\ Ask(new) \in PromptNotes
  BY GoodMeans, NoticesAre DEF PromptRecord, Good, FrontendTypeOK
<1> HIDE DEF record
<1>3. /\ prompts' \in Seq(PromptRecord) /\ DOMAIN prompts' = DOMAIN prompts \cup {new}
      /\ prompts'[new].at = "asked" /\ \A p \in DOMAIN prompts : prompts'[p] = prompts[p]
  <2>1. prompts \in Seq(PromptRecord)
    BY DEF Good, FrontendTypeOK
  <2>2. /\ Append(prompts, record) \in Seq(PromptRecord) /\ DOMAIN prompts = 1 .. Len(prompts) /\ Len(prompts) \in Nat
        /\ DOMAIN Append(prompts, record) = 1 .. (Len(prompts) + 1)
        /\ Append(prompts, record)[Len(prompts) + 1] = record
        /\ \A n \in 1 .. Len(prompts) : Append(prompts, record)[n] = prompts[n]
    BY <1>2, <2>1, AppendMeans
  <2> QED  BY <1>1, <1>2, <2>2
<1> HIDE DEF new
<1>4. Nowhere(new)
  BY <1>2, GoodMeans DEF NoticeInv, ComingInv
<1>5. /\ inbox' \in Seq(PromptNotes) /\ Range(inbox') = Range(inbox) \cup {Ask(new)}
      /\ AsksFirst(inbox')
  <2>1. inbox \in Seq(PromptNotes) /\ Unsaid(new, inbox) /\ AsksFirst(inbox) /\ Ask(new).prompt = new
    BY <1>2, <1>4, GoodMeans, NoticesAre DEF Good, FrontendTypeOK, Nowhere, Unsaid, AskComing, EndComing
  <2> QED  BY <1>1, <1>2, <2>1, AppendHolds, AppendOrdered
<1>6. FrontendTypeOK'
  BY <1>1, <1>3, <1>5 DEF Good, FrontendTypeOK
<1>7. ASSUME NEW p \in Nat \ {0} PROVE NoticeInv(p)'
  <2>1. NoticeInv(p)
    BY GoodMeans
  <2>2. /\ AskComing(p)' <=> AskComing(p) \/ p = new
        /\ EndComing(p)' <=> EndComing(p)
    BY <1>5, NoticesAre DEF AskComing, EndComing
  <2> QED  BY <1>1, <1>3, <1>4, <2>1, <2>2
           DEF NoticeInv, ComingInv, StageOf, EndedInv, DeliveredInv, SeenInv, LeftInv, Settling, Nowhere,
               AskTold, EndTold, AskQueued, EndQueued, Shown
<1> QED  BY <1>1, <1>5, <1>6, <1>7, GoodMeans DEF FrontendInv, ConnInv

LEMMA EngineResolvesKeeps ==
  ASSUME Good, NEW q \in DOMAIN prompts, EngineResolves(q)
  PROVE  FrontendTypeOK' /\ FrontendInv'
<1>1. /\ prompts' = [prompts EXCEPT ![q].at = "over"] /\ inbox' = Append(inbox, Resolved(q))
      /\ prompts[q].at \in {"asked", "answered"}
      /\ UNCHANGED <<hand, pending, live, lagged, conn, screen, said, gone, since, silenced>>
  BY DEF EngineResolves
<1>2. /\ prompts \in Seq(PromptRecord) /\ q \in 1 .. Len(prompts) /\ prompts[q] \in PromptRecord
      /\ [prompts[q] EXCEPT !.at = "over"] \in PromptRecord /\ [prompts[q] EXCEPT !.at = "over"].at = "over"
      /\ q \in Nat \ {0} /\ Resolved(q) \in PromptNotes /\ Resolved(q).kind = "resolved" /\ DOMAIN prompts = 1 .. Len(prompts)
  <2>1. prompts \in Seq(PromptRecord) /\ q \in 1 .. Len(prompts) /\ prompts[q] \in PromptRecord /\ q \in Nat \ {0}
        /\ DOMAIN prompts = 1 .. Len(prompts)
    BY GoodMeans DEF Good, FrontendTypeOK
  <2>2. [prompts[q] EXCEPT !.at = "over"] \in PromptRecord /\ [prompts[q] EXCEPT !.at = "over"].at = "over"
    BY <2>1 DEF PromptRecord
  <2> QED  BY <2>1, <2>2, NoticesAre
<1>3. /\ prompts' \in Seq(PromptRecord) /\ DOMAIN prompts' = DOMAIN prompts
      /\ prompts'[q].at = "over" /\ \A p \in DOMAIN prompts : p # q => prompts'[p] = prompts[p]
  BY <1>1, <1>2, ExceptSeq
<1>4. inbox' \in Seq(PromptNotes) /\ Range(inbox') = Range(inbox) \cup {Resolved(q)} /\ AsksFirst(inbox')
  <2>1. inbox \in Seq(PromptNotes) /\ AsksFirst(inbox)
    BY GoodMeans DEF Good, FrontendTypeOK
  <2> QED  BY <1>1, <1>2, <2>1, AppendHolds, AppendOrdered
<1>5. FrontendTypeOK'
  BY <1>1, <1>3, <1>4 DEF Good, FrontendTypeOK
<1>6. ASSUME NEW p \in Nat \ {0} PROVE NoticeInv(p)'
  <2>1. NoticeInv(p)
    BY GoodMeans
  <2>2. /\ AskComing(p)' <=> AskComing(p)
        /\ EndComing(p)' <=> EndComing(p) \/ p = q
    BY <1>4, NoticesAre DEF AskComing, EndComing
  <2> QED  BY <1>1, <1>2, <1>3, <2>1, <2>2
           DEF NoticeInv, ComingInv, StageOf, EndedInv, DeliveredInv, SeenInv, LeftInv, Settling, Nowhere,
               AskTold, EndTold, AskQueued, EndQueued, Shown
<1> QED  BY <1>1, <1>4, <1>5, <1>6, GoodMeans DEF FrontendInv, ConnInv

LEMMA PumpTakesKeeps ==
  ASSUME Good, PumpTakes
  PROVE  FrontendTypeOK' /\ FrontendInv'
<1> DEFINE e == Head(inbox)
           q == e.prompt
<1>1. /\ hand = NoEvent /\ inbox # <<>> /\ hand' = e /\ inbox' = Tail(inbox)
      /\ pending' = IF e.kind = "ask" THEN pending \cup {q} ELSE pending \ {q}
      /\ UNCHANGED <<prompts, live, lagged, conn, screen, said, gone, since, silenced>>
  <2>1. /\ hand = NoEvent /\ inbox # <<>> /\ hand' = e /\ inbox' = Tail(inbox)
        /\ pending' = IF hand'.kind = "ask" THEN pending \cup {hand'.prompt}
                      ELSE {p \in pending : Id(p) # Id(hand'.prompt)}
        /\ UNCHANGED <<prompts, live, lagged, conn, screen, said, gone, since, silenced>>
    BY DEF PumpTakes
  <2>2. q \in DOMAIN prompts /\ \A p \in DOMAIN prompts : Id(p) = p
    <3>1. e \in Range(inbox) /\ e \in PromptNotes
      BY <2>1, TailHolds DEF Good, FrontendTypeOK
    <3>2. q \in Nat \ {0} /\ (AskComing(q) \/ EndComing(q))
      BY <3>1, NoticesAre DEF AskComing, EndComing
    <3> QED  BY <3>2, GoodMeans DEF NoticeInv, ComingInv, Nowhere
  <2> HIDE DEF e
  <2>3. {p \in pending : Id(p) # Id(q)} = pending \ {q}
    BY <2>2, GoodMeans
  <2> QED  BY <2>1, <2>3
<1>2. /\ e \in PromptNotes /\ Tail(inbox) \in Seq(PromptNotes) /\ Range(inbox) = {e} \cup Range(Tail(inbox))
      /\ AsksFirst(Tail(inbox)) /\ Ask(q) \notin Range(Tail(inbox))
  <2>1. inbox \in Seq(PromptNotes) /\ AsksFirst(inbox)
    BY GoodMeans DEF Good, FrontendTypeOK
  <2> QED  BY <1>1, <2>1, TailHolds, TailOrdered
<1> HIDE DEF e
<1>3. /\ q \in Nat \ {0} /\ e # NoEvent
      /\ e.kind = "ask" => e = Ask(q)
      /\ e.kind # "ask" => e = Resolved(q)
  BY <1>2, NoticesAre
<1> HIDE DEF q
<1>4. FrontendTypeOK'
  BY <1>1, <1>2, <1>3 DEF Good, FrontendTypeOK
<1>5. ASSUME NEW p \in Nat \ {0} PROVE NoticeInv(p)'
  <2>1. NoticeInv(p)
    BY GoodMeans
  <2>2. CASE e.kind = "ask"
    <3>1. /\ AskComing(p) <=> AskComing(p)' \/ p = q
          /\ p = q => ~AskComing(p)'
          /\ EndComing(p)' <=> EndComing(p)
          /\ hand' = Ask(p) <=> p = q
          /\ hand' # Resolved(p) /\ hand # Ask(p) /\ hand # Resolved(p)
          /\ pending' = pending \cup {q}
      BY <1>1, <1>2, <1>3, <2>2, NoticesAre DEF AskComing, EndComing
    <3> QED  BY <1>1, <2>1, <3>1
             DEF NoticeInv, ComingInv, StageOf, EndedInv, DeliveredInv, SeenInv, LeftInv, Settling, Nowhere,
                 AskTold, EndTold, AskQueued, EndQueued, Shown
  <2>3. CASE e.kind # "ask"
    <3>1. /\ AskComing(p)' <=> AskComing(p)
          /\ p = q => ~AskComing(p)'
          /\ EndComing(p) <=> EndComing(p)' \/ p = q
          /\ hand' = Resolved(p) <=> p = q
          /\ hand' # Ask(p) /\ hand # Ask(p) /\ hand # Resolved(p)
          /\ pending' = pending \ {q}
      BY <1>1, <1>2, <1>3, <2>3, NoticesAre DEF AskComing, EndComing
    <3> QED  BY <1>1, <2>1, <3>1
             DEF NoticeInv, ComingInv, StageOf, EndedInv, DeliveredInv, SeenInv, LeftInv, Settling, Nowhere,
                 AskTold, EndTold, AskQueued, EndQueued, Shown
  <2> QED  BY <2>2, <2>3
<1> QED  BY <1>1, <1>2, <1>4, <1>5, GoodMeans DEF FrontendInv, ConnInv

LEMMA PumpTellsKeeps ==
  ASSUME Good, PumpTells
  PROVE  FrontendTypeOK' /\ FrontendInv'
<1> DEFINE events == <<hand>>
           q == hand.prompt
<1>1. /\ hand # NoEvent /\ Broadcast(events) /\ hand' = NoEvent
      /\ UNCHANGED <<prompts, inbox, pending, conn, screen, said, since, silenced>>
  BY DEF PumpTells
<1>2. hand \in PromptNotes /\ events \in Seq(PromptNotes) /\ Range(events) = {hand} /\ AsksFirst(events)
  <2>1. hand \in PromptNotes
    BY <1>1 DEF Good, FrontendTypeOK
  <2>2. DOMAIN events = {1} /\ events[1] = hand
    OBVIOUS
  <2> HIDE DEF events
  <2>3. Range(events) = {hand} /\ AsksFirst(events)
    BY <2>2 DEF Range, AsksFirst
  <2> QED  BY <2>1, <2>3 DEF events
<1>3. q \in Nat \ {0} /\ (hand = Ask(q) \/ hand = Resolved(q))
  BY <1>2, NoticesAre
<1> HIDE DEF events
<1>4. \A p \in Nat \ {0} : Ask(p) \in Range(events) => Unsaid(p, live)
  BY <1>2, GoodMeans DEF NoticeInv, ComingInv, Unsaid
<1>5. /\ live' \in Seq(PromptNotes) /\ AsksFirst(live') /\ lagged' \in BOOLEAN /\ gone' \in BOOLEAN
      /\ lagged => lagged'
      /\ gone => gone'
      /\ Range(live') \subseteq Range(live) \cup {hand}
      /\ lagged' \/ gone' \/ Range(live') = Range(live) \cup {hand}
      /\ \A p \in Nat \ {0} : Ask(p) \in Range(live') /\ Resolved(p) \in Range(live) \cup {hand} => Resolved(p) \in Range(live')
  BY <1>1, <1>2, <1>4, BroadcastMeans, GoodMeans
<1>6. FrontendTypeOK'
  BY <1>1, <1>5 DEF Good, FrontendTypeOK
<1>7. ASSUME NEW p \in Nat \ {0} PROVE NoticeInv(p)'
  <2>1. NoticeInv(p)
    BY GoodMeans
  <2>2. /\ AskTold(p)' => AskTold(p) /\ (EndTold(p) => EndTold(p)')
        /\ EndTold(p)' => EndTold(p)
        /\ lagged' \/ gone' \/ ((AskTold(p) => AskTold(p)') /\ (EndTold(p) => EndTold(p)'))
        /\ hand' # Ask(p)
    BY <1>1, <1>5, NoticesAre DEF AskTold, EndTold
  <2> QED  BY <1>1, <1>5, <2>1, <2>2
           DEF NoticeInv, ComingInv, StageOf, EndedInv, DeliveredInv, SeenInv, LeftInv, Settling, Nowhere,
               AskComing, EndComing, AskQueued, EndQueued, Shown
<1> QED  BY <1>1, <1>5, <1>6, <1>7, GoodMeans DEF FrontendInv, ConnInv

LEMMA RebuildKeeps ==
  ASSUME Good, Rebuild
  PROVE  FrontendTypeOK' /\ FrontendInv'
<1>1. PICK order \in Listings(pending) :
         /\ hand = NoEvent /\ Broadcast(Each(Resolved, order)) /\ pending' = {} /\ inbox' = <<>>
         /\ prompts' = [p \in DOMAIN prompts |-> [prompts[p] EXCEPT !.at = "over"]]
         /\ since' = Len(prompts)
         /\ silenced' = silenced \cup {p \in DOMAIN prompts \ pending : \/ prompts[p].at = "answered"
                                                                       \/ \E n \in DOMAIN inbox : inbox[n] = Resolved(p)}
         /\ UNCHANGED <<hand, conn, screen, said>>
  BY DEF Rebuild
<1> DEFINE events == Each(Resolved, order)
<1>2. pending \in SUBSET (Nat \ {0}) /\ IsFiniteSet(pending)
  <2>1. pending \in SUBSET (Nat \ {0}) /\ pending \subseteq 1 .. Len(prompts) /\ Len(prompts) \in Nat
    BY GoodMeans DEF Good, FrontendTypeOK, NoticeInv, ComingInv, Nowhere
  <2>2. IsFiniteSet(1 .. Len(prompts))
    BY <2>1, FS_Interval
  <2>3. IsFiniteSet(pending)
    BY <2>1, <2>2, FS_Subset
  <2> QED  BY <2>1, <2>3
<1>3. events \in Seq(PromptNotes) /\ Range(events) = {Resolved(p) : p \in pending} /\ AsksFirst(events)
  BY <1>2, ListingMeans
<1>4. Broadcast(events)
  BY <1>1
<1> HIDE DEF events
<1>5. \A p \in Nat \ {0} : Ask(p) \in Range(events) => Unsaid(p, live)
  BY <1>3, NoticesAre
<1>6. /\ live' \in Seq(PromptNotes) /\ AsksFirst(live') /\ lagged' \in BOOLEAN /\ gone' \in BOOLEAN
      /\ lagged => lagged'
      /\ gone => gone'
      /\ Range(live') \subseteq Range(live) \cup Range(events)
      /\ lagged' \/ gone' \/ Range(live') = Range(live) \cup Range(events)
      /\ \A p \in Nat \ {0} : Ask(p) \in Range(live') /\ Resolved(p) \in Range(live) \cup Range(events) => Resolved(p) \in Range(live')
  BY <1>3, <1>4, <1>5, BroadcastMeans, GoodMeans
<1>7. /\ prompts' \in Seq(PromptRecord) /\ DOMAIN prompts' = DOMAIN prompts
      /\ \A p \in DOMAIN prompts : prompts'[p].at = "over"
  <2>1. \A p \in DOMAIN prompts : [prompts[p] EXCEPT !.at = "over"] \in PromptRecord
    BY GoodMeans DEF PromptRecord
  <2>2. \A p \in DOMAIN prompts : [prompts[p] EXCEPT !.at = "over"].at = "over"
    BY GoodMeans DEF PromptRecord
  <2>3. prompts' \in Seq(PromptRecord)
    BY <1>1, <2>1, GoodMeans
  <2> QED  BY <1>1, <2>2, <2>3
<1>8. silenced' \in SUBSET (Nat \ {0}) /\ since' \in Nat /\ inbox' \in Seq(PromptNotes)
  BY <1>1, GoodMeans, EmptySeq DEF Good, FrontendTypeOK
<1>9. FrontendTypeOK'
  BY <1>1, <1>6, <1>7, <1>8 DEF Good, FrontendTypeOK
<1>10. Range(inbox') = {} /\ AsksFirst(inbox')
  BY <1>1 DEF Range, AsksFirst
<1>11. ASSUME NEW p \in Nat \ {0} PROVE NoticeInv(p)'
  <2>1. NoticeInv(p)
    BY GoodMeans
  <2>2. ~AskComing(p)' /\ ~EndComing(p)'
    BY <1>10 DEF AskComing, EndComing
  <2>3. /\ AskTold(p)' => AskTold(p) /\ (EndTold(p) \/ p \in pending => EndTold(p)')
        /\ EndTold(p)' => EndTold(p) \/ p \in pending
        /\ lagged' \/ gone' \/ ((AskTold(p) => AskTold(p)') /\ (EndTold(p) \/ p \in pending => EndTold(p)'))
        /\ hand' # Ask(p) /\ hand' # Resolved(p)
    BY <1>1, <1>3, <1>6, NoticesAre DEF AskTold, EndTold
  <2>4. /\ p \in DOMAIN prompts /\ p \notin pending /\ (prompts[p].at = "answered" \/ EndComing(p)) => p \in silenced'
        /\ p \in silenced => p \in silenced'
    BY <1>1 DEF EndComing, Range
  <2>5. p \in pending => ~EndTold(p) /\ ~EndQueued(p)
    BY <2>1 DEF NoticeInv, EndedInv
  <2> QED  BY <1>1, <1>6, <1>7, <2>1, <2>2, <2>3, <2>4, <2>5
           DEF NoticeInv, ComingInv, StageOf, EndedInv, DeliveredInv, SeenInv, LeftInv, Settling, Nowhere,
               AskQueued, EndQueued, Shown
<1> QED  BY <1>1, <1>6, <1>9, <1>10, <1>11, GoodMeans DEF FrontendInv, ConnInv

\* A connection that is new, and none.
LEMMA ConnectionDropped ==
  ASSUME Good, conn' \in {NoConnection, [NoConnection EXCEPT !.on = TRUE]}, screen' = {}, said' = <<>>,
         UNCHANGED <<prompts, inbox, hand, pending, live, gone, since, silenced>>, lagged' \in BOOLEAN
  PROVE  FrontendTypeOK' /\ FrontendInv'
<1>1. /\ conn' \in FrontendConnection /\ conn'.delivered = {} /\ conn'.taken = {} /\ conn'.out = <<>>
      /\ conn'.resume = "no" /\ conn'.failed = FALSE /\ (~conn'.on => conn' = NoConnection)
  <2> DEFINE fresh == [NoConnection EXCEPT !.on = TRUE]
  <2>1. /\ NoConnection \in FrontendConnection /\ NoConnection.delivered = {} /\ NoConnection.taken = {}
        /\ NoConnection.out = <<>> /\ NoConnection.resume = "no" /\ NoConnection.failed = FALSE
    BY EmptySeq DEF NoConnection, FrontendConnection
  <2>2. /\ fresh \in FrontendConnection /\ fresh.delivered = {} /\ fresh.taken = {} /\ fresh.out = <<>>
        /\ fresh.resume = "no" /\ fresh.failed = FALSE /\ fresh.on
    BY <2>1 DEF FrontendConnection
  <2>3. conn' = NoConnection \/ conn' = fresh
    OBVIOUS
  <2> HIDE DEF fresh
  <2> QED  BY <2>1, <2>2, <2>3
<1>2. FrontendTypeOK'
  BY <1>1, EmptySeq DEF Good, FrontendTypeOK
<1>3. Range(conn'.out) = {} /\ Range(said') = {} /\ AsksFirst(conn'.out)
  BY <1>1 DEF Range, AsksFirst
<1>4. ASSUME NEW p \in Nat \ {0} PROVE NoticeInv(p)'
  <2>1. NoticeInv(p)
    BY GoodMeans
  <2>2. ~AskQueued(p)' /\ ~EndQueued(p)' /\ ~Shown(p)' /\ p \notin conn'.delivered
    BY <1>1, <1>3 DEF AskQueued, EndQueued, Shown
  <2> QED  BY <1>1, <2>1, <2>2
           DEF NoticeInv, ComingInv, StageOf, EndedInv, DeliveredInv, SeenInv, LeftInv, Settling, Nowhere,
               AskComing, EndComing, AskTold, EndTold, Shown
<1> QED  BY <1>1, <1>2, <1>3, <1>4, GoodMeans DEF FrontendInv, ConnInv

LEMMA ConnectionsKeep ==
  ASSUME Good, TerminalConnects \/ ConnectionEnds \/ GatewayMisses \/ GatewayFails
  PROVE  FrontendTypeOK' /\ FrontendInv'
<1>1. /\ conn' \in {NoConnection, [NoConnection EXCEPT !.on = TRUE]} /\ screen' = {} /\ said' = <<>>
      /\ UNCHANGED <<prompts, inbox, hand, pending, live, gone, since, silenced>> /\ lagged' \in BOOLEAN
  BY DEF TerminalConnects, ConnectionEnds, GatewayMisses, GatewayFails, Good, FrontendTypeOK
<1> QED  BY <1>1, ConnectionDropped

LEMMA GatewayGivesUpKeeps ==
  ASSUME Good, GatewayGivesUp
  PROVE  FrontendTypeOK' /\ FrontendInv'
<1>1. gone' = TRUE /\ UNCHANGED <<prompts, inbox, hand, pending, live, lagged, conn, screen, said, since, silenced>>
  BY DEF GatewayGivesUp
<1>2. FrontendTypeOK'
  BY <1>1 DEF Good, FrontendTypeOK
<1>3. ASSUME NEW p \in Nat \ {0} PROVE NoticeInv(p)'
  <2>1. NoticeInv(p)
    BY GoodMeans
  <2> QED  BY <1>1, <2>1
           DEF NoticeInv, ComingInv, StageOf, EndedInv, DeliveredInv, SeenInv, LeftInv, Settling, Nowhere,
               AskComing, EndComing, AskTold, EndTold, AskQueued, EndQueued, Shown
<1> QED  BY <1>1, <1>2, <1>3, GoodMeans DEF FrontendInv, ConnInv

LEMMA TerminalResumesKeeps ==
  ASSUME Good, TerminalResumes
  PROVE  FrontendTypeOK' /\ FrontendInv'
<1>1. /\ conn.on /\ conn' = [conn EXCEPT !.resume = IF @ = "no" THEN "asked" ELSE "answered"]
      /\ UNCHANGED <<prompts, inbox, hand, pending, live, lagged, screen, said, gone, since, silenced>>
  BY DEF TerminalResumes
<1>2. conn \in FrontendConnection
  BY DEF Good, FrontendTypeOK
<1>3. /\ conn' \in FrontendConnection /\ conn'.delivered = conn.delivered /\ conn'.taken = conn.taken /\ conn'.out = conn.out
      /\ conn'.resume # "done" /\ conn'.failed = conn.failed /\ conn'.on = conn.on
  BY <1>1, <1>2 DEF FrontendConnection
<1>4. FrontendTypeOK'
  BY <1>1, <1>3 DEF Good, FrontendTypeOK
<1>5. ASSUME NEW p \in Nat \ {0} PROVE NoticeInv(p)'
  <2>1. NoticeInv(p)
    BY GoodMeans
  <2> QED  BY <1>1, <1>3, <2>1
           DEF NoticeInv, ComingInv, StageOf, EndedInv, DeliveredInv, SeenInv, LeftInv, Settling, Nowhere,
               AskComing, EndComing, AskTold, EndTold, AskQueued, EndQueued, Shown
<1> QED  BY <1>1, <1>3, <1>4, <1>5, GoodMeans DEF FrontendInv, ConnInv

LEMMA GatewayHearsKeeps ==
  ASSUME Good, GatewayHears
  PROVE  FrontendTypeOK' /\ FrontendInv'
<1> DEFINE e == Head(live)
           q == e.prompt
<1>1. /\ ~gone /\ live # <<>> /\ live' = Tail(live) /\ conn' = IF conn.on THEN Sent(conn, e) ELSE conn
      /\ UNCHANGED <<prompts, inbox, hand, pending, lagged, screen, said, gone, since, silenced>>
  BY DEF GatewayHears, Open
<1>2. /\ e \in PromptNotes /\ Tail(live) \in Seq(PromptNotes) /\ Range(live) = {e} \cup Range(Tail(live))
      /\ AsksFirst(Tail(live)) /\ Ask(q) \notin Range(Tail(live))
  <2>1. live \in Seq(PromptNotes) /\ AsksFirst(live)
    BY GoodMeans DEF Good, FrontendTypeOK
  <2> QED  BY <1>1, <2>1, TailHolds, TailOrdered
<1> HIDE DEF e
<1>3. /\ q \in Nat \ {0} /\ e # NoEvent
      /\ e.kind = "ask" => e = Ask(q)
      /\ e.kind # "ask" => e = Resolved(q)
  BY <1>2, NoticesAre
<1> HIDE DEF q
<1>4. NoticeInv(q) /\ Id(q) = q
  <2>1. AskTold(q) \/ EndTold(q)
    BY <1>2, <1>3 DEF AskTold, EndTold
  <2> QED  BY <1>3, <2>1, GoodMeans DEF NoticeInv, ComingInv, Nowhere
<1>5. conn.on /\ e.kind = "ask" /\ q \notin conn.delivered => Unsaid(q, conn.out)
  <2>1. e.kind = "ask" => AskTold(q)
    BY <1>2, <1>3 DEF AskTold
  <2> QED  BY <1>4, <2>1 DEF NoticeInv, EndedInv, DeliveredInv, Unsaid, AskQueued, EndQueued
<1>0. Range(live') \subseteq Range(live)
  BY <1>1, <1>2
<1>6. CASE ~conn.on
  <2>1. conn' = conn
    BY <1>1, <1>6
  <2>2. FrontendTypeOK'
    BY <1>1, <1>2, <2>1 DEF Good, FrontendTypeOK
  <2>3. conn = NoConnection /\ screen = {} /\ said = <<>>
    BY <1>6, GoodMeans DEF ConnInv
  <2>4. conn.resume = "no" /\ Range(conn.out) = {} /\ conn.delivered = {} /\ conn.taken = {} /\ Range(said) = {}
    BY <2>3 DEF NoConnection, Range
  <2>5. ASSUME NEW p \in Nat \ {0} PROVE NoticeInv(p)'
    <3>1. NoticeInv(p)
      BY GoodMeans
    <3>2. AskTold(p)' => AskTold(p) /\ ~(e = Resolved(p))
      BY <1>1, <1>2, <1>3, <1>4, NoticesAre DEF AskTold, NoticeInv, ComingInv
    <3>3. (EndTold(p)' => EndTold(p)) /\ (EndTold(p) => EndTold(p)' \/ e = Resolved(p))
      BY <1>1, <1>2 DEF EndTold
    <3> QED  BY <1>0, <1>1, <2>1, <2>3, <2>4, <3>1, <3>2, <3>3
             DEF NoticeInv, ComingInv, StageOf, EndedInv, DeliveredInv, SeenInv, LeftInv, Settling, Nowhere,
                 AskComing, EndComing, AskTold, EndTold, AskQueued, EndQueued, Shown
  <2> QED  BY <1>1, <1>2, <2>1, <2>2, <2>5, GoodMeans DEF FrontendInv, ConnInv
<1>7. CASE conn.on
  <2>1. /\ conn' \in FrontendConnection /\ AsksFirst(conn'.out) /\ conn'.on = conn.on /\ conn'.taken = conn.taken
        /\ conn'.resume = conn.resume
        /\ conn.failed => conn'.failed
        /\ e.kind = "ask" /\ q \in conn.delivered => conn' = conn
        /\ e.kind = "ask" => conn'.delivered = conn.delivered \cup {q}
        /\ e.kind # "ask" => conn'.delivered = conn.delivered \ {q}
        /\ Range(conn.out) \subseteq Range(conn'.out) /\ Range(conn'.out) \subseteq Range(conn.out) \cup {e}
        /\ (e.kind = "ask" /\ q \in conn.delivered) \/ conn'.failed \/ e \in Range(conn'.out)
    BY <1>1, <1>2, <1>4, <1>5, <1>7, SentMeans, GoodMeans DEF q
  <2>2. FrontendTypeOK'
    BY <1>1, <1>2, <2>1 DEF Good, FrontendTypeOK
  <2>3. ASSUME NEW p \in Nat \ {0} PROVE NoticeInv(p)'
    <3>1. NoticeInv(p)
      BY GoodMeans
    <3>2. CASE e = Ask(p)
      <4>1. e.kind = "ask" /\ p = q
        BY <1>3, <3>2, NoticesAre
      <4>2. /\ AskTold(p) /\ ~AskTold(p)' /\ (EndTold(p)' <=> EndTold(p)) /\ (EndQueued(p)' <=> EndQueued(p))
            /\ AskQueued(p) => AskQueued(p)'
            /\ p \in conn'.delivered
            /\ p \in conn.delivered => conn' = conn /\ (AskQueued(p)' <=> AskQueued(p))
            /\ p \in conn.delivered \/ conn'.failed \/ AskQueued(p)'
        BY <1>1, <1>2, <2>1, <3>1, <3>2, <4>1, NoticesAre
           DEF AskTold, EndTold, AskQueued, EndQueued, NoticeInv, ComingInv
      <4> QED  BY <1>0, <1>1, <2>1, <3>1, <4>2
               DEF NoticeInv, ComingInv, StageOf, EndedInv, DeliveredInv, SeenInv, LeftInv, Settling, Nowhere,
                   AskComing, EndComing, Shown
    <3>3. CASE e = Resolved(p)
      <4>1. e.kind # "ask" /\ p = q
        BY <1>3, <3>3, NoticesAre
      <4>2. /\ ~AskTold(p)' /\ EndTold(p) /\ (EndTold(p)' => EndTold(p)) /\ (AskQueued(p)' <=> AskQueued(p))
            /\ EndQueued(p) => EndQueued(p)'
            /\ p \notin conn'.delivered
            /\ conn'.failed \/ EndQueued(p)'
        BY <1>1, <1>2, <2>1, <3>1, <3>3, <4>1, NoticesAre
           DEF AskTold, EndTold, AskQueued, EndQueued, NoticeInv, ComingInv
      <4> QED  BY <1>0, <1>1, <2>1, <3>1, <4>2
               DEF NoticeInv, ComingInv, StageOf, EndedInv, DeliveredInv, SeenInv, LeftInv, Settling, Nowhere,
                   AskComing, EndComing, Shown
    <3>4. CASE e # Ask(p) /\ e # Resolved(p)
      <4>1. p # q
        BY <1>3, <3>4
      <4>2. /\ AskTold(p)' <=> AskTold(p)
            /\ EndTold(p)' <=> EndTold(p)
            /\ AskQueued(p)' <=> AskQueued(p)
            /\ EndQueued(p)' <=> EndQueued(p)
            /\ p \in conn'.delivered <=> p \in conn.delivered
        BY <1>1, <1>2, <2>1, <3>4, <4>1 DEF AskTold, EndTold, AskQueued, EndQueued
      <4> QED  BY <1>0, <1>1, <2>1, <3>1, <4>2
               DEF NoticeInv, ComingInv, StageOf, EndedInv, DeliveredInv, SeenInv, LeftInv, Settling, Nowhere,
                   AskComing, EndComing, Shown
    <3> QED  BY <3>2, <3>3, <3>4
  <2> QED  BY <1>1, <1>2, <1>7, <2>1, <2>2, <2>3, GoodMeans DEF FrontendInv, ConnInv
<1> QED  BY <1>6, <1>7

LEMMA GatewayRepliesKeeps ==
  ASSUME Good, GatewayReplies
  PROVE  FrontendTypeOK' /\ FrontendInv'
<1> DEFINE left == {p \in pending : p \notin conn.delivered}
<1>1. PICK order \in Listings(left) :
         /\ ~gone /\ conn.on /\ conn' = [SentAll(conn, order) EXCEPT !.resume = "done"]
         /\ UNCHANGED <<prompts, inbox, hand, pending, live, lagged, screen, said, gone, since, silenced>>
  <2>1. {p \in pending : Id(p) \notin conn.delivered} = left
    BY GoodMeans
  <2> QED  BY <2>1 DEF GatewayReplies, Open
<1>2. left \in SUBSET (Nat \ {0}) /\ IsFiniteSet(left)
  <2>1. left \in SUBSET (Nat \ {0}) /\ left \subseteq 1 .. Len(prompts) /\ Len(prompts) \in Nat
    BY GoodMeans DEF Good, FrontendTypeOK, NoticeInv, ComingInv, Nowhere
  <2>2. IsFiniteSet(1 .. Len(prompts))
    BY <2>1, FS_Interval
  <2>3. IsFiniteSet(left)
    BY <2>1, <2>2, FS_Subset
  <2> QED  BY <2>1, <2>3
<1>3. \A p \in left : Id(p) = p /\ Unsaid(p, conn.out)
  <2>1. ASSUME NEW p \in left PROVE Id(p) = p /\ Unsaid(p, conn.out)
    <3>1. NoticeInv(p) /\ p \in pending /\ p \notin conn.delivered /\ Id(p) = p
      BY <1>2, GoodMeans
    <3> QED  BY <3>1 DEF NoticeInv, EndedInv, DeliveredInv, Unsaid, AskQueued, EndQueued
  <2> QED  BY <2>1
<1> HIDE DEF left
<1> DEFINE c == SentAll(conn, order)
<1>4. /\ c \in FrontendConnection /\ AsksFirst(c.out)
      /\ c.delivered = conn.delivered \cup left
      /\ c.on = conn.on /\ c.taken = conn.taken
      /\ conn.failed => c.failed
      /\ Range(c.out) \subseteq Range(conn.out) \cup {Ask(p) : p \in left}
      /\ c.failed \/ Range(c.out) = Range(conn.out) \cup {Ask(p) : p \in left}
  BY <1>2, <1>3, SentAllMeans, GoodMeans
<1>5. conn' = [c EXCEPT !.resume = "done"]
  BY <1>1
<1> HIDE DEF c
<1>6. /\ conn' \in FrontendConnection /\ conn'.delivered = c.delivered /\ conn'.taken = c.taken /\ conn'.out = c.out
      /\ conn'.failed = c.failed /\ conn'.on = c.on
  BY <1>4, <1>5 DEF FrontendConnection
<1>7. FrontendTypeOK'
  BY <1>1, <1>6 DEF Good, FrontendTypeOK
<1>8. ASSUME NEW p \in Nat \ {0} PROVE NoticeInv(p)'
  <2>1. NoticeInv(p)
    BY GoodMeans
  <2>2. /\ p \in left <=> p \in pending /\ p \notin conn.delivered
        /\ p \in conn'.delivered <=> p \in conn.delivered \/ p \in pending
    BY <1>4, <1>6 DEF left
  <2>3. /\ EndQueued(p)' => EndQueued(p)
        /\ AskQueued(p)' => AskQueued(p) \/ p \in left
        /\ conn'.failed \/ ((AskQueued(p) \/ p \in left => AskQueued(p)') /\ (EndQueued(p) => EndQueued(p)'))
    BY <1>4, <1>6, NoticesAre DEF AskQueued, EndQueued
  <2> QED  BY <1>1, <1>4, <1>6, <2>1, <2>2, <2>3
           DEF NoticeInv, ComingInv, StageOf, EndedInv, DeliveredInv, SeenInv, LeftInv, Settling, Nowhere,
               AskComing, EndComing, AskTold, EndTold, Shown
<1> QED  BY <1>1, <1>4, <1>6, <1>7, <1>8, GoodMeans DEF FrontendInv, ConnInv

LEMMA TerminalReadsKeeps ==
  ASSUME Good, TerminalReads
  PROVE  FrontendTypeOK' /\ FrontendInv'
<1> DEFINE e == Head(conn.out)
           q == e.prompt
<1>1. /\ conn.on /\ conn.out # <<>> /\ conn' = [conn EXCEPT !.out = Tail(conn.out)]
      /\ screen' = IF e.kind = "ask" THEN screen \cup {q} ELSE screen \ {q}
      /\ UNCHANGED <<prompts, inbox, hand, pending, live, lagged, said, gone, since, silenced>>
  <2>1. /\ conn.on /\ conn.out # <<>> /\ conn' = [conn EXCEPT !.out = Tail(@)]
        /\ screen' = IF e.kind = "ask" THEN screen \cup {q} ELSE {p \in screen : Id(p) # Id(q)}
        /\ UNCHANGED <<prompts, inbox, hand, pending, live, lagged, said, gone, since, silenced>>
    BY DEF TerminalReads
  <2>2. q \in DOMAIN prompts
    <3>1. e \in Range(conn.out) /\ e \in PromptNotes
      BY <2>1, TailHolds, GoodMeans
    <3>2. q \in Nat \ {0} /\ (AskQueued(q) \/ EndQueued(q))
      BY <3>1, NoticesAre DEF AskQueued, EndQueued
    <3> QED  BY <3>2, GoodMeans DEF NoticeInv, ComingInv, Nowhere
  <2> HIDE DEF e
  <2>3. {p \in screen : Id(p) # Id(q)} = screen \ {q}
    BY <2>2, GoodMeans
  <2> QED  BY <2>1, <2>3
<1>2. /\ e \in PromptNotes /\ Tail(conn.out) \in Seq(PromptNotes) /\ Range(conn.out) = {e} \cup Range(Tail(conn.out))
      /\ AsksFirst(Tail(conn.out)) /\ Ask(q) \notin Range(Tail(conn.out))
  BY <1>1, TailHolds, TailOrdered, GoodMeans
<1> HIDE DEF e
<1>3. /\ q \in Nat \ {0} /\ e # NoEvent
      /\ e.kind = "ask" => e = Ask(q)
      /\ e.kind # "ask" => e = Resolved(q)
  BY <1>2, NoticesAre
<1> HIDE DEF q
<1>4. conn \in FrontendConnection
  BY DEF Good, FrontendTypeOK
<1>5. /\ conn' \in FrontendConnection /\ conn'.delivered = conn.delivered /\ conn'.taken = conn.taken
      /\ conn'.out = Tail(conn.out) /\ conn'.resume = conn.resume /\ conn'.failed = conn.failed /\ conn'.on = conn.on
  BY <1>1, <1>2, <1>4 DEF FrontendConnection
<1>6. screen' \in SUBSET (Nat \ {0})
  BY <1>1, <1>3 DEF Good, FrontendTypeOK
<1>7. FrontendTypeOK'
  BY <1>1, <1>5, <1>6 DEF Good, FrontendTypeOK
<1>8. ASSUME NEW p \in Nat \ {0} PROVE NoticeInv(p)'
  <2>1. NoticeInv(p)
    BY GoodMeans
  <2>2. CASE e = Ask(p)
    <3>1. p = q /\ screen' = screen \cup {p} /\ AskQueued(p) /\ ~AskQueued(p)' /\ (EndQueued(p)' <=> EndQueued(p))
      BY <1>1, <1>2, <1>3, <1>5, <2>2, NoticesAre DEF AskQueued, EndQueued
    <3> QED  BY <1>1, <1>5, <2>1, <3>1
             DEF NoticeInv, ComingInv, StageOf, EndedInv, DeliveredInv, SeenInv, LeftInv, Settling, Nowhere,
                 AskComing, EndComing, AskTold, EndTold, Shown
  <2>3. CASE e = Resolved(p)
    <3>1. /\ p = q /\ screen' = screen \ {p} /\ EndQueued(p) /\ ~AskQueued(p)'
          /\ (AskQueued(p)' <=> AskQueued(p)) /\ (EndQueued(p)' => EndQueued(p))
      BY <1>1, <1>2, <1>3, <1>5, <2>3, NoticesAre DEF AskQueued, EndQueued
    <3> QED  BY <1>1, <1>5, <2>1, <3>1
             DEF NoticeInv, ComingInv, StageOf, EndedInv, DeliveredInv, SeenInv, LeftInv, Settling, Nowhere,
                 AskComing, EndComing, AskTold, EndTold, Shown
  <2>4. CASE e # Ask(p) /\ e # Resolved(p)
    <3>1. /\ p # q /\ (p \in screen' <=> p \in screen)
          /\ (AskQueued(p)' <=> AskQueued(p)) /\ (EndQueued(p)' <=> EndQueued(p))
      BY <1>1, <1>2, <1>3, <1>5, <2>4 DEF AskQueued, EndQueued
    <3> QED  BY <1>1, <1>5, <2>1, <3>1
             DEF NoticeInv, ComingInv, StageOf, EndedInv, DeliveredInv, SeenInv, LeftInv, Settling, Nowhere,
                 AskComing, EndComing, AskTold, EndTold, Shown
  <2> QED  BY <2>2, <2>3, <2>4
<1> QED  BY <1>1, <1>2, <1>5, <1>7, <1>8, GoodMeans DEF FrontendInv, ConnInv

LEMMA UserAnswersPromptKeeps ==
  ASSUME Good, NEW q \in screen, UserAnswersPrompt(q)
  PROVE  FrontendTypeOK' /\ FrontendInv'
<1>1. /\ conn.on /\ screen' = screen \ {q} /\ said' = Append(said, q)
      /\ UNCHANGED <<prompts, inbox, hand, pending, live, lagged, conn, gone, since, silenced>>
  BY DEF UserAnswersPrompt
<1>2. said' \in Seq(Nat \ {0}) /\ Range(said') = Range(said) \cup {q}
  <2>1. said \in Seq(Nat \ {0}) /\ q \in Nat \ {0}
    BY DEF Good, FrontendTypeOK
  <2> QED  BY <1>1, <2>1, AppendHolds
<1>3. FrontendTypeOK'
  BY <1>1, <1>2 DEF Good, FrontendTypeOK
<1>4. ASSUME NEW p \in Nat \ {0} PROVE NoticeInv(p)'
  <2>1. NoticeInv(p)
    BY GoodMeans
  <2>2. /\ Shown(p)' <=> Shown(p)
        /\ p \in screen' <=> p \in screen /\ p # q
        /\ p \in Range(said') <=> p \in Range(said) \/ p = q
    BY <1>1, <1>2 DEF Shown
  <2> QED  BY <1>1, <2>1, <2>2
           DEF NoticeInv, ComingInv, StageOf, EndedInv, DeliveredInv, SeenInv, LeftInv, Settling, Nowhere,
               AskComing, EndComing, AskTold, EndTold, AskQueued, EndQueued
<1> QED  BY <1>1, <1>3, <1>4, GoodMeans DEF FrontendInv, ConnInv

LEMMA GatewayRespondsKeeps ==
  ASSUME Good, GatewayResponds
  PROVE  FrontendTypeOK' /\ FrontendInv'
<1> DEFINE q == Head(said)
           now == pending \cap {q}
<1>1. /\ conn.on /\ ~gone /\ said # <<>> /\ said' = Tail(said) /\ pending' = pending \ now /\ gone' = (now = {})
      /\ prompts' = [p \in DOMAIN prompts |-> IF p \in now /\ prompts[p].at = "asked"
                                              THEN [prompts[p] EXCEPT !.at = "answered"] ELSE prompts[p]]
      /\ conn' = [conn EXCEPT !.taken = @ \cup now]
      /\ UNCHANGED <<inbox, hand, live, lagged, screen, since, silenced>>
  <2>1. said # <<>>
    BY DEF GatewayResponds
  <2>2. q \in DOMAIN prompts
    <3>1. q \in Range(said) /\ q \in Nat \ {0}
      BY <2>1, TailHolds DEF Good, FrontendTypeOK
    <3> QED  BY <3>1, GoodMeans DEF NoticeInv, ComingInv, Nowhere, Shown
  <2>3. {p \in pending : Id(p) = Id(q)} = now
    BY <2>2, GoodMeans
  <2> HIDE DEF q, now
  <2> QED  BY <2>3 DEF GatewayResponds, Open, q
<1>2. /\ q \in Nat \ {0} /\ Tail(said) \in Seq(Nat \ {0}) /\ Range(said) = {q} \cup Range(Tail(said))
  <2>1. said \in Seq(Nat \ {0})
    BY DEF Good, FrontendTypeOK
  <2> QED  BY <1>1, <2>1, TailHolds
<1>3. now \subseteq pending /\ (q \in pending <=> now = {q}) /\ (q \notin pending <=> now = {})
  OBVIOUS
<1> HIDE DEF now, q
<1>4. /\ prompts' \in Seq(PromptRecord) /\ DOMAIN prompts' = DOMAIN prompts
      /\ \A p \in DOMAIN prompts : /\ p \in now /\ prompts[p].at = "asked" => prompts'[p].at = "answered"
                                   /\ ~(p \in now /\ prompts[p].at = "asked") => prompts'[p] = prompts[p]
  <2>1. \A p \in DOMAIN prompts : [prompts[p] EXCEPT !.at = "answered"] \in PromptRecord
    BY GoodMeans DEF PromptRecord
  <2>2. \A p \in DOMAIN prompts : [prompts[p] EXCEPT !.at = "answered"].at = "answered"
    BY GoodMeans DEF PromptRecord
  <2>3. prompts' \in Seq(PromptRecord)
    BY <1>1, <2>1, GoodMeans
  <2> QED  BY <1>1, <2>2, <2>3
<1>5. conn \in FrontendConnection
  BY DEF Good, FrontendTypeOK
<1>6. now \in SUBSET (Nat \ {0})
  BY <1>3 DEF Good, FrontendTypeOK
<1>7. /\ conn' \in FrontendConnection /\ conn'.delivered = conn.delivered /\ conn'.taken = conn.taken \cup now
      /\ conn'.out = conn.out /\ conn'.resume = conn.resume /\ conn'.failed = conn.failed /\ conn'.on = conn.on
  BY <1>1, <1>5, <1>6 DEF FrontendConnection
<1>8. FrontendTypeOK'
  BY <1>1, <1>2, <1>4, <1>7 DEF Good, FrontendTypeOK
<1>9. ASSUME NEW p \in Nat \ {0} PROVE NoticeInv(p)'
  <2>1. NoticeInv(p) /\ (p \in DOMAIN prompts => prompts[p].at \in {"asked", "answered", "over"})
    BY GoodMeans
  <2>2. /\ p \in now <=> p \in pending /\ p = q
        /\ p \in Range(said) <=> p \in Range(said') \/ p = q
    BY <1>1, <1>2, <1>3
  <2> QED  BY <1>1, <1>4, <1>7, <2>1, <2>2
           DEF NoticeInv, ComingInv, StageOf, EndedInv, DeliveredInv, SeenInv, LeftInv, Settling, Nowhere,
               AskComing, EndComing, AskTold, EndTold, AskQueued, EndQueued, Shown
<1> QED  BY <1>1, <1>7, <1>8, <1>9, GoodMeans DEF FrontendInv, ConnInv

LEMMA FrontendInitially ==
  ASSUME FrontendInit PROVE FrontendTypeOK /\ FrontendInv
<1>1. /\ prompts = <<>> /\ inbox = <<>> /\ hand = NoEvent /\ pending = {} /\ live = <<>> /\ lagged = FALSE
      /\ conn = NoConnection /\ screen = {} /\ said = <<>> /\ gone = FALSE /\ since = 0 /\ silenced = {}
  BY DEF FrontendInit
<1>2. conn \in FrontendConnection /\ conn.out = <<>> /\ conn.delivered = {} /\ conn.taken = {} /\ conn.resume = "no"
  BY <1>1, EmptySeq DEF NoConnection, FrontendConnection
<1>3. FrontendTypeOK
  BY <1>1, <1>2, EmptySeq DEF FrontendTypeOK
<1>4. /\ Range(inbox) = {} /\ Range(live) = {} /\ Range(conn.out) = {} /\ Range(said) = {} /\ DOMAIN prompts = {}
      /\ AsksFirst(inbox) /\ AsksFirst(live) /\ AsksFirst(conn.out)
  BY <1>1, <1>2 DEF Range, AsksFirst
<1>5. ASSUME NEW p \in Nat \ {0} PROVE NoticeInv(p)
  BY <1>1, <1>2, <1>4, NoticesAre
     DEF NoticeInv, ComingInv, StageOf, EndedInv, DeliveredInv, SeenInv, LeftInv, Settling, Nowhere,
         AskComing, EndComing, AskTold, EndTold, AskQueued, EndQueued, Shown
<1> QED  BY <1>1, <1>3, <1>4, <1>5 DEF FrontendInv, ConnInv

LEMMA FrontendImplies ==
  ASSUME Good PROVE PromptsAgree
<1>1. NeverAskedAgain
  BY GoodMeans DEF NeverAskedAgain, NoticeInv, DeliveredInv, Good, FrontendTypeOK
<1>2. ASSUME Quiet, silenced = {} PROVE screen = pending
  <2>1. /\ ~gone /\ conn.resume = "done" /\ ~conn.failed /\ ~lagged /\ hand = NoEvent
        /\ Range(inbox) = {} /\ Range(live) = {} /\ Range(conn.out) = {} /\ Range(said) = {}
        /\ \A p \in DOMAIN prompts : prompts[p].at # "answered"
    BY <1>2 DEF Quiet, Open, Range
  <2>2. \A p : /\ ~AskTold(p) /\ ~EndTold(p) /\ ~AskComing(p) /\ ~EndComing(p) /\ ~AskQueued(p) /\ ~EndQueued(p)
    BY <2>1, NoticesAre DEF AskTold, EndTold, AskComing, EndComing, AskQueued, EndQueued
  <2>3. ASSUME NEW p \in pending PROVE p \in screen
    <3>1. NoticeInv(p)
      BY GoodMeans DEF Good, FrontendTypeOK
    <3> QED  BY <2>1, <2>2, <3>1 DEF NoticeInv, SeenInv
  <2>4. ASSUME NEW p \in screen PROVE p \in pending
    <3>1. NoticeInv(p)
      BY GoodMeans DEF Good, FrontendTypeOK
    <3>2. p \in DOMAIN prompts
      BY <3>1 DEF NoticeInv, ComingInv, Nowhere, Shown
    <3> QED  BY <1>2, <2>1, <2>2, <3>1, <3>2 DEF NoticeInv, LeftInv, Settling
  <2> QED  BY <2>3, <2>4
<1> QED  BY <1>1, <1>2 DEF PromptsAgree

\* As long as no engine was replaced by one that counts its prompts anew.
OwnIds == IdsRestart => rebuilds = 0
FrontendAlways == rebuilds \in Nat /\ (OwnIds => Good)

LEMMA NumberedStays ==
  ASSUME Good, FrontendNext, rebuilds \in Nat, OwnIds'
  PROVE  Numbered'
<1> SUFFICES ASSUME IdsRestart PROVE since' = 0 /\ \A p \in DOMAIN prompts' : prompts'[p].id = p
  BY DEF Numbered
<1>1. since = 0 /\ \A p \in DOMAIN prompts : prompts[p].id = p
  BY DEF Good, Numbered
<1>2. ~Rebuild
  <2>1. Rebuild => rebuilds' = rebuilds + 1
    BY DEF Rebuild
  <2> QED  BY <2>1 DEF OwnIds
<1>3. CASE EngineAsksUser
  <2> DEFINE record == [id |-> Len(prompts) + 1 - since, at |-> "asked"]
  <2>1. prompts' = Append(prompts, record) /\ since' = since
    BY <1>3 DEF EngineAsksUser
  <2>2. record \in PromptRecord /\ record.id = Len(prompts) + 1
    BY <1>1, GoodMeans DEF PromptRecord
  <2> HIDE DEF record
  <2>3. /\ DOMAIN prompts = 1 .. Len(prompts) /\ Len(prompts) \in Nat
        /\ DOMAIN Append(prompts, record) = 1 .. (Len(prompts) + 1)
        /\ Append(prompts, record)[Len(prompts) + 1] = record
        /\ \A n \in 1 .. Len(prompts) : Append(prompts, record)[n] = prompts[n]
    BY <2>2, AppendMeans DEF Good, FrontendTypeOK
  <2> QED  BY <1>1, <2>1, <2>2, <2>3
<1>4. CASE \E q \in DOMAIN prompts : EngineResolves(q)
  <2>1. PICK q \in DOMAIN prompts : prompts' = [prompts EXCEPT ![q].at = "over"] /\ since' = since
    BY <1>4 DEF EngineResolves
  <2>2. \A p \in DOMAIN prompts : [prompts[p] EXCEPT !.at = "over"].id = prompts[p].id
    BY GoodMeans DEF PromptRecord
  <2>3. DOMAIN prompts' = DOMAIN prompts /\ \A p \in DOMAIN prompts : prompts'[p].id = prompts[p].id
    BY <2>1, <2>2
  <2> QED  BY <1>1, <2>1, <2>3
<1>5. CASE GatewayResponds
  <2> DEFINE now == {p \in pending : Id(p) = Id(Head(said))}
  <2>1. /\ prompts' = [p \in DOMAIN prompts |-> IF p \in now /\ prompts[p].at = "asked"
                                                THEN [prompts[p] EXCEPT !.at = "answered"] ELSE prompts[p]]
        /\ since' = since
    BY <1>5 DEF GatewayResponds
  <2> HIDE DEF now
  <2>2. \A p \in DOMAIN prompts : [prompts[p] EXCEPT !.at = "answered"].id = prompts[p].id
    BY GoodMeans DEF PromptRecord
  <2>3. DOMAIN prompts' = DOMAIN prompts /\ \A p \in DOMAIN prompts : prompts'[p].id = prompts[p].id
    BY <2>1, <2>2
  <2> QED  BY <1>1, <2>1, <2>3
<1>6. CASE UNCHANGED <<prompts, since>>
  BY <1>1, <1>6
<1>7. \/ EngineAsksUser \/ GatewayResponds \/ \E q \in DOMAIN prompts : EngineResolves(q)
      \/ UNCHANGED <<prompts, since>>
  BY <1>2 DEF FrontendNext, PumpTakes, PumpTells, TerminalConnects, ConnectionEnds, GatewayGivesUp, GatewayMisses,
              GatewayHears, TerminalResumes, GatewayReplies, GatewayFails, TerminalReads, UserAnswersPrompt
<1> QED  BY <1>3, <1>4, <1>5, <1>6, <1>7

LEMMA RebuildsGrow ==
  ASSUME FrontendNext, rebuilds \in Nat
  PROVE  rebuilds' \in Nat /\ (OwnIds' => OwnIds)
<1>1. rebuilds' = rebuilds \/ rebuilds' = rebuilds + 1
  BY DEF FrontendNext, EngineAsksUser, EngineResolves, Rebuild, PumpTakes, PumpTells, TerminalConnects, ConnectionEnds,
         GatewayGivesUp, GatewayMisses, GatewayHears, TerminalResumes, GatewayReplies, GatewayFails, TerminalReads,
         UserAnswersPrompt, GatewayResponds
<1> QED  BY <1>1 DEF OwnIds

\* gateway.rs, gateway/connection.rs and local/gateway.rs: as long as no two prompts share an identity, an
\* answer that was taken is not asked for again, and when every event is delivered the user sees exactly what
\* waits for him, for every number of prompts, connections and rebuilt engines and every size of the queues.
THEOREM PromptsAlwaysAgree == FrontendSpec => []((IdsRestart => rebuilds = 0) => PromptsAgree)
<1>1. ASSUME FrontendInit PROVE FrontendAlways
  <2>1. rebuilds = 0 /\ since = 0 /\ prompts = <<>>
    BY <1>1 DEF FrontendInit
  <2>2. Numbered
    BY <2>1 DEF Numbered
  <2> QED  BY <1>1, <2>1, <2>2, FrontendInitially DEF FrontendAlways, Good
<1>2. FrontendAlways /\ [FrontendNext]_frontendVars => FrontendAlways'
  <2>1. ASSUME FrontendAlways, UNCHANGED frontendVars PROVE FrontendAlways'
    <3>1. UNCHANGED <<prompts, inbox, hand, pending, live, lagged, conn, screen, said, gone, rebuilds, since, silenced>>
      BY <2>1 DEF frontendVars
    <3>2. OwnIds' => Good
      BY <2>1, <3>1 DEF FrontendAlways, OwnIds
    <3>3. ASSUME Good, NEW p \in Nat \ {0} PROVE NoticeInv(p)'
      <4>1. NoticeInv(p)
        BY <3>3, GoodMeans
      <4> QED  BY <3>1, <4>1
               DEF NoticeInv, ComingInv, StageOf, EndedInv, DeliveredInv, SeenInv, LeftInv, Settling, Nowhere,
                   AskComing, EndComing, AskTold, EndTold, AskQueued, EndQueued, Shown
    <3>4. Good => FrontendTypeOK' /\ FrontendInv' /\ Numbered'
      BY <3>1, <3>3 DEF Good, FrontendTypeOK, FrontendInv, ConnInv, Numbered
    <3> QED  BY <2>1, <3>1, <3>2, <3>4 DEF FrontendAlways, Good
  <2>2. ASSUME FrontendAlways, FrontendNext PROVE FrontendAlways'
    <3>1. rebuilds' \in Nat /\ (OwnIds' => Good)
      BY <2>2, RebuildsGrow DEF FrontendAlways
    <3>2. ASSUME Good PROVE FrontendTypeOK' /\ FrontendInv'
      BY <2>2, <3>2, EngineAsksUserKeeps, EngineResolvesKeeps, PumpTakesKeeps, PumpTellsKeeps, RebuildKeeps,
         ConnectionsKeep, GatewayGivesUpKeeps, GatewayHearsKeeps, TerminalResumesKeeps, GatewayRepliesKeeps,
         TerminalReadsKeeps, UserAnswersPromptKeeps, GatewayRespondsKeeps DEF FrontendNext
    <3>3. OwnIds' /\ Good => Numbered'
      BY <2>2, NumberedStays DEF FrontendAlways
    <3> QED  BY <3>1, <3>2, <3>3 DEF FrontendAlways, Good
  <2> QED  BY <2>1, <2>2
<1>3. FrontendAlways => ((IdsRestart => rebuilds = 0) => PromptsAgree)
  BY FrontendImplies DEF FrontendAlways, OwnIds
<1> QED  BY <1>1, <1>2, <1>3, PTL DEF FrontendSpec
=============================================================================
