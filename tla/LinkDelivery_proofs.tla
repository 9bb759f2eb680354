------------------------- MODULE LinkDelivery_proofs -------------------------
(***************************************************************************)
(* Proofs about LinkDelivery: its types, the order of the copies, the      *)
(* entries of direct_links, the fate of the queue when a message is        *)
(* cancelled, and the promise of Settlement.                               *)
(***************************************************************************)
EXTENDS LinkDelivery, SequenceTheorems, FiniteSetTheorems, TLAPS

(* Where a session holds a copy: as its current payload or in its queue.    *)
Queued(s, c) == \E i \in DOMAIN s.queued : s.queued[i] = c
Holds(s, c) == (s.image /\ s.copy = c) \/ Queued(s, c)

(* The queue is in the order of the starts, behind the current copy; since  *)
(* copies are numbered from 1, a position is less than what is there.       *)
Ordered(s) ==
    \A i \in DOMAIN s.queued :
        /\ s.copy < s.queued[i] /\ i < s.queued[i]
        /\ \A j \in DOMAIN s.queued : i < j => s.queued[i] < s.queued[j]

(* What a session's state says of the rest of it.                           *)
SessionOK(s) ==
    /\ s.state = "Idle" => ~s.image
    /\ ~s.image => s.state \in {"Idle", "Failed"} /\ s.reusable /\ s.transfer = 0
    /\ ~s.reusable => s.queued = <<>>
    /\ s.link = "closed" => s.state \in {"Idle", "Complete", "Failed"} /\ s.transfer = 0
    /\ s.state = "Complete" => s.transfer = 0
    /\ s.state = "AwaitingProof" => Size[s.copy] = 0 /\ s.proof = s.copy
    /\ Ordered(s)

(* The segments before the one under way are proved, and a complete copy is *)
(* proved whole.                                                            *)
Proved(c) == \A k \in Segments(c) : <<c, k>> \in got

Proven(s) ==
    /\ s.transfer <= Size[s.copy]
    /\ \A k \in 1..s.transfer - 1 : <<s.copy, k>> \in got
    /\ s.state = "Complete" => Proved(s.copy)

Sound(s) == s \in Session /\ SessionOK(s) /\ Proven(s)

SessionsSound == \A l \in Links : Open(l) => Sound(pending[l])

(* An open copy has one session, and a session holds only open copies.      *)
HeldOpen == \A l \in Links, c \in Copies : Open(l) /\ Holds(pending[l], c) => outcome[c] = "open"
OpenHeld == \A c \in Copies : outcome[c] = "open" => \E l \in Links : Open(l) /\ Holds(pending[l], c)
HeldOnce ==
    \A k \in Links, l \in Links, c \in Copies :
        Open(k) /\ Open(l) /\ Holds(pending[k], c) /\ Holds(pending[l], c) => k = l

(* Copies are started in order, only a started copy is sent, and nothing of *)
(* a copy that is still in a queue.                                         *)
StartedInOrder == \A a \in Copies, b \in Copies : a < b /\ outcome[b] # "new" => outcome[a] # "new"
CurrentStarted == \A l \in Links : Open(l) => outcome[pending[l].copy] # "new"
SentStarted == \A p \in sent : outcome[p[1]] # "new"
QueuedUnsent == \A l \in Links, p \in sent : Open(l) => ~Queued(pending[l], p[1])

(* What was reported complete was proved whole.                             *)
CompleteProved == \A c \in Copies : outcome[c] = "complete" => Proved(c)

IInv ==
    /\ TypeOK /\ DirectLinksOwned /\ SessionsSound /\ CompleteProved
    /\ HeldOpen /\ OpenHeld /\ HeldOnce
    /\ StartedInOrder /\ CurrentStarted /\ SentStarted /\ QueuedUnsent

-----------------------------------------------------------------------------
(* Copies, segments and queues.                                             *)

LEMMA Constants ==
    /\ N \in Nat /\ Size \in [Copies -> Nat] /\ DestOf \in [Copies -> Dests]
    /\ MessageOf \in [Copies -> Messages] /\ OneShot \subseteq Copies
    /\ None \notin Links /\ None \notin Copies /\ None \notin Session
    /\ Copies \subseteq Nat
    /\ \A c \in Copies : 1 <= c /\ c <= N
BY InstanceAssumption, NoSessionAssumption DEF Copies

LEMMA PartIntro ==
    ASSUME NEW c \in Copies, NEW k \in Segments(c)
    PROVE  <<c, k>> \in Parts
BY DEF Parts

LEMMA PartElim ==
    ASSUME NEW p \in Parts
    PROVE  p[1] \in Copies /\ p[2] \in Segments(p[1]) /\ p = <<p[1], p[2]>>
BY DEF Parts

LEMMA SegmentTypes ==
    ASSUME NEW c \in Copies
    PROVE  /\ Segments(c) # {} /\ Segments(c) \subseteq Nat
           /\ Size[c] = 0 => Segments(c) = {0}
           /\ Size[c] > 0 => Segments(c) = 1..Size[c]
<1>1. Size[c] \in Nat
  BY Constants
<1>2. CASE Size[c] = 0
  BY <1>2 DEF Segments
<1>3. CASE Size[c] > 0
  <2>1. 1 \in Segments(c)
    BY <1>1, <1>3 DEF Segments
  <2> QED
    BY <1>1, <1>3, <2>1 DEF Segments
<1> QED
  BY <1>1, <1>2, <1>3

LEMMA SessionTypes ==
    ASSUME NEW s \in Session
    PROVE  /\ s.dest \in Dests /\ s.reusable \in BOOLEAN /\ s.copy \in Copies
           /\ s.image \in BOOLEAN /\ s.state \in DeliveryState /\ s.queued \in Seq(Copies)
           /\ s.link \in {"pending", "active", "stale", "closed"} /\ s.transfer \in Nat
           /\ s # None /\ s.copy \in Nat
BY Constants DEF Session

LEMMA QueueTail ==
    ASSUME NEW q \in Seq(Copies), q # <<>>
    PROVE  /\ Head(q) \in Copies /\ Head(q) = q[1] /\ Tail(q) \in Seq(Copies)
           /\ DOMAIN Tail(q) = 1..(Len(q) - 1) /\ 1 \in DOMAIN q
           /\ \A i \in DOMAIN Tail(q) : i + 1 \in DOMAIN q /\ Tail(q)[i] = q[i + 1]
           /\ \A i \in DOMAIN q : i # 1 => i - 1 \in DOMAIN Tail(q) /\ Tail(q)[i - 1] = q[i]
<1>1. Len(q) \in Nat /\ Len(q) > 0 /\ DOMAIN q = 1..Len(q)
  OBVIOUS
<1>2. Len(Tail(q)) = Len(q) - 1 /\ Tail(q) \in Seq(Copies)
  OBVIOUS
<1>3. DOMAIN Tail(q) = 1..(Len(q) - 1)
  BY <1>2
<1>4. \A i \in 1..(Len(q) - 1) : Tail(q)[i] = q[i + 1]
  BY <1>1
<1>5. Head(q) = q[1] /\ q[1] \in Copies
  BY <1>1
<1> QED
  BY <1>1, <1>2, <1>3, <1>4, <1>5

LEMMA QueueTypes ==
    ASSUME NEW q \in Seq(Copies)
    PROVE  /\ Len(q) \in Nat /\ DOMAIN q = 1..Len(q) /\ DOMAIN q \subseteq Nat
           /\ \A i \in DOMAIN q : q[i] \in Copies /\ q[i] \in Nat
BY Constants

LEMMA QueueAppend ==
    ASSUME NEW q \in Seq(Copies), NEW c \in Copies
    PROVE  /\ Append(q, c) \in Seq(Copies) /\ Append(q, c) # <<>>
           /\ DOMAIN Append(q, c) = 1..(Len(q) + 1)
           /\ Append(q, c)[Len(q) + 1] = c
           /\ \A i \in DOMAIN q : i \in DOMAIN Append(q, c) /\ Append(q, c)[i] = q[i]
OBVIOUS

Without(q, i) == SubSeq(q, 1, i - 1) \o SubSeq(q, i + 1, Len(q))

LEMMA QueueWithout ==
    ASSUME NEW q \in Seq(Copies), NEW i \in DOMAIN q
    PROVE  /\ Without(q, i) \in Seq(Copies)
           /\ DOMAIN Without(q, i) = 1..(Len(q) - 1)
           /\ \A j \in DOMAIN Without(q, i) :
                 Without(q, i)[j] = IF j < i THEN q[j] ELSE q[j + 1]
<1>1. Len(q) \in Nat /\ i \in 1..Len(q) /\ DOMAIN q = 1..Len(q)
  OBVIOUS
<1> DEFINE a == SubSeq(q, 1, i - 1)
           b == SubSeq(q, i + 1, Len(q))
<1>2. a \in Seq(Copies) /\ Len(a) = i - 1 /\ \A j \in 1..(i - 1) : a[j] = q[j]
  BY <1>1
<1>3. b \in Seq(Copies) /\ Len(b) = Len(q) - i /\ \A j \in 1..(Len(q) - i) : b[j] = q[j + i]
  BY <1>1
<1> HIDE DEF a, b
<1>4. /\ a \o b \in Seq(Copies) /\ Len(a \o b) = Len(a) + Len(b)
      /\ \A j \in 1..(Len(a) + Len(b)) : (a \o b)[j] = IF j <= Len(a) THEN a[j] ELSE b[j - Len(a)]
  BY <1>2, <1>3, ConcatProperties
<1>5. \A j \in 1..(Len(q) - 1) : (a \o b)[j] = IF j < i THEN q[j] ELSE q[j + 1]
  <2> SUFFICES ASSUME NEW j \in 1..(Len(q) - 1)
               PROVE  (a \o b)[j] = IF j < i THEN q[j] ELSE q[j + 1]
    OBVIOUS
  <2>1. (a \o b)[j] = IF j <= Len(a) THEN a[j] ELSE b[j - Len(a)]
    BY <1>1, <1>2, <1>3, <1>4, SMTT(30)
  <2>2. CASE j < i
    BY <1>1, <1>2, <2>1, <2>2
  <2>3. CASE ~(j < i)
    <3>1. j - Len(a) = j - i + 1 /\ j - i + 1 \in 1..(Len(q) - i) /\ ~(j <= Len(a))
      BY <1>1, <1>2, <2>3, SMTT(30)
    <3>2. (a \o b)[j] = b[j - i + 1]
      BY <2>1, <3>1
    <3>3. b[j - i + 1] = q[j - i + 1 + i]
      BY <1>3, <3>1
    <3>4. j - i + 1 + i = j + 1
      BY <1>1
    <3> QED
      BY <2>3, <3>2, <3>3, <3>4
  <2> QED
    BY <2>2, <2>3
<1>6. DOMAIN (a \o b) = 1..(Len(q) - 1)
  <2>1. \A t \in Seq(Copies) : DOMAIN t = 1..Len(t)
    OBVIOUS
  <2>2. Len(a) + Len(b) = Len(q) - 1
    BY <1>1, <1>2, <1>3
  <2> QED
    BY <1>4, <2>1, <2>2, Zenon
<1> QED
  BY <1>4, <1>5, <1>6 DEF Without, a, b
-----------------------------------------------------------------------------
(* Sessions.                                                                *)

(* t has no copy that s has not, and its queue none that was not queued.    *)
Carries(s, t) ==
    /\ t.dest = s.dest /\ t.reusable = s.reusable
    /\ \A c \in Copies : Holds(t, c) => Holds(s, c)
    /\ \A c \in Copies : Queued(t, c) => Queued(s, c)
    /\ t.copy = s.copy \/ Queued(s, t.copy)

(* t holds the same copies in the same places.                              *)
Same(s, t) ==
    /\ t.dest = s.dest /\ t.reusable = s.reusable /\ t.copy = s.copy
    /\ t.image = s.image /\ t.queued = s.queued

LEMMA SameHolds ==
    ASSUME NEW s, NEW t, Same(s, t)
    PROVE  /\ Carries(s, t) /\ (Ordered(s) => Ordered(t))
           /\ \A c \in Copies : (Holds(t, c) <=> Holds(s, c)) /\ (Queued(t, c) <=> Queued(s, c))
BY DEF Same, Carries, Holds, Queued, Ordered

LEMMA CurrentFirst ==
    ASSUME NEW s \in Session, Ordered(s)
    PROVE  ~Queued(s, s.copy)
<1>1. s.copy \in Nat
  BY SessionTypes
<1> QED
  BY <1>1 DEF Queued, Ordered

LEMMA QueuedCopies ==
    ASSUME NEW s \in Session, NEW i \in DOMAIN s.queued
    PROVE  s.queued[i] \in Copies /\ s.queued[i] \in Nat /\ i \in Nat /\ Queued(s, s.queued[i])
BY SessionTypes, QueueTypes DEF Queued

LEMMA TailOrdered ==
    ASSUME NEW s \in Session, s.queued # <<>>, Ordered(s),
           NEW t \in Session, t.copy = Head(s.queued), t.queued = Tail(s.queued)
    PROVE  /\ Ordered(t) /\ Queued(s, t.copy)
           /\ \A c \in Copies : Queued(s, c) <=> c = t.copy \/ Queued(t, c)
<1> DEFINE q == s.queued
<1>1. q \in Seq(Copies) /\ q # <<>>
  BY SessionTypes
<1> HIDE DEF q
<1>2. /\ Head(q) \in Copies /\ Head(q) = q[1] /\ DOMAIN Tail(q) = 1..(Len(q) - 1)
      /\ 1 \in DOMAIN q /\ DOMAIN q = 1..Len(q) /\ Len(q) \in Nat
      /\ \A i \in DOMAIN Tail(q) : i + 1 \in DOMAIN q /\ Tail(q)[i] = q[i + 1]
      /\ \A i \in DOMAIN q : i # 1 => i - 1 \in DOMAIN Tail(q) /\ Tail(q)[i - 1] = q[i]
      /\ \A i \in DOMAIN q : q[i] \in Nat
  BY <1>1, QueueTail, QueueTypes
<1>3. \A i \in DOMAIN q : i < q[i] /\ \A j \in DOMAIN q : i < j => q[i] < q[j]
  BY DEF Ordered, q
<1>4. Ordered(t)
  <2> SUFFICES ASSUME NEW i \in DOMAIN Tail(q)
               PROVE  /\ q[1] < Tail(q)[i] /\ i < Tail(q)[i]
                      /\ \A j \in DOMAIN Tail(q) : i < j => Tail(q)[i] < Tail(q)[j]
    BY <1>2 DEF Ordered, q
  <2>1. i \in Nat /\ 1 < i + 1 /\ i + 1 \in DOMAIN q /\ Tail(q)[i] = q[i + 1]
    BY <1>2
  <2>2. q[1] < q[i + 1] /\ i + 1 < q[i + 1] /\ q[i + 1] \in Nat
    BY <1>2, <1>3, <2>1
  <2>3. ASSUME NEW j \in DOMAIN Tail(q), i < j PROVE Tail(q)[i] < Tail(q)[j]
    <3>1. j \in Nat /\ j + 1 \in DOMAIN q /\ Tail(q)[j] = q[j + 1] /\ i + 1 < j + 1
      BY <1>2, <2>1, <2>3
    <3> QED
      BY <1>3, <2>1, <3>1
  <2> QED
    BY <2>1, <2>2, <2>3
<1>5. Queued(s, t.copy)
  BY <1>2 DEF Queued, q
<1>6. ASSUME NEW c \in Copies PROVE Queued(s, c) <=> c = t.copy \/ Queued(t, c)
  <2>1. Queued(s, c) <=> \E i \in DOMAIN q : q[i] = c
    BY DEF Queued, q
  <2>2. Queued(t, c) <=> \E i \in DOMAIN Tail(q) : Tail(q)[i] = c
    BY DEF Queued, q
  <2>3. t.copy = q[1]
    BY <1>2 DEF q
  <2>4. ASSUME NEW i \in DOMAIN q, q[i] = c PROVE c = t.copy \/ Queued(t, c)
    <3>1. CASE i = 1
      BY <2>3, <2>4, <3>1
    <3>2. CASE i # 1
      BY <1>2, <2>2, <2>4, <3>2
    <3> QED
      BY <3>1, <3>2
  <2>5. ASSUME NEW i \in DOMAIN Tail(q), Tail(q)[i] = c PROVE Queued(s, c)
    BY <1>2, <2>1, <2>5
  <2> QED
    BY <1>5, <2>1, <2>2, <2>4, <2>5
<1> QED
  BY <1>4, <1>5, <1>6

(* The next copy of the queue becomes the current one.                      *)
LEMMA Started ==
    ASSUME NEW s \in Session, Ordered(s), s.reusable, s.queued # <<>>, s.link # "closed",
           NEW state \in {"Identifying", "Establishing"}
    PROVE  LET t == [StartQueued(s) EXCEPT !.state = state]
           IN  /\ Sound(t) /\ Carries(s, t)
               /\ \A c \in Copies : Holds(t, c) <=> Queued(s, c)
               /\ t.link = s.link /\ t.image /\ t.state = state
<1> DEFINE t == [StartQueued(s) EXCEPT !.state = state]
<1>0. s.queued \in Seq(Copies)
  BY SessionTypes
<1>1. Head(s.queued) \in Copies /\ Tail(s.queued) \in Seq(Copies)
  BY <1>0, QueueTail
<1>2. /\ t \in Session /\ t.copy = Head(s.queued) /\ t.queued = Tail(s.queued) /\ t.state = state
      /\ t.image /\ t.transfer = 0 /\ t.link = s.link /\ t.dest = s.dest /\ t.reusable = s.reusable
  BY <1>1 DEF StartQueued, Session, DeliveryState
<1> HIDE DEF t
<1>3. /\ Ordered(t) /\ Queued(s, t.copy)
      /\ \A c \in Copies : Queued(s, c) <=> c = t.copy \/ Queued(t, c)
  BY <1>2, TailOrdered
<1>4. SessionOK(t)
  BY <1>2, <1>3 DEF SessionOK
<1>5. Proven(t)
  <2>1. Size[t.copy] \in Nat
    BY <1>1, <1>2, Constants
  <2> QED
    BY <1>2, <2>1 DEF Proven
<1>6. Sound(t) /\ Carries(s, t) /\ \A c \in Copies : Holds(t, c) <=> Queued(s, c)
  BY <1>2, <1>3, <1>4, <1>5 DEF Sound, Carries, Holds
<1> QED
  BY <1>2, <1>6 DEF t

LEMMA StartQueuedSound ==
    ASSUME NEW s \in Session, Ordered(s), s.reusable, s.queued # <<>>, s.link # "closed"
    PROVE  /\ Sound(StartQueued(s)) /\ Carries(s, StartQueued(s))
           /\ \A c \in Copies : Holds(StartQueued(s), c) <=> Queued(s, c)
           /\ StartQueued(s).link = s.link /\ StartQueued(s).image
           /\ StartQueued(s).state = "Identifying"
<1>1. s.queued \in Seq(Copies)
  BY SessionTypes
<1>2. Head(s.queued) \in Copies /\ Tail(s.queued) \in Seq(Copies)
  BY <1>1, QueueTail
<1>3. [StartQueued(s) EXCEPT !.state = "Identifying"] = StartQueued(s)
  BY <1>2 DEF StartQueued, Session
<1> QED
  BY <1>3, Started, Zenon

LEMMA NextOrIdleSound ==
    ASSUME NEW s, Sound(s), s.reusable
    PROVE  /\ Sound(NextOrIdle(s)) /\ Carries(s, NextOrIdle(s))
           /\ \A c \in Copies : Holds(NextOrIdle(s), c) <=> Queued(s, c)
           /\ NextOrIdle(s).link = s.link /\ NextOrIdle(s).state \in {"Idle", "Identifying"}
<1>0. s \in Session /\ Ordered(s)
  BY DEF Sound, SessionOK
<1>1. CASE s.link = "active" /\ s.queued # <<>>
  BY <1>0, <1>1, StartQueuedSound DEF NextOrIdle
<1>2. CASE ~(s.link = "active" /\ s.queued # <<>>)
  <2> DEFINE t == [s EXCEPT !.image = FALSE, !.state = "Idle", !.transfer = 0, !.proof = None,
                            !.dispatch = FALSE]
  <2>1. NextOrIdle(s) = t
    BY <1>2 DEF NextOrIdle
  <2>2. /\ t \in Session /\ ~t.image /\ t.state = "Idle" /\ t.transfer = 0 /\ t.link = s.link
        /\ t.dest = s.dest /\ t.reusable = s.reusable /\ t.copy = s.copy /\ t.queued = s.queued
    BY <1>0 DEF Session, DeliveryState
  <2> HIDE DEF t
  <2>3. Ordered(t) /\ \A c \in Copies : Queued(t, c) <=> Queued(s, c)
    BY <1>0, <2>2 DEF Ordered, Queued
  <2>4. Proven(t)
    <3>1. Size[t.copy] \in Nat
      BY <1>0, <2>2, SessionTypes, Constants
    <3> QED
      BY <2>2, <3>1 DEF Proven
  <2>5. Sound(t) /\ Carries(s, t) /\ \A c \in Copies : Holds(t, c) <=> Queued(s, c)
    BY <2>2, <2>3, <2>4 DEF Sound, SessionOK, Carries, Holds
  <2> QED
    BY <2>1, <2>2, <2>5
<1> QED
  BY <1>1, <1>2

-----------------------------------------------------------------------------
(* A tick of one session.                                                   *)

Kinds == {"complete", "rejected", "failed"}
Reported(r, c) == \E kind \in Kinds : <<c, kind>> \in r.reports
Left(r, c) == r.session # None /\ Holds(r.session, c)

(* Each copy of the session is either reported or still held, not both; a   *)
(* complete copy is proved, and what is sent is of the current copy.        *)
IsResult(r) ==
    DOMAIN r = {"session", "reports", "sent", "panic"}

Good(s, r) ==
    /\ IsResult(r)
    /\ r.session # None => Sound(r.session) /\ Carries(s, r.session)
    /\ \A c \in Copies : Holds(s, c) <=> Reported(r, c) \/ Left(r, c)
    /\ \A c \in Copies : ~(Reported(r, c) /\ Left(r, c))
    /\ \A c \in Copies : <<c, "complete">> \in r.reports => Proved(c)
    /\ \A p \in r.sent :
          p \in Parts /\ Holds(s, p[1]) /\ (r.session # None => ~Queued(r.session, p[1]))

(* Before the Link itself is ticked, nothing is left to settle.             *)
Settleless(r) ==
    r.session # None /\ ~r.panic =>
        /\ r.session.state # "Complete" /\ (r.session.state # "Idle" => r.session.image)
        /\ r.session.link = "closed" => r.session.state = "Idle"

LEMMA KeepFields ==
    ASSUME NEW t
    PROVE  /\ Keep(t).session = t /\ Keep(t).reports = {} /\ Keep(t).sent = {}
           /\ Keep(t).panic = FALSE /\ IsResult(Keep(t))
BY DEF Keep, Result, IsResult

LEMMA SoundTypes ==
    ASSUME NEW s, Sound(s)
    PROVE  s \in Session /\ s # None /\ s.copy \in Copies /\ Ordered(s) /\ ~Queued(s, s.copy)
BY CurrentFirst, SessionTypes DEF Sound, SessionOK

(* A step that leaves the copies where they are and may send a part of the  *)
(* current one.                                                             *)
Sends(s, r) ==
    /\ IsResult(r)
    /\ Sound(r.session) /\ Same(s, r.session)
    /\ r.reports = {} /\ r.panic = FALSE
    /\ \A p \in r.sent : r.session.image /\ p \in Parts /\ p[1] = r.session.copy

LEMMA SendsGood ==
    ASSUME NEW s, NEW r, Sends(s, r)
    PROVE  Good(s, r)
<1>1. /\ Carries(s, r.session)
      /\ \A c \in Copies : Holds(r.session, c) <=> Holds(s, c)
  BY SameHolds DEF Sends
<1>2. r.session # None /\ r.session.copy \in Copies /\ ~Queued(r.session, r.session.copy)
  BY SoundTypes DEF Sends
<1>3. ASSUME NEW p \in r.sent
      PROVE  p \in Parts /\ Holds(s, p[1]) /\ ~Queued(r.session, p[1])
  <2>1. r.session.image /\ p \in Parts /\ p[1] = r.session.copy
    BY DEF Sends
  <2>2. Holds(r.session, p[1])
    BY <2>1 DEF Holds
  <2> QED
    BY <1>1, <1>2, <2>1, <2>2
<1> QED
  BY <1>1, <1>2, <1>3 DEF Sends, Good, Reported, Left

LEMMA KeepSends ==
    ASSUME NEW s, NEW t, Sound(t), Same(s, t)
    PROVE  Sends(s, Keep(t))
BY KeepFields DEF Sends

LEMMA FailedQueue ==
    ASSUME NEW s \in Session, NEW c \in Copies, NEW kind
    PROVE  <<c, kind>> \in QueueFailed(s) <=> kind = "failed" /\ Queued(s, c)
BY DEF QueueFailed, Queued

LEMMA FailAllGood ==
    ASSUME NEW s, Sound(s)
    PROVE  /\ Good(s, FailAll(s)) /\ (FailAll(s).session # None => FailAll(s).panic)
           /\ FailAll(s).panic \in BOOLEAN /\ (s.image => FailAll(s).session = None /\ ~FailAll(s).panic)
<1>0. s \in Session /\ s # None /\ s.copy \in Copies
  BY SoundTypes
<1>1. CASE s.image
  <2> DEFINE r == FailAll(s)
  <2>1. /\ r.session = None /\ r.sent = {} /\ r.panic = FALSE
        /\ r.reports = {<<s.copy, "failed">>} \cup QueueFailed(s) /\ IsResult(r)
    BY <1>1 DEF FailAll, Result, IsResult
  <2> HIDE DEF r
  <2>2. ASSUME NEW c \in Copies
        PROVE  (Holds(s, c) <=> Reported(r, c)) /\ <<c, "complete">> \notin r.reports
    <3>1. \A kind : <<c, kind>> \in r.reports <=> kind = "failed" /\ (c = s.copy \/ Queued(s, c))
      BY <1>0, <2>1, FailedQueue
    <3> QED
      BY <1>1, <3>1 DEF Holds, Reported, Kinds
  <2> QED
    BY <2>1, <2>2 DEF Good, Left, r
<1>2. CASE ~s.image
  <2> DEFINE r == FailAll(s)
  <2>1. r.session = s /\ r.sent = {} /\ r.panic = TRUE /\ r.reports = {} /\ IsResult(r)
    BY <1>2 DEF FailAll, Keep, Result, IsResult
  <2> HIDE DEF r
  <2>2. Carries(s, s)
    BY DEF Carries
  <2> QED
    BY <1>0, <1>2, <2>1, <2>2 DEF Good, Left, Reported, r
<1> QED
  BY <1>1, <1>2

(* The session after the settlement of the current copy.                    *)
Follows(s, t) ==
    /\ Sound(t) /\ Carries(s, t) /\ \A c \in Copies : Holds(t, c) <=> Queued(s, c)
    /\ t.link = s.link /\ t.state \in {"Idle", "Identifying"}

LEMMA SettleAsGood ==
    ASSUME NEW s, Sound(s), s.image, NEW kind \in {"complete", "rejected"},
           kind = "complete" => Proved(s.copy),
           NEW t, s.reusable => Follows(s, t)
    PROVE  Good(s, SettleAs(s, kind, t)) /\ Settleless(SettleAs(s, kind, t)) /\ ~SettleAs(s, kind, t).panic
<1> DEFINE r == SettleAs(s, kind, t)
<1>0. s \in Session /\ s # None /\ s.copy \in Copies /\ ~Queued(s, s.copy)
      /\ (s.reusable => t # None)
  BY SoundTypes DEF Follows
<1>1. CASE s.reusable /\ s.link # "closed"
  <2>1. r.session = t /\ r.sent = {} /\ r.panic = FALSE /\ r.reports = {<<s.copy, kind>>}
        /\ IsResult(r)
    BY <1>1 DEF SettleAs, Result, IsResult
  <2> HIDE DEF r
  <2>2. \A c \in Copies : Reported(r, c) <=> c = s.copy
    BY <2>1 DEF Reported, Kinds
  <2>3. \A c \in Copies : Holds(s, c) <=> c = s.copy \/ Queued(s, c)
    BY DEF Holds
  <2>4. \A c \in Copies : <<c, "complete">> \in r.reports => Proved(c)
    BY <2>1
  <2> QED
    BY <1>0, <1>1, <2>1, <2>2, <2>3, <2>4 DEF Good, Left, Settleless, Follows, Sound, SessionOK, r
<1>2. CASE ~(s.reusable /\ s.link # "closed")
  <2>1. /\ r.session = None /\ r.sent = {} /\ r.panic = FALSE
        /\ r.reports = {<<s.copy, kind>>} \cup QueueFailed(s) /\ IsResult(r)
    BY <1>2 DEF SettleAs, Result, IsResult
  <2> HIDE DEF r
  <2>2. \A c \in Copies : Reported(r, c) <=> c = s.copy \/ Queued(s, c)
    BY <1>0, <2>1, FailedQueue DEF Reported, Kinds
  <2>3. \A c \in Copies : Holds(s, c) <=> c = s.copy \/ Queued(s, c)
    BY DEF Holds
  <2>4. \A c \in Copies : <<c, "complete">> \in r.reports => Proved(c)
    BY <1>0, <2>1, FailedQueue
  <2> QED
    BY <2>1, <2>2, <2>3, <2>4 DEF Good, Left, Settleless, r
<1> QED
  BY <1>1, <1>2

(* A session changed in what its transport owes it, or failed.              *)
LEMMA SoundChange ==
    ASSUME NEW s, Sound(s), NEW t \in Session, Same(s, t), t.transfer = s.transfer,
           \/ t.state = "Failed" /\ (t.link = "closed" => s.link = "closed")
           \/ t.state = s.state /\ t.proof = s.proof /\ (t.link = "closed" <=> s.link = "closed")
    PROVE  Sound(t)
<1>1. Ordered(t)
  BY SameHolds DEF Sound, SessionOK
<1>2. SessionOK(t)
  BY <1>1 DEF Sound, SessionOK, Same
<1>3. Proven(t)
  BY DEF Sound, Proven, Same
<1> QED
  BY <1>2, <1>3 DEF Sound

LEMMA FailingSound ==
    ASSUME NEW s, Sound(s)
    PROVE  /\ Sound(Failing(s)) /\ Same(s, Failing(s))
           /\ Failing(s).state = "Failed" /\ Failing(s).link = s.link
<1>1. s \in Session
  BY DEF Sound
<1>2. /\ Failing(s) \in Session /\ Same(s, Failing(s)) /\ Failing(s).transfer = s.transfer
      /\ Failing(s).state = "Failed" /\ Failing(s).link = s.link
  BY <1>1 DEF Failing, Session, DeliveryState, Same
<1> QED
  BY <1>2, SoundChange

LEMMA StagedSound ==
    ASSUME NEW s, Sound(s)
    PROVE  /\ Sound(Identifies(s)) /\ Same(s, Identifies(s))
           /\ Identifies(s).state = s.state /\ Identifies(s).link = s.link
           /\ Identifies(s).transfer = s.transfer
           /\ Sound(SendsPlain(s)) /\ Same(s, SendsPlain(s))
           /\ SendsPlain(s).state = s.state /\ SendsPlain(s).link = s.link
           /\ SendsPlain(s).transfer = s.transfer
<1>1. s \in Session
  BY DEF Sound
<1>2. /\ Identifies(s) \in Session /\ Same(s, Identifies(s)) /\ Identifies(s).transfer = s.transfer
      /\ Identifies(s).state = s.state /\ Identifies(s).link = s.link
      /\ Identifies(s).proof = s.proof
  BY <1>1 DEF Identifies, Session, Same
<1>3. /\ SendsPlain(s) \in Session /\ Same(s, SendsPlain(s)) /\ SendsPlain(s).transfer = s.transfer
      /\ SendsPlain(s).state = s.state /\ SendsPlain(s).link = s.link
      /\ SendsPlain(s).proof = s.proof
  BY <1>1 DEF SendsPlain, Session, Same
<1> QED
  BY <1>2, <1>3, SoundChange

LEMMA SameChain ==
    ASSUME NEW s, NEW t, Same(s, t), NEW r, Sends(t, r)
    PROVE  Sends(s, r)
BY DEF Same, Sends

Live(r) == r.session.state # "Complete" /\ r.session.image /\ r.session.link # "closed"

LEMMA KeepLive ==
    ASSUME NEW s, NEW t, Sound(t), Same(s, t), t.state # "Complete", t.link # "closed", t.image
    PROVE  Sends(s, Keep(t)) /\ Live(Keep(t))
<1>1. Keep(t).session = t
  BY KeepFields, Zenon
<1>2. Sends(s, Keep(t))
  BY KeepSends
<1> QED
  BY <1>1, <1>2 DEF Live

LEMMA TransmitSends ==
    ASSUME NEW s, Sound(s), s.state = "Identifying", s.link = "active", NEW ch,
           exact \in BOOLEAN
    PROVE  Sends(s, Transmit(s, ch)) /\ Live(Transmit(s, ch))
<1>0. s \in Session /\ s.copy \in Copies /\ Ordered(s) /\ s.image /\ s.plain \in BOOLEAN
  BY SoundTypes DEF Sound, SessionOK, Session
<1>1. CASE ch = "fault"
  <2>1. Transmit(s, ch) = Keep(Failing(s))
    BY <1>1 DEF Transmit
  <2>2. /\ Sound(Failing(s)) /\ Same(s, Failing(s)) /\ Failing(s).state = "Failed"
        /\ Failing(s).link = "active" /\ Failing(s).image
    BY FailingSound DEF Same, Sound, SessionOK
  <2> QED
    BY <2>1, <2>2, KeepLive
<1>2. CASE ch # "fault" /\ Size[s.copy] > 0
  <2> DEFINE t == [s EXCEPT !.state = "Transferring", !.transfer = 1]
  <2>1. Transmit(s, ch) = Keep(t)
    BY <1>2 DEF Transmit
  <2>2. /\ t \in Session /\ Same(s, t) /\ t.state = "Transferring" /\ t.transfer = 1
        /\ t.link = "active"
    BY <1>0 DEF Session, DeliveryState, Same
  <2> HIDE DEF t
  <2>3. Ordered(t)
    BY <1>0, <2>2, SameHolds
  <2>4. SessionOK(t)
    BY <1>0, <2>2, <2>3 DEF SessionOK, Same, Sound
  <2>5. Proven(t)
    <3>1. Size[s.copy] \in Nat /\ t.copy = s.copy
      BY <1>0, <2>2, Constants DEF Same
    <3> QED
      BY <1>2, <2>2, <3>1 DEF Proven
  <2>6. Sound(t)
    BY <2>2, <2>4, <2>5 DEF Sound
  <2> QED
    BY <1>0, <2>1, <2>2, <2>6, KeepLive DEF Same
<1>3. CASE ch # "fault" /\ ~(Size[s.copy] > 0)
  <2> DEFINE plain == s.plain \/ ~exact
             t == [s EXCEPT !.state = "AwaitingProof", !.proof = s.copy, !.dispatch = exact,
                            !.plain = @ \/ ~exact]
             u == [s EXCEPT !.state = "AwaitingProof", !.proof = s.copy, !.dispatch = exact,
                            !.plain = plain]
             r == [Keep(t) EXCEPT !.sent = {<<s.copy, 0>>}]
  <2>1. Transmit(s, ch) = r
    BY <1>3 DEF Transmit
  <2>2. plain \in BOOLEAN
    BY <1>0
  <2>3. t = u
    BY <1>0 DEF Session
  <2>4. /\ r.session = t /\ r.reports = {} /\ r.panic = FALSE /\ r.sent = {<<s.copy, 0>>}
        /\ IsResult(r)
    <3> HIDE DEF t
    <3> QED
      BY DEF Keep, Result, IsResult
  <2> HIDE DEF t, plain, r
  <2>5. /\ u \in Session /\ Same(s, u) /\ u.state = "AwaitingProof" /\ u.transfer = s.transfer
        /\ u.link = "active" /\ u.proof = s.copy
    BY <1>0, <2>2 DEF Session, DeliveryState, Same
  <2> HIDE DEF u
  <2>6. Ordered(u)
    BY <1>0, <2>5, SameHolds
  <2>7. Size[s.copy] = 0
    <3>1. Size[s.copy] \in Nat
      BY <1>0, Constants
    <3> QED
      BY <1>3, <3>1
  <2>8. SessionOK(u)
    BY <1>0, <2>5, <2>6, <2>7 DEF SessionOK, Same, Sound
  <2>9. Proven(u)
    BY <2>5 DEF Proven, Same, Sound
  <2>10. Sound(u)
    BY <2>5, <2>8, <2>9 DEF Sound
  <2>11. <<s.copy, 0>> \in Parts
    BY <1>0, <2>7, SegmentTypes, PartIntro
  <2>12. Sends(s, r)
    BY <1>0, <2>3, <2>4, <2>5, <2>10, <2>11 DEF Sends, Same
  <2> QED
    BY <1>0, <2>1, <2>3, <2>4, <2>5, <2>12 DEF Live, Same
<1> QED
  BY <1>1, <1>2, <1>3

LEMMA SendIdentifiedSends ==
    ASSUME NEW s, Sound(s), s.state = "Identifying", s.link = "active", NEW ch,
           exact \in BOOLEAN
    PROVE  Sends(s, SendIdentified(s, ch)) /\ Live(SendIdentified(s, ch))
<1>1. CASE s.reusable \/ s.identified
  BY <1>1, TransmitSends DEF SendIdentified
<1>2. CASE ~(s.reusable \/ s.identified) /\ ch = "fault"
  <2>1. SendIdentified(s, ch) = Keep(Failing(s))
    BY <1>2 DEF SendIdentified
  <2>2. /\ Sound(Failing(s)) /\ Same(s, Failing(s)) /\ Failing(s).state = "Failed"
        /\ Failing(s).link = "active" /\ Failing(s).image
    BY FailingSound DEF Same, Sound, SessionOK
  <2> QED
    BY <2>1, <2>2, KeepLive
<1>3. CASE ~(s.reusable \/ s.identified) /\ ch # "fault" /\ exact
  <2>1. SendIdentified(s, ch) = Keep(Identifies(s))
    BY <1>3 DEF SendIdentified
  <2>2. /\ Sound(Identifies(s)) /\ Same(s, Identifies(s)) /\ Identifies(s).state = "Identifying"
        /\ Identifies(s).link = "active" /\ Identifies(s).image
    BY StagedSound DEF Same, Sound, SessionOK
  <2> QED
    BY <2>1, <2>2, KeepLive
<1>4. CASE ~(s.reusable \/ s.identified) /\ ch # "fault" /\ ~exact
  <2>1. SendIdentified(s, ch) = Transmit(Identifies(s), ch)
    BY <1>4 DEF SendIdentified
  <2>2. Sends(Identifies(s), Transmit(Identifies(s), ch)) /\ Live(Transmit(Identifies(s), ch))
    BY StagedSound, TransmitSends
  <2> QED
    BY <2>1, <2>2, StagedSound, SameChain
<1> QED
  BY <1>1, <1>2, <1>3, <1>4

LEMMA SendSegmentGood ==
    ASSUME NEW s, Sound(s), s.state = "Transferring", s.transfer > 0, NEW ch
    PROVE  Good(s, SendSegment(s, ch)) /\ Settleless(SendSegment(s, ch))
<1>0. s \in Session /\ s.copy \in Copies /\ s.image /\ s.transfer \in Nat /\ s.link # "closed"
  BY SoundTypes, SessionTypes DEF Sound, SessionOK
<1>1. CASE ch \in {"timeout", "fault"}
  BY <1>1, FailAllGood DEF SendSegment, Settleless
<1>2. CASE ch \notin {"timeout", "fault"}
  <2> DEFINE t == SendsPlain(s)
             r == [Keep(t) EXCEPT !.sent = {<<s.copy, s.transfer>>}]
  <2>1. SendSegment(s, ch) = r
    BY <1>2 DEF SendSegment
  <2>2. /\ r.session = t /\ r.reports = {} /\ r.panic = FALSE
        /\ r.sent = {<<s.copy, s.transfer>>} /\ IsResult(r)
    <3> HIDE DEF t
    <3> QED
      BY DEF Keep, Result, IsResult
  <2>9. Sound(t) /\ Same(s, t) /\ t.state = s.state /\ t.link = s.link
    BY StagedSound
  <2> HIDE DEF r, t
  <2>3. <<s.copy, s.transfer>> \in Parts
    <3>1. Size[s.copy] \in Nat /\ s.transfer <= Size[s.copy]
      BY <1>0, Constants DEF Sound, Proven
    <3>2. s.transfer \in Segments(s.copy)
      BY <1>0, <3>1, SegmentTypes
    <3> QED
      BY <1>0, <3>2, PartIntro
  <2>4. Sends(s, r)
    BY <1>0, <2>2, <2>3, <2>9 DEF Sends, Same
  <2>5. Settleless(r)
    BY <1>0, <2>2, <2>9 DEF Settleless, Same
  <2> QED
    BY <2>1, <2>4, <2>5, SendsGood
<1> QED
  BY <1>1, <1>2

LEMMA NextOrIdleFollows ==
    ASSUME NEW s, Sound(s), s.reusable
    PROVE  Follows(s, NextOrIdle(s))
BY NextOrIdleSound DEF Follows

LEMMA FinishFollows ==
    ASSUME NEW s, Sound(s), s.reusable, NEW staged
    PROVE  Follows(s, Finish(s, staged))
<1>1. CASE staged /\ ~s.identified
  <2>1. Finish(s, staged) = NextOrIdle(Identifies(s))
    BY <1>1 DEF Finish
  <2>2. Sound(Identifies(s)) /\ Same(s, Identifies(s)) /\ Identifies(s).link = s.link
    BY StagedSound
  <2>3. Identifies(s).reusable
    BY <2>2 DEF Same
  <2>4. Follows(Identifies(s), NextOrIdle(Identifies(s)))
    BY <2>2, <2>3, NextOrIdleFollows
  <2> DEFINE t == Identifies(s)
             u == NextOrIdle(t)
  <2> HIDE DEF t, u
  <2>5. \A c \in Copies : (Holds(t, c) <=> Holds(s, c)) /\ (Queued(t, c) <=> Queued(s, c))
    BY <2>2, SameHolds DEF t
  <2>6. u.copy \in Copies /\ t.copy = s.copy /\ t.dest = s.dest /\ t.reusable = s.reusable
    BY <2>2, <2>4, SoundTypes DEF Follows, Same, t, u
  <2>7. Follows(s, u)
    BY <2>2, <2>4, <2>5, <2>6 DEF Follows, Carries, t, u
  <2> QED
    BY <2>1, <2>7 DEF t, u
<1>2. CASE ~(staged /\ ~s.identified)
  BY <1>2, NextOrIdleFollows DEF Finish
<1> QED
  BY <1>1, <1>2

LEMMA StateStepGood ==
    ASSUME NEW s, Sound(s), NEW ch, exact \in BOOLEAN
    PROVE  Good(s, StateStep(s, ch)) /\ Settleless(StateStep(s, ch))
<1>0. s \in Session /\ s.transfer \in Nat /\ SessionOK(s)
  BY SoundTypes, SessionTypes DEF Sound
<1>1. CASE s.state = "Identifying" /\ s.link = "active"
  <2>1. StateStep(s, ch) = SendIdentified(s, ch)
    BY <1>1 DEF StateStep
  <2>2. Sends(s, SendIdentified(s, ch)) /\ Live(SendIdentified(s, ch))
    BY <1>1, SendIdentifiedSends
  <2> QED
    BY <2>1, <2>2, SendsGood DEF Live, Settleless
<1>2. CASE s.state = "Transferring" /\ s.transfer > 0
  <2>1. StateStep(s, ch) = SendSegment(s, ch)
    BY <1>2 DEF StateStep
  <2> QED
    BY <1>2, <2>1, SendSegmentGood
<1>3. CASE s.state = "Complete"
  <2>1. StateStep(s, ch) = SettleAs(s, "complete", Finish(s, ch # "fault"))
    BY <1>3 DEF StateStep
  <2>2. s.image /\ Proved(s.copy)
    BY <1>0, <1>3 DEF SessionOK, Sound, Proven
  <2>3. s.reusable => Follows(s, Finish(s, ch # "fault"))
    BY FinishFollows
  <2> QED
    BY <2>1, <2>2, <2>3, SettleAsGood
<1>4. CASE s.state = "Rejected"
  <2>1. StateStep(s, ch) = SettleAs(s, "rejected", NextOrIdle(s))
    BY <1>4 DEF StateStep
  <2>2. s.image
    BY <1>0, <1>4 DEF SessionOK
  <2>3. s.reusable => Follows(s, NextOrIdle(s))
    BY NextOrIdleFollows
  <2> QED
    BY <2>1, <2>2, <2>3, SettleAsGood
<1>5. CASE s.state = "Failed"
  <2>1. StateStep(s, ch) = FailAll(s)
    BY <1>5 DEF StateStep
  <2> QED
    BY <2>1, FailAllGood DEF Settleless
<1>6. CASE /\ ~(s.state = "Identifying" /\ s.link = "active")
           /\ ~(s.state = "Transferring" /\ s.transfer > 0)
           /\ s.state \notin {"Complete", "Rejected", "Failed"}
  <2>1. StateStep(s, ch) = Keep(s)
    BY <1>6 DEF StateStep
  <2>2. Sends(s, Keep(s))
    BY KeepSends DEF Same
  <2>3. Keep(s).session = s
    BY KeepFields, Zenon
  <2>4. Settleless(Keep(s))
    BY <1>0, <1>6, <2>3 DEF Settleless, SessionOK
  <2> QED
    BY <2>1, <2>2, <2>4, SendsGood
<1> QED
  BY <1>1, <1>2, <1>3, <1>4, <1>5, <1>6

(* The result of the Link's own tick, which ends the session or leaves the  *)
(* copies where they are.                                                   *)
LEMMA EndedGood ==
    ASSUME NEW s, NEW r, Good(s, r), r.session # None, NEW more,
           \A c \in Copies : Holds(r.session, c) <=> <<c, "failed">> \in more,
           \A c \in Copies, kind \in {"complete", "rejected"} : <<c, kind>> \notin more,
           NEW e, IsResult(e), e.session = None, e.reports = r.reports \cup more, e.sent = r.sent
    PROVE  Good(s, e)
<1>1. \A c \in Copies : Reported(e, c) <=> Reported(r, c) \/ Left(r, c)
  BY DEF Reported, Left, Kinds
<1> QED
  BY <1>1 DEF Good, Left

LEMMA StagedGood ==
    ASSUME NEW s, NEW r, Good(s, r), NEW t, Sound(t), Same(r.session, t), r.session # None,
           NEW e, IsResult(e), e.session = t, e.reports = r.reports, e.sent = r.sent
    PROVE  Good(s, e)
<1> DEFINE u == r.session
<1>1. Sound(u) /\ Carries(s, u)
  BY DEF Good
<1>2. \A c \in Copies : (Holds(t, c) <=> Holds(u, c)) /\ (Queued(t, c) <=> Queued(u, c))
  BY SameHolds
<1>3. t # None /\ t.copy \in Copies /\ t.copy = u.copy /\ t.dest = u.dest /\ t.reusable = u.reusable
  BY SoundTypes DEF Same
<1>4. Carries(s, t)
  BY <1>1, <1>2, <1>3 DEF Carries
<1>5. \A c \in Copies : (Reported(e, c) <=> Reported(r, c)) /\ (Left(e, c) <=> Left(r, c))
  BY <1>2, <1>3 DEF Reported, Left
<1>6. \A p \in r.sent : p[1] \in Copies
  BY PartElim DEF Good
<1> QED
  BY <1>2, <1>3, <1>4, <1>5, <1>6 DEF Good

LEMMA QueueFailedMeans ==
    ASSUME NEW s, Sound(s), NEW c \in Copies
    PROVE  /\ \A kind \in {"complete", "rejected"} :
                 <<c, kind>> \notin QueueFailed(s) \cup {<<s.copy, "failed">>}
           /\ <<c, "failed">> \in QueueFailed(s) <=> Queued(s, c)
           /\ <<c, "failed">> \in {<<s.copy, "failed">>} \cup QueueFailed(s)
                <=> c = s.copy \/ Queued(s, c)
BY SoundTypes, FailedQueue

LEMMA LinkStepGood ==
    ASSUME NEW s, NEW r, Good(s, r), Settleless(r), r.session # None, ~r.panic, NEW ch
    PROVE  Good(s, LinkStep(r, ch)) /\ LinkStep(r, ch).panic = r.panic
<1> DEFINE u == r.session
           Ended(reports) == [r EXCEPT !.session = None, !.reports = r.reports \cup reports]
           Staged(t) == [r EXCEPT !.session = t]
<1>0. /\ Sound(u) /\ SessionOK(u) /\ u.state # "Complete" /\ u \in Session
      /\ (u.link = "closed" => u.state = "Idle") /\ (u.image <=> u.state # "Idle")
  BY DEF Good, Settleless, Sound, SessionOK
<1>1. ASSUME NEW more
      PROVE  /\ Ended(more).session = None /\ Ended(more).reports = r.reports \cup more
             /\ Ended(more).sent = r.sent /\ Ended(more).panic = r.panic /\ IsResult(Ended(more))
  BY DEF Good, IsResult
<1>2. ASSUME NEW t
      PROVE  /\ Staged(t).session = t /\ Staged(t).reports = r.reports
             /\ Staged(t).sent = r.sent /\ Staged(t).panic = r.panic /\ IsResult(Staged(t))
  BY DEF Good, IsResult
<1> HIDE DEF Ended, Staged
<1>3. ASSUME ~u.image
      PROVE  Good(s, Ended(QueueFailed(u)))
  <2>1. \A c \in Copies : Holds(u, c) <=> <<c, "failed">> \in QueueFailed(u)
    BY <1>0, <1>3, QueueFailedMeans DEF Holds
  <2>2. \A c \in Copies, kind \in {"complete", "rejected"} : <<c, kind>> \notin QueueFailed(u)
    BY <1>0, QueueFailedMeans
  <2> QED
    BY <1>1, <2>1, <2>2, EndedGood
<1>4. CASE u.link = "closed"
  <2>1. LinkStep(r, ch) = Ended(QueueFailed(u))
    BY <1>4 DEF LinkStep, Ended, Expired, Closes
  <2> QED
    BY <1>0, <1>1, <1>3, <1>4, <2>1
<1>5. CASE u.link # "closed" /\ Expired(u, ch)
  <2>1. LinkStep(r, ch) = Ended({})
    BY <1>5 DEF LinkStep, Ended, Expired, Closes
  <2>2. QueueFailed(u) = {}
    BY <1>5 DEF QueueFailed, Expired
  <2> QED
    BY <1>0, <1>1, <1>3, <1>5, <2>1, <2>2 DEF Expired
<1>6. CASE Closes(u, ch) /\ u.state = "Idle"
  <2>1. LinkStep(r, ch) = Ended(QueueFailed(u))
    BY <1>6 DEF LinkStep, Ended, Expired, Closes
  <2> QED
    BY <1>0, <1>1, <1>3, <1>6, <2>1
<1>7. CASE Closes(u, ch) /\ u.state # "Idle"
  <2> DEFINE more == {<<u.copy, "failed">>} \cup QueueFailed(u)
  <2>1. LinkStep(r, ch) = Ended(more)
    BY <1>0, <1>7 DEF LinkStep, Ended, Expired, Closes
  <2>2. \A c \in Copies : Holds(u, c) <=> <<c, "failed">> \in more
    BY <1>0, <1>7, QueueFailedMeans DEF Holds
  <2>3. \A c \in Copies, kind \in {"complete", "rejected"} : <<c, kind>> \notin more
    BY <1>0, QueueFailedMeans
  <2> HIDE DEF more
  <2>4. Good(s, Ended(more))
    BY <1>1, <2>2, <2>3, EndedGood
  <2>5. Ended(more).panic = r.panic
    BY <1>1
  <2> QED
    BY <2>1, <2>4, <2>5, Zenon
<1>8. CASE ch = "stale" /\ u.link = "active"
  <2> DEFINE t == [SendsPlain(u) EXCEPT !.link = "stale"]
  <2>1. LinkStep(r, ch) = Staged(t)
    BY <1>8 DEF LinkStep, Staged, Expired, Closes
  <2>2. Sound(SendsPlain(u)) /\ Same(u, SendsPlain(u))
    BY <1>0, StagedSound
  <2>3. /\ t \in Session /\ Same(u, t) /\ t.transfer = u.transfer /\ t.state = u.state
        /\ t.proof = u.proof /\ t.link = "stale"
    BY <1>0 DEF Session, SendsPlain, Same
  <2> HIDE DEF t
  <2>4. Sound(t)
    BY <1>0, <1>8, <2>3, SoundChange
  <2> QED
    BY <1>2, <2>1, <2>3, <2>4, StagedGood
<1>9. CASE ch = "keepalive" /\ u.link \in {"active", "stale"}
  <2> DEFINE t == SendsPlain(u)
  <2>1. LinkStep(r, ch) = Staged(t)
    BY <1>9 DEF LinkStep, Staged, Expired, Closes
  <2>2. Sound(t) /\ Same(u, t)
    BY <1>0, StagedSound
  <2> HIDE DEF t
  <2> QED
    BY <1>2, <2>1, <2>2, StagedGood
<1>10. CASE /\ u.link # "closed" /\ ~Expired(u, ch) /\ ~Closes(u, ch)
            /\ ~(ch = "stale" /\ u.link = "active")
            /\ ~(ch = "keepalive" /\ u.link \in {"active", "stale"})
  <2>1. LinkStep(r, ch) = r
    BY <1>10 DEF LinkStep
  <2> QED
    BY <2>1
<1> QED
  BY <1>4, <1>5, <1>6, <1>7, <1>8, <1>9, <1>10

LEMMA GoodFrom ==
    ASSUME NEW s, NEW t, Carries(s, t), \A c \in Copies : Holds(t, c) <=> Holds(s, c),
           NEW r, Good(t, r), s.copy \in Copies
    PROVE  Good(s, r)
<1>1. r.session # None => Carries(s, r.session)
  <2>1. SUFFICES ASSUME r.session # None PROVE Carries(s, r.session)
    OBVIOUS
  <2>2. Carries(t, r.session) /\ r.session.copy \in Copies
    BY <2>1, SoundTypes DEF Good
  <2> QED
    BY <2>2 DEF Carries
<1>2. \A p \in r.sent : p[1] \in Copies
  BY PartElim DEF Good
<1> QED
  BY <1>1, <1>2 DEF Good

LEMMA TickSessionGood ==
    ASSUME NEW idle, Sound(idle), NEW ch, exact \in BOOLEAN
    PROVE  Good(idle, TickSession(idle, ch))
<1> DEFINE starts == idle.state = "Idle" /\ idle.queued # <<>> /\ idle.link = "active"
           s == IF starts THEN StartQueued(idle) ELSE idle
           r == IF Gated(s) THEN Keep(s) ELSE StateStep(s, ch)
<1>0. idle \in Session /\ idle.copy \in Copies /\ Ordered(idle) /\ SessionOK(idle)
  BY SoundTypes DEF Sound
<1>1. /\ Sound(s) /\ Carries(idle, s) /\ \A c \in Copies : Holds(s, c) <=> Holds(idle, c)
  <2>1. CASE starts
    <3>1. ~idle.image /\ idle.reusable
      BY <1>0, <2>1 DEF SessionOK
    <3>2. /\ Sound(StartQueued(idle)) /\ Carries(idle, StartQueued(idle))
          /\ \A c \in Copies : Holds(StartQueued(idle), c) <=> Queued(idle, c)
      BY <1>0, <2>1, <3>1, StartQueuedSound
    <3>3. \A c \in Copies : Holds(idle, c) <=> Queued(idle, c)
      BY <3>1 DEF Holds
    <3> QED
      BY <2>1, <3>2, <3>3
  <2>2. CASE ~starts
    BY <2>2 DEF Carries
  <2> QED
    BY <2>1, <2>2
<1>3. TickSession(idle, ch) =
          IF ch = "timeout" /\ Waiting(idle) THEN FailAll(s)
          ELSE IF s.reusable /\ ~Gated(s) /\ r.session # None /\ ~r.panic THEN LinkStep(r, ch) ELSE r
  BY DEF TickSession
<1> HIDE DEF s
<1>4. Good(s, r) /\ (~Gated(s) => Settleless(r))
  <2>1. CASE Gated(s)
    BY <1>1, <2>1, KeepSends, SendsGood DEF Same
  <2>2. CASE ~Gated(s)
    BY <1>1, <2>2, StateStepGood
  <2> QED
    BY <2>1, <2>2
<1> HIDE DEF r
<1>5. Good(s, TickSession(idle, ch))
  <2>1. CASE ch = "timeout" /\ Waiting(idle)
    BY <1>1, <1>3, <2>1, FailAllGood
  <2>2. CASE ~(ch = "timeout" /\ Waiting(idle))
    BY <1>3, <1>4, <2>2, LinkStepGood
  <2> QED
    BY <2>1, <2>2
<1> QED
  BY <1>0, <1>1, <1>5, GoodFrom

-----------------------------------------------------------------------------
(* A step on the sessions that are there.                                   *)

Outcomes == {"new", "open", "complete", "rejected", "failed", "cancelled", "discarded"}
Endings == Outcomes \ {"new", "open"}

Gone == {l \in Links : Open(l) /\ pending'[l] = None}
Stays(l, c) == pending'[l] # None /\ Holds(pending'[l], c)

(* Sessions go on or end, and a copy is settled when its session lets go of *)
(* it, never otherwise.                                                     *)
SessionsStep ==
    /\ pending' \in [Links -> Session \cup {None}]
    /\ \A l \in Links : pending'[l] # None =>
          Open(l) /\ Sound(pending'[l]) /\ Carries(pending[l], pending'[l])
    /\ directLinks' = Forget(Gone)
    /\ got' = got

OutcomesStep ==
    /\ outcome' \in [Copies -> Outcomes]
    /\ \A l \in Links, c \in Copies : Open(l) /\ Holds(pending[l], c) =>
          IF Stays(l, c) THEN outcome'[c] = outcome[c] ELSE outcome'[c] \in Endings
    /\ \A c \in Copies :
          (\A l \in Links : Open(l) => ~Holds(pending[l], c)) => outcome'[c] = outcome[c]
    /\ \A c \in Copies : outcome'[c] = "complete" => outcome[c] = "complete" \/ Proved(c)

SendingStep ==
    /\ sent \subseteq sent'
    /\ \A p \in sent' : p \in sent \/
          /\ p \in Parts
          /\ \E l \in Links : Open(l) /\ Holds(pending[l], p[1]) /\
                              (pending'[l] # None => ~Queued(pending'[l], p[1]))

ManagerStep ==
    /\ SessionsStep /\ OutcomesStep /\ SendingStep
    /\ exact' = exact /\ panicked' \in BOOLEAN /\ refused' = refused

LEMMA StepOutcomes ==
    ASSUME HeldOpen, OutcomesStep
    PROVE  \A c \in Copies :
              /\ outcome[c] = "new" <=> outcome'[c] = "new"
              /\ outcome'[c] = "open" => outcome[c] = "open"
              /\ outcome'[c] # outcome[c] => outcome[c] = "open" /\ outcome'[c] \in Endings
<1> SUFFICES ASSUME NEW c \in Copies
             PROVE  outcome'[c] = outcome[c] \/ (outcome[c] = "open" /\ outcome'[c] \in Endings)
  BY DEF Endings
<1>1. CASE \E l \in Links : Open(l) /\ Holds(pending[l], c)
  BY <1>1 DEF HeldOpen, OutcomesStep
<1>2. CASE \A l \in Links : Open(l) => ~Holds(pending[l], c)
  BY <1>2 DEF OutcomesStep
<1> QED
  BY <1>1, <1>2

LEMMA StepDirect ==
    ASSUME TypeOK, DirectLinksOwned, SessionsStep
    PROVE  DirectLinksOwned' /\ directLinks' \in [Dests -> Links \cup {None}]
<1>1. directLinks' = [d \in Dests |->
         IF \E l \in Gone : pending[l].reusable /\ pending[l].dest = d THEN None ELSE directLinks[d]]
  BY DEF SessionsStep, Forget
<1>2. directLinks' \in [Dests -> Links \cup {None}]
  BY <1>1 DEF TypeOK
<1>3. ASSUME NEW d \in Dests, NEW l \in Links
      PROVE  directLinks'[d] = l <=>
                 pending'[l] # None /\ pending'[l].reusable /\ pending'[l].dest = d
  <2>1. directLinks[d] = l <=> Open(l) /\ pending[l].reusable /\ pending[l].dest = d
    BY DEF DirectLinksOwned
  <2>2. None \notin Links
    BY Constants
  <2>3. pending'[l] # None => /\ Open(l) /\ pending'[l].reusable = pending[l].reusable
                              /\ pending'[l].dest = pending[l].dest
    BY DEF SessionsStep, Carries
  <2>4. ASSUME NEW k \in Gone, pending[k].reusable, pending[k].dest = d
        PROVE  directLinks[d] = k
    BY <2>4 DEF DirectLinksOwned, Gone
  <2> QED
    BY <1>1, <2>1, <2>2, <2>3, <2>4 DEF Gone, Open
<1> QED
  BY <1>2, <1>3 DEF DirectLinksOwned, Open

LEMMA StepHolds ==
    ASSUME IInv, SessionsStep, OutcomesStep
    PROVE  HeldOpen' /\ OpenHeld' /\ HeldOnce'
<1>1. \A l \in Links, c \in Copies : Stays(l, c) => Open(l) /\ Holds(pending[l], c)
  BY DEF Stays, SessionsStep, Carries
<1>2. \A l \in Links, c \in Copies : Stays(l, c) => outcome'[c] = "open"
  BY <1>1 DEF IInv, HeldOpen, OutcomesStep
<1>3. ASSUME NEW c \in Copies, outcome'[c] = "open"
      PROVE  \E l \in Links : Stays(l, c)
  <2>1. outcome[c] = "open"
    BY <1>3, StepOutcomes DEF IInv
  <2>2. PICK l \in Links : Open(l) /\ Holds(pending[l], c)
    BY <2>1 DEF IInv, OpenHeld
  <2> QED
    BY <1>3, <2>2 DEF OutcomesStep, Endings
<1>4. \A k \in Links, l \in Links, c \in Copies : Stays(k, c) /\ Stays(l, c) => k = l
  BY <1>1 DEF IInv, HeldOnce
<1> QED
  BY <1>2, <1>3, <1>4 DEF HeldOpen, OpenHeld, HeldOnce, Stays, Open, Holds, Queued

LEMMA StepSent ==
    ASSUME IInv, SessionsStep, OutcomesStep, SendingStep
    PROVE  /\ sent' \subseteq Parts /\ StartedInOrder' /\ CurrentStarted' /\ SentStarted'
           /\ QueuedUnsent'
<1>1. \A c \in Copies : outcome[c] = "new" <=> outcome'[c] = "new"
  BY StepOutcomes DEF IInv
<1>2. sent' \subseteq Parts
  BY DEF IInv, TypeOK, SendingStep
<1>3. StartedInOrder'
  BY <1>1 DEF IInv, StartedInOrder
<1>4. CurrentStarted'
  <2> SUFFICES ASSUME NEW l \in Links, pending'[l] # None
               PROVE  outcome'[pending'[l].copy] # "new"
    BY DEF CurrentStarted, Open
  <2>1. Open(l) /\ Sound(pending'[l]) /\ Carries(pending[l], pending'[l])
    BY DEF SessionsStep
  <2>2. pending'[l].copy \in Copies
    BY <2>1, SoundTypes
  <2>3. CASE pending'[l].copy = pending[l].copy
    BY <1>1, <2>1, <2>2, <2>3 DEF IInv, CurrentStarted
  <2>4. CASE Queued(pending[l], pending'[l].copy)
    BY <1>1, <2>1, <2>2, <2>4 DEF IInv, HeldOpen, Holds
  <2> QED
    BY <2>1, <2>3, <2>4 DEF Carries
<1>5. SentStarted'
  <2> SUFFICES ASSUME NEW p \in sent' PROVE outcome'[p[1]] # "new"
    BY DEF SentStarted
  <2>1. p[1] \in Copies
    BY <1>2, PartElim
  <2> QED
    BY <1>1, <2>1 DEF IInv, SentStarted, SendingStep, HeldOpen
<1>6. QueuedUnsent'
  <2> SUFFICES ASSUME NEW l \in Links, NEW p \in sent', pending'[l] # None,
                      Queued(pending'[l], p[1])
               PROVE  FALSE
    BY DEF QueuedUnsent, Open, Queued
  <2>1. p[1] \in Copies
    BY <1>2, PartElim
  <2>2. Open(l) /\ Queued(pending[l], p[1])
    BY <2>1 DEF SessionsStep, Carries
  <2>3. p \notin sent
    BY <2>2 DEF IInv, QueuedUnsent
  <2>4. PICK k \in Links : /\ Open(k) /\ Holds(pending[k], p[1])
                           /\ (pending'[k] # None => ~Queued(pending'[k], p[1]))
    BY <2>3 DEF SendingStep
  <2>5. k = l
    BY <2>1, <2>2, <2>4 DEF IInv, HeldOnce, Holds
  <2> QED
    BY <2>4, <2>5
<1> QED
  BY <1>2, <1>3, <1>4, <1>5, <1>6

LEMMA ManagerKeeps ==
    ASSUME IInv, ManagerStep
    PROVE  IInv'
<1>1. SessionsSound'
  <2> SUFFICES ASSUME NEW l \in Links, pending'[l] # None PROVE Sound(pending[l])'
    BY DEF SessionsSound, Open
  <2>1. Sound(pending'[l]) /\ got' = got
    BY DEF ManagerStep, SessionsStep
  <2> QED
    BY <2>1 DEF Sound, SessionOK, Ordered, Proven, Proved
<1>2. DirectLinksOwned' /\ directLinks' \in [Dests -> Links \cup {None}]
  BY StepDirect DEF IInv, ManagerStep
<1>3. HeldOpen' /\ OpenHeld' /\ HeldOnce'
  BY StepHolds DEF ManagerStep
<1>4. /\ sent' \subseteq Parts /\ StartedInOrder' /\ CurrentStarted' /\ SentStarted'
      /\ QueuedUnsent'
  BY StepSent DEF ManagerStep
<1>5. TypeOK'
  BY <1>2, <1>4 DEF IInv, TypeOK, ManagerStep, SessionsStep, OutcomesStep, SendingStep, Outcomes
<1>6. CompleteProved'
  BY DEF IInv, CompleteProved, ManagerStep, SessionsStep, OutcomesStep, Proved
<1> QED
  BY <1>1, <1>2, <1>3, <1>4, <1>5, <1>6 DEF IInv

LEMMA ReportMeans ==
    ASSUME NEW reports, Report(reports), TypeOK
    PROVE  /\ outcome' \in [Copies -> Outcomes]
           /\ \A c \in Copies :
                IF \E kind \in Kinds : <<c, kind>> \in reports
                THEN outcome'[c] \in Kinds \cap Endings /\ <<c, outcome'[c]>> \in reports
                ELSE outcome'[c] = outcome[c]
<1> DEFINE told(c) == \E kind \in Kinds : <<c, kind>> \in reports
           kindOf(c) == CHOOSE kind \in Kinds : <<c, kind>> \in reports
<1>1. outcome' = [c \in Copies |-> IF told(c) THEN kindOf(c) ELSE outcome[c]]
  BY DEF Report, Kinds
<1>2. ASSUME NEW c \in Copies, told(c) PROVE kindOf(c) \in Kinds /\ <<c, kindOf(c)>> \in reports
  BY <1>2
<1> HIDE DEF kindOf, told
<1>3. ASSUME NEW c \in Copies
      PROVE  IF told(c) THEN outcome'[c] \in Kinds \cap Endings /\ <<c, outcome'[c]>> \in reports
             ELSE outcome'[c] = outcome[c]
  BY <1>1, <1>2 DEF Kinds, Endings, Outcomes
<1>4. outcome' \in [Copies -> Outcomes]
  BY <1>1, <1>2 DEF Kinds, Outcomes, TypeOK
<1> QED
  BY <1>3, <1>4 DEF told

LEMMA TickEachSteps ==
    ASSUME IInv, NEW r,
           \A l \in Links : Open(l) => Good(pending[l], r[l]),
           \A l \in Links : ~Open(l) => r[l] = Keep(None),
           TickEach(r)
    PROVE  ManagerStep
<1>1. \A l \in Links : pending'[l] = r[l].session
  BY DEF TickEach
<1>2. \A l \in Links : ~Open(l) => /\ r[l].session = None /\ r[l].reports = {} /\ r[l].sent = {}
  BY KeepFields
<1>3. SessionsStep
  <2>1. pending' \in [Links -> Session \cup {None}]
    BY <1>1, <1>2, SoundTypes DEF TickEach, Good
  <2>2. Gone = {l \in Links : Open(l) /\ r[l].session = None}
    BY <1>1 DEF Gone
  <2> QED
    BY <1>1, <1>2, <2>1, <2>2 DEF SessionsStep, TickEach, Good, peer
<1>4. OutcomesStep
  <2> DEFINE reports == UNION {r[l].reports : l \in Links}
  <2>1. Report(reports)
    BY DEF TickEach
  <2>2. \A x : x \in reports <=> \E l \in Links : x \in r[l].reports
    OBVIOUS
  <2> HIDE DEF reports
  <2>3. /\ outcome' \in [Copies -> Outcomes]
        /\ \A c \in Copies :
             IF \E kind \in Kinds : <<c, kind>> \in reports
             THEN outcome'[c] \in Endings /\ <<c, outcome'[c]>> \in reports
             ELSE outcome'[c] = outcome[c]
    BY <2>1, ReportMeans DEF IInv
  <2>4. ASSUME NEW c \in Copies
        PROVE  (\E kind \in Kinds : <<c, kind>> \in reports)
                   <=> \E l \in Links : Open(l) /\ Reported(r[l], c)
    BY <1>2, <2>2 DEF Reported
  <2>5. \A l \in Links, c \in Copies : Open(l) => (Stays(l, c) <=> Left(r[l], c))
    BY <1>1 DEF Stays, Left
  <2>6. \A l \in Links, c \in Copies : Open(l) =>
            /\ Holds(pending[l], c) <=> Reported(r[l], c) \/ Left(r[l], c)
            /\ ~(Reported(r[l], c) /\ Left(r[l], c))
            /\ <<c, "complete">> \in r[l].reports => Proved(c)
    BY DEF Good
  <2>7. ASSUME NEW l \in Links, NEW c \in Copies, Open(l), Holds(pending[l], c)
        PROVE  IF Stays(l, c) THEN outcome'[c] = outcome[c] ELSE outcome'[c] \in Endings
    <3>1. \A k \in Links : Open(k) /\ Reported(r[k], c) => k = l
      BY <2>6, <2>7 DEF IInv, HeldOnce
    <3> QED
      BY <2>3, <2>4, <2>5, <2>6, <2>7, <3>1
  <2>8. ASSUME NEW c \in Copies, \A l \in Links : Open(l) => ~Holds(pending[l], c)
        PROVE  outcome'[c] = outcome[c]
    BY <2>3, <2>4, <2>6, <2>8
  <2>9. ASSUME NEW c \in Copies, outcome'[c] = "complete"
        PROVE  outcome[c] = "complete" \/ Proved(c)
    BY <1>2, <2>2, <2>3, <2>6, <2>9
  <2> QED
    BY <2>3, <2>7, <2>8, <2>9 DEF OutcomesStep
<1>5. SendingStep
  <2>1. \A x : x \in sent' <=> x \in sent \/ \E l \in Links : x \in r[l].sent
    BY DEF TickEach
  <2>2. \A l \in Links : \A p \in r[l].sent : Open(l) => /\ p \in Parts /\ Holds(pending[l], p[1])
                               /\ (r[l].session # None => ~Queued(r[l].session, p[1]))
    BY DEF Good
  <2> QED
    BY <1>1, <1>2, <2>1, <2>2 DEF SendingStep
<1>6. exact' = exact /\ panicked' \in BOOLEAN /\ refused' = refused
  BY DEF TickEach, peer
<1> QED
  BY <1>3, <1>4, <1>5, <1>6 DEF ManagerStep

LEMMA TickSteps ==
    ASSUME IInv, Tick \/ TransportClosed
    PROVE  ManagerStep
<1>0. exact \in BOOLEAN
  BY DEF IInv, TypeOK
<1>1. ASSUME NEW l \in Links, Open(l) PROVE Sound(pending[l])
  BY <1>1 DEF IInv, SessionsSound
<1>2. CASE Tick
  <2>1. PICK ch \in Choices : TickWith(ch)
    BY <1>2 DEF Tick
  <2> DEFINE r == [l \in Links |-> IF Open(l) THEN TickSession(pending[l], ch[l]) ELSE Keep(None)]
  <2>2. TickEach(r)
    BY <2>1 DEF TickWith
  <2>3. \A l \in Links : Open(l) => Good(pending[l], r[l])
    BY <1>0, <1>1, TickSessionGood
  <2>4. \A l \in Links : ~Open(l) => r[l] = Keep(None)
    OBVIOUS
  <2> HIDE DEF r
  <2> QED
    BY <2>2, <2>3, <2>4, TickEachSteps
<1>3. CASE TransportClosed
  <2> DEFINE r == [l \in Links |-> IF Open(l) THEN FailAll(pending[l]) ELSE Keep(None)]
  <2>2. TickEach(r)
    BY <1>3 DEF TransportClosed
  <2>3. \A l \in Links : Open(l) => Good(pending[l], r[l])
    BY <1>1, FailAllGood
  <2>4. \A l \in Links : ~Open(l) => r[l] = Keep(None)
    OBVIOUS
  <2> HIDE DEF r
  <2> QED
    BY <2>2, <2>3, <2>4, TickEachSteps
<1> QED
  BY <1>2, <1>3

-----------------------------------------------------------------------------
(* A step on one session: t is what becomes of it.                          *)

Kept(t, c) == t # None /\ Holds(t, c)

OneStep(l, t) ==
    /\ Open(l) /\ (t # None => Sound(t) /\ Carries(pending[l], t))
    /\ pending' = [pending EXCEPT ![l] = t]
    /\ directLinks' = IF t = None THEN Forget({l}) ELSE directLinks
    /\ got' = got

OneOutcome(l, t) ==
    /\ outcome' \in [Copies -> Outcomes]
    /\ \A c \in Copies :
          IF Holds(pending[l], c) /\ ~Kept(t, c)
          THEN outcome'[c] \in Endings \ {"complete"} ELSE outcome'[c] = outcome[c]

LEMMA OneSession ==
    ASSUME IInv, NEW l \in Links, NEW t, OneStep(l, t), OneOutcome(l, t),
           exact' = exact, panicked' \in BOOLEAN, sent' = sent, refused' = refused
    PROVE  ManagerStep
<1>1. pending \in [Links -> Session \cup {None}] /\ t \in Session \cup {None}
  BY SoundTypes DEF IInv, TypeOK, OneStep
<1>2. \A k \in Links : pending'[k] = IF k = l THEN t ELSE pending[k]
  BY <1>1 DEF OneStep
<1>3. \A k \in Links : Open(k) => Sound(pending[k]) /\ Carries(pending[k], pending[k])
  BY DEF IInv, SessionsSound, Carries
<1>4. SessionsStep
  <2>1. pending' \in [Links -> Session \cup {None}]
    BY <1>1 DEF OneStep
  <2>2. \A k \in Links : pending'[k] # None =>
            Open(k) /\ Sound(pending'[k]) /\ Carries(pending[k], pending'[k])
    BY <1>2, <1>3 DEF OneStep, Open
  <2>3. CASE t = None
    <3>1. Gone = {l}
      BY <1>2, <2>3 DEF Gone, OneStep, Open
    <3> QED
      BY <2>1, <2>2, <2>3, <3>1 DEF SessionsStep, OneStep
  <2>4. CASE t # None
    <3>1. Gone = {}
      BY <1>2, <2>4 DEF Gone, OneStep, Open
    <3>2. Forget({}) = directLinks
      BY DEF Forget, IInv, TypeOK
    <3> QED
      BY <2>1, <2>2, <2>4, <3>1, <3>2 DEF SessionsStep, OneStep
  <2> QED
    BY <2>3, <2>4
<1>5. OutcomesStep
  <2>1. \A k \in Links, c \in Copies : Open(k) =>
            (Stays(k, c) <=> IF k = l THEN Kept(t, c) ELSE Holds(pending[k], c))
    BY <1>2 DEF Stays, Kept, Open
  <2>2. ASSUME NEW k \in Links, NEW c \in Copies, Open(k), Holds(pending[k], c)
        PROVE  IF Stays(k, c) THEN outcome'[c] = outcome[c] ELSE outcome'[c] \in Endings
    <3>1. Holds(pending[l], c) => k = l
      BY <2>2 DEF IInv, HeldOnce, OneStep
    <3> QED
      BY <2>1, <2>2, <3>1 DEF OneOutcome
  <2> QED
    BY <2>2 DEF OutcomesStep, OneOutcome, OneStep
<1>6. SendingStep
  BY DEF SendingStep
<1> QED
  BY <1>4, <1>5, <1>6 DEF ManagerStep

LEMMA BecomesSteps ==
    ASSUME IInv, NEW l \in Links, Open(l), NEW t, Sound(t), Same(pending[l], t), Becomes(l, t)
    PROVE  ManagerStep
<1>1. /\ t # None /\ Carries(pending[l], t)
      /\ \A c \in Copies : Holds(t, c) <=> Holds(pending[l], c)
  BY SoundTypes, SameHolds
<1>2. OneStep(l, t)
  BY <1>1 DEF OneStep, Becomes, peer
<1>3. OneOutcome(l, t)
  BY <1>1 DEF OneOutcome, Kept, Becomes, IInv, TypeOK, Outcomes
<1> QED
  BY <1>2, <1>3, OneSession DEF Becomes, peer, IInv, TypeOK

LEMMA ReplaceSteps ==
    ASSUME IInv, NEW l \in Links, Open(l), NEW t, Sound(t), Carries(pending[l], t),
           NEW copies, NEW kind \in {"cancelled", "failed"},
           \A c \in Copies : c \in copies <=> Holds(pending[l], c) /\ ~Holds(t, c),
           Replace(l, t, copies, kind),
           exact' = exact, panicked' = panicked, sent' = sent, got' = got, refused' = refused
    PROVE  ManagerStep
<1>1. t # None
  BY SoundTypes
<1>2. OneStep(l, t)
  BY <1>1 DEF OneStep, Replace
<1>3. OneOutcome(l, t)
  BY <1>1 DEF OneOutcome, Kept, Replace, Mark, IInv, TypeOK, Outcomes, Endings
<1> QED
  BY <1>2, <1>3, OneSession DEF IInv, TypeOK

LEMMA RemoveSteps ==
    ASSUME IInv, NEW l \in Links, Open(l), Remove(l),
           exact' = exact, panicked' = panicked, sent' = sent, got' = got, refused' = refused
    PROVE  ManagerStep
<1>1. OneStep(l, None)
  BY DEF OneStep, Remove
<1>2. \A c \in Copies : Holds(pending[l], c) <=>
          c \in Current(pending[l]) \/ \E i \in DOMAIN pending[l].queued : pending[l].queued[i] = c
  BY DEF Holds, Queued, Current
<1>3. OneOutcome(l, None)
  BY <1>2 DEF OneOutcome, Kept, Remove, IInv, TypeOK, Outcomes, Endings
<1> QED
  BY <1>1, <1>3, OneSession DEF IInv, TypeOK

LEMMA FailCurrentSteps ==
    ASSUME IInv, NEW l \in Links, Open(l), NEW m, FailCurrent(l, m),
           exact' = exact, sent' = sent, got' = got, refused' = refused
    PROVE  ManagerStep
<1> DEFINE s == pending[l]
           r == FailAll(s)
<1>0. Sound(s)
  BY DEF IInv, SessionsSound
<1>1. CASE s.image
  <2>1. Good(s, r) /\ r.session = None
    BY <1>0, <1>1, FailAllGood
  <2>2. \A c \in Copies : <<c, "complete">> \notin r.reports
    BY <1>0, <1>1, QueueFailedMeans, FailedQueue, SoundTypes DEF FailAll, Result
  <2>3. OneStep(l, None)
    BY <1>1 DEF OneStep, FailCurrent
  <2>4. Report(r.reports)
    BY <1>1 DEF FailCurrent
  <2> HIDE DEF r
  <2>5. OneOutcome(l, None)
    BY <2>1, <2>2, <2>4, ReportMeans DEF OneOutcome, Kept, Good, Reported, Left, IInv
  <2> QED
    BY <1>1, <2>3, <2>5, OneSession DEF FailCurrent, IInv, TypeOK
<1>2. CASE ~s.image
  <2>1. pending' = pending /\ directLinks' = directLinks /\ outcome' = outcome /\ panicked' = TRUE
    BY <1>2 DEF FailCurrent
  <2>2. OneStep(l, s)
    BY <1>0, <2>1, SoundTypes DEF OneStep, Carries, IInv, TypeOK
  <2>3. OneOutcome(l, s)
    BY <1>0, <2>1, SoundTypes DEF OneOutcome, Kept, IInv, TypeOK, Outcomes
  <2> QED
    BY <2>1, <2>2, <2>3, OneSession
<1> QED
  BY <1>1, <1>2

-----------------------------------------------------------------------------
(* Cancelling and failing a message.                                        *)

LEMMA UnqueueSound ==
    ASSUME NEW s, Sound(s), NEW i \in DOMAIN s.queued
    PROVE  /\ Sound(Unqueue(s, i)) /\ Carries(s, Unqueue(s, i))
           /\ \A c \in Copies : c \in {s.queued[i]} <=> Holds(s, c) /\ ~Holds(Unqueue(s, i), c)
<1> DEFINE q == s.queued
           t == Unqueue(s, i)
           w == Without(q, i)
<1>0. /\ s \in Session /\ Ordered(s) /\ SessionOK(s) /\ Proven(s) /\ s.copy \in Nat
      /\ ~Queued(s, s.copy) /\ s.copy \in Copies
  BY SoundTypes, SessionTypes DEF Sound
<1>1. /\ q \in Seq(Copies) /\ Len(q) \in Nat /\ DOMAIN q = 1..Len(q) /\ i \in 1..Len(q)
      /\ \A j \in DOMAIN q : q[j] \in Nat /\ q[j] \in Copies
  <2>1. q \in Seq(Copies)
    BY <1>0, SessionTypes
  <2> QED
    BY <2>1, QueueTypes
<1>2. /\ w \in Seq(Copies) /\ DOMAIN w = 1..(Len(q) - 1)
      /\ \A j \in DOMAIN w : w[j] = IF j < i THEN q[j] ELSE q[j + 1]
  BY <1>1, QueueWithout
<1>3. t = [s EXCEPT !.queued = w]
  BY DEF Unqueue, Without
<1> HIDE DEF w, t
<1>4. /\ t \in Session /\ t.queued = w /\ t.copy = s.copy /\ t.image = s.image
      /\ t.dest = s.dest /\ t.reusable = s.reusable /\ t.state = s.state /\ t.link = s.link
      /\ t.transfer = s.transfer /\ t.proof = s.proof
  BY <1>0, <1>2, <1>3 DEF Session
<1> DEFINE at(j) == IF j < i THEN j ELSE j + 1
<1>5. \A j \in DOMAIN w : /\ at(j) \in DOMAIN q /\ w[j] = q[at(j)] /\ j <= at(j) /\ at(j) # i
                          /\ j \in Nat /\ at(j) \in Nat
  BY <1>1, <1>2
<1>6. \A j \in DOMAIN w, k \in DOMAIN w : j < k => at(j) < at(k)
  BY <1>1, <1>2
<1>7. \A k \in DOMAIN q : k # i => \E j \in DOMAIN w : w[j] = q[k]
  <2> SUFFICES ASSUME NEW k \in DOMAIN q, k # i PROVE \E j \in DOMAIN w : w[j] = q[k]
    OBVIOUS
  <2>1. CASE k < i
    <3>1. k \in DOMAIN w /\ w[k] = q[k]
      BY <1>1, <1>2, <2>1
    <3> QED
      BY <3>1
  <2>2. CASE k > i
    <3>1. k - 1 \in DOMAIN w /\ ~(k - 1 < i) /\ k - 1 + 1 = k
      BY <1>1, <1>2, <2>2
    <3>2. w[k - 1] = q[k]
      BY <1>2, <3>1
    <3> QED
      BY <3>1, <3>2
  <2> QED
    BY <1>1, <2>1, <2>2
<1> HIDE DEF at
<1>8. \A j \in DOMAIN q : /\ s.copy < q[j] /\ j < q[j]
                          /\ \A k \in DOMAIN q : j < k => q[j] < q[k]
  BY <1>0 DEF Ordered
<1>9. Ordered(t)
  <2>1. ASSUME NEW j \in DOMAIN w PROVE s.copy < w[j] /\ j < w[j]
    <3>1. s.copy < q[at(j)] /\ at(j) < q[at(j)] /\ q[at(j)] \in Nat
      BY <1>1, <1>5, <1>8
    <3> QED
      BY <1>5, <3>1
  <2>2. ASSUME NEW j \in DOMAIN w, NEW k \in DOMAIN w, j < k PROVE w[j] < w[k]
    BY <1>5, <1>6, <1>8, <2>2
  <2> QED
    BY <1>4, <2>1, <2>2 DEF Ordered
<1>10. ~s.reusable => w = <<>>
  BY <1>0, <1>1 DEF SessionOK
<1>11. Sound(t)
  BY <1>0, <1>4, <1>9, <1>10 DEF Sound, SessionOK, Proven
<1>12. ASSUME NEW c \in Copies
       PROVE  /\ Queued(t, c) => Queued(s, c)
              /\ Queued(s, c) => c = q[i] \/ Queued(t, c)
              /\ ~(Queued(t, c) /\ c = q[i])
  <2>1. Queued(t, c) <=> \E j \in DOMAIN w : w[j] = c
    BY <1>4 DEF Queued
  <2>2. Queued(s, c) <=> \E j \in DOMAIN q : q[j] = c
    BY DEF Queued
  <2>3. \A j \in DOMAIN q : j # i => q[j] # q[i]
    <3> SUFFICES ASSUME NEW j \in DOMAIN q, j # i PROVE q[j] # q[i]
      OBVIOUS
    <3>1. j < i \/ i < j
      BY <1>1
    <3>2. q[j] < q[i] \/ q[i] < q[j]
      BY <1>1, <1>8, <3>1
    <3> QED
      BY <1>1, <3>2
  <2> QED
    BY <1>5, <1>7, <2>1, <2>2, <2>3
<1>13. Carries(s, t)
  BY <1>4, <1>12 DEF Carries, Holds
<1>14. Queued(s, q[i]) /\ q[i] \in Copies
  BY <1>1 DEF Queued
<1>15. \A c \in Copies : c \in {q[i]} <=> Holds(s, c) /\ ~Holds(t, c)
  BY <1>0, <1>4, <1>12, <1>14 DEF Holds
<1> QED
  BY <1>11, <1>13, <1>15 DEF t

LEMMA CancelSteps ==
    ASSUME IInv, NEW m, Cancel(m)
    PROVE  ManagerStep
<1>1. PICK l \in Links : Open(l) /\ (CancelCurrent(l, m) \/ CancelQueued(l, m))
  BY DEF Cancel
<1>2. exact' = exact /\ panicked' = panicked /\ sent' = sent /\ got' = got /\ refused' = refused
  BY DEF Cancel, peer
<1> DEFINE s == pending[l]
<1>3. /\ Sound(s) /\ s \in Session /\ Ordered(s) /\ SessionOK(s) /\ s.copy \in Copies
      /\ ~Queued(s, s.copy)
  BY <1>1, SoundTypes DEF IInv, SessionsSound, Sound
<1>4. \A c \in Copies : Holds(s, c) <=> c \in Current(s) \/ Queued(s, c)
  BY DEF Holds, Current
<1>5. \A c \in Copies : ~(c \in Current(s) /\ Queued(s, c))
  BY <1>3 DEF Current
<1>6. CASE CancelCurrent(l, m)
  <2>1. CASE s.state = "Establishing" /\ s.reusable /\ s.queued # <<>>
    <3> DEFINE t == [StartQueued(s) EXCEPT !.state = "Establishing"]
    <3>1. Replace(l, t, Current(s), "cancelled")
      BY <1>6, <2>1 DEF CancelCurrent
    <3>2. s.link # "closed"
      BY <1>3, <2>1 DEF SessionOK
    <3>3. Sound(t) /\ Carries(s, t) /\ \A c \in Copies : Holds(t, c) <=> Queued(s, c)
      BY <1>3, <2>1, <3>2, Started
    <3> HIDE DEF t
    <3> QED
      BY <1>1, <1>2, <1>4, <1>5, <3>1, <3>3, ReplaceSteps
  <2>2. CASE /\ ~(s.state = "Establishing" /\ s.reusable /\ s.queued # <<>>)
             /\ s.reusable /\ s.link = "active" /\ s.attached
    <3>1. Replace(l, NextOrIdle(s), Current(s), "cancelled")
      BY <1>6, <2>2 DEF CancelCurrent
    <3>2. /\ Sound(NextOrIdle(s)) /\ Carries(s, NextOrIdle(s))
          /\ \A c \in Copies : Holds(NextOrIdle(s), c) <=> Queued(s, c)
      BY <1>3, <2>2, NextOrIdleSound
    <3> QED
      BY <1>1, <1>2, <1>4, <1>5, <3>1, <3>2, ReplaceSteps
  <2>3. CASE /\ ~(s.state = "Establishing" /\ s.reusable /\ s.queued # <<>>)
             /\ ~(s.reusable /\ s.link = "active" /\ s.attached)
    <3>1. Remove(l)
      BY <1>6, <2>3 DEF CancelCurrent
    <3> QED
      BY <1>1, <1>2, <3>1, RemoveSteps
  <2> QED
    BY <2>1, <2>2, <2>3
<1>7. CASE CancelQueued(l, m)
  <2>1. PICK i \in QueuePosition(s, m) : Replace(l, Unqueue(s, i), {s.queued[i]}, "cancelled")
    BY <1>7 DEF CancelQueued
  <2>2. i \in DOMAIN s.queued
    BY DEF QueuePosition
  <2> QED
    BY <1>1, <1>2, <1>3, <2>1, <2>2, UnqueueSound, ReplaceSteps
<1> QED
  BY <1>1, <1>6, <1>7

LEMMA FailDeliverySteps ==
    ASSUME IInv, NEW m, FailDelivery(m)
    PROVE  ManagerStep
<1>1. PICK l \in Links : Open(l) /\ (FailCurrent(l, m) \/ FailQueued(l, m))
  BY DEF FailDelivery
<1>2. exact' = exact /\ sent' = sent /\ got' = got /\ refused' = refused
  BY DEF FailDelivery, peer
<1>3. CASE FailCurrent(l, m)
  BY <1>1, <1>2, <1>3, FailCurrentSteps
<1>4. CASE FailQueued(l, m)
  <2> DEFINE s == pending[l]
  <2>0. Sound(s)
    BY <1>1 DEF IInv, SessionsSound
  <2>1. PICK i \in QueuePosition(s, m) : Replace(l, Unqueue(s, i), {s.queued[i]}, "failed")
    BY <1>4 DEF FailQueued
  <2>2. i \in DOMAIN s.queued
    BY DEF QueuePosition
  <2>3. panicked' = panicked
    BY <1>4 DEF FailQueued
  <2> QED
    BY <1>1, <1>2, <2>0, <2>1, <2>2, <2>3, UnqueueSound, ReplaceSteps
<1> QED
  BY <1>1, <1>3, <1>4

-----------------------------------------------------------------------------
(* Answers of the transport and packets of the peer.                        *)

LEMMA RevivedSound ==
    ASSUME NEW s, Sound(s)
    PROVE  LET t == Revived(s)
           IN  /\ Sound(t) /\ Same(s, t) /\ t.state = s.state /\ t.transfer = s.transfer
               /\ t.proof = s.proof /\ (t.link = "closed" <=> s.link = "closed")
<1>1. CASE s.link = "stale"
  <2> DEFINE t == [s EXCEPT !.link = "active"]
  <2>1. Revived(s) = t
    BY <1>1 DEF Revived
  <2>2. /\ t \in Session /\ Same(s, t) /\ t.state = s.state /\ t.transfer = s.transfer
        /\ t.proof = s.proof /\ t.link = "active"
    BY DEF Sound, Session, Same
  <2> HIDE DEF t
  <2> QED
    BY <1>1, <2>1, <2>2, SoundChange
<1>2. CASE s.link # "stale"
  BY <1>2 DEF Revived, Same
<1> QED
  BY <1>1, <1>2

LEMMA AnswersSteps ==
    ASSUME IInv, NEW l \in Links, Answers(l)
    PROVE  ManagerStep
<1> DEFINE s == pending[l]
<1>0. Open(l)
  BY DEF Answers, LinkRequestAnswered, LinkProof, EndpointBound, SendAnswered, PacketDispatched,
         EndpointTerminated
<1>1. Sound(s) /\ s \in Session /\ SessionOK(s)
  BY <1>0 DEF IInv, SessionsSound, Sound
<1>2. ASSUME NEW t, Sound(t), Same(s, t), Becomes(l, t) \/ Becomes(l, Failing(t))
      PROVE  ManagerStep
  <2>1. Sound(Failing(t)) /\ Same(s, Failing(t))
    BY <1>2, FailingSound DEF Same
  <2> QED
    BY <1>0, <1>2, <2>1, BecomesSteps
<1>3. ASSUME NEW t \in Session, Same(s, t), t.transfer = s.transfer, t.state = s.state,
             t.proof = s.proof, t.link = "closed" <=> s.link = "closed",
             Becomes(l, t) \/ Becomes(l, Failing(t))
      PROVE  ManagerStep
  <2>1. Sound(t)
    BY <1>1, <1>3, SoundChange
  <2> QED
    BY <1>2, <1>3, <2>1
<1>4. CASE LinkRequestAnswered(l)
  <2> DEFINE t == [s EXCEPT !.request = FALSE]
  <2>1. Becomes(l, t) \/ Becomes(l, Failing(t))
    BY <1>4 DEF LinkRequestAnswered
  <2>2. /\ t \in Session /\ Same(s, t) /\ t.transfer = s.transfer /\ t.state = s.state
        /\ t.proof = s.proof /\ (t.link = "closed" <=> s.link = "closed")
    BY <1>1 DEF Session, Same
  <2> HIDE DEF t
  <2> QED
    BY <1>3, <2>1, <2>2
<1>5. CASE LinkProof(l)
  <2> DEFINE u == [s EXCEPT !.link = "active", !.request = FALSE]
             t == [u EXCEPT !.bind = TRUE]
  <2>1. Becomes(l, t) \/ Becomes(l, Failing(u))
    BY <1>5 DEF LinkProof
  <2>2. /\ u \in Session /\ Same(s, u) /\ u.transfer = s.transfer /\ u.state = s.state
        /\ u.proof = s.proof /\ (u.link = "closed" <=> s.link = "closed")
    BY <1>1, <1>5 DEF Session, Same, LinkProof
  <2>3. /\ t \in Session /\ Same(s, t) /\ t.transfer = s.transfer /\ t.state = s.state
        /\ t.proof = s.proof /\ (t.link = "closed" <=> s.link = "closed")
    BY <1>1, <1>5 DEF Session, Same, LinkProof
  <2> HIDE DEF t, u
  <2> QED
    BY <1>3, <2>1, <2>2, <2>3
<1>6. CASE EndpointBound(l)
  <2> DEFINE u == [s EXCEPT !.bind = FALSE]
             v == [u EXCEPT !.attached = TRUE]
             t == [v EXCEPT !.state = "Identifying", !.handshake = @ \/ exact,
                            !.plain = @ \/ ~exact]
  <2>0. s.image /\ s.link # "closed"
    BY <1>1, <1>6 DEF EndpointBound, SessionOK
  <2>1. Becomes(l, t) \/ Becomes(l, Failing(u)) \/ Becomes(l, Failing(v))
    BY <1>6 DEF EndpointBound
  <2>2. /\ u \in Session /\ Same(s, u) /\ u.transfer = s.transfer /\ u.state = s.state
        /\ u.proof = s.proof /\ (u.link = "closed" <=> s.link = "closed")
    BY <1>1 DEF Session, Same
  <2>3. /\ v \in Session /\ Same(s, v) /\ v.transfer = s.transfer /\ v.state = s.state
        /\ v.proof = s.proof /\ (v.link = "closed" <=> s.link = "closed")
    BY <1>1 DEF Session, Same
  <2> HIDE DEF u, v
  <2>4. /\ t \in Session /\ Same(s, t) /\ t.transfer = s.transfer /\ t.state = "Identifying"
        /\ t.link = s.link
    <3> DEFINE h == v.handshake \/ exact
               p == v.plain \/ ~exact
               w == [v EXCEPT !.state = "Identifying", !.handshake = h, !.plain = p]
    <3>1. h \in BOOLEAN /\ p \in BOOLEAN
      OBVIOUS
    <3>2. t = w
      BY <2>3 DEF Session
    <3> HIDE DEF h, p, t
    <3>3. /\ w \in Session /\ Same(v, w) /\ w.transfer = v.transfer /\ w.state = "Identifying"
          /\ w.link = v.link
      BY <2>3, <3>1 DEF Session, DeliveryState, Same
    <3>4. v.link = s.link
      BY <1>1 DEF v, u, Session
    <3> QED
      BY <2>3, <3>2, <3>3, <3>4 DEF Same
  <2> HIDE DEF t
  <2>5. Ordered(t)
    BY <1>1, <2>4, SameHolds DEF SessionOK
  <2>6. Sound(t)
    BY <1>1, <2>0, <2>4, <2>5 DEF Sound, SessionOK, Proven, Same
  <2> QED
    BY <1>2, <1>3, <2>1, <2>2, <2>3, <2>4, <2>6
<1>7. CASE SendAnswered(l)
  <2> DEFINE t == [s EXCEPT !.handshake = FALSE]
             u == [s EXCEPT !.plain = FALSE]
  <2>1. Becomes(l, t) \/ Becomes(l, Failing(t)) \/ Becomes(l, u) \/ Becomes(l, Failing(u))
    BY <1>7 DEF SendAnswered
  <2>2. /\ t \in Session /\ Same(s, t) /\ t.transfer = s.transfer /\ t.state = s.state
        /\ t.proof = s.proof /\ (t.link = "closed" <=> s.link = "closed")
    BY <1>1 DEF Session, Same
  <2>3. /\ u \in Session /\ Same(s, u) /\ u.transfer = s.transfer /\ u.state = s.state
        /\ u.proof = s.proof /\ (u.link = "closed" <=> s.link = "closed")
    BY <1>1 DEF Session, Same
  <2> HIDE DEF t, u
  <2> QED
    BY <1>3, <2>1, <2>2, <2>3
<1>8. CASE PacketDispatched(l)
  <2> DEFINE t == [s EXCEPT !.dispatch = FALSE]
  <2>1. Becomes(l, t) \/ Becomes(l, Failing(t))
    BY <1>8 DEF PacketDispatched
  <2>2. /\ t \in Session /\ Same(s, t) /\ t.transfer = s.transfer /\ t.state = s.state
        /\ t.proof = s.proof /\ (t.link = "closed" <=> s.link = "closed")
    BY <1>1 DEF Session, Same
  <2> HIDE DEF t
  <2> QED
    BY <1>3, <2>1, <2>2
<1>9. CASE EndpointTerminated(l)
  <2> DEFINE t == [s EXCEPT !.attached = FALSE, !.bind = FALSE]
  <2>1. Becomes(l, Failing(t))
    BY <1>9 DEF EndpointTerminated
  <2>2. /\ t \in Session /\ Same(s, t) /\ t.transfer = s.transfer /\ t.state = s.state
        /\ t.proof = s.proof /\ (t.link = "closed" <=> s.link = "closed")
    BY <1>1 DEF Session, Same
  <2> HIDE DEF t
  <2> QED
    BY <1>3, <2>1, <2>2
<1> QED
  BY <1>4, <1>5, <1>6, <1>7, <1>8, <1>9 DEF Answers

LEMMA PacketProofSteps ==
    ASSUME IInv, NEW l \in Links, NEW c \in Copies, PacketProof(l, c)
    PROVE  ManagerStep
<1> DEFINE s == pending[l]
           u == Revived(s)
           t == [u EXCEPT !.state = "Complete"]
<1>0. Open(l) /\ <<c, 0>> \in got /\ s.state = "AwaitingProof" /\ s.proof = c /\ Becomes(l, t)
  BY DEF PacketProof, Hears
<1>1. Sound(s) /\ s \in Session
  BY <1>0 DEF IInv, SessionsSound, Sound
<1>2. /\ Sound(u) /\ Same(s, u) /\ u.state = s.state /\ u.transfer = s.transfer
      /\ u.proof = s.proof /\ (u.link = "closed" <=> s.link = "closed")
  BY <1>1, RevivedSound
<1> HIDE DEF u
<1>3. /\ t \in Session /\ Same(u, t) /\ t.state = "Complete" /\ t.transfer = u.transfer
      /\ t.link = u.link
  BY <1>2 DEF Sound, Session, DeliveryState, Same
<1> HIDE DEF t
<1>4. s.copy = c /\ Size[c] = 0 /\ s.image /\ s.link # "closed"
  BY <1>0, <1>1 DEF Sound, SessionOK
<1>5. s.transfer = 0
  BY <1>1, <1>4, SessionTypes DEF Sound, Proven
<1>6. Proved(c)
  BY <1>0, <1>4, SegmentTypes DEF Proved
<1>7. Ordered(t) /\ Same(s, t)
  BY <1>2, <1>3, SameHolds DEF Sound, SessionOK, Same
<1>8. SessionOK(t)
  BY <1>1, <1>2, <1>3, <1>4, <1>5, <1>7 DEF SessionOK, Sound, Same
<1>9. Proven(t)
  BY <1>1, <1>2, <1>3, <1>4, <1>6, <1>7 DEF Proven, Sound, Same
<1>10. Sound(t)
  BY <1>3, <1>8, <1>9 DEF Sound
<1> QED
  BY <1>0, <1>7, <1>10, BecomesSteps

LEMMA ResourceProofSteps ==
    ASSUME IInv, NEW l \in Links, NEW c \in Copies, NEW k, ResourceProof(l, c, k)
    PROVE  ManagerStep
<1> DEFINE s == pending[l]
           u == Revived(s)
<1>0. Open(l) /\ <<c, k>> \in got
  BY DEF ResourceProof, Hears
<1>1. Sound(s) /\ s \in Session
  BY <1>0 DEF IInv, SessionsSound, Sound
<1>2. /\ Sound(u) /\ Same(s, u) /\ u.state = s.state /\ u.transfer = s.transfer
      /\ u \in Session /\ SessionOK(u) /\ Ordered(u)
  BY <1>1, RevivedSound DEF Sound, SessionOK
<1>3. u.copy = c /\ u.transfer = k /\ k > 0 /\ k \in Nat /\ Size[c] \in Nat /\ k <= Size[c]
  BY <1>2, SessionTypes, Constants DEF ResourceProof, Sound, Proven
<1>4. u.image /\ u.link # "closed" /\ \A j \in 1..k : <<c, j>> \in got
  <2>1. \A j \in 1..k - 1 : <<c, j>> \in got
    BY <1>2, <1>3 DEF Sound, Proven
  <2> QED
    BY <1>0, <1>2, <1>3, <2>1 DEF SessionOK
<1>5. CASE k < Size[c] /\ Becomes(l, [u EXCEPT !.transfer = k + 1, !.state = "Transferring"])
  <2> DEFINE n == k + 1
             t == [u EXCEPT !.transfer = n, !.state = "Transferring"]
  <2>0. n \in Nat /\ n = k + 1
    BY <1>3
  <2> HIDE DEF u, n
  <2>1. /\ t \in Session /\ Same(u, t) /\ t.state = "Transferring" /\ t.transfer = n
        /\ t.link = u.link
    BY <1>2, <2>0 DEF Session, DeliveryState, Same
  <2> HIDE DEF t
  <2>2. Ordered(t) /\ Same(s, t)
    BY <1>2, <2>1, SameHolds DEF Same
  <2>3. SessionOK(t)
    BY <1>2, <1>4, <2>1, <2>2 DEF SessionOK, Same
  <2>4. Proven(t)
    BY <1>3, <1>4, <1>5, <2>0, <2>1 DEF Proven, Same
  <2>5. Sound(t)
    BY <2>1, <2>3, <2>4 DEF Sound
  <2> QED
    BY <1>0, <1>5, <2>2, <2>5, BecomesSteps DEF t, n, u
<1>6. CASE Becomes(l, [Failing(u) EXCEPT !.transfer = 0])
  <2> DEFINE v == Failing(u)
             t == [v EXCEPT !.transfer = 0]
  <2>0. Sound(v) /\ Same(u, v) /\ v.state = "Failed" /\ v.link = u.link /\ v \in Session
    BY <1>2, FailingSound DEF Sound
  <2> HIDE DEF v
  <2>1. /\ t \in Session /\ Same(v, t) /\ t.state = "Failed" /\ t.transfer = 0 /\ t.link = u.link
    BY <2>0 DEF Session, Same
  <2> HIDE DEF t, u
  <2>2. Ordered(t) /\ Same(s, t)
    BY <1>2, <2>0, <2>1, SameHolds DEF Same
  <2>3. SessionOK(t)
    BY <1>2, <1>4, <2>0, <2>1, <2>2 DEF SessionOK, Same
  <2>4. Proven(t)
    BY <1>3, <2>0, <2>1 DEF Proven, Same
  <2>5. Sound(t)
    BY <2>1, <2>3, <2>4 DEF Sound
  <2> QED
    BY <1>0, <1>6, <2>2, <2>5, BecomesSteps DEF t, v, u
<1>7. CASE k >= Size[c] /\ Becomes(l, [u EXCEPT !.transfer = 0, !.state = "Complete"])
  <2> DEFINE t == [u EXCEPT !.transfer = 0, !.state = "Complete"]
  <2>1. /\ t \in Session /\ Same(u, t) /\ t.state = "Complete" /\ t.transfer = 0
        /\ t.link = u.link
    BY <1>2 DEF Session, DeliveryState, Same
  <2> HIDE DEF t, u
  <2>2. Ordered(t) /\ Same(s, t)
    BY <1>2, <2>1, SameHolds DEF Same
  <2>3. SessionOK(t)
    BY <1>2, <1>4, <2>1, <2>2 DEF SessionOK, Same
  <2>4. Proved(c)
    <3>1. k = Size[c] /\ Size[c] > 0
      BY <1>3, <1>7
    <3> QED
      BY <1>4, <3>1, SegmentTypes DEF Proved
  <2>5. Proven(t)
    BY <1>3, <2>1, <2>4 DEF Proven, Same
  <2>6. Sound(t)
    BY <2>1, <2>3, <2>5 DEF Sound
  <2> QED
    BY <1>0, <1>7, <2>2, <2>6, BecomesSteps DEF t, u
<1> QED
  BY <1>3, <1>5, <1>6, <1>7 DEF ResourceProof

LEMMA RejectSteps ==
    ASSUME IInv, NEW l \in Links, NEW s, Sound(s), Same(pending[l], s), Open(l),
           s.image, s.link # "closed", NEW t \in Session, Same(s, t), t.link = s.link,
           t.state = "Rejected", t.transfer = 0 \/ t.transfer = s.transfer, Becomes(l, t)
    PROVE  ManagerStep
<1>1. Ordered(t) /\ Same(pending[l], t)
  BY SameHolds DEF Same, Sound, SessionOK
<1>2. SessionOK(t)
  BY <1>1 DEF SessionOK, Same, Sound
<1>3. Proven(t)
  <2>1. Size[s.copy] \in Nat
    BY SoundTypes, Constants
  <2> QED
    BY <2>1 DEF Proven, Same, Sound
<1> QED
  BY <1>1, <1>2, <1>3, BecomesSteps DEF Sound

LEMMA HearingSteps ==
    ASSUME IInv, NEW l \in Links, Hearing(l)
    PROVE  ManagerStep
<1> DEFINE s == pending[l]
           u == Revived(s)
<1>0. Open(l)
  BY DEF Hearing, PacketProof, ResourceProof, ResourceReject, ResourceRequest, InboundPacket,
         Keepalive, LinkClosed, Hears
<1>1. Sound(s) /\ s \in Session /\ SessionOK(s)
  BY <1>0 DEF IInv, SessionsSound, Sound
<1>2. /\ Sound(u) /\ Same(s, u) /\ u.state = s.state /\ u.transfer = s.transfer
      /\ u \in Session /\ SessionOK(u) /\ (u.link = "closed" <=> s.link = "closed")
  BY <1>1, RevivedSound DEF Sound
<1> HIDE DEF u
<1>3. ASSUME NEW t, Sound(t), Same(s, t), Becomes(l, SendsPlain(t)) \/ Becomes(l, Failing(t))
      PROVE  ManagerStep
  <2>1. Sound(SendsPlain(t)) /\ Same(s, SendsPlain(t)) /\ Sound(Failing(t)) /\ Same(s, Failing(t))
    BY <1>3, StagedSound, FailingSound DEF Same
  <2> QED
    BY <1>0, <1>3, <2>1, BecomesSteps
<1>4. ASSUME NEW c \in Copies, ResourceReject(l, c) PROVE ManagerStep
  <2> DEFINE t == [u EXCEPT !.transfer = 0, !.state = "Rejected"]
  <2>1. Becomes(l, t) /\ u.transfer > 0
    BY <1>4 DEF ResourceReject, u
  <2>2. /\ t \in Session /\ Same(u, t) /\ t.link = u.link /\ t.state = "Rejected" /\ t.transfer = 0
    BY <1>2 DEF Session, DeliveryState, Same
  <2> HIDE DEF t
  <2>3. u.image /\ u.link # "closed"
    BY <1>2, <2>1 DEF SessionOK
  <2> QED
    BY <1>0, <1>2, <2>1, <2>2, <2>3, RejectSteps
<1>5. CASE ResourceRequest(l)
  BY <1>2, <1>3, <1>5 DEF ResourceRequest, u
<1>6. CASE InboundPacket(l)
  <2>1. CASE s.reusable
    BY <1>1, <1>3, <1>6, <2>1 DEF InboundPacket, Same
  <2>2. CASE ~s.reusable
    <3> DEFINE t == [s EXCEPT !.state = "Rejected"]
    <3>1. Becomes(l, t) /\ s.link # "closed"
      BY <1>6, <2>2 DEF InboundPacket
    <3>2. /\ t \in Session /\ Same(s, t) /\ t.link = s.link /\ t.state = "Rejected"
          /\ t.transfer = s.transfer
      BY <1>1 DEF Session, DeliveryState, Same
    <3> HIDE DEF t
    <3>3. s.image /\ Same(s, s)
      BY <1>1, <2>2 DEF SessionOK, Same
    <3> QED
      BY <1>0, <1>1, <3>1, <3>2, <3>3, RejectSteps
  <2> QED
    BY <2>1, <2>2
<1>7. CASE Keepalive(l)
  BY <1>0, <1>2, <1>7, BecomesSteps DEF Keepalive, u
<1>8. CASE LinkClosed(l)
  <2> DEFINE v == [s EXCEPT !.link = "closed"]
             w == Failing(v)
             t == [w EXCEPT !.transfer = 0, !.proof = None]
  <2>0. Becomes(l, IF v.state \in {"Idle", "Complete"} THEN v ELSE t)
    BY <1>8 DEF LinkClosed
  <2>1. /\ v \in Session /\ Same(s, v) /\ v.link = "closed" /\ v.state = s.state
        /\ v.transfer = s.transfer /\ v.proof = s.proof
    BY <1>1 DEF Session, Same
  <2> HIDE DEF v
  <2>2. Ordered(v)
    BY <1>1, <2>1, SameHolds DEF SessionOK
  <2>3. CASE v.state \in {"Idle", "Complete"}
    <3>1. SessionOK(v)
      BY <1>1, <2>1, <2>2, <2>3 DEF SessionOK, Same
    <3>2. Sound(v)
      BY <1>1, <2>1, <3>1 DEF Sound, Proven, Same
    <3> QED
      BY <1>0, <2>0, <2>1, <2>3, <3>2, BecomesSteps
  <2>4. CASE v.state \notin {"Idle", "Complete"}
    <3>1. /\ w \in Session /\ Same(v, w) /\ w.state = "Failed" /\ w.link = "closed"
      BY <2>1 DEF Failing, Session, DeliveryState, Same
    <3> HIDE DEF w
    <3>2. /\ t \in Session /\ Same(w, t) /\ t.state = "Failed" /\ t.link = "closed" /\ t.transfer = 0
      BY <3>1 DEF Session, Same
    <3> HIDE DEF t
    <3>3. Same(s, t) /\ Ordered(t)
      BY <2>1, <2>2, <3>1, <3>2, SameHolds DEF Same
    <3>4. SessionOK(t)
      BY <1>1, <3>2, <3>3 DEF SessionOK, Same
    <3>5. Proven(t)
      <4>1. t.copy \in Copies
        BY <3>2, SessionTypes
      <4>2. Size[t.copy] \in Nat
        BY <4>1, Constants
      <4> QED
        BY <3>2, <4>2 DEF Proven
    <3>6. Sound(t)
      BY <3>2, <3>4, <3>5 DEF Sound
    <3> QED
      BY <1>0, <2>0, <2>4, <3>3, <3>6, BecomesSteps
  <2> QED
    BY <2>3, <2>4
<1>9. ASSUME NEW part \in Parts, ResourceProof(l, part[1], part[2]) PROVE ManagerStep
  BY <1>9, PartElim, ResourceProofSteps
<1> QED
  BY <1>4, <1>5, <1>6, <1>7, <1>8, <1>9, PacketProofSteps DEF Hearing

-----------------------------------------------------------------------------
(* Starting a delivery.                                                     *)

(* Sessions hold what they held, and one of them the new copy.              *)
StartStep(c) ==
    /\ Unstarted(c) /\ Accepted(c)
    /\ pending' \in [Links -> Session \cup {None}]
    /\ \A l \in Links : pending'[l] # None =>
          /\ Sound(pending'[l])
          /\ \/ pending'[l].copy = c
             \/ Open(l) /\ (pending'[l].copy = pending[l].copy
                            \/ Queued(pending[l], pending'[l].copy))
          /\ \A x \in Copies : Queued(pending'[l], x) => x = c \/ (Open(l) /\ Queued(pending[l], x))
    /\ \A l \in Links, x \in Copies : x # c => (Stays(l, x) <=> Open(l) /\ Holds(pending[l], x))
    /\ \E l \in Links : Stays(l, c) /\ \A k \in Links : Stays(k, c) => k = l
    /\ DirectLinksOwned' /\ directLinks' \in [Dests -> Links \cup {None}]
    /\ UNCHANGED <<exact, panicked, sent, peer>>

LEMMA StartKeeps ==
    ASSUME IInv, NEW c \in Copies, StartStep(c)
    PROVE  IInv'
<1>0. got' = got /\ sent' = sent /\ refused' = refused /\ exact' = exact /\ panicked' = panicked
  BY DEF StartStep, peer
<1>1. /\ outcome' \in [Copies -> Outcomes] /\ outcome'[c] = "open" /\ outcome[c] = "new"
      /\ \A x \in Copies : x # c => outcome'[x] = outcome[x]
      /\ \A x \in Copies : x < c => outcome[x] # "new"
  BY DEF StartStep, Accepted, Unstarted, IInv, TypeOK, Outcomes
<1>2. SessionsSound'
  <2> SUFFICES ASSUME NEW l \in Links, pending'[l] # None PROVE Sound(pending[l])'
    BY DEF SessionsSound, Open
  <2>1. Sound(pending'[l])
    BY DEF StartStep
  <2> QED
    BY <1>0, <2>1 DEF Sound, SessionOK, Ordered, Proven, Proved
<1>3. TypeOK'
  BY <1>0, <1>1 DEF IInv, TypeOK, StartStep, Outcomes
<1>4. CompleteProved'
  BY <1>0, <1>1 DEF IInv, CompleteProved, Proved
<1>5. HeldOpen' /\ OpenHeld' /\ HeldOnce'
  <2>1. \A l \in Links, x \in Copies : Stays(l, x) => outcome'[x] = "open"
    BY <1>1 DEF StartStep, IInv, HeldOpen
  <2>2. \A x \in Copies : outcome'[x] = "open" => \E l \in Links : Stays(l, x)
    BY <1>1 DEF StartStep, IInv, OpenHeld
  <2>3. \A k \in Links, l \in Links, x \in Copies : Stays(k, x) /\ Stays(l, x) => k = l
    BY DEF StartStep, IInv, HeldOnce
  <2> QED
    BY <2>1, <2>2, <2>3 DEF HeldOpen, OpenHeld, HeldOnce, Stays, Open, Holds, Queued
<1>6. StartedInOrder'
  <2>1. \A a \in Copies, b \in Copies : a < b /\ outcome[b] # "new" => outcome[a] # "new"
    BY DEF IInv, StartedInOrder
  <2> QED
    BY <1>1, <2>1 DEF StartedInOrder
<1>7. CurrentStarted'
  <2> SUFFICES ASSUME NEW l \in Links, pending'[l] # None
               PROVE  outcome'[pending'[l].copy] # "new"
    BY DEF CurrentStarted, Open
  <2>1. pending'[l].copy \in Copies
    BY SoundTypes DEF StartStep
  <2>2. pending'[l].copy = c \/ outcome[pending'[l].copy] # "new"
    BY <2>1 DEF StartStep, IInv, CurrentStarted, HeldOpen, Holds
  <2> QED
    BY <1>1, <2>1, <2>2
<1>8. \A p \in sent : p[1] \in Copies /\ p[1] # c
  BY <1>1, PartElim DEF IInv, TypeOK, SentStarted
<1>9. SentStarted'
  BY <1>0, <1>1, <1>8 DEF IInv, SentStarted
<1>10. QueuedUnsent'
  <2> SUFFICES ASSUME NEW l \in Links, NEW p \in sent, pending'[l] # None,
                      Queued(pending'[l], p[1])
               PROVE  FALSE
    BY <1>0 DEF QueuedUnsent, Open, Queued
  <2> QED
    BY <1>8 DEF StartStep, IInv, QueuedUnsent
<1> QED
  BY <1>2, <1>3, <1>4, <1>5, <1>6, <1>7, <1>9, <1>10 DEF IInv, StartStep

LEMMA NewSound ==
    ASSUME NEW c \in Copies
    PROVE  LET t == NewSession(c)
           IN  /\ Sound(t) /\ t.copy = c /\ t.dest = DestOf[c] /\ (t.reusable <=> c \notin OneShot)
               /\ \A x : ~Queued(t, x)
               /\ \A x \in Copies : Holds(t, x) <=> x = c
<1> DEFINE t == NewSession(c)
<1>1. DestOf[c] \in Dests /\ Size[c] \in Nat
  BY Constants
<1>2. <<>> \in Seq(Copies) /\ DOMAIN <<>> = {}
  OBVIOUS
<1>3. /\ t \in Session /\ t.copy = c /\ t.image /\ t.state = "Establishing" /\ t.queued = <<>>
      /\ t.link = "pending" /\ t.transfer = 0 /\ t.dest = DestOf[c] /\ (t.reusable <=> c \notin OneShot)
  BY <1>1, <1>2 DEF NewSession, Session, DeliveryState
<1> HIDE DEF t
<1>4. \A x : ~Queued(t, x)
  BY <1>2, <1>3 DEF Queued
<1>5. Ordered(t)
  BY <1>2, <1>3 DEF Ordered
<1>6. SessionOK(t) /\ Proven(t)
  BY <1>1, <1>3, <1>5 DEF SessionOK, Proven
<1>7. \A x \in Copies : Holds(t, x) <=> x = c
  BY <1>3, <1>4 DEF Holds
<1> QED
  BY <1>3, <1>4, <1>6, <1>7 DEF Sound, t

(* The sessions a start leaves: all of them, but for the one it replaces,   *)
(* which holds nothing.                                                     *)
Leaves(c, others) ==
    /\ others \in [Links -> Session \cup {None}]
    /\ \A k \in Links : others[k] # None => Open(k) /\ others[k] = pending[k]
    /\ \A k \in Links : Open(k) /\ others[k] = None =>
          /\ c \notin OneShot /\ directLinks[DestOf[c]] = k
          /\ \A x \in Copies : ~Holds(pending[k], x)
    /\ c \notin OneShot => \A k \in Links : directLinks[DestOf[c]] = k => others[k] = None

LEMMA OpenLinkSteps ==
    ASSUME IInv, NEW c \in Copies, Unstarted(c), NEW others, Leaves(c, others),
           OpenLink(c, others), UNCHANGED <<exact, panicked, sent, peer>>
    PROVE  StartStep(c)
<1>1. PICK l \in Links :
         /\ others[l] = None
         /\ pending' = [others EXCEPT ![l] = NewSession(c)]
         /\ directLinks' = IF c \in OneShot THEN directLinks
                           ELSE [directLinks EXCEPT ![DestOf[c]] = l]
  BY DEF OpenLink
<1> DEFINE t == NewSession(c)
<1>2. /\ Sound(t) /\ t.copy = c /\ t.dest = DestOf[c] /\ (t.reusable <=> c \notin OneShot)
      /\ \A x : ~Queued(t, x)
      /\ \A x \in Copies : Holds(t, x) <=> x = c
      /\ t \in Session /\ t # None
  BY NewSound, SoundTypes
<1> HIDE DEF t
<1>3. /\ pending' \in [Links -> Session \cup {None}]
      /\ \A k \in Links : pending'[k] = IF k = l THEN t ELSE others[k]
  BY <1>1, <1>2 DEF Leaves, t
<1>4. \A k \in Links : Open(k) => Sound(pending[k]) /\ ~Holds(pending[k], c)
  BY DEF IInv, SessionsSound, HeldOpen, Unstarted
<1>5. \A k \in Links : pending'[k] # None =>
        /\ Sound(pending'[k])
        /\ pending'[k].copy = c \/ (Open(k) /\ pending'[k].copy = pending[k].copy)
        /\ \A x \in Copies : Queued(pending'[k], x) => Open(k) /\ Queued(pending[k], x)
  BY <1>2, <1>3, <1>4 DEF Leaves
<1>6. \A k \in Links, x \in Copies : x # c => (Stays(k, x) <=> Open(k) /\ Holds(pending[k], x))
  <2> SUFFICES ASSUME NEW k \in Links, NEW x \in Copies, x # c
               PROVE  Stays(k, x) <=> Open(k) /\ Holds(pending[k], x)
    OBVIOUS
  <2>1. CASE k = l
    BY <1>1, <1>2, <1>3, <2>1 DEF Stays, Leaves
  <2>2. CASE k # l
    BY <1>3, <2>2 DEF Stays, Leaves
  <2> QED
    BY <2>1, <2>2
<1>7. Stays(l, c) /\ \A k \in Links : Stays(k, c) => k = l
  BY <1>2, <1>3, <1>4 DEF Stays, Leaves
<1>8. /\ DestOf[c] \in Dests /\ None \notin Links
      /\ directLinks \in [Dests -> Links \cup {None}]
  BY Constants DEF IInv, TypeOK
<1>9. directLinks' \in [Dests -> Links \cup {None}]
  BY <1>1, <1>8
<1>10. ASSUME NEW d \in Dests, NEW k \in Links
       PROVE  directLinks'[d] = k <=>
                  pending'[k] # None /\ pending'[k].reusable /\ pending'[k].dest = d
  <2>1. directLinks[d] = k <=> Open(k) /\ pending[k].reusable /\ pending[k].dest = d
    BY DEF IInv, DirectLinksOwned
  <2>2. CASE c \in OneShot
    <3>1. directLinks' = directLinks
      BY <1>1, <2>2
    <3>2. others[k] = pending[k] \/ (~Open(k) /\ others[k] = None)
      BY <2>2 DEF Leaves, Open
    <3>3. k = l => ~Open(k)
      BY <1>1, <2>2 DEF Leaves
    <3> QED
      BY <1>2, <1>3, <2>1, <2>2, <3>1, <3>2, <3>3 DEF Open
  <2>3. CASE c \notin OneShot
    <3>1. directLinks'[d] = IF d = DestOf[c] THEN l ELSE directLinks[d]
      BY <1>1, <1>8, <2>3
    <3>2. CASE d = DestOf[c]
      <4>1. k # l => ~(pending'[k] # None /\ pending'[k].reusable /\ pending'[k].dest = d)
        BY <1>3, <2>1, <2>3, <3>2 DEF Leaves, Open
      <4> QED
        BY <1>2, <1>3, <2>3, <3>1, <3>2, <4>1
    <3>3. CASE d # DestOf[c]
      <4>1. k = l => directLinks[d] # k
        <5>1. SUFFICES ASSUME k = l, directLinks[d] = l PROVE FALSE
          OBVIOUS
        <5>2. Open(l) /\ pending[l].dest = d /\ others[l] = None
          BY <1>1, <2>1, <5>1
        <5>3. directLinks[DestOf[c]] = l
          BY <5>2 DEF Leaves
        <5>4. pending[l].dest = DestOf[c]
          BY <1>8, <5>3 DEF IInv, DirectLinksOwned
        <5> QED
          BY <3>3, <5>2, <5>4
      <4>2. k # l => others[k] = pending[k] \/ (directLinks[d] # k /\ others[k] = None)
        <5>1. SUFFICES ASSUME Open(k), others[k] = None PROVE directLinks[d] # k
          BY DEF Leaves, Open
        <5>2. directLinks[DestOf[c]] = k
          BY <5>1 DEF Leaves
        <5>3. pending[k].dest = DestOf[c]
          BY <1>8, <5>2 DEF IInv, DirectLinksOwned
        <5> QED
          BY <2>1, <3>3, <5>3
      <4>3. k # l /\ others[k] = None => directLinks[d] # k
        BY <2>1, <4>2 DEF Open
      <4> QED
        BY <1>2, <1>3, <2>1, <3>1, <3>3, <4>1, <4>2, <4>3 DEF Open
    <3> QED
      BY <3>2, <3>3
  <2> QED
    BY <2>2, <2>3
<1>11. DirectLinksOwned'
  BY <1>10 DEF DirectLinksOwned, Open
<1> QED
  BY <1>3, <1>5, <1>6, <1>7, <1>9, <1>11 DEF StartStep, OpenLink

Appended(s, c) == [s EXCEPT !.queued = Append(@, c)]

LEMMA AppendSound ==
    ASSUME NEW s, Sound(s), s.reusable, NEW c \in Copies, s.copy < c,
           \A i \in DOMAIN s.queued : s.queued[i] < c
    PROVE  LET t == Appended(s, c)
           IN  /\ Sound(t) /\ t.state = s.state
               /\ t.link = s.link /\ t.queued # <<>> /\ t.image = s.image
               /\ t.dest = s.dest /\ t.reusable = s.reusable /\ t.copy = s.copy
               /\ \A x \in Copies : Queued(t, x) <=> Queued(s, x) \/ x = c
<1> DEFINE q == s.queued
           w == Append(q, c)
           t == Appended(s, c)
           u == [s EXCEPT !.queued = w]
<1>0. /\ s \in Session /\ Ordered(s) /\ SessionOK(s) /\ Proven(s) /\ s.copy \in Nat
      /\ s.copy \in Copies /\ c \in Nat /\ 1 <= s.copy
  BY SoundTypes, SessionTypes, Constants DEF Sound
<1>1. /\ q \in Seq(Copies) /\ Len(q) \in Nat /\ DOMAIN q = 1..Len(q)
      /\ \A j \in DOMAIN q : q[j] \in Nat /\ q[j] \in Copies
  <2>1. q \in Seq(Copies)
    BY <1>0, SessionTypes
  <2> QED
    BY <2>1, QueueTypes
<1>2. /\ w \in Seq(Copies) /\ w # <<>> /\ DOMAIN w = 1..(Len(q) + 1) /\ w[Len(q) + 1] = c
      /\ \A i \in DOMAIN q : i \in DOMAIN w /\ w[i] = q[i]
  BY <1>1, QueueAppend
<1>3. t = u
  BY <1>0 DEF Session, Appended
<1> HIDE DEF w, t
<1>4. /\ u \in Session /\ u.queued = w /\ u.copy = s.copy /\ u.image = s.image
      /\ u.dest = s.dest /\ u.reusable = s.reusable /\ u.state = s.state /\ u.link = s.link
      /\ u.transfer = s.transfer /\ u.proof = s.proof
  BY <1>0, <1>2 DEF Session
<1> HIDE DEF u
<1>5. \A j \in DOMAIN q : /\ s.copy < q[j] /\ j < q[j] /\ q[j] < c
                          /\ \A k \in DOMAIN q : j < k => q[j] < q[k]
  BY <1>0 DEF Ordered
<1>6. \A j \in DOMAIN w : (j \in DOMAIN q /\ w[j] = q[j]) \/ (j = Len(q) + 1 /\ w[j] = c)
  BY <1>1, <1>2
<1>7. Len(q) + 1 < c
  <2>1. CASE Len(q) = 0
    BY <1>0, <2>1
  <2>2. CASE Len(q) # 0
    <3>1. Len(q) \in DOMAIN q
      BY <1>1, <2>2
    <3>2. Len(q) < q[Len(q)] /\ q[Len(q)] < c /\ q[Len(q)] \in Nat
      BY <1>1, <1>5, <3>1
    <3> QED
      BY <1>0, <1>1, <3>2
  <2> QED
    BY <2>1, <2>2
<1>8. Ordered(u)
  <2>1. ASSUME NEW j \in DOMAIN w PROVE s.copy < w[j] /\ j < w[j]
    BY <1>5, <1>6, <1>7
  <2>2. ASSUME NEW j \in DOMAIN w, NEW k \in DOMAIN w, j < k PROVE w[j] < w[k]
    <3>1. j \in DOMAIN q /\ w[j] = q[j]
      BY <1>1, <1>2, <1>6, <2>2
    <3> QED
      BY <1>5, <1>6, <2>2, <3>1
  <2> QED
    BY <1>4, <2>1, <2>2 DEF Ordered
<1>9. Sound(u)
  BY <1>0, <1>4, <1>8 DEF Sound, SessionOK, Proven
<1>10. ASSUME NEW x \in Copies PROVE Queued(u, x) <=> Queued(s, x) \/ x = c
  <2>1. Queued(u, x) <=> \E j \in DOMAIN w : w[j] = x
    BY <1>4 DEF Queued
  <2>2. Queued(s, x) <=> \E j \in DOMAIN q : q[j] = x
    BY DEF Queued
  <2>3. Len(q) + 1 \in DOMAIN w
    BY <1>1, <1>2
  <2> QED
    BY <1>2, <1>6, <2>1, <2>2, <2>3
<1> QED
  BY <1>2, <1>3, <1>4, <1>9, <1>10 DEF t

LEMMA UseLinkSteps ==
    ASSUME IInv, NEW c \in Copies, Unstarted(c), NEW l \in Links, directLinks[DestOf[c]] = l,
           UseLink(c, l), UNCHANGED <<exact, panicked, sent, peer>>
    PROVE  StartStep(c)
<1> DEFINE s == pending[l]
           u == Appended(s, c)
           t == IF u.state = "Idle" /\ u.link = "active" THEN StartQueued(u) ELSE u
<1>1. Open(l) /\ s.reusable
  BY Constants DEF IInv, DirectLinksOwned
<1>2. Sound(s) /\ ~Holds(s, c) /\ s \in Session /\ s.copy \in Copies
  BY <1>1, SoundTypes DEF IInv, SessionsSound, HeldOpen, Unstarted
<1>3. \A x \in Copies : outcome[x] # "new" => x < c
  <2> SUFFICES ASSUME NEW x \in Copies, outcome[x] # "new", ~(x < c) PROVE FALSE
    OBVIOUS
  <2>1. x = c \/ c < x
    BY Constants
  <2> QED
    BY <2>1 DEF Unstarted, IInv, StartedInOrder
<1>4. s.copy < c /\ \A i \in DOMAIN s.queued : s.queued[i] < c
  <2>1. s.copy < c
    BY <1>1, <1>2, <1>3 DEF IInv, CurrentStarted
  <2>2. ASSUME NEW i \in DOMAIN s.queued PROVE s.queued[i] < c
    <3>1. s.queued[i] \in Copies /\ Holds(s, s.queued[i])
      BY <1>2, QueuedCopies DEF Holds
    <3> QED
      BY <1>1, <1>3, <3>1 DEF IInv, HeldOpen
  <2> QED
    BY <2>1, <2>2
<1>5. /\ Sound(u) /\ u.state = s.state /\ u.link = s.link /\ u.queued # <<>> /\ u.image = s.image
      /\ u.dest = s.dest /\ u.reusable = s.reusable /\ u.copy = s.copy
      /\ \A x \in Copies : Queued(u, x) <=> Queued(s, x) \/ x = c
  <2> HIDE DEF s
  <2>1. s.reusable /\ Sound(s) /\ s.copy < c /\ \A i \in DOMAIN s.queued : s.queued[i] < c
    BY <1>1, <1>2, <1>4
  <2> QED
    BY <2>1, AppendSound, ZenonT(60)
<1> HIDE DEF u
<1>6. \A x \in Copies : Holds(u, x) <=> Holds(s, x) \/ x = c
  BY <1>5 DEF Holds
<1>7. /\ Sound(t) /\ t # None /\ t.dest = s.dest /\ t.reusable = s.reusable
      /\ t.copy = s.copy \/ t.copy = c \/ Queued(s, t.copy)
      /\ \A x \in Copies : Queued(t, x) => Queued(s, x) \/ x = c
      /\ \A x \in Copies : Holds(t, x) <=> Holds(s, x) \/ x = c
  <2>1. CASE u.state = "Idle" /\ u.link = "active"
    <3>1. /\ u \in Session /\ Ordered(u) /\ ~u.image /\ u.reusable /\ u.queued # <<>>
          /\ u.link # "closed"
      BY <1>1, <1>5, <2>1, SoundTypes DEF Sound, SessionOK
    <3>2. /\ Sound(StartQueued(u)) /\ Carries(u, StartQueued(u))
          /\ \A x \in Copies : Holds(StartQueued(u), x) <=> Queued(u, x)
      BY <3>1, StartQueuedSound
    <3>3. \A x \in Copies : Holds(u, x) <=> Queued(u, x)
      BY <3>1 DEF Holds
    <3>4. StartQueued(u).copy \in Copies /\ StartQueued(u) # None
      BY <3>2, SoundTypes
    <3>5. t = StartQueued(u)
      BY <2>1
    <3> HIDE DEF t
    <3> QED
      BY <1>5, <1>6, <3>2, <3>3, <3>4, <3>5 DEF Carries
  <2>2. CASE ~(u.state = "Idle" /\ u.link = "active")
    BY <1>5, <1>6, <2>2, SoundTypes
  <2> QED
    BY <2>1, <2>2
<1>8. pending' = [pending EXCEPT ![l] = t] /\ directLinks' = directLinks /\ Accepted(c)
  BY DEF UseLink, Appended, u
<1> HIDE DEF t
<1>9. /\ pending' \in [Links -> Session \cup {None}]
      /\ \A k \in Links : pending'[k] = IF k = l THEN t ELSE pending[k]
  BY <1>7, <1>8 DEF IInv, TypeOK, Sound
<1>10. \A k \in Links : pending'[k] # None =>
          /\ Sound(pending'[k])
          /\ \/ pending'[k].copy = c
             \/ Open(k) /\ (pending'[k].copy = pending[k].copy
                            \/ Queued(pending[k], pending'[k].copy))
          /\ \A x \in Copies : Queued(pending'[k], x) => x = c \/ (Open(k) /\ Queued(pending[k], x))
  <2> SUFFICES ASSUME NEW k \in Links, pending'[k] # None
               PROVE  /\ Sound(pending'[k])
                      /\ \/ pending'[k].copy = c
                         \/ Open(k) /\ (pending'[k].copy = pending[k].copy
                                        \/ Queued(pending[k], pending'[k].copy))
                      /\ \A x \in Copies : Queued(pending'[k], x) =>
                             x = c \/ (Open(k) /\ Queued(pending[k], x))
    OBVIOUS
  <2>1. CASE k = l
    BY <1>1, <1>7, <1>9, <2>1
  <2>2. CASE k # l
    BY <1>9, <2>2 DEF IInv, SessionsSound, Open
  <2> QED
    BY <2>1, <2>2
<1>11. \A k \in Links, x \in Copies : x # c => (Stays(k, x) <=> Open(k) /\ Holds(pending[k], x))
  BY <1>1, <1>7, <1>9 DEF Stays, Open
<1>12. Stays(l, c) /\ \A k \in Links : Stays(k, c) => k = l
  BY <1>7, <1>9 DEF Stays, IInv, HeldOpen, Unstarted, Open
<1>13. DirectLinksOwned' /\ directLinks' \in [Dests -> Links \cup {None}]
  <2>1. \A k \in Links : /\ pending'[k] # None <=> Open(k)
                         /\ Open(k) => /\ pending'[k].dest = pending[k].dest
                                       /\ pending'[k].reusable = pending[k].reusable
    BY <1>1, <1>7, <1>9 DEF Open
  <2> QED
    BY <1>8, <2>1 DEF IInv, DirectLinksOwned, TypeOK, Open
<1> QED
  BY <1>8, <1>9, <1>10, <1>11, <1>12, <1>13 DEF StartStep

LEMMA StartSteps ==
    ASSUME IInv, NEW c \in Copies, StartDirect(c) \/ StartPacked(c)
    PROVE  StartStep(c) \/ ManagerStep
<1>1. Unstarted(c) /\ UNCHANGED <<exact, panicked, sent, peer>>
  BY DEF StartDirect, StartPacked
<1>2. DestOf[c] \in Dests /\ None \notin Links /\ directLinks \in [Dests -> Links \cup {None}]
      /\ pending \in [Links -> Session \cup {None}]
  BY Constants DEF IInv, TypeOK
<1>3. CASE StartPacked(c)
  <2>1. Leaves(c, pending)
    BY <1>2, <1>3 DEF Leaves, StartPacked, Open
  <2> QED
    BY <1>1, <1>3, <2>1, OpenLinkSteps DEF StartPacked
<1>4. CASE StartDirect(c) /\ directLinks[DestOf[c]] = None
  <2>1. Leaves(c, pending)
    BY <1>2, <1>4 DEF Leaves, Open
  <2> QED
    BY <1>1, <1>4, <2>1, OpenLinkSteps DEF StartDirect
<1>5. CASE StartDirect(c) /\ directLinks[DestOf[c]] # None
  <2> DEFINE l == directLinks[DestOf[c]]
             others == [pending EXCEPT ![l] = None]
  <2>1. l \in Links /\ (UseLink(c, l) \/ ReplaceLink(c, l)) /\ c \notin OneShot
    BY <1>2, <1>5 DEF StartDirect
  <2>2. CASE UseLink(c, l)
    BY <1>1, <2>1, <2>2, UseLinkSteps
  <2>3. CASE ReplaceLink(c, l)
    <3>1. Open(l)
      BY <1>2, <2>1 DEF IInv, DirectLinksOwned
    <3>2. \A x \in Copies : ~Holds(pending[l], x)
      <4>1. pending[l].state = "Idle" /\ pending[l].queued = <<>>
        BY <2>3 DEF ReplaceLink, Expired
      <4>2. SessionOK(pending[l])
        BY <2>1, <3>1 DEF IInv, SessionsSound, Sound
      <4>3. ~pending[l].image
        BY <4>1, <4>2 DEF SessionOK
      <4>4. DOMAIN pending[l].queued = {}
        BY <4>1
      <4> QED
        BY <4>3, <4>4 DEF Holds, Queued
    <3>3. Leaves(c, others)
      BY <1>2, <2>1, <3>2 DEF Leaves, Open
    <3>4. CASE OpenLink(c, others)
      BY <1>1, <3>3, <3>4, OpenLinkSteps
    <3>5. CASE pending' = others /\ directLinks' = Forget({l}) /\ outcome' = outcome
      <4>1. OneStep(l, None)
        BY <1>1, <3>1, <3>5 DEF OneStep, peer
      <4>2. OneOutcome(l, None)
        BY <3>2, <3>5 DEF OneOutcome, Kept, IInv, TypeOK, Outcomes
      <4> QED
        BY <1>1, <2>1, <4>1, <4>2, OneSession DEF peer, IInv, TypeOK
    <3> QED
      BY <2>3, <3>4, <3>5 DEF ReplaceLink
  <2> QED
    BY <2>1, <2>2, <2>3
<1> QED
  BY <1>3, <1>4, <1>5

-----------------------------------------------------------------------------
(* The invariant.                                                           *)

LEMMA PeerKeeps ==
    ASSUME IInv, Peer
    PROVE  IInv'
<1>1. /\ exact' = exact /\ pending' = pending /\ directLinks' = directLinks
      /\ panicked' = panicked /\ outcome' = outcome /\ sent' = sent
  BY DEF Peer, PeerProves, PeerRefuses, manager
<1>2. got \subseteq got' /\ got' \subseteq sent /\ refused' \subseteq Copies
  BY DEF Peer, PeerProves, PeerRefuses, IInv, TypeOK
<1>3. SessionsSound'
  <2> SUFFICES ASSUME NEW l \in Links, pending[l] # None PROVE Sound(pending[l])'
    BY <1>1 DEF SessionsSound, Open
  <2>1. Sound(pending[l])
    BY DEF IInv, SessionsSound, Open
  <2> QED
    BY <1>1, <1>2, <2>1 DEF Sound, SessionOK, Ordered, Proven, Proved
<1>4. TypeOK'
  BY <1>1, <1>2 DEF IInv, TypeOK
<1>5. CompleteProved'
  BY <1>1, <1>2 DEF IInv, CompleteProved, Proved
<1>6. DirectLinksOwned' /\ StartedInOrder' /\ SentStarted'
  BY <1>1 DEF IInv, DirectLinksOwned, StartedInOrder, SentStarted, Open
<1>7. HeldOpen' /\ OpenHeld' /\ HeldOnce'
  BY <1>1 DEF IInv, HeldOpen, OpenHeld, HeldOnce, Open, Holds, Queued
<1>8. CurrentStarted' /\ QueuedUnsent'
  BY <1>1 DEF IInv, CurrentStarted, QueuedUnsent, Open, Queued
<1> QED
  BY <1>3, <1>4, <1>5, <1>6, <1>7, <1>8 DEF IInv

LEMMA StutterKeeps ==
    ASSUME IInv, UNCHANGED vars
    PROVE  IInv'
<1>1. /\ exact' = exact /\ pending' = pending /\ directLinks' = directLinks
      /\ panicked' = panicked /\ outcome' = outcome /\ sent' = sent
      /\ got' = got /\ refused' = refused
  BY DEF vars, manager, peer
<1>2. SessionsSound'
  BY <1>1 DEF IInv, SessionsSound, Open, Sound, SessionOK, Ordered, Proven, Proved
<1>3. TypeOK' /\ CompleteProved' /\ DirectLinksOwned' /\ StartedInOrder' /\ SentStarted'
  BY <1>1 DEF IInv, TypeOK, CompleteProved, Proved, DirectLinksOwned, StartedInOrder, SentStarted, Open
<1>4. HeldOpen' /\ OpenHeld' /\ HeldOnce'
  BY <1>1 DEF IInv, HeldOpen, OpenHeld, HeldOnce, Open, Holds, Queued
<1>5. CurrentStarted' /\ QueuedUnsent'
  BY <1>1 DEF IInv, CurrentStarted, QueuedUnsent, Open, Queued
<1> QED
  BY <1>2, <1>3, <1>4, <1>5 DEF IInv

LEMMA NextCases ==
    ASSUME IInv, Next
    PROVE  ManagerStep \/ (\E c \in Copies : StartStep(c)) \/ Peer
<1>1. CASE Tick \/ TransportClosed
  BY <1>1, TickSteps
<1>2. ASSUME NEW c \in Copies, StartDirect(c) \/ StartPacked(c)
      PROVE  ManagerStep \/ \E x \in Copies : StartStep(x)
  BY <1>2, StartSteps
<1>3. ASSUME NEW m \in Messages, Cancel(m) \/ FailDelivery(m) PROVE ManagerStep
  BY <1>3, CancelSteps, FailDeliverySteps
<1>4. ASSUME NEW l \in Links, Answers(l) \/ Hearing(l) PROVE ManagerStep
  BY <1>4, AnswersSteps, HearingSteps
<1> QED
  BY <1>1, <1>2, <1>3, <1>4 DEF Next, Embedder

LEMMA InitInvariant == Init => IInv
<1> SUFFICES ASSUME Init PROVE IInv
  OBVIOUS
<1>1. \A l \in Links : ~Open(l)
  BY DEF Init, Open
<1>2. TypeOK
  BY DEF Init, TypeOK
<1>3. DirectLinksOwned
  BY <1>1, Constants DEF Init, DirectLinksOwned
<1>4. SessionsSound /\ HeldOpen /\ HeldOnce /\ CurrentStarted /\ QueuedUnsent
  BY <1>1 DEF SessionsSound, HeldOpen, HeldOnce, CurrentStarted, QueuedUnsent
<1>5. CompleteProved /\ OpenHeld /\ StartedInOrder /\ SentStarted
  BY DEF Init, CompleteProved, OpenHeld, StartedInOrder, SentStarted
<1> QED
  BY <1>2, <1>3, <1>4, <1>5 DEF IInv

LEMMA StepInvariant == IInv /\ [Next]_vars => IInv'
<1> SUFFICES ASSUME IInv, [Next]_vars PROVE IInv'
  OBVIOUS
<1>1. CASE Next
  BY <1>1, NextCases, ManagerKeeps, StartKeeps, PeerKeeps
<1>2. CASE UNCHANGED vars
  BY <1>2, StutterKeeps
<1> QED
  BY <1>1, <1>2

LEMMA Invariant == Spec => []IInv
<1>1. Init => IInv
  BY InitInvariant
<1>2. IInv /\ [Next]_vars => IInv'
  BY StepInvariant
<1> QED
  BY <1>1, <1>2, PTL DEF Spec

(* Every variable of LinkDeliveryManager keeps its type, whatever comes in  *)
(* which order: above all, a session keeps its payload slot, its queue and  *)
(* its segment counter in range, and nothing is proved that was not sent.   *)
THEOREM LinkTypes == Spec => []TypeOK
<1>1. IInv => TypeOK
  BY DEF IInv
<1> QED
  BY <1>1, Invariant, PTL

(* direct_links names the one kept session of each destination, after every *)
(* start, tick, cancel and fail (start_delivery_inner, remove_pending).     *)
THEOREM LinksOwned == Spec => []DirectLinksOwned
<1>1. IInv => DirectLinksOwned
  BY DEF IInv
<1> QED
  BY <1>1, Invariant, PTL

-----------------------------------------------------------------------------
(* The order of the copies.                                                 *)

LEMMA PlaceOf ==
    ASSUME IInv, NEW c \in Copies, NEW l \in Links, Open(l), Holds(pending[l], c)
    PROVE  \E place : Places(c) = {place}
<1> DEFINE s == pending[l]
<1>1. Sound(s) /\ s \in Session /\ Ordered(s) /\ s.copy \in Nat /\ s.queued \in Seq(Copies)
  BY SoundTypes, SessionTypes DEF IInv, SessionsSound
<1>2. \A i \in DOMAIN s.queued : i \in 1..N /\ s.copy < s.queued[i] /\ s.queued[i] \in Nat
  <2> SUFFICES ASSUME NEW i \in DOMAIN s.queued
               PROVE  i \in 1..N /\ s.copy < s.queued[i] /\ s.queued[i] \in Nat
    OBVIOUS
  <2>1. s.queued[i] \in Copies /\ i \in Nat /\ i >= 1 /\ i < s.queued[i] /\ s.copy < s.queued[i]
    BY <1>1, QueueTypes DEF Ordered
  <2>2. s.queued[i] \in Nat /\ s.queued[i] <= N /\ N \in Nat
    BY <2>1, Constants
  <2> QED
    BY <2>1, <2>2
<1>3. N \in Nat
  BY Constants
<1> DEFINE at(i) == IF i = 0 THEN s.copy = c /\ s.image
                    ELSE i \in DOMAIN s.queued /\ s.queued[i] = c
<1>4. PICK i \in 0..N : at(i)
  <2>1. CASE s.image /\ s.copy = c
    <3>1. 0 \in 0..N /\ at(0)
      BY <1>3, <2>1
    <3> QED
      BY <3>1
  <2>2. CASE Queued(s, c)
    <3>1. PICK i \in DOMAIN s.queued : s.queued[i] = c
      BY <2>2 DEF Queued
    <3>2. i \in 0..N /\ i # 0
      BY <1>2, <1>3
    <3> QED
      BY <3>1, <3>2
  <2> QED
    BY <2>1, <2>2 DEF Holds
<1>5. \A j \in 0..N : at(j) => j = i
  <2> SUFFICES ASSUME NEW j \in 0..N, at(j), j # i PROVE FALSE
    OBVIOUS
  <2>1. CASE i = 0 \/ j = 0
    BY <1>1, <1>2, <1>4, <2>1
  <2>2. CASE i # 0 /\ j # 0
    <3>1. i \in DOMAIN s.queued /\ j \in DOMAIN s.queued /\ s.queued[i] = c /\ s.queued[j] = c
      BY <1>4, <2>2
    <3>2. i < j \/ j < i
      OBVIOUS
    <3>3. c < c
      BY <1>1, <3>1, <3>2 DEF Ordered
    <3>4. c \in Nat
      BY Constants
    <3> QED
      BY <3>3, <3>4
  <2> QED
    BY <2>1, <2>2
<1>6. \A k \in Links : Open(k) /\ Holds(pending[k], c) => k = l
  BY DEF IInv, HeldOnce
<1>7. ASSUME NEW place \in Places(c) PROVE place = <<l, i>>
  <2> DEFINE k == place[1]
             j == place[2]
  <2>1. /\ k \in Links /\ j \in 0..N /\ place = <<k, j>> /\ Open(k)
        /\ IF j = 0 THEN pending[k].copy = c /\ pending[k].image
           ELSE j \in DOMAIN pending[k].queued /\ pending[k].queued[j] = c
    BY DEF Places
  <2>2. Holds(pending[k], c)
    BY <2>1 DEF Holds, Queued
  <2>3. k = l
    BY <1>6, <2>1, <2>2
  <2>4. j = i
    BY <1>5, <2>1, <2>3
  <2> QED
    BY <2>1, <2>3, <2>4
<1>8. <<l, i>> \in Places(c)
  BY <1>4 DEF Places
<1>9. Places(c) = {<<l, i>>}
  BY <1>7, <1>8
<1> QED
  BY <1>9

LEMMA NoPlace ==
    ASSUME NEW c \in Copies, \A l \in Links : Open(l) => ~Holds(pending[l], c)
    PROVE  Places(c) = {}
<1> SUFFICES ASSUME NEW place \in Places(c) PROVE FALSE
  OBVIOUS
<1> DEFINE k == place[1]
           j == place[2]
<1>1. /\ k \in Links /\ Open(k)
      /\ IF j = 0 THEN pending[k].copy = c /\ pending[k].image
         ELSE j \in DOMAIN pending[k].queued /\ pending[k].queued[j] = c
  BY DEF Places
<1> QED
  BY <1>1 DEF Holds, Queued

LEMMA InOrder == IInv => CopiesInOrder
<1> SUFFICES ASSUME IInv PROVE CopiesInOrder
  OBVIOUS
<1>1. ASSUME NEW c \in Copies
      PROVE  Cardinality(Places(c)) = IF outcome[c] = "open" THEN 1 ELSE 0
  <2>1. CASE outcome[c] = "open"
    <3>1. PICK l \in Links : Open(l) /\ Holds(pending[l], c)
      BY <2>1 DEF IInv, OpenHeld
    <3>2. PICK place : Places(c) = {place}
      BY <3>1, PlaceOf
    <3> QED
      BY <2>1, <3>2, FS_Singleton
  <2>2. CASE outcome[c] # "open"
    <3>1. Places(c) = {}
      BY <2>2, NoPlace DEF IInv, HeldOpen
    <3> QED
      BY <2>2, <3>1, FS_EmptySet
  <2> QED
    BY <2>1, <2>2
<1>2. ASSUME NEW l \in Links, Open(l), NEW i \in DOMAIN pending[l].queued
      PROVE  LET q == pending[l].queued
             IN  /\ pending[l].copy < q[i]
                 /\ \A j \in DOMAIN q : i < j => q[i] < q[j]
                 /\ \A k \in Segments(q[i]) : <<q[i], k>> \notin sent
  <2>1. Ordered(pending[l])
    BY <1>2, SoundTypes DEF IInv, SessionsSound
  <2>2. ASSUME NEW k, <<pending[l].queued[i], k>> \in sent PROVE FALSE
    <3> DEFINE p == <<pending[l].queued[i], k>>
    <3>1. p \in sent /\ p[1] = pending[l].queued[i]
      BY <2>2
    <3>2. Queued(pending[l], p[1])
      BY <3>1 DEF Queued
    <3> HIDE DEF p
    <3> QED
      BY <1>2, <3>1, <3>2 DEF IInv, QueuedUnsent
  <2> QED
    BY <2>1, <2>2 DEF Ordered
<1> QED
  BY <1>1, <1>2 DEF CopiesInOrder

(* No copy is lost, doubled or overtaken: an open copy is in one place of   *)
(* one session, a settled one in none, and what is queued is behind the     *)
(* current copy, in the order of the starts, with nothing of it sent        *)
(* (take_current_delivery_message, cancel_delivery_by_message_hash,         *)
(* fail_delivery_by_message_hash, queue_delivery, start_queued_delivery).   *)
THEOREM CopiesKeepTheirOrder == Spec => []CopiesInOrder
<1>1. IInv => CopiesInOrder
  BY InOrder
<1> QED
  BY <1>1, Invariant, PTL

-----------------------------------------------------------------------------
(* What becomes of a queue.                                                 *)

LEMMA StillTold ==
    ASSUME TypeOK, Next,
           ~\E m \in Messages, l \in Links : Open(l) /\ CancelCurrent(l, m)
    PROVE  \A c \in Copies : outcome'[c] = "discarded" => outcome[c] = "discarded"
<1>1. ASSUME NEW r, TickEach(r)
      PROVE  \A c \in Copies : outcome'[c] = "discarded" => outcome[c] = "discarded"
  BY <1>1, ReportMeans DEF TickEach, Kinds
<1>2. CASE Tick \/ TransportClosed
  BY <1>1, <1>2 DEF Tick, TickWith, TransportClosed
<1>3. ASSUME NEW d \in Copies, StartDirect(d) \/ StartPacked(d)
      PROVE  \A c \in Copies : outcome'[c] = "discarded" => outcome[c] = "discarded"
  BY <1>3 DEF StartDirect, StartPacked, UseLink, ReplaceLink, OpenLink, Accepted, TypeOK
<1>4. ASSUME NEW m \in Messages, Cancel(m)
      PROVE  \A c \in Copies : outcome'[c] = "discarded" => outcome[c] = "discarded"
  BY <1>4 DEF Cancel, CancelQueued, Replace, Mark
<1>5. ASSUME NEW m \in Messages, FailDelivery(m)
      PROVE  \A c \in Copies : outcome'[c] = "discarded" => outcome[c] = "discarded"
  <2>1. PICK l \in Links : Open(l) /\ (FailCurrent(l, m) \/ FailQueued(l, m))
    BY <1>5 DEF FailDelivery
  <2>2. CASE FailCurrent(l, m)
    BY <2>2, ReportMeans DEF FailCurrent, Kinds
  <2>3. CASE FailQueued(l, m)
    BY <2>3 DEF FailQueued, Replace, Mark
  <2> QED
    BY <2>1, <2>2, <2>3
<1>6. ASSUME NEW l \in Links, Answers(l) PROVE outcome' = outcome
  BY <1>6 DEF Answers, LinkRequestAnswered, LinkProof, EndpointBound, SendAnswered,
              PacketDispatched, EndpointTerminated, Becomes
<1>7. ASSUME NEW l \in Links, Hearing(l) PROVE outcome' = outcome
  BY <1>7 DEF Hearing, PacketProof, ResourceProof, ResourceReject, ResourceRequest,
              InboundPacket, Keepalive, LinkClosed, Becomes
<1>8. CASE Peer
  BY <1>8 DEF Peer, PeerProves, PeerRefuses
<1> QED
  BY <1>2, <1>3, <1>4, <1>5, <1>6, <1>7, <1>8 DEF Next, Embedder

Useless(s) == s.state # "Establishing" /\ ~(s.link = "active" /\ s.attached)

LEMMA FollowersStep ==
    ASSUME IInv, [Next]_vars
    PROVE  \A l \in Links : Open(l) =>
              LET s == pending[l]
              IN  (\E i \in DOMAIN s.queued : outcome'[s.queued[i]] = "discarded") => Useless(s)
<1> SUFFICES ASSUME NEW l \in Links, Open(l), NEW i \in DOMAIN pending[l].queued,
                    outcome'[pending[l].queued[i]] = "discarded"
             PROVE  Useless(pending[l])
  OBVIOUS
<1> DEFINE s == pending[l]
           c == s.queued[i]
<1>1. Sound(s) /\ s \in Session /\ SessionOK(s) /\ s.queued # <<>> /\ s.reusable
  <2>1. Sound(s)
    BY DEF IInv, SessionsSound
  <2>2. s \in Session /\ SessionOK(s) /\ s.queued \in Seq(Copies)
    BY <2>1, SessionTypes DEF Sound
  <2>3. s.queued # <<>>
    BY <2>2
  <2> QED
    BY <2>1, <2>2, <2>3 DEF SessionOK
<1>2. c \in Copies /\ Holds(s, c) /\ outcome[c] = "open"
  BY <1>1, QueuedCopies DEF Holds, IInv, HeldOpen
<1>3. CASE \E m \in Messages, k \in Links : Open(k) /\ CancelCurrent(k, m)
  <2>1. PICK m \in Messages, k \in Links : Open(k) /\ CancelCurrent(k, m)
    BY <1>3
  <2> DEFINE u == pending[k]
  <2>2. ~(u.state = "Establishing" /\ u.reusable /\ u.queued # <<>>)
    BY <1>2, <2>1 DEF CancelCurrent, Replace, Mark
  <2>3. ~(u.reusable /\ u.link = "active" /\ u.attached) /\ Remove(k)
    BY <1>2, <2>1, <2>2 DEF CancelCurrent, Replace, Mark
  <2>4. \E j \in DOMAIN u.queued : u.queued[j] = c
    BY <1>2, <2>3 DEF Remove
  <2>5. Holds(u, c)
    BY <2>4 DEF Holds, Queued
  <2>6. k = l
    BY <1>2, <2>1, <2>5 DEF IInv, HeldOnce
  <2> QED
    BY <1>1, <2>2, <2>3, <2>6 DEF Useless
<1>4. CASE Next /\ ~\E m \in Messages, k \in Links : Open(k) /\ CancelCurrent(k, m)
  BY <1>2, <1>4, StillTold DEF IInv
<1>5. CASE UNCHANGED vars
  BY <1>2, <1>5 DEF vars
<1> QED
  BY <1>3, <1>4, <1>5

(* A cancel (cancel_delivery_by_message_hash) takes the queue along without *)
(* reports only from a Link that is neither waited for nor in use.          *)
THEOREM CancelKeepsFollowers == Spec => FollowersKept
<1>1. IInv /\ [Next]_vars =>
        \A l \in Links : Open(l) =>
          LET s == pending[l]
          IN  (\E i \in DOMAIN s.queued : outcome'[s.queued[i]] = "discarded")
              => s.state # "Establishing" /\ ~(s.link = "active" /\ s.attached)
  BY FollowersStep DEF Useless
<1> QED
  BY <1>1, Invariant, PTL DEF Spec, FollowersKept

-----------------------------------------------------------------------------
(* The promise of Settlement.                                               *)

LEMMA ReceivedIs == \A c \in Copies : c \in Received <=> Proved(c)
BY DEF Received, Proved

LEMMA InitPromise == Init => Promise!SInit
<1> SUFFICES ASSUME Init PROVE Promise!SInit
  OBVIOUS
<1>1. \A c \in Copies : ~Proved(c)
  BY SegmentTypes DEF Init, Proved
<1>2. Received = {}
  BY <1>1, ReceivedIs DEF Received
<1> QED
  BY <1>2 DEF Promise!SInit, Init

LEMMA StepPromise ==
    ASSUME IInv, [Next]_vars
    PROVE  [Promise!SNext]_<<outcome, Received>>
<1>0. IInv'
  BY StepInvariant
<1>1. got' = got => Received' = Received
  BY DEF Received
<1>2. CASE ManagerStep
  <2>1. outcome' \in [Copies -> {"new", "open"} \cup Promise!Settled] /\ got' = got
    BY <1>2 DEF ManagerStep, SessionsStep, OutcomesStep, Outcomes, Promise!Settled
  <2>2. \A c \in Copies : outcome'[c] # outcome[c] =>
            outcome[c] = "open" /\ outcome'[c] \in Promise!Settled
    BY <1>2, StepOutcomes DEF IInv, ManagerStep, Endings, Outcomes, Promise!Settled
  <2>3. \A c \in Copies : outcome'[c] = "complete" => c \in Received
    BY <1>0, <1>1, <2>1, ReceivedIs DEF IInv, CompleteProved, Proved, Received
  <2>4. Promise!Settle
    BY <2>1, <2>2, <2>3 DEF Promise!Settle
  <2> QED
    BY <1>1, <2>1, <2>4 DEF Promise!SNext
<1>3. ASSUME NEW c \in Copies, StartStep(c) PROVE [Promise!SNext]_<<outcome, Received>>
  <2>1. Promise!Accept(c) /\ got' = got
    BY <1>3 DEF StartStep, Unstarted, Accepted, Promise!Accept, peer
  <2> QED
    BY <1>1, <2>1 DEF Promise!SNext
<1>4. CASE Peer
  <2>1. outcome' = outcome
    BY <1>4 DEF Peer, PeerProves, PeerRefuses
  <2>2. CASE \E part \in Parts : PeerProves(part[1], part[2])
    <3>1. PICK part \in Parts : PeerProves(part[1], part[2])
      BY <2>2
    <3> DEFINE c == part[1]
               k == part[2]
    <3>2. c \in Copies /\ part = <<c, k>> /\ part \in sent /\ got' = got \cup {part}
      BY <3>1, PartElim DEF PeerProves
    <3>3. outcome[c] # "new"
      BY <3>2 DEF IInv, SentStarted
    <3>4. \A x \in Copies : \A j : <<x, j>> \in got' => <<x, j>> \in got \/ x = c
      BY <3>2
    <3>5. \A x \in Copies : /\ x \in Received => x \in Received'
                            /\ x \in Received' => x \in Received \/ x = c
      BY <3>2, <3>4 DEF Received
    <3>6. Received' = Received \/ Received' = Received \cup {c}
      BY <3>2, <3>5 DEF Received
    <3>7. CASE Received' = Received
      BY <2>1, <3>7
    <3>8. CASE Received' = Received \cup {c}
      <4>1. Promise!Receive(c)
        BY <3>3, <3>8 DEF Promise!Receive
      <4> QED
        BY <2>1, <3>2, <4>1 DEF Promise!SNext
    <3> QED
      BY <3>6, <3>7, <3>8
  <2>3. CASE \E c \in Copies : PeerRefuses(c)
    BY <1>1, <2>1, <2>3 DEF PeerRefuses
  <2> QED
    BY <1>4, <2>2, <2>3 DEF Peer
<1>5. CASE UNCHANGED vars
  BY <1>1, <1>5 DEF vars, peer
<1> QED
  BY <1>2, <1>3, <1>4, <1>5, NextCases

(* LinkDeliveryManager keeps the promise of Settlement: a copy that was     *)
(* accepted is settled once (finish_reusable_delivery, fail_, cancel_ and   *)
(* tick), and reported complete only when the recipient proved all of it    *)
(* (handle_link_packet_proof, handle_resource_proof).                       *)
THEOREM PromiseKept == Spec => ImplementsSettlement
<1>1. Init => Promise!SInit
  BY InitPromise
<1>2. IInv /\ [Next]_vars => [Promise!SNext]_<<outcome, Received>>
  BY StepPromise
<1> QED
  BY <1>1, <1>2, Invariant, PTL DEF Spec, ImplementsSettlement, Promise!SettlementSpec
===============================================================================
