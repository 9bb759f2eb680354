---------------------------- MODULE Inbound_proofs ----------------------------
(***************************************************************************)
(* Machine-checked proofs about the two parts that follow Resources coming *)
(* in: InboundResource, on one Direct Link, for any Resources of any number *)
(* of parts and up to three segments, however large; and InboundTracker,    *)
(* for any Resources on any Links and channels of any capacity.             *)
(***************************************************************************)
EXTENDS InboundResource, InboundTracker, SequenceTheorems, FiniteSetTheorems, TLAPS

-----------------------------------------------------------------------------
(* InboundResource: the inductive invariant.  InboundAccounted is not       *)
(* inductive: what it says of a live Resource rests on which segment is     *)
(* under way, where it is registered, and which segments came before it.    *)

(* A segment is received for the lifecycle that expects it, not waited for, *)
(* and registered in every table of the session.                            *)
OneSegment(i) ==
    \A s \in Segment :
        /\ i.transfers[s] # NoTransfer => i.lifecycles[s[1]] = [next |-> s[2], deadline |-> FALSE]
        /\ s \in i.tracked <=> i.transfers[s] # NoTransfer
        /\ s \in i.routes <=> i.transfers[s] # NoTransfer /\ Split(s[1])

(* A lifecycle without a deadline has its segment under way.                *)
UnderWay(i) ==
    \A r \in FromPeer :
        i.lifecycles[r] # NoLifecycle /\ ~i.lifecycles[r].deadline =>
            \E s \in Segment : s[1] = r /\ i.transfers[s] # NoTransfer

(* The segments kept are those before the one expected, and proved.         *)
KeptProved(i, done) ==
    \A r \in FromPeer :
        /\ i.lifecycles[r] = NoLifecycle => i.splits[r] = {}
        /\ \A k \in i.splits[r] : k < i.lifecycles[r].next /\ <<r, k>> \in done
        /\ i.lifecycles[r] # NoLifecycle => i.lifecycles[r].next # 0

OneLive(i) ==
    \A r, o \in FromPeer :
        i.lifecycles[r] # NoLifecycle /\ i.lifecycles[o] # NoLifecycle => r = o

Held(i, memory) == \A r \in memory : i.lifecycles[r] # NoLifecycle

GivenProved == \A r \in given : \A s \in Segment : s[1] = r => s \in proven

SessionInv(i, done) ==
    /\ i \in Session
    /\ OneSegment(i) /\ UnderWay(i) /\ KeptProved(i, done) /\ OneLive(i)

InboundInv ==
    /\ InboundTypeOK
    /\ SessionInv(inbound, proven)
    /\ Held(inbound, reserved \ stranded)
    /\ GivenProved

-----------------------------------------------------------------------------
(* Segments.                                                                *)

LEMMA SegmentFields ==
    ASSUME NEW s \in Segment
    PROVE  /\ s[1] \in FromPeer /\ s[2] \in 1..3 /\ s[2] <= SegmentsOf[s[1]]
           /\ s = <<s[1], s[2]>>
  BY DEF Segment

LEMMA FirstSegment ==
    ASSUME NEW r \in FromPeer
    PROVE  <<r, 1>> \in Segment
  BY FromPeerAssumption DEF Segment

(* A Resource that is not split has one segment.                            *)
LEMMA OnlySegment ==
    ASSUME NEW s \in Segment, NEW t \in Segment, s[1] = t[1],
           s[2] = t[2] \/ ~Split(s[1])
    PROVE  s = t
  BY SegmentFields, FromPeerAssumption DEF Split, Segment

-----------------------------------------------------------------------------
(* What drop_inbound_resource and the acceptance of a segment leave of a    *)
(* session.                                                                 *)

LEMMA SessionWith ==
    ASSUME NEW i \in Session,
           NEW T \in [Segment -> 0 .. NoTransfer],
           NEW R \in SUBSET Segment, NEW K \in SUBSET Segment,
           NEW S \in [FromPeer -> SUBSET (1..3)],
           NEW L \in [FromPeer -> [next: 0..4, deadline: BOOLEAN]]
    PROVE  [i EXCEPT !.transfers = T, !.routes = R, !.tracked = K, !.splits = S,
                     !.lifecycles = L] \in Session
  BY DEF Session

Gone(i, s) ==
    LET routed == {t \in i.routes : t[1] = s[1]} IN IF routed = {} THEN {s} ELSE routed

LEMMA DroppedFields ==
    ASSUME NEW i \in Session, NEW s \in Segment
    PROVE  /\ Dropped(i, s) \in Session
           /\ \A t \in Segment : Dropped(i, s).transfers[t] =
                 IF t \in Gone(i, s) THEN NoTransfer ELSE i.transfers[t]
           /\ Dropped(i, s).routes = i.routes \ Gone(i, s)
           /\ Dropped(i, s).tracked = i.tracked \ Gone(i, s)
           /\ Dropped(i, s).splits = [i.splits EXCEPT ![s[1]] = {}]
           /\ Dropped(i, s).lifecycles = [i.lifecycles EXCEPT ![s[1]] = NoLifecycle]
  <1>1. NoTransfer \in 0 .. NoTransfer /\ NoLifecycle \in [next: 0..4, deadline: BOOLEAN]
    BY FromPeerAssumption DEF NoTransfer, NoLifecycle
  <1>2. s[1] \in FromPeer
    BY SegmentFields
  <1>. DEFINE gone == Gone(i, s)
  <1>3. gone \subseteq Segment
    BY DEF Session, Gone
  <1>. DEFINE j == [i EXCEPT !.transfers = [t \in Segment |-> IF t \in gone THEN NoTransfer ELSE @[t]],
                  !.routes = @ \ gone, !.tracked = @ \ gone,
                  !.splits[s[1]] = {}, !.lifecycles[s[1]] = NoLifecycle]
  <1>4. Dropped(i, s) = j
    BY DEF Dropped, Gone
  <1>5. /\ j.transfers = [t \in Segment |-> IF t \in gone THEN NoTransfer ELSE i.transfers[t]]
        /\ j.routes = i.routes \ gone
        /\ j.tracked = i.tracked \ gone
        /\ j.splits = [i.splits EXCEPT ![s[1]] = {}]
        /\ j.lifecycles = [i.lifecycles EXCEPT ![s[1]] = NoLifecycle]
    BY DEF Session
  <1>. DEFINE T == [t \in Segment |-> IF t \in gone THEN NoTransfer ELSE i.transfers[t]]
              R == i.routes \ gone
              K == i.tracked \ gone
              S == [i.splits EXCEPT ![s[1]] = {}]
              L == [i.lifecycles EXCEPT ![s[1]] = NoLifecycle]
  <1>6. /\ T \in [Segment -> 0 .. NoTransfer]
        /\ R \in SUBSET Segment /\ K \in SUBSET Segment
        /\ S \in [FromPeer -> SUBSET (1..3)]
        /\ L \in [FromPeer -> [next: 0..4, deadline: BOOLEAN]]
    <2>. HIDE DEF NoLifecycle, NoTransfer
    <2>. QED
      BY <1>1, <1>2, <1>3 DEF Session
  <1>7. j = [i EXCEPT !.transfers = T, !.routes = R, !.tracked = K, !.splits = S,
                      !.lifecycles = L]
    OBVIOUS
  <1>8. j \in Session
    <2>. HIDE DEF j, T, R, K, S, L
    <2>. QED
      BY <1>6, <1>7, SessionWith
  <1>. QED
    BY <1>4, <1>5, <1>8

(* Of a Resource that is dropped nothing is left, whatever segment is named *)
(* where it was live.                                                       *)
LEMMA DroppedInv ==
    ASSUME NEW i, NEW done, SessionInv(i, done), NEW s \in Segment
    PROVE  /\ SessionInv(Dropped(i, s), done)
           /\ Dropped(i, s).lifecycles = [i.lifecycles EXCEPT ![s[1]] = NoLifecycle]
  <1>. DEFINE routed == {t \in i.routes : t[1] = s[1]}
              gone == IF routed = {} THEN {s} ELSE routed
              j == Dropped(i, s)
  <1>1. i \in Session
    BY DEF SessionInv
  <1>2. /\ j \in Session
        /\ \A t \in Segment : j.transfers[t] = IF t \in gone THEN NoTransfer ELSE i.transfers[t]
        /\ j.routes = i.routes \ gone
        /\ j.tracked = i.tracked \ gone
        /\ j.splits = [i.splits EXCEPT ![s[1]] = {}]
        /\ j.lifecycles = [i.lifecycles EXCEPT ![s[1]] = NoLifecycle]
    BY <1>1, DroppedFields DEF Gone
  <1>3. s[1] \in FromPeer
    BY SegmentFields
  <1>4. /\ i.lifecycles \in [FromPeer -> [next: 0..4, deadline: BOOLEAN]]
        /\ i.splits \in [FromPeer -> SUBSET (1..3)]
        /\ i.routes \subseteq Segment /\ i.tracked \subseteq Segment
    BY <1>1 DEF Session
  <1>5. \A t \in Segment : t \in gone => t[1] = s[1]
    OBVIOUS
  <1>6. \A t \in Segment : t[1] = s[1] /\ i.transfers[t] # NoTransfer => t \in gone
    <2>. SUFFICES ASSUME NEW t \in Segment, t[1] = s[1], i.transfers[t] # NoTransfer
                  PROVE  t \in gone
      OBVIOUS
    <2>1. CASE Split(t[1])
      BY <2>1 DEF SessionInv, OneSegment
    <2>2. CASE ~Split(t[1])
      <3>1. t = s
        BY <2>2, OnlySegment
      <3>2. \A u \in Segment : u \in i.routes => Split(u[1])
        BY DEF SessionInv, OneSegment
      <3>3. routed = {}
        BY <1>4, <2>2, <3>2
      <3>. QED
        BY <3>1, <3>3
    <2>. QED
      BY <2>1, <2>2
  <1>. HIDE DEF j, gone
  <1>7. OneSegment(j)
    <2>. SUFFICES ASSUME NEW t \in Segment
                  PROVE  /\ j.transfers[t] # NoTransfer =>
                               j.lifecycles[t[1]] = [next |-> t[2], deadline |-> FALSE]
                         /\ t \in j.tracked <=> j.transfers[t] # NoTransfer
                         /\ t \in j.routes <=> j.transfers[t] # NoTransfer /\ Split(t[1])
      BY DEF OneSegment
    <2>1. /\ i.transfers[t] # NoTransfer =>
               i.lifecycles[t[1]] = [next |-> t[2], deadline |-> FALSE]
          /\ t \in i.tracked <=> i.transfers[t] # NoTransfer
          /\ t \in i.routes <=> i.transfers[t] # NoTransfer /\ Split(t[1])
      BY DEF SessionInv, OneSegment
    <2>2. t[1] \in FromPeer
      BY SegmentFields
    <2>3. CASE t \in gone
      BY <1>2, <2>3
    <2>4. CASE t \notin gone
      BY <1>2, <1>3, <1>4, <1>6, <2>1, <2>2, <2>4
    <2>. QED
      BY <2>3, <2>4
  <1>8. UnderWay(j)
    BY <1>2, <1>3, <1>4, <1>5 DEF SessionInv, UnderWay
  <1>9. KeptProved(j, done)
    BY <1>2, <1>3, <1>4 DEF SessionInv, KeptProved
  <1>10. OneLive(j)
    BY <1>2, <1>3, <1>4 DEF SessionInv, OneLive
  <1>. QED
    BY <1>2, <1>7, <1>8, <1>9, <1>10 DEF SessionInv, j

LEMMA AcceptedInv ==
    ASSUME NEW done, SessionInv(inbound, done), NEW s \in Segment,
           Expected(s), ~Competing(s[1]), ~Receiving(s)
    PROVE  /\ SessionInv(Accepted(s), done)
           /\ Accepted(s).lifecycles =
                [inbound.lifecycles EXCEPT ![s[1]] = [next |-> s[2], deadline |-> FALSE]]
  <1>. DEFINE i == inbound
              j == Accepted(s)
              entry == [next |-> s[2], deadline |-> FALSE]
  <1>1. i \in Session
    BY DEF SessionInv
  <1>2. s[1] \in FromPeer /\ s[2] \in 1..3
    BY SegmentFields
  <1>3. /\ j.transfers = [i.transfers EXCEPT ![s] = 0]
        /\ j.routes = IF Split(s[1]) THEN i.routes \cup {s} ELSE i.routes
        /\ j.tracked = i.tracked \cup {s}
        /\ j.splits = i.splits
        /\ j.lifecycles = [i.lifecycles EXCEPT ![s[1]] = entry]
    BY <1>1 DEF Session, Accepted
  <1>4. /\ i.transfers \in [Segment -> 0 .. NoTransfer]
        /\ i.lifecycles \in [FromPeer -> [next: 0..4, deadline: BOOLEAN]]
        /\ i.splits \in [FromPeer -> SUBSET (1..3)]
        /\ i.routes \subseteq Segment /\ i.tracked \subseteq Segment
    BY <1>1 DEF Session
  <1>5. entry \in [next: 0..4, deadline: BOOLEAN] /\ entry # NoLifecycle
        /\ 0 \in 0 .. NoTransfer /\ 0 # NoTransfer
    BY <1>2, FromPeerAssumption DEF NoLifecycle, NoTransfer
  <1>6. j \in Session
    <2>. DEFINE T == [i.transfers EXCEPT ![s] = 0]
                R == IF Split(s[1]) THEN i.routes \cup {s} ELSE i.routes
                K == i.tracked \cup {s}
                L == [i.lifecycles EXCEPT ![s[1]] = entry]
    <2>1. /\ T \in [Segment -> 0 .. NoTransfer]
          /\ R \in SUBSET Segment /\ K \in SUBSET Segment
          /\ i.splits \in [FromPeer -> SUBSET (1..3)]
          /\ L \in [FromPeer -> [next: 0..4, deadline: BOOLEAN]]
      <3>. HIDE DEF NoLifecycle, NoTransfer, entry
      <3>. QED
        BY <1>2, <1>4, <1>5
    <2>2. j = [i EXCEPT !.transfers = T, !.routes = R, !.tracked = K, !.splits = i.splits,
                        !.lifecycles = L]
      BY <1>1 DEF Accepted, Session
    <2>. HIDE DEF j, T, R, K, L
    <2>. QED
      BY <1>1, <2>1, <2>2, SessionWith
  (* No other segment of the Resource is under way.                         *)
  <1>7. \A t \in Segment : t[1] = s[1] => i.transfers[t] = NoTransfer
    <2>. SUFFICES ASSUME NEW t \in Segment, t[1] = s[1], i.transfers[t] # NoTransfer
                  PROVE  FALSE
      OBVIOUS
    <2>1. i.lifecycles[s[1]] = [next |-> t[2], deadline |-> FALSE]
      BY DEF SessionInv, OneSegment
    <2>2. t[2] \in 1..3
      BY SegmentFields
    <2>3. Live(s[1])
      BY <2>1, <2>2 DEF Live, NoLifecycle
    <2>4. t[2] = s[2]
      BY <2>1, <2>3 DEF Expected
    <2>5. t = s
      BY <2>4, OnlySegment
    <2>. QED
      BY <2>5 DEF Receiving
  <1>8. i.lifecycles[s[1]] # NoLifecycle => i.lifecycles[s[1]].next = s[2]
    BY DEF Expected, Live
  <1>. HIDE DEF j
  <1>9. OneSegment(j)
    <2>. SUFFICES ASSUME NEW t \in Segment
                  PROVE  /\ j.transfers[t] # NoTransfer =>
                               j.lifecycles[t[1]] = [next |-> t[2], deadline |-> FALSE]
                         /\ t \in j.tracked <=> j.transfers[t] # NoTransfer
                         /\ t \in j.routes <=> j.transfers[t] # NoTransfer /\ Split(t[1])
      BY DEF OneSegment
    <2>1. /\ i.transfers[t] # NoTransfer =>
               i.lifecycles[t[1]] = [next |-> t[2], deadline |-> FALSE]
          /\ t \in i.tracked <=> i.transfers[t] # NoTransfer
          /\ t \in i.routes <=> i.transfers[t] # NoTransfer /\ Split(t[1])
      BY DEF SessionInv, OneSegment
    <2>2. t[1] \in FromPeer
      BY SegmentFields
    <2>3. CASE t = s
      BY <1>2, <1>3, <1>4, <1>5, <2>1, <2>3
    <2>4. CASE t # s /\ t[1] = s[1]
      BY <1>3, <1>4, <1>7, <2>1, <2>4
    <2>5. CASE t[1] # s[1]
      BY <1>3, <1>4, <2>1, <2>2, <2>5
    <2>. QED
      BY <2>3, <2>4, <2>5
  <1>10. UnderWay(j)
    <2>. SUFFICES ASSUME NEW r \in FromPeer, j.lifecycles[r] # NoLifecycle,
                         ~j.lifecycles[r].deadline
                  PROVE  \E t \in Segment : t[1] = r /\ j.transfers[t] # NoTransfer
      BY DEF UnderWay
    <2>1. CASE r = s[1]
      BY <1>3, <1>4, <1>5, <2>1
    <2>2. CASE r # s[1]
      BY <1>2, <1>3, <1>4, <2>2 DEF SessionInv, UnderWay
    <2>. QED
      BY <2>1, <2>2
  <1>11. KeptProved(j, done)
    BY <1>2, <1>3, <1>4, <1>5, <1>8 DEF SessionInv, KeptProved
  <1>12. OneLive(j)
    <2>1. \A o \in FromPeer : i.lifecycles[o] # NoLifecycle => o = s[1]
      BY <1>2 DEF Competing, Live, SessionInv, OneLive
    <2>. QED
      BY <1>2, <1>3, <1>4, <2>1 DEF OneLive
  <1>. QED
    BY <1>3, <1>6, <1>9, <1>10, <1>11, <1>12 DEF SessionInv, j

LEMMA MoreProved ==
    ASSUME NEW i, NEW done, NEW more, SessionInv(i, done)
    PROVE  SessionInv(i, done \cup more)
  BY DEF SessionInv, KeptProved

(* Whether the payload is whole; then every segment of it is proved.        *)
Whole(s) == ~Split(s[1]) \/ inbound.splits[s[1]] \cup {s[2]} = 1 .. SegmentsOf[s[1]]

LEMMA WholeProved ==
    ASSUME NEW done, SessionInv(inbound, done), NEW s \in Segment, Receiving(s), Whole(s)
    PROVE  \A t \in Segment : t[1] = s[1] => t \in done \cup {s}
  <1>. SUFFICES ASSUME NEW t \in Segment, t[1] = s[1]
                PROVE  t \in done \cup {s}
    OBVIOUS
  <1>1. CASE ~Split(s[1])
    BY <1>1, OnlySegment
  <1>2. CASE Split(s[1])
    <2>1. t[2] \in inbound.splits[s[1]] \cup {s[2]}
      BY <1>2, SegmentFields DEF Whole
    <2>2. CASE t[2] = s[2]
      BY <2>2, OnlySegment
    <2>3. CASE t[2] \in inbound.splits[s[1]]
      BY <2>3, SegmentFields DEF SessionInv, KeptProved
    <2>. QED
      BY <2>1, <2>2, <2>3
  <1>. QED
    BY <1>1, <1>2

LEMMA AssembledInv ==
    ASSUME NEW done, SessionInv(inbound, done), NEW s \in Segment, Receiving(s)
    PROVE  /\ SessionInv(Assembled(s)[1], done \cup {s})
           /\ Assembled(s)[2] = Whole(s)
           /\ \A r \in FromPeer :
                 /\ r # s[1] => Assembled(s)[1].lifecycles[r] = inbound.lifecycles[r]
                 /\ r = s[1] /\ ~Whole(s) => Assembled(s)[1].lifecycles[r] # NoLifecycle
  <1>. DEFINE i == inbound
              r == s[1]
              more == done \cup {s}
              after == [next |-> i.lifecycles[r].next + 1, deadline |-> TRUE]
              L(end) == [i.lifecycles EXCEPT ![r] = end]
              T == [i.transfers EXCEPT ![s] = NoTransfer]
              j(kept, end) == [i EXCEPT !.transfers = T, !.routes = i.routes \ {s},
                                !.tracked = i.tracked \ {s},
                                !.splits = [i.splits EXCEPT ![r] = kept],
                                !.lifecycles = L(end)]
  <1>1. i \in Session /\ SessionInv(i, more)
    BY MoreProved DEF SessionInv
  <1>2. r \in FromPeer /\ s[2] \in 1..3 /\ s = <<r, s[2]>>
    BY SegmentFields
  <1>3. /\ i.transfers \in [Segment -> 0 .. NoTransfer]
        /\ i.lifecycles \in [FromPeer -> [next: 0..4, deadline: BOOLEAN]]
        /\ i.splits \in [FromPeer -> SUBSET (1..3)]
        /\ i.routes \subseteq Segment /\ i.tracked \subseteq Segment
    BY <1>1 DEF Session
  <1>4. NoTransfer \in 0 .. NoTransfer /\ NoLifecycle \in [next: 0..4, deadline: BOOLEAN]
    BY FromPeerAssumption DEF NoTransfer, NoLifecycle
  <1>5. i.lifecycles[r] = [next |-> s[2], deadline |-> FALSE] /\ i.lifecycles[r] # NoLifecycle
    BY <1>2 DEF SessionInv, OneSegment, Receiving, NoLifecycle
  <1>6. after \in [next: 0..4, deadline: BOOLEAN] /\ after # NoLifecycle
        /\ after.next = s[2] + 1 /\ after.deadline = TRUE
    BY <1>2, <1>5 DEF NoLifecycle
  (* s is the only segment of its Resource under way.                       *)
  <1>7. \A t \in Segment : t[1] = r /\ i.transfers[t] # NoTransfer => t = s
    <2>. SUFFICES ASSUME NEW t \in Segment, t[1] = r, i.transfers[t] # NoTransfer
                  PROVE  t = s
      OBVIOUS
    <2>1. i.lifecycles[r] = [next |-> t[2], deadline |-> FALSE]
      BY DEF SessionInv, OneSegment
    <2>. QED
      BY <1>5, <2>1, OnlySegment
  (* What is left of a Resource that is split: nothing, or what is kept and *)
  (* a deadline.                                                            *)
  <1>8. ASSUME NEW kept, NEW end,
               \/ kept = {} /\ end = NoLifecycle
               \/ kept = i.splits[r] \cup {s[2]} /\ end = after
        PROVE  SessionInv(j(kept, end), more) /\ j(kept, end).lifecycles = L(end)
    <2>. DEFINE f == j(kept, end)
    <2>1. /\ f.transfers = T
          /\ f.routes = i.routes \ {s} /\ f.tracked = i.tracked \ {s}
          /\ f.splits = [i.splits EXCEPT ![r] = kept]
          /\ f.lifecycles = L(end)
      BY <1>1 DEF Session
    <2>2. kept \in SUBSET (1..3) /\ end \in [next: 0..4, deadline: BOOLEAN]
      BY <1>2, <1>3, <1>4, <1>6, <1>8
    <2>3. end = NoLifecycle \/ end.deadline = TRUE
      BY <1>6, <1>8
    <2>4. end = NoLifecycle => kept = {}
      BY <1>6, <1>8
    <2>5. \A k \in kept : k < end.next /\ <<r, k>> \in more
      <3>1. \A k \in i.splits[r] : k \in 1..3 /\ k < s[2] /\ <<r, k>> \in done
        BY <1>2, <1>3, <1>5 DEF SessionInv, KeptProved
      <3>2. CASE kept = {}
        BY <3>2
      <3>3. CASE kept = i.splits[r] \cup {s[2]} /\ end = after
        BY <1>2, <1>6, <3>1, <3>3
      <3>. QED
        BY <1>8, <3>2, <3>3
    <2>6. end # NoLifecycle => end.next # 0
      BY <1>2, <1>6, <1>8
    <2>7. f \in Session
      <3>1. /\ T \in [Segment -> 0 .. NoTransfer]
            /\ i.routes \ {s} \in SUBSET Segment /\ i.tracked \ {s} \in SUBSET Segment
            /\ [i.splits EXCEPT ![r] = kept] \in [FromPeer -> SUBSET (1..3)]
            /\ L(end) \in [FromPeer -> [next: 0..4, deadline: BOOLEAN]]
        <4>. HIDE DEF NoTransfer, NoLifecycle, after
        <4>. QED
          BY <1>3, <1>4, <2>2
      <3>. HIDE DEF T, L
      <3>. QED
        BY <1>1, <3>1, SessionWith
    <2>. HIDE DEF f, after
    <2>8. OneSegment(f)
      <3>. SUFFICES ASSUME NEW t \in Segment
                    PROVE  /\ f.transfers[t] # NoTransfer =>
                                 f.lifecycles[t[1]] = [next |-> t[2], deadline |-> FALSE]
                           /\ t \in f.tracked <=> f.transfers[t] # NoTransfer
                           /\ t \in f.routes <=> f.transfers[t] # NoTransfer /\ Split(t[1])
        BY DEF OneSegment
      <3>1. /\ i.transfers[t] # NoTransfer =>
                 i.lifecycles[t[1]] = [next |-> t[2], deadline |-> FALSE]
            /\ t \in i.tracked <=> i.transfers[t] # NoTransfer
            /\ t \in i.routes <=> i.transfers[t] # NoTransfer /\ Split(t[1])
        BY DEF SessionInv, OneSegment
      <3>2. t[1] \in FromPeer
        BY SegmentFields
      <3>3. CASE t = s
        BY <1>3, <2>1, <3>3
      <3>4. CASE t # s
        BY <1>2, <1>3, <1>7, <2>1, <3>1, <3>2, <3>4
      <3>. QED
        BY <3>3, <3>4
    <2>9. UnderWay(f)
      <3>. SUFFICES ASSUME NEW o \in FromPeer, f.lifecycles[o] # NoLifecycle,
                           ~f.lifecycles[o].deadline
                    PROVE  \E t \in Segment : t[1] = o /\ f.transfers[t] # NoTransfer
        BY DEF UnderWay
      <3>1. o # r
        BY <1>2, <1>3, <2>1, <2>3
      <3>2. PICK t \in Segment : t[1] = o /\ i.transfers[t] # NoTransfer
        BY <1>2, <1>3, <2>1, <3>1 DEF SessionInv, UnderWay
      <3>. QED
        BY <1>3, <2>1, <3>1, <3>2
    <2>10. KeptProved(f, more)
      BY <1>1, <1>2, <1>3, <2>1, <2>4, <2>5, <2>6 DEF SessionInv, KeptProved
    <2>11. OneLive(f)
      BY <1>2, <1>3, <1>5, <2>1 DEF SessionInv, OneLive
    <2>. QED
      BY <2>1, <2>7, <2>8, <2>9, <2>10, <2>11 DEF SessionInv, f
  <1>9. CASE ~Split(r)
    <2>1. Assembled(s) = <<Dropped(i, s), TRUE>> /\ Whole(s)
      BY <1>9 DEF Assembled, Whole
    <2>2. Assembled(s)[1] = Dropped(i, s) /\ Assembled(s)[2] = TRUE
      BY <2>1
    <2>3. SessionInv(Dropped(i, s), more) /\ Dropped(i, s).lifecycles = L(NoLifecycle)
      BY <1>1, DroppedInv
    <2>4. \A o \in FromPeer : o # r => L(NoLifecycle)[o] = i.lifecycles[o]
      BY <1>3
    <2>. HIDE DEF L, more
    <2>. QED
      BY <2>1, <2>2, <2>3, <2>4 DEF more
  <1>10. CASE Split(r) /\ i.splits[r] \cup {s[2]} = 1 .. SegmentsOf[r]
    <2>1. Assembled(s) = <<j({}, NoLifecycle), TRUE>> /\ Whole(s)
      BY <1>10 DEF Assembled, Whole
    <2>2. SessionInv(j({}, NoLifecycle), more) /\ j({}, NoLifecycle).lifecycles = L(NoLifecycle)
      BY <1>8
    <2>3. Assembled(s)[1] = j({}, NoLifecycle) /\ Assembled(s)[2] = TRUE
      BY <2>1
    <2>4. \A o \in FromPeer : o # r => L(NoLifecycle)[o] = i.lifecycles[o]
      BY <1>3
    <2>. HIDE DEF j, L, more
    <2>. QED
      BY <2>1, <2>2, <2>3, <2>4 DEF more
  <1>11. CASE Split(r) /\ i.splits[r] \cup {s[2]} # 1 .. SegmentsOf[r]
    <2>. DEFINE kept == i.splits[r] \cup {s[2]}
    <2>1. Assembled(s) = <<j(kept, after), FALSE>> /\ ~Whole(s)
      BY <1>11 DEF Assembled, Whole
    <2>2. SessionInv(j(kept, after), more) /\ j(kept, after).lifecycles = L(after)
      BY <1>8
    <2>3. Assembled(s)[1] = j(kept, after) /\ Assembled(s)[2] = FALSE
      BY <2>1
    <2>4. \A o \in FromPeer : L(after)[o] = IF o = r THEN after ELSE i.lifecycles[o]
      BY <1>3
    <2>5. Assembled(s)[2] = Whole(s)
      BY <1>11, <2>3 DEF Whole
    <2>. HIDE DEF j, L, more, after, kept
    <2>. QED
      BY ZenonT(60), <1>6, <2>1, <2>2, <2>3, <2>4, <2>5 DEF more
  <1>. QED
    BY <1>9, <1>10, <1>11

-----------------------------------------------------------------------------
(* The invariant holds of the initial states, every step keeps it, and what *)
(* the runs check follows from it.                                          *)

LEMMA NoResourcesInv == ASSUME NEW done PROVE SessionInv(NoResources, done)
  <1>1. NoTransfer \in 0 .. NoTransfer /\ NoLifecycle \in [next: 0..4, deadline: BOOLEAN]
    BY FromPeerAssumption DEF NoTransfer, NoLifecycle
  <1>2. NoResources \in Session
    <2>. HIDE DEF NoTransfer, NoLifecycle
    <2>. QED
      BY <1>1 DEF NoResources, Session
  <1>3. \A s \in Segment : s[1] \in FromPeer
    BY SegmentFields
  <1>. QED
    BY <1>2, <1>3 DEF NoResources, SessionInv, OneSegment, UnderWay, KeptProved, OneLive

LEMMA InboundInitInv == InboundInit => InboundInv
  BY NoResourcesInv DEF InboundInit, InboundInv, InboundTypeOK, SessionInv, Held, GivenProved

(* What ends a Resource and frees its memory.                               *)
LEMMA AbortInv ==
    ASSUME InboundInv, NEW s \in Segment, Abort(s)
    PROVE  InboundInv'
  <1>1. SessionInv(inbound, proven)
    BY DEF InboundInv
  <1>2. /\ SessionInv(inbound', proven')
        /\ inbound'.lifecycles = [inbound.lifecycles EXCEPT ![s[1]] = NoLifecycle]
    BY <1>1, DroppedInv DEF Abort, peerSide
  <1>3. inbound.lifecycles \in [FromPeer -> [next: 0..4, deadline: BOOLEAN]]
    BY <1>1 DEF SessionInv, Session
  <1>4. InboundTypeOK'
    BY <1>2 DEF InboundInv, InboundTypeOK, Abort, Concluded, peerSide, SessionInv
  <1>5. Held(inbound', reserved' \ stranded')
    BY <1>2, <1>3 DEF InboundInv, InboundTypeOK, Held, Abort, Concluded
  <1>6. GivenProved'
    BY DEF InboundInv, GivenProved, Abort, peerSide
  <1>. QED
    BY <1>2, <1>4, <1>5, <1>6 DEF InboundInv

LEMMA EndAllInv ==
    ASSUME InboundInv, NEW state \in {"closed", "gone"}, EndAll(state)
    PROVE  InboundInv'
  BY NoResourcesInv
  DEF InboundInv, InboundTypeOK, SessionInv, EndAll, peerSide, Held, Live, GivenProved

LEMMA StrandInv ==
    ASSUME InboundInv, Strand
    PROVE  InboundInv'
  BY NoResourcesInv
  DEF InboundInv, InboundTypeOK, SessionInv, Strand, peerSide, Held, GivenProved

LEMMA InboundNextInv ==
    ASSUME InboundInv, [InboundNext]_inboundVars
    PROVE  InboundInv'
  <1>. USE DEF application, peerSide
  <1>1. InboundTypeOK /\ SessionInv(inbound, proven) /\ inbound \in Session
    BY DEF InboundInv, SessionInv
  <1>2. inbound.lifecycles \in [FromPeer -> [next: 0..4, deadline: BOOLEAN]]
    BY <1>1 DEF Session
  <1>3. Held(inbound, reserved \ stranded) /\ GivenProved
    BY DEF InboundInv
  <1>4. ASSUME NEW s \in Segment, Advertise(s)
        PROVE  InboundInv'
    BY <1>1, <1>3, <1>4 DEF InboundInv, InboundTypeOK, Advertise, GivenProved
  <1>5. ASSUME NEW s \in Segment, AskAgain(s)
        PROVE  InboundInv'
    BY <1>1, <1>3, <1>5 DEF InboundInv, InboundTypeOK, AskAgain, GivenProved
  <1>6. ASSUME NEW s \in Segment, Accept(s)
        PROVE  InboundInv'
    <2>1. /\ SessionInv(inbound', proven')
          /\ inbound'.lifecycles =
               [inbound.lifecycles EXCEPT ![s[1]] = [next |-> s[2], deadline |-> FALSE]]
      BY <1>1, <1>6, AcceptedInv DEF Accept, Acceptable
    <2>2. s[1] \in FromPeer /\ [next |-> s[2], deadline |-> FALSE] # NoLifecycle
      BY SegmentFields DEF NoLifecycle
    <2>3. InboundTypeOK'
      BY <1>1, <1>6, <2>1, <2>2 DEF Accept, InboundTypeOK, SessionInv
    <2>4. Held(inbound', reserved' \ stranded')
      BY <1>1, <1>2, <1>3, <1>6, <2>1, <2>2 DEF Accept, InboundTypeOK, Held
    <2>5. GivenProved'
      BY <1>3, <1>6 DEF Accept, GivenProved
    <2>. QED
      BY <2>1, <2>3, <2>4, <2>5 DEF InboundInv
  <1>7. ASSUME NEW s \in Segment, AcceptUnrequested(s)
        PROVE  InboundInv'
    <2>1. SessionInv(Accepted(s), proven)
      BY <1>1, <1>7, AcceptedInv DEF AcceptUnrequested, Acceptable
    <2>2. Accepted(s).lifecycles =
               [inbound.lifecycles EXCEPT ![s[1]] = [next |-> s[2], deadline |-> FALSE]]
      BY <1>1, <1>7, AcceptedInv DEF AcceptUnrequested, Acceptable
    <2>3. /\ SessionInv(inbound', proven')
          /\ inbound'.lifecycles = [Accepted(s).lifecycles EXCEPT ![s[1]] = NoLifecycle]
      BY <1>7, <2>1, DroppedInv DEF AcceptUnrequested
    <2>4. InboundTypeOK'
      BY <1>1, <1>7, <2>3 DEF AcceptUnrequested, Concluded, InboundTypeOK, SessionInv
    <2>5. \A r \in FromPeer : r # s[1] => inbound'.lifecycles[r] = inbound.lifecycles[r]
      BY <1>2, <2>2, <2>3
    <2>6. Held(inbound', reserved' \ stranded')
      BY <1>1, <1>3, <1>7, <2>5 DEF AcceptUnrequested, Concluded, InboundTypeOK, Held
    <2>7. GivenProved'
      BY <1>3, <1>7 DEF AcceptUnrequested, GivenProved
    <2>. QED
      BY <2>3, <2>4, <2>6, <2>7 DEF InboundInv
  <1>8. ASSUME NEW s \in Segment, AcceptUnusable(s)
        PROVE  InboundInv'
    BY <1>1, <1>3, <1>8
    DEF InboundInv, InboundTypeOK, AcceptUnusable, Concluded, Held, GivenProved
  <1>9. ASSUME NEW s \in Segment, ReceivePart(s)
        PROVE  InboundInv'
    <2>. DEFINE T == [inbound.transfers EXCEPT ![s] = @ + 1]
    <2>1. inbound.transfers \in [Segment -> 0 .. NoTransfer]
      BY <1>1 DEF Session
    <2>2. T \in [Segment -> 0 .. NoTransfer] /\ T[s] # NoTransfer
      BY <1>9, <2>1, FromPeerAssumption DEF ReceivePart, Hears, Receiving, LastPart, NoTransfer
    <2>3. \A t \in Segment : T[t] # NoTransfer <=> inbound.transfers[t] # NoTransfer
      BY <1>9, <2>1, <2>2 DEF ReceivePart, Hears, Receiving
    <2>4. /\ inbound'.transfers = T
          /\ inbound'.lifecycles = inbound.lifecycles /\ inbound'.splits = inbound.splits
          /\ inbound'.routes = inbound.routes /\ inbound'.tracked = inbound.tracked
      BY <1>1, <1>9 DEF ReceivePart, Session
    <2>. HIDE DEF T
    <2>5. inbound' \in Session
      BY <1>1, <1>9, <2>2 DEF ReceivePart, Session, T
    <2>6. SessionInv(inbound', proven')
      BY <1>1, <1>9, <2>3, <2>4, <2>5
      DEF SessionInv, OneSegment, UnderWay, KeptProved, OneLive, ReceivePart
    <2>. QED
      BY <1>1, <1>3, <1>9, <2>4, <2>5, <2>6
      DEF InboundInv, InboundTypeOK, ReceivePart, Held, GivenProved
  <1>10. ASSUME NEW s \in Segment, Complete(s)
         PROVE  InboundInv'
    <2>1. /\ SessionInv(inbound', proven')
          /\ \A r \in FromPeer :
                /\ r # s[1] => inbound'.lifecycles[r] = inbound.lifecycles[r]
                /\ r = s[1] /\ ~Whole(s) => inbound'.lifecycles[r] # NoLifecycle
      BY <1>1, <1>10, AssembledInv DEF Complete, Hears
    <2>2. IF Whole(s) THEN Concluded(s[1]) /\ given' = given \cup {s[1]}
          ELSE UNCHANGED <<reserved, given>>
      BY <1>1, <1>10, AssembledInv DEF Complete, Hears
    <2>3. s[1] \in FromPeer
      BY SegmentFields
    <2>4. InboundTypeOK'
      BY <1>1, <1>10, <2>1, <2>2, <2>3 DEF Complete, Concluded, InboundTypeOK, SessionInv
    <2>5. Held(inbound', reserved' \ stranded')
      BY <1>1, <1>3, <1>10, <2>1, <2>2 DEF Complete, Concluded, InboundTypeOK, Held
    <2>6. GivenProved'
      <3>1. Whole(s) => \A t \in Segment : t[1] = s[1] => t \in proven'
        BY <1>1, <1>10, WholeProved DEF Complete, Hears
      <3>. QED
        BY <1>3, <1>10, <2>2, <3>1 DEF Complete, GivenProved
    <2>. QED
      BY <2>1, <2>4, <2>5, <2>6 DEF InboundInv
  <1>11. ASSUME NEW r \in FromPeer, SegmentOverdue(r)
         PROVE  InboundInv'
    BY <1>11, FirstSegment, AbortInv DEF SegmentOverdue
  <1>12. CASE GoStale \/ Revive
    BY <1>1, <1>3, <1>12 DEF GoStale, Revive, LinkBecomes, InboundInv, InboundTypeOK, GivenProved
  <1>13. CASE SendsOrRests
    BY <1>1, <1>3, <1>13 DEF SendsOrRests, InboundInv, InboundTypeOK, GivenProved
  <1>14. CASE LinkClosed \/ TickRemoves
    BY <1>14, EndAllInv DEF LinkClosed, TickRemoves
  <1>15. CASE CancelRemoves \/ FailRemoves \/ StartReplaces
    BY <1>15, StrandInv DEF CancelRemoves, FailRemoves, StartReplaces
  <1>16. CASE UNCHANGED inboundVars
    BY <1>1, <1>3, <1>16 DEF inboundVars, InboundInv, InboundTypeOK, GivenProved
  <1>17. ASSUME NEW s \in Segment,
                PartFails(s) \/ HashmapRefused(s) \/ PeerCancels(s) \/ TransferExpires(s)
         PROVE  InboundInv'
    BY <1>17, AbortInv DEF PartFails, HashmapRefused, PeerCancels, TransferExpires
  <1>. QED
    BY <1>4, <1>5, <1>6, <1>7, <1>8, <1>9, <1>10, <1>11, <1>12, <1>13, <1>14, <1>15, <1>16, <1>17
    DEF InboundNext

LEMMA InboundInvImplies == InboundInv => InboundAccounted
  <1>. SUFFICES ASSUME InboundInv PROVE InboundAccounted
    OBVIOUS
  <1>1. \A r \in reserved \ stranded : Live(r)
    BY DEF InboundInv, Held, Live
  <1>2. \A r, o \in FromPeer : Live(r) /\ Live(o) => r = o
    BY DEF InboundInv, SessionInv, OneLive, Live
  <1>3. ASSUME NEW r \in FromPeer, Live(r)
        PROVE  Watched(r)
    <2>1. inbound.lifecycles[r].deadline \in BOOLEAN
      BY DEF InboundInv, InboundTypeOK, Session
    <2>2. ASSUME NEW s \in Segment, s[1] = r, Receiving(s)
          PROVE  ~inbound.lifecycles[r].deadline
      <3>1. inbound.lifecycles[s[1]] = [next |-> s[2], deadline |-> FALSE]
        BY <2>2 DEF InboundInv, SessionInv, OneSegment, Receiving
      <3>2. inbound.lifecycles[r].deadline = FALSE
        BY <2>2, <3>1
      <3>. QED
        BY <3>2
    <2>3. ~inbound.lifecycles[r].deadline => \E s \in Segment : s[1] = r /\ Receiving(s)
      BY <1>3 DEF InboundInv, SessionInv, UnderWay, Receiving, Live
    <2>. QED
      BY <2>1, <2>2, <2>3 DEF Watched
  <1>4. ASSUME NEW r \in FromPeer, ~Live(r)
        PROVE  ~Residue(r)
    <2>1. ASSUME NEW s \in Segment, s[1] = r
          PROVE  ~Receiving(s) /\ s \notin inbound.routes \cup inbound.tracked
      <3>1. [next |-> s[2], deadline |-> FALSE] # NoLifecycle
        BY SegmentFields DEF NoLifecycle
      <3>2. inbound.transfers[s] = NoTransfer
        BY <1>4, <2>1, <3>1 DEF InboundInv, SessionInv, OneSegment, Live
      <3>. QED
        BY <3>2 DEF InboundInv, SessionInv, OneSegment, Receiving
    <2>2. inbound.splits[r] = {}
      BY <1>4 DEF InboundInv, SessionInv, KeptProved, Live
    <2>. QED
      BY <2>1, <2>2 DEF Residue
  <1>5. \A r \in given : \A s \in Segment : s[1] = r => s \in proven
    BY DEF InboundInv, GivenProved
  <1>. QED
    BY <1>1, <1>2, <1>3, <1>4, <1>5 DEF InboundAccounted

(* The state of the session, of the application and of the peer is always   *)
(* of its type.                                                             *)
THEOREM InboundTypes == InboundSpec => []InboundTypeOK
  <1>1. InboundInv => InboundTypeOK
    BY DEF InboundInv
  <1>. QED
    BY <1>1, InboundInitInv, InboundNextInv, PTL DEF InboundSpec

(* Nothing outlives its Resource: reserved memory belongs to a live one or  *)
(* the embedder removed the session, a live one is watched, at most one is  *)
(* live, and every segment of a payload given was proved to the peer.       *)
THEOREM NothingOutlives == InboundSpec => []InboundAccounted
  BY InboundInitInv, InboundNextInv, InboundInvImplies, PTL DEF InboundSpec

-----------------------------------------------------------------------------
(* InboundTracker: the inductive invariant.  TrackerExact speaks of the     *)
(* moment when the accounting stream has been read; the invariant says what *)
(* the events still in it will do to each Resource.                         *)

StartOf(k, i) == accounting[i].kind = "Started" /\ accounting[i].key = k
ConclusionOf(k, i) == accounting[i].kind = "Concluded" /\ accounting[i].key = k
CloseOf(k, i) == accounting[i].kind = "LinkClosed" /\ accounting[i].link = LinkOfKey(k)
EndOf(k, i) == ConclusionOf(k, i) \/ CloseOf(k, i)

Over(k) == transfer[k] \in Conclusions

(* It is active, or will be when the stream is read.                        *)
Begun(k) == k \in active \/ \E i \in DOMAIN accounting : StartOf(k, i)

(* One start, of what the registry has not seen, and its end comes later.   *)
StartsFresh(k) ==
    \A i \in DOMAIN accounting : StartOf(k, i) =>
        /\ k \notin active /\ snapshot[k].status = "unseen" /\ transfer[k] # "new"
        /\ \A j \in DOMAIN accounting : StartOf(k, j) \/ EndOf(k, j) => i <= j

(* A conclusion in the stream is the owner's.                               *)
ConclusionTrue(k) ==
    \A i \in DOMAIN accounting : ConclusionOf(k, i) => transfer[k] = accounting[i].conclusion

(* A closed Link failed what had begun and was not concluded before.        *)
CloseTrue(k) ==
    \A i \in DOMAIN accounting : CloseOf(k, i) =>
        /\ Over(k)
        /\ \/ transfer[k] = "Failed"
           \/ ~Begun(k)
           \/ \E j \in DOMAIN accounting : j < i /\ ConclusionOf(k, j)

(* What has begun is active until the end that is in the stream.            *)
BegunRight(k) ==
    /\ transfer[k] = "new" => k \notin active /\ snapshot[k].status = "unseen"
    /\ transfer[k] = "running" => Begun(k)
    /\ Over(k) /\ Begun(k) => \E i \in DOMAIN accounting : EndOf(k, i)

SnapshotRight(k) ==
    /\ snapshot[k].status \in Conclusions => snapshot[k].status = transfer[k]
    /\ k \in active => snapshot[k].status = "Receiving"
    /\ snapshot[k].transferred <= bytes[k]
    /\ transfer[k] = "Complete" => bytes[k] = Bytes

ProgressRight ==
    \A i \in DOMAIN progress : progress[i].transferred <= bytes[progress[i].key]

Replays(k) ==
    StartsFresh(k) /\ ConclusionTrue(k) /\ CloseTrue(k) /\ BegunRight(k) /\ SnapshotRight(k)

TrackerInv == TrackerTypeOK /\ ProgressRight /\ \A k \in Owners : Replays(k)

-----------------------------------------------------------------------------
(* The stream after an event is appended, and after one is read.            *)

LEMMA AppendAt ==
    ASSUME NEW q \in Seq(AccountingEvent), NEW e \in AccountingEvent,
           NEW next, next = Append(q, e)
    PROVE  /\ next \in Seq(AccountingEvent)
           /\ Len(q) \in Nat /\ DOMAIN q = 1 .. Len(q)
           /\ DOMAIN next = 1 .. Len(q) + 1
           /\ \A i \in DOMAIN q : next[i] = q[i]
           /\ next[Len(q) + 1] = e
  OBVIOUS

LEMMA TailAt ==
    ASSUME NEW q \in Seq(AccountingEvent), q # <<>>, NEW next, next = Tail(q)
    PROVE  /\ next \in Seq(AccountingEvent)
           /\ Len(q) \in Nat \ {0} /\ DOMAIN q = 1 .. Len(q)
           /\ DOMAIN next = 1 .. Len(q) - 1
           /\ \A i \in DOMAIN next : next[i] = q[i + 1]
           /\ Head(q) = q[1] /\ q[1] \in AccountingEvent
  OBVIOUS

-----------------------------------------------------------------------------
(* Types.                                                                   *)

LEMMA EventFields ==
    ASSUME NEW e \in AccountingEvent
    PROVE  /\ e.kind \in {"Started", "Concluded", "LinkClosed"}
           /\ e.kind \in {"Started", "Concluded"} => e.key \in Owners
           /\ e.kind = "Concluded" => e.conclusion \in Conclusions
  BY DEF AccountingEvent

LEMMA OrderType ==
    ASSUME NEW keys \in SUBSET Owners, NEW s \in Orders(keys)
    PROVE  s \in Seq(Owners)
  <1>1. Cardinality(keys) \in Nat
    BY TrackerAssumption, FS_Subset, FS_CardinalityType
  <1>. QED
    BY <1>1 DEF Orders

LEMMA AsksType ==
    ASSUME TrackerTypeOK, NEW keys \in Seq(Owners), Asks(keys)
    PROVE  cancels' \in Seq(Owners) /\ Len(cancels') <= MaxCancels
  <1>. DEFINE room == MaxCancels - Len(cancels)
              n == IF Len(keys) < room THEN Len(keys) ELSE room
  <1>1. n \in 0 .. Len(keys) /\ n <= room
    BY TrackerAssumption DEF TrackerTypeOK
  <1>2. SubSeq(keys, 1, n) \in Seq(Owners) /\ Len(SubSeq(keys, 1, n)) = n
    BY <1>1
  <1>3. cancels' = cancels \o SubSeq(keys, 1, n)
    BY DEF Asks
  <1>. HIDE DEF n
  <1>. QED
    BY <1>1, <1>2, <1>3, TrackerAssumption DEF TrackerTypeOK

LEMMA TrackerInitType == TrackerInit => TrackerTypeOK
  BY TrackerAssumption DEF TrackerInit, TrackerTypeOK, Unseen

LEMMA TrackerNextType ==
    ASSUME TrackerTypeOK, [TrackerNext]_trackerVars
    PROVE  TrackerTypeOK'
  <1>. USE TrackerAssumption DEF transferOwner, streams, tracker
  <1>1. ASSUME NEW k \in Owners, Begins(k)
        PROVE  TrackerTypeOK'
    <2>1. [kind |-> "Started", key |-> k] \in AccountingEvent
      BY DEF AccountingEvent
    <2>. QED
      BY <1>1, <2>1, AppendAt DEF Begins, TrackerTypeOK
  <1>2. ASSUME NEW k \in Owners, Advances(k)
        PROVE  TrackerTypeOK'
    <2>1. bytes' \in [Owners -> 0..Bytes]
      BY <1>2 DEF Advances, TrackerTypeOK
    <2>2. progress' \in Seq(ProgressEvent) /\ Len(progress') <= MaxProgress
      <3>1. [key |-> k, transferred |-> bytes[k] + 1] \in ProgressEvent
        BY <1>2 DEF Advances, TrackerTypeOK, ProgressEvent
      <3>. QED
        BY <1>2, <3>1 DEF Advances, TrackerTypeOK
    <2>. QED
      BY <1>2, <2>1, <2>2 DEF Advances, TrackerTypeOK
  <1>3. ASSUME NEW k \in Owners, NEW c \in Conclusions, EndsAs(k, c)
        PROVE  /\ transfer' \in [Owners -> {"new", "running"} \cup Conclusions]
               /\ accounting' \in Seq(AccountingEvent)
    <2>1. [kind |-> "Concluded", key |-> k, conclusion |-> c] \in AccountingEvent
      BY DEF AccountingEvent
    <2>. QED
      BY <1>3, <2>1, AppendAt DEF EndsAs, TrackerTypeOK
  <1>4. ASSUME NEW k \in Owners, NEW c \in Conclusions, Finishes(k, c)
        PROVE  TrackerTypeOK'
    BY <1>3, <1>4 DEF Finishes, TrackerTypeOK
  <1>5. ASSUME NEW l \in OwnerLinks, LinkEnds(l)
        PROVE  TrackerTypeOK'
    <2>1. [kind |-> "LinkClosed", link |-> l] \in AccountingEvent
      BY DEF AccountingEvent
    <2>2. transfer' \in [Owners -> {"new", "running"} \cup Conclusions]
      BY <1>5 DEF LinkEnds, TrackerTypeOK, Conclusions
    <2>. QED
      BY <1>5, <2>1, <2>2, AppendAt DEF LinkEnds, TrackerTypeOK
  <1>6. CASE CommandArrives
    <2>1. commands' \in Seq(Owners) /\ Len(commands') <= MaxForwarded /\ Head(commands) \in Owners
      BY <1>6 DEF CommandArrives, TrackerTypeOK
    <2>2. /\ transfer' \in [Owners -> {"new", "running"} \cup Conclusions]
          /\ accounting' \in Seq(AccountingEvent)
      BY <1>3, <1>6, <2>1 DEF CommandArrives, TrackerTypeOK, Conclusions
    <2>. QED
      BY <1>6, <2>1, <2>2 DEF CommandArrives, TrackerTypeOK
  <1>7. ASSUME NEW k \in Owners, Started(k)
        PROVE  /\ active' \subseteq Owners
               /\ snapshot' \in [Owners -> [status: {"unseen", "Receiving"} \cup Conclusions,
                                           transferred: 0..Bytes]]
    BY <1>7 DEF Started, TrackerTypeOK
  <1>8. ASSUME NEW keys, NEW c \in Conclusions, ConcludedAll(keys, c)
        PROVE  /\ active' \subseteq Owners
               /\ snapshot' \in [Owners -> [status: {"unseen", "Receiving"} \cup Conclusions,
                                           transferred: 0..Bytes]]
    BY <1>8 DEF ConcludedAll, TrackerTypeOK
  <1>9. CASE ReadAccounting
    <2>1. accounting' \in Seq(AccountingEvent) /\ Head(accounting) \in AccountingEvent
      BY <1>9, TailAt DEF ReadAccounting, TrackerTypeOK
    <2>2. /\ active' \subseteq Owners
          /\ snapshot' \in [Owners -> [status: {"unseen", "Receiving"} \cup Conclusions,
                                      transferred: 0..Bytes]]
      <3>1. CASE Head(accounting).kind = "Started"
        BY <1>7, <1>9, <2>1, <3>1, EventFields DEF ReadAccounting
      <3>2. CASE Head(accounting).kind = "Concluded"
        BY <1>8, <1>9, <2>1, <3>2, EventFields DEF ReadAccounting
      <3>3. CASE Head(accounting).kind = "LinkClosed"
        <4>1. "Failed" \in Conclusions
          BY DEF Conclusions
        <4>. QED
          BY <1>8, <1>9, <3>3, <4>1 DEF ReadAccounting
      <3>. QED
        BY <2>1, <3>1, <3>2, <3>3, EventFields
    <2>. QED
      BY <1>9, <2>1, <2>2 DEF ReadAccounting, TrackerTypeOK
  <1>10. CASE ReadProgress
    <2>1. /\ progress' \in Seq(ProgressEvent) /\ Len(progress') <= MaxProgress
          /\ Head(progress) \in ProgressEvent
      BY <1>10 DEF ReadProgress, TrackerTypeOK
    <2>2. Head(progress).key \in Owners /\ Head(progress).transferred \in 0..Bytes
      BY <2>1 DEF ProgressEvent
    <2>. QED
      BY <1>10, <2>1, <2>2 DEF ReadProgress, ProgressSeen, TrackerTypeOK
  <1>11. ASSUME NEW k \in Owners, CancelExact(k)
         PROVE  TrackerTypeOK'
    <2>1. <<k>> \in Seq(Owners)
      OBVIOUS
    <2>. QED
      BY <1>11, <2>1, AsksType DEF CancelExact, Asks, TrackerTypeOK
  <1>12. ASSUME NEW i \in Ids, CancelById(i)
         PROVE  TrackerTypeOK'
    <2>1. PICK k \in Owners : Asks(<<k>>)
      BY <1>12 DEF CancelById, TrackerTypeOK
    <2>2. <<k>> \in Seq(Owners)
      OBVIOUS
    <2>. QED
      BY <2>1, <2>2, AsksType DEF Asks, TrackerTypeOK
  <1>13. CASE CancelAll
    <2>1. PICK keys \in Seq(Owners) : Asks(keys)
      BY <1>13, OrderType DEF CancelAll, TrackerTypeOK
    <2>. QED
      BY <2>1, AsksType DEF Asks, TrackerTypeOK
  <1>14. CASE ForwardCancels
    <2>1. /\ cancels' \in Seq(Owners) /\ Len(cancels') <= MaxCancels
          /\ commands' \in Seq(Owners) /\ Len(commands') <= MaxForwarded
      BY <1>14 DEF ForwardCancels, TrackerTypeOK
    <2>2. UNCHANGED <<transfer, bytes, active, snapshot, accounting, progress>>
      BY <1>14 DEF ForwardCancels, tracker
    <2>. QED
      BY <2>1, <2>2 DEF TrackerTypeOK
  <1>15. CASE UNCHANGED trackerVars
    BY <1>15 DEF trackerVars, TrackerTypeOK
  <1>. QED
    BY <1>1, <1>2, <1>4, <1>5, <1>6, <1>9, <1>10, <1>11, <1>12, <1>13, <1>14, <1>15
    DEF TrackerNext

-----------------------------------------------------------------------------
(* What an event does to the Resources it is about, and to the others.      *)

About(k, e) ==
    \/ e.kind \in {"Started", "Concluded"} /\ e.key = k
    \/ e.kind = "LinkClosed" /\ e.link = LinkOfKey(k)

LEMMA AppendOther ==
    ASSUME TrackerTypeOK, NEW k \in Owners, Replays(k), NEW e \in AccountingEvent,
           accounting' = Append(accounting, e), ~About(k, e),
           transfer'[k] = transfer[k], UNCHANGED <<bytes, tracker>>
    PROVE  Replays(k)'
  <1>1. /\ Len(accounting) \in Nat /\ DOMAIN accounting = 1 .. Len(accounting)
        /\ DOMAIN accounting' = 1 .. Len(accounting) + 1
        /\ \A i \in DOMAIN accounting : accounting'[i] = accounting[i]
        /\ accounting'[Len(accounting) + 1] = e
    BY AppendAt DEF TrackerTypeOK
  <1>2. \A i \in DOMAIN accounting' :
          /\ StartOf(k, i)' <=> i \in DOMAIN accounting /\ StartOf(k, i)
          /\ ConclusionOf(k, i)' <=> i \in DOMAIN accounting /\ ConclusionOf(k, i)
          /\ CloseOf(k, i)' <=> i \in DOMAIN accounting /\ CloseOf(k, i)
    BY <1>1 DEF About, StartOf, ConclusionOf, CloseOf
  <1>3. Begun(k)' <=> Begun(k)
    BY <1>1, <1>2 DEF Begun, tracker
  <1>4. StartsFresh(k)'
    BY <1>1, <1>2 DEF Replays, StartsFresh, EndOf, tracker
  <1>5. ConclusionTrue(k)'
    BY <1>1, <1>2 DEF Replays, ConclusionTrue
  <1>6. CloseTrue(k)'
    BY <1>1, <1>2, <1>3 DEF Replays, CloseTrue, Over
  <1>7. BegunRight(k)'
    BY <1>1, <1>2, <1>3 DEF Replays, BegunRight, Over, EndOf, tracker
  <1>8. SnapshotRight(k)'
    BY DEF Replays, SnapshotRight, tracker
  <1>. QED
    BY <1>4, <1>5, <1>6, <1>7, <1>8 DEF Replays

(* The end of a transfer that runs, or never began, is appended.            *)
LEMMA AppendEnd ==
    ASSUME TrackerTypeOK, NEW k \in Owners, Replays(k), NEW e \in AccountingEvent,
           accounting' = Append(accounting, e), About(k, e),
           transfer[k] \in {"new", "running"}, transfer'[k] \in Conclusions,
           \/ e.kind = "Concluded" /\ e.conclusion = transfer'[k] /\ transfer[k] = "running"
           \/ e.kind = "LinkClosed" /\ transfer'[k] = "Failed",
           transfer'[k] = "Complete" => bytes[k] = Bytes,
           UNCHANGED <<bytes, tracker>>
    PROVE  Replays(k)'
  <1>0. accounting \in Seq(AccountingEvent)
    BY DEF TrackerTypeOK
  <1>1. /\ Len(accounting) \in Nat /\ DOMAIN accounting = 1 .. Len(accounting)
        /\ DOMAIN accounting' = 1 .. Len(accounting) + 1
        /\ \A i \in DOMAIN accounting : accounting'[i] = accounting[i]
        /\ accounting'[Len(accounting) + 1] = e
    BY <1>0, AppendAt
  <1>. DEFINE last == Len(accounting) + 1
  <1>2. \A i \in DOMAIN accounting : ~ConclusionOf(k, i) /\ ~CloseOf(k, i)
    <2>1. ~Over(k)
      BY DEF Over, Conclusions
    <2>2. \A i \in DOMAIN accounting : ConclusionOf(k, i) => accounting[i].conclusion \in Conclusions
      BY <1>0, EventFields DEF ConclusionOf
    <2>. QED
      BY <2>1, <2>2 DEF Replays, ConclusionTrue, CloseTrue, Over
  <1>3. \A i \in DOMAIN accounting' :
          /\ StartOf(k, i)' <=> i \in DOMAIN accounting /\ StartOf(k, i)
          /\ ConclusionOf(k, i)' <=> i = last /\ e.kind = "Concluded"
          /\ CloseOf(k, i)' <=> i = last /\ e.kind = "LinkClosed"
    BY <1>1, <1>2 DEF About, StartOf, ConclusionOf, CloseOf
  <1>4. \E i \in DOMAIN accounting' : EndOf(k, i)'
    <2>1. last \in DOMAIN accounting' /\ e.kind \in {"Concluded", "LinkClosed"}
      BY <1>1
    <2>. QED
      BY <1>3, <2>1 DEF EndOf
  <1>5. StartsFresh(k)'
    BY <1>1, <1>3 DEF Replays, StartsFresh, EndOf, tracker, Conclusions
  <1>6. ConclusionTrue(k)'
    BY <1>1, <1>3 DEF ConclusionTrue
  <1>7. CloseTrue(k)'
    BY <1>1, <1>3 DEF CloseTrue, Over
  <1>8. BegunRight(k)'
    BY <1>4 DEF BegunRight, Conclusions
  <1>9. SnapshotRight(k)'
    BY DEF Replays, SnapshotRight, tracker, Conclusions
  <1>. QED
    BY <1>5, <1>6, <1>7, <1>8, <1>9 DEF Replays

(* A closed Link says nothing new of what was over.                         *)
LEMMA AppendClose ==
    ASSUME TrackerTypeOK, NEW k \in Owners, Replays(k), NEW e \in AccountingEvent,
           accounting' = Append(accounting, e), About(k, e), e.kind = "LinkClosed",
           Over(k), transfer'[k] = transfer[k], UNCHANGED <<bytes, tracker>>
    PROVE  Replays(k)'
  <1>1. /\ Len(accounting) \in Nat /\ DOMAIN accounting = 1 .. Len(accounting)
        /\ DOMAIN accounting' = 1 .. Len(accounting) + 1
        /\ \A i \in DOMAIN accounting : accounting'[i] = accounting[i]
        /\ accounting'[Len(accounting) + 1] = e
    BY AppendAt DEF TrackerTypeOK
  <1>. DEFINE last == Len(accounting) + 1
  <1>2. \A i \in DOMAIN accounting' :
          /\ StartOf(k, i)' <=> i \in DOMAIN accounting /\ StartOf(k, i)
          /\ ConclusionOf(k, i)' <=> i \in DOMAIN accounting /\ ConclusionOf(k, i)
          /\ CloseOf(k, i)' <=> i = last \/ (i \in DOMAIN accounting /\ CloseOf(k, i))
    BY <1>1 DEF About, StartOf, ConclusionOf, CloseOf
  <1>3. Begun(k)' <=> Begun(k)
    BY <1>1, <1>2 DEF Begun, tracker
  <1>4. \/ transfer[k] = "Failed" \/ ~Begun(k)
        \/ \E j \in DOMAIN accounting : ConclusionOf(k, j)
    BY DEF Replays, BegunRight, CloseTrue, EndOf
  <1>5. StartsFresh(k)'
    BY <1>1, <1>2 DEF Replays, StartsFresh, EndOf, tracker
  <1>6. ConclusionTrue(k)'
    BY <1>1, <1>2 DEF Replays, ConclusionTrue
  <1>7. CloseTrue(k)'
    <2>. SUFFICES ASSUME NEW i \in DOMAIN accounting', CloseOf(k, i)'
                  PROVE  \/ transfer[k] = "Failed" \/ ~Begun(k)
                         \/ \E j \in DOMAIN accounting : j < i /\ ConclusionOf(k, j)
      BY <1>1, <1>2, <1>3 DEF CloseTrue, Over
    <2>1. CASE i = last
      BY <1>1, <1>4, <2>1
    <2>2. CASE i \in DOMAIN accounting /\ CloseOf(k, i)
      BY <2>2 DEF Replays, CloseTrue
    <2>. QED
      BY <1>2, <2>1, <2>2
  <1>8. BegunRight(k)'
    BY <1>1, <1>2, <1>3 DEF Replays, BegunRight, Over, EndOf, tracker
  <1>9. SnapshotRight(k)'
    BY DEF Replays, SnapshotRight, tracker
  <1>. QED
    BY <1>5, <1>6, <1>7, <1>8, <1>9 DEF Replays

(* A Resource begins.                                                       *)
LEMMA AppendStart ==
    ASSUME TrackerTypeOK, NEW k \in Owners, Replays(k), Begins(k)
    PROVE  Replays(k)'
  <1>. DEFINE e == [kind |-> "Started", key |-> k]
              last == Len(accounting) + 1
  <1>1. e \in AccountingEvent
    BY DEF AccountingEvent
  <1>2. /\ Len(accounting) \in Nat /\ DOMAIN accounting = 1 .. Len(accounting)
        /\ DOMAIN accounting' = 1 .. Len(accounting) + 1
        /\ \A i \in DOMAIN accounting : accounting'[i] = accounting[i]
        /\ accounting'[Len(accounting) + 1] = e
    BY <1>1, AppendAt DEF TrackerTypeOK, Begins
  <1>3. \A i \in DOMAIN accounting : ~StartOf(k, i) /\ ~ConclusionOf(k, i) /\ ~CloseOf(k, i)
    <2>1. ~Over(k) /\ transfer[k] = "new"
      BY DEF Over, Conclusions, Begins
    <2>2. \A i \in DOMAIN accounting : ConclusionOf(k, i) => accounting[i].conclusion \in Conclusions
      BY EventFields DEF ConclusionOf, TrackerTypeOK
    <2>. QED
      BY <2>1, <2>2 DEF Replays, StartsFresh, ConclusionTrue, CloseTrue, Over
  <1>4. \A i \in DOMAIN accounting' :
          (StartOf(k, i)' <=> i = last) /\ ~ConclusionOf(k, i)' /\ ~CloseOf(k, i)'
    BY <1>2, <1>3 DEF StartOf, ConclusionOf, CloseOf
  <1>5. /\ transfer[k] = "new" /\ transfer'[k] = "running"
        /\ UNCHANGED <<bytes, active, snapshot>>
    BY DEF Begins, TrackerTypeOK, tracker
  <1>6. k \notin active /\ snapshot[k].status = "unseen"
    BY <1>5 DEF Replays, BegunRight
  <1>7. Begun(k)'
    BY <1>2, <1>4 DEF Begun
  <1>8. StartsFresh(k)'
    BY <1>2, <1>4, <1>5, <1>6 DEF StartsFresh, EndOf
  <1>9. ConclusionTrue(k)' /\ CloseTrue(k)'
    BY <1>4 DEF ConclusionTrue, CloseTrue
  <1>10. BegunRight(k)'
    BY <1>5, <1>7 DEF BegunRight, Over, Conclusions
  <1>11. SnapshotRight(k)'
    BY <1>5, <1>6 DEF Replays, SnapshotRight, Conclusions
  <1>. QED
    BY <1>8, <1>9, <1>10, <1>11 DEF Replays

-----------------------------------------------------------------------------
(* The first event is read.                                                 *)

LEMMA ShiftAt ==
    ASSUME TrackerTypeOK, NEW k \in Owners, accounting # <<>>, accounting' = Tail(accounting)
    PROVE  /\ Len(accounting) \in Nat \ {0} /\ DOMAIN accounting = 1 .. Len(accounting)
           /\ DOMAIN accounting' = 1 .. Len(accounting) - 1
           /\ Head(accounting) = accounting[1] /\ accounting[1] \in AccountingEvent
           /\ \A i \in DOMAIN accounting' :
                 /\ i + 1 \in DOMAIN accounting
                 /\ StartOf(k, i)' <=> StartOf(k, i + 1)
                 /\ ConclusionOf(k, i)' <=> ConclusionOf(k, i + 1)
                 /\ CloseOf(k, i)' <=> CloseOf(k, i + 1)
                 /\ accounting'[i] = accounting[i + 1]
           /\ \A i \in DOMAIN accounting :
                 i # 1 => i - 1 \in DOMAIN accounting' /\ (i - 1) + 1 = i
  <1>1. /\ Len(accounting) \in Nat \ {0} /\ DOMAIN accounting = 1 .. Len(accounting)
        /\ DOMAIN accounting' = 1 .. Len(accounting) - 1
        /\ \A i \in DOMAIN accounting' : accounting'[i] = accounting[i + 1]
        /\ Head(accounting) = accounting[1] /\ accounting[1] \in AccountingEvent
    BY TailAt DEF TrackerTypeOK
  <1>. QED
    BY <1>1 DEF StartOf, ConclusionOf, CloseOf

LEMMA ReadOther ==
    ASSUME TrackerTypeOK, NEW k \in Owners, Replays(k),
           accounting # <<>>, accounting' = Tail(accounting), ~About(k, Head(accounting)),
           UNCHANGED transferOwner, snapshot'[k] = snapshot[k], k \in active' <=> k \in active
    PROVE  Replays(k)'
  <1>1. /\ Len(accounting) \in Nat \ {0} /\ DOMAIN accounting = 1 .. Len(accounting)
        /\ DOMAIN accounting' = 1 .. Len(accounting) - 1
        /\ \A i \in DOMAIN accounting' :
              /\ i + 1 \in DOMAIN accounting
              /\ StartOf(k, i)' <=> StartOf(k, i + 1)
              /\ ConclusionOf(k, i)' <=> ConclusionOf(k, i + 1)
              /\ CloseOf(k, i)' <=> CloseOf(k, i + 1)
              /\ accounting'[i] = accounting[i + 1]
        /\ \A i \in DOMAIN accounting :
              i # 1 => i - 1 \in DOMAIN accounting' /\ (i - 1) + 1 = i
    BY ShiftAt
  <1>2. ~StartOf(k, 1) /\ ~ConclusionOf(k, 1) /\ ~CloseOf(k, 1)
    BY ShiftAt DEF About, StartOf, ConclusionOf, CloseOf
  <1>3. Begun(k)' <=> Begun(k)
    BY <1>1, <1>2 DEF Begun
  <1>4. StartsFresh(k)'
    BY <1>1 DEF Replays, StartsFresh, EndOf, transferOwner
  <1>5. ConclusionTrue(k)'
    BY <1>1 DEF Replays, ConclusionTrue, transferOwner
  <1>6. CloseTrue(k)'
    BY <1>1, <1>2, <1>3 DEF Replays, CloseTrue, Over, transferOwner
  <1>7. BegunRight(k)'
    BY <1>1, <1>2, <1>3 DEF Replays, BegunRight, Over, EndOf, transferOwner
  <1>8. SnapshotRight(k)'
    BY DEF Replays, SnapshotRight, transferOwner
  <1>. QED
    BY <1>4, <1>5, <1>6, <1>7, <1>8 DEF Replays

LEMMA ReadStart ==
    ASSUME TrackerTypeOK, NEW k \in Owners, Replays(k),
           accounting # <<>>, accounting' = Tail(accounting), StartOf(k, 1),
           UNCHANGED transferOwner, Started(k)
    PROVE  Replays(k)'
  <1>1. /\ Len(accounting) \in Nat \ {0} /\ DOMAIN accounting = 1 .. Len(accounting)
        /\ DOMAIN accounting' = 1 .. Len(accounting) - 1
        /\ \A i \in DOMAIN accounting' :
              /\ i + 1 \in DOMAIN accounting
              /\ StartOf(k, i)' <=> StartOf(k, i + 1)
              /\ ConclusionOf(k, i)' <=> ConclusionOf(k, i + 1)
              /\ CloseOf(k, i)' <=> CloseOf(k, i + 1)
              /\ accounting'[i] = accounting[i + 1]
        /\ \A i \in DOMAIN accounting :
              i # 1 => i - 1 \in DOMAIN accounting' /\ (i - 1) + 1 = i
    BY ShiftAt
  <1>2. ~ConclusionOf(k, 1) /\ ~CloseOf(k, 1)
    BY DEF StartOf, ConclusionOf, CloseOf
  <1>3. 1 \in DOMAIN accounting /\ k \notin active /\ transfer[k] # "new" /\ Begun(k)
    BY <1>1 DEF Replays, StartsFresh, Begun
  <1>4. k \in active' /\ snapshot'[k] = [status |-> "Receiving", transferred |-> 0]
    BY <1>3 DEF Started, TrackerTypeOK
  <1>5. \A i \in DOMAIN accounting' : ~StartOf(k, i)'
    BY <1>1, <1>3 DEF Replays, StartsFresh
  <1>6. StartsFresh(k)'
    BY <1>5 DEF StartsFresh
  <1>7. ConclusionTrue(k)'
    BY <1>1 DEF Replays, ConclusionTrue, transferOwner
  <1>8. CloseTrue(k)'
    BY <1>1, <1>2, <1>3 DEF Replays, CloseTrue, Over, transferOwner
  <1>9. BegunRight(k)'
    BY <1>1, <1>2, <1>3, <1>4 DEF Replays, BegunRight, Begun, Over, EndOf, transferOwner
  <1>10. SnapshotRight(k)'
    BY <1>4 DEF Replays, SnapshotRight, TrackerTypeOK, transferOwner, Conclusions
  <1>. QED
    BY <1>6, <1>7, <1>8, <1>9, <1>10 DEF Replays

LEMMA ReadEnd ==
    ASSUME TrackerTypeOK, NEW k \in Owners, Replays(k),
           accounting # <<>>, accounting' = Tail(accounting), EndOf(k, 1),
           UNCHANGED transferOwner,
           NEW keys, k \in keys, NEW c \in Conclusions, ConcludedAll(keys, c),
           ConclusionOf(k, 1) => c = accounting[1].conclusion,
           CloseOf(k, 1) => c = "Failed"
    PROVE  Replays(k)'
  <1>1. /\ Len(accounting) \in Nat \ {0} /\ DOMAIN accounting = 1 .. Len(accounting)
        /\ DOMAIN accounting' = 1 .. Len(accounting) - 1
        /\ \A i \in DOMAIN accounting' :
              /\ i + 1 \in DOMAIN accounting
              /\ StartOf(k, i)' <=> StartOf(k, i + 1)
              /\ ConclusionOf(k, i)' <=> ConclusionOf(k, i + 1)
              /\ CloseOf(k, i)' <=> CloseOf(k, i + 1)
              /\ accounting'[i] = accounting[i + 1]
    BY ShiftAt
  <1>2. 1 \in DOMAIN accounting /\ ~StartOf(k, 1)
    BY <1>1 DEF StartOf, EndOf, ConclusionOf, CloseOf
  <1>3. \A i \in DOMAIN accounting' : ~StartOf(k, i)'
    BY <1>1, <1>2 DEF Replays, StartsFresh
  <1>4. k \notin active' /\ ~Begun(k)'
    BY <1>3 DEF ConcludedAll, Begun
  <1>5. Over(k) /\ (k \in active => transfer[k] = c)
    <2>1. CASE ConclusionOf(k, 1)
      BY <1>2, <2>1 DEF Replays, ConclusionTrue, Over
    <2>2. CASE CloseOf(k, 1)
      BY <1>1, <1>2, <2>2 DEF Replays, CloseTrue, Begun
    <2>. QED
      BY <2>1, <2>2 DEF EndOf
  <1>6. /\ k \notin active => snapshot'[k] = snapshot[k]
        /\ k \in active => snapshot'[k] =
             [status |-> c, transferred |-> IF c = "Complete" THEN Bytes
                                            ELSE snapshot[k].transferred]
    BY DEF ConcludedAll, TrackerTypeOK
  <1>7. StartsFresh(k)'
    BY <1>3 DEF StartsFresh
  <1>8. ConclusionTrue(k)'
    BY <1>1 DEF Replays, ConclusionTrue, transferOwner
  <1>9. CloseTrue(k)'
    BY <1>4, <1>5 DEF CloseTrue, Over, transferOwner
  <1>10. BegunRight(k)'
    BY <1>4, <1>5 DEF BegunRight, Over, Conclusions, transferOwner
  <1>11. SnapshotRight(k)'
    BY <1>4, <1>5, <1>6, TrackerAssumption
    DEF Replays, SnapshotRight, TrackerTypeOK, transferOwner
  <1>. QED
    BY <1>7, <1>8, <1>9, <1>10, <1>11 DEF Replays

-----------------------------------------------------------------------------
(* Every step keeps the invariant.                                          *)

LEMMA ProgressTail ==
    ASSUME NEW q \in Seq(ProgressEvent), q # <<>>
    PROVE  /\ Head(q) = q[1] /\ 1 \in DOMAIN q /\ q[1] \in ProgressEvent
           /\ \A i \in DOMAIN Tail(q) : i + 1 \in DOMAIN q /\ Tail(q)[i] = q[i + 1]
  OBVIOUS

LEMMA ProgressAppend ==
    ASSUME NEW q \in Seq(ProgressEvent), NEW e \in ProgressEvent
    PROVE  \A i \in DOMAIN Append(q, e) :
             \/ i \in DOMAIN q /\ Append(q, e)[i] = q[i]
             \/ Append(q, e)[i] = e
  OBVIOUS

LEMMA TrackerInitInv == TrackerInit => TrackerInv
  <1>. SUFFICES ASSUME TrackerInit PROVE TrackerInv
    OBVIOUS
  <1>1. accounting = <<>> /\ progress = <<>> /\ active = {}
    BY DEF TrackerInit
  <1>2. DOMAIN accounting = {} /\ DOMAIN progress = {}
    BY <1>1
  <1>3. \A k \in Owners : transfer[k] = "new" /\ bytes[k] = 0 /\ snapshot[k] = Unseen
    BY DEF TrackerInit
  <1>4. \A k \in Owners : Replays(k)
    BY <1>1, <1>2, <1>3 DEF Replays, StartsFresh, ConclusionTrue, CloseTrue, BegunRight, Begun,
       Over, SnapshotRight, Unseen, Conclusions
  <1>. QED
    BY <1>2, <1>4, TrackerInitType DEF TrackerInv, ProgressRight

(* A step that leaves a Resource as it is, at its owner and in the registry.*)
LEMMA SameReplays ==
    ASSUME NEW k \in Owners, Replays(k), UNCHANGED <<transferOwner, accounting, tracker>>
    PROVE  Replays(k)'
  BY DEF Replays, StartsFresh, ConclusionTrue, CloseTrue, BegunRight, SnapshotRight, Begun, Over,
         StartOf, EndOf, ConclusionOf, CloseOf, transferOwner, tracker

(* The end that the owner decides on, for one Resource or for a Link.       *)
LEMMA EndsInv ==
    ASSUME TrackerInv, NEW k \in Owners, NEW c \in Conclusions,
           transfer[k] = "running", c = "Complete" => bytes[k] = Bytes,
           EndsAs(k, c), UNCHANGED <<bytes, tracker>>
    PROVE  \A o \in Owners : Replays(o)'
  <1>. DEFINE e == [kind |-> "Concluded", key |-> k, conclusion |-> c]
  <1>1. e \in AccountingEvent
    BY DEF AccountingEvent
  <1>2. accounting' = Append(accounting, e) /\ TrackerTypeOK
    BY DEF EndsAs, TrackerInv
  <1>3. Replays(k)'
    <2>1. transfer'[k] = c /\ About(k, e) /\ e.kind = "Concluded" /\ e.conclusion = c
      BY <1>2 DEF EndsAs, TrackerTypeOK, About
    <2>2. Replays(k)
      BY DEF TrackerInv
    <2>. HIDE DEF e
    <2>. QED
      BY <1>1, <1>2, <2>1, <2>2, AppendEnd
  <1>4. ASSUME NEW o \in Owners, o # k
        PROVE  Replays(o)'
    <2>1. transfer'[o] = transfer[o] /\ ~About(o, e)
      BY <1>2, <1>4 DEF EndsAs, TrackerTypeOK, About
    <2>2. Replays(o)
      BY DEF TrackerInv
    <2>. HIDE DEF e
    <2>. QED
      BY <1>1, <1>2, <2>1, <2>2, AppendOther
  <1>. QED
    BY <1>3, <1>4

LEMMA LinkEndsInv ==
    ASSUME TrackerInv, NEW l \in OwnerLinks, LinkEnds(l), NEW k \in Owners
    PROVE  Replays(k)'
  <1>. DEFINE e == [kind |-> "LinkClosed", link |-> l]
  <1>1. e \in AccountingEvent /\ e.kind = "LinkClosed"
    BY DEF AccountingEvent
  <1>2. accounting' = Append(accounting, e) /\ TrackerTypeOK /\ Replays(k)
        /\ UNCHANGED <<bytes, tracker>>
    BY DEF LinkEnds, TrackerInv
  <1>3. CASE LinkOfKey(k) # l
    <2>1. transfer'[k] = transfer[k] /\ ~About(k, e)
      BY <1>2, <1>3 DEF LinkEnds, TrackerTypeOK, About
    <2>. HIDE DEF e
    <2>. QED
      BY <1>1, <1>2, <2>1, AppendOther
  <1>4. CASE LinkOfKey(k) = l /\ transfer[k] \in {"new", "running"}
    <2>1. transfer'[k] = "Failed" /\ About(k, e)
      BY <1>2, <1>4 DEF LinkEnds, TrackerTypeOK, About
    <2>2. "Failed" \in Conclusions
      BY DEF Conclusions
    <2>. HIDE DEF e
    <2>. QED
      BY <1>1, <1>2, <1>4, <2>1, <2>2, AppendEnd
  <1>5. CASE LinkOfKey(k) = l /\ transfer[k] \notin {"new", "running"}
    <2>1. transfer'[k] = transfer[k] /\ Over(k) /\ About(k, e)
      BY <1>2, <1>5 DEF LinkEnds, TrackerTypeOK, About, Over
    <2>. HIDE DEF e
    <2>. QED
      BY <1>1, <1>2, <2>1, AppendClose
  <1>. QED
    BY <1>3, <1>4, <1>5

LEMMA ReadAccountingInv ==
    ASSUME TrackerInv, ReadAccounting, NEW k \in Owners
    PROVE  Replays(k)'
  <1>. DEFINE e == accounting[1]
  <1>1. TrackerTypeOK /\ Replays(k) /\ accounting # <<>> /\ accounting' = Tail(accounting)
        /\ UNCHANGED transferOwner
    BY DEF TrackerInv, ReadAccounting
  <1>2. Head(accounting) = e /\ e \in AccountingEvent /\ 1 \in DOMAIN accounting
    BY <1>1, ShiftAt
  <1>. HIDE DEF e
  <1>3. CASE e.kind = "Started"
    <2>1. Started(e.key) /\ e.key \in Owners
      BY <1>2, <1>3, EventFields DEF ReadAccounting
    <2>2. CASE e.key = k
      <3>1. StartOf(k, 1)
        BY <1>3, <2>2 DEF StartOf, e
      <3>. QED
        BY <1>1, <2>1, <2>2, <3>1, ReadStart
    <2>3. CASE e.key # k
      <3>1. ~About(k, Head(accounting))
        BY <1>2, <1>3, <2>3 DEF About
      <3>2. snapshot'[k] = snapshot[k] /\ (k \in active' <=> k \in active)
        BY <1>1, <2>1, <2>3 DEF Started, TrackerTypeOK
      <3>. QED
        BY <1>1, <3>1, <3>2, ReadOther
    <2>. QED
      BY <2>2, <2>3
  <1>4. CASE e.kind = "Concluded"
    <2>1. ConcludedAll({e.key}, e.conclusion) /\ e.conclusion \in Conclusions
      BY <1>2, <1>4, EventFields DEF ReadAccounting
    <2>2. CASE e.key = k
      <3>1. EndOf(k, 1) /\ ~CloseOf(k, 1) /\ e.conclusion = accounting[1].conclusion
        BY <1>4, <2>2 DEF EndOf, ConclusionOf, CloseOf, e
      <3>. QED
        BY <1>1, <2>1, <2>2, <3>1, ReadEnd
    <2>3. CASE e.key # k
      <3>1. ~About(k, Head(accounting))
        BY <1>2, <1>4, <2>3 DEF About
      <3>2. snapshot'[k] = snapshot[k] /\ (k \in active' <=> k \in active)
        BY <2>1, <2>3 DEF ConcludedAll
      <3>. QED
        BY <1>1, <3>1, <3>2, ReadOther
    <2>. QED
      BY <2>2, <2>3
  <1>5. CASE e.kind = "LinkClosed"
    <2>. DEFINE keys == {o \in Owners : LinkOfKey(o) = e.link}
    <2>1. ConcludedAll(keys, "Failed") /\ "Failed" \in Conclusions
      BY <1>2, <1>5 DEF ReadAccounting, Conclusions
    <2>2. CASE LinkOfKey(k) = e.link
      <3>1. EndOf(k, 1) /\ ~ConclusionOf(k, 1) /\ k \in keys
        BY <1>5, <2>2 DEF EndOf, ConclusionOf, CloseOf, e
      <3>. HIDE DEF keys
      <3>. QED
        BY <1>1, <2>1, <3>1, ReadEnd
    <2>3. CASE LinkOfKey(k) # e.link
      <3>1. ~About(k, Head(accounting))
        BY <1>2, <1>5, <2>3 DEF About
      <3>2. snapshot'[k] = snapshot[k] /\ (k \in active' <=> k \in active)
        BY <2>1, <2>3 DEF ConcludedAll
      <3>. QED
        BY <1>1, <3>1, <3>2, ReadOther
    <2>. QED
      BY <2>2, <2>3
  <1>. QED
    BY <1>2, <1>3, <1>4, <1>5, EventFields

LEMMA TrackerNextInv ==
    ASSUME TrackerInv, [TrackerNext]_trackerVars
    PROVE  TrackerInv'
  <1>1. TrackerTypeOK'
    BY TrackerNextType DEF TrackerInv
  <1>2. TrackerTypeOK /\ ProgressRight /\ \A k \in Owners : Replays(k)
    BY DEF TrackerInv
  <1>3. /\ progress \in Seq(ProgressEvent) /\ bytes \in [Owners -> 0..Bytes]
        /\ \A i \in DOMAIN progress : progress[i] \in ProgressEvent
        /\ \A i \in DOMAIN progress : progress[i].key \in Owners
    <2>1. /\ progress \in Seq(ProgressEvent) /\ bytes \in [Owners -> 0..Bytes]
          /\ \A i \in DOMAIN progress : progress[i] \in ProgressEvent
      BY <1>2 DEF TrackerTypeOK
    <2>2. \A e \in ProgressEvent : e.key \in Owners
      BY DEF ProgressEvent
    <2>. QED
      BY <2>1, <2>2
  <1>4. ASSUME UNCHANGED <<bytes, progress>>
        PROVE  ProgressRight'
    BY <1>2, <1>4 DEF ProgressRight
  <1>5. ASSUME NEW k \in Owners, Begins(k), NEW o \in Owners
        PROVE  Replays(o)'
    <2>1. CASE o = k
      BY <1>2, <1>5, <2>1, AppendStart
    <2>2. CASE o # k
      <3>. DEFINE e == [kind |-> "Started", key |-> k]
      <3>1. e \in AccountingEvent /\ ~About(o, e)
        BY <2>2 DEF AccountingEvent, About
      <3>2. accounting' = Append(accounting, e) /\ transfer'[o] = transfer[o]
            /\ UNCHANGED <<bytes, tracker>>
        BY <1>2, <1>5, <2>2 DEF Begins, TrackerTypeOK
      <3>. HIDE DEF e
      <3>. QED
        BY <1>2, <3>1, <3>2, AppendOther
    <2>. QED
      BY <2>1, <2>2
  <1>6. ASSUME NEW k \in Owners, Begins(k)
        PROVE  TrackerInv'
    BY <1>1, <1>4, <1>5, <1>6 DEF Begins, TrackerInv
  <1>7. ASSUME NEW k \in Owners, Advances(k)
        PROVE  TrackerInv'
    <2>1. \A o \in Owners : bytes[o] <= bytes'[o]
      BY <1>3, <1>7, TrackerAssumption DEF Advances
    <2>2. \A o \in Owners : bytes[o] \in 0..Bytes /\ bytes'[o] \in 0..Bytes
      BY <1>1, <1>3 DEF TrackerTypeOK
    <2>3. ASSUME NEW o \in Owners
          PROVE  Replays(o)'
      <3>1. /\ transfer' = transfer /\ accounting' = accounting
            /\ active' = active /\ snapshot' = snapshot
        BY <1>7 DEF Advances, tracker
      <3>2. transfer[o] = "Complete" => bytes'[o] = bytes[o]
        BY <1>3, <1>7 DEF Advances
      <3>3. SnapshotRight(o)'
        BY <1>2, <2>1, <2>2, <3>1, <3>2 DEF Replays, SnapshotRight, TrackerTypeOK
      <3>4. StartsFresh(o)' /\ ConclusionTrue(o)' /\ CloseTrue(o)' /\ BegunRight(o)'
        BY <1>2, <3>1
        DEF Replays, StartsFresh, ConclusionTrue, CloseTrue, BegunRight, Begun, Over,
            StartOf, EndOf, ConclusionOf, CloseOf
      <3>. QED
        BY <3>3, <3>4 DEF Replays
    <2>4. ProgressRight'
      <3>. DEFINE e == [key |-> k, transferred |-> bytes[k] + 1]
      <3>1. e \in ProgressEvent /\ e.transferred <= bytes'[e.key]
        BY <1>3, <1>7, TrackerAssumption DEF Advances, ProgressEvent
      <3>2. \A i \in DOMAIN progress : progress[i].transferred \in 0..Bytes
        BY <1>3 DEF ProgressEvent
      <3>3. \A i \in DOMAIN progress : progress[i].transferred <= bytes'[progress[i].key]
        BY <1>2, <1>3, <2>1, <2>2, <3>2, TrackerAssumption DEF ProgressRight
      <3>4. \A i \in DOMAIN progress' :
              (i \in DOMAIN progress /\ progress'[i] = progress[i]) \/ progress'[i] = e
        <4>. HIDE DEF e
        <4>1. CASE progress' = progress
          BY <4>1
        <4>2. CASE progress' = Append(progress, e)
          BY <1>3, <3>1, <4>2, ProgressAppend
        <4>. QED
          BY <1>7, <4>1, <4>2 DEF Advances, e
      <3>. HIDE DEF e
      <3>. QED
        BY <3>1, <3>3, <3>4 DEF ProgressRight
    <2>. QED
      BY <1>1, <2>3, <2>4 DEF TrackerInv
  <1>8. ASSUME NEW k \in Owners, NEW c \in Conclusions, Finishes(k, c)
        PROVE  TrackerInv'
    BY <1>1, <1>4, <1>8, EndsInv DEF Finishes, TrackerInv
  <1>9. ASSUME NEW l \in OwnerLinks, LinkEnds(l)
        PROVE  TrackerInv'
    BY <1>1, <1>4, <1>9, LinkEndsInv DEF LinkEnds, TrackerInv
  <1>10. CASE CommandArrives
    <2>1. Head(commands) \in Owners /\ UNCHANGED <<bytes, progress, tracker>>
      BY <1>2, <1>10 DEF CommandArrives, TrackerTypeOK
    <2>2. \A o \in Owners : Replays(o)'
      <3>1. CASE transfer[Head(commands)] = "running"
        <4>1. EndsAs(Head(commands), "Cancelled") /\ "Cancelled" \in Conclusions
          BY <1>10, <3>1 DEF CommandArrives, Conclusions
        <4>. QED
          BY <2>1, <3>1, <4>1, EndsInv
      <3>2. CASE transfer[Head(commands)] # "running"
        BY <1>2, <1>10, <2>1, <3>2, SameReplays DEF CommandArrives, transferOwner
      <3>. QED
        BY <3>1, <3>2
    <2>. QED
      BY <1>1, <1>4, <2>1, <2>2 DEF TrackerInv
  <1>11. CASE ReadAccounting
    BY <1>1, <1>4, <1>11, ReadAccountingInv DEF ReadAccounting, TrackerInv, transferOwner
  <1>12. CASE ReadProgress
    <2>. DEFINE e == progress[1]
    <2>1. /\ Head(progress) = e /\ e.key \in Owners /\ e.transferred <= bytes[e.key]
          /\ \A i \in DOMAIN progress' : i + 1 \in DOMAIN progress /\ progress'[i] = progress[i + 1]
      BY <1>2, <1>3, <1>12, ProgressTail DEF ReadProgress, ProgressRight
    <2>. HIDE DEF e
    <2>2. UNCHANGED <<transfer, bytes, accounting, active>> /\ ProgressSeen(e.key, e.transferred)
      BY <1>12, <2>1 DEF ReadProgress, ProgressSeen, transferOwner
    <2>3. ProgressRight'
      BY <1>2, <2>1, <2>2 DEF ProgressRight
    <2>4. ASSUME NEW o \in Owners
          PROVE  Replays(o)'
      <3>1. /\ snapshot'[o].status = snapshot[o].status
            /\ snapshot'[o].transferred =
                 IF o = e.key /\ o \in active THEN e.transferred ELSE snapshot[o].transferred
        BY <1>2, <2>1, <2>2 DEF ProgressSeen, TrackerTypeOK
      <3>2. SnapshotRight(o)'
        BY <1>2, <2>1, <2>2, <3>1 DEF Replays, SnapshotRight
      <3>3. StartsFresh(o)' /\ ConclusionTrue(o)' /\ CloseTrue(o)' /\ BegunRight(o)'
        BY <1>2, <2>2, <3>1
        DEF Replays, StartsFresh, ConclusionTrue, CloseTrue, BegunRight, Begun, Over,
            StartOf, EndOf, ConclusionOf, CloseOf
      <3>. QED
        BY <3>2, <3>3 DEF Replays
    <2>. QED
      BY <1>1, <2>3, <2>4 DEF TrackerInv
  <1>13. ASSUME UNCHANGED <<transferOwner, streams, tracker>>
         PROVE  TrackerInv'
    BY <1>1, <1>2, <1>4, <1>13, SameReplays DEF TrackerInv, transferOwner, streams
  <1>14. ASSUME NEW keys, Asks(keys)
         PROVE  TrackerInv'
    BY <1>13, <1>14 DEF Asks
  <1>15. CASE \/ \E k \in Owners : CancelExact(k)
              \/ \E i \in Ids : CancelById(i)
              \/ CancelAll
    BY <1>14, <1>15 DEF CancelExact, CancelById, CancelAll
  <1>16. CASE ForwardCancels \/ UNCHANGED trackerVars
    BY <1>13, <1>16 DEF ForwardCancels, trackerVars
  <1>. QED
    BY <1>6, <1>7, <1>8, <1>9, <1>10, <1>11, <1>12, <1>15, <1>16 DEF TrackerNext

LEMMA TrackerInvImplies == TrackerInv => TrackerExact
  <1>. SUFFICES ASSUME TrackerInv PROVE TrackerExact
    OBVIOUS
  <1>1. TrackerTypeOK /\ \A k \in Owners : Replays(k)
    BY DEF TrackerInv
  <1>2. ASSUME accounting = <<>>, NEW k \in Owners
        PROVE  k \in active <=> transfer[k] = "running"
    <2>1. DOMAIN accounting = {}
      BY <1>2
    <2>2. Begun(k) <=> k \in active
      BY <2>1 DEF Begun
    <2>3. transfer[k] \in {"new", "running"} \/ Over(k)
      BY <1>1 DEF TrackerTypeOK, Over
    <2>. QED
      BY <1>1, <2>1, <2>2, <2>3 DEF Replays, BegunRight
  <1>3. accounting = <<>> => active = {k \in Owners : transfer[k] = "running"}
    BY <1>1, <1>2 DEF TrackerTypeOK
  <1>. QED
    BY <1>1, <1>3 DEF TrackerExact, Replays, SnapshotRight

-----------------------------------------------------------------------------
(* Owner, streams, registry, handles and channels hold what they are meant  *)
(* to, and no channel more than its capacity.                               *)
THEOREM TrackerTypes == TrackerSpec => []TrackerTypeOK
  BY TrackerInitType, TrackerNextType, PTL DEF TrackerSpec

(* Whatever progress is dropped or read late, the registry lists exactly    *)
(* the transfers that run once the accounting stream has been read, and a   *)
(* handle shows as closed only what ended at its owner, and just so.        *)
THEOREM RegistryExact == TrackerSpec => []TrackerExact
  BY TrackerInitInv, TrackerNextInv, TrackerInvImplies, PTL DEF TrackerSpec
=============================================================================
