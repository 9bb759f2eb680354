------------------------ MODULE DownloadSystem_proofs ------------------------
(* Proofs about DownloadSystem: nothing a node held is lost, the cursors    *)
(* stay aligned with the requests, an item has one holder, and wants are    *)
(* requested only after the rejections are on disk.                         *)
EXTENDS DownloadSystem, FiniteSetTheorems, WellFoundedInduction, TLAPS

LEMMA CountUp ==
    ASSUME NEW good \in SUBSET Nat, 0 \in good, \A n \in good : n + 1 \in good
    PROVE  good = Nat
  <1> DEFINE less == OpToRel(<, Nat)
             bad == Nat \ good
  <1>1. IsWellFoundedOn(less, Nat)
    BY NatLessThanWellFounded
  <1>2. \A m, n \in Nat : m < n => <<m, n>> \in less
    BY DEF OpToRel
  <1> HIDE DEF less
  <1>3. SUFFICES ASSUME bad # {} PROVE FALSE
    OBVIOUS
  <1>4. PICK n \in bad : \A m \in bad : ~ (<<m, n>> \in less)
    BY <1>1, <1>3, WFMin
  <1>5. n \in Nat /\ n # 0 /\ n - 1 \in Nat /\ n - 1 < n
    BY <1>4
  <1>6. n - 1 \in good
    BY <1>2, <1>4, <1>5
  <1>7. (n - 1) + 1 \in good /\ (n - 1) + 1 = n
    BY <1>5, <1>6
  <1> QED
    BY <1>4, <1>7

(* out is what a sequence keeps of its first n elements: place gives, for    *)
(* each of its elements, where it stood.                                     *)
Keeps(out, place, seq, n, S) ==
    /\ place \in [1 .. Len(out) -> 1 .. n]
    /\ \A i, j \in 1 .. Len(out) : i < j => place[i] < place[j]
    /\ \A i \in 1 .. Len(out) : out[i] = seq[place[i]] /\ out[i] \in S
    /\ \A k \in 1 .. n : seq[k] \in S => \E i \in 1 .. Len(out) : place[i] = k

KeptStep(f, seq, S, i) ==
    IF i = 0 THEN <<>> ELSE IF seq[i] \in S THEN Append(f[i - 1], seq[i]) ELSE f[i - 1]

IsKept(f, seq, S, n) == f = [i \in 0 .. n |-> KeptStep(f, seq, S, i)]

LEMMA KeptExists ==
    ASSUME NEW seq, NEW S
    PROVE  \A n \in Nat : \E f : IsKept(f, seq, S, n)
  <1> USE DEF IsKept
  <1> DEFINE good == {n \in Nat : \E f : f = [i \in 0 .. n |-> KeptStep(f, seq, S, i)]}
  <1>1. 0 \in good
    <2> DEFINE f == [i \in 0 .. 0 |-> <<>>]
    <2>1. f = [i \in 0 .. 0 |-> KeptStep(f, seq, S, i)]
      BY DEF KeptStep
    <2> QED
      BY <2>1
  <1>2. ASSUME NEW n \in good PROVE n + 1 \in good
    <2>1. PICK f : f = [i \in 0 .. n |-> KeptStep(f, seq, S, i)]
      OBVIOUS
    <2> DEFINE g == [i \in 0 .. n + 1 |-> IF i <= n THEN f[i] ELSE KeptStep(f, seq, S, i)]
               h == [i \in 0 .. n + 1 |-> KeptStep(g, seq, S, i)]
    <2>2. n \in Nat
      OBVIOUS
    <2>3. ASSUME NEW i \in 0 .. n + 1 PROVE g[i] = h[i]
      <3>1. CASE i = 0
        <4>1. f[0] = KeptStep(f, seq, S, 0)
          BY SMTT(30), <2>1, <2>2
        <4> QED
          BY <3>1, <4>1, <2>2 DEF KeptStep
      <3>2. CASE i # 0
        <4>1. i - 1 \in 0 .. n /\ i \in Nat
          BY <3>2, <2>2
        <4>2. g[i - 1] = f[i - 1]
          BY <4>1, <2>2
        <4>3. KeptStep(g, seq, S, i) = KeptStep(f, seq, S, i)
          BY <4>2, <3>2 DEF KeptStep
        <4>4. g[i] = KeptStep(f, seq, S, i)
          <5>1. CASE i <= n
            <6>1. i \in 0 .. n
              BY <5>1, <4>1, <2>2
            <6>2. f[i] = KeptStep(f, seq, S, i)
              BY <6>1, <2>1
            <6> QED
              BY <6>2, <5>1
          <5>2. CASE ~(i <= n)
            BY <5>2
          <5> QED
            BY <5>1, <5>2
        <4> QED
          BY <4>3, <4>4
      <3> QED
        BY <3>1, <3>2
    <2>4. g = h
      BY <2>3
    <2> HIDE DEF g
    <2>5. \E k : k = [i \in 0 .. n + 1 |-> KeptStep(k, seq, S, i)]
      BY <2>4
    <2> QED
      BY <2>2, <2>5
  <1> HIDE DEF good
  <1>3. good \in SUBSET Nat
    BY DEF good
  <1>4. good = Nat
    BY <1>1, <1>2, <1>3, CountUp
  <1> QED
    BY <1>4 DEF good

LEMMA KeptIs ==
    ASSUME NEW T, NEW seq \in Seq(T), NEW S
    PROVE  /\ Kept(seq, S) \in Seq(T)
           /\ \E place : Keeps(Kept(seq, S), place, seq, Len(seq), S)
  <1> DEFINE len == Len(seq)
             kept == CHOOSE f : f = [i \in 0 .. len |-> KeptStep(f, seq, S, i)]
             Done(n) == n <= len =>
                /\ kept[n] \in Seq(T)
                /\ \E place : Keeps(kept[n], place, seq, n, S)
             good == {n \in Nat : Done(n)}
  <1>1. len \in Nat /\ \A i \in 1 .. len : seq[i] \in T
    OBVIOUS
  <1>2. kept = [i \in 0 .. len |-> KeptStep(kept, seq, S, i)]
    <2>1. \E f : IsKept(f, seq, S, len)
      BY <1>1, KeptExists
    <2> QED
      BY <2>1 DEF IsKept
  <1>3. Kept(seq, S) = kept[len]
    BY DEF Kept, KeptStep
  <1> HIDE DEF kept
  <1>4. 0 \in good
    <2>1. kept[0] = <<>>
      BY <1>1, <1>2 DEF KeptStep
    <2> DEFINE none == [i \in 1 .. 0 |-> 0]
    <2>2. <<>> \in Seq(T) /\ Len(<<>>) = 0
      OBVIOUS
    <2>3. Keeps(<<>>, none, seq, 0, S)
      BY <2>2 DEF Keeps
    <2> HIDE DEF none
    <2>4. Done(0)
      BY <2>1, <2>2, <2>3
    <2> QED
      BY <2>4
  <1>5. ASSUME NEW n \in good PROVE n + 1 \in good
    <2>1. n \in Nat /\ Done(n)
      OBVIOUS
    <2>2. SUFFICES ASSUME n + 1 <= len
                   PROVE  /\ kept[n + 1] \in Seq(T)
                          /\ \E place : Keeps(kept[n + 1], place, seq, n + 1, S)
      BY <2>1
    <2>3. n + 1 \in 0 .. len /\ n + 1 \in 1 .. len /\ n <= len /\ n \in 0 .. len
      BY <2>1, <2>2, <1>1
    <2>4. PICK place : kept[n] \in Seq(T) /\ Keeps(kept[n], place, seq, n, S)
      BY <2>1, <2>3
    <2>5. kept[n + 1] = IF seq[n + 1] \in S THEN Append(kept[n], seq[n + 1]) ELSE kept[n]
      <3>1. kept[n + 1] = KeptStep(kept, seq, S, n + 1)
        BY <2>3, <1>2
      <3>2. n + 1 # 0 /\ (n + 1) - 1 = n
        BY <2>1
      <3> QED
        BY <3>1, <3>2 DEF KeptStep
    <2>6. seq[n + 1] \in T
      BY <2>3, <1>1
    <2>7. CASE seq[n + 1] \notin S
      <3>1. kept[n + 1] = kept[n]
        BY <2>5, <2>7
      <3>2. Keeps(kept[n], place, seq, n + 1, S)
        BY SMTT(30), <2>4, <2>7, <2>1 DEF Keeps
      <3> QED
        BY <3>1, <3>2, <2>4
    <2>8. CASE seq[n + 1] \in S
      <3> DEFINE m == Len(kept[n])
                 out == Append(kept[n], seq[n + 1])
                 more == [i \in 1 .. m + 1 |-> IF i <= m THEN place[i] ELSE n + 1]
      <3>1. kept[n + 1] = out
        BY <2>5, <2>8
      <3>2. /\ out \in Seq(T) /\ m \in Nat /\ Len(out) = m + 1 /\ out[m + 1] = seq[n + 1]
            /\ \A i \in 1 .. m : out[i] = kept[n][i]
        BY <2>4, <2>6
      <3>3. place \in [1 .. m -> 1 .. n]
        BY <2>4 DEF Keeps
      <3>4. more \in [1 .. m + 1 -> 1 .. n + 1]
        BY <3>2, <3>3, <2>1
      <3>5. ASSUME NEW i \in 1 .. m + 1, NEW j \in 1 .. m + 1, i < j PROVE more[i] < more[j]
        <4>1. i \in 1 .. m
          BY <3>2, <3>5
        <4>4. more[i] = place[i] /\ place[i] \in 1 .. n
          <5>1. place[i] \in 1 .. n
            BY <3>3, <4>1
          <5>2. i \in 1 .. m + 1 /\ i <= m
            BY <4>1, <3>2
          <5> QED
            BY <5>1, <5>2
        <4>2. CASE j <= m
          <5>1. j \in 1 .. m /\ more[j] = place[j]
            BY <4>2, <3>2
          <5> QED
            BY <4>1, <4>4, <5>1, <2>4, <3>5 DEF Keeps
        <4>3. CASE ~(j <= m)
          <5>1. more[j] = n + 1
            BY <4>3
          <5> QED
            BY <4>1, <4>4, <5>1, <2>1
        <4> QED
          BY <4>2, <4>3
      <3>6. \A i \in 1 .. m + 1 : out[i] = seq[more[i]] /\ out[i] \in S
        BY <3>2, <3>3, <2>1, <2>4, <2>8 DEF Keeps
      <3>7. \A k \in 1 .. n + 1 : seq[k] \in S => \E i \in 1 .. m + 1 : more[i] = k
        <4>1. ASSUME NEW k \in 1 .. n + 1, seq[k] \in S PROVE \E i \in 1 .. m + 1 : more[i] = k
          <5>1. CASE k = n + 1
            <6>1. m + 1 \in 1 .. m + 1 /\ more[m + 1] = n + 1
              BY <3>2
            <6> QED
              BY <5>1, <6>1
          <5>2. CASE k # n + 1
            <6>1. k \in 1 .. n
              BY <5>2, <2>1
            <6>2. PICK i \in 1 .. m : place[i] = k
              BY <6>1, <4>1, <2>4 DEF Keeps
            <6>3. i \in 1 .. m + 1 /\ more[i] = place[i]
              BY <3>2
            <6> QED
              BY <6>2, <6>3
          <5> QED
            BY <5>1, <5>2
        <4> QED
          BY <4>1
      <3> HIDE DEF out, more, m
      <3>8. Keeps(out, more, seq, n + 1, S)
        BY <3>2, <3>4, <3>5, <3>6, <3>7 DEF Keeps
      <3> QED
        BY <3>1, <3>2, <3>8
    <2> QED
      BY <2>7, <2>8
  <1>6. good \in SUBSET Nat
    OBVIOUS
  <1> HIDE DEF good
  <1>7. good = Nat
    BY <1>4, <1>5, <1>6, CountUp
  <1>8. Done(len)
    BY <1>1, <1>7 DEF good
  <1> QED
    BY <1>1, <1>3, <1>8

LEMMA KeptIds ==
    ASSUME NEW T, NEW seq \in Seq(T), NEW S
    PROVE  Kept(seq, S) \in Seq(T) /\ Ids(Kept(seq, S)) \subseteq Ids(seq) \cap S
  <1>1. PICK place : Keeps(Kept(seq, S), place, seq, Len(seq), S)
    BY KeptIs
  <1>2. Kept(seq, S) \in Seq(T)
    BY KeptIs
  <1>3. DOMAIN seq = 1 .. Len(seq) /\ DOMAIN Kept(seq, S) = 1 .. Len(Kept(seq, S))
    BY <1>2
  <1> QED
    BY <1>1, <1>2, <1>3 DEF Keeps, Ids

LEMMA InOrderTypes ==
    ASSUME NEW S
    PROVE  InOrder(S) \in Seq(Tid)
  <1>1. [i \in Tid |-> i] \in Seq(Tid)
    BY ConstantAssumption DEF Tid
  <1> QED
    BY <1>1, KeptIds DEF InOrder

LEMMA ChunkIs ==
    ASSUME NEW seq \in Seq(Tid)
    PROVE  /\ Chunk(seq) \in Chunks /\ Ids(Chunk(seq)) \subseteq Ids(seq)
           /\ \A i \in DOMAIN Chunk(seq) : i \in DOMAIN seq /\ seq[i] = Chunk(seq)[i]
  <1> DEFINE n == Smaller(MaxChunk, Len(seq))
  <1>1. n \in 0 .. Len(seq) /\ n <= MaxChunk
    BY ConstantAssumption DEF Smaller
  <1>2. /\ Chunk(seq) \in Seq(Tid) /\ Len(Chunk(seq)) = n
        /\ \A i \in 1 .. n : Chunk(seq)[i] = seq[i]
    BY <1>1 DEF Chunk
  <1>3. DOMAIN Chunk(seq) = 1 .. n /\ DOMAIN seq = 1 .. Len(seq)
    BY <1>2
  <1> QED
    BY <1>1, <1>2, <1>3 DEF Chunks, Ids

LEMMA WithoutIs ==
    ASSUME NEW T, NEW seq \in Seq(T), NEW n \in Nat
    PROVE  Without(seq, n) \in Seq(T) /\ Ids(Without(seq, n)) \subseteq Ids(seq)
  <1>1. CASE n < Len(seq)
    <2>1. /\ Without(seq, n) \in Seq(T) /\ Len(Without(seq, n)) = Len(seq) - n
          /\ \A i \in 1 .. Len(seq) - n : Without(seq, n)[i] = seq[n + i]
      BY <1>1 DEF Without
    <2> QED
      BY <2>1, <1>1 DEF Ids
  <1>2. CASE ~(n < Len(seq))
    <2>1. Without(seq, n) = <<>>
      BY <1>2 DEF Without
    <2> QED
      BY <2>1 DEF Ids
  <1> QED
    BY <1>1, <1>2
-----------------------------------------------------------------------------
(* A client record that is right: its lists name only what was settled, and  *)
(* its request is the front of a cursor.                                     *)
Known(c) == Ids(c.haves) \cup Ids(c.received) \cup c.local \subseteq settled

Front(ids, cursor) == \A i \in DOMAIN ids : i \in DOMAIN cursor /\ cursor[i] = ids[i]
Aligned(c) ==
    c.request # None /\ c.request.kind # "List" =>
        Front(c.request.ids, IF c.request.kind = "Get" THEN c.wants
                             ELSE IF c.request.kind = "Haves" THEN c.haves ELSE c.received)

Right(c) == c \in Client /\ Known(c) /\ Aligned(c)

(* How a client record c may become d within one step: rejections are only   *)
(* added to what has to be persisted, and wants asked for only when nothing  *)
(* is left to persist; and the tokens are untouched, or all revoked.         *)
Agrees(l1, l2) == \A t \in Recorded(l1) : l2[t] = l1[t]
Records(c, d) ==
    /\ (c.dirty => d.dirty) /\ (c.persistFailed => d.persistFailed)
    /\ (c.revised => d.revised) /\ (c.revoked => d.revoked)
    /\ Agrees(d.ledger, c.ledger) \/ (d.revised /\ d.dirty)
    /\ d.request # None /\ d.request # c.request /\ d.request.kind = "Get"
          => ~c.dirty /\ ~c.persistFailed
Tokens(c, d) ==
    \/ d.revoked = c.revoked /\ d.pending = c.pending /\ d.unread = c.unread
    \/ d.revoked /\ d.pending = d.unread
Evolves(c, d) == Records(c, d) /\ Tokens(c, d)

LEMMA EvolvesSelf ==
    ASSUME NEW c
    PROVE  Evolves(c, c)
  BY DEF Evolves, Records, Tokens, Agrees

LEMMA EvolvesOn ==
    ASSUME NEW b \in Client, NEW c \in Client, NEW d \in Client, Evolves(b, c), Evolves(c, d)
    PROVE  Evolves(b, d)
  <1>1. Tokens(b, d)
    BY DEF Evolves, Tokens, Records, Client
  <1>2. Agrees(d.ledger, b.ledger) \/ (d.revised /\ d.dirty)
    BY DEF Evolves, Records, Agrees, Recorded, Client
  <1>3. /\ (b.dirty => d.dirty) /\ (b.persistFailed => d.persistFailed)
        /\ (b.revised => d.revised) /\ (b.revoked => d.revoked)
    BY DEF Evolves, Records
  <1>4. d.request # None /\ d.request # b.request /\ d.request.kind = "Get"
          => ~b.dirty /\ ~b.persistFailed
    <2>1. CASE d.request # c.request
      BY <2>1 DEF Evolves, Records
    <2>2. CASE d.request = c.request
      <3>1. ASSUME d.request # None, d.request # b.request, d.request.kind = "Get"
            PROVE  ~b.dirty /\ ~b.persistFailed
        BY <2>2, <3>1 DEF Evolves, Records
      <3> QED
        BY <3>1
    <2> QED
      BY <2>1, <2>2
  <1>5. Records(b, d)
    BY <1>2, <1>3, <1>4 DEF Records
  <1> QED
    BY <1>1, <1>5 DEF Evolves

LEMMA RevokeRight ==
    ASSUME NEW c, Right(c)
    PROVE  Right(Revoke(c)) /\ Evolves(c, Revoke(c))
  BY DEF Right, Known, Aligned, Front, Revoke, Evolves, Records, Tokens, Agrees, Client

LEMMA FailRight ==
    ASSUME NEW c, Right(c)
    PROVE  Right(Fail(c)) /\ Evolves(c, Fail(c))
  BY ZenonT(60)
     DEF Right, Known, Aligned, Front, Fail, Revoke, Evolves, Records, Tokens, Agrees, Client, Terminal

LEMMA CleanupRight ==
    ASSUME NEW c, Right(c)
    PROVE  Right(Cleanup(c)) /\ Evolves(c, Cleanup(c))
  BY DEF Right, Known, Aligned, Front, Cleanup, Revoke, Evolves, Records, Tokens, Agrees, Client

LEMMA PruneHavesRight ==
    ASSUME NEW c, Right(c)
    PROVE  Right(PruneHaves(c)) /\ Evolves(c, PruneHaves(c))
  <1> DEFINE kept == c.local \ expired
             p == PruneHaves(c)
  <1>1. c \in Client /\ Known(c) /\ Aligned(c)
    BY DEF Right
  <1>2. kept \in SUBSET Tid /\ kept \subseteq settled /\ c.haves \in Seq(Tid) /\ c.received \in Seq(Tid)
    BY <1>1 DEF Client, Known
  <1>3. /\ Kept(c.haves, kept) \in Seq(Tid) /\ Ids(Kept(c.haves, kept)) \subseteq kept
        /\ Kept(c.received, kept) \in Seq(Tid) /\ Ids(Kept(c.received, kept)) \subseteq kept
    BY <1>2, KeptIds
  <1>4. CASE c.request = None
    <2> DEFINE d == [c EXCEPT !.local = kept, !.haves = Kept(c.haves, kept), !.received = Kept(c.received, kept)]
    <2>1. p = d
      BY <1>4 DEF PruneHaves
    <2>2. d \in Client
      BY <1>1, <1>2, <1>3 DEF Client
    <2>3. Known(d)
      BY <1>1, <1>2, <1>3 DEF Client, Known
    <2>4. Aligned(d) /\ Evolves(c, d)
      BY <1>1, <1>4 DEF Client, Aligned, Evolves, Records, Tokens, Agrees
    <2> QED
      BY <2>1, <2>2, <2>3, <2>4 DEF Right
  <1>5. CASE c.request # None
    <2> DEFINE d == [c EXCEPT !.local = kept]
    <2>1. p = d
      BY <1>5 DEF PruneHaves
    <2>2. d \in Client
      BY <1>1, <1>2 DEF Client
    <2>3. Known(d)
      BY <1>1, <1>2 DEF Client, Known
    <2>4. Aligned(d) /\ Evolves(c, d)
      BY <1>1 DEF Client, Aligned, Front, Evolves, Records, Tokens, Agrees
    <2> QED
      BY <2>1, <2>2, <2>3, <2>4 DEF Right
  <1> QED
    BY <1>4, <1>5

LEMMA PrunedLedger ==
    ASSUME NEW ledger \in Ledger
    PROVE  /\ [u \in Tid |-> IF ledger[u] = "stale" THEN None ELSE ledger[u]] \in Ledger
           /\ Agrees([u \in Tid |-> IF ledger[u] = "stale" THEN None ELSE ledger[u]], ledger)
  BY DEF Ledger, Agrees, Recorded

LEMMA PruneSuppressionRight ==
    ASSUME NEW c, Right(c)
    PROVE  Right(PruneSuppression(c)) /\ Evolves(c, PruneSuppression(c))
  <1> DEFINE pruned == [t \in Tid |-> IF c.ledger[t] = "stale" THEN None ELSE c.ledger[t]]
             d == [c EXCEPT !.ledger = pruned, !.dirty = TRUE, !.revised = TRUE]
  <1>1. c \in Client /\ Known(c) /\ Aligned(c)
    BY DEF Right
  <1>2. CASE \E t \in Tid : c.ledger[t] = "stale"
    <2>1. PruneSuppression(c) = d
      BY <1>1, <1>2 DEF PruneSuppression, Revised, Client
    <2>2. pruned \in Ledger
      BY <1>1, PrunedLedger DEF Client
    <2> HIDE DEF pruned
    <2>3. d \in Client /\ Known(d) /\ Aligned(d)
      BY <1>1, <2>2 DEF Client, Known, Aligned, Front
    <2>4. Evolves(c, d)
      BY <1>1 DEF Client, Evolves, Records, Tokens
    <2> QED
      BY <2>1, <2>3, <2>4 DEF Right
  <1>3. CASE ~ \E t \in Tid : c.ledger[t] = "stale"
    <2>1. PruneSuppression(c) = c
      BY <1>3 DEF PruneSuppression
    <2> QED
      BY <2>1, EvolvesSelf
  <1> QED
    BY <1>2, <1>3

LEMMA SendRight ==
    ASSUME NEW c, Right(c), NEW kind \in Kind, NEW ids \in Chunks,
           kind # "List" =>
              Front(ids, IF kind = "Get" THEN c.wants ELSE IF kind = "Haves" THEN c.haves ELSE c.received),
           kind = "Get" => ~c.dirty /\ ~c.persistFailed
    PROVE  Right(Send(c, kind, ids)) /\ Evolves(c, Send(c, kind, ids))
  <1> DEFINE m == [kind |-> kind, ids |-> ids]
             d == [c EXCEPT !.request = m, !.state = StateOf(kind)]
  <1>1. c \in Client /\ Known(c)
    BY DEF Right
  <1>2. m \in Request /\ m.kind = kind /\ m.ids = ids /\ StateOf(kind) \in Active
    BY DEF Request, StateOf, Active
  <1> HIDE DEF m
  <1>3. d \in Client /\ d.request = m /\ Known(d)
    BY <1>1, <1>2 DEF Client, Known
  <1>4. Aligned(d)
    BY <1>1, <1>2, <1>3 DEF Client, Aligned
  <1>5. Evolves(c, d)
    BY <1>1, <1>2, <1>3 DEF Client, Evolves, Records, Tokens, Agrees
  <1> QED
    BY <1>3, <1>4, <1>5 DEF Right, Send, m

LEMMA SetState ==
    ASSUME NEW c, Right(c), NEW s \in Active \cup Terminal \cup {"Idle"}
    PROVE  Right([c EXCEPT !.state = s]) /\ Evolves(c, [c EXCEPT !.state = s])
  BY ZenonT(60) DEF Right, Known, Aligned, Front, Evolves, Records, Tokens, Agrees, Client

LEMMA SendNextRight ==
    ASSUME NEW c, Right(c)
    PROVE  Right(SendNextChunk(c)) /\ Evolves(c, SendNextChunk(c))
  <1> DEFINE p == PruneHaves(c)
  <1>1. Right(p) /\ Evolves(c, p) /\ c \in Client /\ p \in Client
    BY PruneHavesRight DEF Right
  <1>2. p.received \in Seq(Tid) /\ p.haves \in Seq(Tid) /\ p.wants \in Seq(Tid)
    BY <1>1 DEF Client
  <1>3. ASSUME NEW d, Right(d), Evolves(p, d) PROVE Right(d) /\ Evolves(c, d)
    BY <1>1, <1>3, EvolvesOn DEF Right
  <1>4. CASE c.request # None \/ c.pending # {} \/ c.state = "Failed"
    BY <1>4, EvolvesSelf DEF SendNextChunk
  <1>5. CASE ~(c.request # None \/ c.pending # {} \/ c.state = "Failed")
    <2> HIDE DEF p
    <2>1. CASE p.received # <<>>
      <3>1. SendNextChunk(c) = Send(p, "Purge", Chunk(p.received))
        BY <1>5, <2>1 DEF SendNextChunk, p
      <3>2. Front(Chunk(p.received), p.received) /\ Chunk(p.received) \in Chunks
        BY <1>2, ChunkIs DEF Front
      <3>3. Right(Send(p, "Purge", Chunk(p.received))) /\ Evolves(p, Send(p, "Purge", Chunk(p.received)))
        BY <1>1, <3>2, SendRight DEF Kind
      <3> QED
        BY <1>3, <3>1, <3>3
    <2>2. CASE p.received = <<>> /\ p.haves # <<>>
      <3>1. SendNextChunk(c) = Send(p, "Haves", Chunk(p.haves))
        BY <1>5, <2>2 DEF SendNextChunk, p
      <3>2. Front(Chunk(p.haves), p.haves) /\ Chunk(p.haves) \in Chunks
        BY <1>2, ChunkIs DEF Front
      <3>3. Right(Send(p, "Haves", Chunk(p.haves))) /\ Evolves(p, Send(p, "Haves", Chunk(p.haves)))
        BY <1>1, <3>2, SendRight DEF Kind
      <3> QED
        BY <1>3, <3>1, <3>3
    <2>3. CASE p.received = <<>> /\ p.haves = <<>> /\ (p.dirty \/ p.persistFailed)
      <3>1. SendNextChunk(c) = [p EXCEPT !.state = "AwaitingAdmission"]
        BY <1>5, <2>3 DEF SendNextChunk, p
      <3> QED
        BY <1>1, <1>3, <3>1, SetState DEF Active
    <2>4. CASE p.received = <<>> /\ p.haves = <<>> /\ ~(p.dirty \/ p.persistFailed) /\ p.wants # <<>>
      <3>1. SendNextChunk(c) = Send(p, "Get", Chunk(p.wants))
        BY <1>5, <2>4 DEF SendNextChunk, p
      <3>2. Front(Chunk(p.wants), p.wants) /\ Chunk(p.wants) \in Chunks
        BY <1>2, ChunkIs DEF Front
      <3>3. Right(Send(p, "Get", Chunk(p.wants))) /\ Evolves(p, Send(p, "Get", Chunk(p.wants)))
        BY <1>1, <2>4, <3>2, SendRight DEF Kind
      <3> QED
        BY <1>3, <3>1, <3>3
    <2>5. CASE p.received = <<>> /\ p.haves = <<>> /\ ~(p.dirty \/ p.persistFailed) /\ p.wants = <<>>
      <3> DEFINE s == IF p.failures THEN "Partial" ELSE "Complete"
      <3>1. SendNextChunk(c) = [p EXCEPT !.state = s] /\ s \in Active \cup Terminal \cup {"Idle"}
        BY <1>5, <2>5 DEF SendNextChunk, p, Terminal
      <3> QED
        BY <1>1, <1>3, <3>1, SetState
    <2> QED
      BY <2>1, <2>2, <2>3, <2>4, <2>5
  <1> QED
    BY <1>4, <1>5

LEMMA SelectRight ==
    ASSUME NEW c, Right(c), c.request = None, NEW listed \in Seq(Tid)
    PROVE  Right(Select(c, listed)) /\ Evolves(c, Select(c, listed))
  <1> DEFINE p == PruneHaves(c)
             haves == IF Retain THEN <<>> ELSE Kept(listed, p.local)
             wants == Kept(listed, {t \in Tid : Wanted(p, t)})
             d == [p EXCEPT !.haves = haves, !.wants = wants]
  <1>1. Right(p) /\ Evolves(c, p) /\ c \in Client /\ p \in Client /\ p.request = None
    BY PruneHavesRight DEF Right, PruneHaves, Client
  <1>2. haves \in Seq(Tid) /\ wants \in Seq(Tid) /\ Ids(haves) \subseteq p.local
    <2>1. Kept(listed, p.local) \in Seq(Tid) /\ Ids(Kept(listed, p.local)) \subseteq p.local /\ wants \in Seq(Tid)
      BY KeptIds
    <2>2. <<>> \in Seq(Tid) /\ Ids(<<>>) = {}
      BY DEF Ids
    <2> QED
      BY <2>1, <2>2
  <1>3. Select(c, listed) = SendNextChunk(d)
    BY DEF Select
  <1> HIDE DEF p, haves, wants
  <1>4. Right(d) /\ Evolves(p, d)
    BY ZenonT(60), <1>1, <1>2 DEF Right, Known, Aligned, Client, Evolves, Records, Tokens, Agrees
  <1>5. Right(SendNextChunk(d)) /\ Evolves(d, SendNextChunk(d))
    BY <1>4, SendNextRight
  <1>6. Evolves(c, d)
    BY <1>1, <1>4, EvolvesOn DEF Right
  <1> QED
    BY <1>1, <1>3, <1>4, <1>5, <1>6, EvolvesOn DEF Right

LEMMA RecordFailureRight ==
    ASSUME NEW c, Right(c), NEW t \in Tid
    PROVE  /\ Right(RecordFailure(c, t)) /\ Records(c, RecordFailure(c, t))
           /\ RecordFailure(c, t).revoked = c.revoked /\ RecordFailure(c, t).request = c.request
           /\ RecordFailure(c, t).pending = c.pending /\ RecordFailure(c, t).unread = c.unread
  <1> DEFINE pruned == [u \in Tid |-> IF c.ledger[u] = "stale" THEN None ELSE c.ledger[u]]
             d == [c EXCEPT !.ledger = pruned, !.persistFailed = TRUE]
             e == [c EXCEPT !.ledger = [pruned EXCEPT ![t] = "active"], !.dirty = TRUE, !.revised = TRUE]
  <1>1. c \in Client /\ Known(c) /\ Aligned(c)
    BY DEF Right
  <1>2. pruned \in Ledger /\ Agrees(pruned, c.ledger)
    BY <1>1, PrunedLedger DEF Client
  <1>3. RecordFailure(c, t) = d \/ RecordFailure(c, t) = e
    BY <1>1 DEF RecordFailure, Revised, Client
  <1> HIDE DEF pruned
  <1>4. [pruned EXCEPT ![t] = "active"] \in Ledger
    BY <1>2 DEF Ledger, Age
  <1>5. d \in Client /\ Known(d) /\ Aligned(d)
    BY <1>1, <1>2 DEF Client, Known, Aligned, Front
  <1>6. e \in Client /\ Known(e) /\ Aligned(e)
    BY <1>1, <1>4 DEF Client, Known, Aligned, Front
  <1>7. /\ Records(c, d) /\ d.revoked = c.revoked /\ d.request = c.request
        /\ d.pending = c.pending /\ d.unread = c.unread
    BY <1>1, <1>2 DEF Client, Records
  <1>8. /\ Records(c, e) /\ e.revoked = c.revoked /\ e.request = c.request
        /\ e.pending = c.pending /\ e.unread = c.unread
    BY <1>1 DEF Client, Records
  <1> QED
    BY <1>3, <1>5, <1>6, <1>7, <1>8 DEF Right

LEMMA AdmitRight ==
    ASSUME NEW c, Right(c), NEW r \in Resolved, r.accepted => r.tid \in settled
    PROVE  /\ Right(Admit(c, r)) /\ Records(c, Admit(c, r))
           /\ Admit(c, r).revoked = c.revoked
           /\ Admit(c, r).pending = c.pending \ {r.tid} /\ Admit(c, r).unread = c.unread
  <1>1. c \in Client /\ Known(c) /\ Aligned(c) /\ r.tid \in Tid /\ c.received \in Seq(Tid)
    BY DEF Right, Resolved, Client
  <1>2. CASE r.accepted
    <2> DEFINE held == [c EXCEPT !.pending = c.pending \ {r.tid}, !.local = c.local \cup {r.tid},
                                 !.received = Append(c.received, r.tid)]
               e == [held EXCEPT !.ledger = [held.ledger EXCEPT ![r.tid] = None],
                                 !.dirty = TRUE, !.revised = TRUE]
    <2>1. Admit(c, r) = held \/ Admit(c, r) = e
      BY <1>1, <1>2 DEF Admit, Revised, Client
    <2>2. Append(c.received, r.tid) \in Seq(Tid) /\ Ids(Append(c.received, r.tid)) \subseteq Ids(c.received) \cup {r.tid}
      BY <1>1 DEF Ids
    <2>3. \A i \in DOMAIN c.received : i \in DOMAIN Append(c.received, r.tid) /\ Append(c.received, r.tid)[i] = c.received[i]
      BY <1>1
    <2> DEFINE more == Append(c.received, r.tid)
    <2> HIDE DEF more
    <2>4. /\ held \in Client /\ held.received = more /\ held.haves = c.haves /\ held.wants = c.wants
          /\ held.request = c.request /\ held.local = c.local \cup {r.tid} /\ held.ledger = c.ledger
          /\ held.pending = c.pending \ {r.tid} /\ held.unread = c.unread /\ held.revoked = c.revoked
      BY <1>1, <2>2 DEF Client, more
    <2>5. Known(held)
      BY <1>1, <1>2, <2>2, <2>4 DEF Known, more
    <2>6. Aligned(held)
      BY <1>1, <2>3, <2>4 DEF Aligned, Front, more
    <2>7. Records(c, held)
      BY <1>1, <2>4 DEF Records, Agrees, Client
    <2>8. [held.ledger EXCEPT ![r.tid] = None] \in Ledger
      BY <2>4 DEF Client, Ledger
    <2> HIDE DEF held
    <2>9. /\ e \in Client /\ Known(e) /\ Aligned(e) /\ e.revoked = held.revoked
          /\ e.pending = held.pending /\ e.unread = held.unread /\ e.request = held.request
      BY <2>4, <2>5, <2>6, <2>8 DEF Client, Known, Aligned, Front
    <2>10. Records(c, e)
      BY <2>4, <2>7, <2>9 DEF Records, Client
    <2> QED
      BY <2>1, <2>4, <2>5, <2>6, <2>7, <2>9, <2>10 DEF Right
  <1>3. CASE ~r.accepted
    <2> DEFINE d == [c EXCEPT !.pending = c.pending \ {r.tid}, !.failures = TRUE]
    <2>1. Admit(c, r) = RecordFailure(d, r.tid)
      BY <1>1, <1>3 DEF Admit, Client
    <2>2. /\ d \in Client /\ Known(d) /\ Aligned(d) /\ d.revoked = c.revoked
          /\ d.pending = c.pending \ {r.tid} /\ d.unread = c.unread /\ d.request = c.request
          /\ d.dirty = c.dirty /\ d.persistFailed = c.persistFailed /\ d.revised = c.revised
          /\ d.ledger = c.ledger
      BY <1>1 DEF Client, Known, Aligned, Front
    <2> HIDE DEF d
    <2>3. Right(d)
      BY <2>2 DEF Right
    <2>4. /\ Right(RecordFailure(d, r.tid)) /\ Records(d, RecordFailure(d, r.tid))
          /\ RecordFailure(d, r.tid).revoked = d.revoked /\ RecordFailure(d, r.tid).request = d.request
          /\ RecordFailure(d, r.tid).pending = d.pending /\ RecordFailure(d, r.tid).unread = d.unread
      BY <1>1, <2>3, RecordFailureRight
    <2>5. Records(c, RecordFailure(d, r.tid))
      BY <2>2, <2>4 DEF Records
    <2> QED
      BY <2>1, <2>2, <2>4, <2>5
  <1> QED
    BY <1>2, <1>3
-----------------------------------------------------------------------------
(* The pipeline, with the results, queue and workers as parameters.          *)
AcceptedSettled(rs, ws) ==
    /\ \A i \in DOMAIN rs : rs[i].accepted => rs[i].tid \in settled
    /\ \A w \in 1 .. MaxWorkers :
          ws[w] # None => (ws[w].stage = "done" /\ ws[w].accepted => ws[w].tid \in settled)
Pipe(rs, q, ws) ==
    /\ rs \in Seq(Resolved) /\ q \in Seq(Token) /\ ws \in [1 .. MaxWorkers -> Worker \cup {None}]
    /\ AcceptedSettled(rs, ws)

(* An item with authority is in a queue or with a worker, at one place.      *)
InQueue(q, t) == \E i \in DOMAIN q : q[i].live /\ q[i].tid = t
InWorkers(ws, t) == \E w \in 1 .. MaxWorkers : ws[w] # None /\ ws[w].live /\ ws[w].tid = t
Once(q) == \A i, j \in DOMAIN q : q[i].live /\ q[j].live /\ q[i].tid = q[j].tid => i = j
OnceIn(ws) ==
    \A v, w \in 1 .. MaxWorkers :
        ws[v] # None /\ ws[w] # None => (ws[v].live /\ ws[w].live /\ ws[v].tid = ws[w].tid => v = w)
Apart(unread, rs, q, ws, t) ==
    /\ t \in unread => ~InQueue(rs, t) /\ ~InQueue(q, t) /\ ~InWorkers(ws, t)
    /\ InQueue(rs, t) => ~InQueue(q, t) /\ ~InWorkers(ws, t)
    /\ InQueue(q, t) => ~InWorkers(ws, t)
Exclusive(pending, unread, rs, q, ws) ==
    /\ Once(q) /\ Once(rs) /\ OnceIn(ws)
    /\ \A t \in Tid : /\ (t \in pending) <=> (t \in unread \/ InQueue(rs, t) \/ InQueue(q, t) \/ InWorkers(ws, t))
                      /\ Apart(unread, rs, q, ws, t)

(* A message is reserved exactly while one commit worker has it.             *)
Commits(ws, w, m) ==
    ws[w] # None /\ ws[w].stage \in {"validating", "writing", "done"} /\ MessageOf[ws[w].tid] = m
ReservedBy(ws, taken) ==
    \A m \in {MessageOf[t] : t \in Tid} :
        /\ \A v, w \in 1 .. MaxWorkers : Commits(ws, v, m) /\ Commits(ws, w, m) => v = w
        /\ (m \in taken) <=> (\E w \in 1 .. MaxWorkers : Commits(ws, w, m))

(* The invariant.                                                            *)
NetTyped ==
    /\ requests \subseteq [kind: Kind, ids: Chunks, current: BOOLEAN]
    /\ reply \in Reply \cup {None}
NetRight ==
    /\ NetTyped
    /\ \A m \in requests : /\ m.kind \in {"Haves", "Purge"} => Ids(m.ids) \subseteq settled
                           /\ m.current => client.request # None
    /\ reply # None => client.request # None
StoreRight ==
    /\ expired \subseteq Tid /\ node \subseteq Tid /\ deposited \subseteq Tid /\ settled \subseteq Tid
    /\ receipt \in [Tid -> {"visible", "invisible", None}]
    /\ \A t \in Tid : receipt[t] # None => t \in settled
    /\ NothingLost
ClientRight == Right(client) /\ ~client.revoked /\ ~client.revised
PipelineRight ==
    /\ Pipe(results, queue, workers) /\ reserved \subseteq {MessageOf[t] : t \in Tid}
    /\ Exclusive(client.pending, client.unread, results, queue, workers)
    /\ ReservedBy(workers, reserved)
LedgerRight ==
    /\ save \in Save \cup {None} /\ disk \in Ledger
    /\ ~client.dirty /\ ~client.persistFailed => Agrees(client.ledger, disk)
    /\ save # None => /\ client.dirty
                      /\ save.current => Agrees(client.ledger, save.ledger)
                      /\ save.stage = "saved" => save.ledger = disk
Inv == ClientRight /\ NetRight /\ StoreRight /\ PipelineRight /\ LedgerRight

LEMMA VoidPipe ==
    ASSUME NEW rs, NEW q, NEW ws, Pipe(rs, q, ws), NEW taken, ReservedBy(ws, taken),
           NEW vr, vr = [i \in DOMAIN rs |-> Void(rs[i])],
           NEW vq, vq = [i \in DOMAIN q |-> Void(q[i])],
           NEW vw, vw = [w \in DOMAIN ws |-> VoidWorker(ws[w])]
    PROVE  /\ Pipe(vr, vq, vw) /\ ReservedBy(vw, taken)
           /\ \A pending : Exclusive(pending, pending, vr, vq, vw)
  <1>1. /\ rs \in Seq(Resolved) /\ q \in Seq(Token) /\ ws \in [1 .. MaxWorkers -> Worker \cup {None}]
        /\ AcceptedSettled(rs, ws)
    BY DEF Pipe
  <1>2. \A r \in Resolved : Void(r) \in Resolved /\ ~Void(r).live /\ Void(r).accepted = r.accepted /\ Void(r).tid = r.tid
    BY DEF Resolved, Void
  <1>3. \A r \in Token : Void(r) \in Token /\ ~Void(r).live
    BY DEF Token, Void
  <1>4. \A r \in Worker : /\ VoidWorker(r) \in Worker /\ VoidWorker(r) # None /\ ~VoidWorker(r).live
                          /\ VoidWorker(r).accepted = r.accepted /\ VoidWorker(r).tid = r.tid
                          /\ VoidWorker(r).stage = r.stage
    BY NoneAssumption DEF Worker, Void, VoidWorker
  <1>5. VoidWorker(None) = None
    BY DEF VoidWorker
  <1>6. /\ vr \in Seq(Resolved) /\ DOMAIN vr = DOMAIN rs
        /\ \A i \in DOMAIN rs : ~vr[i].live /\ vr[i].accepted = rs[i].accepted /\ vr[i].tid = rs[i].tid
    <2>1. \A i \in DOMAIN rs : rs[i] \in Resolved /\ vr[i] = Void(rs[i])
      BY <1>1
    <2>2. vr = [i \in 1 .. Len(rs) |-> Void(rs[i])] /\ Len(rs) \in Nat /\ DOMAIN rs = 1 .. Len(rs)
      BY <1>1
    <2> QED
      BY <1>2, <2>1, <2>2
  <1>7. vq \in Seq(Token) /\ \A i \in DOMAIN vq : ~vq[i].live
    <2>1. \A i \in DOMAIN q : q[i] \in Token /\ vq[i] = Void(q[i])
      BY <1>1
    <2>2. vq = [i \in 1 .. Len(q) |-> Void(q[i])] /\ Len(q) \in Nat /\ DOMAIN q = 1 .. Len(q)
      BY <1>1
    <2> QED
      BY <1>3, <2>1, <2>2
  <1>8. \A w \in 1 .. MaxWorkers : /\ vw[w] = VoidWorker(ws[w]) /\ ws[w] \in Worker \cup {None}
    BY <1>1
  <1>9. \A w \in 1 .. MaxWorkers :
           /\ vw[w] \in Worker \cup {None} /\ (vw[w] = None) = (ws[w] = None)
           /\ ws[w] # None => /\ ~vw[w].live /\ vw[w].accepted = ws[w].accepted
                              /\ vw[w].tid = ws[w].tid /\ vw[w].stage = ws[w].stage
    BY <1>4, <1>5, <1>8
  <1>10. vw \in [1 .. MaxWorkers -> Worker \cup {None}]
    BY <1>1, <1>9
  <1>11. AcceptedSettled(vr, vw)
    BY ZenonT(60), <1>1, <1>6, <1>9 DEF AcceptedSettled
  <1>12. ReservedBy(vw, taken)
    <2>1. \A w \in 1 .. MaxWorkers : \A m : Commits(vw, w, m) = Commits(ws, w, m)
      BY <1>9 DEF Commits
    <2> QED
      BY <2>1 DEF ReservedBy
  <1>13. \A t : ~InQueue(vr, t) /\ ~InQueue(vq, t) /\ ~InWorkers(vw, t)
    BY <1>6, <1>7, <1>9 DEF InQueue, InWorkers
  <1>14. Once(vr) /\ Once(vq) /\ OnceIn(vw)
    BY <1>6, <1>7, <1>9 DEF Once, OnceIn
  <1>15. ASSUME NEW pending PROVE Exclusive(pending, pending, vr, vq, vw)
    BY <1>13, <1>14 DEF Exclusive, Apart
  <1> QED
    BY <1>6, <1>7, <1>10, <1>11, <1>12, <1>15 DEF Pipe

(* Taking over a new client record.                                          *)
LEMMA BecomeKeeps ==
    ASSUME NetRight, NEW c, Right(c), NEW rs, NEW q, NEW ws, Pipe(rs, q, ws),
           NEW taken, ReservedBy(ws, taken),
           c.revoked => c.pending = c.unread,
           ~c.revoked => Exclusive(c.pending, c.unread, rs, q, ws),
           Become(c, rs, q, ws), UNCHANGED settled
    PROVE  /\ ClientRight' /\ NetRight'
           /\ Pipe(results, queue, workers)' /\ ReservedBy(workers', taken)
           /\ Exclusive(client.pending, client.unread, results, queue, workers)'
           /\ client'.request = c.request
  <1>1. c \in Client /\ Known(c) /\ Aligned(c)
    BY DEF Right
  <1>2. PICK d : d = [c EXCEPT !.revoked = FALSE, !.revised = FALSE]
    OBVIOUS
  <1>3. client' = d
    BY <1>2 DEF Become
  <1>4. /\ d \in Client /\ ~d.revoked /\ ~d.revised /\ d.request = c.request /\ d.local = c.local
        /\ d.haves = c.haves /\ d.wants = c.wants /\ d.received = c.received
        /\ d.pending = c.pending /\ d.unread = c.unread
    BY <1>1, <1>2 DEF Client
  <1>5. Known(d)' /\ Aligned(d)
    BY <1>1, <1>4 DEF Known, Aligned
  <1>6. ClientRight'
    BY <1>3, <1>4, <1>5 DEF ClientRight, Right, Aligned
  <1>7. NetRight'
    <2>1. CASE c.request = client.request
      <3>1. UNCHANGED <<requests, reply>> /\ client'.request = client.request
        BY <1>3, <1>4, <2>1 DEF Become, net
      <3> QED
        BY <3>1 DEF NetRight, NetTyped
    <2>2. CASE c.request # client.request
      <3> DEFINE old == {[m EXCEPT !.current = FALSE] : m \in requests}
                 new == IF c.request = None THEN {}
                        ELSE {[kind |-> c.request.kind, ids |-> c.request.ids, current |-> TRUE]}
      <3>1. reply' = None /\ requests' = old \cup new
        BY <2>2 DEF Become
      <3>2. \A m \in requests : m \in [kind: Kind, ids: Chunks, current: BOOLEAN]
        BY DEF NetRight, NetTyped
      <3>3. ASSUME NEW m \in old
            PROVE  /\ m \in [kind: Kind, ids: Chunks, current: BOOLEAN] /\ ~m.current
                   /\ m.kind \in {"Haves", "Purge"} => Ids(m.ids) \subseteq settled
        <4>1. PICK n \in requests : m = [n EXCEPT !.current = FALSE]
          BY <3>3
        <4>2. n \in [kind: Kind, ids: Chunks, current: BOOLEAN]
          BY <3>2
        <4>3. m.kind = n.kind /\ m.ids = n.ids
          BY <4>1, <4>2
        <4>4. m.kind \in {"Haves", "Purge"} => Ids(m.ids) \subseteq settled
          BY <4>3 DEF NetRight
        <4>5. m \in [kind: Kind, ids: Chunks, current: BOOLEAN] /\ ~m.current
          BY <4>1, <4>2
        <4> QED
          BY <4>4, <4>5
      <3>4. ASSUME NEW m \in new
            PROVE  /\ m \in [kind: Kind, ids: Chunks, current: BOOLEAN] /\ c.request # None
                   /\ m.kind \in {"Haves", "Purge"} => Ids(m.ids) \subseteq settled
        <4>1. c.request # None /\ c.request \in Request
          BY <1>1, <3>4 DEF Client
        <4>2. m = [kind |-> c.request.kind, ids |-> c.request.ids, current |-> TRUE]
          BY <3>4
        <4>3. c.request.kind \in Kind /\ c.request.ids \in Chunks
          BY <4>1 DEF Request
        <4>4. m \in [kind: Kind, ids: Chunks, current: BOOLEAN] /\ m.kind = c.request.kind /\ m.ids = c.request.ids
          BY <4>2, <4>3
        <4>5. c.request.kind = "Haves" => Front(c.request.ids, c.haves)
          BY <1>1, <4>1 DEF Aligned
        <4>6. c.request.kind = "Purge" => Front(c.request.ids, c.received)
          BY <1>1, <4>1 DEF Aligned
        <4>7. c.request.kind \in {"Haves", "Purge"} => Ids(c.request.ids) \subseteq settled
          BY <1>1, <4>5, <4>6 DEF Front, Ids, Known
        <4> QED
          BY <4>1, <4>4, <4>7
      <3> HIDE DEF old, new
      <3>5. requests' \subseteq [kind: Kind, ids: Chunks, current: BOOLEAN]
        BY <3>1, <3>3, <3>4
      <3>6. \A m \in requests' : /\ m.kind \in {"Haves", "Purge"} => Ids(m.ids) \subseteq settled'
                                 /\ m.current => client'.request # None
        BY <1>3, <1>4, <3>1, <3>3, <3>4
      <3> QED
        BY <3>1, <3>5, <3>6 DEF NetRight, NetTyped
    <2> QED
      BY <2>1, <2>2
  <1>8. /\ Pipe(results', queue', workers') /\ ReservedBy(workers', taken)
        /\ Exclusive(c.pending, c.unread, results', queue', workers')
    <2>1. CASE c.revoked
      <3>1. /\ results' = [i \in DOMAIN rs |-> Void(rs[i])]
            /\ queue' = [i \in DOMAIN q |-> Void(q[i])]
            /\ workers' = [w \in DOMAIN ws |-> VoidWorker(ws[w])]
        BY <2>1 DEF Become
      <3>2. PICK vr, vq, vw : /\ vr = results' /\ vq = queue' /\ vw = workers'
        OBVIOUS
      <3>3. /\ Pipe(vr, vq, vw) /\ ReservedBy(vw, taken)
            /\ \A pending : Exclusive(pending, pending, vr, vq, vw)
        BY ZenonT(60), <3>1, <3>2, VoidPipe
      <3> QED
        BY <2>1, <3>2, <3>3
    <2>2. CASE ~c.revoked
      <3>1. results' = rs /\ queue' = q /\ workers' = ws
        BY <2>2 DEF Become
      <3> QED
        BY <2>2, <3>1
    <2> QED
      BY <2>1, <2>2
  <1>9. Pipe(results, queue, workers)'
    BY <1>8 DEF Pipe, AcceptedSettled
  <1>10. Exclusive(client.pending, client.unread, results, queue, workers)'
    BY <1>3, <1>4, <1>8
  <1> QED
    BY <1>3, <1>4, <1>6, <1>7, <1>8, <1>9, <1>10

(* What a step that asks for wants can rely on.                              *)
AskedPersisted == Asks("Get") => Agrees(client.ledger, disk)
Preserves == Inv' /\ AskedPersisted

LEMMA LedgerStep ==
    ASSUME LedgerRight, ClientRight, NEW c \in Client, Records(client, c),
           client' = [c EXCEPT !.revoked = FALSE, !.revised = FALSE],
           save' = Outdated(c, save), UNCHANGED disk
    PROVE  LedgerRight' /\ AskedPersisted
  <1>1. /\ client'.dirty = c.dirty /\ client'.persistFailed = c.persistFailed
        /\ client'.ledger = c.ledger /\ client'.request = c.request
    BY DEF Client
  <1>2. client \in Client /\ ~client.revised
    BY DEF ClientRight, Right
  <1>3. AskedPersisted
    BY <1>1, <1>2 DEF Asks, AskedPersisted, LedgerRight, Records
  <1>4. ~c.dirty /\ ~c.persistFailed => Agrees(c.ledger, disk)
    BY <1>2 DEF LedgerRight, Records, Agrees, Recorded
  <1>5. CASE save = None
    <2>1. save' = None
      BY <1>5 DEF Outdated
    <2> QED
      BY <1>1, <1>3, <1>4, <2>1, <1>5 DEF LedgerRight
  <1>6. CASE save # None
    <2>1. save \in Save
      BY <1>6 DEF LedgerRight
    <2>2. PICK k : k = save'
      OBVIOUS
    <2>3. k \in Save /\ k.ledger = save.ledger /\ k.stage = save.stage
          /\ (k.current => save.current /\ ~c.revised)
      BY <1>6, <2>1, <2>2 DEF Outdated, Save
    <2>4. c.dirty
      BY <1>6 DEF LedgerRight, Records
    <2>5. k.current => Agrees(c.ledger, k.ledger)
      BY <1>6, <2>3, <1>2 DEF LedgerRight, Records, Agrees, Recorded
    <2>6. k.stage = "saved" => k.ledger = disk
      BY <1>6, <2>3 DEF LedgerRight
    <2>7. disk \in Ledger
      BY DEF LedgerRight
    <2> QED
      BY <1>1, <1>3, <1>4, <2>2, <2>3, <2>4, <2>5, <2>6, <2>7 DEF LedgerRight
  <1> QED
    BY <1>5, <1>6

LEMMA StepKeeps ==
    ASSUME Inv, NEW c, Right(c), Evolves(client, c), Step(c),
           UNCHANGED <<node, deposited, durable, disk>>
    PROVE  Preserves
  <1>1. /\ Become(c, results, queue, workers) /\ save' = Outdated(c, save)
        /\ UNCHANGED <<expired, reserved, node, deposited, receipt, settled, disk>>
    BY DEF Step, durable
  <1>2. c.revoked => c.pending = c.unread
    BY DEF Inv, ClientRight, Evolves, Tokens
  <1>3. ~c.revoked => Exclusive(c.pending, c.unread, results, queue, workers)
    BY DEF Inv, Evolves, Tokens, PipelineRight
  <1>4. /\ ClientRight' /\ NetRight' /\ Pipe(results, queue, workers)' /\ ReservedBy(workers', reserved)
        /\ Exclusive(client.pending, client.unread, results, queue, workers)'
    BY <1>1, <1>2, <1>3, BecomeKeeps DEF Inv, PipelineRight
  <1>5. PipelineRight'
    BY <1>1, <1>4 DEF Inv, PipelineRight
  <1>6. StoreRight'
    BY <1>1 DEF Inv, StoreRight, NothingLost
  <1>7. LedgerRight' /\ AskedPersisted
    <2>1. client' = [c EXCEPT !.revoked = FALSE, !.revised = FALSE]
      BY <1>1 DEF Become
    <2> QED
      BY <1>1, <2>1, LedgerStep DEF Inv, Evolves, Right
  <1> QED
    BY <1>4, <1>5, <1>6, <1>7 DEF Inv, Preserves

LEMMA StartDownloadKeeps ==
    ASSUME Inv, StartDownload, UNCHANGED <<node, deposited, durable, disk>>
    PROVE  Preserves
  <1> DEFINE p == PruneSuppression(client)
             q == Cleanup(p)
             c == [q EXCEPT !.state = "LinkEstablishing", !.link = TRUE,
                            !.received = <<>>, !.haves = <<>>, !.wants = <<>>, !.failures = FALSE]
  <1>1. Right(p) /\ Evolves(client, p)
    BY PruneSuppressionRight DEF Inv, ClientRight
  <1>2. Right(q) /\ Evolves(p, q) /\ q.request = None
    BY <1>1, CleanupRight DEF Cleanup, Revoke, Right, Client
  <1>3. Step(c)
    BY DEF StartDownload
  <1> HIDE DEF p, q
  <1>4. c \in Client /\ Known(c) /\ Aligned(c)
    <2>1. <<>> \in Seq(Tid) /\ Ids(<<>>) = {}
      BY DEF Ids
    <2>2. /\ c \in Client /\ c.haves = <<>> /\ c.received = <<>> /\ c.local = q.local
          /\ c.request = None
      BY <1>2, <2>1 DEF Right, Client, Active
    <2> QED
      BY <1>2, <2>1, <2>2 DEF Right, Known, Aligned
  <1>5. Evolves(q, c)
    BY <1>2 DEF Right, Client, Evolves, Records, Tokens, Agrees
  <1>6. Evolves(client, c)
    BY <1>1, <1>2, <1>4, <1>5, EvolvesOn DEF Right, Inv, ClientRight
  <1> QED
    BY <1>3, <1>4, <1>6, StepKeeps DEF Right

LEMMA LinkKeeps ==
    ASSUME Inv, LinkUp \/ LinkLost, UNCHANGED <<node, deposited, durable, disk>>
    PROVE  Preserves
  <1>1. Right(client)
    BY DEF Inv, ClientRight
  <1>2. CASE LinkUp
    <2>1. Step([client EXCEPT !.state = "LinkEstablished"])
      BY <1>2 DEF LinkUp
    <2> QED
      BY <1>1, <2>1, SetState, StepKeeps DEF Active
  <1>3. CASE LinkLost
    <2>1. Step(Fail(client))
      BY <1>3 DEF LinkLost
    <2> QED
      BY <1>1, <2>1, FailRight, StepKeeps
  <1> QED
    BY <1>2, <1>3

LEMMA Forget ==
    ASSUME NEW c, Right(c)
    PROVE  Right([c EXCEPT !.request = None]) /\ Evolves(c, [c EXCEPT !.request = None])
           /\ [c EXCEPT !.request = None].request = None
  BY DEF Right, Known, Aligned, Client, Evolves, Records, Tokens, Agrees

LEMMA ListReplyKeeps ==
    ASSUME Inv, ListReply, UNCHANGED <<node, deposited, durable, disk>>
    PROVE  Preserves
  <1> DEFINE done == [client EXCEPT !.request = None]
             fine == [done EXCEPT !.state = "Complete"]
  <1>1. Right(client) /\ client \in Client
    BY DEF Inv, ClientRight, Right
  <1>2. Right(done) /\ Evolves(client, done) /\ done.request = None /\ done \in Client
    BY <1>1, Forget DEF Right
  <1>3. reply \in Reply /\ reply.ids \in Seq(Tid)
    BY DEF ListReply, Answered, Inv, NetRight, NetTyped, Reply
  <1>4. PICK c : Step(c) /\ c = IF ~reply.ok THEN Fail(client)
                               ELSE IF reply.ids = <<>> THEN fine ELSE Select(done, reply.ids)
    BY DEF ListReply
  <1>5. Right(Fail(client)) /\ Evolves(client, Fail(client))
    BY <1>1, FailRight
  <1> HIDE DEF done
  <1>6. Right(fine) /\ Evolves(done, fine)
    BY <1>2, SetState DEF Terminal
  <1>7. Right(Select(done, reply.ids)) /\ Evolves(done, Select(done, reply.ids))
    BY <1>2, <1>3, SelectRight
  <1>8. Evolves(client, fine) /\ Evolves(client, Select(done, reply.ids))
    BY <1>1, <1>2, <1>6, <1>7, EvolvesOn DEF Right
  <1> QED
    BY <1>4, <1>5, <1>6, <1>7, <1>8, StepKeeps

LEMMA GetReplyKeeps ==
    ASSUME Inv, GetReply, UNCHANGED <<node, deposited, durable, disk>>
    PROVE  Preserves
  <1> DEFINE asked == client.request.ids
             ids == Ids(reply.ids)
             v == Revoke(client)
             n == Len(asked)
             taken == [v EXCEPT !.request = None, !.wants = Without(v.wants, n),
                                !.pending = ids, !.unread = ids]
             wait == [taken EXCEPT !.state = "AwaitingAdmission"]
  <1>1. Right(client) /\ client \in Client /\ Right(v) /\ Evolves(client, v) /\ v \in Client
        /\ v.revoked
    BY RevokeRight DEF Inv, ClientRight, Right, Revoke, Client
  <1>2. reply \in Reply /\ reply.ids \in Seq(Tid) /\ client.request # None /\ client.request \in Request
    BY <1>1 DEF GetReply, Answered, Inv, NetRight, NetTyped, Reply, Client
  <1>3. n \in Nat /\ ids \subseteq Tid
    BY <1>2 DEF Request, Chunks, Ids
  <1>4. PICK c : Step(c) /\ c = IF ~reply.ok \/ ~(ids \subseteq Ids(asked)) THEN Fail(client)
                               ELSE IF ids = {} THEN SendNextChunk(taken) ELSE wait
    BY <1>1 DEF GetReply, Revoke, Client
  <1>5. Right(Fail(client)) /\ Evolves(client, Fail(client))
    BY <1>1, FailRight
  <1>6. Without(v.wants, n) \in Seq(Tid)
    BY <1>1, <1>3, WithoutIs DEF Client
  <1> HIDE DEF ids, v, n
  <1>7. Right(taken)
    BY <1>1, <1>3, <1>6 DEF Right, Client, Known, Aligned
  <1>8. Evolves(v, taken)
    BY <1>1 DEF Client, Evolves, Records, Tokens, Agrees
  <1>9. Evolves(client, taken) /\ taken \in Client
    BY <1>1, <1>7, <1>8, EvolvesOn DEF Right
  <1> HIDE DEF taken
  <1>10. Right(wait) /\ Evolves(taken, wait)
    BY <1>7, SetState DEF Active
  <1>11. Right(SendNextChunk(taken)) /\ Evolves(taken, SendNextChunk(taken))
    BY <1>7, SendNextRight
  <1>12. Evolves(client, wait) /\ Evolves(client, SendNextChunk(taken))
    BY <1>1, <1>9, <1>10, <1>11, EvolvesOn DEF Right
  <1> QED
    BY <1>4, <1>5, <1>10, <1>11, <1>12, StepKeeps

LEMMA PurgeReplyKeeps ==
    ASSUME Inv, PurgeReply, UNCHANGED <<node, deposited, durable, disk>>
    PROVE  Preserves
  <1> DEFINE n == Len(client.request.ids)
             done == [client EXCEPT !.request = None]
             h == [done EXCEPT !.haves = Without(done.haves, n)]
             r == [done EXCEPT !.received = Without(done.received, n)]
  <1>1. Right(client) /\ client \in Client
    BY DEF Inv, ClientRight, Right
  <1>2. Right(done) /\ Evolves(client, done) /\ done.request = None /\ done \in Client
    BY <1>1, Forget DEF Right
  <1>3. client.request \in Request
    BY <1>1 DEF PurgeReply, Answered, Inv, NetRight, Client
  <1>4. n \in Nat
    BY <1>3 DEF Request, Chunks
  <1>5. PICK c : Step(c) /\ (c = Fail(client) \/ c = SendNextChunk(h) \/ c = SendNextChunk(r))
    BY <1>2 DEF PurgeReply, Client
  <1> HIDE DEF done, n
  <1>6. /\ Without(done.haves, n) \in Seq(Tid) /\ Ids(Without(done.haves, n)) \subseteq Ids(done.haves)
        /\ Without(done.received, n) \in Seq(Tid) /\ Ids(Without(done.received, n)) \subseteq Ids(done.received)
    BY <1>2, <1>4, WithoutIs DEF Client
  <1>7. Right(h) /\ Evolves(done, h)
    BY <1>2, <1>6 DEF Right, Known, Aligned, Client, Evolves, Records, Tokens, Agrees
  <1>8. Right(r) /\ Evolves(done, r)
    BY <1>2, <1>6 DEF Right, Known, Aligned, Client, Evolves, Records, Tokens, Agrees
  <1> HIDE DEF h, r
  <1>9. /\ Right(SendNextChunk(h)) /\ Evolves(h, SendNextChunk(h))
        /\ Right(SendNextChunk(r)) /\ Evolves(r, SendNextChunk(r))
    BY <1>7, <1>8, SendNextRight
  <1>10. Evolves(client, h) /\ Evolves(client, r)
    BY <1>1, <1>2, <1>7, <1>8, EvolvesOn DEF Right
  <1>11. Evolves(client, SendNextChunk(h)) /\ Evolves(client, SendNextChunk(r))
    BY <1>1, <1>7, <1>8, <1>9, <1>10, EvolvesOn DEF Right
  <1>12. Right(Fail(client)) /\ Evolves(client, Fail(client))
    BY <1>1, FailRight
  <1> QED
    BY <1>5, <1>9, <1>11, <1>12, StepKeeps

LEMMA ReplaceKeeps ==
    ASSUME Inv, ReplaceDurableHaves(DurableHaves), UNCHANGED <<node, deposited, durable, disk>>
    PROVE  Preserves
  <1> DEFINE c == [client EXCEPT !.local = DurableHaves]
  <1>1. Right(client) /\ client \in Client
    BY DEF Inv, ClientRight, Right
  <1>2. DurableHaves \subseteq Tid \cap settled
    BY DEF DurableHaves, Inv, StoreRight
  <1>3. Step(PruneHaves(c))
    BY DEF ReplaceDurableHaves
  <1>4. Right(c) /\ Evolves(client, c)
    BY <1>1, <1>2 DEF Right, Known, Aligned, Client, Evolves, Records, Tokens, Agrees
  <1> HIDE DEF c
  <1>5. Right(PruneHaves(c)) /\ Evolves(c, PruneHaves(c))
    BY <1>4, PruneHavesRight
  <1>6. Evolves(client, PruneHaves(c))
    BY <1>1, <1>4, <1>5, EvolvesOn DEF Right
  <1> QED
    BY <1>3, <1>5, <1>6, StepKeeps

LEMMA IdleKeeps ==
    ASSUME Inv, CancelDownload \/ AcknowledgeTransfer, UNCHANGED <<node, deposited, durable, disk>>
    PROVE  Preserves
  <1> DEFINE q == Cleanup(client)
             c == [q EXCEPT !.state = "Idle"]
  <1>1. Right(client) /\ client \in Client
    BY DEF Inv, ClientRight, Right
  <1>2. Step(c)
    BY DEF CancelDownload, AcknowledgeTransfer
  <1>3. Right(q) /\ Evolves(client, q)
    BY <1>1, CleanupRight
  <1> HIDE DEF q
  <1>4. Right(c) /\ Evolves(q, c)
    BY <1>3, SetState
  <1>5. Evolves(client, c)
    BY <1>1, <1>3, <1>4, EvolvesOn DEF Right
  <1> QED
    BY <1>2, <1>4, <1>5, StepKeeps

LEMMA AdmissionsRight ==
    ASSUME NEW c, Right(c), NEW timedOut \in BOOLEAN
    PROVE  Right(Admissions(c, timedOut)) /\ Evolves(c, Admissions(c, timedOut))
  <1> DEFINE v == Revoke(c)
             w == [v EXCEPT !.failures = TRUE]
  <1>1. Right(SendNextChunk(c)) /\ Evolves(c, SendNextChunk(c)) /\ Evolves(c, c) /\ c \in Client
    BY SendNextRight, EvolvesSelf DEF Right
  <1>2. Right(v) /\ Evolves(c, v)
    BY RevokeRight
  <1>3. /\ \/ Admissions(c, timedOut) = c
           \/ Admissions(c, timedOut) = SendNextChunk(c)
           \/ Admissions(c, timedOut) = SendNextChunk(w)
    BY DEF Admissions
  <1> HIDE DEF v
  <1>4. Right(w) /\ Evolves(v, w)
    <2>1. v \in Client /\ Known(v) /\ Aligned(v)
      BY <1>2 DEF Right
    <2>2. w \in Client /\ Known(w) /\ Aligned(w)
      BY <2>1 DEF Client, Known, Aligned, Front
    <2>3. Evolves(v, w)
      BY <2>1 DEF Client, Evolves, Records, Tokens, Agrees
    <2> QED
      BY <2>2, <2>3 DEF Right
  <1>5. Evolves(c, w)
    BY <1>1, <1>2, <1>4, EvolvesOn DEF Right
  <1> HIDE DEF w
  <1>6. Right(SendNextChunk(w)) /\ Evolves(w, SendNextChunk(w))
    BY <1>4, SendNextRight
  <1>7. Evolves(c, SendNextChunk(w))
    BY <1>1, <1>4, <1>5, <1>6, EvolvesOn DEF Right
  <1> QED
    BY <1>1, <1>3, <1>6, <1>7

LEMMA TimeoutsRight ==
    ASSUME NEW c, Right(c)
    PROVE  Right(Timeouts(c)) /\ Evolves(c, Timeouts(c))
  <1>1. /\ Right(Cleanup(c)) /\ Evolves(c, Cleanup(c)) /\ Right(Fail(c)) /\ Evolves(c, Fail(c))
        /\ Evolves(c, c) /\ c \in Client
    BY CleanupRight, FailRight, EvolvesSelf DEF Right
  <1>2. /\ Right(Fail(Cleanup(c))) /\ Evolves(Cleanup(c), Fail(Cleanup(c)))
        /\ Right(Cleanup(Fail(c))) /\ Evolves(Fail(c), Cleanup(Fail(c)))
    BY <1>1, CleanupRight, FailRight
  <1>3. Evolves(c, Fail(Cleanup(c))) /\ Evolves(c, Cleanup(Fail(c)))
    BY <1>1, <1>2, EvolvesOn DEF Right
  <1> QED
    BY <1>1, <1>2, <1>3 DEF Timeouts

LEMMA TickKeeps ==
    ASSUME Inv, NEW deadline \in {"none", "admission", "answer"}, Tick(deadline),
           UNCHANGED <<node, deposited, durable, disk>>
    PROVE  Preserves
  <1> DEFINE p == PruneSuppression(client)
             q == Admissions(p, deadline = "admission")
             r == IF deadline = "answer" THEN Timeouts(q) ELSE q
  <1>1. Right(client) /\ client \in Client
    BY DEF Inv, ClientRight, Right
  <1>2. PICK c : Step(c) /\ c = IF p.state = "Failed" THEN Cleanup(p)
             ELSE IF r.state \in Terminal THEN Cleanup(r)
             ELSE IF r.state = "LinkEstablished" THEN Send(r, "List", <<>>)
             ELSE r
    BY DEF Tick
  <1>3. Right(p) /\ Evolves(client, p)
    BY <1>1, PruneSuppressionRight
  <1> HIDE DEF p
  <1>4. Right(q) /\ Evolves(p, q)
    BY <1>3, AdmissionsRight
  <1> HIDE DEF q
  <1>5. Right(r) /\ Evolves(q, r)
    BY <1>4, TimeoutsRight, EvolvesSelf
  <1>6. Evolves(client, q)
    BY <1>1, <1>3, <1>4, EvolvesOn DEF Right
  <1>7. Evolves(client, r)
    BY <1>1, <1>4, <1>5, <1>6, EvolvesOn DEF Right
  <1> HIDE DEF r
  <1>8. /\ Right(Cleanup(p)) /\ Evolves(p, Cleanup(p))
        /\ Right(Cleanup(r)) /\ Evolves(r, Cleanup(r))
    BY <1>3, <1>5, CleanupRight
  <1>9. Right(Send(r, "List", <<>>)) /\ Evolves(r, Send(r, "List", <<>>))
    <2>1. "List" \in Kind /\ <<>> \in Chunks
      BY ConstantAssumption DEF Kind, Chunks
    <2> QED
      BY <1>5, <2>1, SendRight
  <1>10. Evolves(client, Cleanup(p)) /\ Evolves(client, Cleanup(r)) /\ Evolves(client, Send(r, "List", <<>>))
    BY <1>1, <1>3, <1>5, <1>7, <1>8, <1>9, EvolvesOn DEF Right
  <1> QED
    BY <1>2, <1>5, <1>7, <1>8, <1>9, <1>10, StepKeeps
-----------------------------------------------------------------------------
LEMMA PollAdmissionKeeps ==
    ASSUME Inv, PollAdmission, UNCHANGED <<node, deposited, durable, disk>>
    PROVE  Preserves
  <1> DEFINE rest == Tail(results)
  <1>1. PICK r : r = results[1]
    OBVIOUS
  <1>2. PICK c : /\ c = IF r.live /\ r.tid \in client.pending THEN Admit(client, r) ELSE client
                 /\ Become(c, rest, queue, workers) /\ save' = Outdated(c, save)
    BY <1>1 DEF PollAdmission
  <1>3. /\ Right(client) /\ client \in Client /\ ~client.revoked
        /\ Pipe(results, queue, workers)
        /\ Exclusive(client.pending, client.unread, results, queue, workers)
        /\ ReservedBy(workers, reserved) /\ results \in Seq(Resolved) /\ AcceptedSettled(results, workers)
    BY DEF Inv, ClientRight, Right, PipelineRight, Pipe
  <1>4. /\ Len(results) \in Nat \ {0} /\ rest \in Seq(Resolved) /\ Len(rest) = Len(results) - 1
        /\ DOMAIN results = 1 .. Len(results) /\ DOMAIN rest = 1 .. Len(rest)
        /\ \A i \in 1 .. Len(rest) : rest[i] = results[i + 1]
    BY <1>3 DEF PollAdmission
  <1> HIDE DEF rest
  <1>5. r \in Resolved /\ (r.accepted => r.tid \in settled) /\ r.tid \in Tid
    <2>1. 1 \in DOMAIN results /\ r \in Resolved
      BY <1>1, <1>3, <1>4
    <2> QED
      BY <1>1, <1>3, <2>1 DEF AcceptedSettled, Resolved
  <1>6. AcceptedSettled(rest, workers)
    BY <1>3, <1>4 DEF AcceptedSettled
  <1>7. Pipe(rest, queue, workers)
    BY <1>3, <1>4, <1>6 DEF Pipe
  <1>8. r.live => r.tid \in client.pending /\ ~InQueue(rest, r.tid)
    <2>1. ASSUME r.live PROVE r.tid \in client.pending /\ ~InQueue(rest, r.tid)
      <3>1. InQueue(results, r.tid)
        BY <1>1, <1>4, <2>1 DEF InQueue
      <3>2. r.tid \in client.pending
        BY <1>3, <1>5, <3>1 DEF Exclusive
      <3>3. Once(results)
        BY <1>3 DEF Exclusive
      <3>4. ASSUME NEW i \in DOMAIN rest, rest[i].live, rest[i].tid = r.tid PROVE FALSE
        <4>1. i + 1 \in DOMAIN results /\ 1 \in DOMAIN results /\ i + 1 # 1
          BY <1>4, <3>4
        <4> QED
          BY <1>1, <1>4, <2>1, <3>3, <3>4, <4>1 DEF Once
      <3> QED
        BY <3>2, <3>4 DEF InQueue
    <2> QED
      BY <2>1
  <1>9. \A t \in Tid : InQueue(results, t) <=> InQueue(rest, t) \/ (r.live /\ r.tid = t)
    <2>1. ASSUME NEW t \in Tid, InQueue(results, t) PROVE InQueue(rest, t) \/ (r.live /\ r.tid = t)
      <3>1. PICK i \in 1 .. Len(results) : results[i].live /\ results[i].tid = t
        BY <1>4, <2>1 DEF InQueue
      <3>2. CASE i = 1
        BY <1>1, <3>1, <3>2
      <3>3. CASE i # 1
        <4>1. i - 1 \in 1 .. Len(rest) /\ (i - 1) + 1 = i
          BY <1>4, <3>3
        <4>2. rest[i - 1] = results[i]
          BY <1>4, <4>1
        <4> QED
          BY <1>4, <3>1, <4>1, <4>2 DEF InQueue
      <3> QED
        BY <3>2, <3>3
    <2>2. ASSUME NEW t \in Tid, InQueue(rest, t) PROVE InQueue(results, t)
      <3>1. PICK i \in 1 .. Len(rest) : rest[i].live /\ rest[i].tid = t
        BY <1>4, <2>2 DEF InQueue
      <3>2. i + 1 \in 1 .. Len(results) /\ rest[i] = results[i + 1]
        BY <1>4
      <3> QED
        BY <1>4, <3>1, <3>2 DEF InQueue
    <2>3. ASSUME r.live PROVE InQueue(results, r.tid)
      BY <1>1, <1>4, <2>3 DEF InQueue
    <2> QED
      BY <2>1, <2>2, <2>3
  <1>10. Once(rest)
    <2>1. Once(results)
      BY <1>3 DEF Exclusive
    <2>2. ASSUME NEW i \in 1 .. Len(rest), NEW j \in 1 .. Len(rest),
                 rest[i].live, rest[j].live, rest[i].tid = rest[j].tid
          PROVE  i = j
      <3>1. i + 1 \in 1 .. Len(results) /\ j + 1 \in 1 .. Len(results)
        BY <1>4
      <3>2. i + 1 = j + 1
        BY <1>4, <2>1, <2>2, <3>1 DEF Once
      <3> QED
        BY <3>2
    <2> QED
      BY <1>4, <2>2 DEF Once
  <1>11. ~r.live => Exclusive(client.pending, client.unread, rest, queue, workers)
    BY <1>3, <1>9, <1>10 DEF Exclusive, Apart
  <1>12. r.live => Exclusive(client.pending \ {r.tid}, client.unread, rest, queue, workers)
    BY <1>3, <1>5, <1>8, <1>9, <1>10 DEF Exclusive, Apart
  <1>13. /\ Right(c) /\ Records(client, c) /\ ~c.revoked
         /\ Exclusive(c.pending, c.unread, rest, queue, workers)
    <2>1. CASE r.live
      <3>1. c = Admit(client, r)
        BY <1>2, <1>8, <2>1
      <3>2. /\ Right(c) /\ Records(client, c) /\ c.revoked = client.revoked
            /\ c.pending = client.pending \ {r.tid} /\ c.unread = client.unread
        BY <1>3, <1>5, <3>1, AdmitRight
      <3> QED
        BY <1>3, <1>12, <2>1, <3>2
    <2>2. CASE ~r.live
      <3>1. c = client
        BY <1>2, <2>2
      <3>2. Records(client, client)
        BY EvolvesSelf DEF Evolves
      <3> QED
        BY <1>3, <1>11, <2>2, <3>1, <3>2
    <2> QED
      BY <2>1, <2>2
  <1>14. UNCHANGED <<expired, reserved, node, deposited, receipt, settled, disk>>
    BY DEF PollAdmission, durable
  <1>15. /\ ClientRight' /\ NetRight' /\ Pipe(results, queue, workers)' /\ ReservedBy(workers', reserved)
         /\ Exclusive(client.pending, client.unread, results, queue, workers)'
    BY <1>2, <1>3, <1>7, <1>13, <1>14, BecomeKeeps DEF Inv
  <1>16. PipelineRight'
    BY <1>14, <1>15 DEF Inv, PipelineRight
  <1>17. StoreRight'
    BY <1>14 DEF Inv, StoreRight, NothingLost
  <1>18. LedgerRight' /\ AskedPersisted
    <2>1. client' = [c EXCEPT !.revoked = FALSE, !.revised = FALSE]
      BY <1>2 DEF Become
    <2> QED
      BY <1>2, <1>13, <1>14, <2>1, LedgerStep DEF Inv, Right
  <1> QED
    BY <1>15, <1>16, <1>17, <1>18 DEF Inv, Preserves

(* Driving the queue: what it drops has no authority, what it starts moves   *)
(* to a free worker.                                                         *)
Started(token) == [tid |-> token.tid, live |-> TRUE, stage |-> "decoding", accepted |-> FALSE]

LEMMA FreeIs ==
    ASSUME NEW ws \in [1 .. MaxWorkers -> Worker \cup {None}]
    PROVE  /\ Free(ws) \in Seq(1 .. MaxWorkers)
           /\ \A i \in 1 .. Len(Free(ws)) : Free(ws)[i] \in 1 .. MaxWorkers /\ ws[Free(ws)[i]] = None
           /\ \A i, j \in 1 .. Len(Free(ws)) : Free(ws)[i] = Free(ws)[j] => i = j
  <1> DEFINE all == [i \in 1 .. MaxWorkers |-> i]
             idle == {w \in 1 .. MaxWorkers : ws[w] = None}
             free == Kept(all, idle)
  <1>1. all \in Seq(1 .. MaxWorkers) /\ Len(all) = MaxWorkers /\ \A i \in 1 .. MaxWorkers : all[i] = i
    BY ConstantAssumption
  <1>2. free = Free(ws)
    BY DEF Free
  <1> HIDE DEF all
  <1>3. PICK place : free \in Seq(1 .. MaxWorkers) /\ Keeps(free, place, all, Len(all), idle)
    BY <1>1, KeptIs
  <1> HIDE DEF free
  <1>4. \A i \in 1 .. Len(free) : /\ place[i] \in 1 .. MaxWorkers /\ free[i] = place[i] /\ free[i] \in idle
    BY <1>1, <1>3 DEF Keeps
  <1>5. ASSUME NEW i \in 1 .. Len(free), NEW j \in 1 .. Len(free), free[i] = free[j] PROVE i = j
    <2>1. ~(place[i] < place[j]) /\ ~(place[j] < place[i])
      BY <1>4, <1>5
    <2>2. ~(i < j) /\ ~(j < i)
      BY <2>1, <1>3 DEF Keeps
    <2> QED
      BY <2>2
  <1> QED
    BY <1>2, <1>3, <1>4, <1>5

LEMMA CurrentIs ==
    ASSUME NEW q \in Seq(Token), Once(q), NEW out, out = Kept(q, {item \in Token : item.live})
    PROVE  /\ out \in Seq(Token)
           /\ \A i \in 1 .. Len(out) : out[i] \in Token /\ out[i].live
           /\ \A i, j \in 1 .. Len(out) : out[i].tid = out[j].tid => i = j
           /\ \A t \in Tid : InQueue(q, t) <=> \E i \in 1 .. Len(out) : out[i].tid = t
  <1> DEFINE S == {item \in Token : item.live}
  <1>1. PICK place : out \in Seq(Token) /\ Keeps(out, place, q, Len(q), S)
    BY KeptIs
  <1>2. DOMAIN q = 1 .. Len(q) /\ Len(q) \in Nat /\ \A i \in 1 .. Len(q) : q[i] \in Token
    OBVIOUS
  <1>3. \A i \in 1 .. Len(out) : /\ place[i] \in 1 .. Len(q) /\ out[i] = q[place[i]] /\ out[i] \in S
    BY <1>1 DEF Keeps
  <1>4. ASSUME NEW i \in 1 .. Len(out), NEW j \in 1 .. Len(out), out[i].tid = out[j].tid PROVE i = j
    <2>1. place[i] = place[j]
      BY <1>2, <1>3, <1>4 DEF Once
    <2>2. place[i] \in Nat
      BY <1>3
    <2>3. ~(place[i] < place[j]) /\ ~(place[j] < place[i])
      BY <2>1, <2>2
    <2>4. ~(i < j) /\ ~(j < i)
      BY <2>3, <1>1 DEF Keeps
    <2> QED
      BY <2>4
  <1>5. ASSUME NEW t \in Tid PROVE InQueue(q, t) <=> \E i \in 1 .. Len(out) : out[i].tid = t
    <2>1. ASSUME InQueue(q, t) PROVE \E i \in 1 .. Len(out) : out[i].tid = t
      <3>1. PICK k \in 1 .. Len(q) : q[k].live /\ q[k].tid = t
        BY <1>2, <2>1 DEF InQueue
      <3>2. q[k] \in S
        BY <1>2, <3>1
      <3>3. PICK i \in 1 .. Len(out) : place[i] = k
        BY <1>1, <3>2 DEF Keeps
      <3> QED
        BY <1>3, <3>1, <3>3
    <2>2. ASSUME NEW i \in 1 .. Len(out), out[i].tid = t PROVE InQueue(q, t)
      BY <1>2, <1>3, <2>2 DEF InQueue
    <2> QED
      BY <2>1, <2>2
  <1> QED
    BY <1>1, <1>3, <1>4, <1>5

LEMMA DrivenIs ==
    ASSUME NEW q \in Seq(Token), NEW ws \in [1 .. MaxWorkers -> Worker \cup {None}],
           NEW rs, NEW pending, NEW unread, Exclusive(pending, unread, rs, q, ws),
           NEW q2, NEW ws2, Driven(q, ws) = <<q2, ws2>>
    PROVE  /\ q2 \in Seq(Token) /\ ws2 \in [1 .. MaxWorkers -> Worker \cup {None}]
           /\ \A w \in 1 .. MaxWorkers :
                 ws2[w] = ws[w] \/ (ws[w] = None /\ ws2[w] # None /\ ws2[w].stage = "decoding")
           /\ Exclusive(pending, unread, rs, q2, ws2)
  <1> DEFINE current == Kept(q, {item \in Token : item.live})
             free == Free(ws)
             n == Smaller(Len(free), Len(current))
  <1>1. Once(q) /\ Once(rs) /\ OnceIn(ws)
    BY DEF Exclusive
  <1>2. /\ current \in Seq(Token)
        /\ \A i \in 1 .. Len(current) : current[i] \in Token /\ current[i].live
        /\ \A i, j \in 1 .. Len(current) : current[i].tid = current[j].tid => i = j
        /\ \A t \in Tid : InQueue(q, t) <=> \E i \in 1 .. Len(current) : current[i].tid = t
    BY <1>1, CurrentIs
  <1>3. /\ free \in Seq(1 .. MaxWorkers)
        /\ \A i \in 1 .. Len(free) : free[i] \in 1 .. MaxWorkers /\ ws[free[i]] = None
        /\ \A i, j \in 1 .. Len(free) : free[i] = free[j] => i = j
    BY FreeIs
  <1>4. q2 = Without(current, n)
        /\ ws2 = [w \in 1 .. MaxWorkers |->
                    IF \E i \in 1 .. n : free[i] = w
                    THEN LET i == CHOOSE i \in 1 .. n : free[i] = w
                         IN  [tid |-> current[i].tid, live |-> TRUE, stage |-> "decoding",
                              accepted |-> FALSE]
                    ELSE ws[w]]
    BY DEF Driven
  <1> HIDE DEF current, free
  <1>5. /\ n \in Nat /\ n <= Len(current) /\ Len(current) \in Nat /\ Len(free) \in Nat
        /\ 1 .. n \subseteq 1 .. Len(free) /\ 1 .. n \subseteq 1 .. Len(current)
    BY <1>2, <1>3 DEF Smaller
  <1> HIDE DEF n
  <1>6. /\ q2 \in Seq(Token) /\ Len(q2) = Len(current) - n /\ DOMAIN q2 = 1 .. Len(q2)
        /\ \A i \in 1 .. Len(q2) : q2[i] = current[n + i] /\ n + i \in 1 .. Len(current)
    BY <1>2, <1>4, <1>5 DEF Without
  <1>7. ASSUME NEW i \in 1 .. n
        PROVE  ws2[free[i]] = Started(current[i])
    <2>1. free[i] \in 1 .. MaxWorkers
      BY <1>3, <1>5
    <2>2. PICK k : k = CHOOSE j \in 1 .. n : free[j] = free[i]
      OBVIOUS
    <2>3. k \in 1 .. n /\ free[k] = free[i]
      BY <2>2
    <2>4. k = i
      BY <2>3, <1>3, <1>5
    <2> QED
      BY <1>4, <2>1, <2>2, <2>4 DEF Started
  <1>8. ASSUME NEW w \in 1 .. MaxWorkers, \A i \in 1 .. n : free[i] # w
        PROVE  ws2[w] = ws[w]
    BY <1>4, <1>8
  <1>9. \A i \in 1 .. n : /\ Started(current[i]) \in Worker /\ Started(current[i]) # None
                          /\ Started(current[i]).stage = "decoding" /\ Started(current[i]).live
                          /\ Started(current[i]).tid = current[i].tid
    <2>1. \A c \in Token : Started(c) \in Worker /\ Started(c).stage = "decoding" /\ Started(c).live /\ Started(c).tid = c.tid
      BY DEF Token, Worker, Started, Stage
    <2> QED
      BY <1>2, <1>5, <2>1, NoneAssumption
  <1>10. ASSUME NEW w \in 1 .. MaxWorkers
         PROVE  /\ ws2[w] \in Worker \cup {None}
                /\ ws2[w] = ws[w] \/ (ws[w] = None /\ ws2[w] # None /\ ws2[w].stage = "decoding")
    <2>1. CASE \E i \in 1 .. n : free[i] = w
      BY <2>1, <1>3, <1>5, <1>7, <1>9
    <2>2. CASE ~ \E i \in 1 .. n : free[i] = w
      BY <2>2, <1>8
    <2> QED
      BY <2>1, <2>2
  <1>11. ws2 \in [1 .. MaxWorkers -> Worker \cup {None}]
    BY <1>4, <1>10
  <1>12. \A t \in Tid : InQueue(q2, t) <=> \E i \in 1 .. Len(current) : i > n /\ current[i].tid = t
    <2>1. ASSUME NEW t \in Tid, InQueue(q2, t) PROVE \E i \in 1 .. Len(current) : i > n /\ current[i].tid = t
      <3>1. PICK i \in 1 .. Len(q2) : q2[i].tid = t
        BY <1>6, <2>1 DEF InQueue
      <3>2. n + i \in 1 .. Len(current) /\ n + i > n /\ current[n + i].tid = t
        BY <1>5, <1>6, <3>1
      <3> QED
        BY <3>2
    <2>2. ASSUME NEW t \in Tid, NEW i \in 1 .. Len(current), i > n, current[i].tid = t PROVE InQueue(q2, t)
      <3>1. i - n \in 1 .. Len(q2) /\ n + (i - n) = i
        BY <1>5, <1>6, <2>2
      <3>2. q2[i - n] = current[i]
        BY <1>6, <3>1
      <3> QED
        BY <1>2, <1>6, <2>2, <3>1, <3>2 DEF InQueue
    <2> QED
      BY <2>1, <2>2
  <1>13. \A t \in Tid : InWorkers(ws2, t) <=>
                          InWorkers(ws, t) \/ \E i \in 1 .. n : current[i].tid = t
    <2>1. ASSUME NEW t \in Tid, InWorkers(ws2, t)
          PROVE  InWorkers(ws, t) \/ \E i \in 1 .. n : current[i].tid = t
      <3>1. PICK w \in 1 .. MaxWorkers : ws2[w] # None /\ ws2[w].live /\ ws2[w].tid = t
        BY <2>1 DEF InWorkers
      <3>2. CASE \E i \in 1 .. n : free[i] = w
        BY <3>1, <3>2, <1>7, <1>9
      <3>3. CASE ~ \E i \in 1 .. n : free[i] = w
        BY <3>1, <3>3, <1>8 DEF InWorkers
      <3> QED
        BY <3>2, <3>3
    <2>2. ASSUME NEW t \in Tid, InWorkers(ws, t) PROVE InWorkers(ws2, t)
      <3>1. PICK w \in 1 .. MaxWorkers : ws[w] # None /\ ws[w].live /\ ws[w].tid = t
        BY <2>2 DEF InWorkers
      <3>2. ws2[w] = ws[w]
        BY <1>10, <3>1
      <3> QED
        BY <3>1, <3>2 DEF InWorkers
    <2>3. ASSUME NEW t \in Tid, NEW i \in 1 .. n, current[i].tid = t PROVE InWorkers(ws2, t)
      <3>1. free[i] \in 1 .. MaxWorkers
        BY <1>3, <1>5
      <3> QED
        BY <3>1, <2>3, <1>7, <1>9 DEF InWorkers
    <2> QED
      BY <2>1, <2>2, <2>3
  <1>14. Once(q2)
    <2>1. ASSUME NEW i \in 1 .. Len(q2), NEW j \in 1 .. Len(q2), q2[i].tid = q2[j].tid PROVE i = j
      <3>1. n + i = n + j
        BY <1>2, <1>6, <2>1
      <3> QED
        BY <3>1, <1>5
    <2> QED
      BY <2>1, <1>6 DEF Once
  <1>15. OnceIn(ws2)
    <2>1. SUFFICES ASSUME NEW v \in 1 .. MaxWorkers, NEW w \in 1 .. MaxWorkers,
                          ws2[v] # None, ws2[w] # None, ws2[v].live, ws2[w].live,
                          ws2[v].tid = ws2[w].tid
                   PROVE  v = w
      BY DEF OnceIn
    <2> DEFINE New(x) == \E i \in 1 .. n : free[i] = x
    <2>2. CASE New(v) /\ New(w)
      <3>1. PICK i \in 1 .. n : free[i] = v
        BY <2>2
      <3>2. PICK j \in 1 .. n : free[j] = w
        BY <2>2
      <3>3. current[i].tid = current[j].tid
        BY <2>1, <3>1, <3>2, <1>7, <1>9
      <3> QED
        BY <3>1, <3>2, <3>3, <1>2, <1>5
    <2>3. CASE ~New(v) /\ ~New(w)
      <3>1. ws2[v] = ws[v] /\ ws2[w] = ws[w]
        BY <2>3, <1>8
      <3> QED
        BY <2>1, <3>1, <1>1 DEF OnceIn
    <2>4. ASSUME NEW x \in 1 .. MaxWorkers, NEW y \in 1 .. MaxWorkers, New(x), ~New(y),
                 ws2[y] # None, ws2[y].live, ws2[x].tid = ws2[y].tid
          PROVE  FALSE
      <3>1. PICK i \in 1 .. n : free[i] = x
        BY <2>4
      <3>2. ws2[y] = ws[y] /\ ws[y] \in Worker
        BY <2>4, <1>8, <1>10
      <3>3. PICK t \in Tid : t = ws[y].tid
        BY <3>2 DEF Worker
      <3>4. InWorkers(ws, t)
        BY <2>4, <3>2, <3>3 DEF InWorkers
      <3>5. current[i].tid = t
        BY <2>4, <3>1, <3>2, <3>3, <1>7, <1>9
      <3>6. InQueue(q, t)
        BY <3>5, <1>2, <1>5
      <3> QED
        BY <3>4, <3>6 DEF Exclusive, Apart
    <2> HIDE DEF New
    <2> QED
      BY <2>1, <2>2, <2>3, <2>4
  <1>16. ASSUME NEW t \in Tid
         PROVE  /\ InQueue(q, t) \/ InWorkers(ws, t) <=> InQueue(q2, t) \/ InWorkers(ws2, t)
                /\ ~(InQueue(q2, t) /\ InWorkers(ws2, t))
    <2>1. InQueue(q, t) <=> \E i \in 1 .. Len(current) : current[i].tid = t
      BY <1>2
    <2>2. InQueue(q2, t) <=> \E i \in 1 .. Len(current) : i > n /\ current[i].tid = t
      BY <1>12
    <2>3. InWorkers(ws2, t) <=> InWorkers(ws, t) \/ \E i \in 1 .. n : current[i].tid = t
      BY <1>13
    <2>4. ~(InQueue(q, t) /\ InWorkers(ws, t))
      BY DEF Exclusive, Apart
    <2>5. \A i \in 1 .. Len(current) : i > n \/ i \in 1 .. n
      BY <1>5
    <2>6. \A i \in 1 .. Len(current), j \in 1 .. n : i > n => current[i].tid # current[j].tid
      BY <1>2, <1>5
    <2>7. InQueue(q2, t) => InQueue(q, t)
      BY <2>1, <2>2
    <2>8. (\E i \in 1 .. n : current[i].tid = t) => InQueue(q, t)
      BY <2>1, <1>5
    <2>9. InQueue(q, t) => InQueue(q2, t) \/ \E i \in 1 .. n : current[i].tid = t
      BY <2>1, <2>2, <2>5
    <2>10. InQueue(q2, t) => ~ \E i \in 1 .. n : current[i].tid = t
      BY <2>2, <2>6
    <2> QED
      BY <2>3, <2>4, <2>7, <2>8, <2>9, <2>10
  <1>17. Exclusive(pending, unread, rs, q2, ws2)
    BY <1>1, <1>14, <1>15, <1>16 DEF Exclusive, Apart
  <1> QED
    BY <1>6, <1>10, <1>11, <1>17

LEMMA DrivenPipe ==
    ASSUME NEW rs, NEW q, NEW ws, Pipe(rs, q, ws), NEW taken, ReservedBy(ws, taken),
           NEW pending, NEW unread, Exclusive(pending, unread, rs, q, ws),
           NEW q2, NEW ws2, Driven(q, ws) = <<q2, ws2>>
    PROVE  /\ Pipe(rs, q2, ws2) /\ ReservedBy(ws2, taken)
           /\ Exclusive(pending, unread, rs, q2, ws2)
  <1>1. /\ q2 \in Seq(Token) /\ ws2 \in [1 .. MaxWorkers -> Worker \cup {None}]
        /\ \A w \in 1 .. MaxWorkers :
              ws2[w] = ws[w] \/ (ws[w] = None /\ ws2[w] # None /\ ws2[w].stage = "decoding")
        /\ Exclusive(pending, unread, rs, q2, ws2)
    BY ZenonT(60), DrivenIs DEF Pipe
  <1>2. Pipe(rs, q2, ws2)
    BY <1>1 DEF Pipe, AcceptedSettled
  <1>3. \A w \in 1 .. MaxWorkers : \A m : Commits(ws2, w, m) <=> Commits(ws, w, m)
    BY <1>1 DEF Commits
  <1>4. ReservedBy(ws2, taken)
    BY <1>3 DEF ReservedBy
  <1> QED
    BY <1>1, <1>2, <1>4

LEMMA AppendIs ==
    ASSUME NEW T, NEW q \in Seq(T), NEW x \in T, Once(q), x.live => ~InQueue(q, x.tid)
    PROVE  /\ Append(q, x) \in Seq(T) /\ Once(Append(q, x))
           /\ \A t : InQueue(Append(q, x), t) <=> InQueue(q, t) \/ (x.live /\ x.tid = t)
  <1> DEFINE r == Append(q, x)
             n == Len(q)
  <1>1. /\ r \in Seq(T) /\ n \in Nat /\ DOMAIN q = 1 .. n /\ DOMAIN r = 1 .. n + 1 /\ r[n + 1] = x
        /\ \A i \in 1 .. n : r[i] = q[i]
    OBVIOUS
  <1> HIDE DEF r, n
  <1>2. ASSUME NEW i \in 1 .. n + 1, NEW j \in 1 .. n + 1, r[i].live, r[j].live, r[i].tid = r[j].tid
        PROVE  i = j
    <2>1. CASE i \in 1 .. n /\ j \in 1 .. n
      BY <1>1, <1>2, <2>1 DEF Once
    <2>2. CASE i \in 1 .. n /\ j = n + 1
      <3>1. r[i] = q[i] /\ r[j] = x
        BY <1>1, <2>2
      <3>2. InQueue(q, x.tid) /\ x.live
        BY <1>1, <1>2, <2>2, <3>1 DEF InQueue
      <3> QED
        BY <3>2
    <2>3. CASE j \in 1 .. n /\ i = n + 1
      <3>1. r[j] = q[j] /\ r[i] = x
        BY <1>1, <2>3
      <3>2. InQueue(q, x.tid) /\ x.live
        BY <1>1, <1>2, <2>3, <3>1 DEF InQueue
      <3> QED
        BY <3>2
    <2> QED
      BY <1>1, <2>1, <2>2, <2>3
  <1>3. ASSUME NEW t PROVE InQueue(r, t) <=> InQueue(q, t) \/ (x.live /\ x.tid = t)
    <2>1. ASSUME InQueue(r, t) PROVE InQueue(q, t) \/ (x.live /\ x.tid = t)
      <3>1. PICK i \in 1 .. n + 1 : r[i].live /\ r[i].tid = t
        BY <1>1, <2>1 DEF InQueue
      <3>2. CASE i = n + 1
        BY <1>1, <3>1, <3>2
      <3>3. CASE i # n + 1
        <4>1. i \in 1 .. n
          BY <1>1, <3>3
        <4> QED
          BY <1>1, <3>1, <4>1 DEF InQueue
      <3> QED
        BY <3>2, <3>3
    <2>2. ASSUME InQueue(q, t) PROVE InQueue(r, t)
      <3>1. PICK i \in 1 .. n : q[i].live /\ q[i].tid = t
        BY <1>1, <2>2 DEF InQueue
      <3>2. i \in 1 .. n + 1 /\ r[i] = q[i]
        BY <1>1
      <3> QED
        BY <1>1, <3>1, <3>2 DEF InQueue
    <2>3. ASSUME x.live, x.tid = t PROVE InQueue(r, t)
      <3>1. n + 1 \in 1 .. n + 1
        BY <1>1
      <3> QED
        BY <1>1, <2>3, <3>1 DEF InQueue
    <2> QED
      BY <2>1, <2>2, <2>3
  <1>4. Once(r)
    BY <1>1, <1>2 DEF Once
  <1> QED
    BY <1>1, <1>3, <1>4 DEF r

LEMMA TakeDownloadKeeps ==
    ASSUME Inv, NEW t \in Tid, TakeDownload(t), UNCHANGED <<node, deposited, durable, disk>>
    PROVE  Preserves
  <1> DEFINE x == [tid |-> t, live |-> TRUE]
             q == Append(queue, x)
             c == [client EXCEPT !.unread = client.unread \ {t}]
  <1>1. PICK q2, ws2 : <<q2, ws2>> = Driven(q, workers)
    BY DEF Driven
  <1>2. Driven(q, workers)[1] = q2 /\ Driven(q, workers)[2] = ws2 /\ Driven(q, workers) = <<q2, ws2>>
    <2>1. <<q2, ws2>>[1] = q2 /\ <<q2, ws2>>[2] = ws2
      OBVIOUS
    <2> QED
      BY <1>1, <2>1
  <1>3. /\ t \in client.unread /\ Become(c, results, q2, ws2)
        /\ UNCHANGED <<expired, reserved, save, node, deposited, receipt, settled, disk>>
    BY <1>2 DEF TakeDownload, durable
  <1>4. /\ Right(client) /\ client \in Client /\ ~client.revoked /\ ~client.revised
        /\ Pipe(results, queue, workers)
        /\ Exclusive(client.pending, client.unread, results, queue, workers)
        /\ ReservedBy(workers, reserved)
        /\ results \in Seq(Resolved) /\ queue \in Seq(Token) /\ AcceptedSettled(results, workers)
    BY DEF Inv, ClientRight, Right, PipelineRight, Pipe
  <1>5. x \in Token /\ x.live /\ x.tid = t
    BY DEF Token
  <1>6. Once(queue) /\ ~InQueue(queue, t) /\ ~InQueue(results, t) /\ ~InWorkers(workers, t)
    BY <1>3, <1>4 DEF Exclusive, Apart
  <1> HIDE DEF x
  <1>7. q \in Seq(Token) /\ Once(q) /\ \A s : InQueue(q, s) <=> InQueue(queue, s) \/ s = t
    BY <1>4, <1>5, <1>6, AppendIs
  <1> HIDE DEF q
  <1>8. c \in Client /\ Known(c) /\ Aligned(c) /\ c.unread = client.unread \ {t} /\ c.pending = client.pending
        /\ ~c.revoked /\ ~c.revised
    BY <1>4 DEF Right, Client, Known, Aligned, Front
  <1>9. /\ Exclusive(c.pending, c.unread, results, q, workers)
    BY <1>3, <1>4, <1>6, <1>7, <1>8 DEF Exclusive, Apart
  <1>10. Pipe(results, q, workers)
    BY <1>4, <1>7 DEF Pipe
  <1>11. /\ Pipe(results, q2, ws2) /\ ReservedBy(ws2, reserved)
         /\ Exclusive(c.pending, c.unread, results, q2, ws2)
    BY <1>2, <1>4, <1>9, <1>10, DrivenPipe
  <1>12. Right(c)
    BY <1>8 DEF Right
  <1>13. /\ ClientRight' /\ NetRight' /\ Pipe(results, queue, workers)' /\ ReservedBy(workers', reserved)
         /\ Exclusive(client.pending, client.unread, results, queue, workers)'
    BY <1>3, <1>8, <1>11, <1>12, BecomeKeeps DEF Inv
  <1>14. PipelineRight'
    BY <1>3, <1>13 DEF Inv, PipelineRight
  <1>15. StoreRight'
    BY <1>3 DEF Inv, StoreRight, NothingLost
  <1>16. LedgerRight' /\ AskedPersisted
    <2>1. client' = [c EXCEPT !.revoked = FALSE, !.revised = FALSE]
      BY <1>3 DEF Become
    <2>2. save' = Outdated(c, save)
      BY <1>3, <1>8 DEF Outdated
    <2>3. Records(client, c)
      BY <1>4 DEF Records, Agrees, Client
    <2> QED
      BY <1>3, <1>8, <2>1, <2>2, <2>3, LedgerStep DEF Inv
  <1> QED
    BY <1>13, <1>14, <1>15, <1>16 DEF Inv, Preserves

Staged(ws, ws2, w, to, good) == ws2 = [ws EXCEPT ![w].stage = to, ![w].accepted = good]

SameItem(ws, ws2, w, to, good) ==
    /\ ws2 \in [1 .. MaxWorkers -> Worker \cup {None}]
    /\ \A v \in 1 .. MaxWorkers : v # w => ws2[v] = ws[v]
    /\ ws2[w] # None /\ ws[w] \in Worker /\ ws[w].tid \in Tid
    /\ ws2[w].stage = to /\ ws2[w].accepted = good
    /\ ws2[w].tid = ws[w].tid /\ ws2[w].live = ws[w].live
    /\ (\A t : InWorkers(ws2, t) <=> InWorkers(ws, t)) /\ (OnceIn(ws) => OnceIn(ws2))

LEMMA WorkerStage ==
    ASSUME NEW ws \in [1 .. MaxWorkers -> Worker \cup {None}], NEW w \in 1 .. MaxWorkers, ws[w] # None,
           NEW to \in Stage, NEW good, good \in BOOLEAN,
           NEW ws2, Staged(ws, ws2, w, to, good)
    PROVE  SameItem(ws, ws2, w, to, good)
  <1>1. ws[w] \in Worker
    OBVIOUS
  <1>2. PICK x : x = [ws[w] EXCEPT !.stage = to, !.accepted = good]
    OBVIOUS
  <1>3. /\ x \in Worker /\ x.stage = to /\ x.accepted = good /\ x.tid = ws[w].tid /\ x.live = ws[w].live
        /\ ws[w].tid \in Tid
    BY <1>1, <1>2 DEF Worker
  <1>4. ws2 = [ws EXCEPT ![w] = x]
    BY <1>2 DEF Staged
  <1>5. /\ ws2 \in [1 .. MaxWorkers -> Worker \cup {None}] /\ ws2[w] = x
        /\ \A v \in 1 .. MaxWorkers : v # w => ws2[v] = ws[v]
    BY <1>3, <1>4
  <1>6. x # None
    BY <1>3, NoneAssumption
  <1>7. ASSUME NEW t PROVE InWorkers(ws2, t) <=> InWorkers(ws, t)
    <2>1. \A v \in 1 .. MaxWorkers : /\ (ws2[v] # None) <=> (ws[v] # None)
                                     /\ ws2[v].live = ws[v].live /\ ws2[v].tid = ws[v].tid
      BY <1>3, <1>5, <1>6
    <2> QED
      BY <2>1 DEF InWorkers
  <1>8. OnceIn(ws) => OnceIn(ws2)
    BY <1>3, <1>5, <1>6 DEF OnceIn
  <1> QED
    BY <1>1, <1>3, <1>5, <1>6, <1>7, <1>8 DEF SameItem

LEMMA PipelineStep ==
    ASSUME Inv, PipelineRight', UNCHANGED <<client, net, expired, save, node, deposited, durable, disk>>
    PROVE  Preserves
  <1>1. UNCHANGED <<client, requests, reply, expired, save, node, deposited, receipt, settled, disk>>
    BY DEF net, durable
  <1>2. ClientRight'
    BY <1>1 DEF Inv, ClientRight, Right, Known, Aligned
  <1>3. NetRight' /\ StoreRight' /\ LedgerRight'
    BY <1>1 DEF Inv, NetRight, NetTyped, StoreRight, NothingLost, LedgerRight
  <1>4. AskedPersisted
    BY <1>1 DEF Asks, AskedPersisted
  <1> QED
    BY <1>2, <1>3, <1>4 DEF Inv, Preserves

LEMMA DecodeKeeps ==
    ASSUME Inv, NEW w \in 1 .. MaxWorkers, NEW good \in BOOLEAN,
           Decode(w, good) \/ CheckToken(w), UNCHANGED <<node, deposited, durable, disk>>
    PROVE  Preserves
  <1>1. /\ Pipe(results, queue, workers) /\ reserved \subseteq {MessageOf[t] : t \in Tid}
        /\ Exclusive(client.pending, client.unread, results, queue, workers)
        /\ ReservedBy(workers, reserved) /\ AcceptedSettled(results, workers)
        /\ workers \in [1 .. MaxWorkers -> Worker \cup {None}]
    BY DEF Inv, PipelineRight, Pipe
  <1>2. PICK from, to, acc :
           /\ Work(w, from, to, acc) /\ acc \in BOOLEAN /\ workers[w] # None /\ workers[w].stage = from
           /\ \/ from = "decoding" /\ to = "decoded"
              \/ from = "validating" /\ to \in {"writing", "done"} /\ acc = FALSE
    <2>1. CASE Decode(w, good)
      <3>1. Work(w, "decoding", "decoded", good)
        BY <2>1 DEF Decode
      <3> QED
        BY <3>1 DEF Work, At
    <2>2. CASE CheckToken(w)
      <3>1. PICK to : to = IF workers[w].live THEN "writing" ELSE "done"
        OBVIOUS
      <3>2. Work(w, "validating", to, FALSE) /\ to \in {"writing", "done"}
        BY <2>2, <3>1 DEF CheckToken
      <3> QED
        BY <3>2 DEF Work, At
    <2> QED
      BY <2>1, <2>2
  <1>3. PICK ws2 : ws2 = workers' /\ Staged(workers, ws2, w, to, acc)
    BY <1>2 DEF Work, Staged
  <1>4. UNCHANGED <<client, net, expired, save, node, deposited, durable, disk>> /\ UNCHANGED <<results, queue, reserved>>
        /\ UNCHANGED <<client, settled>>
    BY <1>2 DEF Work, durable
  <1>5. /\ ws2 \in [1 .. MaxWorkers -> Worker \cup {None}]
        /\ \A v \in 1 .. MaxWorkers : v # w => ws2[v] = workers[v]
        /\ ws2[w] # None /\ ws2[w].stage = to /\ ws2[w].accepted = acc
        /\ ws2[w].tid = workers[w].tid /\ ws2[w].live = workers[w].live
        /\ Exclusive(client.pending, client.unread, results, queue, ws2)
    <2>1. to \in Stage /\ acc \in BOOLEAN /\ workers[w] # None /\ Staged(workers, ws2, w, to, acc)
      BY <1>2, <1>3 DEF Stage
    <2>4. workers \in [1 .. MaxWorkers -> Worker \cup {None}]
      BY <1>1
    <2>2. SameItem(workers, ws2, w, to, acc)
      BY <2>1, <2>4, WorkerStage
    <2>3. Exclusive(client.pending, client.unread, results, queue, ws2)
      BY <1>1, <2>2 DEF Exclusive, Apart, SameItem
    <2> QED
      BY <2>2, <2>3 DEF SameItem
  <1>6. AcceptedSettled(results, ws2)
    BY <1>1, <1>2, <1>5 DEF AcceptedSettled
  <1>7. Pipe(results, queue, ws2)
    BY <1>1, <1>5, <1>6 DEF Pipe
  <1>8. \A v \in 1 .. MaxWorkers : \A m : Commits(ws2, v, m) <=> Commits(workers, v, m)
    BY <1>2, <1>5 DEF Commits
  <1>9. ReservedBy(ws2, reserved)
    BY <1>1, <1>8 DEF ReservedBy
  <1>10. PipelineRight'
    BY <1>1, <1>3, <1>4, <1>5, <1>7, <1>9 DEF PipelineRight, Pipe, AcceptedSettled
  <1> QED
    BY <1>4, <1>10, PipelineStep

(* Giving a worker's lease back: its item is resolved, and the queue driven. *)
LEMMA ReleaseIs ==
    ASSUME PipelineRight, NEW w \in 1 .. MaxWorkers, NEW good \in BOOLEAN, workers[w] # None,
           good => workers[w].tid \in settled, Release(w, good),
           NEW taken, ReservedBy([workers EXCEPT ![w] = None], taken)
    PROVE  /\ Pipe(results', queue', workers') /\ ReservedBy(workers', taken)
           /\ Exclusive(client.pending, client.unread, results', queue', workers')
  <1> DEFINE job == workers[w]
             ws == [workers EXCEPT ![w] = None]
             x == [tid |-> job.tid, live |-> TRUE, accepted |-> good]
  <1>1. /\ results \in Seq(Resolved) /\ queue \in Seq(Token) /\ AcceptedSettled(results, workers)
        /\ workers \in [1 .. MaxWorkers -> Worker \cup {None}]
        /\ Exclusive(client.pending, client.unread, results, queue, workers)
    BY DEF PipelineRight, Pipe
  <1>2. PICK q2, ws2 : <<q2, ws2>> = Driven(queue, ws)
    BY DEF Driven
  <1>3. <<q2, ws2>>[1] = q2 /\ <<q2, ws2>>[2] = ws2
    OBVIOUS
  <1>4. queue' = q2 /\ workers' = ws2 /\ results' = Resolve(results, job, good)
    BY <1>2, <1>3 DEF Release
  <1>5. job \in Worker /\ job # None /\ job.tid \in Tid /\ job.live \in BOOLEAN
    BY <1>1 DEF Worker
  <1>6. x \in Resolved /\ x.live /\ x.tid = job.tid /\ x.accepted = good
    BY <1>5 DEF Resolved
  <1> HIDE DEF x
  <1>7. /\ ws \in [1 .. MaxWorkers -> Worker \cup {None}] /\ ws[w] = None
        /\ \A v \in 1 .. MaxWorkers : v # w => ws[v] = workers[v]
    BY <1>1
  <1> DEFINE rs == IF job.live THEN Append(results, x) ELSE results
  <1>8. results' = rs
    BY <1>4, <1>5 DEF Resolve, x
  <1> HIDE DEF job, ws
  <1>9. \A t \in Tid : InWorkers(workers, t) <=> InWorkers(ws, t) \/ (job.live /\ job.tid = t)
    BY <1>5, <1>7 DEF InWorkers, job
  <1>10. OnceIn(ws) /\ (job.live => ~InWorkers(ws, job.tid) /\ ~InQueue(results, job.tid))
    <2>1. OnceIn(workers)
      BY <1>1 DEF Exclusive
    <2>2. OnceIn(ws)
      BY <1>7, <2>1 DEF OnceIn
    <2>3. ASSUME job.live PROVE ~InWorkers(ws, job.tid)
      BY <2>1, <2>3, <1>5, <1>7 DEF OnceIn, InWorkers, job
    <2>4. ASSUME job.live PROVE ~InQueue(results, job.tid)
      BY <1>1, <1>5, <1>9, <2>4 DEF Exclusive, Apart
    <2> QED
      BY <2>2, <2>3, <2>4
  <1>11. /\ rs \in Seq(Resolved) /\ Once(rs)
         /\ \A t \in Tid : InQueue(rs, t) <=> InQueue(results, t) \/ (job.live /\ job.tid = t)
    <2>1. CASE job.live
      <3>1. Once(results) /\ (x.live => ~InQueue(results, x.tid))
        BY <1>1, <1>6, <1>10, <2>1 DEF Exclusive
      <3>2. /\ Append(results, x) \in Seq(Resolved) /\ Once(Append(results, x))
            /\ \A t : InQueue(Append(results, x), t) <=> InQueue(results, t) \/ (x.live /\ x.tid = t)
        BY <1>1, <1>6, <3>1, AppendIs
      <3> QED
        BY <1>6, <2>1, <3>2
    <2>2. CASE ~job.live
      BY <1>1, <2>2 DEF Exclusive
    <2> QED
      BY <2>1, <2>2
  <1>12. AcceptedSettled(rs, ws)
    <2>1. ASSUME NEW i \in DOMAIN rs, rs[i].accepted PROVE rs[i].tid \in settled
      <3>1. CASE job.live
        <4>1. rs = Append(results, x)
          BY <3>1
        <4>2. i \in 1 .. Len(results) + 1 /\ Len(results) \in Nat /\ DOMAIN results = 1 .. Len(results)
          BY <1>1, <1>6, <4>1, <2>1
        <4>3. CASE i = Len(results) + 1
          BY <1>1, <1>6, <4>1, <4>3, <2>1 DEF job
        <4>4. CASE i # Len(results) + 1
          <5>1. i \in 1 .. Len(results)
            BY <4>2, <4>4
          <5>2. rs[i] = results[i]
            BY <1>1, <1>6, <4>1, <5>1
          <5> QED
            BY <1>1, <2>1, <4>2, <5>1, <5>2 DEF AcceptedSettled
        <4> QED
          BY <4>3, <4>4
      <3>2. CASE ~job.live
        BY <1>1, <2>1, <3>2 DEF AcceptedSettled
      <3> QED
        BY <3>1, <3>2
    <2>2. \A v \in 1 .. MaxWorkers :
             ws[v] # None => (ws[v].stage = "done" /\ ws[v].accepted => ws[v].tid \in settled)
      BY <1>1, <1>7 DEF AcceptedSettled
    <2> QED
      BY <2>1, <2>2 DEF AcceptedSettled
  <1> HIDE DEF rs
  <1>13. Exclusive(client.pending, client.unread, rs, queue, ws)
    <2>1. Once(queue)
      BY <1>1 DEF Exclusive
    <2>2. ASSUME NEW t \in Tid
          PROVE  /\ (t \in client.pending) <=> (t \in client.unread \/ InQueue(rs, t) \/ InQueue(queue, t) \/ InWorkers(ws, t))
                 /\ Apart(client.unread, rs, queue, ws, t)
      <3>1. /\ (t \in client.pending) <=> (t \in client.unread \/ InQueue(results, t) \/ InQueue(queue, t) \/ InWorkers(workers, t))
            /\ Apart(client.unread, results, queue, workers, t)
        BY <1>1 DEF Exclusive
      <3>2. InWorkers(workers, t) <=> InWorkers(ws, t) \/ (job.live /\ job.tid = t)
        BY <1>9
      <3>3. InQueue(rs, t) <=> InQueue(results, t) \/ (job.live /\ job.tid = t)
        BY <1>11
      <3>4. job.live /\ job.tid = t => ~InWorkers(ws, t)
        BY <1>10
      <3> QED
        BY <3>1, <3>2, <3>3, <3>4 DEF Apart
    <2> QED
      BY <1>10, <1>11, <2>1, <2>2 DEF Exclusive
  <1>14. Pipe(rs, queue, ws) /\ ReservedBy(ws, taken)
    BY <1>1, <1>7, <1>11, <1>12 DEF Pipe, ws
  <1> QED
    BY <1>2, <1>4, <1>8, <1>13, <1>14, DrivenPipe

LEMMA PollDecodeKeeps ==
    ASSUME Inv, NEW w \in 1 .. MaxWorkers, PollDecode(w), UNCHANGED <<node, deposited, durable, disk>>
    PROVE  Preserves
  <1> DEFINE m == MessageOf[workers[w].tid]
  <1>1. /\ PipelineRight /\ Pipe(results, queue, workers) /\ reserved \subseteq {MessageOf[t] : t \in Tid}
        /\ Exclusive(client.pending, client.unread, results, queue, workers)
        /\ ReservedBy(workers, reserved) /\ AcceptedSettled(results, workers)
        /\ workers \in [1 .. MaxWorkers -> Worker \cup {None}]
    BY DEF Inv, PipelineRight, Pipe
  <1>2. /\ workers[w] # None /\ workers[w].stage = "decoded" /\ workers[w] \in Worker
        /\ workers[w].tid \in Tid
        /\ UNCHANGED <<client, net, expired, save, node, deposited, durable, disk>>
        /\ UNCHANGED <<client, settled>>
    BY <1>1 DEF PollDecode, At, durable, Worker
  <1>3. m \in {MessageOf[t] : t \in Tid}
    BY <1>2
  <1>4. \A n : ~Commits(workers, w, n)
    BY <1>2 DEF Commits
  <1> HIDE DEF m
  <1>5. CASE workers[w].accepted /\ workers[w].live /\ Reservable(m)
    <2>1. PICK ws2 : ws2 = workers' /\ Staged(workers, ws2, w, "validating", FALSE)
      BY <1>5 DEF PollDecode, Staged, m
    <2>2. reserved' = reserved \cup {m} /\ UNCHANGED <<queue, results>> /\ m \notin reserved
      BY <1>5 DEF PollDecode, m, Reservable
    <2>3. "validating" \in Stage /\ FALSE \in BOOLEAN
      BY DEF Stage
    <2>4. SameItem(workers, ws2, w, "validating", FALSE)
      BY <1>1, <1>2, <2>1, <2>3, WorkerStage
    <2>5. Exclusive(client.pending, client.unread, results, queue, ws2)
      BY <1>1, <2>4 DEF Exclusive, Apart, SameItem
    <2>6. AcceptedSettled(results, ws2)
      BY <1>1, <2>4 DEF AcceptedSettled, SameItem
    <2>7. Pipe(results, queue, ws2)
      BY <1>1, <2>4, <2>6 DEF Pipe, SameItem
    <2>8. ASSUME NEW v \in 1 .. MaxWorkers, NEW n
          PROVE  Commits(ws2, v, n) <=> Commits(workers, v, n) \/ (v = w /\ n = m)
      <3>1. CASE v = w
        BY <1>4, <2>4, <3>1 DEF Commits, SameItem, m
      <3>2. CASE v # w
        BY <2>4, <3>2 DEF Commits, SameItem
      <3> QED
        BY <3>1, <3>2
    <2>9. \A v \in 1 .. MaxWorkers : ~Commits(workers, v, m)
      BY <1>1, <1>3, <2>2 DEF ReservedBy
    <2>10. ASSUME NEW n \in {MessageOf[t] : t \in Tid}
           PROVE  /\ \A v, u \in 1 .. MaxWorkers : Commits(ws2, v, n) /\ Commits(ws2, u, n) => v = u
                  /\ (n \in reserved \cup {m}) <=> (\E v \in 1 .. MaxWorkers : Commits(ws2, v, n))
      <3>1. /\ \A v, u \in 1 .. MaxWorkers : Commits(workers, v, n) /\ Commits(workers, u, n) => v = u
            /\ (n \in reserved) <=> (\E v \in 1 .. MaxWorkers : Commits(workers, v, n))
        BY <1>1 DEF ReservedBy
      <3>2. CASE n = m
        <4>1. \A v \in 1 .. MaxWorkers : Commits(ws2, v, n) <=> v = w
          BY <2>8, <2>9, <3>2
        <4> QED
          BY <3>2, <4>1
      <3>3. CASE n # m
        <4>1. \A v \in 1 .. MaxWorkers : Commits(ws2, v, n) <=> Commits(workers, v, n)
          BY <2>8, <3>3
        <4> QED
          BY <3>1, <3>3, <4>1
      <3> QED
        BY <3>2, <3>3
    <2>12. ReservedBy(ws2, reserved \cup {m})
      BY <2>10 DEF ReservedBy
    <2>11. PipelineRight'
      BY <1>1, <1>2, <1>3, <2>1, <2>2, <2>5, <2>7, <2>12 DEF PipelineRight, Pipe, AcceptedSettled
    <2> QED
      BY <1>2, <2>11, PipelineStep
  <1>6. CASE ~(workers[w].accepted /\ workers[w].live /\ Reservable(m))
    <2> DEFINE ws == [workers EXCEPT ![w] = None]
    <2>1. Release(w, FALSE) /\ UNCHANGED reserved
      BY <1>6 DEF PollDecode, m
    <2>2. ws[w] = None /\ \A v \in 1 .. MaxWorkers : v # w => ws[v] = workers[v]
      BY <1>1
    <2> HIDE DEF ws
    <2>3. \A v \in 1 .. MaxWorkers : \A n : Commits(ws, v, n) <=> Commits(workers, v, n)
      BY <1>4, <2>2 DEF Commits
    <2>4. ReservedBy(ws, reserved)
      BY <1>1, <2>3 DEF ReservedBy
    <2>5. /\ Pipe(results', queue', workers') /\ ReservedBy(workers', reserved)
          /\ Exclusive(client.pending, client.unread, results', queue', workers')
      BY <1>1, <1>2, <2>1, <2>4, ReleaseIs DEF ws
    <2>6. PipelineRight'
      BY <1>1, <1>2, <2>1, <2>5 DEF PipelineRight, Pipe, AcceptedSettled
    <2> QED
      BY <1>2, <2>6, PipelineStep
  <1> QED
    BY <1>5, <1>6

LEMMA PollCommitKeeps ==
    ASSUME Inv, NEW w \in 1 .. MaxWorkers, PollCommit(w), UNCHANGED <<node, deposited, durable, disk>>
    PROVE  Preserves
  <1> DEFINE m == MessageOf[workers[w].tid]
             ws == [workers EXCEPT ![w] = None]
  <1>1. /\ PipelineRight /\ reserved \subseteq {MessageOf[t] : t \in Tid}
        /\ ReservedBy(workers, reserved) /\ AcceptedSettled(results, workers)
        /\ workers \in [1 .. MaxWorkers -> Worker \cup {None}]
    BY DEF Inv, PipelineRight, Pipe
  <1>2. /\ workers[w] # None /\ workers[w].stage = "done" /\ workers[w] \in Worker
        /\ workers[w].tid \in Tid /\ workers[w].accepted \in BOOLEAN
        /\ UNCHANGED <<client, net, expired, save, node, deposited, durable, disk>>
        /\ UNCHANGED <<client, settled>>
    BY <1>1 DEF PollCommit, At, durable, Worker
  <1>3. Release(w, workers[w].accepted) /\ reserved' = reserved \ {m}
    BY DEF PollCommit
  <1>4. workers[w].accepted => workers[w].tid \in settled
    BY <1>1, <1>2 DEF AcceptedSettled
  <1>5. ws[w] = None /\ \A v \in 1 .. MaxWorkers : v # w => ws[v] = workers[v]
    BY <1>1
  <1>6. m \in {MessageOf[t] : t \in Tid} /\ Commits(workers, w, m) /\ \A n : Commits(workers, w, n) => n = m
    BY <1>2 DEF Commits
  <1> HIDE DEF ws, m
  <1>7. ASSUME NEW v \in 1 .. MaxWorkers, NEW n
        PROVE  Commits(ws, v, n) <=> Commits(workers, v, n) /\ v # w
    BY <1>5 DEF Commits
  <1>8. \A v \in 1 .. MaxWorkers : Commits(workers, v, m) => v = w
    BY <1>1, <1>6 DEF ReservedBy
  <1>9. ReservedBy(ws, reserved \ {m})
    <2>1. ASSUME NEW n \in {MessageOf[t] : t \in Tid}
          PROVE  /\ \A u, v \in 1 .. MaxWorkers : Commits(ws, u, n) /\ Commits(ws, v, n) => u = v
                 /\ (n \in reserved \ {m}) <=> (\E v \in 1 .. MaxWorkers : Commits(ws, v, n))
      <3>1. \A u, v \in 1 .. MaxWorkers : Commits(ws, u, n) /\ Commits(ws, v, n) => u = v
        BY <1>1, <1>7 DEF ReservedBy
      <3>2. CASE n = m
        BY <3>1, <3>2, <1>7, <1>8
      <3>3. CASE n # m
        <4>1. (n \in reserved) <=> (\E v \in 1 .. MaxWorkers : Commits(workers, v, n))
          BY <1>1 DEF ReservedBy
        <4>2. \A v \in 1 .. MaxWorkers : Commits(ws, v, n) <=> Commits(workers, v, n)
          BY <1>6, <1>7, <3>3
        <4> QED
          BY <3>1, <3>3, <4>1, <4>2
      <3> QED
        BY <3>2, <3>3
    <2> QED
      BY <2>1 DEF ReservedBy
  <1>10. /\ Pipe(results', queue', workers') /\ ReservedBy(workers', reserved \ {m})
         /\ Exclusive(client.pending, client.unread, results', queue', workers')
    BY <1>1, <1>2, <1>3, <1>4, <1>9, ReleaseIs DEF ws
  <1>11. PipelineRight'
    BY <1>1, <1>2, <1>3, <1>10 DEF PipelineRight, Pipe, AcceptedSettled
  <1> QED
    BY <1>2, <1>11, PipelineStep

LEMMA CommitWriteKeeps ==
    ASSUME Inv, NEW w \in 1 .. MaxWorkers, NEW r \in {"visible", "invisible", None}, CommitWrite(w, r)
    PROVE  Preserves
  <1> DEFINE t == workers[w].tid
  <1>1. /\ PipelineRight /\ reserved \subseteq {MessageOf[s] : s \in Tid}
        /\ ReservedBy(workers, reserved) /\ AcceptedSettled(results, workers)
        /\ Exclusive(client.pending, client.unread, results, queue, workers)
        /\ results \in Seq(Resolved) /\ queue \in Seq(Token)
        /\ workers \in [1 .. MaxWorkers -> Worker \cup {None}]
    BY DEF Inv, PipelineRight, Pipe
  <1>2. /\ UNCHANGED <<client, results, requests, reply, queue, reserved, save, node, deposited, disk>>
        /\ workers[w] # None /\ workers[w].stage = "writing" /\ t \in Tid
    BY <1>1 DEF CommitWrite, At, net, Worker
  <1>3. PICK good : good = (r # None) /\ good \in BOOLEAN
    OBVIOUS
  <1>4. PICK ws2 : ws2 = workers' /\ Staged(workers, ws2, w, "done", good)
    BY <1>3 DEF CommitWrite, Staged
  <1>5. SameItem(workers, ws2, w, "done", good)
    BY <1>1, <1>2, <1>3, <1>4, WorkerStage DEF Stage
  <1>6. /\ settled \subseteq settled' /\ settled' \subseteq Tid /\ (good => t \in settled')
        /\ (~good => settled' = settled)
    BY <1>2, <1>3 DEF CommitWrite, Inv, StoreRight
  <1>7. /\ receipt' \in [Tid -> {"visible", "invisible", None}]
        /\ \A s \in Tid : receipt'[s] # None => s \in settled'
    <2>1. receipt \in [Tid -> {"visible", "invisible", None}] /\ \A s \in Tid : receipt[s] # None => s \in settled
      BY DEF Inv, StoreRight
    <2>2. receipt' = receipt \/ (r # None /\ receipt' = [receipt EXCEPT ![t] = r])
      BY DEF CommitWrite
    <2>3. CASE receipt' = receipt
      BY <1>6, <2>1, <2>3
    <2>4. CASE r # None /\ receipt' = [receipt EXCEPT ![t] = r]
      BY <1>2, <1>3, <1>6, <2>1, <2>4
    <2> QED
      BY <2>2, <2>3, <2>4
  <1>8. expired' \subseteq Tid
    BY DEF CommitWrite, Inv, StoreRight
  <1> HIDE DEF t
  <1>9. StoreRight'
    BY <1>2, <1>6, <1>7, <1>8 DEF Inv, StoreRight, NothingLost
  <1>10. PipelineRight'
    <2>1. Exclusive(client.pending, client.unread, results, queue, ws2)
      BY <1>1, <1>5 DEF Exclusive, Apart, SameItem
    <2>2. \A i \in DOMAIN results : results[i].accepted => results[i].tid \in settled'
      BY <1>1, <1>6 DEF AcceptedSettled
    <2>3. ASSUME NEW v \in 1 .. MaxWorkers, ws2[v] # None, ws2[v].stage = "done", ws2[v].accepted
          PROVE  ws2[v].tid \in settled'
      <3>1. CASE v = w
        BY <1>5, <1>6, <2>3, <3>1 DEF SameItem, t
      <3>2. CASE v # w
        BY <1>1, <1>5, <1>6, <2>3, <3>2 DEF SameItem, AcceptedSettled
      <3> QED
        BY <3>1, <3>2
    <2>4. \A v \in 1 .. MaxWorkers : \A m : Commits(ws2, v, m) <=> Commits(workers, v, m)
      BY <1>2, <1>5 DEF Commits, SameItem
    <2>5. ReservedBy(ws2, reserved)
      BY <1>1, <2>4 DEF ReservedBy
    <2>6. ws2 \in [1 .. MaxWorkers -> Worker \cup {None}]
      BY <1>5 DEF SameItem
    <2>7. AcceptedSettled(results, workers)'
      BY <1>2, <1>4, <2>2, <2>3 DEF AcceptedSettled
    <2>8. Pipe(results, queue, workers)'
      BY <1>1, <1>2, <1>4, <2>6, <2>7 DEF Pipe
    <2> QED
      BY <1>1, <1>2, <1>4, <2>1, <2>5, <2>8 DEF PipelineRight
  <1>11. ClientRight'
    BY <1>2, <1>6 DEF Inv, ClientRight, Right, Known, Aligned
  <1>12. NetRight'
    BY <1>2, <1>6 DEF Inv, NetRight, NetTyped
  <1>13. LedgerRight' /\ AskedPersisted
    BY <1>2 DEF Inv, LedgerRight, Asks, AskedPersisted
  <1> QED
    BY <1>9, <1>10, <1>11, <1>12, <1>13 DEF Inv, Preserves

LEMMA PrunedTokens ==
    ASSUME NEW c \in Client
    PROVE  /\ PruneSuppression(c).revoked = c.revoked /\ PruneSuppression(c).pending = c.pending
           /\ PruneSuppression(c).unread = c.unread
  BY DEF PruneSuppression, Revised, Client

LEMMA AgreesOn ==
    ASSUME NEW l1, NEW l2, NEW l3, Agrees(l1, l2), Agrees(l2, l3)
    PROVE  Agrees(l1, l3)
  BY DEF Agrees, Recorded

LEMMA DriveSuppressionKeeps ==
    ASSUME Inv, NEW retry \in BOOLEAN, DriveSuppression(retry), UNCHANGED <<node, deposited, durable, disk>>
    PROVE  Preserves
  <1> DEFINE p == PruneSuppression(client)
             a == [p EXCEPT !.dirty = FALSE, !.persistFailed = FALSE]
             f == [p EXCEPT !.persistFailed = TRUE]
  <1>1. PICK c : /\ c = IF save = None THEN p
                        ELSE IF save.stage = "saved" THEN Acknowledged(p, save)
                        ELSE [p EXCEPT !.persistFailed = TRUE]
                 /\ save # None \/ p.dirty
                 /\ Become(c, results, queue, workers)
                 /\ save' = IF c.dirty /\ retry /\ (save # None => save.stage = "saved")
                            THEN [ledger |-> c.ledger, stage |-> "writing", current |-> TRUE]
                            ELSE None
    BY DEF DriveSuppression
  <1>2. /\ Right(client) /\ client \in Client /\ ~client.revoked /\ ~client.revised
        /\ Pipe(results, queue, workers)
        /\ Exclusive(client.pending, client.unread, results, queue, workers)
        /\ ReservedBy(workers, reserved)
    BY DEF Inv, ClientRight, Right, PipelineRight
  <1>3. UNCHANGED <<expired, reserved, node, deposited, receipt, settled, disk>>
    BY DEF DriveSuppression, durable
  <1>4. /\ Right(p) /\ Records(client, p) /\ p.revoked = client.revoked /\ p.pending = client.pending
        /\ p.unread = client.unread
    BY <1>2, PruneSuppressionRight, PrunedTokens DEF Evolves
  <1> HIDE DEF p
  <1>5. p \in Client /\ Known(p) /\ Aligned(p)
    BY <1>4 DEF Right
  <1>6. /\ Right(a) /\ a.revoked = p.revoked /\ a.pending = p.pending /\ a.unread = p.unread
        /\ a.request = p.request /\ a.ledger = p.ledger
    BY <1>5 DEF Right, Client, Known, Aligned, Front
  <1>7. /\ Right(f) /\ f.revoked = p.revoked /\ f.pending = p.pending /\ f.unread = p.unread
        /\ f.request = p.request /\ f.ledger = p.ledger /\ f.persistFailed
    BY <1>5 DEF Right, Client, Known, Aligned, Front
  <1>8. \/ c = p /\ p.dirty
        \/ c = a /\ save # None /\ save.stage = "saved" /\ save.current /\ ~p.revised
        \/ c = f
    <2>1. CASE save = None
      BY <1>1, <2>1
    <2>2. CASE save # None /\ save.stage = "saved"
      <3>1. p.dirty
        BY <2>2, <1>4 DEF Inv, LedgerRight, Records
      <3> QED
        BY <1>1, <2>2, <3>1 DEF Acknowledged
    <2>3. CASE save # None /\ save.stage # "saved"
      BY <1>1, <2>3
    <2> QED
      BY <2>1, <2>2, <2>3
  <1>9. ~c.dirty /\ ~c.persistFailed => Agrees(c.ledger, disk)
    <2>1. CASE c = a /\ save # None /\ save.stage = "saved" /\ save.current /\ ~p.revised
      <3>1. Agrees(p.ledger, client.ledger)
        BY <1>4, <2>1 DEF Records
      <3>2. Agrees(client.ledger, save.ledger) /\ save.ledger = disk
        BY <2>1 DEF Inv, LedgerRight
      <3> QED
        BY <1>6, <2>1, <3>1, <3>2, AgreesOn
    <2> QED
      BY <1>7, <1>8, <2>1
  <1> HIDE DEF a, f
  <1>10. /\ Right(c) /\ ~c.revoked /\ c.pending = client.pending /\ c.unread = client.unread
         /\ c.request = p.request
    BY <1>2, <1>4, <1>6, <1>7, <1>8
  <1>11. /\ ClientRight' /\ NetRight' /\ Pipe(results, queue, workers)' /\ ReservedBy(workers', reserved)
         /\ Exclusive(client.pending, client.unread, results, queue, workers)'
         /\ client'.request = c.request
    BY <1>1, <1>2, <1>3, <1>10, BecomeKeeps DEF Inv
  <1>12. PipelineRight'
    BY <1>3, <1>11 DEF Inv, PipelineRight
  <1>13. StoreRight'
    BY <1>3 DEF Inv, StoreRight, NothingLost
  <1>14. c \in Client /\ client' = [c EXCEPT !.revoked = FALSE, !.revised = FALSE]
    BY <1>1, <1>10 DEF Become, Right
  <1>15. /\ client'.dirty = c.dirty /\ client'.persistFailed = c.persistFailed /\ client'.ledger = c.ledger
         /\ c.ledger \in Ledger
    BY <1>14 DEF Client
  <1>16. AskedPersisted
    <2>1. SUFFICES ASSUME Asks("Get") PROVE Agrees(client.ledger, disk)
      BY DEF AskedPersisted
    <2>2. p.request # None /\ p.request # client.request /\ p.request.kind = "Get"
      BY <1>10, <1>11, <2>1 DEF Asks
    <2>3. ~client.dirty /\ ~client.persistFailed
      BY <1>4, <2>2 DEF Records
    <2> QED
      BY <2>3 DEF Inv, LedgerRight
  <1>17. LedgerRight'
    <2>1. disk' \in Ledger
      BY <1>3 DEF Inv, LedgerRight
    <2>2. PICK k : k = [ledger |-> c.ledger, stage |-> "writing", current |-> TRUE]
      OBVIOUS
    <2>3. k \in Save /\ k.ledger = c.ledger /\ k.stage = "writing"
      BY <1>15, <2>2 DEF Save
    <2>4. Agrees(c.ledger, c.ledger)
      BY DEF Agrees
    <2>5. CASE save' = None
      BY <1>3, <1>9, <1>15, <2>1, <2>5 DEF LedgerRight
    <2>6. CASE save' = k /\ c.dirty
      BY <1>3, <1>9, <1>15, <2>1, <2>3, <2>4, <2>6 DEF LedgerRight
    <2> QED
      BY <1>1, <2>2, <2>5, <2>6
  <1> QED
    BY <1>11, <1>12, <1>13, <1>16, <1>17 DEF Inv, Preserves
-----------------------------------------------------------------------------
LEMMA StoreKeeps ==
    ASSUME Inv, NEW t \in Tid,
           ReceiptExpires(t) \/ UserDeletes(t) \/ ReceiptPruned(t) \/ Deposit(t)
    PROVE  Preserves
  <1>1. UNCHANGED <<client, results, requests, reply, queue, workers, reserved, save, settled, disk>>
    BY DEF ReceiptExpires, UserDeletes, ReceiptPruned, Deposit, net, pipeline, durable, clientVars
  <1>2. StoreRight'
    <2>1. /\ receipt \in [Tid -> {"visible", "invisible", None}]
          /\ \A s \in Tid : receipt[s] # None => s \in settled
          /\ deposited \subseteq node \cup settled /\ expired \subseteq Tid /\ node \subseteq Tid
          /\ deposited \subseteq Tid /\ settled \subseteq Tid
      BY DEF Inv, StoreRight, NothingLost
    <2>2. CASE ReceiptExpires(t)
      BY <1>1, <2>1, <2>2 DEF ReceiptExpires, durable, StoreRight, NothingLost
    <2>3. CASE UserDeletes(t)
      <3>1. receipt[t] # None
        BY <2>3, NoneAssumption DEF UserDeletes
      <3> QED
        BY <1>1, <2>1, <2>3, <3>1 DEF UserDeletes, StoreRight, NothingLost
    <2>4. CASE ReceiptPruned(t)
      BY <1>1, <2>1, <2>4 DEF ReceiptPruned, StoreRight, NothingLost
    <2>5. CASE Deposit(t)
      BY <1>1, <2>1, <2>5 DEF Deposit, clientVars, durable, StoreRight, NothingLost
    <2> QED
      BY <2>2, <2>3, <2>4, <2>5
  <1>3. ClientRight' /\ NetRight' /\ PipelineRight' /\ LedgerRight' /\ AskedPersisted
    BY <1>1 DEF Inv, ClientRight, Right, Known, Aligned, NetRight, NetTyped, PipelineRight, Pipe, AcceptedSettled,
                LedgerRight, Asks, AskedPersisted
  <1> QED
    BY <1>2, <1>3 DEF Inv, Preserves

LEMMA AgedAgrees ==
    ASSUME NEW l1 \in Ledger, NEW l2 \in Ledger, NEW t \in Tid, l1[t] # None, NEW age \in Age, Agrees(l1, l2)
    PROVE  Agrees(Aged(l1, t, age), Aged(l2, t, age))
  <1>1. l2[t] = l1[t]
    BY DEF Agrees, Recorded
  <1>2. Aged(l1, t, age) = [l1 EXCEPT ![t] = age] /\ Aged(l2, t, age) = [l2 EXCEPT ![t] = age]
    BY <1>1 DEF Aged
  <1> QED
    BY <1>2 DEF Agrees, Recorded, Ledger

LEMMA RecordAgesKeeps ==
    ASSUME Inv, NEW t \in Tid, NEW age \in {"due", "stale"}, RecordAges(t, age)
    PROVE  Preserves
  <1>1. UNCHANGED <<results, requests, reply, expired, queue, workers, reserved, node, deposited, receipt, settled>>
    BY DEF RecordAges, net, pipeline, durable
  <1>2. client \in Client /\ client.ledger \in Ledger /\ disk \in Ledger /\ age \in Age /\ client.ledger[t] # None
    BY DEF Inv, ClientRight, Right, Client, LedgerRight, RecordAges, Age
  <1>3. PICK aged : aged = Aged(client.ledger, t, age)
    OBVIOUS
  <1>4. \A l \in Ledger : Aged(l, t, age) \in Ledger
    BY <1>2 DEF Aged, Ledger
  <1>5. PICK d : d = client' /\ d = [client EXCEPT !.ledger = aged]
    BY <1>3 DEF RecordAges
  <1>6. /\ d \in Client /\ d.ledger = aged /\ d.request = client.request /\ d.pending = client.pending
        /\ d.unread = client.unread /\ d.dirty = client.dirty /\ d.persistFailed = client.persistFailed
        /\ d.revoked = client.revoked /\ d.revised = client.revised
        /\ d.haves = client.haves /\ d.wants = client.wants /\ d.received = client.received
        /\ d.local = client.local
    BY <1>2, <1>3, <1>4, <1>5 DEF Client
  <1>7. ClientRight'
    BY <1>1, <1>5, <1>6 DEF Inv, ClientRight, Right, Known, Aligned
  <1>8. NetRight' /\ StoreRight'
    BY <1>1, <1>5, <1>6 DEF Inv, NetRight, NetTyped, StoreRight, NothingLost
  <1>9. PipelineRight'
    BY <1>1, <1>5, <1>6 DEF Inv, PipelineRight, Pipe, AcceptedSettled
  <1>10. AskedPersisted
    BY <1>5, <1>6 DEF Asks, AskedPersisted
  <1>11. \A l \in Ledger : Agrees(client.ledger, l) => Agrees(aged, Aged(l, t, age))
    BY <1>2, <1>3, AgedAgrees
  <1>12. LedgerRight'
    <2>1. disk' = Aged(disk, t, age) /\ disk' \in Ledger
      BY <1>2, <1>4 DEF RecordAges
    <2>2. ~d.dirty /\ ~d.persistFailed => Agrees(d.ledger, disk')
      BY <1>2, <1>6, <1>11, <2>1 DEF Inv, LedgerRight
    <2>3. CASE save = None
      <3>1. save' = None
        BY <2>3 DEF RecordAges
      <3> QED
        BY <1>5, <2>1, <2>2, <3>1 DEF LedgerRight
    <2>4. CASE save # None
      <3>1. save \in Save /\ save.ledger \in Ledger
        BY <2>4 DEF Inv, LedgerRight, Save
      <3>2. PICK k : k = save' /\ k = [save EXCEPT !.ledger = Aged(save.ledger, t, age)]
        BY <2>4 DEF RecordAges
      <3>3. k \in Save /\ k.ledger = Aged(save.ledger, t, age) /\ k.stage = save.stage /\ k.current = save.current
        BY <1>4, <3>1, <3>2 DEF Save
      <3>4. d.dirty /\ (k.current => Agrees(d.ledger, k.ledger)) /\ (k.stage = "saved" => k.ledger = disk')
        BY <1>6, <1>11, <2>1, <2>4, <3>1, <3>3 DEF Inv, LedgerRight
      <3> QED
        BY <1>5, <2>1, <2>2, <3>2, <3>3, <3>4 DEF LedgerRight
    <2> QED
      BY <2>3, <2>4
  <1> QED
    BY <1>7, <1>8, <1>9, <1>10, <1>12 DEF Inv, Preserves

LEMMA SaveSuppressionKeeps ==
    ASSUME Inv, NEW good \in BOOLEAN, SaveSuppression(good)
    PROVE  Preserves
  <1>1. UNCHANGED <<client, results, requests, reply, expired, queue, workers, reserved, node, deposited, receipt, settled>>
    BY DEF SaveSuppression, net, pipeline, durable
  <1>2. save # None /\ save \in Save /\ client.dirty /\ disk \in Ledger /\ save.stage = "writing"
    BY DEF SaveSuppression, Inv, LedgerRight
  <1>3. PICK st : st \in {"saved", "failed"} /\ (st = "saved" => good) /\ save' = [save EXCEPT !.stage = st]
    BY DEF SaveSuppression
  <1>4. PICK k : k = save' /\ k = [save EXCEPT !.stage = st]
    BY <1>3
  <1>5. k \in Save /\ k.stage = st /\ k.ledger = save.ledger /\ k.current = save.current /\ save.ledger \in Ledger
    BY <1>2, <1>3, <1>4 DEF Save
  <1>6. disk' \in Ledger /\ (good => disk' = save.ledger)
    BY <1>2, <1>5 DEF SaveSuppression
  <1>7. LedgerRight'
    BY <1>1, <1>2, <1>3, <1>4, <1>5, <1>6 DEF Inv, LedgerRight
  <1>8. ClientRight' /\ NetRight' /\ PipelineRight' /\ StoreRight' /\ AskedPersisted
    BY <1>1 DEF Inv, ClientRight, Right, Known, Aligned, NetRight, NetTyped, PipelineRight, Pipe, AcceptedSettled,
                StoreRight, NothingLost, Asks, AskedPersisted
  <1> QED
    BY <1>7, <1>8 DEF Inv, Preserves

LEMMA RespondIs ==
    ASSUME NetRight, NEW m \in requests, NEW ok \in BOOLEAN, NEW ids \in Seq(Tid), Respond(m, ok, ids),
           UNCHANGED <<client, settled>>
    PROVE  NetRight'
  <1>1. requests' \subseteq requests
    BY DEF Respond
  <1>2. PICK r : r = [ok |-> ok, ids |-> ids]
    OBVIOUS
  <1>3. r \in Reply /\ reply' = IF m.current THEN r ELSE reply
    BY <1>2 DEF Reply, Respond
  <1> QED
    BY <1>1, <1>3 DEF NetRight, NetTyped

LEMMA NetKeeps ==
    ASSUME Inv, Serve \/ NodeUpset
    PROVE  Preserves
  <1>1. UNCHANGED <<client, results, expired, queue, workers, reserved, save, deposited, receipt, settled, disk>>
    BY DEF Serve, NodeUpset, pipeline, durable
  <1>2. NetRight /\ NetTyped
    BY DEF Inv, NetRight
  <1>3. NetRight' /\ node' \subseteq node /\ node \subseteq node' \cup settled
    <2>1. CASE NodeUpset
      <3>1. node' = node
        BY <2>1 DEF NodeUpset
      <3>2. CASE LoseReply
        BY <1>1, <1>2, <3>1, <3>2 DEF LoseReply, NetRight, NetTyped
      <3>3. ASSUME NEW m \in requests, Refuse(m) PROVE NetRight'
        <4>1. <<>> \in Seq(Tid)
          OBVIOUS
        <4> QED
          BY <1>1, <1>2, <3>3, <4>1, RespondIs DEF Refuse
      <3>4. ASSUME NEW m \in requests, Lose(m) PROVE NetRight'
        BY <1>1, <1>2, <3>4 DEF Lose, NetRight, NetTyped
      <3> QED
        BY <2>1, <3>1, <3>2, <3>3, <3>4 DEF NodeUpset
    <2>2. ASSUME NEW m \in requests, ServeList(m) PROVE NetRight' /\ node' = node
      <3>1. InOrder(node) \in Seq(Tid)
        BY InOrderTypes
      <3> QED
        BY <1>1, <1>2, <2>2, <3>1, RespondIs DEF ServeList
    <2>3. ASSUME NEW m \in requests, ServeGet(m) PROVE NetRight' /\ node' = node
      <3>1. PICK served : Respond(m, TRUE, InOrder(served))
        BY <2>3 DEF ServeGet
      <3>2. InOrder(served) \in Seq(Tid)
        BY InOrderTypes
      <3> QED
        BY <1>1, <1>2, <2>3, <3>1, <3>2, RespondIs DEF ServeGet
    <2>4. ASSUME NEW m \in requests, ServePurge(m)
          PROVE  NetRight' /\ node' \subseteq node /\ node \subseteq node' \cup settled
      <3>1. m \in [kind: Kind, ids: Chunks, current: BOOLEAN] /\ m.kind \in {"Haves", "Purge"}
        BY <1>2, <2>4 DEF NetTyped, ServePurge
      <3>2. m.ids \in Seq(Tid) /\ Ids(m.ids) \subseteq settled
        BY <1>2, <3>1 DEF Chunks, NetRight
      <3>3. PICK n \in 0 .. Len(m.ids) : /\ node' = node \ Ids(SubSeq(m.ids, 1, n))
                                         /\ Respond(m, n = Len(m.ids), <<>>)
        BY <2>4 DEF ServePurge
      <3>4. Ids(SubSeq(m.ids, 1, n)) \subseteq Ids(m.ids)
        <4>1. \A i \in 1 .. n : i \in DOMAIN m.ids /\ SubSeq(m.ids, 1, n)[i] = m.ids[i]
          BY <3>2, <3>3
        <4>2. DOMAIN SubSeq(m.ids, 1, n) = 1 .. n
          BY <3>2, <3>3
        <4> QED
          BY <4>1, <4>2 DEF Ids
      <3>5. <<>> \in Seq(Tid) /\ (n = Len(m.ids)) \in BOOLEAN
        OBVIOUS
      <3>6. NetRight'
        BY <1>1, <1>2, <3>3, <3>5, RespondIs
      <3> QED
        BY <3>2, <3>3, <3>4, <3>6
    <2>5. CASE Serve
      <3>1. PICK m \in requests : ServeList(m) \/ ServeGet(m) \/ ServePurge(m)
        BY <2>5 DEF Serve
      <3>2. CASE ServeList(m)
        BY <2>2, <3>2
      <3>3. CASE ServeGet(m)
        BY <2>3, <3>3
      <3>4. CASE ServePurge(m)
        BY <2>4, <3>4
      <3> QED
        BY <3>1, <3>2, <3>3, <3>4
    <2> QED
      BY <2>1, <2>5
  <1>4. StoreRight'
    BY <1>1, <1>3 DEF Inv, StoreRight, NothingLost
  <1>5. ClientRight' /\ PipelineRight' /\ LedgerRight' /\ AskedPersisted
    BY <1>1 DEF Inv, ClientRight, Right, Known, Aligned, PipelineRight, Pipe, AcceptedSettled,
                LedgerRight, Asks, AskedPersisted
  <1> QED
    BY <1>3, <1>4, <1>5 DEF Inv, Preserves

LEMMA FreshClient ==
    ASSUME NEW ledger \in Ledger
    PROVE  /\ Right(NewClient(ledger)) /\ ~NewClient(ledger).revoked /\ ~NewClient(ledger).revised
           /\ NewClient(ledger).request = None /\ NewClient(ledger).ledger = ledger
           /\ NewClient(ledger).pending = {} /\ NewClient(ledger).unread = {}
  <1>1. <<>> \in Seq(Tid) /\ Ids(<<>>) = {}
    BY DEF Ids
  <1>2. NewClient(ledger) \in Client
    BY <1>1 DEF NewClient, Client
  <1> QED
    BY <1>1, <1>2 DEF Right, Known, Aligned, NewClient

EmptyPipeline ==
    results = <<>> /\ queue = <<>> /\ reserved = {} /\ workers = [w \in 1 .. MaxWorkers |-> None]

LEMMA EmptyPipelineIs == EmptyPipeline /\ client.pending = {} /\ client.unread = {} => PipelineRight
  <1> SUFFICES ASSUME EmptyPipeline, client.pending = {}, client.unread = {} PROVE PipelineRight
    OBVIOUS
  <1>1. \A w \in 1 .. MaxWorkers : workers[w] = None
    BY DEF EmptyPipeline
  <1>2. DOMAIN results = {} /\ DOMAIN queue = {}
    BY DEF EmptyPipeline
  <1>3. Pipe(results, queue, workers)
    BY <1>1, <1>2 DEF EmptyPipeline, Pipe, AcceptedSettled
  <1>4. Exclusive(client.pending, client.unread, results, queue, workers)
    BY <1>1, <1>2 DEF Exclusive, Apart, Once, OnceIn, InQueue, InWorkers
  <1>5. ReservedBy(workers, reserved)
    BY <1>1 DEF ReservedBy, Commits, EmptyPipeline
  <1> QED
    BY <1>3, <1>4, <1>5 DEF PipelineRight, EmptyPipeline

LEMMA CrashKeeps ==
    ASSUME Inv, Crash
    PROVE  Preserves
  <1>1. disk \in Ledger
    BY DEF Inv, LedgerRight
  <1>2. PICK c : c = NewClient(disk)
    OBVIOUS
  <1>3. /\ Right(c) /\ ~c.revoked /\ ~c.revised /\ c.request = None /\ c.ledger = disk
        /\ c.pending = {} /\ c.unread = {}
    BY <1>1, <1>2, FreshClient
  <1>4. /\ client' = c /\ save' = None /\ reply' = None
        /\ requests' = {[m EXCEPT !.current = FALSE] : m \in requests}
        /\ UNCHANGED <<expired, node, deposited, receipt, settled, disk>> /\ EmptyPipeline'
    BY <1>2 DEF Crash, durable, EmptyPipeline
  <1>5. ClientRight'
    BY <1>3, <1>4 DEF ClientRight, Right, Known, Aligned
  <1>6. NetRight'
    <2>1. ASSUME NEW m \in requests'
          PROVE  /\ m \in [kind: Kind, ids: Chunks, current: BOOLEAN] /\ ~m.current
                 /\ m.kind \in {"Haves", "Purge"} => Ids(m.ids) \subseteq settled
      <3>1. PICK n \in requests : m = [n EXCEPT !.current = FALSE]
        BY <1>4
      <3>2. n \in [kind: Kind, ids: Chunks, current: BOOLEAN]
        BY DEF Inv, NetRight, NetTyped
      <3>3. m.kind = n.kind /\ m.ids = n.ids /\ ~m.current /\ m \in [kind: Kind, ids: Chunks, current: BOOLEAN]
        BY <3>1, <3>2
      <3> QED
        BY <3>3 DEF Inv, NetRight
    <2> QED
      BY <1>4, <2>1 DEF NetRight, NetTyped
  <1>7. PipelineRight'
    <2>1. (EmptyPipeline /\ client.pending = {} /\ client.unread = {})'
      BY <1>3, <1>4
    <2> QED
      BY <2>1, EmptyPipelineIs, PTL
  <1>8. StoreRight'
    BY <1>4 DEF Inv, StoreRight, NothingLost
  <1>9. LedgerRight'
    BY <1>1, <1>3, <1>4 DEF LedgerRight, Agrees
  <1>10. AskedPersisted
    BY <1>3, <1>4 DEF Asks, AskedPersisted
  <1> QED
    BY <1>5, <1>6, <1>7, <1>8, <1>9, <1>10 DEF Inv, Preserves

LEMMA InitInv == Init => Inv
  <1>1. SUFFICES ASSUME Init PROVE Inv
    OBVIOUS
  <1>2. [t \in Tid |-> None] \in Ledger
    BY DEF Ledger
  <1>3. PICK c : c = NewClient([t \in Tid |-> None]) /\ client = c
    BY <1>1 DEF Init
  <1>4. /\ Right(c) /\ ~c.revoked /\ ~c.revised /\ c.request = None /\ c.ledger = [t \in Tid |-> None]
        /\ c.pending = {} /\ c.unread = {}
    BY <1>2, <1>3, FreshClient
  <1>5. PipelineRight
    BY <1>1, <1>3, <1>4, EmptyPipelineIs DEF Init, EmptyPipeline
  <1>6. NetRight /\ StoreRight
    BY <1>1 DEF Init, NetRight, NetTyped, StoreRight, NothingLost
  <1>7. LedgerRight
    BY <1>1, <1>2, <1>3, <1>4 DEF Init, LedgerRight, Agrees, Recorded
  <1> QED
    BY <1>3, <1>4, <1>5, <1>6, <1>7 DEF Inv, ClientRight

LEMMA StepInv ==
    ASSUME Inv, [Next]_vars
    PROVE  Preserves
  <1>1. CASE UNCHANGED vars
    <2>1. UNCHANGED <<client, results, requests, reply, expired, queue, workers, reserved, save,
                      node, deposited, receipt, settled, disk>>
      BY <1>1 DEF vars, clientVars, net, pipeline, durable
    <2> QED
      BY <2>1 DEF Inv, Preserves, ClientRight, Right, Known, Aligned, NetRight, NetTyped, StoreRight, NothingLost,
                  PipelineRight, Pipe, AcceptedSettled, LedgerRight, Asks, AskedPersisted
  <1>2. CASE ClientAlone
    BY <1>2, StartDownloadKeeps, LinkKeeps, ListReplyKeeps, GetReplyKeeps, PurgeReplyKeeps,
       PollAdmissionKeeps, TickKeeps, IdleKeeps, ReplaceKeeps DEF ClientAlone
  <1>3. CASE ClientUpset
    BY <1>3, LinkKeeps, IdleKeeps, TickKeeps DEF ClientUpset
  <1>4. CASE Runner
    BY <1>4, TakeDownloadKeeps, DecodeKeeps, PollDecodeKeeps, PollCommitKeeps, DriveSuppressionKeeps DEF Runner
  <1>5. CASE Store
    BY <1>5, CommitWriteKeeps DEF Store
  <1>6. CASE Serve \/ NodeUpset
    BY <1>6, NetKeeps
  <1>7. ASSUME NEW good \in BOOLEAN, SaveSuppression(good) PROVE Preserves
    BY <1>7, SaveSuppressionKeeps
  <1>8. ASSUME NEW t \in Tid, Deposit(t) \/ ReceiptPruned(t) \/ ReceiptExpires(t) \/ UserDeletes(t) PROVE Preserves
    BY <1>8, StoreKeeps
  <1>9. ASSUME NEW t \in Tid, NEW age \in {"due", "stale"}, RecordAges(t, age) PROVE Preserves
    BY <1>9, RecordAgesKeeps
  <1>10. CASE Crash
    BY <1>10, CrashKeeps
  <1> QED
    BY <1>1, <1>2, <1>3, <1>4, <1>5, <1>6, <1>7, <1>8, <1>9, <1>10 DEF Next, Upset
-----------------------------------------------------------------------------
LEMMA InvAlways == Spec => []Inv
  <1>1. Inv /\ [Next]_vars => Inv'
    BY StepInv DEF Preserves
  <1> QED
    BY InitInv, <1>1, PTL DEF Spec

UpsetsRight == upsets \in 0 .. MaxUpsets

(* The type invariant of the download system.                                *)
THEOREM DownloadTypes == Spec => []TypeOK
  <1>1. Init => UpsetsRight
    BY UpsetAssumption DEF Init, UpsetsRight
  <1>2. UpsetsRight /\ [Next]_vars => UpsetsRight'
    <2>1. ASSUME UpsetsRight, [Next]_vars PROVE UpsetsRight'
      <3>1. upsets' = upsets \/ (upsets < MaxUpsets /\ upsets' = upsets + 1)
        BY <2>1 DEF Next, Upset, vars
      <3> QED
        BY <2>1, <3>1, UpsetAssumption DEF UpsetsRight
    <2> QED
      BY <2>1
  <1>3. Inv /\ UpsetsRight => TypeOK
    BY DEF Inv, UpsetsRight, TypeOK, ClientRight, Right, NetRight, NetTyped, StoreRight, PipelineRight, Pipe, LedgerRight
  <1> QED
    BY <1>1, <1>2, <1>3, InvAlways, PTL DEF Spec

(* No message is lost between the node and this client: what a node no       *)
(* longer holds has been durably decided here before the client had it       *)
(* purged, however requests, commits, checkpoints and crashes interleave     *)
(* (propagation_client.rs, purge authority; CHANGELOG.md:19).                *)
THEOREM MailIsKept == Spec => []NothingLost
  <1>1. Inv => NothingLost
    BY DEF Inv, StoreRight
  <1> QED
    BY <1>1, InvAlways, PTL

(* A set of which any two members are equal has at most one.                 *)
LEMMA AtMostOne ==
    ASSUME NEW S, \A x, y \in S : x = y
    PROVE  Cardinality(S) = IF S = {} THEN 0 ELSE 1
  <1>1. CASE S = {}
    BY <1>1, FS_EmptySet
  <1>2. CASE S # {}
    <2>1. PICK x : x \in S
      BY <1>2
    <2>2. S = {x}
      BY <2>1
    <2> QED
      BY <1>2, <2>2, FS_Singleton
  <1> QED
    BY <1>1, <1>2

(* An item the client waits for has exactly one holder of its authority, and *)
(* a message is reserved while exactly one commit worker has it              *)
(* (take_downloaded_messages(), poll_download_decodes(),                     *)
(* poll_download_commits() of lxmd and the client's admission tokens).       *)
THEOREM ItemsHaveOneHolder == Spec => []OneHolder
  <1>1. ASSUME Inv, NEW t \in Tid PROVE Holders(t) = IF t \in client.pending THEN 1 ELSE 0
    <2> DEFINE Q == {i \in DOMAIN queue : queue[i].tid = t /\ queue[i].live}
               W == {w \in DOMAIN workers : workers[w] # None /\ workers[w].tid = t /\ workers[w].live}
               R == {i \in DOMAIN results : results[i].tid = t /\ results[i].live}
               U == IF t \in client.unread THEN 1 ELSE 0
    <2>1. /\ Exclusive(client.pending, client.unread, results, queue, workers)
          /\ DOMAIN workers = 1 .. MaxWorkers
      BY <1>1 DEF Inv, PipelineRight, Pipe
    <2>2. /\ (Q # {}) <=> InQueue(queue, t)
          /\ (W # {}) <=> InWorkers(workers, t)
          /\ (R # {}) <=> InQueue(results, t)
      BY <2>1 DEF InQueue, InWorkers
    <2>3. \A i, j \in Q : i = j
      BY <2>1 DEF Exclusive, Once
    <2>4. \A i, j \in R : i = j
      BY <2>1 DEF Exclusive, Once
    <2>5. \A v, w \in W : v = w
      BY <2>1 DEF Exclusive, OnceIn
    <2>6. Holders(t) = Cardinality(Q) + Cardinality(W) + Cardinality(R) + U
      BY DEF Holders
    <2> HIDE DEF Q, W, R
    <2>7. /\ Cardinality(Q) = IF InQueue(queue, t) THEN 1 ELSE 0
          /\ Cardinality(W) = IF InWorkers(workers, t) THEN 1 ELSE 0
          /\ Cardinality(R) = IF InQueue(results, t) THEN 1 ELSE 0
      BY <2>2, <2>3, <2>4, <2>5, AtMostOne
    <2>8. /\ (t \in client.pending) <=> (t \in client.unread \/ InQueue(results, t) \/ InQueue(queue, t) \/ InWorkers(workers, t))
          /\ Apart(client.unread, results, queue, workers, t)
      BY <2>1 DEF Exclusive
    <2> QED
      BY <2>6, <2>7, <2>8 DEF Apart
  <1>2. ASSUME Inv, NEW m \in {MessageOf[t] : t \in Tid}
        PROVE  Cardinality(Committing(m)) = IF m \in reserved THEN 1 ELSE 0
    <2>1. ReservedBy(workers, reserved) /\ DOMAIN workers = 1 .. MaxWorkers
      BY <1>2 DEF Inv, PipelineRight, Pipe
    <2>2. \A w : w \in Committing(m) <=> w \in 1 .. MaxWorkers /\ Commits(workers, w, m)
      BY <2>1 DEF Committing, Commits
    <2>3. /\ \A v, w \in Committing(m) : v = w
          /\ (m \in reserved) <=> (Committing(m) # {})
      BY <2>1, <2>2 DEF ReservedBy
    <2> QED
      BY <2>3, AtMostOne
  <1>3. Inv => OneHolder
    BY <1>1, <1>2 DEF OneHolder
  <1> QED
    BY <1>3, InvAlways, PTL

(* The answer to a request always advances the cursor by the IDs it was sent *)
(* for (handle_response_owned() and prune_durable_haves()).                  *)
THEOREM CursorsStayAligned == Spec => []CursorAligned
  <1>1. Inv => CursorAligned
    BY DEF Inv, ClientRight, Right, Aligned, Front, CursorAligned
  <1> QED
    BY <1>1, InvAlways, PTL

(* Wants are requested only when every rejection so far is on disk           *)
(* (send_next_chunk() and acknowledge_suppression_persistence()).            *)
THEOREM RejectionsPersistFirst == Spec => WantsAfterPersistence
  <1>1. Inv /\ [Next]_vars => [Asks("Get") => \A t \in Recorded(client.ledger) : disk[t] = client.ledger[t]]_vars
    BY StepInv DEF Preserves, AskedPersisted, Agrees
  <1> QED
    BY <1>1, InvAlways, PTL DEF Spec, WantsAfterPersistence
=============================================================================
