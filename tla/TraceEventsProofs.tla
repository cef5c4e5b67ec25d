------------------------- MODULE TraceEventsProofs -------------------------
(***************************************************************************)
(* What a consumer of events holds stays usable and is released once, for  *)
(* any number of addresses and of events held, any lengths and capacities  *)
(* of buffers, and any trace.                                              *)
(*                                                                         *)
(* HeldIntact and OnlyMessagesLost are not inductive.  A release is right  *)
(* because the tag of an event tells which of its fields have allocations  *)
(* and what they were made for (Tagged); it spares the replayer because    *)
(* its two allocations are none of theirs (ReplayerLive).                  *)
(***************************************************************************)
EXTENDS TraceEvents, TLAPS

(* What an event's buffers were made for, and the fields that have any.    *)
UseOf(tag) == IF tag = "Error" THEN "message" ELSE "payload"
Filled(tag) == IF tag = "Error" THEN {"msg"} ELSE Freed(tag)

(* A buffer without an allocation is empty.                                *)
Tagged ==
  \A s \in Slots : held[s] # NoEvent =>
    \A f \in Field :
      /\ held[s].payload[f].ptr = Dangling => held[s].payload[f].len = 0
      /\ held[s].payload[f].ptr \in Addr =>
           /\ f \in Filled(held[s].tag)
           /\ heap[held[s].payload[f].ptr].use = UseOf(held[s].tag)

ReplayerLive ==
  IF replayer.state = "open"
  THEN \A a \in {replayer.box, replayer.scratch} :
         a \in Addr /\ heap[a].use = "replayer"
  ELSE replayer.box = Null /\ replayer.scratch = Null

TraceInv == TypeOK /\ Tagged /\ ReplayerLive /\ HeldIntact /\ OnlyMessagesLost
----------------------------------------------------------------------------
(* Memory.                                                                 *)

(* Lemma: the two pointers without an allocation are no addresses.         *)
LEMMA NoAddress == Null \notin Addr /\ Dangling \notin Addr /\ Null # Dangling
  BY BoundsAssumption DEF Null, Dangling, Addr

(* Lemma: a free block is marked as one.                                   *)
LEMMA FreeBlock == Free \in Blocks /\ Free.use = "free" /\ Free.len = 0
  BY DEF Free, Blocks

(* Lemma: what the release of one buffer does, if the buffer is live or    *)
(* has nothing to release: it frees at most the buffer's own block, frees  *)
(* it unless the buffer is empty, and is never at a wrong address.         *)
LEMMA FreeBufferFacts ==
  ASSUME NEW h \in [Addr -> Blocks], NEW w \in SUBSET {"address", "size"},
         NEW b \in [ptr : Ptr, len : Nat],
         b.ptr = Dangling => b.len = 0,
         (b.ptr \in Addr /\ b.len # 0) => h[b.ptr] # Free,
         NEW r, r = FreeBuffer([heap |-> h, wrong |-> w], b)
  PROVE  /\ r = [heap |-> r.heap, wrong |-> r.wrong]
         /\ r.heap \in [Addr -> Blocks]
         /\ r.wrong \in SUBSET {"address", "size"}
         /\ "address" \in r.wrong => "address" \in w
         /\ \A a \in Addr : r.heap[a] = IF a = b.ptr /\ b.len # 0 THEN Free ELSE h[a]
<1> DEFINE st == [heap |-> h, wrong |-> w]
<1>1. CASE b.ptr = Null \/ b.len = 0
  <2>1. r = st
    BY <1>1 DEF FreeBuffer
  <2>2. r.heap = h /\ r.wrong = w
    BY <2>1
  <2>3. \A a \in Addr : ~(a = b.ptr /\ b.len # 0)
    BY <1>1, NoAddress
  <2> QED BY <2>1, <2>2, <2>3
<1>2. CASE ~(b.ptr = Null \/ b.len = 0)
  <2>1. b.ptr \in Addr
    BY <1>2, BoundsAssumption DEF Ptr, Null, Addr, Dangling
  <2>2. b.ptr \in Live(h)
    BY <2>1, <1>2 DEF Live
  <2>3. /\ r.heap = [h EXCEPT ![b.ptr] = Free]
        /\ r = [heap |-> r.heap, wrong |-> r.wrong]
        /\ r.wrong = w \/ r.wrong = w \cup {"size"}
    BY <1>2, <2>2 DEF FreeBuffer
  <2>4. \A a \in Addr : r.heap[a] = IF a = b.ptr /\ b.len # 0 THEN Free ELSE h[a]
    BY <2>1, <2>3, <1>2
  <2>5. r.heap \in [Addr -> Blocks]
    BY <2>1, <2>3, FreeBlock
  <2>6. r.wrong \in SUBSET {"address", "size"} /\ ("address" \in r.wrong => "address" \in w)
    BY <2>3
  <2> QED BY <2>3, <2>4, <2>5, <2>6
<1> QED BY <1>1, <1>2

----------------------------------------------------------------------------
(* Giving an event.                                                        *)

Shapes == Decoded \cup {Failure, EofEvent}

(* Lemma: a shape fills only fields that its tag releases, an Error only   *)
(* its message.                                                            *)
LEMMA ShapeFills ==
  ASSUME NEW shape \in Shapes
  PROVE  /\ shape.tag \in Tags
         /\ shape.fills \in SUBSET Field
         /\ shape.fills \subseteq Filled(shape.tag)
  BY DEF Shapes, Decoded, Converted, Failure, EofEvent, Shape, Tags, Field,
         Filled, Freed

(* What an event is that was given: its buffers are in blocks of their     *)
(* own, free before and allocated for it now, and no other block changed.  *)
Fresh(e, fills, use) ==
  /\ \A a \in Live(heap) : heap'[a] = heap[a]
  /\ \A a \in Live(heap') : a \in Live(heap) \/ \E f \in Field : e.payload[f].ptr = a
  /\ \A f \in Field :
       /\ e.payload[f].ptr = Dangling => e.payload[f].len = 0
       /\ e.payload[f].ptr \in Addr =>
            /\ f \in fills
            /\ e.payload[f].ptr \notin Live(heap)
            /\ heap'[e.payload[f].ptr].use = use
            /\ heap'[e.payload[f].ptr].len = e.payload[f].len
            /\ \A g \in Field : e.payload[g].ptr = e.payload[f].ptr => g = f

(* Lemma: the event given is like that.                                    *)
LEMMA GiveFacts ==
  ASSUME TypeOK, NEW s \in Slots, NEW shape \in Shapes,
         NEW use \in {"payload", "message"}, Give(s, shape, use)
  PROVE  /\ heap' \in [Addr -> Blocks]
         /\ \E e \in Events :
              /\ e.tag = shape.tag
              /\ held' = [held EXCEPT ![s] = e]
              /\ Fresh(e, shape.fills, use)
<1>1. PICK p \in Places(shape.fills), v \in [shape.fills -> Vecs] :
        LET Cap(f) == v[f].len + v[f].spare
            At(a) == CHOOSE f \in shape.fills : p[f] = a
            Used == {p[f] : f \in {g \in shape.fills : Cap(g) > 0}}
        IN /\ heap' = [a \in Addr |-> IF a \in Used
                         THEN Block(use, v[At(a)].len, Cap(At(a))) ELSE heap[a]]
           /\ held' = [held EXCEPT ![s] = Event(shape.tag,
                [f \in Field |-> IF f \in shape.fills
                                 THEN FromVec(p[f], v[f].len, Cap(f)) ELSE EMPTY])]
  BY DEF Give
<1> DEFINE Cap(f) == v[f].len + v[f].spare
           At(a) == CHOOSE f \in shape.fills : p[f] = a
           Used == {p[f] : f \in {g \in shape.fills : Cap(g) > 0}}
           pay == [f \in Field |-> IF f \in shape.fills
                    THEN FromVec(p[f], v[f].len, Cap(f)) ELSE EMPTY]
           e == Event(shape.tag, pay)
<1>2. /\ heap' = [a \in Addr |-> IF a \in Used
                     THEN Block(use, v[At(a)].len, Cap(At(a))) ELSE heap[a]]
      /\ held' = [held EXCEPT ![s] = e]
  BY <1>1
<1>3. /\ p \in [shape.fills -> Addr \ Live(heap)]
      /\ \A f, g \in shape.fills : f # g => p[f] # p[g]
  BY DEF Places
<1>4. \A f \in shape.fills :
        /\ v[f].len \in Nat /\ v[f].spare \in Nat /\ Cap(f) \in Nat
        /\ Cap(f) = 0 => v[f].len = 0
  <2> TAKE f \in shape.fills
  <2>1. v[f] \in [len : Lens, spare : Slack]
    BY DEF Vecs
  <2>2. v[f].len \in Nat /\ v[f].spare \in Nat
    BY <2>1, LensAssumption
  <2> QED BY <2>2
<1>5. shape.fills \in SUBSET Field /\ shape.tag \in Tags
  BY ShapeFills
<1>6. \A f \in shape.fills :
        /\ p[f] \in Used <=> Cap(f) # 0
        /\ At(p[f]) = f
  <2> TAKE f \in shape.fills
  <2>1. At(p[f]) = f
    BY <1>3
  <2>2. p[f] \in Used <=> Cap(f) > 0
    BY <1>3
  <2> QED BY <2>1, <2>2, <1>4
<1>7. \A f \in shape.fills :
        /\ p[f] \in Addr \ Live(heap)
        /\ Cap(f) # 0 => /\ pay[f] = Buffer(p[f], v[f].len)
                         /\ heap'[p[f]] = Block(use, v[f].len, Cap(f))
        /\ Cap(f) = 0 => pay[f] = Buffer(Dangling, 0)
  <2> TAKE f \in shape.fills
  <2>1. p[f] \in Addr \ Live(heap)
    BY <1>3
  <2>2. pay[f] = FromVec(p[f], v[f].len, Cap(f))
    BY <1>5
  <2> HIDE DEF Cap, Used, At, pay
  <2>3. heap'[p[f]] = IF p[f] \in Used THEN Block(use, v[At(p[f])].len, Cap(At(p[f])))
                     ELSE heap[p[f]]
    BY <1>2, <2>1
  <2> QED BY <2>1, <2>2, <2>3, <1>4, <1>6 DEF FromVec
<1>8. \A f \in Field \ shape.fills : pay[f] = Buffer(Null, 0)
  BY DEF EMPTY
<1>9. \A a \in Used : \E f \in shape.fills : a = p[f] /\ Cap(f) # 0
  BY <1>4
<1> HIDE DEF Used, At
<1>10. \A a \in Addr \ Used : heap'[a] = heap[a]
  BY <1>2
<1>11. heap' \in [Addr -> Blocks]
  <2> SUFFICES ASSUME NEW a \in Addr PROVE heap'[a] \in Blocks
    BY <1>2
  <2>1. CASE a \in Used
    <3>1. PICK f \in shape.fills : a = p[f] /\ Cap(f) # 0
      BY <1>9, <2>1
    <3>2. heap'[a] = Block(use, v[f].len, Cap(f))
      BY <1>7, <3>1
    <3> HIDE DEF Cap
    <3> QED BY <3>2, <1>4 DEF Block, Blocks
  <2>2. CASE a \notin Used
    BY <1>10, <2>2 DEF TypeOK
  <2> QED BY <2>1, <2>2
<1> HIDE DEF Cap, pay
<1>12. ASSUME NEW f \in Field
      PROVE  \/ f \in shape.fills /\ Cap(f) = 0 /\ pay[f] = Buffer(Dangling, 0)
             \/ f \in shape.fills /\ Cap(f) # 0 /\ pay[f] = Buffer(p[f], v[f].len)
             \/ f \notin shape.fills /\ pay[f] = Buffer(Null, 0)
  BY <1>7, <1>8
<1>13. \A q, n : Buffer(q, n).ptr = q /\ Buffer(q, n).len = n
  BY DEF Buffer
<1>14. \A f \in shape.fills : f \in Field /\ p[f] \in Addr /\ v[f].len \in Nat
  BY <1>3, <1>4, <1>5
<1>15. pay \in Payloads
  <2>1. pay = [f \in Field |-> pay[f]]
    BY DEF pay
  <2>2. \A f \in Field : pay[f] \in [ptr : Ptr, len : Nat]
    <3> TAKE f \in Field
    <3>1. Null \in Ptr /\ Dangling \in Ptr /\ Addr \subseteq Ptr
      BY BoundsAssumption DEF Ptr, Null, Dangling, Addr
    <3>2. ASSUME NEW q \in Ptr, NEW n \in Nat PROVE Buffer(q, n) \in [ptr : Ptr, len : Nat]
      BY DEF Buffer
    <3>3. CASE f \in shape.fills /\ pay[f] = Buffer(Dangling, 0)
      BY <3>1, <3>2, <3>3
    <3>4. CASE f \in shape.fills /\ pay[f] = Buffer(p[f], v[f].len)
      <4>1. p[f] \in Ptr /\ v[f].len \in Nat
        BY <3>1, <3>4, <1>14
      <4> QED BY <3>2, <3>4, <4>1
    <3>5. CASE pay[f] = Buffer(Null, 0)
      BY <3>1, <3>2, <3>5
    <3> QED BY <1>12, <3>3, <3>4, <3>5
  <2> QED BY <2>1, <2>2 DEF Payloads
<1>16. e \in Events /\ e.tag = shape.tag /\ e.payload = pay
  BY <1>5, <1>15 DEF Event, Events
<1>17. \A f \in Field : pay[f].ptr \in Addr =>
         f \in shape.fills /\ Cap(f) # 0 /\ pay[f] = Buffer(p[f], v[f].len)
  BY <1>12, <1>13, NoAddress
<1> HIDE DEF e
<1>18. Fresh(e, shape.fills, use)
  <2>1. \A a \in Live(heap) : heap'[a] = heap[a]
    BY <1>7, <1>9, <1>10 DEF Live
  <2>2. ASSUME NEW a \in Live(heap')
        PROVE  a \in Live(heap) \/ \E f \in Field : pay[f].ptr = a
    <3>0. a \in Addr /\ heap'[a] # Free
      BY <2>2 DEF Live
    <3>1. CASE a \in Used
      <4>1. PICK f \in shape.fills : a = p[f] /\ Cap(f) # 0
        BY <3>1, <1>9
      <4>2. f \in Field /\ pay[f].ptr = a
        BY <4>1, <1>12, <1>13, <1>14
      <4> QED BY <4>2
    <3>2. CASE a \notin Used
      BY <3>0, <3>2, <1>10 DEF Live
    <3> QED BY <3>1, <3>2
  <2>3. ASSUME NEW f \in Field
        PROVE  pay[f].ptr = Dangling => pay[f].len = 0
    BY <1>12, <1>13, <1>14, NoAddress
  <2>4. ASSUME NEW f \in Field, pay[f].ptr \in Addr
        PROVE  /\ f \in shape.fills
               /\ pay[f].ptr \notin Live(heap)
               /\ heap'[pay[f].ptr].use = use
               /\ heap'[pay[f].ptr].len = pay[f].len
               /\ \A g \in Field : pay[g].ptr = pay[f].ptr => g = f
    <3>1. f \in shape.fills /\ Cap(f) # 0 /\ pay[f] = Buffer(p[f], v[f].len)
      BY <2>4, <1>17
    <3>2. pay[f].ptr = p[f] /\ pay[f].len = v[f].len
      BY <3>1, <1>13
    <3>3. heap'[p[f]] = Block(use, v[f].len, Cap(f)) /\ p[f] \notin Live(heap)
      BY <3>1, <1>7
    <3>4. ASSUME NEW g \in Field, pay[g].ptr = pay[f].ptr
          PROVE  g = f
      <4>1. g \in shape.fills /\ pay[g] = Buffer(p[g], v[g].len)
        BY <3>4, <2>4, <1>17
      <4>2. p[g] = p[f]
        BY <4>1, <3>2, <3>4, <1>13
      <4> QED BY <4>1, <4>2, <3>1, <1>3
    <3> QED BY <3>1, <3>2, <3>3, <3>4 DEF Block
  <2> QED BY <2>1, <2>2, <2>3, <2>4, <1>16 DEF Fresh
<1> QED BY <1>2, <1>11, <1>16, <1>18
(* Lemma: what is held is live and is not the replayer's.                  *)
LEMMA OwnedFacts ==
  ASSUME TraceInv, NEW s \in Slots, NEW f \in Owned(s)
  PROVE  LET b == held[s].payload[f]
         IN  /\ held[s] \in Events /\ held[s] # NoEvent /\ f \in Field
             /\ b.ptr \in Addr /\ b.len \in Nat
             /\ b.ptr \in Live(heap)
             /\ b.ptr # replayer.box /\ b.ptr # replayer.scratch
             /\ b.ptr \in Referenced
<1> DEFINE b == held[s].payload[f]
<1>1. held[s] # NoEvent /\ f \in Field /\ b.ptr \in Addr
  BY DEF Owned
<1>2. held[s] \in Events
  BY <1>1 DEF TraceInv, TypeOK
<1>3. b.len \in Nat
  BY <1>1, <1>2 DEF Events, Payloads
<1>4. heap[b.ptr].use \in {"payload", "message"}
  BY DEF TraceInv, HeldIntact
<1>5. b.ptr \in Live(heap)
  BY <1>1, <1>4, FreeBlock DEF Live
<1>6. b.ptr # replayer.box /\ b.ptr # replayer.scratch
  <2>1. CASE replayer.state = "open"
    BY <2>1, <1>4 DEF TraceInv, ReplayerLive
  <2>2. CASE replayer.state # "open"
    BY <2>2, <1>1, NoAddress DEF TraceInv, ReplayerLive
  <2> QED BY <2>1, <2>2
<1>7. b.ptr \in Referenced
  BY DEF Referenced
<1> QED BY <1>1, <1>2, <1>3, <1>5, <1>6, <1>7

(* Lemma: giving an event keeps the invariant.                             *)
LEMMA GiveStep ==
  ASSUME TraceInv, NEW s \in Slots, held[s] = NoEvent, NEW shape \in Shapes,
         Give(s, shape, UseOf(shape.tag)), wrong' = wrong, left' \in 0..MaxTrace,
         \/ replayer' = replayer
         \/ \E b \in BOOLEAN : replayer' = [replayer EXCEPT !.eof = b]
  PROVE  TraceInv'
<1> DEFINE use == UseOf(shape.tag)
<1>1. use \in {"payload", "message"}
  BY DEF UseOf
<1>2. TypeOK
  BY DEF TraceInv
<1>3. PICK e \in Events :
        e.tag = shape.tag /\ held' = [held EXCEPT ![s] = e] /\ Fresh(e, shape.fills, use)
  BY <1>1, <1>2, GiveFacts
<1>4. heap' \in [Addr -> Blocks]
  BY <1>1, <1>2, GiveFacts
<1>5. /\ replayer'.state = replayer.state /\ replayer'.box = replayer.box
      /\ replayer'.scratch = replayer.scratch
      /\ replayer' \in [state : {"unopened", "open", "null", "closed"}, eof : BOOLEAN,
                        box : Addr \cup {Null}, scratch : Addr \cup {Null}]
  BY <1>2 DEF TypeOK
<1>6. TypeOK'
  BY <1>2, <1>3, <1>4, <1>5 DEF TypeOK
<1>7. /\ held'[s] = e
      /\ \A u \in Slots \ {s} : held'[u] = held[u]
  BY <1>2, <1>3 DEF TypeOK
<1>8. e # NoEvent
  BY DEF Events, NoEvent, Tags
<1>9. \A a \in Live(heap) : heap'[a] = heap[a]
  BY <1>3 DEF Fresh
<1>10. \A f \in Field :
         /\ e.payload[f].ptr = Dangling => e.payload[f].len = 0
         /\ e.payload[f].ptr \in Addr =>
              /\ f \in shape.fills
              /\ e.payload[f].ptr \notin Live(heap)
              /\ heap'[e.payload[f].ptr].use = use
              /\ heap'[e.payload[f].ptr].len = e.payload[f].len
              /\ \A g \in Field : e.payload[g].ptr = e.payload[f].ptr => g = f
  BY <1>3 DEF Fresh
<1>11. \A u \in Slots \ {s} : Owned(u)' = Owned(u)
  BY <1>7 DEF Owned
<1>12. \A f \in Owned(s)' : f \in Field /\ e.payload[f].ptr \in Addr
  BY <1>7, <1>8 DEF Owned
<1>13. Tagged'
  <2> SUFFICES ASSUME NEW u \in Slots, held'[u] # NoEvent, NEW f \in Field
               PROVE  LET b == held'[u].payload[f]
                      IN  /\ b.ptr = Dangling => b.len = 0
                          /\ b.ptr \in Addr => /\ f \in Filled(held'[u].tag)
                                               /\ heap'[b.ptr].use = UseOf(held'[u].tag)
    BY DEF Tagged
  <2>1. CASE u = s
    BY <2>1, <1>3, <1>7, <1>10, ShapeFills
  <2>2. CASE u # s
    <3>1. held'[u] = held[u]
      BY <2>2, <1>7
    <3>2. held[u].payload[f].ptr \in Addr => heap'[held[u].payload[f].ptr] = heap[held[u].payload[f].ptr]
      <4> HAVE held[u].payload[f].ptr \in Addr
      <4>1. f \in Owned(u)
        BY <3>1 DEF Owned
      <4> QED BY <4>1, <1>9, OwnedFacts
    <3> QED BY <3>1, <3>2 DEF TraceInv, Tagged
  <2> QED BY <2>1, <2>2
<1>14. ReplayerLive'
  <2>1. \A a \in {replayer.box, replayer.scratch} :
          replayer.state = "open" => a \in Live(heap)
    BY FreeBlock DEF TraceInv, ReplayerLive, Live
  <2> QED BY <1>5, <1>9, <2>1 DEF TraceInv, ReplayerLive
<1>15. HeldIntact'
  <2>1. "address" \notin wrong'
    BY DEF TraceInv, HeldIntact
  <2>2. ASSUME NEW u \in Slots, NEW f \in Owned(u)'
        PROVE  /\ heap'[held'[u].payload[f].ptr].use \in {"payload", "message"}
               /\ heap'[held'[u].payload[f].ptr].len = held'[u].payload[f].len
    <3>1. CASE u = s
      BY <3>1, <1>1, <1>7, <1>10, <1>12
    <3>2. CASE u # s
      <4>1. held'[u] = held[u] /\ f \in Owned(u)
        BY <3>2, <1>7, <1>11
      <4>2. heap'[held[u].payload[f].ptr] = heap[held[u].payload[f].ptr]
        BY <4>1, <1>9, OwnedFacts
      <4> QED BY <4>1, <4>2 DEF TraceInv, HeldIntact
    <3> QED BY <3>1, <3>2
  <2>3. ASSUME NEW u \in Slots, NEW f \in Owned(u)', NEW w \in Slots, NEW g \in Owned(w)',
               held'[w].payload[g].ptr = held'[u].payload[f].ptr
        PROVE  w = u /\ g = f
    <3>1. \A z \in Slots \ {s} : \A h \in Owned(z)' :
            held'[z].payload[h].ptr \in Live(heap) /\ h \in Owned(z)
      BY <1>7, <1>11, OwnedFacts
    <3>2. \A h \in Owned(s)' : held'[s].payload[h].ptr \notin Live(heap)
      BY <1>7, <1>10, <1>12
    <3>3. CASE u = s /\ w = s
      BY <2>3, <3>3, <1>7, <1>10, <1>12
    <3>4. CASE u # s /\ w # s
      <4>1. held'[u] = held[u] /\ held'[w] = held[w] /\ f \in Owned(u) /\ g \in Owned(w)
        BY <3>1, <3>4, <1>7
      <4> QED BY <2>3, <4>1 DEF TraceInv, HeldIntact
    <3> QED BY <2>3, <3>1, <3>2, <3>3, <3>4
  <2> QED BY <2>1, <2>2, <2>3 DEF HeldIntact
<1>16. OnlyMessagesLost'
  <2> SUFFICES ASSUME NEW a \in Live(heap'), a \notin Referenced'
               PROVE  heap'[a].use = "message" \/ heap'[a].len = 0
    BY DEF OnlyMessagesLost, Live
  <2>1. a \in Addr
    BY DEF Live
  <2>2. ~ \E f \in Field : e.payload[f].ptr = a
    BY <2>1, <1>7, <1>8 DEF Referenced, Owned
  <2>3. a \in Live(heap)
    BY <2>2, <1>3 DEF Fresh
  <2>4. Referenced \subseteq Referenced'
    <3>1. Owned(s) = {}
      BY DEF Owned
    <3> QED BY <3>1, <1>5, <1>7, <1>11 DEF Referenced
  <2> QED BY <2>3, <2>4, <1>9 DEF TraceInv, OnlyMessagesLost
<1> QED BY <1>6, <1>13, <1>14, <1>15, <1>16 DEF TraceInv

(* Lemma: so does reading an event, in each of its five cases.             *)
LEMMA NextEventStep ==
  ASSUME TraceInv, NEW s \in Slots, NextEvent(s)
  PROVE  TraceInv'
<1>1. /\ Failure \in Shapes /\ UseOf(Failure.tag) = "message"
      /\ EofEvent \in Shapes /\ UseOf(EofEvent.tag) = "payload"
      /\ \A shape \in Decoded : shape \in Shapes /\ UseOf(shape.tag) = "payload"
  BY DEF Shapes, Failure, EofEvent, Shape, UseOf, Decoded, Converted
<1>2. left \in 0..MaxTrace /\ \A rest \in 0..left : rest \in 0..MaxTrace
  BY BoundsAssumption DEF TraceInv, TypeOK
<1>3. \A rest \in 0..left - 1 : rest \in 0..MaxTrace
  BY <1>2
<1>4. held[s] = NoEvent /\ wrong' = wrong
  BY DEF NextEvent
<1>5. CASE /\ Give(s, Failure, "message")
           /\ UNCHANGED <<replayer, left>>
  BY <1>1, <1>2, <1>4, <1>5, GiveStep
<1>6. CASE /\ Give(s, EofEvent, "payload")
           /\ UNCHANGED <<replayer, left>>
  BY <1>1, <1>2, <1>4, <1>6, GiveStep
<1>7. CASE /\ \E rest \in 0..left : left' = rest /\ Give(s, EofEvent, "payload")
           /\ replayer' = [replayer EXCEPT !.eof = TRUE]
  BY <1>1, <1>2, <1>4, <1>7, GiveStep
<1>8. CASE /\ \E rest \in 0..left : left' = rest
           /\ Give(s, Failure, "message")
           /\ replayer' = [replayer EXCEPT !.eof = AtEnd]
  BY <1>1, <1>2, <1>4, <1>8, GiveStep DEF AtEnd
<1>9. CASE /\ \E rest \in 0..left - 1 : left' = rest
           /\ \E shape \in Decoded : Give(s, shape, "payload")
           /\ UNCHANGED replayer
  BY <1>1, <1>3, <1>4, <1>9, GiveStep
<1> QED BY <1>5, <1>6, <1>7, <1>8, <1>9 DEF NextEvent
----------------------------------------------------------------------------
(* Releasing.                                                              *)

(* The buffers that giving back the event of a slot releases.              *)
Releasing(s) == {f \in Owned(s) \cap Freed(held[s].tag) : held[s].payload[f].len # 0}

(* Lemma: an event's release frees the blocks of these buffers, and those  *)
(* only: the three releases do not disturb each other.                     *)
LEMMA FreeEventFacts ==
  ASSUME TraceInv, NEW s \in Slots, FreeEvent(s)
  PROVE  /\ heap' \in [Addr -> Blocks]
         /\ wrong' \subseteq {"address", "size"} /\ "address" \notin wrong'
         /\ \A a \in Addr : heap'[a] =
              IF \E f \in Releasing(s) : held[s].payload[f].ptr = a THEN Free ELSE heap[a]
<1> DEFINE Part(f) == IF f \in Freed(held[s].tag) THEN held[s].payload[f] ELSE EMPTY
           s0 == [heap |-> heap, wrong |-> wrong]
           s1 == FreeBuffer(s0, Part("bytes"))
           s2 == FreeBuffer(s1, Part("sizes"))
           s3 == FreeBuffer(s2, Part("msg"))
           Gone(f, a) == a = Part(f).ptr /\ Part(f).len # 0
<1>1. heap' = s3.heap /\ wrong' = s3.wrong
  BY DEF FreeEvent
<1>2. held[s] \in Events /\ held[s] # NoEvent
  BY DEF FreeEvent, TraceInv, TypeOK
<1>3. /\ heap \in [Addr -> Blocks]
      /\ wrong \in SUBSET {"address", "size"} /\ "address" \notin wrong
  BY DEF TraceInv, TypeOK, HeldIntact
<1>4. ASSUME NEW f \in Field
      PROVE  /\ Part(f) \in [ptr : Ptr, len : Nat]
             /\ Part(f).ptr = Dangling => Part(f).len = 0
             /\ Part(f).ptr \in Addr => /\ f \in Owned(s) /\ f \in Freed(held[s].tag)
                                        /\ Part(f) = held[s].payload[f]
                                        /\ heap[Part(f).ptr] # Free
  <2>1. CASE f \in Freed(held[s].tag)
    <3>1. Part(f) = held[s].payload[f] /\ Part(f) \in [ptr : Ptr, len : Nat]
      BY <1>2, <2>1 DEF Events, Payloads
    <3>2. Part(f).ptr = Dangling => Part(f).len = 0
      BY <1>2, <3>1 DEF TraceInv, Tagged
    <3>3. Part(f).ptr \in Addr => f \in Owned(s)
      BY <1>2, <3>1 DEF Owned
    <3>4. Part(f).ptr \in Addr => heap[Part(f).ptr] # Free
      BY <3>1, <3>3, OwnedFacts DEF Live
    <3> QED BY <2>1, <3>1, <3>2, <3>3, <3>4
  <2>2. CASE f \notin Freed(held[s].tag)
    <3>1. Part(f) = [ptr |-> Null, len |-> 0] /\ Null \in Ptr
      BY <2>2, BoundsAssumption DEF EMPTY, Buffer, Null, Ptr
    <3> QED BY <3>1, NoAddress
  <2> QED BY <2>1, <2>2
<1>5. ASSUME NEW f \in Field, NEW g \in Field, f # g, Part(f).ptr \in Addr
      PROVE  Part(g).ptr # Part(f).ptr
  BY <1>4, <1>5 DEF TraceInv, HeldIntact
<1>6. "bytes" \in Field /\ "sizes" \in Field /\ "msg" \in Field
  BY DEF Field
<1> HIDE DEF Part
<1>7. /\ s1 = [heap |-> s1.heap, wrong |-> s1.wrong]
      /\ s1.heap \in [Addr -> Blocks]
      /\ s1.wrong \in SUBSET {"address", "size"} /\ "address" \notin s1.wrong
      /\ \A a \in Addr : s1.heap[a] = IF Gone("bytes", a) THEN Free ELSE heap[a]
  <2> HIDE DEF s1
  <2>1. s1 = FreeBuffer([heap |-> heap, wrong |-> wrong], Part("bytes"))
    BY DEF s1
  <2> QED BY <1>3, <1>4, <1>6, <2>1, FreeBufferFacts
<1> HIDE DEF s1
<1>8. /\ s2 = [heap |-> s2.heap, wrong |-> s2.wrong]
      /\ s2.heap \in [Addr -> Blocks]
      /\ s2.wrong \in SUBSET {"address", "size"} /\ "address" \notin s2.wrong
      /\ \A a \in Addr : s2.heap[a] = IF Gone("sizes", a) THEN Free ELSE s1.heap[a]
  <2> HIDE DEF s2
  <2>1. s2 = FreeBuffer([heap |-> s1.heap, wrong |-> s1.wrong], Part("sizes"))
    BY <1>7 DEF s2
  <2>2. Part("sizes").ptr \in Addr => s1.heap[Part("sizes").ptr] # Free
    BY <1>4, <1>5, <1>6, <1>7
  <2> QED BY <1>4, <1>6, <1>7, <2>1, <2>2, FreeBufferFacts
<1> HIDE DEF s2
<1>9. /\ s3.heap \in [Addr -> Blocks]
      /\ s3.wrong \in SUBSET {"address", "size"} /\ "address" \notin s3.wrong
      /\ \A a \in Addr : s3.heap[a] = IF Gone("msg", a) THEN Free ELSE s2.heap[a]
  <2> HIDE DEF s3
  <2>1. s3 = FreeBuffer([heap |-> s2.heap, wrong |-> s2.wrong], Part("msg"))
    BY <1>8 DEF s3
  <2>2. Part("msg").ptr \in Addr => s2.heap[Part("msg").ptr] # Free
    BY <1>4, <1>5, <1>6, <1>7, <1>8
  <2> QED BY <1>4, <1>6, <1>8, <2>1, <2>2, FreeBufferFacts
<1>10. ASSUME NEW a \in Addr
       PROVE  (\E f \in Field : Gone(f, a)) <=> \E f \in Releasing(s) : held[s].payload[f].ptr = a
  <2>1. ASSUME NEW f \in Field, Gone(f, a)
        PROVE  f \in Releasing(s) /\ held[s].payload[f].ptr = a
    BY <1>4, <2>1 DEF Releasing
  <2>2. ASSUME NEW f \in Releasing(s), held[s].payload[f].ptr = a
        PROVE  f \in Field /\ Gone(f, a)
    BY <2>2 DEF Releasing, Owned, Part
  <2> QED BY <2>1, <2>2
<1>11. \A f \in Field : f \in {"bytes", "sizes", "msg"}
  BY DEF Field
<1> HIDE DEF s3
<1> QED
  <2>1. ASSUME NEW a \in Addr
        PROVE  heap'[a] = IF \E f \in Field : Gone(f, a) THEN Free ELSE heap[a]
    BY <1>1, <1>6, <1>7, <1>8, <1>9, <1>11
  <2> QED BY <1>1, <1>9, <1>10, <2>1

(* Lemma: giving an event back keeps the invariant; what it does not       *)
(* release has been lost as OnlyMessagesLost allows.                       *)
LEMMA FreeEventStep ==
  ASSUME TraceInv, NEW s \in Slots, FreeEvent(s)
  PROVE  TraceInv'
<1>1. /\ heap' \in [Addr -> Blocks]
      /\ wrong' \subseteq {"address", "size"} /\ "address" \notin wrong'
      /\ \A a \in Addr : heap'[a] =
           IF \E f \in Releasing(s) : held[s].payload[f].ptr = a THEN Free ELSE heap[a]
  BY FreeEventFacts
<1>2. /\ held[s] # NoEvent /\ held' = [held EXCEPT ![s] = NoEvent]
      /\ replayer' = replayer /\ left' = left
  BY DEF FreeEvent
<1>3. TypeOK'
  BY <1>1, <1>2 DEF TraceInv, TypeOK
<1>4. held'[s] = NoEvent /\ \A u \in Slots \ {s} : held'[u] = held[u]
  BY <1>2 DEF TraceInv, TypeOK
<1>5. Owned(s)' = {} /\ \A u \in Slots \ {s} : Owned(u)' = Owned(u)
  BY <1>4 DEF Owned
<1>6. ASSUME NEW u \in Slots \ {s}, NEW f \in Owned(u)
      PROVE  heap'[held[u].payload[f].ptr] = heap[held[u].payload[f].ptr]
  <2>1. \A g \in Owned(s) : held[s].payload[g].ptr # held[u].payload[f].ptr
    BY DEF TraceInv, HeldIntact
  <2> QED BY <1>1, <2>1, OwnedFacts DEF Releasing
<1>7. Tagged'
  <2> SUFFICES ASSUME NEW u \in Slots, held'[u] # NoEvent, NEW f \in Field
               PROVE  LET b == held'[u].payload[f]
                      IN  /\ b.ptr = Dangling => b.len = 0
                          /\ b.ptr \in Addr => /\ f \in Filled(held'[u].tag)
                                               /\ heap'[b.ptr].use = UseOf(held'[u].tag)
    BY DEF Tagged
  <2>1. u # s /\ held'[u] = held[u]
    BY <1>4
  <2>2. held[u].payload[f].ptr \in Addr => f \in Owned(u)
    BY <2>1 DEF Owned
  <2> QED BY <1>6, <2>1, <2>2 DEF TraceInv, Tagged
<1>8. ReplayerLive'
  <2> SUFFICES ASSUME replayer.state = "open", NEW a \in {replayer.box, replayer.scratch}
               PROVE  heap'[a] = heap[a]
    BY <1>2 DEF TraceInv, ReplayerLive
  <2>1. a \in Addr
    BY DEF TraceInv, ReplayerLive
  <2> QED BY <1>1, <2>1, OwnedFacts DEF Releasing
<1>9. HeldIntact'
  <2>1. ASSUME NEW u \in Slots, NEW f \in Owned(u)'
        PROVE  u \in Slots \ {s} /\ f \in Owned(u) /\ held'[u] = held[u]
    BY <1>4, <1>5
  <2> QED BY <1>1, <1>6, <2>1 DEF TraceInv, HeldIntact
<1>10. OnlyMessagesLost'
  <2> SUFFICES ASSUME NEW a \in Live(heap'), a \notin Referenced'
               PROVE  heap'[a].use = "message" \/ heap'[a].len = 0
    BY DEF OnlyMessagesLost, Live
  <2>1. a \in Addr /\ heap'[a] = heap[a] /\ a \in Live(heap)
        /\ ~ \E f \in Releasing(s) : held[s].payload[f].ptr = a
    BY <1>1 DEF Live
  <2>2. CASE a \notin Referenced
    BY <2>1, <2>2 DEF TraceInv, OnlyMessagesLost
  <2>3. CASE a \in Referenced
    <3>1. PICK f \in Owned(s) : held[s].payload[f].ptr = a
      BY <2>3, <1>2, <1>4, <1>5 DEF Referenced
    <3>2. f \notin Releasing(s)
      BY <2>1, <3>1
    <3>3. /\ f \in Field /\ f \in Filled(held[s].tag)
          /\ heap[a].use = UseOf(held[s].tag) /\ heap[a].len = held[s].payload[f].len
      BY <1>2, <2>1, <3>1 DEF TraceInv, Tagged, HeldIntact, Owned
    <3>4. CASE held[s].tag = "Error"
      BY <2>1, <3>3, <3>4 DEF UseOf
    <3>5. CASE held[s].tag # "Error"
      BY <2>1, <3>1, <3>2, <3>3, <3>5 DEF Filled, Releasing
    <3> QED BY <3>4, <3>5
  <2> QED BY <2>2, <2>3
<1> QED BY <1>3, <1>7, <1>8, <1>9, <1>10 DEF TraceInv

----------------------------------------------------------------------------
(* The replayer.                                                           *)

(* Lemma: a step that changes no held event and no block of one, and       *)
(* leaves only the replayer's blocks, keeps what is said of events.        *)
LEMMA EventsUnchanged ==
  ASSUME TraceInv, held' = held, wrong' = wrong,
         \A s \in Slots : \A f \in Owned(s) :
           heap'[held[s].payload[f].ptr] = heap[held[s].payload[f].ptr]
  PROVE  Tagged' /\ HeldIntact' /\ \A s \in Slots : Owned(s)' = Owned(s)
<1>1. \A s \in Slots : Owned(s)' = Owned(s)
  BY DEF Owned
<1>2. Tagged'
  <2> SUFFICES ASSUME NEW u \in Slots, held[u] # NoEvent, NEW f \in Field
               PROVE  LET b == held[u].payload[f]
                      IN  /\ b.ptr = Dangling => b.len = 0
                          /\ b.ptr \in Addr => /\ f \in Filled(held[u].tag)
                                               /\ heap'[b.ptr].use = UseOf(held[u].tag)
    BY DEF Tagged
  <2>1. held[u].payload[f].ptr \in Addr => f \in Owned(u)
    BY DEF Owned
  <2> QED BY <2>1 DEF TraceInv, Tagged
<1>3. HeldIntact'
  BY <1>1 DEF TraceInv, HeldIntact
<1> QED BY <1>1, <1>2, <1>3

(* Lemma: opening keeps the invariant, with a replayer or without.         *)
LEMMA OpenStep ==
  ASSUME TraceInv, Open
  PROVE  TraceInv'
<1>1. replayer.state = "unopened" /\ held' = held /\ wrong' = wrong
  BY DEF Open
<1>2. CASE replayer' = [replayer EXCEPT !.state = "null"] /\ UNCHANGED <<left, heap>>
  <2>1. TypeOK'
    BY <1>1, <1>2 DEF TraceInv, TypeOK
  <2>2. Tagged' /\ HeldIntact' /\ \A s \in Slots : Owned(s)' = Owned(s)
    BY <1>1, <1>2, EventsUnchanged
  <2>3. /\ replayer'.state = "null"
        /\ replayer'.box = replayer.box /\ replayer'.scratch = replayer.scratch
    BY <1>2 DEF TraceInv, TypeOK
  <2>4. ReplayerLive'
    BY <1>1, <2>3 DEF TraceInv, ReplayerLive
  <2>5. OnlyMessagesLost'
    BY <1>1, <1>2, <2>2, <2>3 DEF TraceInv, OnlyMessagesLost, Referenced, Live
  <2> QED BY <2>1, <2>2, <2>4, <2>5 DEF TraceInv
<1>3. ASSUME left > 0, left' = left - 1,
             NEW p \in Places({"box", "scratch"}),
             replayer' = [state |-> "open", eof |-> FALSE,
                          box |-> p["box"], scratch |-> p["scratch"]],
             heap' = [a \in Addr |-> IF a \in {p["box"], p["scratch"]}
                                      THEN Block("replayer", 1, 1) ELSE heap[a]]
      PROVE  TraceInv'
  <2>1. p["box"] \in Addr \ Live(heap) /\ p["scratch"] \in Addr \ Live(heap)
    BY DEF Places
  <2>2. Block("replayer", 1, 1) \in Blocks /\ Block("replayer", 1, 1).use = "replayer"
    BY DEF Block, Blocks
  <2>3. TypeOK'
    <3>1. left' \in 0..MaxTrace
      BY <1>3, BoundsAssumption DEF TraceInv, TypeOK
    <3>2. heap' \in [Addr -> Blocks]
      BY <1>3, <2>2 DEF TraceInv, TypeOK
    <3> QED BY <1>1, <1>3, <2>1, <3>1, <3>2 DEF TraceInv, TypeOK
  <2>4. \A a \in Live(heap) : heap'[a] = heap[a]
    BY <1>3, <2>1 DEF Live
  <2>5. Tagged' /\ HeldIntact' /\ \A s \in Slots : Owned(s)' = Owned(s)
    BY <1>1, <2>4, OwnedFacts, EventsUnchanged
  <2>6. ReplayerLive'
    BY <1>3, <2>1, <2>2 DEF ReplayerLive
  <2>7. OnlyMessagesLost'
    <3> SUFFICES ASSUME NEW a \in Live(heap'), a \notin Referenced'
                 PROVE  heap'[a].use = "message" \/ heap'[a].len = 0
      BY DEF OnlyMessagesLost, Live
    <3>1. a \in Addr /\ a \notin {p["box"], p["scratch"]}
      BY <1>3 DEF Live, Referenced
    <3>2. heap'[a] = heap[a] /\ a \in Live(heap)
      BY <1>3, <3>1 DEF Live
    <3>3. replayer.box = Null /\ replayer.scratch = Null
      BY <1>1 DEF TraceInv, ReplayerLive
    <3>4. a \notin Referenced
      BY <1>1, <2>5, <3>1, <3>3, NoAddress DEF Referenced
    <3> QED BY <3>2, <3>4 DEF TraceInv, OnlyMessagesLost
  <2> QED BY <2>3, <2>5, <2>6, <2>7 DEF TraceInv
<1> QED BY <1>2, <1>3 DEF Open

(* Lemma: so does giving back the replayer, with events still held.        *)
LEMMA FreeReplayerStep ==
  ASSUME TraceInv, FreeReplayer
  PROVE  TraceInv'
<1>1. /\ held' = held /\ wrong' = wrong /\ left' = left
      /\ heap' = [a \in Addr |-> IF a \in {replayer.box, replayer.scratch}
                                THEN Free ELSE heap[a]]
      /\ replayer' = [replayer EXCEPT !.state = "closed", !.box = Null, !.scratch = Null]
  BY DEF FreeReplayer
<1>2. TypeOK'
  BY <1>1, FreeBlock DEF TraceInv, TypeOK
<1>3. Tagged' /\ HeldIntact' /\ \A s \in Slots : Owned(s)' = Owned(s)
  BY <1>1, OwnedFacts, EventsUnchanged
<1>4. replayer'.state = "closed" /\ replayer'.box = Null /\ replayer'.scratch = Null
  BY <1>1 DEF TraceInv, TypeOK
<1>5. OnlyMessagesLost'
  <2> SUFFICES ASSUME NEW a \in Live(heap'), a \notin Referenced'
               PROVE  heap'[a].use = "message" \/ heap'[a].len = 0
    BY DEF OnlyMessagesLost, Live
  <2>1. /\ a \in Live(heap) /\ heap'[a] = heap[a]
        /\ a \notin {replayer.box, replayer.scratch}
    BY <1>1 DEF Live
  <2>2. a \notin Referenced
    BY <1>1, <1>3, <2>1 DEF Referenced
  <2> QED BY <2>1, <2>2 DEF TraceInv, OnlyMessagesLost
<1> QED BY <1>2, <1>3, <1>4, <1>5 DEF TraceInv, ReplayerLive

----------------------------------------------------------------------------
(* Theorems.                                                               *)

(* Lemma: the invariant holds at first, and every step keeps it.           *)
LEMMA TraceInit == Init => TraceInv
<1> SUFFICES ASSUME Init PROVE TraceInv
  OBVIOUS
<1>1. TypeOK
  BY FreeBlock DEF Init, TypeOK
<1>2. \A s \in Slots : held[s] = NoEvent /\ Owned(s) = {}
  BY DEF Init, Owned
<1>3. Live(heap) = {}
  BY DEF Init, Live
<1>4. Tagged /\ ReplayerLive /\ HeldIntact /\ OnlyMessagesLost
  BY <1>2, <1>3 DEF Init, Tagged, ReplayerLive, HeldIntact, OnlyMessagesLost
<1> QED BY <1>1, <1>4 DEF TraceInv

LEMMA TraceStep == TraceInv /\ [Next]_vars => TraceInv'
<1> SUFFICES ASSUME TraceInv, [Next]_vars PROVE TraceInv'
  OBVIOUS
<1>1. CASE Open
  BY <1>1, OpenStep
<1>2. ASSUME NEW s \in Slots, NextEvent(s) PROVE TraceInv'
  BY <1>2, NextEventStep
<1>3. ASSUME NEW s \in Slots, FreeEvent(s) PROVE TraceInv'
  BY <1>3, FreeEventStep
<1>4. CASE FreeReplayer
  BY <1>4, FreeReplayerStep
<1>5. CASE UNCHANGED vars
  BY <1>5 DEF vars, TraceInv, TypeOK, Tagged, ReplayerLive, HeldIntact,
              OnlyMessagesLost, Owned, Referenced
<1> QED BY <1>1, <1>2, <1>3, <1>4, <1>5 DEF Next

(* Theorem: the replayer, the events held and the heap keep their types.   *)
THEOREM EventsTypeCorrect == Spec => []TypeOK
<1>1. TraceInv => TypeOK
  BY DEF TraceInv
<1> QED BY <1>1, TraceInit, TraceStep, PTL DEF Spec

(* Theorem: whatever was given back before, in any order and also after    *)
(* the replayer, every buffer the consumer holds is live, has its length,  *)
(* and is no other event's and not the replayer's: crimp_event_free never  *)
(* releases what is not allocated.                                         *)
THEOREM HeldAlwaysIntact == Spec => []HeldIntact
<1>1. TraceInv => HeldIntact
  BY DEF TraceInv
<1> QED BY <1>1, TraceInit, TraceStep, PTL DEF Spec

(* Theorem: only messages of failed reads and the spare capacity of empty  *)
(* Vecs are lost, in any number of events; both free functions release     *)
(* everything else they are given.                                         *)
THEOREM OnlyMessagesEverLost == Spec => []OnlyMessagesLost
<1>1. TraceInv => OnlyMessagesLost
  BY DEF TraceInv
<1> QED BY <1>1, TraceInit, TraceStep, PTL DEF Spec
=============================================================================
