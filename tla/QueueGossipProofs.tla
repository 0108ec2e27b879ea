-------------------------- MODULE QueueGossipProofs --------------------------
(***************************************************************************)
(* For any number of peers, any neighbours and any updates on their way: a *)
(* daemon encodes its current entry and no other, all peers end up with    *)
(* one list, and one of them streams at a time while users only append,    *)
(* and take turns.                                                         *)
(* The cursor of a playlist follows its entry, for every set of entries    *)
(* and every length.                                                       *)
(***************************************************************************)
EXTENDS QueueGossip, PlayQueue, SequenceTheorems, FiniteSetTheorems, TLAPS

Lists == [items : Seq(Entry), cursor : Nat]
Messages == [n : Nat, items : Seq(Entry), to : SUBSET Peer, has : SUBSET Peer]

\* An encoder that runs began with the number its controller counts from, a
\* daemon outside the session encodes nothing, and no update is on its way to it.
Numbered == \A p \in Peer : run[p].at = "on" => run[p].first = seq[p]
OutsideOff == \A p \in Peer \ inside : run[p].at = "off"
ToInside == \A m \in net : m.to \subseteq inside
Shape == snapshot = [p \in Peer |-> snapshot[p]]

IInv == TypeOK /\ EncodesCurrent /\ Numbered /\ OutsideOff /\ ToInside /\ Shape

-----------------------------------------------------------------------------
\* What removing position i leaves: one entry less, those behind i moved up.
LEMMA RemoveAtResult ==
  ASSUME NEW S, NEW s \in Seq(S), NEW i \in 1 .. Len(s)
  PROVE  /\ RemoveAt(s, i) \in Seq(S)
         /\ Len(RemoveAt(s, i)) = Len(s) - 1
         /\ \A k \in 1 .. Len(s) - 1 :
              RemoveAt(s, i)[k] = IF k < i THEN s[k] ELSE s[k + 1]
<1> DEFINE front == SubSeq(s, 1, i - 1)
           back == SubSeq(s, i + 1, Len(s))
<1>1. /\ front \in Seq(S) /\ Len(front) = i - 1
      /\ \A k \in 1 .. i - 1 : front[k] = s[k]
  OBVIOUS
<1>2. /\ back \in Seq(S) /\ Len(back) = Len(s) - i
      /\ \A k \in 1 .. Len(s) - i : back[k] = s[i + k]
  OBVIOUS
<1>3. RemoveAt(s, i) = front \o back
  BY DEF RemoveAt
<1> HIDE DEF front, back
<1>4. Len(front) + Len(back) = Len(s) - 1
  BY <1>1, <1>2
<1>5. /\ front \o back \in Seq(S)
      /\ Len(front \o back) = Len(front) + Len(back)
      /\ \A k \in 1 .. Len(front) + Len(back) :
           (front \o back)[k] = IF k <= Len(front) THEN front[k]
                               ELSE back[k - Len(front)]
  BY <1>1, <1>2, ConcatProperties
<1>6. ASSUME NEW k \in 1 .. Len(s) - 1
      PROVE  (front \o back)[k] = IF k < i THEN s[k] ELSE s[k + 1]
  <2>1. CASE k < i
    BY <1>1, <1>4, <1>5, <2>1
  <2>2. CASE ~(k < i)
    <3>1. /\ ~(k <= Len(front))
          /\ k - Len(front) \in 1 .. Len(s) - i
          /\ i + (k - Len(front)) = k + 1
      BY <1>1, <2>2
    <3>2. (front \o back)[k] = back[k - Len(front)]
      BY <1>4, <1>5, <3>1
    <3>3. back[k - Len(front)] = s[k + 1]
      BY <1>2, <3>1
    <3> QED BY <2>2, <3>2, <3>3
  <2> QED BY <2>1, <2>2
<1> QED BY <1>3, <1>4, <1>5, <1>6

\* Every operation on a playlist gives a playlist.
LEMMA OperationsTyped ==
  ASSUME NEW q \in Lists
  PROVE  /\ \A e \in Entry : AppendEntry(q, e) \in Lists
         /\ \A i \in Positions(q) : RemoveEntry(q, i) \in Lists
         /\ \A s \in Seq(Entry) : ReplaceEntries(q, s) \in Lists
         /\ Advance(q) \in Lists
<1>0. q.items \in Seq(Entry) /\ q.cursor \in Nat
  BY DEF Lists
<1>1. ASSUME NEW e \in Entry PROVE AppendEntry(q, e) \in Lists
  BY <1>0, <1>1 DEF AppendEntry, Lists
<1>2. ASSUME NEW i \in Positions(q) PROVE RemoveEntry(q, i) \in Lists
  <2> DEFINE rest == RemoveAt(q.items, i)
  <2>1. rest \in Seq(Entry)
    BY <1>0, RemoveAtResult DEF Positions
  <2>2. Len(rest) \in Nat /\ i \in Nat
    BY <2>1, <1>0 DEF Positions
  <2> HIDE DEF rest
  <2>3. (IF q.cursor > i \/ q.cursor > Len(rest) THEN q.cursor - 1 ELSE q.cursor) \in Nat
    BY <1>0, <2>2
  <2> QED BY <2>1, <2>3 DEF RemoveEntry, Lists, rest
<1>3. ASSUME NEW s \in Seq(Entry) PROVE ReplaceEntries(q, s) \in Lists
  <2>1. Len(s) \in Nat
    OBVIOUS
  <2> QED BY <1>0, <2>1 DEF ReplaceEntries, Lists
<1>4. Advance(q) \in Lists
  BY <1>0 DEF Advance, CanAdvance, Lists
<1> QED BY <1>1, <1>2, <1>3, <1>4

\* Writing the current entry back leaves the rest, and the cursor on it.
LEMMA SetCurrentResult ==
  ASSUME NEW q \in Lists, HasCurrent(q), NEW e \in Entry
  PROVE  /\ SetCurrent(q, e) \in Lists
         /\ HasCurrent(SetCurrent(q, e)) /\ Current(SetCurrent(q, e)) = e
<1>1. /\ q = [items |-> q.items, cursor |-> q.cursor]
      /\ q.items \in Seq(Entry) /\ q.cursor \in 1 .. Len(q.items) /\ q.cursor \in Nat
  BY DEF Lists, HasCurrent, Positions
<1>2. SetCurrent(q, e) = [items |-> [q.items EXCEPT ![q.cursor] = e], cursor |-> q.cursor]
  BY <1>1 DEF SetCurrent
<1>3. /\ [q.items EXCEPT ![q.cursor] = e] \in Seq(Entry)
      /\ Len([q.items EXCEPT ![q.cursor] = e]) = Len(q.items)
      /\ [q.items EXCEPT ![q.cursor] = e][q.cursor] = e
  BY <1>1, ExceptSeq
<1> QED BY <1>1, <1>2, <1>3 DEF Lists, HasCurrent, Current, Positions

\* What a handler's look at the head makes of playlist and encoder: an encoder
\* that runs is of the current entry, from number s on.
LEMMA ReactionResult ==
  ASSUME NEW p, NEW q \in Lists, NEW s \in 0 .. MaxSeq, NEW r \in Runs
  PROVE  LET x == Reaction(p, q, s, r)
         IN  /\ x.queue \in Lists /\ x.run \in Runs /\ x.lists \in Seq(Seq(Entry))
             /\ x.run.at = "on" => /\ Mine(p, x.queue)
                                   /\ Current(x.queue).id = x.run.id
                                   /\ x.run.first = s
<1> DEFINE stream == [id |-> Current(q).id, first |-> s, at |-> "on"]
           numbered == [Current(q) EXCEPT !.first = s]
           started == SetCurrent(q, numbered)
<1>0. MaxCommands \in Nat /\ MaxSeq \in Nat
  BY QueueGossipAssumption
<1>1. CASE ~Mine(p, q)
  <2>1. Off \in Runs /\ Off.at = "off" /\ << >> \in Seq(Seq(Entry))
    BY <1>0 DEF Off, Runs
  <2>2. Reaction(p, q, s, r) = [queue |-> q, run |-> IF r.at = "on" THEN Off ELSE r, lists |-> << >>]
    BY <1>1 DEF Reaction
  <2> QED BY <2>1, <2>2
<1>2. CASE Mine(p, q)
  <2>1. HasCurrent(q) /\ Current(q) \in Entry
    BY <1>2 DEF Mine, HasCurrent, Current, Positions, Lists
  <2>2. stream \in Runs
    BY <1>0, <2>1 DEF Runs, Entry
  <2>3. numbered \in Entry /\ numbered.id = Current(q).id /\ numbered.owner = Current(q).owner
    BY <1>0, <2>1 DEF Entry
  <2> HIDE DEF numbered
  <2>4. started \in Lists /\ HasCurrent(started) /\ Current(started) = numbered
    BY <2>1, <2>3, SetCurrentResult
  <2>5. Mine(p, started) /\ Current(started).id = Current(q).id
    BY <1>2, <2>3, <2>4 DEF Mine
  <2>6. started.items \in Seq(Entry)
    BY <2>4 DEF Lists
  <2> HIDE DEF started
  <2>7. <<started.items>> \in Seq(Seq(Entry)) /\ << >> \in Seq(Seq(Entry))
    BY <2>6
  <2>8. CASE r = stream
    <3>1. Reaction(p, q, s, r) = [queue |-> q, run |-> r, lists |-> << >>]
      BY <1>2, <2>8 DEF Reaction
    <3>2. r.id = Current(q).id /\ r.first = s
      BY <2>8
    <3> HIDE DEF stream
    <3> QED BY <1>2, <2>7, <3>1, <3>2
  <2>9. CASE r # stream
    <3>1. Reaction(p, q, s, r) = [queue |-> started, run |-> stream, lists |-> <<started.items>>]
      BY <1>2, <2>9 DEF Reaction, started, numbered
    <3> QED BY <2>2, <2>4, <2>5, <2>7, <3>1
  <2> QED BY <2>8, <2>9
<1> QED BY <1>1, <1>2

\* The greater of two numbers is one of them.
LEMMA MaxOfTwo == ASSUME NEW a \in Nat, NEW b \in Nat PROVE Max({a, b}) \in Nat
<1>1. \E x \in {a, b} : \A y \in {a, b} : x >= y
  OBVIOUS
<1>2. Max({a, b}) \in {a, b}
  BY <1>1 DEF Max
<1> QED BY <1>2

-----------------------------------------------------------------------------
\* What GoOn leaves: typed state, and an encoder that runs only for its
\* daemon's current entry.
LEMMA GoOnKeeps ==
  ASSUME IInv, NEW p \in inside, NEW q \in Lists, NEW s \in 0 .. MaxSeq, NEW r \in Runs,
         NEW published \in Seq(Seq(Entry)), NEW rest, rest \subseteq Messages,
         \A m \in rest : m.to \subseteq inside,
         NEW n \in Nat, GoOn(p, q, s, r, published, rest, n), inside' = inside
  PROVE  /\ queue' \in [Peer -> Lists] /\ seq' \in [Peer -> 0 .. MaxSeq]
         /\ run' \in [Peer -> Runs] /\ net' \subseteq Messages
         /\ newest' \in [Peer -> Nat] /\ sent' \in Nat
         /\ EncodesCurrent' /\ Numbered' /\ OutsideOff' /\ ToInside'
<1> DEFINE x == Reaction(p, q, s, r)
           all == published \o x.lists
           others == inside \ {p}
           new == {[n |-> sent + i, items |-> all[i], to |-> others, has |-> {p}] : i \in DOMAIN all}
<1>0. /\ queue \in [Peer -> Lists] /\ seq \in [Peer -> 0 .. MaxSeq]
      /\ run \in [Peer -> Runs] /\ newest \in [Peer -> Nat] /\ sent \in Nat
      /\ inside \subseteq Peer /\ p \in Peer
  BY DEF IInv, TypeOK, Lists, Runs
<1>1. /\ x.queue \in Lists /\ x.run \in Runs /\ x.lists \in Seq(Seq(Entry))
      /\ x.run.at = "on" => /\ Mine(p, x.queue)
                            /\ Current(x.queue).id = x.run.id
                            /\ x.run.first = s
  BY ReactionResult
<1>2. /\ queue' = [queue EXCEPT ![p] = x.queue]
      /\ run' = [run EXCEPT ![p] = x.run]
      /\ seq' = [seq EXCEPT ![p] = s]
      /\ net' = rest \union IF others = {} THEN {} ELSE new
      /\ sent' = sent + Len(all)
      /\ newest' = [newest EXCEPT ![p] = IF all # << >> THEN sent' ELSE Max({n, @})]
  BY DEF GoOn
<1> HIDE DEF x
<1>3. all \in Seq(Seq(Entry)) /\ Len(all) \in Nat
  BY <1>1, ConcatProperties
<1> HIDE DEF all
<1>4. new \subseteq Messages /\ \A m \in new : m.to \subseteq inside
  <2>1. ASSUME NEW i \in DOMAIN all
        PROVE  /\ sent + i \in Nat /\ all[i] \in Seq(Entry)
    BY <1>0, <1>3
  <2> QED BY <1>0, <2>1 DEF Messages
<1>5. sent' \in Nat /\ newest' \in [Peer -> Nat]
  <2>1. sent' \in Nat /\ newest[p] \in Nat
    BY <1>0, <1>2, <1>3
  <2>2. Max({n, newest[p]}) \in Nat
    BY <2>1, MaxOfTwo
  <2> QED BY <1>0, <1>2, <2>1, <2>2
<1>6. net' \subseteq Messages /\ ToInside'
  BY <1>2, <1>4 DEF ToInside
<1>7. queue' \in [Peer -> Lists] /\ seq' \in [Peer -> 0 .. MaxSeq] /\ run' \in [Peer -> Runs]
  BY <1>0, <1>1, <1>2
<1>8. /\ queue'[p] = x.queue /\ run'[p] = x.run /\ seq'[p] = s
      /\ \A o \in Peer \ {p} : /\ queue'[o] = queue[o] /\ run'[o] = run[o] /\ seq'[o] = seq[o]
  BY <1>0, <1>2
<1>9. EncodesCurrent'
  BY <1>1, <1>8 DEF IInv, EncodesCurrent, Mine
<1>10. Numbered' /\ OutsideOff'
  BY <1>1, <1>8 DEF IInv, Numbered, OutsideOff
<1> QED BY <1>5, <1>6, <1>7, <1>9, <1>10

\* The parts of the invariant are all there is to it.
LEMMA Assembled ==
  ASSUME queue' \in [Peer -> Lists], seq' \in [Peer -> 0 .. MaxSeq],
         run' \in [Peer -> Runs], net' \subseteq Messages,
         newest' \in [Peer -> Nat], sent' \in Nat, inside' \subseteq Peer,
         \A p \in Peer : snapshot'[p] = None \/ snapshot'[p] \in Seq(Entry),
         played' \subseteq 1 .. MaxCommands, commands' \in 0 .. MaxCommands,
         mishaps' \subseteq Mishap,
         EncodesCurrent', Numbered', OutsideOff', ToInside', Shape'
  PROVE  IInv'
BY DEF IInv, TypeOK, Lists, Runs, Messages

-----------------------------------------------------------------------------
\* All playlists are empty and no encoder runs.
LEMMA InitIInv == Init => IInv
<1> SUFFICES ASSUME Init PROVE IInv
  OBVIOUS
<1>1. MaxCommands \in Nat /\ MaxSeq \in Nat /\ Inside \subseteq Peer
  BY QueueGossipAssumption
<1>2. TypeOK
  BY <1>1 DEF Init, TypeOK, Runs, EmptyQueue, Mishap
<1>3. /\ EncodesCurrent /\ Numbered /\ OutsideOff
  BY DEF Init, EncodesCurrent, Numbered, OutsideOff, Off
<1>4. ToInside /\ Shape
  BY DEF Init, ToInside, Shape
<1> QED BY <1>2, <1>3, <1>4 DEF IInv

\* What the invariant says of one daemon.
LEMMA Typed ==
  ASSUME IInv, NEW p \in Peer
  PROVE  /\ queue[p] \in Lists /\ queue[p].items \in Seq(Entry)
         /\ run[p] \in Runs /\ seq[p] \in 0 .. MaxSeq /\ net \subseteq Messages
         /\ run[p].at = "on" => run[p].first = seq[p]
         /\ p \notin inside => run[p].at = "off"
         /\ snapshot[p] = None \/ snapshot[p] \in Seq(Entry)
         /\ MaxCommands \in Nat /\ MaxSeq \in Nat
         /\ Off \in Runs
<1>1. MaxCommands \in Nat /\ MaxSeq \in Nat
  BY QueueGossipAssumption
<1> QED BY <1>1 DEF IInv, TypeOK, Numbered, OutsideOff, Lists, Runs, Messages, Off

\* A user's command keeps the invariant, whatever it makes of the playlist.
LEMMA CommandKeeps ==
  ASSUME IInv, NEW p \in Peer, Command(p), NEW q \in Lists, NEW s \in 0 .. MaxSeq,
         NEW r \in Runs, NEW published \in Seq(Seq(Entry)),
         GoOn(p, q, s, r, published, net, 0), mishaps' \subseteq Mishap
  PROVE  IInv'
<1>1. /\ p \in inside /\ inside' = inside /\ snapshot' = snapshot /\ played' = played
      /\ commands' \in 0 .. MaxCommands
  BY QueueGossipAssumption DEF Command, IInv, TypeOK
<1>2. net \subseteq Messages /\ \A m \in net : m.to \subseteq inside
  BY Typed DEF IInv, ToInside
<1>3. /\ queue' \in [Peer -> Lists] /\ seq' \in [Peer -> 0 .. MaxSeq]
      /\ run' \in [Peer -> Runs] /\ net' \subseteq Messages
      /\ newest' \in [Peer -> Nat] /\ sent' \in Nat
      /\ EncodesCurrent' /\ Numbered' /\ OutsideOff' /\ ToInside'
  BY <1>1, <1>2, GoOnKeeps
<1>4. Shape' /\ played' \subseteq 1 .. MaxCommands /\ inside' \subseteq Peer
  BY <1>1 DEF IInv, TypeOK, Shape
<1>5. \A o \in Peer : snapshot'[o] = None \/ snapshot'[o] \in Seq(Entry)
  BY <1>1 DEF IInv, TypeOK
<1> QED BY <1>1, <1>3, <1>4, <1>5, Assembled

\* One entry more.
LEMMA AppendKeeps == ASSUME IInv, NEW p \in Peer, AppendCmd(p) PROVE IInv'
<1> DEFINE e == [id |-> commands + 1, owner |-> p, first |-> 0]
           q == AppendEntry(queue[p], e)
<1>1. Command(p) /\ GoOn(p, q, seq[p], run[p], <<q.items>>, net, 0) /\ mishaps' = mishaps
  BY DEF AppendCmd
<1>2. e \in Entry
  BY <1>1, QueueGossipAssumption DEF Command, Entry, IInv, TypeOK
<1>3. q \in Lists
  BY <1>2, Typed, OperationsTyped
<1> HIDE DEF q
<1>4. <<q.items>> \in Seq(Seq(Entry))
  BY <1>3 DEF Lists
<1>5. mishaps' \subseteq Mishap
  BY <1>1 DEF IInv, TypeOK
<1> QED BY <1>1, <1>3, <1>4, <1>5, Typed, CommandKeeps

\* One entry less.
LEMMA RemoveKeeps ==
  ASSUME IInv, NEW p \in Peer, NEW i \in Positions(queue[p]), RemoveCmd(p, i) PROVE IInv'
<1> DEFINE q == RemoveEntry(queue[p], i)
<1>1. Command(p) /\ GoOn(p, q, seq[p], run[p], <<q.items>>, net, 0) /\ Note(TRUE, "Moved")
  BY DEF RemoveCmd
<1>2. q \in Lists
  BY Typed, OperationsTyped
<1> HIDE DEF q
<1>3. <<q.items>> \in Seq(Seq(Entry))
  BY <1>2 DEF Lists
<1>4. mishaps' \subseteq Mishap
  BY <1>1 DEF IInv, TypeOK, Note, Mishap
<1> QED BY <1>1, <1>2, <1>3, <1>4, Typed, CommandKeeps

\* The own encoder stopped, and the cursor moved.
LEMMA SkipNextKeeps == ASSUME IInv, NEW p \in Peer, SkipNextCmd(p) PROVE IInv'
<1> DEFINE q == Advance(queue[p])
           r == IF run[p].at = "on" THEN Off ELSE run[p]
           published == IF CanAdvance(queue[p]) THEN <<q.items>> ELSE << >>
           made == IF Mine(p, queue[p]) /\ run[p].at = "on" THEN {seq[p], run[p].first + 1} ELSE {seq[p]}
<1>1. /\ Command(p) /\ seq[p] < MaxSeq /\ Note(TRUE, "Moved")
      /\ \E s \in made : GoOn(p, q, s, r, published, net, 0)
  BY DEF SkipNextCmd
<1>2. made \subseteq 0 .. MaxSeq /\ r \in Runs
  BY <1>1, Typed
<1>3. q \in Lists
  BY Typed, OperationsTyped
<1> HIDE DEF q
<1>4. published \in Seq(Seq(Entry))
  BY <1>3 DEF Lists
<1>5. mishaps' \subseteq Mishap
  BY <1>1 DEF IInv, TypeOK, Note, Mishap
<1> HIDE DEF made, r, published
<1>6. PICK s \in 0 .. MaxSeq : GoOn(p, q, s, r, published, net, 0)
  BY <1>1, <1>2
<1> QED BY <1>1, <1>2, <1>3, <1>4, <1>5, <1>6, CommandKeeps

\* The encoder is off, and the counter moves on within its bound.
LEMMA EncoderEndsKeeps == ASSUME IInv, NEW p \in Peer, EncoderEnds(p) PROVE IInv'
<1> DEFINE x == IF HasCurrent(queue[p]) /\ Current(queue[p]).first = run[p].first
                THEN [run[p] EXCEPT !.at = "ended"] ELSE Off
<1>1. /\ run[p].at = "on" /\ seq[p] < MaxSeq
      /\ seq' = [seq EXCEPT ![p] = run[p].first + 1] /\ run' = [run EXCEPT ![p] = x]
      /\ UNCHANGED <<lists, inside, snapshot, played, commands, mishaps>>
  BY DEF EncoderEnds
<1>2. x \in Runs /\ x.at # "on" /\ run[p].first + 1 \in 0 .. MaxSeq /\ p \in inside
  BY <1>1, Typed DEF Runs, Off
<1> HIDE DEF x
<1>3. TypeOK'
  BY <1>1, <1>2 DEF IInv, TypeOK, Runs, lists
<1>4. run \in [Peer -> Runs] /\ seq \in [Peer -> 0 .. MaxSeq]
  BY DEF IInv, TypeOK, Runs
<1>5. /\ run'[p] = x
      /\ \A o \in Peer \ {p} : run'[o] = run[o] /\ seq'[o] = seq[o]
  BY <1>1, <1>4
<1>6. EncodesCurrent' /\ Numbered' /\ OutsideOff'
  BY <1>1, <1>2, <1>5 DEF IInv, EncodesCurrent, Numbered, OutsideOff, Mine, lists
<1>7. ToInside' /\ Shape'
  BY <1>1 DEF IInv, ToInside, Shape, lists
<1> QED BY <1>3, <1>6, <1>7 DEF IInv

\* The queue moves on, or only the report is used up.
LEMMA PlayerEndsKeeps == ASSUME IInv, NEW p \in Peer, PlayerEnds(p) PROVE IInv'
<1> DEFINE q == Advance(queue[p])
<1>1. /\ run[p].at = "ended" /\ played' = played \union {run[p].id}
      /\ UNCHANGED <<inside, snapshot, commands, mishaps>>
      /\ \/ GoOn(p, q, seq[p], Off, << >>, net, 0)
         \/ run' = [run EXCEPT ![p] = Off] /\ UNCHANGED <<lists, seq>>
  BY DEF PlayerEnds
<1>2. p \in inside /\ q \in Lists /\ Off \in Runs /\ << >> \in Seq(Seq(Entry))
  BY <1>1, Typed, OperationsTyped
<1> HIDE DEF q
<1>3. played' \subseteq 1 .. MaxCommands
  <2>1. run[p].id \in 1 .. MaxCommands
    BY <1>1, Typed DEF Runs, Off
  <2> QED BY <1>1, <2>1 DEF IInv, TypeOK
<1>4. CASE GoOn(p, q, seq[p], Off, << >>, net, 0)
  <2>1. net \subseteq Messages /\ \A m \in net : m.to \subseteq inside
    BY Typed DEF IInv, ToInside
  <2>2. /\ queue' \in [Peer -> Lists] /\ seq' \in [Peer -> 0 .. MaxSeq]
        /\ run' \in [Peer -> Runs] /\ net' \subseteq Messages
        /\ newest' \in [Peer -> Nat] /\ sent' \in Nat
        /\ EncodesCurrent' /\ Numbered' /\ OutsideOff' /\ ToInside'
    BY <1>1, <1>2, <1>4, <2>1, Typed, GoOnKeeps
  <2>3. /\ Shape' /\ inside' \subseteq Peer /\ commands' \in 0 .. MaxCommands
        /\ mishaps' \subseteq Mishap
    BY <1>1 DEF IInv, TypeOK, Shape
  <2>4. \A o \in Peer : snapshot'[o] = None \/ snapshot'[o] \in Seq(Entry)
    BY <1>1 DEF IInv, TypeOK
  <2> QED BY <1>3, <2>2, <2>3, <2>4, Assembled
<1>5. CASE run' = [run EXCEPT ![p] = Off] /\ UNCHANGED <<lists, seq>>
  <2>1. TypeOK'
    BY <1>1, <1>2, <1>3, <1>5 DEF IInv, TypeOK, Runs, lists
  <2>2. EncodesCurrent' /\ Numbered' /\ OutsideOff'
    BY <1>1, <1>5 DEF IInv, TypeOK, EncodesCurrent, Numbered, OutsideOff, Mine, lists, Off
  <2>3. ToInside' /\ Shape'
    BY <1>1, <1>5 DEF IInv, ToInside, Shape, lists
  <2> QED BY <2>1, <2>2, <2>3 DEF IInv
<1> QED BY <1>1, <1>4, <1>5

\* An update is taken, or turned down.
LEMMA ReceiveKeeps ==
  ASSUME IInv, NEW p \in Peer, NEW o \in Peer, NEW m \in net, Receive(p, o, m) PROVE IInv'
<1> DEFINE left == m.to \ {p}
           rest == (net \ {m}) \union
                   IF left = {} THEN {} ELSE {[m EXCEPT !.to = left, !.has = @ \union {p}]}
           q == ReplaceEntries(queue[p], m.items)
<1>1. /\ p \in m.to /\ UNCHANGED <<inside, snapshot, played, commands>>
      /\ \/ GoOn(p, q, seq[p], run[p], << >>, rest, m.n) /\ Note(m.n < newest[p], "Late")
         \/ net' = rest /\ Note(TRUE, "Denied") /\ UNCHANGED <<queue, seq, run, newest, sent>>
  BY DEF Receive
<1>2. /\ m \in Messages /\ m.n \in Nat /\ m.items \in Seq(Entry)
      /\ p \in inside /\ m.to \subseteq inside
  BY <1>1, Typed DEF IInv, ToInside, Messages
<1>3. rest \subseteq Messages /\ \A x \in rest : x.to \subseteq inside
  <2>1. [m EXCEPT !.to = left, !.has = @ \union {p}] \in Messages
    BY <1>2 DEF Messages
  <2>2. [m EXCEPT !.to = left, !.has = @ \union {p}].to \subseteq inside
    BY <1>2 DEF Messages
  <2>3. net \subseteq Messages /\ \A x \in net : x.to \subseteq inside
    BY Typed DEF IInv, ToInside
  <2> QED BY <2>1, <2>2, <2>3
<1> HIDE DEF rest
<1>4. q \in Lists /\ << >> \in Seq(Seq(Entry))
  <2>1. queue[p] \in Lists
    BY Typed
  <2>2. q \in Lists
    BY <1>2, <2>1, OperationsTyped
  <2> QED BY <2>2
<1> HIDE DEF q
<1>5. mishaps' \subseteq Mishap
  BY <1>1 DEF IInv, TypeOK, Note, Mishap
<1>6. CASE GoOn(p, q, seq[p], run[p], << >>, rest, m.n)
  <2>1. /\ queue' \in [Peer -> Lists] /\ seq' \in [Peer -> 0 .. MaxSeq]
        /\ run' \in [Peer -> Runs] /\ net' \subseteq Messages
        /\ newest' \in [Peer -> Nat] /\ sent' \in Nat
        /\ EncodesCurrent' /\ Numbered' /\ OutsideOff' /\ ToInside'
    BY <1>1, <1>2, <1>3, <1>4, <1>6, Typed, GoOnKeeps
  <2>2. /\ Shape' /\ inside' \subseteq Peer /\ commands' \in 0 .. MaxCommands
        /\ played' \subseteq 1 .. MaxCommands
    BY <1>1 DEF IInv, TypeOK, Shape
  <2>3. \A x \in Peer : snapshot'[x] = None \/ snapshot'[x] \in Seq(Entry)
    BY <1>1 DEF IInv, TypeOK
  <2> QED BY <1>5, <2>1, <2>2, <2>3, Assembled
<1>7. CASE net' = rest /\ UNCHANGED <<queue, seq, run, newest, sent>>
  <2>1. TypeOK'
    BY <1>1, <1>3, <1>5, <1>7 DEF IInv, TypeOK, Messages
  <2>2. EncodesCurrent' /\ Numbered' /\ OutsideOff' /\ Shape'
    BY <1>1, <1>7 DEF IInv, EncodesCurrent, Numbered, OutsideOff, Mine, Shape
  <2>3. ToInside'
    BY <1>1, <1>3, <1>7 DEF ToInside
  <2> QED BY <2>1, <2>2, <2>3 DEF IInv
<1> QED BY <1>1, <1>6, <1>7

\* A joiner is sent a list.
LEMMA AdmitKeeps == ASSUME IInv, NEW p \in Peer, Admit(p) PROVE IInv'
<1>1. /\ snapshot' = [snapshot EXCEPT ![p] = queue[Creator].items]
      /\ UNCHANGED <<lists, streams, inside, commands, mishaps>>
  BY DEF Admit
<1>2. queue[Creator].items \in Seq(Entry)
  BY Typed, QueueGossipAssumption
<1>3. Shape' /\ \A o \in Peer : snapshot'[o] = None \/ snapshot'[o] \in Seq(Entry)
  BY <1>1, <1>2 DEF IInv, Shape, TypeOK
<1>4. TypeOK'
  BY <1>1, <1>3 DEF IInv, TypeOK, lists, streams
<1>5. EncodesCurrent' /\ Numbered' /\ OutsideOff' /\ ToInside'
  BY <1>1 DEF IInv, EncodesCurrent, Numbered, OutsideOff, ToInside, Mine, lists, streams
<1> QED BY <1>3, <1>4, <1>5 DEF IInv

\* It takes the list, and encodes nothing yet.
LEMMA EnterKeeps == ASSUME IInv, NEW p \in Peer, Enter(p) PROVE IInv'
<1> DEFINE q == ReplaceEntries(queue[p], snapshot[p])
<1>1. /\ p \notin inside /\ snapshot[p] # None
      /\ queue' = [queue EXCEPT ![p] = q] /\ inside' = inside \union {p}
      /\ snapshot' = [snapshot EXCEPT ![p] = None]
      /\ UNCHANGED <<streams, net, newest, sent, commands>>
  BY DEF Enter
<1>2. q \in Lists /\ run[p].at = "off"
  BY <1>1, Typed, OperationsTyped
<1> HIDE DEF q
<1>3. mishaps' \subseteq Mishap
  BY DEF Enter, IInv, TypeOK, Note, Mishap
<1>4. Shape' /\ \A o \in Peer : snapshot'[o] = None \/ snapshot'[o] \in Seq(Entry)
  BY <1>1 DEF IInv, Shape, TypeOK
<1>5. queue \in [Peer -> Lists]
  BY DEF IInv, TypeOK, Lists
<1>6. queue' \in [Peer -> Lists] /\ \A o \in Peer \ {p} : queue'[o] = queue[o]
  BY <1>1, <1>2, <1>5
<1>7. TypeOK'
  BY <1>1, <1>3, <1>4, <1>6 DEF IInv, TypeOK, streams, Lists
<1>8. EncodesCurrent'
  BY <1>1, <1>2, <1>6 DEF IInv, EncodesCurrent, Mine, streams
<1>9. Numbered' /\ OutsideOff' /\ ToInside'
  BY <1>1 DEF IInv, Numbered, OutsideOff, ToInside, streams
<1> QED BY <1>4, <1>7, <1>8, <1>9 DEF IInv

-----------------------------------------------------------------------------
\* Every step keeps the invariant.
LEMMA NextIInv == IInv /\ [Next]_vars => IInv'
<1> SUFFICES ASSUME IInv, [Next]_vars PROVE IInv'
  OBVIOUS
<1>1. CASE UNCHANGED vars
  BY <1>1 DEF vars, IInv, TypeOK, EncodesCurrent, Mine, Numbered, OutsideOff, ToInside, Shape
<1>2. ASSUME NEW p \in Peer, AppendCmd(p) PROVE IInv'
  BY <1>2, AppendKeeps
<1>3. ASSUME NEW p \in Peer, NEW i \in Positions(queue[p]), RemoveCmd(p, i) PROVE IInv'
  BY <1>3, RemoveKeeps
<1>4. ASSUME NEW p \in Peer, SkipNextCmd(p) PROVE IInv'
  BY <1>4, SkipNextKeeps
<1>5. ASSUME NEW p \in Peer, EncoderEnds(p) PROVE IInv'
  BY <1>5, EncoderEndsKeeps
<1>6. ASSUME NEW p \in Peer, PlayerEnds(p) PROVE IInv'
  BY <1>6, PlayerEndsKeeps
<1>7. ASSUME NEW p \in Peer, NEW m \in net, NEW q \in Peer, Receive(p, q, m) PROVE IInv'
  BY <1>7, ReceiveKeeps
<1>8. ASSUME NEW p \in Peer, Admit(p) PROVE IInv'
  BY <1>8, AdmitKeeps
<1>9. ASSUME NEW p \in Peer, Enter(p) PROVE IInv'
  BY <1>9, EnterKeeps
<1> QED BY <1>1, <1>2, <1>3, <1>4, <1>5, <1>6, <1>7, <1>8, <1>9 DEF Next

\* The invariant holds at all times.
THEOREM Invariance == Spec => []IInv
BY InitIInv, NextIInv, PTL DEF Spec

\* QueueController and Node keep their types, for any peers and updates.
THEOREM TypeCorrect == Spec => []TypeOK
BY Invariance, PTL DEF IInv

\* A daemon encodes its current entry, which is its own, and no other.
THEOREM AlwaysEncodesCurrent == Spec => []EncodesCurrent
BY Invariance, PTL DEF IInv

-----------------------------------------------------------------------------
(* What all peers end up with. While no update was taken late, denied or   *)
(* missed, one list is in force: the last that was published. Everybody    *)
(* has it, or will get it.                                                 *)

\* Nothing is on its way to p; the last update is; p has the list in force.
HasNone(p) == \A m \in net : p \notin m.to
Awaits(p) == \E m \in net : p \in m.to /\ m.n = sent
Holds(p, list) == queue[p].items = list /\ (newest[p] = sent \/ HasNone(p))

InForce(list) ==
  /\ \A p \in inside : Holds(p, list) \/ Awaits(p)
  /\ \A m \in net : m.n = sent => m.items = list

\* Updates are numbered as they are published, who is outside has no list, and
\* the creator never leaves.
Counted == (\A m \in net : m.n <= sent) /\ \A p \in Peer : newest[p] <= sent
Fresh == \A p \in Peer \ inside : queue[p] = EmptyQueue
Present == Creator \in inside

\* Nothing was taken late, and nothing will be.
Clean == mishaps = {} /\ InTurn

\* The entries of s are by the same owners as the first ones of t.
Begins(s, t) == Len(s) <= Len(t) /\ \A i \in 1 .. Len(s) : s[i].owner = t[i].owner

\* A cursor passes only entries of its own peer.
OwnBefore(p, q) ==
  /\ q.cursor <= Len(q.items)
  /\ \A i \in 1 .. Len(q.items) : q.cursor = 0 \/ i < q.cursor => q.items[i].owner = p

\* Then lists only grew, and no cursor has passed another peer's entry.
Serial(list) ==
  /\ \A p \in inside : Begins(queue[p].items, list) /\ OwnBefore(p, queue[p])
  /\ \A m \in net : Begins(m.items, list)

\* One list is in force, and it is made of appended entries if nothing else was done.
OneList ==
  mishaps \subseteq {"Moved"} => \E list \in Seq(Entry) : InForce(list) /\ (Clean => Serial(list))

GInv == Counted /\ Fresh /\ Present /\ OneList

\* A look at the head changes nothing of a list but a number, and is published
\* if it changes anything.
Renumbered(x, q) ==
  /\ x.queue \in Lists /\ x.queue.cursor = q.cursor
  /\ Len(x.queue.items) = Len(q.items)
  /\ \A i \in 1 .. Len(q.items) : x.queue.items[i].owner = q.items[i].owner
  /\ \/ x.lists = << >> /\ x.queue = q
     \/ x.lists = <<x.queue.items>>

LEMMA ReactionLists ==
  ASSUME NEW p, NEW q \in Lists, NEW s \in 0 .. MaxSeq, NEW r \in Runs
  PROVE  Renumbered(Reaction(p, q, s, r), q)
<1> DEFINE stream == [id |-> Current(q).id, first |-> s, at |-> "on"]
           numbered == [Current(q) EXCEPT !.first = s]
           started == SetCurrent(q, numbered)
<1>0. MaxSeq \in Nat
  BY QueueGossipAssumption
<1>1. CASE ~Mine(p, q) \/ r = stream
  <2>1. Reaction(p, q, s, r).queue = q /\ Reaction(p, q, s, r).lists = << >>
    BY <1>1 DEF Reaction
  <2> QED BY <2>1 DEF Renumbered
<1>2. CASE Mine(p, q) /\ r # stream
  <2>1. Reaction(p, q, s, r) = [queue |-> started, run |-> stream, lists |-> <<started.items>>]
    BY <1>2 DEF Reaction, started, numbered
  <2>2. /\ q = [items |-> q.items, cursor |-> q.cursor] /\ HasCurrent(q)
        /\ q.items \in Seq(Entry) /\ q.cursor \in 1 .. Len(q.items) /\ q.cursor \in Nat
        /\ Current(q) \in Entry /\ Current(q) = q.items[q.cursor]
    BY <1>2 DEF Mine, HasCurrent, Current, Positions, Lists
  <2>3. numbered \in Entry /\ numbered.owner = Current(q).owner
    BY <1>0, <2>2 DEF Entry
  <2> HIDE DEF numbered
  <2>4. started \in Lists
    BY <2>2, <2>3, SetCurrentResult
  <2>5. started = [items |-> [q.items EXCEPT ![q.cursor] = numbered], cursor |-> q.cursor]
    BY <2>2 DEF SetCurrent
  <2>6. /\ Len([q.items EXCEPT ![q.cursor] = numbered]) = Len(q.items)
        /\ \A i \in 1 .. Len(q.items) :
             [q.items EXCEPT ![q.cursor] = numbered][i] = IF i = q.cursor THEN numbered ELSE q.items[i]
    BY <2>2, <2>3, ExceptSeq
  <2>7. started.cursor = q.cursor /\ started.items = [q.items EXCEPT ![q.cursor] = numbered]
    BY <2>5
  <2> HIDE DEF started, stream
  <2>8. Reaction(p, q, s, r).queue = started /\ Reaction(p, q, s, r).lists = <<started.items>>
    BY <2>1
  <2>9. \A i \in 1 .. Len(q.items) : started.items[i].owner = q.items[i].owner
    BY <2>2, <2>3, <2>6, <2>7
  <2> QED BY <2>4, <2>6, <2>7, <2>8, <2>9 DEF Renumbered
<1> QED BY <1>1, <1>2

\* Two lists published are two.
LEMMA TwoInRow ==
  ASSUME NEW S, NEW a \in S, NEW b \in S
  PROVE  Len(<<a>> \o <<b>>) = 2 /\ (<<a>> \o <<b>>)[1] = a /\ (<<a>> \o <<b>>)[2] = b
<1>1. <<a>> \in Seq(S) /\ <<b>> \in Seq(S) /\ Len(<<a>>) = 1 /\ Len(<<b>>) = 1
  OBVIOUS
<1>2. /\ Len(<<a>> \o <<b>>) = Len(<<a>>) + Len(<<b>>)
      /\ \A i \in 1 .. Len(<<a>>) + Len(<<b>>) :
           (<<a>> \o <<b>>)[i] = IF i <= Len(<<a>>) THEN <<a>>[i] ELSE <<b>>[i - Len(<<a>>)]
  BY <1>1, ConcatProperties
<1> QED BY <1>1, <1>2

\* The greater of two numbers.
LEMMA MaxIs == ASSUME NEW a \in Nat, NEW b \in Nat
               PROVE Max({a, b}) \in {a, b} /\ Max({a, b}) >= a /\ Max({a, b}) >= b
<1>1. \E x \in {a, b} : \A y \in {a, b} : x >= y
  OBVIOUS
<1> QED BY <1>1 DEF Max

\* What a handler at p does to the lists when it publishes nothing.
Silent(p, q, rest, n) ==
  /\ queue'[p] = q /\ net' = rest /\ sent' = sent
  /\ newest'[p] \in {n, newest[p]} /\ newest'[p] >= n /\ newest'[p] >= newest[p]

\* What it does when it publishes: the last update carries its own list, new.
Publishes(p, q, new, rest) ==
  /\ queue'[p] = new /\ sent' > sent /\ newest'[p] = sent'
  /\ rest \subseteq net'
  /\ \A m \in net' : m \in rest \/ /\ m.to = inside \ {p} /\ m.n > sent /\ m.n <= sent'
                                   /\ m.items \in {q.items, new.items}
                                   /\ m.n = sent' => m.items = new.items
  /\ \A o \in inside \ {p} : \E m \in net' : o \in m.to /\ m.n = sent'

\* GoOn is one or the other.
LEMMA GoOnGives ==
  ASSUME IInv, Counted, NEW p \in inside, NEW q \in Lists, NEW s \in 0 .. MaxSeq, NEW r \in Runs,
         NEW published \in {<< >>, <<q.items>>}, NEW rest, rest \subseteq Messages,
         \A m \in rest : m.n <= sent, NEW n \in 0 .. sent, GoOn(p, q, s, r, published, rest, n)
  PROVE  \E new \in Lists :
           /\ new.cursor = q.cursor /\ Len(new.items) = Len(q.items)
           /\ \A i \in 1 .. Len(q.items) : new.items[i].owner = q.items[i].owner
           /\ \A o \in Peer \ {p} : queue'[o] = queue[o] /\ newest'[o] = newest[o]
           /\ Counted'
           /\ \/ published = << >> /\ Silent(p, q, rest, n)
              \/ Publishes(p, q, new, rest)
<1> DEFINE x == Reaction(p, q, s, r)
           all == published \o x.lists
           others == inside \ {p}
           fresh == {[n |-> sent + i, items |-> all[i], to |-> others, has |-> {p}] : i \in DOMAIN all}
           top == IF all # << >> THEN sent' ELSE Max({n, newest[p]})
<1>0. /\ queue \in [Peer -> Lists] /\ newest \in [Peer -> Nat] /\ sent \in Nat /\ p \in Peer
      /\ newest[p] \in Nat /\ n \in Nat /\ newest[p] <= sent /\ q.items \in Seq(Entry)
  BY DEF IInv, TypeOK, Lists, Counted
<1>1. /\ queue' = [queue EXCEPT ![p] = x.queue]
      /\ net' = rest \union IF others = {} THEN {} ELSE fresh
      /\ sent' = sent + Len(all)
      /\ newest' = [newest EXCEPT ![p] = top]
  BY <1>0 DEF GoOn
<1>2. /\ x.queue \in Lists /\ x.queue.cursor = q.cursor /\ Len(x.queue.items) = Len(q.items)
      /\ \A i \in 1 .. Len(q.items) : x.queue.items[i].owner = q.items[i].owner
      /\ \/ x.lists = << >> /\ x.queue = q
         \/ x.lists = <<x.queue.items>>
  <2>1. Renumbered(x, q)
    BY ReactionLists
  <2> HIDE DEF x
  <2> QED BY <2>1 DEF Renumbered
<1> DEFINE new == x.queue
           added == x.lists
<1>a. sent' = sent + Len(all)
  BY <1>1
<1>3. /\ new.items \in Seq(Entry)
      /\ (added = << >> /\ new = q) \/ added = <<new.items>>
      /\ all = published \o added
  BY <1>2 DEF Lists
<1>4. queue' = [queue EXCEPT ![p] = new] /\ new \in Lists /\ x.queue = new
  BY <1>1, <1>2
<1> HIDE DEF new, added, x, all
<1>5. /\ Len(all) \in Nat /\ DOMAIN all = 1 .. Len(all)
      /\ all = << >> => Len(all) = 0 /\ published = << >> /\ new = q
      /\ all # << >> => Len(all) > 0 /\ all[Len(all)] = new.items
      /\ \A i \in 1 .. Len(all) : all[i] \in {q.items, new.items}
  <2>1. CASE published = << >> /\ added = << >>
    <3>1. all = << >>
      BY <1>3, <2>1
    <3> QED BY <1>3, <2>1, <3>1
  <2>2. CASE published = << >> /\ added = <<new.items>>
    <3>1. all = <<new.items>>
      BY <1>3, <2>2
    <3> QED BY <3>1
  <2>3. CASE published = <<q.items>> /\ added = << >>
    <3>1. all = <<new.items>>
      BY <1>3, <2>3
    <3> QED BY <3>1
  <2>4. CASE published = <<q.items>> /\ added = <<new.items>>
    <3>1. q.items \in Seq(Entry) /\ new.items \in Seq(Entry) /\ all = <<q.items>> \o <<new.items>>
      BY <1>0, <1>3, <2>4
    <3>2. Len(all) = 2 /\ all[1] = q.items /\ all[2] = new.items
      BY <3>1, TwoInRow
    <3> QED BY <3>1, <3>2
  <2> QED BY <1>3, <2>1, <2>2, <2>3, <2>4
<1>6. /\ queue'[p] = new /\ newest'[p] = top
      /\ \A o \in Peer \ {p} : queue'[o] = queue[o] /\ newest'[o] = newest[o]
  BY <1>0, <1>1, <1>4
<1>7. \A m \in fresh : \E i \in 1 .. Len(all) : m.n = sent + i /\ m.items = all[i] /\ m.to = others
  BY <1>5
<1>8. others # {} => \A i \in 1 .. Len(all) : \E m \in net' : m.n = sent + i /\ m.to = others
  <2>1. ASSUME NEW i \in 1 .. Len(all), others # {} PROVE \E m \in net' : m.n = sent + i /\ m.to = others
    <3> DEFINE m == [n |-> sent + i, items |-> all[i], to |-> others, has |-> {p}]
    <3>1. m \in net' /\ m.n = sent + i /\ m.to = others
      BY <1>1, <1>5, <2>1
    <3> HIDE DEF m
    <3> QED BY <3>1
  <2> QED BY <2>1
<1>9. net' \subseteq rest \union fresh /\ rest \subseteq net' /\ (all = << >> => net' = rest)
  <2>1. all = << >> => fresh = {}
    BY <1>5, <1>7
  <2> QED BY <1>1, <2>1
<1> HIDE DEF fresh
<1>10. CASE all = << >>
  <2>1. sent' = sent /\ published = << >> /\ new = q
    BY <1>0, <1>1, <1>5, <1>10
  <2>2. top \in {n, newest[p]} /\ top >= n /\ top >= newest[p]
    BY <1>0, <1>10, MaxIs
  <2> HIDE DEF top
  <2>3. Silent(p, q, rest, n)
    BY <1>6, <1>9, <1>10, <2>1, <2>2 DEF Silent
  <2>4. Counted'
    <3>1. newest'[p] <= sent'
      BY <1>0, <1>6, <2>1, <2>2
    <3> QED BY <1>6, <1>9, <1>10, <2>1, <3>1 DEF Counted
  <2> QED BY <1>2, <1>4, <1>6, <2>1, <2>3, <2>4
<1>11. CASE all # << >>
  <2>1. sent' > sent /\ sent' \in Nat /\ newest'[p] = sent'
    BY <1>0, <1>1, <1>5, <1>6, <1>11
  <2>2. \A m \in net' : m \in rest \/ /\ m.to = inside \ {p} /\ m.n > sent /\ m.n <= sent'
                                      /\ m.items \in {q.items, new.items}
                                      /\ m.n = sent' => m.items = new.items
    <3>1. SUFFICES ASSUME NEW m \in net', m \notin rest
                   PROVE  /\ m.to = inside \ {p} /\ m.n > sent /\ m.n <= sent'
                          /\ m.items \in {q.items, new.items}
                          /\ m.n = sent' => m.items = new.items
      OBVIOUS
    <3>2. PICK i \in 1 .. Len(all) : m.n = sent + i /\ m.items = all[i] /\ m.to = others
      BY <1>7, <1>9, <3>1
    <3>3. sent + i > sent /\ sent + i <= sent' /\ (sent + i = sent' => i = Len(all))
      <4>1. i \in Nat /\ i > 0 /\ i <= Len(all) /\ Len(all) \in Nat
        BY <1>5
      <4> QED BY <1>0, <1>a, <4>1
    <3>4. all[i] \in {q.items, new.items} /\ all[Len(all)] = new.items
      BY <1>5, <1>11
    <3>5. m.items = all[i] /\ m.to = inside \ {p} /\ m.n = sent + i
      BY <3>2
    <3> HIDE DEF others
    <3> QED BY <3>3, <3>4, <3>5
  <2>3. \A o \in inside \ {p} : \E m \in net' : o \in m.to /\ m.n = sent'
    <3>1. Len(all) \in 1 .. Len(all)
      BY <1>5, <1>11
    <3> QED BY <1>1, <1>8, <3>1
  <2>4. Publishes(p, q, new, rest)
    BY <1>6, <1>9, <2>1, <2>2, <2>3 DEF Publishes
  <2>5. Counted'
    <3>1. \A m \in net' : m.n <= sent'
      <4>1. \A m \in rest : m.n \in Nat
        BY DEF Messages
      <4> QED BY <1>0, <2>1, <2>2, <4>1
    <3>2. \A o \in Peer : newest'[o] <= sent'
      <4>1. \A o \in Peer \ {p} : newest[o] <= sent /\ newest[o] \in Nat
        BY <1>0 DEF Counted
      <4> QED BY <1>0, <1>6, <2>1, <4>1
    <3> QED BY <3>1, <3>2 DEF Counted
  <2> QED BY <1>2, <1>4, <1>6, <2>4, <2>5
<1> QED BY <1>10, <1>11

\* An update on its way was made by an earlier publication, so a daemon that has
\* just published may have none on its way to it if all is clean.
LEMMA CleanBefore ==
  ASSUME IInv, NEW rest, rest \subseteq net', Clean', mishaps \subseteq mishaps',
         newest' \in [Peer -> Nat], \A o \in Peer : newest[o] <= newest'[o],
         \A m \in net, o \in Peer : o \in m.to =>
           \/ newest[o] <= m.n
           \/ \E x \in rest : o \in x.to /\ x.n = m.n
  PROVE  Clean
<1>1. mishaps = {}
  BY DEF Clean, InTurn
<1>2. ASSUME NEW m \in net, NEW o \in m.to PROVE newest[o] <= m.n
  <2>1. o \in Peer /\ newest[o] \in Nat /\ newest'[o] \in Nat /\ m.n \in Nat
    BY DEF IInv, TypeOK
  <2>2. newest[o] <= newest'[o]
    BY <2>1
  <2>3. CASE \E x \in rest : o \in x.to /\ x.n = m.n
    <3>1. PICK x \in rest : o \in x.to /\ x.n = m.n
      BY <2>3
    <3>2. newest'[o] <= x.n
      BY <3>1 DEF Clean, InTurn
    <3> QED BY <2>1, <2>2, <3>1, <3>2
  <2> QED BY <2>1, <2>3
<1> QED BY <1>1, <1>2 DEF Clean, InTurn

\* The owners of a longer list's first entries are those of a shorter one's.
LEMMA BeginsOn ==
  ASSUME NEW s \in Seq(Entry), NEW t \in Seq(Entry), NEW u \in Seq(Entry), Begins(s, t), Begins(t, u)
  PROVE  Begins(s, u)
<1>1. Len(s) \in Nat /\ Len(t) \in Nat /\ Len(u) \in Nat
  OBVIOUS
<1> QED BY <1>1 DEF Begins

\* Who publishes puts its own list in force.
LEMMA PublishKeeps ==
  ASSUME IInv, Counted, NEW p \in inside, NEW q \in Lists, NEW new \in Lists,
         NEW rest, rest \subseteq Messages, \A m \in rest : m.n <= sent,
         Publishes(p, q, new, rest), inside' = inside,
         \A o \in Peer \ {p} : queue'[o] = queue[o],
         Begins(q.items, new.items), OwnBefore(p, q) => OwnBefore(p, new),
         Clean' => /\ OwnBefore(p, q) /\ \A m \in rest : Begins(m.items, q.items)
                   /\ \A o \in inside \ {p} : Begins(queue[o].items, q.items) /\ OwnBefore(o, queue[o])
  PROVE  OneList'
<1>0. /\ new.items \in Seq(Entry) /\ q.items \in Seq(Entry) /\ sent \in Nat /\ inside \subseteq Peer
      /\ \A o \in Peer : queue[o].items \in Seq(Entry)
      /\ \A m \in rest : m.items \in Seq(Entry) /\ m.n \in Nat
  BY DEF IInv, TypeOK, Lists, Messages
<1>1. /\ queue'[p] = new /\ sent' > sent /\ newest'[p] = sent'
      /\ \A m \in net' : m \in rest \/ /\ m.items \in {q.items, new.items}
                                       /\ m.n = sent' => m.items = new.items
      /\ \A o \in inside \ {p} : \E m \in net' : o \in m.to /\ m.n = sent'
  BY DEF Publishes
<1>2. InForce(new.items)'
  <2>1. \A o \in inside' : Holds(o, new.items)' \/ Awaits(o)'
    BY <1>1 DEF Holds, Awaits
  <2>2. \A m \in net' : m.n = sent' => m.items = new.items
    <3>1. ASSUME NEW m \in rest, m.n = sent', m.n <= sent PROVE FALSE
      <4>1. m.n \in Nat
        BY <1>0
      <4> QED BY <1>0, <1>1, <3>1, <4>1
    <3> QED BY <1>1, <3>1
  <2> QED BY <2>1, <2>2 DEF InForce
<1>3. ASSUME Clean' PROVE Serial(new.items)'
  <2>1. Begins(new.items, new.items)
    BY <1>0 DEF Begins
  <2>2. OwnBefore(p, new)
    BY <1>3
  <2>3. ASSUME NEW o \in inside \ {p}
        PROVE  Begins(queue'[o].items, new.items) /\ OwnBefore(o, queue'[o])
    <3>1. queue'[o] = queue[o] /\ queue[o].items \in Seq(Entry)
      BY <1>0
    <3> QED BY <1>0, <1>3, <3>1, BeginsOn
  <2>4. ASSUME NEW m \in net' PROVE Begins(m.items, new.items)
    <3>1. CASE m \in rest
      BY <1>0, <1>3, <3>1, BeginsOn
    <3> QED BY <1>1, <2>1, <3>1
  <2>5. \A o \in inside : Begins(queue'[o].items, new.items) /\ OwnBefore(o, queue'[o])
    BY <1>1, <2>1, <2>2, <2>3
  <2> QED BY <2>4, <2>5 DEF Serial
<1> QED BY <1>0, <1>2, <1>3 DEF OneList

\* What a reaction at the head leaves of a list, in the terms of Serial.
LEMMA ReactionOwners ==
  ASSUME NEW p, NEW q \in Lists, NEW new \in Lists, new.cursor = q.cursor,
         Len(new.items) = Len(q.items),
         \A i \in 1 .. Len(q.items) : new.items[i].owner = q.items[i].owner
  PROVE  Begins(q.items, new.items) /\ (OwnBefore(p, q) => OwnBefore(p, new))
<1>1. Len(q.items) \in Nat
  BY DEF Lists
<1> QED BY <1>1 DEF Begins, OwnBefore

\* An own change of p's list, from queue[p] to q, before the look at the head:
\* it is published if it changes the entries, and if it does more than add own
\* entries or move past one, it is noted.
LEMMA OwnChange ==
  ASSUME IInv, GInv, NEW p \in inside, NEW q \in Lists, NEW s \in 0 .. MaxSeq, NEW r \in Runs,
         NEW published \in {<< >>, <<q.items>>}, GoOn(p, q, s, r, published, net, 0),
         inside' = inside, mishaps \subseteq mishaps', newest' \in [Peer -> Nat],
         published = << >> => q.items = queue[p].items,
         mishaps' = {} => /\ Begins(queue[p].items, q.items)
                          /\ OwnBefore(p, queue[p]) => OwnBefore(p, q)
  PROVE  GInv'
<1>0. /\ queue \in [Peer -> Lists] /\ newest \in [Peer -> Nat] /\ sent \in Nat
      /\ inside \subseteq Peer /\ p \in Peer /\ net \subseteq Messages /\ q.items \in Seq(Entry)
      /\ 0 \in 0 .. sent /\ \A m \in net : m.n <= sent
      /\ \A m \in net : m.items \in Seq(Entry) /\ m.n \in Nat /\ m.to \subseteq Peer
      /\ \A o \in Peer : queue[o].items \in Seq(Entry)
  BY DEF IInv, TypeOK, Lists, Messages, GInv, Counted
<1>1. PICK new \in Lists :
           /\ new.cursor = q.cursor /\ Len(new.items) = Len(q.items)
           /\ \A i \in 1 .. Len(q.items) : new.items[i].owner = q.items[i].owner
           /\ \A o \in Peer \ {p} : queue'[o] = queue[o] /\ newest'[o] = newest[o]
           /\ Counted'
           /\ \/ published = << >> /\ Silent(p, q, net, 0)
              \/ Publishes(p, q, new, net)
  BY <1>0, GoOnGives DEF GInv
<1>2. Begins(q.items, new.items) /\ (OwnBefore(p, q) => OwnBefore(p, new))
  BY <1>1, ReactionOwners
<1>3. Fresh' /\ Present'
  BY <1>0, <1>1 DEF GInv, Fresh, Present
<1>4. ASSUME mishaps' \subseteq {"Moved"} PROVE OneList'
  <2>1. PICK list \in Seq(Entry) : InForce(list) /\ (Clean => Serial(list))
    BY <1>4 DEF GInv, OneList
  <2>2. CASE published = << >> /\ Silent(p, q, net, 0)
    <3>1. /\ queue'[p] = q /\ net' = net /\ sent' = sent /\ newest'[p] = newest[p]
          /\ q.items = queue[p].items
      <4>1. newest[p] \in Nat /\ newest'[p] \in {0, newest[p]} /\ newest'[p] >= newest[p]
        BY <1>0, <2>2 DEF Silent
      <4> QED BY <2>2, <4>1 DEF Silent
    <3>2. \A o \in Peer : queue'[o].items = queue[o].items /\ newest'[o] = newest[o]
      BY <1>1, <3>1
    <3>3. InForce(list)'
      BY <1>0, <2>1, <3>1, <3>2 DEF InForce, Holds, Awaits, HasNone
    <3>4. ASSUME Clean' PROVE Serial(list)'
      <4>1. mishaps' = {} /\ mishaps = {} /\ Clean
        BY <1>0, <3>1, <3>2, <3>4 DEF Clean, InTurn
      <4>2. Serial(list)
        BY <2>1, <4>1
      <4>3. OwnBefore(p, q)
        BY <4>1, <4>2 DEF Serial
      <4> QED BY <1>0, <1>1, <3>1, <3>2, <4>2, <4>3 DEF Serial
    <3> QED BY <3>3, <3>4 DEF OneList
  <2>3. CASE Publishes(p, q, new, net)
    <3>1. ASSUME Clean'
          PROVE  /\ OwnBefore(p, q) /\ \A m \in net : Begins(m.items, q.items)
                 /\ \A o \in inside \ {p} : Begins(queue[o].items, q.items) /\ OwnBefore(o, queue[o])
      <4>1. net \subseteq net' /\ newest'[p] = sent' /\ sent' > sent
        BY <2>3 DEF Publishes
      <4>2. newest'[p] > newest[p]
        BY <1>0, <4>1 DEF GInv, Counted
      <4>3. \A o \in Peer : newest[o] <= newest'[o]
        <5>1. newest[p] \in Nat /\ newest'[p] \in Nat
          BY <1>0
        <5>2. \A o \in Peer \ {p} : newest[o] \in Nat /\ newest'[o] = newest[o]
          BY <1>0, <1>1
        <5> QED BY <4>2, <5>1, <5>2
      <4>4. mishaps' = {}
        BY <3>1 DEF Clean, InTurn
      <4>5. \A m \in net, o \in Peer : o \in m.to => \E x \in net : o \in x.to /\ x.n = m.n
        OBVIOUS
      <4>6. Clean
        BY <3>1, <4>1, <4>3, <4>5, CleanBefore
      <4>7. Serial(list)
        BY <2>1, <4>6
      <4>8. HasNone(p)
        <5>1. ASSUME NEW m \in net, p \in m.to PROVE FALSE
          <6>1. newest'[p] <= m.n
            BY <3>1, <4>1, <5>1 DEF Clean, InTurn
          <6>2. m.n \in Nat /\ m.n <= sent /\ sent' \in Nat
            BY <1>0, <4>1
          <6> QED BY <1>0, <4>1, <6>1, <6>2
        <5> QED BY <5>1 DEF HasNone
      <4>9. list = queue[p].items
        BY <2>1, <4>8 DEF InForce, Holds, Awaits, HasNone
      <4>10. Begins(list, q.items) /\ OwnBefore(p, q)
        BY <4>4, <4>7, <4>9 DEF Serial
      <4>11. ASSUME NEW m \in net PROVE Begins(m.items, q.items)
        BY <1>0, <4>7, <4>10, BeginsOn DEF Serial
      <4>12. ASSUME NEW o \in inside \ {p} PROVE Begins(queue[o].items, q.items) /\ OwnBefore(o, queue[o])
        <5>1. queue[o].items \in Seq(Entry)
          BY <1>0
        <5> QED BY <1>0, <4>7, <4>10, <5>1, BeginsOn DEF Serial
      <4> QED BY <4>10, <4>11, <4>12
    <3>2. \A o \in Peer \ {p} : queue'[o] = queue[o]
      BY <1>1
    <3> QED BY <1>0, <1>2, <2>3, <3>1, <3>2, PublishKeeps DEF GInv
  <2> QED BY <1>1, <2>2, <2>3
<1> QED BY <1>1, <1>3, <1>4 DEF GInv, OneList

-----------------------------------------------------------------------------
\* Nobody has a list, nothing was published.
LEMMA InitGInv == Init => GInv
<1> SUFFICES ASSUME Init PROVE GInv
  OBVIOUS
<1>1. Counted /\ Fresh /\ Present
  BY QueueGossipAssumption DEF Init, Counted, Fresh, Present
<1>2. InForce(<< >>)
  BY QueueGossipAssumption DEF Init, InForce, Holds, HasNone, EmptyQueue
<1>3. Serial(<< >>)
  <2>1. net = {} /\ inside \subseteq Peer /\ \A p \in Peer : queue[p].items = << >> /\ queue[p].cursor = 0
    BY QueueGossipAssumption DEF Init, EmptyQueue
  <2>2. ASSUME NEW p \in inside PROVE Begins(queue[p].items, << >>) /\ OwnBefore(p, queue[p])
    <3>1. queue[p].items = << >> /\ queue[p].cursor = 0 /\ Len(<< >>) = 0
      BY <2>1
    <3>2. 1 .. 0 = {}
      OBVIOUS
    <3> DEFINE none == << >>
    <3>3. queue[p].items = none /\ Len(none) = 0
      BY <3>1
    <3> HIDE DEF none
    <3>4. Begins(queue[p].items, none)
      BY <3>2, <3>3 DEF Begins
    <3>5. OwnBefore(p, queue[p])
      BY <3>1, <3>2, <3>3 DEF OwnBefore
    <3> QED BY <3>4, <3>5 DEF none
  <2> QED BY <2>1, <2>2 DEF Serial
<1>4. OneList
  <2> DEFINE none == << >>
  <2>1. none \in Seq(Entry) /\ InForce(none) /\ Serial(none)
    BY <1>2, <1>3
  <2> HIDE DEF none
  <2> QED BY <2>1 DEF OneList
<1> QED BY <1>1, <1>4 DEF GInv

\* An own entry at the end.
LEMMA AppendShares ==
  ASSUME IInv, IInv', GInv, NEW p \in Peer, AppendCmd(p) PROVE GInv'
<1> DEFINE e == [id |-> commands + 1, owner |-> p, first |-> 0]
           q == AppendEntry(queue[p], e)
<1>1. Command(p) /\ GoOn(p, q, seq[p], run[p], <<q.items>>, net, 0) /\ mishaps' = mishaps
  BY DEF AppendCmd
<1>2. p \in inside /\ inside' = inside
  BY <1>1 DEF Command
<1>3. e \in Entry /\ e.owner = p
  BY <1>1, QueueGossipAssumption DEF Command, Entry, IInv, TypeOK
<1>4. q \in Lists
  BY <1>3, Typed, OperationsTyped
<1> HIDE DEF e
<1>5. /\ queue[p].items \in Seq(Entry) /\ queue[p].cursor \in Nat
      /\ q.items = Append(queue[p].items, e)
      /\ q.cursor = IF queue[p].cursor = 0 THEN Len(queue[p].items) + 1 ELSE queue[p].cursor
  BY Typed DEF Lists, AppendEntry
<1> HIDE DEF q
<1>6. /\ Len(queue[p].items) \in Nat /\ Len(q.items) = Len(queue[p].items) + 1
      /\ \A i \in 1 .. Len(queue[p].items) : q.items[i] = queue[p].items[i]
      /\ q.items[Len(queue[p].items) + 1] = e
  BY <1>3, <1>5
<1>7. Begins(queue[p].items, q.items)
  BY <1>6 DEF Begins
<1>8. ASSUME OwnBefore(p, queue[p]) PROVE OwnBefore(p, q)
  <2>1. q.cursor <= Len(q.items) /\ q.cursor \in Nat /\ q.cursor > 0
    BY <1>5, <1>6, <1>8 DEF OwnBefore
  <2>2. ASSUME NEW i \in 1 .. Len(q.items), i < q.cursor PROVE q.items[i].owner = p
    <3>1. CASE queue[p].cursor = 0
      BY <1>5, <1>6, <1>8, <2>2, <3>1 DEF OwnBefore
    <3>2. CASE queue[p].cursor # 0
      BY <1>5, <1>6, <1>8, <2>2, <3>2 DEF OwnBefore
    <3> QED BY <3>1, <3>2
  <2> QED BY <2>1, <2>2 DEF OwnBefore
<1>9. newest' \in [Peer -> Nat] /\ seq[p] \in 0 .. MaxSeq /\ run[p] \in Runs
  BY Typed DEF IInv, TypeOK
<1> QED BY <1>1, <1>2, <1>4, <1>7, <1>8, <1>9, OwnChange

\* An entry removed is noted.
LEMMA RemoveShares ==
  ASSUME IInv, IInv', GInv, NEW p \in Peer, NEW i \in Positions(queue[p]), RemoveCmd(p, i) PROVE GInv'
<1> DEFINE q == RemoveEntry(queue[p], i)
<1>1. /\ p \in inside /\ inside' = inside /\ mishaps' = mishaps \union {"Moved"}
      /\ GoOn(p, q, seq[p], run[p], <<q.items>>, net, 0)
  BY DEF RemoveCmd, Command, Note
<1>2. q \in Lists
  BY Typed, OperationsTyped
<1> HIDE DEF q
<1>3. newest' \in [Peer -> Nat] /\ seq[p] \in 0 .. MaxSeq /\ run[p] \in Runs
  BY Typed DEF IInv, TypeOK
<1> QED BY <1>1, <1>2, <1>3, OwnChange

\* An entry skipped is noted.
LEMMA SkipNextShares == ASSUME IInv, IInv', GInv, NEW p \in Peer, SkipNextCmd(p) PROVE GInv'
<1> DEFINE q == Advance(queue[p])
           r == IF run[p].at = "on" THEN Off ELSE run[p]
           published == IF CanAdvance(queue[p]) THEN <<q.items>> ELSE << >>
           made == IF Mine(p, queue[p]) /\ run[p].at = "on" THEN {seq[p], run[p].first + 1} ELSE {seq[p]}
<1>1. /\ p \in inside /\ inside' = inside /\ mishaps' = mishaps \union {"Moved"}
      /\ seq[p] < MaxSeq /\ \E s \in made : GoOn(p, q, s, r, published, net, 0)
  BY DEF SkipNextCmd, Command, Note
<1>2. made \subseteq 0 .. MaxSeq /\ r \in Runs
  BY <1>1, Typed
<1>3. q \in Lists /\ q.items = queue[p].items
  BY Typed, OperationsTyped DEF Advance
<1>4. published \in {<< >>, <<q.items>>}
  OBVIOUS
<1> HIDE DEF made, r, published, q
<1>5. PICK s \in 0 .. MaxSeq : GoOn(p, q, s, r, published, net, 0)
  BY <1>1, <1>2
<1>6. newest' \in [Peer -> Nat]
  BY DEF IInv, TypeOK
<1> QED BY <1>1, <1>2, <1>3, <1>4, <1>5, <1>6, OwnChange

\* The cursor moves past an own entry.
LEMMA PlayerEndsShares == ASSUME IInv, IInv', GInv, NEW p \in Peer, PlayerEnds(p) PROVE GInv'
<1> DEFINE q == Advance(queue[p])
<1>1. /\ run[p].at = "ended" /\ inside' = inside /\ mishaps' = mishaps
      /\ \/ Mine(p, queue[p]) /\ GoOn(p, q, seq[p], Off, << >>, net, 0)
         \/ UNCHANGED lists
  BY DEF PlayerEnds
<1>2. /\ p \in inside /\ q \in Lists /\ Off \in Runs /\ seq[p] \in 0 .. MaxSeq
      /\ queue[p].items \in Seq(Entry) /\ queue[p].cursor \in Nat /\ newest' \in [Peer -> Nat]
  BY <1>1, Typed, OperationsTyped DEF Lists, IInv, TypeOK
<1>3. /\ q.items = queue[p].items
      /\ q.cursor = IF CanAdvance(queue[p]) THEN queue[p].cursor + 1 ELSE 0
  BY DEF Advance
<1> HIDE DEF q
<1>4. CASE Mine(p, queue[p]) /\ GoOn(p, q, seq[p], Off, << >>, net, 0)
  <2>1. Begins(queue[p].items, q.items)
    BY <1>2, <1>3 DEF Begins
  <2>2. ASSUME OwnBefore(p, queue[p]) PROVE OwnBefore(p, q)
    <3>1. /\ queue[p].cursor \in 1 .. Len(queue[p].items) /\ Len(queue[p].items) \in Nat
          /\ queue[p].items[queue[p].cursor].owner = p
      BY <1>2, <1>4 DEF Mine, HasCurrent, Current, Positions
    <3>2. \A i \in 1 .. Len(queue[p].items) : i <= queue[p].cursor => queue[p].items[i].owner = p
      BY <2>2, <3>1 DEF OwnBefore
    <3> QED BY <1>2, <1>3, <3>1, <3>2 DEF OwnBefore, CanAdvance
  <2> QED BY <1>1, <1>2, <1>3, <1>4, <2>1, <2>2, OwnChange
<1>5. CASE UNCHANGED lists
  BY <1>1, <1>5 DEF lists, GInv, Counted, Fresh, Present, OneList, InForce, Holds, Awaits, HasNone,
                    Clean, InTurn, Serial
<1> QED BY <1>1, <1>4, <1>5

\* No list changes.
LEMMA StillShares ==
  ASSUME GInv, UNCHANGED <<lists, inside, mishaps>> PROVE GInv'
BY DEF lists, GInv, Counted, Fresh, Present, OneList, InForce, Holds, Awaits, HasNone, Clean, InTurn, Serial

\* A joiner starts with the creator's list, or what it missed is noted.
LEMMA EnterShares == ASSUME IInv, IInv', GInv, NEW p \in Peer, Enter(p) PROVE GInv'
<1> DEFINE q == ReplaceEntries(queue[p], snapshot[p])
<1>1. /\ p \notin inside /\ snapshot[p] # None
      /\ queue' = [queue EXCEPT ![p] = q] /\ inside' = inside \union {p}
      /\ UNCHANGED <<net, newest, sent>>
      /\ Note(snapshot[p] # queue[Creator].items \/ \E m \in net : Creator \in m.to, "Missed")
  BY DEF Enter
<1>2. queue[p] = EmptyQueue /\ snapshot[p] \in Seq(Entry)
  BY <1>1, Typed DEF GInv, Fresh
<1>3. /\ q.items = snapshot[p] /\ q.cursor = IF snapshot[p] = << >> THEN 0 ELSE 1
  BY <1>2 DEF ReplaceEntries, EmptyQueue
<1> HIDE DEF q
<1>4. /\ queue'[p] = q /\ \A o \in Peer \ {p} : queue'[o] = queue[o]
      /\ inside \subseteq Peer /\ Creator \in inside /\ HasNone(p)
  BY <1>1 DEF IInv, TypeOK, GInv, Present, ToInside, HasNone
<1>5. Counted' /\ Fresh' /\ Present'
  BY <1>1, <1>4 DEF GInv, Counted, Fresh, Present
<1>6. ASSUME mishaps' \subseteq {"Moved"} PROVE OneList'
  <2>1. /\ mishaps' = mishaps /\ snapshot[p] = queue[Creator].items
        /\ \A m \in net : Creator \notin m.to
    BY <1>1, <1>6 DEF Note
  <2>2. PICK list \in Seq(Entry) : InForce(list) /\ (Clean => Serial(list))
    BY <1>6, <2>1 DEF GInv, OneList
  <2>3. snapshot[p] = list
    BY <1>4, <2>1, <2>2 DEF InForce, Holds, Awaits
  <2>4. InForce(list)'
    <3>1. Holds(p, list)'
      BY <1>1, <1>3, <1>4, <2>3 DEF Holds, HasNone
    <3>2. ASSUME NEW o \in inside PROVE Holds(o, list)' \/ Awaits(o)'
      BY <1>1, <1>4, <2>2 DEF InForce, Holds, Awaits, HasNone
    <3> QED BY <1>1, <2>2, <3>1, <3>2 DEF InForce
  <2>5. ASSUME Clean' PROVE Serial(list)'
    <3>1. Serial(list)
      BY <1>1, <2>1, <2>2, <2>5 DEF Clean, InTurn
    <3>2. Begins(q.items, list) /\ OwnBefore(p, q)
      <4>1. Len(list) \in Nat /\ (list # << >> => Len(list) >= 1)
        OBVIOUS
      <4> QED BY <1>3, <2>3, <4>1 DEF Begins, OwnBefore
    <3>3. ASSUME NEW o \in inside PROVE Begins(queue'[o].items, list) /\ OwnBefore(o, queue'[o])
      BY <1>1, <1>4, <3>1 DEF Serial
    <3> QED BY <1>1, <1>4, <3>1, <3>2, <3>3 DEF Serial
  <2> QED BY <2>4, <2>5 DEF OneList
<1> QED BY <1>5, <1>6 DEF GInv, OneList

\* The position is kept, or cut off: it passes nothing it had not passed.
LEMMA ReplaceOwn ==
  ASSUME NEW p, NEW q \in Lists, NEW s \in Seq(Entry), NEW list \in Seq(Entry),
         Begins(q.items, list), Begins(s, list), OwnBefore(p, q)
  PROVE  OwnBefore(p, ReplaceEntries(q, s))
<1> DEFINE new == ReplaceEntries(q, s)
<1>1. /\ q.items \in Seq(Entry) /\ q.cursor \in Nat /\ Len(q.items) \in Nat /\ Len(s) \in Nat
      /\ Len(list) \in Nat /\ (s # << >> => Len(s) > 0) /\ (s = << >> => Len(s) = 0)
  BY DEF Lists
<1>2. /\ new.items = s
      /\ new.cursor = IF s = << >> THEN 0 ELSE IF q.cursor = 0 THEN 1
                      ELSE IF q.cursor > Len(s) THEN Len(s) ELSE q.cursor
  BY DEF ReplaceEntries
<1> HIDE DEF new
<1>3. new.cursor <= Len(s) /\ new.cursor \in Nat
  BY <1>1, <1>2
<1>4. ASSUME NEW i \in 1 .. Len(s), new.cursor = 0 \/ i < new.cursor PROVE s[i].owner = p
  <2>1. i < q.cursor /\ i \in 1 .. Len(q.items)
    BY <1>1, <1>2, <1>4 DEF OwnBefore
  <2>2. q.items[i].owner = p /\ q.items[i].owner = list[i].owner /\ s[i].owner = list[i].owner
    BY <2>1 DEF OwnBefore, Begins
  <2> QED BY <2>2
<1> QED BY <1>2, <1>3, <1>4 DEF OwnBefore, new

\* An update taken in time is the last one, or another is yet to come.
LEMMA ReceiveShares ==
  ASSUME IInv, IInv', GInv, NEW p \in Peer, NEW o \in Peer, NEW m \in net, Receive(p, o, m) PROVE GInv'
<1> DEFINE left == m.to \ {p}
           passed == [m EXCEPT !.to = left, !.has = @ \union {p}]
           rest == (net \ {m}) \union IF left = {} THEN {} ELSE {passed}
           q == ReplaceEntries(queue[p], m.items)
<1>1. /\ p \in m.to /\ inside' = inside
      /\ \/ GoOn(p, q, seq[p], run[p], << >>, rest, m.n) /\ Note(m.n < newest[p], "Late")
         \/ net' = rest /\ mishaps' = mishaps \union {"Denied"} /\ UNCHANGED <<queue, newest, sent>>
  BY DEF Receive, Note
<1>2. /\ m \in Messages /\ m.n \in Nat /\ m.items \in Seq(Entry) /\ m.to \subseteq Peer
      /\ p \in inside /\ m.to \subseteq inside
  BY <1>1, Typed DEF IInv, ToInside, Messages
<1>3. passed \in Messages /\ passed.n = m.n /\ passed.items = m.items /\ passed.to = left
  BY <1>2 DEF Messages
<1> HIDE DEF passed
<1>4. /\ rest \subseteq Messages
      /\ \A x \in rest : x \in net \/ (x.n = m.n /\ x.items = m.items /\ x.to = left)
      /\ \A x \in net, a \in Peer \ {p} : a \in x.to => \E y \in rest : a \in y.to /\ y.n = x.n
      /\ \A x \in net : p \in x.to => x \in rest \/ x = m
      /\ \A x \in rest : \E y \in net : x.n = y.n /\ x.items = y.items /\ x.to \subseteq y.to
  <2>1. net \subseteq Messages
    BY Typed
  <2>2. ASSUME NEW x \in net, NEW a \in Peer \ {p}, a \in x.to PROVE \E y \in rest : a \in y.to /\ y.n = x.n
    <3>1. CASE x = m
      BY <1>3, <2>2, <3>1
    <3>2. CASE x # m
      BY <2>2, <3>2
    <3> QED BY <3>1, <3>2
  <2> QED BY <1>3, <2>1, <2>2
<1> HIDE DEF rest
<1>5. q \in Lists /\ queue[p] \in Lists /\ seq[p] \in 0 .. MaxSeq /\ run[p] \in Runs /\ q.items = m.items
  <2>1. queue[p] \in Lists /\ seq[p] \in 0 .. MaxSeq /\ run[p] \in Runs
    BY Typed
  <2>2. q \in Lists
    BY <1>2, <2>1, OperationsTyped
  <2> QED BY <2>1, <2>2 DEF ReplaceEntries
<1>6. /\ newest \in [Peer -> Nat] /\ newest' \in [Peer -> Nat] /\ sent \in Nat /\ sent' \in Nat
      /\ inside \subseteq Peer /\ Counted /\ m.n <= sent /\ newest[p] <= sent /\ m.n \in 0 .. sent
      /\ \A x \in rest : x.n <= sent
  <2>1. /\ newest \in [Peer -> Nat] /\ newest' \in [Peer -> Nat] /\ sent \in Nat /\ sent' \in Nat
        /\ inside \subseteq Peer /\ Counted
    BY DEF IInv, TypeOK, GInv
  <2>2. m.n <= sent /\ newest[p] <= sent
    BY <2>1 DEF Counted
  <2>3. \A x \in rest : x.n <= sent
    BY <1>4, <2>1 DEF Counted
  <2>4. m.n \in 0 .. sent
    BY <1>2, <2>1, <2>2
  <2> QED BY <2>1, <2>2, <2>3, <2>4
<1>7. CASE net' = rest /\ mishaps' = mishaps \union {"Denied"} /\ UNCHANGED <<queue, newest, sent>>
  BY <1>1, <1>6, <1>7 DEF GInv, Counted, Fresh, Present, OneList
<1>8. CASE GoOn(p, q, seq[p], run[p], << >>, rest, m.n) /\ Note(m.n < newest[p], "Late")
  <2> HIDE DEF q
  <2>1. PICK new \in Lists :
           /\ new.cursor = q.cursor /\ Len(new.items) = Len(q.items)
           /\ \A i \in 1 .. Len(q.items) : new.items[i].owner = q.items[i].owner
           /\ \A a \in Peer \ {p} : queue'[a] = queue[a] /\ newest'[a] = newest[a]
           /\ Counted'
           /\ \/ Silent(p, q, rest, m.n)
              \/ Publishes(p, q, new, rest)
    BY <1>2, <1>4, <1>5, <1>6, <1>8, GoOnGives
  <2>2. Begins(q.items, new.items) /\ (OwnBefore(p, q) => OwnBefore(p, new))
    BY <1>5, <2>1, ReactionOwners
  <2>3. Fresh' /\ Present'
    BY <1>1, <1>2, <2>1 DEF GInv, Fresh, Present
  <2>4. ASSUME mishaps' \subseteq {"Moved"} PROVE OneList'
    <3>1. mishaps' = mishaps /\ newest[p] <= m.n
      <4>1. mishaps' = mishaps /\ ~(m.n < newest[p])
        BY <1>8, <2>4 DEF Note
      <4> QED BY <1>2, <1>6, <4>1
    <3>2. PICK list \in Seq(Entry) : InForce(list) /\ (Clean => Serial(list))
      BY <2>4, <3>1 DEF GInv, OneList
    <3>3. (\A x \in rest : p \notin x.to) => m.n = sent
      <4>1. ASSUME \A x \in rest : p \notin x.to PROVE m.n = sent
        <5>1. ~HasNone(p)
          BY <1>1 DEF HasNone
        <5>2. CASE Holds(p, list)
          BY <1>2, <1>6, <3>1, <5>1, <5>2 DEF Holds
        <5>3. CASE Awaits(p)
          BY <1>4, <4>1, <5>3 DEF Awaits
        <5> QED BY <1>2, <3>2, <5>2, <5>3 DEF InForce
      <4> QED BY <4>1
    <3>4. m.n = sent => m.items = list
      BY <3>2 DEF InForce
    <3>5. rest \subseteq net' /\ newest'[p] >= newest[p]
      <4>1. CASE Silent(p, q, rest, m.n)
        BY <4>1 DEF Silent
      <4>2. CASE Publishes(p, q, new, rest)
        BY <1>6, <4>2 DEF Publishes
      <4> QED BY <2>1, <4>1, <4>2
    <3>6. Clean' => Clean
      <4>1. \A a \in Peer : newest[a] <= newest'[a]
        <5>1. newest[p] \in Nat /\ newest'[p] \in Nat
          BY <1>6
        <5>2. \A a \in Peer \ {p} : newest[a] \in Nat /\ newest'[a] = newest[a]
          BY <1>6, <2>1
        <5> QED BY <3>5, <5>1, <5>2
      <4>2. ASSUME NEW x \in net, NEW a \in Peer, a \in x.to
            PROVE  newest[a] <= x.n \/ \E y \in rest : a \in y.to /\ y.n = x.n
        BY <1>4, <3>1, <4>2
      <4> QED BY <1>6, <3>1, <3>5, <4>1, <4>2, CleanBefore
    <3>7. Clean' => Serial(list)
      BY <3>2, <3>6
    <3>8. Clean' => OwnBefore(p, q)
      <4>1. ASSUME Clean' PROVE OwnBefore(p, q)
        <5>1. Begins(queue[p].items, list) /\ OwnBefore(p, queue[p]) /\ Begins(m.items, list)
          BY <1>2, <3>7, <4>1 DEF Serial
        <5> QED BY <1>2, <1>5, <5>1, ReplaceOwn DEF q
      <4> QED BY <4>1
    <3>9. CASE Silent(p, q, rest, m.n)
      <4>1. queue'[p] = q /\ net' = rest /\ sent' = sent /\ newest'[p] = m.n
        <5>1. newest[p] \in Nat /\ newest'[p] \in {m.n, newest[p]} /\ newest'[p] >= m.n
          BY <1>6, <3>9 DEF Silent
        <5> QED BY <1>2, <3>1, <3>9, <5>1 DEF Silent
      <4>2. Holds(p, list)' \/ Awaits(p)'
        <5>1. CASE m.n = sent
          BY <1>5, <3>4, <4>1, <5>1 DEF Holds
        <5>2. CASE m.n # sent
          <6>1. PICK y \in rest : p \in y.to
            BY <3>3, <5>2
          <6>2. ~HasNone(p)
            BY <1>1 DEF HasNone
          <6>3. newest[p] # sent
            BY <1>2, <1>6, <3>1, <5>2
          <6>4. Awaits(p)
            BY <1>2, <3>2, <6>2, <6>3 DEF InForce, Holds
          <6> QED BY <1>4, <4>1, <5>2, <6>4 DEF Awaits
        <5> QED BY <5>1, <5>2
      <4>3. ASSUME NEW a \in inside \ {p} PROVE Holds(a, list)' \/ Awaits(a)'
        <5>1. a \in Peer \ {p} /\ queue'[a] = queue[a] /\ newest'[a] = newest[a]
          BY <1>6, <2>1
        <5>2. CASE Awaits(a)
          BY <1>4, <4>1, <5>1, <5>2 DEF Awaits
        <5>3. CASE Holds(a, list)
          <6>1. HasNone(a) => HasNone(a)'
            BY <1>4, <4>1 DEF HasNone
          <6> QED BY <4>1, <5>1, <5>3, <6>1 DEF Holds
        <5> QED BY <3>2, <5>2, <5>3 DEF InForce
      <4>4. \A x \in net' : x.n = sent' => x.items = list
        BY <1>4, <3>2, <4>1 DEF InForce
      <4>5. InForce(list)'
        BY <1>1, <4>2, <4>3, <4>4 DEF InForce
      <4>6. ASSUME Clean' PROVE Serial(list)'
        <5>1. Serial(list) /\ OwnBefore(p, q)
          BY <3>7, <3>8, <4>6
        <5>2. Begins(q.items, list)
          BY <1>5, <5>1 DEF Serial
        <5>3. \A x \in net' : Begins(x.items, list)
          BY <1>4, <4>1, <5>1 DEF Serial
        <5>4. ASSUME NEW a \in inside PROVE Begins(queue'[a].items, list) /\ OwnBefore(a, queue'[a])
          BY <1>6, <2>1, <4>1, <5>1, <5>2 DEF Serial
        <5> QED BY <1>1, <5>3, <5>4 DEF Serial
      <4> QED BY <4>5, <4>6 DEF OneList
    <3>10. CASE Publishes(p, q, new, rest)
      <4>1. ASSUME Clean'
            PROVE  /\ OwnBefore(p, q) /\ \A x \in rest : Begins(x.items, q.items)
                   /\ \A a \in inside \ {p} : Begins(queue[a].items, q.items) /\ OwnBefore(a, queue[a])
        <5>1. \A x \in rest : p \notin x.to
          <6>1. sent' > sent /\ newest'[p] = sent' /\ rest \subseteq net'
            BY <3>10 DEF Publishes
          <6>2. ASSUME NEW x \in rest, p \in x.to PROVE FALSE
            <7>1. x.n \in Nat /\ x.n <= sent
              BY <1>4, <1>6 DEF Messages
            <7>2. newest'[p] <= x.n
              BY <4>1, <6>1, <6>2 DEF Clean, InTurn
            <7> QED BY <1>6, <6>1, <7>1, <7>2
          <6> QED BY <6>2
        <5>2. q.items = list
          BY <1>5, <3>3, <3>4, <5>1
        <5>3. Serial(list) /\ OwnBefore(p, q)
          BY <3>7, <3>8, <4>1
        <5>4. \A x \in rest : Begins(x.items, list)
          BY <1>4, <5>3 DEF Serial
        <5> QED BY <5>2, <5>3, <5>4 DEF Serial
      <4>2. \A a \in Peer \ {p} : queue'[a] = queue[a]
        BY <2>1
      <4> QED BY <1>1, <1>2, <1>4, <1>5, <1>6, <2>2, <3>10, <4>1, <4>2, PublishKeeps
    <3> QED BY <2>1, <3>9, <3>10
  <2> QED BY <2>1, <2>3, <2>4 DEF GInv, OneList
<1> QED BY <1>1, <1>7, <1>8

-----------------------------------------------------------------------------
\* Every step keeps one list in force.
LEMMA NextGInv == IInv /\ IInv' /\ GInv /\ [Next]_vars => GInv'
<1> SUFFICES ASSUME IInv, IInv', GInv, [Next]_vars PROVE GInv'
  OBVIOUS
<1>1. CASE UNCHANGED vars
  BY <1>1, StillShares DEF vars, lists
<1>2. ASSUME NEW p \in Peer, AppendCmd(p) PROVE GInv'
  BY <1>2, AppendShares
<1>3. ASSUME NEW p \in Peer, NEW i \in Positions(queue[p]), RemoveCmd(p, i) PROVE GInv'
  BY <1>3, RemoveShares
<1>4. ASSUME NEW p \in Peer, SkipNextCmd(p) PROVE GInv'
  BY <1>4, SkipNextShares
<1>5. ASSUME NEW p \in Peer, EncoderEnds(p) PROVE GInv'
  BY <1>5, StillShares DEF EncoderEnds
<1>6. ASSUME NEW p \in Peer, PlayerEnds(p) PROVE GInv'
  BY <1>6, PlayerEndsShares
<1>7. ASSUME NEW p \in Peer, NEW m \in net, NEW q \in Peer, Receive(p, q, m) PROVE GInv'
  BY <1>7, ReceiveShares
<1>8. ASSUME NEW p \in Peer, Admit(p) PROVE GInv'
  BY <1>8, StillShares DEF Admit
<1>9. ASSUME NEW p \in Peer, Enter(p) PROVE GInv'
  BY <1>9, EnterShares
<1> QED BY <1>1, <1>2, <1>3, <1>4, <1>5, <1>6, <1>7, <1>8, <1>9 DEF Next

\* One list is in force at all times, however many publish at once.
THEOREM AlwaysInForce == Spec => [](IInv /\ GInv)
<1>1. IInv /\ GInv /\ [Next]_vars => (IInv /\ GInv)'
  BY NextIInv, NextGInv
<1> QED BY InitIInv, InitGInv, <1>1, PTL DEF Spec

\* Everybody has the list in force when nothing is on its way.
LEMMA RestAgrees == IInv /\ GInv => Agree
<1> SUFFICES ASSUME IInv, GInv, Rest, mishaps \subseteq {"Moved"}, NEW p \in inside
             PROVE  queue[p].items = queue[Creator].items
  BY DEF Agree
<1>1. PICK list \in Seq(Entry) : InForce(list)
  BY DEF GInv, OneList
<1> QED BY <1>1 DEF GInv, Present, Rest, InForce, Holds, Awaits

\* Once every update has arrived, all peers of the session have the same list,
\* with the same numbers, though no stamp is looked at; unless an update was
\* taken late, denied, or missed by a joiner.
THEOREM AlwaysAgree == Spec => []Agree
BY AlwaysInForce, RestAgrees, PTL

\* Two encoders would be at different entries of lists that begin as one does,
\* and the later of them past the other's.
LEMMA CleanOneRuns == IInv /\ GInv => OneBroadcaster
<1> SUFFICES ASSUME IInv, GInv, mishaps = {}, InTurn
             PROVE  Cardinality({p \in Peer : run[p].at = "on"}) <= 1
  BY DEF OneBroadcaster
<1> DEFINE On == {p \in Peer : run[p].at = "on"}
<1>1. PICK list \in Seq(Entry) : Clean => Serial(list)
  BY DEF GInv, OneList
<1>2. Serial(list)
  BY <1>1 DEF Clean
<1>3. ASSUME NEW p \in Peer, run[p].at = "on"
      PROVE  /\ queue[p].cursor \in 1 .. Len(list) /\ list[queue[p].cursor].owner = p
             /\ \A i \in 1 .. Len(list) : i < queue[p].cursor => list[i].owner = p
  <2>1. p \in inside /\ Mine(p, queue[p])
    BY <1>3 DEF IInv, OutsideOff, EncodesCurrent
  <2>2. Begins(queue[p].items, list) /\ OwnBefore(p, queue[p])
    BY <1>2, <2>1 DEF Serial
  <2>3. /\ queue[p].items \in Seq(Entry) /\ Len(queue[p].items) \in Nat /\ Len(list) \in Nat
        /\ queue[p].cursor \in 1 .. Len(queue[p].items)
        /\ queue[p].items[queue[p].cursor].owner = p
    BY <1>3, <2>1, Typed DEF Mine, HasCurrent, Current, Positions
  <2>4. \A i \in 1 .. Len(queue[p].items) : queue[p].items[i].owner = list[i].owner
    BY <2>2 DEF Begins
  <2>5. Len(queue[p].items) <= Len(list)
    BY <2>2 DEF Begins
  <2>6. ASSUME NEW i \in 1 .. Len(list), i < queue[p].cursor PROVE list[i].owner = p
    <3>1. i \in 1 .. Len(queue[p].items)
      BY <2>3, <2>6
    <3> QED BY <2>2, <2>4, <2>6, <3>1 DEF OwnBefore
  <2> QED BY <2>3, <2>4, <2>5, <2>6
<1>4. ASSUME NEW p \in Peer, NEW o \in Peer, run[p].at = "on", run[o].at = "on",
             queue[p].cursor < queue[o].cursor
      PROVE  p = o
  <2>1. /\ queue[p].cursor \in 1 .. Len(list) /\ list[queue[p].cursor].owner = p
        /\ \A i \in 1 .. Len(list) : i < queue[o].cursor => list[i].owner = o
    BY <1>3, <1>4
  <2> QED BY <1>4, <2>1
<1>5. ASSUME NEW p \in Peer, NEW o \in Peer, run[p].at = "on", run[o].at = "on" PROVE p = o
  <2>1. /\ queue[p].cursor \in 1 .. Len(list) /\ list[queue[p].cursor].owner = p
        /\ queue[o].cursor \in 1 .. Len(list) /\ list[queue[o].cursor].owner = o
    BY <1>3, <1>5
  <2>2. CASE queue[p].cursor = queue[o].cursor
    BY <2>1, <2>2
  <2>3. CASE queue[p].cursor < queue[o].cursor
    BY <1>4, <1>5, <2>3
  <2>4. CASE queue[o].cursor < queue[p].cursor
    BY <1>4, <1>5, <2>4
  <2> QED BY <2>1, <2>2, <2>3, <2>4
<1>6. CASE \E p \in Peer : run[p].at = "on"
  <2>1. PICK p \in Peer : run[p].at = "on"
    BY <1>6
  <2>2. On = {p} /\ Cardinality({p}) = 1
    BY <1>5, <2>1, FS_Singleton
  <2> HIDE DEF On
  <2>3. Cardinality(On) = 1
    BY <2>2
  <2>4. Cardinality(On) <= 1
    BY <2>3
  <2> QED BY <2>4 DEF On
<1>7. CASE ~\E p \in Peer : run[p].at = "on"
  <2>1. On = {} /\ Cardinality({}) = 0
    BY <1>7, FS_EmptySet
  <2> HIDE DEF On
  <2>2. Cardinality(On) = 0
    BY <2>1
  <2>3. Cardinality(On) <= 1
    BY <2>2
  <2> QED BY <2>3 DEF On
<1> QED BY <1>6, <1>7

\* As long as users only append, and take turns, no two peers stream at the
\* same time, be updates on their way or not, and wherever their own cursors
\* are; unless an update was denied, or missed by a joiner.
THEOREM AlwaysOneBroadcaster == Spec => []OneBroadcaster
BY AlwaysInForce, CleanOneRuns, PTL

-----------------------------------------------------------------------------
(* The playlist of one peer by itself: PlayQueue, whose operations are the *)
(* same that move the lists above, for every set of entries and length.    *)

\* The cursor invariant is inductive together with the type.
PlaylistInv == PlaylistOK /\ CursorInRange

\* The empty queue has its cursor on nothing.
LEMMA InitPlaylistInv == PlaylistInit => PlaylistInv
BY DEF PlaylistInit, PlaylistInv, PlaylistOK, CursorInRange, EmptyQueue

\* Every queue operation keeps the cursor in range.
LEMMA NextPlaylistInv == PlaylistInv /\ [PlaylistNext]_playlist => PlaylistInv'
<1> SUFFICES ASSUME PlaylistInv, [PlaylistNext]_playlist PROVE PlaylistInv'
  OBVIOUS
<1>0. /\ playlist = [items |-> playlist.items, cursor |-> playlist.cursor]
      /\ playlist.items \in Seq(Entries) /\ playlist.cursor \in 0 .. Len(playlist.items)
  BY DEF PlaylistInv, PlaylistOK, CursorInRange
<1>1. ASSUME NEW e \in Entries, AppendOne(e) PROVE PlaylistInv'
  BY <1>0, <1>1 DEF AppendOne, AppendEntry, PlaylistInv, PlaylistOK, CursorInRange
<1>2. ASSUME NEW i \in 1 .. MaxLen, RemoveOne(i) PROVE PlaylistInv'
  <2>1. i \in 1 .. Len(playlist.items)
    BY <1>2 DEF RemoveOne, Positions
  <2>2. /\ RemoveAt(playlist.items, i) \in Seq(Entries)
        /\ Len(RemoveAt(playlist.items, i)) = Len(playlist.items) - 1
    BY <1>0, <2>1, RemoveAtResult
  <2> QED BY <1>0, <1>2, <2>1, <2>2
       DEF RemoveOne, RemoveEntry, PlaylistInv, PlaylistOK, CursorInRange
<1>3. CASE ClearAll
  BY <1>3 DEF ClearAll, EmptyQueue, PlaylistInv, PlaylistOK, CursorInRange
<1>4. ASSUME NEW s \in Playlists, ReplaceAllEntries(s) PROVE PlaylistInv'
  <2>1. s \in Seq(Entries)
    BY DEF Playlists
  <2>2. s # << >> => Len(s) > 0
    BY <2>1
  <2> QED BY <1>0, <1>4, <2>1, <2>2
       DEF ReplaceAllEntries, ReplaceEntries, PlaylistInv, PlaylistOK, CursorInRange
<1>5. CASE MoveNext
  BY <1>0, <1>5 DEF MoveNext, Advance, CanAdvance, PlaylistInv, PlaylistOK, CursorInRange
<1>6. CASE MovePrevious
  BY <1>0, <1>6 DEF MovePrevious, Rewind, CanRewind, PlaylistInv, PlaylistOK, CursorInRange
<1>7. CASE UNCHANGED playlist
  BY <1>7 DEF PlaylistInv, PlaylistOK, CursorInRange
<1> QED BY <1>1, <1>2, <1>3, <1>4, <1>5, <1>6, <1>7 DEF PlaylistNext, Edit

\* The queue satisfies its inductive invariant at all times.
THEOREM PlaylistInvariance == PlaylistSpec => []PlaylistInv
BY InitPlaylistInv, NextPlaylistInv, PTL DEF PlaylistSpec

\* Head never reads outside the playlist, for every playlist length.
THEOREM CursorAlwaysInRange == PlaylistSpec => []CursorInRange
BY PlaylistInvariance, PTL DEF PlaylistInv

-----------------------------------------------------------------------------
\* Each entry is in the playlist once: the identity the next theorem speaks of.
Distinct == \A a, b \in Positions(playlist) : playlist.items[a] = playlist.items[b] => a = b

\* Every queue operation keeps the entries distinct.
LEMMA NextDistinct == PlaylistInv /\ Distinct /\ [PlaylistNext]_playlist => Distinct'
<1> SUFFICES ASSUME PlaylistInv, Distinct, [PlaylistNext]_playlist PROVE Distinct'
  OBVIOUS
<1>0. playlist.items \in Seq(Entries) /\ playlist.cursor \in 0 .. Len(playlist.items)
  BY DEF PlaylistInv, PlaylistOK, CursorInRange
<1>1. ASSUME NEW e \in Entries, AppendOne(e) PROVE Distinct'
  BY <1>0, <1>1 DEF AppendOne, AppendEntry, EntriesOf, Positions, Distinct
<1>2. ASSUME NEW i \in 1 .. MaxLen, RemoveOne(i) PROVE Distinct'
  <2>1. i \in 1 .. Len(playlist.items) /\ playlist'.items = RemoveAt(playlist.items, i)
    BY <1>2 DEF RemoveOne, Positions, RemoveEntry
  <2>2. /\ Len(playlist'.items) = Len(playlist.items) - 1
        /\ \A k \in 1 .. Len(playlist.items) - 1 :
             playlist'.items[k] = IF k < i THEN playlist.items[k] ELSE playlist.items[k + 1]
    BY <1>0, <2>1, RemoveAtResult
  <2> QED BY <1>0, <2>1, <2>2 DEF Distinct, Positions
<1>3. CASE ClearAll
  BY <1>3 DEF ClearAll, EmptyQueue, Distinct, Positions
<1>4. ASSUME NEW s \in Playlists, ReplaceAllEntries(s) PROVE Distinct'
  <2>1. playlist'.items = s
    BY <1>4 DEF ReplaceAllEntries, ReplaceEntries
  <2>2. s \in Seq(Entries)
    BY DEF Playlists
  <2>3. DOMAIN s = 1 .. Len(s)
    BY <2>2
  <2>4. \A a, b \in DOMAIN s : s[a] = s[b] => a = b
    BY DEF Playlists, IsInjective
  <2> QED BY <2>1, <2>2, <2>3, <2>4 DEF Distinct, Positions
<1>5. CASE MoveNext \/ MovePrevious
  BY <1>5 DEF MoveNext, Advance, MovePrevious, Rewind, Distinct, Positions
<1>6. CASE UNCHANGED playlist
  BY <1>6 DEF Distinct, Positions
<1> QED BY <1>1, <1>2, <1>3, <1>4, <1>5, <1>6 DEF PlaylistNext, Edit

\* An entry is never in the queue twice.
THEOREM DistinctAlways == PlaylistSpec => []Distinct
<1>1. PlaylistInit => Distinct
  BY DEF PlaylistInit, EmptyQueue, Distinct, Positions
<1> QED BY <1>1, NextDistinct, PlaylistInvariance, PTL DEF PlaylistSpec

\* One edit that leaves the current entry in the queue leaves it current.
LEMMA EditStepKeepsCurrent ==
  ASSUME PlaylistInv, Distinct, Edit, HasCurrent(playlist),
         Current(playlist) \in EntriesOf(playlist')
  PROVE  HasCurrent(playlist') /\ Current(playlist') = Current(playlist)
<1>0. playlist.items \in Seq(Entries) /\ playlist.cursor \in 1 .. Len(playlist.items)
  BY DEF PlaylistInv, PlaylistOK, HasCurrent, Positions
<1>1. ASSUME NEW e \in Entries, AppendOne(e)
      PROVE  HasCurrent(playlist') /\ Current(playlist') = Current(playlist)
  <2>1. playlist'.items = Append(playlist.items, e) /\ playlist'.cursor = playlist.cursor
    BY <1>0, <1>1 DEF AppendOne, AppendEntry
  <2> QED BY <1>0, <2>1 DEF HasCurrent, Positions, Current
<1>2. ASSUME NEW i \in 1 .. MaxLen, RemoveOne(i)
      PROVE  HasCurrent(playlist') /\ Current(playlist') = Current(playlist)
  <2> DEFINE rest == RemoveAt(playlist.items, i)
  <2>1. /\ i \in 1 .. Len(playlist.items)
        /\ playlist'.items = rest
        /\ playlist'.cursor = IF playlist.cursor > i \/ playlist.cursor > Len(rest)
                           THEN playlist.cursor - 1 ELSE playlist.cursor
    BY <1>2 DEF RemoveOne, Positions, RemoveEntry
  <2>2. /\ Len(rest) = Len(playlist.items) - 1
        /\ \A k \in 1 .. Len(playlist.items) - 1 :
             rest[k] = IF k < i THEN playlist.items[k] ELSE playlist.items[k + 1]
    BY <1>0, <2>1, RemoveAtResult
  <2> HIDE DEF rest
  <2>3. PICK k \in 1 .. Len(rest) : rest[k] = playlist.items[playlist.cursor]
    BY <2>1 DEF EntriesOf, Positions, Current
  <2>4. playlist.cursor # i
    <3>1. CASE k < i
      <4>0. k \in 1 .. Len(playlist.items) - 1 /\ k \in 1 .. Len(playlist.items)
        BY <1>0, <2>1, <2>2, <2>3
      <4>1. playlist.items[k] = playlist.items[playlist.cursor]
        BY <4>0, <2>2, <2>3, <3>1
      <4> QED BY <1>0, <3>1, <4>0, <4>1 DEF Distinct, Positions
    <3>2. CASE ~(k < i)
      <4>1. playlist.items[k + 1] = playlist.items[playlist.cursor] /\ k + 1 \in 1 .. Len(playlist.items)
        BY <1>0, <2>1, <2>2, <2>3, <3>2
      <4>2. k + 1 = playlist.cursor
        BY <1>0, <4>1 DEF Distinct, Positions
      <4> QED BY <2>1, <3>2, <4>2
    <3> QED BY <3>1, <3>2
  <2>5. CASE playlist.cursor < i
    <3>1. playlist'.cursor = playlist.cursor /\ playlist.cursor \in 1 .. Len(rest)
      BY <1>0, <2>1, <2>2, <2>5
    <3>2. rest[playlist.cursor] = playlist.items[playlist.cursor]
      BY <1>0, <2>1, <2>2, <2>5
    <3> QED BY <2>1, <3>1, <3>2 DEF HasCurrent, Positions, Current
  <2>6. CASE playlist.cursor > i
    <3>1. playlist'.cursor = playlist.cursor - 1 /\ playlist.cursor - 1 \in 1 .. Len(rest)
      BY <1>0, <2>1, <2>2, <2>6
    <3>2. ~(playlist.cursor - 1 < i) /\ (playlist.cursor - 1) + 1 = playlist.cursor
      BY <1>0, <2>1, <2>6
    <3>3. rest[playlist.cursor - 1] = playlist.items[playlist.cursor]
      BY <2>2, <3>1, <3>2
    <3> QED BY <2>1, <3>1, <3>3 DEF HasCurrent, Positions, Current
  <2> QED BY <1>0, <2>1, <2>4, <2>5, <2>6
<1> QED BY <1>1, <1>2 DEF Edit

\* What is playing survives every edit of the rest of the playlist, for every
\* playlist length.
THEOREM EditAlwaysKeepsCurrent == PlaylistSpec => EditKeepsCurrent
<1>1. PlaylistInv /\ Distinct /\ [PlaylistNext]_playlist
        => [ Edit /\ HasCurrent(playlist)
               /\ Current(playlist) \in EntriesOf(playlist')
               => HasCurrent(playlist') /\ Current(playlist') = Current(playlist) ]_playlist
  BY EditStepKeepsCurrent
<1> QED BY <1>1, PlaylistInvariance, DistinctAlways, PTL DEF PlaylistSpec, EditKeepsCurrent
=============================================================================
